------------------------- MODULE ManagerStateProofs -------------------------
(***************************************************************************)
(* Proofs about Publication, for any accounts, nodes, registries and       *)
(* deployments, and about NodeConfigPage, for any number of edits, starts  *)
(* and faults: what registries serve, what they give out and whom the nodes*)
(* let in, what a backup publishes, and what is kept of the work on a page.*)
(***************************************************************************)
EXTENDS Publication, NodeConfigPage, FiniteSetTheorems, TLAPS

(***************************************************************************)
(* Deployments. One that is alone is the only one under way; those of its  *)
(* targets that it has pushed to serve its configuration and have it on    *)
(* disk. Once a deployment has settled none is under way.                  *)
(***************************************************************************)
ServicesOK == DOMAIN memory = Service /\ DOMAIN disk = Service

RegistriesOK ==
    /\ \A e \in DOMAIN registries : registries[e].service \in Service
    /\ backup # Nothing => \A e \in DOMAIN backup.registries : backup.registries[e].service \in Service

Serves(s, config) == memory[s] = config /\ disk[s] = config

Fields == {"kind", "config", "targets", "remaining", "failed", "alone"}

JobOK(j) ==
    /\ DOMAIN jobs[j] = Fields
    /\ jobs[j].failed \in BOOLEAN /\ jobs[j].alone \in BOOLEAN
    /\ \A e \in DOMAIN jobs[j].targets : jobs[j].targets[e] \in Service
    /\ jobs[j].alone => \A i \in Job \ {j} : jobs[i] = Nothing
    /\ (jobs[j].alone /\ ~jobs[j].failed) =>
           \A e \in (DOMAIN jobs[j].targets) \ jobs[j].remaining :
               Serves(jobs[j].targets[e], jobs[j].config)

JobsOK == DOMAIN jobs = Job /\ \A j \in Job : jobs[j] # Nothing => JobOK(j)

SettledOK ==
    settled # Nothing =>
        /\ \A j \in Job : jobs[j] = Nothing
        /\ settled.at \subseteq Service
        /\ \A s \in settled.at : Serves(s, settled.config)

DeployInv == ServicesOK /\ RegistriesOK /\ JobsOK /\ SettledOK

\* Nothing is deployed at first, and the registries listed are services.
LEMMA InitDeploy == Init => DeployInv
<1> SUFFICES ASSUME Init PROVE DeployInv
  OBVIOUS
<1>1. ServicesOK
  BY DEF Init, ServicesOK
<1>2. RegistriesOK
  BY PublicationAssumption DEF Init, RegistriesOK
<1>3. JobsOK /\ SettledOK
  BY DEF Init, JobsOK, SettledOK
<1> QED BY <1>1, <1>2, <1>3 DEF DeployInv

\* A step of the manager's pages touches neither deployments nor services.
LEMMA ManagerKeeps ==
    ASSUME DeployInv, UNCHANGED <<pushing, services>>, RegistriesOK'
    PROVE  DeployInv'
BY DEF DeployInv, ServicesOK, JobsOK, JobOK, SettledOK, Serves, pushing, services

\* A deployment begins: the others are no longer alone, and the last is no longer the last.
LEMMA StartKeeps ==
    ASSUME DeployInv, NEW j \in Job, NEW targets, Start(j, targets),
           \A e \in DOMAIN targets : targets[e] \in Service
    PROVE  DeployInv'
<1>1. /\ UNCHANGED <<registries, services, backup>> /\ settled' = Nothing /\ jobs[j] = Nothing
      /\ jobs' = [i \in Job |->
                    IF i = j THEN [kind |-> "job", config |-> Generated, targets |-> targets,
                                   remaining |-> DOMAIN targets, failed |-> FALSE, alone |-> ~Busy]
                    ELSE IF jobs[i] = Nothing THEN Nothing ELSE [jobs[i] EXCEPT !.alone = FALSE]]
  BY DEF Start
<1>2. ServicesOK' /\ RegistriesOK' /\ SettledOK'
  BY <1>1 DEF DeployInv, ServicesOK, RegistriesOK, SettledOK, services
<1>3. ASSUME NEW i \in Job, jobs'[i] # Nothing PROVE JobOK(i)'
  <2>1. CASE i = j
    <3> DEFINE alone == ~Busy
    <3>1. jobs'[i] = [kind |-> "job", config |-> Generated, targets |-> targets,
                      remaining |-> DOMAIN targets, failed |-> FALSE, alone |-> alone]
      BY <1>1, <2>1
    <3> HIDE DEF alone
    <3>2. ~Busy => \A k \in Job \ {j} : jobs'[k] = Nothing
      BY <1>1 DEF Busy
    <3>3. /\ DOMAIN jobs'[i] = Fields /\ jobs'[i].targets = targets /\ jobs'[i].remaining = DOMAIN targets
          /\ jobs'[i].failed = FALSE
      BY <3>1 DEF Fields
    <3>4. jobs'[i].alone \in BOOLEAN /\ (jobs'[i].alone => \A k \in Job \ {i} : jobs'[k] = Nothing)
      <4>1. CASE Busy
        <5>1. alone = FALSE
          BY Zenon, <4>1 DEF alone
        <5>2. jobs'[i].alone = FALSE
          BY <3>1, <5>1
        <5> QED BY Zenon, <5>2
      <4>2. CASE ~Busy
        <5>1. \A k \in Job \ {i} : jobs'[k] = Nothing
          BY <2>1, <3>2, <4>2
        <5>2. alone = TRUE
          BY Zenon, <4>2 DEF alone
        <5> QED BY <3>1, <5>1, <5>2
      <4> QED BY <4>1, <4>2
    <3> QED BY <3>3, <3>4 DEF JobOK
  <2>2. CASE i # j
    <3>1. jobs[i] # Nothing /\ jobs'[i] = [jobs[i] EXCEPT !.alone = FALSE]
      BY <1>1, <1>3, <2>2
    <3>2. JobOK(i)
      BY <3>1 DEF DeployInv, JobsOK
    <3> QED BY <3>1, <3>2 DEF JobOK, Fields
  <2> QED BY <2>1, <2>2
<1>4. JobsOK'
  BY <1>1, <1>3 DEF JobsOK
<1> QED BY <1>2, <1>4 DEF DeployInv

\* A deployment that pushed to its next target, or failed to: the target serves the
\* configuration now, or the deployment is marked as failed.
LEMMA AdvanceKeeps ==
    ASSUME DeployInv, NEW j \in Job, UnderWay(j), NEW failed \in BOOLEAN, Advance(j, failed),
           DOMAIN memory' = Service, DOMAIN disk' = Service,
           ~failed => \A s \in Service :
               IF s = Target(j) THEN memory'[s] = jobs[j].config /\ disk'[s] = jobs[j].config
               ELSE memory'[s] = memory[s] /\ disk'[s] = disk[s]
    PROVE  DeployInv'
<1> DEFINE next == CHOOSE e \in jobs[j].remaining : \A x \in jobs[j].remaining : e <= x
<1>1. /\ jobs[j] # Nothing /\ JobOK(j) /\ settled = Nothing
      /\ Target(j) = jobs[j].targets[next]
  BY DEF UnderWay, DeployInv, JobsOK, SettledOK, Target
<1>2. /\ jobs' = [jobs EXCEPT ![j].remaining = @ \ {next}, ![j].failed = @ \/ failed]
      /\ UNCHANGED <<registries, settled, backup>>
  BY DEF Advance
<1> HIDE DEF next
<1>3. /\ jobs'[j].config = jobs[j].config /\ jobs'[j].targets = jobs[j].targets
      /\ jobs'[j].alone = jobs[j].alone /\ DOMAIN jobs'[j] = Fields
      /\ jobs'[j].remaining = jobs[j].remaining \ {next}
      /\ jobs'[j].failed = (jobs[j].failed \/ failed)
      /\ DOMAIN jobs' = Job /\ \A i \in Job \ {j} : jobs'[i] = jobs[i]
  BY <1>1, <1>2 DEF DeployInv, JobsOK, JobOK, Fields
<1>4. JobOK(j)'
  <2>1. ASSUME ~jobs'[j].failed, jobs[j].alone,
               NEW e \in DOMAIN jobs[j].targets, e \notin jobs[j].remaining \ {next}
        PROVE  Serves(jobs[j].targets[e], jobs[j].config)'
    <3>1. ~failed /\ ~jobs[j].failed /\ jobs[j].targets[e] \in Service
      BY <1>1, <1>3, <2>1 DEF JobOK
    <3>2. CASE jobs[j].targets[e] = Target(j)
      BY <1>3, <3>1, <3>2 DEF Serves
    <3>3. CASE jobs[j].targets[e] # Target(j)
      <4>1. e \notin jobs[j].remaining
        BY <1>1, <2>1, <3>3
      <4>2. Serves(jobs[j].targets[e], jobs[j].config)
        BY <1>1, <2>1, <3>1, <4>1 DEF JobOK
      <4> QED BY <1>3, <3>1, <3>3, <4>2 DEF Serves
    <3> QED BY <3>2, <3>3
  <2>2. jobs[j].alone => \A i \in Job \ {j} : jobs'[i] = Nothing
    BY <1>1, <1>3 DEF JobOK
  <2>3. jobs'[j].failed \in BOOLEAN
    BY <1>1, <1>3 DEF JobOK
  <2> QED BY <1>1, <1>3, <2>1, <2>2, <2>3 DEF JobOK, Serves
<1>5. ASSUME NEW i \in Job \ {j}, jobs'[i] # Nothing PROVE JobOK(i)'
  <2>1. JobOK(i) /\ ~jobs[i].alone
    BY <1>1, <1>3, <1>5 DEF DeployInv, JobsOK, JobOK
  <2> QED BY <1>3, <2>1 DEF JobOK
<1>6. ServicesOK' /\ RegistriesOK' /\ SettledOK'
  BY <1>1, <1>2 DEF DeployInv, ServicesOK, RegistriesOK, SettledOK
<1>7. JobsOK'
  BY <1>3, <1>4, <1>5 DEF JobsOK
<1> QED BY <1>6, <1>7 DEF DeployInv

\* Every step keeps the deployments' invariant.
LEMMA NextDeploy == DeployInv /\ [Next]_vars => DeployInv'
<1> SUFFICES ASSUME DeployInv, [Next]_vars PROVE DeployInv'
  OBVIOUS
<1>1. CASE AccountStep \/ NodeStep
  <2>1. UNCHANGED <<pushing, services, registries, backup>>
    BY <1>1 DEF AccountStep, NodeStep, AddAccount, EditAccount, DeleteAccount, AddNode, EditNode,
                DuplicateNode, DeleteNode, EditDraft, SaveRevision, DeployNode, Elsewhere
  <2> QED BY <2>1, ManagerKeeps DEF DeployInv, RegistriesOK
<1>2. CASE RegistryStep
  <2>1. UNCHANGED <<pushing, services, backup>>
    BY <1>2 DEF RegistryStep, SaveRegistry, DuplicateRegistry, DeleteRegistry
  <2>2. \A e \in DOMAIN registries' : registries'[e].service \in Service
    <3>1. CASE \E e \in Entry : SaveRegistry(e)
      BY <3>1 DEF SaveRegistry, Set, DeployInv, RegistriesOK
    <3>2. CASE \E e \in DOMAIN registries, copy \in Entry : DuplicateRegistry(e, copy)
      BY <3>2 DEF DuplicateRegistry, Set, DeployInv, RegistriesOK
    <3>3. CASE \E e \in DOMAIN registries : DeleteRegistry(e)
      BY <3>3 DEF DeleteRegistry, Drop, DeployInv, RegistriesOK
    <3> QED BY <1>2, <3>1, <3>2, <3>3 DEF RegistryStep
  <2> QED BY <2>1, <2>2, ManagerKeeps DEF DeployInv, RegistriesOK
<1>3. CASE \E j \in Job : DeployAll(j)
  <2>1. PICK j \in Job : DeployAll(j)
    BY <1>3
  <2> DEFINE targets == [e \in {x \in DOMAIN registries : registries[x].enabled} |-> registries[e].service]
  <2>2. Start(j, targets) /\ \A e \in DOMAIN targets : targets[e] \in Service
    BY <2>1 DEF DeployAll, DeployInv, RegistriesOK
  <2> HIDE DEF targets
  <2> QED BY <2>2, StartKeeps
<1>4. CASE \E j \in Job, e \in DOMAIN registries : DeployOne(j, e)
  <2>1. PICK j \in Job, e \in DOMAIN registries : DeployOne(j, e)
    BY <1>4
  <2> DEFINE targets == [x \in {e} |-> registries[x].service]
  <2>2. Start(j, targets) /\ \A x \in DOMAIN targets : targets[x] \in Service
    BY <2>1 DEF DeployOne, DeployInv, RegistriesOK
  <2> HIDE DEF targets
  <2> QED BY <2>2, StartKeeps
<1>5. CASE LeavePage
  <2>1. UNCHANGED <<jobs, settled, services, registries, backup>>
    BY <1>5 DEF LeavePage
  <2> QED BY <2>1 DEF DeployInv, ServicesOK, RegistriesOK, JobsOK, JobOK, SettledOK, Serves, services
<1>6. ASSUME NEW j \in Job, Pushed(j) \/ PushedUnsaved(j) \/ PushedUnheard(j) \/ PushFails(j)
      PROVE  DeployInv'
  <2>1. UnderWay(j) /\ jobs[j] # Nothing /\ JobOK(j)
    BY <1>6 DEF Pushed, PushedUnsaved, PushedUnheard, PushFails, UnderWay, DeployInv, JobsOK
  <2>2. DOMAIN memory' = Service /\ DOMAIN disk' = Service
    BY <1>6 DEF Pushed, PushedUnsaved, PushedUnheard, PushFails, Updated, services, DeployInv, ServicesOK
  <2>3. CASE ~Pushed(j)
    <3>1. Advance(j, TRUE)
      BY <1>6, <2>3 DEF PushedUnsaved, PushedUnheard, PushFails
    <3> QED BY <2>1, <2>2, <3>1, AdvanceKeeps
  <2>4. CASE Pushed(j)
    <3>1. /\ memory' = [memory EXCEPT ![Target(j)] = jobs[j].config]
          /\ disk' = [disk EXCEPT ![Target(j)] = memory'[Target(j)]]
          /\ Advance(j, FALSE)
      BY <2>4 DEF Pushed, Updated, Stored
    <3>2. \A s \in Service :
              IF s = Target(j) THEN memory'[s] = jobs[j].config /\ disk'[s] = jobs[j].config
              ELSE memory'[s] = memory[s] /\ disk'[s] = disk[s]
      BY <3>1 DEF DeployInv, ServicesOK
    <3> QED BY <2>1, <2>2, <3>1, <3>2, AdvanceKeeps
  <2> QED BY <2>3, <2>4
<1>7. ASSUME NEW j \in Job, Finish(j) PROVE DeployInv'
  <2>1. /\ jobs[j] # Nothing /\ JobOK(j) /\ jobs[j].remaining = {}
        /\ jobs' = [jobs EXCEPT ![j] = Nothing] /\ UNCHANGED <<registries, services, backup>>
    BY <1>7 DEF Finish, DeployInv, JobsOK
  <2>2. DOMAIN jobs' = Job /\ jobs'[j] = Nothing /\ \A i \in Job \ {j} : jobs'[i] = jobs[i]
    BY <2>1 DEF DeployInv, JobsOK
  <2>3. JobsOK'
    <3>1. ASSUME NEW i \in Job \ {j}, jobs[i] # Nothing PROVE JobOK(i)'
      <4>1. JobOK(i)
        BY <3>1 DEF DeployInv, JobsOK
      <4>2. jobs'[i] = jobs[i] /\ \A k \in Job : jobs[k] = Nothing => jobs'[k] = Nothing
        BY <2>2
      <4> QED BY <2>1, <4>1, <4>2 DEF JobOK, Serves, services
    <3> QED BY <2>2, <3>1 DEF JobsOK
  <2>4. SettledOK'
    <3>1. CASE ~Clean(jobs[j])
      <4>1. settled' = settled /\ settled = Nothing
        BY <1>7, <2>1, <3>1 DEF Finish, DeployInv, SettledOK
      <4> QED BY <4>1 DEF SettledOK
    <3>2. CASE Clean(jobs[j])
      <4>1. /\ settled' = [kind |-> "settled", config |-> jobs[j].config,
                           at |-> {jobs[j].targets[e] : e \in DOMAIN jobs[j].targets}]
            /\ jobs[j].alone /\ ~jobs[j].failed
        BY <1>7, <3>2 DEF Finish, Clean
      <4>2. \A i \in Job : jobs'[i] = Nothing
        BY <2>1, <2>2, <4>1 DEF JobOK
      <4>3. \A e \in DOMAIN jobs[j].targets :
                jobs[j].targets[e] \in Service /\ Serves(jobs[j].targets[e], jobs[j].config)
        BY <2>1, <4>1 DEF JobOK
      <4>4. /\ settled'.config = jobs[j].config
            /\ \A s \in settled'.at : \E e \in DOMAIN jobs[j].targets : s = jobs[j].targets[e]
        BY <4>1
      <4> QED BY <2>1, <4>2, <4>3, <4>4 DEF SettledOK, Serves, services
    <3> QED BY <3>1, <3>2
  <2> QED BY <2>1, <2>3, <2>4 DEF DeployInv, ServicesOK, RegistriesOK, services
<1>8. ASSUME NEW s \in Service, Restart(s) PROVE DeployInv'
  <2>1. /\ memory' = [memory EXCEPT ![s] = disk[s]]
        /\ UNCHANGED <<registries, jobs, settled, disk, backup>>
    BY <1>8 DEF Restart, Loaded, pushing
  <2>2. DOMAIN memory' = Service /\ \A t \in Service : \A config : Serves(t, config) => Serves(t, config)'
    BY <2>1 DEF DeployInv, ServicesOK, Serves
  <2>3. JobsOK'
    BY <2>1, <2>2 DEF DeployInv, JobsOK, JobOK
  <2>4. SettledOK'
    BY <2>1, <2>2 DEF DeployInv, SettledOK
  <2> QED BY <2>1, <2>2, <2>3, <2>4 DEF DeployInv, ServicesOK, RegistriesOK
<1>9. CASE Export
  <2>1. UNCHANGED <<pushing, services, registries>> /\ backup'.registries = registries
    BY <1>9 DEF Export
  <2> QED BY <2>1, ManagerKeeps DEF DeployInv, RegistriesOK
<1>10. CASE Import
  <2>1. /\ registries' = backup.registries /\ backup # Nothing /\ jobs' = [j \in Job |-> Nothing]
        /\ UNCHANGED <<services, settled, backup>>
    BY <1>10 DEF Import
  <2> QED BY <2>1 DEF DeployInv, ServicesOK, RegistriesOK, JobsOK, SettledOK, Serves, services
<1>11. CASE Clear
  <2>1. UNCHANGED <<pushing, services, backup>> /\ registries' = <<>>
    BY <1>11 DEF Clear
  <2> QED BY <2>1, ManagerKeeps DEF DeployInv, RegistriesOK
<1>12. CASE UNCHANGED vars
  <2>1. UNCHANGED <<pushing, services, registries, backup>>
    BY <1>12 DEF vars, pushing, services
  <2> QED BY <2>1, ManagerKeeps DEF DeployInv, RegistriesOK
<1> QED BY <1>1, <1>2, <1>3, <1>4, <1>5, <1>6, <1>7, <1>8, <1>9, <1>10, <1>11, <1>12 DEF Next, PushStep

\* A deployment of registries that ended without a failure, and was the only one under way,
\* is what they serve and have on disk, through restarts (deploy_registries, registryStore).
THEOREM DeployedIsAlwaysServed == Spec => []DeployedIsServed
<1>1. DeployInv => DeployedIsServed
  BY DEF DeployInv, SettledOK, Serves, DeployedIsServed
<1> QED BY <1>1, InitDeploy, NextDeploy, PTL DEF Spec

(***************************************************************************)
(* Backups. What a backup publishes is what was published when it was      *)
(* made, since it holds every node's draft as its configuration.           *)
(***************************************************************************)
NodesOK(ns) ==
    /\ DOMAIN ns \subseteq Node
    /\ \A n \in DOMAIN ns : {"groups", "config"} \subseteq DOMAIN ns[n]

AsDrafts(ns) == [n \in Node |-> [kind |-> "draft", config |-> ns[n].config]]

BackupInv ==
    /\ DOMAIN made = {"accounts", "nodes"} /\ made.nodes \in Nat
    /\ NodesOK(nodes)
    /\ backup # Nothing => /\ NodesOK(backup.nodes)
                           /\ backup.templates = Templates(backup.nodes, AsDrafts(backup.nodes))

\* What is published of nodes depends on their groups and the configurations that count.
LEMMA TemplatesAgree ==
    ASSUME NEW ns1, NEW ds1, NEW ns2, NEW ds2, DOMAIN ns1 = DOMAIN ns2,
           \A n \in DOMAIN ns1 : /\ ns1[n].groups = ns2[n].groups
                                 /\ ConfigOf(n, ns1, ds1) = ConfigOf(n, ns2, ds2)
    PROVE  Templates(ns1, ds1) = Templates(ns2, ds2)
<1> DEFINE Of(n, ns, ds) ==
        {[node |-> n, inbound |-> i.id, form |-> i.form, groups |-> EffectiveGroups(ns[n], i)] :
            i \in Published(ns[n], ConfigOf(n, ns, ds))}
<1>1. ASSUME NEW n \in DOMAIN ns1 PROVE Of(n, ns1, ds1) = Of(n, ns2, ds2)
  <2>1. \A i : EffectiveGroups(ns1[n], i) = EffectiveGroups(ns2[n], i)
    BY <1>1 DEF EffectiveGroups
  <2>2. Published(ns1[n], ConfigOf(n, ns1, ds1)) = Published(ns2[n], ConfigOf(n, ns2, ds2))
    BY <1>1, <2>1 DEF Published, Overlaps
  <2> QED BY <2>1, <2>2
<1>2. /\ Templates(ns1, ds1) = UNION {Of(n, ns1, ds1) : n \in DOMAIN ns1}
      /\ Templates(ns2, ds2) = UNION {Of(n, ns2, ds2) : n \in DOMAIN ns2}
  BY DEF Templates
<1> HIDE DEF Of
<1> QED BY <1>1, <1>2

\* The stored nodes are nodes.
LEMMA InitBackup == Init => BackupInv
<1> SUFFICES ASSUME Init PROVE BackupInv
  OBVIOUS
<1>1. made.nodes \in Nat /\ DOMAIN made = {"accounts", "nodes"}
  BY PublicationAssumption, FS_CardinalityType DEF Init
<1> QED BY <1>1, PublicationAssumption DEF Init, BackupInv, NodesOK

\* Nodes stay nodes, and a backup is made of the drafts that count.
LEMMA NextBackup == BackupInv /\ [Next]_vars => BackupInv'
<1> SUFFICES ASSUME BackupInv, [Next]_vars PROVE BackupInv'
  OBVIOUS
<1>1. CASE AccountStep
  <2>1. UNCHANGED <<nodes, backup>> /\ DOMAIN made' = DOMAIN made /\ made'.nodes = made.nodes
    BY <1>1 DEF AccountStep, AddAccount, EditAccount, DeleteAccount, Elsewhere, BackupInv
  <2> QED BY <2>1 DEF BackupInv
<1>2. CASE AddNode \/ \E n \in DOMAIN nodes : DuplicateNode(n)
  <2>1. /\ made' = [made EXCEPT !.nodes = @ + 1] /\ made.nodes < MaxNodes /\ backup' = backup
        /\ \E nd : nodes' = Set(nodes, made.nodes + 1, nd) /\ {"groups", "config"} \subseteq DOMAIN nd
    <3>1. CASE AddNode
      <4>1. PICK groups \in GroupSets :
                nodes' = Set(nodes, made.nodes + 1, [groups |-> groups, config |-> {}])
        BY <3>1 DEF AddNode
      <4>2. {"groups", "config"} \subseteq DOMAIN [groups |-> groups, config |-> {}]
        OBVIOUS
      <4> QED BY <3>1, <4>1, <4>2 DEF AddNode, Elsewhere
    <3>2. CASE \E n \in DOMAIN nodes : DuplicateNode(n)
      BY <3>2 DEF DuplicateNode, Elsewhere, BackupInv, NodesOK
    <3> QED BY <1>2, <3>1, <3>2
  <2>2. made.nodes + 1 \in Node
    BY <2>1, PublicationAssumption DEF BackupInv, Node
  <2>3. NodesOK(nodes')
    BY <2>1, <2>2 DEF NodesOK, Set, BackupInv
  <2> QED BY <2>1, <2>3 DEF BackupInv
<1>3. ASSUME NEW n \in DOMAIN nodes,
             EditNode(n) \/ DeleteNode(n) \/ EditDraft(n) \/ SaveRevision(n) \/ DeployNode(n)
      PROVE  BackupInv'
  <2>1. UNCHANGED <<made, backup>>
    BY <1>3 DEF EditNode, DeleteNode, EditDraft, SaveRevision, DeployNode, Elsewhere, manager
  <2>2. NodesOK(nodes')
    <3>1. CASE EditNode(n)
      BY <3>1 DEF EditNode, NodesOK, BackupInv
    <3>2. CASE SaveRevision(n)
      BY <3>2 DEF SaveRevision, NodesOK, BackupInv
    <3>3. CASE DeleteNode(n)
      BY <3>3 DEF DeleteNode, Drop, NodesOK, BackupInv
    <3>4. CASE EditDraft(n) \/ DeployNode(n)
      BY <3>4 DEF EditDraft, DeployNode, manager, BackupInv
    <3> QED BY <1>3, <3>1, <3>2, <3>3, <3>4
  <2> QED BY <2>1, <2>2 DEF BackupInv
<1>4. CASE \/ RegistryStep \/ PushStep \/ (\E s \in Service : Restart(s)) \/ UNCHANGED vars
  <2>1. UNCHANGED <<nodes, made, backup>>
    BY <1>4 DEF RegistryStep, SaveRegistry, DuplicateRegistry, DeleteRegistry, PushStep, LeavePage,
                DeployAll, DeployOne, Start, Pushed, PushedUnsaved, PushedUnheard, PushFails, Advance,
                Finish, Restart, manager, vars
  <2> QED BY <2>1 DEF BackupInv
<1>5. CASE Export
  <2>1. /\ UNCHANGED <<nodes, made>> /\ backup'.nodes = Exported
        /\ backup'.templates = Templates(nodes, drafts)
    BY <1>5 DEF Export, manager
  <2>2. /\ DOMAIN Exported = DOMAIN nodes
        /\ \A n \in DOMAIN nodes : /\ DOMAIN Exported[n] = DOMAIN nodes[n]
                                   /\ Exported[n].groups = nodes[n].groups
                                   /\ Exported[n].config = ConfigOf(n, nodes, drafts)
    BY DEF Exported, BackupInv, NodesOK
  <2>3. \A n \in DOMAIN nodes : ConfigOf(n, Exported, AsDrafts(Exported)) = ConfigOf(n, nodes, drafts)
    <3>1. ASSUME NEW n \in DOMAIN nodes
          PROVE  /\ AsDrafts(Exported)[n] # Nothing
                 /\ AsDrafts(Exported)[n].config = ConfigOf(n, nodes, drafts)
      <4>1. AsDrafts(Exported)[n] = [kind |-> "draft", config |-> Exported[n].config]
        BY DEF AsDrafts, BackupInv, NodesOK
      <4>2. AsDrafts(Exported)[n].kind # Nothing.kind
        BY <4>1 DEF Nothing
      <4> QED BY <2>2, <4>1, <4>2
    <3>2. ASSUME NEW n \in DOMAIN nodes
          PROVE  ConfigOf(n, Exported, AsDrafts(Exported)) = AsDrafts(Exported)[n].config
      BY <3>1 DEF ConfigOf
    <3> HIDE DEF ConfigOf
    <3> QED BY <3>1, <3>2
  <2>4. Templates(Exported, AsDrafts(Exported)) = Templates(nodes, drafts)
    BY <2>2, <2>3, TemplatesAgree
  <2>5. NodesOK(Exported)
    BY <2>2 DEF NodesOK, BackupInv
  <2> QED BY <2>1, <2>4, <2>5 DEF BackupInv
<1>6. CASE Import
  <2>1. nodes' = backup.nodes /\ backup # Nothing /\ UNCHANGED <<made, backup>>
    BY <1>6 DEF Import
  <2> QED BY <2>1 DEF BackupInv
<1>7. CASE Clear
  <2>1. nodes' = <<>> /\ UNCHANGED <<made, backup>>
    BY <1>7 DEF Clear
  <2> QED BY <2>1 DEF BackupInv, NodesOK
<1> QED BY <1>1, <1>2, <1>3, <1>4, <1>5, <1>6, <1>7 DEF Next, NodeStep

\* Loading a backup gives registries and accounts what they were given when it was made,
\* for any nodes, drafts and groups and whatever happened since (save_data.rs).
THEOREM RestoresRepublish == Spec => RestoreRepublishes
<1>1. ASSUME BackupInv, [Next]_vars
      PROVE  [Import => /\ Generated'.accounts = backup.accounts
                        /\ Generated'.templates = backup.templates]_vars
  <2> SUFFICES ASSUME Import
               PROVE  Generated'.accounts = backup.accounts /\ Generated'.templates = backup.templates
    OBVIOUS
  <2>1. /\ accounts' = backup.accounts /\ nodes' = backup.nodes /\ backup # Nothing
        /\ drafts' = [n \in Node |-> IF n \in DOMAIN backup.nodes
                                       THEN [kind |-> "draft", config |-> backup.nodes[n].config]
                                       ELSE drafts[n]]
    BY DEF Import
  <2>2. Generated'.accounts = accounts' /\ Generated'.templates = Templates(nodes', drafts')
    <3>1. Templates(nodes, drafts)' = Templates(nodes', drafts')
      BY DEF Templates, Published, ConfigOf, Overlaps, EffectiveGroups
    <3>2. Generated' = [kind |-> "config", accounts |-> accounts',
                        templates |-> Templates(nodes, drafts)', edition |-> changes']
      BY DEF Generated
    <3> QED BY <3>1, <3>2
  <2>3. \A n \in DOMAIN backup.nodes : drafts'[n] = AsDrafts(backup.nodes)[n]
    <3>1. ASSUME NEW n \in DOMAIN backup.nodes PROVE drafts'[n] = AsDrafts(backup.nodes)[n]
      <4>1. n \in Node
        BY <1>1, <2>1 DEF BackupInv, NodesOK
      <4> QED BY <2>1, <4>1 DEF AsDrafts
    <3> QED BY <3>1
  <2>4. Templates(backup.nodes, drafts') = Templates(backup.nodes, AsDrafts(backup.nodes))
    <3>1. \A n \in DOMAIN backup.nodes :
              ConfigOf(n, backup.nodes, drafts') = ConfigOf(n, backup.nodes, AsDrafts(backup.nodes))
      BY <2>3 DEF ConfigOf
    <3> QED BY <3>1, TemplatesAgree
  <2> QED BY <1>1, <2>1, <2>2, <2>4 DEF BackupInv
<1> QED BY <1>1, InitBackup, NextBackup, PTL DEF Spec, RestoreRepublishes

(***************************************************************************)
(* Subscriptions. Every configuration that a registry has, or is about to  *)
(* be sent, says which changes it was made after. One made after the last  *)
(* change has the manager's accounts and templates; and one made after the *)
(* same change as what a node was given last names only users and inbounds *)
(* that the node was given, if the node has groups.                        *)
(***************************************************************************)
AccountsOK ==
    /\ DOMAIN made = {"accounts", "nodes"} /\ made.accounts \in Nat
    /\ DOMAIN accounts \subseteq Int
    /\ backup # Nothing => DOMAIN backup.accounts \subseteq Int

UserOf(config, t, a) == [inbound |-> t.inbound, id |-> a, token |-> config.accounts[a].token]

Agrees(config, n) ==
    \A t \in config.templates, a \in DOMAIN config.accounts :
        (t.node = n /\ t.groups # {} /\ Intersects(config.accounts[a], t.groups))
            => UserOf(config, t, a) \in admitted[n].users

Faithful(config) ==
    /\ config.edition \in Int /\ config.edition <= changes
    /\ config.edition = changes =>
           config.accounts = accounts /\ config.templates = Templates(nodes, drafts)
    /\ \A t \in config.templates : t.node \in Node
    /\ \A t, u \in config.templates : t.node = u.node => (t.groups = {} <=> u.groups = {})
    /\ \A n \in Node :
           (admitted[n] # Nothing /\ admitted[n].edition = config.edition) => Agrees(config, n)

AdmittedOK ==
    /\ DOMAIN admitted = Node
    /\ \A n \in Node : admitted[n] # Nothing =>
           /\ admitted[n].edition \in Int /\ admitted[n].edition <= changes
           /\ admitted[n].edition = changes =>
                 n \in DOMAIN nodes /\ drafts[n] # Nothing /\ admitted[n].users = Admits(n)

Sent == {memory[s] : s \in Service} \cup {disk[s] : s \in Service}
            \cup {jobs[j].config : j \in {i \in Job : jobs[i] # Nothing}}

ShareInv == changes \in Nat /\ AccountsOK /\ AdmittedOK /\ \A config \in Sent : Faithful(config)

\* A template is made of an inbound that is published.
LEMMA TemplateOf ==
    ASSUME NEW t \in Templates(nodes, drafts)
    PROVE  \E n \in DOMAIN nodes : \E i \in ConfigOf(n, nodes, drafts) :
              /\ i.enabled /\ i.form # "none" /\ Overlaps(nodes[n], i)
              /\ t.node = n /\ t.inbound = i.id /\ t.form = i.form
              /\ t.groups = EffectiveGroups(nodes[n], i)
              /\ t = [node |-> n, inbound |-> i.id, form |-> i.form, groups |-> EffectiveGroups(nodes[n], i)]
<1>1. PICK n \in DOMAIN nodes : \E i \in Published(nodes[n], ConfigOf(n, nodes, drafts)) :
          t = [node |-> n, inbound |-> i.id, form |-> i.form, groups |-> EffectiveGroups(nodes[n], i)]
  BY DEF Templates
<1>2. PICK i \in Published(nodes[n], ConfigOf(n, nodes, drafts)) :
          t = [node |-> n, inbound |-> i.id, form |-> i.form, groups |-> EffectiveGroups(nodes[n], i)]
  BY <1>1
<1> QED BY <1>2 DEF Published

\* An inbound that is published has a template.
LEMMA TemplateFor ==
    ASSUME NEW n \in DOMAIN nodes, NEW i \in ConfigOf(n, nodes, drafts),
           i.enabled, i.form # "none", Overlaps(nodes[n], i)
    PROVE  [node |-> n, inbound |-> i.id, form |-> i.form, groups |-> EffectiveGroups(nodes[n], i)]
              \in Templates(nodes, drafts)
<1>1. i \in Published(nodes[n], ConfigOf(n, nodes, drafts)) BY DEF Published
<1> QED BY <1>1 DEF Templates

\* Effective groups are groups of the node; a published inbound has none only on a node without.
LEMMA EffectiveIs ==
    ASSUME NEW nd, NEW i
    PROVE  /\ EffectiveGroups(nd, i) \subseteq nd.groups
           /\ Overlaps(nd, i) => (EffectiveGroups(nd, i) = {} <=> nd.groups = {})
           /\ Overlaps(nd, i) /\ EffectiveGroups(nd, i) = {} => i.groups = {}
BY DEF EffectiveGroups, Overlaps

\* Whoever a template's groups entitle to it is let in by the node, if it is deployed now.
LEMMA AdmitsWhatIsShown ==
    ASSUME NEW n \in DOMAIN nodes, drafts[n] # Nothing,
           NEW t \in Templates(nodes, drafts), t.node = n,
           NEW a \in DOMAIN accounts, Intersects(accounts[a], t.groups)
    PROVE  [inbound |-> t.inbound, id |-> a, token |-> accounts[a].token] \in Admits(n)
<1>1. PICK i \in ConfigOf(n, nodes, drafts) :
          i.enabled /\ t.inbound = i.id /\ t.groups = EffectiveGroups(nodes[n], i)
  BY TemplateOf
<1>2. i \in drafts[n].config BY DEF ConfigOf
<1>3. Intersects(accounts[a], nodes[n].groups) BY <1>1, EffectiveIs DEF Intersects
<1> QED BY <1>1, <1>2, <1>3 DEF Admits

\* What a deployment would send now agrees with the manager and with the nodes deployed since
\* its last change.
LEMMA GeneratedIsFaithful ==
    ASSUME changes \in Nat, NodesOK(nodes), AdmittedOK
    PROVE  Faithful(Generated)
<1>1. /\ Generated.edition = changes /\ Generated.accounts = accounts
      /\ Generated.templates = Templates(nodes, drafts)
  BY DEF Generated
<1>2. \A t \in Templates(nodes, drafts) : t.node \in Node /\ (t.groups = {} <=> nodes[t.node].groups = {})
  BY TemplateOf, EffectiveIs DEF NodesOK
<1>3. ASSUME NEW n \in Node, admitted[n] # Nothing, admitted[n].edition = changes
      PROVE  Agrees(Generated, n)
  <2>1. n \in DOMAIN nodes /\ drafts[n] # Nothing /\ admitted[n].users = Admits(n)
    BY <1>3 DEF AdmittedOK
  <2> QED BY <2>1, <1>1, AdmitsWhatIsShown DEF Agrees, UserOf
<1> QED BY <1>1, <1>2, <1>3 DEF Faithful

\* After a change no configuration that was sent is of the latest edition.
LEMMA FaithfulAfterChange ==
    ASSUME changes \in Nat, changes' = changes + 1, admitted' = admitted, NEW config, Faithful(config)
    PROVE  Faithful(config)'
BY DEF Faithful, Agrees

\* What changes neither the manager nor the nodes leaves it so.
LEMMA FaithfulOtherwise ==
    ASSUME UNCHANGED <<changes, accounts, nodes, drafts, admitted>>, NEW config, Faithful(config)
    PROVE  Faithful(config)'
<1>1. Templates(nodes, drafts)' = Templates(nodes, drafts)
  BY DEF Templates, Published, ConfigOf, Overlaps, EffectiveGroups
<1> QED BY <1>1 DEF Faithful, Agrees

\* A node that is deployed is given what the manager has now; the others keep what they had.
LEMMA DeployGives ==
    ASSUME AdmittedOK, NEW d \in DOMAIN nodes, DeployNode(d)
    PROVE  /\ UNCHANGED <<changes, accounts, nodes, drafts>> /\ drafts[d] # Nothing
           /\ DOMAIN admitted' = Node /\ \A n \in Node \ {d} : admitted'[n] = admitted[n]
           /\ d \in Node => admitted'[d].edition = changes /\ admitted'[d].users = Admits(d)
           /\ \A n : Admits(n)' = Admits(n)
<1>1. /\ UNCHANGED <<changes, accounts, nodes, drafts>> /\ drafts[d] # Nothing
      /\ admitted' = [admitted EXCEPT ![d] = [kind |-> "given", edition |-> changes, users |-> Admits(d)]]
  BY DEF DeployNode, manager
<1>2. /\ DOMAIN admitted' = Node /\ \A n \in Node \ {d} : admitted'[n] = admitted[n]
      /\ d \in Node => admitted'[d].edition = changes /\ admitted'[d].users = Admits(d)
  BY <1>1 DEF AdmittedOK
<1>3. ASSUME NEW n PROVE Admits(n)' = Admits(n)
  BY <1>1 DEF Admits
<1> QED BY <1>1, <1>2, <1>3

\* So it is with what the nodes were given.
LEMMA AdmittedAfterDeploy ==
    ASSUME AdmittedOK, changes \in Nat, NEW d \in DOMAIN nodes, DeployNode(d)
    PROVE  AdmittedOK'
<1>1. ASSUME NEW n \in Node, admitted'[n] # Nothing
      PROVE  /\ admitted'[n].edition \in Int /\ admitted'[n].edition <= changes
             /\ admitted'[n].edition = changes =>
                   n \in DOMAIN nodes /\ drafts[n] # Nothing /\ admitted'[n].users = Admits(n)'
  BY <1>1, DeployGives DEF AdmittedOK
<1> QED BY <1>1, DeployGives DEF AdmittedOK

\* A node that is deployed lets in whom the configurations of the same edition name.
LEMMA FaithfulAfterDeploy ==
    ASSUME AdmittedOK, NEW d \in DOMAIN nodes, DeployNode(d), NEW config, Faithful(config)
    PROVE  Faithful(config)'
<1>1. Templates(nodes, drafts)' = Templates(nodes, drafts)
  BY DeployGives DEF Templates, Published, ConfigOf, Overlaps, EffectiveGroups
<1>2. ASSUME NEW n \in Node, admitted'[n] # Nothing, admitted'[n].edition = config.edition
      PROVE  Agrees(config, n)'
  <2>1. CASE n # d BY <2>1, <1>2, DeployGives DEF Faithful, Agrees
  <2>2. CASE n = d
    <3>1. config.accounts = accounts /\ config.templates = Templates(nodes, drafts)
      BY <2>2, <1>2, DeployGives DEF Faithful
    <3> QED BY <3>1, <2>2, DeployGives, AdmitsWhatIsShown DEF Agrees, UserOf
  <2> QED BY <2>1, <2>2
<1> QED BY <1>1, <1>2, DeployGives DEF Faithful

\* Nothing was sent at first.
LEMMA InitShare == Init => ShareInv
<1> SUFFICES ASSUME Init PROVE ShareInv OBVIOUS
<1>1. AccountsOK
  <2>1. IsFiniteSet(DOMAIN StoredAccounts)
    <3>1. IsFiniteSet(1..MaxAccounts) BY FS_Interval, PublicationAssumption
    <3> QED BY <3>1, FS_Subset, PublicationAssumption DEF Account
  <2>2. made.accounts \in Nat /\ DOMAIN made = {"accounts", "nodes"}
    BY <2>1, FS_CardinalityType DEF Init
  <2> QED BY <2>2, PublicationAssumption DEF Init, AccountsOK, Account
<1>2. AdmittedOK BY DEF Init, AdmittedOK
<1>3. \A config \in Sent : config = Empty BY DEF Init, Sent
<1>4. Faithful(Empty)
  <2>1. Empty.edition = -1 /\ Empty.templates = {} BY DEF Empty
  <2> QED BY <2>1, <1>2 DEF Init, Faithful, AdmittedOK
<1> QED BY <1>1, <1>2, <1>3, <1>4 DEF Init, ShareInv

\* A change makes everything that was sent or given older.
LEMMA ChangeShares ==
    ASSUME ShareInv, changes' = changes + 1, admitted' = admitted, AccountsOK',
           Sent' \subseteq Sent
    PROVE  ShareInv'
<1>1. \A config \in Sent' : Faithful(config)' BY FaithfulAfterChange DEF ShareInv
<1>2. AdmittedOK' BY DEF ShareInv, AdmittedOK
<1> QED BY <1>1, <1>2 DEF ShareInv

\* Otherwise what is sent was sent before, or is what the manager has now.
LEMMA OtherwiseShares ==
    ASSUME ShareInv, NodesOK(nodes), UNCHANGED <<changes, accounts, nodes, drafts, made, admitted>>,
           backup' = backup \/ backup'.accounts = accounts,
           Sent' \subseteq Sent \cup {Generated}
    PROVE  ShareInv'
<1>1. \A config \in Sent' : Faithful(config)'
  BY FaithfulOtherwise, GeneratedIsFaithful DEF ShareInv
<1>2. AdmittedOK'
  <2>1. \A n : Admits(n)' = Admits(n) BY DEF Admits
  <2> QED BY <2>1 DEF ShareInv, AdmittedOK
<1>3. AccountsOK' BY DEF ShareInv, AccountsOK
<1> QED BY <1>1, <1>2, <1>3 DEF ShareInv

\* What is sent depends on the services and the deployments under way.
LEMMA SameSent == ASSUME UNCHANGED <<memory, disk, jobs>> PROVE Sent' = Sent
BY DEF Sent

\* Steps on the accounts page are changes.
LEMMA AccountsShare == ShareInv /\ AccountStep => ShareInv'
<1> SUFFICES ASSUME ShareInv, AccountStep PROVE ShareInv' OBVIOUS
<1>0. AccountsOK BY DEF ShareInv
<1>1. /\ changes' = changes + 1 /\ UNCHANGED <<admitted, memory, disk, jobs, backup>>
  BY DEF AccountStep, AddAccount, EditAccount, DeleteAccount, Elsewhere, Change, services, pushing
<1>2. AccountsOK'
  <2>1. CASE AddAccount
    <3>1. /\ made' = [made EXCEPT !.accounts = @ + 1]
          /\ \E v : accounts' = Set(accounts, made.accounts + 1, v)
      BY <2>1 DEF AddAccount
    <3> QED BY <3>1, <1>0, <1>1 DEF AccountsOK, Set
  <2>2. ASSUME NEW a \in DOMAIN accounts, EditAccount(a) PROVE AccountsOK'
    <3>1. made' = made /\ \E v : accounts' = Set(accounts, a, v) BY <2>2 DEF EditAccount
    <3> QED BY <3>1, <1>0, <1>1 DEF AccountsOK, Set
  <2>3. ASSUME NEW a \in DOMAIN accounts, DeleteAccount(a) PROVE AccountsOK'
    BY <2>3, <1>0, <1>1 DEF DeleteAccount, AccountsOK, Drop
  <2> QED BY <2>1, <2>2, <2>3 DEF AccountStep
<1> QED BY <1>1, <1>2, SameSent, ChangeShares

\* So are those on the nodes pages, but for the deployment of a node.
LEMMA NodesShare == ShareInv /\ NodesOK(nodes) /\ NodeStep => ShareInv'
<1> SUFFICES ASSUME ShareInv, NodesOK(nodes), NodeStep PROVE ShareInv' OBVIOUS
<1>0. AccountsOK BY DEF ShareInv
<1>1. CASE \E n \in DOMAIN nodes : DeployNode(n)
  <2>1. PICK n \in DOMAIN nodes : DeployNode(n) BY <1>1
  <2>2. UNCHANGED <<changes, memory, disk, jobs, backup, accounts, made>>
    BY <2>1 DEF DeployNode, manager, pushing, services
  <2>3. Sent' = Sent BY <2>2, SameSent
  <2>4. AccountsOK' BY <2>2, <1>0 DEF AccountsOK
  <2>5. AdmittedOK' BY <2>1, AdmittedAfterDeploy DEF ShareInv
  <2>6. \A config \in Sent' : Faithful(config)' BY <2>1, <2>3, FaithfulAfterDeploy DEF ShareInv
  <2> QED BY <2>2, <2>4, <2>5, <2>6 DEF ShareInv
<1>2. CASE ~ \E n \in DOMAIN nodes : DeployNode(n)
  <2>1. /\ changes' = changes + 1 /\ UNCHANGED <<admitted, memory, disk, jobs, backup, accounts>>
        /\ made' = made \/ made' = [made EXCEPT !.nodes = @ + 1]
    BY <1>2 DEF NodeStep, AddNode, EditNode, DuplicateNode, DeleteNode, EditDraft, SaveRevision,
                Elsewhere, Change, services, pushing
  <2>2. AccountsOK' BY <2>1, <1>0 DEF AccountsOK
  <2> QED BY <2>1, <2>2, SameSent, ChangeShares
<1> QED BY <1>1, <1>2

\* A deployment that begins sends what the manager has now; the others keep what they had.
LEMMA StartShares ==
    ASSUME ShareInv, DeployInv, NodesOK(nodes), NEW j \in Job, NEW targets, Start(j, targets)
    PROVE  ShareInv'
<1>1. /\ UNCHANGED <<changes, accounts, nodes, drafts, made, admitted, backup, memory, disk>>
      /\ jobs' = [i \in Job |->
                    IF i = j THEN [kind |-> "job", config |-> Generated, targets |-> targets,
                                   remaining |-> DOMAIN targets, failed |-> FALSE, alone |-> ~Busy]
                    ELSE IF jobs[i] = Nothing THEN Nothing ELSE [jobs[i] EXCEPT !.alone = FALSE]]
  BY DEF Start, manager, services
<1>2. ASSUME NEW i \in Job, jobs'[i] # Nothing
      PROVE  jobs'[i].config = Generated \/ (jobs[i] # Nothing /\ jobs'[i].config = jobs[i].config)
  <2>1. CASE i = j
    <3> DEFINE alone == ~Busy
    <3>1. jobs'[i] = [kind |-> "job", config |-> Generated, targets |-> targets,
                      remaining |-> DOMAIN targets, failed |-> FALSE, alone |-> alone]
      BY <1>1, <2>1
    <3> HIDE DEF alone
    <3> QED BY <3>1
  <2>2. CASE i # j
    <3>1. jobs[i] # Nothing /\ jobs'[i] = [jobs[i] EXCEPT !.alone = FALSE] BY <1>1, <1>2, <2>2
    <3>2. JobOK(i) BY <3>1 DEF DeployInv, JobsOK
    <3> QED BY <3>1, <3>2 DEF JobOK, Fields
  <2> QED BY <2>1, <2>2
<1>3. Sent' \subseteq Sent \cup {Generated} BY <1>1, <1>2 DEF Sent
<1> QED BY <1>1, <1>3, OtherwiseShares

\* Deployments of registries hand around what was generated.
LEMMA PushesShare == ShareInv /\ DeployInv /\ NodesOK(nodes) /\ PushStep => ShareInv'
<1> SUFFICES ASSUME ShareInv, DeployInv, NodesOK(nodes), PushStep PROVE ShareInv' OBVIOUS
<1>1. CASE LeavePage
  <2>1. UNCHANGED <<changes, accounts, nodes, drafts, made, admitted, backup, memory, disk, jobs>>
    BY <1>1 DEF LeavePage, manager, services
  <2> QED BY <2>1, SameSent, OtherwiseShares
<1>2. ASSUME NEW j \in Job, DeployAll(j) \/ \E e \in DOMAIN registries : DeployOne(j, e) PROVE ShareInv'
  BY <1>2, StartShares DEF DeployAll, DeployOne
<1>3. ASSUME NEW j \in Job, Pushed(j) \/ PushedUnsaved(j) \/ PushedUnheard(j) \/ PushFails(j)
      PROVE  ShareInv'
  <2>1. /\ UNCHANGED <<changes, accounts, nodes, drafts, made, admitted, backup>>
        /\ UnderWay(j) /\ \E failed : Advance(j, failed)
    BY <1>3 DEF Pushed, PushedUnsaved, PushedUnheard, PushFails, Advance, manager
  <2>2. jobs[j] # Nothing /\ JobOK(j) BY <2>1 DEF UnderWay, DeployInv, JobsOK
  <2>3. \A i \in Job : jobs'[i] # Nothing => jobs[i] # Nothing /\ jobs'[i].config = jobs[i].config
    <3>1. /\ DOMAIN jobs' = Job /\ \A i \in Job \ {j} : jobs'[i] = jobs[i]
          /\ jobs'[j].config = jobs[j].config
      BY <2>1, <2>2 DEF Advance, DeployInv, JobsOK, JobOK, Fields
    <3> QED BY <3>1, <2>2
  <2>4. \A s \in Service : memory'[s] \in {memory[s], jobs[j].config}
    BY <1>3 DEF Pushed, PushedUnsaved, PushedUnheard, PushFails, Updated, Stored, services, DeployInv,
                ServicesOK
  <2>5. \A s \in Service : disk'[s] \in {disk[s], memory'[s]}
    BY <1>3 DEF Pushed, PushedUnsaved, PushedUnheard, PushFails, services, DeployInv, ServicesOK
  <2>6. Sent' \subseteq Sent BY <2>2, <2>3, <2>4, <2>5 DEF Sent
  <2> QED BY <2>1, <2>6, OtherwiseShares
<1>4. ASSUME NEW j \in Job, Finish(j) PROVE ShareInv'
  <2>1. /\ UNCHANGED <<changes, accounts, nodes, drafts, made, admitted, backup, memory, disk>>
        /\ jobs' = [jobs EXCEPT ![j] = Nothing]
    BY <1>4 DEF Finish, manager, services
  <2>2. Sent' \subseteq Sent BY <2>1 DEF Sent, DeployInv, JobsOK
  <2> QED BY <2>1, <2>2, OtherwiseShares
<1> QED BY <1>1, <1>2, <1>3, <1>4 DEF PushStep

\* Every step keeps the invariant.
LEMMA NextShare == ShareInv /\ DeployInv /\ BackupInv /\ [Next]_vars => ShareInv'
<1> SUFFICES ASSUME ShareInv, DeployInv, BackupInv, [Next]_vars PROVE ShareInv' OBVIOUS
<1>0. NodesOK(nodes) /\ AccountsOK BY DEF BackupInv, ShareInv
<1>1. CASE AccountStep BY <1>1, AccountsShare
<1>2. CASE NodeStep BY <1>0, <1>2, NodesShare
<1>3. CASE RegistryStep
  <2>1. /\ changes' = changes + 1
        /\ UNCHANGED <<admitted, memory, disk, jobs, backup, accounts, made>>
    BY <1>3 DEF RegistryStep, SaveRegistry, DuplicateRegistry, DeleteRegistry, Change, manager, pushing,
                services
  <2>2. AccountsOK' BY <2>1, <1>0 DEF AccountsOK
  <2> QED BY <2>1, <2>2, SameSent, ChangeShares
<1>4. CASE PushStep BY <1>0, <1>4, PushesShare
<1>5. ASSUME NEW s \in Service, Restart(s) PROVE ShareInv'
  <2>1. /\ UNCHANGED <<changes, accounts, nodes, drafts, made, admitted, backup, disk, jobs>>
        /\ memory' = [memory EXCEPT ![s] = disk[s]]
    BY <1>5 DEF Restart, Loaded, manager, pushing
  <2>2. Sent' \subseteq Sent BY <2>1 DEF Sent, DeployInv, ServicesOK
  <2> QED BY <1>0, <2>1, <2>2, OtherwiseShares
<1>6. CASE Export
  <2>1. /\ UNCHANGED <<changes, accounts, nodes, drafts, made, admitted, memory, disk, jobs>>
        /\ backup'.accounts = accounts
    BY <1>6 DEF Export, manager, pushing, services
  <2> QED BY <1>0, <2>1, SameSent, OtherwiseShares
<1>7. CASE Import
  <2>1. /\ changes' = changes + 1 /\ UNCHANGED <<admitted, memory, disk, backup, made>>
        /\ backup # Nothing /\ accounts' = backup.accounts /\ jobs' = [j \in Job |-> Nothing]
    BY <1>7 DEF Import, Change, services
  <2>2. AccountsOK' BY <2>1, <1>0 DEF AccountsOK
  <2>3. Sent' \subseteq Sent BY <2>1 DEF Sent
  <2> QED BY <2>1, <2>2, <2>3, ChangeShares
<1>8. CASE Clear
  <2>1. /\ changes' = changes + 1 /\ UNCHANGED <<admitted, memory, disk, jobs, backup, made>>
        /\ accounts' = <<>>
    BY <1>8 DEF Clear, Change, services, pushing
  <2>2. AccountsOK' BY <2>1, <1>0 DEF AccountsOK
  <2> QED BY <2>1, <2>2, SameSent, ChangeShares
<1>9. CASE UNCHANGED vars
  <2>1. UNCHANGED <<changes, accounts, nodes, drafts, made, admitted, backup, memory, disk, jobs>>
    BY <1>9 DEF vars
  <2> QED BY <1>0, <2>1, SameSent, OtherwiseShares
<1> QED BY <1>1, <1>2, <1>3, <1>4, <1>5, <1>6, <1>7, <1>8, <1>9 DEF Next

\* It holds throughout, and so do those it rests on.
LEMMA ShareInvariance == Spec => [](ShareInv /\ DeployInv /\ BackupInv)
<1>1. ShareInv /\ DeployInv /\ BackupInv /\ [Next]_vars => (ShareInv /\ DeployInv /\ BackupInv)'
  BY NextShare, NextDeploy, NextBackup
<1> QED BY <1>1, InitShare, InitDeploy, InitBackup, PTL DEF Spec

\* Every link a registry gives out is let in by its node, if the node was deployed from the same
\* state, for any groups, templates, edits and restarts (buildSubscriptionLinks, build_full_config).
THEOREM WhatIsGivenIsAdmitted == Spec => []SubscriptionIsAdmitted
<1>1. ShareInv => SubscriptionIsAdmitted
  <2> SUFFICES ASSUME ShareInv, NEW s \in Service, NEW token \in Token,
                      NEW l \in PerAccount(Subscription(memory[s], token)),
                      admitted[l.node] # Nothing, admitted[l.node].edition = memory[s].edition,
                      NEW u \in memory[s].templates, u.node = l.node, u.groups # {}
               PROVE  LetsIn(admitted[l.node].users, l)
    BY DEF SubscriptionIsAdmitted
  <2> DEFINE c == memory[s]
  <2>1. Faithful(c) BY DEF ShareInv, Sent
  <2>2. l \in Subscription(c, token) /\ CarriesToken(l.form) BY DEF PerAccount
  <2> HIDE DEF c
  <2>3. PICK a \in First(c, token) : \E t \in c.templates :
            Entitled(c.accounts[a], t.groups) /\ l = Rendered(t, a, token)
    BY <2>2 DEF Subscription
  <2>4. PICK t \in c.templates : Entitled(c.accounts[a], t.groups) /\ l = Rendered(t, a, token)
    BY <2>3
  <2>5. a \in DOMAIN c.accounts /\ c.accounts[a].token = token BY DEF First
  <2>6. /\ l.node = t.node /\ l.inbound = t.inbound /\ l.form = t.form
        /\ l.id \in {0, a} /\ l.token = token
    BY <2>2, <2>4 DEF Rendered
  <2>7. t.node \in Node /\ t.groups # {} BY <2>1, <2>6 DEF Faithful, c
  <2>8. Agrees(c, t.node) BY <2>1, <2>6, <2>7 DEF Faithful, c
  <2>9. UserOf(c, t, a) \in admitted[t.node].users
    BY <2>4, <2>5, <2>7, <2>8 DEF Agrees, Entitled
  <2> QED BY <2>5, <2>6, <2>9 DEF LetsIn, UserOf
<1> QED BY <1>1, ShareInvariance, PTL

\* While nothing has changed since, a registry gives a user what the accounts page and the nodes'
\* pages show for him (buildSubscriptionLinks, collect_account_proxy_links).
THEOREM WhatIsGivenIsShown == Spec => []SubscriptionIsShown
<1>1. ShareInv /\ DeployInv => SubscriptionIsShown
  <2> SUFFICES ASSUME ShareInv, DeployInv, NEW e \in DOMAIN registries, NEW a \in DOMAIN accounts,
                      memory[Address(e, a).service].edition = changes, Named(a)
               PROVE  LET links == Subscription(memory[Address(e, a).service], Address(e, a).token)
                      IN  /\ {l \in links : nodes[l.node].groups # {}} = LinksOf(a)
                          /\ PerAccount(links) = PerAccount(AccessLinks(a))
    BY DEF SubscriptionIsShown
  <2> DEFINE s == registries[e].service
             c == memory[s]
             token == accounts[a].token
             T == Templates(nodes, drafts)
  <2>1. Address(e, a).service = s /\ Address(e, a).token = token /\ s \in Service
    BY DEF Address, DeployInv, RegistriesOK
  <2>2. c.accounts = accounts /\ c.templates = T
    <3>1. Faithful(c) BY <2>1 DEF ShareInv, Sent
    <3> QED BY <2>1, <3>1 DEF Faithful
  <2>3. First(c, token) = {a}
    BY <2>2 DEF First, Named, ShareInv, AccountsOK
  <2>4. Subscription(c, token) = {Rendered(t, a, token) : t \in {x \in T : Entitled(accounts[a], x.groups)}}
    BY <2>2, <2>3 DEF Subscription
  <2> HIDE DEF c, s, T, token
  <2> DEFINE links == Subscription(c, token)
  <2>5. \A t \in T : t.groups = {} <=> nodes[t.node].groups = {} BY TemplateOf, EffectiveIs DEF T
  <2>6. {l \in links : nodes[l.node].groups # {}} = LinksOf(a)
    <3>1. LinksOf(a) = {Rendered(t, a, token) : t \in {x \in T : Intersects(accounts[a], x.groups)}}
      BY DEF LinksOf, T, token
    <3>2. \A t : Rendered(t, a, token).node = t.node BY DEF Rendered
    <3>3. \A t \in T : Intersects(accounts[a], t.groups) <=>
                          Entitled(accounts[a], t.groups) /\ nodes[t.node].groups # {}
      BY <2>5 DEF Intersects, Entitled
    <3> QED BY <2>4, <3>1, <3>2, <3>3
  <2>7. PerAccount(links) = PerAccount(AccessLinks(a))
    <3>1. ASSUME NEW n \in DOMAIN nodes, NEW i \in ConfigOf(n, nodes, drafts), CarriesToken(i.form)
          PROVE  /\ Rendered([node |-> n, inbound |-> i.id, form |-> i.form,
                              groups |-> EffectiveGroups(nodes[n], i)], a, token) = AccessLink(n, i, a)
                 /\ i.form \notin {"own", "none"}
                 /\ Offers(n, i, a) <=> Overlaps(nodes[n], i)
                                        /\ Entitled(accounts[a], EffectiveGroups(nodes[n], i))
      <4>1. i.form \in {"token", "idToken"} BY <3>1 DEF CarriesToken
      <4>2. /\ CarriesToken(i.form) /\ (CarriesId(i.form) <=> i.form # "token")
            /\ i.form \notin {"own", "none"}
        BY <4>1 DEF CarriesToken, CarriesId
      <4>3. Offers(n, i, a) <=> Overlaps(nodes[n], i)
                                        /\ Entitled(accounts[a], EffectiveGroups(nodes[n], i))
        BY EffectiveIs DEF Offers, Overlaps, Entitled
      <4> QED BY <4>2, <4>3 DEF Rendered, AccessLink, token
    <3>2. ASSUME NEW l \in links, CarriesToken(l.form) PROVE l \in AccessLinks(a)
      <4>1. PICK t \in T : Entitled(accounts[a], t.groups) /\ l = Rendered(t, a, token) BY <2>4
      <4>2. PICK n \in DOMAIN nodes : \E i \in ConfigOf(n, nodes, drafts) :
              /\ i.enabled /\ i.form # "none" /\ Overlaps(nodes[n], i)
              /\ t.form = i.form /\ t.groups = EffectiveGroups(nodes[n], i)
              /\ t = [node |-> n, inbound |-> i.id, form |-> i.form, groups |-> EffectiveGroups(nodes[n], i)]
        BY TemplateOf DEF T
      <4>3. PICK i \in ConfigOf(n, nodes, drafts) :
              /\ i.enabled /\ i.form # "none" /\ Overlaps(nodes[n], i)
              /\ t.form = i.form /\ t.groups = EffectiveGroups(nodes[n], i)
              /\ t = [node |-> n, inbound |-> i.id, form |-> i.form, groups |-> EffectiveGroups(nodes[n], i)]
        BY <4>2
      <4>4. l.form = i.form BY <4>1, <4>3 DEF Rendered
      <4>5. l = AccessLink(n, i, a) /\ Offers(n, i, a) /\ i.form \notin {"own", "none"}
        BY <3>1, <3>2, <4>1, <4>3, <4>4
      <4> QED BY <4>3, <4>5 DEF AccessLinks
    <3>3. ASSUME NEW l \in AccessLinks(a), CarriesToken(l.form) PROVE l \in links
      <4>1. PICK n \in DOMAIN nodes : \E i \in ConfigOf(n, nodes, drafts) :
              i.enabled /\ i.form \notin {"own", "none"} /\ Offers(n, i, a) /\ l = AccessLink(n, i, a)
        BY DEF AccessLinks
      <4>2. PICK i \in ConfigOf(n, nodes, drafts) :
              i.enabled /\ i.form \notin {"own", "none"} /\ Offers(n, i, a) /\ l = AccessLink(n, i, a)
        BY <4>1
      <4> DEFINE t == [node |-> n, inbound |-> i.id, form |-> i.form, groups |-> EffectiveGroups(nodes[n], i)]
      <4>3. CarriesToken(i.form) BY <3>3, <4>2 DEF AccessLink
      <4>4. Rendered(t, a, token) = l /\ Overlaps(nodes[n], i) /\ Entitled(accounts[a], t.groups)
        BY <3>1, <4>2, <4>3
      <4>5. t \in T BY <4>2, <4>4, TemplateFor DEF T
      <4> HIDE DEF t
      <4> QED BY <2>4, <4>4, <4>5
    <3> QED BY <3>2, <3>3 DEF PerAccount
  <2> QED BY <2>1, <2>6, <2>7 DEF c
<1> QED BY <1>1, ShareInvariance, PTL

(***************************************************************************)
(* The configuration page and storage. Unless there is doubt, what was done*)
(* last is in memory and in LocalStorage, and every answer that is still to*)
(* come, and the file it will be read from, says the same. A file differs  *)
(* from LocalStorage only while the one write that will mend it is pending.*)
(***************************************************************************)
KeptThings == {"state", "draft"}

PageTypeOK ==
    /\ desktop \in BOOLEAN
    /\ DOMAIN local = KeptThings /\ DOMAIN files = KeptThings /\ DOMAIN latest = KeptThings
    /\ doubtful \in [KeptThings -> BOOLEAN]
    /\ overtaken \in [KeptThings -> BOOLEAN]
    /\ \A r \in requests : r.what \in KeptThings /\ (r.kind = "load" => "answer" \in DOMAIN r)
    /\ page # Absent => {"draft", "selected"} \subseteq DOMAIN page
    /\ latest.draft # Absent => latest.draft = Draft(latest.draft.draft)
    /\ latest.draft = Absent => page = Absent
    /\ "flying" \in DOMAIN deploys

BrowserAlone == ~desktop => requests = {} /\ ~doubtful.state /\ ~doubtful.draft

StateKept ==
    ~doubtful.state =>
        /\ state = latest.state /\ local.state = latest.state
        /\ \A r \in requests : Asked("state", r) => r.answer \in {Absent, latest.state}
        /\ Waits("state") => files.state = latest.state /\ Writes("state") = {}

DraftKept ==
    ~doubtful.draft =>
        /\ latest.draft # Absent =>
              /\ local.draft = latest.draft
              /\ page # Absent => Draft(page.draft) = latest.draft
        /\ \A r \in requests : Asked("draft", r) => r.answer \in {Absent, latest.draft}
        /\ Waits("draft") => /\ latest.draft # Absent
                             /\ files.draft \in {Absent, Torn, latest.draft}
                             /\ \A r \in Writes("draft") : r.content = latest.draft

FileKept(what) ==
    desktop /\ ~doubtful[what] /\ ~overtaken[what] =>
        \/ Writes(what) = {} /\ files[what] = local[what]
        \/ Writes(what) = {Save(what, local[what])}

ConfirmedIsUnderWay ==
    confirmed # Absent =>
        \/ deploys.flying = {} /\ serves = confirmed
        \/ \E d \in deploys.flying : deploys.flying = {d} /\ Draft(d.draft) = confirmed

PageInv ==
    /\ PageTypeOK /\ BrowserAlone /\ StateKept /\ DraftKept
    /\ \A what \in KeptThings : FileKept(what)
    /\ ConfirmedIsUnderWay

(***************************************************************************)
(* What the parts of the steps do.                                         *)
(***************************************************************************)
\* A draft is neither missing nor torn.
LEMMA DraftIsThere == \A d : Draft(d) # Absent /\ Draft(d) # Torn /\ Draft(d).draft = d
BY DEF Draft, Absent, Torn

\* What a request to write says.
LEMMA SaveIs ==
    ASSUME NEW what, NEW c
    PROVE  /\ Save(what, c).kind = "save" /\ Save(what, c).what = what
           /\ Save(what, c).content = c
BY DEF Save

\* What a request to read says, before it is answered.
LEMMA LoadIs ==
    ASSUME NEW what, NEW s, NEW o
    PROVE  LET l == Load(what, s, o) IN
             l.kind = "load" /\ l.what = what /\ l.answer = Absent /\ "answer" \in DOMAIN l
BY DEF Load

\* What is done while an answer is awaited is doubtful; otherwise the doubt ends.
LEMMA DoubtIs ==
    ASSUME doubtful \in [KeptThings -> BOOLEAN], NEW what \in KeptThings, Doubt(what)
    PROVE  /\ doubtful' \in [KeptThings -> BOOLEAN]
           /\ doubtful'[what] <=> Waits(what)
           /\ \A w \in KeptThings : w # what => doubtful'[w] = doubtful[w]
<1> DEFINE B == Waits(what)
<1>1. doubtful' = [doubtful EXCEPT ![what] = B] BY DEF Doubt
<1>2. B \in BOOLEAN BY DEF Waits
<1> HIDE DEF B
<1>3. /\ doubtful' \in [KeptThings -> BOOLEAN]
      /\ doubtful'[what] = B
      /\ \A w \in KeptThings : w # what => doubtful'[w] = doubtful[w]
  BY <1>1, <1>2
<1> QED BY <1>3 DEF B

\* A write that is asked for beside another may overtake it, and that is not forgotten.
LEMMA OvertakenIs ==
    ASSUME overtaken \in [KeptThings -> BOOLEAN], NEW what \in KeptThings, Overtakes(what)
    PROVE  /\ overtaken' \in [KeptThings -> BOOLEAN]
           /\ ~overtaken'[what] => ~overtaken[what] /\ Writes(what) = {}
           /\ \A w \in KeptThings : w # what => overtaken'[w] = overtaken[w]
<1> DEFINE B == overtaken[what] \/ Writes(what) # {}
<1>1. overtaken' = [overtaken EXCEPT ![what] = B] BY DEF Overtakes
<1>2. B \in BOOLEAN OBVIOUS
<1> HIDE DEF B
<1>3. /\ overtaken' \in [KeptThings -> BOOLEAN]
      /\ overtaken'[what] = B
      /\ \A w \in KeptThings : w # what => overtaken'[w] = overtaken[w]
  BY <1>1, <1>2
<1> QED BY <1>3 DEF B

\* What is asked for besides is only what is new.
LEMMA AskedMore ==
    ASSUME NEW rs, requests' = requests \cup rs, NEW what
    PROVE  /\ Writes(what)' = Writes(what) \cup {r \in rs : r.kind = "save" /\ r.what = what}
           /\ Waits(what)' <=> Waits(what) \/ \E r \in rs : Asked(what, r)
BY DEF Writes, Waits, Asked

(***************************************************************************)
(* The steps.                                                              *)
(***************************************************************************)
\* At the start nothing is under way but the question for the state.
LEMMA InitPage == PageInit => PageInv
<1> SUFFICES ASSUME PageInit PROVE PageInv OBVIOUS
<1> USE DEF PageInit, KeptThings
<1>1. PageTypeOK
  <2>1. \A r \in requests : r.what \in KeptThings /\ "answer" \in DOMAIN r
    BY LoadIs DEF InDesktop
  <2>2. doubtful \in [KeptThings -> BOOLEAN] /\ overtaken \in [KeptThings -> BOOLEAN]
    <3>1. doubtful = [state |-> FALSE, draft |-> FALSE] /\ overtaken = doubtful OBVIOUS
    <3>2. doubtful \in [KeptThings -> BOOLEAN]
      <4>1. DOMAIN doubtful = KeptThings BY <3>1
      <4>2. doubtful = [w \in DOMAIN doubtful |-> doubtful[w]] BY <3>1
      <4>3. doubtful["state"] = FALSE /\ doubtful["draft"] = FALSE BY <3>1
      <4> QED BY <4>1, <4>2, <4>3
    <3> QED BY <3>1, <3>2
  <2>3. DOMAIN local = KeptThings /\ DOMAIN files = KeptThings /\ DOMAIN latest = KeptThings
    OBVIOUS
  <2>4. latest.draft = Absent OBVIOUS
  <2> QED BY <2>1, <2>2, <2>3, <2>4 DEF PageTypeOK
<1>2. BrowserAlone BY DEF BrowserAlone, InDesktop
<1>3. \A r \in requests : r.kind = "load" /\ r.what = "state" /\ r.answer = Absent
  BY LoadIs DEF InDesktop
<1>4. \A what \in KeptThings : Writes(what) = {} /\ ~Waits("draft")
  BY <1>3 DEF Writes, Waits, Asked
<1>5. requests # {} => desktop BY DEF InDesktop
<1>6. StateKept BY <1>3, <1>4, <1>5 DEF StateKept, Waits
<1>7. DraftKept BY <1>3, <1>4 DEF DraftKept, Asked
<1>8. \A what \in KeptThings : FileKept(what) BY <1>4 DEF FileKept
<1>9. ConfirmedIsUnderWay BY DEF ConfirmedIsUnderWay
<1> QED BY <1>1, <1>2, <1>6, <1>7, <1>8, <1>9 DEF PageInv

\* A state that is saved is the last thing done to it.
LEMMA StateIsSaved ==
    ASSUME PageInv, NEW c, SaveState(c),
           UNCHANGED <<desktop, files, counters, node>>,
           page' = page \/ (page # Absent /\ \E k : page' = [page EXCEPT !.selected = k])
    PROVE  PageInv'
<1> USE DEF PageInv, KeptThings
<1>0. PageTypeOK BY DEF PageInv
<1> DEFINE rs == InDesktop({Save("state", c)})
<1>1. /\ requests' = requests \cup rs /\ Doubt("state") /\ Overtakes("state")
      /\ state' = c /\ local' = [local EXCEPT !.state = c] /\ latest' = [latest EXCEPT !.state = c]
  BY DEF SaveState, Persist, Kept
<1>2. /\ \A r \in rs : r.kind = "save" /\ r.what = "state" /\ r.content = c
      /\ rs = IF desktop THEN {Save("state", c)} ELSE {}
  BY SaveIs DEF InDesktop
<1> HIDE DEF rs
<1>3. /\ doubtful' \in [KeptThings -> BOOLEAN]
      /\ doubtful'["state"] <=> Waits("state")
      /\ doubtful'["draft"] = doubtful["draft"]
  BY <1>0, <1>1, DoubtIs DEF PageTypeOK
<1>4. /\ overtaken' \in [KeptThings -> BOOLEAN]
      /\ ~overtaken'["state"] => ~overtaken["state"] /\ Writes("state") = {}
      /\ overtaken'["draft"] = overtaken["draft"]
  BY <1>0, <1>1, OvertakenIs DEF PageTypeOK
<1>5. /\ local'["state"] = c /\ local'["draft"] = local["draft"] /\ DOMAIN local' = KeptThings
      /\ latest'["state"] = c /\ latest'["draft"] = latest["draft"] /\ DOMAIN latest' = KeptThings
  BY <1>0, <1>1 DEF PageTypeOK
<1>6. /\ page' = Absent <=> page = Absent
      /\ page # Absent => page'.draft = page.draft /\ {"draft", "selected"} \subseteq DOMAIN page'
  <2>1. CASE page' = page BY <2>1, <1>0 DEF PageTypeOK
  <2>2. CASE page # Absent /\ \E k : page' = [page EXCEPT !.selected = k]
    <3>1. DOMAIN page' = DOMAIN page /\ page'.draft = page.draft /\ "draft" \in DOMAIN page
      BY <2>2, <1>0 DEF PageTypeOK
    <3>2. page' # Absent BY <3>1 DEF Absent
    <3> QED BY <2>2, <3>1, <3>2, <1>0 DEF PageTypeOK
  <2> QED BY <2>1, <2>2
<1>7. /\ Writes("state")' = Writes("state") \cup rs /\ Writes("draft")' = Writes("draft")
      /\ Waits("state")' <=> Waits("state")
      /\ Waits("draft")' <=> Waits("draft")
  <2>1. \A r \in rs : ~Asked("state", r) /\ ~Asked("draft", r) BY <1>2 DEF Asked
  <2>2. Writes("state")' = Writes("state") \cup rs BY <1>1, <1>2 DEF Writes
  <2>3. Writes("draft")' = Writes("draft") BY <1>1, <1>2 DEF Writes
  <2>4. (Waits("state")' <=> Waits("state")) /\ (Waits("draft")' <=> Waits("draft"))
    BY <1>1, <2>1, AskedMore
  <2> QED BY <2>2, <2>3, <2>4
<1>8. PageTypeOK'
  BY <1>0, <1>1, <1>2, <1>3, <1>4, <1>5, <1>6 DEF PageTypeOK, node
<1>9. BrowserAlone'
  BY <1>1, <1>2, <1>3 DEF BrowserAlone, Waits
<1>10. StateKept'
  BY <1>1, <1>2, <1>3, <1>5, <1>7 DEF StateKept, Waits, Asked
<1>11. DraftKept'
  BY <1>1, <1>2, <1>3, <1>5, <1>6, <1>7 DEF DraftKept, Asked
<1>12. FileKept("state")'
  BY <1>2, <1>3, <1>4, <1>5, <1>7 DEF FileKept
<1>13. FileKept("draft")'
  BY <1>3, <1>4, <1>5, <1>7 DEF FileKept
<1>14. ConfirmedIsUnderWay' BY DEF ConfirmedIsUnderWay, node
<1> QED BY <1>8, <1>9, <1>10, <1>11, <1>12, <1>13, <1>14

\* A draft that is set is the last thing done to it.
LEMMA DraftIsSet ==
    ASSUME PageInv, NEW d, NEW k, SetDraft(d, k), page # Absent,
           UNCHANGED <<desktop, state, files, node>>
    PROVE  PageInv'
<1> USE DEF PageInv, KeptThings
<1>0. PageTypeOK BY DEF PageInv
<1> DEFINE rs == InDesktop({Save("draft", Draft(d))})
<1>1. /\ requests' = requests \cup rs /\ Doubt("draft") /\ Overtakes("draft")
      /\ local' = [local EXCEPT !.draft = Draft(d)] /\ latest' = [latest EXCEPT !.draft = Draft(d)]
      /\ page' = [page EXCEPT !.draft = d, !.selected = k]
  BY DEF SetDraft, Persist
<1>2. /\ \A r \in rs : r.kind = "save" /\ r.what = "draft" /\ r.content = Draft(d)
      /\ rs = IF desktop THEN {Save("draft", Draft(d))} ELSE {}
  BY SaveIs DEF InDesktop
<1> HIDE DEF rs
<1>3. /\ doubtful' \in [KeptThings -> BOOLEAN]
      /\ doubtful'["draft"] <=> Waits("draft")
      /\ doubtful'["state"] = doubtful["state"]
  BY <1>0, <1>1, DoubtIs DEF PageTypeOK
<1>4. /\ overtaken' \in [KeptThings -> BOOLEAN]
      /\ ~overtaken'["draft"] => ~overtaken["draft"] /\ Writes("draft") = {}
      /\ overtaken'["state"] = overtaken["state"]
  BY <1>0, <1>1, OvertakenIs DEF PageTypeOK
<1>5. /\ local'["draft"] = Draft(d) /\ local'["state"] = local["state"] /\ DOMAIN local' = KeptThings
      /\ latest'["draft"] = Draft(d) /\ latest'["state"] = latest["state"] /\ DOMAIN latest' = KeptThings
  BY <1>0, <1>1 DEF PageTypeOK
<1>6. page'.draft = d /\ {"draft", "selected"} \subseteq DOMAIN page'
  BY <1>0, <1>1 DEF PageTypeOK
<1>7. /\ Writes("draft")' = Writes("draft") \cup rs /\ Writes("state")' = Writes("state")
      /\ Waits("state")' <=> Waits("state")
      /\ Waits("draft")' <=> Waits("draft")
  <2>1. \A r \in rs : ~Asked("state", r) /\ ~Asked("draft", r) BY <1>2 DEF Asked
  <2>2. Writes("draft")' = Writes("draft") \cup rs BY <1>1, <1>2 DEF Writes
  <2>3. Writes("state")' = Writes("state") BY <1>1, <1>2 DEF Writes
  <2>4. (Waits("state")' <=> Waits("state")) /\ (Waits("draft")' <=> Waits("draft"))
    BY <1>1, <2>1, AskedMore
  <2> QED BY <2>2, <2>3, <2>4
<1>8. PageTypeOK'
  BY <1>0, <1>1, <1>2, <1>3, <1>4, <1>5, <1>6, DraftIsThere DEF PageTypeOK, node
<1>9. BrowserAlone'
  BY <1>1, <1>2, <1>3 DEF BrowserAlone, Waits
<1>10. StateKept'
  BY <1>1, <1>2, <1>3, <1>5, <1>7 DEF StateKept, Asked
<1>11. DraftKept'
  BY <1>1, <1>2, <1>3, <1>5, <1>6, <1>7 DEF DraftKept, Waits, Asked
<1>12. FileKept("draft")'
  BY <1>2, <1>3, <1>4, <1>5, <1>7 DEF FileKept
<1>13. FileKept("state")'
  BY <1>3, <1>4, <1>5, <1>7 DEF FileKept
<1>14. ConfirmedIsUnderWay' BY DEF ConfirmedIsUnderWay, node
<1> QED BY <1>8, <1>9, <1>10, <1>11, <1>12, <1>13, <1>14

(***************************************************************************)
(* Starting and quitting.                                                  *)
(***************************************************************************)
\* What is doubtful after a start: the state, if a write was pending or the file is behind.
LEMMA StartIs ==
    ASSUME PageTypeOK, NEW pending, Started(pending)
    PROVE  /\ doubtful' \in [KeptThings -> BOOLEAN]
           /\ doubtful'["draft"] = doubtful["draft"]
           /\ doubtful'["state"] => desktop
           /\ desktop /\ ~doubtful'["state"] =>
                ~doubtful["state"] /\ pending = {} /\ files'.state = local.state
<1> DEFINE B == desktop /\ (doubtful.state \/ pending # {} \/ files'.state # local.state)
<1>0. doubtful \in [KeptThings -> BOOLEAN] BY DEF PageTypeOK
<1>1. doubtful' = [doubtful EXCEPT !.state = B] BY DEF Started
<1>2. B \in BOOLEAN OBVIOUS
<1> HIDE DEF B
<1>3. /\ doubtful' \in [KeptThings -> BOOLEAN]
      /\ doubtful'["draft"] = doubtful["draft"]
      /\ doubtful'["state"] = B
  BY <1>0, <1>1, <1>2 DEF KeptThings
<1> QED BY <1>3 DEF B

\* However the application ends and starts again, what it starts with is what LocalStorage has.
LEMMA RestartKeeps ==
    ASSUME PageInv, NEW pending, pending \subseteq requests,
           \A r \in pending : r.kind = "save", Started(pending), DOMAIN files' = KeptThings,
           overtaken' \in [KeptThings -> BOOLEAN],
           \A what \in KeptThings : ~overtaken'[what] =>
               /\ ~overtaken[what] /\ files'[what] = files[what]
               /\ {r \in pending : r.what = what} = Writes(what)
    PROVE  PageInv'
<1> USE DEF PageInv, KeptThings
<1>0. PageTypeOK BY DEF PageInv
<1> DEFINE rs == InDesktop({Load("state", local.state, 0)})
<1>1. /\ requests' = pending \cup rs /\ state' = local.state /\ page' = Absent
      /\ UNCHANGED <<desktop, local, latest, deploys, serves, confirmed>>
  BY DEF Started, node
<1>2. /\ \A r \in rs : r.kind = "load" /\ r.what = "state" /\ r.answer = Absent /\ "answer" \in DOMAIN r
      /\ ~desktop => rs = {}
  BY LoadIs DEF InDesktop
<1> HIDE DEF rs
<1>3. /\ doubtful' \in [KeptThings -> BOOLEAN]
      /\ doubtful'["draft"] = doubtful["draft"]
      /\ doubtful'["state"] => desktop
      /\ desktop /\ ~doubtful'["state"] =>
           ~doubtful["state"] /\ pending = {} /\ files'.state = local.state
  BY <1>0, StartIs
<1>4. /\ \A what \in KeptThings : Writes(what)' = {r \in pending : r.what = what}
      /\ ~Waits("draft")' /\ (~desktop => requests' = {})
  BY <1>1, <1>2 DEF Writes, Waits, Asked, BrowserAlone
<1>5. PageTypeOK' BY <1>0, <1>1, <1>2, <1>3 DEF PageTypeOK
<1>6. BrowserAlone' BY <1>1, <1>3, <1>4 DEF BrowserAlone
<1>7. StateKept'
  <2>1. CASE ~desktop
    BY <2>1, <1>1, <1>3, <1>4 DEF StateKept, BrowserAlone, Waits
  <2>2. CASE desktop
    <3> SUFFICES ASSUME ~doubtful'["state"] PROVE StateKept' BY DEF StateKept
    <3>1. pending = {} /\ files'.state = local.state /\ local.state = latest.state
      BY <1>3, <2>2 DEF StateKept
    <3>2. Writes("state")' = {} BY <3>1, <1>4
    <3> QED BY <3>1, <3>2, <1>1, <1>2 DEF StateKept
  <2> QED BY <2>1, <2>2, <1>0 DEF PageTypeOK
<1>8. DraftKept'
  <2>1. \A r \in requests' : ~Asked("draft", r) BY <1>1, <1>2 DEF Asked
  <2> QED BY <2>1, <1>1, <1>3, <1>4 DEF DraftKept
<1>9. ASSUME NEW what \in KeptThings PROVE FileKept(what)'
  <2> SUFFICES ASSUME desktop, ~doubtful'[what], ~overtaken'[what] PROVE FileKept(what)'
    BY <1>1 DEF FileKept
  <2>1. ~doubtful[what] BY <1>3
  <2>2. Writes(what)' = Writes(what) /\ files'[what] = files[what] /\ ~overtaken[what] BY <1>4
  <2>3. FileKept(what) OBVIOUS
  <2> QED BY <2>1, <2>2, <2>3, <1>1 DEF FileKept
<1>10. ConfirmedIsUnderWay' BY <1>1 DEF ConfirmedIsUnderWay
<1> QED BY <1>5, <1>6, <1>7, <1>8, <1>9, <1>10

\* A reload leaves the shell to write.
LEMMA ReloadKeeps == PageInv /\ Reload => PageInv'
<1> SUFFICES ASSUME PageInv, Reload PROVE PageInv' OBVIOUS
<1> DEFINE pending == {r \in requests : r.kind = "save"}
<1>1. Started(pending) /\ UNCHANGED <<files, overtaken>> BY DEF Reload
<1>2. \A what \in KeptThings : {r \in pending : r.what = what} = Writes(what) BY DEF Writes
<1>3. PageTypeOK BY DEF PageInv
<1>4. pending \subseteq requests /\ \A r \in pending : r.kind = "save" OBVIOUS
<1> HIDE DEF pending
<1>5. /\ DOMAIN files' = KeptThings /\ overtaken' \in [KeptThings -> BOOLEAN]
      /\ \A what \in KeptThings : ~overtaken'[what] =>
               /\ ~overtaken[what] /\ files'[what] = files[what]
               /\ {r \in pending : r.what = what} = Writes(what)
  BY <1>1, <1>2, <1>3 DEF PageTypeOK
<1> QED BY <1>1, <1>4, <1>5, RestartKeeps

\* What quitting tears or loses was asked for, so that the file may be behind.
LEMMA QuitKeeps == PageInv /\ Quit => PageInv'
<1> SUFFICES ASSUME PageInv, Quit PROVE PageInv' OBVIOUS
<1>0. PageTypeOK BY DEF PageInv
<1>1. Started({}) BY DEF Quit
<1>2. \/ files' = files
      \/ \E r \in requests : r.kind = "save" /\ files' = [files EXCEPT ![r.what] = Torn]
  BY DEF Quit
<1>3. DOMAIN files' = KeptThings BY <1>0, <1>2 DEF PageTypeOK
<1>4. /\ overtaken' \in [KeptThings -> BOOLEAN]
      /\ \A what \in KeptThings : ~overtaken'[what] => ~overtaken[what] /\ Writes(what) = {}
  BY DEF Quit, KeptThings
<1>5. ASSUME NEW what \in KeptThings, Writes(what) = {}
      PROVE  files'[what] = files[what]
  BY <1>0, <1>2, <1>5 DEF Writes, PageTypeOK
<1>6. \A what \in KeptThings : ~overtaken'[what] =>
               /\ ~overtaken[what] /\ files'[what] = files[what]
               /\ {r \in {} : r.what = what} = Writes(what)
  BY <1>4, <1>5
<1> QED BY <1>1, <1>3, <1>4, <1>6, RestartKeeps

(***************************************************************************)
(* The desktop shell.                                                      *)
(***************************************************************************)
\* A write makes the file what LocalStorage has, if it was the only one.
LEMMA WriteFileKeeps == ASSUME PageInv, NEW r \in requests, WriteFile(r) PROVE PageInv'
<1> USE DEF PageInv, KeptThings
<1>0. PageTypeOK BY DEF PageInv
<1>1. /\ r.kind = "save" /\ files' = [files EXCEPT ![r.what] = r.content]
      /\ requests' = (requests \ {r}) \cup {} /\ requests' \subseteq requests
      /\ UNCHANGED <<desktop, state, page, local, deploys, serves, confirmed, latest, doubtful, overtaken>>
  BY DEF WriteFile, node, judged
<1>2. /\ DOMAIN files' = KeptThings /\ r.what \in KeptThings
      /\ \A w \in KeptThings : files'[w] = IF w = r.what THEN r.content ELSE files[w]
  BY <1>0, <1>1 DEF PageTypeOK
<1>3. \A w : Writes(w)' = Writes(w) \ {r} /\ (Waits(w)' => Waits(w))
  BY <1>1 DEF Writes, Waits
<1>4. PageTypeOK' BY <1>0, <1>1, <1>2 DEF PageTypeOK
<1>5. BrowserAlone' BY <1>1 DEF BrowserAlone
<1>6. StateKept'
  <2>1. Writes("state") = {} => r.what # "state" BY <1>1 DEF Writes
  <2>2. \A q \in requests' : Asked("state", q)' <=> Asked("state", q) BY DEF Asked
  <2> QED BY <1>1, <1>2, <1>3, <2>1, <2>2 DEF StateKept
<1>7. DraftKept'
  <2>1. r.what = "draft" => r \in Writes("draft") BY <1>1 DEF Writes
  <2>2. \A q \in requests' : Asked("draft", q)' <=> Asked("draft", q) BY DEF Asked
  <2> QED BY <1>1, <1>2, <1>3, <2>1, <2>2 DEF DraftKept
<1>8. ASSUME NEW what \in KeptThings PROVE FileKept(what)'
  <2> SUFFICES ASSUME desktop, ~doubtful[what], ~overtaken[what] PROVE FileKept(what)'
    BY <1>1 DEF FileKept
  <2>1. CASE r.what = what
    <3>1. r \in Writes(what) BY <1>1, <2>1 DEF Writes
    <3>2. Writes(what) = {Save(what, local[what])} BY <3>1 DEF FileKept
    <3>3. r = Save(what, local[what]) BY <3>1, <3>2
    <3>4. files'[what] = local[what] BY <3>3, <2>1, <1>2, SaveIs
    <3>5. Writes(what)' = {} BY <1>3, <3>2, <3>3
    <3> QED BY <3>4, <3>5, <1>1 DEF FileKept
  <2>2. CASE r.what # what
    <3>1. r \notin Writes(what) BY <2>2 DEF Writes
    <3>2. Writes(what)' = Writes(what) /\ files'[what] = files[what] BY <3>1, <1>2, <1>3, <2>2
    <3>3. FileKept(what) OBVIOUS
    <3> QED BY <3>2, <3>3, <1>1 DEF FileKept
  <2> QED BY <2>1, <2>2
<1>9. ConfirmedIsUnderWay' BY <1>1 DEF ConfirmedIsUnderWay
<1> QED BY <1>4, <1>5, <1>6, <1>7, <1>8, <1>9

\* A write that fails is taken for one that was overtaken.
LEMMA WriteFailsKeeps == ASSUME PageInv, NEW r \in requests, WriteFails(r) PROVE PageInv'
<1> USE DEF PageInv, KeptThings
<1>0. PageTypeOK BY DEF PageInv
<1>1. /\ r.kind = "save" /\ requests' = (requests \ {r}) \cup {} /\ requests' \subseteq requests
      /\ overtaken' = [overtaken EXCEPT ![r.what] = TRUE]
      /\ UNCHANGED <<desktop, state, page, local, files, deploys, serves, confirmed, latest, doubtful>>
  BY DEF WriteFails, node, stored
<1>2. /\ overtaken' \in [KeptThings -> BOOLEAN] /\ r.what \in KeptThings
      /\ \A w \in KeptThings : ~overtaken'[w] => ~overtaken[w] /\ w # r.what
  BY <1>0, <1>1 DEF PageTypeOK
<1>3. \A w : Writes(w)' = Writes(w) \ {r} /\ (Waits(w)' => Waits(w))
  BY <1>1 DEF Writes, Waits
<1>4. \A q, w : Asked(w, q)' <=> Asked(w, q) BY DEF Asked
<1>5. PageTypeOK' BY <1>0, <1>1, <1>2 DEF PageTypeOK
<1>6. BrowserAlone' BY <1>1 DEF BrowserAlone
<1>7. StateKept' BY <1>1, <1>3, <1>4 DEF StateKept
<1>8. DraftKept' BY <1>1, <1>3, <1>4 DEF DraftKept
<1>9. ASSUME NEW what \in KeptThings PROVE FileKept(what)'
  <2> SUFFICES ASSUME desktop, ~doubtful[what], ~overtaken'[what] PROVE FileKept(what)'
    BY <1>1 DEF FileKept
  <2>1. r \notin Writes(what) /\ ~overtaken[what] BY <1>2 DEF Writes
  <2>2. Writes(what)' = Writes(what) BY <2>1, <1>3
  <2>3. FileKept(what) OBVIOUS
  <2> QED BY <2>1, <2>2, <2>3, <1>1 DEF FileKept
<1>10. ConfirmedIsUnderWay' BY <1>1 DEF ConfirmedIsUnderWay
<1> QED BY <1>5, <1>6, <1>7, <1>8, <1>9, <1>10

\* What is read is what was done last, where there is no doubt.
LEMMA ReadFileKeeps == ASSUME PageInv, NEW r \in requests, ReadFile(r) PROVE PageInv'
<1> USE DEF PageInv, KeptThings
<1>0. PageTypeOK BY DEF PageInv
<1> DEFINE rs == IF files[r.what] \in {Absent, Torn} THEN {}
                 ELSE {[r EXCEPT !.answer = files[r.what]]}
<1>1. /\ r.kind = "load" /\ requests' = (requests \ {r}) \cup rs
      /\ UNCHANGED <<desktop, state, page, local, files, deploys, serves, confirmed, latest, doubtful,
                     overtaken>>
  BY DEF ReadFile, node, stored, judged
<1>2. \A q \in rs : /\ q.kind = "load" /\ q.what = r.what /\ "answer" \in DOMAIN q
                    /\ q.answer = files[r.what] /\ q.answer \notin {Absent, Torn}
  <2> DEFINE q == [r EXCEPT !.answer = files[r.what]]
  <2>1. "answer" \in DOMAIN r BY <1>0, <1>1 DEF PageTypeOK
  <2>2. /\ q.kind = r.kind /\ q.what = r.what /\ DOMAIN q = DOMAIN r
        /\ q.answer = files[r.what]
    BY <2>1
  <2> HIDE DEF q
  <2> QED BY <2>1, <2>2, <1>1 DEF q
<1> HIDE DEF rs
<1>3. \A w : Writes(w)' = Writes(w) BY <1>1, <1>2 DEF Writes
<1>4. \A w : Waits(w)' => Waits(w) BY <1>1, <1>2 DEF Waits, Asked
<1>5. PageTypeOK' BY <1>0, <1>1, <1>2 DEF PageTypeOK
<1>6. BrowserAlone' BY <1>1 DEF BrowserAlone
<1>7. StateKept'
  <2> SUFFICES ASSUME ~doubtful["state"] PROVE StateKept' BY <1>1 DEF StateKept
  <2>1. ASSUME NEW q \in requests', Asked("state", q) PROVE q.answer \in {Absent, latest.state}
    <3>1. CASE q \in requests BY <3>1, <2>1 DEF StateKept
    <3>2. CASE q \in rs
      <4>1. Waits("state") BY <3>2, <1>1, <1>2, <2>1 DEF Waits, Asked
      <4> QED BY <4>1, <3>2, <1>2, <2>1 DEF StateKept, Asked
    <3> QED BY <3>1, <3>2, <1>1
  <2> QED BY <2>1, <1>1, <1>3, <1>4 DEF StateKept, Asked
<1>8. DraftKept'
  <2> SUFFICES ASSUME ~doubtful["draft"] PROVE DraftKept' BY <1>1 DEF DraftKept
  <2>1. ASSUME NEW q \in requests', Asked("draft", q) PROVE q.answer \in {Absent, latest.draft}
    <3>1. CASE q \in requests BY <3>1, <2>1 DEF DraftKept
    <3>2. CASE q \in rs
      <4>1. Waits("draft") BY <3>2, <1>1, <1>2, <2>1 DEF Waits, Asked
      <4> QED BY <4>1, <3>2, <1>2, <2>1 DEF DraftKept, Asked
    <3> QED BY <3>1, <3>2, <1>1
  <2> QED BY <2>1, <1>1, <1>3, <1>4 DEF DraftKept, Asked
<1>9. \A what \in KeptThings : FileKept(what)' BY <1>1, <1>3 DEF FileKept
<1>10. ConfirmedIsUnderWay' BY <1>1 DEF ConfirmedIsUnderWay
<1> QED BY <1>5, <1>6, <1>7, <1>8, <1>9, <1>10

\* So putting it into the state changes nothing there.
LEMMA HydrateStateKeeps == ASSUME PageInv, NEW r \in requests, HydrateState(r) PROVE PageInv'
<1> USE DEF PageInv, KeptThings
<1>0. PageTypeOK BY DEF PageInv
<1>1. /\ r.kind = "load" /\ r.what = "state" /\ r.answer # Absent
      /\ requests' = requests \ {r} /\ local' = [local EXCEPT !.state = r.answer]
      /\ state' \in {r.answer, state}
      /\ UNCHANGED <<desktop, page, files, deploys, serves, confirmed, latest, doubtful, overtaken>>
  BY DEF HydrateState, node, judged, Asked
<1>2. DOMAIN local' = KeptThings /\ local'.state = r.answer /\ local'.draft = local.draft
  BY <1>0, <1>1 DEF PageTypeOK
<1>3. ~doubtful["state"] => r.answer = latest.state /\ state = latest.state /\ local.state = latest.state
  BY <1>1 DEF StateKept, Asked
<1>4. \A w : Writes(w)' = Writes(w) BY <1>1 DEF Writes
<1>5. \A w : Waits(w)' => Waits(w) BY <1>1 DEF Waits, Asked
<1>6. PageTypeOK' BY <1>0, <1>1, <1>2 DEF PageTypeOK
<1>7. BrowserAlone' BY <1>1 DEF BrowserAlone
<1>8. StateKept' BY <1>1, <1>2, <1>3, <1>4, <1>5 DEF StateKept, Asked
<1>9. DraftKept' BY <1>1, <1>2, <1>4, <1>5 DEF DraftKept, Asked
<1>10. FileKept("state")' BY <1>1, <1>2, <1>3, <1>4 DEF FileKept
<1>11. FileKept("draft")' BY <1>1, <1>2, <1>4 DEF FileKept
<1>12. ConfirmedIsUnderWay' BY <1>1 DEF ConfirmedIsUnderWay
<1> QED BY <1>6, <1>7, <1>8, <1>9, <1>10, <1>11, <1>12

\* Nor in the draft; where there is doubt the page saves what it was given.
LEMMA HydrateDraftKeeps == ASSUME PageInv, NEW r \in requests, HydrateDraft(r) PROVE PageInv'
<1> USE DEF PageInv, KeptThings
<1>0. PageTypeOK BY DEF PageInv
<1> DEFINE rs == IF page' # page THEN {Save("draft", r.answer)} ELSE {}
           B  == overtaken.draft \/ (page' # page /\ Writes("draft") # {})
<1>1. /\ r.kind = "load" /\ r.what = "draft" /\ r.answer # Absent
      /\ requests' = (requests \ {r}) \cup rs /\ local' = [local EXCEPT !.draft = r.answer]
      /\ page' = page \/ (page # Absent /\ page' = [page EXCEPT !.draft = r.answer.draft])
      /\ overtaken' = [overtaken EXCEPT !.draft = B]
      /\ UNCHANGED <<desktop, state, files, deploys, serves, confirmed, latest, doubtful>>
  BY DEF HydrateDraft, Asked, Applies, node
<1>2. DOMAIN local' = KeptThings /\ local'.draft = r.answer /\ local'.state = local.state
  BY <1>0, <1>1 DEF PageTypeOK
<1>3. \A q \in rs : q.kind = "save" /\ q.what = "draft" /\ q.content = r.answer
  BY SaveIs
<1>4. rs = {} \/ (page' # page /\ rs = {Save("draft", r.answer)}) OBVIOUS
<1>5. /\ overtaken' \in [KeptThings -> BOOLEAN] /\ overtaken'["state"] = overtaken["state"]
      /\ ~overtaken'["draft"] => ~overtaken["draft"] /\ (page' = page \/ Writes("draft") = {})
  <2>1. B \in BOOLEAN OBVIOUS
  <2> HIDE DEF B
  <2>2. /\ overtaken' \in [KeptThings -> BOOLEAN] /\ overtaken'["state"] = overtaken["state"]
        /\ overtaken'["draft"] = B
    BY <1>0, <1>1, <2>1 DEF PageTypeOK
  <2> QED BY <2>2 DEF B
<1>6. page' = page => rs = {} OBVIOUS
<1> HIDE DEF rs, B
<1>7. /\ page' = Absent <=> page = Absent
      /\ page # Absent => {"draft", "selected"} \subseteq DOMAIN page'
      /\ page # Absent => page'.draft \in {page.draft, r.answer.draft}
  <2>1. CASE page' = page BY <2>1, <1>0 DEF PageTypeOK
  <2>2. CASE page # Absent /\ page' = [page EXCEPT !.draft = r.answer.draft]
    <3>1. /\ DOMAIN page' = DOMAIN page /\ page'.draft = r.answer.draft
          /\ {"draft", "selected"} \subseteq DOMAIN page
      BY <2>2, <1>0 DEF PageTypeOK
    <3>2. page' # Absent BY <3>1 DEF Absent
    <3> QED BY <2>2, <3>1, <3>2
  <2> QED BY <2>1, <2>2, <1>1
<1>8. Writes("draft")' = Writes("draft") \cup rs /\ Writes("state")' = Writes("state")
  BY <1>1, <1>3 DEF Writes
<1>9. \A w : Waits(w)' => Waits(w) BY <1>1, <1>3 DEF Waits, Asked
<1>10. ~doubtful["draft"] =>
         /\ r.answer = latest.draft /\ latest.draft # Absent /\ local.draft = latest.draft
         /\ latest.draft = Draft(r.answer.draft)
         /\ page # Absent => Draft(page'.draft) = latest.draft
  <2> SUFFICES ASSUME ~doubtful["draft"]
               PROVE  /\ r.answer = latest.draft /\ latest.draft # Absent /\ local.draft = latest.draft
                      /\ latest.draft = Draft(r.answer.draft)
                      /\ page # Absent => Draft(page'.draft) = latest.draft
    OBVIOUS
  <2>1. r.answer = latest.draft /\ latest.draft # Absent BY <1>1 DEF DraftKept, Asked
  <2>2. latest.draft = Draft(r.answer.draft) BY <2>1, <1>0 DEF PageTypeOK
  <2>3. local.draft = latest.draft /\ (page # Absent => Draft(page.draft) = latest.draft)
    BY <2>1 DEF DraftKept
  <2> QED BY <2>1, <2>2, <2>3, <1>7
<1>11. PageTypeOK'
  <2>1. \A q \in requests' : q.what \in KeptThings /\ (q.kind = "load" => "answer" \in DOMAIN q)
    BY <1>0, <1>1, <1>3 DEF PageTypeOK
  <2> QED BY <2>1, <1>0, <1>1, <1>2, <1>5, <1>7 DEF PageTypeOK
<1>12. BrowserAlone' BY <1>1 DEF BrowserAlone
<1>13. StateKept'
  <2>1. \A q \in requests' : Asked("state", q) => q \in requests BY <1>1, <1>3 DEF Asked
  <2> QED BY <2>1, <1>1, <1>2, <1>8, <1>9 DEF StateKept
<1>14. DraftKept'
  <2>1. \A q \in requests' : Asked("draft", q) => q \in requests BY <1>1, <1>3 DEF Asked
  <2> QED BY <2>1, <1>1, <1>2, <1>3, <1>7, <1>8, <1>9, <1>10 DEF DraftKept
<1>15. FileKept("state")' BY <1>1, <1>2, <1>5, <1>8 DEF FileKept
<1>16. FileKept("draft")'
  <2> SUFFICES ASSUME desktop, ~doubtful["draft"], ~overtaken'["draft"] PROVE FileKept("draft")'
    BY <1>1 DEF FileKept
  <2>1. local'.draft = local.draft /\ local'.draft = r.answer /\ FileKept("draft") /\ ~overtaken["draft"]
    BY <1>2, <1>5, <1>10
  <2>2. CASE rs = {} BY <2>1, <2>2, <1>1, <1>8 DEF FileKept
  <2>3. CASE page' # page /\ rs = {Save("draft", r.answer)}
    <3>1. Writes("draft")' = {Save("draft", local'.draft)} BY <2>1, <2>3, <1>5, <1>8
    <3> QED BY <3>1 DEF FileKept
  <2> QED BY <2>2, <2>3, <1>4
<1>17. ConfirmedIsUnderWay' BY <1>1 DEF ConfirmedIsUnderWay
<1> QED BY <1>11, <1>12, <1>13, <1>14, <1>15, <1>16, <1>17

(***************************************************************************)
(* The page.                                                               *)
(***************************************************************************)
\* The page opens with the last draft, and asks for no other one where there is no doubt.
LEMMA OpenPageKeeps == PageInv /\ OpenPage => PageInv'
<1> SUFFICES ASSUME PageInv, OpenPage PROVE PageInv' OBVIOUS
<1> USE DEF PageInv, KeptThings
<1>0. PageTypeOK BY DEF PageInv
<1> DEFINE D  == Draft(FirstDraft)
           L  == Load("draft", D, opened + 1)
           rs == InDesktop({Save("draft", D), L})
           B  == desktop /\ (doubtful.draft \/ Waits("draft") \/ Writes("draft") # {}
                                     \/ files.draft \notin {Absent, Torn, D})
<1>1. /\ requests' = requests \cup rs /\ Overtakes("draft") /\ page = Absent
      /\ local' = [local EXCEPT !.draft = D]
      /\ page' = [kind |-> "page", draft |-> FirstDraft, selected |-> state.active, opening |-> opened + 1]
      /\ doubtful' = [doubtful EXCEPT !.draft = B]
      /\ latest' = IF latest.draft = Absent THEN [latest EXCEPT !.draft = D] ELSE latest
      /\ UNCHANGED <<desktop, state, files, deploys, serves, confirmed>>
  BY DEF OpenPage, node
<1>2. /\ \A q \in rs : \/ q = Save("draft", D)
                       \/ q = L /\ q.kind = "load" /\ q.what = "draft" /\ q.answer = Absent
                                /\ "answer" \in DOMAIN q
      /\ ~desktop => rs = {}
      /\ desktop => Save("draft", D) \in rs /\ L \in rs
  BY LoadIs DEF InDesktop
<1>3. /\ doubtful' \in [KeptThings -> BOOLEAN] /\ doubtful'["state"] = doubtful["state"]
      /\ ~doubtful'["draft"] /\ desktop =>
           /\ ~doubtful["draft"] /\ ~Waits("draft") /\ Writes("draft") = {}
           /\ files.draft \in {Absent, Torn, D}
      /\ doubtful'["draft"] => desktop
  <2>1. B \in BOOLEAN OBVIOUS
  <2> HIDE DEF B
  <2>2. /\ doubtful' \in [KeptThings -> BOOLEAN] /\ doubtful'["state"] = doubtful["state"]
        /\ doubtful'["draft"] = B
    BY <1>0, <1>1, <2>1 DEF PageTypeOK
  <2> QED BY <2>2 DEF B
<1>4. D # Absent /\ D = Draft(D.draft) BY DraftIsThere
<1>5. page' # Absent /\ {"draft", "selected"} \subseteq DOMAIN page' /\ Draft(page'.draft) = D
  BY <1>1 DEF Absent
<1>6. latest.draft # Absent /\ ~doubtful["draft"] => latest.draft = D
  <2> SUFFICES ASSUME latest.draft # Absent, ~doubtful["draft"] PROVE latest.draft = D OBVIOUS
  <2>1. local.draft = latest.draft BY DEF DraftKept
  <2>2. FirstDraft = latest.draft.draft BY <2>1 DEF FirstDraft
  <2> QED BY <2>2, <1>0 DEF PageTypeOK
<1> HIDE DEF D, L, B, rs
<1>7. /\ overtaken' \in [KeptThings -> BOOLEAN]
      /\ ~overtaken'["draft"] => ~overtaken["draft"] /\ Writes("draft") = {}
      /\ overtaken'["state"] = overtaken["state"]
  BY <1>0, <1>1, OvertakenIs DEF PageTypeOK
<1>8. /\ DOMAIN local' = KeptThings /\ local'.draft = D /\ local'.state = local.state
      /\ DOMAIN latest' = KeptThings /\ latest'.state = latest.state /\ latest'.draft # Absent
      /\ latest'.draft \in {D, latest.draft}
      /\ latest.draft = Absent => latest'.draft = D
  BY <1>0, <1>1, <1>4 DEF PageTypeOK
<1>9. /\ Writes("state")' = Writes("state")
      /\ desktop => Writes("draft")' = Writes("draft") \cup {Save("draft", D)}
      /\ Waits("state")' => Waits("state")
  BY <1>1, <1>2, SaveIs DEF Writes, Waits, Asked
<1>10. ~doubtful'["draft"] => ~doubtful["draft"] BY <1>3 DEF BrowserAlone
<1>11. ~doubtful'["draft"] => latest'.draft = D BY <1>6, <1>8, <1>10
<1>12. PageTypeOK'
  <2>1. \A q \in requests' : q.what \in KeptThings /\ (q.kind = "load" => "answer" \in DOMAIN q)
    BY <1>0, <1>1, <1>2, SaveIs DEF PageTypeOK
  <2>2. latest'.draft = Draft(latest'.draft.draft) BY <1>0, <1>4, <1>8 DEF PageTypeOK
  <2> QED BY <2>1, <2>2, <1>0, <1>1, <1>3, <1>5, <1>7, <1>8 DEF PageTypeOK
<1>13. BrowserAlone' BY <1>1, <1>2, <1>3 DEF BrowserAlone
<1>14. StateKept'
  <2>1. \A q \in requests' : Asked("state", q) => q \in requests BY <1>1, <1>2, SaveIs DEF Asked
  <2> QED BY <2>1, <1>1, <1>3, <1>8, <1>9 DEF StateKept
<1>15. DraftKept'
  <2> SUFFICES ASSUME ~doubtful'["draft"] PROVE DraftKept' BY DEF DraftKept
  <2>1. \A q \in requests' : Asked("draft", q) => q.answer = Absent
    <3>1. CASE desktop
      <4>1. \A q \in requests : ~Asked("draft", q) BY <3>1, <1>3 DEF Waits
      <4> QED BY <4>1, <1>1, <1>2, SaveIs DEF Asked
    <3>2. CASE ~desktop BY <3>2, <1>1, <1>2 DEF BrowserAlone
    <3> QED BY <3>1, <3>2, <1>0 DEF PageTypeOK
  <2>2. Waits("draft")' => /\ files.draft \in {Absent, Torn, D}
                           /\ \A q \in Writes("draft")' : q.content = D
    <3>1. CASE desktop BY <3>1, <1>3, <1>9, SaveIs
    <3>2. CASE ~desktop BY <3>2, <1>1, <1>2 DEF BrowserAlone, Waits
    <3> QED BY <3>1, <3>2, <1>0 DEF PageTypeOK
  <2> QED BY <2>1, <2>2, <1>1, <1>5, <1>8, <1>11 DEF DraftKept, Asked
<1>16. FileKept("state")' BY <1>1, <1>3, <1>7, <1>8, <1>9 DEF FileKept
<1>17. FileKept("draft")' BY <1>1, <1>7, <1>8, <1>9 DEF FileKept
<1>18. ConfirmedIsUnderWay' BY <1>1 DEF ConfirmedIsUnderWay
<1> QED BY <1>12, <1>13, <1>14, <1>15, <1>16, <1>17, <1>18

\* What changes the page and leaves its draft, or the deployments alone.
LEMMA PageLeavesDraft ==
    ASSUME PageInv, UNCHANGED <<desktop, state, local, files, requests, latest, doubtful, overtaken>>,
           page' = Absent \/ page' = page \/ (page # Absent /\ \E k : page' = [page EXCEPT !.selected = k]),
           "flying" \in DOMAIN deploys', ConfirmedIsUnderWay'
    PROVE  PageInv'
<1> USE DEF PageInv, KeptThings
<1>0. PageTypeOK BY DEF PageInv
<1>1. page' # Absent =>
         page # Absent /\ page'.draft = page.draft /\ {"draft", "selected"} \subseteq DOMAIN page'
  BY <1>0 DEF PageTypeOK
<1>2. \A w : Writes(w)' = Writes(w) /\ (Waits(w)' <=> Waits(w)) BY DEF Writes, Waits, Asked
<1>3. PageTypeOK' BY <1>0, <1>1 DEF PageTypeOK
<1>4. BrowserAlone' BY DEF BrowserAlone
<1>5. StateKept' BY <1>2 DEF StateKept, Asked
<1>6. DraftKept' BY <1>1, <1>2 DEF DraftKept, Asked
<1>7. \A what \in KeptThings : FileKept(what)' BY <1>2 DEF FileKept
<1> QED BY <1>3, <1>4, <1>5, <1>6, <1>7

\* The steps of the page.
LEMMA PageKeeps == PageInv /\ PageStep => PageInv'
<1> SUFFICES ASSUME PageInv, PageStep PROVE PageInv' OBVIOUS
<1>0. PageTypeOK /\ ConfirmedIsUnderWay BY DEF PageInv
<1>1. CASE OpenPage BY <1>1, OpenPageKeeps
<1>2. CASE ClosePage
  <2>1. ConfirmedIsUnderWay' /\ "flying" \in DOMAIN deploys'
    BY <1>0, <1>2 DEF ClosePage, ConfirmedIsUnderWay, PageTypeOK, node
  <2> QED BY <2>1, <1>2, PageLeavesDraft DEF ClosePage, node, stored, judged
<1>3. CASE Edit
  <2>1. /\ SetDraft(edits + 1, page.selected) /\ page # Absent
        /\ UNCHANGED <<desktop, state, files, node>>
    BY <1>3 DEF Edit
  <2> QED BY <2>1, DraftIsSet
<1>4. CASE PersistRevision
  <2>1. page # Absent /\ page' = [page EXCEPT !.selected = Len(state.revisions) + 1]
    BY <1>4 DEF PersistRevision
  <2>2. SaveState(Persisted(page.draft)) /\ UNCHANGED <<desktop, files, counters, node>>
    BY <1>4 DEF PersistRevision
  <2> QED BY <2>1, <2>2, StateIsSaved
<1>5. ASSUME NEW k \in 1..Len(state.revisions), SelectRevision(k) PROVE PageInv'
  <2> DEFINE d == state.revisions[k]
  <2>1. page # Absent /\ UNCHANGED <<desktop, state, files, counters, node>> BY <1>5 DEF SelectRevision
  <2>2. CASE d # page.draft
    <3>1. SetDraft(d, k) BY <1>5, <2>2 DEF SelectRevision
    <3> QED BY <3>1, <2>1, DraftIsSet
  <2>3. CASE d = page.draft
    <3>1. page' = [page EXCEPT !.selected = k] /\ UNCHANGED <<local, requests, judged>>
      BY <1>5, <2>3 DEF SelectRevision
    <3>2. ConfirmedIsUnderWay' /\ "flying" \in DOMAIN deploys'
      BY <1>0, <2>1 DEF ConfirmedIsUnderWay, PageTypeOK, node
    <3> QED BY <3>1, <3>2, <2>1, PageLeavesDraft DEF judged
  <2> QED BY <2>2, <2>3
<1> QED BY <1>1, <1>2, <1>3, <1>4, <1>5 DEF PageStep

\* A deployment that is alone has the draft that was confirmed.
LEMMA DeployKeeps == PageInv /\ DeployStep => PageInv'
<1> SUFFICES ASSUME PageInv, DeployStep PROVE PageInv' OBVIOUS
<1>0. PageTypeOK /\ ConfirmedIsUnderWay BY DEF PageInv
<1>1. UNCHANGED <<desktop, state, local, files, requests, latest, doubtful, overtaken, page>>
  BY DEF DeployStep, Deploy, Arrives, Fails, stored, judged
<1>2. "flying" \in DOMAIN deploys'
  BY <1>0 DEF DeployStep, Deploy, Arrives, Fails, PageTypeOK
<1>3. ConfirmedIsUnderWay'
  <2>1. CASE Deploy
    <3> DEFINE d == [number |-> deploys.made + 1, draft |-> page.draft]
    <3>1. /\ deploys'.flying = deploys.flying \cup {d} /\ d.draft = page.draft
          /\ confirmed' = IF deploys.flying = {} THEN Draft(page.draft) ELSE Absent
      BY <2>1 DEF Deploy, Deployed
    <3> HIDE DEF d
    <3> QED BY <3>1 DEF ConfirmedIsUnderWay
  <2>2. ASSUME NEW d \in deploys.flying, Arrives(d) PROVE ConfirmedIsUnderWay'
    <3>1. serves' = Draft(d.draft) /\ deploys'.flying = deploys.flying \ {d} /\ confirmed' = confirmed
      BY <2>2, <1>0 DEF Arrives, PageTypeOK
    <3> QED BY <3>1, <2>2, <1>0 DEF ConfirmedIsUnderWay
  <2>3. ASSUME NEW d \in deploys.flying, Fails(d) PROVE ConfirmedIsUnderWay'
    BY <2>3 DEF Fails, ConfirmedIsUnderWay
  <2> QED BY <2>1, <2>2, <2>3 DEF DeployStep
<1> QED BY <1>1, <1>2, <1>3, PageLeavesDraft

\* Every step keeps the invariant.
LEMMA StepPage == PageInv /\ [PageNext]_pageVars => PageInv'
<1> SUFFICES ASSUME PageInv, [PageNext]_pageVars PROVE PageInv' OBVIOUS
<1>0. PageTypeOK /\ ConfirmedIsUnderWay BY DEF PageInv
<1>1. CASE Reload BY <1>1, ReloadKeeps
<1>2. CASE Quit BY <1>2, QuitKeeps
<1>3. CASE AddTheNode
  <2>1. SaveState(NewNode) /\ page' = page /\ UNCHANGED <<desktop, files, counters, node>>
    BY <1>3 DEF AddTheNode
  <2> QED BY <2>1, StateIsSaved
<1>4. CASE ShellStep
  BY <1>4, WriteFileKeeps, WriteFailsKeeps, ReadFileKeeps, HydrateStateKeeps, HydrateDraftKeeps
     DEF ShellStep
<1>5. CASE PageStep BY <1>5, PageKeeps
<1>6. CASE DeployStep BY <1>6, DeployKeeps
<1>7. CASE UNCHANGED pageVars
  <2>1. ConfirmedIsUnderWay' /\ "flying" \in DOMAIN deploys'
    BY <1>0, <1>7 DEF ConfirmedIsUnderWay, PageTypeOK, pageVars
  <2> QED BY <2>1, <1>7, PageLeavesDraft DEF pageVars
<1> QED BY <1>1, <1>2, <1>3, <1>4, <1>5, <1>6, <1>7 DEF PageNext

\* So it holds throughout.
LEMMA PageInvariance == PageSpec => []PageInv
BY InitPage, StepPage, PTL DEF PageSpec

\* The last edit of a draft is in LocalStorage and on the open page, through closing, reloading
\* and quitting, unless it raced the desktop's answer (load_node_draft, hydrate_desktop_node_draft).
THEOREM TheLastEditIsKept == PageSpec => []EditsAreKept
<1>1. PageInv => EditsAreKept BY DEF PageInv, DraftKept, EditsAreKept
<1> QED BY <1>1, PageInvariance, PTL

\* The node and its revisions are as they were made last, in memory and in LocalStorage, unless
\* the desktop's file was behind or not read yet (hydrate_desktop_state).
THEOREM TheRevisionsAreKept == PageSpec => []RevisionsAreKept
<1>1. PageInv => RevisionsAreKept BY DEF PageInv, StateKept, RevisionsAreKept
<1> QED BY <1>1, PageInvariance, PTL

\* The desktop's files are what LocalStorage has once the shell has done what it was asked to
\* (persist_desktop_state, save_node_draft), unless a write failed or met another.
THEOREM TheFilesFollow == PageSpec => []FilesFollow
<1>1. PageInv => FilesFollow
  <2> SUFFICES ASSUME PageInv, NEW what \in KeptThings, desktop, requests = {},
                      ~doubtful[what], ~overtaken[what]
               PROVE  files[what] = local[what]
    BY DEF FilesFollow, KeptThings
  <2>1. FileKept(what) BY DEF PageInv
  <2>2. Writes(what) = {} BY DEF Writes
  <2> QED BY <2>1, <2>2 DEF FileKept
<1> QED BY <1>1, PageInvariance, PTL

\* A node runs the draft that was confirmed, once its only deployment has arrived
\* (deploy_revision).
THEOREM TheConfirmedIsServed == PageSpec => []ConfirmedIsServed
<1>1. PageInv => ConfirmedIsServed BY DEF PageInv, ConfirmedIsUnderWay, ConfirmedIsServed
<1> QED BY <1>1, PageInvariance, PTL
=============================================================================
