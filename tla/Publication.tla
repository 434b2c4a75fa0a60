----------------------------- MODULE Publication -----------------------------
(***************************************************************************)
(* What users are given and what nodes let in: the manager's accounts,     *)
(* nodes and registries (src/manager/src/pages), the subscriptions made    *)
(* of them (services/registry_deploy.rs), the registry services that       *)
(* answer for them (src/registry/cmd/registry/main.go), and the node       *)
(* deployment built from the same state (pages/node_config).               *)
(*                                                                         *)
(* Everything a registry is sent is computed when the deployment is        *)
(* confirmed and pushed to one registry after the other; meanwhile the     *)
(* operator goes on editing, may leave the page and deploy again, and a    *)
(* registry may fail to write its file, lose its answer or restart.        *)
(*                                                                         *)
(* A link stands for the text rendered from a template: the node and the   *)
(* inbound it leads to, and the id and the token it carries. Which of them *)
(* it does depends on the protocol, which is kept as the link's form:      *)
(* "token" (VLESS, Hysteria2), "idToken" (NaiveProxy and TrustTunnel's     *)
(* simple links), "sealed" (TrustTunnel's deep links, whose content is     *)
(* encoded as a whole), "own" (SOCKS5, with the inbound's own user) and    *)
(* "none". Hosts, ports, names and the rest of the text are left out.      *)
(***************************************************************************)
EXTENDS Integers, FiniteSets

CONSTANTS Group,        \* names of groups
          GroupSets,    \* the groups an account or a node may be given
          Token,        \* tokens typed or generated
          Service,      \* registry services that run somewhere
          Entry,        \* ids of the manager's registry entries
          Job,          \* deployments of registries under way
          Configs,      \* node configurations: sets of inbounds
          StoredAccounts, StoredNodes, StoredDrafts, StoredRegistries, \* what the manager starts with
          MaxAccounts,  \* bound: accounts ever made
          MaxNodes,     \* bound: nodes ever made
          MaxChanges,   \* bound: changes made in the manager
          MaxDeploys,   \* bound: deployments of nodes and of registries
          MaxFaults     \* bound: pushes that go wrong, and restarts of registries

Account == 1..MaxAccounts
Node    == 1..MaxNodes

Inbound == UNION Configs
Form == {"token", "idToken", "sealed", "own", "none"}

ASSUME PublicationAssumption ==
    /\ MaxAccounts \in Nat /\ MaxNodes \in Nat /\ MaxChanges \in Nat
    /\ MaxDeploys \in Nat /\ MaxFaults \in Nat
    /\ GroupSets \subseteq SUBSET Group
    /\ \A i \in Inbound :
            i.groups \subseteq Group /\ i.enabled \in BOOLEAN /\ i.form \in Form
    /\ DOMAIN StoredAccounts \subseteq Account
    /\ DOMAIN StoredNodes \subseteq Node /\ IsFiniteSet(DOMAIN StoredNodes)
    /\ \A n \in DOMAIN StoredNodes : {"groups", "config"} \subseteq DOMAIN StoredNodes[n]
    /\ \A e \in DOMAIN StoredRegistries : StoredRegistries[e].service \in Service

VARIABLES accounts,   \* the accounts: id -> token and groups; ids grow, as the list does
          nodes,      \* the nodes: id -> groups and saved configuration
          drafts,     \* LocalStorage: the draft kept under each node's id
          registries, \* the registry entries: id -> service and enabled
          made,       \* how many accounts and nodes were ever made
          spent,      \* how many deployments were begun, and how many faults there were
          changes,    \* how many changes were made to what is published
          jobs,       \* the deployments under way
          shown,      \* the deployment whose end the registries page waits for
          memory,     \* what each registry service answers from
          disk,       \* what its file holds
          settled,    \* the last deployment, if it ended well and nothing interfered
          admitted,   \* what each node was given last
          backup      \* a backup file

manager  == <<accounts, nodes, drafts, made>>
pushing  == <<jobs, shown, settled>>
services == <<memory, disk>>
vars == <<accounts, nodes, drafts, registries, made, spent, changes, jobs, shown, memory, disk,
          settled, admitted, backup>>

Nothing == [kind |-> "nothing"]

(***************************************************************************)
(* What the manager publishes.                                             *)
(***************************************************************************)
\* effective_node_config: an edited draft counts before it is saved or deployed. A
\* configuration that was saved is never empty, so the revisions are never asked.
ConfigOf(n, ns, ds) == IF ds[n] # Nothing THEN ds[n].config ELSE ns[n].config

SlipEffectiveGroups(node, inbound) ==
    IF inbound.groups = {} THEN node.groups ELSE inbound.groups
\* effective_inbound_groups.
EffectiveGroups(node, inbound) ==
    IF inbound.groups = {} THEN node.groups ELSE inbound.groups \cap node.groups

Overlaps(node, inbound) == EffectiveGroups(node, inbound) # {} \/ inbound.groups = {}

\* What is published of one node: the inbounds that a template is made of; the others are
\* skipped and reported.
Published(node, config) ==
    {i \in config : i.enabled /\ i.form # "none" /\ Overlaps(node, i)}

\* The template links of build_registry_config.
Templates(ns, ds) ==
    UNION {{[node |-> n, inbound |-> i.id, form |-> i.form, groups |-> EffectiveGroups(ns[n], i)] :
               i \in Published(ns[n], ConfigOf(n, ns, ds))} : n \in DOMAIN ns}

\* build_registry_config, and the change it was computed after.
Generated == [kind |-> "config", accounts |-> accounts,
              templates |-> Templates(nodes, drafts), edition |-> changes]

\* groups_intersect of the manager.
Intersects(account, groups) == account.groups \cap groups # {}

\* What a template has a placeholder for: no placeholder can be found in a sealed one.
CarriesId(form)    == form = "idToken"
CarriesToken(form) == form \in {"token", "idToken"}

Rendered(t, a, token) ==
    [node |-> t.node, inbound |-> t.inbound, form |-> t.form,
     id    |-> IF CarriesId(t.form) THEN a ELSE 0,
     token |-> IF CarriesToken(t.form) THEN token ELSE t.form]

\* collect_account_proxy_links: the links the accounts page shows for one account.
LinksOf(a) ==
    {Rendered(t, a, accounts[a].token) :
        t \in {x \in Templates(nodes, drafts) : Intersects(accounts[a], x.groups)}}

\* The link the node's page makes of an inbound for an account, which it seals, if it
\* does, with the account's own id and token.
AccessLink(n, i, a) ==
    [node |-> n, inbound |-> i.id, form |-> i.form,
     id |-> IF i.form = "token" THEN 0 ELSE a, token |-> accounts[a].token]

\* The accounts it offers.
Offers(n, i, a) ==
    LET groups == EffectiveGroups(nodes[n], i)
    IN  IF groups = {} THEN i.groups = {} ELSE Intersects(accounts[a], groups)

AccessLinks(a) ==
    UNION {{AccessLink(n, i, a) :
               i \in {x \in ConfigOf(n, nodes, drafts) :
                        x.enabled /\ x.form \notin {"own", "none"} /\ Offers(n, x, a)}} :
              n \in DOMAIN nodes}

(***************************************************************************)
(* What a registry service answers.                                        *)
(***************************************************************************)
SlipEntitled(account, groups) == groups = {} \/ account.groups \subseteq groups
\* groupsIntersect of the registry: a template without groups is everybody's.
Entitled(account, groups) == groups = {} \/ Intersects(account, groups)

\* findAccountByToken: the first account that has the token.
First(config, token) ==
    {a \in DOMAIN config.accounts :
        /\ config.accounts[a].token = token
        /\ \A b \in DOMAIN config.accounts : config.accounts[b].token = token => a <= b}

\* buildSubscriptionLinks.
Subscription(config, token) ==
    UNION {{Rendered(t, a, token) :
                t \in {x \in config.templates : Entitled(config.accounts[a], x.groups)}} :
              a \in First(config, token)}

Empty == [kind |-> "config", accounts |-> <<>>, templates |-> {}, edition |-> -1]

(***************************************************************************)
(* The manager's pages. Changes are saved and shown at once.               *)
(***************************************************************************)
Init ==
    /\ accounts = StoredAccounts /\ nodes = StoredNodes /\ registries = StoredRegistries
    /\ drafts = [n \in Node |-> IF n \in DOMAIN StoredDrafts THEN StoredDrafts[n] ELSE Nothing]
    /\ made = [accounts |-> Cardinality(DOMAIN accounts), nodes |-> Cardinality(DOMAIN nodes)]
    /\ changes = 0 /\ spent = [deploys |-> 0, faults |-> 0]
    /\ jobs = [j \in Job |-> Nothing] /\ shown = Nothing
    /\ memory = [s \in Service |-> Empty] /\ disk = memory
    /\ settled = Nothing
    /\ admitted = [n \in Node |-> Nothing]
    /\ backup = Nothing

Change == changes < MaxChanges /\ changes' = changes + 1

Deploys == spent.deploys < MaxDeploys /\ spent' = [spent EXCEPT !.deploys = @ + 1]
Fault   == spent.faults < MaxFaults /\ spent' = [spent EXCEPT !.faults = @ + 1]

Elsewhere == UNCHANGED <<registries, spent, pushing, services, admitted, backup>>

Set(f, x, value) == [y \in (DOMAIN f) \cup {x} |-> IF y = x THEN value ELSE f[y]]
Drop(f, x) == [y \in (DOMAIN f) \ {x} |-> f[y]]

\* AccountModal, on_submit.
AddAccount ==
    /\ Change /\ made.accounts < MaxAccounts
    /\ made' = [made EXCEPT !.accounts = @ + 1]
    /\ \E token \in Token, groups \in GroupSets :
          accounts' = Set(accounts, made.accounts + 1, [token |-> token, groups |-> groups])
    /\ UNCHANGED <<nodes, drafts>> /\ Elsewhere

EditAccount(a) ==
    /\ Change
    /\ \E token \in Token, groups \in GroupSets :
          accounts' = Set(accounts, a, [token |-> token, groups |-> groups])
    /\ UNCHANGED <<nodes, drafts, made>> /\ Elsewhere

DeleteAccount(a) ==
    /\ Change
    /\ accounts' = Drop(accounts, a)
    /\ UNCHANGED <<nodes, drafts, made>> /\ Elsewhere

\* NodeModal, on_submit.
AddNode ==
    /\ Change /\ made.nodes < MaxNodes
    /\ made' = [made EXCEPT !.nodes = @ + 1]
    /\ \E groups \in GroupSets :
          nodes' = Set(nodes, made.nodes + 1, [groups |-> groups, config |-> {}])
    /\ UNCHANGED <<accounts, drafts>> /\ Elsewhere

EditNode(n) ==
    /\ Change
    /\ \E groups \in GroupSets : nodes' = [nodes EXCEPT ![n].groups = groups]
    /\ UNCHANGED <<accounts, drafts, made>> /\ Elsewhere

\* The copy has the source's saved configuration, not its draft.
DuplicateNode(n) ==
    /\ Change /\ made.nodes < MaxNodes
    /\ made' = [made EXCEPT !.nodes = @ + 1]
    /\ nodes' = Set(nodes, made.nodes + 1, nodes[n])
    /\ UNCHANGED <<accounts, drafts>> /\ Elsewhere

\* The draft stays behind, under an id nobody has.
DeleteNode(n) ==
    /\ Change
    /\ nodes' = Drop(nodes, n)
    /\ UNCHANGED <<accounts, drafts, made>> /\ Elsewhere

\* The configuration page keeps its draft in LocalStorage from the moment it opens.
EditDraft(n) ==
    /\ Change
    /\ \E config \in Configs : drafts' = [drafts EXCEPT ![n] = [kind |-> "draft", config |-> config]]
    /\ UNCHANGED <<accounts, nodes, made>> /\ Elsewhere

\* persist_revision.
SaveRevision(n) ==
    /\ Change
    /\ drafts[n] # Nothing
    /\ nodes' = [nodes EXCEPT ![n].config = drafts[n].config]
    /\ UNCHANGED <<accounts, drafts, made>> /\ Elsewhere

(***************************************************************************)
(* deploy_revision and build_full_config: the node is given the draft and  *)
(* the accounts of its groups, and lets each of them in at every inbound;  *)
(* an inbound's own groups are not sent.                                   *)
(***************************************************************************)
Admits(n) ==
    {[inbound |-> i.id, id |-> a, token |-> accounts[a].token] :
        i \in {x \in drafts[n].config : x.enabled},
        a \in {x \in DOMAIN accounts : Intersects(accounts[x], nodes[n].groups)}}

DeployNode(n) ==
    /\ Deploys
    /\ drafts[n] # Nothing
    /\ admitted' = [admitted EXCEPT ![n] = [kind |-> "given", edition |-> changes,
                                             users |-> Admits(n)]]
    /\ UNCHANGED <<manager, changes, registries, pushing, services, backup>>

(***************************************************************************)
(* The registries page.                                                    *)
(***************************************************************************)
\* RegistryModal: a new entry, or an edit of one.
SaveRegistry(e) ==
    /\ Change
    /\ \E service \in Service, enabled \in BOOLEAN :
          registries' = Set(registries, e, [service |-> service, enabled |-> enabled])
    /\ UNCHANGED <<manager, spent, pushing, services, admitted, backup>>

\* The copy has the endpoint of its source.
DuplicateRegistry(e, copy) ==
    /\ Change
    /\ copy \notin DOMAIN registries
    /\ registries' = Set(registries, copy, registries[e])
    /\ UNCHANGED <<manager, spent, pushing, services, admitted, backup>>

DeleteRegistry(e) ==
    /\ Change
    /\ registries' = Drop(registries, e)
    /\ UNCHANGED <<manager, spent, pushing, services, admitted, backup>>

\* build_registry_access_link: where a user is sent for his subscription.
Address(e, a) == [service |-> registries[e].service, token |-> accounts[a].token]

Busy == \E j \in Job : jobs[j] # Nothing

\* A deployment that starts takes a copy of the state; one that is under way is no
\* longer alone, and the one before is no longer the last.
Start(j, targets) ==
    /\ Deploys
    /\ shown = Nothing
    /\ jobs[j] = Nothing
    /\ jobs' = [i \in Job |->
                  IF i = j THEN [kind |-> "job", config |-> Generated, targets |-> targets,
                                 remaining |-> DOMAIN targets, failed |-> FALSE, alone |-> ~Busy]
                  ELSE IF jobs[i] = Nothing THEN Nothing ELSE [jobs[i] EXCEPT !.alone = FALSE]]
    /\ shown' = [kind |-> "shown", job |-> j]
    /\ settled' = Nothing
    /\ UNCHANGED <<manager, changes, registries, services, admitted, backup>>

\* deploy_all_registries.
DeployAll(j) ==
    Start(j, [e \in {x \in DOMAIN registries : registries[x].enabled} |-> registries[e].service])

\* deploy_registry_by_id: enabled or not.
DeployOne(j, e) == Start(j, [x \in {e} |-> registries[x].service])

\* The page is left, and opened again with deploy_loading false; the deployment goes on.
LeavePage ==
    /\ shown # Nothing
    /\ shown' = Nothing
    /\ UNCHANGED <<manager, changes, registries, spent, jobs, settled, services, admitted, backup>>

(***************************************************************************)
(* One registry after the other, in the order they are listed.             *)
(***************************************************************************)
Target(j) == jobs[j].targets[CHOOSE e \in jobs[j].remaining : \A x \in jobs[j].remaining : e <= x]

Advance(j, failed) ==
    /\ jobs' = [jobs EXCEPT ![j].remaining = @ \ {CHOOSE e \in @ : \A x \in @ : e <= x},
                            ![j].failed = @ \/ failed]
    /\ UNCHANGED <<manager, changes, registries, shown, settled, admitted, backup>>

UnderWay(j) == jobs[j] # Nothing /\ jobs[j].remaining # {}

SlipStored(old, config) == IF old = Empty THEN config ELSE [config EXCEPT !.accounts = old.accounts]
\* registryStore.update: memory first, then the file; an error of the second is
\* answered, and the first stands.
Stored(old, config) == config
Updated(s, config) == memory' = [memory EXCEPT ![s] = Stored(memory[s], config)]

Pushed(j) ==
    /\ UnderWay(j)
    /\ LET s == Target(j) IN
         /\ Updated(s, jobs[j].config)
         /\ disk' = [disk EXCEPT ![s] = memory'[s]]
    /\ Advance(j, FALSE) /\ UNCHANGED spent

PushedUnsaved(j) ==
    /\ UnderWay(j)
    /\ Updated(Target(j), jobs[j].config)
    /\ UNCHANGED disk
    /\ Advance(j, TRUE) /\ Fault

\* The answer is lost.
PushedUnheard(j) ==
    /\ UnderWay(j)
    /\ LET s == Target(j) IN
         /\ Updated(s, jobs[j].config)
         /\ disk' = [disk EXCEPT ![s] = memory'[s]]
    /\ Advance(j, TRUE) /\ Fault

\* The registry is not reached, or refuses the key.
PushFails(j) ==
    /\ UnderWay(j)
    /\ UNCHANGED services
    /\ Advance(j, TRUE) /\ Fault

Clean(job) == ~job.failed /\ job.alone

Finish(j) ==
    /\ jobs[j] # Nothing /\ jobs[j].remaining = {}
    /\ jobs' = [jobs EXCEPT ![j] = Nothing]
    /\ shown' = IF shown # Nothing /\ shown.job = j THEN Nothing ELSE shown
    /\ settled' = IF Clean(jobs[j])
                    THEN [kind |-> "settled", config |-> jobs[j].config,
                          at |-> {jobs[j].targets[e] : e \in DOMAIN jobs[j].targets}]
                    ELSE settled
    /\ UNCHANGED <<manager, changes, registries, spent, services, admitted, backup>>

\* load: a registry answers from its file after a restart.
Loaded(s) == disk[s]

Restart(s) ==
    /\ memory' = [memory EXCEPT ![s] = Loaded(s)]
    /\ Fault
    /\ UNCHANGED <<manager, changes, registries, pushing, disk, admitted, backup>>

(***************************************************************************)
(* The save-data page.                                                     *)
(***************************************************************************)
SlipExported == nodes
\* on_export: a node is written with its draft in the place of its configuration.
Exported == [n \in DOMAIN nodes |-> [nodes[n] EXCEPT !.config = ConfigOf(n, nodes, drafts)]]

Export ==
    /\ backup = Nothing
    /\ backup' = [kind |-> "backup", accounts |-> accounts, nodes |-> Exported,
                  registries |-> registries, templates |-> Templates(nodes, drafts)]
    /\ UNCHANGED <<manager, changes, registries, spent, pushing, services, admitted>>

\* on_file_change: the state is replaced, every node's configuration becomes its draft,
\* and the application starts again, without the deployments that were under way.
Import ==
    /\ Change
    /\ backup # Nothing
    /\ accounts' = backup.accounts /\ nodes' = backup.nodes /\ registries' = backup.registries
    /\ drafts' = [n \in Node |-> IF n \in DOMAIN backup.nodes
                                   THEN [kind |-> "draft", config |-> backup.nodes[n].config]
                                   ELSE drafts[n]]
    /\ jobs' = [j \in Job |-> Nothing] /\ shown' = Nothing
    /\ UNCHANGED <<made, spent, services, settled, admitted, backup>>

\* on_clear_confirm: the drafts stay behind.
Clear ==
    /\ Change
    /\ accounts' = <<>> /\ nodes' = <<>> /\ registries' = <<>>
    /\ UNCHANGED <<drafts, made, spent, pushing, services, admitted, backup>>

AccountStep  == AddAccount \/ \E a \in DOMAIN accounts : EditAccount(a) \/ DeleteAccount(a)
NodeStep     == \/ AddNode
                \/ \E n \in DOMAIN nodes : \/ EditNode(n) \/ DuplicateNode(n) \/ DeleteNode(n)
                                           \/ EditDraft(n) \/ SaveRevision(n) \/ DeployNode(n)
RegistryStep == \/ \E e \in Entry : SaveRegistry(e)
                \/ \E e \in DOMAIN registries : \/ DeleteRegistry(e)
                                                \/ \E copy \in Entry : DuplicateRegistry(e, copy)
PushStep     == \/ LeavePage
                \/ \E j \in Job : \/ DeployAll(j) \/ Pushed(j) \/ PushedUnsaved(j)
                                  \/ PushedUnheard(j) \/ PushFails(j) \/ Finish(j)
                                  \/ \E e \in DOMAIN registries : DeployOne(j, e)

Next == \/ AccountStep \/ NodeStep \/ RegistryStep \/ PushStep
        \/ \E s \in Service : Restart(s)
        \/ Export \/ Import \/ Clear

Spec == Init /\ [][Next]_vars

(***************************************************************************)
(* Properties.                                                             *)
(***************************************************************************)
Named(a) == \A b \in DOMAIN accounts : accounts[b].token = accounts[a].token => a <= b

\* While nothing has changed since, a registry gives a user exactly the links the
\* accounts page shows for him, and those the nodes' pages make for him. Excepted are a
\* user whose token an earlier account has as well, who is given that account's links;
\* on the accounts page a node without groups, whose links it shows to nobody and the
\* registry gives to everybody; and on the nodes' pages what is sealed or no account's.
PerAccount(links) == {l \in links : CarriesToken(l.form)}

SubscriptionIsShown ==
    \A e \in DOMAIN registries, a \in DOMAIN accounts :
        (memory[Address(e, a).service].edition = changes /\ Named(a)) =>
            LET links == Subscription(memory[Address(e, a).service], Address(e, a).token)
            IN  /\ {l \in links : nodes[l.node].groups # {}} = LinksOf(a)
                /\ PerAccount(links) = PerAccount(AccessLinks(a))

\* A link that a registry gives out is let in by its node, if the node was deployed from
\* the same state of the manager: no subscription names an inbound that would turn its
\* user away. Excepted are nodes without groups, which let nobody in, and the links that
\* carry neither an id nor a token: sealed ones and those with the inbound's own user.
LetsIn(users, l) ==
    \E u \in users : u.inbound = l.inbound /\ u.token = l.token /\ l.id \in {0, u.id}

SubscriptionIsAdmitted ==
    \A s \in Service, token \in Token :
        \A l \in PerAccount(Subscription(memory[s], token)) :
            LET given == admitted[l.node] IN
            (/\ given # Nothing /\ given.edition = memory[s].edition
             /\ \E t \in memory[s].templates : t.node = l.node /\ t.inbound = l.inbound /\ t.groups # {})
               => LetsIn(given.users, l)

\* Once a deployment has ended without a failure, and no other was under way with it,
\* every registry it was for serves what was confirmed, however often they restart,
\* until the next deployment begins.
DeployedIsServed ==
    settled # Nothing =>
        \A s \in settled.at : memory[s] = settled.config /\ disk[s] = settled.config

\* Loading a backup publishes again what was published when it was made: the drafts of
\* then, saved or not.
RestoreRepublishes ==
    [][Import => /\ Generated'.accounts = backup.accounts
                 /\ Generated'.templates = backup.templates]_vars
==============================================================================
