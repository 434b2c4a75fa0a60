----------------------- MODULE XrayCertificatesProofs ------------------------
(***************************************************************************)
(* Proofs about XrayCertificates, for every set of certificate names and   *)
(* contents and every configuration: deployments drive the xray engine by  *)
(* its own operations, and every core runs with certificates that were     *)
(* declared.                                                               *)
(***************************************************************************)
EXTENDS XrayCertificates, XrayEngineProofs

(***************************************************************************)
(* The update under way is of a configuration that may be sent, and once   *)
(* it builds a core there is one.                                          *)
(***************************************************************************)
UpdateOK ==
    /\ stage \in {"idle", "sent", "building"}
    /\ sent \in Config \cup {NoConfig}
    /\ stage = "building" => sent # NoConfig

(***************************************************************************)
(* The store's content of every name, declared or written to a file, is    *)
(* among those declared since the name was last missing; and so is what    *)
(* the names resolved so far were given.                                   *)
(***************************************************************************)
StoreOK ==
    /\ Store!TypeOK
    /\ \A n \in Name :
           /\ byName[n] # NoCert => byName[n].pem \in since[n]
           /\ paths[n] # NoFile => paths[n] \in since[n]
           /\ handed[n] # NoFile => handed[n] \in since[n]

ResolvedOK ==
    stage = "building" => \A n \in Uses(sent) \ left : WereDeclared(handed[n], since[n])

BuiltOK ==
    instance = "running" => \A n \in Uses(live) : WereDeclared(built[n].file, built[n].since)

CertInv == UpdateOK /\ StoreOK /\ ResolvedOK /\ BuiltOK

-----------------------------------------------------------------------------
LEMMA NamesAreUsed ==
    ASSUME NEW cfg \in XrayConfig
    PROVE  Uses(cfg) \subseteq Name
<1>1. ASSUME NEW t \in DOMAIN cfg.inbounds
      PROVE  Refers[cfg.inbounds[t].settings] \subseteq Name
  <2>1. PICK S \in (SUBSET Tag) \ {{}} : cfg.inbounds \in [S -> Inbound]
    BY DEF XrayConfig
  <2>2. cfg.inbounds[t].settings \in Settings
    BY <2>1 DEF Inbound
  <2> QED
    BY <2>2, CertificatesAssumption
<1> QED
  BY <1>1 DEF Uses

\* Users are edited in place without another certificate being referred to.
LEMMA EditsUseTheSame ==
    ASSUME live \in XrayConfig, NEW served \in [DOMAIN live.inbounds -> AccountMap]
    PROVE  Uses(Edited(served)) = Uses(live)
<1>1. Edited(served) \in XrayConfig /\ Shape(Edited(served)) = Shape(live)
  BY EditedShape
<1>2. /\ DOMAIN Edited(served).inbounds = DOMAIN live.inbounds
      /\ \A t \in DOMAIN live.inbounds :
             Edited(served).inbounds[t].settings = live.inbounds[t].settings
  BY <1>1, SameShape
<1> QED
  BY <1>2 DEF Uses

\* Every deployment takes the engine through its own operations, or leaves it alone.
LEMMA EngineStep == UpdateOK /\ [NodeNext]_nodeVars => [Next]_vars
<1> SUFFICES ASSUME UpdateOK, [NodeNext]_nodeVars
             PROVE  Next \/ UNCHANGED vars
  OBVIOUS
<1>1. CASE EditUsers
  BY <1>1 DEF UpdateOK, EditUsers, Next
<1>2. CASE CloseOld
  BY <1>2 DEF UpdateOK, CloseOld, Next
<1>3. CASE StartNew
  BY <1>3 DEF UpdateOK, StartNew, Next
<1>4. CASE DropEngine \/ NodeRestarts
  BY <1>4 DEF DropEngine, NodeRestarts, Next
<1>5. CASE UNCHANGED engine
  BY <1>5 DEF engine
<1> QED
  BY <1>1, <1>2, <1>3, <1>4, <1>5
  DEF NodeNext, nodeVars, Deploy, Refused, Abandon, OthersResolve, ResolveOne, StartFails

LEMMA UpdateStep == UpdateOK /\ [NodeNext]_nodeVars => UpdateOK'
  BY DEF UpdateOK, NodeNext, nodeVars, update, Deploy, Refused, Abandon, OthersResolve, EditUsers,
         CloseOld, ResolveOne, StartNew, StartFails, DropEngine, NodeRestarts, Ended

-----------------------------------------------------------------------------
LEMMA SyncKeepsStore ==
    ASSUME StoreOK, NEW certs \in Declarations, Store!Sync(certs)
    PROVE  StoreOK'
<1>1. certs \in [Name -> Store!Cert \cup {NoCert}]
  BY CertificatesAssumption
<1>2. \A n \in Name : certs[n] # NoCert => certs[n].pem \in Pem \cup {NoPem}
  BY <1>1 DEF Store!Cert, Store!Custom, Store!Acme
<1>3. Store!TypeOK'
  BY <1>1, <1>2 DEF StoreOK, Store!TypeOK, Store!Sync, Store!PathsAfterSync
<1>4. ASSUME NEW n \in Name
      PROVE  /\ byName'[n] # NoCert => byName'[n].pem \in since'[n]
             /\ paths'[n] # NoFile => paths'[n] \in since'[n]
             /\ handed'[n] = NoFile
  BY <1>1 DEF StoreOK, Store!TypeOK, Store!Sync, Store!PathsAfterSync
<1> QED
  BY <1>3, <1>4 DEF StoreOK

\* What a name is given was declared for it: certmagic's file for an ACME name, else
\* the file in the cache, else one of the content declared now.
LEMMA ResolveKeepsStore ==
    ASSUME StoreOK, NEW n \in Name, Store!Resolve(n)
    PROVE  StoreOK' /\ WereDeclared(handed'[n], since'[n])
<1> USE DEF StoreOK, Store!TypeOK, Store!Resolve
<1>1. CASE byName[n] = Store!Acme
  <2>0. \A pem \in Pem : byName[n] # Store!Custom(pem)
    <3>1. \A pem \in Pem : Store!Custom(pem).kind = "custom" /\ Store!Acme.kind = "acme"
      BY DEF Store!Acme, Store!Custom
    <3> QED
      BY <1>1, <3>1
  <2>1. Store!PathAfterResolve(n) = paths[n]
    BY <2>0 DEF Store!PathAfterResolve
  <2>2. handed'[n] = NoFile /\ paths' = paths
    BY <1>1, <2>1
  <2>3. NoPem \in since[n]
    BY <1>1, CertificatesAssumption DEF Store!Acme, Store!Cert
  <2> QED
    BY <2>1, <2>2, <2>3, <1>1 DEF WereDeclared
<1>2. CASE byName[n] # Store!Acme
  <2>1. PICK pem \in Pem : byName[n] = Store!Custom(pem)
    BY <1>2 DEF Store!Cert
  <2>2. pem \in since[n] /\ pem # NoFile
    BY <2>1, CertificatesAssumption DEF Store!Custom
  <2>3. Store!PathAfterResolve(n) = IF paths[n] = NoFile THEN pem ELSE paths[n]
    BY <2>1 DEF Store!PathAfterResolve, Store!Custom
  <2>4. /\ Store!PathAfterResolve(n) \in Pem
        /\ Store!PathAfterResolve(n) # NoFile
        /\ Store!PathAfterResolve(n) \in since[n]
    BY <2>2, <2>3, CertificatesAssumption
  <2>5. handed'[n] = Store!PathAfterResolve(n) /\ paths'[n] = Store!PathAfterResolve(n)
    BY <1>2
  <2> HIDE DEF Store!PathAfterResolve
  <2> QED
    BY <2>4, <2>5 DEF WereDeclared
<1> QED
  BY <1>1, <1>2

LEMMA StoreStep == UpdateOK /\ StoreOK /\ [NodeNext]_nodeVars => StoreOK'
<1> SUFFICES ASSUME StoreOK, [NodeNext]_nodeVars
             PROVE  StoreOK'
  OBVIOUS
<1>1. CASE UNCHANGED store
  BY <1>1 DEF StoreOK, Store!TypeOK, store
<1>2. ASSUME NEW cfg \in Config \cup {NoConfig}, NEW certs \in Declarations, Deploy(cfg, certs)
      PROVE  StoreOK'
  BY <1>2, SyncKeepsStore DEF Deploy
<1>3. ASSUME NEW n \in Name, OthersResolve(n) \/ ResolveOne(n)
      PROVE  StoreOK'
  <2>1. CASE Store!Resolve(n)
    BY <2>1, ResolveKeepsStore
  <2>2. CASE Store!ResolveFails(n)
    BY <2>2, <1>1 DEF Store!ResolveFails, Store!vars, store
  <2> QED
    BY <1>3, <2>1, <2>2 DEF OthersResolve, ResolveOne
<1>4. CASE NodeRestarts
  BY <1>4 DEF NodeRestarts, StoreOK, Store!TypeOK
<1>5. CASE Refused
  BY <1>5, <1>1 DEF Refused, Store!SyncRefused, Store!vars, store
<1> QED
  BY <1>1, <1>2, <1>3, <1>4, <1>5
  DEF NodeNext, nodeVars, Abandon, EditUsers, CloseOld, StartNew, StartFails, DropEngine

-----------------------------------------------------------------------------
LEMMA ResolvedStep == CertInv /\ [NodeNext]_nodeVars => ResolvedOK'
<1> SUFFICES ASSUME CertInv, [NodeNext]_nodeVars, stage' = "building"
             PROVE  \A n \in Uses(sent') \ left' : WereDeclared(handed'[n], since'[n])
  BY DEF ResolvedOK
<1>1. CASE CloseOld
  BY <1>1 DEF CloseOld
<1>2. ASSUME NEW n \in Name, ResolveOne(n)
      PROVE  \A m \in Uses(sent') \ left' : WereDeclared(handed'[m], since'[m])
  <2>1. /\ WereDeclared(handed'[n], since'[n])
        /\ since' = since /\ \A m \in Name \ {n} : handed'[m] = handed[m]
    BY <1>2, ResolveKeepsStore DEF CertInv, StoreOK, Store!TypeOK, ResolveOne, Store!Resolve
  <2>2. /\ sent' = sent /\ left' = left \ {n} /\ stage = "building"
        /\ sent \in XrayConfig
    BY <1>2, ConfigAssumption DEF ResolveOne, CertInv, UpdateOK
  <2>3. Uses(sent) \subseteq Name
    BY <2>2, NamesAreUsed
  <2> QED
    BY <2>1, <2>2, <2>3 DEF CertInv, ResolvedOK
<1>3. CASE stage = "building" /\ UNCHANGED <<store, update>>
  BY <1>3 DEF CertInv, ResolvedOK, store, update
<1> QED
  BY <1>1, <1>2, <1>3
  DEF NodeNext, nodeVars, store, update, CertInv, UpdateOK, Deploy, Refused, Abandon, OthersResolve,
      EditUsers, StartNew, StartFails, DropEngine, NodeRestarts, Ended

LEMMA BuiltStep == IInv /\ CertInv /\ [NodeNext]_nodeVars => BuiltOK'
<1> SUFFICES ASSUME IInv, CertInv, [NodeNext]_nodeVars, instance' = "running"
             PROVE  \A n \in Uses(live') : WereDeclared(built'[n].file, built'[n].since)
  BY DEF BuiltOK
<1>1. CASE EditUsers
  <2>1. built' = built /\ Sync(sent) /\ instance = "running"
    BY <1>1 DEF EditUsers, Sync
  <2>2. live \in XrayConfig
    BY <2>1 DEF IInv, ShapesAgree
  <2>3. PICK served \in Synced(sent) : live' = Edited(served)
    BY <2>1 DEF Sync, Edited
  <2>4. served \in [DOMAIN live.inbounds -> AccountMap]
    BY <2>3 DEF Synced
  <2>5. Uses(live') = Uses(live)
    BY <2>2, <2>3, <2>4, EditsUseTheSame
  <2> QED
    BY <2>1, <2>5 DEF CertInv, BuiltOK
<1>2. CASE StartNew
  <2>1. /\ stage = "building" /\ left = {} /\ live' = sent
        /\ sent \in XrayConfig
    BY <1>2, ConfigAssumption DEF StartNew, Rebuild, CertInv, UpdateOK
  <2>2. Uses(sent) \subseteq Name
    BY <2>1, NamesAreUsed
  <2>3. \A n \in Uses(sent) : built'[n].file = handed[n] /\ built'[n].since = since[n]
    BY <1>2, <2>2 DEF StartNew
  <2>4. \A n \in Uses(sent) : WereDeclared(handed[n], since[n])
    BY <2>1 DEF CertInv, ResolvedOK
  <2>5. Uses(live') = Uses(sent)
    BY <2>1
  <2> QED
    BY <2>3, <2>4, <2>5 DEF WereDeclared
<1>3. CASE UNCHANGED <<engine, built>>
  BY <1>3 DEF CertInv, BuiltOK, engine, vars
<1>4. CASE CloseOld \/ DropEngine \/ NodeRestarts
  BY <1>4 DEF CloseOld, RebuildFails, DropEngine, NodeRestarts, Fresh
<1> QED
  BY <1>1, <1>2, <1>3, <1>4
  DEF NodeNext, nodeVars, update, Deploy, Refused, Abandon, OthersResolve, ResolveOne, StartFails

-----------------------------------------------------------------------------
LEMMA InitCertInv == NodeInit => CertInv
  BY DEF NodeInit, Init, Store!Init, CertInv, UpdateOK, StoreOK, Store!TypeOK, ResolvedOK, BuiltOK

LEMMA StepCertInv == IInv /\ CertInv /\ [NodeNext]_nodeVars => CertInv'
  BY UpdateStep, StoreStep, ResolvedStep, BuiltStep DEF CertInv

\* Deployments drive the xray engine by its own operations only (engine.go:264-275),
\* so what XrayEngine says of it holds beside the certificate store.
THEOREM DeploymentsDriveXray == NodeSpec => Spec
<1>1. NodeInit => Init /\ UpdateOK
  BY DEF NodeInit, UpdateOK
<1> QED
  BY <1>1, UpdateStep, EngineStep, PTL DEF NodeSpec, Spec

LEMMA CertInvariance == NodeSpec => []CertInv
<1>1. NodeSpec => []IInv
  BY DeploymentsDriveXray, Invariance, PTL
<1> QED
  BY <1>1, InitCertInv, StepCertInv, PTL DEF NodeSpec

\* Whatever a core was started with had been declared for the names its inbounds give
\* (xray.go:511-515, certificates.go:35-182), after any history of deployments that
\* were accepted, refused or cut short, and of restarts.
THEOREM CertificatesWereAlwaysDeclared == NodeSpec => []CertificatesWereDeclared
<1>1. CertInv => CertificatesWereDeclared
  BY DEF CertInv, StoreOK, BuiltOK, CertificatesWereDeclared, Store!HandedWasDeclared
<1> QED
  BY <1>1, CertInvariance, PTL

\* Beside the store too, a running core serves what was declared.
THEOREM DeployedIsServed == NodeSpec => []ServesDeclared
  BY DeploymentsDriveXray, DeclaredIsServed, PTL
=============================================================================
