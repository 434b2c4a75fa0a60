-------------------------- MODULE NodeManagerProofs --------------------------
(***************************************************************************)
(* Proofs about NodeManager, for every set of engine keys, of groups and   *)
(* of configurations.                                                      *)
(***************************************************************************)
EXTENDS NodeManager, TLAPS

Applying == {"engines", "prune", "save", "write", "adopt"}

(***************************************************************************)
(* The inductive invariant, in parts.                                      *)
(***************************************************************************)

\* Where Update is, and what it is working on.
Control ==
    /\ stage = "idle" => req = NoFull
    /\ stage # "idle" => req \in FullConfig /\ req \in sent
    /\ stage = "sync" => todo = Keys(req)
    /\ stage # "idle" => todo \subseteq Keys(req)
    /\ stage \notin {"sync", "engines"} => todo = {}
    /\ ~up => stage = "idle" /\ current = NoFull /\ result = "none"

\* The file, and the configurations that may get into it.
OnDisk ==
    /\ disk \in FullConfig => disk \in settled
    /\ stage \in {"prune", "save", "write", "adopt"} => req \in settled
    /\ stage = "write" => disk = Torn
    /\ stage = "adopt" => disk = req
    /\ stage # "adopt" /\ current # NoFull => disk \in {current, Torn}

\* What the engines already visited serve; the engines left after pruning.
Applied ==
    /\ stage \in Applying =>
         /\ \A k \in DOMAIN req.slots \ todo :
               k \in engines /\ slot[k] \in {req.slots[k], NoGroup}
         /\ XKey \in Keys(req) \ todo => XKey \in engines /\ declared = req.xray
    /\ stage \in {"save", "write", "adopt"} => engines = Keys(req)

IInv ==
    /\ TypeOK
    /\ Control
    /\ OnDisk
    /\ ServingIsManaged
    /\ ServedWasSent
    /\ Applied
    /\ AckedIsDeployed

-----------------------------------------------------------------------------
(***************************************************************************)
(* Facts about the operators.                                              *)
(***************************************************************************)

\* A configuration's groups belong to keys.
LEMMA FullShape ==
    ASSUME NEW full \in FullConfig
    PROVE  /\ full.xray \in Config \cup {NoConfig}
           /\ DOMAIN full.slots \subseteq SKey
           /\ \A k \in DOMAIN full.slots : full.slots[k] \in Group
           /\ Keys(full) \subseteq Key
           /\ XKey \in Keys(full) => full.xray \in Config
           /\ XKey \notin DOMAIN full.slots
           /\ Keys(full) \ {XKey} = DOMAIN full.slots
<1>1. full \in FullConfigs
  BY FullConfigAssumption
<1>2. full.xray \in Config \cup {NoConfig}
  BY <1>1 DEF FullConfigs
<1>3. PICK S \in SUBSET SKey : full.slots \in [S -> Group]
  BY <1>1 DEF FullConfigs
<1>4. DOMAIN full.slots \subseteq SKey /\ \A k \in DOMAIN full.slots : full.slots[k] \in Group
  BY <1>3
<1> QED
  BY <1>2, <1>4, KeyAssumption DEF Keys, Key

\* The order of the stages.
LEMMA Order ==
    /\ Following("sync") = "engines"
    /\ Following("engines") = "prune"
    /\ Following("prune") = "save"
    /\ Following("save") = "write"
    /\ Following("write") = "adopt"
  BY DEF Following

-----------------------------------------------------------------------------
LEMMA InitIInv == Init => IInv
  BY NoFileAssumption, TornAssumption
  DEF Init, Xray!Init, IInv, TypeOK, Stage, Control, OnDisk, Applied, Applying,
      ServingIsManaged, ServedWasSent, AckedIsDeployed

LEMMA TypeStep == TypeOK /\ Control /\ [Next]_vars => TypeOK'
<1> SUFFICES ASSUME TypeOK, Control, [Next]_vars
             PROVE  TypeOK'
  OBVIOUS
<1> USE DEF TypeOK, Stage, Control
<1>1. ASSUME NEW full \in FullConfig, Deploy(full)
      PROVE  TypeOK'
  BY <1>1, FullShape DEF Deploy, Start, CurrentDuring
<1>2. CASE SyncStores
  BY <1>2, Order DEF SyncStores, Refuse
<1>3. CASE UpdateXray
  BY <1>3 DEF UpdateXray, Refuse, Remaining, Key
<1>4. ASSUME NEW k \in SKey, UpdateSlot(k)
      PROVE  TypeOK'
  <2>1. k \in DOMAIN req.slots /\ req.slots[k] \in Group
    BY <1>4, FullShape DEF UpdateSlot
  <2> QED
    BY <1>4, <2>1 DEF UpdateSlot, SlotAfterUpdate, Refuse, Remaining, Key
<1>5. CASE EnginesSettled
  BY <1>5, Order DEF EnginesSettled
<1>6. CASE Prune
  BY <1>6, Order DEF Prune, SlotsKept
<1>7. CASE OpenFile
  BY <1>7, Order DEF OpenFile, Refuse
<1>8. CASE WriteFile
  BY <1>8, Order DEF WriteFile, Refuse
<1>9. CASE Adopt
  BY <1>9 DEF Adopt
<1>10. ASSUME NEW k \in SKey, ChildDies(k)
       PROVE  TypeOK'
  BY <1>10 DEF ChildDies
<1>11. CASE Crash
  BY <1>11 DEF Crash
<1>12. CASE Restart
  BY <1>12, FullShape DEF Restart, Start, CurrentDuring
<1>13. CASE UNCHANGED vars
  BY <1>13 DEF vars, nvars
<1> QED
  BY <1>1, <1>2, <1>3, <1>4, <1>5, <1>6, <1>7, <1>8, <1>9, <1>10, <1>11, <1>12, <1>13
  DEF Next, UpdateStep

-----------------------------------------------------------------------------
(***************************************************************************)
(* One lemma per part of IInv: every step keeps it.                        *)
(***************************************************************************)
LEMMA ControlStep == TypeOK /\ Control /\ [Next]_vars => Control'
<1> SUFFICES ASSUME TypeOK, Control, [Next]_vars
             PROVE  Control'
  OBVIOUS
<1> USE DEF TypeOK, Stage, Control, Keys
<1>1. ASSUME NEW full \in FullConfig, Deploy(full)
      PROVE  Control'
  BY <1>1 DEF Deploy, Start
<1>2. CASE SyncStores
  BY <1>2, Order DEF SyncStores, Refuse
<1>3. CASE UpdateXray
  BY <1>3 DEF UpdateXray, Refuse, Remaining
<1>4. ASSUME NEW k \in SKey, UpdateSlot(k)
      PROVE  Control'
  BY <1>4 DEF UpdateSlot, Refuse, Remaining
<1>5. CASE EnginesSettled
  BY <1>5, Order DEF EnginesSettled
<1>6. CASE Prune
  BY <1>6, Order DEF Prune
<1>7. CASE OpenFile
  BY <1>7, Order DEF OpenFile, Refuse
<1>8. CASE WriteFile
  BY <1>8, Order DEF WriteFile, Refuse
<1>9. CASE Adopt
  BY <1>9 DEF Adopt
<1>10. ASSUME NEW k \in SKey, ChildDies(k)
       PROVE  Control'
  BY <1>10 DEF ChildDies
<1>11. CASE Crash
  BY <1>11 DEF Crash
<1>12. CASE Restart
  BY <1>12 DEF Restart, Start
<1>13. CASE UNCHANGED vars
  BY <1>13 DEF vars, nvars
<1> QED
  BY <1>1, <1>2, <1>3, <1>4, <1>5, <1>6, <1>7, <1>8, <1>9, <1>10, <1>11, <1>12, <1>13
  DEF Next, UpdateStep

LEMMA OnDiskStep == TypeOK /\ Control /\ OnDisk /\ [Next]_vars => OnDisk'
<1> SUFFICES ASSUME TypeOK, Control, OnDisk, [Next]_vars
             PROVE  OnDisk'
  OBVIOUS
<1> USE NoFileAssumption, TornAssumption DEF TypeOK, Stage, Control, OnDisk
<1>1. ASSUME NEW full \in FullConfig, Deploy(full)
      PROVE  OnDisk'
  BY <1>1 DEF Deploy, Start, CurrentDuring
<1>2. CASE SyncStores
  BY <1>2, Order DEF SyncStores, Refuse
<1>3. CASE UpdateXray
  BY <1>3 DEF UpdateXray, Refuse
<1>4. ASSUME NEW k \in SKey, UpdateSlot(k)
      PROVE  OnDisk'
  BY <1>4 DEF UpdateSlot, Refuse
<1>5. CASE EnginesSettled
  BY <1>5, Order DEF EnginesSettled
<1>6. CASE Prune
  BY <1>6, Order DEF Prune
<1>7. CASE OpenFile
  BY <1>7, Order DEF OpenFile, Refuse
<1>8. CASE WriteFile
  BY <1>8, Order DEF WriteFile, Refuse
<1>9. CASE Adopt
  BY <1>9 DEF Adopt
<1>10. ASSUME NEW k \in SKey, ChildDies(k)
       PROVE  OnDisk'
  BY <1>10 DEF ChildDies
<1>11. CASE Crash
  BY <1>11 DEF Crash
<1>12. CASE Restart
  BY <1>12 DEF Restart, Start, CurrentDuring
<1>13. CASE UNCHANGED vars
  BY <1>13 DEF vars, nvars
<1> QED
  BY <1>1, <1>2, <1>3, <1>4, <1>5, <1>6, <1>7, <1>8, <1>9, <1>10, <1>11, <1>12, <1>13
  DEF Next, UpdateStep

LEMMA ManagedStep == TypeOK /\ ServingIsManaged /\ [Next]_vars => ServingIsManaged'
<1> SUFFICES ASSUME TypeOK, ServingIsManaged, [Next]_vars
             PROVE  ServingIsManaged'
  OBVIOUS
<1> USE DEF TypeOK, ServingIsManaged
<1>1. ASSUME NEW full \in FullConfig, Deploy(full)
      PROVE  ServingIsManaged'
  BY <1>1 DEF Deploy, xvars
<1>2. CASE SyncStores \/ EnginesSettled \/ OpenFile \/ WriteFile \/ Adopt \/ Restart
  BY <1>2 DEF SyncStores, EnginesSettled, OpenFile, WriteFile, Adopt, Restart, xvars
<1>3. CASE UpdateXray
  BY <1>3 DEF UpdateXray
<1>4. ASSUME NEW k \in SKey, UpdateSlot(k)
      PROVE  ServingIsManaged'
  BY <1>4 DEF UpdateSlot, xvars
<1>5. CASE Prune
  <2>1. \A k \in SKey : slot'[k] # NoGroup => k \in engines'
    BY <1>5 DEF Prune, SlotsKept
  <2>2. instance' = "running" => XKey \in engines'
    BY <1>5 DEF Prune, DropXray, Xray!Fresh, xvars
  <2> QED
    BY <2>1, <2>2
<1>6. ASSUME NEW k \in SKey, ChildDies(k)
      PROVE  ServingIsManaged'
  BY <1>6 DEF ChildDies, xvars
<1>7. CASE Crash
  BY <1>7 DEF Crash, Xray!Fresh
<1>8. CASE UNCHANGED vars
  BY <1>8 DEF vars, nvars, xvars
<1> QED
  BY <1>1, <1>2, <1>3, <1>4, <1>5, <1>6, <1>7, <1>8 DEF Next, UpdateStep

LEMMA SentStep ==
    TypeOK /\ Control /\ ServingIsManaged /\ ServedWasSent /\ Applied /\ [Next]_vars
        => ServedWasSent'
<1> SUFFICES ASSUME TypeOK, Control, ServingIsManaged, ServedWasSent, Applied, [Next]_vars
             PROVE  ServedWasSent'
  OBVIOUS
<1> USE DEF TypeOK, Stage, ServedWasSent
<1>1. ASSUME NEW full \in FullConfig, Deploy(full)
      PROVE  ServedWasSent'
  BY <1>1 DEF Deploy, Start, xvars
<1>2. CASE SyncStores \/ EnginesSettled \/ OpenFile \/ WriteFile
  BY <1>2 DEF SyncStores, EnginesSettled, OpenFile, WriteFile, xvars
<1>3. CASE UpdateXray
  <2>1. req \in sent
    BY <1>3 DEF UpdateXray, Control
  <2>2. instance' = "running" =>
           \/ instance = "running" /\ declared' = declared
           \/ declared' = req.xray
    BY <1>3 DEF UpdateXray, Xray!Sync, Xray!Rebuild, Xray!RebuildFails
  <2> QED
    BY <1>3, <2>1, <2>2 DEF UpdateXray
<1>4. ASSUME NEW k \in SKey, UpdateSlot(k)
      PROVE  ServedWasSent'
  <2>1. req \in sent /\ req \in FullConfig /\ todo \subseteq Keys(req)
    BY <1>4 DEF UpdateSlot, Control
  <2>2. k \in DOMAIN req.slots
    BY <1>4, <2>1, FullShape DEF UpdateSlot
  <2>3. ASSUME NEW j \in SKey
        PROVE  slot'[j] = slot[j] \/ slot'[j] = NoGroup \/ (j = k /\ slot'[j] = req.slots[k])
    <3>1. CASE slot' = [slot EXCEPT ![k] = req.slots[k]]
      BY <3>1
    <3>2. CASE slot' = slot
      BY <3>2
    <3>3. CASE slot' = [slot EXCEPT ![k] = NoGroup]
      BY <3>3
    <3> QED
      BY <1>4, <3>1, <3>2, <3>3 DEF UpdateSlot, SlotAfterUpdate
  <2> QED
    BY <1>4, <2>1, <2>2, <2>3 DEF UpdateSlot, xvars
<1>5. CASE Prune
  <2>1. \A k \in SKey : slot'[k] \in {slot[k], NoGroup}
    BY <1>5 DEF Prune, SlotsKept
  <2>2. instance' = "running" => instance = "running" /\ declared' = declared
    BY <1>5 DEF Prune, DropXray, Xray!Fresh, xvars
  <2> QED
    BY <1>5, <2>1, <2>2 DEF Prune
<1>6. CASE Adopt
  <2>1. req \in FullConfig /\ todo = {} /\ engines = Keys(req)
    BY <1>6 DEF Adopt, Control, Applied
  <2>2. \A k \in SKey : slot[k] # NoGroup => k \in DOMAIN req.slots
    BY <2>1, FullShape, KeyAssumption DEF ServingIsManaged
  <2>3. \A k \in SKey : slot[k] # NoGroup => slot[k] = req.slots[k]
    BY <1>6, <2>1, <2>2 DEF Adopt, Applied, Applying
  <2>4. instance = "running" => declared = req.xray
    BY <1>6, <2>1 DEF Adopt, Applied, Applying, ServingIsManaged
  <2> QED
    BY <1>6, <2>2, <2>3, <2>4 DEF Adopt, xvars
<1>7. ASSUME NEW k \in SKey, ChildDies(k)
      PROVE  ServedWasSent'
  BY <1>7 DEF ChildDies, xvars
<1>8. CASE Crash
  BY <1>8 DEF Crash, Xray!Fresh
<1>9. CASE Restart
  BY <1>9 DEF Restart, Start, xvars
<1>10. CASE UNCHANGED vars
  BY <1>10 DEF vars, nvars, xvars
<1> QED
  BY <1>1, <1>2, <1>3, <1>4, <1>5, <1>6, <1>7, <1>8, <1>9, <1>10 DEF Next, UpdateStep

LEMMA AppliedStep ==
    TypeOK /\ Control /\ Applied /\ [Next]_vars => Applied'
<1> SUFFICES ASSUME TypeOK, Control, Applied, [Next]_vars
             PROVE  Applied'
  OBVIOUS
<1> USE DEF TypeOK, Stage, Applied, Applying
<1>1. ASSUME NEW full \in FullConfig, Deploy(full)
      PROVE  Applied'
  BY <1>1 DEF Deploy, Start
<1>2. CASE SyncStores
  <2>1. req \in FullConfig /\ todo = Keys(req)
    BY <1>2 DEF SyncStores, Control
  <2>2. DOMAIN req.slots \subseteq todo
    BY <2>1, FullShape
  <2> QED
    BY <1>2, <2>1, <2>2, Order DEF SyncStores, Refuse
<1>3. CASE UpdateXray
  <2>1. CASE Refuse
    BY <2>1 DEF Refuse
  <2>2. CASE (Xray!Sync(req.xray) \/ Xray!Rebuild(req.xray)) /\ todo' = Remaining(XKey)
             /\ UNCHANGED <<stage, req>>
    <3>1. declared' = req.xray
      BY <2>2 DEF Xray!Sync, Xray!Rebuild
    <3>2. req \in FullConfig
      BY <1>3 DEF UpdateXray, Control
    <3> QED
      BY <1>3, <2>2, <3>1, <3>2, FullShape DEF UpdateXray, Remaining
  <2> QED
    BY <1>3, <2>1, <2>2 DEF UpdateXray
<1>4. ASSUME NEW k \in SKey, UpdateSlot(k)
      PROVE  Applied'
  <2>1. CASE Refuse
    BY <2>1 DEF Refuse
  <2>2. CASE /\ slot' = [slot EXCEPT ![k] = req.slots[k]]
             /\ todo' = todo \ {k}
             /\ UNCHANGED <<stage, req>>
    BY <1>4, <2>2, FullShape, KeyAssumption DEF UpdateSlot, Control, xvars
  <2> QED
    BY <1>4, <2>1, <2>2 DEF UpdateSlot, SlotAfterUpdate, Remaining
<1>5. CASE EnginesSettled
  BY <1>5, Order DEF EnginesSettled, xvars
<1>6. CASE Prune
  <2>1. req \in FullConfig /\ todo = {}
    BY <1>6 DEF Prune, Control
  <2>2. Keys(req) \subseteq engines
    BY <1>6, <2>1, FullShape DEF Prune
  <2>3. \A k \in DOMAIN req.slots : k \in SKey /\ k \in Keys(req) /\ slot'[k] = slot[k]
    BY <1>6, <2>1, FullShape DEF Prune, SlotsKept, Keys
  <2>4. XKey \in Keys(req) => declared' = declared
    BY <1>6 DEF Prune, xvars
  <2> QED
    BY <1>6, <2>1, <2>2, <2>3, <2>4, Order DEF Prune
<1>7. CASE OpenFile
  BY <1>7, Order DEF OpenFile, Refuse, xvars
<1>8. CASE WriteFile
  BY <1>8, Order DEF WriteFile, Refuse, xvars
<1>9. CASE Adopt
  BY <1>9 DEF Adopt
<1>10. ASSUME NEW k \in SKey, ChildDies(k)
       PROVE  Applied'
  BY <1>10 DEF ChildDies, xvars
<1>11. CASE Crash
  BY <1>11 DEF Crash
<1>12. CASE Restart
  BY <1>12 DEF Restart, Start, Control
<1>13. CASE UNCHANGED vars
  BY <1>13 DEF vars, nvars, xvars
<1> QED
  BY <1>1, <1>2, <1>3, <1>4, <1>5, <1>6, <1>7, <1>8, <1>9, <1>10, <1>11, <1>12, <1>13
  DEF Next, UpdateStep

LEMMA AckedStep ==
    TypeOK /\ Control /\ OnDisk /\ Applied /\ AckedIsDeployed /\ [Next]_vars
        => AckedIsDeployed'
<1> SUFFICES ASSUME TypeOK, Control, OnDisk, Applied, AckedIsDeployed, [Next]_vars
             PROVE  AckedIsDeployed'
  OBVIOUS
<1> USE DEF TypeOK, Stage, AckedIsDeployed
<1>1. ASSUME NEW full \in FullConfig, Deploy(full)
      PROVE  AckedIsDeployed'
  BY <1>1 DEF Deploy, Start
<1>2. CASE SyncStores \/ EnginesSettled \/ Prune \/ OpenFile \/ WriteFile
  BY <1>2, Order DEF SyncStores, EnginesSettled, Prune, OpenFile, WriteFile, Refuse
<1>3. CASE UpdateXray
  BY <1>3 DEF UpdateXray, Refuse
<1>4. ASSUME NEW k \in SKey, UpdateSlot(k)
      PROVE  AckedIsDeployed'
  BY <1>4 DEF UpdateSlot, Refuse
<1>5. CASE Adopt
  <2>1. req \in FullConfig /\ todo = {} /\ engines = Keys(req) /\ disk = req
    BY <1>5 DEF Adopt, Control, Applied, OnDisk
  <2>2. /\ \A k \in DOMAIN req.slots : slot[k] \in {req.slots[k], NoGroup}
        /\ XKey \in engines => declared = req.xray
    BY <1>5, <2>1 DEF Adopt, Applied, Applying
  <2> QED
    BY <1>5, <2>1, <2>2, NoFullAssumption DEF Adopt, Keys, xvars
<1>6. ASSUME NEW k \in SKey, ChildDies(k)
      PROVE  AckedIsDeployed'
  BY <1>6 DEF ChildDies, Keys, xvars
<1>7. CASE Crash
  BY <1>7 DEF Crash
<1>8. CASE Restart
  BY <1>8 DEF Restart, Start, Control
<1>9. CASE UNCHANGED vars
  BY <1>9 DEF vars, nvars, xvars, Keys
<1> QED
  BY <1>1, <1>2, <1>3, <1>4, <1>5, <1>6, <1>7, <1>8, <1>9 DEF Next, UpdateStep

LEMMA Invariance == Spec => []IInv
<1>1. IInv /\ [Next]_vars => IInv'
  BY TypeStep, ControlStep, OnDiskStep, ManagedStep, SentStep, AppliedStep, AckedStep
  DEF IInv
<1> QED
  BY InitIInv, <1>1, PTL DEF Spec

-----------------------------------------------------------------------------
(***************************************************************************)
(* The theorems.                                                           *)
(***************************************************************************)

\* Every variable of the manager keeps its type.
THEOREM TypeCorrect == Spec => []TypeOK
  BY Invariance, PTL DEF IInv

\* What a successful Update promises (engine.go:205-285) holds until the next
\* one begins, after any history of failures, deaths, crashes and restores.
THEOREM AckedIsAlwaysDeployed == Spec => []AckedIsDeployed
  BY Invariance, PTL DEF IInv

\* deployed_config.json, when it can be read, holds a configuration that all
\* engines accepted (engine.go:277): restoring it repeats no refused update.
THEOREM DiskWasAlwaysSettled == Spec => []DiskWasSettled
<1>1. IInv => DiskWasSettled
  BY DEF IInv, OnDisk, DiskWasSettled
<1> QED
  BY <1>1, Invariance, PTL

\* The file and currentConfig (engine.go:277-282) agree between updates, or
\* the file is torn.
THEOREM CurrentAlwaysMatchesDisk == Spec => []CurrentMatchesDisk
<1>1. IInv => CurrentMatchesDisk
  BY DEF IInv, OnDisk, CurrentMatchesDisk
<1> QED
  BY <1>1, Invariance, PTL

\* No engine goes on serving behind the manager's back (engine.go:244-275).
THEOREM ServingIsAlwaysManaged == Spec => []ServingIsManaged
  BY Invariance, PTL DEF IInv

\* Nothing from before the last successful Update is served.
THEOREM ServedWasAlwaysSent == Spec => []ServedWasSent
  BY Invariance, PTL DEF IInv

-----------------------------------------------------------------------------
(***************************************************************************)
(* A node implements the specification of its xray engine.                 *)
(***************************************************************************)
LEMMA XrayStep == TypeOK /\ Control /\ [Next]_vars => [Xray!Next]_(Xray!vars)
<1> SUFFICES ASSUME TypeOK, Control, [Next]_vars
             PROVE  Xray!Next \/ UNCHANGED xvars
  BY DEF Xray!vars, xvars
<1>1. CASE UpdateXray
  <2>1. req.xray \in Config
    BY <1>1, FullShape DEF UpdateXray, Control, TypeOK
  <2> QED
    BY <1>1, <2>1 DEF UpdateXray, Xray!Next
<1>2. CASE Prune
  BY <1>2 DEF Prune, DropXray, Xray!Next
<1>3. CASE Crash
  BY <1>3 DEF Crash, Xray!Next
<1>4. CASE SyncStores \/ EnginesSettled \/ OpenFile \/ WriteFile \/ Adopt \/ Restart
  BY <1>4 DEF SyncStores, EnginesSettled, OpenFile, WriteFile, Adopt, Restart
<1>5. CASE \E full \in FullConfig : Deploy(full)
  BY <1>5 DEF Deploy
<1>6. CASE \E k \in SKey : UpdateSlot(k) \/ ChildDies(k)
  BY <1>6 DEF UpdateSlot, ChildDies
<1>7. CASE UNCHANGED vars
  BY <1>7 DEF vars
<1> QED
  BY <1>1, <1>2, <1>3, <1>4, <1>5, <1>6, <1>7 DEF Next, UpdateStep

\* The manager (engine.go:244-275) uses XrayEngine by its operations only.
THEOREM NodeDrivesXray == Spec => DrivesXray
<1>1. Init => Xray!Init
  BY DEF Init
<1> QED
  BY <1>1, XrayStep, Invariance, PTL DEF Spec, IInv, DrivesXray, Xray!Spec

(***************************************************************************)
(* So the invariant proved of XrayEngine holds of the engine in a node.    *)
(***************************************************************************)
XrayProofs == INSTANCE XrayEngineProofs

LEMMA SameEngine ==
    /\ Xray!Init => XrayProofs!Init
    /\ [Xray!Next]_(Xray!vars) => [XrayProofs!Next]_(XrayProofs!vars)
<1>1. Xray!Init => XrayProofs!Init
  BY DEF Xray!Init, Xray!NoAccounts, XrayProofs!Init, XrayProofs!NoAccounts
<1>2. [Xray!Next]_(Xray!vars) => [XrayProofs!Next]_(XrayProofs!vars)
  BY DEF Xray!Next, Xray!vars, Xray!Sync, Xray!Rebuild, Xray!RebuildFails, Xray!Stop,
         Xray!Fresh, Xray!NeedsRestart, Xray!Shape, Xray!HasKind, Xray!Synced,
         Xray!UserAfter, Xray!AccountsRemembered, Xray!AccountsAt, Xray!NoAccounts,
         Xray!AccountMap,
         XrayProofs!Next, XrayProofs!vars, XrayProofs!Sync, XrayProofs!Rebuild,
         XrayProofs!RebuildFails, XrayProofs!Stop, XrayProofs!Fresh,
         XrayProofs!NeedsRestart, XrayProofs!Shape, XrayProofs!HasKind,
         XrayProofs!Synced, XrayProofs!UserAfter, XrayProofs!AccountsRemembered,
         XrayProofs!AccountsAt, XrayProofs!NoAccounts, XrayProofs!AccountMap
<1> QED
  BY <1>1, <1>2

LEMMA EngineInvariance == Spec => []XrayProofs!IInv
<1>1. XrayProofs!Init => XrayProofs!IInv
  BY XrayAssumption, XrayProofs!InitIInv
  DEF Xray!XrayConfig, Xray!Inbound, Xray!AccountMap, Xray!Kind,
      XrayProofs!XrayConfig, XrayProofs!Inbound, XrayProofs!AccountMap, XrayProofs!Kind
<1>2. XrayProofs!IInv /\ [XrayProofs!Next]_(XrayProofs!vars) => XrayProofs!IInv'
  BY XrayAssumption, XrayProofs!StepIInv
  DEF Xray!XrayConfig, Xray!Inbound, Xray!AccountMap, Xray!Kind,
      XrayProofs!XrayConfig, XrayProofs!Inbound, XrayProofs!AccountMap, XrayProofs!Kind
<1> QED
  BY <1>1, <1>2, SameEngine, NodeDrivesXray, PTL DEF DrivesXray, Xray!Spec

\* From Update (engine.go:205-285) down to the core (xray.go:76-353): what is
\* acknowledged is what a running core serves.
THEOREM AckedXrayIsAlwaysServed == Spec => []AckedXrayIsServed
<1>1. IInv /\ XrayProofs!IInv => AckedXrayIsServed
  <2> SUFFICES ASSUME IInv, XrayProofs!IInv,
                      stage = "idle", result = "ok", instance = "running"
               PROVE  /\ Xray!Shape(live) = Xray!Shape(current.xray)
                      /\ ~drifted =>
                            \A t \in DOMAIN live.inbounds :
                                live.inbounds[t].kind = "edited" =>
                                    live.inbounds[t].accounts = current.xray.inbounds[t].accounts
    BY DEF AckedXrayIsServed
  <2>1. declared = current.xray
    BY DEF IInv, AckedIsDeployed, ServingIsManaged
  <2>2. XrayProofs!Shape(live) = XrayProofs!Shape(declared)
    BY DEF XrayProofs!IInv, XrayProofs!ShapesAgree
  <2>3. ~drifted =>
           \A t \in DOMAIN live.inbounds :
               live.inbounds[t].kind = "edited" =>
                   live.inbounds[t].accounts = declared.inbounds[t].accounts
    BY DEF XrayProofs!IInv, XrayProofs!ServesDeclaredUsers
  <2> QED
    BY <2>1, <2>2, <2>3 DEF Xray!Shape, XrayProofs!Shape
<1> QED
  BY <1>1, Invariance, EngineInvariance, PTL

-----------------------------------------------------------------------------
\* What Update promised by returning nil (engine.go:205-285) holds of the file, the
\* engines and the running xray core, until the next Update begins.
THEOREM AckedIsAlwaysServed == Spec => []AckedIsServed
<1>1. AckedIsDeployed /\ AckedXrayIsServed => AckedIsServed
  BY DEF AckedIsServed
<1> QED
  BY <1>1, AckedIsAlwaysDeployed, AckedXrayIsAlwaysServed, PTL

\* Nothing serves that the manager does not know, or from before the last success
\* (engine.go:244-275).
THEOREM ServedIsAlwaysKnown == Spec => []ServedIsKnown
<1>1. ServingIsManaged /\ ServedWasSent => ServedIsKnown
  BY DEF ServedIsKnown
<1> QED
  BY <1>1, ServingIsAlwaysManaged, ServedWasAlwaysSent, PTL
=============================================================================
