------------------------- MODULE NodeProcessProofs -------------------------
(***************************************************************************)
(* Theorems about the processes a node runs: supervisedProcess, for any    *)
(* number of children and any bound on the generation counter, AfterFunc   *)
(* callbacks included; the TrustTunnel clients, for any tags and           *)
(* configurations; and the traffic that is counted over restarts of the    *)
(* engines and of the node, for any number of sources, bytes and hours.    *)
(***************************************************************************)
EXTENDS Supervisor, TrustTunnelOutbounds, Metrics, FiniteSetTheorems, TLAPS

(***************************************************************************)
(* stopping is initially FALSE and becomes TRUE before the first child     *)
(* exists; nothing clears it.  So every monitor finds it set.  That is the *)
(* fact RetryNeverArmed and NoOrphan need besides themselves.              *)
(***************************************************************************)
StoppingOnceUsed == (\E q \in Proc : child[q] # "unborn") => stopping

IInv == TypeOK /\ StoppingOnceUsed /\ RetryNeverArmed /\ NoOrphan

\* The helpers that touch the children keep their type, and leave running
\* only a child that ran before and was not p.cmd.
LEMMA KilledProperties ==
    ASSUME TypeOK, NoOrphan
    PROVE  /\ Killed(child) \in [Proc -> ChildState]
           /\ \A q \in Proc : Killed(child)[q] # "running"
           /\ \A q \in Proc : Killed(child)[q] = "unborn" <=> child[q] = "unborn"
  BY NoProcAssumption DEF TypeOK, NoOrphan, Killed, ChildState

\* Initially the struct is new and nothing has been started.
LEMMA InitIInv == Init => IInv
  <1> SUFFICES ASSUME Init PROVE IInv
    OBVIOUS
  <1>1. TypeOK
    BY DEF Init, TypeOK, ChildState
  <1>2. StoppingOnceUsed /\ NoOrphan
    BY DEF Init, StoppingOnceUsed, NoOrphan
  <1>3. RetryNeverArmed
    BY DEF Init, RetryNeverArmed
  <1>4. QED
    BY <1>1, <1>2, <1>3 DEF IInv

\* Every critical section and every environment step keeps IInv.
LEMMA StepIInv == IInv /\ [Next]_vars => IInv'
  <1> SUFFICES ASSUME IInv, [Next]_vars
               PROVE  IInv'
    OBVIOUS
  <1> USE DEF IInv
  <1>1. CASE Restart
    <2>1. Killed(child) \in [Proc -> ChildState]
      BY KilledProperties
    <2>2. \A q \in Proc : Killed(child)[q] # "running"
      BY KilledProperties
    <2>3. generation + 2 \in Nat
      BY DEF TypeOK
    <2>4. CASE \E q \in Proc : StartLocked(q, Killed(child), generation + 2)
      <3>1. PICK q \in Proc : StartLocked(q, Killed(child), generation + 2)
        BY <2>4
      <3>2. child' = [Killed(child) EXCEPT ![q] = "running"] /\ cmd' = q
        BY <3>1 DEF StartLocked
      <3>3. monitor' = [monitor EXCEPT ![q] = generation + 2] /\ hasCommand' = TRUE
        BY <3>1 DEF StartLocked
      <3>4. TypeOK'
        BY <1>1, <2>1, <2>3, <3>2, <3>3 DEF TypeOK, Restart, Bumped, ChildState, RetryNeverArmed
      <3>5. NoOrphan'
        BY <2>1, <2>2, <3>2 DEF NoOrphan
      <3>6. QED
        BY <1>1, <3>4, <3>5 DEF Restart, StoppingOnceUsed, RetryNeverArmed
    <2>5. CASE child' = Killed(child) /\ cmd' = NoProc /\ UNCHANGED <<monitor, hasCommand>>
      <3>1. TypeOK'
        BY <1>1, <2>1, <2>3, <2>5 DEF TypeOK, Restart, Bumped, RetryNeverArmed
      <3>2. NoOrphan'
        BY <2>2, <2>5 DEF NoOrphan
      <3>3. QED
        BY <1>1, <3>1, <3>2 DEF Restart, StoppingOnceUsed, RetryNeverArmed
    <2>6. QED
      BY <1>1, <2>4, <2>5 DEF Restart, Bumped
  <1>2. CASE Stop
    <2>1. TypeOK'
      BY <1>2, KilledProperties DEF Stop, TypeOK, Bumped
    <2>2. NoOrphan'
      BY <1>2, KilledProperties DEF Stop, NoOrphan
    <2>3. QED
      BY <1>2, <2>1, <2>2 DEF Stop, StoppingOnceUsed, RetryNeverArmed
  <1>3. ASSUME NEW q \in Proc, Exit(q)
        PROVE  IInv'
    BY <1>3 DEF Exit, TypeOK, ChildState, StoppingOnceUsed, RetryNeverArmed, NoOrphan
  <1>4. ASSUME NEW q \in Proc, Monitor(q)
        PROVE  IInv'
    <2>1. child[q] = "exited" /\ child' = [child EXCEPT ![q] = "reaped"]
      BY <1>4 DEF Monitor
    <2>2. stopping
      BY <2>1 DEF StoppingOnceUsed
    <2>3. armed' = armed
      BY <1>4, <2>2 DEF Monitor, Superseded
    <2>4. TypeOK'
      BY <1>4, <2>1, <2>3 DEF Monitor, CmdAfterReap, TypeOK, ChildState
    <2>5. NoOrphan'
      BY <1>4, <2>1 DEF Monitor, CmdAfterReap, NoOrphan, TypeOK
    <2>6. QED
      BY <1>4, <2>2, <2>3, <2>4, <2>5 DEF Monitor, StoppingOnceUsed, RetryNeverArmed
  <1>5. ASSUME NEW gen \in armed, Retry(gen)
        PROVE  IInv'
    BY <1>5 DEF RetryNeverArmed
  <1>6. CASE UNCHANGED vars
    BY <1>6 DEF vars, TypeOK, StoppingOnceUsed, RetryNeverArmed, NoOrphan
  <1>7. QED
    BY <1>1, <1>2, <1>3, <1>4, <1>5, <1>6 DEF Next, NextNoRetry

LEMMA Invariance == Spec => []IInv
  BY InitIInv, StepIInv, PTL DEF Spec

\* The struct keeps its types.
THEOREM TypeCorrect == Spec => []TypeOK
  BY Invariance, PTL DEF IInv

\* No child runs unkilled outside p.cmd.
THEOREM NoOrphanEver == Spec => []NoOrphan
  BY Invariance, PTL DEF IInv

\* The auto-restart of subprocess.go:83-99 is never reached.
THEOREM RetryUnreachable == Spec => []RetryNeverArmed
  BY Invariance, PTL DEF IInv

-----------------------------------------------------------------------------
(***************************************************************************)
(* Refinement: every step is a call, a death or a stutter of the slot.     *)
(***************************************************************************)
Serving == IF cmd # NoProc /\ child[cmd] = "running" THEN cmd ELSE NoProc

LEMMA SlotInit == Init => Slot!Init
  BY DEF Init, Slot!Init

LEMMA SlotStep == IInv /\ IInv' /\ [Next]_vars => [Slot!Next]_(Slot!slotVars)
  <1> SUFFICES ASSUME IInv, IInv', [Next]_vars
               PROVE  [Slot!Next]_(Slot!slotVars)
    OBVIOUS
  <1> USE DEF IInv
  <1>0. Slot!slotVars = <<Serving, generation>>
    BY DEF Slot!slotVars, Serving
  <1>1. CASE Restart
    <2>1. generation' \in Nat /\ generation' > generation
      BY <1>1 DEF Restart, Bumped, TypeOK
    <2>2. Serving' \in (Proc \ {Serving}) \cup {NoProc}
      <3>1. CASE cmd' = NoProc
        BY <3>1 DEF Serving
      <3>2. CASE \E q \in Proc : StartLocked(q, Killed(child), generation + 2)
        <4>1. PICK q \in Proc : StartLocked(q, Killed(child), generation + 2)
          BY <3>2
        <4>2. child[q] = "unborn" /\ cmd' = q
          BY <4>1, KilledProperties DEF StartLocked
        <4>3. Serving # q
          BY <4>2, NoProcAssumption DEF Serving
        <4>4. QED
          BY <4>2, <4>3 DEF Serving
      <3>3. QED
        BY <1>1, <3>1, <3>2 DEF Restart, Bumped
    <2>3. QED
      BY <2>1, <2>2 DEF Slot!Next, Slot!Call, Serving
  <1>2. CASE Stop
    <2>1. generation' \in Nat /\ generation' > generation
      BY <1>2 DEF Stop, Bumped, TypeOK
    <2>2. Serving' = NoProc
      BY <1>2 DEF Stop, Serving
    <2>3. QED
      BY <2>1, <2>2 DEF Slot!Next, Slot!Call, Serving
  <1>3. ASSUME NEW q \in Proc, Exit(q)
        PROVE  [Slot!Next]_(Slot!slotVars)
    <2>1. CASE cmd = q /\ child[q] = "running"
      <3>1. Serving = q /\ Serving' = NoProc /\ q # NoProc
        BY <1>3, <2>1, NoProcAssumption DEF Exit, Serving, TypeOK
      <3>2. QED
        BY <1>3, <3>1 DEF Exit, Slot!Next, Slot!Die, Serving
    <2>2. CASE ~(cmd = q /\ child[q] = "running")
      <3>1. Serving' = Serving
        BY <1>3, <2>2 DEF Exit, Serving, TypeOK
      <3>2. QED
        BY <1>3, <3>1, <1>0 DEF Exit, Serving, Slot!slotVars
    <2>3. QED
      BY <2>1, <2>2
  <1>4. ASSUME NEW q \in Proc, Monitor(q)
        PROVE  [Slot!Next]_(Slot!slotVars)
    <2>1. Serving' = Serving
      BY <1>4 DEF Monitor, CmdAfterReap, Serving, TypeOK
    <2>2. QED
      BY <1>4, <2>1 DEF Monitor, Serving, Slot!slotVars
  <1>5. ASSUME NEW gen \in armed, Retry(gen)
        PROVE  [Slot!Next]_(Slot!slotVars)
    BY <1>5 DEF RetryNeverArmed
  <1>6. CASE UNCHANGED vars
    BY <1>6 DEF vars, Slot!slotVars
  <1>7. QED
    BY <1>1, <1>2, <1>3, <1>4, <1>5, <1>6 DEF Next, NextNoRetry

\* supervisedProcess implements the slot: between calls of the engine the
\* child that serves can only disappear.
THEOREM SupervisorImplementsSlot == Spec => ImplementsSlot
  BY InitIInv, StepIInv, SlotInit, SlotStep, PTL
     DEF Spec, ImplementsSlot, Slot!Spec

(***************************************************************************)
(* What sync knows between its steps.  A client that was started is for    *)
(* the tag that is next, and nobody has recorded it; a recorded client was *)
(* started for the tag it is recorded for, so that no two tags share one;  *)
(* what was visited is as desired.                                         *)
(***************************************************************************)
ReplacesWhatDiffers ==
    IF stage = "replace"
    THEN /\ todo # {}
         /\ ~Unchanged(First(todo))
         /\ pending \in Client \ Recorded
         /\ client[pending].tag = First(todo)
         /\ client[pending].sig = desired[First(todo)]
    ELSE pending = NoClient

RecordedByTag == \A t \in Tag : processes[t] # NoClient => client[processes[t]].tag = t

VisitedIsDesired ==
    stage # "idle" => /\ todo \subseteq DOMAIN desired
                      /\ \A t \in DOMAIN desired \ todo : Unchanged(t)

RecordedLives ==
    ~crashed /\ ~collided =>
        /\ \A t \in Tag : processes[t] # NoClient => Alive(processes[t])
        /\ pending # NoClient => Alive(pending)

OutboundsInv ==
    /\ OutboundsTypeOK
    /\ ReplacesWhatDiffers /\ RecordedByTag /\ VisitedIsDesired /\ RecordedLives
    /\ NoLeak /\ SyncedIsDesired

\* sync visits the tags in their order (sort.Strings, trusttunnel_outbound.go): the
\* first of them is one of them.
LEMMA FirstIsOne ==
    ASSUME NEW tags, tags \subseteq Tag, tags # {}
    PROVE  First(tags) \in tags
<1>1. tags \subseteq Nat
  BY TagAssumption
<1>2. IsWellFoundedOn(OpToRel(<, Nat), Nat)
  BY NatLessThanWellFounded
<1>3. PICK t \in tags : \A u \in tags : ~ (<<u, t>> \in OpToRel(<, Nat))
  BY <1>1, <1>2, WFMin, Zenon
<1>4. \A u \in tags : t <= u
  <2> TAKE u \in tags
  <2>1. <<u, t>> \notin OpToRel(<, Nat)
    BY <1>3
  <2>2. ~ (u < t)
    BY <2>1, <1>1 DEF OpToRel
  <2> QED
    BY <2>2, <1>1
<1> QED
  BY <1>4 DEF First

\* A killed client is no longer alive, and what it was started for is not forgotten.
LEMMA KillProperties ==
    ASSUME OutboundsTypeOK, NEW cs
    PROVE  /\ AfterKill(cs) \in [Client -> ClientRecord]
           /\ \A c \in Client :
                 /\ AfterKill(cs)[c].tag = client[c].tag
                 /\ AfterKill(cs)[c].sig = client[c].sig
                 /\ c \notin cs => AfterKill(cs)[c] = client[c]
                 /\ c \in cs => AfterKill(cs)[c].phase \in {"free", "dying"}
  BY DEF AfterKill, OutboundsTypeOK, ClientRecord, Phase

\* The desired map has signatures for some of the tags.
LEMMA DesiredType ==
    ASSUME NEW map \in Desired
    PROVE  DOMAIN map \subseteq Tag /\ \A t \in DOMAIN map : map[t] \in Sig
  BY DEF Desired

\* newTrustTunnelOutboundManager starts with no client.
LEMMA InitOutbounds == OutboundsInit => OutboundsInv
<1> SUFFICES ASSUME OutboundsInit PROVE OutboundsInv
  OBVIOUS
<1>1. desired \in Desired
  <2>1. <<>> \in [{} -> Sig]
    OBVIOUS
  <2> QED
    BY <2>1 DEF OutboundsInit, Desired
<1>2. OutboundsTypeOK
  <2>1. processes \in [Tag -> Client \cup {NoClient}]
    BY DEF OutboundsInit
  <2>2. client \in [Client -> ClientRecord]
    <3>1. PICK t \in Tag, s \in Sig :
             client = [c \in Client |-> [phase |-> "free", tag |-> t, sig |-> s]]
      BY DEF OutboundsInit
    <3> QED
      BY <3>1 DEF ClientRecord, Phase
  <2> QED
    BY <1>1, <2>1, <2>2 DEF OutboundsInit, OutboundsTypeOK
<1>3. ReplacesWhatDiffers /\ RecordedByTag /\ VisitedIsDesired /\ SyncedIsDesired
  BY DEF OutboundsInit, ReplacesWhatDiffers, RecordedByTag, VisitedIsDesired, SyncedIsDesired
<1>4. RecordedLives /\ NoLeak
  BY DEF OutboundsInit, RecordedLives, NoLeak, Alive
<1> QED
  BY <1>2, <1>3, <1>4 DEF OutboundsInv

\* The clients beside sync: whatever one of them does, its tag and configuration stay,
\* and the others stay as they are; and it starts to live only if it lived before.
ClientSteps(c) ==
    /\ client' \in [Client -> ClientRecord]
    /\ \A d \in Client : client'[d].tag = client[d].tag /\ client'[d].sig = client[d].sig
    /\ \A d \in Client : Alive(d)' => Alive(d)
    /\ (~crashed' /\ ~collided') => ~crashed /\ ~collided /\ \A d \in Client : Alive(d) => Alive(d)'
    /\ crashed' \in BOOLEAN /\ collided' \in BOOLEAN
    /\ UNCHANGED <<processes, stage, desired, todo, pending, result>>

\* Bind, Dies and Gone are such steps.
LEMMA ClientsStep ==
    ASSUME OutboundsTypeOK, NEW c \in Client, Bind(c) \/ Dies(c) \/ Gone(c)
    PROVE  ClientSteps(c)
<1> USE DEF OutboundsTypeOK, ClientRecord, Phase, Alive
<1>1. CASE Bind(c)
  <2>1. Taken(c) \in BOOLEAN
    BY DEF Taken
  <2>2. CASE Taken(c)
    BY <1>1, <2>2 DEF Bind, ClientSteps
  <2>3. CASE ~Taken(c)
    BY <1>1, <2>3 DEF Bind, ClientSteps
  <2> QED
    BY <2>1, <2>2, <2>3
<1>2. CASE Dies(c)
  BY <1>2 DEF Dies, ClientSteps
<1>3. CASE Gone(c)
  BY <1>3 DEF Gone, ClientSteps
<1> QED
  BY <1>1, <1>2, <1>3

\* They keep what sync knows.
LEMMA ClientsKeep ==
    ASSUME OutboundsInv, NEW c \in Client, ClientSteps(c)
    PROVE  OutboundsInv'
<1> USE DEF OutboundsInv, ClientSteps
<1>1. OutboundsTypeOK'
  BY DEF OutboundsTypeOK
<1>2. DOMAIN desired \subseteq Tag
  BY DesiredType DEF OutboundsTypeOK
<1>3. \A t \in Tag : Unchanged(t)' <=> Unchanged(t)
  BY DEF Unchanged, OutboundsTypeOK
<1>4. ReplacesWhatDiffers'
  <2>1. CASE stage = "replace"
    <3>1. First(todo) \in Tag
      BY <2>1, FirstIsOne DEF ReplacesWhatDiffers, OutboundsTypeOK
    <3> QED
      BY <2>1, <3>1, <1>3 DEF ReplacesWhatDiffers, Recorded, First
  <2>2. CASE stage # "replace"
    BY <2>2 DEF ReplacesWhatDiffers
  <2> QED
    BY <2>1, <2>2
<1>5. RecordedByTag' /\ VisitedIsDesired'
  BY <1>2, <1>3 DEF RecordedByTag, VisitedIsDesired, OutboundsTypeOK
<1>6. RecordedLives'
  BY DEF RecordedLives, OutboundsTypeOK
<1>7. NoLeak'
  BY DEF NoLeak
<1>8. SyncedIsDesired'
  BY <1>2 DEF SyncedIsDesired, OutboundsTypeOK
<1> QED
  BY <1>1, <1>4, <1>5, <1>6, <1>7, <1>8

\* sync's own steps, each of which leaves sync idle or with more of its tags visited.
LEMMA SyncKeeps ==
    ASSUME OutboundsInv, NEW outbounds \in Desired, Sync(outbounds)
    PROVE  OutboundsInv'
<1> USE DEF OutboundsInv, Sync
<1>1. OutboundsTypeOK'
  BY DesiredType DEF OutboundsTypeOK
<1>2. ReplacesWhatDiffers' /\ SyncedIsDesired'
  BY DEF ReplacesWhatDiffers, SyncedIsDesired
<1>3. RecordedByTag' /\ RecordedLives' /\ NoLeak'
  BY DEF RecordedByTag, RecordedLives, NoLeak, Alive
<1>4. VisitedIsDesired'
  BY DEF VisitedIsDesired
<1> QED
  BY <1>1, <1>2, <1>3, <1>4

\* A tag whose client is alive and as desired is passed over.
LEMMA SkipKeeps == OutboundsInv /\ Skip => OutboundsInv'
<1> SUFFICES ASSUME OutboundsInv, Skip PROVE OutboundsInv'
  OBVIOUS
<1> USE DEF OutboundsInv, Skip
<1>1. OutboundsTypeOK' /\ ReplacesWhatDiffers' /\ SyncedIsDesired'
  BY DEF OutboundsTypeOK, ReplacesWhatDiffers, SyncedIsDesired
<1>2. RecordedByTag' /\ RecordedLives' /\ NoLeak'
  BY DEF RecordedByTag, RecordedLives, NoLeak, Alive
<1>3. VisitedIsDesired'
  BY DEF VisitedIsDesired, Unchanged
<1> QED
  BY <1>1, <1>2, <1>3

\* A client that nobody has recorded is started, or none is.
LEMMA StartClientKeeps == OutboundsInv /\ StartClient => OutboundsInv'
<1> SUFFICES ASSUME OutboundsInv, StartClient PROVE OutboundsInv'
  OBVIOUS
<1> USE DEF OutboundsInv
<1> DEFINE next == First(todo)
<1>0. next \in todo /\ next \in Tag /\ todo \subseteq DOMAIN desired /\ desired[next] \in Sig
  BY FirstIsOne, DesiredType DEF StartClient, OutboundsTypeOK, VisitedIsDesired
<1>1. ASSUME NEW c \in Client \ Recorded,
             client[c].phase = "free",
             client' = [client EXCEPT ![c] =
                           [phase |-> "starting", tag |-> next, sig |-> desired[next]]],
             pending' = c, stage' = "replace",
             UNCHANGED <<todo, result, processes, desired, crashed, collided>>
      PROVE  OutboundsInv'
  <2> HIDE DEF next
  <2>1. OutboundsTypeOK'
    BY <1>0, <1>1 DEF OutboundsTypeOK, ClientRecord, Phase
  <2>2. \A t \in Tag : processes[t] # c
    BY <1>1, NoClientAssumption DEF Recorded
  <2>3. \A t \in Tag : processes[t] # NoClient => client'[processes[t]] = client[processes[t]]
    BY <1>1, <2>2 DEF OutboundsTypeOK
  <2>4. RecordedByTag' /\ RecordedLives'
    BY <1>1, <2>3 DEF RecordedByTag, RecordedLives, Alive, OutboundsTypeOK
  <2>5. NoLeak'
    <3> SUFFICES ASSUME NEW d \in Client, Alive(d)'
                 PROVE  d = pending' \/ processes'[client'[d].tag] = d
      BY DEF NoLeak
    <3>1. CASE d = c
      BY <1>1, <3>1
    <3>2. CASE d # c
      <4>1. client'[d] = client[d] /\ Alive(d)
        BY <1>1, <3>2 DEF Alive, OutboundsTypeOK
      <4>2. pending = NoClient
        BY <1>1 DEF ReplacesWhatDiffers, StartClient
      <4> QED
        BY <1>1, <4>1, <4>2, NoClientAssumption DEF NoLeak
    <3> QED
      BY <3>1, <3>2
  <2>6. ReplacesWhatDiffers'
    <3>1. ~Unchanged(next)'
      BY <1>0, <1>1, <2>3 DEF StartClient, Unchanged, next
    <3>2. Recorded' = Recorded
      BY <1>1 DEF Recorded
    <3>3. client'[c].tag = next /\ client'[c].sig = desired[next]
      BY <1>1 DEF OutboundsTypeOK
    <3> QED
      BY <1>0, <1>1, <3>1, <3>2, <3>3 DEF ReplacesWhatDiffers, next
  <2>7. VisitedIsDesired'
    <3>1. DOMAIN desired \subseteq Tag
      BY DesiredType DEF OutboundsTypeOK
    <3> QED
      BY <1>1, <2>3, <3>1 DEF VisitedIsDesired, StartClient, Unchanged
  <2>8. SyncedIsDesired'
    BY <1>1 DEF SyncedIsDesired
  <2> QED
    BY <2>1, <2>4, <2>5, <2>6, <2>7, <2>8
<1>2. CASE /\ Return("error")
           /\ UNCHANGED <<client, pending, processes, desired, crashed, collided>>
  <2>1. OutboundsTypeOK' /\ SyncedIsDesired'
    BY <1>2 DEF Return, OutboundsTypeOK, SyncedIsDesired
  <2>2. ReplacesWhatDiffers' /\ VisitedIsDesired'
    BY <1>2 DEF Return, ReplacesWhatDiffers, VisitedIsDesired, StartClient
  <2>3. RecordedByTag' /\ RecordedLives' /\ NoLeak'
    BY <1>2 DEF RecordedByTag, RecordedLives, NoLeak, Alive
  <2> QED
    BY <2>1, <2>2, <2>3
<1> QED
  BY <1>1, <1>2 DEF StartClient

\* The client that is replaced is the one recorded for the tag, and nobody else's.
LEMMA ReplaceKeeps == OutboundsInv /\ Replace => OutboundsInv'
<1> SUFFICES ASSUME OutboundsInv, Replace PROVE OutboundsInv'
  OBVIOUS
<1> USE DEF OutboundsInv
<1> DEFINE next == First(todo)
           old == processes[next]
<1>1. /\ next \in todo /\ next \in Tag
      /\ pending \in Client \ Recorded /\ pending # NoClient
      /\ client[pending].tag = next /\ client[pending].sig = desired[next]
  BY FirstIsOne, NoClientAssumption DEF Replace, ReplacesWhatDiffers, OutboundsTypeOK
<1>2. /\ client' = AfterKill({old})
      /\ processes' = [processes EXCEPT ![next] = pending]
      /\ todo' = todo \ {next} /\ pending' = NoClient /\ stage' = "visit"
      /\ UNCHANGED <<desired, result, crashed, collided>>
  BY DEF Replace
<1>3. stage = "replace"
  BY DEF Replace
<1> HIDE DEF next
<1>4. old \in Client \cup {NoClient} /\ old # pending
  BY <1>1 DEF OutboundsTypeOK, Recorded
<1>5. /\ client' \in [Client -> ClientRecord]
      /\ \A c \in Client : /\ client'[c].tag = client[c].tag /\ client'[c].sig = client[c].sig
                           /\ c # old => client'[c] = client[c]
                           /\ c = old => client'[c].phase \in {"free", "dying"}
  BY <1>2, KillProperties
<1>6. \A t \in Tag \ {next} : processes'[t] = processes[t] /\ (processes[t] # NoClient => processes[t] # old)
  <2> SUFFICES ASSUME NEW t \in Tag, t # next, processes[t] # NoClient
               PROVE  processes[t] # old
    BY <1>1, <1>2 DEF OutboundsTypeOK
  <2> QED
    BY <1>1 DEF RecordedByTag
<1>7. processes'[next] = pending
  BY <1>1, <1>2 DEF OutboundsTypeOK
<1>8. OutboundsTypeOK'
  BY <1>1, <1>2, <1>5 DEF OutboundsTypeOK
<1>9. ReplacesWhatDiffers' /\ SyncedIsDesired'
  BY <1>2 DEF ReplacesWhatDiffers, SyncedIsDesired
<1>10. RecordedByTag'
  <2> SUFFICES ASSUME NEW t \in Tag, processes'[t] # NoClient
               PROVE  client'[processes'[t]].tag = t
    BY DEF RecordedByTag
  <2>1. processes'[t] \in Client
    BY <1>8 DEF OutboundsTypeOK
  <2>2. CASE t = next
    BY <1>1, <1>5, <1>7, <2>2
  <2>3. CASE t # next
    BY <1>5, <1>6, <2>1, <2>3 DEF RecordedByTag
  <2> QED
    BY <2>2, <2>3
<1>11. RecordedLives'
  BY <1>1, <1>2, <1>4, <1>5, <1>6, <1>7, <1>8 DEF RecordedLives, Alive, OutboundsTypeOK
<1>12. NoLeak'
  <2> SUFFICES ASSUME NEW c \in Client, Alive(c)'
               PROVE  processes'[client'[c].tag] = c
    BY DEF NoLeak
  <2>1. c # old /\ client'[c] = client[c] /\ Alive(c)
    BY <1>5 DEF Alive
  <2>2. client[c].tag \in Tag
    BY DEF OutboundsTypeOK, ClientRecord
  <2>3. CASE c = pending
    BY <1>1, <1>7, <2>1, <2>3
  <2>4. CASE c # pending
    BY <1>6, <2>1, <2>2, <2>4 DEF NoLeak
  <2> QED
    BY <2>3, <2>4
<1>13. VisitedIsDesired'
  <2>1. DOMAIN desired \subseteq Tag
    BY DesiredType DEF OutboundsTypeOK
  <2>2. ASSUME NEW t \in DOMAIN desired, t \notin todo \ {next}
        PROVE  Unchanged(t)'
    <3>1. CASE t = next
      BY <1>1, <1>2, <1>5, <1>7, <3>1 DEF Unchanged
    <3>2. CASE t # next
      <4>1. Unchanged(t)
        BY <1>3, <2>2, <3>2 DEF VisitedIsDesired
      <4> QED
        BY <1>2, <1>5, <1>6, <2>1, <3>2, <4>1 DEF Unchanged, OutboundsTypeOK
    <3> QED
      BY <3>1, <3>2
  <2> QED
    BY <1>2, <1>3, <2>2 DEF VisitedIsDesired
<1> QED
  BY <1>8, <1>9, <1>10, <1>11, <1>12, <1>13

\* Whoever is recorded for a tag that is no longer desired is killed, and no other.
LEMMA PruneKeeps == OutboundsInv /\ Prune => OutboundsInv'
<1> SUFFICES ASSUME OutboundsInv, Prune PROVE OutboundsInv'
  OBVIOUS
<1> USE DEF OutboundsInv
<1> DEFINE dropped == {processes[t] : t \in Tag \ DOMAIN desired}
<1>1. /\ client' = AfterKill(dropped) /\ processes' = Pruned
      /\ todo = {} /\ todo' = {} /\ stage = "visit" /\ stage' = "idle" /\ result' = "ok"
      /\ UNCHANGED <<desired, pending, crashed, collided>>
  BY DEF Prune, Return
<1>2. DOMAIN desired \subseteq Tag
  BY DesiredType DEF OutboundsTypeOK
<1>3. \A t \in Tag : processes'[t] = IF t \in DOMAIN desired THEN processes[t] ELSE NoClient
  BY <1>1 DEF Pruned
<1>4. \A t \in DOMAIN desired : processes[t] # NoClient => processes[t] \notin dropped
  BY <1>2 DEF RecordedByTag
<1> HIDE DEF dropped
<1>5. /\ client' \in [Client -> ClientRecord]
      /\ \A c \in Client : /\ client'[c].tag = client[c].tag /\ client'[c].sig = client[c].sig
                           /\ c \notin dropped => client'[c] = client[c]
                           /\ c \in dropped => client'[c].phase \in {"free", "dying"}
  BY <1>1, KillProperties
<1>6. OutboundsTypeOK'
  <2>1. processes' \in [Tag -> Client \cup {NoClient}]
    BY <1>1 DEF Pruned, OutboundsTypeOK
  <2> QED
    BY <1>1, <1>5, <2>1 DEF OutboundsTypeOK
<1>7. pending = NoClient
  BY <1>1 DEF ReplacesWhatDiffers
<1>8. ReplacesWhatDiffers' /\ VisitedIsDesired'
  BY <1>1, <1>7 DEF ReplacesWhatDiffers, VisitedIsDesired
<1>9. RecordedByTag'
  BY <1>3, <1>5, <1>6 DEF RecordedByTag, OutboundsTypeOK
<1>10. RecordedLives'
  <2> SUFFICES ASSUME ~crashed, ~collided, NEW t \in Tag, processes'[t] # NoClient
               PROVE  client'[processes'[t]].phase \in {"starting", "serving"}
    BY <1>1, <1>7 DEF RecordedLives, Alive
  <2>1. t \in DOMAIN desired /\ processes'[t] = processes[t]
    BY <1>3
  <2>2. processes[t] \in Client /\ Alive(processes[t])
    BY <2>1 DEF RecordedLives, OutboundsTypeOK
  <2>3. client'[processes[t]] = client[processes[t]]
    BY <1>4, <1>5, <2>1, <2>2
  <2> QED
    BY <2>1, <2>2, <2>3 DEF Alive
<1>11. NoLeak'
  <2> SUFFICES ASSUME NEW c \in Client, Alive(c)'
               PROVE  processes'[client'[c].tag] = c
    BY DEF NoLeak
  <2>1. c \notin dropped /\ client'[c] = client[c] /\ Alive(c)
    BY <1>5 DEF Alive
  <2>2. client[c].tag \in Tag /\ processes[client[c].tag] = c
    BY <1>7, <2>1, NoClientAssumption DEF NoLeak, OutboundsTypeOK, ClientRecord
  <2>3. client[c].tag \in DOMAIN desired
    BY <2>1, <2>2 DEF dropped
  <2> QED
    BY <1>3, <2>1, <2>2, <2>3
<1>12. SyncedIsDesired'
  <2>1. \A t \in DOMAIN desired : processes[t] # NoClient /\ client[processes[t]].sig = desired[t]
    BY <1>1 DEF VisitedIsDesired, Unchanged
  <2> QED
    BY <1>1, <1>2, <1>3, <1>5, <2>1 DEF SyncedIsDesired, OutboundsTypeOK
<1> QED
  BY <1>6, <1>8, <1>9, <1>10, <1>11, <1>12

\* Every step keeps what sync and its clients have in common.
LEMMA StepOutbounds == OutboundsInv /\ [OutboundsNext]_outboundVars => OutboundsInv'
<1> SUFFICES ASSUME OutboundsInv, [OutboundsNext]_outboundVars
             PROVE  OutboundsInv'
  OBVIOUS
<1>1. ASSUME NEW outbounds \in Desired, Sync(outbounds)
      PROVE  OutboundsInv'
  BY <1>1, SyncKeeps
<1>2. CASE Skip
  BY <1>2, SkipKeeps
<1>3. CASE StartClient
  BY <1>3, StartClientKeeps
<1>4. CASE Replace
  BY <1>4, ReplaceKeeps
<1>5. CASE Prune
  BY <1>5, PruneKeeps
<1>6. ASSUME NEW c \in Client, Bind(c) \/ Dies(c) \/ Gone(c)
      PROVE  OutboundsInv'
  <2>1. ClientSteps(c)
    BY <1>6, ClientsStep DEF OutboundsInv
  <2> QED
    BY <2>1, ClientsKeep
<1>7. CASE UNCHANGED outboundVars
  <2>1. /\ UNCHANGED <<processes, client, stage, desired, todo>>
        /\ UNCHANGED <<pending, result, crashed, collided>>
    BY <1>7 DEF outboundVars
  <2> QED
    BY <2>1 DEF OutboundsInv, OutboundsTypeOK, ReplacesWhatDiffers, RecordedByTag, VisitedIsDesired,
                RecordedLives, NoLeak, SyncedIsDesired, Alive, Unchanged, Recorded
<1> QED
  BY <1>1, <1>2, <1>3, <1>4, <1>5, <1>6, <1>7 DEF OutboundsNext

\* So it holds throughout.
LEMMA OutboundsInvariance == OutboundsSpec => []OutboundsInv
  BY InitOutbounds, StepOutbounds, PTL DEF OutboundsSpec

\* The manager's processes map, the clients and where sync is keep their types.
THEOREM OutboundsTypeCorrect == OutboundsSpec => []OutboundsTypeOK
  BY OutboundsInvariance, PTL DEF OutboundsInv

\* No client escapes m.processes, and a sync that returned nil left exactly what was
\* asked for (trusttunnel_outbound.go, sync).
THEOREM SyncsLeaveDesired == OutboundsSpec => []SyncLeavesDesired
<1>1. OutboundsInv => SyncLeavesDesired
  BY DEF OutboundsInv, SyncLeavesDesired
<1> QED
  BY <1>1, OutboundsInvariance, PTL

\* After a sync that returned nil every desired outbound has a client that serves, once
\* all are up, if none has died and no two met on a port.
THEOREM DesiredAreServed == OutboundsSpec => []ServedUnlessRaced
<1>1. OutboundsInv => ServedUnlessRaced
  <2> SUFFICES ASSUME OutboundsInv, Quiet, result = "ok", ~crashed, ~collided,
                      NEW t \in DOMAIN desired
               PROVE  processes[t] # NoClient /\ client[processes[t]].phase = "serving"
    BY DEF ServedUnlessRaced, DesiredServe
  <2>1. t \in Tag
    BY DesiredType DEF OutboundsInv, OutboundsTypeOK
  <2>2. processes[t] # NoClient
    BY <2>1 DEF OutboundsInv, SyncedIsDesired, Quiet
  <2>3. Alive(processes[t]) /\ processes[t] \in Client
    BY <2>1, <2>2 DEF OutboundsInv, RecordedLives, OutboundsTypeOK
  <2> QED
    BY <2>2, <2>3 DEF Quiet, Alive
<1> QED
  BY <1>1, OutboundsInvariance, PTL

\* Only Replace and Prune kill, and whom they kill is replaced or no longer desired.
LEMMA KillStep ==
    ASSUME OutboundsInv, [OutboundsNext]_outboundVars, NEW c \in Client,
           client[c].phase = "serving", client'[c].phase = "dying"
    PROVE  \/ client[c].tag \notin DOMAIN desired
           \/ /\ client[c].sig # desired[client[c].tag]
              /\ pending # NoClient /\ client[pending].tag = client[c].tag
<1> USE DEF OutboundsInv
<1>1. CASE Replace
  <2>1. First(todo) \in Tag /\ client' = AfterKill({processes[First(todo)]})
    BY <1>1, FirstIsOne DEF Replace, ReplacesWhatDiffers, OutboundsTypeOK
  <2>2. c = processes[First(todo)]
    BY <2>1, KillProperties
  <2>3. client[c].tag = First(todo)
    BY <2>1, <2>2, NoClientAssumption DEF RecordedByTag
  <2> QED
    BY <1>1, <2>2, <2>3, NoClientAssumption DEF Replace, ReplacesWhatDiffers, Unchanged
<1>2. CASE Prune
  <2>1. c \in {processes[t] : t \in Tag \ DOMAIN desired}
    BY <1>2, KillProperties DEF Prune
  <2>2. PICK t \in Tag \ DOMAIN desired : c = processes[t]
    BY <2>1
  <2> QED
    BY <2>2, NoClientAssumption DEF RecordedByTag
<1>3. CASE StartClient
  BY <1>3 DEF StartClient, OutboundsTypeOK, ClientRecord
<1>4. ASSUME NEW d \in Client, Bind(d) \/ Dies(d) \/ Gone(d)
      PROVE  FALSE
  BY <1>4 DEF Bind, Dies, Gone, OutboundsTypeOK, ClientRecord
<1>5. CASE Skip \/ \E outbounds \in Desired : Sync(outbounds)
  BY <1>5 DEF Skip, Sync
<1>6. CASE UNCHANGED outboundVars
  BY <1>6 DEF outboundVars
<1> QED
  BY <1>1, <1>2, <1>3, <1>4, <1>5, <1>6 DEF OutboundsNext

\* A failed start leaves the old client, and an unchanged outbound is left in peace.
THEOREM KillsAreReplacements == OutboundsSpec => KillsOnlyReplaced
<1>1. OutboundsInv /\ [OutboundsNext]_outboundVars =>
        [\A c \in Client :
           (client[c].phase = "serving" /\ client'[c].phase = "dying") =>
              \/ client[c].tag \notin DOMAIN desired
              \/ /\ client[c].sig # desired[client[c].tag]
                 /\ pending # NoClient /\ client[pending].tag = client[c].tag]_outboundVars
  BY KillStep
<1> QED
  BY <1>1, OutboundsInvariance, PTL DEF OutboundsSpec, KillsOnlyReplaced

-----------------------------------------------------------------------------
(***************************************************************************)
(* Metrics: a source none of whose queries failed has no byte counted      *)
(* twice.                                                                  *)
(***************************************************************************)
\* The types the argument needs.
Numbers ==
    /\ reported \subseteq Source
    /\ counter \in [Source -> Nat]
    /\ carried \in [Source -> Nat]
    /\ failures \in [Source -> Nat]
    /\ metrics.traffic \in [Source -> Nat]
    /\ IsCounts(lastRaw, Source)
    /\ IsCounts(answer, Source)
    /\ disk # Torn => disk.traffic \in [Source -> Nat]

\* Only a running core has counted anything.
CountersAreTheCores == core # "up" => counter = Zeros(Source)

\* What may be added for s to a traffic of counted, the last answer having been
\* raw: what the core counted since, or, if it was an earlier core's, all.
Sound(s, counted, raw) ==
    IF raw <= counter[s] THEN counted + counter[s] <= carried[s] + raw
    ELSE counted + counter[s] <= carried[s]

Counted(s) ==
    /\ metrics.traffic[s] <= carried[s]
    /\ disk # Torn => disk.traffic[s] <= carried[s]
    /\ s \in DOMAIN lastRaw => Sound(s, metrics.traffic[s], lastRaw[s])

\* The same of the state that the pending answer will lead to.
Answered(s) ==
    sampling = "answered" /\ s \in DOMAIN answer =>
        Sound(s, metrics.traffic[s] + Added[s], answer[s])

\* While a dropped engine is asked, the one that took its place has never been
\* sampled.
Unsampled(s) ==
    sampling = "asking dropped" => metrics.traffic[s] + counter[s] <= carried[s]

Once(s) == Counted(s) /\ Answered(s) /\ Unsampled(s)

MetricsInv ==
    /\ Numbers
    /\ CountersAreTheCores
    /\ \A s \in Source : failures[s] = 0 => Once(s)

-----------------------------------------------------------------------------
\* What is added to a source is a number.
LEMMA AddedType ==
    ASSUME Numbers
    PROVE  /\ Added \in [Source -> Nat]
           /\ Plus(metrics.traffic, Added) \in [Source -> Nat]
           /\ \A s \in Source : Plus(metrics.traffic, Added)[s] = metrics.traffic[s] + Added[s]
  BY DEF Numbers, Added, Delta, Plus, IsCounts

\* Initially nothing is counted.
LEMMA InitMetrics == MetricsInit => MetricsInv
  BY DEF MetricsInit, MetricsInv, Numbers, CountersAreTheCores, Once, Counted, Answered, Unsampled,
         Zeros, NewMetrics, IsCounts

\* The values of a source are numbers.
LEMMA Values ==
    ASSUME Numbers, NEW s \in Source
    PROVE  /\ counter[s] \in Nat /\ carried[s] \in Nat /\ failures[s] \in Nat
           /\ metrics.traffic[s] \in Nat
           /\ s \in DOMAIN lastRaw => lastRaw[s] \in Nat
           /\ s \in DOMAIN answer => answer[s] \in Nat
           /\ disk # Torn => disk.traffic[s] \in Nat
  BY DEF Numbers, IsCounts

\* Steps of the engine keep the invariant.
LEMMA EngineStep ==
    ASSUME MetricsInv, Build \/ BuildFails \/ Edit \/ Drop
    PROVE  MetricsInv'
  <1>1. Numbers'
    <2>1. counter' \in [Source -> Nat] /\ reported' \subseteq Source
      <3>1. CASE Edit
        BY <3>1 DEF MetricsInv, Numbers, Edit, OfKind
      <3>2. CASE Build
        BY <3>2 DEF Build, Zeros
      <3>3. CASE BuildFails
        BY <3>3 DEF MetricsInv, Numbers, BuildFails, Zeros
      <3>4. CASE Drop
        BY <3>4 DEF Drop, Zeros
      <3> QED
        BY <3>1, <3>2, <3>3, <3>4
    <2>2. UNCHANGED <<metrics, lastRaw, answer, disk, carried, failures>>
      BY DEF Build, BuildFails, Edit, Drop, sampler
    <2> QED
      BY <2>1, <2>2 DEF MetricsInv, Numbers, IsCounts
  <1>2. CountersAreTheCores'
    BY DEF MetricsInv, CountersAreTheCores, Build, BuildFails, Edit, Drop, Zeros
  <1>3. ASSUME NEW s \in Source, failures'[s] = 0
        PROVE  Once(s)'
    <2>1. Once(s) /\ Added[s] \in Nat
      BY <1>3, AddedType DEF MetricsInv, Build, BuildFails, Edit, Drop
    <2>2. (Added[s])' = Added[s]
      BY DEF Build, BuildFails, Edit, Drop, sampler, Added, Delta
    <2>3. CASE Edit
      BY <1>3, <2>1, <2>2, <2>3 DEF Edit, sampler, Once, Counted, Answered, Unsampled, Sound
    <2>4. CASE Build \/ BuildFails \/ Drop
      <3>1. counter'[s] = 0 /\ carried' = carried
        BY <2>4 DEF Build, BuildFails, Drop, Zeros
      <3>2. UNCHANGED <<metrics, lastRaw, answer, disk>>
        BY <2>4 DEF Build, BuildFails, Drop, sampler
      <3>3. sampling' = "answered" => sampling = "answered"
        BY <2>4 DEF Build, BuildFails, Drop, sampler
      <3>4. Counted(s)'
        BY <1>3, <2>1, <3>1, <3>2 DEF MetricsInv, Numbers, IsCounts, Once, Counted, Sound
      <3>5. Answered(s)'
        BY <1>3, <2>1, <2>2, <3>1, <3>2, <3>3
        DEF MetricsInv, Numbers, IsCounts, Once, Answered, Sound
      <3>6. Unsampled(s)'
        <4>1. metrics.traffic[s] \in Nat /\ carried[s] \in Nat
          BY Values DEF MetricsInv
        <4>2. metrics.traffic[s] <= carried[s]
          BY <2>1 DEF Once, Counted
        <4>3. metrics'.traffic[s] + counter'[s] <= carried'[s]
          BY <3>1, <3>2, <4>1, <4>2
        <4> QED
          BY <4>3 DEF Unsampled
      <3> QED
        BY <3>4, <3>5, <3>6 DEF Once
    <2> QED
      BY <2>3, <2>4
  <1> QED
    BY <1>1, <1>2, <1>3 DEF MetricsInv

\* A carried byte may be counted once.
LEMMA CarryStep ==
    ASSUME MetricsInv, NEW c \in Source, Carry(c)
    PROVE  MetricsInv'
  <1>1. Numbers' /\ CountersAreTheCores'
    BY DEF MetricsInv, Numbers, CountersAreTheCores, Carry, sampler, IsCounts
  <1>2. ASSUME NEW s \in Source, failures'[s] = 0
        PROVE  Once(s)'
    <2>1. Once(s) /\ Added[s] \in Nat
      BY <1>2, AddedType DEF MetricsInv, Carry
    <2>2. (Added[s])' = Added[s]
      BY DEF Carry, sampler, Added, Delta
    <2>3. UNCHANGED <<metrics, lastRaw, answer, disk, sampling>>
      BY DEF Carry, sampler
    <2>4. \/ counter'[s] = counter[s] /\ carried'[s] = carried[s]
          \/ counter'[s] = counter[s] + 1 /\ carried'[s] = carried[s] + 1
      BY DEF MetricsInv, Numbers, Carry
    <2>5. Counted(s)'
      BY <1>2, <2>1, <2>3, <2>4 DEF MetricsInv, Numbers, IsCounts, Once, Counted, Sound
    <2>6. Answered(s)'
      BY <1>2, <2>1, <2>2, <2>3, <2>4 DEF MetricsInv, Numbers, IsCounts, Once, Answered, Sound
    <2>7. Unsampled(s)'
      <3>1. metrics.traffic[s] \in Nat /\ carried[s] \in Nat /\ counter[s] \in Nat
        BY Values DEF MetricsInv
      <3>2. CASE sampling = "asking dropped"
        <4>1. metrics.traffic[s] + counter[s] <= carried[s]
          BY <2>1, <3>2 DEF Once, Unsampled
        <4>2. metrics'.traffic[s] + counter'[s] <= carried'[s]
          BY <2>3, <2>4, <3>1, <4>1
        <4> QED
          BY <4>2 DEF Unsampled
      <3> QED
        BY <2>3, <3>2 DEF Unsampled
    <2> QED
      BY <2>5, <2>6, <2>7 DEF Once
  <1> QED
    BY <1>1, <1>2 DEF MetricsInv

\* A sampler that has copied m.engines, or that asked, has changed no count;
\* the answer it got is sound.
LEMMA AskStep ==
    ASSUME MetricsInv, Snapshot \/ Query \/ QueryClosed \/ QueryDropped
    PROVE  MetricsInv'
  <1>1. Numbers'
    <2>1. failures' \in [Source -> Nat] /\ IsCounts(answer', Source)
      <3>1. CASE Query
        BY <3>1 DEF Query, MetricsInv, Numbers, IsCounts
      <3>2. CASE QueryClosed
        BY <3>2 DEF QueryClosed, MetricsInv, Numbers, IsCounts, Zeros
      <3>3. CASE QueryDropped
        <4>1. PICK D \in SUBSET OfKind("inbound") : answer' = Zeros(D)
          BY <3>3 DEF QueryDropped
        <4> QED
          BY <3>3, <4>1 DEF QueryDropped, MetricsInv, Numbers, IsCounts, Zeros, OfKind
      <3>4. CASE Snapshot
        BY <3>4 DEF Snapshot, MetricsInv, Numbers, IsCounts
      <3> QED
        BY <3>1, <3>2, <3>3, <3>4
    <2>2. UNCHANGED <<reported, counter, metrics, lastRaw, disk, carried>>
      BY DEF Snapshot, Query, QueryClosed, QueryDropped, engine
    <2> QED
      BY <2>1, <2>2 DEF MetricsInv, Numbers, IsCounts
  <1>2. CountersAreTheCores'
    BY DEF MetricsInv, CountersAreTheCores, Snapshot, Query, QueryClosed, QueryDropped, engine
  <1>3. ASSUME NEW s \in Source, failures'[s] = 0
        PROVE  Once(s)'
    <2>1. Once(s)
      <3>1. failures[s] = 0
        <4>1. CASE Query
          BY <1>3, <4>1, Values DEF MetricsInv, Query
        <4>2. CASE Snapshot \/ QueryClosed \/ QueryDropped
          BY <1>3, <4>2 DEF Snapshot, QueryClosed, QueryDropped
        <4> QED
          BY <4>1, <4>2
      <3> QED
        BY <3>1 DEF MetricsInv
    <2>2. UNCHANGED <<metrics, lastRaw, disk, counter, carried>>
      BY DEF Snapshot, Query, QueryClosed, QueryDropped, engine
    <2>3. Counted(s)'
      BY <2>1, <2>2 DEF Once, Counted, Sound
    <2>4. Unsampled(s)'
      BY DEF Unsampled, Snapshot, Query, QueryClosed, QueryDropped
    <2>5. s \in DOMAIN answer' => answer'[s] \in Nat
      BY <1>1 DEF Numbers, IsCounts
    <2>6. (Added[s])' = IF s \in DOMAIN answer' THEN Delta(s, answer'[s]) ELSE 0
      BY <2>2 DEF Added, Delta
    <2>7. CASE Query
      <3>1. s \in DOMAIN answer' => answer'[s] = counter[s]
        BY <1>3, <2>7 DEF Query, MetricsInv, Numbers
      <3> QED
        BY <2>1, <2>2, <2>3, <2>4, <2>6, <3>1
        DEF MetricsInv, Numbers, IsCounts, Once, Counted, Answered, Sound, Delta
    <2>8. CASE QueryClosed \/ QueryDropped \/ Snapshot
      <3>1. s \in DOMAIN answer' => answer'[s] = 0
        <4>1. CASE QueryDropped
          BY <4>1 DEF QueryDropped, Zeros
        <4>2. CASE QueryClosed \/ Snapshot
          BY <4>2 DEF QueryClosed, Snapshot, Zeros
        <4> QED
          BY <2>8, <4>1, <4>2
      <3>2. (Added[s])' = 0
        BY <2>6, <3>1 DEF Delta, MetricsInv, Numbers, IsCounts
      <3>3. s \in DOMAIN answer' => metrics.traffic[s] + counter[s] <= carried[s]
        <4>1. CASE QueryClosed
          BY <2>1, <4>1 DEF QueryClosed, MetricsInv, Numbers, CountersAreTheCores, Zeros, Once, Counted
        <4>2. CASE QueryDropped
          BY <2>1, <4>2 DEF QueryDropped, Once, Unsampled
        <4>3. CASE Snapshot
          BY <4>3 DEF Snapshot
        <4> QED
          BY <2>8, <4>1, <4>2, <4>3
      <3>4. Answered(s)'
        BY <2>2, <3>1, <3>2, <3>3 DEF Answered, Sound, MetricsInv, Numbers
      <3> QED
        BY <2>3, <2>4, <3>4 DEF Once
    <2> QED
      BY <2>7, <2>8
  <1> QED
    BY <1>1, <1>2, <1>3 DEF MetricsInv

\* Applying the answer leads to the state that the invariant foresaw.
LEMMA ApplyStep ==
    ASSUME MetricsInv, NEW hour \in Hour, Apply(hour)
    PROVE  MetricsInv'
  <1>1. metrics'.traffic = Plus(metrics.traffic, Added)
    BY DEF Apply
  <1>2. Numbers'
    BY <1>1, AddedType DEF MetricsInv, Numbers, Apply, engine, IsCounts
  <1>3. CountersAreTheCores'
    BY DEF MetricsInv, CountersAreTheCores, Apply, engine
  <1>4. ASSUME NEW s \in Source, failures'[s] = 0
        PROVE  Once(s)'
    <2>1. Once(s)
      BY <1>4 DEF MetricsInv, Apply
    <2>2. metrics'.traffic[s] = metrics.traffic[s] + Added[s]
      BY <1>1, AddedType DEF MetricsInv
    <2>3. Added[s] \in Nat /\ (s \notin DOMAIN answer => Added[s] = 0)
      BY AddedType DEF MetricsInv, Added
    <2>4. counter' = counter /\ carried' = carried /\ lastRaw' = answer /\ sampling' = "idle"
      BY DEF Apply, engine
    <2>5. s \in DOMAIN answer => Sound(s, metrics'.traffic[s], answer[s])
      BY <2>1, <2>2 DEF Apply, Once, Answered
    <2>6. metrics'.traffic[s] <= carried[s]
      <3>1. CASE s \in DOMAIN answer
        BY <1>2, <2>5, <3>1, <2>4 DEF Sound, MetricsInv, Numbers, IsCounts
      <3>2. CASE s \notin DOMAIN answer
        BY <2>1, <2>2, <2>3, <3>2 DEF Once, Counted, MetricsInv, Numbers
      <3> QED
        BY <3>1, <3>2
    <2>7. Counted(s)'
      <3>1. disk' # Torn => disk'.traffic[s] <= carried[s]
        BY <2>1, <2>6 DEF Apply, Once, Counted
      <3>2. Sound(s, metrics.traffic[s], lastRaw[s])' = Sound(s, metrics'.traffic[s], answer[s])
        BY <2>4 DEF Sound
      <3> QED
        BY <2>4, <2>5, <2>6, <3>1, <3>2 DEF Counted
    <2> QED
      BY <2>4, <2>7 DEF Once, Answered, Unsampled
  <1> QED
    BY <1>2, <1>3, <1>4 DEF MetricsInv

\* A node that starts has the counts of its file, or none.
LEMMA NodeRestartStep ==
    ASSUME MetricsInv, NodeRestart
    PROVE  MetricsInv'
  <1>1. metrics'.traffic = IF disk = Torn THEN Zeros(Source) ELSE disk.traffic
    BY DEF NodeRestart, NewMetrics
  <1>2. Numbers'
    BY <1>1 DEF MetricsInv, Numbers, NodeRestart, Zeros, IsCounts
  <1>3. CountersAreTheCores'
    BY DEF CountersAreTheCores, NodeRestart, Zeros
  <1>4. ASSUME NEW s \in Source, failures'[s] = 0
        PROVE  Once(s)'
    <2>1. Once(s) /\ carried'[s] = carried[s] /\ disk' = disk
      BY <1>4 DEF MetricsInv, NodeRestart
    <2>2. lastRaw' = <<>> /\ sampling' = "idle"
      BY DEF NodeRestart
    <2>3. metrics'.traffic[s] <= carried[s]
      BY <1>1, <2>1, Values DEF MetricsInv, Zeros, Once, Counted
    <2> QED
      <3>1. s \notin DOMAIN lastRaw'
        BY <2>2
      <3>2. Counted(s)'
        BY <2>1, <2>3, <3>1 DEF Once, Counted
      <3> QED
        BY <2>2, <3>2 DEF Once, Answered, Unsampled
  <1> QED
    BY <1>2, <1>3, <1>4 DEF MetricsInv

\* Steps that touch neither counts nor counters keep the invariant.
LEMMA IdleStep ==
    ASSUME MetricsInv, UNCHANGED <<engine, sampler, carried, failures>>
    PROVE  MetricsInv'
  BY DEF MetricsInv, Numbers, CountersAreTheCores, Once, Counted, Answered, Unsampled, Sound,
         Added, Delta, engine, sampler, IsCounts, Zeros

\* Every step keeps the invariant.
LEMMA StepMetrics == MetricsInv /\ [MetricsNext]_metricsVars => MetricsInv'
  <1> SUFFICES ASSUME MetricsInv, [MetricsNext]_metricsVars PROVE MetricsInv'
    OBVIOUS
  <1>1. CASE Get \/ UNCHANGED metricsVars
    BY <1>1, IdleStep DEF Get, metricsVars
  <1>2. CASE MetricsNext
    BY <1>1, <1>2, EngineStep, CarryStep, AskStep, ApplyStep, NodeRestartStep DEF MetricsNext
  <1> QED
    BY <1>1, <1>2

\* So it holds always.
LEMMA MetricsInvariance == MetricsSpec => []MetricsInv
  BY InitMetrics, StepMetrics, PTL DEF MetricsSpec

-----------------------------------------------------------------------------
\* Whatever is rebuilt, edited, dropped, sampled too late or restarted, no byte
\* of a source is counted twice unless a query for it failed.
THEOREM BytesAreCountedOnce == MetricsSpec => []CountedOnceUnlessFailed
  <1>1. MetricsInv => CountedOnceUnlessFailed
    BY DEF MetricsInv, Once, Counted, CountedOnceUnlessFailed
  <1> QED
    BY <1>1, MetricsInvariance, PTL

-----------------------------------------------------------------------------
(***************************************************************************)
(* Sums. SumFunctionOnSet adds up a function along the choices of a set's  *)
(* elements. What it computes is found by taking the smallest set on which *)
(* a claim would fail: it is not empty, and without an element the claim   *)
(* holds.                                                                  *)
(***************************************************************************)
\* The element a sum takes next, and a function that adds up f over the
\* subsets of a set.
AnyOf(s) == CHOOSE x \in s : TRUE
IsSum(g, f, T) ==
    g = [s \in SUBSET T |-> IF s = {} THEN 0 ELSE f[AnyOf(s)] + g[s \ {AnyOf(s)}]]

\* SumFunctionOnSet is such a function's value.
LEMMA SumIs ==
    ASSUME NEW f, NEW T
    PROVE  SumFunctionOnSet(f, T) = (CHOOSE g : IsSum(g, f, T))[T]
BY DEF SumFunctionOnSet, FoldFunctionOnSet, MapThenFoldSet, IsSum, AnyOf

\* A family of subsets of a finite set has a smallest member.
LEMMA SmallestSet ==
    ASSUME NEW T, IsFiniteSet(T), NEW F \in SUBSET SUBSET T, F # {}
    PROVE  \E U \in F : \A V \in F : V \subseteq U => V = U
<1>1. IsWellFoundedOn(StrictSubsetOrdering(T), SUBSET T)
  BY FS_StrictSubsetOrderingWellFounded, FS_FiniteSubsetsOfFinite
<1>2. PICK U \in F : \A V \in F : ~ (<<V, U>> \in StrictSubsetOrdering(T))
  BY <1>1, WFMin, Zenon
<1>3. ASSUME NEW V \in F, V \subseteq U, V # U
      PROVE  FALSE
  <2>1. <<V, U>> \in StrictSubsetOrdering(T)
    BY <1>3 DEF StrictSubsetOrdering
  <2> QED
    BY <2>1, <1>2
<1> QED
  BY <1>3

\* Two functions that add up functions that agree, agree.
LEMMA SumUnique ==
    ASSUME NEW T, IsFiniteSet(T), NEW U \in SUBSET T, NEW f, NEW e, NEW g, NEW h,
           IsSum(g, f, T), IsSum(h, e, U), \A x \in U : f[x] = e[x]
    PROVE  \A s \in SUBSET U : g[s] = h[s]
<1> DEFINE F == {s \in SUBSET U : g[s] # h[s]}
<1>1. SUFFICES ASSUME F # {} PROVE FALSE
  OBVIOUS
<1>2. IsFiniteSet(U)
  BY FS_Subset
<1>3. PICK s \in F : \A t \in F : t \subseteq s => t = s
  <2> HIDE DEF F
  <2>1. F \in SUBSET SUBSET U
    BY DEF F
  <2> QED
    BY <1>1, <1>2, <2>1, SmallestSet
<1>4. s \in SUBSET U /\ s \in SUBSET T /\ g[s] # h[s]
  BY <1>3
<1>5. /\ g[s] = IF s = {} THEN 0 ELSE f[AnyOf(s)] + g[s \ {AnyOf(s)}]
      /\ h[s] = IF s = {} THEN 0 ELSE e[AnyOf(s)] + h[s \ {AnyOf(s)}]
  BY <1>4 DEF IsSum
<1>6. s # {}
  BY <1>4, <1>5
<1>7. AnyOf(s) \in s
  BY <1>6 DEF AnyOf
<1>8. s \ {AnyOf(s)} \notin F
  BY <1>3, <1>7
<1> QED
  BY <1>4, <1>5, <1>6, <1>7, <1>8

\* Every function can be added up over a finite set.
LEMMA SumExists ==
    ASSUME NEW T, IsFiniteSet(T), NEW f
    PROVE  \E g : IsSum(g, f, T)
<1> DEFINE F == {U \in SUBSET T : ~ \E g : IsSum(g, f, U)}
<1>1. SUFFICES ASSUME F # {} PROVE FALSE
  OBVIOUS
<1>2. PICK U \in F : \A V \in F : V \subseteq U => V = U
  <2> HIDE DEF F
  <2>1. F \in SUBSET SUBSET T
    BY DEF F
  <2> QED
    BY <1>1, <2>1, SmallestSet
<1> DEFINE G(V) == CHOOSE g : IsSum(g, f, V)
           Value(s) == IF s = {} THEN 0 ELSE f[AnyOf(s)] + G(s \ {AnyOf(s)})[s \ {AnyOf(s)}]
           h == [s \in SUBSET U |-> Value(s)]
<1>3. ASSUME NEW V \in SUBSET U, V # U
      PROVE  IsSum(G(V), f, V)
  <2>1. V \in SUBSET T /\ V \notin F
    BY <1>2, <1>3
  <2>2. \E g : IsSum(g, f, V)
    BY <2>1
  <2> QED
    BY <2>2
<1>4. ASSUME NEW s \in SUBSET U, s # {}
      PROVE  Value(s) = f[AnyOf(s)] + h[s \ {AnyOf(s)}]
  <2> DEFINE t == s \ {AnyOf(s)}
             u == t \ {AnyOf(t)}
  <2>1. AnyOf(s) \in s
    BY <1>4 DEF AnyOf
  <2>2. t \in SUBSET U /\ t # U /\ u \in SUBSET t /\ u \in SUBSET U /\ t \in SUBSET t /\ u \in SUBSET u
    BY <2>1
  <2>3. h[t] = Value(t)
    BY <2>2
  <2>4. IsSum(G(t), f, t)
    BY <2>2, <1>3
  <2>5. G(t)[t] = IF t = {} THEN 0 ELSE f[AnyOf(t)] + G(t)[u]
    <3> HIDE DEF G
    <3> QED
      BY <2>2, <2>4 DEF IsSum
  <2>6. CASE t = {}
    BY <2>3, <2>5, <2>6, <1>4
  <2>7. CASE t # {}
    <3>1. AnyOf(t) \in t
      BY <2>7 DEF AnyOf
    <3>2. u # U
      BY <3>1, <2>2
    <3>3. IsSum(G(u), f, u)
      BY <2>2, <3>2, <1>3
    <3>4. IsFiniteSet(t)
      BY <2>2, FS_Subset
    <3>5. G(t)[u] = G(u)[u]
      <4> HIDE DEF G, t, u
      <4> QED
        BY <2>2, <2>4, <3>3, <3>4, SumUnique
    <3>6. Value(t) = f[AnyOf(t)] + G(u)[u]
      BY <2>7
    <3>7. Value(s) = f[AnyOf(s)] + G(t)[t]
      BY <1>4
    <3> HIDE DEF G, Value, h
    <3> QED
      BY <2>3, <2>5, <2>7, <3>5, <3>6, <3>7
  <2> QED
    BY <2>6, <2>7
<1>5. \A s \in SUBSET U : h[s] = IF s = {} THEN 0 ELSE f[AnyOf(s)] + h[s \ {AnyOf(s)}]
  <2> TAKE s \in SUBSET U
  <2>1. h[s] = Value(s)
    OBVIOUS
  <2>2. s = {} => Value(s) = 0
    OBVIOUS
  <2> HIDE DEF h, Value
  <2> QED
    BY <2>1, <2>2, <1>4
<1>6. h = [s \in SUBSET U |-> h[s]]
  OBVIOUS
<1>7. IsSum(h, f, U)
  <2> HIDE DEF h
  <2> QED
    BY <1>5, <1>6 DEF IsSum
<1> QED
  BY <1>2, <1>7

\* A sum over a finite set is nothing, or an element's value and the sum over
\* the rest.
LEMMA SumByOne ==
    ASSUME NEW T, IsFiniteSet(T), NEW f
    PROVE  /\ T = {} => SumFunctionOnSet(f, T) = 0
           /\ T # {} => /\ AnyOf(T) \in T
                        /\ SumFunctionOnSet(f, T) =
                              f[AnyOf(T)] + SumFunctionOnSet(f, T \ {AnyOf(T)})
<1> DEFINE G(V) == CHOOSE g : IsSum(g, f, V)
           U == T \ {AnyOf(T)}
<1>1. IsFiniteSet(U) /\ U \in SUBSET T /\ U \in SUBSET U /\ T \in SUBSET T
  BY FS_Subset
<1>2. IsSum(G(T), f, T) /\ IsSum(G(U), f, U)
  BY <1>1, SumExists
<1>3. SumFunctionOnSet(f, T) = G(T)[T] /\ SumFunctionOnSet(f, U) = G(U)[U]
  BY SumIs
<1> HIDE DEF G
<1>4. G(T)[T] = IF T = {} THEN 0 ELSE f[AnyOf(T)] + G(T)[U]
  BY <1>1, <1>2 DEF IsSum
<1>5. G(T)[U] = G(U)[U]
  <2> HIDE DEF U
  <2> QED
    BY <1>1, <1>2, SumUnique
<1>6. T # {} => AnyOf(T) \in T
  BY DEF AnyOf
<1> QED
  BY <1>3, <1>4, <1>5, <1>6

\* Functions that agree on a set have the same sum over it.
LEMMA SumAgrees ==
    ASSUME NEW T, IsFiniteSet(T), NEW f, NEW e, \A x \in T : f[x] = e[x]
    PROVE  SumFunctionOnSet(f, T) = SumFunctionOnSet(e, T)
<1> DEFINE G(j) == CHOOSE g : IsSum(g, j, T)
<1>1. IsSum(G(f), f, T) /\ IsSum(G(e), e, T) /\ T \in SUBSET T
  BY SumExists
<1>2. SumFunctionOnSet(f, T) = G(f)[T] /\ SumFunctionOnSet(e, T) = G(e)[T]
  BY SumIs
<1> HIDE DEF G
<1>3. \A s \in SUBSET T : G(f)[s] = G(e)[s]
  BY <1>1, SumUnique
<1> QED
  BY <1>1, <1>2, <1>3

\* Sums of numbers are numbers.
LEMMA SumType ==
    ASSUME NEW T, IsFiniteSet(T), NEW f, \A x \in T : f[x] \in Nat
    PROVE  SumFunctionOnSet(f, T) \in Nat
<1> DEFINE F == {U \in SUBSET T : SumFunctionOnSet(f, U) \notin Nat}
<1>1. SUFFICES ASSUME F # {} PROVE FALSE
  OBVIOUS
<1>2. PICK U \in F : \A V \in F : V \subseteq U => V = U
  <2> HIDE DEF F
  <2>1. F \in SUBSET SUBSET T
    BY DEF F
  <2> QED
    BY <1>1, <2>1, SmallestSet
<1>3. IsFiniteSet(U)
  BY FS_Subset
<1>4. /\ U = {} => SumFunctionOnSet(f, U) = 0
      /\ U # {} => /\ AnyOf(U) \in U
                   /\ SumFunctionOnSet(f, U) = f[AnyOf(U)] + SumFunctionOnSet(f, U \ {AnyOf(U)})
  BY <1>3, SumByOne
<1>5. U # {} => SumFunctionOnSet(f, U \ {AnyOf(U)}) \in Nat
  BY <1>2, <1>4
<1> QED
  BY <1>2, <1>4, <1>5

\* Sums of sums.
LEMMA SumPlus ==
    ASSUME NEW T, IsFiniteSet(T), NEW f, NEW e, NEW d,
           \A x \in T : f[x] \in Nat /\ e[x] \in Nat /\ d[x] = f[x] + e[x]
    PROVE  SumFunctionOnSet(d, T) = SumFunctionOnSet(f, T) + SumFunctionOnSet(e, T)
<1> DEFINE F == {U \in SUBSET T : SumFunctionOnSet(d, U) # SumFunctionOnSet(f, U) + SumFunctionOnSet(e, U)}
<1>1. SUFFICES ASSUME F # {} PROVE FALSE
  OBVIOUS
<1>2. PICK U \in F : \A V \in F : V \subseteq U => V = U
  <2> HIDE DEF F
  <2>1. F \in SUBSET SUBSET T
    BY DEF F
  <2> QED
    BY <1>1, <2>1, SmallestSet
<1>3. IsFiniteSet(U)
  BY FS_Subset
<1>4. U # {} /\ AnyOf(U) \in U
  <2>1. CASE U = {}
    <3>1. SumFunctionOnSet(f, U) = 0 /\ SumFunctionOnSet(e, U) = 0 /\ SumFunctionOnSet(d, U) = 0
      BY <1>3, <2>1, SumByOne
    <3> QED
      BY <1>2, <3>1
  <2>2. CASE U # {}
    BY <2>2 DEF AnyOf
  <2> QED
    BY <2>1, <2>2
<1> DEFINE V == U \ {AnyOf(U)}
<1>5. SumFunctionOnSet(d, V) = SumFunctionOnSet(f, V) + SumFunctionOnSet(e, V)
  BY <1>2, <1>4
<1>6. IsFiniteSet(V) /\ \A x \in V : x \in T
  BY <1>3, FS_Subset
<1>7. SumFunctionOnSet(f, V) \in Nat /\ SumFunctionOnSet(e, V) \in Nat
  BY <1>6, SumType
<1>8. f[AnyOf(U)] \in Nat /\ e[AnyOf(U)] \in Nat /\ d[AnyOf(U)] = f[AnyOf(U)] + e[AnyOf(U)]
  BY <1>4
<1>9. /\ SumFunctionOnSet(d, U) = d[AnyOf(U)] + SumFunctionOnSet(d, V)
      /\ SumFunctionOnSet(f, U) = f[AnyOf(U)] + SumFunctionOnSet(f, V)
      /\ SumFunctionOnSet(e, U) = e[AnyOf(U)] + SumFunctionOnSet(e, V)
  BY <1>3, <1>4, SumByOne
<1> HIDE DEF V
<1>10. SumFunctionOnSet(d, U) # SumFunctionOnSet(f, U) + SumFunctionOnSet(e, U)
  BY <1>2
<1> QED
  BY <1>5, <1>7, <1>8, <1>9, <1>10

\* Any element can be taken out of a sum.
LEMMA SumWithout ==
    ASSUME NEW T, IsFiniteSet(T), NEW f, \A x \in T : f[x] \in Nat
    PROVE  \A y \in T : SumFunctionOnSet(f, T) = f[y] + SumFunctionOnSet(f, T \ {y})
<1> DEFINE Good(U) == \A y \in U : SumFunctionOnSet(f, U) = f[y] + SumFunctionOnSet(f, U \ {y})
           F == {U \in SUBSET T : ~Good(U)}
<1>1. SUFFICES ASSUME F # {} PROVE FALSE
  OBVIOUS
<1>2. PICK U \in F : \A V \in F : V \subseteq U => V = U
  <2> HIDE DEF F
  <2>1. F \in SUBSET SUBSET T
    BY DEF F
  <2> QED
    BY <1>1, <2>1, SmallestSet
<1>3. PICK y \in U : SumFunctionOnSet(f, U) # f[y] + SumFunctionOnSet(f, U \ {y})
  BY <1>2
<1> DEFINE x == AnyOf(U)
           W == (U \ {x}) \ {y}
<1>4. IsFiniteSet(U) /\ IsFiniteSet(U \ {x}) /\ IsFiniteSet(U \ {y}) /\ IsFiniteSet(W)
  BY FS_Subset
<1>5. x \in U /\ SumFunctionOnSet(f, U) = f[x] + SumFunctionOnSet(f, U \ {x})
  BY <1>3, <1>4, SumByOne
<1>6. x # y
  BY <1>3, <1>5
<1>7. SumFunctionOnSet(f, U \ {x}) = f[y] + SumFunctionOnSet(f, W)
  <2>1. Good(U \ {x})
    BY <1>2, <1>5
  <2> QED
    BY <2>1, <1>3, <1>6
<1>8. SumFunctionOnSet(f, U \ {y}) = f[x] + SumFunctionOnSet(f, W)
  <2>1. Good(U \ {y})
    BY <1>2, <1>3
  <2>2. (U \ {y}) \ {x} = W
    OBVIOUS
  <2>3. x \in U \ {y}
    BY <1>5, <1>6
  <2> HIDE DEF W, x
  <2> QED
    BY <2>1, <2>2, <2>3
<1>9. SumFunctionOnSet(f, W) \in Nat /\ f[x] \in Nat /\ f[y] \in Nat
  BY <1>4, <1>5, SumType
<1> HIDE DEF W, x, F, Good
<1> QED
  BY <1>3, <1>5, <1>7, <1>8, <1>9

-----------------------------------------------------------------------------
(***************************************************************************)
(* Metrics: the figures a node keeps and tells agree with each other.      *)
(***************************************************************************)
\* Of at most one number more than M, those with fewer than M greater ones are
\* all, or M.
LEMMA LatestAre ==
    ASSUME NEW D \in SUBSET Nat, IsFiniteSet(D), NEW M \in Nat \ {0}, Cardinality(D) <= M + 1,
           NEW K, K = {h \in D : Cardinality({g \in D : g > h}) < M}
    PROVE  IsFiniteSet(K) /\ Cardinality(K) <= M /\ (Cardinality(K) < M => K = D)
<1>1. IsFiniteSet(K) /\ K \subseteq D
  BY FS_Subset
<1>2. CASE D = {}
  <2>1. K = {} /\ Cardinality(K) = 0
    BY <1>2, FS_EmptySet
  <2> QED
    BY <1>1, <1>2, <2>1
<1>3. CASE D # {}
  <2>1. IsWellFoundedOn(OpToRel(<, Nat), Nat)
    BY NatLessThanWellFounded
  <2>2. PICK m \in D : \A j \in D : ~ (<<j, m>> \in OpToRel(<, Nat))
    BY <1>3, <2>1, WFMin, Zenon
  <2>3. \A j \in D : m <= j
    <3> TAKE j \in D
    <3>1. <<j, m>> \notin OpToRel(<, Nat)
      BY <2>2
    <3>2. ~ (j < m)
      BY <3>1 DEF OpToRel
    <3> QED
      BY <3>2
  <2>4. Cardinality(D) \in Nat
    BY FS_CardinalityType
  <2>5. IsFiniteSet(D \ {m}) /\ Cardinality(D \ {m}) = Cardinality(D) - 1
    BY FS_RemoveElement
  <2>6. ASSUME NEW h \in D, h # m
        PROVE  h \in K
    <3> DEFINE R == (D \ {m}) \ {h}
               A == {g \in D : g > h}
    <3>1. IsFiniteSet(R) /\ Cardinality(R) = Cardinality(D) - 2
      BY <2>4, <2>5, <2>6, FS_RemoveElement
    <3>2. A \in SUBSET R
      BY <2>3
    <3> HIDE DEF R, A
    <3>3. IsFiniteSet(A) /\ Cardinality(A) <= Cardinality(R)
      BY <3>1, <3>2, FS_Subset
    <3>4. Cardinality(A) \in Nat
      BY <3>3, FS_CardinalityType
    <3>5. Cardinality(A) < M
      BY <2>4, <3>1, <3>3, <3>4
    <3> QED
      BY <3>5 DEF A
  <2>10. {g \in D : g > m} = D \ {m}
    <3>1. \A g \in D : g \in Nat /\ m \in Nat
      OBVIOUS
    <3>2. \A g \in D : g > m <=> g # m
      BY <2>3, <3>1
    <3> QED
      BY <3>2
  <2>7. CASE m \in K
    <3>1. K = D
      BY <1>1, <2>6, <2>7
    <3>3. Cardinality(D \ {m}) < M
      BY <2>7, <2>10
    <3>2. Cardinality(K) = Cardinality(D)
      BY <3>1
    <3> QED
      BY <1>1, <2>4, <2>5, <3>1, <3>2, <3>3
  <2>8. CASE m \notin K
    <3>1. K = D \ {m}
      BY <1>1, <2>6, <2>8
    <3>3. ~ (Cardinality(D \ {m}) < M)
      BY <2>8, <2>10
    <3>2. Cardinality(K) = Cardinality(D \ {m})
      BY <3>1
    <3> QED
      BY <1>1, <2>4, <2>5, <3>2, <3>3
  <2> QED
    BY <2>7, <2>8
<1> QED
  BY <1>2, <1>3

\* What a node keeps, in memory or in its file: totals and hours add up, and
\* there are no more hours than are kept.
HourTotal(m, t) == SumFunctionOnSet([h \in DOMAIN m.hourly |-> m.hourly[h][t]], DOMAIN m.hourly)
Figures(m) ==
    /\ m.traffic \in [Source -> Nat] /\ m.total \in [Total -> Nat]
    /\ DOMAIN m.hourly \subseteq Hour /\ m.hourly \in [DOMAIN m.hourly -> [Total -> Nat]]
    /\ IsFiniteSet(DOMAIN m.hourly) /\ Cardinality(DOMAIN m.hourly) <= MaxBuckets
    /\ \A t \in Total : m.total[t] = SumFunctionOnSet(m.traffic, OfKind(t))
    /\ Cardinality(DOMAIN m.hourly) < MaxBuckets => \A t \in Total : m.total[t] = HourTotal(m, t)

\* What the first getter has answered is no more than the second will.
FiguresInv ==
    /\ Figures(metrics)
    /\ disk # Torn => Figures(disk)
    /\ status # NoReply => status \in Nat /\ status <= metrics.total["inbound"]

\* The sources of a kind are finite in number.
LEMMA KindsAreFinite == \A k : IsFiniteSet(OfKind(k)) /\ OfKind(k) \subseteq Source
<1> TAKE k
<1>1. OfKind(k) \in SUBSET Source
  BY DEF OfKind
<1> QED
  BY <1>1, SourceAssumption, FS_Subset

\* A node that was never sampled has counted nothing.
LEMMA NewFigures == Figures(NewMetrics)
<1>1. NewMetrics.traffic \in [Source -> Nat] /\ NewMetrics.total \in [Total -> Nat] /\ DOMAIN NewMetrics.hourly = {}
  BY DEF NewMetrics, Zeros
<1>2. NewMetrics.hourly \in [DOMAIN NewMetrics.hourly -> [Total -> Nat]]
  BY <1>1 DEF NewMetrics
<1>3. IsFiniteSet({}) /\ Cardinality({}) = 0
  BY FS_EmptySet
<1>4. ASSUME NEW t \in Total
      PROVE  SumFunctionOnSet(NewMetrics.traffic, OfKind(t)) = 0
  <2> DEFINE F == {U \in SUBSET OfKind(t) : SumFunctionOnSet(NewMetrics.traffic, U) # 0}
  <2>1. SUFFICES ASSUME F # {} PROVE FALSE
    OBVIOUS
  <2>2. PICK U \in F : \A V \in F : V \subseteq U => V = U
    <3> HIDE DEF F
    <3>1. F \in SUBSET SUBSET OfKind(t)
      BY DEF F
    <3> QED
      BY <2>1, <3>1, KindsAreFinite, SmallestSet
  <2>3. IsFiniteSet(U) /\ U \subseteq Source
    BY <2>2, KindsAreFinite, FS_Subset
  <2>4. /\ U = {} => SumFunctionOnSet(NewMetrics.traffic, U) = 0
        /\ U # {} => /\ AnyOf(U) \in U
                     /\ SumFunctionOnSet(NewMetrics.traffic, U) =
                          NewMetrics.traffic[AnyOf(U)] + SumFunctionOnSet(NewMetrics.traffic, U \ {AnyOf(U)})
    BY <2>3, SumByOne
  <2>5. U # {} => SumFunctionOnSet(NewMetrics.traffic, U \ {AnyOf(U)}) = 0
    BY <2>2, <2>4
  <2>6. U # {} => NewMetrics.traffic[AnyOf(U)] = 0
    BY <2>3, <2>4 DEF NewMetrics, Zeros
  <2> QED
    BY <2>2, <2>4, <2>5, <2>6
<1>5. ASSUME NEW t \in Total
      PROVE  HourTotal(NewMetrics, t) = 0
  BY <1>1, <1>3, SumByOne DEF HourTotal
<1>6. \A t \in Total : NewMetrics.total[t] = 0
  BY DEF NewMetrics, Zeros
<1> QED
  BY <1>1, <1>2, <1>3, <1>4, <1>5, <1>6, HourAssumption DEF Figures

\* The hours after a sample, before the oldest is dropped.
LEMMA BucketedIs ==
    ASSUME Figures(metrics), NEW hour \in Hour, NEW added \in [Total -> Nat]
    PROVE  /\ DOMAIN Bucketed(hour, added) = DOMAIN metrics.hourly \cup {hour}
           /\ \A h \in DOMAIN metrics.hourly \ {hour} : Bucketed(hour, added)[h] = metrics.hourly[h]
           /\ Bucketed(hour, added)[hour] = IF hour \in DOMAIN metrics.hourly
                                            THEN [t \in Total |-> metrics.hourly[hour][t] + added[t]]
                                            ELSE added
           /\ Bucketed(hour, added) \in [DOMAIN metrics.hourly \cup {hour} -> [Total -> Nat]]
<1> DEFINE H == metrics.hourly
           B == Bucketed(hour, added)
<1>1. H \in [DOMAIN H -> [Total -> Nat]]
  BY DEF Figures
<1>2. CASE hour \in DOMAIN H
  <2>1. DOMAIN H[hour] = Total
    BY <1>1, <1>2
  <2>2. Plus(H[hour], added) = [t \in Total |-> H[hour][t] + added[t]]
    BY <2>1 DEF Plus
  <2>3. Plus(H[hour], added) \in [Total -> Nat]
    BY <2>2, <1>1, <1>2
  <2>4. B = [H EXCEPT ![hour] = Plus(@, added)]
    BY <1>2 DEF Bucketed
  <2> HIDE DEF H, B
  <2>5. /\ DOMAIN B = DOMAIN H \cup {hour}
        /\ \A h \in DOMAIN H \ {hour} : B[h] = H[h]
        /\ B[hour] = Plus(H[hour], added)
        /\ B \in [DOMAIN H -> [Total -> Nat]]
    BY <1>1, <1>2, <2>3, <2>4
  <2>6. DOMAIN H \cup {hour} = DOMAIN H
    BY <1>2
  <2> QED
    BY <1>2, <2>2, <2>5, <2>6 DEF H, B
<1>3. CASE hour \notin DOMAIN H
  <2>1. B = [h \in DOMAIN H \cup {hour} |-> IF h = hour THEN added ELSE H[h]]
    BY <1>3 DEF Bucketed
  <2> HIDE DEF H, B
  <2>2. B = [h \in {hour} \cup DOMAIN H |-> IF h = hour THEN added ELSE H[h]]
    BY <2>1
  <2>3. B \in [DOMAIN H \cup {hour} -> [Total -> Nat]]
    BY <1>1, <2>2
  <2> QED
    BY <1>3, <2>2, <2>3 DEF H, B
<1> QED
  BY <1>2, <1>3

\* The second half of a sample keeps the figures.
LEMMA AppliedFigures ==
    ASSUME Numbers, Figures(metrics), NEW hour \in Hour, Apply(hour)
    PROVE  Figures(metrics') /\ \A t \in Total : metrics.total[t] <= metrics'.total[t]
<1> DEFINE B == Bucketed(hour, AddedTotal)
           D == DOMAIN metrics.hourly \cup {hour}
           K == {h \in D : Cardinality({g \in D : g > h}) < MaxBuckets}
<1>1. Added \in [Source -> Nat] /\ metrics.traffic \in [Source -> Nat]
  BY AddedType DEF Numbers
<1>2. ASSUME NEW t \in Total
      PROVE  /\ SumFunctionOnSet(Added, OfKind(t)) \in Nat
             /\ SumFunctionOnSet(Plus(metrics.traffic, Added), OfKind(t))
                   = SumFunctionOnSet(metrics.traffic, OfKind(t)) + SumFunctionOnSet(Added, OfKind(t))
  <2>1. \A s \in OfKind(t) : /\ metrics.traffic[s] \in Nat /\ Added[s] \in Nat
                             /\ Plus(metrics.traffic, Added)[s] = metrics.traffic[s] + Added[s]
    BY <1>1, KindsAreFinite, AddedType
  <2> QED
    BY <2>1, KindsAreFinite, SumType, SumPlus
<1>3. AddedTotal \in [Total -> Nat] /\ \A t \in Total : AddedTotal[t] = SumFunctionOnSet(Added, OfKind(t))
  BY <1>2 DEF AddedTotal, CountedIn
<1>4. /\ metrics'.traffic = Plus(metrics.traffic, Added)
      /\ metrics'.total = Plus(metrics.total, AddedTotal)
      /\ metrics'.hourly = Latest(B)
  BY DEF Apply
<1>5. metrics.total \in [Total -> Nat] /\ \A t \in Total : metrics.total[t] = SumFunctionOnSet(metrics.traffic, OfKind(t))
  BY DEF Figures
<1>6. metrics'.total = [t \in Total |-> metrics.total[t] + AddedTotal[t]]
  BY <1>4, <1>5 DEF Plus
<1>7. /\ DOMAIN B = D /\ B \in [D -> [Total -> Nat]]
      /\ \A h \in DOMAIN metrics.hourly \ {hour} : B[h] = metrics.hourly[h]
      /\ B[hour] = IF hour \in DOMAIN metrics.hourly
                   THEN [t \in Total |-> metrics.hourly[hour][t] + AddedTotal[t]]
                   ELSE AddedTotal
  BY <1>3, BucketedIs
<1> HIDE DEF B
<1>8. metrics'.hourly = [h \in K |-> B[h]]
  BY <1>4, <1>7 DEF Latest, Restrict
<1>9. /\ IsFiniteSet(DOMAIN metrics.hourly) /\ Cardinality(DOMAIN metrics.hourly) <= MaxBuckets
      /\ Cardinality(DOMAIN metrics.hourly) \in Nat
      /\ DOMAIN metrics.hourly \subseteq Hour
  BY FS_CardinalityType DEF Figures
<1>10. IsFiniteSet(D) /\ D \in SUBSET Hour /\ D \in SUBSET Nat /\ Cardinality(D) <= MaxBuckets + 1
       /\ Cardinality(DOMAIN metrics.hourly) <= Cardinality(D)
  <2>1. /\ IsFiniteSet(D)
        /\ Cardinality(D) = IF hour \in DOMAIN metrics.hourly THEN Cardinality(DOMAIN metrics.hourly)
                            ELSE Cardinality(DOMAIN metrics.hourly) + 1
    BY <1>9, FS_AddElement
  <2> QED
    BY <1>9, <2>1, HourAssumption
<1>11. IsFiniteSet(K) /\ Cardinality(K) <= MaxBuckets /\ (Cardinality(K) < MaxBuckets => K = D)
  <2> HIDE DEF D
  <2> QED
    BY <1>10, HourAssumption, LatestAre
<1>12. K \subseteq D
  OBVIOUS
<1> HIDE DEF K
<1>13. ASSUME K = D, Cardinality(K) < MaxBuckets, NEW t \in Total
       PROVE  metrics'.total[t] = HourTotal(metrics', t)
  <2> DEFINE H == DOMAIN metrics.hourly
             old == [h \in H |-> metrics.hourly[h][t]]
             new == [h \in D |-> B[h][t]]
             new2 == [h \in DOMAIN metrics'.hourly |-> metrics'.hourly[h][t]]
  <2>1. HourTotal(metrics', t) = SumFunctionOnSet(new2, D)
    BY <1>8, <1>13 DEF HourTotal
  <2>2. \A h \in D : new2[h] = new[h]
    BY <1>8, <1>13
  <2>3. SumFunctionOnSet(new2, D) = SumFunctionOnSet(new, D)
    <3> HIDE DEF new, new2, D
    <3> QED
      BY <2>2, <1>10, SumAgrees
  <2>4. metrics.total[t] = SumFunctionOnSet(old, H)
    <3>1. Cardinality(H) < MaxBuckets
      <4>1. Cardinality(D) < MaxBuckets
        BY <1>13
      <4>2. Cardinality(D) \in Nat
        BY <1>10, FS_CardinalityType
      <4> HIDE DEF H, D
      <4> QED
        BY <4>1, <4>2, <1>9, <1>10, HourAssumption DEF H
    <3> QED
      BY <3>1 DEF Figures, HourTotal
  <2>5. metrics.hourly \in [H -> [Total -> Nat]] /\ AddedTotal[t] \in Nat
    BY <1>3 DEF Figures
  <2>6. \A h \in H : old[h] \in Nat
    BY <2>5
  <2>7. \A h \in D : new[h] \in Nat
    BY <1>7
  <2>8. \A h \in D \ {hour} : h \in H /\ new[h] = old[h]
    BY <1>7
  <2>9. SumFunctionOnSet(new, D) = new[hour] + SumFunctionOnSet(new, D \ {hour})
    <3>1. hour \in D
      OBVIOUS
    <3> HIDE DEF new, D
    <3> QED
      BY <3>1, <1>10, <2>7, SumWithout
  <2>10. SumFunctionOnSet(new, D \ {hour}) = SumFunctionOnSet(old, D \ {hour})
    <3>1. IsFiniteSet(D \ {hour})
      BY <1>10, FS_Subset
    <3> HIDE DEF new, old, D, H
    <3> QED
      BY <3>1, <2>8, SumAgrees
  <2>11. D \ {hour} = H \ {hour}
    OBVIOUS
  <2>12. SumFunctionOnSet(old, H \ {hour}) \in Nat
    <3>1. IsFiniteSet(H \ {hour})
      BY <1>9, FS_Subset
    <3> HIDE DEF old, H
    <3> QED
      BY <3>1, <2>6, SumType
  <2>15. metrics'.total[t] = metrics.total[t] + AddedTotal[t]
    BY <1>6
  <2>13. CASE hour \in H
    <3>1. SumFunctionOnSet(old, H) = old[hour] + SumFunctionOnSet(old, H \ {hour})
      <4>1. IsFiniteSet(H)
        BY <1>9
      <4> HIDE DEF old, H
      <4> QED
        BY <4>1, <2>13, <2>6, SumWithout
    <3>2. new[hour] = old[hour] + AddedTotal[t] /\ old[hour] \in Nat
      BY <1>7, <2>6, <2>13
    <3>3. SumFunctionOnSet(new, D) = SumFunctionOnSet(old, H) + AddedTotal[t]
      <4>1. SumFunctionOnSet(new, D \ {hour}) = SumFunctionOnSet(old, H \ {hour})
        BY <2>10, <2>11
      <4>2. AddedTotal[t] \in Nat
        BY <2>5
      <4> HIDE DEF new, old, H, D
      <4> QED
        BY <2>9, <2>12, <3>1, <3>2, <4>1, <4>2
    <3> HIDE DEF new, old, H, D
    <3> QED
      BY <2>1, <2>3, <2>4, <2>15, <3>3
  <2>14. CASE hour \notin H
    <3>1. H \ {hour} = H
      BY <2>14
    <3>2. new[hour] = AddedTotal[t]
      BY <1>7, <2>14
    <3>3. SumFunctionOnSet(new, D) = SumFunctionOnSet(old, H) + AddedTotal[t]
      <4>1. SumFunctionOnSet(new, D \ {hour}) = SumFunctionOnSet(old, H \ {hour})
        BY <2>10, <2>11
      <4>2. AddedTotal[t] \in Nat
        BY <2>5
      <4>3. SumFunctionOnSet(old, H \ {hour}) = SumFunctionOnSet(old, H)
        BY <3>1
      <4> HIDE DEF new, old, H, D
      <4> QED
        BY <2>9, <2>12, <3>2, <4>1, <4>2, <4>3
    <3> HIDE DEF new, old, H, D
    <3> QED
      BY <2>1, <2>3, <2>4, <2>15, <3>3
  <2> QED
    BY <2>13, <2>14
<1>14. ASSUME NEW t \in Total
       PROVE  /\ metrics'.total[t] = SumFunctionOnSet(metrics'.traffic, OfKind(t))
              /\ metrics.total[t] <= metrics'.total[t]
  <2>1. metrics.total[t] \in Nat /\ AddedTotal[t] \in Nat
    BY <1>3, <1>5
  <2> QED
    BY <1>2, <1>3, <1>4, <1>5, <1>6, <2>1
<1>15. metrics'.traffic \in [Source -> Nat] /\ metrics'.total \in [Total -> Nat]
  BY <1>3, <1>4, <1>5, <1>6, AddedType
<1>16. /\ DOMAIN metrics'.hourly = K /\ K \subseteq Hour
       /\ metrics'.hourly \in [K -> [Total -> Nat]]
  <2> HIDE DEF D
  <2> QED
    BY <1>7, <1>8, <1>10, <1>12
<1> HIDE DEF D
<1> QED
  BY <1>11, <1>13, <1>14, <1>15, <1>16 DEF Figures

\* The figures hold initially.
LEMMA InitFigures == MetricsInit => FiguresInv
BY NewFigures DEF MetricsInit, FiguresInv

\* Every step keeps them.
LEMMA StepFigures == MetricsInv /\ FiguresInv /\ [MetricsNext]_metricsVars => FiguresInv'
<1> SUFFICES ASSUME MetricsInv, FiguresInv, [MetricsNext]_metricsVars PROVE FiguresInv'
  OBVIOUS
<1>1. CASE UNCHANGED <<metrics, disk, status>>
  BY <1>1 DEF FiguresInv, Figures, HourTotal
<1>2. ASSUME NEW hour \in Hour, Apply(hour)
      PROVE  FiguresInv'
  <2>1. Figures(metrics') /\ \A t \in Total : metrics.total[t] <= metrics'.total[t]
    BY <1>2, AppliedFigures DEF MetricsInv, FiguresInv
  <2>2. "inbound" \in Total
    BY DEF Total
  <2>3. metrics.total["inbound"] \in Nat /\ metrics'.total["inbound"] \in Nat
    BY <2>1, <2>2 DEF FiguresInv, Figures
  <2>4. disk' \in {disk, metrics', Torn} /\ status' = status
    BY <1>2 DEF Apply
  <2>5. disk' # Torn => Figures(disk')
    BY <2>1, <2>4 DEF FiguresInv
  <2>6. status' # NoReply => status' \in Nat /\ status' <= metrics'.total["inbound"]
    BY <2>1, <2>2, <2>3, <2>4 DEF FiguresInv
  <2> QED
    BY <2>1, <2>5, <2>6 DEF FiguresInv, Figures, HourTotal
<1>3. CASE Get
  <2>1. "inbound" \in Total
    BY DEF Total
  <2>2. metrics.total["inbound"] = SumFunctionOnSet(metrics.traffic, OfKind("inbound"))
        /\ metrics.total["inbound"] \in Nat
    BY <2>1 DEF FiguresInv, Figures
  <2>3. Shown[Getters[1]] = SumFunctionOnSet(metrics.traffic, OfKind("inbound"))
    BY DEF Shown, Getters
  <2>4. UNCHANGED <<metrics, disk>>
    BY <1>3 DEF Get, sampler
  <2>5. status' # NoReply => status' \in Nat /\ status' <= metrics.total["inbound"]
    BY <1>3, <2>2, <2>3 DEF Get
  <2> QED
    BY <2>4, <2>5 DEF FiguresInv, Figures, HourTotal
<1>4. CASE NodeRestart
  <2>1. Figures(metrics') /\ status' = NoReply /\ disk' = disk
    BY <1>4, NewFigures DEF NodeRestart, FiguresInv
  <2> QED
    BY <2>1 DEF FiguresInv, Figures, HourTotal
<1>5. CASE Build \/ BuildFails \/ Edit \/ Drop \/ Snapshot \/ Query \/ QueryClosed \/ QueryDropped
           \/ \E s \in Source : Carry(s)
  BY <1>1, <1>5 DEF Build, BuildFails, Edit, Drop, Snapshot, Query, QueryClosed, QueryDropped, Carry,
                    sampler, engine
<1>6. CASE UNCHANGED metricsVars
  BY <1>1, <1>6 DEF metricsVars, sampler
<1> QED
  BY <1>2, <1>3, <1>4, <1>5, <1>6 DEF MetricsNext

\* The totals are the sums of what they are the totals of, the hours account
\* for them until the first is dropped, and a status adds up however late its
\* second half is asked for (applyTrafficDelta, updateHourlyMetricsLocked and
\* the getters of GetStatus).
THEOREM FiguresAlwaysAgree == MetricsSpec => []FiguresAgree
<1>1. MetricsSpec => []FiguresInv
  BY InitFigures, StepFigures, MetricsInvariance, PTL DEF MetricsSpec
<1>2. FiguresInv => FiguresAgree
  <2> SUFFICES ASSUME FiguresInv PROVE FiguresAgree
    OBVIOUS
  <2>1. TotalsAddUp
    BY DEF FiguresInv, Figures, TotalsAddUp
  <2>2. HourlyAddsUp
    BY DEF FiguresInv, Figures, HourTotal, HourlyAddsUp
  <2>3. StatusAddsUp
    <3> DEFINE reply == [g \in {Getters[1], Getters[2]} |-> IF g = Getters[1] THEN status ELSE Shown[g]]
    <3>1. reply["inbounds"] = status /\ reply["total"] = Shown["total"]
      BY DEF Getters
    <3>2. Shown["total"] = metrics.total["inbound"]
      BY DEF Shown
    <3> QED
      BY <3>1, <3>2 DEF FiguresInv, StatusAddsUp
  <2> QED
    BY <2>1, <2>2, <2>3 DEF FiguresAgree
<1> QED
  BY <1>1, <1>2, PTL
=============================================================================
