----------------------------- MODULE Supervisor -----------------------------
(***************************************************************************)
(* supervisedProcess (node/internal/engine/subprocess.go): one child       *)
(* process -- a sing-box core, a TrustTunnel endpoint or a TrustTunnel     *)
(* client -- started, killed and watched by goroutines that share the      *)
(* struct under its mutex.                                                 *)
(*                                                                         *)
(* Every critical section of the mutex is one action.  Outside the mutex   *)
(* run the child itself (it can exit at any time), the monitorProcess      *)
(* goroutine of every started child, and the 500 ms time.AfterFunc         *)
(* callbacks those goroutines may arm.                                     *)
(***************************************************************************)
EXTENDS Naturals

CONSTANTS
    Proc,      \* child processes: one value per successful exec
    NoProc,    \* the nil *exec.Cmd
    MaxGen     \* bound on the generation counter (a uint64 in the code)

ASSUME NoProcAssumption == NoProc \notin Proc
ASSUME MaxGenAssumption == MaxGen \in Nat

VARIABLES
    cmd,         \* p.cmd
    stopping,    \* p.stopping
    generation,  \* p.generation
    hasCommand,  \* p.lastCommand is set
    child,       \* child[q]: what the operating system knows of q
    monitor,     \* monitor[q]: generation captured by q's monitorProcess
    armed        \* generations captured by the pending AfterFunc callbacks

vars == <<cmd, stopping, generation, hasCommand, child, monitor, armed>>

(***************************************************************************)
(* A child is "unborn" before exec, "running", "killed" once SIGKILL has   *)
(* been sent but it has not exited, "exited" when only Wait is left to     *)
(* collect it, and "reaped" when its monitorProcess has returned.          *)
(***************************************************************************)
ChildState == {"unborn", "running", "killed", "exited", "reaped"}

TypeOK ==
    /\ cmd \in Proc \cup {NoProc}
    /\ stopping \in BOOLEAN
    /\ generation \in Nat
    /\ hasCommand \in BOOLEAN
    /\ child \in [Proc -> ChildState]
    /\ monitor \in [Proc -> Nat]
    /\ armed \in SUBSET Nat

Init ==  \* newSupervisedProcess
    /\ cmd = NoProc
    /\ stopping = FALSE
    /\ generation = 0
    /\ hasCommand = FALSE
    /\ child = [q \in Proc |-> "unborn"]
    /\ monitor = [q \in Proc |-> 0]
    /\ armed = {}

-----------------------------------------------------------------------------
(***************************************************************************)
(* Slips: how the definitions below could plausibly have been got wrong.   *)
(* None is used by the specification; each breaks one of the properties.   *)
(***************************************************************************)
NotBumped(n) == generation
CmdAlwaysCleared(q) == NoProc
CmdNeverCleared(q) == cmd

-----------------------------------------------------------------------------
(***************************************************************************)
(* Helpers run with the mutex held.                                        *)
(***************************************************************************)

\* stopLocked: what the kill does to the children.
Killed(children) ==
    IF cmd # NoProc /\ children[cmd] = "running"
    THEN [children EXCEPT ![cmd] = "killed"]
    ELSE children

\* startLocked, the child q having been forked; monitorProcess starts with
\* the generation current at that moment.
StartLocked(q, children, gen) ==
    /\ children[q] = "unborn"
    /\ child' = [children EXCEPT ![q] = "running"]
    /\ cmd' = q
    /\ monitor' = [monitor EXCEPT ![q] = gen]
    /\ hasCommand' = TRUE

\* p.generation++, n times.
Bumped(n) == generation + n

\* p.cmd after monitorProcess has collected q: cleared only if still q's.
CmdAfterReap(q) == IF cmd = q THEN NoProc ELSE cmd

\* The test both monitorProcess and the AfterFunc callback make: a stop or a
\* reload has happened since generation gen was captured.
Superseded(gen) == stopping \/ gen # generation

-----------------------------------------------------------------------------
(***************************************************************************)
(* The engine's calls.                                                     *)
(***************************************************************************)

\* restart: clear stopping, bump, stopLocked (which sets stopping and bumps
\* again), then startLocked, which may fail at the pipes or at exec.
Restart ==
    /\ generation + 2 <= MaxGen
    /\ stopping' = TRUE
    /\ generation' = Bumped(2)
    /\ UNCHANGED armed
    /\ \/ \E q \in Proc : StartLocked(q, Killed(child), Bumped(2))
       \/ /\ child' = Killed(child)
          /\ cmd' = NoProc
          /\ UNCHANGED <<monitor, hasCommand>>

\* stop
Stop ==
    /\ generation + 1 <= MaxGen
    /\ stopping' = TRUE
    /\ generation' = Bumped(1)
    /\ child' = Killed(child)
    /\ cmd' = NoProc
    /\ UNCHANGED <<hasCommand, monitor, armed>>

(***************************************************************************)
(* The environment: a child exits, by itself or because it was killed.     *)
(***************************************************************************)
Exit(q) ==
    /\ child[q] \in {"running", "killed"}
    /\ child' = [child EXCEPT ![q] = "exited"]
    /\ UNCHANGED <<cmd, stopping, generation, hasCommand, monitor, armed>>

(***************************************************************************)
(* The goroutines.                                                         *)
(***************************************************************************)

\* monitorProcess after Wait has returned.
Monitor(q) ==
    /\ child[q] = "exited"
    /\ child' = [child EXCEPT ![q] = "reaped"]
    /\ cmd' = CmdAfterReap(q)
    /\ armed' = IF Superseded(monitor[q]) \/ ~hasCommand
                THEN armed
                ELSE armed \cup {monitor[q]}
    /\ UNCHANGED <<stopping, generation, hasCommand, monitor>>

\* The AfterFunc callback: give up if superseded or something runs, else
\* startLocked once with the current generation; a failure is only logged.
Retry(gen) ==
    /\ gen \in armed
    /\ armed' = armed \ {gen}
    /\ UNCHANGED <<stopping, generation>>
    /\ \/ /\ Superseded(gen) \/ cmd # NoProc
          /\ UNCHANGED <<cmd, hasCommand, child, monitor>>
       \/ /\ ~Superseded(gen) /\ cmd = NoProc
          /\ \/ \E q \in Proc : StartLocked(q, child, generation)
             \/ UNCHANGED <<cmd, hasCommand, child, monitor>>

-----------------------------------------------------------------------------
\* Everything but the AfterFunc callback.
NextNoRetry ==
    \/ Restart
    \/ Stop
    \/ \E q \in Proc : Exit(q) \/ Monitor(q)

Next ==
    \/ NextNoRetry
    \/ \E gen \in armed : Retry(gen)

(***************************************************************************)
(* The goroutines are scheduled: Wait returns for every exited child, a    *)
(* killed child exits, a timer fires.  Calls and crashes need not happen.  *)
(***************************************************************************)
Fairness ==
    /\ \A q \in Proc : /\ WF_vars(Monitor(q))
                       /\ WF_vars(child[q] = "killed" /\ Exit(q))
    /\ WF_vars(\E gen \in armed : Retry(gen))

Spec == Init /\ [][Next]_vars
FairSpec == Spec /\ Fairness
SpecNoRetry == Init /\ [][NextNoRetry]_vars /\ Fairness

-----------------------------------------------------------------------------
(***************************************************************************)
(* Properties.                                                             *)
(***************************************************************************)

\* No orphans: a child that runs unkilled is the one p.cmd points to, so a
\* later stop() reaches it.  At risk when a late monitorProcess of a replaced
\* child clears p.cmd, or when a reload forgets to kill.
NoOrphan == \A q \in Proc : child[q] = "running" => cmd = q

\* The auto-restart branch of monitorProcess (subprocess.go:83-99) is dead:
\* stopLocked leaves stopping set and startLocked never clears it, so no
\* monitor of a child ever gets past the "exit ignored" return.
RetryNeverArmed == armed = {}

\* A child that has exited does not stay p.cmd for ever: isAlive stops
\* reporting it once its monitor has collected it.
ExitedIsNoticed ==
    \A q \in Proc : (cmd = q /\ child[q] = "exited") ~> cmd # q

\* The slot the engines see: what supervisedProcess implements.
Slot == INSTANCE ProcessSlot WITH
            serving <- IF cmd # NoProc /\ child[cmd] = "running" THEN cmd ELSE NoProc,
            epoch <- generation

\* Between two calls of the engine the slot can only become empty: no
\* goroutine of an old child starts, kills or hides a child.
ImplementsSlot == Slot!Spec

\* What the log line of subprocess.go:83 announces, "process exited ...;
\* restarting": a child that dies by itself is eventually replaced, unless
\* an engine call intervenes (stop, or a reload that fails).
CrashIsRestarted ==
    \A q \in Proc :
        [](( /\ cmd = q
             /\ child[q] = "exited"
             /\ \E r \in Proc : child[r] = "unborn" )
           => <>( \/ \E r \in Proc \ {q} : child[r] = "running"
                  \/ generation # monitor[q] ))
=============================================================================
