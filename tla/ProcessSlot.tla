---------------------------- MODULE ProcessSlot -----------------------------
(***************************************************************************)
(* What an engine may rely on from supervisedProcess                       *)
(* (node/internal/engine/subprocess.go), and no more: the slot holds the   *)
(* child that serves, if any.  Only a call of the engine -- each call      *)
(* opens a new epoch -- can put a child there; between calls the slot can  *)
(* only become empty.  In particular nothing is restarted behind the       *)
(* engine's back, after a stop or after a crash.                           *)
(***************************************************************************)
EXTENDS Naturals

CONSTANTS Proc, NoProc

VARIABLES serving, epoch

slotVars == <<serving, epoch>>

Init ==
    /\ serving = NoProc
    /\ epoch = 0

\* restart or stop: the new occupant is a child never used before, or none.
Call ==
    /\ epoch' \in Nat
    /\ epoch' > epoch
    /\ serving' \in (Proc \ {serving}) \cup {NoProc}

\* The child dies.
Die ==
    /\ serving # NoProc
    /\ serving' = NoProc
    /\ UNCHANGED epoch

Next == Call \/ Die

Spec == Init /\ [][Next]_slotVars
=============================================================================
