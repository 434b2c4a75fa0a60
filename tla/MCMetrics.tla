----------------------------- MODULE MCMetrics -----------------------------
(* Metrics with an inbound, whose counter starts again with every core and   *)
(* may fail to answer, and an account, whose counter outlives its removal.   *)
EXTENDS Metrics

CONSTANTS in, acc

MCKindOf == [s \in Source |-> IF s = in THEN "inbound" ELSE "account"]
MCMaxBytes == [s \in Source |-> 1]
MCMaxFailures == [s \in Source |-> IF s = in THEN 1 ELSE 0]
=============================================================================
