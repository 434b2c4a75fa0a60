--------------------------- MODULE MCAcmeManager ---------------------------
(* AcmeManager with one declaration and its change (of CA), and enough       *)
(* timers for two renewals under way beside a pending one.                   *)
EXTENDS AcmeManager

CONSTANTS e1, e2, ca1, ca2

MCCaOf == [e \in Entry |-> IF e = e1 THEN ca1 ELSE ca2]
=============================================================================
