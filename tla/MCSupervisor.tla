--------------------------- MODULE MCSupervisor ----------------------------
(* Supervisor on four children: two reloads and a crash can all be in flight *)
(* at once, and a late monitor can meet the child after next.               *)
EXTENDS Supervisor

=============================================================================
