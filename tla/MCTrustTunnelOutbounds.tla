----------------------- MODULE MCTrustTunnelOutbounds -----------------------
(* Two outbounds with a port each, two configurations of each, and four      *)
(* client processes: two recorded, one pending and one dying at a time.      *)
EXTENDS TrustTunnelOutbounds, TLC

MCPortOf == [t \in Tag |-> t]

\* No definition tells one client, or one signature, from another.
Interchangeable == Permutations(Client) \cup Permutations(Sig)
=============================================================================
