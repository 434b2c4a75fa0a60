---------------------------- MODULE MCNodeManager ----------------------------
(* A node with up to one xray engine and two engines with children, and three *)
(* configurations, between which users are edited, groups change and every   *)
(* engine comes and goes.                                                    *)
EXTENDS NodeManager

CONSTANTS s1, a1, k1, k2, r1, g1, g2

X(token) ==
    [inbounds |-> [t \in Tag |-> [kind |-> "edited", settings |-> s1,
                                  accounts |-> [i \in Id |-> token]]],
     routing |-> r1]

MCConfig == {X(k1), X(k2)}

Full(x, keys, g) == [xray |-> x, slots |-> [k \in keys |-> g]]

MCFullConfig ==
    {Full(X(k1), {"singbox:a"}, g1),
     Full(X(k2), SKey, g2),
     Full(NoConfig, {"trusttunnel:b"}, g1)}
=============================================================================
