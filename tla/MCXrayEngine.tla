---------------------------- MODULE MCXrayEngine ----------------------------
(* XrayEngine on two inbounds and two accounts: one editable inbound next    *)
(* to one of each other kind, changes of settings, of routing, of users.     *)
EXTENDS XrayEngine

CONSTANTS s1, s2, a1, a2, k1, k2, r1, r2

Users(x, y) == [i \in Id |-> IF i = a1 THEN x ELSE y]

In(kind, settings, users) == [kind |-> kind, settings |-> settings, accounts |-> users]

Cfg(in1, in2, routing) ==
    [inbounds |-> [t \in Tag |-> IF t = "main" THEN in1 ELSE in2], routing |-> routing]

Solo(in1, routing) == [inbounds |-> [t \in {"main"} |-> in1], routing |-> routing]

MCConfig ==
    {Cfg(In("edited", s1, u), In("built", s1, u), r1) :
        u \in {Users(k1, NoToken), Users(k2, k1), Users(NoToken, k1)}}
    \cup {Cfg(In("edited", s1, Users(k1, NoToken)), In("built", s1, Users(k1, NoToken)), r2),
          Solo(In("edited", s1, Users(k1, k1)), r1),
          Solo(In("edited", s2, Users(k2, NoToken)), r1)}
    \cup {Cfg(In("edited", s1, u), In("wireguard", s1, u), r1) :
        u \in {Users(k1, NoToken), Users(k2, k1)}}
    \cup {Cfg(In("edited", s1, Users(k1, k1)), In("refused", s1, Users(k1, k1)), r1)}
=============================================================================
