------------------------- MODULE MCXrayCertificates -------------------------
\* XrayCertificates with two inbounds and two users. The first inbound's settings
\* refer to the first certificate, or to both; the first name is declared, or not,
\* in every way (blank, when the second is missing), the second as one content or not.
EXTENDS XrayCertificates

CONSTANTS s1, s2, a1, a2, k1, k2, r1, r2, n1, n2, p1, p2

Users(x, y) == [i \in Id |-> IF i = a1 THEN x ELSE y]

In(kind, settings, users) == [kind |-> kind, settings |-> settings, accounts |-> users]

Cfg(in1, in2, routing) ==
    [inbounds |-> [t \in Tag |-> IF t = "main" THEN in1 ELSE in2], routing |-> routing]

Solo(in1, routing) == [inbounds |-> [t \in {"main"} |-> in1], routing |-> routing]

MCConfig ==
    {Cfg(In("edited", s1, u), In("built", s1, u), r1) :
        u \in {Users(k1, NoToken), Users(k2, k1)}}
    \cup {Cfg(In("edited", s1, Users(k1, NoToken)), In("built", s1, Users(k1, NoToken)), r2),
          Solo(In("edited", s2, Users(k2, NoToken)), r1),
          Cfg(In("edited", s1, Users(k1, k1)), In("wireguard", s1, Users(k1, k1)), r1),
          Cfg(In("edited", s1, Users(k1, k1)), In("refused", s1, Users(k1, k1)), r1)}

MCRefers == [s \in Settings |-> IF s = s1 THEN {n1} ELSE {n1, n2}]

Named(c1, c2) == [n \in Name |-> IF n = n1 THEN c1 ELSE c2]

MCDeclarations ==
    {Named(c1, c2) : c1 \in {Store!Custom(p1), Store!Custom(p2), Store!Acme, NoCert},
                     c2 \in {Store!Custom(p1), NoCert}}
    \cup {Named(Store!Custom(NoPem), NoCert)}
=============================================================================
