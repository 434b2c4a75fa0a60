SPECIFICATION NodeSpec
CONSTANTS
    Tag = {"main", "side"}
    s1 = s1
    s2 = s2
    Settings = {s1, s2}
    a1 = a1
    a2 = a2
    Id = {a1, a2}
    k1 = k1
    k2 = k2
    Token = {k1, k2}
    NoToken = NoToken
    r1 = r1
    r2 = r2
    Routing = {r1, r2}
    Config <- MCConfig
    NoConfig = NoConfig
    n1 = n1
    n2 = n2
    Name = {n1, n2}
    p1 = p1
    p2 = p2
    Pem = {p1, p2}
    NoPem = NoPem
    NoCert = NoCert
    NoFile = NoFile
    Refers <- MCRefers
    Declarations <- MCDeclarations
INVARIANTS ServesDeclared CertificatesWereDeclared
