SPECIFICATION FairSpec
CONSTANTS
    SKey = {"singbox:a", "trusttunnel:b"}
    g1 = g1
    g2 = g2
    Group = {g1, g2}
    FullConfig <- MCFullConfig
    NoGroup = NoGroup
    NoFull = NoFull
    NoFile = NoFile
    Torn = Torn
    Tag = {"main"}
    s1 = s1
    Settings = {s1}
    a1 = a1
    Id = {a1}
    k1 = k1
    k2 = k2
    Token = {k1, k2}
    NoToken = NoToken
    r1 = r1
    Routing = {r1}
    Config <- MCConfig
    NoConfig = NoConfig
INVARIANTS
    AckedIsServed
    DiskWasSettled
    ServedIsKnown

    
    
