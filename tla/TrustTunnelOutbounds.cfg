SPECIFICATION OutboundsSpec
CONSTANTS
    Tag = {1, 2}
    Sig = {s1, s2}
    Port = {1, 2}
    PortOf <- MCPortOf
    Client = {c1, c2, c3, c4}
    NoClient = NoClient
SYMMETRY Interchangeable
INVARIANTS
    SyncLeavesDesired
    ServedUnlessRaced
PROPERTY
    KillsOnlyReplaced
