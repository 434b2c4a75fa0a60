SPECIFICATION FairSpec
CONSTANTS
    Domain = {d1}
    NoDomain = NoDomain
    e1 = e1
    e2 = e2
    Entry = {e1, e2}
    NoEntry = NoEntry
    ca1 = ca1
    ca2 = ca2
    CA = {ca1, ca2}
    CaOf <- MCCaOf
    Timer = {t1, t2, t3}
    NoTimer = NoTimer
    Torn = Torn
INVARIANTS
    OnePendingTimer
    NeverForgotten
    DeclaredUnlessRaced
PROPERTY
    RenewalsGoOn
