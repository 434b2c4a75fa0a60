SPECIFICATION Spec
CONSTANTS
    Text <- MCText
    Trimmed <- MCTrimmed
    Account <- MCAccount
    Typed <- MCTyped
    Loaded <- MCLoaded
    MaxEdits = 2
    MaxJobs = 2
INVARIANTS
    PopupIsCurrent
    UnroutableIsBlocked
    
PROPERTIES
    IssuedStaysIssued
    InboundsKeepTheirCertificate
\* A user may stop editing at any point.
CHECK_DEADLOCK FALSE
