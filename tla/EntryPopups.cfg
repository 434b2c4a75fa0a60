SPECIFICATION Spec
CONSTANTS
    Certificate <- MCCertificate
    Pem <- MCPem
    Tunable = {"NAIVEPROXY", "CUSTOM"}
    MaxPeers = 2
    MaxAccounts = 2
    MaxOpened = 2
INVARIANTS
    SavedInboundIsSupported
    SavedInboundHasCertificate
    
    AccountsAreKept
    TextsAreKept
\* A user may leave the popups closed.
CHECK_DEADLOCK FALSE
