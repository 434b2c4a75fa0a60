SPECIFICATION Spec
CONSTANTS
    t1 = t1
    s1 = s1
    s2 = s2
    Group <- MCGroup
    GroupSets <- MCGroupSets
    Token = {t1}
    Service = {s1, s2}
    Entry <- MCEntry
    Job = {j1, j2}
    Configs <- MCConfigs
    StoredAccounts <- MCStoredAccounts
    StoredNodes <- MCStoredNodes
    StoredDrafts <- MCStoredDrafts
    StoredRegistries <- MCStoredRegistries
    MaxAccounts = 2
    MaxNodes = 2
    MaxChanges = 2
    MaxDeploys = 2
    MaxFaults = 1
INVARIANTS   DeployedIsServed
PROPERTY RestoreRepublishes
SYMMETRY MCSymmetry
CHECK_DEADLOCK FALSE
