SPECIFICATION FairSpec
CONSTANTS
    Proc = {q1, q2, q3}
    NoProc = NoProc
    MaxGen = 6
PROPERTY CrashIsRestarted
CHECK_DEADLOCK FALSE
