SPECIFICATION SpecNoRetry
CONSTANTS
    Proc = {q1, q2, q3, q4}
    NoProc = NoProc
    MaxGen = 7
INVARIANT NoOrphan
PROPERTIES ExitedIsNoticed ImplementsSlot
CHECK_DEADLOCK FALSE
