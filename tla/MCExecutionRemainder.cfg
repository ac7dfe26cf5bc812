SPECIFICATION FairSpec
CONSTANTS
    Workers = {w1}
    Size = 2
    Kind = "EMULATED"
    Expiring = FALSE
    MaxReconcile = 2
    MaxFaults = 1
    Retires = FALSE
    SlowScan = FALSE
PROPERTY RemainderIsCancelled
CHECK_DEADLOCK FALSE
