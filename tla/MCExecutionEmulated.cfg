SPECIFICATION FairSpec
CONSTANTS
    Workers = {w1}
    Size = 3
    Kind = "EMULATED"
    Expiring = FALSE
    MaxReconcile = 2
    MaxFaults = 0
    Retires = TRUE
    SlowScan = FALSE
PROPERTY RemainderIsCancelled
CHECK_DEADLOCK FALSE
