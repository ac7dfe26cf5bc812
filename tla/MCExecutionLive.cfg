SPECIFICATION FairSpec
CONSTANTS
    Workers = {w1}
    Size = 2
    Kind = "GTC"
    Expiring = TRUE
    MaxReconcile = 2
    MaxFaults = 2
    Retires = FALSE
    SlowScan = FALSE
 
PROPERTY EventuallySettled
CHECK_DEADLOCK FALSE
