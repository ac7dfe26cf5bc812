SPECIFICATION Spec
CONSTANTS
    p1 = p1
    p2 = p2
    Processes <- MCProcess
    CycleOf <- MCOneCycle
    Cost <- MCUnitCost
    Refusable <- MCSecond
    Routed <- MCAll
    Cohort <- MCAll
    Count = 3
    Cash = 1
    Slots = 2
    BatchLimit = 3
    MaxAttempts = 9
    MaxFaults = 0
PROPERTY RankedFirst
