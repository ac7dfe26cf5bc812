SPECIFICATION FairSpec
CONSTANTS
    p1 = p1
    p2 = p2
    Processes <- MCProcess
    CycleOf <- MCOneCycle
    Cost <- MCUnitCost
    Refusable <- MCAll
    Routed <- MCAll
    Cohort <- MCAll
    Count = 2
    Cash = 1
    Slots = 2
    BatchLimit = 2
    MaxAttempts = 9
    MaxFaults = 2
 
PROPERTY EveryIntentEnds
