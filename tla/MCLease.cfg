SPECIFICATION FairSpec
CONSTANTS
    w1 = w1
    w2 = w2
    Nobody = Nobody
    Workers <- MCWorkers
    Offset <- MCOffset
    TTL = 6
    Timeout = 2
    Slack = 2
    BaseBackoff = 1
    MaxBackoff = 3
    EscalateAfter = 3
    MaxAttempts = 3
    MaxFaults = 1
    MaxMoves = 1
INVARIANT ExclusiveRecovery
PROPERTY ScheduleSurvives
PROPERTY RecoveryGoesOn
CHECK_DEADLOCK FALSE
