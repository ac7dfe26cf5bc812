SPECIFICATION TradingSpec
CONSTANTS
    \* execution of an order
    Workers = {w1, w2}
    Size = 1
    Kind = "GTC"
    Expiring = TRUE
    MaxReconcile = 2
    MaxFaults = 1
    Retires = TRUE
    SlowScan = FALSE
    \* heartbeat session
    Interval = 2
    CallTimeout = 2
    StaleAfter = 4
    DeadMan = 5
    StartAttempts = 2
    Burst = 2
    MaxTurns = 1
    \* fees
    Rates = {0, 90}
    CapRate = 100
    FeeTTL = 1
    Sizes = {1, 3}
    Grosses <- MCGrosses
    \* decision cycle
    BindingOrder <- MCBindingOrder
    VenueOf <- MCVenueOf
    ModelOf <- MCModelOf
    TokenVenue <- MCTokenVenue
    PredictionViews <- MCPredictionViews
    LotViews <- MCLotViews
    BookViews <- MCBookViews
    Configurations <- MCConfigurations
    MaxCycleAttempts = 2
SYMMETRY MCSym
VIEW MCView
INVARIANT AtMostOnePlacement
INVARIANT LedgerFollowsVenue
PROPERTY HistoryIsOneWay
INVARIANT OpenGateHasLiveSession
INVARIANT RefusalIsFinal
INVARIANT FeesFitTheReserve
INVARIANT OneDecisionOfItsOwn
CHECK_DEADLOCK FALSE
