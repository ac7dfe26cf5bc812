SPECIFICATION BooksSpec
CONSTANTS
    \* redemptions
    c1 = c1
    c2 = c2
    a1 = a1
    s1 = s1
    Wallets <- MCWallets
    WalletOf <- MCWalletOf
    Due <- MCDue
    Conditions <- MCOne
    Sweepers <- MCSweeper
    MaxSubmitAttempts = 2
    DeadlineBinds = TRUE
    PromptFeed = TRUE
    Disturbances <- MCOne
    MaxFaults = 2
    MaxAttempts = 9
    \* fill evidence
    RpcNodes = {n1, n2}
    RequiredDepth = 4
    ToleratedLag = 1
    NodeLag = 2
    ReorgDepth = 1
    MaxBlocks = 6
    MaxInclusions = 2
    WireRows <- MCWireRows
    \* Kalshi books
    YES = YES
    NO = NO
    Sides <- MCSides
    MaxTrades = 3
    TradeSizes = {1}
    TradePrices = {1}
    Dollar = 3
    OpeningCash = 2
    MaxEvents = 2
    MaxOpen = 2
    PositionCheck = TRUE
    \* live startup
    w1 = w1
    k1 = k1
    g1 = g1
    g2 = g2
    PolyAccounts = {w1}
    KalshiAccounts = {k1}
    Strategies = {g1, g2}
    RouteStrategy <- MCRouteStrategy
    LegacyOf <- MCLegacy
    MaxStartupFaults = 2
    MaxStarts = 2
    \* queues and clocks
    Accounts = {a1}
    BufferSize = 1
    RequestSize = 1
    SweepInterval = 2
    AccountTimeout = 1
    DecisionInterval = 2
    StartupDelay = 1
    MaxStartLateness = 1
    CycleTimeout = 1
    DecisionLead = 1
    MaxDecisionDefer = 1
    MaxHints = 2
    MaxRestarts = 1
    MaxTime = 3
SYMMETRY MCSym
VIEW MCView
INVARIANT RedeemedOnce
PROPERTY ConfirmedIsNeverAbandoned
INVARIANT BookedStaysOnChain
INVARIANT KalshiBooksExplained
 
INVARIANT RunsAreKept
CHECK_DEADLOCK FALSE
