SPECIFICATION AccountSpec
CONSTANTS
    \* reservations and lots
    o1 = o1  o2 = o2  o3 = o3
    yes = yes
    l1 = l1
    f1 = f1  f2 = f2  f3 = f3
    Orders <- MCOrders
    Tokens <- MCTokens
    Lots <- MCLots
    Fills <- MCFills
    Intent <- TwoBuysAndSell
    Trade <- EvenTrades
    InitialCash <- MCCash
    InitialLot <- MCInitialLot
    LotToken <- MCLotToken
    InitialShares <- MCInitialShares
    Reported <- MCReported
    \* wallet commands
    Processes = {p1, p2}
    EntryCount = 2
    Confirmations = 2
    Quotes = {1}
    MaxForeign = 1
    MaxReorgs = 1
    MaxHeight = 3
    \* position exit
    d1 = d1
    Jobs = {p1, p2}
    LotAccount <- MCLotAccount
    AccountOrder <- MCAccountOrder
    LotSize = 1
    Boundaries = {1, 2}
    Decisions = {d1}
    MaxStarts = 2
    SourceAnswers <- MCAnswers
    \* checks before a placement
    Intents <- MCIntents
    Views <- MCViews
    Guards = {"static", "hard"}
    One = 10
    Share = 4
    SizeStep = 2
    NotionalStep = 1
    MinimumBuyNotional = 20
    FeeReserve = 1
    Balance = 100
    Position = 8
    UniverseAge = 1
    BookAge = 1
    KalshiBookAge = 2
    PriceAge = 1
    SignalAge = 2
    StateAge = 1
    FutureSkew = 0
    MaxTickets = 1
    MaxTime = 2
    MaxChanges = 2
    MaxCrashes = 1
    \* prices
    Hour = 2
    Deployed = 5
    Horizon = 7
    HeldLots <- MCHeldLots
    Markets <- MCMarkets
    MaxSpan = 1
    MaxWindows = 4
    HistoryHands = {p1, p2}
    MaxUpsets = 1
    MaxPriceRuns = 2
    \* monitor
    Watched = {"c1", "c2"}
    Cooldown = 2
    MaxSelected = 2
    MaxRefreshes = 3
    MaxMonitorFaults = 1
SYMMETRY MCSym
VIEW MCView
INVARIANT HoldCoversRemainder
INVARIANT SameDirectionExclusive
 
PROPERTY ReleasedReturnsOnlyByFill
 
INVARIANT WireSizeFillsAtOnce
INVARIANT ExitsFollowTheRecord
PROPERTY PlanIsKept
INVARIANT HistoryIsSound
INVARIANT AlertsAreBacked
CHECK_DEADLOCK FALSE
