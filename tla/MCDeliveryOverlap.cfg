SPECIFICATION WorkersSpec
CONSTANTS
    \* delivery of intents
    p1 = p1
    p2 = p2
    Processes <- MCProcesses
    CycleOf <- MCOneCycle
    Cost <- MCUnitCost
    Refusable <- MCNone
    Routed <- MCAll
    Cohort <- MCAll
    Count = 1
    Cash = 1
    Slots = 2
    BatchLimit = 2
    MaxAttempts = 3
    MaxFaults = 2
    \* reconciliation run
    Reconcilers = {p1, p2}
    BuyOrders = {b}
    SellOrders = {}
    OrderSize = 2
    SettledShares = 2
    Baseline = 1
    DustLimit = 1
    MaxForeign = 1
    MaxMoves = 2
    MaxRuns = 2
    MaxReconFaults = 1
    \* chain cash
    buy = buy
    mint = mint
    Syncs = {p1, p2}
    Transfers = {buy, mint}
    Shape <- MCShape
    OwnMints = {mint}
    Confirmations = 1
    MaxBlocksPerRun = 1
    MaxHeight = 4
    MaxReorgs = 1
    MaxTransfers = 2
    \* Kalshi venue
    Tickets <- MCTickets
    Par = 4
    MaxCalls = 3
    \* outbox
    Events = {e1, e2}
    Dispatchers = {p1, p2}
    BatchSize = 2
    ClaimLease = 2
    BaseBackoff = 1
    MaxBackoff = 3
    MaxClaims = 2
    MaxHalts = 1
    \* reports to the strategy
    Tracked = {o1, o2}
    ReportedSize = 1
    Lookback = 0
    ScanLimit = 2
    ReportBatch = 1
    DirectAttempts = 2
    MaxRevisions = 8
    MaxReportTime = 1
    MaxReportFaults = 1
SYMMETRY MCSym
VIEW MCView
INVARIANT OneClaimDecides
PROPERTY CompletionIsFinal
 
 
INVARIANT KalshiReportsAreTrue
INVARIANT NoEventIsLost
 
