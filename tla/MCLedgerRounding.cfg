SPECIFICATION Spec
CONSTANTS
    o1 = o1  o2 = o2  o3 = o3
    yes = yes
    l1 = l1
    f1 = f1  f2 = f2  f3 = f3
    Orders <- MCBuys
    Tokens <- MCTokens
    Lots <- MCLots
    Fills <- MCFills
    Intent <- LargeBuy
    Trade <- UnevenTrades
    InitialCash <- MCCash
    InitialLot <- MCInitialLot
    LotToken <- MCLotToken
    InitialShares <- MCInitialShares
    Reported <- MCReported
INVARIANT CancelledIsReleasable
CHECK_DEADLOCK FALSE
