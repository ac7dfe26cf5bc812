SPECIFICATION FairSpec
CONSTANTS
    c1 = c1
    c2 = c2
    a1 = a1
    s1 = s1
    Wallets <- MCWallets
    WalletOf <- MCWalletOf
    Due <- MCDue
    Conditions <- MCTwo
    Sweepers <- MCSweeper
    MaxSubmitAttempts = 1
    DeadlineBinds = FALSE
    PromptFeed = FALSE
    Disturbances <- MCNone
    MaxFaults = 0
    MaxAttempts = 9
INVARIANT OneInFlightPerWallet
PROPERTY EveryRedemptionEnds
CHECK_DEADLOCK FALSE
