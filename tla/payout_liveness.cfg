SPECIFICATION FairSpec
CONSTANTS
    Blocks = {1, 2}
    Miners = {"m1"}
    Recipients = {}
    PoolAddress = "pool"
    Percentage <- MCPercentage
    Reward <- MCRewardLiveness
    MinimumPayment = 2
    Thresholds = {1}
    Unit = 2
    BrokenSendMany = FALSE
    Encrypted = TRUE
    WalletPassword = TRUE
    Stuck = {1}
    RetryCount = 1
    MaxLost = 1
    MaxDup = 0
    MaxCrashes = 1
PROPERTIES
    ImplementsLedger
    EveryBlockSettles
    EveryBalanceIsPaid
