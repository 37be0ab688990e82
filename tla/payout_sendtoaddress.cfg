SPECIFICATION Spec
CONSTANTS
    Blocks = {1, 2}
    Miners = {"m1", "m2"}
    Recipients = {"m2"}
    PoolAddress = "pool"
    Percentage <- MCPercentage
    Reward <- MCReward
    MinimumPayment = 3
    Thresholds = {1}
    Unit = 4
    BrokenSendMany = TRUE
    Encrypted = FALSE
    WalletPassword = FALSE
    Stuck = {}
    RetryCount = 1
    MaxLost = 1
    MaxDup = 1
    MaxCrashes = 1
INVARIANTS
    IInv
