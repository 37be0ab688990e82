SPECIFICATION Spec
CONSTANTS
    Blocks = {1, 2}
    Miners = {"m1"}
    Recipients = {"r1", "pool"}
    PoolAddress = "pool"
    Percentage <- MCPercentage
    Reward <- MCReward
    MinimumPayment = 4
    Thresholds = {1, 5}
    Unit = 2
    BrokenSendMany = FALSE
    Encrypted = TRUE
    WalletPassword = TRUE
    Stuck = {}
    RetryCount = 1
    MaxLost = 1
    MaxDup = 1
    MaxCrashes = 1
INVARIANTS
    CreditedOnce
    ConfirmedOnlyIfMature
    BooksAgree
    NeverOverdrawn
    BookedOnce
    NoOverpayment
PROPERTIES
    SettledForever
    NoDustTransfer
