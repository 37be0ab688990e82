SPECIFICATION Spec
CONSTANTS
    Miners = {alice, bob}
    Schemes = {"PPLNS", "PPLNSBF", "PROP", "SOLO"}
    Scores = {1, 2}
    Window = 3
    FinderPercent = 10
    BlockReward = 2520
    PageSize = 2
    DistinctTimes = TRUE
    SkipsBlocks = FALSE
    MayStop = FALSE
    MaxShares = 4
    MaxBlocks = 3
SYMMETRY Symmetry
CHECK_DEADLOCK FALSE
INVARIANT TypeOK
INVARIANT DistributionIsExact
INVARIANT PendingSharesKept
INVARIANT SchemeNeverThrows
INVARIANT WholeRewardPaid
INVARIANT NoShareLost
