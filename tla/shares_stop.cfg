SPECIFICATION Spec
CONSTANTS
    Miners = {alice, bob}
    Schemes = {"PPLNS"}
    Scores = {1}
    Window = 3
    FinderPercent = 0
    BlockReward = 60
    PageSize = 2
    DistinctTimes = TRUE
    SkipsBlocks = FALSE
    MayStop = TRUE
    MaxShares = 3
    MaxBlocks = 1
SYMMETRY Symmetry
CHECK_DEADLOCK FALSE
INVARIANT DistributionIsExact
