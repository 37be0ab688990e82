SPECIFICATION Spec
CONSTANTS
    Miners = {alice, bob}
    Schemes = {"PROP"}
    Scores = {1}
    Window = 3
    FinderPercent = 0
    BlockReward = 60
    PageSize = 2
    DistinctTimes = TRUE
    SkipsBlocks = FALSE
    MayStop = FALSE
    MaxShares = 3
    MaxBlocks = 2
SYMMETRY Symmetry
CHECK_DEADLOCK FALSE
INVARIANT OneRoundPerShare
