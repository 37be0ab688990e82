SPECIFICATION Spec
CONSTANTS
    Miners = {alice, bob}
    Schemes = {"PPLNS", "PPLNSBF", "PROP", "SOLO"}
    Scores = {2}
    Window = 5
    FinderPercent = 10
    BlockReward = 50
    PageSize = 2
    DistinctTimes = FALSE
    SkipsBlocks = TRUE
    MayStop = TRUE
    MaxShares = 3
    MaxBlocks = 2
SYMMETRY Symmetry
CHECK_DEADLOCK FALSE
INVARIANT NeverOverDistributed
INVARIANT OnlyTiesAreMissed
