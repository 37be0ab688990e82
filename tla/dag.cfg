SPECIFICATION Spec
CONSTANTS
    c1 = c1
    c2 = c2
    Conns = {c1, c2}
    Warm = 2
    MaxEpoch = 3
    Copies = 2
    MaxFaults = 1
    NumCaches = 3
    DagSize = 2
SYMMETRY Symmetry
INVARIANTS
    TypeOK
    MagicMeansComplete
    HandleAlive
    CompleteDag
    OneWriter
    HandlesAreFound
