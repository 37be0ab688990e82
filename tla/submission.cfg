SPECIFICATION Spec
CONSTANTS
    w1 = w1
    w2 = w2
    Workers = {w1, w2}
    Texts = {"text1", "text2"}
    Means <- MCMeans
    Nonces = {"plain", "block"}
    BlockNonces = {"block"}
    ExtraNonces = {0}
    MaxActiveJobs = 1
    MaxHeight = 2
    MaxJobs = 2
    MaxShares = 2
    MaxFaults = 1
SYMMETRY Symmetry
INVARIANTS
    TypeOK
    ValidSharesCounted
    AcceptedIsRecorded
PROPERTY
    ImplementsBook
