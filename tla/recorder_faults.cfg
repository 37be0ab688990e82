SPECIFICATION FairSpec
CONSTANTS
    s1 = s1
    s2 = s2
    s3 = s3
    Shares = {s1, s2, s3}
    BlockCandidates = {s1}
    BatchSize = 2
    ImportSize = 2
    RetryCount = 3
    BreakAfter = 2
    AmbiguousCommits = TRUE
    FileMayFail = TRUE
    MayThrow = TRUE
    MayEnd = TRUE
    MaxRecoveries = 1
CHECK_DEADLOCK FALSE
INVARIANTS
    TypeOK
    NothingLost
    StoredOnce
    ReportIsTrue
PROPERTIES
    NoAttemptWhileOpen
    EventuallyDurable
