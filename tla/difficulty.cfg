SPECIFICATION Spec
CONSTANTS
    Diffs = {1, 2}
    PortDiff = 1
    QueueCapacity = 1
INVARIANTS
    TypeOK
    CreditIsMet
    FairShareAccepted
    MinerInStep
