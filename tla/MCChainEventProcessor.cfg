CONSTANTS
    MaxHeight = 3
    MaxForks = 1
    MaxTxs = 2
    MaxMailbox = 3
    NULL = NULL
    TxExpiration = 1
    MismatchLimit = 2
    Finality = 2
    MaxCrashes = 1
    Faults <- NoFaults
SPECIFICATION FairSpec
INVARIANTS
    TypeOK
    ResumeLosesNothing
    IndexedWhenDrained
    NeverFails
PROPERTIES
    EventuallyIndexed
CHECK_DEADLOCK FALSE
