CONSTANTS
    MaxHeight = 3
    MaxForks = 1
    MaxTxs = 2
    MaxMailbox = 4
    NULL = NULL
    TxExpiration = 1
    MismatchLimit = 2
    Finality = 2
    MaxCrashes = 1
    Faults <- EarlyFaults
SPECIFICATION Spec
INVARIANTS
    ResumeLosesNothing
CHECK_DEADLOCK FALSE
