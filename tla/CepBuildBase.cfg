CONSTANTS
    MaxHeight = 3
    MaxForks = 1
    MaxTxs = 3
    MaxMailbox = 4
    NULL = NULL
    TxExpiration = 1
    MismatchLimit = 2
    Finality = 2
    MaxCrashes = 0
    Faults <- NoFaults
SPECIFICATION Spec
INVARIANTS
    BuildsOnItsInput
CHECK_DEADLOCK FALSE
