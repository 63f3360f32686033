CONSTANTS
    MaxHeight = 4
    MaxForks = 0
    MaxTxs = 2
    MaxMailbox = 4
    NULL = NULL
    TxExpiration = 1
    MismatchLimit = 1
    Finality = 2
    MaxCrashes = 0
    Faults <- LateFaults
SPECIFICATION Spec
INVARIANTS
    TablesInOrder
CHECK_DEADLOCK FALSE
