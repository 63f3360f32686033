CONSTANTS
    MaxHeight = 6
    MaxForks = 0
    MaxTxs = 2
    MaxMailbox = 2
    NULL = NULL
    TxExpiration = 0
    MismatchLimit = 2
    Finality = 9
    MaxCrashes = 1
    Faults <- NoFaults
SPECIFICATION Spec
INVARIANTS
    IndexedWhenDrained
CHECK_DEADLOCK FALSE
