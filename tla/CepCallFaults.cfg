CONSTANTS
    MaxHeight = 3
    MaxForks = 1
    MaxTxs = 2
    MaxMailbox = 2
    NULL = NULL
    TxExpiration = 0
    MismatchLimit = 9
    Finality = 4
    MaxCrashes = 1
    Faults <- CallFaults
SPECIFICATION Spec
INVARIANTS
    TablesInOrder
CHECK_DEADLOCK FALSE
