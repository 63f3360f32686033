CONSTANTS
    MaxSlot = 4
    MaxMailbox = 4
    MaxRequests = 4
    MaxTime = 3
    MismatchLimit = 2
    RestartThreshold = 2
    RestartTimeWindow = 2
    Faults <- CallFaults
SPECIFICATION FairSpec
INVARIANTS
    TypeOK
    BreakerTrips
    NothingPastRestartPoint
    ResumesBehindIndexed
PROPERTY EventuallyCaughtUp
CHECK_DEADLOCK FALSE
