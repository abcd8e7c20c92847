\* A client that is timed, closed and disconnected around a call.
SPECIFICATION FairSpec
CONSTANTS
    Calls = {c1}
    Timeouts <- FractionalTimeouts
    Second <- TicksPerSecond
    Horizon = 12
INVARIANTS
    TypeOK
    CallsFollowConnection
    PendingCallsKeepChannel
    WaitsWholeSeconds
PROPERTIES
    ConstructionEnds
\* The clock stops at the horizon and every call is made once: the program may stop.
CHECK_DEADLOCK FALSE
