\* A call after setTimeout has the deadline of its own default.
SPECIFICATION Spec
CONSTANTS
    Calls = {c1}
    Timeouts <- FractionalTimeouts
    Second <- TicksPerSecond
    Horizon = 5
INVARIANTS
    SetTimeoutGovernsCalls
\* The clock stops at the horizon and every call is made once: the program may stop.
CHECK_DEADLOCK FALSE
