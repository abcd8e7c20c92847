\* A call after closeConnection is answered.
SPECIFICATION Spec
CONSTANTS
    Calls = {c1}
    Timeouts <- FractionalTimeouts
    Second <- TicksPerSecond
    Horizon = 5
INVARIANTS
    NoAnswerAfterClose
\* The clock stops at the horizon and every call is made once: the program may stop.
CHECK_DEADLOCK FALSE
