\* A call with the default result kills the process.
SPECIFICATION Spec
CONSTANTS
    Threads = {t1}
    Calls = {c1, c2}
    Operations = {"createCollection"}
    NoCall = NoCall
SYMMETRY Symmetry
INVARIANTS
    OptionalResultReturns
\* The calls are used up, or the process has died: the program may stop.
CHECK_DEADLOCK FALSE
