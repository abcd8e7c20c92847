\* query returns 0 without setting success.
SPECIFICATION Spec
CONSTANTS
    Threads = {t1}
    Calls = {c1, c2}
    Operations = {"query"}
    NoCall = NoCall
SYMMETRY Symmetry
INVARIANTS
    SuccessMatchesReturn
\* The calls are used up, or the process has died: the program may stop.
CHECK_DEADLOCK FALSE
