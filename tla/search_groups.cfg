\* search appends to the groups of an earlier search.
SPECIFICATION Spec
CONSTANTS
    Threads = {t1}
    Calls = {c1, c2}
    Operations = {"search"}
    NoCall = NoCall
SYMMETRY Symmetry
INVARIANTS
    SearchGroupsMatchRequest
\* The calls are used up, or the process has died: the program may stop.
CHECK_DEADLOCK FALSE
