\* Two threads, three calls: strong and weak readers, a writer, late requests.
SPECIFICATION Spec
CONSTANTS
    Threads = {t1, t2}
    Calls = {c1, c2, c3}
    Operations = {"upsert", "query", "search", "rebuildIndex"}
    NoCall = NoCall
SYMMETRY Symmetry
INVARIANTS
    AcknowledgedOnce
    RealTimeOrder
    StrongReads
    DataIsAcknowledged
PROPERTIES
    ImplementsRemoteCall
\* The calls are used up, or the process has died: the program may stop.
CHECK_DEADLOCK FALSE
