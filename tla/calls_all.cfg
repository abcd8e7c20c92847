\* All fifteen handlers, one after the other, with result objects new, reused or missing.
SPECIFICATION FairSpec
CONSTANTS
    Threads = {t1}
    Calls = {c1, c2}
    Operations = {"createDatabase", "listDatabases", "dropDatabase", "createCollection",
                  "listCollections", "describeCollection", "truncateCollection",
                  "dropCollection", "upsert", "query", "dele", "update", "search",
                  "count", "rebuildIndex"}
    NoCall = NoCall
INVARIANTS
    TypeOK
    TruthfulResult
    OneAnswerUnlessSearch
PROPERTIES
    EveryCallReturns
\* The calls are used up, or the process has died: the program may stop.
CHECK_DEADLOCK FALSE
