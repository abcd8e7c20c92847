\* Two threads add to one filter, from either constructor, while a request copies it.
SPECIFICATION FairSpec
CONSTANTS
    Additions = {a1, a2}
    Requests = {r1}
    Constructor = Constructor
    NoAddition = NoAddition
    Torn = Torn
INVARIANTS
    TypeOK
    NoClauseLost
    OneHead
    CallOrder
    WholeCopy
PROPERTIES
    ImplementsFilterLog
    EveryAdditionReturns
\* Every call and every request happens once: the program may stop.
CHECK_DEADLOCK FALSE
