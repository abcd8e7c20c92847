\* Three calls on two documents, with arguments of every kind.
SPECIFICATION Spec
CONSTANTS
    Calls = {c1, c2, c3}
    d1 = d1
    d2 = d2
    key = key
    red = red
    seven = seven
    vector = vector
    Ids = {d1, d2}
    Keys = {key}
    EmptyString = EmptyString
    Strings = {red, EmptyString}
    Numbers = {seven}
    Vectors = {vector}
    None = None
    Arrays <- SomeArrays
    Arguments <- SomeArguments
    Width = 4
    Half = 2
SYMMETRY Symmetry
INVARIANTS
    TypeOK
    ReadsLastWrite
    NothingInvented
    AnswersOneVersion
    AnswersWithinLimits
    AffectedCountIsExact
PROPERTIES
    ImplementsDocumentStore
\* The calls are used up: the program may stop.
CHECK_DEADLOCK FALSE
