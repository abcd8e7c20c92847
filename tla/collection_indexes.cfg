\* Two collections, each with up to one vector and two filter indexes.
SPECIFICATION Spec
CONSTANTS
    Collections = {k1, k2}
    Names = {n1, n2}
    VectorTypes = {"vector", "string"}
    FilterTypes = {"string", "array"}
    MaxVectors = 1
    MaxFilters = 2
    Unknown = Unknown
SYMMETRY Symmetry
INVARIANTS
    TypeOK
    IndexesSurvive
    LastIndexOfField
