CONSTANTS
    M_LEN = 2
    Depth = 2
    Keys = {0, 1, 3}
    Modulus = 4
    M_KEEP_SUM = TRUE
SPECIFICATION Spec
INVARIANTS
    TypeOK
    SumExact
PROPERTIES
    ImplementsMapping
