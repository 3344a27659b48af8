CONSTANTS
    M_LEN = 3
    Depth = 1
    Keys = {0, 1, 2}
    Modulus = 4
    M_KEEP_SUM = TRUE
SPECIFICATION InterferedSpec
INVARIANTS
    SumExact
