\* A byte has four values, and the only container of <stdint.h> two bytes: types
\* of one byte are widened (as int24 is), types of two fit, and uint256 has three
\* and is narrowed.  Inputs of eight bytes hold two time steps and two choices.
CONSTANTS
    BYTE = 4
    Containers = {2}
    Bytes = {0, 2, 3}
    MaxWidth = 3
    MaxSize = 8
    MaxBound = 3
    Widths = {1, 2, 3}
    MaxTransactions = 3
SPECIFICATION Spec
INVARIANTS
    BufferOwned
    DrawInRange
PROPERTIES
    TimeAdvances
    EveryInputEnds
