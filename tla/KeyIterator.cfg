CONSTANTS
    MaxWidth = 3
    MaxDepth = 3
SPECIFICATION Spec
INVARIANTS
    UsedInOrder
    UsesAllWanted
PROPERTIES
    Terminates
