CONSTANTS
    MaxKBytes = {0, 2, 3}
    MaxTuples = 5
SPECIFICATION Spec
INVARIANTS
    TypeOK
    PositionsInv
PROPERTIES
    ImplementsStore
