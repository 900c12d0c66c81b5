CONSTANTS
    NULL = NULL
    NaN = NaN
    Plans <- SafePlans
    TupleSpace <- RowSpace
    RandomRanks = {0}
    Garbage <- AnyDatum
    MaxScans = 2
SPECIFICATION FairSpec
INVARIANTS
    NodeInv
    NeverUsesFreedWindow
PROPERTIES
    ImplementsRestartableQuery
    ImplementsRestartableFilter
    PreservesOrder
    Termination
