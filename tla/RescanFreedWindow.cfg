CONSTANTS
    NULL = NULL
    NaN = NaN
    Plans <- RescannedBnlPlans
    TupleSpace <- RowSpace
    RandomRanks = {0}
    Garbage <- AnyDatum
    MaxScans = 2
SPECIFICATION FairSpec
INVARIANTS
    NeverUsesFreedWindow
