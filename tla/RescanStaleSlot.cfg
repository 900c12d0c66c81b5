CONSTANTS
    NULL = NULL
    NaN = NaN
    Plans <- RescannedDistinctPlans
    TupleSpace <- RowSpace
    RandomRanks = {0}
    Garbage <- AnyDatum
    MaxScans = 2
SPECIFICATION FairSpec
PROPERTIES
    ImplementsRestartableQuery
