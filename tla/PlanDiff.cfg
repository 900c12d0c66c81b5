CONSTANTS
    NULL = NULL
    NaN = NaN
    Plans <- NodePlans
    TupleSpace <- RowSpace
    RandomRanks = {0}
    Garbage <- AnyDatum
    MaxScans = 1
    Queries <- DiffQueries
SPECIFICATION FairPlanSpec
INVARIANTS
    ResultIsSkyline
