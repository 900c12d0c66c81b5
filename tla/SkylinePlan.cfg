CONSTANTS
    NULL = NULL
    NaN = NaN
    Plans <- NodePlans
    TupleSpace <- RowSpace
    RandomRanks = {0}
    Garbage <- AnyDatum
    MaxScans = 1
    Queries <- AllQueries
SPECIFICATION FairPlanSpec
INVARIANTS
    ResultIsSkyline
    ResultIsOrdered
    AssertNotDominated
PROPERTIES
    PlanTermination
