CONSTANTS
    NULL = NULL
    NaN = NaN
    Plans <- AllPlans
    TupleSpace <- RowSpace
    RandomRanks = {0, 1}
SPECIFICATION FairSpec
INVARIANTS
    TypeOK
    SortFilterInv
    RankOrder
    WindowNeverDominated
PROPERTIES
    ImplementsQuery
    PreservesOrder
    Termination
    Progress
