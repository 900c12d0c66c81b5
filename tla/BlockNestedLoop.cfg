CONSTANTS
    NULL = NULL
    NaN = NaN
    Plans <- AllPlans
    TupleSpace <- RowSpace
    RandomRanks = {0, 1}
SPECIFICATION FairSpec
INVARIANTS
    TypeOK
    IInv
    RankOrder
    SpaceInv
PROPERTIES
    ImplementsQuery
    Termination
    Progress
