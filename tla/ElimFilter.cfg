CONSTANTS
    NULL = NULL
    NaN = NaN
    Plans <- AllPlans
    TupleSpace <- RowSpace
    RandomRanks = {0, 1}
SPECIFICATION FairSpec
INVARIANTS
    FilterInv
    RankOrder
    SpaceInv
PROPERTIES
    ImplementsFilter
    GivesUpLowestRank
    Termination
    Progress
