CONSTANTS
    NULL = NULL
    NaN = NaN
    Plans <- McvPlans
    TupleSpace <- RowSpace
    RandomRanks = {0, 1}
SPECIFICATION Spec
INVARIANTS
    RankOrder
