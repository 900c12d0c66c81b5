CONSTANTS
    NULL = NULL
    NaN = NaN
    Plans <- NegativeSlotsPlans
    TupleSpace <- RowSpace
    RandomRanks = {0, 1}
SPECIFICATION FairSpec
PROPERTIES
    Termination
