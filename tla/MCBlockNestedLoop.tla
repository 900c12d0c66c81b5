------------------------- MODULE MCBlockNestedLoop -------------------------
(***************************************************************************)
(* Plans for model checking BlockNestedLoop.                               *)
(***************************************************************************)
EXTENDS BlockNestedLoop, FiniteSets

\* Columns: MIN, MAX (descending and NULLs first) and DIFF.  The planner finds
\* no range for a descending column that has a histogram (get_variable_range
\* looks for one sorted by ">"); when only the most common values are known, it
\* takes the largest for the minimum, and a negative range becomes 0.
MinCol     == [dir |-> "MIN", desc |-> FALSE, nullsFirst |-> FALSE,
               haveStats |-> TRUE, colMin |-> 1, colRange |-> 2]
MaxCol     == [dir |-> "MAX", desc |-> TRUE, nullsFirst |-> TRUE,
               haveStats |-> FALSE, colMin |-> 0, colRange |-> 1]
McvMaxCol  == [MaxCol EXCEPT !.haveStats = TRUE, !.colMin = 3, !.colRange = 0]
NoStatsCol == [MinCol EXCEPT !.haveStats = FALSE]
DiffCol    == [MinCol EXCEPT !.dir = "DIFF"]

Node(cols, distinct) == [cols |-> cols, skyline_distinct |-> distinct]

Plan(cols, distinct, rows, policy, slots, memory) ==
    [node |-> Node(cols, distinct), input |-> rows, policy |-> policy,
     slots |-> slots, memory |-> memory]

Tables(Rows, n) == UNION {[1..k -> Rows] : k \in 0..n}

\* All tables of up to 3 rows over a 2 x 3 grid, with every policy but RANDOM.
GridPlans ==
    {Plan(<<MinCol, MinCol>>, distinct, rows, policy, slots, 0) :
        distinct \in BOOLEAN, rows \in Tables((1..2) \X (1..3), 3),
        policy \in {"APPEND", "PREPEND", "ENTROPY"}, slots \in 1..2}

\* Every order of arrival of 4 tuples in general position.
Permutations4 == {f \in [1..4 -> 1..4] : \A i, j \in 1..4 : i # j => f[i] # f[j]}

ChainPlans ==
    {Plan(<<MinCol, MinCol>>, FALSE, [i \in 1..4 |-> <<f[i], g[i]>>], policy, slots, 0) :
        f \in Permutations4, g \in Permutations4, policy \in {"APPEND", "RANDOM"},
        slots \in 1..2}

\* NULLs, DESC and DIFF.  The DIFF column has statistics, which do not count
\* for the rank: all tuples rank the same.
NullPlans ==
    {Plan(<<MaxCol, DiffCol>>, distinct, rows, "ENTROPY", 1, 0) :
        distinct \in BOOLEAN, rows \in Tables({1, 2, NULL} \X {1, NULL}, 3)}

\* A window limited by memory: a row takes as much as its first value.  Without
\* statistics the policy falls back to APPEND.
MemoryPlans ==
    {Plan(<<NoStatsCol, NoStatsCol>>, FALSE, rows, "ENTROPY", -1, memory) :
        rows \in Tables({<<1, 3>>, <<2, 2>>, <<3, 1>>, <<3, 3>>}, 4), memory \in {0, 2}}

\* SLOTS is a negative number other than -1.
NegativeSlotsPlans ==
    {Plan(<<MinCol, MinCol>>, FALSE, rows, "APPEND", -2, 0) :
        rows \in Tables((1..2) \X (1..2), 2)}

\* The entropy policy on a MIN and a MAX column that has few distinct values.
McvPlans ==
    {Plan(<<MinCol, McvMaxCol>>, FALSE, rows, "ENTROPY", 3, 0) :
        rows \in Tables((1..3) \X (1..3), 3)}

AllPlans == GridPlans \cup ChainPlans \cup NullPlans \cup MemoryPlans

RowSpace(row) == IF row[1] = NULL THEN 1 ELSE row[1]

\* The hypothesis under which the order of the ranks is proved.
ASSUME RangesAreKnown == Plans = McvPlans \/ RangesKnown

\* What is proved of the loop that compares two rows and of the one that ranks
\* them (LoopComparesRows and RankIsMonotone), for the rows of the plans.
ASSUME LoopsAsProved ==
    \A p \in Plans : \A i, j \in DOMAIN p.input :
        LET a == p.input[i]
            b == p.input[j]
        IN  /\ ExecSkylineIsDominating(p.node, a, b) = IsDominating(p.node, a, b)
            /\ Rankable(p.node, a) /\ Rankable(p.node, b) /\ Dominates(p.node, a, b)
                 => ExecSkylineRank(p.node, b) <= ExecSkylineRank(p.node, a)

=============================================================================
