------------------------ MODULE MCSortFilterSkyline ------------------------
(***************************************************************************)
(* Plans for model checking SortFilterSkyline.                             *)
(***************************************************************************)
EXTENDS SortFilterSkyline, FiniteSets

MinCol     == [dir |-> "MIN", desc |-> FALSE, nullsFirst |-> FALSE,
               haveStats |-> TRUE, colMin |-> 1, colRange |-> 2]
MaxCol     == [dir |-> "MAX", desc |-> TRUE, nullsFirst |-> TRUE,
               haveStats |-> FALSE, colMin |-> 0, colRange |-> 1]
DiffCol    == [MinCol EXCEPT !.dir = "DIFF"]

Node(cols, distinct) == [cols |-> cols, skyline_distinct |-> distinct]

Plan(cols, distinct, rows, policy, slots, memory) ==
    [node |-> Node(cols, distinct), input |-> rows, policy |-> policy,
     slots |-> slots, memory |-> memory]

\* No row dominates an earlier one.
Sorted(cols, rows) ==
    \A i, j \in DOMAIN rows :
        i < j => ~Dominates(Node(cols, FALSE), rows[j], rows[i])

SortedTables(cols, Rows, n) ==
    {rows \in UNION {[1..k -> Rows] : k \in 0..n} : Sorted(cols, rows)}

TwoMin == <<MinCol, MinCol>>

\* All sorted tables of up to 4 rows over a 2 x 3 grid, and of 4 rows over 3 x 3.
GridPlans ==
    {Plan(TwoMin, distinct, rows, policy, slots, 0) :
        distinct \in BOOLEAN,
        rows \in SortedTables(TwoMin, (1..2) \X (1..3), 4),
        policy \in {"APPEND", "PREPEND", "ENTROPY"}, slots \in 1..2}

\* 5 rows without a dominance, so that there are several passes.
AntichainPlans ==
    {Plan(TwoMin, FALSE, [i \in 1..5 |-> <<f[i], 6 - f[i]>>], "RANDOM", slots, 0) :
        f \in {g \in [1..5 -> 1..5] : \A i, j \in 1..5 : i # j => g[i] # g[j]},
        slots \in 1..2}

\* NULLs, DESC and DIFF.
NullPlans ==
    {Plan(<<MaxCol, DiffCol>>, distinct, rows, "ENTROPY", 1, 0) :
        distinct \in BOOLEAN,
        rows \in SortedTables(<<MaxCol, DiffCol>>, {1, 2, NULL} \X {1, NULL}, 3)}

\* A window limited by memory: a row takes as much as its first value.
MemoryPlans ==
    {Plan(TwoMin, FALSE, rows, policy, -1, memory) :
        rows \in SortedTables(TwoMin, {<<1, 3>>, <<2, 2>>, <<3, 1>>, <<3, 3>>}, 4),
        policy \in {"APPEND", "ENTROPY"}, memory \in {0, 2}}

\* Tables that are not sorted: the result may be wrong, but it comes to an end.
UnsortedPlans ==
    {Plan(TwoMin, FALSE, rows, "APPEND", slots, 0) :
        rows \in [1..3 -> (1..2) \X (1..2)], slots \in 1..2}

AllPlans == GridPlans \cup AntichainPlans \cup NullPlans \cup MemoryPlans \cup UnsortedPlans

RowSpace(row) == IF row[1] = NULL THEN 1 ELSE row[1]

\* The hypothesis under which the order of the ranks is proved.
ASSUME RangesAreKnown == RangesKnown

=============================================================================
