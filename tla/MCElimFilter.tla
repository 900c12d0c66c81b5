---------------------------- MODULE MCElimFilter ----------------------------
(***************************************************************************)
(* Plans for model checking ElimFilter.                                    *)
(***************************************************************************)
EXTENDS ElimFilter, FiniteSets

MinCol     == [dir |-> "MIN", desc |-> FALSE, nullsFirst |-> FALSE,
               haveStats |-> TRUE, colMin |-> 1, colRange |-> 2]
MaxCol     == [dir |-> "MAX", desc |-> TRUE, nullsFirst |-> TRUE,
               haveStats |-> FALSE, colMin |-> 0, colRange |-> 1]
NoStatsCol == [MinCol EXCEPT !.haveStats = FALSE]
DiffCol    == [MinCol EXCEPT !.dir = "DIFF"]

Node(cols, distinct) == [cols |-> cols, skyline_distinct |-> distinct]

Plan(cols, distinct, rows, policy, slots, memory) ==
    [node |-> Node(cols, distinct), input |-> rows, policy |-> policy,
     slots |-> slots, memory |-> memory]

Tables(Rows, n) == UNION {[1..k -> Rows] : k \in 0..n}

\* All tables of up to 3 rows over a 2 x 3 grid, with every policy but RANDOM.
GridPlans ==
    {Plan(<<MinCol, MinCol>>, distinct, rows, policy, slots, 0) :
        distinct \in BOOLEAN, rows \in Tables((1..2) \X (1..3), 3),
        policy \in {"APPEND", "PREPEND", "ENTROPY"}, slots \in {1, 2}}

\* Every order of arrival of 4 tuples without a dominance, with random ranks,
\* and with the rank by entropy of 3 x 3 values.
AntichainPlans ==
    {Plan(<<MinCol, MinCol>>, FALSE, [i \in 1..4 |-> <<f[i], 5 - f[i]>>], policy, slots, 0) :
        f \in {g \in [1..4 -> 1..4] : \A i, j \in 1..4 : i # j => g[i] # g[j]},
        policy \in {"RANDOM", "ENTROPY"}, slots \in {1, 2, 3}}

\* NULLs, DESC and DIFF.
NullPlans ==
    {Plan(<<MaxCol, DiffCol>>, distinct, rows, "ENTROPY", 1, 0) :
        distinct \in BOOLEAN, rows \in Tables({1, 2, NULL} \X {1, NULL}, 3)}

\* A window limited by memory: a row takes as much as its first value, so that
\* giving up one tuple may not make room for the next.
MemoryPlans ==
    {Plan(<<MinCol, MinCol>>, FALSE, rows, policy, -1, memory) :
        rows \in Tables({<<1, 3>>, <<2, 2>>, <<3, 1>>, <<3, 3>>}, 4),
        policy \in {"APPEND", "RANDOM"}, memory \in {0, 2}}

\* EFSLOTS is a negative number other than -1: a window nothing fits into.
NoSpacePlans ==
    {Plan(<<MinCol, MinCol>>, FALSE, rows, policy, -2, 0) :
        rows \in Tables((1..2) \X (1..2), 3), policy \in {"PREPEND", "ENTROPY"}}

AllPlans == GridPlans \cup AntichainPlans \cup NullPlans \cup MemoryPlans \cup NoSpacePlans

RowSpace(row) == IF row[1] = NULL THEN 1 ELSE row[1]

\* The hypothesis under which the order of the ranks is proved.
ASSUME RangesAreKnown == RangesKnown

=============================================================================
