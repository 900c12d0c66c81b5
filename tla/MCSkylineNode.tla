---------------------------- MODULE MCSkylineNode ----------------------------
(***************************************************************************)
(* Plans for model checking SkylineNode.                                   *)
(***************************************************************************)
EXTENDS SkylineNode, FiniteSets

MinCol == [dir |-> "MIN", desc |-> FALSE, nullsFirst |-> FALSE,
           haveStats |-> TRUE, colMin |-> 1, colRange |-> 2]
MaxCol == [dir |-> "MAX", desc |-> TRUE, nullsFirst |-> TRUE,
           haveStats |-> FALSE, colMin |-> 0, colRange |-> 1]

Node(cols, distinct) == [cols |-> cols, skyline_distinct |-> distinct]

Plan(method, nd, inputs, policy, slots, rescan) ==
    [method |-> method, node |-> nd, inputs |-> inputs, policy |-> policy,
     slots |-> slots, memory |-> 0, rescan |-> rescan]

Tables(Rows, n) == UNION {[1..k -> Rows] : k \in 0..n}

\* Tables that are sorted by the first and then the second column.
SortedTables(Rows, n) ==
    {t \in Tables(Rows, n) : \A i, j \in DOMAIN t :
        i < j => t[i][1] < t[j][1] \/ (t[i][1] = t[j][1] /\ t[i][2] <= t[j][2])}

Values == {<<v>> : v \in {1, 2, NULL}}
Grid   == (1..2) \X (1..2)
Steps  == {<<1, 3>>, <<2, 2>>, <<2, 1>>, <<3, 3>>}

\* A scan of any table, then one of the same or of the table other.
Twice(Inputs, other) == {{t, other} : t \in Inputs}

OneDimPlans(method, distinct, rescan) ==
    {Plan(method, Node(<<col>>, distinct), inputs, "APPEND", -1, rescan) :
        col \in {MinCol, MaxCol},
        inputs \in Twice(Tables(Values, 3), <<<<2>>, <<1>>>>)}

SortedPlans(method, slots) ==
    {Plan(method, Node(<<MinCol, MinCol>>, distinct), inputs, "ENTROPY", slots, "ANY") :
        distinct \in BOOLEAN,
        inputs \in Twice(SortedTables(Grid, 3) \cup SortedTables(Steps, 4), <<<<2, 1>>>>)}

\* SKYLINE OF a WITH PRESORT.
SortedColumnPlans ==
    {Plan("SM_2DIM_PRESORT", Node(<<MinCol>>, distinct), inputs, "APPEND", -1, "ANY") :
        distinct \in BOOLEAN,
        inputs \in Twice({t \in Tables(Values \ {<<NULL>>}, 3) :
                             \A i, j \in DOMAIN t : i < j => t[i][1] <= t[j][1]}, <<<<2>>>>)}

UnsortedPlans(method, slots, rescan) ==
    {Plan(method, Node(<<MinCol, MinCol>>, distinct), inputs, "PREPEND", slots, rescan) :
        distinct \in BOOLEAN,
        inputs \in Twice(Tables(Grid, 2) \cup [1..3 -> Steps], <<<<1, 2>>, <<2, 1>>>>)}

\* Each method as far as it can be rescanned.
SafePlans ==
    OneDimPlans("SM_1DIM", FALSE, "ANY")
    \cup OneDimPlans("SM_1DIM_DISTINCT", TRUE, "NEVER")
    \cup SortedPlans("SM_2DIM_PRESORT", -1)
    \cup SortedColumnPlans
    \cup SortedPlans("SM_SFS", 1)
    \cup UnsortedPlans("SM_MATERIALIZEDNESTEDLOOP", -1, "ANY")
    \cup UnsortedPlans("SM_BLOCKNESTEDLOOP", 1, "BEFORE_END")
    \cup UnsortedPlans("SM_ELIMFILTER", 1, "ANY")

ASSUME SafePlansAreWellPlanned == \A p \in SafePlans : WellPlanned(p)

\* A parent, for instance a nested loop, that reads to the end and rescans.
RescannedBnlPlans == UnsortedPlans("SM_BLOCKNESTEDLOOP", 1, "ANY")
RescannedDistinctPlans == OneDimPlans("SM_1DIM_DISTINCT", TRUE, "ANY")

RowSpace(row) == 1

AnyDatum == {0, 3, NULL}

=============================================================================
