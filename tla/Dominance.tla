------------------------------ MODULE Dominance ------------------------------
(***************************************************************************)
(* How the skyline executor nodes compare two tuples: per column, with the *)
(* direction and the NULLs ordering of the SKYLINE OF clause, and over all *)
(* columns (backend/executor/nodeSkyline.c).  A tuple is the sequence of   *)
(* its skyline columns, a column value an integer or NULL: the comparison  *)
(* function of a data type is only used as a total order.                  *)
(***************************************************************************)
EXTENDS Integers, Sequences

CONSTANT NULL  \* the SQL null value

ASSUME NullAssumption == NULL \notin Int

Datum == Int \cup {NULL}

Directions == {"DEFAULT", "MIN", "MAX", "USING", "DIFF"}

\* One column of the SKYLINE OF clause: its direction, the two flags of its
\* sort operator, and the planner's statistics for it, if there are any.
Column == [dir : Directions, desc : BOOLEAN, nullsFirst : BOOLEAN,
           haveStats : BOOLEAN, colMin : Int, colRange : Nat]

\* The part of the plan node the comparisons read.
PlanNode == [cols : Seq(Column), skyline_distinct : BOOLEAN]

Columns(node) == DOMAIN node.cols

Row(node) == [Columns(node) -> Datum]

-----------------------------------------------------------------------------

Sign(x) == IF x < 0 THEN -1 ELSE IF x > 0 THEN 1 ELSE 0

\* inlineApplyCompareFunction: three-way comparison of two column values.
ApplyCompare(col, datum1, datum2) ==
    IF datum1 = NULL \/ datum2 = NULL
    THEN IF datum1 = datum2 THEN 0
         ELSE IF (datum1 = NULL) = col.nullsFirst THEN -1 ELSE 1
    ELSE IF col.desc THEN Sign(datum2 - datum1) ELSE Sign(datum1 - datum2)

CmpResults == {"ALL_EQ", "FIRST_DOMINATES", "SECOND_DOMINATES", "INCOMPARABLE"}

\* ExecSkylineIsDominating: what the loop over the columns returns for
\* (inner_slot, slot).  A DIFF column that differs makes the tuples
\* incomparable, and so do two columns that disagree.
IsDominating(node, inner, slot) ==
    LET cmp(i)  == ApplyCompare(node.cols[i], inner[i], slot[i])
        isDiff(i) == node.cols[i].dir = "DIFF"
        diff    == \E i \in Columns(node) : isDiff(i) /\ cmp(i) # 0
        cmp_lt  == \E i \in Columns(node) : ~isDiff(i) /\ cmp(i) < 0
        cmp_gt  == \E i \in Columns(node) : ~isDiff(i) /\ cmp(i) > 0
    IN  IF diff \/ (cmp_lt /\ cmp_gt) THEN "INCOMPARABLE"
        ELSE IF cmp_lt THEN "FIRST_DOMINATES"
        ELSE IF cmp_gt THEN "SECOND_DOMINATES"
        ELSE "ALL_EQ"

\* One turn of that loop: from what the columns before i say to what they say
\* with i.  Nothing is read any more once it is "INCOMPARABLE".
ResultAfter(node, inner, slot, i, res) ==
    LET cmp == ApplyCompare(node.cols[i], inner[i], slot[i])
    IN  IF \/ res = "INCOMPARABLE"
           \/ cmp # 0 /\ node.cols[i].dir = "DIFF"
           \/ cmp < 0 /\ res = "SECOND_DOMINATES"
           \/ cmp > 0 /\ res = "FIRST_DOMINATES"
        THEN "INCOMPARABLE"
        ELSE IF cmp < 0 THEN "FIRST_DOMINATES"
        ELSE IF cmp > 0 THEN "SECOND_DOMINATES"
        ELSE res

\* The loop itself, which IsDominating is used in place of.
ExecSkylineIsDominating(node, inner, slot) ==
    LET res[i \in 0..Len(node.cols)] ==
          IF i = 0 THEN "ALL_EQ" ELSE ResultAfter(node, inner, slot, i, res[i-1])
    IN  res[Len(node.cols)]

\* The two relations the skyline is defined by.
Dominates(node, a, b) == IsDominating(node, a, b) = "FIRST_DOMINATES"
AllEq(node, a, b)     == IsDominating(node, a, b) = "ALL_EQ"

=============================================================================
