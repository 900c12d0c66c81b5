----------------------------- MODULE SkylineRank -----------------------------
(***************************************************************************)
(* The entropy rank of a tuple, ExecSkylineRank (nodeSkyline.c), from the  *)
(* column statistics make_skyline stores in the plan node (createplan.c).  *)
(*                                                                         *)
(* The code sums -log(v + 1) over the columns, v the column value scaled   *)
(* into [0, 1] by colMin and colScale = 1 / range.  The rank is only ever  *)
(* compared, so the model keeps its order: minus the product of the        *)
(* (v + 1), each multiplied by the column's range to make it an integer.   *)
(* Rounding of doubles is left out; the NaN of a column whose statistics   *)
(* say it has a single value, 0 * (1 / 0), is not.                         *)
(***************************************************************************)
EXTENDS Dominance, TupleWindow

\* The number of units the interval [0, 1] of a scaled value is divided in.
Unit(col) == IF col.colRange = 0 THEN 1 ELSE col.colRange

\* The value shifted, scaled and clamped into 0..Unit(col), or NaN.
ScaledValue(col, datum) ==
    IF datum = NULL THEN IF col.nullsFirst THEN 0 ELSE Unit(col)
    ELSE IF datum <= col.colMin
         THEN IF col.colRange = 0 /\ datum = col.colMin THEN NaN ELSE 0
    ELSE IF datum - col.colMin >= Unit(col) THEN Unit(col)
    ELSE datum - col.colMin

\* The scaled value counted from the good end of the column.
Badness(col, datum) ==
    LET v == ScaledValue(col, datum)
    IN  IF v # NaN /\ col.desc THEN Unit(col) - v ELSE v

\* DIFF columns and columns without statistics do not count.
RankedColumns(node) ==
    {i \in Columns(node) : node.cols[i].dir # "DIFF" /\ node.cols[i].haveStats}

\* One turn of the loop over the columns: from the rank so far to the next.
RankAfter(node, row, i, res) ==
    IF i \notin RankedColumns(node) THEN res
    ELSE IF res = NaN \/ Badness(node.cols[i], row[i]) = NaN THEN NaN
    ELSE res * (Unit(node.cols[i]) + Badness(node.cols[i], row[i]))

ExecSkylineRank(node, row) ==
    LET res[i \in 0..Len(node.cols)] ==
          IF i = 0 THEN -1 ELSE RankAfter(node, row, i, res[i-1])
    IN  res[Len(node.cols)]

\* Rows whose ranks are comparable: statistics that scale every value, and no
\* NULL in a descending column, for which the code clamps a NULL to the end it
\* sorts to and then mirrors it with the values (lines 224-230 and 267-268).
Rankable(node, row) ==
    \A c \in RankedColumns(node) :
        node.cols[c].colRange # 0 /\ (node.cols[c].desc => row[c] # NULL)

-----------------------------------------------------------------------------

\* ExecInitSkyline and ExecInitElimFilter fall back to "append" when no
\* column has statistics.
WindowPolicy(p) ==
    IF p.policy = "ENTROPY" /\ \A i \in Columns(p.node) : ~p.node.cols[i].haveStats
    THEN "APPEND"
    ELSE p.policy

=============================================================================
