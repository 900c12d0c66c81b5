---------------------------- MODULE SkylinePlans ----------------------------
(***************************************************************************)
(* The plans a node with a tuple window is run for, and what is assumed of *)
(* them: the constants that BlockNestedLoop, SortFilterSkyline and         *)
(* ElimFilter share.                                                       *)
(***************************************************************************)
EXTENDS SkylineRank

CONSTANTS
    Plans,        \* the plans to run: [node, input, policy, slots, memory]
    TupleSpace(_),\* the memory a row takes in the window
    RandomRanks   \* what ExecSkylineRandom may return

ASSUME PlansAssumption ==
    \A p \in Plans :
        /\ p.node \in PlanNode
        /\ p.input \in Seq(Row(p.node))
        /\ p.policy \in Policies
        /\ p.slots \in Int
        /\ p.memory \in Int

\* TupleSpace is the memory a row takes.  A random rank is a number.
ASSUME RanksAssumption ==
    /\ RandomRanks \subseteq Int
    /\ NaN \notin Int
    /\ \A p \in Plans : \A i \in 1..Len(p.input) : TupleSpace(p.input[i]) \in Nat

\* A window that has space when it is empty: its slots are limited, or they are
\* not (-1) and its memory is.
LimitsAccepted ==
    \A p \in Plans : p.slots > 0 \/ (p.slots = -1 /\ p.memory >= 0)

\* No column that counts for the rank has statistics with a range of 0, with
\* which the scaled value of the column's minimum is not a number.
RangesKnown ==
    \A p \in Plans : \A i \in RankedColumns(p.node) : p.node.cols[i].colRange # 0

=============================================================================
