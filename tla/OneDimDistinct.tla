---------------------------- MODULE OneDimDistinct ----------------------------
(***************************************************************************)
(* The skyline of one column under DISTINCT, ExecSkyline_1DimDistinct      *)
(* (backend/executor/nodeSkyline.c): the single call that returns a tuple  *)
(* keeps the best one so far in the result slot, which it takes to be      *)
(* empty when it starts.                                                   *)
(***************************************************************************)
EXTENDS Dominance

CONSTANT Garbage  \* what an uninitialized Datum may hold

VARIABLES
    node,       \* the plan node
    input,      \* the rows of the outer plan
    outerPos,   \* how many of them have been fetched
    status,     \* state->status
    inLoop,     \* is a call in the loop of case SS_INIT
    datum,      \* datum1: the value of the tuple in the result slot
    resultSlot, \* the tuple in ps_ResultTupleSlot, 0 when empty
    output      \* the tuples returned to the parent node

vars == <<node, input, outerPos, status, inLoop, datum, resultSlot, output>>

\* The local variable datum1 is not initialized.
Start ==
    /\ status = "SS_INIT" /\ ~inLoop
    /\ inLoop' = TRUE
    /\ datum' \in Garbage
    /\ UNCHANGED <<node, input, outerPos, status, resultSlot, output>>

NewDatum == input[outerPos + 1][1]
Cmp      == ApplyCompare(node.cols[1], datum, NewDatum)

\* Only an empty result slot tells that there is no value to compare with.
Better == resultSlot = 0 \/ Cmp > 0

Fetch ==
    /\ inLoop
    /\ outerPos < Len(input)
    /\ outerPos' = outerPos + 1
    /\ IF Better
       THEN resultSlot' = outerPos + 1 /\ datum' = NewDatum
       ELSE UNCHANGED <<resultSlot, datum>>
    /\ UNCHANGED <<node, input, status, inLoop, output>>

\* Return the result slot: a tuple, or NULL when it is empty.
EndOfInput ==
    /\ inLoop
    /\ outerPos = Len(input)
    /\ inLoop' = FALSE
    /\ status' = "SS_DONE"
    /\ output' = IF resultSlot = 0 THEN output ELSE Append(output, resultSlot)
    /\ UNCHANGED <<node, input, outerPos, datum, resultSlot>>

\* case SS_DONE: return NULL.
ReturnNull ==
    /\ status = "SS_DONE"
    /\ UNCHANGED vars

Next == Start \/ Fetch \/ EndOfInput \/ ReturnNull

=============================================================================
