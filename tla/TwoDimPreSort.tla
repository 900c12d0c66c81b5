----------------------------- MODULE TwoDimPreSort -----------------------------
(***************************************************************************)
(* The skyline of two columns on sorted input, ExecSkyline_2DimPreSort     *)
(* (backend/executor/nodeSkyline.c): a tuple is compared with the one that *)
(* was returned last, and with no other.                                   *)
(***************************************************************************)
EXTENDS Dominance

VARIABLES
    node,       \* the plan node
    input,      \* the rows of the outer plan
    outerPos,   \* how many of them have been fetched
    status,     \* state->status
    resultSlot, \* the tuple in ps_ResultTupleSlot, 0 when empty
    output      \* the tuples returned to the parent node

vars == <<node, input, outerPos, status, resultSlot, output>>

\* Read a tuple and return it.
FetchAndReturn ==
    /\ outerPos < Len(input)
    /\ outerPos' = outerPos + 1
    /\ resultSlot' = outerPos + 1
    /\ output' = Append(output, outerPos + 1)
    /\ UNCHANGED <<node, input>>

\* case SS_INIT: the first tuple is in the skyline.
ReturnFirst ==
    /\ status = "SS_INIT"
    /\ FetchAndReturn
    /\ status' = "SS_PROCESS"

\* The tuple read against the one returned last.
Cmp == IsDominating(node, input[outerPos + 1], input[resultSlot])

\* Mutant of InSkyline: DISTINCT is ignored.
EqualToo == Cmp \in {"INCOMPARABLE", "ALL_EQ"}

InSkyline == Cmp = "INCOMPARABLE" \/ (Cmp = "ALL_EQ" /\ ~node.skyline_distinct)

Return ==
    /\ status = "SS_PROCESS"
    /\ FetchAndReturn
    /\ InSkyline
    /\ UNCHANGED status

Skip ==
    /\ status = "SS_PROCESS"
    /\ outerPos < Len(input)
    /\ ~InSkyline
    /\ outerPos' = outerPos + 1
    /\ UNCHANGED <<node, input, status, resultSlot, output>>

\* Return NULL.
EndOfInput ==
    /\ status \in {"SS_INIT", "SS_PROCESS"}
    /\ outerPos = Len(input)
    /\ status' = "SS_DONE"
    /\ UNCHANGED <<node, input, outerPos, resultSlot, output>>

\* case SS_DONE: return NULL again.
ReturnNull ==
    /\ status = "SS_DONE"
    /\ UNCHANGED vars

Next == ReturnFirst \/ Return \/ Skip \/ EndOfInput \/ ReturnNull

=============================================================================
