-------------------------------- MODULE OneDim --------------------------------
(***************************************************************************)
(* The skyline of one column, ExecSkyline_1Dim                             *)
(* (backend/executor/nodeSkyline.c).  The first call reads the outer plan  *)
(* and collects the tuples with the best value so far in a tuplestore;     *)
(* when a better value turns up, tuplestore_catchup skips what has been    *)
(* collected.  Then the tuples behind the read position are returned.      *)
(*                                                                         *)
(* One step is one turn of the C function's loop, or one call in           *)
(* SS_PIPEOUT.  The comparison does not look at the column's direction.    *)
(***************************************************************************)
EXTENDS Dominance, TupleStore

VARIABLES
    node,     \* the plan node
    input,    \* the rows of the outer plan
    outerPos, \* how many of them have been fetched
    status,   \* state->status
    inLoop,   \* is a call in the loop of case SS_INIT
    first,    \* first: no tuple has been read yet
    datum,    \* datum1: the best value so far, NULL before there is one
    store,    \* state->tuplestorestate
    output    \* the tuples returned to the parent node

vars == <<node, input, outerPos, status, inLoop, first, datum, store, output>>

Start ==
    /\ status = "SS_INIT" /\ ~inLoop
    /\ inLoop' = TRUE
    /\ first' = TRUE
    /\ datum' = NULL
    /\ store' = tuplestore_begin(FALSE)
    /\ UNCHANGED <<node, input, outerPos, status, output>>

\* The value of the tuple read against the best one.
NewDatum == input[outerPos + 1][1]
Cmp      == ApplyCompare(node.cols[1], datum, NewDatum)

\* The step reads a tuple of the outer plan.
Fetch ==
    /\ inLoop
    /\ outerPos < Len(input)
    /\ outerPos' = outerPos + 1
    /\ UNCHANGED <<node, input, status, inLoop, output>>

FetchFirst ==
    /\ Fetch
    /\ first
    /\ first' = FALSE
    /\ datum' = NewDatum
    /\ store' = tuplestore_puttupleslot(store, outerPos + 1)

FetchEqual ==
    /\ Fetch
    /\ ~first /\ Cmp = 0
    /\ store' = tuplestore_puttupleslot(store, outerPos + 1)
    /\ UNCHANGED <<first, datum>>

\* Mutant of FetchBetter: the tuples collected so far are kept.
FetchBetterKeeps ==
    /\ Fetch
    /\ ~first /\ Cmp > 0
    /\ datum' = NewDatum
    /\ store' = tuplestore_puttupleslot(store, outerPos + 1)
    /\ UNCHANGED first

FetchBetter ==
    /\ Fetch
    /\ ~first /\ Cmp > 0
    /\ datum' = NewDatum
    /\ store' = tuplestore_puttupleslot(tuplestore_catchup(store), outerPos + 1)
    /\ UNCHANGED first

FetchWorse ==
    /\ Fetch
    /\ ~first /\ Cmp < 0
    /\ UNCHANGED <<first, datum, store>>

EndOfInput ==
    /\ inLoop
    /\ outerPos = Len(input)
    /\ inLoop' = FALSE
    /\ status' = "SS_PIPEOUT"
    /\ UNCHANGED <<node, input, outerPos, first, datum, store, output>>

\* case SS_PIPEOUT: return the next tuple of the store.
PipeOut ==
    /\ status = "SS_PIPEOUT"
    /\ HasNext(store)
    /\ output' = Append(output, NextTuple(store))
    /\ store' = tuplestore_gettupleslot(store)
    /\ UNCHANGED <<node, input, outerPos, status, inLoop, first, datum>>

\* Return NULL; tuplestore_end gives up the store.
PipeOutEnd ==
    /\ status = "SS_PIPEOUT"
    /\ ~HasNext(store)
    /\ store' = tuplestore_begin(FALSE)
    /\ status' = "SS_DONE"
    /\ UNCHANGED <<node, input, outerPos, inLoop, first, datum, output>>

\* case SS_DONE: return NULL again.
ReturnNull ==
    /\ status = "SS_DONE"
    /\ UNCHANGED vars

Next ==
    \/ Start
    \/ FetchFirst \/ FetchEqual \/ FetchBetter \/ FetchWorse
    \/ EndOfInput
    \/ PipeOut \/ PipeOutEnd \/ ReturnNull

=============================================================================
