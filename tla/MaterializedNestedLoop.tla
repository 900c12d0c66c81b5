------------------------ MODULE MaterializedNestedLoop ------------------------
(***************************************************************************)
(* The skyline by a nested loop, ExecSkyline_MaterializedNestedLoop        *)
(* (backend/executor/nodeSkyline.c), over a Material node that lets it     *)
(* read the input again and again: for the tuple at the marked position    *)
(* the whole input is read from its start, and the mark remembers where    *)
(* the outer loop goes on (backend/executor/nodeMaterial.c).               *)
(***************************************************************************)
EXTENDS Dominance, TupleStore

VARIABLES
    node,       \* the plan node
    input,      \* the rows of the plan below the Material node
    outerPos,   \* how many of them have been fetched
    status,     \* state->status
    made,       \* does the Material node have its tuplestore
    store,      \* that tuplestore
    underlying, \* its eof_underlying: has the plan below it returned NULL
    inner,      \* is a call in the inner loop
    slPos,      \* state->sl_pos, the position of the outer loop's tuple
    innerPos,   \* sl_innerpos, the position of the inner loop's tuple
    resultSlot, \* the tuple in ps_ResultTupleSlot, 0 when empty
    output      \* the tuples returned to the parent node

material == <<outerPos, made, store, underlying>>
vars == <<node, input, outerPos, status, made, store, underlying, inner, slPos,
          innerPos, resultSlot, output>>

-----------------------------------------------------------------------------
(* The Material node. *)

\* ExecMaterial on the tuplestore s: the tuple it returns, 0 for NULL.
Served(s) ==
    IF ~s.eof /\ HasNext(s) THEN NextTuple(s)
    ELSE IF ~underlying /\ outerPos < Len(input) THEN outerPos + 1
    ELSE 0

\* What the call leaves in the tuplestore: a tuple of the plan below is
\* appended, and the read position, which is at the end, moves over it.
AfterServing(s) ==
    IF ~s.eof /\ HasNext(s) THEN tuplestore_gettupleslot(s)
    ELSE LET ateof == tuplestore_gettupleslot(s)
         IN  IF ~underlying /\ outerPos < Len(input)
             THEN tuplestore_puttupleslot(ateof, outerPos + 1)
             ELSE ateof

\* The effect of the call on the plan below.
Pull(s) ==
    IF (~s.eof /\ HasNext(s)) \/ underlying
    THEN UNCHANGED <<outerPos, underlying>>
    ELSE /\ outerPos' = IF outerPos < Len(input) THEN outerPos + 1 ELSE outerPos
         /\ underlying' = (outerPos = Len(input))

\* The tuplestore a call works on.
Opened(s) == IF made THEN s ELSE tuplestore_begin(TRUE)

-----------------------------------------------------------------------------

\* case SS_INIT: ExecMarkPos and on to SS_PROCESS.
Start ==
    /\ status = "SS_INIT"
    /\ store' = IF made THEN tuplestore_markpos(store) ELSE store
    /\ slPos' = 0
    /\ status' = "SS_PROCESS"
    /\ UNCHANGED <<node, input, outerPos, made, underlying, inner, innerPos,
                   resultSlot, output>>

\* The store from which the outer loop reads: at the mark.
Restored == Opened(IF made THEN tuplestore_restorepos(store) ELSE store)

OuterTuple == Served(Restored)

\* Mutant of NextOuter: the input is rewound before its position is marked.
NextOuterMarksTooLate ==
    /\ status = "SS_PROCESS" /\ ~inner
    /\ OuterTuple # 0
    /\ Pull(Restored)
    /\ store' = tuplestore_markpos(tuplestore_rescan(AfterServing(Restored)))
    /\ made' = TRUE
    /\ slPos' = slPos + 1
    /\ resultSlot' = OuterTuple
    /\ inner' = TRUE
    /\ innerPos' = 0
    /\ UNCHANGED <<node, input, status, output>>

\* The outer loop reads its next tuple, marks the position behind it, and
\* rewinds the input for the inner loop.
NextOuter ==
    /\ status = "SS_PROCESS" /\ ~inner
    /\ OuterTuple # 0
    /\ Pull(Restored)
    /\ store' = tuplestore_rescan(tuplestore_markpos(AfterServing(Restored)))
    /\ made' = TRUE
    /\ slPos' = slPos + 1
    /\ resultSlot' = OuterTuple
    /\ inner' = TRUE
    /\ innerPos' = 0
    /\ UNCHANGED <<node, input, status, output>>

\* There is none: return NULL.
Finish ==
    /\ status = "SS_PROCESS" /\ ~inner
    /\ OuterTuple = 0
    /\ Pull(Restored)
    /\ store' = tuplestore_markpos(AfterServing(Restored))
    /\ made' = TRUE
    /\ slPos' = slPos + 1
    /\ status' = "SS_DONE"
    /\ UNCHANGED <<node, input, inner, innerPos, resultSlot, output>>

InnerTuple == Served(store)

\* The inner loop reads a tuple, or finds that there is none.
FetchInner ==
    /\ status = "SS_PROCESS" /\ inner
    /\ Pull(store)
    /\ store' = AfterServing(store)
    /\ innerPos' = innerPos + 1
    /\ UNCHANGED <<node, input, status, made, slPos, resultSlot>>

Cmp == IsDominating(node, input[InnerTuple], input[resultSlot])

\* The inner tuple dominates, or is the first of those that equal.
Eliminates ==
    \/ Cmp = "FIRST_DOMINATES"
    \/ node.skyline_distinct /\ Cmp = "ALL_EQ" /\ innerPos + 1 < slPos

Eliminate ==
    /\ FetchInner
    /\ InnerTuple # 0 /\ Eliminates
    /\ inner' = FALSE
    /\ UNCHANGED output

Continue ==
    /\ FetchInner
    /\ InnerTuple # 0 /\ ~Eliminates
    /\ UNCHANGED <<inner, output>>

\* The inner loop has come to its end: return the tuple.
Return ==
    /\ FetchInner
    /\ InnerTuple = 0
    /\ inner' = FALSE
    /\ output' = Append(output, resultSlot)

\* case SS_DONE: return NULL again.
ReturnNull ==
    /\ status = "SS_DONE"
    /\ UNCHANGED vars

Next ==
    \/ Start
    \/ NextOuter \/ Finish
    \/ Eliminate \/ Continue \/ Return
    \/ ReturnNull

=============================================================================
