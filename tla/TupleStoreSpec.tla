--------------------------- MODULE TupleStoreSpec ---------------------------
(***************************************************************************)
(* The promise of a tuplestore as a state machine: its caller may put and  *)
(* get tuples in any order, rewind, catch up, mark and restore; the n-th   *)
(* tuple put is named n.                                                   *)
(***************************************************************************)
EXTENDS TupleStore

VARIABLES
    store,  \* the record of TupleStore
    got     \* the tuple the last call returned, 0 for none

vars == <<store, got>>

Init ==
    /\ \E rewind \in BOOLEAN : store = tuplestore_begin(rewind)
    /\ got = 0

Put == /\ store' = tuplestore_puttupleslot(store, Len(store.tuples) + 1)
       /\ got' = 0

Get == /\ store' = tuplestore_gettupleslot(store)
       /\ got' = IF HasNext(store) THEN NextTuple(store) ELSE 0

Rescan == /\ store.rewind
          /\ store' = tuplestore_rescan(store)
          /\ got' = 0

Catchup == store' = tuplestore_catchup(store) /\ got' = 0

MarkPos == store' = tuplestore_markpos(store) /\ got' = 0

RestorePos == /\ store.mark # NoMark
              /\ store' = tuplestore_restorepos(store)
              /\ got' = 0

Next == Put \/ Get \/ Rescan \/ Catchup \/ MarkPos \/ RestorePos

Spec == Init /\ [][Next]_vars

=============================================================================
