----------------------------- MODULE TupleStore -----------------------------
(***************************************************************************)
(* What a tuplestore (backend/utils/sort/tuplestore.c) is to its callers:  *)
(* a sequence of tuples with a read position and a mark, read forwards.    *)
(* Each function of the C module is an operator on records; how they keep  *)
(* the tuples in memory or in a file is the business of TuplestoreFile.    *)
(***************************************************************************)
EXTENDS Integers, Sequences

NoMark == -1  \* the marked tuple may have been given up

\* A store is [tuples, pos, mark, eof, rewind]: pos tuples have been read, mark
\* is the position marked, eof is set once a read has found no tuple, rewind is
\* set when the caller asked for EXEC_FLAG_REWIND.
tuplestore_begin(rewind) ==
    [tuples |-> <<>>, pos |-> 0, mark |-> 0, eof |-> FALSE, rewind |-> rewind]

\* A reader that has reached the end stays there.
tuplestore_puttupleslot(s, tuple) ==
    [s EXCEPT !.tuples = Append(@, tuple),
              !.pos    = IF s.eof THEN Len(s.tuples) + 1 ELSE @]

HasNext(s)   == s.pos < Len(s.tuples)
NextTuple(s) == s.tuples[s.pos + 1]

\* Read forwards: the caller gets NextTuple(s), or nothing at the end.
tuplestore_gettupleslot(s) ==
    IF HasNext(s) THEN [s EXCEPT !.pos = @ + 1] ELSE [s EXCEPT !.eof = TRUE]

\* For a caller that asked for EXEC_FLAG_REWIND.
tuplestore_rescan(s) == [s EXCEPT !.pos = 0, !.eof = FALSE]

\* Everything written so far counts as read; without EXEC_FLAG_REWIND the
\* tuples are gone, and with them the mark.
tuplestore_catchup(s) ==
    [s EXCEPT !.pos  = Len(s.tuples),
              !.eof  = FALSE,
              !.mark = IF s.rewind THEN @ ELSE NoMark]

tuplestore_markpos(s) == [s EXCEPT !.mark = s.pos]

tuplestore_restorepos(s) == [s EXCEPT !.pos = s.mark, !.eof = FALSE]

Stores(Tuples) ==
    [tuples : Seq(Tuples), pos : Nat, mark : Nat \cup {NoMark},
     eof : BOOLEAN, rewind : BOOLEAN]

=============================================================================
