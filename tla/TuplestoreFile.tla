--------------------------- MODULE TuplestoreFile ---------------------------
(***************************************************************************)
(* The implementation of a tuplestore (backend/utils/sort/tuplestore.c):   *)
(* an array while the tuples fit into memory, then a file with one seek    *)
(* position that serves reading and writing in turn.  Reading is forwards. *)
(* Positions in the file count tuples.  The n-th tuple put is named n.     *)
(***************************************************************************)
EXTENDS Integers, Sequences

CONSTANTS
    MaxKBytes,   \* the memory limits to check, in tuples
    MaxTuples    \* bound on the tuples put

ASSUME LimitsAssumption == MaxKBytes \subseteq Nat /\ MaxTuples \in Nat

VARIABLES
    status,          \* state->status
    rewind,          \* is EXEC_FLAG_REWIND set in state->eflags
    availMem,        \* memory left, below 0 when lacking
    memtuples,       \* the array in memory
    current,         \* index of the next tuple in the array
    markpos_current, \* saved current
    eof_reached,     \* read reached EOF
    file,            \* contents of state->myfile
    seek,            \* its seek position
    readpos,         \* saved read position
    writepos,        \* saved write position
    markpos,         \* marked position in the file
    written,         \* history: the number of tuples put
    trimmed,         \* history: the number of tuples given up at the front
    marked,          \* history: may the caller go back to the mark
    got              \* the tuple the last call returned, 0 for none

array   == <<availMem, memtuples, current, markpos_current>>
onfile  == <<file, seek, readpos, writepos, markpos>>
history == <<written, trimmed, marked>>
vars    == <<status, rewind, availMem, memtuples, current, markpos_current,
             eof_reached, file, seek, readpos, writepos, markpos,
             written, trimmed, marked, got>>

\* tuplestore_begin_common and tuplestore_set_eflags.
Init ==
    /\ status = "TSS_INMEM"
    /\ rewind \in BOOLEAN
    /\ availMem \in MaxKBytes
    /\ memtuples = <<>>
    /\ current = 0
    /\ markpos_current = 0
    /\ eof_reached = FALSE
    /\ file = <<>>
    /\ seek = 0 /\ readpos = 0 /\ writepos = 0 /\ markpos = 0
    /\ written = 0 /\ trimmed = 0 /\ marked = TRUE
    /\ got = 0

-----------------------------------------------------------------------------
(* tuplestore_puttuple_common. *)

\* WRITETUP at a position of the file.
WriteAt(position, tuple) ==
    [k \in 1..(IF position < Len(file) THEN Len(file) ELSE position + 1) |->
        IF k = position + 1 THEN tuple ELSE file[k]]

\* The array while the new tuple is in it; at EOF the read position follows.
PutInArray ==
    /\ memtuples' = Append(memtuples, written + 1)
    /\ current' = IF eof_reached THEN Len(memtuples) + 1 ELSE current
    /\ availMem' = availMem - 1

\* The tuple fits.
PutInMemory ==
    /\ status = "TSS_INMEM"
    /\ availMem >= 1
    /\ PutInArray
    /\ UNCHANGED <<status, markpos_current, onfile>>

\* dumptuples passes each position once and saves those it meets.
DumpPositions(last) ==
    /\ readpos' = IF current' \in 0..last THEN current' ELSE readpos
    /\ markpos' = IF markpos_current \in 0..last THEN markpos_current ELSE markpos

\* It does not: dumptuples writes the whole array to the file.
PutAndDump ==
    /\ status = "TSS_INMEM"
    /\ availMem < 1
    /\ current' = IF eof_reached THEN Len(memtuples) + 1 ELSE current
    /\ file' = Append(memtuples, written + 1)
    /\ seek' = Len(memtuples) + 1
    /\ DumpPositions(Len(memtuples) + 1)
    /\ memtuples' = <<>>
    /\ availMem' = availMem + Len(memtuples)
    /\ status' = "TSS_WRITEFILE"
    /\ UNCHANGED <<markpos_current, writepos>>

PutInFile ==
    /\ status = "TSS_WRITEFILE"
    /\ file' = WriteAt(seek, written + 1)
    /\ seek' = seek + 1
    /\ UNCHANGED <<status, array, readpos, writepos, markpos>>

\* Mutant of SwitchAndPut: the read position is not saved.
SwitchForgetsReadpos ==
    /\ status = "TSS_READFILE"
    /\ file' = WriteAt(writepos, written + 1)
    /\ seek' = writepos + 1
    /\ status' = "TSS_WRITEFILE"
    /\ UNCHANGED <<array, readpos, writepos, markpos>>

\* Switch from reading to writing.
SwitchAndPut ==
    /\ status = "TSS_READFILE"
    /\ readpos' = IF eof_reached THEN readpos ELSE seek
    /\ file' = WriteAt(writepos, written + 1)
    /\ seek' = writepos + 1
    /\ status' = "TSS_WRITEFILE"
    /\ UNCHANGED <<array, writepos, markpos>>

Put ==
    /\ written < MaxTuples
    /\ PutInMemory \/ PutAndDump \/ PutInFile \/ SwitchAndPut
    /\ written' = written + 1
    /\ got' = 0
    /\ UNCHANGED <<rewind, eof_reached, trimmed, marked>>

-----------------------------------------------------------------------------
(* tuplestore_gettuple, forward. *)

GetFromMemory ==
    /\ status = "TSS_INMEM"
    /\ IF current < Len(memtuples)
       THEN /\ got' = memtuples[current + 1]
            /\ current' = current + 1
            /\ UNCHANGED eof_reached
       ELSE /\ got' = 0
            /\ eof_reached' = TRUE
            /\ UNCHANGED current
    /\ UNCHANGED <<status, rewind, availMem, memtuples, markpos_current, onfile, history>>

\* Reading from the file, position being where the next tuple starts.
ReadAt(position) ==
    IF position < Len(file)
    THEN /\ got' = file[position + 1]
         /\ seek' = position + 1
         /\ UNCHANGED eof_reached
    ELSE /\ got' = 0
         /\ seek' = position
         /\ eof_reached' = TRUE

\* At EOF in a file that is being written: nothing changes.
GetAtEof ==
    /\ status = "TSS_WRITEFILE" /\ eof_reached
    /\ got' = 0
    /\ UNCHANGED <<status, rewind, array, eof_reached, onfile, history>>

\* Switch from writing to reading.
SwitchAndGet ==
    /\ status = "TSS_WRITEFILE" /\ ~eof_reached
    /\ writepos' = seek
    /\ status' = "TSS_READFILE"
    /\ ReadAt(readpos)
    /\ UNCHANGED <<rewind, array, file, readpos, markpos, history>>

GetFromFile ==
    /\ status = "TSS_READFILE"
    /\ ReadAt(seek)
    /\ UNCHANGED <<status, rewind, array, file, readpos, writepos, markpos, history>>

Get == GetFromMemory \/ GetAtEof \/ SwitchAndGet \/ GetFromFile

-----------------------------------------------------------------------------
(* tuplestore_rescan, catchup, markpos, restorepos and trim. *)

\* The read position becomes position, in all three states.
MoveTo(inMemory, inFile) ==
    /\ eof_reached' = FALSE
    /\ current' = IF status = "TSS_INMEM" THEN inMemory ELSE current
    /\ readpos' = IF status = "TSS_WRITEFILE" THEN inFile ELSE readpos
    /\ seek' = IF status = "TSS_READFILE" THEN inFile ELSE seek
    /\ UNCHANGED <<file, writepos, markpos>>

Rescan ==
    /\ rewind
    /\ MoveTo(0, 0)
    /\ got' = 0
    /\ UNCHANGED <<status, rewind, availMem, memtuples, markpos_current, history>>

\* Mutant of Trim: the last tuple to keep is given up too.
TrimOneTooMany(position, mark, keep) ==
    LET nremove == IF rewind \/ status # "TSS_INMEM" \/ position < keep THEN 0
                   ELSE position - keep + 1
    IN  /\ memtuples' = SubSeq(memtuples, nremove + 1, Len(memtuples))
        /\ availMem' = availMem + nremove
        /\ current' = position - nremove
        /\ markpos_current' = mark - nremove
        /\ trimmed' = trimmed + nremove

\* Mutant of Trim: the mark is not shifted.
TrimKeepsMark(position, mark, keep) ==
    LET nremove == IF rewind \/ status # "TSS_INMEM" \/ position < keep THEN 0
                   ELSE position - keep
    IN  /\ memtuples' = SubSeq(memtuples, nremove + 1, Len(memtuples))
        /\ availMem' = availMem + nremove
        /\ current' = position - nremove
        /\ markpos_current' = mark
        /\ trimmed' = trimmed + nremove

\* tuplestore_trim for a caller that needs neither rewind nor backward scan:
\* give up the tuples before position, but for the last keep of them.
Trim(position, mark, keep) ==
    LET nremove == IF rewind \/ status # "TSS_INMEM" \/ position < keep THEN 0
                   ELSE position - keep
    IN  /\ memtuples' = SubSeq(memtuples, nremove + 1, Len(memtuples))
        /\ availMem' = availMem + nremove
        /\ current' = position - nremove
        /\ markpos_current' = mark - nremove
        /\ trimmed' = trimmed + nremove

CatchupInMemory ==
    /\ status = "TSS_INMEM"
    /\ eof_reached' = FALSE
    /\ Trim(Len(memtuples), markpos_current, 0)
    /\ UNCHANGED onfile

CatchupInFile ==
    /\ status # "TSS_INMEM"
    /\ MoveTo(current, IF status = "TSS_WRITEFILE" THEN seek ELSE writepos)
    /\ UNCHANGED <<availMem, memtuples, markpos_current, trimmed>>

Catchup ==
    /\ CatchupInMemory \/ CatchupInFile
    /\ marked' = (marked /\ rewind)
    /\ got' = 0
    /\ UNCHANGED <<status, rewind, written>>

MarkInMemory ==
    /\ status = "TSS_INMEM"
    /\ Trim(current, current, 1)
    /\ UNCHANGED onfile

MarkInFile ==
    /\ status # "TSS_INMEM"
    /\ markpos' = IF status = "TSS_WRITEFILE" /\ ~eof_reached THEN readpos ELSE seek
    /\ UNCHANGED <<array, file, seek, readpos, writepos, trimmed>>

MarkPos ==
    /\ MarkInMemory \/ MarkInFile
    /\ marked' = TRUE
    /\ got' = 0
    /\ UNCHANGED <<status, rewind, eof_reached, written>>

\* The caller must not go back behind a catch-up that has trimmed the store.
RestorePos ==
    /\ marked
    /\ MoveTo(markpos_current, markpos)
    /\ got' = 0
    /\ UNCHANGED <<status, rewind, availMem, memtuples, markpos_current, history>>

Next == Put \/ Get \/ Rescan \/ Catchup \/ MarkPos \/ RestorePos

Spec == Init /\ [][Next]_vars

-----------------------------------------------------------------------------
(* The refinement mapping. *)

ReadPosition ==
    CASE status = "TSS_INMEM"    -> current
      [] status = "TSS_WRITEFILE" -> IF eof_reached THEN seek ELSE readpos
      [] status = "TSS_READFILE" -> seek

MarkPosition == IF status = "TSS_INMEM" THEN markpos_current ELSE markpos

Store == INSTANCE TupleStoreSpec WITH
    store <- [tuples |-> [n \in 1..written |-> n],
              pos    |-> trimmed + ReadPosition,
              mark   |-> IF marked THEN trimmed + MarkPosition ELSE -1,
              eof    |-> eof_reached,
              rewind |-> rewind]

-----------------------------------------------------------------------------
(* Invariants and properties. *)


\* The tuples not given up are in the array, or in the file, in their order.
Contents == IF status = "TSS_INMEM" THEN memtuples ELSE file

\* The counters stay within their ranges; the memory left may go below 0.
TypeOK ==
    /\ status \in {"TSS_INMEM", "TSS_WRITEFILE", "TSS_READFILE"}
    /\ rewind \in BOOLEAN /\ eof_reached \in BOOLEAN /\ marked \in BOOLEAN
    /\ availMem \in Int /\ current \in Nat /\ markpos_current \in Int
    /\ seek \in Nat /\ readpos \in Nat /\ writepos \in Nat /\ markpos \in Nat
    /\ written \in 0..MaxTuples /\ trimmed \in 0..written
    /\ got \in 0..written

\* Every position lies within the contents and the seek position is the one
\* that the state says it is; the mark may lie before the contents only when
\* the caller must not use it.  A store that may be rewound gives up nothing.
PositionsInv ==
    /\ Contents = [k \in 1..written - trimmed |-> trimmed + k]
    /\ ReadPosition \in 0..Len(Contents)
    /\ eof_reached => ReadPosition = Len(Contents)
    /\ marked => MarkPosition \in 0..Len(Contents)
    /\ status = "TSS_INMEM" => file = <<>>
    /\ status = "TSS_WRITEFILE" => memtuples = <<>> /\ seek = Len(file)
    /\ status = "TSS_READFILE" => memtuples = <<>> /\ writepos = Len(file)
    /\ rewind => trimmed = 0

\* The tuplestore is a sequence with a read position and a mark, whichever of
\* its three states it is in when it is called, and across every change of
\* state: each call returns the tuple it should.
ImplementsStore == Store!Init /\ [][Store!Next]_(Store!vars)

=============================================================================
