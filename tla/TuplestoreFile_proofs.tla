----------------------- MODULE TuplestoreFile_proofs -----------------------
(***************************************************************************)
(* A tuplestore is a sequence with a read position and a mark, for every   *)
(* memory limit and every number of tuples: the positions in the array and *)
(* in the file are an inductive invariant, and with it each call does what *)
(* TupleStoreSpec says, whichever state the store is in.                   *)
(***************************************************************************)
EXTENDS TuplestoreFile, TLAPS

-----------------------------------------------------------------------------
(* The sequences a tuplestore consists of. *)

\* The tuples t + 1, ..., t + n.
Run(t, n) == [k \in 1..n |-> t + k]

LEMMA RunIsSeq ==
    ASSUME NEW t \in Nat, NEW n \in Nat
    PROVE  /\ Run(t, n) \in Seq(Nat)
           /\ Len(Run(t, n)) = n
           /\ \A k \in 1..n : Run(t, n)[k] = t + k
  BY DEF Run

\* Two sequences with the same elements are equal.
LEMMA SeqsEqual ==
    ASSUME NEW s \in Seq(Nat), NEW r \in Seq(Nat), Len(s) = Len(r),
           \A k \in 1..Len(s) : s[k] = r[k]
    PROVE  s = r
<1>1. s = [k \in 1..Len(s) |-> s[k]] /\ r = [k \in 1..Len(r) |-> r[k]]
  OBVIOUS
<1>2. QED
  BY <1>1

LEMMA RunAppend ==
    ASSUME NEW t \in Nat, NEW n \in Nat
    PROVE  Append(Run(t, n), t + n + 1) = Run(t, n + 1)
<1> DEFINE s == Append(Run(t, n), t + n + 1)
<1>0. Run(t, n) \in Seq(Nat) /\ Len(Run(t, n)) = n /\ t + n + 1 \in Nat
  BY RunIsSeq
<1>1. /\ s \in Seq(Nat) /\ Len(s) = n + 1
      /\ \A k \in 1..n : s[k] = Run(t, n)[k]
      /\ s[n + 1] = t + n + 1
  BY <1>0
<1>2. /\ Run(t, n + 1) \in Seq(Nat) /\ Len(Run(t, n + 1)) = n + 1
      /\ \A k \in 1..n + 1 : Run(t, n + 1)[k] = t + k
  BY RunIsSeq
<1>3. \A k \in 1..n : s[k] = t + k
  BY <1>1, RunIsSeq
<1> HIDE DEF s
<1>4. \A k \in 1..Len(s) : s[k] = Run(t, n + 1)[k]
  BY <1>1, <1>2, <1>3
<1>5. s = Run(t, n + 1)
  BY <1>1, <1>2, <1>4, SeqsEqual
<1>6. QED
  BY <1>5 DEF s

\* Giving up the first m tuples.
LEMMA RunTrim ==
    ASSUME NEW t \in Nat, NEW n \in Nat, NEW m \in 0..n
    PROVE  SubSeq(Run(t, n), m + 1, Len(Run(t, n))) = Run(t + m, n - m)
<1> DEFINE s == SubSeq(Run(t, n), m + 1, Len(Run(t, n)))
<1>1. Run(t, n) \in Seq(Nat) /\ Len(Run(t, n)) = n
  BY RunIsSeq
<1>2. /\ s \in Seq(Nat) /\ Len(s) = n - m
      /\ \A k \in 1..n - m : s[k] = Run(t, n)[m + k]
  BY <1>1
<1> t + m \in Nat /\ n - m \in Nat
  OBVIOUS
<1>3. /\ Run(t + m, n - m) \in Seq(Nat) /\ Len(Run(t + m, n - m)) = n - m
      /\ \A k \in 1..n - m : Run(t + m, n - m)[k] = t + m + k
  BY RunIsSeq
<1>4. \A k \in 1..n - m : m + k \in 1..n /\ Run(t, n)[m + k] = t + (m + k)
  BY RunIsSeq
<1> HIDE DEF s
<1>5. \A k \in 1..Len(s) : s[k] = Run(t + m, n - m)[k]
  BY <1>2, <1>3, <1>4
<1>6. s = Run(t + m, n - m)
  BY <1>2, <1>3, <1>5, SeqsEqual
<1>7. QED
  BY <1>6 DEF s

\* Writing behind the last tuple of the file.
LEMMA RunWrite ==
    ASSUME NEW t \in Nat, NEW n \in Nat, file = Run(t, n)
    PROVE  WriteAt(n, t + n + 1) = Run(t, n + 1)
<1>1. Len(file) = n /\ \A k \in 1..n : file[k] = t + k
  BY RunIsSeq
<1>2. WriteAt(n, t + n + 1) = [k \in 1..n + 1 |-> IF k = n + 1 THEN t + n + 1 ELSE file[k]]
  BY <1>1 DEF WriteAt
<1>3. \A k \in 1..n + 1 : (IF k = n + 1 THEN t + n + 1 ELSE file[k]) = t + k
  BY <1>1
<1>4. QED
  BY <1>2, <1>3 DEF Run

-----------------------------------------------------------------------------
(* The positions. *)

FileInv == TypeOK /\ PositionsInv

\* The tuples kept.
kept == written - trimmed

\* Where they are: the tuples trimmed + 1, ..., written.
KeptInPlace ==
    /\ kept \in Nat /\ written \in Nat /\ trimmed \in Nat
    /\ trimmed + kept + 1 = written + 1
    /\ Contents = Run(trimmed, kept)
    /\ Len(Contents) = kept
    /\ status = "TSS_INMEM" => memtuples = Run(trimmed, kept) /\ Len(memtuples) = kept
    /\ status # "TSS_INMEM" => file = Run(trimmed, kept) /\ Len(file) = kept

LEMMA WhereTuplesAre == FileInv => KeptInPlace
<1> SUFFICES ASSUME FileInv PROVE KeptInPlace
  OBVIOUS
<1>1. /\ kept \in Nat /\ written \in Nat /\ trimmed \in Nat
      /\ trimmed + kept + 1 = written + 1
  BY DEF FileInv, TypeOK, kept
<1>2. Contents = Run(trimmed, kept)
  BY DEF FileInv, PositionsInv, kept, Run
<1>3. Len(Run(trimmed, kept)) = kept
  BY <1>1, RunIsSeq
<1>4. QED
  BY <1>1, <1>2, <1>3 DEF Contents, KeptInPlace

LEMMA InitFile == Init => FileInv
<1> SUFFICES ASSUME Init PROVE FileInv
  OBVIOUS
<1>1. TypeOK
  <2>1. rewind \in BOOLEAN /\ eof_reached \in BOOLEAN /\ marked \in BOOLEAN
    BY Zenon DEF Init
  <2>2. availMem \in Int
    BY LimitsAssumption DEF Init
  <2>3. QED
    BY <2>1, <2>2, LimitsAssumption DEF Init, TypeOK
<1>2. Contents = <<>> /\ written - trimmed = 0 /\ Run(0, 0) = <<>>
  BY DEF Init, Contents, Run
<1>3. PositionsInv
  BY <1>1, <1>2 DEF Init, PositionsInv, ReadPosition, MarkPosition, Run
<1>4. QED
  BY <1>1, <1>3 DEF FileInv

\* A tuple is put at the end of the array or of the file.
LEMMA PutAppends ==
    ASSUME FileInv, Put
    PROVE  /\ written' = written + 1 /\ trimmed' = trimmed /\ kept' = kept + 1
           /\ Contents' = Run(trimmed', kept') /\ Len(Contents') = kept + 1
<1> KeptInPlace
  BY WhereTuplesAre
<1> USE DEF KeptInPlace
<1>1. written' = written + 1 /\ trimmed' = trimmed /\ kept' = kept + 1
  BY DEF Put, kept
<1>2. Append(Run(trimmed, kept), written + 1) = Run(trimmed, kept + 1)
  BY RunAppend
<1>3. file = Run(trimmed, kept) => WriteAt(kept, written + 1) = Run(trimmed, kept + 1)
  BY RunWrite
<1>4. Contents' = Run(trimmed, kept + 1)
  <2>1. CASE PutInMemory
    BY <2>1, <1>2 DEF PutInMemory, PutInArray, Contents
  <2>2. CASE PutAndDump
    BY <2>2, <1>2 DEF PutAndDump, Contents
  <2>3. CASE PutInFile
    BY <2>3, <1>3 DEF PutInFile, Contents, FileInv, PositionsInv
  <2>4. CASE SwitchAndPut
    BY <2>4, <1>3 DEF SwitchAndPut, Contents, FileInv, PositionsInv
  <2>5. QED
    BY <2>1, <2>2, <2>3, <2>4 DEF Put
<1>5. Len(Run(trimmed, kept + 1)) = kept + 1
  BY RunIsSeq
<1>6. QED
  BY <1>1, <1>4, <1>5

\* Where the state of the store says they are.
LEMMA Positions ==
    /\ status = "TSS_INMEM" => ReadPosition = current /\ MarkPosition = markpos_current
    /\ status # "TSS_INMEM" => MarkPosition = markpos
    /\ status = "TSS_WRITEFILE" /\ eof_reached => ReadPosition = seek
    /\ status = "TSS_WRITEFILE" /\ ~eof_reached => ReadPosition = readpos
    /\ status = "TSS_READFILE" => ReadPosition = seek
<1>1. /\ status = "TSS_INMEM" => ReadPosition = current /\ MarkPosition = markpos_current
      /\ status # "TSS_INMEM" => MarkPosition = markpos
      /\ status = "TSS_READFILE" => ReadPosition = seek
  BY DEF ReadPosition, MarkPosition
<1>2. ASSUME status = "TSS_WRITEFILE" PROVE ReadPosition = IF eof_reached THEN seek ELSE readpos
  BY <1>2 DEF ReadPosition
<1>3. QED
  BY <1>1, <1>2

\* A reader at the end stays there, one that is not stays where it is.
LEMMA PutPositions ==
    ASSUME FileInv, Put
    PROVE  /\ eof_reached => ReadPosition' = kept + 1
           /\ ~eof_reached => ReadPosition' = ReadPosition
           /\ marked => MarkPosition' = MarkPosition
<1> KeptInPlace
  BY WhereTuplesAre
<1> USE DEF KeptInPlace
<1>1. CASE PutInMemory
  BY <1>1, Positions DEF Put, PutInMemory, PutInArray, onfile, ReadPosition, MarkPosition
<1>2. CASE PutAndDump
  <2>1. status = "TSS_INMEM" /\ status' = "TSS_WRITEFILE" /\ eof_reached' = eof_reached
    BY <1>2 DEF Put, PutAndDump
  <2>2. ASSUME eof_reached PROVE ReadPosition' = kept + 1
    BY <1>2, <2>1, <2>2 DEF PutAndDump, ReadPosition
  <2>3. ASSUME ~eof_reached PROVE ReadPosition' = ReadPosition
    BY <1>2, <2>1, <2>3 DEF PutAndDump, DumpPositions, ReadPosition, FileInv, PositionsInv
  <2>4. marked => MarkPosition' = MarkPosition
    BY <1>2, <2>1 DEF PutAndDump, DumpPositions, MarkPosition, FileInv, PositionsInv
  <2>5. QED
    BY <2>2, <2>3, <2>4
<1>3. CASE PutInFile
  BY <1>3 DEF Put, PutInFile, array, ReadPosition, MarkPosition, FileInv, PositionsInv
<1>4. CASE SwitchAndPut
  BY <1>4 DEF Put, SwitchAndPut, array, ReadPosition, MarkPosition, FileInv, PositionsInv
<1>5. QED
  BY <1>1, <1>2, <1>3, <1>4 DEF Put

\* The seek position is at the end of a file that is being written.
LEMMA PutStates ==
    ASSUME FileInv, Put
    PROVE  /\ status' = "TSS_INMEM" => file' = <<>>
           /\ status' # "TSS_INMEM" => memtuples' = <<>> /\ seek' = Len(file')
           /\ status' # "TSS_READFILE"
           /\ UNCHANGED <<eof_reached, marked, rewind>>
<1> KeptInPlace /\ Len(Contents') = kept + 1
  BY WhereTuplesAre, PutAppends
<1> USE DEF KeptInPlace
<1>1. CASE PutInMemory
  BY <1>1 DEF Put, PutInMemory, onfile, FileInv, PositionsInv
<1>2. CASE PutAndDump
  BY <1>2 DEF Put, PutAndDump, Contents
<1>3. CASE PutInFile
  BY <1>3 DEF Put, PutInFile, array, Contents, FileInv, PositionsInv
<1>4. CASE SwitchAndPut
  BY <1>4 DEF Put, SwitchAndPut, array, Contents, FileInv, PositionsInv
<1>5. QED
  BY <1>1, <1>2, <1>3, <1>4 DEF Put

LEMMA PutFile ==
    ASSUME FileInv, Put
    PROVE  FileInv'
<1> KeptInPlace
  BY WhereTuplesAre
<1> written' = written + 1 /\ trimmed' = trimmed /\ kept' = kept + 1
  BY PutAppends
<1> Contents' = Run(trimmed', kept') /\ Len(Contents') = kept + 1
  BY PutAppends
<1> USE LimitsAssumption DEF KeptInPlace
<1>1. TypeOK'
  <2>1. CASE PutInMemory
    BY <2>1 DEF Put, PutInMemory, PutInArray, onfile, FileInv, TypeOK
  <2>2. CASE PutAndDump
    BY <2>2 DEF Put, PutAndDump, DumpPositions, FileInv, TypeOK
  <2>3. CASE PutInFile
    BY <2>3 DEF Put, PutInFile, array, FileInv, TypeOK
  <2>4. CASE SwitchAndPut
    BY <2>4 DEF Put, SwitchAndPut, array, FileInv, TypeOK
  <2>5. QED
    BY <2>1, <2>2, <2>3, <2>4 DEF Put
<1>2. PositionsInv'
  <2>1. Contents' = [k \in 1..written' - trimmed' |-> trimmed' + k]
    BY DEF Run, kept
  <2>2. /\ ReadPosition' \in 0..Len(Contents')
        /\ eof_reached => ReadPosition' = Len(Contents')
    BY PutPositions DEF FileInv, PositionsInv
  <2>3. marked => MarkPosition' \in 0..Len(Contents')
    BY PutPositions DEF FileInv, PositionsInv
  <2>4. rewind => trimmed' = 0
    BY DEF FileInv, PositionsInv
  <2>5. QED
    BY <2>1, <2>2, <2>3, <2>4, PutStates, SMTT(60) DEF PositionsInv
<1>3. QED
  BY <1>1, <1>2 DEF FileInv

\* What a call reads leaves the tuples and the mark alone.
LEMMA GetKeeps ==
    ASSUME FileInv, Get
    PROVE  /\ UNCHANGED <<rewind, availMem, memtuples, markpos_current, file, readpos, markpos,
                          written, trimmed, marked>>
           /\ status' = "TSS_INMEM" <=> status = "TSS_INMEM"
           /\ status' = "TSS_WRITEFILE" => eof_reached /\ UNCHANGED <<status, seek>>
           /\ Contents' = Contents /\ MarkPosition' = MarkPosition
<1>1. /\ UNCHANGED <<rewind, availMem, memtuples, markpos_current, file, readpos, markpos,
                     written, trimmed, marked>>
      /\ status' = "TSS_INMEM" <=> status = "TSS_INMEM"
      /\ status' = "TSS_WRITEFILE" => eof_reached /\ UNCHANGED <<status, seek>>
  BY DEF Get, GetFromMemory, GetAtEof, SwitchAndGet, GetFromFile, array, onfile, history
<1>2. QED
  BY <1>1 DEF Contents, MarkPosition

\* The tuple to be read is the one after those read.
LEMMA GetReads ==
    ASSUME FileInv, Get
    PROVE  /\ ReadPosition < kept =>
                got' = trimmed + ReadPosition + 1 /\ ReadPosition' = ReadPosition + 1
                /\ eof_reached' = eof_reached
           /\ ReadPosition = kept =>
                got' = 0 /\ ReadPosition' = kept /\ eof_reached' = TRUE
           /\ status' = "TSS_READFILE" => writepos' = Len(file)
<1> KeptInPlace
  BY WhereTuplesAre
<1> USE DEF KeptInPlace
<1>0. \A k \in 1..kept : Run(trimmed, kept)[k] = trimmed + k
  BY RunIsSeq
<1>1. ReadPosition \in 0..kept /\ (eof_reached => ReadPosition = kept)
  BY DEF FileInv, PositionsInv
<1>2. CASE GetFromMemory
  BY <1>0, <1>1, <1>2 DEF GetFromMemory, ReadPosition
<1>3. CASE GetAtEof
  <2>1. eof_reached = TRUE
    BY <1>3 DEF GetAtEof, FileInv, TypeOK
  <2>2. UNCHANGED <<status, seek, eof_reached>> /\ got' = 0 /\ status = "TSS_WRITEFILE"
    BY <1>3 DEF GetAtEof, onfile
  <2>3. ReadPosition' = ReadPosition
    BY <2>1, <2>2 DEF ReadPosition
  <2>4. QED
    BY <1>1, <2>1, <2>2, <2>3
<1>4. ASSUME NEW position \in 0..kept, ReadAt(position), file = Run(trimmed, kept)
      PROVE  /\ position < kept =>
                  got' = trimmed + position + 1 /\ seek' = position + 1
                  /\ eof_reached' = eof_reached
             /\ position = kept =>
                  got' = 0 /\ seek' = kept /\ eof_reached' = TRUE
  <2>1. Len(file) = kept
    BY <1>4, RunIsSeq
  <2>2. CASE position < kept
    BY <1>0, <1>4, <2>1, <2>2 DEF ReadAt
  <2>3. CASE position = kept
    BY <1>4, <2>1, <2>3 DEF ReadAt
  <2>4. QED
    BY <2>2, <2>3
<1>5. CASE SwitchAndGet
  <2>1. /\ ReadAt(readpos) /\ status = "TSS_WRITEFILE" /\ status' = "TSS_READFILE"
        /\ writepos' = Len(file) /\ file = Run(trimmed, kept)
    BY <1>5 DEF SwitchAndGet, FileInv, PositionsInv
  <2>2. ReadPosition = readpos
    BY <1>5 DEF SwitchAndGet, ReadPosition
  <2>3. ReadPosition' = seek'
    BY <2>1 DEF ReadPosition
  <2>4. QED
    BY <1>1, <1>4, <2>1, <2>2, <2>3
<1>6. CASE GetFromFile
  <2>1. /\ ReadAt(seek) /\ status = "TSS_READFILE" /\ status' = "TSS_READFILE"
        /\ writepos' = Len(file) /\ file = Run(trimmed, kept)
    BY <1>6 DEF GetFromFile, FileInv, PositionsInv
  <2>2. ReadPosition = seek /\ ReadPosition' = seek'
    BY <2>1 DEF ReadPosition
  <2>3. QED
    BY <1>1, <1>4, <2>1, <2>2
<1>7. QED
  BY <1>2, <1>3, <1>5, <1>6 DEF Get

LEMMA GetFile ==
    ASSUME FileInv, Get
    PROVE  FileInv'
<1> KeptInPlace
  BY WhereTuplesAre
<1> USE DEF KeptInPlace
<1>1. ReadPosition \in 0..kept /\ (eof_reached => ReadPosition = kept)
  BY DEF FileInv, PositionsInv
<1>2. /\ ReadPosition' \in 0..kept /\ (eof_reached' => ReadPosition' = kept)
      /\ eof_reached' \in BOOLEAN /\ got' \in 0..written
      /\ status' = "TSS_READFILE" => writepos' = Len(file)
  <2>1. CASE ReadPosition < kept
    <3>1. ~eof_reached /\ eof_reached' = eof_reached /\ ReadPosition' = ReadPosition + 1
      BY <1>1, <2>1, GetReads
    <3>2. got' \in 0..written /\ ReadPosition' \in 0..kept
      BY <1>1, <2>1, GetReads DEF kept
    <3>3. eof_reached' \in BOOLEAN
      BY <3>1 DEF FileInv, TypeOK
    <3>4. status' = "TSS_READFILE" => writepos' = Len(file)
      BY GetReads
    <3>5. QED
      BY <3>1, <3>2, <3>3, <3>4
  <2>2. CASE ReadPosition = kept
    <3>1. got' = 0 /\ ReadPosition' = kept /\ eof_reached' = TRUE
      BY <2>2, GetReads
    <3>2. got' \in 0..written /\ ReadPosition' \in 0..kept
      BY <3>1
    <3>3. eof_reached' \in BOOLEAN
      BY <3>1
    <3>4. status' = "TSS_READFILE" => writepos' = Len(file)
      BY GetReads
    <3>5. QED
      BY <3>1, <3>2, <3>3, <3>4
  <2>3. QED
    BY <1>1, <2>1, <2>2
<1>3. current' \in Nat /\ seek' \in Nat /\ writepos' \in Nat
  BY SMTT(60) DEF Get, GetFromMemory, GetAtEof, SwitchAndGet, GetFromFile, ReadAt, array, onfile,
     FileInv, TypeOK
<1>4. status' \in {"TSS_INMEM", "TSS_WRITEFILE", "TSS_READFILE"}
  BY DEF Get, GetFromMemory, GetAtEof, SwitchAndGet, GetFromFile, FileInv, TypeOK
<1>5. TypeOK'
  BY <1>2, <1>3, <1>4, GetKeeps DEF FileInv, TypeOK
<1>6. PositionsInv'
  <2>1. Contents' = [k \in 1..written' - trimmed' |-> trimmed' + k] /\ Len(Contents') = kept
    BY GetKeeps DEF FileInv, PositionsInv
  <2>2. /\ ReadPosition' \in 0..Len(Contents')
        /\ eof_reached' => ReadPosition' = Len(Contents')
    BY <1>2, <2>1
  <2>3. /\ marked' => MarkPosition' \in 0..Len(Contents')
        /\ status' = "TSS_INMEM" => file' = <<>>
        /\ rewind' => trimmed' = 0
    BY <2>1, GetKeeps DEF FileInv, PositionsInv
  <2>4. /\ status' = "TSS_WRITEFILE" => memtuples' = <<>> /\ seek' = Len(file')
        /\ status' = "TSS_READFILE" => memtuples' = <<>> /\ writepos' = Len(file')
    BY <1>2, <1>4, GetKeeps DEF FileInv, PositionsInv, TypeOK
  <2>5. QED
    BY <2>1, <2>2, <2>3, <2>4 DEF PositionsInv
<1>7. QED
  BY <1>5, <1>6 DEF FileInv

-----------------------------------------------------------------------------
(* The reader moves. *)

\* The tuples stay where they are while the read position moves.
LEMMA MoveToMoves ==
    ASSUME FileInv, NEW a, NEW b, MoveTo(a, b), UNCHANGED status
    PROVE  /\ ReadPosition' = IF status = "TSS_INMEM" THEN a ELSE b
           /\ eof_reached' = FALSE
           /\ UNCHANGED <<file, writepos, markpos>>
           /\ status = "TSS_WRITEFILE" => UNCHANGED seek
<1>1. /\ eof_reached' = FALSE /\ UNCHANGED <<file, writepos, markpos>>
      /\ status = "TSS_WRITEFILE" => UNCHANGED seek
      /\ status = "TSS_INMEM" => current' = a
      /\ status = "TSS_WRITEFILE" => readpos' = b
      /\ status = "TSS_READFILE" => seek' = b
  BY DEF MoveTo
<1>2. status \in {"TSS_INMEM", "TSS_WRITEFILE", "TSS_READFILE"}
  BY DEF FileInv, TypeOK
<1>3. ReadPosition' = IF status = "TSS_INMEM" THEN a ELSE b
  BY <1>1, <1>2 DEF ReadPosition
<1>4. QED
  BY <1>1, <1>3

\* A call that only moves the reader keeps the invariant.
LEMMA MoveToFile ==
    ASSUME FileInv, NEW a, NEW b, MoveTo(a, b), got' = 0,
           status = "TSS_INMEM" => a \in 0..kept, status # "TSS_INMEM" => b \in 0..kept,
           UNCHANGED <<status, rewind, availMem, memtuples, markpos_current,
                       written, trimmed>>,
           marked' \in BOOLEAN, marked' => marked
    PROVE  FileInv' /\ MarkPosition' = MarkPosition
<1> KeptInPlace
  BY WhereTuplesAre
<1> USE DEF KeptInPlace
<1>1. /\ eof_reached' = FALSE /\ UNCHANGED <<file, writepos, markpos>>
      /\ status = "TSS_WRITEFILE" => UNCHANGED seek
      /\ ReadPosition' \in 0..kept
  BY MoveToMoves
<1>2. Contents' = Contents /\ MarkPosition' = MarkPosition
  BY <1>1 DEF Contents, MarkPosition
<1>3. PositionsInv'
  BY <1>1, <1>2 DEF FileInv, PositionsInv
<1>4. current' \in Nat /\ readpos' \in Nat /\ seek' \in Nat
  BY DEF MoveTo, FileInv, TypeOK
<1>5. eof_reached' \in BOOLEAN
  BY <1>1
<1>6. TypeOK'
  BY <1>1, <1>4, <1>5 DEF FileInv, TypeOK
<1>7. QED
  BY <1>2, <1>3, <1>6 DEF FileInv

LEMMA RescanFile ==
    ASSUME FileInv, Rescan
    PROVE  FileInv' /\ ReadPosition' = 0 /\ MarkPosition' = MarkPosition
<1>1. MoveTo(0, 0) /\ got' = 0
      /\ UNCHANGED <<status, rewind, availMem, memtuples, markpos_current, written, trimmed, marked>>
  BY DEF Rescan, history
<1>2. kept \in Nat
  BY WhereTuplesAre DEF KeptInPlace
<1>3. marked' \in BOOLEAN /\ (marked' => marked)
  BY <1>1 DEF FileInv, TypeOK
<1>4. FileInv' /\ MarkPosition' = MarkPosition
  BY <1>1, <1>2, <1>3, MoveToFile
<1>5. ReadPosition' = 0
  BY <1>1, MoveToMoves
<1>6. QED
  BY <1>4, <1>5

LEMMA RestorePosFile ==
    ASSUME FileInv, RestorePos
    PROVE  FileInv' /\ ReadPosition' = MarkPosition /\ MarkPosition' = MarkPosition
<1>1. MoveTo(markpos_current, markpos) /\ got' = 0 /\ marked
      /\ UNCHANGED <<status, rewind, availMem, memtuples, markpos_current, written, trimmed, marked>>
  BY DEF RestorePos, history
<1>2. MarkPosition \in 0..kept /\ kept \in Nat
  BY <1>1, WhereTuplesAre DEF KeptInPlace, FileInv, PositionsInv
<1>3. marked' \in BOOLEAN /\ (marked' => marked)
  BY <1>1 DEF FileInv, TypeOK
<1>4. MarkPosition = IF status = "TSS_INMEM" THEN markpos_current ELSE markpos
  BY DEF MarkPosition
<1>5. QED
  BY <1>1, <1>2, <1>3, <1>4, MoveToFile, MoveToMoves

\* Trimming gives up no tuple that is still to be read, and none at all of a
\* store that may be rewound.
LEMMA TrimKeepsRest ==
    ASSUME FileInv, status = "TSS_INMEM", NEW position \in 0..kept, NEW mark \in Int,
           NEW keep \in {0, 1}, Trim(position, mark, keep), UNCHANGED <<written, rewind>>
    PROVE  /\ trimmed' \in trimmed..(trimmed + position) /\ trimmed' \in 0..written
           /\ availMem' \in Int
           /\ memtuples' = Run(trimmed', kept') /\ Len(memtuples') = kept'
           /\ rewind => trimmed' = trimmed
           /\ current' \in 0..kept' /\ (position = kept => current' = kept')
           /\ current' \in Nat /\ markpos_current' \in Int
           /\ trimmed' + current' = trimmed + position
           /\ trimmed' + markpos_current' = trimmed + mark
           /\ trimmed + mark \in trimmed'..written => markpos_current' \in 0..kept'
<1> KeptInPlace
  BY WhereTuplesAre
<1> USE DEF KeptInPlace
<1> DEFINE nremove == IF rewind \/ status # "TSS_INMEM" \/ position < keep THEN 0
                      ELSE position - keep
<1>1. nremove \in 0..kept /\ nremove <= position /\ (rewind => nremove = 0)
  OBVIOUS
<1>2. /\ memtuples' = SubSeq(memtuples, nremove + 1, Len(memtuples))
      /\ availMem' = availMem + nremove
      /\ current' = position - nremove
      /\ markpos_current' = mark - nremove
      /\ trimmed' = trimmed + nremove
  BY DEF Trim
<1> HIDE DEF nremove
<1>3. kept' = kept - nremove /\ availMem \in Int /\ kept = written - trimmed
  BY <1>1, <1>2 DEF kept, FileInv, TypeOK
<1>4. memtuples' = Run(trimmed', kept')
  BY <1>1, <1>2, <1>3, RunTrim, ZenonT(60)
<1>5. trimmed' \in Nat /\ kept' \in Nat
  BY <1>1, <1>2, <1>3
<1>6. Len(memtuples') = kept'
  BY <1>4, <1>5, RunIsSeq
<1>7. /\ trimmed' \in trimmed..(trimmed + position) /\ trimmed' \in 0..written
      /\ availMem' \in Int
      /\ rewind => trimmed' = trimmed
  BY <1>1, <1>2, <1>3
<1>8. current' \in 0..kept' /\ (position = kept => current' = kept')
      /\ current' \in Nat /\ markpos_current' \in Int
      /\ trimmed' + current' = trimmed + position
      /\ trimmed' + markpos_current' = trimmed + mark
  BY <1>1, <1>2, <1>3
<1>9. trimmed + mark \in trimmed'..written => markpos_current' \in 0..kept'
  BY <1>1, <1>2, <1>3
<1>10. QED
  BY <1>4, <1>6, <1>7, <1>8, <1>9

\* A call that only trims the array keeps the invariant.
LEMMA TrimFile ==
    ASSUME FileInv, status = "TSS_INMEM", NEW position \in 0..kept, NEW mark \in Int,
           NEW keep \in {0, 1}, Trim(position, mark, keep), got' = 0,
           UNCHANGED <<status, rewind, written, onfile>>,
           eof_reached' \in BOOLEAN, eof_reached' => position = kept,
           marked' \in BOOLEAN, marked' => trimmed + mark \in trimmed'..written
    PROVE  /\ FileInv'
           /\ trimmed' + ReadPosition' = trimmed + position
           /\ trimmed' + MarkPosition' = trimmed + mark
           /\ rewind => trimmed' = trimmed
<1> KeptInPlace
  BY WhereTuplesAre
<1> USE DEF KeptInPlace
<1>1. /\ trimmed' \in trimmed..(trimmed + position) /\ trimmed' \in 0..written
      /\ availMem' \in Int
      /\ memtuples' = Run(trimmed', kept') /\ Len(memtuples') = kept'
      /\ rewind => trimmed' = trimmed
  BY TrimKeepsRest
<1>2. /\ current' \in 0..kept' /\ (position = kept => current' = kept')
      /\ current' \in Nat /\ markpos_current' \in Int
      /\ trimmed' + current' = trimmed + position
      /\ trimmed' + markpos_current' = trimmed + mark
      /\ trimmed + mark \in trimmed'..written => markpos_current' \in 0..kept'
  BY TrimKeepsRest
<1>3. kept' = written - trimmed' /\ kept = written - trimmed
  BY DEF kept, onfile
<1>4. /\ eof_reached' => current' = kept'
      /\ marked' => markpos_current' \in 0..kept'
  BY <1>2
<1>5. ReadPosition' = current' /\ MarkPosition' = markpos_current' /\ Contents' = memtuples'
  BY DEF ReadPosition, MarkPosition, Contents
<1>6. PositionsInv'
  <2>1. Contents' = [k \in 1..written' - trimmed' |-> trimmed' + k]
    BY <1>1, <1>5 DEF Run, kept
  <2>2. rewind' => trimmed' = 0
    BY <1>1 DEF FileInv, PositionsInv
  <2>3. status' = "TSS_INMEM" /\ file' = <<>>
    BY DEF onfile, FileInv, PositionsInv
  <2>4. QED
    BY <1>1, <1>2, <1>4, <1>5, <2>1, <2>2, <2>3 DEF PositionsInv
<1>7. TypeOK'
  <2>1. got' \in 0..written'
    OBVIOUS
  <2>2. QED
    BY <1>1, <1>2, <2>1 DEF onfile, FileInv, TypeOK
<1>8. trimmed' + ReadPosition' = trimmed + position /\ trimmed' + MarkPosition' = trimmed + mark
  BY <1>2, <1>5
<1>9. QED
  BY <1>1, <1>6, <1>7, <1>8 DEF FileInv

LEMMA CatchupFile ==
    ASSUME FileInv, Catchup
    PROVE  /\ FileInv'
           /\ trimmed' + ReadPosition' = written
           /\ eof_reached' = FALSE
           /\ marked' => trimmed' + MarkPosition' = trimmed + MarkPosition
<1> KeptInPlace
  BY WhereTuplesAre
<1> USE DEF KeptInPlace
<1>1. UNCHANGED <<status, rewind, written>> /\ got' = 0 /\ marked' = (marked /\ rewind)
  BY DEF Catchup
<1>2. marked' \in BOOLEAN /\ (marked' => marked /\ rewind)
  BY <1>1, Zenon
<1>3. kept = written - trimmed
  BY DEF kept
<1>4. CASE CatchupInMemory
  <2>1. /\ status = "TSS_INMEM" /\ eof_reached' = FALSE /\ UNCHANGED onfile
        /\ Trim(kept, markpos_current, 0)
    BY <1>4 DEF CatchupInMemory
  <2>2. markpos_current \in Int /\ kept \in 0..kept
    BY DEF FileInv, TypeOK
  <2>3. eof_reached' \in BOOLEAN /\ (eof_reached' => kept = kept)
    BY <2>1
  <2>4. marked' => trimmed + markpos_current \in trimmed'..written
    <3>1. SUFFICES ASSUME marked, rewind PROVE trimmed + markpos_current \in trimmed'..written
      BY <1>2
    <3>2. trimmed' = trimmed
      BY <1>1, <2>1, <2>2, <3>1, TrimKeepsRest
    <3>3. markpos_current \in 0..kept
      BY <2>1, <3>1 DEF FileInv, PositionsInv, MarkPosition
    <3>4. QED
      BY <1>3, <3>2, <3>3
  <2>5. /\ FileInv'
        /\ trimmed' + ReadPosition' = trimmed + kept
        /\ trimmed' + MarkPosition' = trimmed + markpos_current
    BY <1>1, <1>2, <2>1, <2>2, <2>3, <2>4, TrimFile
  <2>6. MarkPosition = markpos_current
    BY <2>1 DEF MarkPosition
  <2>7. QED
    BY <1>3, <2>1, <2>5, <2>6
<1>5. CASE CatchupInFile
  <2> DEFINE end == IF status = "TSS_WRITEFILE" THEN seek ELSE writepos
  <2>1. /\ status # "TSS_INMEM" /\ MoveTo(current, end)
        /\ UNCHANGED <<availMem, memtuples, markpos_current, trimmed>>
    BY <1>5 DEF CatchupInFile
  <2>2. end = kept
    BY <2>1 DEF FileInv, PositionsInv, TypeOK
  <2> HIDE DEF end
  <2>3. FileInv' /\ MarkPosition' = MarkPosition
    BY <1>1, <1>2, <2>1, <2>2, MoveToFile
  <2>4. ReadPosition' = kept /\ eof_reached' = FALSE
    BY <1>1, <2>1, <2>2, MoveToMoves
  <2>5. QED
    BY <1>3, <2>1, <2>3, <2>4
<1>6. QED
  BY <1>4, <1>5 DEF Catchup

LEMMA MarkPosFile ==
    ASSUME FileInv, MarkPos
    PROVE  /\ FileInv'
           /\ trimmed' + ReadPosition' = trimmed + ReadPosition
           /\ trimmed' + MarkPosition' = trimmed + ReadPosition
<1> KeptInPlace
  BY WhereTuplesAre
<1> USE DEF KeptInPlace
<1>1. UNCHANGED <<status, rewind, written, eof_reached>> /\ got' = 0 /\ marked' = TRUE
  BY DEF MarkPos
<1>2. marked' \in BOOLEAN /\ eof_reached' \in BOOLEAN
  BY <1>1 DEF FileInv, TypeOK
<1>3. kept = written - trimmed /\ ReadPosition \in 0..kept
      /\ (eof_reached => ReadPosition = kept)
  BY DEF kept, FileInv, PositionsInv
<1>4. CASE MarkInMemory
  <2>1. status = "TSS_INMEM" /\ Trim(current, current, 1) /\ UNCHANGED onfile
        /\ ReadPosition = current
    BY <1>4 DEF MarkInMemory, ReadPosition
  <2>2. trimmed' \in trimmed..(trimmed + current)
    BY <1>1, <1>3, <2>1, TrimKeepsRest
  <2>3. trimmed + current \in trimmed'..written
    BY <1>3, <2>1, <2>2
  <2>4. QED
    BY <1>1, <1>2, <1>3, <2>1, <2>3, TrimFile
<1>5. CASE MarkInFile
  <2>1. /\ status # "TSS_INMEM"
        /\ UNCHANGED <<availMem, memtuples, current, markpos_current, file, seek, readpos,
                       writepos, trimmed>>
        /\ markpos' = IF status = "TSS_WRITEFILE" /\ ~eof_reached THEN readpos ELSE seek
    BY <1>5 DEF MarkInFile, array
  <2>2. status \in {"TSS_WRITEFILE", "TSS_READFILE"}
    BY <2>1 DEF FileInv, TypeOK
  <2>3. markpos' = ReadPosition
    BY <2>1, <2>2 DEF ReadPosition
  <2>4. ReadPosition' = ReadPosition /\ MarkPosition' = ReadPosition /\ Contents' = Contents
    BY <1>1, <2>1, <2>3 DEF ReadPosition, MarkPosition, Contents
  <2>5. TypeOK'
    BY <1>1, <1>2, <1>3, <2>1, <2>3 DEF FileInv, TypeOK
  <2>6. PositionsInv'
    BY <1>1, <1>3, <2>1, <2>4 DEF FileInv, PositionsInv
  <2>7. QED
    BY <2>1, <2>4, <2>5, <2>6 DEF FileInv
<1>6. QED
  BY <1>4, <1>5 DEF MarkPos

-----------------------------------------------------------------------------
(* The theorems. *)

LEMMA NextFile ==
    ASSUME FileInv, [Next]_vars
    PROVE  FileInv'
<1>1. CASE UNCHANGED vars
  BY <1>1 DEF vars, FileInv, TypeOK, PositionsInv, Contents, ReadPosition, MarkPosition
<1>2. QED
  BY <1>1, PutFile, GetFile, RescanFile, CatchupFile, MarkPosFile, RestorePosFile DEF Next

\* The counters of the tuplestore stay within their ranges: no call trims more
\* tuples than there are, or reads one that was never put.
THEOREM TypeCorrect == Spec => []TypeOK
<1>1. FileInv => TypeOK
  BY DEF FileInv
<1>2. QED
  BY <1>1, InitFile, NextFile, PTL DEF Spec

\* In memory or in the file, the tuples not given up are in their order, and
\* the read position and the mark lie within them (tuplestore_puttuple_common,
\* dumptuples, tuplestore_gettuple, tuplestore_trim).
THEOREM PositionsInvCorrect == Spec => []PositionsInv
<1>1. FileInv => PositionsInv
  BY DEF FileInv
<1>2. QED
  BY <1>1, InitFile, NextFile, PTL DEF Spec

-----------------------------------------------------------------------------
(* The refinement. *)

\* The abstract store of TupleStoreSpec.
store == [tuples |-> [n \in 1..written |-> n],
          pos    |-> trimmed + ReadPosition,
          mark   |-> IF marked THEN trimmed + MarkPosition ELSE -1,
          eof    |-> eof_reached,
          rewind |-> rewind]

\* Its tuples have been read, and marked, up to tuples that are kept.
LEMMA StoreFields ==
    ASSUME FileInv
    PROVE  /\ store.tuples = Run(0, written) /\ Len(store.tuples) = written
           /\ store.pos = trimmed + ReadPosition /\ store.pos \in trimmed..written
           /\ store.mark # -1 <=> marked
           /\ eof_reached => store.pos = written
<1> KeptInPlace
  BY WhereTuplesAre
<1> USE DEF KeptInPlace
<1>1. [n \in 1..written |-> n] = Run(0, written)
  BY DEF Run
<1>2. store.tuples = Run(0, written) /\ Len(store.tuples) = written
  BY <1>1, RunIsSeq DEF store
<1>3. kept = written - trimmed
  BY DEF kept
<1>4. ReadPosition \in 0..kept /\ (eof_reached => ReadPosition = kept)
  BY DEF FileInv, PositionsInv
<1>5. store.pos = trimmed + ReadPosition /\ store.pos \in trimmed..written
      /\ (eof_reached => store.pos = written)
  BY <1>3, <1>4 DEF store
<1>6. store.mark # -1 <=> marked
  BY DEF store, FileInv, PositionsInv, TypeOK
<1>7. QED
  BY <1>2, <1>5, <1>6

\* The operations of TupleStore, field by field.
Fields(tuples, pos, mark, eof, mayRewind) ==
    [tuples |-> tuples, pos |-> pos, mark |-> mark, eof |-> eof, rewind |-> mayRewind]

IsStore(s) == s = Fields(s.tuples, s.pos, s.mark, s.eof, s.rewind)

LEMMA SetField ==
    ASSUME NEW s, IsStore(s), NEW v
    PROVE  /\ [s EXCEPT !.tuples = v] = Fields(v, s.pos, s.mark, s.eof, s.rewind)
           /\ [s EXCEPT !.pos = v] = Fields(s.tuples, v, s.mark, s.eof, s.rewind)
           /\ [s EXCEPT !.mark = v] = Fields(s.tuples, s.pos, v, s.eof, s.rewind)
           /\ [s EXCEPT !.eof = v] = Fields(s.tuples, s.pos, s.mark, v, s.rewind)
<1>1. [s EXCEPT !.tuples = v] = Fields(v, s.pos, s.mark, s.eof, s.rewind)
  BY DEF IsStore, Fields
<1>2. [s EXCEPT !.pos = v] = Fields(s.tuples, v, s.mark, s.eof, s.rewind)
  BY DEF IsStore, Fields
<1>3. [s EXCEPT !.mark = v] = Fields(s.tuples, s.pos, v, s.eof, s.rewind)
  BY DEF IsStore, Fields
<1>4. [s EXCEPT !.eof = v] = Fields(s.tuples, s.pos, s.mark, v, s.rewind)
  BY DEF IsStore, Fields
<1>5. QED
  BY <1>1, <1>2, <1>3, <1>4

LEMMA FieldsOfStore ==
    ASSUME NEW tuples, NEW pos, NEW mark, NEW eof, NEW mayRewind
    PROVE  LET s == Fields(tuples, pos, mark, eof, mayRewind)
           IN  /\ IsStore(s) /\ s.tuples = tuples /\ s.pos = pos /\ s.mark = mark
               /\ s.eof = eof /\ s.rewind = mayRewind
  BY DEF IsStore, Fields

LEMMA PutRecord ==
    ASSUME NEW s, IsStore(s), NEW tuple
    PROVE  Store!tuplestore_puttupleslot(s, tuple)
           = Fields(Append(s.tuples, tuple), IF s.eof THEN Len(s.tuples) + 1 ELSE s.pos,
                    s.mark, s.eof, s.rewind)
<1> DEFINE tuples == Append(s.tuples, tuple)
           pos == IF s.eof THEN Len(s.tuples) + 1 ELSE s.pos
           r == [s EXCEPT !.tuples = tuples]
<1>1. Store!tuplestore_puttupleslot(s, tuple) = [s EXCEPT !.tuples = tuples, !.pos = pos]
  BY DEF Store!tuplestore_puttupleslot
<1> HIDE DEF tuples, pos
<1>2. [s EXCEPT !.tuples = tuples, !.pos = pos] = [r EXCEPT !.pos = pos]
  OBVIOUS
<1>3. r = Fields(tuples, s.pos, s.mark, s.eof, s.rewind)
  BY SetField
<1> HIDE DEF r
<1>4. /\ IsStore(r) /\ r.tuples = tuples /\ r.mark = s.mark /\ r.eof = s.eof
      /\ r.rewind = s.rewind
  BY <1>3, FieldsOfStore
<1>5. [r EXCEPT !.pos = pos] = Fields(r.tuples, pos, r.mark, r.eof, r.rewind)
  BY <1>4, SetField
<1>6. QED
  BY <1>1, <1>2, <1>4, <1>5 DEF tuples, pos

\* Rescan and restore set the position and leave the end.
LEMMA MoveRecord ==
    ASSUME NEW s, IsStore(s), NEW pos
    PROVE  [s EXCEPT !.pos = pos, !.eof = FALSE]
           = Fields(s.tuples, pos, s.mark, FALSE, s.rewind)
<1> DEFINE r == [s EXCEPT !.pos = pos]
<1>1. [s EXCEPT !.pos = pos, !.eof = FALSE] = [r EXCEPT !.eof = FALSE]
  OBVIOUS
<1>2. r = Fields(s.tuples, pos, s.mark, s.eof, s.rewind)
  BY SetField
<1> HIDE DEF r
<1>3. /\ IsStore(r) /\ r.tuples = s.tuples /\ r.pos = pos /\ r.mark = s.mark
      /\ r.rewind = s.rewind
  BY <1>2, FieldsOfStore
<1>4. [r EXCEPT !.eof = FALSE] = Fields(r.tuples, r.pos, r.mark, FALSE, r.rewind)
  BY <1>3, SetField
<1>5. QED
  BY <1>1, <1>3, <1>4

LEMMA CatchupRecord ==
    ASSUME NEW s, IsStore(s)
    PROVE  Store!tuplestore_catchup(s)
           = Fields(s.tuples, Len(s.tuples), IF s.rewind THEN s.mark ELSE Store!NoMark,
                    FALSE, s.rewind)
<1> DEFINE end == Len(s.tuples)
           mark == IF s.rewind THEN s.mark ELSE Store!NoMark
           r == [s EXCEPT !.pos = end, !.eof = FALSE]
<1>1. Store!tuplestore_catchup(s) = [s EXCEPT !.pos = end, !.eof = FALSE, !.mark = mark]
  BY DEF Store!tuplestore_catchup
<1> HIDE DEF end, mark
<1>2. [s EXCEPT !.pos = end, !.eof = FALSE, !.mark = mark] = [r EXCEPT !.mark = mark]
  OBVIOUS
<1>3. r = Fields(s.tuples, end, s.mark, FALSE, s.rewind)
  BY MoveRecord
<1> HIDE DEF r
<1>4. /\ IsStore(r) /\ r.tuples = s.tuples /\ r.pos = end /\ r.eof = FALSE
      /\ r.rewind = s.rewind
  BY <1>3 DEF IsStore, Fields
<1>5. [r EXCEPT !.mark = mark] = Fields(r.tuples, r.pos, mark, r.eof, r.rewind)
  BY <1>4, SetField
<1>6. QED
  BY <1>1, <1>2, <1>4, <1>5 DEF end, mark

LEMMA StoreRecord ==
    /\ IsStore(store)
    /\ store' = Fields(store'.tuples, store'.pos, store'.mark, store'.eof, store'.rewind)
    /\ store.eof = eof_reached /\ store'.eof = eof_reached'
    /\ store.rewind = rewind /\ store'.rewind = rewind'
  BY DEF store, IsStore, Fields

-----------------------------------------------------------------------------
(* Every call is a step of TupleStoreSpec. *)

LEMMA InitStore == Init => Store!Init
<1> SUFFICES ASSUME Init PROVE Store!Init
  OBVIOUS
<1>1. store = Store!tuplestore_begin(rewind)
  <2>1. [n \in 1..written |-> n] = <<>> /\ trimmed + ReadPosition = 0
        /\ trimmed + MarkPosition = 0
    BY DEF Init, ReadPosition, MarkPosition
  <2>2. QED
    BY <2>1 DEF Init, store, Store!tuplestore_begin
<1>2. rewind \in BOOLEAN /\ got = 0
  BY DEF Init
<1>3. QED
  BY <1>1, <1>2 DEF Store!Init, store

LEMMA PutStore ==
    ASSUME FileInv, Put
    PROVE  Store!Put
<1> KeptInPlace
  BY WhereTuplesAre
<1> USE DEF KeptInPlace
<1>1. store.tuples = Run(0, written) /\ Len(store.tuples) = written
  BY StoreFields
<1>2. store'.tuples = Run(0, written + 1)
  BY PutAppends DEF store, Run
<1>3. Append(Run(0, written), written + 1) = Run(0, written + 1)
  <2>1. 0 + written + 1 = written + 1 /\ 0 \in Nat
    OBVIOUS
  <2>2. QED
    BY <2>1, RunAppend
<1>4. store'.pos = IF store.eof THEN written + 1 ELSE store.pos
  BY PutAppends, PutPositions DEF store, kept
<1>5. store'.mark = store.mark /\ store'.eof = store.eof /\ store'.rewind = store.rewind
  BY PutAppends, PutPositions, PutStates DEF store
<1>6. store' = Store!tuplestore_puttupleslot(store, Len(store.tuples) + 1)
  BY <1>1, <1>2, <1>3, <1>4, <1>5, StoreRecord, PutRecord, ZenonT(60)
<1>7. got' = 0
  BY DEF Put
<1>8. QED
  BY <1>6, <1>7 DEF Store!Put, store

LEMMA GetStore ==
    ASSUME FileInv, Get
    PROVE  Store!Get
<1> KeptInPlace
  BY WhereTuplesAre
<1> USE DEF KeptInPlace
<1>1. /\ store.tuples = Run(0, written) /\ Len(store.tuples) = written
      /\ store.pos = trimmed + ReadPosition /\ store.pos \in trimmed..written
  BY StoreFields
<1>2. kept = written - trimmed /\ ReadPosition \in 0..kept
  BY DEF kept, FileInv, PositionsInv
<1>3. /\ store'.tuples = store.tuples /\ store'.mark = store.mark
      /\ store'.rewind = store.rewind
  BY GetKeeps DEF store
<1>4. trimmed' = trimmed
  BY GetKeeps
<1>5. CASE ReadPosition < kept
  <2>1. got' = store.pos + 1 /\ store'.pos = store.pos + 1 /\ store'.eof = store.eof
    BY <1>1, <1>2, <1>4, <1>5, GetReads DEF store
  <2>2. Store!HasNext(store) /\ Store!NextTuple(store) = store.pos + 1
    <3>1. store.pos + 1 \in 1..written
      BY <1>1, <1>2, <1>5
    <3>2. Run(0, written)[store.pos + 1] = store.pos + 1
      BY <3>1 DEF Run
    <3>3. QED
      BY <1>1, <3>1, <3>2 DEF Store!HasNext, Store!NextTuple
  <2>3. store' = [store EXCEPT !.pos = store.pos + 1]
    <3>1. [store EXCEPT !.pos = store.pos + 1]
          = Fields(store.tuples, store.pos + 1, store.mark, store.eof, store.rewind)
      BY StoreRecord, SetField
    <3>2. QED
      BY <1>3, <2>1, <3>1, StoreRecord
  <2>4. store' = Store!tuplestore_gettupleslot(store)
    BY <2>2, <2>3 DEF Store!tuplestore_gettupleslot
  <2>5. QED
    BY <2>1, <2>2, <2>4 DEF Store!Get, store
<1>6. CASE ReadPosition = kept
  <2>1. got' = 0 /\ store'.pos = store.pos /\ store'.eof = TRUE
    BY <1>1, <1>2, <1>4, <1>6, GetReads DEF store
  <2>2. ~Store!HasNext(store)
    BY <1>1, <1>2, <1>6 DEF Store!HasNext
  <2>3. store' = [store EXCEPT !.eof = TRUE]
    <3>1. [store EXCEPT !.eof = TRUE]
          = Fields(store.tuples, store.pos, store.mark, TRUE, store.rewind)
      BY StoreRecord, SetField
    <3>2. QED
      BY <1>3, <2>1, <3>1, StoreRecord
  <2>4. store' = Store!tuplestore_gettupleslot(store)
    BY <2>2, <2>3 DEF Store!tuplestore_gettupleslot
  <2>5. QED
    BY <2>1, <2>2, <2>4 DEF Store!Get, store
<1>7. QED
  BY <1>2, <1>5, <1>6

LEMMA RescanStore ==
    ASSUME FileInv, Rescan
    PROVE  Store!Rescan
<1>1. /\ rewind /\ eof_reached' = FALSE /\ got' = 0
      /\ UNCHANGED <<written, trimmed, marked, rewind>>
  BY DEF Rescan, MoveTo, history
<1>2. trimmed = 0 /\ ReadPosition' = 0 /\ MarkPosition' = MarkPosition
  BY <1>1, RescanFile DEF FileInv, PositionsInv
<1>3. /\ store'.tuples = store.tuples /\ store'.pos = 0 /\ store'.mark = store.mark
      /\ store'.eof = FALSE /\ store'.rewind = store.rewind
  BY <1>1, <1>2 DEF store
<1>4. Store!tuplestore_rescan(store) = Fields(store.tuples, 0, store.mark, FALSE, store.rewind)
  BY StoreRecord, MoveRecord DEF Store!tuplestore_rescan
<1>5. store' = Store!tuplestore_rescan(store)
  BY <1>3, <1>4, StoreRecord
<1>6. QED
  BY <1>1, <1>5 DEF Store!Rescan, store

LEMMA CatchupStore ==
    ASSUME FileInv, Catchup
    PROVE  Store!Catchup
<1>1. /\ UNCHANGED <<written, rewind>> /\ got' = 0 /\ marked' = (marked /\ rewind)
  BY DEF Catchup
<1>2. /\ trimmed' + ReadPosition' = written /\ eof_reached' = FALSE
      /\ marked' => trimmed' + MarkPosition' = trimmed + MarkPosition
  BY CatchupFile
<1>3. Len(store.tuples) = written /\ store.rewind = rewind
  BY StoreFields, StoreRecord
<1>4. store'.mark = IF rewind THEN store.mark ELSE Store!NoMark
  BY <1>1, <1>2 DEF store, Store!NoMark
<1>5. /\ store'.tuples = store.tuples /\ store'.pos = written
      /\ store'.eof = FALSE /\ store'.rewind = store.rewind
  BY <1>1, <1>2 DEF store
<1>6. store' = Store!tuplestore_catchup(store)
  BY <1>3, <1>4, <1>5, StoreRecord, CatchupRecord
<1>7. QED
  BY <1>1, <1>6 DEF Store!Catchup, store

LEMMA MarkPosStore ==
    ASSUME FileInv, MarkPos
    PROVE  Store!MarkPos
<1>1. UNCHANGED <<written, rewind, eof_reached>> /\ got' = 0 /\ marked' = TRUE
  BY DEF MarkPos
<1>2. /\ trimmed' + ReadPosition' = trimmed + ReadPosition
      /\ trimmed' + MarkPosition' = trimmed + ReadPosition
  BY MarkPosFile
<1>3. /\ store'.tuples = store.tuples /\ store'.pos = store.pos /\ store'.mark = store.pos
      /\ store'.eof = store.eof /\ store'.rewind = store.rewind
  BY <1>1, <1>2 DEF store
<1>4. Store!tuplestore_markpos(store)
      = Fields(store.tuples, store.pos, store.pos, store.eof, store.rewind)
  BY StoreRecord, SetField DEF Store!tuplestore_markpos
<1>5. store' = Store!tuplestore_markpos(store)
  BY <1>3, <1>4, StoreRecord
<1>6. QED
  BY <1>1, <1>5 DEF Store!MarkPos, store

LEMMA RestorePosStore ==
    ASSUME FileInv, RestorePos
    PROVE  Store!RestorePos
<1>1. /\ marked /\ eof_reached' = FALSE /\ got' = 0
      /\ UNCHANGED <<written, trimmed, marked, rewind>>
  BY DEF RestorePos, MoveTo, history
<1>2. ReadPosition' = MarkPosition /\ MarkPosition' = MarkPosition
  BY RestorePosFile
<1>3. /\ store'.tuples = store.tuples /\ store'.pos = store.mark /\ store'.mark = store.mark
      /\ store'.eof = FALSE /\ store'.rewind = store.rewind
  BY <1>1, <1>2 DEF store
<1>4. Store!tuplestore_restorepos(store)
      = Fields(store.tuples, store.mark, store.mark, FALSE, store.rewind)
  BY StoreRecord, MoveRecord DEF Store!tuplestore_restorepos
<1>5. store' = Store!tuplestore_restorepos(store)
  BY <1>3, <1>4, StoreRecord
<1>6. store.mark # Store!NoMark
  BY <1>1, StoreFields DEF Store!NoMark
<1>7. QED
  BY <1>1, <1>5, <1>6 DEF Store!RestorePos, store

LEMMA NextStore ==
    ASSUME FileInv, [Next]_vars
    PROVE  [Store!Next]_(Store!vars)
<1>1. CASE UNCHANGED vars
  BY <1>1 DEF vars, Store!vars, ReadPosition, MarkPosition
<1>2. CASE Next
  BY <1>2, PutStore, GetStore, RescanStore, CatchupStore, MarkPosStore, RestorePosStore
  DEF Next, Store!Next
<1>3. QED
  BY <1>1, <1>2

\* Whatever the memory limit, each call of tuplestore.c returns the tuple that
\* a sequence with a read position and a mark would, in memory, while the array
\* is written to the file, and between reading the file and writing to it.
THEOREM TuplestoreFileCorrect == Spec => ImplementsStore
<1>1. Init => Store!Init
  BY InitStore
<1>2. FileInv /\ [Next]_vars => [Store!Next]_(Store!vars)
  BY NextStore
<1>3. QED
  BY <1>1, <1>2, InitFile, NextFile, PTL DEF Spec, ImplementsStore

=============================================================================
