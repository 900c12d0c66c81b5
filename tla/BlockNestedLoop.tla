--------------------------- MODULE BlockNestedLoop ---------------------------
(***************************************************************************)
(* The block nested loop skyline, ExecSkyline_BlockNestedLoop              *)
(* (backend/executor/nodeSkyline.c).  The outer plan is read once; a tuple *)
(* that no tuple in the window dominates goes to the window, or, when the  *)
(* window is full, to a temporary file that the next pass reads.  A window *)
(* tuple is returned as soon as the timestamps show that it has been       *)
(* compared with every tuple written to the file before it arrived.        *)
(*                                                                         *)
(* One step of the specification is one turn of the C function's loops.  A *)
(* call of ExecSkyline that returns a tuple ends with an emitting step and *)
(* the next call starts at the state it left.                              *)
(***************************************************************************)
EXTENDS SkylinePlans, Descent

VARIABLES
    node,         \* the plan node
    input,        \* the rows of the outer plan
    outerPos,     \* how many of them have been fetched
    status,       \* state->status
    source,       \* state->source
    window,       \* state->window
    tempIn,       \* state->tempIn, the file this pass reads, <<>> when closed
    tempInPos,    \* its read position
    tempOut,      \* state->tempOut, the file this pass writes, <<>> when closed
    timestampIn,  \* tuples read in this pass
    timestampOut, \* tuples written to tempOut in this pass
    slot,         \* the tuple being compared with the window, 0 between tuples
    output        \* the tuples returned to the parent node

plan  == <<node, input>>
files == <<tempIn, tempInPos, tempOut>>
vars  == <<node, input, outerPos, status, source, window, tempIn, tempInPos,
           tempOut, timestampIn, timestampOut, slot, output>>

Ids == 1..Len(input)

-----------------------------------------------------------------------------

\* ExecSkylineInitTupleWindow rejects a window of 0 slots with an error.
Init ==
    /\ \E p \in Plans :
         /\ p.slots # 0
         /\ node = p.node
         /\ input = p.input
         /\ window = tuplewindow_begin(p.memory, p.slots, WindowPolicy(p))
    /\ outerPos = 0
    /\ status = "SS_INIT"
    /\ source = "SS_OUTER"
    /\ tempIn = <<>>
    /\ tempInPos = 0
    /\ tempOut = <<>>
    /\ timestampIn = 0
    /\ timestampOut = 0
    /\ slot = 0
    /\ output = <<>>

\* case SS_INIT: open the temporary file to write.
Start ==
    /\ status = "SS_INIT"
    /\ source' = "SS_OUTER"
    /\ tempIn' = <<>>
    /\ tempInPos' = 0
    /\ tempOut' = <<>>
    /\ timestampIn' = 0
    /\ timestampOut' = 0
    /\ status' = "SS_PROCESS"
    /\ UNCHANGED <<plan, outerPos, window, slot, output>>

-----------------------------------------------------------------------------
(* case SS_PROCESS: one tuple against the window. *)

\* The rank tuplewindow_setinsertrank is given for the tuple; the window
\* keeps its old one when its policy is not ranked.
InsertRanks(i) ==
    CASE window.policy = "ENTROPY" -> {ExecSkylineRank(node, input[i])}
      [] window.policy = "RANDOM"  -> RandomRanks
      [] OTHER                     -> {window.insertrank}

\* The tuple i has been read: rewind the window and start comparing.
StartComparing(i) ==
    /\ slot' = i
    /\ timestampIn' = timestampIn + 1
    /\ \E rank \in InsertRanks(i) :
         window' = tuplewindow_setinsertrank(tuplewindow_rewind(window), rank)

FetchOuter ==
    /\ status = "SS_PROCESS" /\ slot = 0
    /\ source = "SS_OUTER"
    /\ outerPos < Len(input)
    /\ outerPos' = outerPos + 1
    /\ StartComparing(outerPos + 1)
    /\ UNCHANGED <<plan, status, source, files, timestampOut, output>>

FetchTemp ==
    /\ status = "SS_PROCESS" /\ slot = 0
    /\ source = "SS_TEMP"
    /\ tempInPos < Len(tempIn)
    /\ tempInPos' = tempInPos + 1
    /\ StartComparing(tempIn[tempInPos + 1])
    /\ UNCHANGED <<plan, outerPos, status, source, tempIn, tempOut, timestampOut, output>>

\* Mutant of EndOfTuple, the algorithm as first published: the last tuple of
\* the temporary file is not followed by SS_PIPEOUT.
EndOfTupleSkipsLastPipeOut ==
    /\ slot' = 0
    /\ status' = IF source = "SS_TEMP" /\ tempInPos = Len(tempIn)
                 THEN "SS_PROCESS" ELSE "SS_PIPEOUT"

\* Done with the tuple in slot: it has been dropped or stored.
EndOfTuple ==
    /\ slot' = 0
    /\ status' = "SS_PIPEOUT"

Comparing == status = "SS_PROCESS" /\ slot # 0

\* The window tuple at the cursor against the tuple in slot.
Cmp == IsDominating(node, input[CurrentSlot(window).tuple], input[slot])

DropsSlot ==
    \/ Cmp = "FIRST_DOMINATES"
    \/ Cmp = "ALL_EQ" /\ node.skyline_distinct

Drop ==
    /\ Comparing
    /\ ~tuplewindow_ateof(window)
    /\ DropsSlot
    /\ EndOfTuple
    /\ window' = tuplewindow_rewind(window)
    /\ UNCHANGED <<plan, outerPos, source, files, timestampIn, timestampOut, output>>

RemoveDominated ==
    /\ Comparing
    /\ ~tuplewindow_ateof(window)
    /\ Cmp = "SECOND_DOMINATES"
    /\ window' = tuplewindow_removecurrent(window)
    /\ UNCHANGED <<plan, outerPos, status, source, files, timestampIn,
                   timestampOut, slot, output>>

MoveNext ==
    /\ Comparing
    /\ ~tuplewindow_ateof(window)
    /\ ~DropsSlot
    /\ Cmp # "SECOND_DOMINATES"
    /\ window' = tuplewindow_movenext(window)
    /\ UNCHANGED <<plan, outerPos, status, source, files, timestampIn,
                   timestampOut, slot, output>>

\* Mutant of PutTimestamp: the tuple is stamped with the tuples read.
TimestampOfReads == timestampIn

\* The timestamp of a tuple put into the window: the tuples that went to the
\* temporary file before it, and that it has not been compared with.
PutTimestamp == timestampOut

PutInWindow ==
    /\ Comparing
    /\ tuplewindow_ateof(window)
    /\ tuplewindow_has_freespace(window)
    /\ EndOfTuple
    /\ window' = tuplewindow_rewind(
                   tuplewindow_puttupleslot(window, slot, PutTimestamp,
                                            TupleSpace(input[slot])))
    /\ UNCHANGED <<plan, outerPos, source, files, timestampIn, timestampOut, output>>

WriteToTemp ==
    /\ Comparing
    /\ tuplewindow_ateof(window)
    /\ ~tuplewindow_has_freespace(window)
    /\ EndOfTuple
    /\ tempOut' = Append(tempOut, slot)
    /\ timestampOut' = timestampOut + 1
    /\ window' = tuplewindow_rewind(window)
    /\ UNCHANGED <<plan, outerPos, source, tempIn, tempInPos, timestampIn, output>>

-----------------------------------------------------------------------------
(* case SS_PROCESS: the pass is over. *)

EndOfSource ==
    /\ status = "SS_PROCESS" /\ slot = 0
    /\ IF source = "SS_OUTER" THEN outerPos = Len(input) ELSE tempInPos = Len(tempIn)

\* Nothing was written: what is left in the window is in the skyline.
LastPass ==
    /\ EndOfSource
    /\ timestampOut = 0
    /\ tempIn' = <<>>
    /\ tempInPos' = 0
    /\ tempOut' = <<>>
    /\ window' = tuplewindow_rewind(window)
    /\ status' = "SS_FINALPIPEOUT"
    /\ UNCHANGED <<plan, outerPos, source, timestampIn, timestampOut, slot, output>>

\* Mutant of NextPass: timestampIn counts on from the pass before.
NextPassKeepsTimestampIn ==
    /\ EndOfSource
    /\ timestampOut # 0
    /\ source' = "SS_TEMP"
    /\ tempIn' = tempOut
    /\ tempInPos' = 0
    /\ tempOut' = <<>>
    /\ timestampOut' = 0
    /\ window' = tuplewindow_rewind(window)
    /\ status' = "SS_PIPEOUT"
    /\ UNCHANGED <<plan, outerPos, timestampIn, slot, output>>

\* The file that was written becomes the one to read.
NextPass ==
    /\ EndOfSource
    /\ timestampOut # 0
    /\ source' = "SS_TEMP"
    /\ tempIn' = tempOut
    /\ tempInPos' = 0
    /\ tempOut' = <<>>
    /\ timestampIn' = 0
    /\ timestampOut' = 0
    /\ window' = tuplewindow_rewind(window)
    /\ status' = "SS_PIPEOUT"
    /\ UNCHANGED <<plan, outerPos, slot, output>>

-----------------------------------------------------------------------------
(* case SS_PIPEOUT and case SS_FINALPIPEOUT: tuples leave the window. *)

\* Return the tuple at the cursor and remove it from the window.
EmitCurrent ==
    /\ output' = Append(output, CurrentSlot(window).tuple)
    /\ window' = tuplewindow_removecurrent(window)

PipeOut ==
    /\ status = "SS_PIPEOUT"
    /\ ~tuplewindow_ateof(window)
    /\ CurrentSlot(window).timestamp = timestampIn
    /\ EmitCurrent
    /\ UNCHANGED <<plan, outerPos, status, source, files, timestampIn,
                   timestampOut, slot>>

PipeOutSkip ==
    /\ status = "SS_PIPEOUT"
    /\ ~tuplewindow_ateof(window)
    /\ CurrentSlot(window).timestamp # timestampIn
    /\ window' = tuplewindow_movenext(window)
    /\ UNCHANGED <<plan, outerPos, status, source, files, timestampIn,
                   timestampOut, slot, output>>

PipeOutEnd ==
    /\ status = "SS_PIPEOUT"
    /\ tuplewindow_ateof(window)
    /\ status' = "SS_PROCESS"
    /\ UNCHANGED <<plan, outerPos, source, window, files, timestampIn,
                   timestampOut, slot, output>>

FinalPipeOut ==
    /\ status = "SS_FINALPIPEOUT"
    /\ ~tuplewindow_ateof(window)
    /\ EmitCurrent
    /\ UNCHANGED <<plan, outerPos, status, source, files, timestampIn,
                   timestampOut, slot>>

\* Return NULL.  (tuplewindow_end frees the window here.)
Finish ==
    /\ status = "SS_FINALPIPEOUT"
    /\ tuplewindow_ateof(window)
    /\ status' = "SS_DONE"
    /\ UNCHANGED <<plan, outerPos, source, window, files, timestampIn,
                   timestampOut, slot, output>>

\* case SS_DONE: return NULL again.
ReturnNull ==
    /\ status = "SS_DONE"
    /\ UNCHANGED vars

Next ==
    \/ Start
    \/ FetchOuter \/ FetchTemp
    \/ Drop \/ RemoveDominated \/ MoveNext
    \/ PutInWindow \/ WriteToTemp
    \/ LastPass \/ NextPass
    \/ PipeOut \/ PipeOutSkip \/ PipeOutEnd
    \/ FinalPipeOut \/ Finish \/ ReturnNull

Spec == Init /\ [][Next]_vars

\* The executor calls the node until it returns NULL.
FairSpec == Spec /\ WF_vars(Next)

-----------------------------------------------------------------------------
(* Where a tuple can be. *)

Query == INSTANCE SkylineQuery WITH done <- (status = "SS_DONE")

Slots       == 1..Len(window.slots)
Tuple(k)    == window.slots[k].tuple
Stamp(k)    == window.slots[k].timestamp
Unread      == tempInPos+1..Len(tempIn)

Written     == {tempOut[q] : q \in 1..Len(tempOut)}
UnreadTemp  == {tempIn[q] : q \in Unread}
UnreadOuter == outerPos+1..Len(input)

\* The tuples that have been neither returned nor eliminated.
Pending == {Tuple(k) : k \in Slots} \cup Written \cup UnreadTemp \cup UnreadOuter
             \cup ({slot} \ {0})

\* The tuples that have not been eliminated.
Alive == Pending \cup Query!Emitted

\* Two tuples that the query may both return.
Independent(x, y) == x # y /\ ~Query!Beats(x, y) /\ ~Query!Beats(y, x)

\* A window tuple that was put there in an earlier pass.  It has been compared
\* with the tuples this pass has read, and with those of the file behind its
\* timestamp, when it was put into the window, by the pass that wrote the file.
Old(k) == source = "SS_TEMP" /\ Stamp(k) >= timestampIn

-----------------------------------------------------------------------------
(* Invariants. *)

\* Every variable holds a value of its type, and both cursors point into the
\* window's list or to its sentinel.
TypeOK ==
    /\ node \in PlanNode
    /\ input \in Seq(Row(node))
    /\ outerPos \in 0..Len(input)
    /\ status \in {"SS_INIT", "SS_PROCESS", "SS_PIPEOUT", "SS_FINALPIPEOUT", "SS_DONE"}
    /\ source \in {"SS_OUTER", "SS_TEMP"}
    /\ window \in Windows(Ids)
    /\ CursorsInList(window)
    /\ tempIn \in Seq(Ids)
    /\ tempInPos \in 0..Len(tempIn)
    /\ tempOut \in Seq(Ids)
    /\ timestampIn \in Nat
    /\ timestampOut \in Nat
    /\ slot \in 0..Len(input)
    /\ output \in Seq(Ids)

\* The state each status is entered with: nothing is pending anywhere but in
\* the window once the node pipes out for the last time, and nothing at all
\* when it returns NULL (case SS_FINALPIPEOUT and SS_DONE).
PhaseInv ==
    /\ status = "SS_INIT" => /\ outerPos = 0 /\ source = "SS_OUTER"
                             /\ window.slots = <<>> /\ output = <<>>
                             /\ tempIn = <<>> /\ tempOut = <<>>
    /\ slot # 0 => status = "SS_PROCESS"
    /\ status \in {"SS_FINALPIPEOUT", "SS_DONE"} =>
         outerPos = Len(input) /\ tempIn = <<>> /\ tempOut = <<>>
    /\ status = "SS_FINALPIPEOUT" => window.current = 1
    /\ status = "SS_DONE" => window.slots = <<>>

\* The counters and the files agree, and during the first pass no window
\* tuple has a timestamp that PIPEOUT could take for complete.
TimestampInv ==
    /\ timestampOut = Len(tempOut)
    /\ timestampOut <= timestampIn
    /\ slot # 0 => timestampOut < timestampIn
    /\ source = "SS_OUTER" => tempIn = <<>> /\ \A k \in Slots : Stamp(k) < timestampIn
    /\ source = "SS_TEMP" =>
         /\ outerPos = Len(input)
         /\ status \notin {"SS_FINALPIPEOUT", "SS_DONE"} => tempInPos = timestampIn

\* A tuple that has been read waits in one place only.
PlacesInv ==
    /\ \A k \in Slots :
         Tuple(k) \in 1..outerPos /\ Tuple(k) \notin Written \cup UnreadTemp \cup {slot}
    /\ \A q \in 1..Len(tempOut) :
         /\ tempOut[q] \in 1..outerPos
         /\ tempOut[q] \notin UnreadTemp \cup {slot}
         /\ \A r \in 1..Len(tempOut) : q # r => tempOut[q] # tempOut[r]
    /\ \A q \in Unread :
         /\ tempIn[q] \in 1..outerPos
         /\ tempIn[q] # slot
         /\ \A r \in Unread : q # r => tempIn[q] # tempIn[r]
    /\ slot <= outerPos

\* What the timestamps stand for: which pairs have been compared.
ComparedInv ==
    \A k \in Slots :
        /\ \A m \in Slots : m # k => Independent(Tuple(k), Tuple(m))
        /\ \A q \in 1..Len(tempOut) :
             Old(k) \/ q > Stamp(k) => Independent(Tuple(k), tempOut[q])
        /\ \A q \in Unread :
             Old(k) /\ q > Stamp(k) => Independent(Tuple(k), tempIn[q])
        /\ slot # 0 /\ k < window.current => Independent(Tuple(k), slot)

\* A returned tuple neither beats nor is beaten by any tuple not eliminated.
EmittedInv ==
    \A k \in 1..Len(output) :
        /\ \A m \in 1..Len(output) : m # k => Independent(output[k], output[m])
        /\ \A y \in Pending : Independent(output[k], y)

\* A tuple is eliminated because of one that is still there.
CoveredInv ==
    \A i \in Ids : i \in Alive \/ \E k \in Alive : Query!Beats(k, i)

\* The inductive invariant behind the correctness of the block nested loop.
IInv ==
    /\ TypeOK
    /\ PhaseInv
    /\ TimestampInv
    /\ PlacesInv
    /\ ComparedInv
    /\ EmittedInv
    /\ CoveredInv

\* A ranked window is ordered by descending rank ("this keeps the window
\* ordered by the rank", tuplewindow.c 526-528), tuples without a rank aside.
RankOrder == RanksDescend(window)

\* The window's free space is exact however often slots come and go.
SpaceInv == SpaceAccounted(window)

-----------------------------------------------------------------------------
(* How far the node is from its end. *)

StatusesLeft ==
    CASE status = "SS_INIT"         -> 3
      [] status = "SS_FINALPIPEOUT" -> 1
      [] status = "SS_DONE"         -> 0
      [] OTHER                      -> 2

\* The tuples still to be read in this pass, and those to be handled at all:
\* outside the window, and with it.
ToRead   == Len(input) - outerPos + Len(tempIn) - tempInPos
Outside  == ToRead + Count(slot # 0) + Len(tempOut)
ToHandle == Outside + Len(window.slots)

\* Nothing says yet that a tuple will be handled before the next pass is over:
\* by being in the window when that pass begins, or by finding it empty.
Unsettled == IF window.slots = <<>> THEN tempOut # <<>> ELSE \E k \in Slots : ~Old(k)

Variant ==
    <<StatusesLeft, ToHandle, Outside, Count(Unsettled), ToRead,
      IF slot # 0 THEN 2 ELSE Count(status = "SS_PIPEOUT"),
      Len(window.slots) + 1 - window.current>>

-----------------------------------------------------------------------------
(* Properties. *)

\* The block nested loop implements the skyline query: it returns each tuple
\* of the skyline once and nothing else, and then NULL.
ImplementsQuery == Query!Init /\ [][Query!Next]_(Query!vars)

\* Every query ends: the passes over the temporary files come to an end
\* although the window may be far too small for the skyline.
Termination == <>(status = "SS_DONE")

\* Why it ends: no step leaves the node as far from its end as it was.  A pass
\* that eliminates, returns and takes up no tuple does not repeat itself: the
\* tuples it finds in the window leave it before the pass is over, the last of
\* them in the SS_PIPEOUT that follows the last tuple of the file.
Progress == [][Descends(Variant', Variant)]_vars

=============================================================================
