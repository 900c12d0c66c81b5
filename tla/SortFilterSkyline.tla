-------------------------- MODULE SortFilterSkyline --------------------------
(***************************************************************************)
(* The sort filter skyline, ExecSkyline_SortFilterSkyline                  *)
(* (backend/executor/nodeSkyline.c).  Its outer plan is sorted so that no  *)
(* tuple dominates an earlier one.  A tuple that no window tuple dominates *)
(* is therefore in the skyline: it is returned at once and stays in the    *)
(* window as a filter.  When the window is full the tuples left go to a    *)
(* temporary file, and the next pass starts with an empty window.          *)
(*                                                                         *)
(* One step is one turn of the C function's loops; a call that returns a   *)
(* tuple ends with PutInWindow.                                            *)
(***************************************************************************)
EXTENDS SkylinePlans, Descent

VARIABLES
    node,         \* the plan node
    input,        \* the rows of the outer plan
    outerPos,     \* how many of them have been fetched
    status,       \* state->status
    source,       \* state->source
    window,       \* state->window
    tempIn,       \* state->tempIn, the file this pass reads, <<>> when closed
    tempInPos,    \* its read position
    tempOut,      \* state->tempOut, the file this pass writes, <<>> when closed
    timestampOut, \* tuples written to tempOut in this pass
    slot,         \* the tuple being compared with the window, 0 between tuples
    output        \* the tuples returned to the parent node

plan  == <<node, input>>
files == <<tempIn, tempInPos, tempOut>>
vars  == <<node, input, outerPos, status, source, window, tempIn, tempInPos,
           tempOut, timestampOut, slot, output>>

Ids == 1..Len(input)

-----------------------------------------------------------------------------

\* ExecSkylineInitTupleWindow rejects a window of 0 slots with an error.
Init ==
    /\ \E p \in Plans :
         /\ p.slots # 0
         /\ node = p.node
         /\ input = p.input
         /\ window = tuplewindow_begin(p.memory, p.slots, WindowPolicy(p))
    /\ outerPos = 0
    /\ status = "SS_INIT"
    /\ source = "SS_OUTER"
    /\ tempIn = <<>>
    /\ tempInPos = 0
    /\ tempOut = <<>>
    /\ timestampOut = 0
    /\ slot = 0
    /\ output = <<>>

\* case SS_INIT: open the temporary file to write.
Start ==
    /\ status = "SS_INIT"
    /\ source' = "SS_OUTER"
    /\ tempIn' = <<>>
    /\ tempInPos' = 0
    /\ tempOut' = <<>>
    /\ timestampOut' = 0
    /\ status' = "SS_PROCESS"
    /\ UNCHANGED <<plan, outerPos, window, slot, output>>

-----------------------------------------------------------------------------
(* case SS_PROCESS: one tuple against the window. *)

\* The rank tuplewindow_setinsertrank is given for the tuple.
InsertRanks(i) ==
    CASE window.policy = "ENTROPY" -> {ExecSkylineRank(node, input[i])}
      [] window.policy = "RANDOM"  -> RandomRanks
      [] OTHER                     -> {window.insertrank}

\* The tuple i has been read: rewind the window and start comparing.
StartComparing(i) ==
    /\ slot' = i
    /\ \E rank \in InsertRanks(i) :
         window' = tuplewindow_setinsertrank(tuplewindow_rewind(window), rank)

FetchOuter ==
    /\ status = "SS_PROCESS" /\ slot = 0
    /\ source = "SS_OUTER"
    /\ outerPos < Len(input)
    /\ outerPos' = outerPos + 1
    /\ StartComparing(outerPos + 1)
    /\ UNCHANGED <<plan, status, source, files, timestampOut, output>>

FetchTemp ==
    /\ status = "SS_PROCESS" /\ slot = 0
    /\ source = "SS_TEMP"
    /\ tempInPos < Len(tempIn)
    /\ tempInPos' = tempInPos + 1
    /\ StartComparing(tempIn[tempInPos + 1])
    /\ UNCHANGED <<plan, outerPos, status, source, tempIn, tempOut, timestampOut, output>>

Comparing == status = "SS_PROCESS" /\ slot # 0

\* Mutant of Cmp: the arguments are swapped.
CmpSwapped == IsDominating(node, input[slot], input[CurrentSlot(window).tuple])

\* The window tuple at the cursor against the tuple in slot.
Cmp == IsDominating(node, input[CurrentSlot(window).tuple], input[slot])

\* Mutant of DropsSlot: DISTINCT is ignored.
DropsDominatedOnly == Cmp = "FIRST_DOMINATES"

DropsSlot ==
    \/ Cmp = "FIRST_DOMINATES"
    \/ Cmp = "ALL_EQ" /\ node.skyline_distinct

Drop ==
    /\ Comparing
    /\ ~tuplewindow_ateof(window)
    /\ DropsSlot
    /\ slot' = 0
    /\ UNCHANGED <<plan, outerPos, status, source, window, files, timestampOut, output>>

\* Also when the assertion that the slot does not dominate would fail.
MoveNext ==
    /\ Comparing
    /\ ~tuplewindow_ateof(window)
    /\ ~DropsSlot
    /\ window' = tuplewindow_movenext(window)
    /\ UNCHANGED <<plan, outerPos, status, source, files, timestampOut, slot, output>>

\* Mutant of HasSpace: the free memory has to cover the tuple.
HasSpaceForTuple ==
    IF window.availSlots # -1
    THEN window.availSlots > 0
    ELSE window.availMem >= TupleSpace(input[slot])

\* Free space is a property of the window, not of the tuple to store.
HasSpace == tuplewindow_has_freespace(window)

\* Put the tuple into the window and return it.
PutInWindow ==
    /\ Comparing
    /\ tuplewindow_ateof(window)
    /\ HasSpace
    /\ window' = tuplewindow_puttupleslot(window, slot, 0, TupleSpace(input[slot]))
    /\ output' = Append(output, slot)
    /\ slot' = 0
    /\ UNCHANGED <<plan, outerPos, status, source, files, timestampOut>>

\* Mutant of WriteToTemp: a tuple that finds the window full is returned too.
ReturnWhenFull ==
    /\ Comparing
    /\ tuplewindow_ateof(window)
    /\ ~HasSpace
    /\ output' = Append(output, slot)
    /\ slot' = 0
    /\ UNCHANGED <<plan, outerPos, status, source, window, files, timestampOut>>

WriteToTemp ==
    /\ Comparing
    /\ tuplewindow_ateof(window)
    /\ ~HasSpace
    /\ tempOut' = Append(tempOut, slot)
    /\ timestampOut' = timestampOut + 1
    /\ slot' = 0
    /\ UNCHANGED <<plan, outerPos, status, source, window, tempIn, tempInPos, output>>

-----------------------------------------------------------------------------
(* case SS_PROCESS: the pass is over. *)

EndOfSource ==
    /\ status = "SS_PROCESS" /\ slot = 0
    /\ IF source = "SS_OUTER" THEN outerPos = Len(input) ELSE tempInPos = Len(tempIn)

\* Nothing was written: return NULL.
LastPass ==
    /\ EndOfSource
    /\ timestampOut = 0
    /\ tempIn' = <<>>
    /\ tempInPos' = 0
    /\ tempOut' = <<>>
    /\ status' = "SS_DONE"
    /\ UNCHANGED <<plan, outerPos, source, window, timestampOut, slot, output>>

\* Mutant of NextPass: the window keeps its tuples.
NextPassKeepsWindow ==
    /\ EndOfSource
    /\ timestampOut # 0
    /\ source' = "SS_TEMP"
    /\ tempIn' = tempOut
    /\ tempInPos' = 0
    /\ tempOut' = <<>>
    /\ timestampOut' = 0
    /\ UNCHANGED <<plan, outerPos, status, window, slot, output>>

\* The file that was written becomes the one to read, with an empty window.
NextPass ==
    /\ EndOfSource
    /\ timestampOut # 0
    /\ source' = "SS_TEMP"
    /\ tempIn' = tempOut
    /\ tempInPos' = 0
    /\ tempOut' = <<>>
    /\ timestampOut' = 0
    /\ window' = tuplewindow_clean(window)
    /\ UNCHANGED <<plan, outerPos, status, slot, output>>

\* case SS_DONE: return NULL again.
ReturnNull ==
    /\ status = "SS_DONE"
    /\ UNCHANGED vars

Next ==
    \/ Start
    \/ FetchOuter \/ FetchTemp
    \/ Drop \/ MoveNext
    \/ PutInWindow \/ WriteToTemp
    \/ LastPass \/ NextPass
    \/ ReturnNull

Spec == Init /\ [][Next]_vars

\* The executor calls the node until it returns NULL.
FairSpec == Spec /\ WF_vars(Next)

-----------------------------------------------------------------------------
(* Where a tuple can be. *)

Query == INSTANCE SkylineQuery WITH done <- (status = "SS_DONE")

Slots       == 1..Len(window.slots)
Tuple(k)    == window.slots[k].tuple

Filter      == {Tuple(k) : k \in Slots}
Written     == {tempOut[q] : q \in 1..Len(tempOut)}
UnreadTemp  == {tempIn[q] : q \in tempInPos+1..Len(tempIn)}
UnreadOuter == outerPos+1..Len(input)

\* The tuples that have been neither returned nor eliminated.
Pending == Written \cup UnreadTemp \cup UnreadOuter \cup ({slot} \ {0})

Increasing(s) == \A q, r \in 1..Len(s) : q < r => s[q] < s[r]

\* What the method asks of its outer plan.
InputSorted == \A i, j \in Ids : i < j => ~Dominates(node, input[j], input[i])

-----------------------------------------------------------------------------
(* Invariants. *)

\* Every variable holds a value of its type.  The rank cursor may dangle after
\* tuplewindow_clean, but not while a tuple is compared with the window.
TypeOK ==
    /\ node \in PlanNode
    /\ input \in Seq(Row(node))
    /\ outerPos \in 0..Len(input)
    /\ status \in {"SS_INIT", "SS_PROCESS", "SS_DONE"}
    /\ source \in {"SS_OUTER", "SS_TEMP"}
    /\ window \in Windows(Ids)
    /\ window.current <= Nil(window)
    /\ window.rankinsert \in Dangling..Nil(window)
    /\ slot # 0 => window.rankinsert # Dangling
    /\ tempIn \in Seq(Ids)
    /\ tempInPos \in 0..Len(tempIn)
    /\ tempOut \in Seq(Ids)
    /\ timestampOut \in Nat
    /\ slot \in 0..Len(input)
    /\ output \in Seq(Ids)

\* Which variables can hold tuples in each status.
PhaseInv ==
    /\ timestampOut = Len(tempOut)
    /\ status = "SS_INIT" => outerPos = 0 /\ window.slots = <<>> /\ output = <<>> /\ tempOut = <<>>
    /\ slot # 0 => status = "SS_PROCESS"
    /\ status = "SS_DONE" => outerPos = Len(input) /\ tempIn = <<>> /\ tempOut = <<>>
    /\ source = "SS_OUTER" => tempIn = <<>> /\ Filter = Query!Emitted
    /\ source = "SS_TEMP" => outerPos = Len(input)
    /\ Filter \subseteq Query!Emitted

\* The tuples wait in the order of the input behind those returned, and a
\* window that was full once in a pass stays full until it ends.
OrderInv ==
    /\ Increasing(output)
    /\ Increasing(tempOut)
    /\ Increasing(tempIn)
    /\ \A x \in Query!Emitted, y \in Pending : x < y
    /\ Written \subseteq 1..outerPos
    /\ UnreadTemp \subseteq 1..outerPos
    /\ slot <= outerPos
    /\ \A x \in Written, y \in UnreadTemp \cup ({slot} \ {0}) : x < y
    /\ slot # 0 => \A y \in UnreadTemp : slot < y
    /\ tempOut # <<>> => ~tuplewindow_has_freespace(window)

\* The tuples of the earlier passes have been compared with everything that is
\* left, those in the window with the file written and the window up to the
\* cursor with slot.
ComparedInv ==
    /\ \A x, y \in Query!Emitted : ~Query!Beats(x, y)
    /\ \A x \in Query!Emitted \ Filter, y \in Pending \ UnreadOuter : ~Query!Beats(x, y)
    /\ \A x \in Filter, y \in Written : ~Query!Beats(x, y)
    /\ slot # 0 => \A k \in Slots : k < window.current => ~Query!Beats(Tuple(k), slot)

\* A tuple is eliminated because of one that has been returned.
CoveredInv ==
    \A i \in Ids : \/ i \in Pending \cup Query!Emitted
                   \/ \E k \in Query!Emitted : Query!Beats(k, i)

\* The inductive invariant behind the correctness of the sort filter skyline.
SortFilterInv ==
    /\ TypeOK
    /\ PhaseInv
    /\ OrderInv
    /\ InputSorted => ComparedInv /\ CoveredInv

\* A ranked window is ordered by descending rank ("this keeps the window
\* ordered by the rank", tuplewindow.c 526-528), tuples without a rank aside.
RankOrder == RanksDescend(window)

\* "Assert(cmp != SYKLINE_CMP_SECOND_DOMINATES)" (nodeSkyline.c 1246): with a
\* sorted input no tuple dominates one that is in the window.
WindowNeverDominated ==
    InputSorted /\ Comparing /\ ~tuplewindow_ateof(window) => Cmp # "SECOND_DOMINATES"

-----------------------------------------------------------------------------
(* How far the node is from its end. *)

StatusesLeft ==
    CASE status = "SS_INIT" -> 2
      [] status = "SS_DONE" -> 0
      [] OTHER              -> 1

\* The tuples still to be read in this pass, and those to be handled at all.
ToRead   == Len(input) - outerPos + Len(tempIn) - tempInPos
ToHandle == ToRead + Count(slot # 0) + Len(tempOut)

Variant ==
    <<StatusesLeft, ToHandle, Count(~HasSpace), ToRead, Count(slot # 0),
      Len(window.slots) + 1 - window.current>>

-----------------------------------------------------------------------------
(* Properties. *)

\* On a sorted input the sort filter skyline implements the skyline query: it
\* returns each tuple of the skyline once and nothing else, and then NULL.
ImplementsQuery ==
    Query!Init /\ [][InputSorted => Query!Next]_(Query!vars)

\* The tuples come out in the order of the input, whatever the number of
\* passes; skyline_method_preserves_tuple_order (skyline.c 354-382) says so to
\* the planner, which then leaves out a sort for ORDER BY.
PreservesOrder ==
    [][output' # output =>
         \A k \in 1..Len(output) : output[k] < output'[Len(output')]]_vars

\* Every query ends, whatever the input is: each pass returns the tuples that
\* fill the window and writes fewer than it has read.
Termination == <>(status = "SS_DONE")

\* Why it ends: no step leaves the node as far from its end as it was.  Only a
\* full window sends a tuple to the temporary file, and the next pass begins
\* with one that has space.
Progress == [][Descends(Variant', Variant)]_vars

=============================================================================
