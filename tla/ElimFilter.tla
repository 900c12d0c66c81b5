----------------------------- MODULE ElimFilter -----------------------------
(***************************************************************************)
(* The elimination filter of the LESS algorithm, ExecElimFilter            *)
(* (backend/executor/nodeElimFilter.c): a small window, usually one page,  *)
(* drops some of the dominated tuples before they are sorted.  Every tuple *)
(* that is not dropped is passed on; it is put into the window with a      *)
(* forced insertion, which keeps it only when there is or can be space.    *)
(*                                                                         *)
(* One step is one turn of the C function's loops; a call that returns a   *)
(* tuple ends with PassOn.                                                 *)
(***************************************************************************)
EXTENDS SkylinePlans, Descent

VARIABLES
    node,         \* the plan node
    input,        \* the rows of the outer plan
    outerPos,     \* how many of them have been fetched
    status,       \* state->status
    window,       \* state->window
    slot,         \* the tuple being compared with the window, 0 between tuples
    output        \* the tuples passed on to the parent node

plan == <<node, input>>
vars == <<node, input, outerPos, status, window, slot, output>>

Ids == 1..Len(input)

-----------------------------------------------------------------------------

\* ExecElimFilterInitTupleWindow rejects a window of 0 slots with an error.
Init ==
    /\ \E p \in Plans :
         /\ p.slots # 0
         /\ node = p.node
         /\ input = p.input
         /\ window = tuplewindow_begin(p.memory, p.slots, WindowPolicy(p))
    /\ outerPos = 0
    /\ status = "SS_INIT"
    /\ slot = 0
    /\ output = <<>>

\* case SS_INIT.
Start ==
    /\ status = "SS_INIT"
    /\ status' = "SS_PROCESS"
    /\ UNCHANGED <<plan, outerPos, window, slot, output>>

\* The rank tuplewindow_setinsertrank is given for the tuple.
InsertRanks(i) ==
    CASE window.policy = "ENTROPY" -> {ExecSkylineRank(node, input[i])}
      [] window.policy = "RANDOM"  -> RandomRanks
      [] OTHER                     -> {window.insertrank}

\* case SS_PROCESS: read a tuple, rewind the window and start comparing.
Fetch ==
    /\ status = "SS_PROCESS" /\ slot = 0
    /\ outerPos < Len(input)
    /\ outerPos' = outerPos + 1
    /\ slot' = outerPos + 1
    /\ \E rank \in InsertRanks(outerPos + 1) :
         window' = tuplewindow_setinsertrank(tuplewindow_rewind(window), rank)
    /\ UNCHANGED <<plan, status, output>>

\* The outer plan returns NULL, and so does the filter.
EndOfInput ==
    /\ status = "SS_PROCESS" /\ slot = 0
    /\ outerPos = Len(input)
    /\ status' = "SS_DONE"
    /\ UNCHANGED <<plan, outerPos, window, slot, output>>

Comparing == status = "SS_PROCESS" /\ slot # 0

\* The window tuple at the cursor against the tuple in slot.
Cmp == IsDominating(node, input[CurrentSlot(window).tuple], input[slot])

DropsSlot ==
    \/ Cmp = "FIRST_DOMINATES"
    \/ Cmp = "ALL_EQ" /\ node.skyline_distinct

Drop ==
    /\ Comparing
    /\ ~tuplewindow_ateof(window)
    /\ DropsSlot
    /\ slot' = 0
    /\ UNCHANGED <<plan, outerPos, status, window, output>>

\* Mutant of RemoveDominated: the caller moves on as well.
RemoveAndMoveNext ==
    /\ Comparing
    /\ ~tuplewindow_ateof(window)
    /\ Cmp = "SECOND_DOMINATES"
    /\ window' = tuplewindow_movenext(tuplewindow_removecurrent(window))
    /\ UNCHANGED <<plan, outerPos, status, slot, output>>

RemoveDominated ==
    /\ Comparing
    /\ ~tuplewindow_ateof(window)
    /\ Cmp = "SECOND_DOMINATES"
    /\ window' = tuplewindow_removecurrent(window)
    /\ UNCHANGED <<plan, outerPos, status, slot, output>>

\* Mutant of MoveNext: the cursor waits at an equal tuple.
MoveNextIfIncomparable ==
    /\ Comparing
    /\ ~tuplewindow_ateof(window)
    /\ ~DropsSlot
    /\ Cmp # "SECOND_DOMINATES"
    /\ window' = IF Cmp = "INCOMPARABLE" THEN tuplewindow_movenext(window) ELSE window
    /\ UNCHANGED <<plan, outerPos, status, slot, output>>

\* Mutant of MoveNext: an equal tuple lets the comparison start over.
MoveNextOrStartOver ==
    /\ Comparing
    /\ ~tuplewindow_ateof(window)
    /\ ~DropsSlot
    /\ Cmp # "SECOND_DOMINATES"
    /\ window' = IF Cmp = "ALL_EQ" THEN tuplewindow_rewind(window)
                                  ELSE tuplewindow_movenext(window)
    /\ UNCHANGED <<plan, outerPos, status, slot, output>>

MoveNext ==
    /\ Comparing
    /\ ~tuplewindow_ateof(window)
    /\ ~DropsSlot
    /\ Cmp # "SECOND_DOMINATES"
    /\ window' = tuplewindow_movenext(window)
    /\ UNCHANGED <<plan, outerPos, status, slot, output>>

\* Mutant of PassOn: a tuple that finds no space in the window is lost.
PassOnWhatFits ==
    /\ Comparing
    /\ tuplewindow_ateof(window)
    /\ window' = ForcedPut(window, slot, 0, TupleSpace(input[slot]))
    /\ output' = IF \E k \in 1..Len(window'.slots) : window'.slots[k].tuple = slot
                 THEN Append(output, slot) ELSE output
    /\ slot' = 0
    /\ UNCHANGED <<plan, outerPos, status>>

\* The tuple is not dominated by one in the window: return it.
PassOn ==
    /\ Comparing
    /\ tuplewindow_ateof(window)
    /\ window' = ForcedPut(window, slot, 0, TupleSpace(input[slot]))
    /\ output' = Append(output, slot)
    /\ slot' = 0
    /\ UNCHANGED <<plan, outerPos, status>>

\* case SS_DONE: return NULL again.
ReturnNull ==
    /\ status = "SS_DONE"
    /\ UNCHANGED vars

Next ==
    \/ Start
    \/ Fetch \/ EndOfInput
    \/ Drop \/ RemoveDominated \/ MoveNext \/ PassOn
    \/ ReturnNull

Spec == Init /\ [][Next]_vars

\* The node above calls the filter until it returns NULL.
FairSpec == Spec /\ WF_vars(Next)

-----------------------------------------------------------------------------

Filter == INSTANCE SkylineFilter WITH done <- (status = "SS_DONE")

Slots    == 1..Len(window.slots)
Tuple(k) == window.slots[k].tuple
Rank(k)  == window.slots[k].rank
InWindow == {Tuple(k) : k \in Slots}

Superfluous(x, y) == \/ Dominates(node, input[x], input[y])
                     \/ node.skyline_distinct /\ AllEq(node, input[x], input[y])

-----------------------------------------------------------------------------
(* Invariants. *)

\* Every variable holds a value of its type, and both cursors point into the
\* window's list or to its sentinel.
TypeOK ==
    /\ node \in PlanNode
    /\ input \in Seq(Row(node))
    /\ outerPos \in 0..Len(input)
    /\ status \in {"SS_INIT", "SS_PROCESS", "SS_DONE"}
    /\ window \in Windows(Ids)
    /\ CursorsInList(window)
    /\ slot \in 0..Len(input)
    /\ output \in Seq(Ids)

\* The state each status is entered with; the tuple that is being compared is
\* the last one that was fetched.
PhaseInv ==
    /\ status = "SS_INIT" => outerPos = 0 /\ window.slots = <<>> /\ output = <<>>
    /\ slot # 0 => status = "SS_PROCESS" /\ slot = outerPos
    /\ status = "SS_DONE" => outerPos = Len(input)

\* The window holds tuples that have been passed on, none of them superfluous
\* because of another, and none up to the cursor superfluous with slot.
WindowInv ==
    /\ InWindow \subseteq Filter!Passed
    /\ \A k, m \in Slots : k # m => ~Superfluous(Tuple(k), Tuple(m))
    /\ slot # 0 => /\ slot \notin Filter!Passed
                   /\ \A k \in Slots : k < window.current =>
                         ~Superfluous(Tuple(k), slot) /\ ~Superfluous(slot, Tuple(k))

\* Each tuple fetched has been passed on, in the order of the input, or is
\* superfluous, except the one that is being compared.
PassedInv ==
    /\ \A q, r \in 1..Len(output) : q < r => output[q] < output[r]
    /\ Filter!Passed \subseteq 1..outerPos
    /\ \A i \in 1..outerPos : \/ i \in Filter!Passed \cup {slot}
                              \/ Filter!Superfluous(i)

\* The inductive invariant behind the correctness of the elimination filter.
FilterInv == TypeOK /\ PhaseInv /\ WindowInv /\ PassedInv

\* A forced insertion, too, keeps a ranked window in the order of descending
\* rank (tuplewindow.c 526-528), tuples without a rank aside: the rank cursor
\* survives the removal of the slot it points to.
RankOrder == RanksDescend(window)

\* The window's free space is exact however often slots come and go.
SpaceInv == SpaceAccounted(window)

-----------------------------------------------------------------------------
(* How far the filter is from its end. *)

StatusesLeft ==
    CASE status = "SS_INIT" -> 2
      [] status = "SS_DONE" -> 0
      [] OTHER              -> 1

Variant ==
    <<StatusesLeft, Len(input) - outerPos, Count(slot # 0),
      Len(window.slots) + 1 - window.current>>

-----------------------------------------------------------------------------
(* Properties. *)

\* The filter passes the tuples on in their order, and leaves out only tuples
\* that one it has passed on makes superfluous.
ImplementsFilter == Filter!Init /\ [][Filter!Next]_(Filter!vars)

\* To make room the window gives up the tuple with the lowest rank ("remove the
\* slot with the lowest ranking", tuplewindow.c 517-519), and only for a tuple
\* that ranks higher: it never trades a tuple for a worse filter.
GivesUpLowestRank ==
    [][output' # output =>
         \A k \in Slots : Tuple(k) \notin InWindow' /\ Rank(k) # NaN =>
             \A m \in 1..Len(window'.slots) :
                 window'.slots[m].rank # NaN => window'.slots[m].rank >= Rank(k)]_vars

\* The filter comes to an end whatever the limits of its window are: it never
\* keeps a tuple back for want of space.
Termination == <>(status = "SS_DONE")

\* Why it ends: no step leaves the filter as far from its end as it was.
Progress == [][Descends(Variant', Variant)]_vars

=============================================================================
