----------------------- MODULE BlockNestedLoop_proofs -----------------------
(***************************************************************************)
(* The block nested loop is correct for every plan: any columns, any       *)
(* input, any window policy and any window size, memory or slots.  The     *)
(* invariant IInv of BlockNestedLoop is inductive, and with it every step  *)
(* is a step of SkylineQuery or leaves its variables unchanged.            *)
(***************************************************************************)
EXTENDS BlockNestedLoop, SkylineRank_proofs

\* node and input are those of a plan, for which RanksAssumption holds.
PlanChosen == \E p \in Plans : node = p.node /\ input = p.input

TypeInv == TypeOK /\ PlanChosen

-----------------------------------------------------------------------------
(* Types. *)

LEMMA InitTypeInv == Init => TypeInv
<1> SUFFICES ASSUME Init PROVE TypeInv
  OBVIOUS
<1>1. PICK p \in Plans : /\ node = p.node
                         /\ input = p.input
                         /\ window = tuplewindow_begin(p.memory, p.slots, WindowPolicy(p))
  BY DEF Init
<1>2. p.node \in PlanNode /\ p.input \in Seq(Row(p.node))
  BY PlansAssumption
<1>3. window \in Windows(Ids) /\ CursorsInList(window)
  BY <1>1, PlanWindow, PlansAssumption
<1>4. Len(input) \in Nat
  BY <1>1, <1>2
<1>5. TypeOK
  <2>1. node \in PlanNode /\ input \in Seq(Row(node))
    BY <1>1, <1>2
  <2>2. /\ outerPos = 0 /\ status = "SS_INIT" /\ source = "SS_OUTER" /\ tempIn = <<>>
        /\ tempInPos = 0 /\ tempOut = <<>> /\ timestampIn = 0 /\ timestampOut = 0
        /\ slot = 0 /\ output = <<>>
    BY DEF Init
  <2>3. QED
    BY <1>3, <1>4, <2>1, <2>2 DEF TypeOK
<1>6. QED
  BY <1>1, <1>5 DEF TypeInv, PlanChosen

\* The memory a row takes and its rank.
LEMMA RowOfInput ==
    ASSUME PlanChosen, NEW i \in 1..Len(input)
    PROVE  /\ TupleSpace(input[i]) \in Nat
           /\ ExecSkylineRank(node, input[i]) \in Int \cup {NaN}
           /\ RangesKnown => ExecSkylineRank(node, input[i]) \in Int
<1>1. PICK p \in Plans : node = p.node /\ input = p.input
  BY DEF PlanChosen
<1>2. node \in PlanNode /\ input[i] \in Row(node)
  BY <1>1, PlansAssumption
<1>3. NaN \notin Int /\ TupleSpace(input[i]) \in Nat
  BY <1>1, RanksAssumption
<1>4. RangesKnown => \A c \in RankedColumns(node) : node.cols[c].colRange # 0
  BY <1>1 DEF RangesKnown
<1>5. QED
  BY <1>2, <1>3, <1>4, RankOfRow

\* The window a tuple is compared with: rewound, with the rank of the tuple.
LEMMA StartComparingWindow ==
    ASSUME TypeInv, NEW i \in 1..Len(input), StartComparing(i)
    PROVE  /\ window' \in Windows(Ids) /\ CursorsInList(window')
           /\ window'.slots = window.slots /\ window'.current = 1
           /\ slot' = i /\ timestampIn' = timestampIn + 1
<1>1. window \in Windows(Ids)
  BY DEF TypeInv, TypeOK
<1> DEFINE w == tuplewindow_rewind(window)
<1>2. w \in Windows(Ids) /\ CursorsInList(w) /\ w.slots = window.slots /\ w.current = 1
  BY <1>1, RewindWindow
<1>3. window.insertrank \in Int \cup {NaN}
  BY <1>1 DEF Windows
<1>4. PICK rank \in InsertRanks(i) : window' = tuplewindow_setinsertrank(w, rank)
  BY DEF StartComparing
<1>5. rank \in Int \cup {NaN}
  BY <1>3, RowOfInput, RanksAssumption DEF InsertRanks, TypeInv
<1> HIDE DEF w
<1>6. QED
  BY <1>2, <1>4, <1>5, SetInsertRankWindow DEF StartComparing

\* The window without the tuple at the cursor.
LEMMA RemoveCurrentSlot ==
    ASSUME TypeInv, ~tuplewindow_ateof(window),
           window' = tuplewindow_removecurrent(window)
    PROVE  /\ window' \in Windows(Ids) /\ CursorsInList(window')
           /\ window'.current = window.current
           /\ window.current \in Slots
           /\ CurrentSlot(window).tuple \in Ids
           /\ Len(window'.slots) = Len(window.slots) - 1
           /\ \A k \in 1..Len(window.slots)-1 :
                window'.slots[k] =
                  window.slots[IF k < window.current THEN k ELSE k+1]
<1>1. window \in Windows(Ids) /\ CursorsInList(window)
  BY DEF TypeInv, TypeOK
<1>2. /\ window' \in Windows(Ids) /\ CursorsInList(window')
      /\ window'.slots = UnlinkAt(window.slots, window.current)
      /\ window'.current = window.current
  BY <1>1, RemoveCurrentWindow
<1>3. window.current \in Slots /\ window.slots \in Seq(Entries(Ids))
  BY <1>1 DEF Windows, CursorsInList, tuplewindow_ateof, Nil, Slots
<1>4. window.slots[window.current] \in Entries(Ids)
  BY <1>3 DEF Slots
<1>5. CurrentSlot(window).tuple \in Ids
  BY <1>4 DEF Entries, CurrentSlot
<1>6. /\ Len(UnlinkAt(window.slots, window.current)) = Len(window.slots) - 1
      /\ \A k \in 1..Len(window.slots)-1 :
           UnlinkAt(window.slots, window.current)[k] =
             IF k < window.current THEN window.slots[k] ELSE window.slots[k+1]
  BY <1>3, UnlinkAtElements DEF Slots
<1>7. QED
  BY <1>2, <1>3, <1>5, <1>6

\* The window with the new tuple linked in at some position.
LEMMA PutInWindowSlots ==
    ASSUME TypeInv, PutInWindow
    PROVE  /\ window' \in Windows(Ids) /\ CursorsInList(window')
           /\ window'.current = 1
           /\ slot \in Ids
           /\ \E n \in 1..Len(window.slots)+1 :
                Inserted(window.slots, window'.slots, n, slot, timestampOut)
<1>1. window \in Windows(Ids) /\ CursorsInList(window) /\ tuplewindow_has_freespace(window)
  BY DEF TypeInv, TypeOK, PutInWindow
<1>2. slot \in Ids /\ slot \in 1..Len(input) /\ timestampOut \in Nat
  BY DEF TypeInv, TypeOK, PutInWindow, Comparing, Ids
<1> DEFINE space == TupleSpace(input[slot])
           v == tuplewindow_puttupleslot(window, slot, timestampOut, space)
<1>3. space \in Nat
  BY <1>2, RowOfInput DEF TypeInv
<1>4. window' = tuplewindow_rewind(v)
  BY DEF PutInWindow, PutTimestamp
<1> HIDE DEF space
<1>5. /\ v \in Windows(Ids) /\ CursorsInList(v)
      /\ \E n \in 1..Len(window.slots)+1 :
           Inserted(window.slots, v.slots, n, slot, timestampOut)
  BY <1>1, <1>2, <1>3, PutWindow
<1> HIDE DEF v
<1>6. /\ window' \in Windows(Ids) /\ CursorsInList(window')
      /\ window'.slots = v.slots /\ window'.current = 1
  BY <1>4, <1>5, RewindWindow
<1>7. QED
  BY <1>2, <1>5, <1>6

LEMMA NextTypeInv == TypeInv /\ [Next]_vars => TypeInv'
<1> SUFFICES ASSUME TypeInv, [Next]_vars PROVE TypeInv'
  OBVIOUS
<1>1. /\ node \in PlanNode /\ input \in Seq(Row(node))
      /\ window \in Windows(Ids) /\ CursorsInList(window)
      /\ outerPos \in 0..Len(input) /\ Len(input) \in Nat
  BY DEF TypeInv, TypeOK
<1>2. \/ UNCHANGED vars
      \/ UNCHANGED plan
  BY DEF Next, Start, FetchOuter, FetchTemp, Drop, RemoveDominated, MoveNext,
         PutInWindow, WriteToTemp, LastPass, NextPass, PipeOut, PipeOutSkip,
         PipeOutEnd, FinalPipeOut, Finish, ReturnNull
<1>3. UNCHANGED plan
  BY <1>2 DEF vars, plan
<1>4. PlanChosen' /\ Ids' = Ids /\ Len(input') = Len(input)
  BY <1>3 DEF TypeInv, PlanChosen, plan, Ids
<1>5. /\ node' \in PlanNode
      /\ input' \in Seq(Row(node'))
  BY <1>1, <1>3 DEF plan
<1>6. /\ window' \in Windows(Ids) /\ CursorsInList(window')
      /\ outerPos' \in 0..Len(input)
      /\ status' \in {"SS_INIT", "SS_PROCESS", "SS_PIPEOUT", "SS_FINALPIPEOUT", "SS_DONE"}
      /\ source' \in {"SS_OUTER", "SS_TEMP"}
      /\ tempIn' \in Seq(Ids) /\ tempInPos' \in 0..Len(tempIn') /\ tempOut' \in Seq(Ids)
      /\ timestampIn' \in Nat /\ timestampOut' \in Nat
      /\ slot' \in 0..Len(input)
      /\ output' \in Seq(Ids)
  <2>1. CASE Start
    BY <1>1, <2>1 DEF Start, TypeInv, TypeOK
  <2>2. CASE FetchOuter
    <3>1. outerPos + 1 \in 1..Len(input)
      BY <1>1, <2>2 DEF FetchOuter
    <3>2. QED
      BY <1>1, <2>2, <3>1, StartComparingWindow DEF FetchOuter, files, TypeInv, TypeOK
  <2>3. CASE FetchTemp
    <3>1. tempIn[tempInPos + 1] \in 1..Len(input)
      BY <2>3 DEF FetchTemp, TypeInv, TypeOK, Ids
    <3>2. QED
      BY <1>1, <2>3, <3>1, StartComparingWindow DEF FetchTemp, TypeInv, TypeOK
  <2>4. CASE Drop
    <3>1. window' \in Windows(Ids) /\ CursorsInList(window')
      BY <1>1, <2>4, RewindWindow DEF Drop
    <3>2. QED
      BY <1>1, <2>4, <3>1 DEF Drop, EndOfTuple, files, TypeInv, TypeOK
  <2>5. CASE RemoveDominated
    <3>1. window' \in Windows(Ids) /\ CursorsInList(window')
      BY <2>5, RemoveCurrentSlot DEF RemoveDominated
    <3>2. QED
      BY <2>5, <3>1 DEF RemoveDominated, files, TypeInv, TypeOK
  <2>6. CASE MoveNext
    <3>1. window' \in Windows(Ids) /\ CursorsInList(window')
      BY <1>1, <2>6, MoveNextWindow DEF MoveNext
    <3>2. QED
      BY <2>6, <3>1 DEF MoveNext, files, TypeInv, TypeOK
  <2>7. CASE PutInWindow
    <3>1. window' \in Windows(Ids) /\ CursorsInList(window')
      BY <2>7, PutInWindowSlots
    <3>2. QED
      BY <1>1, <2>7, <3>1 DEF PutInWindow, EndOfTuple, files, TypeInv, TypeOK
  <2>8. CASE WriteToTemp
    <3>1. window' \in Windows(Ids) /\ CursorsInList(window')
      BY <1>1, <2>8, RewindWindow DEF WriteToTemp
    <3>2. slot \in Ids
      BY <2>8 DEF WriteToTemp, Comparing, TypeInv, TypeOK, Ids
    <3>3. QED
      BY <1>1, <2>8, <3>1, <3>2 DEF WriteToTemp, EndOfTuple, TypeInv, TypeOK
  <2>9. CASE LastPass
    <3>1. window' \in Windows(Ids) /\ CursorsInList(window')
      BY <1>1, <2>9, RewindWindow DEF LastPass
    <3>2. QED
      BY <2>9, <3>1 DEF LastPass, TypeInv, TypeOK
  <2>10. CASE NextPass
    <3>1. window' \in Windows(Ids) /\ CursorsInList(window')
      BY <1>1, <2>10, RewindWindow DEF NextPass
    <3>2. QED
      BY <2>10, <3>1 DEF NextPass, TypeInv, TypeOK
  <2>11. CASE PipeOut \/ FinalPipeOut
    <3>1. /\ window' \in Windows(Ids) /\ CursorsInList(window')
          /\ CurrentSlot(window).tuple \in Ids
      BY <2>11, RemoveCurrentSlot DEF PipeOut, FinalPipeOut, EmitCurrent
    <3>2. output' = Append(output, CurrentSlot(window).tuple)
      BY <2>11 DEF PipeOut, FinalPipeOut, EmitCurrent
    <3>3. output' \in Seq(Ids)
      BY <3>1, <3>2 DEF TypeInv, TypeOK
    <3>4. QED
      BY <2>11, <3>1, <3>3 DEF PipeOut, FinalPipeOut, files, TypeInv, TypeOK
  <2>12. CASE PipeOutSkip
    <3>1. window' \in Windows(Ids) /\ CursorsInList(window')
      BY <1>1, <2>12, MoveNextWindow DEF PipeOutSkip
    <3>2. QED
      BY <2>12, <3>1 DEF PipeOutSkip, files, TypeInv, TypeOK
  <2>13. CASE PipeOutEnd \/ Finish
    BY <2>13 DEF PipeOutEnd, Finish, files, TypeInv, TypeOK
  <2>14. CASE ReturnNull \/ UNCHANGED vars
    BY <2>14 DEF ReturnNull, vars, TypeInv, TypeOK
  <2>15. QED
    BY <2>1, <2>2, <2>3, <2>4, <2>5, <2>6, <2>7, <2>8, <2>9, <2>10, <2>11, <2>12,
       <2>13, <2>14 DEF Next
<1>7. TypeOK'
  BY <1>4, <1>5, <1>6 DEF TypeOK
<1>8. QED
  BY <1>4, <1>7 DEF TypeInv

\* The type invariant holds for every plan: the cursors never leave the
\* window's list and no read of the temporary file is out of its range.
THEOREM TypeCorrect == Spec => []TypeOK
<1>1. TypeInv => TypeOK
  BY DEF TypeInv
<1>2. QED
  BY <1>1, InitTypeInv, NextTypeInv, PTL DEF Spec

-----------------------------------------------------------------------------
(* The order the query is about, on the tuples of the input. *)

\* The instance of SkylineQuery compares tuples as the executor does.
LEMMA SameDominance ==
    ASSUME NEW x, NEW y
    PROVE  /\ Query!Dominates(node, x, y) <=> Dominates(node, x, y)
           /\ Query!AllEq(node, x, y) <=> AllEq(node, x, y)
  BY DEF Query!Dominates, Query!AllEq, Query!IsDominating, Query!ApplyCompare,
         Query!Columns, Query!Sign, Dominates, AllEq, IsDominating, ApplyCompare,
         Columns, Sign

LEMMA BeatsExpanded ==
    ASSUME NEW x, NEW y
    PROVE  Query!Beats(x, y) <=>
             \/ Dominates(node, input[x], input[y])
             \/ node.skyline_distinct /\ x # y /\ AllEq(node, input[x], input[y])
  BY SameDominance DEF Query!Beats

\* Beats is irreflexive, and transitive between different tuples.
LEMMA BeatsOrder ==
    ASSUME TypeInv, NEW x \in Ids, NEW y \in Ids, NEW z \in Ids
    PROVE  /\ ~Query!Beats(x, x)
           /\ Query!Beats(x, y) /\ Query!Beats(y, z) /\ x # z => Query!Beats(x, z)
           /\ ~(Query!Beats(x, y) /\ Dominates(node, input[y], input[x]))
           /\ Dominates(node, input[x], input[y]) => Query!Beats(x, y)
<1>1. /\ node \in PlanNode /\ input[x] \in Row(node)
      /\ input[y] \in Row(node) /\ input[z] \in Row(node)
  BY DEF TypeInv, TypeOK, Ids
<1>2. ~Dominates(node, input[x], input[x])
  BY <1>1, DominanceIrreflexive
<1>3. /\ ~(Dominates(node, input[x], input[y]) /\ Dominates(node, input[y], input[x]))
      /\ ~(AllEq(node, input[x], input[y]) /\ Dominates(node, input[y], input[x]))
  BY <1>1, DominanceMirror
<1>4. /\ Dominates(node, input[x], input[y]) /\ Dominates(node, input[y], input[z])
           => Dominates(node, input[x], input[z])
      /\ Dominates(node, input[x], input[y]) /\ AllEq(node, input[y], input[z])
           => Dominates(node, input[x], input[z])
      /\ AllEq(node, input[x], input[y]) /\ Dominates(node, input[y], input[z])
           => Dominates(node, input[x], input[z])
      /\ AllEq(node, input[x], input[y]) /\ AllEq(node, input[y], input[z])
           => AllEq(node, input[x], input[z])
  BY <1>1, DominanceTransitive
<1>5. QED
  BY <1>2, <1>3, <1>4, BeatsExpanded

LEMMA IndependentSymmetric ==
    ASSUME NEW x, NEW y, Independent(x, y)
    PROVE  Independent(y, x) /\ x # y
  BY DEF Independent

\* A comparison with the window tuple at the cursor settles the pair.
LEMMA ComparisonSettles ==
    ASSUME TypeInv, Comparing, ~tuplewindow_ateof(window)
    PROVE  LET w == CurrentSlot(window).tuple
           IN  /\ w \in Ids /\ slot \in Ids
               /\ w # slot /\ DropsSlot => Query!Beats(w, slot)
               /\ Cmp = "SECOND_DOMINATES" => Query!Beats(slot, w)
               /\ w # slot /\ ~DropsSlot /\ Cmp # "SECOND_DOMINATES" => Independent(w, slot)
<1> DEFINE w == CurrentSlot(window).tuple
<1>1. window.current \in 1..Len(window.slots) /\ window.slots \in Seq(Entries(Ids))
  BY SMTT(60) DEF TypeInv, TypeOK, Windows, CursorsInList, tuplewindow_ateof, Nil
<1>2. window.slots[window.current] \in Entries(Ids)
  BY <1>1
<1>3. w \in Ids /\ slot \in Ids
  BY <1>2 DEF Entries, CurrentSlot, TypeInv, TypeOK, Comparing, Ids
<1> HIDE DEF w
<1>4. node \in PlanNode /\ input[w] \in Row(node) /\ input[slot] \in Row(node)
  BY <1>3 DEF TypeInv, TypeOK, Ids
<1>5. Cmp = IsDominating(node, input[w], input[slot])
  BY DEF Cmp, w
<1>6. /\ Cmp \in CmpResults
      /\ Cmp = "FIRST_DOMINATES" <=> Dominates(node, input[w], input[slot])
      /\ Cmp = "SECOND_DOMINATES" <=> Dominates(node, input[slot], input[w])
      /\ Cmp = "ALL_EQ" <=> AllEq(node, input[w], input[slot])
      /\ AllEq(node, input[w], input[slot]) <=> AllEq(node, input[slot], input[w])
  BY <1>4, <1>5, Outcomes, DominanceMirror DEF Dominates, AllEq
<1>7. /\ w # slot /\ DropsSlot => Query!Beats(w, slot)
      /\ Cmp = "SECOND_DOMINATES" => Query!Beats(slot, w)
      /\ w # slot /\ ~DropsSlot /\ Cmp # "SECOND_DOMINATES" => Independent(w, slot)
  BY <1>6, BeatsExpanded DEF DropsSlot, Independent
<1>8. QED
  BY <1>3, <1>7 DEF w

\* The relations on the input do not change.
LEMMA PlanFrame ==
    ASSUME UNCHANGED plan
    PROVE  /\ \A x, y : Independent(x, y)' <=> Independent(x, y)
           /\ \A x, y : Query!Beats(x, y)' <=> Query!Beats(x, y)
           /\ Ids' = Ids
  BY DEF plan, Independent, Query!Beats, Ids

LEMMA SlotTypes ==
    ASSUME TypeInv
    PROVE  /\ Len(window.slots) \in Nat /\ window.current \in Nat \ {0}
           /\ \A k \in Slots : Tuple(k) \in Ids /\ Stamp(k) \in Nat
<1>1. window.slots \in Seq(Entries(Ids)) /\ window.current \in Nat \ {0}
  BY DEF TypeInv, TypeOK, Windows
<1>2. \A k \in Slots : window.slots[k] \in Entries(Ids)
  BY <1>1 DEF Slots
<1>3. QED
  BY <1>1, <1>2 DEF Tuple, Stamp, Entries

LEMMA CursorAtSlot ==
    ASSUME TypeInv, ~tuplewindow_ateof(window)
    PROVE  /\ window.current \in Slots
           /\ CurrentSlot(window).tuple = Tuple(window.current)
           /\ CurrentSlot(window).timestamp = Stamp(window.current)
<1>1. window.current \in Nat \ {0} /\ Len(window.slots) \in Nat
  BY SlotTypes
<1>2. window.current \in Slots
  BY <1>1 DEF TypeInv, TypeOK, CursorsInList, tuplewindow_ateof, Nil, Slots
<1>3. QED
  BY <1>2 DEF CurrentSlot, Tuple, Stamp

-----------------------------------------------------------------------------
(* Nothing is lost: the two ways a step keeps CoveredInv. *)

LEMMA CoveredByMore ==
    ASSUME CoveredInv, UNCHANGED plan, Alive \subseteq Alive'
    PROVE  CoveredInv'
  BY PlanFrame DEF CoveredInv

LEMMA CoveredByAnother ==
    ASSUME TypeInv, CoveredInv, UNCHANGED plan,
           NEW x \in Ids, NEW w \in Ids, Query!Beats(w, x), w \in Alive',
           \A i \in Alive : i = x \/ i \in Alive'
    PROVE  CoveredInv'
<1> SUFFICES ASSUME NEW i \in Ids
             PROVE  i \in Alive' \/ \E k \in Alive' : Query!Beats(k, i)
  BY PlanFrame DEF CoveredInv
<1>1. CASE i \in Alive
  BY <1>1
<1>2. CASE i \notin Alive
  <2>1. PICK k \in Alive : Query!Beats(k, i)
    BY <1>2 DEF CoveredInv
  <2>2. CASE k = x
    BY <2>1, <2>2, BeatsOrder
  <2>3. CASE k # x
    BY <2>1, <2>3
  <2>4. QED
    BY <2>2, <2>3
<1>3. QED
  BY <1>1, <1>2

-----------------------------------------------------------------------------
(* IInv is inductive: one lemma per action or group of similar actions. *)

\* A query that has not read anything.
LEMMA NothingReadIInv ==
    ASSUME TypeOK, status \in {"SS_INIT", "SS_PROCESS"}, source = "SS_OUTER",
           outerPos = 0, window.slots = <<>>, tempIn = <<>>, tempOut = <<>>,
           timestampIn = 0, timestampOut = 0, slot = 0, output = <<>>
    PROVE  IInv
<1>1. Len(input) \in Nat
  BY DEF TypeOK
<1>2. Slots = {} /\ Unread = {}
  BY DEF Slots, Unread, TypeOK
<1>3. Ids \subseteq Alive
  BY DEF Ids, Alive, Pending, UnreadOuter
<1>4. PhaseInv /\ TimestampInv /\ ComparedInv /\ EmittedInv /\ CoveredInv
  BY <1>2, <1>3 DEF PhaseInv, TimestampInv, ComparedInv, EmittedInv, CoveredInv
<1>5. PlacesInv
  BY <1>1, <1>2 DEF PlacesInv
<1>6. QED
  BY <1>4, <1>5 DEF IInv

LEMMA InitIInv == Init => IInv
<1> SUFFICES ASSUME Init PROVE IInv
  OBVIOUS
<1>1. TypeOK /\ window.slots = <<>>
  BY InitTypeInv DEF TypeInv, Init, tuplewindow_begin
<1>2. QED
  BY <1>1, NothingReadIInv DEF Init

LEMMA StartIInv ==
    ASSUME TypeInv, IInv, Start, UNCHANGED plan, TypeInv'
    PROVE  IInv'
<1>1. /\ outerPos' = outerPos /\ outerPos = 0 /\ window' = window /\ window.slots = <<>>
      /\ slot' = slot /\ slot = 0 /\ output' = output /\ output = <<>>
      /\ tempIn = <<>> /\ tempIn' = <<>> /\ tempInPos' = 0 /\ tempOut = <<>> /\ tempOut' = <<>>
      /\ timestampIn' = 0 /\ timestampOut' = 0
      /\ source' = "SS_OUTER" /\ status' = "SS_PROCESS"
  BY DEF Start, IInv, PhaseInv, TypeInv, TypeOK
<1>2. Slots' = {} /\ Slots = {} /\ Unread' = {}
  BY <1>1 DEF Slots, Unread
<1>3. Alive \subseteq Alive'
  BY <1>1, <1>2 DEF Alive, Pending, Written, UnreadTemp, Unread, UnreadOuter,
                    Query!Emitted, TypeInv, TypeOK, plan
<1>4. CoveredInv'
  BY <1>3, CoveredByMore DEF IInv
<1>5. PhaseInv' /\ TimestampInv' /\ ComparedInv' /\ EmittedInv'
  BY <1>1, <1>2 DEF PhaseInv, TimestampInv, ComparedInv, EmittedInv
<1>6. PlacesInv'
  BY <1>1, <1>2 DEF PlacesInv, Unread
<1>7. QED
  BY <1>4, <1>5, <1>6 DEF IInv, TypeInv

LEMMA FetchOuterIInv ==
    ASSUME TypeInv, IInv, FetchOuter, UNCHANGED plan, TypeInv'
    PROVE  IInv'
<1>1. /\ outerPos \in Nat /\ outerPos < Len(input) /\ Len(input) \in Nat
      /\ timestampIn \in Nat /\ timestampOut \in Nat
  BY DEF FetchOuter, TypeInv, TypeOK
<1>2. /\ window'.slots = window.slots /\ window'.current = 1
      /\ slot' = outerPos + 1 /\ timestampIn' = timestampIn + 1
  BY <1>1, StartComparingWindow DEF FetchOuter
<1>3. /\ outerPos' = outerPos + 1 /\ status' = status /\ source' = source
      /\ tempIn' = tempIn /\ tempInPos' = tempInPos /\ tempOut' = tempOut
      /\ timestampOut' = timestampOut /\ output' = output
      /\ status = "SS_PROCESS" /\ source = "SS_OUTER" /\ slot = 0
      /\ Len(input') = Len(input)
  BY DEF FetchOuter, files, plan
<1>4. /\ Slots' = Slots /\ \A k : Tuple(k)' = Tuple(k) /\ Stamp(k)' = Stamp(k)
      /\ Unread' = Unread /\ Written' = Written /\ UnreadTemp' = UnreadTemp
      /\ Query!Emitted' = Query!Emitted
  BY <1>2, <1>3 DEF Slots, Tuple, Stamp, Unread, Written, UnreadTemp, Query!Emitted
<1>5. Pending' = Pending
  <2>1. UnreadOuter' \cup {outerPos + 1} = UnreadOuter
    BY <1>1, <1>3 DEF UnreadOuter
  <2>2. {Tuple(k) : k \in Slots}' = {Tuple(k) : k \in Slots}
    BY <1>4
  <2>3. QED
    BY <1>1, <1>2, <1>3, <1>4, <2>1, <2>2 DEF Pending
<1>6. CoveredInv'
  BY <1>4, <1>5, CoveredByMore DEF Alive, IInv
<1>7. EmittedInv'
  BY <1>3, <1>5, PlanFrame DEF EmittedInv, IInv
<1>8. PhaseInv'
  BY <1>3 DEF PhaseInv, IInv
<1>9. TimestampInv'
  <2>1. \A k \in Slots : Stamp(k) \in Nat
    BY SlotTypes
  <2>2. QED
    BY <1>1, <1>2, <1>3, <1>4, <2>1 DEF TimestampInv, IInv
<1>10. PlacesInv'
  BY <1>1, <1>2, <1>3, <1>4 DEF PlacesInv, IInv
<1>11. ComparedInv'
  BY <1>2, <1>3, <1>4, PlanFrame DEF ComparedInv, Old, IInv, Slots
<1>12. QED
  BY <1>6, <1>7, <1>8, <1>9, <1>10, <1>11 DEF IInv, TypeInv

LEMMA FetchTempIInv ==
    ASSUME TypeInv, IInv, FetchTemp, UNCHANGED plan, TypeInv'
    PROVE  IInv'
<1>1. /\ tempInPos \in Nat /\ tempInPos < Len(tempIn) /\ Len(tempIn) \in Nat
      /\ timestampIn \in Nat /\ timestampOut \in Nat /\ outerPos \in Nat
      /\ tempIn[tempInPos + 1] \in 1..Len(input)
  BY DEF FetchTemp, TypeInv, TypeOK, Ids
<1>2. /\ window'.slots = window.slots /\ window'.current = 1
      /\ slot' = tempIn[tempInPos + 1] /\ timestampIn' = timestampIn + 1
  BY <1>1, StartComparingWindow DEF FetchTemp
<1>3. /\ outerPos' = outerPos /\ status' = status /\ source' = source
      /\ tempIn' = tempIn /\ tempInPos' = tempInPos + 1 /\ tempOut' = tempOut
      /\ timestampOut' = timestampOut /\ output' = output
      /\ status = "SS_PROCESS" /\ source = "SS_TEMP" /\ slot = 0
      /\ Len(input') = Len(input)
  BY DEF FetchTemp, plan
<1>4. /\ Slots' = Slots /\ \A k : Tuple(k)' = Tuple(k) /\ Stamp(k)' = Stamp(k)
      /\ Written' = Written /\ UnreadOuter' = UnreadOuter
      /\ Query!Emitted' = Query!Emitted
  BY <1>2, <1>3 DEF Slots, Tuple, Stamp, Written, UnreadOuter, Query!Emitted
<1>5. Unread = Unread' \cup {tempInPos + 1} /\ tempInPos + 1 \notin Unread'
  BY <1>1, <1>3 DEF Unread
<1>6. UnreadTemp = UnreadTemp' \cup {slot'}
  BY <1>2, <1>3, <1>5 DEF UnreadTemp
<1>7. Pending' = Pending
  <2>1. {Tuple(k) : k \in Slots}' = {Tuple(k) : k \in Slots}
    BY <1>4
  <2>2. slot' # 0
    BY <1>1, <1>2
  <2>3. QED
    BY <1>3, <1>4, <1>6, <2>1, <2>2 DEF Pending
<1>8. CoveredInv'
  BY <1>4, <1>7, CoveredByMore DEF Alive, IInv
<1>9. EmittedInv'
  BY <1>3, <1>7, PlanFrame DEF EmittedInv, IInv
<1>10. PhaseInv'
  BY <1>3 DEF PhaseInv, IInv
<1>11. TimestampInv'
  BY <1>1, <1>2, <1>3, <1>4 DEF TimestampInv, IInv
<1>12. PlacesInv'
  <2>1. PlacesInv
    BY DEF IInv
  <2>2. \A k \in Slots :
          Tuple(k) \in 1..outerPos /\ Tuple(k) \notin Written' \cup UnreadTemp' \cup {slot'}
    BY <1>4, <1>6, <2>1 DEF PlacesInv
  <2>3. \A q \in Unread' :
          /\ tempIn[q] \in 1..outerPos
          /\ tempIn[q] # slot'
          /\ \A r \in Unread' : q # r => tempIn[q] # tempIn[r]
    BY <1>2, <1>5, <2>1 DEF PlacesInv
  <2>4. \A q \in 1..Len(tempOut) :
          /\ tempOut[q] \in 1..outerPos
          /\ tempOut[q] \notin UnreadTemp' \cup {slot'}
          /\ \A r \in 1..Len(tempOut) : q # r => tempOut[q] # tempOut[r]
    BY <1>6, <2>1 DEF PlacesInv
  <2>5. slot' <= outerPos
    BY <1>2, <1>5, <2>1 DEF PlacesInv
  <2>6. QED
    BY <1>3, <1>4, <2>2, <2>3, <2>4, <2>5 DEF PlacesInv
<1>13. ComparedInv'
  <2>1. \A k \in Slots : Old(k)' => Old(k)
    BY <1>1, <1>2, <1>3, <1>4, SlotTypes DEF Old
  <2>2. \A k \in Slots' : ~(k < window'.current)
    BY <1>2 DEF Slots
  <2>3. QED
    BY <1>3, <1>4, <1>5, <2>1, <2>2, PlanFrame DEF ComparedInv, IInv
<1>14. QED
  BY <1>8, <1>9, <1>10, <1>11, <1>12, <1>13 DEF IInv, TypeInv

LEMMA DropIInv ==
    ASSUME TypeInv, IInv, Drop, UNCHANGED plan, TypeInv'
    PROVE  IInv'
<1> DEFINE w == CurrentSlot(window).tuple
<1>1. /\ window'.slots = window.slots /\ window'.current = 1
  BY RewindWindow DEF Drop, TypeInv, TypeOK
<1>2. /\ outerPos' = outerPos /\ status' = "SS_PIPEOUT" /\ source' = source
      /\ tempIn' = tempIn /\ tempInPos' = tempInPos /\ tempOut' = tempOut
      /\ timestampIn' = timestampIn /\ timestampOut' = timestampOut /\ output' = output
      /\ status = "SS_PROCESS" /\ slot # 0 /\ slot' = 0
      /\ Len(input') = Len(input)
  BY DEF Drop, EndOfTuple, Comparing, files, plan
<1>3. /\ Slots' = Slots /\ \A k : Tuple(k)' = Tuple(k) /\ Stamp(k)' = Stamp(k)
      /\ Unread' = Unread /\ Written' = Written /\ UnreadTemp' = UnreadTemp
      /\ UnreadOuter' = UnreadOuter /\ Query!Emitted' = Query!Emitted
  BY <1>1, <1>2 DEF Slots, Tuple, Stamp, Unread, Written, UnreadTemp, UnreadOuter,
                    Query!Emitted
<1>4. window.current \in Slots /\ w = Tuple(window.current)
  BY CursorAtSlot DEF Drop
<1>5. Pending = Pending' \cup {slot} /\ w \in Pending'
  <2>1. {Tuple(k) : k \in Slots}' = {Tuple(k) : k \in Slots}
    BY <1>3
  <2>2. QED
    BY <1>2, <1>3, <1>4, <2>1 DEF Pending
<1>6. w # slot
  BY <1>4 DEF IInv, PlacesInv
<1>7. w \in Ids /\ slot \in Ids /\ Query!Beats(w, slot)
  BY <1>6, ComparisonSettles DEF Drop
<1>8. CoveredInv'
  <2>1. w \in Alive' /\ \A i \in Alive : i = slot \/ i \in Alive'
    BY <1>3, <1>5 DEF Alive
  <2> HIDE DEF w
  <2>2. QED
    BY <1>7, <2>1, CoveredByAnother DEF IInv
<1>9. EmittedInv'
  BY <1>2, <1>5, PlanFrame DEF EmittedInv, IInv
<1>10. PhaseInv' /\ TimestampInv'
  BY <1>2, <1>3 DEF PhaseInv, TimestampInv, IInv
<1>11. PlacesInv'
  <2>1. 0 \notin 1..outerPos /\ outerPos \in Nat
    BY DEF TypeInv, TypeOK
  <2>2. QED
    BY <1>2, <1>3, <2>1 DEF PlacesInv, IInv
<1>12. ComparedInv'
  BY <1>2, <1>3, PlanFrame DEF ComparedInv, Old, IInv
<1>13. QED
  BY <1>8, <1>9, <1>10, <1>11, <1>12 DEF IInv, TypeInv

\* The slots that a removal at the cursor leaves are the others, in order.
LEMMA SlotsAfterRemoval ==
    ASSUME TypeInv, ~tuplewindow_ateof(window),
           window' = tuplewindow_removecurrent(window)
    PROVE  LET c == window.current
               f(k) == IF k < c THEN k ELSE k+1
           IN  /\ window'.current = c /\ c \in Slots
               /\ \A k \in Slots' : /\ f(k) \in Slots /\ f(k) # c
                                    /\ Tuple(k)' = Tuple(f(k)) /\ Stamp(k)' = Stamp(f(k))
               /\ \A k, m \in Slots' : k # m => f(k) # f(m)
               /\ \A k \in Slots' : k < c => f(k) < c
               /\ \A j \in Slots : j # c => \E k \in Slots' : f(k) = j
<1> DEFINE c == window.current
           f(k) == IF k < c THEN k ELSE k+1
<1>1. c \in Nat \ {0} /\ Len(window.slots) \in Nat /\ c \in 1..Len(window.slots)
  BY SlotTypes, CursorAtSlot DEF Slots
<1>2. /\ window'.current = c
      /\ Len(window'.slots) = Len(window.slots) - 1
      /\ \A k \in 1..Len(window.slots)-1 : window'.slots[k] = window.slots[f(k)]
  BY RemoveCurrentSlot
<1>3. Slots' = 1..Len(window.slots)-1
  BY <1>2 DEF Slots
<1>4. \A k \in Slots' : Tuple(k)' = Tuple(f(k)) /\ Stamp(k)' = Stamp(f(k))
  BY <1>2, <1>3 DEF Tuple, Stamp
<1> HIDE DEF c
<1>5. /\ \A k \in Slots' : f(k) \in Slots /\ f(k) # c
      /\ \A k, m \in Slots' : k # m => f(k) # f(m)
      /\ \A k \in Slots' : k < c => f(k) < c
  BY <1>1, <1>3 DEF Slots
<1>6. ASSUME NEW j \in Slots, j # c
      PROVE  \E k \in Slots' : f(k) = j
  <2>1. CASE j < c
    <3>1. j \in Slots' /\ f(j) = j
      BY <1>1, <1>3, <1>6, <2>1 DEF Slots
    <3>2. QED
      BY <3>1
  <2>2. CASE ~(j < c)
    <3>1. j-1 \in Slots' /\ f(j-1) = j
      BY <1>1, <1>3, <1>6, <2>2 DEF Slots
    <3>2. QED
      BY <3>1
  <2>3. QED
    BY <2>1, <2>2
<1>7. c \in Slots
  BY <1>1 DEF Slots
<1>8. QED
  BY <1>2, <1>4, <1>5, <1>6, <1>7 DEF c

LEMMA RemoveDominatedIInv ==
    ASSUME TypeInv, IInv, RemoveDominated, UNCHANGED plan, TypeInv'
    PROVE  IInv'
<1> DEFINE c == window.current
           f(k) == IF k < c THEN k ELSE k+1
           x == Tuple(c)
<1>1. /\ window'.current = c /\ c \in Slots
      /\ \A k \in Slots' : /\ f(k) \in Slots /\ f(k) # c
                           /\ Tuple(k)' = Tuple(f(k)) /\ Stamp(k)' = Stamp(f(k))
      /\ \A k, m \in Slots' : k # m => f(k) # f(m)
      /\ \A k \in Slots' : k < c => f(k) < c
      /\ \A j \in Slots : j # c => \E k \in Slots' : f(k) = j
  BY SlotsAfterRemoval DEF RemoveDominated
<1>2. /\ outerPos' = outerPos /\ status' = status /\ source' = source
      /\ tempIn' = tempIn /\ tempInPos' = tempInPos /\ tempOut' = tempOut
      /\ timestampIn' = timestampIn /\ timestampOut' = timestampOut /\ output' = output
      /\ slot' = slot /\ status = "SS_PROCESS" /\ slot # 0
      /\ Len(input') = Len(input)
  BY DEF RemoveDominated, Comparing, files, plan
<1>3. /\ Unread' = Unread /\ Written' = Written /\ UnreadTemp' = UnreadTemp
      /\ UnreadOuter' = UnreadOuter /\ Query!Emitted' = Query!Emitted
  BY <1>2 DEF Unread, Written, UnreadTemp, UnreadOuter, Query!Emitted
<1>4. x \in Ids /\ slot \in Ids /\ Query!Beats(slot, x)
  BY ComparisonSettles, CursorAtSlot DEF RemoveDominated
<1> HIDE DEF f, x
<1>5. Pending' \subseteq Pending /\ Pending \subseteq Pending' \cup {x} /\ slot \in Pending'
  <2>1. {Tuple(k) : k \in Slots}' \subseteq {Tuple(k) : k \in Slots}
    BY <1>1
  <2>2. {Tuple(k) : k \in Slots} \subseteq {Tuple(k) : k \in Slots}' \cup {x}
    <3> SUFFICES ASSUME NEW j \in Slots
                 PROVE  Tuple(j) = x \/ \E k \in Slots' : Tuple(j) = Tuple(k)'
      OBVIOUS
    <3>1. QED
      BY <1>1 DEF x
  <2>3. QED
    BY <1>2, <1>3, <2>1, <2>2 DEF Pending
<1>6. CoveredInv'
  <2>1. slot \in Alive' /\ \A i \in Alive : i = x \/ i \in Alive'
    BY <1>3, <1>5 DEF Alive
  <2>2. QED
    BY <1>4, <2>1, CoveredByAnother DEF IInv
<1>7. EmittedInv'
  BY <1>2, <1>5, PlanFrame DEF EmittedInv, IInv
<1>8. PhaseInv'
  BY <1>2 DEF PhaseInv, IInv
<1>9. TimestampInv'
  BY <1>1, <1>2 DEF TimestampInv, IInv
<1>10. PlacesInv'
  BY <1>1, <1>2, <1>3 DEF PlacesInv, IInv
<1>11. ComparedInv'
  <2>1. \A k \in Slots' : Old(k)' <=> Old(f(k))
    BY <1>1, <1>2 DEF Old
  <2> SUFFICES ASSUME NEW k \in Slots'
               PROVE  /\ \A m \in Slots' : m # k => Independent(Tuple(k), Tuple(m))'
                      /\ \A q \in 1..Len(tempOut) :
                           Old(k)' \/ q > Stamp(k)' => Independent(Tuple(k)', tempOut[q])
                      /\ \A q \in Unread :
                           Old(k)' /\ q > Stamp(k)' => Independent(Tuple(k)', tempIn[q])
                      /\ k < c => Independent(Tuple(k)', slot)
    BY <1>1, <1>2, <1>3, PlanFrame DEF ComparedInv
  <2> DEFINE j == f(k)
  <2>2. /\ j \in Slots /\ Tuple(k)' = Tuple(j) /\ Stamp(k)' = Stamp(j)
        /\ Old(k)' <=> Old(j)
        /\ k < c => j < c
    BY <1>1, <2>1
  <2>3. ASSUME NEW m \in Slots', m # k
        PROVE  Independent(Tuple(k), Tuple(m))'
    <3>1. f(m) \in Slots /\ f(m) # j /\ Tuple(m)' = Tuple(f(m))
      BY <1>1, <2>3
    <3>2. Independent(Tuple(j), Tuple(f(m)))
      BY <2>2, <3>1 DEF ComparedInv, IInv
    <3>3. QED
      BY <2>2, <3>1, <3>2, PlanFrame
  <2> HIDE DEF j, c
  <2>4. /\ \A q \in 1..Len(tempOut) :
             Old(j) \/ q > Stamp(j) => Independent(Tuple(j), tempOut[q])
        /\ \A q \in Unread : Old(j) /\ q > Stamp(j) => Independent(Tuple(j), tempIn[q])
        /\ j < c => Independent(Tuple(j), slot)
    BY <1>2, <2>2 DEF ComparedInv, IInv, c
  <2>5. QED
    BY <2>2, <2>3, <2>4
<1>12. QED
  BY <1>6, <1>7, <1>8, <1>9, <1>10, <1>11 DEF IInv, TypeInv

LEMMA MoveNextIInv ==
    ASSUME TypeInv, IInv, MoveNext, UNCHANGED plan, TypeInv'
    PROVE  IInv'
<1>1. window'.slots = window.slots /\ window'.current = window.current + 1
  BY MoveNextWindow DEF MoveNext, TypeInv, TypeOK
<1>2. /\ outerPos' = outerPos /\ status' = status /\ source' = source
      /\ tempIn' = tempIn /\ tempInPos' = tempInPos /\ tempOut' = tempOut
      /\ timestampIn' = timestampIn /\ timestampOut' = timestampOut /\ output' = output
      /\ slot' = slot /\ status = "SS_PROCESS" /\ slot # 0
      /\ Len(input') = Len(input)
  BY DEF MoveNext, Comparing, files, plan
<1>3. /\ Slots' = Slots /\ \A k : Tuple(k)' = Tuple(k) /\ Stamp(k)' = Stamp(k)
      /\ Unread' = Unread /\ Written' = Written /\ UnreadTemp' = UnreadTemp
      /\ UnreadOuter' = UnreadOuter /\ Query!Emitted' = Query!Emitted
  BY <1>1, <1>2 DEF Slots, Tuple, Stamp, Unread, Written, UnreadTemp, UnreadOuter,
                    Query!Emitted
<1>4. Pending' = Pending
  <2>1. {Tuple(k) : k \in Slots}' = {Tuple(k) : k \in Slots}
    BY <1>3
  <2>2. QED
    BY <1>2, <1>3, <2>1 DEF Pending
<1>5. CoveredInv' /\ EmittedInv'
  BY <1>2, <1>3, <1>4, CoveredByMore, PlanFrame DEF Alive, EmittedInv, IInv
<1>6. PhaseInv' /\ TimestampInv' /\ PlacesInv'
  BY <1>2, <1>3 DEF PhaseInv, TimestampInv, PlacesInv, IInv
<1>7. ComparedInv'
  <2>1. window.current \in Slots /\ Independent(Tuple(window.current), slot)
    <3>1. Tuple(window.current) # slot
      BY CursorAtSlot DEF MoveNext, IInv, PlacesInv
    <3>2. QED
      BY <3>1, CursorAtSlot, ComparisonSettles DEF MoveNext
  <2>2. \A k \in Slots : k < window.current + 1 => k < window.current \/ k = window.current
    BY SlotTypes DEF Slots
  <2>3. QED
    BY <1>1, <1>2, <1>3, <2>1, <2>2, PlanFrame DEF ComparedInv, Old, IInv
<1>8. QED
  BY <1>5, <1>6, <1>7 DEF IInv, TypeInv

LEMMA WriteToTempIInv ==
    ASSUME TypeInv, IInv, WriteToTemp, UNCHANGED plan, TypeInv'
    PROVE  IInv'
<1>1. window'.slots = window.slots /\ window'.current = 1
  BY RewindWindow DEF WriteToTemp, TypeInv, TypeOK
<1>2. /\ outerPos' = outerPos /\ status' = "SS_PIPEOUT" /\ source' = source
      /\ tempIn' = tempIn /\ tempInPos' = tempInPos /\ tempOut' = Append(tempOut, slot)
      /\ timestampIn' = timestampIn /\ timestampOut' = timestampOut + 1 /\ output' = output
      /\ slot' = 0 /\ status = "SS_PROCESS" /\ slot # 0
      /\ Len(input') = Len(input)
  BY DEF WriteToTemp, EndOfTuple, Comparing, plan
<1>3. /\ Slots' = Slots /\ \A k : Tuple(k)' = Tuple(k) /\ Stamp(k)' = Stamp(k)
      /\ Unread' = Unread /\ UnreadTemp' = UnreadTemp
      /\ UnreadOuter' = UnreadOuter /\ Query!Emitted' = Query!Emitted
  BY <1>1, <1>2 DEF Slots, Tuple, Stamp, Unread, UnreadTemp, UnreadOuter, Query!Emitted
<1>4. /\ tempOut \in Seq(Ids) /\ slot \in Ids
      /\ timestampOut \in Nat /\ timestampIn \in Nat /\ outerPos \in Nat
  BY <1>2 DEF TypeInv, TypeOK, Ids
<1>5. /\ Len(tempOut) \in Nat /\ Len(tempOut') = Len(tempOut) + 1
      /\ \A q \in 1..Len(tempOut) : tempOut'[q] = tempOut[q]
      /\ tempOut'[Len(tempOut) + 1] = slot
  BY <1>2, <1>4
<1>6. \A q \in 1..Len(tempOut') : q \in 1..Len(tempOut) \/ q = Len(tempOut) + 1
  BY <1>5
<1>7. Written' = Written \cup {slot}
  BY <1>5, <1>6 DEF Written
<1>8. Pending' = Pending
  <2>1. {Tuple(k) : k \in Slots}' = {Tuple(k) : k \in Slots}
    BY <1>3
  <2>2. QED
    BY <1>2, <1>3, <1>7, <2>1 DEF Pending
<1>9. CoveredInv' /\ EmittedInv'
  BY <1>2, <1>3, <1>8, CoveredByMore, PlanFrame DEF Alive, EmittedInv, IInv
<1>10. PhaseInv'
  BY <1>2 DEF PhaseInv, IInv
<1>11. TimestampInv'
  BY <1>2, <1>3, <1>4, <1>5 DEF TimestampInv, IInv
<1>12. PlacesInv'
  <2>1. PlacesInv
    BY DEF IInv
  <2>2. \A k \in Slots :
          Tuple(k) \in 1..outerPos /\ Tuple(k) \notin Written' \cup UnreadTemp \cup {0}
    BY <1>4, <1>7, <2>1 DEF PlacesInv
  <2>3. \A q \in 1..Len(tempOut') :
          /\ tempOut'[q] \in 1..outerPos
          /\ tempOut'[q] \notin UnreadTemp \cup {0}
    <3>1. slot \in 1..outerPos /\ slot \notin UnreadTemp
      BY <1>2, <1>4, <2>1 DEF PlacesInv, Ids, UnreadTemp
    <3>2. QED
      BY <1>4, <1>5, <1>6, <2>1, <3>1 DEF PlacesInv
  <2>4. \A q, r \in 1..Len(tempOut') : q # r => tempOut'[q] # tempOut'[r]
    BY <1>5, <1>6, <2>1 DEF PlacesInv
  <2>5. \A q \in Unread : tempIn[q] # 0
    BY <1>4, <2>1 DEF PlacesInv
  <2>6. QED
    BY <1>2, <1>3, <1>4, <2>1, <2>2, <2>3, <2>4, <2>5 DEF PlacesInv
<1>13. ComparedInv'
  <2>1. \A k \in Slots : k < window.current
    BY SlotTypes DEF WriteToTemp, tuplewindow_ateof, Nil, Slots
  <2>2. \A k \in Slots : Independent(Tuple(k), slot)
    BY <1>2, <2>1 DEF ComparedInv, IInv
  <2>3. QED
    BY <1>2, <1>3, <1>5, <1>6, <2>2, PlanFrame DEF ComparedInv, Old, IInv
<1>14. QED
  BY <1>9, <1>10, <1>11, <1>12, <1>13 DEF IInv, TypeInv

\* The slots after an insertion: the new one at n, and the others in order.
LEMMA SlotsAfterInsertion ==
    ASSUME TypeInv, NEW n \in 1..Len(window.slots)+1,
           Inserted(window.slots, window'.slots, n, slot, timestampOut)
    PROVE  LET f(k) == IF k < n THEN k ELSE k-1
           IN  /\ n \in Slots' /\ Tuple(n)' = slot /\ Stamp(n)' = timestampOut
               /\ \A k \in Slots' \ {n} : /\ f(k) \in Slots
                                          /\ Tuple(k)' = Tuple(f(k))
                                          /\ Stamp(k)' = Stamp(f(k))
               /\ \A k, m \in Slots' \ {n} : k # m => f(k) # f(m)
               /\ \A j \in Slots : \E k \in Slots' \ {n} : f(k) = j
<1> DEFINE f(k) == IF k < n THEN k ELSE k-1
<1>1. Len(window.slots) \in Nat
  BY SlotTypes
<1>2. Slots' = 1..Len(window.slots)+1
  BY DEF Inserted, Slots
<1>3. n \in Slots' /\ Tuple(n)' = slot /\ Stamp(n)' = timestampOut
  BY <1>2 DEF Inserted, Tuple, Stamp
<1>4. \A k \in Slots' \ {n} : Tuple(k)' = Tuple(f(k)) /\ Stamp(k)' = Stamp(f(k))
  BY <1>2 DEF Inserted, Tuple, Stamp
<1>5. /\ \A k \in Slots' \ {n} : f(k) \in Slots
      /\ \A k, m \in Slots' \ {n} : k # m => f(k) # f(m)
  BY <1>1, <1>2 DEF Slots
<1>6. ASSUME NEW j \in Slots
      PROVE  \E k \in Slots' \ {n} : f(k) = j
  <2>1. CASE j < n
    <3>1. j \in Slots' \ {n} /\ f(j) = j
      BY <1>1, <1>2, <1>6, <2>1 DEF Slots
    <3>2. QED
      BY <3>1
  <2>2. CASE ~(j < n)
    <3>1. j+1 \in Slots' \ {n} /\ f(j+1) = j
      BY <1>1, <1>2, <1>6, <2>2 DEF Slots
    <3>2. QED
      BY <3>1
  <2>3. QED
    BY <2>1, <2>2
<1>7. QED
  BY <1>3, <1>4, <1>5, <1>6

LEMMA PutInWindowIInv ==
    ASSUME TypeInv, IInv, PutInWindow, UNCHANGED plan, TypeInv'
    PROVE  IInv'
<1>1. PICK n \in 1..Len(window.slots)+1 :
        Inserted(window.slots, window'.slots, n, slot, timestampOut)
  BY PutInWindowSlots
<1> DEFINE f(k) == IF k < n THEN k ELSE k-1
<1>2. /\ n \in Slots' /\ Tuple(n)' = slot /\ Stamp(n)' = timestampOut
      /\ \A k \in Slots' \ {n} : /\ f(k) \in Slots
                                 /\ Tuple(k)' = Tuple(f(k))
                                 /\ Stamp(k)' = Stamp(f(k))
      /\ \A k, m \in Slots' \ {n} : k # m => f(k) # f(m)
      /\ \A j \in Slots : \E k \in Slots' \ {n} : f(k) = j
  BY <1>1, SlotsAfterInsertion
<1> HIDE DEF f
<1>3. /\ outerPos' = outerPos /\ status' = "SS_PIPEOUT" /\ source' = source
      /\ tempIn' = tempIn /\ tempInPos' = tempInPos /\ tempOut' = tempOut
      /\ timestampIn' = timestampIn /\ timestampOut' = timestampOut /\ output' = output
      /\ slot' = 0 /\ status = "SS_PROCESS" /\ slot # 0
      /\ Len(input') = Len(input)
  BY DEF PutInWindow, EndOfTuple, Comparing, files, plan
<1>4. /\ Unread' = Unread /\ Written' = Written /\ UnreadTemp' = UnreadTemp
      /\ UnreadOuter' = UnreadOuter /\ Query!Emitted' = Query!Emitted
  BY <1>3 DEF Unread, Written, UnreadTemp, UnreadOuter, Query!Emitted
<1>5. /\ slot \in 1..Len(input) /\ outerPos \in Nat
      /\ timestampIn \in Nat /\ timestampOut \in Nat
  BY <1>3 DEF TypeInv, TypeOK
<1>6. /\ timestampOut = Len(tempOut) /\ timestampOut < timestampIn
  BY <1>3 DEF TimestampInv, IInv
<1>7. Pending' = Pending
  <2>1. {Tuple(k) : k \in Slots}' = {Tuple(k) : k \in Slots} \cup {slot}
    <3>1. \A k \in Slots' : Tuple(k)' = slot \/ \E j \in Slots : Tuple(k)' = Tuple(j)
      BY <1>2
    <3>2. \A j \in Slots : \E k \in Slots' : Tuple(k)' = Tuple(j)
      BY <1>2
    <3>3. QED
      BY <1>2, <3>1, <3>2
  <2>2. QED
    BY <1>3, <1>4, <2>1 DEF Pending
<1>8. CoveredInv' /\ EmittedInv'
  BY <1>3, <1>4, <1>7, CoveredByMore, PlanFrame DEF Alive, EmittedInv, IInv
<1>9. PhaseInv'
  BY <1>3 DEF PhaseInv, IInv
<1>10. TimestampInv'
  <2>1. source = "SS_OUTER" => \A k \in Slots' : Stamp(k)' < timestampIn
    BY <1>2, <1>6 DEF TimestampInv, IInv
  <2>2. QED
    BY <1>3, <2>1 DEF TimestampInv, IInv
<1>11. PlacesInv'
  <2>1. PlacesInv
    BY DEF IInv
  <2>2. \A k \in Slots' :
          Tuple(k)' \in 1..outerPos /\ Tuple(k)' \notin Written \cup UnreadTemp \cup {0}
    <3>1. slot \in 1..outerPos
      BY <1>5, <2>1 DEF PlacesInv
    <3>2. slot \notin Written \cup UnreadTemp \cup {0}
      BY <1>3, <2>1 DEF PlacesInv, Written, UnreadTemp
    <3>3. QED
      BY <1>2, <1>5, <2>1, <3>1, <3>2 DEF PlacesInv
  <2>3. /\ \A q \in 1..Len(tempOut) : tempOut[q] \notin UnreadTemp \cup {0}
        /\ \A q \in Unread : tempIn[q] # 0
    BY <1>5, <2>1 DEF PlacesInv
  <2>4. QED
    BY <1>3, <1>4, <1>5, <2>1, <2>2, <2>3 DEF PlacesInv
<1>12. ComparedInv'
  <2>1. \A k \in Slots : Independent(Tuple(k), slot) /\ Independent(slot, Tuple(k))
    <3>1. \A k \in Slots : k < window.current
      BY SlotTypes DEF PutInWindow, tuplewindow_ateof, Nil, Slots
    <3>2. \A k \in Slots : Independent(Tuple(k), slot)
      BY <1>3, <3>1 DEF ComparedInv, IInv
    <3>3. QED
      BY <3>2, IndependentSymmetric
  <2>2. ~Old(n)'
    BY <1>2, <1>3, <1>5, <1>6 DEF Old
  <2>3. \A k \in Slots' \ {n} : Old(k)' <=> Old(f(k))
    BY <1>2, <1>3 DEF Old
  <2>4. SUFFICES ASSUME NEW k \in Slots'
                 PROVE  /\ \A m \in Slots' : m # k => Independent(Tuple(k), Tuple(m))'
                        /\ \A q \in 1..Len(tempOut) :
                             Old(k)' \/ q > Stamp(k)' => Independent(Tuple(k)', tempOut[q])
                        /\ \A q \in Unread :
                             Old(k)' /\ q > Stamp(k)' => Independent(Tuple(k)', tempIn[q])
    BY <1>3, <1>4, PlanFrame DEF ComparedInv
  <2>5. CASE k = n
    <3>1. \A m \in Slots' : m # k => Independent(Tuple(k), Tuple(m))'
      BY <1>2, <2>1, <2>5, PlanFrame
    <3>2. \A q \in 1..Len(tempOut) : ~(q > Stamp(k)')
      BY <1>2, <1>5, <1>6, <2>5
    <3>3. QED
      BY <2>2, <2>5, <3>1, <3>2
  <2>6. CASE k # n
    <3> DEFINE j == f(k)
    <3>1. /\ j \in Slots /\ Tuple(k)' = Tuple(j) /\ Stamp(k)' = Stamp(j)
          /\ Old(k)' <=> Old(j)
      BY <1>2, <2>3, <2>6
    <3>2. ASSUME NEW m \in Slots', m # k, m # n
          PROVE  Independent(Tuple(k), Tuple(m))'
      <4>1. f(m) \in Slots /\ f(m) # j /\ Tuple(m)' = Tuple(f(m))
        BY <1>2, <2>6, <3>2
      <4>2. Independent(Tuple(j), Tuple(f(m)))
        BY <3>1, <4>1 DEF ComparedInv, IInv
      <4>3. QED
        BY <3>1, <4>1, <4>2, PlanFrame
    <3>3. Independent(Tuple(k), Tuple(n))'
      BY <1>2, <2>1, <3>1, PlanFrame
    <3> HIDE DEF j
    <3>4. /\ \A q \in 1..Len(tempOut) :
               Old(j) \/ q > Stamp(j) => Independent(Tuple(j), tempOut[q])
          /\ \A q \in Unread : Old(j) /\ q > Stamp(j) => Independent(Tuple(j), tempIn[q])
      BY <3>1 DEF ComparedInv, IInv
    <3>5. QED
      BY <3>1, <3>2, <3>3, <3>4
  <2>7. QED
    BY <2>5, <2>6
<1>13. QED
  BY <1>8, <1>9, <1>10, <1>11, <1>12 DEF IInv, TypeInv

\* What EndOfSource implies: the files and the outer plan are used up.
LEMMA SourceUsedUp ==
    ASSUME TypeInv, IInv, EndOfSource
    PROVE  /\ status = "SS_PROCESS" /\ slot = 0 /\ outerPos = Len(input)
           /\ UnreadOuter = {} /\ Unread = {} /\ UnreadTemp = {}
<1>1. /\ status = "SS_PROCESS" /\ slot = 0
      /\ source = "SS_OUTER" => outerPos = Len(input) /\ tempIn = <<>>
      /\ source = "SS_TEMP" => outerPos = Len(input) /\ tempInPos = Len(tempIn)
  BY DEF EndOfSource, IInv, TimestampInv
<1>2. source \in {"SS_OUTER", "SS_TEMP"} /\ tempInPos \in 0..Len(tempIn)
      /\ Len(input) \in Nat
  BY DEF TypeInv, TypeOK
<1>3. outerPos = Len(input) /\ Unread = {} /\ UnreadOuter = {}
  BY <1>1, <1>2 DEF Unread, UnreadOuter
<1>4. QED
  BY <1>1, <1>3 DEF UnreadTemp

LEMMA LastPassIInv ==
    ASSUME TypeInv, IInv, LastPass, UNCHANGED plan, TypeInv'
    PROVE  IInv'
<1>1. window'.slots = window.slots /\ window'.current = 1
  BY RewindWindow DEF LastPass, TypeInv, TypeOK
<1>2. /\ outerPos' = outerPos /\ status' = "SS_FINALPIPEOUT" /\ source' = source
      /\ tempIn' = <<>> /\ tempInPos' = 0 /\ tempOut' = <<>>
      /\ timestampIn' = timestampIn /\ timestampOut' = timestampOut /\ timestampOut = 0
      /\ output' = output /\ slot' = slot /\ Len(input') = Len(input)
  BY DEF LastPass, plan
<1>3. /\ slot = 0 /\ outerPos = Len(input)
      /\ UnreadOuter = {} /\ Unread = {} /\ UnreadTemp = {}
  BY SourceUsedUp DEF LastPass
<1>4. /\ Slots' = Slots /\ \A k : Tuple(k)' = Tuple(k) /\ Stamp(k)' = Stamp(k)
      /\ UnreadOuter' = UnreadOuter /\ Query!Emitted' = Query!Emitted
  BY <1>1, <1>2 DEF Slots, Tuple, Stamp, UnreadOuter, Query!Emitted
<1>5. Written = {} /\ Written' = {} /\ Unread' = {} /\ UnreadTemp' = {}
  <2>1. Len(tempOut) = 0
    BY <1>2 DEF IInv, TimestampInv
  <2>2. QED
    BY <1>2, <2>1 DEF Written, Unread, UnreadTemp
<1>6. Pending' = Pending
  <2>1. {Tuple(k) : k \in Slots}' = {Tuple(k) : k \in Slots}
    BY <1>4
  <2>2. QED
    BY <1>2, <1>3, <1>4, <1>5, <2>1 DEF Pending
<1>7. CoveredInv' /\ EmittedInv'
  BY <1>2, <1>4, <1>6, CoveredByMore, PlanFrame DEF Alive, EmittedInv, IInv
<1>8. PhaseInv'
  BY <1>1, <1>2, <1>3 DEF PhaseInv, IInv
<1>9. TimestampInv' /\ PlacesInv'
  BY <1>2, <1>3, <1>4, <1>5 DEF TimestampInv, PlacesInv, IInv
<1>10. ComparedInv'
  BY <1>2, <1>3, <1>4, <1>5, PlanFrame DEF ComparedInv, IInv
<1>11. QED
  BY <1>7, <1>8, <1>9, <1>10 DEF IInv, TypeInv

LEMMA NextPassIInv ==
    ASSUME TypeInv, IInv, NextPass, UNCHANGED plan, TypeInv'
    PROVE  IInv'
<1>1. window'.slots = window.slots /\ window'.current = 1
  BY RewindWindow DEF NextPass, TypeInv, TypeOK
<1>2. /\ outerPos' = outerPos /\ status' = "SS_PIPEOUT" /\ source' = "SS_TEMP"
      /\ tempIn' = tempOut /\ tempInPos' = 0 /\ tempOut' = <<>>
      /\ timestampIn' = 0 /\ timestampOut' = 0
      /\ output' = output /\ slot' = slot /\ Len(input') = Len(input)
  BY DEF NextPass, plan
<1>3. /\ slot = 0 /\ outerPos = Len(input)
      /\ UnreadOuter = {} /\ Unread = {} /\ UnreadTemp = {}
  BY SourceUsedUp DEF NextPass
<1>4. /\ Slots' = Slots /\ \A k : Tuple(k)' = Tuple(k) /\ Stamp(k)' = Stamp(k)
      /\ UnreadOuter' = UnreadOuter /\ Query!Emitted' = Query!Emitted
  BY <1>1, <1>2 DEF Slots, Tuple, Stamp, UnreadOuter, Query!Emitted
<1>5. Unread' = 1..Len(tempOut) /\ Written' = {} /\ UnreadTemp' = Written
  BY <1>2 DEF Written, Unread, UnreadTemp
<1>6. Pending' = Pending
  <2>1. {Tuple(k) : k \in Slots}' = {Tuple(k) : k \in Slots}
    BY <1>4
  <2>2. QED
    BY <1>2, <1>3, <1>4, <1>5, <2>1 DEF Pending
<1>7. CoveredInv' /\ EmittedInv'
  BY <1>2, <1>4, <1>6, CoveredByMore, PlanFrame DEF Alive, EmittedInv, IInv
<1>8. PhaseInv' /\ TimestampInv'
  BY <1>2, <1>3 DEF PhaseInv, TimestampInv
<1>9. PlacesInv'
  BY <1>2, <1>3, <1>4, <1>5 DEF PlacesInv, IInv
<1>10. ComparedInv'
  BY <1>2, <1>3, <1>4, <1>5, PlanFrame DEF ComparedInv, IInv
<1>11. QED
  BY <1>7, <1>8, <1>9, <1>10 DEF IInv, TypeInv

-----------------------------------------------------------------------------
(* A tuple that is returned has been compared with all that are left. *)

LEMMA EmittedIsComplete ==
    ASSUME TypeInv, IInv, PipeOut \/ FinalPipeOut
    PROVE  LET x == CurrentSlot(window).tuple
           IN  /\ x \in Pending /\ x \in Ids
               /\ \A y \in Alive : y # x => Independent(x, y)
               /\ x \notin Query!Emitted
               /\ \A k \in Slots : k # window.current => Tuple(k) # x
               /\ x \notin Written \cup UnreadTemp \cup UnreadOuter \cup {slot}
<1> DEFINE c == window.current
           x == Tuple(c)
<1>1. c \in Slots /\ CurrentSlot(window).tuple = x /\ x \in Ids
      /\ CurrentSlot(window).timestamp = Stamp(c)
  BY CursorAtSlot, SlotTypes DEF PipeOut, FinalPipeOut
<1>2. /\ slot = 0 /\ outerPos = Len(input)
      /\ \A q \in 1..Len(tempOut) : Independent(x, tempOut[q])
      /\ \A q \in Unread : Independent(x, tempIn[q])
  <2>1. CASE PipeOut
    <3>1. status = "SS_PIPEOUT" /\ Stamp(c) = timestampIn
      BY <1>1, <2>1 DEF PipeOut
    <3>2. timestampIn \in Nat /\ tempInPos \in Nat /\ source \in {"SS_OUTER", "SS_TEMP"}
      BY DEF TypeInv, TypeOK
    <3>3. source = "SS_TEMP"
      BY <1>1, <3>1, <3>2 DEF IInv, TimestampInv
    <3>4. Old(c) /\ outerPos = Len(input) /\ tempInPos = timestampIn
      BY <3>1, <3>2, <3>3 DEF Old, IInv, TimestampInv
    <3>5. \A q \in Unread : q > Stamp(c)
      BY <3>1, <3>2, <3>4 DEF Unread
    <3>6. slot = 0
      BY <3>1 DEF IInv, PhaseInv
    <3>7. QED
      BY <1>1, <3>4, <3>5, <3>6 DEF ComparedInv, IInv
  <2>2. CASE FinalPipeOut
    <3>1. status = "SS_FINALPIPEOUT"
      BY <2>2 DEF FinalPipeOut
    <3>2. /\ slot = 0 /\ outerPos = Len(input) /\ tempIn = <<>> /\ tempOut = <<>>
          /\ tempInPos \in Nat
      BY <3>1 DEF IInv, PhaseInv, TypeInv, TypeOK
    <3>3. QED
      BY <3>2 DEF Unread
  <2>3. QED
    BY <2>1, <2>2
<1>3. UnreadOuter = {}
  BY <1>2 DEF UnreadOuter, TypeInv, TypeOK
<1>4. \A k \in Slots : k # c => Independent(x, Tuple(k))
  BY <1>1 DEF ComparedInv, IInv
<1>5. \A y \in Pending : y # x => Independent(x, y)
  BY <1>2, <1>3, <1>4 DEF Pending, Written, UnreadTemp
<1>6. x \in Pending
  BY <1>1 DEF Pending
<1>7. \A k \in 1..Len(output) : Independent(output[k], x)
  BY <1>6 DEF EmittedInv, IInv
<1>8. \A y \in Query!Emitted : Independent(x, y) /\ x # y
  BY <1>7, IndependentSymmetric DEF Query!Emitted
<1>9. x \notin Written \cup UnreadTemp \cup UnreadOuter \cup {slot}
  BY <1>1, <1>3 DEF IInv, PlacesInv
<1>10. \A k \in Slots : k # c => Tuple(k) # x
  BY <1>4, IndependentSymmetric
<1>11. QED
  BY <1>1, <1>5, <1>6, <1>8, <1>9, <1>10 DEF Alive

LEMMA PipeOutIInv ==
    ASSUME TypeInv, IInv, PipeOut \/ FinalPipeOut, UNCHANGED plan, TypeInv'
    PROVE  IInv'
<1> DEFINE c == window.current
           f(k) == IF k < c THEN k ELSE k+1
           x == CurrentSlot(window).tuple
<1>1. /\ window'.current = c /\ c \in Slots
      /\ \A k \in Slots' : /\ f(k) \in Slots /\ f(k) # c
                           /\ Tuple(k)' = Tuple(f(k)) /\ Stamp(k)' = Stamp(f(k))
      /\ \A k, m \in Slots' : k # m => f(k) # f(m)
      /\ \A j \in Slots : j # c => \E k \in Slots' : f(k) = j
  BY SlotsAfterRemoval DEF PipeOut, FinalPipeOut, EmitCurrent
<1>2. /\ outerPos' = outerPos /\ status' = status /\ source' = source
      /\ tempIn' = tempIn /\ tempInPos' = tempInPos /\ tempOut' = tempOut
      /\ timestampIn' = timestampIn /\ timestampOut' = timestampOut
      /\ output' = Append(output, x) /\ slot' = slot
      /\ status \in {"SS_PIPEOUT", "SS_FINALPIPEOUT"} /\ Len(input') = Len(input)
  BY DEF PipeOut, FinalPipeOut, EmitCurrent, files, plan
<1>3. /\ Unread' = Unread /\ Written' = Written /\ UnreadTemp' = UnreadTemp
      /\ UnreadOuter' = UnreadOuter
  BY <1>2 DEF Unread, Written, UnreadTemp, UnreadOuter
<1>4. /\ x \in Pending /\ x \in Ids
      /\ \A y \in Alive : y # x => Independent(x, y)
      /\ x \notin Query!Emitted
      /\ \A k \in Slots : k # c => Tuple(k) # x
      /\ x \notin Written \cup UnreadTemp \cup UnreadOuter \cup {slot}
  BY EmittedIsComplete
<1>5. x = Tuple(c)
  BY CursorAtSlot DEF PipeOut, FinalPipeOut
<1>6. slot = 0
  BY <1>2 DEF IInv, PhaseInv
<1> HIDE DEF f, x
<1>7. Pending' \subseteq Pending \ {x} /\ Pending \subseteq Pending' \cup {x}
  <2>1. {Tuple(k) : k \in Slots}' \subseteq {Tuple(k) : k \in Slots} \ {x}
    BY <1>1, <1>4
  <2>2. {Tuple(k) : k \in Slots} \subseteq {Tuple(k) : k \in Slots}' \cup {x}
    <3> SUFFICES ASSUME NEW j \in Slots
                 PROVE  Tuple(j) = x \/ \E k \in Slots' : Tuple(j) = Tuple(k)'
      OBVIOUS
    <3>1. QED
      BY <1>1, <1>5
  <2>3. QED
    BY <1>2, <1>3, <1>4, <2>1, <2>2 DEF Pending
<1>8. /\ output \in Seq(Ids) /\ Len(output) \in Nat /\ Len(output') = Len(output) + 1
      /\ \A k \in 1..Len(output) : output'[k] = output[k]
      /\ output'[Len(output) + 1] = x
  BY <1>2, <1>4 DEF TypeInv, TypeOK
<1>9. \A k \in 1..Len(output') : k \in 1..Len(output) \/ k = Len(output) + 1
  BY <1>8
<1>10. Query!Emitted' = Query!Emitted \cup {x}
  BY <1>8, <1>9 DEF Query!Emitted
<1>11. CoveredInv'
  BY <1>7, <1>10, CoveredByMore DEF Alive, IInv
<1>12. EmittedInv'
  <2>1. \A k \in 1..Len(output) : Independent(output[k], x) /\ Independent(x, output[k])
    BY <1>4, IndependentSymmetric DEF EmittedInv, IInv
  <2>2. \A y \in Pending' : Independent(x, y)
    BY <1>4, <1>7 DEF Alive
  <2>3. /\ \A k, m \in 1..Len(output) : m # k => Independent(output[k], output[m])
        /\ \A k \in 1..Len(output) : \A y \in Pending' : Independent(output[k], y)
    BY <1>7 DEF EmittedInv, IInv
  <2>4. \A k, m \in 1..Len(output') : m # k => Independent(output'[k], output'[m])
    BY <1>8, <1>9, <2>1, <2>3
  <2>5. \A k \in 1..Len(output') : \A y \in Pending' : Independent(output'[k], y)
    BY <1>8, <1>9, <2>2, <2>3
  <2>6. QED
    BY <2>4, <2>5, PlanFrame DEF EmittedInv
<1>13. PhaseInv'
  BY <1>1, <1>2 DEF PhaseInv, IInv
<1>14. TimestampInv'
  BY <1>1, <1>2 DEF TimestampInv, IInv
<1>15. PlacesInv'
  BY <1>1, <1>2, <1>3 DEF PlacesInv, IInv
<1>16. ComparedInv'
  <2> SUFFICES ASSUME NEW k \in Slots'
               PROVE  /\ \A m \in Slots' : m # k => Independent(Tuple(k), Tuple(m))'
                      /\ \A q \in 1..Len(tempOut) :
                           Old(k)' \/ q > Stamp(k)' => Independent(Tuple(k)', tempOut[q])
                      /\ \A q \in Unread :
                           Old(k)' /\ q > Stamp(k)' => Independent(Tuple(k)', tempIn[q])
    BY <1>2, <1>3, <1>6, PlanFrame DEF ComparedInv
  <2> DEFINE j == f(k)
  <2>1. /\ j \in Slots /\ Tuple(k)' = Tuple(j) /\ Stamp(k)' = Stamp(j)
        /\ Old(k)' <=> Old(j)
    BY <1>1, <1>2 DEF Old
  <2>2. ASSUME NEW m \in Slots', m # k
        PROVE  Independent(Tuple(k), Tuple(m))'
    <3>1. f(m) \in Slots /\ f(m) # j /\ Tuple(m)' = Tuple(f(m))
      BY <1>1, <2>2
    <3>2. Independent(Tuple(j), Tuple(f(m)))
      BY <2>1, <3>1 DEF ComparedInv, IInv
    <3>3. QED
      BY <2>1, <3>1, <3>2, PlanFrame
  <2> HIDE DEF j
  <2>3. /\ \A q \in 1..Len(tempOut) :
             Old(j) \/ q > Stamp(j) => Independent(Tuple(j), tempOut[q])
        /\ \A q \in Unread : Old(j) /\ q > Stamp(j) => Independent(Tuple(j), tempIn[q])
    BY <2>1 DEF ComparedInv, IInv
  <2>4. QED
    BY <2>1, <2>2, <2>3
<1>17. QED
  BY <1>11, <1>12, <1>13, <1>14, <1>15, <1>16 DEF IInv, TypeInv

\* Steps that only move the cursor or change the status.
LEMMA OtherStepsIInv ==
    ASSUME TypeInv, IInv, PipeOutSkip \/ PipeOutEnd \/ Finish \/ UNCHANGED vars,
           UNCHANGED plan, TypeInv'
    PROVE  IInv'
<1>1. /\ outerPos' = outerPos /\ source' = source
      /\ tempIn' = tempIn /\ tempInPos' = tempInPos /\ tempOut' = tempOut
      /\ timestampIn' = timestampIn /\ timestampOut' = timestampOut
      /\ output' = output /\ slot' = slot /\ Len(input') = Len(input)
  BY DEF PipeOutSkip, PipeOutEnd, Finish, vars, files, plan
<1>2. window'.slots = window.slots
  <2>1. CASE PipeOutSkip
    BY <2>1, MoveNextWindow DEF PipeOutSkip, TypeInv, TypeOK
  <2>2. CASE ~PipeOutSkip
    BY <2>2 DEF PipeOutEnd, Finish, vars
  <2>3. QED
    BY <2>1, <2>2
<1>3. /\ Slots' = Slots /\ \A k : Tuple(k)' = Tuple(k) /\ Stamp(k)' = Stamp(k)
      /\ Unread' = Unread /\ Written' = Written /\ UnreadTemp' = UnreadTemp
      /\ UnreadOuter' = UnreadOuter /\ Query!Emitted' = Query!Emitted
  BY <1>1, <1>2 DEF Slots, Tuple, Stamp, Unread, Written, UnreadTemp, UnreadOuter,
                    Query!Emitted
<1>4. Pending' = Pending
  <2>1. {Tuple(k) : k \in Slots}' = {Tuple(k) : k \in Slots}
    BY <1>3
  <2>2. QED
    BY <1>1, <1>3, <2>1 DEF Pending
<1>5. CoveredInv' /\ EmittedInv'
  BY <1>1, <1>3, <1>4, CoveredByMore, PlanFrame DEF Alive, EmittedInv, IInv
<1>6. PlacesInv'
  BY <1>1, <1>3 DEF PlacesInv, IInv
<1>7. slot = 0 \/ window' = window
  BY DEF PipeOutSkip, PipeOutEnd, Finish, vars, IInv, PhaseInv
<1>8. ComparedInv'
  BY <1>1, <1>3, <1>7, PlanFrame DEF ComparedInv, Old, IInv
<1>9. TimestampInv'
  <2>1. status' \notin {"SS_FINALPIPEOUT", "SS_DONE"} => status \notin {"SS_FINALPIPEOUT", "SS_DONE"}
    BY DEF PipeOutSkip, PipeOutEnd, Finish, vars
  <2>2. QED
    BY <1>1, <1>3, <2>1 DEF TimestampInv, IInv
<1>10. PhaseInv'
  <2>1. CASE PipeOutSkip
    BY <1>1, <1>2, <2>1 DEF PipeOutSkip, PhaseInv, IInv
  <2>2. CASE PipeOutEnd
    BY <1>1, <1>2, <2>2 DEF PipeOutEnd, PhaseInv, IInv
  <2>3. CASE Finish
    <3>1. /\ status = "SS_FINALPIPEOUT" /\ status' = "SS_DONE"
          /\ window.current = 1 /\ window.current = Len(window.slots) + 1
      BY <2>3 DEF Finish, PhaseInv, IInv, tuplewindow_ateof, Nil
    <3>2. window.slots = <<>>
      <4>1. window.slots \in Seq(Entries(Ids))
        BY DEF TypeInv, TypeOK, Windows
      <4>2. QED
        BY <3>1, <4>1
    <3>3. QED
      BY <1>1, <1>2, <3>1, <3>2 DEF PhaseInv, IInv
  <2>4. CASE UNCHANGED vars
    BY <2>4 DEF vars, PhaseInv, IInv
  <2>5. QED
    BY <2>1, <2>2, <2>3, <2>4
<1>11. QED
  BY <1>5, <1>6, <1>8, <1>9, <1>10 DEF IInv, TypeInv

LEMMA PlanUnchanged == [Next]_vars => UNCHANGED plan
<1> SUFFICES ASSUME [Next]_vars PROVE UNCHANGED plan
  OBVIOUS
<1>1. UNCHANGED vars \/ UNCHANGED plan
  BY DEF Next, Start, FetchOuter, FetchTemp, Drop, RemoveDominated, MoveNext,
         PutInWindow, WriteToTemp, LastPass, NextPass, PipeOut, PipeOutSkip,
         PipeOutEnd, FinalPipeOut, Finish, ReturnNull
<1>2. QED
  BY <1>1 DEF vars, plan

LEMMA NextIInv == TypeInv /\ IInv /\ [Next]_vars => IInv'
<1> SUFFICES ASSUME TypeInv, IInv, [Next]_vars PROVE IInv'
  OBVIOUS
<1>1. TypeInv' /\ UNCHANGED plan
  BY NextTypeInv, PlanUnchanged
<1>2. CASE Start
  BY <1>1, <1>2, StartIInv
<1>3. CASE FetchOuter
  BY <1>1, <1>3, FetchOuterIInv
<1>4. CASE FetchTemp
  BY <1>1, <1>4, FetchTempIInv
<1>5. CASE Drop
  BY <1>1, <1>5, DropIInv
<1>6. CASE RemoveDominated
  BY <1>1, <1>6, RemoveDominatedIInv
<1>7. CASE MoveNext
  BY <1>1, <1>7, MoveNextIInv
<1>8. CASE PutInWindow
  BY <1>1, <1>8, PutInWindowIInv
<1>9. CASE WriteToTemp
  BY <1>1, <1>9, WriteToTempIInv
<1>10. CASE LastPass
  BY <1>1, <1>10, LastPassIInv
<1>11. CASE NextPass
  BY <1>1, <1>11, NextPassIInv
<1>12. CASE PipeOut \/ FinalPipeOut
  BY <1>1, <1>12, PipeOutIInv
<1>13. CASE PipeOutSkip \/ PipeOutEnd \/ Finish \/ ReturnNull \/ UNCHANGED vars
  BY <1>1, <1>13, OtherStepsIInv DEF ReturnNull
<1>14. QED
  BY <1>2, <1>3, <1>4, <1>5, <1>6, <1>7, <1>8, <1>9, <1>10, <1>11, <1>12, <1>13 DEF Next

-----------------------------------------------------------------------------
(* Theorems. *)

\* The bookkeeping of the block nested loop is right for every plan: the
\* timestamps tell which tuples have been compared, a returned tuple is
\* independent of every tuple that is left, and a tuple is only dropped
\* because of one that is kept.
THEOREM InvariantCorrect == Spec => []IInv
<1>1. Init => TypeInv /\ IInv
  BY InitTypeInv, InitIInv
<1>2. TypeInv /\ IInv /\ [Next]_vars => (TypeInv /\ IInv)'
  BY NextTypeInv, NextIInv
<1>3. QED
  BY <1>1, <1>2, PTL DEF Spec

LEMMA AliveInInput == TypeInv => Alive \subseteq Ids
<1> SUFFICES ASSUME TypeInv PROVE Alive \subseteq Ids
  OBVIOUS
<1>1. /\ tempIn \in Seq(Ids) /\ tempOut \in Seq(Ids) /\ output \in Seq(Ids)
      /\ tempInPos \in Nat /\ outerPos \in Nat /\ slot \in 0..Len(input)
  BY DEF TypeInv, TypeOK
<1>2. Written \subseteq Ids /\ UnreadTemp \subseteq Ids /\ Query!Emitted \subseteq Ids
  BY <1>1 DEF Written, UnreadTemp, Unread, Query!Emitted
<1>3. UnreadOuter \subseteq Ids /\ {slot} \ {0} \subseteq Ids
  BY <1>1 DEF UnreadOuter, Ids
<1>4. QED
  BY <1>2, <1>3, SlotTypes DEF Alive, Pending

\* A tuple that leaves the window for the parent node is one the query may
\* return now: PipeOut and FinalPipeOut are Emit steps of SkylineQuery.
LEMMA EmitsSkyline ==
    ASSUME TypeInv, IInv, PipeOut \/ FinalPipeOut, UNCHANGED plan
    PROVE  Query!Next
<1> DEFINE x == CurrentSlot(window).tuple
<1>1. /\ x \in Pending /\ x \in Ids
      /\ \A y \in Alive : y # x => Independent(x, y)
      /\ x \notin Query!Emitted
  BY EmittedIsComplete
<1>2. /\ output' = Append(output, x) /\ status' = status
      /\ status \in {"SS_PIPEOUT", "SS_FINALPIPEOUT"}
      /\ node' = node /\ input' = input
  BY DEF PipeOut, FinalPipeOut, EmitCurrent, plan
<1> HIDE DEF x
<1>3. ASSUME NEW j \in Ids
      PROVE  ~Dominates(node, input[j], input[x])
  <2> SUFFICES ASSUME Dominates(node, input[j], input[x]) PROVE FALSE
    OBVIOUS
  <2>1. Query!Beats(j, x) /\ j # x
    BY <1>1, BeatsOrder
  <2>2. j \notin Alive
    BY <1>1, <2>1 DEF Independent
  <2>3. PICK k \in Alive : Query!Beats(k, j)
    BY <2>2 DEF CoveredInv, IInv
  <2>4. k \in Ids
    BY <2>3, AliveInInput
  <2>5. k # x
    BY <1>1, <2>3, BeatsOrder
  <2>6. Query!Beats(k, x)
    BY <1>1, <2>1, <2>3, <2>4, <2>5, BeatsOrder
  <2>7. QED
    BY <1>1, <2>3, <2>5, <2>6 DEF Independent
<1>4. Query!InSkyline(x)
  BY <1>3, SameDominance DEF Query!InSkyline, Query!Ids, Ids
<1>5. \A k \in Query!Emitted : ~Query!Beats(k, x)
  BY <1>1 DEF Alive, Independent
<1>6. Query!Emit(x)
  BY <1>1, <1>2, <1>4, <1>5 DEF Query!Emit, Query!MayEmit
<1>7. QED
  BY <1>1, <1>6 DEF Query!Next, Query!Ids, Ids

\* When the node returns NULL the query has no tuple left to return.
LEMMA FinishesQuery ==
    ASSUME TypeInv, IInv, Finish, UNCHANGED plan, IInv'
    PROVE  Query!Next
<1>1. /\ status = "SS_FINALPIPEOUT" /\ status' = "SS_DONE"
      /\ output' = output /\ node' = node /\ input' = input
      /\ window' = window /\ slot' = slot
  BY DEF Finish, plan
<1>2. /\ window.slots = <<>> /\ slot = 0 /\ outerPos = Len(input)
      /\ tempIn = <<>> /\ tempOut = <<>>
  BY <1>1 DEF IInv, PhaseInv
<1>3. Pending = {}
  <2>1. Slots = {} /\ Written = {}
    BY <1>2 DEF Slots, Written
  <2>2. Unread = {} /\ UnreadOuter = {}
    BY <1>2 DEF Unread, UnreadOuter, TypeInv, TypeOK
  <2>3. UnreadTemp = {}
    BY <2>2 DEF UnreadTemp
  <2>4. QED
    BY <1>2, <2>1, <2>2, <2>3 DEF Pending
<1>4. ASSUME NEW i \in Ids
      PROVE  ~Query!MayEmit(i)
  BY <1>3 DEF Query!MayEmit, Alive, CoveredInv, IInv
<1>5. Query!Finish
  BY <1>1, <1>4 DEF Query!Finish, Query!Ids, Ids
<1>6. QED
  BY <1>5 DEF Query!Next

\* The block nested loop returns the skyline: its steps are steps of
\* SkylineQuery, for every plan, window policy and window size.
THEOREM BlockNestedLoopCorrect == Spec => ImplementsQuery
<1>1. Init => Query!Init
  BY DEF Init, Query!Init
<1>2. TypeInv /\ IInv /\ [Next]_vars => [Query!Next]_(Query!vars)
  <2> SUFFICES ASSUME TypeInv, IInv, [Next]_vars PROVE [Query!Next]_(Query!vars)
    OBVIOUS
  <2>1. UNCHANGED plan /\ IInv'
    BY PlanUnchanged, NextIInv
  <2>2. CASE PipeOut \/ FinalPipeOut
    BY <2>1, <2>2, EmitsSkyline
  <2>3. CASE Finish
    BY <2>1, <2>3, FinishesQuery
  <2>4. CASE ~(PipeOut \/ FinalPipeOut \/ Finish)
    <3>1. output' = output /\ (status' = "SS_DONE" <=> status = "SS_DONE")
      BY <2>4 DEF Next, vars, Start, FetchOuter, FetchTemp, Drop, RemoveDominated,
                  MoveNext, PutInWindow, WriteToTemp, LastPass, NextPass, PipeOutSkip,
                  PipeOutEnd, ReturnNull, EndOfTuple, EndOfSource, Comparing
    <3>2. QED
      BY <2>1, <3>1 DEF Query!vars, plan
  <2>5. QED
    BY <2>2, <2>3, <2>4
<1>3. Init => TypeInv /\ IInv
  BY InitTypeInv, InitIInv
<1>4. TypeInv /\ IInv /\ [Next]_vars => (TypeInv /\ IInv)'
  BY NextTypeInv, NextIInv
<1>5. QED
  BY <1>1, <1>2, <1>3, <1>4, PTL DEF Spec, ImplementsQuery

-----------------------------------------------------------------------------
(* The order of the window. *)

\* The rank cursor is where the tuple that is being compared belongs.
RankInv == RanksOrdered(window) /\ RankCursorInPlace(window)

LEMMA InitRankInv == Init => RankInv
<1> SUFFICES ASSUME Init PROVE RankInv
  OBVIOUS
<1>1. PICK p \in Plans : window = tuplewindow_begin(p.memory, p.slots, WindowPolicy(p))
  BY DEF Init
<1>2. QED
  BY <1>1, PlanWindow, PlansAssumption DEF RankInv

\* A tuple that is read has a rank, or the window asks for none.
LEMMA StartComparingRanks ==
    ASSUME RangesKnown, TypeInv, RankInv, NEW i \in 1..Len(input), StartComparing(i)
    PROVE  RankInv'
<1>1. window \in Windows(Ids) /\ window.insertrank \in Int /\ RanksOrdered(window)
  BY DEF TypeInv, TypeOK, RankInv, RanksOrdered
<1>2. PICK rank \in InsertRanks(i) :
         window' = tuplewindow_setinsertrank(tuplewindow_rewind(window), rank)
  BY DEF StartComparing
<1>3. rank \in Int
  BY <1>1, RowOfInput, RanksAssumption DEF InsertRanks, TypeInv
<1>4. QED
  BY <1>1, <1>2, <1>3, StartRanks DEF RankInv

LEMMA NextRankInv ==
    ASSUME RangesKnown
    PROVE  TypeInv /\ RankInv /\ [Next]_vars => RankInv'
<1> SUFFICES ASSUME TypeInv, RankInv, [Next]_vars PROVE RankInv'
  OBVIOUS
<1>1. /\ window \in Windows(Ids) /\ CursorsInList(window)
      /\ RanksOrdered(window) /\ RankCursorInPlace(window)
      /\ NaN \notin Int
  BY RanksAssumption DEF TypeInv, TypeOK, RankInv
<1>2. CASE FetchOuter
  <2>1. outerPos + 1 \in 1..Len(input)
    BY <1>2 DEF FetchOuter, TypeInv, TypeOK
  <2>2. QED
    BY <1>2, <2>1, StartComparingRanks DEF FetchOuter
<1>3. CASE FetchTemp
  <2>1. tempIn[tempInPos + 1] \in 1..Len(input)
    BY <1>3 DEF FetchTemp, TypeInv, TypeOK, Ids
  <2>2. QED
    BY <1>3, <2>1, StartComparingRanks DEF FetchTemp
<1>4. CASE Drop \/ WriteToTemp \/ LastPass \/ NextPass
  <2>1. window' = tuplewindow_rewind(window)
    BY <1>4 DEF Drop, WriteToTemp, LastPass, NextPass
  <2>2. QED
    BY <1>1, <2>1, RewindRanks DEF RankInv
<1>5. CASE RemoveDominated \/ PipeOut \/ FinalPipeOut
  <2>1. ~tuplewindow_ateof(window) /\ window' = tuplewindow_removeslot(window, window.current)
    BY <1>5 DEF RemoveDominated, PipeOut, FinalPipeOut, EmitCurrent, tuplewindow_removecurrent
  <2>2. window.current \in 1..Len(window.slots)
    BY <1>1, <2>1 DEF Windows, CursorsInList, tuplewindow_ateof, Nil
  <2>3. QED
    BY <1>1, <2>1, <2>2, RemoveSlotRanks DEF RankInv
<1>6. CASE MoveNext \/ PipeOutSkip
  <2>1. ~tuplewindow_ateof(window) /\ window' = tuplewindow_movenext(window)
    BY <1>6 DEF MoveNext, PipeOutSkip
  <2>2. QED
    BY <1>1, <2>1, MoveNextRanks DEF RankInv
<1>7. CASE PutInWindow
  <2>1. slot \in Ids /\ slot \in 1..Len(input) /\ PutTimestamp \in Nat
    BY <1>7 DEF TypeInv, TypeOK, PutInWindow, Comparing, Ids, PutTimestamp
  <2> DEFINE space == TupleSpace(input[slot])
             v == tuplewindow_puttupleslot(window, slot, PutTimestamp, space)
  <2>2. space \in Nat
    BY <2>1, RowOfInput DEF TypeInv
  <2>3. /\ tuplewindow_ateof(window) /\ tuplewindow_has_freespace(window)
        /\ window' = tuplewindow_rewind(v)
    BY <1>7 DEF PutInWindow
  <2> HIDE DEF space
  <2>4. v \in Windows(Ids)
    BY <1>1, <2>1, <2>2, <2>3, PutWindow
  <2>5. RanksOrdered(v)
    BY <1>1, <2>1, <2>2, <2>3, PutRanks
  <2> HIDE DEF v
  <2>6. QED
    BY <2>3, <2>4, <2>5, RewindRanks DEF RankInv
<1>8. CASE Start \/ PipeOutEnd \/ Finish \/ ReturnNull \/ UNCHANGED vars
  <2>1. window' = window
    BY <1>8 DEF Start, PipeOutEnd, Finish, ReturnNull, vars
  <2>2. QED
    BY <1>1, <2>1 DEF RankInv
<1>9. QED
  BY <1>2, <1>3, <1>4, <1>5, <1>6, <1>7, <1>8 DEF Next

\* The window is ordered by descending rank whenever a tuple is put into it or
\* taken out of it ("this keeps the window ordered by the rank", tuplewindow.c
\* 526-528), provided that no column has statistics with a range of 0, with
\* which a rank is not a number.
THEOREM RankOrderCorrect ==
    ASSUME RangesKnown
    PROVE  Spec => []RankOrder
<1>1. RankInv => RankOrder
  BY OrderedDescends DEF RankInv, RankOrder
<1>2. TypeInv /\ RankInv /\ [Next]_vars => (TypeInv /\ RankInv)'
  BY NextTypeInv, NextRankInv
<1>3. Init => TypeInv /\ RankInv
  BY InitTypeInv, InitRankInv
<1>4. QED
  BY <1>1, <1>2, <1>3, PTL DEF Spec

-----------------------------------------------------------------------------
(* The space of the window. *)

\* The free space is exact, and an empty window has some.
SpaceIInv == SpaceKept(window)
LimitsInv == LimitsLeaveSpace(window)

LEMMA InitSpaceIInv == Init => SpaceIInv /\ (LimitsAccepted => LimitsInv)
<1> SUFFICES ASSUME Init PROVE SpaceIInv /\ (LimitsAccepted => LimitsInv)
  OBVIOUS
<1>1. PICK p \in Plans : window = tuplewindow_begin(p.memory, p.slots, WindowPolicy(p))
  BY DEF Init
<1>2. p.memory \in Int /\ p.slots \in Int /\ WindowPolicy(p) \in Policies
  BY PlansAssumption DEF WindowPolicy, Policies
<1>3. SpaceKept(window) /\ window.maxMem = p.memory /\ window.maxSlots = p.slots
  BY <1>1, <1>2, BeginSpace
<1> QED
  BY <1>3 DEF SpaceIInv, LimitsInv, LimitsLeaveSpace, LimitsAccepted

LEMMA NextSpaceIInv ==
    TypeInv /\ SpaceIInv /\ [Next]_vars => SpaceIInv' /\ (LimitsInv => LimitsInv')
<1> SUFFICES ASSUME TypeInv, SpaceIInv, [Next]_vars
             PROVE  SpaceIInv' /\ (LimitsInv => LimitsInv')
  OBVIOUS
<1>1. window \in Windows(Ids) /\ CursorsInList(window) /\ SpaceKept(window)
  BY DEF TypeInv, TypeOK, SpaceIInv
<1>2. SpaceKept(window') /\ SameLimits(window', window)
  <2>1. ASSUME NEW i \in 1..Len(input), StartComparing(i)
        PROVE  SpaceKept(window') /\ SameLimits(window', window)
    <3>1. PICK rank \in InsertRanks(i) :
             window' = tuplewindow_setinsertrank(tuplewindow_rewind(window), rank)
      BY <2>1 DEF StartComparing
    <3>2. window.insertrank \in Int \cup {NaN}
      BY <1>1 DEF Windows
    <3>3. rank \in Int \cup {NaN}
      BY <3>2, RowOfInput, RanksAssumption DEF InsertRanks, TypeInv
    <3> QED
      BY <1>1, <3>1, <3>3, StartSpace
  <2>2. CASE FetchOuter
    <3>1. outerPos + 1 \in 1..Len(input)
      BY <2>2 DEF FetchOuter, TypeInv, TypeOK
    <3> QED
      BY <2>1, <2>2, <3>1 DEF FetchOuter
  <2>3. CASE FetchTemp
    <3>1. tempIn[tempInPos + 1] \in 1..Len(input)
      BY <2>3 DEF FetchTemp, TypeInv, TypeOK, Ids
    <3> QED
      BY <2>1, <2>3, <3>1 DEF FetchTemp
  <2>4. CASE Drop \/ WriteToTemp \/ LastPass \/ NextPass
    <3>1. window' = tuplewindow_rewind(window)
      BY <2>4 DEF Drop, WriteToTemp, LastPass, NextPass
    <3> QED
      BY <1>1, <3>1, RewindSpace
  <2>5. CASE RemoveDominated \/ PipeOut \/ FinalPipeOut
    <3>1. ~tuplewindow_ateof(window) /\ window' = tuplewindow_removeslot(window, window.current)
      BY <2>5 DEF RemoveDominated, PipeOut, FinalPipeOut, EmitCurrent, tuplewindow_removecurrent
    <3>2. window.current \in 1..Len(window.slots)
      BY <1>1, <3>1 DEF Windows, CursorsInList, tuplewindow_ateof, Nil
    <3> QED
      BY <1>1, <3>1, <3>2, RemoveSlotSpace
  <2>6. CASE MoveNext \/ PipeOutSkip
    <3>1. ~tuplewindow_ateof(window) /\ window' = tuplewindow_movenext(window)
      BY <2>6 DEF MoveNext, PipeOutSkip
    <3> QED
      BY <1>1, <3>1, MoveNextSpace
  <2>7. CASE PutInWindow
    <3>1. slot \in Ids /\ slot \in 1..Len(input) /\ PutTimestamp \in Nat
      BY <2>7 DEF TypeInv, TypeOK, PutInWindow, Comparing, Ids, PutTimestamp
    <3> DEFINE space == TupleSpace(input[slot])
               v == tuplewindow_puttupleslot(window, slot, PutTimestamp, space)
    <3>2. space \in Nat
      BY <3>1, RowOfInput DEF TypeInv
    <3>3. tuplewindow_has_freespace(window) /\ window' = tuplewindow_rewind(v)
      BY <2>7 DEF PutInWindow
    <3> HIDE DEF space
    <3>4. v \in Windows(Ids)
      BY <1>1, <3>1, <3>2, <3>3, PutWindow
    <3>5. SameLimits(v, window) /\ SpaceKept(v)
      BY <1>1, <3>1, <3>2, <3>3, PutSpace
    <3> HIDE DEF v
    <3>6. SameLimits(window', v) /\ SpaceKept(window')
      BY <3>3, <3>4, <3>5, RewindSpace
    <3> QED
      BY <3>5, <3>6 DEF SameLimits
  <2>8. CASE Start \/ PipeOutEnd \/ Finish \/ ReturnNull \/ UNCHANGED vars
    <3>1. window' = window
      BY <2>8 DEF Start, PipeOutEnd, Finish, ReturnNull, vars
    <3> QED
      BY <1>1, <3>1 DEF SameLimits
  <2> QED
    BY <2>2, <2>3, <2>4, <2>5, <2>6, <2>7, <2>8 DEF Next
<1> QED
  BY <1>2, SameLimitsLeaveSpace DEF SpaceIInv, LimitsInv

\* The memory and the slots that the window has left are what the tuples in it
\* leave of its limits, for every tuple put in and taken out.
THEOREM SpaceExact == Spec => []SpaceInv
<1>1. SpaceIInv => SpaceInv
  BY DEF SpaceIInv, SpaceInv, SpaceKept
<1>2. TypeInv /\ SpaceIInv /\ [Next]_vars => (TypeInv /\ SpaceIInv)'
  BY NextTypeInv, NextSpaceIInv
<1>3. Init => TypeInv /\ SpaceIInv
  BY InitTypeInv, InitSpaceIInv
<1> QED
  BY <1>1, <1>2, <1>3, PTL DEF Spec

-----------------------------------------------------------------------------
(* The timestamps of the tuples that are in the window. *)

\* A tuple of an earlier pass has a place in the file that is read, and one of
\* this pass a place in the file that is written.
StampsInFiles ==
    status \notin {"SS_FINALPIPEOUT", "SS_DONE"} =>
        \A k \in Slots : /\ Old(k) => Stamp(k) <= Len(tempIn)
                         /\ ~Old(k) => Stamp(k) <= timestampOut

\* The tuples behind the cursor of SS_PIPEOUT, in the end all of them, wait for
\* more of the file.
PassedIncomplete ==
    source = "SS_TEMP" /\ status = "SS_PIPEOUT" =>
        \A k \in Slots : k < window.current => Stamp(k) # timestampIn

NoneComplete ==
    source = "SS_TEMP" /\ status = "SS_PROCESS" /\ slot = 0 =>
        \A k \in Slots : Stamp(k) # timestampIn

StampInv == StampsInFiles /\ PassedIncomplete /\ NoneComplete

\* The next tuple of the file makes no tuple of an earlier pass a new one: none
\* of them had its place.
LEMMA FetchTempOld ==
    ASSUME TypeInv, IInv, StampInv, FetchTemp
    PROVE  /\ Slots' = Slots
           /\ \A k \in Slots : Stamp(k)' = Stamp(k) /\ (Old(k)' <=> Old(k))
<1>1. /\ tempIn[tempInPos + 1] \in 1..Len(input)
      /\ StartComparing(tempIn[tempInPos + 1])
      /\ status = "SS_PROCESS" /\ source = "SS_TEMP" /\ slot = 0
      /\ source' = source /\ timestampIn \in Nat
  BY DEF FetchTemp, TypeInv, TypeOK, Ids
<1>2. window'.slots = window.slots /\ timestampIn' = timestampIn + 1
  BY <1>1, StartComparingWindow
<1>3. Slots' = Slots /\ \A k : Stamp(k)' = Stamp(k)
  BY <1>2 DEF Slots, Stamp
<1>4. ASSUME NEW k \in Slots PROVE Old(k)' <=> Old(k)
  <2>1. Stamp(k) \in Nat /\ Stamp(k) # timestampIn
    BY <1>1, SlotTypes DEF StampInv, NoneComplete
  <2>2. Stamp(k) >= timestampIn + 1 <=> Stamp(k) >= timestampIn
    BY <1>1, <2>1
  <2> QED
    BY <1>1, <1>2, <1>3, <2>2 DEF Old
<1> QED
  BY <1>3, <1>4

\* At the end of a pass no tuple of an earlier one is left in the window.
LEMMA NoneOldAtEnd ==
    ASSUME TypeInv, IInv, StampInv, EndOfSource
    PROVE  \A k \in Slots : ~Old(k)
<1> SUFFICES ASSUME NEW k \in Slots, Old(k) PROVE FALSE
  OBVIOUS
<1>1. /\ status = "SS_PROCESS" /\ slot = 0 /\ source = "SS_TEMP"
      /\ tempInPos = Len(tempIn) /\ tempInPos = timestampIn
      /\ Stamp(k) >= timestampIn
  BY DEF EndOfSource, Old, IInv, TimestampInv
<1>2. Stamp(k) <= Len(tempIn) /\ Stamp(k) # timestampIn
  BY <1>1 DEF StampInv, StampsInFiles, NoneComplete
<1>3. Stamp(k) \in Nat /\ timestampIn \in Nat
  BY SlotTypes DEF TypeInv, TypeOK
<1> QED
  BY <1>1, <1>2, <1>3

\* Any step that leaves what the window holds and the counters alone.
LEMMA SameStamps ==
    ASSUME StampsInFiles, status \notin {"SS_FINALPIPEOUT", "SS_DONE"},
           window'.slots = window.slots, source' = source, tempIn' = tempIn,
           timestampIn' = timestampIn, timestampOut' = timestampOut
    PROVE  StampsInFiles' /\ Slots' = Slots /\ \A k : Stamp(k)' = Stamp(k)
<1>1. Slots' = Slots /\ \A k : Stamp(k)' = Stamp(k)
  BY DEF Slots, Stamp
<1>2. \A k : Old(k)' <=> Old(k)
  BY <1>1 DEF Old
<1> QED
  BY <1>1, <1>2 DEF StampsInFiles

\* A removal takes one stamp away.
LEMMA FewerStamps ==
    ASSUME TypeInv, StampsInFiles, ~tuplewindow_ateof(window),
           window' = tuplewindow_removecurrent(window),
           status' = status, source' = source, tempIn' = tempIn,
           timestampIn' = timestampIn, timestampOut' = timestampOut
    PROVE  StampsInFiles'
<1> DEFINE c == window.current
           f(k) == IF k < c THEN k ELSE k+1
<1>1. \A k \in Slots' : f(k) \in Slots /\ Stamp(k)' = Stamp(f(k))
  BY SlotsAfterRemoval
<1> HIDE DEF f
<1>2. \A k \in Slots' : Old(k)' <=> Old(f(k))
  BY <1>1 DEF Old
<1> QED
  BY <1>1, <1>2 DEF StampsInFiles

LEMMA InitStampInv == Init => StampInv
<1> SUFFICES ASSUME Init PROVE StampInv
  OBVIOUS
<1>1. window.slots = <<>> /\ status = "SS_INIT"
  BY DEF Init, tuplewindow_begin
<1>2. Slots = {}
  BY <1>1 DEF Slots
<1> QED
  BY <1>1, <1>2 DEF StampInv, StampsInFiles, PassedIncomplete, NoneComplete

LEMMA NextStampInv == TypeInv /\ IInv /\ StampInv /\ [Next]_vars => StampInv'
<1> SUFFICES ASSUME TypeInv, IInv, StampInv, [Next]_vars PROVE StampInv'
  OBVIOUS
<1>1. /\ window \in Windows(Ids) /\ CursorsInList(window)
      /\ timestampIn \in Nat /\ timestampOut \in Nat
      /\ \A k \in Slots : Stamp(k) \in Nat
      /\ StampsInFiles
  BY SlotTypes DEF TypeInv, TypeOK, StampInv
<1>2. CASE Start
  <2>1. window.slots = <<>> /\ window' = window /\ status' = "SS_PROCESS" /\ source' = "SS_OUTER"
    BY <1>2 DEF Start, IInv, PhaseInv
  <2>2. Slots' = {}
    BY <2>1 DEF Slots
  <2> QED
    BY <2>1, <2>2 DEF StampInv, StampsInFiles, PassedIncomplete, NoneComplete
<1>3. CASE FetchOuter
  <2>1. outerPos + 1 \in 1..Len(input) /\ StartComparing(outerPos + 1)
    BY <1>3 DEF FetchOuter, TypeInv, TypeOK
  <2>2. window'.slots = window.slots
    BY <2>1, StartComparingWindow
  <2>3. /\ source = "SS_OUTER" /\ source' = "SS_OUTER" /\ status = "SS_PROCESS"
        /\ timestampOut' = timestampOut
    BY <1>3 DEF FetchOuter
  <2>4. Slots' = Slots /\ \A k : Stamp(k)' = Stamp(k) /\ ~Old(k) /\ ~Old(k)'
    BY <2>2, <2>3 DEF Slots, Stamp, Old
  <2> QED
    BY <1>1, <2>3, <2>4 DEF StampInv, StampsInFiles, PassedIncomplete, NoneComplete
<1>4. CASE FetchTemp
  <2>1. tempIn[tempInPos + 1] \in 1..Len(input) /\ StartComparing(tempIn[tempInPos + 1])
    BY <1>4 DEF FetchTemp, TypeInv, TypeOK, Ids
  <2>2. slot' # 0
    BY <2>1, StartComparingWindow
  <2>3. /\ status' = "SS_PROCESS" /\ status = "SS_PROCESS"
        /\ tempIn' = tempIn /\ timestampOut' = timestampOut
    BY <1>4 DEF FetchTemp
  <2>4. /\ Slots' = Slots
        /\ \A k \in Slots : Stamp(k)' = Stamp(k) /\ (Old(k)' <=> Old(k))
    BY <1>4, FetchTempOld
  <2> QED
    BY <1>1, <2>2, <2>3, <2>4 DEF StampInv, StampsInFiles, PassedIncomplete, NoneComplete
<1>5. CASE Drop
  <2>1. window'.slots = window.slots /\ window'.current = 1
    BY <1>1, <1>5, RewindWindow DEF Drop
  <2>2. /\ status = "SS_PROCESS" /\ status' = "SS_PIPEOUT" /\ source' = source
        /\ tempIn' = tempIn /\ timestampIn' = timestampIn /\ timestampOut' = timestampOut
    BY <1>5 DEF Drop, Comparing, EndOfTuple, files
  <2>3. StampsInFiles'
    BY <1>1, <2>1, <2>2, SameStamps
  <2>4. \A k \in Slots' : ~(k < window'.current)
    BY <2>1 DEF Slots
  <2> QED
    BY <2>2, <2>3, <2>4 DEF StampInv, PassedIncomplete, NoneComplete
<1>6. CASE RemoveDominated
  <2>1. /\ ~tuplewindow_ateof(window) /\ window' = tuplewindow_removecurrent(window)
        /\ status' = status /\ status = "SS_PROCESS" /\ source' = source
        /\ tempIn' = tempIn /\ slot' = slot /\ slot # 0
        /\ timestampIn' = timestampIn /\ timestampOut' = timestampOut
    BY <1>6 DEF RemoveDominated, Comparing, files
  <2>2. StampsInFiles'
    BY <1>1, <2>1, FewerStamps
  <2> QED
    BY <2>1, <2>2 DEF StampInv, PassedIncomplete, NoneComplete
<1>7. CASE MoveNext
  <2>1. window'.slots = window.slots
    BY <1>1, <1>7, MoveNextWindow DEF MoveNext
  <2>2. /\ status' = status /\ status = "SS_PROCESS" /\ source' = source
        /\ tempIn' = tempIn /\ slot' = slot /\ slot # 0
        /\ timestampIn' = timestampIn /\ timestampOut' = timestampOut
    BY <1>7 DEF MoveNext, Comparing, files
  <2>3. StampsInFiles'
    BY <1>1, <2>1, <2>2, SameStamps
  <2> QED
    BY <2>2, <2>3 DEF StampInv, PassedIncomplete, NoneComplete
<1>8. CASE PutInWindow
  <2>1. window'.current = 1
    BY <1>8, PutInWindowSlots
  <2>2. PICK n \in 1..Len(window.slots)+1 :
          Inserted(window.slots, window'.slots, n, slot, timestampOut)
    BY <1>8, PutInWindowSlots
  <2> DEFINE f(k) == IF k < n THEN k ELSE k-1
  <2>3. /\ Stamp(n)' = timestampOut
        /\ \A k \in Slots' \ {n} : f(k) \in Slots /\ Stamp(k)' = Stamp(f(k))
    BY <2>2, SlotsAfterInsertion
  <2> HIDE DEF f
  <2>4. /\ status = "SS_PROCESS" /\ status' = "SS_PIPEOUT" /\ source' = source
        /\ tempIn' = tempIn /\ timestampIn' = timestampIn /\ timestampOut' = timestampOut
        /\ timestampOut < timestampIn
    BY <1>8 DEF PutInWindow, Comparing, EndOfTuple, files, IInv, TimestampInv
  <2>5. ~Old(n)' /\ Stamp(n)' <= timestampOut'
    BY <1>1, <2>3, <2>4 DEF Old
  <2>6. \A k \in Slots' \ {n} : Old(k)' <=> Old(f(k))
    BY <2>3, <2>4 DEF Old
  <2>7. StampsInFiles'
    BY <1>1, <2>3, <2>4, <2>5, <2>6 DEF StampsInFiles
  <2>8. \A k \in Slots' : ~(k < window'.current)
    BY <2>1 DEF Slots
  <2> QED
    BY <2>4, <2>7, <2>8 DEF StampInv, PassedIncomplete, NoneComplete
<1>9. CASE WriteToTemp
  <2>1. window'.slots = window.slots /\ window'.current = 1
    BY <1>1, <1>9, RewindWindow DEF WriteToTemp
  <2>2. /\ status = "SS_PROCESS" /\ status' = "SS_PIPEOUT" /\ source' = source
        /\ tempIn' = tempIn /\ timestampIn' = timestampIn /\ timestampOut' = timestampOut + 1
    BY <1>9 DEF WriteToTemp, Comparing, EndOfTuple
  <2>3. Slots' = Slots /\ \A k : Stamp(k)' = Stamp(k)
    BY <2>1 DEF Slots, Stamp
  <2>4. \A k : Old(k)' <=> Old(k)
    BY <2>2, <2>3 DEF Old
  <2>5. StampsInFiles'
    BY <1>1, <2>2, <2>3, <2>4 DEF StampsInFiles
  <2>6. \A k \in Slots' : ~(k < window'.current)
    BY <2>1 DEF Slots
  <2> QED
    BY <2>2, <2>5, <2>6 DEF StampInv, PassedIncomplete, NoneComplete
<1>10. CASE NextPass
  <2>1. window'.slots = window.slots /\ window'.current = 1
    BY <1>1, <1>10, RewindWindow DEF NextPass
  <2>2. /\ status = "SS_PROCESS" /\ status' = "SS_PIPEOUT" /\ source' = "SS_TEMP"
        /\ tempIn' = tempOut /\ timestampIn' = 0 /\ EndOfSource
        /\ timestampOut = Len(tempOut)
    BY <1>10 DEF NextPass, EndOfSource, IInv, TimestampInv
  <2>3. Slots' = Slots /\ \A k : Stamp(k)' = Stamp(k)
    BY <2>1 DEF Slots, Stamp
  <2>4. \A k \in Slots : Stamp(k) <= Len(tempIn')
    BY <1>1, <2>2, NoneOldAtEnd DEF StampsInFiles
  <2>5. \A k \in Slots : Old(k)'
    BY <1>1, <2>2, <2>3 DEF Old
  <2>6. StampsInFiles'
    BY <2>3, <2>4, <2>5 DEF StampsInFiles
  <2>7. \A k \in Slots' : ~(k < window'.current)
    BY <2>1 DEF Slots
  <2> QED
    BY <2>2, <2>6, <2>7 DEF StampInv, PassedIncomplete, NoneComplete
<1>11. CASE PipeOut
  <2>1. /\ ~tuplewindow_ateof(window) /\ window' = tuplewindow_removecurrent(window)
        /\ status' = status /\ status = "SS_PIPEOUT" /\ source' = source
        /\ tempIn' = tempIn
        /\ timestampIn' = timestampIn /\ timestampOut' = timestampOut
    BY <1>11 DEF PipeOut, EmitCurrent, files
  <2>2. StampsInFiles'
    BY <1>1, <2>1, FewerStamps
  <2> DEFINE c == window.current
             f(k) == IF k < c THEN k ELSE k+1
  <2>3. /\ window'.current = window.current
        /\ \A k \in Slots' : f(k) \in Slots /\ Stamp(k)' = Stamp(f(k))
        /\ \A k \in Slots' : k < c => f(k) < c
    BY <2>1, SlotsAfterRemoval
  <2> HIDE DEF f
  <2>4. PassedIncomplete'
    BY <2>1, <2>3 DEF StampInv, PassedIncomplete
  <2> QED
    BY <2>1, <2>2, <2>4 DEF StampInv, NoneComplete
<1>12. CASE PipeOutSkip
  <2>1. window'.slots = window.slots /\ window'.current = window.current + 1
    BY <1>1, <1>12, MoveNextWindow DEF PipeOutSkip
  <2>2. /\ ~tuplewindow_ateof(window) /\ CurrentSlot(window).timestamp # timestampIn
        /\ status' = status /\ status = "SS_PIPEOUT" /\ source' = source
        /\ tempIn' = tempIn
        /\ timestampIn' = timestampIn /\ timestampOut' = timestampOut
    BY <1>12 DEF PipeOutSkip, files
  <2>3. StampsInFiles' /\ Slots' = Slots /\ \A k : Stamp(k)' = Stamp(k)
    BY <1>1, <2>1, <2>2, SameStamps
  <2>4. Stamp(window.current) # timestampIn /\ window.current \in Nat
    BY <2>2, CursorAtSlot, SlotTypes
  <2>5. \A k \in Slots : k < window.current + 1 => k < window.current \/ k = window.current
    BY <2>4 DEF Slots
  <2>6. PassedIncomplete'
    BY <2>1, <2>2, <2>3, <2>4, <2>5 DEF StampInv, PassedIncomplete
  <2> QED
    BY <2>2, <2>3, <2>6 DEF StampInv, NoneComplete
<1>13. CASE PipeOutEnd
  <2>1. /\ window' = window /\ tuplewindow_ateof(window)
        /\ status = "SS_PIPEOUT" /\ status' = "SS_PROCESS" /\ source' = source
        /\ tempIn' = tempIn
        /\ timestampIn' = timestampIn /\ timestampOut' = timestampOut
    BY <1>13 DEF PipeOutEnd, files
  <2>2. StampsInFiles' /\ Slots' = Slots /\ \A k : Stamp(k)' = Stamp(k)
    BY <1>1, <2>1, SameStamps
  <2>3. \A k \in Slots : k < window.current
    BY <2>1, SlotTypes DEF tuplewindow_ateof, Nil, Slots
  <2>4. NoneComplete'
    BY <2>1, <2>2, <2>3 DEF StampInv, PassedIncomplete, NoneComplete
  <2> QED
    BY <2>1, <2>2, <2>4 DEF StampInv, PassedIncomplete
<1>14. CASE LastPass \/ FinalPipeOut \/ Finish
  <2>1. status' \in {"SS_FINALPIPEOUT", "SS_DONE"}
    BY <1>14 DEF LastPass, FinalPipeOut, Finish
  <2> QED
    BY <2>1 DEF StampInv, StampsInFiles, PassedIncomplete, NoneComplete
<1>15. CASE ReturnNull \/ UNCHANGED vars
  BY <1>15 DEF ReturnNull, vars, StampInv, StampsInFiles, PassedIncomplete, NoneComplete,
               Slots, Stamp, Old
<1> QED
  BY <1>2, <1>3, <1>4, <1>5, <1>6, <1>7, <1>8, <1>9, <1>10, <1>11, <1>12, <1>13, <1>14,
     <1>15 DEF Next

-----------------------------------------------------------------------------
(* The end. *)

\* The variant is a tuple of natural numbers, of which DescentEnds says that
\* they cannot descend for ever.
VariantOK == Variant \in [1..7 -> Nat]

LEMMA VariantType == TypeInv => VariantOK
<1> SUFFICES ASSUME TypeInv PROVE VariantOK
  OBVIOUS
<1> DEFINE a == StatusesLeft
           b == ToHandle
           c == Outside
           d == Count(Unsettled)
           e == ToRead
           f == IF slot # 0 THEN 2 ELSE Count(status = "SS_PIPEOUT")
           g == Len(window.slots) + 1 - window.current
<1>1. a \in Nat
  BY DEF StatusesLeft
<1>2. d \in Nat /\ f \in Nat /\ Count(slot # 0) \in Nat
  BY DEF Count
<1>3. e \in Nat
  BY DEF ToRead, TypeInv, TypeOK
<1>4. c \in Nat
  <2>1. Len(tempOut) \in Nat
    BY DEF TypeInv, TypeOK
  <2> QED
    BY <1>2, <1>3, <2>1 DEF Outside
<1>5. b \in Nat
  BY <1>4, SlotTypes DEF ToHandle
<1>6. g \in Nat
  BY DEF TypeInv, TypeOK, Windows, CursorsInList, Nil
<1> HIDE DEF a, b, c, d, e, f, g
<1>7. <<a, b, c, d, e, f, g>> \in [1..7 -> Nat]
  BY <1>1, <1>2, <1>3, <1>4, <1>5, <1>6
<1> QED
  BY <1>7 DEF VariantOK, Variant, a, b, c, d, e, f, g

\* Seven numbers descend where the first difference is.
LEMMA SevenDescend ==
    ASSUME NEW a, NEW b, NEW c, NEW d, NEW e, NEW f, NEW g,
           NEW a2, NEW b2, NEW c2, NEW d2, NEW e2, NEW f2, NEW g2,
           \/ a2 < a
           \/ a2 = a /\ b2 < b
           \/ a2 = a /\ b2 = b /\ c2 < c
           \/ a2 = a /\ b2 = b /\ c2 = c /\ d2 < d
           \/ a2 = a /\ b2 = b /\ c2 = c /\ d2 = d /\ e2 < e
           \/ a2 = a /\ b2 = b /\ c2 = c /\ d2 = d /\ e2 = e /\ f2 < f
           \/ a2 = a /\ b2 = b /\ c2 = c /\ d2 = d /\ e2 = e /\ f2 = f /\ g2 < g
    PROVE  Descends(<<a2, b2, c2, d2, e2, f2, g2>>, <<a, b, c, d, e, f, g>>)
<1> DEFINE w == <<a, b, c, d, e, f, g>>
           v == <<a2, b2, c2, d2, e2, f2, g2>>
<1>1. /\ DOMAIN w = 1..7
      /\ w[1] = a /\ w[2] = b /\ w[3] = c /\ w[4] = d /\ w[5] = e /\ w[6] = f /\ w[7] = g
      /\ v[1] = a2 /\ v[2] = b2 /\ v[3] = c2 /\ v[4] = d2 /\ v[5] = e2 /\ v[6] = f2
      /\ v[7] = g2
  OBVIOUS
<1> HIDE DEF v, w
<1>2. /\ 1 \in 1..7 /\ 2 \in 1..7 /\ 3 \in 1..7 /\ 4 \in 1..7 /\ 5 \in 1..7 /\ 6 \in 1..7
      /\ 7 \in 1..7
      /\ \A k \in 1..1-1 : FALSE
      /\ \A k \in 1..2-1 : k = 1
      /\ \A k \in 1..3-1 : k = 1 \/ k = 2
      /\ \A k \in 1..4-1 : k = 1 \/ k = 2 \/ k = 3
      /\ \A k \in 1..5-1 : k = 1 \/ k = 2 \/ k = 3 \/ k = 4
      /\ \A k \in 1..6-1 : k = 1 \/ k = 2 \/ k = 3 \/ k = 4 \/ k = 5
      /\ \A k \in 1..7-1 : k = 1 \/ k = 2 \/ k = 3 \/ k = 4 \/ k = 5 \/ k = 6
  OBVIOUS
<1>3. Descends(v, w)
  BY <1>1, <1>2 DEF Descends
<1> QED
  BY <1>3 DEF v, w

\* Whether the window is settled depends on the ages of its tuples, and on the
\* file that is written only if there are none.
LEMMA SameSettled ==
    ASSUME window'.slots = window.slots, window.slots = <<>> => tempOut' = tempOut,
           \A k \in Slots : Old(k)' <=> Old(k)
    PROVE  Count(Unsettled)' = Count(Unsettled)
<1>1. Slots' = Slots
  BY DEF Slots
<1>2. Unsettled' <=> Unsettled
  <2>1. CASE window.slots = <<>>
    BY <2>1 DEF Unsettled
  <2>2. CASE window.slots # <<>>
    BY <1>1, <2>2 DEF Unsettled
  <2> QED
    BY <2>1, <2>2
<1> QED
  BY <1>2 DEF Count

LEMMA NextDescends ==
    TypeInv /\ IInv /\ StampInv /\ SpaceIInv /\ LimitsInv /\ [Next]_vars =>
      [Descends(Variant', Variant)]_vars
<1> SUFFICES ASSUME TypeInv, IInv, StampInv, SpaceIInv, LimitsInv, Next, ~UNCHANGED vars
             PROVE  Descends(Variant', Variant)
  BY DEF vars
<1> DEFINE a == StatusesLeft
           b == ToHandle
           c == Outside
           d == Count(Unsettled)
           e == ToRead
           f == IF slot # 0 THEN 2 ELSE Count(status = "SS_PIPEOUT")
           g == Len(window.slots) + 1 - window.current
<1>1. /\ input' = input /\ Len(input) \in Nat /\ outerPos \in 0..Len(input)
      /\ Len(tempIn) \in Nat /\ tempInPos \in 0..Len(tempIn) /\ Len(tempOut) \in Nat
      /\ Len(window.slots) \in Nat /\ window.current \in Int
      /\ window \in Windows(Ids) /\ CursorsInList(window)
  <2>1. input' = input
    BY PlanUnchanged DEF plan
  <2> QED
    BY <2>1, SlotTypes DEF TypeInv, TypeOK
<1>2. status' = status \/ {status, status'} = {"SS_PROCESS", "SS_PIPEOUT"} => a' = a
  <2>1. CASE status' = status
    BY <2>1 DEF StatusesLeft
  <2>2. CASE {status, status'} = {"SS_PROCESS", "SS_PIPEOUT"}
    <3>1. status \in {"SS_PROCESS", "SS_PIPEOUT"} /\ status' \in {"SS_PROCESS", "SS_PIPEOUT"}
      BY <2>2
    <3>2. StatusesLeft = 2 /\ StatusesLeft' = 2
      BY <3>1 DEF StatusesLeft
    <3> QED
      BY <3>2
  <2> QED
    BY <2>1, <2>2
<1>3. \/ a' < a
      \/ a' = a /\ b' < b
      \/ a' = a /\ b' = b /\ c' < c
      \/ a' = a /\ b' = b /\ c' = c /\ d' < d
      \/ a' = a /\ b' = b /\ c' = c /\ d' = d /\ e' < e
      \/ a' = a /\ b' = b /\ c' = c /\ d' = d /\ e' = e /\ f' < f
      \/ a' = a /\ b' = b /\ c' = c /\ d' = d /\ e' = e /\ f' = f /\ g' < g
  <2>1. CASE Start
    BY <2>1 DEF Start, StatusesLeft
  <2>2. CASE FetchOuter
    <3>1. outerPos + 1 \in 1..Len(input) /\ StartComparing(outerPos + 1)
      BY <1>1, <2>2 DEF FetchOuter
    <3>2. window'.slots = window.slots /\ slot' # 0
      BY <3>1, StartComparingWindow
    <3>3. /\ slot = 0 /\ status' = status /\ outerPos' = outerPos + 1
          /\ source = "SS_OUTER" /\ source' = source
          /\ tempIn' = tempIn /\ tempInPos' = tempInPos /\ tempOut' = tempOut
      BY <2>2 DEF FetchOuter, files
    <3>4. b' = b /\ c' = c /\ e' < e
      <4>1. e' = e - 1 /\ e \in Int
        BY <1>1, <3>3 DEF ToRead
      <4>2. Count(slot # 0) = 0 /\ Count(slot # 0)' = 1
        BY <3>2, <3>3 DEF Count
      <4>3. c' = c
        BY <1>1, <3>3, <4>1, <4>2 DEF Outside
      <4> QED
        BY <3>2, <4>1, <4>3 DEF ToHandle
    <3>5. \A k \in Slots : Old(k)' <=> Old(k)
      BY <3>3 DEF Old
    <3>6. d' = d
      BY <3>2, <3>3, <3>5, SameSettled
    <3> QED
      BY <1>2, <3>3, <3>4, <3>6
  <2>3. CASE FetchTemp
    <3>1. tempIn[tempInPos + 1] \in 1..Len(input) /\ StartComparing(tempIn[tempInPos + 1])
      BY <1>1, <2>3 DEF FetchTemp, TypeInv, TypeOK, Ids
    <3>2. window'.slots = window.slots /\ slot' # 0
      BY <3>1, StartComparingWindow
    <3>3. /\ slot = 0 /\ status' = status /\ outerPos' = outerPos
          /\ tempIn' = tempIn /\ tempInPos' = tempInPos + 1 /\ tempOut' = tempOut
      BY <2>3 DEF FetchTemp
    <3>4. b' = b /\ c' = c /\ e' < e
      <4>1. e' = e - 1 /\ e \in Int
        BY <1>1, <3>3 DEF ToRead
      <4>2. Count(slot # 0) = 0 /\ Count(slot # 0)' = 1
        BY <3>2, <3>3 DEF Count
      <4>3. c' = c
        BY <1>1, <3>3, <4>1, <4>2 DEF Outside
      <4> QED
        BY <3>2, <4>1, <4>3 DEF ToHandle
    <3>5. \A k \in Slots : Old(k)' <=> Old(k)
      BY <2>3, FetchTempOld
    <3>6. d' = d
      BY <3>2, <3>3, <3>5, SameSettled
    <3> QED
      BY <1>2, <3>3, <3>4, <3>6
  <2>4. CASE Drop
    <3>1. /\ slot # 0 /\ slot' = 0 /\ status = "SS_PROCESS" /\ status' = "SS_PIPEOUT"
          /\ outerPos' = outerPos
          /\ tempIn' = tempIn /\ tempInPos' = tempInPos /\ tempOut' = tempOut
      BY <2>4 DEF Drop, Comparing, EndOfTuple, files
    <3>2. window'.slots = window.slots
      BY <1>1, <2>4, RewindWindow DEF Drop
    <3>3. c' = c - 1 /\ c \in Int
      BY <1>1, <3>1 DEF Outside, ToRead, Count
    <3>4. b' < b
      BY <1>1, <3>2, <3>3 DEF ToHandle
    <3> QED
      BY <1>2, <3>1, <3>4
  <2>5. CASE RemoveDominated \/ PipeOut \/ FinalPipeOut
    <3>1. /\ slot' = slot /\ status' = status /\ outerPos' = outerPos
          /\ tempIn' = tempIn /\ tempInPos' = tempInPos /\ tempOut' = tempOut
      BY <2>5 DEF RemoveDominated, PipeOut, FinalPipeOut, files
    <3>2. Len(window'.slots) = Len(window.slots) - 1
      BY <2>5, RemoveCurrentSlot DEF RemoveDominated, PipeOut, FinalPipeOut, EmitCurrent
    <3>3. c' = c /\ c \in Int
      BY <1>1, <3>1 DEF Outside, ToRead, Count
    <3>4. b' < b
      BY <1>1, <3>2, <3>3 DEF ToHandle
    <3> QED
      BY <1>2, <3>1, <3>4
  <2>6. CASE MoveNext \/ PipeOutSkip
    <3>1. window'.slots = window.slots /\ window'.current = window.current + 1
      BY <1>1, <2>6, MoveNextWindow DEF MoveNext, PipeOutSkip
    <3>2. /\ slot' = slot /\ status' = status /\ outerPos' = outerPos /\ source' = source
          /\ tempIn' = tempIn /\ tempInPos' = tempInPos /\ tempOut' = tempOut
          /\ timestampIn' = timestampIn
      BY <2>6 DEF MoveNext, PipeOutSkip, files
    <3>3. b' = b /\ c' = c /\ e' = e /\ f' = f
      BY <1>1, <3>1, <3>2 DEF ToHandle, Outside, ToRead
    <3>4. \A k \in Slots : Old(k)' <=> Old(k)
      BY <3>1, <3>2 DEF Old, Stamp
    <3>5. d' = d
      BY <3>1, <3>2, <3>4, SameSettled
    <3>6. g' < g
      <4>1. window.current \in Int /\ Len(window.slots) \in Int
        BY <1>1
      <4>2. Len(window'.slots) + 1 - window'.current < Len(window.slots) + 1 - window.current
        BY <3>1, <4>1
      <4> QED
        BY <4>2
    <3> QED
      BY <1>2, <3>2, <3>3, <3>5, <3>6
  <2>7. CASE PutInWindow
    <3>1. /\ slot # 0 /\ slot' = 0 /\ status = "SS_PROCESS" /\ status' = "SS_PIPEOUT"
          /\ outerPos' = outerPos
          /\ tempIn' = tempIn /\ tempInPos' = tempInPos /\ tempOut' = tempOut
      BY <2>7 DEF PutInWindow, Comparing, EndOfTuple, files
    <3>2. Len(window'.slots) = Len(window.slots) + 1
      BY <2>7, PutInWindowSlots DEF Inserted
    <3>3. c' = c - 1 /\ c \in Int
      BY <1>1, <3>1 DEF Outside, ToRead, Count
    <3>4. b' = b
      BY <1>1, <3>2, <3>3 DEF ToHandle
    <3> QED
      BY <1>2, <3>1, <3>3, <3>4
  <2>8. CASE WriteToTemp
    <3>1. /\ slot # 0 /\ slot' = 0 /\ status = "SS_PROCESS" /\ status' = "SS_PIPEOUT"
          /\ outerPos' = outerPos /\ source' = source /\ timestampIn' = timestampIn
          /\ tempIn' = tempIn /\ tempInPos' = tempInPos /\ tempOut' = Append(tempOut, slot)
          /\ ~tuplewindow_has_freespace(window)
      BY <2>8 DEF WriteToTemp, Comparing, EndOfTuple
    <3>2. Len(tempOut') = Len(tempOut) + 1
      BY <3>1 DEF TypeInv, TypeOK
    <3>3. window'.slots = window.slots
      BY <1>1, <2>8, RewindWindow DEF WriteToTemp
    <3>4. b' = b /\ c' = c /\ e' = e
      <4>1. e' = e /\ e \in Int
        BY <1>1, <3>1 DEF ToRead
      <4>2. Count(slot # 0) = 1 /\ Count(slot # 0)' = 0
        BY <3>1 DEF Count
      <4>3. c' = c
        BY <1>1, <3>2, <4>1, <4>2 DEF Outside
      <4> QED
        BY <3>3, <4>1, <4>3 DEF ToHandle
    <3>5. \A k \in Slots : Old(k)' <=> Old(k)
      BY <3>1, <3>3 DEF Old, Stamp
    <3>6. window.slots # <<>>
      BY <1>1, <3>1, EmptyHasSpace DEF SpaceIInv, LimitsInv
    <3>7. d' = d
      BY <3>3, <3>5, <3>6, SameSettled
    <3>8. f' < f
      BY <3>1 DEF Count
    <3> QED
      BY <1>2, <3>1, <3>4, <3>7, <3>8
  <2>9. CASE LastPass
    BY <2>9 DEF LastPass, EndOfSource, StatusesLeft
  <2>10. CASE NextPass
    <3>1. /\ slot = 0 /\ slot' = 0 /\ status = "SS_PROCESS" /\ status' = "SS_PIPEOUT"
          /\ outerPos' = outerPos /\ source' = "SS_TEMP" /\ timestampIn' = 0
          /\ tempIn' = tempOut /\ tempInPos' = 0 /\ tempOut' = <<>>
          /\ timestampOut # 0 /\ EndOfSource
      BY <2>10 DEF NextPass, EndOfSource
    <3>2. outerPos = Len(input) /\ tempInPos = Len(tempIn)
      <4>1. /\ source = "SS_OUTER" => outerPos = Len(input) /\ tempIn = <<>>
            /\ source = "SS_TEMP" => outerPos = Len(input) /\ tempInPos = Len(tempIn)
            /\ source \in {"SS_OUTER", "SS_TEMP"}
        BY <3>1 DEF EndOfSource, IInv, TimestampInv, TypeInv, TypeOK
      <4>2. tempIn = <<>> => Len(tempIn) = 0
        OBVIOUS
      <4> QED
        BY <1>1, <4>1, <4>2
    <3>3. window'.slots = window.slots
      BY <1>1, <2>10, RewindWindow DEF NextPass
    <3>4. Len(tempOut') = 0 /\ Len(tempIn') = Len(tempOut)
      BY <3>1
    <3>5. b' = b /\ c' = c
      BY <1>1, <3>1, <3>2, <3>3, <3>4 DEF ToHandle, Outside, ToRead, Count
    <3>6. Unsettled
      <4>1. CASE window.slots = <<>>
        <5>1. Len(tempOut) # 0
          BY <3>1 DEF IInv, TimestampInv
        <5>2. tempOut # <<>>
          BY <5>1
        <5> QED
          BY <4>1, <5>2 DEF Unsettled
      <4>2. CASE window.slots # <<>>
        <5>1. window.slots \in Seq(Entries(Ids))
          BY <1>1 DEF Windows
        <5>2. 1 \in Slots
          BY <4>2, <5>1 DEF Slots
        <5> QED
          BY <3>1, <4>2, <5>2, NoneOldAtEnd DEF Unsettled
      <4> QED
        BY <4>1, <4>2
    <3>7. ~Unsettled'
      <4>1. Slots' = Slots /\ \A k \in Slots : Stamp(k)' \in Nat
        BY <3>3, SlotTypes DEF Slots, Stamp
      <4>2. \A k \in Slots' : Old(k)'
        BY <3>1, <4>1 DEF Old
      <4> QED
        BY <3>1, <4>2 DEF Unsettled
    <3>8. d' < d
      BY <3>6, <3>7 DEF Count
    <3> QED
      BY <1>2, <3>1, <3>5, <3>8
  <2>11. CASE PipeOutEnd
    <3>1. /\ status = "SS_PIPEOUT" /\ status' = "SS_PROCESS" /\ slot' = slot /\ slot = 0
          /\ outerPos' = outerPos /\ source' = source /\ timestampIn' = timestampIn
          /\ tempIn' = tempIn /\ tempInPos' = tempInPos /\ tempOut' = tempOut
          /\ window' = window
      BY <2>11 DEF PipeOutEnd, files, IInv, PhaseInv
    <3>2. b' = b /\ c' = c /\ e' = e
      BY <1>1, <3>1 DEF ToHandle, Outside, ToRead
    <3>3. \A k \in Slots : Old(k)' <=> Old(k)
      BY <3>1 DEF Old, Stamp
    <3>4. d' = d
      BY <3>1, <3>3, SameSettled
    <3>5. f' < f
      BY <3>1 DEF Count
    <3> QED
      BY <1>2, <3>1, <3>2, <3>4, <3>5
  <2>12. CASE Finish
    BY <2>12 DEF Finish, StatusesLeft
  <2>13. CASE ReturnNull
    BY <2>13 DEF ReturnNull
  <2> QED
    BY <2>1, <2>2, <2>3, <2>4, <2>5, <2>6, <2>7, <2>8, <2>9, <2>10, <2>11, <2>12, <2>13
       DEF Next
<1> HIDE DEF a, b, c, d, e, f, g
<1>4. Descends(<<a', b', c', d', e', f', g'>>, <<a, b, c, d, e, f, g>>)
  BY <1>3, SevenDescend, SMTT(60)
<1> QED
  BY <1>4 DEF Variant, a, b, c, d, e, f, g

\* No step leaves the block nested loop as far from its end as it was, if its
\* empty window has space: a pass that eliminates, returns and takes up nothing
\* finds in the window the tuples that the next one returns before it is over.
THEOREM PassesProgress ==
    ASSUME LimitsAccepted
    PROVE  Spec => Progress /\ []VariantOK
<1> DEFINE Inv == TypeInv /\ IInv /\ StampInv /\ SpaceIInv /\ LimitsInv
<1>1. Init => Inv
  BY InitTypeInv, InitIInv, InitStampInv, InitSpaceIInv
<1>2. Inv /\ [Next]_vars => Inv' /\ [Descends(Variant', Variant)]_vars
  BY NextTypeInv, NextIInv, NextStampInv, NextSpaceIInv, NextDescends
<1>3. Inv => VariantOK
  BY VariantType
<1> HIDE DEF Inv
<1> QED
  BY <1>1, <1>2, <1>3, PTL DEF Spec, Progress

=============================================================================
