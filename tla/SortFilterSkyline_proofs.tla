---------------------- MODULE SortFilterSkyline_proofs ----------------------
(***************************************************************************)
(* The sort filter skyline is correct for every plan: any columns, any     *)
(* input, any window policy and any window size.  SortFilterInv is         *)
(* inductive; with it every step on a sorted input is a step of            *)
(* SkylineQuery or leaves its variables unchanged, and on every input the  *)
(* tuples come out in the order they came in.                              *)
(***************************************************************************)
EXTENDS SortFilterSkyline, SkylineRank_proofs

\* node and input are those of a plan, for which RanksAssumption holds.
PlanChosen == \E p \in Plans : node = p.node /\ input = p.input

TypeInv == TypeOK /\ PlanChosen

\* The memory a row takes and its rank.
LEMMA RowOfInput ==
    ASSUME PlanChosen, NEW i \in 1..Len(input)
    PROVE  /\ TupleSpace(input[i]) \in Nat
           /\ ExecSkylineRank(node, input[i]) \in Int \cup {NaN}
           /\ RangesKnown => ExecSkylineRank(node, input[i]) \in Int
<1>1. PICK p \in Plans : node = p.node /\ input = p.input
  BY DEF PlanChosen
<1>2. node \in PlanNode /\ input[i] \in Row(node)
  BY <1>1, PlansAssumption
<1>3. NaN \notin Int /\ TupleSpace(input[i]) \in Nat
  BY <1>1, RanksAssumption
<1>4. RangesKnown => \A c \in RankedColumns(node) : node.cols[c].colRange # 0
  BY <1>1 DEF RangesKnown
<1>5. QED
  BY <1>2, <1>3, <1>4, RankOfRow

-----------------------------------------------------------------------------
(* The window, operation by operation. *)

\* While a tuple is compared neither cursor dangles.
LEMMA ComparingWindow ==
    ASSUME TypeInv, slot # 0
    PROVE  /\ window \in Windows(Ids) /\ CursorsInList(window)
           /\ slot \in Ids /\ TupleSpace(input[slot]) \in Nat
<1>1. /\ window \in Windows(Ids) /\ window.current <= Nil(window)
      /\ window.rankinsert \in 0..Nil(window) /\ window.rankinsert # 0
      /\ slot \in 1..Len(input)
  BY DEF TypeInv, TypeOK, Dangling
<1>2. CursorsInList(window)
  BY <1>1 DEF CursorsInList
<1>3. QED
  BY <1>1, <1>2, RowOfInput DEF TypeInv, Ids

\* A tuple is read: the window is rewound and given the rank of the tuple.
LEMMA StartComparingWindow ==
    ASSUME TypeInv, NEW i \in 1..Len(input), StartComparing(i)
    PROVE  /\ window' \in Windows(Ids) /\ CursorsInList(window')
           /\ SameList(window', window) /\ window'.current = 1
           /\ slot' = i
<1>1. window \in Windows(Ids)
  BY DEF TypeInv, TypeOK
<1> DEFINE w == tuplewindow_rewind(window)
<1>2. w \in Windows(Ids) /\ CursorsInList(w) /\ SameList(w, window) /\ w.current = 1
  BY <1>1, RewindWindow
<1>3. window.insertrank \in Int \cup {NaN}
  BY <1>1 DEF Windows
<1>4. PICK rank \in InsertRanks(i) : window' = tuplewindow_setinsertrank(w, rank)
  BY DEF StartComparing
<1>5. rank \in Int \cup {NaN}
  BY <1>3, RowOfInput, RanksAssumption DEF InsertRanks, TypeInv
<1> HIDE DEF w
<1>6. /\ window' \in Windows(Ids) /\ CursorsInList(window')
      /\ SameList(window', w) /\ window'.current = w.current
  BY <1>2, <1>4, <1>5, SetInsertRankWindow
<1>7. QED
  BY <1>2, <1>6 DEF SameList, StartComparing

\* The cursor moves to the next tuple.
LEMMA NextTupleWindow ==
    ASSUME TypeInv, MoveNext
    PROVE  /\ window' \in Windows(Ids) /\ CursorsInList(window')
           /\ SameList(window', window)
           /\ window'.current = window.current + 1
           /\ window.current \in Slots
<1>1. /\ window \in Windows(Ids) /\ CursorsInList(window) /\ ~tuplewindow_ateof(window)
      /\ window' = tuplewindow_movenext(window)
  BY ComparingWindow DEF MoveNext, Comparing
<1>2. window.current \in Slots
  BY <1>1 DEF Windows, CursorsInList, tuplewindow_ateof, Nil, Slots
<1>3. QED
  BY <1>1, <1>2, MoveNextWindow

\* The window with the new tuple linked in at some position.
LEMMA PutInWindowSlots ==
    ASSUME TypeInv, PutInWindow
    PROVE  /\ window' \in Windows(Ids) /\ CursorsInList(window')
           /\ \E n \in 1..Len(window.slots)+1 :
                Inserted(window.slots, window'.slots, n, slot, 0)
<1> DEFINE space == TupleSpace(input[slot])
           v == tuplewindow_puttupleslot(window, slot, 0, space)
<1>1. /\ window \in Windows(Ids) /\ CursorsInList(window) /\ tuplewindow_has_freespace(window)
      /\ slot \in Ids /\ space \in Nat /\ 0 \in Nat
  BY ComparingWindow DEF PutInWindow, Comparing, HasSpace
<1>2. window' = v
  BY DEF PutInWindow
<1> HIDE DEF space
<1>3. /\ v \in Windows(Ids) /\ CursorsInList(v)
      /\ \E n \in 1..Len(window.slots)+1 : Inserted(window.slots, v.slots, n, slot, 0)
  BY <1>1, PutWindow
<1> HIDE DEF v
<1>4. QED
  BY <1>2, <1>3

-----------------------------------------------------------------------------
(* Types. *)

LEMMA InitTypeInv == Init => TypeInv
<1> SUFFICES ASSUME Init PROVE TypeInv
  OBVIOUS
<1>1. PICK p \in Plans : /\ node = p.node
                         /\ input = p.input
                         /\ window = tuplewindow_begin(p.memory, p.slots, WindowPolicy(p))
  BY DEF Init
<1>2. p.node \in PlanNode /\ p.input \in Seq(Row(p.node))
  BY PlansAssumption
<1>3. window \in Windows(Ids) /\ CursorsInList(window) /\ Nil(window) \in Nat
  <2>1. window \in Windows(Ids) /\ CursorsInList(window)
    BY <1>1, PlanWindow, PlansAssumption
  <2>2. QED
    BY <2>1 DEF Windows, Nil
<1>4. Len(input) \in Nat /\ node \in PlanNode /\ input \in Seq(Row(node))
  BY <1>1, <1>2
<1>5. /\ outerPos = 0 /\ status = "SS_INIT" /\ source = "SS_OUTER" /\ tempIn = <<>>
      /\ tempInPos = 0 /\ tempOut = <<>> /\ timestampOut = 0 /\ slot = 0 /\ output = <<>>
  BY DEF Init
<1>6. TypeOK
  BY <1>3, <1>4, <1>5 DEF TypeOK, CursorsInList, Dangling
<1>7. QED
  BY <1>1, <1>6 DEF TypeInv, PlanChosen

\* No step changes the plan.
LEMMA PlanUnchanged == [Next]_vars => UNCHANGED plan
<1> SUFFICES ASSUME [Next]_vars PROVE UNCHANGED plan
  OBVIOUS
<1>1. UNCHANGED vars \/ UNCHANGED plan
  BY DEF Next, Start, FetchOuter, FetchTemp, Drop, MoveNext, PutInWindow, WriteToTemp,
         LastPass, NextPass, ReturnNull
<1>2. QED
  BY <1>1 DEF vars, plan

LEMMA NextTypeInv == TypeInv /\ [Next]_vars => TypeInv'
<1> SUFFICES ASSUME TypeInv, [Next]_vars PROVE TypeInv'
  OBVIOUS
<1>1. /\ node \in PlanNode /\ input \in Seq(Row(node))
      /\ outerPos \in 0..Len(input) /\ Len(input) \in Nat
      /\ status \in {"SS_INIT", "SS_PROCESS", "SS_DONE"}
      /\ source \in {"SS_OUTER", "SS_TEMP"}
      /\ tempIn \in Seq(Ids) /\ tempInPos \in 0..Len(tempIn) /\ tempOut \in Seq(Ids)
      /\ timestampOut \in Nat /\ slot \in 0..Len(input) /\ output \in Seq(Ids)
  BY DEF TypeInv, TypeOK
<1>2. node' = node /\ input' = input
  BY PlanUnchanged DEF plan
<1>3. PlanChosen' /\ Ids' = Ids
  BY <1>2 DEF TypeInv, PlanChosen, Ids
<1> DEFINE WindowOK(w, s) == /\ w \in Windows(Ids)
                             /\ w.current <= Nil(w)
                             /\ w.rankinsert \in Dangling..Nil(w)
                             /\ s # 0 => w.rankinsert # Dangling
<1>4. WindowOK(window, slot)
  BY DEF TypeInv, TypeOK
<1>5. ASSUME NEW w \in Windows(Ids), CursorsInList(w), NEW s
      PROVE  WindowOK(w, s)
  <2>1. Nil(w) \in Nat
    BY DEF Windows, Nil
  <2>2. QED
    BY <1>5, <2>1 DEF CursorsInList, Dangling
<1>6. WindowOK(window, 0)
  BY <1>4
<1> HIDE DEF WindowOK
<1>7. /\ WindowOK(window', slot')
      /\ outerPos' \in 0..Len(input)
      /\ status' \in {"SS_INIT", "SS_PROCESS", "SS_DONE"}
      /\ source' \in {"SS_OUTER", "SS_TEMP"}
      /\ tempIn' \in Seq(Ids) /\ tempInPos' \in 0..Len(tempIn') /\ tempOut' \in Seq(Ids)
      /\ timestampOut' \in Nat /\ slot' \in 0..Len(input) /\ output' \in Seq(Ids)
  <2>1. CASE Start
    BY <1>1, <1>4, <2>1 DEF Start
  <2>2. CASE FetchOuter
    <3>1. outerPos + 1 \in 1..Len(input)
      BY <1>1, <2>2 DEF FetchOuter
    <3>2. QED
      BY <1>1, <1>5, <2>2, <3>1, StartComparingWindow DEF FetchOuter, files
  <2>3. CASE FetchTemp
    <3>1. tempIn[tempInPos + 1] \in 1..Len(input)
      BY <1>1, <2>3 DEF FetchTemp, Ids
    <3>2. QED
      BY <1>1, <1>5, <2>3, <3>1, StartComparingWindow DEF FetchTemp
  <2>4. CASE Drop
    BY <1>1, <1>6, <2>4 DEF Drop, files
  <2>5. CASE MoveNext
    BY <1>1, <1>5, <2>5, NextTupleWindow DEF MoveNext, files
  <2>6. CASE PutInWindow
    <3>1. Append(output, slot) \in Seq(Ids)
      BY <1>1, <2>6, ComparingWindow DEF PutInWindow, Comparing
    <3>2. QED
      BY <1>1, <1>5, <2>6, <3>1, PutInWindowSlots DEF PutInWindow, files
  <2>7. CASE WriteToTemp
    <3>1. Append(tempOut, slot) \in Seq(Ids)
      BY <1>1, <2>7, ComparingWindow DEF WriteToTemp, Comparing
    <3>2. QED
      BY <1>1, <1>6, <2>7, <3>1 DEF WriteToTemp
  <2>8. CASE LastPass
    BY <1>1, <1>4, <2>8 DEF LastPass
  <2>9. CASE NextPass
    <3>1. window \in Windows(Ids) /\ slot = 0 /\ window' = tuplewindow_clean(window)
      BY <2>9 DEF NextPass, EndOfSource, TypeInv, TypeOK
    <3>2. /\ window' \in Windows(Ids) /\ window'.slots = <<>>
          /\ window'.current = 1 /\ window'.rankinsert \in {Dangling, 1}
      BY <3>1, CleanWindow
    <3>3. WindowOK(window', 0)
      BY <3>2 DEF WindowOK, Nil, Dangling
    <3>4. QED
      BY <1>1, <2>9, <3>1, <3>3 DEF NextPass
  <2>10. CASE ReturnNull \/ UNCHANGED vars
    BY <1>1, <1>4, <2>10 DEF ReturnNull, vars
  <2>11. QED
    BY <2>1, <2>2, <2>3, <2>4, <2>5, <2>6, <2>7, <2>8, <2>9, <2>10 DEF Next
<1>8. TypeOK'
  BY <1>1, <1>2, <1>3, <1>7 DEF TypeOK, WindowOK
<1>9. QED
  BY <1>3, <1>8 DEF TypeInv

\* The type invariant holds for every plan: the rank cursor that
\* tuplewindow_clean may leave dangling is reset before the next tuple is
\* compared with the window.
THEOREM TypeCorrect == Spec => []TypeOK
<1>1. TypeInv => TypeOK
  BY DEF TypeInv
<1>2. QED
  BY <1>1, InitTypeInv, NextTypeInv, PTL DEF Spec

-----------------------------------------------------------------------------
(* The order the query is about, on the tuples of the input. *)

\* The instance of SkylineQuery compares tuples as the executor does.
LEMMA BeatsExpanded ==
    ASSUME NEW x, NEW y
    PROVE  /\ Query!Beats(x, y) <=>
                \/ Dominates(node, input[x], input[y])
                \/ node.skyline_distinct /\ x # y /\ AllEq(node, input[x], input[y])
           /\ Query!Dominates(node, input[x], input[y]) <=> Dominates(node, input[x], input[y])
<1>1. ASSUME NEW a, NEW b
      PROVE  /\ Query!Dominates(node, a, b) <=> Dominates(node, a, b)
             /\ Query!AllEq(node, a, b) <=> AllEq(node, a, b)
  BY DEF Query!Dominates, Query!AllEq, Query!IsDominating, Query!ApplyCompare,
         Query!Columns, Query!Sign, Dominates, AllEq, IsDominating, ApplyCompare,
         Columns, Sign
<1>2. QED
  BY <1>1 DEF Query!Beats

\* Beats is irreflexive, transitive between different tuples, and symmetric
\* where it does not come from dominance.
LEMMA BeatsOrder ==
    ASSUME TypeInv, NEW x \in Ids, NEW y \in Ids, NEW z \in Ids
    PROVE  /\ ~Query!Beats(x, x)
           /\ Query!Beats(x, y) /\ Query!Beats(y, z) /\ x # z => Query!Beats(x, z)
           /\ ~Dominates(node, input[x], input[y]) /\ ~Query!Beats(y, x) => ~Query!Beats(x, y)
<1>1. /\ node \in PlanNode /\ input[x] \in Row(node)
      /\ input[y] \in Row(node) /\ input[z] \in Row(node)
  BY DEF TypeInv, TypeOK, Ids
<1>2. ~Dominates(node, input[x], input[x])
  BY <1>1, DominanceIrreflexive
<1>3. AllEq(node, input[x], input[y]) <=> AllEq(node, input[y], input[x])
  BY <1>1, DominanceMirror
<1>4. /\ Dominates(node, input[x], input[y]) /\ Dominates(node, input[y], input[z])
           => Dominates(node, input[x], input[z])
      /\ Dominates(node, input[x], input[y]) /\ AllEq(node, input[y], input[z])
           => Dominates(node, input[x], input[z])
      /\ AllEq(node, input[x], input[y]) /\ Dominates(node, input[y], input[z])
           => Dominates(node, input[x], input[z])
      /\ AllEq(node, input[x], input[y]) /\ AllEq(node, input[y], input[z])
           => AllEq(node, input[x], input[z])
  BY <1>1, DominanceTransitive
<1>5. QED
  BY <1>2, <1>3, <1>4, BeatsExpanded

\* Both are about the plan, which no step changes.
LEMMA OrderUnchanged ==
    ASSUME UNCHANGED plan
    PROVE  /\ \A x, y : Query!Beats(x, y)' <=> Query!Beats(x, y)
           /\ InputSorted' <=> InputSorted
           /\ Ids' = Ids
<1>1. node' = node /\ input' = input
  BY DEF plan
<1>2. ASSUME NEW x, NEW y PROVE Query!Beats(x, y)' <=> Query!Beats(x, y)
  BY <1>1 DEF Query!Beats, Query!Dominates, Query!AllEq, Query!IsDominating,
              Query!ApplyCompare, Query!Columns, Query!Sign
<1>3. QED
  BY <1>1, <1>2 DEF InputSorted, Ids

\* A comparison with the window tuple at the cursor decides whether it is a
\* reason not to return the tuple in slot.
LEMMA ComparisonDecides ==
    ASSUME TypeInv, Comparing, ~tuplewindow_ateof(window)
    PROVE  LET w == Tuple(window.current)
           IN  /\ window.current \in Slots /\ w \in Ids /\ slot \in Ids
               /\ w # slot /\ DropsSlot => Query!Beats(w, slot)
               /\ ~DropsSlot => ~Query!Beats(w, slot)
               /\ Cmp = "SECOND_DOMINATES" => Dominates(node, input[slot], input[w])
<1> DEFINE w == Tuple(window.current)
<1>1. window \in Windows(Ids) /\ CursorsInList(window) /\ slot \in Ids
  BY ComparingWindow DEF Comparing
<1>2. window.current \in Slots /\ window.slots \in Seq(Entries(Ids))
  BY <1>1 DEF Windows, CursorsInList, tuplewindow_ateof, Nil, Slots
<1>3. window.slots[window.current] \in Entries(Ids)
  BY <1>2 DEF Slots
<1>4. w \in Ids
  BY <1>3 DEF Entries, Tuple
<1>5. node \in PlanNode /\ input[w] \in Row(node) /\ input[slot] \in Row(node)
  BY <1>1, <1>4 DEF TypeInv, TypeOK, Ids
<1>6. Cmp = IsDominating(node, input[w], input[slot])
  BY DEF Cmp, CurrentSlot, Tuple
<1> HIDE DEF w
<1>7. Cmp = "SECOND_DOMINATES" <=> Dominates(node, input[slot], input[w])
  BY <1>5, <1>6, DominanceMirror
<1>8. /\ Cmp = "FIRST_DOMINATES" <=> Dominates(node, input[w], input[slot])
      /\ Cmp = "ALL_EQ" <=> AllEq(node, input[w], input[slot])
  BY <1>6 DEF Dominates, AllEq
<1>9. QED
  BY <1>1, <1>2, <1>4, <1>7, <1>8, BeatsExpanded DEF DropsSlot, w

-----------------------------------------------------------------------------
(* The inductive invariant, action by action. *)

IInv == TypeInv /\ SortFilterInv

\* What SortFilterInv says besides the types.
Places == PhaseInv /\ OrderInv /\ (InputSorted => ComparedInv /\ CoveredInv)

\* A query that has not read anything.
LEMMA NothingReadIInv ==
    ASSUME TypeInv, status \in {"SS_INIT", "SS_PROCESS"}, source = "SS_OUTER",
           outerPos = 0, window.slots = <<>>, tempIn = <<>>, tempInPos = 0, tempOut = <<>>,
           timestampOut = 0, slot = 0, output = <<>>
    PROVE  IInv
<1>1. /\ Filter = {} /\ Written = {} /\ UnreadTemp = {} /\ Query!Emitted = {}
      /\ UnreadOuter = Ids
  BY DEF Filter, Slots, Written, UnreadTemp, UnreadOuter, Query!Emitted, Ids
<1>2. PhaseInv
  BY <1>1 DEF PhaseInv
<1>3. OrderInv
  BY <1>1 DEF OrderInv, Increasing
<1>4. ComparedInv /\ CoveredInv
  BY <1>1 DEF ComparedInv, CoveredInv, Pending
<1>5. QED
  BY <1>2, <1>3, <1>4 DEF IInv, SortFilterInv, TypeInv

LEMMA InitIInv == Init => IInv
<1> SUFFICES ASSUME Init PROVE IInv
  OBVIOUS
<1>1. TypeInv /\ window.slots = <<>>
  BY InitTypeInv, PlanWindow, PlansAssumption DEF Init
<1>2. QED
  BY <1>1, NothingReadIInv DEF Init

\* The places a tuple can be in.
LEMMA PlaceTypes ==
    ASSUME TypeInv
    PROVE  /\ Query!Emitted \subseteq Ids /\ Pending \subseteq Ids
           /\ Filter \subseteq Ids
           /\ outerPos \in Nat /\ Len(input) \in Nat
<1>1. /\ outerPos \in 0..Len(input) /\ Len(input) \in Nat
      /\ tempIn \in Seq(Ids) /\ tempInPos \in 0..Len(tempIn) /\ tempOut \in Seq(Ids)
      /\ slot \in 0..Len(input) /\ output \in Seq(Ids)
      /\ window.slots \in Seq(Entries(Ids))
  BY DEF TypeInv, TypeOK, Windows
<1>2. Query!Emitted \subseteq Ids
  BY <1>1 DEF Query!Emitted
<1>3. Written \subseteq Ids /\ UnreadTemp \subseteq Ids /\ UnreadOuter \subseteq Ids
  <2>1. Written \subseteq Ids
    BY <1>1 DEF Written
  <2>2. ASSUME NEW q \in tempInPos+1..Len(tempIn) PROVE tempIn[q] \in Ids
    BY <1>1
  <2>3. UnreadOuter \subseteq Ids
    BY <1>1 DEF UnreadOuter, Ids
  <2>4. QED
    BY <2>1, <2>2, <2>3 DEF UnreadTemp
<1>4. slot # 0 => slot \in Ids
  BY <1>1 DEF Ids
<1>5. ASSUME NEW k \in Slots PROVE Tuple(k) \in Ids
  <2>1. window.slots[k] \in Entries(Ids)
    BY <1>1 DEF Slots
  <2>2. QED
    BY <2>1 DEF Entries, Tuple
<1>6. QED
  BY <1>1, <1>2, <1>3, <1>4, <1>5 DEF Pending, Filter

\* A step that leaves the window's list and the output alone.
LEMMA SameTuples ==
    ASSUME SameList(window', window), output' = output
    PROVE  /\ Slots' = Slots /\ Filter' = Filter /\ Query!Emitted' = Query!Emitted
           /\ \A k : Tuple(k)' = Tuple(k)
  BY DEF SameList, Slots, Filter, Tuple, Query!Emitted

LEMMA FetchOuterPlaces == IInv /\ FetchOuter => Places'
<1> SUFFICES ASSUME IInv, FetchOuter PROVE Places'
  OBVIOUS
<1>1. /\ status = "SS_PROCESS" /\ slot = 0 /\ source = "SS_OUTER"
      /\ outerPos' = outerPos + 1 /\ UNCHANGED plan /\ status' = status /\ source' = source
      /\ tempIn' = tempIn /\ tempInPos' = tempInPos /\ tempOut' = tempOut
      /\ timestampOut' = timestampOut /\ output' = output
      /\ outerPos \in 0..Len(input) /\ outerPos < Len(input) /\ Len(input) \in Nat
      /\ node' = node /\ input' = input
  BY DEF FetchOuter, IInv, TypeInv, TypeOK, files, plan
<1>2. /\ SameList(window', window) /\ window'.current = 1 /\ slot' = outerPos + 1
  <2>1. outerPos + 1 \in 1..Len(input)
    BY <1>1
  <2>2. QED
    BY <2>1, StartComparingWindow DEF IInv, FetchOuter
<1>3. /\ Slots' = Slots /\ Filter' = Filter /\ Query!Emitted' = Query!Emitted
      /\ \A k : Tuple(k)' = Tuple(k)
  BY <1>1, <1>2, SameTuples
<1>4. Written' = Written /\ UnreadTemp' = {} /\ UnreadTemp = {} /\ tempIn = <<>>
  BY <1>1 DEF Written, UnreadTemp, IInv, SortFilterInv, PhaseInv, TypeInv, TypeOK
<1>5. UnreadOuter = UnreadOuter' \cup {slot'} /\ slot' # 0
  BY <1>1, <1>2 DEF UnreadOuter
<1>6. Pending' = Pending
  BY <1>1, <1>4, <1>5 DEF Pending
<1>7. PhaseInv'
  BY <1>1, <1>2, <1>3, <1>4 DEF IInv, SortFilterInv, PhaseInv
<1>8. OrderInv'
  <2>1. /\ Increasing(output) /\ Increasing(tempOut) /\ Increasing(tempIn)
        /\ \A x \in Query!Emitted, y \in Pending : x < y
        /\ Written \subseteq 1..outerPos
        /\ tempOut # <<>> => ~tuplewindow_has_freespace(window)
    BY DEF IInv, SortFilterInv, OrderInv
  <2>2. (Increasing(output) /\ Increasing(tempOut) /\ Increasing(tempIn))'
    BY <1>1, <2>1 DEF Increasing
  <2>3. Written' \subseteq 1..outerPos'
    BY <1>1, <1>4, <2>1
  <2>4. \A x \in Written' : x < slot'
    BY <1>1, <1>2, <1>4, <2>1
  <2>5. tempOut' # <<>> => ~tuplewindow_has_freespace(window')
    BY <1>1, <1>2, <2>1, SameFreeSpace
  <2>6. slot' <= outerPos'
    BY <1>1, <1>2
  <2>7. QED
    BY <1>3, <1>4, <1>6, <2>1, <2>2, <2>3, <2>4, <2>5, <2>6 DEF OrderInv
<1>9. ASSUME InputSorted' PROVE (ComparedInv /\ CoveredInv)'
  <2>1. /\ \A x, y : Query!Beats(x, y)' <=> Query!Beats(x, y)
        /\ InputSorted' <=> InputSorted
        /\ Ids' = Ids
    BY <1>1, OrderUnchanged
  <2>2. ComparedInv /\ CoveredInv
    BY <1>9, <2>1 DEF IInv, SortFilterInv
  <2>3. Filter = Query!Emitted
    BY <1>1 DEF IInv, SortFilterInv, PhaseInv
  <2>4. \A k \in Slots : ~(k < window'.current)
    BY <1>2 DEF Slots
  <2>5. ComparedInv'
    BY <1>3, <1>4, <2>1, <2>2, <2>3, <2>4 DEF ComparedInv
  <2>6. CoveredInv'
    BY <1>3, <1>6, <2>1, <2>2 DEF CoveredInv
  <2>7. QED
    BY <2>5, <2>6
<1>10. QED
  BY <1>7, <1>8, <1>9 DEF Places

LEMMA FetchTempPlaces == IInv /\ FetchTemp => Places'
<1> SUFFICES ASSUME IInv, FetchTemp PROVE Places'
  OBVIOUS
<1>1. /\ status = "SS_PROCESS" /\ slot = 0 /\ source = "SS_TEMP"
      /\ tempInPos' = tempInPos + 1 /\ UNCHANGED plan
      /\ outerPos' = outerPos /\ status' = status /\ source' = source
      /\ tempIn' = tempIn /\ tempOut' = tempOut
      /\ timestampOut' = timestampOut /\ output' = output
      /\ tempIn \in Seq(Ids) /\ tempInPos \in 0..Len(tempIn) /\ tempInPos < Len(tempIn)
      /\ Len(tempIn) \in Nat /\ node' = node /\ input' = input
  BY DEF FetchTemp, IInv, TypeInv, TypeOK, plan
<1>2. tempIn[tempInPos + 1] \in Ids /\ tempIn[tempInPos + 1] \in 1..Len(input)
  BY <1>1 DEF Ids
<1>3. /\ SameList(window', window) /\ window'.current = 1 /\ slot' = tempIn[tempInPos + 1]
  BY <1>2, StartComparingWindow DEF IInv, FetchTemp
<1>4. /\ Slots' = Slots /\ Filter' = Filter /\ Query!Emitted' = Query!Emitted
      /\ \A k : Tuple(k)' = Tuple(k)
  BY <1>1, <1>3, SameTuples
<1>5. Written' = Written /\ UnreadOuter' = UnreadOuter
  BY <1>1 DEF Written, UnreadOuter
<1>6. UnreadTemp = UnreadTemp' \cup {slot'}
  <2>1. tempInPos+1..Len(tempIn) = (tempInPos+1+1..Len(tempIn)) \cup {tempInPos+1}
    BY <1>1
  <2>2. UnreadTemp' = {tempIn[q] : q \in tempInPos+1+1..Len(tempIn)}
    BY <1>1 DEF UnreadTemp
  <2>3. QED
    BY <1>3, <2>1, <2>2 DEF UnreadTemp
<1>7. slot' # 0
  BY <1>2, <1>3
<1>8. Pending' = Pending
  BY <1>1, <1>5, <1>6, <1>7 DEF Pending
<1>9. PhaseInv'
  BY <1>1, <1>3, <1>4 DEF IInv, SortFilterInv, PhaseInv
<1>10. OrderInv'
  <2>1. /\ Increasing(output) /\ Increasing(tempOut) /\ Increasing(tempIn)
        /\ \A x \in Query!Emitted, y \in Pending : x < y
        /\ Written \subseteq 1..outerPos
        /\ UnreadTemp \subseteq 1..outerPos
        /\ \A x \in Written, y \in UnreadTemp : x < y
        /\ tempOut # <<>> => ~tuplewindow_has_freespace(window)
    BY DEF IInv, SortFilterInv, OrderInv
  <2>2. (Increasing(output) /\ Increasing(tempOut) /\ Increasing(tempIn))'
    BY <1>1, <2>1 DEF Increasing
  <2>3. ASSUME NEW y \in UnreadTemp' PROVE slot' < y
    <3>1. PICK q \in tempInPos+1+1..Len(tempIn) : y = tempIn[q]
      BY <1>1 DEF UnreadTemp
    <3>2. q \in 1..Len(tempIn) /\ tempInPos+1 \in 1..Len(tempIn) /\ tempInPos+1 < q
      BY <1>1
    <3>3. QED
      BY <1>3, <2>1, <3>1, <3>2 DEF Increasing
  <2>4. \A x \in Written', y \in UnreadTemp' \cup ({slot'} \ {0}) : x < y
    BY <1>5, <1>6, <2>1
  <2>5. slot' <= outerPos' /\ UnreadTemp' \subseteq 1..outerPos' /\ Written' \subseteq 1..outerPos'
    <3>1. slot' \in 1..outerPos
      BY <1>6, <2>1
    <3>2. outerPos \in Nat
      BY PlaceTypes DEF IInv
    <3>3. QED
      BY <1>1, <1>5, <1>6, <2>1, <3>1, <3>2
  <2>6. tempOut' # <<>> => ~tuplewindow_has_freespace(window')
    BY <1>1, <1>3, <2>1, SameFreeSpace
  <2>7. QED
    BY <1>4, <1>8, <2>1, <2>2, <2>3, <2>4, <2>5, <2>6 DEF OrderInv
<1>11. ASSUME InputSorted' PROVE (ComparedInv /\ CoveredInv)'
  <2>1. /\ \A x, y : Query!Beats(x, y)' <=> Query!Beats(x, y)
        /\ InputSorted' <=> InputSorted
        /\ Ids' = Ids
    BY <1>1, OrderUnchanged
  <2>2. ComparedInv /\ CoveredInv
    BY <1>11, <2>1 DEF IInv, SortFilterInv
  <2>3. \A k \in Slots : ~(k < window'.current)
    BY <1>3 DEF Slots
  <2>4. ComparedInv'
    BY <1>4, <1>5, <1>8, <2>1, <2>2, <2>3 DEF ComparedInv
  <2>5. CoveredInv'
    BY <1>4, <1>8, <2>1, <2>2 DEF CoveredInv
  <2>6. QED
    BY <2>4, <2>5
<1>12. QED
  BY <1>9, <1>10, <1>11 DEF Places

\* A tuple that a window tuple beats is gone: the window tuple, which has been
\* returned, is the reason.
LEMMA DropPlaces == IInv /\ Drop => Places'
<1> SUFFICES ASSUME IInv, Drop PROVE Places'
  OBVIOUS
<1>1. /\ Comparing /\ ~tuplewindow_ateof(window) /\ DropsSlot
      /\ slot' = 0 /\ UNCHANGED plan
      /\ outerPos' = outerPos /\ status' = status /\ source' = source
      /\ tempIn' = tempIn /\ tempInPos' = tempInPos /\ tempOut' = tempOut
      /\ timestampOut' = timestampOut /\ output' = output /\ window' = window
      /\ node' = node /\ input' = input
  BY DEF Drop, files, plan
<1>2. /\ Slots' = Slots /\ Filter' = Filter /\ Query!Emitted' = Query!Emitted
      /\ \A k : Tuple(k)' = Tuple(k)
  BY <1>1, SameTuples DEF SameList
<1>3. Written' = Written /\ UnreadOuter' = UnreadOuter /\ UnreadTemp' = UnreadTemp
  BY <1>1 DEF Written, UnreadOuter, UnreadTemp
<1>4. /\ slot # 0 /\ slot \in Pending
      /\ Pending' \subseteq Pending /\ Pending \subseteq Pending' \cup {slot}
  BY <1>1, <1>3 DEF Pending, Comparing
<1>5. PhaseInv'
  BY <1>1, <1>2 DEF IInv, SortFilterInv, PhaseInv
<1>6. OrderInv'
  <2>1. /\ Increasing(output) /\ Increasing(tempOut) /\ Increasing(tempIn)
        /\ \A x \in Query!Emitted, y \in Pending : x < y
        /\ Written \subseteq 1..outerPos
        /\ UnreadTemp \subseteq 1..outerPos
        /\ \A x \in Written, y \in UnreadTemp : x < y
        /\ tempOut # <<>> => ~tuplewindow_has_freespace(window)
    BY DEF IInv, SortFilterInv, OrderInv
  <2>2. (Increasing(output) /\ Increasing(tempOut) /\ Increasing(tempIn))'
    BY <1>1, <2>1 DEF Increasing
  <2>3. slot' <= outerPos'
    BY <1>1, PlaceTypes DEF IInv
  <2>4. QED
    BY <1>1, <1>2, <1>3, <1>4, <2>1, <2>2, <2>3 DEF OrderInv
<1>7. ASSUME InputSorted' PROVE (ComparedInv /\ CoveredInv)'
  <2>1. /\ \A x, y : Query!Beats(x, y)' <=> Query!Beats(x, y)
        /\ InputSorted' <=> InputSorted
        /\ Ids' = Ids
    BY <1>1, OrderUnchanged
  <2>2. ComparedInv /\ CoveredInv
    BY <1>7, <2>1 DEF IInv, SortFilterInv
  <2>3. ComparedInv'
    BY <1>1, <1>2, <1>3, <1>4, <2>1, <2>2 DEF ComparedInv
  <2> DEFINE w == Tuple(window.current)
  <2>4. /\ window.current \in Slots /\ w \in Ids /\ slot \in Ids
        /\ w # slot => Query!Beats(w, slot)
    BY <1>1, ComparisonDecides DEF IInv
  <2>5. w \in Query!Emitted
    BY <2>4 DEF Filter, IInv, SortFilterInv, PhaseInv
  <2> HIDE DEF w
  <2>6. w # slot
    <3>1. w < slot /\ w \in Nat /\ slot \in Nat
      BY <1>4, <2>4, <2>5 DEF IInv, SortFilterInv, OrderInv, Ids
    <3>2. QED
      BY <3>1
  <2>7. CoveredInv'
    BY <1>2, <1>4, <2>1, <2>2, <2>4, <2>5, <2>6 DEF CoveredInv
  <2>8. QED
    BY <2>3, <2>7
<1>8. QED
  BY <1>5, <1>6, <1>7 DEF Places

LEMMA MoveNextPlaces == IInv /\ MoveNext => Places'
<1> SUFFICES ASSUME IInv, MoveNext PROVE Places'
  OBVIOUS
<1>1. /\ Comparing /\ ~tuplewindow_ateof(window) /\ ~DropsSlot
      /\ slot' = slot /\ UNCHANGED plan
      /\ outerPos' = outerPos /\ status' = status /\ source' = source
      /\ tempIn' = tempIn /\ tempInPos' = tempInPos /\ tempOut' = tempOut
      /\ timestampOut' = timestampOut /\ output' = output
      /\ node' = node /\ input' = input
  BY DEF MoveNext, files, plan
<1>2. SameList(window', window) /\ window'.current = window.current + 1
  BY NextTupleWindow DEF IInv
<1>3. /\ Slots' = Slots /\ Filter' = Filter /\ Query!Emitted' = Query!Emitted
      /\ \A k : Tuple(k)' = Tuple(k)
  BY <1>1, <1>2, SameTuples
<1>4. Written' = Written /\ UnreadOuter' = UnreadOuter /\ UnreadTemp' = UnreadTemp
  BY <1>1 DEF Written, UnreadOuter, UnreadTemp
<1>5. Pending' = Pending
  BY <1>1, <1>4 DEF Pending
<1>6. PhaseInv'
  BY <1>1, <1>2, <1>3 DEF IInv, SortFilterInv, PhaseInv, SameList
<1>7. OrderInv'
  <2>1. tempOut' # <<>> => ~tuplewindow_has_freespace(window')
    BY <1>1, <1>2, SameFreeSpace DEF IInv, SortFilterInv, OrderInv
  <2>2. (Increasing(output) /\ Increasing(tempOut) /\ Increasing(tempIn))'
    BY <1>1 DEF Increasing, IInv, SortFilterInv, OrderInv
  <2>3. QED
    BY <1>1, <1>3, <1>4, <1>5, <2>1, <2>2 DEF OrderInv, IInv, SortFilterInv
<1>8. ASSUME InputSorted' PROVE (ComparedInv /\ CoveredInv)'
  <2>1. /\ \A x, y : Query!Beats(x, y)' <=> Query!Beats(x, y)
        /\ InputSorted' <=> InputSorted
        /\ Ids' = Ids
    BY <1>1, OrderUnchanged
  <2>2. ComparedInv /\ CoveredInv
    BY <1>8, <2>1 DEF IInv, SortFilterInv
  <2>3. window.current \in Slots /\ ~Query!Beats(Tuple(window.current), slot)
    BY <1>1, ComparisonDecides DEF IInv
  <2>4. \A k \in Slots : k < window'.current => k < window.current \/ k = window.current
    BY <1>2, <2>3 DEF Slots
  <2>5. ComparedInv'
    BY <1>1, <1>3, <1>4, <1>5, <2>1, <2>2, <2>3, <2>4 DEF ComparedInv
  <2>6. CoveredInv'
    BY <1>3, <1>5, <2>1, <2>2 DEF CoveredInv
  <2>7. QED
    BY <2>5, <2>6
<1>9. QED
  BY <1>6, <1>7, <1>8 DEF Places

\* A sequence with an element appended that is greater than all others.
LEMMA AppendIncreasing ==
    ASSUME NEW s \in Seq(Nat), NEW e \in Nat,
           Increasing(s), \A q \in 1..Len(s) : s[q] < e
    PROVE  /\ Increasing(Append(s, e))
           /\ {Append(s, e)[q] : q \in 1..Len(Append(s, e))} = {s[q] : q \in 1..Len(s)} \cup {e}
<1> DEFINE t == Append(s, e)
<1>1. /\ Len(s) \in Nat /\ Len(t) = Len(s) + 1 /\ t[Len(s)+1] = e
      /\ \A q \in 1..Len(s) : t[q] = s[q]
  OBVIOUS
<1> HIDE DEF t
<1>2. /\ 1..Len(s)+1 = 1..Len(s) \cup {Len(s)+1}
      /\ \A q \in 1..Len(s)+1 : q \in 1..Len(s) \/ q = Len(s)+1
  BY <1>1
<1>3. {t[q] : q \in 1..Len(t)} = {s[q] : q \in 1..Len(s)} \cup {e}
  BY <1>1, <1>2
<1>4. ASSUME NEW q \in 1..Len(t), NEW r \in 1..Len(t), q < r
      PROVE  t[q] < t[r]
  <2>1. q \in 1..Len(s) /\ (r \in 1..Len(s) \/ r = Len(s)+1)
    BY <1>1, <1>4
  <2>2. QED
    BY <1>1, <1>4, <2>1 DEF Increasing
<1>5. QED
  BY <1>3, <1>4 DEF Increasing, t

\* The tuple in slot comes before all others that are pending when the window
\* has space: nothing has been written in this pass.
LEMMA SlotIsFirst ==
    ASSUME IInv, PutInWindow
    PROVE  /\ slot # 0 /\ slot \in Pending /\ slot \in Ids
           /\ Written = {} /\ tempOut = <<>>
           /\ \A x \in Query!Emitted : x < slot
           /\ \A y \in Pending : y = slot \/ slot < y
           /\ slot \in Pending \ UnreadOuter
<1>1. slot # 0 /\ slot \in Pending /\ slot \in Ids /\ tuplewindow_has_freespace(window)
  BY ComparingWindow DEF PutInWindow, Comparing, Pending, HasSpace, IInv
<1>2. tempOut = <<>>
  BY <1>1 DEF IInv, SortFilterInv, OrderInv
<1>3. Written = {}
  BY <1>2 DEF Written
<1>4. \A x \in Query!Emitted : x < slot
  BY <1>1 DEF IInv, SortFilterInv, OrderInv
<1>5. slot <= outerPos /\ outerPos \in Nat /\ \A y \in UnreadTemp : slot < y
  BY <1>1, PlaceTypes DEF IInv, SortFilterInv, OrderInv
<1>6. \A y \in UnreadOuter : slot < y
  BY <1>1, <1>5 DEF UnreadOuter, Ids
<1>7. slot \notin UnreadOuter
  BY <1>1, <1>6 DEF Ids
<1>8. QED
  BY <1>1, <1>2, <1>3, <1>4, <1>5, <1>6, <1>7 DEF Pending

\* No tuple that has been returned beats the one that is going to be.
LEMMA SlotUnbeaten ==
    ASSUME IInv, Comparing, tuplewindow_ateof(window), InputSorted
    PROVE  \A k \in Slots : ~Query!Beats(Tuple(k), slot)
<1>1. /\ ComparedInv /\ slot # 0
      /\ window \in Windows(Ids)
  BY DEF IInv, SortFilterInv, Comparing, TypeInv, TypeOK
<1>2. \A k \in Slots : k < window.current
  BY <1>1 DEF tuplewindow_ateof, Nil, Slots, Windows
<1>3. QED
  BY <1>1, <1>2 DEF ComparedInv

LEMMA EmittedUnbeating ==
    ASSUME IInv, PutInWindow, InputSorted, NEW x \in Query!Emitted
    PROVE  ~Query!Beats(x, slot) /\ ~Query!Beats(slot, x)
<1>1. /\ slot \in Pending \ UnreadOuter /\ slot \in Ids /\ x \in Ids /\ x < slot
      /\ ComparedInv
  BY SlotIsFirst, PlaceTypes DEF IInv, SortFilterInv
<1>2. x \in Filter => ~Query!Beats(x, slot)
  BY SlotUnbeaten DEF Filter, PutInWindow
<1>3. x \notin Filter => ~Query!Beats(x, slot)
  BY <1>1 DEF ComparedInv
<1>4. ~Dominates(node, input[slot], input[x])
  BY <1>1 DEF InputSorted
<1>5. QED
  BY <1>1, <1>2, <1>3, <1>4, BeatsOrder DEF IInv

\* The tuple in slot is returned and becomes a filter.
LEMMA PutInWindowSets ==
    ASSUME IInv, PutInWindow
    PROVE  /\ slot' = 0 /\ UNCHANGED plan
           /\ outerPos' = outerPos /\ status' = status /\ source' = source
           /\ tempIn' = tempIn /\ tempOut' = tempOut /\ timestampOut' = timestampOut
           /\ Filter' = Filter \cup {slot}
           /\ Query!Emitted' = Query!Emitted \cup {slot}
           /\ Increasing(output)'
           /\ Written' = Written /\ UnreadOuter' = UnreadOuter /\ UnreadTemp' = UnreadTemp
           /\ Pending' = Pending \ {slot}
<1>1. /\ slot' = 0 /\ UNCHANGED plan
      /\ outerPos' = outerPos /\ status' = status /\ source' = source
      /\ tempIn' = tempIn /\ tempInPos' = tempInPos /\ tempOut' = tempOut
      /\ timestampOut' = timestampOut /\ output' = Append(output, slot)
      /\ input' = input
  BY DEF PutInWindow, files, plan
<1>2. Filter' = Filter \cup {slot}
  <2>1. Len(window.slots) \in Nat
    BY DEF IInv, TypeInv, TypeOK, Windows
  <2>2. PICK n \in 1..Len(window.slots)+1 : Inserted(window.slots, window'.slots, n, slot, 0)
    BY PutInWindowSlots DEF IInv
  <2>3. /\ Len(window'.slots) = Len(window.slots) + 1 /\ window'.slots[n].tuple = slot
        /\ \A k \in 1..Len(window.slots)+1 :
             k # n => window'.slots[k] = window.slots[IF k < n THEN k ELSE k-1]
    BY <2>2 DEF Inserted
  <2>4. ASSUME NEW k \in 1..Len(window.slots)+1, k # n
        PROVE  window'.slots[k].tuple \in Filter
    <3>1. (IF k < n THEN k ELSE k-1) \in 1..Len(window.slots)
      BY <2>1, <2>4
    <3>2. QED
      BY <2>3, <2>4, <3>1 DEF Filter, Slots, Tuple
  <2>5. ASSUME NEW k \in 1..Len(window.slots)
        PROVE  \E m \in 1..Len(window.slots)+1 : window'.slots[m] = window.slots[k]
    <3> DEFINE m == IF k < n THEN k ELSE k+1
    <3>1. /\ m \in 1..Len(window.slots)+1 /\ m # n
          /\ (IF m < n THEN m ELSE m-1) = k
      BY <2>1
    <3> HIDE DEF m
    <3>2. QED
      BY <2>3, <3>1
  <2>6. Filter' = {window'.slots[m].tuple : m \in 1..Len(window.slots)+1}
    BY <2>3 DEF Filter, Slots, Tuple
  <2>7. Filter' \subseteq Filter \cup {slot}
    BY <2>3, <2>4, <2>6
  <2>8. Filter \subseteq Filter'
    BY <2>5, <2>6 DEF Filter, Slots, Tuple
  <2>9. slot \in Filter'
    BY <2>3, <2>6
  <2>10. QED
    BY <2>7, <2>8, <2>9
<1>3. Query!Emitted' = Query!Emitted \cup {slot} /\ Increasing(output)'
  <2>1. output \in Seq(Nat) /\ slot \in Nat
    BY SlotIsFirst DEF IInv, TypeInv, TypeOK, Ids
  <2>2. Increasing(output) /\ \A q \in 1..Len(output) : output[q] < slot
    BY SlotIsFirst DEF Query!Emitted, IInv, SortFilterInv, OrderInv
  <2>3. /\ Increasing(Append(output, slot))
        /\ {Append(output, slot)[q] : q \in 1..Len(Append(output, slot))} =
              {output[q] : q \in 1..Len(output)} \cup {slot}
    BY <2>1, <2>2, AppendIncreasing
  <2>4. QED
    BY <1>1, <2>3 DEF Query!Emitted, Increasing
<1>4. Written' = Written /\ UnreadOuter' = UnreadOuter /\ UnreadTemp' = UnreadTemp
  BY <1>1 DEF Written, UnreadOuter, UnreadTemp
<1>5. Pending' = Pending \ {slot}
  <2>1. slot # 0 /\ slot \notin Written /\ slot \notin UnreadOuter
    BY SlotIsFirst DEF Pending
  <2>2. slot \notin UnreadTemp
    <3>1. \A y \in UnreadTemp : slot < y
      BY <2>1 DEF IInv, SortFilterInv, OrderInv
    <3>2. slot \in Nat
      BY SlotIsFirst DEF Ids
    <3>3. QED
      BY <3>1, <3>2
  <2>3. QED
    BY <1>1, <1>4, <2>1, <2>2 DEF Pending
<1>6. QED
  BY <1>1, <1>2, <1>3, <1>4, <1>5

LEMMA PutInWindowPlaces == IInv /\ PutInWindow => Places'
<1> SUFFICES ASSUME IInv, PutInWindow PROVE Places'
  OBVIOUS
<1>1. /\ slot' = 0 /\ UNCHANGED plan
      /\ outerPos' = outerPos /\ status' = status /\ source' = source
      /\ tempIn' = tempIn /\ tempOut' = tempOut /\ timestampOut' = timestampOut
      /\ Filter' = Filter \cup {slot}
      /\ Query!Emitted' = Query!Emitted \cup {slot}
      /\ Increasing(output)'
      /\ Written' = Written /\ UnreadOuter' = UnreadOuter /\ UnreadTemp' = UnreadTemp
      /\ Pending' = Pending \ {slot}
  BY PutInWindowSets
<1>2. /\ slot \in Ids /\ slot \in Pending /\ Written = {} /\ tempOut = <<>>
      /\ \A x \in Query!Emitted : x < slot
      /\ \A y \in Pending : y = slot \/ slot < y
      /\ status = "SS_PROCESS" /\ input' = input
  BY <1>1, SlotIsFirst DEF PutInWindow, Comparing, plan
<1>3. PhaseInv'
  BY <1>1, <1>2 DEF IInv, SortFilterInv, PhaseInv
<1>4. OrderInv'
  <2>1. /\ \A x \in Query!Emitted, y \in Pending : x < y
        /\ UnreadTemp \subseteq 1..outerPos
        /\ Increasing(tempOut) /\ Increasing(tempIn)
        /\ outerPos \in Nat
    BY PlaceTypes DEF IInv, SortFilterInv, OrderInv
  <2>2. \A x \in Query!Emitted', y \in Pending' : x < y
    BY <1>1, <1>2, <2>1
  <2>3. (Increasing(tempOut) /\ Increasing(tempIn))'
    BY <1>1, <2>1 DEF Increasing
  <2>4. QED
    BY <1>1, <1>2, <2>1, <2>2, <2>3 DEF OrderInv
<1>5. ASSUME InputSorted' PROVE (ComparedInv /\ CoveredInv)'
  <2>1. /\ \A x, y : Query!Beats(x, y)' <=> Query!Beats(x, y)
        /\ InputSorted' <=> InputSorted
        /\ Ids' = Ids
    BY <1>1, OrderUnchanged
  <2>2. InputSorted /\ ComparedInv /\ CoveredInv
    BY <1>5, <2>1 DEF IInv, SortFilterInv
  <2>3. \A x, y \in Query!Emitted' : ~Query!Beats(x, y)
    <3>1. \A x \in Query!Emitted : ~Query!Beats(x, slot) /\ ~Query!Beats(slot, x)
      BY <2>2, EmittedUnbeating
    <3>2. ~Query!Beats(slot, slot)
      BY <1>2, BeatsOrder DEF IInv
    <3>3. QED
      BY <1>1, <2>2, <3>1, <3>2 DEF ComparedInv
  <2>4. ComparedInv'
    BY <1>1, <1>2, <2>1, <2>2, <2>3 DEF ComparedInv
  <2>5. CoveredInv'
    BY <1>1, <2>1, <2>2 DEF CoveredInv
  <2>6. QED
    BY <2>4, <2>5
<1>6. QED
  BY <1>3, <1>4, <1>5 DEF Places

LEMMA WriteToTempPlaces == IInv /\ WriteToTemp => Places'
<1> SUFFICES ASSUME IInv, WriteToTemp PROVE Places'
  OBVIOUS
<1>1. /\ slot' = 0 /\ UNCHANGED plan
      /\ outerPos' = outerPos /\ status' = status /\ source' = source /\ status = "SS_PROCESS"
      /\ tempIn' = tempIn /\ tempInPos' = tempInPos /\ tempOut' = Append(tempOut, slot)
      /\ timestampOut' = timestampOut + 1 /\ output' = output /\ window' = window
      /\ Comparing /\ tuplewindow_ateof(window) /\ ~tuplewindow_has_freespace(window)
      /\ node' = node /\ input' = input
  BY DEF WriteToTemp, Comparing, HasSpace, plan
<1>2. /\ slot # 0 /\ slot \in Ids /\ slot \in Nat /\ slot \in 1..outerPos
      /\ tempOut \in Seq(Nat) /\ outerPos \in Nat
  <2>1. slot # 0 /\ slot \in Ids /\ slot <= outerPos /\ outerPos \in Nat /\ tempOut \in Seq(Ids)
    BY <1>1, ComparingWindow, PlaceTypes
       DEF Comparing, IInv, SortFilterInv, OrderInv, TypeInv, TypeOK
  <2>2. QED
    BY <2>1 DEF Ids
<1>3. /\ Slots' = Slots /\ Filter' = Filter /\ Query!Emitted' = Query!Emitted
      /\ \A k : Tuple(k)' = Tuple(k)
  BY <1>1, SameTuples DEF SameList
<1>4. UnreadOuter' = UnreadOuter /\ UnreadTemp' = UnreadTemp
  BY <1>1 DEF UnreadOuter, UnreadTemp
<1>5. Written' = Written \cup {slot} /\ Increasing(tempOut)'
  <2>1. Increasing(tempOut) /\ \A q \in 1..Len(tempOut) : tempOut[q] < slot
    BY <1>2 DEF IInv, SortFilterInv, OrderInv, Written
  <2>2. /\ Increasing(Append(tempOut, slot))
        /\ {Append(tempOut, slot)[q] : q \in 1..Len(Append(tempOut, slot))} =
              {tempOut[q] : q \in 1..Len(tempOut)} \cup {slot}
    BY <1>2, <2>1, AppendIncreasing
  <2>3. QED
    BY <1>1, <2>2 DEF Written, Increasing
<1>6. Pending' = Pending
  BY <1>1, <1>2, <1>4, <1>5 DEF Pending
<1>7. PhaseInv'
  <2>1. Len(tempOut') = Len(tempOut) + 1
    BY <1>1, <1>2
  <2>2. QED
    BY <1>1, <1>2, <1>3, <2>1 DEF IInv, SortFilterInv, PhaseInv
<1>8. OrderInv'
  <2>1. (Increasing(output) /\ Increasing(tempIn))'
    BY <1>1 DEF Increasing, IInv, SortFilterInv, OrderInv
  <2>2. /\ \A x \in Query!Emitted, y \in Pending : x < y
        /\ Written \subseteq 1..outerPos
        /\ UnreadTemp \subseteq 1..outerPos
        /\ \A x \in Written, y \in UnreadTemp : x < y
        /\ \A y \in UnreadTemp : slot < y
    BY <1>2 DEF IInv, SortFilterInv, OrderInv
  <2>3. QED
    BY <1>1, <1>2, <1>3, <1>4, <1>5, <1>6, <2>1, <2>2 DEF OrderInv
<1>9. ASSUME InputSorted' PROVE (ComparedInv /\ CoveredInv)'
  <2>1. /\ \A x, y : Query!Beats(x, y)' <=> Query!Beats(x, y)
        /\ InputSorted' <=> InputSorted
        /\ Ids' = Ids
    BY <1>1, OrderUnchanged
  <2>2. InputSorted /\ ComparedInv /\ CoveredInv
    BY <1>9, <2>1 DEF IInv, SortFilterInv
  <2>3. \A x \in Filter : ~Query!Beats(x, slot)
    BY <1>1, <2>2, SlotUnbeaten DEF Filter
  <2>4. ComparedInv'
    BY <1>1, <1>3, <1>4, <1>5, <1>6, <2>1, <2>2, <2>3 DEF ComparedInv
  <2>5. CoveredInv'
    BY <1>3, <1>6, <2>1, <2>2 DEF CoveredInv
  <2>6. QED
    BY <2>4, <2>5
<1>10. QED
  BY <1>7, <1>8, <1>9 DEF Places

\* At the end of its source a pass has read everything there is to read.
LEMMA SourceExhausted ==
    ASSUME IInv, EndOfSource
    PROVE  /\ slot = 0 /\ status = "SS_PROCESS" /\ outerPos = Len(input)
           /\ UnreadTemp = {} /\ UnreadOuter = {}
           /\ Pending = Written
<1>1. /\ slot = 0 /\ status = "SS_PROCESS" /\ outerPos = Len(input)
      /\ tempInPos = Len(tempIn) \/ tempIn = <<>>
  BY DEF EndOfSource, IInv, SortFilterInv, PhaseInv, TypeInv, TypeOK
<1>2. tempInPos+1..Len(tempIn) = {} /\ outerPos+1..Len(input) = {}
  BY <1>1 DEF IInv, TypeInv, TypeOK
<1>3. UnreadTemp = {} /\ UnreadOuter = {}
  BY <1>2 DEF UnreadTemp, UnreadOuter
<1>4. QED
  BY <1>1, <1>3 DEF Pending

LEMMA LastPassPlaces == IInv /\ LastPass => Places'
<1> SUFFICES ASSUME IInv, LastPass PROVE Places'
  OBVIOUS
<1>1. /\ EndOfSource /\ timestampOut = 0 /\ status' = "SS_DONE" /\ UNCHANGED plan
      /\ tempIn' = <<>> /\ tempInPos' = 0 /\ tempOut' = <<>>
      /\ outerPos' = outerPos /\ source' = source /\ window' = window
      /\ timestampOut' = timestampOut /\ slot' = slot /\ output' = output
      /\ node' = node /\ input' = input
  BY DEF LastPass, plan
<1>2. /\ Slots' = Slots /\ Filter' = Filter /\ Query!Emitted' = Query!Emitted
      /\ \A k : Tuple(k)' = Tuple(k)
  BY <1>1, SameTuples DEF SameList
<1>3. /\ slot = 0 /\ status = "SS_PROCESS" /\ outerPos = Len(input)
      /\ UnreadTemp = {} /\ UnreadOuter = {} /\ Pending = Written
  BY <1>1, SourceExhausted
<1>4. Written = {}
  <2>1. Len(tempOut) = 0
    BY <1>1 DEF IInv, SortFilterInv, PhaseInv
  <2>2. QED
    BY <2>1 DEF Written
<1>5. Written' = {} /\ UnreadTemp' = {} /\ UnreadOuter' = {} /\ Pending' = {}
  BY <1>1, <1>3 DEF Written, UnreadTemp, UnreadOuter, Pending
<1>6. PhaseInv'
  BY <1>1, <1>2, <1>3 DEF IInv, SortFilterInv, PhaseInv
<1>7. OrderInv'
  <2>1. (Increasing(output) /\ Increasing(tempOut) /\ Increasing(tempIn))'
    BY <1>1 DEF Increasing, IInv, SortFilterInv, OrderInv
  <2>2. slot' <= outerPos'
    BY <1>1, <1>3, PlaceTypes DEF IInv
  <2>3. QED
    BY <1>1, <1>3, <1>5, <2>1, <2>2 DEF OrderInv
<1>8. ASSUME InputSorted' PROVE (ComparedInv /\ CoveredInv)'
  <2>1. /\ \A x, y : Query!Beats(x, y)' <=> Query!Beats(x, y)
        /\ InputSorted' <=> InputSorted
        /\ Ids' = Ids
    BY <1>1, OrderUnchanged
  <2>2. ComparedInv /\ CoveredInv
    BY <1>8, <2>1 DEF IInv, SortFilterInv
  <2>3. ComparedInv'
    BY <1>1, <1>2, <1>3, <1>5, <2>1, <2>2 DEF ComparedInv
  <2>4. CoveredInv'
    BY <1>2, <1>3, <1>4, <1>5, <2>1, <2>2 DEF CoveredInv
  <2>5. QED
    BY <2>3, <2>4
<1>9. QED
  BY <1>6, <1>7, <1>8 DEF Places

\* The next pass reads what this one has written; its tuples have been compared
\* with those that leave the window.
LEMMA NextPassPlaces == IInv /\ NextPass => Places'
<1> SUFFICES ASSUME IInv, NextPass PROVE Places'
  OBVIOUS
<1>1. /\ EndOfSource /\ status' = status /\ UNCHANGED plan /\ source' = "SS_TEMP"
      /\ tempIn' = tempOut /\ tempInPos' = 0 /\ tempOut' = <<>>
      /\ outerPos' = outerPos /\ window' = tuplewindow_clean(window)
      /\ timestampOut' = 0 /\ slot' = slot /\ output' = output
      /\ node' = node /\ input' = input
  BY DEF NextPass, plan
<1>2. /\ slot = 0 /\ status = "SS_PROCESS" /\ outerPos = Len(input)
      /\ UnreadTemp = {} /\ UnreadOuter = {} /\ Pending = Written
  BY <1>1, SourceExhausted
<1>3. window'.slots = <<>>
  <2>1. window \in Windows(Ids)
    BY DEF IInv, TypeInv, TypeOK
  <2>2. QED
    BY <1>1, <2>1, CleanWindow
<1>4. Slots' = {} /\ Filter' = {} /\ Query!Emitted' = Query!Emitted
  BY <1>1, <1>3 DEF Slots, Filter, Query!Emitted
<1>5. Written' = {} /\ UnreadOuter' = {} /\ UnreadTemp' = Written
  <2>1. 0+1..Len(tempOut) = 1..Len(tempOut)
    OBVIOUS
  <2>2. QED
    BY <1>1, <1>2, <2>1 DEF Written, UnreadOuter, UnreadTemp
<1>6. Pending' = Pending
  BY <1>1, <1>2, <1>5 DEF Pending
<1>7. PhaseInv'
  BY <1>1, <1>2, <1>4 DEF IInv, SortFilterInv, PhaseInv
<1>8. OrderInv'
  <2>1. (Increasing(output) /\ Increasing(tempOut) /\ Increasing(tempIn))'
    BY <1>1 DEF Increasing, IInv, SortFilterInv, OrderInv
  <2>2. slot' <= outerPos'
    BY <1>1, <1>2, PlaceTypes DEF IInv
  <2>3. /\ \A x \in Query!Emitted, y \in Pending : x < y
        /\ Written \subseteq 1..outerPos
    BY DEF IInv, SortFilterInv, OrderInv
  <2>4. QED
    BY <1>1, <1>2, <1>4, <1>5, <1>6, <2>1, <2>2, <2>3 DEF OrderInv
<1>9. ASSUME InputSorted' PROVE (ComparedInv /\ CoveredInv)'
  <2>1. /\ \A x, y : Query!Beats(x, y)' <=> Query!Beats(x, y)
        /\ InputSorted' <=> InputSorted
        /\ Ids' = Ids
    BY <1>1, OrderUnchanged
  <2>2. ComparedInv /\ CoveredInv
    BY <1>9, <2>1 DEF IInv, SortFilterInv
  <2>3. \A x \in Query!Emitted, y \in Written : ~Query!Beats(x, y)
    BY <1>2, <2>2 DEF ComparedInv
  <2>4. ComparedInv'
    BY <1>1, <1>2, <1>4, <1>5, <1>6, <2>1, <2>2, <2>3 DEF ComparedInv
  <2>5. CoveredInv'
    BY <1>4, <1>6, <2>1, <2>2 DEF CoveredInv
  <2>6. QED
    BY <2>4, <2>5
<1>10. QED
  BY <1>7, <1>8, <1>9 DEF Places

LEMMA StartPlaces == IInv /\ Start => Places'
<1> SUFFICES ASSUME IInv, Start PROVE Places'
  OBVIOUS
<1>1. /\ status = "SS_INIT" /\ status' = "SS_PROCESS" /\ UNCHANGED plan
      /\ source' = "SS_OUTER" /\ tempIn' = <<>> /\ tempInPos' = 0 /\ tempOut' = <<>>
      /\ timestampOut' = 0 /\ outerPos' = outerPos /\ window' = window
      /\ slot' = slot /\ output' = output /\ node' = node /\ input' = input
  BY DEF Start, plan
<1>2. outerPos = 0 /\ window.slots = <<>> /\ output = <<>> /\ slot = 0
  BY <1>1 DEF IInv, SortFilterInv, PhaseInv
<1>3. /\ Filter' = {} /\ Written' = {} /\ UnreadTemp' = {} /\ Query!Emitted' = {}
      /\ UnreadOuter' = Ids' /\ Slots' = {}
  BY <1>1, <1>2 DEF Filter, Slots, Written, UnreadTemp, UnreadOuter, Query!Emitted, Ids
<1>4. PhaseInv'
  BY <1>1, <1>2, <1>3 DEF PhaseInv
<1>5. OrderInv'
  BY <1>1, <1>2, <1>3 DEF OrderInv, Increasing
<1>6. (ComparedInv /\ CoveredInv)'
  BY <1>1, <1>2, <1>3 DEF ComparedInv, CoveredInv, Pending
<1>7. QED
  BY <1>4, <1>5, <1>6 DEF Places

LEMMA StutterPlaces == IInv /\ UNCHANGED vars => Places'
<1> SUFFICES ASSUME IInv, UNCHANGED vars PROVE Places'
  OBVIOUS
<1>1. /\ UNCHANGED plan /\ status' = status /\ source' = source
      /\ tempIn' = tempIn /\ tempInPos' = tempInPos /\ tempOut' = tempOut
      /\ timestampOut' = timestampOut /\ outerPos' = outerPos /\ window' = window
      /\ slot' = slot /\ output' = output /\ node' = node /\ input' = input
  BY DEF vars, plan
<1>2. /\ Slots' = Slots /\ Filter' = Filter /\ Query!Emitted' = Query!Emitted
      /\ \A k : Tuple(k)' = Tuple(k)
  BY <1>1, SameTuples DEF SameList
<1>3. /\ Written' = Written /\ UnreadOuter' = UnreadOuter /\ UnreadTemp' = UnreadTemp
  BY <1>1 DEF Written, UnreadOuter, UnreadTemp
<1>4. Pending' = Pending
  BY <1>1, <1>3 DEF Pending
<1>5. PhaseInv'
  BY <1>1, <1>2 DEF IInv, SortFilterInv, PhaseInv
<1>6. OrderInv'
  <2>1. (Increasing(output) /\ Increasing(tempOut) /\ Increasing(tempIn))'
    BY <1>1 DEF Increasing, IInv, SortFilterInv, OrderInv
  <2>2. QED
    BY <1>1, <1>2, <1>3, <1>4, <2>1 DEF OrderInv, IInv, SortFilterInv
<1>7. ASSUME InputSorted' PROVE (ComparedInv /\ CoveredInv)'
  <2>1. /\ \A x, y : Query!Beats(x, y)' <=> Query!Beats(x, y)
        /\ InputSorted' <=> InputSorted
        /\ Ids' = Ids
    BY <1>1, OrderUnchanged
  <2>2. ComparedInv /\ CoveredInv
    BY <1>7, <2>1 DEF IInv, SortFilterInv
  <2>3. ComparedInv'
    BY <1>1, <1>2, <1>3, <1>4, <2>1, <2>2 DEF ComparedInv
  <2>4. CoveredInv'
    BY <1>2, <1>4, <2>1, <2>2 DEF CoveredInv
  <2>5. QED
    BY <2>3, <2>4
<1>8. QED
  BY <1>5, <1>6, <1>7 DEF Places

\* SortFilterInv is inductive.
LEMMA NextIInv == IInv /\ [Next]_vars => IInv'
<1> SUFFICES ASSUME IInv, [Next]_vars PROVE IInv'
  OBVIOUS
<1>1. TypeInv'
  BY NextTypeInv DEF IInv
<1>2. Places'
  <2>1. CASE Start
    BY <2>1, StartPlaces
  <2>2. CASE FetchOuter
    BY <2>2, FetchOuterPlaces
  <2>3. CASE FetchTemp
    BY <2>3, FetchTempPlaces
  <2>4. CASE Drop
    BY <2>4, DropPlaces
  <2>5. CASE MoveNext
    BY <2>5, MoveNextPlaces
  <2>6. CASE PutInWindow
    BY <2>6, PutInWindowPlaces
  <2>7. CASE WriteToTemp
    BY <2>7, WriteToTempPlaces
  <2>8. CASE LastPass
    BY <2>8, LastPassPlaces
  <2>9. CASE NextPass
    BY <2>9, NextPassPlaces
  <2>10. CASE ReturnNull \/ UNCHANGED vars
    BY <2>10, StutterPlaces DEF ReturnNull
  <2>11. QED
    BY <2>1, <2>2, <2>3, <2>4, <2>5, <2>6, <2>7, <2>8, <2>9, <2>10 DEF Next
<1>3. QED
  BY <1>1, <1>2 DEF IInv, SortFilterInv, Places, TypeInv

\* SortFilterInv holds for every plan: the tuples wait in the order of the
\* input, and on a sorted input those returned have been compared with all
\* that are left.
THEOREM SortFilterInvCorrect == Spec => []SortFilterInv
<1>1. IInv => SortFilterInv
  BY DEF IInv
<1>2. QED
  BY <1>1, InitIInv, NextIInv, PTL DEF Spec

\* The inductive invariant implies it.
LEMMA NeverDominated == IInv => WindowNeverDominated
<1> SUFFICES ASSUME IInv, InputSorted, Comparing, ~tuplewindow_ateof(window),
                    Cmp = "SECOND_DOMINATES"
             PROVE  FALSE
  BY DEF WindowNeverDominated
<1> DEFINE w == Tuple(window.current)
<1>1. /\ window.current \in Slots /\ w \in Ids /\ slot \in Ids
      /\ Dominates(node, input[slot], input[w])
  BY ComparisonDecides DEF IInv
<1>2. w \in Query!Emitted /\ slot \in Pending
  BY <1>1 DEF Filter, IInv, SortFilterInv, PhaseInv, Pending, Comparing
<1> HIDE DEF w
<1>3. w < slot
  BY <1>2 DEF IInv, SortFilterInv, OrderInv
<1>4. QED
  BY <1>1, <1>3 DEF InputSorted

\* The assertion that the tuple from the outer plan does not dominate a window
\* tuple (nodeSkyline.c 1246) holds for every plan with a sorted input.
THEOREM WindowNeverDominatedCorrect == Spec => []WindowNeverDominated
  BY NeverDominated, InitIInv, NextIInv, PTL DEF Spec

-----------------------------------------------------------------------------
(* The refinement. *)

\* A tuple that is returned is in the skyline: what could dominate it comes
\* before it in the input, and has been returned or eliminated.
LEMMA EmitsSkyline ==
    ASSUME IInv, PutInWindow, InputSorted
    PROVE  Query!Emit(slot) /\ slot \in Query!Ids
<1>1. /\ slot \in Ids /\ slot \in Pending
      /\ \A x \in Query!Emitted : x < slot
      /\ \A y \in Pending : y = slot \/ slot < y
  BY SlotIsFirst
<1>2. \A x \in Query!Emitted : ~Query!Beats(x, slot)
  BY EmittedUnbeating
<1>3. slot \notin Query!Emitted
  BY <1>1 DEF Ids
<1>4. ASSUME NEW j \in Ids, Dominates(node, input[j], input[slot])
      PROVE  FALSE
  <2>1. Query!Beats(j, slot)
    BY <1>4, BeatsExpanded
  <2>2. CASE j \in Query!Emitted
    BY <1>2, <2>1, <2>2
  <2>3. CASE j \in Pending
    <3>1. j # slot
      BY <1>1, <2>1, BeatsOrder DEF IInv
    <3>2. slot < j
      BY <1>1, <2>3, <3>1
    <3>3. QED
      BY <1>1, <1>4, <3>2 DEF InputSorted
  <2>4. CASE \E k \in Query!Emitted : Query!Beats(k, j)
    <3>1. PICK k \in Query!Emitted : Query!Beats(k, j)
      BY <2>4
    <3>2. k \in Ids /\ k # slot
      BY <1>3, PlaceTypes DEF IInv
    <3>3. Query!Beats(k, slot)
      BY <1>1, <2>1, <3>1, <3>2, BeatsOrder DEF IInv
    <3>4. QED
      BY <1>2, <3>3
  <2>5. QED
    BY <2>2, <2>3, <2>4 DEF IInv, SortFilterInv, CoveredInv
<1>5. Query!InSkyline(slot)
  BY <1>4, BeatsExpanded DEF Query!InSkyline, Query!Ids, Ids
<1>6. /\ status = "SS_PROCESS" /\ status' = status /\ output' = Append(output, slot)
      /\ UNCHANGED <<node, input>>
  BY DEF PutInWindow, Comparing, plan
<1>7. QED
  BY <1>1, <1>2, <1>3, <1>5, <1>6 DEF Query!Emit, Query!MayEmit, Query!Ids, Ids

\* When the node returns NULL the query has no tuple left to return.
LEMMA FinishesQuery ==
    ASSUME IInv, LastPass, InputSorted
    PROVE  Query!Finish
<1>1. /\ EndOfSource /\ timestampOut = 0 /\ status' = "SS_DONE"
      /\ UNCHANGED <<node, input, output>>
  BY DEF LastPass, plan
<1>2. Pending = Written /\ status = "SS_PROCESS"
  BY <1>1, SourceExhausted
<1>3. Written = {}
  <2>1. Len(tempOut) = 0
    BY <1>1 DEF IInv, SortFilterInv, PhaseInv
  <2>2. QED
    BY <2>1 DEF Written
<1>4. \A i \in Ids : ~Query!MayEmit(i)
  BY <1>2, <1>3 DEF Query!MayEmit, CoveredInv, IInv, SortFilterInv
<1>5. QED
  BY <1>1, <1>2, <1>4 DEF Query!Finish, Query!Ids, Ids

\* Only PutInWindow returns a tuple, and only LastPass ends the result.
LEMMA OutputChanges ==
    ASSUME [Next]_vars, ~PutInWindow
    PROVE  /\ output' = output
           /\ ~LastPass => (status' = "SS_DONE" <=> status = "SS_DONE")
  BY DEF Next, vars, Start, FetchOuter, FetchTemp, Drop, MoveNext, WriteToTemp, LastPass,
         NextPass, ReturnNull, Comparing, EndOfSource

\* On a sorted input the sort filter skyline returns the skyline: its steps are
\* steps of SkylineQuery, for every plan, window policy and window size.
THEOREM SortFilterSkylineCorrect == Spec => ImplementsQuery
<1>1. Init => Query!Init
  BY DEF Init, Query!Init
<1>2. IInv /\ [Next]_vars => [InputSorted => Query!Next]_(Query!vars)
  <2> SUFFICES ASSUME IInv, [Next]_vars
               PROVE  [InputSorted => Query!Next]_(Query!vars)
    OBVIOUS
  <2>1. CASE PutInWindow
    BY <2>1, EmitsSkyline DEF Query!Next
  <2>2. CASE LastPass
    BY <2>2, FinishesQuery DEF Query!Next
  <2>3. CASE ~(PutInWindow \/ LastPass)
    <3>1. output' = output /\ (status' = "SS_DONE" <=> status = "SS_DONE")
      BY <2>3, OutputChanges
    <3>2. QED
      BY <3>1, PlanUnchanged DEF Query!vars, plan
  <2>4. QED
    BY <2>1, <2>2, <2>3
<1>3. QED
  BY <1>1, <1>2, InitIInv, NextIInv, PTL DEF Spec, ImplementsQuery

\* The tuples come out in the order of the input for every plan, sorted or not,
\* and whatever the number of passes (skyline_method_preserves_tuple_order,
\* skyline.c 354-382).
THEOREM PreservesOrderCorrect == Spec => PreservesOrder
<1> DEFINE Step == output' # output =>
                     \A k \in 1..Len(output) : output[k] < output'[Len(output')]
<1>1. IInv /\ [Next]_vars => [Step]_vars
  <2> SUFFICES ASSUME IInv, [Next]_vars PROVE Step
    OBVIOUS
  <2>1. CASE PutInWindow
    <3>1. output \in Seq(Ids) /\ output' = Append(output, slot) /\ slot \in Ids
      BY <2>1, SlotIsFirst DEF PutInWindow, IInv, TypeInv, TypeOK
    <3>2. output'[Len(output')] = slot
      BY <3>1
    <3>3. \A k \in 1..Len(output) : output[k] < slot
      BY <2>1, SlotIsFirst DEF Query!Emitted
    <3>4. QED
      BY <3>2, <3>3
  <2>2. CASE ~PutInWindow
    BY <2>2, OutputChanges
  <2>3. QED
    BY <2>1, <2>2
<1>2. QED
  BY <1>1, InitIInv, NextIInv, PTL DEF Spec, PreservesOrder

-----------------------------------------------------------------------------
(* The order of the window. *)

\* The rank cursor is where the tuple that is being compared belongs; between
\* two tuples it may dangle.
RankInv == RanksOrdered(window) /\ (slot # 0 => RankCursorInPlace(window))

LEMMA InitRankInv == Init => RankInv
  BY PlanWindow, PlansAssumption DEF Init, RankInv

LEMMA NextRankInv ==
    ASSUME RangesKnown
    PROVE  TypeInv /\ RankInv /\ [Next]_vars => RankInv'
<1> SUFFICES ASSUME TypeInv, RankInv, [Next]_vars PROVE RankInv'
  OBVIOUS
<1>1. /\ window \in Windows(Ids) /\ RanksOrdered(window) /\ NaN \notin Int
      /\ window.insertrank \in Int
  BY RanksAssumption DEF TypeInv, TypeOK, RankInv, RanksOrdered
<1>2. ASSUME NEW i \in 1..Len(input), StartComparing(i) PROVE RankInv'
  <2>1. PICK rank \in InsertRanks(i) :
           window' = tuplewindow_setinsertrank(tuplewindow_rewind(window), rank)
    BY <1>2 DEF StartComparing
  <2>2. rank \in Int
    BY <1>1, RowOfInput, RanksAssumption DEF InsertRanks, TypeInv
  <2>3. QED
    BY <1>1, <2>1, <2>2, StartRanks DEF RankInv
<1>3. CASE FetchOuter
  <2>1. outerPos + 1 \in 1..Len(input)
    BY <1>3 DEF FetchOuter, TypeInv, TypeOK
  <2>2. QED
    BY <1>2, <1>3, <2>1 DEF FetchOuter
<1>4. CASE FetchTemp
  <2>1. tempIn[tempInPos + 1] \in 1..Len(input)
    BY <1>4 DEF FetchTemp, TypeInv, TypeOK, Ids
  <2>2. QED
    BY <1>2, <1>4, <2>1 DEF FetchTemp
<1>5. CASE MoveNext
  <2>1. /\ ~tuplewindow_ateof(window) /\ window' = tuplewindow_movenext(window)
        /\ CursorsInList(window) /\ RankCursorInPlace(window)
    BY <1>5, ComparingWindow DEF MoveNext, Comparing, RankInv
  <2>2. QED
    BY <1>1, <2>1, MoveNextRanks DEF RankInv
<1>6. CASE PutInWindow
  <2> DEFINE space == TupleSpace(input[slot])
  <2>1. /\ tuplewindow_ateof(window) /\ tuplewindow_has_freespace(window)
        /\ window' = tuplewindow_puttupleslot(window, slot, 0, space)
        /\ CursorsInList(window) /\ RankCursorInPlace(window)
        /\ slot \in Ids /\ space \in Nat /\ 0 \in Nat
    BY <1>6, ComparingWindow DEF PutInWindow, Comparing, HasSpace, RankInv
  <2> HIDE DEF space
  <2>2. QED
    BY <1>1, <2>1, PutRanks DEF RankInv
<1>7. CASE NextPass
  <2>1. window' = tuplewindow_clean(window) /\ slot' = 0
    BY <1>7 DEF NextPass, EndOfSource
  <2>2. window'.slots = <<>> /\ window'.insertrank = window.insertrank
    BY <1>1, <2>1, CleanWindow
  <2>3. QED
    BY <1>1, <2>1, <2>2, EmptyRanks DEF RankInv
<1>8. CASE Start \/ Drop \/ WriteToTemp \/ LastPass \/ ReturnNull \/ UNCHANGED vars
  <2>1. window' = window /\ (slot' = slot \/ slot' = 0)
    BY <1>8 DEF Start, Drop, WriteToTemp, LastPass, ReturnNull, vars
  <2>2. QED
    BY <2>1 DEF RankInv
<1>9. QED
  BY <1>3, <1>4, <1>5, <1>6, <1>7, <1>8 DEF Next

\* The window is ordered by descending rank in every pass (tuplewindow.c
\* 526-528), provided that no column has statistics with a range of 0, with
\* which a rank is not a number.
THEOREM RankOrderCorrect ==
    ASSUME RangesKnown
    PROVE  Spec => []RankOrder
<1>1. RankInv => RankOrder
  BY OrderedDescends DEF RankInv, RankOrder
<1>2. TypeInv /\ RankInv /\ [Next]_vars => (TypeInv /\ RankInv)'
  BY NextTypeInv, NextRankInv
<1>3. Init => TypeInv /\ RankInv
  BY InitTypeInv, InitRankInv
<1>4. QED
  BY <1>1, <1>2, <1>3, PTL DEF Spec

-----------------------------------------------------------------------------
(* The space of the window. *)

\* The free space is exact, and an empty window has some.
SpaceIInv == SpaceKept(window) /\ LimitsLeaveSpace(window)

LEMMA InitSpaceIInv ==
    ASSUME LimitsAccepted
    PROVE  Init => SpaceIInv
<1> SUFFICES ASSUME Init PROVE SpaceIInv
  OBVIOUS
<1>1. PICK p \in Plans : window = tuplewindow_begin(p.memory, p.slots, WindowPolicy(p))
  BY DEF Init
<1>2. p.memory \in Int /\ p.slots \in Int /\ WindowPolicy(p) \in Policies
  BY PlansAssumption DEF WindowPolicy, Policies
<1>3. SpaceKept(window) /\ window.maxMem = p.memory /\ window.maxSlots = p.slots
  BY <1>1, <1>2, BeginSpace
<1> QED
  BY <1>3 DEF SpaceIInv, LimitsLeaveSpace, LimitsAccepted

LEMMA NextSpaceIInv == TypeInv /\ SpaceIInv /\ [Next]_vars => SpaceIInv'
<1> SUFFICES ASSUME TypeInv, SpaceIInv, [Next]_vars PROVE SpaceIInv'
  OBVIOUS
<1>1. window \in Windows(Ids) /\ window.insertrank \in Int \cup {NaN}
      /\ SpaceKept(window) /\ LimitsLeaveSpace(window)
  BY DEF TypeInv, TypeOK, SpaceIInv, Windows
<1>2. SpaceKept(window') /\ SameLimits(window', window)
  <2>1. ASSUME NEW i \in 1..Len(input), StartComparing(i)
        PROVE  SpaceKept(window') /\ SameLimits(window', window)
    <3>1. PICK rank \in InsertRanks(i) :
             window' = tuplewindow_setinsertrank(tuplewindow_rewind(window), rank)
      BY <2>1 DEF StartComparing
    <3>2. rank \in Int \cup {NaN}
      BY <1>1, RowOfInput, RanksAssumption DEF InsertRanks, TypeInv
    <3> QED
      BY <1>1, <3>1, <3>2, StartSpace
  <2>2. CASE FetchOuter
    <3>1. outerPos + 1 \in 1..Len(input)
      BY <2>2 DEF FetchOuter, TypeInv, TypeOK
    <3> QED
      BY <2>1, <2>2, <3>1 DEF FetchOuter
  <2>3. CASE FetchTemp
    <3>1. tempIn[tempInPos + 1] \in 1..Len(input)
      BY <2>3 DEF FetchTemp, TypeInv, TypeOK, Ids
    <3> QED
      BY <2>1, <2>3, <3>1 DEF FetchTemp
  <2>4. CASE MoveNext
    <3>1. /\ ~tuplewindow_ateof(window) /\ window' = tuplewindow_movenext(window)
          /\ CursorsInList(window)
      BY <2>4, ComparingWindow DEF MoveNext, Comparing
    <3> QED
      BY <1>1, <3>1, MoveNextSpace
  <2>5. CASE PutInWindow
    <3> DEFINE space == TupleSpace(input[slot])
    <3>1. /\ tuplewindow_has_freespace(window)
          /\ window' = tuplewindow_puttupleslot(window, slot, 0, space)
          /\ CursorsInList(window) /\ slot \in Ids /\ space \in Nat /\ 0 \in Nat
      BY <2>5, ComparingWindow DEF PutInWindow, Comparing, HasSpace
    <3> HIDE DEF space
    <3> QED
      BY <1>1, <3>1, PutSpace
  <2>6. CASE NextPass
    <3>1. window' = tuplewindow_clean(window)
      BY <2>6 DEF NextPass
    <3> QED
      BY <1>1, <3>1, CleanSpace
  <2>7. CASE Start \/ Drop \/ WriteToTemp \/ LastPass \/ ReturnNull \/ UNCHANGED vars
    <3>1. window' = window
      BY <2>7 DEF Start, Drop, WriteToTemp, LastPass, ReturnNull, vars
    <3> QED
      BY <1>1, <3>1 DEF SameLimits
  <2> QED
    BY <2>2, <2>3, <2>4, <2>5, <2>6, <2>7 DEF Next
<1> QED
  BY <1>1, <1>2, SameLimitsLeaveSpace DEF SpaceIInv

-----------------------------------------------------------------------------
(* The end. *)

\* The variant is a tuple of natural numbers, of which DescentEnds says that
\* they cannot descend for ever.
VariantOK == Variant \in [1..6 -> Nat]

LEMMA VariantType == TypeInv => VariantOK
<1> SUFFICES ASSUME TypeInv PROVE VariantOK
  OBVIOUS
<1> DEFINE a == StatusesLeft
           b == ToHandle
           c == Count(~HasSpace)
           d == ToRead
           e == Count(slot # 0)
           f == Len(window.slots) + 1 - window.current
<1>1. a \in Nat
  BY DEF StatusesLeft
<1>2. c \in Nat /\ e \in Nat
  BY DEF Count
<1>3. d \in Nat
  BY DEF ToRead, TypeInv, TypeOK
<1>4. b \in Nat
  <2>1. Len(tempOut) \in Nat
    BY DEF TypeInv, TypeOK
  <2> QED
    BY <1>2, <1>3, <2>1 DEF ToHandle
<1>5. f \in Nat
  BY DEF TypeInv, TypeOK, Windows, Nil
<1> HIDE DEF a, b, c, d, e, f
<1>6. <<a, b, c, d, e, f>> \in [1..6 -> Nat]
  BY <1>1, <1>2, <1>3, <1>4, <1>5
<1> QED
  BY <1>6 DEF VariantOK, Variant, a, b, c, d, e, f

\* Six numbers descend where the first difference is.
LEMMA SixDescend ==
    ASSUME NEW a, NEW b, NEW c, NEW d, NEW e, NEW f,
           NEW a2, NEW b2, NEW c2, NEW d2, NEW e2, NEW f2,
           \/ a2 < a
           \/ a2 = a /\ b2 < b
           \/ a2 = a /\ b2 = b /\ c2 < c
           \/ a2 = a /\ b2 = b /\ c2 = c /\ d2 < d
           \/ a2 = a /\ b2 = b /\ c2 = c /\ d2 = d /\ e2 < e
           \/ a2 = a /\ b2 = b /\ c2 = c /\ d2 = d /\ e2 = e /\ f2 < f
    PROVE  Descends(<<a2, b2, c2, d2, e2, f2>>, <<a, b, c, d, e, f>>)
<1> DEFINE w == <<a, b, c, d, e, f>>
           v == <<a2, b2, c2, d2, e2, f2>>
<1>1. /\ DOMAIN w = 1..6
      /\ w[1] = a /\ w[2] = b /\ w[3] = c /\ w[4] = d /\ w[5] = e /\ w[6] = f
      /\ v[1] = a2 /\ v[2] = b2 /\ v[3] = c2 /\ v[4] = d2 /\ v[5] = e2 /\ v[6] = f2
  OBVIOUS
<1> HIDE DEF v, w
<1>2. /\ 1 \in 1..6 /\ 2 \in 1..6 /\ 3 \in 1..6 /\ 4 \in 1..6 /\ 5 \in 1..6 /\ 6 \in 1..6
      /\ \A k \in 1..1-1 : FALSE
      /\ \A k \in 1..2-1 : k = 1
      /\ \A k \in 1..3-1 : k = 1 \/ k = 2
      /\ \A k \in 1..4-1 : k = 1 \/ k = 2 \/ k = 3
      /\ \A k \in 1..5-1 : k = 1 \/ k = 2 \/ k = 3 \/ k = 4
      /\ \A k \in 1..6-1 : k = 1 \/ k = 2 \/ k = 3 \/ k = 4 \/ k = 5
  OBVIOUS
<1>3. Descends(v, w)
  BY <1>1, <1>2 DEF Descends
<1> QED
  BY <1>3 DEF v, w

LEMMA NextDescends ==
    IInv /\ SpaceIInv /\ SpaceIInv' /\ [Next]_vars => [Descends(Variant', Variant)]_vars
<1> SUFFICES ASSUME IInv, SpaceIInv, SpaceIInv', Next, ~UNCHANGED vars
             PROVE  Descends(Variant', Variant)
  BY DEF vars
<1> DEFINE a == StatusesLeft
           b == ToHandle
           c == Count(~HasSpace)
           d == ToRead
           e == Count(slot # 0)
           f == Len(window.slots) + 1 - window.current
<1>1. /\ input' = input /\ Len(input) \in Nat /\ outerPos \in 0..Len(input)
      /\ Len(tempIn) \in Nat /\ tempInPos \in 0..Len(tempIn) /\ Len(tempOut) \in Nat
      /\ Len(window.slots) \in Nat /\ window.current \in Int
  <2>1. input' = input
    BY PlanUnchanged DEF plan
  <2> QED
    BY <2>1 DEF IInv, TypeInv, TypeOK, Windows
<1>2. status' = status => StatusesLeft' = StatusesLeft
  BY DEF StatusesLeft
<1>3. SameList(window', window) => c' = c
  <2> SUFFICES ASSUME SameList(window', window) PROVE c' = c
    OBVIOUS
  <2>1. HasSpace' <=> HasSpace
    BY SameFreeSpace DEF HasSpace
  <2> QED
    BY <2>1 DEF Count
<1>4. \/ a' < a
      \/ a' = a /\ b' < b
      \/ a' = a /\ b' = b /\ c' < c
      \/ a' = a /\ b' = b /\ c' = c /\ d' < d
      \/ a' = a /\ b' = b /\ c' = c /\ d' = d /\ e' < e
      \/ a' = a /\ b' = b /\ c' = c /\ d' = d /\ e' = e /\ f' < f
  <2>1. CASE Start
    BY <2>1 DEF Start, StatusesLeft
  <2>2. ASSUME NEW i \in 1..Len(input), StartComparing(i) PROVE slot' # 0 /\ c' = c
    <3>1. SameList(window', window) /\ slot' = i
      BY <2>2, StartComparingWindow DEF IInv
    <3> QED
      BY <1>1, <1>3, <3>1
  <2>3. CASE FetchOuter
    <3>1. outerPos + 1 \in 1..Len(input) /\ StartComparing(outerPos + 1)
      BY <1>1, <2>3 DEF FetchOuter
    <3>2. slot' # 0 /\ c' = c
      BY <2>2, <3>1
    <3>3. /\ slot = 0 /\ status' = status /\ outerPos' = outerPos + 1
          /\ tempIn' = tempIn /\ tempInPos' = tempInPos /\ tempOut' = tempOut
      BY <2>3 DEF FetchOuter, files
    <3>4. b' = b /\ d' < d
      BY <1>1, <3>2, <3>3 DEF ToHandle, ToRead, Count
    <3> QED
      BY <1>2, <3>2, <3>3, <3>4
  <2>4. CASE FetchTemp
    <3>1. tempIn[tempInPos + 1] \in 1..Len(input) /\ StartComparing(tempIn[tempInPos + 1])
      BY <1>1, <2>4 DEF FetchTemp, IInv, TypeInv, TypeOK, Ids
    <3>2. slot' # 0 /\ c' = c
      BY <2>2, <3>1
    <3>3. /\ slot = 0 /\ status' = status /\ outerPos' = outerPos
          /\ tempIn' = tempIn /\ tempInPos' = tempInPos + 1 /\ tempOut' = tempOut
      BY <2>4 DEF FetchTemp
    <3>4. b' = b /\ d' < d
      BY <1>1, <3>2, <3>3 DEF ToHandle, ToRead, Count
    <3> QED
      BY <1>2, <3>2, <3>3, <3>4
  <2>5. CASE Drop \/ PutInWindow
    <3>1. /\ slot # 0 /\ slot' = 0 /\ status' = status /\ outerPos' = outerPos
          /\ tempIn' = tempIn /\ tempInPos' = tempInPos /\ tempOut' = tempOut
      BY <2>5 DEF Drop, PutInWindow, Comparing, files
    <3>2. b' < b
      BY <1>1, <3>1 DEF ToHandle, ToRead, Count
    <3> QED
      BY <1>2, <3>1, <3>2
  <2>6. CASE MoveNext
    <3>1. SameList(window', window) /\ window'.current = window.current + 1
      BY <2>6, NextTupleWindow DEF IInv
    <3>2. c' = c
      BY <1>3, <3>1
    <3>3. /\ slot' = slot /\ status' = status /\ outerPos' = outerPos
          /\ tempIn' = tempIn /\ tempInPos' = tempInPos /\ tempOut' = tempOut
      BY <2>6 DEF MoveNext, files
    <3>4. b' = b /\ d' = d /\ e' = e
      BY <1>1, <3>3 DEF ToHandle, ToRead
    <3>5. f' < f
      <4>1. window'.slots = window.slots
        BY <3>1 DEF SameList
      <4>2. window.current \in Int /\ Len(window.slots) \in Int
        BY <1>1
      <4>3. Len(window'.slots) + 1 - window'.current < Len(window.slots) + 1 - window.current
        BY <3>1, <4>1, <4>2
      <4> QED
        BY <4>3
    <3> QED
      BY <1>2, <3>2, <3>3, <3>4, <3>5
  <2>7. CASE WriteToTemp
    <3>1. /\ slot # 0 /\ slot' = 0 /\ status' = status /\ outerPos' = outerPos
          /\ tempIn' = tempIn /\ tempInPos' = tempInPos /\ tempOut' = Append(tempOut, slot)
          /\ window' = window
      BY <2>7 DEF WriteToTemp, Comparing
    <3>2. Len(tempOut') = Len(tempOut) + 1
      BY <3>1 DEF IInv, TypeInv, TypeOK
    <3>3. b' = b /\ d' = d /\ e' < e
      BY <1>1, <3>1, <3>2 DEF ToHandle, ToRead, Count
    <3>4. SameList(window', window)
      BY <3>1 DEF SameList
    <3> QED
      BY <1>2, <1>3, <3>1, <3>3, <3>4
  <2>8. CASE LastPass
    BY <2>8 DEF LastPass, EndOfSource, StatusesLeft
  <2>9. CASE NextPass
    <3>1. /\ slot = 0 /\ slot' = 0 /\ status' = status /\ outerPos' = outerPos
          /\ tempIn' = tempOut /\ tempInPos' = 0 /\ tempOut' = <<>>
          /\ timestampOut # 0 /\ EndOfSource /\ window' = tuplewindow_clean(window)
      BY <2>9 DEF NextPass, EndOfSource
    <3>2. /\ source = "SS_OUTER" => tempIn = <<>>
          /\ source = "SS_TEMP" => outerPos = Len(input)
          /\ timestampOut = Len(tempOut)
          /\ tempOut # <<>> => ~tuplewindow_has_freespace(window)
      BY DEF IInv, SortFilterInv, PhaseInv, OrderInv
    <3>3. outerPos = Len(input) /\ tempInPos = Len(tempIn)
      <4>1. source \in {"SS_OUTER", "SS_TEMP"}
        BY DEF IInv, TypeInv, TypeOK
      <4>2. tempIn = <<>> => Len(tempIn) = 0
        OBVIOUS
      <4> QED
        BY <1>1, <3>1, <3>2, <4>1, <4>2 DEF EndOfSource
    <3>4. Len(tempOut') = 0 /\ Len(tempIn') = Len(tempOut)
      BY <3>1
    <3>5. b' = b
      BY <1>1, <3>1, <3>3, <3>4 DEF ToHandle, ToRead, Count
    <3>6. ~tuplewindow_has_freespace(window)
      BY <3>1, <3>2
    <3>7. tuplewindow_has_freespace(window')
      <4>1. window \in Windows(Ids)
        BY DEF IInv, TypeInv, TypeOK
      <4>2. window' \in Windows(Ids) /\ window'.slots = <<>>
        BY <3>1, <4>1, CleanWindow
      <4>3. SpaceKept(window') /\ LimitsLeaveSpace(window')
        BY DEF SpaceIInv
      <4> QED
        BY <4>2, <4>3, EmptyHasSpace
    <3>8. c' < c
      BY <3>6, <3>7 DEF HasSpace, Count
    <3> QED
      BY <1>2, <3>1, <3>5, <3>8
  <2>10. CASE ReturnNull
    BY <2>10 DEF ReturnNull
  <2> QED
    BY <2>1, <2>3, <2>4, <2>5, <2>6, <2>7, <2>8, <2>9, <2>10 DEF Next
<1> HIDE DEF a, b, c, d, e, f
<1>5. Descends(<<a', b', c', d', e', f'>>, <<a, b, c, d, e, f>>)
  BY <1>4, SixDescend
<1> QED
  BY <1>5 DEF Variant, a, b, c, d, e, f

\* No step leaves the sort filter skyline as far from its end as it was, if its
\* empty window has space: the passes over the temporary files end for every
\* input, sorted or not, and every window that can hold a tuple.
THEOREM PassesProgress ==
    ASSUME LimitsAccepted
    PROVE  Spec => Progress /\ []VariantOK
<1>1. Init => IInv /\ SpaceIInv
  BY InitIInv, InitSpaceIInv
<1>2. IInv /\ SpaceIInv /\ [Next]_vars =>
        IInv' /\ SpaceIInv' /\ [Descends(Variant', Variant)]_vars
  <2>1. IInv => TypeInv
    BY DEF IInv
  <2> QED
    BY <2>1, NextIInv, NextSpaceIInv, NextDescends
<1>3. IInv => VariantOK
  BY VariantType DEF IInv
<1> QED
  BY <1>1, <1>2, <1>3, PTL DEF Spec, Progress

=============================================================================
