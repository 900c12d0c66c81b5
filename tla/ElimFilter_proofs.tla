-------------------------- MODULE ElimFilter_proofs --------------------------
(***************************************************************************)
(* The elimination filter is correct for every plan: any columns, any      *)
(* input, any window policy and any window size.  FilterInv is inductive,  *)
(* with it every step is a step of SkylineFilter or leaves its variables   *)
(* unchanged, and as long as the ranks are numbers the window gives up a   *)
(* tuple only for a better one.                                            *)
(***************************************************************************)
EXTENDS ElimFilter, SkylineRank_proofs

\* node and input are those of a plan, for which RanksAssumption holds.
PlanChosen == \E p \in Plans : node = p.node /\ input = p.input

TypeInv == TypeOK /\ PlanChosen

\* The memory a row takes and its rank.
LEMMA RowOfInput ==
    ASSUME PlanChosen, NEW i \in 1..Len(input)
    PROVE  /\ TupleSpace(input[i]) \in Nat
           /\ ExecSkylineRank(node, input[i]) \in Int \cup {NaN}
           /\ RangesKnown => ExecSkylineRank(node, input[i]) \in Int
<1>1. PICK p \in Plans : node = p.node /\ input = p.input
  BY DEF PlanChosen
<1>2. node \in PlanNode /\ input[i] \in Row(node)
  BY <1>1, PlansAssumption
<1>3. NaN \notin Int /\ TupleSpace(input[i]) \in Nat
  BY <1>1, RanksAssumption
<1>4. RangesKnown => \A c \in RankedColumns(node) : node.cols[c].colRange # 0
  BY <1>1 DEF RangesKnown
<1>5. QED
  BY <1>2, <1>3, <1>4, RankOfRow

-----------------------------------------------------------------------------
(* The window, operation by operation. *)

\* A tuple is fetched: the window is rewound and given the rank of the tuple.
LEMMA FetchWindow ==
    ASSUME TypeInv, Fetch
    PROVE  /\ window' \in Windows(Ids) /\ CursorsInList(window')
           /\ window'.slots = window.slots /\ window'.current = 1
           /\ outerPos + 1 \in 1..Len(input)
<1>1. window \in Windows(Ids)
  BY DEF TypeInv, TypeOK
<1> DEFINE w == tuplewindow_rewind(window)
           i == outerPos + 1
<1>2. w \in Windows(Ids) /\ CursorsInList(w) /\ w.slots = window.slots /\ w.current = 1
  BY <1>1, RewindWindow
<1>3. window.insertrank \in Int \cup {NaN}
  BY <1>1 DEF Windows
<1>4. PICK rank \in InsertRanks(i) : window' = tuplewindow_setinsertrank(w, rank)
  BY DEF Fetch
<1>5. i \in 1..Len(input)
  BY DEF TypeInv, TypeOK, Fetch
<1>6. rank \in Int \cup {NaN}
  BY <1>3, <1>5, RowOfInput, RanksAssumption DEF InsertRanks, TypeInv
<1> HIDE DEF w
<1>7. QED
  BY <1>2, <1>4, <1>5, <1>6, SetInsertRankWindow

\* The tuple at the cursor leaves the window.
LEMMA RemoveDominatedWindow ==
    ASSUME TypeInv, RemoveDominated
    PROVE  /\ window' \in Windows(Ids) /\ CursorsInList(window')
           /\ window'.current = window.current
           /\ window.current \in Slots
           /\ Len(window'.slots) = Len(window.slots) - 1
           /\ \A k \in 1..Len(window.slots)-1 :
                window'.slots[k] =
                  window.slots[IF k < window.current THEN k ELSE k+1]
<1>1. /\ window \in Windows(Ids) /\ CursorsInList(window) /\ ~tuplewindow_ateof(window)
      /\ window' = tuplewindow_removecurrent(window)
  BY DEF TypeInv, TypeOK, RemoveDominated
<1>2. /\ window' \in Windows(Ids) /\ CursorsInList(window')
      /\ window'.slots = UnlinkAt(window.slots, window.current)
      /\ window'.current = window.current
  BY <1>1, RemoveCurrentWindow
<1>3. window.current \in Slots /\ window.slots \in Seq(Entries(Ids))
  BY <1>1 DEF Windows, CursorsInList, tuplewindow_ateof, Nil, Slots
<1>4. /\ Len(UnlinkAt(window.slots, window.current)) = Len(window.slots) - 1
      /\ \A k \in 1..Len(window.slots)-1 :
           UnlinkAt(window.slots, window.current)[k] =
             IF k < window.current THEN window.slots[k] ELSE window.slots[k+1]
  BY <1>3, UnlinkAtElements DEF Slots
<1>5. QED
  BY <1>2, <1>3, <1>4

\* The cursor moves to the next tuple.
LEMMA NextTupleWindow ==
    ASSUME TypeInv, MoveNext
    PROVE  /\ window' \in Windows(Ids) /\ CursorsInList(window')
           /\ window'.slots = window.slots
           /\ window'.current = window.current + 1
           /\ window.current \in Slots
<1>1. /\ window \in Windows(Ids) /\ CursorsInList(window) /\ ~tuplewindow_ateof(window)
      /\ window' = tuplewindow_movenext(window)
  BY DEF TypeInv, TypeOK, MoveNext
<1>2. window.current \in Slots
  BY <1>1 DEF Windows, CursorsInList, tuplewindow_ateof, Nil, Slots
<1>3. QED
  BY <1>1, <1>2, MoveNextWindow

\* What a forced insertion is given.
LEMMA PassedTuple ==
    ASSUME TypeInv, PassOn
    PROVE  /\ window \in Windows(Ids) /\ CursorsInList(window)
           /\ slot \in Ids /\ TupleSpace(input[slot]) \in Nat
<1>1. slot \in Ids /\ slot \in 1..Len(input)
  BY DEF TypeInv, TypeOK, PassOn, Comparing, Ids
<1>2. QED
  BY <1>1, RowOfInput DEF TypeInv, TypeOK

\* The window after a forced insertion: the tuples that were kept, with the new
\* one somewhere among them or not at all.
LEMMA PassOnWindow ==
    ASSUME TypeInv, PassOn
    PROVE  LET kept == MakeRoom(window).slots
           IN  /\ window' \in Windows(Ids) /\ CursorsInList(window')
               /\ Len(kept) \in 0..Len(window.slots)
               /\ \A k \in 1..Len(kept) : kept[k] = window.slots[k]
               /\ \/ window'.slots = kept
                  \/ \E n \in 1..Len(kept)+1 : Inserted(kept, window'.slots, n, slot, 0)
<1> DEFINE space == TupleSpace(input[slot])
<1>1. /\ window \in Windows(Ids) /\ CursorsInList(window)
      /\ slot \in Ids /\ space \in Nat /\ 0 \in Nat
  BY PassedTuple
<1>2. window' = ForcedPut(window, slot, 0, space)
  BY DEF PassOn
<1> HIDE DEF space
<1>3. QED
  BY <1>1, <1>2, ForcedPutWindow, ZenonT(60)

-----------------------------------------------------------------------------
(* Types. *)

LEMMA InitTypeInv == Init => TypeInv
<1> SUFFICES ASSUME Init PROVE TypeInv
  OBVIOUS
<1>1. PICK p \in Plans : /\ node = p.node
                         /\ input = p.input
                         /\ window = tuplewindow_begin(p.memory, p.slots, WindowPolicy(p))
  BY DEF Init
<1>2. p.node \in PlanNode /\ p.input \in Seq(Row(p.node))
  BY PlansAssumption
<1>3. window \in Windows(Ids) /\ CursorsInList(window)
  BY <1>1, PlanWindow, PlansAssumption
<1>4. Len(input) \in Nat /\ node \in PlanNode /\ input \in Seq(Row(node))
  BY <1>1, <1>2
<1>5. outerPos = 0 /\ status = "SS_INIT" /\ slot = 0 /\ output = <<>>
  BY DEF Init
<1>6. TypeOK
  BY <1>3, <1>4, <1>5 DEF TypeOK
<1>7. QED
  BY <1>1, <1>6 DEF TypeInv, PlanChosen

\* No step changes the plan.
LEMMA PlanUnchanged == [Next]_vars => UNCHANGED plan
  BY DEF Next, vars, plan, Start, Fetch, EndOfInput, Drop, RemoveDominated, MoveNext,
         PassOn, ReturnNull

LEMMA NextTypeInv == TypeInv /\ [Next]_vars => TypeInv'
<1> SUFFICES ASSUME TypeInv, [Next]_vars PROVE TypeInv'
  OBVIOUS
<1>1. /\ node \in PlanNode /\ input \in Seq(Row(node))
      /\ window \in Windows(Ids) /\ CursorsInList(window)
      /\ outerPos \in 0..Len(input) /\ Len(input) \in Nat
      /\ status \in {"SS_INIT", "SS_PROCESS", "SS_DONE"}
      /\ slot \in 0..Len(input) /\ output \in Seq(Ids)
  BY DEF TypeInv, TypeOK
<1>2. node' = node /\ input' = input
  BY PlanUnchanged DEF plan
<1>3. PlanChosen' /\ Ids' = Ids
  BY <1>2 DEF TypeInv, PlanChosen, Ids
<1>4. /\ window' \in Windows(Ids) /\ CursorsInList(window')
      /\ outerPos' \in 0..Len(input)
      /\ status' \in {"SS_INIT", "SS_PROCESS", "SS_DONE"}
      /\ slot' \in 0..Len(input) /\ output' \in Seq(Ids)
  <2>1. CASE Start \/ EndOfInput \/ ReturnNull \/ UNCHANGED vars
    BY <1>1, <2>1 DEF Start, EndOfInput, ReturnNull, vars
  <2>2. CASE Fetch
    BY <1>1, <2>2, FetchWindow DEF Fetch
  <2>3. CASE Drop
    BY <1>1, <2>3 DEF Drop
  <2>4. CASE RemoveDominated
    BY <1>1, <2>4, RemoveDominatedWindow DEF RemoveDominated
  <2>5. CASE MoveNext
    BY <1>1, <2>5, NextTupleWindow DEF MoveNext
  <2>6. CASE PassOn
    <3>1. Append(output, slot) \in Seq(Ids)
      BY <1>1, <2>6, PassedTuple
    <3>2. QED
      BY <1>1, <2>6, <3>1, PassOnWindow DEF PassOn
  <2>7. QED
    BY <2>1, <2>2, <2>3, <2>4, <2>5, <2>6 DEF Next
<1>5. TypeOK'
  BY <1>1, <1>2, <1>3, <1>4 DEF TypeOK
<1>6. QED
  BY <1>3, <1>5 DEF TypeInv

-----------------------------------------------------------------------------
(* What the filter may leave out. *)

\* The instance of SkylineFilter compares tuples as the executor does.
LEMMA SameSuperfluous ==
    ASSUME NEW i
    PROVE  Filter!Superfluous(i) <=> \E k \in Filter!Passed : Superfluous(k, i)
<1>1. ASSUME NEW x, NEW y
      PROVE  /\ Filter!Dominates(node, x, y) <=> Dominates(node, x, y)
             /\ Filter!AllEq(node, x, y) <=> AllEq(node, x, y)
  BY DEF Filter!Dominates, Filter!AllEq, Filter!IsDominating, Filter!ApplyCompare,
         Filter!Columns, Filter!Sign, Dominates, AllEq, IsDominating, ApplyCompare,
         Columns, Sign
<1>2. QED
  BY <1>1 DEF Filter!Superfluous, Superfluous

\* A comparison with the window tuple at the cursor settles the pair.
LEMMA ComparisonSettles ==
    ASSUME TypeInv, Comparing, ~tuplewindow_ateof(window)
    PROVE  LET w == Tuple(window.current)
           IN  /\ window.current \in Slots
               /\ DropsSlot <=> Superfluous(w, slot)
               /\ ~DropsSlot /\ Cmp # "SECOND_DOMINATES" => ~Superfluous(slot, w)
<1> DEFINE w == Tuple(window.current)
<1>1. window.current \in Slots /\ window.slots \in Seq(Entries(Ids))
  BY DEF TypeInv, TypeOK, Windows, CursorsInList, tuplewindow_ateof, Nil, Slots
<1>2. window.slots[window.current] \in Entries(Ids)
  BY <1>1 DEF Slots
<1>3. w \in Ids /\ slot \in Ids
  BY <1>2 DEF Entries, Tuple, TypeInv, TypeOK, Comparing, Ids
<1>4. node \in PlanNode /\ input[w] \in Row(node) /\ input[slot] \in Row(node)
  BY <1>3 DEF TypeInv, TypeOK, Ids
<1>5. Cmp = IsDominating(node, input[w], input[slot])
  BY DEF Cmp, CurrentSlot, Tuple
<1> HIDE DEF w
<1>6. /\ Cmp = "SECOND_DOMINATES" <=> Dominates(node, input[slot], input[w])
      /\ AllEq(node, input[w], input[slot]) <=> AllEq(node, input[slot], input[w])
  BY <1>4, <1>5, DominanceMirror
<1>7. /\ Cmp = "FIRST_DOMINATES" <=> Dominates(node, input[w], input[slot])
      /\ Cmp = "ALL_EQ" <=> AllEq(node, input[w], input[slot])
  BY <1>5 DEF Dominates, AllEq
<1>8. QED
  BY <1>1, <1>6, <1>7 DEF DropsSlot, Superfluous, w

\* Superfluous is about the plan, which no step changes.
LEMMA SuperfluousUnchanged ==
    ASSUME UNCHANGED plan, NEW x, NEW y
    PROVE  Superfluous(x, y)' <=> Superfluous(x, y)
  BY DEF Superfluous, plan

\* A step that passes nothing on does not change what is superfluous.
LEMMA PassedUnchanged ==
    ASSUME UNCHANGED plan, output' = output
    PROVE  /\ Filter!Passed' = Filter!Passed
           /\ \A i : Filter!Superfluous(i)' <=> Filter!Superfluous(i)
<1>1. Filter!Passed' = Filter!Passed
  BY DEF Filter!Passed
<1>2. QED
  BY <1>1 DEF plan, Filter!Superfluous, Filter!Dominates, Filter!AllEq,
              Filter!IsDominating, Filter!ApplyCompare, Filter!Columns

-----------------------------------------------------------------------------
(* The inductive invariant. *)

IInv == TypeInv /\ FilterInv

\* A filter that has not read anything.
LEMMA NothingReadIInv ==
    ASSUME TypeInv, status \in {"SS_INIT", "SS_PROCESS"}, outerPos = 0,
           window.slots = <<>>, slot = 0, output = <<>>
    PROVE  IInv
<1>1. PhaseInv /\ WindowInv /\ PassedInv
  BY DEF PhaseInv, WindowInv, PassedInv, InWindow, Slots, Filter!Passed
<1>2. QED
  BY <1>1 DEF IInv, FilterInv, TypeInv

LEMMA InitIInv == Init => IInv
<1> SUFFICES ASSUME Init PROVE IInv
  OBVIOUS
<1>1. TypeInv /\ window.slots = <<>>
  BY InitTypeInv, PlanWindow, PlansAssumption DEF Init
<1>2. QED
  BY <1>1, NothingReadIInv DEF Init

LEMMA FetchIInv == IInv /\ Fetch => (PhaseInv /\ WindowInv /\ PassedInv)'
<1> SUFFICES ASSUME IInv, Fetch PROVE (PhaseInv /\ WindowInv /\ PassedInv)'
  OBVIOUS
<1>1. /\ outerPos' = outerPos + 1 /\ slot' = outerPos + 1 /\ slot = 0
      /\ status = "SS_PROCESS" /\ status' = status /\ output' = output
      /\ outerPos \in 0..Len(input)
      /\ node' = node /\ input' = input
  BY DEF Fetch, IInv, TypeInv, TypeOK, plan
<1>2. window'.slots = window.slots /\ window'.current = 1
  BY FetchWindow DEF IInv
<1>3. /\ Filter!Passed' = Filter!Passed /\ Slots' = Slots /\ InWindow' = InWindow
      /\ \A k : Tuple(k)' = Tuple(k)
  BY <1>1, <1>2 DEF Filter!Passed, Slots, InWindow, Tuple
<1>4. \A x, y : Superfluous(x, y)' <=> Superfluous(x, y)
  BY <1>1, SuperfluousUnchanged DEF plan
<1>5. PhaseInv'
  BY <1>1 DEF PhaseInv
<1>6. WindowInv'
  <2>1. slot' \notin Filter!Passed
    BY <1>1 DEF IInv, FilterInv, PassedInv
  <2>2. \A k \in Slots : ~(k < window'.current)
    BY <1>2 DEF Slots
  <2>3. QED
    BY <1>3, <1>4, <2>1, <2>2 DEF IInv, FilterInv, WindowInv
<1>7. PassedInv'
  <2>1. \A i : Filter!Superfluous(i)' <=> Filter!Superfluous(i)
    BY <1>1, PassedUnchanged DEF plan
  <2>2. \A i \in 1..outerPos+1 : i = outerPos + 1 \/ (i \in 1..outerPos /\ i # 0)
    BY <1>1
  <2>3. QED
    BY <1>1, <1>3, <2>1, <2>2 DEF IInv, FilterInv, PassedInv
<1>8. QED
  BY <1>5, <1>6, <1>7

LEMMA DropIInv == IInv /\ Drop => (PhaseInv /\ WindowInv /\ PassedInv)'
<1> SUFFICES ASSUME IInv, Drop PROVE (PhaseInv /\ WindowInv /\ PassedInv)'
  OBVIOUS
<1>1. /\ slot' = 0 /\ outerPos' = outerPos /\ status' = status /\ output' = output
      /\ window' = window /\ node' = node /\ input' = input
      /\ Comparing /\ ~tuplewindow_ateof(window) /\ DropsSlot
  BY DEF Drop, plan
<1>2. /\ Filter!Passed' = Filter!Passed /\ Slots' = Slots /\ InWindow' = InWindow
      /\ \A k : Tuple(k)' = Tuple(k)
  BY <1>1 DEF Filter!Passed, Slots, InWindow, Tuple
<1>3. \A x, y : Superfluous(x, y)' <=> Superfluous(x, y)
  BY <1>1, SuperfluousUnchanged DEF plan
<1>4. PhaseInv'
  BY <1>1 DEF PhaseInv, IInv, FilterInv
<1>5. WindowInv'
  BY <1>1, <1>2, <1>3 DEF IInv, FilterInv, WindowInv
<1>6. PassedInv'
  <2>1. window.current \in Slots /\ Superfluous(Tuple(window.current), slot)
    BY <1>1, ComparisonSettles DEF IInv
  <2>2. Tuple(window.current) \in Filter!Passed
    BY <2>1 DEF IInv, FilterInv, WindowInv, InWindow
  <2>3. Filter!Superfluous(slot)
    BY <2>1, <2>2, SameSuperfluous
  <2>4. \A i : Filter!Superfluous(i)' <=> Filter!Superfluous(i)
    BY <1>1, PassedUnchanged DEF plan
  <2>5. QED
    BY <1>1, <1>2, <2>3, <2>4 DEF IInv, FilterInv, PassedInv
<1>7. QED
  BY <1>4, <1>5, <1>6

LEMMA RemoveDominatedIInv ==
    IInv /\ RemoveDominated => (PhaseInv /\ WindowInv /\ PassedInv)'
<1> SUFFICES ASSUME IInv, RemoveDominated PROVE (PhaseInv /\ WindowInv /\ PassedInv)'
  OBVIOUS
<1>1. /\ slot' = slot /\ outerPos' = outerPos /\ status' = status /\ output' = output
      /\ node' = node /\ input' = input
  BY DEF RemoveDominated, plan
<1>2. /\ window.current \in Slots /\ window'.current = window.current
      /\ Len(window'.slots) = Len(window.slots) - 1
      /\ \A k \in 1..Len(window.slots)-1 :
           window'.slots[k] = window.slots[IF k < window.current THEN k ELSE k+1]
  BY RemoveDominatedWindow DEF IInv
<1> DEFINE Was(k) == IF k < window.current THEN k ELSE k+1
<1>3. Len(window.slots) \in Nat /\ window.current \in Nat
  BY DEF IInv, TypeInv, TypeOK, Windows
<1>4. ASSUME NEW k \in Slots'
      PROVE  /\ Was(k) \in Slots /\ Tuple(k)' = Tuple(Was(k))
             /\ k < window.current => Was(k) = k
  BY <1>2, <1>3 DEF Slots, Tuple
<1>5. \A k, m \in Slots' : k # m => Was(k) # Was(m)
  BY <1>2, <1>3 DEF Slots
<1> HIDE DEF Was
<1>6. \A x, y : Superfluous(x, y)' <=> Superfluous(x, y)
  BY <1>1, SuperfluousUnchanged DEF plan
<1>7. Filter!Passed' = Filter!Passed
  BY <1>1 DEF Filter!Passed
<1>8. PhaseInv'
  BY <1>1 DEF PhaseInv, IInv, FilterInv, RemoveDominated, Comparing
<1>9. WindowInv'
  <2>1. /\ InWindow \subseteq Filter!Passed
        /\ \A k, m \in Slots : k # m => ~Superfluous(Tuple(k), Tuple(m))
        /\ slot # 0 => /\ slot \notin Filter!Passed
                       /\ \A k \in Slots : k < window.current =>
                             ~Superfluous(Tuple(k), slot) /\ ~Superfluous(slot, Tuple(k))
    BY DEF IInv, FilterInv, WindowInv
  <2>2. InWindow' \subseteq Filter!Passed'
    BY <1>4, <1>7, <2>1 DEF InWindow
  <2>3. ASSUME NEW k \in Slots', NEW m \in Slots', k # m
        PROVE  ~Superfluous(Tuple(k), Tuple(m))'
    <3>1. ~Superfluous(Tuple(Was(k)), Tuple(Was(m)))
      BY <1>4, <1>5, <2>1, <2>3
    <3>2. QED
      BY <1>1, <1>4, <3>1 DEF Superfluous
  <2>4. ASSUME slot # 0, NEW k \in Slots', k < window.current
        PROVE  ~Superfluous(Tuple(k), slot)' /\ ~Superfluous(slot, Tuple(k))'
    <3>1. ~Superfluous(Tuple(k), slot) /\ ~Superfluous(slot, Tuple(k)) /\ Tuple(k)' = Tuple(k)
      BY <1>4, <2>1, <2>4
    <3>2. QED
      BY <1>1, <3>1 DEF Superfluous
  <2>5. QED
    BY <1>1, <1>2, <1>7, <2>1, <2>2, <2>3, <2>4 DEF WindowInv
<1>10. PassedInv'
  BY <1>1, PassedUnchanged DEF IInv, FilterInv, PassedInv, plan
<1>11. QED
  BY <1>8, <1>9, <1>10

LEMMA MoveNextIInv == IInv /\ MoveNext => (PhaseInv /\ WindowInv /\ PassedInv)'
<1> SUFFICES ASSUME IInv, MoveNext PROVE (PhaseInv /\ WindowInv /\ PassedInv)'
  OBVIOUS
<1>1. /\ slot' = slot /\ outerPos' = outerPos /\ status' = status /\ output' = output
      /\ node' = node /\ input' = input
      /\ Comparing /\ ~tuplewindow_ateof(window) /\ ~DropsSlot /\ Cmp # "SECOND_DOMINATES"
  BY DEF MoveNext, plan
<1>2. window'.slots = window.slots /\ window'.current = window.current + 1
  BY NextTupleWindow DEF IInv
<1>3. /\ Filter!Passed' = Filter!Passed /\ Slots' = Slots /\ InWindow' = InWindow
      /\ \A k : Tuple(k)' = Tuple(k)
  BY <1>1, <1>2 DEF Filter!Passed, Slots, InWindow, Tuple
<1>4. \A x, y : Superfluous(x, y)' <=> Superfluous(x, y)
  BY <1>1, SuperfluousUnchanged DEF plan
<1>5. PhaseInv'
  BY <1>1, <1>2 DEF PhaseInv, IInv, FilterInv, Comparing
<1>6. WindowInv'
  <2>1. /\ ~Superfluous(Tuple(window.current), slot)
        /\ ~Superfluous(slot, Tuple(window.current))
        /\ window.current \in Slots
    BY <1>1, ComparisonSettles DEF IInv
  <2>2. \A k \in Slots : k < window'.current => k < window.current \/ k = window.current
    BY <1>2, <2>1 DEF Slots
  <2>3. QED
    BY <1>1, <1>3, <1>4, <2>1, <2>2 DEF IInv, FilterInv, WindowInv
<1>7. PassedInv'
  BY <1>1, PassedUnchanged DEF IInv, FilterInv, PassedInv, plan
<1>8. QED
  BY <1>5, <1>6, <1>7

\* The output with the tuple that is passed on, which comes after all others.
LEMMA PassOnOutput ==
    ASSUME IInv, PassOn
    PROVE  /\ Len(output) \in Nat /\ Len(output') = Len(output) + 1
           /\ output'[Len(output) + 1] = slot
           /\ \A q \in 1..Len(output) : output'[q] = output[q] /\ output[q] < slot
           /\ Filter!Passed' = Filter!Passed \cup {slot}
           /\ slot = outerPos /\ slot \in Ids
<1>1. /\ output \in Seq(Ids) /\ output' = Append(output, slot)
      /\ slot \in Ids /\ slot = outerPos /\ slot # 0
  BY PassedTuple DEF PassOn, Comparing, IInv, TypeInv, TypeOK, FilterInv, PhaseInv
<1>2. /\ Len(output) \in Nat /\ Len(output') = Len(output) + 1
      /\ output'[Len(output) + 1] = slot
      /\ \A q \in 1..Len(output) : output'[q] = output[q]
  BY <1>1
<1>3. Filter!Passed' = Filter!Passed \cup {slot}
  <2>1. Filter!Passed' = {output'[q] : q \in 1..Len(output)+1}
    BY <1>2 DEF Filter!Passed
  <2>2. \A q \in 1..Len(output)+1 : q \in 1..Len(output) \/ q = Len(output)+1
    BY <1>2
  <2>3. 1..Len(output) \subseteq 1..Len(output)+1 /\ Len(output)+1 \in 1..Len(output)+1
    BY <1>2
  <2>4. QED
    BY <1>2, <2>1, <2>2, <2>3 DEF Filter!Passed
<1>4. ASSUME NEW q \in 1..Len(output)
      PROVE  output[q] < slot
  <2>1. output[q] \in 1..outerPos /\ output[q] # slot
    BY <1>1 DEF IInv, FilterInv, PassedInv, WindowInv, Filter!Passed
  <2>2. outerPos \in Nat
    BY DEF IInv, TypeInv, TypeOK
  <2>3. QED
    BY <1>1, <2>1, <2>2
<1>5. QED
  BY <1>1, <1>2, <1>3, <1>4

LEMMA PassOnIInv == IInv /\ PassOn => (PhaseInv /\ WindowInv /\ PassedInv)'
<1> SUFFICES ASSUME IInv, PassOn PROVE (PhaseInv /\ WindowInv /\ PassedInv)'
  OBVIOUS
<1>1. /\ slot' = 0 /\ outerPos' = outerPos /\ status' = status
      /\ node' = node /\ input' = input
      /\ Comparing /\ tuplewindow_ateof(window)
  BY DEF PassOn, plan
<1> DEFINE len == Len(output)
<1>2. /\ len \in Nat /\ Len(output') = len + 1
      /\ output'[len + 1] = slot
      /\ \A q \in 1..len : output'[q] = output[q] /\ output[q] < slot
      /\ Filter!Passed' = Filter!Passed \cup {slot}
      /\ slot = outerPos /\ slot \in Ids
  BY PassOnOutput
<1> DEFINE kept == MakeRoom(window).slots
<1>3. /\ Len(kept) \in 0..Len(window.slots)
      /\ \A k \in 1..Len(kept) : kept[k] = window.slots[k]
      /\ \/ window'.slots = kept
         \/ \E n \in 1..Len(kept)+1 : Inserted(kept, window'.slots, n, slot, 0)
  BY PassOnWindow DEF IInv
<1> HIDE DEF kept
<1>4. Len(window.slots) \in Nat /\ window.current = Len(window.slots) + 1
  BY <1>1 DEF IInv, TypeInv, TypeOK, Windows, tuplewindow_ateof, Nil
<1>5. /\ InWindow \subseteq Filter!Passed
      /\ \A k, m \in Slots : k # m => ~Superfluous(Tuple(k), Tuple(m))
      /\ \A k \in Slots : ~Superfluous(Tuple(k), slot) /\ ~Superfluous(slot, Tuple(k))
  <2>1. \A k \in Slots : k < window.current
    BY <1>4 DEF Slots
  <2>2. QED
    BY <1>1, <2>1 DEF IInv, FilterInv, WindowInv, Comparing
<1>6. 1..Len(kept) \subseteq Slots /\ Len(kept) \in Nat
  BY <1>3, <1>4 DEF Slots
<1>7. \A x, y : Superfluous(x, y)' <=> Superfluous(x, y)
  BY <1>1, SuperfluousUnchanged DEF plan
<1>8. PhaseInv'
  BY <1>1 DEF PhaseInv, IInv, FilterInv, Comparing
<1>9. WindowInv'
  \* Each slot is a slot of before, or the new one, which there is only one of.
  <2>1. ASSUME NEW k \in Slots', NEW m \in Slots', k # m
        PROVE  /\ Tuple(k)' \in InWindow \cup {slot}
               /\ ~Superfluous(Tuple(k)', Tuple(m)')
    <3>1. CASE window'.slots = kept
      <4>1. /\ k \in Slots /\ m \in Slots
            /\ Tuple(k)' = Tuple(k) /\ Tuple(m)' = Tuple(m)
        BY <1>3, <1>6, <3>1 DEF Slots, Tuple
      <4>2. QED
        BY <1>5, <2>1, <4>1 DEF InWindow
    <3>2. CASE \E n \in 1..Len(kept)+1 : Inserted(kept, window'.slots, n, slot, 0)
      <4>1. PICK n \in 1..Len(kept)+1 : Inserted(kept, window'.slots, n, slot, 0)
        BY <3>2
      <4> DEFINE Was(j) == IF j < n THEN j ELSE j-1
      <4>2. /\ Len(window'.slots) = Len(kept) + 1 /\ window'.slots[n].tuple = slot
            /\ \A j \in 1..Len(kept)+1 : j # n => window'.slots[j] = kept[Was(j)]
        BY <4>1 DEF Inserted
      <4>3. \A j \in 1..Len(kept)+1 : j # n => Was(j) \in 1..Len(kept)
        BY <1>6
      <4>4. k \in 1..Len(kept)+1 /\ m \in 1..Len(kept)+1
        BY <4>2 DEF Slots
      <4>5. k # n /\ m # n => Was(k) # Was(m)
        BY <1>6, <2>1, <4>4
      <4> HIDE DEF Was
      <4>6. \A j \in 1..Len(kept)+1 :
               \/ j = n /\ Tuple(j)' = slot
               \/ j # n /\ Was(j) \in Slots /\ Tuple(j)' = Tuple(Was(j))
        BY <1>3, <1>6, <4>2, <4>3 DEF Tuple
      <4>7. QED
        BY <1>5, <2>1, <4>4, <4>5, <4>6 DEF InWindow
    <3>3. QED
      BY <1>3, <3>1, <3>2
  <2>2. ASSUME NEW k \in Slots' PROVE Tuple(k)' \in InWindow \cup {slot}
    <3>1. CASE window'.slots = kept
      BY <1>3, <1>6, <3>1 DEF Slots, Tuple, InWindow
    <3>2. CASE \E n \in 1..Len(kept)+1 : Inserted(kept, window'.slots, n, slot, 0)
      <4>1. PICK n \in 1..Len(kept)+1 : Inserted(kept, window'.slots, n, slot, 0)
        BY <3>2
      <4>2. /\ k \in 1..Len(kept)+1 /\ window'.slots[n].tuple = slot
            /\ k # n => window'.slots[k] = kept[IF k < n THEN k ELSE k-1]
        BY <4>1 DEF Inserted, Slots
      <4>3. k # n => (IF k < n THEN k ELSE k-1) \in 1..Len(kept)
        BY <1>6, <4>2
      <4>4. QED
        BY <1>3, <1>6, <4>2, <4>3 DEF Tuple, InWindow
    <3>3. QED
      BY <1>3, <3>1, <3>2
  <2>3. InWindow' \subseteq Filter!Passed'
    BY <1>2, <1>5, <2>2 DEF InWindow
  <2>4. \A k, m \in Slots' : k # m => ~Superfluous(Tuple(k), Tuple(m))'
    BY <1>1, <2>1 DEF Superfluous
  <2>5. QED
    BY <1>1, <2>3, <2>4 DEF WindowInv
<1>10. PassedInv'
  <2>1. ASSUME NEW q \in 1..Len(output'), NEW r \in 1..Len(output'), q < r
        PROVE  output'[q] < output'[r]
    <3>1. q \in 1..len /\ (r \in 1..len \/ r = len + 1)
      BY <1>2, <2>1
    <3>2. \A i, j \in 1..len : i < j => output[i] < output[j]
      BY DEF IInv, FilterInv, PassedInv
    <3>3. QED
      BY <1>2, <2>1, <3>1, <3>2
  <2>2. Filter!Passed' \subseteq 1..outerPos
    <3>1. slot \in 1..outerPos
      BY <1>2 DEF Ids, IInv, TypeInv, TypeOK
    <3>2. QED
      BY <1>2, <3>1 DEF IInv, FilterInv, PassedInv
  <2>3. ASSUME NEW i \in 1..outerPos
        PROVE  i \in Filter!Passed' \/ Filter!Superfluous(i)'
    <3>1. i \in Filter!Passed \cup {slot} \/ Filter!Superfluous(i)
      BY DEF IInv, FilterInv, PassedInv
    <3>2. Filter!Superfluous(i) => Filter!Superfluous(i)'
      <4>1. ASSUME NEW k \in Filter!Passed, Superfluous(k, i)
            PROVE  Superfluous(k, i)' /\ k \in Filter!Passed'
        BY <1>1, <1>2, <4>1 DEF Superfluous
      <4>2. (\E k \in Filter!Passed : Superfluous(k, i))' => Filter!Superfluous(i)'
        BY <1>1 DEF Superfluous, Filter!Superfluous, Filter!Dominates, Filter!AllEq,
                    Filter!IsDominating, Filter!ApplyCompare, Filter!Columns,
                    Dominates, AllEq, IsDominating, ApplyCompare, Columns, Sign, Filter!Sign
      <4>3. QED
        BY <4>1, <4>2, SameSuperfluous
    <3>3. QED
      BY <1>2, <3>1, <3>2
  <2>4. QED
    BY <1>1, <2>1, <2>2, <2>3 DEF PassedInv
<1>11. QED
  BY <1>8, <1>9, <1>10

\* A step between two tuples changes neither the window nor the output.
LEMMA BetweenTuplesIInv ==
    ASSUME IInv, UNCHANGED <<plan, outerPos, window, slot, output>>
    PROVE  (WindowInv /\ PassedInv)'
<1>1. /\ slot' = slot /\ outerPos' = outerPos /\ output' = output /\ window' = window
      /\ UNCHANGED plan
  OBVIOUS
<1>2. /\ Filter!Passed' = Filter!Passed
      /\ \A i : Filter!Superfluous(i)' <=> Filter!Superfluous(i)
  BY <1>1, PassedUnchanged
<1>3. Slots' = Slots /\ InWindow' = InWindow /\ \A k : Tuple(k)' = Tuple(k)
  BY <1>1 DEF InWindow, Slots, Tuple
<1>4. \A x, y : Superfluous(x, y)' <=> Superfluous(x, y)
  BY <1>1, SuperfluousUnchanged
<1>5. WindowInv'
  BY <1>1, <1>2, <1>3, <1>4 DEF IInv, FilterInv, WindowInv
<1>6. PassedInv'
  BY <1>1, <1>2 DEF IInv, FilterInv, PassedInv
<1>7. QED
  BY <1>5, <1>6

\* FilterInv is inductive.
LEMMA NextIInv == IInv /\ [Next]_vars => IInv'
<1> SUFFICES ASSUME IInv, [Next]_vars PROVE IInv'
  OBVIOUS
<1>1. TypeInv'
  BY NextTypeInv DEF IInv
<1>2. CASE Start \/ EndOfInput
  <2>1. UNCHANGED <<plan, outerPos, window, slot, output>>
    BY <1>2 DEF Start, EndOfInput
  <2>2. PhaseInv'
    BY <1>2 DEF Start, EndOfInput, plan, IInv, FilterInv, PhaseInv
  <2>3. QED
    BY <1>1, <2>1, <2>2, BetweenTuplesIInv DEF IInv, FilterInv, TypeInv
<1>3. CASE ReturnNull \/ UNCHANGED vars
  <2>1. UNCHANGED <<plan, outerPos, window, slot, output>> /\ status' = status
    BY <1>3 DEF ReturnNull, vars, plan
  <2>2. PhaseInv'
    BY <2>1 DEF IInv, FilterInv, PhaseInv, plan
  <2>3. QED
    BY <1>1, <2>1, <2>2, BetweenTuplesIInv DEF IInv, FilterInv, TypeInv
<1>4. CASE Fetch \/ Drop \/ RemoveDominated \/ MoveNext \/ PassOn
  <2>1. (PhaseInv /\ WindowInv /\ PassedInv)'
    BY <1>4, FetchIInv, DropIInv, RemoveDominatedIInv, MoveNextIInv, PassOnIInv
  <2>2. QED
    BY <1>1, <2>1 DEF IInv, FilterInv, TypeInv
<1>5. QED
  BY <1>2, <1>3, <1>4 DEF Next

\* FilterInv holds for every plan: the window never holds a tuple that another
\* one in it makes superfluous, and a tuple that was fetched has been passed on
\* or is superfluous.
THEOREM FilterInvCorrect == Spec => []FilterInv
<1>1. IInv => FilterInv
  BY DEF IInv
<1>2. QED
  BY <1>1, InitIInv, NextIInv, PTL DEF Spec

-----------------------------------------------------------------------------
(* The refinement. *)

\* The tuples up to the last one passed on that are not superfluous have been
\* passed on; behind it there are only superfluous ones and the one in slot.
LEMMA BehindReached ==
    ASSUME IInv
    PROVE  /\ Filter!Reached \in 0..outerPos
           /\ \A q \in 1..Len(output) : output[q] <= Filter!Reached
           /\ \A j \in Filter!Reached+1..outerPos : j # slot => Filter!Superfluous(j)
<1>1. /\ output \in Seq(Ids) /\ outerPos \in Nat /\ Len(output) \in Nat
      /\ \A q \in 1..Len(output) : output[q] \in 1..outerPos
      /\ \A q, r \in 1..Len(output) : q < r => output[q] < output[r]
  BY DEF IInv, TypeInv, TypeOK, FilterInv, PassedInv, Filter!Passed
<1>2. Filter!Reached \in 0..outerPos
  BY <1>1 DEF Filter!Reached
<1>3. ASSUME NEW q \in 1..Len(output) PROVE output[q] <= Filter!Reached
  <2>1. output # <<>> /\ Filter!Reached = output[Len(output)] /\ Len(output) \in 1..Len(output)
    BY <1>1, <1>3 DEF Filter!Reached
  <2>2. CASE q = Len(output)
    BY <1>1, <2>1, <2>2
  <2>3. CASE q # Len(output)
    <3>1. output[q] < output[Len(output)]
      BY <1>1, <2>1, <2>3
    <3>2. QED
      BY <1>1, <2>1, <3>1
  <2>4. QED
    BY <2>2, <2>3
<1>4. ASSUME NEW j \in Filter!Reached+1..outerPos, j # slot
      PROVE  Filter!Superfluous(j)
  <2>1. j \in 1..outerPos /\ j > Filter!Reached
    BY <1>1, <1>2
  <2>2. j \notin Filter!Passed
    <3>1. ASSUME NEW q \in 1..Len(output), output[q] = j PROVE FALSE
      BY <1>1, <1>2, <1>3, <2>1, <3>1
    <3>2. QED
      BY <3>1 DEF Filter!Passed
  <2>3. QED
    BY <1>4, <2>1, <2>2 DEF IInv, FilterInv, PassedInv
<1>5. QED
  BY <1>2, <1>3, <1>4

LEMMA PassesTuple ==
    ASSUME IInv, PassOn
    PROVE  Filter!Pass(slot) /\ slot \in Filter!Ids
<1>1. /\ slot \in Ids /\ slot = outerPos /\ slot \notin Filter!Passed
      /\ \A q \in 1..Len(output) : output[q] < slot
  BY PassOnOutput DEF IInv, FilterInv, WindowInv, PassOn, Comparing
<1>2. Filter!Reached \in 0..outerPos
  BY BehindReached
<1>3. slot > Filter!Reached
  <2>1. outerPos \in Nat /\ output \in Seq(Ids) /\ slot \in Nat \ {0}
    BY <1>1 DEF IInv, TypeInv, TypeOK, Ids
  <2>2. output # <<>> => Len(output) \in 1..Len(output)
    BY <2>1
  <2>3. QED
    BY <1>1, <2>1, <2>2 DEF Filter!Reached
<1>4. \A j \in Filter!Reached+1..slot-1 : Filter!Superfluous(j)
  <2> TAKE j \in Filter!Reached+1..slot-1
  <2>1. outerPos \in Nat
    BY DEF IInv, TypeInv, TypeOK
  <2>2. j \in Filter!Reached+1..outerPos /\ j # slot
    BY <1>1, <1>2, <2>1
  <2>3. QED
    BY <2>2, BehindReached
<1>5. /\ status = "SS_PROCESS" /\ status' = status /\ output' = Append(output, slot)
      /\ UNCHANGED <<node, input>>
  BY DEF PassOn, Comparing, plan
<1>6. QED
  BY <1>1, <1>3, <1>4, <1>5 DEF Filter!Pass, Filter!Ids, Ids

LEMMA FinishesFilter ==
    ASSUME IInv, EndOfInput
    PROVE  Filter!Finish
<1>1. /\ status = "SS_PROCESS" /\ status' = "SS_DONE" /\ outerPos = Len(input) /\ slot = 0
      /\ UNCHANGED <<node, input, output>>
  BY DEF EndOfInput, plan
<1>2. ASSUME NEW j \in Filter!Reached+1..Len(input)
      PROVE  Filter!Superfluous(j)
  <2>1. Filter!Reached \in 0..outerPos
    BY BehindReached
  <2>2. j \in Filter!Reached+1..outerPos /\ j # slot
    BY <1>1, <2>1
  <2>3. QED
    BY <2>2, BehindReached
<1>3. QED
  BY <1>1, <1>2 DEF Filter!Finish

\* The elimination filter passes on, in their order, all tuples but some that
\* one it has passed on makes superfluous: its steps are steps of SkylineFilter,
\* for every plan, window policy and window size.
THEOREM ElimFilterCorrect == Spec => ImplementsFilter
<1>1. Init => Filter!Init
  BY DEF Init, Filter!Init
<1>2. IInv /\ [Next]_vars => [Filter!Next]_(Filter!vars)
  <2> SUFFICES ASSUME IInv, [Next]_vars PROVE [Filter!Next]_(Filter!vars)
    OBVIOUS
  <2>1. CASE PassOn
    BY <2>1, PassesTuple DEF Filter!Next
  <2>2. CASE EndOfInput
    BY <2>2, FinishesFilter DEF Filter!Next
  <2>3. CASE ~(PassOn \/ EndOfInput)
    <3>1. output' = output /\ (status' = "SS_DONE" <=> status = "SS_DONE")
      BY <2>3 DEF Next, vars, Start, Fetch, Drop, RemoveDominated, MoveNext, ReturnNull
    <3>2. QED
      BY <3>1, PlanUnchanged DEF Filter!vars, plan
  <2>4. QED
    BY <2>1, <2>2, <2>3
<1>3. QED
  BY <1>1, <1>2, InitIInv, NextIInv, PTL DEF Spec, ImplementsFilter

-----------------------------------------------------------------------------
(* The order of the window. *)

\* The rank cursor is where the tuple that is being compared belongs.
RankInv == RanksOrdered(window) /\ RankCursorInPlace(window)

LEMMA InitRankInv == Init => RankInv
  BY PlanWindow, PlansAssumption DEF Init, RankInv

LEMMA NextRankInv ==
    ASSUME RangesKnown
    PROVE  TypeInv /\ RankInv /\ [Next]_vars => RankInv'
<1> SUFFICES ASSUME TypeInv, RankInv, [Next]_vars PROVE RankInv'
  OBVIOUS
<1>1. /\ window \in Windows(Ids) /\ CursorsInList(window)
      /\ RanksOrdered(window) /\ RankCursorInPlace(window)
      /\ NaN \notin Int
  BY RanksAssumption DEF TypeInv, TypeOK, RankInv
<1>2. CASE Fetch
  <2> DEFINE i == outerPos + 1
  <2>1. i \in 1..Len(input) /\ window.insertrank \in Int
    BY <1>1, <1>2, FetchWindow DEF RanksOrdered
  <2>2. PICK rank \in InsertRanks(i) :
           window' = tuplewindow_setinsertrank(tuplewindow_rewind(window), rank)
    BY <1>2 DEF Fetch
  <2>3. rank \in Int
    BY <2>1, RowOfInput, RanksAssumption DEF InsertRanks, TypeInv
  <2>4. QED
    BY <1>1, <2>2, <2>3, StartRanks DEF RankInv
<1>3. CASE RemoveDominated
  <2>1. ~tuplewindow_ateof(window) /\ window' = tuplewindow_removeslot(window, window.current)
    BY <1>3 DEF RemoveDominated, tuplewindow_removecurrent
  <2>2. window.current \in 1..Len(window.slots)
    BY <1>1, <2>1 DEF Windows, CursorsInList, tuplewindow_ateof, Nil
  <2>3. QED
    BY <1>1, <2>1, <2>2, RemoveSlotRanks DEF RankInv
<1>4. CASE MoveNext
  <2>1. ~tuplewindow_ateof(window) /\ window' = tuplewindow_movenext(window)
    BY <1>4 DEF MoveNext
  <2>2. QED
    BY <1>1, <2>1, MoveNextRanks DEF RankInv
<1>5. CASE PassOn
  <2> DEFINE space == TupleSpace(input[slot])
  <2>1. slot \in Ids /\ space \in Nat /\ 0 \in Nat
    BY <1>5, PassedTuple
  <2>2. tuplewindow_ateof(window) /\ window' = ForcedPut(window, slot, 0, space)
    BY <1>5 DEF PassOn
  <2> HIDE DEF space
  <2>3. QED
    BY <1>1, <2>1, <2>2, ForcedPutRanks DEF RankInv
<1>6. CASE Start \/ EndOfInput \/ Drop \/ ReturnNull \/ UNCHANGED vars
  <2>1. window' = window
    BY <1>6 DEF Start, EndOfInput, Drop, ReturnNull, vars
  <2>2. QED
    BY <1>1, <2>1 DEF RankInv
<1>7. QED
  BY <1>2, <1>3, <1>4, <1>5, <1>6 DEF Next

\* The window is ordered by descending rank, forced insertions and the removal
\* of dominated tuples included (tuplewindow.c 526-528), provided that no column
\* has statistics with a range of 0, with which a rank is not a number.
THEOREM RankOrderCorrect ==
    ASSUME RangesKnown
    PROVE  Spec => []RankOrder
<1>1. RankInv => RankOrder
  BY OrderedDescends DEF RankInv, RankOrder
<1>2. TypeInv /\ RankInv /\ [Next]_vars => (TypeInv /\ RankInv)'
  BY NextTypeInv, NextRankInv
<1>3. Init => TypeInv /\ RankInv
  BY InitTypeInv, InitRankInv
<1>4. QED
  BY <1>1, <1>2, <1>3, PTL DEF Spec

\* A tuple that leaves the window to make room ranks no higher than any tuple
\* that is in it afterwards.
LEMMA PassOnEvicts ==
    ASSUME TypeInv, RankInv, NaN \notin Int, PassOn, NEW k \in Slots, Tuple(k) \notin InWindow'
    PROVE  \A m \in 1..Len(window'.slots) : window'.slots[m].rank >= Rank(k)
<1> DEFINE room == MakeRoom(window)
           space == TupleSpace(input[slot])
           n == Len(window.slots)
<1>1. /\ window \in Windows(Ids) /\ CursorsInList(window)
      /\ slot \in Ids /\ space \in Nat /\ 0 \in Nat
  BY PassedTuple
<1>2. window' = ForcedPut(window, slot, 0, space)
  BY DEF PassOn
<1> HIDE DEF space
<1>3. /\ room \in Windows(Ids) /\ CursorsInList(room)
      /\ room.insertrank = window.insertrank /\ room.policy = window.policy
      /\ \/ room = window
         \/ /\ n \in Nat \ {0} /\ RankGreater(window.insertrank, window.slots[n].rank)
            /\ Len(room.slots) = n - 1
            /\ \A i \in 1..n-1 : room.slots[i] = window.slots[i]
  BY <1>1, MakeRoomWindow
<1>4. room # window => Ranked(window)
  BY DEF MakeRoom
<1> HIDE DEF room
<1>5. /\ window.insertrank \in Int /\ n \in Nat /\ k \in 1..n
      /\ \A i \in 1..n : window.slots[i].rank \in Int
      /\ Ranked(window) => \A i, m \in 1..n :
                             i < m => window.slots[i].rank >= window.slots[m].rank
  BY <1>1 DEF RankInv, RanksOrdered, Slots, Windows
<1>6. Len(room.slots) \in Nat
  BY <1>3 DEF Windows
\* Every slot of the room is a slot afterwards, and there is at most one more.
<1>7. /\ \A i \in 1..Len(room.slots) :
           \E m \in 1..Len(window'.slots) : window'.slots[m] = room.slots[i]
      /\ \A m \in 1..Len(window'.slots) :
           \/ \E i \in 1..Len(room.slots) : window'.slots[m] = room.slots[i]
           \/ Ranked(room) => window'.slots[m].rank = room.insertrank
  <2>1. CASE ~tuplewindow_has_freespace(room)
    <3>1. window' = room
      BY <1>2, <2>1 DEF ForcedPut, room
    <3>2. QED
      BY <3>1
  <2>2. CASE tuplewindow_has_freespace(room)
    <3> DEFINE v == tuplewindow_puttupleslot(room, slot, 0, space)
    <3>1. \E p \in 1..Len(room.slots)+1 :
             /\ Inserted(room.slots, v.slots, p, slot, 0)
             /\ Ranked(room) => p = room.rankinsert /\ v.slots[p].rank = room.insertrank
             /\ ~Ranked(room) => v.slots[p].rank = MinusDblMax
             /\ CursorsMakeRoom(room, v, p)
      BY <1>1, <1>3, <2>2, PutWindow
    <3> HIDE DEF v
    <3>2. PICK p \in 1..Len(room.slots)+1 :
             /\ Inserted(room.slots, window'.slots, p, slot, 0)
             /\ Ranked(room) => window'.slots[p].rank = room.insertrank
      <4>1. window' = v
        BY <1>2, <2>2 DEF ForcedPut, room, v
      <4>2. QED
        BY <3>1, <4>1
    <3>3. /\ Len(window'.slots) = Len(room.slots) + 1
          /\ \A m \in 1..Len(room.slots)+1 :
               m # p => window'.slots[m] = room.slots[IF m < p THEN m ELSE m-1]
      BY <3>2 DEF Inserted
    <3>4. ASSUME NEW i \in 1..Len(room.slots)
          PROVE  \E m \in 1..Len(window'.slots) : window'.slots[m] = room.slots[i]
      <4> DEFINE m == IF i < p THEN i ELSE i+1
      <4>1. /\ m \in 1..Len(room.slots)+1 /\ m # p
            /\ (IF m < p THEN m ELSE m-1) = i
        BY <1>6
      <4> HIDE DEF m
      <4>2. QED
        BY <3>3, <4>1
    <3>5. ASSUME NEW m \in 1..Len(window'.slots), m # p
          PROVE  \E i \in 1..Len(room.slots) : window'.slots[m] = room.slots[i]
      <4>1. m \in 1..Len(room.slots)+1 /\ (IF m < p THEN m ELSE m-1) \in 1..Len(room.slots)
        BY <1>6, <3>3, <3>5
      <4>2. QED
        BY <3>3, <3>5, <4>1
    <3>6. QED
      BY <3>2, <3>4, <3>5
  <2>3. QED
    BY <2>1, <2>2
<1>8. /\ room # window
      /\ n \in Nat \ {0} /\ k = n /\ RankGreater(window.insertrank, window.slots[n].rank)
      /\ \A i \in 1..Len(room.slots) : i \in 1..n-1 /\ room.slots[i] = window.slots[i]
  <2>1. ASSUME NEW i \in 1..Len(room.slots), room.slots[i] = window.slots[k]
        PROVE  FALSE
    <3>1. PICK m \in 1..Len(window'.slots) : window'.slots[m] = window.slots[k]
      BY <1>7, <2>1
    <3>2. Tuple(k) \in InWindow'
      BY <3>1 DEF InWindow, Slots, Tuple
    <3>3. QED
      BY <3>2
  <2>2. QED
    BY <1>3, <1>5, <2>1
<1>9. Ranked(window) /\ Ranked(room) /\ window.insertrank > window.slots[n].rank
  BY <1>3, <1>4, <1>8 DEF Ranked, RankGreater
<1>10. ASSUME NEW m \in 1..Len(window'.slots)
       PROVE  window'.slots[m].rank >= window.slots[n].rank
  <2>1. CASE \E i \in 1..Len(room.slots) : window'.slots[m] = room.slots[i]
    <3>1. PICK i \in 1..n-1 : window'.slots[m] = window.slots[i]
      BY <1>8, <2>1
    <3>2. i \in 1..n /\ n \in 1..n /\ i < n
      BY <1>5
    <3>3. QED
      BY <1>5, <1>9, <3>1, <3>2
  <2>2. CASE window'.slots[m].rank = window.insertrank
    BY <1>5, <1>8, <1>9, <2>2
  <2>3. QED
    BY <1>3, <1>7, <1>9, <2>1, <2>2
<1>11. QED
  BY <1>8, <1>10 DEF Rank

\* To make room the window gives up the tuple with the lowest rank, and only
\* for one that ranks higher (tuplewindow.c 517-519), provided that no column
\* has statistics with a range of 0.
THEOREM GivesUpLowestRankCorrect ==
    ASSUME RangesKnown
    PROVE  Spec => GivesUpLowestRank
<1> DEFINE Step == output' # output =>
             \A k \in Slots : Tuple(k) \notin InWindow' /\ Rank(k) # NaN =>
                 \A m \in 1..Len(window'.slots) :
                     window'.slots[m].rank # NaN => window'.slots[m].rank >= Rank(k)
<1>1. TypeInv /\ RankInv /\ [Next]_vars => [Step]_vars
  <2> SUFFICES ASSUME TypeInv, RankInv, [Next]_vars PROVE [Step]_vars
    OBVIOUS
  <2>1. CASE PassOn
    BY <2>1, PassOnEvicts, RanksAssumption
  <2>2. CASE ~PassOn
    <3>1. output' = output
      BY <2>2 DEF Next, vars, Start, Fetch, EndOfInput, Drop, RemoveDominated, MoveNext,
                  ReturnNull
    <3>2. QED
      BY <3>1
  <2>3. QED
    BY <2>1, <2>2
<1>2. TypeInv /\ RankInv /\ [Next]_vars => (TypeInv /\ RankInv)'
  BY NextTypeInv, NextRankInv
<1>3. Init => TypeInv /\ RankInv
  BY InitTypeInv, InitRankInv
<1>4. QED
  BY <1>1, <1>2, <1>3, PTL DEF Spec, GivesUpLowestRank

-----------------------------------------------------------------------------
(* The space of the window. *)

\* The free space is exact and the limit on the slots is kept.
SpaceIInv == SpaceKept(window)

LEMMA InitSpaceIInv == Init => SpaceIInv
<1> SUFFICES ASSUME Init PROVE SpaceIInv
  OBVIOUS
<1>1. PICK p \in Plans : window = tuplewindow_begin(p.memory, p.slots, WindowPolicy(p))
  BY DEF Init
<1>2. p.memory \in Int /\ p.slots \in Int /\ WindowPolicy(p) \in Policies
  BY PlansAssumption DEF WindowPolicy, Policies
<1> QED
  BY <1>1, <1>2, BeginSpace DEF SpaceIInv

LEMMA NextSpaceIInv == TypeInv /\ SpaceIInv /\ [Next]_vars => SpaceIInv'
<1> SUFFICES ASSUME TypeInv, SpaceIInv, [Next]_vars PROVE SpaceIInv'
  OBVIOUS
<1>1. window \in Windows(Ids) /\ CursorsInList(window) /\ SpaceKept(window)
  BY DEF TypeInv, TypeOK, SpaceIInv
<1>2. CASE Fetch
  <2> DEFINE i == outerPos + 1
  <2>1. i \in 1..Len(input) /\ window.insertrank \in Int \cup {NaN}
    BY <1>1, <1>2, FetchWindow DEF Windows
  <2>2. PICK rank \in InsertRanks(i) :
           window' = tuplewindow_setinsertrank(tuplewindow_rewind(window), rank)
    BY <1>2 DEF Fetch
  <2>3. rank \in Int \cup {NaN}
    BY <2>1, RowOfInput, RanksAssumption DEF InsertRanks, TypeInv
  <2> QED
    BY <1>1, <2>2, <2>3, StartSpace DEF SpaceIInv
<1>3. CASE RemoveDominated
  <2>1. ~tuplewindow_ateof(window) /\ window' = tuplewindow_removeslot(window, window.current)
    BY <1>3 DEF RemoveDominated, tuplewindow_removecurrent
  <2>2. window.current \in 1..Len(window.slots)
    BY <1>1, <2>1 DEF Windows, CursorsInList, tuplewindow_ateof, Nil
  <2> QED
    BY <1>1, <2>1, <2>2, RemoveSlotSpace DEF SpaceIInv
<1>4. CASE MoveNext
  <2>1. ~tuplewindow_ateof(window) /\ window' = tuplewindow_movenext(window)
    BY <1>4 DEF MoveNext
  <2> QED
    BY <1>1, <2>1, MoveNextSpace DEF SpaceIInv
<1>5. CASE PassOn
  <2> DEFINE space == TupleSpace(input[slot])
  <2>1. slot \in Ids /\ space \in Nat /\ 0 \in Nat
    BY <1>5, PassedTuple
  <2>2. window' = ForcedPut(window, slot, 0, space)
    BY <1>5 DEF PassOn
  <2> HIDE DEF space
  <2> QED
    BY <1>1, <2>1, <2>2, ForcedPutSpace DEF SpaceIInv
<1>6. CASE Start \/ EndOfInput \/ Drop \/ ReturnNull \/ UNCHANGED vars
  <2>1. window' = window
    BY <1>6 DEF Start, EndOfInput, Drop, ReturnNull, vars
  <2> QED
    BY <1>1, <2>1 DEF SpaceIInv
<1> QED
  BY <1>2, <1>3, <1>4, <1>5, <1>6 DEF Next

\* The counters of free space are exact after any number of insertions, forced
\* ones included, and removals (tuplewindow.c 397-404, 455-461): the window
\* neither forgets space it has nor takes more slots than it has.
THEOREM SpaceExact == Spec => []SpaceInv
<1>1. SpaceIInv => SpaceInv
  BY DEF SpaceIInv, SpaceInv, SpaceKept
<1>2. TypeInv /\ SpaceIInv /\ [Next]_vars => (TypeInv /\ SpaceIInv)'
  BY NextTypeInv, NextSpaceIInv
<1>3. Init => TypeInv /\ SpaceIInv
  BY InitTypeInv, InitSpaceIInv
<1> QED
  BY <1>1, <1>2, <1>3, PTL DEF Spec

-----------------------------------------------------------------------------
(* The end. *)

\* The variant is a tuple of natural numbers, of which DescentEnds says that
\* they cannot descend for ever.
VariantOK == Variant \in [1..4 -> Nat]

LEMMA VariantType == TypeInv => VariantOK
<1> SUFFICES ASSUME TypeInv PROVE VariantOK
  OBVIOUS
<1>1. StatusesLeft \in Nat
  BY DEF StatusesLeft
<1>2. Len(input) - outerPos \in Nat /\ Count(slot # 0) \in Nat
  BY DEF TypeInv, TypeOK, Count
<1>3. Len(window.slots) + 1 - window.current \in Nat
  BY DEF TypeInv, TypeOK, Windows, CursorsInList, Nil
<1> DEFINE a == StatusesLeft
           b == Len(input) - outerPos
           c == Count(slot # 0)
           d == Len(window.slots) + 1 - window.current
<1> HIDE DEF a, b, c, d
<1>4. <<a, b, c, d>> \in [1..4 -> Nat]
  BY <1>1, <1>2, <1>3 DEF a, b, c, d
<1> QED
  BY <1>4 DEF VariantOK, Variant, a, b, c, d

\* Four numbers descend where the first difference is.
LEMMA FourDescend ==
    ASSUME NEW a, NEW b, NEW c, NEW d, NEW a2, NEW b2, NEW c2, NEW d2,
           \/ a2 < a
           \/ a2 = a /\ b2 < b
           \/ a2 = a /\ b2 = b /\ c2 < c
           \/ a2 = a /\ b2 = b /\ c2 = c /\ d2 < d
    PROVE  Descends(<<a2, b2, c2, d2>>, <<a, b, c, d>>)
<1> DEFINE w == <<a, b, c, d>>
           v == <<a2, b2, c2, d2>>
<1>1. /\ DOMAIN w = 1..4 /\ w[1] = a /\ w[2] = b /\ w[3] = c /\ w[4] = d
      /\ v[1] = a2 /\ v[2] = b2 /\ v[3] = c2 /\ v[4] = d2
  OBVIOUS
<1> HIDE DEF v, w
<1>2. /\ 1 \in 1..4 /\ 2 \in 1..4 /\ 3 \in 1..4 /\ 4 \in 1..4
      /\ \A k \in 1..1-1 : FALSE
      /\ \A k \in 1..2-1 : k = 1
      /\ \A k \in 1..3-1 : k = 1 \/ k = 2
      /\ \A k \in 1..4-1 : k = 1 \/ k = 2 \/ k = 3
  OBVIOUS
<1>3. Descends(v, w)
  BY <1>1, <1>2 DEF Descends
<1> QED
  BY <1>3 DEF v, w

LEMMA NextDescends == TypeInv /\ [Next]_vars => [Descends(Variant', Variant)]_vars
<1> SUFFICES ASSUME TypeInv, Next, ~UNCHANGED vars PROVE Descends(Variant', Variant)
  BY DEF vars
<1> DEFINE a == StatusesLeft
           b == Len(input) - outerPos
           c == Count(slot # 0)
           d == Len(window.slots) + 1 - window.current
<1>1. input' = input /\ Len(input) \in Nat /\ outerPos \in Int
      /\ Len(window.slots) \in Nat /\ window.current \in Int
  <2>1. input' = input
    BY PlanUnchanged DEF plan
  <2> QED
    BY <2>1 DEF TypeInv, TypeOK, Windows
<1>0. status' = status => StatusesLeft' = StatusesLeft
  BY DEF StatusesLeft
<1>2. \/ a' < a
      \/ a' = a /\ b' < b
      \/ a' = a /\ b' = b /\ c' < c
      \/ a' = a /\ b' = b /\ c' = c /\ d' < d
  <2>1. CASE Start
    BY <2>1 DEF Start, StatusesLeft
  <2>2. CASE Fetch
    BY <1>0, <1>1, <2>2 DEF Fetch
  <2>3. CASE EndOfInput
    BY <2>3 DEF EndOfInput, StatusesLeft
  <2>4. CASE Drop
    BY <1>0, <1>1, <2>4 DEF Drop, Comparing, Count
  <2>5. CASE RemoveDominated
    <3>1. window'.current = window.current /\ Len(window'.slots) = Len(window.slots) - 1
      BY <2>5, RemoveDominatedWindow
    <3>2. outerPos' = outerPos /\ status' = status /\ slot' = slot
      BY <2>5 DEF RemoveDominated
    <3> QED
      BY <1>0, <1>1, <3>1, <3>2
  <2>6. CASE MoveNext
    <3>1. window'.slots = window.slots /\ window'.current = window.current + 1
      BY <2>6, NextTupleWindow
    <3>2. outerPos' = outerPos /\ status' = status /\ slot' = slot
      BY <2>6 DEF MoveNext
    <3> QED
      BY <1>0, <1>1, <3>1, <3>2
  <2>7. CASE PassOn
    BY <1>0, <1>1, <2>7 DEF PassOn, Comparing, Count
  <2>8. CASE ReturnNull
    BY <2>8 DEF ReturnNull
  <2> QED
    BY <2>1, <2>2, <2>3, <2>4, <2>5, <2>6, <2>7, <2>8 DEF Next
<1> HIDE DEF a, b, c, d
<1>3. Descends(<<a', b', c', d'>>, <<a, b, c, d>>)
  BY <1>2, FourDescend
<1> QED
  BY <1>3 DEF Variant, a, b, c, d

\* No step leaves the filter as far from its end as it was, whatever its limits
\* and its policy are, and with DescentEnds only finitely many steps change
\* anything: the loop of ExecElimFilter ends for every input.
THEOREM FilterProgresses == Spec => Progress /\ []VariantOK
<1>1. TypeInv /\ [Next]_vars => TypeInv' /\ [Descends(Variant', Variant)]_vars
  BY NextTypeInv, NextDescends
<1> QED
  BY <1>1, InitTypeInv, VariantType, PTL DEF Spec, Progress

=============================================================================
