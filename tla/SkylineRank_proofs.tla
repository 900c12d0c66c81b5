------------------------- MODULE SkylineRank_proofs -------------------------
(***************************************************************************)
(* What the proofs about the skyline methods use in place of the           *)
(* definitions of Dominance, TupleWindow and SkylineRank.                  *)
(*                                                                         *)
(* Dominance, as ExecSkylineIsDominating computes it, is a strict partial  *)
(* order and ALL_EQ the equivalence it is compatible with.  Every          *)
(* elimination in nodeSkyline.c relies on it: a tuple may be dropped       *)
(* because of one that is itself dropped later.  For the tuple window: what*)
(* each operation does to the list and the cursors, for every window.      *)
(***************************************************************************)
EXTENDS SkylineRank, Descent, WellFoundedInduction, TLAPS

\* The comparison of one column is antisymmetric (nodeSkyline.c 66-99).
LEMMA CompareAntisymmetric ==
    ASSUME NEW col \in Column, NEW d1 \in Datum, NEW d2 \in Datum
    PROVE  /\ ApplyCompare(col, d1, d2) \in {-1, 0, 1}
           /\ ApplyCompare(col, d2, d1) = -ApplyCompare(col, d1, d2)
  BY NullAssumption DEF ApplyCompare, Sign, Datum, Column

\* The comparison of one column is a total preorder: <= is transitive, and
\* strict as soon as one of the two steps is.
LEMMA CompareTransitive ==
    ASSUME NEW col \in Column,
           NEW d1 \in Datum, NEW d2 \in Datum, NEW d3 \in Datum,
           ApplyCompare(col, d1, d2) <= 0, ApplyCompare(col, d2, d3) <= 0
    PROVE  /\ ApplyCompare(col, d1, d3) <= 0
           /\ ApplyCompare(col, d1, d2) < 0 \/ ApplyCompare(col, d2, d3) < 0
              => ApplyCompare(col, d1, d3) < 0
           /\ ApplyCompare(col, d1, d2) = 0 /\ ApplyCompare(col, d2, d3) = 0
              => ApplyCompare(col, d1, d3) = 0
  BY NullAssumption DEF ApplyCompare, Sign, Datum, Column

-----------------------------------------------------------------------------

\* The three outcomes in terms of the columns.
LEMMA Outcomes ==
    ASSUME NEW node \in PlanNode, NEW a \in Row(node), NEW b \in Row(node)
    PROVE  /\ IsDominating(node, a, b) \in CmpResults
           /\ AllEq(node, a, b) <=>
                \A i \in Columns(node) : ApplyCompare(node.cols[i], a[i], b[i]) = 0
           /\ Dominates(node, a, b) <=>
                /\ \A i \in Columns(node) :
                     /\ ApplyCompare(node.cols[i], a[i], b[i]) <= 0
                     /\ node.cols[i].dir = "DIFF"
                          => ApplyCompare(node.cols[i], a[i], b[i]) = 0
                /\ \E i \in Columns(node) : ApplyCompare(node.cols[i], a[i], b[i]) < 0
           /\ IsDominating(node, a, b) = "SECOND_DOMINATES" <=>
                /\ \A i \in Columns(node) :
                     /\ ApplyCompare(node.cols[i], a[i], b[i]) >= 0
                     /\ node.cols[i].dir = "DIFF"
                          => ApplyCompare(node.cols[i], a[i], b[i]) = 0
                /\ \E i \in Columns(node) : ApplyCompare(node.cols[i], a[i], b[i]) > 0
<1> DEFINE cmp(i) == ApplyCompare(node.cols[i], a[i], b[i])
<1>1. \A i \in Columns(node) :
         /\ node.cols[i] \in Column
         /\ a[i] \in Datum
         /\ b[i] \in Datum
  BY DEF PlanNode, Columns, Row
<1>2. \A i \in Columns(node) : cmp(i) \in {-1, 0, 1}
  BY <1>1, CompareAntisymmetric
<1>3. IsDominating(node, a, b) =
        IF \/ \E i \in Columns(node) : node.cols[i].dir = "DIFF" /\ cmp(i) # 0
           \/ /\ \E i \in Columns(node) : node.cols[i].dir # "DIFF" /\ cmp(i) < 0
              /\ \E i \in Columns(node) : node.cols[i].dir # "DIFF" /\ cmp(i) > 0
        THEN "INCOMPARABLE"
        ELSE IF \E i \in Columns(node) : node.cols[i].dir # "DIFF" /\ cmp(i) < 0
             THEN "FIRST_DOMINATES"
        ELSE IF \E i \in Columns(node) : node.cols[i].dir # "DIFF" /\ cmp(i) > 0
             THEN "SECOND_DOMINATES"
        ELSE "ALL_EQ"
  BY DEF IsDominating
<1> HIDE DEF cmp
<1>4. /\ IsDominating(node, a, b) \in CmpResults
      /\ IsDominating(node, a, b) = "ALL_EQ" <=> \A i \in Columns(node) : cmp(i) = 0
      /\ IsDominating(node, a, b) = "FIRST_DOMINATES" <=>
           /\ \A i \in Columns(node) :
                cmp(i) <= 0 /\ (node.cols[i].dir = "DIFF" => cmp(i) = 0)
           /\ \E i \in Columns(node) : cmp(i) < 0
      /\ IsDominating(node, a, b) = "SECOND_DOMINATES" <=>
           /\ \A i \in Columns(node) :
                cmp(i) >= 0 /\ (node.cols[i].dir = "DIFF" => cmp(i) = 0)
           /\ \E i \in Columns(node) : cmp(i) > 0
  BY <1>2, <1>3 DEF CmpResults
<1> QED BY <1>4 DEF cmp, Dominates, AllEq

\* The second argument dominates exactly when the swapped call says the first
\* does: the two tests of the BNL inner loop (nodeSkyline.c 1001-1019) are
\* the two directions of one relation.
THEOREM DominanceMirror ==
    ASSUME NEW node \in PlanNode, NEW a \in Row(node), NEW b \in Row(node)
    PROVE  /\ IsDominating(node, a, b) = "SECOND_DOMINATES" <=> Dominates(node, b, a)
           /\ AllEq(node, a, b) <=> AllEq(node, b, a)
           /\ ~(Dominates(node, a, b) /\ Dominates(node, b, a))
           /\ ~(Dominates(node, a, b) /\ AllEq(node, a, b))
<1>1. \A i \in Columns(node) :
         /\ ApplyCompare(node.cols[i], a[i], b[i]) \in {-1, 0, 1}
         /\ ApplyCompare(node.cols[i], b[i], a[i]) = -ApplyCompare(node.cols[i], a[i], b[i])
  BY CompareAntisymmetric DEF PlanNode, Columns, Row
<1>2. QED
  BY <1>1, Outcomes

\* No tuple dominates itself, and every tuple is ALL_EQ to itself.
THEOREM DominanceIrreflexive ==
    ASSUME NEW node \in PlanNode, NEW a \in Row(node)
    PROVE  ~Dominates(node, a, a) /\ AllEq(node, a, a)
<1>1. \A i \in Columns(node) : ApplyCompare(node.cols[i], a[i], a[i]) = 0
  BY CompareAntisymmetric DEF PlanNode, Columns, Row
<1>2. QED
  BY <1>1, Outcomes

\* Dominance is transitive and ALL_EQ is a congruence for it: what a
\* tuple in the window eliminated stays eliminated when that tuple is replaced
\* by one that dominates or equals it.
THEOREM DominanceTransitive ==
    ASSUME NEW node \in PlanNode,
           NEW a \in Row(node), NEW b \in Row(node), NEW c \in Row(node)
    PROVE  /\ Dominates(node, a, b) /\ Dominates(node, b, c) => Dominates(node, a, c)
           /\ Dominates(node, a, b) /\ AllEq(node, b, c) => Dominates(node, a, c)
           /\ AllEq(node, a, b) /\ Dominates(node, b, c) => Dominates(node, a, c)
           /\ AllEq(node, a, b) /\ AllEq(node, b, c) => AllEq(node, a, c)
<1> DEFINE ab(i) == ApplyCompare(node.cols[i], a[i], b[i])
           bc(i) == ApplyCompare(node.cols[i], b[i], c[i])
           ac(i) == ApplyCompare(node.cols[i], a[i], c[i])
<1>1. \A i \in Columns(node) :
         /\ node.cols[i] \in Column
         /\ a[i] \in Datum /\ b[i] \in Datum /\ c[i] \in Datum
  BY DEF PlanNode, Columns, Row
<1>2. \A i \in Columns(node) :
         ab(i) \in {-1, 0, 1} /\ bc(i) \in {-1, 0, 1} /\ ac(i) \in {-1, 0, 1}
  BY <1>1, CompareAntisymmetric
<1>3. \A i \in Columns(node) : ab(i) <= 0 /\ bc(i) <= 0 =>
         /\ ac(i) <= 0
         /\ ab(i) < 0 \/ bc(i) < 0 => ac(i) < 0
         /\ ab(i) = 0 /\ bc(i) = 0 => ac(i) = 0
  BY <1>1, CompareTransitive
<1>4. /\ Dominates(node, a, b) <=>
           /\ \A i \in Columns(node) :
                ab(i) <= 0 /\ (node.cols[i].dir = "DIFF" => ab(i) = 0)
           /\ \E i \in Columns(node) : ab(i) < 0
      /\ Dominates(node, b, c) <=>
           /\ \A i \in Columns(node) :
                bc(i) <= 0 /\ (node.cols[i].dir = "DIFF" => bc(i) = 0)
           /\ \E i \in Columns(node) : bc(i) < 0
      /\ Dominates(node, a, c) <=>
           /\ \A i \in Columns(node) :
                ac(i) <= 0 /\ (node.cols[i].dir = "DIFF" => ac(i) = 0)
           /\ \E i \in Columns(node) : ac(i) < 0
      /\ AllEq(node, a, b) <=> \A i \in Columns(node) : ab(i) = 0
      /\ AllEq(node, b, c) <=> \A i \in Columns(node) : bc(i) = 0
      /\ AllEq(node, a, c) <=> \A i \in Columns(node) : ac(i) = 0
  BY Outcomes
<1> HIDE DEF ab, bc, ac
<1>5. Dominates(node, a, b) /\ Dominates(node, b, c) => Dominates(node, a, c)
  BY <1>2, <1>3, <1>4
<1>6. Dominates(node, a, b) /\ AllEq(node, b, c) => Dominates(node, a, c)
  BY <1>2, <1>3, <1>4
<1>7. AllEq(node, a, b) /\ Dominates(node, b, c) => Dominates(node, a, c)
  BY <1>2, <1>3, <1>4
<1>8. AllEq(node, a, b) /\ AllEq(node, b, c) => AllEq(node, a, c)
  BY <1>2, <1>3, <1>4
<1>9. QED
  BY <1>5, <1>6, <1>7, <1>8

-----------------------------------------------------------------------------
(* The tuple window. *)

\* Concatenation, element by element.
LEMMA ConcatElements ==
    ASSUME NEW S, NEW s \in Seq(S), NEW t \in Seq(S)
    PROVE  /\ s \o t \in Seq(S)
           /\ Len(s \o t) = Len(s) + Len(t)
           /\ \A i \in 1..Len(s)+Len(t) :
                (s \o t)[i] = IF i <= Len(s) THEN s[i] ELSE t[i - Len(s)]
  OBVIOUS

\* Linking a slot into the list shifts the slots behind it by one.
LEMMA LinkAtElements ==
    ASSUME NEW S, NEW s \in Seq(S), NEW e \in S, NEW k \in 1..Len(s)+1
    PROVE  /\ LinkAt(s, k, e) \in Seq(S)
           /\ Len(LinkAt(s, k, e)) = Len(s) + 1
           /\ \A i \in 1..Len(s)+1 :
                LinkAt(s, k, e)[i] =
                  IF i < k THEN s[i] ELSE IF i = k THEN e ELSE s[i-1]
<1> DEFINE left == SubSeq(s, 1, k-1)
           right == SubSeq(s, k, Len(s))
<1>1. left \in Seq(S) /\ Len(left) = k-1 /\ \A i \in 1..k-1 : left[i] = s[i]
  OBVIOUS
<1>2. /\ right \in Seq(S) /\ Len(right) = Len(s) - k + 1
      /\ \A i \in 1..Len(s)-k+1 : right[i] = s[i+k-1]
  OBVIOUS
<1> HIDE DEF left, right
<1>3. /\ left \o <<e>> \in Seq(S) /\ Len(left \o <<e>>) = k
      /\ \A i \in 1..k : (left \o <<e>>)[i] = IF i < k THEN s[i] ELSE e
  BY <1>1
<1>4. LinkAt(s, k, e) = (left \o <<e>>) \o right
  BY DEF LinkAt, left, right
<1> DEFINE front == left \o <<e>>
<1> HIDE DEF front
<1>5. front \in Seq(S) /\ right \in Seq(S)
  BY <1>2, <1>3 DEF front
<1>6. LinkAt(s, k, e) \in Seq(S) /\ Len(LinkAt(s, k, e)) = Len(s) + 1
  <2>1. LinkAt(s, k, e) = front \o right
    BY <1>4 DEF front
  <2>2. Len(front) = k
    BY <1>3 DEF front
  <2>3. front \in Seq(S) /\ right \in Seq(S) /\ Len(right) = Len(s) - k + 1
    BY <1>2, <1>5
  <2>4. front \o right \in Seq(S) /\ Len(front \o right) = Len(front) + Len(right)
    BY <2>3
  <2>5. QED
    BY <2>1, <2>2, <2>3, <2>4
<1>7. ASSUME NEW i \in 1..Len(s)+1
      PROVE  LinkAt(s, k, e)[i] =
               IF i < k THEN s[i] ELSE IF i = k THEN e ELSE s[i-1]
  <2>1. LinkAt(s, k, e)[i] = IF i <= k THEN front[i] ELSE right[i-k]
    BY <1>2, <1>3, <1>4, <1>5, ConcatElements DEF front
  <2>2. CASE i <= k
    BY <1>3, <2>1, <2>2 DEF front
  <2>3. CASE i > k
    BY <1>2, <2>1, <2>3
  <2>4. QED
    BY <2>2, <2>3
<1>8. QED
  BY <1>6, <1>7

\* Unlinking a slot moves the slots behind it up by one.
LEMMA UnlinkAtElements ==
    ASSUME NEW S, NEW s \in Seq(S), NEW k \in 1..Len(s)
    PROVE  /\ UnlinkAt(s, k) \in Seq(S)
           /\ Len(UnlinkAt(s, k)) = Len(s) - 1
           /\ \A i \in 1..Len(s)-1 :
                UnlinkAt(s, k)[i] = IF i < k THEN s[i] ELSE s[i+1]
<1> DEFINE left == SubSeq(s, 1, k-1)
           right == SubSeq(s, k+1, Len(s))
<1>1. left \in Seq(S) /\ Len(left) = k-1 /\ \A i \in 1..k-1 : left[i] = s[i]
  OBVIOUS
<1>2. /\ right \in Seq(S) /\ Len(right) = Len(s) - k
      /\ \A i \in 1..Len(s)-k : right[i] = s[i+k]
  OBVIOUS
<1> HIDE DEF left, right
<1>3. UnlinkAt(s, k) = left \o right
  BY DEF UnlinkAt, left, right
<1>4. UnlinkAt(s, k) \in Seq(S) /\ Len(UnlinkAt(s, k)) = Len(s) - 1
  BY <1>1, <1>2, <1>3
<1>5. ASSUME NEW i \in 1..Len(s)-1
      PROVE  UnlinkAt(s, k)[i] = IF i < k THEN s[i] ELSE s[i+1]
  <2>1. UnlinkAt(s, k)[i] = IF i <= k-1 THEN left[i] ELSE right[i-(k-1)]
    BY <1>1, <1>2, <1>3, SMTT(60)
  <2>2. QED
    BY <1>1, <1>2, <2>1
<1>6. QED
  BY <1>4, <1>5

-----------------------------------------------------------------------------

\* tuplewindow_begin returns an empty window.
LEMMA BeginWindow ==
    ASSUME NEW T, NEW maxMem \in Int, NEW maxSlots \in Int, NEW policy \in Policies
    PROVE  LET w == tuplewindow_begin(maxMem, maxSlots, policy)
           IN  w \in Windows(T) /\ CursorsInList(w) /\ w.slots = <<>>
  BY DEF tuplewindow_begin, Windows, CursorsInList, Nil, MinusDblMax

\* What the operations that move a cursor leave alone.
SameList(v, w) ==
    /\ v.slots = w.slots /\ v.policy = w.policy
    /\ v.availMem = w.availMem /\ v.availSlots = w.availSlots

\* So there is as much space as before.
LEMMA SameFreeSpace ==
    ASSUME NEW v, NEW w, SameList(v, w)
    PROVE  tuplewindow_has_freespace(v) <=> tuplewindow_has_freespace(w)
  BY DEF SameList, tuplewindow_has_freespace

\* tuplewindow_rewind and tuplewindow_setinsertrank leave the list alone.
LEMMA RewindWindow ==
    ASSUME NEW T, NEW w \in Windows(T)
    PROVE  LET v == tuplewindow_rewind(w)
           IN  /\ v \in Windows(T) /\ CursorsInList(v)
               /\ SameList(v, w) /\ v.slots = w.slots
               /\ v.current = 1 /\ v.rankinsert = 1 /\ v.insertrank = w.insertrank
<1> DEFINE v == tuplewindow_rewind(w)
           first == 1
<1>1. v = [w EXCEPT !.current = first, !.rankinsert = first]
  BY DEF tuplewindow_rewind
<1>2. first \in Nat \ {0}
  OBVIOUS
<1> HIDE DEF v, first
<1>3. v \in Windows(T)
  BY <1>1, <1>2 DEF Windows
<1>4. /\ v.slots = w.slots /\ v.current = first /\ v.rankinsert = first
      /\ v.insertrank = w.insertrank /\ SameList(v, w)
  BY <1>1 DEF Windows, SameList
<1>5. Len(w.slots) \in Nat
  BY DEF Windows
<1>6. CursorsInList(v) /\ v.current = 1 /\ v.rankinsert = 1
  BY <1>4, <1>5 DEF CursorsInList, Nil, first
<1>7. QED
  BY <1>3, <1>4, <1>6 DEF v

LEMMA SetInsertRankWindow ==
    ASSUME NEW T, NEW w \in Windows(T), CursorsInList(w), NEW rank \in Int \cup {NaN}
    PROVE  LET v == tuplewindow_setinsertrank(w, rank)
           IN  /\ v \in Windows(T) /\ CursorsInList(v)
               /\ SameList(v, w) /\ v.slots = w.slots
               /\ v.current = w.current /\ v.rankinsert = w.rankinsert
               /\ v.insertrank = rank
  BY DEF tuplewindow_setinsertrank, Windows, CursorsInList, Nil, SameList

\* tuplewindow_movenext moves the cursor by one slot, and the rank cursor at
\* most as far.
LEMMA MoveNextWindow ==
    ASSUME NEW T, NEW w \in Windows(T), CursorsInList(w), ~tuplewindow_ateof(w)
    PROVE  LET v == tuplewindow_movenext(w)
               passes == /\ Ranked(w)
                         /\ w.rankinsert = w.current
                         /\ RankGeq(CurrentSlot(w).rank, w.insertrank)
           IN  /\ v \in Windows(T) /\ CursorsInList(v)
               /\ SameList(v, w) /\ v.slots = w.slots
               /\ v.current = w.current + 1 /\ v.insertrank = w.insertrank
               /\ passes => v.rankinsert = w.rankinsert + 1
               /\ ~passes => v.rankinsert = w.rankinsert
<1> DEFINE v == tuplewindow_movenext(w)
           passes == /\ Ranked(w)
                     /\ w.rankinsert = w.current
                     /\ RankGeq(CurrentSlot(w).rank, w.insertrank)
           c == w.current + 1
           r == IF passes THEN w.rankinsert + 1 ELSE w.rankinsert
<1>1. w.current \in 1..Len(w.slots) /\ Len(w.slots) \in Nat
      /\ w.rankinsert \in 1..Len(w.slots)+1
  BY DEF Windows, CursorsInList, tuplewindow_ateof, Nil
<1>2. v = [w EXCEPT !.current = c, !.rankinsert = r]
  BY DEF tuplewindow_movenext
<1> HIDE DEF v, passes
<1>3. c \in 1..Len(w.slots)+1 /\ c \in Nat \ {0}
  BY <1>1
<1>4. r \in 1..Len(w.slots)+1 /\ r \in Nat
  <2>1. passes => w.rankinsert = w.current
    BY DEF passes
  <2>2. QED
    BY <1>1, <2>1
<1>5. (passes => r = w.rankinsert + 1) /\ (~passes => r = w.rankinsert)
  OBVIOUS
<1> HIDE DEF r, c
<1>6. v \in Windows(T)
  BY <1>2, <1>3, <1>4 DEF Windows
<1>7. /\ v.slots = w.slots /\ SameList(v, w) /\ v.insertrank = w.insertrank
      /\ v.current = c /\ v.rankinsert = r
  BY <1>2 DEF Windows, SameList
<1>8. CursorsInList(v)
  BY <1>1, <1>3, <1>4, <1>7 DEF CursorsInList, Nil
<1>9. QED
  BY <1>5, <1>6, <1>7, <1>8 DEF v, c, passes

\* tuplewindow_removeslot unlinks slot k; a cursor there is on the next slot
\* afterwards.
LEMMA RemoveSlotWindow ==
    ASSUME NEW T, NEW w \in Windows(T), CursorsInList(w), NEW k \in 1..Len(w.slots)
    PROVE  LET v == tuplewindow_removeslot(w, k)
           IN  /\ v \in Windows(T) /\ CursorsInList(v)
               /\ v.slots = UnlinkAt(w.slots, k)
               /\ v.current = IF w.current > k THEN w.current - 1 ELSE w.current
               /\ v.rankinsert = IF w.rankinsert > k THEN w.rankinsert - 1 ELSE w.rankinsert
               /\ v.insertrank = w.insertrank /\ v.policy = w.policy
<1>1. /\ w.slots \in Seq(Entries(T)) /\ Len(w.slots) \in Nat
      /\ w.current \in 1..Len(w.slots)+1 /\ w.rankinsert \in 1..Len(w.slots)+1
  BY DEF Windows, CursorsInList, Nil
<1>2. UnlinkAt(w.slots, k) \in Seq(Entries(T))
      /\ Len(UnlinkAt(w.slots, k)) = Len(w.slots) - 1
  BY <1>1, UnlinkAtElements
<1>3. w.slots[k] \in Entries(T)
  BY <1>1
<1>4. w.slots[k].space \in Nat
  BY <1>3 DEF Entries
<1> DEFINE v == tuplewindow_removeslot(w, k)
           slots == UnlinkAt(w.slots, k)
           mem == w.availMem + w.slots[k].space
           avail == IF w.availSlots # -1 THEN w.availSlots + 1 ELSE w.availSlots
           c == IF w.current > k THEN w.current - 1 ELSE w.current
           r == IF w.rankinsert > k THEN w.rankinsert - 1 ELSE w.rankinsert
<1>5. v = [w EXCEPT !.slots = slots, !.availMem = mem, !.availSlots = avail,
                    !.current = c, !.rankinsert = r]
  BY DEF tuplewindow_removeslot
<1>6. w.availMem \in Int /\ w.availSlots \in Int
  BY DEF Windows
<1>7. mem \in Int /\ avail \in Int
  BY <1>4, <1>6
<1>8. c \in 1..Len(w.slots) /\ r \in 1..Len(w.slots)
  BY <1>1
<1> HIDE DEF v, slots, mem, avail, c, r
<1>9. c \in Nat \ {0} /\ r \in Nat /\ slots \in Seq(Entries(T))
  BY <1>1, <1>2, <1>8 DEF slots
<1>10. v \in Windows(T)
  BY <1>5, <1>7, <1>9 DEF Windows
<1>11. /\ v.slots = slots /\ v.current = c /\ v.rankinsert = r
       /\ v.insertrank = w.insertrank /\ v.policy = w.policy
  BY <1>5 DEF Windows
<1>12. CursorsInList(v)
  BY <1>1, <1>2, <1>8, <1>11 DEF CursorsInList, Nil, slots
<1>13. QED
  BY <1>10, <1>11, <1>12 DEF v, slots, c, r

\* tuplewindow_removecurrent unlinks the slot at the cursor and leaves the
\* cursor on the slot that followed it.
LEMMA RemoveCurrentWindow ==
    ASSUME NEW T, NEW w \in Windows(T), CursorsInList(w), ~tuplewindow_ateof(w)
    PROVE  LET v == tuplewindow_removecurrent(w)
           IN  v \in Windows(T) /\ CursorsInList(v)
               /\ v.slots = UnlinkAt(w.slots, w.current) /\ v.current = w.current
<1>1. w.current \in 1..Len(w.slots)
  BY DEF Windows, CursorsInList, tuplewindow_ateof, Nil
<1>2. tuplewindow_removecurrent(w) = tuplewindow_removeslot(w, w.current)
  BY DEF tuplewindow_removecurrent
<1>3. ~(w.current > w.current)
  BY <1>1
<1>4. QED
  BY <1>1, <1>2, <1>3, RemoveSlotWindow

\* The list t is the list s with a slot for the tuple linked in at position n.
Inserted(s, t, n, tuple, timestamp) ==
    /\ Len(t) = Len(s) + 1
    /\ t[n].tuple = tuple
    /\ t[n].timestamp = timestamp
    /\ \A k \in 1..Len(s)+1 : k # n => t[k] = s[IF k < n THEN k ELSE k-1]

\* A cursor at the new slot's position or behind it keeps its slot.
CursorsMakeRoom(w, v, n) ==
    /\ v.current = IF w.current >= n THEN w.current + 1 ELSE w.current
    /\ v.rankinsert = IF w.rankinsert >= n THEN w.rankinsert + 1 ELSE w.rankinsert

\* tuplewindow_puttupleslot links the tuple in once: in a ranked window where
\* the rank cursor is.
LEMMA PutWindow ==
    ASSUME NEW T, NEW w \in Windows(T), CursorsInList(w), tuplewindow_has_freespace(w),
           NEW tuple \in T, NEW timestamp \in Nat, NEW space \in Nat
    PROVE  LET v == tuplewindow_puttupleslot(w, tuple, timestamp, space)
           IN  /\ v \in Windows(T) /\ CursorsInList(v)
               /\ v.insertrank = w.insertrank /\ v.policy = w.policy
               /\ \E n \in 1..Len(w.slots)+1 :
                    /\ Inserted(w.slots, v.slots, n, tuple, timestamp)
                    /\ Ranked(w) => n = w.rankinsert /\ v.slots[n].rank = w.insertrank
                    /\ ~Ranked(w) => v.slots[n].rank = MinusDblMax
                    /\ CursorsMakeRoom(w, v, n)
<1>1. /\ w.slots \in Seq(Entries(T)) /\ Len(w.slots) \in Nat
      /\ w.rankinsert \in 1..Len(w.slots)+1 /\ w.current \in 1..Len(w.slots)+1
      /\ w.insertrank \in Int \cup {NaN}
  BY DEF Windows, CursorsInList, Nil
<1>2. ASSUME NEW e \in Entries(T), NEW k \in 1..Len(w.slots)+1
      PROVE  InsertSlot(w, e, k) \in Windows(T) /\ CursorsInList(InsertSlot(w, e, k))
             /\ Inserted(w.slots, InsertSlot(w, e, k).slots, k, e.tuple, e.timestamp)
             /\ InsertSlot(w, e, k).slots[k].rank = e.rank
             /\ CursorsMakeRoom(w, InsertSlot(w, e, k), k)
             /\ InsertSlot(w, e, k).insertrank = w.insertrank
             /\ InsertSlot(w, e, k).policy = w.policy
  <2>1. /\ LinkAt(w.slots, k, e) \in Seq(Entries(T))
        /\ Len(LinkAt(w.slots, k, e)) = Len(w.slots) + 1
        /\ \A i \in 1..Len(w.slots)+1 :
             LinkAt(w.slots, k, e)[i] =
               IF i < k THEN w.slots[i] ELSE IF i = k THEN e ELSE w.slots[i-1]
    <3> DEFINE s == w.slots
               S == Entries(T)
    <3>1. s \in Seq(S) /\ e \in S /\ k \in 1..Len(s)+1
      BY <1>1
    <3> HIDE DEF s, S
    <3>2. /\ LinkAt(s, k, e) \in Seq(S)
          /\ Len(LinkAt(s, k, e)) = Len(s) + 1
          /\ \A i \in 1..Len(s)+1 :
               LinkAt(s, k, e)[i] = IF i < k THEN s[i] ELSE IF i = k THEN e ELSE s[i-1]
      BY <3>1, LinkAtElements
    <3>3. QED
      BY <3>2 DEF s, S
  <2>2. e.space \in Nat
    BY DEF Entries
  <2> DEFINE v == InsertSlot(w, e, k)
             slots == LinkAt(w.slots, k, e)
             mem == w.availMem - e.space
             avail == IF w.availSlots # -1 THEN w.availSlots - 1 ELSE w.availSlots
             c == IF w.current >= k THEN w.current + 1 ELSE w.current
             r == IF w.rankinsert >= k THEN w.rankinsert + 1 ELSE w.rankinsert
  <2>3. v = [w EXCEPT !.slots = slots, !.availMem = mem, !.availSlots = avail,
                      !.current = c, !.rankinsert = r]
    BY DEF InsertSlot
  <2>4. w.availMem \in Int /\ w.availSlots \in Int
    BY DEF Windows
  <2>5. mem \in Int /\ avail \in Int
    BY <2>2, <2>4
  <2>6. c \in 1..Len(w.slots)+2 /\ r \in 1..Len(w.slots)+2
    BY <1>1, SMTT(60)
  <2> HIDE DEF v, slots, mem, avail, c, r
  <2>7. c \in Nat \ {0} /\ r \in Nat \ {0} /\ slots \in Seq(Entries(T))
    BY <1>1, <2>1, <2>6 DEF slots
  <2>8. v \in Windows(T)
    BY <2>3, <2>5, <2>7 DEF Windows
  <2>9. /\ v.slots = slots /\ v.current = c /\ v.rankinsert = r
        /\ v.insertrank = w.insertrank /\ v.policy = w.policy
    BY <2>3 DEF Windows
  <2>10. CursorsInList(v)
    BY <1>1, <2>1, <2>6, <2>9 DEF CursorsInList, Nil, slots
  <2>11. Inserted(w.slots, slots, k, e.tuple, e.timestamp)
    BY <2>1 DEF Inserted, slots
  <2>12. slots[k].rank = e.rank
    BY <1>1, <2>1 DEF slots
  <2>13. CursorsMakeRoom(w, v, k)
    BY <2>9 DEF CursorsMakeRoom, c, r
  <2>14. QED
    BY <2>8, <2>9, <2>10, <2>11, <2>12, <2>13 DEF v
<1>3. ASSUME NEW rank \in Int \cup {NaN}
      PROVE  /\ Entry(tuple, timestamp, rank, space) \in Entries(T)
             /\ Entry(tuple, timestamp, rank, space).tuple = tuple
             /\ Entry(tuple, timestamp, rank, space).timestamp = timestamp
             /\ Entry(tuple, timestamp, rank, space).rank = rank
  BY DEF Entry, Entries
<1>4. CASE Ranked(w)
  <2>1. tuplewindow_puttupleslot(w, tuple, timestamp, space) =
          InsertSlot(w, Entry(tuple, timestamp, w.insertrank, space), w.rankinsert)
    BY <1>4 DEF tuplewindow_puttupleslot
  <2> DEFINE e == Entry(tuple, timestamp, w.insertrank, space)
             v == InsertSlot(w, e, w.rankinsert)
  <2>2. /\ e \in Entries(T) /\ e.tuple = tuple /\ e.timestamp = timestamp
        /\ e.rank = w.insertrank
    BY <1>1, <1>3
  <2> HIDE DEF e
  <2>3. /\ v \in Windows(T) /\ CursorsInList(v)
        /\ v.insertrank = w.insertrank /\ v.policy = w.policy
        /\ Inserted(w.slots, v.slots, w.rankinsert, tuple, timestamp)
        /\ v.slots[w.rankinsert].rank = w.insertrank
        /\ CursorsMakeRoom(w, v, w.rankinsert)
    BY <1>1, <1>2, <2>2
  <2>4. tuplewindow_puttupleslot(w, tuple, timestamp, space) = v
    BY <2>1 DEF e
  <2> HIDE DEF v
  <2>5. QED
    BY <1>1, <1>4, <2>3, <2>4
<1>5. CASE ~Ranked(w)
  <2> DEFINE k == IF w.policy = "APPEND" THEN Nil(w) ELSE 1
  <2>1. tuplewindow_puttupleslot(w, tuple, timestamp, space) =
          InsertSlot(w, Entry(tuple, timestamp, MinusDblMax, space), k)
    BY <1>5 DEF tuplewindow_puttupleslot
  <2>2. k \in 1..Len(w.slots)+1 /\ MinusDblMax \in Int \cup {NaN}
    BY <1>1 DEF Nil, MinusDblMax
  <2> HIDE DEF k
  <2> DEFINE e == Entry(tuple, timestamp, MinusDblMax, space)
             v == InsertSlot(w, e, k)
  <2>3. /\ e \in Entries(T) /\ e.tuple = tuple /\ e.timestamp = timestamp
        /\ e.rank = MinusDblMax
    BY <1>3, <2>2
  <2> HIDE DEF e
  <2>4. /\ v \in Windows(T) /\ CursorsInList(v)
        /\ v.insertrank = w.insertrank /\ v.policy = w.policy
        /\ Inserted(w.slots, v.slots, k, tuple, timestamp)
        /\ v.slots[k].rank = MinusDblMax
        /\ CursorsMakeRoom(w, v, k)
    BY <1>1, <1>2, <2>2, <2>3
  <2>5. tuplewindow_puttupleslot(w, tuple, timestamp, space) = v
    BY <2>1 DEF e
  <2> HIDE DEF v
  <2>6. QED
    BY <1>1, <1>5, <2>2, <2>4, <2>5
<1>6. QED
  BY <1>4, <1>5

\* tuplewindow_clean empties the window; only the rank cursor may dangle.
LEMMA CleanWindow ==
    ASSUME NEW T, NEW w \in Windows(T)
    PROVE  LET v == tuplewindow_clean(w)
           IN  /\ v \in Windows(T)
               /\ v.slots = <<>> /\ v.current = 1 /\ v.rankinsert \in {Dangling, 1}
               /\ v.insertrank = w.insertrank /\ v.policy = w.policy
<1> DEFINE v == tuplewindow_clean(w)
           first == 1
           r == IF w.rankinsert = Nil(w) THEN 1 ELSE Dangling
<1>1. v = [w EXCEPT !.slots = <<>>, !.current = first, !.rankinsert = r,
                    !.availMem = w.maxMem, !.availSlots = w.maxSlots]
  BY DEF tuplewindow_clean
<1>2. r \in {Dangling, 1} /\ r \in Nat /\ first \in Nat \ {0}
  BY DEF Dangling
<1> HIDE DEF v, r, first
<1>3. /\ w.maxMem \in Int /\ w.maxSlots \in Int /\ <<>> \in Seq(Entries(T))
  BY DEF Windows
<1>4. v \in Windows(T)
  BY <1>1, <1>2, <1>3 DEF Windows
<1>5. /\ v.slots = <<>> /\ v.current = first /\ v.rankinsert = r
      /\ v.insertrank = w.insertrank /\ v.policy = w.policy
  BY <1>1 DEF Windows
<1>6. QED
  BY <1>2, <1>4, <1>5 DEF v, first

\* MakeRoom unlinks the last slot, if any.
LEMMA MakeRoomWindow ==
    ASSUME NEW T, NEW w \in Windows(T), CursorsInList(w)
    PROVE  LET v == MakeRoom(w)
               n == Len(w.slots)
           IN  /\ v \in Windows(T) /\ CursorsInList(v)
               /\ v.insertrank = w.insertrank /\ v.policy = w.policy
               /\ \/ v = w
                  \/ /\ n \in Nat \ {0} /\ v = tuplewindow_removeslot(w, n)
                     /\ RankGreater(w.insertrank, w.slots[n].rank)
                     /\ Len(v.slots) = n - 1
                     /\ \A k \in 1..n-1 : v.slots[k] = w.slots[k]
<1> DEFINE n == Len(w.slots)
           full == /\ Ranked(w)
                   /\ ~tuplewindow_has_freespace(w)
                   /\ w.slots # <<>>
                   /\ RankGreater(w.insertrank, w.slots[Len(w.slots)].rank)
<1>1. w.slots \in Seq(Entries(T)) /\ n \in Nat
  BY DEF Windows
<1>2. CASE ~full
  BY <1>2 DEF MakeRoom
<1>3. CASE full
  <2>1. MakeRoom(w) = tuplewindow_removeslot(w, n)
    BY <1>3 DEF MakeRoom
  <2>2. n \in 1..Len(w.slots) /\ RankGreater(w.insertrank, w.slots[n].rank)
    BY <1>1, <1>3
  <2> DEFINE v == tuplewindow_removeslot(w, n)
  <2>3. /\ v \in Windows(T) /\ CursorsInList(v)
        /\ v.slots = UnlinkAt(w.slots, n)
        /\ v.insertrank = w.insertrank /\ v.policy = w.policy
    BY <2>2, RemoveSlotWindow
  <2>4. /\ Len(UnlinkAt(w.slots, n)) = n - 1
        /\ \A k \in 1..n-1 : UnlinkAt(w.slots, n)[k] = IF k < n THEN w.slots[k]
                                                        ELSE w.slots[k+1]
    BY <1>1, <2>2, UnlinkAtElements
  <2> HIDE DEF v
  <2>5. Len(v.slots) = n - 1 /\ \A k \in 1..n-1 : v.slots[k] = w.slots[k]
    BY <1>1, <2>3, <2>4
  <2>6. QED
    BY <1>1, <2>1, <2>2, <2>3, <2>5 DEF v
<1>4. QED
  BY <1>2, <1>3

\* A forced insertion keeps the slots, the last one perhaps not, and links the
\* new one in among them or not at all.
LEMMA ForcedPutWindow ==
    ASSUME NEW T, NEW w \in Windows(T), CursorsInList(w),
           NEW tuple \in T, NEW timestamp \in Nat, NEW space \in Nat
    PROVE  LET v == ForcedPut(w, tuple, timestamp, space)
               kept == MakeRoom(w).slots
           IN  /\ v \in Windows(T) /\ CursorsInList(v)
               /\ Len(kept) \in 0..Len(w.slots)
               /\ \A k \in 1..Len(kept) : kept[k] = w.slots[k]
               /\ \/ v.slots = kept
                  \/ \E n \in 1..Len(kept)+1 :
                       Inserted(kept, v.slots, n, tuple, timestamp)
<1> DEFINE room == MakeRoom(w)
<1>1. Len(w.slots) \in Nat
  BY DEF Windows
<1>2. /\ room \in Windows(T) /\ CursorsInList(room)
      /\ Len(room.slots) \in 0..Len(w.slots)
      /\ \A k \in 1..Len(room.slots) : room.slots[k] = w.slots[k]
  BY <1>1, MakeRoomWindow
<1> HIDE DEF room
<1>3. CASE tuplewindow_has_freespace(room)
  <2> DEFINE v == tuplewindow_puttupleslot(room, tuple, timestamp, space)
  <2>1. /\ v \in Windows(T) /\ CursorsInList(v)
        /\ \E n \in 1..Len(room.slots)+1 :
             Inserted(room.slots, v.slots, n, tuple, timestamp)
    BY <1>2, <1>3, PutWindow
  <2>2. ForcedPut(w, tuple, timestamp, space) = v
    BY <1>3 DEF ForcedPut, room
  <2> HIDE DEF v
  <2>3. QED
    BY <1>2, <2>1, <2>2 DEF room
<1>4. CASE ~tuplewindow_has_freespace(room)
  <2>1. ForcedPut(w, tuple, timestamp, space) = room
    BY <1>4 DEF ForcedPut, room
  <2>2. QED
    BY <1>2, <2>1 DEF room
<1>5. QED
  BY <1>3, <1>4

-----------------------------------------------------------------------------
(* Ranks. *)

\* Every rank is a number, and those of a ranked window descend.
RanksOrdered(w) ==
    /\ w.insertrank \in Int
    /\ \A k \in 1..Len(w.slots) : w.slots[k].rank \in Int
    /\ Ranked(w) => \A k, m \in 1..Len(w.slots) :
                      k < m => w.slots[k].rank >= w.slots[m].rank

LEMMA OrderedDescends ==
    ASSUME NEW w, RanksOrdered(w)
    PROVE  RanksDescend(w)
  BY DEF RanksOrdered, RanksDescend

\* The ranks depend on the list and the rank to insert only.
LEMMA SameRanks ==
    ASSUME NEW w, NEW v, RanksOrdered(w), SameList(v, w), v.insertrank \in Int
    PROVE  RanksOrdered(v)
  BY DEF RanksOrdered, SameList, Ranked

\* An empty list is ordered.
LEMMA EmptyRanks ==
    ASSUME NEW w, w.slots = <<>>, w.insertrank \in Int
    PROVE  RanksOrdered(w)
  BY DEF RanksOrdered

\* A rank cursor at the first slot is in place.
LEMMA FirstInPlace ==
    ASSUME NEW w, w.current = 1, w.rankinsert = 1
    PROVE  RankCursorInPlace(w)
  BY DEF RankCursorInPlace

\* tuplewindow_rewind followed by tuplewindow_setinsertrank.
LEMMA StartRanks ==
    ASSUME NEW T, NEW w \in Windows(T), NEW rank \in Int, RanksOrdered(w)
    PROVE  LET v == tuplewindow_setinsertrank(tuplewindow_rewind(w), rank)
           IN  RanksOrdered(v) /\ RankCursorInPlace(v)
<1> DEFINE u == tuplewindow_rewind(w)
           v == tuplewindow_setinsertrank(u, rank)
<1>1. u \in Windows(T) /\ CursorsInList(u) /\ SameList(u, w)
      /\ u.current = 1 /\ u.rankinsert = 1
  BY RewindWindow
<1> HIDE DEF u
<1>2. SameList(v, u) /\ v.insertrank = rank /\ v.current = 1 /\ v.rankinsert = 1
  BY <1>1, SetInsertRankWindow
<1>3. SameList(v, w)
  BY <1>1, <1>2 DEF SameList
<1> HIDE DEF v
<1>4. RanksOrdered(v)
  BY <1>2, <1>3, SameRanks
<1>5. RankCursorInPlace(v)
  BY <1>2, FirstInPlace
<1>6. QED
  BY <1>4, <1>5 DEF u, v

LEMMA RewindRanks ==
    ASSUME NEW T, NEW w \in Windows(T), RanksOrdered(w)
    PROVE  LET v == tuplewindow_rewind(w)
           IN  RanksOrdered(v) /\ RankCursorInPlace(v)
<1> DEFINE v == tuplewindow_rewind(w)
<1>1. SameList(v, w) /\ v.current = 1 /\ v.rankinsert = 1 /\ v.insertrank = w.insertrank
  BY RewindWindow
<1> HIDE DEF v
<1>2. w.insertrank \in Int
  BY DEF RanksOrdered
<1>3. RanksOrdered(v)
  BY <1>1, <1>2, SameRanks
<1>4. RankCursorInPlace(v)
  BY <1>1, FirstInPlace
<1>5. QED
  BY <1>3, <1>4 DEF v

\* The rank cursor stops at the first slot that ranks lower.
LEMMA MoveNextRanks ==
    ASSUME NaN \notin Int,
           NEW T, NEW w \in Windows(T), CursorsInList(w), ~tuplewindow_ateof(w),
           RanksOrdered(w), RankCursorInPlace(w)
    PROVE  LET v == tuplewindow_movenext(w)
           IN  RanksOrdered(v) /\ RankCursorInPlace(v)
<1> DEFINE v == tuplewindow_movenext(w)
           passes == /\ Ranked(w)
                     /\ w.rankinsert = w.current
                     /\ RankGeq(CurrentSlot(w).rank, w.insertrank)
<1>1. /\ SameList(v, w) /\ v.current = w.current + 1 /\ v.insertrank = w.insertrank
      /\ passes => v.rankinsert = w.rankinsert + 1
      /\ ~passes => v.rankinsert = w.rankinsert
  BY MoveNextWindow
<1> HIDE DEF v
<1>2. w.insertrank \in Int
  BY DEF RanksOrdered
<1>3. RanksOrdered(v)
  BY <1>1, <1>2, SameRanks
<1>4. /\ w.current \in 1..Len(w.slots) /\ Len(w.slots) \in Nat
      /\ w.rankinsert \in 1..Len(w.slots)+1
  BY DEF Windows, CursorsInList, tuplewindow_ateof, Nil
<1>5. ASSUME Ranked(v) PROVE RankCursorInPlace(v)
  <2>1. /\ Ranked(w) /\ v.slots = w.slots /\ w.rankinsert <= w.current
        /\ \A k \in 1..w.rankinsert-1 : w.slots[k].rank >= w.insertrank
        /\ w.rankinsert < w.current => w.slots[w.rankinsert].rank < w.insertrank
    BY <1>1, <1>5 DEF SameList, Ranked, RankCursorInPlace
  <2>2. w.slots[w.current].rank \in Int
    BY <1>4 DEF RanksOrdered
  <2>3. CASE passes
    <3>1. w.slots[w.current].rank >= w.insertrank
      BY <2>3 DEF RankGeq, CurrentSlot
    <3>2. QED
      BY <1>1, <1>4, <2>1, <2>3, <3>1 DEF RankCursorInPlace
  <2>4. CASE ~passes
    <3>1. w.rankinsert = w.current => w.slots[w.current].rank < w.insertrank
      BY <1>2, <2>1, <2>2, <2>4 DEF RankGeq, CurrentSlot
    <3>2. QED
      BY <1>1, <1>4, <2>1, <2>4, <3>1 DEF RankCursorInPlace
  <2>5. QED
    BY <2>3, <2>4
<1>6. QED
  BY <1>3, <1>5 DEF RankCursorInPlace, v

\* The rank cursor survives the removal of the slot it points to: the next
\* slot ranks no higher.
LEMMA RemoveSlotRanks ==
    ASSUME NEW T, NEW w \in Windows(T), CursorsInList(w), NEW k \in 1..Len(w.slots),
           RanksOrdered(w), RankCursorInPlace(w)
    PROVE  LET v == tuplewindow_removeslot(w, k)
           IN  RanksOrdered(v) /\ RankCursorInPlace(v)
<1> DEFINE v == tuplewindow_removeslot(w, k)
           len == Len(w.slots)
<1>1. /\ v.slots = UnlinkAt(w.slots, k)
      /\ v.current = IF w.current > k THEN w.current - 1 ELSE w.current
      /\ v.rankinsert = IF w.rankinsert > k THEN w.rankinsert - 1 ELSE w.rankinsert
      /\ v.insertrank = w.insertrank /\ v.policy = w.policy
  BY RemoveSlotWindow
<1> HIDE DEF v
<1>2. /\ w.slots \in Seq(Entries(T)) /\ len \in Nat
      /\ w.current \in 1..len+1 /\ w.rankinsert \in 1..len+1
  BY DEF Windows, CursorsInList, Nil
<1>3. /\ Len(v.slots) = len - 1
      /\ \A i \in 1..len-1 : v.slots[i] = IF i < k THEN w.slots[i] ELSE w.slots[i+1]
  BY <1>1, <1>2, UnlinkAtElements, SMTT(60)
<1>4. /\ w.insertrank \in Int /\ \A i \in 1..len : w.slots[i].rank \in Int
      /\ Ranked(w) => \A i, m \in 1..len : i < m => w.slots[i].rank >= w.slots[m].rank
  BY DEF RanksOrdered
<1>5. RanksOrdered(v)
  <2>1. \A i \in 1..len-1 : v.slots[i].rank \in Int
    BY <1>2, <1>3, <1>4, SMTT(60)
  <2>2. ASSUME Ranked(v), NEW i \in 1..len-1, NEW m \in 1..len-1, i < m
        PROVE  v.slots[i].rank >= v.slots[m].rank
    <3>1. Ranked(w)
      BY <1>1, <2>2 DEF Ranked
    <3>2. PICK i1 \in 1..len, m1 \in 1..len :
             i1 < m1 /\ v.slots[i] = w.slots[i1] /\ v.slots[m] = w.slots[m1]
      <4>1. /\ (IF i < k THEN i ELSE i+1) \in 1..len
            /\ (IF m < k THEN m ELSE m+1) \in 1..len
            /\ (IF i < k THEN i ELSE i+1) < (IF m < k THEN m ELSE m+1)
        BY <1>2, <2>2
      <4>2. QED
        BY <1>3, <2>2, <4>1
    <3>3. QED
      BY <1>4, <3>1, <3>2
  <2>3. QED
    BY <1>1, <1>3, <1>4, <2>1, <2>2 DEF RanksOrdered
<1>6. ASSUME Ranked(v) PROVE RankCursorInPlace(v)
  <2>1. /\ Ranked(w) /\ w.rankinsert <= w.current
        /\ \A i \in 1..w.rankinsert-1 : w.slots[i].rank >= w.insertrank
        /\ w.rankinsert < w.current => w.slots[w.rankinsert].rank < w.insertrank
    BY <1>1, <1>6 DEF Ranked, RankCursorInPlace
  <2>2. v.rankinsert <= v.current
    BY <1>1, <1>2, <2>1
  <2>3. ASSUME NEW i \in 1..v.rankinsert-1
        PROVE  v.slots[i].rank >= v.insertrank
    <3>1. i \in 1..len-1 /\ (IF i < k THEN i ELSE i+1) \in 1..w.rankinsert-1
      BY <1>1, <1>2
    <3>2. QED
      BY <1>1, <1>3, <2>1, <3>1
  <2>4. ASSUME v.rankinsert < v.current
        PROVE  v.slots[v.rankinsert].rank < v.insertrank
    <3>1. w.rankinsert < w.current /\ v.rankinsert \in 1..len-1
      BY <1>1, <1>2, <2>4
    <3>2. CASE w.rankinsert = k
      <4>1. w.rankinsert + 1 \in 1..len /\ v.slots[v.rankinsert] = w.slots[w.rankinsert + 1]
        BY <1>1, <1>2, <1>3, <2>4, <3>1, <3>2
      <4>2. w.slots[w.rankinsert].rank >= w.slots[w.rankinsert + 1].rank
        BY <1>2, <1>4, <2>1, <3>2, <4>1
      <4>3. /\ w.slots[w.rankinsert].rank \in Int /\ w.slots[w.rankinsert + 1].rank \in Int
        BY <1>4, <3>2, <4>1
      <4>4. QED
        BY <1>1, <1>4, <2>1, <3>1, <4>1, <4>2, <4>3
    <3>3. CASE w.rankinsert # k
      <4>1. v.rankinsert = IF w.rankinsert < k THEN w.rankinsert ELSE w.rankinsert - 1
        BY <1>1, <1>2, <3>3
      <4>2. w.rankinsert = IF v.rankinsert < k THEN v.rankinsert ELSE v.rankinsert + 1
        BY <1>2, <3>3, <4>1
      <4>3. v.slots[v.rankinsert] = w.slots[w.rankinsert]
        BY <1>3, <3>1, <4>2
      <4>4. QED
        BY <1>1, <2>1, <3>1, <4>3
    <3>4. QED
      BY <3>2, <3>3
  <2>5. QED
    BY <2>2, <2>3, <2>4 DEF RankCursorInPlace
<1>7. QED
  BY <1>5, <1>6 DEF RankCursorInPlace, v

\* The new slot is linked in where its rank belongs, once the cursor has come
\* to the end of the list.
LEMMA PutRanks ==
    ASSUME NEW T, NEW w \in Windows(T), CursorsInList(w), tuplewindow_has_freespace(w),
           NEW tuple \in T, NEW timestamp \in Nat, NEW space \in Nat,
           tuplewindow_ateof(w), RanksOrdered(w), RankCursorInPlace(w)
    PROVE  LET v == tuplewindow_puttupleslot(w, tuple, timestamp, space)
           IN  RanksOrdered(v) /\ RankCursorInPlace(v)
<1> DEFINE v == tuplewindow_puttupleslot(w, tuple, timestamp, space)
           len == Len(w.slots)
<1>1. /\ v.insertrank = w.insertrank /\ v.policy = w.policy
      /\ \E n \in 1..len+1 :
           /\ Inserted(w.slots, v.slots, n, tuple, timestamp)
           /\ Ranked(w) => n = w.rankinsert /\ v.slots[n].rank = w.insertrank
           /\ ~Ranked(w) => v.slots[n].rank = MinusDblMax
           /\ CursorsMakeRoom(w, v, n)
  BY PutWindow
<1> HIDE DEF v
<1>2. PICK n \in 1..len+1 :
           /\ Inserted(w.slots, v.slots, n, tuple, timestamp)
           /\ Ranked(w) => n = w.rankinsert /\ v.slots[n].rank = w.insertrank
           /\ ~Ranked(w) => v.slots[n].rank = MinusDblMax
           /\ CursorsMakeRoom(w, v, n)
  BY <1>1
<1>3. /\ len \in Nat /\ w.current = len+1 /\ w.rankinsert \in 1..len+1
  BY DEF Windows, CursorsInList, Nil, tuplewindow_ateof
<1>4. /\ Len(v.slots) = len + 1
      /\ \A i \in 1..len+1 : i # n => v.slots[i] = w.slots[IF i < n THEN i ELSE i-1]
  BY <1>2 DEF Inserted
<1>5. /\ w.insertrank \in Int /\ \A i \in 1..len : w.slots[i].rank \in Int
      /\ Ranked(w) => \A i, m \in 1..len : i < m => w.slots[i].rank >= w.slots[m].rank
  BY DEF RanksOrdered
<1>6. \A i \in 1..len+1 : v.slots[i].rank \in Int
  <2> TAKE i \in 1..len+1
  <2>1. CASE i = n
    BY <1>2, <1>5, <2>1 DEF MinusDblMax
  <2>2. CASE i # n
    <3>1. (IF i < n THEN i ELSE i-1) \in 1..len
      BY <1>3, <2>2
    <3>2. QED
      BY <1>4, <1>5, <2>2, <3>1
  <2>3. QED
    BY <2>1, <2>2
<1>7. ASSUME Ranked(v)
      PROVE  /\ Ranked(w) /\ n = w.rankinsert /\ v.slots[n].rank = w.insertrank
             /\ \A i \in 1..n-1 : v.slots[i].rank >= w.insertrank
             /\ \A i \in n+1..len+1 : v.slots[i].rank < w.insertrank
  <2>1. /\ Ranked(w) /\ n = w.rankinsert /\ v.slots[n].rank = w.insertrank
        /\ \A i \in 1..w.rankinsert-1 : w.slots[i].rank >= w.insertrank
        /\ w.rankinsert < w.current => w.slots[w.rankinsert].rank < w.insertrank
    BY <1>1, <1>2, <1>7 DEF Ranked, RankCursorInPlace
  <2>2. ASSUME NEW i \in 1..n-1 PROVE v.slots[i].rank >= w.insertrank
    <3>1. i \in 1..len+1 /\ i # n /\ i < n /\ n \in Int
      BY <1>3
    <3>2. v.slots[i] = w.slots[i]
      BY <1>4, <3>1
    <3>3. QED
      BY <2>1, <3>2
  <2>3. ASSUME NEW i \in n+1..len+1 PROVE v.slots[i].rank < w.insertrank
    <3>0. i \in 1..len+1 /\ i # n /\ ~(i < n) /\ i-1 \in 1..len /\ n \in 1..len
      BY <1>3
    <3>1. i-1 \in 1..len /\ n \in 1..len /\ v.slots[i] = w.slots[i-1]
      BY <1>4, <3>0
    <3>2. w.slots[n].rank < w.insertrank
      BY <1>3, <2>1, <3>1
    <3>3. i-1 = n \/ w.slots[n].rank >= w.slots[i-1].rank
      BY <1>5, <2>1, <3>1, SMTT(60)
    <3>4. w.slots[n].rank \in Int /\ w.slots[i-1].rank \in Int
      BY <1>5, <3>1
    <3>5. QED
      BY <1>5, <3>1, <3>2, <3>3, <3>4, SMTT(60)
  <2>4. QED
    BY <2>1, <2>2, <2>3
<1>8. ASSUME Ranked(v), NEW i \in 1..len+1, NEW m \in 1..len+1, i < m
      PROVE  v.slots[i].rank >= v.slots[m].rank
  <2>0. /\ n \in Int /\ w.insertrank \in Int
        /\ v.slots[i].rank \in Int /\ v.slots[m].rank \in Int
        /\ v.slots[n].rank = w.insertrank
    BY <1>3, <1>5, <1>6, <1>7, <1>8
  <2>1. CASE i = n
    <3>1. m \in n+1..len+1
      BY <1>3, <1>8, <2>0, <2>1
    <3>2. v.slots[m].rank < w.insertrank
      BY <1>7, <1>8, <3>1
    <3>3. QED
      BY <2>0, <2>1, <3>2
  <2>2. CASE m = n
    <3>1. i \in 1..n-1
      BY <1>3, <1>8, <2>0, <2>2
    <3>2. v.slots[i].rank >= w.insertrank
      BY <1>7, <1>8, <3>1
    <3>3. QED
      BY <2>0, <2>2, <3>2
  <2>3. CASE i # n /\ m # n
    <3>1. PICK i1 \in 1..len, m1 \in 1..len :
             i1 < m1 /\ v.slots[i] = w.slots[i1] /\ v.slots[m] = w.slots[m1]
      <4>1. /\ (IF i < n THEN i ELSE i-1) \in 1..len
            /\ (IF m < n THEN m ELSE m-1) \in 1..len
            /\ (IF i < n THEN i ELSE i-1) < (IF m < n THEN m ELSE m-1)
        BY <1>3, <1>8, <2>3
      <4>2. QED
        BY <1>4, <2>3, <4>1
    <3>2. QED
      BY <1>5, <1>7, <1>8, <3>1
  <2>4. QED
    BY <2>1, <2>2, <2>3
<1>9. RanksOrdered(v)
  BY <1>1, <1>4, <1>5, <1>6, <1>8 DEF RanksOrdered
<1>10. ASSUME Ranked(v) PROVE RankCursorInPlace(v)
  <2>1. v.current = len + 2 /\ v.rankinsert = n + 1
    BY <1>2, <1>3, <1>7, <1>10 DEF CursorsMakeRoom
  <2>2. \A i \in 1..v.rankinsert-1 : v.slots[i].rank >= v.insertrank
    <3> TAKE i \in 1..v.rankinsert-1
    <3>1. i \in 1..n
      BY <2>1
    <3>2. CASE i = n
      BY <1>1, <1>5, <1>7, <1>10, <3>2
    <3>3. CASE i # n
      BY <1>1, <1>7, <1>10, <3>1, <3>3
    <3>4. QED
      BY <3>2, <3>3
  <2>3. v.rankinsert < v.current => v.slots[v.rankinsert].rank < v.insertrank
    BY <1>1, <1>3, <1>7, <1>10, <2>1
  <2>4. QED
    BY <1>3, <2>1, <2>2, <2>3 DEF RankCursorInPlace
<1>11. QED
  BY <1>9, <1>10 DEF RankCursorInPlace, v

\* A forced insertion keeps the order too, and so the last slot, which it may
\* remove, has the lowest rank of all.
LEMMA ForcedPutRanks ==
    ASSUME NEW T, NEW w \in Windows(T), CursorsInList(w),
           NEW tuple \in T, NEW timestamp \in Nat, NEW space \in Nat,
           tuplewindow_ateof(w), RanksOrdered(w), RankCursorInPlace(w)
    PROVE  LET v == ForcedPut(w, tuple, timestamp, space)
           IN  RanksOrdered(v) /\ RankCursorInPlace(v)
<1> DEFINE room == MakeRoom(w)
<1>1. /\ room \in Windows(T) /\ CursorsInList(room)
      /\ \/ room = w
         \/ /\ Len(w.slots) \in Nat \ {0}
            /\ room = tuplewindow_removeslot(w, Len(w.slots))
  BY MakeRoomWindow
<1> HIDE DEF room
<1>2. RanksOrdered(room) /\ RankCursorInPlace(room) /\ tuplewindow_ateof(room)
  <2>1. CASE room = w
    BY <2>1
  <2>2. CASE room # w
    <3> DEFINE n == Len(w.slots)
    <3>1. n \in 1..Len(w.slots) /\ room = tuplewindow_removeslot(w, n)
      BY <1>1, <2>2
    <3>2. RanksOrdered(room) /\ RankCursorInPlace(room)
      BY <3>1, RemoveSlotRanks
    <3>3. /\ room.slots = UnlinkAt(w.slots, n)
          /\ room.current = IF w.current > n THEN w.current - 1 ELSE w.current
      BY <3>1, RemoveSlotWindow
    <3>4. w.slots \in Seq(Entries(T)) /\ w.current = n + 1 /\ n \in Nat
      BY DEF Windows, tuplewindow_ateof, Nil
    <3>5. Len(room.slots) = n - 1
      BY <3>1, <3>3, <3>4, UnlinkAtElements
    <3>6. tuplewindow_ateof(room)
      BY <3>3, <3>4, <3>5 DEF tuplewindow_ateof, Nil
    <3>7. QED
      BY <3>2, <3>6
  <2>3. QED
    BY <2>1, <2>2
<1>3. CASE tuplewindow_has_freespace(room)
  <2> DEFINE v == tuplewindow_puttupleslot(room, tuple, timestamp, space)
  <2>1. RanksOrdered(v) /\ RankCursorInPlace(v)
    BY <1>1, <1>2, <1>3, PutRanks
  <2>2. ForcedPut(w, tuple, timestamp, space) = v
    BY <1>3 DEF ForcedPut, room
  <2> HIDE DEF v
  <2>3. QED
    BY <2>1, <2>2
<1>4. CASE ~tuplewindow_has_freespace(room)
  <2>1. ForcedPut(w, tuple, timestamp, space) = room
    BY <1>4 DEF ForcedPut, room
  <2>2. QED
    BY <1>2, <2>1
<1>5. QED
  BY <1>3, <1>4

-----------------------------------------------------------------------------
(* Loops over the columns. *)

\* A set of numbers that is not empty has a least.
LEMMA LeastNumber ==
    ASSUME NEW T \in SUBSET Nat, T # {}
    PROVE  \E x \in T : \A y \in T : x <= y
<1>1. \E x \in T : \A y \in T : ~(<<y, x>> \in OpToRel(<, Nat))
  BY WFMin, NatLessThanWellFounded
<1>2. PICK x \in T : \A y \in T : ~(<<y, x>> \in OpToRel(<, Nat))
  BY <1>1
<1>3. \A y \in T : ~(y < x)
  BY <1>2 DEF OpToRel
<1> QED
  BY <1>3

\* Induction, for a set of numbers.
LEMMA Induction ==
    ASSUME NEW n \in Nat, NEW T, 0 \in T, \A i \in 1..n : i-1 \in T => i \in T
    PROVE  0..n \subseteq T
<1> DEFINE Missing == {i \in 0..n : i \notin T}
<1>1. CASE Missing # {}
  <2>1. Missing \in SUBSET Nat
    OBVIOUS
  <2>2. PICK x \in Missing : \A y \in Missing : x <= y
    BY <1>1, <2>1, LeastNumber
  <2>3. x \in 1..n /\ x-1 \in 0..n /\ x-1 \notin Missing
    BY <2>2
  <2> QED
    BY <2>2, <2>3
<1> QED
  BY <1>1

\* The values a loop from 1 to n takes: the turn i goes from s to step[i][s].
IsLoop(f, n, s0, step) == f[0] = s0 /\ \A i \in 1..n : f[i] = step[i][f[i-1]]

LEMMA LoopExists ==
    ASSUME NEW n \in Nat, NEW S, NEW s0 \in S, NEW step \in [1..n -> [S -> S]]
    PROVE  \E f \in [0..n -> S] : IsLoop(f, n, s0, step)
<1> DEFINE Upto(m) == \E f \in [0..m -> S] : IsLoop(f, m, s0, step)
           T == {m \in 0..n : Upto(m)}
<1>1. Upto(0)
  <2> DEFINE f == [i \in 0..0 |-> s0]
  <2>1. f \in [0..0 -> S] /\ f[0] = s0 /\ 1..0 = {}
    OBVIOUS
  <2>2. IsLoop(f, 0, s0, step)
    BY <2>1 DEF IsLoop
  <2> HIDE DEF f
  <2> QED
    BY <2>1, <2>2
<1>2. ASSUME NEW m \in 1..n, Upto(m-1) PROVE Upto(m)
  <2>1. PICK f \in [0..m-1 -> S] : IsLoop(f, m-1, s0, step)
    BY <1>2
  <2> DEFINE g == [i \in 0..m |-> IF i = m THEN step[m][f[m-1]] ELSE f[i]]
  <2>2. step[m] \in [S -> S] /\ f[m-1] \in S
    BY <2>1
  <2>3. g \in [0..m -> S]
    BY <2>1, <2>2
  <2>4. g[0] = f[0] /\ g[m] = step[m][f[m-1]] /\ \A i \in 0..m-1 : g[i] = f[i]
    BY <2>1
  <2> HIDE DEF g
  <2>5. ASSUME NEW i \in 1..m PROVE g[i] = step[i][g[i-1]]
    <3>1. CASE i = m
      BY <2>4, <3>1
    <3>2. CASE i # m
      <4>1. i \in 0..m-1 /\ i-1 \in 0..m-1 /\ i \in 1..m-1
        BY <3>2
      <4> QED
        BY <2>1, <2>4, <4>1 DEF IsLoop
    <3> QED
      BY <3>1, <3>2
  <2> QED
    BY <2>1, <2>3, <2>4, <2>5 DEF IsLoop
<1> HIDE DEF Upto
<1>3. 0..n \subseteq T
  <2>1. 0 \in T
    BY <1>1
  <2>2. \A i \in 1..n : i-1 \in T => i \in T
    BY <1>2
  <2> HIDE DEF T
  <2> QED
    BY <2>1, <2>2, Induction
<1>4. Upto(n)
  BY <1>3
<1> QED
  BY <1>4 DEF Upto

-----------------------------------------------------------------------------
(* The rank of a row and the window a node begins with. *)

\* A column whose statistics have a range other than 0 scales every value to a
\* number.
LEMMA RankIsComparable ==
    ASSUME NaN \notin Int, NEW col \in Column, col.colRange # 0, NEW datum \in Datum
    PROVE  Badness(col, datum) \in Int
<1>1. NaN \notin Int /\ NULL \notin Int
  BY NullAssumption
<1>2. Unit(col) \in Int /\ col.colMin \in Int /\ col.colRange # 0
  BY DEF Unit, Column
<1>3. datum = NULL \/ datum \in Int
  BY DEF Datum
<1>4. ScaledValue(col, datum) \in Int
  BY <1>1, <1>2, <1>3 DEF ScaledValue
<1>5. QED
  BY <1>1, <1>2, <1>4 DEF Badness

\* The rank is what a loop over the columns computes.
RankLoop(nd, row, res) ==
    /\ res \in [0..Len(nd.cols) -> Int \cup {NaN}]
    /\ res[0] = -1
    /\ \A i \in 1..Len(nd.cols) : res[i] = RankAfter(nd, row, i, res[i-1])

LEMMA RankIsLoop ==
    ASSUME NaN \notin Int, NEW nd \in PlanNode, NEW row \in Row(nd)
    PROVE  \E res : RankLoop(nd, row, res) /\ ExecSkylineRank(nd, row) = res[Len(nd.cols)]
<1> DEFINE n == Len(nd.cols)
           Ranks == Int \cup {NaN}
           step == [i \in 1..n |-> [r \in Ranks |-> RankAfter(nd, row, i, r)]]
           Is(f) == f = [i \in 0..n |-> IF i = 0 THEN -1 ELSE RankAfter(nd, row, i, f[i-1])]
<1>1. n \in Nat /\ -1 \in Ranks /\ Columns(nd) = 1..n
  BY DEF PlanNode, Columns
<1>2. ASSUME NEW i \in 1..n, NEW r \in Ranks PROVE RankAfter(nd, row, i, r) \in Ranks
  <2>1. nd.cols[i] \in Column /\ row[i] \in Datum
    BY <1>1 DEF PlanNode, Row, Columns
  <2>2. Unit(nd.cols[i]) \in Int /\ nd.cols[i].colMin \in Int
    BY <2>1 DEF Unit, Column
  <2>3. ScaledValue(nd.cols[i], row[i]) \in Ranks
    BY <2>1, <2>2, NullAssumption DEF ScaledValue, Datum
  <2>4. Badness(nd.cols[i], row[i]) \in Ranks
    BY <2>2, <2>3 DEF Badness
  <2>5. QED
    BY <2>2, <2>4 DEF RankAfter
<1>3. step \in [1..n -> [Ranks -> Ranks]]
  BY <1>2
<1>4. PICK f \in [0..n -> Ranks] : IsLoop(f, n, -1, step)
  <2> HIDE DEF step, n, Ranks
  <2> QED
    BY <1>1, <1>3, LoopExists
<1>5. \A i \in 1..n : f[i] = RankAfter(nd, row, i, f[i-1])
  <2> SUFFICES ASSUME NEW i \in 1..n PROVE f[i] = RankAfter(nd, row, i, f[i-1])
    OBVIOUS
  <2>1. f[i-1] \in Ranks
    BY <1>1
  <2>2. f[i] = step[i][f[i-1]]
    <3> HIDE DEF step
    <3> QED
      BY <1>4 DEF IsLoop
  <2> QED
    BY <2>1, <2>2
<1>6. f[0] = -1
  BY <1>4 DEF IsLoop
<1>7. \E g : Is(g)
  BY <1>1, <1>5, <1>6
<1> DEFINE g == CHOOSE g : Is(g)
<1>8. Is(g)
  <2> HIDE DEF Is
  <2> QED
    BY <1>7, Zenon
<1>9. ExecSkylineRank(nd, row) = g[n]
  BY DEF ExecSkylineRank
<1> HIDE DEF g
<1>10. \A i \in 0..n : g[i] = IF i = 0 THEN -1 ELSE RankAfter(nd, row, i, g[i-1])
  BY <1>8
<1> DEFINE T == {i \in 0..n : g[i] = f[i]}
<1>11. 0 \in T
  BY <1>1, <1>6, <1>10
<1>12. \A i \in 1..n : i-1 \in T => i \in T
  BY <1>1, <1>5, <1>10
<1>13. 0..n \subseteq T
  <2> HIDE DEF T, n
  <2> QED
    BY <1>1, <1>11, <1>12, Induction
<1>14. g[n] = f[n]
  BY <1>1, <1>13
<1> QED
  BY <1>4, <1>5, <1>6, <1>9, <1>14 DEF RankLoop

\* A row has a rank: an integer unless a column scales to no number, which one
\* whose statistics have a range other than 0 does not.
LEMMA RankOfRow ==
    ASSUME NaN \notin Int, NEW nd \in PlanNode, NEW row \in Row(nd)
    PROVE  /\ ExecSkylineRank(nd, row) \in Int \cup {NaN}
           /\ (\A c \in RankedColumns(nd) : nd.cols[c].colRange # 0)
                => ExecSkylineRank(nd, row) \in Int
<1> DEFINE n == Len(nd.cols)
<1>1. n \in Nat /\ Columns(nd) = 1..n
  BY DEF PlanNode, Columns
<1>2. PICK res : RankLoop(nd, row, res) /\ ExecSkylineRank(nd, row) = res[n]
  BY RankIsLoop
<1>3. res[n] \in Int \cup {NaN}
  BY <1>1, <1>2 DEF RankLoop
<1>4. ASSUME \A c \in RankedColumns(nd) : nd.cols[c].colRange # 0 PROVE res[n] \in Int
  <2> DEFINE T == {i \in 0..n : res[i] \in Int}
  <2>1. 0 \in T
    BY <1>1, <1>2 DEF RankLoop
  <2>2. ASSUME NEW i \in 1..n, i-1 \in T PROVE i \in T
    <3>1. res[i] = RankAfter(nd, row, i, res[i-1]) /\ res[i-1] \in Int
      BY <1>2, <2>2 DEF RankLoop
    <3>2. CASE i \in RankedColumns(nd)
      <4>1. nd.cols[i] \in Column /\ row[i] \in Datum /\ nd.cols[i].colRange # 0
        BY <1>1, <1>4, <3>2 DEF PlanNode, Row, Columns
      <4>2. Unit(nd.cols[i]) \in Int /\ Badness(nd.cols[i], row[i]) \in Int
        BY <4>1, RankIsComparable DEF Unit, Column
      <4> QED
        BY <3>1, <3>2, <4>2 DEF RankAfter
    <3>3. CASE i \notin RankedColumns(nd)
      BY <3>1, <3>3 DEF RankAfter
    <3> QED
      BY <3>2, <3>3
  <2>3. 0..n \subseteq T
    <3> HIDE DEF T, n
    <3> QED
      BY <1>1, <2>1, <2>2, Induction
  <2> QED
    BY <1>1, <2>3
<1> QED
  BY <1>2, <1>3, <1>4

\* The better of two values has the lower badness, unless one of them is a NULL
\* of a descending column.
LEMMA BadnessMonotone ==
    ASSUME NaN \notin Int, NEW col \in Column, col.colRange # 0,
           NEW d1 \in Datum, NEW d2 \in Datum,
           col.desc => d1 # NULL /\ d2 # NULL,
           ApplyCompare(col, d1, d2) <= 0
    PROVE  /\ Unit(col) \in Int /\ Badness(col, d1) \in Int /\ Badness(col, d2) \in Int
           /\ Unit(col) > 0 /\ 0 <= Badness(col, d1) /\ Badness(col, d1) <= Badness(col, d2)
<1>1. NaN \notin Int /\ NULL \notin Int
  BY NullAssumption
<1>2. /\ Unit(col) \in Int /\ Unit(col) > 0 /\ col.colMin \in Int
      /\ col.desc \in BOOLEAN /\ col.nullsFirst \in BOOLEAN
  BY DEF Unit, Column
<1>3. (d1 = NULL \/ d1 \in Int) /\ (d2 = NULL \/ d2 \in Int)
  BY DEF Datum
<1>4. ASSUME NEW d \in Datum
      PROVE  /\ ScaledValue(col, d) \in Int
             /\ 0 <= ScaledValue(col, d) /\ ScaledValue(col, d) <= Unit(col)
  BY <1>1, <1>2 DEF ScaledValue, Datum
<1>5. CASE col.desc
  <2>1. d1 \in Int /\ d2 \in Int
    BY <1>3, <1>5
  <2>2. d2 <= d1
    BY <1>1, <1>5, <2>1 DEF ApplyCompare, Sign
  <2>3. ScaledValue(col, d2) <= ScaledValue(col, d1)
    BY <1>1, <1>2, <2>1, <2>2 DEF ScaledValue
  <2> QED
    BY <1>1, <1>2, <1>4, <1>5, <2>3 DEF Badness
<1>6. CASE ~col.desc
  <2>1. ScaledValue(col, d1) <= ScaledValue(col, d2)
    <3>1. CASE d1 = NULL \/ d2 = NULL
      BY <1>1, <1>2, <1>3, <1>4, <3>1 DEF ApplyCompare, ScaledValue
    <3>2. CASE d1 \in Int /\ d2 \in Int
      <4>1. d1 <= d2
        BY <1>1, <1>6, <3>2 DEF ApplyCompare, Sign
      <4> QED
        BY <1>1, <1>2, <3>2, <4>1 DEF ScaledValue
    <3> QED
      BY <1>3, <3>1, <3>2
  <2> QED
    BY <1>1, <1>2, <1>4, <1>6, <2>1 DEF Badness
<1> QED
  BY <1>5, <1>6

\* The rank is what the thesis calls a monotone scoring function: a tuple never
\* ranks below one it dominates, for any number of columns.  So what the
\* entropy policy keeps in a full window is not worse than what it gives up.
THEOREM RankIsMonotone ==
    ASSUME NaN \notin Int, NEW node \in PlanNode, NEW a \in Row(node), NEW b \in Row(node),
           Rankable(node, a), Rankable(node, b), Dominates(node, a, b)
    PROVE  /\ ExecSkylineRank(node, a) \in Int /\ ExecSkylineRank(node, b) \in Int
           /\ ExecSkylineRank(node, b) <= ExecSkylineRank(node, a)
<1> DEFINE n == Len(node.cols)
<1>1. n \in Nat /\ Columns(node) = 1..n
  BY DEF PlanNode, Columns
<1>2. PICK ra : RankLoop(node, a, ra) /\ ExecSkylineRank(node, a) = ra[n]
  BY RankIsLoop
<1>3. PICK rb : RankLoop(node, b, rb) /\ ExecSkylineRank(node, b) = rb[n]
  BY RankIsLoop
<1>4. \A i \in 1..n : ApplyCompare(node.cols[i], a[i], b[i]) <= 0
  BY <1>1, Outcomes
<1> DEFINE T == {i \in 0..n : ra[i] \in Int /\ rb[i] \in Int /\ rb[i] <= ra[i] /\ ra[i] < 0}
<1>5. 0 \in T
  BY <1>1, <1>2, <1>3 DEF RankLoop
<1>6. ASSUME NEW i \in 1..n, i-1 \in T PROVE i \in T
  <2>1. /\ ra[i] = RankAfter(node, a, i, ra[i-1]) /\ ra[i-1] \in Int
        /\ rb[i] = RankAfter(node, b, i, rb[i-1]) /\ rb[i-1] \in Int
        /\ rb[i-1] <= ra[i-1] /\ ra[i-1] < 0
    BY <1>2, <1>3, <1>6 DEF RankLoop
  <2>2. CASE i \in RankedColumns(node)
    <3> DEFINE u == Unit(node.cols[i]) + Badness(node.cols[i], a[i])
               v == Unit(node.cols[i]) + Badness(node.cols[i], b[i])
    <3>1. /\ node.cols[i] \in Column /\ a[i] \in Datum /\ b[i] \in Datum
          /\ node.cols[i].colRange # 0
          /\ node.cols[i].desc => a[i] # NULL /\ b[i] # NULL
      BY <1>1, <2>2 DEF Rankable, PlanNode, Row, Columns
    <3>2. /\ Unit(node.cols[i]) \in Int /\ Unit(node.cols[i]) > 0
          /\ Badness(node.cols[i], a[i]) \in Int /\ Badness(node.cols[i], b[i]) \in Int
          /\ 0 <= Badness(node.cols[i], a[i])
          /\ Badness(node.cols[i], a[i]) <= Badness(node.cols[i], b[i])
      BY <1>4, <3>1, BadnessMonotone
    <3>3. u \in Int /\ v \in Int /\ 0 < u /\ u <= v
      BY <3>2
    <3>4. ra[i] = ra[i-1] * u /\ rb[i] = rb[i-1] * v
      BY <2>1, <2>2, <3>2 DEF RankAfter
    <3> HIDE DEF u, v
    <3>5. rb[i-1] * v <= ra[i-1] * v
      BY <2>1, <3>3
    <3>6. ra[i-1] * v <= ra[i-1] * u /\ ra[i-1] * u < 0
      BY <2>1, <3>3
    <3>7. ra[i-1] * u \in Int /\ ra[i-1] * v \in Int /\ rb[i-1] * v \in Int
      BY <2>1, <3>3
    <3>8. ra[i] \in Int /\ rb[i] \in Int /\ rb[i] <= ra[i] /\ ra[i] < 0
      BY <3>4, <3>5, <3>6, <3>7
    <3> QED
      BY <3>8
  <2>3. CASE i \notin RankedColumns(node)
    BY <2>1, <2>3 DEF RankAfter
  <2> QED
    BY <2>2, <2>3
<1>7. 0..n \subseteq T
  <2> HIDE DEF T, n
  <2> QED
    BY <1>1, <1>5, <1>6, Induction
<1>8. n \in T
  BY <1>1, <1>7
<1> QED
  BY <1>2, <1>3, <1>8

-----------------------------------------------------------------------------
(* The comparison as the code computes it. *)

\* The loop over the columns, with its early return, decides what IsDominating
\* says of all columns at once, for any number of columns.
THEOREM LoopComparesRows ==
    ASSUME NEW node \in PlanNode, NEW a \in Row(node), NEW b \in Row(node)
    PROVE  ExecSkylineIsDominating(node, a, b) = IsDominating(node, a, b)
<1> DEFINE n == Len(node.cols)
           cmp(i) == ApplyCompare(node.cols[i], a[i], b[i])
           isDiff(i) == node.cols[i].dir = "DIFF"
           diff(m) == \E i \in 1..m : isDiff(i) /\ cmp(i) # 0
           lt(m) == \E i \in 1..m : ~isDiff(i) /\ cmp(i) < 0
           gt(m) == \E i \in 1..m : ~isDiff(i) /\ cmp(i) > 0
           verdict(m) == IF diff(m) \/ (lt(m) /\ gt(m)) THEN "INCOMPARABLE"
                         ELSE IF lt(m) THEN "FIRST_DOMINATES"
                         ELSE IF gt(m) THEN "SECOND_DOMINATES"
                         ELSE "ALL_EQ"
           after(i, r) == ResultAfter(node, a, b, i, r)
           f == [i \in 0..n |-> verdict(i)]
           Is(g) == g = [i \in 0..n |-> IF i = 0 THEN "ALL_EQ" ELSE after(i, g[i-1])]
<1>1. n \in Nat /\ Columns(node) = 1..n /\ 1..0 = {}
  BY DEF PlanNode, Columns
<1>2. \A i \in 1..n : cmp(i) \in Int
  BY <1>1, CompareAntisymmetric DEF PlanNode, Row, Columns
<1>3. verdict(0) = "ALL_EQ"
  BY <1>1
<1>4. ASSUME NEW i \in 1..n PROVE verdict(i) = after(i, verdict(i-1))
  <2>1. 1..i = (1..i-1) \cup {i} /\ i \notin 1..i-1
    BY <1>1
  <2> HIDE DEF cmp, isDiff
  <2>2. /\ diff(i) <=> diff(i-1) \/ (isDiff(i) /\ cmp(i) # 0)
        /\ lt(i) <=> lt(i-1) \/ (~isDiff(i) /\ cmp(i) < 0)
        /\ gt(i) <=> gt(i-1) \/ (~isDiff(i) /\ cmp(i) > 0)
    BY <2>1
  <2> HIDE DEF diff, lt, gt
  <2>3. after(i, verdict(i-1)) =
          IF \/ verdict(i-1) = "INCOMPARABLE"
             \/ cmp(i) # 0 /\ isDiff(i)
             \/ cmp(i) < 0 /\ verdict(i-1) = "SECOND_DOMINATES"
             \/ cmp(i) > 0 /\ verdict(i-1) = "FIRST_DOMINATES"
          THEN "INCOMPARABLE"
          ELSE IF cmp(i) < 0 THEN "FIRST_DOMINATES"
          ELSE IF cmp(i) > 0 THEN "SECOND_DOMINATES"
          ELSE verdict(i-1)
    BY Zenon DEF ResultAfter, cmp, isDiff
  <2> HIDE DEF after
  <2>4. cmp(i) \in Int
    BY <1>2
  <2> QED
    BY <2>2, <2>3, <2>4
<1> HIDE DEF verdict, after
<1>5. Is(f)
  BY <1>1, <1>3, <1>4
<1> DEFINE g == CHOOSE g : Is(g)
<1>6. Is(g)
  <2> HIDE DEF Is, f
  <2> QED
    BY <1>5, Zenon
<1>7. ExecSkylineIsDominating(node, a, b) = g[n]
  BY DEF ExecSkylineIsDominating, after
<1> HIDE DEF g
<1> DEFINE T == {i \in 0..n : g[i] = f[i]}
<1>8. 0 \in T
  BY <1>1, <1>3, <1>6
<1>9. \A i \in 1..n : i-1 \in T => i \in T
  BY <1>1, <1>4, <1>6
<1>10. 0..n \subseteq T
  <2> HIDE DEF T, n
  <2> QED
    BY <1>1, <1>8, <1>9, Induction
<1>11. g[n] = verdict(n)
  <2>1. n \in T
    <3> HIDE DEF T, n
    <3> QED
      BY <1>1, <1>10
  <2> QED
    BY <2>1
<1>12. verdict(n) = IsDominating(node, a, b)
  BY <1>1 DEF IsDominating, verdict
<1> QED
  BY <1>7, <1>11, <1>12

-----------------------------------------------------------------------------
\* The window a node begins with.
LEMMA PlanWindow ==
    ASSUME NEW T, NEW p, p.slots \in Int, p.memory \in Int, p.policy \in Policies
    PROVE  LET w == tuplewindow_begin(p.memory, p.slots, WindowPolicy(p))
           IN  /\ w \in Windows(T) /\ CursorsInList(w) /\ w.slots = <<>>
               /\ w.current = 1 /\ w.rankinsert = 1
               /\ RanksOrdered(w) /\ RankCursorInPlace(w)
<1> DEFINE policy == WindowPolicy(p)
           w == tuplewindow_begin(p.memory, p.slots, policy)
<1>1. p.slots \in Int /\ p.memory \in Int /\ policy \in Policies
  BY DEF WindowPolicy, Policies
<1>2. w.current = 1 /\ w.rankinsert = 1 /\ w.insertrank \in Int
  BY DEF tuplewindow_begin, MinusDblMax
<1> HIDE DEF policy
<1>3. w \in Windows(T) /\ CursorsInList(w) /\ w.slots = <<>>
  BY <1>1, BeginWindow
<1> HIDE DEF w
<1>4. RanksOrdered(w) /\ RankCursorInPlace(w)
  BY <1>2, <1>3, EmptyRanks, FirstInPlace
<1>5. QED
  BY <1>2, <1>3, <1>4 DEF w, policy

-----------------------------------------------------------------------------
(* Space. *)

\* t[k] is the space that the first k slots of the list take.
Sums(s, t) ==
    /\ t \in [0..Len(s) -> Int]
    /\ t[0] = 0
    /\ \A k \in 1..Len(s) : t[k] = t[k-1] + s[k].space

LEMMA SlotSpace ==
    ASSUME NEW T, NEW s \in Seq(Entries(T)), NEW k \in 1..Len(s)
    PROVE  s[k] \in Entries(T) /\ s[k].space \in Nat
<1>1. s[k] \in Entries(T)
  OBVIOUS
<1> QED
  BY <1>1 DEF Entries

\* The spaces can be summed up.
LEMMA SumsExist ==
    ASSUME NEW T, NEW s \in Seq(Entries(T))
    PROVE  \E t : Sums(s, t)
<1> DEFINE n == Len(s)
           step == [k \in 1..n |-> [x \in Int |-> x + s[k].space]]
<1>1. n \in Nat /\ 0 \in Int /\ \A k \in 1..n : s[k].space \in Int
  BY SlotSpace
<1>2. step \in [1..n -> [Int -> Int]]
  BY <1>1
<1>3. PICK t \in [0..n -> Int] : IsLoop(t, n, 0, step)
  <2> HIDE DEF step, n
  <2> QED
    BY <1>1, <1>2, LoopExists
<1>4. ASSUME NEW k \in 1..n PROVE t[k] = t[k-1] + s[k].space
  <2>1. t[k-1] \in Int
    BY <1>1
  <2>2. t[k] = step[k][t[k-1]]
    <3> HIDE DEF step
    <3> QED
      BY <1>3 DEF IsLoop
  <2> QED
    BY <2>1, <2>2
<1> QED
  BY <1>3, <1>4 DEF Sums, IsLoop

\* The last of them is what the window's slots take.
LEMMA SpaceOfSums ==
    ASSUME NEW w, NEW T, w.slots \in Seq(Entries(T)), NEW t, Sums(w.slots, t)
    PROVE  SpaceTaken(w) = t[Len(w.slots)]
<1> DEFINE n == Len(w.slots)
           Is(f) == f = [k \in 0..n |-> IF k = 0 THEN 0 ELSE f[k-1] + w.slots[k].space]
           f == CHOOSE f : Is(f)
<1>1. n \in Nat
  OBVIOUS
<1>2. Is(t)
  BY <1>1 DEF Sums
<1>3. Is(f)
  <2> HIDE DEF Is
  <2> QED
    BY <1>2, Zenon
<1>4. SpaceTaken(w) = f[n]
  BY DEF SpaceTaken
<1> HIDE DEF f
<1> DEFINE U == {k \in 0..n : f[k] = t[k]}
<1>5. 0 \in U
  BY <1>1, <1>3 DEF Sums
<1>6. \A k \in 1..n : k-1 \in U => k \in U
  BY <1>1, <1>3 DEF Sums
<1>7. 0..n \subseteq U
  <2> HIDE DEF U, n
  <2> QED
    BY <1>1, <1>5, <1>6, Induction
<1> QED
  BY <1>1, <1>4, <1>7

\* It depends on the list only, and an empty list takes none.
LEMMA SpaceOfList ==
    ASSUME NEW v, NEW w
    PROVE  /\ v.slots = w.slots => SpaceTaken(v) = SpaceTaken(w)
           /\ w.slots = <<>> => SpaceTaken(w) = 0
<1>1. v.slots = w.slots => SpaceTaken(v) = SpaceTaken(w)
  BY DEF SpaceTaken
<1>2. ASSUME w.slots = <<>> PROVE SpaceTaken(w) = 0
  <2> DEFINE t == [k \in 0..0 |-> 0]
  <2>1. Len(w.slots) = 0 /\ w.slots \in Seq(Entries({}))
    BY <1>2
  <2>2. Sums(w.slots, t) /\ t[0] = 0
    BY <2>1 DEF Sums
  <2> HIDE DEF t
  <2> QED
    BY <2>1, <2>2, SpaceOfSums
<1> QED
  BY <1>1, <1>2

\* The list of v is that of w with a slot more, or with one less.
LinksIn(T, v, w, k, e) ==
    /\ w.slots \in Seq(Entries(T)) /\ k \in 1..Len(w.slots)+1 /\ e \in Entries(T)
    /\ v.slots = LinkAt(w.slots, k, e)
LinksOut(T, v, w, k) ==
    /\ w.slots \in Seq(Entries(T)) /\ k \in 1..Len(w.slots)
    /\ v.slots = UnlinkAt(w.slots, k)

\* A slot that is linked in takes its space.
LEMMA LinkSpace ==
    ASSUME NEW T, NEW v, NEW w, NEW k, NEW e, LinksIn(T, v, w, k, e)
    PROVE  SpaceTaken(w) \in Int /\ SpaceTaken(v) = SpaceTaken(w) + e.space
<1>1. PICK s, s2, n : s = w.slots /\ s2 = v.slots /\ n = Len(w.slots)
  OBVIOUS
<1>2. /\ s \in Seq(Entries(T)) /\ k \in 1..Len(s)+1 /\ s2 = LinkAt(s, k, e)
      /\ n = Len(s) /\ n \in Nat /\ k \in 1..n+1 /\ e \in Entries(T)
  BY <1>1 DEF LinksIn
<1>3. /\ s2 \in Seq(Entries(T)) /\ Len(s2) = n + 1
      /\ \A i \in 1..n+1 : s2[i] = IF i < k THEN s[i] ELSE IF i = k THEN e ELSE s[i-1]
  <2> DEFINE S == Entries(T)
  <2>1. s \in Seq(S) /\ e \in S /\ k \in 1..Len(s)+1
    BY <1>2
  <2> HIDE DEF S
  <2>2. /\ LinkAt(s, k, e) \in Seq(S) /\ Len(LinkAt(s, k, e)) = Len(s) + 1
        /\ \A i \in 1..Len(s)+1 : LinkAt(s, k, e)[i] =
             IF i < k THEN s[i] ELSE IF i = k THEN e ELSE s[i-1]
    BY <2>1, LinkAtElements
  <2> QED
    BY <1>2, <2>2 DEF S
<1>4. e.space \in Int /\ \A i \in 1..n : s[i].space \in Int
  <2>1. e.space \in Int
    BY <1>2 DEF Entries
  <2>2. \A i \in 1..n : s[i].space \in Nat
    BY <1>2, SlotSpace
  <2> QED
    BY <2>1, <2>2
<1>5. PICK t : Sums(s, t)
  BY <1>2, SumsExist
<1> DEFINE u == [i \in 0..n+1 |-> IF i < k THEN t[i] ELSE t[i-1] + e.space]
<1>6. /\ t \in [0..n -> Int] /\ t[0] = 0
      /\ \A i \in 1..n : t[i] = t[i-1] + s[i].space
  BY <1>2, <1>5 DEF Sums
<1>7. u \in [0..n+1 -> Int] /\ u[0] = 0 /\ u[n+1] = t[n] + e.space
  BY <1>2, <1>4, <1>6
<1>8. \A i \in 0..n+1 : u[i] = IF i < k THEN t[i] ELSE t[i-1] + e.space
  OBVIOUS
<1> HIDE DEF u
<1>9. ASSUME NEW i \in 1..n+1 PROVE u[i] = u[i-1] + s2[i].space
  <2>0. i \in Int /\ i \in 0..n+1 /\ i-1 \in 0..n+1 /\ k \in Int
    BY <1>2
  <2>1. CASE i < k
    <3>1. i \in 1..n /\ i-1 < k
      BY <1>2, <2>0, <2>1
    <3>2. u[i] = t[i] /\ u[i-1] = t[i-1] /\ s2[i] = s[i]
      BY <1>3, <1>8, <2>0, <2>1, <3>1
    <3> QED
      BY <1>6, <3>1, <3>2
  <2>2. CASE i = k
    <3>1. u[i] = t[i-1] + e.space /\ u[i-1] = t[i-1] /\ s2[i] = e
      BY <1>3, <1>8, <2>0, <2>2
    <3> QED
      BY <3>1
  <2>3. CASE i > k
    <3>1. i-1 \in 1..n /\ (i-1)-1 \in 0..n /\ ~(i < k) /\ i # k /\ ~(i-1 < k)
      BY <1>2, <2>0, <2>3
    <3>2. u[i] = t[i-1] + e.space /\ u[i-1] = t[(i-1)-1] + e.space /\ s2[i] = s[i-1]
      BY <1>3, <1>8, <2>0, <3>1
    <3>3. /\ t[i-1] = t[(i-1)-1] + s[i-1].space
          /\ t[(i-1)-1] \in Int /\ s[i-1].space \in Int
      BY <1>4, <1>6, <3>1
    <3> DEFINE x == t[(i-1)-1]
               y == s[i-1].space
    <3>4. x \in Int /\ y \in Int /\ e.space \in Int
      BY <1>4, <3>3
    <3>5. u[i] = (x + y) + e.space /\ u[i-1] = x + e.space /\ s2[i].space = y
      BY <3>2, <3>3
    <3> HIDE DEF x, y
    <3> QED
      BY <3>4, <3>5
  <2> QED
    BY <2>0, <2>1, <2>2, <2>3
<1>10. Sums(s2, u)
  BY <1>3, <1>7, <1>9 DEF Sums
<1>11. SpaceTaken(v) = u[n+1] /\ SpaceTaken(w) = t[n]
  <2>1. SpaceTaken(v) = u[Len(v.slots)]
    BY <1>1, <1>3, <1>10, SpaceOfSums
  <2>2. SpaceTaken(w) = t[Len(w.slots)]
    BY <1>1, <1>2, <1>5, SpaceOfSums
  <2> QED
    BY <1>1, <1>3, <2>1, <2>2
<1> QED
  BY <1>2, <1>4, <1>6, <1>7, <1>11

\* A slot that is unlinked gives its space back.
LEMMA UnlinkSpace ==
    ASSUME NEW T, NEW v, NEW w, NEW k, LinksOut(T, v, w, k)
    PROVE  SpaceTaken(w) \in Int /\ SpaceTaken(v) = SpaceTaken(w) - w.slots[k].space
<1>1. PICK s, s2, n : s = w.slots /\ s2 = v.slots /\ n = Len(w.slots)
  OBVIOUS
<1>2. /\ s \in Seq(Entries(T)) /\ k \in 1..Len(s) /\ s2 = UnlinkAt(s, k)
      /\ n = Len(s) /\ n \in Nat \ {0} /\ k \in 1..n
  BY <1>1 DEF LinksOut
<1>3. /\ s2 \in Seq(Entries(T)) /\ Len(s2) = n - 1
      /\ \A i \in 1..n-1 : s2[i] = IF i < k THEN s[i] ELSE s[i+1]
  BY <1>2, UnlinkAtElements
<1>4. \A i \in 1..n : s[i].space \in Int
  BY <1>2, SlotSpace
<1>5. PICK t : Sums(s, t)
  BY <1>2, SumsExist
<1>6. /\ t \in [0..n -> Int] /\ t[0] = 0
      /\ \A i \in 1..n : t[i] = t[i-1] + s[i].space
  BY <1>2, <1>5 DEF Sums
<1> DEFINE gone == s[k].space
           u == [i \in 0..n-1 |-> IF i < k THEN t[i] ELSE t[i+1] - gone]
<1>7. t[k] = t[k-1] + gone /\ t[k-1] \in Int /\ t[k] \in Int /\ gone \in Int
  <2>1. k-1 \in 0..n /\ k \in 0..n
    BY <1>2
  <2> QED
    BY <1>2, <1>4, <1>6, <2>1
<1> HIDE DEF gone
<1>8. u \in [0..n-1 -> Int] /\ u[0] = 0
  <2>1. \A i \in 0..n-1 : i \in 0..n /\ i+1 \in 0..n
    BY <1>2
  <2>2. \A i \in 0..n-1 : t[i] \in Int /\ t[i+1] \in Int
    BY <1>6, <2>1
  <2>3. 0 \in 0..n-1 /\ 0 < k
    BY <1>2
  <2> QED
    BY <1>6, <1>7, <2>2, <2>3
<1>9. \A i \in 0..n-1 : u[i] = IF i < k THEN t[i] ELSE t[i+1] - gone
  OBVIOUS
<1> HIDE DEF u
<1>10. u[n-1] = t[n] - gone
  <2>1. CASE k = n
    BY <1>2, <1>7, <1>9, <2>1
  <2>2. CASE k # n
    <3>1. n-1 \in 0..n-1 /\ ~(n-1 < k) /\ (n-1)+1 = n
      BY <1>2, <2>2
    <3> QED
      BY <1>9, <3>1
  <2> QED
    BY <2>1, <2>2
<1>11. ASSUME NEW i \in 1..n-1 PROVE u[i] = u[i-1] + s2[i].space
  <2>0. /\ i \in Int /\ i \in 0..n-1 /\ i-1 \in 0..n-1 /\ k \in Int
        /\ i+1 \in 1..n /\ i \in 1..n /\ (i+1)-1 = i /\ (i-1)+1 = i
    BY <1>2
  <2>1. CASE i < k
    <3>1. i-1 < k
      BY <2>0, <2>1
    <3>2. u[i] = t[i] /\ u[i-1] = t[i-1] /\ s2[i] = s[i]
      BY <1>3, <1>9, <2>0, <2>1, <3>1
    <3> QED
      BY <1>6, <2>0, <3>2
  <2>2. CASE i = k
    <3>1. u[i] = t[i+1] - gone /\ u[i-1] = t[k-1] /\ s2[i] = s[i+1]
      BY <1>3, <1>9, <2>0, <2>2
    <3>2. t[i+1] = t[k] + s[i+1].space /\ s[i+1].space \in Int
      BY <1>4, <1>6, <2>0, <2>2
    <3> DEFINE x == t[k-1]
               y == s[i+1].space
    <3>3. x \in Int /\ y \in Int /\ gone \in Int
      BY <1>7, <3>2
    <3>4. u[i] = ((x + gone) + y) - gone /\ u[i-1] = x /\ s2[i].space = y
      BY <1>7, <3>1, <3>2
    <3> HIDE DEF x, y
    <3> QED
      BY <3>3, <3>4
  <2>3. CASE i > k
    <3>1. ~(i < k) /\ ~(i-1 < k)
      BY <2>0, <2>3
    <3>2. u[i] = t[i+1] - gone /\ u[i-1] = t[i] - gone /\ s2[i] = s[i+1]
      BY <1>3, <1>9, <2>0, <3>1
    <3>3. t[i+1] = t[i] + s[i+1].space /\ s[i+1].space \in Int /\ t[i] \in Int
      <4>1. i \in 0..n
        BY <1>2, <2>0
      <4> QED
        BY <1>4, <1>6, <2>0, <4>1
    <3> DEFINE x == t[i]
               y == s[i+1].space
    <3>4. x \in Int /\ y \in Int /\ gone \in Int
      BY <1>7, <3>3
    <3>5. u[i] = (x + y) - gone /\ u[i-1] = x - gone /\ s2[i].space = y
      BY <3>2, <3>3
    <3> HIDE DEF x, y
    <3> QED
      BY <3>4, <3>5
  <2> QED
    BY <2>0, <2>1, <2>2, <2>3
<1>12. Sums(s2, u)
  BY <1>3, <1>8, <1>11 DEF Sums
<1>13. SpaceTaken(v) = u[n-1] /\ SpaceTaken(w) = t[n]
  <2>1. SpaceTaken(v) = u[Len(v.slots)]
    BY <1>1, <1>3, <1>12, SpaceOfSums
  <2>2. SpaceTaken(w) = t[Len(w.slots)]
    BY <1>1, <1>2, <1>5, SpaceOfSums
  <2> QED
    BY <1>1, <1>3, <2>1, <2>2
<1> QED
  BY <1>1, <1>2, <1>6, <1>10, <1>13 DEF gone

\* What is free is exact, and no more slots are taken than there are.
SpaceKept(w) ==
    /\ SpaceAccounted(w)
    /\ w.maxSlots # -1 => w.slots = <<>> \/ Len(w.slots) <= w.maxSlots

SameLimits(v, w) == v.maxMem = w.maxMem /\ v.maxSlots = w.maxSlots

\* The space depends on the list and the limits only.
LEMMA SameSpace ==
    ASSUME NEW v, NEW w, SameList(v, w), SameLimits(v, w), SpaceKept(w)
    PROVE  SpaceKept(v)
<1>1. SpaceTaken(v) = SpaceTaken(w) /\ v.slots = w.slots
  BY SpaceOfList DEF SameList
<1> QED
  BY <1>1 DEF SpaceKept, SpaceAccounted, SameList, SameLimits

\* The operations that move a cursor.
LEMMA RewindSpace ==
    ASSUME NEW T, NEW w \in Windows(T)
    PROVE  LET v == tuplewindow_rewind(w)
           IN  SameLimits(v, w) /\ (SpaceKept(w) => SpaceKept(v))
<1> DEFINE v == tuplewindow_rewind(w)
<1>1. SameList(v, w)
  BY RewindWindow
<1>2. SameLimits(v, w)
  BY DEF tuplewindow_rewind, Windows, SameLimits
<1> HIDE DEF v
<1>3. SpaceKept(w) => SpaceKept(v)
  BY <1>1, <1>2, SameSpace
<1> QED
  BY <1>2, <1>3 DEF v

LEMMA StartSpace ==
    ASSUME NEW T, NEW w \in Windows(T), NEW rank \in Int \cup {NaN}
    PROVE  LET v == tuplewindow_setinsertrank(tuplewindow_rewind(w), rank)
           IN  SameLimits(v, w) /\ (SpaceKept(w) => SpaceKept(v))
<1> DEFINE u == tuplewindow_rewind(w)
           v == tuplewindow_setinsertrank(u, rank)
<1>1. u \in Windows(T) /\ CursorsInList(u) /\ SameList(u, w)
  BY RewindWindow
<1>2. SameLimits(u, w)
  BY RewindSpace
<1> HIDE DEF u
<1>3. SameList(v, u)
  BY <1>1, SetInsertRankWindow
<1>4. SameLimits(v, u)
  BY <1>1 DEF tuplewindow_setinsertrank, Windows, SameLimits
<1> HIDE DEF v
<1>5. SameList(v, w) /\ SameLimits(v, w)
  BY <1>1, <1>2, <1>3, <1>4 DEF SameList, SameLimits
<1>6. SpaceKept(w) => SpaceKept(v)
  BY <1>5, SameSpace
<1> QED
  BY <1>5, <1>6 DEF u, v

LEMMA MoveNextSpace ==
    ASSUME NEW T, NEW w \in Windows(T), CursorsInList(w), ~tuplewindow_ateof(w)
    PROVE  LET v == tuplewindow_movenext(w)
           IN  SameLimits(v, w) /\ (SpaceKept(w) => SpaceKept(v))
<1> DEFINE v == tuplewindow_movenext(w)
           r == IF /\ Ranked(w)
                   /\ w.rankinsert = w.current
                   /\ RankGeq(CurrentSlot(w).rank, w.insertrank)
                THEN w.rankinsert + 1 ELSE w.rankinsert
           c == w.current + 1
<1>1. SameList(v, w)
  BY MoveNextWindow
<1>2. v = [w EXCEPT !.current = c, !.rankinsert = r]
  BY DEF tuplewindow_movenext
<1> HIDE DEF v, c, r
<1>3. SameLimits(v, w)
  BY <1>2 DEF Windows, SameLimits
<1>4. SpaceKept(w) => SpaceKept(v)
  BY <1>1, <1>3, SameSpace
<1> QED
  BY <1>3, <1>4 DEF v

\* tuplewindow_removeslot gives back what the slot takes.
LEMMA RemoveSlotSpace ==
    ASSUME NEW T, NEW w \in Windows(T), CursorsInList(w), NEW k \in 1..Len(w.slots)
    PROVE  LET v == tuplewindow_removeslot(w, k)
           IN  SameLimits(v, w) /\ (SpaceKept(w) => SpaceKept(v))
<1> DEFINE v == tuplewindow_removeslot(w, k)
           slots == UnlinkAt(w.slots, k)
           mem == w.availMem + w.slots[k].space
           avail == IF w.availSlots # -1 THEN w.availSlots + 1 ELSE w.availSlots
           c == IF w.current > k THEN w.current - 1 ELSE w.current
           r == IF w.rankinsert > k THEN w.rankinsert - 1 ELSE w.rankinsert
<1>1. w.slots \in Seq(Entries(T)) /\ Len(w.slots) \in Nat \ {0}
      /\ w.maxMem \in Int /\ w.maxSlots \in Int
  BY DEF Windows
<1>2. w.slots[k].space \in Nat /\ Len(UnlinkAt(w.slots, k)) = Len(w.slots) - 1
  BY <1>1, SlotSpace, UnlinkAtElements
<1>3. v = [w EXCEPT !.slots = slots, !.availMem = mem, !.availSlots = avail,
                    !.current = c, !.rankinsert = r]
  BY DEF tuplewindow_removeslot
<1> HIDE DEF v, slots, mem, avail, c, r
<1>4. /\ v.slots = slots /\ v.availMem = mem /\ v.availSlots = avail
      /\ v.maxMem = w.maxMem /\ v.maxSlots = w.maxSlots
  BY <1>3 DEF Windows
<1>5. v.slots = UnlinkAt(w.slots, k) /\ Len(v.slots) = Len(w.slots) - 1
  BY <1>2, <1>4 DEF slots
<1>6. SpaceTaken(w) \in Int /\ SpaceTaken(v) = SpaceTaken(w) - w.slots[k].space
  <2>1. LinksOut(T, v, w, k)
    BY <1>1, <1>5 DEF LinksOut
  <2> QED
    BY <2>1, UnlinkSpace
<1>7. ASSUME SpaceKept(w) PROVE SpaceKept(v)
  <2>1. w.availMem = w.maxMem - SpaceTaken(w)
    BY <1>7 DEF SpaceKept, SpaceAccounted
  <2> DEFINE x == w.slots[k].space
             y == SpaceTaken(w)
             z == w.maxMem
  <2>2. v.availMem = v.maxMem - SpaceTaken(v)
    <3>1. v.availMem = (z - y) + x /\ v.maxMem = z /\ SpaceTaken(v) = y - x
      BY <1>4, <1>6, <2>1 DEF mem
    <3>2. x \in Int /\ y \in Int /\ z \in Int
      BY <1>1, <1>2, <1>6
    <3> HIDE DEF x, y, z
    <3> QED
      BY <3>1, <3>2
  <2>3. w.slots # <<>>
    BY <1>1
  <2>4. CASE w.maxSlots = -1
    BY <1>4, <1>7, <2>2, <2>4 DEF SpaceKept, SpaceAccounted, avail
  <2>5. CASE w.maxSlots # -1
    <3>1. w.availSlots = w.maxSlots - Len(w.slots) /\ Len(w.slots) <= w.maxSlots
      BY <1>7, <2>3, <2>5 DEF SpaceKept, SpaceAccounted
    <3>2. w.availSlots # -1
      BY <1>1, <3>1
    <3>3. v.availSlots = w.maxSlots - Len(w.slots) + 1
      BY <1>4, <3>1, <3>2 DEF avail
    <3>4. v.availSlots = v.maxSlots - Len(v.slots) /\ Len(v.slots) <= v.maxSlots
      BY <1>1, <1>4, <1>5, <3>1, <3>3
    <3> QED
      BY <1>4, <2>2, <2>5, <3>4 DEF SpaceKept, SpaceAccounted
  <2> QED
    BY <2>4, <2>5
<1> QED
  BY <1>4, <1>7 DEF SameLimits, v

\* A slot is put in only when there is space, and takes it.
LEMMA InsertSpace ==
    ASSUME NEW T, NEW w \in Windows(T), CursorsInList(w), tuplewindow_has_freespace(w),
           NEW e \in Entries(T), NEW k \in 1..Len(w.slots)+1
    PROVE  LET v == InsertSlot(w, e, k)
           IN  SameLimits(v, w) /\ (SpaceKept(w) => SpaceKept(v))
<1> DEFINE v == InsertSlot(w, e, k)
           slots == LinkAt(w.slots, k, e)
           mem == w.availMem - e.space
           avail == IF w.availSlots # -1 THEN w.availSlots - 1 ELSE w.availSlots
           c == IF w.current >= k THEN w.current + 1 ELSE w.current
           r == IF w.rankinsert >= k THEN w.rankinsert + 1 ELSE w.rankinsert
<1>1. w.slots \in Seq(Entries(T)) /\ Len(w.slots) \in Nat
      /\ w.maxMem \in Int /\ w.maxSlots \in Int
  BY DEF Windows
<1>2. e.space \in Nat
  BY DEF Entries
<1>3. Len(LinkAt(w.slots, k, e)) = Len(w.slots) + 1
  <2> DEFINE S == Entries(T)
             s == w.slots
  <2>1. s \in Seq(S) /\ e \in S /\ k \in 1..Len(s)+1
    BY <1>1
  <2> HIDE DEF S, s
  <2>2. Len(LinkAt(s, k, e)) = Len(s) + 1
    BY <2>1, LinkAtElements
  <2> QED
    BY <2>2 DEF s
<1>4. v = [w EXCEPT !.slots = slots, !.availMem = mem, !.availSlots = avail,
                    !.current = c, !.rankinsert = r]
  BY DEF InsertSlot
<1> HIDE DEF v, slots, mem, avail, c, r
<1>5. /\ v.slots = slots /\ v.availMem = mem /\ v.availSlots = avail
      /\ v.maxMem = w.maxMem /\ v.maxSlots = w.maxSlots
  BY <1>4 DEF Windows
<1>6. v.slots = LinkAt(w.slots, k, e) /\ Len(v.slots) = Len(w.slots) + 1
  BY <1>3, <1>5 DEF slots
<1>7. SpaceTaken(w) \in Int /\ SpaceTaken(v) = SpaceTaken(w) + e.space
  <2>1. LinksIn(T, v, w, k, e)
    BY <1>1, <1>6 DEF LinksIn
  <2> QED
    BY <2>1, LinkSpace
<1>8. ASSUME SpaceKept(w) PROVE SpaceKept(v)
  <2>1. w.availMem = w.maxMem - SpaceTaken(w)
    BY <1>8 DEF SpaceKept, SpaceAccounted
  <2>2. v.availMem = v.maxMem - SpaceTaken(v)
    BY <1>1, <1>2, <1>5, <1>7, <2>1 DEF mem
  <2>3. CASE w.maxSlots = -1
    BY <1>5, <1>8, <2>2, <2>3 DEF SpaceKept, SpaceAccounted, avail
  <2>4. CASE w.maxSlots # -1
    <3>1. /\ w.availSlots = w.maxSlots - Len(w.slots)
          /\ w.slots = <<>> \/ Len(w.slots) <= w.maxSlots
      BY <1>8, <2>4 DEF SpaceKept, SpaceAccounted
    <3>2. w.slots = <<>> => Len(w.slots) = 0
      OBVIOUS
    <3>3. w.availSlots # -1
      BY <1>1, <2>4, <3>1, <3>2
    <3>4. w.availSlots > 0
      BY <3>3 DEF tuplewindow_has_freespace
    <3>5. v.availSlots = w.maxSlots - Len(w.slots) - 1
      BY <1>1, <1>5, <3>1, <3>3 DEF avail
    <3>6. v.availSlots = v.maxSlots - Len(v.slots) /\ Len(v.slots) <= v.maxSlots
      BY <1>1, <1>5, <1>6, <3>1, <3>4, <3>5
    <3> QED
      BY <1>5, <2>2, <2>4, <3>6 DEF SpaceKept, SpaceAccounted
  <2> QED
    BY <2>3, <2>4
<1> QED
  BY <1>5, <1>8 DEF SameLimits, v

LEMMA PutSpace ==
    ASSUME NEW T, NEW w \in Windows(T), CursorsInList(w), tuplewindow_has_freespace(w),
           NEW tuple \in T, NEW timestamp \in Nat, NEW space \in Nat
    PROVE  LET v == tuplewindow_puttupleslot(w, tuple, timestamp, space)
           IN  SameLimits(v, w) /\ (SpaceKept(w) => SpaceKept(v))
<1> DEFINE v == tuplewindow_puttupleslot(w, tuple, timestamp, space)
           rank == IF Ranked(w) THEN w.insertrank ELSE MinusDblMax
           e == Entry(tuple, timestamp, rank, space)
           k == IF Ranked(w) THEN w.rankinsert
                ELSE IF w.policy = "APPEND" THEN Nil(w) ELSE 1
<1>1. /\ Len(w.slots) \in Nat /\ w.rankinsert \in 1..Len(w.slots)+1
      /\ w.insertrank \in Int \cup {NaN}
  BY DEF Windows, CursorsInList, Nil
<1>2. k \in 1..Len(w.slots)+1 /\ rank \in Int \cup {NaN}
  BY <1>1 DEF Nil, MinusDblMax
<1>3. v = InsertSlot(w, e, k)
  BY DEF tuplewindow_puttupleslot
<1> HIDE DEF k, rank, v
<1>4. e \in Entries(T)
  BY <1>2 DEF Entry, Entries
<1> HIDE DEF e
<1>5. SameLimits(v, w) /\ (SpaceKept(w) => SpaceKept(v))
  BY <1>2, <1>3, <1>4, InsertSpace
<1> QED
  BY <1>5 DEF v

LEMMA ForcedPutSpace ==
    ASSUME NEW T, NEW w \in Windows(T), CursorsInList(w),
           NEW tuple \in T, NEW timestamp \in Nat, NEW space \in Nat
    PROVE  LET v == ForcedPut(w, tuple, timestamp, space)
           IN  SameLimits(v, w) /\ (SpaceKept(w) => SpaceKept(v))
<1> DEFINE room == MakeRoom(w)
<1>1. /\ room \in Windows(T) /\ CursorsInList(room)
      /\ \/ room = w
         \/ /\ Len(w.slots) \in Nat \ {0}
            /\ room = tuplewindow_removeslot(w, Len(w.slots))
  BY MakeRoomWindow
<1> HIDE DEF room
<1>2. SameLimits(room, w) /\ (SpaceKept(w) => SpaceKept(room))
  <2>1. CASE room = w
    BY <2>1 DEF SameLimits
  <2>2. CASE room # w
    <3>1. PICK n \in 1..Len(w.slots) : room = tuplewindow_removeslot(w, n)
      BY <1>1, <2>2
    <3> QED
      BY <3>1, RemoveSlotSpace
  <2> QED
    BY <2>1, <2>2
<1>3. CASE tuplewindow_has_freespace(room)
  <2> DEFINE v == tuplewindow_puttupleslot(room, tuple, timestamp, space)
  <2>1. SameLimits(v, room) /\ (SpaceKept(room) => SpaceKept(v))
    BY <1>1, <1>3, PutSpace
  <2>2. ForcedPut(w, tuple, timestamp, space) = v
    BY <1>3 DEF ForcedPut, room
  <2> HIDE DEF v
  <2> QED
    BY <1>2, <2>1, <2>2 DEF SameLimits
<1>4. CASE ~tuplewindow_has_freespace(room)
  <2>1. ForcedPut(w, tuple, timestamp, space) = room
    BY <1>4 DEF ForcedPut, room
  <2> QED
    BY <1>2, <2>1
<1> QED
  BY <1>3, <1>4

\* tuplewindow_clean gives everything back.
LEMMA CleanSpace ==
    ASSUME NEW T, NEW w \in Windows(T)
    PROVE  LET v == tuplewindow_clean(w)
           IN  SameLimits(v, w) /\ SpaceKept(v)
<1> DEFINE v == tuplewindow_clean(w)
           first == 1
           r == IF w.rankinsert = Nil(w) THEN 1 ELSE Dangling
<1>1. v = [w EXCEPT !.slots = <<>>, !.current = first, !.rankinsert = r,
                    !.availMem = w.maxMem, !.availSlots = w.maxSlots]
  BY DEF tuplewindow_clean
<1> HIDE DEF v, r, first
<1>2. /\ v.slots = <<>> /\ v.availMem = w.maxMem /\ v.availSlots = w.maxSlots
      /\ v.maxMem = w.maxMem /\ v.maxSlots = w.maxSlots
      /\ w.maxMem \in Int /\ w.maxSlots \in Int
  BY <1>1 DEF Windows
<1>3. SpaceTaken(v) = 0 /\ Len(v.slots) = 0
  BY <1>2, SpaceOfList
<1> QED
  BY <1>2, <1>3 DEF SpaceKept, SpaceAccounted, SameLimits, v

\* So does tuplewindow_begin.
LEMMA BeginSpace ==
    ASSUME NEW maxMem \in Int, NEW maxSlots \in Int, NEW policy \in Policies
    PROVE  LET w == tuplewindow_begin(maxMem, maxSlots, policy)
           IN  SpaceKept(w) /\ w.maxMem = maxMem /\ w.maxSlots = maxSlots
<1> DEFINE w == tuplewindow_begin(maxMem, maxSlots, policy)
<1>1. /\ w.slots = <<>> /\ w.availMem = maxMem /\ w.availSlots = maxSlots
      /\ w.maxMem = maxMem /\ w.maxSlots = maxSlots
  BY DEF tuplewindow_begin
<1> HIDE DEF w
<1>2. SpaceTaken(w) = 0 /\ Len(w.slots) = 0
  BY <1>1, SpaceOfList
<1>3. SpaceKept(w)
  BY <1>1, <1>2 DEF SpaceKept, SpaceAccounted
<1> QED
  BY <1>1, <1>3 DEF w

\* The limits leave an empty window some space.
LimitsLeaveSpace(w) == w.maxSlots > 0 \/ (w.maxSlots = -1 /\ w.maxMem >= 0)

LEMMA EmptyHasSpace ==
    ASSUME NEW T, NEW w \in Windows(T), SpaceKept(w), w.slots = <<>>, LimitsLeaveSpace(w)
    PROVE  tuplewindow_has_freespace(w)
<1>1. SpaceTaken(w) = 0 /\ Len(w.slots) = 0
  BY SpaceOfList
<1>2. w.maxMem \in Int /\ w.maxSlots \in Int
  BY DEF Windows
<1> QED
  BY <1>1, <1>2 DEF SpaceKept, SpaceAccounted, LimitsLeaveSpace, tuplewindow_has_freespace

\* No operation changes the limits.
LEMMA SameLimitsLeaveSpace ==
    ASSUME NEW v, NEW w, SameLimits(v, w), LimitsLeaveSpace(w)
    PROVE  LimitsLeaveSpace(v)
  BY DEF SameLimits, LimitsLeaveSpace

-----------------------------------------------------------------------------
(* Descent. *)

\* No sequence of tuples of numbers descends for ever.
THEOREM DescentEnds ==
    ASSUME NEW n \in Nat, NEW f \in [Nat -> [1..n -> Nat]]
    PROVE  \E i \in Nat : ~Descends(f[i+1], f[i])
<1> DEFINE Less == {ss \in Nat \X Nat : ss[1] < ss[2]}
           Lex == LexProductOrdering(Less, Nat, n)
<1>1. IsWellFoundedOn(Less, Nat)
  BY NatLessThanWellFounded DEF OpToRel
<1>2. IsWellFoundedOn(Lex, [1..n -> Nat])
  <2> HIDE DEF Less
  <2> QED
    BY <1>1, WFLexProductOrdering
<1>3. PICK i \in Nat : <<f[i+1], f[i]>> \notin Lex
  BY <1>2 DEF IsWellFoundedOn
<1>4. f[i+1] \in [1..n -> Nat] /\ f[i] \in [1..n -> Nat]
  OBVIOUS
<1>5. ~Descends(f[i+1], f[i])
  BY <1>3, <1>4 DEF LexProductOrdering, Descends
<1> QED
  BY <1>5

=============================================================================
