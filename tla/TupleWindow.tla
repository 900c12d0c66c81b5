----------------------------- MODULE TupleWindow -----------------------------
(***************************************************************************)
(* The tuple window (backend/utils/skyline/tuplewindow.c): a bounded list  *)
(* of tuples with two cursors.  A window is a record w with the fields of  *)
(* TupleWindowState; the list between the sentinel's two links is the      *)
(* sequence w.slots, so a pointer to the k-th slot is the position k, and  *)
(* a pointer to the sentinel nil is the position after the last slot.      *)
(* Each operation of the C module is an operator from windows to windows.  *)
(*                                                                         *)
(* The module has its own LinkAt and UnlinkAt, which are InsertAt and      *)
(* RemoveAt of SequencesExt: what it extends is copied into every instance *)
(* of a module that uses a window, and into every obligation about one.    *)
(***************************************************************************)
EXTENDS Integers, Sequences

CONSTANT NaN  \* the rank of a tuple whose scaled column value is 0 * infinity

Policies == {"APPEND", "PREPEND", "ENTROPY", "RANDOM"}

Ranked(w) == w.policy \in {"ENTROPY", "RANDOM"}

\* A double comparison with NaN is false.
RankGeq(a, b) == a # NaN /\ b # NaN /\ a >= b

\* -DBL_MAX, below every rank that ExecSkylineRank or ExecSkylineRandom returns.
MinusDblMax == -1000000

Nil(w) == Len(w.slots) + 1

tuplewindow_begin(maxMem, maxSlots, policy) ==
    [slots |-> <<>>, current |-> 1, rankinsert |-> 1, insertrank |-> MinusDblMax,
     availMem |-> maxMem, availSlots |-> maxSlots,
     maxMem |-> maxMem, maxSlots |-> maxSlots, policy |-> policy]

-----------------------------------------------------------------------------
(* The cursor. *)

\* Mutant of tuplewindow_rewind: the rank cursor stays where it was.
RewindCurrentOnly(w) == [w EXCEPT !.current = 1]

tuplewindow_rewind(w) == [w EXCEPT !.current = 1, !.rankinsert = 1]

tuplewindow_ateof(w) == w.current = Nil(w)

CurrentSlot(w) == w.slots[w.current]

tuplewindow_setinsertrank(w, rank) == [w EXCEPT !.insertrank = rank]

\* The rank cursor moves along with the cursor over the slots that rank at
\* least as high as the tuple to insert, and stays at the first that does not.
tuplewindow_movenext(w) ==
    IF tuplewindow_ateof(w) THEN w
    ELSE LET passes == /\ Ranked(w)
                       /\ w.rankinsert = w.current
                       /\ RankGeq(CurrentSlot(w).rank, w.insertrank)
         IN [w EXCEPT !.current    = @ + 1,
                      !.rankinsert = IF passes THEN @ + 1 ELSE @]

-----------------------------------------------------------------------------
(* The links of the list. *)

\* The slots with the one at position k unlinked.
UnlinkAt(slots, k) == SubSeq(slots, 1, k-1) \o SubSeq(slots, k+1, Len(slots))

\* The slots with a new one linked before the one at position k.
LinkAt(slots, k, entry) ==
    SubSeq(slots, 1, k-1) \o <<entry>> \o SubSeq(slots, k, Len(slots))

-----------------------------------------------------------------------------
(* Free space: counted in slots, or in memory when availSlots is -1. *)

tuplewindow_has_freespace(w) ==
    IF w.availSlots # -1 THEN w.availSlots > 0 ELSE w.availMem >= 0

\* Mutant of tuplewindow_removeslot: a cursor at the removed slot steps back.
RemoveSlotStepsBack(w, k) ==
    [w EXCEPT !.slots      = UnlinkAt(@, k),
              !.availMem   = @ + w.slots[k].space,
              !.availSlots = IF @ # -1 THEN @ + 1 ELSE @,
              !.current    = IF @ >= k THEN @ - 1 ELSE @,
              !.rankinsert = IF @ >= k THEN @ - 1 ELSE @]

\* Mutant of tuplewindow_removeslot: the space of the slot is not given back.
RemoveSlotKeepsSpace(w, k) ==
    [w EXCEPT !.slots      = UnlinkAt(@, k),
              !.availSlots = IF @ # -1 THEN @ + 1 ELSE @,
              !.current    = IF @ > k THEN @ - 1 ELSE @,
              !.rankinsert = IF @ > k THEN @ - 1 ELSE @]

\* Unlink slot k: a cursor that points to it moves to the next slot.
tuplewindow_removeslot(w, k) ==
    [w EXCEPT !.slots      = UnlinkAt(@, k),
              !.availMem   = @ + w.slots[k].space,
              !.availSlots = IF @ # -1 THEN @ + 1 ELSE @,
              !.current    = IF @ > k THEN @ - 1 ELSE @,
              !.rankinsert = IF @ > k THEN @ - 1 ELSE @]

tuplewindow_removecurrent(w) == tuplewindow_removeslot(w, w.current)

-----------------------------------------------------------------------------
(* Insertion. *)

\* tuplewindow_puttupleslot_impl: link a new slot before the one at position k.
InsertSlot(w, entry, k) ==
    [w EXCEPT !.slots      = LinkAt(@, k, entry),
              !.availMem   = @ - entry.space,
              !.availSlots = IF @ # -1 THEN @ - 1 ELSE @,
              !.current    = IF @ >= k THEN @ + 1 ELSE @,
              !.rankinsert = IF @ >= k THEN @ + 1 ELSE @]

Entry(tuple, timestamp, rank, space) ==
    [tuple |-> tuple, timestamp |-> timestamp, rank |-> rank, space |-> space]

\* tuplewindow_puttupleslot with forced = false.
tuplewindow_puttupleslot(w, tuple, timestamp, space) ==
    IF Ranked(w)
    THEN IF tuplewindow_has_freespace(w)
         THEN InsertSlot(w, Entry(tuple, timestamp, w.insertrank, space), w.rankinsert)
         ELSE w
    ELSE InsertSlot(w, Entry(tuple, timestamp, MinusDblMax, space),
                    IF w.policy = "APPEND" THEN Nil(w) ELSE 1)

\* -DBL_MAX > anything, NaN > anything and anything > NaN are false.
RankGreater(a, b) == a # NaN /\ b # NaN /\ a > b

\* Mutant of MakeRoom: the slot with the lowest rank goes whatever its rank.
EvictAlways(w) ==
    IF Ranked(w) /\ ~tuplewindow_has_freespace(w) /\ w.slots # <<>>
    THEN tuplewindow_removeslot(w, Len(w.slots))
    ELSE w

\* A forced insertion into a full ranked window: the slot with the lowest rank
\* is removed if it ranks lower than the new tuple.  The sentinel, which is the
\* last slot of an empty window, has the rank DBL_MAX.
MakeRoom(w) ==
    IF /\ Ranked(w)
       /\ ~tuplewindow_has_freespace(w)
       /\ w.slots # <<>>
       /\ RankGreater(w.insertrank, w.slots[Len(w.slots)].rank)
    THEN tuplewindow_removeslot(w, Len(w.slots))
    ELSE w

\* tuplewindow_puttupleslot with forced = true: the tuple is inserted if there
\* is space, or space can be made, and is not kept otherwise.
ForcedPut(w, tuple, timestamp, space) ==
    LET room == MakeRoom(w)
    IN  IF tuplewindow_has_freespace(room)
        THEN tuplewindow_puttupleslot(room, tuple, timestamp, space)
        ELSE room

-----------------------------------------------------------------------------
(* Emptying the window. *)

Dangling == 0  \* a pointer to a slot that has been freed

\* Mutant of tuplewindow_clean: the cursor is not reset either.
CleanKeepsCursor(w) ==
    [w EXCEPT !.slots      = <<>>,
              !.current    = IF @ = Nil(w) THEN 1 ELSE Dangling,
              !.rankinsert = IF @ = Nil(w) THEN 1 ELSE Dangling,
              !.availMem   = w.maxMem,
              !.availSlots = w.maxSlots]

\* All slots are freed.  The cursor is reset to the sentinel; the rank cursor
\* is not, and if it pointed to a slot it now dangles until the next rewind.
tuplewindow_clean(w) ==
    [w EXCEPT !.slots      = <<>>,
              !.current    = 1,
              !.rankinsert = IF @ = Nil(w) THEN 1 ELSE Dangling,
              !.availMem   = w.maxMem,
              !.availSlots = w.maxSlots]

-----------------------------------------------------------------------------

Entries(Tuples) == [tuple : Tuples, timestamp : Nat, rank : Int \cup {NaN}, space : Nat]

Windows(Tuples) ==
    [slots : Seq(Entries(Tuples)), current : Nat \ {0}, rankinsert : Nat,
     insertrank : Int \cup {NaN}, availMem : Int, availSlots : Int,
     maxMem : Int, maxSlots : Int, policy : Policies]

\* The cursors point to a slot or to the sentinel.
CursorsInList(w) ==
    /\ w.current <= Nil(w)
    /\ w.rankinsert \in 1..Nil(w)

\* The space all slots take.
SpaceTaken(w) ==
    LET taken[k \in 0..Len(w.slots)] ==
          IF k = 0 THEN 0 ELSE taken[k-1] + w.slots[k].space
    IN  taken[Len(w.slots)]

\* What is free is what the slots in the list leave of the limits.
SpaceAccounted(w) ==
    /\ w.availMem = w.maxMem - SpaceTaken(w)
    /\ w.availSlots = IF w.maxSlots = -1 THEN -1 ELSE w.maxSlots - Len(w.slots)

\* A ranked window is in the order of descending rank, slots without a rank
\* aside.
RanksDescend(w) ==
    Ranked(w) =>
        \A k, m \in 1..Len(w.slots) :
            LET rank(n) == w.slots[n].rank
            IN  k < m /\ rank(k) # NaN /\ rank(m) # NaN => rank(k) >= rank(m)

\* The rank cursor of a ranked window is where the tuple to insert belongs, as
\* far as the cursor has come.
RankCursorInPlace(w) ==
    Ranked(w) =>
        /\ w.rankinsert <= w.current
        /\ \A k \in 1..w.rankinsert-1 : w.slots[k].rank >= w.insertrank
        /\ w.rankinsert < w.current => w.slots[w.rankinsert].rank < w.insertrank

=============================================================================
