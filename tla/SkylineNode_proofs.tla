--------------------------- MODULE SkylineNode_proofs ---------------------------
(***************************************************************************)
(* What the skyline node leaves behind is what its next call, or its next  *)
(* scan, needs: NodeInv holds for every plan, whatever its method, its     *)
(* rows, its window and the moments at which the parent rescans it.  And   *)
(* every scan of a plan that is well planned returns the skyline.          *)
(*                                                                         *)
(* The proofs about the methods with a window are those of their modules.  *)
(* They speak of plans with one input, WindowPlans, and of instances of    *)
(* the methods that this module makes for itself; the first section shows  *)
(* that their steps are the steps of the node.                             *)
(***************************************************************************)
EXTENDS SkylineNodeMethods_proofs

\* A plan and one of the inputs that its scans may find.
WindowPlans ==
    UNION {{[node |-> p.node, input |-> t, policy |-> p.policy, slots |-> p.slots,
             memory |-> p.memory] : t \in p.inputs} : p \in Plans}

BNLP == INSTANCE BlockNestedLoop_proofs WITH Plans <- WindowPlans
SFSP == INSTANCE SortFilterSkyline_proofs WITH Plans <- WindowPlans
EFP  == INSTANCE ElimFilter_proofs WITH Plans <- WindowPlans

-----------------------------------------------------------------------------
(* The instances agree, and their assumptions hold. *)

\* The plans of the methods with a window, one for each input, have the types SkylinePlans assumes.
LEMMA WindowPlansAssumption ==
    \A w \in WindowPlans :
        /\ w.node \in PlanNode
        /\ w.input \in Seq(Row(w.node))
        /\ w.policy \in Policies
        /\ w.slots \in Int
        /\ w.memory \in Int
  BY NodePlansAssumption DEF WindowPlans

\* So has the memory their rows take.
LEMMA WindowRanksAssumption ==
    \A w \in WindowPlans : \A i \in 1..Len(w.input) : TupleSpace(w.input[i]) \in Nat
  BY NodeRanksAssumption DEF WindowPlans

\* The block nested loop.
LEMMA SameBNLWindow ==
    ASSUME NEW w, NEW x, NEW y, NEW z
    PROVE  /\ BNL!tuplewindow_rewind(w) = BNLP!tuplewindow_rewind(w)
           /\ BNL!tuplewindow_movenext(w) = BNLP!tuplewindow_movenext(w)
           /\ BNL!tuplewindow_removecurrent(w) = BNLP!tuplewindow_removecurrent(w)
           /\ BNL!tuplewindow_setinsertrank(w, x) = BNLP!tuplewindow_setinsertrank(w, x)
           /\ BNL!tuplewindow_ateof(w) = BNLP!tuplewindow_ateof(w)
           /\ BNL!tuplewindow_has_freespace(w) = BNLP!tuplewindow_has_freespace(w)
           /\ BNL!tuplewindow_puttupleslot(w, x, y, z) = BNLP!tuplewindow_puttupleslot(w, x, y, z)
           /\ BNL!CurrentSlot(w) = BNLP!CurrentSlot(w)
<1>1. /\ BNL!tuplewindow_rewind(w) = BNLP!tuplewindow_rewind(w)
      /\ BNL!tuplewindow_setinsertrank(w, x) = BNLP!tuplewindow_setinsertrank(w, x)
      /\ BNL!tuplewindow_ateof(w) = BNLP!tuplewindow_ateof(w)
      /\ BNL!CurrentSlot(w) = BNLP!CurrentSlot(w)
  BY SMT DEF BNL!tuplewindow_rewind, BNLP!tuplewindow_rewind,
     BNL!tuplewindow_setinsertrank, BNLP!tuplewindow_setinsertrank,
     BNL!tuplewindow_ateof, BNLP!tuplewindow_ateof, BNL!Nil, BNLP!Nil,
     BNL!CurrentSlot, BNLP!CurrentSlot
<1>2. BNL!tuplewindow_movenext(w) = BNLP!tuplewindow_movenext(w)
  BY SMT DEF BNL!tuplewindow_movenext, BNLP!tuplewindow_movenext,
     BNL!tuplewindow_ateof, BNLP!tuplewindow_ateof, BNL!Nil, BNLP!Nil,
     BNL!CurrentSlot, BNLP!CurrentSlot, BNL!Ranked, BNLP!Ranked, BNL!RankGeq,
     BNLP!RankGeq
<1>3. BNL!tuplewindow_removecurrent(w) = BNLP!tuplewindow_removecurrent(w)
  BY SMT DEF BNL!tuplewindow_removecurrent, BNLP!tuplewindow_removecurrent,
     BNL!tuplewindow_removeslot, BNLP!tuplewindow_removeslot, BNL!UnlinkAt,
     BNLP!UnlinkAt
<1>4. BNL!tuplewindow_has_freespace(w) = BNLP!tuplewindow_has_freespace(w)
  BY SMT DEF BNL!tuplewindow_has_freespace, BNLP!tuplewindow_has_freespace
<1>5. BNL!tuplewindow_puttupleslot(w, x, y, z) = BNLP!tuplewindow_puttupleslot(w, x, y, z)
  BY SMT DEF BNL!tuplewindow_puttupleslot, BNLP!tuplewindow_puttupleslot,
     BNL!Ranked, BNLP!Ranked, BNL!tuplewindow_has_freespace,
     BNLP!tuplewindow_has_freespace, BNL!InsertSlot, BNLP!InsertSlot,
     BNL!LinkAt, BNLP!LinkAt, BNL!Entry, BNLP!Entry, BNL!MinusDblMax,
     BNLP!MinusDblMax, BNL!Nil, BNLP!Nil
<1> QED
  BY <1>1, <1>2, <1>3, <1>4, <1>5

\* The comparison is the same in both instances.
LEMMA SameBNLComparison ==
    \A n, r, s : BNL!IsDominating(n, r, s) = BNLP!IsDominating(n, r, s)
  BY SMT DEF BNL!IsDominating, BNLP!IsDominating, BNL!ApplyCompare,
         BNLP!ApplyCompare, BNL!Columns, BNLP!Columns, BNL!Sign, BNLP!Sign

\* So is the rank of a row.
LEMMA SameBNLRank ==
    \A n, r : BNL!ExecSkylineRank(n, r) = BNLP!ExecSkylineRank(n, r)
  BY SMTT(60) DEF BNL!ExecSkylineRank, BNLP!ExecSkylineRank, BNL!RankAfter,
     BNLP!RankAfter, BNL!Columns, BNLP!Columns, BNL!RankedColumns,
     BNLP!RankedColumns, BNL!Unit, BNLP!Unit, BNL!ScaledValue,
     BNLP!ScaledValue, BNL!Badness, BNLP!Badness

\* So are the ranks a tuple may be inserted with.
LEMMA SameBNLInsertRanks == \A i : BNL!InsertRanks(i) = BNLP!InsertRanks(i)
  BY SameBNLRank, SMT DEF BNL!InsertRanks, BNLP!InsertRanks

\* So is the start of the loop over the window.
LEMMA SameBNLStartComparing ==
    \A i : BNL!StartComparing(i) <=> BNLP!StartComparing(i)
  BY SameBNLWindow, SameBNLInsertRanks, SMT DEF BNL!StartComparing,
     BNLP!StartComparing

\* A step of the node's block nested loop is one of the module's own.
LEMMA SameBNLSteps ==
    /\ BNL!Start <=> BNLP!Start
    /\ BNL!FetchOuter <=> BNLP!FetchOuter
    /\ BNL!FetchTemp <=> BNLP!FetchTemp
    /\ BNL!Drop <=> BNLP!Drop
    /\ BNL!RemoveDominated <=> BNLP!RemoveDominated
    /\ BNL!MoveNext <=> BNLP!MoveNext
    /\ BNL!PutInWindow <=> BNLP!PutInWindow
    /\ BNL!WriteToTemp <=> BNLP!WriteToTemp
    /\ BNL!LastPass <=> BNLP!LastPass
    /\ BNL!NextPass <=> BNLP!NextPass
    /\ BNL!PipeOut <=> BNLP!PipeOut
    /\ BNL!PipeOutSkip <=> BNLP!PipeOutSkip
    /\ BNL!PipeOutEnd <=> BNLP!PipeOutEnd
    /\ BNL!FinalPipeOut <=> BNLP!FinalPipeOut
    /\ BNL!Finish <=> BNLP!Finish
    /\ BNL!ReturnNull <=> BNLP!ReturnNull
<1>1. BNL!Start <=> BNLP!Start
  BY SMT DEF BNL!Start, BNLP!Start, BNL!plan, BNLP!plan
<1>2. BNL!FetchOuter <=> BNLP!FetchOuter
  BY SameBNLStartComparing, SMT DEF BNL!FetchOuter, BNLP!FetchOuter, BNL!plan,
     BNLP!plan, BNL!files, BNLP!files
<1>3. BNL!FetchTemp <=> BNLP!FetchTemp
  BY SameBNLStartComparing, SMT DEF BNL!FetchTemp, BNLP!FetchTemp, BNL!plan,
     BNLP!plan
<1>4. BNL!Drop <=> BNLP!Drop
  BY SameBNLWindow, SameBNLComparison, SMT DEF BNL!Drop, BNLP!Drop,
     BNL!Comparing, BNLP!Comparing, BNL!plan, BNLP!plan, BNL!files, BNLP!files,
     BNL!DropsSlot, BNLP!DropsSlot, BNL!EndOfTuple, BNLP!EndOfTuple, BNL!Cmp,
     BNLP!Cmp
<1>5. BNL!RemoveDominated <=> BNLP!RemoveDominated
  BY SameBNLWindow, SameBNLComparison, SMT DEF BNL!RemoveDominated,
     BNLP!RemoveDominated, BNL!Comparing, BNLP!Comparing, BNL!plan, BNLP!plan,
     BNL!files, BNLP!files, BNL!Cmp, BNLP!Cmp
<1>6. BNL!MoveNext <=> BNLP!MoveNext
  BY SameBNLWindow, SameBNLComparison, SMT DEF BNL!MoveNext, BNLP!MoveNext,
     BNL!Comparing, BNLP!Comparing, BNL!plan, BNLP!plan, BNL!files, BNLP!files,
     BNL!DropsSlot, BNLP!DropsSlot, BNL!Cmp, BNLP!Cmp
<1>7. BNL!PutInWindow <=> BNLP!PutInWindow
  BY SameBNLWindow, SMT DEF BNL!PutInWindow, BNLP!PutInWindow, BNL!Comparing,
     BNLP!Comparing, BNL!plan, BNLP!plan, BNL!files, BNLP!files, BNL!EndOfTuple,
     BNLP!EndOfTuple, BNL!PutTimestamp, BNLP!PutTimestamp
<1>8. BNL!WriteToTemp <=> BNLP!WriteToTemp
  BY SameBNLWindow, SMT DEF BNL!WriteToTemp, BNLP!WriteToTemp, BNL!Comparing,
     BNLP!Comparing, BNL!plan, BNLP!plan, BNL!EndOfTuple, BNLP!EndOfTuple
<1>9. BNL!LastPass <=> BNLP!LastPass
  BY SameBNLWindow, SMT DEF BNL!LastPass, BNLP!LastPass, BNL!plan, BNLP!plan,
     BNL!EndOfSource, BNLP!EndOfSource
<1>10. BNL!NextPass <=> BNLP!NextPass
  BY SameBNLWindow, SMT DEF BNL!NextPass, BNLP!NextPass, BNL!plan, BNLP!plan,
     BNL!EndOfSource, BNLP!EndOfSource
<1>11. BNL!PipeOut <=> BNLP!PipeOut
  BY SameBNLWindow, SMT DEF BNL!PipeOut, BNLP!PipeOut, BNL!plan, BNLP!plan,
     BNL!files, BNLP!files, BNL!EmitCurrent, BNLP!EmitCurrent
<1>12. BNL!PipeOutSkip <=> BNLP!PipeOutSkip
  BY SameBNLWindow, SMT DEF BNL!PipeOutSkip, BNLP!PipeOutSkip, BNL!plan,
     BNLP!plan, BNL!files, BNLP!files
<1>13. BNL!PipeOutEnd <=> BNLP!PipeOutEnd
  BY SameBNLWindow, SMT DEF BNL!PipeOutEnd, BNLP!PipeOutEnd, BNL!plan,
     BNLP!plan, BNL!files, BNLP!files
<1>14. BNL!FinalPipeOut <=> BNLP!FinalPipeOut
  BY SameBNLWindow, SMT DEF BNL!FinalPipeOut, BNLP!FinalPipeOut, BNL!plan,
     BNLP!plan, BNL!files, BNLP!files, BNL!EmitCurrent, BNLP!EmitCurrent
<1>15. BNL!Finish <=> BNLP!Finish
  BY SameBNLWindow, SMT DEF BNL!Finish, BNLP!Finish, BNL!plan, BNLP!plan,
     BNL!files, BNLP!files
<1>16. BNL!ReturnNull <=> BNLP!ReturnNull
  BY SMT DEF BNL!ReturnNull, BNLP!ReturnNull, BNL!vars, BNLP!vars
<1> QED
  BY <1>1, <1>2, <1>3, <1>4, <1>5, <1>6, <1>7, <1>8, <1>9, <1>10, <1>11, <1>12,
     <1>13, <1>14, <1>15, <1>16

\* The block nested loop's assumptions hold of WindowPlans.
LEMMA BNLAssumptions == BNLP!NullAssumption /\ BNLP!PlansAssumption /\ BNLP!RanksAssumption
<1>1. BNLP!NullAssumption
  BY NullAssumption DEF BNLP!NullAssumption
<1>2. BNLP!PlansAssumption
  BY WindowPlansAssumption DEF PlanNode, Column, Directions, Row, Columns,
     Datum, Policies, BNLP!PlansAssumption, BNLP!PlanNode, BNLP!Column,
     BNLP!Directions, BNLP!Row, BNLP!Columns, BNLP!Datum, BNLP!Policies
<1>3. RandomRanks \subseteq Int /\ NaN \notin Int
  BY NodeRanksAssumption
<1>4. BNLP!RanksAssumption
  BY <1>3, WindowRanksAssumption, SMT DEF BNLP!RanksAssumption
<1> QED
  BY <1>1, <1>2, <1>4

\* The sort filter skyline.
LEMMA SameSFSWindow ==
    ASSUME NEW w, NEW x, NEW y, NEW z
    PROVE  /\ SFS!tuplewindow_rewind(w) = SFSP!tuplewindow_rewind(w)
           /\ SFS!tuplewindow_movenext(w) = SFSP!tuplewindow_movenext(w)
           /\ SFS!tuplewindow_clean(w) = SFSP!tuplewindow_clean(w)
           /\ SFS!tuplewindow_setinsertrank(w, x) = SFSP!tuplewindow_setinsertrank(w, x)
           /\ SFS!tuplewindow_ateof(w) = SFSP!tuplewindow_ateof(w)
           /\ SFS!tuplewindow_has_freespace(w) = SFSP!tuplewindow_has_freespace(w)
           /\ SFS!tuplewindow_puttupleslot(w, x, y, z) = SFSP!tuplewindow_puttupleslot(w, x, y, z)
           /\ SFS!CurrentSlot(w) = SFSP!CurrentSlot(w)
<1>1. /\ SFS!tuplewindow_rewind(w) = SFSP!tuplewindow_rewind(w)
      /\ SFS!tuplewindow_setinsertrank(w, x) = SFSP!tuplewindow_setinsertrank(w, x)
      /\ SFS!tuplewindow_ateof(w) = SFSP!tuplewindow_ateof(w)
      /\ SFS!CurrentSlot(w) = SFSP!CurrentSlot(w)
  BY SMT DEF SFS!tuplewindow_rewind, SFSP!tuplewindow_rewind,
     SFS!tuplewindow_setinsertrank, SFSP!tuplewindow_setinsertrank,
     SFS!tuplewindow_ateof, SFSP!tuplewindow_ateof, SFS!Nil, SFSP!Nil,
     SFS!CurrentSlot, SFSP!CurrentSlot
<1>2. SFS!tuplewindow_movenext(w) = SFSP!tuplewindow_movenext(w)
  BY SMT DEF SFS!tuplewindow_movenext, SFSP!tuplewindow_movenext,
     SFS!tuplewindow_ateof, SFSP!tuplewindow_ateof, SFS!Nil, SFSP!Nil,
     SFS!CurrentSlot, SFSP!CurrentSlot, SFS!Ranked, SFSP!Ranked, SFS!RankGeq,
     SFSP!RankGeq
<1>3. SFS!tuplewindow_clean(w) = SFSP!tuplewindow_clean(w)
  BY SMT DEF SFS!tuplewindow_clean, SFSP!tuplewindow_clean, SFS!Nil,
     SFSP!Nil, SFS!Dangling, SFSP!Dangling
<1>4. SFS!tuplewindow_has_freespace(w) = SFSP!tuplewindow_has_freespace(w)
  BY SMT DEF SFS!tuplewindow_has_freespace, SFSP!tuplewindow_has_freespace
<1>5. SFS!tuplewindow_puttupleslot(w, x, y, z) = SFSP!tuplewindow_puttupleslot(w, x, y, z)
  BY SMT DEF SFS!tuplewindow_puttupleslot, SFSP!tuplewindow_puttupleslot,
     SFS!Ranked, SFSP!Ranked, SFS!tuplewindow_has_freespace,
     SFSP!tuplewindow_has_freespace, SFS!InsertSlot, SFSP!InsertSlot,
     SFS!LinkAt, SFSP!LinkAt, SFS!Entry, SFSP!Entry, SFS!MinusDblMax,
     SFSP!MinusDblMax, SFS!Nil, SFSP!Nil
<1> QED
  BY <1>1, <1>2, <1>3, <1>4, <1>5

\* The comparison is the same in both instances.
LEMMA SameSFSComparison ==
    \A n, r, s : SFS!IsDominating(n, r, s) = SFSP!IsDominating(n, r, s)
  BY SMT DEF SFS!IsDominating, SFSP!IsDominating, SFS!ApplyCompare,
         SFSP!ApplyCompare, SFS!Columns, SFSP!Columns, SFS!Sign, SFSP!Sign

\* So is the rank of a row.
LEMMA SameSFSRank ==
    \A n, r : SFS!ExecSkylineRank(n, r) = SFSP!ExecSkylineRank(n, r)
  BY SMTT(60) DEF SFS!ExecSkylineRank, SFSP!ExecSkylineRank, SFS!RankAfter,
     SFSP!RankAfter, SFS!Columns, SFSP!Columns, SFS!RankedColumns,
     SFSP!RankedColumns, SFS!Unit, SFSP!Unit, SFS!ScaledValue,
     SFSP!ScaledValue, SFS!Badness, SFSP!Badness

\* So are the ranks a tuple may be inserted with.
LEMMA SameSFSInsertRanks == \A i : SFS!InsertRanks(i) = SFSP!InsertRanks(i)
  BY SameSFSRank, SMT DEF SFS!InsertRanks, SFSP!InsertRanks

\* So is the start of the loop over the window.
LEMMA SameSFSStartComparing ==
    \A i : SFS!StartComparing(i) <=> SFSP!StartComparing(i)
  BY SameSFSWindow, SameSFSInsertRanks, SMT DEF SFS!StartComparing,
     SFSP!StartComparing

\* A step of the node's sort filter skyline is one of the module's own.
LEMMA SameSFSSteps ==
    /\ SFS!Start <=> SFSP!Start
    /\ SFS!FetchOuter <=> SFSP!FetchOuter
    /\ SFS!FetchTemp <=> SFSP!FetchTemp
    /\ SFS!Drop <=> SFSP!Drop
    /\ SFS!MoveNext <=> SFSP!MoveNext
    /\ SFS!PutInWindow <=> SFSP!PutInWindow
    /\ SFS!WriteToTemp <=> SFSP!WriteToTemp
    /\ SFS!LastPass <=> SFSP!LastPass
    /\ SFS!NextPass <=> SFSP!NextPass
    /\ SFS!ReturnNull <=> SFSP!ReturnNull
<1>1. SFS!Start <=> SFSP!Start
  BY SMT DEF SFS!Start, SFSP!Start, SFS!plan, SFSP!plan
<1>2. SFS!FetchOuter <=> SFSP!FetchOuter
  BY SameSFSStartComparing, SMT DEF SFS!FetchOuter, SFSP!FetchOuter, SFS!plan,
     SFSP!plan, SFS!files, SFSP!files
<1>3. SFS!FetchTemp <=> SFSP!FetchTemp
  BY SameSFSStartComparing, SMT DEF SFS!FetchTemp, SFSP!FetchTemp, SFS!plan,
     SFSP!plan
<1>4. SFS!Drop <=> SFSP!Drop
  BY SameSFSWindow, SameSFSComparison, SMT DEF SFS!Drop, SFSP!Drop,
     SFS!Comparing, SFSP!Comparing, SFS!plan, SFSP!plan, SFS!files, SFSP!files,
     SFS!DropsSlot, SFSP!DropsSlot, SFS!Cmp, SFSP!Cmp
<1>5. SFS!MoveNext <=> SFSP!MoveNext
  BY SameSFSWindow, SameSFSComparison, SMT DEF SFS!MoveNext, SFSP!MoveNext,
     SFS!Comparing, SFSP!Comparing, SFS!plan, SFSP!plan, SFS!files, SFSP!files,
     SFS!DropsSlot, SFSP!DropsSlot, SFS!Cmp, SFSP!Cmp
<1>6. SFS!PutInWindow <=> SFSP!PutInWindow
  BY SameSFSWindow, SMT DEF SFS!PutInWindow, SFSP!PutInWindow, SFS!Comparing,
     SFSP!Comparing, SFS!plan, SFSP!plan, SFS!files, SFSP!files, SFS!HasSpace,
     SFSP!HasSpace
<1>7. SFS!WriteToTemp <=> SFSP!WriteToTemp
  BY SameSFSWindow, SMT DEF SFS!WriteToTemp, SFSP!WriteToTemp, SFS!Comparing,
     SFSP!Comparing, SFS!plan, SFSP!plan, SFS!HasSpace, SFSP!HasSpace
<1>8. SFS!LastPass <=> SFSP!LastPass
  BY SMT DEF SFS!LastPass, SFSP!LastPass, SFS!plan, SFSP!plan, SFS!EndOfSource,
     SFSP!EndOfSource
<1>9. SFS!NextPass <=> SFSP!NextPass
  BY SameSFSWindow, SMT DEF SFS!NextPass, SFSP!NextPass, SFS!plan, SFSP!plan,
     SFS!EndOfSource, SFSP!EndOfSource
<1>10. SFS!ReturnNull <=> SFSP!ReturnNull
  BY SMT DEF SFS!ReturnNull, SFSP!ReturnNull, SFS!vars, SFSP!vars
<1> QED
  BY <1>1, <1>2, <1>3, <1>4, <1>5, <1>6, <1>7, <1>8, <1>9, <1>10

\* The sort filter skyline's assumptions hold of WindowPlans.
LEMMA SFSAssumptions == SFSP!NullAssumption /\ SFSP!PlansAssumption /\ SFSP!RanksAssumption
<1>1. SFSP!NullAssumption
  BY NullAssumption DEF SFSP!NullAssumption
<1>2. SFSP!PlansAssumption
  BY WindowPlansAssumption DEF PlanNode, Column, Directions, Row, Columns,
     Datum, Policies, SFSP!PlansAssumption, SFSP!PlanNode, SFSP!Column,
     SFSP!Directions, SFSP!Row, SFSP!Columns, SFSP!Datum, SFSP!Policies
<1>3. RandomRanks \subseteq Int /\ NaN \notin Int
  BY NodeRanksAssumption
<1>4. SFSP!RanksAssumption
  BY <1>3, WindowRanksAssumption, SMT DEF SFSP!RanksAssumption
<1> QED
  BY <1>1, <1>2, <1>4

\* The elimination filter.
LEMMA SameEFWindow ==
    ASSUME NEW w, NEW x, NEW y, NEW z
    PROVE  /\ EF!tuplewindow_rewind(w) = EFP!tuplewindow_rewind(w)
           /\ EF!tuplewindow_movenext(w) = EFP!tuplewindow_movenext(w)
           /\ EF!tuplewindow_removecurrent(w) = EFP!tuplewindow_removecurrent(w)
           /\ EF!tuplewindow_setinsertrank(w, x) = EFP!tuplewindow_setinsertrank(w, x)
           /\ EF!tuplewindow_ateof(w) = EFP!tuplewindow_ateof(w)
           /\ EF!ForcedPut(w, x, y, z) = EFP!ForcedPut(w, x, y, z)
           /\ EF!CurrentSlot(w) = EFP!CurrentSlot(w)
<1>1. /\ EF!tuplewindow_rewind(w) = EFP!tuplewindow_rewind(w)
      /\ EF!tuplewindow_setinsertrank(w, x) = EFP!tuplewindow_setinsertrank(w, x)
      /\ EF!tuplewindow_ateof(w) = EFP!tuplewindow_ateof(w)
      /\ EF!CurrentSlot(w) = EFP!CurrentSlot(w)
  BY SMT DEF EF!tuplewindow_rewind, EFP!tuplewindow_rewind,
     EF!tuplewindow_setinsertrank, EFP!tuplewindow_setinsertrank,
     EF!tuplewindow_ateof, EFP!tuplewindow_ateof, EF!Nil, EFP!Nil,
     EF!CurrentSlot, EFP!CurrentSlot
<1>2. EF!tuplewindow_movenext(w) = EFP!tuplewindow_movenext(w)
  BY SMT DEF EF!tuplewindow_movenext, EFP!tuplewindow_movenext,
     EF!tuplewindow_ateof, EFP!tuplewindow_ateof, EF!Nil, EFP!Nil,
     EF!CurrentSlot, EFP!CurrentSlot, EF!Ranked, EFP!Ranked, EF!RankGeq,
     EFP!RankGeq
<1>3. EF!tuplewindow_removecurrent(w) = EFP!tuplewindow_removecurrent(w)
  BY SMT DEF EF!tuplewindow_removecurrent, EFP!tuplewindow_removecurrent,
     EF!tuplewindow_removeslot, EFP!tuplewindow_removeslot, EF!UnlinkAt,
     EFP!UnlinkAt
<1>4. EF!MakeRoom(w) = EFP!MakeRoom(w)
  BY SMT DEF EF!MakeRoom, EFP!MakeRoom, EF!RankGreater, EFP!RankGreater,
     EF!tuplewindow_removeslot, EFP!tuplewindow_removeslot,
     EF!UnlinkAt, EFP!UnlinkAt, EF!Ranked, EFP!Ranked,
     EF!tuplewindow_has_freespace, EFP!tuplewindow_has_freespace
<1>5. EF!ForcedPut(w, x, y, z) = EFP!ForcedPut(w, x, y, z)
  <2> DEFINE room == EFP!MakeRoom(w)
  <2>1. EF!MakeRoom(w) = room /\ EFP!MakeRoom(w) = room
    BY <1>4
  <2> HIDE DEF room
  <2>2. /\ EF!tuplewindow_has_freespace(room) <=> EFP!tuplewindow_has_freespace(room)
        /\ EF!tuplewindow_puttupleslot(room, x, y, z) = EFP!tuplewindow_puttupleslot(room, x, y, z)
    BY SMT DEF EF!tuplewindow_puttupleslot, EFP!tuplewindow_puttupleslot,
       EF!Ranked, EFP!Ranked, EF!tuplewindow_has_freespace,
       EFP!tuplewindow_has_freespace, EF!InsertSlot, EFP!InsertSlot,
       EF!LinkAt, EFP!LinkAt, EF!Entry, EFP!Entry, EF!MinusDblMax,
       EFP!MinusDblMax, EF!Nil, EFP!Nil
  <2> QED
    BY <2>1, <2>2, SMT DEF EF!ForcedPut, EFP!ForcedPut
<1> QED
  BY <1>1, <1>2, <1>3, <1>5

\* The comparison is the same in both instances.
LEMMA SameEFComparison ==
    \A n, r, s : EF!IsDominating(n, r, s) = EFP!IsDominating(n, r, s)
  BY SMT DEF EF!IsDominating, EFP!IsDominating, EF!ApplyCompare,
         EFP!ApplyCompare, EF!Columns, EFP!Columns, EF!Sign, EFP!Sign

\* So is the rank of a row.
LEMMA SameEFRank ==
    \A n, r : EF!ExecSkylineRank(n, r) = EFP!ExecSkylineRank(n, r)
  BY SMTT(60) DEF EF!ExecSkylineRank, EFP!ExecSkylineRank, EF!RankAfter,
     EFP!RankAfter, EF!Columns, EFP!Columns, EF!RankedColumns,
     EFP!RankedColumns, EF!Unit, EFP!Unit, EF!ScaledValue,
     EFP!ScaledValue, EF!Badness, EFP!Badness

\* So are the ranks a tuple may be inserted with.
LEMMA SameEFInsertRanks == \A i : EF!InsertRanks(i) = EFP!InsertRanks(i)
  BY SameEFRank, SMT DEF EF!InsertRanks, EFP!InsertRanks

\* A step of the node's elimination filter is one of the module's own.
LEMMA SameEFSteps ==
    /\ EF!Start <=> EFP!Start
    /\ EF!Fetch <=> EFP!Fetch
    /\ EF!EndOfInput <=> EFP!EndOfInput
    /\ EF!Drop <=> EFP!Drop
    /\ EF!RemoveDominated <=> EFP!RemoveDominated
    /\ EF!MoveNext <=> EFP!MoveNext
    /\ EF!PassOn <=> EFP!PassOn
    /\ EF!ReturnNull <=> EFP!ReturnNull
<1>1. EF!Start <=> EFP!Start
  BY SMT DEF EF!Start, EFP!Start, EF!plan, EFP!plan
<1>2. EF!Fetch <=> EFP!Fetch
  <2>1. \A rank : EF!tuplewindow_setinsertrank(EF!tuplewindow_rewind(window), rank)
                    = EFP!tuplewindow_setinsertrank(EFP!tuplewindow_rewind(window), rank)
    BY SMT DEF EF!tuplewindow_setinsertrank, EFP!tuplewindow_setinsertrank,
       EF!tuplewindow_rewind, EFP!tuplewindow_rewind
  <2>2. EF!InsertRanks(outerPos + 1) = EFP!InsertRanks(outerPos + 1)
    BY SameEFInsertRanks, SMT
  <2> QED
    BY <2>1, <2>2, SMT DEF EF!Fetch, EFP!Fetch, EF!plan, EFP!plan
<1>3. EF!EndOfInput <=> EFP!EndOfInput
  BY SMT DEF EF!EndOfInput, EFP!EndOfInput, EF!plan, EFP!plan
<1>4. EF!Drop <=> EFP!Drop
  BY SameEFWindow, SameEFComparison, SMT DEF EF!Drop, EFP!Drop, EF!Comparing,
     EFP!Comparing, EF!plan, EFP!plan, EF!DropsSlot, EFP!DropsSlot, EF!Cmp,
     EFP!Cmp
<1>5. EF!RemoveDominated <=> EFP!RemoveDominated
  BY SameEFWindow, SameEFComparison, SMTT(30) DEF EF!RemoveDominated,
     EFP!RemoveDominated, EF!Comparing, EFP!Comparing, EF!plan, EFP!plan,
     EF!Cmp, EFP!Cmp
<1>6. EF!MoveNext <=> EFP!MoveNext
  BY SameEFWindow, SameEFComparison, SMT DEF EF!MoveNext, EFP!MoveNext,
     EF!Comparing, EFP!Comparing, EF!plan, EFP!plan, EF!DropsSlot,
     EFP!DropsSlot, EF!Cmp, EFP!Cmp
<1>7. EF!PassOn <=> EFP!PassOn
  BY SameEFWindow, SMT DEF EF!PassOn, EFP!PassOn, EF!Comparing, EFP!Comparing,
     EF!plan, EFP!plan
<1>8. EF!ReturnNull <=> EFP!ReturnNull
  BY SMT DEF EF!ReturnNull, EFP!ReturnNull, EF!vars, EFP!vars
<1> QED
  BY <1>1, <1>2, <1>3, <1>4, <1>5, <1>6, <1>7, <1>8

\* The elimination filter's assumptions hold of WindowPlans.
LEMMA EFAssumptions == EFP!NullAssumption /\ EFP!PlansAssumption /\ EFP!RanksAssumption
<1>1. EFP!NullAssumption
  BY NullAssumption DEF EFP!NullAssumption
<1>2. EFP!PlansAssumption
  BY WindowPlansAssumption DEF PlanNode, Column, Directions, Row, Columns,
     Datum, Policies, EFP!PlansAssumption, EFP!PlanNode, EFP!Column,
     EFP!Directions, EFP!Row, EFP!Columns, EFP!Datum, EFP!Policies
<1>3. RandomRanks \subseteq Int /\ NaN \notin Int
  BY NodeRanksAssumption
<1>4. EFP!RanksAssumption
  BY <1>3, WindowRanksAssumption, SMT DEF EFP!RanksAssumption
<1> QED
  BY <1>1, <1>2, <1>4

-----------------------------------------------------------------------------
(* The inductive invariant. *)

\* The window with which a scan starts.
FreshWindow ==
    \E memory \in Int, slots \in Int, policy \in Policies :
        window = tuplewindow_begin(memory, slots, policy)

\* Once the scan has started, what its module proves of a method with a window.
WindowInv ==
    /\ UsesWindow /\ status = "SS_INIT" => FreshWindow
    /\ plan.method = "SM_BLOCKNESTEDLOOP" /\ status # "SS_INIT" => BNLP!TypeInv /\ BNLP!IInv
    /\ plan.method = "SM_SFS" /\ status # "SS_INIT" => SFSP!IInv
    /\ plan.method = "SM_ELIMFILTER" /\ status # "SS_INIT" => EFP!IInv

IInv == BaseInv /\ WindowInv

-----------------------------------------------------------------------------
(* A scan that has just started. *)

\* What the Start actions leave, whatever an earlier scan has left.
Started ==
    /\ Chosen /\ FreshWindow
    /\ status = "SS_PROCESS"
    /\ outerPos = 0 /\ slot = 0 /\ output = <<>>

FilesOpened ==
    source = "SS_OUTER" /\ tempIn = <<>> /\ tempInPos = 0 /\ tempOut = <<>> /\ timestampOut = 0

TimestampReset == timestampIn = 0

\* The plan that is executed, with its input, is one of WindowPlans.
LEMMA ChosenWindowPlan ==
    ASSUME Chosen
    PROVE  /\ \E p \in WindowPlans : node = p.node /\ input = p.input
           /\ node \in PlanNode /\ input \in Seq(Row(node)) /\ Len(input) \in Nat
<1> DEFINE w == [node |-> plan.node, input |-> input, policy |-> plan.policy,
                 slots |-> plan.slots, memory |-> plan.memory]
<1>1. w \in WindowPlans /\ node = w.node /\ input = w.input
  BY DEF Chosen, WindowPlans
<1> QED
  BY <1>1, ChosenTypes

\* A fresh window is empty and has its cursors in place.
LEMMA FreshBNLWindow ==
    ASSUME FreshWindow
    PROVE  window \in BNLP!Windows(BNLP!Ids) /\ BNLP!CursorsInList(window) /\ window.slots = <<>>
  BY DEF FreshWindow, tuplewindow_begin, MinusDblMax, BNLP!Windows, BNLP!CursorsInList, BNLP!Nil,
     BNLP!Policies, Policies

\* A block nested loop that has just started satisfies what its module proves.
LEMMA StartedBNL == Started /\ FilesOpened /\ TimestampReset => BNLP!TypeInv /\ BNLP!IInv
<1> SUFFICES ASSUME Started, FilesOpened, TimestampReset
             PROVE  BNLP!TypeInv /\ BNLP!IInv
  OBVIOUS
<1>1. BNLP!PlanChosen /\ node \in BNLP!PlanNode /\ input \in Seq(BNLP!Row(node)) /\ Len(input) \in Nat
  BY ChosenWindowPlan DEF Started, BNLP!PlanChosen, PlanNode, Column, Directions, Row, Columns,
     Datum, BNLP!PlanNode, BNLP!Column, BNLP!Directions, BNLP!Row, BNLP!Columns, BNLP!Datum
<1>2. BNLP!TypeOK
  BY <1>1, FreshBNLWindow DEF Started, FilesOpened, TimestampReset, BNLP!TypeOK, BNLP!Ids
<1>3. BNLP!IInv
  BY <1>2, FreshBNLWindow, BNLAssumptions, BNLP!NothingReadIInv DEF Started, FilesOpened, TimestampReset
<1> QED
  BY <1>1, <1>2, <1>3 DEF BNLP!TypeInv

\* So does a sort filter skyline.
LEMMA StartedSFS == Started /\ FilesOpened => SFSP!IInv
<1> SUFFICES ASSUME Started, FilesOpened
             PROVE  SFSP!IInv
  OBVIOUS
<1>1. SFSP!PlanChosen /\ node \in SFSP!PlanNode /\ input \in Seq(SFSP!Row(node)) /\ Len(input) \in Nat
  BY ChosenWindowPlan DEF Started, SFSP!PlanChosen, PlanNode, Column, Directions, Row, Columns,
     Datum, SFSP!PlanNode, SFSP!Column, SFSP!Directions, SFSP!Row, SFSP!Columns, SFSP!Datum
<1>2. /\ window \in SFSP!Windows(SFSP!Ids) /\ window.current <= SFSP!Nil(window)
      /\ window.rankinsert \in SFSP!Dangling..SFSP!Nil(window) /\ window.slots = <<>>
  BY DEF Started, FreshWindow, tuplewindow_begin, MinusDblMax, SFSP!Windows, SFSP!Nil,
     SFSP!Policies, Policies, SFSP!Dangling
<1>3. SFSP!TypeOK
  BY <1>1, <1>2 DEF Started, FilesOpened, SFSP!TypeOK, SFSP!Ids
<1>4. SFSP!TypeInv
  BY <1>1, <1>3 DEF SFSP!TypeInv
<1> QED
  BY <1>2, <1>4, SFSAssumptions, SFSP!NothingReadIInv DEF Started, FilesOpened

\* So does an elimination filter.
LEMMA StartedEF == Started => EFP!IInv
<1> SUFFICES ASSUME Started
             PROVE  EFP!IInv
  OBVIOUS
<1>1. EFP!PlanChosen /\ node \in EFP!PlanNode /\ input \in Seq(EFP!Row(node)) /\ Len(input) \in Nat
  BY ChosenWindowPlan DEF Started, EFP!PlanChosen, PlanNode, Column, Directions, Row, Columns,
     Datum, EFP!PlanNode, EFP!Column, EFP!Directions, EFP!Row, EFP!Columns, EFP!Datum
<1>2. window \in EFP!Windows(EFP!Ids) /\ EFP!CursorsInList(window) /\ window.slots = <<>>
  BY DEF Started, FreshWindow, tuplewindow_begin, MinusDblMax, EFP!Windows, EFP!CursorsInList,
     EFP!Nil, EFP!Policies, Policies
<1>3. EFP!TypeOK
  BY <1>1, <1>2 DEF Started, EFP!TypeOK, EFP!Ids
<1>4. EFP!TypeInv
  BY <1>1, <1>3 DEF EFP!TypeInv
<1> QED
  BY <1>2, <1>4, EFAssumptions, EFP!NothingReadIInv DEF Started

\* The same of the state after a step.
LEMMA StartedBNLNext == Started' /\ FilesOpened' /\ TimestampReset' => (BNLP!TypeInv /\ BNLP!IInv)'
  BY StartedBNL, PTL

\* So of the sort filter skyline.
LEMMA StartedSFSNext == Started' /\ FilesOpened' => SFSP!IInv'
  BY StartedSFS, PTL

\* So of the elimination filter.
LEMMA StartedEFNext == Started' => EFP!IInv'
  BY StartedEF, PTL

-----------------------------------------------------------------------------
(* The steps of the methods with a window. *)

\* In each of these actions a scan starts.
LEMMA StartStep ==
    ASSUME IInv, ExecSkyline, BNL!Start \/ SFS!Start \/ EF!Start, UsesWindow
    PROVE  /\ Started'
           /\ BNL!Start \/ SFS!Start => FilesOpened'
           /\ BNL!Start => TimestampReset'
<1>0. plan' = plan
  BY DEF ExecSkyline
<1>1. /\ status = "SS_INIT" /\ status' = "SS_PROCESS" /\ plan' = plan
      /\ UNCHANGED <<node, input, outerPos, window, slot, output>>
  <2>1. CASE BNL!Start
    BY <1>0, <2>1 DEF BNL!Start, BNL!plan
  <2>2. CASE SFS!Start
    BY <1>0, <2>2 DEF SFS!Start, SFS!plan
  <2>3. CASE EF!Start
    BY <1>0, <2>3 DEF EF!Start, EF!plan
  <2> QED
    BY <2>1, <2>2, <2>3
<1>2. Chosen /\ FreshWindow
  BY <1>1 DEF IInv, BaseInv, NodeTypes, WindowInv
<1>3. outerPos = 0 /\ slot = 0 /\ output = <<>>
  <2>1. plan.method # "SM_MATERIALIZEDNESTEDLOOP" /\ ~inLoop
    BY MethodFrame DEF IInv, UsesWindow, WindowMethods
  <2>2. PhaseInv
    BY DEF IInv, BaseInv, NodeInv
  <2> QED
    BY <1>1, <2>1, <2>2, Zenon DEF PhaseInv
<1>4. Chosen' /\ FreshWindow'
  BY <1>1, <1>2 DEF Chosen, FreshWindow
<1> QED
  BY <1>1, <1>3, <1>4 DEF Started, FilesOpened, TimestampReset, BNL!Start, SFS!Start

\* The block nested loop keeps the node's inductive invariant.
LEMMA BNLIInv == IInv /\ ExecSkyline /\ RunBNL => IInv'
<1> SUFFICES ASSUME IInv, ExecSkyline, RunBNL PROVE IInv'
  OBVIOUS
<1>1. plan' = plan /\ plan.method = "SM_BLOCKNESTEDLOOP" /\ BNL!Next
  BY DEF ExecSkyline, RunBNL
<1>2. (BNLP!TypeInv /\ BNLP!IInv)'
  <2>1. CASE BNL!Start
    BY <1>1, <2>1, StartStep, StartedBNLNext DEF UsesWindow, WindowMethods
  <2>2. CASE ~BNL!Start
    <3>1. status # "SS_INIT"
      BY <1>1, <2>2 DEF BNL!Next, BNL!FetchOuter, BNL!FetchTemp, BNL!Drop, BNL!RemoveDominated,
         BNL!MoveNext, BNL!PutInWindow, BNL!WriteToTemp, BNL!LastPass, BNL!NextPass,
         BNL!PipeOut, BNL!PipeOutSkip, BNL!PipeOutEnd, BNL!FinalPipeOut, BNL!Finish,
         BNL!ReturnNull, BNL!EndOfSource, BNL!Comparing
    <3>2. BNLP!TypeInv /\ BNLP!IInv
      BY <1>1, <3>1 DEF IInv, WindowInv
    <3>3. BNLP!Next
      BY <1>1, SameBNLSteps, Zenon DEF BNL!Next, BNLP!Next
    <3> QED
      BY <3>2, <3>3, BNLAssumptions, BNLP!NextTypeInv, BNLP!NextIInv
  <2> QED
    BY <2>1, <2>2
<1>3. /\ outerPos' \in 0..Len(input') /\ output' \in Seq(BNLP!Ids)'
      /\ slot' # 0 => status' = "SS_PROCESS"
  BY <1>2 DEF BNLP!TypeInv, BNLP!TypeOK, BNLP!IInv, BNLP!PhaseInv
<1>4. WindowStep
  <2>1. output' \in Seq(Int)
    BY <1>3 DEF BNLP!Ids
  <2>2. OutputInv'
    BY <1>1 DEF OutputInv
  <2>3. BNL!Next
    BY <1>1
  <2> QED
    BY <1>3, <2>1, <2>2, <2>3, BNLReturns DEF WindowStep
<1>5. BaseInv'
  BY <1>4, WindowStepBase DEF IInv
<1>6. WindowInv'
  BY <1>1, <1>2, <1>4 DEF WindowInv, WindowStep
<1> QED
  BY <1>5, <1>6 DEF IInv

\* One more tuple can be read before the end.
LEMMA UnreadLeft ==
    ASSUME NEW len \in Nat, NEW n \in 0..len, n # len
    PROVE  n + 1 \in n+1..len
  OBVIOUS

\* The sort filter skyline keeps the node's inductive invariant.
LEMMA SFSIInv == IInv /\ ExecSkyline /\ RunSFS => IInv'
<1> SUFFICES ASSUME IInv, ExecSkyline, RunSFS PROVE IInv'
  OBVIOUS
<1>1. plan' = plan /\ plan.method = "SM_SFS" /\ SFS!Next
  BY DEF ExecSkyline, RunSFS
<1>2. SFSP!IInv' /\ (status = "SS_DONE" => slot = 0)
  <2>1. CASE SFS!Start
    <3>1. SFSP!IInv'
      BY <1>1, <2>1, StartStep, StartedSFSNext DEF UsesWindow, WindowMethods
    <3>2. status # "SS_DONE"
      BY <2>1 DEF SFS!Start
    <3> QED
      BY <3>1, <3>2
  <2>2. CASE ~SFS!Start
    <3>1. status # "SS_INIT"
      BY <1>1, <2>2 DEF SFS!Next, SFS!FetchOuter, SFS!FetchTemp, SFS!Drop, SFS!MoveNext,
         SFS!PutInWindow, SFS!WriteToTemp, SFS!LastPass, SFS!NextPass, SFS!ReturnNull,
         SFS!EndOfSource, SFS!Comparing
    <3>2. SFSP!IInv
      BY <1>1, <3>1 DEF IInv, WindowInv
    <3>3. SFSP!Next
      BY <1>1, SameSFSSteps, Zenon DEF SFS!Next, SFSP!Next
    <3>4. status = "SS_DONE" => slot = 0
      BY <3>2 DEF SFSP!IInv, SFSP!SortFilterInv, SFSP!PhaseInv
    <3> QED
      BY <3>2, <3>3, <3>4, SFSAssumptions, SFSP!NextIInv
  <2> QED
    BY <2>1, <2>2
<1>3. /\ outerPos' \in 0..Len(input') /\ output' \in Seq(SFSP!Ids)' /\ Len(input') \in Nat
      /\ slot' # 0 => status' = "SS_PROCESS"
      /\ SFSP!Increasing(output)'
      /\ \A x \in SFSP!Query!Emitted', y \in SFSP!Pending' : x < y
  BY <1>2 DEF SFSP!IInv, SFSP!SortFilterInv, SFSP!TypeOK, SFSP!PhaseInv, SFSP!OrderInv
<1>4. \A k \in 1..Len(output') : output'[k] <= outerPos'
  <2> SUFFICES ASSUME NEW k \in 1..Len(output')
               PROVE  output'[k] <= outerPos'
    OBVIOUS
  <2>1. output'[k] \in 1..Len(input') /\ output'[k] \in SFSP!Query!Emitted'
    BY <1>3 DEF SFSP!Ids, SFSP!Query!Emitted
  <2>2. CASE outerPos' = Len(input')
    BY <1>3, <2>1, <2>2
  <2>3. CASE outerPos' # Len(input')
    <3>1. outerPos' + 1 \in SFSP!Pending'
      <4>1. outerPos' \in 0..Len(input') /\ Len(input') \in Nat
        BY <1>3, Zenon
      <4>2. outerPos' + 1 \in outerPos' + 1..Len(input')
        BY <2>3, <4>1, UnreadLeft
      <4> QED
        BY <4>2, Zenon DEF SFSP!Pending, SFSP!UnreadOuter
    <3>2. output'[k] < outerPos' + 1
      BY <1>3, <2>1, <3>1
    <3> QED
      BY <1>3, <2>1, <3>2
  <2> QED
    BY <2>2, <2>3
<1>5. WindowStep
  <2>1. output' \in Seq(Int)
    BY <1>3 DEF SFSP!Ids
  <2>2. OutputInv'
    BY <1>3, <1>4 DEF OutputInv, SFSP!Increasing, Increasing
  <2>3. SFS!Next /\ (status = "SS_DONE" => slot = 0)
    BY <1>1, <1>2
  <2> QED
    BY <1>3, <2>1, <2>2, <2>3, SFSReturns DEF WindowStep
<1>6. BaseInv'
  BY <1>5, WindowStepBase DEF IInv
<1>7. WindowInv'
  BY <1>1, <1>2, <1>5 DEF WindowInv, WindowStep
<1> QED
  BY <1>6, <1>7 DEF IInv

\* The elimination filter keeps the node's inductive invariant.
LEMMA EFIInv == IInv /\ ExecSkyline /\ RunElimFilter => IInv'
<1> SUFFICES ASSUME IInv, ExecSkyline, RunElimFilter PROVE IInv'
  OBVIOUS
<1>1. plan' = plan /\ plan.method = "SM_ELIMFILTER" /\ EF!Next
  BY DEF ExecSkyline, RunElimFilter
<1>2. EFP!IInv' /\ (status = "SS_DONE" => slot = 0)
  <2>1. CASE EF!Start
    <3>1. EFP!IInv'
      BY <1>1, <2>1, StartStep, StartedEFNext DEF UsesWindow, WindowMethods
    <3>2. status # "SS_DONE"
      BY <2>1 DEF EF!Start
    <3> QED
      BY <3>1, <3>2
  <2>2. CASE ~EF!Start
    <3>1. status # "SS_INIT"
      BY <1>1, <2>2 DEF EF!Next, EF!Fetch, EF!EndOfInput, EF!Drop, EF!RemoveDominated,
         EF!MoveNext, EF!PassOn, EF!ReturnNull, EF!Comparing
    <3>2. EFP!IInv
      BY <1>1, <3>1 DEF IInv, WindowInv
    <3>3. EFP!Next
      BY <1>1, SameEFSteps, Zenon DEF EF!Next, EFP!Next
    <3>4. status = "SS_DONE" => slot = 0
      BY <3>2 DEF EFP!IInv, EFP!FilterInv, EFP!PhaseInv
    <3> QED
      BY <3>2, <3>3, <3>4, EFAssumptions, EFP!NextIInv
  <2> QED
    BY <2>1, <2>2
<1>3. /\ outerPos' \in 0..Len(input') /\ output' \in Seq(EFP!Ids)'
      /\ slot' # 0 => status' = "SS_PROCESS"
      /\ \A q, r \in 1..Len(output') : q < r => output'[q] < output'[r]
      /\ EFP!Filter!Passed' \subseteq 1..outerPos'
  BY <1>2 DEF EFP!IInv, EFP!FilterInv, EFP!TypeOK, EFP!PhaseInv, EFP!PassedInv
<1>4. \A k \in 1..Len(output') : output'[k] <= outerPos'
  BY <1>3 DEF EFP!Filter!Passed
<1>5. WindowStep
  <2>1. output' \in Seq(Int)
    BY <1>3 DEF EFP!Ids
  <2>2. OutputInv'
    BY <1>3, <1>4 DEF OutputInv, Increasing
  <2>3. EF!Next /\ (status = "SS_DONE" => slot = 0)
    BY <1>1, <1>2
  <2> QED
    BY <1>3, <2>1, <2>2, <2>3, EFReturns DEF WindowStep
<1>6. BaseInv'
  BY <1>5, WindowStepBase DEF IInv
<1>7. WindowInv'
  BY <1>1, <1>2, <1>5 DEF WindowInv, WindowStep
<1> QED
  BY <1>6, <1>7 DEF IInv

\* The methods without a window.
LEMMA OtherIInv ==
    IInv /\ ExecSkyline /\ (Run1Dim \/ Run1DimDistinct \/ Run2DimPreSort \/ RunMNL) => IInv'
<1> SUFFICES ASSUME IInv, ExecSkyline, Run1Dim \/ Run1DimDistinct \/ Run2DimPreSort \/ RunMNL
             PROVE  IInv'
  OBVIOUS
<1>1. BaseInv
  BY DEF IInv
<1>2. BaseInv'
  BY <1>1, OneDimBase, OneDimDistinctBase, TwoDimBase, MaterializedBase
<1>3. plan.method \notin WindowMethods /\ plan' = plan
  BY DEF ExecSkyline, Run1Dim, Run1DimDistinct, Run2DimPreSort, RunMNL, WindowMethods
<1>4. WindowInv'
  BY <1>3 DEF WindowInv, UsesWindow, WindowMethods
<1> QED
  BY <1>2, <1>4 DEF IInv

\* The limits a window was begun with.
LEMMA WindowLimits ==
    ASSUME IInv, UsesWindow
    PROVE  window.maxMem \in Int /\ window.maxSlots \in Int /\ window.policy \in Policies
<1>1. CASE status = "SS_INIT"
  BY <1>1 DEF IInv, WindowInv, FreshWindow, tuplewindow_begin
<1>2. CASE status # "SS_INIT"
  <2>1. \/ window \in BNLP!Windows(BNLP!Ids)
        \/ window \in SFSP!Windows(SFSP!Ids)
        \/ window \in EFP!Windows(EFP!Ids)
    BY <1>2 DEF IInv, WindowInv, UsesWindow, WindowMethods, BNLP!TypeInv, BNLP!TypeOK,
       SFSP!IInv, SFSP!TypeInv, SFSP!TypeOK, EFP!IInv, EFP!TypeInv, EFP!TypeOK
  <2> QED
    BY <2>1 DEF BNLP!Windows, SFSP!Windows, EFP!Windows, BNLP!Policies, SFSP!Policies,
       EFP!Policies, Policies
<1> QED
  BY <1>1, <1>2

\* ExecReScanSkyline gives every scan a fresh window.
LEMMA RescanIInv == IInv /\ ExecReScanSkyline => IInv'
<1> SUFFICES ASSUME IInv, ExecReScanSkyline PROVE IInv'
  OBVIOUS
<1>1. BaseInv'
  BY RescanBase DEF IInv
<1>2. plan' = plan /\ status' = "SS_INIT" /\ InitTupleWindow
  BY DEF ExecReScanSkyline
<1>3. UsesWindow => FreshWindow'
  <2> SUFFICES ASSUME UsesWindow PROVE FreshWindow'
    OBVIOUS
  <2>1. window' = tuplewindow_begin(window.maxMem, window.maxSlots, window.policy)
    BY <1>2 DEF InitTupleWindow
  <2> QED
    BY <2>1, WindowLimits DEF FreshWindow
<1>4. WindowInv'
  BY <1>2, <1>3 DEF WindowInv, UsesWindow
<1> QED
  BY <1>1, <1>4 DEF IInv

\* Steps that leave what the methods use alone.
LEMMA WindowUnchanged ==
    ASSUME IInv,
           UNCHANGED <<plan, node, input, outerPos, status, output, windowState>>
    PROVE  WindowInv'
<1>1. /\ UNCHANGED <<plan, status, window>>
      /\ UNCHANGED BNLP!vars /\ UNCHANGED SFSP!vars /\ UNCHANGED EFP!vars
  BY DEF windowState, BNLP!vars, SFSP!vars, EFP!vars
<1>2. BNLP!TypeInv /\ BNLP!IInv => (BNLP!TypeInv /\ BNLP!IInv)'
  BY <1>1, BNLAssumptions, BNLP!NextTypeInv, BNLP!NextIInv
<1>3. SFSP!IInv => SFSP!IInv'
  BY <1>1, SFSAssumptions, SFSP!NextIInv
<1>4. EFP!IInv => EFP!IInv'
  BY <1>1, EFAssumptions, EFP!NextIInv
<1>5. FreshWindow => FreshWindow'
  BY <1>1 DEF FreshWindow
<1>6. WindowInv
  BY DEF IInv
<1> QED
  BY <1>1, <1>2, <1>3, <1>4, <1>5, <1>6, Zenon DEF WindowInv, UsesWindow

-----------------------------------------------------------------------------

\* ExecInitSkyline establishes the inductive invariant.
LEMMA ExecInitIInv == Chosen /\ ExecInitSkyline => IInv
<1> SUFFICES ASSUME Chosen, ExecInitSkyline PROVE IInv
  OBVIOUS
<1>1. BaseInv
  BY InitBaseInv
<1>2. UsesWindow => FreshWindow
  <2>1. plan.slots \in Int /\ plan.memory \in Int /\ plan.policy \in Policies
    BY NodePlansAssumption DEF Chosen
  <2>2. WindowPolicy(plan) \in Policies
    BY <2>1 DEF WindowPolicy, Policies
  <2> QED
    BY <2>1, <2>2 DEF ExecInitSkyline, FreshWindow
<1>3. WindowInv
  BY <1>2 DEF ExecInitSkyline, WindowInv
<1> QED
  BY <1>1, <1>3 DEF IInv

\* So it does of a plan that a step has chosen.
LEMMA ExecInitNext == Chosen' /\ ExecInitSkyline' => IInv' /\ QueryInv'
  BY ExecInitIInv, InitQueryInv, PTL

\* The inductive invariant holds initially.
LEMMA InitIInv == Init => IInv
  BY InitChosen, ExecInitIInv

\* Every step keeps it.
LEMMA NextIInv == IInv /\ [Next]_vars => IInv'
<1> SUFFICES ASSUME IInv, [Next]_vars PROVE IInv'
  OBVIOUS
<1>1. CASE ExecSkyline
  BY <1>1, BNLIInv, SFSIInv, EFIInv, OtherIInv DEF ExecSkyline
<1>2. CASE ExecReScanSkyline
  BY <1>2, RescanIInv
<1>3. CASE ExecEndSkyline
  <2>1. UNCHANGED <<plan, node, input, outerPos, status, output, windowState>>
    BY <1>3 DEF ExecEndSkyline
  <2> QED
    BY <1>3, <2>1, EndBase, WindowUnchanged DEF IInv
<1>4. CASE UNCHANGED vars
  <2>1. UNCHANGED <<plan, node, input, outerPos, status, output, windowState>>
    BY <1>4 DEF vars
  <2> QED
    BY <1>4, <2>1, StutterBase, WindowUnchanged DEF IInv
<1> QED
  BY <1>1, <1>2, <1>3, <1>4 DEF Next, Ended

\* What a method returns is a tuple that it has read.
OutputIds == \A k \in 1..Len(output) : output[k] \in 1..Len(input)

\* The two methods with a window that know the tuples by nothing but their place.
WindowOutput == plan.method \in {"SM_SFS", "SM_ELIMFILTER"} => OutputIds

\* For those their modules' type invariants say it.
LEMMA WindowOutputIds == IInv => WindowOutput
<1> SUFFICES ASSUME IInv, plan.method \in {"SM_SFS", "SM_ELIMFILTER"} PROVE OutputIds
  BY DEF WindowOutput
<1>1. CASE status = "SS_INIT"
  <2>1. output = <<>>
    BY <1>1 DEF IInv, BaseInv, NodeInv, PhaseInv
  <2> QED
    BY <2>1 DEF OutputIds
<1>2. CASE status # "SS_INIT" /\ plan.method = "SM_SFS"
  <2>1. SFSP!TypeOK
    BY <1>2 DEF IInv, WindowInv, SFSP!IInv, SFSP!TypeInv
  <2>2. output \in Seq(1..Len(input))
    BY <2>1 DEF SFSP!TypeOK, SFSP!Ids
  <2> QED
    BY <2>2 DEF OutputIds
<1>3. CASE status # "SS_INIT" /\ plan.method = "SM_ELIMFILTER"
  <2>1. EFP!TypeOK
    BY <1>3 DEF IInv, WindowInv, EFP!IInv, EFP!TypeInv
  <2>2. output \in Seq(1..Len(input))
    BY <2>1 DEF EFP!TypeOK, EFP!Ids
  <2> QED
    BY <2>2 DEF OutputIds
<1> QED
  BY <1>1, <1>2, <1>3

\* The inductive invariant holds of every scan of every plan.
LEMMA IInvCorrect == Spec => []IInv
  BY InitIInv, NextIInv, PTL DEF Spec

\* What one call of ExecSkyline, or one scan, leaves in the SkylineState is what
\* the next call or the next scan needs: NodeInv holds whatever the method, the
\* rows and the moments of the rescans are (ExecReScanSkyline, nodeSkyline.c).
THEOREM NodeInvCorrect == Spec => []NodeInv
<1>1. IInv => NodeInv
  BY DEF IInv, BaseInv
<1> QED
  BY <1>1, IInvCorrect, PTL

\* A method that skyline_method_preserves_tuple_order names (skyline.c 325-382)
\* returns its tuples in the order of the outer plan, in every scan.
THEOREM PreservesOrderCorrect == Spec => PreservesOrder
<1>1. IInv' /\ [Next]_vars =>
        [skyline_method_preserves_tuple_order(plan.method) =>
           \A k, m \in DOMAIN output' : k < m => output'[k] < output'[m]]_vars
  <2> SUFFICES ASSUME IInv', [Next]_vars, skyline_method_preserves_tuple_order(plan.method)
               PROVE  \A k, m \in DOMAIN output' : k < m => output'[k] < output'[m]
    OBVIOUS
  <2>1. plan' = plan
    BY DEF Next, vars, ExecSkyline, ExecReScanSkyline, ExecEndSkyline, Ended
  <2>2. Increasing(output')
    BY <2>1 DEF IInv, BaseInv, NodeInv, OutputInv, skyline_method_preserves_tuple_order
  <2>3. output' \in Seq(Int)
    BY DEF IInv, BaseInv, NodeTypes
  <2> QED
    BY <2>2, <2>3 DEF Increasing
<1> QED
  BY <1>1, IInvCorrect, PTL DEF Spec, PreservesOrder

-----------------------------------------------------------------------------
(* The elimination filter, rescans included. *)

\* The two instances of SkylineFilter differ in what done is.
LEMMA SameFilter ==
    /\ \A i : EFP!Filter!Superfluous(i) <=> Filter!Superfluous(i)
    /\ EFP!Filter!Reached = Filter!Reached
    /\ EFP!Filter!Ids = Filter!Ids
<1>1. \A n, r, s : EFP!Filter!IsDominating(n, r, s) = Filter!IsDominating(n, r, s)
  BY SMT DEF EFP!Filter!IsDominating, Filter!IsDominating, EFP!Filter!ApplyCompare,
     Filter!ApplyCompare, EFP!Filter!Columns, Filter!Columns, EFP!Filter!Sign, Filter!Sign
<1>2. EFP!Filter!Passed = Filter!Passed
  BY SMT DEF EFP!Filter!Passed, Filter!Passed
<1>3. \A i : EFP!Filter!Superfluous(i) <=> Filter!Superfluous(i)
  BY <1>1, <1>2, SMT DEF EFP!Filter!Superfluous, Filter!Superfluous,
     EFP!Filter!Dominates, Filter!Dominates, EFP!Filter!AllEq, Filter!AllEq
<1>4. EFP!Filter!Reached = Filter!Reached /\ EFP!Filter!Ids = Filter!Ids
  BY SMT DEF EFP!Filter!Reached, Filter!Reached, EFP!Filter!Ids, Filter!Ids
<1> QED
  BY <1>3, <1>4

\* A step of the elimination filter is one the abstract filter takes, or changes nothing it sees.
LEMMA FilterStep ==
    ASSUME IInv, ExecSkyline, RunElimFilter
    PROVE  Filter!Next \/ UNCHANGED Filter!vars
<1>1. /\ plan.method = "SM_ELIMFILTER" /\ EF!Next
      /\ done' = (output' = output /\ status' = "SS_DONE")
  BY DEF ExecSkyline, RunElimFilter
<1>2. /\ done => status = "SS_DONE"
      /\ status = "SS_DONE" => done
      /\ done \in BOOLEAN
  BY <1>1 DEF IInv, BaseInv, DoneInv, NodeTypes
<1>3. status # "SS_INIT" => EFP!IInv
  BY <1>1 DEF IInv, WindowInv
<1>4. CASE EF!PassOn
  <2>1. EFP!PassOn /\ EFP!IInv /\ status = "SS_PROCESS" /\ status' = "SS_PROCESS"
    BY <1>3, <1>4, SameEFSteps DEF EF!PassOn, EF!Comparing
  <2>2. EFP!Filter!Pass(slot) /\ slot \in EFP!Filter!Ids
    BY <2>1, EFAssumptions, EFP!PassesTuple
  <2>3. done = FALSE /\ done' = FALSE
    BY <1>1, <1>2, <2>1
  <2>4. Filter!Pass(slot) /\ slot \in Filter!Ids
    BY <2>2, <2>3, SameFilter DEF EFP!Filter!Pass, Filter!Pass
  <2> QED
    BY <2>4 DEF Filter!Next
<1>5. CASE EF!EndOfInput
  <2>1. EFP!EndOfInput /\ EFP!IInv /\ status = "SS_PROCESS" /\ status' = "SS_DONE" /\ output' = output
    BY <1>3, <1>5, SameEFSteps DEF EF!EndOfInput
  <2>2. EFP!Filter!Finish
    BY <2>1, EFAssumptions, EFP!FinishesFilter
  <2>3. ~done /\ done' = TRUE
    BY <1>1, <1>2, <2>1
  <2>4. Filter!Finish
    BY <2>2, <2>3, SameFilter DEF EFP!Filter!Finish, Filter!Finish
  <2> QED
    BY <2>4 DEF Filter!Next
<1>6. CASE ~EF!PassOn /\ ~EF!EndOfInput
  <2>1. UNCHANGED <<node, input, output>> /\ (status' = "SS_DONE" <=> status = "SS_DONE")
    BY <1>1, <1>6 DEF EF!Next, EF!Start, EF!Fetch, EF!Drop, EF!RemoveDominated, EF!MoveNext,
       EF!ReturnNull, EF!Comparing, EF!plan, EF!vars
  <2>2. done' = done
    BY <1>1, <1>2, <2>1
  <2> QED
    BY <2>1, <2>2 DEF Filter!vars
<1> QED
  BY <1>4, <1>5, <1>6

\* In every scan the elimination filter passes the tuples of its outer plan on in
\* their order and leaves out only such as one it has passed on before makes
\* superfluous, whatever the moments of the rescans are (ExecElimFilter and
\* ExecReScanElimFilter, nodeElimFilter.c).
THEOREM RestartableFilterCorrect == Spec => ImplementsRestartableFilter
<1>1. Init => Filter!Init
  BY DEF Init, ExecInitSkyline, Filter!Init
<1>2. IInv /\ [Next]_vars =>
        [plan.method = "SM_ELIMFILTER" => Filter!RestartableNext]_(Filter!vars)
  <2> SUFFICES ASSUME IInv, [Next]_vars, plan.method = "SM_ELIMFILTER"
               PROVE  Filter!RestartableNext \/ UNCHANGED Filter!vars
    OBVIOUS
  <2>1. CASE ExecSkyline
    <3>1. RunElimFilter
      BY <2>1 DEF ExecSkyline, RunBNL, RunSFS, Run1Dim, Run1DimDistinct, Run2DimPreSort, RunMNL
    <3> QED
      BY <2>1, <3>1, FilterStep DEF Filter!RestartableNext
  <2>2. CASE ExecReScanSkyline
    BY <2>2 DEF ExecReScanSkyline, Filter!RestartableNext, Filter!Restart
  <2>3. CASE ExecEndSkyline \/ UNCHANGED vars
    BY <2>3 DEF ExecEndSkyline, vars, Filter!vars
  <2> QED
    BY <2>1, <2>2, <2>3 DEF Next, Ended
<1> QED
  BY <1>1, <1>2, IInvCorrect, PTL DEF Spec, ImplementsRestartableFilter

-----------------------------------------------------------------------------
(* The skyline query, rescans included. *)

\* The instances of SkylineQuery differ in what done is.
LEMMA SameBNLQuery ==
    /\ \A i : BNLP!Query!MayEmit(i) <=> Query!MayEmit(i)
    /\ BNLP!Query!Ids = Query!Ids
<1>1. \A n, r, s : BNLP!Query!IsDominating(n, r, s) = Query!IsDominating(n, r, s)
  BY SMT DEF BNLP!Query!IsDominating, Query!IsDominating, BNLP!Query!ApplyCompare,
     Query!ApplyCompare, BNLP!Query!Columns, Query!Columns, BNLP!Query!Sign, Query!Sign
<1>2. BNLP!Query!Emitted = Query!Emitted
  BY SMT DEF BNLP!Query!Emitted, Query!Emitted
<1>3. BNLP!Query!Ids = Query!Ids
  BY SMT DEF BNLP!Query!Ids, Query!Ids
<1>4. \A i : BNLP!Query!InSkyline(i) <=> Query!InSkyline(i)
  BY <1>1, <1>3, SMT DEF BNLP!Query!InSkyline, Query!InSkyline, BNLP!Query!Dominates,
     Query!Dominates
<1>5. \A j, i : BNLP!Query!Beats(j, i) <=> Query!Beats(j, i)
  BY <1>1, SMT DEF BNLP!Query!Beats, Query!Beats, BNLP!Query!Dominates, Query!Dominates,
     BNLP!Query!AllEq, Query!AllEq
<1>6. \A i : BNLP!Query!MayEmit(i) <=> Query!MayEmit(i)
  BY <1>2, <1>4, <1>5, SMT DEF BNLP!Query!MayEmit, Query!MayEmit
<1> QED
  BY <1>3, <1>6

\* So for the sort filter skyline, whose input is sorted as that of the plan.
LEMMA SameSFSQuery ==
    /\ \A i : SFSP!Query!MayEmit(i) <=> Query!MayEmit(i)
    /\ SFSP!Query!Ids = Query!Ids
    /\ SortedForSkyline(node, input) => SFSP!InputSorted
<1>1. \A n, r, s : SFSP!Query!IsDominating(n, r, s) = Query!IsDominating(n, r, s)
  BY SMT DEF SFSP!Query!IsDominating, Query!IsDominating, SFSP!Query!ApplyCompare,
     Query!ApplyCompare, SFSP!Query!Columns, Query!Columns, SFSP!Query!Sign, Query!Sign
<1>2. SFSP!Query!Emitted = Query!Emitted
  BY SMT DEF SFSP!Query!Emitted, Query!Emitted
<1>3. SFSP!Query!Ids = Query!Ids
  BY SMT DEF SFSP!Query!Ids, Query!Ids
<1>4. \A i : SFSP!Query!InSkyline(i) <=> Query!InSkyline(i)
  BY <1>1, <1>3, SMT DEF SFSP!Query!InSkyline, Query!InSkyline, SFSP!Query!Dominates,
     Query!Dominates
<1>5. \A j, i : SFSP!Query!Beats(j, i) <=> Query!Beats(j, i)
  BY <1>1, SMT DEF SFSP!Query!Beats, Query!Beats, SFSP!Query!Dominates, Query!Dominates,
     SFSP!Query!AllEq, Query!AllEq
<1>6. \A i : SFSP!Query!MayEmit(i) <=> Query!MayEmit(i)
  BY <1>2, <1>4, <1>5, SMT DEF SFSP!Query!MayEmit, Query!MayEmit
<1>7. \A n, r, s : SFSP!Dominates(n, r, s) <=> Dominates(n, r, s)
  BY SMT DEF SFSP!Dominates, Dominates, SFSP!IsDominating, IsDominating, SFSP!ApplyCompare,
     ApplyCompare, SFSP!Columns, Columns, SFSP!Sign, Sign
<1>8. SortedForSkyline(node, input) => SFSP!InputSorted
  BY <1>7, Zenon DEF SortedForSkyline, SFSP!InputSorted, SFSP!Ids
<1> QED
  BY <1>3, <1>6, <1>8

\* A step that the method takes for a step of the query is one.
LEMMA SameQueryStep ==
    ASSUME IInv, ExecSkyline, UsesWindow, status # "SS_DONE", UNCHANGED <<node, input>>,
           \/ /\ \E i \in Query!Ids : Query!MayEmit(i) /\ output' = Append(output, i)
              /\ status' # "SS_DONE"
           \/ /\ \A i \in Query!Ids : ~Query!MayEmit(i)
              /\ output' = output /\ status' = "SS_DONE"
           \/ output' = output /\ status' # "SS_DONE"
    PROVE  QueryStep
<1>1. BaseInv
  BY DEF IInv
<1>2. CASE \E i \in Query!Ids : Query!MayEmit(i) /\ output' = Append(output, i)
  BY <1>1, <1>2, EmitStep DEF Query!Ids
<1>3. CASE (\A i \in Query!Ids : ~Query!MayEmit(i)) /\ output' = output /\ status' = "SS_DONE"
  <2>1. done = FALSE /\ done' = TRUE
    BY <1>1, <1>3, StepBefore
  <2> QED
    BY <1>3, <2>1, QueryFinishes DEF QueryStep
<1>4. CASE output' = output /\ status' # "SS_DONE"
  BY <1>1, <1>4, QuietStep
<1> QED
  BY <1>2, <1>3, <1>4

\* A step of the block nested loop is one the query takes, or changes nothing it sees.
LEMMA BNLQueryStep ==
    ASSUME IInv, ExecSkyline, RunBNL
    PROVE  QueryStep
<1>1. plan.method = "SM_BLOCKNESTEDLOOP" /\ BNL!Next /\ UsesWindow /\ plan' = plan
  BY DEF ExecSkyline, RunBNL, UsesWindow, WindowMethods
<1>2. /\ status # "SS_INIT" => BNLP!TypeInv /\ BNLP!IInv
      /\ status' # "SS_INIT" => BNLP!IInv'
  <2>1. IInv'
    BY BNLIInv
  <2> QED
    BY <1>1, <2>1 DEF IInv, WindowInv
<1>3. UNCHANGED <<node, input>>
  BY <1>1 DEF BNL!Next, BNL!Start, BNL!FetchOuter, BNL!FetchTemp, BNL!Drop, BNL!RemoveDominated,
     BNL!MoveNext, BNL!PutInWindow, BNL!WriteToTemp, BNL!LastPass, BNL!NextPass,
     BNL!PipeOut, BNL!PipeOutSkip, BNL!PipeOutEnd, BNL!FinalPipeOut, BNL!Finish,
     BNL!ReturnNull, BNL!EndOfSource, BNL!EmitCurrent, BNL!plan, BNL!vars
<1>4. BNLP!plan' = BNLP!plan
  BY <1>3 DEF BNLP!plan
<1>5. CASE BNL!PipeOut \/ BNL!FinalPipeOut
  <2>1. /\ BNLP!PipeOut \/ BNLP!FinalPipeOut
        /\ status \in {"SS_PIPEOUT", "SS_FINALPIPEOUT"} /\ status' = status
    BY <1>5, SameBNLSteps DEF BNL!PipeOut, BNL!FinalPipeOut
  <2>2. BNLP!Query!Next
    BY <1>2, <1>4, <2>1, BNLAssumptions, BNLP!EmitsSkyline
  <2>3. PICK i \in BNLP!Query!Ids : BNLP!Query!Emit(i)
    BY <2>1, <2>2 DEF BNLP!Query!Next, BNLP!Query!Finish
  <2>4. i \in Query!Ids /\ Query!MayEmit(i) /\ output' = Append(output, i)
    BY <2>3, SameBNLQuery DEF BNLP!Query!Emit
  <2> QED
    BY <1>1, <1>3, <2>1, <2>4, SameQueryStep
<1>6. CASE BNL!Finish
  <2>1. BNLP!Finish /\ status = "SS_FINALPIPEOUT" /\ status' = "SS_DONE" /\ output' = output
    BY <1>6, SameBNLSteps DEF BNL!Finish
  <2>2. BNLP!Query!Next
    BY <1>2, <1>4, <2>1, BNLAssumptions, BNLP!FinishesQuery
  <2>3. BNLP!Query!Finish
    BY <2>1, <2>2 DEF BNLP!Query!Next, BNLP!Query!Emit
  <2>4. \A i \in Query!Ids : ~Query!MayEmit(i)
    BY <2>3, SameBNLQuery DEF BNLP!Query!Finish
  <2> QED
    BY <1>1, <1>3, <2>1, <2>4, SameQueryStep
<1>7. CASE ~BNL!PipeOut /\ ~BNL!FinalPipeOut /\ ~BNL!Finish
  <2>1. output' = output /\ (status' = "SS_DONE" <=> status = "SS_DONE")
    BY <1>1, <1>7 DEF BNL!Next, BNL!Start, BNL!FetchOuter, BNL!FetchTemp, BNL!Drop,
       BNL!RemoveDominated, BNL!MoveNext, BNL!PutInWindow, BNL!WriteToTemp, BNL!LastPass,
       BNL!NextPass, BNL!PipeOutSkip, BNL!PipeOutEnd, BNL!ReturnNull, BNL!EndOfSource,
       BNL!Comparing, BNL!EndOfTuple, BNL!vars
  <2>2. CASE status # "SS_DONE"
    BY <1>1, <1>3, <2>1, <2>2, SameQueryStep
  <2>3. CASE status = "SS_DONE"
    <3>1. done = TRUE /\ done' = TRUE
      BY <1>1, <2>1, <2>3, StepBefore DEF IInv
    <3> QED
      BY <1>3, <2>1, <3>1 DEF QueryStep
  <2> QED
    BY <2>2, <2>3
<1> QED
  BY <1>5, <1>6, <1>7

\* So is a step of the sort filter skyline, whose input is sorted.
LEMMA SFSQueryStep ==
    ASSUME IInv, ExecSkyline, RunSFS, WellPlanned(plan)
    PROVE  QueryStep
<1>1. plan.method = "SM_SFS" /\ SFS!Next /\ UsesWindow
  BY DEF RunSFS, UsesWindow, WindowMethods
<1>2. status # "SS_INIT" => SFSP!IInv
  BY <1>1 DEF IInv, WindowInv
<1>3. SFSP!InputSorted
  <2>1. node = plan.node /\ input \in plan.inputs
    BY DEF IInv, BaseInv, NodeTypes, Chosen
  <2> QED
    BY <1>1, <2>1, SameSFSQuery DEF WellPlanned
<1>4. UNCHANGED <<node, input>>
  BY <1>1 DEF SFS!Next, SFS!Start, SFS!FetchOuter, SFS!FetchTemp, SFS!Drop,
     SFS!MoveNext, SFS!PutInWindow, SFS!WriteToTemp, SFS!LastPass, SFS!NextPass,
     SFS!ReturnNull, SFS!EndOfSource, SFS!plan, SFS!vars
<1>5. CASE SFS!PutInWindow
  <2>1. SFSP!PutInWindow /\ status = "SS_PROCESS" /\ status' = status
    BY <1>5, SameSFSSteps DEF SFS!PutInWindow, SFS!Comparing
  <2>2. SFSP!Query!Emit(slot) /\ slot \in SFSP!Query!Ids
    BY <1>2, <1>3, <2>1, SFSAssumptions, SFSP!EmitsSkyline
  <2>3. slot \in Query!Ids /\ Query!MayEmit(slot) /\ output' = Append(output, slot)
    BY <2>2, SameSFSQuery DEF SFSP!Query!Emit
  <2> QED
    BY <1>1, <1>4, <2>1, <2>3, SameQueryStep
<1>6. CASE SFS!LastPass
  <2>1. SFSP!LastPass /\ status = "SS_PROCESS" /\ status' = "SS_DONE" /\ output' = output
    BY <1>6, SameSFSSteps DEF SFS!LastPass, SFS!EndOfSource
  <2>2. SFSP!Query!Finish
    BY <1>2, <1>3, <2>1, SFSAssumptions, SFSP!FinishesQuery
  <2>3. \A i \in Query!Ids : ~Query!MayEmit(i)
    BY <2>2, SameSFSQuery DEF SFSP!Query!Finish
  <2> QED
    BY <1>1, <1>4, <2>1, <2>3, SameQueryStep
<1>7. CASE ~SFS!PutInWindow /\ ~SFS!LastPass
  <2>1. output' = output /\ (status' = "SS_DONE" <=> status = "SS_DONE")
    BY <1>1, <1>7 DEF SFS!Next, SFS!Start, SFS!FetchOuter, SFS!FetchTemp, SFS!Drop,
       SFS!MoveNext, SFS!WriteToTemp, SFS!NextPass, SFS!ReturnNull, SFS!EndOfSource,
       SFS!Comparing, SFS!vars
  <2>2. CASE status # "SS_DONE"
    BY <1>1, <1>4, <2>1, <2>2, SameQueryStep
  <2>3. CASE status = "SS_DONE"
    <3>1. done = TRUE /\ done' = TRUE
      BY <1>1, <2>1, <2>3, StepBefore DEF IInv
    <3> QED
      BY <1>4, <2>1, <3>1 DEF QueryStep
  <2> QED
    BY <2>2, <2>3
<1> QED
  BY <1>5, <1>6, <1>7

\* Every step of ExecSkyline keeps the query's invariant, and one of a skyline
\* method is a step of the query.
LEMMA ExecQueryStep ==
    ASSUME IInv, QueryInv, WellPlanned(plan), ExecSkyline
    PROVE  QueryInv' /\ (plan.method # "SM_ELIMFILTER" => QueryStep)
<1>1. BaseInv
  BY DEF IInv
<1>2. CASE RunBNL \/ RunSFS
  <2>1. QueryStep
    BY <1>2, BNLQueryStep, SFSQueryStep
  <2> QED
    BY <1>1, <1>2, <2>1, WindowQueryStep
<1>3. CASE RunElimFilter
  <2>1. plan.method = "SM_ELIMFILTER"
    BY <1>3 DEF RunElimFilter
  <2> QED
    BY <1>1, <1>3, <2>1, WindowQueryStep
<1>4. CASE Run1Dim \/ Run1DimDistinct \/ Run2DimPreSort \/ RunMNL
  BY <1>1, <1>4, ScanQueryStep
<1> QED
  BY <1>2, <1>3, <1>4 DEF ExecSkyline

\* Every step keeps the query's invariant, and is one the query takes.
LEMMA RestartableStep ==
    ASSUME IInv, QueryInv, WellPlanned(plan), [Next]_vars
    PROVE  /\ QueryInv'
           /\ plan.method # "SM_ELIMFILTER" => Query!RestartableNext \/ UNCHANGED Query!vars
<1>0. BaseInv
  BY DEF IInv
<1>1. CASE ExecSkyline
  BY <1>1, ExecQueryStep DEF QueryStep, Query!RestartableNext, Query!vars
<1>2. CASE ExecReScanSkyline
  <2>1. Query!Restart
    BY <1>2 DEF ExecReScanSkyline, Query!Restart
  <2> QED
    BY <1>0, <1>2, <2>1, RescanQuery DEF Query!RestartableNext
<1>3. CASE ExecEndSkyline \/ UNCHANGED vars
  <2>1. UNCHANGED Query!vars
    BY <1>3 DEF ExecEndSkyline, vars, Query!vars
  <2> QED
    BY <1>0, <1>3, <2>1, EndQuery
<1> QED
  BY <1>1, <1>2, <1>3 DEF Next, Ended

\* If the planner has chosen the methods for what they rely on, the node returns
\* the skyline, once and completely, in every scan, whatever the method, the rows,
\* the window and the moments of the rescans are (ExecSkyline and
\* ExecReScanSkyline, nodeSkyline.c).
THEOREM RestartableQueryCorrect ==
    ASSUME \A p \in Plans : WellPlanned(p)
    PROVE  Spec => ImplementsRestartableQuery
<1>1. Init => Query!Init /\ QueryInv
  BY InitQueryInv DEF Init, ExecInitSkyline, Query!Init
<1>2. IInv => WellPlanned(plan)
  BY DEF IInv, BaseInv, NodeTypes, Chosen
<1>3. IInv /\ QueryInv /\ [Next]_vars =>
        /\ QueryInv'
        /\ [plan.method # "SM_ELIMFILTER" => Query!RestartableNext]_(Query!vars)
  BY <1>2, RestartableStep
<1> QED
  BY <1>1, <1>3, IInvCorrect, PTL DEF Spec, ImplementsRestartableQuery

\* The assertion of the sort filter skyline holds of an input that is sorted.
LEMMA SFSNotDominated ==
    ASSUME IInv, WellPlanned(plan), plan.method = "SM_SFS",
           SFS!Comparing, ~tuplewindow_ateof(window)
    PROVE  SFS!Cmp # "SECOND_DOMINATES"
<1>1. status # "SS_INIT" /\ SFSP!Comparing
  BY DEF SFS!Comparing, SFSP!Comparing
<1>2. SFSP!IInv
  BY <1>1 DEF IInv, WindowInv
<1>3. SFSP!InputSorted
  <2>1. node = plan.node /\ input \in plan.inputs
    BY DEF IInv, BaseInv, NodeTypes, Chosen
  <2> QED
    BY <2>1, SameSFSQuery DEF WellPlanned
<1>4. ~SFSP!tuplewindow_ateof(window)
  BY SMT DEF tuplewindow_ateof, Nil, SFSP!tuplewindow_ateof, SFSP!Nil
<1>5. SFS!Cmp = SFSP!Cmp
  BY SameSFSWindow, SameSFSComparison DEF SFS!Cmp, SFSP!Cmp
<1> QED
  BY <1>1, <1>2, <1>3, <1>4, <1>5, SFSAssumptions, SFSP!NeverDominated DEF SFSP!WindowNeverDominated

\* A window that has been freed is the block nested loop's, at the end of a scan.
FreedInv ==
    /\ ~usedFreed
    /\ freed => plan.method = "SM_BLOCKNESTEDLOOP" /\ status = "SS_DONE"

\* If the parent does not rescan a block nested loop that has returned NULL, no
\* window is given to tuplewindow_end twice (ExecSkyline_BlockNestedLoop frees it,
\* and ExecReScanSkyline does so again; nodeSkyline.c).
THEOREM NeverUsesFreedWindowCorrect ==
    ASSUME \A p \in Plans : WellPlanned(p)
    PROVE  Spec => []NeverUsesFreedWindow
<1>1. Init => FreedInv
  BY DEF Init, ExecInitSkyline, FreedInv
<1>2. IInv /\ FreedInv /\ [Next]_vars => FreedInv'
  <2> SUFFICES ASSUME IInv, FreedInv, [Next]_vars PROVE FreedInv'
    OBVIOUS
  <2>1. CASE ExecSkyline
    <3>1. plan' = plan /\ usedFreed' = usedFreed
      BY <2>1 DEF ExecSkyline
    <3>2. CASE RunBNL
      <4>1. BNL!Finish => status' = "SS_DONE"
        BY DEF BNL!Finish
      <4>2. status = "SS_DONE" => status' = "SS_DONE"
        BY <3>2 DEF RunBNL, BNL!Next, BNL!Start, BNL!FetchOuter, BNL!FetchTemp, BNL!Drop,
           BNL!RemoveDominated, BNL!MoveNext, BNL!PutInWindow, BNL!WriteToTemp, BNL!LastPass,
           BNL!NextPass, BNL!PipeOut, BNL!PipeOutSkip, BNL!PipeOutEnd, BNL!FinalPipeOut,
           BNL!Finish, BNL!ReturnNull, BNL!EndOfSource, BNL!Comparing, BNL!vars
      <4> QED
        BY <3>1, <3>2, <4>1, <4>2 DEF FreedInv, RunBNL
    <3>3. CASE ~RunBNL
      <4>1. freed' = freed /\ plan.method # "SM_BLOCKNESTEDLOOP"
        BY <2>1, <3>3, MethodFrame DEF ExecSkyline, RunSFS, Run1Dim, Run1DimDistinct, Run2DimPreSort,
           RunMNL, RunElimFilter, EF!vars, SFS!vars
      <4> QED
        BY <3>1, <4>1 DEF FreedInv
    <3> QED
      BY <3>2, <3>3
  <2>2. CASE ExecReScanSkyline
    <3>1. WellPlanned(plan)
      BY DEF IInv, BaseInv, NodeTypes, Chosen
    <3>2. ~freed
      <4> SUFFICES ASSUME freed PROVE FALSE
        OBVIOUS
      <4>1. plan.method = "SM_BLOCKNESTEDLOOP" /\ status = "SS_DONE"
        BY DEF FreedInv
      <4>2. done
        BY <4>1 DEF IInv, BaseInv, DoneInv
      <4> QED
        BY <2>2, <3>1, <4>1, <4>2 DEF WellPlanned, ExecReScanSkyline, ParentMayRescan
    <3> QED
      BY <2>2, <3>2 DEF FreedInv, ExecReScanSkyline, InitTupleWindow
  <2>3. CASE ExecEndSkyline \/ UNCHANGED vars
    BY <2>3 DEF FreedInv, ExecEndSkyline, vars
  <2> QED
    BY <2>1, <2>2, <2>3 DEF Next, Ended
<1>3. FreedInv => NeverUsesFreedWindow
  BY DEF FreedInv, NeverUsesFreedWindow
<1> QED
  BY <1>1, <1>2, <1>3, IInvCorrect, PTL DEF Spec

===============================================================================
