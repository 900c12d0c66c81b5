----------------------- MODULE SkylineNodeMethods_proofs -----------------------
(***************************************************************************)
(* What the skyline node leaves behind, method by method: the inductive    *)
(* invariant BaseInv, NodeInv with the types it needs, is kept by the      *)
(* steps of the methods without a window, by a rescan and by the end of    *)
(* the query; of the methods with a window this module says what their     *)
(* own invariants have to give.                                            *)
(*                                                                         *)
(* In the second half, why the methods without a window return the         *)
(* skyline: QueryInv says what each of them has decided about the tuples   *)
(* it has read.  SkylineNode_proofs puts the parts together.               *)
(***************************************************************************)
EXTENDS SkylineNode, SkylineRank_proofs

-----------------------------------------------------------------------------
(* The inductive invariant. *)

\* A plan is executed on one of its inputs.
Chosen == plan \in Plans /\ node = plan.node /\ input \in plan.inputs

NodeTypes ==
    /\ Chosen
    /\ output \in Seq(Int)
    /\ store \in Stores(Int)
    /\ slPos \in Nat
    /\ resultSlot \in Int /\ resultSlot <= Len(input)
    /\ done \in BOOLEAN

\* ExecSkyline has returned NULL: no method leaves SS_DONE, and all but one
\* return NULL when they enter it.
DoneInv ==
    /\ done => status = "SS_DONE"
    /\ plan.method # "SM_1DIM_DISTINCT" /\ status = "SS_DONE" => done

\* The inductive invariant of the methods without a window.
BaseInv == NodeTypes /\ DoneInv /\ NodeInv

-----------------------------------------------------------------------------

\* What a chosen plan is made of has the types NodePlansAssumption gives it.
LEMMA ChosenTypes ==
    ASSUME Chosen
    PROVE  /\ node \in PlanNode /\ input \in Seq(Row(node)) /\ Len(input) \in Nat
           /\ plan.method \in Methods
  BY NodePlansAssumption DEF Chosen

\* The operations of the store.
LEMMA BeginStore == tuplestore_begin(FALSE) \in Stores(Int) /\ tuplestore_begin(TRUE) \in Stores(Int)
  BY DEF tuplestore_begin, Stores

\* Writing to a tuplestore leaves a tuplestore.
LEMMA PutInStore ==
    ASSUME NEW s \in Stores(Int), NEW t \in Int
    PROVE  tuplestore_puttupleslot(s, t) \in Stores(Int)
<1> DEFINE tuples == Append(s.tuples, t)
           pos    == IF s.eof THEN Len(s.tuples) + 1 ELSE s.pos
<1>1. tuples \in Seq(Int) /\ pos \in Nat
  BY DEF Stores
<1>2. tuplestore_puttupleslot(s, t) = [s EXCEPT !.tuples = tuples, !.pos = pos]
  BY DEF tuplestore_puttupleslot
<1> HIDE DEF tuples, pos
<1> QED
  BY <1>1, <1>2 DEF Stores

\* So does reading from it.
LEMMA ReadStore ==
    ASSUME NEW s \in Stores(Int)
    PROVE  tuplestore_gettupleslot(s) \in Stores(Int)
<1>1. s.pos \in Nat
  BY DEF Stores
<1>2. CASE HasNext(s)
  BY <1>1, <1>2 DEF tuplestore_gettupleslot, Stores
<1>3. CASE ~HasNext(s)
  BY <1>3 DEF tuplestore_gettupleslot, Stores
<1> QED
  BY <1>2, <1>3

\* So does reading to its end.
LEMMA CatchUpStore ==
    ASSUME NEW s \in Stores(Int)
    PROVE  tuplestore_catchup(s) \in Stores(Int)
<1> DEFINE mark == IF s.rewind THEN s.mark ELSE NoMark
<1>1. mark \in Nat \cup {NoMark} /\ Len(s.tuples) \in Nat
  BY DEF Stores
<1>2. tuplestore_catchup(s) = [s EXCEPT !.pos = Len(s.tuples), !.eof = FALSE, !.mark = mark]
  BY DEF tuplestore_catchup
<1> HIDE DEF mark
<1> QED
  BY <1>1, <1>2 DEF Stores

\* So do rescanning it, marking a position and restoring it.
LEMMA MoveInStore ==
    ASSUME NEW s \in Stores(Int)
    PROVE  /\ tuplestore_rescan(s) \in Stores(Int)
           /\ tuplestore_markpos(s) \in Stores(Int)
           /\ s.mark # NoMark => tuplestore_restorepos(s) \in Stores(Int)
  BY DEF tuplestore_rescan, tuplestore_markpos, tuplestore_restorepos, Stores

\* A later tuple is appended.
LEMMA AppendIncreasing ==
    ASSUME NEW s \in Seq(Int), NEW e \in Int,
           Increasing(s), \A q \in 1..Len(s) : s[q] < e
    PROVE  /\ Append(s, e) \in Seq(Int)
           /\ Len(Append(s, e)) = Len(s) + 1
           /\ Append(s, e)[Len(s) + 1] = e
           /\ \A q \in 1..Len(s) : Append(s, e)[q] = s[q]
           /\ Increasing(Append(s, e))
<1>1. /\ Append(s, e) \in Seq(Int) /\ Len(Append(s, e)) = Len(s) + 1
      /\ Append(s, e)[Len(s) + 1] = e
      /\ \A q \in 1..Len(s) : Append(s, e)[q] = s[q]
  OBVIOUS
<1>2. ASSUME NEW q \in 1..Len(s)+1, NEW r \in 1..Len(s)+1, q < r
      PROVE  Append(s, e)[q] < Append(s, e)[r]
  <2>1. q \in 1..Len(s) /\ (r \in 1..Len(s) \/ r = Len(s) + 1)
    BY <1>2
  <2> QED
    BY <1>1, <1>2, <2>1 DEF Increasing
<1> QED
  BY <1>1, <1>2 DEF Increasing

\* The node begins with one of the plans and one of its inputs.
LEMMA InitChosen == Init => Chosen /\ ExecInitSkyline
  BY DEF Init, ExecInitSkyline, Chosen

\* ExecInitSkyline establishes the inductive invariant.
LEMMA InitBaseInv == Chosen /\ ExecInitSkyline => BaseInv
<1> SUFFICES ASSUME Chosen, ExecInitSkyline PROVE BaseInv
  OBVIOUS
<1>1. NodeTypes
  <2>1. Chosen
    OBVIOUS
  <2>2. store \in Stores(Int)
    BY DEF ExecInitSkyline, tuplestore_begin, Stores
  <2>3. output \in Seq(Int) /\ slPos \in Nat
    BY DEF ExecInitSkyline
  <2>5. resultSlot \in Int /\ resultSlot <= Len(input)
    BY <2>1, ChosenTypes DEF ExecInitSkyline
  <2>4. done \in BOOLEAN
    BY DEF ExecInitSkyline
  <2> QED
    BY <2>1, <2>2, <2>3, <2>4, <2>5 DEF NodeTypes
<1>2. Len(input) \in Nat
  BY <1>1, ChosenTypes DEF NodeTypes
<1>4. DoneInv
  BY DEF ExecInitSkyline, DoneInv
<1>5. PhaseInv /\ OneDimInv /\ OneDimDistinctInv /\ MaterialInv /\ LoopInv
  <2>1. outerPos \in 0..Len(input) /\ output = <<>>
    BY <1>2 DEF ExecInitSkyline
  <2>2. PhaseInv
    BY <2>1, Zenon DEF ExecInitSkyline, PhaseInv
  <2>3. OneDimInv /\ LoopInv
    BY Zenon DEF ExecInitSkyline, OneDimInv, LoopInv
  <2>4. OneDimDistinctInv
    BY <2>1 DEF OneDimDistinctInv
  <2>5. MaterialInv
    BY Zenon DEF ExecInitSkyline, MaterialInv
  <2> QED
    BY <2>2, <2>3, <2>4, <2>5
<1>6. OutputInv
  BY DEF ExecInitSkyline, OutputInv, Increasing
<1> QED
  BY <1>1, <1>4, <1>5, <1>6 DEF BaseInv, NodeInv

-----------------------------------------------------------------------------
(* A step of a method. *)

\* What a step of any method does to what NodeInv says of all of them.
MethodStep ==
    /\ UNCHANGED <<node, input>>
    /\ output' \in Seq(Int) /\ store' \in Stores(Int) /\ slPos' \in Nat
    /\ resultSlot' \in Int /\ resultSlot' <= Len(input)
    /\ output' # output \/ status' = "SS_DONE" => slot' = 0 /\ ~inLoop' /\ ~inner'
    /\ plan.method # "SM_1DIM_DISTINCT" /\ status' = "SS_DONE" => output' = output
    /\ slot' # 0 => UsesWindow /\ status' = "SS_PROCESS"
    /\ inLoop' => plan.method \in {"SM_1DIM", "SM_1DIM_DISTINCT"} /\ status' = "SS_INIT"
    /\ inner' => plan.method = "SM_MATERIALIZEDNESTEDLOOP" /\ status' = "SS_PROCESS" /\ made'
    /\ status' = "SS_INIT" => output' = <<>>
    /\ outerPos' \in 0..Len(input)
    /\ status' = "SS_INIT" /\ ~inLoop' /\ plan.method # "SM_MATERIALIZEDNESTEDLOOP" =>
         outerPos' = 0
    /\ OutputInv'

\* A method keeps BaseInv if its step is a MethodStep and keeps its own part of NodeInv.
LEMMA MethodStepBase ==
    ASSUME BaseInv, ExecSkyline, MethodStep,
           (OneDimInv /\ OneDimDistinctInv /\ MaterialInv /\ LoopInv)'
    PROVE  BaseInv'
<1>1. plan' = plan /\ node' = node /\ input' = input
  BY DEF ExecSkyline, MethodStep
<1>2. NodeTypes'
  <2>1. Chosen'
    BY <1>1 DEF BaseInv, NodeTypes, Chosen
  <2>2. done' \in BOOLEAN
    BY DEF ExecSkyline
  <2> QED
    BY <1>1, <2>1, <2>2 DEF NodeTypes, MethodStep
<1>3. DoneInv'
  BY <1>1 DEF ExecSkyline, DoneInv, MethodStep
<1>4. PhaseInv'
  <2>1. inParent' => slot' = 0 /\ ~inLoop' /\ ~inner'
    BY DEF ExecSkyline, MethodStep
  <2>2. status' = "SS_INIT" => ~done'
    BY DEF ExecSkyline
  <2> QED
    BY <1>1, <2>1, <2>2 DEF MethodStep, PhaseInv, UsesWindow
<1> QED
  BY <1>2, <1>3, <1>4 DEF BaseInv, NodeInv, MethodStep

\* The parts of the state that a method does not use.
LEMMA MethodFrame ==
    ASSUME BaseInv
    PROVE  /\ node \in PlanNode /\ input \in Seq(Row(node)) /\ Len(input) \in Nat
           /\ outerPos \in 0..Len(input) /\ outerPos \in Nat
           /\ output \in Seq(Int) /\ store \in Stores(Int) /\ slPos \in Nat
           /\ resultSlot \in Int /\ resultSlot <= Len(input)
           /\ plan.method \notin WindowMethods => slot = 0
           /\ plan.method \notin {"SM_1DIM", "SM_1DIM_DISTINCT"} => ~inLoop
           /\ plan.method # "SM_MATERIALIZEDNESTEDLOOP" => ~inner
<1>1. /\ node \in PlanNode /\ input \in Seq(Row(node)) /\ Len(input) \in Nat
      /\ output \in Seq(Int) /\ store \in Stores(Int) /\ slPos \in Nat
      /\ resultSlot \in Int /\ resultSlot <= Len(input)
  BY ChosenTypes DEF BaseInv, NodeTypes
<1>2. outerPos \in 0..Len(input) /\ outerPos \in Nat
  BY <1>1 DEF BaseInv, NodeInv, PhaseInv
<1>3. /\ plan.method \notin WindowMethods => slot = 0
      /\ plan.method \notin {"SM_1DIM", "SM_1DIM_DISTINCT"} => ~inLoop
      /\ plan.method # "SM_MATERIALIZEDNESTEDLOOP" => ~inner
  BY DEF BaseInv, NodeInv, PhaseInv, UsesWindow
<1> QED
  BY <1>1, <1>2, <1>3

-----------------------------------------------------------------------------
(* ExecSkyline_1Dim. *)

\* ExecSkyline_1Dim keeps the inductive invariant.
LEMMA OneDimBase == BaseInv /\ ExecSkyline /\ Run1Dim => BaseInv'
<1> SUFFICES ASSUME BaseInv, ExecSkyline, Run1Dim
             PROVE  BaseInv'
  OBVIOUS
<1>1. /\ Len(input) \in Nat /\ outerPos \in Nat /\ outerPos <= Len(input)
      /\ output \in Seq(Int) /\ store \in Stores(Int)
      /\ store.tuples \in Seq(Int) /\ store.pos \in Nat
  BY MethodFrame DEF Stores
<1>0. /\ plan.method = "SM_1DIM" /\ plan' = plan /\ slot' = 0 /\ ~inner' /\ slPos' \in Nat
      /\ resultSlot' \in Int /\ resultSlot' <= Len(input)
  BY MethodFrame DEF ExecSkyline, Run1Dim, windowState, loopState, WindowMethods
<1>2. /\ inLoop => status = "SS_INIT"
      /\ status = "SS_INIT" => output = <<>>
      /\ status = "SS_INIT" /\ ~inLoop => outerPos = 0
      /\ Increasing(output) /\ \A k \in 1..Len(output) : output[k] <= outerPos
  BY <1>0 DEF BaseInv, NodeInv, PhaseInv, OutputInv
<1>3. inLoop \/ status = "SS_PIPEOUT" =>
        /\ Increasing(store.tuples)
        /\ \A m \in 1..Len(store.tuples) : store.tuples[m] \in 1..outerPos
        /\ store.pos \in 0..Len(store.tuples)
        /\ inLoop => ~store.eof
        /\ \A k \in 1..Len(output), m \in store.pos+1..Len(store.tuples) :
             output[k] < store.tuples[m]
  BY <1>0 DEF BaseInv, NodeInv, OneDimInv
\* What has to be shown of each step.
<1> DEFINE Goal ==
             /\ UNCHANGED <<node, input>>
             /\ output' \in Seq(Int) /\ store' \in Stores(Int)
             /\ outerPos' \in 0..Len(input)
             /\ output' # output \/ status' = "SS_DONE" => ~inLoop'
             /\ status' = "SS_DONE" => output' = output
             /\ inLoop' => status' = "SS_INIT"
             /\ status' = "SS_INIT" => output' = <<>>
             /\ status' = "SS_INIT" /\ ~inLoop' => outerPos' = 0
             /\ Increasing(output') /\ \A k \in 1..Len(output') : output'[k] <= outerPos'
             /\ OneDimInv'
<1>4. Goal => BaseInv'
  <2> SUFFICES ASSUME Goal PROVE BaseInv'
    OBVIOUS
  <2>1. OutputInv'
    BY DEF OutputInv
  <2>2. MethodStep
    BY <1>0, <2>1 DEF MethodStep
  <2>3. (OneDimDistinctInv /\ MaterialInv /\ LoopInv)'
    BY <1>0 DEF OneDimDistinctInv, MaterialInv, LoopInv
  <2> QED
    BY <2>2, <2>3, MethodStepBase
\* The tuple read goes to the end of the store; base is the store it goes to.
<1>5. ASSUME inLoop, outerPos < Len(input),
             NEW base \in Stores(Int), base.tuples = store.tuples, ~base.eof,
             base.pos \in store.pos..Len(store.tuples),
             store' = tuplestore_puttupleslot(base, outerPos + 1),
             UNCHANGED <<node, input, status, inLoop, output>>, outerPos' = outerPos + 1
      PROVE  Goal
  <2> DEFINE s == store'
  <2>0. /\ Increasing(store.tuples)
        /\ \A m \in 1..Len(store.tuples) : store.tuples[m] \in 1..outerPos
        /\ store.pos \in 0..Len(store.tuples)
    BY <1>3, <1>5, Zenon
  <2>a. s.eof = base.eof /\ s.pos = base.pos
    BY <1>5 DEF tuplestore_puttupleslot, Stores
  <2>1. s.tuples = Append(store.tuples, outerPos + 1)
    BY <1>5 DEF tuplestore_puttupleslot, Stores
  <2>2. \A q \in 1..Len(store.tuples) : store.tuples[q] < outerPos + 1
    BY <1>1, <2>0
  <2>3. /\ Increasing(s.tuples) /\ Len(s.tuples) = Len(store.tuples) + 1
        /\ s.tuples[Len(store.tuples) + 1] = outerPos + 1
        /\ \A q \in 1..Len(store.tuples) : s.tuples[q] = store.tuples[q]
    <3>1. outerPos + 1 \in Int /\ store.tuples \in Seq(Int)
      BY <1>1
    <3>2. LET t == Append(store.tuples, outerPos + 1)
          IN  /\ Increasing(t) /\ Len(t) = Len(store.tuples) + 1
              /\ t[Len(store.tuples) + 1] = outerPos + 1
              /\ \A q \in 1..Len(store.tuples) : t[q] = store.tuples[q]
      BY <2>0, <2>2, <3>1, AppendIncreasing
    <3> QED
      BY <2>1, <3>2
  <2>4. ASSUME NEW m \in 1..Len(s.tuples)
        PROVE  s.tuples[m] \in 1..outerPos+1
    <3>1. m \in 1..Len(store.tuples) \/ m = Len(store.tuples) + 1
      BY <1>1, <2>3
    <3>2. CASE m \in 1..Len(store.tuples)
      <4>1. s.tuples[m] = store.tuples[m] /\ store.tuples[m] \in 1..outerPos
        BY <2>0, <2>3, <3>2
      <4> QED
        BY <1>1, <4>1
    <3>3. CASE m = Len(store.tuples) + 1
      BY <1>1, <2>3, <3>3
    <3> QED
      BY <3>1, <3>2, <3>3
  <2>5. output = <<>> /\ status = "SS_INIT"
    BY <1>2, <1>5
  <2>6. s.pos \in 0..Len(s.tuples)
    <3>1. base.pos \in store.pos..Len(store.tuples)
      BY <1>5
    <3> QED
      BY <1>1, <2>3, <2>a, <3>1
  <2>7. OneDimInv'
    <3>1. ~store'.eof /\ output' = <<>> /\ outerPos' = outerPos + 1
      BY <1>5, <2>5, <2>a
    <3>2. \A k \in 1..Len(output'), m \in s.pos+1..Len(s.tuples) : output'[k] < s.tuples[m]
      BY <3>1
    <3> QED
      BY <2>3, <2>4, <2>6, <3>1, <3>2, Zenon DEF OneDimInv
  <2>8. store' \in Stores(Int)
    <3>1. outerPos + 1 \in Nat
      BY <1>1
    <3> QED
      BY <1>5, <3>1, PutInStore
  <2> QED
    BY <1>1, <1>5, <2>5, <2>7, <2>8 DEF Increasing
<1>6. CASE Dim1!FetchFirst \/ Dim1!FetchEqual
  <2>1. /\ inLoop /\ outerPos < Len(input)
        /\ store' = tuplestore_puttupleslot(store, outerPos + 1)
        /\ UNCHANGED <<node, input, status, inLoop, output>> /\ outerPos' = outerPos + 1
    BY <1>6 DEF Dim1!FetchFirst, Dim1!FetchEqual, Dim1!Fetch, Dim1!tuplestore_puttupleslot,
       tuplestore_puttupleslot
  <2>2. store.pos \in store.pos..Len(store.tuples) /\ ~store.eof
    BY <1>1, <1>3, <2>1
  <2> QED
    BY <1>1, <1>4, <1>5, <2>1, <2>2
<1>7. CASE Dim1!FetchBetter
  <2> DEFINE base == tuplestore_catchup(store)
  <2>1. /\ inLoop /\ outerPos < Len(input)
        /\ store' = tuplestore_puttupleslot(base, outerPos + 1)
        /\ UNCHANGED <<node, input, status, inLoop, output>> /\ outerPos' = outerPos + 1
    BY <1>7 DEF Dim1!FetchBetter, Dim1!Fetch, Dim1!tuplestore_puttupleslot,
       tuplestore_puttupleslot, Dim1!tuplestore_catchup, tuplestore_catchup, Dim1!NoMark, NoMark
  <2>2. /\ base \in Stores(Int) /\ base.tuples = store.tuples /\ ~base.eof
        /\ base.pos = Len(store.tuples)
    BY <1>1, CatchUpStore DEF tuplestore_catchup, Stores
  <2>3. base.pos \in store.pos..Len(store.tuples)
    BY <1>1, <1>3, <2>1, <2>2
  <2> QED
    BY <1>1, <1>4, <1>5, <2>1, <2>2, <2>3
<1>8. CASE Dim1!Start
  <2>1. /\ store' = tuplestore_begin(FALSE) /\ inLoop' /\ status' = "SS_INIT" /\ output' = <<>>
        /\ UNCHANGED <<node, input, outerPos, output>>
    BY <1>2, <1>8 DEF Dim1!Start, Dim1!tuplestore_begin, tuplestore_begin
  <2>2. store'.tuples = <<>> /\ store'.pos = 0 /\ store'.eof = FALSE
    BY <2>1 DEF tuplestore_begin
  <2>3. OneDimInv'
    <3>0. store'.tuples = <<>> /\ store'.pos = 0
      BY <2>2
    <3>1. /\ Increasing(store'.tuples) /\ store'.pos \in 0..Len(store'.tuples)
          /\ \A m \in 1..Len(store'.tuples) : store'.tuples[m] \in 1..outerPos'
          /\ \A k \in 1..Len(output'), m \in store'.pos+1..Len(store'.tuples) :
               output'[k] < store'.tuples[m]
      BY <3>0 DEF Increasing
    <3> QED
      BY <2>2, <3>1, Zenon DEF OneDimInv
  <2>4. store' \in Stores(Int)
    BY <2>1, BeginStore
  <2>5. /\ outerPos' \in 0..Len(input) /\ output' \in Seq(Int)
        /\ Increasing(output') /\ \A k \in 1..Len(output') : output'[k] <= outerPos'
    BY <1>1, <2>1 DEF Increasing
  <2> QED
    BY <1>4, <2>1, <2>3, <2>4, <2>5, Zenon
<1>9. CASE Dim1!FetchWorse
  <2>1. /\ inLoop /\ outerPos < Len(input) /\ outerPos' = outerPos + 1
        /\ UNCHANGED <<node, input, status, inLoop, output, store>>
    BY <1>9 DEF Dim1!FetchWorse, Dim1!Fetch
  <2>2. OneDimInv'
    BY <1>1, <1>3, <2>1 DEF OneDimInv
  <2> QED
    BY <1>1, <1>2, <1>4, <2>1, <2>2
<1>10. CASE Dim1!EndOfInput
  <2>1. /\ inLoop /\ ~inLoop' /\ status' = "SS_PIPEOUT"
        /\ UNCHANGED <<node, input, outerPos, output, store>>
    BY <1>10 DEF Dim1!EndOfInput
  <2>2. OneDimInv'
    BY <1>1, <1>3, <2>1 DEF OneDimInv
  <2> QED
    BY <1>1, <1>2, <1>4, <2>1, <2>2
<1>11. CASE Dim1!PipeOut
  <2> DEFINE next == store.tuples[store.pos + 1]
  <2>1. /\ status = "SS_PIPEOUT" /\ status' = status /\ ~inLoop /\ ~inLoop'
        /\ store.pos < Len(store.tuples)
        /\ output' = Append(output, next)
        /\ store' = [store EXCEPT !.pos = @ + 1]
        /\ UNCHANGED <<node, input, outerPos>>
    BY <1>2, <1>11 DEF Dim1!PipeOut, Dim1!HasNext, Dim1!NextTuple, Dim1!tuplestore_gettupleslot
  <2>2. /\ store'.tuples = store.tuples /\ store'.pos = store.pos + 1
        /\ store' \in Stores(Int)
    <3>1. store.pos + 1 \in Nat
      BY <1>1
    <3> QED
      BY <1>1, <2>1, <3>1 DEF Stores
  <2>0. /\ Increasing(store.tuples) /\ Increasing(output)
        /\ \A m \in 1..Len(store.tuples) : store.tuples[m] \in 1..outerPos
        /\ \A k \in 1..Len(output), m \in store.pos+1..Len(store.tuples) :
             output[k] < store.tuples[m]
    BY <1>2, <1>3, <2>1, Zenon
  <2>a. store.pos < Len(store.tuples) /\ output' = Append(output, next)
    BY <2>1
  <2>3. store.pos + 1 \in 1..Len(store.tuples) /\ store.pos + 1 \in store.pos+1..Len(store.tuples)
    BY <1>1, <2>a
  <2>4. next \in Int /\ next <= outerPos /\ \A q \in 1..Len(output) : output[q] < next
    BY <1>1, <2>0, <2>3, SMTT(30)
  <2>5. /\ output' \in Seq(Int) /\ Increasing(output') /\ Len(output') = Len(output) + 1
        /\ output'[Len(output) + 1] = next
        /\ \A q \in 1..Len(output) : output'[q] = output[q]
    BY <1>1, <2>0, <2>4, <2>a, AppendIncreasing
  <2>6. \A k \in 1..Len(output') : output'[k] <= outerPos
    <3>1. \A k \in 1..Len(output) : output[k] <= outerPos
      BY <1>2
    <3>2. ASSUME NEW k \in 1..Len(output'), k \notin 1..Len(output)
          PROVE  k = Len(output) + 1
      BY <1>1, <2>5, <3>2
    <3> QED
      BY <2>4, <2>5, <3>1, <3>2
  <2>7. ASSUME NEW k \in 1..Len(output'), NEW m \in store'.pos+1..Len(store'.tuples)
        PROVE  output'[k] < store'.tuples[m]
    <3>1. m \in 1..Len(store.tuples) /\ store.pos + 1 < m /\ m \in store.pos+1..Len(store.tuples)
      BY <1>1, <2>2, <2>7
    <3>2. CASE k \in 1..Len(output)
      BY <2>0, <2>2, <2>5, <3>1, <3>2
    <3>3. CASE k = Len(output) + 1
      BY <2>0, <2>2, <2>3, <2>5, <3>1, <3>3 DEF Increasing
    <3> QED
      BY <1>1, <2>5, <3>2, <3>3
  <2>8. OneDimInv'
    <3>1. outerPos' = outerPos /\ ~inLoop'
      BY <2>1
    <3>2. store'.pos \in 0..Len(store'.tuples)
      BY <1>1, <2>2, <2>3
    <3>3. Increasing(store'.tuples) /\ \A m \in 1..Len(store'.tuples) : store'.tuples[m] \in 1..outerPos'
      BY <2>0, <2>2, <3>1
    <3> QED
      BY <2>7, <3>1, <3>2, <3>3, Zenon DEF OneDimInv
  <2>9. outerPos' \in 0..Len(input) /\ \A k \in 1..Len(output') : output'[k] <= outerPos'
    BY <1>1, <2>1, <2>6
  <2> QED
    BY <1>4, <2>1, <2>2, <2>5, <2>8, <2>9, Zenon
<1>12. CASE Dim1!PipeOutEnd
  <2>1. /\ status = "SS_PIPEOUT" /\ ~inLoop /\ ~inLoop' /\ status' = "SS_DONE"
        /\ store' = tuplestore_begin(FALSE)
        /\ UNCHANGED <<node, input, outerPos, output>>
    BY <1>2, <1>12 DEF Dim1!PipeOutEnd, Dim1!tuplestore_begin, tuplestore_begin
  <2>2. OneDimInv'
    BY <2>1 DEF OneDimInv
  <2>3. store' \in Stores(Int)
    BY <2>1, BeginStore
  <2>4. outerPos' \in 0..Len(input) /\ output' \in Seq(Int)
    BY <1>1, <2>1
  <2>5. Increasing(output') /\ \A k \in 1..Len(output') : output'[k] <= outerPos'
    BY <1>2, <2>1
  <2> QED
    BY <1>4, <2>1, <2>2, <2>3, <2>4, <2>5, Zenon
<1>13. CASE Dim1!ReturnNull
  <2>1. /\ status = "SS_DONE" /\ ~inLoop
        /\ UNCHANGED <<node, input, outerPos, status, inLoop, store, output>>
    BY <1>2, <1>13 DEF Dim1!ReturnNull, Dim1!vars
  <2>2. OneDimInv'
    BY <2>1 DEF OneDimInv
  <2> QED
    BY <1>1, <1>2, <1>4, <2>1, <2>2
<1> QED
  BY <1>6, <1>7, <1>8, <1>9, <1>10, <1>11, <1>12, <1>13 DEF Run1Dim, Dim1!Next

-----------------------------------------------------------------------------
(* ExecSkyline_1DimDistinct. *)

\* ExecSkyline_1DimDistinct keeps the inductive invariant.
LEMMA OneDimDistinctBase == BaseInv /\ ExecSkyline /\ Run1DimDistinct => BaseInv'
<1> SUFFICES ASSUME BaseInv, ExecSkyline, Run1DimDistinct
             PROVE  BaseInv'
  OBVIOUS
<1>1. /\ plan.method = "SM_1DIM_DISTINCT" /\ plan' = plan /\ slot' = 0 /\ ~inner'
      /\ slPos' \in Nat /\ store' \in Stores(Int)
  BY MethodFrame DEF ExecSkyline, Run1DimDistinct, windowState, loopState, WindowMethods
<1>2. /\ Len(input) \in Nat /\ outerPos \in Nat /\ outerPos <= Len(input)
      /\ output \in Seq(Int) /\ resultSlot \in Int /\ resultSlot <= Len(input)
  BY MethodFrame
<1>3. /\ Increasing(output) /\ \A k \in 1..Len(output) : output[k] <= outerPos
      /\ Len(output) <= 1
  BY <1>1 DEF BaseInv, NodeInv, OutputInv, OneDimDistinctInv
<1>4. /\ inLoop => status = "SS_INIT"
      /\ status # "SS_DONE" => output = <<>>
      /\ status = "SS_INIT" /\ ~inLoop => outerPos = 0
  BY <1>1 DEF BaseInv, NodeInv, PhaseInv, OneDimDistinctInv
\* What has to be shown of each step.
<1> DEFINE Goal ==
             /\ UNCHANGED <<node, input>>
             /\ output' \in Seq(Int)
             /\ resultSlot' \in Int /\ resultSlot' <= Len(input)
             /\ outerPos' \in 0..Len(input)
             /\ output' # output \/ status' = "SS_DONE" => ~inLoop'
             /\ inLoop' => status' = "SS_INIT"
             /\ status' = "SS_INIT" => output' = <<>>
             /\ status' = "SS_INIT" /\ ~inLoop' => outerPos' = 0
             /\ Increasing(output') /\ \A k \in 1..Len(output') : output'[k] <= outerPos'
             /\ OneDimDistinctInv'
<1>5. Goal => BaseInv'
  <2> SUFFICES ASSUME Goal PROVE BaseInv'
    OBVIOUS
  <2>1. OutputInv'
    BY DEF OutputInv
  <2>2. MethodStep
    BY <1>1, <2>1 DEF MethodStep
  <2>3. (OneDimInv /\ MaterialInv /\ LoopInv)'
    BY <1>1 DEF OneDimInv, MaterialInv, LoopInv
  <2> QED
    BY <2>2, <2>3, MethodStepBase
<1>6. CASE Distinct!Start
  <2>1. /\ status = "SS_INIT" /\ status' = status /\ inLoop' /\ output = <<>>
        /\ UNCHANGED <<node, input, outerPos, resultSlot, output>>
    BY <1>4, <1>6 DEF Distinct!Start
  <2>2. outerPos' \in 0..Len(input) /\ Len(output') <= 1
    BY <1>2, <2>1
  <2>3. OneDimDistinctInv'
    BY <2>1, <2>2, Zenon DEF OneDimDistinctInv
  <2> QED
    BY <1>2, <1>3, <1>5, <2>1, <2>2, <2>3, Zenon
<1>7. CASE Distinct!Fetch
  <2>1. /\ inLoop /\ inLoop' /\ status = "SS_INIT" /\ status' = status /\ output = <<>>
        /\ outerPos < Len(input) /\ outerPos' = outerPos + 1
        /\ UNCHANGED <<node, input, output>>
        /\ resultSlot' \in {resultSlot, outerPos + 1}
    BY <1>4, <1>7 DEF Distinct!Fetch
  <2>2. /\ outerPos < Len(input) /\ outerPos' = outerPos + 1
        /\ resultSlot' \in {resultSlot, outerPos + 1} /\ output' = <<>>
    BY <2>1
  <2>3. /\ outerPos' \in 0..Len(input) /\ resultSlot' \in Int /\ resultSlot' <= Len(input)
        /\ output' \in Seq(Int) /\ Len(output') <= 1
        /\ Increasing(output') /\ \A k \in 1..Len(output') : output'[k] <= outerPos'
    BY <1>2, <2>2 DEF Increasing
  <2>4. OneDimDistinctInv'
    BY <2>1, <2>2, <2>3, Zenon DEF OneDimDistinctInv
  <2> QED
    BY <1>5, <2>1, <2>3, <2>4, Zenon
<1>8. CASE Distinct!EndOfInput
  <2>1. /\ inLoop /\ ~inLoop' /\ output = <<>> /\ status' = "SS_DONE"
        /\ UNCHANGED <<node, input, outerPos, resultSlot>>
    BY <1>4, <1>8 DEF Distinct!EndOfInput
  <2>2. /\ outerPos = Len(input) /\ outerPos' = outerPos
        /\ output' = <<>> \/ output' = <<resultSlot>>
    BY <1>8, <2>1 DEF Distinct!EndOfInput
  <2>3. /\ outerPos' \in 0..Len(input)
        /\ output' \in Seq(Int) /\ Len(output') <= 1
        /\ Increasing(output') /\ \A k \in 1..Len(output') : output'[k] <= outerPos'
    <3>1. CASE output' = <<>>
      BY <1>2, <2>2, <3>1 DEF Increasing
    <3>2. CASE output' = <<resultSlot>>
      <4>1. /\ output' \in Seq(Int) /\ Len(output') = 1 /\ output'[1] = resultSlot
            /\ resultSlot <= outerPos'
        BY <1>2, <2>2, <3>2
      <4> QED
        BY <1>2, <2>2, <4>1 DEF Increasing
    <3> QED
      BY <2>2, <3>1, <3>2
  <2>4. OneDimDistinctInv'
    BY <2>1, <2>3, Zenon DEF OneDimDistinctInv
  <2> QED
    BY <1>2, <1>5, <2>1, <2>3, <2>4, Zenon
<1>9. CASE Distinct!ReturnNull
  <2>1. /\ status = "SS_DONE"
        /\ UNCHANGED <<node, input, outerPos, status, inLoop, resultSlot, output>>
    BY <1>9 DEF Distinct!ReturnNull, Distinct!vars
  <2>2. outerPos' \in 0..Len(input)
    BY <1>2, <2>1
  <2>3. OneDimDistinctInv'
    BY <1>3, <2>1 DEF OneDimDistinctInv
  <2>4. ~inLoop
    BY <1>4, <2>1
  <2> QED
    BY <1>2, <1>3, <1>5, <2>1, <2>2, <2>3, <2>4, Zenon
<1> QED
  BY <1>6, <1>7, <1>8, <1>9 DEF Run1DimDistinct, Distinct!Next

-----------------------------------------------------------------------------
(* ExecSkyline_2DimPreSort. *)

\* ExecSkyline_2DimPreSort keeps the inductive invariant.
LEMMA TwoDimBase == BaseInv /\ ExecSkyline /\ Run2DimPreSort => BaseInv'
<1> SUFFICES ASSUME BaseInv, ExecSkyline, Run2DimPreSort
             PROVE  BaseInv'
  OBVIOUS
<1>1. /\ plan.method = "SM_2DIM_PRESORT" /\ plan' = plan /\ slot' = 0 /\ ~inner' /\ ~inLoop'
      /\ slPos' \in Nat /\ store' \in Stores(Int)
  BY MethodFrame DEF ExecSkyline, Run2DimPreSort, windowState, loopState, WindowMethods
<1>2. /\ Len(input) \in Nat /\ outerPos \in Nat /\ outerPos <= Len(input)
      /\ output \in Seq(Int) /\ resultSlot \in Int /\ resultSlot <= Len(input)
      /\ Increasing(output) /\ \A k \in 1..Len(output) : output[k] <= outerPos
  BY <1>1, MethodFrame DEF BaseInv, NodeInv, OutputInv
\* What has to be shown of each step.
<1> DEFINE Goal ==
             /\ UNCHANGED <<node, input>>
             /\ output' \in Seq(Int)
             /\ resultSlot' \in Int /\ resultSlot' <= Len(input)
             /\ outerPos' \in 0..Len(input)
             /\ status' # "SS_INIT"
             /\ status' = "SS_DONE" => output' = output
             /\ Increasing(output') /\ \A k \in 1..Len(output') : output'[k] <= outerPos'
<1>3. Goal => BaseInv'
  <2> SUFFICES ASSUME Goal PROVE BaseInv'
    OBVIOUS
  <2>1. OutputInv'
    BY DEF OutputInv
  <2>2. MethodStep
    BY <1>1, <2>1 DEF MethodStep
  <2>3. (OneDimInv /\ OneDimDistinctInv /\ MaterialInv /\ LoopInv)'
    BY <1>1 DEF OneDimInv, OneDimDistinctInv, MaterialInv, LoopInv
  <2> QED
    BY <2>2, <2>3, MethodStepBase
<1>4. CASE Presort!ReturnFirst \/ Presort!Return
  <2>1. /\ outerPos < Len(input) /\ outerPos' = outerPos + 1 /\ resultSlot' = outerPos + 1
        /\ output' = Append(output, outerPos + 1) /\ status' = "SS_PROCESS"
        /\ UNCHANGED <<node, input>>
    BY <1>4 DEF Presort!ReturnFirst, Presort!Return, Presort!FetchAndReturn
  <2>2. outerPos + 1 \in Int /\ \A k \in 1..Len(output) : output[k] < outerPos + 1
    BY <1>2
  <2>3. /\ output' \in Seq(Int) /\ Increasing(output') /\ Len(output') = Len(output) + 1
        /\ output'[Len(output) + 1] = outerPos + 1
        /\ \A q \in 1..Len(output) : output'[q] = output[q]
    BY <1>2, <2>1, <2>2, AppendIncreasing
  <2>4. ASSUME NEW k \in 1..Len(output')
        PROVE  output'[k] <= outerPos'
    <3>1. k \in 1..Len(output) \/ k = Len(output) + 1
      BY <1>2, <2>3
    <3> QED
      BY <1>2, <2>1, <2>3, <3>1
  <2> QED
    BY <1>2, <1>3, <2>1, <2>3, <2>4
<1>5. CASE Presort!Skip
  BY <1>2, <1>3, <1>5 DEF Presort!Skip
<1>6. CASE Presort!EndOfInput
  BY <1>2, <1>3, <1>6 DEF Presort!EndOfInput
<1>7. CASE Presort!ReturnNull
  BY <1>2, <1>3, <1>7 DEF Presort!ReturnNull, Presort!vars
<1> QED
  BY <1>4, <1>5, <1>6, <1>7 DEF Run2DimPreSort, Presort!Next

-----------------------------------------------------------------------------
(* The Material node. *)

\* A store that holds the first n tuples of the input.
Holds(s, n) ==
    /\ s \in Stores(Int)
    /\ s.tuples = [i \in 1..n |-> i]
    /\ s.pos \in 0..n
    /\ s.eof => s.pos = n

\* Wherever its read position is, ExecMaterial returns the tuple behind it, or
\* NULL at the end of the input.
LEMMA MaterialServes ==
    ASSUME Len(input) \in Nat, outerPos \in 0..Len(input),
           underlying => outerPos = Len(input),
           NEW s, Holds(s, outerPos), MNL!Pull(s)
    PROVE  LET v == MNL!AfterServing(s)
           IN  /\ Holds(v, outerPos') /\ v.mark = s.mark
               /\ outerPos' \in outerPos..Len(input)
               /\ underlying' => outerPos' = Len(input)
               /\ s.pos < Len(input) => MNL!Served(s) = s.pos + 1 /\ v.pos = s.pos + 1
               /\ s.pos = Len(input) => MNL!Served(s) = 0 /\ v.pos = s.pos
               /\ s.pos \in 0..Len(input)
<1> DEFINE v == MNL!AfterServing(s)
<1>1. /\ s \in Stores(Int) /\ s.tuples = [i \in 1..outerPos |-> i]
      /\ s.pos \in 0..outerPos /\ outerPos \in Nat /\ s.pos \in Nat
      /\ Len(s.tuples) = outerPos /\ s.tuples \in Seq(Int)
  <2>1. /\ s \in Stores(Int) /\ s.tuples = [i \in 1..outerPos |-> i]
        /\ s.pos \in 0..outerPos /\ outerPos \in Nat
    BY DEF Holds
  <2>2. s.tuples \in Seq(Int)
    BY <2>1 DEF Stores
  <2>3. DOMAIN s.tuples = 1..outerPos /\ DOMAIN s.tuples = 1..Len(s.tuples)
    BY <2>1, <2>2
  <2> QED
    BY <2>1, <2>2, <2>3
<1>2. CASE s.pos < outerPos
  <2>1. MNL!HasNext(s)
    BY <1>1, <1>2 DEF MNL!HasNext
  <2>2. ~s.eof
    <3>1. s.pos # outerPos
      BY <1>1, <1>2
    <3> QED
      BY <3>1 DEF Holds
  <2>3. v = [s EXCEPT !.pos = s.pos + 1] /\ MNL!Served(s) = s.tuples[s.pos + 1]
    BY <2>1, <2>2 DEF MNL!AfterServing, MNL!Served, MNL!tuplestore_gettupleslot, MNL!NextTuple
  <2>4. outerPos' = outerPos /\ underlying' = underlying
    BY <2>1, <2>2 DEF MNL!Pull
  <2>5. s.pos + 1 \in 1..outerPos
    BY <1>1, <1>2
  <2>6. /\ v \in Stores(Int) /\ v.tuples = s.tuples /\ v.mark = s.mark /\ v.pos = s.pos + 1
        /\ v.eof = s.eof
    <3>1. s.pos + 1 \in Nat
      BY <1>1
    <3> QED
      BY <1>1, <2>3, <3>1 DEF Stores
  <2>7. MNL!Served(s) = s.pos + 1
    BY <1>1, <2>3, <2>5
  <2>8. Holds(v, outerPos')
    <3>1. v.pos \in 0..outerPos
      BY <1>1, <2>5, <2>6
    <3> QED
      BY <1>1, <2>2, <2>4, <2>6, <3>1, Zenon DEF Holds
  <2>9. /\ outerPos' \in outerPos..Len(input) /\ s.pos \in 0..Len(input)
        /\ s.pos # Len(input)
    BY <1>1, <1>2, <2>4
  <2> QED
    BY <2>4, <2>6, <2>7, <2>8, <2>9
<1>3. CASE s.pos = outerPos
  <2>1. ~MNL!HasNext(s)
    BY <1>1, <1>3 DEF MNL!HasNext
  <2> DEFINE ateof == [s EXCEPT !.eof = TRUE]
  <2>2. MNL!tuplestore_gettupleslot(s) = ateof
    BY <2>1 DEF MNL!tuplestore_gettupleslot
  <2>3. /\ ateof \in Stores(Int) /\ ateof.tuples = s.tuples /\ ateof.mark = s.mark
        /\ ateof.pos = s.pos /\ ateof.eof
    BY <1>1 DEF Stores
  <2>4. CASE outerPos < Len(input)
    <3>1. ~underlying
      <4>1. outerPos # Len(input)
        BY <1>1, <2>4
      <4> QED
        BY <4>1
    <3>2. outerPos' = outerPos + 1 /\ underlying' = (outerPos = Len(input))
      BY <2>1, <2>4, <3>1 DEF MNL!Pull
    <3>3. v = tuplestore_puttupleslot(ateof, outerPos + 1) /\ MNL!Served(s) = outerPos + 1
      BY <2>1, <2>2, <2>4, <3>1
         DEF MNL!AfterServing, MNL!Served, MNL!tuplestore_puttupleslot, tuplestore_puttupleslot
    <3>4. v \in Stores(Int)
      <4>1. outerPos + 1 \in Int
        BY <1>1
      <4> QED
        BY <2>3, <3>3, <4>1, PutInStore
    <3>5. /\ v.tuples = Append(s.tuples, outerPos + 1) /\ v.mark = s.mark
          /\ v.pos = Len(s.tuples) + 1
      BY <2>3, <3>3 DEF tuplestore_puttupleslot, Stores
    <3>6. v.tuples = [i \in 1..outerPos+1 |-> i]
      <4>1. Append(s.tuples, outerPos + 1) =
              [i \in 1..outerPos+1 |-> IF i = outerPos + 1 THEN outerPos + 1 ELSE s.tuples[i]]
        BY <1>1
      <4>2. \A i \in 1..outerPos+1 : i # outerPos + 1 => i \in 1..outerPos
        BY <1>1
      <4> QED
        BY <1>1, <3>5, <4>1, <4>2
    <3>7. /\ outerPos' \in outerPos..Len(input) /\ s.pos \in 0..Len(input)
          /\ s.pos # Len(input) /\ v.pos = s.pos + 1 /\ MNL!Served(s) = s.pos + 1
          /\ v.pos = outerPos' /\ v.pos \in 0..outerPos'
      BY <1>1, <1>3, <2>4, <3>2, <3>3, <3>5
    <3>8. ~underlying'
      <4>1. outerPos # Len(input)
        BY <1>1, <2>4
      <4> QED
        BY <3>2, <4>1
    <3>9. Holds(v, outerPos')
      BY <3>2, <3>4, <3>6, <3>7 DEF Holds
    <3> QED
      BY <3>5, <3>7, <3>8, <3>9
  <2>5. CASE ~(outerPos < Len(input))
    <3>1. v = ateof /\ MNL!Served(s) = 0
      BY <2>1, <2>2, <2>5 DEF MNL!AfterServing, MNL!Served
    <3>2. outerPos' = outerPos
      BY <2>1, <2>5 DEF MNL!Pull
    <3>3. outerPos = Len(input)
      BY <1>1, <2>5
    <3>4. /\ outerPos' \in outerPos..Len(input) /\ s.pos \in 0..Len(input) /\ s.pos = Len(input)
          /\ v.pos \in 0..outerPos' /\ v.pos = outerPos' /\ ~(s.pos < Len(input))
      BY <1>1, <1>3, <2>3, <3>1, <3>2, <3>3
    <3>5. Holds(v, outerPos')
      BY <1>1, <2>3, <3>1, <3>2, <3>4 DEF Holds
    <3> QED
      BY <2>3, <3>1, <3>2, <3>3, <3>4, <3>5
  <2> QED
    BY <2>4, <2>5
<1> QED
  BY <1>1, <1>2, <1>3

-----------------------------------------------------------------------------
(* ExecSkyline_MaterializedNestedLoop. *)

\* What MaterialInv and LoopInv say.
LEMMA MaterialState ==
    ASSUME BaseInv, plan.method = "SM_MATERIALIZEDNESTEDLOOP"
    PROVE  /\ Len(input) \in Nat /\ outerPos \in 0..Len(input)
           /\ underlying => outerPos = Len(input)
           /\ made => Holds(store, outerPos) /\ store.mark \in 0..outerPos
           /\ made /\ status = "SS_INIT" => store.pos = 0
           /\ ~made => outerPos = 0 /\ ~underlying
<1>1. Len(input) \in Nat /\ outerPos \in 0..Len(input) /\ store \in Stores(Int)
  BY MethodFrame
<1>2. MaterialInv
  BY DEF BaseInv, NodeInv
<1> QED
  BY <1>1, <1>2, Zenon DEF MaterialInv, Holds

\* The outer loop reads from the mark, the position of its last tuple.
LEMMA RestoredStore ==
    ASSUME BaseInv, plan.method = "SM_MATERIALIZEDNESTEDLOOP", status = "SS_PROCESS"
    PROVE  Holds(MNL!Restored, outerPos) /\ MNL!Restored.pos = slPos
<1>1. CASE made
  <2>1. Holds(store, outerPos) /\ store.mark = slPos /\ slPos \in 0..outerPos
    <3>1. LoopInv
      BY DEF BaseInv, NodeInv
    <3> QED
      BY <1>1, <3>1, MaterialState, Zenon DEF LoopInv
  <2>2. MNL!Restored = [store EXCEPT !.pos = store.mark, !.eof = FALSE]
    BY <1>1 DEF MNL!Restored, MNL!Opened, MNL!tuplestore_restorepos
  <2>3. store.mark \in Nat
    BY <2>1, MaterialState
  <2>4. /\ MNL!Restored \in Stores(Int) /\ MNL!Restored.tuples = store.tuples
        /\ MNL!Restored.pos = store.mark /\ MNL!Restored.eof = FALSE
    BY <2>1, <2>2, <2>3 DEF Holds, Stores
  <2> QED
    BY <2>1, <2>4 DEF Holds
<1>2. CASE ~made
  <2>1. MNL!Restored = tuplestore_begin(TRUE)
    BY <1>2 DEF MNL!Restored, MNL!Opened, MNL!tuplestore_begin, tuplestore_begin
  <2>2. MNL!Restored.tuples = <<>> /\ MNL!Restored.pos = 0 /\ ~MNL!Restored.eof
    BY <2>1 DEF tuplestore_begin
  <2>3. slPos = 0 /\ outerPos = 0
    <3>1. LoopInv
      BY DEF BaseInv, NodeInv
    <3> QED
      BY <1>2, <3>1, MaterialState, Zenon DEF LoopInv
  <2>4. <<>> = [i \in 1..0 |-> i]
    OBVIOUS
  <2>5. MNL!Restored \in Stores(Int)
    BY <2>1, BeginStore
  <2>6. MNL!Restored.pos \in 0..0
    BY <2>2
  <2> QED
    BY <2>2, <2>3, <2>4, <2>5, <2>6, Zenon DEF Holds
<1> QED
  BY <1>1, <1>2

\* ExecSkyline_MaterializedNestedLoop keeps the inductive invariant.
LEMMA MaterializedBase == BaseInv /\ ExecSkyline /\ RunMNL => BaseInv'
<1> SUFFICES ASSUME BaseInv, ExecSkyline, RunMNL
             PROVE  BaseInv'
  OBVIOUS
<1>1. /\ plan.method = "SM_MATERIALIZEDNESTEDLOOP" /\ plan' = plan /\ slot' = 0 /\ ~inLoop'
  BY MethodFrame DEF ExecSkyline, RunMNL, windowState, WindowMethods
<1>2. /\ Len(input) \in Nat /\ outerPos \in Nat /\ outerPos \in 0..Len(input)
      /\ output \in Seq(Int) /\ slPos \in Nat /\ store \in Stores(Int)
      /\ resultSlot \in Int /\ resultSlot <= Len(input)
  BY MethodFrame
<1>3. Increasing(output) /\ \A k \in 1..Len(output) : output[k] <= outerPos
  BY <1>1 DEF BaseInv, NodeInv, OutputInv
<1>4. /\ inner => status = "SS_PROCESS" /\ made
      /\ status = "SS_INIT" => output = <<>>
  BY <1>1 DEF BaseInv, NodeInv, PhaseInv
<1>5. status = "SS_PROCESS" =>
        /\ slPos \in 0..outerPos
        /\ made => store.mark = slPos
        /\ ~made => slPos = 0
        /\ \A k \in 1..Len(output) : output[k] <= slPos
        /\ inner => /\ resultSlot = slPos
                    /\ innerPos = store.pos
                    /\ \A k \in 1..Len(output) : output[k] < slPos
  BY <1>1 DEF BaseInv, NodeInv, LoopInv
<1>6. /\ underlying => outerPos = Len(input)
      /\ made => Holds(store, outerPos) /\ store.mark \in 0..outerPos
      /\ made /\ status = "SS_INIT" => store.pos = 0
      /\ ~made => outerPos = 0 /\ ~underlying
  BY <1>1, MaterialState
\* What has to be shown of each step.
<1> DEFINE Goal ==
             /\ UNCHANGED <<node, input>>
             /\ output' \in Seq(Int) /\ store' \in Stores(Int) /\ slPos' \in Nat
             /\ resultSlot' \in Int /\ resultSlot' <= Len(input)
             /\ outerPos' \in 0..Len(input)
             /\ output' # output \/ status' = "SS_DONE" => ~inner'
             /\ status' = "SS_DONE" => output' = output
             /\ inner' => status' = "SS_PROCESS" /\ made'
             /\ status' # "SS_INIT"
             /\ Increasing(output') /\ \A k \in 1..Len(output') : output'[k] <= outerPos'
             /\ (MaterialInv /\ LoopInv)'
<1>7. Goal => BaseInv'
  <2> SUFFICES ASSUME Goal PROVE BaseInv'
    OBVIOUS
  <2>1. OutputInv'
    BY DEF OutputInv
  <2>2. MethodStep
    BY <1>1, <2>1 DEF MethodStep
  <2>3. (OneDimInv /\ OneDimDistinctInv)'
    BY <1>1 DEF OneDimInv, OneDimDistinctInv
  <2> QED
    BY <2>2, <2>3, MethodStepBase
<1>8. CASE MNL!Start
  <2>1. /\ status = "SS_INIT" /\ status' = "SS_PROCESS" /\ slPos' = 0 /\ ~inner
        /\ UNCHANGED <<node, input, outerPos, made, underlying, inner, resultSlot, output>>
        /\ made => store' = tuplestore_markpos(store)
        /\ ~made => store' = store
    BY <1>4, <1>8 DEF MNL!Start, MNL!tuplestore_markpos, tuplestore_markpos
  <2>2. made => /\ Holds(store, outerPos) /\ store.pos = 0
                /\ underlying => outerPos = Len(input)
    BY <1>6, <2>1, Zenon
  <2>3. made => /\ store' \in Stores(Int) /\ store'.tuples = store.tuples /\ store'.pos = 0
                /\ store'.eof = store.eof /\ store'.mark = 0
    BY <2>1, <2>2 DEF tuplestore_markpos, Holds, Stores
  <2>4. made => Holds(store', outerPos)
    BY <2>2, <2>3 DEF Holds
  <2>5. store' \in Stores(Int)
    BY <1>2, <2>1, <2>3
  <2>6. 0 \in 0..outerPos
    BY <1>2
  <2>7. MaterialInv'
    BY <1>6, <2>1, <2>2, <2>3, <2>4, <2>6, Zenon DEF MaterialInv, Holds
  <2>8. output = <<>> /\ output' = output /\ slPos' = 0
    BY <1>4, <2>1
  <2>9. slPos' \in 0..outerPos /\ slPos' \in Nat /\ \A k \in 1..Len(output') : output'[k] <= slPos'
    BY <2>6, <2>8
  <2>10. LoopInv'
    BY <2>1, <2>3, <2>9, Zenon DEF LoopInv
  <2> QED
    BY <1>2, <1>3, <1>7, <2>1, <2>5, <2>7, <2>9, <2>10, Zenon
\* Both loops read from a store s that holds what the node has read.
<1>9. CASE MNL!NextOuter \/ MNL!Finish
  <2> DEFINE s == MNL!Restored
             v == MNL!AfterServing(s)
  <2>1. /\ status = "SS_PROCESS" /\ ~inner /\ MNL!Pull(s) /\ made' /\ slPos' = slPos + 1
        /\ UNCHANGED <<node, input, output>>
    BY <1>9, Zenon DEF MNL!NextOuter, MNL!Finish
  <2>2. Holds(s, outerPos) /\ s.pos = slPos
    BY <1>1, <2>1, RestoredStore
  <2> HIDE DEF s
  <2>3. /\ Holds(v, outerPos') /\ outerPos' \in outerPos..Len(input)
        /\ underlying' => outerPos' = Len(input)
        /\ slPos < Len(input) => MNL!Served(s) = slPos + 1 /\ v.pos = slPos + 1
        /\ slPos = Len(input) => MNL!Served(s) = 0
        /\ slPos \in 0..Len(input)
    BY <1>2, <1>6, <2>1, <2>2, MaterialServes
  <2> HIDE DEF v
  <2>4. /\ v \in Stores(Int) /\ v.tuples = [i \in 1..outerPos' |-> i] /\ v.pos \in 0..outerPos'
        /\ v.eof => v.pos = outerPos'
    BY <2>3 DEF Holds
  <2>5. outerPos' \in 0..Len(input) /\ outerPos' \in Nat /\ 0 \in 0..outerPos' /\ slPos' \in Nat
    BY <1>2, <2>1, <2>3
  <2>6. \A k \in 1..Len(output') : output'[k] <= slPos /\ output'[k] < slPos + 1 /\ output'[k] <= outerPos'
    <3>1. \A k \in 1..Len(output) : output[k] <= slPos /\ output[k] <= outerPos
      BY <1>3, <1>5, <2>1
    <3>2. output' = output /\ outerPos <= outerPos'
      BY <1>2, <2>1, <2>3
    <3> QED
      BY <1>2, <2>5, <3>1, <3>2
  <2>7. CASE MNL!NextOuter
    <3>1. /\ MNL!Served(s) # 0 /\ resultSlot' = MNL!Served(s) /\ inner' /\ innerPos' = 0
          /\ store' = tuplestore_rescan(tuplestore_markpos(v)) /\ status' = "SS_PROCESS"
      BY <2>7, Zenon DEF MNL!NextOuter, MNL!OuterTuple, s, v, MNL!tuplestore_rescan, tuplestore_rescan,
         MNL!tuplestore_markpos, tuplestore_markpos
    <3>2. /\ slPos < Len(input) /\ v.pos = slPos + 1 /\ resultSlot' = slPos + 1
          /\ resultSlot' \in Int /\ resultSlot' <= Len(input)
      <4>1. slPos # Len(input)
        BY <2>3, <3>1
      <4>2. slPos < Len(input)
        BY <1>2, <2>3, <4>1
      <4> QED
        BY <1>2, <2>3, <3>1, <4>2
    <3>3. /\ store' \in Stores(Int) /\ store'.tuples = v.tuples /\ store'.pos = 0
          /\ store'.mark = v.pos /\ store'.eof = FALSE
      BY <2>4, <2>5, <3>1 DEF tuplestore_rescan, tuplestore_markpos, Stores
    <3>4. MaterialInv'
      BY <2>1, <2>3, <2>4, <2>5, <3>1, <3>3, Zenon DEF MaterialInv
    <3>5. slPos' \in 0..outerPos' /\ store'.mark = slPos'
      BY <2>1, <2>4, <3>2, <3>3
    <3>6. \A k \in 1..Len(output') : output'[k] <= slPos' /\ output'[k] < slPos'
      BY <1>2, <2>1, <2>6, <3>2
    <3>7. LoopInv'
      BY <2>1, <3>1, <3>2, <3>3, <3>5, <3>6, Zenon DEF LoopInv
    <3> QED
      BY <1>2, <1>3, <1>7, <2>1, <2>5, <2>6, <3>1, <3>2, <3>3, <3>4, <3>7, Zenon
  <2>8. CASE MNL!Finish
    <3>1. /\ store' = tuplestore_markpos(v) /\ status' = "SS_DONE"
          /\ ~inner' /\ resultSlot' = resultSlot
      BY <2>1, <2>8, Zenon DEF MNL!Finish, s, v, MNL!tuplestore_markpos, tuplestore_markpos
    <3>2. /\ store' \in Stores(Int) /\ store'.tuples = v.tuples /\ store'.pos = v.pos
          /\ store'.mark = v.pos /\ store'.eof = v.eof
      BY <2>4, <2>5, <3>1 DEF tuplestore_markpos, Stores
    <3>3. MaterialInv'
      BY <2>1, <2>3, <2>4, <3>1, <3>2, Zenon DEF MaterialInv
    <3>4. LoopInv'
      BY <3>1 DEF LoopInv
    <3> QED
      BY <1>2, <1>3, <1>7, <2>1, <2>5, <2>6, <3>1, <3>2, <3>3, <3>4, Zenon
  <2> QED
    BY <1>9, <2>7, <2>8
<1>10. CASE MNL!Eliminate \/ MNL!Continue \/ MNL!Return
  <2> DEFINE v == MNL!AfterServing(store)
  <2>1. /\ status = "SS_PROCESS" /\ status' = status /\ inner /\ MNL!Pull(store)
        /\ store' = v /\ innerPos' = innerPos + 1
        /\ UNCHANGED <<node, input, made, slPos, resultSlot>>
    BY <1>10, Zenon DEF MNL!Eliminate, MNL!Continue, MNL!Return, MNL!FetchInner
  <2>2. made /\ made' /\ Holds(store, outerPos) /\ store.mark \in 0..outerPos
    BY <1>4, <1>6, <2>1, Zenon
  <2>3. /\ Holds(store', outerPos') /\ store'.mark = store.mark
        /\ outerPos' \in outerPos..Len(input)
        /\ underlying' => outerPos' = Len(input)
        /\ store.pos < Len(input) => MNL!Served(store) = store.pos + 1 /\ store'.pos = store.pos + 1
        /\ store.pos = Len(input) => MNL!Served(store) = 0
        /\ store.pos \in 0..Len(input)
    BY <1>2, <1>6, <2>1, <2>2, MaterialServes
  <2>4. /\ store.mark = slPos /\ slPos \in 0..outerPos /\ resultSlot = slPos
        /\ innerPos = store.pos /\ \A k \in 1..Len(output) : output[k] < slPos
    BY <1>5, <2>1, <2>2, Zenon
  <2>5. /\ outerPos' \in 0..Len(input) /\ slPos \in 0..outerPos' /\ slPos \in Nat
        /\ outerPos' \in Nat /\ outerPos <= outerPos'
    BY <1>2, <2>3, <2>4
  <2>6. MaterialInv'
    BY <2>1, <2>2, <2>3, <2>4, <2>5, Zenon DEF MaterialInv, Holds
  <2>7. store' \in Stores(Int)
    BY <2>3 DEF Holds
  <2>8. CASE MNL!Eliminate \/ MNL!Continue
    <3>1. /\ output' = output
          /\ inner' => MNL!Served(store) # 0
      BY <2>8, Zenon DEF MNL!Eliminate, MNL!Continue, MNL!InnerTuple
    <3>a. output' = output /\ slPos' = slPos
      BY <2>1, <3>1, Zenon
    <3>2. MNL!Served(store) # 0 => innerPos' = store'.pos
      <4>1. MNL!Served(store) # 0 => store.pos < Len(input)
        BY <1>2, <2>3
      <4> QED
        BY <2>1, <2>3, <2>4, <4>1
    <3>3. \A k \in 1..Len(output') : output'[k] <= slPos' /\ output'[k] < slPos' /\ output'[k] <= outerPos'
      <4>1. \A k \in 1..Len(output) : output[k] \in Int /\ output[k] < slPos
        BY <1>2, <2>4
      <4>2. \A k \in 1..Len(output) : output[k] <= slPos /\ output[k] <= outerPos'
        BY <2>5, <4>1
      <4> QED
        BY <3>a, <4>1, <4>2
    <3>4. LoopInv'
      BY <2>1, <2>2, <2>3, <2>4, <2>5, <3>1, <3>2, <3>3, Zenon DEF LoopInv
    <3> QED
      BY <1>2, <1>3, <1>7, <2>1, <2>2, <2>5, <2>6, <2>7, <3>1, <3>3, <3>4, Zenon
  <2>9. CASE MNL!Return
    <3>1. output' = Append(output, slPos) /\ ~inner'
      BY <2>4, <2>9, Zenon DEF MNL!Return
    <3>2. /\ output' \in Seq(Int) /\ Increasing(output') /\ Len(output') = Len(output) + 1
          /\ output'[Len(output) + 1] = slPos
          /\ \A q \in 1..Len(output) : output'[q] = output[q]
      <4>1. slPos \in Int
        BY <2>5
      <4>2. output \in Seq(Int) /\ Increasing(output)
        BY <1>2, <1>3
      <4> QED
        BY <2>4, <3>1, <4>1, <4>2, AppendIncreasing
    <3>3. ASSUME NEW k \in 1..Len(output')
          PROVE  output'[k] <= slPos /\ output'[k] <= outerPos'
      <4>1. k \in 1..Len(output) \/ k = Len(output) + 1
        BY <1>2, <3>2
      <4>2. output'[k] <= slPos
        BY <1>2, <2>4, <2>5, <3>2, <4>1, SMTT(30)
      <4>3. output'[k] \in Int
        BY <3>2
      <4> QED
        BY <2>5, <4>2, <4>3
    <3>4. LoopInv'
      BY <2>1, <2>2, <2>3, <2>4, <2>5, <3>1, <3>3, Zenon DEF LoopInv
    <3> QED
      BY <1>2, <1>7, <2>1, <2>2, <2>5, <2>6, <2>7, <3>1, <3>2, <3>3, <3>4, Zenon
  <2> QED
    BY <1>10, <2>8, <2>9
<1>11. CASE MNL!ReturnNull
  <2>1. /\ status = "SS_DONE" /\ status' = status
        /\ UNCHANGED <<node, input, outerPos, made, store, underlying, inner, slPos,
                       resultSlot, output>>
    BY <1>11 DEF MNL!ReturnNull, MNL!vars
  <2>2. (MaterialInv /\ LoopInv)'
    <3>1. MaterialInv
      BY DEF BaseInv, NodeInv
    <3>2. MaterialInv'
      BY <1>1, <2>1, <3>1 DEF MaterialInv
    <3>3. LoopInv'
      BY <2>1 DEF LoopInv
    <3> QED
      BY <3>2, <3>3
  <2>3. ~inner
    BY <1>4, <2>1
  <2> QED
    BY <1>2, <1>3, <1>7, <2>1, <2>2, <2>3, Zenon
<1> QED
  BY <1>8, <1>9, <1>10, <1>11 DEF RunMNL, MNL!Next

-----------------------------------------------------------------------------
(* ExecReScanSkyline, ExecEndSkyline and stuttering. *)

\* ExecReScanSkyline keeps the inductive invariant, whatever it finds.
LEMMA RescanBase == BaseInv /\ ExecReScanSkyline => BaseInv'
<1> SUFFICES ASSUME BaseInv, ExecReScanSkyline
             PROVE  BaseInv'
  OBVIOUS
<1>1. /\ plan' = plan /\ node' = node /\ status' = "SS_INIT" /\ output' = <<>>
      /\ ~done' /\ done' \in BOOLEAN /\ slPos' = slPos /\ slot' = slot /\ RescanOuterPlan
      /\ inLoop' = inLoop /\ inner' = inner /\ inParent
  BY DEF ExecReScanSkyline, loopState
<1>2. /\ Len(input) \in Nat /\ outerPos \in 0..Len(input) /\ store \in Stores(Int)
      /\ slPos \in Nat /\ resultSlot \in Int /\ resultSlot <= Len(input)
  BY MethodFrame
<1>3. slot = 0 /\ ~inLoop /\ ~inner
  BY <1>1 DEF BaseInv, NodeInv, PhaseInv
\* What has to be shown of the outer plan.
<1> DEFINE OuterPlan ==
             /\ input' \in plan.inputs
             /\ outerPos' \in 0..Len(input')
             /\ plan.method # "SM_MATERIALIZEDNESTEDLOOP" => outerPos' = 0
             /\ store' \in Stores(Int)
             /\ resultSlot' \in Int /\ resultSlot' <= Len(input')
             /\ MaterialInv'
<1>4. OuterPlan => BaseInv'
  <2> SUFFICES ASSUME OuterPlan PROVE BaseInv'
    OBVIOUS
  <2>1. Chosen'
    BY <1>1 DEF BaseInv, NodeTypes, Chosen
  <2>2. NodeTypes'
    BY <1>1, <1>2, <2>1 DEF NodeTypes
  <2>3. DoneInv'
    BY <1>1, Zenon DEF DoneInv
  <2>4. PhaseInv'
    BY <1>1, <1>3, Zenon DEF PhaseInv
  <2>5. OneDimInv' /\ LoopInv'
    BY <1>1, <1>3, Zenon DEF OneDimInv, LoopInv
  <2>6. OneDimDistinctInv'
    BY <1>1 DEF OneDimDistinctInv
  <2>7. OutputInv'
    BY <1>1 DEF OutputInv, Increasing
  <2> QED
    BY <2>2, <2>3, <2>4, <2>5, <2>6, <2>7 DEF BaseInv, NodeInv
<1>5. \/ /\ input' = input /\ made' = made /\ underlying' = underlying
         /\ resultSlot' = resultSlot
         /\ IF plan.method = "SM_MATERIALIZEDNESTEDLOOP"
            THEN /\ store' = IF made THEN tuplestore_rescan(store) ELSE store
                 /\ outerPos' = outerPos
            ELSE store' = store /\ outerPos' = 0
      \/ /\ input' \in plan.inputs /\ outerPos' = 0
         /\ made' = FALSE /\ underlying' = FALSE
         /\ resultSlot' = (IF resultSlot = 0 THEN 0 ELSE Stale)
         /\ store' = store
  BY <1>1, Zenon DEF RescanOuterPlan, materialState
\* No parameter has changed.
<1>6. CASE /\ input' = input /\ made' = made /\ underlying' = underlying
           /\ resultSlot' = resultSlot
           /\ IF plan.method = "SM_MATERIALIZEDNESTEDLOOP"
              THEN /\ store' = IF made THEN tuplestore_rescan(store) ELSE store
                   /\ outerPos' = outerPos
              ELSE store' = store /\ outerPos' = 0
  <2>1. input' \in plan.inputs
    BY <1>6 DEF BaseInv, NodeTypes, Chosen
  <2>2. CASE plan.method = "SM_MATERIALIZEDNESTEDLOOP"
    <3>1. /\ underlying => outerPos = Len(input)
          /\ made => Holds(store, outerPos) /\ store.mark \in 0..outerPos
          /\ ~made => outerPos = 0 /\ ~underlying
      BY <2>2, MaterialState
    <3>2. outerPos' = outerPos /\ outerPos' \in 0..Len(input') /\ 0 \in 0..outerPos
      BY <1>2, <1>6, <2>2
    <3>3. CASE made
      <4>1. store' = tuplestore_rescan(store)
        BY <1>6, <2>2, <3>3
      <4>2. /\ store' \in Stores(Int) /\ store'.tuples = store.tuples /\ store'.pos = 0
            /\ store'.eof = FALSE /\ store'.mark = store.mark
        BY <1>2, <4>1 DEF tuplestore_rescan, Stores
      <4>3. MaterialInv'
        BY <1>6, <3>1, <3>2, <3>3, <4>2, Zenon DEF MaterialInv, Holds
      <4> QED
        BY <1>2, <1>4, <1>6, <2>1, <2>2, <3>2, <4>2, <4>3, Zenon
    <3>4. CASE ~made
      <4>1. store' = store
        BY <1>6, <2>2, <3>4
      <4>2. MaterialInv'
        BY <1>6, <3>1, <3>2, <3>4, Zenon DEF MaterialInv
      <4> QED
        BY <1>2, <1>4, <1>6, <2>1, <2>2, <3>2, <4>1, <4>2, Zenon
    <3> QED
      BY <3>3, <3>4
  <2>3. CASE plan.method # "SM_MATERIALIZEDNESTEDLOOP"
    <3>1. store' = store /\ outerPos' = 0
      BY <1>6, <2>3
    <3>2. MaterialInv'
      BY <1>1, <2>3 DEF MaterialInv
    <3>3. outerPos' \in 0..Len(input')
      BY <1>2, <1>6, <3>1
    <3> QED
      BY <1>2, <1>4, <1>6, <2>1, <2>3, <3>1, <3>2, <3>3, Zenon
  <2> QED
    BY <2>2, <2>3
\* A parameter has changed.
<1>7. CASE /\ input' \in plan.inputs /\ outerPos' = 0
           /\ made' = FALSE /\ underlying' = FALSE
           /\ resultSlot' = (IF resultSlot = 0 THEN 0 ELSE Stale)
           /\ store' = store
  <2>1. Len(input') \in Nat
    <3>1. plan \in Plans /\ node = plan.node
      BY DEF BaseInv, NodeTypes, Chosen
    <3>2. input' \in Seq(Row(plan.node))
      BY <1>7, <3>1, NodePlansAssumption
    <3> QED
      BY <3>2
  <2>2. outerPos' \in 0..Len(input')
    BY <1>7, <2>1
  <2>3. resultSlot' \in Int /\ resultSlot' <= Len(input')
    <3>1. resultSlot' = 0 \/ resultSlot' = -1
      BY <1>7 DEF Stale
    <3> QED
      BY <2>1, <3>1
  <2>4. MaterialInv'
    BY <1>7, Zenon DEF MaterialInv
  <2> QED
    BY <1>2, <1>4, <1>7, <2>2, <2>3, <2>4, Zenon
<1> QED
  BY <1>5, <1>6, <1>7

\* ExecEndSkyline keeps the inductive invariant.
LEMMA EndBase == BaseInv /\ ExecEndSkyline => BaseInv'
<1> SUFFICES ASSUME BaseInv, ExecEndSkyline
             PROVE  BaseInv'
  OBVIOUS
<1>1. /\ resultSlot' = 0 /\ inParent
      /\ UNCHANGED <<plan, node, input, outerPos, status, output, windowState, inLoop,
                     store, materialState, loopState, inParent, done>>
  BY DEF ExecEndSkyline
<1>2. NodeTypes'
  <2>1. Len(input) \in Nat
    BY MethodFrame
  <2>2. Chosen'
    BY <1>1 DEF BaseInv, NodeTypes, Chosen
  <2>3. /\ output' \in Seq(Int) /\ store' \in Stores(Int) /\ slPos' \in Nat
        /\ done' \in BOOLEAN
    BY <1>1 DEF BaseInv, NodeTypes, loopState
  <2>4. resultSlot' \in Int /\ resultSlot' <= Len(input')
    BY <1>1, <2>1
  <2> QED
    BY <2>2, <2>3, <2>4 DEF NodeTypes
<1>3. DoneInv'
  BY <1>1 DEF BaseInv, DoneInv
<1>4. PhaseInv'
  BY <1>1, Zenon DEF BaseInv, NodeInv, PhaseInv, UsesWindow, windowState, loopState, materialState
<1>5. (OneDimInv /\ OneDimDistinctInv)'
  BY <1>1, Zenon DEF BaseInv, NodeInv, OneDimInv, OneDimDistinctInv
<1>6. MaterialInv'
  BY <1>1, Zenon DEF BaseInv, NodeInv, MaterialInv, materialState
<1>7. LoopInv'
  <2>1. ~inner /\ inner' = inner /\ slPos' = slPos /\ made' = made
    BY <1>1 DEF BaseInv, NodeInv, PhaseInv, loopState, materialState
  <2> QED
    BY <1>1, <2>1, Zenon DEF BaseInv, NodeInv, LoopInv
<1>8. OutputInv'
  BY <1>1, Zenon DEF BaseInv, NodeInv, OutputInv
<1> QED
  BY <1>2, <1>3, <1>4, <1>5, <1>6, <1>7, <1>8 DEF BaseInv, NodeInv

\* So does a step that changes nothing.
LEMMA StutterBase == BaseInv /\ UNCHANGED vars => BaseInv'
<1> SUFFICES ASSUME BaseInv, UNCHANGED vars
             PROVE  BaseInv'
  OBVIOUS
<1>1. /\ UNCHANGED <<plan, node, input, outerPos, status, output, slot, inLoop, store,
                     resultSlot, made, underlying, inner, slPos, innerPos>>
      /\ UNCHANGED <<inParent, done>>
  BY DEF vars, windowState, loopState, materialState
<1>2. NodeTypes' /\ DoneInv'
  BY <1>1 DEF BaseInv, NodeTypes, DoneInv, Chosen
<1>3. PhaseInv'
  BY <1>1, Zenon DEF BaseInv, NodeInv, PhaseInv, UsesWindow
<1>4. (OneDimInv /\ OneDimDistinctInv)'
  BY <1>1, Zenon DEF BaseInv, NodeInv, OneDimInv, OneDimDistinctInv
<1>5. (MaterialInv /\ LoopInv /\ OutputInv)'
  BY <1>1, Zenon DEF BaseInv, NodeInv, MaterialInv, LoopInv, OutputInv
<1> QED
  BY <1>2, <1>3, <1>4, <1>5 DEF BaseInv, NodeInv

-----------------------------------------------------------------------------
(* What the steps of the methods with a window do to the node's own state. *)

\* What a step of the block nested loop does to what all methods share.
LEMMA BNLReturns ==
    ASSUME BNL!Next
    PROVE  /\ UNCHANGED <<node, input>>
           /\ status' # "SS_INIT"
           /\ output' # output \/ status' = "SS_DONE" => status' # "SS_PROCESS"
           /\ status' = "SS_DONE" => output' = output
<1>1. UNCHANGED <<node, input>> /\ status' # "SS_INIT"
  BY DEF BNL!Next, BNL!Start, BNL!FetchOuter, BNL!FetchTemp, BNL!Drop, BNL!RemoveDominated,
         BNL!MoveNext, BNL!PutInWindow, BNL!WriteToTemp, BNL!LastPass, BNL!NextPass,
         BNL!PipeOut, BNL!PipeOutSkip, BNL!PipeOutEnd, BNL!FinalPipeOut, BNL!Finish,
         BNL!ReturnNull, BNL!EndOfTuple, BNL!EndOfSource, BNL!Comparing, BNL!plan, BNL!vars
<1>2. \/ UNCHANGED output /\ status' # "SS_DONE"
      \/ UNCHANGED output /\ status' = "SS_DONE"
      \/ status' \in {"SS_PIPEOUT", "SS_FINALPIPEOUT"}
  BY DEF BNL!Next, BNL!Start, BNL!FetchOuter, BNL!FetchTemp, BNL!Drop, BNL!RemoveDominated,
         BNL!MoveNext, BNL!PutInWindow, BNL!WriteToTemp, BNL!LastPass, BNL!NextPass,
         BNL!PipeOut, BNL!PipeOutSkip, BNL!PipeOutEnd, BNL!FinalPipeOut, BNL!Finish,
         BNL!ReturnNull, BNL!EndOfTuple, BNL!EndOfSource, BNL!Comparing, BNL!vars
<1> QED
  BY <1>1, <1>2

\* The same of the sort filter skyline.
LEMMA SFSReturns ==
    ASSUME SFS!Next, status = "SS_DONE" => slot = 0
    PROVE  /\ UNCHANGED <<node, input>>
           /\ status' # "SS_INIT"
           /\ output' # output \/ status' = "SS_DONE" => slot' = 0
           /\ status' = "SS_DONE" => output' = output
  BY DEF SFS!Next, SFS!Start, SFS!FetchOuter, SFS!FetchTemp, SFS!Drop, SFS!MoveNext,
         SFS!PutInWindow, SFS!WriteToTemp, SFS!LastPass, SFS!NextPass, SFS!ReturnNull,
         SFS!EndOfSource, SFS!Comparing, SFS!plan, SFS!vars

\* The same of the elimination filter.
LEMMA EFReturns ==
    ASSUME EF!Next, status = "SS_DONE" => slot = 0
    PROVE  /\ UNCHANGED <<node, input>>
           /\ status' # "SS_INIT"
           /\ output' # output \/ status' = "SS_DONE" => slot' = 0
           /\ status' = "SS_DONE" => output' = output
           /\ output' # output <=> EF!PassOn
  BY DEF EF!Next, EF!Start, EF!Fetch, EF!EndOfInput, EF!Drop, EF!RemoveDominated, EF!MoveNext,
         EF!PassOn, EF!ReturnNull, EF!Comparing, EF!plan, EF!vars

\* What a step of a method with a window has to keep.
WindowStep ==
    /\ UNCHANGED <<node, input>>
    /\ output' \in Seq(Int)
    /\ outerPos' \in 0..Len(input)
    /\ output' # output \/ status' = "SS_DONE" => slot' = 0
    /\ status' = "SS_DONE" => output' = output
    /\ slot' # 0 => status' = "SS_PROCESS"
    /\ status' # "SS_INIT"
    /\ OutputInv'

\* A method with a window that returns in order keeps the inductive invariant.
LEMMA WindowStepBase ==
    ASSUME BaseInv, ExecSkyline, RunBNL \/ RunSFS \/ RunElimFilter, WindowStep
    PROVE  BaseInv'
<1>1. /\ plan.method \in WindowMethods
      /\ plan.method \notin {"SM_1DIM", "SM_1DIM_DISTINCT", "SM_MATERIALIZEDNESTEDLOOP"}
      /\ UNCHANGED <<plan, inLoop, store, resultSlot, inner, slPos>>
  BY DEF RunBNL, RunSFS, RunElimFilter, WindowMethods, loopState, ExecSkyline
<1>2. /\ store \in Stores(Int) /\ slPos \in Nat
      /\ resultSlot \in Int /\ resultSlot <= Len(input) /\ ~inLoop /\ ~inner
  BY <1>1, MethodFrame
<1>3. MethodStep
  BY <1>1, <1>2 DEF MethodStep, WindowStep, UsesWindow
<1>4. (OneDimInv /\ OneDimDistinctInv /\ MaterialInv /\ LoopInv)'
  BY <1>1, Zenon DEF OneDimInv, OneDimDistinctInv, MaterialInv, LoopInv
<1> QED
  BY <1>3, <1>4, MethodStepBase

-----------------------------------------------------------------------------
(* What has been decided about the tuples read: the invariants from which  *)
(* it follows that the methods without a window return the skyline.        *)

\* The tuples of a store that have not been read; ExecSkyline_1Dim returns them.
Left(s) == {s.tuples[m] : m \in s.pos+1..Len(s.tuples)}
Unread == Left(store)

\* In the loop they are those that are as good as the best value, which is that of
\* a tuple read; behind it, all of the skyline that has not been returned.
OneDimQuery ==
    plan.method = "SM_1DIM" =>
        /\ inLoop /\ first => outerPos = 0 /\ Unread = {}
        /\ inLoop /\ ~first =>
             /\ \E j \in 1..outerPos : datum = input[j][1]
             /\ \A i \in 1..outerPos :
                  /\ ApplyCompare(node.cols[1], datum, input[i][1]) <= 0
                  /\ i \in Unread <=> ApplyCompare(node.cols[1], datum, input[i][1]) = 0
        /\ status = "SS_PIPEOUT" =>
             /\ \A i \in Unread : Query!InSkyline(i)
             /\ \A i \in Query!Ids : Query!MayEmit(i) => i \in Unread

\* ExecSkyline_1DimDistinct: the result slot holds the best tuple read.
OneDimDistinctQuery ==
    plan.method = "SM_1DIM_DISTINCT" =>
        /\ status = "SS_INIT" /\ ~inLoop => resultSlot = 0
        /\ inLoop =>
             /\ resultSlot = 0 => outerPos = 0
             /\ resultSlot # 0 =>
                  /\ resultSlot \in 1..outerPos
                  /\ datum = input[resultSlot][1]
                  /\ \A i \in 1..outerPos :
                       ApplyCompare(node.cols[1], datum, input[i][1]) <= 0
        /\ status = "SS_DONE" => \A i \in Query!Ids : ~Query!MayEmit(i)

\* There are no columns but c and d, which may be the same.
AreColumns(c, d) == Columns(node) = {c, d}

\* ExecSkyline_2DimPreSort: of the tuples read, the one returned last is the best
\* in the column that the input is sorted by second.
PresortQuery ==
    plan.method = "SM_2DIM_PRESORT" /\ status = "SS_PROCESS" /\ ~ended =>
        /\ resultSlot \in 1..outerPos
        /\ resultSlot \in Query!Emitted /\ Query!InSkyline(resultSlot)
        /\ \A c, d \in 1..2 : AreColumns(c, d) /\ SortedByColumns(node, input, c, d) =>
             \A i \in 1..outerPos : Compare(node, d, input[resultSlot], input[i]) <= 0
        /\ \A i \in 1..outerPos : ~Query!MayEmit(i)

\* ExecSkyline_MaterializedNestedLoop: the outer loop is done with the tuples in
\* front of its own, and no tuple that the inner loop has read eliminates that one.
MaterialQuery ==
    plan.method = "SM_MATERIALIZEDNESTEDLOOP" /\ status = "SS_PROCESS" =>
        /\ \A i \in 1..slPos : ~(inner /\ i = slPos) => ~Query!MayEmit(i)
        /\ inner => slPos # 0
        /\ inner => \A j \in 1..innerPos :
             /\ ~Dominates(node, input[j], input[slPos])
             /\ node.skyline_distinct /\ j < slPos => ~AllEq(node, input[j], input[slPos])

\* What is returned is a tuple of the outer plan.
EmittedIds == plan.method # "SM_ELIMFILTER" => Query!Emitted \subseteq Query!Ids

QueryInv ==
    OneDimQuery /\ OneDimDistinctQuery /\ PresortQuery /\ MaterialQuery /\ EmittedIds

-----------------------------------------------------------------------------
(* The query. *)

\* The comparison is the same in all instances.
LEMMA SameQuery ==
    ASSUME NEW n, NEW a, NEW b
    PROVE  /\ Query!Dominates(n, a, b) <=> Dominates(n, a, b)
           /\ Query!AllEq(n, a, b) <=> AllEq(n, a, b)
  BY SMT DEF Query!Dominates, Query!AllEq, Query!IsDominating, Query!ApplyCompare,
     Query!Columns, Query!Sign, Dominates, AllEq, IsDominating, ApplyCompare, Columns, Sign

\* So is it in the methods without a window.
LEMMA SameCompare ==
    /\ \A c, d, e : Dim1!ApplyCompare(c, d, e) = ApplyCompare(c, d, e)
    /\ \A c, d, e : Distinct!ApplyCompare(c, d, e) = ApplyCompare(c, d, e)
    /\ \A n, a, b : Presort!IsDominating(n, a, b) = IsDominating(n, a, b)
    /\ \A n, a, b : MNL!IsDominating(n, a, b) = IsDominating(n, a, b)
<1>1. \A c, d, e : Dim1!ApplyCompare(c, d, e) = ApplyCompare(c, d, e)
  BY SMT DEF Dim1!ApplyCompare, Dim1!Sign, ApplyCompare, Sign
<1>2. \A c, d, e : Distinct!ApplyCompare(c, d, e) = ApplyCompare(c, d, e)
  BY SMT DEF Distinct!ApplyCompare, Distinct!Sign, ApplyCompare, Sign
<1>3. \A n, a, b : Presort!IsDominating(n, a, b) = IsDominating(n, a, b)
  BY SMT DEF Presort!IsDominating, Presort!ApplyCompare, Presort!Columns, Presort!Sign,
     IsDominating, ApplyCompare, Columns, Sign
<1>4. \A n, a, b : MNL!IsDominating(n, a, b) = IsDominating(n, a, b)
  BY SMT DEF MNL!IsDominating, MNL!ApplyCompare, MNL!Columns, MNL!Sign,
     IsDominating, ApplyCompare, Columns, Sign
<1> QED
  BY <1>1, <1>2, <1>3, <1>4

\* What the abstract query says of a tuple, in terms of Dominance.
LEMMA QueryExpanded ==
    ASSUME NEW i
    PROVE  /\ Query!InSkyline(i) <=>
                \A j \in 1..Len(input) : ~Dominates(node, input[j], input[i])
           /\ Query!MayEmit(i) <=>
                /\ Query!InSkyline(i) /\ i \notin Query!Emitted
                /\ \A k \in Query!Emitted :
                     /\ ~Dominates(node, input[k], input[i])
                     /\ node.skyline_distinct /\ k # i => ~AllEq(node, input[k], input[i])
  BY SameQuery, Zenon DEF Query!InSkyline, Query!Ids, Query!MayEmit, Query!Beats

\* A tuple returned cannot be returned once more, nor can one it beats.
LEMMA MayEmitShrinks ==
    ASSUME NEW x, output \in Seq(Int), output' = Append(output, x), node' = node, input' = input
    PROVE  /\ Query!Emitted' = Query!Emitted \cup {x}
           /\ \A i : Query!InSkyline(i)' <=> Query!InSkyline(i)
           /\ \A i : Query!MayEmit(i)' => Query!MayEmit(i) /\ i # x
           /\ \A i : Query!MayEmit(i)' /\ node.skyline_distinct =>
                ~AllEq(node, input[x], input[i])
<1>1. Query!Emitted' = Query!Emitted \cup {x}
  <2>1. Len(output') = Len(output) + 1 /\ Len(output) \in Nat
    OBVIOUS
  <2>2. \A k \in 1..Len(output) : output'[k] = output[k]
    OBVIOUS
  <2>3. output'[Len(output) + 1] = x
    OBVIOUS
  <2>4. 1..Len(output') = 1..Len(output) \cup {Len(output) + 1}
    BY <2>1
  <2> QED
    BY <2>2, <2>3, <2>4 DEF Query!Emitted
<1>2. \A i : Query!InSkyline(i)' <=> Query!InSkyline(i)
  BY DEF Query!InSkyline, Query!Ids
<1>3. \A i : Query!MayEmit(i)' => Query!MayEmit(i) /\ i # x
  BY <1>1, <1>2 DEF Query!MayEmit, Query!Beats
<1>4. ASSUME NEW i, Query!MayEmit(i)', node.skyline_distinct
      PROVE  ~AllEq(node, input[x], input[i])
  <2>1. ~Query!Beats(x, i)' /\ i # x
    BY <1>1, <1>3, <1>4 DEF Query!MayEmit
  <2> QED
    BY <1>4, <2>1, SameQuery DEF Query!Beats
<1> QED
  BY <1>1, <1>2, <1>3, <1>4

\* A step that returns nothing.
LEMMA MayEmitSame ==
    ASSUME UNCHANGED <<node, input, output>>
    PROVE  /\ \A i : Query!InSkyline(i)' <=> Query!InSkyline(i)
           /\ \A i : Query!MayEmit(i)' <=> Query!MayEmit(i)
           /\ Query!Emitted' = Query!Emitted /\ Query!Ids' = Query!Ids
  BY DEF Query!InSkyline, Query!Ids, Query!MayEmit, Query!Emitted, Query!Beats

\* Returning a tuple that may be returned is a step of the query.
LEMMA QueryEmits ==
    ASSUME NEW x, x \in Query!Ids, Query!MayEmit(x), done = FALSE, done' = FALSE,
           output' = Append(output, x), UNCHANGED <<node, input>>
    PROVE  Query!Next
  BY DEF Query!Next, Query!Emit

\* Returning NULL is a step of the query when it has no tuple left to return.
LEMMA QueryFinishes ==
    ASSUME \A i \in Query!Ids : ~Query!MayEmit(i), done = FALSE, done' = TRUE,
           UNCHANGED <<node, input, output>>
    PROVE  Query!Next
  BY DEF Query!Next, Query!Finish

-----------------------------------------------------------------------------
(* The operations of the store, and the tuples left in it. *)

\* A store that has been opened has nothing left to read.
LEMMA LeftBegin == Left(tuplestore_begin(FALSE)) = {}
<1>1. tuplestore_begin(FALSE).tuples = <<>> /\ tuplestore_begin(FALSE).pos = 0
  BY DEF tuplestore_begin
<1>2. 0+1..Len(<<>>) = {}
  OBVIOUS
<1> QED
  BY <1>1, <1>2 DEF Left

\* A tuple that is put into the store is left in it.
LEMMA LeftPut ==
    ASSUME NEW s \in Stores(Int), NEW t \in Int, ~s.eof, s.pos \in 0..Len(s.tuples)
    PROVE  Left(tuplestore_puttupleslot(s, t)) = Left(s) \cup {t}
<1> DEFINE r == tuplestore_puttupleslot(s, t)
           n == Len(s.tuples)
<1>1. s.tuples \in Seq(Int) /\ n \in Nat /\ s.pos \in Nat
  BY DEF Stores
<1>2. r.tuples = Append(s.tuples, t) /\ r.pos = s.pos
  BY DEF tuplestore_puttupleslot, Stores
<1> SUFFICES Left(r) = Left(s) \cup {t}
  OBVIOUS
<1> HIDE DEF r
<1>3. /\ Len(r.tuples) = n + 1 /\ r.tuples[n + 1] = t
      /\ \A m \in 1..n : r.tuples[m] = s.tuples[m]
  BY <1>1, <1>2
<1>4. r.pos+1..Len(r.tuples) = (s.pos+1..n) \cup {n + 1}
  BY <1>1, <1>2, <1>3
<1>5. \A m \in s.pos+1..n : r.tuples[m] = s.tuples[m]
  BY <1>1, <1>3
<1>6. ASSUME NEW x \in Left(r) PROVE x \in Left(s) \cup {t}
  <2>1. PICK m \in (s.pos+1..n) \cup {n + 1} : x = r.tuples[m]
    BY <1>4, <1>6, Zenon DEF Left
  <2> QED
    BY <1>3, <1>5, <2>1, Zenon DEF Left
<1>7. ASSUME NEW m \in s.pos+1..n PROVE s.tuples[m] \in Left(r)
  BY <1>4, <1>5, Zenon DEF Left
<1>8. t \in Left(r)
  BY <1>3, <1>4, Zenon DEF Left
<1> QED
  BY <1>6, <1>7, <1>8, Zenon DEF Left

\* A store that is caught up to its end has nothing left to read.
LEMMA LeftCatchUp ==
    ASSUME NEW s \in Stores(Int)
    PROVE  Left(tuplestore_catchup(s)) = {}
<1> DEFINE r == tuplestore_catchup(s)
<1>1. r.tuples = s.tuples /\ r.pos = Len(s.tuples) /\ Len(s.tuples) \in Nat
  BY DEF tuplestore_catchup, Stores
<1> SUFFICES Left(r) = {}
  OBVIOUS
<1> HIDE DEF r
<1>2. r.pos+1..Len(r.tuples) = {}
  BY <1>1
<1> QED
  BY <1>2, Zenon DEF Left

\* A tuple that is read is one that was left.
LEMMA LeftGet ==
    ASSUME NEW s \in Stores(Int), HasNext(s)
    PROVE  Left(s) = Left(tuplestore_gettupleslot(s)) \cup {NextTuple(s)}
<1> DEFINE r == tuplestore_gettupleslot(s)
<1>1. /\ r.tuples = s.tuples /\ r.pos = s.pos + 1 /\ Len(s.tuples) \in Nat
      /\ s.pos \in Nat /\ s.pos < Len(s.tuples)
  BY DEF tuplestore_gettupleslot, Stores, HasNext
<1> SUFFICES Left(s) = Left(r) \cup {NextTuple(s)}
  OBVIOUS
<1> HIDE DEF r
<1>2. s.pos+1..Len(s.tuples) = (r.pos+1..Len(r.tuples)) \cup {s.pos + 1}
  BY <1>1
<1>3. ASSUME NEW x \in Left(s) PROVE x \in Left(r) \cup {NextTuple(s)}
  <2>1. PICK m \in (r.pos+1..Len(r.tuples)) \cup {s.pos + 1} : x = s.tuples[m]
    BY <1>2, <1>3, Zenon DEF Left
  <2> QED
    BY <1>1, <2>1, Zenon DEF Left, NextTuple
<1>4. ASSUME NEW m \in r.pos+1..Len(r.tuples) PROVE r.tuples[m] \in Left(s)
  BY <1>1, <1>2, Zenon DEF Left
<1>5. NextTuple(s) \in Left(s)
  BY <1>1, <1>2, Zenon DEF Left, NextTuple
<1> QED
  BY <1>3, <1>4, <1>5, Zenon DEF Left

\* At its end nothing is left in a store.
LEMMA LeftEmpty ==
    ASSUME NEW s \in Stores(Int), ~HasNext(s)
    PROVE  Left(s) = {}
<1>1. s.pos+1..Len(s.tuples) = {}
  BY DEF Stores, HasNext
<1> QED
  BY <1>1 DEF Left

-----------------------------------------------------------------------------
(* One column. *)

\* The rows of a chosen input.
LEMMA Rows ==
    ASSUME Chosen, NEW i \in 1..Len(input)
    PROVE  /\ node \in PlanNode /\ input[i] \in Row(node)
           /\ \A c \in Columns(node) : node.cols[c] \in Column /\ input[i][c] \in Datum
<1>1. node \in PlanNode /\ input[i] \in Row(node)
  BY ChosenTypes
<1> QED
  BY <1>1 DEF PlanNode, Row, Columns

\* Over one column the skyline's comparison is that of the column.
LEMMA OneColumn ==
    ASSUME Chosen, Ordered(node, 1), NEW i \in 1..Len(input), NEW j \in 1..Len(input)
    PROVE  /\ Dominates(node, input[i], input[j]) <=>
                ApplyCompare(node.cols[1], input[i][1], input[j][1]) < 0
           /\ AllEq(node, input[i], input[j]) <=>
                ApplyCompare(node.cols[1], input[i][1], input[j][1]) = 0
<1>1. \A c : c \in Columns(node) <=> c = 1
  BY DEF Ordered
<1>2. node.cols[1].dir # "DIFF"
  BY <1>1 DEF Ordered
<1>3. node \in PlanNode /\ input[i] \in Row(node) /\ input[j] \in Row(node)
  BY Rows
<1>4. ApplyCompare(node.cols[1], input[i][1], input[j][1]) \in {-1, 0, 1}
  BY <1>1, Rows, CompareAntisymmetric
<1> QED
  BY <1>1, <1>2, <1>3, <1>4, Outcomes

\* The tuples in the skyline are those with the best value.
LEMMA BestValue ==
    ASSUME Chosen, Ordered(node, 1), NEW d, \E j \in 1..Len(input) : d = input[j][1],
           \A j \in 1..Len(input) : ApplyCompare(node.cols[1], d, input[j][1]) <= 0,
           NEW i \in 1..Len(input)
    PROVE  Query!InSkyline(i) <=> ApplyCompare(node.cols[1], d, input[i][1]) = 0
<1>1. PICK b \in 1..Len(input) : d = input[b][1]
  OBVIOUS
<1>2. 1 \in Columns(node)
  BY DEF Ordered
<1>3. /\ node.cols[1] \in Column /\ d \in Datum
      /\ \A j \in 1..Len(input) : input[j][1] \in Datum
  BY <1>1, <1>2, Rows
<1>4. ASSUME NEW j \in 1..Len(input), ApplyCompare(node.cols[1], d, input[i][1]) = 0
      PROVE  ~Dominates(node, input[j], input[i])
  <2>1. ApplyCompare(node.cols[1], d, input[j][1]) <= 0
    OBVIOUS
  <2>2. SUFFICES ~(ApplyCompare(node.cols[1], input[j][1], input[i][1]) < 0)
    BY OneColumn
  <2>3. input[j][1] \in Datum /\ input[i][1] \in Datum
    BY <1>3
  <2>4. ApplyCompare(node.cols[1], input[j][1], input[i][1]) \in {-1, 0, 1}
    BY <1>3, <2>3, CompareAntisymmetric
  <2>5. ApplyCompare(node.cols[1], input[j][1], input[i][1]) < 0 =>
          ApplyCompare(node.cols[1], d, input[i][1]) < 0
    BY <1>3, <2>1, <2>3, <2>4, CompareTransitive
  <2> QED
    BY <1>4, <2>5
<1>5. ApplyCompare(node.cols[1], d, input[i][1]) \in {-1, 0, 1}
  BY <1>3, CompareAntisymmetric
<1>6. ApplyCompare(node.cols[1], d, input[i][1]) < 0 => Dominates(node, input[b], input[i])
  BY <1>1, OneColumn
<1>7. ApplyCompare(node.cols[1], d, input[i][1]) <= 0
  OBVIOUS
<1> QED
  BY <1>1, <1>4, <1>5, <1>6, <1>7, QueryExpanded

-----------------------------------------------------------------------------
(* A step of a method as the query sees it. *)

QueryStep == Query!Next \/ UNCHANGED <<node, input, output, done>>

\* A tuple in the skyline may be returned once, and under DISTINCT if it equals none.
LEMMA MayEmitSkyline ==
    ASSUME NEW x, Query!InSkyline(x), x \notin Query!Emitted,
           Query!Emitted \subseteq Query!Ids,
           \A k \in Query!Emitted : node.skyline_distinct =>
             ~AllEq(node, input[k], input[x])
    PROVE  Query!MayEmit(x)
<1>1. \A k \in Query!Emitted : ~Dominates(node, input[k], input[x])
  BY QueryExpanded DEF Query!Ids
<1> QED
  BY <1>1, QueryExpanded

\* Nothing has been returned.
LEMMA NothingEmitted == output = <<>> => Query!Emitted = {}
<1>1. ASSUME output = <<>> PROVE 1..Len(output) = {}
  BY <1>1
<1> QED
  BY <1>1, Zenon DEF Query!Emitted

\* ExecSkyline before it returns NULL.
LEMMA StepBefore ==
    ASSUME BaseInv, ExecSkyline
    PROVE  /\ done \in BOOLEAN /\ done' \in BOOLEAN /\ plan' = plan
           /\ done => status = "SS_DONE"
           /\ plan.method # "SM_1DIM_DISTINCT" /\ status = "SS_DONE" => done
           /\ done' <=> output' = output /\ status' = "SS_DONE"
           /\ Chosen /\ ~ended
  BY DEF BaseInv, NodeTypes, DoneInv, ExecSkyline

\* A step that returns nothing.
LEMMA QuietStep ==
    ASSUME BaseInv, ExecSkyline, UNCHANGED <<node, input, output>>,
           status # "SS_DONE", status' # "SS_DONE"
    PROVE  QueryStep
<1>1. done = FALSE /\ done' = FALSE
  BY StepBefore
<1> QED
  BY <1>1 DEF QueryStep

\* A step that returns the tuple x.
LEMMA EmitStep ==
    ASSUME BaseInv, ExecSkyline, NEW x, UNCHANGED <<node, input>>, output' = Append(output, x),
           x \in 1..Len(input), Query!MayEmit(x), status # "SS_DONE"
    PROVE  QueryStep
<1>1. output \in Seq(Int)
  BY MethodFrame
<1>2. output' # output
  BY <1>1
<1>3. done = FALSE /\ done' = FALSE
  BY <1>2, StepBefore
<1> QED
  BY <1>3, QueryEmits DEF QueryStep, Query!Ids

\* A step that returns NULL.
LEMMA NullStep ==
    ASSUME BaseInv, ExecSkyline, UNCHANGED <<node, input, output>>, ~done,
           status' = "SS_DONE", \A i \in 1..Len(input) : ~Query!MayEmit(i)
    PROVE  QueryStep
<1>1. done = FALSE /\ done' = TRUE
  BY StepBefore
<1> QED
  BY <1>1, QueryFinishes DEF QueryStep, Query!Ids

\* One that returns NULL again.
LEMMA NullAgainStep ==
    ASSUME BaseInv, ExecSkyline, UNCHANGED <<node, input, output>>, done, status' = "SS_DONE"
    PROVE  QueryStep
<1>1. done = TRUE /\ done' = TRUE
  BY StepBefore
<1> QED
  BY <1>1 DEF QueryStep

-----------------------------------------------------------------------------
(* ExecSkyline_1Dim. *)

\* ExecSkyline_1Dim keeps what it has decided about the tuples read, and a step
\* of it is one the query takes or changes nothing it sees.
LEMMA OneDimQueryStep ==
    ASSUME BaseInv, QueryInv, WellPlanned(plan), ExecSkyline, Run1Dim
    PROVE  OneDimQuery' /\ QueryStep
<1> DEFINE cmp(d, i) == ApplyCompare(node.cols[1], d, input[i][1])
           n == outerPos + 1
<1>1. /\ plan.method = "SM_1DIM" /\ Dim1!Next /\ ~ended
      /\ Chosen /\ node = plan.node /\ Ordered(node, 1) /\ ~node.skyline_distinct
      /\ done => status = "SS_DONE"
      /\ status = "SS_DONE" => done
  BY StepBefore DEF Run1Dim, WellPlanned, ExecSkyline, Chosen
<1>2. /\ Len(input) \in Nat /\ outerPos \in Nat /\ outerPos <= Len(input)
      /\ output \in Seq(Int) /\ store \in Stores(Int) /\ store.pos \in Nat
  BY MethodFrame DEF Stores
<1>3. /\ inLoop => status = "SS_INIT"
      /\ status = "SS_INIT" => output = <<>>
      /\ status = "SS_INIT" /\ ~inLoop => outerPos = 0
  BY <1>1 DEF BaseInv, NodeInv, PhaseInv
<1>4. inLoop \/ status = "SS_PIPEOUT" =>
        /\ \A m \in 1..Len(store.tuples) : store.tuples[m] \in 1..outerPos
        /\ store.pos \in 0..Len(store.tuples)
        /\ inLoop => ~store.eof
        /\ \A k \in 1..Len(output), m \in store.pos+1..Len(store.tuples) :
             output[k] < store.tuples[m]
  BY <1>1, Zenon DEF BaseInv, NodeInv, OneDimInv
<1>5. /\ inLoop /\ first => outerPos = 0 /\ Unread = {}
      /\ inLoop /\ ~first =>
           /\ \E j \in 1..outerPos : datum = input[j][1]
           /\ \A i \in 1..outerPos : cmp(datum, i) <= 0 /\ (i \in Unread <=> cmp(datum, i) = 0)
      /\ status = "SS_PIPEOUT" =>
           /\ \A i \in Unread : Query!InSkyline(i)
           /\ \A i \in Query!Ids : Query!MayEmit(i) => i \in Unread
  BY <1>1, Zenon DEF QueryInv, OneDimQuery
\* What is left in the store has been read.
<1>6. inLoop \/ status = "SS_PIPEOUT" => Unread \subseteq 1..outerPos
  <2> SUFFICES ASSUME inLoop \/ status = "SS_PIPEOUT",
                      NEW m \in store.pos+1..Len(store.tuples)
               PROVE  store.tuples[m] \in 1..outerPos
    BY Zenon DEF Unread, Left
  <2>1. m \in 1..Len(store.tuples)
    BY <1>2
  <2> QED
    BY <1>4, <2>1
<1>7. 1 \in Columns(node) /\ node.cols[1] \in Column
  BY <1>1, ChosenTypes DEF Ordered, PlanNode, Columns
\* A turn of the loop.
<1>8. ASSUME inLoop, outerPos < Len(input), outerPos' = n,
             UNCHANGED <<node, input, status, inLoop, output>>, ~first',
             \E j \in 1..n : datum' = input[j][1],
             \A i \in 1..n : cmp(datum', i) <= 0 /\ (i \in Unread' <=> cmp(datum', i) = 0)
      PROVE  OneDimQuery' /\ QueryStep
  <2>1. status = "SS_INIT" /\ status' = "SS_INIT"
    BY <1>3, <1>8
  <2>2. QueryStep
    BY <1>8, <2>1, QuietStep
  <2>3. OneDimQuery'
    BY <1>8, <2>1, Zenon DEF OneDimQuery
  <2> QED
    BY <2>2, <2>3
\* The tuple read is a row of the table.
<1>9. ASSUME outerPos < Len(input)
      PROVE  /\ n \in 1..Len(input) /\ input[n][1] \in Datum /\ cmp(input[n][1], n) = 0
             /\ 1..n = (1..outerPos) \cup {n} /\ n \notin 1..outerPos
             /\ \A i \in 1..n : input[i][1] \in Datum
  <2>1. n \in 1..Len(input) /\ 1..n = (1..outerPos) \cup {n} /\ n \notin 1..outerPos
    BY <1>2, <1>9
  <2>2. \A i \in 1..n : i \in 1..Len(input)
    BY <1>2, <1>9
  <2>3. \A i \in 1..n : input[i][1] \in Datum
    BY <1>1, <1>7, <2>2, Rows
  <2>4. input[n][1] \in Datum
    BY <2>1, <2>3
  <2>5. cmp(input[n][1], n) = 0
    BY <1>7, <2>4, CompareAntisymmetric
  <2> QED
    BY <2>1, <2>3, <2>4, <2>5
<1>10. CASE Dim1!FetchFirst
  <2>1. /\ inLoop /\ first /\ outerPos < Len(input) /\ outerPos' = n /\ ~first'
        /\ UNCHANGED <<node, input, status, inLoop, output>> /\ datum' = input[n][1]
        /\ store' = tuplestore_puttupleslot(store, n)
    BY <1>10 DEF Dim1!FetchFirst, Dim1!Fetch, Dim1!NewDatum, Dim1!tuplestore_puttupleslot,
       tuplestore_puttupleslot
  <2>2. Unread' = Unread \cup {n}
    <3>1. n \in Int /\ ~store.eof /\ store.pos \in 0..Len(store.tuples)
      BY <1>2, <1>4, <2>1
    <3>2. Left(tuplestore_puttupleslot(store, n)) = Left(store) \cup {n}
      BY <1>2, <3>1, LeftPut
    <3> QED
      BY <2>1, <3>2 DEF Unread, Left
  <2>3. outerPos = 0 /\ Unread = {}
    BY <1>5, <2>1, Zenon
  <2>4. n = 1 /\ 1..n = {n}
    BY <2>3
  <2>5. \A i \in 1..n : cmp(datum', i) <= 0 /\ (i \in Unread' <=> cmp(datum', i) = 0)
    BY <1>9, <2>1, <2>2, <2>3, <2>4
  <2>6. n \in 1..n
    BY <2>4
  <2> QED
    BY <1>8, <2>1, <2>5, <2>6
<1>11. CASE Dim1!FetchEqual
  <2>1. /\ inLoop /\ ~first /\ outerPos < Len(input) /\ outerPos' = n /\ ~first'
        /\ UNCHANGED <<node, input, status, inLoop, output>> /\ datum' = datum
        /\ store' = tuplestore_puttupleslot(store, n)
    BY <1>11 DEF Dim1!FetchEqual, Dim1!Fetch, Dim1!tuplestore_puttupleslot,
       tuplestore_puttupleslot
  <2>2. cmp(datum, n) = 0
    BY <1>11, SameCompare DEF Dim1!FetchEqual, Dim1!Cmp, Dim1!NewDatum
  <2>3. Unread' = Unread \cup {n}
    <3>1. n \in Int /\ ~store.eof /\ store.pos \in 0..Len(store.tuples)
      BY <1>2, <1>4, <2>1
    <3>2. Left(tuplestore_puttupleslot(store, n)) = Left(store) \cup {n}
      BY <1>2, <3>1, LeftPut
    <3> QED
      BY <2>1, <3>2 DEF Unread, Left
  <2>4. /\ \E j \in 1..outerPos : datum = input[j][1]
        /\ \A i \in 1..outerPos : cmp(datum, i) <= 0 /\ (i \in Unread <=> cmp(datum, i) = 0)
    BY <1>5, <2>1, Zenon
  <2>5. 0 <= 0 /\ 1..n = (1..outerPos) \cup {n} /\ n \notin 1..outerPos
    BY <1>9, <2>1
  <2>6. \A i \in 1..n : cmp(datum', i) <= 0 /\ (i \in Unread' <=> cmp(datum', i) = 0)
    BY <2>1, <2>2, <2>3, <2>4, <2>5
  <2>7. \E j \in 1..n : datum' = input[j][1]
    BY <2>1, <2>4, <2>5, Zenon
  <2> QED
    BY <1>8, <2>1, <2>6, <2>7
<1>12. CASE Dim1!FetchBetter
  <2> DEFINE base == tuplestore_catchup(store)
  <2>1. /\ inLoop /\ ~first /\ outerPos < Len(input) /\ outerPos' = n /\ ~first'
        /\ UNCHANGED <<node, input, status, inLoop, output>> /\ datum' = input[n][1]
        /\ store' = tuplestore_puttupleslot(base, n)
    BY <1>12 DEF Dim1!FetchBetter, Dim1!Fetch, Dim1!NewDatum, Dim1!tuplestore_puttupleslot,
       tuplestore_puttupleslot, Dim1!tuplestore_catchup, tuplestore_catchup, Dim1!NoMark, NoMark
  <2>2. cmp(datum, n) > 0
    BY <1>12, SameCompare DEF Dim1!FetchBetter, Dim1!Cmp, Dim1!NewDatum
  <2>3. Unread' = {n}
    <3>a. base \in Stores(Int) /\ Left(base) = {}
      BY <1>2, CatchUpStore, LeftCatchUp
    <3>b. base.tuples = store.tuples /\ base.pos = Len(store.tuples) /\ ~base.eof
      BY <1>2 DEF tuplestore_catchup, Stores
    <3>c. Len(store.tuples) \in Nat
      BY <1>2 DEF Stores
    <3>1. base.pos \in 0..Len(base.tuples)
      BY <3>b, <3>c
    <3>2. n \in Int
      BY <1>2
    <3>3. Left(tuplestore_puttupleslot(base, n)) = Left(base) \cup {n}
      BY <3>a, <3>b, <3>1, <3>2, LeftPut
    <3> QED
      BY <2>1, <3>a, <3>3 DEF Unread, Left
  <2>4. /\ \E j \in 1..outerPos : datum = input[j][1]
        /\ \A i \in 1..outerPos : cmp(datum, i) <= 0
    BY <1>5, <2>1, Zenon
  <2>5. /\ 1..n = (1..outerPos) \cup {n} /\ n \notin 1..outerPos /\ cmp(input[n][1], n) = 0
        /\ \A i \in 1..n : input[i][1] \in Datum
    BY <1>9, <2>1
  <2>6. datum \in Datum /\ datum' \in Datum
    BY <2>1, <2>4, <2>5
  <2>7. cmp(datum', n) = 0 /\ ApplyCompare(node.cols[1], datum', datum) < 0
    <3>1. cmp(datum, n) = ApplyCompare(node.cols[1], datum, datum')
      BY <2>1
    <3>2. ApplyCompare(node.cols[1], datum', datum) = -ApplyCompare(node.cols[1], datum, datum')
      BY <1>7, <2>6, CompareAntisymmetric
    <3>3. ApplyCompare(node.cols[1], datum, datum') \in {-1, 0, 1}
      BY <1>7, <2>6, CompareAntisymmetric
    <3> QED
      BY <2>1, <2>2, <2>5, <3>1, <3>2, <3>3
  <2>8. ASSUME NEW i \in 1..outerPos
        PROVE  cmp(datum', i) < 0
    <3>1. input[i][1] \in Datum /\ cmp(datum, i) <= 0
      BY <2>4, <2>5
    <3>2. ApplyCompare(node.cols[1], datum', datum) <= 0
      BY <2>6, <1>7, <2>7, CompareAntisymmetric
    <3> QED
      BY <1>7, <2>6, <2>7, <3>1, <3>2, CompareTransitive
  <2>9. \A i \in 1..n : cmp(datum', i) <= 0 /\ (i \in Unread' <=> cmp(datum', i) = 0)
    <3>1. ASSUME NEW i \in 1..outerPos
          PROVE  cmp(datum', i) <= 0 /\ cmp(datum', i) # 0 /\ i # n
      <4>1. cmp(datum', i) \in {-1, 0, 1}
        BY <1>7, <2>5, <2>6, CompareAntisymmetric
      <4> QED
        BY <2>5, <2>8, <4>1
    <3>2. cmp(datum', n) <= 0
      BY <2>7
    <3> QED
      BY <2>3, <2>5, <2>7, <3>1, <3>2, Zenon
  <2>10. n \in 1..n
    BY <2>5
  <2> QED
    BY <1>8, <2>1, <2>9, <2>10
<1>13. CASE Dim1!FetchWorse
  <2>1. /\ inLoop /\ ~first /\ outerPos < Len(input) /\ outerPos' = n /\ ~first'
        /\ UNCHANGED <<node, input, status, inLoop, output>> /\ datum' = datum
        /\ store' = store
    BY <1>13 DEF Dim1!FetchWorse, Dim1!Fetch
  <2>2. cmp(datum, n) < 0
    BY <1>13, SameCompare DEF Dim1!FetchWorse, Dim1!Cmp, Dim1!NewDatum
  <2>3. Unread' = Unread
    BY <2>1 DEF Unread, Left
  <2>4. /\ \E j \in 1..outerPos : datum = input[j][1]
        /\ \A i \in 1..outerPos : cmp(datum, i) <= 0 /\ (i \in Unread <=> cmp(datum, i) = 0)
    BY <1>5, <2>1, Zenon
  <2>5. 1..n = (1..outerPos) \cup {n} /\ n \notin 1..outerPos /\ n \notin Unread
    BY <1>6, <1>9, <2>1
  <2>a. datum \in Datum
    BY <1>9, <2>1, <2>4, <2>5
  <2>b. cmp(datum, n) <= 0 /\ cmp(datum, n) # 0
    <3>1. cmp(datum, n) \in {-1, 0, 1}
      BY <1>7, <1>9, <2>1, <2>a, CompareAntisymmetric
    <3> QED
      BY <2>2, <3>1
  <2>6. \A i \in 1..n : cmp(datum', i) <= 0 /\ (i \in Unread' <=> cmp(datum', i) = 0)
    BY <2>1, <2>b, <2>3, <2>4, <2>5, Zenon
  <2>7. \E j \in 1..n : datum' = input[j][1]
    BY <2>1, <2>4, <2>5, Zenon
  <2> QED
    BY <1>8, <2>1, <2>6, <2>7
<1>14. CASE Dim1!Start
  <2>1. /\ status = "SS_INIT" /\ ~inLoop /\ inLoop' /\ first' /\ status' = "SS_INIT"
        /\ store' = tuplestore_begin(FALSE) /\ UNCHANGED <<node, input, outerPos, output>>
    BY <1>14 DEF Dim1!Start, Dim1!tuplestore_begin, tuplestore_begin
  <2>2. Unread' = {}
    BY <2>1, LeftBegin DEF Unread, Left
  <2>3. outerPos' = 0
    BY <1>3, <2>1
  <2>4. QueryStep
    BY <2>1, QuietStep
  <2> QED
    BY <2>1, <2>2, <2>3, <2>4 DEF OneDimQuery
<1>15. CASE Dim1!EndOfInput
  <2>1. /\ inLoop /\ outerPos = Len(input) /\ ~inLoop' /\ status' = "SS_PIPEOUT"
        /\ UNCHANGED <<node, input, store, output>>
    BY <1>15 DEF Dim1!EndOfInput
  <2>2. QueryStep
    <3>1. status = "SS_INIT"
      BY <1>3, <2>1
    <3> QED
      BY <2>1, <3>1, QuietStep
  <2>3. \A i \in 1..Len(input) : Query!InSkyline(i) <=> i \in Unread
    <3>1. CASE first
      <4>1. 1..Len(input) = {}
        BY <1>5, <2>1, <3>1
      <4> QED
        BY <4>1
    <3>2. CASE ~first
      <4>1. /\ \E j \in 1..Len(input) : datum = input[j][1]
            /\ \A i \in 1..Len(input) : cmp(datum, i) <= 0 /\ (i \in Unread <=> cmp(datum, i) = 0)
        BY <1>5, <2>1, <3>2, Zenon
      <4>2. \A i \in 1..Len(input) : Query!InSkyline(i) <=> cmp(datum, i) = 0
        BY <1>1, <4>1, BestValue
      <4> QED
        BY <4>1, <4>2, Zenon
    <3> QED
      BY <3>1, <3>2
  <2>4. Unread' = Unread /\ Unread \subseteq 1..Len(input)
    BY <1>6, <2>1 DEF Unread, Left
  <2>5. /\ \A i \in Unread' : Query!InSkyline(i)'
        /\ \A i \in Query!Ids' : Query!MayEmit(i)' => i \in Unread'
    <3>1. \A i : Query!InSkyline(i)' <=> Query!InSkyline(i)
      BY <2>1, MayEmitSame
    <3>2. \A i : Query!MayEmit(i)' <=> Query!MayEmit(i)
      BY <2>1, MayEmitSame
    <3>3. Query!Ids' = 1..Len(input)
      BY <2>1 DEF Query!Ids
    <3> QED
      BY <2>3, <2>4, <3>1, <3>2, <3>3, QueryExpanded, Zenon
  <2>6. OneDimQuery'
    BY <2>1, <2>5, Zenon DEF OneDimQuery
  <2> QED
    BY <2>2, <2>6
<1>16. CASE Dim1!PipeOut
  <2> DEFINE x == NextTuple(store)
  <2>1. /\ status = "SS_PIPEOUT" /\ status' = status /\ inLoop' = inLoop /\ HasNext(store)
        /\ output' = Append(output, x) /\ store' = tuplestore_gettupleslot(store)
        /\ UNCHANGED <<node, input>>
    BY <1>16 DEF Dim1!PipeOut, Dim1!HasNext, HasNext, Dim1!NextTuple, NextTuple,
       Dim1!tuplestore_gettupleslot, tuplestore_gettupleslot
  <2>2. ~inLoop /\ ~inLoop'
    BY <1>3, <2>1
  <2>3. Unread = Unread' \cup {x}
    <3>1. Left(store) = Left(tuplestore_gettupleslot(store)) \cup {x}
      BY <1>2, <2>1, LeftGet
    <3> QED
      BY <2>1, <3>1 DEF Unread, Left
  <2>4. x \in 1..Len(input) /\ Query!InSkyline(x)
    BY <1>2, <1>5, <1>6, <2>1, <2>3
  <2>5. x \notin Query!Emitted
    <3>1. store.pos+1 \in store.pos+1..Len(store.tuples)
      BY <1>2, <2>1 DEF HasNext, Stores
    <3>2. \A k \in 1..Len(output) : output[k] < x
      BY <1>4, <2>1, <3>1 DEF NextTuple
    <3>3. \A k \in 1..Len(output) : output[k] # x
      BY <1>2, <2>4, <3>2
    <3> QED
      BY <3>3, Zenon DEF Query!Emitted
  <2>6. Query!MayEmit(x)
    <3>1. Query!Emitted \subseteq Query!Ids
      BY <1>1 DEF QueryInv, EmittedIds
    <3> QED
      BY <1>1, <2>4, <2>5, <3>1, MayEmitSkyline
  <2>7. QueryStep
    BY <2>1, <2>4, <2>6, EmitStep
  <2>8. /\ \A i : Query!InSkyline(i)' <=> Query!InSkyline(i)
        /\ \A i : Query!MayEmit(i)' => Query!MayEmit(i) /\ i # x
    BY <1>2, <2>1, MayEmitShrinks
  <2>9. /\ \A i \in Unread' : Query!InSkyline(i)'
        /\ \A i \in Query!Ids' : Query!MayEmit(i)' => i \in Unread'
    <3>1. /\ \A i \in Unread : Query!InSkyline(i)
          /\ \A i \in Query!Ids : Query!MayEmit(i) => i \in Unread
      BY <1>5, <2>1, Zenon
    <3>2. Query!Ids' = Query!Ids
      BY <2>1 DEF Query!Ids
    <3> QED
      BY <2>3, <2>8, <3>1, <3>2, Zenon
  <2>10. OneDimQuery'
    BY <2>2, <2>9, Zenon DEF OneDimQuery
  <2> QED
    BY <2>7, <2>10
<1>17. CASE Dim1!PipeOutEnd
  <2>1. /\ status = "SS_PIPEOUT" /\ status' = "SS_DONE" /\ inLoop' = inLoop /\ ~HasNext(store)
        /\ UNCHANGED <<node, input, output>>
    BY <1>17 DEF Dim1!PipeOutEnd, Dim1!HasNext, HasNext
  <2>2. ~inLoop'
    BY <1>3, <2>1
  <2>3. Unread = {}
    BY <1>2, <2>1, LeftEmpty DEF Unread
  <2>4. \A i \in 1..Len(input) : ~Query!MayEmit(i)
    BY <1>5, <2>1, <2>3 DEF Query!Ids
  <2>5. QueryStep
    BY <1>1, <2>1, <2>4, NullStep
  <2>6. OneDimQuery'
    BY <2>1, <2>2, Zenon DEF OneDimQuery
  <2> QED
    BY <2>5, <2>6
<1>18. CASE Dim1!ReturnNull
  <2>1. /\ status = "SS_DONE" /\ status' = "SS_DONE" /\ inLoop' = inLoop
        /\ UNCHANGED <<node, input, output>>
    BY <1>18 DEF Dim1!ReturnNull, Dim1!vars
  <2>2. ~inLoop'
    BY <1>3, <2>1
  <2>3. QueryStep
    BY <1>1, <2>1, NullAgainStep
  <2>4. OneDimQuery'
    BY <2>1, <2>2, Zenon DEF OneDimQuery
  <2> QED
    BY <2>3, <2>4
<1> QED
  BY <1>1, <1>10, <1>11, <1>12, <1>13, <1>14, <1>15, <1>16, <1>17, <1>18, Zenon DEF Dim1!Next

-----------------------------------------------------------------------------
(* ExecSkyline_1DimDistinct. *)

\* So does ExecSkyline_1DimDistinct.
LEMMA OneDimDistinctQueryStep ==
    ASSUME BaseInv, QueryInv, WellPlanned(plan), ExecSkyline, Run1DimDistinct
    PROVE  OneDimDistinctQuery' /\ QueryStep
<1> DEFINE cmp(d, i) == ApplyCompare(node.cols[1], d, input[i][1])
           n == outerPos + 1
<1>1. /\ plan.method = "SM_1DIM_DISTINCT" /\ Distinct!Next /\ plan' = plan
      /\ Chosen /\ node = plan.node /\ Ordered(node, 1) /\ node.skyline_distinct
      /\ done => status = "SS_DONE"
  BY StepBefore DEF Run1DimDistinct, WellPlanned, ExecSkyline, Chosen
<1>2. /\ Len(input) \in Nat /\ outerPos \in Nat /\ outerPos <= Len(input)
      /\ output \in Seq(Int)
  BY MethodFrame
<1>3. /\ inLoop => status = "SS_INIT"
      /\ status = "SS_INIT" => output = <<>>
      /\ status = "SS_INIT" /\ ~inLoop => outerPos = 0
  BY <1>1 DEF BaseInv, NodeInv, PhaseInv
<1>4. /\ status = "SS_INIT" /\ ~inLoop => resultSlot = 0
      /\ inLoop =>
           /\ resultSlot = 0 => outerPos = 0
           /\ resultSlot # 0 =>
                /\ resultSlot \in 1..outerPos
                /\ datum = input[resultSlot][1]
                /\ \A i \in 1..outerPos : cmp(datum, i) <= 0
      /\ status = "SS_DONE" => \A i \in Query!Ids : ~Query!MayEmit(i)
  BY <1>1, Zenon DEF QueryInv, OneDimDistinctQuery
<1>5. 1 \in Columns(node) /\ node.cols[1] \in Column
  BY <1>1, ChosenTypes DEF Ordered, PlanNode, Columns
<1>6. \A i \in 1..Len(input) : input[i][1] \in Datum
  BY <1>1, <1>5, Rows
<1>7. CASE Distinct!Start
  <2>1. /\ status = "SS_INIT" /\ status' = "SS_INIT" /\ ~inLoop /\ inLoop'
        /\ UNCHANGED <<node, input, outerPos, output, resultSlot>>
    BY <1>7 DEF Distinct!Start
  <2>2. outerPos' = 0 /\ resultSlot' = 0
    BY <1>3, <1>4, <2>1, Zenon
  <2>3. QueryStep
    BY <2>1, QuietStep
  <2>4. OneDimDistinctQuery'
    BY <2>1, <2>2 DEF OneDimDistinctQuery
  <2> QED
    BY <2>3, <2>4
<1>8. CASE Distinct!Fetch
  <2>1. /\ inLoop /\ outerPos < Len(input) /\ outerPos' = n
        /\ UNCHANGED <<node, input, status, inLoop, output>> /\ status = "SS_INIT"
    BY <1>3, <1>8 DEF Distinct!Fetch
  <2>2. \/ /\ resultSlot = 0 \/ cmp(datum, n) > 0
           /\ resultSlot' = n /\ datum' = input[n][1]
        \/ /\ resultSlot # 0 /\ ~(cmp(datum, n) > 0)
           /\ resultSlot' = resultSlot /\ datum' = datum
    BY <1>8, SameCompare DEF Distinct!Fetch, Distinct!Better, Distinct!Cmp, Distinct!NewDatum
  <2>3. QueryStep
    BY <2>1, QuietStep
  <2>4. /\ n \in 1..Len(input) /\ 1..n = (1..outerPos) \cup {n} /\ n \in 1..n /\ n # 0
        /\ \A i \in 1..outerPos : i \in 1..Len(input)
    BY <1>2, <2>1
  <2>5. cmp(input[n][1], n) = 0 /\ input[n][1] \in Datum
    BY <1>5, <1>6, <2>4, CompareAntisymmetric
  <2>6. /\ resultSlot' # 0 /\ resultSlot' \in 1..n /\ datum' = input[resultSlot'][1]
        /\ \A i \in 1..n : cmp(datum', i) <= 0
    <3>1. CASE resultSlot = 0 /\ resultSlot' = n /\ datum' = input[n][1]
      <4>1. n = 1 /\ 1..n = {n}
        BY <1>4, <2>1, <3>1
      <4> QED
        BY <2>4, <2>5, <3>1, <4>1
    <3>2. CASE resultSlot # 0 /\ cmp(datum, n) > 0 /\ resultSlot' = n /\ datum' = input[n][1]
      <4>1. /\ \A i \in 1..outerPos : cmp(datum, i) <= 0
            /\ resultSlot \in 1..outerPos /\ datum = input[resultSlot][1]
        BY <1>4, <2>1, <3>2, Zenon
      <4>2. datum \in Datum /\ datum' \in Datum
        BY <1>6, <2>4, <2>5, <3>2, <4>1
      <4>3. ApplyCompare(node.cols[1], datum', datum) <= 0
        <5>1. ApplyCompare(node.cols[1], datum', datum) = -ApplyCompare(node.cols[1], datum, datum')
          BY <1>5, <4>2, CompareAntisymmetric
        <5>2. ApplyCompare(node.cols[1], datum, datum') > 0
          BY <3>2
        <5>3. ApplyCompare(node.cols[1], datum, datum') \in {-1, 0, 1}
          BY <1>5, <4>2, CompareAntisymmetric
        <5> QED
          BY <5>1, <5>2, <5>3
      <4>4. ASSUME NEW i \in 1..outerPos PROVE cmp(datum', i) <= 0
        <5>1. input[i][1] \in Datum /\ cmp(datum, i) <= 0
          BY <1>6, <2>4, <4>1
        <5> QED
          BY <1>5, <4>2, <4>3, <5>1, CompareTransitive
      <4>5. cmp(datum', n) <= 0
        BY <2>5, <3>2
      <4> QED
        BY <2>4, <3>2, <4>4, <4>5, Zenon
    <3>3. CASE /\ resultSlot # 0 /\ ~(cmp(datum, n) > 0)
               /\ resultSlot' = resultSlot /\ datum' = datum
      <4>1. /\ \A i \in 1..outerPos : cmp(datum, i) <= 0
            /\ resultSlot \in 1..outerPos /\ datum = input[resultSlot][1]
        BY <1>4, <2>1, <3>3, Zenon
      <4>2. datum \in Datum
        BY <1>6, <2>4, <4>1
      <4>3. cmp(datum, n) \in {-1, 0, 1}
        BY <1>5, <2>5, <4>2, CompareAntisymmetric
      <4>4. cmp(datum, n) <= 0
        BY <3>3, <4>3
      <4> QED
        BY <2>4, <3>3, <4>1, <4>4, Zenon
    <3> QED
      BY <2>2, <3>1, <3>2, <3>3, Zenon
  <2>7. OneDimDistinctQuery'
    BY <2>1, <2>6, Zenon DEF OneDimDistinctQuery
  <2> QED
    BY <2>3, <2>7
<1>9. CASE Distinct!EndOfInput
  <2>1. /\ inLoop /\ outerPos = Len(input) /\ ~inLoop' /\ status' = "SS_DONE"
        /\ output' = (IF resultSlot = 0 THEN output ELSE Append(output, resultSlot))
        /\ UNCHANGED <<node, input>> /\ output = <<>> /\ status = "SS_INIT" /\ ~done
    BY <1>1, <1>3, <1>9 DEF Distinct!EndOfInput
  <2>2. Query!Emitted = {}
    BY <2>1, NothingEmitted
  <2>3. CASE resultSlot = 0
    <3>1. output' = output /\ Query!Ids = {} /\ Query!Ids' = {} /\ 1..Len(input) = {}
      BY <1>2, <1>4, <2>1, <2>3 DEF Query!Ids
    <3>2. QueryStep
      BY <2>1, <3>1, NullStep
    <3>3. OneDimDistinctQuery'
      BY <2>1, <3>1 DEF OneDimDistinctQuery
    <3> QED
      BY <3>2, <3>3
  <2>4. CASE resultSlot # 0
    <3> DEFINE x == resultSlot
    <3>1. /\ x \in 1..Len(input) /\ datum = input[x][1] /\ output' = Append(output, x)
          /\ \A i \in 1..Len(input) : cmp(datum, i) <= 0
      BY <1>4, <2>1, <2>4, Zenon
    <3>2. \A i \in 1..Len(input) : Query!InSkyline(i) <=> cmp(datum, i) = 0
      BY <1>1, <3>1, BestValue
    <3>3. cmp(datum, x) = 0
      BY <1>5, <1>6, <3>1, CompareAntisymmetric
    <3>4. Query!MayEmit(x)
      BY <2>2, <3>1, <3>2, <3>3, QueryExpanded
    <3>5. QueryStep
      BY <2>1, <3>1, <3>4, EmitStep
    <3>6. /\ Query!Emitted' = Query!Emitted \cup {x}
          /\ \A i : Query!InSkyline(i)' <=> Query!InSkyline(i)
          /\ \A i : Query!MayEmit(i)' => Query!MayEmit(i) /\ i # x
          /\ \A i : Query!MayEmit(i)' /\ node.skyline_distinct =>
               ~AllEq(node, input[x], input[i])
      BY <1>2, <2>1, <3>1, MayEmitShrinks
    <3>7. ASSUME NEW i \in 1..Len(input), Query!MayEmit(i)'
          PROVE  FALSE
      <4>1. Query!InSkyline(i) /\ i # x
        BY <3>6, <3>7, QueryExpanded
      <4>2. cmp(datum, i) = 0
        BY <3>2, <4>1
      <4>3. AllEq(node, input[x], input[i])
        BY <1>1, <3>1, <4>2, OneColumn
      <4>4. node.skyline_distinct
        BY <1>1
      <4> QED
        BY <3>6, <3>7, <4>3, <4>4
    <3>8. Query!Ids' = 1..Len(input)
      BY <2>1 DEF Query!Ids
    <3>9. OneDimDistinctQuery'
      BY <2>1, <3>7, <3>8, Zenon DEF OneDimDistinctQuery
    <3> QED
      BY <3>5, <3>9
  <2> QED
    BY <2>3, <2>4
<1>10. CASE Distinct!ReturnNull
  <2>1. /\ status = "SS_DONE" /\ status' = "SS_DONE" /\ inLoop' = inLoop
        /\ UNCHANGED <<node, input, output>>
    BY <1>10 DEF Distinct!ReturnNull, Distinct!vars
  <2>2. ~inLoop'
    BY <1>3, <2>1
  <2>3. \A i \in Query!Ids : ~Query!MayEmit(i)
    BY <1>4, <2>1, Zenon
  <2>4. QueryStep
    BY <2>1, <2>3, NullStep, NullAgainStep DEF Query!Ids
  <2>5. \A i \in Query!Ids' : ~Query!MayEmit(i)'
    <3>1. Query!Ids' = Query!Ids /\ \A i : Query!MayEmit(i)' <=> Query!MayEmit(i)
      BY <2>1, MayEmitSame
    <3> QED
      BY <2>3, <3>1, Zenon
  <2>6. OneDimDistinctQuery'
    BY <2>1, <2>2, <2>5, Zenon DEF OneDimDistinctQuery
  <2> QED
    BY <2>4, <2>6
<1> QED
  BY <1>1, <1>7, <1>8, <1>9, <1>10, Zenon DEF Distinct!Next

-----------------------------------------------------------------------------
(* ExecSkyline_2DimPreSort. *)

\* There are at most two columns, and none is DIFF.
Narrow == Ordered(node, 1) \/ Ordered(node, 2)

\* Two rows in terms of their two columns.
LEMMA TwoColumns ==
    ASSUME Chosen, Narrow, NEW c, NEW d, AreColumns(c, d),
           NEW i \in 1..Len(input), NEW j \in 1..Len(input)
    PROVE  /\ Dominates(node, input[i], input[j]) <=>
                /\ Compare(node, c, input[i], input[j]) <= 0
                /\ Compare(node, d, input[i], input[j]) <= 0
                /\ \/ Compare(node, c, input[i], input[j]) < 0
                   \/ Compare(node, d, input[i], input[j]) < 0
           /\ AllEq(node, input[i], input[j]) <=>
                /\ Compare(node, c, input[i], input[j]) = 0
                /\ Compare(node, d, input[i], input[j]) = 0
           /\ Compare(node, c, input[i], input[j]) \in {-1, 0, 1}
           /\ Compare(node, c, input[j], input[i]) = -Compare(node, c, input[i], input[j])
           /\ Compare(node, d, input[i], input[j]) \in {-1, 0, 1}
           /\ Compare(node, d, input[j], input[i]) = -Compare(node, d, input[i], input[j])
<1>1. \A e : e \in Columns(node) <=> e = c \/ e = d
  BY DEF AreColumns
<1>2. node.cols[c].dir # "DIFF" /\ node.cols[d].dir # "DIFF"
  BY <1>1 DEF Narrow, Ordered
<1>3. node \in PlanNode /\ input[i] \in Row(node) /\ input[j] \in Row(node)
  BY Rows
<1>4. /\ ApplyCompare(node.cols[c], input[i][c], input[j][c]) \in {-1, 0, 1}
      /\ ApplyCompare(node.cols[c], input[j][c], input[i][c]) =
           -ApplyCompare(node.cols[c], input[i][c], input[j][c])
  BY <1>1, Rows, CompareAntisymmetric
<1>5. /\ ApplyCompare(node.cols[d], input[i][d], input[j][d]) \in {-1, 0, 1}
      /\ ApplyCompare(node.cols[d], input[j][d], input[i][d]) =
           -ApplyCompare(node.cols[d], input[i][d], input[j][d])
  BY <1>1, Rows, CompareAntisymmetric
<1>6. AllEq(node, input[i], input[j]) <=>
        /\ ApplyCompare(node.cols[c], input[i][c], input[j][c]) = 0
        /\ ApplyCompare(node.cols[d], input[i][d], input[j][d]) = 0
  BY <1>1, <1>3, Outcomes
<1>7. Dominates(node, input[i], input[j]) <=>
        /\ ApplyCompare(node.cols[c], input[i][c], input[j][c]) <= 0
        /\ ApplyCompare(node.cols[d], input[i][d], input[j][d]) <= 0
        /\ \/ ApplyCompare(node.cols[c], input[i][c], input[j][c]) < 0
           \/ ApplyCompare(node.cols[d], input[i][d], input[j][d]) < 0
  BY <1>1, <1>2, <1>3, Outcomes
<1>8. /\ Compare(node, c, input[i], input[j]) = ApplyCompare(node.cols[c], input[i][c], input[j][c])
      /\ Compare(node, c, input[j], input[i]) = ApplyCompare(node.cols[c], input[j][c], input[i][c])
      /\ Compare(node, d, input[i], input[j]) = ApplyCompare(node.cols[d], input[i][d], input[j][d])
      /\ Compare(node, d, input[j], input[i]) = ApplyCompare(node.cols[d], input[j][d], input[i][d])
  BY DEF Compare
<1> QED
  BY <1>4, <1>5, <1>6, <1>7, <1>8

\* The order of a column is transitive.
LEMMA CompareRows ==
    ASSUME Chosen, NEW d \in Columns(node), NEW i \in 1..Len(input),
           NEW j \in 1..Len(input), NEW k \in 1..Len(input),
           Compare(node, d, input[i], input[j]) <= 0,
           Compare(node, d, input[j], input[k]) <= 0
    PROVE  /\ Compare(node, d, input[i], input[k]) <= 0
           /\ Compare(node, d, input[i], input[j]) < 0 \/ Compare(node, d, input[j], input[k]) < 0
                => Compare(node, d, input[i], input[k]) < 0
<1>1. /\ node.cols[d] \in Column
      /\ input[i][d] \in Datum /\ input[j][d] \in Datum /\ input[k][d] \in Datum
  BY Rows
<1> QED
  BY <1>1, CompareTransitive DEF Compare

\* In a sorted table no tuple dominates one before it.
LEMMA SortedNotDominated ==
    ASSUME Chosen, Narrow, NEW c, NEW d, AreColumns(c, d),
           SortedByColumns(node, input, c, d),
           NEW i \in 1..Len(input), NEW j \in 1..Len(input), i <= j
    PROVE  ~Dominates(node, input[j], input[i])
<1>1. CASE i = j
  BY <1>1, Rows, DominanceIrreflexive
<1>2. CASE i < j
  <2>1. \/ Compare(node, c, input[i], input[j]) < 0
        \/ /\ Compare(node, c, input[i], input[j]) = 0
           /\ Compare(node, d, input[i], input[j]) <= 0
    BY <1>2 DEF SortedByColumns
  <2>2. /\ Compare(node, c, input[j], input[i]) = -Compare(node, c, input[i], input[j])
        /\ Compare(node, c, input[i], input[j]) \in {-1, 0, 1}
    BY TwoColumns
  <2>3. /\ Compare(node, d, input[j], input[i]) = -Compare(node, d, input[i], input[j])
        /\ Compare(node, d, input[i], input[j]) \in {-1, 0, 1}
    BY TwoColumns
  <2>4. Dominates(node, input[j], input[i]) =>
          /\ Compare(node, c, input[j], input[i]) <= 0
          /\ Compare(node, d, input[j], input[i]) <= 0
          /\ \/ Compare(node, c, input[j], input[i]) < 0
             \/ Compare(node, d, input[j], input[i]) < 0
    BY TwoColumns
  <2> QED
    BY <2>1, <2>2, <2>3, <2>4
<1> QED
  BY <1>1, <1>2

\* The tuple n against r, returned before it and the best in column d so far.
LEMMA PresortCompare ==
    ASSUME Chosen, Narrow, NEW c, NEW d, AreColumns(c, d),
           SortedByColumns(node, input, c, d),
           NEW n \in 1..Len(input), NEW r \in 1..Len(input), r < n, Query!InSkyline(r),
           \A i \in 1..n-1 : Compare(node, d, input[r], input[i]) <= 0
    PROVE  /\ IsDominating(node, input[n], input[r]) = "INCOMPARABLE" =>
                \A i \in 1..n-1 : Compare(node, d, input[n], input[i]) < 0
           /\ IsDominating(node, input[n], input[r]) # "INCOMPARABLE" =>
                /\ Compare(node, d, input[r], input[n]) <= 0
                /\ Dominates(node, input[r], input[n]) \/ AllEq(node, input[n], input[r])
<1> DEFINE cnr == Compare(node, c, input[n], input[r])
           dnr == Compare(node, d, input[n], input[r])
<1>1. /\ Compare(node, c, input[r], input[n]) = -cnr /\ cnr \in {-1, 0, 1}
      /\ Compare(node, d, input[r], input[n]) = -dnr /\ dnr \in {-1, 0, 1}
  BY TwoColumns
<1>2. cnr > 0 \/ (cnr = 0 /\ dnr >= 0)
  <2>1. \/ Compare(node, c, input[r], input[n]) < 0
        \/ /\ Compare(node, c, input[r], input[n]) = 0
           /\ Compare(node, d, input[r], input[n]) <= 0
    BY DEF SortedByColumns
  <2> QED
    BY <1>1, <2>1
<1>3. /\ AllEq(node, input[n], input[r]) <=> cnr = 0 /\ dnr = 0
      /\ Dominates(node, input[n], input[r]) <=> cnr <= 0 /\ dnr <= 0 /\ (cnr < 0 \/ dnr < 0)
  BY TwoColumns
<1>4. Dominates(node, input[r], input[n]) <=> -cnr <= 0 /\ -dnr <= 0 /\ (-cnr < 0 \/ -dnr < 0)
  BY <1>1, TwoColumns
<1>5. /\ IsDominating(node, input[n], input[r]) \in CmpResults
      /\ IsDominating(node, input[n], input[r]) = "SECOND_DOMINATES" <=>
           Dominates(node, input[r], input[n])
  <2>1. node \in PlanNode /\ input[n] \in Row(node) /\ input[r] \in Row(node)
    BY Rows
  <2> QED
    BY <2>1, Outcomes, DominanceMirror
<1>6. ~Dominates(node, input[n], input[r])
  BY QueryExpanded
<1> HIDE DEF cnr, dnr
<1>7. ASSUME IsDominating(node, input[n], input[r]) = "INCOMPARABLE"
      PROVE  dnr < 0
  <2>1. ~Dominates(node, input[r], input[n]) /\ ~AllEq(node, input[n], input[r])
    BY <1>5, <1>7 DEF AllEq
  <2> QED
    BY <1>1, <1>2, <1>3, <1>4, <2>1
<1>8. ASSUME IsDominating(node, input[n], input[r]) = "INCOMPARABLE", NEW i \in 1..n-1
      PROVE  Compare(node, d, input[n], input[i]) < 0
  <2>1. Compare(node, d, input[n], input[r]) < 0 /\ Compare(node, d, input[n], input[r]) <= 0
    BY <1>1, <1>7, <1>8 DEF dnr
  <2>2. i \in 1..Len(input)
    OBVIOUS
  <2>3. Compare(node, d, input[r], input[i]) <= 0
    OBVIOUS
  <2> QED
    BY <2>1, <2>2, <2>3, CompareRows DEF AreColumns
<1>9. ASSUME IsDominating(node, input[n], input[r]) # "INCOMPARABLE"
      PROVE  Dominates(node, input[r], input[n]) \/ AllEq(node, input[n], input[r])
  BY <1>5, <1>6, <1>9 DEF CmpResults, Dominates, AllEq
<1>10. ASSUME IsDominating(node, input[n], input[r]) # "INCOMPARABLE"
       PROVE  Compare(node, d, input[r], input[n]) <= 0
  BY <1>1, <1>3, <1>4, <1>9, <1>10
<1> QED
  BY <1>8, <1>9, <1>10

\* The first tuple of a sorted input is in the skyline, and of the others those
\* that improve on the best value in the second column.
LEMMA PresortQueryStep ==
    ASSUME BaseInv, QueryInv, WellPlanned(plan), ExecSkyline, Run2DimPreSort
    PROVE  PresortQuery' /\ QueryStep
<1> DEFINE n == outerPos + 1
           r == resultSlot
           Sorted(c, d) == AreColumns(c, d) /\ SortedByColumns(node, input, c, d)
<1>1. /\ plan.method = "SM_2DIM_PRESORT" /\ Presort!Next /\ ~ended
      /\ Chosen /\ node = plan.node /\ Narrow
      /\ done => status = "SS_DONE"
      /\ status = "SS_DONE" => done
  BY StepBefore DEF Run2DimPreSort, WellPlanned, ExecSkyline, Chosen, Narrow
<1>2. /\ Len(input) \in Nat /\ outerPos \in Nat /\ outerPos <= Len(input)
      /\ output \in Seq(Int)
  BY MethodFrame
<1>3. /\ status = "SS_INIT" => output = <<>> /\ outerPos = 0
      /\ \A k \in 1..Len(output) : output[k] <= outerPos
  <2>1. ~inLoop
    BY <1>1, MethodFrame
  <2> QED
    BY <1>1, <2>1 DEF BaseInv, NodeInv, PhaseInv, OutputInv
<1>4. status = "SS_PROCESS" =>
        /\ r \in 1..outerPos
        /\ r \in Query!Emitted /\ Query!InSkyline(r)
        /\ \A c, d \in 1..2 : Sorted(c, d) =>
             \A i \in 1..outerPos : Compare(node, d, input[r], input[i]) <= 0
        /\ \A i \in 1..outerPos : ~Query!MayEmit(i)
  BY <1>1, Zenon DEF QueryInv, PresortQuery
<1>5. PICK c0 \in 1..2, d0 \in 1..2 : Sorted(c0, d0)
  <2>1. PICK m \in {1, 2} : /\ Ordered(node, m)
                            /\ \/ SortedByColumns(node, input, 1, m)
                               \/ SortedByColumns(node, input, m, 1)
    BY <1>1 DEF WellPlanned, Chosen
  <2>2. Columns(node) = {1, m} /\ {1, m} = {m, 1} /\ 1 \in 1..2 /\ m \in 1..2
    BY <2>1 DEF Ordered
  <2> QED
    BY <2>1, <2>2, Zenon DEF AreColumns
<1>6. Query!Emitted \subseteq 1..Len(input) /\ n \notin Query!Emitted
  <2>1. Query!Emitted \subseteq 1..Len(input)
    BY <1>1 DEF QueryInv, EmittedIds, Query!Ids
  <2>2. \A k \in 1..Len(output) : output[k] # n
    BY <1>2, <1>3
  <2> QED
    BY <2>1, <2>2, Zenon DEF Query!Emitted
\* The tuple read is returned.
<1>7. ASSUME outerPos < Len(input), outerPos' = n, resultSlot' = n,
             output' = Append(output, n), UNCHANGED <<node, input>>,
             status # "SS_DONE", Query!InSkyline(n), Query!MayEmit(n),
             \A i \in 1..outerPos : ~Query!MayEmit(i),
             \A c, d \in 1..2 : Sorted(c, d) =>
               \A i \in 1..n : Compare(node, d, input[n], input[i]) <= 0
      PROVE  PresortQuery' /\ QueryStep
  <2>1. n \in 1..Len(input) /\ n \in 1..n /\ \A i \in 1..n : i \in 1..outerPos \/ i = n
    BY <1>2, <1>7
  <2>2. QueryStep
    BY <1>7, <2>1, EmitStep
  <2>3. /\ Query!Emitted' = Query!Emitted \cup {n}
        /\ \A i : Query!InSkyline(i)' <=> Query!InSkyline(i)
        /\ \A i : Query!MayEmit(i)' => Query!MayEmit(i) /\ i # n
    BY <1>2, <1>7, MayEmitShrinks
  <2>4. \A i \in 1..n : ~Query!MayEmit(i)'
    BY <1>7, <2>1, <2>3, Zenon
  <2>5. n \in Query!Emitted' /\ Query!InSkyline(n)
    BY <1>7, <2>3, Zenon
  <2>6. Query!InSkyline(resultSlot)'
    BY <1>7 DEF Query!InSkyline, Query!Ids
  <2>7. PresortQuery'
    BY <1>7, <2>1, <2>4, <2>5, <2>6, Zenon DEF PresortQuery, AreColumns
  <2> QED
    BY <2>2, <2>7
<1>8. CASE Presort!ReturnFirst
  <2>1. /\ status = "SS_INIT" /\ outerPos < Len(input) /\ outerPos' = n /\ resultSlot' = n
        /\ output' = Append(output, n) /\ UNCHANGED <<node, input>> /\ status' = "SS_PROCESS"
    BY <1>8 DEF Presort!ReturnFirst, Presort!FetchAndReturn
  <2>2. outerPos = 0 /\ n = 1 /\ 1..n = {n} /\ Query!Emitted = {} /\ n \in 1..Len(input)
    BY <1>2, <1>3, <2>1, NothingEmitted
  <2>3. Query!InSkyline(n)
    <3>1. \A j \in 1..Len(input) : ~Dominates(node, input[j], input[n])
      BY <1>1, <1>5, <2>2, SortedNotDominated
    <3> QED
      BY <3>1, QueryExpanded
  <2>4. Query!MayEmit(n)
    BY <2>2, <2>3, QueryExpanded
  <2>5. ASSUME NEW c \in 1..2, NEW d \in 1..2, Sorted(c, d), NEW i \in 1..n
        PROVE  Compare(node, d, input[n], input[i]) <= 0
    <3>1. /\ Compare(node, d, input[n], input[n]) \in {-1, 0, 1}
          /\ Compare(node, d, input[n], input[n]) = -Compare(node, d, input[n], input[n])
      BY <1>1, <2>2, <2>5, TwoColumns
    <3>2. i = n
      BY <2>2
    <3> QED
      BY <3>1, <3>2
  <2>6. \A i \in 1..outerPos : ~Query!MayEmit(i)
    BY <2>2
  <2> QED
    BY <1>7, <2>1, <2>3, <2>4, <2>5, <2>6
\* What holds when a tuple is compared with the one returned last.
<1>9. ASSUME status = "SS_PROCESS", outerPos < Len(input)
      PROVE  /\ n \in 1..Len(input) /\ r \in 1..Len(input) /\ r < n
             /\ \A i \in 1..n : i \in 1..outerPos \/ i = n
             /\ IsDominating(node, input[n], input[r]) = "INCOMPARABLE" =>
                  \A c, d \in 1..2 : Sorted(c, d) =>
                    \A i \in 1..outerPos : Compare(node, d, input[n], input[i]) < 0
             /\ IsDominating(node, input[n], input[r]) # "INCOMPARABLE" =>
                  /\ \A c, d \in 1..2 : Sorted(c, d) => Compare(node, d, input[r], input[n]) <= 0
                  /\ Dominates(node, input[r], input[n]) \/ AllEq(node, input[n], input[r])
  <2>1. /\ n \in 1..Len(input) /\ r \in 1..Len(input) /\ r < n /\ n - 1 = outerPos
        /\ \A i \in 1..n : i \in 1..outerPos \/ i = n
    BY <1>2, <1>4, <1>9
  <2>2. ASSUME NEW c \in 1..2, NEW d \in 1..2, Sorted(c, d)
        PROVE  /\ IsDominating(node, input[n], input[r]) = "INCOMPARABLE" =>
                    \A i \in 1..outerPos : Compare(node, d, input[n], input[i]) < 0
               /\ IsDominating(node, input[n], input[r]) # "INCOMPARABLE" =>
                    /\ Compare(node, d, input[r], input[n]) <= 0
                    /\ Dominates(node, input[r], input[n]) \/ AllEq(node, input[n], input[r])
    <3>1. /\ \A i \in 1..outerPos : Compare(node, d, input[r], input[i]) <= 0
          /\ Query!InSkyline(r)
      BY <1>4, <1>9, <2>2, Zenon
    <3>2. \A i \in 1..n-1 : Compare(node, d, input[r], input[i]) <= 0
      BY <2>1, <3>1
    <3>3. AreColumns(c, d) /\ SortedByColumns(node, input, c, d)
      BY <2>2
    <3>4. /\ IsDominating(node, input[n], input[r]) = "INCOMPARABLE" =>
                \A i \in 1..n-1 : Compare(node, d, input[n], input[i]) < 0
          /\ IsDominating(node, input[n], input[r]) # "INCOMPARABLE" =>
                /\ Compare(node, d, input[r], input[n]) <= 0
                /\ Dominates(node, input[r], input[n]) \/ AllEq(node, input[n], input[r])
      BY <1>1, <2>1, <3>1, <3>2, <3>3, PresortCompare
    <3> QED
      BY <2>1, <3>4
  <2> HIDE DEF n, r, Sorted
  <2> QED
    BY <1>5, <2>1, <2>2, Zenon
<1>10. CASE Presort!Return
  <2>1. /\ status = "SS_PROCESS" /\ outerPos < Len(input) /\ outerPos' = n /\ resultSlot' = n
        /\ output' = Append(output, n) /\ UNCHANGED <<node, input>>
    BY <1>10 DEF Presort!Return, Presort!FetchAndReturn
  <2>2. \/ IsDominating(node, input[n], input[r]) = "INCOMPARABLE"
        \/ IsDominating(node, input[n], input[r]) = "ALL_EQ" /\ ~node.skyline_distinct
    BY <1>10, SameCompare DEF Presort!Return, Presort!InSkyline, Presort!Cmp
  <2>3. /\ n \in 1..Len(input) /\ r \in 1..Len(input) /\ r < n
        /\ \A i \in 1..n : i \in 1..outerPos \/ i = n
    BY <1>9, <2>1
  <2>4. /\ Query!InSkyline(n)
        /\ \A k \in 1..outerPos : node.skyline_distinct => ~AllEq(node, input[k], input[n])
        /\ \A c, d \in 1..2 : Sorted(c, d) =>
             \A i \in 1..outerPos : Compare(node, d, input[n], input[i]) <= 0
    <3>1. CASE IsDominating(node, input[n], input[r]) = "INCOMPARABLE"
      <4>1. \A c, d \in 1..2 : Sorted(c, d) =>
              \A i \in 1..outerPos : Compare(node, d, input[n], input[i]) < 0
        BY <1>9, <2>1, <3>1, Zenon
      <4>2. ASSUME NEW k \in 1..outerPos
            PROVE  ~Dominates(node, input[k], input[n]) /\ ~AllEq(node, input[k], input[n])
        <5>1. Compare(node, d0, input[n], input[k]) < 0 /\ k \in 1..Len(input)
          BY <1>2, <1>5, <4>1
        <5>2. /\ Compare(node, d0, input[n], input[k]) = -Compare(node, d0, input[k], input[n])
              /\ Compare(node, d0, input[k], input[n]) \in {-1, 0, 1}
              /\ Dominates(node, input[k], input[n]) => Compare(node, d0, input[k], input[n]) <= 0
              /\ AllEq(node, input[k], input[n]) => Compare(node, d0, input[k], input[n]) = 0
          BY <1>1, <1>5, <2>3, <5>1, TwoColumns
        <5> QED
          BY <5>1, <5>2
      <4>3. ASSUME NEW k \in 1..Len(input)
            PROVE  ~Dominates(node, input[k], input[n])
        <5>1. k \in 1..outerPos \/ n <= k
          BY <1>2
        <5>2. n <= k => ~Dominates(node, input[k], input[n])
          BY <1>1, <1>5, <2>3, SortedNotDominated
        <5> QED
          BY <4>2, <5>1, <5>2
      <4>4. \A c, d \in 1..2 : Sorted(c, d) =>
              \A i \in 1..outerPos : Compare(node, d, input[n], input[i]) <= 0
        <5> SUFFICES ASSUME NEW c \in 1..2, NEW d \in 1..2, Sorted(c, d), NEW i \in 1..outerPos
                     PROVE  Compare(node, d, input[n], input[i]) <= 0
          OBVIOUS
        <5>1. Compare(node, d, input[n], input[i]) < 0 /\ i \in 1..Len(input)
          BY <1>2, <4>1
        <5>2. Compare(node, d, input[n], input[i]) \in {-1, 0, 1}
          BY <1>1, <2>3, <5>1, TwoColumns
        <5> QED
          BY <5>1, <5>2
      <4> QED
        BY <4>2, <4>3, <4>4, QueryExpanded
    <3>2. CASE IsDominating(node, input[n], input[r]) = "ALL_EQ" /\ ~node.skyline_distinct
      <4>1. AllEq(node, input[n], input[r])
        BY <3>2 DEF AllEq
      <4>2. /\ Query!InSkyline(r)
            /\ \A c, d \in 1..2 : Sorted(c, d) =>
                 \A i \in 1..outerPos : Compare(node, d, input[r], input[i]) <= 0
        BY <1>4, <2>1, Zenon
      <4>3. ASSUME NEW k \in 1..Len(input)
            PROVE  ~Dominates(node, input[k], input[n])
        <5>1. Dominates(node, input[k], input[n]) => Dominates(node, input[k], input[r])
          BY <1>1, <2>3, <4>1, Rows, DominanceTransitive
        <5> QED
          BY <4>2, <5>1, QueryExpanded
      <4>4. \A c, d \in 1..2 : Sorted(c, d) =>
              \A i \in 1..outerPos : Compare(node, d, input[n], input[i]) <= 0
        <5> SUFFICES ASSUME NEW c \in 1..2, NEW d \in 1..2, Sorted(c, d), NEW i \in 1..outerPos
                     PROVE  Compare(node, d, input[n], input[i]) <= 0
          OBVIOUS
        <5>1. Compare(node, d, input[r], input[i]) <= 0 /\ i \in 1..Len(input)
          BY <1>2, <4>2
        <5>2. Compare(node, d, input[n], input[r]) <= 0
          BY <1>1, <2>3, <4>1, TwoColumns
        <5> QED
          BY <1>1, <2>3, <5>1, <5>2, CompareRows DEF AreColumns
      <4> QED
        BY <3>2, <4>3, <4>4, QueryExpanded
    <3> QED
      BY <2>2, <3>1, <3>2
  <2>5. Query!MayEmit(n)
    <3>1. \A k \in Query!Emitted : k \in 1..outerPos
      <4>1. \A k \in 1..Len(output) : output[k] \in 1..Len(input) => output[k] \in 1..outerPos
        BY <1>2, <1>3
      <4> QED
        BY <1>6, <4>1, Zenon DEF Query!Emitted
    <3> QED
      BY <1>6, <2>4, <3>1, MayEmitSkyline DEF Query!Ids
  <2>6. \A c, d \in 1..2 : Sorted(c, d) =>
          \A i \in 1..n : Compare(node, d, input[n], input[i]) <= 0
    <3> SUFFICES ASSUME NEW c \in 1..2, NEW d \in 1..2, Sorted(c, d), NEW i \in 1..n
                 PROVE  Compare(node, d, input[n], input[i]) <= 0
      OBVIOUS
    <3>1. /\ Compare(node, d, input[n], input[n]) \in {-1, 0, 1}
          /\ Compare(node, d, input[n], input[n]) = -Compare(node, d, input[n], input[n])
      BY <1>1, <2>3, TwoColumns
    <3>2. Compare(node, d, input[n], input[n]) <= 0
      BY <3>1
    <3> QED
      BY <2>3, <2>4, <3>2
  <2>7. \A i \in 1..outerPos : ~Query!MayEmit(i)
    BY <1>4, <2>1, Zenon
  <2> QED
    BY <1>7, <2>1, <2>4, <2>5, <2>6, <2>7
<1>11. CASE Presort!Skip
  <2>1. /\ status = "SS_PROCESS" /\ status' = status /\ outerPos < Len(input) /\ outerPos' = n
        /\ resultSlot' = r /\ UNCHANGED <<node, input, output>>
    BY <1>11 DEF Presort!Skip
  <2>2. /\ IsDominating(node, input[n], input[r]) # "INCOMPARABLE"
        /\ IsDominating(node, input[n], input[r]) = "ALL_EQ" => node.skyline_distinct
    BY <1>11, SameCompare DEF Presort!Skip, Presort!InSkyline, Presort!Cmp
  <2>3. /\ n \in 1..Len(input) /\ r \in 1..Len(input) /\ r < n
        /\ \A i \in 1..n : i \in 1..outerPos \/ i = n
    BY <1>9, <2>1
  <2>4. /\ \A c, d \in 1..2 : Sorted(c, d) => Compare(node, d, input[r], input[n]) <= 0
        /\ Dominates(node, input[r], input[n]) \/ AllEq(node, input[n], input[r])
    BY <1>9, <2>1, <2>2, Zenon
  <2>5. /\ r \in 1..outerPos /\ r \in Query!Emitted /\ Query!InSkyline(r)
        /\ \A c, d \in 1..2 : Sorted(c, d) =>
             \A i \in 1..outerPos : Compare(node, d, input[r], input[i]) <= 0
        /\ \A i \in 1..outerPos : ~Query!MayEmit(i)
    BY <1>4, <2>1, Zenon
  <2>6. ~Query!MayEmit(n)
    <3>1. CASE Dominates(node, input[r], input[n])
      BY <2>3, <3>1, QueryExpanded
    <3>2. CASE AllEq(node, input[n], input[r])
      <4>1. node.skyline_distinct /\ AllEq(node, input[r], input[n]) /\ r # n
        BY <1>1, <2>2, <2>3, <3>2, Rows, DominanceMirror DEF AllEq
      <4> QED
        BY <2>5, <4>1, QueryExpanded
    <3> QED
      BY <2>4, <3>1, <3>2
  <2>7. QueryStep
    BY <2>1, QuietStep
  <2>8. /\ \A i : Query!MayEmit(i)' <=> Query!MayEmit(i)
        /\ Query!Emitted' = Query!Emitted
    BY <2>1, MayEmitSame
  <2>9. \A i \in 1..n : ~Query!MayEmit(i)'
    BY <2>3, <2>5, <2>6, <2>8, Zenon
  <2>10. Query!InSkyline(resultSlot)'
    BY <2>1, <2>5 DEF Query!InSkyline, Query!Ids
  <2>11. /\ \A c, d \in 1..2 : Sorted(c, d) =>
              \A i \in 1..n : Compare(node, d, input[r], input[i]) <= 0
         /\ r \in 1..n
    BY <1>2, <2>3, <2>4, <2>5
  <2>12. PresortQuery'
    BY <2>1, <2>5, <2>8, <2>9, <2>10, <2>11, Zenon DEF PresortQuery, AreColumns
  <2> QED
    BY <2>7, <2>12
<1>12. CASE Presort!EndOfInput
  <2>1. /\ status \in {"SS_INIT", "SS_PROCESS"} /\ outerPos = Len(input) /\ status' = "SS_DONE"
        /\ UNCHANGED <<node, input, output>>
    BY <1>12 DEF Presort!EndOfInput
  <2>2. \A i \in 1..Len(input) : ~Query!MayEmit(i)
    <3>1. CASE status = "SS_INIT"
      BY <1>3, <2>1, <3>1
    <3>2. CASE status = "SS_PROCESS"
      BY <1>4, <2>1, <3>2, Zenon
    <3> QED
      BY <2>1, <3>1, <3>2
  <2>3. QueryStep
    BY <1>1, <2>1, <2>2, NullStep
  <2> QED
    BY <2>1, <2>3 DEF PresortQuery
<1>13. CASE Presort!ReturnNull
  <2>1. status = "SS_DONE" /\ status' = "SS_DONE" /\ UNCHANGED <<node, input, output>>
    BY <1>13 DEF Presort!ReturnNull, Presort!vars
  <2>2. QueryStep
    BY <1>1, <2>1, NullAgainStep
  <2> QED
    BY <2>1, <2>2 DEF PresortQuery
<1> QED
  BY <1>1, <1>8, <1>10, <1>11, <1>12, <1>13, Zenon DEF Presort!Next

-----------------------------------------------------------------------------
(* ExecSkyline_MaterializedNestedLoop. *)

\* Under DISTINCT, a tuple equal to one that cannot be returned cannot be returned.
LEMMA EqualNotReturned ==
    ASSUME Chosen, node.skyline_distinct, NEW t \in 1..Len(input), NEW i \in 1..Len(input),
           t # i, AllEq(node, input[t], input[i]), ~Query!MayEmit(t),
           Query!Emitted \subseteq Query!Ids
    PROVE  ~Query!MayEmit(i)
<1> SUFFICES ASSUME Query!MayEmit(i) PROVE FALSE
  OBVIOUS
<1>1. /\ \A j \in 1..Len(input) : ~Dominates(node, input[j], input[i])
      /\ i \notin Query!Emitted
      /\ \A k \in Query!Emitted : k # i => ~AllEq(node, input[k], input[i])
  BY QueryExpanded
<1>2. \A j \in 1..Len(input) : ~Dominates(node, input[j], input[t])
  BY <1>1, Rows, DominanceTransitive
<1>3. t \notin Query!Emitted
  BY <1>1
<1>4. PICK k \in Query!Emitted :
        \/ Dominates(node, input[k], input[t])
        \/ k # t /\ AllEq(node, input[k], input[t])
  BY <1>2, <1>3, QueryExpanded
<1>5. k \in 1..Len(input)
  BY DEF Query!Ids
<1>6. AllEq(node, input[k], input[t])
  BY <1>2, <1>4, <1>5
<1>7. AllEq(node, input[k], input[i])
  BY <1>5, <1>6, Rows, DominanceTransitive
<1> QED
  BY <1>1, <1>7

\* The inner loop comes to its end only with a tuple that none dominates.
LEMMA MaterialQueryStep ==
    ASSUME BaseInv, QueryInv, ExecSkyline, RunMNL
    PROVE  MaterialQuery' /\ QueryStep
<1>1. /\ plan.method = "SM_MATERIALIZEDNESTEDLOOP" /\ MNL!Next /\ Chosen
      /\ done => status = "SS_DONE"
      /\ status = "SS_DONE" => done
  BY StepBefore DEF RunMNL
<1>2. /\ Len(input) \in Nat /\ outerPos \in Nat /\ outerPos \in 0..Len(input)
      /\ output \in Seq(Int) /\ slPos \in Nat /\ store \in Stores(Int)
  BY MethodFrame
<1>3. /\ inner => status = "SS_PROCESS" /\ made
      /\ status = "SS_INIT" => output = <<>>
  BY <1>1 DEF BaseInv, NodeInv, PhaseInv
<1>4. status = "SS_PROCESS" =>
        /\ slPos \in 0..outerPos
        /\ \A k \in 1..Len(output) : output[k] <= slPos
        /\ inner => /\ resultSlot = slPos
                    /\ innerPos = store.pos
                    /\ \A k \in 1..Len(output) : output[k] < slPos
  BY <1>1, Zenon DEF BaseInv, NodeInv, LoopInv
<1>5. /\ underlying => outerPos = Len(input)
      /\ made => Holds(store, outerPos)
  BY <1>1, MaterialState
<1>6. status = "SS_PROCESS" =>
        /\ \A i \in 1..slPos : ~(inner /\ i = slPos) => ~Query!MayEmit(i)
        /\ inner => slPos # 0
        /\ inner => \A j \in 1..innerPos :
             /\ ~Dominates(node, input[j], input[slPos])
             /\ node.skyline_distinct /\ j < slPos => ~AllEq(node, input[j], input[slPos])
  BY <1>1, Zenon DEF QueryInv, MaterialQuery
<1>7. Query!Emitted \subseteq Query!Ids
  BY <1>1 DEF QueryInv, EmittedIds
<1>8. CASE MNL!Start
  <2>1. /\ status = "SS_INIT" /\ status' = "SS_PROCESS" /\ slPos' = 0 /\ inner' = inner
        /\ UNCHANGED <<node, input, output>>
    BY <1>8 DEF MNL!Start
  <2>2. ~inner' /\ 1..slPos' = {}
    BY <1>3, <2>1
  <2>3. QueryStep
    BY <2>1, QuietStep
  <2>4. MaterialQuery'
    BY <2>2 DEF MaterialQuery
  <2> QED
    BY <2>3, <2>4
\* Both steps of the outer loop find the tuple behind the mark.
<1>9. CASE MNL!NextOuter \/ MNL!Finish
  <2> DEFINE s == MNL!Restored
  <2>1. /\ status = "SS_PROCESS" /\ ~inner /\ MNL!Pull(s) /\ slPos' = slPos + 1
        /\ UNCHANGED <<node, input, output>>
    BY <1>9, Zenon DEF MNL!NextOuter, MNL!Finish
  <2>2. Holds(s, outerPos) /\ s.pos = slPos
    BY <1>1, <2>1, RestoredStore
  <2>3. /\ slPos < Len(input) => MNL!Served(s) = slPos + 1
        /\ slPos = Len(input) => MNL!Served(s) = 0
        /\ slPos \in 0..Len(input)
    BY <1>2, <1>5, <2>1, <2>2, MaterialServes
  <2>4. \A i \in 1..slPos : ~Query!MayEmit(i)
    BY <1>6, <2>1, Zenon
  <2>5. CASE MNL!NextOuter
    <3>1. status' = "SS_PROCESS" /\ inner' /\ innerPos' = 0
      BY <2>1, <2>5, Zenon DEF MNL!NextOuter
    <3>2. QueryStep
      BY <2>1, <3>1, QuietStep
    <3>3. \A i \in 1..slPos' : i # slPos' => i \in 1..slPos
      BY <1>2, <2>1
    <3>4. \A i : Query!MayEmit(i)' <=> Query!MayEmit(i)
      BY <2>1, MayEmitSame
    <3>5. \A i \in 1..slPos' : ~(inner' /\ i = slPos') => ~Query!MayEmit(i)'
      BY <2>4, <3>1, <3>3, <3>4, Zenon
    <3>6. 1..innerPos' = {}
      BY <3>1
    <3>8. slPos' # 0
      BY <1>2, <2>1
    <3>7. MaterialQuery'
      BY <3>5, <3>6, <3>8 DEF MaterialQuery
    <3> QED
      BY <3>2, <3>7
  <2>6. CASE MNL!Finish
    <3>1. MNL!Served(s) = 0 /\ status' = "SS_DONE"
      BY <2>6, Zenon DEF MNL!Finish, MNL!OuterTuple
    <3>2. slPos = Len(input)
      <4> HIDE DEF s
      <4> QED
        BY <1>2, <2>3, <3>1
    <3>3. \A i \in 1..Len(input) : ~Query!MayEmit(i)
      BY <2>4, <3>2
    <3>4. QueryStep
      BY <1>1, <2>1, <3>1, <3>3, NullStep
    <3>5. MaterialQuery'
      BY <3>1 DEF MaterialQuery
    <3> QED
      BY <3>4, <3>5
  <2> QED
    BY <1>9, <2>5, <2>6
\* The steps of the inner loop.
<1>10. CASE MNL!Eliminate \/ MNL!Continue \/ MNL!Return
  <2> DEFINE t == innerPos + 1
  <2>1. /\ status = "SS_PROCESS" /\ status' = status /\ inner /\ MNL!Pull(store)
        /\ innerPos' = innerPos + 1 /\ UNCHANGED <<node, input, slPos>>
    BY <1>10, Zenon DEF MNL!Eliminate, MNL!Continue, MNL!Return, MNL!FetchInner
  <2>2. Holds(store, outerPos)
    BY <1>3, <1>5, <2>1, Zenon
  <2>3. /\ store.pos < Len(input) => MNL!Served(store) = store.pos + 1
        /\ store.pos = Len(input) => MNL!Served(store) = 0
        /\ store.pos \in 0..Len(input)
    BY <1>2, <1>5, <2>1, <2>2, MaterialServes
  <2>4. /\ slPos \in 0..outerPos /\ resultSlot = slPos /\ innerPos = store.pos
        /\ \A k \in 1..Len(output) : output[k] < slPos
    BY <1>4, <2>1, Zenon
  <2>5. /\ innerPos < Len(input) => MNL!Served(store) = t
        /\ innerPos = Len(input) => MNL!Served(store) = 0
        /\ innerPos \in 0..Len(input)
    BY <2>3, <2>4
  <2>6. /\ slPos # 0
        /\ \A i \in 1..slPos : i # slPos => ~Query!MayEmit(i)
        /\ \A j \in 1..innerPos :
             /\ ~Dominates(node, input[j], input[slPos])
             /\ node.skyline_distinct /\ j < slPos => ~AllEq(node, input[j], input[slPos])
    BY <1>6, <2>1, Zenon
  <2>7. MNL!Served(store) # 0 => /\ MNL!Served(store) = t /\ t \in 1..Len(input)
                                 /\ 1..t = (1..innerPos) \cup {t}
    BY <1>2, <2>5
  <2>8. MNL!Served(store) = 0 => innerPos = Len(input)
    BY <1>2, <2>5
  <2>9. \A i \in 1..slPos : i \in 1..Len(input)
    BY <1>2, <2>4
  <2>10. CASE MNL!Eliminate
    <3>1. /\ MNL!Served(store) # 0 /\ ~inner' /\ output' = output
          /\ \/ MNL!IsDominating(node, input[MNL!Served(store)], input[resultSlot]) = "FIRST_DOMINATES"
             \/ /\ node.skyline_distinct
                /\ MNL!IsDominating(node, input[MNL!Served(store)], input[resultSlot]) = "ALL_EQ"
                /\ t < slPos
      BY <2>10, Zenon DEF MNL!Eliminate, MNL!InnerTuple, MNL!Eliminates, MNL!Cmp
    <3>2. \/ Dominates(node, input[t], input[slPos])
          \/ node.skyline_distinct /\ AllEq(node, input[t], input[slPos]) /\ t < slPos
      BY <2>4, <2>7, <3>1, SameCompare DEF Dominates, AllEq
    <3>3. t \in 1..Len(input)
      BY <2>7, <3>1
    <3>4. slPos \in 1..slPos => ~Query!MayEmit(slPos)
      <4>1. CASE Dominates(node, input[t], input[slPos])
        BY <3>3, <4>1, QueryExpanded
      <4>2. CASE node.skyline_distinct /\ AllEq(node, input[t], input[slPos]) /\ t < slPos
        <5>1. t \in 1..slPos /\ t # slPos
          BY <1>2, <3>3, <4>2
        <5>2. ~Query!MayEmit(t)
          BY <2>6, <5>1
        <5> QED
          BY <1>1, <1>7, <2>9, <3>3, <4>2, <5>1, <5>2, EqualNotReturned
      <4> QED
        BY <3>2, <4>1, <4>2
    <3>5. \A i \in 1..slPos : ~Query!MayEmit(i)
      BY <2>6, <3>4
    <3>6. \A i : Query!MayEmit(i)' <=> Query!MayEmit(i)
      BY <2>1, <3>1, MayEmitSame
    <3>7. \A i \in 1..slPos' : ~Query!MayEmit(i)'
      BY <2>1, <3>5, <3>6, Zenon
    <3>8. MaterialQuery'
      BY <3>1, <3>7, Zenon DEF MaterialQuery
    <3>9. QueryStep
      BY <2>1, <3>1, QuietStep
    <3> QED
      BY <3>8, <3>9
  <2>11. CASE MNL!Continue
    <3>1. /\ MNL!Served(store) # 0 /\ inner' = inner /\ output' = output
          /\ ~(MNL!IsDominating(node, input[MNL!Served(store)], input[resultSlot]) = "FIRST_DOMINATES")
          /\ ~(/\ node.skyline_distinct
               /\ MNL!IsDominating(node, input[MNL!Served(store)], input[resultSlot]) = "ALL_EQ"
               /\ t < slPos)
      BY <2>11, Zenon DEF MNL!Continue, MNL!InnerTuple, MNL!Eliminates, MNL!Cmp
    <3>2. /\ ~Dominates(node, input[t], input[slPos])
          /\ node.skyline_distinct /\ t < slPos => ~AllEq(node, input[t], input[slPos])
      BY <2>4, <2>7, <3>1, SameCompare DEF Dominates, AllEq
    <3>3. 1..t = (1..innerPos) \cup {t}
      BY <2>7, <3>1
    <3>4. \A j \in 1..t :
            /\ ~Dominates(node, input[j], input[slPos])
            /\ node.skyline_distinct /\ j < slPos => ~AllEq(node, input[j], input[slPos])
      BY <2>6, <3>2, <3>3, Zenon
    <3>5. \A i : Query!MayEmit(i)' <=> Query!MayEmit(i)
      BY <2>1, <3>1, MayEmitSame
    <3>6. \A i \in 1..slPos' : ~(inner' /\ i = slPos') => ~Query!MayEmit(i)'
      BY <2>1, <2>6, <3>1, <3>5, Zenon
    <3>9. slPos' # 0
      BY <2>1, <2>6
    <3>7. MaterialQuery'
      BY <2>1, <3>4, <3>6, <3>9, Zenon DEF MaterialQuery
    <3>8. QueryStep
      BY <2>1, <3>1, QuietStep
    <3> QED
      BY <3>7, <3>8
  <2>12. CASE MNL!Return
    <3>1. output' = Append(output, slPos) /\ ~inner' /\ MNL!Served(store) = 0
      BY <2>4, <2>12, Zenon DEF MNL!Return, MNL!InnerTuple
    <3>2. \A j \in 1..Len(input) :
            /\ ~Dominates(node, input[j], input[slPos])
            /\ node.skyline_distinct /\ j < slPos => ~AllEq(node, input[j], input[slPos])
      BY <2>6, <2>8, <3>1
    <3>3. \A k \in Query!Emitted : k \in 1..Len(input) /\ k < slPos /\ k # slPos
      <4>1. \A k \in 1..Len(output) : output[k] # slPos
        BY <1>2, <2>4
      <4> QED
        BY <1>7, <2>4, <4>1, Zenon DEF Query!Emitted, Query!Ids
    <3>4. Query!MayEmit(slPos)
      BY <3>2, <3>3, QueryExpanded
    <3>5. slPos \in 1..Len(input)
      BY <1>2, <2>4, <2>6
    <3>6. QueryStep
      BY <2>1, <3>1, <3>4, <3>5, EmitStep
    <3>7. \A i : Query!MayEmit(i)' => Query!MayEmit(i) /\ i # slPos
      BY <1>2, <2>1, <3>1, MayEmitShrinks
    <3>8. \A i \in 1..slPos' : ~Query!MayEmit(i)'
      BY <2>1, <2>6, <3>7, Zenon
    <3>9. MaterialQuery'
      BY <3>1, <3>8, Zenon DEF MaterialQuery
    <3> QED
      BY <3>6, <3>9
  <2> QED
    BY <1>10, <2>10, <2>11, <2>12
<1>11. CASE MNL!ReturnNull
  <2>1. status = "SS_DONE" /\ status' = "SS_DONE" /\ UNCHANGED <<node, input, output>>
    BY <1>11 DEF MNL!ReturnNull, MNL!vars
  <2>2. QueryStep
    BY <1>1, <2>1, NullAgainStep
  <2> QED
    BY <2>1, <2>2 DEF MaterialQuery
<1> QED
  BY <1>1, <1>8, <1>9, <1>10, <1>11, Zenon DEF MNL!Next

-----------------------------------------------------------------------------
(* ExecInitSkyline, ExecReScanSkyline and ExecEndSkyline. *)

\* Nothing has been read and nothing returned.
FreshScan ==
    /\ status = "SS_INIT" /\ output = <<>> /\ ~inLoop /\ ~inner
    /\ plan.method = "SM_1DIM_DISTINCT" => resultSlot = 0

\* Before a scan has read anything nothing has been decided.
LEMMA FreshQuery == FreshScan => QueryInv
<1> SUFFICES ASSUME FreshScan PROVE QueryInv
  OBVIOUS
<1>1. OneDimQuery /\ PresortQuery /\ MaterialQuery
  BY DEF FreshScan, OneDimQuery, PresortQuery, MaterialQuery
<1>2. OneDimDistinctQuery
  BY DEF FreshScan, OneDimDistinctQuery
<1>3. EmittedIds
  BY NothingEmitted DEF FreshScan, EmittedIds
<1> QED
  BY <1>1, <1>2, <1>3 DEF QueryInv

\* The same of the state after a step.
LEMMA FreshQueryNext == FreshScan' => QueryInv'
  BY FreshQuery, PTL

\* ExecInitSkyline establishes the query's invariant.
LEMMA InitQueryInv == ExecInitSkyline => QueryInv
  BY FreshQuery DEF ExecInitSkyline, FreshScan

\* A plan that rescans ExecSkyline_1DimDistinct is not well planned.
LEMMA RescanQuery ==
    ASSUME BaseInv, WellPlanned(plan), ExecReScanSkyline
    PROVE  QueryInv'
<1>1. plan.method # "SM_1DIM_DISTINCT"
  BY DEF WellPlanned, ExecReScanSkyline, ParentMayRescan
<1>2. ~inLoop /\ ~inner
  BY DEF BaseInv, NodeInv, PhaseInv, ExecReScanSkyline
<1>3. FreshScan'
  BY <1>1, <1>2 DEF FreshScan, ExecReScanSkyline, loopState
<1> QED
  BY <1>3, FreshQueryNext

\* What is returned stays a tuple of the outer plan.
LEMMA EmittedIdsStep ==
    ASSUME BaseInv, QueryInv, plan.method # "SM_ELIMFILTER",  plan' = plan, QueryStep
    PROVE  EmittedIds'
<1>1. output \in Seq(Int) /\ Query!Emitted \subseteq Query!Ids
  BY MethodFrame DEF QueryInv, EmittedIds
<1>2. CASE UNCHANGED <<node, input, output>>
  BY <1>1, <1>2, MayEmitSame DEF EmittedIds
<1>3. CASE \E i \in Query!Ids : Query!Emit(i)
  <2>1. PICK i \in Query!Ids : output' = Append(output, i) /\ UNCHANGED <<node, input>>
    BY <1>3 DEF Query!Emit
  <2>2. Query!Emitted' = Query!Emitted \cup {i}
    BY <1>1, <2>1, MayEmitShrinks
  <2>3. Query!Ids' = Query!Ids
    BY <2>1 DEF Query!Ids
  <2> QED
    BY <1>1, <2>2, <2>3 DEF EmittedIds
<1> QED
  BY <1>2, <1>3 DEF QueryStep, Query!Next, Query!Finish

\* A step of a method without a window.
LEMMA ScanQueryStep ==
    ASSUME BaseInv, QueryInv, WellPlanned(plan), ExecSkyline,
           Run1Dim \/ Run1DimDistinct \/ Run2DimPreSort \/ RunMNL
    PROVE  QueryInv' /\ QueryStep
<1>1. plan' = plan
  BY DEF ExecSkyline
<1>2. QueryStep => EmittedIds'
  BY <1>1, EmittedIdsStep DEF Run1Dim, Run1DimDistinct, Run2DimPreSort, RunMNL
<1>3. CASE Run1Dim
  <2>1. plan'.method = "SM_1DIM"
    BY <1>1, <1>3 DEF Run1Dim
  <2>2. OneDimDistinctQuery' /\ PresortQuery' /\ MaterialQuery'
    BY <2>1 DEF OneDimDistinctQuery, PresortQuery, MaterialQuery
  <2> QED
    BY <1>2, <1>3, <2>2, OneDimQueryStep DEF QueryInv
<1>4. CASE Run1DimDistinct
  <2>1. plan'.method = "SM_1DIM_DISTINCT"
    BY <1>1, <1>4 DEF Run1DimDistinct
  <2>2. OneDimQuery' /\ PresortQuery' /\ MaterialQuery'
    BY <2>1 DEF OneDimQuery, PresortQuery, MaterialQuery
  <2> QED
    BY <1>2, <1>4, <2>2, OneDimDistinctQueryStep DEF QueryInv
<1>5. CASE Run2DimPreSort
  <2>1. plan'.method = "SM_2DIM_PRESORT"
    BY <1>1, <1>5 DEF Run2DimPreSort
  <2>2. OneDimQuery' /\ OneDimDistinctQuery' /\ MaterialQuery'
    BY <2>1 DEF OneDimQuery, OneDimDistinctQuery, MaterialQuery
  <2> QED
    BY <1>2, <1>5, <2>2, PresortQueryStep DEF QueryInv
<1>6. CASE RunMNL
  <2>1. plan'.method = "SM_MATERIALIZEDNESTEDLOOP"
    BY <1>1, <1>6 DEF RunMNL
  <2>2. OneDimQuery' /\ OneDimDistinctQuery' /\ PresortQuery'
    BY <2>1 DEF OneDimQuery, OneDimDistinctQuery, PresortQuery
  <2> QED
    BY <1>2, <1>6, <2>2, MaterialQueryStep DEF QueryInv
<1> QED
  BY <1>3, <1>4, <1>5, <1>6

\* A step of a method with a window.
LEMMA WindowQueryStep ==
    ASSUME BaseInv, QueryInv, ExecSkyline, RunBNL \/ RunSFS \/ RunElimFilter,
           plan.method # "SM_ELIMFILTER" => QueryStep
    PROVE  QueryInv'
<1>1. plan' = plan /\ plan.method \in WindowMethods
  BY DEF ExecSkyline, RunBNL, RunSFS, RunElimFilter, WindowMethods
<1>2. OneDimQuery' /\ OneDimDistinctQuery' /\ PresortQuery' /\ MaterialQuery'
  BY <1>1 DEF WindowMethods, OneDimQuery, OneDimDistinctQuery, PresortQuery, MaterialQuery
<1>3. EmittedIds'
  <2>1. CASE plan.method = "SM_ELIMFILTER"
    BY <1>1, <2>1 DEF EmittedIds
  <2>2. CASE plan.method # "SM_ELIMFILTER"
    BY <1>1, <2>2, EmittedIdsStep
  <2> QED
    BY <2>1, <2>2
<1> QED
  BY <1>2, <1>3 DEF QueryInv

\* ExecEndSkyline, and a step that changes nothing.
LEMMA EndQuery ==
    ASSUME BaseInv, QueryInv, ExecEndSkyline \/ UNCHANGED vars
    PROVE  QueryInv'
<1>1. UNCHANGED <<plan, node, input, outerPos, status, output, inLoop, first, datum,
                  store, inner, slPos, innerPos, done>>
  BY DEF ExecEndSkyline, vars, windowState, loopState, materialState
<1>2. /\ \A i : Query!InSkyline(i)' <=> Query!InSkyline(i)
      /\ \A i : Query!MayEmit(i)' <=> Query!MayEmit(i)
      /\ Query!Emitted' = Query!Emitted /\ Query!Ids' = Query!Ids
  BY <1>1, MayEmitSame
<1>3. Unread' = Unread
  BY <1>1 DEF Unread, Left
<1>4. \/ ended' /\ resultSlot' = 0 /\ ~inLoop
      \/ ended' = ended /\ resultSlot' = resultSlot
  BY DEF ExecEndSkyline, vars, BaseInv, NodeInv, PhaseInv
<1>5. OneDimQuery'
  BY <1>1, <1>2, <1>3, Zenon DEF QueryInv, OneDimQuery
<1>6. OneDimDistinctQuery'
  BY <1>1, <1>2, <1>4, Zenon DEF QueryInv, OneDimDistinctQuery
<1>7. PresortQuery'
  <2>1. CASE ended'
    BY <2>1 DEF PresortQuery
  <2>2. CASE ended' = ended /\ resultSlot' = resultSlot
    <3>1. Query!InSkyline(resultSlot)' <=> Query!InSkyline(resultSlot)
      BY <1>1, <2>2 DEF Query!InSkyline, Query!Ids
    <3> QED
      BY <1>1, <1>2, <2>2, <3>1, Zenon DEF QueryInv, PresortQuery, AreColumns
  <2> QED
    BY <1>4, <2>1, <2>2
<1>8. MaterialQuery'
  BY <1>1, <1>2, Zenon DEF QueryInv, MaterialQuery
<1>9. EmittedIds'
  BY <1>1, <1>2 DEF QueryInv, EmittedIds
<1> QED
  BY <1>5, <1>6, <1>7, <1>8, <1>9 DEF QueryInv

===============================================================================
