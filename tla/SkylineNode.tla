----------------------------- MODULE SkylineNode -----------------------------
(***************************************************************************)
(* The skyline node as its parent sees it (backend/executor/nodeSkyline.c):*)
(* ExecInitSkyline, ExecSkyline, which runs the method the planner chose,  *)
(* ExecReScanSkyline and ExecEndSkyline.  All methods work on one          *)
(* SkylineState, and what one scan leaves there the next one finds.  The   *)
(* elimination filter (nodeElimFilter.c), whose state is a SkylineState    *)
(* and whose ExecReScanElimFilter and ExecEndElimFilter do the same for    *)
(* what it uses of it, is treated as one more method.                      *)
(***************************************************************************)
EXTENDS SkylineRank, TupleStore, SkylineMethods

CONSTANTS
    Plans,        \* the plans: [method, node, inputs, policy, slots, memory,
                  \* rescan], rescan being when the parent may rescan
    TupleSpace(_),\* the memory a row takes in the window
    RandomRanks,  \* what ExecSkylineRandom may return
    Garbage,      \* what an uninitialized Datum may hold
    MaxScans      \* bound: the number of scans of a plan

ASSUME NodePlansAssumption ==
    \A p \in Plans :
        /\ p.method \in Methods
        /\ p.node \in PlanNode
        /\ p.inputs \subseteq Seq(Row(p.node))
        /\ p.policy \in Policies
        /\ p.slots \in Int
        /\ p.memory \in Int

\* As RanksAssumption of SkylinePlans, for all rows the outer plan may return.
ASSUME NodeRanksAssumption ==
    /\ RandomRanks \subseteq Int
    /\ NaN \notin Int
    /\ \A p \in Plans : \A t \in p.inputs : \A i \in 1..Len(t) : TupleSpace(t[i]) \in Nat

VARIABLES
    plan,         \* the element of Plans that is executed
    node, input, outerPos, status, output,                 \* all methods
    source, window, tempIn, tempInPos, tempOut,            \* window methods
    timestampIn, timestampOut, slot,
    inLoop, first, datum, store,                           \* see OneDim
    resultSlot,                                            \* ps_ResultTupleSlot
    made, underlying, inner, slPos, innerPos,              \* see MaterializedNestedLoop
    freed,        \* has tuplewindow_end been called for state->window
    usedFreed,    \* has tuplewindow_end been called for it once more
    inParent,     \* does the parent run, ExecSkyline having returned
    done,         \* has this scan returned NULL
    scans,        \* the number of scans
    ended         \* has ExecEndSkyline been called

windowState == <<source, window, tempIn, tempInPos, tempOut, timestampIn,
                 timestampOut, slot>>
materialState == <<made, underlying>>
loopState == <<inner, slPos, innerPos>>
vars == <<plan, node, input, outerPos, status, output, windowState, inLoop,
          first, datum, store, resultSlot, materialState, loopState, freed,
          usedFreed, inParent, done, scans, ended>>

BNL      == INSTANCE BlockNestedLoop WITH Plans <- {}
SFS      == INSTANCE SortFilterSkyline WITH Plans <- {}
Dim1     == INSTANCE OneDim
Distinct == INSTANCE OneDimDistinct
Presort  == INSTANCE TwoDimPreSort
MNL      == INSTANCE MaterializedNestedLoop
EF       == INSTANCE ElimFilter WITH Plans <- {}

UsesWindow == plan.method \in WindowMethods

-----------------------------------------------------------------------------
(* ExecInitSkyline. *)

\* The state it makes for the plan and its input.
ExecInitSkyline ==
    /\ node = plan.node
    /\ window = IF UsesWindow
                THEN tuplewindow_begin(plan.memory, plan.slots, WindowPolicy(plan))
                ELSE NULL
    /\ status = "SS_INIT" /\ source = "SS_OUTER"
    /\ outerPos = 0 /\ output = <<>>
    /\ tempIn = <<>> /\ tempInPos = 0 /\ tempOut = <<>>
    /\ timestampIn = 0 /\ timestampOut = 0 /\ slot = 0
    /\ inLoop = FALSE /\ first = FALSE /\ datum = NULL
    /\ store = tuplestore_begin(FALSE)
    /\ resultSlot = 0
    /\ made = FALSE /\ underlying = FALSE
    /\ inner = FALSE /\ slPos = 0 /\ innerPos = 0
    /\ freed = FALSE /\ usedFreed = FALSE
    /\ inParent = TRUE /\ done = FALSE
    /\ scans = 1
    /\ ended = FALSE

\* A window that can hold no tuple is an error.
Init ==
    /\ plan \in {p \in Plans : p.method \in WindowMethods => p.slots # 0}
    /\ input \in plan.inputs
    /\ ExecInitSkyline

-----------------------------------------------------------------------------
(* ExecSkyline. *)

\* Mutant of RunBNL: the window is freed before its tuples have been returned.
RunBNLFreesEarly ==
    /\ plan.method = "SM_BLOCKNESTEDLOOP"
    /\ BNL!Next
    /\ freed' = (freed \/ BNL!LastPass)
    /\ UNCHANGED <<inLoop, first, datum, store, resultSlot, materialState, loopState>>

RunBNL ==
    /\ plan.method = "SM_BLOCKNESTEDLOOP"
    /\ BNL!Next
    /\ freed' = (freed \/ BNL!Finish)
    /\ UNCHANGED <<inLoop, first, datum, store, resultSlot, materialState, loopState>>

RunSFS ==
    /\ plan.method = "SM_SFS"
    /\ SFS!Next
    /\ UNCHANGED <<timestampIn, inLoop, first, datum, store, resultSlot,
                   materialState, loopState, freed>>

Run1Dim ==
    /\ plan.method = "SM_1DIM"
    /\ Dim1!Next
    /\ UNCHANGED <<windowState, resultSlot, materialState, loopState, freed>>

Run1DimDistinct ==
    /\ plan.method = "SM_1DIM_DISTINCT"
    /\ Distinct!Next
    /\ UNCHANGED <<windowState, first, store, materialState, loopState, freed>>

Run2DimPreSort ==
    /\ plan.method = "SM_2DIM_PRESORT"
    /\ Presort!Next
    /\ UNCHANGED <<windowState, inLoop, first, datum, store, materialState,
                   loopState, freed>>

RunMNL ==
    /\ plan.method = "SM_MATERIALIZEDNESTEDLOOP"
    /\ MNL!Next
    /\ UNCHANGED <<windowState, inLoop, first, datum, freed>>

RunElimFilter ==
    /\ plan.method = "SM_ELIMFILTER"
    /\ EF!Next
    /\ UNCHANGED <<source, tempIn, tempInPos, tempOut, timestampIn, timestampOut,
                   inLoop, first, datum, store, resultSlot, materialState,
                   loopState, freed>>

\* One step of the node; the parent runs again once it has a tuple or NULL.
ExecSkyline ==
    /\ ~ended
    /\ RunBNL \/ RunSFS \/ Run1Dim \/ Run1DimDistinct \/ Run2DimPreSort \/ RunMNL
       \/ RunElimFilter
    /\ inParent' = (output' # output \/ status' = "SS_DONE")
    /\ done' = (output' = output /\ status' = "SS_DONE")
    /\ UNCHANGED <<plan, usedFreed, scans, ended>>

-----------------------------------------------------------------------------
(* ExecReScanSkyline and ExecEndSkyline. *)

Stale == -1  \* a tuple of an earlier scan's input

\* Mutant of RescanOuterPlan: an outer plan none of whose parameters has
\* changed is not told to start again.
RescanChangedOnly ==
    \/ UNCHANGED <<input, materialState, resultSlot, store, outerPos>>
    \/ /\ input' \in plan.inputs
       /\ outerPos' = 0
       /\ made' = FALSE /\ underlying' = FALSE
       /\ resultSlot' = IF resultSlot = 0 THEN 0 ELSE Stale
       /\ UNCHANGED store

\* The outer plan starts again.  A parameter it depends on may have changed,
\* and with it the rows; a Material node keeps its tuples if none has.
RescanOuterPlan ==
    \/ /\ UNCHANGED <<input, materialState, resultSlot>>
       /\ IF plan.method = "SM_MATERIALIZEDNESTEDLOOP"
          THEN /\ store' = IF made THEN tuplestore_rescan(store) ELSE store
               /\ UNCHANGED outerPos
          ELSE UNCHANGED store /\ outerPos' = 0
    \/ /\ input' \in plan.inputs
       /\ outerPos' = 0
       /\ made' = FALSE /\ underlying' = FALSE
       /\ resultSlot' = IF resultSlot = 0 THEN 0 ELSE Stale
       /\ UNCHANGED store

\* ExecSkylineInitTupleWindow: state->window is still set after the window has
\* been freed, and is given to tuplewindow_end.
InitTupleWindow ==
    IF UsesWindow
    THEN /\ window' = tuplewindow_begin(window.maxMem, window.maxSlots, window.policy)
         /\ usedFreed' = (usedFreed \/ freed)
         /\ freed' = FALSE
    ELSE UNCHANGED <<window, usedFreed, freed>>

ParentMayRescan ==
    CASE plan.rescan = "ANY"        -> TRUE
      [] plan.rescan = "BEFORE_END" -> ~done
      [] plan.rescan = "NEVER"      -> FALSE

\* SS_OUTER, which the code stores in status, has the value of SS_INIT.
ExecReScanSkyline ==
    /\ ~ended /\ inParent
    /\ scans < MaxScans
    /\ ParentMayRescan
    /\ scans' = scans + 1
    /\ status' = "SS_INIT"
    /\ RescanOuterPlan
    /\ InitTupleWindow
    /\ tempIn' = <<>> /\ tempInPos' = 0 /\ tempOut' = <<>>
    /\ output' = <<>> /\ done' = FALSE
    /\ UNCHANGED <<plan, node, source, timestampIn, timestampOut, slot, inLoop,
                   first, datum, loopState, inParent, ended>>

\* The parent may end the query before it has read all tuples.
ExecEndSkyline ==
    /\ ~ended /\ inParent
    /\ resultSlot' = 0
    /\ ended' = TRUE
    /\ UNCHANGED <<plan, node, input, outerPos, status, output, windowState, inLoop,
                   first, datum, store, materialState, loopState, freed,
                   usedFreed, inParent, done, scans>>

\* The query is over.
Ended == ended /\ UNCHANGED vars

Next == ExecSkyline \/ ExecReScanSkyline \/ ExecEndSkyline \/ Ended

Spec == Init /\ [][Next]_vars

\* The parent reads until it gets NULL, rescans or ends the query.
FairSpec == Spec /\ WF_vars(ExecSkyline)

-----------------------------------------------------------------------------
(* Properties. *)

Query  == INSTANCE RestartableQuery
Filter == INSTANCE RestartableFilter

Increasing(s) == \A k, m \in 1..Len(s) : k < m => s[k] < s[m]

\* What holds whatever the method is.  While the parent runs no method is
\* inside a loop, so a rescan finds no local state.
PhaseInv ==
    /\ inParent => slot = 0 /\ ~inLoop /\ ~inner
    /\ slot # 0 => UsesWindow /\ status = "SS_PROCESS"
    /\ inLoop => plan.method \in {"SM_1DIM", "SM_1DIM_DISTINCT"} /\ status = "SS_INIT"
    /\ inner => plan.method = "SM_MATERIALIZEDNESTEDLOOP" /\ status = "SS_PROCESS" /\ made
    /\ status = "SS_INIT" => output = <<>> /\ ~done
    /\ outerPos \in 0..Len(input)
    /\ status = "SS_INIT" /\ ~inLoop /\ plan.method # "SM_MATERIALIZEDNESTEDLOOP" =>
         outerPos = 0

\* ExecSkyline_1Dim: the tuples behind the read position of the store are
\* those to be returned, in the order of the input.
OneDimInv ==
    plan.method = "SM_1DIM" /\ (inLoop \/ status = "SS_PIPEOUT") =>
        /\ Increasing(store.tuples)
        /\ \A m \in 1..Len(store.tuples) : store.tuples[m] \in 1..outerPos
        /\ store.pos \in 0..Len(store.tuples)
        /\ inLoop => ~store.eof
        /\ \A k \in 1..Len(output), m \in store.pos+1..Len(store.tuples) :
             output[k] < store.tuples[m]

\* ExecSkyline_1DimDistinct returns one tuple only, with its last step.
OneDimDistinctInv ==
    plan.method = "SM_1DIM_DISTINCT" =>
        Len(output) <= 1 /\ (status # "SS_DONE" => output = <<>>)

\* What a Material node holds is what it has read, wherever its two positions
\* are (ExecMaterial and ExecMaterialMarkPos in nodeMaterial.c).
MaterialInv ==
    plan.method = "SM_MATERIALIZEDNESTEDLOOP" =>
        /\ made => /\ store.tuples = [i \in 1..outerPos |-> i]
                   /\ store.pos \in 0..outerPos
                   /\ store.mark \in 0..outerPos
                   /\ store.eof => store.pos = outerPos
                   /\ underlying => outerPos = Len(input)
                   /\ status = "SS_INIT" => store.pos = 0
        /\ ~made => outerPos = 0 /\ ~underlying

\* The mark is at the outer loop's tuple whatever the inner loop has read since
\* (nodeSkyline.c 793-808), and the tuples returned are behind it.
LoopInv ==
    plan.method = "SM_MATERIALIZEDNESTEDLOOP" /\ status = "SS_PROCESS" =>
        /\ slPos \in 0..outerPos
        /\ made => store.mark = slPos
        /\ ~made => slPos = 0
        /\ \A k \in 1..Len(output) : output[k] <= slPos
        /\ inner => /\ resultSlot = slPos
                    /\ innerPos = store.pos
                    /\ \A k \in 1..Len(output) : output[k] < slPos

\* The tuples come out in the order in which they are read.
OutputInv ==
    plan.method # "SM_BLOCKNESTEDLOOP" =>
        /\ Increasing(output)
        /\ \A k \in 1..Len(output) : output[k] <= outerPos

\* What one call, or one scan, leaves behind for the next one.
NodeInv ==
    /\ PhaseInv
    /\ OneDimInv
    /\ OneDimDistinctInv
    /\ MaterialInv
    /\ LoopInv
    /\ OutputInv

\* The columns are 1, ..., n, and none of them is DIFF.
Ordered(nd, n) ==
    Columns(nd) = 1..n /\ \A c \in Columns(nd) : nd.cols[c].dir # "DIFF"

\* Column c of two rows.
Compare(nd, c, a, b) == ApplyCompare(nd.cols[c], a[c], b[c])

\* The table t is sorted by column c, and where c does not decide by d.
SortedByColumns(nd, t, c, d) ==
    \A i, j \in 1..Len(t) : i < j =>
        \/ Compare(nd, c, t[i], t[j]) < 0
        \/ Compare(nd, c, t[i], t[j]) = 0 /\ Compare(nd, d, t[i], t[j]) <= 0

\* No row of the table t dominates one before it.
SortedForSkyline(nd, t) ==
    \A i, j \in 1..Len(t) : i < j => ~Dominates(nd, t[j], t[i])

\* What the methods rely on (skyline_choose_method in skyline.c, and
\* grouping_planner in planner.c 1203-1230): the number of columns, the order of
\* the input, and a parent that does not rescan where the code cannot.
WellPlanned(p) ==
    /\ p.method = "SM_1DIM" => Ordered(p.node, 1) /\ ~p.node.skyline_distinct
    /\ p.method = "SM_1DIM_DISTINCT" =>
         Ordered(p.node, 1) /\ p.node.skyline_distinct /\ p.rescan = "NEVER"
    /\ p.method = "SM_2DIM_PRESORT" => \E n \in {1, 2} :
         /\ Ordered(p.node, n)
         /\ \A t \in p.inputs : \/ SortedByColumns(p.node, t, 1, n)
                                \/ SortedByColumns(p.node, t, n, 1)
    /\ p.method = "SM_SFS" => \A t \in p.inputs : SortedForSkyline(p.node, t)
    /\ p.method = "SM_BLOCKNESTEDLOOP" => p.rescan \in {"BEFORE_END", "NEVER"}

\* Every method implements the skyline query, and answers it anew after a
\* rescan ("Reset a plan node so that its output can be re-scanned", ExecReScan
\* in execAmi.c), whatever point of the scan before it comes at.
ImplementsRestartableQuery ==
    Query!Init /\ [][plan.method # "SM_ELIMFILTER" => Query!RestartableNext]_(Query!vars)

\* So does the elimination filter what it promises (ExecReScanElimFilter).
ImplementsRestartableFilter ==
    Filter!Init /\ [][plan.method = "SM_ELIMFILTER" => Filter!RestartableNext]_(Filter!vars)

\* A method that skyline_method_preserves_tuple_order names returns its tuples
\* in the order of the outer plan (skyline.c 325-382).
PreservesOrder ==
    [][skyline_method_preserves_tuple_order(plan.method) =>
         \A k, m \in DOMAIN output' : k < m => output'[k] < output'[m]]_vars

\* Every scan that the parent does not break off comes to its end.
Termination == []<>(done \/ ended)

\* "reinit tuple window" (nodeSkyline.c 1345): a window is freed once only.
NeverUsesFreedWindow == ~usedFreed

=============================================================================
