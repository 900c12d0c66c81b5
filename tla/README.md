# pgsql-skyline: a TLA+ development

`SKYLINE OF` is an extension of PostgreSQL (8.3/8.4 development tree under
`src/pgsql/`) that returns the *skyline* of a relation: the tuples no other
tuple dominates, where a tuple dominates another if it is at least as good in
every skyline column (MIN, MAX, or a USING operator), better in one, and equal
in every DIFF column. The rest of the tree is PostgreSQL (`src/pgsql-cvshead/`
is the unmodified copy), a generator of test data (`src/randdataset/`) and the
thesis that describes the work (`src/thesis/04-body.tex`). This development is
about what the project added to PostgreSQL. Paths below are relative to
`src/pgsql/src/` unless they start with `src/`.

## Inventory

| component | source | state it keeps | operations |
|---|---|---|---|
| dominance test | `backend/executor/nodeSkyline.c` 60-185 | none | compare two tuples: one column, all columns |
| tuple window | `backend/utils/skyline/tuplewindow.c` | a doubly linked list with a sentinel, a cursor, a rank cursor, the rank to insert at, free memory and free slots | begin, rewind, ateof, movenext, get, removecurrent, setinsertrank, put (also forced), clean, end |
| block nested loop (BNL) | `nodeSkyline.c` 856-1084 | status, source, the window, two temporary files, two timestamps | one call per result tuple; several passes over temporary files |
| sort filter skyline (SFS) | `nodeSkyline.c` 1086-1262 | as BNL, without timestamps that matter | returns a tuple as it goes into the window; needs sorted input |
| elimination filter (EF) | `backend/executor/nodeElimFilter.c` | a small window | drops some dominated tuples below the sort or skyline node |
| 1DIM, 1DIM DISTINCT, 2DIM PRESORT, MNL | `nodeSkyline.c` 542-854 | best value so far and a tuplestore; last returned tuple; position in a materialized input | one call per result tuple |
| entropy rank | `nodeSkyline.c` 187-274, `backend/optimizer/plan/createplan.c` 2734-2888 | none (column minimum and scale in the plan node) | rank of a tuple |
| rescan and shutdown | `nodeSkyline.c` 1295-1363, `nodeElimFilter.c` 161-204 | frees or reuses the above | ReScan, End |
| options | `backend/utils/skyline/skyline.c` 20-209 | none | look up a method, a number or a window policy in the list of WITH options |
| method choice | `backend/utils/skyline/skyline.c` 235-382, `backend/optimizer/plan/planner.c` 849-968 and 1189-1259, `planmain.c` 342-443, `backend/optimizer/path/pathkeys.c` | none | pick a path and a method; decide if the input is sorted already; put Sort, EF and skyline nodes together |
| tuplestore | `backend/utils/sort/tuplestore.c` | an array or a file, a read position, a mark | put, get, rescan, catch up, mark, restore, trim |
| Material node | `backend/executor/nodeMaterial.c` | a tuplestore, whether the plan below has ended | get, mark, restore, ReScan |
| clause analysis | `backend/parser/parse_clause.c` 1436-1476, 1777-1871, `gram.y` | none | direction, operator, NULLs ordering and options of the clause |
| cost model, EXPLAIN, copy/read/out functions | `costsize.c`, `explain.c`, `backend/nodes/` | none | estimates, printing, copying |

**How they interact.** The planner puts a plan together: outer plan, optionally
EF, optionally Sort, then one skyline node. At run time the nodes are pulled:
the parent calls `ExecSkyline` for one tuple at a time, until NULL, and the
skyline node calls `ExecProcNode` on its outer plan. A skyline node therefore
returns from the middle of its loops and must find its way back from the state
it keeps. BNL, SFS and EF own a tuple window each and drive it through a
protocol (rewind, set the rank, then per slot either move on or remove) whose
steps move the two cursors. BNL and SFS write the tuples that do not fit to a
`Tuplestore` and read it in the next pass.

**What is hard here.** Nothing runs concurrently, and nothing is persistent.
The difficulties are in long sequences of legal steps: which tuples have been
compared with which, through removals, timestamps and passes (BNL); when
anything can be returned; whether the passes come to an end (the thesis, lines
1943-2041, shows that BNL as published does not terminate); cursors into a list
that changes; limits (a window without free slots, memory that is checked
before it is used); floating-point ranks; assumptions one part makes about
another (SFS and 2DIM PRESORT about the order of their input, the planner about
the order of a method's output); one mark shared by two loops (MNL); and state
that survives a rescan. `PROJECT.json` lists the hazards, each with its line and
with the properties that cover it, or the reason why none does.

**What makes each component correct.**

- dominance test: dominance is irreflexive, transitive, compatible with
  equality, and mirrored when the arguments are swapped;
- tuple window: cursors stay in the list, a ranked window stays ordered, and what is
  free is what the tuples leave of the limits;
- BNL, SFS, MNL, 1DIM, 2DIM: implement the abstract query, and terminate;
- EF: drops only tuples that are dominated (or duplicates under DISTINCT) and
  keeps the order;
- planner: the input of SFS and 2DIM PRESORT is sorted well enough for them, and
  the result has the order the query asks for, also when a sort is left out;
- life cycle: after a rescan the node behaves as after its initialization;
- tuplestore: a sequence with a read position, wherever it keeps the tuples.

## Modules

| module | what it is |
|---|---|
| `Dominance` | `ApplyCompare` (`inlineApplyCompareFunction`), `ExecSkylineIsDominating` as the loop it is and `IsDominating` as what it says, and the relations they define |
| `TupleWindow` | the tuple window as a record, its operations as operators on windows |
| `SkylinePlans` | the plans a window method is run for and what is assumed of them: the constants the next three modules share |
| `SkylineRank` | the entropy rank of a tuple, and which window policy a node ends up with |
| `Descent` | the order in which a method comes closer to its end: tuples of numbers |
| `SkylineQuery`, `RestartableQuery` | abstract: what any skyline node promises its parent, in one scan and across rescans |
| `SkylineFilter`, `RestartableFilter` | abstract: the same for the elimination filter |
| `BlockNestedLoop`, `SortFilterSkyline`, `ElimFilter` | the three nodes with a window, each with invariants and properties |
| `OneDim`, `OneDimDistinct`, `TwoDimPreSort`, `MaterializedNestedLoop` | the other methods (the last one with its Material node); they have actions only and are run by `SkylineNode` |
| `TupleStore` | a tuplestore as its callers see it: operators on a record |
| `TupleStoreSpec` | abstract: the same as a state machine |
| `TuplestoreFile` | the tuplestore's implementation: array, file, seek position |
| `SkylineNode` | composes the seven methods into the node, with Init, ReScan and End |
| `SkylineMethods`, `SkylineOptions` | what `skyline.c` knows about methods and options, as operators |
| `SkylinePlanner` | pathkeys, paths and the choice of the plan nodes, as operators |
| `SkylinePlan` | composes `SkylinePlanner`, a sort and `SkylineNode`: a query from plan to result |
| `SkylineRank_proofs` | theorems about dominance and ranks, what each operation of the tuple window preserves, and that descents end |
| `BlockNestedLoop_proofs`, `SortFilterSkyline_proofs`, `ElimFilter_proofs`, `TuplestoreFile_proofs` | theorems about the module of that name, with their proofs |
| `SkylineNodeMethods_proofs`, `SkylineNode_proofs` | theorems about `SkylineNode`: the first about its methods one by one, the second about the whole |
| `SkylinePlan_proofs` | theorems about `SkylinePlan`: from the table and the planner's choices to the result |
| `MC...` | the plans, tables and queries of the runs |

The modules build on each other as follows: `Dominance`, `TupleWindow`,
`SkylineRank`, `SkylinePlans` and `Descent` are the base of the window methods; `Dominance` and `TupleStore`
that of the others; `SkylineNode` instantiates all seven over one set of
variables, the fields of `SkylineState`; `SkylinePlan` extends it.
`TupleWindow` defines `LinkAt` and `UnlinkAt` itself rather than take them from
`SequencesExt`: a module that is extended is copied into each instance of the
modules above it and from there into each proof obligation.

### How state and actions correspond to the code

A *plan* is what the planner and the options hand the node: the columns, the
rows of the outer plan in the order in which they arrive, the placement policy,
the number of slots, the memory. `Init` chooses one, so that one run covers all
of them; within a scan `node` and `input` never change.

Tuples are named by their position in `input`. A file or a window slot holds
such names; the columns are looked up when two tuples are compared. Equal rows
thus remain different tuples.

The doubly linked list of the window is the sequence `slots`. A pointer to a
slot is its position and a pointer to the sentinel `nil` the position after the
last one, so inserting and removing a slot shifts the positions behind it (the
pointers in the C code stay where they are). The rank cursor that
`tuplewindow_clean` leaves behind is `Dangling`. Memory is a small number
instead of bytes; a row takes `TupleSpace(row)`.

`status`, `source`, `window`, `tempIn`, `tempOut`, `timestampIn` and
`timestampOut` are the fields of `SkylineState` (`include/nodes/execnodes.h`
1371-1400). `slot` is the local variable of `SS_PROCESS` that holds the tuple
being compared, `outerPos` and `tempInPos` are the positions of the outer plan
and of the tuplestore that is read, `output` is what has been returned.

One action is one turn of the loops of the C function; a tuple is returned by
the action that appends to `output`.

| module, action | code (`nodeSkyline.c`, for `ElimFilter` `nodeElimFilter.c`) |
|---|---|
| `BlockNestedLoop`: `Start` | 868-884, `SS_INIT` |
| `FetchOuter`, `FetchTemp` | 893-909 and 962-973: read a tuple, rewind, set the insert rank |
| `Drop`, `RemoveDominated`, `MoveNext` | 997-1020: compare with the window tuple at the cursor |
| `PutInWindow`, `WriteToTemp` | 978-995: not dominated |
| `LastPass`, `NextPass` | 911-959: the source is exhausted |
| `PipeOut`, `PipeOutSkip`, `PipeOutEnd` | 1029-1058, `SS_PIPEOUT` |
| `FinalPipeOut`, `Finish`, `ReturnNull` | 1060-1076 |
| `SortFilterSkyline`: `Start` | 1098-1113 |
| `FetchOuter`, `FetchTemp` | 1122-1138 and 1196-1205 |
| `Drop`, `MoveNext` | 1235-1247; `MoveNext` goes on where the assertion would fail, as a build without assertions does |
| `PutInWindow`, `WriteToTemp` | 1210-1232: return the tuple, or keep it for the next pass |
| `LastPass`, `NextPass`, `ReturnNull` | 1140-1192, 1253 |
| `ElimFilter`: `Start`, `Fetch`, `EndOfInput` | 223-245 |
| `Drop`, `RemoveDominated`, `MoveNext`, `PassOn` | 246-275; `PassOn` includes the forced insertion |
| `OneDim`: `FetchFirst`, `FetchEqual`, `FetchBetter`, `FetchWorse`, `EndOfInput` | 636-680, the loop of `SS_INIT` |
| `PipeOut`, `PipeOutEnd` | 684-696 |
| `OneDimDistinct`: `Start`, `Fetch`, `EndOfInput` | 552-594; `Start` leaves `datum1` uninitialized, any value of `Garbage` |
| `TwoDimPreSort`: `ReturnFirst`, `Return`, `Skip`, `EndOfInput` | 722-756 |
| `MaterializedNestedLoop`: `Start`, `NextOuter`, `Finish` | 781-807 |
| `Eliminate`, `Continue`, `Return` | 809-841 |
| `SkylineNode`: `ExecSkyline` | 1264-1293, one step of the method |
| `ExecReScanSkyline`, `ExecEndSkyline` | 1319-1363, 1295-1317, `nodeElimFilter.c` 161-204 |

`Drop`, `PutInWindow` and `WriteToTemp` of BNL include the rewind and the switch
to `SS_PIPEOUT` (1023-1024) that follow the `break`.

**Loops over the columns.** `ExecSkylineRank` and `ExecSkylineIsDominating` are the
loops of the C functions, as recursive functions of the number of columns done, with
`RankAfter` and `ResultAfter` for one turn. The methods compare with `IsDominating`,
which says the same of all columns at once; `LoopComparesRows` is the proof.

**Ranks.** The rank is minus a sum of logarithms. It is only ever compared, so
`SkylineRank` uses minus a product of integers that orders tuples the same way;
rounding is not modelled. NaN is: `RankGeq` is false when one side is NaN, as a
comparison of doubles is. `ExecInitSkyline`'s fall-back from "entropy" to
"append" (429-446) and its error for zero slots (381) are in `WindowPolicy` and
`Init`.

**Tuplestores.** The methods use the operators of `TupleStore`: a sequence, the
number of tuples read, a mark, whether a read has met the end. `TuplestoreFile`
is the C module: three states, an array that `tuplestore_trim` shortens, one
seek position that is the read position in `TSS_READFILE` and the write position
in `TSS_WRITEFILE`, and saved positions that are valid in some states only.
Positions in the file count tuples. A call is one action, with one disjunct for
each state. The temporary files of BNL and SFS, written to the end and then read
once, stay sequences with a read position.

**The life cycle.** `inParent` is true when the parent runs, that is before the
first call and whenever a call has returned; then it may call `ExecSkyline`
again, rescan or end the query. `ExecReScanSkyline` resets what the code resets
and nothing else. The outer plan starts again, over the same rows, or over
others when a parameter has changed; the Material node below the nested loop
then keeps its tuples or gives them up (`ExecMaterialReScan`). With a changed
parameter the code rescans the outer plan at its next call (`chgParam`), the model at
once: nothing looks at the outer plan in between, except `ExecMarkPos` of the nested
loop, which finds no tuplestore or marks one that is about to be discarded, with
the same effect. `freed` says that `tuplewindow_end` has been called for the
window that `state->window` points to, `usedFreed` that it has been once more. A
tuple of the scan before in the result slot is `Stale` when the rows have
changed.

**The planner.** A query is `[table, skyline, colIdx, distinct, options, orderBy,
indexes]`: the columns of the SKYLINE OF list as the skyline node has them, and
their numbers in the table. Pathkeys are sequences of canonical keys, so equal keys are one key as
in the code. A path is known by its pathkeys; which paths are cheap is unknown,
so `QueryPlannerResults` contains every outcome of `query_planner`'s choices by
cost. `BestPath`, `Method`, `NeedsSort`, `PathkeysAfterSkyline` and `PlanNodes`
are `grouping_planner` for a query with a SKYLINE OF clause and perhaps an ORDER
BY, without GROUP BY. `SkylinePlan` then runs the nodes that were planned. In
the code they run together, each pulling from the one below; as none of them
sees anything of the others but the sequence it pulls, `SkylinePlan` runs one to
its end before it starts the next. Each starts in the state `ExecInitSkyline`
makes for it (`StartNode`); a window that can hold nothing is an error of either
node (`WindowsAccepted`). `NodePlan` is the plan of a node for the rows
below it, and `NodePlans` those that the planner can make for the queries:
they are the `Plans` of `SkylineNode`. A sort returns any permutation in the order
of its keys.

**The abstract specifications.** `SkylineQuery` may return any tuple that is in
the skyline and has not been returned (under DISTINCT: none equal to it has). It
says nothing about the order, because BNL does not preserve it (thesis,
2044-2070); `PreservesOrder` says it for the methods that do.
`SkylineFilter` passes tuples on in their order and may leave one out only if a
tuple it has passed on dominates it, or under DISTINCT equals it.
`RestartableQuery` and `RestartableFilter` add a step that starts again, with
the same node and perhaps other rows. In all refinements `output` maps to
`output`; `done` is `status = "SS_DONE"`, in `SkylineNode` a variable that is set
when NULL has been returned. `TuplestoreFile` maps `pos` to the position of the
current state plus the number of tuples that have been trimmed, and the mark
likewise as long as the caller may go back to it.

## Runs

| run | module, configuration | result |
|---|---|---|
| `bnl` | `MCBlockNestedLoop`, `BlockNestedLoop.cfg` | `TypeOK`, `IInv`, `RankOrder`, `SpaceInv`, `ImplementsQuery`, `Termination` and `Progress` hold; 266 371 states |
| `bnl_negative_slots` | `MCBlockNestedLoop`, `NegativeSlots.cfg` | `Termination` is violated |
| `bnl_mcv_rank` | `MCBlockNestedLoop`, `McvRank.cfg` | `RankOrder` is violated |
| `sfs` | `MCSortFilterSkyline`, `SortFilterSkyline.cfg` | `TypeOK`, `SortFilterInv`, `RankOrder`, `WindowNeverDominated`, `ImplementsQuery`, `PreservesOrder`, `Termination` and `Progress` hold; 116 534 states |
| `elim_filter` | `MCElimFilter`, `ElimFilter.cfg` | `FilterInv`, `RankOrder`, `SpaceInv`, `ImplementsFilter`, `GivesUpLowestRank`, `Termination` and `Progress` hold; 92 991 states |
| `tuplestore` | `TuplestoreFile`, `TuplestoreFile.cfg` | `TypeOK`, `PositionsInv` and `ImplementsStore` hold; 33 701 states |
| `skyline_node` | `MCSkylineNode`, `SkylineNode.cfg` | `NodeInv`, `NeverUsesFreedWindow`, `ImplementsRestartableQuery`, `ImplementsRestartableFilter`, `PreservesOrder` and `Termination` hold; 69 896 states |
| `node_rescan_bnl` | `MCSkylineNode`, `RescanFreedWindow.cfg` | `NeverUsesFreedWindow` is violated |
| `node_rescan_1dim_distinct` | `MCSkylineNode`, `RescanStaleSlot.cfg` | `ImplementsRestartableQuery` is violated |
| `skyline_plan` | `MCSkylinePlan`, `SkylinePlan.cfg` | `ResultIsSkyline`, `ResultIsOrdered`, `AssertNotDominated` and `PlanTermination` hold; 306 882 states |
| `plan_index` | `MCSkylinePlan`, `PlanIndexGap.cfg` | `AssertNotDominated` is violated |
| `plan_diff` | `MCSkylinePlan`, `PlanDiff.cfg` | `ResultIsSkyline` is violated |

Each run takes all the plans or queries it is about as initial states.

**Bounds of `bnl`.** `AllPlans` is the union of four sets:

- `GridPlans`: all tables of at most 3 rows over a 2 x 3 grid, with and without
  DISTINCT, policies append, prepend and entropy, 1 or 2 slots. Two MIN columns
  are enough for every outcome of the comparison, and 3 rows over a window of 1
  are enough for chains, ties, duplicates in different places, removal of a
  window tuple that has been stamped, and a second and third pass.
- `ChainPlans`: 4 tuples whose two columns are any two permutations, so every
  order of arrival of every two-dimensional dominance order, policies append
  and random (ranks from `{0, 1}`), 1 or 2 slots. This holds the thesis's
  example of non-termination (n = m = 1 has 3 tuples) and its variants.
- `NullPlans`: a MAX column with NULLs first and a DIFF column, both with NULLs.
  Only the DIFF column has statistics, so that policy entropy stays in effect
  and ranks all tuples the same.
- `MemoryPlans`: no limit in slots (-1), memory for one or two rows, up to 4
  rows of different sizes; the window runs below zero. Without statistics the
  policy falls back to append.

**Bounds of `sfs`.** All tables of at most 4 rows over a 2 x 3 grid that are
sorted in the sense the method needs, whatever keys they were sorted by; every
order of 5 incomparable rows over a window of 1 or 2, which takes up to 5 passes;
NULLs, MAX and DIFF; windows limited by memory. For `Termination` and
`PreservesOrder` also tables that are not sorted.

**Bounds of `elim_filter`.** The same kinds of tables, unsorted; all orders of 4
incomparable rows with random ranks and with entropy ranks over 1 to 3 slots, so
that the lowest ranked tuple makes way for the one to insert; memory limits under
which it makes way in vain; and a negative number of slots, with which the filter
passes everything on.

**Bounds of `tuplestore`.** Memory for 0, 2 or 3 tuples, 5 puts, and any number of
the other calls: the change to the file happens at once, in the middle or never, and
every change between reading and writing after each kind of positioning.

**Bounds of `skyline_node`.** Two scans of each plan, with a rescan before the
first call, between any two calls, or after NULL, over the same table or another
one; or the end of the query at any call. 1DIM has all tables of 3 rows over
`{1, 2, NULL}`, 2DIM PRESORT and SFS the sorted tables of 3 and 4 rows, 2DIM PRESORT
those of one column, too (`WITH PRESORT` does not ask for two), the
others all tables of 2 rows over a 2 x 2 grid and of 3 rows over four points that
have a chain and incomparable tuples. A third scan starts from the same kind of
leftovers as the second. Left out are the two rescans that the violation runs
show to fail: of BNL after NULL, and of 1DIM DISTINCT.

**Bounds of `skyline_plan`.** Tables of 2 rows, all of them over two columns with
two values, and five of 3 rows, among them those in which the order of the columns
decides who is seen first; SKYLINE OF one, two and three MIN columns, of
a MIN and a MAX column, and with a DIFF column; DISTINCT; default and forced methods,
two methods at once; with and without the elimination filter; and options given twice
or by their synonyms. Two-column queries with the default method run over six sets of
indexes - none, or one or two with the skyline columns in any order or not all of
them - and, over 3 rows, with four ORDER BY clauses: none and those that the
skyline's, an index's or no order meets; over 2 rows with two of them. Three-column
ones leave out two of the sets and one of the clauses, with `NOINDEX` and without;
forced methods have an index on (b, a) or on (b, a DESC); one column has an index of
its own, and the queries with a DIFF column have none. `AllQueries` are those for which `ColumnsInFront` and `DiffRespected`
hold, which are also the hypotheses of the theorems about `SkylinePlan`; what
is left out by them is what the runs `plan_index` and `plan_diff` show to fail.

The plans of `bnl` and `sfs` satisfy `LimitsAccepted`, the hypothesis of the theorems
about `Progress`; `MCBlockNestedLoop` evaluates on the rows of its plans that the loops
over the columns do what is proved of them (`LoopsAsProved`).

**Properties.** `RankOrder` is the comment at `tuplewindow.c` 526-528. `SpaceInv`
compares the free memory and slots of the window with what its tuples take.
`Progress` is the reason for `Termination`, step by step: each step lowers a tuple
of numbers, of which the first that differs counts.
`Termination` is `<>(status = "SS_DONE")`, in `SkylineNode` that each scan the
parent does not break off ends. `IInv`, `SortFilterInv`, `FilterInv`,
and `TypeOK` with `PositionsInv` for the tuplestore, are inductive invariants: see
below.
`WindowNeverDominated` and `AssertNotDominated` are the assertion at
`nodeSkyline.c` 1246, once for sorted input and once for the input the planner
provides. `ResultIsSkyline` does not mention a plan: it compares the result with
the table. Every property of the passing runs is violated by a small change of
one definition (`mutants` in `PROJECT.json`), such as BNL's `EndOfTuple` as
originally published for `Termination`.

**Fairness.** `FairSpec` adds `WF_vars(Next)`, in `SkylineNode`
`WF_vars(ExecSkyline)` and in `SkylinePlan` `WF_allVars(PlanNext)`: the executor
calls the node until it returns NULL, and the outer plan answers every call.
A parent that rescans is not obliged to, nor is it to end the query; it does
read on if it does neither. Nothing stronger is assumed; which action is taken is
determined by the state, except for the rank that policy random draws.

**What the violations show.**

- `bnl_negative_slots`: only `window_slots == 0` is rejected
  (`nodeSkyline.c` 381). `SLOTS=-2` parses (`var_value` is `NumericOnly`), and
  then `availSlots` is neither -1 nor positive: every tuple goes to the
  temporary file in every pass. The behaviour that TLC finds is one row, written
  and read for ever.
- `bnl_mcv_rank`: a column whose statistics give the range 0 has `colScale`
  = 1/0 (`createplan.c` 2824-2828, `SKYLINE_RANK_EPSILON` is 0.0), and the value
  equal to `colMin` gets the rank 0 * infinity. In the window its tuple stops
  the rank cursor and the tuples behind it are no longer ordered. The result of
  the query is still right: `ImplementsQuery` does not depend on ranks, as the
  proof shows for NaN as well. A single-valued column has such statistics, and so
  does a MAX column that has most common values but no histogram, since
  `get_variable_range` is given its ">" operator and swaps minimum and maximum.
- `node_rescan_bnl`: at the end of its result BNL frees the window (1063) and
  leaves `state->window` as it is; the rescan frees it again (367). Until NULL has
  been returned a rescan of BNL is right, as `skyline_node` shows.
- `node_rescan_1dim_distinct`: the method takes its result slot to be empty when
  it starts (571), and the rescan does not empty it. The first tuple of the
  second scan is compared with an uninitialized value, and the result may be a tuple
  of the first scan.
- `plan_index`: `skyline_pathkeys_contained_in` (`pathkeys.c` 386) accepts the
  index (x, b, a) for SKYLINE OF a MIN, b MIN. TLC finds three rows of which the
  second dominates the first, which SFS has returned. With the skyline columns in
  front, in any order, the assertion holds, as `skyline_plan` shows.
- `plan_diff`: for SKYLINE OF a MIN, b DIFF, 2DIM PRESORT returns a tuple that one
  of its own group dominates, because a tuple of another group was returned in
  between and the method remembers one tuple only.

## Proofs

The proofs are about the dominance test, the tuple window, the three methods with
a window (BNL, SFS, EF), the tuplestore, the skyline node with all its methods
and rescans, and queries from the planner's choices to their result. All theorems
are checked by TLAPS for every value of the
constants that satisfies the assumptions: any set of plans, any number of
columns and rows, any limits.

| module | theorems, each `Spec => ...` unless said otherwise |
|---|---|
| `SkylineRank_proofs` | `DominanceIrreflexive`, `DominanceMirror`, `DominanceTransitive`, `LoopComparesRows`, `RankIsMonotone`, `DescentEnds`, about the operators; lemmas: what each operation of the window preserves |
| `BlockNestedLoop_proofs` | `[]TypeOK`, `[]IInv`, `[]SpaceInv`, `ImplementsQuery`; `[]RankOrder` given `RangesKnown`; `Progress` given `LimitsAccepted` |
| `SortFilterSkyline_proofs` | `[]TypeOK`, `[]SortFilterInv`, `PreservesOrder`; `[]WindowNeverDominated` and `ImplementsQuery`, which are about sorted input; `[]RankOrder` given `RangesKnown`; `Progress` given `LimitsAccepted` |
| `ElimFilter_proofs` | `[]FilterInv`, `[]SpaceInv`, `ImplementsFilter`, `Progress`; `[]RankOrder` and `GivesUpLowestRank` given `RangesKnown` |
| `TuplestoreFile_proofs` | `[]TypeOK`, `[]PositionsInv`, `ImplementsStore` |
| `SkylineNodeMethods_proofs` | lemmas only: what each method without a window, the rescan and the end of the query preserve, and why what those methods return is the skyline |
| `SkylineNode_proofs` | `[]NodeInv`, `PreservesOrder`, `ImplementsRestartableFilter`; `ImplementsRestartableQuery` and `[]NeverUsesFreedWindow` given that every plan is `WellPlanned` |
| `SkylinePlan_proofs` | `PlanSpec => []ResultIsOrdered`; `[]AssertNotDominated` given `ColumnsInFront`; `[]ResultIsSkyline`, and that every running node is `WellPlanned`, given `ColumnsInFront` and `DiffRespected` |

**Assumptions.** `NullAssumption`: NULL is not an integer. `PlansAssumption` and
`NodePlansAssumption`: each plan is well typed. `RanksAssumption` and
`NodeRanksAssumption`: NaN is not an integer, random ranks are integers, and a row
takes a natural number of units of memory. `-DBL_MAX` being below every
rank is not used. `LimitsAssumption` types the memory of a tuplestore.
`QueriesAssumption` types a query: at least one skyline column, with values for it
in every row. `NodePlansOfQueries` says that `Plans` has the plans the queries
lead to, which ties the constant of `SkylineNode` to that of `SkylinePlan`; in the
runs the two sets are equal. These are the only assumptions; `RangesKnown` is a hypothesis of the theorems about ranks,
that no statistics give a ranked column the range 0. The run `bnl_mcv_rank` shows that
it is needed. Nothing else depends on ranks, so nothing else needs it.
`WellPlanned` is the second hypothesis, see the skyline node below,
`ColumnsInFront` with `DiffRespected` the third, see the query, and `LimitsAccepted`
the fourth: the window has space when it is empty, because its slots are limited to a
positive number or not limited (-1) and its memory is not negative. Without it there
is no `Progress`, nor `Termination`, as `bnl_negative_slots` shows.

**Dominance.** `DominanceMirror`, `DominanceIrreflexive` and
`DominanceTransitive` hold for any columns, directions, NULLs orderings and
values. They rest on `CompareAntisymmetric` and its companions, that
`ApplyCompare` is a total preorder on integers and NULL.

**The loops over the columns.** The loops are functions defined by recursion, and
what they return is proved by induction over the columns, which the library's
theorems, taking an operator, cannot be used for. The induction is done on a set
instead (`Induction`): a set of numbers with 0 in it that is closed under adding 1
has every number, since otherwise there would be a least one missing. A recursive
definition is brought into play by showing that a function with its equations exists.
`LoopComparesRows`: the loop of `ExecSkylineIsDominating`, which gives up at the first
column that decides, returns what `IsDominating` says. `RankIsMonotone`: a tuple
never ranks below one that it dominates, so that what entropy keeps in a full window
is what eliminates most. That needs `Rankable`: no range of 0, and no NULL in a
descending column. For the latter the code clamps a NULL to the end of the scale at
which it is sorted and then mirrors it together with the values (`nodeSkyline.c` 224-230
and 267-268), so that it ranks as if it were at the other end. The order of the window
is heuristic, and no result depends on it.

**Block nested loop.** `TypeOK` is inductive together with "`node` and `input`
come from a plan", without which nothing is known about ranks and sizes. Why BNL
may return a tuple is not visible in its state; `IInv` makes it so:

- `TimestampInv`: the counters are the lengths of the files; a tuple of the first
  pass never bears the stamp that `SS_PIPEOUT` looks for.
- `PlacesInv`: a tuple that has been read is in one place only - window, one of
  the two files, `slot`.
- `ComparedInv`: a window tuple is independent (neither beats the other) of the
  other window tuples; of each tuple of `tempOut` written after it came (all of
  them, if it is from an earlier pass); of each unread tuple of `tempIn` behind
  its stamp, if it is from an earlier pass; and of `slot`, if the cursor has
  passed it. When the stamp equals `timestampIn` this covers everything that is
  left, and the tuple can be returned.
- `EmittedInv`: a returned tuple is independent of the others and of all
  tuples still pending.
- `CoveredInv`: a tuple is eliminated because of one that is still there. When
  a tuple is dropped because of one that is later removed, transitivity of
  dominance is what keeps this true.
- `PhaseInv`: where tuples can be in each status; at `SS_DONE`, nowhere.

`ImplementsQuery`: returning a tuple is an `Emit` because `IInv` before the step
says nothing pending or returned beats it and `CoveredInv` that nothing else
does; `Finish` maps to the abstract `Finish`, since with nothing pending each
tuple has been returned or is beaten by one that has been; every other action
stutters.

**Sort filter skyline.** `SortFilterInv` holds on any input. It says where each
tuple is, which tuples of the window it has been compared with, and that
positions ascend from the output to what is pending. From it follow
`PreservesOrder`, and on sorted input, where a tuple is never dominated by a later
one, that a tuple can be returned as it goes into the window. The rank cursor is the
exception in `TypeOK`: `tuplewindow_clean` does not reset it, so until the rewind
for the next tuple it may point to a slot that has been freed. The proof shows
that nothing uses it in between.

**Elimination filter.** `FilterInv`: a tuple that has been read has been passed
on, is `slot`, or is `Superfluous` because of one passed on; a window slot holds
a tuple that has been passed on. A forced insertion may give up any slot, as the
invariant does not say which tuples are in the window.

**Space.** `SpaceTaken` is a recursive sum over the slots. `LinkSpace` and
`UnlinkSpace` say what a slot put in or taken out anywhere in the list does to it, by
induction over the list; from there `SpaceKept` is preserved by each operation of the
window, also by a forced insertion that makes room in vain. `SpaceInv` follows, and
`EmptyHasSpace`: an empty window has all of its limits free.

**Progress.** Each method has a `Variant`, a tuple of natural numbers, and every step
that changes anything lowers the first number that it changes (`Descends`).
`DescentEnds` proves that no sequence of such tuples descends for ever. The numbers
are: the statuses left; the tuples that are still to be handled (for BNL with
those in the window, then without); whether the pass may change nothing else; the
tuples to be read in this pass; where in its turn the method is; and the slots in
front of the cursor. The third is the point.

- SFS: a pass that handles no tuple begins with space in its window (`EmptyHasSpace`,
  as NextPass cleans it), and a tuple is written only when there is none: the pass
  that begins is the last of its kind.
- BNL: a pass in which no tuple is eliminated, returned or put into the window begins
  with nothing but tuples of earlier passes in it (`Old`). When it ends, all of
  them must have left (`NoneOldAtEnd`), so it cannot be repeated. This is
  what the published algorithm lacks. It needs an invariant that `IInv` does not have,
  `StampInv`: the stamp of an old tuple is a place in the file that is read, that of a
  new one in the file that is written (`StampsInFiles`); the tuples that the cursor of
  `SS_PIPEOUT` has passed, and between two tuples all of them, have a stamp other than
  `timestampIn` (`PassedIncomplete`, `NoneComplete`). At the end of the file, where
  `timestampIn` is its length, no stamp of an old tuple is left. TLC evaluated it
  before it was proved.
- EF reads its input once; its variant has no such number and needs no hypothesis.

**Ranks.** The order of a ranked window is inductive together with the place of
the rank cursor between a rewind and the insertion (`RankInv`): the slots in
front of it rank at least as high as the tuple to insert, and the slot at which it
stops, if the cursor has gone on, ranks lower.

**Tuplestore.** `PositionsInv` with the types is inductive: in each state, which of the
saved positions is valid, and that it lies within the tuples that have not been
trimmed. Each call, in each state and across the two changes of state, is then
the step of `TupleStoreSpec` of the same name.

**Skyline node.** Seven methods work on one `SkylineState`, and `NodeInv` says
what each of them may rely on when it is called, whatever happened before: that no
loop is left behind while the parent runs; that the tuplestore of 1DIM holds what
is to be returned, in order; that the Material node holds what it has read and its
mark is where MNL's outer loop goes on; that output and input are in step. The
inductive invariant `IInv` of `SkylineNode_proofs` is

- `BaseInv`: `NodeInv`, types (`NodeTypes`), and when NULL has been returned
  (`DoneInv`);
- `WindowInv`: once a scan has started, the inductive invariant that the module of
  a method with a window proves; until then, a fresh window.

The window methods are not proved again. Their modules speak of a set of plans with one
input each, the node of plans with several; `WindowPlans` splits the latter,
and the lemmas `Same...` show that the actions of the two instances are the
same formulas. The invariant of BNL, SFS and EF is established by a lemma about the
moment at which nothing has been read (`NothingReadIInv`), which holds after
`Init` and also after a rescan that finds the counters, files and source of the
scan before. `NodeInvCorrect` covers every moment of a rescan, also that of BNL after
NULL: the model's window is replaced, and that the code frees the old one twice is
what the flag `usedFreed` and the run `node_rescan_bnl` are for.

`RestartableFilterCorrect`: a step of EF is one of the abstract filter, by the proof
of `ImplementsFilter`; a rescan is a `Restart`; and other methods leave the
formula true.

`RestartableQueryCorrect`: every scan of every method but EF returns the skyline,
once and completely. It needs more than `IInv`, namely what each method without
a window has decided about the tuples it has read (`QueryInv` of
`SkylineNodeMethods_proofs`):

- `OneDimQuery`: in the loop of 1DIM, `datum` is the value of a tuple read and no
  worse than any other, and the tuples left in the store are those with that value;
  behind the loop they are all of the skyline that has not been returned.
- `OneDimDistinctQuery`: the result slot holds the best tuple read, and is empty
  before the scan. That it is empty is what a rescan breaks.
- `PresortQuery`: of the tuples that 2DIM PRESORT has read, the one returned last is
  in the skyline and the best in the column that the input is sorted by second (or
  in its only one);
  `SortedNotDominated` and `PresortCompare` show that a later tuple is in the
  skyline if and only if it improves on it.
- `MaterialQuery`: MNL's outer loop is done with the tuples in front of its own, and
  none that the inner loop has read eliminates that one.
- `EmittedIds`: what is returned is a tuple of the outer plan.

Of equal tuples 1DIM DISTINCT, 2DIM PRESORT and MNL return the first, and with DISTINCT
none of the others may come out after it. For BNL and SFS the step is one of the
query by the proofs of their modules. A rescan keeps `QueryInv` because nothing has
been decided in `SS_INIT`.

The hypothesis `WellPlanned` is what the methods rely on and do not check: one column
for the 1DIM methods and at most two for 2DIM PRESORT, none of them DIFF; a sorted input for
2DIM PRESORT; for SFS one in which no tuple dominates an earlier one. It is what
`skyline_choose_method` asks for (the number of columns, `DISTINCT`, the pathkeys),
with two exceptions, which are findings: it does not exclude DIFF columns
(`plan_diff`), and it takes some index orders for sorted that are not
(`plan_index`). The last part of `WellPlanned` is about the parent: it does not rescan
1DIM DISTINCT (`node_rescan_1dim_distinct`), nor BNL after NULL
(`node_rescan_bnl`). The latter is not used by `RestartableQueryCorrect`, as the
model replaces the window; `NeverUsesFreedWindowCorrect` is the theorem that needs
it: only BNL frees its window before the end of the query, and only with its last
step, so a parent that does not rescan after that step never has it freed
twice. Every plan of the run `skyline_node` is well planned, which TLC evaluates
(`SafePlansAreWellPlanned`), so the hypothesis is not an empty one.

**The query.** `SkylinePlan` brings the planner and the nodes together, and
`ResultIsSkylineCorrect` is the theorem they are all for: for every table,
query, set of indexes, choice of path, method, window and filter, the
result is the skyline of the table. A node has been proved right for plans that
are `WellPlanned`; here that is proved of the plans. Two things are not true of
every query, because the planner relies on them without asking:

- `ColumnsInFront`: an index that has all skyline columns has no other column in
  front of one of them (run `plan_index`). `TruncateUseless` then leaves a path
  whose keys are the skyline's, in any order (`KeysOfPath`).
- `DiffRespected`: with one or two columns, one of them DIFF, the query forces a method
  that knows DIFF (run `plan_diff`).

`ResultIsOrdered` needs neither, and `AssertNotDominated` only the first.

The invariant has two parts. `StageInv` is about the plan:

- `Stage`: there is a path whose pathkeys explain where the plan is. In front of the
  filter the rows are in the order of the path, in front of the skyline node in that
  of the path or, behind a sort, of the skyline's pathkeys (`InputOrder`), at the end
  in that of ORDER BY;
- `PlanTypes`: the tuples are rows of the table, each of them once;
- `Running`: a node that runs has the plan made for it, satisfies the `IInv` of
  `SkylineNode_proofs`, and what it has returned are positions of its input, none
  of them twice, in ascending order if its method keeps the order.

The lemmas about sorting say what an order by pathkeys is worth: rows in the order of
keys that are those of the skyline are sorted for SFS (`RowsSortedForSkyline`: the
first key in which two rows differ is that of a skyline column, so the earlier row is
better in it) and for 2DIM PRESORT (`RowsSortedByColumns`), and rows that are a
part of sorted ones are sorted (`SortedSubsequence`), which is why the filter
may go below. `NodePlanned` concludes that each method `skyline_choose_method`
gives is planned for what it relies on.

`AnswerInv` is about the result. In front of the skyline node only superfluous rows
are missing (`Kept`): each is dominated by, or under DISTINCT equal to, one that is
there. Behind it the tuples are the answer (`Answers`). While a node runs it holds
what the node owes when it returns NULL (`QueryAnswered`, `FilterAnswered`), by the
steps of `RestartableQuery` and `RestartableFilter` that
`SkylineNode_proofs` shows its steps to be. `SkylineOfKept` is the
step from one to the other: the skyline of rows among which only superfluous
ones are missing is that of the table. That uses that dominance is
transitive, and for DISTINCT that rows equal in the sense of the comparison
have the same skyline columns. A sort changes the order only.

`StageInv` and `AnswerInv` were evaluated by TLC on the queries of `skyline_plan`
before they were proved.

**Only model-checked.**

- `Termination` and `PlanTermination`: liveness is out of the prover's reach. What is
  proved of it for BNL, SFS and EF is `Progress` and that a descent ends; what is left
  is that a step is always possible before the end (`ENABLED`) and, by fairness,
  taken.
- The violations.

Every other property of the passing runs is stated by a theorem.

## Plan

Done:

1. `Dominance`, `SkylineQuery`: what every method has to do.
2. `TupleWindow`, `SkylineRank`, `BlockNestedLoop`: the default method for
   unsorted input, with the most state.
3. `BlockNestedLoop_proofs`: `TypeOK`, `IInv`, `ImplementsQuery`.
4. `TupleWindow` completed: forced insertion, `tuplewindow_clean`.
5. `SortFilterSkyline` and `ElimFilter`.
6. The other methods, the tuplestore, and `SkylineNode` with ReScan and End.
7. The planner, and `SkylinePlan` with the composition EF - Sort - SFS.
8. Proofs for `SortFilterSkyline`, `ElimFilter` and `TuplestoreFile`; `RankOrder`
   for plans whose ranks are integers.
9. Proofs for `SkylineNode`: `NodeInv`, `PreservesOrder` and the restartable filter.
10. `ImplementsRestartableQuery` and `NeverUsesFreedWindow`, for plans that are well
    planned.
11. The plans of `SkylinePlanner` are well planned, and from it `ResultIsSkyline`,
    `ResultIsOrdered` and `AssertNotDominated`.

12. The loops over the columns, the space of the window, and the descents of the window
    methods.

Left:

13. A pointer-level tuple window, with the doubly linked list and its sentinel, that
    implements `TupleWindow`.
14. `Progress` for the methods without a window, and for `SkylinePlan`.

## Not modelled

- `ExecProcNode` failing, interrupts and I/O errors: the transaction aborts and
  the node's state with it. Temporary files that a rescan or the end of a query
  leaves open are closed at the end of the transaction.
- 64-bit overflow of timestamps, and rounding of ranks.
- Data types: a comparison function is used as a total order on integers. The
  coercion to float8 in `ExecSkylineRank` is the identity on them.
- Queries with GROUP BY, aggregates, DISTINCT, set operations, joins or LIMIT above
  or below the skyline: the model's access path is a scan of a table, sorted or not.
- Backward and `tuplestore_advance` reading, and growing the array of a tuplestore.
- The number of comparisons, the pass information for EXPLAIN, and costs.
- The analysis of the clause (`addTargetToSkylineList` looks operators up in the
  catalogs), parsing, node copying and printing, and the data set generator.
- The rest of PostgreSQL, in both copies of the tree: more than a million lines
  that the skyline operator did not change. Of the files that it added, the
  skyline nodes, the tuple window and `skyline.c`, the functions that keep a state or
  decide something are modelled.
