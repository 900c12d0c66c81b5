----------------------------- MODULE SkylinePlan -----------------------------
(***************************************************************************)
(* A skyline query from its plan to its result: an access path, and on top *)
(* of it, as the planner decides, an elimination filter, a sort, the       *)
(* skyline node and a sort for ORDER BY.  The filter and the skyline node  *)
(* are those of ElimFilter and SkylineNode.                                *)
(*                                                                         *)
(* The code runs the nodes together, each pulling tuples from the one      *)
(* below.  None of them looks at anything but the sequence it pulls, so    *)
(* the specification runs one after the other.                             *)
(***************************************************************************)
EXTENDS SkylineNode, SkylinePlanner

CONSTANT Queries  \* the queries to plan and run

SortKey == [col : Nat, desc : BOOLEAN, nullsFirst : BOOLEAN]

ASSUME QueriesAssumption ==
    \A q \in Queries :
        /\ q.skyline \in Seq(Column) /\ q.skyline # <<>>
        /\ q.colIdx \in [1..Dim(q) -> Nat]
        /\ q.distinct \in BOOLEAN
        /\ q.orderBy \in Seq(SortKey) /\ q.indexes \subseteq Seq(SortKey)
        /\ q.options \in Seq(Range(q.options)) /\ q.table \in Seq(Range(q.table))
        /\ \A i \in DOMAIN q.table, k \in 1..Dim(q) : q.table[i][q.colIdx[k]] \in Datum

-----------------------------------------------------------------------------
(* The plan of a node as SkylineNode has it. *)

NodeOf(q) == [cols |-> q.skyline, skyline_distinct |-> q.distinct]

\* The skyline columns of a row of the table, and of those numbered by s.
SkylineRow(q, i) == [k \in 1..Dim(q) |-> q.table[i][q.colIdx[k]]]
SkylineRows(q, s) == [k \in DOMAIN s |-> SkylineRow(q, s[k])]

\* The filter has window options of its own.  Without an option for the slots
\* memory is the limit, here that of one tuple.
NodePlan(q, method, rows) ==
    LET isFilter == method = "SM_ELIMFILTER"
    IN  [method |-> method, node |-> NodeOf(q), inputs |-> {rows},
         policy |-> NodePolicy(q.options, isFilter),
         slots  |-> NodeSlots(q.options, isFilter),
         memory |-> 0, rescan |-> "NEVER"]

\* What a node may read: rows of the table, each of them once.
Selections(q) == UNION {Injection(1..n, DOMAIN q.table) : n \in 0..Len(q.table)}

\* The methods of the nodes its plan may have.
PlannedMethods(q) ==
    (UNION {Range(PlanNodes(q, pathkeys)) : pathkeys \in Paths(q)}) \cap Methods

NodePlans ==
    UNION {{NodePlan(q, method, SkylineRows(q, s)) :
              method \in PlannedMethods(q), s \in Selections(q)} : q \in Queries}

\* SkylineNode is assumed to be able to run them.
ASSUME NodePlansOfQueries == NodePlans \subseteq Plans

VARIABLES
    query,  \* the query
    todo,   \* the plan nodes that have not finished, the lowest first
    tuples  \* what the node that finished last has returned: rows of the table

allVars == <<vars, query, todo, tuples>>

-----------------------------------------------------------------------------
(* Sorting. *)

Less(pathkeys, row1, row2) ==
    LET cmp(k) == ApplyCompare(pathkeys[k], row1[pathkeys[k].col], row2[pathkeys[k].col])
    IN  \E k \in DOMAIN pathkeys : cmp(k) < 0 /\ \A m \in 1..k-1 : cmp(m) = 0

\* The tuple numbers in s are in the order of the pathkeys.
SortedBy(pathkeys, s) ==
    \A i, j \in DOMAIN s : i < j => ~Less(pathkeys, query.table[s[j]], query.table[s[i]])

\* The results of sorting s, which need not be stable.
Sorts(pathkeys, s) == {t \in Bijection(DOMAIN s, Range(s)) : SortedBy(pathkeys, t)}

-----------------------------------------------------------------------------

\* No node is running.
Idle ==
    /\ node = [cols |-> <<>>, skyline_distinct |-> FALSE]
    /\ plan = [method |-> "NONE"]
    /\ input = <<>> /\ window = NULL
    /\ status = "SS_DONE" /\ source = "SS_OUTER"
    /\ outerPos = 0 /\ output = <<>>
    /\ tempIn = <<>> /\ tempInPos = 0 /\ tempOut = <<>>
    /\ timestampIn = 0 /\ timestampOut = 0 /\ slot = 0
    /\ inLoop = FALSE /\ first = FALSE /\ datum = NULL
    /\ store = tuplestore_begin(FALSE)
    /\ resultSlot = 0
    /\ made = FALSE /\ underlying = FALSE
    /\ inner = FALSE /\ slPos = 0 /\ innerPos = 0
    /\ freed = FALSE /\ usedFreed = FALSE
    /\ inParent = TRUE /\ done = FALSE
    /\ scans = 1
    /\ ended = TRUE

\* A window that can hold no tuple is an error of either node.
WindowsAccepted(q, planNodes) ==
    \A planNode \in Range(planNodes) \cap WindowMethods :
        NodeSlots(q.options, planNode = "SM_ELIMFILTER") # 0

\* The access path returns the rows of the table in the order of its pathkeys.
PlanInit ==
    /\ Idle
    /\ query \in Queries
    /\ \E paths \in QueryPlannerResults(query) :
         LET pathkeys == BestPath(query, paths)
         IN  /\ MethodAccepted(Method(query, pathkeys), Dim(query))
             /\ WindowsAccepted(query, PlanNodes(query, pathkeys))
             /\ todo = PlanNodes(query, pathkeys)
             /\ tuples \in Sorts(pathkeys, [i \in DOMAIN query.table |-> i])

StartNode ==
    /\ ended /\ todo # <<>>
    /\ Head(todo) \in Methods
    /\ input' = SkylineRows(query, tuples)
    /\ plan' = NodePlan(query, Head(todo), input')
    /\ node' = plan'.node
    /\ window' = IF Head(todo) \in WindowMethods
                 THEN tuplewindow_begin(plan'.memory, plan'.slots, WindowPolicy(plan'))
                 ELSE NULL
    /\ status' = "SS_INIT" /\ source' = "SS_OUTER"
    /\ outerPos' = 0 /\ output' = <<>>
    /\ tempIn' = <<>> /\ tempInPos' = 0 /\ tempOut' = <<>>
    /\ timestampIn' = 0 /\ timestampOut' = 0 /\ slot' = 0
    /\ inLoop' = FALSE /\ first' = FALSE /\ datum' = NULL
    /\ store' = tuplestore_begin(FALSE)
    /\ resultSlot' = 0
    /\ made' = FALSE /\ underlying' = FALSE
    /\ inner' = FALSE /\ slPos' = 0 /\ innerPos' = 0
    /\ freed' = FALSE /\ usedFreed' = FALSE
    /\ inParent' = TRUE /\ done' = FALSE
    /\ scans' = 1
    /\ ended' = FALSE
    /\ UNCHANGED <<query, todo, tuples>>

\* The node has returned NULL: its tuples are the input of the next.
FinishNode ==
    /\ done /\ ~ended
    /\ tuples' = [k \in DOMAIN output |-> tuples[output[k]]]
    /\ todo' = Tail(todo)
    /\ freed' = FALSE
    /\ ended' = TRUE
    /\ UNCHANGED <<query, plan, node, input, outerPos, status, output, windowState,
                   inLoop, first, datum, store, resultSlot, materialState,
                   loopState, usedFreed, inParent, done, scans>>

Sort(planNode, pathkeys) ==
    /\ ended /\ todo # <<>>
    /\ Head(todo) = planNode
    /\ tuples' \in Sorts(pathkeys, tuples)
    /\ todo' = Tail(todo)
    /\ UNCHANGED <<vars, query>>

SortForSkyline == Sort("SORT_SKYLINE", SkylinePathkeys(query))
SortForOrderBy == Sort("SORT_ORDER_BY", query.orderBy)

\* The query has been answered.
Answered == todo = <<>> /\ UNCHANGED allVars

PlanNext ==
    \/ StartNode
    \/ ExecSkyline /\ UNCHANGED <<query, todo, tuples>>
    \/ FinishNode
    \/ SortForSkyline \/ SortForOrderBy
    \/ Answered

PlanSpec == PlanInit /\ [][PlanNext]_allVars

FairPlanSpec == PlanSpec /\ WF_allVars(PlanNext)

-----------------------------------------------------------------------------
(* Properties. *)

\* What the planner relies on without asking for it: an index that has the
\* skyline columns has them in front of all others,
ColumnsInFront(q) ==
    LET wanted == SkylinePathkeys(q)
    IN  \A index \in q.indexes : skyline_pathkeys_contained_in(wanted, index) =>
          \A k \in DOMAIN index : index[k] \in Keys(wanted) =>
            \A m \in 1..k : index[m] \in Keys(wanted)

\* and no column is DIFF if one of the methods for one or two columns is taken.
DiffRespected(q) ==
    \/ \A k \in DOMAIN q.skyline : q.skyline[k].dir # "DIFF"
    \/ Dim(q) > 2
    \/ Forced(q) \in {"SM_BLOCKNESTEDLOOP", "SM_MATERIALIZEDNESTEDLOOP", "SM_SFS"}

TableRows == DOMAIN query.table
BestRow(i) == \A j \in TableRows : ~Dominates(NodeOf(query), SkylineRow(query, j), SkylineRow(query, i))
Result == Range(tuples)

\* The query returns the skyline of the table, whichever path and method were
\* taken, with or without an elimination filter: each tuple that none dominates
\* once, under DISTINCT one for all that are equal.
ResultIsSkyline ==
    todo = <<>> =>
        /\ \A k, m \in DOMAIN tuples : k # m => tuples[k] # tuples[m]
        /\ \A i \in Result : BestRow(i)
        /\ IF query.distinct
           THEN \A i \in TableRows : BestRow(i) =>
                  \E j \in Result : /\ SkylineRow(query, j) = SkylineRow(query, i)
                                    /\ \A k \in Result \ {j} : SkylineRow(query, k) # SkylineRow(query, i)
           ELSE \A i \in TableRows : BestRow(i) => i \in Result

\* The result is in the order ORDER BY asks for, also where the planner left
\* out the sort because the nodes below keep or establish the order
\* (planner.c 1232-1256).
ResultIsOrdered == todo = <<>> => SortedBy(query.orderBy, tuples)

\* "Assert(cmp != SYKLINE_CMP_SECOND_DOMINATES)" (nodeSkyline.c 1246): the path
\* or the sort below a sort filter skyline gives it its input in an order in
\* which no tuple dominates one before it, also through an elimination filter.
AssertNotDominated ==
    ~ended /\ plan.method = "SM_SFS" /\ SFS!Comparing /\ ~tuplewindow_ateof(window) =>
        SFS!Cmp # "SECOND_DOMINATES"

\* Every plan comes to its end: each node returns NULL after finitely many calls.
PlanTermination == <>(todo = <<>>)

=============================================================================
