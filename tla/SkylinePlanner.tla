---------------------------- MODULE SkylinePlanner ----------------------------
(***************************************************************************)
(* How the planner comes to the plan of a skyline query: the sort orders   *)
(* (pathkeys) of the access paths (backend/optimizer/path/pathkeys.c), the *)
(* path query_planner and grouping_planner take (backend/optimizer/plan/   *)
(* planmain.c, planner.c) and the nodes put on top of it.                  *)
(*                                                                         *)
(* Pathkeys are sequences of canonical keys, [col, desc, nullsFirst], so   *)
(* that equal keys are one key.  Costs are left out: a choice by cost is a *)
(* choice of any of the paths.                                             *)
(***************************************************************************)
EXTENDS SkylineMethods, SkylineOptions

\* A query is [table, skyline, colIdx, distinct, options, orderBy, indexes]:
\* skyline is the SKYLINE OF list, colIdx the numbers its columns have in the
\* table, orderBy and the indexes are pathkeys.
Dim(q) == Len(q.skyline)

Forced(q) == skyline_method_forced_by_options(q.options)

\* make_pathkeys_for_skylineclause
SkylinePathkeys(q) ==
    [i \in 1..Dim(q) |-> [col |-> q.colIdx[i], desc |-> q.skyline[i].desc,
                          nullsFirst |-> q.skyline[i].nullsFirst]]

-----------------------------------------------------------------------------
(* Comparing pathkeys. *)

Keys(pathkeys) == {pathkeys[i] : i \in DOMAIN pathkeys}

\* Mutant of skyline_pathkeys_contained_in: the loop goes on after a key that
\* is not contained, and the last key decides.
LastKeyContained(keys1, keys2) == keys1 # <<>> => Last(keys1) \in Keys(keys2)

\* Each skyline column is somewhere among the sort columns.
skyline_pathkeys_contained_in(keys1, keys2) == Keys(keys1) \subseteq Keys(keys2)

pathkeys_contained_in(keys1, keys2) == IsPrefix(keys1, keys2)

\* pathkeys_useful_for_ordering and truncate_useless_pathkeys: the keys up to
\* the last one that the skyline has, too.
TruncateUseless(q, pathkeys) ==
    LET wanted == SkylinePathkeys(q)
        useful == {i \in DOMAIN pathkeys : pathkeys[i] \in Keys(wanted)}
    IN  IF pathkeys_contained_in(wanted, pathkeys) THEN wanted
        ELSE IF skyline_pathkeys_contained_in(wanted, pathkeys)
             THEN SubSeq(pathkeys, 1, Max(useful))
        ELSE <<>>

-----------------------------------------------------------------------------
(* The path. *)

NoPath == <<[col |-> 0, desc |-> FALSE, nullsFirst |-> FALSE]>>

\* final_rel->pathlist: a path is known by its pathkeys.
Paths(q) == {<<>>} \cup {TruncateUseless(q, index) : index \in q.indexes}

\* query_planner: the cheapest path of all, and among those that are sorted the
\* cheapest one, unless it is the same or would cost more than a sort.
QueryPlannerResults(q) ==
    LET wanted == SkylinePathkeys(q)
    IN  [cheapest : Paths(q),
         sorted   : {p \in Paths(q) : pathkeys_contained_in(wanted, p)} \cup {NoPath},
         skyline  : {p \in Paths(q) : skyline_pathkeys_contained_in(wanted, p)}
                      \cup {NoPath}]

\* grouping_planner: the path it takes from query_planner's three.
BestPath(q, paths) ==
    LET skyline == IF HasOption(q.options, "noindex") THEN NoPath ELSE paths.skyline
        presort == \/ Dim(q) = 2 /\ Forced(q) \in {"SM_UNKNOWN", "SM_2DIM_PRESORT"}
                   \/ Dim(q) >= 2 /\ Forced(q) \in {"SM_UNKNOWN", "SM_SFS"}
    IN  IF skyline # NoPath /\ presort THEN skyline
        ELSE IF paths.sorted # NoPath THEN paths.sorted
        ELSE paths.cheapest

-----------------------------------------------------------------------------
(* The nodes on top of the path, the lowest first. *)

Method(q, pathkeys) ==
    skyline_choose_method(Forced(q), Dim(q), q.distinct,
                          skyline_pathkeys_contained_in(SkylinePathkeys(q), pathkeys))

NeedsSort(q, pathkeys) ==
    /\ Method(q, pathkeys) \in {"SM_2DIM_PRESORT", "SM_SFS"}
    /\ ~skyline_pathkeys_contained_in(SkylinePathkeys(q), pathkeys)

\* current_pathkeys when the skyline node has been added.
PathkeysAfterSkyline(q, pathkeys) ==
    IF ~skyline_method_preserves_tuple_order(Method(q, pathkeys)) THEN <<>>
    ELSE IF NeedsSort(q, pathkeys) THEN SkylinePathkeys(q)
    ELSE pathkeys

\* The Material node is part of the materialized nested loop.
PlanNodes(q, pathkeys) ==
    LET optional(cond, planNode) == IF cond THEN <<planNode>> ELSE <<>>
    IN  optional(HasOption(q.options, "ef"), "SM_ELIMFILTER")
        \o optional(NeedsSort(q, pathkeys), "SORT_SKYLINE")
        \o <<Method(q, pathkeys)>>
        \o optional(~pathkeys_contained_in(q.orderBy, PathkeysAfterSkyline(q, pathkeys)),
                    "SORT_ORDER_BY")

=============================================================================
