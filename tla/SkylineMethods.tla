---------------------------- MODULE SkylineMethods ----------------------------
(***************************************************************************)
(* What the planner knows about the skyline methods                        *)
(* (backend/utils/skyline/skyline.c).                                      *)
(***************************************************************************)
EXTENDS Integers

Methods == {"SM_1DIM", "SM_1DIM_DISTINCT", "SM_2DIM_PRESORT",
            "SM_MATERIALIZEDNESTEDLOOP", "SM_BLOCKNESTEDLOOP", "SM_SFS",
            "SM_ELIMFILTER"}

\* The elimination filter is a node of its own, but shares the enumeration.
WindowMethods == {"SM_BLOCKNESTEDLOOP", "SM_SFS", "SM_ELIMFILTER"}

\* Mutant of skyline_method_preserves_tuple_order: the comment "even if the
\* relative order in the tuple window is preserved" taken for the code.
WindowPreservesOrder(method) == method \in Methods

skyline_method_preserves_tuple_order(method) == method # "SM_BLOCKNESTEDLOOP"

\* The method an option of the query forces, or else the default one.
skyline_choose_method(forced, dim, distinct, hasMatchingPath) ==
    IF forced # "SM_UNKNOWN" THEN forced
    ELSE CASE dim = 1 /\ ~distinct       -> "SM_1DIM"
           [] dim = 1 /\ distinct        -> "SM_1DIM_DISTINCT"
           [] dim = 2 /\ hasMatchingPath -> "SM_2DIM_PRESORT"
           [] dim > 2 /\ hasMatchingPath -> "SM_SFS"
           [] OTHER                      -> "SM_BLOCKNESTEDLOOP"

\* "2d with presort only works for <= 2 skyline dimensions" is an error.
MethodAccepted(method, dim) == ~(method = "SM_2DIM_PRESORT" /\ dim > 2)

=============================================================================
