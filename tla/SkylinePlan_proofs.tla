-------------------------- MODULE SkylinePlan_proofs --------------------------
(***************************************************************************)
(* A query returns the skyline of its table, in the order of ORDER BY,     *)
(* whatever the planner (planner.c 1068-1256) decides: for every table,    *)
(* query, set of indexes and path.                                         *)
(*                                                                         *)
(* StageInv says how far the plan is and which order the rows left by the  *)
(* nodes below are in; from it each node is one that SkylineNode_proofs is *)
(* about (WellPlanned), and the order is kept up to the end.  AnswerInv    *)
(* adds what a running node has answered and what the nodes that have      *)
(* finished have left: after the filter some rows none of which beats the  *)
(* ones missing, after the skyline node the skyline.                       *)
(***************************************************************************)
EXTENDS SkylinePlan, SkylineNode_proofs, FiniteSetTheorems, SequenceTheorems

-----------------------------------------------------------------------------
(* Numbers. *)

\* A set of numbers that is bounded has a greatest.
LEMMA GreatestNumber ==
    ASSUME NEW n \in Nat, NEW T \in SUBSET (1..n), T # {}
    PROVE  Max(T) \in T /\ \A y \in T : y <= Max(T)
<1> DEFINE D == {n - t : t \in T}
<1>1. \A t \in T : t \in Int /\ t <= n
  OBVIOUS
<1>2. \A t \in T : n - t \in Nat
  BY <1>1
<1>3. D \in SUBSET Nat /\ D # {}
  BY <1>2
<1>4. PICK d \in D : \A e \in D : d <= e
  BY <1>3, LeastNumber
<1>5. PICK x \in T : d = n - x
  OBVIOUS
<1>6. \A y \in T : x >= y
  <2> TAKE y \in T
  <2>1. n - x <= n - y
    BY <1>4, <1>5
  <2> QED
    BY <1>1, <2>1
<1>7. Max(T) \in T /\ \A y \in T : Max(T) >= y
  BY <1>6, Zenon DEF Max
<1>8. Max(T) \in Int
  BY <1>1, <1>7
<1> QED
  BY <1>1, <1>7, <1>8

-----------------------------------------------------------------------------
(* The choice of the method. *)

\* The methods an option can force.
ForcedMethods ==
    {"SM_BLOCKNESTEDLOOP", "SM_MATERIALIZEDNESTEDLOOP", "SM_2DIM_PRESORT", "SM_SFS"}

\* The last option that names a method forces one of four.
LEMMA ForcedMethod ==
    ASSUME NEW q \in Queries
    PROVE  Forced(q) \in ForcedMethods \cup {"SM_UNKNOWN"}
<1> DEFINE methods == {k \in DOMAIN q.options : q.options[k].name \in DOMAIN MethodOption}
<1>1. q.options \in Seq(Range(q.options)) /\ Len(q.options) \in Nat
  BY QueriesAssumption
<1>2. methods \in SUBSET (1..Len(q.options))
  BY <1>1
<1>3. DOMAIN MethodOption = {"bnl", "mnl", "presort", "sfs"}
  BY DEF MethodOption
<1>4. \A name \in DOMAIN MethodOption : MethodOption[name] \in ForcedMethods
  BY <1>3 DEF MethodOption, ForcedMethods
<1>5. CASE methods = {}
  BY <1>5 DEF Forced, skyline_method_forced_by_options
<1>6. CASE methods # {}
  <2>1. Max(methods) \in methods
    BY <1>1, <1>2, <1>6, GreatestNumber
  <2> QED
    BY <1>4, <1>6, <2>1 DEF Forced, skyline_method_forced_by_options
<1> QED
  BY <1>5, <1>6

\* The method the default rules choose.
LEMMA DefaultMethod ==
    ASSUME NEW forced, forced = "SM_UNKNOWN", NEW dim \in Nat, dim >= 1,
           NEW distinct \in BOOLEAN, NEW matching \in BOOLEAN
    PROVE  skyline_choose_method(forced, dim, distinct, matching) =
             IF dim = 1 /\ ~distinct THEN "SM_1DIM"
             ELSE IF dim = 1 THEN "SM_1DIM_DISTINCT"
             ELSE IF dim = 2 /\ matching THEN "SM_2DIM_PRESORT"
             ELSE IF matching THEN "SM_SFS"
             ELSE "SM_BLOCKNESTEDLOOP"
<1> DEFINE method == skyline_choose_method(forced, dim, distinct, matching)
<1>1. ASSUME dim = 1 /\ ~distinct, ~(dim = 1 /\ distinct),
             ~(dim = 2 /\ matching), ~(dim > 2 /\ matching)
      PROVE  method = "SM_1DIM"
  BY <1>1, Zenon DEF skyline_choose_method
<1>2. ASSUME ~(dim = 1 /\ ~distinct), dim = 1 /\ distinct,
             ~(dim = 2 /\ matching), ~(dim > 2 /\ matching)
      PROVE  method = "SM_1DIM_DISTINCT"
  BY <1>2, Zenon DEF skyline_choose_method
<1>3. ASSUME ~(dim = 1 /\ ~distinct), ~(dim = 1 /\ distinct),
             dim = 2 /\ matching, ~(dim > 2 /\ matching)
      PROVE  method = "SM_2DIM_PRESORT"
  BY <1>3, Zenon DEF skyline_choose_method
<1>4. ASSUME ~(dim = 1 /\ ~distinct), ~(dim = 1 /\ distinct),
             ~(dim = 2 /\ matching), dim > 2 /\ matching
      PROVE  method = "SM_SFS"
  BY <1>4, Zenon DEF skyline_choose_method
<1>5. ASSUME ~(dim = 1 /\ ~distinct), ~(dim = 1 /\ distinct),
             ~(dim = 2 /\ matching), ~(dim > 2 /\ matching)
      PROVE  method = "SM_BLOCKNESTEDLOOP"
  BY <1>5, Zenon DEF skyline_choose_method
<1>6. dim # 1 => dim = 2 \/ dim > 2
  OBVIOUS
<1>7. dim = 2 => dim # 1 /\ ~(dim > 2)
  OBVIOUS
<1>8. dim = 1 => dim # 2 /\ ~(dim > 2)
  OBVIOUS
<1>9. dim > 2 => dim # 1 /\ dim # 2
  OBVIOUS
<1> HIDE DEF method
<1> QED
  BY <1>1, <1>2, <1>3, <1>4, <1>5, <1>6, <1>7, <1>8, <1>9, Zenon DEF method

\* What each of the methods is chosen for.
LEMMA ChosenMethod ==
    ASSUME NEW q \in Queries, NEW pk
    PROVE  /\ Method(q, pk) \in Methods /\ Method(q, pk) # "SM_ELIMFILTER"
           /\ Method(q, pk) = "SM_1DIM" => Dim(q) = 1 /\ ~q.distinct /\ Forced(q) = "SM_UNKNOWN"
           /\ Method(q, pk) = "SM_1DIM_DISTINCT" =>
                Dim(q) = 1 /\ q.distinct /\ Forced(q) = "SM_UNKNOWN"
           /\ Method(q, pk) = "SM_2DIM_PRESORT" /\ MethodAccepted(Method(q, pk), Dim(q)) =>
                Dim(q) \in {1, 2} /\ Forced(q) \in {"SM_UNKNOWN", "SM_2DIM_PRESORT"}
<1>1. Dim(q) \in Nat /\ Dim(q) >= 1 /\ q.distinct \in BOOLEAN
  BY QueriesAssumption DEF Dim
<1>2. Forced(q) \in ForcedMethods \cup {"SM_UNKNOWN"}
  BY ForcedMethod
<1>3. PICK matching \in BOOLEAN :
        Method(q, pk) = skyline_choose_method(Forced(q), Dim(q), q.distinct, matching)
  BY DEF Method, skyline_pathkeys_contained_in
<1>4. CASE Forced(q) # "SM_UNKNOWN"
  <2>1. Method(q, pk) = Forced(q)
    BY <1>3, <1>4 DEF skyline_choose_method
  <2> QED
    BY <1>1, <1>2, <1>4, <2>1 DEF ForcedMethods, Methods, MethodAccepted
<1>5. CASE Forced(q) = "SM_UNKNOWN"
  <2>1. Method(q, pk) =
             IF Dim(q) = 1 /\ ~q.distinct THEN "SM_1DIM"
             ELSE IF Dim(q) = 1 THEN "SM_1DIM_DISTINCT"
             ELSE IF Dim(q) = 2 /\ matching THEN "SM_2DIM_PRESORT"
             ELSE IF matching THEN "SM_SFS"
             ELSE "SM_BLOCKNESTEDLOOP"
    BY <1>1, <1>3, <1>5, DefaultMethod
  <2>2. /\ Method(q, pk) \in Methods /\ Method(q, pk) # "SM_ELIMFILTER"
        /\ Method(q, pk) = "SM_1DIM" => Dim(q) = 1 /\ ~q.distinct
        /\ Method(q, pk) = "SM_1DIM_DISTINCT" => Dim(q) = 1 /\ q.distinct
        /\ Method(q, pk) = "SM_2DIM_PRESORT" => Dim(q) = 2
    BY <1>1, <2>1, Zenon DEF Methods
  <2> QED
    BY <1>5, <2>2, Zenon
<1> QED
  BY <1>4, <1>5

-----------------------------------------------------------------------------
(* Paths. *)

\* grouping_planner takes one of the paths.
LEMMA BestPathIsPath ==
    ASSUME NEW q, NEW paths \in QueryPlannerResults(q)
    PROVE  BestPath(q, paths) \in Paths(q)
<1>1. /\ paths.cheapest \in Paths(q)
      /\ paths.sorted \in Paths(q) \cup {NoPath}
      /\ paths.skyline \in Paths(q) \cup {NoPath}
  BY DEF QueryPlannerResults
<1> QED
  BY <1>1 DEF BestPath

\* The skyline's pathkeys, one for each column.
LEMMA WantedKeys ==
    ASSUME NEW q \in Queries
    PROVE  /\ Dim(q) \in Nat /\ Dim(q) >= 1 /\ DOMAIN q.skyline = 1..Dim(q)
           /\ SkylinePathkeys(q) \in Seq(SortKey)
           /\ Len(SkylinePathkeys(q)) = Dim(q)
           /\ DOMAIN SkylinePathkeys(q) = 1..Dim(q)
           /\ \A c \in 1..Dim(q) : SkylinePathkeys(q)[c] =
                [col |-> q.colIdx[c], desc |-> q.skyline[c].desc,
                 nullsFirst |-> q.skyline[c].nullsFirst]
<1>1. /\ Dim(q) \in Nat /\ Dim(q) >= 1 /\ DOMAIN q.skyline = 1..Dim(q)
      /\ \A c \in 1..Dim(q) : q.skyline[c] \in Column /\ q.colIdx[c] \in Nat
  BY QueriesAssumption DEF Dim
<1>2. \A c \in 1..Dim(q) :
        [col |-> q.colIdx[c], desc |-> q.skyline[c].desc,
         nullsFirst |-> q.skyline[c].nullsFirst] \in SortKey
  BY <1>1 DEF Column, SortKey
<1> QED
  BY <1>1, <1>2 DEF SkylinePathkeys

\* What is left of an index that has the skyline's keys, but not in front.
LEMMA UsefulKeys ==
    ASSUME NEW q \in Queries, NEW index \in q.indexes,
           skyline_pathkeys_contained_in(SkylinePathkeys(q), index)
    PROVE  LET useful == {i \in DOMAIN index : index[i] \in Keys(SkylinePathkeys(q))}
           IN  /\ index \in Seq(SortKey) /\ DOMAIN index = 1..Len(index) /\ Len(index) \in Nat
               /\ Max(useful) \in 1..Len(index) /\ Max(useful) \in useful
               /\ SubSeq(index, 1, Max(useful)) \in Seq(SortKey)
               /\ DOMAIN SubSeq(index, 1, Max(useful)) = 1..Max(useful)
               /\ \A m \in 1..Max(useful) : SubSeq(index, 1, Max(useful))[m] = index[m]
<1> DEFINE wanted == SkylinePathkeys(q)
           useful == {i \in DOMAIN index : index[i] \in Keys(wanted)}
<1>1. wanted[1] \in Keys(wanted) /\ Keys(wanted) \subseteq Keys(index)
  <2>1. wanted[1] \in Keys(wanted)
    BY WantedKeys DEF Keys
  <2> QED
    BY <2>1 DEF skyline_pathkeys_contained_in
<1>2. index \in Seq(SortKey) /\ Len(index) \in Nat /\ DOMAIN index = 1..Len(index)
  BY QueriesAssumption
<1> HIDE DEF wanted
<1>3. useful # {} /\ useful \in SUBSET (1..Len(index))
  <2>1. wanted[1] \in Keys(index)
    BY <1>1
  <2> QED
    BY <1>1, <1>2, <2>1 DEF Keys
<1>4. Max(useful) \in useful
  BY <1>2, <1>3, GreatestNumber
<1> DEFINE n == Max(useful)
<1>5. n \in 1..Len(index) /\ n \in useful
  BY <1>2, <1>4
<1> HIDE DEF n, useful
<1>6. /\ SubSeq(index, 1, n) \in Seq(SortKey) /\ DOMAIN SubSeq(index, 1, n) = 1..n
      /\ \A m \in 1..n : SubSeq(index, 1, n)[m] = index[m]
  BY <1>2, <1>5
<1> QED
  BY <1>2, <1>5, <1>6 DEF n, useful, wanted

\* What is left of an index.
LEMMA Truncated ==
    ASSUME NEW q, NEW index
    PROVE  LET wanted == SkylinePathkeys(q)
               useful == {i \in DOMAIN index : index[i] \in Keys(wanted)}
               pk     == TruncateUseless(q, index)
           IN  \/ pk = wanted \/ pk = <<>>
               \/ skyline_pathkeys_contained_in(wanted, index) /\ pk = SubSeq(index, 1, Max(useful))
  BY Zenon DEF TruncateUseless

\* The pathkeys of a path.
LEMMA PathTyped ==
    ASSUME NEW q \in Queries, NEW pk \in Paths(q)
    PROVE  pk \in Seq(SortKey)
<1>1. <<>> \in Seq(SortKey) /\ SkylinePathkeys(q) \in Seq(SortKey)
  BY WantedKeys
<1>2. ASSUME NEW index \in q.indexes, pk = TruncateUseless(q, index)
      PROVE  pk \in Seq(SortKey)
  <2> DEFINE n == Max({i \in DOMAIN index : index[i] \in Keys(SkylinePathkeys(q))})
  <2>1. CASE skyline_pathkeys_contained_in(SkylinePathkeys(q), index) /\ pk = SubSeq(index, 1, n)
    BY <1>2, <2>1, UsefulKeys
  <2>2. \/ pk = SkylinePathkeys(q) \/ pk = <<>>
        \/ skyline_pathkeys_contained_in(SkylinePathkeys(q), index) /\ pk = SubSeq(index, 1, n)
    BY <1>2, Truncated
  <2> QED
    BY <1>1, <2>1, <2>2, Zenon
<1> QED
  BY <1>1, <1>2 DEF Paths

\* The keys of a path that has those of the skyline are no others.
LEMMA KeysOfPath ==
    ASSUME NEW q \in Queries, ColumnsInFront(q), NEW pk \in Paths(q),
           skyline_pathkeys_contained_in(SkylinePathkeys(q), pk)
    PROVE  Keys(pk) = Keys(SkylinePathkeys(q))
<1> DEFINE wanted == SkylinePathkeys(q)
<1>1. wanted[1] \in Keys(wanted) /\ Keys(wanted) \subseteq Keys(pk)
  BY WantedKeys DEF Keys, skyline_pathkeys_contained_in
<1> HIDE DEF wanted
<1>2. pk # <<>>
  BY <1>1 DEF Keys
<1>3. PICK index \in q.indexes : pk = TruncateUseless(q, index)
  BY <1>2 DEF Paths
<1> DEFINE useful == {i \in DOMAIN index : index[i] \in Keys(wanted)}
           n == Max(useful)
<1>4. CASE pk = wanted
  BY <1>4 DEF wanted
<1>5. CASE skyline_pathkeys_contained_in(wanted, index) /\ pk = SubSeq(index, 1, n)
  <2>1. /\ DOMAIN index = 1..Len(index) /\ Len(index) \in Nat
        /\ n \in 1..Len(index) /\ index[n] \in Keys(wanted)
        /\ DOMAIN pk = 1..n /\ \A m \in 1..n : pk[m] = index[m]
    BY <1>5, UsefulKeys DEF wanted
  <2> HIDE DEF n
  <2>2. \A m \in 1..n : index[m] \in Keys(wanted)
    <3>1. \A k \in DOMAIN index : index[k] \in Keys(wanted) =>
            \A m \in 1..k : index[m] \in Keys(wanted)
      BY <1>5 DEF ColumnsInFront, wanted
    <3> QED
      BY <2>1, <3>1
  <2>3. Keys(pk) \subseteq Keys(wanted)
    BY <2>1, <2>2 DEF Keys
  <2> QED
    BY <1>1, <2>3 DEF wanted
<1> QED
  BY <1>2, <1>3, <1>4, <1>5, Truncated DEF wanted

-----------------------------------------------------------------------------
(* The nodes of a plan. *)

\* The nodes from the skyline node, from the sort and from the filter on.
OrderByNodes(q, pk) ==
    IF pathkeys_contained_in(q.orderBy, PathkeysAfterSkyline(q, pk))
    THEN <<>> ELSE <<"SORT_ORDER_BY">>
SkylineNodes(q, pk) == <<Method(q, pk)>> \o OrderByNodes(q, pk)
SortNodes(q, pk) ==
    IF NeedsSort(q, pk) THEN <<"SORT_SKYLINE">> \o SkylineNodes(q, pk)
    ELSE SkylineNodes(q, pk)
FilterNodes(q, pk) == <<"SM_ELIMFILTER">> \o SortNodes(q, pk)

\* What the nodes of a plan are called.
NodeNames == Methods \cup {"SORT_SKYLINE", "SORT_ORDER_BY"}

\* The nodes of a plan are sequences of such.
LEMMA NodeSequences ==
    ASSUME NEW q \in Queries, NEW pk
    PROVE  /\ OrderByNodes(q, pk) \in Seq(NodeNames)
           /\ SkylineNodes(q, pk) \in Seq(NodeNames)
           /\ SortNodes(q, pk) \in Seq(NodeNames)
           /\ FilterNodes(q, pk) \in Seq(NodeNames)
<1>1. OrderByNodes(q, pk) \in Seq(NodeNames)
  <2>1. <<>> \in Seq(NodeNames) /\ <<"SORT_ORDER_BY">> \in Seq(NodeNames)
    BY DEF NodeNames
  <2> QED
    BY <2>1, Zenon DEF OrderByNodes
<1>2. <<Method(q, pk)>> \in Seq(NodeNames)
  BY ChosenMethod DEF NodeNames
<1>3. SkylineNodes(q, pk) \in Seq(NodeNames)
  BY <1>1, <1>2 DEF SkylineNodes
<1>4. <<"SORT_SKYLINE">> \in Seq(NodeNames) /\ <<"SM_ELIMFILTER">> \in Seq(NodeNames)
  BY DEF NodeNames, Methods
<1>5. SortNodes(q, pk) \in Seq(NodeNames)
  BY <1>3, <1>4 DEF SortNodes
<1> QED
  BY <1>1, <1>3, <1>4, <1>5 DEF FilterNodes

\* The lowest of the nodes, and the others.
LEMMA FirstNode ==
    ASSUME NEW x, NEW S, NEW s \in Seq(S)
    PROVE  /\ <<x>> \o s # <<>> /\ Head(<<x>> \o s) = x /\ Tail(<<x>> \o s) = s
           /\ Range(<<x>> \o s) = {x} \cup Range(s)
<1> DEFINE t == <<x>> \o s
<1>1. Len(s) \in Nat /\ DOMAIN s = 1..Len(s)
  OBVIOUS
<1>2. t \in Seq(S \cup {x}) /\ Len(t) = Len(s) + 1 /\ DOMAIN t = 1..Len(s)+1
  OBVIOUS
<1>3. t[1] = x /\ \A k \in 1..Len(s) : t[k + 1] = s[k]
  OBVIOUS
<1> HIDE DEF t
<1>4. t # <<>> /\ Head(t) = x
  BY <1>1, <1>2, <1>3
<1>5. Tail(t) = s
  <2>1. Tail(t) \in Seq(S \cup {x}) /\ Len(Tail(t)) = Len(s) /\ s \in Seq(S \cup {x})
    BY <1>1, <1>2, <1>4
  <2>2. \A k \in 1..Len(s) : Tail(t)[k] = s[k]
    BY <1>1, <1>2, <1>3
  <2> QED
    BY <2>1, <2>2, SeqEqual
<1>6. Range(t) = {x} \cup Range(s)
  <2>1. \A k \in DOMAIN t : t[k] = x \/ \E m \in DOMAIN s : t[k] = s[m]
    <3> TAKE k \in DOMAIN t
    <3>1. CASE k = 1
      BY <1>3, <3>1
    <3>2. CASE k # 1
      <4>1. k - 1 \in 1..Len(s) /\ (k - 1) + 1 = k
        BY <1>1, <1>2, <3>2
      <4> QED
        BY <1>1, <1>3, <4>1
    <3> QED
      BY <3>1, <3>2
  <2>2. \A m \in DOMAIN s : m + 1 \in DOMAIN t /\ t[m + 1] = s[m]
    BY <1>1, <1>2, <1>3
  <2>3. 1 \in DOMAIN t
    BY <1>1, <1>2
  <2> QED
    BY <1>3, <2>1, <2>2, <2>3 DEF Range
<1> QED
  BY <1>4, <1>5, <1>6 DEF t

\* The plan starts with the filter, the sort or the skyline node.
LEMMA PlanOfNodes ==
    ASSUME NEW q \in Queries, NEW pk
    PROVE  PlanNodes(q, pk) =
             IF HasOption(q.options, "ef") THEN FilterNodes(q, pk) ELSE SortNodes(q, pk)
<1> DEFINE a == IF HasOption(q.options, "ef") THEN <<"SM_ELIMFILTER">> ELSE <<>>
           b == IF NeedsSort(q, pk) THEN <<"SORT_SKYLINE">> ELSE <<>>
           m == <<Method(q, pk)>>
           c == OrderByNodes(q, pk)
<1>1. PlanNodes(q, pk) = ((a \o b) \o m) \o c
  <2>1. c = IF ~pathkeys_contained_in(q.orderBy, PathkeysAfterSkyline(q, pk))
            THEN <<"SORT_ORDER_BY">> ELSE <<>>
    BY Zenon DEF OrderByNodes
  <2> HIDE DEF c
  <2> QED
    BY <2>1, Zenon DEF PlanNodes
<1>2. a \in Seq(NodeNames) /\ b \in Seq(NodeNames) /\ m \in Seq(NodeNames) /\ c \in Seq(NodeNames)
  <2>1. /\ <<>> \in Seq(NodeNames) /\ <<"SM_ELIMFILTER">> \in Seq(NodeNames)
        /\ <<"SORT_SKYLINE">> \in Seq(NodeNames)
    BY DEF NodeNames, Methods
  <2>2. m \in Seq(NodeNames)
    BY ChosenMethod DEF NodeNames
  <2>3. c \in Seq(NodeNames)
    BY NodeSequences
  <2> HIDE DEF m, c
  <2> QED
    BY <2>1, <2>2, <2>3, Zenon
<1>3. /\ m \o c = SkylineNodes(q, pk)
      /\ b \o SkylineNodes(q, pk) = SortNodes(q, pk)
      /\ a \o SortNodes(q, pk) = IF HasOption(q.options, "ef") THEN FilterNodes(q, pk) ELSE SortNodes(q, pk)
  <2>1. /\ <<>> \o SkylineNodes(q, pk) = SkylineNodes(q, pk)
        /\ <<>> \o SortNodes(q, pk) = SortNodes(q, pk)
    BY NodeSequences, ConcatEmptySeq
  <2>2. m \o c = SkylineNodes(q, pk)
    BY Zenon DEF SkylineNodes
  <2>3. b \o SkylineNodes(q, pk) = SortNodes(q, pk)
    BY <2>1, Zenon DEF SortNodes
  <2>4. a \o SortNodes(q, pk) = IF HasOption(q.options, "ef") THEN FilterNodes(q, pk) ELSE SortNodes(q, pk)
    BY <2>1, Zenon DEF FilterNodes
  <2> QED
    BY <2>2, <2>3, <2>4, Zenon
<1> HIDE DEF a, b, m, c
<1>4. ((a \o b) \o m) \o c = a \o (b \o (m \o c))
  <2>1. (a \o b) \o m = a \o (b \o m)
    BY <1>2, ConcatAssociative
  <2>2. b \o m \in Seq(NodeNames)
    BY <1>2
  <2>3. \A t \in Seq(NodeNames) : (a \o t) \o c = a \o (t \o c)
    BY <1>2, ConcatAssociative
  <2>4. (b \o m) \o c = b \o (m \o c)
    BY <1>2, ConcatAssociative
  <2> QED
    BY <2>1, <2>2, <2>3, <2>4, Zenon
<1> QED
  BY <1>1, <1>3, <1>4, Zenon

-----------------------------------------------------------------------------
(* The rows a node reads. *)

\* The node of a query and the rows of its table, for the skyline columns.
LEMMA QueryNode ==
    ASSUME NEW q \in Queries
    PROVE  /\ NodeOf(q) \in PlanNode
           /\ Columns(NodeOf(q)) = 1..Dim(q)
           /\ NodeOf(q).cols = q.skyline /\ NodeOf(q).skyline_distinct = q.distinct
           /\ \A i \in DOMAIN q.table : SkylineRow(q, i) \in Row(NodeOf(q))
<1>1. /\ q.skyline \in Seq(Column) /\ q.distinct \in BOOLEAN
      /\ \A i \in DOMAIN q.table, k \in 1..Dim(q) : q.table[i][q.colIdx[k]] \in Datum
  BY QueriesAssumption
<1>2. NodeOf(q) \in PlanNode
  BY <1>1 DEF NodeOf, PlanNode
<1>3. Columns(NodeOf(q)) = 1..Dim(q)
  BY WantedKeys DEF NodeOf, Columns
<1>4. \A i \in DOMAIN q.table : SkylineRow(q, i) \in Row(NodeOf(q))
  BY <1>1, <1>3 DEF SkylineRow, Row
<1> QED
  BY <1>2, <1>3, <1>4 DEF NodeOf

\* Rows of the table are the input of a node.
LEMMA InputRows ==
    ASSUME NEW q \in Queries, NEW s \in Seq(DOMAIN q.table)
    PROVE  /\ SkylineRows(q, s) \in Seq(Row(NodeOf(q)))
           /\ Len(SkylineRows(q, s)) = Len(s)
           /\ \A k \in 1..Len(s) : SkylineRows(q, s)[k] = SkylineRow(q, s[k])
<1>1. DOMAIN s = 1..Len(s) /\ Len(s) \in Nat
  OBVIOUS
<1>2. \A k \in 1..Len(s) : SkylineRow(q, s[k]) \in Row(NodeOf(q))
  BY <1>1, QueryNode
<1> QED
  BY <1>1, <1>2 DEF SkylineRows

-----------------------------------------------------------------------------
(* Sorting. *)

\* Column c of two rows of the table.
CompareColumn(q, c, i, j) ==
    ApplyCompare(q.skyline[c], SkylineRow(q, i)[c], SkylineRow(q, j)[c])

\* Key k of the pathkeys pk.
CompareKey(q, pk, k, i, j) ==
    ApplyCompare(pk[k], q.table[i][pk[k].col], q.table[j][pk[k].col])

\* The rows that s numbers are in the order of the pathkeys.
RowsSorted(q, pk, s) ==
    \A i, j \in DOMAIN s : i < j => ~Less(pk, q.table[s[j]], q.table[s[i]])

\* Comparing two rows in one order or the other.
LEMMA ColumnOutcomes ==
    ASSUME NEW q \in Queries, NEW i \in DOMAIN q.table, NEW j \in DOMAIN q.table,
           NEW c \in 1..Dim(q)
    PROVE  /\ CompareColumn(q, c, i, j) \in {-1, 0, 1}
           /\ CompareColumn(q, c, j, i) = -CompareColumn(q, c, i, j)
<1>1. q.skyline[c] \in Column
  BY WantedKeys, QueriesAssumption
<1>2. SkylineRow(q, i)[c] \in Datum /\ SkylineRow(q, j)[c] \in Datum
  BY QueryNode DEF Row
<1> QED
  BY <1>1, <1>2, CompareAntisymmetric DEF CompareColumn

\* A key of the skyline's pathkeys compares its column.
LEMMA KeyIsColumn ==
    ASSUME NEW q \in Queries, NEW i \in DOMAIN q.table, NEW j \in DOMAIN q.table,
           NEW c \in 1..Dim(q), NEW pk, NEW k, pk[k] = SkylinePathkeys(q)[c]
    PROVE  CompareKey(q, pk, k, i, j) = CompareColumn(q, c, i, j)
<1>1. /\ pk[k].col = q.colIdx[c] /\ pk[k].desc = q.skyline[c].desc
      /\ pk[k].nullsFirst = q.skyline[c].nullsFirst
  <2>1. pk[k] = [col |-> q.colIdx[c], desc |-> q.skyline[c].desc,
                 nullsFirst |-> q.skyline[c].nullsFirst]
    BY WantedKeys
  <2> QED
    BY <2>1
<1>2. /\ SkylineRow(q, i)[c] = q.table[i][q.colIdx[c]]
      /\ SkylineRow(q, j)[c] = q.table[j][q.colIdx[c]]
  BY DEF SkylineRow
<1> QED
  BY <1>1, <1>2, Zenon DEF CompareKey, CompareColumn, ApplyCompare

\* Each key is that of a column.
LEMMA ColumnOfKey ==
    ASSUME NEW q \in Queries, NEW pk, Keys(pk) = Keys(SkylinePathkeys(q)),
           NEW k \in DOMAIN pk
    PROVE  \E c \in 1..Dim(q) : pk[k] = SkylinePathkeys(q)[c]
  BY WantedKeys DEF Keys

\* Each column has its key.
LEMMA KeyOfColumn ==
    ASSUME NEW q \in Queries, NEW pk, Keys(pk) = Keys(SkylinePathkeys(q)),
           NEW c \in 1..Dim(q)
    PROVE  \E k \in DOMAIN pk : pk[k] = SkylinePathkeys(q)[c]
<1>1. SkylinePathkeys(q)[c] \in Keys(SkylinePathkeys(q))
  BY WantedKeys DEF Keys
<1>2. SkylinePathkeys(q)[c] \in Keys(pk)
  BY <1>1
<1> QED
  BY <1>2 DEF Keys

\* Of two rows that are in order either all columns are equal, or the first key
\* in which they differ orders them.
LEMMA InOrder ==
    ASSUME NEW q \in Queries, NEW pk \in Seq(SortKey), Keys(pk) = Keys(SkylinePathkeys(q)),
           NEW i \in DOMAIN q.table, NEW j \in DOMAIN q.table,
           ~Less(pk, q.table[j], q.table[i])
    PROVE  \/ \A c \in 1..Dim(q) : CompareColumn(q, c, i, j) = 0
           \/ \E k \in DOMAIN pk : /\ CompareKey(q, pk, k, i, j) < 0
                                   /\ \A m \in 1..k-1 : CompareKey(q, pk, m, i, j) = 0
<1> DEFINE T == {k \in DOMAIN pk : CompareKey(q, pk, k, i, j) # 0}
<1>1. \A k \in DOMAIN pk : /\ CompareKey(q, pk, k, i, j) \in {-1, 0, 1}
                           /\ CompareKey(q, pk, k, j, i) = -CompareKey(q, pk, k, i, j)
  <2> TAKE k \in DOMAIN pk
  <2>1. PICK c \in 1..Dim(q) : pk[k] = SkylinePathkeys(q)[c]
    BY ColumnOfKey
  <2> QED
    BY <2>1, KeyIsColumn, ColumnOutcomes
<1>2. CASE T = {}
  <2>1. \A k \in DOMAIN pk : CompareKey(q, pk, k, i, j) = 0
    BY <1>2
  <2>2. \A c \in 1..Dim(q) : CompareColumn(q, c, i, j) = 0
    <3> TAKE c \in 1..Dim(q)
    <3>1. PICK k \in DOMAIN pk : pk[k] = SkylinePathkeys(q)[c]
      BY KeyOfColumn
    <3> QED
      BY <2>1, <3>1, KeyIsColumn
  <2> QED
    BY <2>2
<1>3. CASE T # {}
  <2>1. DOMAIN pk = 1..Len(pk) /\ Len(pk) \in Nat
    OBVIOUS
  <2>2. PICK k \in T : \A m \in T : k <= m
    <3>1. T \in SUBSET Nat
      BY <2>1
    <3> HIDE DEF T
    <3> QED
      BY <1>3, <3>1, LeastNumber
  <2>3. k \in 1..Len(pk) /\ CompareKey(q, pk, k, i, j) # 0
    BY <2>1
  <2>4. \A m \in 1..k-1 : CompareKey(q, pk, m, i, j) = 0
    BY <2>1, <2>2, <2>3
  <2>5. \A m \in 1..k-1 : CompareKey(q, pk, m, j, i) = 0
    BY <1>1, <2>1, <2>3, <2>4
  <2>6. ~(CompareKey(q, pk, k, j, i) < 0)
    BY <2>1, <2>3, <2>5 DEF Less, CompareKey
  <2>7. CompareKey(q, pk, k, i, j) < 0
    BY <1>1, <2>1, <2>3, <2>6
  <2> QED
    BY <2>1, <2>3, <2>4, <2>7
<1> QED
  BY <1>2, <1>3

\* Of rows in the order of the skyline's pathkeys none dominates one before it.
LEMMA NotDominatedInOrder ==
    ASSUME NEW q \in Queries, NEW pk \in Seq(SortKey), Keys(pk) = Keys(SkylinePathkeys(q)),
           NEW i \in DOMAIN q.table, NEW j \in DOMAIN q.table,
           ~Less(pk, q.table[j], q.table[i])
    PROVE  ~Dominates(NodeOf(q), SkylineRow(q, j), SkylineRow(q, i))
<1> SUFFICES ASSUME Dominates(NodeOf(q), SkylineRow(q, j), SkylineRow(q, i)) PROVE FALSE
  OBVIOUS
<1>1. /\ \A c \in 1..Dim(q) : CompareColumn(q, c, j, i) <= 0
      /\ \E c \in 1..Dim(q) : CompareColumn(q, c, j, i) < 0
  <2>1. /\ NodeOf(q) \in PlanNode /\ SkylineRow(q, i) \in Row(NodeOf(q))
        /\ SkylineRow(q, j) \in Row(NodeOf(q))
    BY QueryNode
  <2> QED
    BY <2>1, Outcomes, QueryNode DEF CompareColumn
<1>2. CASE \A c \in 1..Dim(q) : CompareColumn(q, c, i, j) = 0
  BY <1>1, <1>2, ColumnOutcomes
<1>3. ASSUME NEW k \in DOMAIN pk, CompareKey(q, pk, k, i, j) < 0 PROVE FALSE
  <2>1. PICK c \in 1..Dim(q) : pk[k] = SkylinePathkeys(q)[c]
    BY ColumnOfKey
  <2>2. CompareColumn(q, c, i, j) < 0
    BY <1>3, <2>1, KeyIsColumn
  <2> QED
    BY <1>1, <2>2, ColumnOutcomes
<1> QED
  BY <1>2, <1>3, InOrder

\* Rows in that order are sorted for the sort filter skyline.
LEMMA RowsSortedForSkyline ==
    ASSUME NEW q \in Queries, NEW pk \in Seq(SortKey), Keys(pk) = Keys(SkylinePathkeys(q)),
           NEW s \in Seq(DOMAIN q.table), RowsSorted(q, pk, s)
    PROVE  SortedForSkyline(NodeOf(q), SkylineRows(q, s))
<1>1. DOMAIN s = 1..Len(s) /\ \A k \in 1..Len(s) : s[k] \in DOMAIN q.table
  OBVIOUS
<1> SUFFICES ASSUME NEW i \in 1..Len(s), NEW j \in 1..Len(s), i < j
             PROVE  ~Dominates(NodeOf(q), SkylineRows(q, s)[j], SkylineRows(q, s)[i])
  BY InputRows DEF SortedForSkyline
<1>2. ~Less(pk, q.table[s[j]], q.table[s[i]])
  BY <1>1 DEF RowsSorted
<1> QED
  BY <1>1, <1>2, InputRows, NotDominatedInOrder

\* Rows of two columns in that order are sorted by one column, and where that
\* does not decide by the other.
LEMMA RowsSortedByColumns ==
    ASSUME NEW q \in Queries, NEW pk \in Seq(SortKey), Keys(pk) = Keys(SkylinePathkeys(q)),
           NEW s \in Seq(DOMAIN q.table), RowsSorted(q, pk, s), Dim(q) \in {1, 2}
    PROVE  \/ SortedByColumns(NodeOf(q), SkylineRows(q, s), 1, Dim(q))
           \/ SortedByColumns(NodeOf(q), SkylineRows(q, s), Dim(q), 1)
<1>1. DOMAIN s = 1..Len(s) /\ \A k \in 1..Len(s) : s[k] \in DOMAIN q.table
  OBVIOUS
<1>2. 1 \in 1..Dim(q) /\ DOMAIN pk = 1..Len(pk) /\ Len(pk) \in Nat
  BY WantedKeys
<1>3. 1 \in DOMAIN pk
  <2>1. PICK k \in DOMAIN pk : pk[k] = SkylinePathkeys(q)[1]
    BY <1>2, KeyOfColumn
  <2> QED
    BY <1>2, <2>1
<1>4. PICK c \in 1..Dim(q) : pk[1] = SkylinePathkeys(q)[c]
  BY <1>3, ColumnOfKey
<1> DEFINE d == IF c = 1 THEN Dim(q) ELSE 1
<1>5. /\ d \in 1..Dim(q) /\ \A e \in 1..Dim(q) : e = c \/ e = d
      /\ (c = 1 /\ d = Dim(q)) \/ (c = Dim(q) /\ d = 1)
  <2>1. CASE Dim(q) = 1
    BY <1>4, <2>1
  <2>2. CASE Dim(q) = 2
    <3>1. c = 1 \/ c = 2
      BY <1>4, <2>2
    <3>2. c = 1 => d = 2
      BY <2>2
    <3>3. c = 2 => d = 1
      BY <2>2
    <3> HIDE DEF d
    <3>4. \A e \in 1..Dim(q) : e = 1 \/ e = 2
      BY <2>2
    <3>5. 1 \in 1..Dim(q) /\ 2 \in 1..Dim(q)
      BY <2>2
    <3>6. CASE c = 1
      BY <2>2, <3>2, <3>4, <3>5, <3>6
    <3>7. CASE c = 2
      BY <2>2, <3>3, <3>4, <3>5, <3>7
    <3> QED
      BY <3>1, <3>6, <3>7
  <2> QED
    BY <2>1, <2>2
<1> HIDE DEF d
<1>6. ASSUME NEW i \in 1..Len(s), NEW j \in 1..Len(s), i < j
      PROVE  \/ CompareColumn(q, c, s[i], s[j]) < 0
             \/ CompareColumn(q, c, s[i], s[j]) = 0 /\ CompareColumn(q, d, s[i], s[j]) <= 0
  <2>1. /\ s[i] \in DOMAIN q.table /\ s[j] \in DOMAIN q.table
        /\ ~Less(pk, q.table[s[j]], q.table[s[i]])
    BY <1>1, <1>6 DEF RowsSorted
  <2>2. CASE \A e \in 1..Dim(q) : CompareColumn(q, e, s[i], s[j]) = 0
    BY <1>5, <2>2
  <2>3. ASSUME NEW k \in DOMAIN pk, CompareKey(q, pk, k, s[i], s[j]) < 0,
               \A m \in 1..k-1 : CompareKey(q, pk, m, s[i], s[j]) = 0
        PROVE  \/ CompareColumn(q, c, s[i], s[j]) < 0
               \/ CompareColumn(q, c, s[i], s[j]) = 0 /\ CompareColumn(q, d, s[i], s[j]) <= 0
    <3>1. CompareKey(q, pk, 1, s[i], s[j]) = CompareColumn(q, c, s[i], s[j])
      BY <1>4, <2>1, KeyIsColumn
    <3>2. CASE k = 1
      BY <2>3, <3>1, <3>2
    <3>3. CASE k # 1
      <4>1. CompareColumn(q, c, s[i], s[j]) = 0
        <5>1. 1 \in 1..k-1
          BY <1>2, <3>3
        <5> QED
          BY <2>3, <3>1, <5>1
      <4>2. PICK e \in 1..Dim(q) : pk[k] = SkylinePathkeys(q)[e]
        BY ColumnOfKey
      <4>3. CompareKey(q, pk, k, s[i], s[j]) = CompareColumn(q, e, s[i], s[j])
        BY <2>1, <4>2, KeyIsColumn
      <4>4. CompareColumn(q, e, s[i], s[j]) \in {-1, 0, 1}
        BY <2>1, <4>2, ColumnOutcomes
      <4>5. CASE e = c
        BY <2>3, <4>1, <4>3, <4>5
      <4>6. CASE e = d
        BY <2>3, <4>1, <4>3, <4>4, <4>6
      <4> QED
        BY <1>5, <4>2, <4>5, <4>6
    <3> QED
      BY <3>2, <3>3
  <2> QED
    BY <2>1, <2>2, <2>3, InOrder
<1>7. SortedByColumns(NodeOf(q), SkylineRows(q, s), c, d)
  BY <1>1, <1>6, InputRows, QueryNode DEF SortedByColumns, Compare, CompareColumn
<1> QED
  BY <1>5, <1>7

\* Rows in the order of pathkeys are in that of any prefix.
LEMMA SortedByPrefix ==
    ASSUME NEW q, NEW pk \in Seq(SortKey), NEW keys \in Seq(SortKey), IsPrefix(keys, pk),
           NEW s, RowsSorted(q, pk, s)
    PROVE  RowsSorted(q, keys, s)
<1>1. /\ DOMAIN keys = 1..Len(keys) /\ Len(keys) \in Nat
      /\ DOMAIN pk = 1..Len(pk) /\ Len(pk) \in Nat
  OBVIOUS
<1>2. Len(keys) <= Len(pk) /\ \A k \in 1..Len(keys) : keys[k] = pk[k]
  BY <1>1 DEF IsPrefix
<1>3. \A row1, row2 : Less(keys, row1, row2) => Less(pk, row1, row2)
  BY <1>1, <1>2 DEF Less
<1> QED
  BY <1>3 DEF RowsSorted

\* Part of the rows in their order is sorted as they are.
LEMMA SortedSubsequence ==
    ASSUME NEW q, NEW pk, NEW s, RowsSorted(q, pk, s), DOMAIN s \subseteq Nat,
           NEW n \in Nat, NEW o, \A k \in 1..n : o[k] \in DOMAIN s,
           \A k, m \in 1..n : k < m => o[k] < o[m],
           NEW t, DOMAIN t = 1..n, \A k \in 1..n : t[k] = s[o[k]]
    PROVE  RowsSorted(q, pk, t)
<1> SUFFICES ASSUME NEW i \in 1..n, NEW j \in 1..n, i < j
             PROVE  ~Less(pk, q.table[t[j]], q.table[t[i]])
  BY DEF RowsSorted
<1>1. o[i] \in DOMAIN s /\ o[j] \in DOMAIN s /\ o[i] < o[j]
  OBVIOUS
<1>2. t[i] = s[o[i]] /\ t[j] = s[o[j]]
  OBVIOUS
<1> QED
  BY <1>1, <1>2 DEF RowsSorted
-----------------------------------------------------------------------------
(* What a node is planned for. *)

\* The order of the rows that the skyline node reads.
InputOrder(q, pk) ==
    IF NeedsSort(q, pk) THEN SkylinePathkeys(q) ELSE pk

\* That order is one of the keys of a row.
LEMMA InputOrderTyped ==
    ASSUME NEW q \in Queries, NEW pk \in Paths(q)
    PROVE  pk \in Seq(SortKey) /\ InputOrder(q, pk) \in Seq(SortKey)
<1>1. pk \in Seq(SortKey) /\ SkylinePathkeys(q) \in Seq(SortKey)
  BY PathTyped, WantedKeys
<1> QED
  BY <1>1, Zenon DEF InputOrder

\* The two methods that rely on it read the rows in the order of the skyline's keys.
LEMMA InputOrderKeys ==
    ASSUME NEW q \in Queries, ColumnsInFront(q), NEW pk \in Paths(q),
           Method(q, pk) \in {"SM_2DIM_PRESORT", "SM_SFS"}
    PROVE  Keys(InputOrder(q, pk)) = Keys(SkylinePathkeys(q))
<1>1. CASE NeedsSort(q, pk)
  BY <1>1, Zenon DEF InputOrder
<1>2. CASE ~NeedsSort(q, pk)
  <2>1. skyline_pathkeys_contained_in(SkylinePathkeys(q), pk)
    BY <1>2, Zenon DEF NeedsSort
  <2>2. InputOrder(q, pk) = pk
    BY <1>2, Zenon DEF InputOrder
  <2> QED
    BY <2>1, <2>2, KeysOfPath
<1> QED
  BY <1>1, <1>2

\* The fields of a node's plan.
LEMMA PlanFields ==
    ASSUME NEW q, NEW method, NEW rows
    PROVE  /\ NodePlan(q, method, rows).method = method
           /\ NodePlan(q, method, rows).node = NodeOf(q)
           /\ NodePlan(q, method, rows).inputs = {rows}
           /\ NodePlan(q, method, rows).rescan = "NEVER"
  BY DEF NodePlan

\* The sort filter skyline reads rows in which none dominates one before it.
LEMMA SortFilterPlanned ==
    ASSUME NEW q \in Queries, ColumnsInFront(q), NEW pk \in Paths(q), Method(q, pk) = "SM_SFS",
           NEW s \in Seq(DOMAIN q.table), RowsSorted(q, InputOrder(q, pk), s)
    PROVE  WellPlanned(NodePlan(q, "SM_SFS", SkylineRows(q, s)))
<1>1. SortedForSkyline(NodeOf(q), SkylineRows(q, s))
  <2>1. /\ InputOrder(q, pk) \in Seq(SortKey)
        /\ Keys(InputOrder(q, pk)) = Keys(SkylinePathkeys(q))
    BY InputOrderTyped, InputOrderKeys
  <2> QED
    BY <2>1, RowsSortedForSkyline
<1> QED
  BY <1>1, PlanFields DEF WellPlanned

\* Three of the methods rely on nothing but that there is no rescan.
LEMMA AlwaysPlanned ==
    ASSUME NEW q, NEW rows,
           NEW method \in {"SM_BLOCKNESTEDLOOP", "SM_MATERIALIZEDNESTEDLOOP", "SM_ELIMFILTER"}
    PROVE  WellPlanned(NodePlan(q, method, rows))
  BY PlanFields DEF WellPlanned

\* Every method is planned only for what it relies on.
LEMMA NodePlanned ==
    ASSUME NEW q \in Queries, ColumnsInFront(q), DiffRespected(q),
           NEW pk \in Paths(q), MethodAccepted(Method(q, pk), Dim(q)),
           NEW s \in Seq(DOMAIN q.table), RowsSorted(q, InputOrder(q, pk), s)
    PROVE  WellPlanned(NodePlan(q, Method(q, pk), SkylineRows(q, s)))
<1> DEFINE rows == SkylineRows(q, s)
           method == Method(q, pk)
<1>1. /\ method \in Methods /\ method # "SM_ELIMFILTER"
      /\ method = "SM_1DIM" => Dim(q) = 1 /\ ~q.distinct /\ Forced(q) = "SM_UNKNOWN"
      /\ method = "SM_1DIM_DISTINCT" => Dim(q) = 1 /\ q.distinct /\ Forced(q) = "SM_UNKNOWN"
      /\ method = "SM_2DIM_PRESORT" =>
           Dim(q) \in {1, 2} /\ Forced(q) \in {"SM_UNKNOWN", "SM_2DIM_PRESORT"}
  BY ChosenMethod
<1>2. /\ Dim(q) \in Nat /\ Columns(NodeOf(q)) = 1..Dim(q) /\ DOMAIN q.skyline = 1..Dim(q)
      /\ NodeOf(q).cols = q.skyline /\ NodeOf(q).skyline_distinct = q.distinct
  BY QueryNode, WantedKeys
<1> HIDE DEF rows, method
<1>3. ASSUME Dim(q) \in {1, 2}, Forced(q) \in {"SM_UNKNOWN", "SM_2DIM_PRESORT"}
      PROVE  Ordered(NodeOf(q), Dim(q))
  <2>1. Forced(q) \notin {"SM_BLOCKNESTEDLOOP", "SM_MATERIALIZEDNESTEDLOOP", "SM_SFS"} /\ ~(Dim(q) > 2)
    BY <1>3
  <2>2. \A k \in DOMAIN q.skyline : q.skyline[k].dir # "DIFF"
    BY <2>1 DEF DiffRespected
  <2> QED
    BY <1>2, <2>2 DEF Ordered
<1>4. CASE method = "SM_1DIM"
  <2>1. Ordered(NodeOf(q), 1) /\ ~NodeOf(q).skyline_distinct
    BY <1>1, <1>2, <1>3, <1>4
  <2> QED
    BY <1>4, <2>1, PlanFields DEF WellPlanned, method
<1>5. CASE method = "SM_1DIM_DISTINCT"
  <2>1. Ordered(NodeOf(q), 1) /\ NodeOf(q).skyline_distinct
    BY <1>1, <1>2, <1>3, <1>5
  <2> QED
    BY <1>5, <2>1, PlanFields DEF WellPlanned, method
<1>6. CASE method = "SM_2DIM_PRESORT"
  <2>1. Dim(q) \in {1, 2} /\ Ordered(NodeOf(q), Dim(q))
    BY <1>1, <1>3, <1>6
  <2>2. \/ SortedByColumns(NodeOf(q), rows, 1, Dim(q))
        \/ SortedByColumns(NodeOf(q), rows, Dim(q), 1)
    <3>1. /\ InputOrder(q, pk) \in Seq(SortKey)
          /\ Keys(InputOrder(q, pk)) = Keys(SkylinePathkeys(q))
      BY <1>6, InputOrderTyped, InputOrderKeys DEF method
    <3> QED
      BY <2>1, <3>1, RowsSortedByColumns DEF rows
  <2> QED
    BY <1>6, <2>1, <2>2, PlanFields DEF WellPlanned, method, rows
<1>7. CASE method = "SM_SFS"
  BY <1>7, SortFilterPlanned DEF method
<1>8. CASE method \in {"SM_BLOCKNESTEDLOOP", "SM_MATERIALIZEDNESTEDLOOP"}
  BY <1>8, AlwaysPlanned DEF method
<1> QED
  BY <1>1, <1>4, <1>5, <1>6, <1>7, <1>8 DEF Methods

-----------------------------------------------------------------------------
(* What a node has returned, when it has not been rescanned. *)

DistinctOutput == \A k, m \in 1..Len(output) : k # m => output[k] # output[m]

\* The tuples returned are tuples read, and no tuple comes twice; without what
\* the methods rely on.
Returned ==
    /\ plan.method = "SM_1DIM_DISTINCT" => resultSlot \in Nat
    /\ plan.method \in {"SM_BLOCKNESTEDLOOP", "SM_MATERIALIZEDNESTEDLOOP"} => QueryInv
    /\ OutputIds
    /\ DistinctOutput

\* Output in the order of the input has no tuple twice.
OrderedOutput == plan.method # "SM_BLOCKNESTEDLOOP" => DistinctOutput

\* Numbers that increase are different.
LEMMA IncreasingDistinct == IInv => OrderedOutput
<1> SUFFICES ASSUME IInv, plan.method # "SM_BLOCKNESTEDLOOP" PROVE DistinctOutput
  BY DEF OrderedOutput
<1>1. /\ Increasing(output) /\ Len(output) \in Nat
      /\ \A k \in 1..Len(output) : output[k] \in Int
  BY DEF IInv, BaseInv, NodeTypes, NodeInv, OutputInv
<1> QED
  BY <1>1 DEF Increasing, DistinctOutput

\* What QueryInv says of the tuples returned.
SkylineOutput == plan.method # "SM_ELIMFILTER" => OutputIds

\* It does not depend on whether a tuple may still be returned.
LEMMA QueryOutput == QueryInv => SkylineOutput
<1> SUFFICES ASSUME QueryInv, plan.method # "SM_ELIMFILTER",
                    NEW k \in 1..Len(output)
             PROVE  output[k] \in 1..Len(input)
  BY DEF SkylineOutput, OutputIds
<1>1. output[k] \in Query!Emitted /\ Query!Emitted \subseteq Query!Ids
  BY DEF QueryInv, EmittedIds, Query!Emitted
<1> QED
  BY <1>1 DEF Query!Ids

\* The same of the state after a step.
LEMMA OutputNext ==
    /\ IInv' => OrderedOutput' /\ WindowOutput'
    /\ QueryInv' => SkylineOutput'
  BY IncreasingDistinct, WindowOutputIds, QueryOutput, PTL

\* One tuple more.
LEMMA AppendId ==
    ASSUME output \in Seq(Int), NEW x, output' = Append(output, x), input' = input,
           x \in 1..Len(input), OutputIds
    PROVE  OutputIds'
<1>1. /\ Len(output) \in Nat /\ Len(Append(output, x)) = Len(output) + 1
      /\ \A k \in 1..Len(output) : Append(output, x)[k] = output[k]
      /\ Append(output, x)[Len(output) + 1] = x
  OBVIOUS
<1>2. \A k \in 1..Len(output') : k \in 1..Len(output) \/ k = Len(output) + 1
  BY <1>1
<1> QED
  BY <1>1, <1>2 DEF OutputIds

\* A step of a node that is not rescanned.
LEMMA ReturnedStep ==
    ASSUME IInv, Returned, ExecSkyline, NEW q, NEW rows, plan = NodePlan(q, plan.method, rows)
    PROVE  Returned'
<1>1. /\ plan' = plan /\ IInv' /\ input' = input /\ output \in Seq(Int) /\ Len(input) \in Nat
      /\ outerPos \in 0..Len(input) /\ resultSlot \in Int /\ resultSlot <= Len(input)
  <2>1. plan' = plan /\ IInv'
    BY NextIInv DEF Next, ExecSkyline
  <2>2. plan.inputs = {rows} /\ input \in plan.inputs /\ input' \in plan'.inputs
    <3>1. Chosen /\ Chosen'
      BY <2>1 DEF IInv, BaseInv, NodeTypes
    <3> QED
      BY <3>1, PlanFields DEF Chosen
  <2>3. BaseInv
    BY DEF IInv
  <2> QED
    BY <2>1, <2>2, <2>3, MethodFrame
<1>2. CASE RunBNL \/ RunMNL
  <2>1. plan.method \in {"SM_BLOCKNESTEDLOOP", "SM_MATERIALIZEDNESTEDLOOP"}
    BY <1>2 DEF RunBNL, RunMNL
  <2>2. QueryInv' /\ QueryStep
    BY <2>1, AlwaysPlanned, ExecQueryStep DEF Returned
  <2>3. OutputIds'
    BY <1>1, <2>1, <2>2, OutputNext DEF SkylineOutput
  <2>4. DistinctOutput'
    <3>1. CASE UNCHANGED <<node, input, output>>
      BY <3>1 DEF Returned, DistinctOutput
    <3>2. ASSUME NEW i \in Query!Ids, Query!Emit(i) PROVE DistinctOutput'
      <4>1. output' = Append(output, i) /\ \A k \in 1..Len(output) : output[k] # i
        BY <3>2, QueryExpanded DEF Query!Emit, Query!Emitted
      <4>2. /\ Len(output) \in Nat /\ Len(Append(output, i)) = Len(output) + 1
            /\ \A k \in 1..Len(output) : Append(output, i)[k] = output[k]
            /\ Append(output, i)[Len(output) + 1] = i
        BY <1>1
      <4>3. \A k \in 1..Len(output') : k \in 1..Len(output) \/ k = Len(output) + 1
        BY <4>1, <4>2
      <4> QED
        BY <4>1, <4>2, <4>3 DEF Returned, DistinctOutput
    <3> QED
      BY <2>2, <3>1, <3>2 DEF QueryStep, Query!Next, Query!Finish
  <2> QED
    BY <1>1, <2>1, <2>2, <2>3, <2>4 DEF Returned
<1>3. CASE RunSFS \/ RunElimFilter
  <2>1. plan.method \in {"SM_SFS", "SM_ELIMFILTER"}
    BY <1>3 DEF RunSFS, RunElimFilter
  <2> QED
    BY <1>1, <2>1, OutputNext DEF Returned, OrderedOutput, WindowOutput
<1>4. CASE Run1Dim \/ Run1DimDistinct \/ Run2DimPreSort
  <2>1. plan.method \in {"SM_1DIM", "SM_1DIM_DISTINCT", "SM_2DIM_PRESORT"}
    BY <1>4 DEF Run1Dim, Run1DimDistinct, Run2DimPreSort
  <2>2. DistinctOutput'
    BY <1>1, <2>1, OutputNext DEF OrderedOutput
  <2>3. OutputIds /\ (output' = output => OutputIds')
    BY <1>1 DEF Returned, OutputIds
  <2>4. CASE Run1Dim
    <3>1. CASE Dim1!PipeOut
      <4>1. /\ output' = Append(output, NextTuple(store)) /\ HasNext(store)
            /\ plan.method = "SM_1DIM" /\ status = "SS_PIPEOUT"
        BY <2>4, <3>1 DEF Run1Dim, Dim1!PipeOut, Dim1!NextTuple, Dim1!HasNext, NextTuple, HasNext
      <4>2. /\ \A m \in 1..Len(store.tuples) : store.tuples[m] \in 1..outerPos
            /\ store.pos \in 0..Len(store.tuples) /\ Len(store.tuples) \in Nat
        BY <4>1, MethodFrame DEF IInv, BaseInv, NodeInv, OneDimInv, Stores
      <4>3. NextTuple(store) \in 1..outerPos
        BY <4>1, <4>2 DEF HasNext, NextTuple
      <4>4. NextTuple(store) \in 1..Len(input)
        BY <1>1, <4>3
      <4>5. OutputIds'
        BY <1>1, <2>3, <4>1, <4>4, AppendId
      <4> QED
        BY <1>1, <2>1, <2>2, <4>1, <4>5 DEF Returned
    <3>2. CASE ~Dim1!PipeOut
      <4>1. output' = output /\ plan.method = "SM_1DIM"
        BY <2>4, <3>2 DEF Run1Dim, Dim1!Next, Dim1!Start, Dim1!Fetch, Dim1!FetchFirst,
           Dim1!FetchEqual, Dim1!FetchBetter, Dim1!FetchWorse, Dim1!EndOfInput,
           Dim1!PipeOutEnd, Dim1!ReturnNull, Dim1!vars
      <4> QED
        BY <1>1, <2>2, <2>3, <4>1 DEF Returned
    <3> QED
      BY <3>1, <3>2
  <2>5. CASE Run1DimDistinct
    <3>1. plan.method = "SM_1DIM_DISTINCT" /\ resultSlot \in Nat
      BY <2>5 DEF Run1DimDistinct, Returned
    <3>2. /\ resultSlot' = resultSlot \/ resultSlot' = outerPos + 1
          /\ output' = output \/ (output' = Append(output, resultSlot) /\ resultSlot # 0)
      BY <2>5 DEF Run1DimDistinct, Distinct!Next, Distinct!Start, Distinct!Fetch,
         Distinct!EndOfInput, Distinct!ReturnNull, Distinct!vars
    <3>3. resultSlot' \in Nat
      BY <1>1, <3>1, <3>2
    <3>4. OutputIds'
      <4>1. CASE output' = Append(output, resultSlot) /\ resultSlot # 0
        <5>1. resultSlot \in 1..Len(input)
          BY <1>1, <3>1, <4>1
        <5> QED
          BY <1>1, <2>3, <4>1, <5>1, AppendId
      <4> QED
        BY <2>3, <3>2, <4>1
    <3> QED
      BY <1>1, <2>2, <3>1, <3>3, <3>4 DEF Returned
  <2>6. CASE Run2DimPreSort
    <3>1. plan.method = "SM_2DIM_PRESORT"
      BY <2>6 DEF Run2DimPreSort
    <3>2. \/ output' = output
          \/ output' = Append(output, outerPos + 1) /\ outerPos < Len(input)
      BY <2>6 DEF Run2DimPreSort, Presort!Next, Presort!ReturnFirst, Presort!Return,
         Presort!FetchAndReturn, Presort!Skip, Presort!EndOfInput, Presort!ReturnNull, Presort!vars
    <3>3. outerPos < Len(input) => outerPos + 1 \in 1..Len(input)
      BY <1>1
    <3>4. OutputIds'
      BY <1>1, <2>3, <3>2, <3>3, AppendId
    <3> QED
      BY <1>1, <2>2, <3>1, <3>4 DEF Returned
  <2> QED
    BY <1>4, <2>4, <2>5, <2>6
<1> QED
  BY <1>2, <1>3, <1>4 DEF ExecSkyline


\* A step that changes nothing.
LEMMA ReturnedUnchanged ==
    ASSUME IInv, Returned, UNCHANGED vars
    PROVE  Returned'
<1>1. plan' = plan /\ resultSlot' = resultSlot /\ input' = input /\ output' = output
  BY DEF vars
<1>2. QueryInv => QueryInv'
  BY EndQuery DEF IInv
<1>3. OutputIds' /\ DistinctOutput'
  BY <1>1 DEF Returned, OutputIds, DistinctOutput
<1> QED
  BY <1>1, <1>2, <1>3 DEF Returned
-----------------------------------------------------------------------------
(* Rows of the table, and sorting them. *)

\* Each row is there once.
Distinctly(s) == \A k, m \in DOMAIN s : k # m => s[k] # s[m]

RowNumbers(q, s) == s \in Seq(DOMAIN q.table) /\ Distinctly(s)

\* What a node reads is one of the selections.
LEMMA RowsAreSelection ==
    ASSUME NEW q \in Queries, NEW s, RowNumbers(q, s)
    PROVE  s \in Selections(q)
<1>1. /\ Len(s) \in Nat /\ DOMAIN s = 1..Len(s) /\ s \in [1..Len(s) -> DOMAIN q.table]
      /\ \A k, m \in DOMAIN s : s[k] = s[m] => k = m
  BY DEF RowNumbers, Distinctly
<1>2. Len(q.table) \in Nat /\ DOMAIN q.table = 1..Len(q.table)
  BY QueriesAssumption
<1>3. s \in Injection(1..Len(s), DOMAIN q.table)
  BY <1>1 DEF Injection, IsInjective
<1>4. Len(s) <= Len(q.table)
  <2>1. ASSUME NEW n \in Nat PROVE IsFiniteSet(1..n) /\ Cardinality(1..n) = n
    <3>1. 1 \in Int /\ n \in Int
      OBVIOUS
    <3>2. IsFiniteSet(1..n) /\ Cardinality(1..n) = (IF 1 > n THEN 0 ELSE n - 1 + 1)
      BY <3>1, FS_Interval
    <3> QED
      BY <3>2
  <2>2. /\ IsFiniteSet(DOMAIN q.table) /\ Cardinality(DOMAIN q.table) = Len(q.table)
        /\ Cardinality(1..Len(s)) = Len(s)
    BY <1>1, <1>2, <2>1
  <2> QED
    BY <1>3, <2>2, FS_Injection
<1>5. Len(s) \in 0..Len(q.table)
  BY <1>1, <1>2, <1>4
<1> QED
  BY <1>3, <1>5 DEF Selections

\* A function on an interval is a sequence.
LEMMA SequenceOfFunction ==
    ASSUME NEW S, NEW n \in Nat, NEW t \in [1..n -> S]
    PROVE  t \in Seq(S) /\ DOMAIN t = 1..n /\ Len(t) = n
  OBVIOUS

\* The state the variables of the plan are in.
PlanTypes == query \in Queries /\ RowNumbers(query, tuples)

\* A sort returns the same rows, in order.
LEMMA SortedRows ==
    ASSUME NEW q \in Queries, NEW s, RowNumbers(q, s),
           NEW t \in Bijection(DOMAIN s, Range(s))
    PROVE  RowNumbers(q, t) /\ Range(t) = Range(s)
<1>1. Len(s) \in Nat /\ DOMAIN s = 1..Len(s) /\ Range(s) \subseteq DOMAIN q.table
  BY DEF RowNumbers, Range
<1>2. /\ t \in [1..Len(s) -> Range(s)]
      /\ \A k, m \in DOMAIN t : t[k] = t[m] => k = m
      /\ \A x \in Range(s) : \E k \in 1..Len(s) : t[k] = x
  BY <1>1 DEF Bijection, Injection, Surjection, IsInjective
<1>3. t \in [1..Len(s) -> DOMAIN q.table]
  BY <1>1, <1>2
<1>4. t \in Seq(DOMAIN q.table)
  BY <1>1, <1>3
<1>5. DOMAIN t = 1..Len(s)
  BY <1>3
<1>6. Range(t) = Range(s)
  BY <1>2, <1>5 DEF Range
<1> QED
  BY <1>2, <1>4, <1>6 DEF RowNumbers, Distinctly

\* The table itself.
LEMMA TableRowNumbers ==
    ASSUME NEW q \in Queries
    PROVE  RowNumbers(q, [i \in DOMAIN q.table |-> i])
<1>1. Len(q.table) \in Nat /\ DOMAIN q.table = 1..Len(q.table)
  BY QueriesAssumption
<1> QED
  BY <1>1 DEF RowNumbers, Distinctly

\* The rows that a node has returned.
LEMMA ReturnedRows ==
    ASSUME NEW q \in Queries, NEW s, RowNumbers(q, s), output \in Seq(Int),
           Len(input) = Len(s), OutputIds, DistinctOutput,
           NEW t, t = [k \in DOMAIN output |-> s[output[k]]]
    PROVE  /\ RowNumbers(q, t)
           /\ Range(t) = {s[o] : o \in {output[k] : k \in 1..Len(output)}}
           /\ Increasing(output) => \A pk : RowsSorted(q, pk, s) => RowsSorted(q, pk, t)
<1>1. /\ Len(output) \in Nat /\ DOMAIN output = 1..Len(output) /\ Len(s) \in Nat
      /\ DOMAIN s = 1..Len(s) /\ \A k \in 1..Len(s) : s[k] \in DOMAIN q.table
      /\ \A k, m \in 1..Len(s) : k # m => s[k] # s[m]
  BY DEF RowNumbers, Distinctly
<1>2. output \in [1..Len(output) -> 1..Len(s)]
  BY <1>1 DEF OutputIds
<1>3. t \in [1..Len(output) -> DOMAIN q.table]
  BY <1>1, <1>2
<1>4. t \in Seq(DOMAIN q.table) /\ DOMAIN t = 1..Len(output)
  BY <1>1, <1>3, SequenceOfFunction
<1>5. \A k, m \in DOMAIN t : k # m => t[k] # t[m]
  <2>1. \A k, m \in 1..Len(output) : k # m => t[k] # t[m]
    BY <1>1, <1>2 DEF DistinctOutput
  <2> QED
    BY <1>4, <2>1
<1>6. RowNumbers(q, t)
  BY <1>4, <1>5 DEF RowNumbers, Distinctly
<1>7. Range(t) = {s[o] : o \in {output[k] : k \in 1..Len(output)}}
  BY <1>1, <1>4 DEF Range
<1>8. ASSUME Increasing(output), NEW pk, RowsSorted(q, pk, s)
      PROVE  RowsSorted(q, pk, t)
  <2>1. \A k, m \in 1..Len(output) : k < m => output[k] < output[m]
    BY <1>8 DEF Increasing
  <2>2. /\ DOMAIN s \subseteq Nat /\ DOMAIN t = 1..Len(output)
        /\ \A k \in 1..Len(output) : output[k] \in DOMAIN s /\ t[k] = s[output[k]]
    BY <1>1, <1>2, <1>4
  <2> QED
    BY <1>1, <1>8, <2>1, <2>2, SortedSubsequence
<1> QED
  BY <1>6, <1>7, <1>8


-----------------------------------------------------------------------------
(* The stages of a query's execution, and the order of the rows in each. *)

AtFilter(pk) ==
    /\ todo = FilterNodes(query, pk) /\ HasOption(query.options, "ef")
    /\ RowsSorted(query, pk, tuples)
AtSort(pk) == todo = SortNodes(query, pk) /\ NeedsSort(query, pk)
AtSkyline(pk) == todo = SkylineNodes(query, pk) /\ RowsSorted(query, InputOrder(query, pk), tuples)
AtOrderBy == todo = <<"SORT_ORDER_BY">>
AtEnd == todo = <<>> /\ RowsSorted(query, query.orderBy, tuples)

Stage(pk) ==
    /\ pk \in Paths(query) /\ MethodAccepted(Method(query, pk), Dim(query))
    /\ AtFilter(pk) \/ AtSort(pk) \/ AtSkyline(pk) \/ AtOrderBy \/ AtEnd

\* A node that has been started and has not been shut down.
Running ==
    ~ended =>
        /\ todo # <<>> /\ Head(todo) \in Methods
        /\ plan = NodePlan(query, Head(todo), SkylineRows(query, tuples))
        /\ IInv /\ Returned

StageInv == PlanTypes /\ (\E pk : Stage(pk)) /\ Running

\* The next node in each stage, and those behind it.
LEMMA NextNode ==
    ASSUME query \in Queries, NEW pk
    PROVE  /\ AtFilter(pk) => /\ todo # <<>> /\ Head(todo) = "SM_ELIMFILTER"
                              /\ Tail(todo) = SortNodes(query, pk)
           /\ AtSort(pk) => /\ todo # <<>> /\ Head(todo) = "SORT_SKYLINE"
                            /\ Tail(todo) = SkylineNodes(query, pk)
           /\ AtSkyline(pk) => /\ todo # <<>> /\ Head(todo) = Method(query, pk)
                               /\ Tail(todo) = OrderByNodes(query, pk)
           /\ AtOrderBy => todo # <<>> /\ Head(todo) = "SORT_ORDER_BY" /\ Tail(todo) = <<>>
           /\ AtEnd => todo = <<>>
<1>1. /\ OrderByNodes(query, pk) \in Seq(NodeNames) /\ SkylineNodes(query, pk) \in Seq(NodeNames)
      /\ SortNodes(query, pk) \in Seq(NodeNames)
  BY NodeSequences
<1>2. AtFilter(pk) => /\ todo # <<>> /\ Head(todo) = "SM_ELIMFILTER"
                      /\ Tail(todo) = SortNodes(query, pk)
  BY <1>1, FirstNode DEF AtFilter, FilterNodes
<1>3. AtSort(pk) => /\ todo # <<>> /\ Head(todo) = "SORT_SKYLINE"
                    /\ Tail(todo) = SkylineNodes(query, pk)
  BY <1>1, FirstNode DEF AtSort, SortNodes
<1>4. AtSkyline(pk) => /\ todo # <<>> /\ Head(todo) = Method(query, pk)
                       /\ Tail(todo) = OrderByNodes(query, pk)
  BY <1>1, FirstNode DEF AtSkyline, SkylineNodes
<1>5. AtOrderBy => todo # <<>> /\ Head(todo) = "SORT_ORDER_BY" /\ Tail(todo) = <<>>
  BY DEF AtOrderBy
<1> QED
  BY <1>2, <1>3, <1>4, <1>5 DEF AtEnd

\* From the sort on.
LEMMA FromSort ==
    ASSUME NEW q \in Queries, NEW pk
    PROVE  /\ NeedsSort(q, pk) => InputOrder(q, pk) = SkylinePathkeys(q)
           /\ ~NeedsSort(q, pk) => InputOrder(q, pk) = pk /\ SortNodes(q, pk) = SkylineNodes(q, pk)
  BY Zenon DEF InputOrder, SortNodes

\* The plan starts with the rows of the table in the order of the path's pathkeys.
LEMMA InitAtNodes ==
    ASSUME PlanInit
    PROVE  /\ PlanTypes /\ Range(tuples) = DOMAIN query.table
           /\ \E pk : Stage(pk) /\ (AtFilter(pk) \/ AtSort(pk) \/ AtSkyline(pk))
<1> DEFINE all == [i \in DOMAIN query.table |-> i]
<1>1. query \in Queries /\ ended
  BY DEF PlanInit, Idle
<1>2. PICK paths \in QueryPlannerResults(query) :
        /\ MethodAccepted(Method(query, BestPath(query, paths)), Dim(query))
        /\ todo = PlanNodes(query, BestPath(query, paths))
        /\ tuples \in Sorts(BestPath(query, paths), all)
  BY DEF PlanInit
<1> DEFINE pk == BestPath(query, paths)
<1>3. pk \in Paths(query)
  BY BestPathIsPath
<1>4. RowNumbers(query, all)
  BY <1>1, TableRowNumbers
<1> HIDE DEF pk, all
<1>5. tuples \in Bijection(DOMAIN all, Range(all)) /\ RowsSorted(query, pk, tuples)
  BY <1>2 DEF Sorts, SortedBy, RowsSorted, pk
<1>6. PlanTypes /\ Range(tuples) = Range(all)
  BY <1>1, <1>4, <1>5, SortedRows DEF PlanTypes
<1>7. AtFilter(pk) \/ AtSort(pk) \/ AtSkyline(pk)
  <2>1. todo = PlanNodes(query, pk)
    BY <1>2 DEF pk
  <2>2. CASE HasOption(query.options, "ef")
    BY <1>1, <1>5, <2>1, <2>2, PlanOfNodes, Zenon DEF AtFilter
  <2>3. CASE ~HasOption(query.options, "ef")
    <3>1. todo = SortNodes(query, pk)
      BY <1>1, <2>1, <2>3, PlanOfNodes, Zenon
    <3> QED
      BY <1>1, <1>5, <3>1, FromSort DEF AtSort, AtSkyline
  <2> QED
    BY <2>2, <2>3
<1>8. MethodAccepted(Method(query, pk), Dim(query))
  BY <1>2 DEF pk
<1>9. Range(all) = DOMAIN query.table
  BY DEF all, Range
<1> QED
  BY <1>3, <1>6, <1>7, <1>8, <1>9 DEF Stage

\* StageInv holds when the plan starts.
LEMMA InitStage == PlanInit => StageInv
  BY InitAtNodes DEF StageInv, Running, PlanInit, Idle

\* A node of the query's plan.
LEMMA PlannedNode ==
    ASSUME StageInv, todo # <<>>, Head(todo) \in Methods
    PROVE  /\ Head(todo) \in PlannedMethods(query)
           /\ \E pk : Stage(pk) /\ (AtFilter(pk) \/ AtSkyline(pk))
<1>1. query \in Queries
  BY DEF StageInv, PlanTypes
<1>2. PICK pk : Stage(pk)
  BY DEF StageInv
<1>3. pk \in Paths(query)
  BY <1>2 DEF Stage
<1>4. AtFilter(pk) \/ AtSkyline(pk)
  BY <1>1, <1>2, NextNode DEF Stage, Methods
<1>5. Head(todo) \in Range(PlanNodes(query, pk))
  <2>1. /\ OrderByNodes(query, pk) \in Seq(NodeNames) /\ SkylineNodes(query, pk) \in Seq(NodeNames)
        /\ SortNodes(query, pk) \in Seq(NodeNames)
    BY <1>1, NodeSequences
  <2>2. "SM_ELIMFILTER" \in Range(FilterNodes(query, pk))
        /\ Range(SortNodes(query, pk)) \subseteq Range(FilterNodes(query, pk))
    BY <2>1, FirstNode DEF FilterNodes
  <2>3. Method(query, pk) \in Range(SkylineNodes(query, pk))
    BY <2>1, FirstNode DEF SkylineNodes
  <2>4. Range(SkylineNodes(query, pk)) \subseteq Range(SortNodes(query, pk))
    <3>1. CASE NeedsSort(query, pk)
      BY <2>1, <3>1, FirstNode DEF SortNodes
    <3>2. CASE ~NeedsSort(query, pk)
      BY <1>1, <3>2, FromSort
    <3> QED
      BY <3>1, <3>2
  <2>5. CASE AtFilter(pk)
    <3>1. PlanNodes(query, pk) = FilterNodes(query, pk)
      BY <1>1, <2>5, PlanOfNodes, Zenon DEF AtFilter
    <3> QED
      BY <1>1, <2>2, <2>5, <3>1, NextNode
  <2>6. CASE AtSkyline(pk)
    <3>1. PlanNodes(query, pk) \in {FilterNodes(query, pk), SortNodes(query, pk)}
      BY <1>1, PlanOfNodes
    <3> QED
      BY <1>1, <2>2, <2>3, <2>4, <2>6, <3>1, NextNode
  <2> QED
    BY <1>4, <2>5, <2>6
<1>6. Head(todo) \in PlannedMethods(query)
  <2> DEFINE ranges == {Range(PlanNodes(query, p)) : p \in Paths(query)}
  <2>1. Range(PlanNodes(query, pk)) \in ranges
    BY <1>3
  <2>2. Head(todo) \in UNION ranges
    <3> HIDE DEF ranges
    <3> QED
      BY <1>5, <2>1
  <2> QED
    BY <2>2, Zenon DEF PlannedMethods
<1> QED
  BY <1>2, <1>4, <1>6

\* SkylineNode can run it on the rows there are.
LEMMA NodeIsPlan ==
    ASSUME StageInv, todo # <<>>, Head(todo) \in Methods
    PROVE  NodePlan(query, Head(todo), SkylineRows(query, tuples)) \in Plans
<1>1. query \in Queries /\ tuples \in Selections(query)
  BY RowsAreSelection DEF StageInv, PlanTypes
<1>2. NodePlan(query, Head(todo), SkylineRows(query, tuples)) \in NodePlans
  BY <1>1, PlannedNode DEF NodePlans
<1> QED
  BY <1>2, NodePlansOfQueries

\* The node starts in a state of its own.
LEMMA StartStage ==
    ASSUME StageInv, StartNode
    PROVE  StageInv' /\ QueryInv'
<1>1. /\ query' = query /\ todo' = todo /\ tuples' = tuples /\ ~ended'
      /\ todo # <<>> /\ Head(todo) \in Methods
      /\ plan' = NodePlan(query, Head(todo), SkylineRows(query, tuples))
      /\ input' = SkylineRows(query, tuples) /\ node' = plan'.node
      /\ output' = <<>> /\ resultSlot' = 0
  BY DEF StartNode
<1>2. plan'.method = Head(todo) /\ plan'.inputs = {input'}
  BY <1>1, PlanFields
<1>3. Chosen'
  BY <1>1, <1>2, NodeIsPlan DEF Chosen
<1>4. ExecInitSkyline'
  BY <1>2 DEF StartNode, ExecInitSkyline, UsesWindow
<1>5. IInv' /\ QueryInv'
  BY <1>3, <1>4, ExecInitNext
<1>6. Returned'
  BY <1>1, <1>5 DEF Returned, OutputIds, DistinctOutput
<1>7. Running'
  BY <1>1, <1>5, <1>6 DEF Running
<1>8. PlanTypes' /\ \E pk : Stage(pk)'
  BY <1>1 DEF StageInv, PlanTypes, Stage, AtFilter, AtSort, AtSkyline, AtOrderBy, AtEnd
<1> QED
  BY <1>5, <1>7, <1>8 DEF StageInv

\* It runs without changing anything else.
LEMMA ExecStage ==
    ASSUME StageInv, ExecSkyline, UNCHANGED <<query, todo, tuples>>
    PROVE  StageInv'
<1>1. ~ended /\ ~ended' /\ plan' = plan
  BY DEF ExecSkyline
<1>2. /\ todo # <<>> /\ Head(todo) \in Methods
      /\ plan = NodePlan(query, Head(todo), SkylineRows(query, tuples))
      /\ IInv /\ Returned
  BY <1>1 DEF StageInv, Running
<1>3. plan = NodePlan(query, plan.method, SkylineRows(query, tuples))
  BY <1>2, PlanFields
<1>4. IInv' /\ Returned'
  BY <1>2, <1>3, NextIInv, ReturnedStep DEF Next
<1>5. Running'
  BY <1>1, <1>2, <1>4 DEF Running
<1>6. PlanTypes' /\ \E pk : Stage(pk)'
  BY DEF StageInv, PlanTypes, Stage, AtFilter, AtSort, AtSkyline, AtOrderBy, AtEnd
<1> QED
  BY <1>5, <1>6 DEF StageInv

\* What a node that has finished returned.
LEMMA FinishRows ==
    ASSUME StageInv, FinishNode
    PROVE  /\ RowNumbers(query, tuples')
           /\ Range(tuples') = {tuples[o] : o \in {output[k] : k \in 1..Len(output)}}
           /\ Head(todo) # "SM_BLOCKNESTEDLOOP" =>
                \A pk : RowsSorted(query, pk, tuples) => RowsSorted(query, pk, tuples')
<1>1. ~ended /\ tuples' = [k \in DOMAIN output |-> tuples[output[k]]]
  BY DEF FinishNode
<1>2. /\ plan = NodePlan(query, Head(todo), SkylineRows(query, tuples))
      /\ IInv /\ Returned /\ BaseInv /\ OutputInv /\ Chosen
  BY <1>1 DEF StageInv, Running, IInv, BaseInv, NodeTypes, NodeInv
<1>3. query \in Queries /\ RowNumbers(query, tuples) /\ tuples \in Seq(DOMAIN query.table)
  BY DEF StageInv, PlanTypes, RowNumbers
<1>4. input = SkylineRows(query, tuples)
  BY <1>2, PlanFields DEF Chosen
<1>5. output \in Seq(Int) /\ Len(input) = Len(tuples)
  BY <1>2, <1>3, <1>4, InputRows, MethodFrame
<1>6. OutputIds /\ DistinctOutput /\ (Head(todo) # "SM_BLOCKNESTEDLOOP" => Increasing(output))
  BY <1>2, PlanFields DEF Returned, OutputInv
<1> QED
  BY <1>1, <1>3, <1>5, <1>6, ReturnedRows

\* The order that is known of what the skyline node returns.
LEMMA OrderAfterSkyline ==
    ASSUME NEW q \in Queries, NEW pk \in Paths(q), OrderByNodes(q, pk) = <<>>,
           NEW s, Method(q, pk) # "SM_BLOCKNESTEDLOOP" => RowsSorted(q, InputOrder(q, pk), s)
    PROVE  RowsSorted(q, q.orderBy, s)
<1> DEFINE after == PathkeysAfterSkyline(q, pk)
<1>1. IsPrefix(q.orderBy, after)
  BY Zenon DEF OrderByNodes, pathkeys_contained_in
<1>2. q.orderBy \in Seq(SortKey) /\ InputOrder(q, pk) \in Seq(SortKey) /\ <<>> \in Seq(SortKey)
  BY QueriesAssumption, InputOrderTyped
<1>3. Method(q, pk) \in Methods
  BY ChosenMethod
<1>4. CASE Method(q, pk) = "SM_BLOCKNESTEDLOOP"
  <2>1. after = <<>>
    BY <1>4, Zenon DEF PathkeysAfterSkyline, skyline_method_preserves_tuple_order
  <2>2. RowsSorted(q, <<>>, s)
    BY DEF RowsSorted, Less
  <2> QED
    BY <1>1, <1>2, <2>1, <2>2, SortedByPrefix
<1>5. CASE Method(q, pk) # "SM_BLOCKNESTEDLOOP"
  <2>1. after = InputOrder(q, pk)
    <3>1. skyline_method_preserves_tuple_order(Method(q, pk))
      BY <1>3, <1>5 DEF skyline_method_preserves_tuple_order
    <3> QED
      BY <3>1, Zenon DEF PathkeysAfterSkyline, InputOrder
  <2> QED
    BY <1>1, <1>2, <1>5, <2>1, SortedByPrefix
<1> QED
  BY <1>4, <1>5

\* A node that finishes leaves its rows to the next, in the order it keeps.
LEMMA FinishStage ==
    ASSUME StageInv, FinishNode
    PROVE  StageInv'
<1>1. /\ ~ended /\ ended' /\ todo' = Tail(todo) /\ query' = query /\ query \in Queries
      /\ todo # <<>> /\ Head(todo) \in Methods
  BY DEF FinishNode, StageInv, Running, PlanTypes
<1>2. PlanTypes'
  BY <1>1, FinishRows DEF PlanTypes
<1>3. PICK pk : Stage(pk) /\ (AtFilter(pk) \/ AtSkyline(pk))
  BY <1>1, PlannedNode
<1>4. pk \in Paths(query) /\ MethodAccepted(Method(query, pk), Dim(query))
  BY <1>3 DEF Stage
<1>5. CASE AtFilter(pk)
  <2>1. Head(todo) = "SM_ELIMFILTER" /\ todo' = SortNodes(query, pk)
    BY <1>1, <1>5, NextNode
  <2>2. RowsSorted(query, pk, tuples')
    BY <1>5, <2>1, FinishRows DEF AtFilter
  <2>3. AtSort(pk)' \/ AtSkyline(pk)'
    BY <1>1, <2>1, <2>2, FromSort DEF AtSort, AtSkyline
  <2>4. Stage(pk)'
    BY <1>1, <1>4, <2>3 DEF Stage
  <2> QED
    BY <1>1, <1>2, <2>4 DEF StageInv, Running
<1>6. CASE AtSkyline(pk)
  <2>1. Head(todo) = Method(query, pk) /\ todo' = OrderByNodes(query, pk)
    BY <1>1, <1>6, NextNode
  <2>2. Method(query, pk) # "SM_BLOCKNESTEDLOOP" => RowsSorted(query, InputOrder(query, pk), tuples')
    BY <1>6, <2>1, FinishRows DEF AtSkyline
  <2>3. CASE OrderByNodes(query, pk) = <<>>
    <3>1. RowsSorted(query, query.orderBy, tuples')
      BY <1>1, <1>4, <2>2, <2>3, OrderAfterSkyline
    <3>2. AtEnd'
      BY <1>1, <2>1, <2>3, <3>1 DEF AtEnd
    <3>3. Stage(pk)'
      BY <1>1, <1>4, <3>2 DEF Stage
    <3> QED
      BY <1>1, <1>2, <3>3 DEF StageInv, Running
  <2>4. CASE OrderByNodes(query, pk) # <<>>
    <3>1. AtOrderBy'
      BY <2>1, <2>4, Zenon DEF OrderByNodes, AtOrderBy
    <3>2. Stage(pk)'
      BY <1>1, <1>4, <3>1 DEF Stage
    <3> QED
      BY <1>1, <1>2, <3>2 DEF StageInv, Running
  <2> QED
    BY <2>3, <2>4
<1> QED
  BY <1>3, <1>5, <1>6

\* A sort.
LEMMA SortRows ==
    ASSUME StageInv, NEW planNode, NEW keys, Sort(planNode, keys)
    PROVE  /\ ended /\ ended' /\ query' = query /\ query \in Queries
           /\ todo # <<>> /\ Head(todo) = planNode /\ todo' = Tail(todo)
           /\ RowsSorted(query, keys, tuples') /\ PlanTypes' /\ Range(tuples') = Range(tuples)
<1>1. /\ query \in Queries /\ RowNumbers(query, tuples)
      /\ tuples' \in Bijection(DOMAIN tuples, Range(tuples))
      /\ RowsSorted(query, keys, tuples')
  BY DEF StageInv, PlanTypes, Sort, Sorts, SortedBy, RowsSorted
<1>2. RowNumbers(query, tuples') /\ Range(tuples') = Range(tuples)
  BY <1>1, SortedRows
<1>3. query' = query /\ ended' = ended
  BY DEF Sort, vars
<1> QED
  BY <1>1, <1>2, <1>3 DEF PlanTypes, Sort

\* A sort brings them into the order the next node relies on.
LEMMA SortStage ==
    ASSUME StageInv, SortForSkyline \/ SortForOrderBy
    PROVE  StageInv'
<1>1. PICK pk : Stage(pk)
  BY DEF StageInv
<1>2. CASE SortForSkyline
  <2>1. /\ ended' /\ query' = query /\ query \in Queries /\ PlanTypes'
        /\ todo # <<>> /\ Head(todo) = "SORT_SKYLINE" /\ todo' = Tail(todo)
        /\ RowsSorted(query, SkylinePathkeys(query), tuples')
    BY <1>2, SortRows DEF SortForSkyline
  <2>2. Method(query, pk) # "SORT_SKYLINE"
    BY <2>1, ChosenMethod DEF Methods
  <2>3. AtSort(pk)
    BY <1>1, <2>1, <2>2, NextNode DEF Stage
  <2>4. todo' = SkylineNodes(query, pk) /\ InputOrder(query, pk) = SkylinePathkeys(query)
    BY <2>1, <2>3, NextNode, FromSort DEF AtSort
  <2>5. AtSkyline(pk)'
    BY <2>1, <2>4 DEF AtSkyline
  <2>6. Stage(pk)'
    BY <1>1, <2>1, <2>5 DEF Stage
  <2> QED
    BY <2>1, <2>6 DEF StageInv, Running
<1>3. CASE SortForOrderBy
  <2>1. /\ ended' /\ query' = query /\ query \in Queries /\ PlanTypes'
        /\ todo # <<>> /\ Head(todo) = "SORT_ORDER_BY" /\ todo' = Tail(todo)
        /\ RowsSorted(query, query.orderBy, tuples')
    BY <1>3, SortRows DEF SortForOrderBy
  <2>2. Method(query, pk) # "SORT_ORDER_BY"
    BY <2>1, ChosenMethod DEF Methods
  <2>3. AtOrderBy
    BY <1>1, <2>1, <2>2, NextNode DEF Stage
  <2>4. AtEnd'
    BY <2>1, <2>3, NextNode DEF AtEnd
  <2>5. Stage(pk)'
    BY <1>1, <2>1, <2>4 DEF Stage
  <2> QED
    BY <2>1, <2>5 DEF StageInv, Running
<1> QED
  BY <1>2, <1>3

\* A step that changes nothing.
LEMMA StageUnchanged ==
    ASSUME StageInv, UNCHANGED allVars
    PROVE  StageInv'
<1>1. /\ query' = query /\ todo' = todo /\ tuples' = tuples /\ ended' = ended /\ plan' = plan
      /\ UNCHANGED vars
  BY DEF allVars, vars
<1>2. ASSUME ~ended PROVE IInv' /\ Returned'
  <2>1. IInv /\ Returned
    BY <1>2 DEF StageInv, Running
  <2>2. IInv'
    BY <1>1, <2>1, NextIInv
  <2>3. Returned'
    BY <1>1, <2>1, ReturnedUnchanged
  <2> QED
    BY <2>2, <2>3
<1>3. Running'
  BY <1>1, <1>2 DEF StageInv, Running
<1>4. PlanTypes' /\ \E pk : Stage(pk)'
  BY <1>1 DEF StageInv, PlanTypes, Stage, AtFilter, AtSort, AtSkyline, AtOrderBy, AtEnd
<1> QED
  BY <1>3, <1>4 DEF StageInv

\* StageInv is inductive.
LEMMA StageNext == StageInv /\ [PlanNext]_allVars => StageInv'
<1> SUFFICES ASSUME StageInv, [PlanNext]_allVars PROVE StageInv'
  OBVIOUS
<1>1. CASE StartNode
  BY <1>1, StartStage
<1>2. CASE ExecSkyline /\ UNCHANGED <<query, todo, tuples>>
  BY <1>2, ExecStage
<1>3. CASE FinishNode
  BY <1>3, FinishStage
<1>4. CASE SortForSkyline \/ SortForOrderBy
  BY <1>4, SortStage
<1>5. CASE UNCHANGED allVars
  BY <1>5, StageUnchanged
<1> QED
  BY <1>1, <1>2, <1>3, <1>4, <1>5 DEF PlanNext, Answered

\* The query's result is in the order ORDER BY asks for, whatever the planner
\* leaves to the nodes: for every query and every set of indexes.
THEOREM ResultIsOrderedCorrect == PlanSpec => []ResultIsOrdered
<1>1. StageInv => ResultIsOrdered
  <2> SUFFICES ASSUME StageInv, todo = <<>> PROVE SortedBy(query.orderBy, tuples)
    BY DEF ResultIsOrdered
  <2>1. PICK pk : Stage(pk)
    BY DEF StageInv
  <2>2. query \in Queries
    BY DEF StageInv, PlanTypes
  <2>3. AtEnd
    BY <2>1, <2>2, NextNode DEF Stage
  <2> QED
    BY <2>3 DEF AtEnd, RowsSorted, SortedBy
<1> QED
  BY <1>1, InitStage, StageNext, PTL DEF PlanSpec

\* The assertion that no tuple of the window is dominated by the tuple that the
\* sort filter skyline compares with it holds if the planner's assumption about
\* the indexes does.
THEOREM AssertNotDominatedCorrect ==
    ASSUME \A q \in Queries : ColumnsInFront(q)
    PROVE  PlanSpec => []AssertNotDominated
<1>1. StageInv => AssertNotDominated
  <2> SUFFICES ASSUME StageInv, ~ended, plan.method = "SM_SFS", SFS!Comparing,
                      ~tuplewindow_ateof(window)
               PROVE  SFS!Cmp # "SECOND_DOMINATES"
    BY DEF AssertNotDominated
  <2>1. /\ todo # <<>> /\ Head(todo) \in Methods /\ IInv
        /\ plan = NodePlan(query, Head(todo), SkylineRows(query, tuples))
    BY DEF StageInv, Running
  <2>2. Head(todo) = "SM_SFS" /\ query \in Queries /\ tuples \in Seq(DOMAIN query.table)
    BY <2>1, PlanFields DEF StageInv, PlanTypes, RowNumbers
  <2>3. PICK pk : Stage(pk) /\ (AtFilter(pk) \/ AtSkyline(pk))
    BY <2>1, PlannedNode
  <2>4. Method(query, pk) = "SM_SFS" /\ RowsSorted(query, InputOrder(query, pk), tuples)
    BY <2>2, <2>3, NextNode DEF AtSkyline
  <2>5. WellPlanned(plan)
    BY <2>1, <2>2, <2>3, <2>4, SortFilterPlanned DEF Stage
  <2> QED
    BY <2>1, <2>5, SFSNotDominated
<1> QED
  BY <1>1, InitStage, StageNext, PTL DEF PlanSpec

-----------------------------------------------------------------------------
(* The skyline of the table, and what is left of it to find. *)

RowBeats(q, i, j) == Dominates(NodeOf(q), SkylineRow(q, i), SkylineRow(q, j))
SameRow(q, i, j)  == SkylineRow(q, i) = SkylineRow(q, j)

Best(q, i) == \A j \in DOMAIN q.table : ~RowBeats(q, j, i)

\* Only superfluous rows are missing in R.
Kept(q, R) ==
    /\ R \subseteq DOMAIN q.table
    /\ \A i \in DOMAIN q.table \ R :
         \E j \in R : RowBeats(q, j, i) \/ (q.distinct /\ SameRow(q, j, i))

\* The rows in R answer the query.
Answers(q, R) ==
    /\ R \subseteq DOMAIN q.table
    /\ \A i \in R : Best(q, i)
    /\ \A i \in DOMAIN q.table : Best(q, i) =>
         i \in R \/ (q.distinct /\ \E j \in R : SameRow(q, j, i))
    /\ q.distinct => \A j, k \in R : j # k => ~SameRow(q, j, k)

\* Rows that are equal in all columns are the same.
LEMMA AllEqSame ==
    ASSUME NEW nd \in PlanNode, NEW a \in Row(nd), NEW b \in Row(nd)
    PROVE  AllEq(nd, a, b) <=> a = b
<1>1. a = b => AllEq(nd, a, b)
  BY DominanceIrreflexive
<1>2. ASSUME AllEq(nd, a, b) PROVE a = b
  <2>1. \A c \in Columns(nd) : ApplyCompare(nd.cols[c], a[c], b[c]) = 0
    BY <1>2, Outcomes
  <2>2. ASSUME NEW c \in Columns(nd) PROVE a[c] = b[c]
    <3>1. a[c] \in Datum /\ b[c] \in Datum /\ ApplyCompare(nd.cols[c], a[c], b[c]) = 0
      BY <2>1, <2>2 DEF Row
    <3> QED
      BY <3>1, NullAssumption DEF ApplyCompare, Sign, Datum
  <2> QED
    BY <2>2 DEF Row
<1> QED
  BY <1>1, <1>2

\* The order of the rows is transitive.
LEMMA BeatsTransitive ==
    ASSUME NEW q \in Queries, NEW i \in DOMAIN q.table, NEW j \in DOMAIN q.table,
           NEW k \in DOMAIN q.table
    PROVE  /\ RowBeats(q, i, j) /\ RowBeats(q, j, k) => RowBeats(q, i, k)
           /\ SameRow(q, i, j) /\ RowBeats(q, j, k) => RowBeats(q, i, k)
           /\ RowBeats(q, i, j) /\ SameRow(q, j, k) => RowBeats(q, i, k)
<1>1. /\ NodeOf(q) \in PlanNode /\ SkylineRow(q, i) \in Row(NodeOf(q))
      /\ SkylineRow(q, j) \in Row(NodeOf(q)) /\ SkylineRow(q, k) \in Row(NodeOf(q))
  BY QueryNode
<1> QED
  BY <1>1, DominanceTransitive DEF RowBeats, SameRow

\* Leaving out superfluous rows twice is leaving out superfluous rows.
LEMMA KeptTwice ==
    ASSUME NEW q \in Queries, NEW R, NEW S, Kept(q, R), S \subseteq R,
           \A i \in R \ S : \E j \in S : RowBeats(q, j, i) \/ (q.distinct /\ SameRow(q, j, i))
    PROVE  Kept(q, S)
<1>1. R \subseteq DOMAIN q.table /\ S \subseteq DOMAIN q.table
  BY DEF Kept
<1>2. ASSUME NEW i \in DOMAIN q.table \ S
      PROVE  \E j \in S : RowBeats(q, j, i) \/ (q.distinct /\ SameRow(q, j, i))
  <2>1. CASE i \in R
    BY <1>2, <2>1
  <2>2. CASE i \notin R
    <3>1. PICK j \in R : RowBeats(q, j, i) \/ (q.distinct /\ SameRow(q, j, i))
      BY <1>2, <2>2 DEF Kept
    <3>2. CASE j \in S
      BY <3>1, <3>2
    <3>3. CASE j \notin S
      <4>1. PICK k \in S : RowBeats(q, k, j) \/ (q.distinct /\ SameRow(q, k, j))
        BY <3>3
      <4>2. j \in DOMAIN q.table /\ k \in DOMAIN q.table /\ i \in DOMAIN q.table
        BY <1>1, <1>2
      <4>3. SameRow(q, k, j) /\ SameRow(q, j, i) => SameRow(q, k, i)
        BY DEF SameRow
      <4> QED
        BY <3>1, <4>1, <4>2, <4>3, BeatsTransitive
    <3> QED
      BY <3>2, <3>3
  <2> QED
    BY <2>1, <2>2
<1> QED
  BY <1>1, <1>2 DEF Kept

\* The skyline of rows among which only superfluous ones are missing is that
\* of the table.
LEMMA SkylineOfKept ==
    ASSUME NEW q \in Queries, NEW R, NEW S, Kept(q, R), S \subseteq R,
           \A i \in S, j \in R : ~RowBeats(q, j, i),
           \A i \in R : (\A j \in R : ~RowBeats(q, j, i)) =>
             i \in S \/ (q.distinct /\ \E k \in S : SameRow(q, k, i)),
           q.distinct => \A j, k \in S : j # k => ~SameRow(q, j, k)
    PROVE  Answers(q, S)
<1>1. R \subseteq DOMAIN q.table /\ S \subseteq DOMAIN q.table
  BY DEF Kept
<1>2. ASSUME NEW i \in S, NEW j \in DOMAIN q.table, RowBeats(q, j, i) PROVE FALSE
  <2>1. j \notin R
    BY <1>2
  <2>2. PICK k \in R : RowBeats(q, k, j) \/ (q.distinct /\ SameRow(q, k, j))
    BY <1>2, <2>1 DEF Kept
  <2>3. i \in DOMAIN q.table /\ k \in DOMAIN q.table
    BY <1>1
  <2>4. RowBeats(q, k, i)
    BY <1>2, <2>2, <2>3, BeatsTransitive
  <2> QED
    BY <2>4
<1>3. ASSUME NEW i \in DOMAIN q.table, Best(q, i)
      PROVE  i \in S \/ (q.distinct /\ \E j \in S : SameRow(q, j, i))
  <2>1. CASE i \in R
    <3>1. \A j \in R : ~RowBeats(q, j, i)
      BY <1>1, <1>3 DEF Best
    <3> QED
      BY <2>1, <3>1
  <2>2. CASE i \notin R
    <3>1. PICK j \in R : RowBeats(q, j, i) \/ (q.distinct /\ SameRow(q, j, i))
      BY <1>3, <2>2 DEF Kept
    <3>2. j \in DOMAIN q.table
      BY <1>1
    <3>3. q.distinct /\ SameRow(q, j, i)
      BY <1>3, <3>1, <3>2 DEF Best
    <3>4. \A k \in R : ~RowBeats(q, k, j)
      <4> TAKE k \in R
      <4>1. k \in DOMAIN q.table /\ ~RowBeats(q, k, i)
        BY <1>1, <1>3 DEF Best
      <4> QED
        BY <3>2, <3>3, <4>1, BeatsTransitive
    <3>5. j \in S \/ \E k \in S : SameRow(q, k, j)
      BY <3>4
    <3>6. \A k \in S : SameRow(q, k, j) => SameRow(q, k, i)
      BY <3>3 DEF SameRow
    <3> QED
      BY <3>3, <3>5, <3>6
  <2> QED
    BY <2>1, <2>2
<1> QED
  BY <1>1, <1>2, <1>3 DEF Answers, Best

-----------------------------------------------------------------------------
(* What a node has answered when it returns NULL, if it has not been rescanned. *)

QueryAnswered ==
    /\ QueryInv
    /\ \A i \in Query!Emitted : Query!InSkyline(i)
    /\ node.skyline_distinct => \A j, k \in Query!Emitted : j # k => input[j] # input[k]
    /\ done => \A i \in Query!Ids : ~Query!MayEmit(i)

\* A tuple that the filter has passed on, or need not pass on.
Settled(i) == i \in Filter!Passed \/ Filter!Superfluous(i)

FilterAnswered ==
    /\ \A i \in 1..Len(input) : i <= Filter!Reached => Settled(i)
    /\ done => \A i \in 1..Len(input) : Settled(i)

\* A tuple more that the query's node returns.
LEMMA EmitAnswered ==
    ASSUME node \in PlanNode, input \in Seq(Row(node)), output \in Seq(Int),
           QueryAnswered, NEW i \in Query!Ids, Query!Emit(i), QueryInv', EmittedIds,
           plan.method # "SM_ELIMFILTER"
    PROVE  QueryAnswered'
<1>1. /\ ~done /\ ~done' /\ Query!MayEmit(i) /\ output' = Append(output, i)
      /\ node' = node /\ input' = input
  BY DEF Query!Emit, QueryAnswered
<1>2. /\ Query!Emitted' = Query!Emitted \cup {i}
      /\ \A k : Query!InSkyline(k)' <=> Query!InSkyline(k)
  BY <1>1, MayEmitShrinks
<1>3. /\ Query!InSkyline(i) /\ i \notin Query!Emitted
      /\ node.skyline_distinct => \A k \in Query!Emitted : ~AllEq(node, input[k], input[i])
  BY <1>1, QueryExpanded
<1>4. \A k \in Query!Emitted : k \in 1..Len(input)
  BY DEF EmittedIds, Query!Ids
<1>5. node.skyline_distinct => \A k \in Query!Emitted : input[k] # input[i]
  <2>1. i \in 1..Len(input) /\ \A k \in 1..Len(input) : input[k] \in Row(node)
    BY DEF Query!Ids
  <2> QED
    BY <1>3, <1>4, <2>1, AllEqSame
<1>6. \A k \in Query!Emitted' : Query!InSkyline(k)'
  BY <1>2, <1>3 DEF QueryAnswered
<1>7. node'.skyline_distinct => \A j, k \in Query!Emitted' : j # k => input'[j] # input'[k]
  BY <1>1, <1>2, <1>5 DEF QueryAnswered
<1> QED
  BY <1>1, <1>6, <1>7 DEF QueryAnswered

\* A step of the query.
LEMMA QueryAnsweredStep ==
    ASSUME IInv, QueryAnswered, plan.method # "SM_ELIMFILTER", QueryInv',
           QueryStep
    PROVE  QueryAnswered'
<1>1. /\ node \in PlanNode /\ input \in Seq(Row(node)) /\ output \in Seq(Int) /\ EmittedIds
  BY MethodFrame DEF IInv, QueryAnswered, QueryInv
<1>2. ASSUME NEW i \in Query!Ids, Query!Emit(i) PROVE QueryAnswered'
  BY <1>1, <1>2, EmitAnswered
<1>3. CASE UNCHANGED <<node, input, output>> /\ (done' = done \/ \A i \in Query!Ids : ~Query!MayEmit(i))
  <2>1. /\ \A i : Query!InSkyline(i)' <=> Query!InSkyline(i)
        /\ \A i : Query!MayEmit(i)' <=> Query!MayEmit(i)
        /\ Query!Emitted' = Query!Emitted /\ Query!Ids' = Query!Ids
    BY <1>3, MayEmitSame
  <2>2. done' => \A i \in Query!Ids' : ~Query!MayEmit(i)'
    BY <1>3, <2>1 DEF QueryAnswered
  <2> QED
    BY <1>3, <2>1, <2>2 DEF QueryAnswered
<1>4. CASE Query!Finish \/ UNCHANGED <<node, input, output, done>>
  BY <1>3, <1>4 DEF Query!Finish
<1> QED
  BY <1>2, <1>4 DEF QueryStep, Query!Next

\* Passing on a tuple takes none away.
LEMMA FilterPassed ==
    ASSUME NEW x, output \in Seq(Int), output' = Append(output, x), node' = node, input' = input
    PROVE  /\ Filter!Passed' = Filter!Passed \cup {x} /\ Filter!Reached' = x
           /\ \A i : Settled(i) => Settled(i)'
<1>1. /\ Len(output') = Len(output) + 1 /\ Len(output) \in Nat
      /\ \A k \in 1..Len(output) : output'[k] = output[k]
      /\ output'[Len(output) + 1] = x /\ output' # <<>>
      /\ 1..Len(output') = 1..Len(output) \cup {Len(output) + 1}
  OBVIOUS
<1>2. Filter!Passed' = Filter!Passed \cup {x}
  BY <1>1 DEF Filter!Passed
<1>3. Filter!Reached' = x
  BY <1>1 DEF Filter!Reached
<1>4. \A i : Filter!Superfluous(i) => Filter!Superfluous(i)'
  BY <1>2 DEF Filter!Superfluous
<1> QED
  BY <1>2, <1>3, <1>4 DEF Settled

\* A step of the filter.
LEMMA FilterAnsweredStep ==
    ASSUME IInv, FilterAnswered, plan.method = "SM_ELIMFILTER", ExecSkyline
    PROVE  FilterAnswered'
<1>1. output \in Seq(Int) /\ Len(input) \in Nat
  BY MethodFrame DEF IInv
<1>2. Filter!Next \/ UNCHANGED Filter!vars
  <2>1. RunElimFilter
    BY DEF ExecSkyline, RunBNL, RunSFS, Run1Dim, Run1DimDistinct, Run2DimPreSort, RunMNL
  <2> QED
    BY <2>1, FilterStep
<1>3. ASSUME NEW i \in Filter!Ids, Filter!Pass(i) PROVE FilterAnswered'
  <2>1. /\ ~done /\ ~done' /\ i > Filter!Reached /\ output' = Append(output, i)
        /\ node' = node /\ input' = input
        /\ \A j \in Filter!Reached+1..i-1 : Filter!Superfluous(j)
    BY <1>3 DEF Filter!Pass
  <2>2. /\ Filter!Passed' = Filter!Passed \cup {i} /\ Filter!Reached' = i
        /\ \A j : Settled(j) => Settled(j)'
    BY <1>1, <2>1, FilterPassed
  <2>3. Filter!Reached \in Int /\ i \in Int
    BY <1>1 DEF Filter!Reached, Filter!Ids
  <2>4. \A j \in 1..Len(input) : j <= i =>
          j <= Filter!Reached \/ j \in Filter!Reached+1..i-1 \/ j = i
    BY <2>3
  <2>5. ASSUME NEW j \in 1..Len(input), j <= i PROVE Settled(j)'
    <3>1. CASE j <= Filter!Reached
      BY <2>2, <2>5, <3>1 DEF FilterAnswered
    <3>2. CASE j \in Filter!Reached+1..i-1
      BY <2>1, <2>2, <3>2 DEF Settled
    <3>3. CASE j = i
      BY <2>2, <3>3 DEF Settled
    <3> QED
      BY <2>4, <2>5, <3>1, <3>2, <3>3
  <2> QED
    BY <2>1, <2>2, <2>5 DEF FilterAnswered
<1>4. CASE UNCHANGED <<node, input, output>>
  <2>1. /\ Filter!Reached' = Filter!Reached /\ Filter!Reached \in Int
        /\ \A i : Settled(i)' <=> Settled(i)
    BY <1>1, <1>4 DEF Filter!Reached, Settled, Filter!Passed, Filter!Superfluous
  <2>2. CASE done' = done
    BY <1>4, <2>1, <2>2 DEF FilterAnswered
  <2>3. CASE Filter!Finish
    <3>1. \A i \in 1..Len(input) : i <= Filter!Reached \/ i \in Filter!Reached+1..Len(input)
      BY <1>1, <2>1
    <3>2. \A i \in 1..Len(input) : Settled(i)
      BY <2>3, <3>1 DEF FilterAnswered, Settled, Filter!Finish
    <3> QED
      BY <1>4, <2>1, <3>2 DEF FilterAnswered
  <2>4. done' = done \/ Filter!Finish
    BY <1>2, <1>3, <1>4 DEF Filter!vars, Filter!Next, Filter!Pass
  <2> QED
    BY <2>2, <2>3, <2>4
<1> QED
  BY <1>2, <1>3, <1>4 DEF Filter!Next, Filter!Finish, Filter!vars

-----------------------------------------------------------------------------
(* From the table to the answer. *)

\* The skyline node has finished.
AfterSkyline == todo = <<>> \/ Head(todo) = "SORT_ORDER_BY"

NodeAnswered ==
    ~ended => /\ plan.method = "SM_ELIMFILTER" => FilterAnswered
              /\ plan.method # "SM_ELIMFILTER" => QueryAnswered

AnswerInv ==
    /\ ~AfterSkyline => Kept(query, Range(tuples))
    /\ AfterSkyline => Answers(query, Range(tuples))
    /\ NodeAnswered

\* Where the skyline node is and where it has finished.
LEMMA StagesAfterSkyline ==
    ASSUME query \in Queries, NEW pk
    PROVE  /\ AtFilter(pk) \/ AtSort(pk) \/ AtSkyline(pk) => ~AfterSkyline
           /\ AtOrderBy \/ AtEnd => AfterSkyline
  BY NextNode, ChosenMethod DEF AfterSkyline, Methods

\* The nodes above a filter and above the skyline node.
LEMMA NodesAfterSkyline ==
    ASSUME NEW q \in Queries, NEW pk
    PROVE  /\ SortNodes(q, pk) # <<>> /\ Head(SortNodes(q, pk)) # "SORT_ORDER_BY"
           /\ OrderByNodes(q, pk) = <<>> \/ Head(OrderByNodes(q, pk)) = "SORT_ORDER_BY"
<1>1. OrderByNodes(q, pk) \in Seq(NodeNames) /\ SkylineNodes(q, pk) \in Seq(NodeNames)
  BY NodeSequences
<1>2. Method(q, pk) # "SORT_ORDER_BY"
  BY ChosenMethod DEF Methods
<1>3. SkylineNodes(q, pk) # <<>> /\ Head(SkylineNodes(q, pk)) # "SORT_ORDER_BY"
  BY <1>1, <1>2, FirstNode DEF SkylineNodes
<1>4. SortNodes(q, pk) # <<>> /\ Head(SortNodes(q, pk)) # "SORT_ORDER_BY"
  BY <1>1, <1>3, FirstNode DEF SortNodes
<1>5. Head(<<"SORT_ORDER_BY">>) = "SORT_ORDER_BY"
  OBVIOUS
<1>6. OrderByNodes(q, pk) = <<>> \/ Head(OrderByNodes(q, pk)) = "SORT_ORDER_BY"
  BY <1>5, Zenon DEF OrderByNodes
<1> QED
  BY <1>4, <1>6

\* In the beginning the tuples are those of the table.
LEMMA InitAnswer == PlanInit => AnswerInv
<1> SUFFICES ASSUME PlanInit PROVE AnswerInv
  OBVIOUS
<1> DEFINE all == [i \in DOMAIN query.table |-> i]
<1>1. query \in Queries /\ ended
  BY DEF PlanInit, Idle
<1>2. PICK pk : AtFilter(pk) \/ AtSort(pk) \/ AtSkyline(pk)
  BY InitAtNodes
<1>3. ~AfterSkyline
  BY <1>1, <1>2, StagesAfterSkyline
<1>4. Range(tuples) = DOMAIN query.table
  BY InitAtNodes
<1> QED
  BY <1>1, <1>3, <1>4 DEF AnswerInv, Kept, NodeAnswered

\* A node has answered nothing when it starts.
LEMMA StartAnswer ==
    ASSUME StageInv, AnswerInv, StartNode
    PROVE  AnswerInv'
<1>1. QueryInv' /\ output' = <<>> /\ ~done'
  BY StartStage DEF StartNode
<1>2. QueryAnswered'
  <2>1. Query!Emitted' = {}
    BY <1>1 DEF Query!Emitted
  <2> QED
    BY <1>1, <2>1 DEF QueryAnswered
<1>3. FilterAnswered'
  <2>1. Filter!Reached' = 0
    BY <1>1 DEF Filter!Reached
  <2>2. \A i \in 1..Len(input') : ~(i <= Filter!Reached')
    BY <2>1
  <2> QED
    BY <1>1, <2>2 DEF FilterAnswered
<1>4. query' = query /\ tuples' = tuples /\ todo' = todo
  BY DEF StartNode
<1> QED
  BY <1>2, <1>3, <1>4 DEF AnswerInv, AfterSkyline, NodeAnswered

\* The plan of a running node is what its method relies on.
LEMMA RunningPlanned ==
    ASSUME \A q \in Queries : ColumnsInFront(q) /\ DiffRespected(q),
           StageInv, ~ended
    PROVE  WellPlanned(plan)
<1>1. /\ todo # <<>> /\ Head(todo) \in Methods /\ query \in Queries
      /\ tuples \in Seq(DOMAIN query.table)
      /\ plan = NodePlan(query, Head(todo), SkylineRows(query, tuples))
  BY DEF StageInv, PlanTypes, RowNumbers, Running
<1>2. CASE Head(todo) = "SM_ELIMFILTER"
  BY <1>1, <1>2, AlwaysPlanned
<1>3. CASE Head(todo) # "SM_ELIMFILTER"
  <2>1. PICK pk : Stage(pk) /\ (AtFilter(pk) \/ AtSkyline(pk))
    BY <1>1, PlannedNode
  <2>2. /\ pk \in Paths(query) /\ MethodAccepted(Method(query, pk), Dim(query))
        /\ Head(todo) = Method(query, pk) /\ RowsSorted(query, InputOrder(query, pk), tuples)
    BY <1>1, <1>3, <2>1, NextNode DEF Stage, AtSkyline
  <2> QED
    BY <1>1, <2>2, NodePlanned
<1> QED
  BY <1>2, <1>3

\* A node that runs.
LEMMA ExecAnswer ==
    ASSUME \A q \in Queries : ColumnsInFront(q) /\ DiffRespected(q),
           StageInv, AnswerInv, ExecSkyline, UNCHANGED <<query, todo, tuples>>
    PROVE  AnswerInv'
<1>1. /\ ~ended /\ ~ended' /\ plan' = plan
      /\ todo # <<>> /\ Head(todo) \in Methods /\ IInv /\ query \in Queries
      /\ tuples \in Seq(DOMAIN query.table)
      /\ plan = NodePlan(query, Head(todo), SkylineRows(query, tuples))
  BY DEF ExecSkyline, StageInv, PlanTypes, RowNumbers, Running
<1>2. plan.method = Head(todo)
  BY <1>1, PlanFields
<1>3. CASE plan.method = "SM_ELIMFILTER"
  <2>1. FilterAnswered'
    BY <1>1, <1>3, FilterAnsweredStep DEF AnswerInv, NodeAnswered
  <2> QED
    BY <1>1, <1>3, <2>1 DEF AnswerInv, AfterSkyline, NodeAnswered
<1>4. CASE plan.method # "SM_ELIMFILTER"
  <2>1. QueryAnswered /\ QueryInv
    BY <1>1, <1>4 DEF AnswerInv, NodeAnswered, QueryAnswered
  <2>2. WellPlanned(plan)
    BY <1>1, RunningPlanned
  <2>3. QueryInv' /\ QueryStep
    BY <1>1, <1>4, <2>1, <2>2, ExecQueryStep
  <2>4. QueryAnswered'
    BY <1>1, <1>4, <2>1, <2>3, QueryAnsweredStep
  <2> QED
    BY <1>1, <1>4, <2>4 DEF AnswerInv, AfterSkyline, NodeAnswered
<1> QED
  BY <1>3, <1>4

\* The rows a running node reads, and those it has returned.
LEMMA RunningRows ==
    ASSUME StageInv, ~ended
    PROVE  /\ query \in Queries /\ node = NodeOf(query) /\ Len(input) = Len(tuples)
           /\ plan.method = Head(todo)
           /\ DOMAIN tuples = 1..Len(tuples) /\ Range(tuples) \subseteq DOMAIN query.table
           /\ \A k \in 1..Len(tuples) :
                input[k] = SkylineRow(query, tuples[k]) /\ tuples[k] \in Range(tuples)
           /\ \A x \in Range(tuples) : \E k \in 1..Len(tuples) : tuples[k] = x
           /\ \A k \in Query!Emitted : k \in 1..Len(tuples)
           /\ \A k, m \in 1..Len(tuples) : k # m => tuples[k] # tuples[m]
<1>1. /\ query \in Queries /\ tuples \in Seq(DOMAIN query.table) /\ Distinctly(tuples)
      /\ plan = NodePlan(query, Head(todo), SkylineRows(query, tuples))
      /\ Chosen /\ OutputIds
  BY DEF StageInv, PlanTypes, RowNumbers, Running, Returned, IInv, BaseInv, NodeTypes
<1>2. input = SkylineRows(query, tuples) /\ node = NodeOf(query) /\ plan.method = Head(todo)
  BY <1>1, PlanFields DEF Chosen
<1>3. /\ DOMAIN tuples = 1..Len(tuples) /\ Range(tuples) \subseteq DOMAIN query.table
      /\ \A k \in 1..Len(tuples) : tuples[k] \in Range(tuples)
      /\ \A x \in Range(tuples) : \E k \in 1..Len(tuples) : tuples[k] = x
  BY <1>1 DEF Range
<1>4. /\ Len(input) = Len(tuples)
      /\ \A k \in 1..Len(tuples) : input[k] = SkylineRow(query, tuples[k])
  BY <1>1, <1>2, InputRows
<1>5. \A k \in Query!Emitted : k \in 1..Len(tuples)
  BY <1>1, <1>4 DEF OutputIds, Query!Emitted
<1> QED
  BY <1>1, <1>2, <1>3, <1>4, <1>5 DEF Distinctly

\* The rows left by a node that has finished.
LEMMA FinishedRows ==
    ASSUME StageInv, FinishNode
    PROVE  /\ \A x \in Range(tuples') : \E k \in Query!Emitted : tuples[k] = x
           /\ \A k \in Query!Emitted : tuples[k] \in Range(tuples')
           /\ Range(tuples') \subseteq Range(tuples)
<1>1. Range(tuples') = {tuples[o] : o \in {output[k] : k \in 1..Len(output)}}
  BY FinishRows
<1>2. Query!Emitted = {output[k] : k \in 1..Len(output)}
  BY DEF Query!Emitted
<1>3. Range(tuples') = {tuples[o] : o \in Query!Emitted}
  BY <1>1, <1>2, Zenon
<1>4. /\ \A k \in Query!Emitted : k \in 1..Len(tuples)
      /\ \A k \in 1..Len(tuples) : tuples[k] \in Range(tuples)
  BY RunningRows DEF FinishNode
<1> HIDE <1>1, <1>2
<1> QED
  BY <1>3, <1>4

\* The comparison in the instance for the filter.
LEMMA SameFilterComparison ==
    ASSUME NEW n, NEW a, NEW b
    PROVE  /\ Filter!Dominates(n, a, b) <=> Dominates(n, a, b)
           /\ Filter!AllEq(n, a, b) <=> AllEq(n, a, b)
  BY SMT DEF Filter!Dominates, Filter!AllEq, Filter!IsDominating, Filter!ApplyCompare,
     Filter!Columns, Filter!Sign, Dominates, AllEq, IsDominating, ApplyCompare, Columns, Sign

\* A filter that has finished leaves out superfluous rows only.
LEMMA FinishFilter ==
    ASSUME StageInv, FinishNode, FilterAnswered, Kept(query, Range(tuples))
    PROVE  Kept(query, Range(tuples'))
<1>1. ~ended /\ done
  BY DEF FinishNode
<1>2. /\ query \in Queries /\ node = NodeOf(query) /\ Len(input) = Len(tuples)
      /\ Range(tuples) \subseteq DOMAIN query.table
      /\ \A k \in 1..Len(tuples) : input[k] = SkylineRow(query, tuples[k])
      /\ \A x \in Range(tuples) : \E k \in 1..Len(tuples) : tuples[k] = x
      /\ \A k \in Query!Emitted : k \in 1..Len(tuples)
  BY <1>1, RunningRows
<1>3. /\ Range(tuples') \subseteq Range(tuples)
      /\ \A k \in Query!Emitted : tuples[k] \in Range(tuples')
  BY FinishedRows
<1>4. ASSUME NEW x \in Range(tuples) \ Range(tuples')
      PROVE  \E y \in Range(tuples') : RowBeats(query, y, x) \/ (query.distinct /\ SameRow(query, y, x))
  <2>1. PICK i \in 1..Len(tuples) : tuples[i] = x
    BY <1>2, <1>4
  <2>2. Filter!Passed = Query!Emitted
    BY DEF Filter!Passed, Query!Emitted
  <2>3. i \notin Query!Emitted
    BY <1>3, <1>4, <2>1
  <2>4. Filter!Superfluous(i)
    BY <1>1, <1>2, <2>2, <2>3 DEF FilterAnswered, Settled
  <2>5. PICK k \in Query!Emitted : \/ Dominates(node, input[k], input[i])
                                   \/ node.skyline_distinct /\ AllEq(node, input[k], input[i])
    BY <2>2, <2>4, SameFilterComparison DEF Filter!Superfluous
  <2>6. /\ input[k] = SkylineRow(query, tuples[k]) /\ input[i] = SkylineRow(query, x)
        /\ tuples[k] \in Range(tuples') /\ tuples[k] \in DOMAIN query.table
        /\ x \in DOMAIN query.table
    BY <1>2, <1>3, <1>4, <2>1
  <2>7. /\ node.skyline_distinct = query.distinct /\ node \in PlanNode
        /\ SkylineRow(query, tuples[k]) \in Row(node) /\ SkylineRow(query, x) \in Row(node)
    BY <1>2, <2>6, QueryNode
  <2>8. \/ RowBeats(query, tuples[k], x)
        \/ query.distinct /\ SameRow(query, tuples[k], x)
    BY <1>2, <2>5, <2>6, <2>7, AllEqSame DEF RowBeats, SameRow
  <2> QED
    BY <2>6, <2>8
<1> QED
  BY <1>2, <1>3, <1>4, KeptTwice

\* A skyline node that has finished leaves the answer.
LEMMA FinishSkyline ==
    ASSUME StageInv, FinishNode, QueryAnswered, Kept(query, Range(tuples))
    PROVE  Answers(query, Range(tuples'))
<1>1. ~ended /\ done
  BY DEF FinishNode
<1>2. /\ query \in Queries /\ node = NodeOf(query) /\ Len(input) = Len(tuples)
      /\ Range(tuples) \subseteq DOMAIN query.table
      /\ \A k \in 1..Len(tuples) :
           input[k] = SkylineRow(query, tuples[k]) /\ tuples[k] \in Range(tuples)
      /\ \A x \in Range(tuples) : \E k \in 1..Len(tuples) : tuples[k] = x
      /\ \A k \in Query!Emitted : k \in 1..Len(tuples)
  BY <1>1, RunningRows
<1>3. /\ \A x \in Range(tuples') : \E k \in Query!Emitted : tuples[k] = x
      /\ \A k \in Query!Emitted : tuples[k] \in Range(tuples')
      /\ Range(tuples') \subseteq Range(tuples)
  BY FinishedRows
<1>4. /\ node.skyline_distinct = query.distinct /\ node \in PlanNode
      /\ \A x \in Range(tuples) : SkylineRow(query, x) \in Row(node)
  BY <1>2, QueryNode
<1>5. \A i \in 1..Len(tuples), j \in 1..Len(tuples) :
        Dominates(node, input[j], input[i]) <=> RowBeats(query, tuples[j], tuples[i])
  BY <1>2 DEF RowBeats
<1>6. \A i \in 1..Len(tuples) :
        Query!InSkyline(i) <=> \A y \in Range(tuples) : ~RowBeats(query, y, tuples[i])
  <2> TAKE i \in 1..Len(tuples)
  <2>1. Query!InSkyline(i) <=> \A j \in 1..Len(tuples) : ~Dominates(node, input[j], input[i])
    BY <1>2, QueryExpanded
  <2> QED
    BY <1>2, <1>5, <2>1
<1>7. \A x \in Range(tuples'), y \in Range(tuples) : ~RowBeats(query, y, x)
  BY <1>2, <1>3, <1>6 DEF QueryAnswered
<1>8. ASSUME NEW x \in Range(tuples), \A y \in Range(tuples) : ~RowBeats(query, y, x)
      PROVE  x \in Range(tuples') \/ (query.distinct /\ \E y \in Range(tuples') : SameRow(query, y, x))
  <2>1. PICK i \in 1..Len(tuples) : tuples[i] = x
    BY <1>2
  <2>2. Query!InSkyline(i) /\ ~Query!MayEmit(i)
    BY <1>1, <1>2, <1>6, <1>8, <2>1 DEF QueryAnswered, Query!Ids
  <2>3. CASE i \in Query!Emitted
    BY <1>3, <2>1, <2>3
  <2>4. CASE i \notin Query!Emitted
    <3>1. PICK k \in Query!Emitted :
            \/ Dominates(node, input[k], input[i])
            \/ node.skyline_distinct /\ AllEq(node, input[k], input[i])
      BY <2>2, <2>4, QueryExpanded
    <3>2. ~Dominates(node, input[k], input[i])
      BY <1>2, <1>5, <1>8, <2>1
    <3>3. /\ input[k] = SkylineRow(query, tuples[k]) /\ input[i] = SkylineRow(query, x)
          /\ tuples[k] \in Range(tuples') /\ tuples[k] \in Range(tuples)
      BY <1>2, <1>3, <2>1
    <3>4. query.distinct /\ SameRow(query, tuples[k], x)
      BY <1>4, <3>1, <3>2, <3>3, AllEqSame DEF SameRow
    <3> QED
      BY <3>3, <3>4
  <2> QED
    BY <2>3, <2>4
<1>9. ASSUME query.distinct, NEW x \in Range(tuples'), NEW y \in Range(tuples'), x # y
      PROVE  ~SameRow(query, x, y)
  <2>1. PICK j \in Query!Emitted : tuples[j] = x
    BY <1>3
  <2>2. PICK k \in Query!Emitted : tuples[k] = y
    BY <1>3
  <2>3. input[j] # input[k]
    BY <1>4, <1>9, <2>1, <2>2 DEF QueryAnswered
  <2> QED
    BY <1>2, <2>1, <2>2, <2>3 DEF SameRow
<1> QED
  BY <1>2, <1>3, <1>7, <1>8, <1>9, SkylineOfKept

\* A node that finishes.
LEMMA FinishAnswer ==
    ASSUME StageInv, AnswerInv, FinishNode
    PROVE  AnswerInv'
<1>1. /\ ~ended /\ ended' /\ todo' = Tail(todo) /\ query' = query /\ query \in Queries
      /\ todo # <<>> /\ Head(todo) \in Methods
  BY DEF FinishNode, StageInv, Running, PlanTypes
<1>2. PICK pk : Stage(pk) /\ (AtFilter(pk) \/ AtSkyline(pk))
  BY <1>1, PlannedNode
<1>3. Kept(query, Range(tuples)) /\ NodeAnswered
  BY <1>1, <1>2, StagesAfterSkyline DEF AnswerInv
<1>4. plan.method = Head(todo)
  BY <1>1, RunningRows
<1>5. CASE AtFilter(pk)
  <2>1. Head(todo) = "SM_ELIMFILTER" /\ todo' = SortNodes(query, pk)
    BY <1>1, <1>5, NextNode
  <2>2. ~AfterSkyline'
    BY <1>1, <2>1, NodesAfterSkyline DEF AfterSkyline
  <2>3. Kept(query, Range(tuples'))
    BY <1>1, <1>3, <1>4, <2>1, FinishFilter DEF NodeAnswered
  <2> QED
    BY <1>1, <2>2, <2>3 DEF AnswerInv, NodeAnswered
<1>6. CASE AtSkyline(pk)
  <2>1. Head(todo) = Method(query, pk) /\ todo' = OrderByNodes(query, pk)
    BY <1>1, <1>6, NextNode
  <2>2. AfterSkyline'
    BY <1>1, <2>1, NodesAfterSkyline DEF AfterSkyline
  <2>3. plan.method # "SM_ELIMFILTER"
    BY <1>1, <1>4, <2>1, ChosenMethod
  <2>4. Answers(query, Range(tuples'))
    BY <1>1, <1>3, <2>3, FinishSkyline DEF NodeAnswered
  <2> QED
    BY <1>1, <2>2, <2>4 DEF AnswerInv, NodeAnswered
<1> QED
  BY <1>2, <1>5, <1>6

\* A sort changes no more than the order.
LEMMA SortAnswer ==
    ASSUME StageInv, AnswerInv, SortForSkyline \/ SortForOrderBy
    PROVE  AnswerInv'
<1>1. PICK pk : Stage(pk)
  BY DEF StageInv
<1>2. query \in Queries
  BY DEF StageInv, PlanTypes
<1>3. CASE SortForSkyline
  <2>1. /\ ended' /\ query' = query /\ Range(tuples') = Range(tuples)
        /\ todo # <<>> /\ Head(todo) = "SORT_SKYLINE" /\ todo' = Tail(todo)
    BY <1>3, SortRows DEF SortForSkyline
  <2>2. AtSort(pk)
    BY <1>1, <1>2, <2>1, NextNode, ChosenMethod DEF Stage, Methods
  <2>3. ~AfterSkyline
    BY <1>2, <2>2, StagesAfterSkyline
  <2>4. todo' = SkylineNodes(query, pk)
    BY <1>2, <2>1, <2>2, NextNode
  <2>5. ~AfterSkyline'
    <3>1. OrderByNodes(query, pk) \in Seq(NodeNames) /\ Method(query, pk) # "SORT_ORDER_BY"
      BY <1>2, NodeSequences, ChosenMethod DEF Methods
    <3> QED
      BY <2>4, <3>1, FirstNode DEF SkylineNodes, AfterSkyline
  <2> QED
    BY <2>1, <2>3, <2>5 DEF AnswerInv, NodeAnswered
<1>4. CASE SortForOrderBy
  <2>1. /\ ended' /\ query' = query /\ Range(tuples') = Range(tuples)
        /\ todo # <<>> /\ Head(todo) = "SORT_ORDER_BY" /\ todo' = Tail(todo)
    BY <1>4, SortRows DEF SortForOrderBy
  <2>2. AtOrderBy
    BY <1>1, <1>2, <2>1, NextNode, ChosenMethod DEF Stage, Methods
  <2>3. AfterSkyline /\ AfterSkyline'
    BY <1>2, <2>1, <2>2, NextNode DEF AfterSkyline
  <2> QED
    BY <2>1, <2>3 DEF AnswerInv, NodeAnswered
<1> QED
  BY <1>3, <1>4

\* A step that changes nothing.
LEMMA AnswerUnchanged ==
    ASSUME StageInv, AnswerInv, UNCHANGED allVars
    PROVE  AnswerInv'
<1>1. /\ query' = query /\ todo' = todo /\ tuples' = tuples /\ ended' = ended /\ plan' = plan
      /\ UNCHANGED vars /\ UNCHANGED <<node, input, output, done>>
  BY DEF allVars, vars
<1>2. FilterAnswered => FilterAnswered'
  BY <1>1 DEF FilterAnswered, Settled, Filter!Reached, Filter!Passed, Filter!Superfluous
<1>3. ASSUME ~ended, plan.method # "SM_ELIMFILTER" PROVE QueryAnswered'
  <2>1. IInv /\ QueryAnswered /\ QueryInv
    BY <1>3 DEF StageInv, Running, AnswerInv, NodeAnswered, QueryAnswered
  <2>2. QueryInv'
    BY <1>1, <2>1, EndQuery DEF IInv
  <2> QED
    BY <1>1, <1>3, <2>1, <2>2, QueryAnsweredStep DEF QueryStep
<1>4. NodeAnswered'
  BY <1>1, <1>2, <1>3 DEF AnswerInv, NodeAnswered
<1> QED
  BY <1>1, <1>4 DEF AnswerInv, AfterSkyline

\* Every node that runs has the plan its method relies on: the columns, the order
\* of the input and no rescan (WellPlanned, which the theorems about a node on its
\* own assume), if what the planner relies on without asking for it is true.
THEOREM PlannedAsReliedOn ==
    ASSUME \A q \in Queries : ColumnsInFront(q) /\ DiffRespected(q)
    PROVE  PlanSpec => [](ended \/ WellPlanned(plan))
<1>1. StageInv => ended \/ WellPlanned(plan)
  BY RunningPlanned
<1> QED
  BY <1>1, InitStage, StageNext, PTL DEF PlanSpec

\* The query returns the skyline of its table, whatever the table, the access path,
\* the method and the window are, with and without an elimination filter, if what
\* the planner relies on without asking for it is true.
THEOREM ResultIsSkylineCorrect ==
    ASSUME \A q \in Queries : ColumnsInFront(q) /\ DiffRespected(q)
    PROVE  PlanSpec => []ResultIsSkyline
<1>1. StageInv /\ AnswerInv /\ [PlanNext]_allVars => AnswerInv'
  <2> SUFFICES ASSUME StageInv, AnswerInv, [PlanNext]_allVars PROVE AnswerInv'
    OBVIOUS
  <2>1. CASE StartNode
    BY <2>1, StartAnswer
  <2>2. CASE ExecSkyline /\ UNCHANGED <<query, todo, tuples>>
    BY <2>2, ExecAnswer
  <2>3. CASE FinishNode
    BY <2>3, FinishAnswer
  <2>4. CASE SortForSkyline \/ SortForOrderBy
    BY <2>4, SortAnswer
  <2>5. CASE UNCHANGED allVars
    BY <2>5, AnswerUnchanged
  <2> QED
    BY <2>1, <2>2, <2>3, <2>4, <2>5 DEF PlanNext, Answered
<1>2. StageInv /\ AnswerInv => ResultIsSkyline
  <2> SUFFICES ASSUME StageInv, AnswerInv, todo = <<>> PROVE ResultIsSkyline
    BY DEF ResultIsSkyline
  <2>1. Answers(query, Result) /\ Distinctly(tuples)
    BY DEF AnswerInv, AfterSkyline, StageInv, PlanTypes, RowNumbers, Result
  <2>2. \A i : BestRow(i) <=> Best(query, i)
    BY DEF BestRow, Best, RowBeats, TableRows
  <2>3. \A i \in Result : BestRow(i)
    BY <2>1, <2>2 DEF Answers
  <2>4. CASE query.distinct
    <3>1. ASSUME NEW i \in TableRows, BestRow(i)
          PROVE  \E j \in Result : /\ SkylineRow(query, j) = SkylineRow(query, i)
                                   /\ \A k \in Result \ {j} : SkylineRow(query, k) # SkylineRow(query, i)
      <4>1. PICK j \in Result : SameRow(query, j, i)
        BY <2>1, <2>2, <3>1 DEF Answers, TableRows, SameRow
      <4>2. \A k \in Result \ {j} : ~SameRow(query, k, i)
        BY <2>1, <2>4, <4>1 DEF Answers, SameRow
      <4> QED
        BY <4>1, <4>2 DEF SameRow
    <3> QED
      BY <2>1, <2>3, <2>4, <3>1, Zenon DEF ResultIsSkyline, Distinctly
  <2>5. CASE ~query.distinct
    <3>1. \A i \in TableRows : BestRow(i) => i \in Result
      BY <2>1, <2>2, <2>5 DEF Answers, TableRows
    <3> QED
      BY <2>1, <2>3, <2>5, <3>1, Zenon DEF ResultIsSkyline, Distinctly
  <2> QED
    BY <2>4, <2>5
<1> QED
  BY <1>1, <1>2, InitStage, InitAnswer, StageNext, PTL DEF PlanSpec
=============================================================================
