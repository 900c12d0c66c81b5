---------------------------- MODULE MCSkylinePlan ----------------------------
(***************************************************************************)
(* Queries for model checking SkylinePlan: tables of three columns.        *)
(***************************************************************************)
EXTENDS SkylinePlan

\* A column of the SKYLINE OF list: its number in the table and its direction.
Col(n, dir) == [col |-> n, dir |-> dir]

ColumnOf(c) == [dir |-> c.dir, desc |-> c.dir = "MAX", nullsFirst |-> c.dir = "MAX",
                haveStats |-> c.col = 1, colMin |-> 1, colRange |-> 2]

Asc(n)  == [col |-> n, desc |-> FALSE, nullsFirst |-> FALSE]
Desc(n) == [col |-> n, desc |-> TRUE, nullsFirst |-> TRUE]

Option(name, value) == [name |-> name, value |-> value]

\* The options of a query: the value of EF and NOINDEX does not count.
Options3(method, ef, noindex, slots) ==
    method \o (IF ef THEN <<Option("ef", 0), Option("efslots", 1)>> ELSE <<>>)
    \o (IF noindex THEN <<Option("noindex", 1)>> ELSE <<>>)
    \o <<Option("windowslots", 3), Option("windowpolicy", "ENTROPY"),
         Option("efwindowpolicy", "ENTROPY")>>
    \o (IF slots = 1 THEN <<Option("slots", 1), Option("slots", 0)>> ELSE <<Option("slots", slots)>>)

Query3(table, skyline, distinct, method, ef, noindex, orderBy, indexes, slots) ==
    [table |-> table, skyline |-> [k \in DOMAIN skyline |-> ColumnOf(skyline[k])],
     colIdx |-> [k \in DOMAIN skyline |-> skyline[k].col],
     distinct |-> distinct, orderBy |-> orderBy, indexes |-> indexes, options |-> Options3(method, ef, noindex, slots)]

Method1(name) == <<Option(name, 0)>>

Tables2 == [1..2 -> (1..2) \X (1..2) \X {1}]
TablesOf3 ==
    { <<<<1, 3, 2>>, <<2, 1, 1>>, <<1, 2, 1>>>>,
      <<<<1, 2, 1>>, <<2, 1, 2>>, <<2, 2, 1>>>>,
      <<<<2, 2, 1>>, <<1, 2, 2>>, <<1, 2, 1>>>>,
      <<<<2, 2, 1>>, <<1, 2, 2>>, <<3, 1, 1>>>>,
      <<<<3, 1, 1>>, <<2, 2, 2>>, <<1, 3, 1>>>> }

\* Indexes that have the skyline columns in front, in any order, or that do
\* not have them all.
IndexSets ==
    { {}, {<<Asc(1), Asc(2)>>}, {<<Asc(2), Asc(1), Asc(3)>>},
      {<<Asc(1)>>, <<Asc(2), Desc(1)>>},
      {<<Asc(2), Asc(1)>>, <<Asc(1), Asc(2), Asc(3)>>},
      {<<Asc(3), Asc(2), Asc(1)>>} }

OrderBys == {<<>>, <<Asc(1)>>, <<Asc(2)>>, <<Asc(3), Asc(1)>>}

TwoMin   == <<Col(1, "MIN"), Col(2, "MIN")>>
MinMax   == <<Col(1, "MIN"), Col(2, "MAX")>>
ThreeMin == <<Col(1, "MIN"), Col(2, "MIN"), Col(3, "MIN")>>

DefaultQueries ==
    {Query3(t, TwoMin, distinct, <<>>, ef, FALSE, orderBy, indexes, 1) :
        t \in Tables2, distinct \in BOOLEAN, ef \in BOOLEAN,
        orderBy \in {<<>>, <<Asc(2)>>}, indexes \in IndexSets}
    \cup
    {Query3(t, TwoMin, distinct, <<>>, ef, FALSE, orderBy, indexes, 1) :
        t \in TablesOf3, distinct \in BOOLEAN, ef \in BOOLEAN,
        orderBy \in OrderBys, indexes \in IndexSets}
    \cup
    {Query3(t, ThreeMin, distinct, <<>>, ef, noindex, orderBy, indexes, 1) :
        t \in TablesOf3, distinct \in BOOLEAN,
        ef \in BOOLEAN, noindex \in BOOLEAN, orderBy \in OrderBys \ {<<Asc(2)>>},
        indexes \in IndexSets \ {{<<Asc(1), Asc(2)>>}, {<<Asc(1)>>, <<Asc(2), Desc(1)>>}}}

ForcedQueries ==
    {Query3(t, s, FALSE, forced, ef, noindex, orderBy, indexes, 2) :
        t \in TablesOf3, s \in {TwoMin, MinMax, ThreeMin},
        forced \in {Method1("presort"), Method1("sfs"), Method1("mnl"),
                    Method1("sfs") \o Method1("bnl")},
        ef \in BOOLEAN, noindex \in {FALSE}, orderBy \in {<<>>, <<Asc(2)>>},
        indexes \in {{<<Asc(2), Asc(1)>>}, {<<Asc(2), Desc(1)>>}}}

OneDimQueries ==
    {Query3(t, <<Col(1, dir)>>, distinct, forced, ef, FALSE, orderBy, {<<Asc(1)>>}, 1) :
        t \in Tables2 \cup TablesOf3, dir \in {"MIN", "MAX"}, distinct \in BOOLEAN,
        forced \in {<<>>, Method1("presort")}, ef \in BOOLEAN,
        orderBy \in {<<>>, <<Asc(2)>>}}

\* A DIFF column, in front, behind and in between.
DiffQueries ==
    {Query3(t, skyline, FALSE, forced, FALSE, FALSE, <<>>, {}, 2) :
        t \in TablesOf3,
        skyline \in {<<Col(1, "DIFF"), Col(2, "MIN")>>, <<Col(1, "MIN"), Col(2, "DIFF")>>,
                     <<Col(1, "MIN"), Col(2, "DIFF"), Col(3, "MIN")>>},
        forced \in {<<>>, Method1("presort"), Method1("sfs")}}

\* The queries that are what the planner relies on: without the two-column ones
\* with an index on (3, 2, 1), and a DIFF column only for the methods that know it.
AllQueries ==
    {q \in DefaultQueries \cup ForcedQueries \cup OneDimQueries \cup DiffQueries :
        ColumnsInFront(q) /\ DiffRespected(q)}

\* An index with a column that is not a skyline column in front.
GapQueries ==
    {Query3(t, TwoMin, FALSE, forced, FALSE, FALSE, <<>>, {<<Asc(3), Asc(2), Asc(1)>>}, 2) :
        t \in TablesOf3, forced \in {<<>>, Method1("sfs")}}

RowSpace(row) == 1

AnyDatum == {0, 3, NULL}

=============================================================================
