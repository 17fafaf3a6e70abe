---------------------------- MODULE MCTableSync ----------------------------
(* Values for TableSync: two forms of one geometry and a collection,       *)
(* sources with missing keys, missing geometries and duplicate keys.       *)
EXTENDS TableSync, Sequences

\* "p" and "r" are the same line in two directions.
MCShape == [g \in {"p", "r", "c"} |-> IF g = "c" THEN 2 ELSE 1]

MCCollections == {"c"}

F(k, g, x) == [k |-> k, g |-> g, x |-> x]

MCSources ==
    {<<>>, <<F(1, "p", "a")>>, <<F(1, "c", "a")>>, <<F(2, "r", "b")>>,
     <<F(1, "p", "a"), F(2, "r", "b")>>, <<F(1, "p", "a"), F(1, "c", "b")>>,
     <<F(2, "r", "b"), F(Null, "p", "a")>>}

T(n, k, g, x) == [id |-> <<0, n>>, k |-> k, g |-> g, x |-> x]

MCTables ==
    {{}, {T(1, 1, "r", "b")}, {T(1, 1, Null, "a"), T(2, 3, "p", "b")},
     {T(1, 2, "p", "a"), T(2, Null, "p", "a")}}

MCDefaults == {Null, "d"}

L(constraint, deletion, bulk, truncate, provided, default) ==
    [constraint |-> constraint, deletion |-> deletion, bulk |-> bulk,
     truncate |-> truncate, provided |-> provided, default |-> default]

\* Two layers for pulls of whole sources, with and without a primary key; three
\* whose source lacks a column, with a DEFAULT and without; two in bulk mode.
MCLayers ==
    {L(TRUE, TRUE, FALSE, FALSE, TRUE, Null), L(FALSE, TRUE, FALSE, FALSE, TRUE, "d"),
     L(TRUE, FALSE, FALSE, FALSE, FALSE, Null), L(TRUE, TRUE, FALSE, FALSE, FALSE, "d"),
     L(FALSE, TRUE, FALSE, FALSE, FALSE, Null),
     L(TRUE, TRUE, TRUE, TRUE, TRUE, Null), L(FALSE, TRUE, TRUE, FALSE, FALSE, "d")}

\* The attribute sets of a request; the last one has no attributes.
MCAttributeLists ==
    {{[k |-> 1], [x |-> "b"]}, {[k |-> 2, x |-> Null]}, {<<>>}}

=============================================================================
