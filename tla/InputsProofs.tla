---------------------------- MODULE InputsProofs ----------------------------
(***************************************************************************)
(* Proofs about the algorithms of PullPlan, IniParser and Configuration,   *)
(* for every field, geometry and table, and for configuration files of any *)
(* length.                                                                 *)
(***************************************************************************)
EXTENDS TextProofs

-----------------------------------------------------------------------------
(* The conversion of values                                                *)

\* Any field: integers of any size in a field of 64 bits, any real.
AnyField(f) ==
    /\ f.type \in PostgresTypes \cup {"other"}
    /\ f.type = "Integer" => f.value \in - MaxInt - 1 .. MaxInt
    /\ f.type \in {"Integer64", "Real"} => f.value \in Int

\* A number that fits is not cut off.
LEMMA AsIntegerKeeps ==
    ASSUME NEW n \in - MaxInt - 1 .. MaxInt
    PROVE  AsInteger(n) = n
BY DEF AsInteger, MaxInt

\* A real of six digits after the point is written as it is.
LEMMA RealKeepsSixDigits ==
    ASSUME NEW n \in Int, n % 10 = 0
    PROVE  10 * ((n + 5) \div 10) = n
<1>1. n = 10 * (n \div 10)
      OBVIOUS
<1>2. PICK m \in Int : n = 10 * m
      BY <1>1
<1>3. (10 * m + 5) \div 10 = m
      OBVIOUS
<1> QED BY <1>2, <1>3

\* Whatever the value: it arrives as it is, or is one of the known losses.
THEOREM LossesAreKnown == \A f : AnyField(f) => LossIsKnown(f)
<1> SUFFICES ASSUME NEW f, AnyField(f) PROVE LossIsKnown(f)
    OBVIOUS
<1> DEFINE r == convertToString(f, "date")
           L == ListTypes \cup {"Binary", "other"}
<1>1. CASE f.type \in L
  <2>1. r.kind = "throw"
        BY <1>1 DEF convertToString
  <2>2. f.type \notin PostgresTypes \ (ListTypes \cup {"Binary"})
        BY <1>1 DEF PostgresTypes, ListTypes, TimeTypes
  <2> QED BY <2>1, <2>2 DEF LossIsKnown
<1>2. CASE f.type \notin L /\ r.kind = "null"
  <2>1. ~ f.set \/ (f.type = "String" /\ f.value = "")
        BY <1>2 DEF convertToString
  <2> QED BY <1>2, <2>1 DEF LossIsKnown
<1>3. CASE f.type \notin L /\ r.kind # "null"
  <2>1. r = [kind |-> "text", text |-> Converted(f)]
        BY <1>3 DEF convertToString
  <2>2. r.kind = "text" /\ r.text = Converted(f)
        BY <2>1
  <2> SUFFICES \/ Converted(f) = f.value
               \/ f.type = "Integer64" /\ f.value \notin - MaxInt - 1 .. MaxInt
               \/ f.type = "Real" /\ f.value % 10 # 0
               \/ f.type = "DateTime"
                    /\ Converted(f) = [date |-> f.value.date, time |-> f.value.time]
               \/ f.type = "Date" /\ Converted(f) = [date |-> f.value.date]
               \/ f.type = "Time" /\ Converted(f) = [time |-> f.value.time]
      BY <2>2 DEF LossIsKnown
  <2>3. CASE f.type \in {"Integer", "Integer64"}
        BY <2>3, AsIntegerKeeps DEF AnyField, Converted
  <2>4. CASE f.type = "Real"
        BY <2>4, RealKeepsSixDigits DEF AnyField, Converted
  <2>5. CASE f.type \in TimeTypes
        BY <2>5 DEF Converted, TimeTypes, TimeText
  <2>6. CASE f.type = "String"
        BY <2>6 DEF Converted, TimeTypes
  <2> QED BY <1>3, <2>3, <2>4, <2>5, <2>6 DEF AnyField, PostgresTypes
<1> QED BY <1>1, <1>2, <1>3

\* How a geometry is stored.
LEMMA StoredAs ==
    ASSUME NEW g, NEW entries \in Seq(Int), NEW major \in Nat
    PROVE  StoredGeometry(exportToWkb(g, major), getGeometryColumnSRID(entries), major) =
              [srid |-> ColumnSrid(entries, major), system |-> g.system]
<1> DEFINE t == exportToWkb(g, major)
           u == NativeUndefined(major)
           p == getGeometryColumnSRID(entries)
<1>1. t = [srid |-> u, system |-> g.system] /\ getUndefinedSRIDValue(major) = u
      BY DEF exportToWkb, getUndefinedSRIDValue, NativeUndefined
<1>2. p \in Int
      BY DEF getGeometryColumnSRID, NoSrid, Last
<1>3. (entries # <<>> /\ Last(entries) > 0) <=> p > 0
      BY DEF getGeometryColumnSRID, NoSrid
<1>4. p > 0 => p = Last(entries) /\ p # NoSrid
      BY DEF getGeometryColumnSRID, NoSrid
<1> HIDE DEF p, u, t
<1>5. /\ t.srid = u
      /\ [t EXCEPT !.srid = u] = [srid |-> u, system |-> g.system]
      /\ [t EXCEPT !.srid = p] = [srid |-> p, system |-> g.system]
      BY <1>1
<1>6. StoredGeometry(t, p, major) =
        [srid |-> IF p > 0 THEN p ELSE u, system |-> g.system]
      BY <1>1, <1>2, <1>4, <1>5 DEF StoredGeometry
<1> QED BY <1>3, <1>4, <1>6 DEF ColumnSrid, p, u, t

\* Whatever geometry_columns has for the column and whatever the version of
\* PostGIS: a geometry gets the SRID of its column, and its coordinates are kept
\* if they are of the column's system or if the column has none.
THEOREM GeometriesFit ==
    ASSUME NEW g, NEW entries \in Seq(Int), NEW major \in Nat
    PROVE  Fits(StoredGeometry(exportToWkb(g, major), getGeometryColumnSRID(entries), major),
                g, ColumnSrid(entries, major), major)
BY StoredAs DEF Fits

\* A geometry whose coordinates are of another system than its column is stored
\* with the SRID of the column and the coordinates of the source: its text has
\* no SRID, so the insert never gets to st_transform, although the manual says
\* that incoming geometries are reprojected.
THEOREM CoordinatesAreNotReprojected ==
    ASSUME NEW g, NEW entries \in Seq(Int), NEW major \in Nat,
           entries # <<>>, Last(entries) > 0, g.system # Last(entries),
           NEW stored,
           stored = StoredGeometry(exportToWkb(g, major), getGeometryColumnSRID(entries), major)
    PROVE  stored.srid = Last(entries) /\ stored.system = g.system
<1>1. stored = [srid |-> ColumnSrid(entries, major), system |-> g.system]
      BY StoredAs
<1>2. ColumnSrid(entries, major) = Last(entries)
      BY DEF ColumnSrid
<1> QED BY <1>1, <1>2

\* What the fields and geometries of a feature can be.
FeatureInv ==
    /\ kind = "field" => \A n \in DOMAIN input : input[n] \in Fields
    /\ kind = "geometry" => \A n \in DOMAIN input : input[n] \in Geometries

\* Every step keeps the fields and geometries of the runs such.
LEMMA FeatureStep == FeatureInv /\ [Next]_vars => FeatureInv'
<1> SUFFICES ASSUME FeatureInv, [Next]_vars PROVE FeatureInv'
    OBVIOUS
<1>1. ASSUME NEW k, k \notin {"field", "geometry"}, NEW max, NEW e, Grow(k, max, e)
      PROVE  FeatureInv'
      BY <1>1 DEF Grow, FeatureInv
<1>2. CASE ChooseField
      BY <1>2 DEF ChooseField, Grow, FeatureInv
<1>3. CASE ChooseGeometry
      BY <1>3 DEF ChooseGeometry, Grow, FeatureInv
<1>4. CASE UNCHANGED vars
      BY <1>4 DEF vars, FeatureInv
<1> QED BY <1>1, <1>2, <1>3, <1>4 DEF Next, GrowText, GrowUri, AddLine, DropLine,
                                      AddColumn, AddMember

\* Every feature reaches the temporary table with its values, apart from the
\* known losses of convertToString, and with a geometry that fits the column.
THEOREM FeaturesArrive == Spec => []FeaturesAreKept
<1>1. Init => FeatureInv
      BY DEF Init, FeatureInv
<1>2. FeatureInv => FeaturesAreKept
  <2>1. ASSUME NEW f \in Fields PROVE AnyField(f)
    <3>1. ASSUME NEW T, NEW S, NEW V, f \in [type : T, set : S, value : V]
          PROVE  f.type \in T /\ f.value \in V
          BY <3>1
    <3>2. CASE f \in [type : {"Integer"}, set : BOOLEAN, value : - MaxInt - 1 .. MaxInt]
          BY <3>1, <3>2 DEF AnyField, PostgresTypes
    <3>3. CASE f \in [type : {"Integer64"}, set : BOOLEAN, value : - MaxInt - 2 .. MaxInt + 1]
      <4>1. f.type = "Integer64" /\ f.value \in Int
            BY <3>1, <3>3 DEF MaxInt
      <4> QED BY <4>1 DEF AnyField, PostgresTypes
    <3>4. CASE f \in [type : {"Real"}, set : BOOLEAN, value : {0, 10, 25, 70}]
      <4>1. f.type = "Real" /\ f.value \in Int
            BY <3>1, <3>4
      <4> QED BY <4>1 DEF AnyField, PostgresTypes
    <3>5. ASSUME f.type \in (PostgresTypes \cup {"other"}) \ {"Integer", "Integer64", "Real"}
          PROVE  AnyField(f)
          BY <3>5 DEF AnyField
    <3>6. CASE f \in [type : {"String"}, set : BOOLEAN, value : {"", "a"}]
          BY <3>1, <3>5, <3>6 DEF PostgresTypes
    <3>7. CASE f \in [type : TimeTypes, set : BOOLEAN, value : Times]
          BY <3>1, <3>5, <3>7 DEF PostgresTypes, TimeTypes
    <3>8. CASE f \in [type : ListTypes \cup {"Binary", "other"}, set : {TRUE}, value : {"a"}]
          BY <3>1, <3>5, <3>8 DEF PostgresTypes, ListTypes
    <3> QED BY <3>2, <3>3, <3>4, <3>6, <3>7, <3>8 DEF Fields
  <2>2. ASSUME NEW g PROVE FitsTheColumn(g)
    <3> SUFFICES ASSUME NEW es \in {<<>>} \cup {<<s>> : s \in -1 .. 2},
                        NEW major \in 1 .. 3
                 PROVE  Fits(StoredGeometry(exportToWkb(g, major), getGeometryColumnSRID(es), major),
                             g, ColumnSrid(es, major), major)
        BY DEF FitsTheColumn
    <3>1. es \in Seq(Int)
      <4>1. CASE es = <<>>
            BY <4>1
      <4>2. CASE es # <<>>
        <5>1. PICK s \in -1 .. 2 : es = <<s>>
              BY <4>2
        <5>2. s \in Int
              OBVIOUS
        <5>3. <<s>> \in Seq(Int)
              BY <5>2
        <5> QED BY <5>1, <5>3
      <4> QED BY <4>1, <4>2
    <3>2. major \in Nat
          OBVIOUS
    <3> QED BY <3>1, <3>2, GeometriesFit
  <2> QED BY <2>1, <2>2, LossesAreKnown DEF FeatureInv, FeaturesAreKept
<1> QED BY <1>1, <1>2, FeatureStep, PTL DEF Spec

-----------------------------------------------------------------------------
(* The columns of a table                                                  *)

\* insertColumns reads the columns one by one.
LEMMA InsertFold ==
    ASSUME NEW source, NEW E
    PROVE  /\ insertColumns(<<>>, source) = <<>>
           /\ \A s \in Seq(E), x \in E :
                 /\ insertColumns(s, source) \in Seq(NamesOf(E))
                 /\ insertColumns(Append(s, x), source) =
                       (insertColumns(s, source) \o Inserted(x, source))
<1> DEFINE D == Seq(NamesOf(E))
           b == <<>>
           step == [p \in D |-> [l \in E |-> (p \o Inserted(l, source))]]
           Eq(g, s) == g = [t \in SUBSET (DOMAIN s) |->
                              IF t = {} THEN b
                              ELSE (g[t \ {Max(t)}] \o Inserted(s[Max(t)], source))]
           c(s) == CHOOSE g : Eq(g, s)
<1>1. b \in D /\ step \in [D -> [E -> D]]
  <2>1. ASSUME NEW l \in E PROVE Inserted(l, source) \in D
    <3>1. l.name \in NamesOf(E)
          BY DEF NamesOf
    <3> QED BY <3>1 DEF Inserted
  <2> QED BY <2>1
<1>2. ASSUME NEW s PROVE insertColumns(s, source) = c(s)[DOMAIN s]
      BY Zenon DEF insertColumns, FoldLeft, MapThenFoldSet
<1>3. ASSUME NEW s \in Seq(E) PROVE Follows(c(s), D, E, b, step, s, Len(s))
  <2> DEFINE n == Len(s)
  <2>1. n \in Nat /\ s \in [1 .. n -> E] /\ DOMAIN s = 1 .. n
        OBVIOUS
  <2> HIDE DEF b, n, step, D
  <2>2. PICK g : IsFold(g, D, b, step, s, n)
        BY <1>1, <2>1, FoldExists
  <2>3. ASSUME NEW t \in SUBSET (1 .. n), t # {}
        PROVE  s[Max(t)] \in E /\ g[t \ {Max(t)}] \in D
    <3>1. Max(t) \in 1 .. n
          BY <2>1, <2>3, MaxInside
    <3> QED BY <2>1, <2>2, <3>1 DEF IsFold
  <2>4. Eq(g, s)
        BY <2>1, <2>2, <2>3 DEF IsFold, step
  <2>5. Eq(c(s), s)
        BY <2>4
  <2> HIDE DEF c
  <2> QED BY <2>1, <2>5 DEF Follows, step, n
<1> HIDE DEF b, c, step, D
<1>4. insertColumns(<<>>, source) = b
  <2>1. <<>> \in Seq(E) /\ Len(<<>>) = 0 /\ DOMAIN <<>> = 1 .. 0
        OBVIOUS
  <2> QED BY <1>2, <1>3, <2>1, FoldNone
<1>5. ASSUME NEW s \in Seq(E), NEW x \in E
      PROVE  /\ insertColumns(s, source) \in D
             /\ insertColumns(Append(s, x), source) =
                   (insertColumns(s, source) \o Inserted(x, source))
  <2> DEFINE u == Append(s, x)
             n == Len(s)
             m == n + 1
  <2>1. DOMAIN s = 1 .. n /\ DOMAIN u = 1 .. m /\ u \in Seq(E) /\ Len(u) = m
        OBVIOUS
  <2>2. Longer(u, m, s, n, x) /\ u = Append(s, x)
        BY DEF Longer
  <2> HIDE DEF u, n, m
  <2> DEFINE f == c(s)
             h == c(u)
  <2>3. Follows(f, D, E, b, step, s, n) /\ Follows(h, D, E, b, step, u, m)
        BY <1>3, <2>1, <2>2 DEF Longer
  <2> HIDE DEF f, h
  <2>4. f[1 .. n] \in D /\ h[1 .. m] = step[f[1 .. n]][x]
        BY <1>1, <2>2, <2>3, FoldStep
  <2>5. /\ insertColumns(s, source) \in D
        /\ insertColumns(u, source) = step[insertColumns(s, source)][x]
        BY <1>2, <2>1, <2>4 DEF f, h
  <2> QED BY <2>2, <2>5 DEF step
<1> QED BY <1>4, <1>5 DEF b, D

\* So does primaryKeyColumns without an override.
LEMMA KeyFold ==
    ASSUME NEW E
    PROVE  /\ primaryKeyColumns(<<>>, <<>>) = <<>>
           /\ \A s \in Seq(E), x \in E :
                 /\ primaryKeyColumns(s, <<>>) \in Seq(NamesOf(E))
                 /\ primaryKeyColumns(Append(s, x), <<>>) =
                       (IF x.pk THEN Append(primaryKeyColumns(s, <<>>), x.name)
                        ELSE primaryKeyColumns(s, <<>>))
<1> DEFINE D == Seq(NamesOf(E))
           b == <<>>
           step == [p \in D |-> [l \in E |-> (IF l.pk THEN Append(p, l.name) ELSE p)]]
           Eq(g, s) == g = [t \in SUBSET (DOMAIN s) |->
                              IF t = {} THEN b
                              ELSE (IF s[Max(t)].pk THEN Append(g[t \ {Max(t)}], s[Max(t)].name)
                                    ELSE g[t \ {Max(t)}])]
           c(s) == CHOOSE g : Eq(g, s)
<1>1. b \in D /\ step \in [D -> [E -> D]]
      BY DEF NamesOf
<1>2. ASSUME NEW s PROVE primaryKeyColumns(s, <<>>) = c(s)[DOMAIN s]
      BY Zenon DEF primaryKeyColumns, FoldLeft, MapThenFoldSet
<1>3. ASSUME NEW s \in Seq(E) PROVE Follows(c(s), D, E, b, step, s, Len(s))
  <2> DEFINE n == Len(s)
  <2>1. n \in Nat /\ s \in [1 .. n -> E] /\ DOMAIN s = 1 .. n
        OBVIOUS
  <2> HIDE DEF b, n, step, D
  <2>2. PICK g : IsFold(g, D, b, step, s, n)
        BY <1>1, <2>1, FoldExists
  <2>3. ASSUME NEW t \in SUBSET (1 .. n), t # {}
        PROVE  s[Max(t)] \in E /\ g[t \ {Max(t)}] \in D
    <3>1. Max(t) \in 1 .. n
          BY <2>1, <2>3, MaxInside
    <3> QED BY <2>1, <2>2, <3>1 DEF IsFold
  <2>4. Eq(g, s)
        BY <2>1, <2>2, <2>3 DEF IsFold, step
  <2>5. Eq(c(s), s)
        BY <2>4
  <2> HIDE DEF c
  <2> QED BY <2>1, <2>5 DEF Follows, step, n
<1> HIDE DEF b, c, step, D
<1>4. primaryKeyColumns(<<>>, <<>>) = b
  <2>1. <<>> \in Seq(E) /\ Len(<<>>) = 0 /\ DOMAIN <<>> = 1 .. 0
        OBVIOUS
  <2> QED BY <1>2, <1>3, <2>1, FoldNone
<1>5. ASSUME NEW s \in Seq(E), NEW x \in E
      PROVE  /\ primaryKeyColumns(s, <<>>) \in D
             /\ primaryKeyColumns(Append(s, x), <<>>) =
                   (IF x.pk THEN Append(primaryKeyColumns(s, <<>>), x.name)
                    ELSE primaryKeyColumns(s, <<>>))
  <2> DEFINE u == Append(s, x)
             n == Len(s)
             m == n + 1
  <2>1. DOMAIN s = 1 .. n /\ DOMAIN u = 1 .. m /\ u \in Seq(E) /\ Len(u) = m
        OBVIOUS
  <2>2. Longer(u, m, s, n, x) /\ u = Append(s, x)
        BY DEF Longer
  <2> HIDE DEF u, n, m
  <2> DEFINE f == c(s)
             h == c(u)
  <2>3. Follows(f, D, E, b, step, s, n) /\ Follows(h, D, E, b, step, u, m)
        BY <1>3, <2>1, <2>2 DEF Longer
  <2> HIDE DEF f, h
  <2>4. f[1 .. n] \in D /\ h[1 .. m] = step[f[1 .. n]][x]
        BY <1>1, <2>2, <2>3, FoldStep
  <2>5. /\ primaryKeyColumns(s, <<>>) \in D
        /\ primaryKeyColumns(u, <<>>) = step[primaryKeyColumns(s, <<>>)][x]
        BY <1>2, <2>1, <2>4 DEF f, h
  <2> QED BY <2>2, <2>5 DEF step
<1> QED BY <1>4, <1>5 DEF b, D

\* And updateColumns.
LEMMA UpdateFold ==
    ASSUME NEW E
    PROVE  /\ updateColumns(<<>>) = <<>>
           /\ \A s \in Seq(E), x \in E :
                 /\ updateColumns(s) \in Seq(NamesOf(E))
                 /\ updateColumns(Append(s, x)) =
                       (IF x.pk THEN updateColumns(s) ELSE Append(updateColumns(s), x.name))
<1> DEFINE D == Seq(NamesOf(E))
           b == <<>>
           step == [p \in D |-> [l \in E |-> (IF l.pk THEN p ELSE Append(p, l.name))]]
           Eq(g, s) == g = [t \in SUBSET (DOMAIN s) |->
                              IF t = {} THEN b
                              ELSE (IF s[Max(t)].pk THEN g[t \ {Max(t)}]
                                    ELSE Append(g[t \ {Max(t)}], s[Max(t)].name))]
           c(s) == CHOOSE g : Eq(g, s)
<1>1. b \in D /\ step \in [D -> [E -> D]]
      BY DEF NamesOf
<1>2. ASSUME NEW s PROVE updateColumns(s) = c(s)[DOMAIN s]
      BY Zenon DEF updateColumns, FoldLeft, MapThenFoldSet
<1>3. ASSUME NEW s \in Seq(E) PROVE Follows(c(s), D, E, b, step, s, Len(s))
  <2> DEFINE n == Len(s)
  <2>1. n \in Nat /\ s \in [1 .. n -> E] /\ DOMAIN s = 1 .. n
        OBVIOUS
  <2> HIDE DEF b, n, step, D
  <2>2. PICK g : IsFold(g, D, b, step, s, n)
        BY <1>1, <2>1, FoldExists
  <2>3. ASSUME NEW t \in SUBSET (1 .. n), t # {}
        PROVE  s[Max(t)] \in E /\ g[t \ {Max(t)}] \in D
    <3>1. Max(t) \in 1 .. n
          BY <2>1, <2>3, MaxInside
    <3> QED BY <2>1, <2>2, <3>1 DEF IsFold
  <2>4. Eq(g, s)
        BY <2>1, <2>2, <2>3 DEF IsFold, step
  <2>5. Eq(c(s), s)
        BY <2>4
  <2> HIDE DEF c
  <2> QED BY <2>1, <2>5 DEF Follows, step, n
<1> HIDE DEF b, c, step, D
<1>4. updateColumns(<<>>) = b
  <2>1. <<>> \in Seq(E) /\ Len(<<>>) = 0 /\ DOMAIN <<>> = 1 .. 0
        OBVIOUS
  <2> QED BY <1>2, <1>3, <2>1, FoldNone
<1>5. ASSUME NEW s \in Seq(E), NEW x \in E
      PROVE  /\ updateColumns(s) \in D
             /\ updateColumns(Append(s, x)) =
                   (IF x.pk THEN updateColumns(s) ELSE Append(updateColumns(s), x.name))
  <2> DEFINE u == Append(s, x)
             n == Len(s)
             m == n + 1
  <2>1. DOMAIN s = 1 .. n /\ DOMAIN u = 1 .. m /\ u \in Seq(E) /\ Len(u) = m
        OBVIOUS
  <2>2. Longer(u, m, s, n, x) /\ u = Append(s, x)
        BY DEF Longer
  <2> HIDE DEF u, n, m
  <2> DEFINE f == c(s)
             h == c(u)
  <2>3. Follows(f, D, E, b, step, s, n) /\ Follows(h, D, E, b, step, u, m)
        BY <1>3, <2>1, <2>2 DEF Longer
  <2> HIDE DEF f, h
  <2>4. f[1 .. n] \in D /\ h[1 .. m] = step[f[1 .. n]][x]
        BY <1>1, <2>2, <2>3, FoldStep
  <2>5. updateColumns(s) \in D /\ updateColumns(u) = step[updateColumns(s)][x]
        BY <1>2, <2>1, <2>4 DEF f, h
  <2> QED BY <2>2, <2>5 DEF step
<1> QED BY <1>4, <1>5 DEF b, D

\* The names that a column contributes to the insert.
LEMMA InsertedNames ==
    ASSUME NEW c, NEW source, NEW N, c.name \in N, NEW s \in Seq(N)
    PROVE  ToSet(s \o Inserted(c, source)) =
             ToSet(s) \cup (IF c.geometry \/ Provided(c.name, source) THEN {c.name} ELSE {})
<1> DEFINE k == c.name
           P == Provided(k, source)
<1>1. Inserted(c, source) = (IF c.geometry THEN <<k>> ELSE <<>>) \o (IF P THEN <<k>> ELSE <<>>)
      BY DEF Inserted
<1> HIDE DEF P, k
<1>2. k \in N
      BY DEF k
<1>3. s \o <<k>> = Append(s, k) /\ s \o (<<k>> \o <<k>>) = Append(Append(s, k), k)
      BY <1>2
<1>4. /\ <<k>> \o <<>> = <<k>> /\ <<>> \o <<k>> = <<k>> /\ <<>> \o <<>> = <<>>
      /\ s \o <<>> = s /\ Append(s, k) \in Seq(N)
      BY <1>2
<1>5. ToSet(Append(s, k)) = ToSet(s) \cup {k}
      BY ToSetAppend
<1>6. ToSet(Append(Append(s, k), k)) = ToSet(s) \cup {k}
      BY <1>4, <1>5, ToSetAppend
<1> DEFINE A == c.geometry
<1> HIDE DEF A
<1>7. CASE A /\ P
      BY <1>1, <1>3, <1>6, <1>7 DEF A, P, k
<1>8. CASE A /\ ~ P
      BY <1>1, <1>3, <1>4, <1>5, <1>8 DEF A, P, k
<1>9. CASE ~ A /\ P
      BY <1>1, <1>3, <1>4, <1>5, <1>9 DEF A, P, k
<1>10. CASE ~ A /\ ~ P
      BY <1>1, <1>4, <1>10 DEF A, P, k
<1> QED BY <1>7, <1>8, <1>9, <1>10

\* insertColumns has exactly the columns with a geometry or a source.
LEMMA InsertHas ==
    ASSUME NEW source, NEW E
    PROVE  \A t \in Seq(E) :
              ToSet(insertColumns(t, source)) =
                 {c.name : c \in {d \in ToSet(t) : d.geometry \/ Provided(d.name, source)}}
<1> DEFINE N == NamesOf(E)
           Ins(t) == insertColumns(t, source)
           Has(t) == {c.name : c \in {d \in ToSet(t) : d.geometry \/ Provided(d.name, source)}}
           T == {t \in Seq(E) : ToSet(Ins(t)) = Has(t)}
<1>1. /\ Ins(<<>>) = <<>>
      /\ \A t \in Seq(E), x \in E :
            Ins(t) \in Seq(N) /\ Ins(Append(t, x)) = Ins(t) \o Inserted(x, source)
      BY InsertFold
<1>2. <<>> \in T
      BY <1>1, ToSetEmpty
<1>3. ASSUME NEW t \in Seq(E), NEW x \in E, t \in T PROVE Append(t, x) \in T
  <2>1. ToSet(Append(t, x)) = ToSet(t) \cup {x} /\ Append(t, x) \in Seq(E)
        BY ToSetAppend
  <2>2. Has(Append(t, x)) =
           Has(t) \cup (IF x.geometry \/ Provided(x.name, source) THEN {x.name} ELSE {})
        BY <2>1
  <2> HIDE DEF Has, Ins
  <2>3. x.name \in N
        BY DEF NamesOf
  <2> HIDE DEF N
  <2>4. Ins(t) \in Seq(N) /\ Ins(Append(t, x)) = Ins(t) \o Inserted(x, source)
        BY <1>1
  <2>5. ToSet(Ins(t) \o Inserted(x, source)) =
           ToSet(Ins(t)) \cup (IF x.geometry \/ Provided(x.name, source) THEN {x.name} ELSE {})
        BY <2>3, <2>4, InsertedNames
  <2> QED BY <1>3, <2>1, <2>2, <2>4, <2>5
<1> HIDE DEF T
<1>4. \A t \in Seq(E) : t \in T
      BY <1>2, <1>3, SeqInduction
<1> QED BY <1>4 DEF T

\* The key of the table consists of columns of the table.
LEMMA KeyHas ==
    ASSUME NEW E
    PROVE  \A t \in Seq(E) : ToSet(primaryKeyColumns(t, <<>>)) \subseteq {c.name : c \in ToSet(t)}
<1> DEFINE N == NamesOf(E)
           Key(t) == primaryKeyColumns(t, <<>>)
           T == {t \in Seq(E) : ToSet(Key(t)) \subseteq {c.name : c \in ToSet(t)}}
<1>1. /\ Key(<<>>) = <<>>
      /\ \A t \in Seq(E), x \in E :
            Key(t) \in Seq(N) /\ Key(Append(t, x)) = IF x.pk THEN Append(Key(t), x.name) ELSE Key(t)
      BY KeyFold
<1>2. <<>> \in T
      BY <1>1, ToSetEmpty
<1> HIDE DEF Key
<1>3. ASSUME NEW t \in Seq(E), NEW x \in E, t \in T PROVE Append(t, x) \in T
  <2>1. ToSet(Append(t, x)) = ToSet(t) \cup {x} /\ Append(t, x) \in Seq(E)
        BY ToSetAppend
  <2> HIDE DEF N
  <2>2. ToSet(Append(Key(t), x.name)) = ToSet(Key(t)) \cup {x.name}
        BY <1>1, ToSetAppend
  <2>3. Append(t, x) \in Seq(E) /\ Key(Append(t, x)) = IF x.pk THEN Append(Key(t), x.name)
                                                       ELSE Key(t)
        BY <1>1, <2>1
  <2>4. ToSet(Key(Append(t, x))) \subseteq ToSet(Key(t)) \cup {x.name}
        BY <2>2, <2>3
  <2> QED BY <1>3, <2>1, <2>3, <2>4
<1> HIDE DEF T
<1>4. \A t \in Seq(E) : t \in T
      BY <1>2, <1>3, SeqInduction
<1> QED BY <1>4 DEF T, Key

\* Nothing is updated only if the table consists of its key.
LEMMA UpdateHas ==
    ASSUME NEW E
    PROVE  \A t \in Seq(E) : updateColumns(t) = <<>> => \A c \in ToSet(t) : c.pk
<1> DEFINE N == NamesOf(E)
           Upd(t) == updateColumns(t)
           T == {t \in Seq(E) : Upd(t) = <<>> => \A c \in ToSet(t) : c.pk}
<1>1. /\ Upd(<<>>) = <<>>
      /\ \A t \in Seq(E), x \in E :
            Upd(t) \in Seq(N) /\ Upd(Append(t, x)) = IF x.pk THEN Upd(t) ELSE Append(Upd(t), x.name)
      BY UpdateFold
<1>2. <<>> \in T
      BY <1>1, ToSetEmpty
<1> HIDE DEF Upd
<1>3. ASSUME NEW t \in Seq(E), NEW x \in E, t \in T PROVE Append(t, x) \in T
  <2>1. ToSet(Append(t, x)) = ToSet(t) \cup {x} /\ Append(t, x) \in Seq(E)
        BY ToSetAppend
  <2> HIDE DEF N
  <2>2. Append(Upd(t), x.name) # <<>>
        BY <1>1
  <2> QED BY <1>1, <1>3, <2>1, <2>2
<1> HIDE DEF T
<1>4. \A t \in Seq(E) : t \in T
      BY <1>2, <1>3, SeqInduction
<1> QED BY <1>4 DEF T, Upd

\* One more element, different from the others.
LEMMA InjectiveAppend ==
    ASSUME NEW S, NEW s \in Seq(S), IsInjective(s), NEW x, x \notin ToSet(s)
    PROVE  IsInjective(Append(s, x))
<1> DEFINE u == Append(s, x)
           n == Len(s)
<1>1. /\ DOMAIN u = 1 .. n + 1 /\ DOMAIN s = 1 .. n /\ n \in Nat
      /\ \A i \in 1 .. n : u[i] = s[i]
      /\ u[n + 1] = x
      OBVIOUS
<1>2. \A i \in 1 .. n : s[i] # x
      BY <1>1 DEF ToSet
<1>3. \A i, j \in 1 .. n : s[i] = s[j] => i = j
      BY <1>1 DEF IsInjective
<1> HIDE DEF u, n
<1>4. ASSUME NEW i \in 1 .. n + 1, NEW j \in 1 .. n + 1, u[i] = u[j] PROVE i = j
  <2>1. i \in 1 .. n \/ i = n + 1
        BY <1>1
  <2>2. j \in 1 .. n \/ j = n + 1
        BY <1>1
  <2> QED BY <1>1, <1>2, <1>3, <1>4, <2>1, <2>2
<1>5. IsInjective(u)
      BY <1>1, <1>4 DEF IsInjective
<1> QED BY <1>5 DEF u

\* The columns of a table have different names.
IsTable(t) == IsInjective(Names(t))

\* A table without its last column is a table that lacks the name of it.
LEMMA TableAppend ==
    ASSUME NEW E, NEW t \in Seq(E), NEW x \in E, IsTable(Append(t, x))
    PROVE  IsTable(t) /\ \A c \in ToSet(t) : c.name # x.name
<1> DEFINE u == Append(t, x)
           n == Len(t)
<1>1. /\ DOMAIN u = 1 .. n + 1 /\ DOMAIN t = 1 .. n /\ n \in Nat
      /\ \A i \in 1 .. n : u[i] = t[i]
      /\ u[n + 1] = x
      OBVIOUS
<1> HIDE DEF n
<1>2. \A i, j \in 1 .. n + 1 : u[i].name = u[j].name => i = j
      BY <1>1 DEF IsTable, IsInjective, Names
<1> HIDE DEF u
<1>3. \A i \in 1 .. n : i \in 1 .. n + 1 /\ i # n + 1
      BY <1>1
<1>4. \A i, j \in 1 .. n : t[i].name = t[j].name => i = j
      BY <1>1, <1>2, <1>3
<1>5. \A i \in 1 .. n : t[i].name # x.name
  <2>1. n + 1 \in 1 .. n + 1
        BY <1>1
  <2> QED BY <1>1, <1>2, <1>3, <2>1
<1>6. IsTable(t)
      BY <1>1, <1>4 DEF IsTable, IsInjective, Names
<1>7. \A c \in ToSet(t) : c.name # x.name
      BY <1>1, <1>5 DEF ToSet
<1> QED BY <1>6, <1>7

\* No column is inserted twice, unless a field has the name of the geometry
\* column.
LEMMA InsertInjective ==
    ASSUME NEW source, NEW E
    PROVE  \A t \in Seq(E) :
              /\ IsTable(t)
              /\ \A c \in ToSet(t) : ~ (c.geometry /\ Provided(c.name, source))
              => IsInjective(insertColumns(t, source))
<1> DEFINE N == NamesOf(E)
           Ins(t) == insertColumns(t, source)
           Once(t) == \A c \in ToSet(t) : ~ (c.geometry /\ Provided(c.name, source))
           T == {t \in Seq(E) : IsTable(t) /\ Once(t) => IsInjective(Ins(t))}
<1>1. /\ Ins(<<>>) = <<>>
      /\ \A t \in Seq(E), x \in E :
            Ins(t) \in Seq(N) /\ Ins(Append(t, x)) = Ins(t) \o Inserted(x, source)
      BY InsertFold
<1>2. <<>> \in T
      BY <1>1 DEF IsInjective
<1>3. ASSUME NEW t \in Seq(E), NEW x \in E, t \in T PROVE Append(t, x) \in T
  <2>1. ToSet(Append(t, x)) = ToSet(t) \cup {x} /\ Append(t, x) \in Seq(E)
        BY ToSetAppend
  <2> SUFFICES ASSUME IsTable(Append(t, x)), Once(Append(t, x))
               PROVE  IsInjective(Ins(Append(t, x)))
      BY <2>1
  <2>2. IsTable(t) /\ \A c \in ToSet(t) : c.name # x.name
        BY TableAppend
  <2>3. Once(t) /\ ~ (x.geometry /\ Provided(x.name, source))
        BY <2>1
  <2>4. IsInjective(Ins(t))
        BY <1>3, <2>2, <2>3
  <2>5. x.name \notin ToSet(Ins(t))
        BY <2>2, InsertHas
  <2>6. Ins(t) \in Seq(N) /\ Ins(Append(t, x)) = Ins(t) \o Inserted(x, source)
        BY <1>1
  <2>7. x.name \in N
        BY DEF NamesOf
  <2> HIDE DEF Ins, N, Once
  <2> DEFINE k == x.name
             u == Ins(t)
  <2>8. Inserted(x, source) \in {<<k>>, <<>>}
    <3>1. <<k>> \o <<>> = <<k>> /\ <<>> \o <<k>> = <<k>> /\ <<>> \o <<>> = <<>>
          BY <2>7
    <3> QED BY <2>3, <3>1 DEF Inserted
  <2> HIDE DEF k, u
  <2>9. u \o <<k>> = Append(u, k) /\ u \o <<>> = u
        BY <2>6, <2>7 DEF u, k
  <2>10. IsInjective(Append(u, k)) /\ IsInjective(u)
        BY <2>4, <2>5, <2>6, InjectiveAppend DEF u, k
  <2> QED BY <2>6, <2>8, <2>9, <2>10 DEF u
<1> HIDE DEF T
<1>4. \A t \in Seq(E) : t \in T
      BY <1>2, <1>3, SeqInduction
<1> QED BY <1>4 DEF T

\* Whatever the table, the source and the overriding key: a pull that is not
\* refused transfers the key of every feature.
THEOREM PullsTransferKeys ==
    ASSUME NEW E, NEW table \in Seq(E), IsTable(table), NEW source, NEW override,
           ~ Refused(table, source, override)
    PROVE  TransfersKeys(table, source, override)
<1> DEFINE columns == ToSet(insertColumns(table, source))
           key == primaryKeyColumns(table, override)
           names == {c.name : c \in ToSet(table)}
<1>1. columns = {c.name : c \in {d \in ToSet(table) : d.geometry \/ Provided(d.name, source)}}
      BY InsertHas
<1>2. /\ key # <<>>
      /\ ToSet(override) \subseteq ToSet(Names(table))
      /\ \A k \in ToSet(key) : Provided(k, source)
      BY DEF Refused
<1>3. ToSet(Names(table)) = names
      BY DEF Names, ToSet
<1>4. ToSet(key) \subseteq names
  <2>1. CASE override # <<>>
        BY <1>2, <1>3, <2>1 DEF primaryKeyColumns
  <2>2. CASE override = <<>>
        BY <2>2, KeyHas
  <2> QED BY <2>1, <2>2
<1>5. ToSet(key) \subseteq columns
      BY <1>1, <1>2, <1>4
<1>6. ASSUME NEW c \in ToSet(table), c.name \in columns
      PROVE  c.geometry \/ c.name \in source.fields \cup {source.fid}
  <2>1. PICK d \in ToSet(table) : d.name = c.name /\ (d.geometry \/ Provided(d.name, source))
        BY <1>1, <1>6
  <2>2. d = c
    <3>1. PICK i \in DOMAIN table : c = table[i]
          BY DEF ToSet
    <3>2. PICK j \in DOMAIN table : d = table[j]
          BY DEF ToSet
    <3>3. i = j
          BY <2>1, <3>1, <3>2 DEF IsTable, IsInjective, Names
    <3> QED BY <3>1, <3>2, <3>3
  <2> QED BY <2>1, <2>2 DEF Provided
<1>7. \/ Executable(table, source)
      \/ \E c \in ToSet(table) : c.geometry /\ Provided(c.name, source)
      \/ \A c \in ToSet(table) : c.pk
      BY InsertInjective, UpdateHas DEF Executable
<1> QED BY <1>2, <1>5, <1>6, <1>7 DEF TransfersKeys

\* A table of the runs: columns of different names.
TableInv == kind = "table" => input \in Seq(Columns) /\ IsTable(input)

\* A table with a column of another name is a table.
LEMMA NamesAppend ==
    ASSUME NEW E, NEW t \in Seq(E), NEW c \in E, IsTable(t), c.name \notin ToSet(Names(t))
    PROVE  IsTable(Append(t, c))
<1> DEFINE N == NamesOf(E)
           k == c.name
<1>1. Names(t) \in Seq(N) /\ k \in N
      BY DEF Names, NamesOf
<1>2. Names(Append(t, c)) = Append(Names(t), k)
  <2>1. Append(t, c) \in Seq(E)
        OBVIOUS
  <2> QED BY <1>1, <2>1 DEF Names
<1> HIDE DEF N, k
<1>3. IsInjective(Append(Names(t), k))
      BY <1>1, InjectiveAppend DEF IsTable, k
<1> QED BY <1>2, <1>3 DEF IsTable

\* AddColumn adds no column twice, so every step keeps tables tables.
LEMMA TableStep == TableInv /\ [Next]_vars => TableInv'
<1> SUFFICES ASSUME TableInv, [Next]_vars, kind' = "table"
             PROVE  input' \in Seq(Columns) /\ IsTable(input')
    BY DEF TableInv
<1>1. CASE AddColumn
  <2>1. PICK c \in Columns : /\ kind = "table" /\ c.name \notin ToSet(Names(input))
                             /\ input' = Append(input, c)
        BY <1>1 DEF AddColumn, Grow
  <2>2. input \in Seq(Columns) /\ IsTable(input)
        BY <2>1 DEF TableInv
  <2>3. IsTable(Append(input, c))
        BY <2>1, <2>2, NamesAppend
  <2> QED BY <2>1, <2>2, <2>3
<1>2. CASE UNCHANGED vars
      BY <1>2 DEF TableInv, vars
<1>3. ~ (GrowText \/ GrowUri \/ AddLine \/ DropLine \/ ChooseField \/ ChooseGeometry \/ AddMember)
      BY DEF GrowText, GrowUri, AddLine, DropLine, ChooseField, ChooseGeometry, AddMember, Grow
<1> QED BY <1>1, <1>2, <1>3 DEF Next

\* A pull that Worker::pull does not refuse transfers the key of every
\* feature, for all the tables that the runs build, of any size.
THEOREM AcceptedPullsTransfer == Spec => []AcceptedPullTransfersKeys
<1>1. Init => TableInv
      BY DEF Init, TableInv, IsTable, Names, IsInjective
<1>2. TableInv => AcceptedPullTransfersKeys
      BY PullsTransferKeys DEF TableInv, AcceptedPullTransfersKeys
<1> QED BY <1>1, <1>2, TableStep, PTL DEF Spec

-----------------------------------------------------------------------------
(* Configuration files: the states of the parser                           *)

\* The lines of a file: a section has one bracket at least.
LineKinds == {"blank", "comment", "white", "word", "+", "section", "pair"}
IsLines(E) == \A l \in E : /\ l.kind \in LineKinds
                           /\ l.kind = "section" => l.depth \in Nat \ {0}
                           /\ l.kind = "white" => l = White

\* What the parser can be in the middle of.
Paths(E) == Seq(NamesOf(E))
Keys(E) == {""} \cup {l.key : l \in E}
Texts(E) == Seq({l.text : l \in E})
ValueMaps(E) == UNION {[A -> Texts(E)] : A \in SUBSET (Paths(E) \X Keys(E))}
Errors == {"", "no key to append to", "section with wrong depth",
           "duplicate section name on the same level", "duplicated key found", "no '=' found"}
ParserStates(E) ==
    [level : Paths(E), lastKey : Keys(E), sections : SUBSET Paths(E), values : ValueMaps(E),
     error : Errors]

\* The parser begins in such a state, and every function of it leads to one.
LEMMA TopIsState == ASSUME NEW E PROVE Top \in ParserStates(E)
<1>1. <<>> \in Paths(E) /\ "" \in Keys(E) /\ "" \in Errors
      BY DEF Paths, Keys, Errors
<1>2. <<>> \in ValueMaps(E)
  <2>1. {} \in SUBSET (Paths(E) \X Keys(E)) /\ <<>> \in [{} -> Texts(E)]
        BY NoAttributes
  <2> QED BY <2>1, Zenon DEF ValueMaps
<1> QED BY <1>1, <1>2 DEF Top, ParserStates

\* err.
LEMMA ErrIsState ==
    ASSUME NEW E, NEW p \in ParserStates(E), NEW m \in Errors
    PROVE  err(p, m) \in ParserStates(E)
BY DEF err, ParserStates

\* A continuation.
LEMMA ContinueIsState ==
    ASSUME NEW E, NEW p \in ParserStates(E), NEW l \in E
    PROVE  Continue(p, l) \in ParserStates(E)
<1>1. CASE p.lastKey = ""
  <2>1. "no key to append to" \in Errors
        BY DEF Errors
  <2> QED BY <1>1, <2>1, ErrIsState DEF Continue
<1>2. CASE p.lastKey # ""
  <2> DEFINE q == <<p.level, p.lastKey>>
             v == [p.values EXCEPT ![q] = Append(@, l.text)]
  <2>1. PICK A \in SUBSET (Paths(E) \X Keys(E)) : p.values \in [A -> Texts(E)]
        BY DEF ParserStates, ValueMaps
  <2>2. ASSUME NEW t \in Texts(E) PROVE Append(t, l.text) \in Texts(E)
        BY DEF Texts
  <2>3. v \in [A -> Texts(E)]
    <3> HIDE DEF q
    <3>1. DOMAIN v = A /\ \A a \in A : v[a] = IF a = q THEN Append(p.values[a], l.text)
                                              ELSE p.values[a]
          BY <2>1
    <3>2. \A a \in A : v[a] \in Texts(E)
          BY <2>1, <2>2, <3>1
    <3> QED BY <2>1, <3>1, <3>2
  <2>4. v \in ValueMaps(E)
        BY <2>3 DEF ValueMaps
  <2>5. Continue(p, l) = [p EXCEPT !.values = v]
        BY <1>2 DEF Continue, ParserStates
  <2> HIDE DEF v
  <2> QED BY <2>4, <2>5 DEF ParserStates
<1> QED BY <1>1, <1>2

\* A section.
LEMMA SectionIsState ==
    ASSUME NEW E, NEW p \in ParserStates(E), NEW l \in E, l.depth \in Nat \ {0}
    PROVE  Section(p, l) \in ParserStates(E)
<1> DEFINE path == Append(Enclosing(p, l.depth), l.name)
<1>1. CASE l.depth > Len(p.level) + 1
  <2>1. "section with wrong depth" \in Errors
        BY DEF Errors
  <2> QED BY <1>1, <2>1, ErrIsState DEF Section
<1>2. CASE ~ (l.depth > Len(p.level) + 1) /\ path \in p.sections
  <2>1. "duplicate section name on the same level" \in Errors
        BY DEF Errors
  <2> QED BY <1>2, <2>1, ErrIsState DEF Section
<1>3. CASE ~ (l.depth > Len(p.level) + 1) /\ path \notin p.sections
  <2> DEFINE N == NamesOf(E)
  <2>1. p.level \in Seq(N) /\ l.name \in N
        BY DEF ParserStates, Paths, NamesOf
  <2>2. Enclosing(p, l.depth) \in Seq(N)
    <3> HIDE DEF N
    <3>1. l.depth - 1 \in 0 .. Len(p.level)
          BY <1>3, <2>1
    <3>2. SubSeq(p.level, 1, l.depth - 1) \in Seq(N)
          BY <2>1, <3>1
    <3> QED BY <2>1, <3>2 DEF Enclosing
  <2>3. path \in Paths(E)
        BY <2>1, <2>2 DEF Paths
  <2>4. Section(p, l) = [p EXCEPT !.level = path, !.lastKey = "", !.sections = @ \cup {path}]
        BY <1>3 DEF Section
  <2>5. "" \in Keys(E)
        BY DEF Keys
  <2> HIDE DEF path
  <2>6. p.sections \cup {path} \in SUBSET Paths(E)
        BY <2>3 DEF ParserStates
  <2>7. Section(p, l) = [level |-> path, lastKey |-> "", sections |-> p.sections \cup {path},
                         values |-> p.values, error |-> p.error]
        BY <2>4 DEF ParserStates
  <2>8. p.values \in ValueMaps(E) /\ p.error \in Errors
        BY DEF ParserStates
  <2> DEFINE s == p.sections \cup {path}
             v == p.values
             e == p.error
             S == SUBSET Paths(E)
             k == ""
  <2>9. Section(p, l) = [level |-> path, lastKey |-> k, sections |-> s, values |-> v, error |-> e]
        BY <2>7
  <2>10. k \in Keys(E) /\ s \in S /\ v \in ValueMaps(E) /\ e \in Errors
        BY <2>5, <2>6, <2>8
  <2> HIDE DEF s, v, e, S, k
  <2>11. Section(p, l) \in [level : Paths(E), lastKey : Keys(E), sections : S,
                            values : ValueMaps(E), error : Errors]
        BY <2>3, <2>9, <2>10
  <2> QED BY <2>11 DEF ParserStates, S
<1> QED BY <1>1, <1>2, <1>3

\* A key and its value.
LEMMA PairIsState ==
    ASSUME NEW E, NEW p \in ParserStates(E), NEW l \in E
    PROVE  KeyValue(p, l) \in ParserStates(E)
<1> DEFINE place == <<p.level, l.key>>
           v == [q \in DOMAIN p.values \cup {place} |->
                   IF q = place THEN <<l.text>> ELSE p.values[q]]
<1>1. CASE place \in DOMAIN p.values
  <2>1. "duplicated key found" \in Errors
        BY DEF Errors
  <2> QED BY <1>1, <2>1, ErrIsState DEF KeyValue
<1>2. CASE place \notin DOMAIN p.values
  <2>1. PICK A \in SUBSET (Paths(E) \X Keys(E)) : p.values \in [A -> Texts(E)]
        BY DEF ParserStates, ValueMaps
  <2>2. place \in Paths(E) \X Keys(E) /\ l.key \in Keys(E)
        BY DEF ParserStates, Keys
  <2>3. <<l.text>> \in Texts(E)
        BY DEF Texts
  <2> HIDE DEF place
  <2>4. v \in [A \cup {place} -> Texts(E)]
        BY <2>1, <2>3
  <2>5. v \in ValueMaps(E)
        BY <2>2, <2>4 DEF ValueMaps
  <2>6. KeyValue(p, l) = [p EXCEPT !.lastKey = l.key, !.values = v]
        BY <1>2 DEF KeyValue, place, ParserStates
  <2> HIDE DEF v
  <2> QED BY <2>2, <2>5, <2>6 DEF ParserStates
<1> QED BY <1>1, <1>2

\* parseLine.
LEMMA LineIsState ==
    ASSUME NEW E, IsLines(E), NEW p \in ParserStates(E), NEW l \in E
    PROVE  parseLine(p, l) \in ParserStates(E)
<1>1. Skipped(p) \in ParserStates(E)
      BY DEF Skipped, ParserStates, Keys
<1>2. "no '=' found" \in Errors
      BY DEF Errors
<1>3. err(p, "no '=' found") \in ParserStates(E)
      BY <1>2, ErrIsState
<1>4. l.kind = "section" => l.depth \in Nat \ {0}
      BY DEF IsLines
<1> QED BY <1>1, <1>3, <1>4, ContinueIsState, SectionIsState, PairIsState DEF parseLine

\* parse reads the lines one by one.
LEMMA ParseFold ==
    ASSUME NEW E, IsLines(E)
    PROVE  /\ parse(<<>>) = Top
           /\ \A s \in Seq(E), x \in E :
                 /\ parse(s) \in ParserStates(E)
                 /\ parse(Append(s, x)) = parseLine(parse(s), x)
<1> DEFINE D == ParserStates(E)
           b == Top
           step == [p \in D |-> [l \in E |-> parseLine(p, l)]]
           Eq(g, s) == g = [t \in SUBSET (DOMAIN s) |->
                              IF t = {} THEN b
                              ELSE parseLine(g[t \ {Max(t)}], s[Max(t)])]
           c(s) == CHOOSE g : Eq(g, s)
<1>1. b \in D /\ step \in [D -> [E -> D]]
      BY TopIsState, LineIsState
<1>2. ASSUME NEW s PROVE parse(s) = c(s)[DOMAIN s]
      BY Zenon DEF parse, FoldLeft, MapThenFoldSet
<1>3. ASSUME NEW s \in Seq(E) PROVE Follows(c(s), D, E, b, step, s, Len(s))
  <2> DEFINE n == Len(s)
  <2>1. n \in Nat /\ s \in [1 .. n -> E] /\ DOMAIN s = 1 .. n
        OBVIOUS
  <2> HIDE DEF b, n, step, D
  <2>2. PICK g : IsFold(g, D, b, step, s, n)
        BY <1>1, <2>1, FoldExists
  <2>3. ASSUME NEW t \in SUBSET (1 .. n), t # {}
        PROVE  s[Max(t)] \in E /\ g[t \ {Max(t)}] \in D
    <3>1. Max(t) \in 1 .. n
          BY <2>1, <2>3, MaxInside
    <3> QED BY <2>1, <2>2, <3>1 DEF IsFold
  <2>4. Eq(g, s)
        BY <2>1, <2>2, <2>3 DEF IsFold, step
  <2>5. Eq(c(s), s)
        BY <2>4
  <2> HIDE DEF c
  <2> QED BY <2>1, <2>5 DEF Follows, step, n
<1> HIDE DEF b, c, step, D
<1>4. parse(<<>>) = b
  <2>1. <<>> \in Seq(E) /\ Len(<<>>) = 0 /\ DOMAIN <<>> = 1 .. 0
        OBVIOUS
  <2> QED BY <1>2, <1>3, <2>1, FoldNone
<1>5. ASSUME NEW s \in Seq(E), NEW x \in E
      PROVE  /\ parse(s) \in D
             /\ parse(Append(s, x)) = parseLine(parse(s), x)
  <2> DEFINE u == Append(s, x)
             n == Len(s)
             m == n + 1
  <2>1. DOMAIN s = 1 .. n /\ DOMAIN u = 1 .. m /\ u \in Seq(E) /\ Len(u) = m
        OBVIOUS
  <2>2. Longer(u, m, s, n, x) /\ u = Append(s, x)
        BY DEF Longer
  <2> HIDE DEF u, n, m
  <2> DEFINE f == c(s)
             h == c(u)
  <2>3. Follows(f, D, E, b, step, s, n) /\ Follows(h, D, E, b, step, u, m)
        BY <1>3, <2>1, <2>2 DEF Longer
  <2> HIDE DEF f, h
  <2>4. f[1 .. n] \in D /\ h[1 .. m] = step[f[1 .. n]][x]
        BY <1>1, <2>2, <2>3, FoldStep
  <2>5. parse(s) \in D /\ parse(u) = step[parse(s)][x]
        BY <1>2, <2>1, <2>4 DEF f, h
  <2> QED BY <2>2, <2>5 DEF step
<1> QED BY <1>4, <1>5 DEF b, D

-----------------------------------------------------------------------------
(* Configuration files: one more line                                      *)

\* lines has n lines, us is lines and the line x.
HasLines(lines, n) ==
    /\ n \in Nat /\ DOMAIN lines = 1 .. n /\ Len(lines) = n
    /\ \A i \in 1 .. n : lines[i].kind = "section" => lines[i].depth \in Nat \ {0}
Grown(us, m, lines, n, x) ==
    /\ HasLines(lines, n) /\ HasLines(us, m) /\ m = n + 1
    /\ \A i \in 1 .. n : us[i] = lines[i]
    /\ us[m] = x

\* A file with one more line is such a file.
LEMMA LinesGrow ==
    ASSUME NEW E, IsLines(E), NEW lines \in Seq(E), NEW x \in E, NEW us, us = Append(lines, x),
           NEW n, n = Len(lines), NEW m, m = n + 1
    PROVE  Grown(us, m, lines, n, x)
<1>1. n \in Nat /\ DOMAIN lines = 1 .. n /\ \A i \in 1 .. n : lines[i] \in E
      OBVIOUS
<1>2. DOMAIN us = 1 .. m /\ Len(us) = m /\ (\A i \in 1 .. n : us[i] = lines[i]) /\ us[m] = x
      OBVIOUS
<1>3. m \in Nat /\ \A i \in 1 .. m : us[i] \in E
  <2>1. \A i \in 1 .. m : i \in 1 .. n \/ i = m
        BY <1>1
  <2> QED BY <1>1, <1>2, <2>1
<1>4. HasLines(lines, n)
      BY <1>1 DEF HasLines, IsLines
<1>5. HasLines(us, m)
      BY <1>2, <1>3 DEF HasLines, IsLines
<1> QED BY <1>2, <1>4, <1>5 DEF Grown

\* The last of some lines.
LEMMA LastOf ==
    ASSUME NEW n \in Nat, NEW S, S \subseteq 1 .. n, S # {}
    PROVE  Max(S) \in S /\ Max(S) \in 1 .. n /\ \A i \in S : i <= Max(S)
<1>1. S \subseteq 0 .. n
      OBVIOUS
<1>2. Max(S) \in S /\ \A i \in S : Max(S) >= i
      BY <1>1, MaxOfNat
<1> QED BY <1>2

\* The numbers before k.
LEMMA NumbersBefore ==
    ASSUME NEW n \in Nat, NEW k \in 1 .. n + 1
    PROVE  1 .. k - 1 \subseteq 1 .. n /\ k - 1 \in Nat
OBVIOUS

\* The depth of a line counts sections.
LEMMA DepthIsNat ==
    ASSUME NEW lines, NEW n, HasLines(lines, n), NEW k \in 1 .. n + 1
    PROVE  Depth(lines, k) \in Nat
<1> DEFINE A == AnyBefore(lines, k)
<1>1. n \in Nat
      BY DEF HasLines
<1>2. A \subseteq 1 .. n
      BY <1>1, NumbersBefore DEF AnyBefore
<1>3. ASSUME A # {} PROVE Max(A) \in A /\ Max(A) \in 1 .. n
  <2> HIDE DEF A
  <2> QED BY <1>1, <1>2, <1>3, LastOf
<1>4. A # {} => lines[Max(A)].kind = "section"
      BY <1>3 DEF AnyBefore
<1>5. A # {} => lines[Max(A)].depth \in Nat
      BY <1>3, <1>4 DEF HasLines
<1> QED BY <1>5 DEF Depth

\* A line more changes nothing in front of it.
LEMMA BeforeAgrees ==
    ASSUME NEW us, NEW m, NEW lines, NEW n, NEW x, Grown(us, m, lines, n, x), NEW k \in 1 .. m
    PROVE  /\ AnyBefore(us, k) = AnyBefore(lines, k)
           /\ \A d : Before(us, k, d) = Before(lines, k, d)
           /\ Depth(us, k) = Depth(lines, k)
<1> DEFINE A == AnyBefore(lines, k)
<1>1. n \in Nat /\ m = n + 1 /\ \A i \in 1 .. n : us[i] = lines[i]
      BY DEF Grown, HasLines
<1>2. 1 .. k - 1 \subseteq 1 .. n
      BY <1>1, NumbersBefore
<1>3. A \subseteq 1 .. n
      BY <1>2 DEF AnyBefore
<1>4. AnyBefore(us, k) = A
      BY <1>1, <1>2 DEF AnyBefore
<1>5. ASSUME NEW d PROVE Before(us, k, d) = Before(lines, k, d)
      BY <1>1, <1>3, <1>4 DEF Before
<1>6. ASSUME A # {} PROVE us[Max(A)] = lines[Max(A)]
  <2> HIDE DEF A
  <2> QED BY <1>1, <1>3, <1>6, LastOf
<1>7. Depth(us, k) = Depth(lines, k)
      BY <1>4, <1>6 DEF Depth
<1> QED BY <1>4, <1>5, <1>7

\* The section that is current behind it.
LEMMA BeforeNext ==
    ASSUME NEW us, NEW m, NEW lines, NEW n, NEW x, Grown(us, m, lines, n, x)
    PROVE  /\ \A d : Before(us, m + 1, d) =
                        Before(lines, m, d) \cup (IF x.kind = "section" /\ x.depth = d THEN {m}
                                                  ELSE {})
           /\ Depth(us, m + 1) = IF x.kind = "section" THEN x.depth ELSE Depth(lines, m)
<1> DEFINE A == AnyBefore(lines, m)
           B == AnyBefore(us, m + 1)
<1>1. /\ n \in Nat /\ m = n + 1 /\ us[m] = x /\ \A i \in 1 .. n : us[i] = lines[i]
      BY DEF Grown, HasLines
<1>2. m - 1 = n /\ m + 1 - 1 = m /\ 1 .. m = (1 .. n) \cup {m} /\ m \in Nat /\ m \notin 1 .. n
      BY <1>1
<1>3. A = {i \in 1 .. n : lines[i].kind = "section"}
      BY <1>2 DEF AnyBefore
<1>4. B = {i \in (1 .. n) \cup {m} : us[i].kind = "section"}
      BY <1>2 DEF AnyBefore
<1>5. B = A \cup (IF x.kind = "section" THEN {m} ELSE {})
      BY <1>1, <1>3, <1>4
<1>6. ASSUME NEW d
      PROVE  Before(us, m + 1, d) =
                Before(lines, m, d) \cup (IF x.kind = "section" /\ x.depth = d THEN {m} ELSE {})
      BY <1>1, <1>3, <1>5 DEF Before
<1>7. Depth(us, m + 1) = IF x.kind = "section" THEN x.depth ELSE Depth(lines, m)
  <2>1. CASE x.kind = "section"
    <3>1. m \in B /\ B \subseteq 1 .. m
          BY <1>2, <1>4, <1>1, <2>1
    <3> HIDE DEF B
    <3>2. Max(B) \in 1 .. m /\ m <= Max(B)
          BY <1>2, <3>1, LastOf
    <3>3. Max(B) = m
          BY <1>2, <3>2
    <3> QED BY <1>1, <2>1, <3>1, <3>3 DEF Depth, B
  <2>2. CASE x.kind # "section"
    <3>1. B = A /\ A \subseteq 1 .. n
          BY <1>3, <1>5, <2>2
    <3>2. ASSUME A # {} PROVE us[Max(A)] = lines[Max(A)]
      <4> HIDE DEF A
      <4> QED BY <1>1, <3>1, <3>2, LastOf
    <3> QED BY <2>2, <3>1, <3>2 DEF Depth
  <2> QED BY <2>1, <2>2
<1> QED BY <1>6, <1>7

\* No section skips a level; then every line is inside of a section of each
\* depth up to its own.
Stepwise(lines) == \A n \in Sections(lines) : lines[n].depth <= Depth(lines, n) + 1
Filled(lines, n) == \A k \in 1 .. n + 1 : \A d \in 1 .. Depth(lines, k) : Before(lines, k, d) # {}

\* One more line: no section is skipped.
LEMMA StepwiseNext ==
    ASSUME NEW us, NEW m, NEW lines, NEW n, NEW x, Grown(us, m, lines, n, x)
    PROVE  Stepwise(us) <=> /\ Stepwise(lines)
                            /\ x.kind = "section" => x.depth <= Depth(lines, m) + 1
<1>1. /\ n \in Nat /\ m = n + 1 /\ us[m] = x /\ \A i \in 1 .. n : us[i] = lines[i]
      /\ DOMAIN us = 1 .. m /\ DOMAIN lines = 1 .. n
      BY DEF Grown, HasLines
<1>2. 1 .. m = (1 .. n) \cup {m} /\ m \in 1 .. m
      BY <1>1
<1>3. Sections(us) = Sections(lines) \cup (IF x.kind = "section" THEN {m} ELSE {})
      BY <1>1, <1>2 DEF Sections
<1>4. \A i \in 1 .. m : Depth(us, i) = Depth(lines, i)
      BY BeforeAgrees
<1>5. Sections(lines) \subseteq 1 .. n
      BY <1>1 DEF Sections
<1>6. \A i \in Sections(lines) : us[i] = lines[i] /\ Depth(us, i) = Depth(lines, i)
      BY <1>1, <1>2, <1>4, <1>5
<1>7. Depth(us, m) = Depth(lines, m)
      BY <1>2, <1>4
<1> QED BY <1>1, <1>3, <1>6, <1>7 DEF Stepwise

\* One more line: every depth has a section.
LEMMA FilledNext ==
    ASSUME NEW us, NEW m, NEW lines, NEW n, NEW x, Grown(us, m, lines, n, x),
           Filled(lines, n), x.kind = "section" => x.depth <= Depth(lines, m) + 1
    PROVE  Filled(us, m)
<1>1. n \in Nat /\ m = n + 1 /\ HasLines(us, m) /\ HasLines(lines, n) /\ us[m] = x
      BY DEF Grown, HasLines
<1>2. ASSUME NEW k \in 1 .. m, NEW d \in 1 .. Depth(us, k) PROVE Before(us, k, d) # {}
  <2>1. Depth(us, k) = Depth(lines, k) /\ Before(us, k, d) = Before(lines, k, d)
        BY BeforeAgrees
  <2> QED BY <1>1, <2>1 DEF Filled
<1>3. ASSUME NEW d \in 1 .. Depth(us, m + 1) PROVE Before(us, m + 1, d) # {}
  <2>1. /\ Before(us, m + 1, d) =
             Before(lines, m, d) \cup (IF x.kind = "section" /\ x.depth = d THEN {m} ELSE {})
        /\ Depth(us, m + 1) = IF x.kind = "section" THEN x.depth ELSE Depth(lines, m)
        BY BeforeNext
  <2>2. Depth(lines, m) \in Nat
    <3>1. m \in 1 .. n + 1
          BY <1>1
    <3> QED BY <1>1, <3>1, DepthIsNat
  <2>3. m \in 1 .. n + 1
        BY <1>1
  <2>4. CASE x.kind = "section" /\ x.depth = d
        BY <2>1, <2>4
  <2>5. CASE x.kind = "section" /\ x.depth # d
    <3>1. x.depth \in Nat
      <4>1. m \in 1 .. m
            BY <1>1
      <4> QED BY <1>1, <2>5, <4>1 DEF HasLines
    <3>2. d \in 1 .. x.depth
          BY <2>1, <2>5
    <3>3. d \in 1 .. Depth(lines, m)
          BY <2>2, <2>5, <3>1, <3>2
    <3> QED BY <2>1, <2>3, <3>3 DEF Filled
  <2>6. CASE x.kind # "section"
        BY <2>1, <2>3, <2>6 DEF Filled
  <2> QED BY <2>4, <2>5, <2>6
<1>4. \A k \in 1 .. m + 1 : k \in 1 .. m \/ k = m + 1
      BY <1>1
<1> QED BY <1>2, <1>3, <1>4 DEF Filled

\* Where no depth is skipped, a line has a section of every depth above its own.
LEMMA StepwiseIsFilled ==
    ASSUME NEW E, IsLines(E)
    PROVE  \A lines \in Seq(E) : Stepwise(lines) => Filled(lines, Len(lines))
<1> DEFINE T == {lines \in Seq(E) : Stepwise(lines) => Filled(lines, Len(lines))}
<1>1. <<>> \in T
  <2>1. AnyBefore(<<>>, 1) = {}
        BY DEF AnyBefore
  <2>2. Depth(<<>>, 1) = 0
        BY <2>1 DEF Depth
  <2>3. Len(<<>>) = 0
        OBVIOUS
  <2>4. Filled(<<>>, 0)
        BY <2>2 DEF Filled
  <2> QED BY <2>3, <2>4
<1>2. ASSUME NEW lines \in Seq(E), NEW x \in E, lines \in T PROVE Append(lines, x) \in T
  <2> DEFINE us == Append(lines, x)
             n == Len(lines)
             m == n + 1
  <2>1. us = Append(lines, x) /\ n = Len(lines) /\ m = n + 1 /\ us \in Seq(E) /\ Len(us) = m
        OBVIOUS
  <2> HIDE DEF us, n, m
  <2>2. Grown(us, m, lines, n, x)
        BY <2>1, LinesGrow
  <2>3. Stepwise(us) => Filled(us, m)
        BY <1>2, <2>1, <2>2, StepwiseNext, FilledNext
  <2> QED BY <2>1, <2>3
<1> HIDE DEF T
<1>3. \A lines \in Seq(E) : lines \in T
      BY <1>1, <1>2, SeqInduction
<1> QED BY <1>3 DEF T

\* The lines before keep their sections.
LEMMA OwnerAgrees ==
    ASSUME NEW us, NEW m, NEW lines, NEW n, NEW x, Grown(us, m, lines, n, x),
           Filled(lines, n), NEW k \in 1 .. m
    PROVE  Owner(us, k) = Owner(lines, k)
<1>1. /\ n \in Nat /\ m = n + 1 /\ \A i \in 1 .. n : us[i] = lines[i]
      BY DEF Grown, HasLines
<1>2. Depth(us, k) = Depth(lines, k) /\ \A d : Before(us, k, d) = Before(lines, k, d)
      BY BeforeAgrees
<1>3. ASSUME NEW d \in 1 .. Depth(lines, k)
      PROVE  us[Max(Before(us, k, d))].name = lines[Max(Before(lines, k, d))].name
  <2> DEFINE B == Before(lines, k, d)
  <2>1. B \subseteq 1 .. n /\ B # {}
        BY <1>1, NumbersBefore DEF Before, AnyBefore, Filled
  <2> HIDE DEF B
  <2>2. Max(B) \in 1 .. n
        BY <1>1, <2>1, LastOf
  <2>3. Before(us, k, d) = B
        BY <1>2 DEF B
  <2> QED BY <1>1, <2>2, <2>3 DEF B
<1> QED BY <1>2, <1>3 DEF Owner

\* The path of a section x that begins at line m.
NewPath(lines, m, x) ==
    [d \in 1 .. x.depth |-> IF d = x.depth THEN x.name ELSE Owner(lines, m)[d]]

\* The section behind one more line.
LEMMA OwnerNext ==
    ASSUME NEW us, NEW m, NEW lines, NEW n, NEW x, Grown(us, m, lines, n, x),
           Filled(lines, n), x.kind = "section" => x.depth <= Depth(lines, m) + 1
    PROVE  Owner(us, m + 1) = IF x.kind = "section" THEN NewPath(lines, m, x) ELSE Owner(lines, m)
<1>1. /\ n \in Nat /\ m = n + 1 /\ us[m] = x /\ (\A i \in 1 .. n : us[i] = lines[i])
      /\ HasLines(lines, n) /\ HasLines(us, m)
      BY DEF Grown, HasLines
<1>2. m \in 1 .. n + 1 /\ m \in 1 .. m
      BY <1>1
<1>3. /\ \A d : Before(us, m + 1, d) =
                   Before(lines, m, d) \cup (IF x.kind = "section" /\ x.depth = d THEN {m} ELSE {})
      /\ Depth(us, m + 1) = IF x.kind = "section" THEN x.depth ELSE Depth(lines, m)
      BY BeforeNext
<1>4. Depth(lines, m) \in Nat
      BY <1>1, <1>2, DepthIsNat
<1>5. ASSUME NEW d \in 1 .. Depth(lines, m), Before(us, m + 1, d) = Before(lines, m, d)
      PROVE  us[Max(Before(us, m + 1, d))].name = Owner(lines, m)[d]
  <2> DEFINE B == Before(lines, m, d)
  <2>1. B \subseteq 1 .. n /\ B # {}
        BY <1>1, <1>2, NumbersBefore DEF Before, AnyBefore, Filled
  <2> HIDE DEF B
  <2>2. Max(B) \in 1 .. n
        BY <1>1, <2>1, LastOf
  <2>3. Before(us, m + 1, d) = B
        BY <1>5 DEF B
  <2>4. Owner(lines, m)[d] = lines[Max(B)].name
        BY DEF Owner, B
  <2> QED BY <1>1, <2>2, <2>3, <2>4
<1>6. CASE x.kind # "section"
  <2>1. Depth(us, m + 1) = Depth(lines, m) /\ \A d : Before(us, m + 1, d) = Before(lines, m, d)
        BY <1>3, <1>6
  <2>2. \A d \in 1 .. Depth(lines, m) : us[Max(Before(us, m + 1, d))].name = Owner(lines, m)[d]
        BY <1>5, <2>1
  <2>3. Owner(lines, m) = [d \in 1 .. Depth(lines, m) |-> Owner(lines, m)[d]]
        BY DEF Owner
  <2>4. Owner(us, m + 1) = [d \in 1 .. Depth(lines, m) |-> us[Max(Before(us, m + 1, d))].name]
        BY <2>1 DEF Owner
  <2> QED BY <1>6, <2>2, <2>3, <2>4
<1>7. CASE x.kind = "section"
  <2>1. x.depth \in Nat \ {0} /\ x.depth <= Depth(lines, m) + 1
        BY <1>1, <1>2, <1>7 DEF HasLines
  <2>2. Owner(us, m + 1) = [d \in 1 .. x.depth |-> us[Max(Before(us, m + 1, d))].name]
        BY <1>3, <1>7 DEF Owner
  <2>3. ASSUME NEW d \in 1 .. x.depth
        PROVE  us[Max(Before(us, m + 1, d))].name =
                  IF d = x.depth THEN x.name ELSE Owner(lines, m)[d]
    <3>1. CASE d = x.depth
      <4> DEFINE B == Before(us, m + 1, d)
      <4>1. B = Before(lines, m, d) \cup {m}
            BY <1>3, <1>7, <3>1
      <4>2. Before(lines, m, d) \subseteq 1 .. n
            BY <1>1, <1>2, NumbersBefore DEF Before, AnyBefore
      <4>3. m \in B /\ B \subseteq 1 .. m /\ m \in Nat
            BY <1>1, <4>1, <4>2
      <4> HIDE DEF B
      <4>4. Max(B) \in 1 .. m /\ m <= Max(B)
            BY <4>3, LastOf
      <4>5. Max(B) = m
            BY <4>3, <4>4
      <4> QED BY <1>1, <3>1, <4>5 DEF B
    <3>2. CASE d # x.depth
      <4>1. d \in 1 .. Depth(lines, m)
            BY <1>4, <2>1, <3>2
      <4>2. Before(us, m + 1, d) = Before(lines, m, d)
            BY <1>3, <3>2
      <4> QED BY <1>5, <3>2, <4>1, <4>2
    <3> QED BY <3>1, <3>2
  <2> QED BY <1>7, <2>2, <2>3 DEF NewPath
<1> QED BY <1>6, <1>7

\* What a line more needs to be read.
LineFits(lines, m, x) ==
    /\ x.kind \notin {"white", "word"}
    /\ x.kind = "+" => m > 1 /\ Continues(lines, m - 1)
    /\ x.kind = "section" =>
          /\ x.depth <= Depth(lines, m) + 1
          /\ \A i \in Sections(lines) : Owner(lines, i + 1) # NewPath(lines, m, x)
    /\ x.kind = "pair" => \A i \in Pairs(lines) : Place(lines, i) # <<Owner(lines, m), x.key>>

LinesOk(lines) ==
    \A n \in DOMAIN lines : /\ lines[n].kind \notin {"white", "word"}
                            /\ lines[n].kind = "+" => n > 1 /\ Continues(lines, n - 1)
SectionsDiffer(lines) ==
    \A m, n \in Sections(lines) : m # n => Owner(lines, m + 1) # Owner(lines, n + 1)
PlacesDiffer(lines) == \A m, n \in Pairs(lines) : m # n => Place(lines, m) # Place(lines, n)

\* One more line: what is allowed.
LEMMA LinesOkNext ==
    ASSUME NEW us, NEW m, NEW lines, NEW n, NEW x, Grown(us, m, lines, n, x)
    PROVE  LinesOk(us) <=> /\ LinesOk(lines)
                           /\ x.kind \notin {"white", "word"}
                           /\ x.kind = "+" => m > 1 /\ Continues(lines, m - 1)
<1>1. /\ n \in Nat /\ m = n + 1 /\ us[m] = x /\ (\A i \in 1 .. n : us[i] = lines[i])
      /\ DOMAIN us = 1 .. m /\ DOMAIN lines = 1 .. n
      BY DEF Grown, HasLines
<1>2. \A i \in 1 .. m : i \in 1 .. n \/ i = m
      BY <1>1
<1>3. \A i \in 1 .. m : i > 1 => i - 1 \in 1 .. n
      BY <1>1
<1>4. \A i \in 1 .. n : i \in 1 .. m
      BY <1>1
<1>5. m \in 1 .. m
      BY <1>1
<1>6. \A i \in 1 .. m : i > 1 => (Continues(us, i - 1) <=> Continues(lines, i - 1))
      BY <1>1, <1>3 DEF Continues
<1> QED BY <1>1, <1>2, <1>4, <1>5, <1>6 DEF LinesOk

\* One more line: its section, if it begins one.
LEMMA SectionsNext ==
    ASSUME NEW us, NEW m, NEW lines, NEW n, NEW x, Grown(us, m, lines, n, x), Filled(lines, n),
           x.kind = "section" => x.depth <= Depth(lines, m) + 1
    PROVE  /\ Sections(us) = Sections(lines) \cup (IF x.kind = "section" THEN {m} ELSE {})
           /\ m \notin Sections(lines)
           /\ \A i \in Sections(lines) : Owner(us, i + 1) = Owner(lines, i + 1)
           /\ SectionsDiffer(us) <=>
                 /\ SectionsDiffer(lines)
                 /\ x.kind = "section" =>
                       \A i \in Sections(lines) : Owner(lines, i + 1) # NewPath(lines, m, x)
<1>1. /\ n \in Nat /\ m = n + 1 /\ us[m] = x /\ (\A i \in 1 .. n : us[i] = lines[i])
      /\ DOMAIN us = 1 .. m /\ DOMAIN lines = 1 .. n
      BY DEF Grown, HasLines
<1>2. 1 .. m = (1 .. n) \cup {m} /\ m \notin 1 .. n
      BY <1>1
<1>3. Sections(us) = Sections(lines) \cup (IF x.kind = "section" THEN {m} ELSE {})
      BY <1>1, <1>2 DEF Sections
<1>4. Sections(lines) \subseteq 1 .. n
      BY <1>1 DEF Sections
<1>5. ASSUME NEW i \in Sections(lines) PROVE Owner(us, i + 1) = Owner(lines, i + 1)
  <2>1. i + 1 \in 1 .. m
        BY <1>1, <1>4
  <2> QED BY <2>1, OwnerAgrees
<1>6. m \notin Sections(lines)
      BY <1>2, <1>4
<1>7. x.kind = "section" => Owner(us, m + 1) = NewPath(lines, m, x)
      BY OwnerNext
<1>8. SectionsDiffer(us) <=>
         /\ SectionsDiffer(lines)
         /\ x.kind = "section" =>
               \A i \in Sections(lines) : Owner(lines, i + 1) # NewPath(lines, m, x)
  <2>1. CASE x.kind # "section"
        BY <1>3, <1>5, <2>1 DEF SectionsDiffer
  <2>2. CASE x.kind = "section"
        BY <1>3, <1>5, <1>6, <1>7, <2>2 DEF SectionsDiffer
  <2> QED BY <2>1, <2>2
<1> QED BY <1>3, <1>5, <1>6, <1>8

\* One more line: its place, if it is a pair.
LEMMA PairsNext ==
    ASSUME NEW us, NEW m, NEW lines, NEW n, NEW x, Grown(us, m, lines, n, x), Filled(lines, n)
    PROVE  /\ Pairs(us) = Pairs(lines) \cup (IF x.kind = "pair" THEN {m} ELSE {})
           /\ Pairs(lines) \subseteq 1 .. n
           /\ m \notin Pairs(lines)
           /\ \A i \in Pairs(lines) : Place(us, i) = Place(lines, i) /\ Owner(us, i) = Owner(lines, i)
           /\ Place(us, m) = <<Owner(lines, m), x.key>> /\ Owner(us, m) = Owner(lines, m)
           /\ PlacesDiffer(us) <=>
                 /\ PlacesDiffer(lines)
                 /\ x.kind = "pair" =>
                       \A i \in Pairs(lines) : Place(lines, i) # <<Owner(lines, m), x.key>>
<1>1. /\ n \in Nat /\ m = n + 1 /\ us[m] = x /\ (\A i \in 1 .. n : us[i] = lines[i])
      /\ DOMAIN us = 1 .. m /\ DOMAIN lines = 1 .. n
      BY DEF Grown, HasLines
<1>2. 1 .. m = (1 .. n) \cup {m} /\ m \notin 1 .. n
      BY <1>1
<1>3. Pairs(us) = Pairs(lines) \cup (IF x.kind = "pair" THEN {m} ELSE {})
      BY <1>1, <1>2 DEF Pairs
<1>4. Pairs(lines) \subseteq 1 .. n
      BY <1>1 DEF Pairs
<1>5. ASSUME NEW i \in Pairs(lines)
      PROVE  Place(us, i) = Place(lines, i) /\ Owner(us, i) = Owner(lines, i)
  <2>1. i \in 1 .. m /\ i \in 1 .. n
        BY <1>2, <1>4
  <2>2. Owner(us, i) = Owner(lines, i)
        BY <2>1, OwnerAgrees
  <2> QED BY <1>1, <2>1, <2>2 DEF Place
<1>6. m \notin Pairs(lines)
      BY <1>2, <1>4
<1>7. Place(us, m) = <<Owner(lines, m), x.key>> /\ Owner(us, m) = Owner(lines, m)
  <2>1. m \in 1 .. m
        BY <1>1
  <2>2. Owner(us, m) = Owner(lines, m)
        BY <2>1, OwnerAgrees
  <2> QED BY <1>1, <2>2 DEF Place
<1> DEFINE q == <<Owner(lines, m), x.key>>
<1> HIDE DEF q
<1>8. PlacesDiffer(us) <=> /\ PlacesDiffer(lines)
                           /\ x.kind = "pair" => \A i \in Pairs(lines) : Place(lines, i) # q
  <2>1. Place(us, m) = q
        BY <1>7 DEF q
  <2>2. CASE x.kind # "pair"
        BY <1>3, <1>5, <2>2 DEF PlacesDiffer
  <2>3. CASE x.kind = "pair"
        BY <1>3, <1>5, <1>6, <2>1, <2>3 DEF PlacesDiffer
  <2> QED BY <2>2, <2>3
<1> QED BY <1>3, <1>4, <1>5, <1>6, <1>7, <1>8 DEF q

\* The files that are accepted: well-formed and without a line of white space.
IsRead(lines) == IsIniFile(lines) /\ \A n \in DOMAIN lines : lines[n].kind # "white"

\* A file with a line more is accepted if it is without it and the line fits.
LEMMA IniFileNext ==
    ASSUME NEW us, NEW m, NEW lines, NEW n, NEW x, Grown(us, m, lines, n, x),
           Stepwise(lines) => Filled(lines, n)
    PROVE  IsRead(us) <=> IsRead(lines) /\ LineFits(lines, m, x)
<1> DEFINE fits == x.kind = "section" => x.depth <= Depth(lines, m) + 1
<1>1. ASSUME NEW s PROVE IsRead(s) <=> /\ LinesOk(s) /\ Stepwise(s)
                                       /\ SectionsDiffer(s) /\ PlacesDiffer(s)
      BY DEF IsRead, IsIniFile, LinesOk, Stepwise, SectionsDiffer, PlacesDiffer
<1>2. Stepwise(us) <=> Stepwise(lines) /\ fits
      BY StepwiseNext
<1>3. CASE ~ (Stepwise(lines) /\ fits)
      BY <1>1, <1>2, <1>3 DEF LineFits
<1>4. CASE Stepwise(lines) /\ fits
  <2>1. Filled(lines, n)
        BY <1>4
  <2>2. LinesOk(us) <=> /\ LinesOk(lines) /\ x.kind \notin {"white", "word"}
                        /\ x.kind = "+" => m > 1 /\ Continues(lines, m - 1)
        BY LinesOkNext
  <2>3. SectionsDiffer(us) <=>
           /\ SectionsDiffer(lines)
           /\ x.kind = "section" =>
                 \A i \in Sections(lines) : Owner(lines, i + 1) # NewPath(lines, m, x)
        BY <1>4, <2>1, SectionsNext
  <2>4. PlacesDiffer(us) <=>
           /\ PlacesDiffer(lines)
           /\ x.kind = "pair" =>
                 \A i \in Pairs(lines) : Place(lines, i) # <<Owner(lines, m), x.key>>
        BY <2>1, PairsNext
  <2> QED BY <1>1, <1>2, <1>4, <2>2, <2>3, <2>4, Zenon DEF LineFits
<1> QED BY <1>3, <1>4

\* Nothing but continuations follows line i.
IsOpen(lines, i, n) == \A k \in i + 1 .. n : lines[k].kind = "+"

\* The lines that continue line i follow it without a gap.
LEMMA ContinuationsCount ==
    ASSUME NEW lines, NEW n, HasLines(lines, n), NEW i \in 1 .. n
    PROVE  /\ Cardinality(Continuations(lines, i)) \in 0 .. n - i
           /\ IsOpen(lines, i, n) => Cardinality(Continuations(lines, i)) = n - i
<1> DEFINE S == Continuations(lines, i)
           R == i + 1 .. n
<1>1. n \in Nat /\ Len(lines) = n
      BY DEF HasLines
<1>2. IsFiniteSet(R) /\ Cardinality(R) = n - i
  <2>1. i + 1 \in Int /\ n \in Int /\ n - (i + 1) + 1 = n - i
        BY <1>1
  <2>2. IsFiniteSet(R) /\ Cardinality(R) = IF i + 1 > n THEN 0 ELSE n - (i + 1) + 1
        BY <2>1, FS_Interval
  <2> QED BY <1>1, <2>1, <2>2
<1>3. S \subseteq R
      BY <1>1 DEF Continuations
<1>4. IsFiniteSet(S) /\ Cardinality(S) <= Cardinality(R)
      BY <1>2, <1>3, FS_Subset
<1>5. Cardinality(S) \in Nat
      BY <1>4, FS_CardinalityType
<1>6. ASSUME IsOpen(lines, i, n) PROVE S = R
  <2>1. ASSUME NEW j \in R, NEW k \in i + 1 .. j PROVE k \in R
        BY <1>1
  <2>2. \A j \in R : \A k \in i + 1 .. j : lines[k].kind = "+"
        BY <1>6, <2>1 DEF IsOpen
  <2> QED BY <1>1, <2>2 DEF Continuations
<1> HIDE DEF S, R
<1>7. Cardinality(S) \in 0 .. n - i
      BY <1>1, <1>2, <1>4, <1>5
<1> QED BY <1>2, <1>6, <1>7 DEF S

\* One more line continues line i only if it is open.
LEMMA ContinuationsNext ==
    ASSUME NEW us, NEW m, NEW lines, NEW n, NEW x, Grown(us, m, lines, n, x), NEW i \in 1 .. n
    PROVE  Continuations(us, i) = Continuations(lines, i)
                                    \cup (IF x.kind = "+" /\ IsOpen(lines, i, n) THEN {m} ELSE {})
<1>1. /\ n \in Nat /\ m = n + 1 /\ us[m] = x /\ (\A k \in 1 .. n : us[k] = lines[k])
      /\ Len(us) = m /\ Len(lines) = n
      BY DEF Grown, HasLines
<1> DEFINE R == i + 1 .. n
<1>2. i + 1 .. m = R \cup {m} /\ m \notin R
      BY <1>1
<1>3. \A j \in R : i + 1 .. j \subseteq R
      BY <1>1
<1>4. \A k \in R : us[k] = lines[k]
      BY <1>1
<1>5. Continuations(lines, i) = {j \in R : \A k \in i + 1 .. j : lines[k].kind = "+"}
      BY <1>1 DEF Continuations
<1>6. Continuations(us, i) = {j \in R \cup {m} : \A k \in i + 1 .. j : us[k].kind = "+"}
      BY <1>1, <1>2 DEF Continuations
<1>7. (\A k \in i + 1 .. m : us[k].kind = "+") <=> (x.kind = "+" /\ IsOpen(lines, i, n))
      BY <1>1, <1>2, <1>4 DEF IsOpen
<1>8. \A j \in R : (\A k \in i + 1 .. j : us[k].kind = "+") <=> (\A k \in i + 1 .. j : lines[k].kind = "+")
      BY <1>3, <1>4
<1> HIDE DEF R
<1> QED BY <1>5, <1>6, <1>7, <1>8

\* The values of the lines before a line more: only "+" changes one.
LEMMA ValueStays ==
    ASSUME NEW us, NEW m, NEW lines, NEW n, NEW x, Grown(us, m, lines, n, x), NEW i \in 1 .. n,
           ~ (x.kind = "+" /\ IsOpen(lines, i, n))
    PROVE  ValueOf(us, i) = ValueOf(lines, i)
<1> DEFINE c == Cardinality(Continuations(lines, i))
<1>1. /\ n \in Nat /\ m = n + 1 /\ (\A k \in 1 .. n : us[k] = lines[k]) /\ HasLines(lines, n)
      BY DEF Grown, HasLines
<1>2. Continuations(us, i) = Continuations(lines, i)
      BY ContinuationsNext
<1>3. c \in 0 .. n - i
      BY <1>1, ContinuationsCount
<1>4. Cardinality(Continuations(us, i)) = c
      BY <1>2
<1> HIDE DEF c
<1>5. \A j \in 1 .. c : us[i + j].text = lines[i + j].text
  <2>1. \A j \in 1 .. c : i + j \in 1 .. n
        BY <1>1, <1>3
  <2> QED BY <1>1, <2>1
<1>6. [j \in 1 .. c |-> us[i + j].text] = [j \in 1 .. c |-> lines[i + j].text]
      BY <1>5
<1>7. us[i] = lines[i]
      BY <1>1
<1> QED BY <1>4, <1>6, <1>7 DEF ValueOf, c

\* A continuation adds its text.
LEMMA ValueGrows ==
    ASSUME NEW us, NEW m, NEW lines, NEW n, NEW x, Grown(us, m, lines, n, x), NEW i \in 1 .. n,
           x.kind = "+", IsOpen(lines, i, n)
    PROVE  ValueOf(us, i) = Append(ValueOf(lines, i), x.text)
<1> DEFINE c == n - i
<1>1. /\ n \in Nat /\ m = n + 1 /\ us[m] = x /\ (\A k \in 1 .. n : us[k] = lines[k])
      /\ HasLines(lines, n) /\ HasLines(us, m)
      BY DEF Grown, HasLines
<1>2. IsOpen(us, i, m)
  <2>1. \A k \in i + 1 .. m : k \in i + 1 .. n \/ k = m
        BY <1>1
  <2>2. \A k \in i + 1 .. n : k \in 1 .. n
        BY <1>1
  <2> QED BY <1>1, <2>1, <2>2 DEF IsOpen
<1>3. Cardinality(Continuations(lines, i)) = c /\ c \in Nat
      BY <1>1, ContinuationsCount
<1>4. Cardinality(Continuations(us, i)) = c + 1
  <2>1. i \in 1 .. m /\ m - i = c + 1
        BY <1>1
  <2> QED BY <1>1, <1>2, <2>1, ContinuationsCount
<1> DEFINE f == [j \in 1 .. c |-> lines[i + j].text]
           g == [j \in 1 .. c + 1 |-> us[i + j].text]
           a == lines[i].text
           t == x.text
<1>5. i + (c + 1) = m
      BY <1>1
<1>6. \A j \in 1 .. c : i + j \in 1 .. n
      BY <1>1
<1> HIDE DEF c
<1>7. \A j \in 1 .. c : g[j] = f[j]
  <2>1. \A j \in 1 .. c : j \in 1 .. c + 1
        BY <1>3
  <2> QED BY <1>1, <1>6, <2>1
<1>8. g[c + 1] = t
  <2>1. c + 1 \in 1 .. c + 1
        BY <1>3
  <2> QED BY <1>1, <1>5, <2>1
<1> DEFINE S == {f[j] : j \in 1 .. c} \cup {t, a}
<1>9. f \in [1 .. c -> S] /\ g \in [1 .. c + 1 -> S] /\ t \in S /\ a \in S
  <2>1. \A j \in 1 .. c + 1 : j \in 1 .. c \/ j = c + 1
        BY <1>3
  <2>2. DOMAIN g = 1 .. c + 1 /\ g = [j \in 1 .. c + 1 |-> g[j]]
        OBVIOUS
  <2>3. \A j \in 1 .. c + 1 : g[j] \in S
        BY <1>7, <1>8, <2>1
  <2>4. f \in [1 .. c -> S]
        OBVIOUS
  <2> HIDE DEF S, f, g
  <2> QED BY <2>2, <2>3, <2>4 DEF S
<1> HIDE DEF f, g, S, a, t
<1>10. f \in Seq(S) /\ Len(f) = c /\ g \in Seq(S) /\ Len(g) = c + 1
      BY <1>3, <1>9
<1>11. g = Append(f, t)
      BY <1>3, <1>7, <1>8, <1>9, <1>10
<1>12. <<a>> \o Append(f, t) = Append(<<a>> \o f, t)
      BY <1>9, <1>10
<1>13. ValueOf(lines, i) = <<a>> \o f
      BY <1>3 DEF ValueOf, a, f
<1>14. ValueOf(us, i) = <<a>> \o g
      BY <1>1, <1>4 DEF ValueOf, a, g
<1> QED BY <1>11, <1>12, <1>13, <1>14 DEF t

\* The last line is not continued.
LEMMA ValueBegins ==
    ASSUME NEW us, NEW m, HasLines(us, m), m > 0
    PROVE  ValueOf(us, m) = <<us[m].text>>
<1>1. Cardinality(Continuations(us, m)) = 0
  <2>1. m \in 1 .. m /\ m \in Nat /\ 0 .. m - m = {0}
        BY DEF HasLines
  <2> QED BY <2>1, ContinuationsCount
<1>2. <<us[m].text>> \o <<>> = <<us[m].text>>
      OBVIOUS
<1>3. [j \in 1 .. 0 |-> us[m + j].text] = <<>>
      OBVIOUS
<1> QED BY <1>1, <1>2, <1>3 DEF ValueOf

-----------------------------------------------------------------------------
(* Configuration files: the parser reads what is written                   *)

\* The parser after n lines: where it is, what it has seen, and the value that
\* the next line may continue.
SectionsRead(p, lines, n) ==
    /\ p.level = Owner(lines, n + 1)
    /\ p.sections = {<<>>} \cup {Owner(lines, i + 1) : i \in Sections(lines)}
    /\ p.level \in p.sections
    /\ \A i \in Pairs(lines) : Owner(lines, i) \in p.sections
ValuesRead(p, lines) ==
    /\ DOMAIN p.values = {Place(lines, i) : i \in Pairs(lines)}
    /\ \A i \in Pairs(lines) : p.values[Place(lines, i)] = ValueOf(lines, i)
KeyRead(p, lines, n) ==
    IF n > 0 /\ Continues(lines, n)
    THEN /\ p.lastKey # ""
         /\ \E i \in Pairs(lines) : /\ lines[i].key = p.lastKey /\ Owner(lines, i) = p.level
                                    /\ IsOpen(lines, i, n)
    ELSE p.lastKey = ""
FileInv(p, lines, n) ==
    SectionsRead(p, lines, n) /\ ValuesRead(p, lines) /\ KeyRead(p, lines, n)

NoError(p) == p.error = ""

\* What all cases start from.
Ready(E, p, us, m, lines, n, x) ==
    /\ p \in ParserStates(E)
    /\ Grown(us, m, lines, n, x)
    /\ Filled(lines, n)
    /\ PlacesDiffer(lines)
    /\ FileInv(p, lines, n)

\* A line that begins no section.
LEMMA NoSectionMore ==
    ASSUME NEW E, NEW p, NEW us, NEW m, NEW lines, NEW n, NEW x,
           Ready(E, p, us, m, lines, n, x), x.kind # "section", NEW q,
           q.level = p.level, q.sections = p.sections
    PROVE  SectionsRead(q, us, m)
<1> USE DEF Ready, FileInv
<1>0. n \in Nat /\ m = n + 1
      BY DEF Grown, HasLines
<1>1. Owner(us, m + 1) = Owner(lines, m)
      BY OwnerNext
<1>2. /\ Sections(us) = Sections(lines)
      /\ \A i \in Sections(lines) : Owner(us, i + 1) = Owner(lines, i + 1)
      BY SectionsNext
<1>3. /\ Pairs(us) = Pairs(lines) \cup (IF x.kind = "pair" THEN {m} ELSE {})
      /\ \A i \in Pairs(lines) : Owner(us, i) = Owner(lines, i)
      /\ Owner(us, m) = Owner(lines, m)
      BY PairsNext
<1>4. p.level = Owner(lines, m)
      BY <1>0 DEF SectionsRead
<1>5. {Owner(us, i + 1) : i \in Sections(us)} = {Owner(lines, i + 1) : i \in Sections(lines)}
      BY <1>2
<1>6. \A i \in Pairs(us) : Owner(us, i) \in p.sections
      BY <1>3, <1>4 DEF SectionsRead
<1> QED BY <1>1, <1>4, <1>5, <1>6 DEF SectionsRead

\* A line that has no value.
LEMMA NoValueMore ==
    ASSUME NEW E, NEW p, NEW us, NEW m, NEW lines, NEW n, NEW x,
           Ready(E, p, us, m, lines, n, x), x.kind \notin {"+", "pair"}, NEW q, q.values = p.values
    PROVE  ValuesRead(q, us)
<1> USE DEF Ready, FileInv
<1>1. /\ Pairs(us) = Pairs(lines) /\ Pairs(lines) \subseteq 1 .. n
      /\ \A i \in Pairs(lines) : Place(us, i) = Place(lines, i)
      BY PairsNext
<1>2. \A i \in Pairs(lines) : ValueOf(us, i) = ValueOf(lines, i)
      BY <1>1, ValueStays
<1>3. {Place(us, i) : i \in Pairs(us)} = {Place(lines, i) : i \in Pairs(lines)}
      BY <1>1
<1> QED BY <1>1, <1>2, <1>3 DEF ValuesRead

\* A line that ends the value before it.
LEMMA NoKeyMore ==
    ASSUME NEW E, NEW p, NEW us, NEW m, NEW lines, NEW n, NEW x,
           Ready(E, p, us, m, lines, n, x), x.kind \notin {"+", "pair"}, NEW q, q.lastKey = ""
    PROVE  KeyRead(q, us, m)
<1>1. us[m] = x
      BY DEF Ready, Grown
<1> QED BY <1>1 DEF KeyRead, Continues

\* A blank line or a comment.
LEMMA SkippedStep ==
    ASSUME NEW E, NEW p, NEW us, NEW m, NEW lines, NEW n, NEW x,
           Ready(E, p, us, m, lines, n, x), x.kind \in {"blank", "comment"}
    PROVE  FileInv(Skipped(p), us, m) /\ Skipped(p).error = p.error
<1> DEFINE q == Skipped(p)
<1>1. /\ q.level = p.level /\ q.sections = p.sections /\ q.values = p.values
      /\ q.lastKey = "" /\ q.error = p.error
      BY DEF Skipped, Ready, ParserStates
<1> HIDE DEF q
<1>2. SectionsRead(q, us, m)
      BY <1>1, NoSectionMore
<1>3. ValuesRead(q, us)
      BY <1>1, NoValueMore
<1>4. KeyRead(q, us, m)
      BY <1>1, NoKeyMore
<1> QED BY <1>1, <1>2, <1>3, <1>4 DEF FileInv, q

\* The path of a new section.
LEMMA PathIsNew ==
    ASSUME NEW lines, NEW m, NEW k \in Nat, k = Depth(lines, m), NEW p,
           p.level = Owner(lines, m), NEW x, x.depth \in Nat \ {0}, x.depth <= k + 1
    PROVE  /\ Append(Enclosing(p, x.depth), x.name) = NewPath(lines, m, x)
           /\ NewPath(lines, m, x) # <<>>
<1> DEFINE f == Owner(lines, m)
           S == {f[d] : d \in 1 .. k} \cup {x.name}
           e == x.depth
           c == x.name
           g == [d \in 1 .. e |-> IF d = e THEN c ELSE f[d]]
<1>1. DOMAIN f = 1 .. k /\ f = [d \in 1 .. k |-> f[d]]
      BY DEF Owner
<1>2. f \in [1 .. k -> S] /\ c \in S
      BY <1>1
<1> HIDE DEF f, S, c, e
<1>3. e \in Nat /\ e >= 1 /\ e <= k + 1
      BY DEF e
<1>4. f \in Seq(S) /\ Len(f) = k
      BY <1>2
<1>5. Enclosing(p, e) = SubSeq(f, 1, e - 1)
  <2>1. e = k + 1 => SubSeq(f, 1, e - 1) = f
        BY <1>3, <1>4
  <2> QED BY <1>4, <2>1 DEF Enclosing, f
<1>6. Append(SubSeq(f, 1, e - 1), c) = g
  <2> DEFINE s == SubSeq(f, 1, e - 1)
  <2>1. s \in Seq(S) /\ Len(s) = e - 1 /\ \A d \in 1 .. e - 1 : s[d] = f[d]
        BY <1>3, <1>4
  <2> HIDE DEF s
  <2>2. \A d \in 1 .. e : d \in 1 .. e - 1 \/ d = e
        BY <1>3
  <2>3. e \notin 1 .. e - 1
        BY <1>3
  <2>4. /\ Append(s, c) \in Seq(S) /\ Len(Append(s, c)) = e
        /\ \A d \in 1 .. e - 1 : Append(s, c)[d] = s[d]
        /\ Append(s, c)[e] = c
        BY <1>2, <1>3, <2>1
  <2>5. \A d \in 1 .. e : Append(s, c)[d] = IF d = e THEN c ELSE f[d]
        BY <2>1, <2>2, <2>3, <2>4
  <2> DEFINE u == Append(s, c)
  <2> HIDE DEF u
  <2>6. u \in [1 .. e -> S]
    <3>1. u \in Seq(S) /\ Len(u) = e
          BY <2>4 DEF u
    <3> QED BY <3>1
  <2>7. u = g
    <3>1. \A d \in 1 .. e : u[d] = IF d = e THEN c ELSE f[d]
          BY <2>5 DEF u
    <3> QED BY <2>6, <3>1
  <2> QED BY <2>7 DEF s, u
<1>7. g # <<>>
  <2>1. DOMAIN g = 1 .. e /\ 1 \in 1 .. e /\ DOMAIN <<>> = {}
        BY <1>3
  <2> QED BY <2>1
<1> QED BY <1>5, <1>6, <1>7 DEF NewPath, f, c, e

\* A section: the parser accepts it if and only if it fits, and goes into it.
LEMMA SectionStep ==
    ASSUME NEW E, NEW p, NEW us, NEW m, NEW lines, NEW n, NEW x,
           Ready(E, p, us, m, lines, n, x), x.kind = "section", NoError(p)
    PROVE  /\ NoError(Section(p, x)) <=> LineFits(lines, m, x)
           /\ LineFits(lines, m, x) => FileInv(Section(p, x), us, m)
<1> DEFINE q == Section(p, x)
           k == Depth(lines, m)
           path == Append(Enclosing(p, x.depth), x.name)
<1>0. /\ p \in ParserStates(E) /\ Grown(us, m, lines, n, x) /\ Filled(lines, n)
      /\ SectionsRead(p, lines, n)
      BY DEF Ready, FileInv
<1>1. n \in Nat /\ m = n + 1 /\ us[m] = x /\ HasLines(us, m) /\ HasLines(lines, n)
      BY <1>0 DEF Grown, HasLines
<1>2. k \in Nat /\ x.depth \in Nat \ {0}
  <2>1. m \in 1 .. n + 1 /\ m \in 1 .. m
        BY <1>1
  <2> QED BY <1>1, <2>1, DepthIsNat DEF HasLines
<1>3. p.level = Owner(lines, m) /\ Len(p.level) = k
  <2>1. p.level = Owner(lines, m)
        BY <1>0, <1>1 DEF SectionsRead
  <2>2. p.level \in Seq(NamesOf(E)) /\ DOMAIN p.level = 1 .. k
        BY <1>0, <2>1 DEF ParserStates, Paths, Owner
  <2> QED BY <1>2, <2>1, <2>2
<1>4. LineFits(lines, m, x) <=>
         /\ x.depth <= k + 1
         /\ \A i \in Sections(lines) : Owner(lines, i + 1) # NewPath(lines, m, x)
      BY DEF LineFits
<1> HIDE DEF k
<1>5. CASE x.depth > k + 1
  <2>1. q = err(p, "section with wrong depth")
        BY <1>3, <1>5 DEF Section
  <2>2. q.error # ""
        BY <1>0, <2>1 DEF err, ParserStates
  <2> HIDE DEF q
  <2>3. ~ LineFits(lines, m, x)
        BY <1>2, <1>4, <1>5
  <2> QED BY <2>2, <2>3 DEF q, NoError
<1>6. CASE ~ (x.depth > k + 1)
  <2>0. x.depth <= k + 1
        BY <1>2, <1>6
  <2>1. path = NewPath(lines, m, x) /\ path # <<>>
    <3>1. k = Depth(lines, m)
          BY DEF k
    <3> QED BY <1>2, <1>3, <2>0, <3>1, PathIsNew
  <2>2. path \in p.sections <=> ~ LineFits(lines, m, x)
    <3> HIDE DEF path
    <3> QED BY <1>0, <1>4, <2>0, <2>1 DEF SectionsRead
  <2>3. CASE path \in p.sections
    <3>1. q = err(p, "duplicate section name on the same level")
          BY <1>3, <1>6, <2>3 DEF Section
    <3>2. q.error # ""
          BY <1>0, <3>1 DEF err, ParserStates
    <3> HIDE DEF q
    <3> QED BY <2>2, <2>3, <3>2 DEF q, NoError
  <2>4. CASE path \notin p.sections
    <3>1. q = [p EXCEPT !.level = path, !.lastKey = "", !.sections = @ \cup {path}]
          BY <1>3, <1>6, <2>4 DEF Section
    <3>2. /\ q.level = path /\ q.lastKey = "" /\ q.sections = p.sections \cup {path}
          /\ q.values = p.values /\ q.error = p.error
      <4> HIDE DEF path
      <4> QED BY <1>0, <3>1 DEF ParserStates
    <3> HIDE DEF q
    <3>3. ValuesRead(q, us) /\ KeyRead(q, us, m)
          BY <3>2, NoValueMore, NoKeyMore
    <3>4. Owner(us, m + 1) = path
          BY <1>0, <2>0, <2>1, OwnerNext DEF k
    <3>5. /\ Sections(us) = Sections(lines) \cup {m}
          /\ \A i \in Sections(lines) : Owner(us, i + 1) = Owner(lines, i + 1)
          BY <1>0, <2>0, SectionsNext DEF k
    <3>6. {Owner(us, i + 1) : i \in Sections(us)} =
             {Owner(lines, i + 1) : i \in Sections(lines)} \cup {path}
      <4> HIDE DEF path
      <4> QED BY <3>4, <3>5
    <3>7. Pairs(us) = Pairs(lines) /\ \A i \in Pairs(lines) : Owner(us, i) = Owner(lines, i)
          BY <1>0, PairsNext
    <3>8. SectionsRead(q, us, m)
      <4> HIDE DEF path
      <4>1. q.sections = {<<>>} \cup {Owner(us, i + 1) : i \in Sections(us)}
            BY <1>0, <3>2, <3>6 DEF SectionsRead
      <4> QED BY <1>0, <3>2, <3>4, <3>7, <4>1 DEF SectionsRead
    <3> QED BY <2>2, <2>4, <3>2, <3>3, <3>8 DEF q, FileInv, NoError
  <2> QED BY <2>3, <2>4
<1> QED BY <1>5, <1>6

\* Only one value can be continued.
LEMMA OnlyOneOpen ==
    ASSUME NEW lines, NEW n, HasLines(lines, n), NEW i \in Pairs(lines), NEW j \in Pairs(lines),
           IsOpen(lines, i, n), IsOpen(lines, j, n)
    PROVE  i = j
<1>1. n \in Nat /\ i \in 1 .. n /\ j \in 1 .. n /\ lines[i].kind = "pair" /\ lines[j].kind = "pair"
      BY DEF HasLines, Pairs
<1>2. CASE i < j
  <2>1. j \in i + 1 .. n
        BY <1>1, <1>2
  <2> QED BY <1>1, <2>1 DEF IsOpen
<1>3. CASE j < i
  <2>1. i \in j + 1 .. n
        BY <1>1, <1>3
  <2> QED BY <1>1, <2>1 DEF IsOpen
<1> QED BY <1>1, <1>2, <1>3

\* A continuation: accepted if and only if a value is open, which gets its text.
LEMMA ContinueStep ==
    ASSUME NEW E, NEW p, NEW us, NEW m, NEW lines, NEW n, NEW x,
           Ready(E, p, us, m, lines, n, x), x.kind = "+", NoError(p)
    PROVE  /\ NoError(Continue(p, x)) <=> LineFits(lines, m, x)
           /\ LineFits(lines, m, x) => FileInv(Continue(p, x), us, m)
<1> DEFINE q == Continue(p, x)
<1>1. /\ p \in ParserStates(E) /\ Grown(us, m, lines, n, x) /\ Filled(lines, n)
      /\ ValuesRead(p, lines) /\ KeyRead(p, lines, n) /\ PlacesDiffer(lines)
      BY DEF Ready, FileInv
<1>2. /\ n \in Nat /\ m = n + 1 /\ us[m] = x /\ HasLines(us, m) /\ HasLines(lines, n)
      /\ \A i \in 1 .. n : us[i] = lines[i]
      BY <1>1 DEF Grown, HasLines
<1>3. LineFits(lines, m, x) <=> n > 0 /\ Continues(lines, n)
  <2>1. m - 1 = n /\ (m > 1 <=> n > 0)
        BY <1>2
  <2> QED BY <2>1 DEF LineFits
<1>4. CASE ~ LineFits(lines, m, x)
  <2>1. p.lastKey = ""
        BY <1>1, <1>3, <1>4 DEF KeyRead
  <2>2. q = err(p, "no key to append to")
        BY <2>1 DEF Continue
  <2>3. q.error # ""
        BY <1>1, <2>2 DEF err, ParserStates
  <2> QED BY <1>4, <2>3 DEF NoError
<1>5. CASE LineFits(lines, m, x)
  <2>1. /\ p.lastKey # ""
        /\ \E i \in Pairs(lines) : /\ lines[i].key = p.lastKey /\ Owner(lines, i) = p.level
                                   /\ IsOpen(lines, i, n)
        BY <1>1, <1>3, <1>5 DEF KeyRead
  <2>2. PICK i \in Pairs(lines) : /\ lines[i].key = p.lastKey /\ Owner(lines, i) = p.level
                                  /\ IsOpen(lines, i, n)
        BY <2>1
  <2> DEFINE r == <<p.level, p.lastKey>>
             v == [p.values EXCEPT ![r] = Append(@, x.text)]
  <2>3. r = Place(lines, i)
        BY <2>2 DEF Place
  <2>4. q = [p EXCEPT !.values = v]
        BY <1>1, <2>1 DEF Continue, ParserStates
  <2>5. /\ q.level = p.level /\ q.sections = p.sections /\ q.values = v
        /\ q.lastKey = p.lastKey /\ q.error = p.error
    <3> HIDE DEF v
    <3> QED BY <1>1, <2>4 DEF ParserStates
  <2> HIDE DEF q, r
  <2>6. SectionsRead(q, us, m)
        BY <2>5, NoSectionMore
  <2>7. /\ Pairs(us) = Pairs(lines) /\ Pairs(lines) \subseteq 1 .. n
        /\ \A j \in Pairs(lines) : Place(us, j) = Place(lines, j) /\ Owner(us, j) = Owner(lines, j)
        BY <1>1, PairsNext
  <2>8. ValuesRead(q, us)
    <3>1. /\ DOMAIN v = DOMAIN p.values
          /\ \A a \in DOMAIN p.values : v[a] = IF a = r THEN Append(p.values[a], x.text)
                                               ELSE p.values[a]
      <4>1. p.values = [a \in DOMAIN p.values |-> p.values[a]]
        <5>1. PICK A \in SUBSET (Paths(E) \X Keys(E)) : p.values \in [A -> Texts(E)]
              BY <1>1 DEF ParserStates, ValueMaps
        <5> QED BY <5>1
      <4> QED BY <4>1
    <3>2. DOMAIN v = {Place(us, j) : j \in Pairs(us)}
          BY <1>1, <2>7, <3>1 DEF ValuesRead
    <3>3. ASSUME NEW j \in Pairs(lines) PROVE v[Place(us, j)] = ValueOf(us, j)
      <4> DEFINE a == Place(lines, j)
      <4>1. a \in DOMAIN p.values /\ p.values[a] = ValueOf(lines, j) /\ Place(us, j) = a
            BY <1>1, <2>7 DEF ValuesRead
      <4>2. CASE j = i
        <5>1. ValueOf(us, j) = Append(ValueOf(lines, j), x.text)
              BY <1>1, <2>2, <2>7, <4>2, ValueGrows
        <5> QED BY <2>3, <3>1, <4>1, <4>2, <5>1
      <4>3. CASE j # i
        <5>1. ~ IsOpen(lines, j, n)
              BY <1>2, <2>2, <4>3, OnlyOneOpen
        <5>2. ValueOf(us, j) = ValueOf(lines, j)
              BY <1>1, <2>7, <5>1, ValueStays
        <5>3. a # r
              BY <1>1, <2>3, <4>3 DEF PlacesDiffer
        <5> HIDE DEF a
        <5> QED BY <3>1, <4>1, <5>2, <5>3
      <4> QED BY <4>2, <4>3
    <3> QED BY <2>5, <2>7, <3>2, <3>3 DEF ValuesRead
  <2>9. KeyRead(q, us, m)
    <3>1. m > 0 /\ Continues(us, m)
      <4>1. m > 0
            BY <1>2
      <4>2. us[m].kind = "+"
            BY <1>2
      <4> QED BY <4>1, <4>2 DEF Continues
    <3>2. i \in Pairs(us) /\ us[i].key = q.lastKey /\ Owner(us, i) = q.level
          BY <1>2, <2>2, <2>5, <2>7
    <3>3. IsOpen(us, i, m)
      <4>1. i \in 1 .. n
            BY <2>7
      <4>2. \A k \in i + 1 .. m : k = m \/ (k \in i + 1 .. n /\ k \in 1 .. n)
            BY <1>2, <4>1
      <4> QED BY <1>2, <2>2, <4>2 DEF IsOpen
    <3>4. q.lastKey # ""
          BY <2>1, <2>5
    <3> QED BY <3>1, <3>2, <3>3, <3>4 DEF KeyRead
  <2> QED BY <1>5, <2>5, <2>6, <2>8, <2>9 DEF FileInv, NoError, q
<1> QED BY <1>4, <1>5

\* A pair: accepted if and only if its place is free, which gets its value.
LEMMA PairStep ==
    ASSUME NEW E, NEW p, NEW us, NEW m, NEW lines, NEW n, NEW x,
           Ready(E, p, us, m, lines, n, x), x.kind = "pair", NoError(p)
    PROVE  /\ NoError(KeyValue(p, x)) <=> LineFits(lines, m, x)
           /\ LineFits(lines, m, x) => FileInv(KeyValue(p, x), us, m)
<1> DEFINE q == KeyValue(p, x)
           r == <<p.level, x.key>>
           v == [a \in DOMAIN p.values \cup {r} |-> IF a = r THEN <<x.text>> ELSE p.values[a]]
<1>1. /\ p \in ParserStates(E) /\ Grown(us, m, lines, n, x) /\ Filled(lines, n)
      /\ ValuesRead(p, lines) /\ SectionsRead(p, lines, n)
      BY DEF Ready, FileInv
<1>2. /\ n \in Nat /\ m = n + 1 /\ us[m] = x /\ HasLines(us, m)
      BY <1>1 DEF Grown, HasLines
<1>3. r = <<Owner(lines, m), x.key>>
      BY <1>1, <1>2 DEF SectionsRead
<1>4. LineFits(lines, m, x) <=> r \notin DOMAIN p.values
  <2>1. LineFits(lines, m, x) <=> \A i \in Pairs(lines) : Place(lines, i) # r
        BY <1>3 DEF LineFits
  <2> HIDE DEF r
  <2> QED BY <1>1, <2>1 DEF ValuesRead
<1>5. CASE ~ LineFits(lines, m, x)
  <2>1. q = err(p, "duplicated key found")
        BY <1>4, <1>5 DEF KeyValue
  <2>2. q.error # ""
        BY <1>1, <2>1 DEF err, ParserStates
  <2> QED BY <1>5, <2>2 DEF NoError
<1>6. CASE LineFits(lines, m, x)
  <2>1. q = [p EXCEPT !.lastKey = x.key, !.values = v]
        BY <1>1, <1>4, <1>6 DEF KeyValue, ParserStates
  <2>2. /\ q.level = p.level /\ q.sections = p.sections /\ q.values = v
        /\ q.lastKey = x.key /\ q.error = p.error
    <3> HIDE DEF v
    <3> QED BY <1>1, <2>1 DEF ParserStates
  <2> HIDE DEF q
  <2>3. SectionsRead(q, us, m)
        BY <2>2, NoSectionMore
  <2>4. /\ Pairs(us) = Pairs(lines) \cup {m} /\ Pairs(lines) \subseteq 1 .. n
        /\ \A j \in Pairs(lines) : Place(us, j) = Place(lines, j)
        /\ Place(us, m) = r /\ Owner(us, m) = p.level
        BY <1>1, <1>2, <1>3, PairsNext DEF SectionsRead
  <2>5. ValuesRead(q, us)
    <3> HIDE DEF r
    <3>1. DOMAIN v = {Place(us, j) : j \in Pairs(us)}
          BY <1>1, <2>4 DEF ValuesRead
    <3>2. ASSUME NEW j \in Pairs(us) PROVE v[Place(us, j)] = ValueOf(us, j)
      <4>1. CASE j = m
        <5>1. ValueOf(us, m) = <<us[m].text>>
              BY <1>2, ValueBegins
        <5> QED BY <1>2, <2>4, <4>1, <5>1
      <4>2. CASE j \in Pairs(lines)
        <5>1. ValueOf(us, j) = ValueOf(lines, j)
              BY <1>1, <2>4, <4>2, ValueStays
        <5>2. Place(lines, j) \in DOMAIN p.values /\ p.values[Place(lines, j)] = ValueOf(lines, j)
              BY <1>1, <4>2 DEF ValuesRead
        <5> DEFINE a == Place(lines, j)
        <5>3. a # r /\ Place(us, j) = a
              BY <1>4, <1>6, <2>4, <4>2, <5>2
        <5> HIDE DEF a
        <5> QED BY <5>1, <5>2, <5>3 DEF a
      <4> QED BY <2>4, <4>1, <4>2
    <3> QED BY <2>2, <3>1, <3>2 DEF ValuesRead
  <2>6. KeyRead(q, us, m)
    <3>1. m > 0 /\ us[m].kind = "pair" /\ us[m].key = q.lastKey
          BY <1>2, <2>2
    <3>2. Continues(us, m) <=> q.lastKey # ""
          BY <3>1 DEF Continues
    <3>3. m \in Pairs(us) /\ Owner(us, m) = q.level
          BY <2>2, <2>4
    <3>4. IsOpen(us, m, m)
          BY <1>2 DEF IsOpen
    <3> QED BY <3>1, <3>2, <3>3, <3>4 DEF KeyRead
  <2> QED BY <1>6, <2>2, <2>3, <2>5, <2>6 DEF FileInv, NoError, q
<1> QED BY <1>5, <1>6

\* A line that fits is read, any other is an error.
LEMMA LineStep ==
    ASSUME NEW E, IsLines(E), NEW p, NEW us, NEW m, NEW lines, NEW n, NEW x \in E,
           Ready(E, p, us, m, lines, n, x), NoError(p), NEW q, q = parseLine(p, x)
    PROVE  /\ NoError(q) <=> LineFits(lines, m, x)
           /\ LineFits(lines, m, x) => FileInv(q, us, m)
<1>1. x.kind \in LineKinds
      BY DEF IsLines
<1>2. CASE x.kind \in {"blank", "comment"}
  <2>1. q = Skipped(p)
        BY <1>2 DEF parseLine, NoError
  <2>2. LineFits(lines, m, x)
        BY <1>2 DEF LineFits
  <2> QED BY <1>2, <2>1, <2>2, SkippedStep DEF NoError
<1>3. CASE x.kind = "+"
  <2>1. q = Continue(p, x)
        BY <1>3 DEF parseLine, NoError
  <2> QED BY <1>3, <2>1, ContinueStep
<1>4. CASE x.kind = "section"
  <2>1. q = Section(p, x)
        BY <1>4 DEF parseLine, NoError
  <2> QED BY <1>4, <2>1, SectionStep
<1>5. CASE x.kind = "pair"
  <2>1. q = KeyValue(p, x)
        BY <1>5 DEF parseLine, NoError
  <2> QED BY <1>5, <2>1, PairStep
<1>6. CASE x.kind \in {"white", "word"}
  <2>1. q = err(p, "no '=' found")
        BY <1>6 DEF parseLine, NoError
  <2>2. ~ NoError(q)
        BY <2>1 DEF err, Ready, ParserStates, NoError
  <2>3. ~ LineFits(lines, m, x)
        BY <1>6 DEF LineFits
  <2> QED BY <2>2, <2>3
<1> QED BY <1>1, <1>2, <1>3, <1>4, <1>5, <1>6 DEF LineKinds

\* How parse goes on after some lines, for all files.
LEMMA FilesAreParsed ==
    ASSUME NEW E, IsLines(E)
    PROVE  \A lines \in Seq(E) :
              /\ NoError(parse(lines)) <=> IsRead(lines)
              /\ NoError(parse(lines)) => FileInv(parse(lines), lines, Len(lines))
<1> DEFINE Parsed(p, lines, n) == /\ NoError(p) <=> IsRead(lines)
                                  /\ NoError(p) => FileInv(p, lines, n)
           T == {lines \in Seq(E) : Parsed(parse(lines), lines, Len(lines))}
<1>1. /\ parse(<<>>) = Top
      /\ \A s \in Seq(E), x \in E :
            parse(s) \in ParserStates(E) /\ parse(Append(s, x)) = parseLine(parse(s), x)
      BY ParseFold
<1>2. <<>> \in T
  <2> DEFINE e == <<>>
  <2>1. DOMAIN e = {} /\ Len(e) = 0 /\ e \in Seq(E)
        OBVIOUS
  <2>2. Sections(e) = {} /\ Pairs(e) = {}
        BY <2>1 DEF Sections, Pairs
  <2>3. AnyBefore(e, 0 + 1) = {}
        BY DEF AnyBefore
  <2>4. Depth(e, 0 + 1) = 0
        BY <2>3 DEF Depth
  <2>5. Owner(e, 0 + 1) = <<>>
    <3>1. [d \in 1 .. 0 |-> e[Max(Before(e, 0 + 1, d))].name] = <<>>
          OBVIOUS
    <3> QED BY <2>4, <3>1 DEF Owner
  <2>6. /\ Top.level = <<>> /\ Top.lastKey = "" /\ Top.sections = {<<>>}
        /\ DOMAIN Top.values = {} /\ Top.error = ""
        BY DEF Top
  <2> HIDE DEF e
  <2>7. FileInv(Top, e, 0)
    <3>1. SectionsRead(Top, e, 0)
          BY <2>2, <2>5, <2>6 DEF SectionsRead
    <3>2. ValuesRead(Top, e)
          BY <2>2, <2>6 DEF ValuesRead
    <3>3. KeyRead(Top, e, 0)
      <4>1. ~ (0 > 0)
            OBVIOUS
      <4> QED BY <2>6, <4>1, Zenon DEF KeyRead
    <3> QED BY <3>1, <3>2, <3>3 DEF FileInv
  <2>8. IsRead(e)
        BY <2>1, <2>2 DEF IsRead, IsIniFile
  <2>9. NoError(Top)
        BY <2>6 DEF NoError
  <2>10. Parsed(parse(e), e, Len(e))
    <3>1. parse(e) = Top
          BY <1>1 DEF e
    <3> QED BY <2>1, <2>7, <2>8, <2>9, <3>1
  <2> QED BY <2>1, <2>10 DEF e
<1>3. ASSUME NEW lines \in Seq(E), NEW x \in E, lines \in T PROVE Append(lines, x) \in T
  <2> DEFINE us == Append(lines, x)
             n == Len(lines)
             m == n + 1
             p == parse(lines)
             q == parse(us)
  <2>1. us = Append(lines, x) /\ n = Len(lines) /\ m = n + 1 /\ us \in Seq(E) /\ Len(us) = m
        OBVIOUS
  <2>2. p \in ParserStates(E) /\ q = parseLine(p, x)
        BY <1>1
  <2>3. Parsed(p, lines, n)
        BY <1>3
  <2> HIDE DEF us, n, m, p, q
  <2>4. Grown(us, m, lines, n, x)
        BY <2>1, LinesGrow
  <2>5. Stepwise(lines) => Filled(lines, n)
        BY <2>1, StepwiseIsFilled
  <2>6. IsRead(us) <=> IsRead(lines) /\ LineFits(lines, m, x)
        BY <2>4, <2>5, IniFileNext
  <2>7. CASE ~ NoError(p)
    <3>1. q = p
          BY <2>2, <2>7 DEF parseLine, NoError
    <3>2. Parsed(q, us, m)
          BY <2>3, <2>6, <2>7, <3>1
    <3> QED BY <2>1, <3>2 DEF q, us
  <2>8. CASE NoError(p)
    <3>1. IsRead(lines) /\ FileInv(p, lines, n)
          BY <2>3, <2>8
    <3>2. PlacesDiffer(lines) /\ Stepwise(lines)
          BY <3>1 DEF IsRead, IsIniFile, PlacesDiffer, Stepwise
    <3>3. Ready(E, p, us, m, lines, n, x)
          BY <2>2, <2>4, <2>5, <3>1, <3>2 DEF Ready
    <3>4. /\ NoError(q) <=> LineFits(lines, m, x)
          /\ LineFits(lines, m, x) => FileInv(q, us, m)
          BY <2>2, <2>8, <3>3, LineStep
    <3>5. Parsed(q, us, m)
          BY <2>6, <3>1, <3>4
    <3> QED BY <2>1, <3>5 DEF q, us
  <2> QED BY <2>7, <2>8
<1> HIDE DEF T
<1>4. \A lines \in Seq(E) : lines \in T
      BY <1>2, <1>3, SeqInduction
<1> QED BY <1>4 DEF T

\* Whatever the lines: Ini::Parser refuses the malformed files and, among the
\* files without a line of white space, only those.  It gives each value of the
\* files it accepts its section, with its continuation lines.
THEOREM FilesAreRead ==
    ASSUME NEW E, IsLines(E), NEW lines \in Seq(E)
    PROVE  ReadsFile(lines)
<1> DEFINE p == parse(lines)
<1>1. (NoError(p) <=> IsRead(lines)) /\ (NoError(p) => ValuesRead(p, lines))
      BY FilesAreParsed DEF FileInv
<1> HIDE DEF p
<1>2. \A n \in DOMAIN lines : lines[n].kind = "white" => lines[n] = White
      BY ElementOf DEF IsLines
<1>3. White \notin ToSet(lines) => \A n \in DOMAIN lines : lines[n].kind # "white"
      BY <1>2 DEF ToSet
<1> QED BY <1>1, <1>3, Zenon DEF ReadsFile, IsRead, NoError, ValuesRead, p

\* A file with a line of white space only is refused, whatever its other lines
\* are: trim leaves the line as it is, and the parser, which means to skip lines
\* without content, misses the "=" in it.
THEOREM WhiteLinesAreRefused ==
    ASSUME NEW E, IsLines(E), NEW lines \in Seq(E), White \in ToSet(lines)
    PROVE  parse(lines).error # ""
<1>1. PICK n \in DOMAIN lines : lines[n] = White
      BY DEF ToSet
<1>2. White.kind = "white"
      BY DEF White
<1>3. ~ IsRead(lines)
      BY <1>1, <1>2 DEF IsRead
<1> QED BY <1>3, FilesAreParsed DEF NoError

-----------------------------------------------------------------------------

\* The lines of the runs.
FileLines == Lines \cup ToSet(BaseFile)
FileRuns == kind = "file" => input \in Seq(FileLines)

\* A file with a line inserted.
LEMMA InsertIsSeq ==
    ASSUME NEW E, NEW s \in Seq(E), NEW n \in 1 .. Len(s) + 1, NEW l \in E
    PROVE  InsertAt(s, n, l) \in Seq(E)
<1>1. SubSeq(s, 1, n - 1) \in Seq(E) /\ SubSeq(s, n, Len(s)) \in Seq(E) /\ <<l>> \in Seq(E)
      OBVIOUS
<1> QED BY <1>1 DEF InsertAt

\* A file without one of its lines.
LEMMA RemoveIsSeq ==
    ASSUME NEW E, NEW s \in Seq(E), NEW n \in DOMAIN s
    PROVE  RemoveAt(s, n) \in Seq(E)
<1>1. n \in 1 .. Len(s) /\ Len(s) \in Nat
      OBVIOUS
<1>2. SubSeq(s, 1, n - 1) \in Seq(E) /\ SubSeq(s, n + 1, Len(s)) \in Seq(E)
      BY <1>1
<1> QED BY <1>2 DEF RemoveAt

\* Every step keeps the files of the runs such.
LEMMA FileStep == FileRuns /\ [Next]_vars => FileRuns'
<1> SUFFICES ASSUME FileRuns, [Next]_vars, kind' = "file" PROVE input' \in Seq(FileLines)
    BY DEF FileRuns
<1>1. CASE AddLine
  <2>1. PICK n \in 1 .. Len(input) + 1, l \in Lines :
           kind = "file" /\ input' = InsertAt(input, n, l)
        BY <1>1 DEF AddLine, Grow
  <2>2. input \in Seq(FileLines) /\ l \in FileLines
        BY <2>1 DEF FileRuns, FileLines
  <2> QED BY <2>1, <2>2, InsertIsSeq
<1>2. CASE DropLine
  <2>1. PICK n \in DOMAIN input : kind = "file" /\ input' = RemoveAt(input, n)
        BY <1>2 DEF DropLine, Grow
  <2>2. input \in Seq(FileLines)
        BY <2>1 DEF FileRuns
  <2> QED BY <2>1, <2>2, RemoveIsSeq
<1>3. CASE UNCHANGED vars
      BY <1>3 DEF FileRuns, vars
<1>4. ~ (GrowText \/ GrowUri \/ AddColumn \/ ChooseField \/ ChooseGeometry \/ AddMember)
      BY DEF GrowText, GrowUri, AddColumn, ChooseField, ChooseGeometry, AddMember, Grow
<1> QED BY <1>1, <1>2, <1>3, <1>4 DEF Next

\* The file that the changes begin with.
LEMMA FileStarts == Init => FileRuns
<1> SUFFICES ASSUME Init, kind = "file" PROVE input \in Seq(FileLines)
    BY DEF FileRuns
<1>1. input = BaseFile
      BY DEF Init
<1>2. BaseFile \in Seq(ToSet(BaseFile))
      BY DEF BaseFile, ToSet
<1>3. ASSUME NEW S, NEW R, NEW s \in Seq(S), S \subseteq R PROVE s \in Seq(R)
  <2>1. s \in [1 .. Len(s) -> S] /\ Len(s) \in Nat
        OBVIOUS
  <2>2. s \in [1 .. Len(s) -> R]
        BY <1>3, <2>1
  <2> QED BY <2>1, <2>2
<1>4. ToSet(BaseFile) \subseteq FileLines
      BY DEF FileLines
<1> QED BY <1>1, <1>2, <1>3, <1>4

\* The lines of the runs are lines.
LEMMA FileLinesAreLines == IsLines(FileLines)
<1>1. ASSUME NEW k, NEW t PROVE Pair(k, t).kind = "pair"
      BY DEF Pair
<1>2. ASSUME NEW d \in Nat \ {0}, NEW n PROVE Sec(d, n).kind = "section" /\ Sec(d, n).depth \in Nat \ {0}
      BY DEF Sec
<1>3. /\ Blank.kind = "blank" /\ Comment.kind = "comment" /\ White.kind = "white"
      /\ Word.kind = "word" /\ More("t").kind = "+"
      BY DEF Blank, Comment, White, Word, More
<1>4. ASSUME NEW l \in FileLines
      PROVE  \/ l \in {Blank, Comment, White, Word, More("t")}
             \/ \E d \in {1, 2, 3} : \E n : l = Sec(d, n)
             \/ \E k, t : l = Pair(k, t)
  <2>1. CASE l \in Lines
        BY <2>1, Zenon DEF Lines
  <2>2. CASE l \in ToSet(BaseFile)
        BY <2>2 DEF BaseFile, ToSet
  <2> QED BY <2>1, <2>2 DEF FileLines
<1>5. \A d \in {1, 2, 3} : d \in Nat \ {0}
      OBVIOUS
<1>6. ASSUME NEW l \in FileLines
      PROVE  /\ l.kind \in LineKinds
             /\ l.kind = "section" => l.depth \in Nat \ {0}
             /\ l.kind = "white" => l = White
  <2>1. CASE l \in {Blank, Comment, White, Word, More("t")}
        BY <1>3, <2>1 DEF LineKinds
  <2>2. CASE \E d \in {1, 2, 3} : \E n : l = Sec(d, n)
        BY <1>2, <1>5, <2>2 DEF LineKinds
  <2>3. CASE \E k, t : l = Pair(k, t)
        BY <1>1, <2>3 DEF LineKinds
  <2> QED BY <1>4, <2>1, <2>2, <2>3
<1> QED BY <1>6 DEF IsLines

\* Ini::Parser reads every file as it is written, for all the files that the
\* runs make of an accepted one, by any number of changes.
THEOREM IniFilesAreRead == Spec => []IniReadsFile
<1>1. FileRuns => IniReadsFile
      BY FilesAreRead, FileLinesAreLines DEF FileRuns, IniReadsFile
<1> QED BY <1>1, FileStarts, FileStep, PTL DEF Spec

-----------------------------------------------------------------------------
(* Configurations that are accepted                                        *)

\* The options with a positive number, if given, are known to be positive.
LEMMA PositiveOption ==
    ASSUME NEW tree, Accepted(tree), NEW o \in {"num_worker_threads", "max_age_done_jobs"},
           "MAIN" \in DOMAIN tree.sections, o \in DOMAIN tree.sections["MAIN"]
    PROVE  valueToInt(tree.sections["MAIN"][o]) >= 1
<1>1. SectionOk("MAIN", tree.sections["MAIN"])
      BY DEF Accepted
<1>2. Options["MAIN"][o] = "positive"
      BY DEF Options
<1>3. ValueOk("positive", tree.sections["MAIN"][o])
      BY <1>1, <1>2 DEF SectionOk
<1> QED BY <1>3 DEF ValueOk, PositiveOk

\* Whatever the file: a configuration that is accepted has at least one
\* worker, keeps done jobs for a while, and has for every layer the settings
\* that a pull relies on.
THEOREM AcceptedIsUsable ==
    ASSUME NEW tree, Accepted(tree)
    PROVE  /\ Settings(tree).num_worker_threads >= 1
           /\ Settings(tree).max_age_done_jobs >= 1
           /\ Settings(tree).db_connection_string # <<"">>
           /\ \A l \in Settings(tree).layers, o \in Mandatory :
                 o \in DOMAIN tree.layers[l] /\ tree.layers[l][o] # <<"">>
<1> DEFINE main == IF "MAIN" \in DOMAIN tree.sections THEN tree.sections["MAIN"] ELSE <<>>
<1>1. /\ Settings(tree).num_worker_threads = IntOption(main, "num_worker_threads", 2)
      /\ Settings(tree).max_age_done_jobs = IntOption(main, "max_age_done_jobs", 600)
      /\ Settings(tree).layers = {l \in DOMAIN tree.layers : Layer(tree.layers[l]).enabled}
      BY DEF Settings
<1>2. \A o \in {"num_worker_threads", "max_age_done_jobs"} :
         o \in DOMAIN main => valueToInt(main[o]) >= 1
      BY PositiveOption
<1> HIDE DEF main
<1>3. IntOption(main, "num_worker_threads", 2) >= 1
      BY <1>2 DEF IntOption
<1>4. IntOption(main, "max_age_done_jobs", 600) >= 1
      BY <1>2 DEF IntOption
<1>5. \A l \in Settings(tree).layers, o \in Mandatory :
         o \in DOMAIN tree.layers[l] /\ tree.layers[l][o] # <<"">>
      BY <1>1 DEF Accepted, LayerOk
<1>6. Settings(tree).db_connection_string # <<"">>
      BY DEF Accepted
<1>7. Settings(tree).num_worker_threads >= 1
      BY <1>1, <1>3
<1>8. Settings(tree).max_age_done_jobs >= 1
      BY <1>1, <1>4
<1> QED BY <1>5, <1>6, <1>7, <1>8, Zenon

\* The values of a section in the tree.
ValuesOf(p, path) ==
    [o \in {q[2] : q \in {r \in DOMAIN p.values : r[1] = path}} |->
        p.values[<<path, o>>]]
Inside(p, path) == {Last(q) : q \in {r \in p.sections : r # <<>> /\ Front(r) = path}}

\* The sections and the layers of the tree.
LEMMA TreeParts ==
    ASSUME NEW p
    PROVE  /\ Tree(p).sections = [s \in Inside(p, <<>>) |-> ValuesOf(p, <<s>>)]
           /\ Tree(p).layers = [l \in Inside(p, <<"LAYERS">>) |-> ValuesOf(p, <<"LAYERS", l>>)]
BY DEF Tree, ValuesOf, Inside

\* The tree has what is written in the file.
LEMMA TreeIsWritten ==
    ASSUME NEW lines, PlacesDiffer(lines), NEW p, ValuesRead(p, lines), NEW path, NEW o
    PROVE  /\ o \in DOMAIN ValuesOf(p, path) <=>
                 \E i \in Pairs(lines) : Place(lines, i) = <<path, o>>
           /\ Written(lines, path, o) = IF o \in DOMAIN ValuesOf(p, path)
                                        THEN {ValuesOf(p, path)[o]} ELSE {}
<1> DEFINE V == ValuesOf(p, path)
           r == <<path, o>>
           I == {m \in Pairs(lines) : Place(lines, m) = r}
<1>1. Written(lines, path, o) = {ValueOf(lines, i) : i \in I}
      BY DEF Written
<1>2. DOMAIN V = {q[2] : q \in {s \in DOMAIN p.values : s[1] = path}}
      BY DEF ValuesOf
<1>3. \A i \in Pairs(lines) : Place(lines, i) = <<Place(lines, i)[1], Place(lines, i)[2]>>
      BY DEF Place
<1>4. DOMAIN p.values = {Place(lines, i) : i \in Pairs(lines)}
      BY DEF ValuesRead
<1>5. o \in DOMAIN V <=> \E i \in Pairs(lines) : Place(lines, i) = r
  <2>1. ASSUME o \in DOMAIN V PROVE \E i \in Pairs(lines) : Place(lines, i) = r
    <3>1. PICK q \in DOMAIN p.values : q[1] = path /\ q[2] = o
          BY <1>2, <2>1
    <3>2. PICK i \in Pairs(lines) : q = Place(lines, i)
          BY <1>4
    <3> QED BY <1>3, <3>1, <3>2
  <2>2. ASSUME NEW i \in Pairs(lines), Place(lines, i) = r PROVE o \in DOMAIN V
    <3>1. r \in DOMAIN p.values /\ r[1] = path /\ r[2] = o
          BY <1>4, <2>2
    <3> HIDE DEF r
    <3> QED BY <1>2, <3>1
  <2> QED BY <2>1, <2>2
<1>6. ASSUME NEW i \in Pairs(lines), Place(lines, i) = r PROVE V[o] = ValueOf(lines, i) /\ I = {i}
  <2>1. o \in DOMAIN V
        BY <1>5, <1>6
  <2>2. V[o] = p.values[r]
        BY <2>1 DEF ValuesOf
  <2>3. p.values[r] = ValueOf(lines, i)
        BY <1>6 DEF ValuesRead
  <2>4. I = {i}
        BY <1>6 DEF PlacesDiffer
  <2> QED BY <2>2, <2>3, <2>4
<1> HIDE DEF V, r
<1>7. CASE o \in DOMAIN V
  <2>1. PICK i \in Pairs(lines) : Place(lines, i) = r
        BY <1>5, <1>7
  <2>2. {ValueOf(lines, j) : j \in I} = {V[o]}
        BY <1>6, <2>1
  <2> QED BY <1>1, <1>5, <1>7, <2>2 DEF V, r
<1>8. CASE o \notin DOMAIN V
  <2>1. I = {}
        BY <1>5, <1>8
  <2> QED BY <1>1, <1>5, <1>8, <2>1 DEF V, r
<1> QED BY <1>7, <1>8

\* A path of one name, and a path of two.
LEMMA ShortPaths ==
    ASSUME NEW S, NEW q \in Seq(S)
    PROVE  /\ Len(q) \in {0, 1, 2} \/ Len(q) > 2
           /\ Len(q) = 1 => q = <<q[1]>> /\ q # <<>> /\ Front(q) = <<>> /\ Last(q) = q[1]
           /\ Len(q) = 2 => q = <<q[1], q[2]>> /\ q # <<>> /\ Front(q) = <<q[1]>> /\ Last(q) = q[2]
<1> DEFINE k == Len(q)
<1>1. k \in Nat /\ (q # <<>> => k # 0) /\ (k # 0 => q # <<>>)
      OBVIOUS
<1>2. k = 1 => q = <<q[1]>>
      OBVIOUS
<1>3. k = 2 => q = <<q[1], q[2]>>
      OBVIOUS
<1>4. k = 1 => Front(q) = <<>> /\ Last(q) = q[1]
  <2> SUFFICES ASSUME k = 1
               PROVE  Front(q) = <<>> /\ Last(q) = q[1]
      OBVIOUS
  <2>1. Front(q) = SubSeq(q, 1, 0)
        BY DEF Front
  <2>2. SubSeq(q, 1, 0) = <<>>
        OBVIOUS
  <2> QED BY <2>1, <2>2 DEF Last
<1>5. k = 2 => Front(q) = <<q[1]>> /\ Last(q) = q[2]
  <2> SUFFICES ASSUME k = 2
               PROVE  Front(q) = <<q[1]>> /\ Last(q) = q[2]
      OBVIOUS
  <2>1. Front(q) = SubSeq(q, 1, 1)
        BY DEF Front
  <2>2. SubSeq(q, 1, 1) = <<q[1]>>
    <3> DEFINE r == SubSeq(q, 1, 1)
    <3>1. r \in Seq(S) /\ Len(r) = 1 /\ r[1] = q[1]
          OBVIOUS
    <3> HIDE DEF r
    <3>2. r = <<r[1]>>
          BY <3>1
    <3> QED BY <3>1, <3>2 DEF r
  <2> QED BY <2>1, <2>2 DEF Last
<1> HIDE DEF k
<1>6. k \in {0, 1, 2} \/ k > 2
      BY <1>1
<1>7. k = 1 => q # <<>>
      BY <1>1
<1>8. k = 2 => q # <<>>
      BY <1>1
<1> QED BY <1>2, <1>3, <1>4, <1>5, <1>6, <1>7, <1>8, Zenon DEF k

\* The options of a section that is accepted are known, if they are read.
LEMMA OptionsAreKnown ==
    ASSUME NEW E, NEW lines, NEW n, HasLines(lines, n), PlacesDiffer(lines),
           NEW p \in ParserStates(E), FileInv(p, lines, n), Accepted(Tree(p)),
           NEW i \in Pairs(lines)
    PROVE  /\ \A s \in ServerSections :
                 Owner(lines, i) = <<s>> => lines[i].key \in DOMAIN Options[s]
           /\ Len(Owner(lines, i)) = 2 /\ Owner(lines, i)[1] = "LAYERS" =>
                 lines[i].key \in DOMAIN Options.layer
<1> DEFINE path == Owner(lines, i)
           o == lines[i].key
           tree == Tree(p)
<1>1. path \in p.sections /\ path \in Seq(NamesOf(E))
      BY DEF FileInv, SectionsRead, ParserStates, Paths
<1>2. ValuesRead(p, lines) /\ Place(lines, i) = <<path, o>>
      BY DEF FileInv, Place
<1> HIDE DEF path, o, tree
<1>3. o \in DOMAIN ValuesOf(p, path)
      BY <1>2, TreeIsWritten
<1>4. /\ tree.sections = [s \in Inside(p, <<>>) |-> ValuesOf(p, <<s>>)]
      /\ tree.layers = [l \in Inside(p, <<"LAYERS">>) |-> ValuesOf(p, <<"LAYERS", l>>)]
      BY TreeParts DEF tree
<1>5. /\ \A s \in DOMAIN tree.sections :
            s = "LAYERS" \/ (s \in {"HTTP", "MAIN", "LOGGING"} /\ SectionOk(s, tree.sections[s]))
      /\ \A l \in DOMAIN tree.layers : SectionOk("layer", tree.layers[l])
      BY DEF Accepted, LayerOk, tree
<1>6. ASSUME NEW s \in ServerSections, path = <<s>> PROVE o \in DOMAIN Options[s]
  <2>1. path # <<>> /\ Front(path) = <<>> /\ Last(path) = s
    <3>1. Len(path) = 1 /\ path[1] = s
          BY <1>6
    <3> QED BY <1>1, <3>1, ShortPaths
  <2>2. s \in Inside(p, <<>>)
        BY <1>1, <2>1 DEF Inside
  <2>3. s \in DOMAIN tree.sections /\ tree.sections[s] = ValuesOf(p, path)
        BY <1>4, <1>6, <2>2
  <2>4. s # "LAYERS"
        BY DEF ServerSections
  <2> QED BY <1>3, <1>5, <2>3, <2>4 DEF SectionOk
<1>7. ASSUME Len(path) = 2, path[1] = "LAYERS" PROVE o \in DOMAIN Options["layer"]
  <2> DEFINE l == path[2]
  <2>1. path = <<"LAYERS", l>> /\ path # <<>> /\ Front(path) = <<"LAYERS">> /\ Last(path) = l
        BY <1>1, <1>7, ShortPaths
  <2> HIDE DEF l
  <2>2. l \in Inside(p, <<"LAYERS">>)
        BY <1>1, <2>1 DEF Inside
  <2>3. l \in DOMAIN tree.layers /\ tree.layers[l] = ValuesOf(p, path)
        BY <1>4, <2>1, <2>2
  <2> QED BY <1>3, <1>5, <2>3 DEF SectionOk
<1> QED BY <1>6, <1>7 DEF path, o

\* The path of a section that is not nested is its name.
LEMMA PathOfSection ==
    ASSUME NEW lines, NEW n, HasLines(lines, n), NEW i \in Sections(lines), lines[i].depth = 1
    PROVE  Owner(lines, i + 1) = <<lines[i].name>>
<1>1. i \in 1 .. n /\ n \in Nat /\ lines[i].kind = "section"
      BY DEF Sections, HasLines
<1> DEFINE A == AnyBefore(lines, i + 1)
           B == Before(lines, i + 1, 1)
<1>2. A \subseteq 0 .. i /\ i \in A
      BY <1>1 DEF AnyBefore
<1>3. B \subseteq A /\ i \in B
      BY <1>2 DEF Before
<1> HIDE DEF A, B
<1>4. ASSUME NEW P, P \subseteq 0 .. i, i \in P PROVE Max(P) = i
  <2>1. i \in Nat /\ P # {}
        BY <1>1, <1>4
  <2>2. Max(P) \in P /\ \A j \in P : Max(P) >= j
        BY <1>4, <2>1, MaxOfNat
  <2> DEFINE k == Max(P)
  <2> HIDE DEF k
  <2>3. k \in 0 .. i /\ k >= i
        BY <1>4, <2>2 DEF k
  <2>4. k = i
        BY <2>1, <2>3
  <2> QED BY <2>4 DEF k
<1>5. Max(A) = i /\ Max(B) = i
      BY <1>2, <1>3, <1>4
<1>6. Depth(lines, i + 1) = 1
      BY <1>2, <1>5 DEF Depth, A
<1>7. Owner(lines, i + 1) = [d \in 1 .. 1 |-> lines[Max(Before(lines, i + 1, d))].name]
      BY <1>6 DEF Owner
<1>8. [d \in 1 .. 1 |-> lines[Max(Before(lines, i + 1, d))].name] = <<lines[i].name>>
      BY <1>5 DEF B
<1> QED BY <1>7, <1>8

\* The sections of an accepted file that are not nested are known.
LEMMA SectionsAreKnown ==
    ASSUME NEW lines, NEW n, HasLines(lines, n), NEW p, FileInv(p, lines, n), Accepted(Tree(p)),
           NEW i \in Sections(lines), lines[i].depth = 1
    PROVE  lines[i].name \in ServerSections \cup {"LAYERS"}
<1> DEFINE s == lines[i].name
           path == <<s>>
<1>1. path \in p.sections
      BY PathOfSection DEF FileInv, SectionsRead
<1>2. path # <<>> /\ Front(path) = <<>> /\ Last(path) = s
  <2>1. path \in Seq({s}) /\ Len(path) = 1 /\ path[1] = s
        OBVIOUS
  <2> QED BY <2>1, ShortPaths
<1> HIDE DEF s, path
<1>3. s \in Inside(p, <<>>)
      BY <1>1, <1>2 DEF Inside
<1>4. s \in DOMAIN Tree(p).sections
      BY <1>3, TreeParts
<1>5. s \in {"HTTP", "MAIN", "LOGGING", "LAYERS"}
      BY <1>4 DEF Accepted
<1> QED BY <1>5 DEF ServerSections, s

\* A layer deletes, truncates and is disabled only where its lines say so.
LEMMA LayerDoesWhatIsWritten ==
    ASSUME NEW lines, NEW tree, NEW l \in DOMAIN tree.layers,
           \A o : Written(lines, <<"LAYERS", l>>, o) =
                     IF o \in DOMAIN tree.layers[l] THEN {tree.layers[l][o]} ELSE {}
    PROVE  DoesWhatIsWritten(lines, l, tree)
<1> DEFINE v == tree.layers[l]
           layer == Layer(v)
           path == <<"LAYERS", l>>
<1>1. /\ layer.allow_feature_deletion = BoolOption(v, "allow_feature_deletion", FALSE)
      /\ layer.bulk_delete_method = TextOption(v, "bulk_delete_method", <<"delete">>)
      /\ layer.enabled = BoolOption(v, "enabled", TRUE)
      BY DEF Layer
<1>2. l \in Settings(tree).layers <=> layer.enabled
      BY DEF Settings
<1>3. \A o : Written(lines, path, o) = IF o \in DOMAIN v THEN {v[o]} ELSE {}
      OBVIOUS
<1> HIDE DEF v, layer, path
<1>4. layer.allow_feature_deletion =>
         \E t \in Written(lines, path, "allow_feature_deletion") : valueToBool(t)
      BY <1>1, <1>3 DEF BoolOption
<1>5. layer.bulk_delete_method = <<"truncate">> =>
         \E t \in Written(lines, path, "bulk_delete_method") : TrimValue(t) = <<"truncate">>
      BY <1>1, <1>3 DEF TextOption
<1>6. layer.enabled <=> \A t \in Written(lines, path, "enabled") : valueToBool(t)
      BY <1>1, <1>3 DEF BoolOption
<1> QED BY <1>2, <1>4, <1>5, <1>6 DEF DoesWhatIsWritten, v, layer, path

\* Whatever the file: Configuration::parse accepts it only if it can be used,
\* deletes nothing that it does not mention, and has no misspelt section, nor a
\* misspelt option in a section whose options are read.
THEOREM AcceptedIsSound ==
    ASSUME NEW E, IsLines(E), NEW lines \in Seq(E), Loaded(lines)
    PROVE  IsSound(lines)
<1> DEFINE p == parse(lines)
           tree == Tree(p)
           n == Len(lines)
<1>1. NoError(p) /\ Accepted(tree)
      BY DEF Loaded, NoError
<1>2. IsRead(lines) /\ FileInv(p, lines, n)
      BY <1>1, FilesAreParsed
<1>3. PlacesDiffer(lines) /\ ValuesRead(p, lines)
      BY <1>2 DEF IsRead, IsIniFile, PlacesDiffer, FileInv
<1>4. HasLines(lines, n)
  <2>1. n \in Nat /\ DOMAIN lines = 1 .. n /\ \A i \in 1 .. n : lines[i] \in E
        OBVIOUS
  <2> QED BY <2>1 DEF HasLines, IsLines
<1>5. p \in ParserStates(E)
  <2>1. CASE lines = <<>>
        BY <2>1, ParseFold, TopIsState
  <2>2. CASE lines # <<>>
    <3>1. PICK x \in E : TRUE
      <4>1. lines[1] \in E
            BY <2>2
      <4> QED BY <4>1
    <3> QED BY <3>1, ParseFold
  <2> QED BY <2>1, <2>2
<1>6. /\ tree.sections = [s \in Inside(p, <<>>) |-> ValuesOf(p, <<s>>)]
      /\ tree.layers = [l \in Inside(p, <<"LAYERS">>) |-> ValuesOf(p, <<"LAYERS", l>>)]
      BY TreeParts
<1> HIDE DEF p, n
<1>7. NamesAreKnown(lines)
  <2>1. \A i \in Sections(lines) :
           lines[i].depth = 1 => lines[i].name \in ServerSections \cup {"LAYERS"}
        BY <1>1, <1>2, <1>4, SectionsAreKnown
  <2>2. \A i \in Pairs(lines) :
           /\ \A s \in ServerSections :
                 Owner(lines, i) = <<s>> => lines[i].key \in DOMAIN Options[s]
           /\ Len(Owner(lines, i)) = 2 /\ Owner(lines, i)[1] = "LAYERS" =>
                 lines[i].key \in DOMAIN Options.layer
        BY <1>1, <1>2, <1>3, <1>4, <1>5, OptionsAreKnown
  <2> QED BY <2>1, <2>2, Zenon DEF NamesAreKnown
<1> HIDE DEF tree
<1>8. ASSUME NEW l \in DOMAIN tree.layers, NEW o
      PROVE  Written(lines, <<"LAYERS", l>>, o) =
                IF o \in DOMAIN tree.layers[l] THEN {tree.layers[l][o]} ELSE {}
  <2> DEFINE path == <<"LAYERS", l>>
  <2>1. tree.layers[l] = ValuesOf(p, path)
        BY <1>6
  <2> HIDE DEF path
  <2>2. Written(lines, path, o) =
           IF o \in DOMAIN ValuesOf(p, path) THEN {ValuesOf(p, path)[o]} ELSE {}
        BY <1>3, TreeIsWritten
  <2> QED BY <2>1, <2>2 DEF path
<1>9. \A l \in DOMAIN tree.layers : DoesWhatIsWritten(lines, l, tree)
      BY <1>8, LayerDoesWhatIsWritten
<1>10. Usable(lines, Settings(tree))
  <2>1. /\ Settings(tree).num_worker_threads >= 1
        /\ Settings(tree).max_age_done_jobs >= 1
        /\ Settings(tree).db_connection_string # <<"">>
        /\ \A l \in Settings(tree).layers, o \in Mandatory :
              o \in DOMAIN tree.layers[l] /\ tree.layers[l][o] # <<"">>
        BY <1>1, AcceptedIsUsable
  <2>2. Settings(tree).layers \subseteq DOMAIN tree.layers
        BY DEF Settings
  <2>3. ASSUME NEW l \in Settings(tree).layers, NEW o \in Mandatory
        PROVE  \E t \in Written(lines, <<"LAYERS", l>>, o) : t # <<"">>
    <3>1. Written(lines, <<"LAYERS", l>>, o) = {tree.layers[l][o]}
          BY <1>8, <2>1, <2>2
    <3>2. tree.layers[l][o] # <<"">>
          BY <2>1, Zenon
    <3> QED BY <3>1, <3>2, Zenon
  <2> QED BY <2>1, <2>3 DEF Usable
<1> QED BY <1>7, <1>9, <1>10 DEF IsSound, tree, p

\* An accepted configuration does what its lines say, for all the files that
\* the runs make of an accepted one, by any number of changes.
THEOREM AcceptedConfigurationsAreSound == Spec => []AcceptedConfigurationIsSound
<1>1. FileRuns => AcceptedConfigurationIsSound
      BY AcceptedIsSound, FileLinesAreLines DEF FileRuns, AcceptedConfigurationIsSound
<1> QED BY <1>1, FileStarts, FileStep, PTL DEF Spec

=============================================================================
