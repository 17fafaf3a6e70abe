----------------------------- MODULE PullPlan ------------------------------
(***************************************************************************)
(* What Worker::pull decides before and while it fills the temporary       *)
(* table: which columns take part, whether the pull is refused, and how    *)
(* the values of a feature are converted.                                  *)
(*                                                                         *)
(* A table is a sequence of columns [name, geometry, pk], a source has the *)
(* names of its fields and the name of its FID column ("" without one).    *)
(***************************************************************************)
EXTENDS Integers, FiniteSets, StringUtils

Names(columns) == [n \in DOMAIN columns |-> columns[n].name]

Provided(name, source) == name \in source.fields \/ name = source.fid

\* What is inserted for a column: the geometry column is written without a
\* look at the source, and a second time if a field has its name.
Inserted(c, source) ==
    (IF c.geometry THEN <<c.name>> ELSE <<>>)
    \o (IF Provided(c.name, source) THEN <<c.name>> ELSE <<>>)

insertColumns(table, source) ==
    FoldLeft(LAMBDA cs, c : cs \o Inserted(c, source), <<>>, table)

updateColumns(table) ==
    FoldLeft(LAMBDA cs, c : IF c.pk THEN cs ELSE Append(cs, c.name), <<>>, table)

\* primary_key_columns of the layer override the key of the table.
primaryKeyColumns(table, override) ==
    IF override # <<>> THEN override
    ELSE FoldLeft(LAMBDA cs, c : IF c.pk THEN Append(cs, c.name) ELSE cs, <<>>, table)

\* Mutant of Refused: the key is only looked for in the table.
RefusedTable(table, source, override) ==
    \/ Cardinality({c \in ToSet(table) : c.geometry}) > 1
    \/ ~ ToSet(override) \subseteq ToSet(Names(table))
    \/ primaryKeyColumns(table, override) = <<>>

\* The pull throws a WorkerError: more than one geometry column, an
\* overriding key column that the table lacks, no key at all, or a key column
\* that the source does not provide.
Refused(table, source, override) ==
    \/ Cardinality({c \in ToSet(table) : c.geometry}) > 1
    \/ ~ ToSet(override) \subseteq ToSet(Names(table))
    \/ primaryKeyColumns(table, override) = <<>>
    \/ \E k \in ToSet(primaryKeyColumns(table, override)) : ~ Provided(k, source)

\* PostgreSQL executes an insert that names no column twice, and an update
\* that sets something.
Executable(table, source) ==
    /\ IsInjective(insertColumns(table, source))
    /\ updateColumns(table) # <<>>

-----------------------------------------------------------------------------
(* The hint in the message for a source_layer that does not exist.         *)

HighValue == 5000

Closer(best, wanted, name) ==
    IF levenshteinDistance(wanted, name) < best.distance
    THEN [distance |-> levenshteinDistance(wanted, name), match |-> name] ELSE best

closestMatch(wanted, names) ==
    FoldLeft(LAMBDA best, name : Closer(best, wanted, name),
             [distance |-> HighValue, match |-> <<>>], names)

-----------------------------------------------------------------------------
(* Conversion of values.  A field has an OGR type, may be set or not, and  *)
(* has a value.  A time consists of date, time of day and zone.  A real is *)
(* counted in units of the seventh digit after the decimal point.  An int  *)
(* ranges from -MaxInt - 1 to MaxInt (bound for TLC).                      *)

MaxInt == 3

ListTypes == {"IntegerList", "Integer64List", "RealList", "StringList"}

TimeTypes == {"Date", "Time", "DateTime"}

\* getPostgresType throws for all others.
PostgresTypes == ListTypes \cup TimeTypes
                    \cup {"String", "Integer", "Integer64", "Real", "Binary"}

\* OGRFeature::GetFieldAsInteger returns an int.
AsInteger(n) == IF n > MaxInt THEN MaxInt ELSE IF n < - MaxInt - 1 THEN - MaxInt - 1 ELSE n

\* The parts of a time that its format has: never the zone.
TimeText(type, t) ==
    IF type = "Date" THEN [date |-> t.date]
    ELSE IF type = "Time" THEN [time |-> t.time]
    ELSE [date |-> t.date, time |-> t.time]

\* What the text denotes; std::to_string writes six digits of a real.
Converted(f) ==
    IF f.type \in {"Integer", "Integer64"} THEN AsInteger(f.value)
    ELSE IF f.type = "Real" THEN 10 * ((f.value + 5) \div 10)
    ELSE IF f.type \in TimeTypes THEN TimeText(f.type, f.value)
    ELSE f.value

\* The result: a text, NULL or an exception.  Lists are formatted and then run
\* into the case of the unsupported types.  An empty text is NULL in a column
\* of a time type.
convertToString(f, pgTypeName) ==
    IF f.type \in ListTypes \cup {"Binary", "other"} THEN [kind |-> "throw"]
    ELSE IF \/ ~ f.set
            \/ /\ f.type = "String"
               /\ f.value = ""
               /\ pgTypeName \in {"timestamp", "timestampz", "time", "date"}
    THEN [kind |-> "null"]
    ELSE [kind |-> "text", text |-> Converted(f)]

-----------------------------------------------------------------------------
(* Reference systems.  A geometry has a SRID and the system in which its   *)
(* coordinates are; NoSrid says that geometry_columns has no entry.        *)

NoSrid == -555

\* The SRID of the column: that of the last entry in geometry_columns.
getGeometryColumnSRID(entries) == IF entries = <<>> THEN NoSrid ELSE Last(entries)

\* PostGIS: the SRID of a geometry that is read from a text without one.
NativeUndefined(major) == IF major < 2 THEN -1 ELSE 0

\* OGRGeometry::exportToWkb writes the coordinates, but no SRID.
exportToWkb(g, major) == [srid |-> NativeUndefined(major), system |-> g.system]

\* Mutant of getUndefinedSRIDValue: the value of PostGIS 2 for all versions.
getUndefinedSRIDValueNew(major) == 0

getUndefinedSRIDValue(major) == IF major < 2 THEN -1 ELSE 0

\* What the prepared insert makes of a geometry text, for the SRID of the
\* column: take it as it is, mark it as undefined, assign the SRID of the
\* column, or reproject it.
StoredGeometry(t, pgSrid, major) ==
    IF pgSrid = NoSrid THEN t
    ELSE IF pgSrid <= 0 THEN [t EXCEPT !.srid = getUndefinedSRIDValue(major)]
    ELSE IF t.srid = getUndefinedSRIDValue(major) THEN [t EXCEPT !.srid = pgSrid]
    ELSE [srid |-> pgSrid, system |-> pgSrid]

=============================================================================
