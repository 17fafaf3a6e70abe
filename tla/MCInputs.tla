------------------------------ MODULE MCInputs ------------------------------
(***************************************************************************)
(* The algorithms of StringUtils, Routing, IniParser, Configuration,       *)
(* PullPlan and RequestBody for TLC: inputs of each kind grow step by step *)
(* up to a bound, and the results are compared with reference definitions. *)
(***************************************************************************)
EXTENDS Routing, Configuration, PullPlan, RequestBody

CONSTANTS
    MaxText,   \* bound on the length of a text
    MaxUri,    \* bound on the pieces of a URI
    MaxEdits,  \* bound on the changes to a valid configuration file
    MaxTable,  \* bound on the columns of a table
    MaxBody    \* bound on the members of a request

ASSUME BoundsAssumption == {MaxText, MaxUri, MaxEdits, MaxTable, MaxBody} \subseteq Nat

VARIABLES
    kind,   \* what the input is
    input,  \* a sequence of characters, pieces, lines, columns, members ...
    steps   \* how often it was extended

vars == <<kind, input, steps>>

Characters == {"a", "b", " ", ",", "\""}

Pieces == {<<p>> : p \in Endpoints \cup Resources \cup {getJobPath, "hex", "/", ".", "?"}}
             \cup {<<".", "json">>}

Blank == [kind |-> "blank"]
Comment == [kind |-> "comment"]
White == [kind |-> "white"]
Word == [kind |-> "word"]   \* without "="
More(t) == [kind |-> "+", text |-> t]
Sec(d, n) == [kind |-> "section", depth |-> d, name |-> n]
Pair(k, t) == [kind |-> "pair", key |-> k, text |-> t]

\* A file that is accepted.
BaseFile ==
    <<Sec(1, "MAIN"), Pair("dsn", "d"), Sec(1, "LAYERS"), Sec(2, "l"),
      Pair("source", "s"), Pair("source_layer", "s"),
      Pair("target_table_schema", "s"), Pair("target_table_name", "s")>>

Lines ==
    {Blank, Comment, White, Word, More("t")}
    \cup {Sec(1, n) : n \in {"MAIN", "HTTP", "LOGGING", "other"}}
    \cup {Sec(2, "l"), Sec(2, "m"), Sec(3, "x")}
    \cup {Pair("num_worker_threads", t) : t \in {"0", "1", "8080x", "d"}}
    \cup {Pair("max_age_done_jobs", t) : t \in {"-1", "1"}}
    \cup {Pair("port", t) : t \in {"-1", "70000", "d"}}
    \cup {Pair("allow_feature_deletion", t) : t \in {"'yes'", "no", "d"}}
    \cup {Pair("enabled", "no"), Pair("bulk_delete_method", "truncate"),
          Pair("loglevel", "debug"), Pair("dsn", ""), Pair("source", ""), Pair("", "d")}

Columns == [name : {"g", "i", "v"}, geometry : BOOLEAN, pk : BOOLEAN]

Times == [date : {1}, time : {1}, zone : {0, 1}]

Fields ==
    [type : {"Integer"}, set : BOOLEAN, value : - MaxInt - 1 .. MaxInt]
    \cup [type : {"Integer64"}, set : BOOLEAN, value : - MaxInt - 2 .. MaxInt + 1]
    \cup [type : {"Real"}, set : BOOLEAN, value : {0, 10, 25, 70}]
    \cup [type : {"String"}, set : BOOLEAN, value : {"", "a"}]
    \cup [type : TimeTypes, set : BOOLEAN, value : Times]
    \cup [type : ListTypes \cup {"Binary", "other"}, set : {TRUE}, value : {"a"}]

Geometries == [srid : {1, 2}, system : {1, 2}]

Number == [type |-> "number"]
Nothing == [type |-> "null"]
Text(t) == [type |-> "string", text |-> t]
Object(ms) == [type |-> "object", members |-> ms]
Array(es) == [type |-> "array", elements |-> es]
M(n, v) == [name |-> n, value |-> v]

\* Elements of attributeSets: none, one or two attributes, a name given
\* twice, and values of the wrong type.
Values == {Nothing, Number, Text(<<"x">>)}
Elements == {Number, Object(<<>>)}
               \cup {Object(<<M("a", v)>>) : v \in Values}
               \cup {Object(<<M("a", v), M(n, w)>>) :
                       n \in {"a", "b"}, v, w \in Values}

Members ==
    {M("layerName", v) : v \in {Text(<<"a">>), Number}}
    \cup {M("filter", v) : v \in {Text(<<" ", "a">>), Text(<<" ">>), Text(<<>>), Number}}
    \cup {M("attributeSets", v) : v \in {Number, Array(<<>>)} \cup {Array(<<e>>) : e \in Elements}
                                  \cup {Array(<<Object(<<>>), e>>) : e \in Elements}}

Init ==
    /\ kind \in {"text", "uri", "file", "table", "field", "geometry", "body"}
    /\ input = IF kind = "file" THEN BaseFile ELSE IF kind = "uri" THEN <<"/">> ELSE <<>>
    /\ steps = 0

Grow(k, max, extension) ==
    /\ kind = k
    /\ steps < max
    /\ steps' = steps + 1
    /\ input' = extension
    /\ UNCHANGED kind

GrowText == \E c \in Characters : Grow("text", MaxText, Append(input, c))
GrowUri == \E p \in Pieces : Grow("uri", MaxUri, input \o p)
AddLine == \E n \in 1 .. Len(input) + 1, l \in Lines :
              Grow("file", MaxEdits, InsertAt(input, n, l))
DropLine == \E n \in DOMAIN input : Grow("file", MaxEdits, RemoveAt(input, n))
AddColumn == \E c \in Columns :
                /\ kind = "table"
                /\ c.name \notin ToSet(Names(input))
                /\ Grow("table", MaxTable, Append(input, c))
ChooseField == \E f \in Fields : Grow("field", 1, <<f>>)
ChooseGeometry == \E g \in Geometries : Grow("geometry", 1, <<g>>)
AddMember == \E m \in Members : Grow("body", MaxBody, Append(input, m))

Next ==
    \/ GrowText \/ GrowUri
    \/ AddLine \/ DropLine
    \/ AddColumn \/ ChooseField \/ ChooseGeometry
    \/ AddMember

Spec == Init /\ [][Next]_vars

-----------------------------------------------------------------------------
(* Texts                                                                   *)

\* The text s has a character that is not in C.
HasContent(s, C) == ~ ToSet(s) \subseteq C

\* t is what is between the first and the last character of s that is not in C.
Stripped(t, s, C) ==
    /\ t # <<>> /\ {Head(t), Last(t)} \cap C = {}
    /\ \E n \in 0 .. Len(s) - Len(t) :
          /\ SubSeq(s, n + 1, n + Len(t)) = t
          /\ ToSet(SubSeq(s, 1, n) \o SubSeq(s, n + Len(t) + 1, Len(s))) \subseteq C

\* The entries of primary_key_columns: split loses nothing, not even empty
\* elements at the ends, and each entry with a name gives its own column, in
\* the order of the text, without the blanks and quotes around it.  No other
\* column has a name.  Nothing is said of entries of blanks or quotes only,
\* which the code keeps although it means to drop them.
ReadsColumns(text) ==
    LET entries == split(text, ",")
        named == {n \in DOMAIN entries : HasContent(entries[n], trimChars)}
        columns == PrimaryKeyColumns(text)
    IN  /\ join(entries, <<",">>) = text
        /\ \A n \in DOMAIN entries : "," \notin ToSet(entries[n])
        /\ \E place \in [named -> DOMAIN columns] :
              /\ \A m, n \in named : m < n => place[m] < place[n]
              /\ \A n \in named : Stripped(columns[place[n]], entries[n], trimChars)
              /\ \A c \in DOMAIN columns :
                    HasContent(columns[c], trimChars) => \E n \in named : place[n] = c

\* Every text gives the key columns that it names.
KeyColumnsAreNames == kind = "text" => ReadsColumns(input)

\* The edit distance by its definition, over the first p[1] characters of s and
\* the first p[2] of t.
Distance(s, t) ==
    LET d[p \in (0 .. Len(s)) \X (0 .. Len(t))] ==
            IF 0 \in {p[1], p[2]} THEN p[1] + p[2]
            ELSE Min({d[<<p[1] - 1, p[2]>>] + 1, d[<<p[1], p[2] - 1>>] + 1,
                      d[<<p[1] - 1, p[2] - 1>>] + (IF s[p[1]] = t[p[2]] THEN 0 ELSE 1)})
    IN  d[<<Len(s), Len(t)>>]

\* best is one of the names that are closest to the wanted one, unless they
\* are all too far away.
IsClosest(best, wanted, names) ==
    LET distances == {Distance(wanted, name) : name \in ToSet(names)}
    IN  IF \E d \in distances : d < HighValue
        THEN /\ best.match \in ToSet(names)
             /\ best.distance = Distance(wanted, best.match)
             /\ \A d \in distances : best.distance <= d
        ELSE best.distance = HighValue

\* The hint for a missing source_layer names one of the closest layers: the
\* single row that levenshteinDistance overwrites gives the edit distance.
HintIsClosest ==
    kind = "text" =>
        LET names == split(input, ",")
        IN  /\ \A n \in 0 .. Len(input) :
                  LET s == SubSeq(input, 1, n)
                      t == SubSeq(input, n + 1, Len(input))
                  IN  levenshteinDistance(s, t) = Distance(s, t)
            /\ IsClosest(closestMatch(Head(names), Tail(names)), Head(names), Tail(names))

-----------------------------------------------------------------------------
(* URIs                                                                    *)

\* The path of a URI: what precedes the parameters.
Path(uri) ==
    LET P == {n \in DOMAIN uri : uri[n] = "?"}
    IN  SubSeq(uri, 1, IF P = {} THEN Len(uri) ELSE Min(P) - 1)

\* uri leads to the path p, apart from dots and slashes in front of it.
LeadsTo(uri, p) ==
    \E n \in 0 .. Len(Path(uri)) :
        /\ ToSet(SubSeq(uri, 1, n)) \subseteq {".", "/"}
        /\ SubSeq(Path(uri), n + 1, Len(Path(uri))) = p

\* uri gets the handler that its path leads to, for ids out of a set.
FollowsRoutes(uri, ids) ==
    LET handler == createRequestHandler(uri)
    IN  /\ \A e \in Endpoints : handler = e <=> LeadsTo(uri, <<e>>)
        /\ handler = "job" <=>
              \E id \in ids \ {<<>>} : LeadsTo(uri, <<getJobPath>> \o id \o <<".", "json">>)
        /\ handler = "out_of_range" <=> \E id \in ids : LeadsTo(uri, <<getJobPath>> \o id)
        /\ handler = "index.html" <=>
              \/ LeadsTo(uri, <<"index.html">>)
              \/ LeadsTo(uri, <<>>) /\ (uri = <<"/">> \/ "?" \in ToSet(uri))

\* An id of m hexadecimal digits.
Hex(m) == [n \in 1 .. m |-> "hex"]

\* Every documented path is served by its handler, with parameters as well,
\* and no other path is.  The factory throws for a job path that ends with or
\* before its id; several slashes alone do not lead to the start page.
DispatchFollowsRoutes ==
    kind = "uri" => FollowsRoutes(input, {Hex(m) : m \in 0 .. MaxUri})

-----------------------------------------------------------------------------
(* Configuration files                                                     *)

Sections(lines) == {n \in DOMAIN lines : lines[n].kind = "section"}
Pairs(lines) == {n \in DOMAIN lines : lines[n].kind = "pair"}

\* The sections that begin before line n, and those of one depth.
AnyBefore(lines, n) == {m \in 1 .. n - 1 : lines[m].kind = "section"}
Before(lines, n, d) == {m \in AnyBefore(lines, n) : lines[m].depth = d}

\* The section of line n: the names of the last sections of each depth.
Depth(lines, n) ==
    IF AnyBefore(lines, n) = {} THEN 0 ELSE lines[Max(AnyBefore(lines, n))].depth
Owner(lines, n) == [d \in 1 .. Depth(lines, n) |-> lines[Max(Before(lines, n, d))].name]

Place(lines, n) == <<Owner(lines, n), lines[n].key>>

\* Line n can be continued: it has a key, or continues another line.
Continues(lines, n) ==
    lines[n].kind = "+" \/ (lines[n].kind = "pair" /\ lines[n].key # "")

\* Every line with content has a "=", a continuation follows a value, a
\* section skips no level, and neither a section nor a key occurs twice.
IsIniFile(lines) ==
    /\ \A n \in DOMAIN lines :
          /\ lines[n].kind # "word"
          /\ lines[n].kind = "+" => n > 1 /\ Continues(lines, n - 1)
    /\ \A n \in Sections(lines) : lines[n].depth <= Depth(lines, n) + 1
    /\ \A m, n \in Sections(lines) : m # n => Owner(lines, m + 1) # Owner(lines, n + 1)
    /\ \A m, n \in Pairs(lines) : m # n => Place(lines, m) # Place(lines, n)

\* The continuation lines of line n.
Continuations(lines, n) ==
    {m \in n + 1 .. Len(lines) : \A k \in n + 1 .. m : lines[k].kind = "+"}

\* The lines of the value that begins in line n.
ValueOf(lines, n) ==
    <<lines[n].text>>
    \o [m \in 1 .. Cardinality(Continuations(lines, n)) |-> lines[n + m].text]

\* Malformed files are refused, and no others, except that nothing is said of
\* a file with a line of white space only, which the parser means to skip.  The
\* values of an accepted file are those of its lines, each in the section it
\* stands in, with the lines that continue it.
ReadsFile(lines) ==
    LET file == parse(lines)
    IN  /\ ~ IsIniFile(lines) => file.error # ""
        /\ IsIniFile(lines) /\ White \notin ToSet(lines) => file.error = ""
        /\ file.error = "" =>
              /\ DOMAIN file.values = {Place(lines, n) : n \in Pairs(lines)}
              /\ \A n \in Pairs(lines) :
                    file.values[Place(lines, n)] = ValueOf(lines, n)

\* Every file that is accepted is read as it is written.
IniReadsFile == kind = "file" => ReadsFile(input)

Loaded(lines) == parse(lines).error = "" /\ Accepted(Tree(parse(lines)))

\* What the lines say about an option of a section.
Written(lines, path, o) ==
    {ValueOf(lines, n) : n \in {m \in Pairs(lines) : Place(lines, m) = <<path, o>>}}

\* An accepted file gives at least one worker, a positive age, a connection
\* string, and for each layer that is served the settings a pull relies on.
Usable(lines, settings) ==
    /\ settings.num_worker_threads >= 1
    /\ settings.max_age_done_jobs >= 1
    /\ settings.db_connection_string # <<"">>
    /\ \A l \in settings.layers, o \in Mandatory :
          \E t \in Written(lines, <<"LAYERS", l>>, o) : t # <<"">>

\* Nothing destructive is switched on, and no layer is served, unless the
\* lines of its own section say so.
DoesWhatIsWritten(lines, l, tree) ==
    LET layer == Layer(tree.layers[l])
        path == <<"LAYERS", l>>
    IN  /\ layer.allow_feature_deletion =>
              \E t \in Written(lines, path, "allow_feature_deletion") : valueToBool(t)
        /\ layer.bulk_delete_method = <<"truncate">> =>
              \E t \in Written(lines, path, "bulk_delete_method") : TrimValue(t) = <<"truncate">>
        /\ l \in Settings(tree).layers <=>
              \A t \in Written(lines, path, "enabled") : valueToBool(t)

\* The sections with options of the server.
ServerSections == {"HTTP", "MAIN", "LOGGING"}

\* A section that is not nested is one of the documented ones, and the options
\* in a section of the server or of a layer are options of that section.
\* Nothing is said of the options on the top level, directly in LAYERS and in
\* sections nested deeper: Configuration::parse ignores them.
NamesAreKnown(lines) ==
    /\ \A n \in Sections(lines) :
          lines[n].depth = 1 => lines[n].name \in ServerSections \cup {"LAYERS"}
    /\ \A n \in Pairs(lines), s \in ServerSections :
          Owner(lines, n) = <<s>> => lines[n].key \in DOMAIN Options[s]
    /\ \A n \in Pairs(lines) :
          Len(Owner(lines, n)) = 2 /\ Owner(lines, n)[1] = "LAYERS" =>
              lines[n].key \in DOMAIN Options.layer

\* A configuration that is accepted can be used, deletes nothing that it does
\* not mention, and has no misspelt section, nor a misspelt option in a section
\* whose options are read.
IsSound(lines) ==
    LET tree == Tree(parse(lines))
    IN  /\ Usable(lines, Settings(tree))
        /\ \A l \in DOMAIN tree.layers : DoesWhatIsWritten(lines, l, tree)
        /\ NamesAreKnown(lines)

\* Every file that is accepted is sound.
AcceptedConfigurationIsSound == kind = "file" /\ Loaded(input) => IsSound(input)

-----------------------------------------------------------------------------
(* Tables and fields                                                       *)

TestSources == [fields : SUBSET {"g", "i", "v"}, fid : {"", "i"}]
Overrides == {<<>>, <<"v">>, <<"v", "i">>, <<"u">>}

\* The key of every feature is transferred, each parameter of the insert comes
\* from a field, the FID or the geometry (for any other ogrFields[...] would
\* make up a field), and the statements can be executed, unless a field of the
\* source has the name of the geometry column or the table consists of its
\* primary key.
TransfersKeys(table, source, override) ==
    LET columns == ToSet(insertColumns(table, source))
    IN  /\ primaryKeyColumns(table, override) # <<>>
        /\ ToSet(primaryKeyColumns(table, override)) \subseteq columns
        /\ \A c \in ToSet(table) :
              c.name \in columns => c.geometry \/ c.name \in source.fields \cup {source.fid}
        /\ \/ Executable(table, source)
           \/ \E c \in ToSet(table) : c.geometry /\ Provided(c.name, source)
           \/ \A c \in ToSet(table) : c.pk

\* A pull that is not refused transfers the key of every feature.
AcceptedPullTransfersKeys ==
    kind = "table" =>
        \A source \in TestSources, override \in Overrides :
            ~ Refused(input, source, override) => TransfersKeys(input, source, override)

\* What a conversion can lose: digits of an Integer64 beyond int, digits of a
\* real beyond the sixth, and the time zone.  A value is only replaced by NULL
\* if it is an empty text for a time column.
LossIsKnown(f) ==
    LET r == convertToString(f, "date")
    IN  /\ r.kind = "text" =>
              \/ r.text = f.value
              \/ f.type = "Integer64" /\ f.value \notin - MaxInt - 1 .. MaxInt
              \/ f.type = "Real" /\ f.value % 10 # 0
              \/ f.type = "DateTime" /\ r.text = [date |-> f.value.date, time |-> f.value.time]
              \/ f.type = "Date" /\ r.text = [date |-> f.value.date]
              \/ f.type = "Time" /\ r.text = [time |-> f.value.time]
        /\ r.kind = "null" => ~ f.set \/ (f.type = "String" /\ f.value = "")
        /\ r.kind = "throw" => f.type \notin PostgresTypes \ (ListTypes \cup {"Binary"})

\* The SRID that geometry_columns demands of a column.
ColumnSrid(entries, major) ==
    IF entries # <<>> /\ Last(entries) > 0 THEN Last(entries) ELSE NativeUndefined(major)

\* A geometry is stored with the SRID of its column, or the undefined one, and
\* with its coordinates, if the column is of their system or of none.  Nothing
\* is said of coordinates of another system, which should be reprojected.
Fits(stored, g, srid, major) ==
    /\ stored.srid = srid
    /\ srid \in {g.system, NativeUndefined(major)} => stored.system = g.system

\* Whatever the PostGIS version and the column: the geometry fits.
FitsTheColumn(g) ==
    \A entries \in {<<>>} \cup {<<s>> : s \in -1 .. 2}, major \in 1 .. 3 :
        Fits(StoredGeometry(exportToWkb(g, major), getGeometryColumnSRID(entries), major),
             g, ColumnSrid(entries, major), major)

\* A feature reaches the temporary table with its values, apart from known
\* losses, and with a geometry that fits the column.
FeaturesAreKept ==
    \A n \in DOMAIN input :
        /\ kind = "field" => LossIsKnown(input[n])
        /\ kind = "geometry" => FitsTheColumn(input[n])

-----------------------------------------------------------------------------
(* Requests                                                                *)

\* The set s has the attributes of the element e: for each name the last value.
Says(e, s) ==
    /\ DOMAIN s = {e.members[n].name : n \in DOMAIN e.members}
    /\ \A n \in DOMAIN e.members :
          \/ s[e.members[n].name] = e.members[n].value
          \/ \E m \in n + 1 .. Len(e.members) : e.members[m].name = e.members[n].name

\* The job of a request keeps all that restricts it: every attribute of each
\* set that has one is in the job, with its last value, and a filter, even one
\* of blanks only, stays a filter.  Every set of the job comes from the
\* request, and has no value that a row could not be compared with.
KeepsRestrictions(request) ==
    LET job == fromString(request)
        given == IF HasMember(request, "attributeSets")
                 THEN Member(request, "attributeSets").elements ELSE <<>>
        asks == {n \in DOMAIN given : given[n].members # <<>>}
    IN  /\ \A n \in asks : \E s \in ToSet(job.attributeSets) : Says(given[n], s)
        /\ \A s \in ToSet(job.attributeSets) : \E n \in asks : Says(given[n], s)
        /\ \A s \in ToSet(job.attributeSets) : \A a \in DOMAIN s : s[a] # Number
        /\ job.filter = <<>> <=> \/ ~ HasMember(request, "filter")
                                 \/ Member(request, "filter").text = <<>>

\* An accepted request never removes more than the client has described.
RequestKeepsRestrictions ==
    kind = "body" /\ RequestOk(Object(input)) => KeepsRestrictions(Object(input))

=============================================================================
