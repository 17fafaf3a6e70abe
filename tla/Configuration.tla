--------------------------- MODULE Configuration ---------------------------
(***************************************************************************)
(* Configuration::parse: from the tree that the IniParser has read to the  *)
(* settings of the server.  A value is the sequence of its lines; what the *)
(* conversions make of the texts of interest is given by tables.           *)
(***************************************************************************)
EXTENDS Integers, StringUtils, IniParser

\* The tree that is read: the values of the sections and of the layers, the
\* sections inside of LAYERS.  Values on the top level and in sections further
\* down are not looked at.
Tree(p) ==
    LET values(path) == [o \in {q[2] : q \in {r \in DOMAIN p.values : r[1] = path}} |->
                            p.values[<<path, o>>]]
        inside(path) == {Last(q) : q \in {r \in p.sections : r # <<>> /\ Front(r) = path}}
    IN  [sections |-> [s \in inside(<<>>) |-> values(<<s>>)],
         layers |-> [l \in inside(<<"LAYERS">>) |-> values(<<"LAYERS", l>>)]]

\* Texts that std::stoi converts: it ignores what follows a number, and
\* throws for other texts and for numbers beyond the width of int.
stoi == "0" :> 0 @@ "1" :> 1 @@ "-1" :> -1 @@ "8080x" :> 8080 @@ "70000" :> 70000

\* trim with trimChars: quotes and empty lines at the ends are removed, but
\* not if there is nothing else.
TrimValue(v) ==
    LET text == trim(v, {""})
    IN  IF text = <<"'yes'">> THEN <<"yes">> ELSE text

\* A number ends with its line at the latest.
IsInt(v) == Head(TrimValue(v)) \in DOMAIN stoi
valueToInt(v) == stoi[Head(TrimValue(v))]

\* The value is one of these texts, on a line of its own.
IsText(v, texts) == \E t \in texts : TrimValue(v) = <<t>>

True == {"true", "yes", "1", "y", "t"}
False == {"false", "no", "0", "n", "f"}

valueToBool(v) == IsText(v, True)

PositiveOk(v) == IsInt(v) /\ valueToInt(v) >= 1

\* The options of each section and the type of their values; "layer" is any
\* section inside of LAYERS.
Options ==
    [HTTP |-> [port |-> "int", access_control_allow_origin |-> "text"],
     MAIN |-> [num_worker_threads |-> "positive", max_age_done_jobs |-> "positive",
               dsn |-> "text", use_persistent_connections |-> "bool"],
     LOGGING |-> [loglevel |-> "loglevel", logfile |-> "text"],
     layer |-> [description |-> "text", source |-> "text", source_layer |-> "text",
                target_table_schema |-> "text", target_table_name |-> "text",
                filter |-> "text", allow_feature_deletion |-> "bool",
                ignore_failures |-> "bool", enabled |-> "bool",
                primary_key_columns |-> "columns", bulk_mode |-> "bool",
                bulk_delete_method |-> "method"]]

ValueOk(type, v) ==
    IF type = "int" THEN IsInt(v)
    ELSE IF type = "positive" THEN PositiveOk(v)
    ELSE IF type = "bool" THEN IsText(v, True \cup False)
    ELSE IF type = "loglevel"
         THEN IsText(v, {"error", "warning", "information", "debug"})
    ELSE IF type = "method" THEN IsText(v, {"delete", "truncate"})
    ELSE TRUE

\* Every option is known and has a value of its type.
SectionOk(section, values) ==
    \A o \in DOMAIN values :
        /\ o \in DOMAIN Options[section]
        /\ ValueOk(Options[section][o], values[o])

Mandatory == {"source", "source_layer", "target_table_name", "target_table_schema"}

LayerOk(values) ==
    /\ SectionOk("layer", values)
    /\ \A o \in Mandatory : o \in DOMAIN values /\ values[o] # <<"">>

TextOption(values, option, default) ==
    IF option \in DOMAIN values THEN TrimValue(values[option]) ELSE default
IntOption(values, option, default) ==
    IF option \in DOMAIN values THEN valueToInt(values[option]) ELSE default
BoolOption(values, option, default) ==
    IF option \in DOMAIN values THEN valueToBool(values[option]) ELSE default

trimChars == {"'", "\"", "\r", "\n", "\t", " "}

\* The columns of primary_key_columns, given as a sequence of characters.
PrimaryKeyColumns(text) ==
    FoldLeft(LAMBDA cs, e : IF trim(e, trimChars) = <<>> THEN cs
                            ELSE Append(cs, trim(e, trimChars)),
             <<>>, split(text, ","))

\* Mutant of Layer: features are deleted unless the file forbids it.
LayerDeletes(values) ==
    [enabled |-> BoolOption(values, "enabled", TRUE),
     allow_feature_deletion |-> BoolOption(values, "allow_feature_deletion", TRUE),
     ignore_failures |-> BoolOption(values, "ignore_failures", FALSE),
     bulk_mode |-> BoolOption(values, "bulk_mode", FALSE),
     bulk_delete_method |-> TextOption(values, "bulk_delete_method", <<"delete">>)]

\* The switches of a layer, with the defaults of its constructor.
Layer(values) ==
    [enabled |-> BoolOption(values, "enabled", TRUE),
     allow_feature_deletion |-> BoolOption(values, "allow_feature_deletion", FALSE),
     ignore_failures |-> BoolOption(values, "ignore_failures", FALSE),
     bulk_mode |-> BoolOption(values, "bulk_mode", FALSE),
     bulk_delete_method |-> TextOption(values, "bulk_delete_method", <<"delete">>)]

\* The port that the listener binds: http_port is unsigned and bind takes its
\* lower 16 bits.
BoundPort(port) == port % 2^16

\* The settings of an accepted tree.  Only enabled layers are stored.  A build
\* without _DEBUG has no level "debug".
Settings(tree) ==
    LET values(s) == IF s \in DOMAIN tree.sections THEN tree.sections[s] ELSE <<>>
        level == TextOption(values("LOGGING"), "loglevel", <<"information">>)
    IN  [http_port |-> BoundPort(IntOption(values("HTTP"), "port", 9090)),
         num_worker_threads |-> IntOption(values("MAIN"), "num_worker_threads", 2),
         max_age_done_jobs |-> IntOption(values("MAIN"), "max_age_done_jobs", 600),
         db_connection_string |-> TextOption(values("MAIN"), "dsn", <<"">>),
         use_persistent_connections |->
            BoolOption(values("MAIN"), "use_persistent_connections", TRUE),
         loglevel |-> IF level = <<"debug">> THEN <<"information">> ELSE level,
         layers |-> {l \in DOMAIN tree.layers : Layer(tree.layers[l]).enabled}]

\* The file is accepted.  Values directly in LAYERS are not looked at.
Accepted(tree) ==
    /\ \A s \in DOMAIN tree.sections :
          s = "LAYERS" \/ (s \in {"HTTP", "MAIN", "LOGGING"} /\ SectionOk(s, tree.sections[s]))
    /\ \A l \in DOMAIN tree.layers : LayerOk(tree.layers[l])
    /\ Settings(tree).db_connection_string # <<"">>

=============================================================================
