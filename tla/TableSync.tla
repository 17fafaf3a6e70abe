----------------------------- MODULE TableSync -----------------------------
(***************************************************************************)
(* What the statements of Worker::pull and Worker::removeByAttributes do   *)
(* to the rows of a target table, for several jobs at the same time.       *)
(*                                                                         *)
(* A row has a key, a geometry and one more column, which the source may   *)
(* or may not provide; it has an identity of its own because without a     *)
(* primary key constraint (primary_key_columns of the configuration) rows  *)
(* may be equal.  A pull has put the features of its source into a         *)
(* temporary table, which has the columns of the target table but none of  *)
(* its constraints.                                                        *)
(*                                                                         *)
(* PostgreSQL is external.  A statement sees the committed rows and what   *)
(* its own transaction has written (READ COMMITTED), takes effect at once, *)
(* and waits as long as another transaction has a lock it needs.  Jobs     *)
(* whose connection is lost and ignored features are in module Worker.     *)
(***************************************************************************)
EXTENDS Naturals, FiniteSets

CONSTANTS
    Jobs,           \* each job runs once
    Null,           \* the SQL value NULL
    Shape,          \* what ST_Equals compares, for each geometry
    Collections,    \* geometries for which ST_IsCollection holds
    Defaults,       \* what the third column may have as its DEFAULT
    Layers,         \* the configurations of the layer to check
    Tables,         \* contents of the target table at the beginning
    Sources,        \* what a source may provide: sequences of rows
    AttributeLists  \* attribute sets of remove requests

VARIABLES
    layer,       \* configuration of the layer
    type,        \* Job::Type of each job
    table,       \* the committed rows
    pc,          \* where each job is
    filter,      \* the filter string of the pull is not empty
    temp,        \* temporary table of each pull
    attributes,  \* attribute sets of each removal
    added,       \* rows its transaction has written ...
    removed,     \* ... and those it has deleted or replaced, and locked
    inserting,   \* rows of an insert that waits for another transaction
    stats,       \* statistics of the job
    overlapped,  \* history: another transaction was open at the same time
    pulled       \* history: the source of the last full pull, if no other
                 \* job has written since

vars == <<layer, type, table, pc, filter, temp, attributes, added, removed,
          inserting, stats, overlapped, pulled>>
inputVars == <<layer, type, filter, temp, attributes>>

\* A row without its identity.
Content(r) == [k |-> r.k, g |-> r.g, x |-> r.x]
Contents(R) == {Content(r) : r \in R}
Keys(R) == {r.k : r \in R}

Zero == [created |-> 0, updated |-> 0, deleted |-> 0]

IsRow(r) == r = [id |-> r.id, k |-> r.k, g |-> r.g, x |-> r.x]

\* The identities of the rows that job j may insert.
OwnIds(j) == {<<j, n>> : n \in UNION {DOMAIN s : s \in Sources}}

ASSUME LayersAssumption ==
    Layers \subseteq [constraint : BOOLEAN, deletion : BOOLEAN, bulk : BOOLEAN,
                      truncate : BOOLEAN, provided : BOOLEAN, default : Defaults]

\* A table has finitely many rows, each with an identity of its own.
ASSUME TablesAssumption ==
    \A T \in Tables :
        /\ IsFiniteSet(T)
        /\ \A r \in T : IsRow(r) /\ \A j \in Jobs : r.id \notin OwnIds(j)
        /\ \A r, s \in T : r.id = s.id => r = s

ASSUME SourcesAssumption == \A s \in Sources : IsFiniteSet(DOMAIN s)

\* An attribute set is a function on the names of its attributes.
ASSUME AttributesAssumption ==
    \A sets \in AttributeLists : \A s \in sets : s = [c \in DOMAIN s |-> s[c]]

Init ==
    /\ layer \in Layers
    /\ type \in [Jobs -> {"pull", "remove"}]
    /\ table \in {T \in Tables : layer.constraint =>
                     /\ Null \notin Keys(T)
                     /\ Cardinality(Keys(T)) = Cardinality(T)}
    /\ pc = [j \in Jobs |-> "queued"]
    /\ filter = [j \in Jobs |-> FALSE]
    /\ temp = [j \in Jobs |-> {}]
    /\ attributes = [j \in Jobs |-> {}]
    /\ added = [j \in Jobs |-> {}]
    /\ removed = [j \in Jobs |-> {}]
    /\ inserting = [j \in Jobs |-> {}]
    /\ stats = [j \in Jobs |-> Zero]
    /\ overlapped = [j \in Jobs |-> FALSE]
    /\ pulled = {}

Goto(j, from, to) ==
    /\ pc[j] = from
    /\ pc' = [pc EXCEPT ![j] = to]

-----------------------------------------------------------------------------
(* Conditions of the statements                                            *)

\* Mutant of AllowDeletion: the filter is not looked at.
AllowDeletionAlways(j) == layer.deletion

\* allow_feature_deletion: disabled by a filter of the layer or of the job.
AllowDeletion(j) == layer.deletion /\ ~ filter[j]

\* The condition of the update on a geometry.  Collections are compared by
\* their binary representation, others with ST_Equals, which is NULL, hence
\* not true, if one of the two is.
GeometryDiffers(a, b) ==
    IF a \in Collections \/ b \in Collections
    THEN a # b
    ELSE a # Null /\ b # Null /\ Shape[a] # Shape[b]

\* Mutant of Differs: all rows with a matching key are updated.
DiffersAlways(r, t) == TRUE

\* Mutant of Differs: only the geometry is compared.
DiffersGeometry(r, t) == GeometryDiffers(r.g, t.g)

\* "is distinct from" treats NULL as a value.
Differs(r, t) == r.x # t.x \/ GeometryDiffers(r.g, t.g)

\* "k not in (select ...)" is true.  It is not if k or an element is NULL,
\* unless there is no element.
NotIn(k, S) == S = {} \/ (k # Null /\ Null \notin S /\ k \notin S)

\* Mutant of Matches: an attribute set without attributes is a condition
\* that every row satisfies.
MatchesEmpty(r, sets) ==
    \E s \in sets : \A c \in DOMAIN s : r[c] = s[c]

\* The condition of removeByAttributes: one of the attribute sets agrees
\* with the row.  Empty sets are skipped.
Matches(r, sets) ==
    \E s \in sets : DOMAIN s # {} /\ \A c \in DOMAIN s : r[c] = s[c]

-----------------------------------------------------------------------------
(* Transactions                                                            *)

InTransaction(j) == pc[j] \notin {"queued", "finished", "failed"}

\* What a statement of job j sees.
View(j) == (table \ removed[j]) \cup added[j]

\* The transaction of j deletes the rows in old and writes the rows in new.
Write(j, old, new) ==
    /\ added' = [added EXCEPT ![j] = (@ \ old) \cup new]
    /\ removed' = [removed EXCEPT ![j] = @ \cup (old \cap table)]

Count(j, field, n) == stats' = [stats EXCEPT ![j] = [@ EXCEPT ![field] = n]]

\* Transactions that have a lock on one of the rows R.
LockedBy(j, R) == {i \in Jobs \ {j} : removed[i] \cap R # {}}

\* Transactions that have inserted a row with a key of R: the unique index
\* makes a second insertion wait.
InsertedBy(j, R) ==
    {i \in Jobs \ {j} : layer.constraint /\ Keys(added[i]) \cap Keys(R) # {}}

\* truncate takes a lock that excludes everyone who has used the table.
Truncating(j) == type[j] = "pull" /\ layer.bulk /\ layer.truncate

Exclusive(j) == Truncating(j) /\ pc[j] \in {"insert", "blocked", "commit"}

Users(j) == {i \in Jobs \ {j} : InTransaction(i) /\ pc[i] # "remove"}

\* The rows that the next statement of j changes or deletes.
Outdated(j) == {r \in View(j) : \E t \in temp[j] : t.k = r.k /\ Differs(r, t)}
Deprecated(j) == {r \in View(j) : NotIn(r.k, Keys(temp[j]))}
ToRemove(j) == {r \in View(j) : Matches(r, attributes[j])}

\* The transactions that the next statement of j has to wait for.
Blockers(j) ==
    IF pc[j] = "update" THEN LockedBy(j, Outdated(j))
    ELSE IF pc[j] = "delete" THEN LockedBy(j, Deprecated(j))
    ELSE IF pc[j] = "remove"
         THEN LockedBy(j, ToRemove(j)) \cup {i \in Jobs \ {j} : Exclusive(i)}
    ELSE IF pc[j] = "bulkdelete" /\ Truncating(j) THEN Users(j)
    ELSE IF pc[j] = "bulkdelete" THEN LockedBy(j, View(j))
    ELSE IF pc[j] = "blocked" THEN InsertedBy(j, inserting[j])
    ELSE {}

\* A transaction is opened for j.
Begin(j) ==
    overlapped' = [i \in Jobs |->
                     \/ overlapped[i]
                     \/ InTransaction(i)
                     \/ i = j /\ \E h \in Jobs \ {j} : InTransaction(h)]

\* Mutant of Rollback: the transaction stays open.
RollbackMissing(j) ==
    /\ pc' = [pc EXCEPT ![j] = "failed"]
    /\ UNCHANGED <<inputVars, table, added, removed, inserting, stats,
                   overlapped, pulled>>

\* The statement failed: the destructor of the transaction rolls back.
Rollback(j) ==
    /\ pc' = [pc EXCEPT ![j] = "failed"]
    /\ added' = [added EXCEPT ![j] = {}]
    /\ removed' = [removed EXCEPT ![j] = {}]
    /\ inserting' = [inserting EXCEPT ![j] = {}]
    /\ UNCHANGED <<inputVars, table, stats, overlapped, pulled>>

\* Any statement may fail, for instance for a constraint of the table.
StatementFails(j) == InTransaction(j) /\ Rollback(j)

\* The server ends one of two transactions that wait for each other.
DeadlockDetected(j) ==
    /\ \E i \in Blockers(j) : j \in Blockers(i)
    /\ Rollback(j)

\* Job j is a pull of all features that may delete the others.
FullPull(j) == type[j] = "pull" /\ (layer.bulk \/ (layer.deletion /\ ~ filter[j]))

Commit(j) ==
    /\ Goto(j, "commit", "finished")
    /\ table' = View(j)
    /\ pulled' = IF FullPull(j) /\ ~ overlapped[j] THEN {Contents(temp[j])} ELSE {}
    /\ added' = [added EXCEPT ![j] = {}]
    /\ removed' = [removed EXCEPT ![j] = {}]
    /\ UNCHANGED <<inputVars, inserting, stats, overlapped>>

-----------------------------------------------------------------------------
(* Worker::pull                                                            *)

\* The row of feature n: columns that the source lacks are NULL.
TempRow(j, n, f) ==
    [id |-> <<j, n>>, k |-> f.k, g |-> f.g,
     x |-> IF layer.provided THEN f.x ELSE Null]

\* The source is read into the temporary table, for which the columns of the
\* target table are read.
StartPull(j) ==
    /\ type[j] = "pull"
    /\ Begin(j)
    /\ \A i \in Jobs \ {j} : ~ Exclusive(i)
    /\ \E s \in Sources, f \in BOOLEAN :
          /\ temp' = [temp EXCEPT ![j] = {TempRow(j, n, s[n]) : n \in DOMAIN s}]
          /\ filter' = [filter EXCEPT ![j] = f]
    /\ Goto(j, "queued", IF ~ layer.bulk THEN "update"
                         ELSE IF layer.truncate THEN "count" ELSE "bulkdelete")
    /\ UNCHANGED <<layer, type, table, attributes, added, removed, inserting,
                   stats, pulled>>

\* Rows with the key of a temporary row that differ from it take all of its
\* columns but those of the primary key.  If several rows of the temporary
\* table have that key, one of them is used.
UpdateTarget(j) ==
    /\ Goto(j, "update", "insert")
    /\ Blockers(j) = {}
    /\ \E f \in [Outdated(j) -> temp[j]] :
          /\ \A r \in Outdated(j) : f[r].k = r.k /\ Differs(r, f[r])
          /\ Write(j, Outdated(j),
                   {[r EXCEPT !.g = f[r].g, !.x = f[r].x] : r \in Outdated(j)})
    /\ Count(j, "updated", Cardinality(Outdated(j)))
    /\ UNCHANGED <<inputVars, table, inserting, overlapped, pulled>>

\* The row that a temporary row is inserted as.  The insert names the columns
\* of the source only: the others get the DEFAULT of the table.
Inserted(t) == [t EXCEPT !.x = IF layer.provided THEN @ ELSE layer.default]

\* The rows to insert: all in bulk mode, otherwise those with a new key.
Missing(j) ==
    {Inserted(t) : t \in
        {u \in temp[j] : layer.bulk \/ NotIn(u.k, Keys(View(j)))}}

\* The primary key constraint rejects the rows R.
Rejected(j, R) ==
    /\ layer.constraint
    /\ \/ Null \in Keys(R)
       \/ Keys(R) \cap Keys(View(j)) # {}
       \/ Cardinality(Keys(R)) # Cardinality(R)

AfterInsert(j) == IF AllowDeletion(j) /\ ~ layer.bulk THEN "delete" ELSE "commit"

InsertRows(j, R) ==
    /\ ~ Rejected(j, R)
    /\ pc' = [pc EXCEPT ![j] = AfterInsert(j)]
    /\ Write(j, {}, R)
    /\ Count(j, "created", Cardinality(R))
    /\ inserting' = [inserting EXCEPT ![j] = {}]
    /\ UNCHANGED <<inputVars, table, overlapped, pulled>>

InsertMissing(j) ==
    /\ pc[j] = "insert"
    /\ InsertedBy(j, Missing(j)) = {}
    /\ \/ InsertRows(j, Missing(j))
       \/ Rejected(j, Missing(j)) /\ Rollback(j)

\* The rows to insert were determined; another transaction has to end first.
InsertWaits(j) ==
    /\ InsertedBy(j, Missing(j)) # {}
    /\ Goto(j, "insert", "blocked")
    /\ inserting' = [inserting EXCEPT ![j] = Missing(j)]
    /\ UNCHANGED <<inputVars, table, added, removed, stats, overlapped, pulled>>

InsertResumes(j) ==
    /\ pc[j] = "blocked"
    /\ Blockers(j) = {}
    /\ \/ InsertRows(j, inserting[j])
       \/ Rejected(j, inserting[j]) /\ Rollback(j)

DeleteDeprecated(j) ==
    /\ Goto(j, "delete", "commit")
    /\ Blockers(j) = {}
    /\ Write(j, Deprecated(j), {})
    /\ Count(j, "deleted", Cardinality(Deprecated(j)))
    /\ UNCHANGED <<inputVars, table, inserting, overlapped, pulled>>

\* Mutant of CountRows: what truncate itself reports.
CountRowsReported(j) ==
    /\ Goto(j, "count", "bulkdelete")
    /\ Count(j, "deleted", 0)
    /\ UNCHANGED <<inputVars, table, added, removed, inserting, overlapped, pulled>>

\* A truncate is preceded by count(key), which ignores NULL.
CountRows(j) ==
    /\ Goto(j, "count", "bulkdelete")
    /\ Count(j, "deleted", Cardinality({r \in View(j) : r.k # Null}))
    /\ UNCHANGED <<inputVars, table, added, removed, inserting, overlapped, pulled>>

BulkDelete(j) ==
    /\ Goto(j, "bulkdelete", "insert")
    /\ Blockers(j) = {}
    /\ Write(j, View(j), {})
    /\ IF layer.truncate THEN UNCHANGED stats
       ELSE Count(j, "deleted", Cardinality(View(j)))
    /\ UNCHANGED <<inputVars, table, inserting, overlapped, pulled>>

-----------------------------------------------------------------------------
(* Worker::removeByAttributes                                              *)

StartRemove(j) ==
    /\ type[j] = "remove"
    /\ layer.deletion
    /\ Begin(j)
    /\ Goto(j, "queued", "remove")
    /\ \E sets \in AttributeLists : attributes' = [attributes EXCEPT ![j] = sets]
    /\ UNCHANGED <<layer, type, table, filter, temp, added, removed, inserting,
                   stats, pulled>>

\* The layer does not allow the deletion of features.
RemoveRefused(j) ==
    /\ type[j] = "remove"
    /\ ~ layer.deletion
    /\ Goto(j, "queued", "failed")
    /\ UNCHANGED <<inputVars, table, added, removed, inserting, stats,
                   overlapped, pulled>>

RemoveRows(j) ==
    /\ Goto(j, "remove", "commit")
    /\ Blockers(j) = {}
    /\ Write(j, ToRemove(j), {})
    /\ Count(j, "deleted", Cardinality(ToRemove(j)))
    /\ UNCHANGED <<inputVars, table, inserting, overlapped, pulled>>

-----------------------------------------------------------------------------

Statement(j) ==
    \/ UpdateTarget(j)
    \/ InsertMissing(j)
    \/ InsertWaits(j)
    \/ InsertResumes(j)
    \/ DeleteDeprecated(j)
    \/ CountRows(j)
    \/ BulkDelete(j)
    \/ RemoveRows(j)
    \/ Commit(j)

Ended == (\A j \in Jobs : pc[j] \in {"finished", "failed"}) /\ UNCHANGED vars

Next ==
    \/ \E j \in Jobs :
          \/ StartPull(j)
          \/ StartRemove(j)
          \/ RemoveRefused(j)
          \/ Statement(j)
          \/ StatementFails(j)
          \/ DeadlockDetected(j)
    \/ Ended

Spec == Init /\ [][Next]_vars

\* The worker sends its next statement, and the server executes it when the
\* locks are free and resolves deadlocks.
Fairness == \A j \in Jobs : WF_vars(Statement(j)) /\ WF_vars(DeadlockDetected(j))

FairSpec == Spec /\ Fairness

-----------------------------------------------------------------------------
(* Properties                                                              *)

\* Job j is committed by this step.
Commits(j) == pc[j] = "commit" /\ pc'[j] = "finished"

Pulls(j) == type[j] = "pull" /\ ~ layer.bulk

\* The rows of the table that are gone after this step.
Lost == {r \in table : \A s \in table' : s.id # r.id}

\* Two geometries that no statement tells apart.
SameGeometry(a, b) == a = b \/ (Null \notin {a, b} /\ Shape[a] = Shape[b])

\* After a full pull that ran alone the table is a copy of the source: the
\* same keys, and in every row what the source has for its key.  Columns that
\* the source lacks, NULL keys and a geometry that is NULL on one side only
\* are excepted.
PullMirrorsSource ==
    [][\A j \in Jobs :
          /\ Commits(j) /\ FullPull(j) /\ ~ overlapped[j]
          /\ Null \notin Keys(temp[j]) \cup Keys(table)
          => /\ Keys(table') = Keys(temp[j])
             /\ \A r \in table' : \E t \in temp[j] :
                   /\ r.k = t.k
                   /\ layer.provided => r.x = t.x
                   /\ SameGeometry(r.g, t.g) \/ Null \in {r.g, t.g}]_vars

\* What is inserted is what a later update compares with: the source has all
\* columns, or those it lacks have no DEFAULT.
InsertsWhatItCompares == layer.provided \/ layer.default = Null

\* Pulling an unchanged source again writes nothing, so triggers stay quiet.
\* This needs a source in which a key occurs once and, because an update takes
\* columns that the source lacks for NULL, that those have no DEFAULT.
RepeatedPullWritesNothing ==
    [][\A j \in Jobs :
          /\ Commits(j) /\ Pulls(j) /\ ~ overlapped[j]
          /\ InsertsWhatItCompares
          /\ pulled = {Contents(temp[j])}
          /\ Cardinality(Keys(temp[j])) = Cardinality(temp[j])
          => table' = table /\ stats[j] = Zero]_vars

\* A pull with a filter, or of a layer that does not allow deletion, loses
\* no row, whatever other jobs do at the same time.  Bulk mode replaces all
\* rows.
PartialPullKeepsRows ==
    [][\A j \in Jobs : Commits(j) /\ Pulls(j) /\ ~ FullPull(j) => Lost = {}]_vars

\* The statistics account for the size of the table, also when jobs overlap:
\* no row is counted by two jobs or replaced behind the back of one.  A
\* truncate is excepted if keys are NULL or if another job may have written
\* since the rows were counted.
StatisticsMatchTable ==
    [][\A j \in Jobs :
          /\ Commits(j)
          /\ Truncating(j) => Null \notin Keys(table) /\ ~ overlapped[j]
          => Cardinality(table') + stats[j].deleted
                = Cardinality(table) + stats[j].created]_vars

\* remove-by-attributes deletes the rows that one of its attribute sets
\* describes, and no others: a set without attributes describes none.
RemovesDescribedRows ==
    [][\A j \in Jobs : Commits(j) /\ type[j] = "remove" =>
          LET described == {r \in table :
                               \E s \in attributes[j] \ {<<>>} :
                                  \A c \in DOMAIN s : r[c] = s[c]}
          IN  Lost \subseteq described /\ (overlapped[j] \/ described \subseteq Lost)]_vars

\* Every job ends, although jobs wait for each other's rows.
JobsEnd ==
    \A j \in Jobs : InTransaction(j) ~> pc[j] \in {"finished", "failed"}

-----------------------------------------------------------------------------
(* What the documentation says and the code does not do.                   *)

\* MANUAL.md: columns of the target table which are not part of the source
\* features are left untouched.
MissingColumnsUntouched ==
    [][\A j \in Jobs : Commits(j) /\ Pulls(j) /\ ~ layer.provided =>
          \A r \in table, s \in table' : r.id = s.id => r.x = s.x]_vars

\* MANUAL.md: the target table is updated using the fetched contents; rows
\* are only left alone where the data does not differ.
DifferencesAreUpdated ==
    [][\A j \in Jobs :
          /\ Commits(j) /\ FullPull(j) /\ ~ overlapped[j]
          /\ Cardinality(Keys(temp[j])) = Cardinality(temp[j])
          => \A r \in table', t \in temp[j] :
                r.k = t.k => SameGeometry(r.g, t.g)]_vars

=============================================================================
