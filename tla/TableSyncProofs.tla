-------------------------- MODULE TableSyncProofs --------------------------
(***************************************************************************)
(* Proofs about TableSync, for every set of jobs, layers, tables, sources  *)
(* and attribute lists.                                                    *)
(***************************************************************************)
EXTENDS TableSync, FiniteSetTheorems, TLAPS

Labels == {"queued", "update", "insert", "blocked", "delete", "count",
           "bulkdelete", "remove", "commit", "finished", "failed"}

TypeInv ==
    /\ layer \in Layers
    /\ type \in [Jobs -> {"pull", "remove"}]
    /\ pc \in [Jobs -> Labels]
    /\ filter \in [Jobs -> BOOLEAN]
    /\ overlapped \in [Jobs -> BOOLEAN]
    /\ attributes \in [Jobs -> AttributeLists \cup {{}}]
    /\ temp = [j \in Jobs |-> temp[j]]
    /\ added = [j \in Jobs |-> added[j]]
    /\ removed = [j \in Jobs |-> removed[j]]
    /\ inserting = [j \in Jobs |-> inserting[j]]
    /\ stats = [j \in Jobs |-> stats[j]]

\* Which jobs come to which statements.
PlaceOf(j) ==
    /\ pc[j] = "remove" => type[j] = "remove"
    /\ pc[j] \in {"update", "insert", "blocked", "delete", "count", "bulkdelete"}
          => type[j] = "pull"
    /\ pc[j] \in {"update", "delete"} => ~ layer.bulk
    /\ pc[j] = "delete" => AllowDeletion(j)
    /\ pc[j] \in {"count", "bulkdelete"} => layer.bulk
    /\ pc[j] = "count" => layer.truncate

DistinctIds(R) == \A r, s \in R : r.id = s.id => r = s

\* Identities are unique, and those of a job that has not committed are new.
TableInv ==
    /\ IsFiniteSet(table)
    /\ \A r \in table : IsRow(r)
    /\ DistinctIds(table)
    /\ \A j \in Jobs : pc[j] # "finished" =>
          \A r \in table : r.id \notin OwnIds(j)

\* The rows that a transaction has deleted are rows of the table; what it has
\* written is a new version of one of them or comes from the source.
Replaces(j, s) == \E r \in removed[j] : r.id = s.id /\ r.k = s.k

\* The temporary table of j with the DEFAULT of the target table.
AsInserted(j) == {Inserted(t) : t \in temp[j]}

RowsOf(j) ==
    /\ IsFiniteSet(temp[j]) /\ IsFiniteSet(added[j])
    /\ \A t \in temp[j] :
          IsRow(t) /\ t.id \in OwnIds(j) /\ (layer.provided \/ t.x = Null)
    /\ DistinctIds(temp[j])
    /\ inserting[j] \subseteq AsInserted(j)
    /\ pc[j] # "blocked" => inserting[j] = {}
    /\ removed[j] \subseteq table
    /\ \A s \in added[j] : IsRow(s) /\ (s \in AsInserted(j) \/ Replaces(j, s))
    /\ DistinctIds(added[j])
    /\ pc[j] \in {"insert", "blocked"} => \A s \in added[j] : Replaces(j, s)
    /\ pc[j] \in {"insert", "blocked"} /\ layer.bulk => added[j] = {}
    /\ pc[j] \notin {"insert", "blocked", "delete", "commit"}
          => added[j] = {} /\ removed[j] = {}

\* A row is locked by one transaction.
LocksInv == \A i, j \in Jobs : i # j => removed[i] \cap removed[j] = {}

\* A transaction that has not overlapped is the only one.
AloneInv ==
    \A i, j \in Jobs : i # j /\ InTransaction(i) /\ InTransaction(j) => overlapped[i]

\* What the counters say while the statements are executed.
StatsOf(j) ==
    /\ stats[j] \in [created : Nat, updated : Nat, deleted : Nat]
    /\ pc[j] \in {"queued", "update", "count", "remove"} => stats[j] = Zero
    /\ pc[j] \in {"bulkdelete", "insert", "blocked"} => stats[j].created = 0
    /\ pc[j] \in {"insert", "blocked", "delete"} /\ ~ layer.bulk
          => stats[j].deleted = 0
    /\ InTransaction(j) /\ ~ Truncating(j)
          => Cardinality(added[j]) + stats[j].deleted
                = Cardinality(removed[j]) + stats[j].created
    /\ (/\ Truncating(j) /\ ~ overlapped[j]
        /\ pc[j] \in {"bulkdelete", "insert", "blocked", "commit"})
          => stats[j].deleted = Cardinality({r \in table : r.k # Null})
    /\ Truncating(j) /\ pc[j] \in {"insert", "blocked", "commit"}
          => Cardinality(added[j]) = stats[j].created

\* How far a pull that runs alone has made the table a copy of its source.
\* Columns that the source lacks count only if they have no DEFAULT.
Agrees(r, R, all) ==
    \E t \in R :
        /\ t.k = r.k
        /\ ~ GeometryDiffers(r.g, t.g)
        /\ all => r.x = t.x

MirrorOf(j) ==
    type[j] = "pull" /\ InTransaction(j) /\ ~ overlapped[j] =>
        /\ pc[j] # "blocked"
        /\ pc[j] \in {"insert", "commit"} /\ layer.bulk => removed[j] = table
        /\ pc[j] \in {"insert", "delete", "commit"} =>
              \A r \in View(j) : r.k \in Keys(temp[j]) =>
                 Agrees(r, temp[j], InsertsWhatItCompares)
        /\ pc[j] \in {"delete", "commit"} =>
              \A t \in temp[j] : ~ NotIn(t.k, Keys(View(j)))
        /\ pc[j] = "commit" /\ FullPull(j) =>
              \A r \in View(j) : ~ NotIn(r.k, Keys(temp[j]))

\* What remove-by-attributes has deleted.
RemoveOf(j) ==
    type[j] = "remove" /\ pc[j] = "commit" =>
        /\ added[j] = {}
        /\ \A r \in removed[j] : Matches(r, attributes[j])
        /\ ~ overlapped[j] => ToRemove(j) = {}

\* A pull that may not delete has a new version of every row it took.
KeepOf(j) ==
    Pulls(j) /\ ~ FullPull(j) =>
        \A r \in removed[j] : \E s \in added[j] : s.id = r.id

SameKeySameRow(R) == \A s, t \in R : s.k = t.k => s = t

\* Since the last full pull the table has been a copy of its source.
PulledInv ==
    \A C \in pulled : ~ layer.bulk /\ InsertsWhatItCompares /\ SameKeySameRow(C) =>
        /\ \A r \in table, c \in C : r.k = c.k => ~ Differs(r, c)
        /\ \A c \in C : ~ NotIn(c.k, Keys(table))
        /\ \A r \in table : ~ NotIn(r.k, Keys(C))

RepeatOf(j) ==
    /\ Pulls(j) /\ InTransaction(j) /\ ~ overlapped[j] /\ InsertsWhatItCompares
    /\ pulled = {Contents(temp[j])} /\ SameKeySameRow(Contents(temp[j]))
    => added[j] = {} /\ removed[j] = {} /\ stats[j] = Zero

\* Transactions: where they are, which rows they have, and who is alone.
TransactionInv ==
    /\ TypeInv /\ TableInv /\ LocksInv /\ AloneInv
    /\ \A j \in Jobs : PlaceOf(j) /\ RowsOf(j)

\* The inductive invariant.
SyncInv ==
    /\ TransactionInv
    /\ PulledInv
    /\ \A j \in Jobs : StatsOf(j) /\ MirrorOf(j) /\ RemoveOf(j) /\ KeepOf(j) /\ RepeatOf(j)

-----------------------------------------------------------------------------
(* The steps of a job, with what they do to its transaction.  All but the   *)
(* commit leave the table and the other jobs alone.                         *)

\* Job j goes to a label and has these rows and statistics now.
Effect(j, to, A, R, I, S) ==
    /\ UNCHANGED <<layer, type, table, pulled, filter, temp, attributes, overlapped>>
    /\ \A i \in Jobs \ {j} :
          /\ pc'[i] = pc[i]
          /\ added'[i] = added[i]
          /\ removed'[i] = removed[i]
          /\ inserting'[i] = inserting[i]
          /\ stats'[i] = stats[i]
    /\ pc'[j] = to
    /\ added'[j] = A
    /\ removed'[j] = R
    /\ inserting'[j] = I
    /\ stats'[j] = S

\* The rows R of job j are not locked by another one.
Unlocked(j, R) == \A i \in Jobs \ {j} : removed[i] \cap R = {}

NewVersions(j, f) == {[r EXCEPT !.g = f[r].g, !.x = f[r].x] : r \in Outdated(j)}

Fails(j) ==
    /\ pc[j] \notin {"finished", "failed"}
    /\ Effect(j, "failed", {}, {}, {}, stats[j])

Updates(j) ==
    /\ pc[j] = "update"
    /\ Unlocked(j, Outdated(j))
    /\ \E f \in [Outdated(j) -> temp[j]] :
          /\ \A r \in Outdated(j) : f[r].k = r.k /\ Differs(r, f[r])
          /\ Effect(j, "insert", NewVersions(j, f), Outdated(j), {},
                    [stats[j] EXCEPT !.updated = Cardinality(Outdated(j))])

ToInsert(j) == IF pc[j] = "insert" THEN Missing(j) ELSE inserting[j]

Inserts(j) ==
    /\ pc[j] \in {"insert", "blocked"}
    /\ Effect(j, AfterInsert(j), added[j] \cup ToInsert(j), removed[j], {},
              [stats[j] EXCEPT !.created = Cardinality(ToInsert(j))])

Waits(j) ==
    /\ pc[j] = "insert"
    /\ InsertedBy(j, Missing(j)) # {}
    /\ Effect(j, "blocked", added[j], removed[j], Missing(j), stats[j])

Deletes(j) ==
    /\ pc[j] = "delete"
    /\ Unlocked(j, Deprecated(j))
    /\ Effect(j, "commit", added[j] \ Deprecated(j),
              removed[j] \cup (Deprecated(j) \cap table), {},
              [stats[j] EXCEPT !.deleted = Cardinality(Deprecated(j))])

Counts(j) ==
    /\ pc[j] = "count"
    /\ Effect(j, "bulkdelete", {}, {}, {},
              [stats[j] EXCEPT !.deleted = Cardinality({r \in table : r.k # Null})])

BulkDeletes(j) ==
    /\ pc[j] = "bulkdelete"
    /\ Unlocked(j, table)
    /\ Effect(j, "insert", {}, table, {},
              IF layer.truncate THEN stats[j]
              ELSE [stats[j] EXCEPT !.deleted = Cardinality(table)])

Removes(j) ==
    /\ pc[j] = "remove"
    /\ Unlocked(j, ToRemove(j))
    /\ Effect(j, "commit", {}, ToRemove(j), {},
              [stats[j] EXCEPT !.deleted = Cardinality(ToRemove(j))])

\* What a job does when it starts.
Starts(j) ==
    /\ pc[j] = "queued"
    /\ UNCHANGED <<layer, type, table, pulled, added, removed, inserting, stats>>
    /\ \A i \in Jobs \ {j} :
          /\ pc'[i] = pc[i]
          /\ filter'[i] = filter[i]
          /\ temp'[i] = temp[i]
          /\ attributes'[i] = attributes[i]
    /\ \A i \in Jobs : overlapped[i] => overlapped'[i]
    /\ \A i \in Jobs \ {j} : InTransaction(i) => overlapped'[i] /\ overlapped'[j]
    /\ \/ /\ type[j] = "pull"
          /\ pc'[j] = IF ~ layer.bulk THEN "update"
                      ELSE IF layer.truncate THEN "count" ELSE "bulkdelete"
          /\ \E s \in Sources : temp'[j] = {TempRow(j, n, s[n]) : n \in DOMAIN s}
       \/ /\ type[j] = "remove"
          /\ pc'[j] = "remove"
          /\ temp'[j] = temp[j]

Stores(j) ==
    /\ pc[j] = "commit"
    /\ UNCHANGED <<layer, type, filter, temp, attributes, inserting, stats, overlapped>>
    /\ \A i \in Jobs \ {j} :
          /\ pc'[i] = pc[i]
          /\ added'[i] = added[i]
          /\ removed'[i] = removed[i]
    /\ pc'[j] = "finished"
    /\ added'[j] = {}
    /\ removed'[j] = {}
    /\ table' = View(j)
    /\ pulled' = IF FullPull(j) /\ ~ overlapped[j] THEN {Contents(temp[j])} ELSE {}

-----------------------------------------------------------------------------

\* A step keeps the types, but for the numbers.
LEMMA TypeStep == ASSUME TypeInv, [Next]_vars PROVE TypeInv'
<1> USE DEF TypeInv
<1>1. ASSUME NEW j \in Jobs, StartPull(j) PROVE TypeInv'
      BY <1>1 DEF StartPull, Goto, Begin, Labels
<1>2. ASSUME NEW j \in Jobs, StartRemove(j) PROVE TypeInv'
      BY <1>2 DEF StartRemove, Goto, Begin, Labels
<1>3. ASSUME NEW j \in Jobs, RemoveRefused(j) PROVE TypeInv'
      BY <1>3 DEF RemoveRefused, Goto, Labels, inputVars
<1>4. ASSUME NEW j \in Jobs, Rollback(j) PROVE TypeInv'
      BY <1>4 DEF Rollback, Labels, inputVars
<1>5. ASSUME NEW j \in Jobs, UpdateTarget(j) PROVE TypeInv'
      BY <1>5 DEF UpdateTarget, Goto, Write, Count, Labels, inputVars
<1>6. ASSUME NEW j \in Jobs, NEW R, InsertRows(j, R) PROVE TypeInv'
      BY <1>6 DEF InsertRows, AfterInsert, Write, Count, Labels, inputVars
<1>7. ASSUME NEW j \in Jobs, InsertWaits(j) PROVE TypeInv'
      BY <1>7 DEF InsertWaits, Goto, Labels, inputVars
<1>8. ASSUME NEW j \in Jobs, DeleteDeprecated(j) PROVE TypeInv'
      BY <1>8 DEF DeleteDeprecated, Goto, Write, Count, Labels, inputVars
<1>9. ASSUME NEW j \in Jobs, CountRows(j) PROVE TypeInv'
      BY <1>9 DEF CountRows, Goto, Count, Labels, inputVars
<1>10. ASSUME NEW j \in Jobs, BulkDelete(j) PROVE TypeInv'
      BY <1>10 DEF BulkDelete, Goto, Write, Count, Labels, inputVars
<1>11. ASSUME NEW j \in Jobs, RemoveRows(j) PROVE TypeInv'
      BY <1>11 DEF RemoveRows, Goto, Write, Count, Labels, inputVars
<1>12. ASSUME NEW j \in Jobs, Commit(j) PROVE TypeInv'
      BY <1>12 DEF Commit, Goto, Labels, inputVars
<1>13. ASSUME UNCHANGED vars PROVE TypeInv'
      BY <1>13 DEF vars
<1> QED BY <1>1, <1>2, <1>3, <1>4, <1>5, <1>6, <1>7, <1>8, <1>9, <1>10, <1>11,
           <1>12, <1>13 DEF Next, Statement, InsertMissing, InsertResumes,
           StatementFails, DeadlockDetected, Ended

Kinds(j) ==
    \/ Starts(j) \/ Fails(j) \/ Updates(j) \/ Inserts(j) \/ Waits(j) \/ Deletes(j)
    \/ Counts(j) \/ BulkDeletes(j) \/ Removes(j) \/ Stores(j)

\* In a transaction without deleted or written rows the view is the table.
LEMMA EmptyView ==
    ASSUME NEW j, added[j] = {}, removed[j] = {}
    PROVE  View(j) = table
BY DEF View

\* The step of every action is one of these.
LEMMA StepKinds ==
    ASSUME TransactionInv, Next
    PROVE  (\E j \in Jobs : Kinds(j)) \/ UNCHANGED vars
<1> USE DEF TransactionInv, TypeInv
<1>1. ASSUME NEW j \in Jobs, StartPull(j) PROVE Starts(j)
      BY <1>1 DEF StartPull, Starts, Goto, Begin
<1>2. ASSUME NEW j \in Jobs, StartRemove(j) PROVE Starts(j)
      BY <1>2 DEF StartRemove, Starts, Goto, Begin
<1>3. ASSUME NEW j \in Jobs, RemoveRefused(j) PROVE Fails(j)
      BY <1>3 DEF RemoveRefused, Fails, Effect, Goto, inputVars, RowsOf
<1>4. ASSUME NEW j \in Jobs, Rollback(j), pc[j] \notin {"finished", "failed"}
      PROVE  Fails(j)
      BY <1>4 DEF Rollback, Fails, Effect, inputVars
<1>5. ASSUME NEW j \in Jobs, UpdateTarget(j) PROVE Updates(j)
  <2>1. /\ pc[j] = "update" /\ added[j] = {} /\ removed[j] = {} /\ inserting[j] = {}
        /\ Outdated(j) \subseteq table
        BY <1>5, EmptyView DEF UpdateTarget, Goto, RowsOf, Outdated
  <2>2. Unlocked(j, Outdated(j))
        BY <1>5, <2>1 DEF UpdateTarget, Blockers, LockedBy, Unlocked
  <2>3. PICK f \in [Outdated(j) -> temp[j]] :
          /\ \A r \in Outdated(j) : f[r].k = r.k /\ Differs(r, f[r])
          /\ Write(j, Outdated(j), NewVersions(j, f))
        BY <1>5 DEF UpdateTarget, NewVersions
  <2>4. Effect(j, "insert", NewVersions(j, f), Outdated(j), {},
               [stats[j] EXCEPT !.updated = Cardinality(Outdated(j))])
        BY <1>5, <2>1, <2>3 DEF UpdateTarget, Goto, Write, Count, Effect, inputVars
  <2> QED BY <2>1, <2>2, <2>3, <2>4 DEF Updates
<1>6. ASSUME NEW j \in Jobs, InsertMissing(j) \/ InsertResumes(j)
      PROVE  Inserts(j) \/ Fails(j)
      BY <1>4, <1>6 DEF InsertMissing, InsertResumes, InsertRows, Inserts, ToInsert,
                  Write, Count, Effect, inputVars
<1>7. ASSUME NEW j \in Jobs, InsertWaits(j) PROVE Waits(j)
      BY <1>7 DEF InsertWaits, Goto, Waits, Effect, inputVars
<1>8. ASSUME NEW j \in Jobs, DeleteDeprecated(j) PROVE Deletes(j)
  <2>1. pc[j] = "delete" /\ inserting[j] = {}
        BY <1>8 DEF DeleteDeprecated, Goto, RowsOf
  <2>2. Unlocked(j, Deprecated(j))
        BY <1>8, <2>1 DEF DeleteDeprecated, Blockers, LockedBy, Unlocked
  <2> QED BY <1>8, <2>1, <2>2 DEF DeleteDeprecated, Deletes, Goto, Write, Count,
                                  Effect, inputVars
<1>9. ASSUME NEW j \in Jobs, CountRows(j) PROVE Counts(j)
  <2>1. /\ pc[j] = "count" /\ added[j] = {} /\ removed[j] = {} /\ inserting[j] = {}
        /\ View(j) = table
        BY <1>9, EmptyView DEF CountRows, Goto, RowsOf
  <2> QED BY <1>9, <2>1 DEF CountRows, Counts, Goto, Count, Effect, inputVars
<1>10. ASSUME NEW j \in Jobs, BulkDelete(j) PROVE BulkDeletes(j)
  <2>1. /\ pc[j] = "bulkdelete" /\ added[j] = {} /\ removed[j] = {}
        /\ inserting[j] = {} /\ View(j) = table
        BY <1>10, EmptyView DEF BulkDelete, Goto, RowsOf
  <2>2. Unlocked(j, table)
    <3>1. CASE Truncating(j)
      <4>1. \A i \in Jobs \ {j} : ~ InTransaction(i) \/ pc[i] = "remove"
            BY <1>10, <2>1, <3>1 DEF BulkDelete, Blockers, Users
      <4> QED BY <4>1 DEF InTransaction, RowsOf, Unlocked
    <3>2. CASE ~ Truncating(j)
          BY <1>10, <2>1, <3>2 DEF BulkDelete, Blockers, LockedBy, Unlocked
    <3> QED BY <3>1, <3>2
  <2> QED BY <1>10, <2>1, <2>2 DEF BulkDelete, BulkDeletes, Goto, Write,
                                   Count, Effect, inputVars
<1>11. ASSUME NEW j \in Jobs, RemoveRows(j) PROVE Removes(j)
  <2>1. /\ pc[j] = "remove" /\ added[j] = {} /\ removed[j] = {} /\ inserting[j] = {}
        /\ ToRemove(j) \subseteq table
        BY <1>11, EmptyView DEF RemoveRows, Goto, RowsOf, ToRemove
  <2>2. Unlocked(j, ToRemove(j))
        BY <1>11, <2>1 DEF RemoveRows, Blockers, LockedBy, Unlocked
  <2> QED BY <1>11, <2>1, <2>2 DEF RemoveRows, Removes, Goto, Write, Count,
                                   Effect, inputVars
<1>12. ASSUME NEW j \in Jobs, Commit(j) PROVE Stores(j)
      BY <1>12 DEF Commit, Stores, Goto, inputVars
<1>13. ASSUME NEW j \in Jobs, StatementFails(j) \/ DeadlockDetected(j) PROVE Fails(j)
  <2>1. Rollback(j) /\ pc[j] \notin {"finished", "failed"}
        BY <1>13 DEF StatementFails, DeadlockDetected, InTransaction, Blockers
  <2> QED BY <1>4, <2>1
<1> QED BY <1>1, <1>2, <1>3, <1>5, <1>6, <1>7, <1>8, <1>9, <1>10, <1>11, <1>12,
           <1>13 DEF Next, Statement, Ended, Kinds

\* What a job does to the others.
LEMMA OtherJobs ==
    ASSUME NEW j \in Jobs, Kinds(j)
    PROVE  /\ layer' = layer /\ type' = type
           /\ \A i \in Jobs \ {j} :
                 /\ pc'[i] = pc[i] /\ filter'[i] = filter[i] /\ temp'[i] = temp[i]
                 /\ attributes'[i] = attributes[i] /\ added'[i] = added[i]
                 /\ removed'[i] = removed[i] /\ inserting'[i] = inserting[i]
                 /\ stats'[i] = stats[i]
                 /\ overlapped[i] => overlapped'[i]
           /\ Stores(j) \/ (table' = table /\ pulled' = pulled)
BY DEF Kinds, Starts, Fails, Updates, Inserts, Waits, Deletes, Counts, BulkDeletes,
       Removes, Stores, Effect

\* Only Starts opens a transaction, and changes the inputs.
LEMMA OwnInputs ==
    ASSUME NEW j \in Jobs, Kinds(j), ~ Starts(j)
    PROVE  filter' = filter /\ temp' = temp /\ attributes' = attributes
           /\ overlapped' = overlapped
BY DEF Kinds, Fails, Updates, Inserts, Waits, Deletes, Counts, BulkDeletes,
       Removes, Stores, Effect

LEMMA PlaceStep ==
    ASSUME TransactionInv, NEW j \in Jobs, Kinds(j), NEW i \in Jobs
    PROVE  PlaceOf(i)'
<1>1. layer' = layer /\ type' = type /\ PlaceOf(i) /\ PlaceOf(j)
      BY OtherJobs DEF TransactionInv
<1>2. CASE i # j
      BY <1>1, <1>2, OtherJobs DEF PlaceOf, AllowDeletion
<1>3. ASSUME Starts(j) PROVE PlaceOf(j)'
      BY <1>1, <1>3 DEF Starts, PlaceOf, AllowDeletion
<1>4. ASSUME ~ Starts(j) PROVE PlaceOf(j)'
      BY <1>1, <1>4, OwnInputs DEF Kinds, Fails, Updates, Inserts, Waits, Deletes,
            Counts, BulkDeletes, Removes, Stores, Effect, PlaceOf, AllowDeletion,
            AfterInsert
<1> QED BY <1>2, <1>3, <1>4

LEMMA LocksStep ==
    ASSUME TransactionInv, NEW j \in Jobs, Kinds(j)
    PROVE  LocksInv'
<1>1. LocksInv /\ \A i \in Jobs \ {j} : removed'[i] = removed[i]
      BY OtherJobs DEF TransactionInv
<1>2. \A i \in Jobs \ {j} : removed'[j] \cap removed[i] = {}
  <2>1. \A i \in Jobs \ {j} : removed[j] \cap removed[i] = {}
        BY <1>1 DEF LocksInv
  <2>2. CASE Starts(j) \/ Fails(j) \/ Inserts(j) \/ Waits(j) \/ Counts(j) \/ Stores(j)
        BY <2>1, <2>2 DEF Starts, Fails, Inserts, Waits, Counts, Stores, Effect
  <2>3. CASE Updates(j) \/ BulkDeletes(j) \/ Removes(j)
        BY <2>3 DEF Updates, BulkDeletes, Removes, Effect, Unlocked
  <2>4. CASE Deletes(j)
        BY <2>1, <2>4 DEF Deletes, Effect, Unlocked
  <2> QED BY <2>2, <2>3, <2>4 DEF Kinds
<1> QED BY <1>1, <1>2 DEF LocksInv

LEMMA AloneStep ==
    ASSUME TransactionInv, NEW j \in Jobs, Kinds(j)
    PROVE  AloneInv'
<1>1. /\ AloneInv
      /\ \A i \in Jobs \ {j} : pc'[i] = pc[i] /\ (overlapped[i] => overlapped'[i])
      BY OtherJobs DEF TransactionInv
<1>2. CASE Starts(j)
      BY <1>1, <1>2 DEF Starts, AloneInv, InTransaction
<1>3. CASE ~ Starts(j)
  <2>1. InTransaction(j)' => InTransaction(j)
        BY <1>3 DEF Kinds, Fails, Updates, Inserts, Waits, Deletes, Counts,
                    BulkDeletes, Removes, Stores, Effect, InTransaction
  <2> QED BY <1>1, <1>3, <2>1, OwnInputs DEF AloneInv, InTransaction
<1> QED BY <1>2, <1>3

\* Identities that belong to two jobs are different.
LEMMA OwnIdsDisjoint ==
    ASSUME NEW i, NEW j, i # j
    PROVE  OwnIds(i) \cap OwnIds(j) = {}
BY DEF OwnIds

\* The insert keeps identity, key and geometry.
LEMMA InsertedRow ==
    ASSUME NEW t, IsRow(t)
    PROVE  /\ Inserted(t).id = t.id /\ Inserted(t).k = t.k /\ Inserted(t).g = t.g
           /\ Inserted(t).x = IF layer.provided THEN t.x ELSE layer.default
           /\ IsRow(Inserted(t))
<1> DEFINE i == t.id
           k == t.k
           g == t.g
           x == IF layer.provided THEN t.x ELSE layer.default
           q == Inserted(t)
<1>1. t \in [id : {i}, k : {k}, g : {g}, x : {t.x}]
      BY DEF IsRow
<1>2. q = [t EXCEPT !.x = x]
      BY DEF Inserted
<1> HIDE DEF i, k, g, x, q
<1>3. q \in [id : {i}, k : {k}, g : {g}, x : {x}]
      BY <1>1, <1>2
<1>4. q.id = i /\ q.k = k /\ q.g = g /\ q.x = x /\ IsRow(q)
      BY <1>3 DEF IsRow
<1> QED BY <1>4 DEF i, k, g, x, q

\* What a pull inserts are new rows with the keys and geometries of its source.
LEMMA InsertedFacts ==
    ASSUME NEW j, RowsOf(j)
    PROVE  /\ IsFiniteSet(AsInserted(j))
           /\ \A s \in AsInserted(j) : IsRow(s) /\ s.id \in OwnIds(j)
           /\ DistinctIds(AsInserted(j))
           /\ Missing(j) \subseteq AsInserted(j)
           /\ \A t \in temp[j] :
                 /\ Inserted(t).k = t.k /\ Inserted(t).g = t.g
                 /\ InsertsWhatItCompares => Inserted(t).x = t.x
           /\ \A s \in AsInserted(j) : \E t \in temp[j] : s = Inserted(t)
<1>1. \A t \in temp[j] :
        /\ IsRow(t) /\ t.id \in OwnIds(j) /\ (layer.provided \/ t.x = Null)
        /\ Inserted(t).id = t.id /\ Inserted(t).k = t.k /\ Inserted(t).g = t.g
        /\ Inserted(t).x = IF layer.provided THEN t.x ELSE layer.default
        /\ IsRow(Inserted(t))
      BY InsertedRow DEF RowsOf
<1>2. IsFiniteSet(AsInserted(j))
  <2> DEFINE h == [t \in temp[j] |-> Inserted(t)]
  <2>1. h \in Surjection(temp[j], AsInserted(j))
        BY DEF Surjection, AsInserted
  <2>2. IsFiniteSet(temp[j])
        BY DEF RowsOf
  <2> HIDE DEF h
  <2> QED BY <2>1, <2>2, FS_Surjection
<1>3. \A s \in AsInserted(j) : IsRow(s) /\ s.id \in OwnIds(j)
      BY <1>1 DEF AsInserted
<1>4. DistinctIds(AsInserted(j))
      BY <1>1 DEF AsInserted, DistinctIds, RowsOf
<1>5. Missing(j) \subseteq AsInserted(j)
      BY DEF Missing, AsInserted
<1>6. \A t \in temp[j] : InsertsWhatItCompares => Inserted(t).x = t.x
      BY <1>1 DEF InsertsWhatItCompares
<1> QED BY <1>1, <1>2, <1>3, <1>4, <1>5, <1>6 DEF AsInserted

\* A row that a transaction has written replaces the row with its identity.
LEMMA WrittenReplaces ==
    ASSUME TransactionInv, NEW j \in Jobs, NEW s \in added[j], NEW r \in table,
           r.id = s.id
    PROVE  r \in removed[j]
<1>1. RowsOf(j) /\ TableInv
      BY DEF TransactionInv
<1>2. pc[j] # "finished"
      BY <1>1 DEF RowsOf
<1>3. s \notin AsInserted(j)
      BY <1>1, <1>2, InsertedFacts DEF TableInv
<1>4. PICK q \in removed[j] : q.id = s.id
      BY <1>1, <1>3 DEF RowsOf, Replaces
<1>5. q \in table
      BY <1>1 DEF RowsOf
<1> QED BY <1>1, <1>4, <1>5 DEF TableInv, DistinctIds

LEMMA TableStep ==
    ASSUME TransactionInv, NEW j \in Jobs, Kinds(j)
    PROVE  TableInv'
<1>1. TableInv /\ RowsOf(j)
      BY DEF TransactionInv
<1>2. CASE ~ Stores(j)
  <2>1. \A i \in Jobs : pc'[i] # "finished" => pc[i] # "finished"
        BY <1>2, OtherJobs DEF Kinds, Starts, Fails, Updates, Inserts, Waits,
             Deletes, Counts, BulkDeletes, Removes, Effect, AfterInsert
  <2> QED BY <1>1, <1>2, <2>1, OtherJobs DEF TableInv
<1>3. CASE Stores(j)
  <2>1. table' = (table \ removed[j]) \cup added[j] /\ pc'[j] = "finished"
        BY <1>3 DEF Stores, View
  <2>2. IsFiniteSet(table')
        BY <1>1, <2>1, FS_Difference, FS_Union DEF TableInv, RowsOf
  <2>3. \A r \in table' : IsRow(r)
        BY <1>1, <2>1 DEF TableInv, RowsOf
  <2>4. DistinctIds(table')
        BY <1>1, <2>1, WrittenReplaces DEF TableInv, RowsOf, DistinctIds
  <2>5. ASSUME NEW i \in Jobs, pc'[i] # "finished", NEW r \in table'
        PROVE  r.id \notin OwnIds(i)
    <3>1. i # j /\ pc[i] # "finished"
          BY <2>1, <2>5, <1>3 DEF Stores
    <3>2. CASE r \in AsInserted(j)
          BY <1>1, <3>1, <3>2, OwnIdsDisjoint, InsertedFacts
    <3>3. CASE r \notin AsInserted(j)
      <4>1. r \in table \/ \E q \in table : q.id = r.id
            BY <1>1, <2>1, <2>5, <3>3 DEF RowsOf, Replaces
      <4> QED BY <1>1, <3>1, <4>1 DEF TableInv
    <3> QED BY <3>2, <3>3
  <2> QED BY <2>2, <2>3, <2>4, <2>5 DEF TableInv
<1> QED BY <1>2, <1>3

\* The temporary table has the features of its source, which are new rows.
LEMMA SourceRows ==
    ASSUME NEW j, NEW s \in Sources, NEW R,
           R = {TempRow(j, n, s[n]) : n \in DOMAIN s}
    PROVE  /\ IsFiniteSet(R)
           /\ \A t \in R :
                 IsRow(t) /\ t.id \in OwnIds(j) /\ (layer.provided \/ t.x = Null)
           /\ DistinctIds(R)
<1>1. IsFiniteSet(R)
  <2> DEFINE h == [n \in DOMAIN s |-> TempRow(j, n, s[n])]
  <2>1. h \in Surjection(DOMAIN s, R)
        BY DEF Surjection
  <2>2. IsFiniteSet(DOMAIN s)
        BY SourcesAssumption
  <2> HIDE DEF h
  <2> QED BY <2>1, <2>2, FS_Surjection
<1>2. \A n \in DOMAIN s :
        /\ TempRow(j, n, s[n]).id = <<j, n>> /\ IsRow(TempRow(j, n, s[n]))
        /\ layer.provided \/ TempRow(j, n, s[n]).x = Null
      BY DEF TempRow, IsRow
<1>3. \A n \in DOMAIN s : <<j, n>> \in OwnIds(j)
      BY DEF OwnIds
<1>4. DistinctIds(R)
  <2> SUFFICES ASSUME NEW m \in DOMAIN s, NEW n \in DOMAIN s,
                      TempRow(j, m, s[m]).id = TempRow(j, n, s[n]).id
               PROVE  TempRow(j, m, s[m]) = TempRow(j, n, s[n])
      BY DEF DistinctIds
  <2>1. m = n
        BY <1>2
  <2> QED BY <2>1
<1> QED BY <1>1, <1>2, <1>3, <1>4

\* An update keeps identity and key.
LEMMA UpdatedRow ==
    ASSUME NEW r, IsRow(r), NEW a, NEW b
    PROVE  LET q == [r EXCEPT !.g = a, !.x = b]
           IN  q.id = r.id /\ q.k = r.k /\ q.g = a /\ q.x = b /\ IsRow(q)
<1> DEFINE i == r.id
           k == r.k
           q == [r EXCEPT !.g = a, !.x = b]
<1>1. r \in [id : {i}, k : {k}, g : {r.g}, x : {r.x}]
      BY DEF IsRow
<1> HIDE DEF i, k
<1>2. q \in [id : {i}, k : {k}, g : {a}, x : {b}]
      BY <1>1
<1> HIDE DEF q
<1>3. q.id = i /\ q.k = k /\ q.g = a /\ q.x = b /\ IsRow(q)
      BY <1>2 DEF IsRow
<1> QED BY <1>3 DEF i, k, q

\* The update writes one new version of every outdated row.
LEMMA UpdatedRows ==
    ASSUME TransactionInv, NEW j \in Jobs, pc[j] = "update",
           NEW f \in [Outdated(j) -> temp[j]]
    PROVE  /\ Outdated(j) \subseteq table
           /\ IsFiniteSet(NewVersions(j, f))
           /\ Cardinality(NewVersions(j, f)) = Cardinality(Outdated(j))
           /\ DistinctIds(NewVersions(j, f))
           /\ \A q \in NewVersions(j, f) : IsRow(q) /\ \E r \in Outdated(j) :
                 q.id = r.id /\ q.k = r.k /\ q.g = f[r].g /\ q.x = f[r].x
           /\ \A r \in Outdated(j) : \E q \in NewVersions(j, f) : q.id = r.id
<1>1. TableInv /\ RowsOf(j)
      BY DEF TransactionInv
<1>2. Outdated(j) \subseteq table
      BY <1>1, EmptyView DEF RowsOf, Outdated
<1>3. IsFiniteSet(Outdated(j)) /\ \A r \in Outdated(j) : IsRow(r)
      BY <1>1, <1>2, FS_Subset DEF TableInv
<1> DEFINE v(r) == [r EXCEPT !.g = f[r].g, !.x = f[r].x]
<1>4. \A r \in Outdated(j) :
        v(r).id = r.id /\ v(r).k = r.k /\ v(r).g = f[r].g /\ v(r).x = f[r].x /\ IsRow(v(r))
      BY <1>3, UpdatedRow
<1>5. NewVersions(j, f) = {v(r) : r \in Outdated(j)}
      BY DEF NewVersions
<1> HIDE DEF v
<1>6. \A r, s \in Outdated(j) : v(r).id = v(s).id => r = s
      BY <1>1, <1>2, <1>4 DEF TableInv, DistinctIds
<1>7. ExistsBijection(Outdated(j), NewVersions(j, f))
  <2> DEFINE h == [r \in Outdated(j) |-> v(r)]
  <2>1. h \in [Outdated(j) -> NewVersions(j, f)]
        BY <1>5
  <2>2. h \in Injection(Outdated(j), NewVersions(j, f))
        BY <1>6, <2>1 DEF Injection, IsInjective
  <2>3. h \in Surjection(Outdated(j), NewVersions(j, f))
        BY <1>5, <2>1 DEF Surjection
  <2> QED BY <2>2, <2>3 DEF Bijection, ExistsBijection
<1>8. /\ IsFiniteSet(NewVersions(j, f))
      /\ Cardinality(NewVersions(j, f)) = Cardinality(Outdated(j))
      BY <1>3, <1>7, FS_Bijection
<1>9. DistinctIds(NewVersions(j, f))
      BY <1>5, <1>6 DEF DistinctIds
<1> QED BY <1>2, <1>4, <1>5, <1>8, <1>9

LEMMA RowsStep ==
    ASSUME TransactionInv, NEW j \in Jobs, Kinds(j), NEW i \in Jobs
    PROVE  RowsOf(i)'
<1>1. RowsOf(i) /\ RowsOf(j) /\ TableInv /\ LocksInv /\ PlaceOf(j) /\ pc[j] \in Labels
      BY DEF TransactionInv, TypeInv
<1>2. CASE i # j
  <2>1. removed[i] \subseteq table'
        BY <1>1, <1>2, OtherJobs DEF RowsOf, Stores, View, LocksInv
  <2>2. AsInserted(i)' = AsInserted(i) /\ layer' = layer
        BY <1>2, OtherJobs DEF AsInserted, Inserted
  <2> QED BY <1>1, <1>2, <2>1, <2>2, OtherJobs DEF RowsOf, Replaces
<1>0. ASSUME temp' = temp, layer' = layer PROVE AsInserted(j)' = AsInserted(j)
      BY <1>0 DEF AsInserted, Inserted
<1>3. ASSUME Starts(j) PROVE RowsOf(j)'
  <2>1. added[j] = {} /\ removed[j] = {} /\ inserting[j] = {}
        BY <1>1, <1>3 DEF Starts, RowsOf
  <2>2. /\ IsFiniteSet(temp'[j])
        /\ \A t \in temp'[j] :
              IsRow(t) /\ t.id \in OwnIds(j) /\ (layer.provided \/ t.x = Null)
        /\ DistinctIds(temp'[j])
        BY <1>1, <1>3, SourceRows DEF Starts, RowsOf
  <2>3. pc'[j] \notin {"insert", "blocked", "delete", "commit"}
        BY <1>3 DEF Starts
  <2> QED BY <1>3, <2>1, <2>2, <2>3, FS_EmptySet DEF Starts, RowsOf, DistinctIds
<1>4. ASSUME Fails(j) \/ Counts(j) PROVE RowsOf(j)'
      BY <1>1, <1>4, FS_EmptySet DEF Fails, Counts, Effect, RowsOf, DistinctIds
<1>5. ASSUME Updates(j) PROVE RowsOf(j)'
  <2>1. pc[j] = "update" /\ ~ layer.bulk
        BY <1>1, <1>5 DEF Updates, PlaceOf
  <2>2. PICK f \in [Outdated(j) -> temp[j]] :
          Effect(j, "insert", NewVersions(j, f), Outdated(j), {},
                 [stats[j] EXCEPT !.updated = Cardinality(Outdated(j))])
        BY <1>5 DEF Updates
  <2>3. \A q \in NewVersions(j, f) : IsRow(q) /\ Replaces(j, q)'
        BY <2>1, <2>2, UpdatedRows DEF Effect, Replaces
  <2> QED BY <1>1, <2>1, <2>2, <2>3, UpdatedRows DEF Effect, RowsOf
<1>6. ASSUME Inserts(j) PROVE RowsOf(j)'
  <2>1. ToInsert(j) \subseteq AsInserted(j)
        BY <1>1, InsertedFacts DEF ToInsert, RowsOf
  <2>2. IsFiniteSet(ToInsert(j)) /\ IsFiniteSet(added[j] \cup ToInsert(j))
        BY <1>1, <2>1, InsertedFacts, FS_Subset, FS_Union DEF RowsOf
  <2>3. pc'[j] \in {"delete", "commit"}
        BY <1>6 DEF Inserts, Effect, AfterInsert
  <2>4. \A s \in added[j] : s.id \notin OwnIds(j)
        BY <1>1, <1>6 DEF Inserts, RowsOf, Replaces, TableInv
  <2>5. DistinctIds(added[j] \cup ToInsert(j))
        BY <1>1, <2>1, <2>4, InsertedFacts DEF RowsOf, DistinctIds
  <2>6. /\ temp' = temp /\ table' = table /\ removed'[j] = removed[j] /\ layer' = layer
        /\ inserting'[j] = {} /\ added'[j] = added[j] \cup ToInsert(j)
        BY <1>6 DEF Inserts, Effect
  <2>7. AsInserted(j)' = AsInserted(j) /\ \A s \in ToInsert(j) : IsRow(s)
        BY <1>0, <1>1, <2>1, <2>6, InsertedFacts
  <2> QED BY <1>1, <2>1, <2>2, <2>3, <2>5, <2>6, <2>7 DEF RowsOf, Replaces
<1>7. ASSUME Waits(j) PROVE RowsOf(j)'
  <2>1. Missing(j) \subseteq AsInserted(j) /\ AsInserted(j)' = AsInserted(j)
        BY <1>0, <1>1, <1>7, InsertedFacts DEF Waits, Effect
  <2> QED BY <1>1, <1>7, <2>1 DEF Waits, Effect, RowsOf, Replaces
<1>8. ASSUME Deletes(j) PROVE RowsOf(j)'
  <2>1. /\ temp' = temp /\ table' = table /\ pc'[j] = "commit" /\ inserting'[j] = {}
        /\ layer' = layer
        /\ added'[j] = added[j] \ Deprecated(j)
        /\ removed'[j] = removed[j] \cup (Deprecated(j) \cap table)
        BY <1>8 DEF Deletes, Effect
  <2>2. IsFiniteSet(added[j] \ Deprecated(j))
        BY <1>1, FS_Difference DEF RowsOf
  <2> QED BY <1>0, <1>1, <2>1, <2>2 DEF RowsOf, Replaces, DistinctIds
<1>9. ASSUME BulkDeletes(j) PROVE RowsOf(j)'
      BY <1>1, <1>9, FS_EmptySet DEF BulkDeletes, Effect, RowsOf, DistinctIds
<1>10. ASSUME Removes(j) PROVE RowsOf(j)'
  <2>1. ToRemove(j) \subseteq table
        BY <1>1, <1>10, EmptyView DEF Removes, RowsOf, ToRemove
  <2> QED BY <1>1, <1>10, <2>1, FS_EmptySet DEF Removes, Effect, RowsOf, DistinctIds
<1>11. ASSUME Stores(j) PROVE RowsOf(j)'
      BY <1>1, <1>11, FS_EmptySet DEF Stores, RowsOf, DistinctIds
<1> QED BY <1>2, <1>3, <1>4, <1>5, <1>6, <1>7, <1>8, <1>9, <1>10, <1>11 DEF Kinds

LEMMA TransactionStep == ASSUME TransactionInv, [Next]_vars PROVE TransactionInv'
<1>1. TypeInv'
      BY TypeStep DEF TransactionInv
<1>2. ASSUME NEW j \in Jobs, Kinds(j) PROVE TransactionInv'
      BY <1>1, <1>2, PlaceStep, LocksStep, AloneStep, TableStep, RowsStep
         DEF TransactionInv
<1>3. CASE UNCHANGED vars
      BY <1>3 DEF vars, TransactionInv, TypeInv, TableInv, LocksInv, AloneInv,
                  InTransaction, PlaceOf, AllowDeletion, RowsOf, Replaces,
                  AsInserted, Inserted
<1> QED BY <1>2, <1>3, StepKinds

-----------------------------------------------------------------------------
(* The statistics                                                           *)

\* A job that runs alone finds the table as it was: nobody else commits.
LEMMA AloneKeepsTable ==
    ASSUME TransactionInv, NEW j \in Jobs, Kinds(j), NEW i \in Jobs \ {j},
           InTransaction(i), ~ overlapped'[i]
    PROVE  /\ ~ overlapped[i]
           /\ table' = table /\ pulled' = pulled
           /\ added'[i] = added[i] /\ removed'[i] = removed[i]
           /\ temp'[i] = temp[i] /\ pc'[i] = pc[i]
<1>1. ~ overlapped[i] /\ AloneInv
      BY OtherJobs DEF TransactionInv
<1>2. ~ Stores(j)
      BY <1>1 DEF AloneInv, Stores, InTransaction
<1> QED BY <1>1, <1>2, OtherJobs

\* The rows to insert are not among those the transaction has written.
LEMMA InsertedRows ==
    ASSUME TransactionInv, NEW j \in Jobs, Inserts(j)
    PROVE  /\ ToInsert(j) \subseteq AsInserted(j)
           /\ IsFiniteSet(ToInsert(j))
           /\ Cardinality(ToInsert(j)) \in Nat
           /\ Cardinality(added[j] \cup ToInsert(j))
                 = Cardinality(added[j]) + Cardinality(ToInsert(j))
<1>1. RowsOf(j) /\ TableInv
      BY DEF TransactionInv
<1>2. ToInsert(j) \subseteq AsInserted(j)
      BY <1>1, InsertedFacts DEF ToInsert, RowsOf
<1>3. IsFiniteSet(ToInsert(j)) /\ IsFiniteSet(added[j])
      BY <1>1, <1>2, InsertedFacts, FS_Subset DEF RowsOf
<1>4. \A s \in added[j] : s.id \notin OwnIds(j)
      BY <1>1 DEF Inserts, RowsOf, Replaces, TableInv
<1>5. added[j] \cap ToInsert(j) = {}
      BY <1>1, <1>2, <1>4, InsertedFacts
<1>6. Cardinality(added[j]) \in Nat /\ Cardinality(ToInsert(j)) \in Nat
      BY <1>3, FS_CardinalityType
<1>7. Cardinality(added[j] \cup ToInsert(j))
          = Cardinality(added[j]) + Cardinality(ToInsert(j)) - 0
      BY <1>3, <1>5, FS_Union, FS_EmptySet
<1> QED BY <1>2, <1>3, <1>6, <1>7

\* Every deleted row is either one that the transaction has written or one
\* that it newly takes from the table.
LEMMA DeletedRows ==
    ASSUME TransactionInv, NEW j \in Jobs, NEW old, old \subseteq View(j)
    PROVE  /\ IsFiniteSet(old) /\ Cardinality(old) \in Nat
           /\ Cardinality(added[j] \ old) \in Nat
           /\ Cardinality(removed[j] \cup (old \cap table)) \in Nat
           /\ Cardinality(added[j]) \in Nat /\ Cardinality(removed[j]) \in Nat
           /\ Cardinality(added[j] \ old) + Cardinality(old) + Cardinality(removed[j])
                 = Cardinality(added[j]) + Cardinality(removed[j] \cup (old \cap table))
<1>1. RowsOf(j) /\ TableInv
      BY DEF TransactionInv
<1> DEFINE own == old \cap added[j]
           new == old \cap (table \ removed[j])
<1>2. /\ IsFiniteSet(added[j]) /\ IsFiniteSet(table) /\ IsFiniteSet(removed[j])
      /\ IsFiniteSet(own) /\ IsFiniteSet(new)
      BY <1>1, FS_Subset DEF RowsOf, TableInv
<1>3. added[j] \cap (table \ removed[j]) = {}
      BY WrittenReplaces
<1>4. /\ old = own \cup new /\ own \cap new = {}
      /\ removed[j] \cup (old \cap table) = removed[j] \cup new
      /\ removed[j] \cap new = {}
      /\ added[j] \cap old = own
      BY <1>3 DEF View
<1> HIDE DEF own, new
<1>5. IsFiniteSet(old) /\ Cardinality(old) = Cardinality(own) + Cardinality(new) - 0
      BY <1>2, <1>4, FS_Union, FS_EmptySet
<1>6. /\ IsFiniteSet(removed[j] \cup new)
      /\ Cardinality(removed[j] \cup new) = Cardinality(removed[j]) + Cardinality(new) - 0
      BY <1>2, <1>4, FS_Union, FS_EmptySet
<1>7. /\ IsFiniteSet(added[j] \ old)
      /\ Cardinality(added[j] \ old) = Cardinality(added[j]) - Cardinality(own)
      BY <1>2, <1>4, FS_Difference
<1>8. /\ Cardinality(own) \in Nat /\ Cardinality(new) \in Nat
      /\ Cardinality(added[j]) \in Nat /\ Cardinality(removed[j]) \in Nat
      /\ Cardinality(old) \in Nat /\ Cardinality(added[j] \ old) \in Nat
      /\ Cardinality(removed[j] \cup new) \in Nat
      BY <1>2, <1>5, <1>6, <1>7, FS_CardinalityType
<1>9. Cardinality(removed[j] \cup (old \cap table)) = Cardinality(removed[j] \cup new)
      BY <1>4
<1>10. Cardinality(added[j] \ old) + Cardinality(old) + Cardinality(removed[j])
          = Cardinality(added[j]) + Cardinality(removed[j] \cup new)
      BY <1>5, <1>6, <1>7, <1>8
<1> QED BY <1>5, <1>8, <1>9, <1>10

LEMMA StatsStep ==
    ASSUME TransactionInv, NEW j \in Jobs, Kinds(j), NEW i \in Jobs,
           StatsOf(i), StatsOf(j)
    PROVE  StatsOf(i)'
<1>1. /\ RowsOf(j) /\ PlaceOf(j) /\ TableInv /\ pc[j] \in Labels
      /\ layer' = layer /\ type' = type
      BY OtherJobs DEF TransactionInv, TypeInv
<1>2. stats[j] \in [created : Nat, updated : Nat, deleted : Nat]
      BY DEF StatsOf
<1>3. IsFiniteSet(table) /\ Cardinality(table) \in Nat
      BY <1>1, FS_CardinalityType DEF TableInv
<1>4. CASE i # j
  <2>1. /\ pc'[i] = pc[i] /\ added'[i] = added[i] /\ removed'[i] = removed[i]
        /\ stats'[i] = stats[i]
        BY <1>4, OtherJobs
  <2>2. InTransaction(i) /\ ~ overlapped'[i] => ~ overlapped[i] /\ table' = table
        BY <1>4, AloneKeepsTable
  <2>3. ASSUME Truncating(i), ~ overlapped'[i],
               pc[i] \in {"bulkdelete", "insert", "blocked", "commit"}
        PROVE  stats[i].deleted = Cardinality({r \in table : r.k # Null}) /\ table' = table
        BY <2>2, <2>3 DEF StatsOf, InTransaction
  <2>4. Truncating(i)' <=> Truncating(i)
        BY <1>1 DEF Truncating
  <2>5. InTransaction(i)' <=> InTransaction(i)
        BY <2>1 DEF InTransaction
  <2> QED BY <1>1, <2>1, <2>3, <2>4, <2>5 DEF StatsOf
<1>5. ASSUME Starts(j) PROVE StatsOf(j)'
  <2>1. /\ stats'[j] = stats[j] /\ stats[j] = Zero /\ added'[j] = {} /\ removed'[j] = {}
        /\ pc'[j] \in {"update", "count", "bulkdelete", "remove"}
        /\ pc'[j] = "bulkdelete" => ~ layer.truncate
        BY <1>1, <1>5 DEF Starts, StatsOf, RowsOf
  <2>2. stats'[j].created = 0 /\ stats'[j].deleted = 0 /\ stats'[j] = Zero
        BY <2>1 DEF Zero
  <2>3. ~ (Truncating(j)' /\ pc'[j] \in {"bulkdelete", "insert", "blocked", "commit"})
        BY <1>1, <2>1 DEF Truncating
  <2> QED BY <1>2, <2>1, <2>2, <2>3, FS_EmptySet DEF StatsOf
<1>6. ASSUME Fails(j) \/ Stores(j) PROVE StatsOf(j)'
  <2>1. stats'[j] = stats[j] /\ pc'[j] \in {"finished", "failed"}
        BY <1>6 DEF Fails, Stores, Effect
  <2>2. ~ InTransaction(j)'
        BY <2>1 DEF InTransaction
  <2> QED BY <1>2, <2>1, <2>2 DEF StatsOf
<1>7. ASSUME Updates(j) PROVE StatsOf(j)'
  <2>1. pc[j] = "update" /\ ~ layer.bulk /\ stats[j] = Zero
        BY <1>1, <1>7 DEF Updates, PlaceOf, StatsOf
  <2>2. PICK f \in [Outdated(j) -> temp[j]] :
          Effect(j, "insert", NewVersions(j, f), Outdated(j), {},
                 [stats[j] EXCEPT !.updated = Cardinality(Outdated(j))])
        BY <1>7 DEF Updates
  <2>3. /\ Cardinality(NewVersions(j, f)) = Cardinality(Outdated(j))
        /\ Outdated(j) \subseteq table
        BY <2>1, UpdatedRows
  <2>4. Cardinality(Outdated(j)) \in Nat
        BY <1>3, <2>3, FS_Subset, FS_CardinalityType
  <2> QED BY <1>1, <2>1, <2>2, <2>3, <2>4 DEF Effect, StatsOf, Zero, Truncating
<1>8. ASSUME Inserts(j) PROVE StatsOf(j)'
  <2> DEFINE n == Cardinality(ToInsert(j))
  <2>1. /\ stats'[j] = [stats[j] EXCEPT !.created = n]
        /\ Cardinality(added'[j]) = Cardinality(added[j]) + n
        /\ removed'[j] = removed[j]
        /\ n \in Nat
        BY <1>8, InsertedRows DEF Inserts, Effect
  <2>2. /\ pc'[j] \in {"delete", "commit"} /\ pc[j] \in {"insert", "blocked"}
        /\ type[j] = "pull" /\ table' = table /\ overlapped' = overlapped
        BY <1>1, <1>8 DEF Inserts, Effect, AfterInsert, PlaceOf
  <2>3. Cardinality(added[j]) \in Nat /\ Cardinality(removed[j]) \in Nat
        BY <1>1, FS_Subset, FS_CardinalityType DEF RowsOf, TableInv
  <2>4. InTransaction(j) /\ stats[j].created = 0
        BY <2>2 DEF StatsOf, InTransaction
  <2> HIDE DEF n
  <2> QED BY <1>1, <1>2, <2>1, <2>2, <2>3, <2>4 DEF StatsOf, Truncating
<1>9. ASSUME Waits(j) PROVE StatsOf(j)'
  <2>1. /\ pc[j] = "insert" /\ pc'[j] = "blocked" /\ added'[j] = added[j]
        /\ removed'[j] = removed[j] /\ stats'[j] = stats[j]
        /\ table' = table /\ overlapped' = overlapped
        BY <1>9 DEF Waits, Effect
  <2> QED BY <1>1, <2>1 DEF StatsOf, InTransaction, Truncating
<1>10. ASSUME Deletes(j) PROVE StatsOf(j)'
  <2> DEFINE old == Deprecated(j)
  <2>1. /\ pc[j] = "delete" /\ pc'[j] = "commit"
        /\ added'[j] = added[j] \ old /\ removed'[j] = removed[j] \cup (old \cap table)
        /\ stats'[j] = [stats[j] EXCEPT !.deleted = Cardinality(old)]
        BY <1>10 DEF Deletes, Effect
  <2>2. ~ layer.bulk /\ stats[j].deleted = 0 /\ InTransaction(j)
        BY <1>1, <2>1 DEF PlaceOf, StatsOf, InTransaction
  <2>3. Cardinality(added[j]) + 0 = Cardinality(removed[j]) + stats[j].created
        BY <2>2 DEF StatsOf, Truncating
  <2>4. old \subseteq View(j)
        BY DEF Deprecated
  <2> HIDE DEF old
  <2>5. /\ Cardinality(old) \in Nat
        /\ Cardinality(added'[j]) \in Nat /\ Cardinality(removed'[j]) \in Nat
        /\ Cardinality(added[j]) \in Nat /\ Cardinality(removed[j]) \in Nat
        /\ Cardinality(added'[j]) + Cardinality(old) + Cardinality(removed[j])
              = Cardinality(added[j]) + Cardinality(removed'[j])
        BY <2>1, <2>4, DeletedRows
  <2>6. /\ stats'[j] \in [created : Nat, updated : Nat, deleted : Nat]
        /\ stats'[j].deleted = Cardinality(old) /\ stats'[j].created = stats[j].created
        BY <1>2, <2>1, <2>5
  <2>7. Cardinality(added'[j]) + stats'[j].deleted
          = Cardinality(removed'[j]) + stats'[j].created
        BY <1>2, <2>3, <2>5, <2>6
  <2> QED BY <1>1, <2>1, <2>2, <2>6, <2>7 DEF StatsOf, Truncating
<1>11. ASSUME Counts(j) PROVE StatsOf(j)'
  <2>1. /\ pc[j] = "count" /\ pc'[j] = "bulkdelete" /\ table' = table
        /\ stats'[j] = [Zero EXCEPT !.deleted = Cardinality({r \in table : r.k # Null})]
        /\ Truncating(j) /\ layer.bulk
        BY <1>1, <1>11 DEF Counts, Effect, StatsOf, PlaceOf, Truncating
  <2>2. Cardinality({r \in table : r.k # Null}) \in Nat
        BY <1>3, FS_Subset, FS_CardinalityType
  <2>3. /\ stats'[j] \in [created : Nat, updated : Nat, deleted : Nat]
        /\ stats'[j].created = 0
        /\ stats'[j].deleted = Cardinality({r \in table : r.k # Null})
        BY <2>1, <2>2 DEF Zero
  <2>4. Truncating(j)'
        BY <1>1, <2>1 DEF Truncating
  <2> QED BY <2>1, <2>3, <2>4 DEF StatsOf
<1>12. ASSUME BulkDeletes(j) PROVE StatsOf(j)'
  <2>1. /\ pc[j] = "bulkdelete" /\ pc'[j] = "insert" /\ table' = table
        /\ added'[j] = {} /\ removed'[j] = table /\ overlapped' = overlapped
        /\ stats'[j] = IF layer.truncate THEN stats[j]
                       ELSE [stats[j] EXCEPT !.deleted = Cardinality(table)]
        BY <1>12 DEF BulkDeletes, Effect
  <2>2. layer.bulk /\ type[j] = "pull" /\ stats[j].created = 0
        BY <1>1, <2>1 DEF PlaceOf, StatsOf
  <2> QED BY <1>1, <1>2, <1>3, <2>1, <2>2, FS_EmptySet DEF StatsOf, Truncating
<1>13. ASSUME Removes(j) PROVE StatsOf(j)'
  <2>1. /\ pc[j] = "remove" /\ pc'[j] = "commit" /\ added'[j] = {}
        /\ removed'[j] = ToRemove(j)
        /\ stats'[j] = [Zero EXCEPT !.deleted = Cardinality(ToRemove(j))]
        /\ type[j] = "remove"
        BY <1>1, <1>13 DEF Removes, Effect, StatsOf, PlaceOf
  <2>2. ToRemove(j) \subseteq View(j)
        BY DEF ToRemove
  <2>3. Cardinality(ToRemove(j)) \in Nat
        BY <2>2, DeletedRows
  <2> QED BY <1>1, <2>1, <2>3, FS_EmptySet DEF StatsOf, Zero, Truncating
<1> QED BY <1>4, <1>5, <1>6, <1>7, <1>8, <1>9, <1>10, <1>11, <1>12, <1>13 DEF Kinds

-----------------------------------------------------------------------------
(* The rows                                                                 *)

\* A geometry does not differ from what it was updated with.
LEMMA SameDoesNotDiffer == \A a, b : a = b => ~ GeometryDiffers(a, b)
BY DEF GeometryDiffers

\* What "not in" says of a key that is there, and that it is antitone.
LEMMA NotInFacts ==
    /\ \A k, S : k \in S => ~ NotIn(k, S)
    /\ \A k, S, U : S \subseteq U /\ ~ NotIn(k, S) => ~ NotIn(k, U)
BY DEF NotIn

\* No other transaction has written rows while job j runs alone.
LEMMA AloneDoesNotWait ==
    ASSUME TransactionInv, NEW j \in Jobs, Waits(j)
    PROVE  overlapped[j]
<1>1. PICK i \in Jobs \ {j} : Keys(added[i]) # {}
      BY DEF Waits, InsertedBy
<1>2. added[i] # {} /\ RowsOf(i) /\ AloneInv
      BY <1>1 DEF Keys, TransactionInv
<1>3. InTransaction(i) /\ InTransaction(j)
      BY <1>2 DEF RowsOf, Waits, InTransaction
<1> QED BY <1>2, <1>3 DEF AloneInv

LEMMA MirrorStep ==
    ASSUME TransactionInv, NEW j \in Jobs, Kinds(j), NEW i \in Jobs,
           MirrorOf(i), MirrorOf(j)
    PROVE  MirrorOf(i)'
<1>1. /\ RowsOf(j) /\ PlaceOf(j) /\ layer' = layer /\ type' = type
      /\ InsertsWhatItCompares' <=> InsertsWhatItCompares
      BY OtherJobs DEF TransactionInv, InsertsWhatItCompares
<1>2. CASE i # j
  <2> SUFFICES ASSUME type[i] = "pull", InTransaction(i), ~ overlapped'[i]
               PROVE  MirrorOf(i)'
      BY <1>1, <1>2, OtherJobs DEF MirrorOf, InTransaction
  <2>1. /\ ~ overlapped[i] /\ table' = table /\ added'[i] = added[i]
        /\ removed'[i] = removed[i] /\ temp'[i] = temp[i] /\ pc'[i] = pc[i]
        BY <1>2, AloneKeepsTable
  <2>2. View(i)' = View(i) /\ (FullPull(i)' <=> FullPull(i))
        BY <1>1, <1>2, <2>1, OtherJobs DEF View, FullPull
  <2> QED BY <1>1, <2>1, <2>2 DEF MirrorOf, InTransaction, Agrees
<1>3. ASSUME Starts(j) \/ Fails(j) \/ Counts(j) \/ Stores(j) PROVE MirrorOf(j)'
  <2>1. pc'[j] \notin {"insert", "blocked", "delete", "commit"}
        BY <1>3 DEF Starts, Fails, Counts, Stores, Effect
  <2> QED BY <2>1 DEF MirrorOf
<1>4. ASSUME Removes(j) PROVE MirrorOf(j)'
      BY <1>1, <1>4 DEF Removes, PlaceOf, MirrorOf
<1>5. ASSUME Waits(j) PROVE MirrorOf(j)'
  <2>1. overlapped'[j]
        BY <1>5, AloneDoesNotWait DEF Waits, Effect
  <2> QED BY <2>1 DEF MirrorOf
<1>6. ASSUME BulkDeletes(j) PROVE MirrorOf(j)'
  <2>1. pc'[j] = "insert" /\ removed'[j] = table' /\ View(j)' = {}
        BY <1>6 DEF BulkDeletes, Effect, View
  <2> QED BY <2>1 DEF MirrorOf
<1>7. ASSUME Updates(j) PROVE MirrorOf(j)'
  <2>1. pc[j] = "update" /\ ~ layer.bulk /\ View(j) = table
        BY <1>1, <1>7, EmptyView DEF Updates, PlaceOf, RowsOf
  <2>2. PICK f \in [Outdated(j) -> temp[j]] :
          /\ \A r \in Outdated(j) : f[r].k = r.k /\ Differs(r, f[r])
          /\ Effect(j, "insert", NewVersions(j, f), Outdated(j), {},
                    [stats[j] EXCEPT !.updated = Cardinality(Outdated(j))])
        BY <1>7 DEF Updates
  <2>3. View(j)' = (table \ Outdated(j)) \cup NewVersions(j, f)
        BY <2>2 DEF Effect, View
  <2>4. ASSUME NEW r \in table \ Outdated(j), r.k \in Keys(temp[j])
        PROVE  Agrees(r, temp[j], InsertsWhatItCompares)
        BY <2>1, <2>4 DEF Keys, Agrees, Outdated, Differs
  <2>5. ASSUME NEW q \in NewVersions(j, f)
        PROVE  Agrees(q, temp[j], InsertsWhatItCompares)
    <3>1. PICK r \in Outdated(j) : q.k = r.k /\ q.g = f[r].g /\ q.x = f[r].x
          BY <2>1, <2>5, UpdatedRows
    <3>2. f[r] \in temp[j] /\ f[r].k = q.k
          BY <2>2, <3>1
    <3>3. ~ GeometryDiffers(q.g, f[r].g) /\ q.x = f[r].x
          BY <3>1, SameDoesNotDiffer
    <3> QED BY <3>2, <3>3 DEF Agrees
  <2>6. pc'[j] = "insert" /\ temp' = temp
        BY <2>2 DEF Effect
  <2> QED BY <1>1, <2>1, <2>3, <2>4, <2>5, <2>6 DEF MirrorOf, Agrees
<1>8. ASSUME Inserts(j) PROVE MirrorOf(j)'
  <2> SUFFICES ASSUME ~ overlapped[j] PROVE MirrorOf(j)'
      BY <1>8 DEF Inserts, Effect, MirrorOf
  <2>1. /\ type[j] = "pull" /\ pc[j] = "insert"
        /\ layer.bulk => removed[j] = table
        /\ \A r \in View(j) : r.k \in Keys(temp[j]) =>
                 Agrees(r, temp[j], InsertsWhatItCompares)
        BY <1>1, <1>8 DEF Inserts, PlaceOf, MirrorOf, InTransaction
  <2>2. /\ pc'[j] = AfterInsert(j) /\ temp' = temp /\ table' = table
        /\ removed'[j] = removed[j] /\ added'[j] = added[j] \cup Missing(j)
        /\ filter' = filter
        BY <1>8, <2>1 DEF Inserts, Effect, ToInsert
  <2>3. View(j)' = View(j) \cup Missing(j)
        BY <2>2 DEF View
  <2>4. \A s \in Missing(j) : \E t \in temp[j] :
           /\ s.k = t.k /\ s.g = t.g
           /\ InsertsWhatItCompares => s.x = t.x
        BY <1>1, InsertedFacts DEF Missing
  <2>5. \A r \in View(j)' : r.k \in Keys(temp[j]) =>
           Agrees(r, temp[j], InsertsWhatItCompares)
        BY <2>1, <2>3, <2>4, SameDoesNotDiffer DEF Agrees
  <2>6. ASSUME NEW t \in temp[j] PROVE ~ NotIn(t.k, Keys(View(j)'))
    <3>1. CASE Inserted(t) \in Missing(j)
      <4>1. t.k \in Keys(View(j)')
            BY <1>1, <2>3, <3>1, InsertedFacts DEF Keys
      <4> QED BY <4>1, NotInFacts
    <3>2. CASE Inserted(t) \notin Missing(j)
      <4>1. ~ NotIn(t.k, Keys(View(j)))
            BY <3>2 DEF Missing
      <4>2. Keys(View(j)) \subseteq Keys(View(j)')
            BY <2>3 DEF Keys
      <4> QED BY <4>1, <4>2, NotInFacts
    <3> QED BY <3>1, <3>2
  <2>7. ASSUME pc'[j] = "commit", FullPull(j)', NEW r \in View(j)'
        PROVE  ~ NotIn(r.k, Keys(temp[j]))
    <3>1. layer.bulk
          BY <1>1, <2>2, <2>7 DEF FullPull, AfterInsert, AllowDeletion
    <3>2. View(j) = {}
          BY <1>1, <2>1, <3>1 DEF RowsOf, View
    <3>3. r.k \in Keys(temp[j])
          BY <2>3, <2>4, <2>7, <3>2 DEF Keys
    <3> QED BY <3>3, NotInFacts
  <2>8. pc'[j] \in {"delete", "commit"}
        BY <2>2 DEF AfterInsert
  <2> QED BY <1>1, <2>1, <2>2, <2>5, <2>6, <2>7, <2>8 DEF MirrorOf, Agrees
<1>9. ASSUME Deletes(j) PROVE MirrorOf(j)'
  <2> SUFFICES ASSUME ~ overlapped[j] PROVE MirrorOf(j)'
      BY <1>9 DEF Deletes, Effect, MirrorOf
  <2>1. pc[j] = "delete" /\ pc'[j] = "commit" /\ temp' = temp /\ ~ layer.bulk
        BY <1>1, <1>9 DEF Deletes, Effect, PlaceOf
  <2>2. /\ \A r \in View(j) : r.k \in Keys(temp[j]) =>
                 Agrees(r, temp[j], InsertsWhatItCompares)
        /\ \A t \in temp[j] : ~ NotIn(t.k, Keys(View(j)))
        BY <1>1, <2>1 DEF PlaceOf, MirrorOf, InTransaction
  <2>3. View(j)' = View(j) \ Deprecated(j)
        BY <1>9 DEF Deletes, Effect, View
  <2>4. \A r \in View(j) : r \in View(j)' <=> ~ NotIn(r.k, Keys(temp[j]))
        BY <2>3 DEF Deprecated
  <2>5. ASSUME NEW t \in temp[j] PROVE ~ NotIn(t.k, Keys(View(j)'))
    <3>1. t.k \in Keys(temp[j])
          BY DEF Keys
    <3>2. CASE t.k = Null
      <4>1. View(j)' = View(j)
            BY <2>3, <2>4, <3>1, <3>2 DEF NotIn
      <4> QED BY <2>2, <4>1
    <3>3. CASE Null \in Keys(View(j))
      <4>1. Null \in Keys(View(j)')
            BY <2>4, <3>1, <3>3 DEF Keys, NotIn
      <4> QED BY <4>1 DEF NotIn
    <3>4. CASE t.k \in Keys(View(j))
      <4>1. t.k \in Keys(View(j)')
            BY <2>4, <3>1, <3>4, NotInFacts DEF Keys
      <4> QED BY <4>1, NotInFacts
    <3> QED BY <2>2, <3>2, <3>3, <3>4 DEF NotIn
  <2>6. View(j)' \subseteq View(j)
        BY <2>3
  <2> QED BY <1>1, <2>1, <2>2, <2>4, <2>5, <2>6 DEF MirrorOf, Agrees
<1> QED BY <1>2, <1>3, <1>4, <1>5, <1>6, <1>7, <1>8, <1>9 DEF Kinds

LEMMA RemoveStep ==
    ASSUME TransactionInv, NEW j \in Jobs, Kinds(j), NEW i \in Jobs, RemoveOf(i)
    PROVE  RemoveOf(i)'
<1>1. /\ RowsOf(j) /\ PlaceOf(j) /\ layer' = layer /\ type' = type
      BY OtherJobs DEF TransactionInv
<1>2. CASE i # j
  <2> SUFFICES ASSUME type[i] = "remove", pc[i] = "commit" PROVE RemoveOf(i)'
      BY <1>1, <1>2, OtherJobs DEF RemoveOf
  <2>1. /\ added'[i] = added[i] /\ removed'[i] = removed[i]
        /\ attributes'[i] = attributes[i]
        BY <1>2, OtherJobs
  <2>2. ~ overlapped'[i] => ~ overlapped[i] /\ ToRemove(i)' = ToRemove(i)
        BY <1>2, <2>1, AloneKeepsTable DEF InTransaction, ToRemove, View
  <2> QED BY <2>1, <2>2 DEF RemoveOf
<1>3. ASSUME Removes(j) PROVE RemoveOf(j)'
  <2>1. View(j) = table
        BY <1>1, <1>3, EmptyView DEF Removes, RowsOf
  <2>2. /\ table' = table /\ added'[j] = {} /\ removed'[j] = ToRemove(j)
        /\ attributes' = attributes
        BY <1>3 DEF Removes, Effect
  <2>3. \A r \in table : r \in ToRemove(j) <=> Matches(r, attributes[j])
        BY <2>1 DEF ToRemove
  <2>4. \A r \in ToRemove(j) : Matches(r, attributes[j])
        BY DEF ToRemove
  <2>5. ToRemove(j)' = {}
        BY <2>2, <2>3 DEF ToRemove, View
  <2> QED BY <2>2, <2>4, <2>5 DEF RemoveOf
<1>4. ASSUME ~ Removes(j) PROVE RemoveOf(j)'
  <2>1. type[j] = "pull" \/ pc'[j] # "commit"
        BY <1>1, <1>4 DEF Kinds, Starts, Fails, Updates, Inserts, Waits, Deletes,
                          Counts, BulkDeletes, Stores, Effect, PlaceOf
  <2> QED BY <1>1, <2>1 DEF RemoveOf
<1> QED BY <1>2, <1>3, <1>4

LEMMA KeepStep ==
    ASSUME TransactionInv, NEW j \in Jobs, Kinds(j), NEW i \in Jobs, KeepOf(i)
    PROVE  KeepOf(i)'
<1>1. /\ RowsOf(j) /\ PlaceOf(j) /\ layer' = layer /\ type' = type
      BY OtherJobs DEF TransactionInv
<1>2. CASE i # j
      BY <1>1, <1>2, OtherJobs DEF KeepOf, Pulls, FullPull
<1>3. ASSUME Starts(j) \/ Fails(j) \/ Counts(j) \/ Stores(j) PROVE KeepOf(j)'
  <2>1. removed'[j] = {}
        BY <1>1, <1>3 DEF Starts, Fails, Counts, Stores, Effect, RowsOf
  <2> QED BY <2>1 DEF KeepOf
<1>4. ASSUME Updates(j) PROVE KeepOf(j)'
  <2>1. PICK f \in [Outdated(j) -> temp[j]] :
          Effect(j, "insert", NewVersions(j, f), Outdated(j), {},
                 [stats[j] EXCEPT !.updated = Cardinality(Outdated(j))])
        BY <1>4 DEF Updates
  <2>2. \A r \in Outdated(j) : \E q \in NewVersions(j, f) : q.id = r.id
        BY <1>4, UpdatedRows DEF Updates
  <2> QED BY <2>1, <2>2 DEF Effect, KeepOf
<1>5. ASSUME Inserts(j) \/ Waits(j), i = j PROVE KeepOf(j)'
  <2>1. /\ removed'[j] = removed[j] /\ added[j] \subseteq added'[j] /\ temp' = temp
        /\ filter' = filter
        BY <1>5 DEF Inserts, Waits, Effect
  <2> QED BY <1>1, <1>5, <2>1 DEF KeepOf, Pulls, FullPull
<1>6. ASSUME Deletes(j) PROVE KeepOf(j)'
  <2>1. FullPull(j)'
        BY <1>1, <1>6 DEF Deletes, Effect, PlaceOf, FullPull, AllowDeletion
  <2> QED BY <2>1 DEF KeepOf
<1>7. ASSUME BulkDeletes(j) \/ Removes(j) PROVE KeepOf(j)'
  <2>1. layer.bulk \/ type[j] = "remove"
        BY <1>1, <1>7 DEF BulkDeletes, Removes, PlaceOf
  <2> QED BY <1>1, <2>1 DEF KeepOf, Pulls
<1> QED BY <1>2, <1>3, <1>4, <1>5, <1>6, <1>7 DEF Kinds

\* The keys and columns of a temporary row are those of its content.
LEMMA ContentFacts ==
    ASSUME NEW R
    PROVE  /\ Keys(Contents(R)) = Keys(R)
           /\ \A r : \A t \in R : /\ Content(t) \in Contents(R)
                                  /\ Content(t).k = t.k
                                  /\ Differs(r, Content(t)) <=> Differs(r, t)
           /\ \A c \in Contents(R) : \E t \in R : c = Content(t)
<1>1. \A t : Content(t).k = t.k /\ Content(t).g = t.g /\ Content(t).x = t.x
      BY DEF Content
<1>2. \A r, t : Differs(r, Content(t)) <=> Differs(r, t)
      BY <1>1 DEF Differs
<1>3. Keys(Contents(R)) = Keys(R)
      BY <1>1 DEF Keys, Contents
<1> QED BY <1>1, <1>2, <1>3 DEF Contents

LEMMA PulledStep ==
    ASSUME TransactionInv, NEW j \in Jobs, Kinds(j), MirrorOf(j), PulledInv
    PROVE  PulledInv'
<1>1. /\ layer' = layer /\ type' = type
      /\ InsertsWhatItCompares' <=> InsertsWhatItCompares
      BY OtherJobs DEF InsertsWhatItCompares
<1>2. CASE ~ Stores(j)
      BY <1>1, <1>2, OtherJobs DEF PulledInv
<1>3. CASE Stores(j)
  <2>1. table' = View(j) /\ pc[j] = "commit"
        BY <1>3 DEF Stores
  <2> DEFINE C == Contents(temp[j])
  <2> SUFFICES ASSUME pulled' = {C}, FullPull(j), ~ overlapped[j],
                      InsertsWhatItCompares, SameKeySameRow(C)
               PROVE  /\ \A r \in table', c \in C : r.k = c.k => ~ Differs(r, c)
                      /\ \A c \in C : ~ NotIn(c.k, Keys(table'))
                      /\ \A r \in table' : ~ NotIn(r.k, Keys(C))
    <3>1. pulled' = {} \/ (pulled' = {C} /\ FullPull(j) /\ ~ overlapped[j])
          BY <1>3 DEF Stores
    <3> QED BY <1>1, <3>1 DEF PulledInv
  <2>2. /\ \A r \in View(j) : r.k \in Keys(temp[j]) =>
                 Agrees(r, temp[j], InsertsWhatItCompares)
        /\ \A t \in temp[j] : ~ NotIn(t.k, Keys(View(j)))
        /\ \A r \in View(j) : ~ NotIn(r.k, Keys(temp[j]))
        BY <2>1 DEF FullPull, MirrorOf, InTransaction
  <2>3. ASSUME NEW r \in View(j), NEW c \in C, r.k = c.k PROVE ~ Differs(r, c)
    <3>1. r.k \in Keys(temp[j])
          BY <2>3, ContentFacts DEF Keys
    <3>2. PICK t \in temp[j] : t.k = r.k /\ ~ Differs(r, t)
          BY <2>2, <3>1 DEF Agrees, Differs
    <3>3. Content(t) = c
          BY <2>3, <3>2, ContentFacts DEF SameKeySameRow
    <3> QED BY <3>2, <3>3, ContentFacts
  <2>4. ASSUME NEW c \in C PROVE ~ NotIn(c.k, Keys(View(j)))
    <3>1. PICK t \in temp[j] : c = Content(t)
          BY ContentFacts
    <3> QED BY <2>2, <3>1, ContentFacts
  <2>5. Keys(C) = Keys(temp[j])
        BY ContentFacts
  <2> QED BY <2>1, <2>2, <2>3, <2>4, <2>5
<1> QED BY <1>2, <1>3

LEMMA RepeatStep ==
    ASSUME TransactionInv, NEW j \in Jobs, Kinds(j), NEW i \in Jobs,
           PulledInv, StatsOf(j), MirrorOf(j), RepeatOf(i)
    PROVE  RepeatOf(i)'
<1>1. /\ RowsOf(j) /\ PlaceOf(j) /\ layer' = layer /\ type' = type
      /\ InsertsWhatItCompares' <=> InsertsWhatItCompares
      BY OtherJobs DEF TransactionInv, InsertsWhatItCompares
<1>2. CASE i # j
  <2> SUFFICES ASSUME InTransaction(i), ~ overlapped'[i] PROVE RepeatOf(i)'
      BY <1>2, OtherJobs DEF RepeatOf, InTransaction
  <2>1. /\ ~ overlapped[i] /\ pulled' = pulled /\ added'[i] = added[i]
        /\ removed'[i] = removed[i] /\ temp'[i] = temp[i] /\ pc'[i] = pc[i]
        /\ stats'[i] = stats[i]
        BY <1>2, AloneKeepsTable, OtherJobs
  <2> QED BY <1>1, <2>1 DEF RepeatOf, Pulls, InTransaction
<1>3. ASSUME Starts(j) PROVE RepeatOf(j)'
      BY <1>1, <1>3 DEF Starts, RowsOf, StatsOf, RepeatOf
<1>4. ASSUME Fails(j) \/ Stores(j) PROVE RepeatOf(j)'
  <2>1. pc'[j] \in {"finished", "failed"}
        BY <1>4 DEF Fails, Stores, Effect
  <2> QED BY <2>1 DEF RepeatOf, InTransaction
<1>5. ASSUME Counts(j) \/ BulkDeletes(j) \/ Removes(j) PROVE RepeatOf(j)'
  <2>1. layer.bulk \/ type[j] = "remove"
        BY <1>1, <1>5 DEF Counts, BulkDeletes, Removes, PlaceOf
  <2> QED BY <1>1, <2>1 DEF RepeatOf, Pulls
<1>6. ASSUME Updates(j) \/ Inserts(j) \/ Waits(j) \/ Deletes(j), i = j
      PROVE  RepeatOf(j)'
  <2>1. pulled' = pulled /\ temp' = temp /\ table' = table /\ overlapped' = overlapped
        BY <1>6 DEF Updates, Inserts, Waits, Deletes, Effect
  <2> SUFFICES ASSUME Pulls(j), ~ overlapped[j], pulled = {Contents(temp[j])},
                      InsertsWhatItCompares, SameKeySameRow(Contents(temp[j]))
               PROVE  added'[j] = {} /\ removed'[j] = {} /\ stats'[j] = Zero
      BY <1>1, <2>1 DEF RepeatOf, Pulls
  <2>2. added[j] = {} /\ removed[j] = {} /\ stats[j] = Zero /\ View(j) = table
        BY <1>6, EmptyView DEF Updates, Inserts, Waits, Deletes, RepeatOf,
                               InTransaction
  <2>3. /\ \A r \in table : \A t \in temp[j] : r.k = t.k => ~ Differs(r, t)
        /\ \A t \in temp[j] : ~ NotIn(t.k, Keys(table))
        /\ \A r \in table : ~ NotIn(r.k, Keys(temp[j]))
        BY ContentFacts DEF PulledInv, Pulls
  <2>4. Outdated(j) = {} /\ Deprecated(j) = {} /\ Missing(j) = {}
        BY <2>2, <2>3 DEF Outdated, Deprecated, Missing, Pulls
  <2>5. /\ [Zero EXCEPT !.updated = 0] = Zero
        /\ [Zero EXCEPT !.created = 0] = Zero
        /\ [Zero EXCEPT !.deleted = 0] = Zero
        BY DEF Zero
  <2>6. CASE Updates(j)
    <3>1. PICK f \in [Outdated(j) -> temp[j]] :
            Effect(j, "insert", NewVersions(j, f), Outdated(j), {},
                   [stats[j] EXCEPT !.updated = Cardinality(Outdated(j))])
          BY <2>6 DEF Updates
    <3>2. NewVersions(j, f) = {}
          BY <2>4 DEF NewVersions
    <3> QED BY <2>2, <2>4, <2>5, <3>1, <3>2, FS_EmptySet DEF Effect
  <2>7. CASE Inserts(j)
    <3>1. ToInsert(j) = {}
          BY <1>1, <2>4, <2>7 DEF Inserts, ToInsert, MirrorOf, InTransaction, Pulls
    <3> QED BY <2>2, <2>5, <2>7, <3>1, FS_EmptySet DEF Inserts, Effect
  <2>8. CASE Waits(j)
        BY <2>2, <2>8 DEF Waits, Effect
  <2>9. CASE Deletes(j)
        BY <2>2, <2>4, <2>5, <2>9, FS_EmptySet DEF Deletes, Effect
  <2> QED BY <1>6, <2>6, <2>7, <2>8, <2>9
<1> QED BY <1>2, <1>3, <1>4, <1>5, <1>6 DEF Kinds

-----------------------------------------------------------------------------
(* The theorems                                                             *)

LEMMA InitSyncInv == Init => SyncInv
<1> SUFFICES ASSUME Init PROVE SyncInv
    OBVIOUS
<1>1. TypeInv
      BY DEF Init, TypeInv, Labels
<1>2. /\ table \in Tables /\ pulled = {}
      /\ \A j \in Jobs : /\ pc[j] = "queued" /\ temp[j] = {} /\ added[j] = {}
                         /\ removed[j] = {} /\ inserting[j] = {} /\ stats[j] = Zero
      BY DEF Init
<1>3. TableInv
      BY <1>2, TablesAssumption DEF TableInv, DistinctIds
<1>4. \A j \in Jobs : PlaceOf(j) /\ RowsOf(j)
      BY <1>2, FS_EmptySet DEF PlaceOf, RowsOf, DistinctIds
<1>5. LocksInv /\ AloneInv
      BY <1>2 DEF LocksInv, AloneInv, InTransaction
<1>6. PulledInv
      BY <1>2 DEF PulledInv
<1>7. \A j \in Jobs : StatsOf(j)
      BY <1>2 DEF StatsOf, InTransaction, Zero
<1>8. \A j \in Jobs : MirrorOf(j) /\ RemoveOf(j) /\ KeepOf(j) /\ RepeatOf(j)
      BY <1>2 DEF MirrorOf, RemoveOf, KeepOf, RepeatOf, InTransaction
<1> QED BY <1>1, <1>3, <1>4, <1>5, <1>6, <1>7, <1>8 DEF SyncInv, TransactionInv

\* The inductive invariant: which rows a transaction has locked and written,
\* what its statistics and its view of the table say at each statement, and
\* what is known of the table since the last full pull.
THEOREM SyncInvariant == Spec => []SyncInv
<1>1. ASSUME SyncInv, [Next]_vars PROVE SyncInv'
  <2>1. TransactionInv'
        BY <1>1, TransactionStep DEF SyncInv
  <2>2. ASSUME NEW j \in Jobs, Kinds(j)
        PROVE  /\ PulledInv'
               /\ \A i \in Jobs : /\ StatsOf(i)' /\ MirrorOf(i)' /\ RemoveOf(i)'
                                  /\ KeepOf(i)' /\ RepeatOf(i)'
        BY <1>1, <2>2, PulledStep, StatsStep, MirrorStep, RemoveStep, KeepStep,
           RepeatStep DEF SyncInv
  <2>3. ASSUME UNCHANGED vars
        PROVE  /\ PulledInv'
               /\ \A i \in Jobs : /\ StatsOf(i)' /\ MirrorOf(i)' /\ RemoveOf(i)'
                                  /\ KeepOf(i)' /\ RepeatOf(i)'
    <3>1. PulledInv'
          BY <1>1, <2>3 DEF SyncInv, PulledInv, InsertsWhatItCompares, vars
    <3>2. \A i \in Jobs : StatsOf(i)' /\ KeepOf(i)' /\ RepeatOf(i)'
          BY <1>1, <2>3 DEF SyncInv, StatsOf, KeepOf, RepeatOf, Pulls, FullPull,
                            InTransaction, Truncating, InsertsWhatItCompares, vars
    <3>3. \A i \in Jobs : MirrorOf(i)' /\ RemoveOf(i)'
          BY <1>1, <2>3 DEF SyncInv, MirrorOf, RemoveOf, FullPull, InTransaction,
                            View, ToRemove, InsertsWhatItCompares, vars
    <3> QED BY <3>1, <3>2, <3>3
  <2>4. (\E j \in Jobs : Kinds(j)) \/ UNCHANGED vars
        BY <1>1, StepKinds DEF SyncInv
  <2>5. /\ PulledInv'
        /\ \A i \in Jobs : /\ StatsOf(i)' /\ MirrorOf(i)' /\ RemoveOf(i)'
                           /\ KeepOf(i)' /\ RepeatOf(i)'
        BY <2>2, <2>3, <2>4
  <2> QED BY <2>1, <2>5 DEF SyncInv
<1> QED BY InitSyncInv, <1>1, PTL DEF Spec

\* The step in which a job commits replaces the table by its view.
LEMMA CommitStep ==
    ASSUME SyncInv, [Next]_vars, NEW j \in Jobs, Commits(j)
    PROVE  /\ table' = View(j) /\ pc[j] = "commit"
           /\ RowsOf(j) /\ TableInv /\ TransactionInv
<1>1. PICK i \in Jobs : Kinds(i)
      BY StepKinds DEF SyncInv, Commits, vars
<1>2. i = j
      BY <1>1, OtherJobs DEF Commits
<1>3. Stores(j)
      BY <1>1, <1>2 DEF Commits, Kinds, Starts, Fails, Updates, Inserts, Waits,
                        Deletes, Counts, BulkDeletes, Removes, Effect, AfterInsert
<1> QED BY <1>3 DEF Stores, SyncInv, TransactionInv

\* The rows that are gone were locked by the transaction.
LEMMA LostWasRemoved ==
    ASSUME SyncInv, [Next]_vars, NEW j \in Jobs, Commits(j)
    PROVE  /\ Lost \subseteq removed[j]
           /\ \A r \in Lost, s \in added[j] : s.id # r.id
BY CommitStep DEF Lost, View

\* For any layer, source and jobs at the same time: a pull with a filter or of
\* a layer without deletion loses no row.
THEOREM PartialPullsKeepRows == Spec => PartialPullKeepsRows
<1>1. ASSUME SyncInv, [Next]_vars, NEW j \in Jobs, Commits(j), Pulls(j), ~ FullPull(j)
      PROVE  Lost = {}
  <2>1. \A r \in removed[j] : \E s \in added[j] : s.id = r.id
        BY <1>1 DEF SyncInv, KeepOf
  <2> QED BY <1>1, <2>1, LostWasRemoved
<1>2. SyncInv /\ [Next]_vars =>
         [\A j \in Jobs : Commits(j) /\ Pulls(j) /\ ~ FullPull(j) => Lost = {}]_vars
      BY <1>1
<1> QED BY <1>2, SyncInvariant, PTL DEF Spec, PartialPullKeepsRows

\* The delete of a pull whose source has one feature without a key finds no
\* row to delete, whatever the table holds: "k not in (...)" is true of no row
\* then.  The manual promises that rows which are not part of the new data are
\* deleted.
THEOREM NullKeyDeletesNothing ==
    ASSUME NEW j \in Jobs, Null \in Keys(temp[j])
    PROVE  Deprecated(j) = {}
BY DEF Deprecated, NotIn

\* remove-by-attributes deletes what its attribute sets describe and, when it
\* runs alone, all of it.
THEOREM RemovalsAreExact == Spec => RemovesDescribedRows
<1> DEFINE Described(j) == {r \in table : \E s \in attributes[j] \ {<<>>} :
                                             \A c \in DOMAIN s : r[c] = s[c]}
<1>1. ASSUME SyncInv, [Next]_vars, NEW j \in Jobs, Commits(j), type[j] = "remove"
      PROVE  /\ Lost \subseteq Described(j)
             /\ overlapped[j] \/ Described(j) \subseteq Lost
  <2>1. /\ table' = (table \ removed[j]) \cup added[j] /\ added[j] = {}
        /\ \A r \in removed[j] : Matches(r, attributes[j])
        /\ ~ overlapped[j] => ToRemove(j) = {}
        /\ removed[j] \subseteq table /\ DistinctIds(table)
        BY <1>1, CommitStep DEF SyncInv, RemoveOf, View, RowsOf, TableInv
  <2>2. \A s \in attributes[j] : DOMAIN s # {} <=> s # <<>>
    <3>1. attributes[j] \in AttributeLists \cup {{}}
          BY <1>1 DEF SyncInv, TransactionInv, TypeInv
    <3>2. \A s \in attributes[j] : s = [c \in DOMAIN s |-> s[c]]
          BY <3>1, AttributesAssumption
    <3> QED BY <3>2
  <2>3. \A r \in table : r \in Described(j) <=> Matches(r, attributes[j])
        BY <2>2 DEF Matches
  <2>4. Lost \subseteq Described(j)
        BY <1>1, <2>1, <2>3, LostWasRemoved
  <2>5. ASSUME ~ overlapped[j], NEW r \in Described(j) PROVE r \in Lost
    <3>1. r \in table /\ Matches(r, attributes[j])
          BY <2>3
    <3>2. r \in removed[j]
          BY <2>1, <2>5, <3>1 DEF ToRemove, View
    <3> QED BY <2>1, <3>1, <3>2 DEF Lost, DistinctIds
  <2> QED BY <2>4, <2>5
<1>2. SyncInv /\ [Next]_vars =>
         [\A j \in Jobs : Commits(j) /\ type[j] = "remove" =>
             LET described == {r \in table :
                                  \E s \in attributes[j] \ {<<>>} :
                                     \A c \in DOMAIN s : r[c] = s[c]}
             IN  Lost \subseteq described /\ (overlapped[j] \/ described \subseteq Lost)]_vars
      BY <1>1
<1> QED BY <1>2, SyncInvariant, PTL DEF Spec, RemovesDescribedRows

\* The statistics of a job account for the rows it has added and deleted, for
\* any number of jobs that overlap.
THEOREM StatisticsAddUp == Spec => StatisticsMatchTable
<1>1. ASSUME SyncInv, [Next]_vars, NEW j \in Jobs, Commits(j),
             Truncating(j) => Null \notin Keys(table) /\ ~ overlapped[j]
      PROVE  Cardinality(table') + stats[j].deleted
                = Cardinality(table) + stats[j].created
  <2>1. /\ table' = (table \ removed[j]) \cup added[j] /\ pc[j] = "commit"
        /\ removed[j] \subseteq table /\ IsFiniteSet(table) /\ IsFiniteSet(added[j])
        /\ TransactionInv /\ StatsOf(j) /\ MirrorOf(j) /\ InTransaction(j)
        BY <1>1, CommitStep DEF SyncInv, View, RowsOf, TableInv, InTransaction
  <2>2. (table \ removed[j]) \cap added[j] = {} /\ table \cap removed[j] = removed[j]
        BY <2>1, WrittenReplaces
  <2>3. IsFiniteSet(removed[j]) /\ IsFiniteSet(table \ removed[j])
        BY <2>1, FS_Subset, FS_Difference
  <2>4. Cardinality(table \ removed[j]) = Cardinality(table) - Cardinality(removed[j])
        BY <2>1, <2>2, FS_Difference
  <2>5. Cardinality(table')
          = Cardinality(table \ removed[j]) + Cardinality(added[j]) - 0
        BY <2>1, <2>2, <2>3, FS_Union, FS_EmptySet
  <2>6. /\ Cardinality(table) \in Nat /\ Cardinality(removed[j]) \in Nat
        /\ Cardinality(added[j]) \in Nat
        /\ stats[j].deleted \in Nat /\ stats[j].created \in Nat
        BY <2>1, <2>3, FS_CardinalityType DEF StatsOf
  <2>7. CASE ~ Truncating(j)
    <3>1. Cardinality(added[j]) + stats[j].deleted
            = Cardinality(removed[j]) + stats[j].created
          BY <2>1, <2>7 DEF StatsOf
    <3> QED BY <2>4, <2>5, <2>6, <3>1
  <2>8. CASE Truncating(j)
    <3>1. removed[j] = table
          BY <1>1, <2>1, <2>8 DEF MirrorOf, Truncating
    <3>2. {r \in table : r.k # Null} = table
          BY <1>1, <2>8 DEF Keys
    <3>3. /\ stats[j].deleted = Cardinality(table)
          /\ Cardinality(added[j]) = stats[j].created
          BY <1>1, <2>1, <2>8, <3>2 DEF StatsOf
    <3> QED BY <2>4, <2>5, <2>6, <3>1, <3>3
  <2> QED BY <2>7, <2>8
<1>2. SyncInv /\ [Next]_vars =>
         [\A j \in Jobs :
             /\ Commits(j)
             /\ Truncating(j) => Null \notin Keys(table) /\ ~ overlapped[j]
             => Cardinality(table') + stats[j].deleted
                   = Cardinality(table) + stats[j].created]_vars
      BY <1>1
<1> QED BY <1>2, SyncInvariant, PTL DEF Spec, StatisticsMatchTable

\* A full pull that runs alone makes the table a copy of its source, with the
\* exceptions that PullMirrorsSource names.
THEOREM FullPullsMirror == Spec => PullMirrorsSource
<1>1. ASSUME SyncInv, [Next]_vars, NEW j \in Jobs, Commits(j), FullPull(j),
             ~ overlapped[j], Null \notin Keys(temp[j]) \cup Keys(table)
      PROVE  /\ Keys(table') = Keys(temp[j])
             /\ \A r \in table' : \E t \in temp[j] :
                   /\ r.k = t.k
                   /\ layer.provided => r.x = t.x
                   /\ SameGeometry(r.g, t.g) \/ Null \in {r.g, t.g}
  <2>1. /\ table' = View(j) /\ pc[j] = "commit" /\ RowsOf(j) /\ MirrorOf(j)
        /\ type[j] = "pull" /\ InTransaction(j) /\ ~ overlapped[j] /\ FullPull(j)
        BY <1>1, CommitStep DEF SyncInv, FullPull, InTransaction
  <2>2. /\ \A r \in View(j) : r.k \in Keys(temp[j]) =>
                 Agrees(r, temp[j], InsertsWhatItCompares)
        /\ \A t \in temp[j] : ~ NotIn(t.k, Keys(View(j)))
        /\ \A r \in View(j) : ~ NotIn(r.k, Keys(temp[j]))
        BY <2>1 DEF MirrorOf
  <2>3. Keys(View(j)) \subseteq Keys(table) \cup Keys(temp[j])
    <3>1. \A s \in AsInserted(j) : s.k \in Keys(temp[j])
          BY <2>1, InsertedFacts DEF Keys
    <3> QED BY <2>1, <3>1 DEF View, RowsOf, Replaces, Keys
  <2>4. Keys(View(j)) = Keys(temp[j])
    <3>1. \A t \in temp[j] : t.k \in Keys(View(j))
          BY <1>1, <2>2, <2>3 DEF NotIn, Keys
    <3>2. \A r \in View(j) : r.k \in Keys(temp[j])
          BY <1>1, <2>2, <2>3 DEF NotIn, Keys
    <3> QED BY <3>1, <3>2 DEF Keys
  <2>5. ASSUME NEW r \in View(j)
        PROVE  \E t \in temp[j] :
                  /\ r.k = t.k
                  /\ layer.provided => r.x = t.x
                  /\ SameGeometry(r.g, t.g) \/ Null \in {r.g, t.g}
    <3>1. PICK t \in temp[j] : /\ t.k = r.k /\ ~ GeometryDiffers(r.g, t.g)
                               /\ InsertsWhatItCompares => r.x = t.x
          BY <2>2, <2>4 DEF Agrees, Keys
    <3> QED BY <3>1 DEF InsertsWhatItCompares, GeometryDiffers, SameGeometry
  <2> QED BY <2>1, <2>4, <2>5
<1>2. SyncInv /\ [Next]_vars =>
         [\A j \in Jobs :
             /\ Commits(j) /\ FullPull(j) /\ ~ overlapped[j]
             /\ Null \notin Keys(temp[j]) \cup Keys(table)
             => /\ Keys(table') = Keys(temp[j])
                /\ \A r \in table' : \E t \in temp[j] :
                      /\ r.k = t.k
                      /\ layer.provided => r.x = t.x
                      /\ SameGeometry(r.g, t.g) \/ Null \in {r.g, t.g}]_vars
      BY <1>1
<1> QED BY <1>2, SyncInvariant, PTL DEF Spec, PullMirrorsSource

\* If every key occurs once, rows with the same key are the same.
LEMMA UniqueKeys ==
    ASSUME NEW R, IsFiniteSet(R), Cardinality(Keys(R)) = Cardinality(R)
    PROVE  SameKeySameRow(Contents(R))
<1> DEFINE h == [r \in R |-> r.k]
<1>1. h \in Surjection(R, Keys(R))
      BY DEF Surjection, Keys
<1>2. h \in Injection(R, Keys(R))
  <2> HIDE DEF h
  <2> QED BY <1>1, FS_SurjSameCardinalityImpliesInj
<1>3. \A s, t \in R : s.k = t.k => s = t
      BY <1>2 DEF Injection, IsInjective
<1> QED BY <1>3, ContentFacts DEF SameKeySameRow

\* Pulling an unchanged source again writes no row and counts none, unless the
\* source lacks a column that has a DEFAULT.
THEOREM RepeatedPullsAreQuiet == Spec => RepeatedPullWritesNothing
<1>1. ASSUME SyncInv, [Next]_vars, NEW j \in Jobs, Commits(j), Pulls(j),
             ~ overlapped[j], InsertsWhatItCompares, pulled = {Contents(temp[j])},
             Cardinality(Keys(temp[j])) = Cardinality(temp[j])
      PROVE  table' = table /\ stats[j] = Zero
  <2>1. table' = View(j) /\ pc[j] = "commit" /\ IsFiniteSet(temp[j])
        BY <1>1, CommitStep DEF RowsOf
  <2>2. added[j] = {} /\ removed[j] = {} /\ stats[j] = Zero
        BY <1>1, <2>1, UniqueKeys DEF SyncInv, RepeatOf, InTransaction
  <2> QED BY <2>1, <2>2, EmptyView
<1>2. SyncInv /\ [Next]_vars =>
         [\A j \in Jobs :
             /\ Commits(j) /\ Pulls(j) /\ ~ overlapped[j]
             /\ InsertsWhatItCompares
             /\ pulled = {Contents(temp[j])}
             /\ Cardinality(Keys(temp[j])) = Cardinality(temp[j])
             => table' = table /\ stats[j] = Zero]_vars
      BY <1>1
<1> QED BY <1>2, SyncInvariant, PTL DEF Spec, RepeatedPullWritesNothing

\* A row that was inserted with the DEFAULT of a column that the source lacks
\* differs from the temporary row of the same feature: the next pull of the
\* unchanged source rewrites it.  The manual promises that an update only
\* affects rows where data actually differ.
THEOREM DefaultIsRewritten ==
    ASSUME NEW j, NEW n, NEW f, ~ layer.provided, layer.default # Null
    PROVE  Differs(Inserted(TempRow(j, n, f)), TempRow(j, n, f))
<1>1. IsRow(TempRow(j, n, f)) /\ TempRow(j, n, f).x = Null
      BY DEF TempRow, IsRow
<1> QED BY <1>1, InsertedRow DEF Differs

=============================================================================
