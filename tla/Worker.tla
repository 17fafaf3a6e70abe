------------------------------- MODULE Worker -------------------------------
(***************************************************************************)
(* The worker threads (worker.cpp) with their database connections         *)
(* (db/connection.cpp) and transactions (db/transaction.cpp), against a    *)
(* database server that may go away and come back.                         *)
(*                                                                         *)
(* A worker takes a job from the queue, waits until it has a connection,   *)
(* opens a transaction and runs the statements of pull or                  *)
(* removeByAttributes in it.  The transaction is ended by the destructor   *)
(* of the Transaction object, on the way out and while an exception is in  *)
(* flight.  The rows are left out: of the statements that write to the     *)
(* target table the model only counts how many were executed and how many  *)
(* were committed.                                                         *)
(*                                                                         *)
(* conn is what libpq knows of the connection, session whether the server  *)
(* still has it: a loss is noticed by the next statement only.  libpq then *)
(* returns no result, which checkResult reports as a DbError, or one       *)
(* without SQLSTATE, for which checkResult constructs a std::string from a *)
(* null pointer: a std::logic_error, which nobody catches.                 *)
(***************************************************************************)
EXTENDS Naturals, Sequences

CONSTANTS
    Workers,      \* worker threads
    Jobs,         \* jobs that are pushed
    RemoveJobs,   \* the jobs of type REMOVE_BY_ATTRIBUTES; the others pull
    Ignoring,     \* the jobs whose layer has ignore_failures set
    NoJob,        \* an empty Job::Ptr
    Persistent,   \* usePersistentDbConnections
    MaxFeatures,  \* bound on the features of a source
    MaxOutages    \* bound on the losses of connections

ASSUME JobsAssumption ==
    /\ RemoveJobs \subseteq Jobs
    /\ Ignoring \subseteq Jobs \ RemoveJobs
    /\ NoJob \notin Jobs

ASSUME OptionsAssumption ==
    /\ Persistent \in BOOLEAN
    /\ MaxFeatures \in Nat
    /\ MaxOutages \in Nat

VARIABLES
    queue, continue_,   \* the job queue
    status,     \* status of each job
    pc,         \* where each worker is
    held,       \* the job it works on
    conn,       \* PQstatus of its connection; "closed" without one
    session,    \* the server has a session for the connection
    trans,      \* transaction state of that session
    temp,       \* temporary objects of that session
    rollback,   \* Transaction::rollback
    exitSqls,   \* Transaction::exitSqls
    failing,    \* an exception is in flight
    pulled,     \* features read from the source
    todo,       \* statements to run on the target table
    executed,   \* how many of them were executed in the transaction
    target,     \* history: how many statements of each job were committed
    planned,    \* history: how many statements each job is made of
    ignored,    \* history: the jobs that skipped a feature
    dbUp,       \* the server accepts connections
    outages,    \* losses so far
    undropped,  \* history: the objects whose exit statement failed
    terminated  \* std::terminate was called

jobVars == <<status, target, planned, ignored>>
sessionVars == <<conn, session, trans, temp>>
txVars == <<rollback, exitSqls, failing, pulled, todo, executed>>
dbVars == <<dbUp, outages, undropped>>
queueVars == <<queue, continue_>>

vars == <<queueVars, jobVars, pc, held, sessionVars, txVars, dbVars, terminated>>

Init ==
    /\ queue = <<>>
    /\ continue_ = TRUE
    /\ status = [j \in Jobs |-> "queued"]
    /\ pc = [w \in Workers |-> "idle"]
    /\ held = [w \in Workers |-> NoJob]
    /\ conn = [w \in Workers |-> "ok"]
    /\ session = [w \in Workers |-> TRUE]
    /\ trans = [w \in Workers |-> "idle"]
    /\ temp = [w \in Workers |-> {}]
    /\ rollback = [w \in Workers |-> FALSE]
    /\ exitSqls = [w \in Workers |-> {}]
    /\ failing = [w \in Workers |-> FALSE]
    /\ pulled = [w \in Workers |-> 0]
    /\ todo = [w \in Workers |-> 0]
    /\ executed = [w \in Workers |-> 0]
    /\ target = [j \in Jobs |-> 0]
    /\ planned = [j \in Jobs |-> 0]
    /\ ignored = {}
    /\ dbUp = TRUE
    /\ outages = 0
    /\ undropped = {}
    /\ terminated = FALSE

Goto(w, from, to) ==
    /\ pc[w] = from
    /\ pc' = [pc EXCEPT ![w] = to]

SetStatus(w, s) == status' = [status EXCEPT ![held[w]] = s]

-----------------------------------------------------------------------------
(* The queue, by its abstraction (BlockingFifo).                           *)

Push(j) ==
    /\ \A n \in 1 .. Len(queue) : queue[n] # j
    /\ \A w \in Workers : held[w] # j
    /\ status[j] = "queued"
    /\ queue' = Append(queue, j)
    /\ UNCHANGED <<continue_, jobVars, pc, held, sessionVars, txVars, dbVars,
                   terminated>>

Quit ==
    /\ continue_
    /\ continue_' = FALSE
    /\ UNCHANGED <<queue, jobVars, pc, held, sessionVars, txVars, dbVars,
                   terminated>>

\* Mutant of Take: the item is read but not removed.
TakeFront(w) ==
    /\ held' = [held EXCEPT ![w] = Head(queue)]
    /\ UNCHANGED queue

Take(w) ==
    /\ held' = [held EXCEPT ![w] = Head(queue)]
    /\ queue' = Tail(queue)

-----------------------------------------------------------------------------
(* Connection                                                              *)

\* PQfinish: the server ends the session.
Close(w) ==
    /\ conn' = [conn EXCEPT ![w] = "closed"]
    /\ session' = [session EXCEPT ![w] = FALSE]
    /\ trans' = [trans EXCEPT ![w] = "idle"]
    /\ temp' = [temp EXCEPT ![w] = {}]

\* A statement finds that the server has gone.
NoticeLoss(w) == conn' = [conn EXCEPT ![w] = "bad"]

\* Mutant of Reconnect: a lost connection is not restored (reconnect(false)).
ReconnectNoRestore(w) ==
    /\ pc[w] = "connect"
    /\ \/ /\ session[w]
          /\ conn' = [conn EXCEPT ![w] = "ok"]
          /\ pc' = [pc EXCEPT ![w] = "open"]
       \/ /\ ~ session[w]
          /\ NoticeLoss(w)
          /\ UNCHANGED pc
    /\ UNCHANGED <<queueVars, jobVars, held, session, trans, temp, txVars,
                   dbVars, terminated>>

\* reconnect(true): "select 1", PQreset or PQconnectdb.  FALSE as long as
\* the database is down; Worker::run sleeps and calls it again.
Reconnect(w) ==
    /\ pc[w] = "connect"
    /\ \/ /\ session[w] \/ dbUp
          /\ conn' = [conn EXCEPT ![w] = "ok"]
          /\ session' = [session EXCEPT ![w] = TRUE]
          /\ pc' = [pc EXCEPT ![w] = "open"]
       \/ /\ ~ session[w]
          /\ ~ dbUp
          /\ NoticeLoss(w)
          /\ UNCHANGED <<session, pc>>
    /\ UNCHANGED <<queueVars, jobVars, held, trans, temp, txVars, dbVars,
                   terminated>>

-----------------------------------------------------------------------------
(* Worker::run                                                             *)

PopNoWait(w) ==
    /\ \/ /\ queue # <<>>
          /\ Take(w)
          /\ Goto(w, "idle", "start")
          /\ UNCHANGED sessionVars
       \/ /\ queue = <<>>
          /\ Goto(w, "idle", "wait")
          /\ IF Persistent THEN UNCHANGED sessionVars ELSE Close(w)
          /\ UNCHANGED <<queue, held>>
    /\ UNCHANGED <<continue_, jobVars, txVars, dbVars, terminated>>

\* Mutant of PopWait: that there still is no job is not checked.
PopWaitUnchecked(w) ==
    /\ Goto(w, "wait", "start")
    /\ \/ continue_ /\ queue # <<>> /\ Take(w)
       \/ ~ continue_ /\ UNCHANGED <<queue, held>>
    /\ UNCHANGED <<continue_, jobVars, sessionVars, txVars, dbVars, terminated>>

PopWait(w) ==
    /\ \/ /\ continue_
          /\ queue # <<>>
          /\ Take(w)
          /\ Goto(w, "wait", "start")
       \/ /\ ~ continue_
          /\ Goto(w, "wait", "done")
          /\ UNCHANGED <<queue, held>>
    /\ UNCHANGED <<continue_, jobVars, sessionVars, txVars, dbVars, terminated>>

StartJob(w) ==
    /\ Goto(w, "start", "connect")
    /\ SetStatus(w, "in_process")
    /\ UNCHANGED <<queueVars, target, planned, ignored, held, sessionVars,
                   txVars, dbVars, terminated>>

\* Mutant of Catch: the exception is only logged.
CatchSilently(w) ==
    /\ Goto(w, "catch", "idle")
    /\ held' = [held EXCEPT ![w] = NoJob]
    /\ UNCHANGED <<queueVars, jobVars, sessionVars, txVars, dbVars, terminated>>

\* The catch blocks: the job has failed, the worker goes on with the next.
Catch(w) ==
    /\ Goto(w, "catch", "idle")
    /\ SetStatus(w, "failed")
    /\ held' = [held EXCEPT ![w] = NoJob]
    /\ UNCHANGED <<queueVars, target, planned, ignored, sessionVars, txVars,
                   dbVars, terminated>>

-----------------------------------------------------------------------------
(* Transaction                                                             *)

\* Before the transaction: the source is opened and its layer and filter
\* are set up (pull), or the layer is asked whether it allows deletion.
Open(w) ==
    /\ \/ Goto(w, "open", "begin")
       \/ Goto(w, "open", "catch")
    /\ UNCHANGED <<queueVars, jobVars, held, sessionVars, txVars, dbVars,
                   terminated>>

\* Mutant of Begin: the rollback flag is not initialized.
BeginKeepFlag(w) ==
    /\ session[w]
    /\ Goto(w, "begin", "setup")
    /\ trans' = [trans EXCEPT ![w] = "intrans"]
    /\ exitSqls' = [exitSqls EXCEPT ![w] = {}]
    /\ failing' = [failing EXCEPT ![w] = FALSE]
    /\ pulled' = [pulled EXCEPT ![w] = 0]
    /\ executed' = [executed EXCEPT ![w] = 0]
    /\ UNCHANGED <<queueVars, jobVars, held, conn, session, temp, rollback,
                   todo, dbVars, terminated>>

\* The constructor, and the local variables of pull.
Begin(w) ==
    /\ session[w]
    /\ Goto(w, "begin", "setup")
    /\ trans' = [trans EXCEPT ![w] = "intrans"]
    /\ rollback' = [rollback EXCEPT ![w] = FALSE]
    /\ exitSqls' = [exitSqls EXCEPT ![w] = {}]
    /\ failing' = [failing EXCEPT ![w] = FALSE]
    /\ pulled' = [pulled EXCEPT ![w] = 0]
    /\ executed' = [executed EXCEPT ![w] = 0]
    /\ UNCHANGED <<queueVars, jobVars, held, conn, session, temp, todo, dbVars,
                   terminated>>

\* The connection was lost after reconnect.  The constructor has not ended,
\* so there is no destructor to run.
BeginLost(w) ==
    /\ ~ session[w]
    /\ NoticeLoss(w)
    /\ \/ Goto(w, "begin", "catch") /\ UNCHANGED terminated
       \/ pc[w] = "begin" /\ terminated' = TRUE /\ UNCHANGED pc
    /\ UNCHANGED <<queueVars, jobVars, held, session, trans, temp, txVars, dbVars>>

\* Labels between the constructor and the destructor.
InTransaction == {"setup", "prepare", "features", "sync"}

\* What a pull creates in its session.  The names hold the id of the job.
TempTable(w) == <<"temptable", held[w]>>
Prepared(w) == <<"prepared", held[w]>>

Objects == {"temptable", "prepared"} \X Jobs

\* A statement fails: checkResult sets rollback and throws.  createTempTable
\* registers the removal of its table before it runs its statement.
StatementFails(w) ==
    /\ pc[w] \in InTransaction
    /\ session[w]
    /\ pc' = [pc EXCEPT ![w] = "end"]
    /\ trans' = [trans EXCEPT ![w] = "inerror"]
    /\ rollback' = [rollback EXCEPT ![w] = TRUE]
    /\ failing' = [failing EXCEPT ![w] = TRUE]
    /\ \/ UNCHANGED exitSqls
       \/ /\ pc[w] = "setup"
          /\ held[w] \notin RemoveJobs
          /\ exitSqls' = [exitSqls EXCEPT ![w] = @ \cup {TempTable(w)}]
    /\ UNCHANGED <<queueVars, jobVars, held, conn, session, temp, pulled, todo,
                   executed, dbVars, terminated>>

\* An exception that is no failed statement: a WorkerError, or a DbError for
\* an unusable table or identifier.  The server's transaction is fine and
\* rollback stays FALSE.  All of these are thrown before the first statement
\* on the target table.
ClientFails(w) ==
    /\ pc[w] \in InTransaction
    /\ executed[w] = 0
    /\ pc' = [pc EXCEPT ![w] = "end"]
    /\ failing' = [failing EXCEPT ![w] = TRUE]
    /\ UNCHANGED <<queueVars, jobVars, held, sessionVars, rollback, exitSqls,
                   pulled, todo, executed, dbVars, terminated>>

\* The connection is lost inside the transaction.  The exception runs the
\* destructor, whose rollback cannot be sent and throws again: a destructor
\* is noexcept.
LostInTransaction(w) ==
    /\ pc[w] \in InTransaction \cup {"end"}
    /\ ~ session[w]
    /\ NoticeLoss(w)
    /\ terminated' = TRUE
    /\ UNCHANGED <<queueVars, jobVars, pc, held, session, trans, temp, txVars, dbVars>>

\* The destructor, first part.  PQTRANS_INERROR: the server refuses all but
\* a rollback.
Committing(w) == ~ rollback[w] /\ trans[w] # "inerror"

EndTransaction(w) ==
    /\ session[w]
    /\ Goto(w, "end", "exit")
    /\ trans' = [trans EXCEPT ![w] = "idle"]
    /\ \/ /\ Committing(w)
          /\ target' = [target EXCEPT ![held[w]] = executed[w]]
          /\ UNCHANGED temp
       \/ /\ ~ Committing(w)
          /\ temp' = [temp EXCEPT ![w] = @ \ {TempTable(w)}]
          /\ UNCHANGED target
    /\ UNCHANGED <<queueVars, status, planned, ignored, held, conn, session,
                   txVars, dbVars, terminated>>

\* The server rejects the commit, for instance for a deferred constraint:
\* the exception leaves the destructor.
CommitRefused(w) ==
    /\ pc[w] = "end"
    /\ session[w]
    /\ Committing(w)
    /\ trans' = [trans EXCEPT ![w] = "idle"]
    /\ terminated' = TRUE
    /\ UNCHANGED <<queueVars, jobVars, pc, held, conn, session, temp, txVars, dbVars>>

\* Return from the destructor: to the catch block or to the next job.
Leave(w) ==
    /\ pc' = [pc EXCEPT ![w] = IF failing[w] THEN "catch" ELSE "idle"]
    /\ held' = IF failing[w] THEN held ELSE [held EXCEPT ![w] = NoJob]

\* Mutant of RunExitSqls: only after a commit.
RunExitSqlsOnCommit(w) ==
    /\ pc[w] = "exit"
    /\ session[w]
    /\ temp' = [temp EXCEPT ![w] = IF rollback[w] THEN @ ELSE @ \ exitSqls[w]]
    /\ exitSqls' = [exitSqls EXCEPT ![w] = {}]
    /\ Leave(w)
    /\ UNCHANGED <<queueVars, jobVars, conn, session, trans, rollback, failing,
                   pulled, todo, executed, dbVars, terminated>>

\* The destructor, second part: drop the temporary table, deallocate the
\* prepared statement.  An exit statement may fail in a live session too, for
\* a timeout or a cancel request: the DbError is caught, the object stays.
RunExitSqls(w) ==
    /\ pc[w] = "exit"
    /\ session[w]
    /\ \E kept \in SUBSET (temp[w] \cap exitSqls[w]) :
          /\ temp' = [temp EXCEPT ![w] = (@ \ exitSqls[w]) \cup kept]
          /\ undropped' = undropped \cup kept
    /\ exitSqls' = [exitSqls EXCEPT ![w] = {}]
    /\ Leave(w)
    /\ UNCHANGED <<queueVars, jobVars, conn, session, trans, rollback, failing,
                   pulled, todo, executed, dbUp, outages, terminated>>

\* The session is gone.  A DbError is ignored here too, a logic_error is not.
ExitSqlsLost(w) ==
    /\ pc[w] = "exit"
    /\ ~ session[w]
    /\ IF exitSqls[w] = {} THEN UNCHANGED conn ELSE NoticeLoss(w)
    /\ \/ Leave(w) /\ UNCHANGED terminated
       \/ exitSqls[w] # {} /\ terminated' = TRUE /\ UNCHANGED <<pc, held>>
    /\ exitSqls' = [exitSqls EXCEPT ![w] = {}]
    /\ UNCHANGED <<queueVars, jobVars, session, trans, temp, rollback, failing,
                   pulled, todo, executed, dbVars>>

-----------------------------------------------------------------------------
(* pull and removeByAttributes, inside the transaction                     *)

\* pull: set DateStyle, look up the versions and the table, create the
\* temporary table.
CreateTempTable(w) ==
    /\ held[w] \notin RemoveJobs
    /\ session[w]
    /\ Goto(w, "setup", "prepare")
    /\ temp' = [temp EXCEPT ![w] = @ \cup {TempTable(w)}]
    /\ exitSqls' = [exitSqls EXCEPT ![w] = @ \cup {TempTable(w)}]
    /\ UNCHANGED <<queueVars, jobVars, held, conn, session, trans, rollback,
                   failing, pulled, todo, executed, dbVars, terminated>>

\* pull: prepare the insert into the temporary table.
Prepare(w) ==
    /\ session[w]
    /\ Goto(w, "prepare", "features")
    /\ temp' = [temp EXCEPT ![w] = @ \cup {Prepared(w)}]
    /\ exitSqls' = [exitSqls EXCEPT ![w] = @ \cup {Prepared(w)}]
    /\ UNCHANGED <<queueVars, jobVars, held, conn, session, trans, rollback,
                   failing, pulled, todo, executed, dbVars, terminated>>

\* pull: one feature goes into the temporary table.
PullFeature(w) ==
    /\ pc[w] = "features"
    /\ session[w]
    /\ pulled[w] < MaxFeatures
    /\ pulled' = [pulled EXCEPT ![w] = @ + 1]
    /\ UNCHANGED <<queueVars, jobVars, pc, held, sessionVars, rollback,
                   exitSqls, failing, todo, executed, dbVars, terminated>>

\* pull: a data exception of a layer with ignore_failures.  The work since
\* the savepoint is undone and the loop goes on; checkResult has set rollback.
IgnoreFeature(w) ==
    /\ pc[w] = "features"
    /\ held[w] \in Ignoring
    /\ session[w]
    /\ pulled[w] < MaxFeatures
    /\ pulled' = [pulled EXCEPT ![w] = @ + 1]
    /\ rollback' = [rollback EXCEPT ![w] = TRUE]
    /\ ignored' = ignored \cup {held[w]}
    /\ UNCHANGED <<queueVars, status, target, planned, pc, held, sessionVars,
                   exitSqls, failing, todo, executed, dbVars, terminated>>

\* The statements on the target table: update and insert, and a delete if
\* it is allowed; in bulk mode a delete or truncate and an insert.  The
\* deletion of removeByAttributes, or none without attributes.
Plans(j) == IF j \in RemoveJobs THEN {0, 1} ELSE {2, 3}

\* All features are in the temporary table, or the columns are known.
StartSync(w) ==
    /\ \/ held[w] \notin RemoveJobs /\ Goto(w, "features", "sync")
       \/ held[w] \in RemoveJobs /\ session[w] /\ Goto(w, "setup", "sync")
    /\ \E n \in Plans(held[w]) :
          /\ todo' = [todo EXCEPT ![w] = n]
          /\ planned' = [planned EXCEPT ![held[w]] = n]
    /\ UNCHANGED <<queueVars, status, target, ignored, held, sessionVars,
                   rollback, exitSqls, failing, pulled, executed, dbVars, terminated>>

\* Mutant of SyncStatement: a failing statement is skipped.
SyncStatementOrSkip(w) ==
    /\ pc[w] = "sync"
    /\ session[w]
    /\ todo[w] > 0
    /\ todo' = [todo EXCEPT ![w] = @ - 1]
    /\ \/ executed' = [executed EXCEPT ![w] = @ + 1]
       \/ UNCHANGED executed
    /\ UNCHANGED <<queueVars, jobVars, pc, held, sessionVars, rollback,
                   exitSqls, failing, pulled, dbVars, terminated>>

\* One statement on the target table.
SyncStatement(w) ==
    /\ pc[w] = "sync"
    /\ session[w]
    /\ todo[w] > 0
    /\ todo' = [todo EXCEPT ![w] = @ - 1]
    /\ executed' = [executed EXCEPT ![w] = @ + 1]
    /\ UNCHANGED <<queueVars, jobVars, pc, held, sessionVars, rollback,
                   exitSqls, failing, pulled, dbVars, terminated>>

\* setStatus(FINISHED), before the destructor of the transaction runs.
Finish(w) ==
    /\ todo[w] = 0
    /\ Goto(w, "sync", "end")
    /\ SetStatus(w, "finished")
    /\ UNCHANGED <<queueVars, target, planned, ignored, held, sessionVars,
                   txVars, dbVars, terminated>>

-----------------------------------------------------------------------------
(* The database server                                                     *)

\* The sessions of the workers in W end; their transactions are undone.
LoseSessions(W) ==
    /\ outages < MaxOutages
    /\ outages' = outages + 1
    /\ session' = [w \in Workers |-> session[w] /\ w \notin W]
    /\ trans' = [w \in Workers |-> IF w \in W THEN "idle" ELSE trans[w]]
    /\ temp' = [w \in Workers |-> IF w \in W THEN {} ELSE temp[w]]
    /\ UNCHANGED <<queueVars, jobVars, pc, held, conn, txVars, undropped,
                   terminated>>

\* The server stops, or one session is ended.
DbDown ==
    /\ dbUp
    /\ dbUp' = FALSE
    /\ LoseSessions(Workers)

SessionEnds(w) ==
    /\ session[w]
    /\ LoseSessions({w})
    /\ UNCHANGED dbUp

DbUp ==
    /\ ~ dbUp
    /\ dbUp' = TRUE
    /\ UNCHANGED <<queueVars, jobVars, pc, held, sessionVars, txVars, outages,
                   undropped, terminated>>

-----------------------------------------------------------------------------

Step(w) ==
    \/ PopNoWait(w)
    \/ PopWait(w)
    \/ StartJob(w)
    \/ Reconnect(w)
    \/ Open(w)
    \/ Begin(w)
    \/ BeginLost(w)
    \/ CreateTempTable(w)
    \/ Prepare(w)
    \/ PullFeature(w)
    \/ IgnoreFeature(w)
    \/ StartSync(w)
    \/ SyncStatement(w)
    \/ StatementFails(w)
    \/ ClientFails(w)
    \/ LostInTransaction(w)
    \/ Finish(w)
    \/ EndTransaction(w)
    \/ CommitRefused(w)
    \/ RunExitSqls(w)
    \/ ExitSqlsLost(w)
    \/ Catch(w)

Stopped == terminated \/ \A w \in Workers : pc[w] = "done"

Ended == Stopped /\ UNCHANGED vars

Next ==
    \/ /\ ~ terminated
       /\ \/ \E j \in Jobs : Push(j)
          \/ Quit
          \/ \E w \in Workers : Step(w) \/ SessionEnds(w)
          \/ DbDown
          \/ DbUp
    \/ Ended

Spec == Init /\ [][Next]_vars

\* Every worker thread runs.  Nothing is assumed of the database server, the
\* arrival of jobs or the call of quit.
Fairness == \A w \in Workers : WF_vars(~ terminated /\ Step(w))

FairSpec == Spec /\ Fairness

-----------------------------------------------------------------------------
(* Properties                                                              *)

Types ==
    /\ queue \in Seq(Jobs)
    /\ continue_ \in BOOLEAN
    /\ status \in [Jobs -> {"queued", "in_process", "finished", "failed"}]
    /\ pc \in [Workers -> InTransaction \cup
                 {"idle", "wait", "start", "connect", "open", "begin", "end",
                  "exit", "catch", "done"}]
    /\ held \in [Workers -> Jobs \cup {NoJob}]
    /\ conn \in [Workers -> {"closed", "ok", "bad"}]
    /\ session \in [Workers -> BOOLEAN]
    /\ trans \in [Workers -> {"idle", "intrans", "inerror"}]
    /\ temp \in [Workers -> SUBSET Objects]
    /\ rollback \in [Workers -> BOOLEAN]
    /\ exitSqls \in [Workers -> SUBSET Objects]
    /\ failing \in [Workers -> BOOLEAN]
    /\ pulled \in [Workers -> 0 .. MaxFeatures]
    /\ todo \in [Workers -> 0 .. 3]
    /\ executed \in [Workers -> 0 .. 3]
    /\ target \in [Jobs -> 0 .. 3]
    /\ planned \in [Jobs -> 0 .. 3]
    /\ ignored \subseteq Jobs
    /\ dbUp \in BOOLEAN
    /\ outages \in 0 .. MaxOutages
    /\ undropped \subseteq Objects
    /\ terminated \in BOOLEAN

\* A worker has a job from the pop to the end of the job.
HolderInv ==
    \A w \in Workers : held[w] = NoJob <=> pc[w] \in {"idle", "wait", "done"}

\* The types of the state, and that a worker that uses its job has one: an
\* empty Job::Ptr never gets past the tests of Worker::run.
TypeOK == Types /\ HolderInv

\* The statements of a job reach the target table together or not at all,
\* whatever fails in between and even if the process is terminated.
AllOrNothing == \A j \in Jobs : target[j] \in {0, planned[j]}

\* When the worker has left a finished job that ignored no feature, all of
\* its statements are committed: status is set before the commit, but the
\* flags that decide about it are those of this job.
FinishedIsCommitted ==
    \A j \in Jobs :
        /\ status[j] = "finished"
        /\ j \notin ignored
        /\ \A w \in Workers : held[w] # j
        => target[j] = planned[j]

\* Between two jobs a session has no open transaction, and no temporary table
\* or prepared statement but those whose own exit statement has failed,
\* however the jobs ended.
SessionCleanBetweenJobs ==
    \A w \in Workers :
        pc[w] \in {"idle", "wait", "start", "connect", "open", "begin", "done"}
            => trans[w] = "idle" /\ temp[w] \subseteq undropped

Lifecycle == INSTANCE JobLifecycle
                WITH state <- status, stored <- {j \in Jobs : target[j] > 0}

\* Workers, transactions and failing connections implement JobLifecycle: a
\* job is executed at most once, its changes appear in one step, and a job
\* that fails has none, although the destructor commits when the exception
\* was not a failed statement.
ImplementsLifecycle == Lifecycle!Spec

\* If the database stays up from some time on, a job that was started ends.
StartedIsDone ==
    <>[] dbUp =>
        \A j \in Jobs :
            status[j] = "in_process"
                ~> status[j] \in {"finished", "failed"} \/ terminated

\* If the database stays up from some time on, quit makes all workers leave,
\* after they have emptied the queue.  While it is down, a worker that waits
\* for its connection does not look at the queue and Broker::stop blocks.
QuitEndsWorkers ==
    <>[] dbUp => (~ continue_ ~> Stopped)

-----------------------------------------------------------------------------
(* What the documentation says and the code does not do.                   *)

\* batyrd.cfg.sample, ignore_failures: only features that can not be cast
\* are ignored; the rest of a finished pull is stored.
FinishedIsStored ==
    \A j \in Jobs :
        status[j] = "finished" /\ (\A w \in Workers : held[w] # j)
            => target[j] = planned[j]

\* transaction.h: a query that was not successful throws a DbError, which
\* Worker::run turns into a failed job; it does not end the server.
ServerSurvives == ~ terminated

=============================================================================
