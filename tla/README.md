# Batyr in TLA+

Batyr is a server that synchronises vector datasets (anything OGR can read) into
PostGIS tables. Clients request jobs over HTTP; worker threads execute them in
database transactions. This directory holds TLA+ models of the server, the TLC
configurations that check them on small instances, and TLAPS proofs.

Paths below are relative to the repository; `src/server` is the server's code.

## The system

### Parts, their state and their operations

| Part | State | Operations |
|---|---|---|
| `QuitableQueue` (`src/server/quitablequeue.h`) | `queue_`, `continue_`, `mutex_`, `cond_` | `push`, `popNoWait`, `popWait`, `quit` (`size` has no caller) |
| `JobStorage` (`jobstorage.cpp`) | map id -> job, `mapModificationMutex`, the queue, cleanup thread with `cleanupExitMutex` | `push`, `popNoWait`, `popWait`, `quit`, `getJob`, `getOrderedJobs`, `getStats`, cleanup every 20 s, destructor |
| `Job` (`job.h`, `job.cpp`) | status, three times, message, statistics, request | setters called by the worker, `toJsonValue` called by HTTP threads, `fromString` |
| `Worker` (`worker.cpp`) | the job in hand, its `Db::Connection` | `run`, `pull`, `removeByAttributes` |
| `Db::Connection`, `Db::Transaction` (`db/`) | libpq connection, `rollback`, `exitSqls` | `reconnect`, `close`, `exec*`, `prepare`, `createTempTable`, constructor (begin), destructor (commit or rollback, then exit statements) |
| `Broker`, `Server` (`broker.cpp`, `server.cpp`) | workers, listeners, storage | start the workers, then the listeners; wait for a signal; stop: stop the listeners, quit the queue, join the workers; `~Broker` stops again |
| HTTP (`http/`) | none of its own | dispatch by URL; pull and remove-by-attributes create and push a job; job, job list, status and layer list answer from the storage and the configuration |
| `Configuration`, `IniParser`, `StringUtils` | read once | parsing and checking |

### How they interact

An HTTP thread locks a `weak_ptr` to the storage, creates a `Job` and calls
`JobStorage::push`: into the map (under the map's mutex), then into the queue
(under the queue's mutex). A worker pops it, writes status, message and
statistics into the `Job` **without a lock** while it works, and other HTTP
threads look the job up (`getJob` takes no lock) and serialise it field by field.
The cleanup thread removes done jobs of a certain age from the map. Each worker
has one database connection and one transaction per job; the transaction is
ended by the destructor of the `Transaction` object, on the normal path as well
as during stack unwinding. On a signal `Broker::stop` stops the listener (open
connections are still served), quits the queue and joins the workers; the
storage is destroyed when its last `shared_ptr` goes.

### What is hard about it

* `push` releases the mutex before `notify_one`, and `popWait` first reads
  `continue_` without the mutex: is a wakeup lost, does a worker sleep through
  `quit`?
* Two pops race for the same items, with spurious wakeups.
* `setStatus` publishes the status before the finish time; the catch blocks
  publish the status before the message; a reader evaluates the status three
  times while it changes.
* The cleanup compares with the epoch for unfinished jobs; its thread has to be
  stopped by a destructor that other threads race with.
* The `Transaction` destructor decides about commit or rollback from a flag, from
  libpq's view of the transaction, and with an exception in flight; its own
  statements can fail. The job is FINISHED before its transaction is committed.
* A connection can be lost between any two statements; libpq notices it only
  with the next one. Waiting for a connection is a loop without limit.
* Starting can fail when some worker threads run already; stopping happens while
  requests are handled, and `popWait` gives up on a queue that is not empty.
* Rows: two jobs write to one table under row and table locks; `not in` and
  `st_equals` with NULL; `count` before `truncate`; columns the source lacks;
  conditions built from request data.
* Pure code at its edges: `trim` of blanks only, a job URL that ends in its id,
  one row of costs for the edit distance, sections that close several levels,
  numbers with trailing text, escaping in the right order.

`PROJECT.json` lists these as hazards with the line where each bites and the
properties that watch it.

## The modules

| Module | Models | Checked by |
|---|---|---|
| `BlockingFifo` | what the queue promises: a FIFO with atomic calls that can be closed | (abstract) |
| `QuitableQueue` | the queue with mutex, condition variable and its calling threads | `queue` |
| `QuitableQueueProofs` | TLAPS proofs about `QuitableQueue` | tlapm |
| `JobStorage`, `MCJobStorage` | the map, the job objects, cleanup thread, readers (job, job list, status page), destructor | `jobstorage_*` |
| `JobStorageProofs` | TLAPS proofs about `JobStorage` | tlapm |
| `JobLifecycle` | what a client may rely on: a job runs at most once and takes effect in one step | (abstract) |
| `Worker` | worker threads, connections, transactions, a database that fails | `worker`, `worker_*` |
| `WorkerProofs` | TLAPS proofs about `Worker`, with its refinement of `JobLifecycle` | tlapm |
| `TableSync`, `MCTableSync` | the rows of a target table under the statements of several pulls and removals | `table_sync`, `sync_*` |
| `TableSyncProofs` | TLAPS proofs about `TableSync` | tlapm |
| `Server` | `Server::main`, `Broker`, HTTP listener and the requests that push jobs | `server` |
| `ServerProofs` | TLAPS proofs about `Server` | tlapm |
| `StringUtils` | `trim`, `join`, `split`, `levenshteinDistance` | `inputs` |
| `Routing` | `normalizeUri` and the choice of the handler for a URI | `inputs` |
| `IniParser`, `Configuration` | reading a configuration file, and what it must contain | `inputs` |
| `RequestBody` | `Job::fromString`: a JSON body as a job | `inputs` |
| `PullPlan` | the columns of a pull, its refusals, the hint for a missing layer, the conversion of values and geometries | `inputs` |
| `MCInputs` | generates the inputs and holds the reference definitions | `inputs` |
| `TextProofs` | TLAPS proofs about `StringUtils`, the key columns and the hint, and what all proofs about folds rest on | tlapm |
| `RequestProofs` | TLAPS proofs about `Routing` and `RequestBody` | tlapm |
| `InputsProofs` | TLAPS proofs about `PullPlan`, `IniParser` and `Configuration` | tlapm |

`JobStorage`, `Worker` and `Server` use the queue as in `BlockingFifo` (one step per call),
which is justified by the refinement theorem of `QuitableQueueProofs`.
`JobStorage` and `Worker` look at the same worker loop from two sides: the first
at every single write into the shared `Job` object, the second at every
statement sent to the database. `TableSync` takes the statements on the target
table that `Worker` only counts and says what they do to the rows.

### QuitableQueue

A step ends where the code locks or unlocks the mutex, reads `continue_` without
it, or notifies. `pc` tells where each thread is:

* handler: `idle` -PushLock-> `push` -PushAppend-> `notify` -PushNotify-> `done`;
* worker: `idle` -PopNoWaitLock-> `popnowait` -PopNoWait-> `idle` (got an item)
  or `check` -PopWaitCheck-> `waitlock` -PopWaitLock-> `popwait` -PopWait-> `idle`,
  `waiting` (blocked) or `done`; a notification or a spurious wakeup moves
  `waiting` to `waitlock`;
* quitter: `idle` -QuitLock-> `quit` -Quit-> `done`; `notify_all` runs inside the
  critical section and is part of the same step.

The unlocked read of `continue_` is a data race: after a quit it may still see
TRUE, so `PopWaitCheck` may go on to the lock whatever the flag says. It cannot
see FALSE before a quit, nobody having written it. A handler pushes one job and so
stands for its item. `pushed` and `popped` are history variables.

### JobStorage

One step per access to shared data: lock or unlock of the map's mutex, one visit
of the cleanup loop, one assignment to a field of a job, one field read by
`toJsonValue`. Handlers (one per job), workers, readers, the cleanup thread and
the owner interleave freely. The worker is reduced to what it writes into the
job: `StartJob`, `WaitForDb`/`Connected` (message), `Pulled` (first statistics),
`Finish`/`Fail` (status), `RecordTime` (the second half of `setStatus`),
`FinalStatistics`, `FailMessage`. A failure can occur in `connect`, `work` and
`sync`, never after FINISHED was set: what can still throw then is the
destructor, and that ends the process (see `Worker`).

`getJob` iterates over the map without the mutex. While a writer holds the mutex
(`MapInFlux`) the lookup may succeed, miss a job that is there, or crash.
Similarly the message is a `std::string` that may be read while it is assigned.
After a crash nothing happens any more. `clock` starts at `Start`, later than
`Epoch + MaxAge`, as a system clock does; `doneAt` is a history variable.

A reader asks for a job, for the list or for the status page. `getOrderedJobs`
collects the jobs under the map's mutex and the list is serialised after it;
`ListJobs` therefore continues with any job of the list, whose fields are read
one by one like those of a single job. The order of the list is left out.
`getStats` holds the mutex while it counts the jobs one by one (`StatsLock`,
`StatsCount`, `StatsUnlock`), and workers change the status of jobs meanwhile:
the counts need not describe any one moment, but they add up to the list.

`Destroy` is possible when nobody holds a `shared_ptr`: workers gone and no
handler inside a request. From then on `weak_ptr::lock` fails: requests are
rejected (`PushRejected`) or find nothing.

### Worker

`conn` is libpq's view, `session` the server's: a loss is noticed by the next
statement. `trans` and `temp` are the transaction state and the temporary objects
of the session, named after their job as in the code (a rollback removes the
temporary table, not the prepared statement). An exit statement may fail like any
other one; the destructor logs it and goes on, so its object stays in the session,
and the history variable `undropped` remembers it. `rollback`, `exitSqls` and `failing` are the state of the
`Transaction` object and of the stack. Of the statements on the target table only
the number is kept: `planned` of a job, `executed` in the open transaction,
`target` committed.

Control flow: `idle`, `wait` (popWait), `start`, `connect` (the reconnect loop),
`open` (open the source), `begin`, `setup` (version, table, temporary table),
`prepare`, `features`, `sync` (statements on the target table), `end` (commit or
rollback), `exit` (exit statements), `catch`. `removeByAttributes` goes from
`setup` to `sync` directly. Any statement may fail (`StatementFails`), any client
side check may throw (`ClientFails`: before the first statement on the target
table, since all the checks and the quoting of every identifier come before it),
and the connection may be lost anywhere. After a loss libpq returns no result,
or one without SQLSTATE. `checkResult` reports the first as a `DbError`; for the
second it constructs a `std::string` from a null pointer, which throws a
`std::logic_error` that nobody catches. A `throw` that leaves the
destructor (implicitly `noexcept`) or `Worker::run` sets `terminated`.

The module implements `JobLifecycle` with `stored` the jobs with committed
statements: a job is started once, its changes appear in one step, and never for
a job that failed. `JobLifecycle` leaves the order of `Finish` and `Store` open;
the code finishes first.

### TableSync

A row has a key, a geometry, one more column and an identity. The configuration
of the layer (key constraint in the table or only in `primary_key_columns`,
deletion allowed, bulk mode, `truncate`, whether the source provides the third
column, and the `DEFAULT` of that column) is chosen at the beginning; each job chooses its type, and its source and
filter or its attribute sets when it starts. A pull runs `update`, `insert` and,
if allowed, `delete`; in bulk mode `count` (before a `truncate`), the deletion and
`insert`. `Differs`, `NotIn` and `Matches` are the conditions of the statements
with SQL's three-valued logic: `is distinct from` compares NULL like a value,
`not in` and `st_equals` do not.

PostgreSQL is external and abstracted to what concerns these statements under
READ COMMITTED. Each statement takes effect in one step on the committed rows and
those of its own transaction, and waits while another transaction has a lock on a
row it changes (`removed`), on the table (`truncate`), or has inserted one of its
keys into the unique index. A statement that had to wait for a row sees the new
version; one that waited for the index (`InsertWaits`, `InsertResumes`) keeps the
rows it had chosen and fails if they exist now. Any statement may fail, and one of
two transactions that wait for each other is ended. The source is read in one step,
and columns it lacks are NULL in the temporary table. The insert statements leave
these columns out, so a new row has their `DEFAULT` (`Inserted`), while the update
compares them with the NULL of the temporary table.

### The inputs

`StringUtils` to `PullPlan` are operators that follow the code function by
function. A text is a sequence of characters where its characters matter
(helpers, key columns, filters), a URI a sequence of pieces (an end point, the
job path, hexadecimal characters, dots, slashes, `?`), a configuration file a
sequence of classified lines, a JSON value a tree. What an option's text denotes
is a small table in `Configuration`. A value is the sequence of its lines: with
continuation lines it is no boolean and no method, but a number is read from its
first line all the same, since `std::stoi` stops there. `MCInputs` grows inputs of
each kind step by step and compares the results with definitions that do not look at
the code's way of computing them: the edit distance by recursion on prefixes, without
a short cut for equal characters, the section of a line by the last section lines of
each depth before it, its value by the lines that follow it, routes by the documented
paths. These definitions (`ReadsColumns`, `Distance`, `IsClosest`, `FollowsRoutes`,
`ReadsFile`, `IsSound`, `TransfersKeys`, `KeepsRestrictions`) take the input as a
parameter: the invariants apply them to the inputs of the run, the theorems to any input.

Worth knowing, and part of the properties: a job URL that ends with or inside its id
makes the factory throw; lists are formatted and then rejected; 64 bit integers are
read as `int`. `Configuration::parse` refuses an unknown section, and an unknown option in
`HTTP`, `MAIN`, `LOGGING` or a layer, but ignores every option on the top level,
directly in `LAYERS` and in sections nested deeper; `IsSound` covers the first and
says nothing of the latter.

Left out of the properties, because the code contradicts what the repository says of
it (see the disagreements below): what `trim` makes of a text of nothing but
characters to remove, in a list of key columns as well as in a line of a file, and
the coordinates of a geometry that should be reprojected.

### Server

The main thread goes `init`, `bind` (constructor of the listener), `workers` (one
worker after the other is constructed and started), `running`, `stop`, `quit`,
`join`, `release` (the members of the broker are destroyed), `return`, `exited`.
An exception in `bind` or `workers` unwinds to `~Broker`, which calls `stop`; after
a regular stop the destructor calls it a second time (`caller`). A request
connects while the listener runs and is then handled at any time, also after the
listener was stopped: method, JSON object, layer, `weak_ptr::lock`, map, queue,
answer. `StorageAlive` is the reference count of the storage. A worker is `idle`
(before `popNoWait`), `wait` (before or in `popWait`) or at `work`. `executed` and
`late` are history variables: `late` are the jobs queued while no worker was
`idle` or at `work`.

## The runs

| Run | Instance | Shows |
|---|---|---|
| `queue` | 2 handlers, 3 workers, 2 quitters, 2 spurious wakeups | every job handed out once and in order; no lost wakeup; nobody sleeps after quit; implements `BlockingFifo`; a queued job is popped unless the queue quits; quit gets every worker out |
| `jobstorage_safety` | 2 jobs, 1 worker, 1 reader, clock 2..4, MaxAge 1 | an unfinished job stays listed; an answer with a final status has statistics; the status page adds up to the list; a job with a recorded time is kept for MaxAge |
| `jobstorage_liveness` | 2 jobs, 1 worker, no reader | done jobs are removed; `~JobStorage` returns |
| `worker` | 2 workers, a pull (ignore_failures) and a remove job, no persistent connections, 1 loss | all or nothing; finished jobs are committed; sessions keep nothing between jobs but what an exit statement failed to drop; implements `JobLifecycle` (failed jobs leave the table untouched); if the database stays up in the end, started jobs end and quit ends the workers |
| `server` | 2 workers, 3 requests | every thread is joined before the broker goes, also after a start that failed half way; a failed start accepts nothing; a job queued while a worker was busy is executed before the workers leave; stop returns |
| `table_sync` | 2 jobs, 7 layers, 4 tables, 7 sources, 3 attribute lists | a full pull makes the table a copy of the source, in the columns the source has; the same pull again writes nothing; partial pulls delete nothing; statistics account for the rows; removals delete what they describe; every job ends |
| `inputs` | see bounds | the algorithms agree with their reference definitions |

Five further runs are expected to be violated; each states what a comment or the
manual says, and TLC's counterexample shows that the code does otherwise:

| Run | Property | What happens |
|---|---|---|
| `jobstorage_early_removal` | `DoneIsKeptForMaxAge` | the cleanup runs between the two assignments of `setStatus`, sees a done job finished at the epoch, and removes it at once |
| `worker_ignore_failures` | `FinishedIsStored` | an ignored feature leaves `rollback` set: the job is finished, nothing is stored |
| `worker_connection_loss` | `ServerSurvives` | a connection lost inside a transaction makes the destructor throw and ends the process |
| `sync_missing_columns` | `MissingColumnsUntouched` | an update sets the columns that the source lacks to NULL |
| `sync_null_geometry` | `DifferencesAreUpdated` | a row whose geometry is NULL on one side only does not count as different |

More disagreements between the code and what the repository says of it have no run
of their own. They are findings all the same; where one is about something that a
module models, a theorem proves what the code does, for all values:

| Where | The code | The repository | Shown by |
|---|---|---|---|
| `common/stringutils.cpp:22` | `trim` returns a text of nothing but characters to remove as it is: an entry of blanks becomes a key column, a line of blanks makes the file invalid | `stringutils.h:10`: "trim all of the given characters", `iniparser.cpp:36`: "skip lines without content" | `TrimLeavesBlanks`, `WhiteLinesAreRefused` |
| `worker.cpp:391` | geometries are sent without SRID and never reprojected; coordinates of another system are stored under the SRID of the column | `MANUAL.md:29`: "transform incoming geometries to the coordinate system of the target table", `MANUAL.md:290` | `CoordinatesAreNotReprojected` |
| `worker.cpp:605` | a feature without a key keeps the pull from deleting anything | `MANUAL.md:22`: "deletes all rows from the target table which are not part of the new data", `MANUAL.md:220` | `NullKeyDeletesNothing` |
| `worker.cpp:572` | a column with a `DEFAULT` that the source lacks makes the next pull rewrite the row | `MANUAL.md:20`: "The update will only affect rows where data actually differ" | `DefaultIsRewritten` |
| `configuration.cpp:175`, `187` | 1 is accepted for `num_worker_threads` and `max_age_done_jobs` | `MANUAL.md:97`, `109`: "must be > 1" | `PositiveOk` of `Configuration` |
| `job.cpp:74` | a running job is `in_process` | `MANUAL.md:309`: `in_progress` | `Statuses` of `JobStorage` |
| `httprequesthandlerfactory.cpp:90` | jobs are served under `api/v1/job/` only | `MANUAL.md:395`: example `GET /api/job/...` | `RoutesAreFollowed` |

Where the code deviates, the passing runs check the strongest statement that does
hold and is wanted, and say nothing of the inputs on which the two disagree:
`RecordedIsKeptForMaxAge`, `FinishedIsCommitted` (for jobs that ignored no
feature), `SessionCleanBetweenJobs` (but for failed exit statements),
`QuitEndsWorkers` and `StartedIsDone` (if the database comes back),
`PullMirrorsSource` (NULL keys and geometries excepted), `RepeatedPullWritesNothing`
(a `DEFAULT` in a column the source lacks excepted), `StatisticsMatchTable` (a
`truncate` that overlaps with another job excepted), `AcceptedIsExecuted` (jobs queued
when no worker is busy any more excepted), `AcceptedPullTransfersKeys` (a geometry column
named twice, a table of key columns only), `KeyColumnsAreNames` (entries without a
name), `IniReadsFile` (lines of white space), `FeaturesAreKept` (coordinates that
should be reprojected).
Two windows are in the models without a property, since nothing promises more:
a client may see `failed` before the message is set, and while the database is
down a worker with a job does not look at the queue, so `Broker::stop` waits.

Every property has a mutant: a plausible slip in one definition (a definition
whose comment begins with "Mutant of") under which TLC finds it violated.

### Bounds

* Queue: three workers and two jobs let one worker sleep, one be notified, and a
  third, coming from `popNoWait`, take the item;
  two quitters cover a repeated quit; spurious wakeups are capped
  (`MaxSpurious`). The safety properties are proved without these bounds.
* Storage: two jobs make a scan visit more than one job; one reader suffices,
  readers not affecting each other; one worker takes both jobs in turn. The clock
  (`MaxTime`) moves twice, so a job can be younger than, exactly as old as, and
  older than `MaxAge`. Safety is proved without these bounds. Liveness is checked
  without readers (see Fairness).
* Worker: `MaxFeatures` 1 is enough for a feature to be pulled or ignored;
  `MaxOutages` bounds the losses. Two workers share nothing but the queue and the
  server; without persistent connections each job also goes through a connect.
  Safety is proved without these bounds.
* Rows: two jobs suffice for every pair of statements to meet, and for a pull that
  is repeated. The values of `MCTableSync` have two forms of one geometry, a
  collection, NULL keys, NULL geometries, a repeated key, and keys that are new,
  changed and deprecated; three of the layers have a source that lacks a column, with
  and without a `DEFAULT`, in normal and in bulk mode. The safety properties are proved for any jobs, tables,
  sources and attribute lists.
* Inputs: all texts of up to 6 of 5 characters (`MaxText`), URIs of up to 4 pieces
  (`MaxUri`), all files at most 2 lines away from a valid one (`MaxEdits`; lines
  are inserted and dropped anywhere), tables of up to 3 columns (`MaxTable`)
  against all sources, bodies of up to 3 members (`MaxBody`), all kinds of fields,
  with `int` shrunk to 3 bits (`MaxInt`). Texts of 6 characters cover two names
  with a difference in the middle and empty pieces at both ends; two edits cover a section
  or an option that is repeated, misplaced, or dropped and replaced.
* Server: with two workers a start can fail after the first, and one worker can
  wait while the other is busy; three requests let a job be queued before, during
  and after the stop. Safety is proved without these bounds.

### Fairness

Weak fairness of the threads that are running: the scheduler runs them, and the
mutexes are held for a few instructions only. A push or quit that holds a mutex
completes; none needs to be called. The clock advances. The cleanup thread gets
its mutex: weak fairness suffices because each of the finitely many handlers
takes that mutex once.
A job may wait for its database for ever, and in `JobStorage` may be worked on
for ever. Nothing is assumed of the database; the liveness properties of `Worker`
name the assumption they need (`<>[] dbUp`). In `Server` the main thread and the
workers run; that the execution of a job ends is `StartedIsDone` of `Worker` and
needs the same assumption.
In `TableSync` the workers send their statements, and PostgreSQL executes one
when its locks are free and resolves deadlocks; jobs need not be started.
The liveness of the storage is checked without readers: status pages that come
without end could keep the cleanup thread from the mutex, and readers otherwise
change only their own state or crash the process.
Deadlock is checked in all runs but `inputs`, where inputs stop growing at their
bounds; the stuttering actions `Terminated`, `Ended` and `Exited`
allow it only where everything has returned or the process is gone.

## The proofs

`QuitableQueueProofs` proves, for every finite set of handlers and workers, any
set of quitters and any bound on spurious wakeups (`ThreadsAssumption`,
`BoundAssumption`: the kinds of threads are disjoint):

* `TypeCorrect`: `Spec => []TypeOK`, inductive as it stands.
* `MutualExclusion`: `[]MutexOwner` (a thread is inside a critical section
  exactly if it owns the mutex), inductive relative to `TypeOK`: a thread
  enters a critical section by `Lock`, which needs a free mutex, and leaves by
  `Unlock`.
* `QuitWakesEverybody`: `[]NobodySleepsAfterQuit`. The only step to `waiting`
  tests `continue_` in the same critical section, and `Quit` empties `Waiting`.
* `ExactlyOnceInOrder`: `[]FifoExactlyOnce`. Not inductive alone: that a push adds
  a new item needs `PushedOnce` (a handler in `idle` or `push` has not pushed
  yet), so `FifoInv` is their conjunction. Lemma `MoveFront` says that moving the
  head of one sequence to the end of the other keeps their concatenation.
* `WakeupsAreNotLost`: `[]NoLostWakeup`, a counting argument on the alert threads
  (`notify`, `waitlock`, `popwait`). A push adds an item and an alert thread; a
  notification exchanges the handler for a worker; a worker that leaves `popwait`
  takes an item along; and a worker falls asleep only on an empty queue.
  `MutexOwner` and cardinality facts on finite sets are used. When nobody sleeps
  the property says nothing, and needs nothing: the step that makes the first
  worker sleep finds the queue empty.
* `QueueImplementsFifo`: `Spec => ImplementsFifo`. Step by step: `PushAppend` is
  `Put`, a successful pop is `Take`, `Quit` is `Close`, leaving `popWait` is
  `Leave`, all others stutter. `Put` requires an item that was never put, which
  is `NotYetPushed`, a consequence of `FifoInv`.

`ServerProofs` proves, for any workers and requests (`RequestsAssumption`: the
empty pointer is no job):

* `ServerTypeCorrect` and `AllThreadsJoined` from `TypeOK /\ ThreadsInv`. Neither
  `TypeOK` nor `NoThreadOutlivesBroker` is inductive: that a worker about to be
  started holds no job, and that none runs after the join, both need to know that
  every running worker is in `workerThreads`.
* `FailedStartIsSilent`, from `StartInv`: until the listener runs, and after a
  failed start, there is no request at all.
* `BusyWorkersDrainTheQueue`: `[]AcceptedIsExecuted`, from `TrackInv` (a listed job
  is about to be queued, queued, held or executed) and `LateInv` (a worker stops
  being busy on an empty queue only, so what is queued while nobody is busy came
  late).

`JobStorageProofs` proves, for any number of jobs, workers and readers, any clock
and any `MaxAge` (`TimeAssumption`: the clock starts later than `Epoch + MaxAge`;
`ThreadsAssumption`: the kinds of threads are disjoint), the
safety properties of `jobstorage_safety`: `StorageTypeCorrect`,
`UnfinishedStaysListed`, `DoneAnswerIsComplete`, `StatsAreConsistent` and
`RecordedIsKept`. None of them is inductive; `StorageInv` adds

* `MutexInv`, `LifeInv`: who is in a critical section owns the mutex, and the storage
  lives while it is used;
* `HolderInv`, `PlaceInv`, `StatusInv`: a job is with its handler, in one place of the
  queue or with one worker, and the place determines its status. Thus no two
  workers write one job, and a queued job is never done;
* `ListedInv`: a job is in the map before it is in the queue. Since the cleanup asks
  for the status of a job first, this gives `UnfinishedIsListed`;
* `ScanInv`: `minTime` is at most `clock - MaxAge` however long the scan takes, which
  is why a job with a recorded time is kept;
* `ReportInv`: a reader that has seen a final status sees a final one again, and by
  then the statistics of the pull are there;
* `CountInv`: between two turns of `getStats` the numbers add up to the jobs visited,
  and since a job only moves to later statuses the finished and failed ones are
  never overcounted and the queued ones never undercounted. This is a counting
  argument on cardinalities, because workers change jobs that were counted already.

`WorkerProofs` proves, for any workers, jobs, features and losses
(`JobsAssumption`, `OptionsAssumption`): `WorkerTypeCorrect`, `StatementsAreAtomic`
(`AllOrNothing`), `FinishedMeansCommitted`, `SessionsAreClean` and
`WorkersImplementLifecycle` (`ImplementsLifecycle`). `WorkerInv` adds

* `HolderInv`, `ExclusiveInv`: a job is in one place of the queue or with one worker;
* `StatusInv`: the label and an exception in flight determine the status of the job;
  nothing of it is stored before the commit;
* `StatementsInv`: `executed + todo = planned` while the statements run, so whoever
  reaches `end` without an exception has executed all of them, and with one has
  executed nothing or has the flag for the rollback. Without an exception only an
  ignored feature sets that flag, which is the exception in `FinishedIsCommitted`;
* `SessionInv`: what a session has is registered in `exitSqls` or is in `undropped`, and a
  lost session has nothing.

`TypeOK` of `Worker` says of the workers not only their labels but that each holds a job
exactly while it works on one (`HolderInv`).

The refinement goes step by step: `StartJob` is `Start`, `setStatus(FINISHED)` is
`Finish`, the commit of at least one statement is `Store`, the catch block is `Fail`,
everything else stutters, all losses of the database included.

`TableSyncProofs` proves all five action properties of `table_sync`, for any number of
jobs and any layers, tables, sources and attribute lists (`LayersAssumption`,
`TablesAssumption`, `SourcesAssumption`, `AttributesAssumption`: tables and sources are
finite, and the rows of a table have distinct identities). `StepKinds` first reduces
every step to one of ten kinds (`Starts`, `Updates`, `Inserts`, ...), which say what
happens to the rows of one transaction; all but the commit leave the table and the
other jobs alone. `SyncInv` consists of

* `TransactionInv`: identities are unique (`TableInv`), a row is locked by one
  transaction (`LocksInv`), one that has not overlapped is the only one
  (`AloneInv`), what it removed is still in the table, and what it added is from its
  source or a new version of a removed row (`RowsOf`);
* `StatsOf`: `added + deleted = removed + created`, by cardinality, after every
  statement; for a `truncate` the count is that of the rows with a key;
* `MirrorOf`: how far a pull that runs alone has come: after `update` no row differs
  from its source, after `insert` none is missing, after `delete` none is too many;
* `KeepOf`, `RemoveOf`: each row that a partial pull took has its new version, and
  each row that a removal took matches the attributes;
* `PulledInv`, `RepeatOf`: since the last full pull the table has been a copy of that
  source, so a pull of the same source finds nothing to do, provided that what it
  would insert is what it compares with (`InsertsWhatItCompares`: no `DEFAULT` in a
  column that the source lacks).

The theorems are then about the commit: `PartialPullsKeepRows`, `RemovalsAreExact`,
`StatisticsAddUp`, `FullPullsMirror`, `RepeatedPullsAreQuiet`. `NullKeyDeletesNothing` and
`DefaultIsRewritten` prove what happens in the cases that these leave out. TLC has checked `SyncInv`
on the instance of `table_sync` before the proof.

`TextProofs`, `RequestProofs` and `InputsProofs` are about algorithms, for inputs of any
size. Each result has two forms: a theorem about any input, and one about the
specification of `inputs` without its bounds (`Spec => []...`), which needs an
invariant only for the kind of the inputs (`TextInv`, `UriInv`, `FileRuns`, ...).

Most of these algorithms are folds over their input, and the library's induction
theorems cannot be used. So the induction is over a set instead of a predicate:
`InductionTo` (numbers up to `n`, from the least element that is not in the set) and
`SeqInduction` (sequences that grow at the end). `FoldLeft` is defined by a function over
sets of positions that is chosen; `FoldExists` constructs it, provided that the step
stays inside of a set, and `FoldStep` compares the folds over `s` and `Append(s, x)`.
Every fold of the models has a lemma of this form (`SplitFold`, `ParseFold`, ...): its
value for the empty sequence, a set its values are in, and its value for one more
element. All the rest is an invariant of that step.

* `TrimStrips`: `trim` returns what lies between the first and the last character that
  is not to be removed, if there is one; otherwise it removes nothing (`TrimLeavesBlanks`).
* `SplitIsUndone`: `join` undoes `split`, and no element has a separator in it
  (`SplitInv`: joined, what was read so far is the text so far). From it
  `ColumnsAreNames`: the entries of `primary_key_columns` with a name become columns, in their
  order; `InOrder` counts the entries before each by cardinality, which gives the
  place of its column.
* `RowGivesDistance`: `levenshteinDistance` is the edit distance. Within a row,
  `InPlace` says that the costs are new up to a column and old behind it, and that
  `corner` has the old cost of that column. The rows satisfy the recurrence of the code,
  which takes the corner for equal characters without a look at the neighbours;
  that this is right needs `Smooth` and `CellsAgree`: neighbours differ by at
  most 1. The table of these rows is also what shows that the recursive definition of
  `Distance` has a solution (`TableIsDistances`), and it is the only one
  (`DistancesAreTable`).
* `ClosestIsClosest`: the hint is one of the closest names; if all of them are at least
  5000 edits away (`HighValue`), there is none.
* `RoutesAreFollowed`: every documented path, and no other one, gets its handler, for
  every URI and ids of any length. What remains after `normalizeUri` is the path
  that the URI leads to (`LeadsToNormalized`); it is nothing for `/`, and for
  parameters after dots and slashes. `DispatchIsCorrect` is the property of
  `inputs` for any `MaxUri`; `UriInv` bounds the digits in a row.
* `RequestsAreKept`: an accepted request loses no attribute set and no filter, for any
  JSON object (`WellFormed`: members and elements are sequences). `SaysLast`: of several
  members with one name the last one counts.
* `PullsTransferKeys`: what `AcceptedPullTransfersKeys` says, for any table whose columns
  have different names (the code has them in a map), any source and any override.
* `LossesAreKnown` and `GeometriesFit`, for every field, every content of
  `geometry_columns` and every version of PostGIS, and from them `FeaturesArrive`,
  the property `FeaturesAreKept`. How a geometry is stored is `StoredAs`, which
  also gives `CoordinatesAreNotReprojected`. `MaxInt` keeps its small value; nothing but its
  sign is used.
* `FilesAreRead`: the parser refuses malformed files, accepts the others unless they
  have a line of white space (`WhiteLinesAreRefused`), and has their values.
  The invariant `FileInv` says of the parser after `n` lines that `level` is the section
  behind line `n` and `sections` has all that have begun (`SectionsRead`), that the
  values are those written so far (`ValuesRead`), and that `lastKey` names the only value
  that can be continued (`KeyRead`). There is one lemma for each kind of line
  (`SkippedStep`, `SectionStep`, `ContinueStep`, `PairStep`): without an error so far,
  the line raises one exactly if it does not fit behind the others (`LineFits`), and
  otherwise keeps `FileInv`. On the other side, `IniFileNext` and the lemmas before it
  say what one more line does to the sections, places and values by their definition;
  that a new section changes none of an earlier line needs `Filled`: where no level is
  skipped, there is a section of each depth.
* `AcceptedIsUsable`, about any tree, and `AcceptedIsSound`, about any file: what the server
  relies on is there, sections of the first level and the options of the server's and
  the layers' sections are known, and a layer deletes, truncates or is
  disabled only where a line says so. `TreeIsWritten` connects the tree with the lines.

Only model-checked are the liveness properties (`QueuedIsPopped`, `QuitEndsConsumers`,
`DoneIsRemoved`, `DestructionTerminates`, `StartedIsDone`, `QuitEndsWorkers`,
`StopTerminates`, `JobsEnd`): fairness and `ENABLED` are out of the prover's reach here.
The findings are counterexamples, which TLC finds.

## What is not modelled

* `JobStorage::removeJob` and `QuitableQueue::size` have no caller.
  `StringUtils::tolower` is left out: the names of fields and the texts of options
  are taken as they are after it.
* The order of the job list and of the layers, JSON and log formatting, the static
  files of the web interface, the tools that generate them.
* How lists are formatted: `convertToString` throws for them right after it.
* The text of the SQL queries and the quoting of identifiers: statements appear by
  what they do.
* Option parsing and logging set-up appear as one outcome of `EarlyExit`.
* `levenshteinDistance` writes to a vector that was only reserved; this is
  undefined, works with the common implementations, and is modelled as if it were
  resized.
* GDAL, libpq, POCO, rapidjson and PostgreSQL are external and appear by what the
  code can observe of them.

## Plan

Done: all modules above. Every safety invariant, action property and refinement that
a passing run checks is proved; the liveness properties stay with TLC.

What could be added:

1. `getOrderedLayers` and the order of the job list, with a proof that the order of
   `getOrderedJobs` is total for jobs of the same second.
2. The lists of `convertToString`, once the code sends them.
3. Quoting of identifiers and texts in `Db::Transaction`.
