----------------------------- MODULE JobStorage -----------------------------
(***************************************************************************)
(* The job list (jobstorage.cpp), the job objects (job.h, job.cpp) and the *)
(* threads that share them:                                                *)
(*   - the handler that creates and pushes a job (one per job);            *)
(*   - the workers, reduced to what Worker::run, pull and                  *)
(*     removeByAttributes write into the job, in the order of the code;    *)
(*   - the readers: requests for a job or the job list, which serialize    *)
(*     jobs field by field, and for the status page, which count them;     *)
(*   - the cleanup thread, which removes old jobs;                         *)
(*   - the owner, which quits the queue and destroys the storage.          *)
(* Only mapModificationMutex is held anywhere, and only around the map:    *)
(* the fields of a job are written and read without a lock.  QuitableQueue *)
(* is used by its abstraction, BlockingFifo: one step per call.            *)
(***************************************************************************)
EXTENDS Integers, Sequences, FiniteSets

CONSTANTS
    Jobs,      \* the jobs that clients request, and the handlers of them
    Workers,   \* worker threads
    Readers,   \* threads that answer job requests
    NoJob,     \* an empty Job::Ptr
    MaxAge,    \* maxAgeDoneJobs
    Start,     \* the time at which the server starts
    MaxTime    \* bound on the clock

\* The cleanup thread, and the owner of the free mutex.
Cleanup == "cleanup"
NoThread == "none"

Threads == Jobs \cup Workers \cup Readers \cup {Cleanup}

\* A default constructed time_point.
Epoch == 0

ASSUME TimeAssumption ==
    /\ MaxAge \in Nat
    /\ Start \in Nat
    /\ Start > Epoch + MaxAge
    /\ MaxTime \in Nat
    /\ MaxTime >= Start

ASSUME ThreadsAssumption ==
    /\ Jobs \cap Workers = {}
    /\ Jobs \cap Readers = {}
    /\ Workers \cap Readers = {}
    /\ {Cleanup, NoThread} \cap (Jobs \cup Workers \cup Readers) = {}
    /\ NoJob \notin Jobs

VARIABLES
    job,        \* the Job objects
    jobMap,     \* the jobs in the map
    mapMutex,   \* owner of mapModificationMutex
    queue,      \* the queued jobs
    continue_,  \* FALSE once the queue was quit
    pc,         \* where each thread is
    held,       \* the job each worker works on
    unvisited,  \* the jobs the cleanup loop has not reached
    minTime,    \* finish time that spares a job from the cleanup
    exitSignal, \* cleanupExitMutex was released
    storage,    \* life of the JobStorage object
    clock,      \* system_clock::now
    asked,      \* the job each reader looks for
    report,     \* what each reader has read
    tally,      \* what each reader has counted, and has not yet
    crashed,    \* a data race ended the process
    doneAt      \* history: when each job became finished or failed

vars == <<job, jobMap, mapMutex, queue, continue_, pc, held, unvisited,
          minTime, exitSignal, storage, clock, asked, report, tally, crashed,
          doneAt>>

readerVars == <<asked, report, tally>>
threadVars == <<pc, held, readerVars>>
cleanupVars == <<unvisited, minTime, exitSignal>>

NewJob == [status |-> "queued", timeFinished |-> Epoch,
           message |-> "empty", stats |-> "zero"]

\* Nothing serialized yet.  Epoch - 1 stands for a timeFinished that is not
\* part of the answer.
Absent == Epoch - 1
EmptyReport == [timeFinished |-> Absent, status |-> "none",
                message |-> "empty", stats |-> "none"]

\* A new JobStats.
Statuses == {"queued", "in_process", "finished", "failed"}
EmptyTally == [left |-> {}, num |-> [s \in Statuses |-> 0]]

Init ==
    /\ job = [j \in Jobs |-> NewJob]
    /\ jobMap = {}
    /\ mapMutex = NoThread
    /\ queue = <<>>
    /\ continue_ = TRUE
    /\ pc = [t \in Threads |-> IF t = Cleanup THEN "sleep" ELSE "idle"]
    /\ held = [w \in Workers |-> NoJob]
    /\ unvisited = {}
    /\ minTime = Epoch
    /\ exitSignal = FALSE
    /\ storage = "alive"
    /\ clock = Start
    /\ asked = [r \in Readers |-> NoJob]
    /\ report = [r \in Readers |-> EmptyReport]
    /\ tally = [r \in Readers |-> EmptyTally]
    /\ crashed = FALSE
    /\ doneAt = [j \in Jobs |-> Epoch]

Done(j) == job[j].status \in {"finished", "failed"}

Goto(t, from, to) ==
    /\ pc[t] = from
    /\ pc' = [pc EXCEPT ![t] = to]

-----------------------------------------------------------------------------
(* JobStorage::push, called by the handler of job j.                       *)

\* The handler holds a weak_ptr, which is empty once the storage is going
\* away: the request is answered with an error.
PushRejected(j) ==
    /\ storage # "alive"
    /\ Goto(j, "idle", "done")
    /\ UNCHANGED <<job, jobMap, mapMutex, queue, continue_, held, cleanupVars,
                   storage, clock, readerVars, crashed, doneAt>>

AddJobLock(j) ==
    /\ storage = "alive"
    /\ Goto(j, "idle", "add")
    /\ mapMutex = NoThread
    /\ mapMutex' = j
    /\ UNCHANGED <<job, jobMap, queue, continue_, held, cleanupVars, storage,
                   clock, readerVars, crashed, doneAt>>

AddJob(j) ==
    /\ Goto(j, "add", "enqueue")
    /\ jobMap' = jobMap \cup {j}
    /\ mapMutex' = NoThread
    /\ UNCHANGED <<job, queue, continue_, held, cleanupVars, storage, clock,
                   readerVars, crashed, doneAt>>

Enqueue(j) ==
    /\ Goto(j, "enqueue", "done")
    /\ queue' = Append(queue, j)
    /\ UNCHANGED <<job, jobMap, mapMutex, continue_, held, cleanupVars,
                   storage, clock, readerVars, crashed, doneAt>>

-----------------------------------------------------------------------------
(* The worker's accesses to the job.                                       *)

Take(w) ==
    /\ held' = [held EXCEPT ![w] = Head(queue)]
    /\ queue' = Tail(queue)

PopNoWait(w) ==
    /\ \/ queue # <<>> /\ Take(w) /\ Goto(w, "idle", "start")
       \/ queue = <<>> /\ Goto(w, "idle", "wait") /\ UNCHANGED <<queue, held>>
    /\ UNCHANGED <<job, jobMap, mapMutex, continue_, cleanupVars, storage,
                   clock, readerVars, crashed, doneAt>>

PopWait(w) ==
    /\ \/ continue_ /\ queue # <<>> /\ Take(w) /\ Goto(w, "wait", "start")
       \/ ~ continue_ /\ Goto(w, "wait", "done") /\ UNCHANGED <<queue, held>>
    /\ UNCHANGED <<job, jobMap, mapMutex, continue_, cleanupVars, storage,
                   clock, readerVars, crashed, doneAt>>

\* Worker w, at "from", writes v into a field of its job and goes to "to".
\* Back at the top of the loop it has a new, empty Job::Ptr.
WriteField(w, from, to, field, v) ==
    /\ Goto(w, from, to)
    /\ job' = [job EXCEPT ![held[w]] = [@ EXCEPT ![field] = v]]
    /\ held' = IF to = "idle" THEN [held EXCEPT ![w] = NoJob] ELSE held
    /\ UNCHANGED <<jobMap, mapMutex, queue, continue_, cleanupVars, storage,
                   clock, readerVars, crashed>>

StartJob(w) ==
    /\ WriteField(w, "start", "connect", "status", "in_process")
    /\ UNCHANGED doneAt

\* The database is not reachable: tell the clients.
WaitForDb(w) ==
    /\ pc[w] = "connect"
    /\ job[held[w]].message # "waiting"
    /\ WriteField(w, "connect", "connect", "message", "waiting")
    /\ UNCHANGED doneAt

Connected(w) ==
    /\ WriteField(w, "connect", "work", "message", "empty")
    /\ UNCHANGED doneAt

\* pull: all features were read.
Pulled(w) ==
    /\ WriteField(w, "work", "sync", "stats", "pulled")
    /\ UNCHANGED doneAt

\* setStatus, first half: status is assigned before timeFinished.
SetDone(w, from, to, s) ==
    /\ WriteField(w, from, to, "status", s)
    /\ doneAt' = [doneAt EXCEPT ![held[w]] = clock]

\* From "sync" in pull, from "work" in removeByAttributes.
Finish(w) ==
    \E from \in {"work", "sync"} : SetDone(w, from, "finishtime", "finished")

\* An exception, in Connection::reconnect, pull or removeByAttributes.
FailLabels == {"connect", "work", "sync"}

Fail(w) == \E from \in FailLabels : SetDone(w, from, "failtime", "failed")

\* Mutant of RecordTime: the time since the start of the server.
RecordUptime(w) ==
    /\ \/ WriteField(w, "finishtime", "finalstats", "timeFinished", clock - Start)
       \/ WriteField(w, "failtime", "failmessage", "timeFinished", clock - Start)
    /\ UNCHANGED doneAt

\* setStatus, second half.
RecordTime(w) ==
    /\ \/ WriteField(w, "finishtime", "finalstats", "timeFinished", clock)
       \/ WriteField(w, "failtime", "failmessage", "timeFinished", clock)
    /\ UNCHANGED doneAt

FinalStatistics(w) ==
    /\ WriteField(w, "finalstats", "idle", "stats", "final")
    /\ UNCHANGED doneAt

FailMessage(w) ==
    /\ WriteField(w, "failmessage", "idle", "message", "error")
    /\ UNCHANGED doneAt

-----------------------------------------------------------------------------
(* The cleanup thread.                                                     *)

\* try_lock_for timed out.
CleanupWake ==
    /\ ~ exitSignal
    /\ Goto(Cleanup, "sleep", "lock")
    /\ UNCHANGED <<job, jobMap, mapMutex, queue, continue_, held, cleanupVars,
                   storage, clock, readerVars, crashed, doneAt>>

\* Mutant of CleanupLock: the age is not subtracted.
CleanupLockNow ==
    /\ Goto(Cleanup, "lock", "scan")
    /\ mapMutex = NoThread
    /\ mapMutex' = Cleanup
    /\ minTime' = clock
    /\ unvisited' = jobMap
    /\ UNCHANGED <<job, jobMap, queue, continue_, held, exitSignal, storage,
                   clock, readerVars, crashed, doneAt>>

\* Mutant of CleanupLock: minTime is computed once, before the loop.
CleanupLockOnce ==
    /\ Goto(Cleanup, "lock", "scan")
    /\ mapMutex = NoThread
    /\ mapMutex' = Cleanup
    /\ unvisited' = jobMap
    /\ UNCHANGED <<job, jobMap, queue, continue_, held, minTime, exitSignal,
                   storage, clock, readerVars, crashed, doneAt>>

CleanupLock ==
    /\ Goto(Cleanup, "lock", "scan")
    /\ mapMutex = NoThread
    /\ mapMutex' = Cleanup
    /\ minTime' = clock - MaxAge
    /\ unvisited' = jobMap
    /\ UNCHANGED <<job, jobMap, queue, continue_, held, exitSignal, storage,
                   clock, readerVars, crashed, doneAt>>

\* Mutant of CleanupVisit: isDone is not tested.
CleanupVisitAny(j) ==
    /\ pc[Cleanup] = "scan"
    /\ j \in unvisited
    /\ unvisited' = unvisited \ {j}
    /\ jobMap' = IF job[j].timeFinished < minTime THEN jobMap \ {j} ELSE jobMap
    /\ UNCHANGED <<job, mapMutex, queue, continue_, threadVars, minTime,
                   exitSignal, storage, clock, crashed, doneAt>>

CleanupVisit(j) ==
    /\ pc[Cleanup] = "scan"
    /\ j \in unvisited
    /\ unvisited' = unvisited \ {j}
    /\ jobMap' = IF Done(j) /\ job[j].timeFinished < minTime
                 THEN jobMap \ {j} ELSE jobMap
    /\ UNCHANGED <<job, mapMutex, queue, continue_, threadVars, minTime,
                   exitSignal, storage, clock, crashed, doneAt>>

\* The end of the loop body: the lock and minTime go out of scope.
CleanupUnlock ==
    /\ unvisited = {}
    /\ Goto(Cleanup, "scan", "sleep")
    /\ mapMutex' = NoThread
    /\ minTime' = Epoch
    /\ UNCHANGED <<job, jobMap, queue, continue_, held, unvisited, exitSignal,
                   storage, clock, readerVars, crashed, doneAt>>

\* try_lock_for got the mutex.
CleanupExit ==
    /\ exitSignal
    /\ Goto(Cleanup, "sleep", "done")
    /\ UNCHANGED <<job, jobMap, mapMutex, queue, continue_, held, cleanupVars,
                   storage, clock, readerVars, crashed, doneAt>>

-----------------------------------------------------------------------------
(* GetJobHandler: JobStorage::getJob, then Job::toJsonValue.               *)

\* The map is being modified: its mutex is held, but getJob does not take it.
MapInFlux == \E t \in Jobs \cup {Cleanup} : pc[t] \in {"add", "scan"}

\* The lookup.  Concurrent with a modification it may also miss a job that
\* is in the map or follow a dangling pointer.
GetJob(r, j) ==
    /\ pc[r] = "idle"
    /\ asked' = [asked EXCEPT ![r] = j]
    /\ \/ /\ storage = "alive"
          /\ j \in jobMap
          /\ pc' = [pc EXCEPT ![r] = "serialize"]
          /\ UNCHANGED crashed
       \/ /\ storage # "alive" \/ j \notin jobMap \/ MapInFlux
          /\ pc' = [pc EXCEPT ![r] = "notfound"]
          /\ UNCHANGED crashed
       \/ /\ storage = "alive"
          /\ MapInFlux
          /\ crashed' = TRUE
          /\ UNCHANGED pc
    /\ UNCHANGED <<job, jobMap, mapMutex, queue, continue_, held, cleanupVars,
                   storage, clock, report, tally, doneAt>>

\* The answer was sent: the reader takes the next request.
Answered(r) ==
    /\ pc[r] \in {"notfound", "answered"}
    /\ pc' = [pc EXCEPT ![r] = "idle"]
    /\ asked' = [asked EXCEPT ![r] = NoJob]
    /\ report' = [report EXCEPT ![r] = EmptyReport]
    /\ UNCHANGED <<job, jobMap, mapMutex, queue, continue_, held, cleanupVars,
                   storage, clock, tally, crashed, doneAt>>

\* Reader r copies v into its answer.
Serialize(r, from, to, field, v) ==
    /\ Goto(r, from, to)
    /\ report' = [report EXCEPT ![r] = [@ EXCEPT ![field] = v]]
    /\ UNCHANGED <<job, jobMap, mapMutex, queue, continue_, held, cleanupVars,
                   storage, clock, asked, tally, doneAt>>

SerializeTime(r) ==
    /\ Serialize(r, "serialize", "status", "timeFinished",
                 IF Done(asked[r]) THEN job[asked[r]].timeFinished ELSE Absent)
    /\ UNCHANGED crashed

SerializeStatus(r) ==
    /\ Serialize(r, "status", "message", "status", job[asked[r]].status)
    /\ UNCHANGED crashed

\* The message is a std::string: reading it while the worker assigns it may
\* also read freed memory.
SerializeMessage(r) ==
    /\ Serialize(r, "message", "stats", "message", job[asked[r]].message)
    /\ \/ UNCHANGED crashed
       \/ /\ \E w \in Workers : held[w] = asked[r] /\ pc[w] \in {"connect", "failmessage"}
          /\ crashed' = TRUE

\* Mutant of SerializeStats: the isDone of the beginning is used again.
SerializeStatsCached(r) ==
    /\ Serialize(r, "stats", "answered", "stats",
                 IF report[r].timeFinished # Absent THEN job[asked[r]].stats ELSE "none")
    /\ UNCHANGED crashed

\* status is read once more to decide whether the statistics are included.
SerializeStats(r) ==
    /\ Serialize(r, "stats", "answered", "stats",
                 IF Done(asked[r]) THEN job[asked[r]].stats ELSE "none")
    /\ UNCHANGED crashed

\* JobListHandler: getOrderedJobs copies the pointers under the mutex; the
\* entry of job j is then serialized as above.  (Their order is left out.)
ListJobs(r, j) ==
    /\ storage = "alive"
    /\ mapMutex = NoThread
    /\ j \in jobMap
    /\ Goto(r, "idle", "serialize")
    /\ asked' = [asked EXCEPT ![r] = j]
    /\ UNCHANGED <<job, jobMap, mapMutex, queue, continue_, held, cleanupVars,
                   storage, clock, report, tally, crashed, doneAt>>

-----------------------------------------------------------------------------
(* StatusHandler: JobStorage::getStats.                                    *)

\* Mutant of StatsLock: the map is read without its mutex, as in getJob.
StatsLockNone(r) ==
    /\ storage = "alive"
    /\ Goto(r, "idle", "count")
    /\ mapMutex = NoThread
    /\ tally' = [tally EXCEPT ![r].left = jobMap]
    /\ UNCHANGED <<job, jobMap, mapMutex, queue, continue_, held, cleanupVars,
                   storage, clock, asked, report, crashed, doneAt>>

StatsLock(r) ==
    /\ storage = "alive"
    /\ Goto(r, "idle", "count")
    /\ mapMutex = NoThread
    /\ mapMutex' = r
    /\ tally' = [tally EXCEPT ![r].left = jobMap]
    /\ UNCHANGED <<job, jobMap, queue, continue_, held, cleanupVars, storage,
                   clock, asked, report, crashed, doneAt>>

\* One turn of the loop.  The workers go on changing the status of the jobs.
StatsCount(r, j) ==
    /\ pc[r] = "count"
    /\ j \in tally[r].left
    /\ tally' = [tally EXCEPT ![r].left = @ \ {j}, ![r].num[job[j].status] = @ + 1]
    /\ UNCHANGED <<job, jobMap, mapMutex, queue, continue_, pc, held, cleanupVars,
                   storage, clock, asked, report, crashed, doneAt>>

\* The lock goes out of scope and the numbers are sent.
StatsUnlock(r) ==
    /\ tally[r].left = {}
    /\ Goto(r, "count", "idle")
    /\ mapMutex' = NoThread
    /\ tally' = [tally EXCEPT ![r] = EmptyTally]
    /\ UNCHANGED <<job, jobMap, queue, continue_, held, cleanupVars, storage,
                   clock, asked, report, crashed, doneAt>>

-----------------------------------------------------------------------------
(* Broker::stop and the destructor of the storage.                         *)

Quit ==
    /\ continue_
    /\ continue_' = FALSE
    /\ UNCHANGED <<job, jobMap, mapMutex, queue, threadVars, cleanupVars,
                   storage, clock, crashed, doneAt>>

\* No shared_ptr to the storage is left: the workers have gone and no
\* handler is in the middle of a request.
Unreferenced ==
    /\ \A w \in Workers : pc[w] = "done"
    /\ \A j \in Jobs : pc[j] \in {"idle", "done"}
    /\ \A r \in Readers : pc[r] \in {"idle", "notfound", "answered"}

\* Mutant of Destroy: cleanupExitMutex stays locked.
DestroyLocked ==
    /\ storage = "alive"
    /\ ~ continue_
    /\ Unreferenced
    /\ storage' = "joining"
    /\ UNCHANGED <<job, jobMap, mapMutex, queue, continue_, threadVars,
                   cleanupVars, clock, crashed, doneAt>>

Destroy ==
    /\ storage = "alive"
    /\ ~ continue_
    /\ Unreferenced
    /\ storage' = "joining"
    /\ exitSignal' = TRUE
    /\ UNCHANGED <<job, jobMap, mapMutex, queue, continue_, threadVars,
                   unvisited, minTime, clock, crashed, doneAt>>

\* cleanupThread.join() returns, the members are destroyed.
Destroyed ==
    /\ storage = "joining"
    /\ pc[Cleanup] = "done"
    /\ storage' = "destroyed"
    /\ jobMap' = {}
    /\ queue' = <<>>
    /\ UNCHANGED <<job, mapMutex, continue_, threadVars, cleanupVars, clock,
                   crashed, doneAt>>

Tick ==
    /\ clock < MaxTime
    /\ clock' = clock + 1
    /\ UNCHANGED <<job, jobMap, mapMutex, queue, continue_, threadVars,
                   cleanupVars, storage, crashed, doneAt>>

-----------------------------------------------------------------------------

Handler(j) == PushRejected(j) \/ AddJobLock(j) \/ AddJob(j) \/ Enqueue(j)

Worker(w) ==
    \/ PopNoWait(w)
    \/ PopWait(w)
    \/ StartJob(w)
    \/ WaitForDb(w)
    \/ Connected(w)
    \/ Pulled(w)
    \/ Finish(w)
    \/ Fail(w)
    \/ RecordTime(w)
    \/ FinalStatistics(w)
    \/ FailMessage(w)

CleanupThread ==
    \/ CleanupWake
    \/ CleanupLock
    \/ \E j \in Jobs : CleanupVisit(j)
    \/ CleanupUnlock
    \/ CleanupExit

Serializer(r) ==
    \/ SerializeTime(r)
    \/ SerializeStatus(r)
    \/ SerializeMessage(r)
    \/ SerializeStats(r)

Stats(r) == StatsLock(r) \/ (\E j \in Jobs : StatsCount(r, j)) \/ StatsUnlock(r)

Reader(r) ==
    \/ \E j \in Jobs : GetJob(r, j) \/ ListJobs(r, j)
    \/ Answered(r)
    \/ Serializer(r)
    \/ Stats(r)

Owner == Quit \/ Destroy \/ Destroyed

\* Everything has ended.
Terminated ==
    /\ crashed \/ storage = "destroyed"
    /\ UNCHANGED vars

Next ==
    \/ /\ ~ crashed
       /\ \/ \E j \in Jobs : Handler(j)
          \/ \E w \in Workers : Worker(w)
          \/ CleanupThread
          \/ \E r \in Readers : Reader(r)
          \/ Owner
          \/ Tick
    \/ Terminated

Spec == Init /\ [][Next]_vars

\* Every running thread goes on and the clock advances; no request needs to
\* arrive, nobody needs to quit, and a job may wait for its database (in
\* "connect") or be worked on for ever.  The cleanup thread takes its mutex
\* because the others hold it briefly and finitely often.
Fairness ==
    /\ WF_vars(~ crashed /\ CleanupThread)
    /\ WF_vars(~ crashed /\ Tick)
    /\ WF_vars(~ crashed /\ Destroyed)
    /\ \A j \in Jobs : WF_vars(~ crashed /\ (AddJob(j) \/ Enqueue(j)))
    /\ \A w \in Workers :
          WF_vars(~ crashed /\ (RecordTime(w) \/ FinalStatistics(w) \/ FailMessage(w)))

FairSpec == Spec /\ Fairness

-----------------------------------------------------------------------------
(* Properties                                                              *)

Times == {Epoch} \cup Start .. MaxTime

\* Where a handler, a worker, the cleanup thread and a reader can be.
Labels == {"idle", "done"}
            \cup {"add", "enqueue"}
            \cup {"wait", "start", "connect", "work", "sync", "finishtime",
                  "finalstats", "failtime", "failmessage"}
            \cup {"sleep", "lock", "scan"}
            \cup {"serialize", "status", "message", "stats", "answered",
                  "notfound", "count"}

TypeOK ==
    /\ job \in [Jobs -> [status : Statuses,
                         timeFinished : Times,
                         message : {"empty", "waiting", "error"},
                         stats : {"zero", "pulled", "final"}]]
    /\ jobMap \subseteq Jobs
    /\ mapMutex \in Threads \cup {NoThread}
    /\ queue \in Seq(Jobs)
    /\ continue_ \in BOOLEAN
    /\ pc \in [Threads -> Labels]
    /\ held \in [Workers -> Jobs \cup {NoJob}]
    /\ unvisited \subseteq jobMap
    /\ minTime \in Epoch .. MaxTime
    /\ exitSignal \in BOOLEAN
    /\ storage \in {"alive", "joining", "destroyed"}
    /\ clock \in Start .. MaxTime
    /\ asked \in [Readers -> Jobs \cup {NoJob}]
    /\ report \in [Readers ->
                     [timeFinished : Times \cup {Absent},
                      status : {"none"} \cup Statuses,
                      message : {"empty", "waiting", "error"},
                      stats : {"none", "zero", "pulled", "final"}]]
    /\ tally \in [Readers -> [left : SUBSET Jobs, num : [Statuses -> Nat]]]
    /\ crashed \in BOOLEAN
    /\ doneAt \in [Jobs -> Times]

\* A job that is queued or in the hands of a worker and not done yet is in
\* the map, so clients can follow it: push adds it before it is queued, and
\* the cleanup, which finds a timeFinished at the epoch in it, spares it.
UnfinishedIsListed ==
    \A j \in Jobs :
        /\ ~ Done(j)
        /\ \/ \E n \in 1 .. Len(queue) : queue[n] = j
           \/ \E w \in Workers : held[w] = j
        => j \in jobMap \/ storage = "destroyed"

\* An answer that says finished or failed includes the statistics, although
\* the status is read three times while the worker changes it.
DoneReportHasStatistics ==
    \A r \in Readers :
        pc[r] = "answered" /\ report[r].status \in {"finished", "failed"}
            => report[r].stats # "none"

\* The numbers of the status page, although the workers change the jobs
\* while getStats counts them: together they are the number of jobs listed
\* when it returns; no more are finished or failed than the list then holds,
\* and no job that still waits in the queue is missed.
StatsDescribeTheList ==
    \A r \in Readers :
        pc[r] = "count" /\ tally[r].left = {} =>
            LET num == tally[r].num
                listed(S) == Cardinality({j \in jobMap : job[j].status \in S})
            IN  /\ num["queued"] + num["in_process"] + num["finished"] + num["failed"]
                       = Cardinality(jobMap)
                /\ num["finished"] <= listed({"finished"})
                /\ num["failed"] <= listed({"failed"})
                /\ num["queued"] >= listed({"queued"})

\* The cleanup removes a job whose finish time is recorded only when that
\* time is more than MaxAge ago, however long the scan takes.
RecordedIsKeptForMaxAge ==
    [][\A j \in jobMap \ jobMap' :
          storage' # "destroyed" /\ job[j].timeFinished # Epoch
              => clock - job[j].timeFinished > MaxAge]_vars

\* A job whose finish time is recorded is eventually removed.  (The bound of
\* the clock has to leave room for MaxAge.)
DoneIsRemoved ==
    \A j \in Jobs :
        /\ Done(j)
        /\ job[j].timeFinished # Epoch
        /\ job[j].timeFinished + MaxAge < MaxTime
        ~> j \notin jobMap \/ crashed

\* ~JobStorage returns: the cleanup thread always notices the signal.
DestructionTerminates == storage = "joining" ~> storage = "destroyed" \/ crashed

-----------------------------------------------------------------------------
(* What the documentation says and the code does not do.                   *)

\* jobstorage.h: maxAgeDoneJobs is the age finished jobs may reach before
\* they are removed.
DoneIsKeptForMaxAge ==
    [][\A j \in jobMap \ jobMap' :
          storage' # "destroyed" => clock - doneAt[j] > MaxAge]_vars

=============================================================================
