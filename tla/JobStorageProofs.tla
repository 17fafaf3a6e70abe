-------------------------- MODULE JobStorageProofs --------------------------
(***************************************************************************)
(* Proofs about JobStorage, for every set of jobs, workers and readers and *)
(* every maximum age of a done job.                                        *)
(***************************************************************************)
EXTENDS JobStorage, FiniteSetTheorems, SequenceTheorems, TLAPS

\* A thread is in a critical section exactly when it owns the mutex.
MutexInv ==
    \A t \in Threads : pc[t] \in {"add", "scan", "count"} <=> mapMutex = t

\* The storage is not destroyed under a handler or a reader that uses it, and
\* outside of the scan the cleanup has nothing left to visit.
LifeInv ==
    /\ \A t \in Jobs \cup Readers :
          pc[t] \in {"add", "enqueue", "count"} => storage = "alive"
    /\ pc[Cleanup] # "scan" => unvisited = {}

\* However long the scan takes: what is older than minTime is older than MaxAge.
ScanInv == pc[Cleanup] = "scan" => minTime <= clock - MaxAge

\* A worker has a job from the pop to the end of the job.
HolderInv ==
    \A w \in Workers : held[w] = NoJob <=> pc[w] \in {"idle", "wait", "done"}

\* A job is with its handler, in one place of the queue or with one worker.
PlaceInv ==
    /\ \A v, w \in Workers : held[v] = held[w] /\ held[v] # NoJob => v = w
    /\ \A w \in Workers : held[w] # NoJob => pc[held[w]] = "done"
    /\ \A m, n \in 1 .. Len(queue) : queue[m] = queue[n] => m = n
    /\ \A n \in 1 .. Len(queue) :
          /\ job[queue[n]].status = "queued"
          /\ pc[queue[n]] = "done"
          /\ \A w \in Workers : held[w] # queue[n]
    /\ \A j \in Jobs : pc[j] # "done" => job[j].status = "queued"

\* Where the worker is determines the status of its job.
StatusOf(w) ==
    /\ pc[w] = "start" => job[held[w]].status = "queued"
    /\ pc[w] \in {"connect", "work", "sync"} => job[held[w]].status = "in_process"
    /\ pc[w] \in {"finishtime", "finalstats"} => job[held[w]].status = "finished"
    /\ pc[w] \in {"failtime", "failmessage"} => job[held[w]].status = "failed"

StatusInv == \A w \in Workers : StatusOf(w)

\* A job is in the map before it is in the queue.
ListedInv == \A j \in Jobs : pc[j] = "enqueue" => j \in jobMap

\* A reader that serializes a job has one, and a job that it has seen done is
\* done when it looks again.
ReportOf(r) ==
    /\ pc[r] \in {"serialize", "status", "message", "stats"} => asked[r] \in Jobs
    /\ pc[r] \in {"message", "stats"} /\ report[r].status \in {"finished", "failed"}
          => Done(asked[r])

ReportInv == \A r \in Readers : ReportOf(r)

\* getStats between two turns of its loop: the numbers are those of the jobs
\* it has visited, of which some have gone on to a later status.
With(S, s) == {j \in S : job[j].status = s}

CountOf(r) ==
    LET num == tally[r].num
        visited == jobMap \ tally[r].left
    IN  /\ tally[r].left \subseteq jobMap
        /\ num["queued"] + num["in_process"] + num["finished"] + num["failed"]
               = Cardinality(visited)
        /\ num["finished"] <= Cardinality(With(visited, "finished"))
        /\ num["failed"] <= Cardinality(With(visited, "failed"))
        /\ num["queued"] >= Cardinality(With(visited, "queued"))

CountInv ==
    /\ IsFiniteSet(jobMap)
    /\ \A r \in Readers :
          /\ pc[r] # "count" => tally[r] = EmptyTally
          /\ pc[r] = "count" => CountOf(r)

-----------------------------------------------------------------------------
(* Types                                                                   *)

LEMMA TakeQueue ==
    ASSUME queue \in Seq(Jobs), queue # <<>>
    PROVE  /\ Head(queue) \in Jobs
           /\ Head(queue) = queue[1]
           /\ Tail(queue) \in Seq(Jobs)
           /\ Len(queue) \in Nat \ {0}
           /\ Len(Tail(queue)) = Len(queue) - 1
           /\ \A n \in 1 .. Len(Tail(queue)) : Tail(queue)[n] = queue[n + 1]
BY HeadTailProperties

LEMMA HolderHasJob ==
    ASSUME TypeOK, HolderInv, NEW w \in Workers,
           pc[w] \notin {"idle", "wait", "done"}
    PROVE  held[w] \in Jobs
BY DEF TypeOK, HolderInv

\* The Job objects, and what a worker may write into each field of them.
JobType ==
    [status : Statuses, timeFinished : Times,
     message : {"empty", "waiting", "error"}, stats : {"zero", "pulled", "final"}]

FieldTypes ==
    [status |-> Statuses, timeFinished |-> Times,
     message |-> {"empty", "waiting", "error"},
     stats |-> {"zero", "pulled", "final"}]

LEMMA JobUpdateType ==
    ASSUME NEW f \in [Jobs -> JobType], NEW j \in Jobs,
           NEW field \in {"status", "timeFinished", "message", "stats"},
           NEW v \in FieldTypes[field]
    PROVE  [f EXCEPT ![j] = [@ EXCEPT ![field] = v]] \in [Jobs -> JobType]
<1>1. CASE field = "status"
  <2>1. v \in Statuses
        BY <1>1 DEF FieldTypes
  <2>2. [f[j] EXCEPT !["status"] = v] \in JobType
        BY <2>1 DEF JobType
  <2> QED BY <1>1, <2>2
<1>2. CASE field = "timeFinished"
  <2>1. v \in Times
        BY <1>2 DEF FieldTypes
  <2>2. [f[j] EXCEPT !["timeFinished"] = v] \in JobType
        BY <2>1 DEF JobType
  <2> QED BY <1>2, <2>2
<1>3. CASE field = "message"
  <2>1. v \in {"empty", "waiting", "error"}
        BY <1>3 DEF FieldTypes
  <2>2. [f[j] EXCEPT !["message"] = v] \in JobType
        BY <2>1 DEF JobType
  <2> QED BY <1>3, <2>2
<1>4. CASE field = "stats"
  <2>1. v \in {"zero", "pulled", "final"}
        BY <1>4 DEF FieldTypes
  <2>2. [f[j] EXCEPT !["stats"] = v] \in JobType
        BY <2>1 DEF JobType
  <2> QED BY <1>4, <2>2
<1> QED BY <1>1, <1>2, <1>3, <1>4

LEMMA WriteFieldType ==
    ASSUME TypeOK, HolderInv, NEW w \in Workers, NEW from \in Labels,
           from \notin {"idle", "wait", "done"}, NEW to \in Labels,
           NEW field \in {"status", "timeFinished", "message", "stats"},
           NEW v \in FieldTypes[field],
           WriteField(w, from, to, field, v), doneAt' \in [Jobs -> Times]
    PROVE  TypeOK'
<1>1. w \in Threads /\ pc[w] = from
      BY DEF Threads, WriteField, Goto
<1>2. held[w] \in Jobs
      BY <1>1, HolderHasJob
<1>3. job \in [Jobs -> JobType]
      BY DEF TypeOK, JobType
<1>4. job' \in [Jobs -> JobType]
      BY <1>2, <1>3, JobUpdateType DEF WriteField
<1>5. pc' \in [Threads -> Labels] /\ held' \in [Workers -> Jobs \cup {NoJob}]
      BY <1>1 DEF TypeOK, WriteField, Goto
<1> QED BY <1>4, <1>5 DEF TypeOK, JobType, WriteField, cleanupVars, readerVars

LEMMA WorkerType ==
    ASSUME TypeOK, HolderInv, NEW w \in Workers, Worker(w)
    PROVE  TypeOK'
<1>0. w \in Threads
      BY DEF Threads
<1>1. CASE PopNoWait(w)
  <2>1. CASE queue # <<>> /\ Take(w)
        BY <1>0, <1>1, <2>1, TakeQueue DEF PopNoWait, Take, Goto, TypeOK, Labels,
           cleanupVars, readerVars
  <2>2. CASE UNCHANGED <<queue, held>>
        BY <1>0, <1>1, <2>2 DEF PopNoWait, Goto, TypeOK, Labels, cleanupVars, readerVars
  <2> QED BY <1>1, <2>1, <2>2 DEF PopNoWait
<1>2. CASE PopWait(w)
  <2>1. CASE queue # <<>> /\ Take(w)
        BY <1>0, <1>2, <2>1, TakeQueue DEF PopWait, Take, Goto, TypeOK, Labels,
           cleanupVars, readerVars
  <2>2. CASE UNCHANGED <<queue, held>>
        BY <1>0, <1>2, <2>2 DEF PopWait, Goto, TypeOK, Labels, cleanupVars, readerVars
  <2> QED BY <1>2, <2>1, <2>2 DEF PopWait
<1> USE WriteFieldType DEF FieldTypes, Labels, Statuses
<1>3. CASE StartJob(w)
      BY <1>3 DEF StartJob, TypeOK
<1>4. CASE WaitForDb(w)
      BY <1>4 DEF WaitForDb, TypeOK
<1>5. CASE Connected(w)
      BY <1>5 DEF Connected, TypeOK
<1>6. CASE Pulled(w)
      BY <1>6 DEF Pulled, TypeOK
<1>7. ASSUME NEW from \in FailLabels, NEW to \in {"finishtime", "failtime"},
             NEW s \in {"finished", "failed"}, SetDone(w, from, to, s)
      PROVE  TypeOK'
  <2>1. held[w] \in Jobs
        BY <1>7, HolderHasJob DEF SetDone, WriteField, Goto, FailLabels
  <2>2. doneAt' \in [Jobs -> Times]
        BY <1>7, <2>1 DEF SetDone, TypeOK, Times
  <2> QED BY <1>7, <2>2 DEF SetDone, FailLabels
<1>8. CASE RecordTime(w)
  <2>1. clock \in Times /\ doneAt' \in [Jobs -> Times]
        BY <1>8 DEF RecordTime, TypeOK, Times
  <2> QED BY <1>8, <2>1 DEF RecordTime
<1>9. CASE FinalStatistics(w)
      BY <1>9 DEF FinalStatistics, TypeOK
<1>10. CASE FailMessage(w)
      BY <1>10 DEF FailMessage, TypeOK
<1> QED BY <1>1, <1>2, <1>3, <1>4, <1>5, <1>6, <1>7, <1>8, <1>9, <1>10
        DEF Worker, Finish, Fail, FailLabels

\* The same for the answers of the readers.
ReportType ==
    [timeFinished : Times \cup {Absent}, status : {"none"} \cup Statuses,
     message : {"empty", "waiting", "error"},
     stats : {"none", "zero", "pulled", "final"}]

ReportFieldTypes ==
    [timeFinished |-> Times \cup {Absent}, status |-> {"none"} \cup Statuses,
     message |-> {"empty", "waiting", "error"},
     stats |-> {"none", "zero", "pulled", "final"}]

LEMMA ReportUpdateType ==
    ASSUME NEW f \in [Readers -> ReportType], NEW r \in Readers,
           NEW field \in {"status", "timeFinished", "message", "stats"},
           NEW v \in ReportFieldTypes[field]
    PROVE  [f EXCEPT ![r] = [@ EXCEPT ![field] = v]] \in [Readers -> ReportType]
<1>1. CASE field = "status"
  <2>1. v \in {"none"} \cup Statuses
        BY <1>1 DEF ReportFieldTypes
  <2>2. [f[r] EXCEPT !["status"] = v] \in ReportType
        BY <2>1 DEF ReportType
  <2> QED BY <1>1, <2>2
<1>2. CASE field = "timeFinished"
  <2>1. v \in Times \cup {Absent}
        BY <1>2 DEF ReportFieldTypes
  <2>2. [f[r] EXCEPT !["timeFinished"] = v] \in ReportType
        BY <2>1 DEF ReportType
  <2> QED BY <1>2, <2>2
<1>3. CASE field = "message"
  <2>1. v \in {"empty", "waiting", "error"}
        BY <1>3 DEF ReportFieldTypes
  <2>2. [f[r] EXCEPT !["message"] = v] \in ReportType
        BY <2>1 DEF ReportType
  <2> QED BY <1>3, <2>2
<1>4. CASE field = "stats"
  <2>1. v \in {"none", "zero", "pulled", "final"}
        BY <1>4 DEF ReportFieldTypes
  <2>2. [f[r] EXCEPT !["stats"] = v] \in ReportType
        BY <2>1 DEF ReportType
  <2> QED BY <1>4, <2>2
<1> QED BY <1>1, <1>2, <1>3, <1>4

LEMMA SerializeType ==
    ASSUME TypeOK, NEW r \in Readers, NEW from \in Labels, NEW to \in Labels,
           NEW field \in {"status", "timeFinished", "message", "stats"},
           NEW v \in ReportFieldTypes[field],
           Serialize(r, from, to, field, v), crashed' \in BOOLEAN
    PROVE  TypeOK'
<1>1. r \in Threads
      BY DEF Threads
<1>2. report \in [Readers -> ReportType]
      BY DEF TypeOK, ReportType
<1>3. report' \in [Readers -> ReportType]
      BY <1>2, ReportUpdateType DEF Serialize
<1>4. pc' \in [Threads -> Labels]
      BY <1>1 DEF TypeOK, Serialize, Goto
<1> QED BY <1>3, <1>4 DEF TypeOK, ReportType, Serialize, cleanupVars

LEMMA SerializerType ==
    ASSUME TypeOK, ReportInv, NEW r \in Readers, Serializer(r)
    PROVE  TypeOK'
<1> USE SerializeType DEF ReportFieldTypes, Labels
<1>0. /\ asked[r] \in Jobs
      /\ job[asked[r]].status \in Statuses
      /\ job[asked[r]].timeFinished \in Times
      /\ job[asked[r]].message \in {"empty", "waiting", "error"}
      /\ job[asked[r]].stats \in {"zero", "pulled", "final"}
  <2>1. asked[r] \in Jobs
        BY DEF Serializer, SerializeTime, SerializeStatus, SerializeMessage,
               SerializeStats, Serialize, Goto, ReportInv, ReportOf
  <2> QED BY <2>1 DEF TypeOK
<1>1. CASE SerializeTime(r)
      BY <1>0, <1>1 DEF SerializeTime, TypeOK
<1>2. CASE SerializeStatus(r)
      BY <1>0, <1>2 DEF SerializeStatus, TypeOK
<1>3. CASE SerializeMessage(r)
  <2>1. crashed' \in BOOLEAN
        BY <1>3 DEF SerializeMessage, TypeOK
  <2> QED BY <1>0, <1>3, <2>1 DEF SerializeMessage
<1>4. CASE SerializeStats(r)
      BY <1>0, <1>4 DEF SerializeStats, TypeOK
<1> QED BY <1>1, <1>2, <1>3, <1>4 DEF Serializer

\* One turn of the loop of getStats.
LEMMA CountedTally ==
    ASSUME TypeOK, NEW r \in Readers, NEW j \in Jobs, StatsCount(r, j)
    PROVE  /\ job[j].status \in Statuses
           /\ tally' = [tally EXCEPT ![r] =
                [left |-> tally[r].left \ {j},
                 num |-> [tally[r].num EXCEPT ![job[j].status] = @ + 1]]]
           /\ tally' \in [Readers -> [left : SUBSET Jobs, num : [Statuses -> Nat]]]
<1> DEFINE T == [left : SUBSET Jobs, num : [Statuses -> Nat]]
           new == [left |-> tally[r].left \ {j},
                   num |-> [tally[r].num EXCEPT ![job[j].status] = @ + 1]]
<1>1. job[j].status \in Statuses /\ tally \in [Readers -> T]
      BY DEF TypeOK
<1>2. tally' = [tally EXCEPT ![r].left = @ \ {j}, ![r].num[job[j].status] = @ + 1]
      BY DEF StatsCount
<1>3. tally[r] \in T
      BY <1>1
<1>4. new \in T
      BY <1>1, <1>3
<1>5. tally' = [tally EXCEPT ![r] = new]
      BY <1>1, <1>2, <1>3
<1> QED BY <1>1, <1>4, <1>5

LEMMA StatsType ==
    ASSUME TypeOK, NEW r \in Readers, Stats(r)
    PROVE  TypeOK'
<1>0. r \in Threads
      BY DEF Threads
<1>1. CASE StatsLock(r)
      BY <1>0, <1>1 DEF StatsLock, Goto, TypeOK, Labels, cleanupVars
<1>2. ASSUME NEW j \in Jobs, StatsCount(r, j) PROVE TypeOK'
  <2>1. job[j].status \in Statuses
        BY DEF TypeOK
  <2>2. tally' \in [Readers -> [left : SUBSET Jobs, num : [Statuses -> Nat]]]
        BY <1>2, CountedTally
  <2> QED BY <1>2, <2>2 DEF StatsCount, TypeOK, cleanupVars
<1>3. CASE StatsUnlock(r)
      BY <1>0, <1>3 DEF StatsUnlock, Goto, TypeOK, Labels, EmptyTally, cleanupVars
<1> QED BY <1>1, <1>2, <1>3 DEF Stats

LEMMA ReaderType ==
    ASSUME TypeOK, ReportInv, NEW r \in Readers, Reader(r)
    PROVE  TypeOK'
<1>0. r \in Threads
      BY DEF Threads
<1>1. ASSUME NEW j \in Jobs, GetJob(r, j) PROVE TypeOK'
  <2>1. pc' \in [Threads -> Labels] /\ asked' \in [Readers -> Jobs \cup {NoJob}]
        BY <1>0, <1>1 DEF GetJob, TypeOK, Labels
  <2>2. crashed' \in BOOLEAN
        BY <1>1 DEF GetJob, TypeOK
  <2> QED BY <1>1, <2>1, <2>2 DEF GetJob, TypeOK, cleanupVars
<1>2. ASSUME NEW j \in Jobs, ListJobs(r, j) PROVE TypeOK'
      BY <1>0, <1>2 DEF ListJobs, Goto, TypeOK, Labels, cleanupVars
<1>3. CASE Answered(r)
  <2>1. EmptyReport \in ReportType
        BY DEF EmptyReport, ReportType
  <2>2. report' \in [Readers -> ReportType]
        BY <1>3, <2>1 DEF Answered, TypeOK, ReportType
  <2>3. pc' \in [Threads -> Labels] /\ asked' \in [Readers -> Jobs \cup {NoJob}]
        BY <1>0, <1>3 DEF Answered, TypeOK, Labels
  <2> QED BY <1>3, <2>2, <2>3 DEF Answered, TypeOK, ReportType, cleanupVars
<1> QED BY <1>1, <1>2, <1>3, SerializerType, StatsType DEF Reader

LEMMA TypeStep ==
    ASSUME TypeOK, LifeInv, HolderInv, ReportInv, [Next]_vars
    PROVE  TypeOK'
<1>1. ASSUME NEW j \in Jobs, Handler(j) PROVE TypeOK'
  <2> USE DEF Goto, Labels, cleanupVars, readerVars
  <2>1. j \in Threads
        BY DEF Threads
  <2>2. CASE PushRejected(j)
        BY <2>1, <2>2 DEF PushRejected, TypeOK
  <2>3. CASE AddJobLock(j)
        BY <2>1, <2>3 DEF AddJobLock, TypeOK
  <2>4. CASE AddJob(j)
        BY <2>1, <2>4 DEF AddJob, TypeOK
  <2>5. CASE Enqueue(j)
        BY <2>1, <2>5 DEF Enqueue, TypeOK
  <2> QED BY <1>1, <2>2, <2>3, <2>4, <2>5 DEF Handler
<1>2. CASE CleanupThread
  <2>1. Cleanup \in Threads
        BY DEF Threads
  <2>2. CASE CleanupWake \/ CleanupExit
        BY <2>1, <2>2 DEF CleanupWake, CleanupExit, Goto, TypeOK, Labels,
           cleanupVars, readerVars
  <2>3. CASE CleanupLock
    <3>1. clock - MaxAge \in Epoch .. MaxTime
          BY TimeAssumption DEF TypeOK, Epoch
    <3> QED BY <2>1, <2>3, <3>1 DEF CleanupLock, Goto, TypeOK, Labels, readerVars
  <2>4. ASSUME NEW j \in Jobs, CleanupVisit(j) PROVE TypeOK'
        BY <2>4 DEF CleanupVisit, TypeOK, threadVars, readerVars
  <2>5. CASE CleanupUnlock
    <3>1. Epoch \in Epoch .. MaxTime
          BY TimeAssumption DEF Epoch
    <3> QED BY <2>1, <2>5, <3>1 DEF CleanupUnlock, Goto, TypeOK, Labels, readerVars
  <2> QED BY <1>2, <2>2, <2>3, <2>4, <2>5 DEF CleanupThread
<1>3. CASE Owner
  <2>1. CASE Quit \/ Destroy
        BY <2>1 DEF Quit, Destroy, TypeOK, threadVars, cleanupVars, readerVars
  <2>2. CASE Destroyed
        BY <2>2 DEF Destroyed, LifeInv, TypeOK, threadVars, cleanupVars, readerVars
  <2> QED BY <1>3, <2>1, <2>2 DEF Owner
<1>4. CASE Tick
      BY <1>4, TimeAssumption DEF Tick, TypeOK, threadVars, cleanupVars, readerVars
<1>5. CASE UNCHANGED vars
      BY <1>5 DEF vars, TypeOK
<1> QED BY <1>1, <1>2, <1>3, <1>4, <1>5, WorkerType, ReaderType
        DEF Next, Terminated

-----------------------------------------------------------------------------
(* What the steps of each thread leave alone                               *)

\* The kinds of threads are disjoint.
LEMMA ThreadKinds ==
    /\ \A j \in Jobs : j \in Threads /\ j \notin Workers /\ j \notin Readers
    /\ \A w \in Workers : w \in Threads /\ w \notin Readers /\ w \notin Jobs
    /\ \A r \in Readers : r \in Threads /\ r \notin Jobs /\ r \notin Workers
    /\ Cleanup \in Threads
    /\ Cleanup \notin Jobs /\ Cleanup \notin Workers /\ Cleanup \notin Readers
    /\ NoThread \notin Threads
BY ThreadsAssumption DEF Threads, Cleanup, NoThread

LEMMA HandlerFrame ==
    ASSUME TypeOK, NEW j \in Jobs, Handler(j)
    PROVE  /\ UNCHANGED <<job, held, cleanupVars, storage, clock, readerVars>>
           /\ \A t \in Threads : t # j => pc'[t] = pc[t]
           /\ \/ /\ pc[j] = "idle" /\ pc'[j] = "done"
                 /\ UNCHANGED <<jobMap, mapMutex, queue>>
              \/ /\ pc[j] = "idle" /\ pc'[j] = "add" /\ storage = "alive"
                 /\ mapMutex = NoThread /\ mapMutex' = j /\ UNCHANGED <<jobMap, queue>>
              \/ /\ pc[j] = "add" /\ pc'[j] = "enqueue"
                 /\ mapMutex' = NoThread /\ jobMap' = jobMap \cup {j} /\ UNCHANGED queue
              \/ /\ pc[j] = "enqueue" /\ pc'[j] = "done"
                 /\ queue' = Append(queue, j) /\ UNCHANGED <<jobMap, mapMutex>>
BY ThreadKinds DEF Handler, PushRejected, AddJobLock, AddJob, Enqueue, Goto, TypeOK

LEMMA WorkerFrame ==
    ASSUME TypeOK, NEW w \in Workers, Worker(w)
    PROVE  /\ UNCHANGED <<jobMap, mapMutex, cleanupVars, storage, clock, readerVars>>
           /\ \A t \in Threads : t # w => pc'[t] = pc[t]
           /\ \A v \in Workers : v # w => held'[v] = held[v]
           /\ \A j \in Jobs : j # held[w] => job'[j] = job[j]
           /\ pc[w] \notin {"add", "scan", "count"}
           /\ pc'[w] \notin {"add", "scan", "count"}
<1> USE ThreadKinds DEF Goto, TypeOK, WriteField
<1>1. CASE PopNoWait(w) \/ PopWait(w)
      BY <1>1 DEF PopNoWait, PopWait, Take
<1>2. CASE StartJob(w) \/ WaitForDb(w) \/ Connected(w) \/ Pulled(w)
      BY <1>2 DEF StartJob, WaitForDb, Connected, Pulled
<1>3. CASE Finish(w) \/ Fail(w)
      BY <1>3 DEF Finish, Fail, FailLabels, SetDone
<1>4. CASE RecordTime(w) \/ FinalStatistics(w) \/ FailMessage(w)
      BY <1>4 DEF RecordTime, FinalStatistics, FailMessage
<1> QED BY <1>1, <1>2, <1>3, <1>4 DEF Worker

LEMMA CleanupFrame ==
    ASSUME TypeOK, CleanupThread
    PROVE  /\ UNCHANGED <<job, queue, held, storage, clock, readerVars>>
           /\ \A t \in Threads : t # Cleanup => pc'[t] = pc[t]
           /\ \/ /\ pc[Cleanup] \in {"sleep", "lock"} /\ pc'[Cleanup] \in {"lock", "done"}
                 /\ UNCHANGED <<jobMap, mapMutex, unvisited, minTime>>
              \/ /\ pc[Cleanup] = "lock" /\ pc'[Cleanup] = "scan"
                 /\ mapMutex = NoThread /\ mapMutex' = Cleanup
                 /\ minTime' = clock - MaxAge /\ UNCHANGED jobMap
              \/ /\ pc[Cleanup] = "scan" /\ pc'[Cleanup] = "scan"
                 /\ UNCHANGED <<mapMutex, minTime>>
                 /\ \E j \in Jobs :
                       /\ j \in unvisited
                       /\ jobMap' = IF Done(j) /\ job[j].timeFinished < minTime
                                    THEN jobMap \ {j} ELSE jobMap
              \/ /\ pc[Cleanup] = "scan" /\ pc'[Cleanup] = "sleep"
                 /\ unvisited' = {}
                 /\ mapMutex' = NoThread /\ UNCHANGED jobMap
<1> USE ThreadKinds DEF Goto, TypeOK
<1>1. CASE CleanupWake \/ CleanupExit
      BY <1>1 DEF CleanupWake, CleanupExit, cleanupVars
<1>2. CASE CleanupLock
      BY <1>2 DEF CleanupLock
<1>3. CASE \E j \in Jobs : CleanupVisit(j)
      BY <1>3 DEF CleanupVisit, threadVars
<1>4. CASE CleanupUnlock
      BY <1>4 DEF CleanupUnlock
<1> QED BY <1>1, <1>2, <1>3, <1>4 DEF CleanupThread

LEMMA ReaderFrame ==
    ASSUME TypeOK, NEW r \in Readers, Reader(r)
    PROVE  /\ UNCHANGED <<job, jobMap, queue, held, cleanupVars, storage, clock>>
           /\ \A t \in Threads : t # r => pc'[t] = pc[t]
           /\ \A q \in Readers : q # r =>
                 /\ asked'[q] = asked[q] /\ report'[q] = report[q]
                 /\ tally'[q] = tally[q]
           /\ \/ /\ pc[r] \notin {"add", "scan", "count", "enqueue"}
                 /\ pc'[r] \notin {"add", "scan", "count", "enqueue"}
                 /\ UNCHANGED <<mapMutex, tally>>
              \/ StatsLock(r)
              \/ \E j \in Jobs : StatsCount(r, j)
              \/ StatsUnlock(r)
<1> USE ThreadKinds DEF Goto, TypeOK
<1>1. ASSUME NEW j \in Jobs, GetJob(r, j) \/ ListJobs(r, j)
      PROVE  /\ pc[r] = "idle" /\ pc'[r] \in {"idle", "serialize", "notfound"}
             /\ \A t \in Threads : t # r => pc'[t] = pc[t]
             /\ \A q \in Readers : q # r => asked'[q] = asked[q]
             /\ UNCHANGED <<job, jobMap, queue, held, cleanupVars, storage, clock,
                            mapMutex, tally, report>>
      BY <1>1 DEF GetJob, ListJobs
<1>2. CASE Answered(r)
      BY <1>2 DEF Answered
<1>3. CASE Serializer(r)
      BY <1>3 DEF Serializer, SerializeTime, SerializeStatus, SerializeMessage,
                  SerializeStats, Serialize
<1>4. CASE StatsLock(r)
      BY <1>4 DEF StatsLock
<1>5. ASSUME NEW j \in Jobs, StatsCount(r, j)
      PROVE  /\ UNCHANGED <<job, jobMap, queue, held, cleanupVars, storage, clock, pc,
                            asked, report>>
             /\ \A q \in Readers : q # r => tally'[q] = tally[q]
      BY <1>5 DEF StatsCount
<1>6. CASE StatsUnlock(r)
      BY <1>6 DEF StatsUnlock
<1> QED BY <1>1, <1>2, <1>3, <1>4, <1>5, <1>6 DEF Reader, Stats

LEMMA OwnerFrame ==
    ASSUME Owner \/ Tick
    PROVE  /\ UNCHANGED <<job, mapMutex, pc, held, unvisited, minTime, readerVars>>
           /\ \/ UNCHANGED <<jobMap, queue>>
              \/ Destroyed
BY DEF Owner, Quit, Destroy, Destroyed, Tick, threadVars, cleanupVars

-----------------------------------------------------------------------------
(* The mutex, the life of the storage and the scan                         *)

LEMMA MutexStep ==
    ASSUME TypeOK, MutexInv, [Next]_vars
    PROVE  MutexInv'
<1>1. ASSUME NEW j \in Jobs, Handler(j) PROVE MutexInv'
      BY <1>1, HandlerFrame, ThreadKinds DEF MutexInv
<1>2. ASSUME NEW w \in Workers, Worker(w) PROVE MutexInv'
      BY <1>2, WorkerFrame, ThreadKinds DEF MutexInv
<1>3. CASE CleanupThread
      BY <1>3, CleanupFrame, ThreadKinds DEF MutexInv
<1>4. ASSUME NEW r \in Readers, Reader(r) PROVE MutexInv'
  <2>1. CASE UNCHANGED mapMutex /\ pc[r] \notin {"add", "scan", "count"}
                                /\ pc'[r] \notin {"add", "scan", "count"}
        BY <1>4, <2>1, ReaderFrame, ThreadKinds DEF MutexInv
  <2>2. CASE StatsLock(r) \/ StatsUnlock(r)
    <3>1. \/ /\ mapMutex = NoThread /\ mapMutex' = r /\ pc'[r] = "count"
          \/ /\ pc[r] = "count" /\ mapMutex' = NoThread /\ pc'[r] = "idle"
          BY <2>2, ThreadKinds DEF StatsLock, StatsUnlock, Goto, TypeOK
    <3>2. \A t \in Threads : t # r => pc'[t] = pc[t]
          BY <1>4, ReaderFrame
    <3> QED BY <3>1, <3>2, ThreadKinds DEF MutexInv
  <2>3. CASE \E j \in Jobs : StatsCount(r, j)
        BY <2>3 DEF StatsCount, MutexInv
  <2> QED BY <1>4, <2>1, <2>2, <2>3, ReaderFrame
<1>5. CASE Owner \/ Tick
      BY <1>5, OwnerFrame DEF MutexInv
<1>6. CASE UNCHANGED vars
      BY <1>6 DEF vars, MutexInv
<1> QED BY <1>1, <1>2, <1>3, <1>4, <1>5, <1>6 DEF Next, Terminated

LEMMA LifeStep ==
    ASSUME TypeOK, LifeInv, [Next]_vars
    PROVE  LifeInv'
<1>1. ASSUME NEW j \in Jobs, Handler(j) PROVE LifeInv'
      BY <1>1, HandlerFrame, ThreadKinds DEF LifeInv, cleanupVars
<1>2. ASSUME NEW w \in Workers, Worker(w) PROVE LifeInv'
      BY <1>2, WorkerFrame, ThreadKinds DEF LifeInv, cleanupVars
<1>3. CASE CleanupThread
      BY <1>3, CleanupFrame, ThreadKinds DEF LifeInv
<1>4. ASSUME NEW r \in Readers, Reader(r) PROVE LifeInv'
  <2>1. storage' = storage /\ unvisited' = unvisited /\ pc'[Cleanup] = pc[Cleanup]
        BY <1>4, ReaderFrame, ThreadKinds DEF cleanupVars
  <2>2. \A t \in Jobs \cup Readers : t # r => pc'[t] = pc[t]
        BY <1>4, ReaderFrame, ThreadKinds
  <2>3. pc'[r] \in {"add", "enqueue", "count"} => storage = "alive"
    <3>1. CASE pc'[r] \notin {"add", "scan", "count", "enqueue"}
          BY <3>1
    <3>2. CASE StatsLock(r)
          BY <3>2 DEF StatsLock
    <3>3. CASE \E j \in Jobs : StatsCount(r, j)
          BY <3>3 DEF StatsCount, LifeInv
    <3>4. CASE StatsUnlock(r)
          BY <3>4, ThreadKinds DEF StatsUnlock, Goto, TypeOK
    <3> QED BY <1>4, <3>1, <3>2, <3>3, <3>4, ReaderFrame
  <2> QED BY <2>1, <2>2, <2>3 DEF LifeInv
<1>5. CASE Owner \/ Tick
  <2>1. CASE Quit \/ Tick
        BY <2>1 DEF Quit, Tick, LifeInv, threadVars, cleanupVars
  <2>2. CASE Destroy
        BY <2>2 DEF Destroy, Unreferenced, LifeInv, threadVars
  <2>3. CASE Destroyed
        BY <2>3 DEF Destroyed, LifeInv, threadVars, cleanupVars
  <2> QED BY <1>5, <2>1, <2>2, <2>3 DEF Owner
<1>6. CASE UNCHANGED vars
      BY <1>6 DEF vars, LifeInv
<1> QED BY <1>1, <1>2, <1>3, <1>4, <1>5, <1>6 DEF Next, Terminated

LEMMA ScanStep ==
    ASSUME TypeOK, ScanInv, [Next]_vars
    PROVE  ScanInv'
<1>0. clock \in Int /\ MaxAge \in Nat /\ minTime \in Int
      BY TimeAssumption DEF TypeOK, Epoch
<1>1. ASSUME NEW j \in Jobs, Handler(j) PROVE ScanInv'
      BY <1>1, HandlerFrame, ThreadKinds DEF ScanInv, cleanupVars
<1>2. ASSUME NEW w \in Workers, Worker(w) PROVE ScanInv'
      BY <1>2, WorkerFrame, ThreadKinds DEF ScanInv, cleanupVars
<1>3. CASE CleanupThread
      BY <1>0, <1>3, CleanupFrame DEF ScanInv
<1>4. ASSUME NEW r \in Readers, Reader(r) PROVE ScanInv'
      BY <1>4, ReaderFrame, ThreadKinds DEF ScanInv, cleanupVars
<1>5. CASE Owner
      BY <1>5 DEF Owner, Quit, Destroy, Destroyed, ScanInv, threadVars, cleanupVars
<1>6. CASE Tick
      BY <1>0, <1>6 DEF Tick, ScanInv, threadVars, cleanupVars
<1>7. CASE UNCHANGED vars
      BY <1>7 DEF vars, ScanInv
<1> QED BY <1>1, <1>2, <1>3, <1>4, <1>5, <1>6, <1>7 DEF Next, Terminated

-----------------------------------------------------------------------------
(* Where a job is                                                          *)

\* A step of a worker that is not a pop takes no job: the worker keeps its
\* job or ends it.
LEMMA KeepsOrEnds ==
    ASSUME TypeOK, HolderInv, NEW w \in Workers, Worker(w),
           ~ PopNoWait(w), ~ PopWait(w)
    PROVE  /\ queue' = queue
           /\ pc[w] \notin {"idle", "wait", "done"}
           /\ \/ held'[w] = held[w] /\ pc'[w] \notin {"idle", "wait", "done"}
              \/ held'[w] = NoJob /\ pc'[w] = "idle"
<1> USE ThreadKinds DEF Goto, TypeOK, WriteField, HolderInv
<1>1. CASE StartJob(w) \/ WaitForDb(w) \/ Connected(w) \/ Pulled(w)
      BY <1>1 DEF StartJob, WaitForDb, Connected, Pulled
<1>2. CASE Finish(w) \/ Fail(w)
      BY <1>2 DEF Finish, Fail, FailLabels, SetDone
<1>3. CASE RecordTime(w) \/ FinalStatistics(w) \/ FailMessage(w)
      BY <1>3 DEF RecordTime, FinalStatistics, FailMessage
<1> QED BY <1>1, <1>2, <1>3 DEF Worker

\* A pop takes the front job or none.
LEMMA PopTakes ==
    ASSUME TypeOK, HolderInv, NEW w \in Workers, PopNoWait(w) \/ PopWait(w)
    PROVE  /\ held[w] = NoJob
           /\ UNCHANGED job
           /\ \/ /\ queue # <<>>
                 /\ held' = [held EXCEPT ![w] = Head(queue)]
                 /\ queue' = Tail(queue)
                 /\ pc' = [pc EXCEPT ![w] = "start"]
              \/ /\ UNCHANGED <<queue, held>>
                 /\ pc'[w] \in {"wait", "done"}
BY ThreadKinds DEF PopNoWait, PopWait, Goto, Take, TypeOK, HolderInv

LEMMA HolderStep ==
    ASSUME TypeOK, HolderInv, [Next]_vars
    PROVE  HolderInv'
<1>1. ASSUME NEW w \in Workers, Worker(w) PROVE HolderInv'
  <2>1. held'[w] = NoJob <=> pc'[w] \in {"idle", "wait", "done"}
    <3>1. CASE PopNoWait(w) \/ PopWait(w)
          BY <3>1, PopTakes, TakeQueue, ThreadsAssumption, ThreadKinds
             DEF TypeOK, HolderInv
    <3>2. CASE ~ PopNoWait(w) /\ ~ PopWait(w)
          BY <1>1, <3>2, KeepsOrEnds, HolderHasJob, ThreadsAssumption
    <3> QED BY <3>1, <3>2
  <2>2. ASSUME NEW v \in Workers, v # w
        PROVE  held'[v] = NoJob <=> pc'[v] \in {"idle", "wait", "done"}
        BY <1>1, <2>2, WorkerFrame, ThreadKinds DEF HolderInv
  <2> QED BY <2>1, <2>2 DEF HolderInv
<1>2. ASSUME UNCHANGED held, \A w \in Workers : pc'[w] = pc[w] PROVE HolderInv'
      BY <1>2 DEF HolderInv
<1>3. ASSUME NEW j \in Jobs, Handler(j) PROVE HolderInv'
      BY <1>2, <1>3, HandlerFrame, ThreadKinds
<1>4. CASE CleanupThread
      BY <1>2, <1>4, CleanupFrame, ThreadKinds
<1>5. ASSUME NEW r \in Readers, Reader(r) PROVE HolderInv'
      BY <1>2, <1>5, ReaderFrame, ThreadKinds
<1>6. CASE Owner \/ Tick
      BY <1>2, <1>6, OwnerFrame
<1>7. CASE UNCHANGED vars
      BY <1>7 DEF vars, HolderInv
<1> QED BY <1>1, <1>3, <1>4, <1>5, <1>6, <1>7 DEF Next, Terminated

LEMMA PlaceStep ==
    ASSUME TypeOK, HolderInv, PlaceInv, [Next]_vars
    PROVE  PlaceInv'
<1>0. /\ \A n \in 1 .. Len(queue) : queue[n] \in Jobs
      /\ \A w \in Workers : held[w] # NoJob => held[w] \in Jobs
      BY DEF TypeOK
<1>1. ASSUME NEW j \in Jobs, Handler(j) PROVE PlaceInv'
  <2>1. /\ UNCHANGED <<job, held>>
        /\ \A i \in Jobs : i # j => pc'[i] = pc[i]
        BY <1>1, HandlerFrame, ThreadKinds
  <2>2. pc[j] # "done"
        BY <1>1, HandlerFrame
  <2>3. /\ \A w \in Workers : held[w] # j
        /\ \A n \in 1 .. Len(queue) : queue[n] # j
        /\ job[j].status = "queued"
        BY <2>2, ThreadsAssumption DEF PlaceInv
  <2>4. \A w \in Workers : held[w] # NoJob => pc'[held[w]] = "done"
        BY <1>0, <2>1, <2>3 DEF PlaceInv
  <2>5. \A i \in Jobs : pc'[i] # "done" => job[i].status = "queued"
        BY <2>1, <2>3 DEF PlaceInv
  <2>6. CASE UNCHANGED queue
        BY <1>0, <2>1, <2>3, <2>4, <2>5, <2>6 DEF PlaceInv
  <2>7. CASE queue' = Append(queue, j) /\ pc'[j] = "done"
    <3>1. /\ Len(queue) \in Nat
          /\ Len(queue') = Len(queue) + 1
          /\ queue'[Len(queue) + 1] = j
          /\ \A n \in 1 .. Len(queue) : queue'[n] = queue[n]
          BY <2>7 DEF TypeOK
    <3>2. \A m, n \in 1 .. Len(queue') : queue'[m] = queue'[n] => m = n
          BY <2>3, <3>1 DEF PlaceInv
    <3>3. \A n \in 1 .. Len(queue') :
             /\ job[queue'[n]].status = "queued"
             /\ pc'[queue'[n]] = "done"
             /\ \A w \in Workers : held[w] # queue'[n]
          BY <1>0, <2>1, <2>3, <2>7, <3>1 DEF PlaceInv
    <3> QED BY <2>1, <2>4, <2>5, <3>2, <3>3 DEF PlaceInv
  <2> QED BY <1>1, <2>6, <2>7, HandlerFrame
<1>2. ASSUME NEW w \in Workers, Worker(w) PROVE PlaceInv'
  <2>0. \A i \in Jobs : pc'[i] = pc[i]
        BY <1>2, WorkerFrame, ThreadKinds
  <2>1. CASE PopNoWait(w) \/ PopWait(w)
    <3>1. UNCHANGED job
          BY <2>1, PopTakes
    <3>2. CASE UNCHANGED <<queue, held>>
          BY <1>0, <2>0, <3>1, <3>2 DEF PlaceInv
    <3>3. CASE /\ queue # <<>>
               /\ held' = [held EXCEPT ![w] = Head(queue)]
               /\ queue' = Tail(queue)
      <4>1. /\ Head(queue) \in Jobs
            /\ Head(queue) = queue[1]
            /\ Len(queue) \in Nat \ {0}
            /\ Len(queue') = Len(queue) - 1
            /\ \A n \in 1 .. Len(queue') : queue'[n] = queue[n + 1]
            BY <3>3, TakeQueue DEF TypeOK
      <4>2. held'[w] = queue[1] /\ \A v \in Workers : v # w => held'[v] = held[v]
            BY <3>3, <4>1 DEF TypeOK
      <4>3. \A u, v \in Workers : held'[u] = held'[v] /\ held'[u] # NoJob => u = v
            BY <4>1, <4>2 DEF PlaceInv
      <4>4. \A v \in Workers : held'[v] # NoJob => pc'[held'[v]] = "done"
            BY <1>0, <2>0, <4>1, <4>2 DEF PlaceInv
      <4>5. \A m, n \in 1 .. Len(queue') : queue'[m] = queue'[n] => m = n
            BY <4>1 DEF PlaceInv
      <4>6. \A n \in 1 .. Len(queue') :
               /\ job'[queue'[n]].status = "queued"
               /\ pc'[queue'[n]] = "done"
               /\ \A v \in Workers : held'[v] # queue'[n]
        <5> TAKE n \in 1 .. Len(queue')
        <5>1. /\ n + 1 \in 1 .. Len(queue) /\ 1 \in 1 .. Len(queue) /\ n + 1 # 1
              /\ queue'[n] = queue[n + 1]
              BY <4>1
        <5>2. queue[n + 1] # queue[1]
              BY <5>1 DEF PlaceInv
        <5>3. \A v \in Workers : held'[v] # queue[n + 1]
              BY <4>2, <5>1, <5>2 DEF PlaceInv
        <5> QED BY <1>0, <2>0, <3>1, <5>1, <5>3 DEF PlaceInv
      <4> QED BY <2>0, <3>1, <4>3, <4>4, <4>5, <4>6 DEF PlaceInv
    <3> QED BY <2>1, <3>2, <3>3, PopTakes
  <2>2. CASE ~ PopNoWait(w) /\ ~ PopWait(w)
    <3>1. /\ queue' = queue
          /\ held'[w] \in {held[w], NoJob}
          /\ held[w] \in Jobs
          BY <1>2, <2>2, KeepsOrEnds, HolderHasJob
    <3>2. \A v \in Workers : v # w => held'[v] = held[v]
          BY <1>2, WorkerFrame
    <3>3. pc[held[w]] = "done" /\ \A n \in 1 .. Len(queue) : queue[n] # held[w]
          BY <3>1, ThreadsAssumption DEF PlaceInv
    <3>4. \A i \in Jobs : i # held[w] => job'[i] = job[i]
          BY <1>2, WorkerFrame
    <3>5. \A v \in Workers : held'[v] # NoJob => pc'[held'[v]] = "done"
          BY <1>0, <2>0, <3>1, <3>2 DEF PlaceInv
    <3>6. \A n \in 1 .. Len(queue) :
             /\ job'[queue[n]].status = "queued"
             /\ pc'[queue[n]] = "done"
             /\ \A v \in Workers : held'[v] # queue[n]
          BY <1>0, <2>0, <3>1, <3>2, <3>3, <3>4, ThreadsAssumption DEF PlaceInv
    <3>7. \A i \in Jobs : pc'[i] # "done" => job'[i].status = "queued"
          BY <2>0, <3>3, <3>4 DEF PlaceInv
    <3> QED BY <3>1, <3>2, <3>5, <3>6, <3>7 DEF PlaceInv
  <2> QED BY <2>1, <2>2
<1>3. ASSUME UNCHANGED <<job, queue, held>>, \A j \in Jobs : pc'[j] = pc[j]
      PROVE  PlaceInv'
      BY <1>0, <1>3 DEF PlaceInv
<1>4. CASE CleanupThread
      BY <1>3, <1>4, CleanupFrame, ThreadKinds
<1>5. ASSUME NEW r \in Readers, Reader(r) PROVE PlaceInv'
      BY <1>3, <1>5, ReaderFrame, ThreadKinds
<1>6. CASE Owner \/ Tick
  <2>1. CASE UNCHANGED queue
        BY <1>3, <1>6, <2>1, OwnerFrame
  <2>2. CASE queue' = <<>>
        BY <1>6, <2>2, OwnerFrame DEF PlaceInv
  <2> QED BY <1>6, <2>1, <2>2, OwnerFrame DEF Destroyed
<1>7. CASE UNCHANGED vars
      BY <1>3, <1>7 DEF vars
<1> QED BY <1>1, <1>2, <1>4, <1>5, <1>6, <1>7 DEF Next, Terminated

-----------------------------------------------------------------------------
(* The status of a job                                                     *)

\* A step of a worker keeps StatusOf for itself.
LEMMA OwnStatus ==
    ASSUME TypeOK, HolderInv, PlaceInv, StatusInv, NEW w \in Workers, Worker(w)
    PROVE  StatusOf(w)'
<1>0. StatusOf(w) /\ w \in Threads
      BY ThreadKinds DEF StatusInv
<1>1. CASE PopNoWait(w) \/ PopWait(w)
  <2>1. CASE pc'[w] \in {"wait", "done"}
        BY <2>1 DEF StatusOf
  <2>2. CASE /\ queue # <<>>
             /\ held' = [held EXCEPT ![w] = Head(queue)]
             /\ pc' = [pc EXCEPT ![w] = "start"]
    <3>1. queue \in Seq(Jobs) /\ Len(queue) \in Nat \ {0} /\ Head(queue) = queue[1]
          BY <2>2, TakeQueue DEF TypeOK
    <3>2. held'[w] = queue[1] /\ pc'[w] = "start"
          BY <1>0, <2>2, <3>1 DEF TypeOK
    <3>3. job'[queue[1]].status = "queued"
          BY <1>1, <3>1, PopTakes DEF PlaceInv
    <3> QED BY <3>2, <3>3 DEF StatusOf
  <2> QED BY <1>1, <2>1, <2>2, PopTakes
<1>2. CASE ~ PopNoWait(w) /\ ~ PopWait(w)
  <2>1. held[w] \in Jobs
        BY <1>2, KeepsOrEnds, HolderHasJob
  <2> USE DEF TypeOK, StatusOf, WriteField, Goto
  <2>2. CASE StartJob(w) \/ WaitForDb(w) \/ Connected(w) \/ Pulled(w)
        BY <1>0, <2>1, <2>2 DEF StartJob, WaitForDb, Connected, Pulled
  <2>3. CASE Finish(w) \/ Fail(w)
        BY <1>0, <2>1, <2>3 DEF Finish, Fail, FailLabels, SetDone
  <2>4. CASE RecordTime(w) \/ FinalStatistics(w) \/ FailMessage(w)
        BY <1>0, <2>1, <2>4 DEF RecordTime, FinalStatistics, FailMessage
  <2> QED BY <1>2, <2>2, <2>3, <2>4 DEF Worker
<1> QED BY <1>1, <1>2

LEMMA StatusStep ==
    ASSUME TypeOK, HolderInv, PlaceInv, StatusInv, [Next]_vars
    PROVE  StatusInv'
<1>1. ASSUME NEW w \in Workers, Worker(w) PROVE StatusInv'
  <2>1. ASSUME NEW v \in Workers, v # w PROVE StatusOf(v)'
    <3>1. pc'[v] = pc[v] /\ held'[v] = held[v]
          BY <1>1, <2>1, WorkerFrame, ThreadKinds
    <3>2. CASE held[v] = NoJob
          BY <3>1, <3>2 DEF HolderInv, StatusOf
    <3>3. CASE held[v] # NoJob
      <4>1. held[v] \in Jobs /\ held[v] # held[w]
            BY <2>1, <3>3 DEF PlaceInv, TypeOK
      <4>2. job'[held[v]] = job[held[v]]
            BY <1>1, <4>1, WorkerFrame
      <4> QED BY <3>1, <4>2 DEF StatusInv, StatusOf
    <3> QED BY <3>2, <3>3
  <2> QED BY <1>1, <2>1, OwnStatus DEF StatusInv
<1>2. ASSUME UNCHANGED <<job, held>>, \A w \in Workers : pc'[w] = pc[w]
      PROVE  StatusInv'
      BY <1>2 DEF StatusInv, StatusOf
<1>3. ASSUME NEW j \in Jobs, Handler(j) PROVE StatusInv'
      BY <1>2, <1>3, HandlerFrame, ThreadKinds
<1>4. CASE CleanupThread
      BY <1>2, <1>4, CleanupFrame, ThreadKinds
<1>5. ASSUME NEW r \in Readers, Reader(r) PROVE StatusInv'
      BY <1>2, <1>5, ReaderFrame, ThreadKinds
<1>6. CASE Owner \/ Tick
      BY <1>2, <1>6, OwnerFrame
<1>7. CASE UNCHANGED vars
      BY <1>2, <1>7 DEF vars
<1> QED BY <1>1, <1>3, <1>4, <1>5, <1>6, <1>7 DEF Next, Terminated

\* The status of a job stays or goes one step ahead.
LEMMA StatusAdvances ==
    ASSUME TypeOK, HolderInv, StatusInv, [Next]_vars, NEW j \in Jobs
    PROVE  \/ job'[j].status = job[j].status
           \/ job[j].status = "queued" /\ job'[j].status = "in_process"
           \/ job[j].status = "in_process" /\ job'[j].status \in {"finished", "failed"}
<1>1. ASSUME NEW w \in Workers, Worker(w), j = held[w]
      PROVE  \/ job'[j].status = job[j].status
             \/ job[j].status = "queued" /\ job'[j].status = "in_process"
             \/ job[j].status = "in_process" /\ job'[j].status \in {"finished", "failed"}
  <2>0. StatusOf(w)
        BY DEF StatusInv
  <2>1. CASE PopNoWait(w) \/ PopWait(w)
        BY <2>1, PopTakes
  <2> USE DEF TypeOK, WriteField, Goto
  <2>2. CASE StartJob(w)
        BY <1>1, <2>0, <2>2 DEF StartJob, StatusOf
  <2>3. CASE WaitForDb(w) \/ Connected(w) \/ Pulled(w)
        BY <1>1, <2>3 DEF WaitForDb, Connected, Pulled
  <2>4. CASE Finish(w) \/ Fail(w)
        BY <1>1, <2>0, <2>4 DEF Finish, Fail, FailLabels, SetDone, StatusOf
  <2>5. CASE RecordTime(w) \/ FinalStatistics(w) \/ FailMessage(w)
        BY <1>1, <2>5 DEF RecordTime, FinalStatistics, FailMessage
  <2> QED BY <1>1, <2>1, <2>2, <2>3, <2>4, <2>5 DEF Worker
<1>2. ASSUME NEW w \in Workers, Worker(w), j # held[w]
      PROVE  job'[j] = job[j]
      BY <1>2, WorkerFrame
<1>3. CASE UNCHANGED job
      BY <1>3
<1> QED BY <1>1, <1>2, <1>3, HandlerFrame, CleanupFrame, ReaderFrame, OwnerFrame
        DEF Next, Terminated, vars

\* A done job stays done.
LEMMA DoneStays ==
    ASSUME TypeOK, HolderInv, StatusInv, [Next]_vars, NEW j \in Jobs, Done(j)
    PROVE  Done(j)'
BY StatusAdvances DEF Done

-----------------------------------------------------------------------------
(* The list                                                                *)

\* A step takes a job out of the map only if it is done, or if the storage is
\* destroyed.
LEMMA OnlyDoneIsRemoved ==
    ASSUME TypeOK, [Next]_vars, NEW j \in jobMap, j \notin jobMap'
    PROVE  \/ Destroyed
           \/ /\ CleanupThread
              /\ Done(j)
              /\ job[j].timeFinished < minTime
              /\ pc[Cleanup] = "scan"
<1>1. ASSUME NEW i \in Jobs, Handler(i) PROVE j \in jobMap'
      BY <1>1, HandlerFrame
<1>2. CASE CleanupThread
      BY <1>2, CleanupFrame
<1>3. CASE UNCHANGED vars
      BY <1>3 DEF vars
<1> QED BY <1>1, <1>2, <1>3, WorkerFrame, ReaderFrame, OwnerFrame
        DEF Next, Terminated

LEMMA ListedStep ==
    ASSUME TypeOK, LifeInv, PlaceInv, ListedInv, [Next]_vars
    PROVE  ListedInv'
<1> SUFFICES ASSUME NEW j \in Jobs, pc'[j] = "enqueue" PROVE j \in jobMap'
    BY DEF ListedInv
<1>1. CASE pc[j] = "enqueue"
  <2>1. j \in jobMap /\ job[j].status = "queued" /\ storage = "alive"
        BY <1>1 DEF ListedInv, PlaceInv, LifeInv
  <2> QED BY <2>1, OnlyDoneIsRemoved DEF Done, Destroyed
<1>2. CASE pc[j] # "enqueue"
  <2>1. Handler(j)
    <3>1. ASSUME NEW i \in Jobs, Handler(i) PROVE i = j
          BY <1>2, <3>1, HandlerFrame, ThreadKinds
    <3>2. ASSUME NEW w \in Workers, Worker(w) PROVE FALSE
          BY <1>2, <3>2, WorkerFrame, ThreadKinds
    <3>3. ~ CleanupThread
          BY <1>2, CleanupFrame, ThreadKinds
    <3>4. ASSUME NEW r \in Readers, Reader(r) PROVE FALSE
          BY <1>2, <3>4, ReaderFrame, ThreadKinds
    <3>5. ~ Owner /\ ~ Tick /\ ~ UNCHANGED vars
          BY <1>2, OwnerFrame DEF vars
    <3> QED BY <3>1, <3>2, <3>3, <3>4, <3>5 DEF Next, Terminated
  <2> QED BY <1>2, <2>1, HandlerFrame
<1> QED BY <1>1, <1>2

\* The jobs that somebody is going to work on or works on.
Pending(j) ==
    \/ \E n \in 1 .. Len(queue) : queue[n] = j
    \/ \E w \in Workers : held[w] = j

\* A step makes a job pending only by Enqueue.
LEMMA PendingStep ==
    ASSUME TypeOK, HolderInv, [Next]_vars, NEW j \in Jobs, Pending(j)', ~ Pending(j)
    PROVE  pc[j] = "enqueue" /\ UNCHANGED <<job, jobMap>>
<1>1. ASSUME NEW i \in Jobs, Handler(i)
      PROVE  pc[j] = "enqueue" /\ UNCHANGED <<job, jobMap>>
  <2>1. UNCHANGED <<job, held>>
        BY <1>1, HandlerFrame
  <2>2. CASE UNCHANGED queue
        BY <2>1, <2>2 DEF Pending
  <2>3. CASE queue' = Append(queue, i) /\ pc[i] = "enqueue" /\ UNCHANGED jobMap
    <3>1. /\ Len(queue) \in Nat
          /\ Len(queue') = Len(queue) + 1
          /\ queue'[Len(queue) + 1] = i
          /\ \A n \in 1 .. Len(queue) : queue'[n] = queue[n]
          BY <2>3 DEF TypeOK
    <3>2. i = j
          BY <2>1, <3>1 DEF Pending
    <3> QED BY <2>1, <2>3, <3>2
  <2> QED BY <1>1, <2>2, <2>3, HandlerFrame
<1>2. ASSUME NEW w \in Workers, Worker(w) PROVE FALSE
  <2>1. \A v \in Workers : v # w => held'[v] = held[v]
        BY <1>2, WorkerFrame
  <2>2. CASE PopNoWait(w) \/ PopWait(w)
    <3>1. CASE UNCHANGED <<queue, held>>
          BY <3>1 DEF Pending
    <3>2. CASE /\ queue # <<>>
               /\ held' = [held EXCEPT ![w] = Head(queue)]
               /\ queue' = Tail(queue)
      <4>1. /\ Head(queue) = queue[1]
            /\ Len(queue) \in Nat \ {0}
            /\ Len(queue') = Len(queue) - 1
            /\ \A n \in 1 .. Len(queue') : queue'[n] = queue[n + 1]
            BY <3>2, TakeQueue DEF TypeOK
      <4>2. held'[w] = queue[1]
            BY <3>2, <4>1 DEF TypeOK
      <4>3. \A n \in 1 .. Len(queue') : n + 1 \in 1 .. Len(queue)
            BY <4>1
      <4>4. 1 \in 1 .. Len(queue)
            BY <4>1
      <4> QED BY <2>1, <4>1, <4>2, <4>3, <4>4 DEF Pending
    <3> QED BY <2>2, <3>1, <3>2, PopTakes
  <2>3. CASE ~ PopNoWait(w) /\ ~ PopWait(w)
    <3>1. queue' = queue /\ held'[w] \in {held[w], NoJob}
          BY <1>2, <2>3, KeepsOrEnds
    <3> QED BY <2>1, <3>1, ThreadsAssumption DEF Pending
  <2> QED BY <2>2, <2>3
<1>3. ASSUME UNCHANGED <<queue, held>> PROVE FALSE
      BY <1>3 DEF Pending
<1>4. ~ CleanupThread
      BY <1>3, CleanupFrame
<1>5. ASSUME NEW r \in Readers, Reader(r) PROVE FALSE
      BY <1>3, <1>5, ReaderFrame
<1>6. ~ Owner /\ ~ Tick
  <2>1. CASE Owner \/ Tick
    <3>1. UNCHANGED held /\ (UNCHANGED queue \/ queue' = <<>>)
          BY <2>1, OwnerFrame DEF Destroyed
    <3> QED BY <3>1 DEF Pending
  <2> QED BY <2>1
<1>7. ~ UNCHANGED vars
      BY <1>3 DEF vars
<1> QED BY <1>1, <1>2, <1>4, <1>5, <1>6, <1>7 DEF Next, Terminated

LEMMA UnfinishedStep ==
    ASSUME TypeOK, HolderInv, PlaceInv, StatusInv, ListedInv, UnfinishedIsListed,
           [Next]_vars
    PROVE  UnfinishedIsListed'
<1> SUFFICES ASSUME NEW j \in Jobs, ~ Done(j)', Pending(j)'
             PROVE  j \in jobMap' \/ storage' = "destroyed"
    BY DEF UnfinishedIsListed, Pending
<1>1. ~ Done(j)
      BY DoneStays
<1>2. j \in jobMap \/ storage = "destroyed"
  <2>1. CASE Pending(j)
        BY <1>1, <2>1 DEF UnfinishedIsListed, Pending
  <2>2. CASE ~ Pending(j)
        BY <2>2, PendingStep DEF ListedInv
  <2> QED BY <2>1, <2>2
<1>3. CASE j \in jobMap
      BY <1>1, <1>3, OnlyDoneIsRemoved DEF Destroyed
<1>4. CASE storage = "destroyed"
  <2>1. storage' = storage
        BY <1>4, HandlerFrame, WorkerFrame, CleanupFrame, ReaderFrame
           DEF Next, Terminated, vars, Owner, Quit, Destroy, Destroyed, Tick
  <2> QED BY <1>4, <2>1
<1> QED BY <1>2, <1>3, <1>4

-----------------------------------------------------------------------------
(* The answers                                                             *)

\* An answer that is complete.
StatisticsOf(r) ==
    pc[r] = "answered" /\ report[r].status \in {"finished", "failed"}
        => report[r].stats # "none"

\* A step of a reader keeps both for itself.
LEMMA OwnReport ==
    ASSUME TypeOK, ReportInv, DoneReportHasStatistics, NEW r \in Readers, Reader(r)
    PROVE  ReportOf(r)' /\ StatisticsOf(r)'
<1>0. ReportOf(r) /\ StatisticsOf(r) /\ r \in Threads /\ UNCHANGED job
      BY ThreadKinds, ReaderFrame
         DEF ReportInv, DoneReportHasStatistics, StatisticsOf
<1> USE DEF ReportOf, StatisticsOf, Done, TypeOK, Goto
<1>1. ASSUME NEW j \in Jobs, GetJob(r, j) \/ ListJobs(r, j)
      PROVE  ReportOf(r)' /\ StatisticsOf(r)'
      BY <1>0, <1>1 DEF GetJob, ListJobs
<1>2. CASE Answered(r) \/ StatsLock(r) \/ StatsUnlock(r)
      BY <1>0, <1>2 DEF Answered, StatsLock, StatsUnlock
<1>3. ASSUME NEW j \in Jobs, StatsCount(r, j)
      PROVE  ReportOf(r)' /\ StatisticsOf(r)'
      BY <1>0, <1>3 DEF StatsCount
<1>4. CASE SerializeTime(r)
      BY <1>0, <1>4 DEF SerializeTime, Serialize
<1>5. CASE SerializeStatus(r)
      BY <1>0, <1>5 DEF SerializeStatus, Serialize
<1>6. CASE SerializeMessage(r)
      BY <1>0, <1>6 DEF SerializeMessage, Serialize
<1>7. CASE SerializeStats(r)
  <2>1. pc[r] = "stats" /\ pc'[r] = "answered" /\ asked[r] \in Jobs
        BY <1>0, <1>7 DEF SerializeStats, Serialize
  <2>2. job[asked[r]].stats # "none"
        BY <2>1
  <2>3. report'[r].status = report[r].status
        BY <1>7 DEF SerializeStats, Serialize
  <2>4. Done(asked[r]) => report'[r].stats = job[asked[r]].stats
        BY <1>7 DEF SerializeStats, Serialize
  <2> QED BY <1>0, <2>1, <2>2, <2>3, <2>4
<1> QED BY <1>1, <1>2, <1>3, <1>4, <1>5, <1>6, <1>7 DEF Reader, Serializer, Stats

LEMMA ReportStep ==
    ASSUME TypeOK, HolderInv, StatusInv, ReportInv, DoneReportHasStatistics,
           [Next]_vars
    PROVE  ReportInv' /\ DoneReportHasStatistics'
<1>1. ASSUME NEW q \in Readers, pc'[q] = pc[q], asked'[q] = asked[q],
             report'[q] = report[q]
      PROVE  ReportOf(q)' /\ StatisticsOf(q)'
  <2>1. ReportOf(q) /\ StatisticsOf(q)
        BY DEF ReportInv, DoneReportHasStatistics, StatisticsOf
  <2>2. asked[q] \in Jobs /\ Done(asked[q]) => (job'[asked[q]].status \in {"finished", "failed"})
        BY DoneStays DEF Done
  <2> QED BY <1>1, <2>1, <2>2 DEF ReportOf, StatisticsOf, Done
<1>2. ASSUME NEW q \in Readers PROVE ReportOf(q)' /\ StatisticsOf(q)'
  <2>1. CASE Reader(q)
        BY <2>1, OwnReport
  <2>2. CASE ~ Reader(q)
    <3>1. ASSUME NEW j \in Jobs, Handler(j) PROVE ReportOf(q)' /\ StatisticsOf(q)'
          BY <1>1, <3>1, HandlerFrame, ThreadKinds DEF readerVars
    <3>2. ASSUME NEW w \in Workers, Worker(w) PROVE ReportOf(q)' /\ StatisticsOf(q)'
          BY <1>1, <3>2, WorkerFrame, ThreadKinds DEF readerVars
    <3>3. CASE CleanupThread
          BY <1>1, <3>3, CleanupFrame, ThreadKinds DEF readerVars
    <3>4. ASSUME NEW r \in Readers, Reader(r) PROVE ReportOf(q)' /\ StatisticsOf(q)'
          BY <1>1, <2>2, <3>4, ReaderFrame, ThreadKinds
    <3>5. CASE Owner \/ Tick
          BY <1>1, <3>5, OwnerFrame DEF readerVars
    <3>6. CASE UNCHANGED vars
          BY <1>1, <3>6 DEF vars
    <3> QED BY <3>1, <3>2, <3>3, <3>4, <3>5, <3>6 DEF Next, Terminated
  <2> QED BY <2>1, <2>2
<1> QED BY <1>2 DEF ReportInv, DoneReportHasStatistics, StatisticsOf

-----------------------------------------------------------------------------
(* The numbers of the status page                                          *)

\* The mutex keeps the map as it is while a reader counts.
LEMMA CountedMapStays ==
    ASSUME TypeOK, MutexInv, LifeInv, [Next]_vars, NEW r \in Readers, pc[r] = "count"
    PROVE  jobMap' = jobMap
<1>1. mapMutex = r /\ storage = "alive"
      BY ThreadKinds DEF MutexInv, LifeInv
<1>2. ASSUME NEW j \in Jobs, Handler(j) PROVE jobMap' = jobMap
  <2>1. pc[j] # "add"
        BY <1>1, ThreadKinds DEF MutexInv
  <2> QED BY <1>2, <2>1, HandlerFrame
<1>3. ASSUME CleanupThread PROVE jobMap' = jobMap
  <2>1. pc[Cleanup] # "scan"
        BY <1>1, ThreadKinds DEF MutexInv
  <2> QED BY <1>3, <2>1, CleanupFrame
<1>4. ASSUME Owner \/ Tick PROVE jobMap' = jobMap
      BY <1>1, <1>4, OwnerFrame DEF Destroyed
<1>5. ASSUME UNCHANGED vars PROVE jobMap' = jobMap
      BY <1>5 DEF vars
<1> QED BY <1>2, <1>3, <1>4, <1>5, WorkerFrame, ReaderFrame DEF Next, Terminated

LEMMA MapStaysFinite ==
    ASSUME TypeOK, IsFiniteSet(jobMap), [Next]_vars
    PROVE  IsFiniteSet(jobMap')
<1>1. ASSUME NEW j \in Jobs, Handler(j) PROVE IsFiniteSet(jobMap')
  <2>1. jobMap' = jobMap \/ jobMap' = jobMap \cup {j}
        BY <1>1, HandlerFrame
  <2> QED BY <2>1, FS_AddElement
<1>2. ASSUME CleanupThread PROVE IsFiniteSet(jobMap')
  <2>1. jobMap' \in SUBSET jobMap
        BY <1>2, CleanupFrame
  <2> QED BY <2>1, FS_Subset
<1>3. ASSUME Owner \/ Tick PROVE IsFiniteSet(jobMap')
      BY <1>3, OwnerFrame, FS_EmptySet DEF Destroyed
<1>4. ASSUME UNCHANGED vars PROVE IsFiniteSet(jobMap')
      BY <1>4 DEF vars
<1> QED BY <1>1, <1>2, <1>3, <1>4, WorkerFrame, ReaderFrame DEF Next, Terminated

\* The numbers stay right while the jobs go on.
LEMMA CountKept ==
    ASSUME TypeOK, HolderInv, StatusInv, IsFiniteSet(jobMap), [Next]_vars,
           NEW r \in Readers, CountOf(r), jobMap' = jobMap, tally'[r] = tally[r]
    PROVE  CountOf(r)'
<1> DEFINE V == jobMap \ tally[r].left
           num == tally[r].num
           Now(s) == {j \in V : job[j].status = s}
           Then(s) == {j \in V : job'[j].status = s}
<1>1. \A j \in V : \/ job'[j].status = job[j].status
                   \/ job[j].status = "queued" /\ job'[j].status = "in_process"
                   \/ job[j].status = "in_process" /\ job'[j].status \in {"finished", "failed"}
      BY StatusAdvances DEF TypeOK
<1>2. /\ Now("finished") \in SUBSET Then("finished")
      /\ Now("failed") \in SUBSET Then("failed")
      /\ Then("queued") \in SUBSET Now("queued")
      BY <1>1
<1>3. \A s : IsFiniteSet(Now(s)) /\ IsFiniteSet(Then(s))
  <2> TAKE s
  <2>1. Now(s) \in SUBSET jobMap /\ Then(s) \in SUBSET jobMap
        OBVIOUS
  <2> HIDE DEF Now, Then
  <2> QED BY <2>1, FS_Subset
<1>4. /\ Cardinality(Now("finished")) <= Cardinality(Then("finished"))
      /\ Cardinality(Now("failed")) <= Cardinality(Then("failed"))
      /\ Cardinality(Then("queued")) <= Cardinality(Now("queued"))
  <2> HIDE DEF Now, Then
  <2> QED BY <1>2, <1>3, FS_Subset
<1>5. /\ num["queued"] \in Nat /\ num["finished"] \in Nat /\ num["failed"] \in Nat
      BY DEF TypeOK, Statuses
<1>6. \A s : Cardinality(Now(s)) \in Nat /\ Cardinality(Then(s)) \in Nat
  <2> HIDE DEF Now, Then
  <2> QED BY <1>3, FS_CardinalityType
<1>7. /\ tally[r].left \subseteq jobMap
      /\ num["queued"] + num["in_process"] + num["finished"] + num["failed"]
               = Cardinality(V)
      /\ num["finished"] <= Cardinality(Now("finished"))
      /\ num["failed"] <= Cardinality(Now("failed"))
      /\ num["queued"] >= Cardinality(Now("queued"))
      BY DEF CountOf, With
<1>8. /\ num["finished"] <= Cardinality(Then("finished"))
      /\ num["failed"] <= Cardinality(Then("failed"))
      /\ num["queued"] >= Cardinality(Then("queued"))
  <2> HIDE DEF Now, Then, num
  <2> QED BY <1>4, <1>5, <1>6, <1>7
<1> QED BY <1>7, <1>8 DEF CountOf, With

\* getStats begins with empty numbers.
LEMMA CountBegins ==
    ASSUME TypeOK, NEW r \in Readers, tally[r] = EmptyTally, StatsLock(r)
    PROVE  CountOf(r)'
<1>1. /\ tally'[r].left = jobMap' /\ tally'[r].num = [s \in Statuses |-> 0]
      BY DEF StatsLock, EmptyTally, TypeOK
<1>2. jobMap' \ tally'[r].left = {} /\ \A s : {j \in {} : job'[j].status = s} = {}
      BY <1>1
<1>3. /\ tally'[r].num["queued"] = 0 /\ tally'[r].num["in_process"] = 0
      /\ tally'[r].num["finished"] = 0 /\ tally'[r].num["failed"] = 0
      BY <1>1 DEF Statuses
<1> QED BY <1>1, <1>2, <1>3, FS_EmptySet DEF CountOf, With

\* One turn of the loop counts one job.
LEMMA CountGoesOn ==
    ASSUME TypeOK, IsFiniteSet(jobMap), NEW r \in Readers, CountOf(r),
           NEW i \in Jobs, StatsCount(r, i)
    PROVE  CountOf(r)'
<1> DEFINE V == jobMap \ tally[r].left
           W == V \cup {i}
           num == tally[r].num
           new == [num EXCEPT ![job[i].status] = @ + 1]
           Seen(S, s) == {j \in S : job[j].status = s}
<1>1. /\ UNCHANGED <<job, jobMap>> /\ i \in tally[r].left
      /\ tally[r].left \subseteq jobMap
      BY DEF StatsCount, CountOf
<1>2. /\ tally'[r].left = tally[r].left \ {i}
      /\ tally'[r].num = new
      /\ job[i].status \in Statuses
  <2>1. tally' = [tally EXCEPT ![r] = [left |-> tally[r].left \ {i}, num |-> new]]
        BY CountedTally
  <2>2. tally'[r] = [left |-> tally[r].left \ {i}, num |-> new]
    <3> HIDE DEF new
    <3> QED BY <2>1 DEF TypeOK
  <2>3. job[i].status \in Statuses
        BY DEF TypeOK
  <2> HIDE DEF new
  <2> QED BY <2>2, <2>3
<1>3. i \notin V /\ jobMap' \ tally'[r].left = W
      BY <1>1, <1>2
<1>4. V \in SUBSET jobMap /\ IsFiniteSet(V)
      BY FS_Subset
<1>5. Cardinality(W) = Cardinality(V) + 1 /\ Cardinality(V) \in Nat
      BY <1>3, <1>4, FS_AddElement, FS_CardinalityType
<1>6. \A s : /\ IsFiniteSet(Seen(V, s))
             /\ Cardinality(Seen(V, s)) \in Nat
             /\ Cardinality(Seen(W, s)) =
                  IF s = job[i].status THEN Cardinality(Seen(V, s)) + 1
                                       ELSE Cardinality(Seen(V, s))
  <2> TAKE s
  <2>1. Seen(V, s) \in SUBSET V /\ i \notin Seen(V, s)
        BY <1>3
  <2>2. Seen(W, s) = IF s = job[i].status THEN Seen(V, s) \cup {i} ELSE Seen(V, s)
        BY <1>3
  <2> HIDE DEF Seen, V, W
  <2>3. IsFiniteSet(Seen(V, s)) /\ Cardinality(Seen(V, s)) \in Nat
        BY <1>4, <2>1, FS_Subset, FS_CardinalityType
  <2> QED BY <2>1, <2>2, <2>3, FS_AddElement
<1>7. /\ num \in [Statuses -> Nat]
      /\ num["queued"] + num["in_process"] + num["finished"] + num["failed"]
               = Cardinality(V)
      /\ num["finished"] <= Cardinality(Seen(V, "finished"))
      /\ num["failed"] <= Cardinality(Seen(V, "failed"))
      /\ num["queued"] >= Cardinality(Seen(V, "queued"))
      BY DEF CountOf, With, TypeOK
<1>8. /\ new["queued"] + new["in_process"] + new["finished"] + new["failed"]
               = Cardinality(W)
      /\ new["finished"] <= Cardinality(Seen(W, "finished"))
      /\ new["failed"] <= Cardinality(Seen(W, "failed"))
      /\ new["queued"] >= Cardinality(Seen(W, "queued"))
  <2>1. \A s \in Statuses : num[s] \in Nat /\ new[s] = IF s = job[i].status THEN num[s] + 1 ELSE num[s]
        BY <1>7
  <2> HIDE DEF Seen, V, W, num, new
  <2> QED BY <1>2, <1>5, <1>6, <1>7, <2>1 DEF Statuses
<1> QED BY <1>1, <1>2, <1>3, <1>8 DEF CountOf, With

LEMMA CountStep ==
    ASSUME TypeOK, MutexInv, LifeInv, HolderInv, StatusInv, CountInv, [Next]_vars
    PROVE  CountInv'
<1>0. IsFiniteSet(jobMap) /\ IsFiniteSet(jobMap')
      BY MapStaysFinite DEF CountInv
<1>1. ASSUME NEW q \in Readers, pc'[q] = pc[q], tally'[q] = tally[q]
      PROVE  /\ pc'[q] # "count" => tally'[q] = EmptyTally
             /\ pc'[q] = "count" => CountOf(q)'
      BY <1>0, <1>1, CountedMapStays, CountKept DEF CountInv
<1>2. ASSUME NEW q \in Readers
      PROVE  /\ pc'[q] # "count" => tally'[q] = EmptyTally
             /\ pc'[q] = "count" => CountOf(q)'
  <2>1. CASE Reader(q)
    <3>1. CASE /\ pc[q] # "count" /\ pc'[q] # "count" /\ UNCHANGED tally
          BY <3>1 DEF CountInv
    <3>2. CASE StatsLock(q)
      <4>1. pc[q] = "idle" /\ pc'[q] = "count"
            BY <3>2, ThreadKinds DEF StatsLock, Goto, TypeOK
      <4> QED BY <3>2, <4>1, CountBegins DEF CountInv
    <3>3. ASSUME NEW j \in Jobs, StatsCount(q, j)
          PROVE  /\ pc'[q] # "count" => tally'[q] = EmptyTally
                 /\ pc'[q] = "count" => CountOf(q)'
      <4>1. pc[q] = "count" /\ pc'[q] = "count"
            BY <3>3 DEF StatsCount
      <4> QED BY <1>0, <3>3, <4>1, CountGoesOn DEF CountInv
    <3>4. CASE StatsUnlock(q)
      <4>1. pc'[q] = "idle" /\ tally'[q] = EmptyTally
            BY <3>4, ThreadKinds DEF StatsUnlock, Goto, TypeOK
      <4> QED BY <4>1
    <3> QED BY <2>1, <3>1, <3>2, <3>3, <3>4, ReaderFrame
  <2>2. CASE ~ Reader(q)
    <3>1. pc'[q] = pc[q] /\ tally'[q] = tally[q]
      <4>1. ASSUME NEW j \in Jobs, Handler(j)
            PROVE  pc'[q] = pc[q] /\ tally'[q] = tally[q]
            BY <4>1, HandlerFrame, ThreadKinds DEF readerVars
      <4>2. ASSUME NEW w \in Workers, Worker(w)
            PROVE  pc'[q] = pc[q] /\ tally'[q] = tally[q]
            BY <4>2, WorkerFrame, ThreadKinds DEF readerVars
      <4>3. CASE CleanupThread
            BY <4>3, CleanupFrame, ThreadKinds DEF readerVars
      <4>4. ASSUME NEW r \in Readers, Reader(r)
            PROVE  pc'[q] = pc[q] /\ tally'[q] = tally[q]
            BY <2>2, <4>4, ReaderFrame, ThreadKinds
      <4>5. CASE Owner \/ Tick
            BY <4>5, OwnerFrame DEF readerVars
      <4>6. CASE UNCHANGED vars
            BY <4>6 DEF vars, readerVars
      <4> QED BY <4>1, <4>2, <4>3, <4>4, <4>5, <4>6 DEF Next, Terminated
    <3> QED BY <1>1, <3>1
  <2> QED BY <2>1, <2>2
<1> QED BY <1>0, <1>2 DEF CountInv

-----------------------------------------------------------------------------
(* The theorems                                                            *)

StorageInv ==
    /\ TypeOK
    /\ MutexInv
    /\ LifeInv
    /\ ScanInv
    /\ HolderInv
    /\ PlaceInv
    /\ StatusInv
    /\ ListedInv
    /\ UnfinishedIsListed
    /\ ReportInv
    /\ DoneReportHasStatistics
    /\ CountInv

LEMMA InitStorageInv == Init => StorageInv
<1> SUFFICES ASSUME Init PROVE StorageInv
    OBVIOUS
<1>1. TypeOK
  <2>1. Epoch \in Times /\ clock \in Start .. MaxTime /\ minTime \in Epoch .. MaxTime
        BY TimeAssumption DEF Init, Times, Epoch
  <2>2. job \in [Jobs -> JobType]
        BY <2>1 DEF Init, NewJob, JobType, Statuses
  <2>3. report \in [Readers -> ReportType]
        BY DEF Init, EmptyReport, ReportType
  <2>4. tally \in [Readers -> [left : SUBSET Jobs, num : [Statuses -> Nat]]]
        BY DEF Init, EmptyTally
  <2>5. continue_ \in BOOLEAN /\ exitSignal \in BOOLEAN /\ crashed \in BOOLEAN
        BY DEF Init
  <2>6. pc \in [Threads -> Labels]
        BY DEF Init, Labels
  <2> QED BY <2>1, <2>2, <2>3, <2>4, <2>5, <2>6 DEF Init, TypeOK, JobType, ReportType
<1>2. \A t \in Threads : pc[t] = IF t = Cleanup THEN "sleep" ELSE "idle"
      BY DEF Init
<1>3. MutexInv /\ LifeInv /\ ScanInv
      BY <1>2, ThreadKinds DEF Init, MutexInv, LifeInv, ScanInv
<1>4. HolderInv /\ StatusInv
      BY <1>2, ThreadKinds DEF Init, HolderInv, StatusInv, StatusOf
<1>5. PlaceInv
      BY DEF Init, PlaceInv, NewJob
<1>6. ListedInv /\ UnfinishedIsListed
      BY <1>2, ThreadKinds, ThreadsAssumption DEF Init, ListedInv, UnfinishedIsListed
<1>7. ReportInv /\ DoneReportHasStatistics
      BY <1>2, ThreadKinds DEF ReportInv, ReportOf, DoneReportHasStatistics
<1>8. CountInv
      BY <1>2, ThreadKinds, FS_EmptySet DEF Init, CountInv
<1> QED BY <1>1, <1>3, <1>4, <1>5, <1>6, <1>7, <1>8 DEF StorageInv

\* The inductive invariant of the storage: who is in a critical section, where
\* each job is, and what the readers have seen of the jobs.
THEOREM StorageInvariant == Spec => []StorageInv
<1>1. StorageInv /\ [Next]_vars => StorageInv'
      BY TypeStep, MutexStep, LifeStep, ScanStep, HolderStep, PlaceStep,
         StatusStep, ListedStep, UnfinishedStep, ReportStep, CountStep
         DEF StorageInv
<1> QED BY InitStorageInv, <1>1, PTL DEF Spec

\* The job list, the jobs and the threads that share them keep their types.
THEOREM StorageTypeCorrect == Spec => []TypeOK
<1>1. StorageInv => TypeOK
      BY DEF StorageInv
<1> QED BY StorageInvariant, <1>1, PTL

\* The cleanup never removes a job that is queued or worked on, although it
\* reads status and timeFinished without a lock while the workers write them.
THEOREM UnfinishedStaysListed == Spec => []UnfinishedIsListed
<1>1. StorageInv => UnfinishedIsListed
      BY DEF StorageInv
<1> QED BY StorageInvariant, <1>1, PTL

\* Job::toJsonValue reads the status three times while the worker changes it;
\* an answer that says finished or failed still has the statistics.
THEOREM DoneAnswerIsComplete == Spec => []DoneReportHasStatistics
<1>1. StorageInv => DoneReportHasStatistics
      BY DEF StorageInv
<1> QED BY StorageInvariant, <1>1, PTL

\* getStats holds the mutex of the map and not the jobs; its numbers add up to
\* the list and are off only towards an earlier status.
THEOREM StatsAreConsistent == Spec => []StatsDescribeTheList
<1>1. StorageInv => StatsDescribeTheList
  <2> SUFFICES ASSUME StorageInv, NEW r \in Readers, pc[r] = "count",
                      tally[r].left = {}
               PROVE  LET num == tally[r].num
                          listed(S) == Cardinality({j \in jobMap : job[j].status \in S})
                      IN  /\ num["queued"] + num["in_process"] + num["finished"]
                                + num["failed"] = Cardinality(jobMap)
                          /\ num["finished"] <= listed({"finished"})
                          /\ num["failed"] <= listed({"failed"})
                          /\ num["queued"] >= listed({"queued"})
      BY DEF StatsDescribeTheList
  <2>1. CountOf(r)
        BY DEF StorageInv, CountInv
  <2>2. jobMap \ tally[r].left = jobMap
        OBVIOUS
  <2>3. \A s : {j \in jobMap : job[j].status \in {s}} = With(jobMap, s)
        BY DEF With
  <2> QED BY <2>1, <2>2, <2>3 DEF CountOf
<1> QED BY StorageInvariant, <1>1, PTL

\* However the scan interleaves with the workers and the clock, the cleanup
\* removes a job with a recorded finish time only when it is older than MaxAge.
THEOREM RecordedIsKept == Spec => RecordedIsKeptForMaxAge
<1>1. ASSUME StorageInv, [Next]_vars
      PROVE  \A j \in jobMap \ jobMap' :
                storage' # "destroyed" /\ job[j].timeFinished # Epoch
                    => clock - job[j].timeFinished > MaxAge
  <2> SUFFICES ASSUME NEW j \in jobMap, j \notin jobMap', storage' # "destroyed"
               PROVE  clock - job[j].timeFinished > MaxAge
      OBVIOUS
  <2>1. job[j].timeFinished < minTime /\ pc[Cleanup] = "scan"
        BY <1>1, OnlyDoneIsRemoved DEF StorageInv, Destroyed
  <2>2. minTime <= clock - MaxAge
        BY <1>1, <2>1 DEF StorageInv, ScanInv
  <2>3. j \in Jobs /\ job[j].timeFinished \in Times
        BY <1>1 DEF StorageInv, TypeOK
  <2>4. job[j].timeFinished \in Int
        BY <2>3, TimeAssumption DEF Times, Epoch
  <2>5. clock \in Int /\ minTime \in Int /\ MaxAge \in Int
        BY <1>1, TimeAssumption DEF StorageInv, TypeOK, Epoch
  <2> QED BY <2>1, <2>2, <2>4, <2>5
<1>2. StorageInv /\ [Next]_vars =>
         [\A j \in jobMap \ jobMap' :
             storage' # "destroyed" /\ job[j].timeFinished # Epoch
                 => clock - job[j].timeFinished > MaxAge]_vars
      BY <1>1
<1> QED BY <1>2, StorageInvariant, PTL DEF Spec, RecordedIsKeptForMaxAge

=============================================================================
