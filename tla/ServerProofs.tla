---------------------------- MODULE ServerProofs ----------------------------
(***************************************************************************)
(* Proofs about Server, for every set of workers and of requests.          *)
(***************************************************************************)
EXTENDS Server, SequenceTheorems, TLAPS

-----------------------------------------------------------------------------
(* Types and threads                                                       *)

\* Every running worker is known to the broker, which knows none before it
\* starts them and after it has joined them.
ThreadsInv ==
    /\ \A w \in Workers : worker[w] \notin {"none", "done"} => w \in workerThreads
    /\ main \in {"init", "bind", "release", "return", "exited"}
          => workerThreads = {}

\* The front job of the queue can be handed to a worker.
LEMMA TakeType ==
    ASSUME TypeOK, NEW w \in Workers, worker[w] \in {"idle", "wait"}, Take(w)
    PROVE  /\ queue' \in Seq(Requests)
           /\ held' \in [Workers -> Requests \cup {NoJob}]
           /\ worker' \in [Workers -> {"none", "idle", "wait", "work", "done"}]
           /\ \A v \in Workers : held'[v] # NoJob <=> worker'[v] = "work"
<1>1. Head(queue) \in Requests /\ Tail(queue) \in Seq(Requests)
      BY HeadTailProperties DEF TypeOK, Take
<1>2. Head(queue) # NoJob
      BY <1>1, RequestsAssumption
<1> QED BY <1>1, <1>2 DEF TypeOK, Take

\* What a request does keeps the types of the requests.
LEMMA HandleType ==
    ASSUME TypeOK, NEW r \in Requests, NEW from,
           NEW to \in {"connected", "handle", "layer", "lock", "push",
                       "enqueue", "respond", "answered"},
           NEW s \in {"none", "ok", "bad_request", "not_found", "server_error"},
           Handle(r, from, to, s), queue' \in Seq(Requests),
           listed' \subseteq Requests, late' \subseteq Requests
    PROVE  TypeOK'
BY DEF TypeOK, Handle, mainVars, workerVars

\* Every step preserves the types.
LEMMA TypeStep ==
    ASSUME TypeOK, ThreadsInv, [Next]_vars
    PROVE  TypeOK'
<1>1. CASE Start
      BY <1>1 DEF Start, EarlyExit, CreateBroker, BindListener, BindFails,
                  StartWorker, WorkerFails, RunListeners, ListenerRun, Unwind,
                  MainGoto, TypeOK, ThreadsInv, jobVars, workerVars, requestVars
<1>2. CASE TerminationRequest
      BY <1>2 DEF TerminationRequest, MainGoto, TypeOK, jobVars, workerVars,
                  requestVars
<1>3. CASE Stop
      BY <1>3 DEF Stop, StopListeners, QuitJobs, JoinWorkers, ReleaseJobs,
                  Return, ListenerStop, MainGoto, TypeOK, jobVars, workerVars,
                  requestVars
<1>4. ASSUME NEW w \in Workers, Run(w) PROVE TypeOK'
  <2>1. CASE PopNoWait(w)
    <3>1. CASE Take(w)
          BY <2>1, <3>1, TakeType DEF PopNoWait, TypeOK, mainVars, requestVars
    <3>2. CASE ~ Take(w)
          BY <2>1, <3>2 DEF PopNoWait, TypeOK, mainVars, requestVars
    <3> QED BY <3>1, <3>2
  <2>2. CASE PopWait(w)
    <3>1. CASE Take(w)
          BY <2>2, <3>1, TakeType DEF PopWait, TypeOK, mainVars, requestVars
    <3>2. CASE ~ Take(w)
          BY <2>2, <3>2 DEF PopWait, TypeOK, mainVars, requestVars
    <3> QED BY <3>1, <3>2
  <2>3. CASE WorkDone(w)
        BY <2>3 DEF WorkDone, TypeOK, mainVars, jobVars, requestVars
  <2> QED BY <1>4, <2>1, <2>2, <2>3 DEF Run
<1>5. ASSUME NEW r \in Requests, HandleRequest(r) PROVE TypeOK'
  <2>1. CASE Connect(r)
        BY <2>1, HandleType DEF Connect, TypeOK, jobVars
  <2>2. CASE CreateRequestHandler(r)
        BY <2>2, HandleType DEF CreateRequestHandler, TypeOK, jobVars
  <2>3. CASE BadMethod(r)
        BY <2>3, HandleType DEF BadMethod, TypeOK, jobVars
  <2>4. CASE FromString(r)
        BY <2>4, HandleType DEF FromString, TypeOK, jobVars
  <2>5. CASE CheckLayer(r)
        BY <2>5, HandleType DEF CheckLayer, TypeOK, jobVars
  <2>6. CASE LockJobs(r)
        BY <2>6, HandleType DEF LockJobs, TypeOK, jobVars
  <2>7. CASE AddJob(r)
        BY <2>7, HandleType DEF AddJob, TypeOK
  <2>8. CASE Enqueue(r)
    <3>1. queue' \in Seq(Requests)
          BY <2>8, AppendProperties DEF Enqueue, TypeOK
    <3> QED BY <2>8, <3>1, HandleType DEF Enqueue, TypeOK
  <2>9. CASE Respond(r)
        BY <2>9, HandleType DEF Respond, TypeOK, jobVars
  <2> QED BY <1>5, <2>1, <2>2, <2>3, <2>4, <2>5, <2>6, <2>7, <2>8, <2>9
          DEF HandleRequest
<1>6. CASE UNCHANGED vars
      BY <1>6 DEF vars, TypeOK, mainVars, jobVars, workerVars, requestVars
<1> QED BY <1>1, <1>2, <1>3, <1>4, <1>5, <1>6 DEF Next, Exited

\* A step of a request leaves the main thread and the workers alone.
LEMMA HandleKeeps ==
    ASSUME NEW r \in Requests, HandleRequest(r)
    PROVE  UNCHANGED <<mainVars, continue_, workerVars>>
BY DEF HandleRequest, Connect, CreateRequestHandler, BadMethod, FromString,
       CheckLayer, LockJobs, AddJob, Enqueue, Respond, Handle

\* A worker that leaves or is started keeps the broker's book right.
LEMMA ThreadsStep ==
    ASSUME TypeOK, ThreadsInv, [Next]_vars
    PROVE  ThreadsInv'
<1>1. CASE Start
      BY <1>1 DEF Start, EarlyExit, CreateBroker, BindListener, BindFails,
                  StartWorker, WorkerFails, RunListeners, Unwind, MainGoto,
                  TypeOK, ThreadsInv, workerVars
<1>2. CASE TerminationRequest
      BY <1>2 DEF TerminationRequest, MainGoto, ThreadsInv, workerVars
<1>3. CASE Stop
      BY <1>3 DEF Stop, StopListeners, QuitJobs, JoinWorkers, ReleaseJobs,
                  Return, MainGoto, ThreadsInv, workerVars
<1>4. ASSUME NEW w \in Workers, Run(w) PROVE ThreadsInv'
      BY <1>4 DEF Run, PopNoWait, PopWait, WorkDone, Take, TypeOK, ThreadsInv,
                  mainVars
<1>5. ASSUME NEW r \in Requests, HandleRequest(r) PROVE ThreadsInv'
      BY <1>5, HandleKeeps DEF ThreadsInv, mainVars, workerVars
<1>6. CASE UNCHANGED vars
      BY <1>6 DEF vars, ThreadsInv, mainVars, workerVars
<1> QED BY <1>1, <1>2, <1>3, <1>4, <1>5, <1>6 DEF Next, Exited

\* Types and threads together are inductive: that a started worker holds no
\* job yet needs the book of the broker.
LEMMA TypeAndThreads == Spec => [](TypeOK /\ ThreadsInv)
<1>1. Init => TypeOK /\ ThreadsInv
      BY EmptySeq DEF Init, TypeOK, ThreadsInv
<1>2. TypeOK /\ ThreadsInv /\ [Next]_vars => (TypeOK /\ ThreadsInv)'
      BY TypeStep, ThreadsStep
<1> QED BY <1>1, <1>2, PTL DEF Spec

\* The state of the server, its threads and its requests keeps its types.
THEOREM ServerTypeCorrect == Spec => []TypeOK
BY TypeAndThreads, PTL

\* However far starting got, no worker thread runs any more when the broker
\* is destroyed.
THEOREM AllThreadsJoined == Spec => []NoThreadOutlivesBroker
<1>1. ThreadsInv => NoThreadOutlivesBroker
      BY DEF ThreadsInv, NoThreadOutlivesBroker
<1> QED BY <1>1, TypeAndThreads, PTL

-----------------------------------------------------------------------------
(* Starting                                                                *)

\* Nothing is served before the listener runs, nor after a failed start.
StartInv ==
    /\ main \in {"init", "bind", "workers", "running"} => exitCode = "none"
    /\ main \in {"init", "bind", "workers"} \/ exitCode = "software"
          => /\ ~ isRunning
             /\ listed = {}
             /\ \A r \in Requests : request[r] = "none" /\ response[r] = "none"

\* Every step preserves it: only RunListeners lets requests in, and only
\* with all workers started.
LEMMA StartStep ==
    ASSUME TypeOK, StartInv, [Next]_vars
    PROVE  StartInv'
<1>1. CASE Start
      BY <1>1 DEF Start, EarlyExit, CreateBroker, BindListener, BindFails,
                  StartWorker, WorkerFails, RunListeners, Unwind, MainGoto,
                  StartInv, jobVars, requestVars
<1>2. CASE TerminationRequest
      BY <1>2 DEF TerminationRequest, MainGoto, StartInv, jobVars, requestVars
<1>3. CASE Stop
      BY <1>3 DEF Stop, StopListeners, QuitJobs, JoinWorkers, ReleaseJobs,
                  Return, ListenerStop, MainGoto, StartInv, jobVars, requestVars
<1>4. ASSUME NEW w \in Workers, Run(w) PROVE StartInv'
      BY <1>4 DEF Run, PopNoWait, PopWait, WorkDone, StartInv, mainVars,
                  jobVars, requestVars
<1>5. ASSUME NEW r \in Requests, HandleRequest(r) PROVE StartInv'
  <2>1. isRunning \/ request[r] # "none"
        BY <1>5 DEF HandleRequest, Connect, CreateRequestHandler, BadMethod,
                    FromString, CheckLayer, LockJobs, AddJob, Enqueue, Respond,
                    Handle
  <2> QED BY <1>5, <2>1, HandleKeeps DEF StartInv, mainVars
<1>6. CASE UNCHANGED vars
      BY <1>6 DEF vars, StartInv, mainVars, jobVars, requestVars
<1> QED BY <1>1, <1>2, <1>3, <1>4, <1>5, <1>6 DEF Next, Exited

\* A server that fails to start has not accepted a job.
THEOREM FailedStartIsSilent == Spec => []FailedStartAcceptsNothing
<1>1. Init => StartInv
      BY DEF Init, StartInv
<1>2. TypeOK /\ StartInv /\ [Next]_vars => StartInv'
      BY StartStep
<1>3. StartInv => FailedStartAcceptsNothing
      BY DEF StartInv, FailedStartAcceptsNothing
<1> QED BY <1>1, <1>2, <1>3, ServerTypeCorrect, PTL DEF Spec

-----------------------------------------------------------------------------
(* Draining                                                                *)

Queued(r) == \E n \in 1 .. Len(queue) : queue[n] = r

\* A listed job is about to be queued, queued, worked on or executed.
TrackInv ==
    \A r \in listed : \/ request[r] = "enqueue"
                      \/ Queued(r)
                      \/ \E w \in Workers : held[w] = r
                      \/ r \in executed

\* A worker stops being busy on an empty queue only.
LateInv ==
    (\A w \in Workers : ~ Busy(w))
        => \A n \in 1 .. Len(queue) : queue[n] \in late

\* All but the front element stay in the queue when that is taken.
LEMMA TailElements ==
    ASSUME NEW S, NEW q \in Seq(S), q # <<>>, NEW n \in 1 .. Len(q)
    PROVE  q[n] = Head(q) \/ \E m \in 1 .. Len(Tail(q)) : Tail(q)[m] = q[n]
<1>1. Len(Tail(q)) = Len(q) - 1 /\ Head(q) = q[1]
      BY HeadTailProperties
<1>2. \A m \in 1 .. Len(Tail(q)) : Tail(q)[m] = q[m + 1]
      BY HeadTailProperties
<1>3. CASE n = 1
      BY <1>1, <1>3
<1>4. CASE n # 1
  <2>1. Len(q) \in Nat
        BY LenProperties
  <2>2. n - 1 \in 1 .. Len(Tail(q)) /\ (n - 1) + 1 = n
        BY <1>1, <1>4, <2>1
  <2> QED BY <1>2, <2>2
<1> QED BY <1>3, <1>4

\* Taking the front job keeps track of all jobs.
LEMMA TakeTrack ==
    ASSUME TypeOK, TrackInv, NEW w \in Workers, worker[w] # "work", Take(w),
           UNCHANGED <<listed, request, executed>>
    PROVE  TrackInv'
<1> SUFFICES ASSUME NEW r \in listed
             PROVE  \/ request[r] = "enqueue"
                    \/ Queued(r)'
                    \/ \E v \in Workers : held'[v] = r
                    \/ r \in executed
    BY DEF TrackInv
<1>1. held' = [held EXCEPT ![w] = Head(queue)] /\ queue' = Tail(queue) /\ queue # <<>>
      BY DEF Take
<1>2. held'[w] = Head(queue)
      BY <1>1 DEF TypeOK
<1>3. CASE Queued(r)
  <2>1. PICK n \in 1 .. Len(queue) : queue[n] = r
        BY <1>3 DEF Queued
  <2>2. r = Head(queue) \/ \E m \in 1 .. Len(Tail(queue)) : Tail(queue)[m] = r
        BY <1>1, <2>1, TailElements DEF TypeOK
  <2> QED BY <1>1, <1>2, <2>2 DEF Queued
<1>4. CASE \E v \in Workers : held[v] = r
  <2>1. PICK v \in Workers : held[v] = r
        BY <1>4
  <2>2. v # w
        BY <2>1, RequestsAssumption DEF TypeOK
  <2> QED BY <1>1, <2>1, <2>2 DEF TypeOK
<1> QED BY <1>3, <1>4 DEF TrackInv

\* A request that is not about to be queued does not lose its job.
LEMMA HandleTrack ==
    ASSUME TypeOK, TrackInv, NEW r \in Requests, NEW from, NEW to, NEW s,
           Handle(r, from, to, s), from # "enqueue", UNCHANGED jobVars
    PROVE  TrackInv'
BY DEF TypeOK, TrackInv, Queued, Handle, jobVars, workerVars

\* A job that has been listed can always be found, on every step.
LEMMA TrackStep ==
    ASSUME TypeOK, TrackInv, [Next]_vars
    PROVE  TrackInv'
<1>1. CASE Start
  <2>1. UNCHANGED <<jobVars, held, executed, requestVars>>
        BY <1>1 DEF Start, EarlyExit, CreateBroker, BindListener, BindFails,
                    StartWorker, WorkerFails, RunListeners, Unwind, workerVars
  <2> QED BY <2>1 DEF TrackInv, Queued, jobVars, requestVars
<1>2. CASE TerminationRequest \/ Stop
  <2>1. UNCHANGED <<jobVars, workerVars, requestVars>>
        BY <1>2 DEF TerminationRequest, Stop, StopListeners, QuitJobs,
                    JoinWorkers, ReleaseJobs, Return
  <2> QED BY <2>1 DEF TrackInv, Queued, jobVars, workerVars, requestVars
<1>3. ASSUME NEW w \in Workers, Run(w) PROVE TrackInv'
  <2>1. CASE WorkDone(w)
        BY <2>1 DEF WorkDone, TypeOK, TrackInv, Queued, jobVars, requestVars
  <2>2. CASE (PopNoWait(w) \/ PopWait(w)) /\ Take(w)
        BY <2>2, TakeTrack DEF PopNoWait, PopWait, requestVars
  <2>3. CASE (PopNoWait(w) \/ PopWait(w)) /\ ~ Take(w)
        BY <2>3 DEF PopNoWait, PopWait, TrackInv, Queued, requestVars
  <2> QED BY <1>3, <2>1, <2>2, <2>3 DEF Run
<1>4. ASSUME NEW r \in Requests, HandleRequest(r) PROVE TrackInv'
  <2>1. CASE AddJob(r)
        BY <2>1 DEF AddJob, Handle, TypeOK, TrackInv, Queued, workerVars
  <2>2. CASE Enqueue(r)
    <3>1. queue' = Append(queue, r) /\ listed' = listed /\ queue \in Seq(Requests)
          BY <2>2 DEF Enqueue, TypeOK
    <3>2. Len(queue') = Len(queue) + 1 /\ queue'[Len(queue) + 1] = r
          BY <3>1, AppendProperties
    <3>3. \A n \in 1 .. Len(queue) : queue'[n] = queue[n]
          BY <3>1, AppendProperties
    <3>4. Len(queue) \in Nat
          BY <3>1, LenProperties
    <3>5. \A x \in listed : Queued(x) => Queued(x)'
          BY <3>2, <3>3, <3>4 DEF Queued
    <3>6. Queued(r)'
          BY <3>2, <3>4 DEF Queued
    <3>7. \A x \in listed : x # r => request'[x] = request[x]
          BY <2>2 DEF Enqueue, Handle, TypeOK
    <3> QED BY <2>2, <3>1, <3>5, <3>6, <3>7 DEF Enqueue, Handle, TrackInv, workerVars
  <2>3. CASE ~ AddJob(r) /\ ~ Enqueue(r)
        BY <1>4, <2>3, HandleTrack DEF HandleRequest, Connect,
           CreateRequestHandler, BadMethod, FromString, CheckLayer, LockJobs,
           Respond
  <2> QED BY <2>1, <2>2, <2>3
<1>5. CASE UNCHANGED vars
      BY <1>5 DEF vars, TrackInv, Queued, jobVars, workerVars, requestVars
<1> QED BY <1>1, <1>2, <1>3, <1>4, <1>5 DEF Next, Exited

\* While no worker is busy only late jobs are queued, on every step.
LEMMA LateStep ==
    ASSUME TypeOK, LateInv, [Next]_vars
    PROVE  LateInv'
<1> SUFFICES ASSUME \A w \in Workers : worker'[w] \notin {"idle", "work"}
             PROVE  \A n \in 1 .. Len(queue') : queue'[n] \in late'
    BY DEF LateInv, Busy
<1>1. CASE UNCHANGED <<worker, queue, late>>
      BY <1>1 DEF LateInv, Busy
<1>2. CASE Start
  <2>1. ASSUME NEW w \in Workers, StartWorker(w) PROVE FALSE
        BY <2>1 DEF StartWorker, TypeOK
  <2> QED BY <1>1, <1>2, <2>1 DEF Start, EarlyExit, CreateBroker, BindListener,
          BindFails, WorkerFails, RunListeners, Unwind, jobVars, workerVars
<1>3. CASE TerminationRequest \/ Stop
      BY <1>1, <1>3 DEF TerminationRequest, Stop, StopListeners, QuitJobs,
         JoinWorkers, ReleaseJobs, Return, jobVars, workerVars
<1>4. ASSUME NEW w \in Workers, Run(w)
      PROVE  \A n \in 1 .. Len(queue') : queue'[n] \in late'
  <2>1. ~ Take(w) /\ ~ WorkDone(w)
        BY DEF Take, WorkDone, TypeOK
  <2>2. CASE PopNoWait(w)
    <3>1. queue' = <<>>
          BY <2>1, <2>2 DEF PopNoWait
    <3> QED BY <3>1, EmptySeq
  <2>3. CASE PopWait(w)
    <3>1. UNCHANGED <<queue, late>> /\ worker[w] = "wait"
          BY <2>1, <2>3 DEF PopWait
    <3>2. \A v \in Workers : v # w => worker'[v] = worker[v]
          BY <2>1, <2>3 DEF PopWait, TypeOK
    <3>3. \A v \in Workers : ~ Busy(v)
          BY <3>1, <3>2 DEF Busy
    <3> QED BY <3>1, <3>3 DEF LateInv
  <2> QED BY <1>4, <2>1, <2>2, <2>3 DEF Run
<1>5. ASSUME NEW r \in Requests, HandleRequest(r)
      PROVE  \A n \in 1 .. Len(queue') : queue'[n] \in late'
  <2>1. UNCHANGED worker /\ \A w \in Workers : ~ Busy(w)
        BY <1>5, HandleKeeps DEF workerVars, Busy
  <2>2. CASE Enqueue(r)
    <3>1. queue' = Append(queue, r) /\ late' = late \cup {r} /\ queue \in Seq(Requests)
          BY <2>1, <2>2 DEF Enqueue, TypeOK
    <3>2. Len(queue') = Len(queue) + 1 /\ queue'[Len(queue) + 1] = r
          BY <3>1, AppendProperties
    <3>3. \A n \in 1 .. Len(queue) : queue'[n] = queue[n]
          BY <3>1, AppendProperties
    <3>4. \A n \in 1 .. Len(queue) : queue[n] \in late
          BY <2>1 DEF LateInv
    <3>5. Len(queue) \in Nat
          BY <3>1, LenProperties
    <3> QED BY <3>1, <3>2, <3>3, <3>4, <3>5
  <2>3. CASE ~ Enqueue(r)
        BY <1>1, <1>5, <2>1, <2>3 DEF HandleRequest, Connect,
           CreateRequestHandler, BadMethod, FromString, CheckLayer, LockJobs,
           AddJob, Respond, jobVars
  <2> QED BY <2>2, <2>3
<1>6. CASE UNCHANGED vars
      BY <1>1, <1>6 DEF vars, jobVars, workerVars
<1> QED BY <1>2, <1>3, <1>4, <1>5, <1>6 DEF Next, Exited

\* A job that was queued while some worker was busy has been executed when
\* no worker is busy any more; quit does not lose it.
THEOREM BusyWorkersDrainTheQueue == Spec => []AcceptedIsExecuted
<1>1. Init => TrackInv /\ LateInv
      BY EmptySeq DEF Init, TrackInv, LateInv
<1>2. TypeOK /\ (TrackInv /\ LateInv) /\ [Next]_vars => (TrackInv /\ LateInv)'
      BY TrackStep, LateStep
<1>3. TypeOK /\ TrackInv /\ LateInv => AcceptedIsExecuted
  <2> SUFFICES ASSUME TypeOK, TrackInv, LateInv, \A w \in Workers : ~ Busy(w),
                      NEW r \in listed
               PROVE  request[r] = "enqueue" \/ r \in executed \/ r \in late
      BY DEF AcceptedIsExecuted
  <2>1. \A w \in Workers : held[w] # r
        BY RequestsAssumption DEF TypeOK, Busy
  <2>2. Queued(r) => r \in late
        BY DEF LateInv, Queued
  <2> QED BY <2>1, <2>2 DEF TrackInv
<1> QED BY <1>1, <1>2, <1>3, ServerTypeCorrect, PTL DEF Spec

=============================================================================
