------------------------------- MODULE Server -------------------------------
(***************************************************************************)
(* The life of the server: Server::main (server.cpp) with its Broker       *)
(* (broker.cpp) and HTTP listener (http/listener.cpp), the worker threads  *)
(* the broker starts and joins, and the HTTP threads that push jobs        *)
(* (http/pullhandler.cpp, http/removebyattributeshandler.cpp).             *)
(*                                                                         *)
(* Starting can fail half way: the listener's port is in use, or a worker  *)
(* does not get its database connection.  Stopping happens while requests  *)
(* are being handled: the HTTP server stops accepting connections, but it  *)
(* goes on serving the open ones.  The queue is used by its abstraction    *)
(* (BlockingFifo), the execution of a job is one step that takes its time. *)
(***************************************************************************)
EXTENDS Naturals, Sequences

CONSTANTS
    Workers,   \* the num_worker_threads workers
    Requests,  \* the POST requests of clients; each stands for its job as well
    NoJob      \* an empty Job::Ptr

ASSUME RequestsAssumption == NoJob \notin Requests

VARIABLES
    main,           \* where the main thread is
    caller,         \* who called Broker::stop: Server::main or ~Broker
    exitCode,       \* what Server::main returns
    isRunning,      \* Listener::isRunning
    workerThreads,  \* Broker::workerThreads
    released,       \* the broker's shared_ptr to the job storage is gone
    queue, continue_,  \* the job queue
    listed,         \* the jobs in the map of the storage
    worker,         \* where each worker is
    held,           \* the job it works on
    request,        \* where each request is
    response,       \* status of its answer
    executed,       \* history: the jobs that were executed
    late            \* history: the jobs queued while no worker was busy

mainVars == <<main, caller, exitCode, isRunning, workerThreads, released>>
jobVars == <<queue, listed, late>>
workerVars == <<worker, held, executed>>
requestVars == <<request, response>>

vars == <<mainVars, jobVars, continue_, workerVars, requestVars>>

Init ==
    /\ main = "init"
    /\ caller = "none"
    /\ exitCode = "none"
    /\ isRunning = FALSE
    /\ workerThreads = {}
    /\ released = FALSE
    /\ queue = <<>>
    /\ continue_ = TRUE
    /\ listed = {}
    /\ worker = [w \in Workers |-> "none"]
    /\ held = [w \in Workers |-> NoJob]
    /\ request = [r \in Requests |-> "none"]
    /\ response = [r \in Requests |-> "none"]
    /\ executed = {}
    /\ late = {}

MainGoto(from, to) ==
    /\ main = from
    /\ main' = to

-----------------------------------------------------------------------------
(* Starting                                                                *)

\* The help was requested, the configuration is wrong, or the logfile can
\* not be written.
EarlyExit ==
    /\ MainGoto("init", "exited")
    /\ exitCode' \in {"ok", "usage"}
    /\ UNCHANGED <<caller, isRunning, workerThreads, released, jobVars,
                   continue_, workerVars, requestVars>>

\* Broker broker(configuration)
CreateBroker ==
    /\ MainGoto("init", "bind")
    /\ UNCHANGED <<caller, exitCode, isRunning, workerThreads, released,
                   jobVars, continue_, workerVars, requestVars>>

\* An exception leaves the try block of Server::main: broker is destroyed,
\* and its destructor calls stop.
Unwind(from) ==
    /\ MainGoto(from, "stop")
    /\ caller' = "destructor"
    /\ exitCode' = "software"
    /\ UNCHANGED <<isRunning, workerThreads, released, jobVars, continue_,
                   workerVars, requestVars>>

\* Mutant of BindListener: requests are served from here on.
BindListenerServes ==
    /\ MainGoto("bind", "workers")
    /\ isRunning' = TRUE
    /\ UNCHANGED <<caller, exitCode, workerThreads, released, jobVars,
                   continue_, workerVars, requestVars>>

\* The constructor of the listener; the broker is given the listener.
BindListener ==
    /\ MainGoto("bind", "workers")
    /\ UNCHANGED <<caller, exitCode, isRunning, workerThreads, released,
                   jobVars, continue_, workerVars, requestVars>>

BindFails == Unwind("bind")

\* Broker::run: a worker is constructed, with its database connection, and
\* its thread is started.
StartWorker(w) ==
    /\ main = "workers"
    /\ w \notin workerThreads
    /\ workerThreads' = workerThreads \cup {w}
    /\ worker' = [worker EXCEPT ![w] = "idle"]
    /\ UNCHANGED <<main, caller, exitCode, isRunning, released, jobVars,
                   continue_, held, executed, requestVars>>

\* The constructor of Connection throws.
WorkerFails ==
    /\ workerThreads # Workers
    /\ Unwind("workers")

ListenerRun == isRunning' = TRUE

\* Broker::run: the HTTP listener returns at once and needs no thread of
\* its own.
RunListeners ==
    /\ workerThreads = Workers
    /\ MainGoto("workers", "running")
    /\ ListenerRun
    /\ UNCHANGED <<caller, exitCode, workerThreads, released, jobVars,
                   continue_, workerVars, requestVars>>

\* waitForTerminationRequest returns.
TerminationRequest ==
    /\ MainGoto("running", "stop")
    /\ caller' = "main"
    /\ exitCode' = "ok"
    /\ UNCHANGED <<isRunning, workerThreads, released, jobVars, continue_,
                   workerVars, requestVars>>

-----------------------------------------------------------------------------
(* Broker::stop and ~Broker                                                *)

\* Nothing happens when the listener does not run.
ListenerStop == isRunning' = FALSE

\* Mutant of StopListeners: there is nothing to stop when the listener does
\* not run.
StopListenersIfRunning ==
    /\ main = "stop"
    /\ main' = IF isRunning THEN "quit" ELSE "release"
    /\ ListenerStop
    /\ UNCHANGED <<caller, exitCode, workerThreads, released, jobVars,
                   continue_, workerVars, requestVars>>

StopListeners ==
    /\ MainGoto("stop", "quit")
    /\ ListenerStop
    /\ UNCHANGED <<caller, exitCode, workerThreads, released, jobVars,
                   continue_, workerVars, requestVars>>

QuitJobs ==
    /\ MainGoto("quit", "join")
    /\ continue_' = FALSE
    /\ UNCHANGED <<caller, exitCode, isRunning, workerThreads, released,
                   jobVars, workerVars, requestVars>>

\* All threads are joined.  stop returns to Server::main, after which the
\* destructor of the broker calls it again, or to the destructor.
JoinWorkers ==
    /\ main = "join"
    /\ \A w \in workerThreads : worker[w] = "done"
    /\ workerThreads' = {}
    /\ main' = IF caller = "main" THEN "stop" ELSE "release"
    /\ caller' = "destructor"
    /\ UNCHANGED <<exitCode, isRunning, released, jobVars, continue_,
                   workerVars, requestVars>>

\* The members of the broker are destroyed, the storage before the listener.
ReleaseJobs ==
    /\ MainGoto("release", "return")
    /\ released' = TRUE
    /\ UNCHANGED <<caller, exitCode, isRunning, workerThreads, jobVars,
                   continue_, workerVars, requestVars>>

\* Server::main returns; requests in progress end with the process.
Return ==
    /\ MainGoto("return", "exited")
    /\ UNCHANGED <<caller, exitCode, isRunning, workerThreads, released,
                   jobVars, continue_, workerVars, requestVars>>

-----------------------------------------------------------------------------
(* Worker::run                                                             *)

Take(w) ==
    /\ queue # <<>>
    /\ queue' = Tail(queue)
    /\ held' = [held EXCEPT ![w] = Head(queue)]
    /\ worker' = [worker EXCEPT ![w] = "work"]

\* Mutant of PopNoWait: it gives up after quit, as popWait does.
PopNoWaitQuits(w) ==
    /\ worker[w] = "idle"
    /\ \/ continue_ /\ Take(w)
       \/ /\ queue = <<>> \/ ~ continue_
          /\ worker' = [worker EXCEPT ![w] = "wait"]
          /\ UNCHANGED <<queue, held>>
    /\ UNCHANGED <<mainVars, listed, late, continue_, executed, requestVars>>

\* Mutant of PopNoWait: the worker polls and never gets to popWait.
PopNoWaitPolls(w) ==
    /\ worker[w] = "idle"
    /\ \/ Take(w)
       \/ /\ queue = <<>>
          /\ UNCHANGED <<worker, queue, held>>
    /\ UNCHANGED <<mainVars, listed, late, continue_, executed, requestVars>>

\* Hands out jobs also after quit.
PopNoWait(w) ==
    /\ worker[w] = "idle"
    /\ \/ Take(w)
       \/ /\ queue = <<>>
          /\ worker' = [worker EXCEPT ![w] = "wait"]
          /\ UNCHANGED <<queue, held>>
    /\ UNCHANGED <<mainVars, listed, late, continue_, executed, requestVars>>

\* Returns nothing after quit, even if there are jobs.
PopWait(w) ==
    /\ worker[w] = "wait"
    /\ \/ continue_ /\ Take(w)
       \/ /\ ~ continue_
          /\ worker' = [worker EXCEPT ![w] = "done"]
          /\ UNCHANGED <<queue, held>>
    /\ UNCHANGED <<mainVars, listed, late, continue_, executed, requestVars>>

\* Mutant of WorkDone: the pointer to the job outlives the loop body.
WorkDoneKeepsJob(w) ==
    /\ worker[w] = "work"
    /\ worker' = [worker EXCEPT ![w] = "idle"]
    /\ executed' = executed \cup {held[w]}
    /\ UNCHANGED <<mainVars, jobVars, continue_, held, requestVars>>

\* The job has finished or failed.
WorkDone(w) ==
    /\ worker[w] = "work"
    /\ worker' = [worker EXCEPT ![w] = "idle"]
    /\ held' = [held EXCEPT ![w] = NoJob]
    /\ executed' = executed \cup {held[w]}
    /\ UNCHANGED <<mainVars, jobVars, continue_, requestVars>>

-----------------------------------------------------------------------------
(* HTTP requests                                                           *)

\* Request r goes from label from to label to, with answer s ("none" as long
\* as there is none).
Handle(r, from, to, s) ==
    /\ main # "exited"
    /\ request[r] = from
    /\ request' = [request EXCEPT ![r] = to]
    /\ response' = [response EXCEPT ![r] = s]
    /\ UNCHANGED <<mainVars, continue_, workerVars>>

\* A client opens a connection.
Connect(r) ==
    /\ isRunning
    /\ Handle(r, "none", "connected", "none")
    /\ UNCHANGED jobVars

\* A request arrives on the connection and is given to one of the two handlers
\* that push jobs, or to none.  Requests that only read are left out.
CreateRequestHandler(r) ==
    /\ \/ Handle(r, "connected", "handle", "none")
       \/ Handle(r, "connected", "answered", "not_found")
    /\ UNCHANGED jobVars

\* It is no POST.
BadMethod(r) ==
    /\ Handle(r, "handle", "answered", "bad_request")
    /\ UNCHANGED jobVars

\* The JSON object of the request is parsed into the job.
FromString(r) ==
    /\ \/ Handle(r, "handle", "layer", "none")
       \/ Handle(r, "handle", "answered", "bad_request")
    /\ UNCHANGED jobVars

CheckLayer(r) ==
    /\ \/ Handle(r, "layer", "lock", "none")
       \/ Handle(r, "layer", "answered", "not_found")
    /\ UNCHANGED jobVars

\* There is a shared_ptr to the storage: the broker's, or that of a request.
StorageAlive ==
    ~ released \/ \E r \in Requests : request[r] \in {"push", "enqueue"}

\* jobs.lock()
LockJobs(r) ==
    /\ \/ StorageAlive /\ Handle(r, "lock", "push", "none")
       \/ ~ StorageAlive /\ Handle(r, "lock", "answered", "server_error")
    /\ UNCHANGED jobVars

AddJob(r) ==
    /\ Handle(r, "push", "enqueue", "none")
    /\ listed' = listed \cup {r}
    /\ UNCHANGED <<queue, late>>

\* A worker that will call popNoWait before it waits.
Busy(w) == worker[w] \in {"idle", "work"}

Enqueue(r) ==
    /\ Handle(r, "enqueue", "respond", "none")
    /\ queue' = Append(queue, r)
    /\ late' = IF \E w \in Workers : Busy(w) THEN late ELSE late \cup {r}
    /\ UNCHANGED listed

Respond(r) ==
    /\ Handle(r, "respond", "answered", "ok")
    /\ UNCHANGED jobVars

-----------------------------------------------------------------------------

Start ==
    \/ EarlyExit
    \/ CreateBroker
    \/ BindListener
    \/ BindFails
    \/ \E w \in Workers : StartWorker(w)
    \/ WorkerFails
    \/ RunListeners

Stop ==
    \/ StopListeners
    \/ QuitJobs
    \/ JoinWorkers
    \/ ReleaseJobs
    \/ Return

Run(w) == PopNoWait(w) \/ PopWait(w) \/ WorkDone(w)

HandleRequest(r) ==
    \/ Connect(r)
    \/ CreateRequestHandler(r)
    \/ BadMethod(r)
    \/ FromString(r)
    \/ CheckLayer(r)
    \/ LockJobs(r)
    \/ AddJob(r)
    \/ Enqueue(r)
    \/ Respond(r)

\* The process has ended.
Exited == main = "exited" /\ UNCHANGED vars

Next ==
    \/ Start
    \/ TerminationRequest
    \/ Stop
    \/ \E w \in Workers : Run(w)
    \/ \E r \in Requests : HandleRequest(r)
    \/ Exited

Spec == Init /\ [][Next]_vars

\* The main thread goes on, once it was told to terminate, and the workers
\* run.  That the execution of a job ends is what StartedIsDone says of the
\* workers, provided the database stays up.  Requests may hang for ever.
Fairness ==
    /\ WF_vars(Stop)
    /\ \A w \in Workers : WF_vars(Run(w))

FairSpec == Spec /\ Fairness

-----------------------------------------------------------------------------
(* Properties                                                              *)

TypeOK ==
    /\ main \in {"init", "bind", "workers", "running", "stop", "quit", "join",
                 "release", "return", "exited"}
    /\ caller \in {"none", "main", "destructor"}
    /\ exitCode \in {"none", "ok", "usage", "software"}
    /\ isRunning \in BOOLEAN
    /\ workerThreads \subseteq Workers
    /\ released \in BOOLEAN
    /\ queue \in Seq(Requests)
    /\ continue_ \in BOOLEAN
    /\ listed \subseteq Requests
    /\ worker \in [Workers -> {"none", "idle", "wait", "work", "done"}]
    /\ held \in [Workers -> Requests \cup {NoJob}]
    /\ \A w \in Workers : held[w] # NoJob <=> worker[w] = "work"
    /\ request \in [Requests -> {"none", "connected", "handle", "layer", "lock",
                                 "push", "enqueue", "respond", "answered"}]
    /\ response \in [Requests -> {"none", "ok", "bad_request", "not_found",
                                  "server_error"}]
    /\ executed \subseteq Requests
    /\ late \subseteq Requests

\* When the broker is destroyed every worker thread that was started has
\* been joined, also when starting failed half way: no std::thread is
\* destroyed while it runs, and no worker uses a storage that is gone.
NoThreadOutlivesBroker ==
    main \in {"release", "return", "exited"}
        => \A w \in Workers : worker[w] \in {"none", "done"}

\* popWait drops jobs after quit, but popNoWait does not: a job that was
\* queued while some worker was busy has been executed when none is busy any
\* more, at the latest when they have left.  Only a job queued while all
\* workers waited can still be in the queue then.
AcceptedIsExecuted ==
    (\A w \in Workers : ~ Busy(w))
        => \A r \in listed :
              request[r] = "enqueue" \/ r \in executed \/ r \in late

\* When starting fails no client was told that a job was accepted.
FailedStartAcceptsNothing ==
    exitCode = "software"
        => listed = {} /\ \A r \in Requests : response[r] # "ok"

\* Broker::stop and ~Broker return, whatever the requests in progress do.
StopTerminates == main = "stop" ~> main = "exited"

=============================================================================
