---------------------------- MODULE WorkerProofs ----------------------------
(***************************************************************************)
(* Proofs about Worker, for every set of workers, jobs, layers that ignore *)
(* failures and any number of losses of the database.                      *)
(***************************************************************************)
EXTENDS Worker, SequenceTheorems, TLAPS

\* A job is in one place of the queue or with one worker.
ExclusiveInv ==
    /\ \A v, w \in Workers : held[v] = held[w] /\ held[v] # NoJob => v = w
    /\ \A m, n \in 1 .. Len(queue) : queue[m] = queue[n] => m = n
    /\ \A n \in 1 .. Len(queue) :
          /\ status[queue[n]] = "queued"
          /\ \A w \in Workers : held[w] # queue[n]

\* Where the worker is and whether an exception is in flight determine the
\* status of its job.  Nothing of the job is stored before the commit, and
\* nothing at all on the way to the catch block.
StatusOf(w) ==
    /\ pc[w] = "start" => status[held[w]] = "queued"
    /\ pc[w] \in InTransaction \cup {"connect", "open", "begin", "catch"}
          => status[held[w]] = "in_process"
    /\ pc[w] \in {"end", "exit"} =>
          status[held[w]] = IF failing[w] THEN "in_process" ELSE "finished"
    /\ pc[w] \notin {"idle", "wait", "done"} =>
          target[held[w]] = 0 \/ (pc[w] = "exit" /\ ~ failing[w])

StatusInv ==
    /\ \A j \in Jobs : status[j] = "queued" => target[j] = 0
    /\ \A w \in Workers : StatusOf(w)

\* A job that reaches the end of its statements has executed all of them.
\* An exception leaves none behind, or the flag for the rollback.  Without an
\* exception only an ignored feature sets that flag.
StatementsOf(w) ==
    /\ pc[w] \in InTransaction => ~ failing[w] /\ trans[w] # "inerror"
    /\ pc[w] \in InTransaction \cup {"end"} /\ rollback[w] /\ ~ failing[w]
          => held[w] \in ignored
    /\ pc[w] \in InTransaction \ {"sync"} => executed[w] = 0
    /\ pc[w] = "sync" => executed[w] + todo[w] = planned[held[w]]
    /\ pc[w] = "end" /\ failing[w] => rollback[w] \/ executed[w] = 0
    /\ pc[w] = "end" /\ ~ failing[w] =>
          executed[w] = planned[held[w]] /\ trans[w] # "inerror"
    /\ pc[w] = "exit" /\ ~ failing[w] /\ held[w] \notin ignored
          => target[held[w]] = planned[held[w]]

StatementsInv == \A w \in Workers : StatementsOf(w)

\* What a session has is registered for removal or could not be removed, and
\* a lost session has nothing.  Outside of a transaction, on the way through
\* the catch block too, only what could not be removed is left.
SessionOf(w) ==
    /\ ~ session[w] => trans[w] = "idle" /\ temp[w] = {}
    /\ pc[w] \in InTransaction \cup {"end", "exit"}
          => temp[w] \subseteq exitSqls[w] \cup undropped
    /\ pc[w] \notin InTransaction \cup {"end"} => trans[w] = "idle"
    /\ pc[w] \notin InTransaction \cup {"end", "exit"} => temp[w] \subseteq undropped

SessionInv == \A w \in Workers : SessionOf(w)

WorkerInv ==
    /\ Types
    /\ HolderInv
    /\ ExclusiveInv
    /\ StatusInv
    /\ StatementsInv
    /\ SessionInv
    /\ AllOrNothing
    /\ FinishedIsCommitted

-----------------------------------------------------------------------------
(* Types                                                                   *)

\* The queue without its front job.
LEMMA TakeQueue ==
    ASSUME queue \in Seq(Jobs), queue # <<>>
    PROVE  /\ Head(queue) \in Jobs
           /\ Head(queue) = queue[1]
           /\ Tail(queue) \in Seq(Jobs)
           /\ Len(queue) \in Nat \ {0}
           /\ Len(Tail(queue)) = Len(queue) - 1
           /\ \A n \in 1 .. Len(Tail(queue)) : Tail(queue)[n] = queue[n + 1]
BY HeadTailProperties

LEMMA HolderHasJob ==
    ASSUME Types, HolderInv, NEW w \in Workers,
           pc[w] \notin {"idle", "wait", "done"}
    PROVE  held[w] \in Jobs
BY DEF Types, HolderInv

\* What a pull creates are objects of its job.
LEMMA ObjectsOfJob ==
    ASSUME NEW w \in Workers, held[w] \in Jobs
    PROVE  TempTable(w) \in Objects /\ Prepared(w) \in Objects
BY DEF TempTable, Prepared, Objects

LEMMA TypeStep ==
    ASSUME Types, HolderInv, StatementsInv, [Next]_vars
    PROVE  Types'
<1> USE JobsAssumption, OptionsAssumption
<1> USE DEF InTransaction, queueVars, jobVars, sessionVars, txVars, dbVars
<1>1. CASE \E j \in Jobs : Push(j)
      BY <1>1 DEF Types, Push
<1>2. CASE Quit
      BY <1>2 DEF Types, Quit
<1>3. CASE DbDown
  <2>1. session' \in [Workers -> BOOLEAN]
        BY <1>3 DEF Types, DbDown, LoseSessions
  <2>2. trans' \in [Workers -> {"idle", "intrans", "inerror"}]
        BY <1>3 DEF Types, DbDown, LoseSessions
  <2>3. temp' \in [Workers -> SUBSET Objects]
        BY <1>3 DEF Types, DbDown, LoseSessions
  <2>4. outages < MaxOutages /\ outages' = outages + 1 /\ dbUp' = FALSE
        BY <1>3 DEF DbDown, LoseSessions
  <2>5. UNCHANGED <<queueVars, jobVars, pc, held, conn, txVars, undropped,
                    terminated>>
        BY <1>3 DEF DbDown, LoseSessions
  <2>6. outages' \in 0 .. MaxOutages
        BY <2>4 DEF Types
  <2>7. dbUp' \in BOOLEAN
        BY <2>4
  <2> QED BY <2>1, <2>2, <2>3, <2>5, <2>6, <2>7 DEF Types
<1>4. CASE DbUp
      BY <1>4 DEF Types, DbUp
<1>5. ASSUME NEW w \in Workers, SessionEnds(w) PROVE Types'
      BY <1>5 DEF Types, SessionEnds, LoseSessions
<1>6. ASSUME NEW w \in Workers, Step(w) PROVE Types'
  <2>1. CASE PopNoWait(w)
    <3>1. CASE Take(w) /\ queue # <<>>
          BY <2>1, <3>1, TakeQueue DEF Types, PopNoWait, Take, Goto, Close
    <3>2. CASE UNCHANGED <<queue, held>>
      <4>1. CASE UNCHANGED sessionVars
            BY <2>1, <3>2, <4>1 DEF Types, PopNoWait, Goto
      <4>2. CASE Close(w)
            BY <2>1, <3>2, <4>2 DEF Types, PopNoWait, Goto, Close
      <4> QED BY <2>1, <3>2, <4>1, <4>2 DEF PopNoWait
    <3> QED BY <2>1, <3>1, <3>2 DEF PopNoWait
  <2>2. CASE PopWait(w)
    <3>1. CASE Take(w) /\ queue # <<>>
          BY <2>2, <3>1, TakeQueue DEF Types, PopWait, Take, Goto
    <3>2. CASE UNCHANGED <<queue, held>>
          BY <2>2, <3>2 DEF Types, PopWait, Goto
    <3> QED BY <2>2, <3>1, <3>2 DEF PopWait
  <2>3. CASE StartJob(w)
        BY <2>3 DEF Types, StartJob, SetStatus, Goto, HolderInv
  <2>4. CASE Reconnect(w)
        BY <2>4 DEF Types, Reconnect, NoticeLoss
  <2>5. CASE Open(w)
        BY <2>5 DEF Types, Open, Goto
  <2>6. CASE Begin(w)
        BY <2>6 DEF Types, Begin, Goto
  <2>7. CASE BeginLost(w)
        BY <2>7 DEF Types, BeginLost, NoticeLoss, Goto
  <2>8. CASE CreateTempTable(w)
    <3>1. TempTable(w) \in Objects
          BY <2>8, HolderHasJob, ObjectsOfJob DEF CreateTempTable, Goto
    <3>2. /\ temp' \in [Workers -> SUBSET Objects]
          /\ exitSqls' \in [Workers -> SUBSET Objects]
          BY <2>8, <3>1 DEF Types, CreateTempTable
    <3> QED BY <2>8, <3>2 DEF Types, CreateTempTable, Goto
  <2>9. CASE Prepare(w)
    <3>1. Prepared(w) \in Objects
          BY <2>9, HolderHasJob, ObjectsOfJob DEF Prepare, Goto
    <3>2. /\ temp' \in [Workers -> SUBSET Objects]
          /\ exitSqls' \in [Workers -> SUBSET Objects]
          BY <2>9, <3>1 DEF Types, Prepare
    <3> QED BY <2>9, <3>2 DEF Types, Prepare, Goto
  <2>10. CASE PullFeature(w)
        BY <2>10 DEF Types, PullFeature
  <2>11. CASE IgnoreFeature(w)
        BY <2>11 DEF Types, IgnoreFeature, HolderInv
  <2>12. CASE StartSync(w)
    <3>1. /\ pc[w] \in {"features", "setup"}
          /\ pc' = [pc EXCEPT ![w] = "sync"]
          BY <2>12 DEF StartSync, Goto
    <3>2. held[w] \in Jobs
          BY <3>1, HolderHasJob
    <3>3. PICK n \in Plans(held[w]) :
                /\ todo' = [todo EXCEPT ![w] = n]
                /\ planned' = [planned EXCEPT ![held[w]] = n]
          BY <2>12 DEF StartSync
    <3>4. n \in 0 .. 3
          BY DEF Plans
    <3>5. /\ todo' \in [Workers -> 0 .. 3]
          /\ planned' \in [Jobs -> 0 .. 3]
          BY <3>2, <3>3, <3>4 DEF Types
    <3> QED BY <2>12, <3>1, <3>5 DEF Types, StartSync
  <2>13. CASE SyncStatement(w)
    <3>1. held[w] \in Jobs
          BY <2>13, HolderHasJob DEF SyncStatement
    <3>2. /\ planned[held[w]] \in 0 .. 3
          /\ todo[w] \in 0 .. 3
          /\ executed[w] \in 0 .. 3
          BY <3>1 DEF Types
    <3>3. executed[w] + todo[w] = planned[held[w]] /\ todo[w] > 0
          BY <2>13 DEF SyncStatement, StatementsInv, StatementsOf
    <3>4. todo[w] - 1 \in 0 .. 3 /\ executed[w] + 1 \in 0 .. 3
          BY <3>2, <3>3
    <3> QED BY <2>13, <3>4 DEF Types, SyncStatement
  <2>14. CASE StatementFails(w)
    <3>1. exitSqls' \in [Workers -> SUBSET Objects]
      <4>1. CASE UNCHANGED exitSqls
            BY <4>1 DEF Types
      <4>2. CASE exitSqls' = [exitSqls EXCEPT ![w] = @ \cup {TempTable(w)}]
        <5>1. TempTable(w) \in Objects
              BY <2>14, HolderHasJob, ObjectsOfJob DEF StatementFails
        <5> QED BY <4>2, <5>1 DEF Types
      <4> QED BY <2>14, <4>1, <4>2 DEF StatementFails
    <3> QED BY <2>14, <3>1 DEF Types, StatementFails
  <2>15. CASE ClientFails(w)
        BY <2>15 DEF Types, ClientFails
  <2>16. CASE LostInTransaction(w)
        BY <2>16 DEF Types, LostInTransaction, NoticeLoss
  <2>17. CASE Finish(w)
        BY <2>17 DEF Types, Finish, SetStatus, Goto, HolderInv
  <2>18. CASE EndTransaction(w)
    <3>1. target' \in [Jobs -> 0 .. 3]
      <4>1. held[w] \in Jobs
            BY <2>18, HolderHasJob DEF EndTransaction, Goto
      <4>2. UNCHANGED target \/ target' = [target EXCEPT ![held[w]] = executed[w]]
            BY <2>18 DEF EndTransaction
      <4>3. executed[w] \in 0 .. 3 /\ target \in [Jobs -> 0 .. 3]
            BY DEF Types
      <4> QED BY <4>1, <4>2, <4>3
    <3>2. temp' \in [Workers -> SUBSET Objects]
      <4>1. UNCHANGED temp \/ temp' = [temp EXCEPT ![w] = @ \ {TempTable(w)}]
            BY <2>18 DEF EndTransaction
      <4>2. temp \in [Workers -> SUBSET Objects]
            BY DEF Types
      <4> QED BY <4>1, <4>2
    <3> QED BY <2>18, <3>1, <3>2 DEF Types, EndTransaction, Goto
  <2>19. CASE CommitRefused(w)
        BY <2>19 DEF Types, CommitRefused
  <2>20. CASE RunExitSqls(w)
    <3>1. PICK kept \in SUBSET (temp[w] \cap exitSqls[w]) :
                /\ temp' = [temp EXCEPT ![w] = (@ \ exitSqls[w]) \cup kept]
                /\ undropped' = undropped \cup kept
          BY <2>20 DEF RunExitSqls
    <3>2. temp' \in [Workers -> SUBSET Objects] /\ undropped' \subseteq Objects
          BY <3>1 DEF Types
    <3> QED BY <2>20, <3>2 DEF Types, RunExitSqls, Leave
  <2>21. CASE ExitSqlsLost(w)
        BY <2>21 DEF Types, ExitSqlsLost, Leave, NoticeLoss
  <2>22. CASE Catch(w)
        BY <2>22 DEF Types, Catch, SetStatus, Goto, HolderInv
  <2> QED BY <1>6, <2>1, <2>2, <2>3, <2>4, <2>5, <2>6, <2>7, <2>8, <2>9,
            <2>10, <2>11, <2>12, <2>13, <2>14, <2>15, <2>16, <2>17, <2>18,
            <2>19, <2>20, <2>21, <2>22 DEF Step
<1>7. CASE UNCHANGED vars
      BY <1>7 DEF Types, vars
<1> QED BY <1>1, <1>2, <1>3, <1>4, <1>5, <1>6, <1>7 DEF Next, Ended

-----------------------------------------------------------------------------
(* What a step of a worker leaves alone                                    *)

\* A step of one worker changes neither the place of another one nor its
\* session and transaction.
LEMMA OtherWorkers ==
    ASSUME Types, NEW w \in Workers, NEW v \in Workers, v # w, Step(w)
    PROVE  /\ pc'[v] = pc[v] /\ held'[v] = held[v]
           /\ session'[v] = session[v] /\ trans'[v] = trans[v] /\ temp'[v] = temp[v]
           /\ rollback'[v] = rollback[v] /\ exitSqls'[v] = exitSqls[v]
           /\ failing'[v] = failing[v]
           /\ todo'[v] = todo[v] /\ executed'[v] = executed[v]
           /\ undropped \subseteq undropped'
<1> USE DEF Types, queueVars, jobVars, sessionVars, txVars, dbVars, Goto, Leave
<1>1. CASE PopNoWait(w) \/ PopWait(w) \/ StartJob(w) \/ Reconnect(w)
      BY <1>1 DEF PopNoWait, PopWait, StartJob, Reconnect, Take, Close
<1>2. CASE Open(w) \/ Begin(w) \/ BeginLost(w) \/ CreateTempTable(w) \/ Prepare(w)
      BY <1>2 DEF Open, Begin, BeginLost, CreateTempTable, Prepare
<1>3. CASE PullFeature(w) \/ IgnoreFeature(w) \/ StartSync(w) \/ SyncStatement(w)
      BY <1>3 DEF PullFeature, IgnoreFeature, StartSync, SyncStatement
<1>4. CASE StatementFails(w) \/ ClientFails(w) \/ LostInTransaction(w) \/ Finish(w)
      BY <1>4 DEF StatementFails, ClientFails, LostInTransaction, Finish
<1>5. CASE EndTransaction(w) \/ CommitRefused(w) \/ RunExitSqls(w)
              \/ ExitSqlsLost(w) \/ Catch(w)
      BY <1>5 DEF EndTransaction, CommitRefused, RunExitSqls, ExitSqlsLost, Catch
<1> QED BY <1>1, <1>2, <1>3, <1>4, <1>5 DEF Step

\* A step of a worker changes no job but its own.
LEMMA OtherJobs ==
    ASSUME Types, NEW w \in Workers, NEW j \in Jobs, j # held[w], Step(w)
    PROVE  /\ status'[j] = status[j] /\ target'[j] = target[j]
           /\ planned'[j] = planned[j] /\ (j \in ignored' <=> j \in ignored)
<1> USE DEF Types, jobVars, SetStatus
<1>1. CASE PopNoWait(w) \/ PopWait(w) \/ StartJob(w) \/ Reconnect(w)
      BY <1>1 DEF PopNoWait, PopWait, StartJob, Reconnect
<1>2. CASE Open(w) \/ Begin(w) \/ BeginLost(w) \/ CreateTempTable(w) \/ Prepare(w)
      BY <1>2 DEF Open, Begin, BeginLost, CreateTempTable, Prepare
<1>3. CASE PullFeature(w) \/ IgnoreFeature(w) \/ StartSync(w) \/ SyncStatement(w)
      BY <1>3 DEF PullFeature, IgnoreFeature, StartSync, SyncStatement
<1>4. CASE StatementFails(w) \/ ClientFails(w) \/ LostInTransaction(w) \/ Finish(w)
      BY <1>4 DEF StatementFails, ClientFails, LostInTransaction, Finish
<1>5. CASE EndTransaction(w) \/ CommitRefused(w) \/ RunExitSqls(w)
              \/ ExitSqlsLost(w) \/ Catch(w)
      BY <1>5 DEF EndTransaction, CommitRefused, RunExitSqls, ExitSqlsLost, Catch
<1> QED BY <1>1, <1>2, <1>3, <1>4, <1>5 DEF Step

-----------------------------------------------------------------------------
(* Who has a job                                                           *)

\* A step of a worker that is not a pop takes no job: the worker keeps its
\* job or ends it.
LEMMA KeepsOrEnds ==
    ASSUME Types, HolderInv, NEW w \in Workers, Step(w),
           ~ PopNoWait(w), ~ PopWait(w)
    PROVE  /\ queue' = queue
           /\ pc[w] \notin {"idle", "wait", "done"}
           /\ \/ held'[w] = held[w] /\ pc'[w] \notin {"idle", "wait", "done"}
              \/ held'[w] = NoJob /\ pc'[w] = "idle"
<1> USE DEF Types, HolderInv, InTransaction, queueVars, jobVars, sessionVars,
            txVars, dbVars, Goto, Leave
<1>1. CASE StartJob(w) \/ Reconnect(w) \/ Open(w) \/ Begin(w) \/ BeginLost(w)
      BY <1>1 DEF StartJob, Reconnect, Open, Begin, BeginLost
<1>2. CASE CreateTempTable(w) \/ Prepare(w) \/ PullFeature(w) \/ IgnoreFeature(w)
      BY <1>2 DEF CreateTempTable, Prepare, PullFeature, IgnoreFeature
<1>3. CASE StartSync(w) \/ SyncStatement(w) \/ StatementFails(w) \/ ClientFails(w)
      BY <1>3 DEF StartSync, SyncStatement, StatementFails, ClientFails
<1>4. CASE LostInTransaction(w) \/ Finish(w) \/ EndTransaction(w) \/ CommitRefused(w)
      BY <1>4 DEF LostInTransaction, Finish, EndTransaction, CommitRefused
<1>5. CASE RunExitSqls(w) \/ ExitSqlsLost(w) \/ Catch(w)
      BY <1>5 DEF RunExitSqls, ExitSqlsLost, Catch
<1> QED BY <1>1, <1>2, <1>3, <1>4, <1>5 DEF Step

\* A pop takes the front job or none.
LEMMA PopTakes ==
    ASSUME Types, HolderInv, NEW w \in Workers, PopNoWait(w) \/ PopWait(w)
    PROVE  /\ held[w] = NoJob
           /\ UNCHANGED jobVars
           /\ \/ /\ queue # <<>>
                 /\ held' = [held EXCEPT ![w] = Head(queue)]
                 /\ queue' = Tail(queue)
                 /\ pc' = [pc EXCEPT ![w] = "start"]
              \/ /\ UNCHANGED <<queue, held>>
                 /\ pc'[w] \in {"wait", "done"}
BY DEF PopNoWait, PopWait, Goto, Take, Types, HolderInv

LEMMA HolderStep ==
    ASSUME Types, HolderInv, [Next]_vars
    PROVE  HolderInv'
<1>1. ASSUME NEW w \in Workers, Step(w) PROVE HolderInv'
  <2>1. held'[w] = NoJob <=> pc'[w] \in {"idle", "wait", "done"}
    <3>1. CASE PopNoWait(w) \/ PopWait(w)
          BY <3>1, PopTakes, TakeQueue, JobsAssumption DEF Types, HolderInv
    <3>2. CASE ~ PopNoWait(w) /\ ~ PopWait(w)
          BY <1>1, <3>2, KeepsOrEnds, HolderHasJob, JobsAssumption
    <3> QED BY <3>1, <3>2
  <2>2. ASSUME NEW v \in Workers, v # w
        PROVE  held'[v] = NoJob <=> pc'[v] \in {"idle", "wait", "done"}
        BY <1>1, <2>2, OtherWorkers DEF HolderInv
  <2> QED BY <2>1, <2>2 DEF HolderInv
<1>2. CASE UNCHANGED <<pc, held>>
      BY <1>2 DEF HolderInv
<1> QED BY <1>1, <1>2 DEF Next, Push, Quit, SessionEnds, DbDown, DbUp,
                          LoseSessions, Ended, vars

LEMMA ExclusiveStep ==
    ASSUME Types, HolderInv, ExclusiveInv, StatusInv, [Next]_vars
    PROVE  ExclusiveInv'
<1>1. ASSUME NEW j \in Jobs, Push(j) PROVE ExclusiveInv'
  <2>1. /\ Len(queue) \in Nat
        /\ Len(queue') = Len(queue) + 1
        /\ queue'[Len(queue) + 1] = j
        /\ \A n \in 1 .. Len(queue) : queue'[n] = queue[n]
        BY <1>1 DEF Push, Types
  <2>2. UNCHANGED <<held, status>> /\ status[j] = "queued"
        BY <1>1 DEF Push, jobVars
  <2>3. /\ \A n \in 1 .. Len(queue) : queue[n] # j
        /\ \A w \in Workers : held[w] # j
        BY <1>1 DEF Push
  <2> QED BY <2>1, <2>2, <2>3 DEF ExclusiveInv
<1>2. ASSUME NEW w \in Workers, Step(w) PROVE ExclusiveInv'
  <2>1. CASE PopNoWait(w) \/ PopWait(w)
    <3>1. UNCHANGED status
          BY <2>1, PopTakes DEF jobVars
    <3>2. CASE UNCHANGED <<queue, held>>
          BY <3>1, <3>2 DEF ExclusiveInv
    <3>3. CASE /\ queue # <<>>
               /\ held' = [held EXCEPT ![w] = Head(queue)]
               /\ queue' = Tail(queue)
      <4>1. /\ Head(queue) \in Jobs
            /\ Head(queue) = queue[1]
            /\ Len(queue) \in Nat \ {0}
            /\ Len(queue') = Len(queue) - 1
            /\ \A n \in 1 .. Len(queue') : queue'[n] = queue[n + 1]
            BY <3>3, TakeQueue DEF Types
      <4>2. held'[w] = queue[1] /\ \A v \in Workers : v # w => held'[v] = held[v]
            BY <3>3, <4>1 DEF Types
      <4>3. \A u, v \in Workers : held'[u] = held'[v] /\ held'[u] # NoJob => u = v
            BY <4>1, <4>2 DEF ExclusiveInv
      <4>4. \A m, n \in 1 .. Len(queue') : queue'[m] = queue'[n] => m = n
            BY <4>1 DEF ExclusiveInv
      <4>5. \A n \in 1 .. Len(queue') :
               /\ status'[queue'[n]] = "queued"
               /\ \A v \in Workers : held'[v] # queue'[n]
            BY <3>1, <4>1, <4>2 DEF ExclusiveInv
      <4> QED BY <4>3, <4>4, <4>5 DEF ExclusiveInv
    <3> QED BY <2>1, <3>2, <3>3, PopTakes
  <2>2. CASE ~ PopNoWait(w) /\ ~ PopWait(w)
    <3>1. /\ queue' = queue
          /\ held'[w] \in {held[w], NoJob}
          /\ held[w] \in Jobs
          BY <1>2, <2>2, KeepsOrEnds, HolderHasJob
    <3>2. \A v \in Workers : v # w => held'[v] = held[v]
          BY <1>2, OtherWorkers
    <3>3. \A n \in 1 .. Len(queue) : queue[n] \in Jobs /\ queue[n] # held[w]
          BY DEF ExclusiveInv, Types
    <3>4. \A n \in 1 .. Len(queue) : status'[queue[n]] = status[queue[n]]
          BY <1>2, <3>3, OtherJobs
    <3>5. \A n \in 1 .. Len(queue), v \in Workers : held'[v] # queue[n]
          BY <3>1, <3>2, <3>3, JobsAssumption DEF ExclusiveInv
    <3> QED BY <3>1, <3>2, <3>4, <3>5 DEF ExclusiveInv
  <2> QED BY <2>1, <2>2
<1>3. CASE UNCHANGED <<queue, held, status>>
      BY <1>3 DEF ExclusiveInv
<1> QED BY <1>1, <1>2, <1>3 DEF Next, Quit, SessionEnds, DbDown, DbUp,
                          LoseSessions, Ended, vars, queueVars, jobVars

-----------------------------------------------------------------------------
(* The status of a job and what is stored of it                            *)

\* A step of a worker keeps StatusOf for itself.
LEMMA OwnStatus ==
    ASSUME Types, HolderInv, ExclusiveInv, StatusInv, StatementsInv,
           NEW w \in Workers, Step(w)
    PROVE  StatusOf(w)'
<1> USE DEF Types, InTransaction, queueVars, jobVars, sessionVars, txVars,
            dbVars, Goto, Leave, SetStatus, StatusOf
<1>0. StatusOf(w)
      BY DEF StatusInv
<1>1. CASE PopNoWait(w) \/ PopWait(w)
  <2>1. CASE pc'[w] \in {"wait", "done"}
        BY <2>1
  <2>2. CASE /\ queue # <<>>
             /\ held' = [held EXCEPT ![w] = Head(queue)]
             /\ pc' = [pc EXCEPT ![w] = "start"]
    <3>1. held'[w] = queue[1] /\ pc'[w] = "start" /\ UNCHANGED <<status, target>>
      <4>1. UNCHANGED <<status, target>>
            BY <1>1, PopTakes
      <4>2. Head(queue) = queue[1]
            BY <2>2, TakeQueue
      <4> QED BY <2>2, <4>1, <4>2
    <3>2. queue[1] \in Jobs /\ status[queue[1]] = "queued"
          BY <2>2, TakeQueue DEF ExclusiveInv
    <3> QED BY <3>1, <3>2 DEF StatusInv
  <2> QED BY <1>1, <2>1, <2>2, PopTakes
<1>2. CASE ~ PopNoWait(w) /\ ~ PopWait(w)
  <2>1. held[w] \in Jobs
        BY <1>2, KeepsOrEnds, HolderHasJob
  <2>2. CASE StartJob(w) \/ Reconnect(w) \/ Open(w) \/ Begin(w) \/ BeginLost(w)
        BY <1>0, <2>1, <2>2 DEF StartJob, Reconnect, Open, Begin, BeginLost
  <2>3. CASE CreateTempTable(w) \/ Prepare(w) \/ PullFeature(w) \/ IgnoreFeature(w)
        BY <1>0, <2>1, <2>3 DEF CreateTempTable, Prepare, PullFeature, IgnoreFeature
  <2>4. CASE StartSync(w) \/ SyncStatement(w) \/ StatementFails(w) \/ ClientFails(w)
        BY <1>0, <2>1, <2>4 DEF StartSync, SyncStatement, StatementFails, ClientFails
  <2>5. CASE LostInTransaction(w) \/ CommitRefused(w)
        BY <1>0, <2>1, <2>5 DEF LostInTransaction, CommitRefused
  <2>6. CASE Finish(w)
        BY <1>0, <2>1, <2>6 DEF Finish, StatementsInv, StatementsOf
  <2>7. CASE EndTransaction(w)
        BY <1>0, <2>1, <2>7 DEF EndTransaction, Committing, StatementsInv, StatementsOf
  <2>8. CASE RunExitSqls(w) \/ ExitSqlsLost(w) \/ Catch(w)
        BY <1>0, <2>1, <2>8 DEF RunExitSqls, ExitSqlsLost, Catch
  <2> QED BY <1>2, <2>2, <2>3, <2>4, <2>5, <2>6, <2>7, <2>8 DEF Step
<1> QED BY <1>1, <1>2

\* No step of a worker puts a job back.
LEMMA StillQueued ==
    ASSUME Types, NEW w \in Workers, Step(w), NEW j \in Jobs, status'[j] = "queued"
    PROVE  status[j] = "queued"
<1>1. CASE UNCHANGED status
      BY <1>1
<1>2. CASE \E s \in {"in_process", "finished", "failed"} : SetStatus(w, s)
      BY <1>2 DEF SetStatus, Types
<1> QED BY <1>1, <1>2 DEF Step, PopNoWait, PopWait, StartJob, Reconnect, Open,
            Begin, BeginLost, CreateTempTable, Prepare, PullFeature,
            IgnoreFeature, StartSync, SyncStatement, StatementFails,
            ClientFails, LostInTransaction, Finish, EndTransaction,
            CommitRefused, RunExitSqls, ExitSqlsLost, Catch, jobVars

\* Only the end of a transaction changes what is stored.
LEMMA TargetKept ==
    ASSUME NEW w \in Workers, Step(w), ~ EndTransaction(w)
    PROVE  UNCHANGED target
BY DEF Step, PopNoWait, PopWait, StartJob, Reconnect, Open, Begin, BeginLost,
       CreateTempTable, Prepare, PullFeature, IgnoreFeature, StartSync,
       SyncStatement, StatementFails, ClientFails, LostInTransaction, Finish,
       CommitRefused, RunExitSqls, ExitSqlsLost, Catch, jobVars

LEMMA StatusStep ==
    ASSUME Types, HolderInv, ExclusiveInv, StatusInv, StatementsInv, [Next]_vars
    PROVE  StatusInv'
<1>1. ASSUME NEW w \in Workers, Step(w) PROVE StatusInv'
  <2>1. ASSUME NEW v \in Workers, v # w PROVE StatusOf(v)'
    <3>1. CASE held[v] = NoJob
          BY <1>1, <2>1, <3>1, OtherWorkers DEF HolderInv, StatusOf, InTransaction
    <3>2. CASE held[v] # NoJob
      <4>1. held[v] \in Jobs /\ held[v] # held[w]
            BY <2>1, <3>2 DEF ExclusiveInv, Types
      <4>2. StatusOf(v)
            BY DEF StatusInv
      <4> QED BY <1>1, <2>1, <4>1, <4>2, OtherWorkers, OtherJobs DEF StatusOf
    <3> QED BY <3>1, <3>2
  <2>2. ASSUME NEW j \in Jobs, status'[j] = "queued" PROVE target'[j] = 0
    <3>1. status[j] = "queued" /\ target[j] = 0
          BY <1>1, <2>2, StillQueued DEF StatusInv
    <3>2. CASE EndTransaction(w)
          BY <2>2, <3>1, <3>2, HolderHasJob
             DEF EndTransaction, Goto, StatusInv, StatusOf, Types
    <3>3. CASE ~ EndTransaction(w)
          BY <1>1, <3>1, <3>3, TargetKept
    <3> QED BY <3>2, <3>3
  <2> QED BY <1>1, <2>1, <2>2, OwnStatus DEF StatusInv
<1>2. CASE UNCHANGED <<pc, held, failing, status, target>>
      BY <1>2 DEF StatusInv, StatusOf
<1> QED BY <1>1, <1>2 DEF Next, Push, Quit, SessionEnds, DbDown, DbUp,
                          LoseSessions, Ended, vars, jobVars, txVars

-----------------------------------------------------------------------------
(* The statements of a job                                                 *)

\* The numbers of statements are numbers.
LEMMA CountTypes ==
    ASSUME Types, NEW w \in Workers
    PROVE  todo[w] \in Nat /\ executed[w] \in Nat
<1>1. todo[w] \in 0 .. 3 /\ executed[w] \in 0 .. 3
      BY DEF Types
<1> QED BY <1>1

\* A step of a worker keeps StatementsOf for itself.
LEMMA OwnStatements ==
    ASSUME Types, HolderInv, StatementsInv, NEW w \in Workers, Step(w)
    PROVE  StatementsOf(w)'
<1> USE DEF Types, InTransaction, queueVars, jobVars, sessionVars, txVars,
            dbVars, Goto, Leave, StatementsOf
<1>0. StatementsOf(w)
      BY DEF StatementsInv
<1>1. CASE PopNoWait(w) \/ PopWait(w)
      BY <1>1 DEF PopNoWait, PopWait
<1>2. CASE StartJob(w) \/ Reconnect(w) \/ Open(w) \/ BeginLost(w) \/ Catch(w)
      BY <1>2 DEF StartJob, Reconnect, Open, BeginLost, Catch
<1>3. CASE Begin(w)
      BY <1>3 DEF Begin
<1>4. CASE CreateTempTable(w) \/ Prepare(w) \/ PullFeature(w)
      BY <1>0, <1>4 DEF CreateTempTable, Prepare, PullFeature
<1>5. CASE IgnoreFeature(w)
      BY <1>0, <1>5 DEF IgnoreFeature
<1>6. CASE StartSync(w)
  <2>1. /\ pc[w] \in {"features", "setup"}
        /\ pc' = [pc EXCEPT ![w] = "sync"]
        BY <1>6 DEF StartSync
  <2>2. held[w] \in Jobs
        BY <2>1, HolderHasJob
  <2>3. todo'[w] = planned'[held[w]] /\ todo'[w] \in Nat
        BY <1>6, <2>2 DEF StartSync, Plans
  <2> QED BY <1>0, <1>6, <2>1, <2>3 DEF StartSync
<1>7. CASE SyncStatement(w)
  <2>1. todo[w] \in Nat /\ executed[w] \in Nat
        BY CountTypes
  <2>2. /\ todo'[w] = todo[w] - 1 /\ executed'[w] = executed[w] + 1
        /\ UNCHANGED <<pc, held, planned, ignored, trans, rollback, failing>>
        /\ pc[w] = "sync"
        BY <1>7 DEF SyncStatement
  <2>3. executed'[w] + todo'[w] = planned[held[w]]
        BY <1>0, <2>1, <2>2
  <2> QED BY <1>0, <2>2, <2>3
<1>8. CASE StatementFails(w) \/ ClientFails(w)
      BY <1>0, <1>8 DEF StatementFails, ClientFails
<1>9. CASE LostInTransaction(w) \/ CommitRefused(w)
      BY <1>0, <1>9 DEF LostInTransaction, CommitRefused
<1>10. CASE Finish(w)
  <2>1. todo[w] = 0 /\ executed[w] + todo[w] = planned[held[w]]
        BY <1>0, <1>10 DEF Finish
  <2>2. planned[held[w]] = executed[w]
        BY <2>1, CountTypes
  <2> QED BY <1>0, <1>10, <2>2 DEF Finish
<1>11. CASE EndTransaction(w)
      BY <1>0, <1>11, HolderHasJob DEF EndTransaction, Committing
<1>12. CASE RunExitSqls(w) \/ ExitSqlsLost(w)
      BY <1>0, <1>12 DEF RunExitSqls, ExitSqlsLost
<1> QED BY <1>1, <1>2, <1>3, <1>4, <1>5, <1>6, <1>7, <1>8, <1>9, <1>10, <1>11,
           <1>12 DEF Step

LEMMA StatementsStep ==
    ASSUME Types, HolderInv, ExclusiveInv, StatementsInv, [Next]_vars
    PROVE  StatementsInv'
<1>1. ASSUME NEW w \in Workers, Step(w) PROVE StatementsInv'
  <2>1. ASSUME NEW v \in Workers, v # w PROVE StatementsOf(v)'
    <3>1. CASE held[v] = NoJob
          BY <1>1, <2>1, <3>1, OtherWorkers DEF HolderInv, StatementsOf, InTransaction
    <3>2. CASE held[v] # NoJob
      <4>1. held[v] \in Jobs /\ held[v] # held[w]
            BY <2>1, <3>2 DEF ExclusiveInv, Types
      <4>2. StatementsOf(v)
            BY DEF StatementsInv
      <4> QED BY <1>1, <2>1, <4>1, <4>2, OtherWorkers, OtherJobs DEF StatementsOf
    <3> QED BY <3>1, <3>2
  <2> QED BY <1>1, <2>1, OwnStatements DEF StatementsInv
<1>2. CASE /\ UNCHANGED <<pc, held, jobVars, txVars>>
           /\ \A w \in Workers : trans'[w] \in {trans[w], "idle"}
      BY <1>2 DEF StatementsInv, StatementsOf, jobVars, txVars
<1>3. ASSUME NEW W, LoseSessions(W) PROVE StatementsInv'
      BY <1>2, <1>3 DEF LoseSessions, Types
<1> QED BY <1>1, <1>2, <1>3 DEF Next, Push, Quit, SessionEnds, DbDown, DbUp,
                          Ended, vars, sessionVars

-----------------------------------------------------------------------------
(* Sessions                                                                *)

\* A step of a worker keeps SessionOf for itself.
LEMMA OwnSession ==
    ASSUME Types, SessionInv, NEW w \in Workers, Step(w)
    PROVE  SessionOf(w)'
<1> USE DEF Types, InTransaction, queueVars, jobVars, sessionVars, txVars,
            dbVars, Goto, Leave, SessionOf
<1>0. SessionOf(w)
      BY DEF SessionInv
<1>1. CASE PopNoWait(w) \/ PopWait(w)
      BY <1>0, <1>1 DEF PopNoWait, PopWait, Close
<1>2. CASE StartJob(w) \/ Open(w) \/ BeginLost(w) \/ Catch(w)
      BY <1>0, <1>2 DEF StartJob, Open, BeginLost, Catch
<1>3. CASE Reconnect(w)
      BY <1>0, <1>3 DEF Reconnect
<1>4. CASE Begin(w)
      BY <1>0, <1>4 DEF Begin
<1>5. CASE CreateTempTable(w) \/ Prepare(w)
      BY <1>0, <1>5 DEF CreateTempTable, Prepare
<1>6. CASE PullFeature(w) \/ IgnoreFeature(w) \/ StartSync(w) \/ SyncStatement(w)
      BY <1>0, <1>6 DEF PullFeature, IgnoreFeature, StartSync, SyncStatement
<1>7. CASE StatementFails(w)
      BY <1>0, <1>7 DEF StatementFails
<1>8. CASE ClientFails(w) \/ LostInTransaction(w) \/ Finish(w)
      BY <1>0, <1>8 DEF ClientFails, LostInTransaction, Finish
<1>9. CASE EndTransaction(w)
      BY <1>0, <1>9 DEF EndTransaction
<1>10. CASE CommitRefused(w)
      BY <1>0, <1>10 DEF CommitRefused
<1>11. CASE RunExitSqls(w)
      BY <1>0, <1>11 DEF RunExitSqls
<1>12. CASE ExitSqlsLost(w)
      BY <1>0, <1>12 DEF ExitSqlsLost
<1> QED BY <1>1, <1>2, <1>3, <1>4, <1>5, <1>6, <1>7, <1>8, <1>9, <1>10, <1>11,
           <1>12 DEF Step

LEMMA SessionStep ==
    ASSUME Types, SessionInv, [Next]_vars
    PROVE  SessionInv'
<1>1. ASSUME NEW w \in Workers, Step(w) PROVE SessionInv'
  <2>1. ASSUME NEW v \in Workers, v # w PROVE SessionOf(v)'
        BY <1>1, <2>1, OtherWorkers DEF SessionInv, SessionOf
  <2> QED BY <1>1, <2>1, OwnSession DEF SessionInv
<1>2. CASE UNCHANGED <<pc, session, trans, temp, exitSqls, undropped>>
      BY <1>2 DEF SessionInv, SessionOf
<1>3. ASSUME NEW W, LoseSessions(W) PROVE SessionInv'
      BY <1>3 DEF LoseSessions, SessionInv, SessionOf, Types, txVars
<1> QED BY <1>1, <1>2, <1>3 DEF Next, Push, Quit, SessionEnds, DbDown, DbUp,
                          Ended, vars, sessionVars, txVars, dbVars

-----------------------------------------------------------------------------
(* What reaches the target table                                           *)

\* The end of a transaction stores all statements of the job or none.
LEMMA EndStoresAll ==
    ASSUME Types, HolderInv, StatusInv, StatementsInv,
           NEW w \in Workers, EndTransaction(w)
    PROVE  /\ held[w] \in Jobs
           /\ target[held[w]] = 0
           /\ UNCHANGED <<status, planned>>
           /\ \/ UNCHANGED target
              \/ /\ target' = [target EXCEPT ![held[w]] = planned[held[w]]]
                 /\ status[held[w]] = "finished"
              \/ target' = [target EXCEPT ![held[w]] = 0]
<1>1. pc[w] = "end"
      BY DEF EndTransaction, Goto
<1>2. held[w] \in Jobs
      BY <1>1, HolderHasJob
<1>3. /\ target[held[w]] = 0
      /\ status[held[w]] = IF failing[w] THEN "in_process" ELSE "finished"
      BY <1>1 DEF StatusInv, StatusOf
<1>4. ASSUME Committing(w)
      PROVE  executed[w] = IF failing[w] THEN 0 ELSE planned[held[w]]
      BY <1>1, <1>4 DEF StatementsInv, StatementsOf, Committing
<1> QED BY <1>2, <1>3, <1>4 DEF EndTransaction

LEMMA AllOrNothingStep ==
    ASSUME Types, HolderInv, StatusInv, StatementsInv, AllOrNothing, [Next]_vars
    PROVE  AllOrNothing'
<1>1. ASSUME NEW w \in Workers, Step(w), NEW j \in Jobs
      PROVE  target'[j] \in {0, planned'[j]}
  <2>1. CASE j # held[w]
        BY <1>1, <2>1, OtherJobs DEF AllOrNothing
  <2>2. CASE j = held[w] /\ EndTransaction(w)
    <3>1. target[j] = 0 /\ UNCHANGED planned
          BY <2>2, EndStoresAll
    <3>2. \/ UNCHANGED target
          \/ target' = [target EXCEPT ![j] = planned[j]]
          \/ target' = [target EXCEPT ![j] = 0]
          BY <2>2, EndStoresAll
    <3> QED BY <3>1, <3>2 DEF Types
  <2>3. CASE j = held[w] /\ StartSync(w)
    <3>1. pc[w] \in {"features", "setup"} /\ UNCHANGED target
          BY <2>3 DEF StartSync, Goto
    <3> QED BY <2>3, <3>1 DEF StatusInv, StatusOf
  <2>4. CASE ~ EndTransaction(w) /\ ~ StartSync(w)
    <3>1. UNCHANGED <<target, planned>>
          BY <1>1, <2>4 DEF Step, PopNoWait, PopWait, StartJob, Reconnect, Open,
             Begin, BeginLost, CreateTempTable, Prepare, PullFeature,
             IgnoreFeature, SyncStatement, StatementFails, ClientFails,
             LostInTransaction, Finish, CommitRefused, RunExitSqls,
             ExitSqlsLost, Catch, jobVars
    <3> QED BY <3>1 DEF AllOrNothing
  <2> QED BY <2>1, <2>2, <2>3, <2>4
<1>2. CASE UNCHANGED <<target, planned>>
      BY <1>2 DEF AllOrNothing
<1> QED BY <1>1, <1>2 DEF AllOrNothing, Next, Push, Quit, SessionEnds, DbDown,
                          DbUp, LoseSessions, Ended, vars, jobVars

LEMMA FinishedIsCommittedStep ==
    ASSUME Types, HolderInv, StatementsInv, FinishedIsCommitted, [Next]_vars
    PROVE  FinishedIsCommitted'
<1>1. ASSUME NEW w \in Workers, Step(w), NEW j \in Jobs, status'[j] = "finished",
             j \notin ignored', \A v \in Workers : held'[v] # j
      PROVE  target'[j] = planned'[j]
  <2>1. CASE j # held[w]
    <3>1. \A v \in Workers : held[v] # j
          BY <1>1, <2>1, OtherWorkers
    <3> QED BY <1>1, <2>1, <3>1, OtherJobs DEF FinishedIsCommitted
  <2>2. CASE j = held[w]
    <3>1. ~ PopNoWait(w) /\ ~ PopWait(w)
          BY <2>2, PopTakes, JobsAssumption
    <3>2. held'[w] = NoJob /\ pc'[w] = "idle"
          BY <1>1, <2>2, <3>1, KeepsOrEnds
    <3>3. ~ Catch(w)
          BY <1>1, <2>2 DEF Catch, SetStatus, Types
    <3>4. held' # held
          BY <2>2, <3>2, JobsAssumption
    <3>5. RunExitSqls(w) \/ ExitSqlsLost(w)
          BY <1>1, <3>1, <3>3, <3>4 DEF Step, StartJob, Reconnect, Open,
             Begin, BeginLost, CreateTempTable, Prepare, PullFeature,
             IgnoreFeature, StartSync, SyncStatement, StatementFails,
             ClientFails, LostInTransaction, Finish, EndTransaction, CommitRefused
    <3>6. pc[w] = "exit" /\ ~ failing[w] /\ UNCHANGED jobVars
          BY <3>4, <3>5 DEF RunExitSqls, ExitSqlsLost, Leave
    <3> QED BY <1>1, <2>2, <3>6 DEF StatementsInv, StatementsOf, jobVars
  <2> QED BY <2>1, <2>2
<1>2. CASE UNCHANGED <<held, jobVars>>
      BY <1>2 DEF FinishedIsCommitted, jobVars
<1> QED BY <1>1, <1>2 DEF FinishedIsCommitted, Next, Push, Quit, SessionEnds,
                          DbDown, DbUp, LoseSessions, Ended, vars

-----------------------------------------------------------------------------
(* The theorems                                                            *)

LEMMA InitWorkerInv == Init => WorkerInv
<1> SUFFICES ASSUME Init PROVE WorkerInv
    OBVIOUS
<1>1. Types
  <2>1. /\ pulled \in [Workers -> 0 .. MaxFeatures]
        /\ todo \in [Workers -> 0 .. 3] /\ executed \in [Workers -> 0 .. 3]
        /\ target \in [Jobs -> 0 .. 3] /\ planned \in [Jobs -> 0 .. 3]
        /\ outages \in 0 .. MaxOutages
        BY OptionsAssumption DEF Init
  <2>2. /\ continue_ \in BOOLEAN /\ dbUp \in BOOLEAN /\ terminated \in BOOLEAN
        /\ session \in [Workers -> BOOLEAN] /\ rollback \in [Workers -> BOOLEAN]
        /\ failing \in [Workers -> BOOLEAN]
        BY DEF Init
  <2> QED BY <2>1, <2>2 DEF Init, Types
<1>2. HolderInv /\ ExclusiveInv
      BY DEF Init, HolderInv, ExclusiveInv
<1>3. StatusInv /\ StatementsInv /\ SessionInv
      BY DEF Init, StatusInv, StatusOf, StatementsInv, StatementsOf, SessionInv,
             SessionOf, InTransaction
<1>4. AllOrNothing /\ FinishedIsCommitted
      BY DEF Init, AllOrNothing, FinishedIsCommitted
<1> QED BY <1>1, <1>2, <1>3, <1>4 DEF WorkerInv

\* The inductive invariant of the workers: types, who has which job, and what
\* the place of a worker says about its job, transaction and session.
THEOREM WorkerInvariant == Spec => []WorkerInv
<1>1. WorkerInv /\ [Next]_vars => WorkerInv'
      BY TypeStep, HolderStep, ExclusiveStep, StatusStep, StatementsStep,
         SessionStep, AllOrNothingStep, FinishedIsCommittedStep DEF WorkerInv
<1> QED BY InitWorkerInv, <1>1, PTL DEF Spec

\* The state of the workers, connections and transactions keeps its types, and
\* a worker holds a job exactly while it works on one.
THEOREM WorkerTypeCorrect == Spec => []TypeOK
<1>1. WorkerInv => TypeOK
      BY DEF WorkerInv, TypeOK
<1> QED BY WorkerInvariant, <1>1, PTL

\* The statements of a job are committed together or not at all, for any
\* number of workers, jobs and losses of the database.
THEOREM StatementsAreAtomic == Spec => []AllOrNothing
<1>1. WorkerInv => AllOrNothing
      BY DEF WorkerInv
<1> QED BY WorkerInvariant, <1>1, PTL

\* A finished job without ignored features is committed once its worker has
\* left it, although Worker::run sets the status before the destructor of the
\* transaction decides between commit and rollback.
THEOREM FinishedMeansCommitted == Spec => []FinishedIsCommitted
<1>1. WorkerInv => FinishedIsCommitted
      BY DEF WorkerInv
<1> QED BY WorkerInvariant, <1>1, PTL

\* No transaction of a job is left in the session that the next job uses, and
\* no temporary table or prepared statement but those whose exit statement has
\* failed.
THEOREM SessionsAreClean == Spec => []SessionCleanBetweenJobs
<1>1. WorkerInv => SessionCleanBetweenJobs
      BY DEF WorkerInv, SessionInv, SessionOf, SessionCleanBetweenJobs, InTransaction
<1> QED BY WorkerInvariant, <1>1, PTL

-----------------------------------------------------------------------------
(* The life cycle of a job                                                 *)

\* The jobs of which something is stored.
Stored == {j \in Jobs : target[j] > 0}

\* A step that changes neither a status nor what is stored is a stutter.
LEMMA LifecycleStutter ==
    ASSUME UNCHANGED <<status, target>>
    PROVE  UNCHANGED Lifecycle!vars
BY DEF Lifecycle!vars

\* StartJob, Finish and Catch are the moves of the life cycle.
LEMMA LifecycleMove ==
    ASSUME Types, HolderInv, StatusInv, NEW w \in Workers,
           StartJob(w) \/ Finish(w) \/ Catch(w)
    PROVE  Lifecycle!Next
<1>1. held[w] \in Jobs
      BY HolderHasJob DEF StartJob, Finish, Catch, Goto
<1>2. UNCHANGED Stored
      BY DEF StartJob, Finish, Catch, Stored
<1>3. StatusOf(w)
      BY DEF StatusInv
<1>4. CASE StartJob(w)
  <2>1. Lifecycle!Start(held[w])
        BY <1>2, <1>3, <1>4 DEF StartJob, Goto, SetStatus, StatusOf,
           Lifecycle!Start, Lifecycle!Move, Stored
  <2> QED BY <1>1, <2>1 DEF Lifecycle!Next
<1>5. CASE Finish(w)
  <2>1. Lifecycle!Finish(held[w])
        BY <1>2, <1>3, <1>5 DEF Finish, Goto, SetStatus, StatusOf, InTransaction,
           Lifecycle!Finish, Lifecycle!Move, Stored
  <2> QED BY <1>1, <2>1 DEF Lifecycle!Next
<1>6. CASE Catch(w)
  <2>1. held[w] \notin Stored
        BY <1>3, <1>6 DEF Catch, Goto, StatusOf, Stored
  <2>2. Lifecycle!Fail(held[w])
        BY <1>2, <1>3, <1>6, <2>1 DEF Catch, Goto, SetStatus, StatusOf,
           Lifecycle!Fail, Lifecycle!Move, Stored
  <2> QED BY <1>1, <2>2 DEF Lifecycle!Next
<1> QED BY <1>4, <1>5, <1>6

\* The end of a transaction stores the job in one step, or nothing.
LEMMA LifecycleStore ==
    ASSUME Types, HolderInv, StatusInv, StatementsInv,
           NEW w \in Workers, EndTransaction(w)
    PROVE  Lifecycle!Next \/ UNCHANGED Lifecycle!vars
<1>1. /\ held[w] \in Jobs
      /\ target[held[w]] = 0
      /\ UNCHANGED status
      BY EndStoresAll
<1>2. planned[held[w]] \in 0 .. 3
      BY <1>1 DEF Types
<1>3. CASE /\ target' = [target EXCEPT ![held[w]] = planned[held[w]]]
           /\ status[held[w]] = "finished"
           /\ planned[held[w]] > 0
  <2>1. PICK j \in Jobs : j = held[w]
        BY <1>1
  <2>2. j \notin Stored
        BY <1>1, <2>1 DEF Stored
  <2>3. Stored' = Stored \cup {j}
        BY <1>1, <1>3, <2>1 DEF Stored, Types
  <2>4. Lifecycle!Store(j)
        BY <1>1, <1>3, <2>1, <2>2, <2>3 DEF Lifecycle!Store, Stored
  <2>5. Lifecycle!Next
        BY <2>4 DEF Lifecycle!Next
  <2> QED BY <2>5
<1>4. CASE UNCHANGED target \/ target' = [target EXCEPT ![held[w]] = 0]
  <2>1. UNCHANGED target
        BY <1>1, <1>4 DEF Types
  <2> QED BY <1>1, <2>1, LifecycleStutter
<1> QED BY <1>1, <1>2, <1>3, <1>4, EndStoresAll

\* Every step of the workers is a step of the life cycle or a stutter.
LEMMA LifecycleStep ==
    ASSUME WorkerInv, [Next]_vars
    PROVE  [Lifecycle!Next]_(Lifecycle!vars)
<1> USE DEF WorkerInv
<1>1. ASSUME NEW w \in Workers, Step(w)
      PROVE  Lifecycle!Next \/ UNCHANGED Lifecycle!vars
  <2>1. CASE StartJob(w) \/ Finish(w) \/ Catch(w)
        BY <2>1, LifecycleMove
  <2>2. CASE EndTransaction(w)
        BY <2>2, LifecycleStore
  <2>3. CASE /\ ~ (StartJob(w) \/ Finish(w) \/ Catch(w))
             /\ ~ EndTransaction(w)
    <3>1. UNCHANGED <<status, target>>
          BY <1>1, <2>3 DEF Step, PopNoWait, PopWait, Reconnect, Open,
             Begin, BeginLost, CreateTempTable, Prepare, PullFeature,
             IgnoreFeature, StartSync, SyncStatement, StatementFails,
             ClientFails, LostInTransaction, CommitRefused, RunExitSqls,
             ExitSqlsLost, jobVars
    <3> QED BY <3>1, LifecycleStutter
  <2> QED BY <2>1, <2>2, <2>3
<1>2. CASE UNCHANGED <<status, target>>
      BY <1>2, LifecycleStutter
<1> QED BY <1>1, <1>2 DEF Next, Push, Quit, SessionEnds, DbDown, DbUp,
                          LoseSessions, Ended, vars, jobVars

\* The workers with their transactions and a database that goes away implement
\* the life cycle that JobLifecycle promises to the clients: a job is executed
\* at most once, its changes appear in one step, and a failed job has none.
THEOREM WorkersImplementLifecycle == Spec => ImplementsLifecycle
<1>1. Init => Lifecycle!Init
      BY DEF Init, Lifecycle!Init
<1> QED BY <1>1, WorkerInvariant, LifecycleStep, PTL
           DEF Spec, ImplementsLifecycle, Lifecycle!Spec

=============================================================================
