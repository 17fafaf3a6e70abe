--------------------------- MODULE QuitableQueue ---------------------------
(***************************************************************************)
(* The job queue (quitablequeue.h) with its mutex, its condition variable  *)
(* and its continue_ flag, together with the threads that call it:         *)
(*   - producers: the HTTP handlers.  A handler pushes the one job it has  *)
(*     created, so a producer also stands for the item it pushes;          *)
(*   - consumers: the workers, which call popNoWait and, if that returned  *)
(*     nothing, popWait, until popWait returns nothing either;             *)
(*   - quitters: the callers of quit (Broker::stop).                       *)
(* A step ends where the code acquires the mutex, releases it, reads       *)
(* continue_ without it, or notifies.                                      *)
(***************************************************************************)
EXTENDS Naturals, Sequences, FiniteSets

CONSTANTS
    Producers,     \* pushing threads, and the items they push
    Consumers,     \* popping threads
    Quitters,      \* threads that call quit
    NoThread,      \* owner of the free mutex
    MaxSpurious    \* bound on spurious wakeups

Threads == Producers \cup Consumers \cup Quitters

ASSUME ThreadsAssumption ==
    /\ IsFiniteSet(Producers)
    /\ IsFiniteSet(Consumers)
    /\ Producers \cap Consumers = {}
    /\ Producers \cap Quitters = {}
    /\ Consumers \cap Quitters = {}
    /\ NoThread \notin Threads

ASSUME BoundAssumption == MaxSpurious \in Nat

VARIABLES
    queue_,     \* the queued items, front first
    continue_,  \* FALSE once quit was called
    mutex_,     \* the thread that owns the mutex, or NoThread
    pc,         \* where each thread is
    pushed,     \* history: all items, in the order of the pushes
    popped,     \* history: all items handed out, in the order of the pops
    spurious    \* spurious wakeups so far

vars == <<queue_, continue_, mutex_, pc, pushed, popped, spurious>>

Init ==
    /\ queue_ = <<>>
    /\ continue_ = TRUE
    /\ mutex_ = NoThread
    /\ pc = [t \in Threads |-> "idle"]
    /\ pushed = <<>>
    /\ popped = <<>>
    /\ spurious = 0

-----------------------------------------------------------------------------
(* The mutex and the condition variable.                                   *)

\* Construct mlock: go to label l as the owner of the mutex.
Lock(t, l) ==
    /\ mutex_ = NoThread
    /\ mutex_' = t
    /\ pc' = [pc EXCEPT ![t] = l]

\* Leave the critical section for label l.
Unlock(t, l) ==
    /\ mutex_' = NoThread
    /\ pc' = [pc EXCEPT ![t] = l]

\* The threads blocked in cond_.wait(mlock).
Waiting == {c \in Consumers : pc[c] = "waiting"}

\* Mutant of PopFront: the item is read but stays in the queue.
FrontWithoutPop ==
    /\ popped' = Append(popped, Head(queue_))
    /\ UNCHANGED queue_

\* item = queue_.front(); queue_.pop()
PopFront ==
    /\ queue_' = Tail(queue_)
    /\ popped' = Append(popped, Head(queue_))

-----------------------------------------------------------------------------
(* push                                                                    *)

PushLock(p) ==
    /\ pc[p] = "idle"
    /\ Lock(p, "push")
    /\ UNCHANGED <<queue_, continue_, pushed, popped, spurious>>

\* Mutant of PushAppend: an empty Job::Ptr is queued (item moved away).
PushEmptyItem(p) ==
    /\ pc[p] = "push"
    /\ queue_' = Append(queue_, NoThread)
    /\ pushed' = Append(pushed, NoThread)
    /\ Unlock(p, "notify")
    /\ UNCHANGED <<continue_, popped, spurious>>

PushAppend(p) ==
    /\ pc[p] = "push"
    /\ queue_' = Append(queue_, p)
    /\ pushed' = Append(pushed, p)
    /\ Unlock(p, "notify")
    /\ UNCHANGED <<continue_, popped, spurious>>

\* Mutant of PushNotify: notify only when the queue was empty before.
NotifyIfFirst(p) ==
    /\ pc[p] = "notify"
    /\ \/ /\ Waiting = {} \/ Len(queue_) # 1
          /\ pc' = [pc EXCEPT ![p] = "done"]
       \/ /\ Len(queue_) = 1
          /\ \E c \in Waiting :
                pc' = [pc EXCEPT ![p] = "done", ![c] = "waitlock"]
    /\ UNCHANGED <<queue_, continue_, mutex_, pushed, popped, spurious>>

\* notify_one, after the mutex was released.  The woken thread competes for
\* the mutex again; nothing happens when nobody waits.
PushNotify(p) ==
    /\ pc[p] = "notify"
    /\ \/ /\ Waiting = {}
          /\ pc' = [pc EXCEPT ![p] = "done"]
       \/ \E c \in Waiting :
             pc' = [pc EXCEPT ![p] = "done", ![c] = "waitlock"]
    /\ UNCHANGED <<queue_, continue_, mutex_, pushed, popped, spurious>>

-----------------------------------------------------------------------------
(* popNoWait                                                               *)

PopNoWaitLock(c) ==
    /\ pc[c] = "idle"
    /\ Lock(c, "popnowait")
    /\ UNCHANGED <<queue_, continue_, pushed, popped, spurious>>

\* Worker::run works on the item and comes back, or goes on to popWait.
PopNoWait(c) ==
    /\ pc[c] = "popnowait"
    /\ \/ /\ queue_ # <<>>
          /\ PopFront
          /\ Unlock(c, "idle")
       \/ /\ queue_ = <<>>
          /\ Unlock(c, "check")
          /\ UNCHANGED <<queue_, popped>>
    /\ UNCHANGED <<continue_, pushed, spurious>>

-----------------------------------------------------------------------------
(* popWait                                                                 *)

\* The first test of continue_ runs without the mutex: it may see the value
\* from before a concurrent quit, but never FALSE before there was a quit.
PopWaitCheck(c) ==
    /\ pc[c] = "check"
    /\ \/ /\ ~ continue_
          /\ pc' = [pc EXCEPT ![c] = "done"]
       \/ pc' = [pc EXCEPT ![c] = "waitlock"]
    /\ UNCHANGED <<queue_, continue_, mutex_, pushed, popped, spurious>>

\* Acquire the mutex, on entry or when cond_.wait returns.
PopWaitLock(c) ==
    /\ pc[c] = "waitlock"
    /\ Lock(c, "popwait")
    /\ UNCHANGED <<queue_, continue_, pushed, popped, spurious>>

\* Mutant of PopWait: "if" instead of "while", an empty queue after a
\* wakeup ends the call.
PopWaitOnce(c) ==
    /\ pc[c] = "popwait"
    /\ \/ /\ continue_
          /\ queue_ = <<>>
          /\ \/ Unlock(c, "waiting")
             \/ Unlock(c, "done")
          /\ UNCHANGED <<queue_, popped>>
       \/ /\ ~ continue_
          /\ Unlock(c, "done")
          /\ UNCHANGED <<queue_, popped>>
       \/ /\ continue_
          /\ queue_ # <<>>
          /\ PopFront
          /\ Unlock(c, "idle")
    /\ UNCHANGED <<continue_, pushed, spurious>>

\* Evaluate the loop condition: block (and release the mutex in the same
\* step), give up, or take the front item.
PopWait(c) ==
    /\ pc[c] = "popwait"
    /\ \/ /\ continue_
          /\ queue_ = <<>>
          /\ Unlock(c, "waiting")
          /\ UNCHANGED <<queue_, popped>>
       \/ /\ ~ continue_
          /\ Unlock(c, "done")
          /\ UNCHANGED <<queue_, popped>>
       \/ /\ continue_
          /\ queue_ # <<>>
          /\ PopFront
          /\ Unlock(c, "idle")
    /\ UNCHANGED <<continue_, pushed, spurious>>

\* A condition variable may wake up without a notification.
SpuriousWakeup(c) ==
    /\ pc[c] = "waiting"
    /\ spurious < MaxSpurious
    /\ spurious' = spurious + 1
    /\ pc' = [pc EXCEPT ![c] = "waitlock"]
    /\ UNCHANGED <<queue_, continue_, mutex_, pushed, popped>>

-----------------------------------------------------------------------------
(* quit                                                                    *)

QuitLock(q) ==
    /\ pc[q] = "idle"
    /\ Lock(q, "quit")
    /\ UNCHANGED <<queue_, continue_, pushed, popped, spurious>>

\* Mutant of Quit: notify_one instead of notify_all.
QuitNotifyOne(q) ==
    /\ pc[q] = "quit"
    /\ continue_' = FALSE
    /\ mutex_' = NoThread
    /\ \/ Waiting = {} /\ pc' = [pc EXCEPT ![q] = "done"]
       \/ \E c \in Waiting : pc' = [pc EXCEPT ![q] = "done", ![c] = "waitlock"]
    /\ UNCHANGED <<queue_, pushed, popped, spurious>>

\* notify_all runs inside the critical section.
Quit(q) ==
    /\ pc[q] = "quit"
    /\ continue_' = FALSE
    /\ mutex_' = NoThread
    /\ pc' = [t \in Threads |-> IF t = q THEN "done"
                               ELSE IF t \in Waiting THEN "waitlock" ELSE pc[t]]
    /\ UNCHANGED <<queue_, pushed, popped, spurious>>

-----------------------------------------------------------------------------

Producer(p) == PushLock(p) \/ PushAppend(p) \/ PushNotify(p)

Consumer(c) ==
    \/ PopNoWaitLock(c)
    \/ PopNoWait(c)
    \/ PopWaitCheck(c)
    \/ PopWaitLock(c)
    \/ PopWait(c)

Quitter(q) == QuitLock(q) \/ Quit(q)

Finished == \A t \in Threads : pc[t] = "done"

\* Every thread has returned: nothing is left to do.
Terminated == Finished /\ UNCHANGED vars

Next ==
    \/ \E p \in Producers : Producer(p)
    \/ \E c \in Consumers : Consumer(c) \/ SpuriousWakeup(c)
    \/ \E q \in Quitters : Quitter(q)
    \/ Terminated

Spec == Init /\ [][Next]_vars

\* Every thread that can run runs.  Nothing is assumed of the arrival of
\* requests, of the call of quit or of spurious wakeups: a push or a quit
\* that holds the mutex goes on, but it need not be started.
Fairness ==
    /\ \A p \in Producers : WF_vars(PushAppend(p) \/ PushNotify(p))
    /\ \A c \in Consumers : WF_vars(Consumer(c))
    /\ \A q \in Quitters : WF_vars(Quit(q))

FairSpec == Spec /\ Fairness

-----------------------------------------------------------------------------
(* Properties                                                              *)

ConsumerPCs == {"idle", "popnowait", "check", "waitlock", "popwait",
                "waiting", "done"}

TypeOK ==
    /\ queue_ \in Seq(Producers)
    /\ continue_ \in BOOLEAN
    /\ mutex_ \in Threads \cup {NoThread}
    /\ pc \in [Threads -> ConsumerPCs \cup {"push", "notify", "quit"}]
    /\ \A p \in Producers : pc[p] \in {"idle", "push", "notify", "done"}
    /\ \A c \in Consumers : pc[c] \in ConsumerPCs
    /\ \A q \in Quitters : pc[q] \in {"idle", "quit", "done"}
    /\ pushed \in Seq(Producers)
    /\ popped \in Seq(Producers)
    /\ spurious \in 0 .. MaxSpurious

\* Labels inside a critical section.
Critical == {"push", "popnowait", "popwait", "quit"}

\* The mutex has one owner: a thread is inside a critical section exactly
\* when it owns mutex_.
MutexOwner == \A t \in Threads : pc[t] \in Critical <=> mutex_ = t

\* No item is lost, invented, duplicated or overtaken, whichever of the two
\* pops hands it out: the items popped so far followed by the items still
\* queued are exactly the items pushed, in the order of the pushes.
FifoExactlyOnce ==
    /\ pushed = popped \o queue_
    /\ \A m, n \in 1 .. Len(pushed) : pushed[m] = pushed[n] => m = n

\* The threads that will still look into the queue, or wake somebody who
\* will: handlers between push and notify_one, and workers inside popWait
\* that are not blocked.
Alert == {t \in Threads : pc[t] \in {"notify", "waitlock", "popwait"}}

\* push releases the mutex before it notifies, and another worker may take
\* the item in between; still no wakeup is lost: while a worker sleeps and
\* nobody has quit, there is an alert thread for every queued item.
NoLostWakeup ==
    continue_ /\ Waiting # {} => Len(queue_) <= Cardinality(Alert)

\* quit reaches everybody: once continue_ is FALSE no worker sleeps in
\* cond_.wait, whether it was blocked when quit ran or entered popWait with
\* a stale value of continue_.
NobodySleepsAfterQuit == ~ continue_ => Waiting = {}

\* The queue implements the abstract one.
Fifo == INSTANCE BlockingFifo WITH
            Items <- Producers,
            items <- queue_,
            taken <- popped,
            open  <- continue_,
            left  <- {c \in Consumers : pc[c] = "done"}

\* quitablequeue.h, every call one atomic step of the promised queue.
ImplementsFifo == Fifo!Spec

\* A queued item is eventually handed to a worker, unless the queue quits.
QueuedIsPopped ==
    \A p \in Producers :
        (\E n \in 1 .. Len(queue_) : queue_[n] = p)
            ~> (\E n \in 1 .. Len(popped) : popped[n] = p) \/ ~ continue_

\* After quit every worker gets out of its pop and leaves its loop.
QuitEndsConsumers ==
    ~ continue_ ~> \A c \in Consumers : pc[c] = "done"

=============================================================================
