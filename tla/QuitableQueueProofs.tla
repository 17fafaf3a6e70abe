------------------------ MODULE QuitableQueueProofs ------------------------
(***************************************************************************)
(* Proofs about QuitableQueue for any number of threads of each kind.      *)
(***************************************************************************)
EXTENDS QuitableQueue, FiniteSetTheorems, SequenceTheorems, TLAPS

-----------------------------------------------------------------------------
(* Type correctness                                                        *)

\* The front item of a queue that is not empty can be moved to popped.
LEMMA PopFrontType ==
    ASSUME TypeOK, queue_ # <<>>, PopFront
    PROVE  /\ queue_' \in Seq(Producers)
           /\ popped' \in Seq(Producers)
BY HeadTailProperties DEF TypeOK, PopFront

\* Every step of every thread preserves the types.
LEMMA TypeStep ==
    ASSUME TypeOK, [Next]_vars
    PROVE  TypeOK'
<1> USE ThreadsAssumption, BoundAssumption DEF Threads, ConsumerPCs
<1>1. ASSUME NEW p \in Producers, PushLock(p)
      PROVE  TypeOK'
      BY <1>1 DEF TypeOK, PushLock, Lock
<1>2. ASSUME NEW p \in Producers, PushAppend(p)
      PROVE  TypeOK'
      BY <1>2 DEF TypeOK, PushAppend, Unlock
<1>3. ASSUME NEW p \in Producers, PushNotify(p)
      PROVE  TypeOK'
      BY <1>3 DEF TypeOK, PushNotify, Waiting
<1>4. ASSUME NEW c \in Consumers, PopNoWaitLock(c)
      PROVE  TypeOK'
      BY <1>4 DEF TypeOK, PopNoWaitLock, Lock
<1>5. ASSUME NEW c \in Consumers, PopNoWait(c)
      PROVE  TypeOK'
  <2>1. CASE queue_ # <<>>
        BY <1>5, <2>1, PopFrontType DEF TypeOK, PopNoWait, Unlock
  <2>2. CASE queue_ = <<>>
        BY <1>5, <2>2 DEF TypeOK, PopNoWait, Unlock
  <2> QED BY <2>1, <2>2
<1>6. ASSUME NEW c \in Consumers, PopWaitCheck(c)
      PROVE  TypeOK'
      BY <1>6 DEF TypeOK, PopWaitCheck
<1>7. ASSUME NEW c \in Consumers, PopWaitLock(c)
      PROVE  TypeOK'
      BY <1>7 DEF TypeOK, PopWaitLock, Lock
<1>8. ASSUME NEW c \in Consumers, PopWait(c)
      PROVE  TypeOK'
  <2>1. CASE continue_ /\ queue_ # <<>>
        BY <1>8, <2>1, PopFrontType DEF TypeOK, PopWait, Unlock
  <2>2. CASE ~ (continue_ /\ queue_ # <<>>)
        BY <1>8, <2>2 DEF TypeOK, PopWait, Unlock
  <2> QED BY <2>1, <2>2
<1>9. ASSUME NEW c \in Consumers, SpuriousWakeup(c)
      PROVE  TypeOK'
      BY <1>9 DEF TypeOK, SpuriousWakeup
<1>10. ASSUME NEW q \in Quitters, QuitLock(q)
       PROVE  TypeOK'
       BY <1>10 DEF TypeOK, QuitLock, Lock
<1>11. ASSUME NEW q \in Quitters, Quit(q)
       PROVE  TypeOK'
       BY <1>11 DEF TypeOK, Quit, Waiting
<1>12. CASE UNCHANGED vars
       BY <1>12 DEF TypeOK, vars
<1> QED BY <1>1, <1>2, <1>3, <1>4, <1>5, <1>6, <1>7, <1>8, <1>9, <1>10,
           <1>11, <1>12
        DEF Next, Producer, Consumer, Quitter, Terminated

\* The state variables of the queue and of its threads keep their types.
THEOREM TypeCorrect == Spec => []TypeOK
<1>1. Init => TypeOK
      BY ThreadsAssumption, BoundAssumption
      DEF Init, TypeOK, Threads, ConsumerPCs
<1> QED BY <1>1, TypeStep, PTL DEF Spec

-----------------------------------------------------------------------------
(* Mutual exclusion                                                        *)

\* Each critical section is entered and left by the owner of the mutex only.
LEMMA MutexStep ==
    ASSUME TypeOK, MutexOwner, [Next]_vars
    PROVE  MutexOwner'
<1> USE ThreadsAssumption DEF Threads, Critical, ConsumerPCs, MutexOwner
<1>1. ASSUME NEW p \in Producers, PushLock(p)
      PROVE  MutexOwner'
      BY <1>1 DEF TypeOK, PushLock, Lock
<1>2. ASSUME NEW p \in Producers, PushAppend(p)
      PROVE  MutexOwner'
      BY <1>2 DEF TypeOK, PushAppend, Unlock
<1>3. ASSUME NEW p \in Producers, PushNotify(p)
      PROVE  MutexOwner'
      BY <1>3 DEF TypeOK, PushNotify, Waiting
<1>4. ASSUME NEW c \in Consumers, PopNoWaitLock(c)
      PROVE  MutexOwner'
      BY <1>4 DEF TypeOK, PopNoWaitLock, Lock
<1>5. ASSUME NEW c \in Consumers, PopNoWait(c)
      PROVE  MutexOwner'
      BY <1>5 DEF TypeOK, PopNoWait, Unlock
<1>6. ASSUME NEW c \in Consumers, PopWaitCheck(c)
      PROVE  MutexOwner'
      BY <1>6 DEF TypeOK, PopWaitCheck
<1>7. ASSUME NEW c \in Consumers, PopWaitLock(c)
      PROVE  MutexOwner'
      BY <1>7 DEF TypeOK, PopWaitLock, Lock
<1>8. ASSUME NEW c \in Consumers, PopWait(c)
      PROVE  MutexOwner'
      BY <1>8 DEF TypeOK, PopWait, Unlock
<1>9. ASSUME NEW c \in Consumers, SpuriousWakeup(c)
      PROVE  MutexOwner'
      BY <1>9 DEF TypeOK, SpuriousWakeup
<1>10. ASSUME NEW q \in Quitters, QuitLock(q)
       PROVE  MutexOwner'
       BY <1>10 DEF TypeOK, QuitLock, Lock
<1>11. ASSUME NEW q \in Quitters, Quit(q)
       PROVE  MutexOwner'
       BY <1>11 DEF TypeOK, Quit, Waiting
<1>12. CASE UNCHANGED vars
       BY <1>12 DEF vars
<1> QED BY <1>1, <1>2, <1>3, <1>4, <1>5, <1>6, <1>7, <1>8, <1>9, <1>10,
           <1>11, <1>12
        DEF Next, Producer, Consumer, Quitter, Terminated

\* At most one thread is inside a critical section of the queue: the owner
\* of mutex_.
THEOREM MutualExclusion == Spec => []MutexOwner
<1>1. Init => MutexOwner
      BY ThreadsAssumption DEF Init, MutexOwner, Critical, Threads
<1> QED BY <1>1, TypeCorrect, MutexStep, PTL DEF Spec

-----------------------------------------------------------------------------
(* After quit nobody sleeps                                                *)

\* Only popWait puts a worker to sleep, and it tests continue_ under the
\* mutex in the same critical section; quit wakes all that sleep.
LEMMA QuitStep ==
    ASSUME TypeOK, NobodySleepsAfterQuit, [Next]_vars
    PROVE  NobodySleepsAfterQuit'
<1> USE ThreadsAssumption DEF Threads, NobodySleepsAfterQuit, Waiting
<1>1. ASSUME NEW p \in Producers, Producer(p)
      PROVE  NobodySleepsAfterQuit'
      BY <1>1 DEF TypeOK, Producer, PushLock, PushAppend, PushNotify, Lock, Unlock
<1>2. ASSUME NEW c \in Consumers, PopNoWaitLock(c) \/ PopNoWait(c)
      PROVE  NobodySleepsAfterQuit'
      BY <1>2 DEF TypeOK, PopNoWaitLock, PopNoWait, Lock, Unlock
<1>3. ASSUME NEW c \in Consumers, PopWaitCheck(c) \/ PopWaitLock(c)
      PROVE  NobodySleepsAfterQuit'
      BY <1>3 DEF TypeOK, PopWaitCheck, PopWaitLock, Lock
<1>4. ASSUME NEW c \in Consumers, PopWait(c)
      PROVE  NobodySleepsAfterQuit'
      BY <1>4 DEF TypeOK, PopWait, Unlock
<1>5. ASSUME NEW c \in Consumers, SpuriousWakeup(c)
      PROVE  NobodySleepsAfterQuit'
      BY <1>5 DEF TypeOK, SpuriousWakeup
<1>6. ASSUME NEW q \in Quitters, QuitLock(q)
      PROVE  NobodySleepsAfterQuit'
      BY <1>6 DEF TypeOK, QuitLock, Lock
<1>7. ASSUME NEW q \in Quitters, Quit(q)
      PROVE  NobodySleepsAfterQuit'
      BY <1>7 DEF TypeOK, Quit
<1>8. CASE UNCHANGED vars
      BY <1>8 DEF vars
<1> QED BY <1>1, <1>2, <1>3, <1>4, <1>5, <1>6, <1>7, <1>8
        DEF Next, Consumer, Quitter, Terminated

\* Once continue_ is FALSE no worker is blocked in cond_.wait, not even one
\* that passed the unlocked test of popWait before.
THEOREM QuitWakesEverybody == Spec => []NobodySleepsAfterQuit
<1>1. Init => NobodySleepsAfterQuit
      BY DEF Init, NobodySleepsAfterQuit
<1> QED BY <1>1, TypeCorrect, QuitStep, PTL DEF Spec

-----------------------------------------------------------------------------
(* Every item once and in order                                            *)

\* A handler pushes once: an item that was pushed belongs to a handler that
\* is past its push.
PushedOnce ==
    \A n \in 1 .. Len(pushed) : pc[pushed[n]] \in {"notify", "done"}

FifoInv == FifoExactlyOnce /\ PushedOnce

\* Moving the front item to the end of popped keeps their concatenation.
LEMMA MoveFront ==
    ASSUME NEW S, NEW s \in Seq(S), NEW t \in Seq(S), t # <<>>
    PROVE  Append(s, Head(t)) \o Tail(t) = s \o t
<1> DEFINE l == Append(s, Head(t)) \o Tail(t)
           r == s \o t
<1>1. /\ Head(t) \in S
      /\ Tail(t) \in Seq(S)
      /\ Len(Tail(t)) = Len(t) - 1
      /\ \A i \in 1 .. Len(Tail(t)) : Tail(t)[i] = t[i+1]
      BY HeadTailProperties
<1>2. /\ Append(s, Head(t)) \in Seq(S)
      /\ Len(Append(s, Head(t))) = Len(s) + 1
      /\ \A i \in 1 .. Len(s) + 1 :
            Append(s, Head(t))[i] = IF i <= Len(s) THEN s[i] ELSE Head(t)
      BY <1>1, AppendProperties
<1>3. /\ l \in Seq(S)
      /\ Len(l) = Len(s) + 1 + Len(t) - 1
      /\ \A i \in 1 .. Len(s) + 1 + (Len(t) - 1) :
            l[i] = IF i <= Len(s) + 1 THEN Append(s, Head(t))[i]
                                      ELSE Tail(t)[i - (Len(s) + 1)]
  <2> HIDE DEF l
  <2>1. Len(s) \in Nat /\ Len(t) \in Nat
        BY LenProperties
  <2> QED BY <1>1, <1>2, <2>1, ConcatProperties DEF l
<1>4. /\ r \in Seq(S)
      /\ Len(r) = Len(s) + Len(t)
      /\ \A i \in 1 .. Len(s) + Len(t) : r[i] = IF i <= Len(s) THEN s[i] ELSE t[i - Len(s)]
      BY ConcatProperties
<1>5. Len(s) \in Nat /\ Len(t) \in Nat \ {0} /\ Head(t) = t[1]
      BY LenProperties, EmptySeq
<1> HIDE DEF l, r
<1>6. Len(l) = Len(r)
      BY <1>3, <1>4, <1>5
<1>7. ASSUME NEW i \in 1 .. Len(l)
      PROVE  l[i] = r[i]
  <2>1. CASE i <= Len(s)
        BY <1>2, <1>3, <1>4, <1>5, <2>1
  <2>2. CASE i = Len(s) + 1
        BY <1>2, <1>3, <1>4, <1>5, <2>2
  <2>3. CASE i > Len(s) + 1
    <3>1. i - (Len(s) + 1) \in 1 .. Len(Tail(t))
          BY <1>1, <1>3, <1>5, <2>3
    <3>2. (i - (Len(s) + 1)) + 1 = i - Len(s)
          BY <1>3, <1>5
    <3>3. l[i] = Tail(t)[i - (Len(s) + 1)]
          BY <1>3, <1>5, <2>3
    <3>4. r[i] = t[i - Len(s)]
          BY <1>3, <1>4, <1>5, <2>3
    <3> QED BY <1>1, <3>1, <3>2, <3>3, <3>4
  <2> QED BY <1>3, <1>5, <2>1, <2>2, <2>3
<1>8. l = r
      BY <1>3, <1>4, <1>6, <1>7, SeqEqual
<1> QED BY <1>8 DEF l, r

\* Popping keeps the pushed items what they are.
LEMMA PopFrontFifo ==
    ASSUME TypeOK, FifoExactlyOnce, queue_ # <<>>, PopFront, UNCHANGED pushed
    PROVE  FifoExactlyOnce'
<1>1. popped \in Seq(Producers) /\ queue_ \in Seq(Producers)
      BY DEF TypeOK
<1>2. Append(popped, Head(queue_)) \o Tail(queue_) = popped \o queue_
      BY <1>1, MoveFront
<1>3. popped' \o queue_' = popped \o queue_
      BY <1>2 DEF PopFront
<1> QED BY <1>3 DEF FifoExactlyOnce

\* A step leaves a handler that has pushed past its push.
LEMMA PastPush ==
    ASSUME TypeOK, [Next]_vars, NEW p \in Producers, pc[p] \in {"notify", "done"}
    PROVE  pc'[p] \in {"notify", "done"}
<1> USE ThreadsAssumption DEF Threads, TypeOK, ConsumerPCs
<1>1. ASSUME NEW t \in Producers, Producer(t)
      PROVE  pc'[p] \in {"notify", "done"}
      BY <1>1 DEF Producer, PushLock, PushAppend, PushNotify, Lock, Unlock, Waiting
<1>2. ASSUME NEW c \in Consumers, Consumer(c) \/ SpuriousWakeup(c)
      PROVE  pc'[p] \in {"notify", "done"}
      BY <1>2 DEF Consumer, PopNoWaitLock, PopNoWait, PopWaitCheck, PopWaitLock,
                  PopWait, SpuriousWakeup, Lock, Unlock
<1>3. ASSUME NEW q \in Quitters, Quitter(q)
      PROVE  pc'[p] \in {"notify", "done"}
      BY <1>3 DEF Quitter, QuitLock, Quit, Lock, Waiting
<1>4. CASE UNCHANGED vars
      BY <1>4 DEF vars
<1> QED BY <1>1, <1>2, <1>3, <1>4 DEF Next, Terminated

\* Only PushAppend extends pushed, by an item that was never pushed, and only
\* the pops move an item from the queue to popped.
LEMMA FifoStep ==
    ASSUME TypeOK, FifoInv, [Next]_vars
    PROVE  FifoInv'
<1> USE ThreadsAssumption DEF Threads
<1>1. ASSUME UNCHANGED pushed
      PROVE  PushedOnce'
  <2>1. ASSUME NEW n \in 1 .. Len(pushed)
        PROVE  pc'[pushed[n]] \in {"notify", "done"}
    <3>1. pushed[n] \in Producers
          BY ElementOfSeq DEF TypeOK
    <3> QED BY <3>1, PastPush DEF FifoInv, PushedOnce
  <2> QED BY <1>1, <2>1 DEF PushedOnce
<1>2. ASSUME UNCHANGED <<queue_, pushed, popped>>
      PROVE  FifoInv'
      BY <1>1, <1>2 DEF FifoInv, FifoExactlyOnce
<1>3. ASSUME queue_ # <<>>, PopFront, UNCHANGED pushed
      PROVE  FifoInv'
      BY <1>1, <1>3, PopFrontFifo DEF FifoInv
<1>4. ASSUME NEW p \in Producers, PushAppend(p)
      PROVE  FifoInv'
  <2>1. /\ pushed' = Append(pushed, p)
        /\ queue_' = Append(queue_, p)
        /\ popped' = popped
        /\ pc[p] = "push"
        /\ pc'[p] = "notify"
        BY <1>4 DEF PushAppend, Unlock, TypeOK
  <2>2. /\ Len(pushed) \in Nat
        /\ Len(pushed') = Len(pushed) + 1
        /\ \A n \in 1 .. Len(pushed) : pushed'[n] = pushed[n]
        /\ pushed'[Len(pushed) + 1] = p
        BY <2>1, AppendProperties, LenProperties DEF TypeOK
  <2>3. \A n \in 1 .. Len(pushed) : pushed[n] \in Producers /\ pushed[n] # p
        BY <2>1, ElementOfSeq DEF TypeOK, FifoInv, PushedOnce
  <2>4. pushed' = popped' \o queue_'
    <3>1. popped \in Seq(Producers) /\ queue_ \in Seq(Producers)
          BY DEF TypeOK
    <3>2. <<p>> \in Seq(Producers) /\ popped \o queue_ \in Seq(Producers)
          BY <3>1, ConcatProperties
    <3>3. pushed = popped \o queue_
          BY DEF FifoInv, FifoExactlyOnce
    <3>4. pushed' = (popped \o queue_) \o <<p>>
          BY <2>1, <3>2, <3>3, AppendIsConcat
    <3>5. queue_' = queue_ \o <<p>>
          BY <2>1, <3>1, AppendIsConcat
    <3>6. (popped \o queue_) \o <<p>> = popped \o (queue_ \o <<p>>)
          BY <3>1, <3>2, ConcatAssociative
    <3> QED BY <2>1, <3>4, <3>5, <3>6
  <2>5. ASSUME NEW m \in 1 .. Len(pushed'), NEW n \in 1 .. Len(pushed'),
               pushed'[m] = pushed'[n]
        PROVE  m = n
    <3>1. \A k, l \in 1 .. Len(pushed) : pushed[k] = pushed[l] => k = l
          BY DEF FifoInv, FifoExactlyOnce
    <3>2. CASE m \in 1 .. Len(pushed) /\ n \in 1 .. Len(pushed)
          BY <2>2, <2>5, <3>1, <3>2
    <3>3. CASE m = Len(pushed) + 1 \/ n = Len(pushed) + 1
      <4>1. CASE m = Len(pushed) + 1 /\ n = Len(pushed) + 1
            BY <4>1
      <4>2. CASE m = Len(pushed) + 1 /\ n \in 1 .. Len(pushed)
        <5>1. pushed[n] = p
              BY <2>2, <2>5, <4>2
        <5> QED BY <2>3, <4>2, <5>1
      <4>3. CASE n = Len(pushed) + 1 /\ m \in 1 .. Len(pushed)
        <5>1. pushed[m] = p
              BY <2>2, <2>5, <4>3
        <5> QED BY <2>3, <4>3, <5>1
      <4> QED BY <2>2, <3>3, <4>1, <4>2, <4>3
    <3> QED BY <2>2, <3>2, <3>3
  <2>6. \A n \in 1 .. Len(pushed') : pc'[pushed'[n]] \in {"notify", "done"}
        BY <2>1, <2>2, <2>3, PastPush DEF FifoInv, PushedOnce
  <2> QED BY <2>4, <2>5, <2>6 DEF FifoInv, FifoExactlyOnce, PushedOnce
<1>5. ASSUME NEW p \in Producers, PushLock(p) \/ PushNotify(p)
      PROVE  FifoInv'
      BY <1>2, <1>5 DEF PushLock, PushNotify
<1>6. ASSUME NEW c \in Consumers, PopNoWait(c)
      PROVE  FifoInv'
      BY <1>2, <1>3, <1>6 DEF PopNoWait
<1>7. ASSUME NEW c \in Consumers, PopWait(c)
      PROVE  FifoInv'
      BY <1>2, <1>3, <1>7 DEF PopWait
<1>8. ASSUME NEW c \in Consumers,
             PopNoWaitLock(c) \/ PopWaitCheck(c) \/ PopWaitLock(c) \/ SpuriousWakeup(c)
      PROVE  FifoInv'
      BY <1>2, <1>8 DEF PopNoWaitLock, PopWaitCheck, PopWaitLock, SpuriousWakeup
<1>9. ASSUME NEW q \in Quitters, Quitter(q)
      PROVE  FifoInv'
      BY <1>2, <1>9 DEF Quitter, QuitLock, Quit
<1>10. CASE UNCHANGED vars
       BY <1>2, <1>10 DEF vars
<1> QED BY <1>4, <1>5, <1>6, <1>7, <1>8, <1>9, <1>10
        DEF Next, Producer, Consumer, Terminated

\* FifoInv holds in every reachable state.
LEMMA FifoInvariant == Spec => []FifoInv
<1>1. Init => FifoInv
  <2> SUFFICES ASSUME Init PROVE FifoInv
      OBVIOUS
  <2>1. pushed = <<>> /\ popped = <<>> /\ queue_ = <<>> /\ Len(pushed) = 0
        BY EmptySeq DEF Init
  <2>2. popped \o queue_ = pushed
        BY <2>1, EmptySeq, ConcatEmptySeq
  <2> QED BY <2>1, <2>2 DEF FifoInv, FifoExactlyOnce, PushedOnce
<1> QED BY <1>1, TypeCorrect, FifoStep, PTL DEF Spec

\* Both pops together hand out every pushed item once and in the order of
\* the pushes, for any number of handlers, workers and quitters.
THEOREM ExactlyOnceInOrder == Spec => []FifoExactlyOnce
BY FifoInvariant, PTL DEF FifoInv

-----------------------------------------------------------------------------
(* No wakeup is lost                                                       *)

\* There are finitely many alert threads.
LEMMA AlertFinite ==
    ASSUME TypeOK
    PROVE  IsFiniteSet(Alert) /\ Cardinality(Alert) \in Nat
<1>1. IsFiniteSet(Producers \cup Consumers)
      BY ThreadsAssumption, FS_Union
<1>2. Alert \subseteq Producers \cup Consumers
      BY ThreadsAssumption DEF TypeOK, Alert, Threads
<1> QED BY <1>1, <1>2, FS_Subset, FS_CardinalityType

\* The same in the next state.
LEMMA AlertFinitePrime ==
    ASSUME TypeOK'
    PROVE  IsFiniteSet(Alert') /\ Cardinality(Alert') \in Nat
<1>1. IsFiniteSet(Producers \cup Consumers)
      BY ThreadsAssumption, FS_Union
<1>2. Alert' \subseteq Producers \cup Consumers
      BY ThreadsAssumption DEF TypeOK, Alert, Threads
<1> QED BY <1>1, <1>2, FS_Subset, FS_CardinalityType

\* A step that puts nobody to sleep, queues nothing and keeps the alert
\* threads alert does no harm.
LEMMA WakeupMonotone ==
    ASSUME TypeOK, TypeOK', NoLostWakeup,
           continue_' => continue_, Waiting' \subseteq Waiting,
           Alert \subseteq Alert', Len(queue_') <= Len(queue_)
    PROVE  NoLostWakeup'
<1>1. SUFFICES ASSUME continue_', Waiting' # {}
               PROVE  Len(queue_') <= Cardinality(Alert')
      BY DEF NoLostWakeup
<1>2. Len(queue_) <= Cardinality(Alert)
      BY <1>1 DEF NoLostWakeup
<1>3. IsFiniteSet(Alert') /\ Cardinality(Alert') \in Nat
      BY AlertFinitePrime
<1>4. Cardinality(Alert) \in Nat /\ Cardinality(Alert) <= Cardinality(Alert')
      BY <1>3, AlertFinite, FS_Subset
<1>5. Len(queue_) \in Nat /\ Len(queue_') \in Nat
      BY LenProperties DEF TypeOK
<1> QED BY <1>2, <1>3, <1>4, <1>5

\* Every step keeps an alert thread for each queued item while a worker sleeps.
LEMMA WakeupStep ==
    ASSUME TypeOK, TypeOK', NoLostWakeup, [Next]_vars
    PROVE  NoLostWakeup'
<1> USE ThreadsAssumption DEF Threads
<1>0. /\ IsFiniteSet(Alert) /\ Cardinality(Alert) \in Nat
      /\ IsFiniteSet(Alert') /\ Cardinality(Alert') \in Nat
      /\ Len(queue_) \in Nat /\ Len(queue_') \in Nat
      BY AlertFinite, AlertFinitePrime, LenProperties DEF TypeOK
<1>1. ASSUME NEW p \in Producers, PushLock(p)
      PROVE  NoLostWakeup'
      BY <1>0, <1>1, WakeupMonotone DEF PushLock, Lock, Waiting, Alert, TypeOK
<1>2. ASSUME NEW p \in Producers, PushAppend(p)
      PROVE  NoLostWakeup'
  <2>1. Waiting' = Waiting /\ continue_' = continue_
        BY <1>2 DEF PushAppend, Unlock, Waiting, TypeOK
  <2>2. Alert' = Alert \cup {p} /\ p \notin Alert
        BY <1>2 DEF PushAppend, Unlock, Alert, TypeOK
  <2>3. Cardinality(Alert') = Cardinality(Alert) + 1
        BY <1>0, <2>2, FS_AddElement
  <2>4. Len(queue_') = Len(queue_) + 1
        BY <1>2, AppendProperties DEF PushAppend, TypeOK
  <2> QED BY <1>0, <2>1, <2>3, <2>4 DEF NoLostWakeup
<1>3. ASSUME NEW p \in Producers, PushNotify(p)
      PROVE  NoLostWakeup'
  <2>1. CASE Waiting = {}
    <3>1. Waiting' = {}
          BY <1>3, <2>1 DEF PushNotify, Waiting, TypeOK
    <3> QED BY <3>1 DEF NoLostWakeup
  <2>2. CASE Waiting # {}
    <3>1. PICK c \in Waiting : pc' = [pc EXCEPT ![p] = "done", ![c] = "waitlock"]
          BY <1>3, <2>2 DEF PushNotify
    <3>2. c \in Consumers /\ c # p /\ c \notin Alert /\ p \in Alert
          BY <1>3, <3>1 DEF PushNotify, Waiting, Alert, TypeOK
    <3>3. Alert' = (Alert \ {p}) \cup {c}
          BY <3>1, <3>2 DEF Alert, TypeOK
    <3>4. Cardinality(Alert') = Cardinality(Alert)
      <4>1. IsFiniteSet(Alert \ {p}) /\ Cardinality(Alert \ {p}) = Cardinality(Alert) - 1
            BY <1>0, <3>2, FS_RemoveElement
      <4>2. Cardinality((Alert \ {p}) \cup {c}) = Cardinality(Alert \ {p}) + 1
            BY <3>2, <4>1, FS_AddElement
      <4> QED BY <1>0, <3>3, <4>1, <4>2
    <3>5. queue_' = queue_ /\ continue_' = continue_
          BY <1>3 DEF PushNotify
    <3> QED BY <2>2, <3>4, <3>5 DEF NoLostWakeup
  <2> QED BY <2>1, <2>2
<1>4. ASSUME NEW c \in Consumers, PopNoWaitLock(c)
      PROVE  NoLostWakeup'
      BY <1>0, <1>4, WakeupMonotone DEF PopNoWaitLock, Lock, Waiting, Alert, TypeOK
<1>5. ASSUME NEW c \in Consumers, PopNoWait(c)
      PROVE  NoLostWakeup'
  <2>1. Waiting' = Waiting /\ Alert \subseteq Alert' /\ continue_' = continue_
        BY <1>5 DEF PopNoWait, Unlock, Waiting, Alert, TypeOK
  <2>2. Len(queue_') <= Len(queue_)
        BY <1>0, <1>5, HeadTailProperties DEF PopNoWait, PopFront, TypeOK
  <2> QED BY <2>1, <2>2, WakeupMonotone
<1>6. ASSUME NEW c \in Consumers, PopWaitCheck(c)
      PROVE  NoLostWakeup'
      BY <1>0, <1>6, WakeupMonotone DEF PopWaitCheck, Waiting, Alert, TypeOK
<1>7. ASSUME NEW c \in Consumers, PopWaitLock(c)
      PROVE  NoLostWakeup'
      BY <1>0, <1>7, WakeupMonotone DEF PopWaitLock, Lock, Waiting, Alert, TypeOK
<1>8. ASSUME NEW c \in Consumers, PopWait(c)
      PROVE  NoLostWakeup'
  <2>1. CASE ~ continue_
        BY <1>8, <2>1 DEF PopWait, NoLostWakeup
  <2>2. CASE continue_ /\ queue_ = <<>>
    <3>1. Len(queue_') = 0
          BY <1>8, <2>2, EmptySeq DEF PopWait
    <3> QED BY <1>0, <3>1 DEF NoLostWakeup
  <2>3. CASE continue_ /\ queue_ # <<>>
    <3>1. Waiting' = Waiting /\ continue_' = continue_
          BY <1>8, <2>3 DEF PopWait, Unlock, Waiting, TypeOK
    <3>2. Alert' = Alert \ {c} /\ c \in Alert
          BY <1>8, <2>3 DEF PopWait, Unlock, Alert, TypeOK
    <3>3. Cardinality(Alert') = Cardinality(Alert) - 1
          BY <1>0, <3>2, FS_RemoveElement
    <3>4. Len(queue_') = Len(queue_) - 1
          BY <1>8, <2>3, HeadTailProperties DEF PopWait, PopFront, TypeOK
    <3> QED BY <1>0, <3>1, <3>3, <3>4 DEF NoLostWakeup
  <2> QED BY <2>1, <2>2, <2>3
<1>9. ASSUME NEW c \in Consumers, SpuriousWakeup(c)
      PROVE  NoLostWakeup'
      BY <1>0, <1>9, WakeupMonotone DEF SpuriousWakeup, Waiting, Alert, TypeOK
<1>10. ASSUME NEW q \in Quitters, QuitLock(q)
       PROVE  NoLostWakeup'
       BY <1>0, <1>10, WakeupMonotone DEF QuitLock, Lock, Waiting, Alert, TypeOK
<1>11. ASSUME NEW q \in Quitters, Quit(q)
       PROVE  NoLostWakeup'
       BY <1>11 DEF Quit, NoLostWakeup
<1>12. CASE UNCHANGED vars
       BY <1>12 DEF vars, NoLostWakeup, Waiting, Alert
<1> QED BY <1>1, <1>2, <1>3, <1>4, <1>5, <1>6, <1>7, <1>8, <1>9, <1>10,
           <1>11, <1>12
        DEF Next, Producer, Consumer, Quitter, Terminated

\* As long as a worker sleeps and nobody has quit, there are at least as many
\* threads that are about to look into the queue, or to wake somebody who
\* will, as there are queued items.
THEOREM WakeupsAreNotLost == Spec => []NoLostWakeup
<1>1. Init => NoLostWakeup
      BY ThreadsAssumption DEF Init, NoLostWakeup, Waiting, Threads
<1> QED BY <1>1, TypeCorrect, WakeupStep, PTL DEF Spec

-----------------------------------------------------------------------------
(* Refinement                                                              *)

\* An item that has not been pushed is neither queued nor popped.
LEMMA NotYetPushed ==
    ASSUME TypeOK, FifoInv, NEW p \in Producers, pc[p] = "push"
    PROVE  /\ \A n \in 1 .. Len(queue_) : queue_[n] # p
           /\ \A n \in 1 .. Len(popped) : popped[n] # p
<1>1. \A n \in 1 .. Len(pushed) : pushed[n] # p
      BY DEF FifoInv, PushedOnce
<1>2. pushed = popped \o queue_
      BY DEF FifoInv, FifoExactlyOnce
<1>3. /\ Len(pushed) = Len(popped) + Len(queue_)
      /\ \A i \in 1 .. Len(popped) + Len(queue_) :
            pushed[i] = IF i <= Len(popped) THEN popped[i] ELSE queue_[i - Len(popped)]
      BY <1>2, ConcatProperties DEF TypeOK
<1>4. Len(popped) \in Nat /\ Len(queue_) \in Nat
      BY LenProperties DEF TypeOK
<1>5. ASSUME NEW n \in 1 .. Len(popped)
      PROVE  popped[n] # p
      BY <1>1, <1>3, <1>4
<1>6. ASSUME NEW n \in 1 .. Len(queue_)
      PROVE  queue_[n] # p
  <2>1. n + Len(popped) \in 1 .. Len(pushed) /\ ~ (n + Len(popped) <= Len(popped))
        BY <1>3, <1>4
  <2>2. pushed[n + Len(popped)] = queue_[(n + Len(popped)) - Len(popped)]
        BY <1>3, <2>1
  <2>3. (n + Len(popped)) - Len(popped) = n
        BY <1>4
  <2> QED BY <1>1, <2>1, <2>2, <2>3
<1> QED BY <1>5, <1>6

\* Every step of a thread is a step of the promised queue or none.
LEMMA RefinementStep ==
    ASSUME TypeOK, FifoInv, [Next]_vars
    PROVE  [Fifo!Next]_Fifo!vars
<1> USE ThreadsAssumption DEF Threads
<1> DEFINE left == {c \in Consumers : pc[c] = "done"}
<1>1. ASSUME UNCHANGED <<queue_, popped, continue_>>, left' = left
      PROVE  [Fifo!Next]_Fifo!vars
      BY <1>1 DEF Fifo!vars
<1>2. ASSUME NEW p \in Producers, PushLock(p) \/ PushNotify(p)
      PROVE  [Fifo!Next]_Fifo!vars
  <2>1. left' = left
        BY <1>2 DEF PushLock, PushNotify, Lock, Waiting, TypeOK
  <2>2. UNCHANGED <<queue_, popped, continue_>>
        BY <1>2 DEF PushLock, PushNotify
  <2> QED BY <1>1, <2>1, <2>2
<1>3. ASSUME NEW p \in Producers, PushAppend(p)
      PROVE  [Fifo!Next]_Fifo!vars
  <2>1. left' = left
        BY <1>3 DEF PushAppend, Unlock, TypeOK
  <2>2. Fifo!Put(p)
        BY <1>3, <2>1, NotYetPushed DEF PushAppend, Fifo!Put
  <2> QED BY <2>2 DEF Fifo!Next
<1>4. ASSUME NEW c \in Consumers, pc[c] # "done",
             queue_ # <<>>, PopFront, UNCHANGED continue_, left' = left
      PROVE  [Fifo!Next]_Fifo!vars
  <2>1. left # Consumers
        BY <1>4
  <2>2. Fifo!Take
        BY <1>4, <2>1 DEF PopFront, Fifo!Take
  <2> QED BY <2>2 DEF Fifo!Next
<1>5. ASSUME NEW c \in Consumers, pc[c] # "done", ~ continue_,
             UNCHANGED <<queue_, popped, continue_>>, pc' = [pc EXCEPT ![c] = "done"]
      PROVE  [Fifo!Next]_Fifo!vars
  <2>1. c \notin left /\ left' = left \cup {c}
        BY <1>5 DEF TypeOK
  <2>2. Fifo!Leave(c)
        BY <1>5, <2>1 DEF Fifo!Leave
  <2> QED BY <2>2 DEF Fifo!Next
<1>6. ASSUME NEW c \in Consumers, PopNoWaitLock(c) \/ PopWaitLock(c) \/ SpuriousWakeup(c)
      PROVE  [Fifo!Next]_Fifo!vars
  <2>1. left' = left
        BY <1>6 DEF PopNoWaitLock, PopWaitLock, SpuriousWakeup, Lock, TypeOK
  <2>2. UNCHANGED <<queue_, popped, continue_>>
        BY <1>6 DEF PopNoWaitLock, PopWaitLock, SpuriousWakeup
  <2> QED BY <1>1, <2>1, <2>2
<1>7. ASSUME NEW c \in Consumers, PopNoWait(c)
      PROVE  [Fifo!Next]_Fifo!vars
  <2>1. left' = left /\ pc[c] # "done" /\ continue_' = continue_
        BY <1>7 DEF PopNoWait, Unlock, TypeOK
  <2>2. CASE queue_ # <<>>
        BY <1>4, <1>7, <2>1, <2>2 DEF PopNoWait
  <2>3. CASE queue_ = <<>>
        BY <1>1, <1>7, <2>1, <2>3 DEF PopNoWait
  <2> QED BY <2>2, <2>3
<1>8. ASSUME NEW c \in Consumers, PopWaitCheck(c)
      PROVE  [Fifo!Next]_Fifo!vars
  <2>1. CASE pc' = [pc EXCEPT ![c] = "waitlock"]
    <3>1. left' = left
          BY <1>8, <2>1 DEF PopWaitCheck, TypeOK
    <3> QED BY <1>1, <1>8, <3>1 DEF PopWaitCheck
  <2>2. CASE ~ continue_ /\ pc' = [pc EXCEPT ![c] = "done"]
        BY <1>5, <1>8, <2>2 DEF PopWaitCheck
  <2> QED BY <1>8, <2>1, <2>2 DEF PopWaitCheck
<1>9. ASSUME NEW c \in Consumers, PopWait(c)
      PROVE  [Fifo!Next]_Fifo!vars
  <2>1. CASE ~ continue_
        BY <1>5, <1>9, <2>1 DEF PopWait, Unlock
  <2>2. CASE continue_ /\ queue_ = <<>>
    <3>1. left' = left
          BY <1>9, <2>2 DEF PopWait, Unlock, TypeOK
    <3> QED BY <1>1, <1>9, <2>2, <3>1 DEF PopWait
  <2>3. CASE continue_ /\ queue_ # <<>>
    <3>1. left' = left /\ pc[c] # "done"
          BY <1>9, <2>3 DEF PopWait, Unlock, TypeOK
    <3> QED BY <1>4, <1>9, <2>3, <3>1 DEF PopWait
  <2> QED BY <2>1, <2>2, <2>3
<1>10. ASSUME NEW q \in Quitters, QuitLock(q)
       PROVE  [Fifo!Next]_Fifo!vars
  <2>1. left' = left
        BY <1>10 DEF QuitLock, Lock, TypeOK
  <2> QED BY <1>1, <1>10, <2>1 DEF QuitLock
<1>11. ASSUME NEW q \in Quitters, Quit(q)
       PROVE  [Fifo!Next]_Fifo!vars
  <2>1. left' = left
        BY <1>11 DEF Quit, Waiting, TypeOK
  <2>2. Fifo!Close
        BY <1>11, <2>1 DEF Quit, Fifo!Close
  <2> QED BY <2>2 DEF Fifo!Next
<1>12. CASE UNCHANGED vars
       BY <1>1, <1>12 DEF vars
<1> QED BY <1>2, <1>3, <1>6, <1>7, <1>8, <1>9, <1>10, <1>11, <1>12
        DEF Next, Producer, Consumer, Quitter, Terminated

\* The queue with its mutex, condition variable and unlocked test implements
\* the queue of BlockingFifo, in which every call is one step.
THEOREM QueueImplementsFifo == Spec => ImplementsFifo
<1>1. Init => Fifo!Init
      BY ThreadsAssumption DEF Init, Fifo!Init, Threads
<1> QED BY <1>1, TypeCorrect, FifoInvariant, RefinementStep, PTL
        DEF Spec, ImplementsFifo, Fifo!Spec

=============================================================================
