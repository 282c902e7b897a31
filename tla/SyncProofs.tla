----------------------------- MODULE SyncProofs -----------------------------
(***************************************************************************)
(* Proofs about the primitives side by side.  What SharedMutexProofs,      *)
(* MonitorProofs and FutexProofs show of each of them holds in MCSync,     *)
(* where a step of one leaves the others alone, for every value of its     *)
(* constants.                                                              *)
(***************************************************************************)
EXTENDS MCSync, SharedMutexProofs

MonP == INSTANCE MonitorProofs WITH Signalled <- MonitorSignalled

(* A behaviour of the primitives is one of the objects of Monitor ...      *)
LEMMA MonitorInside == MCSpec => MonP!Spec
<1>1. MCInit => MonP!Init
  BY ZenonT(60) DEF MCInit, Mon!Init, MonP!Init, Mon!Queues, MonP!Queues
<1>2. ASSUME NEW t \in Threads
      PROVE  /\ \A try, i : Mon!Lock(t, try, i) => MonP!Lock(t, try, i)
             /\ Mon!Unlock(t) => MonP!Unlock(t)
             /\ \A timed, i : Mon!StartWait(t, timed, i) => MonP!StartWait(t, timed, i)
             /\ Mon!DoWait(t) => MonP!DoWait(t)
             /\ \A all : Mon!Notify(t, all) => MonP!Notify(t, all)
             /\ Mon!Timeout(t) => MonP!Timeout(t)
             /\ \A try : Mon!SemWait(t, try) => MonP!SemWait(t, try)
             /\ Mon!SemPost(t) => MonP!SemPost(t)
             /\ \A n, w, i : Mon!Arrive(t, n, w, i) => MonP!Arrive(t, n, w, i)
             /\ Mon!Signal(t) => MonP!Signal(t)
             /\ Mon!Resume(t) => MonP!Resume(t)
  <2> USE DEF Mon!vars, MonP!vars, Mon!objs, MonP!objs, Mon!Queues, MonP!Queues, Mon!WakeOne, MonP!WakeOne, Mon!Woken, MonP!Woken,
    Mon!Waken, MonP!Waken, Mon!Parked, MonP!Parked, Mon!Running, MonP!Running, Mon!Park, MonP!Park,
    Mon!Takes, MonP!Takes, Mon!HeldAfter, MonP!HeldAfter, Mon!Release, MonP!Release,
    Mon!IsIn, MonP!IsIn, Mon!Linked, MonP!Linked, Mon!Unlink, MonP!Unlink
  <2>1. ASSUME NEW try, NEW i PROVE Mon!Lock(t, try, i) => MonP!Lock(t, try, i)
    BY ZenonT(60) DEF Mon!Lock, MonP!Lock
  <2>2. Mon!Unlock(t) => MonP!Unlock(t)
    BY ZenonT(60) DEF Mon!Unlock, MonP!Unlock
  <2>3. ASSUME NEW timed, NEW i PROVE Mon!StartWait(t, timed, i) => MonP!StartWait(t, timed, i)
    BY ZenonT(60) DEF Mon!StartWait, MonP!StartWait
  <2>4. Mon!DoWait(t) => MonP!DoWait(t)
    BY ZenonT(60) DEF Mon!DoWait, MonP!DoWait
  <2>5. ASSUME NEW all PROVE Mon!Notify(t, all) => MonP!Notify(t, all)
    BY ZenonT(60) DEF Mon!Notify, MonP!Notify, Mon!Notified, MonP!Notified
  <2>6. Mon!Timeout(t) => MonP!Timeout(t)
    BY ZenonT(60) DEF Mon!Timeout, MonP!Timeout
  <2>7. ASSUME NEW try PROVE Mon!SemWait(t, try) => MonP!SemWait(t, try)
    BY ZenonT(60) DEF Mon!SemWait, MonP!SemWait
  <2>8. Mon!SemPost(t) => MonP!SemPost(t)
    BY ZenonT(60) DEF Mon!SemPost, MonP!SemPost, Mon!Posted, MonP!Posted
  <2>9. ASSUME NEW n, NEW w, NEW i PROVE Mon!Arrive(t, n, w, i) => MonP!Arrive(t, n, w, i)
    BY ZenonT(60) DEF Mon!Arrive, MonP!Arrive, Mon!Opened, MonP!Opened, Mon!IsSerial, MonP!IsSerial
  <2>10. (Mon!Signal(t) => MonP!Signal(t)) /\ (Mon!Resume(t) => MonP!Resume(t))
    BY ZenonT(60) DEF Mon!Signal, MonP!Signal, Mon!Resume, MonP!Resume, Mon!Disarm, MonP!Disarm
  <2> QED BY <2>1, <2>2, <2>3, <2>4, <2>5, <2>6, <2>7, <2>8, <2>9, <2>10, ZenonT(60)
<1>6. ASSUME Mon!Next PROVE MonP!Next
  <2>1. \A u : Mon!Intr(u) = MonP!Intr(u)
    BY ZenonT(60) DEF Mon!Intr, MonP!Intr
  <2>2. PICK t \in Threads : Mon!Next!(t)
    BY <1>6 DEF Mon!Next
  <2>3. CASE part = "mutex"
    BY <1>2, <2>1, <2>2, <2>3, ZenonT(60) DEF MonP!Next
  <2>4. CASE part = "sem"
    BY <1>2, <2>1, <2>2, <2>4, ZenonT(60) DEF MonP!Next
  <2>5. CASE part = "latch"
    BY <1>2, <2>1, <2>2, <2>5, ZenonT(60) DEF MonP!Next
  <2>6. CASE Mon!Signal(t) \/ Mon!Resume(t)
    BY <1>2, <2>6 DEF MonP!Next
  <2> QED BY <2>2, <2>3, <2>4, <2>5, <2>6, ZenonT(60)
<1>7. [MCNext]_allvars => [MonP!Next]_(MonP!vars)
  BY <1>6 DEF MCNext, OfLock, OfMonitor, OfFutex, allvars, mvars, MonP!vars, MonP!objs
<1> QED BY <1>1, <1>7, PTL DEF MCSpec, MonP!Spec

FutP == INSTANCE FutexProofs WITH Signalled <- FutexSignalled, pc <- fpc, sig <- fsig

(* ... and one of the futex table.                                         *)
LEMMA FutexInside == MCSpec => FutP!Spec
<1> USE DEF Fut!vars, FutP!vars, Fut!thvars, FutP!thvars, Fut!Waiters, FutP!Waiters,
        Fut!NoWaiter, FutP!NoWaiter, Fut!Cardinality, FutP!Cardinality
<1>1. MCInit => FutP!Init
  BY ZenonT(60) DEF MCInit, Fut!Init, FutP!Init
<1>2. ASSUME NEW t \in Threads
      PROVE  /\ \A w, b : Fut!WaitCheck(t, w, b) => FutP!WaitCheck(t, w, b)
             /\ Fut!WaitQueue(t) => FutP!WaitQueue(t)
             /\ Fut!WaitReturn(t) => FutP!WaitReturn(t)
             /\ Fut!DoWake(t) => FutP!DoWake(t)
             /\ Fut!Signal(t) => FutP!Signal(t)
             /\ Fut!DeliverSignal(t) => FutP!DeliverSignal(t)
  <2> USE DEF Fut!Return, FutP!Return, Fut!Bucket, FutP!Bucket, Fut!Without, FutP!Without,
          Fut!WakeThreads, FutP!WakeThreads, Fut!Block, FutP!Block
  <2>1. ASSUME NEW w, NEW b PROVE Fut!WaitCheck(t, w, b) => FutP!WaitCheck(t, w, b)
    BY ZenonT(60) DEF Fut!WaitCheck, FutP!WaitCheck
  <2>2. Fut!WaitQueue(t) => FutP!WaitQueue(t)
    BY ZenonT(60) DEF Fut!WaitQueue, FutP!WaitQueue
  <2>3. Fut!WaitReturn(t) => FutP!WaitReturn(t)
    BY ZenonT(60) DEF Fut!WaitReturn, FutP!WaitReturn
  <2>4. Fut!DoWake(t) => FutP!DoWake(t)
    BY ZenonT(60) DEF Fut!DoWake, FutP!DoWake
  <2>5. (Fut!Signal(t) => FutP!Signal(t)) /\ (Fut!DeliverSignal(t) => FutP!DeliverSignal(t))
    BY ZenonT(60) DEF Fut!Signal, FutP!Signal, Fut!DeliverSignal, FutP!DeliverSignal
  <2> QED BY <2>1, <2>2, <2>3, <2>4, <2>5, ZenonT(60)
<1>3. ASSUME NEW k, NEW n, NEW b PROVE Fut!Wake(k, n, b) => FutP!Wake(k, n, b)
  BY ZenonT(60) DEF Fut!Wake, FutP!Wake, Fut!Chosen, FutP!Chosen, Fut!Entries, FutP!Entries,
     Fut!Without, FutP!Without, Fut!WakeThreads, FutP!WakeThreads
<1>4. ASSUME NEW k, NEW v PROVE Fut!Store(k, v) => FutP!Store(k, v)
  BY ZenonT(60) DEF Fut!Store, FutP!Store
<1>5. Fut!Next => FutP!Next
  BY <1>2, <1>3, <1>4, ZenonT(60) DEF Fut!Next, FutP!Next
<1>6. [MCNext]_allvars => [FutP!Next]_(FutP!vars)
  BY <1>5 DEF MCNext, OfLock, OfMonitor, OfFutex, allvars, fvars
<1> QED BY <1>1, <1>6, PTL DEF MCSpec, FutP!Spec

(* ... and one of the lock.                                                *)
LEMMA LockInside == MCSpec => Spec
<1>1. MCInit => Init
  BY ZenonT(60) DEF MCInit
<1>2. [MCNext]_allvars => [Next]_vars
  BY ZenonT(60) DEF MCNext, OfLock, OfMonitor, OfFutex, allvars
<1> QED BY <1>1, <1>2, PTL DEF MCSpec, Spec

LEMMA AssumptionsInside == MonP!Assumptions /\ FutP!Assumptions
BY SyncAssumptions, ZenonT(60) DEF Mon!Assumptions, MonP!Assumptions, Fut!Assumptions, FutP!Assumptions,
   Fut!Waiters, FutP!Waiters

(* For every choice of threads, signals, timeouts and futex words: no      *)
(* queue of sync.cc, sem.cc or futex.cc holds a thread that does not wait  *)
(* in it, a mutex has one holder, units are conserved, a latch has one     *)
(* serial thread, and cnt_ of a SharedMutex counts its holders until a     *)
(* signal interrupts a wait.                                               *)
THEOREM QueuesAreExact == MCSpec => []QueuesExact
<1>1. MonP!Spec => [](MonP!TypeOK /\ MonP!MutualExclusion)
  BY AssumptionsInside, MonP!OneHolder, ZenonT(60)
<1>2. MonP!Spec => [](MonP!UnitsConserved /\ MonP!SerialOnce)
  BY AssumptionsInside, MonP!NothingInvented, Zenon
<1>3. FutP!Spec => [](FutP!TypeOK /\ FutP!BucketsHoldWaiters)
  BY AssumptionsInside, FutP!ListsExact, ZenonT(60)
<1>4. MonP!TypeOK => Mon!TypeOK
  BY ZenonT(60) DEF Mon!TypeOK, MonP!TypeOK, Mon!Queues, MonP!Queues, Mon!IsIn, MonP!IsIn, Mon!Linked, MonP!Linked
<1>5. /\ MonP!MutualExclusion => Mon!MutualExclusion
      /\ MonP!UnitsConserved => Mon!UnitsConserved
      /\ MonP!SerialOnce => Mon!SerialOnce
  BY ZenonT(60) DEF Mon!MutualExclusion, MonP!MutualExclusion, Mon!UnitsConserved, MonP!UnitsConserved,
     Mon!SerialOnce, MonP!SerialOnce, Mon!Cardinality, MonP!Cardinality
<1>6. FutP!TypeOK => Fut!TypeOK
  BY ZenonT(60) DEF Fut!TypeOK, FutP!TypeOK, Fut!Entries, FutP!Entries, Fut!Waiters, FutP!Waiters,
     Fut!Results, FutP!Results
<1>7. FutP!BucketsHoldWaiters => Fut!BucketsHoldWaiters
  BY ZenonT(60) DEF Fut!BucketsHoldWaiters, FutP!BucketsHoldWaiters, Fut!Entries, FutP!Entries,
     Fut!Bucket, FutP!Bucket, Fut!Cardinality, FutP!Cardinality
<1> QED BY <1>1, <1>2, <1>3, <1>4, <1>5, <1>6, <1>7, MonitorInside, FutexInside, LockInside,
           CountsHolders, PTL DEF QueuesExact

(* Nobody sleeps for a mutex, semaphore, latch or futex word that it could *)
(* have, and nobody is woken for nothing.                                  *)
THEOREM NoWakeUpIsLost == MCSpec => []SleepersMustWait
<1>1. MonP!Spec => []MonP!SleepersMustWait
  BY AssumptionsInside, MonP!NoSleeperForgotten, ZenonT(60)
<1>2. FutP!Spec => [](FutP!NoLostWakeup /\ FutP!WokenForAReason)
  BY AssumptionsInside, FutP!NoWakeupLost, Zenon
<1>3. MonP!SleepersMustWait => Mon!SleepersMustWait
  BY ZenonT(60) DEF Mon!SleepersMustWait, MonP!SleepersMustWait, Mon!Queues, MonP!Queues,
     Mon!IsIn, MonP!IsIn, Mon!Linked, MonP!Linked
<1>4. FutP!NoLostWakeup /\ FutP!WokenForAReason => Fut!NoLostWakeup /\ Fut!WokenForAReason
  BY ZenonT(60) DEF Fut!NoLostWakeup, FutP!NoLostWakeup, Fut!WokenForAReason, FutP!WokenForAReason
<1> QED BY <1>1, <1>2, <1>3, <1>4, MonitorInside, FutexInside, PTL DEF SleepersMustWait

(* Every step of WakeOne and of FutexTable::Wake serves the oldest waiter  *)
(* first, and a futex wait reports success exactly if a wake counted it.   *)
THEOREM InOrder == MCSpec => ServedInOrder
<1>1. FutP!Spec => [][FutP!OldestFirst /\ FutP!WakeCountIsExact]_(FutP!vars)
  BY AssumptionsInside, FutP!FairAndCounted
<1>2. [FutP!OldestFirst /\ FutP!WakeCountIsExact]_(FutP!vars)
        => Fut!OldestFirst /\ Fut!WakeCountIsExact
  <2>1. FutP!OldestFirst /\ FutP!WakeCountIsExact => Fut!OldestFirst /\ Fut!WakeCountIsExact
    BY ZenonT(60) DEF Fut!OldestFirst, FutP!OldestFirst, Fut!WakeCountIsExact, FutP!WakeCountIsExact
  <2>2. UNCHANGED FutP!vars => Fut!OldestFirst /\ Fut!WakeCountIsExact
    BY ZenonT(60) DEF FutP!vars, FutP!thvars, Fut!OldestFirst, Fut!WakeCountIsExact
  <2> QED BY <2>1, <2>2
<1>3. [WritersInOrder]_vars => WritersInOrder
  BY ZenonT(60) DEF vars, queues, WritersInOrder, In
<1>4. [][WritersInOrder]_vars /\ [][FutP!OldestFirst /\ FutP!WakeCountIsExact]_(FutP!vars)
        => ServedInOrder
  BY <1>2, <1>3, PTL DEF ServedInOrder
<1> QED BY <1>1, <1>4, FutexInside, LockInside, OldestWriterFirst, PTL
=============================================================================
