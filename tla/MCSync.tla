------------------------------- MODULE MCSync -------------------------------
(***************************************************************************)
(* The synchronisation primitives side by side, for TLC: the readers-      *)
(* writer lock of SharedMutex, the objects of Monitor and a futex table.   *)
(* They share no state; a behaviour exercises one of them and leaves the   *)
(* others as they were created.                                            *)
(***************************************************************************)
EXTENDS SharedMutex

CONSTANTS
    MonitorSignalled, Parts, MaxValue,
    FutexSignalled, Keys, Vals, Buckets, BucketOf, Bitsets, WaitArgs, Timed, MaxWake

VARIABLES
    which,
    part, held, bound, queue, value, cnt, th, spare, serial,
    mem, futexes, fpc, waiter, waker, armed, timer, timed_out, fsig, ret, woken, settled

mvars == <<part, held, bound, queue, value, cnt, th, spare, serial>>
fvars == <<mem, futexes, fpc, waiter, waker, armed, timer, timed_out, fsig, ret, woken, settled>>
allvars == <<which, vars, mvars, fvars>>

Mon == INSTANCE Monitor WITH Signalled <- MonitorSignalled
Fut == INSTANCE Futex WITH Signalled <- FutexSignalled, pc <- fpc, sig <- fsig
ASSUME SyncAssumptions == Mon!Assumptions /\ Fut!Assumptions

(* Values for the runs.  Two futex words in one bucket: thread 1 waits for *)
(* one bit of the first word only, 2 for any, 3 for any of the second; or  *)
(* all threads wait for one word.                                          *)
OneBucket == [k \in Keys |-> "b"]
Arg(k, bits) == [key |-> k, val |-> 0, bitset |-> bits]
Mixed ==
    [t \in Threads |-> CASE t = 1 -> {Arg("k1", {"x"})}
                             [] t = 2 -> {Arg("k1", {"x", "y"})}
                             [] t = 3 -> {Arg("k2", {"x", "y"})}]
OneWord == [t \in Threads |-> {Arg("k1", {"x"})}]

MCInit ==
    /\ which \in {"rwlock", "monitor", "futex"}
    /\ Init /\ Mon!Init /\ Fut!Init
    /\ which = "monitor" \/ part = "mutex"
    /\ which = "futex" \/ \A k \in DOMAIN mem : mem[k] = 0

(* A step of the primitive in use.                                         *)
OfLock(A) == which = "rwlock" /\ A /\ UNCHANGED <<which, mvars, fvars>>
OfMonitor(A) == which = "monitor" /\ A /\ UNCHANGED <<which, vars, fvars>>
OfFutex(A) == which = "futex" /\ A /\ UNCHANGED <<which, vars, mvars>>

MCNext == OfLock(Next) \/ OfMonitor(Mon!Next) \/ OfFutex(Fut!Next)

(* The fairness of SharedMutex, Monitor and Futex, of whichever is in use. *)
Sections(t) == OfLock(Unlock(t) \/ DowngradeLock(t)) \/ OfMonitor(Mon!Unlock(t)) \/ OfFutex(Fut!WaitQueue(t))
SharedSections(t) == OfLock(UnlockShared(t)) \/ OfMonitor(Mon!DoWait(t)) \/ OfFutex(Fut!DoWake(t))
Wakeups(t) == OfLock(WakeNext(t))
Resumptions(t) == OfLock(Resume(t)) \/ OfMonitor(Mon!Resume(t)) \/ OfFutex(Fut!WaitReturn(t))
MCSpec ==
    /\ MCInit /\ [][MCNext]_allvars
    /\ \A t \in Threads :
          WF_allvars(Sections(t)) /\ WF_allvars(SharedSections(t)) /\ WF_allvars(Wakeups(t)) /\ WF_allvars(Resumptions(t))

-----------------------------------------------------------------------------
(* Queues and counts are exact: no queue holds a thread that does not wait *)
(* there, or holds one twice, whichever of a hand-over, a timeout and a    *)
(* signal ends a wait (futex_waiter lives on a stack); a held mutex has    *)
(* one holder, semaphore units are neither lost nor made up, a latch has   *)
(* one serial thread, and cnt_ counts the holders of a lock.               *)
QueuesExact ==
    /\ Mon!TypeOK /\ Mon!MutualExclusion /\ Mon!UnitsConserved /\ Mon!SerialOnce
    /\ Fut!TypeOK /\ Fut!BucketsHoldWaiters
    /\ CntIsHolders

(* No lost wake-up: a thread sleeps only for a mutex that is held, a       *)
(* semaphore at zero, a latch that is up, a futex word whose waiters were  *)
(* not all woken since it changed; and nobody is woken for nothing.        *)
SleepersMustWait == Mon!SleepersMustWait /\ Fut!NoLostWakeup /\ Fut!WokenForAReason

(* Waiters are served in the order of their arrival, writers of a lock     *)
(* (WakeOne) and waiters on a futex word (FutexTable::Wake), and a futex   *)
(* wait reports success exactly if a wake counted it.                      *)
ServedInOrder == [][WritersInOrder /\ Fut!OldestFirst /\ Fut!WakeCountIsExact]_allvars

(* Waits end: of a reader when the writer leaves, of who queues for a      *)
(* mutex, of a futex waiter that is woken, signalled or timed out, and of  *)
(* any wait for a lock that a signal interrupts.                           *)
MustEndNow(t) ==
    CASE which = "rwlock" -> MustEnd(t)
      [] which = "monitor" -> Mon!IsIn(t) = "mutex"
      [] which = "futex" -> Fut!MustEnd(t)
      [] OTHER -> FALSE
Ended(t) ==
    CASE which = "rwlock" -> HasEnded(t)
      [] which = "monitor" -> th[t].pc = "user"
      [] OTHER -> fpc[t] = "user"
WaitsEnd == \A t \in Threads : MustEndNow(t) ~> Ended(t)

(* timer.h:112 "WakeOnTimeout wakes the running thread (if it later        *)
(* blocks) when a timer expires" (see Futex).                              *)
TimeoutEndsWait == Fut!TimeoutEndsWait
=============================================================================
