----------------------------- MODULE SharedMutex -----------------------------
(***************************************************************************)
(* rt::SharedMutex (bindings/sync.h, bindings/sync.cc): the readers-writer *)
(* lock that guards the memory map, memfs files, directories and the       *)
(* serverless function table.                                              *)
(*                                                                         *)
(* Every locked section of the code runs under the spin lock lock_, so it  *)
(* is one step here; a thread that blocks is armed and parked in the same  *)
(* step (UnlockAndPark).  What is NOT under lock_ is a step of its own:    *)
(* the WakeAll() of the local queue "tmp" after a release, the return of a *)
(* woken waiter, and the arrival of a signal.                              *)
(***************************************************************************)
EXTENDS Integers, Sequences, FiniteSets

CONSTANTS
    Threads,     \* the threads that use the lock
    Signalled,   \* the threads that can be sent signals
    MaxSignals   \* bound: how many signals are sent in a behaviour

ASSUME ThreadsFinite == IsFiniteSet(Threads)
ASSUME SignalledAreThreads == Signalled \subseteq Threads
ASSUME MaxSignalsNat == MaxSignals \in Nat

VARIABLES
    cnt_,              \* -1: a writer, 0: free, n > 0: n readers
    shared_cnt_,       \* what the code believes is the length of shared_queue_
    exclusive_queue_,  \* threads waiting to be the writer, oldest first
    shared_queue_,     \* threads waiting to be readers (only ever spliced whole)
    tmp,               \* tmp[t]: the local WaitQueue a release by t still has to wake
    pc,                \* pc[t]: what t is doing with the lock
    want,              \* want[t]: the mode t last blocked for
    intr,              \* intr[t]: whether t's last wait was interruptible
    sig,               \* sig[t]: a signal is pending for t (the interrupt flag)
    signals            \* number of signals sent so far

queues == <<exclusive_queue_, shared_queue_>>
waits  == <<want, intr>>
sigs   == <<sig, signals>>
vars   == <<cnt_, shared_cnt_, queues, tmp, pc, waits, sigs>>

Modes == {"shared", "excl"}

(* x is an entry of the sequence q; q without its i-th entry.               *)
In(q, x) == \E i \in 1..Len(q) : q[i] = x
DeleteAt(q, i) == [j \in 1..(Len(q) - 1) |-> IF j < i THEN q[j] ELSE q[j + 1]]

(* link_armed: t is linked in one of the queues, a release's tmp included. *)
InTmp(t) == \E u \in Threads : t \in tmp[u]
InQueue(t) == In(exclusive_queue_, t) \/ t \in shared_queue_
Linked(t) == InQueue(t) \/ InTmp(t)

(* t runs code of its own: not parked, and its last release is complete.   *)
At(t, where) == pc[t] = where /\ tmp[t] = {}

Goto(t, where) == pc' = [pc EXCEPT ![t] = where]

Park(t, how, interruptible) ==
    /\ Goto(t, "parked")
    /\ want' = [want EXCEPT ![t] = how]
    /\ intr' = [intr EXCEPT ![t] = interruptible]

Init ==
    /\ cnt_ = 0 /\ shared_cnt_ = 0
    /\ exclusive_queue_ = <<>> /\ shared_queue_ = {}
    /\ tmp = [t \in Threads |-> {}]
    /\ pc = [t \in Threads |-> "idle"]
    /\ want = [t \in Threads |-> "excl"]
    /\ intr = [t \in Threads |-> FALSE]
    /\ sig = [t \in Threads |-> FALSE]
    /\ signals = 0

-----------------------------------------------------------------------------
(* Acquiring.                                                              *)

TakeExclusive(t) ==
    /\ cnt_ = 0
    /\ cnt_' = -1
    /\ Goto(t, "excl")
    /\ UNCHANGED <<shared_cnt_, queues, tmp, waits, sigs>>

WaitExclusive(t, interruptible) ==
    /\ exclusive_queue_' = Append(exclusive_queue_, t)
    /\ Park(t, "excl", interruptible)
    /\ UNCHANGED <<shared_cnt_, shared_queue_, tmp, sigs>>

Lock(t) ==
    /\ At(t, "idle")
    /\ \/ TakeExclusive(t)
       \/ cnt_ # 0 /\ WaitExclusive(t, FALSE) /\ UNCHANGED cnt_

TryLock(t) == At(t, "idle") /\ TakeExclusive(t)

(* With a signal pending SetInterruptible makes the call return false      *)
(* instead of blocking, and the system call fails with EINTR.              *)
InterruptibleLock(t) ==
    /\ At(t, "idle")
    /\ \/ TakeExclusive(t)
       \/ cnt_ # 0 /\ ~sig[t] /\ WaitExclusive(t, TRUE) /\ UNCHANGED cnt_
       \/ /\ cnt_ # 0 /\ sig[t]
          /\ Goto(t, "eintr")
          /\ UNCHANGED <<cnt_, shared_cnt_, queues, tmp, waits, sigs>>

TakeShared(t) ==
    /\ cnt_ >= 0
    /\ cnt_' = cnt_ + 1
    /\ Goto(t, "shared")
    /\ UNCHANGED <<shared_cnt_, queues, tmp, waits, sigs>>

WaitShared(t, interruptible) ==
    /\ shared_cnt_' = shared_cnt_ + 1
    /\ shared_queue_' = shared_queue_ \cup {t}
    /\ Park(t, "shared", interruptible)
    /\ UNCHANGED <<cnt_, exclusive_queue_, tmp, sigs>>

LockShared(t) ==
    /\ At(t, "idle")
    /\ TakeShared(t) \/ (cnt_ < 0 /\ WaitShared(t, FALSE))

TryLockShared(t) == At(t, "idle") /\ TakeShared(t)

(* shared_cnt_ is incremented before WaitInterruptibleNoRecheck finds the  *)
(* pending signal and returns false.                                       *)
InterruptibleLockShared(t) ==
    /\ At(t, "idle")
    /\ \/ TakeShared(t)
       \/ cnt_ < 0 /\ ~sig[t] /\ WaitShared(t, TRUE)
       \/ /\ cnt_ < 0 /\ sig[t]
          /\ shared_cnt_' = shared_cnt_ + 1
          /\ Goto(t, "eintr")
          /\ UNCHANGED <<cnt_, queues, tmp, waits, sigs>>

-----------------------------------------------------------------------------
(* Releasing.  dst is the local queue tmp of the releasing thread.         *)

(* Mutant: the caller of DowngradeLock is not counted.                     *)
WakeAllSharedOnlyQueued(t, extra) ==
    /\ cnt_' = shared_cnt_
    /\ shared_cnt_' = 0
    /\ shared_queue_' = {}
    /\ tmp' = [tmp EXCEPT ![t] = shared_queue_]
    /\ UNCHANGED exclusive_queue_

WakeAllShared(t, extra) ==
    /\ cnt_' = shared_cnt_ + extra
    /\ shared_cnt_' = 0
    /\ shared_queue_' = {}
    /\ tmp' = [tmp EXCEPT ![t] = shared_queue_]
    /\ UNCHANGED exclusive_queue_

WakeOneExclusive(t) ==
    /\ cnt_' = -1
    /\ exclusive_queue_' = Tail(exclusive_queue_)
    /\ tmp' = [tmp EXCEPT ![t] = {Head(exclusive_queue_)}]
    /\ UNCHANGED <<shared_cnt_, shared_queue_>>

Unlock(t) ==
    /\ At(t, "excl")
    /\ \/ shared_queue_ # {} /\ WakeAllShared(t, 0)
       \/ shared_queue_ = {} /\ exclusive_queue_ # <<>> /\ WakeOneExclusive(t)
       \/ /\ shared_queue_ = {} /\ exclusive_queue_ = <<>>
          /\ cnt_' = 0
          /\ UNCHANGED <<shared_cnt_, queues, tmp>>
    /\ Goto(t, "idle")
    /\ UNCHANGED <<waits, sigs>>

(* Mutant: the last reader does not look for waiting writers.              *)
UnlockSharedNoHandOff(t) ==
    /\ At(t, "shared")
    /\ cnt_' = cnt_ - 1
    /\ Goto(t, "idle")
    /\ UNCHANGED <<shared_cnt_, queues, tmp, waits, sigs>>

UnlockShared(t) ==
    /\ At(t, "shared")
    /\ \/ cnt_ = 1 /\ exclusive_queue_ # <<>> /\ WakeOneExclusive(t)
       \/ /\ cnt_ # 1 \/ exclusive_queue_ = <<>>
          /\ cnt_' = cnt_ - 1
          /\ UNCHANGED <<shared_cnt_, queues, tmp>>
    /\ Goto(t, "idle")
    /\ UNCHANGED <<waits, sigs>>

(* Mutant: the other readers are not waited for.                           *)
UpgradeLockAtOnce(t) ==
    /\ At(t, "shared")
    /\ cnt_' = -1
    /\ Goto(t, "excl")
    /\ UNCHANGED <<shared_cnt_, queues, tmp, waits, sigs>>

UpgradeLock(t) ==
    /\ At(t, "shared")
    /\ \/ cnt_ > 1 /\ cnt_' = cnt_ - 1 /\ WaitExclusive(t, FALSE)
       \/ /\ cnt_ = 1
          /\ cnt_' = -1
          /\ Goto(t, "excl")
          /\ UNCHANGED <<shared_cnt_, queues, tmp, waits, sigs>>

DowngradeLock(t) ==
    /\ At(t, "excl")
    /\ WakeAllShared(t, 1)
    /\ Goto(t, "shared")
    /\ UNCHANGED <<waits, sigs>>

(* One iteration of tmp.WakeAll() (or tmp.WakeOne()), without the lock:    *)
(* pop a waiter and make it runnable, unless a signal already has.         *)
WakeNext(t) ==
    \E u \in tmp[t] :
        /\ tmp' = [tmp EXCEPT ![t] = @ \ {u}]
        /\ pc' = IF pc[u] = "parked" THEN [pc EXCEPT ![u] = "ready"] ELSE pc
        /\ UNCHANGED <<cnt_, shared_cnt_, queues, waits, sigs>>

-----------------------------------------------------------------------------
(* Waiting.                                                                *)

(* The waiter returns: it holds the lock in the mode it waited for, ...    *)
ResumeGranted(t) ==
    /\ pc[t] = "ready"
    /\ ~(intr[t] /\ sig[t] /\ Linked(t))
    /\ Goto(t, want[t])
    /\ UNCHANGED <<cnt_, shared_cnt_, queues, tmp, waits, sigs>>

(* ... unless a signal woke it and Disarm finds it still linked: it        *)
(* unlinks itself from whatever queue it is in and returns false.          *)
ResumeInterrupted(t) ==
    /\ pc[t] = "ready"
    /\ intr[t] /\ sig[t]
    /\ \/ /\ \E i \in 1..Len(exclusive_queue_) :
              /\ exclusive_queue_[i] = t
              /\ exclusive_queue_' = DeleteAt(exclusive_queue_, i)
          /\ UNCHANGED <<shared_queue_, tmp>>
       \/ /\ t \in shared_queue_
          /\ shared_queue_' = shared_queue_ \ {t}
          /\ UNCHANGED <<exclusive_queue_, tmp>>
       \/ /\ InTmp(t)
          /\ tmp' = [u \in Threads |-> tmp[u] \ {t}]
          /\ UNCHANGED queues
    /\ Goto(t, "eintr")
    /\ UNCHANGED <<cnt_, shared_cnt_, waits, sigs>>

(* Mutant: the parked thread is not made runnable.                         *)
SignalNoWake(t) ==
    /\ t \in Signalled /\ ~sig[t] /\ signals < MaxSignals
    /\ sig' = [sig EXCEPT ![t] = TRUE]
    /\ signals' = signals + 1
    /\ UNCHANGED <<cnt_, shared_cnt_, queues, tmp, pc, waits>>

(* deliver_interrupt(): mark the thread interrupted, and make it runnable  *)
(* if it is parked in an interruptible wait.                               *)
Signal(t) ==
    /\ t \in Signalled /\ ~sig[t] /\ signals < MaxSignals
    /\ sig' = [sig EXCEPT ![t] = TRUE]
    /\ signals' = signals + 1
    /\ pc' = IF pc[t] = "parked" /\ intr[t]
             THEN [pc EXCEPT ![t] = "ready"] ELSE pc
    /\ UNCHANGED <<cnt_, shared_cnt_, queues, tmp, waits>>

(* The system call ends and its signals are delivered.                     *)
ResetInterruptState(t) ==
    /\ At(t, "idle") \/ At(t, "eintr")
    /\ sig[t]
    /\ sig' = [sig EXCEPT ![t] = FALSE]
    /\ Goto(t, "idle")
    /\ UNCHANGED <<cnt_, shared_cnt_, queues, tmp, waits, signals>>

Acquire(t) ==
    \/ Lock(t) \/ TryLock(t) \/ InterruptibleLock(t)
    \/ LockShared(t) \/ TryLockShared(t) \/ InterruptibleLockShared(t)

Convert(t) == UpgradeLock(t) \/ DowngradeLock(t)

Resume(t) == ResumeGranted(t) \/ ResumeInterrupted(t)

Next ==
    \E t \in Threads :
        \/ Acquire(t) \/ Unlock(t) \/ UnlockShared(t) \/ Convert(t)
        \/ WakeNext(t) \/ Resume(t) \/ Signal(t) \/ ResetInterruptState(t)

Spec == Init /\ [][Next]_vars

(* Critical sections end and runnable threads run: a holder leaves the     *)
(* mode it holds, a release finishes its wake-ups, a woken waiter returns. *)
Fairness ==
    \A t \in Threads :
        /\ WF_vars(Unlock(t) \/ DowngradeLock(t))
        /\ WF_vars(UnlockShared(t))
        /\ WF_vars(WakeNext(t))
        /\ WF_vars(Resume(t))

FairSpec == Spec /\ Fairness

-----------------------------------------------------------------------------
(* t holds the lock, or it has been handed the lock by a release and has   *)
(* not returned from its wait yet.                                         *)
Granted(t, m) ==
    \/ pc[t] = m
    \/ /\ pc[t] \in {"parked", "ready"} /\ want[t] = m
       /\ ~InQueue(t)

Readers == {t \in Threads : Granted(t, "shared")}
Writers == {t \in Threads : Granted(t, "excl")}

TypeOK ==
    /\ cnt_ \in Int /\ shared_cnt_ \in Nat
    /\ exclusive_queue_ \in Seq(Threads)
    /\ shared_queue_ \in SUBSET Threads
    /\ tmp \in [Threads -> SUBSET Threads]
    /\ pc \in [Threads -> {"idle", "eintr", "shared", "excl", "parked", "ready"}]
    /\ want \in [Threads -> Modes]
    /\ intr \in [Threads -> BOOLEAN]
    /\ sig \in [Threads -> BOOLEAN]
    /\ signals \in 0..MaxSignals

(* The lock excludes: while a thread is inside as a writer no other thread *)
(* is inside in any mode, whatever signals interrupt the waits.            *)
MutualExclusion ==
    \A t, u \in Threads :
        pc[t] = "excl" /\ u # t => pc[u] \notin {"shared", "excl"}

(* sync.h:763 says of cnt_ ">0 for # of readers, 0 for unlocked, -1 for a  *)
(* writer": until a first signal interrupts a wait, the count is exactly   *)
(* the threads inside or handed the lock.                                  *)
CntIsHolders ==
    signals = 0 =>
        IF cnt_ < 0 THEN cnt_ = -1 /\ Cardinality(Writers) = 1 /\ Readers = {}
                    ELSE cnt_ = Cardinality(Readers) /\ Writers = {}

(* sync.h:764 says of shared_cnt_ "number of entries in the shared_queue_".*)
SharedCntIsQueueLength == shared_cnt_ = Cardinality(shared_queue_)

(* No waiter is left behind: a thread queued to write is queued behind a   *)
(* held lock, and a thread queued to read is queued behind a writer.       *)
NoStrandedWaiter ==
    /\ exclusive_queue_ # <<>> => cnt_ # 0
    /\ shared_queue_ # {} => cnt_ = -1

(* Writers are handed the lock in the order in which they queued: a step   *)
(* that takes a waiter off exclusive_queue_ takes the oldest one, or one   *)
(* whose wait a signal has interrupted.                                    *)
WritersInOrder ==
    \A i \in 1..Len(exclusive_queue_) :
        LET w == exclusive_queue_[i]
        IN  In(exclusive_queue_', w) \/ i = 1 \/ pc'[w] = "eintr"

(* SharedMutex implements the abstract readers-writer lock; in particular  *)
(* DowngradeLock never lets another writer in between (sync.h:754).        *)
RW == INSTANCE RWLock WITH
          mode <- [t \in Threads |-> IF pc[t] \in Modes THEN pc[t] ELSE "none"]
ImplementsRWLock == RW!Spec

(* Why the lock excludes, as an inductive invariant.  The queues hold      *)
(* distinct waiters of the right mode; a waiter that runs while it is      *)
(* still linked was interrupted; a release wakes only threads it has       *)
(* granted; and cnt_, even when interrupted waits have made it too large,  *)
(* never says fewer threads than are inside or granted.                    *)
Waiting(t) == pc[t] \in {"parked", "ready"}

QueuesOK ==
    /\ \A i, j \in 1..Len(exclusive_queue_) :
          exclusive_queue_[i] = exclusive_queue_[j] => i = j
    /\ \A t \in Threads :
          /\ In(exclusive_queue_, t) => Waiting(t) /\ want[t] = "excl"
          /\ t \in shared_queue_ => Waiting(t) /\ want[t] = "shared"
          /\ Linked(t) /\ pc[t] = "ready" => intr[t] /\ sig[t]

TmpOK ==
    \A t, u, v \in Threads :
        v \in tmp[t] => /\ Waiting(v) /\ ~InQueue(v)
                        /\ v \in tmp[u] => t = u

CountsOK ==
    /\ cnt_ >= -1
    /\ cnt_ = -1 => Readers = {} /\ \A t, u \in Writers : t = u
    /\ cnt_ >= 0 => Writers = {} /\ Cardinality(Readers) <= cnt_
    /\ Cardinality(shared_queue_) <= shared_cnt_

Inv == TypeOK /\ QueuesOK /\ TmpOK /\ CountsOK /\ NoStrandedWaiter

(* The waits that must end: of a reader behind a writer, as every way a    *)
(* writer gives up exclusive mode hands the lock to all queued readers (as *)
(* long as there are no signals: an interrupted writer may leave a lock    *)
(* nobody holds), and any interruptible wait with a signal pending.        *)
Interrupted(t) == intr[t] /\ sig[t]
MustEnd(t) == Waiting(t) /\ (Interrupted(t) \/ (want[t] = "shared" /\ signals = 0))
HasEnded(t) == ~Waiting(t) \/ (signals > 0 /\ ~Interrupted(t))
=============================================================================
