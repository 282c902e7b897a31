------------------------------- MODULE EventFD -------------------------------
(***************************************************************************)
(* EventFDFile (fs/eventfd.cc): a counter of W bits that threads add to    *)
(* and take from, blocking on one WaitQueue while the counter would        *)
(* overflow or is zero.  Each call is one section under lock_, up to the   *)
(* point where it parks.                                                   *)
(***************************************************************************)
EXTENDS Integers, FiniteSets

CONSTANTS
    Threads,
    Top,           \* UINT64_MAX
    InitVals,      \* the initial values eventfd is called with
    Signalled,     \* the threads that are sent signals
    MaxWritten     \* bound: how much is added in all

VARIABLES
    semaphore,  \* created with EFD_SEMAPHORE
    val_, queue_, poll_,
    pc,         \* "user", "parked" or "ready"
    op,         \* what a blocked thread adds; 0 if it reads
    sig,        \* a signal is pending
    written,    \* history: the initial value and all that was added
    taken       \* history: all that reads returned

hist == <<written, taken>>
vars == <<semaphore, val_, queue_, poll_, pc, op, sig, hist>>

(* UINT64_MAX is not zero, and the counter starts within it.               *)
Assumptions == Top \in Nat \ {0} /\ InitVals \subseteq 0..Top

(* The event mask of a counter, as load() computes it for a fresh file.    *)
Events(v) == (IF v > 0 THEN {"In"} ELSE {}) \cup (IF v < Top THEN {"Out"} ELSE {})

Init ==
    /\ semaphore \in BOOLEAN
    /\ val_ \in InitVals
    /\ queue_ = {}
    /\ poll_ = {"Out"}
    /\ pc = [t \in Threads |-> "user"]
    /\ op = [t \in Threads |-> 0]
    /\ sig = [t \in Threads |-> FALSE]
    /\ written = val_ /\ taken = 0

Plus(a, b) == (a + b) % (Top + 1)

(* Mutant: the test for overflow is off by one.                            *)
MustWaitOffByOne(v) == IF v = 0 THEN val_ = 0 ELSE val_ + v > Top + 1

(* A read waits while the counter is zero, a write while it would wrap.    *)
MustWait(v) == IF v = 0 THEN val_ = 0 ELSE Plus(val_, v) < v

WakeAll(q) ==
    /\ queue_' = {}
    /\ pc' = [t \in Threads |-> IF t \in queue_ /\ q[t] = "parked" THEN "ready" ELSE q[t]]

Took == IF semaphore THEN 1 ELSE val_

(* The rest of Read and of Write, once they need not wait.                 *)
DoRead(t) ==
    /\ val_' = val_ - Took
    /\ taken' = taken + Took
    /\ poll_' = (IF val_' = 0 THEN poll_ \ {"In"} ELSE poll_)
                    \cup (IF val_' < Top THEN {"Out"} ELSE {})
    /\ WakeAll([pc EXCEPT ![t] = "user"])
    /\ UNCHANGED written

DoWrite(t, v) ==
    /\ written + v <= MaxWritten
    /\ val_' = Plus(val_, v)
    /\ written' = written + v
    /\ poll_' = (poll_ \cup {"In"}) \ (IF val_' = Top THEN {"Out"} ELSE {})
    /\ WakeAll([pc EXCEPT ![t] = "user"])
    /\ UNCHANGED taken

Finish(t, v) ==
    /\ \/ v = 0 /\ DoRead(t)
       \/ v # 0 /\ DoWrite(t, v)
    /\ op' = [op EXCEPT ![t] = 0]

(* Back to the caller with EAGAIN or EINTR.                                *)
Fail(t) ==
    /\ pc' = [pc EXCEPT ![t] = "user"]
    /\ op' = [op EXCEPT ![t] = 0]
    /\ UNCHANGED <<val_, poll_, hist>>

Park(t, v) ==
    /\ queue_' = queue_ \cup {t}
    /\ pc' = [pc EXCEPT ![t] = "parked"]
    /\ op' = [op EXCEPT ![t] = v]
    /\ UNCHANGED <<val_, poll_, hist>>

-----------------------------------------------------------------------------
(* read (v = 0) and write of v.  A write of zero returns at once and one   *)
(* of UINT64_MAX is refused, so v < Top.                                   *)
Call(t, v, nonblocking) ==
    /\ pc[t] = "user"
    /\ \/ ~MustWait(v) /\ Finish(t, v)
       \/ MustWait(v) /\ (nonblocking \/ sig[t]) /\ Fail(t) /\ UNCHANGED queue_
       \/ MustWait(v) /\ ~nonblocking /\ ~sig[t] /\ Park(t, v)
    /\ UNCHANGED <<semaphore, sig>>

(* Back from parking with the lock: still armed means interrupted, else    *)
(* the condition is tested again.                                          *)
Resume(t) ==
    /\ pc[t] = "ready"
    /\ \/ t \in queue_ /\ Fail(t) /\ queue_' = queue_ \ {t}
       \/ t \notin queue_ /\ ~MustWait(op[t]) /\ Finish(t, op[t])
       \/ t \notin queue_ /\ MustWait(op[t]) /\ sig[t] /\ Fail(t) /\ UNCHANGED queue_
       \/ t \notin queue_ /\ MustWait(op[t]) /\ ~sig[t] /\ Park(t, op[t])
    /\ UNCHANGED <<semaphore, sig>>

(* The process is saved and restored: only the counter survives, and no    *)
(* thread is inside a call.                                                *)
Restore ==
    /\ \A t \in Threads : pc[t] = "user"
    /\ queue_' = {}
    /\ poll_' = Events(val_)
    /\ UNCHANGED <<semaphore, val_, pc, op, sig, hist>>

Signal(t) ==
    /\ t \in Signalled /\ ~sig[t]
    /\ sig' = [sig EXCEPT ![t] = TRUE]
    /\ pc' = [pc EXCEPT ![t] = IF @ = "parked" THEN "ready" ELSE @]
    /\ UNCHANGED <<semaphore, val_, queue_, poll_, op, hist>>

DeliverSignal(t) ==
    /\ pc[t] = "user" /\ sig[t]
    /\ sig' = [sig EXCEPT ![t] = FALSE]
    /\ UNCHANGED <<semaphore, val_, queue_, poll_, pc, op, hist>>

Next ==
    \/ \E t \in Threads :
          \/ \E v \in 0..(Top - 1), nonblocking \in BOOLEAN : Call(t, v, nonblocking)
          \/ Resume(t) \/ Signal(t) \/ DeliverSignal(t)
    \/ Restore

Spec == Init /\ [][Next]_vars

-----------------------------------------------------------------------------
TypeOK ==
    /\ semaphore \in BOOLEAN
    /\ val_ \in 0..Top
    /\ queue_ \subseteq {t \in Threads : pc[t] # "user"}
    /\ poll_ \subseteq {"In", "Out"}
    /\ pc \in [Threads -> {"user", "parked", "ready"}]
    /\ op \in [Threads -> 0..(Top - 1)]
    /\ sig \in [Threads -> BOOLEAN]
    /\ written \in Nat /\ taken \in Nat

(* The counter neither loses nor invents events, at its upper end either:  *)
(* what was added is what reads have returned plus what is still there.    *)
CountConserved == written = taken + val_

(* No lost wake-up: a thread sleeps in read only while the counter is      *)
(* zero, and in write only while its value does not fit, readers and       *)
(* writers sharing one queue.                                              *)
SleepersMustWait == \A t \in Threads : pc[t] = "parked" => t \in queue_ /\ MustWait(op[t])

(* fs/poll.h:29-30: kPollIn "available for read()", kPollOut "available    *)
(* for write()": the event mask says what would not block, as load() has   *)
(* it after a restore.  It does not hold from the start if the counter is  *)
(* created with a value above zero, see InitVals.                          *)
PollMaskIsCurrent == poll_ = Events(val_)
=============================================================================
