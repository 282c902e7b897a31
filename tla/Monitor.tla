------------------------------- MODULE Monitor -------------------------------
(***************************************************************************)
(* rt::Mutex, rt::ConditionVariable and rt::Latch (bindings/sync.cc), and  *)
(* the semaphores of the libc shim (shim/backend/sem.cc).  All of them     *)
(* queue threads under a spin lock, hand over what is released and do not  *)
(* recheck, so a section under the spin lock is one step and a thread that *)
(* was woken already has what it waited for.                               *)
(***************************************************************************)
EXTENDS Integers, Sequences, FiniteSets

CONSTANTS
    Threads,
    Signalled,  \* the threads that are sent signals
    Parts,      \* which objects are in use: subset of {"mutex", "sem", "latch"}
    MaxValue    \* bound: the semaphore's value, and the latch's count

VARIABLES
    part,
    held,       \* Mutex::held_
    bound,      \* ConditionVariable::lock_ is set
    queue,      \* the wait queues: of the mutex, condition, semaphore, latch
    value,      \* ShimSem::value
    cnt,        \* Latch::cnt_
    th,         \* the threads
    spare,      \* history: semaphore units posted and not taken
    serial      \* history: threads told they are the serial one

\* 0 stands for no thread.
Assumptions == 0 \notin Threads /\ MaxValue \in Nat /\ Parts \subseteq {"mutex", "sem", "latch"}

objs == <<held, bound, queue, value, cnt>>
vars == <<part, objs, th, spare, serial>>

Queues == {"mutex", "cond", "sem", "latch"}

\* The threads linked in a queue, and the queue without one of them, which is
\* in it once.
Linked(q) == {q[i] : i \in DOMAIN q}
Unlink(q, t) ==
  LET k == CHOOSE i \in 1..Len(q) : q[i] = t IN
    IF t \in Linked(q) THEN SubSeq(q, 1, k - 1) \o SubSeq(q, k + 1, Len(q)) ELSE q

IsIn(t) == CHOOSE q \in Queues \union {"none"} :
             IF q = "none" THEN \A p \in Queues : t \notin Linked(queue[p])
             ELSE t \in Linked(queue[q])

\* The thread WaitQueue::WakeOne takes, 0 if there is none.
WakeOne(q) == IF q = <<>> THEN 0 ELSE Head(q)

\* The threads in W are woken by a hand-over of what they wait for; a thread
\* that a signal has woken already finds that it is no longer armed.
Woken(r) == [r EXCEPT !.pc = IF @ = "parked" THEN "ready" ELSE @]
Waken(S, W) == [t \in Threads |-> IF t \in W THEN Woken(S[t]) ELSE S[t]]

Parked(r, interruptible) == [r EXCEPT !.pc = "parked", !.intr = interruptible]

\* Back in the program, where a pending signal is delivered.
Running(r) == [r EXCEPT !.pc = "user", !.intr = FALSE, !.sig = FALSE, !.timer = "off", !.timeout = FALSE]

\* Arm and park; an interruptible wait does not start with a signal pending.
Park(t, q, interruptible, Q, S) ==
  IF interruptible /\ S[t].sig
  THEN queue' = Q /\ th' = [S EXCEPT ![t] = Running(@)]
  ELSE /\ queue' = [Q EXCEPT ![q] = Append(@, t)]
       /\ th' = [S EXCEPT ![t] = Parked(@, interruptible)]

Takes(r) == [r EXCEPT !.holds = TRUE]

------------------------------------------------------------------------------
(* The mutex.                                                               *)

Lock(t, try, interruptible) ==
  /\ th[t].pc = "user" /\ ~th[t].holds
  /\ IF ~held
     THEN held' = TRUE /\ th' = [th EXCEPT ![t] = Takes(@)] /\ UNCHANGED queue
     ELSE /\ UNCHANGED held
          /\ IF try THEN UNCHANGED <<queue, th>>
             ELSE Park(t, "mutex", interruptible, queue, th)
  /\ UNCHANGED <<part, bound, value, cnt, spare, serial>>

\* Unlock hands the mutex to a waiter: it stays held.
HeldAfter(w) == w # 0

\* Release by t: what becomes of the queues and the threads.
Release(t) ==
  LET w == WakeOne(queue["mutex"])
      S == [th EXCEPT ![t].holds = FALSE] IN
    [w |-> w, Q |-> [queue EXCEPT !["mutex"] = Unlink(@, w)],
     S |-> IF w = 0 THEN S ELSE [Waken(S, {w}) EXCEPT ![w] = Takes(@)]]

Unlock(t) ==
  /\ th[t].pc = "user" /\ th[t].holds
  /\ LET r == Release(t) IN
       held' = HeldAfter(r.w) /\ queue' = r.Q /\ th' = r.S
  /\ UNCHANGED <<part, bound, value, cnt, spare, serial>>

------------------------------------------------------------------------------
(* The condition variable.                                                  *)

\* Wait, WaitFor and WaitUntil, and their interruptible forms: start the
\* timer ...
StartWait(t, timed, interruptible) ==
  /\ th[t].pc = "user" /\ th[t].holds
  /\ bound' = TRUE
  /\ th' = [th EXCEPT ![t].pc = "dowait", ![t].timer = IF timed THEN "on" ELSE "off",
                      ![t].timeout = FALSE, ![t].intr = interruptible]
  /\ UNCHANGED <<part, held, queue, value, cnt, spare, serial>>

\* ... release the mutex and park (DoWait).
DoWait(t) ==
  /\ th[t].pc = "dowait"
  /\ LET r == Release(t) IN
       held' = HeldAfter(r.w) /\ Park(t, "cond", th[t].intr, r.Q, r.S)
  /\ UNCHANGED <<part, bound, value, cnt, spare, serial>>

\* The first n waiters get the mutex, or queue for it while it is held.
Notified(n) ==
  LET q == queue["mutex"] \o SubSeq(queue["cond"], 1, n)
      w == IF held THEN 0 ELSE WakeOne(q)
      rest == SubSeq(queue["cond"], n + 1, Len(queue["cond"])) IN
    [held |-> held \/ w # 0,
     Q |-> [queue EXCEPT !["cond"] = rest, !["mutex"] = Unlink(q, w)],
     S |-> IF w = 0 THEN th ELSE [Waken(th, {w}) EXCEPT ![w] = Takes(@)]]

\* Notify (one waiter) and NotifyAll.
Notify(t, all) ==
  /\ th[t].pc = "user" /\ bound
  /\ LET waiting == Len(queue["cond"])
         r == Notified(IF all \/ waiting = 0 THEN waiting ELSE 1) IN
       held' = r.held /\ queue' = r.Q /\ th' = r.S
  /\ UNCHANGED <<part, bound, value, cnt, spare, serial>>

\* The timeout handler: disarm the waiter wherever it is queued, and give it
\* the mutex or queue it for it.  A timer that expires before the waiter is
\* armed does nothing.
Timeout(t) ==
  /\ th[t].timer = "on"
  /\ LET S == [th EXCEPT ![t].timer = "spent"]
         Q == [q \in Queues |-> Unlink(queue[q], t)] IN
       IF IsIn(t) = "none" THEN th' = S /\ UNCHANGED <<held, queue>>
       ELSE IF held
       THEN /\ th' = [S EXCEPT ![t].timeout = TRUE]
            /\ queue' = [Q EXCEPT !["mutex"] = Append(@, t)]
            /\ UNCHANGED held
       ELSE /\ th' = Waken([S EXCEPT ![t] = [Takes(@) EXCEPT !.timeout = TRUE]], {t})
            /\ queue' = Q /\ held' = TRUE
  /\ UNCHANGED <<part, bound, value, cnt, spare, serial>>

------------------------------------------------------------------------------
(* The semaphore and the latch.                                             *)

\* shim_sem_wait and shim_sem_trywait.
SemWait(t, try) ==
  /\ th[t].pc = "user"
  /\ IF value > 0
     THEN value' = value - 1 /\ spare' = spare - 1 /\ UNCHANGED <<queue, th>>
     ELSE /\ UNCHANGED <<value, spare>>
          /\ IF try THEN UNCHANGED <<queue, th>> ELSE Park(t, "sem", FALSE, queue, th)
  /\ UNCHANGED <<part, held, bound, cnt, serial>>

\* Mutant: the value grows although the unit went to a waiter.
PostedTwice(w) == value + 1
Posted(w) == IF w = 0 THEN value + 1 ELSE value

SemPost(t) ==
  /\ th[t].pc = "user" /\ value < MaxValue
  /\ LET w == WakeOne(queue["sem"]) IN
       /\ value' = Posted(w)
       /\ spare' = IF w = 0 THEN spare + 1 ELSE spare
       /\ queue' = [queue EXCEPT !["sem"] = Unlink(@, w)]
       /\ th' = IF w = 0 THEN th ELSE Waken(th, {w})
  /\ UNCHANGED <<part, held, bound, cnt, serial>>

\* What a latch that has come down to n releases.
Opened(n) == IF n <= 0 THEN Linked(queue["latch"]) ELSE {}

\* The thread that brings a latch down is the serial thread.
IsSerial(n) == n <= 0

\* CountDown, Wait, ArriveAndWait and POSIXWaitInterruptible: arrive n times
\* and, if so asked, wait.
Arrive(t, n, waits, interruptible) ==
  /\ th[t].pc = "user" /\ cnt - n >= -1
  /\ cnt' = cnt - n
  /\ LET W == Opened(cnt - n)
         Q == IF W = {} THEN queue ELSE [queue EXCEPT !["latch"] = <<>>] IN
       IF waits /\ cnt - n > 0
       THEN Park(t, "latch", interruptible, Q, th)
       ELSE queue' = Q /\ th' = Waken(th, W)
  /\ serial' = IF waits /\ n = 1 /\ IsSerial(cnt - n) THEN serial \union {t} ELSE serial
  /\ UNCHANGED <<part, held, bound, value, spare>>

------------------------------------------------------------------------------
(* Waking up.                                                               *)

\* A signal wakes a thread that waits interruptibly and is pending for any
\* other.
Signal(t) ==
  /\ t \in Signalled /\ ~th[t].sig
  /\ th' = [th EXCEPT ![t].sig = TRUE,
                      ![t].pc = IF @ = "parked" /\ th[t].intr THEN "ready" ELSE @]
  /\ UNCHANGED <<part, objs, spare, serial>>

\* Disarm of a waiter that a signal woke.
Disarm(t) == [q \in Queues |-> Unlink(queue[q], t)]

\* Back from WaitNoRecheck or WaitInterruptibleNoRecheck.
Resume(t) ==
  /\ th[t].pc = "ready"
  /\ queue' = IF th[t].sig THEN Disarm(t) ELSE queue
  /\ th' = [th EXCEPT ![t] = Running(@)]
  /\ UNCHANGED <<part, held, bound, value, cnt, spare, serial>>

Init ==
  /\ part \in Parts
  /\ held = FALSE /\ bound = FALSE
  /\ queue = [q \in Queues |-> <<>>]
  /\ value = 0 /\ spare = 0
  /\ cnt = IF part = "latch" THEN MaxValue ELSE 0
  /\ serial = {}
  /\ th = [t \in Threads |-> [pc |-> "user", holds |-> FALSE, intr |-> FALSE, sig |-> FALSE,
                              timer |-> "off", timeout |-> FALSE]]

\* Who is never sent a signal has no use for the interruptible forms.
Intr(t) == {FALSE, (t \in Signalled)}
Next ==
  \E t \in Threads :
    \/ /\ part = "mutex"
       /\ \/ \E try \in BOOLEAN, i \in Intr(t) : Lock(t, try, i)
          \/ Unlock(t) \/ DoWait(t) \/ Timeout(t)
          \/ \E timed \in BOOLEAN, i \in Intr(t) : StartWait(t, timed, i)
          \/ \E all \in BOOLEAN : Notify(t, all)
    \/ /\ part = "sem"
       /\ \/ SemPost(t)
          \/ \E try \in BOOLEAN : SemWait(t, try)
    \/ /\ part = "latch"
       /\ \E n \in 0..1, waits \in BOOLEAN, i \in Intr(t) : (n > 0 \/ waits) /\ Arrive(t, n, waits, i)
    \/ Signal(t)
    \/ Resume(t)

\* Who holds the mutex releases it, at the latest by waiting for the
\* condition; a thread that was woken runs.
Fairness ==
  \A t \in Threads : WF_vars(Unlock(t)) /\ WF_vars(DoWait(t)) /\ WF_vars(Resume(t))
Spec == Init /\ [][Next]_vars
FairSpec == Spec /\ Fairness

------------------------------------------------------------------------------
(* Properties.                                                              *)

\* Every variable stays within its type; a thread is in at most one queue, and
\* in one only while it waits.
TypeOK ==
  /\ value \in 0..MaxValue /\ cnt \in -1..MaxValue
  /\ \A t \in Threads : th[t].pc \in {"user", "dowait", "parked", "ready"}
  /\ \A p, q \in Queues : \A i \in DOMAIN queue[p], j \in DOMAIN queue[q] :
       queue[p][i] = queue[q][j] => p = q /\ i = j
  /\ \A t \in Threads : IsIn(t) # "none" => th[t].pc \in {"parked", "ready"}

\* The mutex is held by one thread, through hand-overs by Unlock, Notify and
\* the timeout handler racing with signals: never by two, and never by none.
MutualExclusion ==
  Cardinality({t \in Threads : th[t].holds}) = (IF held THEN 1 ELSE 0)

\* No lost wake-up: a thread that is parked is queued, for a mutex that is
\* held, a semaphore at zero or a latch that is not down.
SleepersMustWait ==
  \A t \in Threads : th[t].pc = "parked" =>
    \/ IsIn(t) = "mutex" /\ held
    \/ IsIn(t) = "cond"
    \/ IsIn(t) = "sem" /\ value = 0
    \/ IsIn(t) = "latch" /\ cnt > 0

\* A semaphore neither loses nor invents units: its value is what was posted
\* and neither taken nor handed to a waiter.
UnitsConserved == value = spare

\* "@serial_thread is set to true for exactly one waiting thread" (sync.h),
\* if no more threads arrive than the latch counts.
SerialOnce == cnt >= 0 => Cardinality(serial) <= 1
==============================================================================
