-------------------------------- MODULE Futex --------------------------------
(***************************************************************************)
(* FutexTable (kernel/futex.cc, kernel/futex.h) and the WakeOnTimeout it   *)
(* arms (bindings/timer.h): FUTEX_WAIT, FUTEX_WAKE and their BITSET forms. *)
(*                                                                         *)
(* A waiter checks the word, starts its timer, takes the bucket lock,      *)
(* checks the word again, queues itself and parks.  Wakers, the timer      *)
(* callback and signals come between any two of these steps; user memory   *)
(* changes at any time.                                                    *)
(***************************************************************************)
EXTENDS Integers, Sequences, FiniteSets

CONSTANTS
    Threads,      \* threads that call FUTEX_WAIT
    Keys,         \* addresses of futex words
    Vals,         \* what a futex word can hold
    Buckets,      \* hash buckets
    BucketOf,     \* get_bucket: the bucket of each key
    Bitsets,      \* the bitsets callers pass, as sets of bits
    WaitArgs,     \* the key, value and bitset that each thread waits with
    Timed,        \* the threads that pass a timeout
    Signalled,    \* the threads that are sent signals
    MaxWake       \* bound: the largest count passed to Wake

VARIABLES
    mem,        \* the futex words in user memory
    futexes,    \* futexes[b]: the waiters queued in bucket b, oldest first
    pc,         \* where each thread is in Wait
    waiter,     \* the key, expected value and bitset of its futex_waiter
    waker,      \* waiter.waker is not null: nobody has woken this waiter
    armed,      \* the ThreadWaker w is armed
    timer,      \* the timer of WakeOnTimeout: "off", "running" or "expired"
    timed_out,  \* WakeOnTimeout::timed_out_
    sig,        \* a signal is pending
    ret,        \* what the last Wait to return has returned
    woken,      \* history: the threads Wake has counted and that have not returned
    settled     \* history: keys whose waiters were all woken since the last store

thvars == <<pc, waiter, waker, armed, timer, timed_out, ret>>
vars == <<mem, futexes, thvars, sig, woken, settled>>

Results == {"none", "OK", "EAGAIN", "EINTR", "ETIMEDOUT"}
Waiters == [key : Keys, val : Vals, bitset : Bitsets]
NoWaiter == CHOOSE w \in Waiters : TRUE
Assumptions ==
    /\ BucketOf \in [Keys -> Buckets] /\ WaitArgs \in [Threads -> SUBSET Waiters]
    /\ Waiters # {} /\ MaxWake \in Nat
Entries(b) == {futexes[b][i] : i \in 1..Len(futexes[b])}
Bucket(t) == BucketOf[waiter[t].key]

Init ==
    /\ mem \in [Keys -> Vals]
    /\ futexes = [b \in Buckets |-> <<>>]
    /\ pc = [t \in Threads |-> "user"]
    /\ waiter = [t \in Threads |-> NoWaiter]
    /\ waker = [t \in Threads |-> FALSE]
    /\ armed = [t \in Threads |-> FALSE]
    /\ timer = [t \in Threads |-> "off"]
    /\ timed_out = [t \in Threads |-> FALSE]
    /\ sig = [t \in Threads |-> FALSE]
    /\ ret = "none"
    /\ woken = {}
    /\ settled = {}

(* Wait returns r: the destructor of WakeOnTimeout stops the timer.        *)
Return(t, r) ==
    /\ pc' = [pc EXCEPT ![t] = "user"]
    /\ ret' = r
    /\ waiter' = [waiter EXCEPT ![t] = NoWaiter]
    /\ waker' = [waker EXCEPT ![t] = FALSE]
    /\ armed' = [armed EXCEPT ![t] = FALSE]
    /\ timer' = [timer EXCEPT ![t] = "off"]
    /\ timed_out' = [timed_out EXCEPT ![t] = FALSE]
    /\ woken' = woken \ {t}

-----------------------------------------------------------------------------
(* The first read of the word, without the lock; then the timer starts.    *)
WaitCheck(t, w, timeout) ==
    /\ pc[t] = "user"
    /\ \/ /\ mem[w.key] # w.val
          /\ Return(t, "EAGAIN")
          /\ UNCHANGED <<mem, futexes, sig, settled>>
       \/ /\ mem[w.key] = w.val
          /\ pc' = [pc EXCEPT ![t] = "checked"]
          /\ waiter' = [waiter EXCEPT ![t] = w]
          /\ timer' = [timer EXCEPT ![t] = IF timeout THEN "running" ELSE "off"]
          /\ UNCHANGED <<mem, futexes, waker, armed, timed_out, sig, ret, woken, settled>>

Block(t) ==
    /\ futexes' = [futexes EXCEPT ![Bucket(t)] = Append(@, t)]
    /\ waker' = [waker EXCEPT ![t] = TRUE]
    /\ armed' = [armed EXCEPT ![t] = TRUE]
    /\ pc' = [pc EXCEPT ![t] = "parked"]
    /\ UNCHANGED <<mem, waiter, timer, timed_out, sig, ret, woken, settled>>

(* Mutant: the word is not read again under the bucket lock.               *)
WaitQueueNoRecheck(t) ==
    /\ pc[t] = "checked"
    /\ \/ /\ sig[t] /\ Return(t, "EINTR")
          /\ UNCHANGED <<mem, futexes, sig, settled>>
       \/ ~sig[t] /\ Block(t)

(* Under the bucket lock: read the word again, queue, and park; a pending  *)
(* signal makes WaitInterruptible return at once and the waiter is erased. *)
WaitQueue(t) ==
    /\ pc[t] = "checked"
    /\ LET changed == mem[waiter[t].key] # waiter[t].val
       IN  \/ /\ changed \/ sig[t]
              /\ Return(t, IF changed THEN "EAGAIN" ELSE "EINTR")
              /\ UNCHANGED <<mem, futexes, sig, settled>>
           \/ ~changed /\ ~sig[t] /\ Block(t)

(* list_del of the waiters in ts: the others keep their order.             *)
Without(q, ts) ==
    LET kept == {i \in 1..Len(q) : q[i] \notin ts}
        nth(n) == CHOOSE i \in kept : Cardinality({j \in kept : j < i}) = n - 1
    IN  [n \in 1..Cardinality(kept) |-> q[nth(n)]]

(* The waiter runs again and retakes the lock.  If w is still armed a      *)
(* signal woke it; otherwise it leaves when it was woken or timed out, and *)
(* parks again if neither is the case.                                     *)
WaitReturn(t) ==
    /\ pc[t] = "ready"
    /\ IF armed[t] \/ ~waker[t] \/ timed_out[t]
       THEN /\ Return(t, IF ~waker[t] THEN "OK"
                         ELSE IF armed[t] THEN "EINTR" ELSE "ETIMEDOUT")
            /\ futexes' = IF waker[t]
                          THEN [futexes EXCEPT ![Bucket(t)] = Without(@, {t})]
                          ELSE futexes
            /\ UNCHANGED <<mem, sig, settled>>
       ELSE /\ pc' = [pc EXCEPT ![t] = "parked"]
            /\ armed' = [armed EXCEPT ![t] = TRUE]
            /\ UNCHANGED <<mem, futexes, waiter, waker, timer, timed_out, ret, sig,
                           woken, settled>>

-----------------------------------------------------------------------------

(* ThreadWaker::Wake of every thread in ts.                                *)
WakeThreads(ts) ==
    /\ armed' = [t \in Threads |-> armed[t] /\ t \notin ts]
    /\ pc' = [t \in Threads |-> IF t \in ts /\ armed[t] THEN "ready" ELSE pc[t]]

(* Mutant: the youngest waiters are woken first.                           *)
ChosenYoungest(key, n, bitset) ==
    LET q == futexes[BucketOf[key]]
        match == {i \in 1..Len(q) : /\ waiter[q[i]].key = key
                                    /\ waiter[q[i]].bitset \cap bitset # {}}
    IN  {q[i] : i \in {j \in match : Cardinality({k \in match : k > j}) < n}}

(* The positions of bucket b that Wake(key, n, bitset) wakes: the first n  *)
(* that match.                                                             *)
Chosen(key, n, bitset) ==
    LET q == futexes[BucketOf[key]]
        match == {i \in 1..Len(q) : /\ waiter[q[i]].key = key
                                    /\ waiter[q[i]].bitset \cap bitset # {}}
    IN  {q[i] : i \in {j \in match : Cardinality({k \in match : k < j}) < n}}

Wake(key, n, bitset) ==
    LET ts == Chosen(key, n, bitset)
        all == \A t \in Entries(BucketOf[key]) : waiter[t].key = key => t \in ts
    IN  /\ waker' = [t \in Threads |-> waker[t] /\ t \notin ts]
        /\ futexes' = [futexes EXCEPT ![BucketOf[key]] = Without(@, ts)]
        /\ WakeThreads(ts)
        /\ woken' = woken \cup ts
        /\ settled' = IF all THEN settled \cup {key} ELSE settled
        /\ UNCHANGED <<mem, waiter, timer, timed_out, sig, ret>>

(* The timer callback WakeOnTimeout::DoWake.  It has no effect on a thread *)
(* that has not armed its waker.                                           *)
DoWake(t) ==
    /\ timer[t] = "running"
    /\ timer' = [timer EXCEPT ![t] = "expired"]
    /\ timed_out' = [timed_out EXCEPT ![t] = @ \/ armed[t]]
    /\ WakeThreads({t})
    /\ UNCHANGED <<mem, futexes, waiter, waker, sig, ret, woken, settled>>

(* A program stores to a futex word.                                       *)
Store(key, val) ==
    /\ mem[key] # val
    /\ mem' = [mem EXCEPT ![key] = val]
    /\ settled' = settled \ {key}
    /\ UNCHANGED <<futexes, thvars, sig, woken>>

(* A signal makes an interruptibly parked thread runnable; w stays armed.  *)
Signal(t) ==
    /\ t \in Signalled /\ ~sig[t]
    /\ sig' = [sig EXCEPT ![t] = TRUE]
    /\ pc' = [pc EXCEPT ![t] = IF @ = "parked" THEN "ready" ELSE @]
    /\ UNCHANGED <<mem, futexes, waiter, waker, armed, timer, timed_out, ret, woken, settled>>

(* The signal is delivered before the thread runs user code again.         *)
DeliverSignal(t) ==
    /\ pc[t] = "user" /\ sig[t]
    /\ sig' = [sig EXCEPT ![t] = FALSE]
    /\ UNCHANGED <<mem, futexes, thvars, woken, settled>>

Next ==
    \/ \E t \in Threads :
          \/ \E w \in WaitArgs[t], timeout \in {FALSE, (t \in Timed)} : WaitCheck(t, w, timeout)
          \/ WaitQueue(t) \/ WaitReturn(t) \/ DoWake(t)
          \/ Signal(t) \/ DeliverSignal(t)
    \/ \E k \in Keys :
          \/ \E n \in 1..MaxWake, bitset \in Bitsets : Wake(k, n, bitset)
          \/ \E v \in Vals : Store(k, v)

Spec == Init /\ [][Next]_vars

(* A thread inside Wait runs when it is runnable, and timers expire.       *)
Fairness ==
    \A t \in Threads : WF_vars(WaitQueue(t)) /\ WF_vars(WaitReturn(t)) /\ WF_vars(DoWake(t))

FairSpec == Spec /\ Fairness

-----------------------------------------------------------------------------
TypeOK ==
    /\ mem \in [Keys -> Vals]
    /\ \A b \in Buckets : Entries(b) \subseteq Threads
    /\ pc \in [Threads -> {"user", "checked", "parked", "ready"}]
    /\ waiter \in [Threads -> Waiters]
    /\ waker \in [Threads -> BOOLEAN] /\ armed \in [Threads -> BOOLEAN]
    /\ timer \in [Threads -> {"off", "running", "expired"}]
    /\ timed_out \in [Threads -> BOOLEAN] /\ sig \in [Threads -> BOOLEAN]
    /\ ret \in Results
    /\ woken \subseteq Threads /\ settled \subseteq Keys

(* A bucket holds exactly the unwoken waiters of its keys, each once: no   *)
(* futex_waiter on a stack outlives its Wait in the list, whichever of a   *)
(* wake, a timeout and a signal ended the wait.                            *)
BucketsHoldWaiters ==
    \A b \in Buckets :
        /\ Entries(b) = {t \in Threads : pc[t] \in {"parked", "ready"} /\ waker[t] /\ Bucket(t) = b}
        /\ Len(futexes[b]) = Cardinality(Entries(b))

(* No lost wake-up: if all waiters of a word were woken after its last     *)
(* store, nobody sleeps on a value the word no longer has.  This is what   *)
(* the second read of the word under the bucket lock is for.               *)
NoLostWakeup ==
    \A t \in Threads :
        waker[t] /\ waiter[t].key \in settled => waiter[t].val = mem[waiter[t].key]

(* What Wake counts is what Wait reports: a Wait returns 0 exactly when a  *)
(* Wake counted it, even if a timeout or a signal came in between.         *)
WakeCountIsExact ==
    \A t \in Threads :
        pc[t] = "ready" /\ pc'[t] = "user" => (ret' = "OK" <=> t \in woken)

(* The assertion at futex.cc:48: a waiter that returns without having been *)
(* woken was signalled or timed out (it was not woken for nothing).        *)
WokenForAReason ==
    \A t \in Threads :
        pc[t] = "ready" /\ waker[t] => (armed[t] /\ sig[t]) \/ timed_out[t]

(* A count-limited Wake serves the waiters of a word in the order in which *)
(* they queued: a younger waiter is woken past an older one only by a      *)
(* bitset that the older one does not share.                               *)
OldestFirst ==
    \A b \in Buckets : \A i, j \in 1..Len(futexes[b]) :
        LET older == futexes[b][i]
            younger == futexes[b][j]
        IN  /\ i < j /\ waiter[older].key = waiter[younger].key
            /\ waiter[younger].bitset \subseteq waiter[older].bitset
            /\ younger \in woken' /\ younger \notin woken
            => older \in woken'

(* The waits that must end: those woken or signalled, and those blocked    *)
(* with a timer running.                                                   *)
MustEnd(t) == pc[t] \in {"parked", "ready"} /\ (~waker[t] \/ sig[t] \/ timer[t] = "running")

(* timer.h:112 "WakeOnTimeout wakes the running thread (if it later        *)
(* blocks) when a timer expires": once its timer has expired a blocked     *)
(* wait returns.                                                           *)
TimeoutEndsWait ==
    \A t \in Threads : pc[t] = "parked" /\ timer[t] = "expired" ~> pc[t] = "user"
=============================================================================
