----------------------------- MODULE MCChannels -----------------------------
(***************************************************************************)
(* A pipe and an eventfd for TLC: the files through which threads pass     *)
(* bytes and counts.  They share no state; a behaviour uses one of them.   *)
(***************************************************************************)
EXTENDS Pipe

CONSTANTS
    EvThreads, Top, InitVals, EvSignalled, MaxWritten    \* of the eventfd, see EventFD

VARIABLES which, semaphore, val_, queue_, poll_, epc, eop, esig, written, taken
evars == <<semaphore, val_, queue_, poll_, epc, eop, esig, written, taken>>
allvars == <<which, vars, evars>>

(* A short blocking read, a nonblocking read of all, a peek; writes of a   *)
(* full ring, of which as much as fits is taken.                           *)
SomeReads == {[len |-> 1, nonblocking |-> FALSE, peek |-> FALSE],
              [len |-> 2, nonblocking |-> TRUE, peek |-> FALSE],
              [len |-> 2, nonblocking |-> FALSE, peek |-> TRUE]}
SomeWrites == {[buf |-> <<"a", "b">>, nonblocking |-> n] : n \in BOOLEAN}

Ev == INSTANCE EventFD WITH
    Threads <- EvThreads, Signalled <- EvSignalled,
    pc <- epc, op <- eop, sig <- esig
ASSUME CounterAssumption == Ev!Assumptions

MCInit ==
    /\ which \in {"pipe", "eventfd"}
    /\ Init /\ Ev!Init
    /\ which = "eventfd" \/ semaphore
MCNext ==
    \/ which = "pipe" /\ Next /\ UNCHANGED <<which, evars>>
    \/ which = "eventfd" /\ Ev!Next /\ UNCHANGED <<which, vars>>
MCSpec == MCInit /\ [][MCNext]_allvars /\ Fairness

-----------------------------------------------------------------------------
(* No lost wake-up: a thread sleeps in a pipe only while it is empty or    *)
(* full or the other side has still to take the lock and wake it           *)
(* (WaitableChannel's lock-free indices and recheck), and on an eventfd    *)
(* only while the counter is zero or too full.                             *)
SleepersMustWait == SleepersWillBeWoken /\ Ev!SleepersMustWait

(* Nothing is lost or made up: what was added to an eventfd is what was    *)
(* taken plus what is left, the indices of a pipe stay in their range as   *)
(* they wrap, and the event masks tell what would not block (see EventFD,  *)
(* and PollMasksAtRest in Pipe).                                           *)
CountsExact ==
    /\ TypeOK /\ PollMasksAtRest
    /\ Ev!TypeOK /\ Ev!CountConserved /\ Ev!PollMaskIsCurrent
=============================================================================
