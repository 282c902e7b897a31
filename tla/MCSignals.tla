------------------------------ MODULE MCSignals ------------------------------
(* Model values and workloads for checking Signals with TLC, and next to    *)
(* them the interval timer, which shares no state with the queues but the   *)
(* signal it sends.                                                         *)
EXTENDS Signals

CONSTANTS t1, t2, MaxSets

VARIABLES sets, queued, run, next_fire_, interval_, tpc, it, alarms
tvars == <<sets, queued, run, next_fire_, interval_, tpc, it, alarms>>
Timer == INSTANCE ITimer WITH pc <- tpc

TwoThreads == {t1, t2}
(* 1 is SIGKILL, 2 and 3 are standard signals, 4 is a real-time one.        *)
FourSigs == 1..4
IgnoreMask == {3}

Fn == [handler |-> "fn", oneshot |-> FALSE, nodefer |-> FALSE, restart |-> FALSE, mask |-> {}]
Handlers == [s \in FourSigs |-> IF s = 1 THEN DefaultAction ELSE Fn]
Wait(k, m) == [kind |-> k, set |-> m]

None == [sends |-> 2, maxcalls |-> 2, callers |-> {t1}, init |-> {}, thread |-> {}, process |-> {}, calls |-> {}, masks |-> {},
         stacks |-> {}, actions |-> {}, faults |-> {}, table |-> Handlers]

(* Calls that replace the mask while they sleep.                            *)
Masking == [None EXCEPT !.callers = {t1, t2}, !.init = {2, 4}, !.thread = {2}, !.process = {4},
              !.calls = {Wait("sigsuspend", {4}), Wait("ppoll", {}), Wait("sigtimedwait", {2})}]

(* Ignored and one-shot signals, restarted calls, mask changes.             *)
Restarting == [None EXCEPT !.thread = {2, 3},
                 !.calls = {Wait("pause", {}), Wait("read", {})}, !.masks = {{1, 2, 3}, {}},
                 !.actions = {<<2, [Fn EXCEPT !.oneshot = TRUE]>>},
                 !.table = [Handlers EXCEPT ![3] = DefaultAction, ![2].restart = TRUE]]

(* Nested handlers, faults, the alternate stack, real-time signals.         *)
Nesting == [None EXCEPT !.thread = {4}, !.process = {2}, !.stacks = {"autodisarm"}, !.faults = {3},
              !.table = [Handlers EXCEPT ![2].mask = {4}, ![4].nodefer = TRUE]]

(* The end of the process.                                                  *)
Ending == [None EXCEPT !.init = {2}, !.thread = {1, 4}, !.process = {1}, !.faults = {2},
             !.calls = {Wait("read", {})},
             !.table = [Handlers EXCEPT ![4] = DefaultAction, ![3].handler = "ign"]]

(* Nothing but the interval timer.                                          *)
TimerOnly == [None EXCEPT !.callers = {}]

All == {TimerOnly, Masking, Restarting, Nesting, Ending}

MCInit == Init /\ Timer!Init
MCNext ==
  \/ load # TimerOnly /\ Next /\ UNCHANGED tvars
  \/ load = TimerOnly /\ Timer!Next /\ UNCHANGED vars
MCSpec == MCInit /\ [][MCNext]_<<vars, tvars>> /\ Fairness /\ Timer!Fairness

-----------------------------------------------------------------------------
(* Signals and alarms are neither lost nor made up, whichever of senders,   *)
(* mask changes, deliveries and setitimer race (see NoLostSignal and        *)
(* QueueIsExact in Signals, AlarmsAsSet in ITimer).                         *)
SignalsExact == TypeOK /\ NoLostSignal /\ QueueIsExact /\ Timer!AlarmsAsSet

(* A handler starts with its signals masked, and the context a program set  *)
(* up comes back whatever was delivered meanwhile (see Signals).            *)
ContextKept == ContextRestored /\ HandlerMasked


=============================================================================
