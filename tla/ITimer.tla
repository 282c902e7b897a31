------------------------------- MODULE ITimer -------------------------------
(* The interval timer of a process (setitimer, alarm): the timer entry, its  *)
(* callback in the softirq thread and the calls that set the timer anew.     *)
EXTENDS Integers

CONSTANTS MaxSets      \* bound of setitimer calls

VARIABLES
  sets,
  queued,              \* the entry is armed in a timer heap
  run,                 \* the callback: "no", "fire", "rearm"
  next_fire_,          \* has a value
  interval_,           \* is not zero
  pc,                  \* the caller: "idle", "cancel", "set"
  it,                  \* the itimerval it asked for
  alarms               \* history: SIGALRMs since the last setitimer returned

vars == <<sets, queued, run, next_fire_, interval_, pc, it, alarms>>
Values == [value : BOOLEAN, interval : BOOLEAN]

Init ==
  /\ sets = 0 /\ queued = FALSE /\ run = "no" /\ next_fire_ = FALSE /\ interval_ = FALSE
  /\ pc = "idle" /\ it = [value |-> FALSE, interval |-> FALSE] /\ alarms = 0

(* exchange, from setitimer and alarm                                        *)
Exchange(v) ==
  /\ pc = "idle" /\ sets < MaxSets
  /\ sets' = sets + 1 /\ it' = v /\ pc' = "cancel"
  /\ UNCHANGED <<queued, run, next_fire_, interval_, alarms>>

(* timer_cancel_recurring waits for a running callback, whose restart it
   undoes                                                                    *)
Cancel ==
  /\ pc = "cancel" /\ run = "no" /\ pc' = "set"
  /\ queued' = FALSE
  /\ UNCHANGED <<sets, run, next_fire_, interval_, it, alarms>>

Set ==
  /\ pc = "set" /\ pc' = "idle"
  /\ interval_' = it.interval
  /\ next_fire_' = it.value
  /\ queued' = it.value
  /\ alarms' = 0
  /\ UNCHANGED <<sets, run, it>>

(* the deadline passes: the softirq thread takes the entry                   *)
Expire ==
  /\ queued /\ run = "no"
  /\ queued' = FALSE /\ run' = "fire"
  /\ UNCHANGED <<sets, next_fire_, interval_, pc, it, alarms>>

(* Run: the signal ...                                                       *)
Fire ==
  /\ run = "fire" /\ run' = "rearm"
  /\ alarms' = IF next_fire_ /\ alarms < 2 THEN alarms + 1 ELSE alarms
  /\ UNCHANGED <<sets, queued, next_fire_, interval_, pc, it>>

(* ... and the next period                                                   *)
Rearm ==
  /\ run = "rearm" /\ run' = "no"
  /\ next_fire_' = interval_
  /\ queued' = interval_
  /\ UNCHANGED <<sets, interval_, pc, it, alarms>>

Next == (\E v \in Values : Exchange(v)) \/ Cancel \/ Set \/ Expire \/ Fire \/ Rearm
Spec == Init /\ [][Next]_vars

(* the softirq thread runs expired timers, and a caller inside setitimer runs *)
Fairness == WF_vars(Expire \/ Fire \/ Rearm) /\ SF_vars(Cancel) /\ WF_vars(Set)

(* Between calls the timer sends what it was set to: none when disarmed, one
   without an interval; and the state reported by getitimer is armed exactly
   while an alarm is to come.  The callback and setitimer share next_fire_ and
   interval_ without a lock: only the cancellation keeps them apart.          *)
AlarmsAsSet ==
  pc = "idle" =>
    /\ ~it.value => alarms = 0
    /\ ~it.interval => alarms <= 1
    /\ run = "no" => (next_fire_ <=> queued)

(* A timer that was set has gone off, a periodic one more than once.          *)
HasFired ==
  /\ pc = "idle"
  /\ it.value => alarms > 0
  /\ it.value /\ it.interval => alarms > 1
=============================================================================
