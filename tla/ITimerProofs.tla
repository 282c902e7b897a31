---------------------------- MODULE ITimerProofs ----------------------------
(* Proof that the interval timer sends what it was set to, for any number of *)
(* calls of setitimer and every interleaving with the callback.              *)
EXTENDS ITimer, TLAPS

(* Where everybody is.                                                       *)
TypeOK ==
  /\ queued \in BOOLEAN /\ next_fire_ \in BOOLEAN /\ interval_ \in BOOLEAN
  /\ run \in {"no", "fire", "rearm"} /\ pc \in {"idle", "cancel", "set"}
  /\ it \in Values /\ alarms \in 0..2

(* The strengthening: between Cancel and Set the entry is neither armed nor  *)
(* running; otherwise a running callback is the only one and is not armed,   *)
(* next_fire_ tells whether an alarm is still to come, and one that is to    *)
(* come without an interval is the first.                                    *)
IInv ==
  /\ TypeOK
  /\ pc = "set" => run = "no" /\ ~queued
  /\ run # "no" => ~queued
  /\ run = "fire" => next_fire_
  /\ pc # "set" /\ run = "no" => (next_fire_ <=> queued)
  /\ pc = "idle" => interval_ = it.interval
  /\ pc = "idle" /\ ~it.value => alarms = 0 /\ ~next_fire_ /\ run = "no"
  /\ pc = "idle" /\ ~it.interval => alarms <= 1 /\ (run # "rearm" /\ next_fire_ => alarms = 0)

(* Between calls the timer has sent what setitimer asked for (AlarmsAsSet),  *)
(* though the callback shares next_fire_ and interval_ with it unlocked.     *)
THEOREM Alarms == Spec => []AlarmsAsSet
<1>1. Init => IInv
  <2> SUFFICES ASSUME Init PROVE IInv
    BY Zenon
  <2>1. it \in Values
    BY Zenon DEF Init, Values
  <2>2. alarms \in 0..2 /\ alarms <= 1
    BY SMT DEF Init
  <2>3. TypeOK
    BY <2>1, <2>2, Zenon DEF Init, TypeOK
  <2>4. interval_ = it.interval /\ ~queued /\ ~next_fire_ /\ run = "no" /\ pc = "idle" /\ alarms = 0
    BY Zenon DEF Init
  <2> QED
    BY <2>2, <2>3, <2>4, Zenon DEF IInv
<1>2. IInv /\ [Next]_vars => IInv'
  <2> SUFFICES ASSUME IInv, [Next]_vars PROVE IInv'
    BY Zenon
  <2>1. CASE \E v \in Values : Exchange(v)
    BY <2>1 DEF IInv, TypeOK, Exchange
  <2>2. CASE Cancel
    BY <2>2, Zenon DEF IInv, TypeOK, Cancel
  <2>3. CASE Set
    BY <2>3 DEF IInv, TypeOK, Set, Values
  <2>4. CASE Expire
    BY <2>4, Zenon DEF IInv, TypeOK, Expire
  <2>5. CASE Fire
    BY <2>5 DEF IInv, TypeOK, Fire
  <2>6. CASE Rearm
    BY <2>6, Zenon DEF IInv, TypeOK, Rearm, Values
  <2>7. CASE UNCHANGED vars
    BY <2>7, Zenon DEF IInv, TypeOK, vars
  <2> QED
    BY <2>1, <2>2, <2>3, <2>4, <2>5, <2>6, <2>7, Zenon DEF Next
<1>3. IInv => AlarmsAsSet
  BY Zenon DEF IInv, AlarmsAsSet
<1> QED
  BY <1>1, <1>2, <1>3, PTL DEF Spec
=============================================================================
