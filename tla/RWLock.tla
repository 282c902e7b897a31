------------------------------- MODULE RWLock -------------------------------
(***************************************************************************)
(* What a readers-writer lock promises, with no queues, counters or        *)
(* wake-ups: a thread holds the lock in no mode, in shared mode or in      *)
(* exclusive mode.  SharedMutex implements this specification.             *)
(***************************************************************************)
CONSTANT Threads

VARIABLE mode  \* mode[t]: how thread t holds the lock

NoWriter == \A u \in Threads : mode[u] # "excl"
NoHolder == \A u \in Threads : mode[u] = "none"

Init == mode = [t \in Threads |-> "none"]

AcquireExclusive(t) == NoHolder /\ mode' = [mode EXCEPT ![t] = "excl"]

AcquireShared(t) ==
    /\ mode[t] = "none"
    /\ NoWriter
    /\ mode' = [mode EXCEPT ![t] = "shared"]

Release(t) == mode[t] # "none" /\ mode' = [mode EXCEPT ![t] = "none"]

(* A writer becomes a reader with no moment in between at which the lock   *)
(* is free.                                                                *)
Downgrade(t) == mode[t] = "excl" /\ mode' = [mode EXCEPT ![t] = "shared"]

(* The converse is possible only for the last reader.                      *)
Upgrade(t) ==
    /\ mode[t] = "shared"
    /\ \A u \in Threads \ {t} : mode[u] = "none"
    /\ mode' = [mode EXCEPT ![t] = "excl"]

Next ==
    \E t \in Threads :
        \/ AcquireExclusive(t) \/ AcquireShared(t) \/ Release(t)
        \/ Downgrade(t) \/ Upgrade(t)

Spec == Init /\ [][Next]_mode
=============================================================================
