---------------------------- MODULE RecordLocks ----------------------------
(***************************************************************************)
(* What POSIX record locks promise for one file: every process holds every *)
(* byte in no mode, for reading or for writing.  AdvisoryLock implements   *)
(* this specification.                                                     *)
(***************************************************************************)
EXTENDS Integers

CONSTANTS Pids, Bytes

VARIABLE held  \* held[p][b]: how process p holds byte b

Ranges == {{b \in Bytes : i <= b /\ b <= j} : i, j \in Bytes} \ {{}}

Init == held = [p \in Pids |-> [b \in Bytes |-> "un"]]

(* From h, process p gets the bytes of r in mode m, whatever it held of     *)
(* them, if no other process is in the way.                                *)
Free(h, p, r, m) == \A q \in Pids \ {p}, b \in r : h[q][b] = "un" \/ (h[q][b] = "rd" /\ m = "rd")
Lock(h, p, r, m) == [h EXCEPT ![p] = [b \in Bytes |-> IF b \in r THEN m ELSE @[b]]]

Next ==
    \E h \in {held}, g \in {held'} :
        \E p \in Pids, r \in Ranges, m \in {"un", "rd", "wr"} :
            g = Lock(h, p, r, m) /\ (m # "un" => Free(h, p, r, m))

Spec == Init /\ [][Next]_held
=============================================================================
