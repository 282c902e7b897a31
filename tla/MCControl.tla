------------------------------ MODULE MCControl ------------------------------
(* Workloads for checking Control with TLC.                                 *)
EXTENDS Control

Idle == [script |-> [w \in Workers |-> <<>>], faults |-> {}, jif |-> TRUE, nonblocking |-> FALSE,
         keep_alive |-> TRUE, terminate |-> FALSE, mem_trace |-> FALSE, fresh |-> FALSE, selfstop |-> "never"]

Op(o) == [op |-> o]
Run(n) == [op |-> "run", argc |-> n]
On(o, p) == [op |-> o, pid |-> p]
Kill(p, s) == [op |-> "signal", pid |-> p, sig |-> s]
Restored(a) == [op |-> "restore", arg |-> a]
Call(a) == [op |-> "invoke", arg |-> a]
WarmUp(n) == [op |-> "warmup", requests |-> n, arg |-> "a", pid |-> 1]

Two(a, b) == [w \in Workers |-> IF w = 1 THEN a ELSE b]

(* A run, and requests about the new process from another connection.      *)
Running == [Idle EXCEPT !.script = Two(<<Run(0), Run(1), Op("ps")>>,
                                       <<Kill(2, "SIGSTOP"), On("startTrace", 2), On("stopTrace", 2), Kill(2, "SIGCONT")>>),
                        !.faults = {"send", "create"}]
(* The function is invoked while another connection traces the process.    *)
Tracing == [Idle EXCEPT !.script = Two(<<Call("a"), Call("b")>>,
                                       <<Kill(1, "SIGSTOP"), On("startTrace", 1), On("stopTrace", 1), Kill(1, "SIGCONT"), Op("ps")>>),
                        !.faults = {"small"}]
(* A restore in a fresh runtime, calls and a last snapshot.                *)
Moving == [Idle EXCEPT !.script = Two(<<Restored("b"), Call("a"), On("snapshot", 1), Op("unknown")>>, <<On("stopTrace", 1), Op("ps")>>),
                       !.faults = {"write"}, !.fresh = TRUE, !.terminate = TRUE, !.nonblocking = TRUE]
Refused == [Idle EXCEPT !.script = Two(<<Restored(None), Op("unknown")>>, <<Kill(1, "SIGSTOP"), On("snapshot", 1), Op("ps")>>),
                        !.faults = {"open"}, !.fresh = TRUE]
(* The snapshot of another process, which ends it.                         *)
Last == [Idle EXCEPT !.script = Two(<<Run(1)>>, <<Kill(2, "SIGSTOP"), On("snapshot", 2), Call("a"), Kill(2, "SIGCONT")>>), !.terminate = TRUE]
Again == [Idle EXCEPT !.script = Two(<<On("snapshot", 1), Call("a"), On("snapshot", 1), On("snapshot", 2)>>, <<Op("ps")>>), !.faults = {"open"}]
(* The drivers.                                                            *)
Warm == [Idle EXCEPT !.script = Two(<<WarmUp(2)>>, <<Op("ps")>>), !.faults = {"write"}]
WarmExit == [Warm EXCEPT !.keep_alive = FALSE, !.jif = FALSE, !.nonblocking = TRUE]
Woken == [Idle EXCEPT !.script = Two(<<[op |-> "restored", arg |-> "a"]>>, <<Op("ps")>>), !.mem_trace = TRUE, !.fresh = TRUE]
WokenExit == [Woken EXCEPT !.keep_alive = FALSE, !.mem_trace = FALSE, !.faults = {"open"}]
OnStop == [Idle EXCEPT !.script = Two(<<[op |-> "onstop", pid |-> 1]>>, <<Op("ps")>>), !.selfstop = "late"]

Passing == {Running, Tracing, Moving, Refused, Last, Again, Warm, WarmExit, Woken, WokenExit, OnStop}
==============================================================================
