----------------------------- MODULE MCProcess -----------------------------
(* Model values and workloads for checking Process with TLC.               *)
EXTENDS Process

CONSTANTS t1, t2, t3

All == {t1, t2, t3}
First2 == {t1, t2}

\* The calls of t1 and of every other thread.
Calls(first, others) == [t \in All |-> IF t = t1 THEN first ELSE others]
Load(start, calls, events, signals) ==
    [start |-> start, calls |-> calls, events |-> events, signals |-> signals]

Exits == {"clone", "exiting", "exit_group"}
Nothing == Calls({}, {})

ExitAndKill == Load(First2, Calls(Exits, Exits), {"kill", "user_signal"}, 2)
KillOnly == Load(First2, Calls(Exits, Exits), {"kill"}, 2)
ExitAndStop == Load(First2, Calls(Exits, Exits), {"stop", "cont"}, 2)
Exec == Load(All, Calls({"exec"}, {"exiting"}), {"user_signal"}, 2)
Stop == Load(All, Nothing, {"kill", "stop", "cont"}, 3)
Snapshots == Load(All, Nothing, {"stop", "snapshot", "user_signal"}, 3)
OneVfork == Load(All, Calls({"vfork"}, {}), {"stop", "user_signal"}, 3)

AllLoads == {ExitAndKill, KillOnly, ExitAndStop, Exec, Stop, Snapshots, OneVfork}
FairLoads == {KillOnly, ExitAndStop, Exec, Snapshots}
ExecAndClone == {Load(First2, Calls({"exec"}, {"clone"}), {}, 0)}
GroupExitAndStop ==
    {Load(First2, Calls({"exit_group"}, {"exit_group"}), {"stop", "user_signal"}, 2)}
=============================================================================
