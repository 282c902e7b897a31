---------------------------- MODULE MCProcesses ----------------------------
(* The threads of one process, and the tree of processes, for TLC.  A       *)
(* behaviour is one of the two at work; the other stays as it starts.       *)
EXTENDS MCProcess

CONSTANTS p1, p2, p3, kMaxProcesses, MaxCalls

VARIABLES
    which,
    tload, ncalls, bits_, pos_, pid_ref_count, pid_to_proc_, proc, child_procs_, notify, waiter

tvars == <<tload, ncalls, bits_, pos_, pid_ref_count, pid_to_proc_, proc, child_procs_, notify, waiter>>
allvars == <<which, vars, tvars>>

(* Identifiers: groups, sessions, threads and reuse.                        *)
Identifiers == [ops |-> {"vfork", "thread", "setpgid", "setsid", "exit", "wait"},
                orphans |-> TRUE, signals |-> FALSE, ids |-> {0}, wants |-> {{"exited"}}]

(* Parents that wait for their children in every way.                       *)
Waiting == [ops |-> {"vfork", "exit", "wait", "nohang", "stop"},
            orphans |-> FALSE, signals |-> TRUE, ids |-> {0, 2, -1},
            wants |-> {{"exited"}, {"exited", "stopped", "continued"}}]

Tree == INSTANCE ProcessTree WITH
    Workloads <- {Identifiers, Waiting}, load <- tload, Objects <- {p1, p2, p3}, init_proc <- p1

MCInit ==
    /\ which \in {"threads", "tree"}
    /\ Init /\ (which # "threads" => load = KillOnly /\ ~vfork_waker_)
    /\ Tree!Init /\ (which # "tree" => tload = Waiting)

OfThreads(A) == which = "threads" /\ A /\ UNCHANGED <<which, tvars>>
OfTree(A) == which = "tree" /\ A /\ UNCHANGED <<which, vars>>

MCNext == OfThreads(Next) \/ OfTree(Tree!Next)

(* Every runnable thread of every process is scheduled, and so is the       *)
(* snapshotter; programs and signals promise nothing.                       *)
MCSpec ==
    /\ MCInit /\ [][MCNext]_allvars
    /\ WF_allvars(OfThreads(Snapshot))
    /\ \A t \in Threads : WF_allvars(OfThreads(KernelStep(t)))
    /\ \A o \in {p1, p2, p3} : WF_allvars(OfTree(Tree!KernelStep(o)))

-----------------------------------------------------------------------------
(* Nobody is left behind by an exit or an execve: the parent is told, and   *)
(* the image replaced, by the last thread; the one that waits for the       *)
(* others will be woken, and each of them is killed (see Process).          *)
LastOneOut == TypeOK /\ NobodyElseLeft /\ AloneWaiterArmed /\ OthersKilled



(* A thread asleep in wait has nothing to report, or is woken.              *)
NoLostWait == Tree!NoLostWait


=============================================================================
