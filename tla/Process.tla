------------------------------ MODULE Process ------------------------------
(***************************************************************************)
(* The threads of one process: how they are created, killed, stopped and   *)
(* continued, how exit_group, execve and vfork wait for the other threads, *)
(* and what the parent is told (kernel/proc.{h,cc}, the delivery loops of  *)
(* kernel/signal.cc).  Sections under child_thread_lock_ are one step; the *)
(* other processes, the vfork child and the snapshotter are actors.        *)
(***************************************************************************)
EXTENDS Integers, FiniteSets

CONSTANTS
    Threads,       \* the thread ids the process may use
    Workloads,     \* what programs and the rest of the system do, see below
    None           \* no thread

\* A workload: the threads at the start, the system calls the program makes
\* on each thread, what the rest of the system does, and a bound on the
\* number of signals sent in all.
ASSUME WorkloadsAssumption ==
    \A w \in Workloads : w.start # {} /\ w.start \subseteq Threads
ASSUME NoneAssumption == None \notin Threads

Snap == "snapshotter"   \* SnapshotPidToELF's thread, not one of the process

VARIABLES
    thread_map_,       \* ids of the threads that have not finished
    pc,                \* where each thread is
    parked,            \* threads the scheduler runs only once woken
    sig_q_,            \* per thread: pending "kill" (SIGKILL), "user" (handled)
    notified_,         \* per thread: told to run a signal check
    dying,             \* threads whose top frame is SigKillHandler
    shared_sig_q_,     \* pending process-wide: "kill", "stop" (SIGTSTP...)
    stopped,           \* stopped_gen_ is odd
    stopped_count_,
    stopped_threads_,  \* wait queue
    exited_,
    exec_waker_,       \* the one thread waiting for the others to finish
    vfork_waker_,      \* a vfork parent waits for this process
    wait_state_,       \* what the parent's wait would find
    parent_,           \* not yet reaped
    snap,              \* the snapshotter
    load,              \* the workload, chosen at the start
    sent               \* signals sent, for the bound

stopVars == <<stopped, stopped_count_, stopped_threads_>>
sigVars == <<sig_q_, notified_, dying, shared_sig_q_>>
loadVars == <<load, sent>>
parentVars == <<vfork_waker_, wait_state_, parent_>>
vars == <<thread_map_, pc, parked, sigVars, stopVars, exited_, exec_waker_,
          parentVars, snap, loadVars>>

Entries == {"clone", "exec", "exit_group", "vfork", "exiting"}
Counted == {"stop1", "stop2", "full_wait"}
PCs == Entries \cup Counted \cup
       {"none", "user", "deliver", "frames", "kill_wait", "exec_final",
        "exec_wait", "exec_done", "exit_wait", "exit_done", "vfork_stop",
        "full_stop", "child", "child_s", "vfork_cont", "gone"}

Init ==
    /\ load \in Workloads
    /\ thread_map_ = load.start
    /\ pc = [t \in Threads |-> IF t \in load.start THEN "user" ELSE "none"]
    /\ parked = {}
    /\ sig_q_ = [t \in Threads |-> {}]
    /\ notified_ = [t \in Threads |-> FALSE]
    /\ dying = {}
    /\ shared_sig_q_ = {}
    /\ stopped = FALSE /\ stopped_count_ = 0 /\ stopped_threads_ = {}
    /\ exited_ = FALSE /\ exec_waker_ = None
    /\ vfork_waker_ \in BOOLEAN /\ wait_state_ = "none" /\ parent_ = TRUE
    /\ snap = "idle" /\ sent = 0

-----------------------------------------------------------------------------
(* Helpers.                                                                *)

Goto(t, l) == pc' = [pc EXCEPT ![t] = l]

(* The system-call return path checks the interrupt flag.                  *)
AfterCall(t) == IF notified_[t] THEN "deliver" ELSE "user"


Kill(ts) ==
    /\ sig_q_' = [u \in Threads |->
                     IF u \in ts THEN sig_q_[u] \cup {"kill"} ELSE sig_q_[u]]
    /\ notified_' = [u \in Threads |->
                        notified_[u] \/ (u \in ts /\ "kill" \notin sig_q_[u])]

SignalAllThreads ==
    notified_' = [u \in Threads |-> notified_[u] \/ u \in thread_map_]

(* NotifyParentWait; the process may have been reaped.                     *)
NotifyParentWait(s) == wait_state_' = IF parent_ THEN s ELSE wait_state_

(* The threads stopped_threads_.WakeAll() makes runnable.                  *)
WakeAll == stopped_threads_

(* One pass of rt::Wait on exec_waker_ until no other thread is left, in a *)
(* locked section that has just woken the threads in "woken".              *)
AwaitAlone(t, here, then, woken) ==
    IF thread_map_ = {t}
      THEN /\ Goto(t, then)
           /\ parked' = parked \ woken
           /\ UNCHANGED exec_waker_
      ELSE /\ Goto(t, here)
           /\ parked' = (parked \ woken) \cup {t}
           /\ exec_waker_' = t

-----------------------------------------------------------------------------
(* System calls.                                                           *)

Enter(t, call) ==
    /\ pc[t] = "user" /\ call \in load.calls[t]
    /\ Goto(t, call)
    /\ UNCHANGED <<thread_map_, parked, sigVars, stopVars, exited_,
                   exec_waker_, parentVars, snap, loadVars>>

(* CreateThread fails once the process has exited, or without a free id.   *)
CreateThread(t) ==
    /\ pc[t] = "clone"
    /\ IF exited_ \/ \A n \in Threads : pc[n] # "none"
         THEN Goto(t, AfterCall(t)) /\ UNCHANGED thread_map_
         ELSE \E n \in Threads :
                /\ pc[n] = "none"
                /\ thread_map_' = thread_map_ \cup {n}
                /\ pc' = [pc EXCEPT ![t] = AfterCall(t), ![n] = "user"]
    /\ UNCHANGED <<parked, sigVars, stopVars, exited_, exec_waker_,
                   parentVars, snap, loadVars>>

(* The process-wide exit: a second caller, and one that meets an execve in *)
(* progress, just finishes its own thread.                                 *)
DoExit(t) ==
    /\ pc[t] = "exit_group"
    /\ IF exited_ \/ exec_waker_ # None
         THEN /\ Goto(t, "exiting")
              /\ UNCHANGED <<parked, sigVars, stopVars, exited_, exec_waker_>>
         ELSE /\ exited_' = TRUE
              /\ stopped_threads_' = stopped_threads_ \ WakeAll
              /\ Kill(thread_map_ \ {t})
              /\ AwaitAlone(t, "exit_wait", "exit_done", WakeAll)
              /\ UNCHANGED <<dying, shared_sig_q_, stopped, stopped_count_>>
    /\ UNCHANGED <<thread_map_, parentVars, snap, loadVars>>

(* The tail of DoExit, outside the lock.                                   *)
DoExitNotify(t) ==
    /\ pc[t] = "exit_done"
    /\ vfork_waker_' = FALSE
    /\ NotifyParentWait("exited")
    /\ Goto(t, "exiting")
    /\ UNCHANGED <<thread_map_, parked, sigVars, stopVars, exited_,
                   exec_waker_, parent_, snap, loadVars>>

(* execve fails, or first clears the old image (KillThreadsAndWait, when a *)
(* non-relocatable image replaces another), or completes (FinishExec).     *)
DoExecve(t) ==
    /\ pc[t] = "exec"
    /\ \/ /\ Goto(t, AfterCall(t))
          /\ UNCHANGED <<sig_q_, notified_, exec_waker_, parked>>
       \/ /\ Kill(thread_map_ \ {t})
          /\ AwaitAlone(t, "kill_wait", "exec_final", {})
       \/ /\ Goto(t, "exec_final")
          /\ UNCHANGED <<sig_q_, notified_, exec_waker_, parked>>
    /\ UNCHANGED <<thread_map_, dying, shared_sig_q_, stopVars, exited_,
                   parentVars, snap, loadVars>>

FinishExec(t) ==
    /\ pc[t] = "exec_final"
    /\ Kill(thread_map_ \ {t})
    /\ AwaitAlone(t, "exec_wait", "exec_done", {})
    /\ UNCHANGED <<thread_map_, dying, shared_sig_q_, stopVars, exited_,
                   parentVars, snap, loadVars>>

(* The rest of FinishExec, then OnExec drops the pending signals.          *)
OnExec(t) ==
    /\ pc[t] = "exec_done"
    /\ vfork_waker_' = FALSE
    /\ sig_q_' = [sig_q_ EXCEPT ![t] = {}]
    /\ shared_sig_q_' = {}
    /\ Goto(t, AfterCall(t))
    /\ UNCHANGED <<thread_map_, parked, notified_, dying, stopVars, exited_,
                   exec_waker_, wait_state_, parent_, snap, loadVars>>

(* A thread woken from exec_waker_ looks again.                            *)
ResumeAlone(t) ==
    /\ t \notin parked
    /\ \/ pc[t] = "kill_wait" /\ AwaitAlone(t, "kill_wait", "exec_final", {})
       \/ pc[t] = "exec_wait" /\ AwaitAlone(t, "exec_wait", "exec_done", {})
       \/ pc[t] = "exit_wait" /\ AwaitAlone(t, "exit_wait", "exit_done", {})
    /\ UNCHANGED <<thread_map_, sigVars, stopVars, exited_, parentVars, snap,
                   loadVars>>

WakesExecNever(rest) == FALSE

WakesExec(rest) == Cardinality(rest) = 1

(* ~Thread: the thread leaves the map, wakes exec_waker_ when one thread   *)
(* is left, and may be the one a stop was waiting for.                     *)
ThreadFinish(t) ==
    /\ pc[t] = "exiting"
    /\ LET rest == thread_map_ \ {t} IN
       /\ thread_map_' = rest
       /\ IF WakesExec(rest)
            THEN exec_waker_' = None /\ parked' = parked \ {exec_waker_}
            ELSE UNCHANGED <<exec_waker_, parked>>
       /\ IF stopped /\ stopped_count_ = Cardinality(rest)
            THEN NotifyParentWait("stopped")
            ELSE UNCHANGED wait_state_
    /\ Goto(t, "gone")
    /\ UNCHANGED <<sigVars, stopVars, exited_, vfork_waker_, parent_, snap,
                   loadVars>>

-----------------------------------------------------------------------------
(* Stopping and continuing.                                                *)

(* The state change of JobControlStop; nothing if already stopped.         *)
JobControlStop ==
    IF stopped THEN UNCHANGED <<stopped, notified_>>
               ELSE stopped' = TRUE /\ SignalAllThreads

(* JobControlContinue, called for SIGCONT and at the end of a vfork.       *)
JobControlContinue ==
    IF ~stopped
      THEN UNCHANGED <<stopped, stopped_threads_, parked, wait_state_>>
      ELSE /\ stopped' = FALSE
           /\ stopped_threads_' = stopped_threads_ \ WakeAll
           /\ parked' = parked \ WakeAll
           /\ NotifyParentWait("continued")

(* ++stopped_count_                                                        *)
OneMoreStopped == stopped_count_ + 1

(* ThreadStopWait called from the first or second delivery loop.  The last *)
(* thread to stop tells the parent and whoever waits for the full stop.    *)
ThreadStopWait(t, here) ==
    LET n == OneMoreStopped
        last == n = Cardinality(thread_map_)
        woken == IF last THEN WakeAll ELSE {} IN
    /\ stopped
    /\ IF last THEN NotifyParentWait("stopped") ELSE UNCHANGED wait_state_
    /\ IF exited_
         THEN /\ UNCHANGED <<stopped_count_, pc>>
              /\ stopped_threads_' = stopped_threads_ \ woken
              /\ parked' = parked \ woken
         ELSE /\ stopped_count_' = n
              /\ Goto(t, here)
              /\ stopped_threads_' = (stopped_threads_ \ woken) \cup {t}
              /\ parked' = (parked \ woken) \cup {t}
    /\ UNCHANGED stopped

(* A woken thread of ThreadStopWait looks again.                           *)
ResumeStop(t) ==
    /\ pc[t] \in {"stop1", "stop2"} /\ t \notin parked
    /\ IF ~stopped \/ exited_
         THEN /\ stopped_count_' = stopped_count_ - 1
              /\ Goto(t, IF pc[t] = "stop1" THEN "deliver" ELSE "frames")
              /\ UNCHANGED <<stopped_threads_, parked>>
         ELSE /\ stopped_threads_' = stopped_threads_ \cup {t}
              /\ parked' = parked \cup {t}
              /\ UNCHANGED <<stopped_count_, pc>>
    /\ UNCHANGED <<thread_map_, sigVars, stopped, exited_, exec_waker_,
                   parentVars, snap, loadVars>>

(* DoClone for vfork: stop the process unless it is stopped already, wait  *)
(* until every other thread has stopped, run the child and continue once   *)
(* it has called execve or exited.  The flag is read without the lock.     *)
Vfork(t) ==
    /\ \/ /\ pc[t] = "vfork"
          /\ Goto(t, IF stopped THEN "child_s" ELSE "vfork_stop")
          /\ UNCHANGED <<notified_, stopVars, parked, wait_state_>>
       \/ /\ pc[t] = "vfork_stop"
          /\ JobControlStop
          /\ Goto(t, "full_stop")
          /\ UNCHANGED <<stopped_count_, stopped_threads_, parked, wait_state_>>
       \/ /\ pc[t] = "vfork_cont"
          /\ JobControlContinue
          /\ Goto(t, AfterCall(t))
          /\ UNCHANGED <<notified_, stopped_count_>>
    /\ UNCHANGED <<thread_map_, sig_q_, dying, shared_sig_q_, exited_,
                   exec_waker_, vfork_waker_, parent_, snap, loadVars>>


(* WaitForFullStop called by a thread of the process, which counts itself. *)
FullStop(n) == n = Cardinality(thread_map_) \/ exited_

WaitForFullStop(t) ==
    /\ \/ pc[t] = "full_stop"
       \/ pc[t] = "full_wait" /\ t \notin parked
    /\ LET n == stopped_count_ + (IF pc[t] = "full_stop" THEN 1 ELSE 0) IN
       IF FullStop(n)
         THEN /\ stopped_count_' = n - 1
              /\ Goto(t, "child")
              /\ UNCHANGED <<stopped_threads_, parked>>
         ELSE /\ stopped_count_' = n
              /\ Goto(t, "full_wait")
              /\ stopped_threads_' = stopped_threads_ \cup {t}
              /\ parked' = parked \cup {t}
    /\ UNCHANGED <<thread_map_, sigVars, stopped, exited_, exec_waker_,
                   parentVars, snap, loadVars>>

(* The vfork child, another process, execs or exits.                       *)
ChildReleases(t) ==
    /\ \/ pc[t] = "child" /\ Goto(t, "vfork_cont")
       \/ pc[t] = "child_s" /\ Goto(t, AfterCall(t))
    /\ UNCHANGED <<thread_map_, parked, sigVars, stopVars, exited_,
                   exec_waker_, parentVars, snap, loadVars>>

-----------------------------------------------------------------------------
(* Signal delivery, as far as it decides whether a thread runs, stops or   *)
(* dies.                                                                   *)

Interrupt(t) ==
    /\ pc[t] = "user" /\ notified_[t]
    /\ Goto(t, "deliver")
    /\ UNCHANGED <<thread_map_, parked, sigVars, stopVars, exited_,
                   exec_waker_, parentVars, snap, loadVars>>

(* PopSigInfo: the thread's own queue first, then, unless the process is   *)
(* stopped, the shared one.  SigKillHandler's frame masks "user".          *)
Poppable(t) ==
    LET own == sig_q_[t] \ (IF t \in dying THEN {"user"} ELSE {}) IN
    CASE "kill" \in own -> {<<"own", "kill">>}
      [] own = {"user"} -> {<<"own", "user">>}
      [] own = {} /\ stopped -> {}
      [] OTHER -> {<<"shared", s>> : s \in
                      IF "kill" \in shared_sig_q_ THEN {"kill"}
                                                 ELSE shared_sig_q_}

PopSigInfo(t, s) ==
    /\ s \in Poppable(t)
    /\ IF s[1] = "own"
         THEN /\ sig_q_' = [sig_q_ EXCEPT ![t] = @ \ {s[2]}]
              /\ UNCHANGED shared_sig_q_
         ELSE /\ shared_sig_q_' = shared_sig_q_ \ {s[2]}
              /\ UNCHANGED sig_q_

(* GetNextSignal and its caller for one popped signal: a stop signal stops *)
(* the process and the loop goes on; a handled or fatal one pushes a frame *)
(* unless, in the first loop, the process has exited.                      *)
TakeSignal(t) ==
    /\ pc[t] \in {"deliver", "frames"}
    /\ \E s \in Poppable(t) :
         /\ PopSigInfo(t, s)
         /\ IF s[2] = "stop"
              THEN JobControlStop /\ UNCHANGED <<dying, pc>>
              ELSE /\ dying' = IF s[2] = "kill" THEN dying \cup {t} ELSE dying
                   /\ Goto(t, IF pc[t] = "deliver" /\ exited_ THEN "exiting"
                                                              ELSE "frames")
                   /\ UNCHANGED <<stopped, notified_>>
    /\ UNCHANGED <<thread_map_, parked, stopped_count_, stopped_threads_,
                   exited_, exec_waker_, parentVars, snap, loadVars>>

(* Nothing to pop and the process is stopped: StopWait.                    *)
StopHere(t) ==
    /\ pc[t] \in {"deliver", "frames"} /\ Poppable(t) = {}
    /\ ThreadStopWait(t, IF pc[t] = "deliver" THEN "stop1" ELSE "stop2")
    /\ UNCHANGED <<thread_map_, sigVars, exited_, exec_waker_, vfork_waker_,
                   parent_, snap, loadVars>>

(* Nothing to pop and not stopped: the flag is reset, and the thread goes  *)
(* back to user code; SigKillHandler calls exit_group.                     *)
ResumeUser(t) ==
    /\ pc[t] \in {"deliver", "frames"} /\ Poppable(t) = {} /\ ~stopped
    /\ notified_' = [notified_ EXCEPT ![t] = FALSE]
    /\ Goto(t, IF t \in dying THEN "exit_group" ELSE "user")
    /\ UNCHANGED <<thread_map_, parked, sig_q_, dying, shared_sig_q_, stopVars,
                   exited_, exec_waker_, parentVars, snap, loadVars>>

-----------------------------------------------------------------------------
(* The rest of the world.                                                  *)

(* kill(SIGKILL): SignalLocked also ends a stop.                           *)
SignalKill ==
    /\ "kill" \in load.events
    /\ sent < load.signals /\ sent' = sent + 1
    /\ shared_sig_q_' = shared_sig_q_ \cup {"kill"}
    /\ stopped' = FALSE
    /\ stopped_threads_' = stopped_threads_ \ WakeAll
    /\ parked' = parked \ WakeAll
    /\ SignalAllThreads
    /\ UNCHANGED <<thread_map_, pc, sig_q_, dying, stopped_count_, exited_,
                   exec_waker_, parentVars, snap, load>>

(* kill(SIGTSTP).                                                          *)
SignalStop ==
    /\ "stop" \in load.events /\ "stop" \notin shared_sig_q_
    /\ sent < load.signals /\ sent' = sent + 1
    /\ shared_sig_q_' = shared_sig_q_ \cup {"stop"}
    /\ SignalAllThreads
    /\ UNCHANGED <<thread_map_, pc, parked, sig_q_, dying, stopVars, exited_,
                   exec_waker_, parentVars, snap, load>>

(* kill(SIGCONT).                                                          *)
SignalCont ==
    /\ "cont" \in load.events /\ stopped
    /\ JobControlContinue
    /\ UNCHANGED <<thread_map_, pc, sigVars, stopped_count_, exited_,
                   exec_waker_, vfork_waker_, parent_, snap, loadVars>>

(* tgkill of a signal with a handler (SignalThread).                       *)
SignalThread(t) ==
    /\ "user_signal" \in load.events /\ t \in thread_map_ /\ "user" \notin sig_q_[t]
    /\ sent < load.signals /\ sent' = sent + 1
    /\ sig_q_' = [sig_q_ EXCEPT ![t] = @ \cup {"user"}]
    /\ notified_' = [notified_ EXCEPT ![t] = @ \/ t \notin dying]
    /\ UNCHANGED <<thread_map_, pc, parked, dying, shared_sig_q_, stopVars,
                   exited_, exec_waker_, parentVars, snap, load>>

(* The parent's wait call (ReapChild).                                     *)
ReapChild ==
    /\ parent_ /\ wait_state_ # "none"
    /\ IF wait_state_ = "exited"
         THEN parent_' = FALSE /\ UNCHANGED wait_state_
         ELSE wait_state_' = "none" /\ UNCHANGED parent_
    /\ UNCHANGED <<thread_map_, pc, parked, sigVars, stopVars, exited_,
                   exec_waker_, vfork_waker_, snap, loadVars>>

(* SnapshotPidToELF: stop, wait for the full stop, write, continue.        *)
Snapshot ==
    /\ \/ /\ snap = "idle" /\ "snapshot" \in load.events
          /\ JobControlStop /\ snap' = "wait"
          /\ UNCHANGED <<stopped_count_, stopped_threads_, parked, wait_state_>>
       \/ /\ snap = "wait" /\ Snap \notin parked
          /\ IF FullStop(stopped_count_)
               THEN snap' = "write" /\ UNCHANGED <<stopped_threads_, parked>>
               ELSE /\ stopped_threads_' = stopped_threads_ \cup {Snap}
                    /\ parked' = parked \cup {Snap}
                    /\ UNCHANGED snap
          /\ UNCHANGED <<notified_, stopped, stopped_count_, wait_state_>>
       \/ /\ snap = "write"
          /\ JobControlContinue /\ snap' = "done"
          /\ UNCHANGED <<notified_, stopped_count_>>
    /\ UNCHANGED <<thread_map_, pc, sig_q_, dying, shared_sig_q_, exited_,
                   exec_waker_, vfork_waker_, parent_, loadVars>>

-----------------------------------------------------------------------------
(* What a thread does without being asked by its program.                  *)
KernelStep(t) ==
    \/ CreateThread(t) \/ DoExit(t) \/ DoExitNotify(t)
    \/ DoExecve(t) \/ FinishExec(t) \/ OnExec(t) \/ ResumeAlone(t)
    \/ ThreadFinish(t) \/ ResumeStop(t)
    \/ Vfork(t) \/ WaitForFullStop(t)
    \/ Interrupt(t) \/ TakeSignal(t) \/ StopHere(t) \/ ResumeUser(t)

Next ==
    \/ \E t \in Threads :
         \/ \E call \in Entries : Enter(t, call)
         \/ KernelStep(t) \/ ChildReleases(t) \/ SignalThread(t)
    \/ SignalKill \/ SignalStop \/ SignalCont \/ ReapChild \/ Snapshot

Spec == Init /\ [][Next]_vars

(* Every runnable thread is scheduled; the program, the other processes    *)
(* and the vfork child promise nothing.                                    *)
FairSpec ==
    /\ Spec
    /\ WF_vars(Snapshot)
    /\ \A t \in Threads : WF_vars(KernelStep(t))

-----------------------------------------------------------------------------
(* Properties.                                                             *)

(* Every variable has its type.                                            *)
TypeOK ==
    /\ thread_map_ \subseteq Threads
    /\ pc \in [Threads -> PCs]
    /\ parked \subseteq Threads \cup {Snap}
    /\ sig_q_ \in [Threads -> SUBSET {"kill", "user"}]
    /\ notified_ \in [Threads -> BOOLEAN]
    /\ dying \subseteq Threads
    /\ shared_sig_q_ \subseteq {"kill", "stop"}
    /\ stopped \in BOOLEAN
    /\ stopped_count_ \in 0 .. Cardinality(Threads)
    /\ stopped_threads_ \subseteq parked
    /\ exited_ \in BOOLEAN /\ exec_waker_ \in Threads \cup {None}
    /\ vfork_waker_ \in BOOLEAN /\ parent_ \in BOOLEAN
    /\ wait_state_ \in {"none", "exited", "stopped", "continued"}
    /\ snap \in {"idle", "wait", "write", "done"} /\ sent \in 0 .. load.signals

(* The parent is told of the exit, and a new image replaces the old one,   *)
(* only when no other thread is left to run (DoExit, FinishExec).          *)
NobodyElseLeft ==
    /\ \A t \in Threads :
          pc[t] \in {"exec_done", "exit_done"} => thread_map_ = {t}
    /\ wait_state_ = "exited" => \A t \in thread_map_ : pc[t] = "exiting"

(* A thread that sleeps until the others have finished is the one that     *)
(* ThreadFinish will wake, and it still has something to wait for.         *)
AloneWaiterArmed ==
    \A t \in parked \cap Threads : pc[t] \in {"kill_wait", "exec_wait", "exit_wait"}
        => exec_waker_ = t /\ thread_map_ # {t}

(* Once execve has killed the other threads and sleeps until they are      *)
(* gone, each of them has been killed or is finishing.                     *)
OthersKilled ==
    \A t \in parked \cap Threads : pc[t] \in {"kill_wait", "exec_wait"} =>
        \A u \in thread_map_ \ {t} :
            u \in dying \/ "kill" \in sig_q_[u] \/ pc[u] = "exiting"

(* A thread asleep in ThreadStopWait or WaitForFullStop is on the queue    *)
(* the wakers use, and what it waits for has not happened.                 *)
StopSleepersMustWait ==
    \A t \in parked :
        /\ t # Snap /\ pc[t] \in {"stop1", "stop2"} =>
              t \in stopped_threads_ /\ stopped /\ ~exited_
        /\ t = Snap \/ pc[t] = "full_wait" =>
              /\ t \in stopped_threads_
              /\ stopped_count_ # Cardinality(thread_map_) /\ ~exited_

(* Stop requests reach every thread: one that is running user code of a    *)
(* stopped process has its interrupt flag set (JobControlStop).  It does   *)
(* not hold of a thread that clone adds after the stop.                    *)
StopVisible ==
    stopped => \A t \in thread_map_ \cap load.start :
                  pc[t] = "user" => notified_[t]

(* While a snapshot is written, or a vfork child runs in the memory of its *)
(* parent, every other thread of the process is parked by the stop.        *)
QuietWhileShared ==
    /\ snap = "write" /\ ~exited_ => \A u \in thread_map_ : pc[u] \in Counted
    /\ \A t \in thread_map_ : pc[t] = "child" /\ ~exited_ =>
          \A u \in thread_map_ \ {t} : pc[u] \in Counted

(* exit_group ends every thread of the process.                            *)
ExitGroupCompletes == exited_ ~> thread_map_ = {}

(* No exit, kill, execve or snapshot is under way.                         *)
Settled ==
    /\ exited_ \/ "kill" \in shared_sig_q_ => thread_map_ = {}
    /\ \A t \in Threads : pc[t] \notin {"kill_wait", "exec_wait", "exit_wait"}
    /\ snap # "wait"
=============================================================================
