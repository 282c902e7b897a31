----------------------------- MODULE ProcessTree -----------------------------
(* The table of process identifiers with its reference counts, process groups *)
(* and sessions, and the tree of processes: vfork, exit, wait, reaping,       *)
(* reparenting to init and the destruction of a Process.  What the threads of *)
(* a process do until DoExit notifies the parent is in Process.               *)
EXTENDS Integers, FiniteSets, FiniteSetsExt

CONSTANTS
  kMaxProcesses,       \* identifiers are 1..kMaxProcesses
  Objects,             \* places for Process objects
  init_proc,           \* the first of them
  None,
  Workloads,           \* which calls the programs make: see Init
  MaxCalls             \* bound of calls

Pids == 1..kMaxProcesses

VARIABLES
  load, ncalls,
  bits_, pos_,         \* UIDGenerator: identifiers in use, next position
  pid_ref_count,
  pid_to_proc_,        \* pid -> object, or None
  proc,                \* the Process objects
  child_procs_,        \* object -> its children
  notify,              \* the state a NotifyParentWait in progress reports, or None
  waiter               \* a thread in DoWait: [id, want, woken], or None

vars == <<load, ncalls, bits_, pos_, pid_ref_count, pid_to_proc_, proc, child_procs_, notify, waiter>>
pidvars == <<bits_, pos_, pid_ref_count>>

NoProcess == [st |-> "none", pid |-> 0, pgid |-> 0, sid |-> 0, parent |-> None,
              wait_state |-> "no", tids |-> {}, stopped |-> FALSE]
Constructed == {o \in Objects : proc[o].st # "none"}
Running == {o \in Objects : proc[o].st = "run"}
May(op) == op \in load.ops /\ ncalls < MaxCalls /\ ncalls' = ncalls + 1

-----------------------------------------------------------------------------
(* UIDGenerator and the reference counts *)

(* the next clear bit from pos_, then from the start                          *)
NextPid ==
  LET clear == Pids \ bits_
      above == {p \in clear : p > pos_}
  IN IF above # {} THEN Min(above) ELSE IF clear # {} THEN Min(clear) ELSE None

(* counts after references to the pids in a bag (as a function) come or go    *)
AddRefs(cnt, add) == [p \in Pids |-> cnt[p] + add[p]]
Refs(S) == [p \in Pids |-> Cardinality({x \in S : x[2] = p})]

AllocPid(p, pgid, sid) ==
  /\ p = NextPid
  /\ bits_' = bits_ \cup {p} /\ pos_' = p % kMaxProcesses
  /\ pid_ref_count' = AddRefs([pid_ref_count EXCEPT ![p] = 1], Refs({<<1, pgid>>, <<2, sid>>}))

(* a count that reaches zero releases its identifier                          *)
ReleaseRefs(S) ==
  /\ pid_ref_count' = [p \in Pids |-> pid_ref_count[p] - Refs(S)[p]]
  /\ bits_' = bits_ \ {p \in Pids : Refs(S)[p] > 0 /\ pid_ref_count'[p] = 0}
  /\ UNCHANGED pos_

ReleasePid(pid, pgid, sid) == ReleaseRefs({<<1, pid>>, <<2, pgid>>, <<3, sid>>})

-----------------------------------------------------------------------------
(* Creation *)

(* vfork: CreateProcessVfork and CreateThreadMain                             *)
CreateProcessVfork(o, c) ==
  LET pid == NextPid
  IN /\ May("vfork") /\ o \in Running /\ c \notin Constructed /\ pid # None
     /\ AllocPid(pid, proc[o].pgid, proc[o].sid)
     /\ proc' = [proc EXCEPT ![c] = [NoProcess EXCEPT !.st = "run", !.pid = pid, !.parent = o,
                                     !.pgid = proc[o].pgid, !.sid = proc[o].sid]]
     /\ child_procs_' = [child_procs_ EXCEPT ![o] = @ \cup {c}]
     /\ pid_to_proc_' = [pid_to_proc_ EXCEPT ![pid] = c]
     /\ UNCHANGED <<load, notify, waiter>>

CreateThread(o) ==
  LET tid == NextPid
  IN /\ May("thread") /\ o \in Running /\ tid # None
     /\ AllocPid(tid, None, None)
     /\ proc' = [proc EXCEPT ![o].tids = @ \cup {tid}]
     /\ UNCHANGED <<load, pid_to_proc_, child_procs_, notify, waiter>>

(* the end of a thread that is not the last                                   *)
ThreadExit(o, tid) ==
  /\ tid \in proc[o].tids
  /\ ReleasePid(tid, None, None)
  /\ proc' = [proc EXCEPT ![o].tids = @ \ {tid}]
  /\ UNCHANGED <<load, ncalls, pid_to_proc_, child_procs_, notify, waiter>>

-----------------------------------------------------------------------------
(* Groups and sessions *)

(* the old group's reference goes first, and with the last one its identifier *)
JoinProcessGroup(o, pgid) ==
  LET old == proc[o].pgid
      less == [pid_ref_count EXCEPT ![old] = @ - 1]
  IN /\ proc[o].pgid # proc[o].pid
     /\ bits_' = IF less[old] = 0 THEN bits_ \ {old} ELSE bits_
     /\ pid_ref_count' = [less EXCEPT ![pgid] = @ + 1]
     /\ proc' = [proc EXCEPT ![o].pgid = pgid]
     /\ UNCHANGED pos_

(* setpgid for the caller or the process Find returns; the groups the caller
   may name are those in use and the target's own pid, but not the one the
   target is in: the old reference may be the last                            *)
Groups == {proc[o].pgid : o \in Constructed}

Setpgid(o, target, pgid) ==
  /\ May("setpgid") /\ {o, target} \subseteq Running
  /\ target = o \/ pid_to_proc_[proc[target].pid] = target
  /\ pgid \in Groups \cup {proc[target].pid}
  /\ pgid # proc[target].pgid
  /\ JoinProcessGroup(target, pgid)
  /\ UNCHANGED <<load, pid_to_proc_, child_procs_, notify, waiter>>

BecomeSessionLeader(o) ==
  LET p == proc[o]
      more == [pid_ref_count EXCEPT ![p.pid] = @ + 2]
      less == [i \in Pids |-> more[i] - Refs({<<1, p.sid>>, <<2, p.pgid>>})[i]]
  IN /\ bits_' = bits_ \ {i \in {p.sid, p.pgid} : less[i] = 0}
     /\ pid_ref_count' = less
     /\ proc' = [proc EXCEPT ![o].sid = p.pid, ![o].pgid = p.pid]
     /\ UNCHANGED pos_

Setsid(o) ==
  /\ May("setsid") /\ o \in Running
  /\ proc[o].sid # proc[o].pid /\ proc[o].pgid # proc[o].pid
  /\ BecomeSessionLeader(o)
  /\ UNCHANGED <<load, pid_to_proc_, child_procs_, notify, waiter>>

-----------------------------------------------------------------------------
(* Exit and what the parent is told *)

(* NotifyParentWait reads parent_ before it takes the parent's lock           *)
ReadParent(o, state) ==
  notify' = IF proc[o].parent = None THEN notify
            ELSE [notify EXCEPT ![o] = state]

(* under the lock: the state, then SIGCHLD to whoever is parent_ now, which
   wakes its waiters                                                          *)
NotifyQuietly(o) == waiter' = waiter

NotifyWakes(o) ==
  LET q == proc[o].parent
  IN waiter' = IF q # None /\ waiter[q] # None THEN [waiter EXCEPT ![q].woken = TRUE] ELSE waiter

NotifyParentWait(o) ==
  /\ notify[o] # None
  /\ proc' = [proc EXCEPT ![o].wait_state = notify[o]]
  /\ NotifyWakes(o)
  /\ notify' = [notify EXCEPT ![o] = None]
  /\ UNCHANGED <<load, ncalls, pidvars, pid_to_proc_, child_procs_>>

(* exit_group, once the other threads are gone                                *)
DoExit(o) ==
  /\ o \in Running \ {init_proc} /\ "exit" \in load.ops /\ proc[o].tids = {}
  /\ notify[o] = None /\ waiter[o] = None
  /\ load.orphans \/ child_procs_[o] = {}
  /\ proc' = [proc EXCEPT ![o].st = "exited"]
  /\ ReadParent(o, "exited")
  /\ UNCHANGED <<load, ncalls, pidvars, pid_to_proc_, child_procs_, waiter>>


Reparent(o) ==
  child_procs_' = [child_procs_ EXCEPT ![o] = {}, ![init_proc] = @ \cup child_procs_[o]]

ProcessFinish(o) ==
  /\ proc[o].st = "exited" /\ notify[o] = None
  /\ Reparent(o)
  /\ proc' = [x \in Objects |->
                IF x = o THEN [proc[o] EXCEPT !.st = "finished"]
                ELSE IF x \in child_procs_[o] THEN [proc[x] EXCEPT !.parent = init_proc]
                ELSE proc[x]]
  /\ UNCHANGED <<load, ncalls, pidvars, pid_to_proc_, notify, waiter>>

(* job control, as the parent sees it                                         *)
JobControlStop(o) ==
  /\ May("stop") /\ o \in Running \ {init_proc} /\ ~proc[o].stopped /\ notify[o] = None
  /\ proc' = [proc EXCEPT ![o].stopped = TRUE]
  /\ ReadParent(o, "stopped")
  /\ UNCHANGED <<load, pidvars, pid_to_proc_, child_procs_, waiter>>

JobControlContinue(o) ==
  /\ o \in Running /\ proc[o].stopped /\ notify[o] = None
  /\ proc' = [proc EXCEPT ![o].stopped = FALSE]
  /\ ReadParent(o, "continued")
  /\ UNCHANGED <<load, ncalls, pidvars, pid_to_proc_, child_procs_, waiter>>

-----------------------------------------------------------------------------
(* wait4, waitid *)

(* id: 0 for any child, a pid, or a negated process group                     *)
Matches(c, id) == id = 0 \/ proc[c].pid = id \/ proc[c].pgid = -id
Candidates(o, id) == {c \in child_procs_[o] : Matches(c, id)}
FindWaitableProcess(o, id, want) == {c \in Candidates(o, id) : proc[c].wait_state \in want}


ReapChild(o, c) ==
  IF proc[c].wait_state # "exited"
  THEN /\ proc' = [proc EXCEPT ![c].wait_state = "no"]
       /\ UNCHANGED child_procs_
  ELSE /\ proc' = [proc EXCEPT ![c].parent = None]
       /\ child_procs_' = [child_procs_ EXCEPT ![o] = @ \ {c}]

Take(o, id, want) == \E c \in FindWaitableProcess(o, id, want) : ReapChild(o, c)

(* a call that finds no candidate, or nothing with WNOHANG, changes nothing   *)
DoWait(o, id, want) ==
  /\ May("wait") /\ o \in Running /\ waiter[o] = None
  /\ Candidates(o, id) # {}
  /\ IF FindWaitableProcess(o, id, want) # {}
     THEN Take(o, id, want) /\ UNCHANGED waiter
     ELSE /\ waiter' = [waiter EXCEPT ![o] = [id |-> id, want |-> want, woken |-> FALSE]]
          /\ UNCHANGED <<proc, child_procs_>>
  /\ UNCHANGED <<load, pidvars, pid_to_proc_, notify>>

(* WNOHANG in another thread of the waiting process                           *)
DoWaitNoHang(o, id, want) ==
  /\ May("nohang") /\ o \in Running
  /\ Take(o, id, want)
  /\ UNCHANGED <<load, pidvars, pid_to_proc_, notify, waiter>>

(* woken, or interrupted by a signal: look again                              *)
ResumeWait(o) ==
  /\ waiter[o] # None
  /\ LET w == waiter[o]
         found == FindWaitableProcess(o, w.id, w.want) # {}
     IN \/ /\ found /\ (w.woken \/ load.signals)
           /\ Take(o, w.id, w.want)
           /\ waiter' = [waiter EXCEPT ![o] = None]
        \/ /\ ~found /\ (load.signals \/ (w.woken /\ Candidates(o, w.id) = {}))
           /\ waiter' = [waiter EXCEPT ![o] = None]
           /\ UNCHANGED <<proc, child_procs_>>
        \/ /\ ~found /\ w.woken /\ Candidates(o, w.id) # {}
           /\ waiter' = [waiter EXCEPT ![o].woken = FALSE]
           /\ UNCHANGED <<proc, child_procs_>>
  /\ UNCHANGED <<load, ncalls, pidvars, pid_to_proc_, notify>>

-----------------------------------------------------------------------------
(* the last shared_ptr goes: the thread's, the parent's, a child's            *)
Unreferenced(o) ==
  /\ proc[o].st = "finished"
  /\ \A x \in Objects : o \notin child_procs_[x] /\ proc[x].parent # o

DestroyProcess(o) ==
  /\ Unreferenced(o)
  /\ pid_to_proc_' = [pid_to_proc_ EXCEPT ![proc[o].pid] = None]
  /\ ReleasePid(proc[o].pid, proc[o].pgid, proc[o].sid)
  /\ proc' = [proc EXCEPT ![o] = NoProcess]
  /\ UNCHANGED <<load, ncalls, child_procs_, notify, waiter>>

-----------------------------------------------------------------------------
Init ==
  /\ load \in Workloads /\ ncalls = 0
  /\ bits_ = {1} /\ pos_ = 1
  /\ pid_ref_count = [p \in Pids |-> IF p = 1 THEN 3 ELSE 0]
  /\ pid_to_proc_ = [p \in Pids |-> IF p = 1 THEN init_proc ELSE None]
  /\ proc = [o \in Objects |->
               IF o = init_proc
               THEN [NoProcess EXCEPT !.st = "run", !.pid = 1, !.pgid = 1, !.sid = 1]
               ELSE NoProcess]
  /\ child_procs_ = [o \in Objects |-> {}]
  /\ notify = [o \in Objects |-> None]
  /\ waiter = [o \in Objects |-> None]

Next ==
  \E o \in Objects :
    \/ \E c \in Objects : CreateProcessVfork(o, c)
    \/ CreateThread(o)
    \/ \E tid \in proc[o].tids : ThreadExit(o, tid)
    \/ \E target \in Objects, pgid \in Pids : Setpgid(o, target, pgid)
    \/ Setsid(o)
    \/ DoExit(o) \/ NotifyParentWait(o) \/ ProcessFinish(o)
    \/ JobControlStop(o) \/ JobControlContinue(o)
    \/ \E id \in load.ids, want \in load.wants : DoWait(o, id, want) \/ DoWaitNoHang(o, id, want)
    \/ ResumeWait(o)
    \/ DestroyProcess(o)

(* the steps of a process in the kernel: an exit goes on to its end, a woken
   waiter looks again                                                         *)
KernelStep(o) == NotifyParentWait(o) \/ ProcessFinish(o) \/ ResumeWait(o) \/ DestroyProcess(o)

-----------------------------------------------------------------------------
(* Types.                                                                     *)
TypeOK ==
  /\ bits_ \subseteq Pids /\ pos_ \in 0..(kMaxProcesses - 1)
  /\ pid_ref_count \in [Pids -> Nat]
  /\ pid_to_proc_ \in [Pids -> Objects \cup {None}]
  /\ child_procs_ \in [Objects -> SUBSET Objects]
  /\ \A o \in Constructed : {proc[o].pid, proc[o].pgid, proc[o].sid} \cup proc[o].tids \subseteq Pids

(* Each count is the number of processes and threads that use the identifier
   as pid, group, session or tid, and an identifier is free exactly when the
   count is zero: it can only be handed out again once nothing names it.      *)
PidRefsExact ==
  \A p \in Pids :
    /\ pid_ref_count[p] =
         Cardinality({o \in Constructed : proc[o].pid = p}) + Cardinality({o \in Constructed : proc[o].pgid = p})
         + Cardinality({o \in Constructed : proc[o].sid = p}) + Cardinality({o \in Constructed : p \in proc[o].tids})
    /\ p \in bits_ <=> pid_ref_count[p] > 0

(* Every process is found under its pid until it is destroyed: what the
   assertion in DeregisterProcess (it removes one entry) relies on.           *)
Registered == \A o \in Constructed : pid_to_proc_[proc[o].pid] = o


(* A thread asleep in wait has nothing to report, or is woken: a child's new
   state and the waiter's check and sleep are ordered by the parent's lock.
   Stated for parents other than init, to which children move silently.       *)
NoLostWait ==
  \A o \in Objects \ (IF load.orphans THEN {init_proc} ELSE {}) :
    waiter[o] # None /\ ~waiter[o].woken => FindWaitableProcess(o, waiter[o].id, waiter[o].want) = {}


(* A process that has ended and was waited for goes away, with its pid.       *)
ReapedGoesAway ==
  \A o \in Objects : ~(proc[o].st = "exited" /\ proc[o].parent = None)
=============================================================================
