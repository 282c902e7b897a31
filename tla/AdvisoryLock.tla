---------------------------- MODULE AdvisoryLock ----------------------------
(***************************************************************************)
(* AdvisoryLockContext (fs/advisory_lock.cc, fs/advisory_lock.h), the      *)
(* record locks of one inode, and DoFlocks (fs/file.cc), which is how      *)
(* fcntl reaches them.  holders_ is a vector; its order only decides which *)
(* of several conflicts F_GETLK reports, so it is a set here.              *)
(*                                                                         *)
(* The switch in DoFlocks has no break after F_SETLKW and F_GETLK: the     *)
(* first falls through to DoGet and both end in "return -EINVAL".          *)
(***************************************************************************)
EXTENDS Integers, FiniteSets

CONSTANTS
    Threads,
    ProcOf,     \* the pid of the process of each thread
    LastByte,   \* the largest off_t
    Requests,   \* the pairs <<l_start, l_len>> each thread asks for
    Signalled   \* the threads that are sent signals

VARIABLES
    holders_,   \* the locks held
    waiters_,   \* the threads armed on the WaitQueue waiters_
    pc,         \* in user code, blocked in F_SETLKW, or about to do DoGet
    al,         \* the lock each blocked thread asks for
    sig         \* a signal is pending

vars == <<holders_, waiters_, pc, al, sig>>

(* Offsets are naturals and requests pairs of integers.                    *)
Assumptions == LastByte \in Nat /\ Requests \in [Threads -> SUBSET (Int \X Int)]

Pids == {ProcOf[t] : t \in Threads}
Bytes == 0..LastByte
Types == {"rd", "wr", "un"}
Locks == [type : {"rd", "wr"}, start : Bytes, end : Bytes, pid : Pids]

(* fromFlock and ValidateAdvisoryLock; l_start is already relative to the  *)
(* start of the file.  A length of zero means up to the largest offset.    *)
fromFlock(t, type, l_start, l_len) ==
    [type |-> type, start |-> l_start, pid |-> ProcOf[t],
     end |-> IF l_len # 0 THEN l_start + l_len - 1 ELSE LastByte]

Validate(l) == l.start >= 0 /\ l.end >= l.start /\ l.end <= LastByte

NoLock == [type |-> "un", start |-> 0, end |-> 0, pid |-> 0]

overlaps(l, start, end) == start <= l.end /\ end >= l.start

conflicts(l, o) ==
    /\ overlaps(l, o.start, o.end)
    /\ o.pid # l.pid
    /\ o.type # "rd" \/ l.type # "rd"

AnyConflicts(l) == \E h \in holders_ : conflicts(h, l)

(* Mutant: the left fragment is forgotten.                                 *)
ClearRangeNoLeft(hs, start, end, pid) ==
    LET hit == {h \in hs : h.pid = pid /\ overlaps(h, start, end)}
    IN  (hs \ hit) \cup {[h EXCEPT !.start = end + 1] : h \in {g \in hit : end < g.end}}

(* ClearRange: the locks of pid lose start..end; what is left of a lock on *)
(* either side stays.                                                      *)
ClearRange(hs, start, end, pid) ==
    LET hit == {h \in hs : h.pid = pid /\ overlaps(h, start, end)}
    IN  (hs \ hit)
            \cup {[h EXCEPT !.end = start - 1] : h \in {g \in hit : start > g.start}}
            \cup {[h EXCEPT !.start = end + 1] : h \in {g \in hit : end < g.end}}

Init ==
    /\ holders_ = {}
    /\ waiters_ = {}
    /\ pc = [t \in Threads |-> "user"]
    /\ al = [t \in Threads |-> NoLock]
    /\ sig = [t \in Threads |-> FALSE]

(* The locks held become hs; if that freed something, waiters_ are woken.  *)
Release(q, hs) ==
    /\ holders_' = hs
    /\ waiters_' = IF hs = holders_ THEN waiters_ ELSE {}
    /\ pc' = [t \in Threads |->
                 IF hs # holders_ /\ t \in waiters_ /\ q[t] = "parked" THEN "ready" ELSE q[t]]

-----------------------------------------------------------------------------
(* F_SETLK: DoSet with wait = false.  It fails with EINVAL or EAGAIN, or   *)
(* changes the locks and returns.                                          *)
DoSet(t, l) ==
    /\ pc[t] = "user" /\ Validate(l)
    /\ \/ /\ l.type = "un"
          /\ Release(pc, ClearRange(holders_, l.start, l.end, l.pid))
       \/ /\ l.type # "un" /\ ~AnyConflicts(l)
          /\ holders_' = ClearRange(holders_, l.start, l.end, l.pid) \cup {l}
          /\ UNCHANGED <<waiters_, pc>>
    /\ UNCHANGED <<al, sig>>

(* F_SETLKW: DoSet with wait = true.  Under the lock it acquires, gives up *)
(* because of a signal, or parks on the local waker w.                     *)
DoSetWait(t, l) ==
    /\ pc[t] = "user"
    /\ \/ /\ ~Validate(l)
          /\ pc' = [pc EXCEPT ![t] = "get"]
          /\ UNCHANGED <<holders_, waiters_, al>>
       \/ /\ Validate(l) /\ l.type = "un"
          /\ Release([pc EXCEPT ![t] = "get"], ClearRange(holders_, l.start, l.end, l.pid))
          /\ UNCHANGED al
       \/ /\ Validate(l) /\ l.type # "un" /\ ~AnyConflicts(l)
          /\ holders_' = ClearRange(holders_, l.start, l.end, l.pid) \cup {l}
          /\ pc' = [pc EXCEPT ![t] = "get"]
          /\ UNCHANGED <<waiters_, al>>
       \/ /\ Validate(l) /\ l.type # "un" /\ AnyConflicts(l)
          /\ \/ sig[t] /\ pc' = [pc EXCEPT ![t] = "get"] /\ UNCHANGED al
             \/ ~sig[t] /\ pc' = [pc EXCEPT ![t] = "parked"] /\ al' = [al EXCEPT ![t] = l]
          /\ UNCHANGED <<holders_, waiters_>>
    /\ UNCHANGED sig

(* Back from parking.  The waker w is a local that nobody else sees, so it *)
(* is still armed and the wait was interrupted.                            *)
Resume(t) ==
    /\ pc[t] = "ready"
    /\ pc' = [pc EXCEPT ![t] = "get"]
    /\ al' = [al EXCEPT ![t] = NoLock]
    /\ UNCHANGED <<holders_, waiters_, sig>>

(* F_GETLK enters at DoGet, and F_SETLKW comes to it.  It fills in *fl and *)
(* changes no lock (its assertion fails in a debug build if F_SETLKW was   *)
(* asked to unlock); then the default case returns EINVAL.                 *)
GetLk(t, l) ==
    /\ pc[t] = "user"
    /\ pc' = [pc EXCEPT ![t] = "get"]
    /\ UNCHANGED <<holders_, waiters_, al, sig>>

DoGet(t) ==
    /\ pc[t] = "get"
    /\ pc' = [pc EXCEPT ![t] = "user"]
    /\ UNCHANGED <<holders_, waiters_, al, sig>>

(* NotifyDescriptorClosed when a thread of the process closes any          *)
(* descriptor of the file, and NotifyProcDestroy when the process is gone. *)
DropLocksForPid(p) ==
    /\ Release(pc, {h \in holders_ : h.pid # p})
    /\ UNCHANGED <<al, sig>>

Signal(t) ==
    /\ t \in Signalled /\ ~sig[t]
    /\ sig' = [sig EXCEPT ![t] = TRUE]
    /\ pc' = [pc EXCEPT ![t] = IF @ = "parked" THEN "ready" ELSE @]
    /\ UNCHANGED <<holders_, waiters_, al>>

DeliverSignal(t) ==
    /\ pc[t] = "user" /\ sig[t]
    /\ sig' = [sig EXCEPT ![t] = FALSE]
    /\ UNCHANGED <<holders_, waiters_, pc, al>>

(* What callers ask for, starts and lengths out of range included.  The    *)
(* caller of F_GETLK asks about a read or a write lock.                    *)
Fcntl(t) ==
    \E type \in Types, r \in Requests[t] :
        LET l == fromFlock(t, type, r[1], r[2])
        IN  DoSet(t, l) \/ DoSetWait(t, l) \/ (type # "un" /\ GetLk(t, l))

Next ==
    \/ \E t \in Threads : Fcntl(t) \/ Resume(t) \/ DoGet(t) \/ Signal(t) \/ DeliverSignal(t)
    \/ \E p \in Pids : DropLocksForPid(p)

Spec == Init /\ [][Next]_vars

(* A runnable thread runs.                                                 *)
FairSpec == Spec /\ \A t \in Threads : WF_vars(Resume(t) \/ DoGet(t))

-----------------------------------------------------------------------------
TypeOK ==
    /\ holders_ \subseteq Locks /\ \A h \in holders_ : h.start <= h.end
    /\ waiters_ \subseteq Threads
    /\ pc \in [Threads -> {"user", "parked", "ready", "get"}]
    /\ al \in [Threads -> Locks \cup {NoLock}]
    /\ sig \in [Threads -> BOOLEAN]

(* A process never holds a byte twice, so a byte has one mode: ClearRange  *)
(* makes room for every new lock of the same process.                      *)
OwnLocksDisjoint ==
    \A g, h \in holders_ : g # h /\ g.pid = h.pid => ~overlaps(g, h.start, h.end)

(* A byte some process holds for writing is held by no other process.      *)
NoConflictingHolders ==
    \A g, h \in holders_, b \in Bytes :
        g.pid # h.pid /\ overlaps(g, b, b) /\ overlaps(h, b, b)
            => g.type = "rd" /\ h.type = "rd"

(* The ranges of holders_, split and cut by ClearRange, are the per-byte   *)
(* modes of RecordLocks: a call changes the bytes it names and no others.  *)
ModeOf(p, b) ==
    IF \E h \in holders_ : h.pid = p /\ overlaps(h, b, b)
    THEN (CHOOSE h \in holders_ : h.pid = p /\ overlaps(h, b, b)).type
    ELSE "un"
RL == INSTANCE RecordLocks WITH held <- [p \in Pids |-> [b \in Bytes |-> ModeOf(p, b)]]
ImplementsRecordLocks == RL!Spec

(* WaitInterruptible "blocks the calling thread until the predicate        *)
(* becomes true or a signal is delivered" (bindings/sync.h:526): a caller  *)
(* of F_SETLKW does not stay blocked while its lock is and stays free.     *)
BlockedUntilFree ==
    \A t \in Threads : <>[](pc[t] = "parked") => []<>(pc[t] = "parked" /\ AnyConflicts(al[t]))
=============================================================================
