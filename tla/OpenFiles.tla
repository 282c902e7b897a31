----------------------------- MODULE OpenFiles --------------------------------
(* The descriptors of a process and the files behind them: the file table     *)
(* with its array replaced under readers, close-on-exec, the close of a       *)
(* descriptor as procfs and the last reference see it, and reads, writes and  *)
(* truncation of one memfs inode.  Get hands out a pointer without a          *)
(* reference.                                                                 *)
EXTENDS Integers, Sequences, FiniteSets, FiniteSetsExt

CONSTANTS
  Threads, None,
  MaxFd, MaxFiles,          \* bounds: descriptors 0..MaxFd - 1, File objects ever opened
  kInitialCap,
  kMaxSizeBytes, PageSize,  \* of a memfs file
  Slots,                    \* extents of the memfd: allocated_file_slots
  Workloads

Fds == 0..(MaxFd - 1)
Files == 1..MaxFiles
Cells == 0..(kMaxSizeBytes - 1)

VARIABLES
  load,
  arr,          \* farr_: [len, cap, files]
  cloexec,      \* close_on_exec_
  retired,      \* arrays given to RCUFree: the files each still refers to
  off,          \* off_ of each File
  opened,       \* Files opened so far
  links,        \* the links cached by /proc/<pid>/fd: the file each fd was seen to be
  fdlock,       \* the lock of that directory
  buf_, size_,  \* the inode: contents and size
  lock_,        \* the threads that hold the inode's lock shared
  slot,         \* [used, dirty, pages of a former file]
  th,
  asked,        \* history: the flag the last call on a descriptor asked for
  count         \* history: [in, out] descriptors installed and closed

table == <<arr, cloexec, retired, asked>>
data == <<buf_, size_, lock_>>
vars == <<load, table, off, opened, links, fdlock, data, slot, th, count>>

Idle == [pc |-> "idle", call |-> None, f |-> None, sp |-> None, drop |-> <<>>, off |-> 0, n |-> 0,
         mine |-> None, left |-> 0]
Set(t, r) == th' = [th EXCEPT ![t] = r]
Return(t) == Set(t, [Idle EXCEPT !.left = th[t].left, !.mine = th[t].mine])

File(fd) == IF fd < arr.len THEN arr.files[fd] ELSE None
Refs(f) == \/ \E fd \in Fds : arr.files[fd] = f
           \/ \E i \in DOMAIN retired : f \in retired[i]
           \/ \E t \in Threads : th[t].sp = f \/ \E i \in DOMAIN th[t].drop : th[t].drop[i][1] = f

Calls(t, ops) == {c \in load.calls[t] : c.op \in ops /\ th[t].pc = "idle" /\ th[t].left > 0}
Begin(t, c, r) == Set(t, [r EXCEPT !.call = c, !.left = @ - 1])

-----------------------------------------------------------------------------
(* The table *)

BitCeil(n) == CHOOSE p \in {2^k : k \in 0..n} : p >= n /\ \A q \in {2^k : k \in 0..n} : q >= n => p <= q

(* Resize: a larger array is published, readers may still use the old one     *)
Resized(len) ==
  LET cap == BitCeil(len) * 2
  IN IF arr.cap < cap THEN [arr EXCEPT !.len = len, !.cap = cap] ELSE [arr EXCEPT !.len = len]
Retire(len) ==
  retired' = IF arr.cap < BitCeil(len) * 2
             THEN Append(retired, {arr.files[fd] : fd \in Fds} \ {None}) ELSE retired

FirstFree(lowest) ==
  LET free == {fd \in lowest..(arr.len - 1) : arr.files[fd] = None}
  IN IF free # {} THEN Min(free) ELSE IF lowest > arr.len THEN lowest ELSE arr.len

(* Insert                                                                     *)
Insert(f, flag, lowest) ==
  LET i == FirstFree(lowest)
      a == IF i < arr.len THEN arr ELSE Resized(i + 1)
  IN /\ i \in Fds
     /\ arr' = [a EXCEPT !.files[i] = f]
     /\ IF i < arr.len THEN UNCHANGED retired ELSE Retire(i + 1)
     /\ cloexec' = IF flag THEN cloexec \cup {i} ELSE cloexec
     /\ asked' = [asked EXCEPT ![i] = flag]
     /\ count' = [count EXCEPT !.in = @ + 1]

(* InsertAt: what was there is dropped once the lock is released              *)
InsertAt(fd, f, flag) ==
  /\ arr' = [(IF fd >= arr.len THEN Resized(fd + 1) ELSE arr) EXCEPT !.files[fd] = f]
  /\ IF fd >= arr.len THEN Retire(fd + 1) ELSE UNCHANGED retired
  /\ cloexec' = IF flag THEN cloexec \cup {fd} ELSE cloexec
  /\ asked' = [asked EXCEPT ![fd] = flag]
  /\ count' = [count EXCEPT !.in = @ + 1]

(* Remove, RemoveRange, DoCloseOnExec: the handles are destroyed after the
   lock is released                                                           *)
HandlesInOrder(S) == [i \in 1..Cardinality(S) |->
  LET fd == CHOOSE x \in S : Cardinality({y \in S : y <= x}) = i IN <<arr.files[fd], fd>>]

CloseAll(t, c, S, bits) ==
  /\ arr' = [arr EXCEPT !.files = [fd \in Fds |-> IF fd \in S THEN None ELSE @[fd]]]
  /\ cloexec' = bits
  /\ asked' = [fd \in Fds |-> IF fd \in S THEN FALSE ELSE asked[fd]]
  /\ Begin(t, c, [th[t] EXCEPT !.pc = "drop", !.drop = HandlesInOrder(S)])
  /\ UNCHANGED <<retired, count>>

OpenSet(S) == {fd \in S : File(fd) # None}

(* open, inotify_init and the like                                            *)
Open(t) ==
  /\ opened < MaxFiles
  /\ \E c \in Calls(t, {"open"}) :
       /\ Insert(opened + 1, c.flag, 0)
       /\ Begin(t, None, th[t])
  /\ opened' = opened + 1
  /\ UNCHANGED <<load, off, links, fdlock, data, slot>>

(* dup, dup2, dup3, F_DUPFD: Dup takes a reference, the insertion follows     *)
Dup(t) ==
  /\ \E c \in Calls(t, {"dup", "dup2"}) :
       IF File(c.fd) = None \/ (c.op = "dup2" /\ c.fd = c.fd2) THEN Begin(t, None, th[t])
       ELSE Begin(t, c, [th[t] EXCEPT !.pc = "insert", !.sp = File(c.fd)])
  /\ UNCHANGED <<load, table, off, opened, links, fdlock, data, slot, count>>

DupInsert(t) ==
  LET c == th[t].call
      old == File(c.fd2)
  IN /\ th[t].pc = "insert"
     /\ IF c.op = "dup"
        THEN Insert(th[t].sp, c.flag, c.fd2) /\ Return(t)
        ELSE /\ InsertAt(c.fd2, th[t].sp, c.flag)
             /\ IF old = None THEN Return(t)
                ELSE Set(t, [th[t] EXCEPT !.pc = "drop", !.sp = None, !.drop = << <<old, c.fd2>> >>])
     /\ UNCHANGED <<load, off, opened, links, fdlock, data, slot>>

(* close, close_range, and DoCloseOnExec in exec                              *)
Ranges(c) == OpenSet(c.fd..c.fd2)
Cleared(S) == cloexec \ S

Close(t) ==
  /\ \E c \in Calls(t, {"close", "exec"}) :
       IF c.op = "close" THEN CloseAll(t, c, Ranges(c), Cleared(Ranges(c)))
       ELSE CloseAll(t, c, OpenSet(cloexec), {})
  /\ UNCHANGED <<load, off, opened, links, fdlock, data, slot>>


OnDescriptorClose(t) ==
  /\ th[t].pc = "drop"
  /\ IF th[t].drop = <<>> THEN Return(t) /\ UNCHANGED <<links, count>>
     ELSE /\ fdlock = None
          /\ links' = [links EXCEPT ![Head(th[t].drop)[2]] = None]
          /\ count' = [count EXCEPT !.out = @ + 1]
          /\ Set(t, [th[t] EXCEPT !.drop = Tail(@)])
  /\ UNCHANGED <<load, table, off, opened, fdlock, data, slot>>

(* F_SETFD, FIOCLEX, close_range(CLOSE_RANGE_CLOEXEC)                         *)
SetCloseOnExec(t) ==
  /\ \E c \in Calls(t, {"cloexec"}) :
       LET S == OpenSet(c.fd..c.fd2)
       IN /\ cloexec' = IF c.flag THEN cloexec \cup S ELSE cloexec \ S
          /\ asked' = [fd \in Fds |-> IF fd \in S THEN c.flag ELSE asked[fd]]
          /\ Begin(t, None, th[t])
  /\ UNCHANGED <<load, arr, retired, off, opened, links, fdlock, data, slot, count>>

(* a grace period ends                                                        *)
RCUFree ==
  /\ retired # <<>>
  /\ retired' = Tail(retired)
  /\ UNCHANGED <<load, arr, cloexec, asked, off, opened, links, fdlock, data, slot, th, count>>

-----------------------------------------------------------------------------
(* /proc/<pid>/fd: a miss takes the lock exclusively, looks at the table and
   then adds the link                                                         *)
LookupFd(t) ==
  /\ \E c \in Calls(t, {"readlink"}) :
       /\ fdlock = None
       /\ Begin(t, c, IF links[c.fd] # None THEN th[t] ELSE [th[t] EXCEPT !.pc = "miss"])
  /\ UNCHANGED <<load, table, off, opened, links, fdlock, data, slot, count>>

LookupMissLocked(t) ==
  LET f == File(th[t].call.fd)
  IN /\ th[t].pc = "miss" /\ fdlock = None
     /\ IF f = None THEN Return(t) /\ UNCHANGED fdlock
        ELSE fdlock' = t /\ Set(t, [th[t] EXCEPT !.pc = "add", !.f = f])
     /\ UNCHANGED <<load, table, off, opened, links, data, slot, count>>

(* AddDentLockedNoCheck asserts that the name is not there                    *)
AddEntry(t) ==
  LET fd == th[t].call.fd
  IN /\ th[t].pc = "add"
     /\ fdlock' = None
     /\ IF links[fd] # None THEN Set(t, [th[t] EXCEPT !.pc = "assert"]) /\ UNCHANGED links
        ELSE links' = [links EXCEPT ![fd] = th[t].f] /\ Return(t)
     /\ UNCHANGED <<load, table, off, opened, data, slot, count>>

(* GetDents: the cache is made to agree with the table                        *)
GetDents(t) ==
  /\ fdlock = None
  /\ \E c \in Calls(t, {"getdents"}) : Begin(t, None, th[t])
  /\ links' = [fd \in Fds |-> IF File(fd) = None THEN None
                              ELSE IF links[fd] = None THEN File(fd) ELSE links[fd]]
  /\ UNCHANGED <<load, table, off, opened, fdlock, data, slot, count>>

-----------------------------------------------------------------------------
(* Reads and writes of the memfs inode *)

PageAlign(n) == ((n + PageSize - 1) \div PageSize) * PageSize

(* Get: the pointer, and where the call works: the file's own offset or, for
   pread, pwrite, the one given                                               *)
Get(t) ==
  /\ \E c \in Calls(t, {"read", "write", "lseek", "truncate"}) :
       IF File(c.fd) = None THEN Begin(t, None, th[t])
       ELSE Begin(t, c, [th[t] EXCEPT !.pc = c.op, !.f = File(c.fd),
                                      !.off = IF c.off = None THEN off[File(c.fd)] ELSE c.off])
  /\ UNCHANGED <<load, table, off, opened, links, fdlock, data, slot, count>>

Advance(t, n) ==
  IF th[t].call.off = None THEN off' = [off EXCEPT ![th[t].f] = @ + n] ELSE UNCHANGED off

(* the difference is unsigned: past the end it is larger than any buffer      *)
Readable(len, o) == IF o > size_ \/ size_ - o > len THEN len ELSE size_ - o

ReadLock(t) ==
  /\ th[t].pc = "read"
  /\ lock_' = lock_ \cup {t}
  /\ Set(t, [th[t] EXCEPT !.pc = "copyout", !.n = Readable(th[t].call.len, th[t].off)])
  /\ UNCHANGED <<load, table, off, opened, links, fdlock, buf_, size_, slot, count>>

ReadCopy(t) ==
  /\ th[t].pc = "copyout"
  /\ Advance(t, th[t].n)
  /\ lock_' = lock_ \ {t}
  /\ Return(t)
  /\ UNCHANGED <<load, table, opened, links, fdlock, buf_, size_, slot, count>>

(* Write: ENOSPC, a buffer cut at the limit, and the lock upgraded to grow    *)
Fits(t) == Min({th[t].call.len, kMaxSizeBytes - th[t].off})

WriteLock(t) ==
  LET end == th[t].off + Fits(t)
  IN /\ th[t].pc = "write"
     /\ IF th[t].off >= kMaxSizeBytes THEN Return(t) /\ UNCHANGED lock_
        ELSE
             /\ IF end > size_ THEN Set(t, [th[t] EXCEPT !.pc = "upgrade", !.n = Fits(t)]) /\ UNCHANGED lock_
                ELSE /\ lock_' = lock_ \cup {t}
                     /\ Set(t, [th[t] EXCEPT !.pc = "copyin", !.n = Fits(t)])
     /\ UNCHANGED <<load, table, off, opened, links, fdlock, buf_, size_, slot, count>>

(* UpgradeLock lets others in before it returns, so the size is read again;
   DowngradeLock                                                              *)
GrownUnchecked(end) == end
Grown(end) == IF end > size_ THEN end ELSE size_

WriteGrow(t) ==
  /\ th[t].pc = "upgrade" /\ lock_ = {}
  /\ size_' = Grown(th[t].off + th[t].n)
  /\ lock_' = {t}
  /\ Set(t, [th[t] EXCEPT !.pc = "copyin"])
  /\ UNCHANGED <<load, table, off, opened, links, fdlock, buf_, slot, count>>

WriteCopy(t) ==
  /\ th[t].pc = "copyin"
  /\ buf_' = [i \in Cells |-> IF i \in th[t].off..(th[t].off + th[t].n - 1) THEN 1 ELSE buf_[i]]
  /\ Advance(t, th[t].n)
  /\ lock_' = lock_ \ {t}
  /\ Return(t)
  /\ UNCHANGED <<load, table, opened, links, fdlock, size_, slot, count>>

DroppedFrom(len) == PageAlign(len)

SetSize(t) ==
  LET len == th[t].call.len
  IN /\ th[t].pc = "truncate"
     /\ \/ /\ len > kMaxSizeBytes
           /\ UNCHANGED data
        \/ /\ len <= kMaxSizeBytes /\ lock_ = {}
           /\ buf_' = [i \in Cells |-> IF i \in DroppedFrom(len)..(PageAlign(size_) - 1) THEN 0 ELSE buf_[i]]
           /\ size_' = len
           /\ UNCHANGED lock_
     /\ Return(t)
     /\ UNCHANGED <<load, table, off, opened, links, fdlock, slot, count>>

Seek(t) ==
  /\ th[t].pc = "lseek"
  /\ off' = [off EXCEPT ![th[t].f] = IF th[t].call.len = None THEN size_ ELSE th[t].call.len]
  /\ Return(t)
  /\ UNCHANGED <<load, table, opened, links, fdlock, data, slot, count>>

-----------------------------------------------------------------------------
(* MemInode::Create and ~MemInode: an extent of the memfd for each inode      *)
CreateInode(t) ==
  /\ th[t].mine = None
  /\ \E c \in Calls(t, {"create"}) :
       IF \A s \in Slots : slot[s].used THEN Begin(t, None, th[t]) /\ UNCHANGED slot
       ELSE LET s == Min({x \in Slots : ~slot[x].used})
            IN /\ slot' = [slot EXCEPT ![s].used = TRUE]
               /\ Begin(t, None, [th[t] EXCEPT !.mine = s])
  /\ UNCHANGED <<load, table, off, opened, links, fdlock, data, count>>

FillInode(t) ==
  /\ th[t].pc = "idle" /\ th[t].mine # None
  /\ slot' = [slot EXCEPT ![th[t].mine].dirty = TRUE]
  /\ Set(t, [th[t] EXCEPT !.pc = "destroy"])
  /\ UNCHANGED <<load, table, off, opened, links, fdlock, data, count>>

(* the pages go before the extent is free for another inode                   *)
FirstPagesDropped(s) == [s EXCEPT !.dirty = FALSE]

DropPages(t) ==
  /\ th[t].pc = "destroy"
  /\ slot' = [slot EXCEPT ![th[t].mine] = FirstPagesDropped(@)]
  /\ Set(t, [th[t] EXCEPT !.pc = "unmapped"])
  /\ UNCHANGED <<load, table, off, opened, links, fdlock, data, count>>

FreeSlot(t) ==
  /\ th[t].pc = "unmapped"
  /\ slot' = [slot EXCEPT ![th[t].mine] = [used |-> FALSE, dirty |-> FALSE]]
  /\ Set(t, [Idle EXCEPT !.left = th[t].left])
  /\ UNCHANGED <<load, table, off, opened, links, fdlock, data, count>>

-----------------------------------------------------------------------------
Init ==
  /\ load \in Workloads
  /\ arr = [len |-> 1, cap |-> kInitialCap, files |-> [fd \in Fds |-> IF fd = 0 THEN 1 ELSE None]]
  /\ cloexec = {} /\ asked = [fd \in Fds |-> FALSE]
  /\ retired = <<>>
  /\ off = [f \in Files |-> 0]
  /\ opened = 1
  /\ links = [fd \in Fds |-> None]
  /\ fdlock = None
  /\ buf_ = [i \in Cells |-> 0] /\ size_ = 0 /\ lock_ = {}
  /\ slot = [s \in Slots |-> [used |-> FALSE, dirty |-> FALSE]]
  /\ th = [t \in Threads |-> [Idle EXCEPT !.left = load.n[t]]]
  /\ count = [in |-> 1, out |-> 0]

Step(t) ==
  \/ DupInsert(t) \/ OnDescriptorClose(t)
  \/ LookupMissLocked(t) \/ AddEntry(t)
  \/ ReadLock(t) \/ ReadCopy(t) \/ WriteLock(t) \/ WriteGrow(t) \/ WriteCopy(t) \/ SetSize(t) \/ Seek(t)
  \/ FillInode(t) \/ DropPages(t) \/ FreeSlot(t)

Next ==
  \/ RCUFree
  \/ \E t \in Threads :
       \/ Open(t) \/ Dup(t) \/ Close(t) \/ SetCloseOnExec(t) \/ LookupFd(t) \/ GetDents(t)
       \/ Get(t) \/ CreateInode(t) \/ Step(t)

Spec == Init /\ [][Next]_vars /\ \A t \in Threads : WF_vars(Step(t))

-----------------------------------------------------------------------------
(* Types; the length of the array is within its capacity, and no file lies
   beyond it.                                                                 *)
TypeOK ==
  /\ arr.len \in 0..MaxFd /\ arr.len <= arr.cap
  /\ \A fd \in Fds : arr.files[fd] \in Files \cup {None} /\ (arr.files[fd] # None => fd < arr.len)
  /\ cloexec \subseteq Fds /\ size_ \in 0..kMaxSizeBytes /\ off \in [Files -> Nat]

(* A pointer Get returned is to a file that is referred to, where no thread
   closes a descriptor that another uses: neither the growth of the table nor
   other descriptors of the same file take it away.                           *)
PointersLive ==
  \A t \in Threads : th[t].pc \in {"read", "copyout", "write", "upgrade", "copyin", "lseek", "truncate", "add"}
                       => Refs(th[t].f)

(* A descriptor has the close-on-exec flag exactly if the last call that
   installed or changed it asked for it.                                      *)
CloexecAsAsked == \A fd \in Fds : File(fd) # None => (fd \in cloexec <=> asked[fd])

(* Each descriptor that is installed is closed once, in exec too: procfs and
   the inode hear of every close.                                             *)
Pending == FoldSet(LAMBDA t, n : n + Len(th[t].drop), 0, Threads)
ClosedOnce ==
  count.in = count.out + Pending + Cardinality(OpenSet(Fds))

(* A link of /proc/<pid>/fd that is not to the file of its descriptor is about
   to be dropped by the thread that closed the descriptor, even when the
   number is in use again.                                                    *)
LinksFresh ==
  \A fd \in Fds : links[fd] # None /\ links[fd] # File(fd) =>
    \E t \in Threads : \E i \in DOMAIN th[t].drop : th[t].drop[i][2] = fd

(* What is past the end of a file reads as zero if the file grows, where it is
   cut at whole pages: a write never copies past the size.                    *)
ZeroPastEnd == \A i \in Cells : i >= size_ => buf_[i] = 0

(* Only SetSize makes a file smaller, though a writer that grows it gives up
   its lock for a moment.                                                     *)
WritesNeverShrink ==
  size_' < size_ => \E t \in Threads : th[t].pc = "truncate" /\ th'[t].pc = "idle"

(* The extent of a new inode holds nothing of a former one.                   *)
ExtentsClean == \A s \in Slots : slot[s].dirty => slot[s].used

AllEnded == \A t \in Threads : th[t].pc = "idle"
=============================================================================
