------------------------------ MODULE MCFiles -------------------------------
(* The parts of the file system for TLC: the directory tree, the descriptors *)
(* and file contents of a process, and the record locks of a file.  A        *)
(* behaviour is one of them at work; the others stay as they start.          *)
EXTENDS MCDirTree

CONSTANTS MaxFd, MaxFiles, kInitialCap, kMaxSizeBytes, PageSize, Slots, LastByte, Signalled

VARIABLES
  which,
  oload, arr, cloexec, retired, off, opened, links, fdlock, buf_, size_, olock_, slot, oth, asked, count,
  holders_, waiters_, pc, al, sig

ovars == <<oload, arr, cloexec, retired, off, opened, links, fdlock, buf_, size_, olock_, slot, oth, asked, count>>
lvars == <<holders_, waiters_, pc, al, sig>>
allvars == <<which, vars, ovars, lvars>>

Loads == INSTANCE MCOpenFiles WITH Workloads <- {}, load <- oload, lock_ <- olock_, th <- oth
Open == INSTANCE OpenFiles WITH Workloads <- Loads!Passing, load <- oload, lock_ <- olock_, th <- oth

(* t1 asks for any range; t2 for the middle byte, the rest, or none.         *)
Rec == INSTANCE AdvisoryLock WITH
  ProcOf <- t1 :> 1 @@ t2 :> 2,
  Requests <- t1 :> ((-1..LastByte) \X (-1..LastByte)) @@ t2 :> {<<1, 1>>, <<1, 0>>, <<2, -1>>}
ASSUME Rec!Assumptions

(* An idle part starts from one of its workloads.                            *)
MCInit ==
  /\ which \in {"tree", "open", "lock"}
  /\ Init /\ (which # "tree" => load = Exclusive)
  /\ Open!Init /\ (which # "open" => oload = Loads!Extents)
  /\ Rec!Init

OfTree(A) == which = "tree" /\ A /\ UNCHANGED <<which, ovars, lvars>>
OfOpen(A) == which = "open" /\ A /\ UNCHANGED <<which, vars, lvars>>
OfLock(A) == which = "lock" /\ A /\ UNCHANGED <<which, vars, ovars>>

MCNext == OfTree(Next) \/ OfOpen(Open!Next) \/ OfLock(Rec!Next)

(* A thread in a call goes on.                                               *)
MCSpec ==
  /\ MCInit /\ [][MCNext]_allvars
  /\ \A t \in Threads : WF_allvars(OfTree(Step(t)) \/ OfOpen(Open!Step(t)))

-----------------------------------------------------------------------------



(* Only SetSize makes a file smaller, though a writer that grows it gives up *)
(* its lock for a moment.                                                    *)
WritesNeverShrink == [][Open!WritesNeverShrink]_allvars

(* The ranges ClearRange cuts are per-byte modes (see AdvisoryLock).         *)
ImplementsRecordLocks == Rec!ImplementsRecordLocks

(* Every call returns: no two threads wait for each other's directory locks, *)
(* a walk through links that point to themselves ends, and an upgraded       *)
(* writer goes on.                                                           *)
CallsEnd == <>[](AllEnded /\ Open!AllEnded)
=============================================================================
