------------------------------ MODULE DirTree --------------------------------
(* The directory tree: inodes, directory entries and the per-directory maps   *)
(* of entries, path resolution, and the calls that change the tree in memfs,  *)
(* as threads interleave them.  A call resolves its paths one component at a  *)
(* time, each under the lock of one directory, and then works on the          *)
(* directories it found, which may have changed or gone in the meantime.      *)
EXTENDS Integers, Sequences, SequencesExt, FiniteSets

CONSTANTS
  Threads, None,
  kMaxLinksToChase,
  MaxInodes, MaxDents,   \* bounds of what is ever created
  Workloads

ASSUME DirAssumption == kMaxLinksToChase \in Nat \ {0} /\ MaxInodes \in Nat /\ MaxDents \in Nat

Inodes == 1..MaxInodes   \* in the order of their inode numbers
Dents == 1..MaxDents
Root == 1                \* the root directory and its entry

VARIABLES
  load,
  inode,       \* [type, nlink, target]
  dent,        \* DirectoryEntry: [name, ino, parent], parent is an entry or None
  dents_,      \* DentryMap of each directory: a set of entries
  dent_,       \* a directory's own entry, None once it is removed
  lock_,       \* the thread that holds a directory's lock exclusively
  cwd,         \* FSRoot of the process: the entry of its working directory
  th           \* the threads

vars == <<load, inode, dent, dents_, dent_, lock_, cwd, th>>
tree == <<inode, dent, dents_, dent_>>

Unused == [type |-> "none", nlink |-> 0, target |-> None]
NoDent == [name |-> None, ino |-> None, parent |-> None]
Idle == [pc |-> "idle", call |-> None, todo |-> <<>>, res |-> <<>>, at |-> None, dir |-> None,
         rest |-> <<>>, file |-> None, made |-> None, left |-> 0]

IsDir(i) == inode[i].type = "dir"
Stale(i) == inode[i].nlink = 0
Find(i, name) == {d \in dents_[i] : dent[d].name = name}
TheOne(S) == CHOOSE x \in S : TRUE
Unlocked(i) == lock_[i] = None

(* the paths each call looks up; a path is [abs, comps]                       *)
EntryWalk(c) == << <<"entry", c.path>> >>
InodeWalk(c) == << <<"inode", c.path>> >>
RenameWalks(c) == << <<"entry", c.path>>, <<"entry", c.path2>> >>
LinkWalks(c) == << <<"inode", c.path>>, <<"entry", c.path2>> >>
Walks(c) ==
  CASE c.op = "rename"            -> RenameWalks(c)
    [] c.op = "link"              -> LinkWalks(c)
    [] c.op \in {"stat", "chdir"} -> InodeWalk(c)
    [] OTHER                      -> EntryWalk(c)

Set(t, r) == th' = [th EXCEPT ![t] = r]
Fail(t) == Set(t, [Idle EXCEPT !.file = th[t].file, !.left = th[t].left])
Done(t) == Fail(t)
Opened(t, d) == Set(t, [Idle EXCEPT !.file = d, !.left = th[t].left])
Crash(t) == Set(t, [th[t] EXCEPT !.pc = "crashed"])

-----------------------------------------------------------------------------
(* Path resolution *)

(* GetPathDir: get_entry() of the directory is where the walk starts          *)
Start(r, w) ==
  LET dir == IF w[2].abs THEN Root ELSE dent[cwd].ino
      comps == w[2].comps
  IN [r EXCEPT !.pc = "walk", !.dir = dir, !.at = dent_[dir],
               !.rest = IF w[1] = "entry" /\ comps # <<>> THEN Front(comps) ELSE comps]

BeginCall(t) ==
  /\ th[t].pc = "idle" /\ th[t].left > 0
  /\ \E c \in load.calls[t] :
       Set(t, Start([th[t] EXCEPT !.call = c, !.todo = Walks(c), !.res = <<>>, !.left = @ - 1], Walks(c)[1]))
  /\ UNCHANGED <<load, tree, lock_, cwd>>

Pop == "pop"                          \* the end of a link's path
Depth(rest) == Len(SelectSeq(rest, LAMBDA c : c = Pop))
LastHere(rest) == Len(rest) = 1 \/ rest[2] = Pop

(* "..": the parent's pointer of an entry that was removed is null            *)
WalkUp(t) ==
  LET r == th[t]
      p == IF r.at = None THEN None ELSE dent[r.at].parent
  IN IF r.at = Root THEN Set(t, [r EXCEPT !.rest = Tail(@)])
     ELSE IF p = None THEN Crash(t)
     ELSE Set(t, [r EXCEPT !.rest = Tail(@), !.at = p, !.dir = dent[p].ino])

WalkLink(t, i) ==
  LET r == th[t]
      target == inode[i].target
      dir == IF target.abs THEN Root ELSE r.dir
  IN IF Depth(r.rest) + 1 >= kMaxLinksToChase THEN Fail(t)
     ELSE Set(t, [r EXCEPT !.rest = target.comps \o <<Pop>> \o Tail(@), !.dir = dir, !.at = dent_[dir]])

(* a result that is not the last must be a directory                          *)
Arrive(t, d) ==
  LET r == th[t]
      i == dent[d].ino
  IN IF Stale(i) \/ (~LastHere(r.rest) /\ ~IsDir(i)) THEN Fail(t)
     ELSE Set(t, [r EXCEPT !.rest = Tail(@), !.at = d, !.dir = i])

WalkPath(t) ==
  LET r == th[t]
      v == Head(r.rest)
      found == Find(r.dir, v)
      i == dent[TheOne(found)].ino
      chase == r.call.follow \/ r.todo[1][1] = "entry" \/ Len(r.rest) > 1
  IN /\ r.pc = "walk" /\ r.rest # <<>>
     /\ IF v = ".." THEN WalkUp(t)
        ELSE IF v = Pop THEN Arrive(t, r.at)
        ELSE /\ Unlocked(r.dir)
             /\ IF found = {} \/ Stale(i) THEN Fail(t)
                ELSE IF inode[i].type = "link" /\ chase THEN WalkLink(t, i)
                ELSE Arrive(t, TheOne(found))
     /\ UNCHANGED <<load, tree, lock_, cwd>>

(* LookupEntry: the directory and the name of the last component, empty for
   "/" and ".."; LookupDirEntry: the entry                                       *)
EntryOf(r, comps) ==
  LET last == IF comps = <<>> THEN "" ELSE Last(comps)
  IN IF last # ".." THEN [dir |-> r.dir, name |-> last]
     ELSE IF r.at = Root THEN [dir |-> r.dir, name |-> ""]
     ELSE [dir |-> dent[dent[r.at].parent].ino, name |-> ""]

(* a walk of no component, or one that ends in "..", may end in a directory
   that was removed                                                           *)
EndsStale(r, w) ==
  LET comps == w[2].comps
      walked == IF w[1] = "entry" /\ comps # <<>> THEN Front(comps) ELSE comps
  IN \/ Stale(r.dir) /\ ~(w[1] = "entry" /\ comps = <<>>) /\ (walked = <<>> \/ Last(walked) = "..")
     \/ w[1] = "entry" /\ ~IsDir(r.dir)
     \/ w[1] = "entry" /\ comps # <<>> /\ Last(comps) = ".." /\ r.at # Root /\ dent[r.at].parent = None

WalkEnd(t) ==
  LET r == th[t]
      w == r.todo[1]
      found == IF w[1] = "inode" THEN r.at ELSE EntryOf(r, w[2].comps)
      next == [r EXCEPT !.todo = Tail(@), !.res = Append(@, found)]
  IN /\ r.pc = "walk" /\ r.rest = <<>>
     /\ IF EndsStale(r, w) THEN Fail(t)
        ELSE IF Tail(r.todo) = <<>> THEN Set(t, [next EXCEPT !.pc = "op"])
        ELSE Set(t, Start(next, r.todo[2]))
     /\ UNCHANGED <<load, tree, lock_, cwd>>

-----------------------------------------------------------------------------
(* Entries and directories *)

NewIno == CHOOSE i \in Inodes : inode[i].type = "none" /\ \A j \in 1..(i - 1) : inode[j].type # "none"
NewDent == CHOOSE d \in Dents : dent[d].name = None /\ \A e \in 1..(d - 1) : dent[e].name # None
Room == dent[MaxDents].name = None /\ inode[MaxInodes].type = "none"

(* DirectoryEntry's constructor: an entry without a parent is not a link; the
   parent is the directory's own entry                                        *)
Link(i, name, ino, type, target) ==
  LET par == dent_[i]
      links == IF inode[ino].type = "none" THEN 0 ELSE inode[ino].nlink
  IN /\ dent' = [dent EXCEPT ![NewDent] = [name |-> name, ino |-> ino, parent |-> par]]
     /\ inode' = [inode EXCEPT ![ino] = [type |-> type, target |-> target,
                                         nlink |-> IF par = None THEN links ELSE links + 1]]
     /\ dents_' = [dents_ EXCEPT ![i] = @ \cup {NewDent}]
     /\ dent_' = IF type = "dir" THEN [dent_ EXCEPT ![ino] = NewDent] ELSE dent_

(* UnlinkAndDispose, with Invalidate                                          *)
Disposed(i, d, ents, inos, maps, own) ==
  LET ino == ents[d].ino
  IN [dent |-> [ents EXCEPT ![d].parent = None],
      inode |-> [inos EXCEPT ![ino].nlink = @ - 1],
      dents_ |-> [maps EXCEPT ![i] = @ \ {d}],
      dent_ |-> IF inos[ino].type = "dir" THEN [own EXCEPT ![ino] = None] ELSE own]

SetTree(s) == dent' = s.dent /\ inode' = s.inode /\ dents_' = s.dents_ /\ dent_' = s.dent_
UnlinkAndDispose(i, d) == SetTree(Disposed(i, d, dent, inode, dents_, dent_))

-----------------------------------------------------------------------------
(* Calls on one directory, each under its lock *)

At(t, op) == th[t].pc = "op" /\ th[t].call.op = op
Entry(t) == th[t].res[1]

(* MkDir, and Insert for SymLink, MkNod: EEXIST when the name is taken        *)
Make(t) ==
  LET e == Entry(t)
      c == th[t].call
  IN /\ th[t].pc = "op" /\ c.op \in {"mkdir", "symlink"} /\ Unlocked(e.dir)
     /\ IF (c.op = "symlink" /\ e.name = "") \/ Find(e.dir, e.name) # {} THEN UNCHANGED tree
        ELSE Room /\ Link(e.dir, e.name, NewIno, IF c.op = "mkdir" THEN "dir" ELSE "link", c.target)
     /\ Done(t)
     /\ UNCHANGED <<load, lock_, cwd>>

LinkInode(t) ==
  LET e == th[t].res[2]
      i == dent[th[t].res[1]].ino
  IN /\ At(t, "link") /\ Unlocked(e.dir)
     /\ IF IsDir(i) \/ e.name = "" \/ Stale(e.dir) \/ Find(e.dir, e.name) # {} THEN UNCHANGED tree
        ELSE Room /\ Link(e.dir, e.name, i, inode[i].type, inode[i].target)
     /\ Done(t)
     /\ UNCHANGED <<load, lock_, cwd>>

Unlink(t) ==
  LET e == Entry(t)
      found == Find(e.dir, e.name)
  IN /\ At(t, "unlink") /\ Unlocked(e.dir)
     /\ IF e.name = "" \/ found = {} \/ IsDir(dent[TheOne(found)].ino) THEN UNCHANGED tree
        ELSE UnlinkAndDispose(e.dir, TheOne(found))
     /\ Done(t)
     /\ UNCHANGED <<load, lock_, cwd>>

Chdir(t) ==
  LET d == th[t].res[1]
  IN /\ th[t].pc = "op" /\ th[t].call.op \in {"stat", "chdir"}
     /\ cwd' = IF th[t].call.op = "chdir" /\ IsDir(dent[d].ino) THEN d ELSE cwd
     /\ Done(t)
     /\ UNCHANGED <<load, tree, lock_>>

(* Open: a lookup, then Create under the lock if there was nothing            *)
OpenLookup(t) ==
  LET e == Entry(t)
      c == th[t].call
      found == Find(e.dir, e.name)
      d == TheOne(found)
  IN /\ At(t, "open") /\ Unlocked(e.dir)
     /\ IF e.name = "" THEN (IF dent_[e.dir] = None THEN Crash(t) ELSE Opened(t, dent_[e.dir]))
        ELSE IF found = {} THEN (IF c.create THEN Set(t, [th[t] EXCEPT !.pc = "create"]) ELSE Fail(t))
        ELSE IF c.create /\ c.excl THEN Fail(t)
        ELSE IF c.temp THEN (IF IsDir(dent[d].ino) THEN Set(t, [th[t] EXCEPT !.pc = "temp"]) ELSE Fail(t))
        ELSE IF inode[dent[d].ino].type # "link" THEN Opened(t, d)
        ELSE IF ~c.follow THEN Fail(t)
        ELSE Set(t, [th[t] EXCEPT !.pc = "walk", !.call = [c EXCEPT !.op = "follow"], !.res = <<>>,
                                  !.todo = << <<"inode", c.path>> >>, !.dir = e.dir,
                                  !.at = dent_[e.dir], !.rest = <<e.name>>])
     /\ UNCHANGED <<load, tree, lock_, cwd>>

OpenFollowed(t) ==
  /\ At(t, "follow")
  /\ Opened(t, th[t].res[1])
  /\ UNCHANGED <<load, tree, lock_, cwd>>

CreateFound(c) == ~c.excl

Create(t) ==
  LET e == Entry(t)
      found == Find(e.dir, e.name)
  IN /\ th[t].pc = "create" /\ Unlocked(e.dir)
     /\ IF found # {}
        THEN /\ IF CreateFound(th[t].call) THEN Opened(t, TheOne(found)) ELSE Fail(t)
             /\ UNCHANGED tree
        ELSE /\ Room /\ Link(e.dir, e.name, NewIno, "reg", None)
             /\ Set(t, [Idle EXCEPT !.file = NewDent, !.made = NewDent, !.left = th[t].left])
     /\ UNCHANGED <<load, lock_, cwd>>

(* CreateTemp: an entry in no directory                                       *)
CreateTemp(t) ==
  /\ th[t].pc = "temp" /\ Room
  /\ inode' = [inode EXCEPT ![NewIno] = [Unused EXCEPT !.type = "reg"]]
  /\ dent' = [dent EXCEPT ![NewDent] = [name |-> "", ino |-> NewIno, parent |-> None]]
  /\ Opened(t, NewDent)
  /\ UNCHANGED <<load, dents_, dent_, lock_, cwd>>

(* RemoveFromParent of an entry the thread has open: the parent is read, and
   again under its lock, as the entry may be moved in between                 *)
RemoveFromParent(t) ==
  LET par == dent[th[t].file].parent
  IN /\ \/ th[t].pc = "idle" /\ load.removes /\ th[t].file # None /\ ~IsDir(dent[th[t].file].ino)
        \/ th[t].pc = "again"
     /\ Set(t, IF par = None THEN [th[t] EXCEPT !.pc = "idle", !.file = None, !.made = None]
               ELSE [th[t] EXCEPT !.pc = "rment", !.dir = dent[par].ino])
     /\ UNCHANGED <<load, tree, lock_, cwd>>

StillThere(d, dir) == dent[d].parent # None /\ dent[dent[d].parent].ino = dir

UnlinkEntry(t) ==
  LET d == th[t].file
      dir == th[t].dir
  IN /\ th[t].pc = "rment" /\ Unlocked(dir)
     /\ IF StillThere(d, dir)
        THEN UnlinkAndDispose(dir, d) /\ Done(t)
        ELSE Set(t, [th[t] EXCEPT !.pc = "again"]) /\ UNCHANGED tree
     /\ UNCHANGED <<load, lock_, cwd>>

(* GetFullPath, for getcwd: up the chain of parents                           *)
GetFullPath(t) ==
  LET d == th[t].at
  IN /\ th[t].pc = "up"
     /\ IF dent[d].parent = None \/ d = Root THEN Done(t)
        ELSE Set(t, [th[t] EXCEPT !.at = dent[d].parent])
     /\ UNCHANGED <<load, tree, lock_, cwd>>

Getcwd(t) ==
  /\ th[t].pc = "idle" /\ load.getcwd /\ th[t].left > 0
  /\ Set(t, [th[t] EXCEPT !.pc = "up", !.at = cwd, !.left = @ - 1])
  /\ UNCHANGED <<load, tree, lock_, cwd>>

-----------------------------------------------------------------------------
(* Calls that hold two locks *)

(* RmDir: the parent's lock, the directory's lock for the time of one check,
   and then the entry goes                                                    *)
RmDirCheck(t) ==
  LET e == Entry(t)
      found == Find(e.dir, e.name)
  IN /\ At(t, "rmdir") /\ Unlocked(e.dir)
     /\ IF found = {} \/ ~IsDir(dent[TheOne(found)].ino) THEN Fail(t) /\ UNCHANGED lock_
        ELSE /\ lock_' = [lock_ EXCEPT ![e.dir] = t]
             /\ Set(t, [th[t] EXCEPT !.pc = "rm1", !.at = TheOne(found)])
     /\ UNCHANGED <<load, tree, cwd>>

IsEmpty(i) == dents_[i] = {}

RmDirEmpty(t) ==
  LET i == dent[th[t].at].ino
  IN /\ th[t].pc = "rm1" /\ Unlocked(i)
     /\ IF ~IsEmpty(i) THEN Fail(t) /\ lock_' = [lock_ EXCEPT ![Entry(t).dir] = None]
        ELSE Set(t, [th[t] EXCEPT !.pc = "rm2"]) /\ UNCHANGED lock_
     /\ UNCHANGED <<load, tree, cwd>>

RmDirDispose(t) ==
  /\ th[t].pc = "rm2"
  /\ UnlinkAndDispose(Entry(t).dir, th[t].at)
  /\ lock_' = [lock_ EXCEPT ![Entry(t).dir] = None]
  /\ Done(t)
  /\ UNCHANGED <<load, cwd>>

LockFirst(src, dst) == IF src > dst THEN src ELSE dst
Other(src, dst) == IF LockFirst(src, dst) = src THEN dst ELSE src

RenameLock(t) ==
  LET s == th[t].res[1].dir
      d == th[t].res[2].dir
      first == LockFirst(s, d)
  IN /\ At(t, "rename") /\ Unlocked(first)
     /\ lock_' = [lock_ EXCEPT ![first] = t]
     /\ Set(t, [th[t] EXCEPT !.pc = "mv1"])
     /\ UNCHANGED <<load, tree, cwd>>

(* MoveFrom: the source leaves its map before the target's name is looked up,
   so a file renamed to itself is not its own conflict                        *)
MoveFrom(src, sname, dst, dname, replace) ==
  LET d == TheOne(Find(src, sname))
      out == [dents_ EXCEPT ![src] = @ \ {d}]
      conflict == {x \in out[dst] : dent[x].name = dname}
      s == IF conflict = {} THEN [dent |-> dent, inode |-> inode, dents_ |-> out, dent_ |-> dent_]
           ELSE Disposed(dst, TheOne(conflict), dent, inode, out, dent_)
  IN IF Find(src, sname) = {} \/ (conflict # {} /\ ~replace) THEN UNCHANGED tree
     ELSE SetTree([s EXCEPT !.dents_[dst] = @ \cup {d},
                            !.dent[d] = [name |-> dname, ino |-> @.ino, parent |-> s.dent_[dst]]])

Rename(t) ==
  LET s == th[t].res[1]
      d == th[t].res[2]
      second == Other(s.dir, d.dir)
  IN /\ th[t].pc = "mv1" /\ (s.dir # d.dir => Unlocked(second))
     /\ MoveFrom(s.dir, s.name, d.dir, d.name, th[t].call.replace)
     /\ lock_' = [lock_ EXCEPT ![LockFirst(s.dir, d.dir)] = None]
     /\ Done(t)
     /\ UNCHANGED <<load, cwd>>

-----------------------------------------------------------------------------
(* The tree at the start: directories a and b in the root, a file in a, and
   the link the workload puts into b                                          *)
Init ==
  /\ load \in Workloads
  /\ inode = [i \in Inodes |->
       CASE i <= 3 -> [type |-> "dir", nlink |-> 1, target |-> None]
         [] i = 4  -> [type |-> "reg", nlink |-> 1, target |-> None]
         [] i = 5 /\ load.link # None -> [type |-> "link", nlink |-> 1, target |-> load.link]
         [] OTHER  -> Unused]
  /\ dent = [d \in Dents |->
       CASE d = 1 -> [name |-> ".", ino |-> 1, parent |-> Root]
         [] d = 2 -> [name |-> "a", ino |-> 2, parent |-> Root]
         [] d = 3 -> [name |-> "b", ino |-> 3, parent |-> Root]
         [] d = 4 -> [name |-> "f", ino |-> 4, parent |-> 2]
         [] d = 5 /\ load.link # None -> [name |-> "l", ino |-> 5, parent |-> 3]
         [] OTHER -> NoDent]
  /\ dents_ = [i \in Inodes |-> CASE i = 1 -> {2, 3} [] i = 2 -> {4}
                                  [] i = 3 /\ load.link # None -> {5} [] OTHER -> {}]
  /\ dent_ = [i \in Inodes |-> IF i <= 3 THEN i ELSE None]
  /\ lock_ = [i \in Inodes |-> None]
  /\ cwd = Root
  /\ th = [t \in Threads |-> [Idle EXCEPT !.left = load.n[t]]]

Step(t) ==
  \/ WalkPath(t) \/ WalkEnd(t)
  \/ Make(t) \/ LinkInode(t) \/ Unlink(t) \/ Chdir(t)
  \/ OpenLookup(t) \/ OpenFollowed(t) \/ Create(t) \/ CreateTemp(t)
  \/ UnlinkEntry(t) \/ GetFullPath(t) \/ (th[t].pc = "again" /\ RemoveFromParent(t))
  \/ RmDirCheck(t) \/ RmDirEmpty(t) \/ RmDirDispose(t)
  \/ RenameLock(t) \/ Rename(t)

Next == \E t \in Threads : BeginCall(t) \/ Getcwd(t) \/ RemoveFromParent(t) \/ Step(t)

(* a thread in a call goes on                                                 *)
Spec == Init /\ [][Next]_vars /\ \A t \in Threads : WF_vars(Step(t))

-----------------------------------------------------------------------------
(* Types.                                                                     *)
TypeOK ==
  /\ \A i \in Inodes : inode[i].nlink \in Nat /\ dents_[i] \subseteq Dents
  /\ \A d \in Dents : dent[d].parent \in Dents \cup {None}
  /\ dent_ \in [Inodes -> Dents \cup {None}] /\ lock_ \in [Inodes -> Threads \cup {None}]
  /\ cwd \in Dents

(* An inode has as many links as entries in directories, an entry is in the
   map of the directory it names as parent and in no other, a name is there
   once, and a directory's own entry is its only one.                         *)
MapsConsistent ==
  /\ \A i \in Inodes : i # Root =>
       inode[i].nlink = Cardinality({d \in Dents : dent[d].ino = i /\ dent[d].parent # None})
  /\ \A d \in Dents \ {Root}, i \in Inodes :
       d \in dents_[i] <=> dent[d].parent # None /\ dent[dent[d].parent].ino = i
  /\ \A i \in Inodes : \A d, e \in dents_[i] : dent[d].name = dent[e].name => d = e
  /\ \A i \in Inodes : inode[i].type = "dir" /\ dent_[i] # None => dent[dent_[i]].ino = i /\ inode[i].nlink = 1

(* Every entry leads to the root: the walk GetFullPath does ends.             *)
Up(d) == dent[d].parent
Rooted ==
  \A d \in Dents : dent[d].parent # None =>
    \/ Up(d) = Root
    \/ Up(Up(d)) = Root
    \/ Up(Up(d)) # None /\ Up(Up(Up(d))) = Root

(* O_CREAT | O_EXCL never returns a file another call created.                *)
ExclusiveOnce ==
  \A t, u \in Threads : t # u /\ th[t].made # None /\ load.excl => th[u].file # th[t].made

AllEnded == \A t \in Threads : th[t].pc = "idle"
=============================================================================
