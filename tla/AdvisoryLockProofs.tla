------------------------- MODULE AdvisoryLockProofs -------------------------
(***************************************************************************)
(* Proofs about AdvisoryLock for every set of threads and processes, every *)
(* length of a file and every set of requests.                             *)
(***************************************************************************)
EXTENDS AdvisoryLock, TLAPS

(* A list of locks as SetLocked and ClearRange keep it.                    *)
Sound(hs) ==
    /\ hs \subseteq Locks /\ \A h \in hs : h.start <= h.end
    /\ \A g, h \in hs : g # h /\ g.pid = h.pid => ~overlaps(g, h.start, h.end)

(* Process p holds byte b in mode m.                                       *)
Holds(hs, p, b, m) == \E h \in hs : h.pid = p /\ h.type = m /\ overlaps(h, b, b)

Compatible(hs) ==
    \A p, q \in Pids, b \in Bytes, m, n \in {"rd", "wr"} :
        p # q /\ Holds(hs, p, b, m) /\ Holds(hs, q, b, n) => m = "rd" /\ n = "rd"

-----------------------------------------------------------------------------
(* A piece of a lock: the same process and mode, a part of the bytes.      *)
Piece(h, g) == h.pid = g.pid /\ h.type = g.type /\ g.start <= h.start /\ h.start <= h.end /\ h.end <= g.end

(* What ClearRange leaves is made of pieces of what was there, none of     *)
(* which meets the range, and two of which come from one lock only if they *)
(* are on both sides of the range.                                         *)
LEMMA ClearRangePieces ==
    ASSUME LastByte \in Nat, NEW hs, Sound(hs), NEW s \in Bytes, NEW e \in Bytes, s <= e, NEW p,
           NEW h \in ClearRange(hs, s, e, p)
    PROVE  /\ h \in Locks
           /\ h.pid = p => h.end < s \/ e < h.start
           /\ \E g \in hs :
                 /\ Piece(h, g)
                 /\ \/ h = g /\ ~(g.pid = p /\ overlaps(g, s, e))
                    \/ h = [g EXCEPT !.end = s - 1] /\ g.pid = p /\ overlaps(g, s, e)
                    \/ h = [g EXCEPT !.start = e + 1] /\ g.pid = p /\ overlaps(g, s, e)
<1> DEFINE hit == {g \in hs : g.pid = p /\ overlaps(g, s, e)}
<1>1. CASE h \in hs \ hit
  <2>1. h \in Locks /\ h.start <= h.end /\ Piece(h, h)
    BY <1>1 DEF Sound, Locks, Bytes, Piece
  <2> QED
    BY <1>1, <2>1 DEF overlaps, Locks, Bytes
<1>2. CASE h \in {[g EXCEPT !.end = s - 1] : g \in {g \in hit : s > g.start}}
  <2>1. PICK g \in hs : g.pid = p /\ overlaps(g, s, e) /\ s > g.start /\ h = [g EXCEPT !.end = s - 1]
    BY <1>2, Zenon
  <2>2. g \in Locks /\ g.start <= g.end
    BY <2>1, Zenon DEF Sound
  <2>3. h \in Locks /\ h.pid = p /\ h.end = s - 1 /\ Piece(h, g)
    BY <2>1, <2>2 DEF Locks, Bytes, overlaps, Piece
  <2>4. h.end < s \/ e < h.start
    BY <2>3 DEF Bytes
  <2> QED
    BY <2>1, <2>3, <2>4, Zenon
<1>3. CASE h \in {[g EXCEPT !.start = e + 1] : g \in {g \in hit : e < g.end}}
  <2>1. PICK g \in hs : g.pid = p /\ overlaps(g, s, e) /\ e < g.end /\ h = [g EXCEPT !.start = e + 1]
    BY <1>3, Zenon
  <2>2. g \in Locks /\ g.start <= g.end
    BY <2>1, Zenon DEF Sound
  <2>3. h \in Locks /\ h.pid = p /\ h.start = e + 1 /\ Piece(h, g)
    BY <2>1, <2>2 DEF Locks, Bytes, overlaps, Piece
  <2>4. h.end < s \/ e < h.start
    BY <2>3 DEF Bytes
  <2> QED
    BY <2>1, <2>3, <2>4, Zenon
<1> QED
  BY <1>1, <1>2, <1>3, Zenon DEF ClearRange

LEMMA ClearRangeSound ==
    ASSUME LastByte \in Nat, NEW hs, Sound(hs), NEW s \in Bytes, NEW e \in Bytes, s <= e, NEW p
    PROVE  Sound(ClearRange(hs, s, e, p))
<1> DEFINE R == ClearRange(hs, s, e, p)
<1>1. R \subseteq Locks /\ \A h \in R : h.start <= h.end
  BY ClearRangePieces, Zenon DEF Piece
<1>2. ASSUME NEW g \in R, NEW h \in R, g # h, g.pid = h.pid
      PROVE  ~overlaps(g, h.start, h.end)
  <2>1. PICK a \in hs : /\ Piece(g, a)
                        /\ \/ g = a /\ ~(a.pid = p /\ overlaps(a, s, e))
                           \/ g = [a EXCEPT !.end = s - 1] /\ a.pid = p /\ overlaps(a, s, e)
                           \/ g = [a EXCEPT !.start = e + 1] /\ a.pid = p /\ overlaps(a, s, e)
    BY ClearRangePieces
  <2>2. PICK b \in hs : /\ Piece(h, b)
                        /\ \/ h = b /\ ~(b.pid = p /\ overlaps(b, s, e))
                           \/ h = [b EXCEPT !.end = s - 1] /\ b.pid = p /\ overlaps(b, s, e)
                           \/ h = [b EXCEPT !.start = e + 1] /\ b.pid = p /\ overlaps(b, s, e)
    BY ClearRangePieces
  <2>3. /\ g \in Locks /\ h \in Locks /\ a \in Locks /\ b \in Locks
        /\ g.start \in Int /\ g.end \in Int /\ h.start \in Int /\ h.end \in Int
        /\ a.start \in Int /\ a.end \in Int /\ b.start \in Int /\ b.end \in Int
    BY <1>1 DEF Sound, Locks, Bytes
  <2>4. CASE a # b
    <3>1. ~overlaps(a, b.start, b.end)
      BY <1>2, <2>1, <2>2, <2>4, Zenon DEF Sound, Piece
    <3> QED
      BY <2>1, <2>2, <2>3, <3>1 DEF Piece, overlaps
  <2>5. CASE a = b
    <3>1. \/ g = [a EXCEPT !.end = s - 1] /\ h = [a EXCEPT !.start = e + 1]
          \/ h = [a EXCEPT !.end = s - 1] /\ g = [a EXCEPT !.start = e + 1]
      BY <1>2, <2>1, <2>2, <2>5, Zenon
    <3>2. \/ g.end = s - 1 /\ h.start = e + 1
          \/ h.end = s - 1 /\ g.start = e + 1
      BY <2>3, <3>1, Zenon DEF Locks
    <3> QED
      BY <2>3, <3>2 DEF overlaps, Bytes
  <2> QED BY <2>4, <2>5, Zenon
<1> QED BY <1>1, <1>2, Zenon DEF Sound

(* ClearRange takes from p the bytes of the range, and nothing else.       *)
LEMMA ClearRangeHolds ==
    ASSUME LastByte \in Nat, NEW hs, Sound(hs), NEW s \in Bytes, NEW e \in Bytes, s <= e, NEW p,
           NEW q, NEW b \in Bytes, NEW m
    PROVE  Holds(ClearRange(hs, s, e, p), q, b, m) <=> Holds(hs, q, b, m) /\ ~(q = p /\ s <= b /\ b <= e)
<1> DEFINE R == ClearRange(hs, s, e, p)
<1>1. ASSUME Holds(R, q, b, m) PROVE Holds(hs, q, b, m) /\ ~(q = p /\ s <= b /\ b <= e)
  <2>1. PICK h \in R : h.pid = q /\ h.type = m /\ overlaps(h, b, b)
    BY <1>1, Zenon DEF Holds
  <2>2. PICK g \in hs : Piece(h, g)
    BY ClearRangePieces, Zenon
  <2>3. h \in Locks /\ g \in Locks /\ (h.pid = p => h.end < s \/ e < h.start)
    BY ClearRangePieces, Zenon DEF Sound
  <2> QED
    BY <2>1, <2>2, <2>3 DEF Holds, Piece, overlaps, Locks, Bytes
<1>2. ASSUME Holds(hs, q, b, m), ~(q = p /\ s <= b /\ b <= e) PROVE Holds(R, q, b, m)
  <2>1. PICK g \in hs : g.pid = q /\ g.type = m /\ overlaps(g, b, b)
    BY <1>2, Zenon DEF Holds
  <2>2. g \in Locks /\ g.start \in Int /\ g.end \in Int /\ s \in Int /\ e \in Int /\ b \in Int
    BY DEF Sound, Locks, Bytes
  <2>3. CASE ~(g.pid = p /\ overlaps(g, s, e))
    <3>1. g \in R
      BY <2>3, Zenon DEF ClearRange
    <3> QED BY <2>1, <3>1, Zenon DEF Holds
  <2>4. CASE g.pid = p /\ overlaps(g, s, e) /\ b < s
    <3> DEFINE h == [g EXCEPT !.end = s - 1]
    <3>1. s > g.start
      BY <2>1, <2>2, <2>4 DEF overlaps
    <3>2. h \in R
      BY <2>4, <3>1, Zenon DEF ClearRange
    <3>3. h.pid = q /\ h.type = m /\ overlaps(h, b, b)
      BY <2>1, <2>2, <2>4 DEF overlaps, Locks
    <3> QED BY <3>2, <3>3, Zenon DEF Holds
  <2>5. CASE g.pid = p /\ overlaps(g, s, e) /\ e < b
    <3> DEFINE h == [g EXCEPT !.start = e + 1]
    <3>1. e < g.end
      BY <2>1, <2>2, <2>5 DEF overlaps
    <3>2. h \in R
      BY <2>5, <3>1, Zenon DEF ClearRange
    <3>3. h.pid = q /\ h.type = m /\ overlaps(h, b, b)
      BY <2>1, <2>2, <2>5 DEF overlaps, Locks
    <3> QED BY <3>2, <3>3, Zenon DEF Holds
  <2> QED BY <1>2, <2>1, <2>2, <2>3, <2>4, <2>5
<1> QED BY <1>1, <1>2, Zenon

(* SetLocked after a ClearRange of its own range: l is held, the rest of   *)
(* what was held stays.                                                    *)
Added(hs, l) == ClearRange(hs, l.start, l.end, l.pid) \cup {l}

LEMMA AddedSound ==
    ASSUME LastByte \in Nat, NEW hs, Sound(hs), NEW l \in Locks, l.start <= l.end
    PROVE  Sound(Added(hs, l))
<1> DEFINE R == ClearRange(hs, l.start, l.end, l.pid)
<1>1. l.start \in Bytes /\ l.end \in Bytes /\ l.start \in Int /\ l.end \in Int
  BY DEF Locks, Bytes
<1>2. Sound(R)
  BY <1>1, ClearRangeSound, Zenon
<1>3. \A h \in R : h.pid = l.pid => ~overlaps(h, l.start, l.end) /\ ~overlaps(l, h.start, h.end)
  <2> TAKE h \in R
  <2>1. h \in Locks /\ (h.pid = l.pid => h.end < l.start \/ l.end < h.start)
    BY <1>1, ClearRangePieces, Zenon
  <2>2. h.start \in Int /\ h.end \in Int
    BY <2>1 DEF Locks, Bytes
  <2> QED BY <1>1, <2>1, <2>2 DEF overlaps
<1>4. Added(hs, l) \subseteq Locks /\ \A h \in Added(hs, l) : h.start <= h.end
  BY <1>2, Zenon DEF Added, Sound
<1>5. ASSUME NEW g \in Added(hs, l), NEW h \in Added(hs, l), g # h, g.pid = h.pid
      PROVE  ~overlaps(g, h.start, h.end)
  BY <1>2, <1>3, <1>5, Zenon DEF Added, Sound
<1> QED BY <1>4, <1>5, Zenon DEF Sound

LEMMA AddedHolds ==
    ASSUME LastByte \in Nat, NEW hs, Sound(hs), NEW l \in Locks, l.start <= l.end,
           NEW q, NEW b \in Bytes, NEW m
    PROVE  Holds(Added(hs, l), q, b, m) <=>
             IF q = l.pid /\ l.start <= b /\ b <= l.end THEN m = l.type ELSE Holds(hs, q, b, m)
<1> DEFINE R == ClearRange(hs, l.start, l.end, l.pid)
<1>1. l.start \in Bytes /\ l.end \in Bytes
  BY Zenon DEF Locks
<1>2. Holds(R, q, b, m) <=> Holds(hs, q, b, m) /\ ~(q = l.pid /\ l.start <= b /\ b <= l.end)
  BY <1>1, ClearRangeHolds
<1>3. Holds(Added(hs, l), q, b, m) <=> Holds(R, q, b, m) \/ (q = l.pid /\ m = l.type /\ overlaps(l, b, b))
  BY Zenon DEF Added, Holds
<1>4. overlaps(l, b, b) <=> l.start <= b /\ b <= l.end
  BY <1>1, Zenon DEF overlaps, Bytes
<1> QED BY <1>2, <1>3, <1>4, Zenon

LEMMA AddedCompatible ==
    ASSUME LastByte \in Nat, NEW hs, Sound(hs), Compatible(hs), NEW l \in Locks, l.start <= l.end,
           ~\E h \in hs : conflicts(h, l)
    PROVE  Compatible(Added(hs, l))
<1>1. ASSUME NEW q, q # l.pid, NEW b \in Bytes, NEW n, l.start <= b, b <= l.end, Holds(hs, q, b, n)
      PROVE  n = "rd" /\ l.type = "rd"
  <2>1. PICK h \in hs : h.pid = q /\ h.type = n /\ overlaps(h, b, b)
    BY <1>1, Zenon DEF Holds
  <2>2. h \in Locks /\ h.start \in Int /\ h.end \in Int /\ b \in Int /\ l.start \in Int /\ l.end \in Int
    BY DEF Sound, Locks, Bytes
  <2>3. overlaps(h, l.start, l.end)
    BY <1>1, <2>1, <2>2 DEF overlaps
  <2> QED BY <1>1, <2>1, <2>3, Zenon DEF conflicts
<1>2. SUFFICES ASSUME NEW p \in Pids, NEW q \in Pids, NEW b \in Bytes, NEW m \in {"rd", "wr"}, NEW n \in {"rd", "wr"},
                      p # q, Holds(Added(hs, l), p, b, m), Holds(Added(hs, l), q, b, n)
               PROVE  m = "rd" /\ n = "rd"
  BY DEF Compatible
<1>3. CASE p = l.pid /\ l.start <= b /\ b <= l.end
  BY <1>1, <1>2, <1>3, AddedHolds
<1>4. CASE q = l.pid /\ l.start <= b /\ b <= l.end
  BY <1>1, <1>2, <1>4, AddedHolds
<1>5. CASE ~(p = l.pid /\ l.start <= b /\ b <= l.end) /\ ~(q = l.pid /\ l.start <= b /\ b <= l.end)
  <2>1. Holds(hs, p, b, m) /\ Holds(hs, q, b, n)
    BY <1>2, <1>5, AddedHolds, Zenon
  <2> QED BY <1>2, <2>1, Zenon DEF Compatible
<1> QED BY <1>3, <1>4, <1>5, Zenon

LEMMA ClearRangeCompatible ==
    ASSUME LastByte \in Nat, NEW hs, Sound(hs), Compatible(hs), NEW s \in Bytes, NEW e \in Bytes, s <= e, NEW p
    PROVE  Compatible(ClearRange(hs, s, e, p))
BY ClearRangeHolds DEF Compatible

(* Dropping all locks of a process (DropLocksForPid).                      *)
LEMMA DroppedSound ==
    ASSUME NEW hs, Sound(hs), Compatible(hs), NEW p
    PROVE  LET ds == {h \in hs : h.pid # p}
           IN  /\ Sound(ds) /\ Compatible(ds)
               /\ \A q, b, m : Holds(ds, q, b, m) <=> q # p /\ Holds(hs, q, b, m)
<1> DEFINE ds == {h \in hs : h.pid # p}
<1>1. \A q, b, m : Holds(ds, q, b, m) <=> q # p /\ Holds(hs, q, b, m)
  BY Zenon DEF Holds
<1>2. Sound(ds)
  BY Zenon DEF Sound
<1>3. Compatible(ds)
  BY <1>1 DEF Compatible
<1> QED BY <1>1, <1>2, <1>3, Zenon

-----------------------------------------------------------------------------
(* The inductive invariant: TypeOK says that no range is empty or reaches  *)
(* past the file, without which ClearRange could leave half a lock.        *)
IInv == TypeOK /\ OwnLocksDisjoint /\ NoConflictingHolders

LEMMA IInvSound ==
    ASSUME Assumptions
    PROVE  /\ IInv => Sound(holders_) /\ Compatible(holders_)
           /\ TypeOK /\ Sound(holders_) /\ Compatible(holders_) => IInv
<1>1. ASSUME holders_ \subseteq Locks PROVE NoConflictingHolders <=> Compatible(holders_)
  <2>1. \A h \in holders_ : h.pid \in Pids /\ h.type \in {"rd", "wr"}
    BY <1>1, Zenon DEF Locks
  <2>2. ASSUME Compatible(holders_) PROVE NoConflictingHolders
    BY <2>1, <2>2, Zenon DEF NoConflictingHolders, Compatible, Holds
  <2>3. ASSUME NoConflictingHolders PROVE Compatible(holders_)
    BY <2>3 DEF NoConflictingHolders, Compatible, Holds
  <2> QED BY <2>2, <2>3, Zenon
<1> QED BY <1>1, Zenon DEF IInv, TypeOK, OwnLocksDisjoint, Sound

(* What a valid request asks for.                                          *)
LEMMA Request ==
    ASSUME Assumptions, NEW t \in Threads, NEW type \in Types, NEW r \in Requests[t]
    PROVE  LET l == fromFlock(t, type, r[1], r[2])
           IN  /\ l.pid \in Pids /\ l.type = type
               /\ Validate(l) => /\ l.start \in Bytes /\ l.end \in Bytes /\ l.start <= l.end
                                 /\ type # "un" => l \in Locks
<1> DEFINE l == fromFlock(t, type, r[1], r[2])
<1>1. r \in Int \X Int /\ r[1] \in Int /\ r[2] \in Int
  BY DEF Assumptions
<1>2. l.pid \in Pids /\ l.type = type
  BY Zenon DEF fromFlock, Pids
<1>3. l.start \in Int /\ l.end \in Int
  BY <1>1 DEF fromFlock, Assumptions
<1>4. Validate(l) => l.start \in Bytes /\ l.end \in Bytes /\ l.start <= l.end
  BY <1>3 DEF Validate, Bytes, Assumptions
<1>5. ASSUME type # "un", Validate(l) PROVE l \in Locks
  <2>1. l = [type |-> l.type, start |-> l.start, end |-> l.end, pid |-> l.pid]
    BY Zenon DEF fromFlock
  <2> QED BY <1>2, <1>4, <1>5, <2>1, Zenon DEF Locks, Types
<1> QED BY <1>2, <1>4, <1>5, Zenon

(* How a step can change the locks.                                        *)
Cleared == \E p \in Pids, s, e \in Bytes : s <= e /\ holders_' = ClearRange(holders_, s, e, p)
Granted == \E l \in Locks : l.start <= l.end /\ ~AnyConflicts(l) /\ holders_' = Added(holders_, l)
Dropped == \E p \in Pids : holders_' = {h \in holders_ : h.pid # p}

LEMMA StepHolders ==
    ASSUME Assumptions, TypeOK, [Next]_vars
    PROVE  /\ UNCHANGED holders_ \/ Cleared \/ Granted \/ Dropped
           /\ waiters_' \subseteq Threads
           /\ pc' \in [Threads -> {"user", "parked", "ready", "get"}]
           /\ al' \in [Threads -> Locks \cup {NoLock}]
           /\ sig' \in [Threads -> BOOLEAN]
<1> DEFINE Rest == /\ waiters_' \subseteq Threads
                   /\ pc' \in [Threads -> {"user", "parked", "ready", "get"}]
                   /\ al' \in [Threads -> Locks \cup {NoLock}]
                   /\ sig' \in [Threads -> BOOLEAN]
<1>1. ASSUME NEW t \in Threads, NEW type \in Types, NEW r \in Requests[t],
             DoSet(t, fromFlock(t, type, r[1], r[2]))
      PROVE  (UNCHANGED holders_ \/ Cleared \/ Granted \/ Dropped) /\ Rest
  <2> DEFINE l == fromFlock(t, type, r[1], r[2])
  <2>1. l.pid \in Pids /\ l.type = type /\ l.start \in Bytes /\ l.end \in Bytes /\ l.start <= l.end /\ (type # "un" => l \in Locks)
    BY <1>1, Request, Zenon DEF DoSet
  <2> HIDE DEF l
  <2>2. CASE l.type = "un"
    <3>1. Release(pc, ClearRange(holders_, l.start, l.end, l.pid)) /\ UNCHANGED <<al, sig>>
      BY <1>1, <2>2, Zenon DEF DoSet, l
    <3>2. Rest
      BY <3>1, Zenon DEF Release, TypeOK
    <3>3. Cleared
      BY <2>1, <3>1, Zenon DEF Release, Cleared
    <3> QED BY <3>2, <3>3, Zenon
  <2>3. CASE l.type # "un"
    <3>1. ~AnyConflicts(l) /\ holders_' = Added(holders_, l) /\ UNCHANGED <<waiters_, pc, al, sig>>
      BY <1>1, <2>3, Zenon DEF DoSet, Added, l
    <3>2. Rest
      BY <3>1, Zenon DEF TypeOK
    <3>3. Granted
      BY <2>1, <2>3, <3>1, Zenon DEF Granted
    <3> QED BY <3>2, <3>3, Zenon
  <2> QED BY <2>2, <2>3, Zenon
<1>2. ASSUME NEW t \in Threads, NEW type \in Types, NEW r \in Requests[t],
             DoSetWait(t, fromFlock(t, type, r[1], r[2]))
      PROVE  (UNCHANGED holders_ \/ Cleared \/ Granted \/ Dropped) /\ Rest
  <2> DEFINE l == fromFlock(t, type, r[1], r[2])
  <2>1. l.pid \in Pids /\ l.type = type /\ (Validate(l) => l.start \in Bytes /\ l.end \in Bytes /\ l.start <= l.end /\ (type # "un" => l \in Locks))
    BY Request, Zenon
  <2>2. DoSetWait(t, l)
    BY <1>2, Zenon
  <2> HIDE DEF l
  <2>3. CASE Validate(l) /\ l.type = "un"
    <3>1. Release([pc EXCEPT ![t] = "get"], ClearRange(holders_, l.start, l.end, l.pid)) /\ UNCHANGED <<al, sig>>
      BY <2>2, <2>3, Zenon DEF DoSetWait
    <3>2. Rest
      BY <3>1, Zenon DEF Release, TypeOK
    <3>3. Cleared
      BY <2>1, <2>3, <3>1, Zenon DEF Release, Cleared
    <3> QED BY <3>2, <3>3, Zenon
  <2>4. CASE Validate(l) /\ l.type # "un" /\ ~AnyConflicts(l)
    <3>1. holders_' = Added(holders_, l) /\ pc' = [pc EXCEPT ![t] = "get"] /\ UNCHANGED <<waiters_, al, sig>>
      BY <2>2, <2>4, Zenon DEF DoSetWait, Added
    <3>2. Rest
      BY <3>1, Zenon DEF TypeOK
    <3>3. Granted
      BY <2>1, <2>4, <3>1, Zenon DEF Granted
    <3> QED BY <3>2, <3>3, Zenon
  <2>5. CASE ~Validate(l)
    BY <2>2, <2>5, Zenon DEF DoSetWait, TypeOK
  <2>6. CASE Validate(l) /\ l.type # "un" /\ AnyConflicts(l)
    <3>1. l \in Locks
      BY <2>1, <2>6, Zenon
    <3> QED BY <2>2, <2>6, <3>1 DEF DoSetWait, TypeOK
  <2> QED BY <2>3, <2>4, <2>5, <2>6, Zenon
<1>3. ASSUME NEW t \in Threads, \/ (\E l : GetLk(t, l)) \/ Resume(t) \/ DoGet(t) \/ Signal(t) \/ DeliverSignal(t)
      PROVE  UNCHANGED holders_ /\ Rest
  BY <1>3, Zenon DEF TypeOK, GetLk, Resume, DoGet, Signal, DeliverSignal
<1>4. ASSUME NEW p \in Pids, DropLocksForPid(p)
      PROVE  Dropped /\ Rest
  BY <1>4, Zenon DEF TypeOK, DropLocksForPid, Release, Dropped
<1>5. CASE UNCHANGED vars
  BY <1>5, Zenon DEF TypeOK, vars
<1> QED BY <1>1, <1>2, <1>3, <1>4, <1>5, Zenon DEF Next, Fcntl

LEMMA StepIInv ==
    ASSUME Assumptions, IInv, [Next]_vars
    PROVE  IInv'
<1>1. TypeOK /\ Sound(holders_) /\ Compatible(holders_) /\ LastByte \in Nat
  BY IInvSound, Zenon DEF IInv, Assumptions
<1>2. Sound(holders_') /\ Compatible(holders_')
  <2>1. CASE UNCHANGED holders_
    BY <1>1, <2>1, Zenon
  <2>2. CASE Cleared
    BY <1>1, <2>2, ClearRangeSound, ClearRangeCompatible, Zenon DEF Cleared
  <2>3. CASE Granted
    BY <1>1, <2>3, AddedSound, AddedCompatible, Zenon DEF Granted, AnyConflicts
  <2>4. CASE Dropped
    <3>1. PICK p \in Pids : holders_' = {h \in holders_ : h.pid # p}
      BY <2>4, Zenon DEF Dropped
    <3> QED BY <1>1, <3>1, DroppedSound, Zenon
  <2> QED BY <1>1, <2>1, <2>2, <2>3, <2>4, StepHolders, Zenon
<1>3. TypeOK'
  BY <1>1, <1>2, StepHolders, Zenon DEF TypeOK, Sound
<1>4. OwnLocksDisjoint'
  BY <1>2, Zenon DEF OwnLocksDisjoint, Sound
<1>5. NoConflictingHolders'
  <2>1. \A h \in holders_' : h.pid \in Pids /\ h.type \in {"rd", "wr"}
    BY <1>2, Zenon DEF Sound, Locks
  <2> QED BY <1>2, <2>1, Zenon DEF NoConflictingHolders, Compatible, Holds
<1> QED BY <1>3, <1>4, <1>5, Zenon DEF IInv

LEMMA InitIInv == Init => IInv
BY Zenon DEF Init, IInv, TypeOK, OwnLocksDisjoint, NoConflictingHolders

(* The locks of a process never overlap and no byte held for writing has a *)
(* second holder, whatever ranges SetLocked, ClearRange and                *)
(* DropLocksForPid are given and in whatever order.                        *)
THEOREM LockSafety ==
    ASSUME Assumptions
    PROVE  Spec => [](TypeOK /\ OwnLocksDisjoint /\ NoConflictingHolders)
<1>1. IInv /\ [Next]_vars => IInv'
  BY StepIInv, Zenon
<1>2. IInv => TypeOK /\ OwnLocksDisjoint /\ NoConflictingHolders
  BY Zenon DEF IInv
<1> QED BY <1>1, <1>2, InitIInv, PTL DEF Spec

-----------------------------------------------------------------------------
(* ModeOf for any list of locks.                                           *)
Mode(hs, p, b) ==
    IF \E h \in hs : h.pid = p /\ overlaps(h, b, b)
    THEN (CHOOSE h \in hs : h.pid = p /\ overlaps(h, b, b)).type
    ELSE "un"

(* Disjointness makes the choice in ModeOf no choice at all.               *)
LEMMA ModeHolds ==
    ASSUME LastByte \in Nat, NEW hs, Sound(hs), NEW p, NEW b \in Bytes
    PROVE  /\ Mode(hs, p, b) \in {"un", "rd", "wr"}
           /\ \A m \in {"rd", "wr"} : Mode(hs, p, b) = m <=> Holds(hs, p, b, m)
<1>1. CASE \E h \in hs : h.pid = p /\ overlaps(h, b, b)
  <2> DEFINE c == CHOOSE h \in hs : h.pid = p /\ overlaps(h, b, b)
  <2>1. c \in hs /\ c.pid = p /\ overlaps(c, b, b)
    BY <1>1, Zenon
  <2>2. Mode(hs, p, b) = c.type
    BY <1>1, Zenon DEF Mode
  <2> HIDE DEF c
  <2>3. \A h \in hs : h.pid = p /\ overlaps(h, b, b) => h = c
    <3> SUFFICES ASSUME NEW h \in hs, h.pid = p, overlaps(h, b, b) PROVE h = c
      BY Zenon
    <3>1. /\ h.start \in Int /\ h.end \in Int /\ c.start \in Int /\ c.end \in Int /\ b \in Int
      BY <2>1 DEF Sound, Locks, Bytes
    <3>2. overlaps(h, c.start, c.end)
      BY <2>1, <3>1 DEF overlaps
    <3> QED BY <2>1, <3>2, Zenon DEF Sound
  <2>4. c.type \in {"rd", "wr"}
    BY <2>1, Zenon DEF Sound, Locks
  <2>5. \A m : Holds(hs, p, b, m) <=> m = c.type
    BY <2>1, <2>3, Zenon DEF Holds
  <2> QED BY <2>2, <2>4, <2>5, Zenon
<1>2. CASE ~\E h \in hs : h.pid = p /\ overlaps(h, b, b)
  <2>1. Mode(hs, p, b) = "un"
    BY <1>2, Zenon DEF Mode
  <2>2. \A m : ~Holds(hs, p, b, m)
    BY <1>2, Zenon DEF Holds
  <2> QED BY <2>1, <2>2, Zenon
<1> QED BY <1>1, <1>2, Zenon

(* Two lists in which a process holds the same, hold a byte alike.         *)
LEMMA ModeSame ==
    ASSUME LastByte \in Nat, NEW hs, NEW gs, Sound(hs), Sound(gs), NEW p, NEW b \in Bytes,
           \A m \in {"rd", "wr"} : Holds(gs, p, b, m) <=> Holds(hs, p, b, m)
    PROVE  Mode(gs, p, b) = Mode(hs, p, b)
BY ModeHolds

(* The bytes and modes of RecordLocks that a list of locks stands for.     *)
Modes(hs) == [p \in Pids |-> [b \in Bytes |-> Mode(hs, p, b)]]

(* A range given to one process in one mode, and nothing else changed, is  *)
(* a step of RecordLocks.                                                  *)
LEMMA LockStep ==
    ASSUME NEW hs, NEW gs, NEW p \in Pids, NEW r \in SUBSET Bytes, NEW m,
           \A q \in Pids, b \in Bytes :
               Mode(gs, q, b) = IF q = p /\ b \in r THEN m ELSE Mode(hs, q, b)
    PROVE  Modes(gs) = RL!Lock(Modes(hs), p, r, m)
<1> DEFINE L == RL!Lock(Modes(hs), p, r, m)
<1>1. L = [Modes(hs) EXCEPT ![p] = [b \in Bytes |-> IF b \in r THEN m ELSE Modes(hs)[p][b]]]
  BY Zenon DEF RL!Lock
<1>2. \A q \in Pids : L[q] = [b \in Bytes |-> IF q = p /\ b \in r THEN m ELSE Mode(hs, q, b)]
  <2> TAKE q \in Pids
  <2>1. CASE q = p
    BY <1>1, <2>1, Zenon DEF Modes
  <2>2. CASE q # p
    BY <1>1, <2>2, Zenon DEF Modes
  <2> QED BY <2>1, <2>2, Zenon
<1>3. L = [q \in Pids |-> L[q]]
  BY <1>1, Zenon DEF Modes
<1>4. \A q \in Pids : Modes(gs)[q] = L[q]
  <2> TAKE q \in Pids
  <2>1. Modes(gs)[q] = [b \in Bytes |-> Mode(gs, q, b)]
    BY Zenon DEF Modes
  <2> QED BY <1>2, <2>1, Zenon
<1> QED BY <1>3, <1>4, Zenon DEF Modes

LEMMA RangeOf ==
    ASSUME LastByte \in Nat, NEW s \in Bytes, NEW e \in Bytes, s <= e
    PROVE  {b \in Bytes : s <= b /\ b <= e} \in RL!Ranges
<1>1. s \in {b \in Bytes : s <= b /\ b <= e}
  BY DEF Bytes
<1>2. {b \in Bytes : s <= b /\ b <= e} # {}
  BY <1>1, Zenon
<1>3. {b \in Bytes : s <= b /\ b <= e} \in {{b \in Bytes : i <= b /\ b <= j} : i, j \in Bytes}
  OBVIOUS
<1> QED BY <1>2, <1>3 DEF RL!Ranges

(* Every way a step can change the locks is a step of RecordLocks: an      *)
(* unlock or a new lock is the same range of bytes there, and dropping all *)
(* locks of a process is unlocking the whole file.                         *)
LEMMA StepImplements ==
    ASSUME Assumptions, IInv, IInv', [Next]_vars
    PROVE  Modes(holders_') = Modes(holders_) \/
           \E p \in Pids, r \in RL!Ranges, m \in {"un", "rd", "wr"} :
               /\ Modes(holders_') = RL!Lock(Modes(holders_), p, r, m)
               /\ m # "un" => RL!Free(Modes(holders_), p, r, m)
<1> DEFINE hs == holders_
           gs == holders_'
           Step(p, r, m) == /\ Modes(gs) = RL!Lock(Modes(hs), p, r, m)
                            /\ m # "un" => RL!Free(Modes(hs), p, r, m)
<1>1. LastByte \in Nat /\ TypeOK /\ Sound(hs) /\ Compatible(hs)
  BY IInvSound, Zenon DEF IInv, Assumptions
<1>2. Sound(gs)
  BY Zenon DEF IInv, TypeOK, OwnLocksDisjoint, Sound
<1>3. ASSUME NEW q, NEW b \in Bytes
      PROVE  /\ Mode(hs, q, b) \in {"un", "rd", "wr"} /\ Mode(gs, q, b) \in {"un", "rd", "wr"}
             /\ \A m \in {"rd", "wr"} : Mode(hs, q, b) = m <=> Holds(hs, q, b, m)
             /\ \A m \in {"rd", "wr"} : Mode(gs, q, b) = m <=> Holds(gs, q, b, m)
  BY <1>1, <1>2, ModeHolds, Zenon
<1> HIDE DEF hs, gs
<1>4. CASE Cleared
  <2>1. PICK p \in Pids, s \in Bytes, e \in Bytes : s <= e /\ gs = ClearRange(hs, s, e, p)
    BY <1>4, Zenon DEF Cleared, hs, gs
  <2> DEFINE r == {b \in Bytes : s <= b /\ b <= e}
  <2>2. ASSUME NEW q \in Pids, NEW b \in Bytes
        PROVE  Mode(gs, q, b) = IF q = p /\ b \in r THEN "un" ELSE Mode(hs, q, b)
    <3>1. \A m : Holds(gs, q, b, m) <=> Holds(hs, q, b, m) /\ ~(q = p /\ b \in r)
      BY <1>1, <2>1, <2>2, ClearRangeHolds, ZenonT(60)
    <3> HIDE DEF r
    <3> QED BY <1>3, <3>1, Zenon
  <2>3. r \in RL!Ranges /\ r \in SUBSET Bytes
    BY <1>1, <2>1, RangeOf, Zenon
  <2> HIDE DEF r
  <2>4. Modes(gs) = RL!Lock(Modes(hs), p, r, "un")
    BY <2>2, <2>3, LockStep
  <2>5. \E q \in Pids, x \in RL!Ranges, m \in {"un", "rd", "wr"} : Step(q, x, m)
    BY <2>3, <2>4, Zenon
  <2> QED BY <2>5, Zenon DEF hs, gs
<1>5. CASE Granted
  <2>1. PICK l \in Locks : l.start <= l.end /\ ~AnyConflicts(l) /\ gs = Added(hs, l)
    BY <1>5, Zenon DEF Granted, hs, gs
  <2> DEFINE r == {b \in Bytes : l.start <= b /\ b <= l.end}
  <2>2. l.pid \in Pids /\ l.start \in Bytes /\ l.end \in Bytes /\ l.type \in {"rd", "wr"}
    BY Zenon DEF Locks
  <2>3. ASSUME NEW q \in Pids, NEW b \in Bytes
        PROVE  Mode(gs, q, b) = IF q = l.pid /\ b \in r THEN l.type ELSE Mode(hs, q, b)
    <3>1. \A m : Holds(gs, q, b, m) <=> IF q = l.pid /\ b \in r THEN m = l.type ELSE Holds(hs, q, b, m)
      BY <1>1, <2>1, <2>3, AddedHolds, Zenon
    <3> HIDE DEF r
    <3> QED BY <1>3, <2>2, <3>1, Zenon
  <2>4. r \in RL!Ranges /\ r \in SUBSET Bytes
    BY <1>1, <2>1, <2>2, RangeOf, Zenon
  <2>5. ASSUME NEW q \in Pids \ {l.pid}, NEW b \in r
        PROVE  Mode(hs, q, b) = "un" \/ (Mode(hs, q, b) = "rd" /\ l.type = "rd")
    <3>1. ASSUME NEW m \in {"rd", "wr"}, Holds(hs, q, b, m) PROVE m = "rd" /\ l.type = "rd"
      <4>1. PICK h \in hs : h.pid = q /\ h.type = m /\ overlaps(h, b, b)
        BY <3>1, Zenon DEF Holds
      <4>2. h \in Locks /\ h.start \in Int /\ h.end \in Int /\ b \in Int /\ l.start \in Int /\ l.end \in Int
        BY <1>1, <2>2 DEF Sound, Locks, Bytes
      <4>3. overlaps(h, l.start, l.end)
        BY <4>1, <4>2 DEF overlaps
      <4>4. ~conflicts(h, l)
        BY <2>1, Zenon DEF AnyConflicts, hs
      <4> QED BY <4>1, <4>3, <4>4, Zenon DEF conflicts
    <3> QED BY <1>3, <3>1, Zenon
  <2> HIDE DEF r
  <2>6. Modes(gs) = RL!Lock(Modes(hs), l.pid, r, l.type)
    BY <2>2, <2>3, <2>4, LockStep
  <2>7. RL!Free(Modes(hs), l.pid, r, l.type)
    BY <2>4, <2>5, Zenon DEF RL!Free, Modes
  <2>8. \E q \in Pids, x \in RL!Ranges, m \in {"un", "rd", "wr"} : Step(q, x, m)
    BY <2>2, <2>4, <2>6, <2>7, Zenon
  <2> QED BY <2>8, Zenon DEF hs, gs
<1>6. CASE Dropped
  <2>1. PICK p \in Pids : gs = {h \in hs : h.pid # p}
    BY <1>6, Zenon DEF Dropped, hs, gs
  <2> DEFINE r == {b \in Bytes : 0 <= b /\ b <= LastByte}
  <2>2. r = Bytes /\ r \in RL!Ranges
    <3>1. 0 \in Bytes /\ LastByte \in Bytes /\ 0 <= LastByte
      BY <1>1 DEF Bytes
    <3>2. r \in RL!Ranges
      BY <1>1, <3>1, RangeOf, Zenon
    <3>3. r = Bytes
      BY <1>1 DEF Bytes
    <3> QED BY <3>2, <3>3, Zenon
  <2> HIDE DEF r
  <2>3. ASSUME NEW q \in Pids, NEW b \in Bytes
        PROVE  Mode(gs, q, b) = IF q = p /\ b \in r THEN "un" ELSE Mode(hs, q, b)
    <3>1. \A m : Holds(gs, q, b, m) <=> q # p /\ Holds(hs, q, b, m)
      BY <2>1, Zenon DEF Holds
    <3> QED BY <1>3, <2>2, <3>1, Zenon
  <2>4. Modes(gs) = RL!Lock(Modes(hs), p, r, "un")
    BY <2>2, <2>3, LockStep
  <2>5. \E q \in Pids, x \in RL!Ranges, m \in {"un", "rd", "wr"} : Step(q, x, m)
    BY <2>2, <2>4, Zenon
  <2> QED BY <2>5, Zenon DEF hs, gs
<1> QED BY <1>1, <1>4, <1>5, <1>6, StepHolders, Zenon DEF hs, gs

(* Whatever ranges processes lock, unlock and drop, the list of split and  *)
(* cut ranges in holders_ gives each byte the mode that RecordLocks does.  *)
THEOREM LockRefinement ==
    ASSUME Assumptions
    PROVE  Spec => ImplementsRecordLocks
<1> DEFINE held == [p \in Pids |-> [b \in Bytes |-> ModeOf(p, b)]]
<1>1. held = Modes(holders_) /\ held' = Modes(holders_')
  BY Zenon DEF Modes, Mode, ModeOf, Pids, Bytes
<1>2. Init => RL!Init
  BY Zenon DEF Init, RL!Init, ModeOf
<1>3. IInv /\ [Next]_vars => IInv'
  BY StepIInv, Zenon
<1>4. IInv /\ IInv' /\ [Next]_vars => [RL!Next]_held
  <2> SUFFICES ASSUME IInv, IInv', [Next]_vars PROVE [RL!Next]_held
    BY Zenon
  <2> HIDE DEF held
  <2> QED BY <1>1, StepImplements, Zenon DEF RL!Next, held
<1> QED BY <1>2, <1>3, <1>4, InitIInv, PTL DEF Spec, ImplementsRecordLocks, RL!Spec
=============================================================================
