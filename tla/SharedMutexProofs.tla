-------------------------- MODULE SharedMutexProofs --------------------------
(***************************************************************************)
(* Proofs about SharedMutex for every finite set of threads, every set of  *)
(* signalled threads and every number of signals.                          *)
(***************************************************************************)
EXTENDS SharedMutex, FiniteSetTheorems, TLAPS

Distinct(q) == \A i, j \in 1..Len(q) : q[i] = q[j] => i = j

-----------------------------------------------------------------------------
(* What the queue operations do to the entries of a queue.                 *)

(* Append (Arm) adds x as the last entry and keeps the entries distinct.   *)
LEMMA AppendEntries ==
    ASSUME NEW S, NEW q \in Seq(S), NEW x \in S
    PROVE  /\ Append(q, x) \in Seq(S)
           /\ Append(q, x) # <<>>
           /\ \A y : In(Append(q, x), y) <=> In(q, y) \/ y = x
           /\ Distinct(q) /\ ~In(q, x) => Distinct(Append(q, x))
<1> DEFINE r == Append(q, x)
<1>1. /\ r \in Seq(S) /\ Len(r) = Len(q) + 1 /\ Len(q) \in Nat
      /\ \A i \in 1..Len(q) : r[i] = q[i]
      /\ r[Len(q) + 1] = x
  OBVIOUS
<1>2. r # <<>>
  <2>1. Len(<<>>) = 0
    BY Zenon
  <2> QED BY <1>1, <2>1
<1>3. ASSUME NEW y PROVE In(r, y) <=> In(q, y) \/ y = x
  <2>1. In(r, y) => In(q, y) \/ y = x
    BY <1>1 DEF In
  <2>2. In(q, y) => In(r, y)
    BY <1>1 DEF In
  <2>3. In(r, x)
    <3>1. Len(q) + 1 \in 1..Len(r)
      BY <1>1
    <3> QED BY <1>1, <3>1, Zenon DEF In
  <2> QED BY <2>1, <2>2, <2>3, Zenon
<1>4. ASSUME Distinct(q), ~In(q, x) PROVE Distinct(r)
  BY <1>1, <1>4 DEF Distinct, In
<1> QED BY <1>1, <1>2, <1>3, <1>4, Zenon

(* Tail (Pop) removes exactly the head.                                    *)
LEMMA TailEntries ==
    ASSUME NEW S, NEW q \in Seq(S), q # <<>>, Distinct(q)
    PROVE  /\ Tail(q) \in Seq(S)
           /\ Head(q) \in S /\ In(q, Head(q))
           /\ \A y : In(Tail(q), y) <=> In(q, y) /\ y # Head(q)
           /\ Distinct(Tail(q))
<1> DEFINE r == Tail(q)
<1>1. /\ r \in Seq(S) /\ Len(r) = Len(q) - 1 /\ Len(q) \in Nat /\ Len(q) > 0
      /\ Head(q) = q[1]
      /\ \A i \in 1..(Len(q) - 1) : r[i] = q[i + 1]
  OBVIOUS
<1>2. Head(q) \in S /\ In(q, Head(q))
  BY <1>1 DEF In
<1>3. ASSUME NEW y PROVE In(r, y) <=> In(q, y) /\ y # Head(q)
  <2>1. ASSUME In(r, y) PROVE In(q, y) /\ y # Head(q)
    <3>1. PICK i \in 1..Len(r) : r[i] = y
      BY <2>1, Zenon DEF In
    <3>2. i + 1 \in 1..Len(q) /\ q[i + 1] = y /\ i + 1 # 1
      BY <1>1, <3>1
    <3> QED BY <1>1, <3>2 DEF In, Distinct
  <2>2. ASSUME In(q, y), y # Head(q) PROVE In(r, y)
    <3>1. PICK i \in 1..Len(q) : q[i] = y
      BY <2>2, Zenon DEF In
    <3>2. i - 1 \in 1..Len(r) /\ r[i - 1] = y
      BY <1>1, <2>2, <3>1
    <3> QED BY <3>2, Zenon DEF In
  <2> QED BY <2>1, <2>2, Zenon
<1>4. Distinct(r)
  <2> SUFFICES ASSUME NEW i \in 1..Len(r), NEW j \in 1..Len(r), r[i] = r[j]
               PROVE  i = j
    BY Zenon DEF Distinct
  <2>1. i + 1 \in 1..Len(q) /\ j + 1 \in 1..Len(q) /\ q[i + 1] = q[j + 1]
    BY <1>1
  <2>2. i + 1 = j + 1
    BY <2>1, Zenon DEF Distinct
  <2> QED BY <1>1, <2>2
<1> QED BY <1>1, <1>2, <1>3, <1>4, Zenon

(* DeleteAt (Disarm) removes exactly the i-th entry.                       *)
LEMMA DeleteEntries ==
    ASSUME NEW S, NEW q \in Seq(S), NEW i \in 1..Len(q), Distinct(q)
    PROVE  /\ DeleteAt(q, i) \in Seq(S)
           /\ \A y : In(DeleteAt(q, i), y) <=> In(q, y) /\ y # q[i]
           /\ Distinct(DeleteAt(q, i))
<1> DEFINE r == DeleteAt(q, i)
<1>1. /\ r \in Seq(S) /\ Len(r) = Len(q) - 1 /\ Len(q) \in Nat
      /\ \A j \in 1..(Len(q) - 1) : r[j] = IF j < i THEN q[j] ELSE q[j + 1]
  BY DEF DeleteAt
<1>2. ASSUME NEW y PROVE In(r, y) <=> In(q, y) /\ y # q[i]
  <2>1. ASSUME In(r, y) PROVE In(q, y) /\ y # q[i]
    <3>1. PICK j \in 1..Len(r) : r[j] = y
      BY <2>1, Zenon DEF In
    <3>2. CASE j < i
      BY <1>1, <3>1, <3>2 DEF In, Distinct
    <3>3. CASE ~(j < i)
      <4>1. j + 1 \in 1..Len(q) /\ q[j + 1] = y /\ j + 1 # i
        BY <1>1, <3>1, <3>3
      <4> QED BY <4>1, Zenon DEF In, Distinct
    <3> QED BY <3>2, <3>3, Zenon
  <2>2. ASSUME In(q, y), y # q[i] PROVE In(r, y)
    <3>1. PICK j \in 1..Len(q) : q[j] = y
      BY <2>2, Zenon DEF In
    <3>2. CASE j < i
      BY <1>1, <3>1, <3>2 DEF In
    <3>3. CASE ~(j < i)
      <4>1. j - 1 \in 1..Len(r) /\ r[j - 1] = y
        BY <1>1, <2>2, <3>1, <3>3
      <4> QED BY <4>1, Zenon DEF In
    <3> QED BY <3>2, <3>3, Zenon
  <2> QED BY <2>1, <2>2, Zenon
<1>3. Distinct(r)
  <2> SUFFICES ASSUME NEW j \in 1..Len(r), NEW k \in 1..Len(r), r[j] = r[k]
               PROVE  j = k
    BY Zenon DEF Distinct
  <2> DEFINE a == IF j < i THEN j ELSE j + 1
             b == IF k < i THEN k ELSE k + 1
  <2>1. a \in 1..Len(q) /\ b \in 1..Len(q) /\ q[a] = q[b]
    BY <1>1
  <2>2. a = b
    BY <2>1, Zenon DEF Distinct
  <2> QED BY <1>1, <2>2
<1> QED BY <1>1, <1>2, <1>3, Zenon

-----------------------------------------------------------------------------
(* Facts about the sets that the counters count.                           *)

(* Subsets of Threads are finite: their sizes are naturals, and change by  *)
(* at most one when a thread joins or leaves.                              *)
LEMMA Sizes ==
    ASSUME NEW S \in SUBSET Threads
    PROVE  /\ Cardinality(S) \in Nat
           /\ Cardinality(S) = 0 <=> S = {}
           /\ \A t \in Threads :
                 /\ t \notin S => Cardinality(S \cup {t}) = Cardinality(S) + 1
                 /\ t \in S => Cardinality(S \ {t}) = Cardinality(S) - 1
<1>1. IsFiniteSet(S)
  BY ThreadsFinite, FS_Subset, Zenon
<1>2. Cardinality(S) \in Nat
  BY <1>1, FS_CardinalityType, Zenon
<1>3. Cardinality(S) = 0 <=> S = {}
  BY <1>1, FS_EmptySet, Zenon
<1>4. ASSUME NEW t \in Threads
      PROVE  /\ t \notin S => Cardinality(S \cup {t}) = Cardinality(S) + 1
             /\ t \in S => Cardinality(S \ {t}) = Cardinality(S) - 1
  BY <1>1, FS_AddElement, FS_RemoveElement, Zenon
<1> QED BY <1>2, <1>3, <1>4, Zenon

LEMMA TakeExclusiveInv ==
    ASSUME Inv, NEW t \in Threads, At(t, "idle"), TakeExclusive(t)
    PROVE  Inv' /\ t \in Writers'
<1> USE DEF TakeExclusive, Goto, queues, waits, sigs, At
<1>1. TypeOK'
  BY DEF Inv, TypeOK
<1>2. Readers' = Readers /\ Writers' = Writers \cup {t}
  BY DEF Inv, TypeOK, Readers, Writers, Granted, InQueue, QueuesOK, Waiting
<1>3. QueuesOK'
  BY DEF Inv, TypeOK, QueuesOK, Waiting, Linked, InTmp, InQueue
<1>4. TmpOK'
  BY Zenon DEF Inv, TypeOK, TmpOK, Waiting, InQueue
<1>5. CountsOK'
  <2>1. Readers = {} /\ Writers = {}
    BY Sizes DEF Inv, CountsOK, Readers
  <2> QED BY <1>2, <2>1 DEF Inv, CountsOK
<1>6. NoStrandedWaiter'
  BY Zenon DEF Inv, NoStrandedWaiter
<1> QED BY <1>1, <1>2, <1>3, <1>4, <1>5, <1>6, Zenon DEF Inv

LEMMA TakeSharedInv ==
    ASSUME Inv, NEW t \in Threads, At(t, "idle"), TakeShared(t)
    PROVE  Inv' /\ Readers' = Readers \cup {t} /\ t \notin Readers
<1> USE DEF TakeShared, Goto, queues, waits, sigs, At
<1>1. TypeOK'
  BY DEF Inv, TypeOK
<1>2. Readers' = Readers \cup {t} /\ Writers' = Writers /\ t \notin Readers
  BY Zenon DEF Inv, TypeOK, Readers, Writers, Granted, InQueue, QueuesOK, Waiting
<1>3. QueuesOK'
  BY DEF Inv, TypeOK, QueuesOK, Waiting, Linked, InTmp, InQueue
<1>4. TmpOK'
  BY Zenon DEF Inv, TypeOK, TmpOK, Waiting, InQueue
<1>5. CountsOK'
  <2>1. Cardinality(Readers') = Cardinality(Readers) + 1 /\ Cardinality(Readers) \in Nat
    BY <1>2, Sizes, ZenonT(60) DEF Readers
  <2> QED BY <1>2, <2>1 DEF Inv, TypeOK, CountsOK
<1>6. NoStrandedWaiter'
  BY DEF Inv, TypeOK, NoStrandedWaiter
<1> QED BY <1>1, <1>2, <1>3, <1>4, <1>5, <1>6, Zenon DEF Inv

(* What queueing to write does to everything but the count.                *)
LEMMA WaitExclusiveParts ==
    ASSUME Inv, NEW t \in Threads, NEW b \in BOOLEAN, cnt_' \in Int,
           pc[t] \in {"idle", "shared"}, tmp[t] = {}, WaitExclusive(t, b)
    PROVE  /\ TypeOK' /\ QueuesOK' /\ TmpOK'
           /\ Readers' = Readers \ {t} /\ Writers' = Writers
           /\ Cardinality(shared_queue_') <= shared_cnt_'
<1> USE DEF WaitExclusive, Park, Goto, sigs
<1>1. /\ exclusive_queue_' \in Seq(Threads)
      /\ \A y : In(exclusive_queue_', y) <=> In(exclusive_queue_, y) \/ y = t
      /\ Distinct(exclusive_queue_) /\ ~In(exclusive_queue_, t)
      /\ Distinct(exclusive_queue_')
  <2>1. exclusive_queue_ \in Seq(Threads) /\ Distinct(exclusive_queue_) /\ ~In(exclusive_queue_, t)
    BY Zenon DEF Inv, TypeOK, QueuesOK, Distinct, Waiting
  <2> QED BY <2>1, AppendEntries, Zenon
<1>2. TypeOK'
  BY <1>1, Zenon DEF Inv, TypeOK, Modes
<1>3. Readers' = Readers \ {t} /\ Writers' = Writers
  BY <1>1, Zenon DEF Inv, TypeOK, Readers, Writers, Granted, InQueue, QueuesOK, Waiting
<1>4. QueuesOK'
  <2>1. \A u \in Threads : Linked(u)' /\ u # t => Linked(u) /\ pc'[u] = pc[u]
    BY <1>1, Zenon DEF Inv, TypeOK, Linked, InTmp, InQueue
  <2>2. t \notin shared_queue_
    BY Zenon DEF Inv, QueuesOK, Waiting
  <2> QED BY <1>1, <2>1, <2>2 DEF Inv, TypeOK, QueuesOK, Waiting, Distinct
<1>5. TmpOK'
  BY <1>1 DEF Inv, TypeOK, TmpOK, Waiting, InQueue
<1> QED BY <1>2, <1>3, <1>4, <1>5, Zenon DEF Inv, CountsOK

(* Lock and InterruptibleLock block only while the lock is held.           *)
LEMMA WaitExclusiveInv ==
    ASSUME Inv, NEW t \in Threads, NEW b \in BOOLEAN, At(t, "idle"),
           cnt_ # 0, WaitExclusive(t, b), UNCHANGED cnt_
    PROVE  Inv' /\ Readers' = Readers /\ Writers' = Writers
<1>1. t \notin Readers
  BY Zenon DEF At, Readers, Granted
<1>2. /\ TypeOK' /\ QueuesOK' /\ TmpOK'
      /\ Readers' = Readers /\ Writers' = Writers
      /\ Cardinality(shared_queue_') <= shared_cnt_'
  <2>1. cnt_' \in Int /\ pc[t] \in {"idle", "shared"} /\ tmp[t] = {}
    BY Zenon DEF Inv, TypeOK, At
  <2> QED BY <1>1, <2>1, WaitExclusiveParts
<1>3. CountsOK'
  BY <1>2, Zenon DEF Inv, CountsOK
<1>4. NoStrandedWaiter'
  BY Zenon DEF Inv, NoStrandedWaiter, WaitExclusive
<1> QED BY <1>2, <1>3, <1>4, Zenon DEF Inv

LEMMA WaitSharedInv ==
    ASSUME Inv, NEW t \in Threads, NEW b \in BOOLEAN, At(t, "idle"),
           cnt_ < 0, WaitShared(t, b)
    PROVE  Inv' /\ Readers' = Readers /\ Writers' = Writers /\ t \notin shared_queue_
<1> USE DEF WaitShared, Park, Goto, sigs, At
<1>1. TypeOK'
  BY DEF Inv, TypeOK, Modes
<1>2. ~In(exclusive_queue_, t) /\ t \notin shared_queue_
  BY Zenon DEF Inv, QueuesOK, Waiting
<1>3. Readers' = Readers /\ Writers' = Writers
  BY <1>2, Zenon DEF Inv, TypeOK, Readers, Writers, Granted, InQueue, QueuesOK, Waiting
<1>4. QueuesOK'
  <2>1. \A u \in Threads : Linked(u)' /\ u # t => Linked(u) /\ pc'[u] = pc[u]
    BY Zenon DEF Inv, TypeOK, Linked, InTmp, InQueue
  <2> QED BY <1>2, <2>1 DEF Inv, TypeOK, QueuesOK, Waiting
<1>5. TmpOK'
  BY DEF Inv, TypeOK, TmpOK, Waiting, InQueue
<1>6. CountsOK'
  <2>1. Cardinality(shared_queue_') = Cardinality(shared_queue_) + 1
        /\ Cardinality(shared_queue_) \in Nat
    BY <1>2, Sizes, Zenon DEF Inv, TypeOK
  <2> QED BY <1>3, <2>1 DEF Inv, TypeOK, CountsOK
<1>7. NoStrandedWaiter'
  BY DEF Inv, TypeOK, CountsOK, NoStrandedWaiter
<1> QED BY <1>1, <1>2, <1>3, <1>4, <1>5, <1>6, <1>7, Zenon DEF Inv

(* Who holds the lock, in the words of the count: a writer is alone, and a *)
(* reader is one of at most cnt_ readers.                                  *)
LEMMA HolderFacts ==
    ASSUME Inv, NEW t \in Threads
    PROVE  /\ pc[t] = "excl" => cnt_ = -1 /\ Readers = {} /\ Writers = {t}
           /\ pc[t] = "shared" => /\ cnt_ >= 1 /\ Writers = {} /\ t \in Readers
                                  /\ Cardinality(Readers) <= cnt_
                                  /\ cnt_ = 1 => Readers = {t}
                                  /\ shared_queue_ = {}
<1>1. ASSUME pc[t] = "excl" PROVE cnt_ = -1 /\ Readers = {} /\ Writers = {t}
  <2>1. t \in Writers
    BY <1>1, Zenon DEF Writers, Granted
  <2> QED BY <2>1 DEF Inv, TypeOK, CountsOK
<1>2. ASSUME pc[t] = "shared"
      PROVE  /\ cnt_ >= 1 /\ Writers = {} /\ t \in Readers
             /\ Cardinality(Readers) <= cnt_
             /\ cnt_ = 1 => Readers = {t}
             /\ shared_queue_ = {}
  <2>1. t \in Readers
    BY <1>2, Zenon DEF Readers, Granted
  <2>2. Readers \in SUBSET Threads
    BY Zenon DEF Readers
  <2>3. /\ Cardinality(Readers) \in Nat /\ Cardinality(Readers) # 0
        /\ Cardinality(Readers \ {t}) = Cardinality(Readers) - 1
    BY <2>1, <2>2, Sizes, Zenon
  <2>4. cnt_ >= 1 /\ Writers = {} /\ Cardinality(Readers) <= cnt_
    BY <2>1, <2>3 DEF Inv, TypeOK, CountsOK
  <2>5. ASSUME cnt_ = 1 PROVE Readers = {t}
    <3>1. Cardinality(Readers \ {t}) = 0
      BY <2>3, <2>4, <2>5
    <3>2. Readers \ {t} = {}
      BY <2>2, <3>1, Sizes, Zenon
    <3> QED BY <2>1, <3>2, Zenon
  <2>6. shared_queue_ = {}
    BY <2>4 DEF Inv, NoStrandedWaiter
  <2> QED BY <2>1, <2>4, <2>5, <2>6, Zenon
<1> QED BY <1>1, <1>2, Zenon

(* Handing the lock to the oldest waiting writer, from either mode.        *)
LEMMA WakeOneExclusiveInv ==
    ASSUME Inv, NEW t \in Threads, At(t, "excl") \/ (At(t, "shared") /\ cnt_ = 1),
           shared_queue_ = {}, exclusive_queue_ # <<>>, WakeOneExclusive(t),
           Goto(t, "idle"), UNCHANGED <<waits, sigs>>
    PROVE  Inv' /\ Writers' # {}
<1> USE DEF WakeOneExclusive, Goto, waits, sigs, At
<1>1. PICK w \in Threads :
          /\ w = Head(exclusive_queue_) /\ In(exclusive_queue_, w)
          /\ exclusive_queue_' \in Seq(Threads)
          /\ \A y : In(exclusive_queue_', y) <=> In(exclusive_queue_, y) /\ y # w
          /\ Distinct(exclusive_queue_')
  <2>1. exclusive_queue_ \in Seq(Threads) /\ Distinct(exclusive_queue_)
    BY Zenon DEF Inv, TypeOK, QueuesOK, Distinct
  <2> QED BY <2>1, TailEntries, Zenon
<1>2. Waiting(w) /\ want[w] = "excl" /\ w # t
  BY <1>1, Zenon DEF Inv, QueuesOK, Waiting
<1>3. TypeOK'
  BY <1>1 DEF Inv, TypeOK
<1>4. Readers \subseteq {t} /\ Writers \subseteq {t}
  BY HolderFacts, Zenon
<1>5. Readers' = {} /\ Writers' = {w}
  <2>1. \A u \in Threads \ {t, w} : \A m \in Modes : Granted(u, m)' <=> Granted(u, m)
    BY <1>1, Zenon DEF Inv, TypeOK, Granted, InQueue
  <2>2. \A m \in Modes : ~Granted(t, m)'
    BY <1>2, Zenon DEF Inv, TypeOK, Granted, Modes
  <2>3. Granted(w, "excl")' /\ ~Granted(w, "shared")'
    BY <1>1, <1>2, Zenon DEF Inv, TypeOK, Granted, InQueue, Waiting
  <2> QED BY <1>1, <1>4, <2>1, <2>2, <2>3, Zenon DEF Readers, Writers, Modes
<1>6. QueuesOK'
  <2>1. \A u \in Threads : Linked(u)' => Linked(u) /\ u # t /\ pc'[u] = pc[u]
    <3>1. ~Linked(t)
      BY Zenon DEF Inv, TypeOK, Linked, InTmp, InQueue, QueuesOK, TmpOK, Waiting
    <3> QED BY <1>1, <1>2, <3>1, Zenon DEF Inv, TypeOK, Linked, InTmp, InQueue
  <2> QED BY <1>1, <1>2, <2>1 DEF Inv, TypeOK, QueuesOK, Waiting, Distinct
<1>7. TmpOK'
  <2>1. \A u \in Threads : w \notin tmp[u]
    BY <1>1, Zenon DEF Inv, TmpOK, InQueue
  <2> QED BY <1>1, <1>2, <2>1 DEF Inv, TypeOK, TmpOK, Waiting, InQueue
<1>8. CountsOK'
  BY <1>5 DEF Inv, TypeOK, CountsOK
<1>9. NoStrandedWaiter'
  BY DEF Inv, NoStrandedWaiter
<1> QED BY <1>3, <1>5, <1>6, <1>7, <1>8, <1>9, Zenon DEF Inv

(* Handing the lock to all waiting readers: Unlock ends idle and adds      *)
(* nobody to them, DowngradeLock keeps the caller as one more reader.      *)
LEMMA WakeAllSharedInv ==
    ASSUME Inv, NEW t \in Threads, At(t, "excl"), NEW extra \in {0, 1},
           extra = 0 => shared_queue_ # {}, WakeAllShared(t, extra),
           Goto(t, IF extra = 1 THEN "shared" ELSE "idle"), UNCHANGED <<waits, sigs>>
    PROVE  /\ Inv' /\ cnt_' >= 1 /\ t \notin shared_queue_
           /\ Readers' = IF extra = 1 THEN shared_queue_ \cup {t} ELSE shared_queue_
<1> USE DEF WakeAllShared, Goto, waits, sigs, At
<1>1. cnt_ = -1 /\ Readers = {} /\ Writers = {t}
  BY HolderFacts, Zenon
<1>2. TypeOK'
  BY DEF Inv, TypeOK
<1>3. t \notin shared_queue_ /\ ~Linked(t)
  BY Zenon DEF Inv, TypeOK, Linked, InTmp, InQueue, QueuesOK, TmpOK, Waiting
<1>4. Writers' = {} /\ Readers' = IF extra = 1 THEN shared_queue_ \cup {t} ELSE shared_queue_
  <2>1. \A u \in Threads \ (shared_queue_ \cup {t}) :
            \A m \in Modes : Granted(u, m)' <=> Granted(u, m)
    BY Zenon DEF Inv, TypeOK, Granted, InQueue
  <2>2. \A u \in shared_queue_ : Granted(u, "shared")' /\ ~Granted(u, "excl")'
    BY <1>3, Zenon DEF Inv, TypeOK, Granted, InQueue, QueuesOK, Waiting
  <2>3. (Granted(t, "shared")' <=> extra = 1) /\ ~Granted(t, "excl")'
    BY Zenon DEF Inv, TypeOK, Granted
  <2>4. shared_queue_ \subseteq Threads
    BY Zenon DEF Inv, TypeOK
  <2> QED BY <1>1, <2>1, <2>2, <2>3, <2>4, Zenon DEF Readers, Writers, Modes
<1>5. QueuesOK'
  <2>1. \A u \in Threads : Linked(u)' => Linked(u) /\ u # t /\ pc'[u] = pc[u]
    BY <1>3, Zenon DEF Inv, TypeOK, Linked, InTmp, InQueue
  <2> QED BY <1>3, <2>1 DEF Inv, TypeOK, QueuesOK, Waiting, InQueue, Linked
<1>6. TmpOK'
  BY <1>3 DEF Inv, TypeOK, TmpOK, QueuesOK, Waiting, InQueue
<1>7. CountsOK' /\ cnt_' >= 1
  <2>1. /\ Cardinality(shared_queue_) \in Nat
        /\ shared_queue_ # {} => Cardinality(shared_queue_) # 0
        /\ Cardinality(shared_queue_ \cup {t}) = Cardinality(shared_queue_) + 1
    BY <1>3, Sizes, Zenon DEF Inv, TypeOK
  <2>2. Cardinality(Readers') <= cnt_' /\ cnt_' >= 1
    BY <1>4, <2>1 DEF Inv, TypeOK, CountsOK
  <2>3. Cardinality(shared_queue_') = 0
    BY FS_EmptySet, Zenon
  <2> QED BY <1>4, <2>2, <2>3 DEF Inv, TypeOK, CountsOK
<1>8. NoStrandedWaiter'
  BY <1>7 DEF Inv, TypeOK, NoStrandedWaiter
<1> QED BY <1>2, <1>3, <1>4, <1>5, <1>6, <1>7, <1>8, Zenon DEF Inv

LEMMA InterruptedAtOnceInv ==
    ASSUME Inv, NEW t \in Threads, At(t, "idle"), Goto(t, "eintr"),
           shared_cnt_' \in {shared_cnt_, shared_cnt_ + 1},
           UNCHANGED <<cnt_, queues, tmp, waits, sigs>>
    PROVE  Inv'
<1> USE DEF Goto, queues, waits, sigs, At
<1>1. TypeOK'
  BY DEF Inv, TypeOK
<1>2. Readers' = Readers /\ Writers' = Writers
  BY Zenon DEF Inv, TypeOK, Readers, Writers, Granted, InQueue
<1>3. QueuesOK'
  BY DEF Inv, TypeOK, QueuesOK, Waiting, Linked, InTmp, InQueue
<1>4. TmpOK'
  BY Zenon DEF Inv, TypeOK, TmpOK, Waiting, InQueue
<1>5. CountsOK'
  <2>1. Cardinality(shared_queue_) \in Nat
    BY Sizes, Zenon DEF Inv, TypeOK
  <2> QED BY <1>2, <2>1 DEF Inv, TypeOK, CountsOK
<1>6. NoStrandedWaiter'
  BY Zenon DEF Inv, NoStrandedWaiter
<1> QED BY <1>1, <1>3, <1>4, <1>5, <1>6, Zenon DEF Inv

LEMMA AcquireInv ==
    ASSUME Inv, NEW t \in Threads, Acquire(t)
    PROVE  Inv'
<1>1. CASE Lock(t)
  BY <1>1, TakeExclusiveInv, WaitExclusiveInv, Zenon DEF Lock
<1>2. CASE TryLock(t)
  BY <1>2, TakeExclusiveInv, Zenon DEF TryLock
<1>3. CASE InterruptibleLock(t)
  BY <1>3, TakeExclusiveInv, WaitExclusiveInv, InterruptedAtOnceInv, Zenon DEF InterruptibleLock
<1>4. CASE LockShared(t)
  BY <1>4, TakeSharedInv, WaitSharedInv, Zenon DEF LockShared
<1>5. CASE TryLockShared(t)
  BY <1>5, TakeSharedInv, Zenon DEF TryLockShared
<1>6. CASE InterruptibleLockShared(t)
  BY <1>6, TakeSharedInv, WaitSharedInv, InterruptedAtOnceInv, Zenon DEF InterruptibleLockShared
<1> QED BY <1>1, <1>2, <1>3, <1>4, <1>5, <1>6, Zenon DEF Acquire

(* A holder that nobody waits behind leaves.                               *)
LEMMA LeaveInv ==
    ASSUME Inv, NEW t \in Threads, Goto(t, "idle"),
           \/ /\ At(t, "excl") /\ cnt_' = 0
              /\ shared_queue_ = {} /\ exclusive_queue_ = <<>>
           \/ /\ At(t, "shared") /\ cnt_' = cnt_ - 1
              /\ cnt_ # 1 \/ exclusive_queue_ = <<>>,
           UNCHANGED <<shared_cnt_, queues, tmp, waits, sigs>>
    PROVE  Inv' /\ Readers' = Readers \ {t}
<1> USE DEF Goto, queues, waits, sigs, At
<1>1. TypeOK'
  BY DEF Inv, TypeOK
<1>2. Readers' = Readers \ {t} /\ Writers' = Writers \ {t}
  BY Zenon DEF Inv, TypeOK, Readers, Writers, Granted, InQueue
<1>3. QueuesOK'
  BY DEF Inv, TypeOK, QueuesOK, Waiting, Linked, InTmp, InQueue
<1>4. TmpOK'
  BY Zenon DEF Inv, TypeOK, TmpOK, Waiting, InQueue
<1>5. CountsOK'
  <2>1. CASE pc[t] = "excl"
    <3>1. Readers' = {} /\ Writers' = {}
      BY <1>2, <2>1, HolderFacts, Zenon
    <3> QED BY <2>1, <3>1, FS_EmptySet DEF Inv, CountsOK
  <2>2. CASE pc[t] = "shared"
    <3>1. Cardinality(Readers') = Cardinality(Readers) - 1 /\ Cardinality(Readers) \in Nat
      BY <1>2, <2>2, HolderFacts, Sizes DEF Readers
    <3>2. Writers' = {} /\ Cardinality(Readers) <= cnt_ /\ cnt_ >= 1
      BY <1>2, <2>2, HolderFacts, Zenon
    <3> QED BY <2>2, <3>1, <3>2 DEF Inv, TypeOK, CountsOK
  <2> QED BY <2>1, <2>2, Zenon
<1>6. NoStrandedWaiter'
  BY HolderFacts DEF Inv, TypeOK, NoStrandedWaiter
<1> QED BY <1>1, <1>2, <1>3, <1>4, <1>5, <1>6, Zenon DEF Inv

LEMMA UnlockInv ==
    ASSUME Inv, NEW t \in Threads, Unlock(t)
    PROVE  Inv'
<1>1. CASE shared_queue_ # {} /\ WakeAllShared(t, 0)
  BY <1>1, WakeAllSharedInv DEF Unlock
<1>2. CASE shared_queue_ = {} /\ exclusive_queue_ # <<>> /\ WakeOneExclusive(t)
  BY <1>2, WakeOneExclusiveInv, Zenon DEF Unlock
<1>3. CASE /\ shared_queue_ = {} /\ exclusive_queue_ = <<>>
           /\ cnt_' = 0
           /\ UNCHANGED <<shared_cnt_, queues, tmp>>
  BY <1>3, LeaveInv, Zenon DEF Unlock
<1> QED BY <1>1, <1>2, <1>3, Zenon DEF Unlock

LEMMA UnlockSharedInv ==
    ASSUME Inv, NEW t \in Threads, UnlockShared(t)
    PROVE  Inv'
<1>1. CASE cnt_ = 1 /\ exclusive_queue_ # <<>> /\ WakeOneExclusive(t)
  <2>1. shared_queue_ = {}
    BY HolderFacts, Zenon DEF UnlockShared, At
  <2> QED BY <1>1, <2>1, WakeOneExclusiveInv, Zenon DEF UnlockShared
<1>2. CASE /\ cnt_ # 1 \/ exclusive_queue_ = <<>>
           /\ cnt_' = cnt_ - 1
           /\ UNCHANGED <<shared_cnt_, queues, tmp>>
  BY <1>2, LeaveInv, Zenon DEF UnlockShared
<1> QED BY <1>1, <1>2, Zenon DEF UnlockShared

LEMMA UpgradeLockInv ==
    ASSUME Inv, NEW t \in Threads, UpgradeLock(t)
    PROVE  /\ Inv' /\ Readers' = Readers \ {t}
           /\ cnt_' = -1 => Writers' = {t}
<1>1. /\ pc[t] = "shared" /\ tmp[t] = {} /\ cnt_ >= 1 /\ Writers = {} /\ t \in Readers
      /\ Cardinality(Readers) <= cnt_ /\ shared_queue_ = {}
      /\ cnt_ = 1 => Readers = {t}
  BY HolderFacts, Zenon DEF UpgradeLock, At
<1>2. CASE cnt_ > 1 /\ cnt_' = cnt_ - 1 /\ WaitExclusive(t, FALSE)
  <2>1. cnt_' \in Int /\ pc[t] \in {"idle", "shared"}
    BY <1>1, <1>2 DEF Inv, TypeOK
  <2>2. /\ TypeOK' /\ QueuesOK' /\ TmpOK'
        /\ Readers' = Readers \ {t} /\ Writers' = Writers
        /\ Cardinality(shared_queue_') <= shared_cnt_'
    BY <1>1, <1>2, <2>1, WaitExclusiveParts, Zenon
  <2>3. Cardinality(Readers') = Cardinality(Readers) - 1 /\ Cardinality(Readers) \in Nat
    BY <1>1, <2>2, Sizes DEF Readers
  <2>4. CountsOK'
    BY <1>1, <1>2, <2>2, <2>3 DEF Inv, TypeOK, CountsOK
  <2>5. NoStrandedWaiter'
    BY <1>1, <1>2 DEF Inv, TypeOK, NoStrandedWaiter, WaitExclusive
  <2> QED BY <1>1, <1>2, <2>2, <2>4, <2>5 DEF Inv, TypeOK
<1>3. CASE /\ cnt_ = 1
           /\ cnt_' = -1
           /\ Goto(t, "excl")
           /\ UNCHANGED <<shared_cnt_, queues, tmp, waits, sigs>>
  <2> USE <1>3 DEF Goto, queues, waits, sigs
  <2>1. TypeOK'
    BY DEF Inv, TypeOK
  <2>2. Readers' = Readers \ {t} /\ Writers' = {t}
    BY <1>1, Zenon DEF Inv, TypeOK, Readers, Writers, Granted, InQueue
  <2>3. QueuesOK'
    BY <1>1 DEF Inv, TypeOK, QueuesOK, Waiting, Linked, InTmp, InQueue
  <2>4. TmpOK'
    BY <1>1, Zenon DEF Inv, TypeOK, TmpOK, Waiting, InQueue
  <2>5. CountsOK'
    BY <1>1, <2>2 DEF Inv, CountsOK
  <2>6. NoStrandedWaiter'
    BY DEF Inv, NoStrandedWaiter
  <2> QED BY <2>1, <2>2, <2>3, <2>4, <2>5, <2>6, Zenon DEF Inv
<1> QED BY <1>2, <1>3, Zenon DEF UpgradeLock

LEMMA DowngradeLockInv ==
    ASSUME Inv, NEW t \in Threads, DowngradeLock(t)
    PROVE  Inv'
BY WakeAllSharedInv DEF DowngradeLock

LEMMA WakeNextInv ==
    ASSUME Inv, NEW t \in Threads, WakeNext(t)
    PROVE  Inv' /\ Readers' = Readers /\ Writers' = Writers
<1>1. PICK u \in tmp[t] :
          /\ tmp' = [tmp EXCEPT ![t] = @ \ {u}]
          /\ pc' = IF pc[u] = "parked" THEN [pc EXCEPT ![u] = "ready"] ELSE pc
          /\ UNCHANGED <<cnt_, shared_cnt_, queues, waits, sigs>>
  BY Zenon DEF WakeNext
<1> USE <1>1 DEF queues, waits, sigs
<1>2. u \in Threads /\ Waiting(u) /\ ~InQueue(u) /\ \A v \in Threads : u \in tmp[v] => v = t
  BY Zenon DEF Inv, TypeOK, TmpOK
<1>3. TypeOK'
  BY <1>2, Zenon DEF Inv, TypeOK
<1>4. \A v \in Threads : (Waiting(v)' <=> Waiting(v)) /\ (v # u => pc'[v] = pc[v])
  BY <1>2, Zenon DEF Inv, TypeOK, Waiting
<1>5. Readers' = Readers /\ Writers' = Writers
  BY <1>2, <1>4, Zenon DEF Inv, TypeOK, Readers, Writers, Granted, InQueue, Waiting
<1>6. QueuesOK'
  <2>1. \A v \in Threads : Linked(v)' => Linked(v) /\ v # u
    BY <1>2, Zenon DEF Inv, TypeOK, Linked, InTmp, InQueue
  <2> QED BY <1>2, <1>4, <2>1, Zenon DEF Inv, TypeOK, QueuesOK
<1>7. TmpOK'
  BY <1>2, <1>4, Zenon DEF Inv, TypeOK, TmpOK, InQueue
<1>8. CountsOK' /\ NoStrandedWaiter'
  BY <1>5, Zenon DEF Inv, CountsOK, NoStrandedWaiter
<1> QED BY <1>3, <1>5, <1>6, <1>7, <1>8, Zenon DEF Inv

(* A waiter that is not interrupted has been granted what it waited for.   *)
LEMMA ResumeGrantedInv ==
    ASSUME Inv, NEW t \in Threads, ResumeGranted(t)
    PROVE  Inv' /\ ~Linked(t) /\ Granted(t, want[t]) /\ Readers' = Readers /\ Writers' = Writers
<1> USE DEF ResumeGranted, Goto, queues, waits, sigs
<1>1. ~Linked(t)
  BY Zenon DEF Inv, QueuesOK
<1>2. TypeOK'
  BY Zenon DEF Inv, TypeOK, Modes
<1>3. Readers' = Readers /\ Writers' = Writers
  BY <1>1, Zenon DEF Inv, TypeOK, Readers, Writers, Granted, InQueue, Linked, Modes
<1>4. QueuesOK'
  <2>1. \A u \in Threads : Linked(u)' => Linked(u) /\ u # t /\ pc'[u] = pc[u]
    BY <1>1, Zenon DEF Inv, TypeOK, Linked, InTmp, InQueue
  <2>2. ~In(exclusive_queue_, t) /\ t \notin shared_queue_
    BY <1>1, Zenon DEF Linked, InQueue
  <2> QED BY <2>1, <2>2, ZenonT(60) DEF Inv, TypeOK, QueuesOK, Waiting
<1>5. TmpOK'
  BY <1>1 DEF Inv, TypeOK, TmpOK, Waiting, InQueue, Linked, InTmp
<1>6. CountsOK' /\ NoStrandedWaiter'
  BY <1>3, Zenon DEF Inv, CountsOK, NoStrandedWaiter
<1>7. Granted(t, want[t])
  BY <1>1, Zenon DEF Granted, Linked
<1> QED BY <1>1, <1>2, <1>3, <1>4, <1>5, <1>6, <1>7, Zenon DEF Inv

(* An interrupted waiter unlinks itself; if it had been granted the lock,  *)
(* the grant is lost and the count stays too large.                        *)
LEMMA ResumeInterruptedInv ==
    ASSUME Inv, NEW t \in Threads, ResumeInterrupted(t)
    PROVE  Inv'
<1> USE DEF ResumeInterrupted, Goto, waits, sigs
<1>1. /\ exclusive_queue_' \in Seq(Threads) /\ Distinct(exclusive_queue_')
      /\ \A y : In(exclusive_queue_', y) <=> In(exclusive_queue_, y) /\ y # t
      /\ exclusive_queue_ = <<>> => exclusive_queue_' = <<>>
  <2>1. exclusive_queue_ \in Seq(Threads) /\ Distinct(exclusive_queue_)
    BY Zenon DEF Inv, TypeOK, QueuesOK, Distinct
  <2>2. CASE UNCHANGED exclusive_queue_ /\ ~In(exclusive_queue_, t)
    BY <2>1, <2>2, Zenon
  <2>3. CASE \E i \in 1..Len(exclusive_queue_) :
                 exclusive_queue_[i] = t /\ exclusive_queue_' = DeleteAt(exclusive_queue_, i)
    <3>1. exclusive_queue_ # <<>>
      BY <2>3
    <3> QED BY <2>1, <2>3, <3>1, DeleteEntries
  <2>4. t \in shared_queue_ \/ InTmp(t) => ~In(exclusive_queue_, t)
    BY Zenon DEF Inv, QueuesOK, TmpOK, InTmp, InQueue
  <2> QED BY <2>2, <2>3, <2>4, Zenon DEF queues
<1>2. shared_queue_' = shared_queue_ \ {t}
  BY DEF Inv, QueuesOK, TmpOK, InTmp, InQueue, In, queues
<1>3. tmp \in [Threads -> SUBSET Threads] /\ tmp' = [u \in Threads |-> tmp[u] \ {t}]
  <2>1. tmp \in [Threads -> SUBSET Threads]
    BY Zenon DEF Inv, TypeOK
  <2>2. InQueue(t) => \A u \in Threads : t \notin tmp[u]
    BY Zenon DEF Inv, TmpOK
  <2> QED BY <2>1, <2>2, Zenon DEF InQueue, In
<1> HIDE DEF ResumeInterrupted
<1>4. /\ pc[t] = "ready" /\ pc' = [pc EXCEPT ![t] = "eintr"]
      /\ UNCHANGED <<cnt_, shared_cnt_, want, intr, sig, signals>>
  BY Zenon DEF ResumeInterrupted
<1>5. TypeOK'
  BY <1>1, <1>2, <1>3, <1>4, Zenon DEF Inv, TypeOK
<1>6. Readers' = Readers \ {t} /\ Writers' = Writers \ {t}
  BY <1>1, <1>2, <1>4, ZenonT(60) DEF Inv, TypeOK, Readers, Writers, Granted, InQueue
<1>7. QueuesOK'
  <2>1. \A u \in Threads : Linked(u)' => Linked(u) /\ u # t /\ pc'[u] = pc[u]
    BY <1>1, <1>2, <1>3, <1>4, Zenon DEF Inv, TypeOK, Linked, InTmp, InQueue
  <2> QED BY <1>1, <1>2, <1>4, <2>1 DEF Inv, TypeOK, QueuesOK, Waiting, Distinct
<1>8. TmpOK'
  BY <1>1, <1>2, <1>3, <1>4, ZenonT(60) DEF Inv, TypeOK, TmpOK, Waiting, InQueue
<1>9. CountsOK'
  <2>1. ASSUME NEW S \in SUBSET Threads
        PROVE  /\ Cardinality(S) \in Nat /\ Cardinality(S \ {t}) \in Nat
               /\ Cardinality(S \ {t}) <= Cardinality(S)
    <3>1. CASE t \in S
      BY <3>1, Sizes
    <3>2. CASE t \notin S
      <4>1. S \ {t} = S
        BY <3>2, Zenon
      <4> QED BY <4>1, Sizes
    <3> QED BY <3>1, <3>2, Zenon
  <2>2. Readers \in SUBSET Threads /\ shared_queue_ \in SUBSET Threads
    BY Zenon DEF Readers, Inv, TypeOK
  <2>3. /\ Cardinality(Readers') \in Nat /\ Cardinality(Readers) \in Nat
        /\ Cardinality(Readers') <= Cardinality(Readers)
    BY <1>6, <2>1, <2>2, Zenon
  <2>4. /\ Cardinality(shared_queue_') \in Nat /\ Cardinality(shared_queue_) \in Nat
        /\ Cardinality(shared_queue_') <= Cardinality(shared_queue_)
    BY <1>2, <2>1, <2>2, Zenon
  <2>5. cnt_ \in Int /\ shared_cnt_ \in Nat /\ CountsOK
    BY Zenon DEF Inv, TypeOK
  <2> QED BY <1>4, <1>6, <2>3, <2>4, <2>5 DEF CountsOK
<1>10. NoStrandedWaiter'
  BY <1>1, <1>2, <1>4, Zenon DEF Inv, NoStrandedWaiter
<1> QED BY <1>5, <1>7, <1>8, <1>9, <1>10, Zenon DEF Inv

LEMMA SignalInv ==
    ASSUME Inv, NEW t \in Threads, Signal(t)
    PROVE  Inv'
<1> USE DEF Signal, queues, waits
<1>1. TypeOK'
  BY MaxSignalsNat DEF Inv, TypeOK
<1>2. \A u \in Threads : /\ Waiting(u)' <=> Waiting(u)
                         /\ u # t => pc'[u] = pc[u] /\ sig'[u] = sig[u]
  BY Zenon DEF Inv, TypeOK, Waiting
<1>3. Readers' = Readers /\ Writers' = Writers
  BY <1>2, Zenon DEF Inv, TypeOK, Readers, Writers, Granted, InQueue, Waiting
<1>4. QueuesOK'
  <2>1. \A u \in Threads : Linked(u)' <=> Linked(u)
    BY Zenon DEF Linked, InTmp, InQueue
  <2>2. ASSUME NEW u \in Threads, Linked(u), pc'[u] = "ready"
        PROVE  intr[u] /\ sig'[u]
    <3>1. CASE u = t
      BY <2>2, <3>1, Zenon DEF Inv, TypeOK, QueuesOK
    <3>2. CASE u # t
      BY <1>2, <2>2, <3>2, ZenonT(60) DEF Inv, TypeOK, QueuesOK
    <3> QED BY <3>1, <3>2, Zenon
  <2> HIDE DEF Signal
  <2>3. UNCHANGED <<exclusive_queue_, shared_queue_, want, intr>>
    BY Zenon DEF Signal
  <2> QED BY <1>2, <2>1, <2>2, <2>3, Zenon DEF Inv, QueuesOK
<1>5. TmpOK'
  BY <1>2, Zenon DEF Inv, TypeOK, TmpOK, InQueue
<1>6. CountsOK' /\ NoStrandedWaiter'
  BY <1>3, Zenon DEF Inv, CountsOK, NoStrandedWaiter
<1> QED BY <1>1, <1>4, <1>5, <1>6, Zenon DEF Inv

LEMMA ResetInterruptStateInv ==
    ASSUME Inv, NEW t \in Threads, ResetInterruptState(t)
    PROVE  Inv'
<1> USE DEF ResetInterruptState, Goto, At, queues, waits
<1>1. TypeOK'
  BY Zenon DEF Inv, TypeOK
<1>2. Readers' = Readers /\ Writers' = Writers
  BY Zenon DEF Inv, TypeOK, Readers, Writers, Granted, InQueue
<1>3. QueuesOK'
  <2>1. \A u \in Threads : Linked(u)' => Linked(u)
    BY Zenon DEF Linked, InTmp, InQueue
  <2> QED BY <2>1, ZenonT(60) DEF Inv, TypeOK, QueuesOK, Waiting
<1>4. TmpOK'
  BY DEF Inv, TypeOK, TmpOK, Waiting, InQueue
<1>5. CountsOK' /\ NoStrandedWaiter'
  BY <1>2, Zenon DEF Inv, CountsOK, NoStrandedWaiter
<1> QED BY <1>1, <1>3, <1>4, <1>5, Zenon DEF Inv

-----------------------------------------------------------------------------
LEMMA InitInv == Init => Inv
<1> SUFFICES ASSUME Init PROVE Inv
  BY Zenon
<1> USE DEF Init
<1>1. TypeOK
  BY MaxSignalsNat DEF TypeOK, Modes
<1>2. QueuesOK /\ TmpOK
  BY DEF QueuesOK, TmpOK, Linked, InTmp, InQueue, In
<1>3. Readers = {} /\ Writers = {}
  BY Zenon DEF Readers, Writers, Granted
<1>4. CountsOK /\ NoStrandedWaiter
  BY <1>3, FS_EmptySet DEF CountsOK, NoStrandedWaiter
<1> QED BY <1>1, <1>2, <1>4, Zenon DEF Inv

LEMMA NextInv == Inv /\ [Next]_vars => Inv'
<1> SUFFICES ASSUME Inv, [Next]_vars PROVE Inv'
  BY Zenon
<1>1. CASE UNCHANGED vars
  <2> USE <1>1 DEF vars, queues, waits, sigs
  <2>1. TypeOK' /\ NoStrandedWaiter'
    BY Zenon DEF Inv, TypeOK, NoStrandedWaiter
  <2>2. QueuesOK'
    BY ZenonT(60) DEF Inv, QueuesOK, Waiting, Linked, InTmp, InQueue
  <2>3. TmpOK'
    BY Zenon DEF Inv, TmpOK, Waiting, InQueue
  <2>4. Readers' = Readers /\ Writers' = Writers
    BY Zenon DEF Readers, Writers, Granted, InQueue
  <2>5. CountsOK'
    BY <2>4, Zenon DEF Inv, CountsOK
  <2> QED BY <2>1, <2>2, <2>3, <2>5, Zenon DEF Inv
<1>2. ASSUME NEW t \in Threads,
             \/ Acquire(t) \/ Unlock(t) \/ UnlockShared(t) \/ Convert(t)
             \/ WakeNext(t) \/ Resume(t) \/ Signal(t) \/ ResetInterruptState(t)
      PROVE  Inv'
  BY <1>2, AcquireInv, UnlockInv, UnlockSharedInv, UpgradeLockInv, DowngradeLockInv,
     WakeNextInv, ResumeGrantedInv, ResumeInterruptedInv, SignalInv, ResetInterruptStateInv, Zenon
     DEF Convert, Resume
<1> QED BY <1>1, <1>2, Zenon DEF Next

(* The invariant holds in every reachable state.                           *)
THEOREM Invariance == Spec => []Inv
BY InitInv, NextInv, PTL DEF Spec

(* Type correctness of the lock's state.                                   *)
THEOREM TypeCorrect == Spec => []TypeOK
<1>1. Inv => TypeOK
  BY Zenon DEF Inv
<1> QED BY Invariance, <1>1, PTL

(* SharedMutex excludes, whatever threads signal whatever waiters: no      *)
(* thread is inside while another is inside as a writer.                   *)
THEOREM Exclusion == Spec => []MutualExclusion
<1>1. Inv => MutualExclusion
  <2> SUFFICES ASSUME Inv, NEW t \in Threads, NEW u \in Threads, pc[t] = "excl", u # t
               PROVE  pc[u] \notin {"shared", "excl"}
    BY Zenon DEF MutualExclusion
  <2>1. Readers = {} /\ Writers = {t}
    BY HolderFacts, Zenon
  <2> QED BY <2>1, Zenon DEF Readers, Writers, Granted
<1> QED BY Invariance, <1>1, PTL

(* No release leaves a thread queued behind a lock that is free for it.    *)
THEOREM NobodyStranded == Spec => []NoStrandedWaiter
<1>1. Inv => NoStrandedWaiter
  BY Zenon DEF Inv
<1> QED BY Invariance, <1>1, PTL

-----------------------------------------------------------------------------
(* Until a first signal interrupts a wait the counts are exact, which the  *)
(* invariant, made for interrupted waits as well, does not say.            *)
Exact ==
    signals = 0 =>
        /\ \A t \in Threads : ~sig[t]
        /\ shared_cnt_ = Cardinality(shared_queue_)
        /\ cnt_ >= 0 => cnt_ = Cardinality(Readers)
        /\ cnt_ = -1 => Writers # {}

(* Acquiring keeps the counts exact.                                       *)
LEMMA ExactAcquire ==
    ASSUME Inv, Exact, NEW t \in Threads, Acquire(t), signals' = 0
    PROVE  Exact'
<1>1. At(t, "idle") /\ UNCHANGED sigs /\ signals = 0
  BY Zenon DEF Acquire, Lock, TryLock, InterruptibleLock, LockShared, TryLockShared,
         InterruptibleLockShared, TakeExclusive, TakeShared, WaitExclusive, WaitShared, sigs
<1>2. /\ \A u \in Threads : ~sig[u] /\ ~sig'[u]
      /\ shared_cnt_ = Cardinality(shared_queue_)
      /\ cnt_ >= 0 => cnt_ = Cardinality(Readers)
      /\ cnt_ = -1 => Writers # {}
      /\ cnt_ \in Int
  BY <1>1, Zenon DEF Exact, sigs, Inv, TypeOK
<1>3. CASE TakeExclusive(t)
  <2>1. t \in Writers'
    BY <1>1, <1>3, TakeExclusiveInv, Zenon
  <2>2. cnt_' = -1 /\ UNCHANGED <<shared_cnt_, shared_queue_>>
    BY <1>3, Zenon DEF TakeExclusive, queues
  <2> QED BY <1>2, <2>1, <2>2 DEF Exact
<1>4. CASE TakeShared(t)
  <2>1. Readers' = Readers \cup {t} /\ t \notin Readers /\ Readers \in SUBSET Threads
    BY <1>1, <1>4, TakeSharedInv, Zenon DEF Readers
  <2>2. cnt_ >= 0 /\ cnt_' = cnt_ + 1 /\ UNCHANGED <<shared_cnt_, shared_queue_>>
    BY <1>4, Zenon DEF TakeShared, queues
  <2>3. Cardinality(Readers') = cnt_'
    BY <1>2, <2>1, <2>2, Sizes, ZenonT(60)
  <2> QED BY <1>2, <2>2, <2>3 DEF Exact
<1>5. ASSUME NEW b \in BOOLEAN, cnt_ # 0, WaitExclusive(t, b), UNCHANGED cnt_
      PROVE  Exact'
  <2>1. Readers' = Readers /\ Writers' = Writers
    BY <1>1, <1>5, WaitExclusiveInv, Zenon
  <2>2. UNCHANGED <<shared_cnt_, shared_queue_>>
    BY <1>5, Zenon DEF WaitExclusive
  <2> QED BY <1>2, <1>5, <2>1, <2>2, Zenon DEF Exact
<1>6. ASSUME NEW b \in BOOLEAN, cnt_ < 0, WaitShared(t, b)
      PROVE  Exact'
  <2>1. Readers' = Readers /\ Writers' = Writers /\ t \notin shared_queue_
    BY <1>1, <1>6, WaitSharedInv, Zenon
  <2>2. /\ shared_cnt_' = shared_cnt_ + 1 /\ shared_queue_' = shared_queue_ \cup {t}
        /\ UNCHANGED cnt_ /\ shared_queue_ \in SUBSET Threads
    BY <1>6, Zenon DEF WaitShared, Inv, TypeOK
  <2>3. Cardinality(shared_queue_') = shared_cnt_'
    BY <1>2, <2>1, <2>2, Sizes, Zenon
  <2> QED BY <1>2, <1>6, <2>1, <2>2, <2>3, Zenon DEF Exact
<1> QED BY <1>2, <1>3, <1>4, <1>5, <1>6, Zenon DEF Acquire, Lock, TryLock, InterruptibleLock,
           LockShared, TryLockShared, InterruptibleLockShared

(* So do releasing, upgrading and downgrading.                             *)
LEMMA ExactRelease ==
    ASSUME Inv, Exact, NEW t \in Threads, Unlock(t) \/ UnlockShared(t) \/ Convert(t),
           signals' = 0
    PROVE  Exact'
<1>1. /\ UNCHANGED sigs /\ signals = 0
      /\ At(t, "excl") \/ At(t, "shared")
  BY Zenon DEF Unlock, UnlockShared, Convert, UpgradeLock, DowngradeLock, WaitExclusive, sigs
<1>2. /\ \A u \in Threads : ~sig'[u]
      /\ shared_cnt_ = Cardinality(shared_queue_)
      /\ cnt_ >= 0 => cnt_ = Cardinality(Readers)
      /\ cnt_ \in Int /\ shared_queue_ \in SUBSET Threads /\ Readers \in SUBSET Threads
  BY <1>1, Zenon DEF Exact, sigs, Inv, TypeOK, Readers
<1>3. Cardinality({}) = 0
  BY FS_EmptySet, Zenon
<1>4. ASSUME NEW extra \in {0, 1}, At(t, "excl"), extra = 0 => shared_queue_ # {},
             WakeAllShared(t, extra), Goto(t, IF extra = 1 THEN "shared" ELSE "idle"),
             UNCHANGED waits
      PROVE  Exact'
  <2>1. /\ cnt_' >= 1 /\ t \notin shared_queue_
        /\ Readers' = IF extra = 1 THEN shared_queue_ \cup {t} ELSE shared_queue_
    BY <1>1, <1>4, WakeAllSharedInv, Zenon
  <2>2. cnt_' = shared_cnt_ + extra /\ shared_cnt_' = 0 /\ shared_queue_' = {}
    BY <1>4, Zenon DEF WakeAllShared
  <2>3. Cardinality(Readers') = cnt_'
    BY <1>2, <2>1, <2>2, Sizes
  <2> QED BY <1>2, <1>3, <2>1, <2>2, <2>3 DEF Exact
<1>5. ASSUME At(t, "excl") \/ (At(t, "shared") /\ cnt_ = 1), shared_queue_ = {},
             exclusive_queue_ # <<>>, WakeOneExclusive(t), Goto(t, "idle"), UNCHANGED waits
      PROVE  Exact'
  <2>1. Writers' # {}
    BY <1>1, <1>5, WakeOneExclusiveInv, Zenon
  <2>2. cnt_' = -1 /\ UNCHANGED <<shared_cnt_, shared_queue_>>
    BY <1>5, Zenon DEF WakeOneExclusive
  <2> QED BY <1>2, <2>1, <2>2 DEF Exact
<1>6. ASSUME Goto(t, "idle"), UNCHANGED <<shared_cnt_, queues, tmp, waits>>,
             \/ /\ At(t, "excl") /\ cnt_' = 0
                /\ shared_queue_ = {} /\ exclusive_queue_ = <<>>
             \/ /\ At(t, "shared") /\ cnt_' = cnt_ - 1
                /\ cnt_ # 1 \/ exclusive_queue_ = <<>>
      PROVE  Exact'
  <2>1. Readers' = Readers \ {t}
    BY <1>1, <1>6, LeaveInv, Zenon
  <2>2. CASE At(t, "excl")
    <3>1. Readers = {}
      BY <2>2, HolderFacts, Zenon DEF At
    <3>2. cnt_' = 0
      BY <1>6, <2>2, Zenon DEF At
    <3>3. Cardinality(Readers') = 0
      BY <1>3, <2>1, <3>1, Zenon
    <3> QED BY <1>2, <1>6, <3>2, <3>3 DEF Exact, queues
  <2>3. CASE At(t, "shared")
    <3>1. cnt_ >= 1 /\ t \in Readers
      BY <2>3, HolderFacts, Zenon DEF At
    <3>2. cnt_' = cnt_ - 1
      BY <1>6, <2>3, Zenon DEF At
    <3>3. Cardinality(Readers') = cnt_'
      BY <1>2, <2>1, <3>1, <3>2, Sizes
    <3> QED BY <1>2, <1>6, <3>1, <3>2, <3>3 DEF Exact, queues
  <2> QED BY <1>1, <2>2, <2>3, Zenon
<1>7. CASE Unlock(t)
  <2>1. At(t, "excl") /\ Goto(t, "idle") /\ UNCHANGED waits
    BY <1>7, Zenon DEF Unlock
  <2> QED BY <1>4, <1>5, <1>6, <1>7, <2>1 DEF Unlock
<1>8. CASE UnlockShared(t)
  <2>1. At(t, "shared") /\ Goto(t, "idle") /\ UNCHANGED waits /\ shared_queue_ = {}
    BY <1>8, HolderFacts, Zenon DEF UnlockShared, At
  <2> QED BY <1>5, <1>6, <1>8, <2>1, Zenon DEF UnlockShared
<1>9. CASE DowngradeLock(t)
  BY <1>4, <1>9 DEF DowngradeLock
<1>10. CASE UpgradeLock(t)
  <2>1. Readers' = Readers \ {t} /\ (cnt_' = -1 => Writers' = {t})
    BY <1>10, UpgradeLockInv, Zenon
  <2>2. cnt_ >= 1 /\ t \in Readers
    BY <1>10, HolderFacts, Zenon DEF UpgradeLock, At
  <2>3. UNCHANGED <<shared_cnt_, shared_queue_>> /\ cnt_' \in {cnt_ - 1, -1}
    BY <1>10, Zenon DEF UpgradeLock, WaitExclusive, queues
  <2>4. Cardinality(Readers') = cnt_ - 1
    BY <1>2, <2>1, <2>2, Sizes
  <2> QED BY <1>2, <2>1, <2>2, <2>3, <2>4 DEF Exact
<1> QED BY <1>7, <1>8, <1>9, <1>10, Zenon DEF Convert

LEMMA ExactNext == Inv /\ Exact /\ [Next]_vars => Exact'
<1> SUFFICES ASSUME Inv, Exact, [Next]_vars, signals' = 0 PROVE Exact'
  BY Zenon DEF Exact
<1>1. CASE UNCHANGED vars
  <2>1. Readers' = Readers /\ Writers' = Writers
    BY <1>1, Zenon DEF vars, queues, waits, Readers, Writers, Granted, InQueue
  <2> QED BY <1>1, <2>1, Zenon DEF vars, queues, sigs, Exact
<1>2. ASSUME NEW t \in Threads, WakeNext(t) \/ ResumeGranted(t) PROVE Exact'
  <2>1. Readers' = Readers /\ Writers' = Writers
    BY <1>2, WakeNextInv, ResumeGrantedInv, Zenon
  <2>2. UNCHANGED <<cnt_, shared_cnt_, shared_queue_, sig, signals>>
    BY <1>2, Zenon DEF WakeNext, ResumeGranted, queues, sigs
  <2> QED BY <2>1, <2>2, Zenon DEF Exact
<1>3. ASSUME NEW t \in Threads, ResumeInterrupted(t) \/ Signal(t) \/ ResetInterruptState(t)
      PROVE  FALSE
  <2>1. signals \in Nat
    BY MaxSignalsNat DEF Inv, TypeOK
  <2>2. ~Signal(t)
    BY <2>1 DEF Signal
  <2>3. signals = 0
    BY <1>3, <2>2, Zenon DEF ResumeInterrupted, ResetInterruptState, sigs
  <2> QED BY <1>3, <2>2, <2>3, Zenon DEF ResumeInterrupted, ResetInterruptState, Exact
<1> QED BY <1>1, <1>2, <1>3, ExactAcquire, ExactRelease, Zenon DEF Next, Resume

(* What sync.h:763 says of cnt_ holds until a signal interrupts a wait:    *)
(* the number of readers inside or handed the lock, or -1 and one writer.  *)
THEOREM CountsHolders == Spec => []CntIsHolders
<1>1. Init => Exact
  <2> SUFFICES ASSUME Init PROVE Exact
    BY Zenon
  <2>1. Readers = {}
    BY Zenon DEF Init, Readers, Granted
  <2> QED BY <2>1, FS_EmptySet DEF Init, Exact
<1>2. Spec => [](Inv /\ Exact)
  BY <1>1, InitInv, NextInv, ExactNext, PTL DEF Spec
<1>3. Inv /\ Exact => CntIsHolders
  <2> SUFFICES ASSUME Inv, Exact, signals = 0
               PROVE  IF cnt_ < 0 THEN cnt_ = -1 /\ Cardinality(Writers) = 1 /\ Readers = {}
                                  ELSE cnt_ = Cardinality(Readers) /\ Writers = {}
    BY Zenon DEF CntIsHolders
  <2>1. CASE cnt_ < 0
    <3>1. cnt_ = -1 /\ Readers = {} /\ Writers # {}
      BY <2>1 DEF Inv, TypeOK, CountsOK, Exact
    <3>2. PICK t \in Threads : Writers = {t}
      BY <2>1, <3>1 DEF Inv, TypeOK, CountsOK, Writers
    <3> QED BY <2>1, <3>1, <3>2, FS_Singleton, Zenon
  <2>2. CASE cnt_ >= 0
    BY <2>2 DEF Inv, TypeOK, CountsOK, Exact
  <2> QED BY <2>1, <2>2 DEF Inv, TypeOK
<1> QED BY <1>2, <1>3, PTL

-----------------------------------------------------------------------------
(* A waiting writer leaves exclusive_queue_ only from its head, in Unlock  *)
(* or UnlockShared, or by itself when a signal has interrupted its wait.   *)
THEOREM OldestWriterFirst == Spec => [][WritersInOrder]_vars
<1>1. ASSUME Inv, Next PROVE WritersInOrder
  <2> SUFFICES ASSUME NEW i \in 1..Len(exclusive_queue_)
               PROVE  \/ In(exclusive_queue_', exclusive_queue_[i]) \/ i = 1
                      \/ pc'[exclusive_queue_[i]] = "eintr"
    BY Zenon DEF WritersInOrder
  <2> DEFINE w == exclusive_queue_[i]
  <2>1. /\ exclusive_queue_ \in Seq(Threads) /\ Distinct(exclusive_queue_)
        /\ w \in Threads /\ In(exclusive_queue_, w)
    BY <1>1 DEF Inv, TypeOK, QueuesOK, Distinct, In
  <2>2. PICK t \in Threads :
            \/ Acquire(t) \/ Unlock(t) \/ UnlockShared(t) \/ Convert(t)
            \/ WakeNext(t) \/ Resume(t) \/ Signal(t) \/ ResetInterruptState(t)
    BY <1>1, Zenon DEF Next
  <2>3. CASE UNCHANGED exclusive_queue_
    BY <2>1, <2>3, Zenon
  <2>4. CASE exclusive_queue_' = Append(exclusive_queue_, t)
    BY <2>1, <2>4, AppendEntries
  <2>5. CASE exclusive_queue_ # <<>> /\ exclusive_queue_' = Tail(exclusive_queue_)
    <3>1. \A y : In(exclusive_queue_', y) <=> In(exclusive_queue_, y) /\ y # Head(exclusive_queue_)
      BY <2>1, <2>5, TailEntries, Zenon
    <3>2. i # 1 => w # Head(exclusive_queue_)
      BY <2>1 DEF Distinct
    <3> QED BY <2>1, <3>1, <3>2, Zenon
  <2>6. ASSUME NEW j \in 1..Len(exclusive_queue_), exclusive_queue_[j] = t,
               exclusive_queue_' = DeleteAt(exclusive_queue_, j), Goto(t, "eintr")
        PROVE  In(exclusive_queue_', w) \/ pc'[w] = "eintr"
    <3>1. \A y : In(exclusive_queue_', y) <=> In(exclusive_queue_, y) /\ y # t
      BY <2>1, <2>6, DeleteEntries, Zenon
    <3>2. pc'[t] = "eintr"
      BY <1>1, <2>6, Zenon DEF Goto, Inv, TypeOK
    <3> QED BY <2>1, <3>1, <3>2, Zenon
  <2>7. CASE Acquire(t)
    BY <2>3, <2>4, <2>7, Zenon DEF Acquire, Lock, TryLock, InterruptibleLock, LockShared, TryLockShared,
       InterruptibleLockShared, TakeExclusive, TakeShared, WaitExclusive, WaitShared, queues
  <2>8. CASE Unlock(t) \/ UnlockShared(t) \/ Convert(t)
    BY <2>3, <2>4, <2>5, <2>8, Zenon DEF Unlock, UnlockShared, Convert, UpgradeLock, DowngradeLock,
       WakeAllShared, WakeOneExclusive, WaitExclusive, queues
  <2>9. CASE ResumeInterrupted(t)
    BY <2>3, <2>6, <2>9, Zenon DEF ResumeInterrupted, queues
  <2>10. CASE WakeNext(t) \/ ResumeGranted(t) \/ Signal(t) \/ ResetInterruptState(t)
    BY <2>3, <2>10, Zenon DEF WakeNext, ResumeGranted, Signal, ResetInterruptState, queues
  <2> QED BY <2>2, <2>7, <2>8, <2>9, <2>10, Zenon DEF Resume
<1>2. Inv /\ [Next]_vars => [WritersInOrder]_vars
  BY <1>1, Zenon
<1> QED BY <1>2, Invariance, PTL DEF Spec

-----------------------------------------------------------------------------
(* SharedMutex implements RWLock.                                          *)

(* The abstract lock's mode, as in the refinement mapping of SharedMutex.  *)
mode == [t \in Threads |-> IF pc[t] \in Modes THEN pc[t] ELSE "none"]

(* A step that does not move a thread in or out of the lock is a stutter   *)
(* of the abstract lock.                                                   *)
LEMMA Stutter ==
    ASSUME \A t \in Threads : pc'[t] = pc[t] \/ (pc[t] \notin Modes /\ pc'[t] \notin Modes)
    PROVE  mode' = mode
BY Zenon DEF mode

(* What a step of thread t alone does to the abstract lock.                *)
LEMMA ModeStep ==
    ASSUME TypeOK, NEW t \in Threads, NEW w, Goto(t, w)
    PROVE  mode' = [mode EXCEPT ![t] = IF w \in Modes THEN w ELSE "none"]
BY Zenon DEF mode, Goto, TypeOK

LEMMA StepImplements ==
    ASSUME Inv, NEW t \in Threads,
           \/ Acquire(t) \/ Unlock(t) \/ UnlockShared(t) \/ Convert(t)
           \/ WakeNext(t) \/ Resume(t) \/ Signal(t) \/ ResetInterruptState(t)
    PROVE  RW!Next \/ mode' = mode
<1> USE DEF At
<1>1. TypeOK /\ Modes = {"shared", "excl"}
  BY Zenon DEF Inv, Modes
<1>2. ASSUME Goto(t, "excl"), pc[t] \notin Modes, cnt_ >= 0 => cnt_ = 0,
             cnt_ < 0 => Granted(t, "excl")
      PROVE  RW!AcquireExclusive(t)
  <2>1. \A u \in Threads : pc[u] \notin Modes
    <3>1. CASE cnt_ >= 0
      <4>1. Readers = {} /\ Writers = {}
        BY <1>2, <3>1, Sizes DEF Inv, TypeOK, CountsOK, Readers
      <4> QED BY <4>1, Zenon DEF Readers, Writers, Granted, Modes
    <3>2. CASE cnt_ < 0
      <4>1. Readers = {} /\ Writers = {t}
        BY <1>2, <3>2 DEF Inv, TypeOK, CountsOK, Writers
      <4> QED BY <1>2, <4>1, Zenon DEF Readers, Writers, Granted, Modes
    <3> QED BY <3>1, <3>2 DEF Inv, TypeOK
  <2> QED BY <1>1, <1>2, <2>1, ModeStep, Zenon DEF RW!AcquireExclusive, RW!NoHolder, mode
<1>3. ASSUME Goto(t, "shared"), pc[t] \notin Modes, cnt_ >= 0
      PROVE  RW!AcquireShared(t)
  <2>1. \A u \in Threads : pc[u] # "excl"
    BY <1>3, Zenon DEF Inv, CountsOK, Writers, Granted
  <2> QED BY <1>1, <1>3, <2>1, ModeStep, Zenon DEF RW!AcquireShared, RW!NoWriter, mode
<1>4. ASSUME pc[t] \in Modes, NEW w, w \notin Modes, Goto(t, w)
      PROVE  RW!Release(t)
  BY <1>1, <1>4, ModeStep, Zenon DEF RW!Release, mode
<1>5. CASE Acquire(t)
  <2>1. CASE At(t, "idle") /\ TakeExclusive(t)
    <3>1. Goto(t, "excl") /\ pc[t] \notin Modes /\ cnt_ = 0
      BY <1>1, <2>1, Zenon DEF TakeExclusive
    <3>2. RW!AcquireExclusive(t)
      BY <1>2, <3>1
    <3> QED BY <3>2, Zenon DEF RW!Next
  <2>2. CASE At(t, "idle") /\ TakeShared(t)
    <3>1. Goto(t, "shared") /\ pc[t] \notin Modes /\ cnt_ >= 0
      BY <1>1, <2>2, Zenon DEF TakeShared
    <3>2. RW!AcquireShared(t)
      BY <1>3, <3>1, Zenon
    <3> QED BY <3>2, Zenon DEF RW!Next
  <2>3. CASE At(t, "idle") /\ \E b \in BOOLEAN : WaitExclusive(t, b) \/ WaitShared(t, b)
    <3>1. pc' = [pc EXCEPT ![t] = "parked"]
      BY <2>3, Zenon DEF WaitExclusive, WaitShared, Park, Goto
    <3> QED BY <1>1, <2>3, <3>1, Stutter, Zenon DEF TypeOK
  <2>4. CASE At(t, "idle") /\ Goto(t, "eintr")
    BY <1>1, <2>4, Stutter, Zenon DEF TypeOK, Goto
  <2> QED BY <1>5, <2>1, <2>2, <2>3, <2>4, ZenonT(30) DEF Acquire, Lock, TryLock, InterruptibleLock,
             LockShared, TryLockShared, InterruptibleLockShared
<1>6. CASE Unlock(t) \/ UnlockShared(t)
  <2>1. pc[t] \in Modes /\ Goto(t, "idle")
    BY <1>1, <1>6, Zenon DEF Unlock, UnlockShared
  <2>2. "idle" \notin Modes
    BY <1>1, Zenon
  <2>3. RW!Release(t)
    BY <1>4, <2>1, <2>2, Zenon
  <2> QED BY <2>3, Zenon DEF RW!Next
<1>7. CASE UpgradeLock(t)
  <2>1. CASE WaitExclusive(t, FALSE)
    <3>1. pc[t] \in Modes /\ Goto(t, "parked") /\ "parked" \notin Modes
      BY <1>1, <1>7, <2>1, Zenon DEF UpgradeLock, WaitExclusive, Park
    <3>2. RW!Release(t)
      BY <1>4, <3>1, Zenon
    <3> QED BY <3>2, Zenon DEF RW!Next
  <2>2. CASE cnt_ = 1 /\ Goto(t, "excl")
    <3>1. Readers = {t} /\ Writers = {} /\ pc[t] = "shared"
      BY <1>7, <2>2, HolderFacts, Zenon DEF UpgradeLock
    <3>2. \A u \in Threads \ {t} : pc[u] \notin Modes
      BY <1>1, <3>1, Zenon DEF Readers, Writers, Granted
    <3>3. RW!Upgrade(t)
      BY <1>1, <2>2, <3>1, <3>2, ModeStep, Zenon DEF RW!Upgrade, mode
    <3> QED BY <3>3, Zenon DEF RW!Next
  <2> QED BY <1>7, <2>1, <2>2, Zenon DEF UpgradeLock
<1>8. CASE DowngradeLock(t)
  <2>1. RW!Downgrade(t)
    BY <1>1, <1>8, ModeStep, Zenon DEF DowngradeLock, RW!Downgrade, mode
  <2> QED BY <2>1, Zenon DEF RW!Next
<1>9. CASE WakeNext(t) \/ Signal(t)
  <2>1. \A u \in Threads : pc'[u] = pc[u] \/ (pc[u] = "parked" /\ pc'[u] = "ready")
    BY <1>1, <1>9, ZenonT(60) DEF WakeNext, Signal, TypeOK
  <2> QED BY <1>1, <2>1, Stutter, Zenon
<1>10. CASE ResumeGranted(t)
  <2>1. Granted(t, want[t]) /\ want[t] \in Modes /\ pc[t] = "ready" /\ Goto(t, want[t])
    BY <1>1, <1>10, ResumeGrantedInv, Zenon DEF ResumeGranted, TypeOK
  <2>2. CASE want[t] = "excl"
    <3>1. cnt_ < 0
      BY <2>1, <2>2 DEF Inv, TypeOK, CountsOK, Writers
    <3> QED BY <1>1, <1>2, <2>1, <2>2, <3>1 DEF Inv, TypeOK, RW!Next
  <2>3. CASE want[t] = "shared"
    <3>1. cnt_ >= 0
      BY <2>1, <2>3 DEF Inv, TypeOK, CountsOK, Readers
    <3> QED BY <1>1, <1>3, <2>1, <2>3, <3>1, Zenon DEF RW!Next
  <2> QED BY <1>1, <2>1, <2>2, <2>3, Zenon
<1>11. CASE ResumeInterrupted(t) \/ ResetInterruptState(t)
  <2>1. \A u \in Threads : pc'[u] = pc[u] \/ (pc[u] \notin Modes /\ pc'[u] \notin Modes)
    BY <1>1, <1>11, Zenon DEF ResumeInterrupted, ResetInterruptState, Goto, TypeOK
  <2> QED BY <2>1, Stutter, Zenon
<1> QED BY <1>5, <1>6, <1>7, <1>8, <1>9, <1>10, <1>11, Zenon DEF Convert, Resume

(* Every behaviour of SharedMutex, interrupted waits included, is a        *)
(* behaviour of the abstract readers-writer lock.                          *)
THEOREM Refinement == Spec => ImplementsRWLock
<1>1. Init => RW!Init
  BY Zenon DEF Init, RW!Init, Modes
<1>2. Inv /\ [Next]_vars => [RW!Next]_mode
  <2> SUFFICES ASSUME Inv, [Next]_vars PROVE RW!Next \/ mode' = mode
    BY Zenon
  <2>1. CASE UNCHANGED vars
    BY <2>1, Zenon DEF vars, mode
  <2>2. CASE Next
    BY <2>2, StepImplements, Zenon DEF Next
  <2> QED BY <2>1, <2>2, Zenon
<1> QED BY <1>1, <1>2, Invariance, PTL DEF Spec, ImplementsRWLock, RW!Spec, mode
=============================================================================
