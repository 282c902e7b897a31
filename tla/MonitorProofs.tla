--------------------------- MODULE MonitorProofs ---------------------------
(***************************************************************************)
(* Proofs about Monitor for any number of threads, any of them signalled,  *)
(* and any value of a semaphore or count of a latch.                       *)
(***************************************************************************)
EXTENDS Monitor, SequenceTheorems, FiniteSetTheorems, TLAPS

-----------------------------------------------------------------------------
(* Wait queues.  No thread is in a queue twice.                            *)
Once(q) == \A i, j \in 1..Len(q) : q[i] = q[j] => i = j

LEMMA Members ==
    ASSUME NEW S, NEW q \in Seq(S)
    PROVE  /\ \A x : x \in Linked(q) <=> \E i \in 1..Len(q) : q[i] = x
           /\ Linked(q) \subseteq S
           /\ q = <<>> <=> Linked(q) = {}
BY DEF Linked

(* Unlink takes out the one place of a thread.                             *)
RemoveAt(q, k) == SubSeq(q, 1, k - 1) \o SubSeq(q, k + 1, Len(q))

LEMMA FirstAt ==
    ASSUME NEW S, NEW q \in Seq(S), NEW e, NEW k \in 1..Len(q), q[k] = e, Once(q)
    PROVE  Unlink(q, e) = RemoveAt(q, k)
<1>1. (CHOOSE i \in 1..Len(q) : q[i] = e) = k
  BY Zenon DEF Once
<1>2. e \in Linked(q)
  BY DEF Linked
<1>3. Unlink(q, e) = RemoveAt(q, CHOOSE i \in 1..Len(q) : q[i] = e)
  BY <1>2, Zenon DEF Unlink, RemoveAt
<1> QED BY <1>1, <1>3, Zenon

(* What list_del leaves of a queue.                                        *)
LEMMA RemoveFacts ==
    ASSUME NEW S, NEW q \in Seq(S), NEW e, Once(q)
    PROVE  /\ Unlink(q, e) \in Seq(S)
           /\ Once(Unlink(q, e))
           /\ Linked(Unlink(q, e)) = Linked(q) \ {e}
<1>1. CASE \E i \in 1..Len(q) : q[i] = e
  <2>1. PICK k \in 1..Len(q) : q[k] = e
    BY <1>1, Zenon
  <2>2. Unlink(q, e) = RemoveAt(q, k)
    BY <2>1, FirstAt, Zenon
  <2> DEFINE r == RemoveAt(q, k)
  <2>3. r \in Seq(S) /\ Len(r) = Len(q) - 1 /\ \A i \in 1..Len(r) : r[i] = IF i < k THEN q[i] ELSE q[i+1]
    <3> DEFINE a == SubSeq(q, 1, k - 1)
               b == SubSeq(q, k + 1, Len(q))
    <3>1. a \in Seq(S) /\ Len(a) = k - 1 /\ \A i \in 1..(k - 1) : a[i] = q[i]
      OBVIOUS
    <3>2. b \in Seq(S) /\ Len(b) = Len(q) - k /\ \A i \in 1..(Len(q) - k) : b[i] = q[k + i]
      OBVIOUS
    <3>3. r = a \o b
      BY Zenon DEF RemoveAt
    <3> HIDE DEF a, b, r
    <3>4. r \in Seq(S) /\ Len(r) = Len(q) - 1
      BY <3>1, <3>2, <3>3
    <3>5. \A i \in 1..Len(r) : r[i] = IF i <= k - 1 THEN a[i] ELSE b[i - (k - 1)]
      BY <3>1, <3>2, <3>3, <3>4
    <3>6. ASSUME NEW i \in 1..Len(r) PROVE r[i] = IF i < k THEN q[i] ELSE q[i + 1]
      BY <3>1, <3>2, <3>4, <3>5
    <3> QED BY <3>4, <3>6, Zenon
  <2> HIDE DEF r
  <2>4. Once(r)
    <3> SUFFICES ASSUME NEW i \in 1..Len(r), NEW j \in 1..Len(r), r[i] = r[j] PROVE i = j
      BY Zenon DEF Once
    <3>1. PICK a \in 1..Len(q) : r[i] = q[a] /\ a = IF i < k THEN i ELSE i + 1
      BY <2>3
    <3>2. PICK b \in 1..Len(q) : r[j] = q[b] /\ b = IF j < k THEN j ELSE j + 1
      BY <2>3
    <3>3. a = b
      BY <3>1, <3>2, Zenon DEF Once
    <3> QED BY <3>1, <3>2, <3>3
  <2>5. Linked(r) = Linked(q) \ {e}
    <3>2. ASSUME NEW j \in 1..Len(q), j # k PROVE \E i \in 1..Len(r) : r[i] = q[j]
      <4>1. CASE j < k
        BY <2>3, <3>2, <4>1
      <4>2. CASE j > k
        <5>1. j - 1 \in 1..Len(r) /\ r[j - 1] = q[j]
          BY <2>3, <4>2
        <5> QED BY <5>1, Zenon
      <4> QED BY <3>2, <4>1, <4>2
    <3>3. ASSUME NEW i \in 1..Len(r) PROVE r[i] # e /\ \E j \in 1..Len(q) : q[j] = r[i]
      <4>1. CASE i < k
        BY <2>1, <2>3, <4>1 DEF Once
      <4>2. CASE i >= k
        <5>1. i + 1 \in 1..Len(q) /\ r[i] = q[i + 1] /\ i + 1 # k
          BY <2>3, <4>2
        <5> QED BY <2>1, <5>1, Zenon DEF Once
      <4> QED BY <2>3, <4>1, <4>2
    <3> HIDE DEF Once
    <3>4. \A x : x \in Linked(r) <=> \E i \in 1..Len(r) : r[i] = x
      BY <2>3, Members, Zenon
    <3>5. \A x : x \in Linked(q) <=> \E i \in 1..Len(q) : q[i] = x
      BY Members, Zenon
    <3>6. ASSUME NEW x PROVE x \in Linked(r) <=> x \in Linked(q) /\ x # e
      <4>1. ASSUME x \in Linked(r) PROVE x \in Linked(q) /\ x # e
        BY <3>3, <3>4, <3>5, <4>1, Zenon
      <4>2. ASSUME x \in Linked(q), x # e PROVE x \in Linked(r)
        BY <2>1, <3>2, <3>4, <3>5, <4>2, Zenon
      <4> QED BY <4>1, <4>2, Zenon
    <3> QED BY <3>6, Zenon
  <2> QED BY <2>2, <2>3, <2>4, <2>5, Zenon DEF r
<1>2. CASE ~\E i \in 1..Len(q) : q[i] = e
  <2>1. e \notin Linked(q)
    BY <1>2, Members, Zenon
  <2> QED BY <2>1, Zenon DEF Unlink
<1> QED BY <1>1, <1>2, Zenon

LEMMA AppendFacts ==
    ASSUME NEW S, NEW q \in Seq(S), Once(q), NEW e \in S, e \notin Linked(q)
    PROVE  /\ Append(q, e) \in Seq(S)
           /\ Once(Append(q, e))
           /\ Linked(Append(q, e)) = Linked(q) \cup {e}
<1> DEFINE r == Append(q, e)
<1>1. r \in Seq(S) /\ Len(r) = Len(q) + 1 /\ r[Len(q) + 1] = e /\ \A i \in 1..Len(q) : r[i] = q[i]
  OBVIOUS
<1> HIDE DEF r
<1>2. \A i \in 1..Len(q) : q[i] # e
  BY Members, Zenon
<1>3. Once(r)
  BY <1>1, <1>2 DEF Once
<1>4. \A x : x \in Linked(r) <=> \E i \in 1..Len(r) : r[i] = x
  BY <1>1, Members, Zenon
<1>5. \A x : x \in Linked(q) <=> \E i \in 1..Len(q) : q[i] = x
  BY Members, Zenon
<1>6. ASSUME NEW x PROVE x \in Linked(r) <=> x \in Linked(q) \/ x = e
  <2>1. ASSUME x \in Linked(r) PROVE x \in Linked(q) \/ x = e
    BY <1>1, <1>4, <1>5, <2>1
  <2>2. ASSUME x \in Linked(q) \/ x = e PROVE x \in Linked(r)
    BY <1>1, <1>4, <1>5, <2>2
  <2> QED BY <2>1, <2>2, Zenon
<1> QED BY <1>1, <1>3, <1>6, Zenon DEF r

(* The first n of a queue go behind another one, as Splice and Notify do.  *)
LEMMA SpliceFacts ==
    ASSUME NEW S, NEW p \in Seq(S), Once(p), NEW q \in Seq(S), Once(q),
           Linked(p) \cap Linked(q) = {}, NEW n \in 0..Len(q)
    PROVE  LET r == p \o SubSeq(q, 1, n)
               s == SubSeq(q, n + 1, Len(q)) IN
           /\ r \in Seq(S) /\ s \in Seq(S)
           /\ Once(r) /\ Once(s)
           /\ Linked(r) \cup Linked(s) = Linked(p) \cup Linked(q)
           /\ Linked(r) \cap Linked(s) = {}
           /\ Linked(p) \subseteq Linked(r)
<1> DEFINE a == SubSeq(q, 1, n)
           s == SubSeq(q, n + 1, Len(q))
           r == p \o a
<1>1. a \in Seq(S) /\ Len(a) = n /\ \A i \in 1..n : a[i] = q[i]
  OBVIOUS
<1>2. s \in Seq(S) /\ Len(s) = Len(q) - n /\ \A i \in 1..Len(s) : s[i] = q[n + i]
  OBVIOUS
<1> HIDE DEF a, s
<1>3. /\ r \in Seq(S) /\ Len(r) = Len(p) + n
      /\ \A i \in 1..Len(p) : r[i] = p[i]
      /\ \A i \in (Len(p) + 1)..Len(r) : r[i] = q[i - Len(p)]
  <2>1. r \in Seq(S) /\ Len(r) = Len(p) + n
    BY <1>1, ConcatProperties, Zenon
  <2>2. \A i \in 1..(Len(p) + n) : r[i] = IF i <= Len(p) THEN p[i] ELSE a[i - Len(p)]
    BY <1>1
  <2> HIDE DEF r
  <2>3. ASSUME NEW i \in (Len(p) + 1)..Len(r) PROVE r[i] = q[i - Len(p)]
    <3>1. i - Len(p) \in 1..n /\ i \in 1..(Len(p) + n) /\ ~(i <= Len(p))
      BY <2>1
    <3> QED BY <1>1, <2>2, <3>1, Zenon
  <2>4. ASSUME NEW i \in 1..Len(p) PROVE r[i] = p[i]
    BY <2>1, <2>2
  <2> QED BY <2>1, <2>3, <2>4, Zenon
<1> HIDE DEF r
<1>4. \A i \in 1..Len(p), j \in 1..Len(q) : p[i] # q[j]
  BY Members, Zenon
<1>5. Once(r)
  <2> SUFFICES ASSUME NEW i \in 1..Len(r), NEW j \in 1..Len(r), r[i] = r[j] PROVE i = j
    BY Zenon DEF Once
  <2>1. CASE i <= Len(p) /\ j <= Len(p)
    BY <1>3, <2>1 DEF Once
  <2>2. CASE i > Len(p) /\ j > Len(p)
    <3>1. i - Len(p) \in 1..Len(q) /\ j - Len(p) \in 1..Len(q) /\ q[i - Len(p)] = q[j - Len(p)]
      BY <1>3, <2>2
    <3>2. i - Len(p) = j - Len(p)
      BY <3>1, Zenon DEF Once
    <3>3. i \in Int /\ j \in Int /\ Len(p) \in Int
      OBVIOUS
    <3> QED BY <3>2, <3>3
  <2>3. CASE i <= Len(p) /\ j > Len(p)
    <3>1. r[i] = p[i] /\ r[j] = q[j - Len(p)] /\ i \in 1..Len(p) /\ j - Len(p) \in 1..Len(q)
      BY <1>3, <2>3
    <3> QED BY <1>4, <3>1, Zenon
  <2>4. CASE i > Len(p) /\ j <= Len(p)
    <3>1. r[j] = p[j] /\ r[i] = q[i - Len(p)] /\ j \in 1..Len(p) /\ i - Len(p) \in 1..Len(q)
      BY <1>3, <2>4
    <3> QED BY <1>4, <3>1, Zenon
  <2> QED BY <1>3, <2>1, <2>2, <2>3, <2>4
<1>6. Once(s)
  <2> SUFFICES ASSUME NEW i \in 1..Len(s), NEW j \in 1..Len(s), s[i] = s[j] PROVE i = j
    BY Zenon DEF Once
  <2>1. n + i \in 1..Len(q) /\ n + j \in 1..Len(q) /\ q[n + i] = q[n + j]
    BY <1>2
  <2> QED BY <2>1 DEF Once
<1>7. \A x : x \in Linked(p) <=> \E i \in 1..Len(p) : p[i] = x
  BY Members, Zenon
<1>8. \A x : x \in Linked(q) <=> \E i \in 1..Len(q) : q[i] = x
  BY Members, Zenon
<1>9. \A x : x \in Linked(r) <=> x \in Linked(p) \/ \E i \in 1..n : q[i] = x
  <2>1. \A x : x \in Linked(r) <=> \E i \in 1..Len(r) : r[i] = x
    BY <1>3, Members, Zenon
  <2>2. ASSUME NEW x, x \in Linked(r) PROVE x \in Linked(p) \/ \E i \in 1..n : q[i] = x
    <3>1. PICK i \in 1..Len(r) : r[i] = x
      BY <2>1, <2>2, Zenon
    <3>2. CASE i <= Len(p)
      BY <1>3, <1>7, <3>1, <3>2
    <3>3. CASE i > Len(p)
      <4>1. i - Len(p) \in 1..n /\ q[i - Len(p)] = x
        BY <1>3, <3>1, <3>3
      <4> QED BY <4>1, Zenon
    <3> QED BY <1>3, <3>2, <3>3
  <2>3. ASSUME NEW x, x \in Linked(p) PROVE x \in Linked(r)
    BY <1>3, <1>7, <2>1, <2>3
  <2>4. ASSUME NEW i \in 1..n PROVE q[i] \in Linked(r)
    <3>1. Len(p) + i \in (Len(p) + 1)..Len(r) /\ Len(p) + i \in 1..Len(r) /\ (Len(p) + i) - Len(p) = i
      BY <1>3
    <3>2. r[Len(p) + i] = q[i]
      BY <1>3, <3>1, Zenon
    <3> QED BY <2>1, <3>1, <3>2, Zenon
  <2> QED BY <2>2, <2>3, <2>4, Zenon
<1>10. \A x : x \in Linked(s) <=> \E i \in (n + 1)..Len(q) : q[i] = x
  <2>1. \A x : x \in Linked(s) <=> \E i \in 1..Len(s) : s[i] = x
    BY <1>2, Members, Zenon
  <2>2. ASSUME NEW i \in (n + 1)..Len(q) PROVE q[i] \in Linked(s)
    <3>1. i - n \in 1..Len(s) /\ s[i - n] = q[i]
      BY <1>2
    <3> QED BY <2>1, <3>1, Zenon
  <2>3. ASSUME NEW i \in 1..Len(s) PROVE \E j \in (n + 1)..Len(q) : q[j] = s[i]
    <3>1. n + i \in (n + 1)..Len(q) /\ q[n + i] = s[i]
      BY <1>2
    <3> QED BY <3>1, Zenon
  <2> QED BY <2>1, <2>2, <2>3, Zenon
<1>11. Linked(r) \cap Linked(s) = {}
  <2> SUFFICES ASSUME NEW x, x \in Linked(r), x \in Linked(s) PROVE FALSE
    BY Zenon
  <2>1. PICK j \in (n + 1)..Len(q) : q[j] = x
    BY <1>10, Zenon
  <2>2. x \notin Linked(p)
    BY <1>8, <2>1
  <2>3. PICK i \in 1..n : q[i] = x
    BY <1>9, <2>2, Zenon
  <2> QED BY <2>1, <2>3 DEF Once
<1>12. Linked(r) \cup Linked(s) = Linked(p) \cup Linked(q)
  <2>1. ASSUME NEW x, x \in Linked(q) PROVE x \in Linked(r) \cup Linked(s)
    <3>1. PICK i \in 1..Len(q) : q[i] = x
      BY <1>8, <2>1, Zenon
    <3>2. i \in 1..n \/ i \in (n + 1)..Len(q)
      OBVIOUS
    <3> QED BY <1>9, <1>10, <3>1, <3>2, Zenon
  <2>2. ASSUME NEW i \in 1..Len(q) PROVE q[i] \in Linked(q)
    BY <1>8, Zenon
  <2>3. 1..n \subseteq 1..Len(q) /\ (n + 1)..Len(q) \subseteq 1..Len(q)
    OBVIOUS
  <2>4. Linked(r) \subseteq Linked(p) \cup Linked(q)
    BY <1>9, <2>2, <2>3, Zenon
  <2>5. Linked(s) \subseteq Linked(q)
    BY <1>10, <2>2, <2>3, Zenon
  <2>6. Linked(p) \subseteq Linked(r)
    BY <1>9, Zenon
  <2> QED BY <2>1, <2>4, <2>5, <2>6, Zenon
<1> QED BY <1>2, <1>3, <1>5, <1>6, <1>9, <1>11, <1>12, Zenon DEF r, s, a
-----------------------------------------------------------------------------
(* The queues together: every thread is in one place at most.              *)
Good(Q) ==
    /\ Q \in [Queues -> Seq(Threads)]
    /\ \A q \in Queues : Once(Q[q])
    /\ \A p, q \in Queues : p # q => Linked(Q[p]) \cap Linked(Q[q]) = {}

Out(Q, q, e) == [Q EXCEPT ![q] = Unlink(@, e)]
OutOfAll(Q, e) == [q \in Queues |-> Unlink(Q[q], e)]
In(Q, q, t) == [Q EXCEPT ![q] = Append(@, t)]

LEMMA TakeOut ==
    ASSUME NEW Q, Good(Q), NEW q \in Queues, NEW e, NEW R, R = Out(Q, q, e)
    PROVE  /\ Good(R)
           /\ Linked(R[q]) = Linked(Q[q]) \ {e}
           /\ \A p \in Queues \ {q} : Linked(R[p]) = Linked(Q[p])
<1>1. Q[q] \in Seq(Threads) /\ Once(Q[q])
  BY Zenon DEF Good
<1>2. /\ Unlink(Q[q], e) \in Seq(Threads) /\ Once(Unlink(Q[q], e))
      /\ Linked(Unlink(Q[q], e)) = Linked(Q[q]) \ {e}
  BY <1>1, RemoveFacts, Zenon
<1>3. R[q] = Unlink(Q[q], e) /\ \A p \in Queues \ {q} : R[p] = Q[p]
  BY Zenon DEF Good, Out
<1>4. R \in [Queues -> Seq(Threads)]
  BY <1>2, Zenon DEF Good, Out
<1>5. Linked(R[q]) = Linked(Q[q]) \ {e} /\ \A p \in Queues \ {q} : Linked(R[p]) = Linked(Q[p])
  BY <1>2, <1>3, Zenon
<1>6. \A p \in Queues : Once(R[p])
  BY <1>2, <1>3, Zenon DEF Good
<1>7. \A o, p \in Queues : o # p => Linked(R[o]) \cap Linked(R[p]) = {}
  BY <1>5, Zenon DEF Good
<1> QED BY <1>4, <1>5, <1>6, <1>7, Zenon DEF Good

LEMMA TakeOutOfAll ==
    ASSUME NEW Q, Good(Q), NEW e, NEW R, R = OutOfAll(Q, e)
    PROVE  Good(R) /\ \A p \in Queues : Linked(R[p]) = Linked(Q[p]) \ {e}
<1>1. ASSUME NEW q \in Queues
      PROVE  R[q] \in Seq(Threads) /\ Once(R[q]) /\ Linked(R[q]) = Linked(Q[q]) \ {e}
  BY RemoveFacts DEF Good, OutOfAll
<1>2. R = [q \in Queues |-> R[q]]
  BY Zenon DEF OutOfAll
<1> QED BY <1>1, <1>2, Zenon DEF Good

LEMMA PutIn ==
    ASSUME NEW Q, Good(Q), NEW q \in Queues, NEW t \in Threads,
           \A p \in Queues : t \notin Linked(Q[p]), NEW R, R = In(Q, q, t)
    PROVE  /\ Good(R)
           /\ Linked(R[q]) = Linked(Q[q]) \cup {t}
           /\ \A p \in Queues \ {q} : Linked(R[p]) = Linked(Q[p])
<1>1. Q[q] \in Seq(Threads) /\ Once(Q[q])
  BY Zenon DEF Good
<1>2. /\ Append(Q[q], t) \in Seq(Threads) /\ Once(Append(Q[q], t))
      /\ Linked(Append(Q[q], t)) = Linked(Q[q]) \cup {t}
  BY <1>1, AppendFacts
<1>3. R[q] = Append(Q[q], t) /\ \A p \in Queues \ {q} : R[p] = Q[p]
  BY Zenon DEF Good, In
<1>4. R \in [Queues -> Seq(Threads)]
  BY <1>2, Zenon DEF Good, In
<1>5. Linked(R[q]) = Linked(Q[q]) \cup {t} /\ \A p \in Queues \ {q} : Linked(R[p]) = Linked(Q[p])
  BY <1>2, <1>3, Zenon
<1>6. \A p \in Queues : Once(R[p])
  BY <1>2, <1>3, Zenon DEF Good
<1>7. \A o, p \in Queues : o # p => Linked(R[o]) \cap Linked(R[p]) = {}
  BY <1>5 DEF Good
<1> QED BY <1>4, <1>5, <1>6, <1>7, Zenon DEF Good

LEMMA First ==
    ASSUME Assumptions, NEW q \in Seq(Threads)
    PROVE  /\ q = <<>> => WakeOne(q) = 0 /\ Linked(q) = {}
           /\ q # <<>> => WakeOne(q) \in Linked(q) /\ WakeOne(q) \in Threads
           /\ WakeOne(q) # 0 => q # <<>>
<1>1. CASE q = <<>>
  BY <1>1, Members, Zenon DEF WakeOne
<1>2. CASE q # <<>>
  <2>1. 1 \in 1..Len(q) /\ Head(q) = q[1]
    BY <1>2
  <2>2. Head(q) \in Linked(q) /\ Linked(q) \subseteq Threads
    BY <2>1, Members, Zenon
  <2> QED BY <1>2, <2>2, Zenon DEF WakeOne
<1> QED BY <1>1, <1>2, Zenon

-----------------------------------------------------------------------------
(* The threads.                                                            *)
ThType ==
    [pc : {"user", "dowait", "parked", "ready"}, holds : BOOLEAN, intr : BOOLEAN, sig : BOOLEAN,
     timer : {"off", "on", "spent"}, timeout : BOOLEAN]

LEMMA RecTakes ==
    ASSUME NEW r \in ThType
    PROVE  Takes(r) \in ThType /\ Takes(r).holds /\ Takes(r).pc = r.pc /\ Takes(r).sig = r.sig
BY Zenon DEF Takes, ThType

LEMMA RecWoken ==
    ASSUME NEW r \in ThType
    PROVE  /\ Woken(r) \in ThType /\ Woken(r).holds = r.holds /\ Woken(r).sig = r.sig
           /\ Woken(r).pc = IF r.pc = "parked" THEN "ready" ELSE r.pc
BY Zenon DEF Woken, ThType

LEMMA RecParked ==
    ASSUME NEW r \in ThType, NEW i \in BOOLEAN
    PROVE  /\ Parked(r, i) \in ThType /\ Parked(r, i).holds = r.holds /\ Parked(r, i).sig = r.sig
           /\ Parked(r, i).pc = "parked"
BY Zenon DEF Parked, ThType

LEMMA RecRunning ==
    ASSUME NEW r \in ThType
    PROVE  /\ Running(r) \in ThType /\ Running(r).holds = r.holds /\ Running(r).pc = "user"
BY Zenon DEF Running, ThType

LEMMA WakenFacts ==
    ASSUME NEW S \in [Threads -> ThType], NEW W, NEW R, R = Waken(S, W)
    PROVE  /\ R \in [Threads -> ThType]
           /\ \A t \in Threads :
                 /\ R[t].holds = S[t].holds /\ R[t].sig = S[t].sig
                 /\ R[t].pc = IF t \in W /\ S[t].pc = "parked" THEN "ready" ELSE S[t].pc
<1>1. ASSUME NEW t \in Threads
      PROVE  /\ R[t] \in ThType /\ R[t].holds = S[t].holds /\ R[t].sig = S[t].sig
             /\ R[t].pc = IF t \in W /\ S[t].pc = "parked" THEN "ready" ELSE S[t].pc
  <2>1. S[t] \in ThType /\ R[t] = IF t \in W THEN Woken(S[t]) ELSE S[t]
    BY Zenon DEF Waken
  <2> QED BY <2>1, RecWoken
<1>2. R = [t \in Threads |-> R[t]]
  BY Zenon DEF Waken
<1> QED BY <1>1, <1>2, Zenon

(* The mutex is handed to w, which is woken.                               *)
Handed(S, w, R) ==
    /\ R \in [Threads -> ThType]
    /\ \A u \in Threads :
          /\ R[u].holds <=> S[u].holds \/ u = w
          /\ R[u].sig = S[u].sig
          /\ R[u].pc = IF u = w /\ S[u].pc = "parked" THEN "ready" ELSE S[u].pc

LEMMA HandOver ==
    ASSUME NEW S \in [Threads -> ThType], NEW w \in Threads,
           NEW R, R = [Waken(S, {w}) EXCEPT ![w] = Takes(@)]
    PROVE  Handed(S, w, R)
<1> DEFINE X == Waken(S, {w})
<1>1. /\ X \in [Threads -> ThType]
      /\ \A u \in Threads :
           /\ X[u].holds = S[u].holds /\ X[u].sig = S[u].sig
           /\ X[u].pc = IF u \in {w} /\ S[u].pc = "parked" THEN "ready" ELSE S[u].pc
  BY WakenFacts
<1> HIDE DEF X
<1>2. R = [X EXCEPT ![w] = Takes(X[w])] /\ X[w] \in ThType
  BY <1>1, Zenon DEF X
<1>3. /\ Takes(X[w]) \in ThType /\ Takes(X[w]).holds /\ Takes(X[w]).pc = X[w].pc
      /\ Takes(X[w]).sig = X[w].sig
  BY <1>2, RecTakes, Zenon
<1>4. R \in [Threads -> ThType] /\ R[w] = Takes(X[w]) /\ \A u \in Threads \ {w} : R[u] = X[u]
  BY <1>1, <1>2, <1>3, ZenonT(60)
<1>5. ASSUME NEW u \in Threads
      PROVE  /\ R[u].holds <=> S[u].holds \/ u = w
             /\ R[u].sig = S[u].sig
             /\ R[u].pc = IF u = w /\ S[u].pc = "parked" THEN "ready" ELSE S[u].pc
  <2>1. CASE u = w
    BY <1>1, <1>3, <1>4, <2>1, Zenon
  <2>2. CASE u # w
    BY <1>1, <1>4, <2>2, ZenonT(60)
  <2> QED BY <2>1, <2>2, Zenon
<1> QED BY <1>4, <1>5, Zenon DEF Handed
-----------------------------------------------------------------------------
(* The inductive invariant.                                                *)

Types ==
    /\ part \in {"mutex", "sem", "latch"} /\ held \in BOOLEAN /\ bound \in BOOLEAN
    /\ value \in 0..MaxValue /\ cnt \in -1..MaxValue
    /\ th \in [Threads -> ThType]

(* A thread that is queued sleeps, or was woken by a signal and will take  *)
(* itself off the queue; one that sleeps is queued.                        *)
Waits(t) == \E q \in Queues : t \in Linked(queue[q])
Places ==
    \A t \in Threads :
        /\ Waits(t) => th[t].pc = "parked" \/ (th[t].pc = "ready" /\ th[t].sig)
        /\ th[t].pc = "parked" => Waits(t)
        /\ th[t].pc = "dowait" => th[t].holds

(* A mutex that is held has one holder.                                    *)
Owner ==
    IF held THEN \E t \in Threads : \A u \in Threads : th[u].holds <=> u = t
    ELSE \A u \in Threads : ~th[u].holds

(* Nobody queues for what is there for the taking.                         *)
Busy ==
    /\ Linked(queue["mutex"]) # {} => held
    /\ Linked(queue["sem"]) # {} => value = 0
    /\ Linked(queue["latch"]) # {} => cnt > 0

(* The latch names its serial thread when it comes down to zero.           *)
Serial ==
    /\ cnt > 0 => serial = {}
    /\ cnt = 0 => serial = {} \/ \E t \in Threads : serial = {t}

IInv == Types /\ Good(queue) /\ Places /\ Owner /\ Busy /\ UnitsConserved /\ Serial
-----------------------------------------------------------------------------
(* What the parts of the actions do.                                       *)

(* A thread that parks ends up asleep in the queue, or back in the program *)
(* with a signal.                                                          *)
Slept(t, q, Q, S) ==
    /\ Good(queue') /\ th' \in [Threads -> ThType]
    /\ \A u \in Threads \ {t} : th'[u] = S[u]
    /\ th'[t].holds = S[t].holds
    /\ \A p \in Queues \ {q} : Linked(queue'[p]) = Linked(Q[p])
    /\ \/ th'[t].pc = "user" /\ Linked(queue'[q]) = Linked(Q[q])
       \/ th'[t].pc = "parked" /\ Linked(queue'[q]) = Linked(Q[q]) \cup {t}

LEMMA ParkFacts ==
    ASSUME NEW Q, Good(Q), NEW S \in [Threads -> ThType], NEW t \in Threads, NEW q \in Queues,
           NEW i \in BOOLEAN, \A p \in Queues : t \notin Linked(Q[p]), Park(t, q, i, Q, S)
    PROVE  Slept(t, q, Q, S)
<1>1. S[t] \in ThType
  BY Zenon
<1>2. CASE i /\ S[t].sig
  <2>1. queue' = Q /\ th' = [S EXCEPT ![t] = Running(S[t])]
    BY <1>2, Zenon DEF Park
  <2> QED BY <1>1, <2>1, RecRunning, Zenon DEF Slept
<1>3. CASE ~(i /\ S[t].sig)
  <2>1. queue' = In(Q, q, t)
    BY <1>3, Zenon DEF Park, In
  <2>3. th' = [S EXCEPT ![t] = Parked(S[t], i)]
    BY <1>3, Zenon DEF Park
  <2>2. /\ Good(queue') /\ Linked(queue'[q]) = Linked(Q[q]) \cup {t}
        /\ \A p \in Queues \ {q} : Linked(queue'[p]) = Linked(Q[p])
    BY <2>1, PutIn
  <2> QED BY <1>1, <2>2, <2>3, RecParked, Zenon DEF Slept
<1> QED BY <1>2, <1>3, Zenon

(* Unlock and DoWait hand the mutex to the first waiter, if there is one.  *)
LEMMA ReleaseFacts ==
    ASSUME Assumptions, IInv, NEW t \in Threads, th[t].holds, ~Waits(t), NEW r, r = Release(t)
    PROVE  /\ held
           /\ Good(r.Q) /\ r.S \in [Threads -> ThType]
           /\ Linked(r.Q["mutex"]) = Linked(queue["mutex"]) \ {r.w}
           /\ \A p \in Queues \ {"mutex"} : Linked(r.Q[p]) = Linked(queue[p])
           /\ \/ r.w = 0 /\ Linked(queue["mutex"]) = {}
              \/ r.w \in Threads /\ r.w \in Linked(queue["mutex"]) /\ r.w # t /\ r.w # 0
           /\ \A u \in Threads :
                 /\ r.S[u].holds <=> u = r.w
                 /\ r.S[u].sig = th[u].sig
                 /\ r.S[u].pc = IF u = r.w /\ th[u].pc = "parked" THEN "ready" ELSE th[u].pc
<1> DEFINE w == WakeOne(queue["mutex"])
           S == [th EXCEPT ![t].holds = FALSE]
<1>10. r.Q = Out(queue, "mutex", w)
  BY Zenon DEF Release, Out
<1>1. /\ r.w = w
      /\ r.S = IF w = 0 THEN S ELSE [Waken(S, {w}) EXCEPT ![w] = Takes(@)]
  BY Zenon DEF Release, Out
<1>2. Good(queue) /\ "mutex" \in Queues /\ queue["mutex"] \in Seq(Threads) /\ th \in [Threads -> ThType]
  BY Zenon DEF IInv, Types, Good, Queues
<1>3. held /\ \A u \in Threads : th[u].holds <=> u = t
  BY <1>2, ZenonT(60) DEF IInv, Owner, ThType
<1>4. S \in [Threads -> ThType] /\ \A u \in Threads : S[u].pc = th[u].pc /\ S[u].sig = th[u].sig /\ ~S[u].holds
  <2>1. th[t] \in ThType
    BY <1>2, Zenon
  <2>2. [th[t] EXCEPT !.holds = FALSE] \in ThType
    BY <2>1, Zenon DEF ThType
  <2>3. S = [th EXCEPT ![t] = [th[t] EXCEPT !.holds = FALSE]]
    BY Zenon
  <2>4. /\ [th[t] EXCEPT !.holds = FALSE].pc = th[t].pc /\ [th[t] EXCEPT !.holds = FALSE].sig = th[t].sig
        /\ ~[th[t] EXCEPT !.holds = FALSE].holds
    BY <2>1, Zenon DEF ThType
  <2> HIDE DEF S
  <2>5. S[t] = [th[t] EXCEPT !.holds = FALSE] /\ \A u \in Threads \ {t} : S[u] = th[u]
    BY <1>2, <2>3, Zenon
  <2> QED BY <1>2, <1>3, <2>2, <2>3, <2>4, <2>5, Zenon
<1> HIDE DEF S
<1>5. /\ w = 0 => Linked(queue["mutex"]) = {}
      /\ w # 0 => w \in Threads /\ w \in Linked(queue["mutex"])
  BY <1>2, First, Zenon DEF Assumptions
<1>6. w # t
  BY <1>2, <1>5, Zenon DEF Waits, Assumptions
<1> HIDE DEF w
<1>11. /\ Good(r.Q) /\ Linked(r.Q["mutex"]) = Linked(queue["mutex"]) \ {w}
      /\ \A p \in Queues \ {"mutex"} : Linked(r.Q[p]) = Linked(queue[p])
  <2>1. Good(queue) /\ "mutex" \in Queues
    BY <1>2, Zenon
  <2>2. ASSUME NEW R, R = Out(queue, "mutex", w)
        PROVE  /\ Good(R) /\ Linked(R["mutex"]) = Linked(queue["mutex"]) \ {w}
               /\ \A p \in Queues \ {"mutex"} : Linked(R[p]) = Linked(queue[p])
    BY <2>1, <2>2, TakeOut
  <2> QED BY <1>10, <2>2, Zenon
<1>7. /\ Good(r.Q) /\ Linked(r.Q["mutex"]) = Linked(queue["mutex"]) \ {r.w}
      /\ \A p \in Queues \ {"mutex"} : Linked(r.Q[p]) = Linked(queue[p])
  BY <1>1, <1>11, ZenonT(60)
<1>8. CASE w = 0
  BY <1>1, <1>3, <1>4, <1>5, <1>7, <1>8 DEF Assumptions
<1>9. CASE w # 0
  <2>1. r.S = [Waken(S, {w}) EXCEPT ![w] = Takes(@)] /\ w \in Threads
    BY <1>1, <1>5, <1>9, Zenon
  <2>4. /\ r.S \in [Threads -> ThType]
        /\ \A u \in Threads :
              /\ r.S[u].holds <=> S[u].holds \/ u = w
              /\ r.S[u].sig = S[u].sig
              /\ r.S[u].pc = IF u = w /\ S[u].pc = "parked" THEN "ready" ELSE S[u].pc
    <3>1. Handed(S, w, r.S)
      BY <1>4, <2>1, HandOver, ZenonT(60)
    <3> QED BY <3>1, Zenon DEF Handed
  <2>5. ASSUME NEW u \in Threads
        PROVE  /\ r.S[u].holds <=> u = w
               /\ r.S[u].sig = th[u].sig
               /\ r.S[u].pc = IF u = w /\ th[u].pc = "parked" THEN "ready" ELSE th[u].pc
    BY <1>4, <2>4
  <2> QED BY <1>1, <1>3, <1>5, <1>6, <1>7, <1>9, <2>4, <2>5, ZenonT(60)
<1> QED BY <1>8, <1>9, Zenon
-----------------------------------------------------------------------------
(* Every action keeps the invariant.                                       *)

(* A thread in the program is in no queue.                                 *)
LEMMA InProgram ==
    ASSUME IInv, NEW t \in Threads, th[t].pc \in {"user", "dowait"}
    PROVE  ~Waits(t) /\ \A p \in Queues : t \notin Linked(queue[p])
BY Zenon DEF IInv, Places, Waits

(* Only the semaphore and the latch write what these are about.            *)
LEMMA Elsewhere ==
    ASSUME IInv, UNCHANGED <<part, value, cnt, spare, serial>>, bound' \in BOOLEAN, held' \in BOOLEAN,
           th' \in [Threads -> ThType]
    PROVE  Types' /\ UnitsConserved' /\ Serial'
BY Zenon DEF IInv, Types, UnitsConserved, Serial

LEMMA LockKeeps ==
    ASSUME IInv, NEW t \in Threads, NEW try \in BOOLEAN, NEW i \in BOOLEAN, Lock(t, try, i)
    PROVE  IInv'
<1>1. /\ th \in [Threads -> ThType] /\ th[t] \in ThType /\ Good(queue) /\ held \in BOOLEAN
      /\ bound' \in BOOLEAN /\ th[t].pc = "user" /\ ~th[t].holds
      /\ UNCHANGED <<part, bound, value, cnt, spare, serial>>
  BY Zenon DEF IInv, Types, Lock
<1>2. ~Waits(t) /\ \A p \in Queues : t \notin Linked(queue[p])
  BY <1>1, InProgram, Zenon
<1>3. CASE ~held
  <2>1. held' = TRUE /\ th' = [th EXCEPT ![t] = Takes(th[t])] /\ queue' = queue
    BY <1>3, Zenon DEF Lock
  <2>2. /\ th' \in [Threads -> ThType] /\ th'[t].holds /\ th'[t].pc = th[t].pc /\ th'[t].sig = th[t].sig
        /\ \A u \in Threads \ {t} : th'[u] = th[u]
    BY <1>1, <2>1, RecTakes, Zenon
  <2>3. Types' /\ UnitsConserved' /\ Serial'
    BY <1>1, <2>1, <2>2, Elsewhere, Zenon
  <2>4. Owner'
    BY <1>3, <2>1, <2>2, Zenon DEF IInv, Owner
  <2>5. Places'
    BY <1>1, <1>2, <2>1, <2>2, Zenon DEF IInv, Places, Waits
  <2>6. Busy'
    BY <1>1, <2>1, Zenon DEF IInv, Busy
  <2> QED BY <1>1, <2>1, <2>3, <2>4, <2>5, <2>6, ZenonT(60) DEF IInv
<1>4. CASE held /\ try
  <2>1. UNCHANGED <<held, queue, th>>
    BY <1>4, Zenon DEF Lock
  <2> QED BY <1>1, <2>1, Zenon DEF IInv, Types, Places, Waits, Owner, Busy, UnitsConserved, Serial
<1>5. CASE held /\ ~try
  <2>1. held' = held /\ Park(t, "mutex", i, queue, th) /\ "mutex" \in Queues
    BY <1>5, Zenon DEF Lock, Queues
  <2>2. /\ Good(queue') /\ th' \in [Threads -> ThType]
        /\ \A u \in Threads \ {t} : th'[u] = th[u]
        /\ th'[t].holds = th[t].holds
        /\ \A p \in Queues \ {"mutex"} : Linked(queue'[p]) = Linked(queue[p])
        /\ \/ th'[t].pc = "user" /\ Linked(queue'["mutex"]) = Linked(queue["mutex"])
           \/ th'[t].pc = "parked" /\ Linked(queue'["mutex"]) = Linked(queue["mutex"]) \cup {t}
    <3>1. Slept(t, "mutex", queue, th)
      BY <1>1, <1>2, <2>1, ParkFacts, Zenon
    <3> QED BY <3>1, Zenon DEF Slept
  <2>3. Types' /\ UnitsConserved' /\ Serial'
    BY <1>1, <2>1, <2>2, Elsewhere, Zenon
  <2>4. Owner'
    <3>1. \A u \in Threads : th'[u].holds = th[u].holds
      BY <2>2, Zenon
    <3> QED BY <2>1, <3>1, Zenon DEF IInv, Owner
  <2>5. Places'
    BY <1>1, <1>2, <2>1, <2>2 DEF IInv, Places, Waits
  <2>6. Busy'
    BY <1>1, <1>5, <2>1, <2>2, Zenon DEF IInv, Busy, Queues
  <2> QED BY <2>2, <2>3, <2>4, <2>5, <2>6, Zenon DEF IInv
<1> QED BY <1>1, <1>3, <1>4, <1>5, Zenon

LEMMA UnlockKeeps ==
    ASSUME Assumptions, IInv, NEW t \in Threads, Unlock(t)
    PROVE  IInv'
<1> DEFINE r == Release(t)
<1>1. /\ th[t].pc = "user" /\ th[t].holds /\ held' = (r.w # 0) /\ queue' = r.Q /\ th' = r.S
      /\ UNCHANGED <<part, bound, value, cnt, spare, serial>> /\ bound' \in BOOLEAN
  BY Zenon DEF Unlock, HeldAfter, IInv, Types
<1>2. ~Waits(t)
  BY <1>1, InProgram, Zenon
<1> HIDE DEF r
<1>3. /\ Good(queue') /\ th' \in [Threads -> ThType]
      /\ Linked(queue'["mutex"]) = Linked(queue["mutex"]) \ {r.w}
      /\ \A p \in Queues \ {"mutex"} : Linked(queue'[p]) = Linked(queue[p])
      /\ \/ r.w = 0 /\ Linked(queue["mutex"]) = {}
         \/ r.w \in Threads /\ r.w \in Linked(queue["mutex"]) /\ r.w # t /\ r.w # 0
      /\ \A u \in Threads :
            /\ th'[u].holds <=> u = r.w
            /\ th'[u].sig = th[u].sig
            /\ th'[u].pc = IF u = r.w /\ th[u].pc = "parked" THEN "ready" ELSE th[u].pc
  BY <1>1, <1>2, ReleaseFacts DEF r
<1>4. Types' /\ UnitsConserved' /\ Serial'
  BY <1>1, <1>3, Elsewhere, Zenon
<1>5. Owner'
  <2>1. CASE r.w = 0
    <3>1. \A u \in Threads : ~th'[u].holds
      BY <1>3, <2>1, Zenon DEF Assumptions
    <3> QED BY <1>1, <2>1, <3>1, Zenon DEF Owner
  <2>2. CASE r.w \in Threads /\ r.w # 0
    BY <1>1, <1>3, <2>2, ZenonT(60) DEF Owner
  <2> QED BY <1>3, <2>1, <2>2, Zenon
<1>6. Busy'
  BY <1>1, <1>3, Zenon DEF IInv, Busy, Queues
<1>7. Places'
  <2>1. \A u \in Threads : th[u].holds => u = t
    BY <1>1, Zenon DEF IInv, Owner
  <2>2. ASSUME NEW u \in Threads, u = r.w
        PROVE  (\A q \in Queues : u \notin Linked(queue'[q])) /\ th'[u].pc = "ready"
    <3>1. u \in Linked(queue["mutex"]) /\ Waits(u)
      BY <1>3, <2>2, Zenon DEF Waits, Queues, Assumptions
    <3>2. th[u].pc \in {"parked", "ready"}
      BY <3>1, Zenon DEF IInv, Places
    <3>3. \A q \in Queues \ {"mutex"} : u \notin Linked(queue[q])
      BY <3>1, Zenon DEF IInv, Good, Queues
    <3> QED BY <1>3, <2>2, <3>2, <3>3, Zenon
  <2>3. ASSUME NEW u \in Threads, u # r.w
        PROVE  /\ th'[u].pc = th[u].pc /\ th'[u].sig = th[u].sig
               /\ \A q \in Queues : u \in Linked(queue'[q]) <=> u \in Linked(queue[q])
    BY <1>3, <2>3, Zenon
  <2>4. ASSUME NEW u \in Threads
        PROVE  /\ (\E q \in Queues : u \in Linked(queue'[q])) =>
                      th'[u].pc = "parked" \/ (th'[u].pc = "ready" /\ th'[u].sig)
               /\ th'[u].pc = "parked" => \E q \in Queues : u \in Linked(queue'[q])
               /\ th'[u].pc # "dowait"
    BY <1>1, <2>1, <2>2, <2>3 DEF IInv, Places, Waits
  <2> QED BY <2>4, Zenon DEF Places, Waits
<1> QED BY <1>3, <1>4, <1>5, <1>6, <1>7, Zenon DEF IInv
LEMMA StartWaitKeeps ==
    ASSUME IInv, NEW t \in Threads, NEW timed \in BOOLEAN, NEW i \in BOOLEAN, StartWait(t, timed, i)
    PROVE  IInv'
<1> DEFINE s == [th[t] EXCEPT !.pc = "dowait", !.timer = IF timed THEN "on" ELSE "off",
                              !.timeout = FALSE, !.intr = i]
<1>1. /\ th[t].pc = "user" /\ th[t].holds /\ bound' = TRUE /\ th' = [th EXCEPT ![t] = s]
      /\ UNCHANGED <<part, held, queue, value, cnt, spare, serial>>
  BY Zenon DEF StartWait
<1>2. th \in [Threads -> ThType] /\ th[t] \in ThType /\ Good(queue) /\ held \in BOOLEAN
  BY Zenon DEF IInv, Types
<1>3. ~Waits(t) /\ \A p \in Queues : t \notin Linked(queue[p])
  BY <1>1, InProgram, Zenon
<1>4. s \in ThType /\ s.pc = "dowait" /\ s.holds
  BY <1>1, <1>2, Zenon DEF ThType
<1> HIDE DEF s
<1>5. th' \in [Threads -> ThType] /\ th'[t] = s /\ \A u \in Threads \ {t} : th'[u] = th[u]
  BY <1>1, <1>2, <1>4, Zenon
<1>6. Types' /\ UnitsConserved' /\ Serial'
  BY <1>1, <1>2, <1>5, Elsewhere, Zenon
<1>7. \A u \in Threads : th'[u].holds = th[u].holds
  BY <1>1, <1>2, <1>4, <1>5, Zenon DEF ThType
<1>8. Owner'
  BY <1>1, <1>7, ZenonT(60) DEF IInv, Owner
<1>9. Busy'
  BY <1>1, Zenon DEF IInv, Busy
<1>10. Places'
  BY <1>1, <1>3, <1>4, <1>5, Zenon DEF IInv, Places, Waits
<1> QED BY <1>1, <1>2, <1>6, <1>8, <1>9, <1>10, ZenonT(60) DEF IInv

LEMMA DoWaitKeeps ==
    ASSUME Assumptions, IInv, NEW t \in Threads, DoWait(t)
    PROVE  IInv'
<1> DEFINE r == Release(t)
<1>1. /\ th[t].pc = "dowait" /\ held' = (r.w # 0) /\ Park(t, "cond", th[t].intr, r.Q, r.S)
      /\ UNCHANGED <<part, bound, value, cnt, spare, serial>>
  BY Zenon DEF DoWait, HeldAfter
<1>2. bound' \in BOOLEAN /\ th[t].intr \in BOOLEAN /\ "cond" \in Queues /\ th[t].holds
  BY <1>1, Zenon DEF IInv, Types, ThType, Queues, Places
<1>3. ~Waits(t) /\ \A p \in Queues : t \notin Linked(queue[p])
  BY <1>1, InProgram, ZenonT(60)
<1> HIDE DEF r
<1>4. /\ Good(r.Q) /\ r.S \in [Threads -> ThType]
      /\ Linked(r.Q["mutex"]) = Linked(queue["mutex"]) \ {r.w}
      /\ \A p \in Queues \ {"mutex"} : Linked(r.Q[p]) = Linked(queue[p])
      /\ \/ r.w = 0 /\ Linked(queue["mutex"]) = {}
         \/ r.w \in Threads /\ r.w \in Linked(queue["mutex"]) /\ r.w # t /\ r.w # 0
      /\ \A u \in Threads :
            /\ r.S[u].holds <=> u = r.w
            /\ r.S[u].sig = th[u].sig
            /\ r.S[u].pc = IF u = r.w /\ th[u].pc = "parked" THEN "ready" ELSE th[u].pc
  BY <1>2, <1>3, ReleaseFacts DEF r
<1>5. \A p \in Queues : t \notin Linked(r.Q[p])
  BY <1>3, <1>4, Zenon
<1>6. /\ Good(queue') /\ th' \in [Threads -> ThType]
      /\ \A u \in Threads \ {t} : th'[u] = r.S[u]
      /\ th'[t].holds = r.S[t].holds
      /\ \A p \in Queues \ {"cond"} : Linked(queue'[p]) = Linked(r.Q[p])
      /\ \/ th'[t].pc = "user" /\ Linked(queue'["cond"]) = Linked(r.Q["cond"])
         \/ th'[t].pc = "parked" /\ Linked(queue'["cond"]) = Linked(r.Q["cond"]) \cup {t}
  <2>1. Good(r.Q) /\ r.S \in [Threads -> ThType]
    BY <1>4, Zenon
  <2>2. Park(t, "cond", th[t].intr, r.Q, r.S)
    BY <1>1, Zenon
  <2>3. Slept(t, "cond", r.Q, r.S)
    BY <1>2, <1>5, <2>1, <2>2, ParkFacts, Zenon
  <2> QED BY <2>3, Zenon DEF Slept
<1>7. Types' /\ UnitsConserved' /\ Serial'
  BY <1>1, <1>2, <1>6, Elsewhere, Zenon
<1>8. Owner'
  <2>1. \A u \in Threads : th'[u].holds <=> u = r.w
    BY <1>4, <1>6, ZenonT(60)
  <2>2. CASE r.w = 0
    <3>1. \A u \in Threads : ~th'[u].holds
      BY <2>1, <2>2, Zenon DEF Assumptions
    <3> QED BY <1>1, <2>2, <3>1, Zenon DEF Owner
  <2>3. CASE r.w \in Threads /\ r.w # 0
    BY <1>1, <2>1, <2>3, Zenon DEF Owner
  <2> QED BY <1>4, <2>2, <2>3, Zenon
<1>9. Busy'
  <2>1. Linked(queue'["mutex"]) # {} => held'
    BY <1>1, <1>4, <1>6, Zenon DEF Queues
  <2>2. Linked(queue'["sem"]) = Linked(queue["sem"]) /\ Linked(queue'["latch"]) = Linked(queue["latch"])
    BY <1>4, <1>6, ZenonT(60) DEF Queues
  <2> QED BY <1>1, <2>1, <2>2, Zenon DEF IInv, Busy
<1>10. Places'
  <2>1. \A u \in Threads : th[u].holds => u = t
    BY <1>2, Zenon DEF IInv, Owner
  <2>2. ASSUME NEW u \in Threads, u = r.w
        PROVE  (\A q \in Queues : u \notin Linked(queue'[q])) /\ th'[u].pc = "ready"
    <3>1. u \in Linked(queue["mutex"]) /\ Waits(u) /\ u # t
      BY <1>4, <2>2, Zenon DEF Waits, Queues, Assumptions
    <3>2. th[u].pc \in {"parked", "ready"}
      BY <3>1, Zenon DEF IInv, Places
    <3>3. \A q \in Queues \ {"mutex"} : u \notin Linked(queue[q])
      BY <3>1, Zenon DEF IInv, Good, Queues
    <3>4. \A q \in Queues : u \notin Linked(r.Q[q])
      BY <1>4, <2>2, <3>3, ZenonT(60)
    <3> QED BY <1>4, <1>6, <2>2, <3>1, <3>2, <3>4
  <2>3. ASSUME NEW u \in Threads, u # r.w, u # t
        PROVE  /\ th'[u].pc = th[u].pc /\ th'[u].sig = th[u].sig
               /\ \A q \in Queues : u \in Linked(queue'[q]) <=> u \in Linked(queue[q])
    BY <1>4, <1>6, <2>3
  <2>4. \/ th'[t].pc = "user" /\ \A q \in Queues : t \notin Linked(queue'[q])
        \/ th'[t].pc = "parked" /\ \E q \in Queues : t \in Linked(queue'[q])
    BY <1>2, <1>5, <1>6, ZenonT(60)
  <2>5. ASSUME NEW u \in Threads
        PROVE  /\ (\E q \in Queues : u \in Linked(queue'[q])) =>
                      th'[u].pc = "parked" \/ (th'[u].pc = "ready" /\ th'[u].sig)
               /\ th'[u].pc = "parked" => \E q \in Queues : u \in Linked(queue'[q])
               /\ th'[u].pc # "dowait"
    BY <2>1, <2>2, <2>3, <2>4 DEF IInv, Places, Waits
  <2> QED BY <2>5, Zenon DEF Places, Waits
<1> QED BY <1>6, <1>7, <1>8, <1>9, <1>10, Zenon DEF IInv

LEMMA NotifyKeeps ==
    ASSUME Assumptions, IInv, NEW t \in Threads, NEW all \in BOOLEAN, Notify(t, all)
    PROVE  IInv'
<1> DEFINE c == queue["cond"]
           m == queue["mutex"]
           n == IF all \/ Len(c) = 0 THEN Len(c) ELSE 1
           q == m \o SubSeq(c, 1, n)
           rest == SubSeq(c, n + 1, Len(c))
           w == IF held THEN 0 ELSE WakeOne(q)
           left == Unlink(q, w)
<1>1. /\ held' = (held \/ w # 0) /\ queue' = [queue EXCEPT !["cond"] = rest, !["mutex"] = left]
      /\ th' = IF w = 0 THEN th ELSE [Waken(th, {w}) EXCEPT ![w] = Takes(@)]
      /\ UNCHANGED <<part, bound, value, cnt, spare, serial>>
  BY Zenon DEF Notify, Notified
<1>2. /\ Good(queue) /\ th \in [Threads -> ThType] /\ held \in BOOLEAN /\ bound' \in BOOLEAN
      /\ queue \in [Queues -> Seq(Threads)] /\ "mutex" \in Queues /\ "cond" \in Queues
      /\ m \in Seq(Threads) /\ c \in Seq(Threads) /\ Once(m) /\ Once(c) /\ Linked(m) \cap Linked(c) = {}
  BY <1>1, Zenon DEF IInv, Types, Good, Queues
<1>3. n \in 0..Len(c)
  BY <1>2
<1> HIDE DEF n
<1>4. /\ q \in Seq(Threads) /\ rest \in Seq(Threads) /\ Once(q) /\ Once(rest)
      /\ Linked(q) \cup Linked(rest) = Linked(m) \cup Linked(c) /\ Linked(q) \cap Linked(rest) = {}
      /\ Linked(m) \subseteq Linked(q)
  BY <1>2, <1>3, SpliceFacts
<1> HIDE DEF q, rest
<1>5. /\ left \in Seq(Threads) /\ Once(left) /\ Linked(left) = Linked(q) \ {w}
  BY <1>4, RemoveFacts, Zenon
<1>6. /\ w = 0 => held \/ Linked(q) = {}
      /\ w # 0 => ~held /\ w \in Threads /\ w \in Linked(q)
  BY <1>4, First, Zenon DEF Assumptions
<1> HIDE DEF w, left, c, m
<1>7. /\ queue' \in [Queues -> Seq(Threads)] /\ queue'["mutex"] = left /\ queue'["cond"] = rest
      /\ \A p \in Queues \ {"mutex", "cond"} : queue'[p] = queue[p]
  BY <1>1, <1>2, <1>4, <1>5, Zenon
<1>8. \A p \in Queues \ {"mutex", "cond"} : Linked(queue[p]) \cap Linked(m) = {} /\ Linked(queue[p]) \cap Linked(c) = {}
  BY <1>2, Zenon DEF Good, m, c
<1>9. Good(queue')
  <2>1. \A p \in Queues : Once(queue'[p])
    BY <1>2, <1>4, <1>5, <1>7, Zenon DEF Good
  <2>2. Linked(left) \cap Linked(rest) = {}
    BY <1>4, <1>5, Zenon
  <2>3. \A p \in Queues \ {"mutex", "cond"} : Linked(queue'[p]) \cap Linked(left) = {} /\ Linked(queue'[p]) \cap Linked(rest) = {}
    BY <1>4, <1>5, <1>7, <1>8, ZenonT(60)
  <2>4. \A o, p \in Queues \ {"mutex", "cond"} : o # p => Linked(queue'[o]) \cap Linked(queue'[p]) = {}
    BY <1>2, <1>7, Zenon DEF Good
  <2>5. ASSUME NEW o \in Queues, NEW p \in Queues, o # p PROVE Linked(queue'[o]) \cap Linked(queue'[p]) = {}
    BY <1>7, <2>2, <2>3, <2>4, <2>5, ZenonT(60)
  <2> QED BY <1>7, <2>1, <2>5, Zenon DEF Good
<1>10. ASSUME NEW u \in Threads
       PROVE  (\E p \in Queues : u \in Linked(queue'[p])) <=> (\E p \in Queues : u \in Linked(queue[p])) /\ u # w
  <2>1. (\E p \in Queues : u \in Linked(queue'[p])) <=>
            u \in Linked(left) \cup Linked(rest) \/ \E p \in Queues \ {"mutex", "cond"} : u \in Linked(queue[p])
    BY <1>2, <1>7, Zenon
  <2>2. (\E p \in Queues : u \in Linked(queue[p])) <=>
            u \in Linked(m) \cup Linked(c) \/ \E p \in Queues \ {"mutex", "cond"} : u \in Linked(queue[p])
    BY <1>2, Zenon DEF m, c
  <2>3. u \in Linked(left) \cup Linked(rest) <=> u \in Linked(m) \cup Linked(c) /\ u # w
    BY <1>4, <1>5, <1>6, Zenon DEF Assumptions
  <2>4. u = w => u \in Linked(m) \cup Linked(c)
    BY <1>4, <1>6, Zenon DEF Assumptions
  <2>5. u = w => ~ \E p \in Queues \ {"mutex", "cond"} : u \in Linked(queue[p])
    BY <1>8, <2>4, Zenon
  <2> QED BY <2>1, <2>2, <2>3, <2>5, ZenonT(60)
<1>11. /\ th' \in [Threads -> ThType]
       /\ \A u \in Threads :
            /\ th'[u].holds <=> th[u].holds \/ u = w
            /\ th'[u].sig = th[u].sig
            /\ th'[u].pc = IF u = w /\ th[u].pc = "parked" THEN "ready" ELSE th[u].pc
  <2>1. CASE w = 0
    BY <1>1, <1>2, <2>1, Zenon DEF Assumptions
  <2>2. CASE w # 0
    <3>1. th' = [Waken(th, {w}) EXCEPT ![w] = Takes(@)] /\ w \in Threads /\ th \in [Threads -> ThType]
      BY <1>1, <1>2, <1>6, <2>2, Zenon
    <3>2. Handed(th, w, th')
      BY <3>1, HandOver, Zenon
    <3> QED BY <3>2, Zenon DEF Handed
  <2> QED BY <2>1, <2>2, Zenon
<1>12. Types' /\ UnitsConserved' /\ Serial'
  <2>1. held' \in BOOLEAN
    BY <1>1, <1>2, Zenon
  <2> QED BY <1>1, <1>2, <1>11, <2>1, Elsewhere, ZenonT(60)
<1>13. Owner'
  <2>1. CASE w = 0
    <3>1. held' = held /\ \A u \in Threads : th'[u].holds <=> th[u].holds
      BY <1>1, <1>2, <1>11, <2>1, ZenonT(60) DEF Assumptions
    <3> QED BY <3>1, Zenon DEF IInv, Owner
  <2>2. CASE w # 0
    <3>1. held' /\ w \in Threads /\ \A u \in Threads : th'[u].holds <=> u = w
      BY <1>1, <1>6, <1>11, <2>2, ZenonT(60) DEF IInv, Owner
    <3> QED BY <3>1, Zenon DEF Owner
  <2> QED BY <2>1, <2>2, Zenon
<1>14. Busy'
  <2>1. Linked(queue'["mutex"]) # {} => held'
    BY <1>1, <1>5, <1>6, <1>7, ZenonT(60)
  <2>2. Linked(queue'["sem"]) = Linked(queue["sem"]) /\ Linked(queue'["latch"]) = Linked(queue["latch"])
    BY <1>7, Zenon DEF Queues
  <2> QED BY <1>1, <2>1, <2>2, Zenon DEF IInv, Busy
<1>15. Places'
  <2>1. ASSUME NEW u \in Threads
        PROVE  /\ (\E p \in Queues : u \in Linked(queue'[p])) =>
                      th'[u].pc = "parked" \/ (th'[u].pc = "ready" /\ th'[u].sig)
               /\ th'[u].pc = "parked" => \E p \in Queues : u \in Linked(queue'[p])
               /\ th'[u].pc = "dowait" => th'[u].holds
    BY <1>10, <1>11, Zenon DEF IInv, Places, Waits
  <2> QED BY <2>1, Zenon DEF Places, Waits
<1> QED BY <1>9, <1>12, <1>13, <1>14, <1>15, ZenonT(60) DEF IInv

(* IsIn finds the one queue a thread is in.                                *)
LEMMA Where ==
    ASSUME NEW t \in Threads
    PROVE  \/ IsIn(t) = "none" /\ ~Waits(t) /\ \A p \in Queues : t \notin Linked(queue[p])
           \/ IsIn(t) \in Queues /\ t \in Linked(queue[IsIn(t)]) /\ Waits(t)
<1> DEFINE At(q) == IF q = "none" THEN \A p \in Queues : t \notin Linked(queue[p]) ELSE t \in Linked(queue[q])
<1>1. \E q \in Queues \cup {"none"} : At(q)
  BY Zenon DEF Queues
<1>2. IsIn(t) \in Queues \cup {"none"} /\ At(IsIn(t))
  BY <1>1, Zenon DEF IsIn
<1> QED BY <1>2, Zenon DEF Waits, Queues

LEMMA TimeoutKeeps ==
    ASSUME Assumptions, IInv, NEW t \in Threads, Timeout(t)
    PROVE  IInv'
<1> DEFINE S == [th EXCEPT ![t].timer = "spent"]
           s == [th[t] EXCEPT !.timer = "spent"]
           Q == OutOfAll(queue, t)
<1>1. /\ UNCHANGED <<part, bound, value, cnt, spare, serial>> /\ bound' \in BOOLEAN /\ held \in BOOLEAN
      /\ th \in [Threads -> ThType] /\ th[t] \in ThType /\ Good(queue) /\ "mutex" \in Queues
  BY Zenon DEF Timeout, IInv, Types, Queues
<1>2. s \in ThType /\ s.pc = th[t].pc /\ s.holds = th[t].holds /\ s.sig = th[t].sig
  BY <1>1, Zenon DEF ThType
<1>3. S \in [Threads -> ThType] /\ S[t] = s /\ \A u \in Threads \ {t} : S[u] = th[u]
  <2>1. S = [th EXCEPT ![t] = s]
    BY Zenon
  <2> HIDE DEF S, s
  <2> QED BY <1>1, <1>2, <2>1, Zenon
<1>4. Good(Q) /\ \A p \in Queues : Linked(Q[p]) = Linked(queue[p]) \ {t}
  BY <1>1, TakeOutOfAll
<1>5. CASE IsIn(t) = "none"
  <2>1. th' = S /\ UNCHANGED <<held, queue>>
    BY <1>5, Zenon DEF Timeout
  <2> HIDE DEF S, s
  <2>2. /\ th' \in [Threads -> ThType]
        /\ \A u \in Threads : th'[u].pc = th[u].pc /\ th'[u].holds = th[u].holds /\ th'[u].sig = th[u].sig
    BY <1>2, <1>3, <2>1, Zenon
  <2>3. Types' /\ UnitsConserved' /\ Serial'
    BY <1>1, <2>1, <2>2, Elsewhere, ZenonT(60)
  <2>4. Places'
    BY <2>1, <2>2, ZenonT(60) DEF IInv, Places, Waits
  <2>5. Owner'
    <3>1. UNCHANGED held
      BY <2>1, Zenon
    <3> QED BY <1>1, <2>2, <3>1 DEF IInv, Owner
  <2>6. Good(queue') /\ Busy'
    BY <1>1, <2>1, ZenonT(60) DEF IInv, Busy
  <2> QED BY <2>3, <2>4, <2>5, <2>6, Zenon DEF IInv
<1>6. CASE IsIn(t) # "none" /\ held
  <2>1. /\ th' = [S EXCEPT ![t].timeout = TRUE] /\ held' = held
        /\ queue' = In(Q, "mutex", t)
    BY <1>6, Zenon DEF Timeout, In, OutOfAll
  <2>2. Waits(t)
    BY <1>6, Where, Zenon
  <2>3. /\ [s EXCEPT !.timeout = TRUE] \in ThType /\ [s EXCEPT !.timeout = TRUE].pc = s.pc
        /\ [s EXCEPT !.timeout = TRUE].holds = s.holds /\ [s EXCEPT !.timeout = TRUE].sig = s.sig
    BY <1>2, Zenon DEF ThType
  <2> HIDE DEF S, s, Q
  <2>4. th' = [S EXCEPT ![t] = [s EXCEPT !.timeout = TRUE]]
    BY <1>3, <2>1, Zenon
  <2>5. /\ th' \in [Threads -> ThType]
        /\ \A u \in Threads : th'[u].pc = th[u].pc /\ th'[u].holds = th[u].holds /\ th'[u].sig = th[u].sig
    BY <1>2, <1>3, <2>3, <2>4, Zenon
  <2>6. /\ Good(queue') /\ Linked(queue'["mutex"]) = Linked(Q["mutex"]) \cup {t}
        /\ \A p \in Queues \ {"mutex"} : Linked(queue'[p]) = Linked(Q[p])
    <3>1. \A p \in Queues : t \notin Linked(Q[p])
      BY <1>4, Zenon
    <3>2. queue' = In(Q, "mutex", t)
      BY <2>1, Zenon
    <3>3. Good(Q) /\ "mutex" \in Queues
      BY <1>1, <1>4, Zenon
    <3> QED BY <3>1, <3>2, <3>3, PutIn
  <2>7. ASSUME NEW u \in Threads
        PROVE  (\E p \in Queues : u \in Linked(queue'[p])) <=> (\E p \in Queues : u \in Linked(queue[p]))
    BY <1>1, <1>4, <2>2, <2>6, ZenonT(60) DEF Waits
  <2>8. Types' /\ UnitsConserved' /\ Serial'
    BY <1>1, <2>1, <2>5, Elsewhere, Zenon
  <2>9. Places'
    BY <2>5, <2>7, ZenonT(60) DEF IInv, Places, Waits
  <2>10. Owner'
    BY <2>1, <2>5 DEF IInv, Owner
  <2>11. Busy'
    <3>1. Linked(queue'["sem"]) \subseteq Linked(queue["sem"]) /\ Linked(queue'["latch"]) \subseteq Linked(queue["latch"])
      BY <1>4, <2>6, Zenon DEF Queues
    <3> QED BY <1>1, <1>6, <2>1, <3>1, ZenonT(60) DEF IInv, Busy
  <2> QED BY <2>6, <2>8, <2>9, <2>10, <2>11, ZenonT(60) DEF IInv
<1>7. CASE IsIn(t) # "none" /\ ~held
  <2> DEFINE y == [Takes(s) EXCEPT !.timeout = TRUE]
             Y == [S EXCEPT ![t] = y]
  <2>1. th' = Waken(Y, {t}) /\ held' = TRUE /\ queue' = Q
    BY <1>3, <1>7, Zenon DEF Timeout, OutOfAll
  <2>2. Waits(t)
    BY <1>7, Where, Zenon
  <2>3. y \in ThType /\ y.pc = s.pc /\ y.holds /\ y.sig = s.sig
    BY <1>2, Zenon DEF ThType, Takes
  <2> HIDE DEF S, s, Q, y
  <2>4. Y \in [Threads -> ThType] /\ Y[t] = y /\ \A u \in Threads \ {t} : Y[u] = th[u]
    BY <1>3, <2>3, ZenonT(60)
  <2> HIDE DEF Y
  <2>5. /\ th' \in [Threads -> ThType]
        /\ \A u \in Threads :
             /\ th'[u].holds = Y[u].holds /\ th'[u].sig = Y[u].sig
             /\ th'[u].pc = IF u \in {t} /\ Y[u].pc = "parked" THEN "ready" ELSE Y[u].pc
    BY <2>1, <2>4, WakenFacts
  <2>6. /\ \A u \in Threads : th'[u].holds <=> u = t
        /\ th'[t].pc = "ready" /\ \A u \in Threads \ {t} : th'[u].pc = th[u].pc /\ th'[u].sig = th[u].sig
    <3>1. th[t].pc \in {"parked", "ready"}
      BY <2>2, Zenon DEF IInv, Places
    <3> QED BY <1>2, <1>7, <2>3, <2>4, <2>5, <3>1 DEF IInv, Owner
  <2>7. Types' /\ UnitsConserved' /\ Serial'
    BY <1>1, <2>1, <2>5, Elsewhere, ZenonT(60)
  <2>8. Places'
    <3>1. ASSUME NEW u \in Threads \ {t}
          PROVE  (\E p \in Queues : u \in Linked(queue'[p])) <=> (\E p \in Queues : u \in Linked(queue[p]))
      BY <1>4, <2>1, Zenon
    <3>2. \A p \in Queues : t \notin Linked(queue'[p])
      BY <1>4, <2>1, Zenon
    <3>3. \A u \in Threads \ {t} : th'[u].pc # "dowait"
      BY <1>7, <2>6, Zenon DEF IInv, Places, Owner
    <3> QED BY <2>6, <3>1, <3>2, <3>3 DEF IInv, Places, Waits
  <2>9. Owner'
    BY <2>1, <2>6, Zenon DEF Owner
  <2>10. Busy'
    <3>1. Linked(queue'["sem"]) \subseteq Linked(queue["sem"]) /\ Linked(queue'["latch"]) \subseteq Linked(queue["latch"])
      BY <1>4, <2>1, Zenon DEF Queues
    <3> QED BY <1>1, <2>1, <3>1, Zenon DEF IInv, Busy
  <2> QED BY <1>4, <2>1, <2>7, <2>8, <2>9, <2>10, ZenonT(60) DEF IInv
<1> QED BY <1>1, <1>5, <1>6, <1>7, Zenon
LEMMA SemWaitKeeps ==
    ASSUME Assumptions, IInv, NEW t \in Threads, NEW try \in BOOLEAN, SemWait(t, try)
    PROVE  IInv'
<1>1. /\ th \in [Threads -> ThType] /\ Good(queue) /\ "sem" \in Queues /\ th[t].pc = "user"
      /\ UNCHANGED <<part, held, bound, cnt, serial>> /\ value \in 0..MaxValue /\ value = spare
  BY Zenon DEF IInv, Types, SemWait, Queues, UnitsConserved
<1>2. ~Waits(t) /\ \A p \in Queues : t \notin Linked(queue[p])
  BY <1>1, InProgram, Zenon
<1>3. CASE value > 0
  <2>1. value' = value - 1 /\ spare' = spare - 1 /\ UNCHANGED <<queue, th>>
    BY <1>3, Zenon DEF SemWait
  <2>2. value' \in 0..MaxValue /\ value' = spare' /\ Linked(queue["sem"]) = {}
    BY <1>1, <1>3, <2>1 DEF IInv, Busy, Assumptions
  <2> QED BY <1>1, <2>1, <2>2, Zenon DEF IInv, Types, Places, Waits, Owner, Busy, UnitsConserved, Serial
<1>4. CASE ~(value > 0) /\ try
  <2>1. UNCHANGED <<value, spare, queue, th>>
    BY <1>4, Zenon DEF SemWait
  <2> QED BY <1>1, <2>1, Zenon DEF IInv, Types, Places, Waits, Owner, Busy, UnitsConserved, Serial
<1>5. CASE ~(value > 0) /\ ~try
  <2>1. UNCHANGED <<value, spare>> /\ Park(t, "sem", FALSE, queue, th)
    BY <1>5, Zenon DEF SemWait
  <2>2. Slept(t, "sem", queue, th)
    BY <1>1, <1>2, <2>1, ParkFacts, Zenon
  <2>3. /\ Good(queue') /\ th' \in [Threads -> ThType]
        /\ \A u \in Threads \ {t} : th'[u] = th[u]
        /\ th'[t].holds = th[t].holds
        /\ \A p \in Queues \ {"sem"} : Linked(queue'[p]) = Linked(queue[p])
        /\ \/ th'[t].pc = "user" /\ Linked(queue'["sem"]) = Linked(queue["sem"])
           \/ th'[t].pc = "parked" /\ Linked(queue'["sem"]) = Linked(queue["sem"]) \cup {t}
    BY <2>2, Zenon DEF Slept
  <2>4. Types' /\ UnitsConserved' /\ Serial'
    BY <1>1, <2>1, <2>3, Zenon DEF IInv, Types, UnitsConserved, Serial
  <2>5. Owner'
    <3>1. \A u \in Threads : th'[u].holds = th[u].holds
      BY <2>3, Zenon
    <3> QED BY <1>1, <3>1, Zenon DEF IInv, Owner
  <2>6. Places'
    BY <1>1, <1>2, <2>3 DEF IInv, Places, Waits
  <2>7. Busy'
    <3>1. value' = 0
      BY <1>1, <1>5, <2>1
    <3>2. Linked(queue'["mutex"]) = Linked(queue["mutex"]) /\ Linked(queue'["latch"]) = Linked(queue["latch"])
      BY <2>3, Zenon DEF Queues
    <3> QED BY <1>1, <3>1, <3>2, Zenon DEF IInv, Busy
  <2> QED BY <2>3, <2>4, <2>5, <2>6, <2>7, ZenonT(60) DEF IInv
<1> QED BY <1>3, <1>4, <1>5, Zenon

LEMMA SemPostKeeps ==
    ASSUME Assumptions, IInv, NEW t \in Threads, SemPost(t)
    PROVE  IInv'
<1> DEFINE w == WakeOne(queue["sem"])
<1>1. /\ UNCHANGED <<part, held, bound, cnt, serial>>
      /\ th \in [Threads -> ThType] /\ Good(queue) /\ "sem" \in Queues /\ queue["sem"] \in Seq(Threads)
      /\ value \in 0..MaxValue /\ value = spare /\ value < MaxValue /\ MaxValue \in Nat
  BY Zenon DEF IInv, Types, SemPost, Queues, UnitsConserved, Good, Assumptions
<1>2. /\ value' = IF w = 0 THEN value + 1 ELSE value
      /\ spare' = IF w = 0 THEN spare + 1 ELSE spare
      /\ th' = IF w = 0 THEN th ELSE Waken(th, {w})
  BY Zenon DEF SemPost, Posted
<1>3. queue' = Out(queue, "sem", w)
  BY Zenon DEF SemPost, Out
<1>4. /\ w = 0 => Linked(queue["sem"]) = {}
      /\ w # 0 => w \in Threads /\ w \in Linked(queue["sem"])
  BY <1>1, First, Zenon DEF Assumptions
<1> HIDE DEF w
<1>5. /\ Good(queue') /\ Linked(queue'["sem"]) = Linked(queue["sem"]) \ {w}
      /\ \A p \in Queues \ {"sem"} : Linked(queue'[p]) = Linked(queue[p])
  <2>1. Good(queue) /\ "sem" \in Queues
    BY <1>1, Zenon
  <2> QED BY <1>3, <2>1, TakeOut
<1>6. /\ th' \in [Threads -> ThType]
      /\ \A u \in Threads :
           /\ th'[u].holds = th[u].holds /\ th'[u].sig = th[u].sig
           /\ th'[u].pc = IF u \in {w} /\ th[u].pc = "parked" THEN "ready" ELSE th[u].pc
  <2>1. CASE w = 0
    BY <1>1, <1>2, <2>1, Zenon DEF Assumptions
  <2>2. CASE w # 0
    <3>1. th' = Waken(th, {w}) /\ th \in [Threads -> ThType]
      BY <1>1, <1>2, <2>2, Zenon
    <3> QED BY <3>1, WakenFacts
  <2> QED BY <2>1, <2>2, Zenon
<1>7. value' \in 0..MaxValue /\ value' = spare'
  BY <1>1, <1>2
<1>8. Types' /\ UnitsConserved' /\ Serial'
  BY <1>1, <1>6, <1>7, ZenonT(60) DEF IInv, Types, UnitsConserved, Serial
<1>9. Owner'
  BY <1>1, <1>6, ZenonT(60) DEF IInv, Owner
<1>10. Busy'
  <2>1. Linked(queue'["sem"]) # {} => value' = 0
    BY <1>2, <1>4, <1>5, Zenon DEF IInv, Busy
  <2>2. Linked(queue'["mutex"]) = Linked(queue["mutex"]) /\ Linked(queue'["latch"]) = Linked(queue["latch"])
    BY <1>5, Zenon DEF Queues
  <2> QED BY <1>1, <2>1, <2>2, Zenon DEF IInv, Busy
<1>11. Places'
  <2>1. ASSUME NEW u \in Threads, u = w
        PROVE  (\A p \in Queues : u \notin Linked(queue'[p])) /\ th'[u].pc = "ready"
    <3>1. u \in Linked(queue["sem"]) /\ Waits(u)
      BY <1>1, <1>4, <2>1, Zenon DEF Waits, Assumptions
    <3>2. th[u].pc \in {"parked", "ready"}
      BY <3>1, Zenon DEF IInv, Places
    <3>3. \A p \in Queues \ {"sem"} : u \notin Linked(queue[p])
      BY <1>1, <3>1, Zenon DEF Good
    <3> QED BY <1>5, <1>6, <2>1, <3>2, <3>3, ZenonT(60)
  <2>2. ASSUME NEW u \in Threads, u # w
        PROVE  /\ th'[u].pc = th[u].pc /\ th'[u].sig = th[u].sig /\ th'[u].holds = th[u].holds
               /\ \A p \in Queues : u \in Linked(queue'[p]) <=> u \in Linked(queue[p])
    BY <1>5, <1>6, <2>2, ZenonT(60)
  <2>3. ASSUME NEW u \in Threads
        PROVE  /\ (\E p \in Queues : u \in Linked(queue'[p])) =>
                      th'[u].pc = "parked" \/ (th'[u].pc = "ready" /\ th'[u].sig)
               /\ th'[u].pc = "parked" => \E p \in Queues : u \in Linked(queue'[p])
               /\ th'[u].pc = "dowait" => th'[u].holds
    BY <2>1, <2>2 DEF IInv, Places, Waits
  <2> QED BY <2>3, Zenon DEF Places, Waits
<1> QED BY <1>5, <1>8, <1>9, <1>10, <1>11, ZenonT(60) DEF IInv

LEMMA ArriveKeeps ==
    ASSUME Assumptions, IInv, NEW t \in Threads, NEW n \in 0..1, NEW waits \in BOOLEAN, NEW i \in BOOLEAN,
           Arrive(t, n, waits, i)
    PROVE  IInv'
<1> DEFINE W == Opened(cnt - n)
<1>1. /\ UNCHANGED <<part, held, bound, value, spare>> /\ th[t].pc = "user"
      /\ th \in [Threads -> ThType] /\ Good(queue) /\ "latch" \in Queues
      /\ queue \in [Queues -> Seq(Threads)] /\ cnt \in -1..MaxValue /\ MaxValue \in Nat
      /\ cnt' = cnt - n /\ cnt - n >= -1
  BY Zenon DEF IInv, Types, Arrive, Queues, Good, Assumptions
<1>2. cnt' \in -1..MaxValue
  BY <1>1
<1>3. Serial'
  <2>1. serial' = IF waits /\ n = 1 /\ cnt' <= 0 THEN serial \cup {t} ELSE serial
    BY <1>1, Zenon DEF Arrive, IsSerial
  <2>2. CASE cnt' > 0
    BY <1>1, <2>1, <2>2 DEF IInv, Serial
  <2>3. CASE cnt' = 0 /\ n = 1
    <3>1. serial = {}
      BY <1>1, <2>3 DEF IInv, Serial
    <3>2. serial' = {} \/ serial' = {t}
      BY <2>1, <3>1, Zenon
    <3> QED BY <2>3, <3>2 DEF Serial
  <2>4. CASE cnt' = 0 /\ n = 0
    <3>1. serial' = serial /\ cnt = 0
      BY <1>1, <2>1, <2>4
    <3> QED BY <2>4, <3>1, Zenon DEF IInv, Serial
  <2>5. CASE cnt' < 0
    BY <1>2, <2>5 DEF Serial
  <2> QED BY <1>1, <1>2, <2>2, <2>3, <2>4, <2>5
<1>4. ASSUME th' \in [Threads -> ThType] PROVE Types' /\ UnitsConserved'
  BY <1>1, <1>2, <1>4, Zenon DEF IInv, Types, UnitsConserved
<1>5. ~Waits(t) /\ \A p \in Queues : t \notin Linked(queue[p])
  BY <1>1, InProgram, Zenon
<1>6. CASE waits /\ cnt - n > 0
  <2>1. Park(t, "latch", i, queue, th)
    <3>1. Opened(cnt - n) = {}
      BY <1>1, <1>6 DEF Opened
    <3> QED BY <1>6, <3>1, ZenonT(60) DEF Arrive
  <2>2. Slept(t, "latch", queue, th)
    BY <1>1, <1>5, <2>1, ParkFacts, ZenonT(60)
  <2>3. /\ Good(queue') /\ th' \in [Threads -> ThType]
        /\ \A u \in Threads \ {t} : th'[u] = th[u]
        /\ th'[t].holds = th[t].holds
        /\ \A p \in Queues \ {"latch"} : Linked(queue'[p]) = Linked(queue[p])
        /\ \/ th'[t].pc = "user" /\ Linked(queue'["latch"]) = Linked(queue["latch"])
           \/ th'[t].pc = "parked" /\ Linked(queue'["latch"]) = Linked(queue["latch"]) \cup {t}
    BY <2>2, Zenon DEF Slept
  <2>4. Owner'
    <3>1. \A u \in Threads : th'[u].holds = th[u].holds
      BY <2>3, Zenon
    <3> QED BY <1>1, <3>1, Zenon DEF IInv, Owner
  <2>5. Places'
    BY <1>1, <1>5, <2>3, ZenonT(60) DEF IInv, Places, Waits
  <2>6. Busy'
    <3>1. Linked(queue'["mutex"]) = Linked(queue["mutex"]) /\ Linked(queue'["sem"]) = Linked(queue["sem"])
      BY <2>3, Zenon DEF Queues
    <3> QED BY <1>1, <1>6, <3>1, Zenon DEF IInv, Busy
  <2> QED BY <1>3, <1>4, <2>3, <2>4, <2>5, <2>6, ZenonT(60) DEF IInv
<1>7. CASE ~(waits /\ cnt - n > 0)
  <2>1. queue' = (IF W = {} THEN queue ELSE [queue EXCEPT !["latch"] = <<>>]) /\ th' = Waken(th, W)
    BY <1>7, Zenon DEF Arrive
  <2>2. W = IF cnt' <= 0 THEN Linked(queue["latch"]) ELSE {}
    BY <1>1, Zenon DEF Opened
  <2> HIDE DEF W
  <2>3. /\ th' \in [Threads -> ThType]
        /\ \A u \in Threads :
             /\ th'[u].holds = th[u].holds /\ th'[u].sig = th[u].sig
             /\ th'[u].pc = IF u \in W /\ th[u].pc = "parked" THEN "ready" ELSE th[u].pc
    <3>1. th' = Waken(th, W) /\ th \in [Threads -> ThType]
      BY <1>1, <2>1, Zenon
    <3> QED BY <3>1, WakenFacts
  <2>4. /\ Good(queue') /\ Linked(queue'["latch"]) = Linked(queue["latch"]) \ W
        /\ \A p \in Queues \ {"latch"} : Linked(queue'[p]) = Linked(queue[p])
    <3>1. CASE W = {}
      BY <1>1, <2>1, <3>1, ZenonT(60)
    <3>2. CASE W # {}
      <4>1. W = Linked(queue["latch"]) /\ queue' = [queue EXCEPT !["latch"] = <<>>]
        BY <2>1, <2>2, <3>2, Zenon
      <4>2. <<>> \in Seq(Threads) /\ Once(<<>>) /\ Linked(<<>>) = {}
        BY DEF Once, Linked
      <4>3. /\ queue' \in [Queues -> Seq(Threads)] /\ queue'["latch"] = <<>>
            /\ \A p \in Queues \ {"latch"} : queue'[p] = queue[p]
        BY <1>1, <4>1, <4>2, Zenon
      <4>4. \A p \in Queues : Once(queue'[p])
        BY <1>1, <4>2, <4>3, ZenonT(60) DEF Good
      <4>5. \A o, p \in Queues : o # p => Linked(queue'[o]) \cap Linked(queue'[p]) = {}
        BY <1>1, <4>2, <4>3, Zenon DEF Good
      <4> QED BY <4>1, <4>2, <4>3, <4>4, <4>5, ZenonT(60) DEF Good
    <3> QED BY <3>1, <3>2, Zenon
  <2>5. Owner'
    BY <1>1, <2>3, Zenon DEF IInv, Owner
  <2>6. Busy'
    <3>1. Linked(queue'["mutex"]) = Linked(queue["mutex"]) /\ Linked(queue'["sem"]) = Linked(queue["sem"])
      BY <2>4, Zenon DEF Queues
    <3>2. Linked(queue'["latch"]) # {} => cnt' > 0
      BY <1>1, <2>2, <2>4
    <3> QED BY <1>1, <3>1, <3>2, ZenonT(60) DEF IInv, Busy
  <2>7. Places'
    <3>1. ASSUME NEW u \in Threads, u \in W
          PROVE  (\A p \in Queues : u \notin Linked(queue'[p])) /\ th'[u].pc = "ready"
      <4>1. u \in Linked(queue["latch"]) /\ Waits(u)
        BY <1>1, <2>2, <3>1, Zenon DEF Waits
      <4>2. th[u].pc \in {"parked", "ready"}
        BY <4>1, Zenon DEF IInv, Places
      <4>3. \A p \in Queues \ {"latch"} : u \notin Linked(queue[p])
        BY <1>1, <4>1, Zenon DEF Good
      <4> QED BY <2>3, <2>4, <3>1, <4>2, <4>3, ZenonT(60)
    <3>2. ASSUME NEW u \in Threads, u \notin W
          PROVE  /\ th'[u].pc = th[u].pc /\ th'[u].sig = th[u].sig /\ th'[u].holds = th[u].holds
                 /\ \A p \in Queues : u \in Linked(queue'[p]) <=> u \in Linked(queue[p])
      BY <2>3, <2>4, <3>2, ZenonT(60)
    <3>3. ASSUME NEW u \in Threads
          PROVE  /\ (\E p \in Queues : u \in Linked(queue'[p])) =>
                        th'[u].pc = "parked" \/ (th'[u].pc = "ready" /\ th'[u].sig)
                 /\ th'[u].pc = "parked" => \E p \in Queues : u \in Linked(queue'[p])
                 /\ th'[u].pc = "dowait" => th'[u].holds
      BY <3>1, <3>2 DEF IInv, Places, Waits
    <3> QED BY <3>3, Zenon DEF Places, Waits
  <2> QED BY <1>3, <1>4, <2>3, <2>4, <2>5, <2>6, <2>7, Zenon DEF IInv
<1> QED BY <1>6, <1>7, Zenon

LEMMA SignalKeeps ==
    ASSUME IInv, NEW t \in Threads, Signal(t)
    PROVE  IInv'
<1> DEFINE s == [th[t] EXCEPT !.sig = TRUE, !.pc = IF @ = "parked" /\ th[t].intr THEN "ready" ELSE @]
<1>1. th' = [th EXCEPT ![t] = s] /\ UNCHANGED <<part, held, bound, queue, value, cnt, spare, serial>>
  BY Zenon DEF Signal, objs
<1>2. th \in [Threads -> ThType] /\ th[t] \in ThType /\ Good(queue) /\ held \in BOOLEAN /\ bound' \in BOOLEAN
  BY <1>1, Zenon DEF IInv, Types
<1>3. /\ s \in ThType /\ s.holds = th[t].holds /\ s.sig
      /\ s.pc = th[t].pc \/ (th[t].pc = "parked" /\ s.pc = "ready")
  BY <1>2, Zenon DEF ThType
<1> HIDE DEF s
<1>4. th' \in [Threads -> ThType] /\ th'[t] = s /\ \A u \in Threads \ {t} : th'[u] = th[u]
  BY <1>1, <1>2, <1>3, Zenon
<1>5. Types' /\ UnitsConserved' /\ Serial'
  BY <1>1, <1>2, <1>4, Elsewhere, Zenon
<1>6. Owner'
  <2>1. \A u \in Threads : th'[u].holds = th[u].holds
    BY <1>3, <1>4, Zenon
  <2> QED BY <1>1, <2>1, ZenonT(60) DEF IInv, Owner
<1>7. Busy'
  BY <1>1, Zenon DEF IInv, Busy
<1>8. Places'
  BY <1>1, <1>3, <1>4 DEF IInv, Places, Waits
<1> QED BY <1>1, <1>2, <1>5, <1>6, <1>7, <1>8, ZenonT(60) DEF IInv

LEMMA ResumeKeeps ==
    ASSUME IInv, NEW t \in Threads, Resume(t)
    PROVE  IInv'
<1>1. /\ th' = [th EXCEPT ![t] = Running(th[t])] /\ th[t].pc = "ready"
      /\ UNCHANGED <<part, held, bound, value, cnt, spare, serial>>
  BY Zenon DEF Resume
<1>2. th \in [Threads -> ThType] /\ th[t] \in ThType /\ Good(queue) /\ held' \in BOOLEAN /\ bound' \in BOOLEAN
  BY <1>1, Zenon DEF IInv, Types
<1>3. /\ th' \in [Threads -> ThType] /\ th'[t].pc = "user" /\ th'[t].holds = th[t].holds
      /\ \A u \in Threads \ {t} : th'[u] = th[u]
  BY <1>1, <1>2, RecRunning, Zenon
<1>4. Good(queue') /\ \A p \in Queues : Linked(queue'[p]) = Linked(queue[p]) \ {t}
  <2>1. CASE th[t].sig
    <3>1. queue' = OutOfAll(queue, t)
      BY <2>1, Zenon DEF Resume, Disarm, OutOfAll
    <3> QED BY <1>2, <3>1, TakeOutOfAll
  <2>2. CASE ~th[t].sig
    <3>1. queue' = queue
      BY <2>2, Zenon DEF Resume
    <3>2. \A p \in Queues : t \notin Linked(queue[p])
      BY <1>1, <2>2, Zenon DEF IInv, Places, Waits
    <3> QED BY <1>2, <3>1, <3>2, Zenon
  <2> QED BY <2>1, <2>2, Zenon
<1>5. Types' /\ UnitsConserved' /\ Serial'
  BY <1>1, <1>2, <1>3, Elsewhere, Zenon
<1>6. Owner'
  <2>1. \A u \in Threads : th'[u].holds = th[u].holds
    BY <1>3, Zenon
  <2> QED BY <1>1, <2>1, ZenonT(60) DEF IInv, Owner
<1>7. Busy'
  <2>1. \A p \in Queues : Linked(queue'[p]) # {} => Linked(queue[p]) # {}
    BY <1>4, Zenon
  <2> QED BY <1>1, <2>1, Zenon DEF IInv, Busy, Queues
<1>8. Places'
  <2>1. \A u \in Threads \ {t} : \A p \in Queues : u \in Linked(queue'[p]) <=> u \in Linked(queue[p])
    BY <1>4, Zenon
  <2>2. \A p \in Queues : t \notin Linked(queue'[p])
    BY <1>4, Zenon
  <2> QED BY <1>3, <2>1, <2>2 DEF IInv, Places, Waits
<1> QED BY <1>4, <1>5, <1>6, <1>7, <1>8, ZenonT(60) DEF IInv

LEMMA InitIInv == ASSUME Assumptions, Init PROVE IInv
<1>1. /\ queue = [q \in Queues |-> <<>>]
      /\ th = [t \in Threads |-> [pc |-> "user", holds |-> FALSE, intr |-> FALSE, sig |-> FALSE,
                                  timer |-> "off", timeout |-> FALSE]]
  BY Zenon DEF Init
<1>2. \A q \in Queues : queue[q] = <<>> /\ Linked(queue[q]) = {} /\ Once(queue[q])
  BY <1>1 DEF Linked, Once
<1>3. Good(queue)
  BY <1>1, <1>2 DEF Good
<1>4. Types
  <2>1. th \in [Threads -> ThType]
    BY <1>1, Zenon DEF ThType
  <2>2. value \in 0..MaxValue /\ cnt \in -1..MaxValue
    BY DEF Init, Assumptions
  <2>3. part \in {"mutex", "sem", "latch"} /\ held \in BOOLEAN /\ bound \in BOOLEAN
    BY Zenon DEF Init, Assumptions
  <2> QED BY <2>1, <2>2, <2>3, Zenon DEF Types
<1>5. \A t \in Threads : th[t].pc = "user" /\ ~th[t].holds
  BY <1>1, Zenon
<1>6. Places /\ Owner
  BY <1>2, <1>5, Zenon DEF Places, Waits, Owner, Init
<1>7. Busy
  BY <1>2, Zenon DEF Busy, Queues
<1> QED BY <1>3, <1>4, <1>6, <1>7, ZenonT(60) DEF IInv, UnitsConserved, Serial, Init

LEMMA NextIInv == ASSUME Assumptions, IInv, [Next]_vars PROVE IInv'
<1>1. CASE UNCHANGED vars
  BY <1>1, Zenon DEF vars, objs, IInv, Types, Places, Waits, Owner, Busy, UnitsConserved, Serial
<1>2. CASE Next
  <2>1. PICK t \in Threads :
          \/ \E try \in BOOLEAN, i \in Intr(t) : Lock(t, try, i)
          \/ Unlock(t) \/ DoWait(t) \/ Timeout(t)
          \/ \E timed \in BOOLEAN, i \in Intr(t) : StartWait(t, timed, i)
          \/ \E all \in BOOLEAN : Notify(t, all)
          \/ SemPost(t)
          \/ \E try \in BOOLEAN : SemWait(t, try)
          \/ \E n \in 0..1, waits \in BOOLEAN, i \in Intr(t) : Arrive(t, n, waits, i)
          \/ Signal(t)
          \/ Resume(t)
    BY <1>2, Zenon DEF Next
  <2>2. Intr(t) \subseteq BOOLEAN
    BY DEF Intr
  <2> QED
    BY <2>1, <2>2, LockKeeps, UnlockKeeps, DoWaitKeeps, TimeoutKeeps, StartWaitKeeps, NotifyKeeps,
       SemPostKeeps, SemWaitKeeps, ArriveKeeps, SignalKeeps, ResumeKeeps, ZenonT(60)
<1> QED BY <1>1, <1>2, Zenon

LEMMA Invariance == ASSUME Assumptions PROVE Spec => []IInv
<1>1. Init => IInv
  BY InitIInv, Zenon
<1>2. IInv /\ [Next]_vars => IInv'
  BY NextIInv, Zenon
<1> QED BY <1>1, <1>2, PTL DEF Spec

(* Under the invariant the queue a thread is in is the one IsIn names.     *)
LEMMA InOne ==
    ASSUME Good(queue), NEW t \in Threads, NEW q \in Queues, t \in Linked(queue[q])
    PROVE  IsIn(t) = q
<1>1. IsIn(t) \in Queues /\ t \in Linked(queue[IsIn(t)])
  BY Where, Zenon DEF Waits
<1> QED BY <1>1, Zenon DEF Good

-----------------------------------------------------------------------------
(* The theorems.                                                           *)

LEMMA TypesHold == ASSUME IInv PROVE TypeOK
<1>1. /\ value \in 0..MaxValue /\ cnt \in -1..MaxValue
      /\ \A t \in Threads : th[t].pc \in {"user", "dowait", "parked", "ready"}
  BY Zenon DEF IInv, Types, ThType
<1>2. ASSUME NEW p \in Queues, NEW q \in Queues, NEW i \in DOMAIN queue[p], NEW j \in DOMAIN queue[q],
             queue[p][i] = queue[q][j]
      PROVE  p = q /\ i = j
  <2>1. queue[p] \in Seq(Threads) /\ queue[q] \in Seq(Threads) /\ Once(queue[p])
    BY Zenon DEF IInv, Good
  <2>2. i \in 1..Len(queue[p]) /\ j \in 1..Len(queue[q])
    BY <2>1
  <2>3. queue[p][i] \in Linked(queue[p]) /\ queue[q][j] \in Linked(queue[q])
    BY Zenon DEF Linked
  <2>4. p = q
    BY <1>2, <2>3, Zenon DEF IInv, Good
  <2> QED BY <1>2, <2>1, <2>2, <2>4, Zenon DEF Once
<1>3. ASSUME NEW t \in Threads, IsIn(t) # "none" PROVE th[t].pc \in {"parked", "ready"}
  <2>1. Waits(t)
    BY <1>3, Where, Zenon
  <2> QED BY <2>1, Zenon DEF IInv, Places
<1> QED BY <1>1, <1>2, <1>3, Zenon DEF TypeOK

(* Whatever the order of locking, unlocking, waiting, notifying, expiring  *)
(* timers and signals, the mutex is held by one thread when held_ is set   *)
(* and by none when it is clear.                                           *)
THEOREM OneHolder ==
    ASSUME Assumptions PROVE Spec => [](TypeOK /\ MutualExclusion)
<1>1. ASSUME IInv PROVE MutualExclusion
  <2>1. CASE held
    <3>1. PICK t \in Threads : \A u \in Threads : th[u].holds <=> u = t
      BY <1>1, <2>1, Zenon DEF IInv, Owner
    <3>2. {u \in Threads : th[u].holds} = {t}
      BY <3>1, Zenon
    <3> QED BY <2>1, <3>2, FS_Singleton, Zenon DEF MutualExclusion
  <2>2. CASE ~held
    <3>1. {u \in Threads : th[u].holds} = {}
      BY <1>1, <2>2, Zenon DEF IInv, Owner
    <3> QED BY <2>2, <3>1, FS_EmptySet, Zenon DEF MutualExclusion
  <2> QED BY <2>1, <2>2, Zenon
<1>2. IInv => TypeOK /\ MutualExclusion
  BY <1>1, TypesHold, Zenon
<1> QED BY <1>2, Invariance, PTL

(* No wake-up is lost: who sleeps waits for a condition, for a mutex that  *)
(* is held, a semaphore at zero, or a latch that is not down.              *)
THEOREM NoSleeperForgotten ==
    ASSUME Assumptions PROVE Spec => []SleepersMustWait
<1>1. ASSUME IInv, NEW t \in Threads, th[t].pc = "parked"
      PROVE  \/ IsIn(t) = "mutex" /\ held
             \/ IsIn(t) = "cond"
             \/ IsIn(t) = "sem" /\ value = 0
             \/ IsIn(t) = "latch" /\ cnt > 0
  <2>1. Waits(t)
    BY <1>1, Zenon DEF IInv, Places
  <2>2. IsIn(t) \in Queues /\ t \in Linked(queue[IsIn(t)])
    BY <2>1, Where, Zenon
  <2> QED BY <1>1, <2>2, Zenon DEF IInv, Busy, Queues
<1>2. IInv => SleepersMustWait
  BY <1>1, Zenon DEF SleepersMustWait
<1> QED BY <1>2, Invariance, PTL

(* A semaphore's value is what was posted and neither taken nor handed to  *)
(* a waiter, and a latch names one serial thread at most.                  *)
THEOREM NothingInvented ==
    ASSUME Assumptions PROVE Spec => [](UnitsConserved /\ SerialOnce)
<1>1. ASSUME IInv PROVE SerialOnce
  <2>1. cnt >= 0 => serial = {} \/ \E t \in Threads : serial = {t}
    BY <1>1 DEF IInv, Serial, Types
  <2>2. Cardinality({}) = 0 /\ \A t : Cardinality({t}) = 1
    BY FS_EmptySet, FS_Singleton, Zenon
  <2>3. cnt >= 0 => Cardinality(serial) = 0 \/ Cardinality(serial) = 1
    BY <2>1, <2>2, Zenon
  <2> QED BY <2>3 DEF SerialOnce
<1>2. IInv => UnitsConserved /\ SerialOnce
  BY <1>1, Zenon DEF IInv
<1> QED BY <1>2, Invariance, PTL
============================================================================
