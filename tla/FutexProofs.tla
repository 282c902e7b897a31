---------------------------- MODULE FutexProofs ----------------------------
(***************************************************************************)
(* Proofs about Futex for any threads, words, hash function and bitsets,   *)
(* and for waits with any arguments.                                       *)
(***************************************************************************)
EXTENDS Futex, FunctionTheorems, FiniteSetTheorems, TLAPS

-----------------------------------------------------------------------------
(* Lists of waiters.                                                       *)
Once(q) == \A i, j \in 1..Len(q) : q[i] = q[j] => i = j
Has(q, x) == \E i \in 1..Len(q) : q[i] = x

(* The members of a finite set of numbers are its first, second, ... and   *)
(* last ones.                                                              *)
LEMMA Ranks ==
    ASSUME NEW K \in SUBSET Int, IsFiniteSet(K)
    PROVE  /\ Cardinality(K) \in Nat
           /\ \A i \in K : /\ Cardinality({j \in K : j < i}) \in Nat
                          /\ Cardinality({j \in K : j < i}) + 1 \in 1..Cardinality(K)
           /\ \A i, k \in K : Cardinality({j \in K : j < i}) = Cardinality({j \in K : j < k}) => i = k
           /\ \A n \in 1..Cardinality(K) : \E i \in K : Cardinality({j \in K : j < i}) = n - 1
<1> DEFINE Below(i) == {j \in K : j < i}
           N == Cardinality(K)
           f == [i \in K |-> Cardinality(Below(i)) + 1]
<1>1. N \in Nat
  BY FS_CardinalityType, Zenon
<1>2. ASSUME NEW i \in K PROVE IsFiniteSet(Below(i)) /\ Cardinality(Below(i)) \in Nat
  BY FS_Subset, FS_CardinalityType, Zenon
<1>3. ASSUME NEW i \in K PROVE Cardinality(Below(i)) + 1 \in 1..N
  <2>1. IsFiniteSet(K \ {i}) /\ Cardinality(K \ {i}) = N - 1
    BY FS_RemoveElement, Zenon
  <2>2. Below(i) \in SUBSET (K \ {i})
    OBVIOUS
  <2>3. Cardinality(Below(i)) <= N - 1
    BY <2>1, <2>2, FS_Subset, Zenon
  <2> QED BY <1>1, <1>2, <2>3
<1>4. ASSUME NEW i \in K, NEW k \in K, i < k PROVE Cardinality(Below(i)) < Cardinality(Below(k))
  <2>1. IsFiniteSet(Below(i) \cup {i}) /\ Cardinality(Below(i) \cup {i}) = Cardinality(Below(i)) + 1
    <3>1. i \notin Below(i)
      OBVIOUS
    <3> HIDE DEF Below
    <3> QED BY <1>2, <3>1, FS_AddElement, Zenon
  <2>2. Below(i) \cup {i} \in SUBSET Below(k)
    <3>1. i \in Int /\ k \in Int /\ \A j \in K : j \in Int
      BY Zenon
    <3>2. ASSUME NEW j \in Below(i) \cup {i} PROVE j \in K /\ j < k
      BY <1>4, <3>1
    <3> QED BY <3>2, Zenon
  <2> HIDE DEF Below
  <2>3. Cardinality(Below(i) \cup {i}) <= Cardinality(Below(k))
    BY <1>2, <2>2, FS_Subset, Zenon
  <2> QED BY <1>2, <2>1, <2>3
<1>5. \A i, k \in K : Cardinality(Below(i)) = Cardinality(Below(k)) => i = k
  <2>1. ASSUME NEW i \in K, NEW k \in K, Cardinality(Below(i)) = Cardinality(Below(k)), i # k PROVE FALSE
    <3>1. i < k \/ k < i
      BY <2>1
    <3> HIDE DEF Below
    <3> QED BY <1>2, <1>4, <2>1, <3>1
  <2> QED BY <2>1, Zenon
<1>6. \A n \in 1..N : \E i \in K : Cardinality(Below(i)) = n - 1
  <2>1. f \in [K -> 1..N] /\ \A i \in K : f[i] = Cardinality(Below(i)) + 1
    BY <1>3, Zenon
  <2>2. \A i, k \in K : f[i] = f[k] => i = k
    <3> HIDE DEF Below, f
    <3> QED BY <1>2, <1>5, <2>1
  <2> HIDE DEF f
  <2>3. f \in Injection(K, 1..N)
    BY <2>1, <2>2, Zenon DEF Injection, IsInjective
  <2>4. IsFiniteSet(1..N) /\ Cardinality(1..N) = N
    BY <1>1, FS_Interval
  <2>5. f \in Surjection(K, 1..N)
    BY <2>3, <2>4, FS_Injection, Zenon
  <2>6. \A n \in 1..N : \E i \in K : f[i] = n
    BY <2>5, Zenon DEF Surjection
  <2> HIDE DEF Below
  <2> QED BY <1>1, <1>2, <2>1, <2>6
<1> QED BY <1>1, <1>2, <1>3, <1>5, <1>6, Zenon

(* What is left of a list.                                                 *)
LEMMA WithoutFacts ==
    ASSUME NEW S, NEW q \in Seq(S), NEW ts
    PROVE  /\ Without(q, ts) \in Seq(S)
           /\ \A x : Has(Without(q, ts), x) <=> Has(q, x) /\ x \notin ts
           /\ Once(q) => Once(Without(q, ts))
<1> DEFINE K == {i \in 1..Len(q) : q[i] \notin ts}
           Rank(i) == Cardinality({j \in K : j < i})
           nth(n) == CHOOSE i \in K : Rank(i) = n - 1
           N == Cardinality(K)
           r == [n \in 1..N |-> q[nth(n)]]
<1>1. r = Without(q, ts)
  BY Zenon DEF Without
<1>2. IsFiniteSet(K) /\ K \in SUBSET Int
  <2>1. IsFiniteSet(1..Len(q)) /\ K \in SUBSET (1..Len(q))
    BY FS_Interval
  <2> QED BY <2>1, FS_Subset
<1>3. /\ N \in Nat
      /\ \A i \in K : Rank(i) \in Nat /\ Rank(i) + 1 \in 1..N
      /\ \A i, k \in K : Rank(i) = Rank(k) => i = k
      /\ \A n \in 1..N : \E i \in K : Rank(i) = n - 1
  <2> HIDE DEF K
  <2> QED BY <1>2, Ranks, Zenon
<1>4. \A i \in K : i \in 1..Len(q) /\ q[i] \in S /\ q[i] \notin ts
  OBVIOUS
<1>5. \A i \in 1..Len(q) : q[i] \notin ts => i \in K
  BY Zenon
<1> HIDE DEF K, Rank, N
<1>6. \A n \in 1..N : nth(n) \in K /\ Rank(nth(n)) = n - 1
  BY <1>3, Zenon
<1> HIDE DEF nth
<1>7. r \in Seq(S) /\ Len(r) = N /\ \A n \in 1..N : r[n] = q[nth(n)]
  BY <1>3, <1>4, <1>6
<1>8. ASSUME NEW i \in K PROVE \E n \in 1..N : nth(n) = i
  <2>1. Rank(i) + 1 \in 1..N /\ Rank(i) \in Int
    BY <1>3
  <2>2. nth(Rank(i) + 1) \in K /\ Rank(nth(Rank(i) + 1)) = Rank(i)
    BY <1>6, <2>1
  <2> QED BY <1>3, <2>1, <2>2, Zenon
<1> HIDE DEF r
<1>9. ASSUME NEW x PROVE Has(r, x) <=> Has(q, x) /\ x \notin ts
  <2>1. ASSUME Has(r, x) PROVE Has(q, x) /\ x \notin ts
    <3>1. PICK n \in 1..N : q[nth(n)] = x
      BY <1>7, <2>1, Zenon DEF Has
    <3> QED BY <1>4, <1>6, <3>1, Zenon DEF Has
  <2>2. ASSUME Has(q, x), x \notin ts PROVE Has(r, x)
    <3>1. PICK i \in K : q[i] = x
      BY <1>5, <2>2, Zenon DEF Has
    <3>2. PICK n \in 1..N : nth(n) = i
      BY <1>8, Zenon
    <3> QED BY <1>7, <3>1, <3>2, Zenon DEF Has
  <2> QED BY <2>1, <2>2, Zenon
<1>10. ASSUME Once(q) PROVE Once(r)
  <2>1. ASSUME NEW m \in 1..N, NEW n \in 1..N, q[nth(m)] = q[nth(n)] PROVE m = n
    <3>1. nth(m) \in 1..Len(q) /\ nth(n) \in 1..Len(q)
      BY <1>4, <1>6, Zenon
    <3>2. nth(m) = nth(n)
      BY <1>10, <2>1, <3>1, Zenon DEF Once
    <3>3. m - 1 = n - 1
      BY <1>6, <3>2, Zenon
    <3> QED BY <3>3
  <2> QED BY <1>7, <2>1, Zenon DEF Once
<1> QED BY <1>1, <1>7, <1>9, <1>10, Zenon

-----------------------------------------------------------------------------
(* The inductive invariant.                                                *)

Types ==
    /\ mem \in [Keys -> Vals]
    /\ futexes \in [Buckets -> Seq(Threads)]
    /\ pc \in [Threads -> {"user", "checked", "parked", "ready"}]
    /\ waiter \in [Threads -> Waiters]
    /\ waker \in [Threads -> BOOLEAN] /\ armed \in [Threads -> BOOLEAN]
    /\ timer \in [Threads -> {"off", "running", "expired"}]
    /\ timed_out \in [Threads -> BOOLEAN] /\ sig \in [Threads -> BOOLEAN]
    /\ ret \in Results
    /\ woken \subseteq Threads /\ settled \subseteq Keys

Blocked(t) == pc[t] \in {"parked", "ready"}

(* A bucket lists the blocked threads that nobody has woken, each once.    *)
Listed ==
    \A b \in Buckets :
        /\ Once(futexes[b])
        /\ \A t \in Threads : Has(futexes[b], t) <=> Blocked(t) /\ waker[t] /\ Bucket(t) = b

(* Who sleeps can be woken, and who was woken has been counted.            *)
Wakeable ==
    \A t \in Threads :
        /\ waker[t] => Blocked(t)
        /\ armed[t] => waker[t]
        /\ pc[t] = "parked" => armed[t]
        /\ t \in woken <=> Blocked(t) /\ ~waker[t]

IInv == Types /\ Listed /\ Wakeable /\ WokenForAReason /\ NoLostWakeup

-----------------------------------------------------------------------------
(* Every action keeps the invariant.                                       *)

LEMMA NoWaiterType == ASSUME Assumptions PROVE NoWaiter \in Waiters
BY Zenon DEF Assumptions, NoWaiter

(* Wait returns and leaves nothing behind.                                 *)
LEMMA ReturnKeeps ==
    ASSUME Assumptions, IInv, NEW t \in Threads, NEW r \in Results, Return(t, r),
           UNCHANGED <<mem, sig, settled>>, futexes' \in [Buckets -> Seq(Threads)],
           \A b \in Buckets : /\ Once(futexes'[b])
                              /\ \A u \in Threads : Has(futexes'[b], u) <=> Has(futexes[b], u) /\ u # t
    PROVE  IInv'
<1>1. Types'
  BY NoWaiterType, Zenon DEF IInv, Types, Return
<1>2. /\ pc'[t] = "user" /\ ~waker'[t] /\ ~armed'[t] /\ t \notin woken'
      /\ \A u \in Threads \ {t} :
            /\ pc'[u] = pc[u] /\ waiter'[u] = waiter[u] /\ waker'[u] = waker[u] /\ armed'[u] = armed[u]
            /\ timed_out'[u] = timed_out[u] /\ (u \in woken' <=> u \in woken)
  BY Zenon DEF IInv, Types, Return
<1>3. Listed'
  BY <1>2 DEF IInv, Listed, Blocked, Bucket
<1>4. Wakeable'
  BY <1>2, Zenon DEF IInv, Wakeable, Blocked
<1>5. WokenForAReason'
  BY <1>2, Zenon DEF IInv, WokenForAReason
<1>6. NoLostWakeup'
  BY <1>2 DEF IInv, NoLostWakeup
<1> QED BY <1>1, <1>3, <1>4, <1>5, <1>6, Zenon DEF IInv

LEMMA NotListed ==
    ASSUME IInv, NEW t \in Threads, ~Blocked(t) \/ ~waker[t]
    PROVE  /\ futexes \in [Buckets -> Seq(Threads)]
           /\ \A b \in Buckets : /\ Once(futexes[b])
                                 /\ \A u \in Threads : Has(futexes[b], u) <=> Has(futexes[b], u) /\ u # t
BY Zenon DEF IInv, Types, Listed

LEMMA WaitCheckKeeps ==
    ASSUME Assumptions, IInv, NEW t \in Threads, NEW w \in WaitArgs[t], NEW timeout \in BOOLEAN,
           WaitCheck(t, w, timeout)
    PROVE  IInv'
<1>1. w \in Waiters /\ pc[t] = "user" /\ ~Blocked(t)
  BY Zenon DEF Assumptions, WaitCheck, Blocked
<1>2. CASE Return(t, "EAGAIN") /\ UNCHANGED <<mem, futexes, sig, settled>>
  BY <1>1, <1>2, NotListed, ReturnKeeps, Zenon DEF Results
<1>3. CASE /\ pc' = [pc EXCEPT ![t] = "checked"]
           /\ waiter' = [waiter EXCEPT ![t] = w]
           /\ timer' = [timer EXCEPT ![t] = IF timeout THEN "running" ELSE "off"]
           /\ UNCHANGED <<mem, futexes, waker, armed, timed_out, sig, ret, woken, settled>>
  <2>1. Types'
    BY <1>1, <1>3, Zenon DEF IInv, Types
  <2>2. /\ pc'[t] = "checked" /\ ~waker[t] /\ ~armed[t] /\ t \notin woken
        /\ \A u \in Threads \ {t} : pc'[u] = pc[u] /\ waiter'[u] = waiter[u]
    BY <1>1, <1>3, Zenon DEF IInv, Types, Wakeable
  <2>3. Listed'
    BY <1>1, <1>3, <2>2 DEF IInv, Listed, Blocked, Bucket
  <2>4. Wakeable'
    BY <1>3, <2>2, Zenon DEF IInv, Wakeable, Blocked
  <2>5. WokenForAReason'
    BY <1>3, <2>2, Zenon DEF IInv, WokenForAReason
  <2>6. NoLostWakeup'
    BY <1>3, <2>2 DEF IInv, NoLostWakeup
  <2> QED BY <2>1, <2>3, <2>4, <2>5, <2>6, Zenon DEF IInv
<1> QED BY <1>2, <1>3, Zenon DEF WaitCheck

(* A waiter joins the end of a list.                                       *)
LEMMA AppendFacts ==
    ASSUME NEW S, NEW q \in Seq(S), NEW t \in S, ~Has(q, t), Once(q)
    PROVE  /\ Append(q, t) \in Seq(S) /\ Once(Append(q, t))
           /\ \A x : Has(Append(q, t), x) <=> Has(q, x) \/ x = t
<1> DEFINE r == Append(q, t)
<1>1. /\ r \in Seq(S) /\ Len(r) = Len(q) + 1 /\ Len(q) \in Nat
      /\ \A i \in 1..Len(q) : r[i] = q[i]
      /\ r[Len(q) + 1] = t
  OBVIOUS
<1> HIDE DEF r
<1>2. ASSUME NEW x PROVE Has(r, x) <=> Has(q, x) \/ x = t
  <2>1. Has(r, x) => Has(q, x) \/ x = t
    BY <1>1 DEF Has
  <2>2. Has(q, x) => Has(r, x)
    BY <1>1 DEF Has
  <2>3. Len(q) + 1 \in 1..Len(r)
    BY <1>1
  <2>4. Has(r, t)
    BY <1>1, <2>3, Zenon DEF Has
  <2> QED BY <2>1, <2>2, <2>4, Zenon
<1>3. Once(r)
  BY <1>1 DEF Once, Has
<1> QED BY <1>1, <1>2, <1>3, Zenon DEF r

LEMMA WaitQueueKeeps ==
    ASSUME Assumptions, IInv, NEW t \in Threads, WaitQueue(t)
    PROVE  IInv'
<1>1. pc[t] = "checked" /\ ~Blocked(t) /\ ~waker[t] /\ t \notin woken
  BY Zenon DEF WaitQueue, Blocked, IInv, Wakeable
<1>2. ASSUME NEW r \in {"EAGAIN", "EINTR"}, Return(t, r), UNCHANGED <<mem, futexes, sig, settled>>
      PROVE  IInv'
  BY <1>1, <1>2, NotListed, ReturnKeeps, Zenon DEF Results
<1>3. CASE mem[waiter[t].key] = waiter[t].val /\ ~sig[t] /\ Block(t)
  <2> DEFINE b == Bucket(t)
  <2>1. b \in Buckets /\ futexes[b] \in Seq(Threads) /\ ~Has(futexes[b], t) /\ Once(futexes[b])
    BY <1>1 DEF Assumptions, IInv, Types, Waiters, Bucket, Listed
  <2>2. /\ Append(futexes[b], t) \in Seq(Threads) /\ Once(Append(futexes[b], t))
        /\ \A x : Has(Append(futexes[b], t), x) <=> Has(futexes[b], x) \/ x = t
    <3> HIDE DEF b
    <3> QED BY <2>1, AppendFacts, Zenon
  <2>3. /\ futexes' = [futexes EXCEPT ![b] = Append(futexes[b], t)]
        /\ waker' = [waker EXCEPT ![t] = TRUE] /\ armed' = [armed EXCEPT ![t] = TRUE]
        /\ pc' = [pc EXCEPT ![t] = "parked"]
        /\ UNCHANGED <<mem, waiter, timer, timed_out, sig, ret, woken, settled>>
    BY <1>3, Zenon DEF Block
  <2> HIDE DEF b
  <2>4. Types'
    BY <2>1, <2>2, <2>3, Zenon DEF IInv, Types
  <2>5. /\ futexes'[b] = Append(futexes[b], t) /\ \A c \in Buckets \ {b} : futexes'[c] = futexes[c]
        /\ pc'[t] = "parked" /\ waker'[t] /\ armed'[t]
        /\ \A u \in Threads \ {t} : pc'[u] = pc[u] /\ waker'[u] = waker[u] /\ armed'[u] = armed[u]
    BY <2>1, <2>3, Zenon DEF IInv, Types
  <2>6. Listed'
    <3>1. ASSUME NEW c \in Buckets PROVE Once(futexes'[c])
      BY <2>2, <2>5, Zenon DEF IInv, Listed
    <3>2. ASSUME NEW c \in Buckets, NEW u \in Threads, u # t
          PROVE  Has(futexes'[c], u) <=> Has(futexes[c], u)
      BY <2>2, <2>5, <3>2, Zenon
    <3>3. ASSUME NEW c \in Buckets PROVE Has(futexes'[c], t) <=> c = b
      <4>1. ~Has(futexes[c], t)
        BY <1>1, Zenon DEF IInv, Listed
      <4> QED BY <2>2, <2>5, <4>1, Zenon
    <3>4. ASSUME NEW c \in Buckets, NEW u \in Threads
          PROVE  Has(futexes'[c], u) <=> pc'[u] \in {"parked", "ready"} /\ waker'[u] /\ Bucket(u) = c
      BY <2>5, <3>2, <3>3 DEF IInv, Listed, Blocked, b
    <3>5. \A u \in Threads : Bucket(u)' = Bucket(u)
      BY <2>3, Zenon DEF Bucket
    <3> QED BY <3>1, <3>4, <3>5, Zenon DEF Listed, Blocked
  <2>7. Wakeable'
    BY <1>1, <2>3, <2>5 DEF IInv, Wakeable, Blocked
  <2>8. WokenForAReason'
    BY <2>3, <2>5 DEF IInv, WokenForAReason
  <2>9. NoLostWakeup'
    BY <1>3, <2>3, <2>5, Zenon DEF IInv, NoLostWakeup
  <2> QED BY <2>4, <2>6, <2>7, <2>8, <2>9, Zenon DEF IInv
<1> QED BY <1>2, <1>3, Zenon DEF WaitQueue

LEMMA WaitReturnKeeps ==
    ASSUME Assumptions, IInv, NEW t \in Threads, WaitReturn(t)
    PROVE  IInv'
<1>1. pc[t] = "ready" /\ Blocked(t) /\ waiter[t] \in Waiters
  BY Zenon DEF WaitReturn, Blocked, IInv, Types
<1>2. armed[t] \/ ~waker[t] \/ timed_out[t]
  BY <1>1, Zenon DEF IInv, WokenForAReason
<1>3. PICK r \in Results : Return(t, r)
  BY <1>2, Zenon DEF WaitReturn, Results
<1>4. /\ futexes' = IF waker[t] THEN [futexes EXCEPT ![Bucket(t)] = Without(@, {t})] ELSE futexes
      /\ UNCHANGED <<mem, sig, settled>>
  BY <1>2, Zenon DEF WaitReturn
<1>5. CASE ~waker[t]
  BY <1>3, <1>4, <1>5, NotListed, ReturnKeeps, Zenon
<1>6. CASE waker[t]
  <2> DEFINE b == Bucket(t)
             q == Without(futexes[b], {t})
  <2>1. /\ futexes \in [Buckets -> Seq(Threads)] /\ b \in Buckets
        /\ \A c \in Buckets : Once(futexes[c]) /\ (Has(futexes[c], t) => c = b)
    BY <1>1, Zenon DEF Assumptions, IInv, Types, Listed, Bucket, Waiters
  <2>2. futexes' = [futexes EXCEPT ![b] = q]
    BY <1>4, <1>6, Zenon
  <2> HIDE DEF b
  <2>3. q \in Seq(Threads) /\ Once(q) /\ \A x : Has(q, x) <=> Has(futexes[b], x) /\ x \notin {t}
    BY <2>1, WithoutFacts, Zenon
  <2> HIDE DEF q
  <2>4. /\ futexes' \in [Buckets -> Seq(Threads)] /\ futexes'[b] = q
        /\ \A c \in Buckets \ {b} : futexes'[c] = futexes[c]
    BY <2>1, <2>2, <2>3, Zenon
  <2>5. \A c \in Buckets : /\ Once(futexes'[c])
                           /\ \A u \in Threads : Has(futexes'[c], u) <=> Has(futexes[c], u) /\ u # t
    BY <2>1, <2>3, <2>4, Zenon
  <2> QED BY <1>3, <1>4, <2>4, <2>5, ReturnKeeps, Zenon
<1> QED BY <1>5, <1>6, Zenon
(* What Wake picks is queued under the key, and goes to the oldest first.  *)
LEMMA ChosenFacts ==
    ASSUME Assumptions, IInv, NEW key \in Keys, NEW n, NEW bitset
    PROVE  LET b == BucketOf[key] IN
           /\ b \in Buckets /\ futexes[b] \in Seq(Threads)
           /\ \A t \in Chosen(key, n, bitset) :
                 t \in Threads /\ Has(futexes[b], t) /\ Blocked(t) /\ waker[t] /\ waiter[t].key = key
<1>1. BucketOf[key] \in Buckets /\ futexes[BucketOf[key]] \in Seq(Threads)
  BY Zenon DEF Assumptions, IInv, Types
<1>2. ASSUME NEW t \in Chosen(key, n, bitset)
      PROVE  t \in Threads /\ Has(futexes[BucketOf[key]], t) /\ waiter[t].key = key
  <2> DEFINE q == futexes[BucketOf[key]]
             match == {i \in 1..Len(q) : waiter[q[i]].key = key /\ waiter[q[i]].bitset \cap bitset # {}}
  <2>1. t \in {q[i] : i \in {j \in match : Cardinality({k \in match : k < j}) < n}}
    BY Zenon DEF Chosen
  <2>2. PICK i \in match : t = q[i]
    BY <2>1, Zenon
  <2>3. i \in 1..Len(q) /\ waiter[q[i]].key = key
    BY Zenon
  <2> QED BY <1>1, <2>2, <2>3 DEF Has
<1> QED BY <1>1, <1>2, Zenon DEF IInv, Listed

LEMMA WakeKeeps ==
    ASSUME Assumptions, IInv, NEW key \in Keys, NEW n, NEW bitset, Wake(key, n, bitset)
    PROVE  IInv'
<1> DEFINE b == BucketOf[key]
           ts == Chosen(key, n, bitset)
           q == Without(futexes[b], ts)
           all == \A t \in Entries(b) : waiter[t].key = key => t \in ts
<1>1. /\ waker' = [t \in Threads |-> waker[t] /\ t \notin ts]
      /\ futexes' = [futexes EXCEPT ![b] = q]
      /\ armed' = [t \in Threads |-> armed[t] /\ t \notin ts]
      /\ pc' = [t \in Threads |-> IF t \in ts /\ armed[t] THEN "ready" ELSE pc[t]]
      /\ woken' = woken \cup ts
      /\ settled' = IF all THEN settled \cup {key} ELSE settled
      /\ UNCHANGED <<mem, waiter, timer, timed_out, sig, ret>>
  BY Zenon DEF Wake, WakeThreads
<1>2. /\ b \in Buckets /\ futexes[b] \in Seq(Threads) /\ futexes \in [Buckets -> Seq(Threads)]
      /\ \A t \in ts : t \in Threads /\ Has(futexes[b], t) /\ Blocked(t) /\ waker[t] /\ waiter[t].key = key
  BY ChosenFacts, Zenon DEF IInv, Types
<1>3. \A t : t \in Entries(b) <=> Has(futexes[b], t)
  BY Zenon DEF Entries, Has
<1> HIDE DEF b, ts
<1>4. q \in Seq(Threads) /\ (\A x : Has(q, x) <=> Has(futexes[b], x) /\ x \notin ts) /\ Once(q)
  BY <1>2, WithoutFacts DEF IInv, Listed
<1> HIDE DEF q
<1>5. /\ futexes' \in [Buckets -> Seq(Threads)] /\ futexes'[b] = q
      /\ \A c \in Buckets \ {b} : futexes'[c] = futexes[c]
  BY <1>1, <1>2, <1>4, Zenon
<1>6. \A t \in Threads :
        /\ waker'[t] <=> waker[t] /\ t \notin ts
        /\ armed'[t] <=> armed[t] /\ t \notin ts
        /\ pc'[t] = IF t \in ts /\ armed[t] THEN "ready" ELSE pc[t]
        /\ Bucket(t)' = Bucket(t)
  BY <1>1, Zenon DEF Bucket
<1>7. Types'
  <2>1. /\ pc' \in [Threads -> {"user", "checked", "parked", "ready"}]
        /\ waker' \in [Threads -> BOOLEAN] /\ armed' \in [Threads -> BOOLEAN]
    BY <1>1, Zenon DEF IInv, Types
  <2>2. woken' \subseteq Threads /\ settled' \subseteq Keys
    BY <1>1, <1>2, Zenon DEF IInv, Types
  <2> QED BY <1>1, <1>5, <2>1, <2>2, Zenon DEF IInv, Types
<1>8. \A t \in Threads : Blocked(t)' <=> Blocked(t)
  BY <1>2, <1>6, Zenon DEF Blocked
<1>9. Listed'
  <2>1. ASSUME NEW c \in Buckets PROVE Once(futexes'[c])
    BY <1>4, <1>5, Zenon DEF IInv, Listed
  <2>2. ASSUME NEW c \in Buckets, NEW t \in Threads
        PROVE  Has(futexes'[c], t) <=> Has(futexes[c], t) /\ t \notin ts
    <3>1. CASE c = b
      BY <1>4, <1>5, <3>1, Zenon
    <3>2. CASE c # b
      <4>1. t \in ts => ~Has(futexes[c], t)
        BY <1>2, <3>2, Zenon DEF IInv, Listed
      <4> QED BY <1>5, <3>2, <4>1, Zenon
    <3> QED BY <3>1, <3>2, Zenon
  <2> QED BY <1>6, <1>8, <2>1, <2>2, Zenon DEF IInv, Listed
<1>10. Wakeable'
  <2>1. ASSUME NEW t \in Threads
        PROVE  /\ waker'[t] => Blocked(t)'
               /\ armed'[t] => waker'[t]
               /\ pc'[t] = "parked" => armed'[t]
               /\ t \in woken' <=> Blocked(t)' /\ ~waker'[t]
    BY <1>1, <1>2, <1>6, <1>8, Zenon DEF IInv, Wakeable
  <2> QED BY <2>1, Zenon DEF Wakeable
<1>11. WokenForAReason'
  <2>1. ASSUME NEW t \in Threads, pc'[t] = "ready", waker'[t]
        PROVE  (armed'[t] /\ sig'[t]) \/ timed_out'[t]
    <3>1. t \notin ts /\ pc[t] = "ready" /\ waker[t]
      BY <1>6, <2>1, Zenon
    <3> QED BY <1>1, <1>6, <3>1, Zenon DEF IInv, WokenForAReason
  <2> QED BY <2>1, Zenon DEF WokenForAReason
<1>12. NoLostWakeup'
  <2>1. ASSUME NEW t \in Threads, waker'[t], waiter[t].key \in settled'
        PROVE  waiter[t].val = mem[waiter[t].key]
    <3>1. waker[t] /\ t \notin ts
      BY <1>6, <2>1, Zenon
    <3>2. CASE waiter[t].key \in settled
      BY <3>1, <3>2, Zenon DEF IInv, NoLostWakeup
    <3>3. CASE waiter[t].key = key /\ all
      <4>1. Has(futexes[b], t)
        BY <1>2, <3>1, <3>3, Zenon DEF IInv, Listed, Wakeable, Bucket, b
      <4> QED BY <1>3, <3>1, <3>3, <4>1, Zenon
    <3> QED BY <1>1, <2>1, <3>2, <3>3, Zenon
  <2> QED BY <1>1, <2>1, Zenon DEF NoLostWakeup
<1> QED BY <1>7, <1>9, <1>10, <1>11, <1>12, Zenon DEF IInv

LEMMA DoWakeKeeps ==
    ASSUME IInv, NEW t \in Threads, DoWake(t)
    PROVE  IInv'
<1>1. /\ timer' = [timer EXCEPT ![t] = "expired"]
      /\ timed_out' = [timed_out EXCEPT ![t] = timed_out[t] \/ armed[t]]
      /\ armed' = [u \in Threads |-> armed[u] /\ u \notin {t}]
      /\ pc' = [u \in Threads |-> IF u \in {t} /\ armed[u] THEN "ready" ELSE pc[u]]
      /\ UNCHANGED <<mem, futexes, waiter, waker, sig, ret, woken, settled>>
  BY Zenon DEF DoWake, WakeThreads
<1>2. Types'
  <2>1. timed_out' \in [Threads -> BOOLEAN] /\ armed' \in [Threads -> BOOLEAN]
    BY <1>1, Zenon DEF IInv, Types
  <2>2. pc' \in [Threads -> {"user", "checked", "parked", "ready"}]
    BY <1>1, Zenon DEF IInv, Types
  <2> QED BY <1>1, <2>1, <2>2, Zenon DEF IInv, Types
<1>3. /\ ~armed'[t] /\ (armed[t] => timed_out'[t] /\ pc'[t] = "ready") /\ (~armed[t] => pc'[t] = pc[t])
      /\ (timed_out[t] => timed_out'[t])
      /\ \A u \in Threads \ {t} : pc'[u] = pc[u] /\ (armed'[u] <=> armed[u]) /\ timed_out'[u] = timed_out[u]
  BY <1>1, Zenon DEF IInv, Types
<1>4. \A u \in Threads : Blocked(u)' <=> Blocked(u)
  BY <1>1, <1>3, Zenon DEF IInv, Wakeable, Blocked
<1>5. Listed'
  BY <1>1, <1>4, Zenon DEF IInv, Listed, Bucket
<1>6. Wakeable'
  <2>1. ASSUME NEW u \in Threads
        PROVE  /\ armed'[u] => waker[u]
               /\ pc'[u] = "parked" => armed'[u]
    BY <1>3, Zenon DEF IInv, Wakeable
  <2> QED BY <1>1, <1>4, <2>1, Zenon DEF IInv, Wakeable
<1>7. WokenForAReason'
  <2>1. ASSUME NEW u \in Threads, pc'[u] = "ready", waker[u]
        PROVE  (armed'[u] /\ sig[u]) \/ timed_out'[u]
    BY <1>3, <2>1, Zenon DEF IInv, WokenForAReason
  <2> QED BY <1>1, <2>1, Zenon DEF WokenForAReason
<1>8. NoLostWakeup'
  BY <1>1, Zenon DEF IInv, NoLostWakeup
<1> QED BY <1>2, <1>5, <1>6, <1>7, <1>8, Zenon DEF IInv
LEMMA StoreKeeps ==
    ASSUME IInv, NEW key \in Keys, NEW val \in Vals, Store(key, val)
    PROVE  IInv'
<1>1. /\ mem' = [mem EXCEPT ![key] = val] /\ settled' = settled \ {key}
      /\ UNCHANGED <<futexes, pc, waiter, waker, armed, timer, timed_out, ret, sig, woken>>
  BY Zenon DEF Store, thvars
<1>2. Types'
  BY <1>1, Zenon DEF IInv, Types
<1>3. NoLostWakeup'
  <2>1. \A k \in settled' : k \in settled /\ mem'[k] = mem[k]
    BY <1>1, Zenon DEF IInv, Types
  <2> QED BY <1>1, <2>1, Zenon DEF IInv, NoLostWakeup
<1> QED BY <1>1, <1>2, <1>3, Zenon DEF IInv, Listed, Blocked, Bucket, Wakeable, WokenForAReason

LEMMA SignalKeeps ==
    ASSUME IInv, NEW t \in Threads, Signal(t)
    PROVE  IInv'
<1>1. /\ sig' = [sig EXCEPT ![t] = TRUE]
      /\ pc' = [pc EXCEPT ![t] = IF pc[t] = "parked" THEN "ready" ELSE pc[t]]
      /\ UNCHANGED <<mem, futexes, waiter, waker, armed, timer, timed_out, ret, woken, settled>>
  BY Zenon DEF Signal
<1>2. Types'
  BY <1>1, Zenon DEF IInv, Types
<1>3. /\ sig'[t] /\ pc'[t] = (IF pc[t] = "parked" THEN "ready" ELSE pc[t])
      /\ \A u \in Threads \ {t} : sig'[u] = sig[u] /\ pc'[u] = pc[u]
  BY <1>1, Zenon DEF IInv, Types
<1>4. \A u \in Threads : Blocked(u)' <=> Blocked(u)
  BY <1>3, Zenon DEF Blocked
<1>5. Listed'
  BY <1>1, <1>4, Zenon DEF IInv, Listed, Bucket
<1>6. Wakeable'
  <2>1. \A u \in Threads : pc'[u] = "parked" => pc[u] = "parked"
    BY <1>3, Zenon
  <2> QED BY <1>1, <1>4, <2>1, Zenon DEF IInv, Wakeable
<1>7. WokenForAReason'
  <2>1. ASSUME NEW u \in Threads, pc'[u] = "ready", waker[u]
        PROVE  (armed[u] /\ sig'[u]) \/ timed_out[u]
    BY <1>3, <2>1, Zenon DEF IInv, WokenForAReason, Wakeable
  <2> QED BY <1>1, <2>1, Zenon DEF WokenForAReason
<1>8. NoLostWakeup'
  BY <1>1, Zenon DEF IInv, NoLostWakeup
<1> QED BY <1>2, <1>5, <1>6, <1>7, <1>8, Zenon DEF IInv

LEMMA DeliverSignalKeeps ==
    ASSUME IInv, NEW t \in Threads, DeliverSignal(t)
    PROVE  IInv'
<1>1. /\ pc[t] = "user" /\ sig' = [sig EXCEPT ![t] = FALSE]
      /\ UNCHANGED <<mem, futexes, pc, waiter, waker, armed, timer, timed_out, ret, woken, settled>>
  BY Zenon DEF DeliverSignal, thvars
<1>2. Types'
  BY <1>1, Zenon DEF IInv, Types
<1>3. WokenForAReason'
  <2>1. \A u \in Threads : pc[u] = "ready" => sig'[u] = sig[u]
    BY <1>1, Zenon DEF IInv, Types
  <2> QED BY <1>1, <2>1, Zenon DEF IInv, WokenForAReason
<1> QED BY <1>1, <1>2, <1>3 DEF IInv, Listed, Blocked, Bucket, Wakeable, NoLostWakeup

LEMMA InitIInv == ASSUME Assumptions, Init PROVE IInv
<1>1. Types
  BY NoWaiterType DEF Init, Types, Results
<1>2. \A b \in Buckets : Len(futexes[b]) = 0
  BY Zenon DEF Init
<1>3. Listed
  BY <1>2 DEF Init, Listed, Once, Has, Blocked
<1>4. Wakeable /\ WokenForAReason /\ NoLostWakeup
  BY Zenon DEF Init, Wakeable, Blocked, WokenForAReason, NoLostWakeup
<1> QED BY <1>1, <1>3, <1>4, Zenon DEF IInv

LEMMA NextIInv == ASSUME Assumptions, IInv, [Next]_vars PROVE IInv'
<1>1. CASE UNCHANGED vars
  BY <1>1, ZenonT(60) DEF vars, thvars, IInv, Types, Listed, Blocked, Bucket, Wakeable, WokenForAReason, NoLostWakeup
<1>2. ASSUME NEW t \in Threads,
             \/ \E w \in WaitArgs[t], timeout \in {FALSE, (t \in Timed)} : WaitCheck(t, w, timeout)
             \/ WaitQueue(t) \/ WaitReturn(t) \/ DoWake(t)
             \/ Signal(t) \/ DeliverSignal(t)
      PROVE  IInv'
  <2>1. {FALSE, (t \in Timed)} \subseteq BOOLEAN
    OBVIOUS
  <2> QED BY <1>2, <2>1, WaitCheckKeeps, WaitQueueKeeps, WaitReturnKeeps, DoWakeKeeps, SignalKeeps, DeliverSignalKeeps, Zenon
<1>3. ASSUME NEW k \in Keys,
             \/ \E n \in 1..MaxWake, bitset \in Bitsets : Wake(k, n, bitset)
             \/ \E v \in Vals : Store(k, v)
      PROVE  IInv'
  BY <1>3, WakeKeeps, StoreKeeps, Zenon
<1> QED BY <1>1, <1>2, <1>3, Zenon DEF Next

LEMMA Invariance == ASSUME Assumptions PROVE Spec => []IInv
<1>1. Init => IInv
  BY InitIInv, Zenon
<1>2. IInv /\ [Next]_vars => IInv'
  BY NextIInv, Zenon
<1> QED BY <1>1, <1>2, PTL DEF Spec

-----------------------------------------------------------------------------
(* The theorems.                                                           *)

LEMMA TypesHold == ASSUME IInv PROVE TypeOK
<1>1. \A b \in Buckets : Entries(b) \subseteq Threads
  BY DEF IInv, Types, Entries
<1> QED BY <1>1, Zenon DEF IInv, Types, TypeOK

(* A list without repetitions is as long as the set of its entries.        *)
LEMMA LengthIsSize ==
    ASSUME NEW S, NEW q \in Seq(S), Once(q)
    PROVE  Len(q) = Cardinality({q[i] : i \in 1..Len(q)})
<1> DEFINE T == {q[i] : i \in 1..Len(q)}
           f == [i \in 1..Len(q) |-> q[i]]
<1>1. f \in Bijection(1..Len(q), T)
  <2>1. f \in [1..Len(q) -> T]
    BY Zenon
  <2>2. \A i, j \in 1..Len(q) : f[i] = f[j] => i = j
    BY Zenon DEF Once
  <2>3. \A x \in T : \E i \in 1..Len(q) : f[i] = x
    BY Zenon
  <2> QED BY <2>1, <2>2, <2>3, Zenon DEF Bijection, Injection, Surjection, IsInjective
<1>2. ExistsBijection(1..Len(q), T)
  BY <1>1, Zenon DEF ExistsBijection
<1>3. IsFiniteSet(1..Len(q)) /\ Cardinality(1..Len(q)) = Len(q)
  <2>1. Len(q) \in Nat /\ Len(q) \in Int /\ 1 \in Int
    OBVIOUS
  <2>2. IsFiniteSet(1..Len(q)) /\ Cardinality(1..Len(q)) = IF 1 > Len(q) THEN 0 ELSE Len(q) - 1 + 1
    BY <2>1, FS_Interval, Zenon
  <2> QED BY <2>1, <2>2
<1> QED BY <1>2, <1>3, FS_Bijection, Zenon

(* However waits end, by a wake, a timeout or a signal, a bucket lists     *)
(* exactly the waiters of its words that are blocked and not woken.        *)
THEOREM ListsExact ==
    ASSUME Assumptions PROVE Spec => [](TypeOK /\ BucketsHoldWaiters)
<1>1. ASSUME IInv PROVE BucketsHoldWaiters
  <2>1. ASSUME NEW b \in Buckets
        PROVE  /\ Entries(b) = {t \in Threads : pc[t] \in {"parked", "ready"} /\ waker[t] /\ Bucket(t) = b}
               /\ Len(futexes[b]) = Cardinality(Entries(b))
    <3>1. futexes[b] \in Seq(Threads) /\ Once(futexes[b])
      BY <1>1, Zenon DEF IInv, Types, Listed
    <3>2. \A x : x \in Entries(b) <=> Has(futexes[b], x)
      BY Zenon DEF Entries, Has
    <3>3. Entries(b) \subseteq Threads
      BY <3>1 DEF Entries
    <3>4. Entries(b) = {t \in Threads : pc[t] \in {"parked", "ready"} /\ waker[t] /\ Bucket(t) = b}
      BY <1>1, <3>2, <3>3, Zenon DEF IInv, Listed, Blocked
    <3>5. Len(futexes[b]) = Cardinality(Entries(b))
      BY <3>1, LengthIsSize, Zenon DEF Entries
    <3> QED BY <3>4, <3>5, Zenon
  <2> QED BY <2>1, Zenon DEF BucketsHoldWaiters
<1>2. IInv => TypeOK /\ BucketsHoldWaiters
  BY <1>1, TypesHold, Zenon
<1> QED BY <1>2, Invariance, PTL

(* The second read of the word under the bucket lock is enough: nobody     *)
(* sleeps on an old value once all waiters have been woken; and who runs   *)
(* without having been woken was signalled or timed out.                   *)
THEOREM NoWakeupLost ==
    ASSUME Assumptions PROVE Spec => [](NoLostWakeup /\ WokenForAReason)
<1>1. IInv => NoLostWakeup /\ WokenForAReason
  BY Zenon DEF IInv
<1> QED BY <1>1, Invariance, PTL
(* Only Wake counts waiters, and only its own return takes one back to the *)
(* program.                                                                *)
LEMMA WhoWakes ==
    ASSUME Assumptions, IInv, [Next]_vars
    PROVE  \/ woken' \subseteq woken
           \/ \E k \in Keys, n \in 1..MaxWake, bitset \in Bitsets : Wake(k, n, bitset)
<1>1. \A t \in Threads : \A r : Return(t, r) => woken' \subseteq woken
  BY Zenon DEF Return
<1>2. ASSUME NEW t \in Threads, NEW w, NEW timeout, WaitCheck(t, w, timeout) PROVE woken' \subseteq woken
  BY <1>1, <1>2, Zenon DEF WaitCheck
<1>3. ASSUME NEW t \in Threads, WaitQueue(t) PROVE woken' \subseteq woken
  BY <1>1, <1>3, Zenon DEF WaitQueue, Block
<1>4. ASSUME NEW t \in Threads, WaitReturn(t) PROVE woken' \subseteq woken
  BY <1>1, <1>4, Zenon DEF WaitReturn
<1>5. ASSUME NEW t \in Threads, DoWake(t) \/ Signal(t) \/ DeliverSignal(t) PROVE woken' \subseteq woken
  BY <1>5, Zenon DEF DoWake, Signal, DeliverSignal
<1>6. ASSUME NEW k, NEW v, Store(k, v) PROVE woken' \subseteq woken
  BY <1>6, Zenon DEF Store
<1>7. CASE UNCHANGED vars
  BY <1>7, Zenon DEF vars
<1>8. CASE Next
  BY <1>2, <1>3, <1>4, <1>5, <1>6, <1>8, Zenon DEF Next
<1> QED BY <1>7, <1>8, Zenon

LEMMA WhoReturns ==
    ASSUME Assumptions, IInv, [Next]_vars, NEW t \in Threads, pc[t] = "ready", pc'[t] = "user"
    PROVE  WaitReturn(t)
<1>0. pc \in [Threads -> {"user", "checked", "parked", "ready"}]
  BY Zenon DEF IInv, Types
<1>1. ASSUME NEW u \in Threads, NEW where, pc' = [pc EXCEPT ![u] = where] PROVE u = t
  BY <1>0, <1>1, Zenon
<1>2. ASSUME NEW u \in Threads, NEW w, NEW timeout, WaitCheck(u, w, timeout) PROVE FALSE
  <2>1. PICK where : pc' = [pc EXCEPT ![u] = where]
    BY <1>2, Zenon DEF WaitCheck, Return
  <2>2. u = t
    BY <1>1, <2>1, Zenon
  <2> QED BY <1>2, <2>2, Zenon DEF WaitCheck
<1>3. ASSUME NEW u \in Threads, WaitQueue(u) PROVE FALSE
  <2>1. PICK where : pc' = [pc EXCEPT ![u] = where]
    BY <1>3, Zenon DEF WaitQueue, Return, Block
  <2>2. u = t
    BY <1>1, <2>1, Zenon
  <2> QED BY <1>3, <2>2, Zenon DEF WaitQueue
<1>4. ASSUME NEW u \in Threads, WaitReturn(u) PROVE u = t
  <2>1. PICK where : pc' = [pc EXCEPT ![u] = where]
    BY <1>4, Zenon DEF WaitReturn, Return
  <2> QED BY <1>1, <2>1, Zenon
<1>5. ASSUME NEW ts, WakeThreads(ts) PROVE FALSE
  BY <1>5, Zenon DEF WakeThreads
<1>6. ASSUME NEW u \in Threads, DoWake(u) PROVE FALSE
  BY <1>5, <1>6, Zenon DEF DoWake
<1>7. ASSUME NEW u \in Threads, Signal(u) PROVE FALSE
  BY <1>0, <1>7, Zenon DEF Signal
<1>8. ASSUME NEW u \in Threads, DeliverSignal(u) PROVE FALSE
  BY <1>8, Zenon DEF DeliverSignal, thvars
<1>9. ASSUME NEW k, NEW n, NEW bitset, Wake(k, n, bitset) PROVE FALSE
  BY <1>5, <1>9, Zenon DEF Wake
<1>10. ASSUME NEW k, NEW v, Store(k, v) PROVE FALSE
  BY <1>10, Zenon DEF Store, thvars
<1>11. CASE UNCHANGED vars
  BY <1>11, Zenon DEF vars, thvars
<1>12. CASE Next
  BY <1>2, <1>3, <1>4, <1>6, <1>7, <1>8, <1>9, <1>10, <1>12, ZenonT(60) DEF Next
<1> QED BY <1>11, <1>12, Zenon

(* Wake serves the oldest waiters first, and a Wait reports success        *)
(* exactly when a Wake has counted it.                                     *)
THEOREM FairAndCounted ==
    ASSUME Assumptions PROVE Spec => [][OldestFirst /\ WakeCountIsExact]_vars
<1>1. ASSUME IInv, [Next]_vars PROVE WakeCountIsExact
  <2>1. ASSUME NEW t \in Threads, pc[t] = "ready", pc'[t] = "user" PROVE ret' = "OK" <=> t \in woken
    <3>1. WaitReturn(t)
      BY <1>1, <2>1, WhoReturns, Zenon
    <3>2. armed[t] \/ ~waker[t] \/ timed_out[t]
      BY <1>1, <2>1, Zenon DEF IInv, WokenForAReason
    <3>3. ret' = IF ~waker[t] THEN "OK" ELSE IF armed[t] THEN "EINTR" ELSE "ETIMEDOUT"
      BY <3>1, <3>2, Zenon DEF WaitReturn, Return
    <3>4. t \in woken <=> ~waker[t]
      BY <1>1, <2>1, Zenon DEF IInv, Wakeable, Blocked
    <3> QED BY <3>3, <3>4, Zenon
  <2> QED BY <2>1, Zenon DEF WakeCountIsExact
<1>2. ASSUME IInv, [Next]_vars PROVE OldestFirst
  <2> SUFFICES ASSUME NEW b \in Buckets, NEW i \in 1..Len(futexes[b]), NEW j \in 1..Len(futexes[b]), i < j,
                      waiter[futexes[b][i]].key = waiter[futexes[b][j]].key,
                      waiter[futexes[b][j]].bitset \subseteq waiter[futexes[b][i]].bitset,
                      futexes[b][j] \in woken', futexes[b][j] \notin woken
               PROVE  futexes[b][i] \in woken'
    BY Zenon DEF OldestFirst
  <2> DEFINE older == futexes[b][i]
             younger == futexes[b][j]
  <2>1. PICK key \in Keys, n \in 1..MaxWake, bitset \in Bitsets : Wake(key, n, bitset)
    BY <1>2, WhoWakes, Zenon
  <2> DEFINE q == futexes[BucketOf[key]]
             match == {k \in 1..Len(q) : waiter[q[k]].key = key /\ waiter[q[k]].bitset \cap bitset # {}}
             Before(k) == {m \in match : m < k}
  <2>2. woken' = woken \cup Chosen(key, n, bitset)
    BY <2>1, Zenon DEF Wake
  <2>3. Chosen(key, n, bitset) = {q[k] : k \in {m \in match : Cardinality(Before(m)) < n}}
    BY Zenon DEF Chosen
  <2>4. BucketOf[key] \in Buckets /\ q \in Seq(Threads) /\ futexes[b] \in Seq(Threads) /\ Once(q)
    BY <1>2, Zenon DEF Assumptions, IInv, Types, Listed
  <2>5. PICK k \in match : Cardinality(Before(k)) < n /\ q[k] = younger
    BY <2>2, <2>3, Zenon
  <2>6. k \in 1..Len(q) /\ waiter[q[k]].key = key /\ waiter[q[k]].bitset \cap bitset # {}
    BY Zenon
  <2>7. BucketOf[key] = b
    <3>1. Has(futexes[b], younger) /\ Has(q, younger) /\ younger \in Threads
      <4>1. Has(futexes[b], younger)
        BY Zenon DEF Has
      <4>2. Has(q, younger)
        BY <2>5, <2>6, ZenonT(60) DEF Has
      <4>3. younger \in Threads
        BY <2>4
      <4> QED BY <4>1, <4>2, <4>3, Zenon
    <3>2. \A c \in Buckets : Has(futexes[c], younger) => Bucket(younger) = c
      <4> HIDE DEF younger
      <4> QED BY <1>2, <3>1, Zenon DEF IInv, Listed
    <3> HIDE DEF younger
    <3>3. Bucket(younger) = b
      BY <3>1, <3>2, Zenon
    <3>4. Bucket(younger) = BucketOf[key]
      BY <2>4, <3>1, <3>2, Zenon
    <3> QED BY <3>3, <3>4, Zenon
  <2>8. k = j
    BY <2>4, <2>5, <2>6, <2>7, Zenon DEF Once
  <2>9. i \in match
    BY <2>5, <2>6, <2>7, <2>8, Zenon
  <2>10. Cardinality(Before(i)) <= Cardinality(Before(j)) /\ Cardinality(Before(i)) \in Nat /\ Cardinality(Before(j)) \in Nat
    <3>1. IsFiniteSet(1..Len(q)) /\ Before(j) \in SUBSET (1..Len(q))
      <4>1. Len(q) \in Int /\ 1 \in Int
        BY <2>4
      <4> QED BY <4>1, FS_Interval, ZenonT(60)
    <3>2. Before(i) \in SUBSET Before(j)
      BY <2>4, <2>7
    <3> HIDE DEF Before
    <3> QED BY <3>1, <3>2, FS_Subset, FS_CardinalityType, Zenon
  <2>11. Cardinality(Before(i)) < n
    <3>1. Cardinality(Before(j)) < n
      BY <2>5, <2>8, ZenonT(60)
    <3>2. n \in Int
      BY DEF Assumptions
    <3> HIDE DEF Before, match
    <3> QED BY <2>10, <3>1, <3>2
  <2>12. q[i] \in Chosen(key, n, bitset)
    BY <2>3, <2>9, <2>11, Zenon
  <2> QED BY <2>2, <2>7, <2>12, Zenon
<1>3. IInv /\ [Next]_vars => [OldestFirst /\ WakeCountIsExact]_vars
  BY <1>1, <1>2, Zenon
<1> QED BY <1>3, Invariance, PTL DEF Spec
============================================================================
