----------------------------- MODULE PipeProofs -----------------------------
(***************************************************************************)
(* Proofs about Pipe for a ring of any size whose indices wrap anywhere,   *)
(* any calls, and one reader and one writer ("a lock-free FIFO of bytes    *)
(* for a single reader & writer", base/byte_channel.h:1).                  *)
(***************************************************************************)
EXTENDS Pipe, SequenceTheorems, TLAPS

OneOfEach == (\A r, s \in Readers : r = s) /\ (\A v, w \in Writers : v = w)

-----------------------------------------------------------------------------
(* The difference of two indices, without the wrapping.                    *)
LEMMA Difference ==
    ASSUME NEW a \in 0..(Modulus - 1), NEW b \in 0..(Modulus - 1)
    PROVE  (a - b) % Modulus = IF a >= b THEN a - b ELSE a - b + Modulus
<1>1. Modulus \in Nat \ {0}
  BY SizeAssumption
<1>2. CASE a >= b
  BY <1>1, <1>2
<1>3. CASE a < b
  BY <1>1, <1>3
<1> QED BY <1>1, <1>2, <1>3

(* What fits in the ring never makes it as long as the indices.            *)
LEMMA Fits ==
    ASSUME NEW u \in 0..Size, NEW n \in Nat, n <= Size - u
    PROVE  u + n < Modulus
BY SizeAssumption

LEMMA Sum ==
    ASSUME NEW a \in 0..(Modulus - 1), NEW n \in 0..(Modulus - 1)
    PROVE  (a + n) % Modulus = IF a + n < Modulus THEN a + n ELSE a + n - Modulus
<1>1. Modulus \in Nat \ {0}
  BY SizeAssumption
<1>2. CASE a + n < Modulus
  BY <1>1, <1>2
<1>3. CASE a + n >= Modulus
  BY <1>1, <1>3
<1> QED BY <1>1, <1>2, <1>3

LEMMA Remainder ==
    ASSUME NEW x \in Int
    PROVE  x % Size \in 0..(Size - 1)
BY SizeAssumption

(* What is in the ring, and how it changes when an index moves.            *)
LEMMA UsedRange ==
    ASSUME NEW a \in 0..(Modulus - 1), NEW b \in 0..(Modulus - 1)
    PROVE  (a - b) % Modulus \in 0..(Modulus - 1) /\ ((a - b) % Modulus = 0 <=> a = b)
<1>1. Modulus \in Nat \ {0}
  BY SizeAssumption
<1>2. (a - b) % Modulus = IF a >= b THEN a - b ELSE a - b + Modulus
  BY Difference, Zenon
<1> QED BY <1>1, <1>2

LEMMA MovedOut ==
    ASSUME NEW a \in 0..(Modulus - 1), NEW b \in 0..(Modulus - 1), NEW n \in Nat, n <= (a - b) % Modulus
    PROVE  /\ (b + n) % Modulus \in 0..(Modulus - 1)
           /\ (a - ((b + n) % Modulus)) % Modulus = ((a - b) % Modulus) - n
<1> DEFINE u == (a - b) % Modulus
           c == (b + n) % Modulus
<1>1. Modulus \in Nat \ {0}
  BY SizeAssumption
<1>2. u = (IF a >= b THEN a - b ELSE a - b + Modulus) /\ n <= u
  BY Difference, Zenon
<1>3. u \in 0..(Modulus - 1)
  BY UsedRange, Zenon
<1>4. n \in 0..(Modulus - 1)
  BY <1>1, <1>2, <1>3
<1>5. c = IF b + n < Modulus THEN b + n ELSE b + n - Modulus
  BY <1>4, Sum, Zenon
<1>6. c \in 0..(Modulus - 1)
  BY <1>1, <1>4, <1>5
<1>7. (a - c) % Modulus = IF a >= c THEN a - c ELSE a - c + Modulus
  BY <1>6, Difference, Zenon
<1> HIDE DEF u, c
<1>8. (a - c) % Modulus = u - n
  BY <1>1, <1>2, <1>4, <1>5, <1>6, <1>7
<1> QED BY <1>6, <1>8, Zenon DEF u, c

LEMMA MovedIn ==
    ASSUME NEW a \in 0..(Modulus - 1), NEW b \in 0..(Modulus - 1), NEW n \in Nat, ((a - b) % Modulus) + n < Modulus
    PROVE  /\ (a + n) % Modulus \in 0..(Modulus - 1)
           /\ (((a + n) % Modulus) - b) % Modulus = ((a - b) % Modulus) + n
<1> DEFINE u == (a - b) % Modulus
           c == (a + n) % Modulus
<1>1. Modulus \in Nat \ {0}
  BY SizeAssumption
<1>2. u = (IF a >= b THEN a - b ELSE a - b + Modulus) /\ u + n < Modulus
  BY Difference, Zenon
<1>3. u \in 0..(Modulus - 1)
  BY UsedRange, Zenon
<1>4. n \in 0..(Modulus - 1)
  BY <1>1, <1>2, <1>3
<1>5. c = IF a + n < Modulus THEN a + n ELSE a + n - Modulus
  BY <1>4, Sum, Zenon
<1>6. c \in 0..(Modulus - 1)
  BY <1>1, <1>4, <1>5
<1>7. (c - b) % Modulus = IF c >= b THEN c - b ELSE c - b + Modulus
  BY <1>6, Difference, Zenon
<1> HIDE DEF u, c
<1>8. (c - b) % Modulus = u + n
  BY <1>1, <1>2, <1>4, <1>5, <1>6, <1>7
<1> QED BY <1>6, <1>8, Zenon DEF u, c

-----------------------------------------------------------------------------
(* The inductive invariant.                                                *)
OpType == [nonblocking : BOOLEAN, peek : BOOLEAN, buf : Seq(Bytes), len : Nat, n : Nat, at : Nat]

ReaderPc == {"idle", "parked", "ready",
             "r_load", "r_copy", "r_store", "r_clear", "r_wake", "r_closed", "r_empty", "r_wait"}
WriterPc == {"idle", "parked", "ready",
             "w_load", "w_copy", "w_store", "w_clear", "w_wake", "w_wait"}

(* Everybody is in their own code.                                         *)
Places ==
    /\ pc \in [Procs -> PcValues] /\ op \in [Procs -> OpType] /\ sig \in [Procs -> BOOLEAN]
    /\ \A r \in Readers : pc[r] \in ReaderPc
    /\ \A w \in Writers : pc[w] \in WriterPc

(* The indices, and what each side still knows of them since it looked:    *)
(* only the other side has moved, which makes more data and more room.     *)
Ring ==
    /\ in_ \in 0..(Modulus - 1) /\ out_ \in 0..(Modulus - 1) /\ Used <= Size
    /\ buf_ \in [0..(Size - 1) -> Bytes]
    /\ \A r \in Readers : pc[r] \in {"r_copy", "r_store"} =>
          op[r].at = out_ /\ op[r].n > 0 /\ op[r].n <= Used
    /\ \A w \in Writers : pc[w] \in {"w_copy", "w_store"} =>
          /\ op[w].at = in_ /\ op[w].n > 0 /\ op[w].n <= Size - Used
          /\ op[w].n <= Len(op[w].buf)

Flags ==
    /\ reader_closed_ \in BOOLEAN /\ writer_closed_ \in BOOLEAN /\ locked \in BOOLEAN
    /\ read_waker_ \in Readers \cup {None} /\ write_waker_ \in Writers \cup {None}
    /\ read_poll_ \subseteq {"In", "HUp"} /\ write_poll_ \subseteq {"Out", "Err"}

(* A sleeper is armed, and both ends are open.                             *)
Armed ==
    /\ \A r \in Readers : pc[r] = "parked" => read_waker_ = r /\ ~reader_closed_ /\ ~writer_closed_
    /\ \A w \in Writers : pc[w] = "parked" => write_waker_ = w /\ ~reader_closed_ /\ ~writer_closed_

(* Who has yet to correct a mask that is out of date.                      *)
Masks ==
    /\ ~reader_closed_ =>
          /\ "In" \in read_poll_ /\ is_empty => \E r \in Readers : pc[r] = "r_clear"
          /\ "In" \notin read_poll_ /\ ~is_empty => \E w \in Writers : pc[w] \in {"w_clear", "w_wake"}
          /\ "HUp" \in read_poll_ <=> writer_closed_
    /\ ~writer_closed_ =>
          /\ "Out" \in write_poll_ /\ is_full => \E w \in Writers : pc[w] = "w_clear"
          /\ "Out" \notin write_poll_ /\ ~is_full => \E r \in Readers : pc[r] \in {"r_clear", "r_wake"}
          /\ "Err" \in write_poll_ <=> reader_closed_

IInv == Places /\ Ring /\ Flags /\ Armed /\ Masks /\ SleepersWillBeWoken

-----------------------------------------------------------------------------
LEMMA IsSeq ==
    ASSUME NEW n \in Nat, NEW b \in [1..n -> Bytes]
    PROVE  b \in Seq(Bytes)
BY SeqDef, Zenon

(* What the steps write into their locals is of the right type.            *)
LEMMA OpDone ==
    ASSUME NEW f \in [Procs -> OpType], NEW p \in Procs
    PROVE  [f EXCEPT ![p] = NoOp] \in [Procs -> OpType]
<1>1. <<>> \in Seq(Bytes) /\ 0 \in Nat /\ FALSE \in BOOLEAN
  OBVIOUS
<1>2. NoOp \in OpType
  BY <1>1, Zenon DEF NoOp, OpType
<1> QED BY <1>2, Zenon

LEMMA OpAsksRead ==
    ASSUME NEW f \in [Procs -> OpType], NEW p \in Procs, NEW len \in Nat, NEW nb \in BOOLEAN, NEW pk \in BOOLEAN
    PROVE  [f EXCEPT ![p].len = len, ![p].nonblocking = nb, ![p].peek = pk] \in [Procs -> OpType]
<1>1. [f[p] EXCEPT !.len = len, !.nonblocking = nb, !.peek = pk] \in OpType
  BY Zenon DEF OpType
<1> QED BY <1>1, Zenon

LEMMA OpAsksWrite ==
    ASSUME NEW f \in [Procs -> OpType], NEW p \in Procs, NEW b \in Seq(Bytes), NEW nb \in BOOLEAN
    PROVE  [f EXCEPT ![p].buf = b, ![p].nonblocking = nb] \in [Procs -> OpType]
<1>1. [f[p] EXCEPT !.buf = b, !.nonblocking = nb] \in OpType
  BY Zenon DEF OpType
<1> QED BY <1>1, Zenon

LEMMA OpLoads ==
    ASSUME NEW f \in [Procs -> OpType], NEW p \in Procs, NEW n \in Nat, NEW at \in Nat
    PROVE  [f EXCEPT ![p].n = n, ![p].at = at] \in [Procs -> OpType]
<1>1. [f[p] EXCEPT !.n = n, !.at = at] \in OpType
  BY Zenon DEF OpType
<1> QED BY <1>1, Zenon

LEMMA OpCopies ==
    ASSUME NEW f \in [Procs -> OpType], NEW p \in Procs, NEW b \in Seq(Bytes)
    PROVE  [f EXCEPT ![p].buf = b] \in [Procs -> OpType]
<1>1. [f[p] EXCEPT !.buf = b] \in OpType
  BY ZenonT(60) DEF OpType
<1> QED BY <1>1, Zenon

LEMMA StepIInv ==
    ASSUME OneOfEach, IInv, [Next]_vars
    PROVE  IInv'
<1>1. /\ \A r \in Readers : r \in Procs /\ r \notin Writers /\ r # None
      /\ \A w \in Writers : w \in Procs /\ w \notin Readers /\ w # None
      /\ \A p \in Procs : p \in Readers \/ p \in Writers
  BY ThreadsAssumption, Zenon DEF Procs
<1>2. Places /\ Ring /\ Flags /\ Armed /\ Masks /\ SleepersWillBeWoken
  BY Zenon DEF IInv
<1>3. Size \in Nat \ {0} /\ Modulus \in Nat \ {0} /\ Size < Modulus
  BY SizeAssumption
<1>4. /\ Used \in 0..Size /\ (is_empty <=> Used = 0) /\ (is_full <=> Used = Size)
      /\ in_ \in Nat /\ out_ \in Nat
  <2>1. in_ \in 0..(Modulus - 1) /\ out_ \in 0..(Modulus - 1) /\ Used <= Size
    BY <1>2, Zenon DEF Ring
  <2>2. Used \in 0..(Modulus - 1) /\ (Used = 0 <=> in_ = out_)
    BY <2>1, UsedRange, Zenon DEF Used
  <2> QED BY <1>3, <2>1, <2>2 DEF is_empty, is_full
<1>5. ASSUME NEW p \in Procs
      PROVE  op[p].len \in Nat /\ op[p].n \in Nat /\ op[p].at \in Nat /\ op[p].buf \in Seq(Bytes)
  BY <1>2, Zenon DEF Places, OpType
<1>6. ASSUME NEW p \in Procs, op' = [op EXCEPT ![p] = NoOp] \/ op' = op
      PROVE  op' \in [Procs -> OpType]
  BY <1>2, <1>6, OpDone DEF Places
<1>7. ASSUME NEW r \in Readers, NEW c \in Reads, ReadCall(r, c.len, c.nonblocking, c.peek)
      PROVE  IInv'
  <2>1. Places'
    <3>1. op' \in [Procs -> OpType]
      <4>1. c.len \in Nat /\ c.nonblocking \in BOOLEAN /\ c.peek \in BOOLEAN
        BY <1>7, CallsAssumption, Zenon
      <4>2. op \in [Procs -> OpType] /\ r \in Procs
        BY <1>1, <1>2, Zenon DEF Places
      <4>3. op' = [op EXCEPT ![r].len = c.len, ![r].nonblocking = c.nonblocking, ![r].peek = c.peek]
        BY <1>7, Zenon DEF ReadCall
      <4> QED BY <4>1, <4>2, <4>3, OpAsksRead, ZenonT(60)
    <3>2. /\ pc' \in [Procs -> PcValues]
          /\ \A p \in Readers : pc'[p] \in ReaderPc
          /\ \A w \in Writers : pc'[w] \in WriterPc
      BY <1>1, <1>2, <1>7, Zenon DEF ReadCall, Goto, Places, ReaderPc, WriterPc, PcValues
    <3> QED BY <1>2, <1>7, <3>1, <3>2, Zenon DEF Places, ReadCall
  <2>2. Ring'
    BY <1>1, <1>2, <1>7, Zenon DEF ReadCall, OneOfEach, Goto, Ring, Used, Places, chan
  <2>3. Flags'
    BY <1>1, <1>2, <1>7, Zenon DEF ReadCall, Goto, Flags, closed, wakers, polls
  <2>4. Armed'
    BY <1>1, <1>2, <1>7, Zenon DEF ReadCall, OneOfEach, Goto, Armed, Places, closed, wakers
  <2>5. Masks'
    BY <1>1, <1>2, <1>7, Zenon
    DEF ReadCall, OneOfEach, Goto, Masks, Places, is_empty, is_full, Used, chan, closed, polls
  <2>6. SleepersWillBeWoken'
    BY <1>1, <1>2, <1>7, Zenon
    DEF ReadCall, OneOfEach, Goto, SleepersWillBeWoken, Places, Armed, is_empty, is_full, Used, chan, closed, wakers
  <2> QED BY <2>1, <2>2, <2>3, <2>4, <2>5, <2>6, Zenon DEF IInv
<1>8. ASSUME NEW r \in Readers, ReadLoad(r) PROVE IInv'
  <2>1. Places'
    <3>1. op' \in [Procs -> OpType]
      <4>1. Min2(Used, op[r].len) \in Nat
        BY <1>1, <1>3, <1>4, <1>5 DEF Min2
      <4> QED BY <1>1, <1>2, <1>4, <1>5, <1>8, <4>1, OpLoads, ZenonT(60) DEF ReadLoad, Places
    <3>2. /\ pc' \in [Procs -> PcValues]
          /\ \A p \in Readers : pc'[p] \in ReaderPc
          /\ \A w \in Writers : pc'[w] \in WriterPc
      BY <1>1, <1>2, <1>8, Zenon DEF ReadLoad, Goto, Places, ReaderPc, WriterPc, PcValues
    <3> QED BY <1>2, <1>8, <3>1, <3>2, Zenon DEF Places, ReadLoad
  <2>2. Ring'
    <3> DEFINE m == Min2(Used, op[r].len)
    <3>1. m \in Nat /\ m <= Used
      BY <1>1, <1>4, <1>5 DEF Min2
    <3>2. /\ UNCHANGED chan /\ pc'[r] # "r_store" /\ (pc'[r] = "r_copy" => m > 0)
          /\ \A w \in Writers : pc'[w] = pc[w] /\ op'[w] = op[w]
      BY <1>1, <1>2, <1>8, Zenon DEF ReadLoad, Goto, Places
    <3>3. op'[r].n = m /\ op'[r].at = out_
      BY <1>1, <1>2, <1>8, Zenon DEF ReadLoad, Places, OpType
    <3> HIDE DEF m
    <3> QED BY <1>1, <1>2, <3>1, <3>2, <3>3 DEF Ring, Used, OneOfEach, chan
  <2>3. Flags'
    BY <1>1, <1>2, <1>8, Zenon DEF ReadLoad, Goto, Flags, closed, wakers, polls
  <2>4. Armed'
    BY <1>1, <1>2, <1>8, Zenon DEF ReadLoad, OneOfEach, Goto, Armed, Places, closed, wakers
  <2>5. Masks'
    BY <1>1, <1>2, <1>8, Zenon
    DEF ReadLoad, OneOfEach, Goto, Masks, Places, is_empty, is_full, Used, chan, closed, polls
  <2>6. SleepersWillBeWoken'
    BY <1>1, <1>2, <1>8, Zenon
    DEF ReadLoad, OneOfEach, Goto, SleepersWillBeWoken, Places, Armed, is_empty, is_full, Used, chan, closed, wakers
  <2> QED BY <2>1, <2>2, <2>3, <2>4, <2>5, <2>6, Zenon DEF IInv
<1>9. ASSUME NEW r \in Readers, ReadCopy(r) PROVE IInv'
  <2>1. Places'
    <3>1. op' \in [Procs -> OpType]
      <4> DEFINE b == [i \in 1..op[r].n |-> buf_[(op[r].at + i - 1) % Size]]
      <4>1. \A i \in 1..op[r].n : (op[r].at + i - 1) % Size \in 0..(Size - 1)
        BY <1>1, <1>3, <1>5
      <4>2. b \in [1..op[r].n -> Bytes]
        BY <1>2, <4>1, Zenon DEF Ring
      <4>3. b \in Seq(Bytes)
        BY <1>1, <1>5, <4>2, IsSeq, Zenon
      <4>4. op' = [op EXCEPT ![r].buf = b]
        BY <1>9, Zenon DEF ReadCopy
      <4> HIDE DEF b
      <4> QED BY <1>1, <1>2, <4>3, <4>4, OpCopies, Zenon DEF Places
    <3>2. /\ pc' \in [Procs -> PcValues]
          /\ \A p \in Readers : pc'[p] \in ReaderPc
          /\ \A w \in Writers : pc'[w] \in WriterPc
      BY <1>1, <1>2, <1>9, Zenon DEF ReadCopy, Goto, Places, ReaderPc, WriterPc, PcValues
    <3> QED BY <1>2, <1>9, <3>1, <3>2, Zenon DEF Places, ReadCopy
  <2>2. Ring'
    BY <1>1, <1>2, <1>9 DEF ReadCopy, OneOfEach, Goto, Ring, Used, Places, chan
  <2>3. Flags'
    BY <1>1, <1>2, <1>9, Zenon DEF ReadCopy, Goto, Flags, closed, wakers, polls
  <2>4. Armed'
    BY <1>1, <1>2, <1>9, Zenon DEF ReadCopy, OneOfEach, Goto, Armed, Places, closed, wakers
  <2>5. Masks'
    BY <1>1, <1>2, <1>9, Zenon
    DEF ReadCopy, OneOfEach, Goto, Masks, Places, is_empty, is_full, Used, chan, closed, polls
  <2>6. SleepersWillBeWoken'
    BY <1>1, <1>2, <1>9, Zenon
    DEF ReadCopy, OneOfEach, Goto, SleepersWillBeWoken, Places, Armed, is_empty, is_full, Used, chan, closed, wakers
  <2> QED BY <2>1, <2>2, <2>3, <2>4, <2>5, <2>6, Zenon DEF IInv
<1>10. ASSUME NEW r \in Readers, ReadStore(r) PROVE IInv'
  <2>1. /\ UNCHANGED <<in_, buf_, op, closed, wakers, polls>> /\ pc'[r] = "r_clear"
        /\ \A w \in Writers : pc'[w] = pc[w]
    BY <1>1, <1>2, <1>10, Zenon DEF ReadStore, Goto, Places
  <2>2. op[r].at = out_ /\ op[r].n > 0 /\ op[r].n <= Used /\ op[r].n \in Nat
    BY <1>1, <1>2, <1>5, <1>10, Zenon DEF Ring, ReadStore
  <2>3. out_' \in 0..(Modulus - 1) /\ Used' \in 0..Used
    <3>1. in_ \in 0..(Modulus - 1) /\ out_ \in 0..(Modulus - 1)
      BY <1>2, Zenon DEF Ring
    <3>2. CASE op[r].peek
      <4>1. out_' = out_
        BY <1>10, <3>2, Zenon DEF ReadStore
      <4> QED BY <1>4, <2>1, <3>1, <4>1 DEF Used
    <3>3. CASE ~op[r].peek
      <4>1. out_' = (out_ + op[r].n) % Modulus
        BY <1>10, <2>2, <3>3, Zenon DEF ReadStore
      <4>2. out_' \in 0..(Modulus - 1) /\ (in_ - out_') % Modulus = Used - op[r].n
        BY <2>2, <3>1, <4>1, MovedOut, Zenon DEF Used
      <4>3. Used' = Used - op[r].n
        BY <2>1, <4>2, Zenon DEF Used
      <4> QED BY <1>4, <2>2, <4>2, <4>3
    <3> QED BY <3>2, <3>3, Zenon
  <2>4. ~is_empty /\ (is_full' => is_full)
    BY <1>3, <1>4, <2>2, <2>3 DEF is_full
  <2>5. Places'
    BY <1>1, <1>2, <1>10, Zenon DEF ReadStore, Goto, Places, ReaderPc, WriterPc, PcValues
  <2>6. Ring'
    <3>1. \A w \in Writers : pc[w] \in {"w_copy", "w_store"} => op[w].n <= Size - Used'
      BY <1>1, <1>2, <1>3, <1>4, <1>5, <2>3 DEF Ring
    <3>2. Used' <= Size
      BY <1>3, <1>4, <2>3
    <3> HIDE DEF Used
    <3> QED BY <1>1, <1>2, <2>1, <2>3, <3>1, <3>2, Zenon DEF Ring, OneOfEach
  <2>7. Flags'
    BY <1>1, <1>2, <1>10, Zenon DEF ReadStore, Goto, Flags, closed, wakers, polls
  <2>8. Armed'
    BY <1>1, <1>2, <1>10, Zenon DEF ReadStore, OneOfEach, Goto, Armed, Places, closed, wakers
  <2>9. Masks'
    BY <1>1, <1>2, <2>1, <2>4, Zenon DEF Masks, closed, polls
  <2>10. SleepersWillBeWoken'
    BY <1>1, <1>2, <1>10, Zenon
    DEF ReadStore, OneOfEach, Goto, SleepersWillBeWoken, Places, Armed, is_empty, is_full, Used, closed, wakers
  <2> QED BY <2>5, <2>6, <2>7, <2>8, <2>9, <2>10, Zenon DEF IInv
<1>11. ASSUME NEW r \in Readers, ReadClear(r) PROVE IInv'
  <2>1. Places'
    <3>1. op' \in [Procs -> OpType]
      <4>1. op' = [op EXCEPT ![r] = NoOp] \/ op' = op
        BY <1>11, Zenon DEF ReadClear, Goto, Return
      <4> QED BY <1>1, <1>6, <4>1, Zenon
    <3>2. /\ pc' \in [Procs -> PcValues]
          /\ \A p \in Readers : pc'[p] \in ReaderPc
          /\ \A w \in Writers : pc'[w] \in WriterPc
      BY <1>1, <1>2, <1>11, Zenon DEF ReadClear, Goto, Return, Places, ReaderPc, WriterPc, PcValues
    <3> QED BY <1>2, <1>11, <3>1, <3>2, Zenon DEF Places, ReadClear
  <2>2. Ring'
    BY <1>1, <1>2, <1>11 DEF ReadClear, OneOfEach, Goto, Return, Ring, Used, Places, chan
  <2>3. Flags'
    BY <1>1, <1>2, <1>11, Zenon DEF ReadClear, Goto, Return, Flags, closed, wakers
  <2>4. Armed'
    BY <1>1, <1>2, <1>11, ZenonT(60)
    DEF ReadClear, OneOfEach, Goto, Return, Armed, Places, has_read_poll, closed, wakers
  <2>5. Masks'
    BY <1>1, <1>2, <1>11
    DEF ReadClear, OneOfEach, Goto, Return, Masks, Places, is_empty, is_full, Used, has_read_poll, chan, closed
  <2>6. SleepersWillBeWoken'
    BY <1>1, <1>2, <1>11
    DEF ReadClear, OneOfEach, Goto, Return, SleepersWillBeWoken, Places, Armed, is_empty, is_full, Used, has_read_poll, chan, closed, wakers
  <2> QED BY <2>1, <2>2, <2>3, <2>4, <2>5, <2>6, Zenon DEF IInv
<1>12. ASSUME NEW r \in Readers, ReadWake(r) PROVE IInv'
  <2>1. Places'
    <3>1. op' \in [Procs -> OpType]
      <4>1. op' = [op EXCEPT ![r] = NoOp] \/ op' = op
        BY <1>12, Zenon DEF ReadWake
      <4> QED BY <1>1, <1>6, <4>1, Zenon
    <3>2. /\ pc' \in [Procs -> PcValues]
          /\ \A p \in Readers : pc'[p] \in ReaderPc
          /\ \A w \in Writers : pc'[w] \in WriterPc
      BY <1>1, <1>2, <1>12, Zenon DEF ReadWake, Goto, Ready, Places, ReaderPc, WriterPc, PcValues
    <3> QED BY <1>2, <1>12, <3>1, <3>2, Zenon DEF Places, ReadWake
  <2>2. Ring'
    BY <1>1, <1>2, <1>12 DEF ReadWake, OneOfEach, Goto, Ready, Ring, Used, Places, chan
  <2>3. Flags'
    BY <1>1, <1>2, <1>12, Zenon DEF ReadWake, Goto, Ready, Flags, closed
  <2>4. Armed'
    BY <1>1, <1>2, <1>12, ZenonT(60) DEF ReadWake, OneOfEach, Goto, Ready, Armed, Places, has_write_poll, closed
  <2>5. Masks'
    BY <1>1, <1>2, <1>12
    DEF ReadWake, OneOfEach, Goto, Ready, Masks, Places, is_empty, is_full, Used, has_write_poll, chan, closed
  <2>6. SleepersWillBeWoken'
    BY <1>1, <1>2, <1>12
    DEF ReadWake, OneOfEach, Goto, Ready, SleepersWillBeWoken, Places, Armed, is_empty, is_full, Used, has_write_poll, chan, closed
  <2> QED BY <2>1, <2>2, <2>3, <2>4, <2>5, <2>6, Zenon DEF IInv
<1>13. ASSUME NEW r \in Readers, ReadIsClosed(r) PROVE IInv'
  <2>1. Places'
    <3>1. op' \in [Procs -> OpType]
      <4>1. op' = [op EXCEPT ![r] = NoOp] \/ op' = op
        BY <1>13, Zenon DEF ReadIsClosed, Return
      <4> QED BY <1>1, <1>6, <4>1, Zenon
    <3>2. /\ pc' \in [Procs -> PcValues]
          /\ \A p \in Readers : pc'[p] \in ReaderPc
          /\ \A w \in Writers : pc'[w] \in WriterPc
      BY <1>1, <1>2, <1>13, Zenon DEF ReadIsClosed, Goto, Return, Places, ReaderPc, WriterPc, PcValues
    <3> QED BY <1>2, <1>13, <3>1, <3>2, Zenon DEF Places, ReadIsClosed
  <2>2. Ring'
    BY <1>1, <1>2, <1>13 DEF ReadIsClosed, OneOfEach, Goto, Return, Ring, Used, Places, chan
  <2>3. Flags'
    BY <1>1, <1>2, <1>13, Zenon DEF ReadIsClosed, Goto, Return, Flags, closed, wakers, polls
  <2>4. Armed'
    BY <1>1, <1>2, <1>13, ZenonT(60) DEF ReadIsClosed, OneOfEach, Goto, Return, Armed, Places, closed, wakers
  <2>5. Masks'
    BY <1>1, <1>2, <1>13
    DEF ReadIsClosed, OneOfEach, Goto, Return, Masks, Places, is_empty, is_full, Used, chan, closed, polls
  <2>6. SleepersWillBeWoken'
    BY <1>1, <1>2, <1>13
    DEF ReadIsClosed, OneOfEach, Goto, Return, SleepersWillBeWoken, Places, Armed, is_empty, is_full, Used, chan, closed, wakers
  <2> QED BY <2>1, <2>2, <2>3, <2>4, <2>5, <2>6, Zenon DEF IInv
<1>14. ASSUME NEW r \in Readers, ReadIsEmpty(r) PROVE IInv'
  <2>1. Places'
    <3>1. op' \in [Procs -> OpType]
      <4>1. op' = [op EXCEPT ![r] = NoOp] \/ op' = op
        BY <1>14, Zenon DEF ReadIsEmpty, Return
      <4> QED BY <1>1, <1>6, <4>1, Zenon
    <3>2. /\ pc' \in [Procs -> PcValues]
          /\ \A p \in Readers : pc'[p] \in ReaderPc
          /\ \A w \in Writers : pc'[w] \in WriterPc
      BY <1>1, <1>2, <1>14, Zenon DEF ReadIsEmpty, Goto, Return, Places, ReaderPc, WriterPc, PcValues
    <3> QED BY <1>2, <1>14, <3>1, <3>2, Zenon DEF Places, ReadIsEmpty
  <2>2. Ring'
    BY <1>1, <1>2, <1>14, Zenon DEF ReadIsEmpty, OneOfEach, Goto, Return, Ring, Used, Places, chan
  <2>3. Flags'
    BY <1>1, <1>2, <1>14, Zenon DEF ReadIsEmpty, Goto, Return, Flags, closed, wakers, polls
  <2>4. Armed'
    BY <1>1, <1>2, <1>14, Zenon DEF ReadIsEmpty, OneOfEach, Goto, Return, Armed, Places, closed, wakers
  <2>5. Masks'
    BY <1>1, <1>2, <1>14, Zenon
    DEF ReadIsEmpty, OneOfEach, Goto, Return, Masks, Places, is_empty, is_full, Used, chan, closed, polls
  <2>6. SleepersWillBeWoken'
    BY <1>1, <1>2, <1>14, Zenon
    DEF ReadIsEmpty, OneOfEach, Goto, Return, SleepersWillBeWoken, Places, Armed, is_empty, is_full, Used, chan, closed, wakers
  <2> QED BY <2>1, <2>2, <2>3, <2>4, <2>5, <2>6, Zenon DEF IInv
<1>15. ASSUME NEW r \in Readers, ReadWait(r) PROVE IInv'
  <2>1. Places'
    <3>1. op' \in [Procs -> OpType]
      <4>1. op' = [op EXCEPT ![r] = NoOp] \/ op' = op
        BY <1>15, Zenon DEF ReadWait, Return
      <4> QED BY <1>1, <1>6, <4>1, Zenon
    <3>2. /\ pc' \in [Procs -> PcValues]
          /\ \A p \in Readers : pc'[p] \in ReaderPc
          /\ \A w \in Writers : pc'[w] \in WriterPc
      BY <1>1, <1>2, <1>15 DEF ReadWait, Goto, Return, Places, ReaderPc, WriterPc, PcValues
    <3> QED BY <1>2, <1>15, <3>1, <3>2, Zenon DEF Places, ReadWait
  <2>2. Ring'
    <3>1. UNCHANGED chan /\ pc'[r] \notin {"r_copy", "r_store"} /\ \A w \in Writers : pc'[w] = pc[w] /\ op'[w] = op[w]
      BY <1>1, <1>2, <1>15, ZenonT(60) DEF ReadWait, Goto, Return, Places
    <3> QED BY <1>1, <1>2, <3>1, Zenon DEF Ring, Used, OneOfEach, chan
  <2>3. Flags'
    BY <1>1, <1>2, <1>15, Zenon DEF ReadWait, Goto, Return, Flags, closed, polls
  <2>4. Armed'
    BY <1>1, <1>2, <1>15 DEF ReadWait, OneOfEach, Goto, Return, Armed, Places, closed, is_empty
  <2>5. Masks'
    BY <1>1, <1>2, <1>15
    DEF ReadWait, OneOfEach, Goto, Return, Masks, Places, is_empty, is_full, Used, chan, closed, polls
  <2>6. SleepersWillBeWoken'
    BY <1>1, <1>2, <1>15
    DEF ReadWait, OneOfEach, Goto, Return, SleepersWillBeWoken, Places, Armed, is_empty, is_full, Used, chan, closed
  <2> QED BY <2>1, <2>2, <2>3, <2>4, <2>5, <2>6, Zenon DEF IInv
<1>16. ASSUME NEW w \in Writers, NEW c \in Writes, WriteCall(w, c.buf, c.nonblocking) PROVE IInv'
  <2>1. Places'
    <3>1. op' \in [Procs -> OpType]
      <4>1. c.buf \in Seq(Bytes) /\ c.nonblocking \in BOOLEAN
        BY <1>16, CallsAssumption, Zenon
      <4>2. op \in [Procs -> OpType] /\ w \in Procs
        BY <1>1, <1>2, Zenon DEF Places
      <4>3. op' = [op EXCEPT ![w].buf = c.buf, ![w].nonblocking = c.nonblocking]
        BY <1>16, Zenon DEF WriteCall
      <4> QED BY <4>1, <4>2, <4>3, OpAsksWrite, Zenon
    <3>2. /\ pc' \in [Procs -> PcValues]
          /\ \A r \in Readers : pc'[r] \in ReaderPc
          /\ \A p \in Writers : pc'[p] \in WriterPc
      BY <1>1, <1>2, <1>16, Zenon DEF WriteCall, Goto, Places, ReaderPc, WriterPc, PcValues
    <3> QED BY <1>2, <1>16, <3>1, <3>2, Zenon DEF Places, WriteCall
  <2>2. Ring'
    BY <1>1, <1>2, <1>16, Zenon DEF WriteCall, OneOfEach, Goto, Ring, Used, Places, chan
  <2>3. Flags'
    BY <1>1, <1>2, <1>16, Zenon DEF WriteCall, Goto, Flags, closed, wakers, polls
  <2>4. Armed'
    BY <1>1, <1>2, <1>16, Zenon DEF WriteCall, OneOfEach, Goto, Armed, Places, closed, wakers
  <2>5. Masks'
    BY <1>1, <1>2, <1>16, Zenon
    DEF WriteCall, OneOfEach, Goto, Masks, Places, is_empty, is_full, Used, chan, closed, polls
  <2>6. SleepersWillBeWoken'
    BY <1>1, <1>2, <1>16, Zenon
    DEF WriteCall, OneOfEach, Goto, SleepersWillBeWoken, Places, Armed, is_empty, is_full, Used, chan, closed, wakers
  <2> QED BY <2>1, <2>2, <2>3, <2>4, <2>5, <2>6, Zenon DEF IInv
<1>17. ASSUME NEW w \in Writers, WriteLoad(w) PROVE IInv'
  <2>1. Places'
    <3>1. op' \in [Procs -> OpType]
      <4>1. Min2(Size - Used, Len(op[w].buf)) \in Nat
        BY <1>1, <1>3, <1>4, <1>5 DEF Min2
      <4>2. \/ op' = [op EXCEPT ![w].n = Min2(Size - Used, Len(op[w].buf)), ![w].at = in_]
            \/ op' = [op EXCEPT ![w] = NoOp]
        BY <1>17, Zenon DEF WriteLoad, Return
      <4>3. op \in [Procs -> OpType] /\ w \in Procs /\ in_ \in Nat
        BY <1>1, <1>2, <1>4, Zenon DEF Places
      <4>4. [op EXCEPT ![w].n = Min2(Size - Used, Len(op[w].buf)), ![w].at = in_] \in [Procs -> OpType]
        BY <4>1, <4>3, OpLoads, Zenon
      <4>5. [op EXCEPT ![w] = NoOp] \in [Procs -> OpType]
        BY <4>3, OpDone, Zenon
      <4> QED BY <4>2, <4>4, <4>5, Zenon
    <3>2. /\ pc' \in [Procs -> PcValues]
          /\ \A r \in Readers : pc'[r] \in ReaderPc
          /\ \A p \in Writers : pc'[p] \in WriterPc
      BY <1>1, <1>2, <1>17 DEF WriteLoad, Goto, Return, Places, ReaderPc, WriterPc, PcValues
    <3> QED BY <1>2, <1>17, <3>1, <3>2, Zenon DEF Places, WriteLoad
  <2>2. Ring'
    <3> DEFINE m == Min2(Size - Used, Len(op[w].buf))
    <3>1. m \in Nat /\ m <= Size - Used /\ m <= Len(op[w].buf)
      BY <1>1, <1>3, <1>4, <1>5 DEF Min2
    <3>2. /\ UNCHANGED chan /\ pc'[w] # "w_store"
          /\ \A r \in Readers : pc'[r] = pc[r] /\ op'[r] = op[r]
      BY <1>1, <1>2, <1>17, ZenonT(60) DEF WriteLoad, Goto, Return, Places
    <3>3. ASSUME pc'[w] = "w_copy"
          PROVE  m > 0 /\ op' = [op EXCEPT ![w].n = m, ![w].at = in_]
      BY <1>1, <1>2, <1>17, <3>3, Zenon DEF WriteLoad, Goto, Return, Places
    <3>4. ASSUME pc'[w] = "w_copy"
          PROVE  m > 0 /\ op'[w].n = m /\ op'[w].at = in_ /\ op'[w].buf = op[w].buf
      <4>1. op[w] \in OpType /\ op \in [Procs -> OpType] /\ w \in Procs
        BY <1>1, <1>2, Zenon DEF Places
      <4>2. op'[w] = [op[w] EXCEPT !.n = m, !.at = in_]
        BY <3>3, <3>4, <4>1, Zenon
      <4> QED BY <3>3, <3>4, <4>1, <4>2, Zenon DEF OpType
    <3> HIDE DEF m
    <3> QED BY <1>1, <1>2, <3>1, <3>2, <3>4 DEF Ring, Used, OneOfEach, chan
  <2>3. Flags'
    BY <1>1, <1>2, <1>17, Zenon DEF WriteLoad, Goto, Return, Flags, closed, wakers, polls
  <2>4. Armed'
    BY <1>1, <1>2, <1>17 DEF WriteLoad, OneOfEach, Goto, Return, Armed, Places, closed, wakers
  <2>5. Masks'
    BY <1>1, <1>2, <1>17, ZenonT(60)
    DEF WriteLoad, OneOfEach, Goto, Return, Masks, Places, is_empty, is_full, Used, chan, closed, polls
  <2>6. SleepersWillBeWoken'
    BY <1>1, <1>2, <1>17
    DEF WriteLoad, OneOfEach, Goto, Return, SleepersWillBeWoken, Places, Armed, is_empty, is_full, Used, chan, closed, wakers
  <2> QED BY <2>1, <2>2, <2>3, <2>4, <2>5, <2>6, Zenon DEF IInv
<1>18. ASSUME NEW w \in Writers, WriteCopy(w) PROVE IInv'
  <2>1. Places'
    BY <1>1, <1>2, <1>18, Zenon DEF WriteCopy, Goto, Places, ReaderPc, WriterPc, PcValues
  <2>2. Ring'
    <3>1. ASSUME NEW j \in 0..(Size - 1)
          PROVE  LET i == ((j - op[w].at) % Size) + 1
                 IN  (IF i <= op[w].n THEN op[w].buf[i] ELSE buf_[j]) \in Bytes
      <4> DEFINE i == ((j - op[w].at) % Size) + 1
      <4>1. i \in 1..Size
        <5>1. j - op[w].at \in Int
          BY <1>1, <1>3, <1>5, <3>1
        <5> DEFINE d == j - op[w].at
        <5> HIDE DEF d
        <5>2. d % Size \in 0..(Size - 1)
          BY <5>1, Remainder, Zenon DEF d
        <5>3. (d % Size) + 1 \in 1..Size
          BY <1>3, <5>2
        <5> QED BY <5>3, Zenon DEF d
      <4>2. op[w].n <= Len(op[w].buf) /\ op[w].buf \in Seq(Bytes) /\ buf_[j] \in Bytes /\ op[w].n \in Nat
        BY <1>1, <1>2, <1>5, <1>18, <3>1, Zenon DEF Ring, WriteCopy
      <4> HIDE DEF i
      <4>3. i <= op[w].n => op[w].buf[i] \in Bytes
        BY <1>3, <4>1, <4>2
      <4> QED BY <4>2, <4>3, Zenon DEF i
    <3>2. buf_' \in [0..(Size - 1) -> Bytes]
      BY <1>18, <3>1, Zenon DEF WriteCopy
    <3>3. UNCHANGED <<in_, out_, op>> /\ pc[w] = "w_copy" /\ \A r \in Readers : pc'[r] = pc[r]
      BY <1>1, <1>2, <1>18, Zenon DEF WriteCopy, Goto, Places
    <3> QED BY <1>1, <1>2, <3>2, <3>3, Zenon DEF Ring, Used, OneOfEach
  <2>3. Flags'
    BY <1>1, <1>2, <1>18, Zenon DEF WriteCopy, Goto, Flags, closed, wakers, polls
  <2>4. Armed'
    BY <1>1, <1>2, <1>18, Zenon DEF WriteCopy, OneOfEach, Goto, Armed, Places, closed, wakers
  <2>5. Masks'
    BY <1>1, <1>2, <1>18, Zenon
    DEF WriteCopy, OneOfEach, Goto, Masks, Places, is_empty, is_full, Used, closed, polls
  <2>6. SleepersWillBeWoken'
    BY <1>1, <1>2, <1>18, Zenon
    DEF WriteCopy, OneOfEach, Goto, SleepersWillBeWoken, Places, Armed, is_empty, is_full, Used, closed, wakers
  <2> QED BY <2>1, <2>2, <2>3, <2>4, <2>5, <2>6, Zenon DEF IInv
<1>19. ASSUME NEW w \in Writers, WriteStore(w) PROVE IInv'
  <2>1. /\ UNCHANGED <<out_, buf_, op, closed, wakers, polls>> /\ pc'[w] = "w_clear"
        /\ \A r \in Readers : pc'[r] = pc[r]
    BY <1>1, <1>2, <1>19, Zenon DEF WriteStore, Goto, Places
  <2>2. op[w].at = in_ /\ op[w].n > 0 /\ op[w].n <= Size - Used /\ op[w].n \in Nat
    BY <1>1, <1>2, <1>5, <1>19, Zenon DEF Ring, WriteStore
  <2>3. in_' \in 0..(Modulus - 1) /\ Used' = Used + op[w].n
    <3>1. in_ \in 0..(Modulus - 1) /\ out_ \in 0..(Modulus - 1)
      BY <1>2, Zenon DEF Ring
    <3>2. in_' = (in_ + op[w].n) % Modulus /\ Used + op[w].n < Modulus
      BY <1>3, <1>4, <1>19, <2>2 DEF WriteStore
    <3>3. in_' \in 0..(Modulus - 1) /\ (in_' - out_) % Modulus = Used + op[w].n
      BY <2>2, <3>1, <3>2, MovedIn, ZenonT(60) DEF Used
    <3> QED BY <2>1, <3>3, Zenon DEF Used
  <2>4. ~is_full /\ ~is_empty'
    <3>1. Used < Size /\ Used' > 0
      BY <1>3, <1>4, <2>2, <2>3
    <3>2. in_' # out_'
      <4>1. out_' \in 0..(Modulus - 1) /\ Used' = (in_' - out_') % Modulus
        BY <1>2, <2>1, Zenon DEF Ring, Used
      <4>2. (in_' - out_') % Modulus = 0 <=> in_' = out_'
        BY <2>3, <4>1, UsedRange, Zenon
      <4>3. Used' # 0
        BY <3>1
      <4> QED BY <4>1, <4>2, <4>3, Zenon
    <3> QED BY <1>3, <1>4, <3>1, <3>2 DEF is_empty
  <2>5. Places'
    BY <1>1, <1>2, <1>19, Zenon DEF WriteStore, Goto, Places, ReaderPc, WriterPc, PcValues
  <2>6. Ring'
    <3>1. \A r \in Readers : pc[r] \in {"r_copy", "r_store"} => op[r].n <= Used'
      BY <1>1, <1>2, <1>4, <1>5, <2>2, <2>3 DEF Ring
    <3>2. Used' <= Size
      BY <1>3, <1>4, <2>2, <2>3
    <3> QED BY <1>1, <1>2, <2>1, <2>3, <3>1, <3>2, Zenon DEF Ring, OneOfEach
  <2>7. Flags'
    BY <1>1, <1>2, <1>19, Zenon DEF WriteStore, Goto, Flags, closed, wakers, polls
  <2>8. Armed'
    BY <1>1, <1>2, <1>19, Zenon DEF WriteStore, OneOfEach, Goto, Armed, Places, closed, wakers
  <2>9. Masks'
    BY <1>1, <1>2, <2>1, <2>4, Zenon DEF Masks, closed, polls
  <2>10. SleepersWillBeWoken'
    BY <1>1, <1>2, <1>19, Zenon
    DEF WriteStore, OneOfEach, Goto, SleepersWillBeWoken, Places, Armed, is_empty, is_full, Used, closed, wakers
  <2> QED BY <2>5, <2>6, <2>7, <2>8, <2>9, <2>10, Zenon DEF IInv
<1>20. ASSUME NEW w \in Writers, WriteClear(w) PROVE IInv'
  <2>1. Places'
    <3>1. op' \in [Procs -> OpType]
      <4>1. op' = [op EXCEPT ![w] = NoOp] \/ op' = op
        BY <1>20, Zenon DEF WriteClear, Return
      <4> QED BY <1>1, <1>6, <4>1, Zenon
    <3>2. /\ pc' \in [Procs -> PcValues]
          /\ \A r \in Readers : pc'[r] \in ReaderPc
          /\ \A p \in Writers : pc'[p] \in WriterPc
      BY <1>1, <1>2, <1>20, Zenon DEF WriteClear, Goto, Return, Places, ReaderPc, WriterPc, PcValues
    <3> QED BY <1>2, <1>20, <3>1, <3>2, Zenon DEF Places, WriteClear
  <2>2. Ring'
    BY <1>1, <1>2, <1>20 DEF WriteClear, OneOfEach, Goto, Return, Ring, Used, Places, chan
  <2>3. Flags'
    BY <1>1, <1>2, <1>20, Zenon DEF WriteClear, Goto, Return, Flags, closed, wakers
  <2>4. Armed'
    BY <1>1, <1>2, <1>20, Zenon
    DEF WriteClear, OneOfEach, Goto, Return, Armed, Places, has_write_poll, closed, wakers
  <2>5. Masks'
    BY <1>1, <1>2, <1>20, ZenonT(60)
    DEF WriteClear, OneOfEach, Goto, Return, Masks, Places, is_empty, is_full, Used, has_write_poll, chan, closed
  <2>6. SleepersWillBeWoken'
    BY <1>1, <1>2, <1>20
    DEF WriteClear, OneOfEach, Goto, Return, SleepersWillBeWoken, Places, Armed, is_empty, is_full, Used, has_write_poll, chan, closed, wakers
  <2> QED BY <2>1, <2>2, <2>3, <2>4, <2>5, <2>6, Zenon DEF IInv
<1>21. ASSUME NEW w \in Writers, WriteWake(w) PROVE IInv'
  <2>1. Places'
    <3>1. op' \in [Procs -> OpType]
      <4>1. op' = [op EXCEPT ![w] = NoOp] \/ op' = op
        BY <1>21, Zenon DEF WriteWake
      <4> QED BY <1>1, <1>6, <4>1, Zenon
    <3>2. /\ pc' \in [Procs -> PcValues]
          /\ \A r \in Readers : pc'[r] \in ReaderPc
          /\ \A p \in Writers : pc'[p] \in WriterPc
      BY <1>1, <1>2, <1>21, Zenon DEF WriteWake, Goto, Ready, Places, ReaderPc, WriterPc, PcValues
    <3> QED BY <1>2, <1>21, <3>1, <3>2, Zenon DEF Places, WriteWake
  <2>2. Ring'
    BY <1>1, <1>2, <1>21, ZenonT(60) DEF WriteWake, OneOfEach, Goto, Ready, Ring, Used, Places, chan
  <2>3. Flags'
    BY <1>1, <1>2, <1>21, Zenon DEF WriteWake, Goto, Ready, Flags, closed
  <2>4. Armed'
    BY <1>1, <1>2, <1>21, ZenonT(60) DEF WriteWake, OneOfEach, Goto, Ready, Armed, Places, has_read_poll, closed
  <2>5. Masks'
    BY <1>1, <1>2, <1>21, ZenonT(60)
    DEF WriteWake, OneOfEach, Goto, Ready, Masks, Places, is_empty, is_full, Used, has_read_poll, chan, closed
  <2>6. SleepersWillBeWoken'
    BY <1>1, <1>2, <1>21
    DEF WriteWake, OneOfEach, Goto, Ready, SleepersWillBeWoken, Places, Armed, is_empty, is_full, Used, has_read_poll, chan, closed
  <2> QED BY <2>1, <2>2, <2>3, <2>4, <2>5, <2>6, Zenon DEF IInv
<1>22. ASSUME NEW w \in Writers, WriteWait(w) PROVE IInv'
  <2>1. Places'
    <3>1. op' \in [Procs -> OpType]
      <4>1. op' = [op EXCEPT ![w] = NoOp] \/ op' = op
        BY <1>22, Zenon DEF WriteWait, Return
      <4> QED BY <1>1, <1>6, <4>1, Zenon
    <3>2. /\ pc' \in [Procs -> PcValues]
          /\ \A r \in Readers : pc'[r] \in ReaderPc
          /\ \A p \in Writers : pc'[p] \in WriterPc
      BY <1>1, <1>2, <1>22 DEF WriteWait, Goto, Return, Places, ReaderPc, WriterPc, PcValues
    <3> QED BY <1>2, <1>22, <3>1, <3>2, Zenon DEF Places, WriteWait
  <2>2. Ring'
    <3>1. UNCHANGED chan /\ pc'[w] \notin {"w_copy", "w_store"} /\ \A r \in Readers : pc'[r] = pc[r] /\ op'[r] = op[r]
      BY <1>1, <1>2, <1>22, ZenonT(60) DEF WriteWait, Goto, Return, Places
    <3> QED BY <1>1, <1>2, <3>1, Zenon DEF Ring, Used, OneOfEach, chan
  <2>3. Flags'
    BY <1>1, <1>2, <1>22, Zenon DEF WriteWait, Goto, Return, Flags, closed, polls
  <2>4. Armed'
    BY <1>1, <1>2, <1>22 DEF WriteWait, OneOfEach, Goto, Return, Armed, Places, closed, is_full
  <2>5. Masks'
    BY <1>1, <1>2, <1>22
    DEF WriteWait, OneOfEach, Goto, Return, Masks, Places, is_empty, is_full, Used, chan, closed, polls
  <2>6. SleepersWillBeWoken'
    BY <1>1, <1>2, <1>22
    DEF WriteWait, OneOfEach, Goto, Return, SleepersWillBeWoken, Places, Armed, is_empty, is_full, Used, chan, closed
  <2> QED BY <2>1, <2>2, <2>3, <2>4, <2>5, <2>6, Zenon DEF IInv
<1>23. CASE CloseWriter
  <2>1. Places'
    BY <1>1, <1>2, <1>23 DEF CloseWriter, Ready, Places, ReaderPc, WriterPc, PcValues
  <2>2. Ring'
    BY <1>1, <1>2, <1>23 DEF CloseWriter, OneOfEach, Ready, Ring, Used, Places, chan
  <2>3. Flags'
    BY <1>1, <1>2, <1>23, Zenon DEF CloseWriter, Ready, Flags
  <2>4. Armed'
    <3>1. \A r \in Readers : pc'[r] # "parked"
      BY <1>1, <1>2, <1>23, Zenon DEF CloseWriter, Ready, Armed, Places, has_read_poll, has_write_poll
    <3>2. \A w \in Writers : pc'[w] # "parked"
      BY <1>1, <1>2, <1>23, Zenon DEF CloseWriter, Ready, Armed, Places, has_read_poll, has_write_poll
    <3> QED BY <3>1, <3>2, Zenon DEF Armed
  <2>5. Masks'
    BY <1>1, <1>2, <1>23
    DEF CloseWriter, OneOfEach, Ready, Masks, Places, is_empty, is_full, Used, has_read_poll, chan
  <2>6. SleepersWillBeWoken'
    BY <1>1, <1>2, <1>23
    DEF CloseWriter, OneOfEach, Ready, SleepersWillBeWoken, Places, Armed, is_empty, is_full, Used, has_read_poll, chan
  <2> QED BY <2>1, <2>2, <2>3, <2>4, <2>5, <2>6, Zenon DEF IInv
<1>24. CASE CloseReader
  <2>1. Places'
    BY <1>1, <1>2, <1>24 DEF CloseReader, Ready, Places, ReaderPc, WriterPc, PcValues
  <2>2. Ring'
    BY <1>1, <1>2, <1>24 DEF CloseReader, OneOfEach, Ready, Ring, Used, Places, chan
  <2>3. Flags'
    BY <1>1, <1>2, <1>24, Zenon DEF CloseReader, Ready, Flags
  <2>4. Armed'
    <3>1. \A r \in Readers : pc'[r] # "parked"
      BY <1>1, <1>2, <1>24, Zenon DEF CloseReader, Ready, Armed, Places, has_read_poll, has_write_poll
    <3>2. \A w \in Writers : pc'[w] # "parked"
      BY <1>1, <1>2, <1>24, Zenon DEF CloseReader, Ready, Armed, Places, has_read_poll, has_write_poll
    <3> QED BY <3>1, <3>2, Zenon DEF Armed
  <2>5. Masks'
    BY <1>1, <1>2, <1>24
    DEF CloseReader, OneOfEach, Ready, Masks, Places, is_empty, is_full, Used, has_write_poll, chan
  <2>6. SleepersWillBeWoken'
    BY <1>1, <1>2, <1>24
    DEF CloseReader, OneOfEach, Ready, SleepersWillBeWoken, Places, Armed, is_empty, is_full, Used, has_write_poll, chan
  <2> QED BY <2>1, <2>2, <2>3, <2>4, <2>5, <2>6, Zenon DEF IInv
<1>25. ASSUME NEW p \in Procs, Signal(p) PROVE IInv'
  <2>1. Places'
    BY <1>1, <1>2, <1>25, Zenon DEF Signal, Ready, Places, ReaderPc, WriterPc, PcValues
  <2>2. Ring'
    BY <1>1, <1>2, <1>25, Zenon DEF Signal, OneOfEach, Ready, Ring, Used, Places, chan
  <2>3. Flags'
    BY <1>1, <1>2, <1>25, Zenon DEF Signal, Ready, Flags, closed, wakers, polls
  <2>4. Armed'
    BY <1>1, <1>2, <1>25, Zenon DEF Signal, OneOfEach, Ready, Armed, Places, closed, wakers
  <2>5. Masks'
    BY <1>1, <1>2, <1>25, Zenon
    DEF Signal, OneOfEach, Ready, Masks, Places, is_empty, is_full, Used, chan, closed, polls
  <2>6. SleepersWillBeWoken'
    BY <1>1, <1>2, <1>25, Zenon
    DEF Signal, OneOfEach, Ready, SleepersWillBeWoken, Places, Armed, is_empty, is_full, Used, chan, closed, wakers
  <2> QED BY <2>1, <2>2, <2>3, <2>4, <2>5, <2>6, Zenon DEF IInv
<1>26. ASSUME NEW p \in Procs, DeliverSignal(p) PROVE IInv'
  <2>1. Places'
    BY <1>1, <1>2, <1>26, Zenon DEF DeliverSignal, Places, ReaderPc, WriterPc, PcValues
  <2>2. Ring'
    BY <1>1, <1>2, <1>26, Zenon DEF DeliverSignal, OneOfEach, Ring, Used, Places, chan
  <2>3. Flags'
    BY <1>1, <1>2, <1>26, Zenon DEF DeliverSignal, Flags, closed, wakers, polls
  <2>4. Armed'
    BY <1>1, <1>2, <1>26, Zenon DEF DeliverSignal, OneOfEach, Armed, Places, closed, wakers
  <2>5. Masks'
    BY <1>1, <1>2, <1>26, Zenon
    DEF DeliverSignal, OneOfEach, Masks, Places, is_empty, is_full, Used, chan, closed, polls
  <2>6. SleepersWillBeWoken'
    BY <1>1, <1>2, <1>26, Zenon
    DEF DeliverSignal, OneOfEach, SleepersWillBeWoken, Places, Armed, is_empty, is_full, Used, chan, closed, wakers
  <2> QED BY <2>1, <2>2, <2>3, <2>4, <2>5, <2>6, Zenon DEF IInv
<1>27. CASE UNCHANGED vars
  <2>1. Places' /\ Flags'
    BY <1>2, <1>27, Zenon DEF vars, Places, Flags, closed, wakers, polls
  <2>2. UNCHANGED <<in_, out_, buf_, pc, op>> /\ Used' = Used
    BY <1>27, Zenon DEF vars, chan, Used
  <2>3. Ring'
    BY <1>2, <2>2, Zenon DEF Ring
  <2>4. Armed'
    BY <1>2, <1>27, Zenon DEF vars, Armed, closed, wakers
  <2>5. is_empty' = is_empty /\ is_full' = is_full
    BY <2>2, Zenon DEF is_empty, is_full
  <2>6. Masks'
    BY <1>2, <1>27, <2>5, Zenon DEF vars, Masks, closed, polls
  <2>7. SleepersWillBeWoken'
    BY <1>2, <1>27, <2>5, Zenon DEF vars, SleepersWillBeWoken, closed
  <2> QED BY <2>1, <2>3, <2>4, <2>6, <2>7, Zenon DEF IInv
<1> QED BY <1>7, <1>8, <1>9, <1>10, <1>11, <1>12, <1>13, <1>14, <1>15, <1>16, <1>17, <1>18, <1>19, <1>20, <1>21, <1>22, <1>23, <1>24, <1>25, <1>26, <1>27, Zenon DEF Next, ReadStep, WriteStep

LEMMA InitIInv == Init => IInv
<1> SUFFICES ASSUME Init PROVE IInv
  BY Zenon
<1>1. Size \in Nat \ {0} /\ Modulus \in Nat \ {0} /\ Size < Modulus
  BY SizeAssumption
<1>2. in_ = 0 /\ out_ = 0 /\ in_ \in 0..(Modulus - 1) /\ out_ \in 0..(Modulus - 1)
  BY <1>1 DEF Init
<1>3. Used = 0
  BY <1>2, UsedRange, Zenon DEF Used
<1>4. is_empty /\ ~is_full
  BY <1>1, <1>2, <1>3 DEF is_empty, is_full
<1>5. pc = [p \in Procs |-> "idle"] /\ \A p \in Procs : pc[p] = "idle"
  BY Zenon DEF Init
<1>6. Readers \subseteq Procs /\ Writers \subseteq Procs
  BY Zenon DEF Procs
<1>7. Places
  <2>1. <<>> \in Seq(Bytes) /\ 0 \in Nat /\ FALSE \in BOOLEAN
    OBVIOUS
  <2>2. NoOp \in OpType
    BY <2>1, Zenon DEF NoOp, OpType
  <2>3. op \in [Procs -> OpType] /\ sig \in [Procs -> BOOLEAN]
    BY <2>2, Zenon DEF Init
  <2> QED BY <1>5, <1>6, <2>3, Zenon DEF Places, PcValues, ReaderPc, WriterPc
<1>8. Ring
  <2>1. (CHOOSE b \in Bytes : TRUE) \in Bytes
    BY ThreadsAssumption, Zenon
  <2>2. buf_ \in [0..(Size - 1) -> Bytes]
    BY <2>1, Zenon DEF Init
  <2> QED BY <1>1, <1>2, <1>3, <1>5, <1>6, <2>2 DEF Ring
<1>9. Flags
  BY Zenon DEF Init, Flags
<1>10. Armed /\ SleepersWillBeWoken
  BY <1>5, <1>6, Zenon DEF Armed, SleepersWillBeWoken
<1>11. Masks
  BY <1>4, Zenon DEF Init, Masks
<1> QED BY <1>7, <1>8, <1>9, <1>10, <1>11, Zenon DEF IInv

(* Nobody sleeps in DoRead or DoWrite on data, room or a closed end unless *)
(* the other side is still on its way to wake them, although both change   *)
(* the ring without lock_ and signals and closes come in anywhere.         *)
THEOREM NoLostWakeUp ==
    ASSUME OneOfEach
    PROVE  Spec => [](TypeOK /\ SleepersWillBeWoken)
<1>1. IInv /\ [Next]_vars => IInv'
  BY StepIInv, Zenon
<1>2. IInv => TypeOK /\ SleepersWillBeWoken
  BY Zenon DEF IInv, TypeOK, Places, Ring, Flags
<1> QED BY <1>1, <1>2, InitIInv, PTL DEF Spec

(* Once each side has been under lock_ the event masks of both files are   *)
(* exact, indices of size_t having wrapped or not.                         *)
THEOREM MasksTellTheTruth ==
    ASSUME OneOfEach
    PROVE  Spec => []PollMasksAtRest
<1>1. IInv /\ [Next]_vars => IInv'
  BY StepIInv, Zenon
<1>2. ASSUME IInv PROVE PollMasksAtRest
  <2> SUFFICES ASSUME AtRest
               PROVE  /\ ~reader_closed_ => /\ "In" \in read_poll_ <=> ~is_empty
                                            /\ "HUp" \in read_poll_ <=> writer_closed_
                      /\ ~writer_closed_ => /\ "Out" \in write_poll_ <=> ~is_full
                                            /\ "Err" \in write_poll_ <=> reader_closed_
    BY Zenon DEF PollMasksAtRest
  <2>1. /\ \A r \in Readers : pc[r] \notin {"r_clear", "r_wake"}
        /\ \A w \in Writers : pc[w] \notin {"w_clear", "w_wake"}
    BY Zenon DEF AtRest, Procs
  <2> QED BY <1>2, <2>1, Zenon DEF IInv, Masks
<1> QED BY <1>1, <1>2, InitIInv, PTL DEF Spec

-----------------------------------------------------------------------------
(* The refinement of ByteStream.  First the slots of the ring.             *)

(* A number is its remainder and a multiple of Size, in one way only.      *)
LEMMA Divided ==
    ASSUME NEW x \in Int
    PROVE  \E q \in Int : x = q * Size + (x % Size)
<1>1. Size \in Nat \ {0}
  BY SizeAssumption, Zenon
<1>2. x = Size * (x \div Size) + (x % Size) /\ x \div Size \in Int
  BY <1>1
<1>3. Size * (x \div Size) = (x \div Size) * Size
  BY <1>1, <1>2
<1> QED BY <1>2, <1>3, Zenon

LEMMA Unique ==
    ASSUME NEW p \in Int, NEW q \in Int, NEW r \in 0..(Size - 1), NEW s \in 0..(Size - 1),
           p * Size + r = q * Size + s
    PROVE  r = s
<1>1. Size \in Nat \ {0}
  BY SizeAssumption, Zenon
<1>2. (p - q) * Size = s - r
  BY <1>1
<1>3. CASE p - q >= 1
  <2>1. (p - q) * Size >= Size
    BY <1>1, <1>3
  <2> QED BY <1>1, <1>2, <2>1
<1>4. CASE p - q <= -1
  <2>1. (p - q) * Size <= -Size
    BY <1>1, <1>4
  <2> QED BY <1>1, <1>2, <2>1
<1>5. CASE p = q
  BY <1>1, <1>5
<1> QED BY <1>3, <1>4, <1>5

LEMMA Congruent ==
    ASSUME NEW x \in Int, NEW y \in Int, NEW q \in Int, x = y + q * Size
    PROVE  x % Size = y % Size
<1>1. Size \in Nat \ {0} /\ x % Size \in 0..(Size - 1) /\ y % Size \in 0..(Size - 1)
  BY SizeAssumption, Remainder, Zenon
<1>2. PICK a \in Int : x = a * Size + (x % Size)
  BY Divided, Zenon
<1>3. PICK b \in Int : y = b * Size + (y % Size)
  BY Divided, Zenon
<1>4. (b + q) * Size = b * Size + q * Size /\ b + q \in Int
  BY <1>1
<1>5. a * Size + (x % Size) = (b + q) * Size + (y % Size)
  BY <1>1, <1>2, <1>3, <1>4
<1> QED BY <1>1, <1>4, <1>5, Unique, Zenon

LEMMA Wraps ==
    ASSUME NEW x \in Int
    PROVE  (x + Modulus) % Size = x % Size
<1>1. Size \in Nat \ {0} /\ Modulus \in Int /\ Modulus % Size = 0
  BY SizeAssumption
<1>2. PICK m \in Int : Modulus = m * Size + (Modulus % Size)
  BY <1>1, Divided, Zenon
<1>3. m * Size \in Int /\ Modulus = m * Size
  BY <1>1, <1>2
<1>4. x + Modulus = x + m * Size /\ x + Modulus \in Int
  BY <1>1, <1>3
<1> QED BY <1>4, Congruent, Zenon

(* The slots of the ring: in_ is Used slots after out_, an index that is   *)
(* advanced and wraps stands for the slot it would without wrapping ...    *)
LEMMA SlotAfter ==
    ASSUME NEW b \in 0..(Modulus - 1), NEW n \in 0..(Modulus - 1), NEW k \in Int
    PROVE  (((b + n) % Modulus) + k) % Size = (b + n + k) % Size
<1>1. Modulus \in Nat \ {0}
  BY SizeAssumption
<1>2. CASE b + n < Modulus
  BY <1>1, <1>2, Sum, Zenon
<1>3. CASE b + n >= Modulus
  <2>1. (b + n) % Modulus = b + n - Modulus
    BY <1>1, <1>3, Sum
  <2>2. b + n - Modulus + k \in Int /\ (b + n - Modulus + k) + Modulus = b + n + k
    BY <1>1
  <2>3. ((b + n - Modulus + k) + Modulus) % Size = (b + n - Modulus + k) % Size
    BY <2>2, Wraps, Zenon
  <2> QED BY <2>1, <2>2, <2>3, Zenon
<1> QED BY <1>1, <1>2, <1>3

LEMMA SlotIn ==
    ASSUME NEW a \in 0..(Modulus - 1), NEW b \in 0..(Modulus - 1), NEW k \in Int
    PROVE  (a + k) % Size = (b + ((a - b) % Modulus) + k) % Size
<1>1. Modulus \in Nat \ {0}
  BY SizeAssumption
<1>2. CASE a >= b
  <2>1. b + ((a - b) % Modulus) + k = a + k
    BY <1>1, <1>2, Difference
  <2> QED BY <2>1, Zenon
<1>3. CASE a < b
  <2>1. b + ((a - b) % Modulus) + k = (a + k) + Modulus /\ a + k \in Int
    BY <1>1, <1>3, Difference
  <2>2. ((a + k) + Modulus) % Size = (a + k) % Size
    BY <2>1, Wraps, Zenon
  <2> QED BY <2>1, <2>2, Zenon
<1> QED BY <1>1, <1>2, <1>3

(* ... and how far a slot is from an index, counted round the ring.        *)
LEMMA Distance ==
    ASSUME NEW a \in Int, NEW x \in Int, NEW d \in 0..(Size - 1), NEW y \in Int,
           y = a + d, x % Size = y % Size
    PROVE  ((x % Size) - a) % Size = d
<1> DEFINE z == x % Size
<1>1. Size \in Nat \ {0} /\ z \in 0..(Size - 1)
  BY SizeAssumption, Remainder, Zenon
<1>2. PICK q \in Int : y = q * Size + z
  BY Divided, Zenon
<1>3. (-q) * Size = -(q * Size) /\ q * Size \in Int /\ -q \in Int
  BY <1>1
<1> HIDE DEF z
<1>4. z - a = d + (-q) * Size
  <2>1. z = y - q * Size
    BY <1>1, <1>2, <1>3
  <2> QED BY <1>1, <1>3, <2>1
<1>5. z - a \in Int /\ d \in Int
  BY <1>1
<1>6. (z - a) % Size = d % Size
  BY <1>3, <1>4, <1>5, Congruent
<1>7. d % Size = d
  BY <1>1
<1> QED BY <1>6, <1>7, Zenon DEF z

-----------------------------------------------------------------------------
(* What is in a ring f between two indices, oldest byte first.             *)
Content(a, b, f) == [i \in 1..((a - b) % Modulus) |-> f[(b + i - 1) % Size]]

LEMMA ContentFacts ==
    ASSUME NEW a \in 0..(Modulus - 1), NEW b \in 0..(Modulus - 1), NEW f \in [0..(Size - 1) -> Bytes]
    PROVE  /\ Content(a, b, f) \in Seq(Bytes) /\ Len(Content(a, b, f)) = (a - b) % Modulus
           /\ \A i \in 1..((a - b) % Modulus) : Content(a, b, f)[i] = f[(b + i - 1) % Size]
<1> DEFINE u == (a - b) % Modulus
           c == Content(a, b, f)
<1>1. u \in Nat /\ Modulus \in Nat
  BY UsedRange, SizeAssumption
<1>2. \A i \in 1..u : (b + i - 1) % Size \in 0..(Size - 1)
  BY <1>1, Remainder
<1>3. c \in [1..u -> Bytes] /\ \A i \in 1..u : c[i] = f[(b + i - 1) % Size]
  BY <1>2, Zenon DEF Content
<1> HIDE DEF u, c
<1>4. c \in Seq(Bytes)
  BY <1>1, <1>3, IsSeq, Zenon
<1>5. Len(c) = u
  BY <1>1, <1>3, <1>4, LenProperties
<1> QED BY <1>3, <1>4, <1>5, Zenon DEF u, c

(* Moving in_ over bytes that were put there appends them ...              *)
LEMMA Appended ==
    ASSUME NEW a \in 0..(Modulus - 1), NEW b \in 0..(Modulus - 1), NEW f \in [0..(Size - 1) -> Bytes],
           NEW n \in Nat, ((a - b) % Modulus) + n < Modulus, NEW s \in [1..n -> Bytes],
           \A i \in 1..n : f[(a + i - 1) % Size] = s[i]
    PROVE  Content((a + n) % Modulus, b, f) = Content(a, b, f) \o s
<1> DEFINE u == (a - b) % Modulus
           e == (a + n) % Modulus
           c == Content(a, b, f)
           d == Content(e, b, f)
<1>1. u \in Nat /\ e \in 0..(Modulus - 1) /\ (e - b) % Modulus = u + n
  <2>1. u \in 0..(Modulus - 1)
    BY UsedRange, Zenon
  <2>2. e \in 0..(Modulus - 1) /\ (e - b) % Modulus = u + n
    BY MovedIn, Zenon
  <2> QED BY <2>1, <2>2
<1>2. c \in Seq(Bytes) /\ Len(c) = u /\ \A i \in 1..u : c[i] = f[(b + i - 1) % Size]
  BY ContentFacts, Zenon
<1>3. d \in Seq(Bytes) /\ Len(d) = u + n /\ \A i \in 1..(u + n) : d[i] = f[(b + i - 1) % Size]
  <2> HIDE DEF e, u
  <2>1. /\ d \in Seq(Bytes) /\ Len(d) = (e - b) % Modulus
        /\ \A i \in 1..((e - b) % Modulus) : d[i] = f[(b + i - 1) % Size]
    BY <1>1, ContentFacts, Zenon
  <2> HIDE DEF d
  <2> QED BY <1>1, <2>1, Zenon
<1>4. s \in Seq(Bytes) /\ Len(s) = n
  <2>1. s \in Seq(Bytes)
    BY IsSeq, Zenon
  <2> QED BY <2>1, LenProperties
<1>5. ASSUME NEW i \in 1..n PROVE f[(b + u + i - 1) % Size] = s[i]
  <2>1. i - 1 \in Int /\ a + i - 1 = a + (i - 1) /\ b + u + i - 1 = b + u + (i - 1)
    BY <1>1, SizeAssumption
  <2>2. (a + (i - 1)) % Size = (b + u + (i - 1)) % Size
    BY <2>1, SlotIn, Zenon
  <2> QED BY <2>1, <2>2, Zenon
<1> HIDE DEF u, c, d, e
<1>6. /\ c \o s \in Seq(Bytes) /\ Len(c \o s) = u + n
      /\ \A i \in 1..(u + n) : (c \o s)[i] = IF i <= u THEN c[i] ELSE s[i - u]
  <2>1. c \in Seq(Bytes) /\ s \in Seq(Bytes) /\ Len(c) = u /\ Len(s) = n
    BY <1>2, <1>4, Zenon
  <2>2. /\ c \o s \in Seq(Bytes) /\ Len(c \o s) = Len(c) + Len(s)
        /\ \A i \in 1..(Len(c) + Len(s)) : (c \o s)[i] = IF i <= Len(c) THEN c[i] ELSE s[i - Len(c)]
    BY <2>1, ConcatProperties, Zenon
  <2> QED BY <2>1, <2>2, Zenon
<1>7. ASSUME NEW i \in 1..(u + n) PROVE d[i] = (c \o s)[i]
  <2>1. CASE i <= u
    <3>1. i \in 1..u
      BY <1>1, <2>1
    <3> QED BY <1>2, <1>3, <1>6, <2>1, <3>1, Zenon
  <2>2. CASE ~(i <= u)
    <3>1. i - u \in 1..n /\ b + u + (i - u) - 1 = b + i - 1
      BY <1>1, <2>2
    <3>2. f[(b + i - 1) % Size] = s[i - u]
      BY <1>5, <3>1, Zenon
    <3>3. (c \o s)[i] = s[i - u]
      BY <1>6, <2>2, Zenon
    <3>4. d[i] = f[(b + i - 1) % Size]
      BY <1>3, Zenon
    <3> QED BY <3>2, <3>3, <3>4, Zenon
  <2> QED BY <2>1, <2>2, Zenon
<1>8. d = c \o s
  BY <1>3, <1>6, <1>7, SeqEqual, Zenon
<1> QED BY <1>8, Zenon DEF c, d, e

(* ... and moving out_ takes them off the front.                           *)
LEMMA Taken ==
    \A n \in Nat : \A a, b \in 0..(Modulus - 1), f \in [0..(Size - 1) -> Bytes] :
        n <= (a - b) % Modulus =>
            /\ Content(a, (b + n) % Modulus, f) = SubSeq(Content(a, b, f), n + 1, Len(Content(a, b, f)))
            /\ [i \in 1..n |-> f[(b + i - 1) % Size]] = SubSeq(Content(a, b, f), 1, n)
<1> SUFFICES ASSUME NEW n \in Nat, NEW a \in 0..(Modulus - 1), NEW b \in 0..(Modulus - 1),
                    NEW f \in [0..(Size - 1) -> Bytes], n <= (a - b) % Modulus
             PROVE  /\ Content(a, (b + n) % Modulus, f) = SubSeq(Content(a, b, f), n + 1, Len(Content(a, b, f)))
                    /\ [i \in 1..n |-> f[(b + i - 1) % Size]] = SubSeq(Content(a, b, f), 1, n)
  BY ZenonT(60)
<1> DEFINE u == (a - b) % Modulus
           e == (b + n) % Modulus
           c == Content(a, b, f)
           d == Content(a, e, f)
           g == [i \in 1..n |-> f[(b + i - 1) % Size]]
<1>1. /\ u \in Nat /\ e \in 0..(Modulus - 1) /\ (a - e) % Modulus = u - n /\ n <= u
      /\ n \in 0..(Modulus - 1)
  <2>1. u \in 0..(Modulus - 1)
    BY UsedRange, Zenon
  <2>2. e \in 0..(Modulus - 1) /\ (a - e) % Modulus = u - n
    BY MovedOut
  <2>3. n <= u /\ Modulus \in Nat
    BY SizeAssumption, Zenon
  <2> HIDE DEF u, e
  <2> QED BY <2>1, <2>2, <2>3
<1>2. c \in Seq(Bytes) /\ Len(c) = u /\ \A i \in 1..u : c[i] = f[(b + i - 1) % Size]
  BY ContentFacts, Zenon
<1>3. d \in Seq(Bytes) /\ Len(d) = u - n /\ \A i \in 1..(u - n) : d[i] = f[(e + i - 1) % Size]
  <2> HIDE DEF e, u
  <2>1. /\ d \in Seq(Bytes) /\ Len(d) = (a - e) % Modulus
        /\ \A i \in 1..((a - e) % Modulus) : d[i] = f[(e + i - 1) % Size]
    BY <1>1, ContentFacts, Zenon
  <2> HIDE DEF d
  <2> QED BY <1>1, <2>1, Zenon
<1>4. ASSUME NEW i \in 1..(u - n) PROVE f[(e + i - 1) % Size] = f[(b + (n + i) - 1) % Size]
  <2>1. i - 1 \in Int /\ e + i - 1 = e + (i - 1) /\ b + (n + i) - 1 = b + n + (i - 1)
    BY <1>1, SizeAssumption
  <2>2. (e + (i - 1)) % Size = (b + n + (i - 1)) % Size
    BY <1>1, <2>1, SlotAfter, Zenon
  <2> QED BY <2>1, <2>2, Zenon
<1>5. g \in Seq(Bytes) /\ Len(g) = n /\ \A i \in 1..n : g[i] = f[(b + i - 1) % Size]
  <2>1. \A i \in 1..n : (b + i - 1) % Size \in 0..(Size - 1)
    <3>1. \A i \in 1..n : b + i - 1 \in Int
      BY SizeAssumption
    <3> QED BY <3>1, Remainder, Zenon
  <2>2. g \in [1..n -> Bytes]
    BY <2>1, Zenon
  <2>3. g \in Seq(Bytes)
    BY <2>2, IsSeq, Zenon
  <2>4. Len(g) = n
    BY <2>2, <2>3, LenProperties
  <2> QED BY <2>3, <2>4, Zenon
<1> HIDE DEF u, c, d, e, g
<1>6. \A i \in 1..u : c[i] \in Bytes
  BY <1>2, ElementOfSeq, Zenon
<1>7. /\ SubSeq(c, n + 1, u) \in Seq(Bytes) /\ Len(SubSeq(c, n + 1, u)) = u - n
      /\ \A i \in 1..(u - n) : SubSeq(c, n + 1, u)[i] = c[n + i]
  <2>1. n + 1 \in Int /\ u \in Int /\ \A i \in (n + 1)..u : c[i] \in Bytes
    BY <1>1, <1>6
  <2>2. /\ SubSeq(c, n + 1, u) \in Seq(Bytes)
        /\ Len(SubSeq(c, n + 1, u)) = IF n + 1 <= u THEN u - (n + 1) + 1 ELSE 0
        /\ \A i \in 1..(u - (n + 1) + 1) : SubSeq(c, n + 1, u)[i] = c[(n + 1) + i - 1]
    BY <2>1, SubSeqProperties
  <2>3. u - (n + 1) + 1 = u - n /\ \A i \in 1..(u - n) : (n + 1) + i - 1 = n + i
    BY <1>1
  <2> QED BY <1>1, <2>2, <2>3
<1>8. /\ SubSeq(c, 1, n) \in Seq(Bytes) /\ Len(SubSeq(c, 1, n)) = n
      /\ \A i \in 1..n : SubSeq(c, 1, n)[i] = c[i]
  <2>1. 1 \in Int /\ n \in Int /\ \A i \in 1..n : c[i] \in Bytes
    BY <1>1, <1>6
  <2>2. /\ SubSeq(c, 1, n) \in Seq(Bytes)
        /\ Len(SubSeq(c, 1, n)) = IF 1 <= n THEN n - 1 + 1 ELSE 0
        /\ \A i \in 1..(n - 1 + 1) : SubSeq(c, 1, n)[i] = c[1 + i - 1]
    BY <2>1, SubSeqProperties
  <2>3. n - 1 + 1 = n /\ \A i \in 1..n : 1 + i - 1 = i
    BY <1>1
  <2> QED BY <1>1, <2>2, <2>3
<1>9. d = SubSeq(c, n + 1, u)
  <2>1. ASSUME NEW i \in 1..(u - n) PROVE d[i] = SubSeq(c, n + 1, u)[i]
    <3>1. n + i \in 1..u
      BY <1>1
    <3>2. d[i] = f[(b + (n + i) - 1) % Size]
      BY <1>3, <1>4, Zenon
    <3>3. c[n + i] = f[(b + (n + i) - 1) % Size]
      BY <1>2, <3>1, Zenon
    <3> QED BY <1>7, <3>2, <3>3, Zenon
  <2> QED BY <1>3, <1>7, <2>1, SeqEqual, Zenon
<1>10. g = SubSeq(c, 1, n)
  <2>1. ASSUME NEW i \in 1..n PROVE g[i] = SubSeq(c, 1, n)[i]
    <3>1. i \in 1..u
      BY <1>1
    <3> QED BY <1>2, <1>5, <1>8, <3>1, Zenon
  <2> QED BY <1>5, <1>8, <2>1, SeqEqual, Zenon
<1> QED BY <1>2, <1>9, <1>10, Zenon DEF c, d, e, g

-----------------------------------------------------------------------------
(* What each side has copied is what it is about to publish: the bytes     *)
(* that a read holds are still the oldest ones, those that a write has put *)
(* in free slots are still there, and a read that found the writer closed  *)
(* looks for the end of file.                                              *)
Copied ==
    /\ \A r \in Readers : pc[r] = "r_store" =>
          op[r].buf = [i \in 1..op[r].n |-> buf_[(out_ + i - 1) % Size]]
    /\ \A w \in Writers : pc[w] = "w_store" =>
          \A i \in 1..op[w].n : buf_[(in_ + i - 1) % Size] = op[w].buf[i]
    /\ \A r \in Readers : pc[r] = "r_empty" => writer_closed_

LEMMA RingFacts ==
    ASSUME Ring
    PROVE  /\ Size \in Nat \ {0} /\ Modulus \in Nat \ {0} /\ Size < Modulus
           /\ in_ \in 0..(Modulus - 1) /\ out_ \in 0..(Modulus - 1)
           /\ Used \in 0..Size /\ (is_empty <=> Used = 0)
<1>1. Size \in Nat \ {0} /\ Modulus \in Nat \ {0} /\ Size < Modulus
  BY SizeAssumption
<1>2. in_ \in 0..(Modulus - 1) /\ out_ \in 0..(Modulus - 1) /\ Used <= Size
  BY Zenon DEF Ring
<1>3. Used \in 0..(Modulus - 1) /\ (Used = 0 <=> in_ = out_)
  BY <1>2, UsedRange, Zenon DEF Used
<1> QED BY <1>1, <1>2, <1>3 DEF is_empty

(* A write copies into free slots only ...                                 *)
LEMMA WriteCopyKeeps ==
    ASSUME Places, Ring, NEW w \in Writers, WriteCopy(w)
    PROVE  /\ \A i \in 1..Used : buf_'[(out_ + i - 1) % Size] = buf_[(out_ + i - 1) % Size]
           /\ \A i \in 1..op[w].n : buf_'[(in_ + i - 1) % Size] = op[w].buf[i]
<1>1. /\ Size \in Nat \ {0} /\ in_ \in 0..(Modulus - 1) /\ out_ \in 0..(Modulus - 1) /\ Used \in 0..Size
      /\ in_ \in Int /\ out_ \in Int
  BY RingFacts
<1>2. op[w].at = in_ /\ op[w].n \in Nat /\ op[w].n <= Size - Used
  BY Zenon DEF WriteCopy, Ring, Places, OpType, Procs
<1>3. ASSUME NEW j \in 0..(Size - 1)
      PROVE  buf_'[j] = IF ((j - in_) % Size) + 1 <= op[w].n
                        THEN op[w].buf[((j - in_) % Size) + 1] ELSE buf_[j]
  BY <1>2, Zenon DEF WriteCopy
<1>4. ASSUME NEW i \in 1..Used
      PROVE  buf_'[(out_ + i - 1) % Size] = buf_[(out_ + i - 1) % Size]
  <2> DEFINE x == out_ + i - 1
             d == Size - Used + i - 1
             y == in_ + d
             z == out_ + Used + d
  <2>1. /\ d \in 0..(Size - 1) /\ d + 1 > op[w].n
        /\ x \in Int /\ y \in Int /\ z \in Int /\ d \in Int /\ z = x + 1 * Size
    BY <1>1, <1>2
  <2>2. y % Size = z % Size
    BY <1>1, <2>1, SlotIn, ZenonT(60) DEF Used
  <2> HIDE DEF x, z, d
  <2>3. z % Size = x % Size
    BY <2>1, Congruent
  <2>4. y = in_ + d /\ x % Size = y % Size /\ in_ \in Int /\ x \in Int /\ y \in Int
        /\ d \in 0..(Size - 1)
    BY <1>1, <2>1, <2>2, <2>3, Zenon
  <2> HIDE DEF y
  <2>5. ((x % Size) - in_) % Size = d
    <3>1. \A a, u, v \in Int : \A e \in 0..(Size - 1) :
             v = a + e /\ u % Size = v % Size => ((u % Size) - a) % Size = e
      BY Distance, Zenon
    <3> QED BY <2>4, <3>1, ZenonT(60)
  <2>6. x % Size \in 0..(Size - 1)
    BY <2>1, Remainder, Zenon
  <2> DEFINE j == x % Size
  <2>7. (j - in_) % Size = d /\ j \in 0..(Size - 1)
    BY <2>5, <2>6, Zenon
  <2> HIDE DEF j
  <2>8. buf_'[j] = buf_[j]
    BY <1>2, <1>3, <2>1, <2>7
  <2> QED BY <2>8, Zenon DEF j, x
<1>5. ASSUME NEW i \in 1..op[w].n
      PROVE  buf_'[(in_ + i - 1) % Size] = op[w].buf[i]
  <2> DEFINE x == in_ + i - 1
             d == i - 1
             j == x % Size
  <2>1. x \in Int /\ d \in 0..(Size - 1) /\ x = in_ + d /\ d + 1 = i /\ i <= op[w].n
    BY <1>1, <1>2
  <2> HIDE DEF x, d
  <2>2. (j - in_) % Size = d /\ j \in 0..(Size - 1)
    BY <1>1, <2>1, Distance, Remainder, Zenon
  <2> HIDE DEF j
  <2>3. buf_'[j] = op[w].buf[i]
    BY <1>2, <1>3, <2>1, <2>2, Zenon
  <2> QED BY <2>3, Zenon DEF j, x
<1> QED BY <1>4, <1>5, Zenon

LEMMA Kept ==
    ASSUME Copied, UNCHANGED chan, writer_closed_ => writer_closed_',
           \A p \in Procs : pc'[p] \in {"r_store", "w_store", "r_empty"} =>
               pc'[p] = pc[p] /\ op'[p] = op[p]
    PROVE  Copied'
<1>1. Readers \subseteq Procs /\ Writers \subseteq Procs
  BY Zenon DEF Procs
<1>2. in_' = in_ /\ out_' = out_ /\ buf_' = buf_
  BY Zenon DEF chan
<1>3. ASSUME NEW r \in Readers, pc'[r] = "r_store"
      PROVE  op'[r].buf = [i \in 1..op'[r].n |-> buf_'[(out_' + i - 1) % Size]]
  <2>1. op'[r] = op[r] /\ pc[r] = "r_store"
    BY <1>1, <1>3, Zenon
  <2>2. op[r].buf = [i \in 1..op[r].n |-> buf_[(out_ + i - 1) % Size]]
    BY <2>1, Zenon DEF Copied
  <2> QED BY <1>2, <2>1, <2>2, Zenon
<1>4. ASSUME NEW w \in Writers, pc'[w] = "w_store", NEW i \in 1..op'[w].n
      PROVE  buf_'[(in_' + i - 1) % Size] = op'[w].buf[i]
  <2>1. op'[w] = op[w] /\ pc[w] = "w_store"
    BY <1>1, <1>4, Zenon
  <2>2. buf_[(in_ + i - 1) % Size] = op[w].buf[i]
    BY <1>4, <2>1, Zenon DEF Copied
  <2> QED BY <1>2, <2>1, <2>2, Zenon
<1>5. ASSUME NEW r \in Readers, pc'[r] = "r_empty" PROVE writer_closed_'
  BY <1>1, <1>5, Zenon DEF Copied
<1> QED BY <1>3, <1>4, <1>5, Zenon DEF Copied

(* The steps that neither copy nor publish keep what is copied.            *)
LEMMA OthersKeep ==
    ASSUME Places, Copied,
           \/ \E r \in Readers :
                 \/ \E c \in Reads : ReadCall(r, c.len, c.nonblocking, c.peek)
                 \/ ReadLoad(r) \/ ReadClear(r) \/ ReadWake(r) \/ ReadIsEmpty(r) \/ ReadWait(r)
           \/ \E w \in Writers :
                 \/ \E c \in Writes : WriteCall(w, c.buf, c.nonblocking)
                 \/ WriteLoad(w) \/ WriteClear(w) \/ WriteWake(w) \/ WriteWait(w)
           \/ CloseWriter \/ CloseReader
           \/ \E p \in Procs : Signal(p) \/ DeliverSignal(p)
           \/ UNCHANGED vars
    PROVE  Copied'
<1> DEFINE Marks == {"r_store", "w_store", "r_empty"}
           Same == \A p \in Procs : pc'[p] \in Marks => pc'[p] = pc[p] /\ op'[p] = op[p]
<1>1. pc \in [Procs -> PcValues] /\ op \in [Procs -> OpType] /\ Readers \subseteq Procs /\ Writers \subseteq Procs
  BY Zenon DEF Places, Procs
<1>2. ASSUME Same, UNCHANGED chan, writer_closed_ => writer_closed_' PROVE Copied'
  BY <1>2, Kept, Zenon
<1>3. ASSUME NEW p \in Procs, NEW l, l \notin Marks, Goto(p, l), NEW v, op' = [op EXCEPT ![p] = v]
      PROVE  Same
  BY <1>1, <1>3, Zenon DEF Goto
<1>4. ASSUME NEW p \in Procs, NEW l, l \notin Marks, Goto(p, l), UNCHANGED op PROVE Same
  BY <1>1, <1>4, Zenon DEF Goto
<1>5. ASSUME NEW ps, NEW q, pc' = Ready(q, ps), \A p \in Procs : q[p] \in Marks => q[p] = pc[p] /\ op'[p] = op[p]
      PROVE  Same
  BY <1>5, Zenon DEF Ready
<1>6. ASSUME NEW p \in Procs, NEW ps, pc' = Ready([pc EXCEPT ![p] = "idle"], ps), op' = [op EXCEPT ![p] = NoOp]
      PROVE  Same
  <2> DEFINE q == [pc EXCEPT ![p] = "idle"]
  <2>1. \A o \in Procs : q[o] \in Marks => q[o] = pc[o] /\ op'[o] = op[o]
    BY <1>1, <1>6, Zenon
  <2>2. pc' = Ready(q, ps)
    BY <1>6, Zenon
  <2> HIDE DEF q
  <2> QED BY <1>5, <2>1, <2>2, Zenon
<1>7. ASSUME NEW p \in Procs, Return(p) PROVE Same
  BY <1>3, <1>7, Zenon DEF Return
<1> HIDE DEF Same, Marks
<1>8. {"idle", "parked", "r_load", "r_copy", "r_closed", "r_wait", "r_wake", "w_load", "w_copy", "w_wait", "w_wake"}
         \cap Marks = {}
  BY Zenon DEF Marks
<1>9. ASSUME NEW r \in Readers, NEW c \in Reads, ReadCall(r, c.len, c.nonblocking, c.peek) PROVE Copied'
  <2>1. Same
    BY <1>1, <1>9, Zenon DEF ReadCall, Goto, Same, Marks
  <2> QED BY <1>2, <1>9, <2>1, Zenon DEF ReadCall, closed
<1>10. ASSUME NEW w \in Writers, NEW c \in Writes, WriteCall(w, c.buf, c.nonblocking) PROVE Copied'
  <2>1. Same
    BY <1>1, <1>10, Zenon DEF WriteCall, Goto, Same, Marks
  <2> QED BY <1>2, <1>10, <2>1, Zenon DEF WriteCall, closed
<1>11. ASSUME NEW r \in Readers, ReadLoad(r) PROVE Copied'
  <2>1. pc'[r] \notin Marks
    BY <1>1, <1>11, Zenon DEF ReadLoad, Goto, Marks
  <2>2. \A p \in Procs \ {r} : pc'[p] = pc[p] /\ op'[p] = op[p]
    BY <1>1, <1>11, Zenon DEF ReadLoad, Goto
  <2>3. Same
    BY <2>1, <2>2, Zenon DEF Same
  <2> QED BY <1>2, <1>11, <2>3, Zenon DEF ReadLoad, closed
<1>12. ASSUME NEW w \in Writers, WriteLoad(w) PROVE Copied'
  <2>1. pc'[w] \notin Marks
    BY <1>1, <1>12, Zenon DEF WriteLoad, Goto, Return, Marks
  <2>2. \A p \in Procs \ {w} : pc'[p] = pc[p] /\ op'[p] = op[p]
    BY <1>1, <1>12, Zenon DEF WriteLoad, Goto, Return
  <2>3. Same
    BY <2>1, <2>2, Zenon DEF Same
  <2> QED BY <1>2, <1>12, <2>3, Zenon DEF WriteLoad, closed
<1>13. ASSUME NEW r \in Readers, ReadClear(r) \/ ReadIsEmpty(r) \/ ReadWait(r) PROVE Copied'
  <2>1. Return(r) \/ (UNCHANGED op /\ \E l \in {"r_wake", "r_load", "parked"} : Goto(r, l))
    BY <1>13, Zenon DEF ReadClear, ReadIsEmpty, ReadWait
  <2>2. Same
    BY <1>1, <1>4, <1>7, <1>8, <2>1, Zenon
  <2> QED BY <1>2, <1>13, <2>2, Zenon DEF ReadClear, ReadIsEmpty, ReadWait, closed
<1>14. ASSUME NEW w \in Writers, WriteClear(w) \/ WriteWait(w) PROVE Copied'
  <2>1. Return(w) \/ (UNCHANGED op /\ \E l \in {"w_wake", "w_load", "parked"} : Goto(w, l))
    BY <1>14, Zenon DEF WriteClear, WriteWait
  <2>2. Same
    BY <1>1, <1>4, <1>7, <1>8, <2>1, Zenon
  <2> QED BY <1>2, <1>14, <2>2, Zenon DEF WriteClear, WriteWait, closed
<1>15. ASSUME NEW r \in Readers, ReadWake(r) PROVE Copied'
  <2>1. Same
    BY <1>1, <1>3, <1>6, <1>8, <1>15, Zenon DEF ReadWake
  <2> QED BY <1>2, <1>15, <2>1, Zenon DEF ReadWake, closed
<1>16. ASSUME NEW w \in Writers, WriteWake(w) PROVE Copied'
  <2>1. Same
    BY <1>1, <1>3, <1>6, <1>8, <1>16, Zenon DEF WriteWake
  <2> QED BY <1>2, <1>16, <2>1, Zenon DEF WriteWake, closed
<1>17. ASSUME CloseWriter \/ CloseReader \/ \E p \in Procs : Signal(p) PROVE Copied'
  <2>1. UNCHANGED op /\ \E ps : pc' = Ready(pc, ps)
    BY <1>17, Zenon DEF CloseWriter, CloseReader, Signal
  <2>2. Same
    BY <1>5, <2>1, Zenon
  <2> QED BY <1>2, <1>17, <2>2, Zenon DEF CloseWriter, CloseReader, Signal, closed
<1>18. ASSUME (\E p \in Procs : DeliverSignal(p)) \/ UNCHANGED vars PROVE Copied'
  <2>1. UNCHANGED <<pc, op, chan, writer_closed_>>
    BY <1>18, Zenon DEF DeliverSignal, vars, closed
  <2>2. Same
    BY <2>1, Zenon DEF Same
  <2> QED BY <1>2, <2>1, <2>2, Zenon
<1> QED BY <1>9, <1>10, <1>11, <1>12, <1>13, <1>14, <1>15, <1>16, <1>17, <1>18, ZenonT(60)

LEMMA StepCopied ==
    ASSUME OneOfEach, IInv, Copied, [Next]_vars
    PROVE  Copied'
<1>1. Places /\ Ring
  BY Zenon DEF IInv
<1>2. /\ \A r \in Readers : r \in Procs /\ r \notin Writers
      /\ \A w \in Writers : w \in Procs /\ w \notin Readers
  BY ThreadsAssumption, Zenon DEF Procs
<1>3. pc \in [Procs -> PcValues] /\ op \in [Procs -> OpType]
  BY <1>1, Zenon DEF Places
<1>4. /\ Size \in Nat \ {0} /\ in_ \in 0..(Modulus - 1) /\ out_ \in 0..(Modulus - 1) /\ Used \in 0..Size
  BY <1>1, RingFacts, Zenon
<1>5. ASSUME NEW r \in Readers, ReadCopy(r) PROVE Copied'
  <2>1. /\ op' = [op EXCEPT ![r].buf = [i \in 1..op[r].n |-> buf_[(op[r].at + i - 1) % Size]]]
        /\ pc' = [pc EXCEPT ![r] = "r_store"] /\ UNCHANGED <<in_, out_, buf_>>
    BY <1>5, Zenon DEF ReadCopy, Goto, chan
  <2>2. op[r].at = out_
    BY <1>1, <1>5, Zenon DEF Ring, ReadCopy
  <2>3. op'[r].n = op[r].n /\ op'[r].buf = [i \in 1..op[r].n |-> buf_[(op[r].at + i - 1) % Size]]
    BY <1>2, <1>3, <2>1, Zenon DEF OpType
  <2>4. \A w \in Writers : pc'[w] = pc[w] /\ op'[w] = op[w]
    BY <1>2, <1>3, <2>1, Zenon
  <2>5. pc'[r] = "r_store" /\ \A s \in Readers : s = r
    BY <1>2, <1>3, <2>1, Zenon DEF OneOfEach
  <2>6. op'[r].buf = [i \in 1..op'[r].n |-> buf_'[(out_' + i - 1) % Size]]
    BY <2>1, <2>2, <2>3, Zenon
  <2>7. ASSUME NEW w \in Writers, pc'[w] = "w_store", NEW i \in 1..op'[w].n
        PROVE  buf_'[(in_' + i - 1) % Size] = op'[w].buf[i]
    <3>1. pc[w] = "w_store" /\ op'[w] = op[w]
      BY <2>4, <2>7, Zenon
    <3>2. buf_[(in_ + i - 1) % Size] = op[w].buf[i]
      BY <2>7, <3>1, Zenon DEF Copied
    <3> QED BY <2>1, <3>1, <3>2, Zenon
  <2> QED BY <2>5, <2>6, <2>7, Zenon DEF Copied
<1>6. ASSUME NEW w \in Writers, WriteCopy(w) PROVE Copied'
  <2>1. /\ UNCHANGED <<in_, out_, op, writer_closed_>> /\ pc' = [pc EXCEPT ![w] = "w_store"]
    BY <1>6, Zenon DEF WriteCopy, Goto, closed
  <2>2. /\ \A i \in 1..Used : buf_'[(out_ + i - 1) % Size] = buf_[(out_ + i - 1) % Size]
        /\ \A i \in 1..op[w].n : buf_'[(in_ + i - 1) % Size] = op[w].buf[i]
    BY <1>1, <1>6, WriteCopyKeeps, Zenon
  <2>3. (\A v \in Writers : v = w) /\ (\A r \in Readers : pc'[r] = pc[r])
    BY <1>2, <1>3, <2>1, Zenon DEF OneOfEach
  <2>4. ASSUME NEW r \in Readers, pc'[r] = "r_store"
        PROVE  op'[r].buf = [i \in 1..op'[r].n |-> buf_'[(out_' + i - 1) % Size]]
    <3>1. pc[r] = "r_store" /\ op'[r] = op[r]
      BY <2>1, <2>3, <2>4, Zenon
    <3>2. op[r].buf = [i \in 1..op[r].n |-> buf_[(out_ + i - 1) % Size]]
      BY <3>1, Zenon DEF Copied
    <3>3. op[r].n \in Nat /\ op[r].n <= Used
      BY <1>1, <1>2, <1>3, <3>1, Zenon DEF Ring, OpType
    <3>4. \A i \in 1..op[r].n : buf_'[(out_ + i - 1) % Size] = buf_[(out_ + i - 1) % Size]
      <4>1. \A i \in 1..op[r].n : i \in 1..Used
        BY <1>4, <3>3
      <4> QED BY <2>2, <4>1, Zenon
    <3>5. [i \in 1..op[r].n |-> buf_[(out_ + i - 1) % Size]] = [i \in 1..op[r].n |-> buf_'[(out_ + i - 1) % Size]]
      BY <3>4, Zenon
    <3> QED BY <2>1, <3>1, <3>2, <3>5, Zenon
  <2>5. ASSUME NEW i \in 1..op'[w].n PROVE buf_'[(in_' + i - 1) % Size] = op'[w].buf[i]
    BY <2>1, <2>2, Zenon
  <2>6. \A r \in Readers : pc'[r] = "r_empty" => writer_closed_'
    BY <2>1, <2>3, Zenon DEF Copied
  <2> QED BY <2>3, <2>4, <2>5, <2>6, Zenon DEF Copied
<1>7. ASSUME NEW r \in Readers, ReadStore(r) PROVE Copied'
  <2>1. UNCHANGED <<in_, buf_, op>> /\ pc' = [pc EXCEPT ![r] = "r_clear"]
    BY <1>7, Zenon DEF ReadStore, Goto
  <2>2. (\A s \in Readers : s = r) /\ pc'[r] = "r_clear" /\ \A w \in Writers : pc'[w] = pc[w]
    BY <1>2, <1>3, <2>1, Zenon DEF OneOfEach
  <2>3. ASSUME NEW w \in Writers, pc'[w] = "w_store", NEW i \in 1..op'[w].n
        PROVE  buf_'[(in_' + i - 1) % Size] = op'[w].buf[i]
    <3>1. buf_[(in_ + i - 1) % Size] = op[w].buf[i]
      BY <2>1, <2>2, <2>3, Zenon DEF Copied
    <3> QED BY <2>1, <3>1, Zenon
  <2> QED BY <2>2, <2>3, Zenon DEF Copied
<1>8. ASSUME NEW w \in Writers, WriteStore(w) PROVE Copied'
  <2>1. UNCHANGED <<out_, buf_, op, writer_closed_>> /\ pc' = [pc EXCEPT ![w] = "w_clear"]
    BY <1>8, Zenon DEF WriteStore, Goto, closed
  <2>2. (\A v \in Writers : v = w) /\ pc'[w] = "w_clear" /\ \A r \in Readers : pc'[r] = pc[r]
    BY <1>2, <1>3, <2>1, Zenon DEF OneOfEach
  <2>3. ASSUME NEW r \in Readers, pc'[r] = "r_store"
        PROVE  op'[r].buf = [i \in 1..op'[r].n |-> buf_'[(out_' + i - 1) % Size]]
    <3>1. op[r].buf = [i \in 1..op[r].n |-> buf_[(out_ + i - 1) % Size]]
      BY <2>2, <2>3, Zenon DEF Copied
    <3> QED BY <2>1, <3>1, Zenon
  <2>4. \A r \in Readers : pc'[r] = "r_empty" => writer_closed_'
    BY <2>1, <2>2, Zenon DEF Copied
  <2> QED BY <2>2, <2>3, <2>4, Zenon DEF Copied
<1>9. ASSUME NEW r \in Readers, ReadIsClosed(r) PROVE Copied'
  <2>1. /\ UNCHANGED <<in_, out_, buf_, writer_closed_>> /\ pc'[r] \notin {"r_store", "w_store"}
        /\ pc'[r] = "r_empty" => writer_closed_
        /\ \A p \in Procs \ {r} : pc'[p] = pc[p] /\ op'[p] = op[p]
    BY <1>2, <1>3, <1>9, Zenon DEF ReadIsClosed, Goto, Return, chan, closed
  <2>2. (\A s \in Readers : s = r) /\ (\A w \in Writers : pc'[w] = pc[w] /\ op'[w] = op[w])
    BY <1>2, <2>1, Zenon DEF OneOfEach
  <2>3. ASSUME NEW w \in Writers, pc'[w] = "w_store", NEW i \in 1..op'[w].n
        PROVE  buf_'[(in_' + i - 1) % Size] = op'[w].buf[i]
    <3>1. pc[w] = "w_store" /\ op'[w] = op[w]
      BY <2>2, <2>3, Zenon
    <3>2. buf_[(in_ + i - 1) % Size] = op[w].buf[i]
      BY <2>3, <3>1, Zenon DEF Copied
    <3> QED BY <2>1, <3>1, <3>2, Zenon
  <2> QED BY <2>1, <2>2, <2>3, Zenon DEF Copied
<1> QED BY <1>1, <1>5, <1>6, <1>7, <1>8, <1>9, OthersKeep, Zenon DEF Next, ReadStep, WriteStep

-----------------------------------------------------------------------------
(* The steps of ByteStream, with Content for its queue.                    *)
LEMMA StreamSteps ==
    ASSUME NEW q, q = Content(in_, out_, buf_)
    PROVE  /\ UNCHANGED <<got, closed>> /\ Content(in_, out_, buf_)' = q => UNCHANGED BS!vars
           /\ \A n \in 1..(Size - Len(q)) : \A s \in [1..n -> Bytes] :
                 Content(in_, out_, buf_)' = q \o s /\ UNCHANGED <<got, closed>> => BS!Next
           /\ \A n \in 1..Len(q) :
                 /\ got' = SubSeq(q, 1, n) /\ UNCHANGED closed
                 /\ Content(in_, out_, buf_)' \in {q, SubSeq(q, n + 1, Len(q))}
                 => BS!Next
           /\ /\ q = <<>> /\ (reader_closed_ \/ writer_closed_) /\ got' = <<>>
              /\ Content(in_, out_, buf_)' = q /\ UNCHANGED closed
              => BS!Next
           /\ /\ Content(in_, out_, buf_)' = q /\ UNCHANGED got
              /\ \/ reader_closed_' = TRUE /\ UNCHANGED writer_closed_
                 \/ writer_closed_' = TRUE /\ UNCHANGED reader_closed_
              => BS!Next
<1> DEFINE c == [i \in 1..Used |-> buf_[(out_ + i - 1) % Size]]
<1>1. c = q /\ c' = Content(in_, out_, buf_)'
  BY Zenon DEF Content, Used
<1>2. BS!vars = <<c, got, <<reader_closed_, writer_closed_>>>>
  BY Zenon DEF BS!vars, BS!ends
<1>3. BS!Put <=> /\ \E n \in 1..(Size - Len(c)) : \E s \in [1..n -> Bytes] : c' = c \o s
                 /\ UNCHANGED <<got, <<reader_closed_, writer_closed_>>>>
  BY Zenon DEF BS!Put, BS!ends
<1>4. BS!Get <=> /\ \E n \in 1..Len(c) : got' = SubSeq(c, 1, n) /\ c' = SubSeq(c, n + 1, Len(c))
                 /\ UNCHANGED <<reader_closed_, writer_closed_>>
  BY Zenon DEF BS!Get, BS!ends
<1>5. BS!Peek <=> /\ \E n \in 1..Len(c) : got' = SubSeq(c, 1, n)
                  /\ UNCHANGED <<c, <<reader_closed_, writer_closed_>>>>
  BY Zenon DEF BS!Peek, BS!ends
<1>6. BS!EndOfFile <=> /\ c = <<>> /\ (reader_closed_ \/ writer_closed_) /\ got' = <<>>
                       /\ UNCHANGED <<c, <<reader_closed_, writer_closed_>>>>
  BY Zenon DEF BS!EndOfFile, BS!ends
<1>7. BS!Close <=> /\ \/ reader_closed_' = TRUE /\ UNCHANGED writer_closed_
                      \/ writer_closed_' = TRUE /\ UNCHANGED reader_closed_
                   /\ UNCHANGED <<c, got>>
  BY Zenon DEF BS!Close
<1> HIDE DEF c
<1>8. ASSUME UNCHANGED <<got, closed>>, Content(in_, out_, buf_)' = q PROVE UNCHANGED BS!vars
  <2>1. c' = c /\ got' = got /\ reader_closed_' = reader_closed_ /\ writer_closed_' = writer_closed_
    BY <1>1, <1>8, Zenon DEF closed
  <2> QED BY <2>1, Zenon DEF c, BS!vars, BS!ends
<1>9. ASSUME NEW n \in 1..(Size - Len(q)), NEW s \in [1..n -> Bytes], Content(in_, out_, buf_)' = q \o s,
             UNCHANGED <<got, closed>>
      PROVE  BS!Next
  <2>1. BS!Put
    BY <1>1, <1>3, <1>9, Zenon DEF closed
  <2> QED BY <2>1, Zenon DEF BS!Next
<1>10. ASSUME NEW n \in 1..Len(q), got' = SubSeq(q, 1, n), UNCHANGED closed,
              Content(in_, out_, buf_)' \in {q, SubSeq(q, n + 1, Len(q))}
       PROVE  BS!Next
  <2>1. CASE Content(in_, out_, buf_)' = q
    <3>1. BS!Peek
      BY <1>1, <1>5, <1>10, <2>1, Zenon DEF closed
    <3> QED BY <3>1, Zenon DEF BS!Next
  <2>2. CASE Content(in_, out_, buf_)' = SubSeq(q, n + 1, Len(q))
    <3>1. BS!Get
      BY <1>1, <1>4, <1>10, <2>2, Zenon DEF closed
    <3> QED BY <3>1, Zenon DEF BS!Next
  <2> QED BY <1>10, <2>1, <2>2, Zenon
<1>11. ASSUME q = <<>>, reader_closed_ \/ writer_closed_, got' = <<>>, Content(in_, out_, buf_)' = q, UNCHANGED closed
       PROVE  BS!Next
  <2>1. BS!EndOfFile
    BY <1>1, <1>6, <1>11, Zenon DEF closed
  <2> QED BY <2>1, Zenon DEF BS!Next
<1>12. ASSUME Content(in_, out_, buf_)' = q, UNCHANGED got,
              \/ reader_closed_' = TRUE /\ UNCHANGED writer_closed_
              \/ writer_closed_' = TRUE /\ UNCHANGED reader_closed_
       PROVE  BS!Next
  <2>1. BS!Close
    BY <1>1, <1>7, <1>12, Zenon
  <2> QED BY <2>1, Zenon DEF BS!Next
<1>13. \A n \in 1..(Size - Len(q)) : \A s \in [1..n -> Bytes] :
          Content(in_, out_, buf_)' = q \o s /\ UNCHANGED <<got, closed>> => BS!Next
  BY <1>9, Zenon
<1>14. \A n \in 1..Len(q) :
          /\ got' = SubSeq(q, 1, n) /\ UNCHANGED closed
          /\ Content(in_, out_, buf_)' \in {q, SubSeq(q, n + 1, Len(q))}
          => BS!Next
  BY <1>10, Zenon
<1> QED BY <1>8, <1>11, <1>12, <1>13, <1>14, Zenon

(* Every step of the pipe is one of the stream, or none: the stream        *)
(* changes where an index is stored, and an end of file is seen there.     *)
LEMMA StepStreams ==
    ASSUME OneOfEach, IInv, Copied, [Next]_vars
    PROVE  BS!Next \/ UNCHANGED BS!vars
<1> DEFINE q == Content(in_, out_, buf_)
<1>1. /\ Places /\ Ring
      /\ Size \in Nat \ {0} /\ Modulus \in Nat \ {0} /\ Size < Modulus
      /\ in_ \in 0..(Modulus - 1) /\ out_ \in 0..(Modulus - 1) /\ Used \in 0..Size
      /\ is_empty <=> Used = 0
      /\ buf_ \in [0..(Size - 1) -> Bytes]
  BY RingFacts, Zenon DEF IInv, Ring
<1>2. q \in Seq(Bytes) /\ Len(q) = Used /\ (is_empty => q = <<>>)
  <2>1. q \in Seq(Bytes) /\ Len(q) = Used
    BY <1>1, ContentFacts, Zenon DEF Used
  <2>2. is_empty => q = <<>>
    BY <1>1, <2>1, EmptySeq, Zenon
  <2> QED BY <2>1, <2>2, Zenon
<1>3. \A p \in Readers \cup Writers : op[p] \in OpType
  BY <1>1, Zenon DEF Places, Procs
<1>4. UNCHANGED chan => Content(in_, out_, buf_)' = q
  BY Zenon DEF chan, Content
<1>5. ASSUME NEW w \in Writers, WriteStore(w) PROVE BS!Next
  <2> DEFINE n == op[w].n
             s == [i \in 1..n |-> op[w].buf[i]]
  <2>1. /\ n \in Nat /\ n > 0 /\ n <= Size - Used /\ n <= Len(op[w].buf)
        /\ op[w].at = in_ /\ op[w].buf \in Seq(Bytes) /\ pc[w] = "w_store"
    BY <1>1, <1>3, <1>5, Zenon DEF WriteStore, Ring, OpType
  <2>2. s \in [1..n -> Bytes]
    BY <2>1, ElementOfSeq
  <2>3. \A i \in 1..n : buf_[(in_ + i - 1) % Size] = s[i]
    BY <2>1, Zenon DEF Copied
  <2>4. Used + n < Modulus /\ Used = (in_ - out_) % Modulus
    BY <1>1, <2>1, Fits, ZenonT(60) DEF Used
  <2> HIDE DEF n, s
  <2>5. Content((in_ + n) % Modulus, out_, buf_) = q \o s
    <3>1. ((in_ - out_) % Modulus) + n < Modulus /\ n \in Nat
      BY <2>1, <2>4, Zenon
    <3>2. \A a, b \in 0..(Modulus - 1), f \in [0..(Size - 1) -> Bytes] :
             /\ ((a - b) % Modulus) + n < Modulus
             /\ \A i \in 1..n : f[(a + i - 1) % Size] = s[i]
             => Content((a + n) % Modulus, b, f) = Content(a, b, f) \o s
      BY <2>2, <3>1, Appended, Zenon
    <3>3. in_ \in 0..(Modulus - 1) /\ out_ \in 0..(Modulus - 1) /\ buf_ \in [0..(Size - 1) -> Bytes]
      BY <1>1, Zenon
    <3> QED BY <2>3, <3>1, <3>2, <3>3, Zenon
  <2>6. Content(in_, out_, buf_)' = q \o s
    BY <1>5, <2>1, <2>5, Zenon DEF WriteStore, Content, n
  <2>7. n \in 1..(Size - Len(q))
    BY <1>1, <1>2, <2>1
  <2>8. UNCHANGED <<got, closed>>
    BY <1>5, Zenon DEF WriteStore
  <2> QED BY <2>2, <2>6, <2>7, <2>8, StreamSteps, Zenon
<1>6. ASSUME NEW r \in Readers, ReadStore(r) PROVE BS!Next
  <2> DEFINE n == op[r].n
  <2>1. /\ n \in Nat /\ n > 0 /\ n <= Used /\ op[r].at = out_ /\ pc[r] = "r_store"
        /\ op[r].peek \in BOOLEAN
    BY <1>1, <1>3, <1>6, Zenon DEF ReadStore, Ring, OpType
  <2>2. got' = [i \in 1..n |-> buf_[(out_ + i - 1) % Size]]
    BY <1>6, <2>1, ZenonT(60) DEF ReadStore, Copied
  <2>3. n \in 1..Len(q) /\ n <= (in_ - out_) % Modulus
    BY <1>1, <1>2, <2>1 DEF Used
  <2> HIDE DEF n
  <2>4. /\ Content(in_, (out_ + n) % Modulus, buf_) = SubSeq(q, n + 1, Len(q))
        /\ [i \in 1..n |-> buf_[(out_ + i - 1) % Size]] = SubSeq(q, 1, n)
    <3>1. \A a, b \in 0..(Modulus - 1), f \in [0..(Size - 1) -> Bytes] :
             n <= (a - b) % Modulus =>
                /\ Content(a, (b + n) % Modulus, f) = SubSeq(Content(a, b, f), n + 1, Len(Content(a, b, f)))
                /\ [i \in 1..n |-> f[(b + i - 1) % Size]] = SubSeq(Content(a, b, f), 1, n)
      BY <2>1, Taken, Zenon
    <3>2. in_ \in 0..(Modulus - 1) /\ out_ \in 0..(Modulus - 1) /\ buf_ \in [0..(Size - 1) -> Bytes]
      BY <1>1, Zenon
    <3> QED BY <2>3, <3>1, <3>2, Zenon
  <2>5. Content(in_, out_, buf_)' \in {q, SubSeq(q, n + 1, Len(q))}
    <3>1. in_' = in_ /\ buf_' = buf_ /\ out_' = IF op[r].peek THEN out_ ELSE (out_ + n) % Modulus
      BY <1>6, <2>1, Zenon DEF ReadStore, n
    <3>2. Content(in_, out_, buf_)' = Content(in_, out_', buf_)
      BY <3>1, Zenon DEF Content
    <3> QED BY <2>1, <2>4, <3>1, <3>2, Zenon
  <2>6. UNCHANGED closed
    BY <1>6, Zenon DEF ReadStore
  <2>7. got' = SubSeq(q, 1, n)
    BY <2>2, <2>4, Zenon
  <2> QED BY <2>3, <2>5, <2>6, <2>7, StreamSteps, Zenon
<1>7. ASSUME NEW w \in Writers, WriteCopy(w) PROVE UNCHANGED BS!vars
  <2>1. \A i \in 1..Used : buf_'[(out_ + i - 1) % Size] = buf_[(out_ + i - 1) % Size]
    BY <1>1, <1>7, WriteCopyKeeps, Zenon
  <2>2. in_' = in_ /\ out_' = out_ /\ UNCHANGED <<got, closed>>
    BY <1>7, Zenon DEF WriteCopy
  <2>3. Content(in_, out_, buf_)' = [i \in 1..Used |-> buf_'[(out_ + i - 1) % Size]]
    BY <2>2, Zenon DEF Content, Used
  <2>4. q = [i \in 1..Used |-> buf_[(out_ + i - 1) % Size]]
    BY Zenon DEF Content, Used
  <2>5. Content(in_, out_, buf_)' = q
    BY <2>1, <2>3, <2>4, Zenon
  <2> QED BY <2>2, <2>5, StreamSteps, Zenon
<1>8. ASSUME NEW r \in Readers, ReadIsEmpty(r) \/ ReadWait(r) PROVE BS!Next \/ UNCHANGED BS!vars
  <2>1. /\ Content(in_, out_, buf_)' = q /\ UNCHANGED closed
        /\ \/ UNCHANGED got
           \/ got' = <<>> /\ is_empty /\ (reader_closed_ \/ writer_closed_)
    BY <1>4, <1>8, Zenon DEF ReadIsEmpty, ReadWait, Copied
  <2> QED BY <1>2, <2>1, StreamSteps, Zenon
<1>9. ASSUME CloseWriter \/ CloseReader PROVE BS!Next
  <2>1. /\ Content(in_, out_, buf_)' = q /\ UNCHANGED got
        /\ \/ reader_closed_' = TRUE /\ UNCHANGED writer_closed_
           \/ writer_closed_' = TRUE /\ UNCHANGED reader_closed_
    BY <1>4, <1>9, Zenon DEF CloseWriter, CloseReader
  <2> QED BY <2>1, StreamSteps, Zenon
<1>10. ASSUME \/ \E r \in Readers :
                    \/ \E c \in Reads : ReadCall(r, c.len, c.nonblocking, c.peek)
                    \/ ReadLoad(r) \/ ReadCopy(r) \/ ReadClear(r) \/ ReadWake(r) \/ ReadIsClosed(r)
              \/ \E w \in Writers :
                    \/ \E c \in Writes : WriteCall(w, c.buf, c.nonblocking)
                    \/ WriteLoad(w) \/ WriteClear(w) \/ WriteWake(w) \/ WriteWait(w)
              \/ \E p \in Procs : Signal(p) \/ DeliverSignal(p)
              \/ UNCHANGED vars
       PROVE  UNCHANGED BS!vars
  <2>1. UNCHANGED <<chan, closed, got>>
    BY <1>10, ZenonT(60) DEF ReadCall, ReadLoad, ReadCopy, ReadClear, ReadWake, ReadIsClosed,
       WriteCall, WriteLoad, WriteClear, WriteWake, WriteWait, Signal, DeliverSignal, vars
  <2> QED BY <1>4, <2>1, StreamSteps, Zenon
<1> QED BY <1>5, <1>6, <1>7, <1>8, <1>9, <1>10, Zenon DEF Next, ReadStep, WriteStep

(* Every behaviour of DoRead and DoWrite, the lock-free steps of both      *)
(* sides interleaved, is one of a bounded byte stream: bytes come out      *)
(* once, in order and unchanged, never more than fit, and end of file is   *)
(* reported only once everything written has been read.                    *)
THEOREM PipeIsAByteStream ==
    ASSUME OneOfEach
    PROVE  Spec => ImplementsByteStream
<1>1. Init => IInv /\ Copied /\ BS!Init
  <2> SUFFICES ASSUME Init PROVE IInv /\ Copied /\ BS!Init
    BY Zenon
  <2>1. IInv
    BY InitIInv, Zenon
  <2>2. \A p \in Readers \cup Writers : pc[p] = "idle"
    BY Zenon DEF Init, Procs
  <2>3. Copied
    BY <2>2, Zenon DEF Copied
  <2>4. Used = 0
    BY <2>1, RingFacts, Zenon DEF IInv, Init, is_empty
  <2>5. [i \in 1..Used |-> buf_[(out_ + i - 1) % Size]] = <<>>
    BY <2>4
  <2> QED BY <2>1, <2>3, <2>5, Zenon DEF BS!Init, Init
<1>2. IInv /\ Copied /\ [Next]_vars => IInv' /\ Copied'
  BY StepIInv, StepCopied, Zenon
<1>3. IInv /\ Copied /\ [Next]_vars => [BS!Next]_(BS!vars)
  BY StepStreams, Zenon
<1> QED BY <1>1, <1>2, <1>3, PTL DEF Spec, ImplementsByteStream, BS!Spec
=============================================================================
