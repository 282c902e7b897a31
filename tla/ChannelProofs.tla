--------------------------- MODULE ChannelProofs ---------------------------
(***************************************************************************)
(* Proofs about an eventfd, for every number of threads, every width of    *)
(* the counter and any amount written, and about MCChannels, where what    *)
(* PipeProofs shows of a pipe holds too.                                   *)
(***************************************************************************)
EXTENDS MCChannels, PipeProofs

(* The sum of two counters wraps once or not at all, and it wrapped just   *)
(* if it is less than what was added.                                      *)
LEMMA PlusWraps ==
    ASSUME Ev!Assumptions, NEW a \in 0..Top, NEW b \in 0..(Top - 1)
    PROVE  /\ a + b <= Top => Ev!Plus(a, b) = a + b
           /\ a + b > Top => Ev!Plus(a, b) = a + b - (Top + 1)
           /\ Ev!Plus(a, b) < b <=> a + b > Top
<1>1. a + b \in Nat /\ Top + 1 \in Nat \ {0} /\ a + b < 2 * (Top + 1)
  BY DEF Ev!Assumptions
<1>2. a + b <= Top => Ev!Plus(a, b) = a + b
  BY <1>1 DEF Ev!Plus, Ev!Assumptions
<1>3. a + b > Top => Ev!Plus(a, b) = a + b - (Top + 1)
  BY <1>1 DEF Ev!Plus, Ev!Assumptions
<1> QED BY <1>2, <1>3 DEF Ev!Assumptions

(* What MustWait tests, without the wrapping.                              *)
LEMMA MustWaitIff ==
    ASSUME Ev!Assumptions, Ev!TypeOK, NEW v \in 0..(Top - 1)
    PROVE  Ev!MustWait(v) <=> IF v = 0 THEN val_ = 0 ELSE val_ + v > Top
BY PlusWraps, Zenon DEF Ev!MustWait, Ev!TypeOK

-----------------------------------------------------------------------------
(* How a step can change the counter.                                      *)
Added(v) == val_ + v <= Top /\ val_' = val_ + v /\ written' = written + v /\ UNCHANGED taken
Removed(n) == n <= val_ /\ val_' = val_ - n /\ taken' = taken + n /\ UNCHANGED written

(* A call that completes moves the counter within its bounds, leaves the   *)
(* event mask of the new value, and nobody asleep.                         *)
LEMMA FinishStep ==
    ASSUME Ev!Assumptions, Ev!TypeOK, Ev!SleepersMustWait, NEW t \in EvThreads, NEW v \in 0..(Top - 1),
           ~Ev!MustWait(v), Ev!Finish(t, v)
    PROVE  /\ (\E n \in 1..Top : Added(n) \/ Removed(n))
           /\ Ev!PollMaskIsCurrent => Ev!PollMaskIsCurrent'
           /\ poll_' \subseteq {"In", "Out"}
           /\ queue_' = {}
           /\ epc' \in [EvThreads -> {"user", "ready"}]
           /\ eop' \in [EvThreads -> 0..(Top - 1)]
<1>1. Top \in Nat \ {0} /\ val_ \in 0..Top /\ semaphore \in BOOLEAN
  BY Zenon DEF Ev!Assumptions, Ev!TypeOK
<1>2. eop' \in [EvThreads -> 0..(Top - 1)]
  BY <1>1 DEF Ev!Finish, Ev!TypeOK
<1>3. ASSUME Ev!WakeAll([epc EXCEPT ![t] = "user"])
      PROVE  queue_' = {} /\ epc' \in [EvThreads -> {"user", "ready"}]
  BY <1>3, Zenon DEF Ev!WakeAll, Ev!TypeOK, Ev!SleepersMustWait
<1>4. CASE v = 0
  <2>1. Ev!DoRead(t) /\ val_ > 0
    BY <1>1, <1>4, MustWaitIff DEF Ev!Finish
  <2>2. Ev!Took \in 1..Top /\ Ev!Took <= val_
    BY <1>1, <2>1 DEF Ev!Took
  <2>3. Removed(Ev!Took) /\ val_' \in 0..(Top - 1)
    BY <1>1, <2>1, <2>2 DEF Ev!DoRead, Removed
  <2>4. poll_' = (IF val_' = 0 THEN poll_ \ {"In"} ELSE poll_) \cup {"Out"}
    BY <1>1, <2>1, <2>3 DEF Ev!DoRead
  <2>5. ASSUME Ev!PollMaskIsCurrent PROVE Ev!PollMaskIsCurrent'
    <3>1. "In" \in poll_ /\ poll_ \subseteq {"In", "Out"}
      BY <1>1, <2>1, <2>5, Zenon DEF Ev!PollMaskIsCurrent, Ev!Events
    <3>2. (val_' > 0 <=> val_' # 0) /\ val_' < Top
      BY <1>1, <2>3
    <3> QED BY <2>4, <3>1, <3>2, Zenon DEF Ev!PollMaskIsCurrent, Ev!Events
  <2>6. poll_' \subseteq {"In", "Out"}
    BY <2>4, Zenon DEF Ev!TypeOK
  <2> QED BY <1>2, <1>3, <2>1, <2>2, <2>3, <2>5, <2>6, ZenonT(60) DEF Ev!DoRead
<1>5. CASE v # 0
  <2>1. Ev!DoWrite(t, v) /\ val_ + v <= Top
    BY <1>1, <1>5, MustWaitIff DEF Ev!Finish
  <2>2. v \in 1..Top /\ Added(v)
    BY <1>1, <1>5, <2>1, PlusWraps DEF Ev!DoWrite, Added
  <2>3. val_ < Top /\ val_' \in 1..Top
    BY <1>1, <2>2 DEF Added
  <2>4. poll_' = (poll_ \cup {"In"}) \ (IF val_' = Top THEN {"Out"} ELSE {})
    BY <2>1, Zenon DEF Ev!DoWrite
  <2>5. ASSUME Ev!PollMaskIsCurrent PROVE Ev!PollMaskIsCurrent'
    <3>1. "Out" \in poll_ /\ poll_ \subseteq {"In", "Out"}
      BY <2>3, <2>5, Zenon DEF Ev!PollMaskIsCurrent, Ev!Events
    <3>2. val_' > 0 /\ (val_' < Top <=> val_' # Top)
      BY <1>1, <2>3
    <3> QED BY <2>4, <3>1, <3>2, Zenon DEF Ev!PollMaskIsCurrent, Ev!Events
  <2>6. poll_' \subseteq {"In", "Out"}
    BY <2>4, Zenon DEF Ev!TypeOK
  <2> QED BY <1>2, <1>3, <2>1, <2>2, <2>5, <2>6, ZenonT(60) DEF Ev!DoWrite
<1> QED BY <1>4, <1>5, Zenon

(* The steps, by what they do to the counter: a call that does not         *)
(* complete, a signal or a restore leaves it alone.                        *)
LEMMA Classify ==
    ASSUME Ev!Assumptions, Ev!TypeOK, [Ev!Next]_(Ev!vars)
    PROVE  \/ \E t \in EvThreads, v \in 0..(Top - 1) :
                 ~Ev!MustWait(v) /\ Ev!Finish(t, v) /\ UNCHANGED <<semaphore, esig>>
           \/ \E t \in EvThreads : Ev!Fail(t) /\ queue_' = queue_ \ {t} /\ UNCHANGED <<semaphore, esig>>
           \/ \E t \in EvThreads, v \in 0..(Top - 1) :
                 Ev!MustWait(v) /\ Ev!Park(t, v) /\ UNCHANGED <<semaphore, esig>>
           \/ Ev!Restore \/ (\E t \in EvThreads : Ev!Signal(t) \/ Ev!DeliverSignal(t)) \/ UNCHANGED Ev!vars
<1>1. \A t \in EvThreads : eop[t] \in 0..(Top - 1) /\ (epc[t] = "user" => t \notin queue_)
  BY Zenon DEF Ev!TypeOK
<1>2. ASSUME NEW t \in EvThreads, NEW v \in 0..(Top - 1), NEW n \in BOOLEAN, Ev!Call(t, v, n)
      PROVE  \/ ~Ev!MustWait(v) /\ Ev!Finish(t, v) /\ UNCHANGED <<semaphore, esig>>
             \/ Ev!Fail(t) /\ queue_' = queue_ \ {t} /\ UNCHANGED <<semaphore, esig>>
             \/ Ev!MustWait(v) /\ Ev!Park(t, v) /\ UNCHANGED <<semaphore, esig>>
  <2>1. queue_ = queue_ \ {t}
    BY <1>1, <1>2, Zenon DEF Ev!Call
  <2> QED BY <1>2, <2>1, Zenon DEF Ev!Call
<1>3. ASSUME NEW t \in EvThreads, Ev!Resume(t)
      PROVE  \/ ~Ev!MustWait(eop[t]) /\ Ev!Finish(t, eop[t]) /\ UNCHANGED <<semaphore, esig>>
             \/ Ev!Fail(t) /\ queue_' = queue_ \ {t} /\ UNCHANGED <<semaphore, esig>>
             \/ Ev!MustWait(eop[t]) /\ Ev!Park(t, eop[t]) /\ UNCHANGED <<semaphore, esig>>
  <2>1. t \notin queue_ => queue_ = queue_ \ {t}
    BY Zenon
  <2> QED BY <1>3, <2>1, Zenon DEF Ev!Resume
<1> QED BY <1>1, <1>2, <1>3, Zenon DEF Ev!Next

-----------------------------------------------------------------------------
(* The inductive invariant.  TypeOK keeps every thread in the queue out of *)
(* user code, so that a wake-up meant for one call never meets another.    *)
CounterInv == Ev!TypeOK /\ Ev!CountConserved /\ Ev!SleepersMustWait

LEMMA StepCounter ==
    ASSUME Ev!Assumptions, CounterInv, [Ev!Next]_(Ev!vars)
    PROVE  CounterInv' /\ (Ev!PollMaskIsCurrent => Ev!PollMaskIsCurrent')
<1>1. Ev!TypeOK /\ Ev!CountConserved /\ Ev!SleepersMustWait /\ Top \in Nat \ {0}
  BY Zenon DEF CounterInv, Ev!Assumptions
<1>2. ASSUME NEW t \in EvThreads, NEW v \in 0..(Top - 1), ~Ev!MustWait(v), Ev!Finish(t, v), UNCHANGED <<semaphore, esig>>
      PROVE  CounterInv' /\ (Ev!PollMaskIsCurrent => Ev!PollMaskIsCurrent')
  <2>1. /\ (\E n \in 1..Top : Added(n) \/ Removed(n))
        /\ Ev!PollMaskIsCurrent => Ev!PollMaskIsCurrent'
        /\ poll_' \subseteq {"In", "Out"} /\ queue_' = {}
        /\ epc' \in [EvThreads -> {"user", "ready"}] /\ eop' \in [EvThreads -> 0..(Top - 1)]
    BY <1>1, <1>2, FinishStep, Zenon
  <2>2. val_' \in 0..Top /\ written' \in Nat /\ taken' \in Nat /\ Ev!CountConserved'
    BY <1>1, <2>1 DEF Added, Removed, Ev!TypeOK, Ev!CountConserved
  <2>3. Ev!TypeOK'
    BY <1>1, <1>2, <2>1, <2>2, Zenon DEF Ev!TypeOK
  <2>4. Ev!SleepersMustWait'
    BY <2>1, Zenon DEF Ev!SleepersMustWait
  <2> QED BY <2>1, <2>2, <2>3, <2>4, Zenon DEF CounterInv
<1>3. ASSUME NEW t \in EvThreads, Ev!Fail(t), queue_' = queue_ \ {t}, UNCHANGED <<semaphore, esig>>
      PROVE  CounterInv' /\ (Ev!PollMaskIsCurrent => Ev!PollMaskIsCurrent')
  <2>1. Ev!TypeOK'
    BY <1>1, <1>3 DEF Ev!TypeOK, Ev!Fail, Ev!hist
  <2>2. Ev!SleepersMustWait'
    BY <1>1, <1>3, Zenon DEF Ev!TypeOK, Ev!Fail, Ev!SleepersMustWait, Ev!MustWait
  <2>3. Ev!CountConserved' /\ (Ev!PollMaskIsCurrent => Ev!PollMaskIsCurrent')
    BY <1>1, <1>3, Zenon DEF Ev!Fail, Ev!CountConserved, Ev!PollMaskIsCurrent, Ev!Events, Ev!hist
  <2> QED BY <2>1, <2>2, <2>3, Zenon DEF CounterInv
<1>4. ASSUME NEW t \in EvThreads, NEW v \in 0..(Top - 1), Ev!MustWait(v), Ev!Park(t, v), UNCHANGED <<semaphore, esig>>
      PROVE  CounterInv' /\ (Ev!PollMaskIsCurrent => Ev!PollMaskIsCurrent')
  <2>1. Ev!TypeOK'
    BY <1>1, <1>4 DEF Ev!TypeOK, Ev!Park, Ev!hist
  <2>2. Ev!SleepersMustWait'
    BY <1>1, <1>4, Zenon DEF Ev!TypeOK, Ev!Park, Ev!SleepersMustWait, Ev!MustWait
  <2>3. Ev!CountConserved' /\ (Ev!PollMaskIsCurrent => Ev!PollMaskIsCurrent')
    BY <1>1, <1>4, Zenon DEF Ev!Park, Ev!CountConserved, Ev!PollMaskIsCurrent, Ev!Events, Ev!hist
  <2> QED BY <2>1, <2>2, <2>3, Zenon DEF CounterInv
<1>5. CASE Ev!Restore
  <2>1. poll_' = Ev!Events(val_) /\ Ev!Events(val_) \subseteq {"In", "Out"}
    BY <1>5, Zenon DEF Ev!Restore, Ev!Events
  <2>2. Ev!TypeOK'
    BY <1>1, <1>5, <2>1, Zenon DEF Ev!TypeOK, Ev!Restore, Ev!hist
  <2>3. Ev!SleepersMustWait'
    BY <1>5, Zenon DEF Ev!Restore, Ev!SleepersMustWait
  <2>4. Ev!CountConserved' /\ Ev!PollMaskIsCurrent'
    BY <1>1, <1>5, ZenonT(60) DEF Ev!Restore, Ev!CountConserved, Ev!PollMaskIsCurrent, Ev!Events, Ev!hist
  <2> QED BY <2>2, <2>3, <2>4, Zenon DEF CounterInv
<1>6. ASSUME NEW t \in EvThreads, Ev!Signal(t) \/ Ev!DeliverSignal(t)
      PROVE  CounterInv' /\ (Ev!PollMaskIsCurrent => Ev!PollMaskIsCurrent')
  <2>1. Ev!TypeOK'
    BY <1>1, <1>6, Zenon DEF Ev!TypeOK, Ev!Signal, Ev!DeliverSignal, Ev!hist
  <2>2. Ev!SleepersMustWait'
    BY <1>1, <1>6, Zenon DEF Ev!TypeOK, Ev!Signal, Ev!DeliverSignal, Ev!SleepersMustWait, Ev!MustWait
  <2>3. Ev!CountConserved' /\ (Ev!PollMaskIsCurrent => Ev!PollMaskIsCurrent')
    BY <1>1, <1>6, Zenon DEF Ev!Signal, Ev!DeliverSignal, Ev!CountConserved, Ev!PollMaskIsCurrent, Ev!Events, Ev!hist
  <2> QED BY <2>1, <2>2, <2>3, Zenon DEF CounterInv
<1>7. CASE UNCHANGED Ev!vars
  BY <1>1, <1>7, Zenon DEF Ev!vars, Ev!hist, CounterInv, Ev!TypeOK, Ev!CountConserved, Ev!SleepersMustWait, Ev!MustWait, Ev!PollMaskIsCurrent, Ev!Events
<1> QED BY <1>1, <1>2, <1>3, <1>4, <1>5, <1>6, <1>7, Classify, ZenonT(60)

LEMMA InitCounter ==
    ASSUME Ev!Assumptions, Ev!Init
    PROVE  CounterInv /\ (InitVals = {0} => Ev!PollMaskIsCurrent)
<1>1. Top \in Nat \ {0} /\ val_ \in 0..Top /\ 0 \in 0..(Top - 1)
  BY DEF Ev!Init, Ev!Assumptions
<1>2. Ev!TypeOK
  BY <1>1 DEF Ev!Init, Ev!TypeOK
<1>3. Ev!CountConserved
  BY <1>1 DEF Ev!Init, Ev!CountConserved
<1>4. Ev!SleepersMustWait
  BY Zenon DEF Ev!Init, Ev!SleepersMustWait
<1>5. ASSUME InitVals = {0} PROVE Ev!PollMaskIsCurrent
  BY <1>1, <1>5 DEF Ev!Init, Ev!PollMaskIsCurrent, Ev!Events
<1> QED BY <1>2, <1>3, <1>4, <1>5, Zenon DEF CounterInv

(* A step of the two files is one of the eventfd, or leaves it alone ...   *)
LEMMA CounterInside == MCSpec => Ev!Init /\ [][Ev!Next]_(Ev!vars)
<1>1. MCInit => Ev!Init
  BY Zenon DEF MCInit
<1>2. [MCNext]_allvars => [Ev!Next]_(Ev!vars)
  BY Zenon DEF MCNext, allvars, evars, Ev!vars, Ev!hist
<1> QED BY <1>1, <1>2, PTL DEF MCSpec

(* ... and one of the pipe.                                                *)
LEMMA PipeInside == MCSpec => Spec
<1>1. MCInit => Init
  BY Zenon DEF MCInit
<1>2. [MCNext]_allvars => [Next]_vars
  BY Zenon DEF MCNext, allvars
<1> QED BY <1>1, <1>2, PTL DEF MCSpec, Spec

(* Read and Write of an eventfd neither lose nor invent an event, up to    *)
(* UINT64_MAX, and nobody sleeps on what is there, readers and writers     *)
(* woken from the one queue_ and interrupted in any order.                 *)
LEMMA CounterSafety == MCSpec => []CounterInv
<1>1. Ev!Init => CounterInv
  BY InitCounter, CounterAssumption, Zenon
<1>2. CounterInv /\ [Ev!Next]_(Ev!vars) => CounterInv'
  BY StepCounter, CounterAssumption, Zenon
<1> QED BY <1>1, <1>2, CounterInside, PTL

(* The event mask that Read and Write adjust piece by piece is the one     *)
(* load() computes, if the counter is created at zero.                     *)
LEMMA MaskCurrent ==
    ASSUME InitVals = {0}
    PROVE  MCSpec => []Ev!PollMaskIsCurrent
<1>1. Ev!Init => CounterInv /\ Ev!PollMaskIsCurrent
  BY InitCounter, CounterAssumption, Zenon
<1>2. CounterInv /\ Ev!PollMaskIsCurrent /\ [Ev!Next]_(Ev!vars)
        => CounterInv' /\ Ev!PollMaskIsCurrent'
  BY StepCounter, CounterAssumption, Zenon
<1> QED BY <1>1, <1>2, CounterInside, PTL

-----------------------------------------------------------------------------
(* No wake-up is lost.  A thread sleeps in a pipe only while it is empty   *)
(* or full or the other side has still to take lock_ and wake it, whatever *)
(* the lock-free steps, closes and signals in between, and on an eventfd   *)
(* only while the counter is zero or its value does not fit.               *)
THEOREM NobodySleepsForNothing ==
    ASSUME OneOfEach
    PROVE  MCSpec => []SleepersMustWait
<1>1. Spec => [](TypeOK /\ SleepersWillBeWoken)
  BY NoLostWakeUp, Zenon
<1>2. CounterInv => Ev!SleepersMustWait
  BY Zenon DEF CounterInv
<1> QED BY <1>1, <1>2, PipeInside, CounterSafety, PTL DEF SleepersMustWait

(* Nothing is lost or made up: what was added to an eventfd is what was    *)
(* taken plus what is left, the indices of a pipe stay in their range and  *)
(* within Size of each other as they wrap, and the event masks of both     *)
(* tell what would not block, for an eventfd if it is created at zero.     *)
THEOREM CountsAreExact ==
    ASSUME OneOfEach, InitVals = {0}
    PROVE  MCSpec => []CountsExact
<1>1. Spec => [](TypeOK /\ SleepersWillBeWoken)
  BY NoLostWakeUp, Zenon
<1>2. Spec => []PollMasksAtRest
  BY MasksTellTheTruth, Zenon
<1>3. CounterInv => Ev!TypeOK /\ Ev!CountConserved
  BY Zenon DEF CounterInv
<1>4. MCSpec => []Ev!PollMaskIsCurrent
  BY MaskCurrent, Zenon
<1> QED BY <1>1, <1>2, <1>3, <1>4, PipeInside, CounterSafety, PTL DEF CountsExact
=============================================================================
