-------------------------------- MODULE Pipe --------------------------------
(***************************************************************************)
(* WaitableChannel<ByteChannel, false> (fs/pipe.h, base/byte_channel.h),   *)
(* the stream pipe behind pipe(2) and stream unix sockets.                 *)
(*                                                                         *)
(* The ring buffer is read and written without the lock: load the indices, *)
(* copy, store one index.  Only then does each side take lock_ to update   *)
(* the poll masks and wake the other side.  Closing either end, signals    *)
(* and the other side's lock-free steps come in between.                   *)
(***************************************************************************)
EXTENDS Integers, Sequences, FiniteSets

CONSTANTS
    Readers, Writers,  \* the threads that read and that write
    Bytes,             \* the bytes written
    Reads, Writes,     \* the arguments of the calls that are made
    Size,              \* size_, a power of two
    Modulus,           \* the range of size_t, a multiple of Size larger than Size
    Signalled,         \* the threads that are sent signals
    None               \* a null thread pointer

ASSUME SizeAssumption == Size \in Nat \ {0} /\ Modulus \in Nat /\ Modulus > Size
                         /\ Modulus % Size = 0

ASSUME CallsAssumption ==
    /\ Reads \subseteq [len : Nat \ {0}, nonblocking : BOOLEAN, peek : BOOLEAN]
    /\ Writes \subseteq [buf : Seq(Bytes) \ {<<>>}, nonblocking : BOOLEAN]

ASSUME ThreadsAssumption ==
    Readers \cap Writers = {} /\ None \notin Readers \cup Writers /\ Bytes # {}

VARIABLES
    in_, out_, buf_,                \* ByteChannel
    reader_closed_, writer_closed_,
    read_waker_, write_waker_,      \* the thread each ThreadWaker has armed
    read_poll_, write_poll_,        \* event masks of the two files' poll sources
    locked,                         \* lock_ is held across steps
    pc,                             \* where each thread is in DoRead or DoWrite
    op,                             \* its arguments and local variables
    sig,                            \* a signal is pending
    got                             \* what the last read returned

chan == <<in_, out_, buf_>>
closed == <<reader_closed_, writer_closed_>>
wakers == <<read_waker_, write_waker_>>
polls == <<read_poll_, write_poll_>>
vars == <<chan, closed, wakers, polls, locked, pc, op, sig, got>>

Procs == Readers \cup Writers
Min2(a, b) == IF a < b THEN a ELSE b
Used == (in_ - out_) % Modulus
is_empty == in_ = out_
is_full == Used >= Size

(* The poll sources are attached while their file is open.                 *)
has_read_poll == ~reader_closed_
has_write_poll == ~writer_closed_

NoOp == [nonblocking |-> FALSE, peek |-> FALSE, buf |-> <<>>, len |-> 0, n |-> 0, at |-> 0]

Init ==
    /\ in_ = 0 /\ out_ = 0
    /\ buf_ = [i \in 0..(Size - 1) |-> CHOOSE b \in Bytes : TRUE]
    /\ reader_closed_ = FALSE /\ writer_closed_ = FALSE
    /\ read_waker_ = None /\ write_waker_ = None
    /\ read_poll_ = {} /\ write_poll_ = {"Out"}
    /\ locked = FALSE
    /\ pc = [p \in Procs |-> "idle"]
    /\ op = [p \in Procs |-> NoOp]
    /\ sig = [p \in Procs |-> FALSE]
    /\ got = <<>>

(* Thread p is next at l; when it returns its locals are gone.             *)
Goto(p, l) == pc' = [pc EXCEPT ![p] = l]
Return(p) == Goto(p, "idle") /\ op' = [op EXCEPT ![p] = NoOp]

(* The threads of ps are made runnable if they are parked.                 *)
Ready(q, ps) == [p \in Procs |-> IF p \in ps /\ q[p] = "parked" THEN "ready" ELSE q[p]]

-----------------------------------------------------------------------------
(* ByteChannel::Read: load both indices, copy, store out_.                 *)
ReadCall(r, len, nonblocking, peek) ==
    /\ pc[r] = "idle"
    /\ Goto(r, "r_load")
    /\ op' = [op EXCEPT ![r].len = len, ![r].nonblocking = nonblocking, ![r].peek = peek]
    /\ UNCHANGED <<chan, closed, wakers, polls, locked, sig, got>>

ReadLoad(r) ==
    /\ pc[r] = "r_load"
    /\ LET n == Min2(Used, op[r].len)
       IN  /\ op' = [op EXCEPT ![r].n = n, ![r].at = out_]
           /\ Goto(r, IF n > 0 THEN "r_copy"
                      ELSE IF op[r].nonblocking THEN "r_closed" ELSE "r_wait")
    /\ UNCHANGED <<chan, closed, wakers, polls, locked, sig, got>>

ReadCopy(r) ==
    /\ pc[r] = "r_copy"
    /\ op' = [op EXCEPT ![r].buf =
                  [i \in 1..op[r].n |-> buf_[(op[r].at + i - 1) % Size]]]
    /\ Goto(r, "r_store")
    /\ UNCHANGED <<chan, closed, wakers, polls, locked, sig, got>>

ReadStore(r) ==
    /\ pc[r] = "r_store"
    /\ out_' = IF op[r].peek THEN out_ ELSE (op[r].at + op[r].n) % Modulus
    /\ got' = op[r].buf
    /\ Goto(r, "r_clear")
    /\ UNCHANGED <<in_, buf_, closed, wakers, polls, locked, op, sig>>

(* Under the lock: update the reader's poll mask, then wake the writer.    *)
ReadClear(r) ==
    /\ pc[r] = "r_clear" /\ ~locked
    /\ read_poll_' = IF is_empty /\ has_read_poll THEN read_poll_ \ {"In"} ELSE read_poll_
    /\ \/ writer_closed_ /\ Return(r) /\ UNCHANGED locked
       \/ ~writer_closed_ /\ locked' = TRUE /\ Goto(r, "r_wake") /\ UNCHANGED op
    /\ UNCHANGED <<chan, closed, wakers, write_poll_, sig, got>>

ReadWake(r) ==
    /\ pc[r] = "r_wake"
    /\ \/ /\ ~is_full /\ has_write_poll
          /\ write_poll_' = write_poll_ \cup {"Out"}
          /\ write_waker_' = None
          /\ pc' = Ready([pc EXCEPT ![r] = "idle"], {write_waker_})
       \/ /\ is_full \/ ~has_write_poll
          /\ Goto(r, "idle")
          /\ UNCHANGED <<write_poll_, write_waker_>>
    /\ locked' = FALSE
    /\ op' = [op EXCEPT ![r] = NoOp]
    /\ UNCHANGED <<chan, closed, read_waker_, read_poll_, sig, got>>

(* A nonblocking read of an empty channel: end of file if the writer has   *)
(* closed and, looking again after that, there is still nothing.           *)
ReadIsClosed(r) ==
    /\ pc[r] = "r_closed"
    /\ \/ writer_closed_ /\ Goto(r, "r_empty") /\ UNCHANGED op
       \/ ~writer_closed_ /\ Return(r)
    /\ UNCHANGED <<chan, closed, wakers, polls, locked, sig, got>>

(* Mutant: a closed writer is taken for the end of file.                   *)
ReadIsEmptyUnchecked(r) ==
    /\ pc[r] = "r_empty"
    /\ got' = <<>>
    /\ Return(r)
    /\ UNCHANGED <<chan, closed, wakers, polls, locked, sig>>

ReadIsEmpty(r) ==
    /\ pc[r] = "r_empty"
    /\ got' = IF is_empty THEN <<>> ELSE got
    /\ Return(r)
    /\ UNCHANGED <<chan, closed, wakers, polls, locked, sig>>

(* Mutant: the reader parks without looking again under the lock.          *)
ReadWaitNoRecheck(r) ==
    /\ pc[r] \in {"r_wait", "ready"} /\ ~locked
    /\ IF pc[r] = "ready"
       THEN read_waker_' = None /\ Goto(r, "r_load") /\ UNCHANGED op
       ELSE read_waker_' = r /\ Goto(r, "parked") /\ UNCHANGED op
    /\ UNCHANGED <<chan, closed, write_waker_, polls, locked, sig, got>>


(* A blocking read of an empty channel: WaitInterruptible, from the start  *)
(* or after a wake-up.  If the waker is still armed a signal woke us.      *)
ReadWait(r) ==
    /\ pc[r] \in {"r_wait", "ready"} /\ ~locked
    /\ LET stop == ~is_empty \/ writer_closed_ \/ reader_closed_
           disarmed == pc[r] = "ready" /\ read_waker_ # None
           signaled == disarmed \/ (~stop /\ sig[r])
           eof == (reader_closed_ \/ writer_closed_) /\ is_empty
       IN  IF stop \/ signaled
           THEN /\ read_waker_' = IF disarmed THEN None ELSE read_waker_
                /\ got' = IF eof THEN <<>> ELSE got
                /\ \/ (eof \/ signaled) /\ Return(r)
                   \/ ~(eof \/ signaled) /\ Goto(r, "r_load") /\ UNCHANGED op
           ELSE read_waker_' = r /\ Goto(r, "parked") /\ UNCHANGED <<got, op>>
    /\ UNCHANGED <<chan, closed, write_waker_, polls, locked, sig>>

-----------------------------------------------------------------------------
(* ByteChannel::Write: load both indices, copy, store in_.                 *)
WriteCall(w, s, nonblocking) ==
    /\ pc[w] = "idle"
    /\ Goto(w, "w_load")
    /\ op' = [op EXCEPT ![w].buf = s, ![w].nonblocking = nonblocking]
    /\ UNCHANGED <<chan, closed, wakers, polls, locked, sig, got>>

(* A nonblocking write to a full channel fails (EPIPE or EAGAIN).          *)
WriteLoad(w) ==
    /\ pc[w] = "w_load"
    /\ LET n == Min2(Size - Used, Len(op[w].buf))
       IN  \/ /\ n = 0 /\ op[w].nonblocking
              /\ Return(w)
           \/ /\ n > 0 \/ ~op[w].nonblocking
              /\ op' = [op EXCEPT ![w].n = n, ![w].at = in_]
              /\ Goto(w, IF n > 0 THEN "w_copy" ELSE "w_wait")
    /\ UNCHANGED <<chan, closed, wakers, polls, locked, sig, got>>

WriteCopy(w) ==
    /\ pc[w] = "w_copy"
    /\ buf_' = [j \in 0..(Size - 1) |->
                   LET i == ((j - op[w].at) % Size) + 1
                   IN  IF i <= op[w].n THEN op[w].buf[i] ELSE buf_[j]]
    /\ Goto(w, "w_store")
    /\ UNCHANGED <<in_, out_, closed, wakers, polls, locked, op, sig, got>>

WriteStore(w) ==
    /\ pc[w] = "w_store"
    /\ in_' = (op[w].at + op[w].n) % Modulus
    /\ Goto(w, "w_clear")
    /\ UNCHANGED <<out_, buf_, closed, wakers, polls, locked, op, sig, got>>

WriteClear(w) ==
    /\ pc[w] = "w_clear" /\ ~locked
    /\ write_poll_' = IF is_full /\ has_write_poll THEN write_poll_ \ {"Out"} ELSE write_poll_
    /\ \/ reader_closed_ /\ Return(w) /\ UNCHANGED locked
       \/ ~reader_closed_ /\ locked' = TRUE /\ Goto(w, "w_wake") /\ UNCHANGED op
    /\ UNCHANGED <<chan, closed, wakers, read_poll_, sig, got>>

WriteWake(w) ==
    /\ pc[w] = "w_wake"
    /\ \/ /\ ~is_empty /\ has_read_poll
          /\ read_poll_' = read_poll_ \cup {"In"}
          /\ read_waker_' = None
          /\ pc' = Ready([pc EXCEPT ![w] = "idle"], {read_waker_})
       \/ /\ is_empty \/ ~has_read_poll
          /\ Goto(w, "idle")
          /\ UNCHANGED <<read_poll_, read_waker_>>
    /\ locked' = FALSE
    /\ op' = [op EXCEPT ![w] = NoOp]
    /\ UNCHANGED <<chan, closed, write_waker_, write_poll_, sig, got>>

WriteWait(w) ==
    /\ pc[w] \in {"w_wait", "ready"} /\ ~locked
    /\ LET stop == ~is_full \/ writer_closed_ \/ reader_closed_
           disarmed == pc[w] = "ready" /\ write_waker_ # None
           signaled == disarmed \/ (~stop /\ sig[w])
           epipe == writer_closed_ \/ reader_closed_
       IN  IF stop \/ signaled
           THEN /\ write_waker_' = IF disarmed THEN None ELSE write_waker_
                /\ \/ (epipe \/ signaled) /\ Return(w)
                   \/ ~(epipe \/ signaled) /\ Goto(w, "w_load") /\ UNCHANGED op
           ELSE write_waker_' = w /\ Goto(w, "parked") /\ UNCHANGED op
    /\ UNCHANGED <<chan, closed, read_waker_, polls, locked, sig, got>>

-----------------------------------------------------------------------------
(* Closing (the destructor of a file, or shutdown of a socket) comes from  *)
(* any thread.                                                             *)
CloseWriter ==
    /\ ~writer_closed_ /\ ~locked
    /\ writer_closed_' = TRUE
    /\ IF has_read_poll
       THEN /\ read_poll_' = read_poll_ \cup {"HUp"}
            /\ read_waker_' = None
            /\ pc' = Ready(pc, {read_waker_, write_waker_})
       ELSE /\ pc' = Ready(pc, {write_waker_})
            /\ UNCHANGED <<read_poll_, read_waker_>>
    /\ write_poll_' = {}
    /\ write_waker_' = None
    /\ UNCHANGED <<chan, reader_closed_, locked, op, sig, got>>

CloseReader ==
    /\ ~reader_closed_ /\ ~locked
    /\ reader_closed_' = TRUE
    /\ IF has_write_poll
       THEN /\ write_poll_' = write_poll_ \cup {"Err"}
            /\ write_waker_' = None
            /\ pc' = Ready(pc, {read_waker_, write_waker_})
       ELSE /\ pc' = Ready(pc, {read_waker_})
            /\ UNCHANGED <<write_poll_, write_waker_>>
    /\ read_poll_' = {}
    /\ read_waker_' = None
    /\ UNCHANGED <<chan, writer_closed_, locked, op, sig, got>>

Signal(p) ==
    /\ p \in Signalled /\ ~sig[p]
    /\ sig' = [sig EXCEPT ![p] = TRUE]
    /\ pc' = Ready(pc, {p})
    /\ UNCHANGED <<chan, closed, wakers, polls, locked, op, got>>

DeliverSignal(p) ==
    /\ pc[p] = "idle" /\ sig[p]
    /\ sig' = [sig EXCEPT ![p] = FALSE]
    /\ UNCHANGED <<chan, closed, wakers, polls, locked, pc, op, got>>

ReadStep(r) ==
    \/ ReadLoad(r) \/ ReadCopy(r) \/ ReadStore(r) \/ ReadClear(r) \/ ReadWake(r)
    \/ ReadIsClosed(r) \/ ReadIsEmpty(r) \/ ReadWait(r)

WriteStep(w) ==
    \/ WriteLoad(w) \/ WriteCopy(w) \/ WriteStore(w) \/ WriteClear(w) \/ WriteWake(w)
    \/ WriteWait(w)

Next ==
    \/ \E r \in Readers :
          \/ \E c \in Reads : ReadCall(r, c.len, c.nonblocking, c.peek)
          \/ ReadStep(r)
    \/ \E w \in Writers :
          \/ \E c \in Writes : WriteCall(w, c.buf, c.nonblocking)
          \/ WriteStep(w)
    \/ CloseWriter \/ CloseReader
    \/ \E p \in Procs : Signal(p) \/ DeliverSignal(p)

Spec == Init /\ [][Next]_vars

(* Runnable threads run, and a thread that spins for lock_ gets it if it   *)
(* is released again and again.                                            *)
Fairness ==
    /\ \A r \in Readers : SF_vars(ReadStep(r))
    /\ \A w \in Writers : SF_vars(WriteStep(w))

FairSpec == Spec /\ Fairness

-----------------------------------------------------------------------------
PcValues ==
    {"idle", "parked", "ready",
     "r_load", "r_copy", "r_store", "r_clear", "r_wake", "r_closed", "r_empty", "r_wait",
     "w_load", "w_copy", "w_store", "w_clear", "w_wake", "w_wait"}

TypeOK ==
    /\ in_ \in 0..(Modulus - 1) /\ out_ \in 0..(Modulus - 1) /\ Used <= Size
    /\ buf_ \in [0..(Size - 1) -> Bytes]
    /\ reader_closed_ \in BOOLEAN /\ writer_closed_ \in BOOLEAN
    /\ read_waker_ \in Readers \cup {None} /\ write_waker_ \in Writers \cup {None}
    /\ read_poll_ \subseteq {"In", "HUp"} /\ write_poll_ \subseteq {"Out", "Err"}
    /\ locked \in BOOLEAN
    /\ pc \in [Procs -> PcValues]
    /\ sig \in [Procs -> BOOLEAN]

(* The pipe is a byte stream: bytes come out once, in order and unchanged, *)
(* never more than the buffer holds, and a read reports end of file only   *)
(* when an end is closed and every byte written has been read.             *)
BS == INSTANCE ByteStream WITH
          Capacity <- Size,
          queue <- [i \in 1..Used |-> buf_[(out_ + i - 1) % Size]],
          reader_closed <- reader_closed_, writer_closed <- writer_closed_
ImplementsByteStream == BS!Spec

(* No lost wake-up.  A reader sleeps on a pipe that has data or a closed   *)
(* end only while a writer has yet to take the lock and wake it, and the   *)
(* other way round.                                                        *)
SleepersWillBeWoken ==
    /\ \A r \in Readers :
          pc[r] = "parked" /\ (~is_empty \/ writer_closed_ \/ reader_closed_)
              => \E w \in Writers : pc[w] \in {"w_clear", "w_wake"}
    /\ \A w \in Writers :
          pc[w] = "parked" /\ (~is_full \/ writer_closed_ \/ reader_closed_)
              => \E r \in Readers : pc[r] \in {"r_clear", "r_wake"}

(* The poll masks tell the truth when nobody is between changing the       *)
(* buffer and taking the lock: readable iff there is data, writable iff    *)
(* there is room, HUp and Err iff the other end is closed (poll.h:29-33).  *)
AtRest == \A p \in Procs : pc[p] \notin {"r_clear", "r_wake", "w_clear", "w_wake"}
PollMasksAtRest ==
    AtRest =>
        /\ ~reader_closed_ => /\ "In" \in read_poll_ <=> ~is_empty
                              /\ "HUp" \in read_poll_ <=> writer_closed_
        /\ ~writer_closed_ => /\ "Out" \in write_poll_ <=> ~is_full
                              /\ "Err" \in write_poll_ <=> reader_closed_

(* Once an end is closed every call in progress returns, and a call does   *)
(* not stay blocked while there is data (for a read) or room (a write).    *)
IsClosed == writer_closed_ \/ reader_closed_
MustReturn(p) ==
    \/ pc[p] # "idle" /\ IsClosed
    \/ pc[p] = "parked" /\ (IF p \in Readers THEN ~is_empty ELSE ~is_full)
=============================================================================
