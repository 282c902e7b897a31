----------------------------- MODULE ByteStream -----------------------------
(***************************************************************************)
(* What a pipe promises: a bounded queue of bytes with two ends that can   *)
(* be closed.  Pipe implements this specification.                         *)
(***************************************************************************)
EXTENDS Integers, Sequences

CONSTANTS
    Bytes,      \* what can be written
    Capacity    \* how many bytes the pipe holds

VARIABLES
    queue,          \* bytes written and not yet read
    got,            \* what the last successful read returned (<<>>: end of file)
    reader_closed,
    writer_closed

ends == <<reader_closed, writer_closed>>
vars == <<queue, got, ends>>

Init ==
    /\ queue = <<>> /\ got = <<>>
    /\ reader_closed = FALSE /\ writer_closed = FALSE

(* A write appends some bytes for which there is room.                     *)
Put ==
    /\ \E n \in 1..(Capacity - Len(queue)) :
          \E s \in [1..n -> Bytes] : queue' = queue \o s
    /\ UNCHANGED <<got, ends>>

(* A read takes some bytes off the front.                                  *)
Get ==
    /\ \E n \in 1..Len(queue) :
          /\ got' = SubSeq(queue, 1, n)
          /\ queue' = SubSeq(queue, n + 1, Len(queue))
    /\ UNCHANGED ends

(* A peek returns them and leaves them there.                              *)
Peek ==
    /\ \E n \in 1..Len(queue) : got' = SubSeq(queue, 1, n)
    /\ UNCHANGED <<queue, ends>>

(* A read returns 0 only when an end is closed and nothing is left.        *)
EndOfFile ==
    /\ queue = <<>> /\ (reader_closed \/ writer_closed)
    /\ got' = <<>>
    /\ UNCHANGED <<queue, ends>>

Close ==
    /\ \/ reader_closed' = TRUE /\ UNCHANGED writer_closed
       \/ writer_closed' = TRUE /\ UNCHANGED reader_closed
    /\ UNCHANGED <<queue, got>>

Next == Put \/ Get \/ Peek \/ EndOfFile \/ Close

Spec == Init /\ [][Next]_vars
=============================================================================
