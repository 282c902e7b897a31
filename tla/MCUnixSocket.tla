---------------------------- MODULE MCUnixSocket ----------------------------
(***************************************************************************)
(* Instances of UnixSocket for TLC: what each workload's threads call.     *)
(***************************************************************************)
EXTENDS UnixSocket

Socket(s, kind, nb) == [op |-> "socket", s |-> s, kind |-> kind, nb |-> nb]
PairOf(a, b, kind, nb) ==
  [op |-> "pair", s |-> a, s2 |-> b, kind |-> kind, nb |-> nb]
BindTo(s, name, path) == [op |-> "bind", s |-> s, name |-> name, path |-> path]
ListenOn(s, backlog) == [op |-> "listen", s |-> s, backlog |-> backlog]
ConnectTo(s, name, path) ==
  [op |-> "connect", s |-> s, name |-> name, path |-> path]
AcceptAs(s, as) == [op |-> "accept", s |-> s, as |-> as, nb |-> FALSE]
Shut(s, how) == [op |-> "shutdown", s |-> s, how |-> how]
CloseIt(s) == [op |-> "close", s |-> s]
Send(s, name, m) ==
  [op |-> "send", s |-> s, name |-> name, path |-> FALSE, m |-> m,
   dontwait |-> FALSE]
TryRecv(s) == [op |-> "recv", s |-> s, peek |-> FALSE, dontwait |-> TRUE]
Recv(s) == [op |-> "recv", s |-> s, peek |-> FALSE, dontwait |-> FALSE]
Peek(s) == [op |-> "recv", s |-> s, peek |-> TRUE, dontwait |-> TRUE]
Ready(s) == [op |-> "await", s |-> s]

Quiet == [t \in Threads |-> 0]
Load(progs) == [prog |-> progs, sig |-> Quiet]

\* A server with a path name accepts two clients, hangs up on the first while
\* the other is served, and goes.
Serve == Load(<<
  <<Socket(1, "stream", FALSE), BindTo(1, 1, TRUE), ListenOn(1, 2),
    AcceptAs(1, 4), CloseIt(4), AcceptAs(1, 5), CloseIt(1), Shut(5, "rdwr")>>,
  <<Ready(1), Socket(2, "stream", FALSE), ConnectTo(2, 1, TRUE),
    Shut(2, "wr"), CloseIt(2)>>,
  <<Ready(1), Socket(3, "stream", FALSE), BindTo(3, 2, FALSE),
    ConnectTo(3, 1, TRUE), Shut(3, "rd")>> >>)

\* A server that is not there yet, is full, is shut down or has gone; the
\* name is taken over once it has.
Refuse == Load(<<
  <<Socket(1, "stream", TRUE), BindTo(1, 1, FALSE), ListenOn(1, 1),
    AcceptAs(1, 4), Shut(1, "rdwr"), AcceptAs(1, 5), CloseIt(1)>>,
  <<Socket(2, "stream", FALSE), ConnectTo(2, 1, FALSE), CloseIt(2),
    Socket(2, "stream", FALSE), BindTo(2, 1, FALSE), BindTo(2, 2, FALSE),
    CloseIt(2)>>,
  <<Socket(3, "stream", FALSE), ConnectTo(3, 1, FALSE), ListenOn(3, 1),
    CloseIt(3)>> >>)

\* A listener nobody named, closed with a connection in its queue, and an
\* accept that a signal may interrupt.
Leave == [Load(<<
  <<Socket(1, "stream", FALSE), ListenOn(1, 2), AcceptAs(1, 4), CloseIt(1),
    CloseIt(4)>>,
  <<Ready(1), Socket(2, "stream", FALSE), ConnectTo(2, 11, FALSE), CloseIt(2)>>,
  <<Ready(1), Socket(3, "stream", FALSE), ConnectTo(3, 11, FALSE),
    CloseIt(3)>> >>) EXCEPT !.sig[1] = 1]

\* Socket pairs of both kinds.
Pairs == Load(<<
  <<PairOf(1, 2, "stream", FALSE), Shut(1, "wr"), CloseIt(1), CloseIt(2)>>,
  <<PairOf(3, 4, "dgram", TRUE), Send(3, 0, 1), Send(3, 0, 2), Send(3, 0, 3),
    Recv(4), Send(3, 0, 4), Recv(4), Recv(4), Send(3, 0, 5), Peek(4),
    Send(3, 1, 6), CloseIt(4), Send(3, 0, 7)>>,
  <<>> >>)

\* Datagrams from a connected and an unconnected sender to one receiver.
Datagrams == Load(<<
  <<Socket(1, "dgram", FALSE), BindTo(1, 1, FALSE), BindTo(1, 2, FALSE),
    Recv(1), Recv(1)>>,
  <<Ready(1), Socket(2, "dgram", FALSE), Send(2, 0, 9), Send(2, 1, 1)>>,
  <<Ready(1), Socket(3, "dgram", FALSE), ConnectTo(3, 1, FALSE),
    ConnectTo(3, 1, FALSE), Send(3, 0, 2), CloseIt(3)>> >>)

\* The receiver's reading side is shut while others send to it.
Shutting == Load(<<
  <<Socket(1, "dgram", FALSE), BindTo(1, 1, TRUE), Recv(1), Recv(1)>>,
  <<Ready(1), Shut(1, "rd"), Shut(1, "wr"), Send(1, 1, 5)>>,
  <<Socket(3, "dgram", FALSE), ConnectTo(3, 1, TRUE), Send(3, 0, 1),
    Send(3, 0, 2), CloseIt(3)>> >>)

\* The receiver goes while others send to it; its name is free again.
Departing == Load(<<
  <<Socket(1, "dgram", FALSE), BindTo(1, 1, FALSE), TryRecv(1), TryRecv(1),
    CloseIt(1)>>,
  <<Socket(2, "dgram", FALSE), BindTo(2, 1, FALSE)>>,
  <<Socket(3, "dgram", FALSE), Send(3, 1, 1), Send(3, 1, 2),
    CloseIt(3)>> >>)

\* A sender waits for room until a signal comes.
Stuck == [Load(<<
  <<PairOf(1, 2, "dgram", FALSE), Send(1, 0, 1), Send(1, 0, 2),
    Send(1, 0, 3)>>, <<>>, <<>> >>) EXCEPT !.sig[1] = 1]

Passing == {Stuck, Serve, Refuse, Leave, Pairs, Datagrams, Shutting, Departing}
==============================================================================
