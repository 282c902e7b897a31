----------------------------- MODULE UnixSocket -----------------------------
(***************************************************************************)
(* Unix domain sockets (junction/net/unix_socket.cc): the name tables, the *)
(* stream sockets with their listeners, accept queues and connections, and *)
(* the datagram sockets, whose receive side is a MessageChannel            *)
(* (junction/base/message_channel.h) inside a WaitableChannel              *)
(* (junction/fs/pipe.h).                                                   *)
(*                                                                         *)
(* Each thread runs the calls its program lists, one system call after the *)
(* other.  A connection e has the ends e (the connecting side) and -e (the *)
(* accepting side); pipe[e] is the pipe end e reads from and end -e writes *)
(* to.  The bytes of a stream are the business of module Pipe: here a pipe *)
(* is what its two sides know of each other.                               *)
(***************************************************************************)
EXTENDS Integers, Sequences, FiniteSets, SequencesExt

CONSTANTS
  Workloads,  \* what the threads do: programs, and signals per thread
  Socks,      \* socket objects, naturals
  Threads,
  Names,      \* the names a program binds, naturals below 10
  ChanSize    \* slots of a datagram channel (kMessagePipeSize)

VARIABLES
  load,   \* the workload of this behaviour
  sock,   \* state_, local_name_, dent_, flags, and whether a descriptor is open
  lst,    \* UnixStreamListener and the listener's kPollIn
  conn,   \* the connection end a connected stream socket holds
  pipe,   \* per end: has its reader closed, has its writer closed
  est,    \* the connections handed to a listener, in order (history)
  tbl,    \* stream_tbl and dgram_tbl
  files,  \* names in the file system
  chan,   \* the receive channel of a datagram socket
  remote, \* remote_ and connected_ of a datagram socket
  log,    \* datagrams sent to and taken from a socket (history)
  th      \* the threads

strm == <<lst, conn, pipe, est>>
dgrm == <<chan, remote, log>>
vars == <<load, sock, strm, tbl, files, dgrm, th>>

None == 0
Auto(s) == 10 + s   \* NameAndInsert: forty random letters, never used before
AllNames == Names \union {Auto(s) : s \in Socks}
Conns == 1 .. Cardinality(Socks)
Ends == Conns \union {-e : e \in Conns}

Call(t) == Head(th[t].prog)
At(t, pc, op) == th[t].prog # <<>> /\ th[t].pc = pc /\ Call(t).op = op
Step(t, pc) == th' = [th EXCEPT ![t].pc = pc]
Done(t) ==
  th' = [th EXCEPT ![t].prog = Tail(@), ![t].pc = "call", ![t].ref = None]

\* A socket lives while a descriptor or a shared_ptr of a call refers to it.
Alive(s) == sock[s].open \/ \E t \in Threads : th[t].ref = s

------------------------------------------------------------------------------
(* The name tables hold weak pointers: an entry whose socket is gone is as  *)
(* good as none.                                                            *)

Find(kind, name) ==
  LET s == tbl[kind][name] IN IF s # None /\ Alive(s) THEN s ELSE None
Insertable(kind, name) == Find(kind, name) = None
Insert(kind, name, s) == tbl' = [tbl EXCEPT ![kind][name] = s]

\* UnixSocketInode keeps a weak pointer too.
GetPeer(kind, name, path) ==
  IF path
  THEN LET s == files[name] IN
         IF s # None /\ Alive(s) /\ sock[s].kind = kind THEN s ELSE None
  ELSE Find(kind, name)

------------------------------------------------------------------------------
(* Creation, naming, destruction.                                           *)

New(kind, nb, st) ==
  [kind |-> kind, st |-> st, name |-> None, dent |-> FALSE, nb |-> nb,
   open |-> TRUE, wclosed |-> FALSE]
NoSocket == [New("none", FALSE, "unbound") EXCEPT !.open = FALSE]

\* An application may wait until another thread has its socket ready.
Await(t) ==
  /\ At(t, "call", "await")
  /\ LET s == sock[Call(t).s] IN
       s.st = "listening" \/ (s.kind = "dgram" /\ s.name # None)
  /\ Done(t)
  /\ UNCHANGED <<load, sock, strm, tbl, files, dgrm>>

usys_socket(t) ==
  /\ At(t, "call", "socket")
  /\ LET c == Call(t) IN
       sock' = [sock EXCEPT ![c.s] = New(c.kind, c.nb, "unbound")]
  /\ Done(t)
  /\ UNCHANGED <<load, strm, tbl, files, dgrm>>

\* Connection ends are numbered in the order the connections are made.
NextConn == Cardinality({e \in Conns : \E p \in {e, -e} : pipe[p].made}) + 1
MakeStreamPair(e) ==
  [p \in Ends |-> IF p \in {e, -e} THEN [pipe[p] EXCEPT !.made = TRUE]
                  ELSE pipe[p]]

\* CreatePipeSocket: two sockets connected to each other; datagram ones are
\* given names, stream ones have none.
CreatePipeSocket(t) ==
  /\ At(t, "call", "pair")
  /\ LET c == Call(t)
         a == c.s
         b == c.s2
         named(s) == [New(c.kind, c.nb, "unbound") EXCEPT !.name = Auto(s)]
     IN IF c.kind = "dgram"
        THEN /\ sock' = [sock EXCEPT ![a] = named(a), ![b] = named(b)]
             /\ tbl' = [tbl EXCEPT !.dgram[Auto(a)] = a, !.dgram[Auto(b)] = b]
             /\ remote' = [remote EXCEPT ![a] = b, ![b] = a]
             /\ UNCHANGED <<conn, pipe, est>>
        ELSE /\ sock' = [s \in Socks |->
                           IF s \in {a, b} THEN New(c.kind, c.nb, "connected")
                           ELSE sock[s]]
             /\ conn' = [conn EXCEPT ![a] = NextConn, ![b] = -NextConn]
             /\ pipe' = MakeStreamPair(NextConn)
             /\ est' = Append(est, NextConn)
             /\ UNCHANGED <<tbl, remote>>
  /\ Done(t)
  /\ UNCHANGED <<load, lst, files, chan, log>>

\* Bind: EINVAL when there is a name already; EEXIST / EADDRINUSE when the
\* name is taken.
CanBind(s) ==
  IF sock[s].kind = "stream" THEN sock[s].st = "unbound"
  ELSE sock[s].name = None
Bind(t) ==
  /\ At(t, "call", "bind")
  /\ LET c == Call(t)
         k == sock[c.s].kind
         free == IF c.path THEN files[c.name] = None
                 ELSE Insertable(k, c.name)
     IN IF CanBind(c.s) /\ free
        THEN /\ IF c.path
                THEN files' = [files EXCEPT ![c.name] = c.s] /\ UNCHANGED tbl
                ELSE Insert(k, c.name, c.s) /\ UNCHANGED files
             /\ sock' = [sock EXCEPT ![c.s].name = c.name,
                                     ![c.s].dent = c.path,
                                     ![c.s].st = IF k = "stream" THEN "bound"
                                                 ELSE @]
        ELSE UNCHANGED <<sock, tbl, files>>
  /\ Done(t)
  /\ UNCHANGED <<load, strm, dgrm>>

\* The name a socket has after a call that generates one if needed.
NameIfNeeded(s) ==
  IF sock[s].name # None THEN UNCHANGED <<sock, tbl>>
  ELSE /\ sock' = [sock EXCEPT ![s].name = Auto(s)]
       /\ Insert(sock[s].kind, Auto(s), s)

\* Both sides of a pipe end: CloseReader on rx, CloseWriter on tx.
CloseEndsReadersOnly(E) ==
  pipe' = [p \in Ends |-> [pipe[p] EXCEPT !.rd = @ \/ p \in E]]
CloseEnds(E) ==
  pipe' = [p \in Ends |-> [pipe[p] EXCEPT !.rd = @ \/ p \in E,
                                          !.wr = @ \/ -p \in E]]

\* The ends a stream socket's destructor closes.
EndsOf(s) ==
  CASE sock[s].st = "connected" -> {conn[s]}
    [] sock[s].st = "listening" -> ToSet(lst[s].q)
    [] OTHER -> {}

\* ~UnixStreamSocket, ~UnixDatagramSocket: the name goes, by its directory
\* entry or by whatever the table holds under it, then the channels close.
\* CloseReader wakes a blocked reader; it would wake blocked writers only if
\* a write poll source were attached, and none ever is.
Destructor(s) ==
  LET k == sock[s].kind IN
  /\ IF sock[s].dent
     THEN files' = [files EXCEPT ![sock[s].name] = None] /\ UNCHANGED tbl
     ELSE /\ IF sock[s].name # None THEN Insert(k, sock[s].name, None)
             ELSE UNCHANGED tbl
          /\ UNCHANGED files
  /\ IF k = "stream" THEN CloseEnds(EndsOf(s)) /\ UNCHANGED chan
     ELSE chan' = [chan EXCEPT ![s].rclosed = TRUE] /\ UNCHANGED pipe

\* close(2) of the only descriptor.
Close(t) ==
  /\ At(t, "call", "close")
  /\ LET s == Call(t).s IN
       /\ sock' = [sock EXCEPT ![s].open = FALSE]
       /\ IF \E u \in Threads : th[u].ref = s
          THEN UNCHANGED <<tbl, files, pipe, chan>>
          ELSE Destructor(s)
  /\ Done(t)
  /\ UNCHANGED <<load, lst, conn, est, remote, log>>

\* The end of a call that held a shared_ptr to the peer.
DropPeer(t) ==
  /\ th[t].pc = "drop"
  /\ LET s == th[t].ref IN
       IF sock[s].open \/ \E u \in Threads \ {t} : th[u].ref = s
       THEN UNCHANGED <<tbl, files, pipe, chan>>
       ELSE Destructor(s)
  /\ Done(t)
  /\ UNCHANGED <<load, sock, lst, conn, est, remote, log>>

------------------------------------------------------------------------------
(* Stream sockets.                                                          *)

NoListener == [backlog |-> 0, shut |-> FALSE, q |-> <<>>, waiter |-> None,
               in |-> FALSE]

\* A second Listen replaces the listener, queue and all.
Listen(t) ==
  /\ At(t, "call", "listen")
  /\ LET c == Call(t) IN
       IF sock[c.s].st = "connected"
       THEN UNCHANGED <<sock, tbl, lst>>
       ELSE LET named == sock[c.s].name # None IN
            /\ sock' = [sock EXCEPT ![c.s].st = "listening",
                                    ![c.s].name = IF named THEN @
                                                  ELSE Auto(c.s)]
            /\ IF named THEN UNCHANGED tbl ELSE Insert("stream", Auto(c.s), c.s)
            /\ lst' = [lst EXCEPT ![c.s] =
                         [NoListener EXCEPT !.backlog = c.backlog, !.in = lst[c.s].in]]
  /\ Done(t)
  /\ UNCHANGED <<load, conn, pipe, est, files, dgrm>>

\* Mutant: the server is looked up among the datagram sockets.
ConnectLookupDgram(t) ==
  /\ At(t, "call", "connect")
  /\ LET c == Call(t)
         p == GetPeer("dgram", c.name, c.path)
     IN /\ sock[c.s].kind = "stream"
        /\ IF sock[c.s].st = "listening" \/ p = None THEN Done(t)
           ELSE th' = [th EXCEPT ![t].pc = "enqueue", ![t].ref = p]
  /\ UNCHANGED <<load, sock, strm, tbl, files, dgrm>>
\* Connect, first part: find the server (ECONNREFUSED) and keep it alive.
ConnectLookup(t) ==
  /\ At(t, "call", "connect")
  /\ LET c == Call(t)
         p == GetPeer("stream", c.name, c.path)
     IN /\ sock[c.s].kind = "stream"
        /\ IF sock[c.s].st = "listening" \/ p = None THEN Done(t)
           ELSE th' = [th EXCEPT ![t].pc = "enqueue", ![t].ref = p]
  /\ UNCHANGED <<load, sock, strm, tbl, files, dgrm>>

\* EnqueueConnection, under the listener's lock.
Refuses(p) ==
  \/ sock[p].st # "listening"
  \/ lst[p].shut
  \/ Len(lst[p].q) >= lst[p].backlog
Woken(w) ==
  [u \in Threads |->
     IF u # w THEN th[u]
     ELSE [th[u] EXCEPT !.pc = IF Call(u).op = "recv" THEN "lock" ELSE "call"]]
NoAcceptor(p) == None
Acceptor(p) == lst[p].waiter
EnqueueConnection(p, e) ==
  lst' = [lst EXCEPT ![p].q = Append(@, e), ![p].in = TRUE, ![p].waiter = None]

\* Connect, second part: name this side, make the pipes, enqueue them.
ConnectEnqueue(t) ==
  /\ At(t, "enqueue", "connect")
  /\ LET c == Call(t)
         p == th[t].ref
     IN /\ NameIfNeeded(c.s)
        /\ IF Refuses(p)
           THEN Step(t, "drop") /\ UNCHANGED <<lst, pipe, est>>
           ELSE /\ pipe' = MakeStreamPair(NextConn)
                /\ EnqueueConnection(p, -NextConn)
                /\ est' = Append(est, NextConn)
                /\ th' = [Woken(Acceptor(p)) EXCEPT ![t].pc = "attach",
                                                      ![t].end = NextConn]
  /\ UNCHANGED <<load, conn, files, dgrm>>

\* Connect, last part: attach this side.
ConnectAttach(t) ==
  /\ At(t, "attach", "connect")
  /\ LET s == Call(t).s IN
       /\ conn' = [conn EXCEPT ![s] = th[t].end]
       /\ sock' = [sock EXCEPT ![s].st = "connected"]
  /\ th' = [th EXCEPT ![t].pc = "drop", ![t].end = 0]
  /\ UNCHANGED <<load, lst, pipe, est, tbl, files, dgrm>>

\* Taking the front of the accept queue; the new socket has the listener's
\* name, and no directory entry.
Accepted(l, s, nb) ==
  [New("stream", nb, "connected") EXCEPT !.name = sock[l].name]
PollAfterAccept(l) == IF Len(lst[l].q) = 1 THEN FALSE ELSE lst[l].in
Accept(t) ==
  /\ At(t, "call", "accept")
  /\ LET c == Call(t)
         l == lst[c.s]
     IN IF sock[c.s].st # "listening" \/ (l.q = <<>> /\ sock[c.s].nb)
        THEN Done(t) /\ UNCHANGED <<sock, lst, conn>>
        ELSE IF l.q = <<>>
        THEN /\ lst' = [lst EXCEPT ![c.s].waiter = t]
             /\ Step(t, "asleep")
             /\ UNCHANGED <<sock, conn>>
        ELSE /\ sock' = [sock EXCEPT ![c.as] = Accepted(c.s, c.as, c.nb)]
             /\ conn' = [conn EXCEPT ![c.as] = Head(l.q)]
             /\ lst' = [lst EXCEPT ![c.s].q = Tail(@),
                                   ![c.s].in = PollAfterAccept(c.s)]
             /\ Done(t)
  /\ UNCHANGED <<load, pipe, est, tbl, files, dgrm>>

\* Shutdown of a listener marks it and its poll source, and wakes nobody.
ShutdownStream(t) ==
  /\ At(t, "call", "shutdown")
  /\ LET c == Call(t)
         e == conn[c.s]
     IN /\ sock[c.s].kind = "stream"
        /\ CASE sock[c.s].st = "listening" ->
                  /\ lst' = [lst EXCEPT ![c.s].shut = TRUE, ![c.s].in = TRUE]
                  /\ UNCHANGED pipe
             [] sock[c.s].st = "connected" ->
                  /\ pipe' = [pipe EXCEPT ![e].rd = @ \/ c.how # "wr",
                                          ![-e].wr = @ \/ c.how # "rd"]
                  /\ UNCHANGED lst
             [] OTHER -> UNCHANGED <<lst, pipe>>
  /\ Done(t)
  /\ UNCHANGED <<load, sock, conn, est, tbl, files, dgrm>>

------------------------------------------------------------------------------
(* Datagram sockets.                                                        *)

Empty(s) == chan[s].in = chan[s].out
Full(s) == chan[s].in - chan[s].out >= ChanSize
Slot(i) == i % ChanSize
NoMsg == [data |-> 0, from |-> None]
NewChannel ==
  [in |-> 0, out |-> 0, msgs |-> [i \in 0 .. ChanSize - 1 |-> NoMsg],
   rclosed |-> FALSE, lock |-> None, reader |-> None, writers |-> {},
   pollin |-> FALSE]

\* Connect remembers the peer, weakly.
ConnectDatagram(t) ==
  /\ At(t, "call", "connect")
  /\ LET c == Call(t) IN
       /\ sock[c.s].kind = "dgram"
       /\ IF remote[c.s] # None THEN UNCHANGED <<sock, tbl, remote>>
          ELSE /\ NameIfNeeded(c.s)
               /\ remote' = [remote EXCEPT ![c.s] =
                               GetPeer("dgram", c.name, c.path)]
  /\ Done(t)
  /\ UNCHANGED <<load, strm, files, chan, log>>

Reader(s) == chan[s].reader
ShutdownDatagram(t) ==
  /\ At(t, "call", "shutdown")
  /\ LET c == Call(t) IN
        /\ sock[c.s].kind = "dgram"
        /\ sock' = [sock EXCEPT ![c.s].wclosed = @ \/ c.how # "rd"]
        /\ IF c.how = "wr" THEN UNCHANGED chan /\ Done(t)
           ELSE /\ chan[c.s].lock = None
                /\ chan' = [chan EXCEPT ![c.s].rclosed = TRUE,
                                        ![c.s].reader = None]
                /\ th' = [Woken(Reader(c.s)) EXCEPT ![t].prog = Tail(@)]
  /\ UNCHANGED <<load, strm, tbl, files, remote, log>>

\* Write, WriteTo: ResolvePeer (EPIPE, EISCONN, ENOTCONN, ECONNREFUSED), then
\* DoWrite on the peer's channel with the peer kept alive.
ResolvePeer(t) ==
  /\ At(t, "call", "send")
  /\ LET c == Call(t)
         s == c.s
         p == IF remote[s] # None
              THEN IF c.name = None /\ Alive(remote[s]) THEN remote[s] ELSE None
              ELSE IF c.name = None THEN None
              ELSE GetPeer("dgram", c.name, c.path)
     IN /\ IF remote[s] = None /\ c.name # None /\ ~sock[s].wclosed
           THEN NameIfNeeded(s)
           ELSE UNCHANGED <<sock, tbl>>
        /\ IF sock[s].wclosed \/ p = None THEN Done(t)
           ELSE th' = [th EXCEPT ![t].pc = "write", ![t].ref = p]
  /\ UNCHANGED <<load, strm, files, dgrm>>

\* O_NONBLOCK of the socket, or MSG_DONTWAIT of the call (usys_sendto,
\* usys_recvfrom and their msghdr variants).
SendNonblocking(t) == sock[Call(t).s].nb \/ Call(t).dontwait
RecvNonblocking(t) == sock[Call(t).s].nb \/ Call(t).dontwait

\* MessageChannel::Write fills the slot, with the writers' lock held; or the
\* channel is full and the call fails or sleeps.
HasRoom(s) == ~Full(s)
DoWrite(t) ==
  /\ At(t, "write", "send")
  /\ LET c == Call(t)
         p == th[t].ref
         i == Slot(chan[p].in)
     IN /\ chan[p].lock = None
        /\ IF HasRoom(p)
           THEN /\ chan' = [chan EXCEPT ![p].lock = t,
                              ![p].msgs[i] = [data |-> c.m,
                                              from |-> sock[c.s].name]]
                /\ Step(t, "publish")
           ELSE IF SendNonblocking(t) \/ chan[p].rclosed
           THEN Step(t, "drop") /\ UNCHANGED chan
           ELSE /\ chan' = [chan EXCEPT ![p].writers = @ \union {t}]
                /\ Step(t, "wsleep")
  /\ UNCHANGED <<load, sock, strm, tbl, files, remote, log>>

\* in_ moves; a reader still there is told and woken.
Publish(t) ==
  /\ At(t, "publish", "send")
  /\ LET p == th[t].ref
         told == ~chan[p].rclosed
     IN /\ chan' = [chan EXCEPT ![p].in = @ + 1, ![p].lock = None,
                                ![p].pollin = @ \/ told,
                                ![p].reader = IF told THEN None ELSE @]
        /\ log' = [log EXCEPT ![p].sent = Append(@,
                     [data |-> Call(t).m, from |-> sock[Call(t).s].name])]
        /\ th' = [Woken(IF told THEN chan[p].reader ELSE None)
                    EXCEPT ![t].pc = "drop"]
  /\ UNCHANGED <<load, sock, strm, tbl, files, remote>>

\* MessageChannel::Read, without a lock: copy the message out and move out_.
\* A peek leaves the message, but its address has been moved from.
Read(t) ==
  /\ At(t, "call", "recv")
  /\ LET c == Call(t)
         i == Slot(chan[c.s].out)
         m == chan[c.s].msgs[i]
     IN /\ ~Empty(c.s)
        /\ IF c.peek
           THEN /\ chan' = [chan EXCEPT ![c.s].msgs[i].from = None]
                /\ UNCHANGED log
                /\ Step(t, "after")
           ELSE /\ chan' = [chan EXCEPT ![c.s].out = @ + 1,
                                        ![c.s].msgs[i].from = None]
                /\ log' = [log EXCEPT ![c.s].got = Append(@, m)]
                /\ Step(t, "clear")
  /\ UNCHANGED <<load, sock, strm, tbl, files, remote>>

\* ... then the slot's bytes are cleared,
ReadClear(t) ==
  /\ At(t, "clear", "recv")
  /\ LET s == Call(t).s IN
       chan' = [chan EXCEPT ![s].msgs[Slot(chan[s].out - 1)].data = 0]
  /\ Step(t, "after")
  /\ UNCHANGED <<load, sock, strm, tbl, files, remote, log>>

\* ... and the poll source updated, with the lock held.
PollAfterRead(s) == chan[s].pollin /\ ~Empty(s)
ReadWake(t) ==
  /\ At(t, "after", "recv")
  /\ LET s == Call(t).s IN
       /\ chan[s].lock = None
       /\ chan' = [chan EXCEPT ![s].pollin = PollAfterRead(s)]
  /\ Done(t)
  /\ UNCHANGED <<load, sock, strm, tbl, files, remote, log>>

\* An empty channel: fail, or wait with the lock held until there is
\* something to read or the reader is closed.
ReadEmpty(t) ==
  /\ At(t, "call", "recv")
  /\ LET s == Call(t).s IN
       /\ Empty(s)
       /\ IF RecvNonblocking(t) THEN Done(t) ELSE Step(t, "lock")
  /\ UNCHANGED <<load, sock, strm, tbl, files, dgrm>>

ReadMayRun(s) == ~Empty(s) \/ chan[s].rclosed
ReadWait(t) ==
  /\ At(t, "lock", "recv")
  /\ LET s == Call(t).s IN
       /\ chan[s].lock = None
       /\ IF ~ReadMayRun(s)
          THEN /\ chan' = [chan EXCEPT ![s].reader = t]
               /\ Step(t, "rsleep")
          ELSE /\ UNCHANGED chan
               /\ IF Empty(s) THEN Done(t) ELSE Step(t, "call")
  /\ UNCHANGED <<load, sock, strm, tbl, files, remote, log>>

\* A signal ends a wait that nobody has ended (Disarm finds it armed).
Interrupt(t) ==
  /\ th[t].sig > 0
  /\ th[t].pc \in {"asleep", "rsleep", "wsleep"}
  /\ LET s == IF th[t].pc = "wsleep" THEN th[t].ref ELSE Call(t).s IN
       /\ lst' = [lst EXCEPT ![s].waiter = IF th[t].pc = "asleep" THEN None
                                           ELSE @]
       /\ chan' = [chan EXCEPT ![s].writers = @ \ {t},
                               ![s].reader = IF th[t].pc = "rsleep" THEN None
                                             ELSE @]
  /\ th' = IF th[t].pc = "wsleep"
           THEN [th EXCEPT ![t].pc = "drop", ![t].sig = @ - 1]
           ELSE [th EXCEPT ![t].prog = Tail(@), ![t].pc = "call",
                           ![t].sig = @ - 1]
  /\ UNCHANGED <<load, sock, conn, pipe, est, tbl, files, remote, log>>

------------------------------------------------------------------------------
(* The specification.                                                       *)

Init ==
  /\ load \in Workloads
  /\ sock = [s \in Socks |-> NoSocket]
  /\ lst = [s \in Socks |-> NoListener]
  /\ conn = [s \in Socks |-> 0]
  /\ pipe = [e \in Ends |-> [made |-> FALSE, rd |-> FALSE, wr |-> FALSE]]
  /\ est = <<>>
  /\ tbl = [k \in {"stream", "dgram"} |-> [n \in AllNames |-> None]]
  /\ files = [n \in Names |-> None]
  /\ chan = [s \in Socks |-> NewChannel]
  /\ remote = [s \in Socks |-> None]
  /\ log = [s \in Socks |-> [sent |-> <<>>, got |-> <<>>]]
  /\ th = [t \in Threads |->
             [prog |-> load.prog[t], pc |-> "call", ref |-> None, end |-> 0,
              sig |-> load.sig[t]]]

Run(t) ==
  \/ Await(t) \/ usys_socket(t) \/ CreatePipeSocket(t) \/ Bind(t) \/ Close(t)
  \/ DropPeer(t) \/ Listen(t) \/ ConnectLookup(t) \/ ConnectEnqueue(t) \/ ConnectAttach(t)
  \/ Accept(t) \/ ShutdownStream(t)
  \/ ConnectDatagram(t) \/ ShutdownDatagram(t) \/ ResolvePeer(t) \/ DoWrite(t)
  \/ Publish(t) \/ Read(t) \/ ReadClear(t) \/ ReadWake(t) \/ ReadEmpty(t)
  \/ ReadWait(t)

Next == \E t \in Threads : Run(t) \/ Interrupt(t)

\* A runnable thread is scheduled; no signal is owed.
Spec == Init /\ [][Next]_vars /\ \A t \in Threads : WF_vars(Run(t))

------------------------------------------------------------------------------
(* Properties.                                                              *)

\* Every variable stays within its type; a channel holds at most its slots.
TypeOK ==
  /\ \A s \in Socks :
       /\ sock[s].kind \in {"none", "stream", "dgram"}
       /\ sock[s].st \in {"unbound", "bound", "listening", "connected"}
       /\ sock[s].name \in AllNames \union {None}
       /\ conn[s] \in Ends \union {0}
       /\ remote[s] \in Socks \union {None}
       /\ Len(lst[s].q) <= lst[s].backlog
       /\ chan[s].in - chan[s].out \in 0 .. ChanSize
  /\ \A k \in DOMAIN tbl, n \in AllNames : tbl[k][n] \in Socks \union {None}

\* Who holds an end of an established connection: a socket, the accept queue
\* of a living listener, or a thread about to attach it.
Holders(e) ==
  Cardinality({s \in Socks : sock[s].st = "connected" /\ conn[s] = e /\ Alive(s)})
  + Cardinality({s \in Socks : Alive(s) /\ e \in ToSet(lst[s].q)})
  + Cardinality({t \in Threads : th[t].end = e})

\* No connection end is lost or shared: an end of a connection handed to a
\* listener (EnqueueConnection) has one holder until the destructor of its
\* socket, or of the listener it waits in, closes both of its directions, so
\* the other side always learns of it (unix_socket.cc, ~UnixStreamSocket).
NoOrphanedEnd ==
  \A i \in DOMAIN est : \A e \in {est[i], -est[i]} :
    \/ Holders(e) = 1
    \/ (Holders(e) = 0 /\ pipe[e].rd /\ pipe[-e].wr)

\* A thread sleeps in Accept only while the accept queue is empty: whoever
\* enqueues a connection wakes it.
AcceptorsMustWait ==
  \A t \in Threads : th[t].pc = "asleep" => lst[Call(t).s].q = <<>>

\* A listener that has not been shut down is readable (kPollIn) exactly while
\* a connection waits in its queue, whatever connects and accepts race.
ListenerReadable ==
  \A s \in Socks : sock[s].st = "listening" /\ ~lst[s].shut =>
    (lst[s].in <=> lst[s].q # <<>>)

\* A bound socket stays reachable under its name until it is destroyed: no
\* other socket's bind or destructor takes the name away (UnixSocketTable).
NamesResolve ==
  \A s \in Socks :
    sock[s].open /\ sock[s].name \in Names /\ sock[s].st # "connected" =>
      GetPeer(sock[s].kind, sock[s].name, sock[s].dent) = s


\* A datagram that has been published makes its socket readable, once no
\* writer is inside the channel's lock, unless its reader is closed.
DatagramReadable ==
  \A s \in Socks :
    ~Empty(s) /\ chan[s].lock = None /\ ~chan[s].rclosed => chan[s].pollin

\* A thread sleeps in a datagram read only while the channel is empty (that
\* closing the reader also ends the sleep is part of CallsEnd).
ReceiversMustWait ==
  \A t \in Threads : th[t].pc = "rsleep" =>
    \/ Empty(Call(t).s)
    \/ chan[Call(t).s].lock # None
    \/ chan[Call(t).s].rclosed

\* Every call of a program ends, or is a write to a channel that stays full:
\* no accept, read or connect is left waiting for a wake-up that already
\* happened (WaitInterruptible, waiter.Wake, read_waker_.Wake).
AllEnded ==
  \A t \in Threads : th[t].prog = <<>> \/ (th[t].pc = "wsleep" /\ Full(th[t].ref))
==============================================================================
