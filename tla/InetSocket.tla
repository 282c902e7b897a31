----------------------------- MODULE InetSocket -----------------------------
(***************************************************************************)
(* TCP and UDP sockets (junction/net/tcp_socket.h, udp_socket.h, socket.h) *)
(* over the runtime's transport objects (junction/bindings/net.h): port    *)
(* reservations (BindToken), listener queues (TCPQueue) and connections    *)
(* (TCPConn, UDPConn).  A socket keeps flags of its own and must keep the  *)
(* object it holds in step with them, whatever object that is and however  *)
(* it got it: from a call, or from a snapshot.                             *)
(*                                                                         *)
(* The transport itself is external: a call to it succeeds or fails.  A    *)
(* call that fails, there or on a check before it, returns before it has   *)
(* changed anything: it is a stuttering step.  One thread uses the sockets *)
(* (the classes have no lock).                                             *)
(***************************************************************************)
EXTENDS Integers, FiniteSets

CONSTANTS
  ISocks,   \* descriptors
  Ports     \* port numbers, naturals; 0 lets the transport pick

VARIABLES
  sk,     \* the sockets
  ob,     \* per socket, the transport object it owns (v_, conn_)
  late    \* an object was closed with a living socket's poll source (history)

ivars == <<sk, ob, late>>

NoSock == [kind |-> "none", st |-> "unbound", nb |-> FALSE, polled |-> FALSE,
           watched |-> FALSE, shut |-> FALSE, reuse |-> FALSE]
NoObj == [type |-> "none", port |-> 0, nb |-> FALSE, poll |-> FALSE,
          shut |-> FALSE, peer |-> FALSE]

\* A transport object of a type, on a port, in blocking mode.
Obj(type, port, peer) ==
  [NoObj EXCEPT !.type = type, !.port = port, !.peer = peer]

Is(s, kind) == sk[s].kind = kind

\* Ports an object holds; trans_reserve_port refuses a taken one unless both
\* sides asked for SO_REUSEPORT.  Port 0 is an ephemeral port of its own.
Holds(s, p) == p # 0 /\ ob[s].type # "none" /\ ob[s].port = p
Reserve(p, s) ==
  \A u \in ISocks \ {s} : Holds(u, p) => sk[u].reuse /\ sk[s].reuse

------------------------------------------------------------------------------
CreateSocket(s, kind, nb, reuse) ==
  /\ Is(s, "none")
  /\ sk' = [sk EXCEPT ![s] = [NoSock EXCEPT !.kind = kind, !.nb = nb,
                                            !.reuse = reuse]]
  /\ UNCHANGED <<ob, late>>

\* SetNonBlocking and InstallPollSource on a fresh object.
NonblockIf(o, s) == [o EXCEPT !.nb = sk[s].nb]
PollIf(o, s) == [o EXCEPT !.poll = sk[s].polled]

Replace(s, o) ==
  /\ late' = (late \/ ob[s].poll)
  /\ ob' = [ob EXCEPT ![s] = o]
Uninstalled(s) == IF sk[s].polled THEN [ob[s] EXCEPT !.poll = FALSE] ELSE ob[s]

\* UDPSocket::InstallConn: poll source off the old one, flags to the new one.
InstallConn(s, o) ==
  /\ late' = (late \/ Uninstalled(s).poll)
  /\ ob' = [ob EXCEPT ![s] = PollIf(NonblockIf(o, s), s)]

TcpBind(s, p) ==
  /\ Is(s, "tcp") /\ sk[s].st = "unbound" /\ Reserve(p, s)
  /\ Replace(s, Obj("token", p, FALSE))
  /\ sk' = [sk EXCEPT ![s].st = "bound"]

\* AllocateUDP, ListenUDP: the connection takes the token over.
UdpBind(s, p) ==
  /\ Is(s, "udp") /\ ob[s].type = "none" /\ Reserve(p, s)
  /\ InstallConn(s, Obj("conn", p, FALSE))
  /\ UNCHANGED sk

\* ListenTCP and DialTCP consume the token: its port passes to the new object,
\* and the token object that is destroyed releases nothing.
Consumed(s) == ob[s].port
Listen(s) ==
  /\ Is(s, "tcp") /\ sk[s].st \in {"unbound", "bound"}
  /\ Replace(s, PollIf(NonblockIf(Obj("queue", Consumed(s), FALSE), s), s))
  /\ sk' = [sk EXCEPT ![s].st = "listening"]

\* Dial and DialNonBlocking give a connection in the mode they were asked for.
Dialled(s, nb) == [Obj("conn", Consumed(s), TRUE) EXCEPT !.nb = nb]
TcpConnect(s) ==
  /\ Is(s, "tcp") /\ sk[s].st \in {"unbound", "bound"}
  /\ Replace(s, PollIf(Dialled(s, sk[s].nb), s))
  /\ sk' = [sk EXCEPT ![s].st = "connected"]

\* UDPSocket::Connect, on the local address it has, if any; EISCONN.
UdpConnect(s) ==
  /\ Is(s, "udp") /\ ~ob[s].peer
  /\ InstallConn(s, Obj("conn", Consumed(s), TRUE))
  /\ UNCHANGED sk

\* UDPSocket::WriteTo sets a connection up on the fly (TrySetupConn).
WriteTo(s) ==
  /\ Is(s, "udp")
  /\ ob[s].type = "none"
  /\ InstallConn(s, Obj("conn", 0, FALSE))
  /\ UNCHANGED sk

\* TCPSocket::Accept of a connection the transport has; accept4 passes on
\* SOCK_NONBLOCK.
Accept(s, as, nb) ==
  /\ Is(s, "tcp") /\ sk[s].st = "listening" /\ ~sk[s].shut
  /\ Is(as, "none")
  /\ sk' = [sk EXCEPT ![as] = [NoSock EXCEPT !.kind = "tcp", !.nb = nb,
                                             !.st = "connected",
                                             !.reuse = sk[s].reuse]]
  /\ ob' = [ob EXCEPT ![as] = [Obj("conn", 0, TRUE) EXCEPT !.nb = nb]]
  /\ UNCHANGED late

\* Shutdown reaches the queue, or the UDP connection, once (is_shut_).
Shutdown(s) ==
  /\ \/ Is(s, "tcp") /\ sk[s].st = "listening"
     \/ Is(s, "udp") /\ ob[s].type # "none"
  /\ sk' = [sk EXCEPT ![s].shut = TRUE]
  /\ ob' = [ob EXCEPT ![s].shut = @ \/ ~sk[s].shut]
  /\ UNCHANGED late

\* fcntl(F_SETFL), ioctl(FIONBIO): NotifyFlagsChanging, then the flag.
Reached(s) ==
  \/ Is(s, "tcp") /\ sk[s].st \in {"listening", "connected"}
  \/ Is(s, "udp") /\ ob[s].type # "none"
set_flags(s, nb) ==
  /\ ~Is(s, "none") /\ nb # sk[s].nb
  /\ sk' = [sk EXCEPT ![s].nb = nb]
  /\ ob' = [ob EXCEPT ![s].nb = IF Reached(s) THEN nb ELSE @]
  /\ UNCHANGED late

\* The first use of the poll source installs it, if there is a queue or a
\* connection to install it on; epoll keeps watching, poll and select do not.
get_poll_source(s, epoll) ==
  /\ ~Is(s, "none")
  /\ Is(s, "udp") => ob[s].type # "none"
  /\ sk' = [sk EXCEPT ![s].polled = TRUE, ![s].watched = @ \/ epoll]
  /\ ob' = [ob EXCEPT ![s].poll =
               @ \/ (~sk[s].polled /\ ob[s].type \in {"queue", "conn"})]
  /\ UNCHANGED late

\* The destructor closes the object, port and all.
Close(s) ==
  /\ ~Is(s, "none")
  /\ sk' = [sk EXCEPT ![s] = NoSock]
  /\ ob' = [ob EXCEPT ![s] = NoObj]
  /\ UNCHANGED late

\* Restoring a snapshot: save writes state, addresses and flags; load makes
\* new objects from them.  poll_source_setup_ is not saved: loading the epoll
\* observers sets it.  Left out are bound sockets (load does not read what
\* save wrote) and watched UDP sockets (the observers come before conn_).
Restored(s) ==
  LET o == [Obj(ob[s].type, ob[s].port, ob[s].peer)
              EXCEPT !.nb = sk[s].nb, !.poll = sk[s].watched]
  IN CASE o.type = "none" -> NoObj
       [] Is(s, "tcp") /\ o.type = "conn" -> o
       [] OTHER -> [o EXCEPT !.shut = sk[s].shut]
Restore ==
  /\ \A s \in ISocks : ob[s].type # "token" /\ ~(Is(s, "udp") /\ sk[s].watched)
  /\ ob' = [s \in ISocks |-> Restored(s)]
  /\ sk' = [s \in ISocks |-> [sk[s] EXCEPT !.polled = @ /\ sk[s].watched]]
  /\ UNCHANGED late

------------------------------------------------------------------------------
Init ==
  /\ sk = [s \in ISocks |-> NoSock]
  /\ ob = [s \in ISocks |-> NoObj]
  /\ late = FALSE

Next ==
  \/ \E s \in ISocks :
       \/ \E k \in {"tcp", "udp"}, nb, reuse \in BOOLEAN :
            CreateSocket(s, k, nb, reuse)
       \/ \E p \in Ports : TcpBind(s, p) \/ UdpBind(s, p)
       \/ Listen(s) \/ TcpConnect(s) \/ UdpConnect(s)
       \/ \E as \in ISocks, nb \in BOOLEAN : Accept(s, as, nb)
       \/ \E nb \in BOOLEAN : set_flags(s, nb)
       \/ \E epoll \in BOOLEAN : get_poll_source(s, epoll)
       \/ WriteTo(s) \/ Shutdown(s) \/ Close(s)
  \/ Restore

Spec == Init /\ [][Next]_ivars

------------------------------------------------------------------------------
\* The alternative v_ holds is the one state_ promises, as TcpConn(),
\* TcpQueue() and BindToken() assert when they take it out.
VariantMatches ==
  \A s \in ISocks : Is(s, "tcp") =>
    ob[s].type = CASE sk[s].st = "unbound" -> "none"
                   [] sk[s].st = "bound" -> "token"
                   [] sk[s].st = "listening" -> "queue"
                   [] OTHER -> "conn"

\* Whatever calls, flag changes and restores came before, a queue or a
\* connection blocks exactly when its socket's O_NONBLOCK is clear.
NonblockAgrees ==
  \A s \in ISocks : ob[s].type \in {"queue", "conn"} => ob[s].nb = sk[s].nb

\* A socket somebody has polled has its poll source on the queue or the
\* connection it now holds, so its events are seen (SetupPollSource).
PollInstalled ==
  \A s \in ISocks : sk[s].polled /\ ob[s].type \in {"queue", "conn"} => ob[s].poll

\* No connection is closed with the poll source of a living socket on it
\* (InstallConn takes it off first).
PollUninstalled == ~late

\* A port belongs to one socket at a time, from bind through listen, connect
\* and restore to close, unless both sides asked to share it.
PortsHeld ==
  \A s, u \in ISocks, p \in Ports :
    s # u /\ Holds(s, p) /\ Holds(u, p) => sk[s].reuse /\ sk[u].reuse

\* A listener that has been shut down is shut down in the transport, also
\* after a restore.
ShutStays == \A s \in ISocks : Is(s, "tcp") /\ sk[s].shut => ob[s].shut
==============================================================================
