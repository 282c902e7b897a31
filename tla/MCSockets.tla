------------------------------ MODULE MCSockets ------------------------------
(***************************************************************************)
(* Sockets and polling for TLC: the workloads of MCUnixSocket, those of    *)
(* MCPolling, and the Internet sockets.  The three share no state; a       *)
(* behaviour is one of a single part, as "which" says.                     *)
(***************************************************************************)
EXTENDS MCUnixSocket

VARIABLES
  which,
  sk, ob, late,
  pload, open, mask, pollers, ol, pob, ready, waker, age, pth
ivars == <<sk, ob, late>>
pvars == <<pload, open, mask, pollers, ol, pob, ready, waker, age, pth>>
allvars == <<which, vars, ivars, pvars>>

Inet == INSTANCE InetSocket WITH ISocks <- {1, 2}, Ports <- {0, 1}
Loads == INSTANCE MCPolling WITH
  Workloads <- {}, Files <- {1, 2, 3}, Epolls <- {11, 12}, load <- pload, ob <- pob, th <- pth
Poll == INSTANCE Polling WITH
  Workloads <- Loads!Passing, Files <- {1, 2, 3}, Epolls <- {11, 12}, load <- pload, ob <- pob,
  th <- pth

Idle == Load(<< <<>>, <<>>, <<>> >>)
WithIdle == Passing \union {Idle}

MCInit ==
  /\ which \in {"unix", "inet", "poll"}
  /\ Init /\ Inet!Init /\ Poll!Init
  /\ which = "unix" <=> load # Idle
  /\ which = "poll" \/ pload = Loads!Closing
OfUnix(A) == which = "unix" /\ A /\ UNCHANGED <<which, ivars, pvars>>
OfInet(A) == which = "inet" /\ A /\ UNCHANGED <<which, vars, pvars>>
OfPoll(A) == which = "poll" /\ A /\ UNCHANGED <<which, vars, ivars>>
MCNext == OfUnix(Next) \/ OfInet(Inet!Next) \/ OfPoll(Poll!Next)
\* The fairness of UnixSocket and of Polling, of whichever is in use.
MCSpec ==
  /\ MCInit /\ [][MCNext]_allvars
  /\ \A t \in Threads : WF_allvars(OfUnix(Run(t)) \/ OfPoll(Poll!Run(t) \/ Poll!Timeout(t)))

------------------------------------------------------------------------------
\* No lost wake-up: a thread sleeps in accept, in a datagram read, in poll,
\* select or epoll_wait only while there is nothing for it (see UnixSocket's
\* AcceptorsMustWait and ReceiversMustWait, and PollersMustWait in Polling).
SleepersMustWait == AcceptorsMustWait /\ ReceiversMustWait /\ Poll!PollersMustWait

\* Nothing gets lost: a connection end is held by one socket, accept queue or
\* thread until both its directions are closed, and a name leads to the
\* socket bound to it until that is destroyed (see UnixSocket).
NothingOrphaned == TypeOK /\ NoOrphanedEnd /\ NamesResolve

\* What pollers are told is so: a listener or a datagram socket with
\* something to take is readable, an epoll file's ready list is exact, poll's
\* count and select's sets are those of the events, and no list refers to a
\* destroyed observer (see UnixSocket and Polling).
EventsExact ==
  /\ ListenerReadable /\ DatagramReadable
  /\ Poll!TypeOK /\ Poll!ReadyListExact /\ Poll!PollCountExact /\ Poll!SelectAnswers
  /\ Poll!NoDanglingObserver

\* No ready file is starved by the others of an epoll file: see Polling.
FairDelivery == Poll!FairDelivery


\* Every call ends that has something to end it: no accept, read, connect,
\* poll or epoll_wait misses a wake-up (see CallsEnd in UnixSocket, Polling).
BlockedCallsEnd ==
  <>[](CASE which = "unix" -> AllEnded [] which = "poll" -> Poll!AllEnded [] OTHER -> TRUE)
==============================================================================
