------------------------------ MODULE MCPolling ------------------------------
(* Workloads for checking Polling with TLC.                                *)
EXTENDS Polling

Load(p, m) == [prog |-> p, mask |-> m, signals |-> {}, restore |-> FALSE]
Interrupted(w, ts) == [w EXCEPT !.signals = ts]
Restored(w) == [w EXCEPT !.restore = TRUE]

SetEv(f, ev) == [op |-> "set", f |-> f, ev |-> ev, force |-> FALSE]
Force(f, ev) == [SetEv(f, ev) EXCEPT !.force = TRUE]
ClearEv(f, ev) == [op |-> "clear", f |-> f, ev |-> ev]
Fd(f, ev) == [f |-> f, want |-> ev \union Always, sets |-> {}]
SFd(f, S) == [f |-> f, want |-> UNION {Bits(s) : s \in S}, sets |-> S]
PollFds(fds, tmo) == [op |-> "poll", fds |-> fds, tmo |-> tmo, select |-> FALSE]
SelectFds(fds, tmo) == [PollFds(fds, tmo) EXCEPT !.select = TRUE]
Ctl(op, e, f, ev) ==
  [op |-> op, e |-> e, f |-> f, ev |-> ev, et |-> FALSE, oneshot |-> FALSE, excl |-> FALSE]
Edge(c) == [c EXCEPT !.et = TRUE]
OneShot(c) == [c EXCEPT !.oneshot = TRUE]
Excl(c) == [c EXCEPT !.excl = TRUE]
WaitEp(e, max, tmo) == [op |-> "wait", e |-> e, max |-> max, tmo |-> tmo]
CloseF(f) == [op |-> "closef", f |-> f]
CloseE(e) == [op |-> "closee", e |-> e]

Nothing == <<{}, {}, {}>>
E1 == 11
E2 == 12

\* Two files watched by poll while their events come and go.
Polls == Load(<< <<PollFds(<<Fd(1, {"In"}), Fd(2, {"In"})>>, "none")>>,
                 <<SetEv(1, {"In"}), ClearEv(1, {"In"}), SetEv(2, {"HUp"})>>,
                 <<PollFds(<<Fd(2, {"Out"}), Fd(1, {"In"})>>, "some"),
                   PollFds(<<Fd(1, {"In"})>>, "zero")>> >>, Nothing)
\* The same file twice, in select, with a closed descriptor at the end.
Selects == Load(<< <<SelectFds(<<SFd(1, {"read", "write"}), SFd(1, {"read"}),
                               SFd(2, {"except"})>>, "some")>>,
                   <<SetEv(1, {"HUp"}), ClearEv(1, {"HUp"}), SetEv(1, {"Err"})>>,
                   <<SetEv(2, {"In"}), CloseF(3), PollFds(<<Fd(3, {"In"})>>, "none"),
                     SelectFds(<<SFd(3, {"read"})>>, "none")>> >>, Nothing)
\* Level-triggered epoll.
Levels == Load(<< <<Ctl("add", E1, 1, {"In"}), Ctl("add", E1, 2, {"Out"}),
                    WaitEp(E1, 1, "none"), WaitEp(E1, 2, "some"), WaitEp(E1, 2, "zero")>>,
                  <<SetEv(1, {"In"}), ClearEv(1, {"In"}), SetEv(1, {"HUp"})>>,
                  <<SetEv(2, {"In", "Out"}), ClearEv(2, {"Out"})>> >>, Nothing)
\* Edge-triggered observers that are modified and removed.
Edges == Load(<< <<Edge(Ctl("add", E1, 1, {"In"})), Ctl("add", E1, 1, {"In"}),
                   WaitEp(E1, 1, "some"), WaitEp(E1, 1, "some"), Ctl("del", E1, 1, {}),
                   Ctl("mod", E1, 1, {"In"}), WaitEp(E1, 1, "zero")>>,
                 <<Force(1, {"In"}), Force(1, {"In"}), ClearEv(1, {"In"})>>,
                 <<Ctl("mod", E1, 1, {"Out"}), SetEv(2, {"In"}),
                   Edge(Ctl("mod", E1, 1, {"In"}))>> >>, Nothing)
\* Two epoll files on one source, exclusive and not, one-shot and not.
Sharing == Load(<< <<Excl(Ctl("add", E1, 1, {"In"})), WaitEp(E1, 1, "some"),
                     OneShot(Ctl("add", E1, 2, {"In"})), WaitEp(E1, 2, "zero")>>,
                   <<Excl(Ctl("add", E2, 1, {"In"})), Ctl("add", E2, 2, {"In"}),
                     WaitEp(E2, 2, "some")>>,
                   <<SetEv(1, {"In"}), SetEv(2, {"In"}), ClearEv(1, {"In"}),
                     ClearEv(2, {"In"})>> >>, Nothing)
\* More ready files than a wait takes.
Busy == Load(<< <<Ctl("add", E1, 1, {"In"}), Ctl("add", E1, 2, {"In"}),
                  Edge(Ctl("add", E1, 3, {"In"})), WaitEp(E1, 1, "none"),
                  WaitEp(E1, 1, "none"), WaitEp(E1, 2, "none"), WaitEp(E1, 1, "none")>>,
                <<ClearEv(2, {"In"}), SetEv(2, {"In"})>>,
                <<Force(3, {"In"}), Force(3, {"In"})>> >>,
             <<{"In"}, {"In"}, {"In"}>>)
\* Files and epoll files closed while events arrive.
Closing == Load(<< <<Ctl("add", E1, 1, {"In"}), Ctl("add", E1, 2, {"In"}),
                     Ctl("add", E2, 1, {"In"}), CloseE(E1), WaitEp(E1, 1, "none"),
                     Ctl("add", E1, 2, {"In"}), WaitEp(E2, 1, "zero")>>,
                   <<SetEv(1, {"In"}), ClearEv(1, {"In"}), SetEv(1, {"In"})>>,
                   <<CloseF(2), Ctl("del", E2, 1, {}), Ctl("del", E2, 2, {})>> >>, Nothing)

\* A signal may come or not, and so may a snapshot: the workloads with them
\* have the behaviours of those without.
Passing == {Interrupted(Polls, {1, 3}), Selects, Interrupted(Levels, {1}), Restored(Levels),
            Restored(Edges), Sharing, Restored(Busy), Closing}
==============================================================================
