------------------------------- MODULE Polling -------------------------------
(***************************************************************************)
(* poll, select and epoll (fs/poll.h, fs/poll.cc).  A file's PollSource    *)
(* keeps a mask of events and two lists of observers: the entries of the   *)
(* poll and select calls in progress, and the epoll observers.  An epoll   *)
(* file keeps the list of its observers that are ready.                    *)
(*                                                                         *)
(* Threads run programs of calls; "set" and "clear" are what a pipe, a     *)
(* socket or an eventfd does to its source, under its own lock.  A step    *)
(* that holds a source's lock_ is atomic: the locks taken inside belong    *)
(* to different observers.                                                 *)
(***************************************************************************)
EXTENDS Integers, Sequences, SequencesExt, FiniteSets, Functions

CONSTANTS
    Workloads,
    Files,      \* 1..n, files that can be polled
    Epolls,     \* epoll files
    Threads

VARIABLES
    load,
    open,       \* the files and epoll files that are open
    mask,       \* PollSource::event_mask_
    pollers,    \* PollSource::observers_: a sequence of <<thread, entry>>
    ol,         \* PollSource::epoll_observers_: a sequence of epoll files
    ob,         \* the EPollObserver of an epoll file and a file
    ready,      \* EPollFile::events_: a sequence of files
    waker,      \* EPollFile::waker_
    age,        \* history: events delivered while a ready file was waiting
    th          \* the threads

epoll == <<ol, ob, ready, waker, age>>
vars == <<load, open, mask, pollers, epoll, th>>

None == 0
Always == {"HUp", "Err"}

NoObserver == [in |-> FALSE, watched |-> {}, et |-> FALSE, oneshot |-> FALSE,
               excl |-> FALSE, trig |-> {}, told |-> FALSE, on |-> FALSE]

Call(t) == Head(th[t].prog)
At(t, pc, op) == th[t].pc = pc /\ th[t].prog # <<>> /\ Call(t).op = op
Step(t, pc) == th' = [th EXCEPT ![t].pc = pc, ![t].i = 1]

Idle(r) == [r EXCEPT !.pc = "call", !.i = 1, !.rev = <<>>, !.n = 0, !.timer = "off",
                     !.armed = FALSE, !.signaled = FALSE, !.sig = FALSE]
Done(t) == th' = [th EXCEPT ![t] = [Idle(@) EXCEPT !.prog = Tail(@)]]

\* The state that notifications change, to be passed through them.
Cur == [ol |-> ol, ob |-> ob, ready |-> ready, waker |-> waker, age |-> age, th |-> th]
Become(S) ==
  \E T \in {S} :
    /\ ol' = T.ol /\ ob' = T.ob /\ ready' = T.ready
    /\ waker' = T.waker /\ age' = T.age /\ th' = T.th
Finish(S, t) ==
  Become([S EXCEPT !.th[t] = [Idle(@) EXCEPT !.prog = Tail(@)]])

------------------------------------------------------------------------------
(* Notifications.                                                           *)

\* ThreadWaker::Wake of the waker of an epoll file.
WakeEpoll(S, e) ==
  IF S.waker[e] = None THEN S
  ELSE [S EXCEPT !.th[S.waker[e]].pc = "woken", !.waker[e] = None]

AddEvent(S, e, f) ==
  IF S.ob[e][f].on THEN S
  ELSE WakeEpoll([S EXCEPT !.ob[e][f].on = TRUE, !.ready[e] = Append(@, f)], e)

RemoveEvent(S, e, f) ==
  IF ~S.ob[e][f].on THEN S
  ELSE [S EXCEPT !.ob[e][f].on = FALSE, !.ready[e] = Remove(@, f),
                 !.age[e][f] = 0]

\* EPollObserver::Notify.
ObserverNotify(S, e, f, ev) ==
  LET T == [S EXCEPT !.ob[e][f].trig = ev] IN
    IF ev \cap S.ob[e][f].watched # {} THEN AddEvent(T, e, f)
    ELSE RemoveEvent(T, e, f)

\* EPollFile::Notify: a one-shot observer is told once, and one exclusive
\* observer of each source.
EPollNotify(S, f) ==
  FoldLeft(LAMBDA A, e :
            LET o == A.S.ob[e][f]
                T == [A.S EXCEPT !.ob[e][f].told = @ \/ o.oneshot] IN
              IF o.oneshot /\ o.told THEN A
              ELSE IF o.excl /\ A.excl THEN [A EXCEPT !.S = T]
              ELSE [excl |-> A.excl \/ o.excl,
                    S |-> ObserverNotify(T, e, f, mask[f])],
          [excl |-> FALSE, S |-> S], ol[f]).S

\* A poll call counts its entries that have events.
Delta(old, new) == (IF new # {} THEN 1 ELSE 0) - (IF old # {} THEN 1 ELSE 0)

\* The trigger of entry i of thread p's poll or select.
Trigger(S, p, i, ev) ==
  LET r == S.th[p]
      new == ev \cap Head(r.prog).fds[i].want
      n == r.n + Delta(r.rev[i], new)
      wakes == Delta(r.rev[i], new) # 0 /\ n > 0 /\ r.armed IN
    [S EXCEPT !.th[p].rev[i] = new, !.th[p].n = n,
              !.th[p].armed = @ /\ ~wakes,
              !.th[p].pc = IF wakes THEN "woken" ELSE @]

TellPollers(S, f) ==
  FoldLeft(LAMBDA A, o : Trigger(A, o[1], o[2], mask[f]), S, pollers[f])

\* PollSource::Set and Clear store the mask ...
Set(t) ==
  /\ At(t, "call", "set")
  /\ LET c == Call(t) IN
       IF c.ev \subseteq mask[c.f] /\ ~c.force
       THEN Done(t) /\ UNCHANGED mask
       ELSE mask' = [mask EXCEPT ![c.f] = @ \union c.ev] /\ Step(t, "notify")
  /\ UNCHANGED <<load, open, pollers, epoll>>

Clear(t) ==
  /\ At(t, "call", "clear")
  /\ LET c == Call(t) IN
       IF c.ev \cap mask[c.f] = {}
       THEN Done(t) /\ UNCHANGED mask
       ELSE mask' = [mask EXCEPT ![c.f] = @ \ c.ev] /\ Step(t, "notify")
  /\ UNCHANGED <<load, open, pollers, epoll>>

\* ... and then notify, under the source's lock.
Notify(t) ==
  /\ th[t].pc = "notify"
  /\ LET f == Call(t).f IN Finish(EPollNotify(TellPollers(Cur, f), f), t)
  /\ UNCHANGED <<load, open, mask, pollers>>

------------------------------------------------------------------------------
(* poll and select.                                                         *)

\* The kinds of readiness a select set asks for (kSelectIn, Out, Except).
Bits(s) == CASE s = "read" -> {"In", "HUp", "Err"}
             [] s = "write" -> {"Out", "Err"}
             [] s = "except" -> {"Prio"}

\* EncodeSelectFDs: what select reports.
EncodeSelectFDs(t) ==
  {<<i, s>> \in (DOMAIN th[t].rev) \X {"read", "write", "except"} :
     /\ Bits(s) \subseteq Call(t).fds[i].want
     /\ th[t].rev[i] \cap Bits(s) # {}}

\* The first pass looks at the files one at a time and takes no lock.
Look(t) ==
  /\ At(t, "call", "poll")
  /\ th[t].i <= Len(Call(t).fds)
  /\ LET fd == Call(t).fds[th[t].i]
         ev == IF fd.f \in open THEN mask[fd.f] \cap fd.want ELSE {"Nval"} IN
       IF fd.f \notin open /\ Call(t).select THEN Done(t)
       ELSE th' = [th EXCEPT ![t].i = @ + 1, ![t].rev = Append(@, ev),
                             ![t].n = @ + Delta({}, ev)]
  /\ UNCHANGED <<load, open, mask, pollers, epoll>>

\* Return without blocking, or set the timer.
LookDone(t) ==
  /\ At(t, "call", "poll")
  /\ th[t].i > Len(Call(t).fds)
  /\ IF th[t].n > 0 \/ Call(t).tmo = "zero" THEN Step(t, "return")
     ELSE th' = [th EXCEPT ![t].pc = "attach", ![t].i = 1,
                           ![t].timer = IF Call(t).tmo = "none" THEN "off" ELSE "on"]
  /\ UNCHANGED <<load, open, mask, pollers, epoll>>

\* PollSource::Attach tells the events there are.
ToldAtAttach(S, t, i, ev) == IF ev = {} THEN S ELSE Trigger(S, t, i, ev)

Attach(t) ==
  /\ th[t].pc = "attach"
  /\ IF th[t].i <= Len(Call(t).fds)
     THEN LET i == th[t].i
              f == Call(t).fds[i].f IN
            /\ pollers' = [pollers EXCEPT ![f] = Append(@, <<t, i>>)]
            /\ Become(ToldAtAttach([Cur EXCEPT !.th[t].i = i + 1], t, i, mask[f]))
     ELSE Step(t, "wait") /\ UNCHANGED <<pollers, epoll>>
  /\ UNCHANGED <<load, open, mask>>

\* WaitInterruptible, from the first test and again after a wake-up.
WaitForEvents(t) ==
  /\ th[t].pc \in {"wait", "woken"} /\ Call(t).op = "poll"
  /\ LET r == th[t]
         end(s) == [r EXCEPT !.pc = "detach", !.i = 1, !.armed = FALSE, !.signaled = s] IN
       th' = [th EXCEPT ![t] =
                IF r.pc = "woken" /\ r.armed THEN end(TRUE)
                ELSE IF r.n > 0 \/ r.timer = "fired" THEN end(FALSE)
                ELSE IF r.sig THEN end(TRUE)
                ELSE [r EXCEPT !.pc = "sleep", !.armed = TRUE]]
  /\ UNCHANGED <<load, open, mask, pollers, epoll>>

\* Once all entries are detached: return, or start over if the event that
\* woke the call has been cleared since.
Detach(t) ==
  /\ th[t].pc = "detach"
  /\ LET r == th[t] IN
       IF r.i <= Len(Call(t).fds)
       THEN /\ pollers' = [pollers EXCEPT ![Call(t).fds[r.i].f] = Remove(@, <<t, r.i>>)]
            /\ th' = [th EXCEPT ![t].i = @ + 1]
       ELSE /\ UNCHANGED pollers
            /\ Step(t, IF r.n > 0 \/ r.timer = "fired" \/ r.signaled THEN "return"
                       ELSE "attach")
  /\ UNCHANGED <<load, open, mask, epoll>>

Return(t) ==
  /\ th[t].pc = "return"
  /\ Done(t)
  /\ UNCHANGED <<load, open, mask, pollers, epoll>>

------------------------------------------------------------------------------
(* epoll.                                                                   *)

\* EPollFile::Add of an observer that the source does not have yet.
Observe(S, e, f, o, ev) ==
  ObserverNotify([S EXCEPT !.ol[f] = Append(@, e), !.ob[e][f] = o], e, f, ev)

Observer(c) ==
  [NoObserver EXCEPT !.in = TRUE, !.watched = c.ev \union Always, !.et = c.et,
                     !.oneshot = c.oneshot, !.excl = c.excl]

EPollAdd(t) ==
  /\ At(t, "call", "add")
  /\ LET c == Call(t) IN
       IF {c.e, c.f} \subseteq open /\ ~ob[c.e][c.f].in
       THEN Finish(Observe(Cur, c.e, c.f, Observer(c), mask[c.f]), t)
       ELSE Finish(Cur, t)
  /\ UNCHANGED <<load, open, mask, pollers>>

\* Mutant: the new events are stored, the ready list is left alone.
ModifiedQuietly(S, e, f, o) ==
  [S EXCEPT !.ob[e][f] = [o EXCEPT !.trig = S.ob[e][f].trig, !.on = S.ob[e][f].on]]
\* EPollFile::Modify re-arms the observer with the events it was last told.
Modified(S, e, f, o) ==
  LET old == S.ob[e][f] IN
    ObserverNotify([S EXCEPT !.ob[e][f] = [o EXCEPT !.on = old.on]], e, f, old.trig)

EPollModify(t) ==
  /\ At(t, "call", "mod")
  /\ LET c == Call(t) IN
       IF {c.e, c.f} \subseteq open /\ ob[c.e][c.f].in
       THEN Finish(Modified(Cur, c.e, c.f, Observer(c)), t)
       ELSE Finish(Cur, t)
  /\ UNCHANGED <<load, open, mask, pollers>>

\* EPollFile::Delete, and ~EPollObserver.
Unobserve(S, e, f) ==
  IF ~S.ob[e][f].in THEN S
  ELSE [RemoveEvent(S, e, f) EXCEPT !.ol[f] = Remove(@, e), !.ob[e][f] = NoObserver]

EPollDelete(t) ==
  /\ At(t, "call", "del")
  /\ LET c == Call(t) IN
       Finish(IF {c.e, c.f} \subseteq open THEN Unobserve(Cur, c.e, c.f) ELSE Cur, t)
  /\ UNCHANGED <<load, open, mask, pollers>>

\* Mutant: what was delivered goes back to the front.
RotatedNot(rest, kept) == kept \o rest
\* "Put the events that were delivered at the end for better fairness."
Rotated(rest, kept) == rest \o kept

\* EPollFile::DeliverEvents: at most max events, the edge-triggered ones once.
DeliverEvents(S, e, max) ==
  LET q == S.ready[e]
      k == IF max < Len(q) THEN max ELSE Len(q)
      out == SubSeq(q, 1, k)
      kept == SelectSeq(out, LAMBDA f : ~S.ob[e][f].et)
      rest == SubSeq(q, k + 1, Len(q)) IN
    [S EXCEPT !.ready[e] = Rotated(rest, kept),
              !.ob[e] = [f \in Files |-> [@[f] EXCEPT !.on = f \in ToSet(rest \o kept)]],
              !.age[e] = [f \in Files |-> IF f \in ToSet(rest) THEN @[f] + k ELSE 0]]

\* The fast path of EPollFile::Wait.
EPollWait(t) ==
  /\ At(t, "call", "wait")
  /\ LET c == Call(t) IN
       IF c.e \notin open THEN Finish(Cur, t)
       ELSE IF ready[c.e] # <<>> THEN Finish(DeliverEvents(Cur, c.e, c.max), t)
       ELSE IF c.tmo = "zero" THEN Finish(Cur, t)
       ELSE Become([Cur EXCEPT !.th[t].pc = "wait",
                               !.th[t].timer = IF c.tmo = "none" THEN "off" ELSE "on"])
  /\ UNCHANGED <<load, open, mask, pollers>>

\* The slow path: a waiter that a signal woke is still armed, and delivers
\* the events there are all the same.
EPollSleep(t) ==
  /\ th[t].pc \in {"wait", "woken"} /\ Call(t).op = "wait"
  /\ LET c == Call(t)
         S == [Cur EXCEPT !.waker[c.e] = IF @ = t THEN None ELSE @] IN
       IF ready[c.e] # <<>> THEN Finish(DeliverEvents(S, c.e, c.max), t)
       ELSE IF waker[c.e] = t \/ th[t].timer = "fired" \/ th[t].sig THEN Finish(S, t)
       ELSE Become([Cur EXCEPT !.waker[c.e] = t, !.th[t].pc = "sleep"])
  /\ UNCHANGED <<load, open, mask, pollers>>

------------------------------------------------------------------------------
(* Timers, signals, closing and restoring.                                  *)

\* WakeOnTimeout::DoWake: the flag is set if the thread was there to be
\* woken; a timer that expires before the thread blocks is spent for nothing.
TimedOut(S, t) ==
  LET T(v) == [S EXCEPT !.th[t].timer = v]
      armed == IF Call(t).op = "wait" THEN S.waker[Call(t).e] = t ELSE S.th[t].armed IN
    IF ~armed THEN T("spent")
    ELSE IF Call(t).op = "wait" THEN WakeEpoll(T("fired"), Call(t).e)
    ELSE [T("fired") EXCEPT !.th[t].armed = FALSE, !.th[t].pc = "woken"]

Timeout(t) ==
  /\ th[t].timer = "on"
  /\ Become(TimedOut(Cur, t))
  /\ UNCHANGED <<load, open, mask, pollers>>

\* A signal leaves the waker armed.
Signal(t) ==
  /\ t \in load.signals /\ ~th[t].sig /\ th[t].pc \notin {"call", "return"}
  /\ th' = [th EXCEPT ![t].sig = TRUE,
                      ![t].pc = IF @ = "sleep" THEN "woken" ELSE @]
  /\ UNCHANGED <<load, open, mask, pollers, epoll>>

\* ~PollSource disposes of the epoll observers.
CloseFile(t) ==
  /\ At(t, "call", "closef")
  /\ LET f == Call(t).f IN
       /\ open' = open \ {f}
       /\ Finish(FoldLeft(LAMBDA A, e : Unobserve(A, e, f), Cur, ol[f]), t)
  /\ UNCHANGED <<load, mask, pollers>>

\* ~EPollFile deletes its observers file by file, of those that are open.
CloseEpoll(t) ==
  /\ At(t, "call", "closee") /\ th[t].i <= Cardinality(Files)
  /\ open' = open \ {Call(t).e}
  /\ LET f == th[t].i
         S == IF f \in open THEN Unobserve(Cur, Call(t).e, f) ELSE Cur IN
       IF f = Cardinality(Files) THEN Finish(S, t)
       ELSE Become([S EXCEPT !.th[t].i = f + 1])
  /\ UNCHANGED <<load, mask, pollers>>

\* EpollObserverLoad: the events an observer was last told are told again.
Reobserved(S, e, f) ==
  LET o == ob[e][f] IN
    Observe(S, e, f, [o EXCEPT !.on = FALSE, !.trig = {}], mask[f] \union o.trig)

\* A snapshot between calls: PollSource::load adds the observers again.
Restore ==
  /\ load.restore
  /\ \A t \in Threads : th[t].pc = "call" /\ th[t].i = 1
  /\ LET S0 == [Cur EXCEPT !.ol = [f \in Files |-> <<>>],
                           !.ob = [e \in Epolls |-> [f \in Files |-> NoObserver]],
                           !.ready = [e \in Epolls |-> <<>>],
                           !.age = [e \in Epolls |-> [f \in Files |-> 0]]]
         all == FlattenSeq([f \in Files |-> [k \in DOMAIN ol[f] |-> <<ol[f][k], f>>]])
     IN Become(FoldLeft(LAMBDA A, p : Reobserved(A, p[1], p[2]), S0, all))
  /\ UNCHANGED <<load, open, mask, pollers>>

------------------------------------------------------------------------------
(* The specification.                                                       *)

Init ==
  /\ load \in Workloads
  /\ open = Files \union Epolls
  /\ mask = load.mask
  /\ pollers = [f \in Files |-> <<>>]
  /\ ol = [f \in Files |-> <<>>]
  /\ ob = [e \in Epolls |-> [f \in Files |-> NoObserver]]
  /\ ready = [e \in Epolls |-> <<>>]
  /\ waker = [e \in Epolls |-> None]
  /\ age = [e \in Epolls |-> [f \in Files |-> 0]]
  /\ th = [t \in Threads |->
             Idle([prog |-> load.prog[t], pc |-> "call", i |-> 1, rev |-> <<>>, n |-> 0,
                   timer |-> "off", armed |-> FALSE, signaled |-> FALSE, sig |-> FALSE])]

Run(t) ==
  \/ Set(t) \/ Clear(t) \/ Notify(t)
  \/ Look(t) \/ LookDone(t) \/ Attach(t) \/ WaitForEvents(t) \/ Detach(t) \/ Return(t)
  \/ EPollAdd(t) \/ EPollModify(t) \/ EPollDelete(t) \/ EPollWait(t) \/ EPollSleep(t)
  \/ CloseFile(t) \/ CloseEpoll(t)

Next == Restore \/ \E t \in Threads : Run(t) \/ Timeout(t) \/ Signal(t)

\* A runnable thread is scheduled and a running timer fires; no signal or
\* restore is owed.
Fairness == \A t \in Threads : WF_vars(Run(t) \/ Timeout(t))
Spec == Init /\ [][Next]_vars /\ Fairness

------------------------------------------------------------------------------
(* Properties.                                                              *)

\* Every variable stays within its type, and an observer knows whether it is
\* in its epoll file's ready list, once.
TypeOK ==
  /\ \A e \in Epolls :
       /\ waker[e] \in Threads \union {None}
       /\ ToSet(ready[e]) = {f \in Files : ob[e][f].on}
       /\ Len(ready[e]) = Cardinality(ToSet(ready[e]))
  /\ \A f \in Files :
       ToSet(ol[f]) = {e \in Epolls : ob[e][f].in} /\ Len(ol[f]) = Cardinality(ToSet(ol[f]))
  /\ \A t \in Threads : th[t].n >= 0

\* No Set or Clear is between its store and its notification.
Quiet(f) == \A t \in Threads : th[t].pc = "notify" => Call(t).f # f

\* The observers that hear of every change: not one-shot, and of the
\* exclusive ones the first.
Informed(e, f) ==
  /\ ob[e][f].in /\ ~ob[e][f].oneshot
  /\ ob[e][f].excl =>
       \A k \in DOMAIN ol[f] :
         ob[ol[f][k]][f].excl => \E j \in 1..k : ol[f][j] = e

\* An epoll file's ready list is exact: a level-triggered observer is in it
\* if and only if its file has a watched event, an edge-triggered one only if,
\* through adds, modifications, deliveries and restores racing with Set and
\* Clear (AddEvent, RemoveEvent, DeliverEvents).
ReadyListExact ==
  \A e \in Epolls, f \in Files : Quiet(f) /\ Informed(e, f) =>
    LET has == mask[f] \cap ob[e][f].watched # {} IN
      /\ ob[e][f].on => has
      /\ has /\ ~ob[e][f].et => ob[e][f].on

\* A thread sleeps in poll, select or epoll_wait only while there is nothing
\* for it (the trigger, AddEvent and the recheck under the lock).
PollersMustWait ==
  \A t \in Threads : th[t].pc = "sleep" =>
    IF Call(t).op = "wait" THEN ready[Call(t).e] = <<>>
    ELSE \A i \in DOMAIN Call(t).fds :
           Quiet(Call(t).fds[i].f) => mask[Call(t).fds[i].f] \cap Call(t).fds[i].want = {}

\* poll returns the number of entries whose revents it set, although the
\* triggers of other files still run while the first are detached.
PollCountExact ==
  \A t \in Threads : th[t].pc = "return" =>
    th[t].n = Cardinality({i \in DOMAIN th[t].rev : th[t].rev[i] # {}})

\* select reports a descriptor in some set whenever it stopped for an event,
\* and only in sets the caller passed (EncodeSelectFDs).
SelectAnswers ==
  \A t \in Threads : th[t].pc = "return" /\ Call(t).select =>
    /\ th[t].n > 0 <=> EncodeSelectFDs(t) # {}
    /\ \A p \in EncodeSelectFDs(t) : p[2] \in Call(t).fds[p[1]].sets

\* No ready file is starved: a ready file is reported after at most one event
\* of each other file, however few events each epoll_wait takes
\* (DeliverEvents, "for better fairness").
FairDelivery == \A e \in Epolls, f \in Files : age[e][f] < Cardinality(Files)

\* Nothing points to a destroyed observer: a closed epoll file has no
\* observer left on a source, and a closed file none in a ready list
\* (~EPollFile, ~PollSource, ~EPollObserver).
NoDanglingObserver ==
  \A e \in Epolls, f \in Files :
    /\ f \in ToSet(ready[e]) => ob[e][f].in /\ f \in open
    /\ e \notin open /\ ob[e][f].in =>
         \E t \in Threads : At(t, "call", "closee") /\ Call(t).e = e /\ th[t].i <= f

\* Every call ends, unless nothing it waits for is there and it has no
\* timer, or one that expired before it blocked (WakeOnTimeout): otherwise a
\* timeout ends the call, and an event that stays is never missed.
AllEnded ==
  \A t \in Threads :
    \/ th[t].prog = <<>>
    \/ /\ th[t].pc = "sleep" /\ th[t].timer \in {"off", "spent"}
       /\ Call(t).op = "poll" =>
            \A i \in DOMAIN Call(t).fds : mask[Call(t).fds[i].f] \cap Call(t).fds[i].want = {}
==============================================================================
