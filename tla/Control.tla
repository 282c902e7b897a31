------------------------------- MODULE Control -------------------------------
(***************************************************************************)
(* The control plane: the server of control connections (webctl.cc), the   *)
(* channel through which the kernel invokes a function of the application  *)
(* (serverless.cc), the drivers JunctionMain starts (run.cc), and the      *)
(* order in which they stop, save and restore a process (snapshot*.cc).    *)
(*                                                                         *)
(* Process 1 is init and holds the function: one thread that reads a       *)
(* request from the channel, works and writes the answer. A fresh runtime  *)
(* starts without it and with an image of it on disk. Process 2 is the one *)
(* a "run" request creates. How threads reach a stop is Process's subject, what an *)
(* image contains is Image's; here both are single steps.                  *)
(***************************************************************************)
EXTENDS Naturals, Sequences, FiniteSets

CONSTANTS Workers,    \* connections and drivers
          None,
          Workloads   \* what each of them asks for, and which calls may fail

VARIABLES load,
          st,         \* stopped_gen_, exited_ of each process
          traced,     \* whether the process's memory map has a tracer
          app,        \* the function's thread
          chan,       \* FunctionChannel
          ctx,        \* cur_context
          img,        \* the image on disk
          wk,         \* the workers
          status      \* "up", "exit" (syscall_exit) or "panic" (BUG_ON, assert, throw)
vars == <<load, st, traced, app, chan, ctx, img, wk, status>>

Pids == {1, 2}
Prepare == "SNAPSHOT_PREPARE"

NewChannel ==
  [request |-> None, response |-> None, in_progress |-> FALSE, pollin |-> FALSE,
   app_waiter |-> FALSE, junction_waiter |-> None, timing |-> FALSE, latencies |-> 0]

(* A worker: the requests still to come, the one being handled and where,  *)
(* what it has sent back, and who holds the connection.                    *)
NewWorker(w) ==
  [todo |-> load.script[w], cur |-> None, pc |-> "recv", ok |-> TRUE, ans |-> None, sent |-> <<>>, taken |-> 0,
   conn |-> "worker"]

Init ==
  /\ load \in Workloads
  /\ st = [p \in Pids |-> IF p = 1 /\ ~load.fresh THEN "running" ELSE "none"]
  /\ traced = [p \in Pids |-> FALSE]
  /\ app = [pc |-> "user", req |-> None, large |-> "small" \notin load.faults, stops |-> 0]
  /\ chan = NewChannel
  /\ ctx = FALSE
  /\ img = IF load.fresh THEN [app |-> app, latencies |-> 0, pid |-> 1] ELSE None
  /\ wk = [w \in Workers |-> NewWorker(w)]
  /\ status = "up"

Panic == status' = "panic" /\ UNCHANGED <<load, st, traced, app, chan, ctx, img, wk>>
Fails(what) == what \in load.faults

(* The worker's own step: the process, the channel and the rest stay.      *)
Goto(w, pc) == wk' = [wk EXCEPT ![w].pc = pc]

-----------------------------------------------------------------------------
(* The function channel. A request is answered by app; a client posts it   *)
(* and sleeps until the answer is there.                                   *)

(* Waking the thread that sleeps in Read.                                  *)
WakeApp(c) == [c EXCEPT !.app_waiter = FALSE]
Waken(c, a) == IF c.app_waiter THEN [a EXCEPT !.pc = "woken"] ELSE a

MarkStart(c, cmd) ==
  [c EXCEPT !.request = cmd, !.in_progress = TRUE, !.pollin = TRUE, !.timing = cmd # Prepare]
MarkEnd(c) == [c EXCEPT !.response = None, !.in_progress = FALSE]

(* FunctionChannel::DoRequest, SnapshotPrepare: post, wake the reader, wait *)
Post(w, cmd, pc) ==
  IF chan.in_progress
  THEN Panic
  ELSE /\ chan' = [WakeApp(MarkStart(chan, cmd)) EXCEPT !.junction_waiter = w]
       /\ app' = Waken(chan, app)
       /\ Goto(w, pc)
       /\ UNCHANGED <<load, st, traced, ctx, img, status>>

(* ... and, woken with the lock held again, take the answer.               *)
Answered(w) == chan.junction_waiter # w /\ chan.response # None
TakeAnswer(w, pc) ==
  /\ Answered(w)
  /\ chan' = MarkEnd(chan)
  /\ wk' = [wk EXCEPT ![w].ans = chan.response, ![w].pc = pc]
  /\ UNCHANGED <<load, st, traced, app, ctx, img, status>>

(* FunctionChannel::Read by the application, entered or resumed.           *)
Read ==
  /\ app.pc \in {"user", "woken"} /\ st[1] \in {"running", "stopping"}
  /\ app.pc = "user" => st[1] = "running"
  /\ \/ /\ chan.request # None /\ app.large
        /\ app' = [app EXCEPT !.pc = "work", !.req = chan.request]
        /\ chan' = [chan EXCEPT !.request = None, !.pollin = FALSE]
     \/ /\ chan.request # None /\ ~app.large             \* ENOSPC: the request stays
        /\ app' = [app EXCEPT !.pc = "user", !.large = TRUE] /\ UNCHANGED chan
     \/ /\ chan.request = None /\ ~load.nonblocking
        /\ app' = [app EXCEPT !.pc = "asleep"]
        /\ chan' = [chan EXCEPT !.app_waiter = TRUE]
     \/ /\ chan.request = None /\ load.nonblocking        \* EAGAIN: poll instead
        /\ app' = [app EXCEPT !.pc = "polling"] /\ UNCHANGED chan
  /\ UNCHANGED <<load, st, traced, ctx, img, wk, status>>

(* The poll that follows EAGAIN returns when the channel is readable.      *)
Polled ==
  /\ app.pc = "polling" /\ chan.pollin /\ st[1] = "running"
  /\ app' = [app EXCEPT !.pc = "user"]
  /\ UNCHANGED <<load, st, traced, chan, ctx, img, wk, status>>

(* The stop's signal ends the sleep in Read, which restarts (ERESTARTSYS). *)
InterruptedNever == FALSE /\ UNCHANGED vars
Interrupted ==
  /\ app.pc = "asleep" /\ st[1] = "stopping"
  /\ app' = [app EXCEPT !.pc = "user"]
  /\ chan' = WakeApp(chan)
  /\ UNCHANGED <<load, st, traced, ctx, img, wk, status>>

(* The function's answer tells its request; "OK" is the one to Prepare.    *)
Answer(req) == [to |-> req]

(* FunctionChannel::Write by the application.                              *)
Write ==
  /\ app.pc = "work" /\ st[1] = "running"
  /\ IF ~chan.in_progress
     THEN Panic
     ELSE /\ chan' = [chan EXCEPT !.response = Answer(app.req), !.junction_waiter = None,
                                  !.timing = FALSE,
                                  !.latencies = @ + (IF chan.timing THEN 1 ELSE 0)]
          /\ app' = [app EXCEPT !.pc = "user", !.req = None]
          /\ UNCHANGED <<load, st, traced, ctx, img, wk, status>>

-----------------------------------------------------------------------------
(* Processes: stop, continue, exit. Every thread of a stopping process     *)
(* parks once it leaves the kernel.                                        *)
Stop(s) == CASE s = "running" -> "stopping" [] s = "new" -> "held" [] OTHER -> s
Continue(s) == CASE s \in {"stopping", "stopped"} -> "running" [] s = "held" -> "new" [] OTHER -> s
ThreadReady(s) == IF s = "held" THEN "stopping" ELSE "running"
Exists(p) == st[p] # "none"

FullStop(p) ==
  /\ st[p] = "stopping"
  /\ p = 1 => app.pc \in {"user", "work", "polling"}
  /\ st' = [st EXCEPT ![p] = "stopped"]
  /\ UNCHANGED <<load, traced, app, chan, ctx, img, wk, status>>

(* The last thread of an exited process is gone: init takes the runtime    *)
(* along, any other frees its pid.                                         *)
ProcessFinish(p) ==
  /\ st[p] = "exited"
  /\ st' = [st EXCEPT ![p] = "none"]
  /\ traced' = [traced EXCEPT ![p] = FALSE]
  /\ status' = IF p = 1 THEN "exit" ELSE status
  /\ UNCHANGED <<load, app, chan, ctx, img, wk>>

(* The main process raises SIGSTOP, once: JobControlStop(true) counts it.  *)
StopSelf ==
  /\ load.selfstop = "any" \/ (load.selfstop = "late" /\ \E w \in Workers : wk[w].pc = "nthwait")
  /\ st[1] = "running" /\ app.pc = "user" /\ app.stops = 0
  /\ st' = [st EXCEPT ![1] = "stopping"]
  /\ app' = [app EXCEPT !.stops = 1]
  /\ UNCHANGED <<load, traced, chan, ctx, img, wk, status>>

-----------------------------------------------------------------------------
(* ControlWorker: take the next request; at the end of them the peer hangs *)
(* up and the connection, if it is still the worker's, is closed.          *)
Close(x) == [x EXCEPT !.pc = "closed", !.conn = IF @ = "worker" THEN "closed" ELSE @]

Recv(w) ==
  /\ wk[w].pc = "recv"
  /\ LET x == wk[w] IN
     wk' = [wk EXCEPT ![w] =
       IF x.todo = <<>> THEN Close(x)
       ELSE [x EXCEPT !.cur = Head(x.todo), !.todo = Tail(@), !.pc = Head(x.todo).op, !.ok = TRUE,
                      !.ans = None, !.taken = @ + 1]]
  /\ UNCHANGED <<load, st, traced, app, chan, ctx, img, status>>

(* A reply, or a failed send, which ends the connection.                   *)
Replied(x) == [x EXCEPT !.pc = "recv", !.sent = Append(@, [to |-> x.cur, ok |-> x.ok, ans |-> x.ans])]
Reply(w) ==
  /\ wk[w].pc = "reply"
  /\ \/ wk' = [wk EXCEPT ![w] = Replied(@)]
     \/ Fails("send") /\ wk' = [wk EXCEPT ![w] = Close(@)]
  /\ UNCHANGED <<load, st, traced, app, chan, ctx, img, status>>

(* SendError, SendSuccess: set the outcome and go on to the reply.         *)
Outcome(w, ok) == wk' = [wk EXCEPT ![w].ok = ok, ![w].pc = "reply"]

(* HandleRun. The process exists from CreateFirstProcess on, answers with  *)
(* its pid, takes the connection over as its output, and only then runs.   *)
CreateProcess(w) ==
  /\ wk[w].pc = "run"
  /\ \/ /\ wk[w].cur.argc = 0 \/ Fails("create")
        /\ Outcome(w, FALSE) /\ UNCHANGED st
     \/ /\ wk[w].cur.argc > 0
        /\ st' = [st EXCEPT ![2] = "new"] /\ Goto(w, "respond")
  /\ UNCHANGED <<load, traced, app, chan, ctx, img, status>>

RunResponse(w) ==
  /\ wk[w].pc = "respond"
  /\ \/ wk' = [wk EXCEPT ![w] = [Replied(@) EXCEPT !.pc = "seize"]]
     \/ Fails("send") /\ wk' = [wk EXCEPT ![w] = Close(@)]
  /\ UNCHANGED <<load, st, traced, app, chan, ctx, img, status>>

SeizeConn(w) ==
  /\ wk[w].pc = "seize"
  /\ wk' = [wk EXCEPT ![w] = [Close([@ EXCEPT !.conn = "proc"]) EXCEPT !.todo = <<>>]]
  /\ st' = [st EXCEPT ![2] = ThreadReady(@)]
  /\ UNCHANGED <<load, traced, app, chan, ctx, img, status>>

-----------------------------------------------------------------------------
(* SnapshotPidToELF, SnapshotPidToJIF, and from "ctx" on TakeSnapshot.     *)
FindAndStop(w) ==
  /\ wk[w].pc = "snapshot"
  /\ IF Exists(wk[w].cur.pid)
     THEN st' = [st EXCEPT ![wk[w].cur.pid] = Stop(@)] /\ Goto(w, "waitstop")
     ELSE Outcome(w, FALSE) /\ UNCHANGED st
  /\ UNCHANGED <<load, traced, app, chan, ctx, img, status>>

WaitForFullStop(w) ==
  /\ wk[w].pc = "waitstop" /\ st[wk[w].cur.pid] \in {"stopped", "exited", "none"}
  /\ Goto(w, "ctx")
  /\ UNCHANGED <<load, st, traced, app, chan, ctx, img, status>>

StartSnapshotContext(w) ==
  /\ wk[w].pc = "ctx"
  /\ IF ctx
     THEN Panic
     ELSE ctx' = TRUE /\ Goto(w, "meta") /\ UNCHANGED <<load, st, traced, app, chan, img, status>>

(* The metadata: the process must be stopped, the channel idle. Of the     *)
(* channel only the latencies are saved. An ELF snapshot that cannot open  *)
(* its file leaves before the context's end is registered.                 *)
Savable(p) == st[p] = "stopped" /\ ~chan.in_progress
SnapshotMetadata(w) ==
  /\ wk[w].pc = "meta"
  /\ \/ /\ Fails("open")
        /\ ctx' = ~load.jif
        /\ wk' = [wk EXCEPT ![w].ok = FALSE, ![w].pc = "finally"]
        /\ UNCHANGED <<load, st, traced, app, chan, img, status>>
     \/ Savable(wk[w].cur.pid) /\ Goto(w, "mem") /\ UNCHANGED <<load, st, traced, app, chan, ctx, img, status>>
     \/ ~Savable(wk[w].cur.pid) /\ Panic

SnapshotMemory(w) ==
  /\ wk[w].pc = "mem"
  /\ ctx' = FALSE
  /\ \/ /\ img' = [app |-> app, latencies |-> chan.latencies, pid |-> wk[w].cur.pid]
        /\ Goto(w, "finally")
     \/ /\ Fails("write")
        /\ wk' = [wk EXCEPT ![w].ok = FALSE, ![w].pc = "finally"] /\ UNCHANGED img
  /\ UNCHANGED <<load, st, traced, app, chan, status>>

(* A control snapshot lets the process go on, or ends it; a driver exits   *)
(* when the snapshot failed or nothing is to be kept alive.                *)
Finally(w) ==
  /\ wk[w].pc = "finally"
  /\ LET p == wk[w].cur.pid
         driver == wk[w].cur.op # "snapshot" IN
     IF driver /\ (~wk[w].ok \/ (wk[w].cur.op = "warmup" /\ ~load.keep_alive))
     THEN status' = "exit" /\ UNCHANGED <<st, wk>>
     ELSE /\ st' = [st EXCEPT ![p] = IF ~driver /\ load.terminate THEN "exited" ELSE Continue(@)]
          /\ Goto(w, IF driver THEN "closed" ELSE "reply")
          /\ UNCHANGED status
  /\ UNCHANGED <<load, traced, app, chan, ctx, img>>

(* RestoreProcessFromELF/JIF, for a request or as JunctionMain starts: the *)
(* process comes back as init with its channel; RunThreads is the last     *)
(* step. SetInitProc asserts that there was no init.                       *)
Restore(w) ==
  LET starting == wk[w].cur.op = "restored" IN
  /\ wk[w].pc \in {"restore", "restored"}
  /\ \/ /\ Fails("open")
        /\ IF starting THEN status' = "exit" /\ UNCHANGED wk ELSE Outcome(w, FALSE) /\ UNCHANGED status
        /\ UNCHANGED <<load, st, traced, app, chan, ctx, img>>
     \/ /\ st[1] = "none"
        /\ st' = [st EXCEPT ![1] = "running"]
        /\ traced' = [traced EXCEPT ![1] = load.mem_trace]
        /\ app' = img.app
        /\ chan' = [NewChannel EXCEPT !.latencies = img.latencies]
        /\ Goto(w, CASE starting -> "call" [] wk[w].cur.arg = None -> "reply" [] OTHER -> "invoke")
        /\ UNCHANGED <<load, ctx, img, status>>
     \/ st[1] # "none" /\ Panic

(* InvokeChan and ChannelWorker: the request of a connection.              *)
Invoke(w) ==
  \/ wk[w].pc = "invoke" /\ Post(w, wk[w].cur.arg, "invoked")
  \/ wk[w].pc = "invoked" /\ TakeAnswer(w, "reply")

-----------------------------------------------------------------------------
(* HandleStartTrace, HandleStopTrace, HandleSignal, HandlePS.              *)
StartTrace(w) ==
  /\ wk[w].pc = "startTrace"
  /\ LET p == wk[w].cur.pid IN
     IF st[p] = "stopped"
     THEN traced' = [traced EXCEPT ![p] = TRUE] /\ Outcome(w, TRUE)
     ELSE Outcome(w, FALSE) /\ UNCHANGED traced
  /\ UNCHANGED <<load, st, app, chan, ctx, img, status>>

StopTrace(w) ==
  /\ wk[w].pc = "stopTrace"
  /\ LET p == wk[w].cur.pid IN
     IF st[p] \in {"stopping", "stopped"} /\ traced[p]
     THEN traced' = [traced EXCEPT ![p] = FALSE] /\ Outcome(w, TRUE)
     ELSE Outcome(w, FALSE) /\ UNCHANGED traced
  /\ UNCHANGED <<load, st, app, chan, ctx, img, status>>

SignalProcess(w) ==
  /\ wk[w].pc = "signal"
  /\ LET p == wk[w].cur.pid IN
     IF Exists(p)
     THEN st' = [st EXCEPT ![p] = IF wk[w].cur.sig = "SIGCONT" THEN Continue(@) ELSE Stop(@)] /\ Outcome(w, TRUE)
     ELSE Outcome(w, FALSE) /\ UNCHANGED st
  /\ UNCHANGED <<load, traced, app, chan, ctx, img, status>>

(* HandleGetStats and HandlePS, which change nothing; any other request    *)
(* closes the connection.                                                  *)
Report(w) ==
  /\ \/ wk[w].pc = "ps" /\ wk' = [wk EXCEPT ![w].ans = {p \in Pids : st[p] \notin {"none", "exited"}}, ![w].pc = "reply"]
     \/ wk[w].pc = "unknown" /\ wk' = [wk EXCEPT ![w] = Close(@)]
  /\ UNCHANGED <<load, st, traced, app, chan, ctx, img, status>>

-----------------------------------------------------------------------------
(* The drivers. WarmupAndSnapshot: requests, then SNAPSHOT_PREPARE, then   *)
(* stop and save. RunRestored: one request, then the trace's report.       *)
Warmup(w) ==
  LET n == wk[w].cur.requests IN
  \/ /\ wk[w].pc = "warmup"
     /\ IF n > 0 THEN Post(w, wk[w].cur.arg, "warming") ELSE Post(w, Prepare, "preparing")
  \/ /\ wk[w].pc = "warming" /\ Answered(w)
     /\ chan' = MarkEnd(chan)
     /\ wk' = [wk EXCEPT ![w].cur.requests = n - 1, ![w].pc = "warmup"]
     /\ UNCHANGED <<load, st, traced, app, ctx, img, status>>
  \/ /\ wk[w].pc = "preparing" /\ Answered(w)
     /\ IF chan.response # Answer(Prepare)
        THEN Panic
        ELSE /\ chan' = MarkEnd(chan)
             /\ st' = [st EXCEPT ![1] = Stop(@)]
             /\ Goto(w, "waitstop")
             /\ UNCHANGED <<load, traced, app, ctx, img, status>>

RunRestored(w) ==
  \/ wk[w].pc = "call" /\ Post(w, wk[w].cur.arg, "running")
  \/ /\ wk[w].pc = "running" /\ Answered(w)
     /\ chan' = MarkEnd(chan)
     /\ st' = [st EXCEPT ![1] = IF load.mem_trace THEN Stop(@) ELSE @]
     /\ Goto(w, "dump")
     /\ UNCHANGED <<load, traced, app, ctx, img, status>>
  \/ /\ wk[w].pc = "dump" /\ (load.mem_trace => st[1] \in {"stopped", "exited"})
     /\ IF load.mem_trace /\ (st[1] = "exited" \/ ~traced[1]) THEN Panic
        ELSE /\ status' = IF load.keep_alive THEN status ELSE "exit"
             /\ Goto(w, "closed")
             /\ UNCHANGED <<load, st, traced, app, chan, ctx, img>>

(* The driver of --snapshot-on-stop. WaitForNthStop returns at once when   *)
(* the stop has been counted, else it sleeps until every thread is parked. *)
WaitForNthStop(w) ==
  /\ \/ wk[w].pc = "onstop" /\ Goto(w, IF app.stops > 0 THEN "ctx" ELSE "nthwait")
     \/ wk[w].pc = "nthwait" /\ app.stops > 0 /\ st[1] # "stopping" /\ Goto(w, "ctx")
  /\ UNCHANGED <<load, st, traced, app, chan, ctx, img, status>>

-----------------------------------------------------------------------------
Serve(w) ==
  \/ Recv(w) \/ Reply(w) \/ CreateProcess(w) \/ RunResponse(w) \/ SeizeConn(w)
  \/ FindAndStop(w) \/ WaitForFullStop(w) \/ StartSnapshotContext(w) \/ SnapshotMetadata(w)
  \/ SnapshotMemory(w) \/ Finally(w) \/ Restore(w) \/ Invoke(w)
  \/ StartTrace(w) \/ StopTrace(w) \/ SignalProcess(w) \/ Report(w)
  \/ Warmup(w) \/ RunRestored(w) \/ WaitForNthStop(w)

RunApp == Read \/ Polled \/ Interrupted \/ Write

Next ==
  /\ status = "up"
  /\ (\E w \in Workers : Serve(w)) \/ RunApp \/ StopSelf \/ (\E p \in Pids : FullStop(p) \/ ProcessFinish(p))

Up(A) == status = "up" /\ A
(* The runtime schedules every ready thread and delivers a stop's signals; *)
(* nothing says that the application ever stops itself.                    *)
Spec ==
  /\ Init /\ [][Next]_vars
  /\ \A w \in Workers : WF_vars(Up(Serve(w)))
  /\ WF_vars(Up(RunApp))
  /\ \A p \in Pids : WF_vars(Up(FullStop(p)))

-----------------------------------------------------------------------------
TypeOK ==
  /\ st \in [Pids -> {"none", "new", "held", "running", "stopping", "stopped", "exited"}]
  /\ traced \in [Pids -> BOOLEAN] /\ ctx \in BOOLEAN /\ status \in {"up", "exit", "panic"}
  /\ app.pc \in {"user", "woken", "asleep", "polling", "work"} /\ (app.pc = "work" <=> app.req # None)
  /\ \A w \in Workers : wk[w].conn \in {"worker", "proc", "closed"} /\ Len(wk[w].sent) <= wk[w].taken

(* No BUG_ON, assertion or exception of the control plane is ever reached: *)
(* a request finds the channel idle, the application answers only a        *)
(* request in progress, a snapshot starts without another's context, and   *)
(* finds every thread parked and no request half way (MarkStart, Write,    *)
(* StartSnapshotContext, Process::save, FunctionInode::save).              *)
NoPanic == status # "panic"

(* Nobody sleeps on an event that has happened: a reader asleep in Read    *)
(* has no request, a poller sees the channel readable when there is one,   *)
(* and a client asleep in DoRequest has no answer yet.                     *)
ChannelWakes ==
  /\ app.pc = "asleep" => chan.app_waiter /\ chan.request = None
  /\ chan.pollin <=> chan.request # None
  /\ \A w \in Workers :
       wk[w].pc \in {"invoked", "warming", "preparing", "running"} =>
         chan.in_progress /\ (chan.junction_waiter = w <=> chan.response = None)

(* Every request read from a connection is answered exactly once before    *)
(* the next is read, an invocation with the function's answer to its own   *)
(* argument; and no image is of a function in the middle of a request.     *)
OneAnswer ==
  /\ \A w \in Workers :
       /\ wk[w].pc = "recv" => Len(wk[w].sent) = wk[w].taken
       /\ \A i \in 1..Len(wk[w].sent) :
            LET r == wk[w].sent[i] IN
            r.ok /\ "arg" \in DOMAIN r.to /\ r.to.arg # None => r.ans = Answer(r.to.arg)
  /\ img # None => img.app.req = None

(* A process created by a run request has its output connected before it   *)
(* runs, and from then on the worker has given the connection up.          *)
OutputReady ==
  st[2] \notin {"none", "new", "held"} => \E w \in Workers : wk[w].conn = "proc" /\ wk[w].pc = "closed"

(* A control request, an invocation and a driver's snapshot all end, with  *)
(* an answer or with the connection or the runtime gone.                   *)
AllEnded == status = "up" => \A w \in Workers : wk[w].pc \in {"recv", "closed", "nthwait"}
==============================================================================
