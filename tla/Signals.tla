------------------------------- MODULE Signals -------------------------------
(* Signals of a Junction process: the queues of pending signals, the masks of *)
(* its threads, the notification protocol (notified_, SendIpi, the interrupt  *)
(* state of the Caladan thread), delivery with its frames, sigreturn and the  *)
(* system calls that change the mask while they sleep.  Job control and the   *)
(* exit of a process are those of Process.                                    *)
EXTENDS Integers, Sequences, FiniteSets, SequencesExt, FiniteSetsExt

CONSTANTS
  Threads,              \* the threads of the process
  Sigs,                 \* signal numbers, with SIGKILL among them
  SIGKILL,
  kNumStandardSignals,  \* smaller numbers are queued at most once
  kMaxQueuedRT,         \* limit of a queue
  kSignalIgnoreMask,    \* ignored by default; the others terminate
  Workloads,            \* what the program may do: see Init
  MaxFrames,            \* bound of nested handlers
  NoCall, NoMask, NoSig

ASSUME SignalsAssumption == SIGKILL \in Sigs /\ Sigs \subseteq Nat

VARIABLES
  load, sends, calls,
  shared_q_, sig_q_,      \* SignalQueue of the process, and of each thread
  blocked_, saved_blocked_, notified_,
  interrupted,            \* the Caladan thread's interrupt state is set
  notify,                 \* <<thread, signo>>: SharedSignalNotifyCheck to come
  ipi,                    \* threads with a SendIpi on its way
  table_,                 \* SignalTable
  sigaltstack_, frames,   \* frames pushed on the user's stack
  pc, call, rax, taken,
  exited_,
  want                    \* the context each program gave its thread

sigvars == <<shared_q_, sig_q_, notify, ipi>>
maskvars == <<blocked_, saved_blocked_, notified_, interrupted>>
thvars == <<sigaltstack_, frames, pc, call, rax, taken>>
vars == <<load, sends, calls, sigvars, maskvars, thvars, table_, exited_, want>>

kSignalKernelOnlyMask == {SIGKILL}
Queue == [pending_q_ : Seq(Sigs), pending_ : SUBSET Sigs]
EmptyQueue == [pending_q_ |-> <<>>, pending_ |-> {}]

-----------------------------------------------------------------------------
(* SignalQueue *)

(* a standard signal is dropped while one is pending, a real-time one at the
   limit                                                                      *)
Enqueue(Q, s) ==
  IF IF s < kNumStandardSignals THEN s \in Q.pending_ ELSE Len(Q.pending_q_) >= kMaxQueuedRT
  THEN Q
  ELSE [pending_q_ |-> Append(Q.pending_q_, s), pending_ |-> Q.pending_ \cup {s}]

Ready(Q, mask) == Q.pending_ \ mask

(* the lowest unblocked number, oldest instance first; its bit goes with the
   last instance                                                              *)
Pop(Q, mask) ==
  LET s == Min(Ready(Q, mask))
      at == {j \in DOMAIN Q.pending_q_ : Q.pending_q_[j] = s}
      last == s < kNumStandardSignals \/ Cardinality(at) = 1
  IN [signo |-> s,
      q |-> [pending_q_ |-> RemoveAt(Q.pending_q_, Min(at)),
             pending_ |-> IF last THEN Q.pending_ \ {s} ELSE Q.pending_]]

-----------------------------------------------------------------------------
(* Masks and notification *)

AnyPending(t) == sig_q_[t].pending_ \cup shared_q_.pending_

(* the mask becomes m; a signal that m lets through is noted                  *)
SetMaskSilently(t, m) ==
  /\ blocked_' = [blocked_ EXCEPT ![t] = m]
  /\ UNCHANGED <<notified_, interrupted>>

SetMask(t, m) ==
  LET ready == AnyPending(t) \ m # {}
  IN /\ blocked_' = [blocked_ EXCEPT ![t] = m]
     /\ notified_' = [notified_ EXCEPT ![t] = @ \/ ready]
     /\ interrupted' = [interrupted EXCEPT ![t] = @ \/ ready]

ReplaceMask(t, m) ==
  IF m \ kSignalKernelOnlyMask = blocked_[t]
  THEN UNCHANGED <<blocked_, notified_, interrupted>>
  ELSE SetMask(t, m \ kSignalKernelOnlyMask)

ReplaceAndSaveBlocked(t, m) ==
  IF blocked_[t] = m
  THEN UNCHANGED maskvars
  ELSE /\ saved_blocked_' = [saved_blocked_ EXCEPT ![t] = blocked_[t]]
       /\ ReplaceMask(t, m)

(* the guard of a masking call ends: an interrupted thread keeps the mask for
   the delivery to come                                                       *)
RestoreBlocked(t) ==
  IF saved_blocked_[t] = NoMask \/ interrupted[t]
  THEN UNCHANGED maskvars
  ELSE /\ saved_blocked_' = [saved_blocked_ EXCEPT ![t] = NoMask]
       /\ IF saved_blocked_[t] = blocked_[t]
          THEN UNCHANGED <<blocked_, notified_, interrupted>>
          ELSE SetMask(t, saved_blocked_[t])

(* ResetInterruptState, then the mask the system call stashed                 *)
ResetAndRestore(t) ==
  LET m == IF saved_blocked_[t] = NoMask THEN blocked_[t] ELSE saved_blocked_[t]
      ready == saved_blocked_[t] # NoMask /\ AnyPending(t) \ m # {}
  IN /\ blocked_' = [blocked_ EXCEPT ![t] = m]
     /\ saved_blocked_' = [saved_blocked_ EXCEPT ![t] = NoMask]
     /\ notified_' = [notified_ EXCEPT ![t] = ready]
     /\ interrupted' = [interrupted EXCEPT ![t] = ready]

(* the next signal outside mask goes to taken, or none is left                *)
PopSigInfo(t, mask) ==
  IF Ready(sig_q_[t], mask) # {}
  THEN LET p == Pop(sig_q_[t], mask)
       IN /\ sig_q_' = [sig_q_ EXCEPT ![t] = p.q]
          /\ taken' = [taken EXCEPT ![t] = p.signo]
          /\ UNCHANGED <<shared_q_, maskvars>>
  ELSE IF Ready(shared_q_, mask) # {}
  THEN LET p == Pop(shared_q_, mask)
       IN /\ shared_q_' = p.q
          /\ taken' = [taken EXCEPT ![t] = p.signo]
          /\ UNCHANGED <<sig_q_, maskvars>>
  ELSE /\ taken' = [taken EXCEPT ![t] = NoSig]
       /\ ResetAndRestore(t)
       /\ UNCHANGED <<sig_q_, shared_q_>>

-----------------------------------------------------------------------------
(* Senders *)

MaySend == sends < load.sends /\ sends' = sends + 1 /\ ~exited_

(* EnqueueSignal for the threads in T: those to interrupt are added to ipi    *)
EnqueueSignal(T, s) ==
  LET new == {t \in T : Enqueue(sig_q_[t], s) # sig_q_[t] /\ s \notin blocked_[t] /\ ~notified_[t]}
  IN /\ sig_q_' = [t \in Threads |-> IF t \in T THEN Enqueue(sig_q_[t], s) ELSE sig_q_[t]]
     /\ notified_' = [t \in Threads |-> notified_[t] \/ t \in new]
     /\ ipi' = ipi \cup new

Alive == {t \in Threads : pc[t] # "dead"}

(* tgkill, rt_tgsigqueueinfo                                                  *)
SignalThread(t, s) ==
  /\ MaySend /\ t \in Alive /\ s \in load.thread
  /\ EnqueueSignal({t}, s)
  /\ UNCHANGED <<load, calls, shared_q_, notify, blocked_, saved_blocked_, interrupted, thvars,
                 table_, exited_, want>>

(* kill: the queue first, then (SIGKILL always, the others when queued) each
   thread is asked                                                            *)
Signal(s) ==
  /\ MaySend /\ s \in load.process
  /\ shared_q_' = Enqueue(shared_q_, s)
  /\ notify' = notify \cup
       (IF s = SIGKILL \/ shared_q_' # shared_q_ THEN Alive \X {s} ELSE {})
  /\ UNCHANGED <<load, calls, sig_q_, ipi, maskvars, thvars, table_, exited_, want>>

SharedSignalNotifyCheck(t, s) ==
  /\ <<t, s>> \in notify
  /\ notify' = notify \ {<<t, s>>}
  /\ IF s \notin blocked_[t] /\ ~notified_[t]
     THEN notified_' = [notified_ EXCEPT ![t] = TRUE] /\ ipi' = ipi \cup {t}
     ELSE UNCHANGED <<notified_, ipi>>
  /\ UNCHANGED <<load, sends, calls, shared_q_, sig_q_, blocked_, saved_blocked_, interrupted,
                 thvars, table_, exited_, want>>

Kick(t) == pc' = IF pc[t] = "user" THEN [pc EXCEPT ![t] = "deliver"] ELSE pc

SendIpi(t) ==
  /\ t \in ipi
  /\ ipi' = ipi \ {t}
  /\ interrupted' = [interrupted EXCEPT ![t] = TRUE]
  /\ Kick(t)
  /\ UNCHANGED <<load, sends, calls, shared_q_, sig_q_, notify, blocked_, saved_blocked_,
                 notified_, sigaltstack_, frames, call, rax, taken, table_, exited_, want>>

-----------------------------------------------------------------------------
(* System calls *)

Goto(t, l) == pc' = [pc EXCEPT ![t] = l]
InUser(t) == pc[t] = "user"

SigProcMask(t, m) ==
  /\ InUser(t) /\ frames[t] = <<>> /\ calls < load.maxcalls /\ t \in load.callers /\ m \in load.masks
  /\ ReplaceMask(t, m)
  /\ want' = [want EXCEPT ![t].mask = m \ kSignalKernelOnlyMask]
  /\ calls' = calls + 1
  /\ Goto(t, "sysret")
  /\ UNCHANGED <<load, sends, sigvars, saved_blocked_, sigaltstack_, frames, call, rax, taken,
                 table_, exited_>>

SigAltStack(t, ss) ==
  /\ InUser(t) /\ frames[t] = <<>> /\ calls < load.maxcalls /\ t \in load.callers /\ ss \in load.stacks
  /\ sigaltstack_' = [sigaltstack_ EXCEPT ![t] = ss]
  /\ want' = [want EXCEPT ![t].ss = ss]
  /\ calls' = calls + 1
  /\ Goto(t, "sysret")
  /\ UNCHANGED <<load, sends, sigvars, maskvars, frames, call, rax, taken, table_, exited_>>

SigAction(t, s, act) ==
  /\ InUser(t) /\ calls < load.maxcalls /\ t \in load.callers /\ <<s, act>> \in load.actions
  /\ s \notin kSignalKernelOnlyMask
  /\ table_' = [table_ EXCEPT ![s] = act]
  /\ calls' = calls + 1
  /\ Goto(t, "sysret")
  /\ UNCHANGED <<load, sends, sigvars, maskvars, sigaltstack_, frames, call, rax, taken, exited_, want>>

(* the call's first part, up to where it sleeps                               *)
Start(t, c) ==
  /\ \/ /\ c.kind \in {"sigsuspend", "ppoll"}
        /\ ReplaceAndSaveBlocked(t, c.set)
     \/ /\ c.kind \in {"pause", "read"}
        /\ UNCHANGED maskvars
     \/ /\ c.kind = "sigtimedwait"
        /\ ReplaceMask(t, blocked_[t] \ c.set)
        /\ UNCHANGED saved_blocked_
  /\ call' = [call EXCEPT ![t] = [kind |-> c.kind, set |-> c.set, oset |-> blocked_[t]]]
  /\ Goto(t, "sleep")
  /\ UNCHANGED <<load, sends, sigvars, sigaltstack_, frames, rax, taken, table_, exited_, want>>

(* sigtimedwait is defined for signals the caller has blocked                 *)
Enter(t, c) ==
  /\ InUser(t) /\ calls < load.maxcalls /\ t \in load.callers /\ c \in load.calls
  /\ c.kind = "sigtimedwait" => c.set \subseteq blocked_[t]
  /\ calls' = calls + 1
  /\ Start(t, c)

Restart(t) ==
  /\ pc[t] = "restart"
  /\ Start(t, call[t])
  /\ UNCHANGED calls

Return(t, r) ==
  /\ rax' = [rax EXCEPT ![t] = r]
  /\ call' = IF r = "done" THEN [call EXCEPT ![t] = NoCall] ELSE call
  /\ Goto(t, "sysret")
  /\ UNCHANGED <<load, sends, calls, notify, ipi, sigaltstack_, frames, table_, exited_, want>>


FinishSuspend(t) ==
  /\ pc[t] = "sleep" /\ call[t].kind \in {"sigsuspend", "pause"} /\ interrupted[t]
  /\ Return(t, "ERESTARTNOHAND")
  /\ UNCHANGED <<shared_q_, sig_q_, maskvars, taken>>

(* any other interruptible wait: the event or an interrupt                    *)
FinishRead(t) ==
  /\ pc[t] = "sleep" /\ call[t].kind = "read"
  /\ \/ Return(t, "done")
     \/ interrupted[t] /\ Return(t, "ERESTARTSYS")
  /\ UNCHANGED <<shared_q_, sig_q_, maskvars, taken>>

(* ppoll, epoll_pwait, pselect: ~SigMaskGuard on the way out                  *)
FinishPoll(t) ==
  /\ pc[t] = "sleep" /\ call[t].kind = "ppoll"
  /\ RestoreBlocked(t)
  /\ Return(t, "done")
  /\ UNCHANGED <<shared_q_, sig_q_, taken>>

(* rt_sigtimedwait: woken, timed out or a signal was ready                    *)
FinishTimedWait(t) ==
  /\ pc[t] = "sleep" /\ call[t].kind = "sigtimedwait"
  /\ PopSigInfo(t, Sigs \ call[t].set)
  /\ Goto(t, "timedwait")
  /\ UNCHANGED <<load, sends, calls, notify, ipi, sigaltstack_, frames, call, rax, table_, exited_, want>>

RestoreTimedWait(t) ==
  /\ pc[t] = "timedwait"
  /\ ReplaceMask(t, call[t].oset)
  /\ taken' = [taken EXCEPT ![t] = NoSig]
  /\ Return(t, "done")
  /\ UNCHANGED <<shared_q_, sig_q_, saved_blocked_>>

-----------------------------------------------------------------------------
(* Delivery *)

(* the return to user code looks at the interrupt state, again after each
   delivery                                                                   *)
Sysret(t) ==
  /\ pc[t] = "sysret"
  /\ Goto(t, IF interrupted[t] THEN "deliver"
             ELSE IF call[t] # NoCall THEN "restart" ELSE "user")
  /\ UNCHANGED <<load, sends, calls, sigvars, maskvars, sigaltstack_, frames, call, rax, taken,
                 table_, exited_, want>>

(* user code is preempted: it resumes through the same check                  *)
Preempt(t) ==
  /\ InUser(t)
  /\ Goto(t, "sysret")
  /\ UNCHANGED <<load, sends, calls, sigvars, maskvars, sigaltstack_, frames, call, rax, taken,
                 table_, exited_, want>>

(* DeliverSignals and ApplyAllSignals: without a signal the system call is
   restarted or returns                                                       *)
GetNextSignal(t) ==
  /\ pc[t] = "deliver"
  /\ PopSigInfo(t, blocked_[t])
  /\ Goto(t, IF taken'[t] # NoSig THEN "action" ELSE "sysret")
  /\ rax' = IF taken'[t] # NoSig THEN rax ELSE [rax EXCEPT ![t] = "done"]
  /\ UNCHANGED <<load, sends, calls, notify, ipi, sigaltstack_, frames, call, table_, exited_, want>>

IsOneShot(act) == act.oneshot
DefaultAction == [handler |-> "dfl", oneshot |-> FALSE, nodefer |-> FALSE, restart |-> FALSE, mask |-> {}]
SigKillAction == [handler |-> "kill", oneshot |-> FALSE, nodefer |-> TRUE, restart |-> TRUE, mask |-> Sigs]

(* GetAction: the action for s, and what becomes of the table                 *)
ParseAction(act, s) ==
  IF act.handler = "dfl" THEN IF s \in kSignalIgnoreMask THEN "ignore" ELSE "terminate"
  ELSE IF act.handler = "ign" THEN "ignore" ELSE "normal"

GetAction(s) ==
  table_' = IF IsOneShot(table_[s]) THEN [table_ EXCEPT ![s] = DefaultAction] ELSE table_

(* what the interrupted context does after the handler                        *)
AfterHandler(t, act) ==
  IF rax[t] = "done" \/ (rax[t] = "ERESTARTSYS" /\ act.restart) THEN call[t] ELSE NoCall

DisarmedStack(t) == IF sigaltstack_[t] = "autodisarm" THEN "disabled" ELSE sigaltstack_[t]

GetSigframeCurrentMask(t) == blocked_[t]
GetSigframeRestoreMask(t) == IF saved_blocked_[t] # NoMask THEN saved_blocked_[t] ELSE blocked_[t]

ToBlock(act, s) == act.mask \cup (IF act.nodefer THEN {} ELSE {s})

(* what PushUserSigFrame leaves on the user's stack                           *)
SigFrame(t, s, act) ==
  [sig |-> s, act |-> act, mask |-> GetSigframeRestoreMask(t), ss |-> sigaltstack_[t],
   sync |-> FALSE, resume |-> AfterHandler(t, act)]

Die(t) ==
  /\ Goto(t, "dead")
  /\ taken' = [taken EXCEPT ![t] = NoSig]

(* the rest of GetNextSignal for the signal taken; its frame is pushed        *)
DeliverSignal(t) ==
  LET s == taken[t]
      kind == ParseAction(table_[s], s)
      act == IF kind = "normal" THEN table_[s] ELSE SigKillAction
  IN /\ pc[t] = "action"
     /\ GetAction(s)
     /\ \/ /\ kind = "ignore"
           /\ Goto(t, "deliver")
           /\ taken' = [taken EXCEPT ![t] = NoSig]
           /\ UNCHANGED <<maskvars, sigaltstack_, frames, call, rax>>
        \/ /\ kind # "ignore" /\ exited_
           /\ Die(t)
           /\ UNCHANGED <<maskvars, sigaltstack_, frames, call, rax>>
        \/ /\ kind # "ignore" /\ ~exited_ /\ Len(frames[t]) < MaxFrames
           /\ frames' = [frames EXCEPT ![t] = Append(@, SigFrame(t, s, act))]
           /\ sigaltstack_' = [sigaltstack_ EXCEPT ![t] = DisarmedStack(t)]
           /\ saved_blocked_' = [saved_blocked_ EXCEPT ![t] = NoMask]
           /\ ReplaceMask(t, ToBlock(act, s))
           /\ call' = [call EXCEPT ![t] = NoCall]
           /\ rax' = [rax EXCEPT ![t] = "done"]
           /\ taken' = [taken EXCEPT ![t] = NoSig]
           /\ Goto(t, "deliver")
     /\ UNCHANGED <<load, sends, calls, sigvars, exited_, want>>

(* a fault the memory map resolves: the frame is unwound like a system call   *)
HandlePageFault(t) ==
  /\ InUser(t) /\ t \in load.callers /\ load.faults # {}
  /\ Goto(t, "sysret")
  /\ UNCHANGED <<load, sends, calls, sigvars, maskvars, sigaltstack_, frames, call, rax, taken,
                 table_, exited_, want>>

(* a fault of user code: its handler, or the end of the process               *)
DeliverKernelSigToUser(t, s) ==
  LET act == table_[s]
      frame == [sig |-> s, mask |-> blocked_[t], ss |-> sigaltstack_[t], act |-> act,
                sync |-> TRUE, resume |-> NoCall]
  IN /\ InUser(t) /\ t \in load.callers /\ s \in load.faults /\ Len(frames[t]) < MaxFrames
     /\ IF s \in blocked_[t] THEN UNCHANGED table_ ELSE GetAction(s)
     /\ IF s \in blocked_[t] \/ ParseAction(act, s) # "normal"
        THEN /\ Goto(t, "exit")
             /\ UNCHANGED <<blocked_, notified_, interrupted, sigaltstack_, frames>>
        ELSE /\ frames' = [frames EXCEPT ![t] = Append(@, frame)]
             /\ sigaltstack_' = [sigaltstack_ EXCEPT ![t] = DisarmedStack(t)]
             /\ ReplaceMask(t, blocked_[t] \cup act.mask)
             /\ Goto(t, "sysret")
     /\ UNCHANGED <<load, sends, calls, sigvars, saved_blocked_, call, rax, taken, exited_, want>>

(* rt_sigreturn restores mask, alternate stack and context of the frame       *)
Sigreturn(t) ==
  /\ InUser(t) /\ frames[t] # <<>> /\ Last(frames[t]).act.handler = "fn"
  /\ ReplaceMask(t, Last(frames[t]).mask)
  /\ sigaltstack_' = [sigaltstack_ EXCEPT ![t] = Last(frames[t]).ss]
  /\ call' = [call EXCEPT ![t] = Last(frames[t]).resume]
  /\ frames' = [frames EXCEPT ![t] = Front(@)]
  /\ Goto(t, "sysret")
  /\ UNCHANGED <<load, sends, calls, sigvars, saved_blocked_, rax, taken, table_, exited_, want>>

(* SigKillHandler calls exit_group, as SynchronousKill does: the other
   threads are killed                                                         *)
SigKillHandler(t) ==
  /\ InUser(t) /\ frames[t] # <<>> /\ Last(frames[t]).act.handler = "kill"
  /\ Goto(t, "exit")
  /\ UNCHANGED <<load, sends, calls, sigvars, maskvars, sigaltstack_, frames, call, rax, taken,
                 table_, exited_, want>>

ExitGroup(t) ==
  /\ pc[t] = "exit"
  /\ exited_' = TRUE
  /\ Goto(t, "dead")
  /\ IF exited_
     THEN UNCHANGED <<sig_q_, notified_, ipi>>
     ELSE EnqueueSignal(Alive \ {t}, SIGKILL)
  /\ UNCHANGED <<load, sends, calls, shared_q_, notify, blocked_, saved_blocked_, interrupted,
                 sigaltstack_, frames, call, rax, taken, table_, want>>

-----------------------------------------------------------------------------
Kernel(t) ==
  \/ Restart(t) \/ FinishSuspend(t) \/ FinishRead(t) \/ FinishPoll(t) \/ FinishTimedWait(t)
  \/ RestoreTimedWait(t) \/ Sysret(t) \/ GetNextSignal(t) \/ DeliverSignal(t)
  \/ SigKillHandler(t) \/ ExitGroup(t)

Program(t) ==
  \/ \E m \in load.masks : SigProcMask(t, m)
  \/ \E ss \in load.stacks : SigAltStack(t, ss)
  \/ \E a \in load.actions : SigAction(t, a[1], a[2])
  \/ \E c \in load.calls : Enter(t, c)
  \/ \E s \in load.faults : DeliverKernelSigToUser(t, s)
  \/ HandlePageFault(t) \/ Preempt(t)
  \/ Sigreturn(t)

Next ==
  \/ \E t \in Threads : Kernel(t) \/ Program(t) \/ SendIpi(t)
  \/ \E t \in Threads, s \in load.thread : SignalThread(t, s)
  \/ \E s \in load.process : Signal(s)
  \/ \E t \in Threads, s \in Sigs : SharedSignalNotifyCheck(t, s)

Init ==
  /\ load \in Workloads
  /\ sends = 0 /\ calls = 0
  /\ shared_q_ = EmptyQueue /\ sig_q_ = [t \in Threads |-> EmptyQueue]
  /\ blocked_ = [t \in Threads |-> load.init]
  /\ saved_blocked_ = [t \in Threads |-> NoMask]
  /\ notified_ = [t \in Threads |-> FALSE] /\ interrupted = [t \in Threads |-> FALSE]
  /\ notify = {} /\ ipi = {}
  /\ table_ = load.table
  /\ sigaltstack_ = [t \in Threads |-> "disabled"] /\ frames = [t \in Threads |-> <<>>]
  /\ pc = [t \in Threads |-> "user"] /\ call = [t \in Threads |-> NoCall]
  /\ rax = [t \in Threads |-> "done"] /\ taken = [t \in Threads |-> NoSig]
  /\ exited_ = FALSE
  /\ want = [t \in Threads |-> [mask |-> load.init, ss |-> "disabled"]]

(* the runtime schedules every thread, sends the interrupts it was asked for,
   and a killer goes on through the threads of the process                    *)
Fairness ==
  /\ \A t \in Threads : WF_vars(Kernel(t)) /\ WF_vars(SendIpi(t))
  /\ WF_vars(\E t \in Threads, s \in Sigs : SharedSignalNotifyCheck(t, s))

Spec == Init /\ [][Next]_vars /\ Fairness

-----------------------------------------------------------------------------
(* Types; SIGKILL is never blocked.                                           *)
TypeOK ==
  /\ shared_q_ \in Queue /\ sig_q_ \in [Threads -> Queue]
  /\ blocked_ \in [Threads -> SUBSET (Sigs \ {SIGKILL})]
  /\ \A t \in Threads : saved_blocked_[t] = NoMask \/ saved_blocked_[t] \subseteq Sigs
  /\ notified_ \in [Threads -> BOOLEAN] /\ interrupted \in [Threads -> BOOLEAN]
  /\ notify \subseteq Threads \X Sigs /\ ipi \subseteq Threads
  /\ \A t \in Threads : pc[t] \in {"user", "sleep", "timedwait", "sysret", "restart", "deliver",
                                   "action", "exit", "dead"}

(* A signal a thread may take is never forgotten: while one is pending in its
   own queue or the process's, the thread is notified, is about to be asked, or
   is on its way through code that looks at the queues or sets the flag again.
   Senders, mask changes and PopSigInfo's reset race for notified_.           *)
NoLostSignal ==
  \A t \in Alive : \A s \in AnyPending(t) \ blocked_[t] :
    \/ interrupted[t] \/ t \in ipi
    \/ s \in shared_q_.pending_ /\ <<t, s>> \in notify
    \/ pc[t] \in {"deliver", "action", "timedwait", "exit"}

(* The pending bits say exactly what is queued, a standard signal is queued at
   most once, and a queue stays within its limit: Pop finds what a bit
   announces.                                                                 *)
QueueIsExact ==
  \A Q \in {shared_q_} \cup Range(sig_q_) :
    /\ Q.pending_ = Range(Q.pending_q_)
    /\ \A s \in Q.pending_ : s < kNumStandardSignals =>
         Cardinality({i \in DOMAIN Q.pending_q_ : Q.pending_q_[i] = s}) = 1

(* Whatever was delivered while it ran, the context a program set up comes
   back: the mask and alternate stack below every handler are the program's
   own, also those of a call that replaced the mask while it slept; no mask
   stays saved once the program runs again.                                   *)
ContextRestored ==
  \A t \in Alive :
    LET base == IF frames[t] # <<>> THEN Head(frames[t]).mask
                ELSE IF saved_blocked_[t] # NoMask THEN saved_blocked_[t]
                ELSE IF call[t] # NoCall /\ call[t].kind = "sigtimedwait" /\ pc[t] \in {"sleep", "timedwait"}
                THEN call[t].oset ELSE blocked_[t]
        ss == IF frames[t] # <<>> THEN Head(frames[t]).ss ELSE sigaltstack_[t]
    IN /\ base = want[t].mask /\ ss = want[t].ss
       /\ pc[t] \in {"user", "restart"} => saved_blocked_[t] = NoMask

(* A handler starts with its signals masked: those of its sa_mask and, but for
   SA_NODEFER and faults, its own.                                            *)
HandlerMasked ==
  \A t \in Alive : pc[t] = "user" /\ frames[t] # <<>> =>
    LET f == Last(frames[t])
    IN (f.act.mask \cup (IF f.act.nodefer \/ f.sync THEN {} ELSE {f.sig})) \ {SIGKILL} \subseteq blocked_[t]

(* sigsuspend and pause end only by running a handler: a late interrupt or an
   ignored signal restarts them.                                              *)
SuspendNeedsHandler ==
  \A t \in Threads :
    call[t] # NoCall /\ call[t].kind \in {"sigsuspend", "pause"} /\ call'[t] = NoCall
      => Len(frames'[t]) > Len(frames[t])

(* Every thread has taken the signals it does not block or has ended (or is at
   the model's bound of nested handlers).                                     *)
AllTaken ==
  \A t \in Threads : AnyPending(t) \subseteq blocked_[t] \/ pc[t] = "dead" \/ Len(frames[t]) = MaxFrames
=============================================================================
