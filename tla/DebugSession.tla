---------------------------- MODULE DebugSession ----------------------------
(***************************************************************************)
(* One slot of SESSION_POOL and everybody who touches it: the gdb worker   *)
(* (event_loop.rs, target.rs, multi_thread.rs), the exception handlers     *)
(* that run in the debugged threads, and the process-kill callback         *)
(* (handlers.rs, sessions.rs).  They share the slot without a common lock; *)
(* every access another actor can observe is a step of its own.            *)
(*                                                                         *)
(* Breakpoint slots are left to SwBreakpoints, the bytes of a packet to    *)
(* TcpConn: here a packet is read in one step, and wakes the worker.       *)
(* Suspending or resuming a process takes effect at once, and fails only   *)
(* when the process is dead.                                               *)
(***************************************************************************)
EXTENDS Naturals, FiniteSets

CONSTANTS Pids, Threads,
          Owner,     \* the process of each thread
          NoPid,     \* PID_UNUSED
          RingCap,   \* the CAP of the `exceptions` ring
          MaxConns,  \* bound on the connections made one after another
          MaxKills   \* bound on the processes that die

ASSUME OwnerAssumption == Owner \in [Threads -> Pids]
ASSUME NoPidAssumption == NoPid \notin Pids
ASSUME RingCapAssumption == RingCap \in Nat \ {0, 1}
ASSUME BoundsAssumption == MaxConns \in Nat /\ MaxKills \in Nat

VARIABLES
  \* GdbSessionInner; evflag names the connection it belongs to, 0 is None
  pid, evflag, step, stepResult, exited, head, tail,
  \* the worker: where it is, where detach() returns to, the pid to attach,
  \* VitaTarget::detached and step_action, threads still to be resumed
  wpc, ret, newPid, detached, stepAction, todo,
  \* its connection, EV_WAKE_WORKER in its flag, unread input
  conn, flag, inbox,
  \* the kernel: suspended processes and threads, dead processes
  susp, tsusp, dead,
  \* per thread: where its exception handler is, its locals head and evflag
  hpc, hhead, hev,
  \* per process: where the kill callback is, its local evflag
  kpc, kev,
  \* history: two pushes overlapped; an event was stored on behalf of a
  \* connection that has ended; a handler halted a process that was being let go
  raced, late, orphaned

slot    == <<pid, evflag, step, stepResult, exited, head, tail>>
target  == <<ret, newPid, detached, stepAction, todo>>
link    == <<conn, flag, inbox>>
kernel  == <<susp, tsusp, dead>>
handler == <<hpc, hhead, hev>>
killer  == <<kpc, kev>>
history == <<raced, late, orphaned>>
vars == <<slot, wpc, target, link, kernel, handler, killer, history>>

Running == {"run_exited", "run_step", "run_excp", "run_read",
            "run_wait"}
Idle == {"idle_exited", "idle_read", "idle_wait", "packet"}
Resetting == {"reset_flag", "reset_evflag", "reset_step", "reset_exited",
              "reset_ring", "reset_pid"}
WorkerPc == Running \cup Idle \cup Resetting \cup
  {"off", "end", "detach_status", "detach_threads",
   "attach_claim", "attach_evflag", "attach_halt", "interrupt",
   "resume_status", "resume_excp", "resume_threads", "panicked"}
HandlerPc == {"run", "suspend_thread", "suspend_process", "is_step",
              "take", "result", "unwrap", "evflag", "push_load", "push_store",
              "wake", "panicked"}
KillPc == {"none", "lookup", "evflag", "store", "wake", "done"}

ThreadsOf(p) == {t \in Threads : Owner[t] = p}

\* Mutant of succ: the index does not wrap.
succNoWrap(i) == i + 1

\* (i + 1) % CAP
succ(i) == (i + 1) % RingCap

Init ==
  /\ pid = NoPid /\ evflag = 0 /\ step = FALSE /\ stepResult = FALSE
  /\ exited = FALSE /\ head = 0 /\ tail = 0
  /\ wpc = "off" /\ ret = "off" /\ newPid = NoPid /\ detached = FALSE
  /\ stepAction = "none" /\ todo = {}
  /\ conn = 0 /\ flag = FALSE /\ inbox = FALSE
  /\ susp = {} /\ tsusp = {} /\ dead = {}
  /\ hpc = [t \in Threads |-> "run"]
  /\ hhead = [t \in Threads |-> 0] /\ hev = [t \in Threads |-> 0]
  /\ kpc = [p \in Pids |-> "none"] /\ kev = [p \in Pids |-> 0]
  /\ raced = FALSE /\ late = FALSE /\ orphaned = FALSE

-----------------------------------------------------------------------------
(***************************************************************************)
(* The exception handlers (handle_break, handle_watch, handle_exception).  *)
(***************************************************************************)
goto(t, pc) == hpc' = [hpc EXCEPT ![t] = pc]

\* A thread that the kernel lets run meets a breakpoint or a fault, and
\* find_session_for_pid finds its session; the handler holds on to the slot
\* from here.  When it finds none it changes nothing (NOT_HANDLED).
Fault(t) ==
  /\ hpc[t] = "run"
  /\ Owner[t] \notin susp \cup dead /\ t \notin tsusp
  /\ pid = Owner[t]
  /\ goto(t, "suspend_thread")
  /\ UNCHANGED <<slot, wpc, target, link, kernel, hhead, hev, killer, history>>

\* halt_for_debug, first call.
SuspendThread(t) ==
  /\ hpc[t] = "suspend_thread"
  /\ tsusp' = tsusp \cup {t}
  /\ goto(t, "suspend_process")
  /\ UNCHANGED <<slot, wpc, target, link, susp, dead, hhead, hev, killer, history>>

\* halt_for_debug, second call; only handle_break goes on to is_step.
SuspendProcess(t) ==
  /\ hpc[t] = "suspend_process"
  /\ susp' = susp \cup ({Owner[t]} \ dead)
  /\ orphaned' = (orphaned \/ pid # Owner[t] \/ wpc \in Resetting)
  /\ \E pc \in {"is_step", "evflag"} : goto(t, pc)
  /\ UNCHANGED <<slot, wpc, target, link, tsusp, dead, hhead, hev, killer,
                 raced, late>>

\* is_step compares addresses only: any thread may be at the step's address.
IsStep(t) ==
  /\ hpc[t] = "is_step"
  /\ \/ step /\ goto(t, "take")
     \/ goto(t, "evflag")
  /\ UNCHANGED <<slot, wpc, target, link, kernel, hhead, hev, killer, history>>

\* step_finished: take the step, or return if somebody else has.
StepTake(t) ==
  /\ hpc[t] = "take"
  /\ step' = FALSE
  /\ goto(t, IF step THEN "result" ELSE "run")
  /\ UNCHANGED <<pid, evflag, stepResult, exited, head, tail, wpc, target, link,
                 kernel, hhead, hev, killer, history>>

StepResult(t) ==
  /\ hpc[t] = "result"
  /\ stepResult' = TRUE
  /\ goto(t, "unwrap")
  /\ UNCHANGED <<pid, evflag, step, exited, head, tail, wpc, target, link,
                 kernel, hhead, hev, killer, history>>

\* Mutant of StepUnwrap: the worker is not woken after a step.
StepUnwrapNoWake(t) ==
  /\ hpc[t] = "unwrap"
  /\ goto(t, "run")
  /\ UNCHANGED <<slot, wpc, target, link, kernel, hhead, hev, killer, history>>

\* self.evflag().unwrap(); the panic handler spins for ever.
StepUnwrap(t) ==
  /\ hpc[t] = "unwrap"
  /\ goto(t, IF evflag = 0 THEN "panicked" ELSE "wake")
  /\ hev' = [hev EXCEPT ![t] = evflag]
  /\ UNCHANGED <<slot, wpc, target, link, kernel, hhead, killer, history>>

\* push_excp: without an event flag the event is dropped.
LoadEvflag(t) ==
  /\ hpc[t] = "evflag"
  /\ goto(t, IF evflag = 0 THEN "run" ELSE "push_load")
  /\ hev' = [hev EXCEPT ![t] = evflag]
  /\ UNCHANGED <<slot, wpc, target, link, kernel, hhead, killer, history>>

\* MpscRing::push loads head and tail; a full ring drops the event.
PushLoad(t) ==
  /\ hpc[t] = "push_load"
  /\ IF succ(head) = tail
     THEN goto(t, "wake") /\ UNCHANGED <<hhead, raced>>
     ELSE /\ goto(t, "push_store")
          /\ hhead' = [hhead EXCEPT ![t] = head]
          /\ raced' = (raced \/ \E u \in Threads : hpc[u] = "push_store")
  /\ UNCHANGED <<slot, wpc, target, link, kernel, hev, killer, late, orphaned>>

PushStore(t) ==
  /\ hpc[t] = "push_store"
  /\ head' = succ(hhead[t])
  /\ hhead' = [hhead EXCEPT ![t] = 0]
  /\ late' = (late \/ hev[t] # conn)
  /\ goto(t, "wake")
  /\ UNCHANGED <<pid, evflag, step, stepResult, exited, tail, wpc, target, link,
                 kernel, hev, killer, raced, orphaned>>

\* Mutant of HandlerWake: push_excp does not set the flag.
HandlerWakeForgotten(t) ==
  /\ hpc[t] = "wake"
  /\ hev' = [hev EXCEPT ![t] = 0]
  /\ goto(t, "run")
  /\ UNCHANGED <<slot, wpc, target, link, kernel, hhead, killer, history>>

\* evflag.set(EV_WAKE_WORKER); the flag of an ended connection is deleted.
HandlerWake(t) ==
  /\ hpc[t] = "wake"
  /\ flag' = (flag \/ hev[t] = conn)
  /\ hev' = [hev EXCEPT ![t] = 0]
  /\ goto(t, "run")
  /\ UNCHANGED <<slot, wpc, target, conn, inbox, kernel, hhead, killer, history>>

HandlerStep(t) ==
  \/ SuspendThread(t) \/ SuspendProcess(t)
  \/ IsStep(t) \/ StepTake(t) \/ StepResult(t) \/ StepUnwrap(t)
  \/ LoadEvflag(t) \/ PushLoad(t) \/ PushStore(t) \/ HandlerWake(t)

-----------------------------------------------------------------------------
(***************************************************************************)
(* handle_proc_kill and push_exited.                                       *)
(***************************************************************************)
killed(p) ==
  /\ p \notin dead /\ Cardinality(dead) < MaxKills
  /\ dead' = dead \cup {p}
  /\ susp' = susp \ {p}
  /\ kpc' = [kpc EXCEPT ![p] = "lookup"]

\* The process exits or is killed, by the user or by the kernel.
Kill(p) ==
  /\ killed(p)
  /\ UNCHANGED <<slot, wpc, target, link, tsusp, handler, kev, history>>

KillLookup(p) ==
  /\ kpc[p] = "lookup"
  /\ kpc' = [kpc EXCEPT ![p] = IF pid = p THEN "evflag" ELSE "done"]
  /\ UNCHANGED <<slot, wpc, target, link, kernel, handler, kev, history>>

KillEvflag(p) ==
  /\ kpc[p] = "evflag"
  /\ kpc' = [kpc EXCEPT ![p] = IF evflag = 0 THEN "done" ELSE "store"]
  /\ kev' = [kev EXCEPT ![p] = evflag]
  /\ UNCHANGED <<slot, wpc, target, link, kernel, handler, history>>

KillStore(p) ==
  /\ kpc[p] = "store"
  /\ exited' = TRUE
  /\ late' = (late \/ kev[p] # conn)
  /\ kpc' = [kpc EXCEPT ![p] = "wake"]
  /\ UNCHANGED <<pid, evflag, step, stepResult, head, tail, wpc, target, link,
                 kernel, handler, kev, raced, orphaned>>

\* Mutant of KillWake: push_exited does not set the flag.
KillWakeForgotten(p) ==
  /\ kpc[p] = "wake"
  /\ kpc' = [kpc EXCEPT ![p] = "done"]
  /\ UNCHANGED <<slot, wpc, target, link, kernel, handler, kev, history>>

KillWake(p) ==
  /\ kpc[p] = "wake"
  /\ flag' = (flag \/ kev[p] = conn)
  /\ kpc' = [kpc EXCEPT ![p] = "done"]
  /\ UNCHANGED <<slot, wpc, target, conn, inbox, kernel, handler, kev, history>>

KillStep(p) == KillLookup(p) \/ KillEvflag(p) \/ KillStore(p) \/ KillWake(p)

-----------------------------------------------------------------------------
(***************************************************************************)
(* The gdb worker.  A connection gets a fresh event flag and a VitaTarget  *)
(* without a session.                                                      *)
(***************************************************************************)
Connect ==
  /\ wpc = "off" /\ conn < MaxConns
  /\ conn' = conn + 1 /\ flag' = FALSE /\ inbox' = FALSE
  /\ detached' = FALSE /\ stepAction' = "none"
  /\ wpc' = "idle_exited"
  /\ UNCHANGED <<slot, ret, newPid, todo, kernel, handler, killer, history>>

\* net_rx has received a packet and has set the flag.
ClientSends ==
  /\ wpc \notin {"off", "end"} /\ ~inbox
  /\ inbox' = TRUE /\ flag' = TRUE
  /\ UNCHANGED <<slot, wpc, target, conn, kernel, handler, killer, history>>

\* The steps below change, of the worker's variables, only wpc.
workerGoes(from, to) ==
  /\ wpc = from /\ wpc' = to

\* read() returns a byte, or None and the worker goes to wait.
Read(from, packet, wait) ==
  /\ workerGoes(from, IF inbox THEN packet ELSE wait)
  /\ inbox' = FALSE
  /\ UNCHANGED <<slot, target, conn, flag, kernel, handler, killer, history>>

\* evflag.wait(EV_WAKE_WORKER, SCE_EVENT_WAITCLEAR_PAT)
Wait(from, to) ==
  /\ workerGoes(from, to)
  /\ flag /\ flag' = FALSE
  /\ UNCHANGED <<slot, target, conn, inbox, kernel, handler, killer, history>>

\* The connection is closed or fails: run_session returns.  An answer of
\* gdbstub that cannot be sent ends it at the next read.
ConnectionEnds ==
  /\ wpc \in {"idle_read", "idle_wait", "run_read", "run_wait"}
  /\ wpc' = "end"
  /\ UNCHANGED <<slot, target, link, kernel, handler, killer, history>>

(***************************************************************************)
(* next_byte: in Idle only the exit of the process is looked at, and it    *)
(* ends the connection.                                                    *)
(***************************************************************************)
IdleExited ==
  /\ workerGoes("idle_exited", IF pid # NoPid /\ exited THEN "end" ELSE "idle_read")
  /\ exited' = (exited /\ pid = NoPid)
  /\ UNCHANGED <<pid, evflag, step, stepResult, head, tail, target, link, kernel,
                 handler, killer, history>>

\* A packet without effect on the session.
OtherPacket ==
  /\ workerGoes("packet", "idle_exited")
  /\ UNCHANGED <<slot, target, link, kernel, handler, killer, history>>

\* D: gdbstub reports a disconnect.
DetachPacket ==
  /\ workerGoes("packet", "end")
  /\ UNCHANGED <<slot, target, link, kernel, handler, killer, history>>

\* ExtendedMode::kill; the callback runs beside the worker.
KillPacket(p) ==
  /\ workerGoes("packet", "idle_exited")
  /\ killed(p)
  /\ UNCHANGED <<slot, target, link, tsusp, handler, kev, history>>

\* ExtendedMode::attach detaches first.
AttachPacket(p) ==
  /\ workerGoes("packet", IF pid = NoPid THEN "attach_claim" ELSE "detach_status")
  /\ newPid' = p /\ ret' = "attach_claim"
  /\ UNCHANGED <<slot, detached, stepAction, todo, link, kernel, handler,
                 killer, history>>

\* vCont: clear_resume_actions, the set_resume_action_* calls, resume().
ResumePacket ==
  /\ workerGoes("packet", "resume_status")
  /\ UNCHANGED <<slot, target, link, kernel, handler, killer, history>>

-----------------------------------------------------------------------------
(***************************************************************************)
(* GdbSession::new and the halt that follows it.                           *)
(***************************************************************************)
\* The slot is claimed, or other connections hold every slot.
AttachClaim ==
  /\ \/ workerGoes("attach_claim", "attach_evflag") /\ pid' = newPid
     \/ workerGoes("attach_claim", "idle_exited") /\ UNCHANGED pid
  /\ newPid' = NoPid
  /\ UNCHANGED <<evflag, step, stepResult, exited, head, tail, ret, detached,
                 stepAction, todo, link, kernel, handler, killer, history>>

AttachEvflag ==
  /\ workerGoes("attach_evflag", "attach_halt")
  /\ evflag' = conn
  /\ detached' = FALSE
  /\ UNCHANGED <<pid, step, stepResult, exited, head, tail, ret, newPid,
                 stepAction, todo, link, kernel, handler, killer, history>>

\* halt_process; a dead process makes attach fail and leaves the session.
Halt(from) ==
  /\ workerGoes(from, "idle_exited")
  /\ susp' = susp \cup ({pid} \ (dead \cup {NoPid}))
  /\ UNCHANGED <<slot, target, link, tsusp, dead, handler, killer, history>>

-----------------------------------------------------------------------------
(***************************************************************************)
(* MultiThreadResume::resume.  An error is fatal and ends the connection.  *)
(***************************************************************************)
\* The actions of the vCont count only from here on.
ResumeStatus ==
  /\ wpc = "resume_status"
  /\ IF pid \in susp
     THEN wpc' = "resume_excp" /\ stepAction' \in {"none", "wanted"}
     ELSE wpc' = (IF pid \in dead THEN "end" ELSE "run_exited") /\ UNCHANGED stepAction
  /\ UNCHANGED <<slot, ret, newPid, detached, todo, link, kernel, handler, killer,
                 history>>

\* Mutant of ResumeExcp: an unfinished step also counts as pending.
ResumeExcpOrStep ==
  /\ wpc = "resume_excp"
  /\ IF (head # tail \/ step) /\ stepAction = "none"
     THEN wpc' = "run_exited" /\ UNCHANGED todo
     ELSE wpc' = "resume_threads" /\ todo' = ThreadsOf(pid)
  /\ UNCHANGED <<slot, ret, newPid, detached, stepAction, link, kernel, handler,
                 killer, history>>

\* has_excp() && step_action.is_none()
ResumeExcp ==
  /\ wpc = "resume_excp"
  /\ IF head # tail /\ stepAction = "none"
     THEN wpc' = "run_exited" /\ UNCHANGED todo
     ELSE wpc' = "resume_threads" /\ todo' = ThreadsOf(pid)
  /\ UNCHANGED <<slot, ret, newPid, detached, stepAction, link, kernel,
                 handler, killer, history>>

\* One thread of the loop: running again, stepped, or, under the scheduler
\* lock and without an action of its own, suspended.
ResumeThread ==
  /\ wpc = "resume_threads"
  /\ \E t \in todo :
       /\ todo' = todo \ {t}
       /\ \/ tsusp' = tsusp \ {t} /\ UNCHANGED <<step, stepAction>>
          \/ /\ stepAction = "wanted" /\ stepAction' = "armed"
             /\ step' = TRUE
             /\ tsusp' = tsusp \ {t}
          \/ tsusp' = tsusp \cup {t} /\ UNCHANGED <<step, stepAction>>
  /\ UNCHANGED <<pid, evflag, stepResult, exited, head, tail, wpc, ret, newPid,
                 detached, link, susp, dead, handler, killer, history>>

\* get_thread_ids, the registers of the stepped thread or next_pc fail, and
\* the error ends run_session.
ResumeFails ==
  /\ workerGoes("resume_threads", "end")
  /\ pid \in dead \/ stepAction = "wanted"
  /\ todo' = {} /\ stepAction' = "none"
  /\ UNCHANGED <<slot, ret, newPid, detached, link, kernel, handler, killer, history>>

\* The instruction cannot be read, whose result is unwrapped, or next_pc meets
\* one of its unreachable!() arms: the worker stays in the panic handler for
\* ever, and its session in the slot.
ResumePanics ==
  /\ workerGoes("resume_threads", "panicked")
  /\ todo # {} /\ stepAction = "wanted" /\ stepAction' = "none"
  /\ UNCHANGED <<slot, ret, newPid, detached, todo, link, kernel, handler,
                 killer, history>>

ResumeProcess ==
  /\ workerGoes("resume_threads", IF pid \in dead THEN "end" ELSE "run_exited")
  /\ todo = {}
  /\ susp' = susp \ {pid}
  /\ stepAction' = "none"  \* not looked at before the next vCont
  /\ UNCHANGED <<slot, ret, newPid, detached, todo, link, tsusp, dead, handler,
                 killer, history>>

-----------------------------------------------------------------------------
(***************************************************************************)
(* next_event_or_byte: one round of polling, then input, then the wait.    *)
(* report_stop leaves gdbstub idle; after an exit it may also disconnect.  *)
(***************************************************************************)
RunExited ==
  /\ wpc = "run_exited"
  /\ IF detached \/ (pid # NoPid /\ exited)
     THEN wpc' \in {"idle_exited", "end"}
     ELSE wpc' = IF pid = NoPid THEN "run_read" ELSE "run_step"
  /\ detached' = FALSE
  /\ exited' = (exited /\ (detached \/ pid = NoPid))
  /\ UNCHANGED <<pid, evflag, step, stepResult, head, tail, ret, newPid, stepAction,
                 todo, link, kernel, handler, killer, history>>

RunStep ==
  /\ workerGoes("run_step", IF stepResult THEN "idle_exited" ELSE "run_excp")
  /\ stepResult' = FALSE
  /\ UNCHANGED <<pid, evflag, step, exited, head, tail, target, link, kernel,
                 handler, killer, history>>

\* MpscRing::pop; the worker is its only caller.
RunExcp ==
  /\ workerGoes("run_excp", IF head = tail THEN "run_read" ELSE "idle_exited")
  /\ tail' = IF head = tail THEN tail ELSE succ(tail)
  /\ UNCHANGED <<pid, evflag, step, stepResult, exited, head, target, link, kernel,
                 handler, killer, history>>

\* A byte that is not an interrupt: the loop starts again.
RunOtherByte ==
  /\ wpc = "run_read" /\ inbox
  /\ wpc' = "run_exited"
  /\ inbox' = FALSE
  /\ UNCHANGED <<slot, target, conn, flag, kernel, handler, killer, history>>

-----------------------------------------------------------------------------
(***************************************************************************)
(* VitaTarget::detach and the reset() that dropping the session runs.      *)
(***************************************************************************)
\* Mutant of End: the session is dropped without detach().
EndWithoutDetach ==
  /\ workerGoes("end", IF pid = NoPid THEN "off" ELSE "reset_flag")
  /\ ret' = "off"
  /\ UNCHANGED <<slot, newPid, detached, stepAction, todo, link, kernel, handler,
                 killer, history>>

\* gdb_thread returns and drops the target.
End ==
  /\ workerGoes("end", IF pid = NoPid THEN "off" ELSE "detach_status")
  /\ ret' = "off"
  /\ UNCHANGED <<slot, newPid, detached, stepAction, todo, link, kernel,
                 handler, killer, history>>

\* Mutant of DetachStatus: the test for a suspended process is inverted.
DetachStatusInverted ==
  /\ wpc = "detach_status"
  /\ IF pid \notin susp
     THEN wpc' = "detach_threads" /\ todo' = ThreadsOf(pid)
     ELSE wpc' = "reset_flag" /\ UNCHANGED todo
  /\ detached' = TRUE
  /\ UNCHANGED <<slot, ret, newPid, stepAction, link, kernel, handler, killer,
                 history>>

\* resume_process: nothing to do unless the process is suspended.
DetachStatus ==
  /\ wpc = "detach_status"
  /\ IF pid \in susp
     THEN wpc' = "detach_threads" /\ todo' = ThreadsOf(pid)
     ELSE wpc' = "reset_flag" /\ UNCHANGED todo
  /\ detached' = TRUE
  /\ UNCHANGED <<slot, ret, newPid, stepAction, link, kernel, handler, killer,
                 history>>

DetachThread ==
  /\ wpc = "detach_threads"
  /\ \E t \in todo : todo' = todo \ {t} /\ tsusp' = tsusp \ {t}
  /\ UNCHANGED <<slot, wpc, ret, newPid, detached, stepAction, link, susp,
                 dead, handler, killer, history>>

DetachProcess ==
  /\ workerGoes("detach_threads", "reset_flag")
  /\ todo = {}
  /\ susp' = susp \ {pid}
  /\ UNCHANGED <<slot, target, link, tsusp, dead, handler, killer, history>>

ResetFlag ==
  /\ workerGoes("reset_flag", "reset_evflag")
  /\ flag' = (flag /\ evflag = 0)
  /\ UNCHANGED <<slot, target, conn, inbox, kernel, handler, killer, history>>

ResetEvflag ==
  /\ workerGoes("reset_evflag", "reset_step")
  /\ evflag' = 0
  /\ UNCHANGED <<pid, step, stepResult, exited, head, tail, target, link, kernel,
                 handler, killer, history>>

\* step is cleared, step_result is not.
ResetStep ==
  /\ workerGoes("reset_step", "reset_exited")
  /\ step' = FALSE
  /\ UNCHANGED <<pid, evflag, stepResult, exited, head, tail, target, link, kernel,
                 handler, killer, history>>

ResetExited ==
  /\ workerGoes("reset_exited", "reset_ring")
  /\ exited' = FALSE
  /\ UNCHANGED <<pid, evflag, step, stepResult, head, tail, target, link, kernel,
                 handler, killer, history>>

\* MpscRing::clear
ResetRing ==
  /\ workerGoes("reset_ring", "reset_pid")
  /\ tail' = head
  /\ UNCHANGED <<pid, evflag, step, stepResult, exited, head, target, link, kernel,
                 handler, killer, history>>

ResetPid ==
  /\ workerGoes("reset_pid", ret)
  /\ pid' = NoPid
  /\ ret' = "off"
  /\ UNCHANGED <<evflag, step, stepResult, exited, head, tail, newPid, detached,
                 stepAction, todo, link, kernel, handler, killer, history>>

-----------------------------------------------------------------------------
WorkerStep ==
  \/ IdleExited \/ Read("idle_read", "packet", "idle_wait")
  \/ Wait("idle_wait", "idle_exited")
  \/ OtherPacket \/ DetachPacket \/ ResumePacket
  \/ \E p \in Pids : KillPacket(p) \/ AttachPacket(p)
  \/ AttachClaim \/ AttachEvflag \/ Halt("attach_halt")
  \/ ResumeStatus \/ ResumeExcp \/ ResumeThread
  \/ ResumeFails \/ ResumePanics \/ ResumeProcess
  \/ RunExited \/ RunStep \/ RunExcp
  \/ Read("run_read", "interrupt", "run_wait") \/ RunOtherByte
  \/ Wait("run_wait", "run_exited") \/ Halt("interrupt")
  \/ End \/ DetachStatus \/ DetachThread \/ DetachProcess
  \/ ResetFlag \/ ResetEvflag \/ ResetStep \/ ResetExited \/ ResetRing \/ ResetPid

Next ==
  \/ \E t \in Threads : Fault(t) \/ HandlerStep(t)
  \/ \E p \in Pids : Kill(p) \/ KillStep(p)
  \/ Connect \/ ClientSends \/ ConnectionEnds \/ WorkerStep

Spec == Init /\ [][Next]_vars

(***************************************************************************)
(* The worker, the handlers and the callbacks are kernel threads that are  *)
(* always scheduled again; a fault, a kill, a packet and the end of a      *)
(* connection may never come.                                              *)
(***************************************************************************)
FairSpec ==
  /\ Spec
  /\ WF_vars(WorkerStep)
  /\ \A t \in Threads : WF_vars(HandlerStep(t))
  /\ \A p \in Pids : WF_vars(KillStep(p))

-----------------------------------------------------------------------------
(***************************************************************************)
(* Properties.                                                             *)
(***************************************************************************)

\* Every variable keeps its type; the ring's indices stay inside it.
TypeOK ==
  /\ pid \in Pids \cup {NoPid} /\ evflag \in 0 .. conn
  /\ step \in BOOLEAN /\ stepResult \in BOOLEAN /\ exited \in BOOLEAN
  /\ head \in 0 .. RingCap - 1 /\ tail \in 0 .. RingCap - 1
  /\ wpc \in WorkerPc /\ ret \in {"off", "attach_claim"}
  /\ newPid \in Pids \cup {NoPid} /\ detached \in BOOLEAN
  /\ stepAction \in {"none", "wanted", "armed"}
  /\ todo \subseteq Threads
  /\ conn \in Nat /\ flag \in BOOLEAN /\ inbox \in BOOLEAN
  /\ susp \subseteq Pids /\ tsusp \subseteq Threads /\ dead \subseteq Pids
  /\ hpc \in [Threads -> HandlerPc]
  /\ hhead \in [Threads -> 0 .. RingCap - 1] /\ hev \in [Threads -> 0 .. conn]
  /\ kpc \in [Pids -> KillPc] /\ kev \in [Pids -> 0 .. conn]
  /\ raced \in BOOLEAN /\ late \in BOOLEAN /\ orphaned \in BOOLEAN

\* The worker has something to report.
Pending == exited \/ stepResult \/ head # tail

\* A handler has halted p and its event is still to come.
Announcing(t) ==
  \/ hpc[t] \in {"is_step", "result", "evflag", "push_load", "push_store"}
  \/ hpc[t] = "take" /\ step

\* While gdb believes the process runs, it is never halted without an event
\* for gdb stored or about to be stored, unless two pushes into the ring
\* overlapped: no order of faults, steps, interrupts, continues, detaches
\* and reconnects leaves the user with a frozen, unreported process.
NoSilentStop ==
  wpc \in Running /\ pid \in susp /\ ~raced
    => Pending \/ \E t \in Threads : Announcing(t)

\* Somebody is about to set EV_WAKE_WORKER in the worker's flag.
Waking ==
  \/ \E t \in Threads : hpc[t] = "unwrap" \/ (hpc[t] = "wake" /\ hev[t] = conn)
  \/ \E p \in Pids : kpc[p] = "wake" /\ kev[p] = conn

\* The worker never sleeps over an event or input that it would look at,
\* unless a handler of an earlier connection stored the event: the flag is
\* set or about to be, although reset() clears it and polling is not atomic.
NoLostWake ==
  \/ wpc = "run_wait" /\ ((Pending /\ pid # NoPid /\ ~late) \/ inbox)
  \/ wpc = "idle_wait" /\ ((exited /\ pid # NoPid /\ ~late) \/ inbox)
  => flag \/ Waking

\* A process nobody debugs is never left halted, however the session ended,
\* unless a handler halted it after detach had looked at it.
DetachedRuns ==
  ~orphaned => susp \subseteq {pid} /\ (wpc \in Resetting => susp = {})

\* step_finished may unwrap the event flag: the slot always has one there.
NoPanic == \A t \in Threads : hpc[t] # "panicked"

\* A halt is reported: gdb does not wait for ever on a halted process.
StopIsReported ==
  (wpc \in Running /\ pid \in susp)
    ~> (wpc \notin Running \/ pid \notin susp \/ raced)

\* The death of the debugged process is noticed by a worker that waits for it.
ExitIsReported == (wpc \in Running /\ pid \in dead) ~> (wpc \notin Running)
=============================================================================
