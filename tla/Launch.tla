------------------------------- MODULE Launch -------------------------------
(***************************************************************************)
(* ExtendedMode::run (gdb/target.rs): launch a process, claim a session    *)
(* for it, and wait for the callback handle_proc_create (gdb/handlers.rs)  *)
(* to set EV_PROCESS_STARTED in the connection's event flag.  The callback *)
(* runs beside the worker, from the moment the kernel creates the process. *)
(*                                                                         *)
(* One connection, one session slot; the other slots may be taken.  A      *)
(* launch that fails changes nothing.                                      *)
(***************************************************************************)
EXTENDS Naturals

CONSTANTS Pids,   \* processes, each launched once: the bound on launches
          NoPid

ASSUME NoPidAssumption == NoPid \notin Pids

VARIABLES
  pid, evflag,    \* the session slot: its pid, and whether evflag is set
  started,        \* EV_PROCESS_STARTED in the connection's flag
  detached,       \* VitaTarget::detached
  wpc, ret,       \* where the worker is, where detach() returns to
  new, kind,      \* the pid being attached and its AttachKind, then the last
  proc, cpc,      \* per process: what the kernel did, where its callback is
  early           \* history: processes created while no run() waited for them

session == <<pid, evflag>>
worker  == <<wpc, ret, new, kind, detached>>
kernel  == <<proc, cpc>>
vars == <<session, started, worker, kernel, early>>

WorkerPc == {"idle", "launching", "detach", "reset_evflag", "reset_pid",
             "claim", "evflag", "wait"}
Callback == {"none", "lookup", "evflag", "set", "done"}

Init ==
  /\ pid = NoPid /\ evflag = FALSE /\ started = FALSE /\ detached = FALSE
  /\ wpc = "idle" /\ ret = "idle" /\ new = NoPid /\ kind = "Attach"
  /\ proc = [p \in Pids |-> "none"] /\ cpc = [p \in Pids |-> "none"]
  /\ early = {}

-----------------------------------------------------------------------------
(***************************************************************************)
(* The worker.  LaunchApp is the call of ksceAppMgrLaunchAppByPath; the    *)
(* process may be created before the call returns.                         *)
(***************************************************************************)
LaunchApp(p) ==
  /\ wpc = "idle" /\ wpc' = "launching"
  /\ proc[p] = "none" /\ proc' = [proc EXCEPT ![p] = "launched"]
  /\ new' = p
  /\ UNCHANGED <<session, started, ret, kind, detached, cpc, early>>

LaunchReturns ==
  /\ wpc = "launching" /\ wpc' = "detach"
  /\ ret' = "claim" /\ kind' = "Run"
  /\ UNCHANGED <<session, started, new, detached, kernel, early>>

\* attach <pid> of a process that exists; it does not wait for a start.
AttachPacket(p) ==
  /\ wpc = "idle" /\ wpc' = "detach"
  /\ proc[p] # "none"
  /\ new' = p /\ ret' = "claim" /\ kind' = "Attach"
  /\ UNCHANGED <<session, started, detached, kernel, early>>

\* VitaTarget::detach; dropping the session runs reset().
Detach ==
  /\ wpc = "detach"
  /\ IF pid = NoPid THEN wpc' = ret /\ UNCHANGED detached
                    ELSE wpc' = "reset_evflag" /\ detached' = TRUE
  /\ UNCHANGED <<session, started, ret, new, kind, kernel, early>>

\* Mutant of ResetEvflag: the event flag stays in the slot.
ResetEvflagKept ==
  /\ wpc = "reset_evflag" /\ wpc' = "reset_pid"
  /\ UNCHANGED <<session, started, ret, new, kind, detached, kernel, early>>

\* reset() clears EV_WAKE_WORKER, not EV_PROCESS_STARTED.
ResetEvflag ==
  /\ wpc = "reset_evflag" /\ wpc' = "reset_pid"
  /\ evflag' = FALSE
  /\ UNCHANGED <<pid, started, ret, new, kind, detached, kernel, early>>

ResetPid ==
  /\ wpc = "reset_pid" /\ wpc' = ret
  /\ pid' = NoPid
  /\ UNCHANGED <<evflag, started, ret, new, kind, detached, kernel, early>>

\* GdbSession::new claims the slot, or finds none: attach() fails.
Claim ==
  /\ wpc = "claim"
  /\ \/ wpc' = "evflag" /\ pid' = new
     \/ wpc' = "idle" /\ UNCHANGED pid
  /\ UNCHANGED <<evflag, started, ret, new, kind, detached, kernel, early>>

\* Mutants of SetEvflag: the slot gets no event flag; `detached` keeps the
\* value the last detach() gave it.
SetEvflagForgotten ==
  /\ wpc = "evflag" /\ wpc' = IF kind = "Run" THEN "wait" ELSE "idle"
  /\ detached' = FALSE
  /\ UNCHANGED <<session, started, ret, new, kind, kernel, early>>

SetEvflagDetached ==
  /\ wpc = "evflag" /\ wpc' = IF kind = "Run" THEN "wait" ELSE "idle"
  /\ evflag' = TRUE
  /\ UNCHANGED <<pid, started, ret, new, kind, detached, kernel, early>>

\* The end of GdbSession::new and of attach(); only run() goes on to wait.
SetEvflag ==
  /\ wpc = "evflag" /\ wpc' = IF kind = "Run" THEN "wait" ELSE "idle"
  /\ evflag' = TRUE /\ detached' = FALSE
  /\ UNCHANGED <<pid, started, ret, new, kind, kernel, early>>

\* wait_timeout with SCE_EVENT_WAITCLEAR_PAT: run() returns the pid.
WaitStarted ==
  /\ wpc = "wait" /\ wpc' = "idle"
  /\ started /\ started' = FALSE
  /\ UNCHANGED <<session, ret, new, kind, detached, kernel, early>>

\* Mutant of WaitFails: the wait is tried again.
WaitRetries == wpc = "wait" /\ UNCHANGED vars

\* Ten seconds pass without the bit, or the wait fails.
WaitFails ==
  /\ wpc = "wait" /\ wpc' = "detach"
  /\ ret' = "idle"
  /\ UNCHANGED <<session, started, new, kind, detached, kernel, early>>

-----------------------------------------------------------------------------
(***************************************************************************)
(* The kernel and handle_proc_create.                                      *)
(***************************************************************************)
Create(p) ==
  /\ proc[p] = "launched" /\ proc' = [proc EXCEPT ![p] = "created"]
  /\ cpc' = [cpc EXCEPT ![p] = "lookup"]
  /\ early' = IF wpc = "wait" /\ new = p THEN early ELSE early \cup {p}
  /\ UNCHANGED <<session, started, worker>>

CreateLookup(p) ==
  /\ cpc[p] = "lookup"
  /\ cpc' = [cpc EXCEPT ![p] = IF pid = p THEN "evflag" ELSE "done"]
  /\ UNCHANGED <<session, started, worker, proc, early>>

CreateEvflag(p) ==
  /\ cpc[p] = "evflag"
  /\ cpc' = [cpc EXCEPT ![p] = IF evflag THEN "set" ELSE "done"]
  /\ UNCHANGED <<session, started, worker, proc, early>>

CreateSet(p) ==
  /\ cpc[p] = "set" /\ cpc' = [cpc EXCEPT ![p] = "done"]
  /\ started' = TRUE
  /\ UNCHANGED <<session, worker, proc, early>>

WorkerStep ==
  \/ LaunchReturns \/ Detach \/ ResetEvflag \/ ResetPid
  \/ Claim \/ SetEvflag \/ WaitStarted \/ WaitFails

CreateStep(p) == CreateLookup(p) \/ CreateEvflag(p) \/ CreateSet(p)

Next ==
  \/ WorkerStep
  \/ \E p \in Pids : LaunchApp(p) \/ AttachPacket(p) \/ Create(p) \/ CreateStep(p)

Spec == Init /\ [][Next]_vars

(***************************************************************************)
(* The worker runs on, and the kernel ends the wait after its timeout.     *)
(***************************************************************************)
FairSpec == Spec /\ WF_vars(WorkerStep)

-----------------------------------------------------------------------------
(***************************************************************************)
(* Properties.                                                             *)
(***************************************************************************)

\* Every variable keeps its type, and a slot with an event flag is claimed.
TypeOK ==
  /\ pid \in Pids \cup {NoPid} /\ evflag \in BOOLEAN /\ started \in BOOLEAN
  /\ evflag => pid # NoPid
  /\ wpc \in WorkerPc /\ ret \in {"idle", "claim"} /\ detached \in BOOLEAN
  /\ new \in Pids \cup {NoPid} /\ kind \in {"Attach", "Run"}
  /\ proc \in [Pids -> {"none", "launched", "created"}]
  /\ cpc \in [Pids -> Callback]
  /\ early \subseteq Pids

\* The event of the awaited process is in the flag or on its way.
Heard == started \/ cpc[new] \in {"lookup", "evflag", "set"}

\* While run() waits, the start of its process is in the flag or on its
\* way, if the process was created during the wait.
LateStartIsHeard ==
  wpc = "wait" /\ proc[new] = "created" /\ new \notin early => Heard

\* run() times out only on a process that has not started: a launch that
\* is fast enough is always heard of.
StartIsHeard == wpc = "wait" /\ proc[new] = "created" => Heard

\* VitaTarget::detached makes the event loop report an exit to gdb: it is
\* never left set beside a session, so no live process is reported dead.
NoFalseExit == wpc = "idle" /\ detached => pid = NoPid

\* run() always answers, whatever the launched process does.
RunAnswers == (wpc = "launching") ~> (wpc = "idle")
=============================================================================
