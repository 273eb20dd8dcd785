---------------------------- MODULE LaunchProofs ----------------------------
(***************************************************************************)
(* Proofs about Launch, for any number of processes: the type invariant,   *)
(* that run() does not sleep through the start of its process, and that a  *)
(* session never begins with `detached` set.                               *)
(***************************************************************************)
EXTENDS Launch, TLAPS

\* The worker is attaching to a process that was just launched.
Launching ==
  \/ wpc = "launching"
  \/ kind = "Run" /\ ret = "claim" /\ wpc \notin {"idle", "wait"}

\* What the worker has done at each of its places.
WorkerPlaces ==
  /\ wpc # "idle" => new \in Pids
  /\ wpc = "reset_pid" => ~evflag
  /\ wpc \in {"claim", "evflag"} => ret = "claim"
  /\ wpc \in {"evflag", "wait"} => pid = new
  /\ wpc = "wait" => evflag /\ kind = "Run"

\* A process created before its run() waits for it counts as early.
StartsEarly == Launching /\ proc[new] = "created" => new \in early

\* `detached` stays set next to a session only from Detach to ResetPid and from
\* Claim to SetEvflag.
DetachedPlaces ==
  detached => pid = NoPid \/ wpc \in {"reset_evflag", "reset_pid", "evflag"}

Inv == TypeOK /\ WorkerPlaces /\ StartsEarly /\ LateStartIsHeard /\ DetachedPlaces

-----------------------------------------------------------------------------
LEMMA InitInv == Init => Inv
  BY NoPidAssumption DEF Init, Inv, TypeOK, WorkerPc, Callback, WorkerPlaces, StartsEarly,
     Launching, LateStartIsHeard, DetachedPlaces

LEMMA TypeStep == TypeOK /\ WorkerPlaces /\ [Next]_vars => TypeOK'
<1> SUFFICES ASSUME TypeOK, WorkerPlaces, [Next]_vars PROVE TypeOK'
  OBVIOUS
<1> USE DEF TypeOK, session, worker, kernel
<1>1. CASE WorkerStep
  <2>1. CASE LaunchReturns
    BY <2>1 DEF LaunchReturns, WorkerPc
  <2>2. CASE Detach
    <3>1. CASE pid = NoPid
      BY <2>2, <3>1 DEF Detach, WorkerPc
    <3>2. CASE pid # NoPid
      BY <2>2, <3>2 DEF Detach, WorkerPc
    <3> QED
      BY <3>1, <3>2
  <2>3. CASE ResetEvflag
    BY <2>3 DEF ResetEvflag, WorkerPc
  <2>4. CASE ResetPid
    BY <2>4 DEF ResetPid, WorkerPc, WorkerPlaces
  <2>5. CASE Claim
    BY <2>5, NoPidAssumption DEF Claim, WorkerPc, WorkerPlaces
  <2>6. CASE SetEvflag
    <3>1. pid' # NoPid /\ wpc' \in WorkerPc
      BY <2>6, NoPidAssumption DEF SetEvflag, WorkerPc, WorkerPlaces
    <3> QED
      BY <2>6, <3>1 DEF SetEvflag
  <2>7. CASE WaitStarted
    BY <2>7 DEF WaitStarted, WorkerPc
  <2>8. CASE WaitFails
    BY <2>8 DEF WaitFails, WorkerPc
  <2> QED
    BY <1>1, <2>1, <2>2, <2>3, <2>4, <2>5, <2>6, <2>7, <2>8 DEF WorkerStep
<1>2. ASSUME NEW p \in Pids, LaunchApp(p) PROVE TypeOK'
  BY <1>2 DEF LaunchApp, WorkerPc
<1>3. ASSUME NEW p \in Pids, AttachPacket(p) PROVE TypeOK'
  BY <1>3 DEF AttachPacket, WorkerPc
<1>4. ASSUME NEW p \in Pids, Create(p) PROVE TypeOK'
  BY <1>4 DEF Create, Callback
<1>5. ASSUME NEW p \in Pids, CreateStep(p) PROVE TypeOK'
  <2>1. CASE CreateLookup(p)
    BY <2>1 DEF CreateLookup, Callback
  <2>2. CASE CreateEvflag(p)
    BY <2>2 DEF CreateEvflag, Callback
  <2>3. CASE CreateSet(p)
    BY <2>3 DEF CreateSet, Callback
  <2> QED
    BY <1>5, <2>1, <2>2, <2>3 DEF CreateStep
<1>6. CASE UNCHANGED vars
  BY <1>6 DEF vars
<1> QED
  BY <1>1, <1>2, <1>3, <1>4, <1>5, <1>6 DEF Next

\* The callback and the kernel change nothing of the worker and its session.
LEMMA CreateFrame ==
  ASSUME NEW p \in Pids, Create(p) \/ CreateStep(p)
  PROVE  UNCHANGED <<session, worker>>
BY DEF Create, CreateStep, CreateLookup, CreateEvflag, CreateSet

LEMMA PlacesStep ==
  TypeOK /\ WorkerPlaces /\ DetachedPlaces /\ [Next]_vars => WorkerPlaces' /\ DetachedPlaces'
<1> SUFFICES ASSUME TypeOK, WorkerPlaces, DetachedPlaces, [Next]_vars
             PROVE  WorkerPlaces' /\ DetachedPlaces'
  OBVIOUS
<1> USE NoPidAssumption DEF WorkerPlaces, DetachedPlaces, session, worker, kernel
<1>1. CASE WorkerStep
  <2>1. CASE LaunchReturns \/ Detach
    BY <2>1 DEF LaunchReturns, Detach, TypeOK
  <2>2. CASE ResetEvflag \/ ResetPid
    BY <2>2 DEF ResetEvflag, ResetPid, TypeOK
  <2>3. CASE Claim \/ SetEvflag
    BY <2>3 DEF Claim, SetEvflag, TypeOK
  <2>4. CASE WaitStarted \/ WaitFails
    BY <2>4 DEF WaitStarted, WaitFails, TypeOK
  <2> QED
    BY <1>1, <2>1, <2>2, <2>3, <2>4 DEF WorkerStep
<1>2. ASSUME NEW p \in Pids, LaunchApp(p) \/ AttachPacket(p)
      PROVE  WorkerPlaces' /\ DetachedPlaces'
  BY <1>2 DEF LaunchApp, AttachPacket
<1>3. ASSUME NEW p \in Pids, Create(p) \/ CreateStep(p)
      PROVE  WorkerPlaces' /\ DetachedPlaces'
  BY <1>3, CreateFrame
<1>4. CASE UNCHANGED vars
  BY <1>4 DEF vars
<1> QED
  BY <1>1, <1>2, <1>3, <1>4 DEF Next

\* Until run() waits, its process can only be created too early.
LEMMA EarlyStep ==
  TypeOK /\ WorkerPlaces /\ StartsEarly /\ [Next]_vars => StartsEarly'
<1> SUFFICES ASSUME TypeOK, WorkerPlaces, StartsEarly, [Next]_vars PROVE StartsEarly'
  OBVIOUS
<1> USE DEF StartsEarly, Launching, session, worker, kernel
<1>1. CASE LaunchReturns \/ Detach \/ ResetEvflag \/ ResetPid \/ Claim \/ SetEvflag
  BY <1>1 DEF LaunchReturns, Detach, ResetEvflag, ResetPid, Claim, SetEvflag, WorkerPlaces,
     TypeOK
<1>2. CASE WaitStarted \/ WaitFails
  BY <1>2 DEF WaitStarted, WaitFails
<1>3. ASSUME NEW p \in Pids, LaunchApp(p) \/ AttachPacket(p) PROVE StartsEarly'
  BY <1>3 DEF LaunchApp, AttachPacket, TypeOK
<1>4. ASSUME NEW p \in Pids, Create(p) PROVE StartsEarly'
  BY <1>4 DEF Create, TypeOK
<1>5. ASSUME NEW p \in Pids, CreateStep(p) PROVE StartsEarly'
  BY <1>5 DEF CreateStep, CreateLookup, CreateEvflag, CreateSet
<1>6. CASE UNCHANGED vars
  BY <1>6 DEF vars
<1> QED
  BY <1>1, <1>2, <1>3, <1>4, <1>5, <1>6 DEF Next, WorkerStep

\* While run() waits, the slot has the pid and the event flag, so that the
\* callback gets from its lookup to the flag.
LEMMA HeardStep ==
  TypeOK /\ WorkerPlaces /\ StartsEarly /\ LateStartIsHeard /\ [Next]_vars
    => LateStartIsHeard'
<1> SUFFICES ASSUME TypeOK, WorkerPlaces, StartsEarly, LateStartIsHeard, [Next]_vars
             PROVE  LateStartIsHeard'
  OBVIOUS
<1> USE DEF LateStartIsHeard, Heard, session, worker, kernel
<1>1. CASE LaunchReturns \/ Detach \/ ResetEvflag \/ ResetPid \/ Claim
  BY <1>1 DEF LaunchReturns, Detach, ResetEvflag, ResetPid, Claim, TypeOK
<1>2. CASE SetEvflag
  BY <1>2 DEF SetEvflag, WorkerPlaces, StartsEarly, Launching
<1>3. CASE WaitStarted \/ WaitFails
  BY <1>3 DEF WaitStarted, WaitFails
<1>4. ASSUME NEW p \in Pids, LaunchApp(p) \/ AttachPacket(p) PROVE LateStartIsHeard'
  BY <1>4 DEF LaunchApp, AttachPacket
<1>5. ASSUME NEW p \in Pids, Create(p) PROVE LateStartIsHeard'
  BY <1>5 DEF Create, TypeOK
<1>6. ASSUME NEW p \in Pids, CreateStep(p) PROVE LateStartIsHeard'
  <2>1. CASE wpc = "wait"
    <3>1. pid = new /\ evflag /\ new \in Pids
      BY <2>1 DEF WorkerPlaces
    <3>2. UNCHANGED <<proc, new, early, wpc>>
      BY <1>6 DEF CreateStep, CreateLookup, CreateEvflag, CreateSet
    <3>3. Heard => Heard'
      <4>1. CASE CreateLookup(p)
        BY <3>1, <4>1 DEF CreateLookup, TypeOK
      <4>2. CASE CreateEvflag(p)
        BY <3>1, <4>2 DEF CreateEvflag, TypeOK
      <4>3. CASE CreateSet(p)
        BY <4>3 DEF CreateSet
      <4> QED
        BY <1>6, <4>1, <4>2, <4>3 DEF CreateStep
    <3> QED
      BY <3>2, <3>3
  <2>2. CASE wpc # "wait"
    BY <1>6, <2>2, CreateFrame
  <2> QED
    BY <2>1, <2>2
<1>7. CASE UNCHANGED vars
  BY <1>7 DEF vars
<1> QED
  BY <1>1, <1>2, <1>3, <1>4, <1>5, <1>6, <1>7 DEF Next, WorkerStep

LEMMA NextInv == Inv /\ [Next]_vars => Inv'
  BY TypeStep, PlacesStep, EarlyStep, HeardStep DEF Inv

LEMMA Invariance == Spec => []Inv
  BY InitInv, NextInv, PTL DEF Spec

-----------------------------------------------------------------------------
\* Every variable keeps its type, and no unclaimed session slot has an event
\* flag that a callback could set.
THEOREM TypeCorrectness == Spec => []TypeOK
<1>1. Inv => TypeOK
  BY DEF Inv
<1> QED
  BY <1>1, Invariance, PTL

\* ExtendedMode::run never sleeps through a start that comes while it waits.
THEOREM RunHearsLateStart == Spec => []LateStartIsHeard
<1>1. Inv => LateStartIsHeard
  BY DEF Inv
<1> QED
  BY <1>1, Invariance, PTL

\* attach() and run() never leave `detached` set beside a session, so that the
\* event loop reports no exit of a live process.
THEOREM NoExitOfLiveProcess == Spec => []NoFalseExit
<1>1. Inv => NoFalseExit
  BY DEF Inv, DetachedPlaces, NoFalseExit
<1> QED
  BY <1>1, Invariance, PTL
=============================================================================
