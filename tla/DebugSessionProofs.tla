------------------------- MODULE DebugSessionProofs -------------------------
(***************************************************************************)
(* Proofs about DebugSession, for any processes, threads, ring capacity    *)
(* and number of connections: the type invariant, no halt that gdb never   *)
(* hears of, no lost wake-up of the worker, and no process left halted by  *)
(* detach.                                                                 *)
(***************************************************************************)
EXTENDS DebugSession, TLAPS

\* What the worker's place says about the slot it owns.
Attached ==
  /\ wpc \in {"off", "attach_claim"} => pid = NoPid
  /\ wpc # "off" => conn # 0
  /\ pid # NoPid /\ wpc \notin {"attach_evflag", "reset_step", "reset_exited",
                                "reset_ring", "reset_pid"}
       => evflag = conn

\* What a handler in the middle of a push knows, unless pushes overlapped:
\* its head is current, the ring still has room, and it is alone.
Ring ==
  ~raced => \A t \in Threads : hpc[t] = "push_store" =>
    /\ hhead[t] = head /\ succ(head) # tail
    /\ \A u \in Threads : hpc[u] = "push_store" => u = t

\* The kill callback runs once, after the death of its process.
Dying == \A p \in Pids : p \notin dead => kpc[p] = "none"

\* A wake-up of the worker is stored or on its way, from the poll that
\* found nothing up to the wait.
Woken == flag \/ Waking

ExitWake ==
  exited /\ wpc \in {"run_step", "run_excp", "run_read", "run_wait",
                     "idle_read", "idle_wait"} => Woken

StepWake == stepResult /\ wpc \in {"run_excp", "run_read", "run_wait"} => Woken

ExcpWake == head # tail /\ wpc \in {"run_read", "run_wait"} => Woken

EventWake == pid # NoPid /\ ~late => ExitWake /\ StepWake /\ ExcpWake

InputWake == inbox /\ wpc \in {"run_wait", "idle_wait"} => flag

\* The inductive invariant.
Inv ==
  /\ TypeOK /\ Attached /\ Ring /\ Dying
  /\ NoSilentStop /\ EventWake /\ InputWake /\ DetachedRuns

\* (i + 1) % CAP stays inside the ring, moves, and is injective.
LEMMA SuccFacts ==
  ASSUME NEW i \in 0 .. RingCap - 1
  PROVE  /\ succ(i) \in 0 .. RingCap - 1
         /\ succ(i) # i
         /\ \A j \in 0 .. RingCap - 1 : succ(j) = succ(i) => j = i
<1>1. ASSUME NEW j \in 0 .. RingCap - 1
      PROVE  succ(j) = IF j + 1 = RingCap THEN 0 ELSE j + 1
  BY RingCapAssumption DEF succ
<1> QED
  BY <1>1, RingCapAssumption

\* Every step keeps the types; the ring's indices wrap inside it.
LEMMA TypeStep ==
  TypeOK /\ [Next]_vars => TypeOK'
<1> SUFFICES ASSUME TypeOK, [Next]_vars
             PROVE  TypeOK'
  OBVIOUS
<1> USE DEF vars, slot, target, link, kernel, handler, killer, history
<1>1. ASSUME NEW t \in Threads, Fault(t)
      PROVE  TypeOK'
  BY <1>1 DEF Fault, goto, TypeOK, HandlerPc
<1>2. ASSUME NEW t \in Threads, SuspendThread(t)
      PROVE  TypeOK'
  BY <1>2 DEF SuspendThread, goto, TypeOK, HandlerPc
<1>3. ASSUME NEW t \in Threads, SuspendProcess(t)
      PROVE  TypeOK'
  <2>1. orphaned' \in BOOLEAN
    BY <1>3, Zenon DEF SuspendProcess, TypeOK
  <2>2. susp' \subseteq Pids
    BY <1>3, OwnerAssumption DEF SuspendProcess, TypeOK
  <2>3. hpc' \in [Threads -> HandlerPc]
    BY <1>3 DEF SuspendProcess, goto, TypeOK, HandlerPc
  <2> QED
    BY <1>3, <2>1, <2>2, <2>3 DEF SuspendProcess, TypeOK
<1>4. ASSUME NEW t \in Threads, IsStep(t)
      PROVE  TypeOK'
  BY <1>4 DEF IsStep, goto, TypeOK, HandlerPc
<1>5. ASSUME NEW t \in Threads, StepTake(t)
      PROVE  TypeOK'
  <2>1. step' \in BOOLEAN
    BY <1>5, Zenon DEF StepTake, TypeOK
  <2> QED
    BY <1>5, <2>1 DEF StepTake, goto, TypeOK, HandlerPc
<1>6. ASSUME NEW t \in Threads, StepResult(t)
      PROVE  TypeOK'
  BY <1>6 DEF StepResult, goto, TypeOK, HandlerPc
<1>7. ASSUME NEW t \in Threads, StepUnwrap(t)
      PROVE  TypeOK'
  BY <1>7 DEF StepUnwrap, goto, TypeOK, HandlerPc
<1>8. ASSUME NEW t \in Threads, LoadEvflag(t)
      PROVE  TypeOK'
  BY <1>8 DEF LoadEvflag, goto, TypeOK, HandlerPc
<1>9. ASSUME NEW t \in Threads, PushLoad(t)
      PROVE  TypeOK'
  <2>1. raced' \in BOOLEAN
    BY <1>9, Zenon DEF PushLoad, TypeOK
  <2> QED
    BY <1>9, <2>1 DEF PushLoad, goto, TypeOK, HandlerPc
<1>10. ASSUME NEW t \in Threads, PushStore(t)
      PROVE  TypeOK'
  <2>1. late' \in BOOLEAN
    BY <1>10, Zenon DEF PushStore, TypeOK
  <2>2. hhead[t] \in 0 .. RingCap - 1
    BY DEF TypeOK
  <2>3. head' \in 0 .. RingCap - 1
    BY <1>10, <2>2, SuccFacts DEF PushStore
  <2>4. hhead' \in [Threads -> 0 .. RingCap - 1]
    BY <1>10, RingCapAssumption DEF PushStore, TypeOK
  <2> QED
    BY <1>10, <2>1, <2>3, <2>4 DEF PushStore, goto, TypeOK, HandlerPc
<1>11. ASSUME NEW t \in Threads, HandlerWake(t)
      PROVE  TypeOK'
  BY <1>11 DEF HandlerWake, goto, TypeOK, HandlerPc
<1>12. ASSUME NEW p \in Pids, Kill(p)
      PROVE  TypeOK'
  BY <1>12 DEF Kill, killed, TypeOK, KillPc
<1>13. ASSUME NEW p \in Pids, KillLookup(p)
      PROVE  TypeOK'
  BY <1>13 DEF KillLookup, TypeOK, KillPc
<1>14. ASSUME NEW p \in Pids, KillEvflag(p)
      PROVE  TypeOK'
  BY <1>14 DEF KillEvflag, TypeOK, KillPc
<1>15. ASSUME NEW p \in Pids, KillStore(p)
      PROVE  TypeOK'
  BY <1>15 DEF KillStore, TypeOK, KillPc
<1>16. ASSUME NEW p \in Pids, KillWake(p)
      PROVE  TypeOK'
  BY <1>16 DEF KillWake, TypeOK, KillPc
<1>17. ASSUME NEW p \in Pids, KillPacket(p)
      PROVE  TypeOK'
  BY <1>17 DEF KillPacket, killed, workerGoes, TypeOK, WorkerPc, Running, Idle,
     Resetting, KillPc
<1>18. ASSUME NEW p \in Pids, AttachPacket(p)
      PROVE  TypeOK'
  BY <1>18 DEF AttachPacket, workerGoes, TypeOK, WorkerPc, Running, Idle,
     Resetting
<1>19. CASE Connect
  <2>1. flag' \in BOOLEAN /\ inbox' \in BOOLEAN /\ detached' \in BOOLEAN
    BY <1>19, Zenon DEF Connect, TypeOK
  <2> QED
    BY <1>19, <2>1 DEF Connect, TypeOK, WorkerPc, Running, Idle, Resetting
<1>20. CASE ClientSends
  BY <1>20 DEF ClientSends, TypeOK, WorkerPc, Running, Idle, Resetting
<1>21. CASE ConnectionEnds
  BY <1>21 DEF ConnectionEnds, TypeOK, WorkerPc, Running, Idle, Resetting
<1>22. CASE IdleExited
  BY <1>22 DEF IdleExited, workerGoes, TypeOK, WorkerPc, Running, Idle, Resetting
<1>23. CASE OtherPacket
  BY <1>23 DEF OtherPacket, workerGoes, TypeOK, WorkerPc, Running, Idle,
     Resetting
<1>24. CASE DetachPacket
  BY <1>24 DEF DetachPacket, workerGoes, TypeOK, WorkerPc, Running, Idle,
     Resetting
<1>25. CASE ResumePacket
  BY <1>25 DEF ResumePacket, workerGoes, TypeOK, WorkerPc, Running, Idle,
     Resetting
<1>26. CASE AttachClaim
  BY <1>26 DEF AttachClaim, workerGoes, TypeOK, WorkerPc, Running, Idle,
     Resetting
<1>27. CASE AttachEvflag
  <2>1. detached' \in BOOLEAN
    BY <1>27, Zenon DEF AttachEvflag, TypeOK
  <2> QED
    BY <1>27, <2>1 DEF AttachEvflag, workerGoes, TypeOK, WorkerPc, Running, Idle,
       Resetting
<1>28. CASE ResumeStatus
  BY <1>28 DEF ResumeStatus, TypeOK, WorkerPc, Running, Idle, Resetting
<1>29. CASE ResumeExcp
  BY <1>29 DEF ResumeExcp, ThreadsOf, TypeOK, WorkerPc, Running, Idle, Resetting
<1>30. CASE ResumeThread
  <2>1. step' \in BOOLEAN
    BY <1>30, Zenon DEF ResumeThread, TypeOK
  <2> QED
    BY <1>30, <2>1 DEF ResumeThread, TypeOK, WorkerPc, Running, Idle, Resetting
<1>31. CASE ResumeFails \/ ResumePanics
  BY <1>31 DEF ResumeFails, ResumePanics, workerGoes, TypeOK, WorkerPc, Running, Idle,
     Resetting
<1>32. CASE ResumeProcess
  BY <1>32 DEF ResumeProcess, workerGoes, TypeOK, WorkerPc, Running, Idle,
     Resetting
<1>33. CASE RunExited
  <2>1. detached' \in BOOLEAN /\ exited' \in BOOLEAN
    BY <1>33, Zenon DEF RunExited, TypeOK
  <2> QED
    BY <1>33, <2>1 DEF RunExited, TypeOK, WorkerPc, Running, Idle, Resetting
<1>34. CASE RunStep
  <2>1. stepResult' \in BOOLEAN
    BY <1>34, Zenon DEF RunStep, TypeOK
  <2> QED
    BY <1>34, <2>1 DEF RunStep, workerGoes, TypeOK, WorkerPc, Running, Idle,
       Resetting
<1>35. CASE RunExcp
  BY <1>35, SuccFacts DEF RunExcp, workerGoes, TypeOK, WorkerPc, Running, Idle,
     Resetting
<1>36. CASE RunOtherByte
  <2>1. inbox' \in BOOLEAN
    BY <1>36, Zenon DEF RunOtherByte, TypeOK
  <2> QED
    BY <1>36, <2>1 DEF RunOtherByte, TypeOK, WorkerPc, Running, Idle, Resetting
<1>37. CASE End
  BY <1>37 DEF End, workerGoes, TypeOK, WorkerPc, Running, Idle, Resetting
<1>38. CASE DetachStatus
  BY <1>38 DEF DetachStatus, ThreadsOf, TypeOK, WorkerPc, Running, Idle,
     Resetting
<1>39. CASE DetachThread
  BY <1>39 DEF DetachThread, TypeOK, WorkerPc, Running, Idle, Resetting
<1>40. CASE DetachProcess
  BY <1>40 DEF DetachProcess, workerGoes, TypeOK, WorkerPc, Running, Idle,
     Resetting
<1>41. CASE ResetFlag
  BY <1>41 DEF ResetFlag, workerGoes, TypeOK, WorkerPc, Running, Idle, Resetting
<1>42. CASE ResetEvflag
  BY <1>42 DEF ResetEvflag, workerGoes, TypeOK, WorkerPc, Running, Idle,
     Resetting
<1>43. CASE ResetStep
  <2>1. step' \in BOOLEAN
    BY <1>43, Zenon DEF ResetStep, TypeOK
  <2> QED
    BY <1>43, <2>1 DEF ResetStep, workerGoes, TypeOK, WorkerPc, Running, Idle,
       Resetting
<1>44. CASE ResetExited
  <2>1. exited' \in BOOLEAN
    BY <1>44, Zenon DEF ResetExited, TypeOK
  <2> QED
    BY <1>44, <2>1 DEF ResetExited, workerGoes, TypeOK, WorkerPc, Running, Idle,
       Resetting
<1>45. CASE ResetRing
  BY <1>45 DEF ResetRing, workerGoes, TypeOK, WorkerPc, Running, Idle, Resetting
<1>46. CASE ResetPid
  BY <1>46 DEF ResetPid, workerGoes, TypeOK, WorkerPc, Running, Idle, Resetting
<1>47. CASE Read("idle_read", "packet", "idle_wait")
  <2>1. inbox' \in BOOLEAN
    BY <1>47, Zenon DEF Read, TypeOK
  <2> QED
    BY <1>47, <2>1 DEF Read, workerGoes, TypeOK, WorkerPc, Running, Idle,
       Resetting
<1>48. CASE Read("run_read", "interrupt", "run_wait")
  <2>1. inbox' \in BOOLEAN
    BY <1>48, Zenon DEF Read, TypeOK
  <2> QED
    BY <1>48, <2>1 DEF Read, workerGoes, TypeOK, WorkerPc, Running, Idle,
       Resetting
<1>49. CASE Wait("idle_wait", "idle_exited")
  <2>1. flag' \in BOOLEAN
    BY <1>49, Zenon DEF Wait, TypeOK
  <2> QED
    BY <1>49, <2>1 DEF Wait, workerGoes, TypeOK, WorkerPc, Running, Idle,
       Resetting
<1>50. CASE Wait("run_wait", "run_exited")
  <2>1. flag' \in BOOLEAN
    BY <1>50, Zenon DEF Wait, TypeOK
  <2> QED
    BY <1>50, <2>1 DEF Wait, workerGoes, TypeOK, WorkerPc, Running, Idle,
       Resetting
<1>51. CASE Halt("attach_halt")
  BY <1>51 DEF Halt, workerGoes, TypeOK, WorkerPc, Running, Idle, Resetting
<1>52. CASE Halt("interrupt")
  BY <1>52 DEF Halt, workerGoes, TypeOK, WorkerPc, Running, Idle, Resetting
<1>53. CASE UNCHANGED vars
  BY <1>53 DEF TypeOK, WorkerPc, Running, Idle, Resetting, HandlerPc, KillPc
<1> QED
  BY <1>1, <1>2, <1>3, <1>4, <1>5, <1>6, <1>7, <1>8, <1>9, <1>10, <1>11,
     <1>12, <1>13, <1>14, <1>15, <1>16, <1>17, <1>18, <1>19, <1>20, <1>21,
     <1>22, <1>23, <1>24, <1>25, <1>26, <1>27, <1>28, <1>29, <1>30, <1>31,
     <1>32, <1>33, <1>34, <1>35, <1>36, <1>37, <1>38, <1>39, <1>40, <1>41,
     <1>42, <1>43, <1>44, <1>45, <1>46, <1>47, <1>48, <1>49, <1>50, <1>51,
     <1>52, <1>53
     DEF Next, HandlerStep, KillStep, WorkerStep

\* The event flag of an attached slot is the worker's own, and a worker
\* without a session holds no pid.
LEMMA AttachedStep ==
  TypeOK /\ Attached /\ [Next]_vars => Attached'
<1> SUFFICES ASSUME TypeOK, Attached, [Next]_vars
             PROVE  Attached'
  OBVIOUS
<1> USE DEF vars, slot, target, link, kernel, handler, killer, history
<1>1. ASSUME NEW t \in Threads, \/ Fault(t) \/ SuspendThread(t)
                                \/ SuspendProcess(t) \/ IsStep(t)
                                \/ StepTake(t)
                                \/ StepResult(t)
      PROVE  Attached'
  BY <1>1 DEF Fault, goto, SuspendThread, SuspendProcess, IsStep, StepTake,
     StepResult, TypeOK, Attached
<1>2. ASSUME NEW t \in Threads, \/ StepUnwrap(t) \/ LoadEvflag(t)
                                \/ PushLoad(t) \/ PushStore(t)
                                \/ HandlerWake(t)
      PROVE  Attached'
  BY <1>2 DEF StepUnwrap, goto, LoadEvflag, PushLoad, PushStore, HandlerWake,
     TypeOK, Attached
<1>3. ASSUME NEW p \in Pids, \/ Kill(p) \/ KillLookup(p) \/ KillEvflag(p)
                             \/ KillStore(p) \/ KillWake(p) \/ KillPacket(p)
                             \/ AttachPacket(p)
      PROVE  Attached'
  BY <1>3 DEF Kill, killed, KillLookup, KillEvflag, KillStore, KillWake,
     KillPacket, workerGoes, AttachPacket, TypeOK, Attached
<1>4. CASE Connect
  BY <1>4 DEF Connect, TypeOK, Attached
<1>5. CASE AttachClaim
  BY <1>5 DEF AttachClaim, workerGoes, TypeOK, Attached
<1>6. CASE AttachEvflag
  BY <1>6 DEF AttachEvflag, workerGoes, TypeOK, Attached
<1>7. CASE ResetEvflag
  BY <1>7 DEF ResetEvflag, workerGoes, TypeOK, Attached
<1>8. CASE ResetPid
  BY <1>8 DEF ResetPid, workerGoes, TypeOK, Attached
<1>9. CASE \/ ClientSends \/ ConnectionEnds \/ IdleExited \/ OtherPacket
           \/ DetachPacket \/ ResumePacket \/ ResumeStatus \/ ResumeExcp
  BY <1>9 DEF ClientSends, ConnectionEnds, IdleExited, workerGoes,
     OtherPacket, DetachPacket, ResumePacket, ResumeStatus, ResumeExcp,
     TypeOK, Attached
<1>10. CASE \/ ResumeThread \/ ResumeFails \/ ResumePanics \/ ResumeProcess \/ RunExited
            \/ RunStep \/ RunExcp \/ RunOtherByte \/ End
  BY <1>10 DEF ResumeThread, ResumeFails, ResumePanics, workerGoes, ResumeProcess,
     RunExited, RunStep, RunExcp, RunOtherByte, End, TypeOK, Attached
<1>11. CASE \/ DetachStatus \/ DetachThread \/ DetachProcess \/ ResetFlag
            \/ ResetStep \/ ResetExited \/ ResetRing
            \/ Read("idle_read", "packet", "idle_wait")
  BY <1>11 DEF DetachStatus, DetachThread, DetachProcess, workerGoes,
     ResetFlag, ResetStep, ResetExited, ResetRing, Read, TypeOK, Attached
<1>12. CASE \/ Read("run_read", "interrupt", "run_wait")
            \/ Wait("idle_wait", "idle_exited")
            \/ Wait("run_wait", "run_exited") \/ Halt("attach_halt")
            \/ Halt("interrupt")
  BY <1>12 DEF Read, workerGoes, Wait, Halt, TypeOK, Attached
<1>13. CASE UNCHANGED vars
  BY <1>13 DEF TypeOK, Attached
<1> QED
  BY <1>1, <1>2, <1>3, <1>4, <1>5, <1>6, <1>7, <1>8, <1>9, <1>10, <1>11,
     <1>12, <1>13
     DEF Next, HandlerStep, KillStep, WorkerStep

\* Without overlapping pushes the ring stays a ring: a push never overtakes
\* the worker's pop or another push.
LEMMA RingStep ==
  TypeOK /\ Ring /\ [Next]_vars => Ring'
<1> SUFFICES ASSUME TypeOK, Ring, [Next]_vars
             PROVE  Ring'
  OBVIOUS
<1> USE DEF vars, slot, target, link, kernel, handler, killer, history
<1>1. ASSUME NEW t \in Threads, PushLoad(t)
      PROVE  Ring'
  <2>1. CASE succ(head) = tail
    <3>1. \A u \in Threads : hpc'[u] = "push_store" => hpc[u] = "push_store"
      BY <1>1, <2>1 DEF PushLoad, goto, TypeOK
    <3> QED
      BY <1>1, <2>1, <3>1 DEF PushLoad, Ring
  <2>2. CASE succ(head) # tail /\ ~raced'
    <3>1. \A u \in Threads : hpc[u] # "push_store"
      BY <1>1, <2>2 DEF PushLoad
    <3>2. \A u \in Threads : hpc'[u] = "push_store" => u = t
      BY <1>1, <2>2, <3>1 DEF PushLoad, goto, TypeOK
    <3>3. hhead'[t] = head /\ head' = head /\ succ(head)' = succ(head) /\ tail' = tail
      BY <1>1, <2>2 DEF PushLoad, TypeOK, succ
    <3> QED
      BY <2>2, <3>2, <3>3 DEF Ring
  <2>3. CASE raced'
    BY <2>3 DEF Ring
  <2> QED
    BY <2>1, <2>2, <2>3
<1>2. ASSUME NEW t \in Threads, PushStore(t)
      PROVE  Ring'
  BY <1>2, SuccFacts DEF PushStore, goto, TypeOK, Ring
<1>3. ASSUME NEW t \in Threads, \/ Fault(t) \/ SuspendThread(t)
                                \/ SuspendProcess(t) \/ IsStep(t)
                                \/ StepTake(t)
      PROVE  Ring'
  BY <1>3 DEF Fault, goto, SuspendThread, SuspendProcess, IsStep, StepTake,
     TypeOK, Ring
<1>4. ASSUME NEW t \in Threads, \/ StepResult(t) \/ StepUnwrap(t)
                                \/ LoadEvflag(t)
                                \/ HandlerWake(t)
      PROVE  Ring'
  BY <1>4 DEF StepResult, goto, StepUnwrap, LoadEvflag, HandlerWake, TypeOK,
     Ring
<1>5. ASSUME NEW p \in Pids, \/ Kill(p) \/ KillLookup(p) \/ KillEvflag(p)
                             \/ KillStore(p) \/ KillWake(p) \/ KillPacket(p)
                             \/ AttachPacket(p)
      PROVE  Ring'
  BY <1>5 DEF Kill, killed, KillLookup, KillEvflag, KillStore, KillWake,
     KillPacket, workerGoes, AttachPacket, TypeOK, Ring
<1>6. CASE RunExcp
  BY <1>6, SuccFacts DEF RunExcp, workerGoes, TypeOK, Ring
<1>7. CASE ResetRing
  BY <1>7, SuccFacts DEF ResetRing, workerGoes, TypeOK, Ring
<1>8. CASE \/ Connect \/ ClientSends \/ ConnectionEnds \/ IdleExited
           \/ OtherPacket \/ DetachPacket \/ ResumePacket \/ AttachClaim
  BY <1>8 DEF Connect, ClientSends, ConnectionEnds, IdleExited, workerGoes,
     OtherPacket, DetachPacket, ResumePacket, AttachClaim, TypeOK, Ring
<1>9. CASE \/ AttachEvflag \/ ResumeStatus \/ ResumeExcp \/ ResumeThread
           \/ ResumeFails \/ ResumePanics \/ ResumeProcess \/ RunExited \/ RunStep
  BY <1>9 DEF AttachEvflag, workerGoes, ResumeStatus, ResumeExcp,
     ResumeThread, ResumeFails, ResumePanics, ResumeProcess, RunExited, RunStep, TypeOK,
     Ring
<1>10. CASE \/ RunOtherByte \/ End \/ DetachStatus \/ DetachThread
            \/ DetachProcess \/ ResetFlag \/ ResetEvflag \/ ResetStep
  BY <1>10 DEF RunOtherByte, End, workerGoes, DetachStatus, DetachThread,
     DetachProcess, ResetFlag, ResetEvflag, ResetStep, TypeOK, Ring
<1>11. CASE \/ ResetExited \/ ResetPid
            \/ Read("idle_read", "packet", "idle_wait")
            \/ Read("run_read", "interrupt", "run_wait")
            \/ Wait("idle_wait", "idle_exited")
            \/ Wait("run_wait", "run_exited") \/ Halt("attach_halt")
            \/ Halt("interrupt")
  BY <1>11 DEF ResetExited, workerGoes, ResetPid, Read, Wait, Halt, TypeOK,
     Ring
<1>12. CASE UNCHANGED vars
  BY <1>12 DEF TypeOK, Ring
<1> QED
  BY <1>1, <1>2, <1>3, <1>4, <1>5, <1>6, <1>7, <1>8, <1>9, <1>10, <1>11,
     <1>12
     DEF Next, HandlerStep, KillStep, WorkerStep

\* The kill callback starts only with the death of its process.
LEMMA DyingStep ==
  TypeOK /\ Dying /\ [Next]_vars => Dying'
<1> SUFFICES ASSUME TypeOK, Dying, [Next]_vars
             PROVE  Dying'
  OBVIOUS
<1> USE DEF vars, slot, target, link, kernel, handler, killer, history
<1>1. ASSUME NEW t \in Threads, \/ Fault(t) \/ SuspendThread(t)
                                \/ SuspendProcess(t) \/ IsStep(t)
                                \/ StepTake(t)
                                \/ StepResult(t)
      PROVE  Dying'
  BY <1>1 DEF Fault, goto, SuspendThread, SuspendProcess, IsStep, StepTake,
     StepResult, TypeOK, Dying
<1>2. ASSUME NEW t \in Threads, \/ StepUnwrap(t) \/ LoadEvflag(t)
                                \/ PushLoad(t) \/ PushStore(t)
                                \/ HandlerWake(t)
      PROVE  Dying'
  BY <1>2 DEF StepUnwrap, goto, LoadEvflag, PushLoad, PushStore, HandlerWake,
     TypeOK, Dying
<1>3. ASSUME NEW p \in Pids, Kill(p)
      PROVE  Dying'
  BY <1>3 DEF Kill, killed, TypeOK, Dying
<1>4. ASSUME NEW p \in Pids, KillLookup(p)
      PROVE  Dying'
  BY <1>4 DEF KillLookup, TypeOK, Dying
<1>5. ASSUME NEW p \in Pids, KillEvflag(p)
      PROVE  Dying'
  BY <1>5 DEF KillEvflag, TypeOK, Dying
<1>6. ASSUME NEW p \in Pids, KillStore(p)
      PROVE  Dying'
  BY <1>6 DEF KillStore, TypeOK, Dying
<1>7. ASSUME NEW p \in Pids, KillWake(p)
      PROVE  Dying'
  BY <1>7 DEF KillWake, TypeOK, Dying
<1>8. ASSUME NEW p \in Pids, KillPacket(p)
      PROVE  Dying'
  BY <1>8 DEF KillPacket, killed, workerGoes, TypeOK, Dying
<1>9. ASSUME NEW p \in Pids, AttachPacket(p)
      PROVE  Dying'
  BY <1>9 DEF AttachPacket, workerGoes, TypeOK, Dying
<1>10. CASE \/ Connect \/ ClientSends \/ ConnectionEnds \/ IdleExited
            \/ OtherPacket \/ DetachPacket \/ ResumePacket
  BY <1>10 DEF Connect, ClientSends, ConnectionEnds, IdleExited, workerGoes,
     OtherPacket, DetachPacket, ResumePacket, TypeOK, Dying
<1>11. CASE \/ AttachClaim \/ AttachEvflag \/ ResumeStatus \/ ResumeExcp
            \/ ResumeThread \/ ResumeFails \/ ResumePanics \/ ResumeProcess
  BY <1>11 DEF AttachClaim, workerGoes, AttachEvflag, ResumeStatus,
     ResumeExcp, ResumeThread, ResumeFails, ResumePanics, ResumeProcess, TypeOK, Dying
<1>12. CASE \/ RunExited \/ RunStep \/ RunExcp \/ RunOtherByte \/ End
            \/ DetachStatus \/ DetachThread
  BY <1>12 DEF RunExited, RunStep, workerGoes, RunExcp, RunOtherByte, End,
     DetachStatus, DetachThread, TypeOK, Dying
<1>13. CASE \/ DetachProcess \/ ResetFlag \/ ResetEvflag \/ ResetStep
            \/ ResetExited \/ ResetRing \/ ResetPid
  BY <1>13 DEF DetachProcess, workerGoes, ResetFlag, ResetEvflag, ResetStep,
     ResetExited, ResetRing, ResetPid, TypeOK, Dying
<1>14. CASE \/ Read("idle_read", "packet", "idle_wait")
            \/ Read("run_read", "interrupt", "run_wait")
            \/ Wait("idle_wait", "idle_exited")
            \/ Wait("run_wait", "run_exited") \/ Halt("attach_halt")
            \/ Halt("interrupt")
  BY <1>14 DEF Read, workerGoes, Wait, Halt, TypeOK, Dying
<1>15. CASE UNCHANGED vars
  BY <1>15 DEF TypeOK, Dying
<1> QED
  BY <1>1, <1>2, <1>3, <1>4, <1>5, <1>6, <1>7, <1>8, <1>9, <1>10, <1>11,
     <1>12, <1>13, <1>14, <1>15
     DEF Next, HandlerStep, KillStep, WorkerStep

\* A halt always leaves an event behind it while gdb waits.
LEMMA SilentStep ==
  TypeOK /\ Attached /\ Ring /\ NoSilentStop /\ [Next]_vars => NoSilentStop'
<1> SUFFICES ASSUME TypeOK, Attached, Ring, NoSilentStop, [Next]_vars
             PROVE  NoSilentStop'
  OBVIOUS
<1> USE DEF vars, slot, target, link, kernel, handler, killer, history
<1>1. ASSUME NEW t \in Threads, SuspendProcess(t)
      PROVE  NoSilentStop'
  BY <1>1, SuccFacts DEF SuspendProcess, goto, TypeOK, NoSilentStop, Running,
     Pending, Announcing
<1>2. ASSUME NEW t \in Threads, IsStep(t)
      PROVE  NoSilentStop'
  BY <1>2, SuccFacts DEF IsStep, goto, TypeOK, NoSilentStop, Running,
     Pending, Announcing
<1>3. ASSUME NEW t \in Threads, StepTake(t)
      PROVE  NoSilentStop'
  BY <1>3, SuccFacts DEF StepTake, goto, TypeOK, NoSilentStop, Running,
     Pending, Announcing
<1>4. ASSUME NEW t \in Threads, StepResult(t)
      PROVE  NoSilentStop'
  BY <1>4, SuccFacts DEF StepResult, goto, TypeOK, NoSilentStop, Running,
     Pending, Announcing
<1>5. ASSUME NEW t \in Threads, LoadEvflag(t)
      PROVE  NoSilentStop'
  <2>1. wpc \in Running /\ pid \in susp => evflag # 0
    BY NoPidAssumption DEF TypeOK, Attached, Running
  <2> QED
    BY <1>5, <2>1 DEF LoadEvflag, goto, TypeOK, NoSilentStop, Running, Pending,
       Announcing
<1>6. ASSUME NEW t \in Threads, PushLoad(t)
      PROVE  NoSilentStop'
  BY <1>6, SuccFacts DEF PushLoad, goto, TypeOK, NoSilentStop, Running,
     Pending, Announcing
<1>7. ASSUME NEW t \in Threads, PushStore(t)
      PROVE  NoSilentStop'
  BY <1>7, SuccFacts DEF PushStore, goto, TypeOK, NoSilentStop, Running,
     Pending, Announcing, Ring
<1>8. ASSUME NEW t \in Threads, \/ Fault(t) \/ SuspendThread(t)
                                \/ StepUnwrap(t)
                                \/ HandlerWake(t)
      PROVE  NoSilentStop'
  BY <1>8 DEF Fault, goto, SuspendThread, StepUnwrap, HandlerWake, TypeOK,
     NoSilentStop, Running, Pending, Announcing
<1>9. ASSUME NEW p \in Pids, Kill(p)
      PROVE  NoSilentStop'
  BY <1>9, SuccFacts DEF Kill, killed, TypeOK, NoSilentStop, Running,
     Pending, Announcing
<1>10. ASSUME NEW p \in Pids, KillStore(p)
      PROVE  NoSilentStop'
  BY <1>10, SuccFacts DEF KillStore, TypeOK, NoSilentStop, Running, Pending,
     Announcing
<1>11. ASSUME NEW p \in Pids, \/ KillLookup(p) \/ KillEvflag(p)
                              \/ KillWake(p) \/ KillPacket(p)
                              \/ AttachPacket(p)
      PROVE  NoSilentStop'
  BY <1>11 DEF KillLookup, KillEvflag, KillWake, KillPacket, killed,
     workerGoes, AttachPacket, TypeOK, NoSilentStop, Running, Pending,
     Announcing
<1>12. CASE ResumeStatus
  BY <1>12, SuccFacts DEF ResumeStatus, TypeOK, NoSilentStop, Running,
     Pending, Announcing
<1>13. CASE ResumeExcp
  BY <1>13, SuccFacts DEF ResumeExcp, TypeOK, NoSilentStop, Running, Pending,
     Announcing
<1>14. CASE ResumeProcess
  BY <1>14, SuccFacts DEF ResumeProcess, workerGoes, TypeOK, NoSilentStop,
     Running, Pending, Announcing
<1>15. CASE RunExited
  BY <1>15, SuccFacts DEF RunExited, TypeOK, NoSilentStop, Running, Pending,
     Announcing
<1>16. CASE RunStep
  BY <1>16, SuccFacts DEF RunStep, workerGoes, TypeOK, NoSilentStop, Running,
     Pending, Announcing
<1>17. CASE RunExcp
  BY <1>17, SuccFacts DEF RunExcp, workerGoes, TypeOK, NoSilentStop, Running,
     Pending, Announcing
<1>18. CASE Halt("attach_halt")
  BY <1>18, SuccFacts DEF Halt, workerGoes, TypeOK, NoSilentStop, Running,
     Pending, Announcing
<1>19. CASE Halt("interrupt")
  BY <1>19, SuccFacts DEF Halt, workerGoes, TypeOK, NoSilentStop, Running,
     Pending, Announcing
<1>20. CASE \/ Connect \/ ClientSends \/ ConnectionEnds \/ IdleExited
            \/ OtherPacket \/ DetachPacket \/ ResumePacket
  BY <1>20 DEF Connect, ClientSends, ConnectionEnds, IdleExited, workerGoes,
     OtherPacket, DetachPacket, ResumePacket, TypeOK, NoSilentStop, Running,
     Pending, Announcing
<1>21. CASE \/ AttachClaim \/ AttachEvflag \/ ResumeThread \/ ResumeFails \/ ResumePanics
            \/ RunOtherByte \/ End \/ DetachStatus
  BY <1>21 DEF AttachClaim, workerGoes, AttachEvflag, ResumeThread,
     ResumeFails, ResumePanics, RunOtherByte, End, DetachStatus, TypeOK, NoSilentStop,
     Running, Pending, Announcing
<1>22. CASE \/ DetachThread \/ DetachProcess \/ ResetFlag \/ ResetEvflag
            \/ ResetStep \/ ResetExited \/ ResetRing
  BY <1>22 DEF DetachThread, DetachProcess, workerGoes, ResetFlag,
     ResetEvflag, ResetStep, ResetExited, ResetRing, TypeOK, NoSilentStop,
     Running, Pending, Announcing
<1>23. CASE \/ ResetPid \/ Read("idle_read", "packet", "idle_wait")
            \/ Read("run_read", "interrupt", "run_wait")
            \/ Wait("idle_wait", "idle_exited")
            \/ Wait("run_wait", "run_exited")
  BY <1>23 DEF ResetPid, workerGoes, Read, Wait, TypeOK, NoSilentStop,
     Running, Pending, Announcing
<1>24. CASE UNCHANGED vars
  BY <1>24 DEF TypeOK, NoSilentStop, Running, Pending, Announcing
<1> QED
  BY <1>1, <1>2, <1>3, <1>4, <1>5, <1>6, <1>7, <1>8, <1>9, <1>10, <1>11,
     <1>12, <1>13, <1>14, <1>15, <1>16, <1>17, <1>18, <1>19, <1>20, <1>21,
     <1>22, <1>23, <1>24
     DEF Next, HandlerStep, KillStep, WorkerStep

\* An event stored for the worker also wakes it.
LEMMA WakeStep ==
  TypeOK /\ Attached /\ Dying /\ EventWake /\ [Next]_vars => EventWake'
<1> SUFFICES ASSUME TypeOK, Attached, Dying, EventWake, [Next]_vars
             PROVE  EventWake'
  OBVIOUS
<1> USE DEF vars, slot, target, link, kernel, handler, killer, history
<1>1. ASSUME NEW t \in Threads, StepResult(t)
      PROVE  EventWake'
  BY <1>1 DEF StepResult, goto, TypeOK, EventWake, ExitWake, StepWake,
     ExcpWake, Woken, Waking
<1>2. ASSUME NEW t \in Threads, StepUnwrap(t)
      PROVE  EventWake'
  BY <1>2 DEF StepUnwrap, goto, TypeOK, EventWake, ExitWake, StepWake,
     ExcpWake, Woken, Waking, Attached
<1>3. ASSUME NEW t \in Threads, PushStore(t)
      PROVE  EventWake'
  BY <1>3 DEF PushStore, goto, TypeOK, EventWake, ExitWake, StepWake,
     ExcpWake, Woken, Waking
<1>4. ASSUME NEW t \in Threads, HandlerWake(t)
      PROVE  EventWake'
  BY <1>4 DEF HandlerWake, goto, TypeOK, EventWake, ExitWake, StepWake,
     ExcpWake, Woken, Waking
<1>5. ASSUME NEW t \in Threads, \/ Fault(t) \/ SuspendThread(t)
                                \/ SuspendProcess(t) \/ IsStep(t)
                                \/ StepTake(t) \/ LoadEvflag(t)
                                \/ PushLoad(t)
      PROVE  EventWake'
  BY <1>5 DEF Fault, goto, SuspendThread, SuspendProcess, IsStep, StepTake,
     LoadEvflag, PushLoad, TypeOK, EventWake, ExitWake, StepWake, ExcpWake,
     Woken, Waking
<1>6. ASSUME NEW p \in Pids, Kill(p)
      PROVE  EventWake'
  BY <1>6 DEF Kill, killed, TypeOK, EventWake, ExitWake, StepWake, ExcpWake,
     Woken, Waking, Dying
<1>7. ASSUME NEW p \in Pids, KillStore(p)
      PROVE  EventWake'
  BY <1>7 DEF KillStore, TypeOK, EventWake, ExitWake, StepWake, ExcpWake,
     Woken, Waking
<1>8. ASSUME NEW p \in Pids, KillWake(p)
      PROVE  EventWake'
  BY <1>8 DEF KillWake, TypeOK, EventWake, ExitWake, StepWake, ExcpWake,
     Woken, Waking
<1>9. ASSUME NEW p \in Pids, \/ KillLookup(p) \/ KillEvflag(p)
                             \/ KillPacket(p)
                             \/ AttachPacket(p)
      PROVE  EventWake'
  BY <1>9 DEF KillLookup, KillEvflag, KillPacket, killed, workerGoes,
     AttachPacket, TypeOK, EventWake, ExitWake, StepWake, ExcpWake, Woken,
     Waking
<1>10. CASE Connect
  BY <1>10 DEF Connect, TypeOK, EventWake, ExitWake, StepWake, ExcpWake,
     Woken, Waking
<1>11. CASE IdleExited
  BY <1>11 DEF IdleExited, workerGoes, TypeOK, EventWake, ExitWake, StepWake,
     ExcpWake, Woken, Waking
<1>12. CASE AttachClaim
  BY <1>12 DEF AttachClaim, workerGoes, TypeOK, EventWake, ExitWake,
     StepWake, ExcpWake, Woken, Waking
<1>13. CASE RunExited
  BY <1>13 DEF RunExited, TypeOK, EventWake, ExitWake, StepWake, ExcpWake,
     Woken, Waking
<1>14. CASE RunStep
  BY <1>14 DEF RunStep, workerGoes, TypeOK, EventWake, ExitWake, StepWake,
     ExcpWake, Woken, Waking
<1>15. CASE RunExcp
  BY <1>15 DEF RunExcp, workerGoes, TypeOK, EventWake, ExitWake, StepWake,
     ExcpWake, Woken, Waking
<1>16. CASE Wait("idle_wait", "idle_exited")
  BY <1>16 DEF Wait, workerGoes, TypeOK, EventWake, ExitWake, StepWake,
     ExcpWake, Woken, Waking
<1>17. CASE Wait("run_wait", "run_exited")
  BY <1>17 DEF Wait, workerGoes, TypeOK, EventWake, ExitWake, StepWake,
     ExcpWake, Woken, Waking
<1>18. CASE \/ ClientSends \/ ConnectionEnds \/ OtherPacket \/ DetachPacket
            \/ ResumePacket \/ AttachEvflag \/ ResumeStatus
  BY <1>18 DEF ClientSends, ConnectionEnds, OtherPacket, workerGoes,
     DetachPacket, ResumePacket, AttachEvflag, ResumeStatus, TypeOK,
     EventWake, ExitWake, StepWake, ExcpWake, Woken, Waking
<1>19. CASE \/ ResumeExcp \/ ResumeThread \/ ResumeFails \/ ResumePanics \/ ResumeProcess
            \/ RunOtherByte \/ End \/ DetachStatus
  BY <1>19 DEF ResumeExcp, ResumeThread, ResumeFails, ResumePanics, workerGoes,
     ResumeProcess, RunOtherByte, End, DetachStatus, TypeOK, EventWake,
     ExitWake, StepWake, ExcpWake, Woken, Waking
<1>20. CASE \/ DetachThread \/ DetachProcess \/ ResetFlag \/ ResetEvflag
            \/ ResetStep \/ ResetExited \/ ResetRing
  BY <1>20 DEF DetachThread, DetachProcess, workerGoes, ResetFlag,
     ResetEvflag, ResetStep, ResetExited, ResetRing, TypeOK, EventWake,
     ExitWake, StepWake, ExcpWake, Woken, Waking
<1>21. CASE \/ ResetPid \/ Read("idle_read", "packet", "idle_wait")
            \/ Read("run_read", "interrupt", "run_wait")
            \/ Halt("attach_halt") \/ Halt("interrupt")
  BY <1>21 DEF ResetPid, workerGoes, Read, Halt, TypeOK, EventWake, ExitWake,
     StepWake, ExcpWake, Woken, Waking
<1>22. CASE UNCHANGED vars
  BY <1>22 DEF TypeOK, EventWake, ExitWake, StepWake, ExcpWake, Woken, Waking
<1> QED
  BY <1>1, <1>2, <1>3, <1>4, <1>5, <1>6, <1>7, <1>8, <1>9, <1>10, <1>11,
     <1>12, <1>13, <1>14, <1>15, <1>16, <1>17, <1>18, <1>19, <1>20, <1>21,
     <1>22
     DEF Next, HandlerStep, KillStep, WorkerStep

\* A packet wakes the worker.
LEMMA InputStep ==
  TypeOK /\ InputWake /\ [Next]_vars => InputWake'
<1> SUFFICES ASSUME TypeOK, InputWake, [Next]_vars
             PROVE  InputWake'
  OBVIOUS
<1> USE DEF vars, slot, target, link, kernel, handler, killer, history
<1>1. ASSUME NEW t \in Threads, HandlerWake(t)
      PROVE  InputWake'
  BY <1>1 DEF HandlerWake, goto, TypeOK, InputWake
<1>2. ASSUME NEW t \in Threads, \/ Fault(t) \/ SuspendThread(t)
                                \/ SuspendProcess(t) \/ IsStep(t)
                                \/ StepTake(t)
      PROVE  InputWake'
  BY <1>2 DEF Fault, goto, SuspendThread, SuspendProcess, IsStep, StepTake,
     TypeOK, InputWake
<1>3. ASSUME NEW t \in Threads, \/ StepResult(t) \/ StepUnwrap(t)
                                \/ LoadEvflag(t) \/ PushLoad(t)
                                \/ PushStore(t)
      PROVE  InputWake'
  BY <1>3 DEF StepResult, goto, StepUnwrap, LoadEvflag, PushLoad, PushStore,
     TypeOK, InputWake
<1>4. ASSUME NEW p \in Pids, KillWake(p)
      PROVE  InputWake'
  BY <1>4 DEF KillWake, TypeOK, InputWake
<1>5. ASSUME NEW p \in Pids, \/ Kill(p) \/ KillLookup(p) \/ KillEvflag(p)
                             \/ KillStore(p) \/ KillPacket(p)
                             \/ AttachPacket(p)
      PROVE  InputWake'
  BY <1>5 DEF Kill, killed, KillLookup, KillEvflag, KillStore, KillPacket,
     workerGoes, AttachPacket, TypeOK, InputWake
<1>6. CASE ClientSends
  BY <1>6 DEF ClientSends, TypeOK, InputWake
<1>7. CASE ResetFlag
  BY <1>7 DEF ResetFlag, workerGoes, TypeOK, InputWake
<1>8. CASE Read("idle_read", "packet", "idle_wait")
  BY <1>8 DEF Read, workerGoes, TypeOK, InputWake
<1>9. CASE Read("run_read", "interrupt", "run_wait")
  BY <1>9 DEF Read, workerGoes, TypeOK, InputWake
<1>10. CASE Wait("idle_wait", "idle_exited")
  BY <1>10 DEF Wait, workerGoes, TypeOK, InputWake
<1>11. CASE Wait("run_wait", "run_exited")
  BY <1>11 DEF Wait, workerGoes, TypeOK, InputWake
<1>12. CASE \/ Connect \/ ConnectionEnds \/ IdleExited \/ OtherPacket
            \/ DetachPacket \/ ResumePacket \/ AttachClaim
  BY <1>12 DEF Connect, ConnectionEnds, IdleExited, workerGoes, OtherPacket,
     DetachPacket, ResumePacket, AttachClaim, TypeOK, InputWake
<1>13. CASE \/ AttachEvflag \/ ResumeStatus \/ ResumeExcp \/ ResumeThread
            \/ ResumeFails \/ ResumePanics \/ ResumeProcess \/ RunExited
  BY <1>13 DEF AttachEvflag, workerGoes, ResumeStatus, ResumeExcp,
     ResumeThread, ResumeFails, ResumePanics, ResumeProcess, RunExited, TypeOK, InputWake
<1>14. CASE \/ RunStep \/ RunExcp \/ RunOtherByte \/ End \/ DetachStatus
            \/ DetachThread \/ DetachProcess
  BY <1>14 DEF RunStep, workerGoes, RunExcp, RunOtherByte, End, DetachStatus,
     DetachThread, DetachProcess, TypeOK, InputWake
<1>15. CASE \/ ResetEvflag \/ ResetStep \/ ResetExited \/ ResetRing
            \/ ResetPid \/ Halt("attach_halt") \/ Halt("interrupt")
  BY <1>15 DEF ResetEvflag, workerGoes, ResetStep, ResetExited, ResetRing,
     ResetPid, Halt, TypeOK, InputWake
<1>16. CASE UNCHANGED vars
  BY <1>16 DEF TypeOK, InputWake
<1> QED
  BY <1>1, <1>2, <1>3, <1>4, <1>5, <1>6, <1>7, <1>8, <1>9, <1>10, <1>11,
     <1>12, <1>13, <1>14, <1>15, <1>16
     DEF Next, HandlerStep, KillStep, WorkerStep

\* The worker lets a process go only after resuming it.
LEMMA DetachStep ==
  TypeOK /\ Attached /\ DetachedRuns /\ [Next]_vars => DetachedRuns'
<1> SUFFICES ASSUME TypeOK, Attached, DetachedRuns, [Next]_vars
             PROVE  DetachedRuns'
  OBVIOUS
<1> USE DEF vars, slot, target, link, kernel, handler, killer, history
<1>1. ASSUME NEW t \in Threads, SuspendProcess(t)
      PROVE  DetachedRuns'
  BY <1>1 DEF SuspendProcess, goto, TypeOK, Attached, DetachedRuns, Resetting
<1>2. ASSUME NEW t \in Threads, \/ Fault(t) \/ SuspendThread(t) \/ IsStep(t)
                                \/ StepTake(t)
                                \/ StepResult(t)
      PROVE  DetachedRuns'
  BY <1>2 DEF Fault, goto, SuspendThread, IsStep, StepTake, StepResult,
     TypeOK, Attached, DetachedRuns, Resetting
<1>3. ASSUME NEW t \in Threads, \/ StepUnwrap(t) \/ LoadEvflag(t)
                                \/ PushLoad(t) \/ PushStore(t)
                                \/ HandlerWake(t)
      PROVE  DetachedRuns'
  BY <1>3 DEF StepUnwrap, goto, LoadEvflag, PushLoad, PushStore, HandlerWake,
     TypeOK, Attached, DetachedRuns, Resetting
<1>4. ASSUME NEW p \in Pids, Kill(p)
      PROVE  DetachedRuns'
  BY <1>4 DEF Kill, killed, TypeOK, Attached, DetachedRuns, Resetting
<1>5. ASSUME NEW p \in Pids, KillPacket(p)
      PROVE  DetachedRuns'
  BY <1>5 DEF KillPacket, killed, workerGoes, TypeOK, Attached, DetachedRuns,
     Resetting
<1>6. ASSUME NEW p \in Pids, \/ KillLookup(p) \/ KillEvflag(p)
                             \/ KillStore(p) \/ KillWake(p)
                             \/ AttachPacket(p)
      PROVE  DetachedRuns'
  BY <1>6 DEF KillLookup, KillEvflag, KillStore, KillWake, AttachPacket,
     workerGoes, TypeOK, Attached, DetachedRuns, Resetting
<1>7. CASE AttachClaim
  <2>1. ~orphaned => susp = {}
    BY <1>7, NoPidAssumption DEF AttachClaim, workerGoes, TypeOK, Attached,
       DetachedRuns
  <2> QED
    BY <1>7, <2>1 DEF AttachClaim, workerGoes, DetachedRuns, Resetting
<1>8. CASE ResumeProcess
  BY <1>8 DEF ResumeProcess, workerGoes, TypeOK, Attached, DetachedRuns,
     Resetting
<1>9. CASE DetachStatus
  BY <1>9 DEF DetachStatus, TypeOK, Attached, DetachedRuns, Resetting
<1>10. CASE DetachProcess
  BY <1>10 DEF DetachProcess, workerGoes, TypeOK, Attached, DetachedRuns,
     Resetting
<1>11. CASE ResetPid
  BY <1>11 DEF ResetPid, workerGoes, TypeOK, Attached, DetachedRuns,
     Resetting
<1>12. CASE Halt("attach_halt")
  BY <1>12 DEF Halt, workerGoes, TypeOK, Attached, DetachedRuns, Resetting
<1>13. CASE Halt("interrupt")
  BY <1>13 DEF Halt, workerGoes, TypeOK, Attached, DetachedRuns, Resetting
<1>14. CASE \/ Connect \/ ClientSends \/ ConnectionEnds \/ IdleExited
            \/ OtherPacket \/ DetachPacket \/ ResumePacket
  BY <1>14 DEF Connect, ClientSends, ConnectionEnds, IdleExited, workerGoes,
     OtherPacket, DetachPacket, ResumePacket, TypeOK, Attached, DetachedRuns,
     Resetting
<1>15. CASE \/ AttachEvflag \/ ResumeStatus \/ ResumeExcp \/ ResumeThread
            \/ ResumeFails \/ ResumePanics \/ RunExited \/ RunStep
  BY <1>15 DEF AttachEvflag, workerGoes, ResumeStatus, ResumeExcp,
     ResumeThread, ResumeFails, ResumePanics, RunExited, RunStep, TypeOK, Attached,
     DetachedRuns, Resetting
<1>16. CASE \/ RunExcp \/ RunOtherByte \/ End \/ DetachThread \/ ResetFlag
            \/ ResetEvflag \/ ResetStep
  BY <1>16 DEF RunExcp, workerGoes, RunOtherByte, End, DetachThread,
     ResetFlag, ResetEvflag, ResetStep, TypeOK, Attached, DetachedRuns,
     Resetting
<1>17. CASE \/ ResetExited \/ ResetRing
            \/ Read("idle_read", "packet", "idle_wait")
            \/ Read("run_read", "interrupt", "run_wait")
            \/ Wait("idle_wait", "idle_exited")
            \/ Wait("run_wait", "run_exited")
  BY <1>17 DEF ResetExited, workerGoes, ResetRing, Read, Wait, TypeOK,
     Attached, DetachedRuns, Resetting
<1>18. CASE UNCHANGED vars
  BY <1>18 DEF TypeOK, Attached, DetachedRuns, Resetting
<1> QED
  BY <1>1, <1>2, <1>3, <1>4, <1>5, <1>6, <1>7, <1>8, <1>9, <1>10, <1>11,
     <1>12, <1>13, <1>14, <1>15, <1>16, <1>17, <1>18
     DEF Next, HandlerStep, KillStep, WorkerStep

\* The inductive invariant holds initially.
LEMMA InvInit == Init => Inv
<1> SUFFICES ASSUME Init PROVE Inv
  OBVIOUS
<1>1. TypeOK
  <2>1. /\ step \in BOOLEAN /\ stepResult \in BOOLEAN /\ exited \in BOOLEAN
        /\ detached \in BOOLEAN /\ flag \in BOOLEAN /\ inbox \in BOOLEAN
        /\ raced \in BOOLEAN /\ late \in BOOLEAN /\ orphaned \in BOOLEAN
    BY Zenon DEF Init
  <2> QED
    BY <2>1, RingCapAssumption DEF Init, TypeOK, WorkerPc, HandlerPc, KillPc
<1>2. Attached /\ Ring /\ Dying
  BY DEF Init, Attached, Ring, Dying
<1>3. NoSilentStop /\ InputWake
  BY DEF Init, NoSilentStop, InputWake, Running
<1>4. EventWake
  BY DEF Init, EventWake, ExitWake, StepWake, ExcpWake
<1>5. DetachedRuns
  BY DEF Init, DetachedRuns, Resetting
<1> QED
  BY <1>1, <1>2, <1>3, <1>4, <1>5 DEF Inv

\* Every step preserves it.
LEMMA InvStep == Inv /\ [Next]_vars => Inv'
BY TypeStep, AttachedStep, RingStep, DyingStep, SilentStep, WakeStep, InputStep,
   DetachStep DEF Inv

\* The inductive invariant holds in every reachable state.
THEOREM Invariance == Spec => []Inv
BY InvInit, InvStep, PTL DEF Spec

\* DebugSession keeps its types: MpscRing's indices never leave the buffer.
THEOREM TypeCorrectness == Spec => []TypeOK
<1>1. Inv => TypeOK
  BY DEF Inv
<1> QED
  BY <1>1, Invariance, PTL

\* While gdb waits for the process, a halted process has an event stored or
\* on its way, however faults, steps, interrupts and reconnects interleave.
THEOREM StopsAreAnnounced == Spec => []NoSilentStop
<1>1. Inv => NoSilentStop
  BY DEF Inv
<1> QED
  BY <1>1, Invariance, PTL

\* The worker never sleeps over an event or a packet it would look at.
THEOREM WorkerIsWoken == Spec => []NoLostWake
<1>1. Inv => NoLostWake
  BY DEF Inv, EventWake, ExitWake, StepWake, ExcpWake, InputWake, Woken,
     Pending, NoLostWake
<1> QED
  BY <1>1, Invariance, PTL

\* Detaching resumes the process before the slot is given up.
THEOREM DetachResumes == Spec => []DetachedRuns
<1>1. Inv => DetachedRuns
  BY DEF Inv
<1> QED
  BY <1>1, Invariance, PTL

=============================================================================
