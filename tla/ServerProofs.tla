---------------------------- MODULE ServerProofs ----------------------------
(***************************************************************************)
(* Proofs about Server, for any number of sockets, workers, slots and      *)
(* failures: the type invariant, that handles name open sockets and one    *)
(* socket each, that no socket and no slot is lost but those the module    *)
(* names, and that neither an event flag nor a socket's number is used     *)
(* past the places of the worker that keep it alive.                       *)
(***************************************************************************)
EXTENDS Server, TLAPS

\* The places of a worker at which it has a socket, a connection slot, perhaps
\* a session, an event flag, a net_rx thread, and a thread with its socket.
HasSocket  == {"evflag", "acquire", "start_rx", "serve", "mark", "close"}
HasSlot    == {"start_rx", "serve", "mark", "close", "join", "release"}
HasSession == {"serve", "mark", "close", "join", "release", "drop_socket", "detach"}
HasFlag    == WorkerPc \ {"none", "evflag"}
HasReader  == {"serve", "mark", "close", "join"}
Serving    == {"serve", "mark", "close"}

Lifecycle ==
  \A w \in Workers :
    /\ (fd[w] # NoFd) = (wpc[w] \in HasSocket)
    /\ (slot[w] # None) = (wpc[w] \in HasSlot)
    /\ sess[w] # None => wpc[w] \in HasSession
    /\ (w \in evflag) = (wpc[w] \in HasFlag)
    /\ (rpc[w] # "off") = (wpc[w] \in HasReader)
    /\ wpc[w] \in Serving => rxfd[w] = fd[w]

\* The same for the accept loop.
MainPlaces ==
  /\ (lfd # NoFd) = (mpc \in {"accept", "spawn"})
  /\ (afd # NoFd) = (mpc = "spawn")

\* The two pools of SlotsAreHeld.
ConnsAreHeld ==
  /\ claimed = lost \cup ({slot[w] : w \in Workers} \ {None})
  /\ \A w \in Workers : slot[w] # None =>
       slot[w] \notin lost /\ \A v \in Workers \ {w} : slot[v] # slot[w]

SessionsAreHeld ==
  \A s \in SessionSlots :
    /\ (pid[s] # NoPid) = (\E w \in Workers : sess[w] = s)
    /\ \A w \in Workers : sess[w] = s => sflag[s] = w

\* A session slot has an event flag only for the worker that has the slot.
FlagIsOwners == \A s \in SessionSlots : sflag[s] # None => sess[sflag[s]] = s

Inv ==
  /\ TypeOK /\ Lifecycle /\ MainPlaces
  /\ HandlesAreOpen /\ SocketsAreHeld
  /\ ConnsAreHeld /\ SessionsAreHeld /\ FlagIsOwners

-----------------------------------------------------------------------------
LEMMA InitInv == Init => Inv
<1> SUFFICES ASSUME Init PROVE Inv
  OBVIOUS
<1> USE NoFdAssumption, NoPidAssumption, NoneAssumption DEF Init
<1>1. TypeOK
  BY DEF TypeOK, MainPc, WorkerPc, ReaderPc
<1>2. Lifecycle
  BY DEF Lifecycle, HasSocket, HasSlot, HasSession, HasFlag, HasReader, Serving, WorkerPc
<1>3. MainPlaces /\ HandlesAreOpen /\ SocketsAreHeld
  BY DEF MainPlaces, HandlesAreOpen, SocketsAreHeld
<1>4. ConnsAreHeld /\ SessionsAreHeld /\ FlagIsOwners
  BY DEF ConnsAreHeld, SessionsAreHeld, FlagIsOwners
<1> QED
  BY <1>1, <1>2, <1>3, <1>4 DEF Inv

\* Types: every handle, slot and place stays in its range.
LEMMA TypeMain == TypeOK /\ MainStep => TypeOK'
<1> SUFFICES ASSUME TypeOK, MainStep PROVE TypeOK'
  OBVIOUS
<1> USE DEF TypeOK, main, workers, pools, readers, ghost
<1>1. CASE Listen
  BY <1>1 DEF Listen, MainPc
<1>2. CASE ListenFails
  BY <1>2 DEF ListenFails, Fails, MainPc
<1>3. CASE Accept
  BY <1>3 DEF Accept, MainPc
<1>4. CASE AcceptFails
  BY <1>4 DEF AcceptFails, Fails, MainPc
<1>5. CASE SpawnFails
  BY <1>5 DEF SpawnFails, MainPc
<1>6. ASSUME NEW w \in Workers, Spawn(w) PROVE TypeOK'
  BY <1>6 DEF Spawn, MainPc, WorkerPc
<1> QED
  BY <1>1, <1>2, <1>3, <1>4, <1>5, <1>6 DEF MainStep

LEMMA TypeWorker ==
  ASSUME TypeOK, Lifecycle, NEW w \in Workers, WorkerStep(w)
  PROVE  TypeOK'
<1> USE DEF TypeOK, Goto, main, workers, pools, readers, ghost
<1>1. CASE EventFlagNew(w)
  BY <1>1 DEF EventFlagNew, WorkerPc
<1>2. CASE EventFlagFails(w)
  BY <1>2 DEF EventFlagFails, Fails, TcpSocketClose, WorkerPc
<1>3. CASE AcquireState(w)
  BY <1>3 DEF AcquireState, WorkerPc
<1>4. CASE AcquireRefused(w)
  BY <1>4 DEF AcquireRefused, TcpSocketClose, WorkerPc
<1>5. CASE StartRx(w)
  BY <1>5 DEF StartRx, WorkerPc, ReaderPc
<1>6. CASE StartRxFails(w)
  <2>1. slot[w] \in ConnSlots
    BY <1>6 DEF StartRxFails, Lifecycle, HasSlot
  <2> QED
    BY <1>6, <2>1 DEF StartRxFails, Fails, TcpSocketClose, WorkerPc
<1>7. CASE Attach(w)
  BY <1>7 DEF Attach
<1>8. CASE Detach(w)
  BY <1>8 DEF Detach, drop
<1>9. CASE SessionEnds(w)
  BY <1>9 DEF SessionEnds, WorkerPc
<1>10. CASE CloseMark(w)
  BY <1>10 DEF CloseMark, WorkerPc
<1>11. CASE CloseSocket(w)
  BY <1>11 DEF CloseSocket, TcpSocketClose, WorkerPc
<1>12. CASE Join(w)
  BY <1>12 DEF Join, WorkerPc, ReaderPc
<1>13. CASE ReleaseState(w)
  BY <1>13 DEF ReleaseState, WorkerPc
<1>14. CASE DropSocket(w)
  BY <1>14 DEF DropSocket, TcpSocketClose, WorkerPc
<1>15. CASE DropTarget(w)
  BY <1>15 DEF DropTarget, drop, WorkerPc
<1>16. CASE EventFlagDelete(w)
  BY <1>16 DEF EventFlagDelete, WorkerPc
<1> QED
  BY <1>1, <1>2, <1>3, <1>4, <1>5, <1>6, <1>7, <1>8, <1>9, <1>10, <1>11, <1>12,
     <1>13, <1>14, <1>15, <1>16 DEF WorkerStep, CloseStep

LEMMA TypeReader ==
  ASSUME TypeOK, Lifecycle, NEW w \in Workers, ReaderStep(w) \/ RxRecv(w) \/ RxEnds(w)
  PROVE  TypeOK'
<1> USE DEF TypeOK, main, workers, pools, readers, ghost
<1>1. CASE RxTop(w)
  BY <1>1 DEF RxTop, ReaderPc
<1>2. CASE RxClosed(w) \/ RxRecv(w)
  BY <1>2 DEF RxClosed, RxRecv, ReaderPc
<1>3. CASE RxEnds(w)
  BY <1>3 DEF RxEnds, ReaderPc
<1> QED
  BY <1>1, <1>2, <1>3 DEF ReaderStep

\* The worker is the only one to move between its places.
LEMMA LifecycleWorker ==
  ASSUME TypeOK, Lifecycle, NEW w \in Workers, WorkerStep(w)
  PROVE  Lifecycle'
<1> USE NoFdAssumption, NoneAssumption
    DEF TypeOK, Lifecycle, Goto, HasSocket, HasSlot, HasSession, HasFlag, HasReader,
        Serving, WorkerPc, main, workers, pools, readers, ghost
<1>1. CASE EventFlagNew(w)
  BY <1>1 DEF EventFlagNew
<1>2. CASE EventFlagFails(w)
  BY <1>2 DEF EventFlagFails, Fails, TcpSocketClose
<1>3. CASE AcquireState(w)
  BY <1>3 DEF AcquireState
<1>4. CASE AcquireRefused(w)
  BY <1>4 DEF AcquireRefused, TcpSocketClose
<1>5. CASE StartRx(w)
  BY <1>5 DEF StartRx
<1>6. CASE StartRxFails(w)
  BY <1>6 DEF StartRxFails, Fails, TcpSocketClose
<1>7. CASE Attach(w)
  BY <1>7 DEF Attach
<1>8. CASE Detach(w)
  BY <1>8 DEF Detach, drop
<1>9. CASE SessionEnds(w)
  BY <1>9 DEF SessionEnds
<1>10. CASE CloseMark(w)
  BY <1>10 DEF CloseMark
<1>11. CASE CloseSocket(w)
  BY <1>11 DEF CloseSocket, TcpSocketClose
<1>12. CASE Join(w)
  BY <1>12 DEF Join
<1>13. CASE ReleaseState(w)
  BY <1>13 DEF ReleaseState
<1>14. CASE DropSocket(w)
  BY <1>14 DEF DropSocket, TcpSocketClose
<1>15. CASE DropTarget(w)
  BY <1>15 DEF DropTarget, drop
<1>16. CASE EventFlagDelete(w)
  BY <1>16 DEF EventFlagDelete
<1> QED
  BY <1>1, <1>2, <1>3, <1>4, <1>5, <1>6, <1>7, <1>8, <1>9, <1>10, <1>11,
     <1>12, <1>13, <1>14, <1>15, <1>16 DEF WorkerStep, CloseStep

LEMMA LifecycleReader ==
  ASSUME TypeOK, Lifecycle, NEW w \in Workers, ReaderStep(w) \/ RxRecv(w) \/ RxEnds(w)
  PROVE  Lifecycle'
BY DEF TypeOK, Lifecycle, ReaderStep, RxTop, RxClosed, RxRecv, RxEnds, main, workers,
   pools, readers, ghost

-----------------------------------------------------------------------------
\* Closing one's own socket closes nobody else's, and leaves no socket behind.
LEMMA CloseSteps ==
  ASSUME TypeOK, HandlesAreOpen, SocketsAreHeld, NEW w \in Workers, TcpSocketClose(w),
         UNCHANGED <<main, leaked>>
  PROVE  HandlesAreOpen' /\ SocketsAreHeld'
<1>1. /\ open' = open \ {fd[w]} /\ lfd' = lfd /\ afd' = afd /\ leaked' = leaked
      /\ \A v \in Workers : fd'[v] = IF v = w THEN NoFd ELSE fd[v]
  BY DEF TypeOK, TcpSocketClose, main
<1>2. HandlesAreOpen'
  BY <1>1, NoFdAssumption DEF TypeOK, HandlesAreOpen
<1>3. SocketsAreHeld'
  BY <1>1 DEF SocketsAreHeld
<1> QED
  BY <1>2, <1>3

LEMMA HandlesWorker ==
  ASSUME TypeOK, HandlesAreOpen, SocketsAreHeld, NEW w \in Workers, WorkerStep(w)
  PROVE  HandlesAreOpen' /\ SocketsAreHeld'
<1> USE DEF workers, pools, readers, ghost
<1>1. CASE \/ EventFlagFails(w) \/ AcquireRefused(w) \/ StartRxFails(w)
           \/ CloseSocket(w) \/ DropSocket(w)
  <2>1. TcpSocketClose(w) /\ UNCHANGED <<main, leaked>>
    BY <1>1 DEF EventFlagFails, AcquireRefused, StartRxFails, CloseSocket, DropSocket
  <2> QED
    BY <2>1, CloseSteps
<1>2. CASE \/ EventFlagNew(w) \/ AcquireState(w) \/ StartRx(w) \/ Attach(w) \/ Detach(w)
           \/ SessionEnds(w) \/ CloseMark(w) \/ Join(w) \/ ReleaseState(w)
           \/ DropTarget(w) \/ EventFlagDelete(w)
  <2>1. UNCHANGED <<open, main, fd, leaked>>
    BY <1>2 DEF EventFlagNew, AcquireState, StartRx, Attach, Detach, SessionEnds, CloseMark,
       Join, ReleaseState, DropTarget, EventFlagDelete
  <2> QED
    BY <2>1 DEF main, HandlesAreOpen, SocketsAreHeld
<1> QED
  BY <1>1, <1>2 DEF WorkerStep, CloseStep

\* A new socket has a number that no handle has; the accept loop closes its
\* own sockets only, or hands one over.
LEMMA HandlesMain ==
  ASSUME TypeOK, Lifecycle, MainPlaces, HandlesAreOpen, SocketsAreHeld, MainStep
  PROVE  HandlesAreOpen' /\ SocketsAreHeld' /\ MainPlaces' /\ Lifecycle'
<1> USE NoFdAssumption DEF TypeOK, MainPlaces, HandlesAreOpen, SocketsAreHeld,
        main, workers, pools, readers, ghost
<1>1. CASE Listen
  BY <1>1 DEF Listen, Lifecycle
<1>2. CASE ListenFails
  BY <1>2 DEF ListenFails, Lifecycle
<1>3. CASE Accept
  BY <1>3 DEF Accept, Lifecycle
<1>4. CASE AcceptFails
  BY <1>4 DEF AcceptFails, Lifecycle
<1>5. CASE SpawnFails
  BY <1>5 DEF SpawnFails, Lifecycle
<1>6. ASSUME NEW w \in Workers, Spawn(w)
      PROVE  HandlesAreOpen' /\ SocketsAreHeld' /\ MainPlaces' /\ Lifecycle'
  <2>1. fd[w] = NoFd
    BY <1>6 DEF Spawn, Lifecycle, HasSocket
  <2>2. HandlesAreOpen' /\ SocketsAreHeld' /\ MainPlaces'
    BY <1>6, <2>1 DEF Spawn
  <2>3. Lifecycle'
    BY <1>6 DEF Spawn, Lifecycle, HasSocket, HasSlot, HasSession, HasFlag, HasReader,
       Serving, WorkerPc
  <2> QED
    BY <2>2, <2>3
<1> QED
  BY <1>1, <1>2, <1>3, <1>4, <1>5, <1>6 DEF MainStep

-----------------------------------------------------------------------------
\* A connection slot goes from free to one worker and back, or is lost.
LEMMA ConnsWorker ==
  ASSUME TypeOK, Lifecycle, ConnsAreHeld, NEW w \in Workers, WorkerStep(w)
  PROVE  ConnsAreHeld'
<1> USE NoneAssumption DEF workers, pools, readers, ghost
<1>1. CASE AcquireState(w)
  <2>1. slot[w] = None
    BY <1>1 DEF AcquireState, Lifecycle, HasSlot
  <2>2. PICK c \in ConnSlots \ claimed :
          claimed' = claimed \cup {c} /\ slot' = [slot EXCEPT ![w] = c] /\ lost' = lost
    BY <1>1 DEF AcquireState
  <2>3. \A v \in Workers : slot'[v] = IF v = w THEN c ELSE slot[v]
    BY <2>2 DEF TypeOK
  <2> QED
    BY <2>1, <2>2, <2>3 DEF ConnsAreHeld
<1>2. CASE StartRxFails(w)
  <2>1. slot[w] # None /\ slot' = [slot EXCEPT ![w] = None]
        /\ lost' = lost \cup {slot[w]} /\ claimed' = claimed
    BY <1>2 DEF StartRxFails, Lifecycle, HasSlot
  <2>2. \A v \in Workers : slot'[v] = IF v = w THEN None ELSE slot[v]
    BY <2>1 DEF TypeOK
  <2> QED
    BY <2>1, <2>2 DEF ConnsAreHeld
<1>3. CASE ReleaseState(w)
  <2>1. slot[w] # None /\ slot' = [slot EXCEPT ![w] = None]
        /\ lost' = lost /\ claimed' = claimed \ {slot[w]}
    BY <1>3 DEF ReleaseState, Lifecycle, HasSlot
  <2>2. \A v \in Workers : slot'[v] = IF v = w THEN None ELSE slot[v]
    BY <2>1 DEF TypeOK
  <2> QED
    BY <2>1, <2>2 DEF ConnsAreHeld
<1>4. CASE \/ EventFlagNew(w) \/ EventFlagFails(w) \/ AcquireRefused(w) \/ StartRx(w)
           \/ Attach(w) \/ Detach(w) \/ SessionEnds(w) \/ CloseMark(w) \/ CloseSocket(w)
           \/ Join(w) \/ DropSocket(w) \/ DropTarget(w) \/ EventFlagDelete(w)
  <2>1. UNCHANGED <<claimed, lost, slot>>
    BY <1>4 DEF EventFlagNew, EventFlagFails, AcquireRefused, StartRx, Attach, Detach,
       SessionEnds, CloseMark, CloseSocket, Join, DropSocket, DropTarget, EventFlagDelete
  <2> QED
    BY <2>1 DEF ConnsAreHeld
<1> QED
  BY <1>1, <1>2, <1>3, <1>4 DEF WorkerStep, CloseStep

\* A session goes from free to one worker, with its flag, and back.
LEMMA SessionsWorker ==
  ASSUME TypeOK, SessionsAreHeld, FlagIsOwners, NEW w \in Workers, WorkerStep(w)
  PROVE  SessionsAreHeld' /\ FlagIsOwners'
<1> USE NoneAssumption, NoPidAssumption DEF workers, pools, readers, ghost
<1>1. CASE Attach(w)
  <2>1. PICK s \in SessionSlots, p \in Pids :
          /\ pid[s] = NoPid /\ pid' = [pid EXCEPT ![s] = p]
          /\ sflag' = [sflag EXCEPT ![s] = w] /\ sess' = [sess EXCEPT ![w] = s]
    BY <1>1 DEF Attach
  <2>2. sess[w] = None
    BY <1>1 DEF Attach
  <2>3. /\ \A t \in SessionSlots : /\ pid'[t] = IF t = s THEN p ELSE pid[t]
                                   /\ sflag'[t] = IF t = s THEN w ELSE sflag[t]
        /\ \A v \in Workers : sess'[v] = IF v = w THEN s ELSE sess[v]
    BY <2>1 DEF TypeOK
  <2>4. s # None /\ p # NoPid /\ w # None
    OBVIOUS
  <2>5. \A v \in Workers : sess[v] # s
    BY <2>1 DEF SessionsAreHeld
  <2>6. ASSUME NEW t \in SessionSlots
        PROVE  /\ (pid'[t] # NoPid) = (\E v \in Workers : sess'[v] = t)
               /\ \A v \in Workers : sess'[v] = t => sflag'[t] = v
    <3>1. CASE t = s
      BY <3>1, <2>3, <2>4, <2>5
    <3>2. CASE t # s
      <4>1. pid'[t] = pid[t] /\ sflag'[t] = sflag[t]
        BY <2>3, <3>2
      <4>2. \A v \in Workers : sess'[v] = t <=> sess[v] = t
        BY <2>2, <2>3, <3>2
      <4> QED
        BY <4>1, <4>2 DEF SessionsAreHeld
    <3> QED
      BY <3>1, <3>2
  <2>7. SessionsAreHeld'
    BY <2>6 DEF SessionsAreHeld
  <2>8. ASSUME NEW t \in SessionSlots, sflag'[t] # None PROVE sess'[sflag'[t]] = t
    BY <2>2, <2>3, <2>4, <2>8 DEF TypeOK, FlagIsOwners
  <2> QED
    BY <2>7, <2>8 DEF FlagIsOwners
<1>2. CASE Detach(w) \/ DropTarget(w)
  <2>1. drop(w)
    BY <1>2 DEF Detach, DropTarget
  <2>2. /\ \A s \in SessionSlots : /\ pid'[s] = IF s = sess[w] THEN NoPid ELSE pid[s]
                                   /\ sflag'[s] = IF s = sess[w] THEN None ELSE sflag[s]
        /\ \A v \in Workers : sess'[v] = IF v = w THEN None ELSE sess[v]
    BY <2>1 DEF drop, TypeOK
  <2>3. ASSUME NEW t \in SessionSlots
        PROVE  /\ (pid'[t] # NoPid) = (\E v \in Workers : sess'[v] = t)
               /\ \A v \in Workers : sess'[v] = t => sflag'[t] = v
    <3>1. t # None
      OBVIOUS
    <3>2. CASE t = sess[w]
      <4>1. \A v \in Workers : sess[v] = t => v = w
        BY <3>2 DEF SessionsAreHeld
      <4> QED
        BY <2>2, <3>1, <3>2, <4>1
    <3>3. CASE t # sess[w]
      <4>1. pid'[t] = pid[t] /\ sflag'[t] = sflag[t]
        BY <2>2, <3>3
      <4>2. \A v \in Workers : sess'[v] = t <=> sess[v] = t
        BY <2>2, <3>1, <3>3
      <4> QED
        BY <4>1, <4>2 DEF SessionsAreHeld
    <3> QED
      BY <3>2, <3>3
  <2>4. SessionsAreHeld'
    BY <2>3 DEF SessionsAreHeld
  <2>5. ASSUME NEW t \in SessionSlots, sflag'[t] # None PROVE sess'[sflag'[t]] = t
    <3>1. t # sess[w] /\ sflag'[t] = sflag[t]
      BY <2>2, <2>5
    <3>2. sflag[t] \in Workers /\ sess[sflag[t]] = t
      BY <2>5, <3>1 DEF TypeOK, FlagIsOwners
    <3> QED
      BY <2>2, <3>1, <3>2
  <2> QED
    BY <2>4, <2>5 DEF FlagIsOwners
<1>3. CASE \/ EventFlagNew(w) \/ EventFlagFails(w) \/ AcquireState(w) \/ AcquireRefused(w)
           \/ StartRx(w) \/ StartRxFails(w) \/ SessionEnds(w) \/ CloseMark(w)
           \/ CloseSocket(w) \/ Join(w) \/ ReleaseState(w) \/ DropSocket(w)
           \/ EventFlagDelete(w)
  <2>1. UNCHANGED <<pid, sflag, sess>>
    BY <1>3 DEF EventFlagNew, EventFlagFails, AcquireState, AcquireRefused, StartRx,
       StartRxFails, SessionEnds, CloseMark, CloseSocket, Join, ReleaseState, DropSocket,
       EventFlagDelete
  <2> QED
    BY <2>1 DEF SessionsAreHeld, FlagIsOwners
<1> QED
  BY <1>1, <1>2, <1>3 DEF WorkerStep, CloseStep

\* Outside the worker nothing that the pools' owners have changes hands.
LEMMA PoolsOther ==
  ASSUME ConnsAreHeld, SessionsAreHeld, FlagIsOwners,
         UNCHANGED <<claimed, lost, slot, pid, sflag, sess>>
  PROVE  ConnsAreHeld' /\ SessionsAreHeld' /\ FlagIsOwners'
<1>1. ConnsAreHeld'
  BY DEF ConnsAreHeld
<1>2. SessionsAreHeld'
  BY DEF SessionsAreHeld
<1>3. FlagIsOwners'
  BY DEF FlagIsOwners
<1> QED
  BY <1>1, <1>2, <1>3

LEMMA NextInv == Inv /\ [Next]_vars => Inv'
<1> SUFFICES ASSUME Inv, [Next]_vars PROVE Inv'
  OBVIOUS
<1> USE DEF Inv
<1>1. CASE MainStep
  <2>1. UNCHANGED <<claimed, lost, slot, pid, sflag, sess>>
    BY <1>1 DEF MainStep, Listen, ListenFails, Accept, AcceptFails, SpawnFails, Spawn,
       workers, pools, ghost
  <2> QED
    BY <1>1, <2>1, TypeMain, HandlesMain, PoolsOther
<1>2. ASSUME NEW w \in Workers, WorkerStep(w) PROVE Inv'
  <2>1. UNCHANGED main
    BY <1>2 DEF WorkerStep, CloseStep, EventFlagNew, EventFlagFails, AcquireState,
       AcquireRefused, StartRx, StartRxFails, Attach, Detach, SessionEnds, CloseMark,
       CloseSocket, Join, ReleaseState, DropSocket, DropTarget, EventFlagDelete
  <2>2. MainPlaces'
    BY <2>1 DEF main, MainPlaces
  <2> QED
    BY <1>2, <2>2, TypeWorker, LifecycleWorker, HandlesWorker, ConnsWorker, SessionsWorker
<1>3. ASSUME NEW w \in Workers, ReaderStep(w) \/ RxRecv(w) \/ RxEnds(w) PROVE Inv'
  <2>1. UNCHANGED <<open, main, fd, leaked, claimed, lost, slot, pid, sflag, sess>>
    BY <1>3 DEF ReaderStep, RxTop, RxClosed, RxRecv, RxEnds, workers, pools, ghost
  <2>2. MainPlaces' /\ HandlesAreOpen' /\ SocketsAreHeld'
    BY <2>1 DEF main, MainPlaces, HandlesAreOpen, SocketsAreHeld
  <2> QED
    BY <1>3, <2>1, <2>2, TypeReader, LifecycleReader, PoolsOther
<1>4. CASE UNCHANGED vars
  <2> USE <1>4 DEF vars, main, workers, pools, readers, ghost
  <2>1. TypeOK'
    BY DEF TypeOK
  <2>2. Lifecycle' /\ MainPlaces'
    BY DEF Lifecycle, MainPlaces
  <2>3. HandlesAreOpen' /\ SocketsAreHeld'
    BY DEF HandlesAreOpen, SocketsAreHeld
  <2> QED
    BY <2>1, <2>2, <2>3, PoolsOther
<1> QED
  BY <1>1, <1>2, <1>3, <1>4 DEF Next

LEMMA Invariance == Spec => []Inv
  BY InitInv, NextInv, PTL DEF Spec

-----------------------------------------------------------------------------
\* Every variable of the server keeps its type.
THEOREM TypeCorrectness == Spec => []TypeOK
<1>1. Inv => TypeOK
  BY DEF Inv
<1> QED
  BY <1>1, Invariance, PTL

\* No handle outlives its socket, and no socket has two handles: a second
\* TcpSocket::close() never closes a stranger's connection.
THEOREM HandlesNameOneSocket == Spec => []HandlesAreOpen
<1>1. Inv => HandlesAreOpen
  BY DEF Inv
<1> QED
  BY <1>1, Invariance, PTL

\* Every socket is closed with its handle, but for those of a failed listen()
\* or accept().
THEOREM SocketsAreClosed == Spec => []SocketsAreHeld
<1>1. Inv => SocketsAreHeld
  BY DEF Inv
<1> QED
  BY <1>1, Invariance, PTL

\* The slots of both pools are given back, whichever way a connection ends,
\* but for the connection slot of one whose net_rx did not start.
THEOREM SlotsAreGivenBack == Spec => []SlotsAreHeld
<1>1. Inv => SlotsAreHeld
  BY DEF Inv, ConnsAreHeld, SessionsAreHeld, SlotsAreHeld
<1> QED
  BY <1>1, Invariance, PTL

\* When a worker deletes its event flag, its net_rx has ended and no session
\* slot has the flag.
THEOREM FlagIsDeletedLast == Spec => []FlagOutlivesUsers
<1>1. Inv => FlagOutlivesUsers
  <2> SUFFICES ASSUME Inv PROVE FlagOutlivesUsers
    OBVIOUS
  <2>1. ASSUME NEW w \in Workers, rpc[w] \in Running PROVE w \in evflag
    BY <2>1 DEF Inv, Lifecycle, Running, HasReader, HasFlag, WorkerPc
  <2>2. ASSUME NEW s \in SessionSlots, sflag[s] # None PROVE sflag[s] \in evflag
    <3>1. sflag[s] \in Workers /\ sess[sflag[s]] = s /\ s # None
      BY <2>2, NoneAssumption DEF Inv, TypeOK, FlagIsOwners
    <3> QED
      BY <3>1 DEF Inv, Lifecycle, HasSession, HasFlag, WorkerPc
  <2> QED
    BY <2>1, <2>2 DEF FlagOutlivesUsers
<1> QED
  BY <1>1, Invariance, PTL

\* net_rx can use a number that is not its own socket's only while its worker
\* is between close and join, and the slot it writes to is still claimed.
THEOREM ForeignRecvIsBounded == Spec => []ForeignRecvOnlyInClose
<1>1. Inv => ForeignRecvOnlyInClose
  <2> SUFFICES ASSUME Inv, NEW w \in Workers, Foreign(w)
               PROVE  wpc[w] = "join" /\ slot[w] \in claimed
    BY DEF ForeignRecvOnlyInClose
  <2>1. wpc[w] = "join"
    BY DEF Inv, Lifecycle, Foreign, HasReader, Serving
  <2>2. slot[w] # None
    BY <2>1 DEF Inv, Lifecycle, HasSlot
  <2> QED
    BY <2>1, <2>2 DEF Inv, ConnsAreHeld
<1> QED
  BY <1>1, Invariance, PTL
=============================================================================
