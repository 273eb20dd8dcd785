------------------------------- MODULE Server -------------------------------
(***************************************************************************)
(* The whole server: the accept loop (gdb/main.rs), the sockets it opens   *)
(* (kernel/tcp_socket.rs), a worker and a net_rx thread per connection     *)
(* (kernel/thread.rs), and the two static pools they claim from,           *)
(* CONN_POOL (gdb/tcpconn.rs) and SESSION_POOL (gdb/sessions.rs).          *)
(*                                                                         *)
(* This module is about who owns what, and in which order it is given      *)
(* back.  What a connection does with its buffer is in TcpConn, what a     *)
(* session does with its process in DebugSession.                          *)
(***************************************************************************)
EXTENDS Naturals, FiniteSets

CONSTANTS Fds,           \* the numbers the kernel gives to sockets
          NoFd,          \* -1, a handle without a socket
          Workers,       \* the gdb_worker threads
          ConnSlots,     \* CONN_POOL
          SessionSlots,  \* SESSION_POOL
          Pids, NoPid,   \* the processes, and PID_UNUSED
          None,          \* no slot, no flag
          MaxFailures    \* bound on the kernel calls that fail

ASSUME NoFdAssumption == NoFd \notin Fds
ASSUME NoPidAssumption == NoPid \notin Pids
ASSUME NoneAssumption ==
  None \notin Workers /\ None \notin ConnSlots /\ None \notin SessionSlots

VARIABLES
  open,             \* the sockets the kernel holds
  mpc, lfd, afd,    \* main_thread: its place, the listener, accept()'s socket
  wpc, fd, slot,    \* gdb_thread: its place, its TcpSocket, its ConnState
  sess,             \* VitaTarget::session
  evflag,           \* the workers whose event flag exists
  claimed, closed,  \* CONN_POOL
  pid, sflag,       \* SESSION_POOL: pid, and whose event flag it has
  rpc, rxfd,        \* net_rx_thread: its place, its copy of the raw socket
  leaked, lost,     \* sockets and connection slots that nobody gives back
  failures

main    == <<mpc, lfd, afd>>
workers == <<wpc, fd, slot, sess>>
pools   == <<claimed, closed, pid, sflag>>
readers == <<rpc, rxfd>>
ghost   == <<leaked, lost, failures>>
vars    == <<open, main, workers, evflag, pools, readers, ghost>>

MainPc   == {"delay", "accept", "spawn"}
WorkerPc == {"none", "evflag", "acquire", "start_rx", "serve", "mark", "close",
             "join", "release", "drop_socket", "detach", "evdel"}
ReaderPc == {"off", "top", "recv", "done"}
Running  == {"top", "recv"}

Init ==
  /\ open = {} /\ mpc = "delay" /\ lfd = NoFd /\ afd = NoFd
  /\ wpc = [w \in Workers |-> "none"] /\ fd = [w \in Workers |-> NoFd]
  /\ slot = [w \in Workers |-> None] /\ sess = [w \in Workers |-> None]
  /\ evflag = {}
  /\ claimed = {} /\ closed = [c \in ConnSlots |-> FALSE]
  /\ pid = [s \in SessionSlots |-> NoPid] /\ sflag = [s \in SessionSlots |-> None]
  /\ rpc = [w \in Workers |-> "off"] /\ rxfd = [w \in Workers |-> NoFd]
  /\ leaked = {} /\ lost = {} /\ failures = 0

\* One more kernel call fails.
Fails == failures < MaxFailures /\ failures' = failures + 1

-----------------------------------------------------------------------------
(***************************************************************************)
(* main_thread: listen, then accept and hand over; an error of accept()    *)
(* drops the listener and starts over a second later.                      *)
(***************************************************************************)
Listen ==
  /\ mpc = "delay"
  /\ \E s \in Fds \ open : lfd' = s /\ open' = open \cup {s}
  /\ mpc' = "accept"
  /\ UNCHANGED <<afd, workers, evflag, pools, readers, ghost>>

\* bind or listen fails: the raw socket has no owner and stays open.
ListenFails ==
  /\ mpc = "delay"
  /\ Fails
  /\ \E s \in Fds \ open : open' = open \cup {s} /\ leaked' = leaked \cup {s}
  /\ UNCHANGED <<main, workers, evflag, pools, readers, lost>>

Accept ==
  /\ mpc = "accept"
  /\ \E s \in Fds \ open : afd' = s /\ open' = open \cup {s}
  /\ mpc' = "spawn"
  /\ UNCHANGED <<lfd, workers, evflag, pools, readers, ghost>>

\* Mutant of AcceptFails: the listener is forgotten, not closed.
AcceptFailsKeepsListener ==
  /\ mpc = "accept"
  /\ Fails
  /\ open' = open
  /\ leaked' = leaked
  /\ lfd' = NoFd /\ mpc' = "delay"
  /\ UNCHANGED <<afd, workers, evflag, pools, readers, lost>>

\* ksceNetAccept fails, or ksceNetSetsockopt does and the accepted socket
\* stays open; the loop is left and the listener dropped.
AcceptFails ==
  /\ mpc = "accept"
  /\ Fails
  /\ \E new \in {{}} \cup {{s} : s \in Fds \ open} :
       /\ open' = (open \ {lfd}) \cup new
       /\ leaked' = leaked \cup new
  /\ lfd' = NoFd /\ mpc' = "delay"
  /\ UNCHANGED <<afd, workers, evflag, pools, readers, lost>>

\* handle_connection: the worker owns the socket from here.
Spawn(w) ==
  /\ mpc = "spawn"
  /\ wpc[w] = "none"
  /\ wpc' = [wpc EXCEPT ![w] = "evflag"]
  /\ fd' = [fd EXCEPT ![w] = afd]
  /\ afd' = NoFd /\ mpc' = "accept"
  /\ UNCHANGED <<open, lfd, slot, sess, evflag, pools, readers, ghost>>

\* The thread cannot be created or started: the socket is dropped, either
\* by handle_connection or by start_thread, which got it as its argument.
SpawnFails ==
  /\ mpc = "spawn"
  /\ open' = open \ {afd}
  /\ afd' = NoFd /\ mpc' = "accept"
  /\ UNCHANGED <<lfd, workers, evflag, pools, readers, ghost>>

-----------------------------------------------------------------------------
(***************************************************************************)
(* gdb_thread.                                                             *)
(***************************************************************************)
Goto(w, l) == wpc' = [wpc EXCEPT ![w] = l]

\* Mutant of TcpSocketClose: the handle keeps its number.
TcpSocketCloseTwice(w) == open' = open \ {fd[w]} /\ UNCHANGED fd

\* TcpSocket::close, also from Drop: nothing happens the second time.
TcpSocketClose(w) ==
  /\ open' = open \ {fd[w]}
  /\ fd' = [fd EXCEPT ![w] = NoFd]

EventFlagNew(w) ==
  /\ wpc[w] = "evflag"
  /\ evflag' = evflag \cup {w}
  /\ Goto(w, "acquire")
  /\ UNCHANGED <<open, main, fd, slot, sess, pools, readers, ghost>>

EventFlagFails(w) ==
  /\ wpc[w] = "evflag"
  /\ Fails
  /\ TcpSocketClose(w)
  /\ Goto(w, "none")
  /\ UNCHANGED <<main, slot, sess, evflag, pools, readers, leaked, lost>>

\* acquire_state and ConnState::reset.
AcquireState(w) ==
  /\ wpc[w] = "acquire"
  /\ \E c \in ConnSlots \ claimed :
       /\ claimed' = claimed \cup {c}
       /\ closed' = [closed EXCEPT ![c] = FALSE]
       /\ slot' = [slot EXCEPT ![w] = c]
  /\ Goto(w, "start_rx")
  /\ UNCHANGED <<open, main, fd, sess, evflag, pid, sflag, readers, ghost>>

\* All slots are taken: TcpConn::new drops the socket.
AcquireRefused(w) ==
  /\ wpc[w] = "acquire"
  /\ ConnSlots \subseteq claimed
  /\ TcpSocketClose(w)
  /\ Goto(w, "evdel")
  /\ UNCHANGED <<main, slot, sess, evflag, pools, readers, ghost>>

StartRx(w) ==
  /\ wpc[w] = "start_rx"
  /\ rpc' = [rpc EXCEPT ![w] = "top"]
  /\ rxfd' = [rxfd EXCEPT ![w] = fd[w]]
  /\ Goto(w, "serve")
  /\ UNCHANGED <<open, main, fd, slot, sess, evflag, pools, ghost>>

\* net_rx cannot be created or started: the slot stays claimed for ever.
StartRxFails(w) ==
  /\ wpc[w] = "start_rx"
  /\ Fails
  /\ TcpSocketClose(w)
  /\ lost' = lost \cup {slot[w]}
  /\ slot' = [slot EXCEPT ![w] = None]
  /\ Goto(w, "evdel")
  /\ UNCHANGED <<main, sess, evflag, pools, readers, leaked>>

\* VitaTarget::attach and GdbSession::new.  Nothing keeps a process from
\* being attached by two connections.
Attach(w) ==
  /\ wpc[w] = "serve"
  /\ sess[w] = None
  /\ \E s \in SessionSlots, p \in Pids :
       /\ pid[s] = NoPid
       /\ pid' = [pid EXCEPT ![s] = p]
       /\ sflag' = [sflag EXCEPT ![s] = w]
       /\ sess' = [sess EXCEPT ![w] = s]
  /\ UNCHANGED <<open, main, wpc, fd, slot, evflag, claimed, closed, readers, ghost>>

\* Mutant of drop: reset() leaves the event flag in the slot.
dropKeepsFlag(w) ==
  /\ pid' = [s \in SessionSlots |-> IF s = sess[w] THEN NoPid ELSE pid[s]]
  /\ sess' = [sess EXCEPT ![w] = None]
  /\ UNCHANGED sflag

\* VitaTarget::detach drops the session, if there is one.
drop(w) ==
  /\ pid' = [s \in SessionSlots |-> IF s = sess[w] THEN NoPid ELSE pid[s]]
  /\ sflag' = [s \in SessionSlots |-> IF s = sess[w] THEN None ELSE sflag[s]]
  /\ sess' = [sess EXCEPT ![w] = None]

Detach(w) ==
  /\ wpc[w] = "serve"
  /\ sess[w] # None
  /\ drop(w)
  /\ UNCHANGED <<open, main, wpc, fd, slot, evflag, claimed, closed, readers, ghost>>

\* run_session returns and with it the gdb stub, which owns the TcpConn.
SessionEnds(w) ==
  /\ wpc[w] = "serve"
  /\ Goto(w, "mark")
  /\ UNCHANGED <<open, main, fd, slot, sess, evflag, pools, readers, ghost>>

\* TcpConn::close, then the drop of the TcpSocket in it.
CloseMark(w) ==
  /\ wpc[w] = "mark"
  /\ closed' = [closed EXCEPT ![slot[w]] = TRUE]
  /\ Goto(w, "close")
  /\ UNCHANGED <<open, main, fd, slot, sess, evflag, claimed, pid, sflag, readers, ghost>>

\* Mutant of CloseSocket: the socket is left to TcpSocket's own Drop, which
\* comes after the join.
CloseSocketLater(w) ==
  /\ wpc[w] = "close"
  /\ Goto(w, "join")
  /\ UNCHANGED <<open, main, fd, slot, sess, evflag, pools, readers, ghost>>

CloseSocket(w) ==
  /\ wpc[w] = "close"
  /\ TcpSocketClose(w)
  /\ Goto(w, "join")
  /\ UNCHANGED <<main, slot, sess, evflag, pools, readers, ghost>>

\* Mutant of Join: the worker does not wait for net_rx.
JoinSkipped(w) ==
  /\ wpc[w] = "join"
  /\ Goto(w, "release")
  /\ UNCHANGED <<open, main, fd, slot, sess, evflag, pools, readers, ghost>>

\* JoinableThread::join; waiting for a thread that exists does not fail.
Join(w) ==
  /\ wpc[w] = "join"
  /\ rpc[w] = "done"
  /\ rpc' = [rpc EXCEPT ![w] = "off"]
  /\ Goto(w, "release")
  /\ UNCHANGED <<open, main, fd, slot, sess, evflag, pools, rxfd, ghost>>

\* Mutant of ReleaseState: the slot is not given back.
ReleaseStateForgotten(w) ==
  /\ wpc[w] = "release"
  /\ slot' = [slot EXCEPT ![w] = None]
  /\ Goto(w, "drop_socket")
  /\ UNCHANGED <<open, main, fd, sess, evflag, pools, readers, ghost>>

ReleaseState(w) ==
  /\ wpc[w] = "release"
  /\ claimed' = claimed \ {slot[w]}
  /\ slot' = [slot EXCEPT ![w] = None]
  /\ Goto(w, "drop_socket")
  /\ UNCHANGED <<open, main, fd, sess, evflag, closed, pid, sflag, readers, ghost>>

DropSocket(w) ==
  /\ wpc[w] = "drop_socket"
  /\ TcpSocketClose(w)
  /\ Goto(w, "detach")
  /\ UNCHANGED <<main, slot, sess, evflag, pools, readers, ghost>>

\* The locals of gdb_thread go in reverse order: the target ...
DropTarget(w) ==
  /\ wpc[w] = "detach"
  /\ drop(w)
  /\ Goto(w, "evdel")
  /\ UNCHANGED <<open, main, fd, slot, evflag, claimed, closed, readers, ghost>>

\* ... and then the event flag; the thread deletes itself.
EventFlagDelete(w) ==
  /\ wpc[w] = "evdel"
  /\ evflag' = evflag \ {w}
  /\ Goto(w, "none")
  /\ UNCHANGED <<open, main, fd, slot, sess, pools, readers, ghost>>

-----------------------------------------------------------------------------
(***************************************************************************)
(* net_rx_thread of w.  It has the number of the socket, not the socket:   *)
(* once the worker has closed it, the number may belong to another one.    *)
(***************************************************************************)
RxTop(w) ==
  /\ rpc[w] = "top"
  /\ rpc' = [rpc EXCEPT ![w] = IF closed[slot[w]] THEN "done" ELSE "recv"]
  /\ UNCHANGED <<open, main, workers, evflag, pools, rxfd, ghost>>

\* Data arrives on the socket of that number and goes into the buffer.
RxRecv(w) ==
  /\ rpc[w] = "recv"
  /\ rxfd[w] \in open
  /\ rpc' = [rpc EXCEPT ![w] = "top"]
  /\ UNCHANGED <<open, main, workers, evflag, pools, rxfd, ghost>>

\* The peer has shut down and the connection is marked as closed, or it
\* broke and is not.
RxEnds(w) ==
  /\ rpc[w] = "recv"
  /\ rxfd[w] \in open
  /\ rpc' = [rpc EXCEPT ![w] = "done"]
  /\ \/ closed' = [closed EXCEPT ![slot[w]] = TRUE]
     \/ UNCHANGED closed
  /\ UNCHANGED <<open, main, workers, evflag, claimed, pid, sflag, rxfd, ghost>>

\* There is no socket of that number any more.
RxClosed(w) ==
  /\ rpc[w] = "recv"
  /\ rxfd[w] \notin open
  /\ rpc' = [rpc EXCEPT ![w] = "done"]
  /\ UNCHANGED <<open, main, workers, evflag, pools, rxfd, ghost>>

CloseStep(w) ==
  \/ CloseMark(w) \/ CloseSocket(w) \/ Join(w) \/ ReleaseState(w)
  \/ DropSocket(w) \/ DropTarget(w) \/ EventFlagDelete(w)

ReaderStep(w) == RxTop(w) \/ RxClosed(w)

WorkerStep(w) ==
  \/ EventFlagNew(w) \/ EventFlagFails(w) \/ AcquireState(w) \/ AcquireRefused(w)
  \/ StartRx(w) \/ StartRxFails(w) \/ Attach(w) \/ Detach(w) \/ SessionEnds(w)
  \/ CloseStep(w)

MainStep ==
  \/ Listen \/ ListenFails \/ Accept \/ AcceptFails \/ SpawnFails
  \/ \E w \in Workers : Spawn(w)

Next ==
  \/ MainStep
  \/ \E w \in Workers : WorkerStep(w) \/ ReaderStep(w) \/ RxRecv(w) \/ RxEnds(w)

Spec == Init /\ [][Next]_vars

\* Worker and net_rx are threads of a preemptive kernel; neither the peer
\* nor the end of a session is assumed.
FairSpec ==
  Spec /\ \A w \in Workers : WF_vars(CloseStep(w)) /\ WF_vars(ReaderStep(w))

-----------------------------------------------------------------------------
(***************************************************************************)
(* Properties.                                                             *)
(***************************************************************************)

\* Every variable keeps its type.
TypeOK ==
  /\ open \subseteq Fds /\ mpc \in MainPc
  /\ lfd \in Fds \cup {NoFd} /\ afd \in Fds \cup {NoFd}
  /\ wpc \in [Workers -> WorkerPc] /\ fd \in [Workers -> Fds \cup {NoFd}]
  /\ slot \in [Workers -> ConnSlots \cup {None}]
  /\ sess \in [Workers -> SessionSlots \cup {None}]
  /\ evflag \subseteq Workers
  /\ claimed \subseteq ConnSlots /\ closed \in [ConnSlots -> BOOLEAN]
  /\ pid \in [SessionSlots -> Pids \cup {NoPid}]
  /\ sflag \in [SessionSlots -> Workers \cup {None}]
  /\ rpc \in [Workers -> ReaderPc] /\ rxfd \in [Workers -> Fds \cup {NoFd}]
  /\ leaked \subseteq Fds /\ lost \subseteq ConnSlots /\ failures \in Nat

\* A handle never outlives its socket and no two handles name one socket, so
\* that closing twice (TcpConn::close, then Drop) never hits a stranger's.
HandlesAreOpen ==
  /\ {lfd, afd} \cup {fd[w] : w \in Workers} \subseteq open \cup {NoFd}
  /\ lfd = NoFd \/ lfd # afd
  /\ \A w \in Workers :
       fd[w] # NoFd => /\ fd[w] # lfd /\ fd[w] # afd
                       /\ \A v \in Workers \ {w} : fd[v] # fd[w]

\* On every path, errors included, a socket is closed when its handle goes;
\* the only sockets left over are those of a failed listen() or accept().
SocketsAreHeld ==
  open \subseteq leaked \cup {lfd, afd} \cup {fd[w] : w \in Workers}

\* A slot of either pool is in use exactly as long as one connection has it,
\* however the connection ends, except for the connection slots of those whose
\* net_rx could not be started; and a session wakes the worker that has it.
SlotsAreHeld ==
  /\ claimed = lost \cup ({slot[w] : w \in Workers} \ {None})
  /\ \A w \in Workers : slot[w] # None =>
       slot[w] \notin lost /\ \A v \in Workers \ {w} : slot[v] # slot[w]
  /\ \A s \in SessionSlots :
       /\ (pid[s] # NoPid) = (\E w \in Workers : sess[w] = s)
       /\ \A w \in Workers : sess[w] = s => sflag[s] = w

\* An event flag is deleted only after everything that knows its number is
\* gone: the connection's net_rx thread and the session it may have claimed.
FlagOutlivesUsers ==
  /\ \A w \in Workers : rpc[w] \in Running => w \in evflag
  /\ \A s \in SessionSlots : sflag[s] # None => sflag[s] \in evflag

Foreign(w) == rpc[w] = "recv" /\ rxfd[w] # fd[w]

\* net_rx may receive from a number that is no longer its own only between
\* its worker's close and join: no longer, and never into a freed slot.
ForeignRecvOnlyInClose ==
  \A w \in Workers : Foreign(w) => wpc[w] = "join" /\ slot[w] \in claimed

\* A connection that ends gives everything back, unless its net_rx hangs on
\* a number that the kernel has given to another socket meanwhile.
EndingEnds ==
  \A w \in Workers : (wpc[w] = "mark") ~> (wpc[w] = "none" \/ Foreign(w))
=============================================================================
