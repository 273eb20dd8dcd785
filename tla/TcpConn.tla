------------------------------ MODULE TcpConn -------------------------------
(***************************************************************************)
(* The receive side of one gdb connection (vita-gdb/src/gdb/tcpconn.rs).   *)
(*                                                                         *)
(* Two kernel threads share one ConnState of CONN_POOL: net_rx_thread      *)
(* receives into `buf` and publishes a length, the gdb worker takes bytes  *)
(* out of it from its event loop.  They block on two bits of one event     *)
(* flag.  Every load, store and kernel call another thread can observe is  *)
(* a step of its own.  The slot is used by one connection after another.   *)
(***************************************************************************)
EXTENDS ConnBuffer

CONSTANT MaxSent       \* bound on what the peer sends in one connection

ASSUME MaxSentAssumption == MaxSent \in Nat

EV_WAKE_WORKER == "worker"
EV_WAKE_READER == "reader"

VARIABLES
  claimed, buf, len, closed, err,  \* ConnState
  readLen, wlen,                   \* TcpConn::read_len and read()'s local len
  wpc, rpc,                        \* where the worker and net_rx_thread are
  n,                               \* net_rx_thread's local n
  flag,                            \* the bits set in the event flag
  sock,                            \* our end of the socket is open
  rcvd,                            \* bytes ksceNetRecvfrom has returned
  sent, fin,                       \* the peer: bytes written, shut down
  delivered, seen                  \* what read() has returned so far

state == <<claimed, buf, len, closed, err>>
worker == <<readLen, wlen, wpc>>
reader == <<rpc, n>>
net    == <<sock, rcvd, sent, fin>>
ghost  == <<delivered, seen>>
vars   == <<state, worker, reader, flag, net, ghost>>

WorkerPc == {"off", "closed?", "len?", "byte", "release", "signal", "handle",
             "wait", "close", "close_socket", "wake_reader", "join",
             "release_state"}
ReaderPc == {"top", "len?", "wait", "recv", "got", "wake", "eof", "eof_wake",
             "failed", "err_wake", "done"}

\* The worker is inside TcpConn::close.
Closing == {"close", "close_socket", "wake_reader", "join", "release_state"}

Init ==
  /\ claimed = FALSE /\ buf = [i \in Offsets |-> Zero] /\ len = 0
  /\ closed = FALSE /\ err = FALSE
  /\ readLen = 0 /\ wlen = 0 /\ wpc = "off"
  /\ rpc = "done" /\ n = 0
  /\ flag = {}
  /\ sock = FALSE /\ rcvd = 0 /\ sent = <<>> /\ fin = FALSE
  /\ delivered = <<>> /\ seen = FALSE

-----------------------------------------------------------------------------
(***************************************************************************)
(* TcpConn::new.  acquire_state claims the slot and resets it; nobody else *)
(* touches the slot before net_rx is started, so this is one step.  The    *)
(* event flag is created by gdb_thread just before, the socket is fresh.   *)
(***************************************************************************)
\* Mutant of reset: the last connection's `closed` stays set.
resetKeepsClosed ==
  /\ len' = 0
  /\ UNCHANGED closed
  /\ err' = FALSE

reset ==
  /\ len' = 0
  /\ closed' = FALSE
  /\ err' = FALSE

New ==
  /\ wpc = "off"
  /\ ~claimed /\ claimed' = TRUE
  /\ reset
  /\ flag' = {} /\ readLen' = 0 /\ wpc' = "closed?"
  /\ rpc' = "top"
  /\ sock' = TRUE /\ rcvd' = 0 /\ sent' = <<>> /\ fin' = FALSE
  /\ delivered' = <<>> /\ seen' = FALSE
  /\ UNCHANGED <<buf, wlen, n>>

\* Creating or starting net_rx fails: `?` returns without release_state.
NewFails ==
  /\ wpc = "off"
  /\ ~claimed /\ claimed' = TRUE
  /\ reset
  /\ UNCHANGED <<buf, worker, reader, flag, net, ghost>>

\* acquire_state finds the slot claimed; the new connection is dropped.
NewRefused ==
  /\ wpc = "off"
  /\ claimed
  /\ UNCHANGED vars

-----------------------------------------------------------------------------
(***************************************************************************)
(* The worker: the event loop around TcpConn::read.                        *)
(***************************************************************************)
\* `closed` is loaded first: Err, Closed or go on.
ReadClosed ==
  /\ wpc = "closed?"
  /\ IF closed
     THEN /\ seen' = (seen \/ ~err)
          /\ wpc' = "close"
     ELSE wpc' = "len?" /\ UNCHANGED seen
  /\ UNCHANGED <<state, readLen, wlen, reader, flag, net, delivered>>

ReadLen ==
  /\ wpc = "len?"
  /\ wlen' = len
  /\ wpc' = IF len = 0 THEN "wait" ELSE "byte"
  /\ UNCHANGED <<state, readLen, reader, flag, net, ghost>>

ReadByte ==
  /\ wpc = "byte"
  /\ delivered' = Append(delivered, buf[readLen])
  /\ readLen' = readLen + 1
  /\ wpc' = IF readLen' = wlen THEN "release" ELSE "handle"
  /\ UNCHANGED <<state, wlen, reader, flag, net, seen>>

\* The buffer is used up and handed back to net_rx.
ReadRelease ==
  /\ wpc = "release"
  /\ readLen' = 0
  /\ len' = 0
  /\ wpc' = "signal"
  /\ UNCHANGED <<claimed, buf, closed, err, wlen, reader, flag, net, ghost>>

\* Mutant of ReadSignal: net_rx is not told that the buffer is free.
ReadSignalForgotten ==
  /\ wpc = "signal"
  /\ wpc' = "handle"
  /\ UNCHANGED <<state, readLen, wlen, reader, flag, net, ghost>>

ReadSignal ==
  /\ wpc = "signal"
  /\ flag' = flag \cup {EV_WAKE_READER}
  /\ wpc' = "handle"
  /\ UNCHANGED <<state, readLen, wlen, reader, net, ghost>>

(***************************************************************************)
(* gdb.incoming_data(byte): the packet may drop a debug session, whose     *)
(* reset() clears EV_WAKE_WORKER in this very flag, and it may end the     *)
(* connection.                                                             *)
(***************************************************************************)
Handle ==
  /\ wpc = "handle"
  /\ flag' \in {flag, flag \ {EV_WAKE_WORKER}}
  /\ wpc' \in {"closed?", "close"}
  /\ UNCHANGED <<state, readLen, wlen, reader, net, ghost>>

\* ksceKernelWaitEventFlag with SCE_EVENT_WAITCLEAR_PAT.
Wait ==
  /\ wpc = "wait"
  /\ EV_WAKE_WORKER \in flag
  /\ flag' = flag \ {EV_WAKE_WORKER}
  /\ wpc' = "closed?"
  /\ UNCHANGED <<state, readLen, wlen, reader, net, ghost>>

\* The loop ends for another reason: the wait fails, or a stop in idle.
Stop ==
  /\ wpc \in {"wait", "closed?"}
  /\ wpc' = "close"
  /\ UNCHANGED <<state, readLen, wlen, reader, flag, net, ghost>>

(***************************************************************************)
(* TcpConn::close, from Drop.                                              *)
(***************************************************************************)
CloseMark ==
  /\ wpc = "close"
  /\ closed' = TRUE
  /\ wpc' = "close_socket"
  /\ UNCHANGED <<claimed, buf, len, err, readLen, wlen, reader, flag, net, ghost>>

\* Mutant of CloseSocket: the socket stays open.
CloseSocketForgotten ==
  /\ wpc = "close_socket"
  /\ wpc' = "wake_reader"
  /\ UNCHANGED <<state, readLen, wlen, reader, flag, net, ghost>>

CloseSocket ==
  /\ wpc = "close_socket"
  /\ sock' = FALSE
  /\ wpc' = "wake_reader"
  /\ UNCHANGED <<state, readLen, wlen, reader, flag, rcvd, sent, fin, ghost>>

\* Mutant of CloseWake: net_rx is not woken.
CloseWakeForgotten ==
  /\ wpc = "wake_reader"
  /\ wpc' = "join"
  /\ UNCHANGED <<state, readLen, wlen, reader, flag, net, ghost>>

CloseWake ==
  /\ wpc = "wake_reader"
  /\ flag' = flag \cup {EV_WAKE_READER}
  /\ wpc' = "join"
  /\ UNCHANGED <<state, readLen, wlen, reader, net, ghost>>

\* Mutant of Join: close does not wait for net_rx.
JoinSkipped ==
  /\ wpc = "join"
  /\ wpc' = "release_state"
  /\ UNCHANGED <<state, readLen, wlen, reader, flag, net, ghost>>

Join ==
  /\ wpc = "join"
  /\ rpc = "done"
  /\ wpc' = "release_state"
  /\ UNCHANGED <<state, readLen, wlen, reader, flag, net, ghost>>

ReleaseState ==
  /\ wpc = "release_state"
  /\ claimed' = FALSE
  /\ wpc' = "off"
  /\ UNCHANGED <<buf, len, closed, err, readLen, wlen, reader, flag, net, ghost>>

-----------------------------------------------------------------------------
(***************************************************************************)
(* net_rx_thread.                                                          *)
(***************************************************************************)
RxTop ==
  /\ rpc = "top"
  /\ rpc' = IF closed THEN "done" ELSE "len?"
  /\ UNCHANGED <<state, worker, n, flag, net, ghost>>

\* Mutant of RxLen: the next receive starts over an unread buffer.
RxLenIgnored ==
  /\ rpc = "len?"
  /\ rpc' = "recv"
  /\ UNCHANGED <<state, worker, n, flag, net, ghost>>

RxLen ==
  /\ rpc = "len?"
  /\ rpc' = IF len # 0 THEN "wait" ELSE "recv"
  /\ UNCHANGED <<state, worker, n, flag, net, ghost>>

RxWait ==
  /\ rpc = "wait"
  /\ EV_WAKE_READER \in flag
  /\ flag' = flag \ {EV_WAKE_READER}
  /\ rpc' = "top"
  /\ UNCHANGED <<state, worker, n, net, ghost>>

\* The wait fails: the error is printed and the loop goes round.
RxWaitFails ==
  /\ rpc = "wait"
  /\ rpc' = "top"
  /\ UNCHANGED <<state, worker, n, flag, net, ghost>>

\* Mutant of RecvSizes: the size passed to ksceNetRecvfrom is one too many.
RecvSizesOverrun == 1 .. BufferSize + 1

\* The sizes ksceNetRecvfrom(buf.len()) may return when data has arrived.
RecvSizes == 1 .. BufferSize

\* ksceNetRecvfrom fills the front of buf with what has arrived.
RxRecv ==
  /\ rpc = "recv"
  /\ sock
  /\ \E k \in RecvSizes :
       /\ rcvd + k <= Len(sent)
       /\ buf' = [i \in Offsets |-> IF i < k THEN sent[rcvd + i + 1] ELSE buf[i]]
       /\ n' = k
       /\ rcvd' = rcvd + k
  /\ rpc' = "got"
  /\ UNCHANGED <<claimed, len, closed, err, worker, flag, sock, sent, fin, ghost>>

\* It returns 0 once the peer has shut down and everything was received.
RxEof ==
  /\ rpc = "recv"
  /\ sock
  /\ fin /\ rcvd = Len(sent)
  /\ rpc' = "eof"
  /\ UNCHANGED <<state, worker, n, flag, net, ghost>>

\* It fails because the worker closed the socket ...
RxRecvClosed ==
  /\ rpc = "recv"
  /\ ~sock
  /\ rpc' = "failed"
  /\ UNCHANGED <<state, worker, n, flag, net, ghost>>

\* ... or because the connection broke.
RxRecvFails ==
  /\ rpc = "recv"
  /\ sock
  /\ rpc' = "failed"
  /\ UNCHANGED <<state, worker, n, flag, net, ghost>>

RxStoreLen ==
  /\ rpc = "got"
  /\ len' = n
  /\ rpc' = "wake"
  /\ UNCHANGED <<claimed, buf, closed, err, worker, n, flag, net, ghost>>

\* Mutant of RxStoreClosed: the end of the stream is not recorded.
RxStoreClosedForgotten ==
  /\ rpc = "eof"
  /\ rpc' = "eof_wake"
  /\ UNCHANGED <<state, worker, n, flag, net, ghost>>

RxStoreClosed ==
  /\ rpc = "eof"
  /\ closed' = TRUE
  /\ rpc' = "eof_wake"
  /\ UNCHANGED <<claimed, buf, len, err, worker, n, flag, net, ghost>>

\* Only err is stored: `closed` keeps its value.
RxStoreErr ==
  /\ rpc = "failed"
  /\ err' = TRUE
  /\ rpc' = "err_wake"
  /\ UNCHANGED <<claimed, buf, len, closed, worker, n, flag, net, ghost>>

\* Mutant of RxWake: the wrong bit is set.
RxWakeWrongBit ==
  /\ rpc \in {"wake", "eof_wake", "err_wake"}
  /\ flag' = flag \cup {EV_WAKE_READER}
  /\ rpc' = IF rpc = "wake" THEN "top" ELSE "done"
  /\ UNCHANGED <<state, worker, n, net, ghost>>

RxWake ==
  /\ rpc \in {"wake", "eof_wake", "err_wake"}
  /\ flag' = flag \cup {EV_WAKE_WORKER}
  /\ rpc' = IF rpc = "wake" THEN "top" ELSE "done"
  /\ UNCHANGED <<state, worker, n, net, ghost>>

-----------------------------------------------------------------------------
(***************************************************************************)
(* The environment: the peer, and the exception and process handlers that  *)
(* set EV_WAKE_WORKER in the same flag.                                    *)
(***************************************************************************)
PeerSend ==
  /\ wpc # "off"
  /\ ~fin
  /\ Len(sent) < MaxSent
  /\ \E b \in Byte : sent' = Append(sent, b)
  /\ UNCHANGED <<state, worker, reader, flag, sock, rcvd, fin, ghost>>

PeerFin ==
  /\ wpc # "off"
  /\ ~fin
  /\ fin' = TRUE
  /\ UNCHANGED <<state, worker, reader, flag, sock, rcvd, sent, ghost>>

HandlerWake ==
  /\ wpc # "off"
  /\ EV_WAKE_WORKER \notin flag
  /\ flag' = flag \cup {EV_WAKE_WORKER}
  /\ UNCHANGED <<state, worker, reader, net, ghost>>

WorkerStep ==
  \/ ReadClosed \/ ReadLen \/ ReadByte \/ ReadRelease \/ ReadSignal
  \/ Handle \/ Wait
  \/ CloseMark \/ CloseSocket \/ CloseWake \/ Join \/ ReleaseState

ReaderStep ==
  \/ RxTop \/ RxLen \/ RxWait \/ RxRecv \/ RxEof \/ RxRecvClosed
  \/ RxStoreLen \/ RxStoreClosed \/ RxStoreErr \/ RxWake

Next ==
  \/ New \/ NewFails \/ NewRefused
  \/ WorkerStep \/ Stop
  \/ ReaderStep \/ RxWaitFails \/ RxRecvFails
  \/ PeerSend \/ PeerFin \/ HandlerWake

Spec == Init /\ [][Next]_vars

(***************************************************************************)
(* Both threads run at the same priority (0x40) on a preemptive kernel, so *)
(* neither is starved; nothing forces a failure, the peer or a handler.    *)
(***************************************************************************)
FairSpec == Spec /\ WF_vars(WorkerStep) /\ WF_vars(ReaderStep)

-----------------------------------------------------------------------------
(***************************************************************************)
(* Properties.                                                             *)
(***************************************************************************)

\* Every variable keeps its type; a published length fits the buffer.
TypeOK ==
  /\ claimed \in BOOLEAN /\ buf \in [Offsets -> Byte] /\ len \in 0 .. BufferSize
  /\ closed \in BOOLEAN /\ err \in BOOLEAN
  /\ readLen \in 0 .. BufferSize /\ wlen \in 0 .. BufferSize
  /\ wpc \in WorkerPc /\ rpc \in ReaderPc /\ n \in 0 .. BufferSize
  /\ flag \subseteq {EV_WAKE_WORKER, EV_WAKE_READER}
  /\ sock \in BOOLEAN /\ rcvd \in Nat /\ sent \in Seq(Byte) /\ fin \in BOOLEAN
  /\ delivered \in Seq(Byte) /\ seen \in BOOLEAN

\* The unlocked buffer is never used by both threads: while net_rx may be
\* receiving into it or has not published what it received, read() is not
\* taking a byte out of it.
BufferHasOneUser == wpc \in {"byte", "release"} => rpc \notin {"recv", "got"}

\* The worker never sleeps on EV_WAKE_WORKER over received data or an end
\* of stream: the bit is set, or net_rx is about to set it.
NoLostWorkerWake ==
  wpc = "wait" /\ (len # 0 \/ closed)
    => EV_WAKE_WORKER \in flag \/ rpc \in {"wake", "eof_wake"}

\* net_rx never sleeps on EV_WAKE_READER over a buffer handed back to it or
\* a close: the bit is set, or the worker is about to set it.
NoLostReaderWake ==
  rpc = "wait" /\ (len = 0 \/ closed)
    => EV_WAKE_READER \in flag \/ wpc \in {"signal", "close_socket", "wake_reader"}

\* A slot goes back to CONN_POOL only after its net_rx thread has ended, so
\* the next connection's reset() never races with the last one's thread.
FreeSlotHasNoReader == ~claimed => rpc = "done"

\* read() implements the byte stream: in order, exactly once, and Closed
\* only at the end of the peer's stream.
Stream == INSTANCE ByteStream
StreamSpec == Stream!Spec

Connected == wpc \notin Closing \cup {"off"}

\* Every byte the peer sends is delivered unless the connection breaks or
\* the worker gives it up.
EventuallyDelivered ==
  \A i \in 1 .. MaxSent :
    (Connected /\ Len(sent) >= i) ~> (Len(delivered) >= i \/ err \/ ~Connected)

\* An orderly shutdown by the peer is always noticed by the worker.
FinIsSeen == (Connected /\ fin) ~> (seen \/ err \/ ~Connected)

\* close() never hangs in the join: net_rx is woken wherever it blocks.
CloseCompletes == (wpc = "close") ~> (wpc = "off")
=============================================================================
