--------------------------- MODULE TcpConnProofs ----------------------------
(***************************************************************************)
(* Proofs about TcpConn, for every Byte, BufferSize and MaxSent: the type  *)
(* invariant, exclusive use of the buffer, no lost wake-up in either       *)
(* direction, no reader left on a free slot, and that TcpConn implements   *)
(* ByteStream.  Then about WriteBuffer, that it implements OutputStream.   *)
(***************************************************************************)
EXTENDS TcpConn, WriteBuffer, TLAPS

\* Where a thread may be for the slot's owner to be in a given place.
Lifecycle ==
  /\ ~claimed => wpc = "off"
  /\ wpc \in {"off", "release_state"} => rpc = "done"

\* Who owns the buffer: net_rx past its `len` check, or read() past its own.
HandOver ==
  /\ rpc \in {"recv", "got", "eof", "eof_wake", "failed", "err_wake"} => len = 0
  /\ wpc \in {"byte", "release"} => wlen = len /\ len # 0

\* A wake-up for the worker is stored or on its way.
WorkerWake ==
  /\ wpc \in {"len?", "wait"} /\ closed
       => EV_WAKE_WORKER \in flag \/ rpc = "eof_wake"
  /\ wpc = "wait" /\ len # 0 => EV_WAKE_WORKER \in flag \/ rpc = "wake"

\* A wake-up for net_rx is stored or on its way.
ReaderWake ==
  /\ rpc \in {"len?", "wait"} /\ closed
       => EV_WAKE_READER \in flag \/ wpc \in {"close_socket", "wake_reader"}
  /\ rpc = "wait" /\ len = 0
       => EV_WAKE_READER \in flag \/ wpc = "signal" \/ closed

\* What the buffer holds while it is in net_rx's hands and in the worker's.
Received ==
  rpc = "got" =>
    /\ n # 0 /\ readLen = 0
    /\ Len(delivered) + n = rcvd
    /\ \A i \in Offsets : i < n => buf[i] = sent[Len(delivered) + i + 1]

Published ==
  len # 0 /\ wpc # "release" =>
    /\ readLen < len
    /\ Len(delivered) + len = rcvd + readLen
    /\ \A i \in Offsets : readLen <= i /\ i < len
         => buf[i] = sent[(Len(delivered) + i + 1) - readLen]

UsedUp ==
  /\ wpc = "release" => readLen = len /\ Len(delivered) = rcvd
  /\ len = 0 /\ rpc # "got" => readLen = 0 /\ Len(delivered) = rcvd

\* The stream so far, while a connection is open.
Position ==
  /\ rcvd <= Len(sent)
  /\ Len(delivered) <= rcvd
  /\ \A i \in 1 .. Len(delivered) : delivered[i] = sent[i]
  /\ wpc # "off" => Received /\ Published /\ UsedUp

\* `closed` in an open connection means that net_rx has met the end.
EndOfStream ==
  /\ rpc = "eof" => fin /\ rcvd = Len(sent)
  /\ closed /\ Connected => /\ rpc \in {"eof_wake", "done"}
                            /\ len = 0
                            /\ fin /\ rcvd = Len(sent)

Inv == /\ TypeOK /\ Lifecycle /\ HandOver /\ WorkerWake /\ ReaderWake
       /\ Position /\ EndOfStream

-----------------------------------------------------------------------------
\* Every step keeps the types: a length a thread holds or publishes fits the
\* buffer, and the bytes read() takes out were received.
LEMMA TypeStep ==
  TypeOK /\ HandOver /\ Position /\ [Next]_vars => TypeOK'
<1> SUFFICES ASSUME TypeOK /\ HandOver /\ Position /\ [Next]_vars PROVE TypeOK'
  OBVIOUS
<1> USE DEF vars, state, worker, reader, net, ghost
<1>1. CASE New
  <2>1. 0 \in 0 .. BufferSize /\ 0 \in Nat /\ <<>> \in Seq(Byte)
    BY BufferSizeAssumption
  <2> QED
    BY <1>1, <2>1, Zenon DEF New, reset, TypeOK, WorkerPc, ReaderPc
<1>2. CASE NewFails
  <2>1. 0 \in 0 .. BufferSize
    BY BufferSizeAssumption
  <2> QED
    BY <1>2, <2>1, Zenon DEF NewFails, reset, TypeOK, WorkerPc, ReaderPc
<1>3. CASE NewRefused
  BY <1>3 DEF NewRefused, TypeOK, WorkerPc, ReaderPc
<1>4. CASE ReadClosed
  BY <1>4 DEF ReadClosed, TypeOK, WorkerPc, ReaderPc
<1>5. CASE ReadLen
  BY <1>5 DEF ReadLen, TypeOK, WorkerPc, ReaderPc
<1>6. CASE ReadByte
  <2>1. len \in 1 .. BufferSize /\ readLen \in 0 .. len - 1
    BY <1>6 DEF ReadByte, TypeOK, HandOver, Position, Published
  <2>2. readLen \in Offsets /\ readLen' \in 0 .. BufferSize
    BY <1>6, <2>1, BufferSizeAssumption DEF ReadByte, TypeOK, Offsets
  <2>3. buf[readLen] \in Byte /\ delivered' \in Seq(Byte)
    BY <1>6, <2>2 DEF ReadByte, TypeOK
  <2> QED
    BY <1>6, <2>2, <2>3 DEF ReadByte, TypeOK, WorkerPc, ReaderPc
<1>7. CASE ReadRelease
  BY <1>7, BufferSizeAssumption DEF ReadRelease, TypeOK, WorkerPc, ReaderPc
<1>8. CASE ReadSignal
  BY <1>8 DEF ReadSignal, TypeOK, WorkerPc, ReaderPc
<1>9. CASE Handle
  BY <1>9 DEF Handle, TypeOK, WorkerPc, ReaderPc
<1>10. CASE Wait
  BY <1>10 DEF Wait, TypeOK, WorkerPc, ReaderPc
<1>11. CASE CloseMark
  BY <1>11 DEF CloseMark, TypeOK, WorkerPc, ReaderPc
<1>12. CASE CloseSocket
  BY <1>12 DEF CloseSocket, TypeOK, WorkerPc, ReaderPc
<1>13. CASE CloseWake
  BY <1>13 DEF CloseWake, TypeOK, WorkerPc, ReaderPc
<1>14. CASE Join
  BY <1>14 DEF Join, TypeOK, WorkerPc, ReaderPc
<1>15. CASE ReleaseState
  BY <1>15 DEF ReleaseState, TypeOK, WorkerPc, ReaderPc
<1>16. CASE Stop
  BY <1>16 DEF Stop, TypeOK, WorkerPc, ReaderPc
<1>17. CASE RxTop
  BY <1>17 DEF RxTop, TypeOK, WorkerPc, ReaderPc
<1>18. CASE RxLen
  BY <1>18 DEF RxLen, TypeOK, WorkerPc, ReaderPc
<1>19. CASE RxWait
  BY <1>19 DEF RxWait, TypeOK, WorkerPc, ReaderPc
<1>20. CASE RxRecv
  <2>1. PICK k \in 1 .. BufferSize :
          /\ rcvd + k <= Len(sent)
          /\ buf' = [i \in Offsets |-> IF i < k THEN sent[rcvd + i + 1] ELSE buf[i]]
          /\ n' = k
          /\ rcvd' = rcvd + k
    BY <1>20 DEF RxRecv, RecvSizes
  <2>2. buf' \in [Offsets -> Byte]
    BY <2>1 DEF TypeOK, Offsets
  <2>3. n' \in 0 .. BufferSize /\ rcvd' \in Nat
    BY <2>1, BufferSizeAssumption DEF TypeOK
  <2> QED
    BY <1>20, <2>2, <2>3 DEF RxRecv, TypeOK, WorkerPc, ReaderPc
<1>21. CASE RxEof
  BY <1>21 DEF RxEof, TypeOK, WorkerPc, ReaderPc
<1>22. CASE RxRecvClosed
  BY <1>22 DEF RxRecvClosed, TypeOK, WorkerPc, ReaderPc
<1>23. CASE RxStoreLen
  BY <1>23 DEF RxStoreLen, TypeOK, WorkerPc, ReaderPc
<1>24. CASE RxStoreClosed
  BY <1>24 DEF RxStoreClosed, TypeOK, WorkerPc, ReaderPc
<1>25. CASE RxStoreErr
  BY <1>25 DEF RxStoreErr, TypeOK, WorkerPc, ReaderPc
<1>26. CASE RxWake
  BY <1>26 DEF RxWake, TypeOK, WorkerPc, ReaderPc
<1>27. CASE RxWaitFails
  BY <1>27 DEF RxWaitFails, TypeOK, WorkerPc, ReaderPc
<1>28. CASE RxRecvFails
  BY <1>28 DEF RxRecvFails, TypeOK, WorkerPc, ReaderPc
<1>29. CASE PeerSend
  BY <1>29 DEF PeerSend, TypeOK, WorkerPc, ReaderPc
<1>30. CASE PeerFin
  BY <1>30 DEF PeerFin, TypeOK, WorkerPc, ReaderPc
<1>31. CASE HandlerWake
  BY <1>31 DEF HandlerWake, TypeOK, WorkerPc, ReaderPc
<1>32. CASE UNCHANGED vars
  BY <1>32 DEF TypeOK, WorkerPc, ReaderPc
<1> QED
  BY <1>1, <1>2, <1>3, <1>4, <1>5, <1>6, <1>7, <1>8, <1>9, <1>10, <1>11, <1>12, <1>13, <1>14, <1>15, <1>16, <1>17, <1>18, <1>19, <1>20, <1>21, <1>22, <1>23, <1>24, <1>25, <1>26, <1>27, <1>28, <1>29, <1>30, <1>31, <1>32 DEF Next, WorkerStep, ReaderStep

\* net_rx ends before the slot is given back.
LEMMA LifecycleStep ==
  TypeOK /\ Lifecycle /\ [Next]_vars => Lifecycle'
<1> SUFFICES ASSUME TypeOK /\ Lifecycle /\ [Next]_vars PROVE Lifecycle'
  OBVIOUS
<1> USE DEF vars, state, worker, reader, net, ghost
<1>1. CASE New
  BY <1>1 DEF New, reset, TypeOK, Lifecycle
<1>2. CASE NewFails
  BY <1>2 DEF NewFails, reset, TypeOK, Lifecycle
<1>3. CASE NewRefused
  BY <1>3 DEF NewRefused, TypeOK, Lifecycle
<1>4. CASE ReadClosed
  BY <1>4 DEF ReadClosed, TypeOK, Lifecycle
<1>5. CASE ReadLen
  BY <1>5 DEF ReadLen, TypeOK, Lifecycle
<1>6. CASE ReadByte
  BY <1>6 DEF ReadByte, TypeOK, Lifecycle
<1>7. CASE ReadRelease
  BY <1>7 DEF ReadRelease, TypeOK, Lifecycle
<1>8. CASE ReadSignal
  BY <1>8 DEF ReadSignal, TypeOK, Lifecycle
<1>9. CASE Handle
  BY <1>9 DEF Handle, TypeOK, Lifecycle
<1>10. CASE Wait
  BY <1>10 DEF Wait, TypeOK, Lifecycle
<1>11. CASE CloseMark
  BY <1>11 DEF CloseMark, TypeOK, Lifecycle
<1>12. CASE CloseSocket
  BY <1>12 DEF CloseSocket, TypeOK, Lifecycle
<1>13. CASE CloseWake
  BY <1>13 DEF CloseWake, TypeOK, Lifecycle
<1>14. CASE Join
  BY <1>14 DEF Join, TypeOK, Lifecycle
<1>15. CASE ReleaseState
  BY <1>15 DEF ReleaseState, TypeOK, Lifecycle
<1>16. CASE Stop
  BY <1>16 DEF Stop, TypeOK, Lifecycle
<1>17. CASE RxTop
  BY <1>17 DEF RxTop, TypeOK, Lifecycle
<1>18. CASE RxLen
  BY <1>18 DEF RxLen, TypeOK, Lifecycle
<1>19. CASE RxWait
  BY <1>19 DEF RxWait, TypeOK, Lifecycle
<1>20. CASE RxRecv
  BY <1>20 DEF RxRecv, RecvSizes, TypeOK, Lifecycle
<1>21. CASE RxEof
  BY <1>21 DEF RxEof, TypeOK, Lifecycle
<1>22. CASE RxRecvClosed
  BY <1>22 DEF RxRecvClosed, TypeOK, Lifecycle
<1>23. CASE RxStoreLen
  BY <1>23 DEF RxStoreLen, TypeOK, Lifecycle
<1>24. CASE RxStoreClosed
  BY <1>24 DEF RxStoreClosed, TypeOK, Lifecycle
<1>25. CASE RxStoreErr
  BY <1>25 DEF RxStoreErr, TypeOK, Lifecycle
<1>26. CASE RxWake
  BY <1>26 DEF RxWake, TypeOK, Lifecycle
<1>27. CASE RxWaitFails
  BY <1>27 DEF RxWaitFails, TypeOK, Lifecycle
<1>28. CASE RxRecvFails
  BY <1>28 DEF RxRecvFails, TypeOK, Lifecycle
<1>29. CASE PeerSend
  BY <1>29 DEF PeerSend, TypeOK, Lifecycle
<1>30. CASE PeerFin
  BY <1>30 DEF PeerFin, TypeOK, Lifecycle
<1>31. CASE HandlerWake
  BY <1>31 DEF HandlerWake, TypeOK, Lifecycle
<1>32. CASE UNCHANGED vars
  BY <1>32 DEF TypeOK, Lifecycle
<1> QED
  BY <1>1, <1>2, <1>3, <1>4, <1>5, <1>6, <1>7, <1>8, <1>9, <1>10, <1>11, <1>12, <1>13, <1>14, <1>15, <1>16, <1>17, <1>18, <1>19, <1>20, <1>21, <1>22, <1>23, <1>24, <1>25, <1>26, <1>27, <1>28, <1>29, <1>30, <1>31, <1>32 DEF Next, WorkerStep, ReaderStep

\* The buffer changes hands only through `len`.
LEMMA HandOverStep ==
  TypeOK /\ Lifecycle /\ HandOver /\ [Next]_vars => HandOver'
<1> SUFFICES ASSUME TypeOK /\ Lifecycle /\ HandOver /\ [Next]_vars PROVE HandOver'
  OBVIOUS
<1> USE DEF vars, state, worker, reader, net, ghost
<1>1. CASE New
  BY <1>1 DEF New, reset, TypeOK, Lifecycle, HandOver
<1>2. CASE NewFails
  BY <1>2 DEF NewFails, reset, TypeOK, Lifecycle, HandOver
<1>3. CASE NewRefused
  BY <1>3 DEF NewRefused, TypeOK, Lifecycle, HandOver
<1>4. CASE ReadClosed
  BY <1>4 DEF ReadClosed, TypeOK, Lifecycle, HandOver
<1>5. CASE ReadLen
  BY <1>5 DEF ReadLen, TypeOK, Lifecycle, HandOver
<1>6. CASE ReadByte
  BY <1>6 DEF ReadByte, TypeOK, Lifecycle, HandOver
<1>7. CASE ReadRelease
  BY <1>7 DEF ReadRelease, TypeOK, Lifecycle, HandOver
<1>8. CASE ReadSignal
  BY <1>8 DEF ReadSignal, TypeOK, Lifecycle, HandOver
<1>9. CASE Handle
  BY <1>9 DEF Handle, TypeOK, Lifecycle, HandOver
<1>10. CASE Wait
  BY <1>10 DEF Wait, TypeOK, Lifecycle, HandOver
<1>11. CASE CloseMark
  BY <1>11 DEF CloseMark, TypeOK, Lifecycle, HandOver
<1>12. CASE CloseSocket
  BY <1>12 DEF CloseSocket, TypeOK, Lifecycle, HandOver
<1>13. CASE CloseWake
  BY <1>13 DEF CloseWake, TypeOK, Lifecycle, HandOver
<1>14. CASE Join
  BY <1>14 DEF Join, TypeOK, Lifecycle, HandOver
<1>15. CASE ReleaseState
  BY <1>15 DEF ReleaseState, TypeOK, Lifecycle, HandOver
<1>16. CASE Stop
  BY <1>16 DEF Stop, TypeOK, Lifecycle, HandOver
<1>17. CASE RxTop
  BY <1>17 DEF RxTop, TypeOK, Lifecycle, HandOver
<1>18. CASE RxLen
  BY <1>18 DEF RxLen, TypeOK, Lifecycle, HandOver
<1>19. CASE RxWait
  BY <1>19 DEF RxWait, TypeOK, Lifecycle, HandOver
<1>20. CASE RxRecv
  BY <1>20 DEF RxRecv, RecvSizes, TypeOK, Lifecycle, HandOver
<1>21. CASE RxEof
  BY <1>21 DEF RxEof, TypeOK, Lifecycle, HandOver
<1>22. CASE RxRecvClosed
  BY <1>22 DEF RxRecvClosed, TypeOK, Lifecycle, HandOver
<1>23. CASE RxStoreLen
  BY <1>23 DEF RxStoreLen, TypeOK, Lifecycle, HandOver
<1>24. CASE RxStoreClosed
  BY <1>24 DEF RxStoreClosed, TypeOK, Lifecycle, HandOver
<1>25. CASE RxStoreErr
  BY <1>25 DEF RxStoreErr, TypeOK, Lifecycle, HandOver
<1>26. CASE RxWake
  BY <1>26 DEF RxWake, TypeOK, Lifecycle, HandOver
<1>27. CASE RxWaitFails
  BY <1>27 DEF RxWaitFails, TypeOK, Lifecycle, HandOver
<1>28. CASE RxRecvFails
  BY <1>28 DEF RxRecvFails, TypeOK, Lifecycle, HandOver
<1>29. CASE PeerSend
  BY <1>29 DEF PeerSend, TypeOK, Lifecycle, HandOver
<1>30. CASE PeerFin
  BY <1>30 DEF PeerFin, TypeOK, Lifecycle, HandOver
<1>31. CASE HandlerWake
  BY <1>31 DEF HandlerWake, TypeOK, Lifecycle, HandOver
<1>32. CASE UNCHANGED vars
  BY <1>32 DEF TypeOK, Lifecycle, HandOver
<1> QED
  BY <1>1, <1>2, <1>3, <1>4, <1>5, <1>6, <1>7, <1>8, <1>9, <1>10, <1>11, <1>12, <1>13, <1>14, <1>15, <1>16, <1>17, <1>18, <1>19, <1>20, <1>21, <1>22, <1>23, <1>24, <1>25, <1>26, <1>27, <1>28, <1>29, <1>30, <1>31, <1>32 DEF Next, WorkerStep, ReaderStep

\* A wake-up for the worker is not lost.
LEMMA WorkerWakeStep ==
  TypeOK /\ WorkerWake /\ [Next]_vars => WorkerWake'
<1> SUFFICES ASSUME TypeOK /\ WorkerWake /\ [Next]_vars PROVE WorkerWake'
  OBVIOUS
<1> USE DEF vars, state, worker, reader, net, ghost
<1>1. CASE New
  BY <1>1 DEF New, reset, TypeOK, WorkerWake, EV_WAKE_WORKER, EV_WAKE_READER
<1>2. CASE NewFails
  BY <1>2 DEF NewFails, reset, TypeOK, WorkerWake, EV_WAKE_WORKER, EV_WAKE_READER
<1>3. CASE NewRefused
  BY <1>3 DEF NewRefused, TypeOK, WorkerWake, EV_WAKE_WORKER, EV_WAKE_READER
<1>4. CASE ReadClosed
  BY <1>4 DEF ReadClosed, TypeOK, WorkerWake, EV_WAKE_WORKER, EV_WAKE_READER
<1>5. CASE ReadLen
  BY <1>5 DEF ReadLen, TypeOK, WorkerWake, EV_WAKE_WORKER, EV_WAKE_READER
<1>6. CASE ReadByte
  BY <1>6 DEF ReadByte, TypeOK, WorkerWake, EV_WAKE_WORKER, EV_WAKE_READER
<1>7. CASE ReadRelease
  BY <1>7 DEF ReadRelease, TypeOK, WorkerWake, EV_WAKE_WORKER, EV_WAKE_READER
<1>8. CASE ReadSignal
  BY <1>8 DEF ReadSignal, TypeOK, WorkerWake, EV_WAKE_WORKER, EV_WAKE_READER
<1>9. CASE Handle
  BY <1>9 DEF Handle, TypeOK, WorkerWake, EV_WAKE_WORKER, EV_WAKE_READER
<1>10. CASE Wait
  BY <1>10 DEF Wait, TypeOK, WorkerWake, EV_WAKE_WORKER, EV_WAKE_READER
<1>11. CASE CloseMark
  BY <1>11 DEF CloseMark, TypeOK, WorkerWake, EV_WAKE_WORKER, EV_WAKE_READER
<1>12. CASE CloseSocket
  BY <1>12 DEF CloseSocket, TypeOK, WorkerWake, EV_WAKE_WORKER, EV_WAKE_READER
<1>13. CASE CloseWake
  BY <1>13 DEF CloseWake, TypeOK, WorkerWake, EV_WAKE_WORKER, EV_WAKE_READER
<1>14. CASE Join
  BY <1>14 DEF Join, TypeOK, WorkerWake, EV_WAKE_WORKER, EV_WAKE_READER
<1>15. CASE ReleaseState
  BY <1>15 DEF ReleaseState, TypeOK, WorkerWake, EV_WAKE_WORKER, EV_WAKE_READER
<1>16. CASE Stop
  BY <1>16 DEF Stop, TypeOK, WorkerWake, EV_WAKE_WORKER, EV_WAKE_READER
<1>17. CASE RxTop
  BY <1>17 DEF RxTop, TypeOK, WorkerWake, EV_WAKE_WORKER, EV_WAKE_READER
<1>18. CASE RxLen
  BY <1>18 DEF RxLen, TypeOK, WorkerWake, EV_WAKE_WORKER, EV_WAKE_READER
<1>19. CASE RxWait
  BY <1>19 DEF RxWait, TypeOK, WorkerWake, EV_WAKE_WORKER, EV_WAKE_READER
<1>20. CASE RxRecv
  BY <1>20 DEF RxRecv, RecvSizes, TypeOK, WorkerWake, EV_WAKE_WORKER, EV_WAKE_READER
<1>21. CASE RxEof
  BY <1>21 DEF RxEof, TypeOK, WorkerWake, EV_WAKE_WORKER, EV_WAKE_READER
<1>22. CASE RxRecvClosed
  BY <1>22 DEF RxRecvClosed, TypeOK, WorkerWake, EV_WAKE_WORKER, EV_WAKE_READER
<1>23. CASE RxStoreLen
  BY <1>23 DEF RxStoreLen, TypeOK, WorkerWake, EV_WAKE_WORKER, EV_WAKE_READER
<1>24. CASE RxStoreClosed
  BY <1>24 DEF RxStoreClosed, TypeOK, WorkerWake, EV_WAKE_WORKER, EV_WAKE_READER
<1>25. CASE RxStoreErr
  BY <1>25 DEF RxStoreErr, TypeOK, WorkerWake, EV_WAKE_WORKER, EV_WAKE_READER
<1>26. CASE RxWake
  BY <1>26 DEF RxWake, TypeOK, WorkerWake, EV_WAKE_WORKER, EV_WAKE_READER
<1>27. CASE RxWaitFails
  BY <1>27 DEF RxWaitFails, TypeOK, WorkerWake, EV_WAKE_WORKER, EV_WAKE_READER
<1>28. CASE RxRecvFails
  BY <1>28 DEF RxRecvFails, TypeOK, WorkerWake, EV_WAKE_WORKER, EV_WAKE_READER
<1>29. CASE PeerSend
  BY <1>29 DEF PeerSend, TypeOK, WorkerWake, EV_WAKE_WORKER, EV_WAKE_READER
<1>30. CASE PeerFin
  BY <1>30 DEF PeerFin, TypeOK, WorkerWake, EV_WAKE_WORKER, EV_WAKE_READER
<1>31. CASE HandlerWake
  BY <1>31 DEF HandlerWake, TypeOK, WorkerWake, EV_WAKE_WORKER, EV_WAKE_READER
<1>32. CASE UNCHANGED vars
  BY <1>32 DEF TypeOK, WorkerWake, EV_WAKE_WORKER, EV_WAKE_READER
<1> QED
  BY <1>1, <1>2, <1>3, <1>4, <1>5, <1>6, <1>7, <1>8, <1>9, <1>10, <1>11, <1>12, <1>13, <1>14, <1>15, <1>16, <1>17, <1>18, <1>19, <1>20, <1>21, <1>22, <1>23, <1>24, <1>25, <1>26, <1>27, <1>28, <1>29, <1>30, <1>31, <1>32 DEF Next, WorkerStep, ReaderStep

\* A wake-up for net_rx is not lost.
LEMMA ReaderWakeStep ==
  TypeOK /\ Lifecycle /\ HandOver /\ ReaderWake /\ [Next]_vars => ReaderWake'
<1> SUFFICES ASSUME TypeOK /\ Lifecycle /\ HandOver /\ ReaderWake /\ [Next]_vars PROVE ReaderWake'
  OBVIOUS
<1> USE DEF vars, state, worker, reader, net, ghost
<1>1. CASE New
  BY <1>1 DEF New, reset, TypeOK, Lifecycle, HandOver, ReaderWake, EV_WAKE_WORKER, EV_WAKE_READER
<1>2. CASE NewFails
  BY <1>2 DEF NewFails, reset, TypeOK, Lifecycle, HandOver, ReaderWake, EV_WAKE_WORKER, EV_WAKE_READER
<1>3. CASE NewRefused
  BY <1>3 DEF NewRefused, TypeOK, Lifecycle, HandOver, ReaderWake, EV_WAKE_WORKER, EV_WAKE_READER
<1>4. CASE ReadClosed
  BY <1>4 DEF ReadClosed, TypeOK, Lifecycle, HandOver, ReaderWake, EV_WAKE_WORKER, EV_WAKE_READER
<1>5. CASE ReadLen
  BY <1>5 DEF ReadLen, TypeOK, Lifecycle, HandOver, ReaderWake, EV_WAKE_WORKER, EV_WAKE_READER
<1>6. CASE ReadByte
  BY <1>6 DEF ReadByte, TypeOK, Lifecycle, HandOver, ReaderWake, EV_WAKE_WORKER, EV_WAKE_READER
<1>7. CASE ReadRelease
  BY <1>7 DEF ReadRelease, TypeOK, Lifecycle, HandOver, ReaderWake, EV_WAKE_WORKER, EV_WAKE_READER
<1>8. CASE ReadSignal
  BY <1>8 DEF ReadSignal, TypeOK, Lifecycle, HandOver, ReaderWake, EV_WAKE_WORKER, EV_WAKE_READER
<1>9. CASE Handle
  BY <1>9 DEF Handle, TypeOK, Lifecycle, HandOver, ReaderWake, EV_WAKE_WORKER, EV_WAKE_READER
<1>10. CASE Wait
  BY <1>10 DEF Wait, TypeOK, Lifecycle, HandOver, ReaderWake, EV_WAKE_WORKER, EV_WAKE_READER
<1>11. CASE CloseMark
  BY <1>11 DEF CloseMark, TypeOK, Lifecycle, HandOver, ReaderWake, EV_WAKE_WORKER, EV_WAKE_READER
<1>12. CASE CloseSocket
  BY <1>12 DEF CloseSocket, TypeOK, Lifecycle, HandOver, ReaderWake, EV_WAKE_WORKER, EV_WAKE_READER
<1>13. CASE CloseWake
  BY <1>13 DEF CloseWake, TypeOK, Lifecycle, HandOver, ReaderWake, EV_WAKE_WORKER, EV_WAKE_READER
<1>14. CASE Join
  BY <1>14 DEF Join, TypeOK, Lifecycle, HandOver, ReaderWake, EV_WAKE_WORKER, EV_WAKE_READER
<1>15. CASE ReleaseState
  BY <1>15 DEF ReleaseState, TypeOK, Lifecycle, HandOver, ReaderWake, EV_WAKE_WORKER, EV_WAKE_READER
<1>16. CASE Stop
  BY <1>16 DEF Stop, TypeOK, Lifecycle, HandOver, ReaderWake, EV_WAKE_WORKER, EV_WAKE_READER
<1>17. CASE RxTop
  BY <1>17 DEF RxTop, TypeOK, Lifecycle, HandOver, ReaderWake, EV_WAKE_WORKER, EV_WAKE_READER
<1>18. CASE RxLen
  BY <1>18 DEF RxLen, TypeOK, Lifecycle, HandOver, ReaderWake, EV_WAKE_WORKER, EV_WAKE_READER
<1>19. CASE RxWait
  BY <1>19 DEF RxWait, TypeOK, Lifecycle, HandOver, ReaderWake, EV_WAKE_WORKER, EV_WAKE_READER
<1>20. CASE RxRecv
  BY <1>20 DEF RxRecv, RecvSizes, TypeOK, Lifecycle, HandOver, ReaderWake, EV_WAKE_WORKER, EV_WAKE_READER
<1>21. CASE RxEof
  BY <1>21 DEF RxEof, TypeOK, Lifecycle, HandOver, ReaderWake, EV_WAKE_WORKER, EV_WAKE_READER
<1>22. CASE RxRecvClosed
  BY <1>22 DEF RxRecvClosed, TypeOK, Lifecycle, HandOver, ReaderWake, EV_WAKE_WORKER, EV_WAKE_READER
<1>23. CASE RxStoreLen
  BY <1>23 DEF RxStoreLen, TypeOK, Lifecycle, HandOver, ReaderWake, EV_WAKE_WORKER, EV_WAKE_READER
<1>24. CASE RxStoreClosed
  BY <1>24 DEF RxStoreClosed, TypeOK, Lifecycle, HandOver, ReaderWake, EV_WAKE_WORKER, EV_WAKE_READER
<1>25. CASE RxStoreErr
  BY <1>25 DEF RxStoreErr, TypeOK, Lifecycle, HandOver, ReaderWake, EV_WAKE_WORKER, EV_WAKE_READER
<1>26. CASE RxWake
  BY <1>26 DEF RxWake, TypeOK, Lifecycle, HandOver, ReaderWake, EV_WAKE_WORKER, EV_WAKE_READER
<1>27. CASE RxWaitFails
  BY <1>27 DEF RxWaitFails, TypeOK, Lifecycle, HandOver, ReaderWake, EV_WAKE_WORKER, EV_WAKE_READER
<1>28. CASE RxRecvFails
  BY <1>28 DEF RxRecvFails, TypeOK, Lifecycle, HandOver, ReaderWake, EV_WAKE_WORKER, EV_WAKE_READER
<1>29. CASE PeerSend
  BY <1>29 DEF PeerSend, TypeOK, Lifecycle, HandOver, ReaderWake, EV_WAKE_WORKER, EV_WAKE_READER
<1>30. CASE PeerFin
  BY <1>30 DEF PeerFin, TypeOK, Lifecycle, HandOver, ReaderWake, EV_WAKE_WORKER, EV_WAKE_READER
<1>31. CASE HandlerWake
  BY <1>31 DEF HandlerWake, TypeOK, Lifecycle, HandOver, ReaderWake, EV_WAKE_WORKER, EV_WAKE_READER
<1>32. CASE UNCHANGED vars
  BY <1>32 DEF TypeOK, Lifecycle, HandOver, ReaderWake, EV_WAKE_WORKER, EV_WAKE_READER
<1> QED
  BY <1>1, <1>2, <1>3, <1>4, <1>5, <1>6, <1>7, <1>8, <1>9, <1>10, <1>11, <1>12, <1>13, <1>14, <1>15, <1>16, <1>17, <1>18, <1>19, <1>20, <1>21, <1>22, <1>23, <1>24, <1>25, <1>26, <1>27, <1>28, <1>29, <1>30, <1>31, <1>32 DEF Next, WorkerStep, ReaderStep

\* `closed` in an open connection keeps meaning the end of the stream.
LEMMA EndOfStreamStep ==
  TypeOK /\ Lifecycle /\ HandOver /\ EndOfStream /\ [Next]_vars => EndOfStream'
<1> SUFFICES ASSUME TypeOK /\ Lifecycle /\ HandOver /\ EndOfStream /\ [Next]_vars PROVE EndOfStream'
  OBVIOUS
<1> USE DEF vars, state, worker, reader, net, ghost
<1>1. CASE New
  BY <1>1 DEF New, reset, TypeOK, Lifecycle, HandOver, EndOfStream, Connected, Closing
<1>2. CASE NewFails
  BY <1>2 DEF NewFails, reset, TypeOK, Lifecycle, HandOver, EndOfStream, Connected, Closing
<1>3. CASE NewRefused
  BY <1>3 DEF NewRefused, TypeOK, Lifecycle, HandOver, EndOfStream, Connected, Closing
<1>4. CASE ReadClosed
  BY <1>4 DEF ReadClosed, TypeOK, Lifecycle, HandOver, EndOfStream, Connected, Closing
<1>5. CASE ReadLen
  BY <1>5 DEF ReadLen, TypeOK, Lifecycle, HandOver, EndOfStream, Connected, Closing
<1>6. CASE ReadByte
  BY <1>6 DEF ReadByte, TypeOK, Lifecycle, HandOver, EndOfStream, Connected, Closing
<1>7. CASE ReadRelease
  BY <1>7 DEF ReadRelease, TypeOK, Lifecycle, HandOver, EndOfStream, Connected, Closing
<1>8. CASE ReadSignal
  BY <1>8 DEF ReadSignal, TypeOK, Lifecycle, HandOver, EndOfStream, Connected, Closing
<1>9. CASE Handle
  BY <1>9 DEF Handle, TypeOK, Lifecycle, HandOver, EndOfStream, Connected, Closing
<1>10. CASE Wait
  BY <1>10 DEF Wait, TypeOK, Lifecycle, HandOver, EndOfStream, Connected, Closing
<1>11. CASE CloseMark
  BY <1>11 DEF CloseMark, TypeOK, Lifecycle, HandOver, EndOfStream, Connected, Closing
<1>12. CASE CloseSocket
  BY <1>12 DEF CloseSocket, TypeOK, Lifecycle, HandOver, EndOfStream, Connected, Closing
<1>13. CASE CloseWake
  BY <1>13 DEF CloseWake, TypeOK, Lifecycle, HandOver, EndOfStream, Connected, Closing
<1>14. CASE Join
  BY <1>14 DEF Join, TypeOK, Lifecycle, HandOver, EndOfStream, Connected, Closing
<1>15. CASE ReleaseState
  BY <1>15 DEF ReleaseState, TypeOK, Lifecycle, HandOver, EndOfStream, Connected, Closing
<1>16. CASE Stop
  BY <1>16 DEF Stop, TypeOK, Lifecycle, HandOver, EndOfStream, Connected, Closing
<1>17. CASE RxTop
  BY <1>17 DEF RxTop, TypeOK, Lifecycle, HandOver, EndOfStream, Connected, Closing
<1>18. CASE RxLen
  BY <1>18 DEF RxLen, TypeOK, Lifecycle, HandOver, EndOfStream, Connected, Closing
<1>19. CASE RxWait
  BY <1>19 DEF RxWait, TypeOK, Lifecycle, HandOver, EndOfStream, Connected, Closing
<1>20. CASE RxRecv
  BY <1>20 DEF RxRecv, RecvSizes, TypeOK, Lifecycle, HandOver, EndOfStream, Connected, Closing
<1>21. CASE RxEof
  BY <1>21 DEF RxEof, TypeOK, Lifecycle, HandOver, EndOfStream, Connected, Closing
<1>22. CASE RxRecvClosed
  BY <1>22 DEF RxRecvClosed, TypeOK, Lifecycle, HandOver, EndOfStream, Connected, Closing
<1>23. CASE RxStoreLen
  BY <1>23 DEF RxStoreLen, TypeOK, Lifecycle, HandOver, EndOfStream, Connected, Closing
<1>24. CASE RxStoreClosed
  BY <1>24 DEF RxStoreClosed, TypeOK, Lifecycle, HandOver, EndOfStream, Connected, Closing
<1>25. CASE RxStoreErr
  BY <1>25 DEF RxStoreErr, TypeOK, Lifecycle, HandOver, EndOfStream, Connected, Closing
<1>26. CASE RxWake
  BY <1>26 DEF RxWake, TypeOK, Lifecycle, HandOver, EndOfStream, Connected, Closing
<1>27. CASE RxWaitFails
  BY <1>27 DEF RxWaitFails, TypeOK, Lifecycle, HandOver, EndOfStream, Connected, Closing
<1>28. CASE RxRecvFails
  BY <1>28 DEF RxRecvFails, TypeOK, Lifecycle, HandOver, EndOfStream, Connected, Closing
<1>29. CASE PeerSend
  BY <1>29 DEF PeerSend, TypeOK, Lifecycle, HandOver, EndOfStream, Connected, Closing
<1>30. CASE PeerFin
  BY <1>30 DEF PeerFin, TypeOK, Lifecycle, HandOver, EndOfStream, Connected, Closing
<1>31. CASE HandlerWake
  BY <1>31 DEF HandlerWake, TypeOK, Lifecycle, HandOver, EndOfStream, Connected, Closing
<1>32. CASE UNCHANGED vars
  BY <1>32 DEF TypeOK, Lifecycle, HandOver, EndOfStream, Connected, Closing
<1> QED
  BY <1>1, <1>2, <1>3, <1>4, <1>5, <1>6, <1>7, <1>8, <1>9, <1>10, <1>11, <1>12, <1>13, <1>14, <1>15, <1>16, <1>17, <1>18, <1>19, <1>20, <1>21, <1>22, <1>23, <1>24, <1>25, <1>26, <1>27, <1>28, <1>29, <1>30, <1>31, <1>32 DEF Next, WorkerStep, ReaderStep

\* Every step keeps what the buffer, the counters and the two ends of the
\* stream say about each other.
LEMMA PositionStep ==
  TypeOK /\ TypeOK' /\ Lifecycle /\ HandOver /\ Position /\ [Next]_vars => Position'
<1> SUFFICES ASSUME TypeOK /\ TypeOK' /\ Lifecycle /\ HandOver /\ Position /\ [Next]_vars PROVE Position'
  OBVIOUS
<1> USE DEF vars, state, worker, reader, net, ghost
<1>1. CASE New
  BY <1>1 DEF New, reset, TypeOK, Lifecycle, HandOver, Position, Received, Published, UsedUp
<1>2. CASE NewFails
  BY <1>2 DEF NewFails, reset, TypeOK, Lifecycle, HandOver, Position, Received, Published, UsedUp
<1>3. CASE NewRefused
  BY <1>3 DEF NewRefused, TypeOK, Lifecycle, HandOver, Position, Received, Published, UsedUp
<1>4. CASE ReadClosed
  BY <1>4 DEF ReadClosed, TypeOK, Lifecycle, HandOver, Position, Received, Published, UsedUp
<1>5. CASE ReadLen
  BY <1>5 DEF ReadLen, TypeOK, Lifecycle, HandOver, Position, Received, Published, UsedUp
<1>6. CASE ReadByte
  <2>1. len \in 1 .. BufferSize /\ readLen \in 0 .. len - 1 /\ readLen \in Offsets
        /\ rpc # "got" /\ wlen = len /\ wpc # "off"
    BY <1>6, BufferSizeAssumption
       DEF ReadByte, TypeOK, HandOver, Position, Published, Offsets
  <2>2. Len(delivered) + len = rcvd + readLen
        /\ buf[readLen] = sent[Len(delivered) + 1]
    BY <1>6, <2>1 DEF ReadByte, TypeOK, Position, Published
  <2>3. /\ Len(delivered') = Len(delivered) + 1
        /\ \A i \in 1 .. Len(delivered) : delivered'[i] = delivered[i]
        /\ delivered'[Len(delivered) + 1] = buf[readLen]
    BY <1>6, <2>1 DEF ReadByte, TypeOK
  <2>4. /\ rcvd' <= Len(sent') /\ Len(delivered') <= rcvd'
        /\ \A i \in 1 .. Len(delivered') : delivered'[i] = sent'[i]
    BY <1>6, <2>1, <2>2, <2>3 DEF ReadByte, TypeOK, Position
  <2>5. Received' /\ UsedUp'
    BY <1>6, <2>1, <2>2, <2>3 DEF ReadByte, TypeOK, Received, UsedUp
  <2>6. Published'
    <3>1. ASSUME NEW i \in Offsets, readLen' <= i, i < len
          PROVE  buf[i] = sent[(Len(delivered') + i + 1) - readLen']
      BY <1>6, <2>1, <2>3, <3>1 DEF ReadByte, TypeOK, Position, Published, Offsets
    <3>2. wpc' # "release" => readLen' < len'
      BY <1>6, <2>1 DEF ReadByte, TypeOK
    <3>3. Len(delivered') + len' = rcvd' + readLen'
      <4>1. len' = len /\ rcvd' = rcvd /\ readLen' = readLen + 1
        BY <1>6 DEF ReadByte
      <4>2. len \in Nat /\ rcvd \in Nat /\ readLen \in Nat /\ Len(delivered) \in Nat
        BY DEF TypeOK
      <4>3. Len(delivered) + len = rcvd + readLen
        BY <2>2
      <4>4. Len(delivered') = Len(delivered) + 1
        BY <2>3
      <4> QED
        BY <4>1, <4>2, <4>3, <4>4
    <3>4. buf' = buf /\ sent' = sent /\ len' = len
      BY <1>6 DEF ReadByte
    <3> QED
      BY <3>1, <3>2, <3>3, <3>4 DEF Published
  <2> QED
    BY <2>4, <2>5, <2>6 DEF Position
<1>7. CASE ReadRelease
  BY <1>7 DEF ReadRelease, TypeOK, Lifecycle, HandOver, Position, Received, Published, UsedUp
<1>8. CASE ReadSignal
  BY <1>8 DEF ReadSignal, TypeOK, Lifecycle, HandOver, Position, Received, Published, UsedUp
<1>9. CASE Handle
  BY <1>9 DEF Handle, TypeOK, Lifecycle, HandOver, Position, Received, Published, UsedUp
<1>10. CASE Wait
  BY <1>10 DEF Wait, TypeOK, Lifecycle, HandOver, Position, Received, Published, UsedUp
<1>11. CASE CloseMark
  BY <1>11 DEF CloseMark, TypeOK, Lifecycle, HandOver, Position, Received, Published, UsedUp
<1>12. CASE CloseSocket
  BY <1>12 DEF CloseSocket, TypeOK, Lifecycle, HandOver, Position, Received, Published, UsedUp
<1>13. CASE CloseWake
  BY <1>13 DEF CloseWake, TypeOK, Lifecycle, HandOver, Position, Received, Published, UsedUp
<1>14. CASE Join
  BY <1>14 DEF Join, TypeOK, Lifecycle, HandOver, Position, Received, Published, UsedUp
<1>15. CASE ReleaseState
  BY <1>15 DEF ReleaseState, TypeOK, Lifecycle, HandOver, Position, Received, Published, UsedUp
<1>16. CASE Stop
  BY <1>16 DEF Stop, TypeOK, Lifecycle, HandOver, Position, Received, Published, UsedUp
<1>17. CASE RxTop
  BY <1>17 DEF RxTop, TypeOK, Lifecycle, HandOver, Position, Received, Published, UsedUp
<1>18. CASE RxLen
  BY <1>18 DEF RxLen, TypeOK, Lifecycle, HandOver, Position, Received, Published, UsedUp
<1>19. CASE RxWait
  BY <1>19 DEF RxWait, TypeOK, Lifecycle, HandOver, Position, Received, Published, UsedUp
<1>20. CASE RxRecv
  <2>1. PICK k \in 1 .. BufferSize :
          /\ rcvd + k <= Len(sent)
          /\ buf' = [i \in Offsets |-> IF i < k THEN sent[rcvd + i + 1] ELSE buf[i]]
          /\ n' = k
          /\ rcvd' = rcvd + k
    BY <1>20 DEF RxRecv, RecvSizes
  <2>2. wpc # "off" /\ len = 0 /\ readLen = 0 /\ Len(delivered) = rcvd
    BY <1>20 DEF RxRecv, Lifecycle, HandOver, Position, UsedUp
  <2>3. wpc # "release"
    BY <1>20 DEF RxRecv, HandOver
  <2>4. Received'
    BY <1>20, <2>1, <2>2 DEF RxRecv, TypeOK, Received
  <2>5. Published' /\ UsedUp'
    BY <1>20, <2>2, <2>3 DEF RxRecv, Published, UsedUp
  <2> QED
    BY <1>20, <2>1, <2>4, <2>5 DEF RxRecv, TypeOK, Position
<1>21. CASE RxEof
  BY <1>21 DEF RxEof, TypeOK, Lifecycle, HandOver, Position, Received, Published, UsedUp
<1>22. CASE RxRecvClosed
  BY <1>22 DEF RxRecvClosed, TypeOK, Lifecycle, HandOver, Position, Received, Published, UsedUp
<1>23. CASE RxStoreLen
  <2>1. wpc # "off" /\ Received
    BY <1>23 DEF RxStoreLen, Lifecycle, Position
  <2>2. UsedUp' /\ Received'
    BY <1>23, <2>1 DEF RxStoreLen, TypeOK, HandOver, Received, UsedUp
  <2>3. ASSUME NEW i \in Offsets, i < n
        PROVE  buf[i] = sent[(Len(delivered) + i + 1) - readLen]
    BY <1>23, <2>1, <2>3 DEF RxStoreLen, TypeOK, Received, Offsets
  <2>4. Published'
    BY <1>23, <2>1, <2>3 DEF RxStoreLen, TypeOK, Received, Published
  <2> QED
    BY <1>23, <2>2, <2>4 DEF RxStoreLen, Position
<1>24. CASE RxStoreClosed
  BY <1>24 DEF RxStoreClosed, TypeOK, Lifecycle, HandOver, Position, Received, Published, UsedUp
<1>25. CASE RxStoreErr
  BY <1>25 DEF RxStoreErr, TypeOK, Lifecycle, HandOver, Position, Received, Published, UsedUp
<1>26. CASE RxWake
  BY <1>26 DEF RxWake, TypeOK, Lifecycle, HandOver, Position, Received, Published, UsedUp
<1>27. CASE RxWaitFails
  BY <1>27 DEF RxWaitFails, TypeOK, Lifecycle, HandOver, Position, Received, Published, UsedUp
<1>28. CASE RxRecvFails
  BY <1>28 DEF RxRecvFails, TypeOK, Lifecycle, HandOver, Position, Received, Published, UsedUp
<1>29. CASE PeerSend
  <2>1. /\ Len(sent') = Len(sent) + 1
        /\ \A i \in 1 .. Len(sent) : sent'[i] = sent[i]
    BY <1>29 DEF PeerSend, TypeOK
  <2>2. Received'
    BY <1>29, <2>1 DEF PeerSend, TypeOK, Offsets, Position, Received
  <2>3. Published'
    <3>1. ASSUME NEW i \in Offsets, len # 0, wpc # "release", readLen <= i, i < len
          PROVE  (Len(delivered) + i + 1) - readLen \in 1 .. Len(sent)
      BY <1>29, <3>1, BufferSizeAssumption DEF PeerSend, TypeOK, Offsets, Position, Published
    <3>2. Published /\ UNCHANGED <<buf, len, readLen, wpc, rcvd, delivered>>
      BY <1>29 DEF PeerSend, Position, state, worker, reader, ghost
    <3> QED
      BY <2>1, <3>1, <3>2 DEF Published
  <2>4. UsedUp'
    BY <1>29 DEF PeerSend, Position, UsedUp
  <2> QED
    BY <1>29, <2>1, <2>2, <2>3, <2>4 DEF PeerSend, TypeOK, Position
<1>30. CASE PeerFin
  BY <1>30 DEF PeerFin, TypeOK, Lifecycle, HandOver, Position, Received, Published, UsedUp
<1>31. CASE HandlerWake
  BY <1>31 DEF HandlerWake, TypeOK, Lifecycle, HandOver, Position, Received, Published, UsedUp
<1>32. CASE UNCHANGED vars
  BY <1>32 DEF TypeOK, Lifecycle, HandOver, Position, Received, Published, UsedUp
<1> QED
  BY <1>1, <1>2, <1>3, <1>4, <1>5, <1>6, <1>7, <1>8, <1>9, <1>10, <1>11, <1>12, <1>13, <1>14, <1>15, <1>16, <1>17, <1>18, <1>19, <1>20, <1>21, <1>22, <1>23, <1>24, <1>25, <1>26, <1>27, <1>28, <1>29, <1>30, <1>31, <1>32 DEF Next, WorkerStep, ReaderStep

\* The initial state satisfies the inductive invariant.
LEMMA InvInit == Init => Inv
<1> SUFFICES ASSUME Init PROVE Inv
  OBVIOUS
<1> USE DEF Init
<1>1. Zero \in Byte /\ buf \in [Offsets -> Byte]
  BY ByteAssumption DEF Zero
<1>2. 0 \in 0 .. BufferSize /\ 0 \in Nat /\ <<>> \in Seq(Byte)
  BY BufferSizeAssumption
<1>3. TypeOK
  BY <1>1, <1>2, Zenon DEF TypeOK, WorkerPc, ReaderPc
<1>4. Position
  BY DEF Position
<1>5. Lifecycle /\ HandOver /\ WorkerWake /\ ReaderWake /\ EndOfStream
  BY DEF Lifecycle, HandOver, WorkerWake, ReaderWake, EndOfStream
<1> QED
  BY <1>3, <1>4, <1>5 DEF Inv

\* Every step preserves it.
LEMMA InvStep == Inv /\ [Next]_vars => Inv'
BY TypeStep, LifecycleStep, HandOverStep, WorkerWakeStep, ReaderWakeStep,
   PositionStep, EndOfStreamStep DEF Inv

\* The inductive invariant holds in every reachable state.
THEOREM Invariance == Spec => []Inv
BY InvInit, InvStep, PTL DEF Spec

\* TcpConn keeps its types: no length exceeds BUFFER_SIZE.
THEOREM TypeCorrectness == Spec => []TypeOK
<1>1. Inv => TypeOK
  BY DEF Inv
<1> QED
  BY <1>1, Invariance, PTL

\* read() and ksceNetRecvfrom never use the unlocked buffer together.
THEOREM ExclusiveBuffer == Spec => []BufferHasOneUser
<1>1. Inv => BufferHasOneUser
  BY DEF Inv, HandOver, BufferHasOneUser
<1> QED
  BY <1>1, Invariance, PTL

\* The worker does not sleep over data or an end of stream net_rx announced.
THEOREM WorkerIsWoken == Spec => []NoLostWorkerWake
<1>1. Inv => NoLostWorkerWake
  BY DEF Inv, WorkerWake, NoLostWorkerWake
<1> QED
  BY <1>1, Invariance, PTL

\* net_rx does not sleep over a buffer handed back or a close.
THEOREM ReaderIsWoken == Spec => []NoLostReaderWake
<1>1. Inv => NoLostReaderWake
  BY DEF Inv, ReaderWake, NoLostReaderWake
<1> QED
  BY <1>1, Invariance, PTL

\* A slot of CONN_POOL is free only when its net_rx thread has ended.
THEOREM FreeSlotIsQuiet == Spec => []FreeSlotHasNoReader
<1>1. Inv => FreeSlotHasNoReader
  BY DEF Inv, Lifecycle, FreeSlotHasNoReader
<1> QED
  BY <1>1, Invariance, PTL

\* At the end of the stream everything the peer sent has been delivered.
LEMMA AllDelivered ==
  ASSUME Inv, closed, wpc = "closed?"
  PROVE  fin /\ delivered = sent
<1>1. fin /\ rcvd = Len(sent) /\ len = 0 /\ rpc # "got"
  BY DEF Inv, EndOfStream, Connected, Closing
<1>2. Len(delivered) = Len(sent)
  BY <1>1 DEF Inv, Position, UsedUp
<1>3. delivered \in Seq(Byte) /\ sent \in Seq(Byte)
  BY DEF Inv, TypeOK
<1>4. \A i \in 1 .. Len(delivered) : delivered[i] = sent[i]
  BY DEF Inv, Position
<1> QED
  BY <1>1, <1>2, <1>3, <1>4

\* The byte read() takes out of the buffer is the next one of the stream.
LEMMA NextByte ==
  ASSUME Inv, wpc = "byte"
  PROVE  Len(delivered) < Len(sent) /\ buf[readLen] = sent[Len(delivered) + 1]
<1>1. len \in 1 .. BufferSize /\ readLen \in 0 .. len - 1 /\ readLen \in Offsets
  BY BufferSizeAssumption DEF Inv, TypeOK, HandOver, Position, Published, Offsets
<1> QED
  BY <1>1 DEF Inv, TypeOK, Position, Published

\* Every step of TcpConn is a step of the byte stream or leaves it alone.
LEMMA StreamStep == Inv /\ [Next]_vars => [Stream!Next]_(Stream!vars)
<1> SUFFICES ASSUME Inv, [Next]_vars PROVE [Stream!Next]_(Stream!vars)
  OBVIOUS
<1> USE DEF Stream!vars, vars, state, worker, reader, net, ghost
<1>1. CASE New
  BY <1>1 DEF New, Stream!Next, Stream!Open, Stream!Fresh
<1>2. CASE ReadClosed
  <2>1. CASE closed /\ ~err
    <3>1. fin /\ delivered = sent
      BY <1>2, <2>1, AllDelivered DEF ReadClosed
    <3> QED
      BY <1>2, <2>1, <3>1 DEF ReadClosed, Stream!Next, Stream!SeeEnd
  <2>2. CASE ~(closed /\ ~err)
    BY <1>2, <2>2 DEF ReadClosed, Inv, TypeOK
  <2> QED
    BY <2>1, <2>2
<1>3. CASE ReadByte
  BY <1>3, NextByte DEF ReadByte, Stream!Next, Stream!Deliver
<1>4. CASE PeerSend
  BY <1>4 DEF PeerSend, Stream!Next, Stream!Send
<1>5. CASE PeerFin
  BY <1>5 DEF PeerFin, Stream!Next, Stream!Finish
<1>6. CASE NewFails \/ NewRefused \/ Stop \/ HandlerWake
  BY <1>6 DEF NewFails, NewRefused, Stop, HandlerWake
<1>7. CASE \/ ReadLen \/ ReadRelease \/ ReadSignal \/ Handle \/ Wait
           \/ CloseMark \/ CloseSocket \/ CloseWake \/ Join \/ ReleaseState
  BY <1>7 DEF ReadLen, ReadRelease, ReadSignal, Handle, Wait, CloseMark,
     CloseSocket, CloseWake, Join, ReleaseState
<1>8. CASE ReaderStep \/ RxWaitFails \/ RxRecvFails
  BY <1>8 DEF ReaderStep, RxTop, RxLen, RxWait, RxRecv, RxEof, RxRecvClosed,
     RxStoreLen, RxStoreClosed, RxStoreErr, RxWake, RxWaitFails, RxRecvFails
<1>9. CASE UNCHANGED vars
  BY <1>9
<1> QED
  BY <1>1, <1>2, <1>3, <1>4, <1>5, <1>6, <1>7, <1>8, <1>9 DEF Next, WorkerStep

\* read() implements the byte stream: what the worker gets out of TcpConn is
\* what the peer put in, in order, once, and Closed only at the end.
THEOREM ImplementsStream == Spec => StreamSpec
<1>1. Init => Stream!Init
  BY DEF Init, Stream!Init, Stream!Fresh
<1> QED
  BY <1>1, StreamStep, Invariance, PTL DEF Spec, StreamSpec, Stream!Spec

-----------------------------------------------------------------------------
(***************************************************************************)
(* The send side.  What has been accepted is what the kernel has taken,    *)
(* followed by what the buffer still holds.                                *)
(***************************************************************************)
Held ==
  /\ Len(written) = Len(wire) + write_len
  /\ \A i \in 1 .. Len(wire) : wire[i] = written[i]
  /\ \A i \in Offsets : i < write_len => write_buffer[i] = written[Len(wire) + i + 1]

\* A flush() that returned Ok has left nothing, and no call has followed it.
Drained == flushed => write_len = 0 /\ call \in {"idle", "closed"}

WriteInv == WriteTypeOK /\ IndexInBounds /\ Held /\ Drained

\* What a concatenation consists of.
LEMMA Concat ==
  ASSUME NEW S, NEW s \in Seq(S), NEW t \in Seq(S), NEW w, w = s \o t
  PROVE  /\ w \in Seq(S) /\ Len(w) = Len(s) + Len(t)
         /\ \A i \in 1 .. Len(s) : w[i] = s[i]
         /\ \A i \in 1 .. Len(s) + Len(t) : i > Len(s) => w[i] = t[i - Len(s)]
OBVIOUS

\* Bytes from the front of the buffer are those of `written` that come next.
LEMMA Continues ==
  ASSUME WriteInv, NEW p \in Seq(Byte), Len(p) <= write_len,
         \A i \in 1 .. Len(p) : p[i] = write_buffer[i - 1],
         NEW w, w = wire \o p
  PROVE  /\ w \in Seq(Byte) /\ Len(w) = Len(wire) + Len(p)
         /\ \A i \in 1 .. Len(wire) + Len(p) : w[i] = written[i]
<1>1. wire \in Seq(Byte) /\ write_len \in 0 .. BufferSize /\ Len(p) \in Nat
  BY DEF WriteInv, WriteTypeOK
<1>2. ASSUME NEW i \in 1 .. Len(p)
      PROVE  p[i] = written[Len(wire) + i]
  <2>1. p[i] = write_buffer[i - 1] /\ i - 1 \in Offsets /\ i - 1 < write_len
    BY <1>1, BufferSizeAssumption DEF Offsets
  <2>2. write_buffer[i - 1] = written[Len(wire) + (i - 1) + 1]
    BY <2>1 DEF WriteInv, Held
  <2>3. Len(wire) + (i - 1) + 1 = Len(wire) + i
    BY <1>1
  <2> QED
    BY <2>1, <2>2, <2>3
<1>3. /\ w \in Seq(Byte) /\ Len(w) = Len(wire) + Len(p)
      /\ \A i \in 1 .. Len(wire) : w[i] = wire[i]
      /\ \A i \in 1 .. Len(wire) + Len(p) : i > Len(wire) => w[i] = p[i - Len(wire)]
  BY <1>1, Concat
<1>4. ASSUME NEW i \in 1 .. Len(wire) + Len(p)
      PROVE  w[i] = written[i]
  <2>1. CASE i <= Len(wire)
    BY <1>3, <2>1 DEF WriteInv, Held
  <2>2. CASE i > Len(wire)
    <3>1. i - Len(wire) \in 1 .. Len(p) /\ Len(wire) + (i - Len(wire)) = i
      BY <1>1, <2>2
    <3> QED
      BY <1>2, <1>3, <2>2, <3>1
  <2> QED
    BY <1>1, <2>1, <2>2
<1> QED
  BY <1>3, <1>4

\* So are the bytes of a send.
LEMMA SendTakes ==
  ASSUME WriteInv, NEW m \in 1 .. write_len,
         wire' = wire \o [i \in 1 .. m |-> write_buffer[i - 1]]
  PROVE  /\ wire' \in Seq(Byte) /\ Len(wire') = Len(wire) + m
         /\ \A i \in 1 .. Len(wire) + m : wire'[i] = written[i]
<1>1. PICK p : p = [i \in 1 .. m |-> write_buffer[i - 1]]
  OBVIOUS
<1>2. m \in Nat /\ m <= write_len /\ write_len \in 0 .. BufferSize
  BY BufferSizeAssumption DEF WriteInv, WriteTypeOK
<1>3. \A i \in 1 .. m : write_buffer[i - 1] \in Byte
  BY <1>2, BufferSizeAssumption DEF WriteInv, WriteTypeOK, Offsets
<1>4. /\ p \in Seq(Byte) /\ Len(p) = m /\ wire' = wire \o p
      /\ \A i \in 1 .. m : p[i] = write_buffer[i - 1]
  BY <1>1, <1>2, <1>3
<1> QED
  BY <1>2, <1>4, Continues

\* A send moves the rest of the buffer down by what the kernel has taken.
LEMMA SendStep ==
  ASSUME WriteInv, Send
  PROVE  WriteInv'
<1>1. PICK m \in 1 .. write_len :
        /\ wire' = wire \o [i \in 1 .. m |-> write_buffer[i - 1]]
        /\ IF m < write_len THEN keep_rest(m)
                            ELSE write_len' = 0 /\ UNCHANGED write_buffer
  BY DEF Send
<1>2. call \in Flushing /\ UNCHANGED <<call, byte, written, flushed>>
  BY DEF Send
<1>3. m \in Nat /\ write_len \in 0 .. BufferSize /\ write_len # 0 /\ BufferSize \in Nat
  BY BufferSizeAssumption DEF WriteInv, WriteTypeOK
<1>4. write_len' = write_len - m /\ write_len' \in 0 .. BufferSize
  BY <1>1, <1>3 DEF keep_rest
<1>5. /\ wire' \in Seq(Byte) /\ Len(wire') = Len(wire) + m
      /\ \A i \in 1 .. Len(wire) + m : wire'[i] = written[i]
  BY <1>1, SendTakes
<1>6. /\ write_buffer' \in [Offsets -> Byte]
      /\ \A i \in Offsets : i < write_len' => write_buffer'[i] = write_buffer[i + m]
  <2>1. CASE m < write_len
    <3>1. write_buffer' = [i \in Offsets |-> IF i < write_len - m THEN write_buffer[i + m]
                                                                  ELSE write_buffer[i]]
      BY <1>1, <2>1 DEF keep_rest
    <3>2. \A i \in Offsets : i < write_len - m => i + m \in Offsets
      BY <1>3 DEF Offsets
    <3> QED
      BY <1>4, <3>1, <3>2 DEF WriteInv, WriteTypeOK
  <2>2. CASE ~(m < write_len)
    <3>1. write_len' = 0 /\ write_buffer' = write_buffer
      BY <1>1, <2>2
    <3> QED
      BY <3>1 DEF WriteInv, WriteTypeOK, Offsets
  <2> QED
    BY <2>1, <2>2
<1>7. WriteTypeOK'
  BY <1>2, <1>4, <1>5, <1>6 DEF WriteInv, WriteTypeOK
<1>8. IndexInBounds' /\ Drained'
  BY <1>2, <1>3 DEF WriteInv, IndexInBounds, Drained, Flushing
<1>9. ASSUME NEW i \in Offsets, i < write_len'
      PROVE  write_buffer'[i] = written[Len(wire') + i + 1]
  <2>1. i + m \in Offsets /\ i + m < write_len
    BY <1>3, <1>4, <1>9 DEF Offsets
  <2>2. write_buffer[i + m] = written[Len(wire) + (i + m) + 1]
    BY <2>1 DEF WriteInv, Held
  <2>3. Len(wire) + (i + m) + 1 = Len(wire') + i + 1
    BY <1>3, <1>5 DEF Offsets, WriteInv, WriteTypeOK
  <2> QED
    BY <1>6, <1>9, <2>2, <2>3
<1>10. Len(written) = Len(wire') + write_len'
  BY <1>3, <1>4, <1>5 DEF WriteInv, WriteTypeOK, Held
<1>11. Held'
  BY <1>2, <1>5, <1>9, <1>10 DEF Held
<1> QED
  BY <1>7, <1>8, <1>11 DEF WriteInv

\* The byte that write() stores comes after everything the buffer holds.
LEMMA StoreStep ==
  ASSUME WriteInv, Store
  PROVE  WriteInv'
<1>1. /\ call = "store" /\ call' \in {"drain", "idle"}
      /\ write_buffer' = [write_buffer EXCEPT ![write_len] = byte]
      /\ write_len' = write_len + 1
      /\ written' = Append(written, byte)
      /\ UNCHANGED <<byte, wire, flushed>>
  BY DEF Store
<1>2. write_len \in Offsets /\ write_len \in Nat /\ write_len + 1 \in 0 .. BufferSize
  BY <1>1, BufferSizeAssumption DEF WriteInv, WriteTypeOK, IndexInBounds, Offsets
<1>3. /\ written' \in Seq(Byte) /\ Len(written') = Len(written) + 1
      /\ \A i \in 1 .. Len(written) : written'[i] = written[i]
      /\ written'[Len(written) + 1] = byte
  BY <1>1 DEF WriteInv, WriteTypeOK
<1>4. WriteTypeOK'
  BY <1>1, <1>2, <1>3 DEF WriteInv, WriteTypeOK, CallPc, Flushing
<1>5. IndexInBounds' /\ Drained'
  BY <1>1 DEF WriteInv, IndexInBounds, Drained
<1>6. \A i \in 1 .. Len(wire) : wire[i] = written'[i]
  BY <1>3 DEF WriteInv, WriteTypeOK, Held
<1>7. ASSUME NEW i \in Offsets, i < write_len + 1
      PROVE  write_buffer'[i] = written'[Len(wire) + i + 1]
  <2>1. CASE i = write_len
    BY <1>1, <1>2, <1>3, <2>1 DEF WriteInv, WriteTypeOK, Held
  <2>2. CASE i < write_len
    <3>1. Len(wire) + i + 1 \in 1 .. Len(written)
      BY <1>2, <2>2 DEF WriteInv, WriteTypeOK, Held, Offsets
    <3> QED
      BY <1>1, <1>2, <1>3, <2>2, <3>1 DEF WriteInv, WriteTypeOK, Held
  <2> QED
    BY <1>2, <1>7, <2>1, <2>2 DEF Offsets
<1>8. Len(written') = Len(wire) + (write_len + 1)
  BY <1>2, <1>3 DEF WriteInv, WriteTypeOK, Held
<1>9. wire' = wire /\ write_len' = write_len + 1
  BY <1>1
<1>10. Held'
  BY <1>6, <1>7, <1>8, <1>9, Zenon DEF Held
<1> QED
  BY <1>4, <1>5, <1>10 DEF WriteInv

LEMMA WriteInvInit == WriteInit => WriteInv
<1> SUFFICES ASSUME WriteInit PROVE WriteInv
  OBVIOUS
<1>1. Zero \in Byte
  BY ByteAssumption DEF Zero
<1>2. WriteTypeOK
  <2>1. write_buffer \in [Offsets -> Byte] /\ byte \in Byte
    BY <1>1 DEF WriteInit
  <2>2. write_len \in 0 .. BufferSize /\ written \in Seq(Byte) /\ wire \in Seq(Byte)
    BY BufferSizeAssumption DEF WriteInit
  <2>3. call \in CallPc /\ flushed \in BOOLEAN
    BY DEF WriteInit, CallPc
  <2> QED
    BY <2>1, <2>2, <2>3 DEF WriteTypeOK
<1>3. Held
  BY DEF WriteInit, Held, Offsets
<1> QED
  BY <1>2, <1>3 DEF WriteInit, WriteInv, IndexInBounds, Drained

LEMMA WriteInvStep == WriteInv /\ [WriteNext]_writeVars => WriteInv'
<1> SUFFICES ASSUME WriteInv, [WriteNext]_writeVars PROVE WriteInv'
  OBVIOUS
<1> USE DEF buffer, output
<1>1. CASE Open
  <2>1. Zero \in Byte
    BY ByteAssumption DEF Zero
  <2>2. WriteTypeOK'
    <3>1. write_buffer' \in [Offsets -> Byte] /\ byte' \in Byte
      BY <1>1, <2>1 DEF Open, WriteInv, WriteTypeOK
    <3>2. write_len' \in 0 .. BufferSize /\ written' \in Seq(Byte) /\ wire' \in Seq(Byte)
      BY <1>1, BufferSizeAssumption DEF Open
    <3>3. call' \in CallPc /\ flushed' \in BOOLEAN
      BY <1>1 DEF Open, CallPc
    <3> QED
      BY <3>1, <3>2, <3>3 DEF WriteTypeOK
  <2>3. Held'
    BY <1>1 DEF Open, Held, Offsets
  <2> QED
    BY <1>1, <2>2, <2>3 DEF Open, WriteInv, IndexInBounds, Drained
<1>2. CASE Close
  BY <1>2 DEF Close, WriteInv, WriteTypeOK, CallPc, IndexInBounds, Held, Drained
<1>3. CASE Write
  <2>1. WriteTypeOK'
    BY <1>3 DEF Write, WriteInv, WriteTypeOK, CallPc, Flushing
  <2>2. IndexInBounds'
    BY <1>3, BufferSizeAssumption DEF Write, WriteInv, WriteTypeOK, IndexInBounds, Full
  <2>3. Held' /\ Drained'
    BY <1>3 DEF Write, WriteInv, Held, Drained
  <2> QED
    BY <2>1, <2>2, <2>3 DEF WriteInv
<1>4. CASE Store
  BY <1>4, StoreStep
<1>5. CASE Flush
  BY <1>5 DEF Flush, WriteInv, WriteTypeOK, CallPc, Flushing, IndexInBounds, Held, Drained
<1>6. CASE Send
  BY <1>6, SendStep
<1>7. CASE SendFails
  BY <1>7 DEF SendFails, WriteInv, WriteTypeOK, CallPc, Flushing, IndexInBounds, Held, Drained
<1>8. CASE Flushed
  <2>1. WriteTypeOK'
    BY <1>8 DEF Flushed, WriteInv, WriteTypeOK, CallPc
  <2>2. IndexInBounds'
    BY <1>8, BufferSizeAssumption DEF Flushed, IndexInBounds
  <2>3. Held' /\ Drained'
    BY <1>8 DEF Flushed, Flushing, WriteInv, Held, Drained
  <2> QED
    BY <2>1, <2>2, <2>3 DEF WriteInv
<1>9. CASE UNCHANGED writeVars
  BY <1>9 DEF writeVars, WriteInv, WriteTypeOK, IndexInBounds, Held, Drained
<1> QED
  BY <1>1, <1>2, <1>3, <1>4, <1>5, <1>6, <1>7, <1>8, <1>9 DEF WriteNext

\* The inductive invariant of the send side.
THEOREM WriteInvariance == WriteSpec => []WriteInv
BY WriteInvInit, WriteInvStep, PTL DEF WriteSpec

\* The write buffer and its length stay in their types.
THEOREM WriteTypeCorrectness == WriteSpec => []WriteTypeOK
<1>1. WriteInv => WriteTypeOK
  BY DEF WriteInv
<1> QED
  BY <1>1, WriteInvariance, PTL

\* write() indexes inside the buffer, whatever the calls before it met.
THEOREM WriteIndexInBounds == WriteSpec => []IndexInBounds
<1>1. WriteInv => IndexInBounds
  BY DEF WriteInv
<1> QED
  BY <1>1, WriteInvariance, PTL

\* An empty buffer means that everything is out.
LEMMA EmptyIsOut ==
  ASSUME WriteInv, write_len = 0
  PROVE  wire = written
<1>1. wire \in Seq(Byte) /\ written \in Seq(Byte) /\ Len(wire) = Len(written)
  BY DEF WriteInv, WriteTypeOK, Held
<1>2. \A i \in 1 .. Len(wire) : wire[i] = written[i]
  BY DEF WriteInv, Held
<1> QED
  BY <1>1, <1>2

\* flush() says Ok only when the kernel has every byte.
THEOREM FlushMeansOut == WriteSpec => []FlushedIsOut
<1>1. WriteInv => FlushedIsOut
  BY EmptyIsOut DEF WriteInv, Drained, FlushedIsOut
<1> QED
  BY <1>1, WriteInvariance, PTL

\* Every step of the send side is a step of the output stream or leaves it alone.
LEMMA OutStep == WriteInv /\ [WriteNext]_writeVars => [Out!Next]_(Out!vars)
<1> SUFFICES ASSUME WriteInv, [WriteNext]_writeVars PROVE [Out!Next]_(Out!vars)
  OBVIOUS
<1> USE DEF Out!vars, buffer, output
<1>1. CASE Open
  BY <1>1 DEF Open, Out!Next, Out!Open
<1>2. CASE Store
  <2>1. ~flushed
    BY <1>2 DEF Store, WriteInv, Drained
  <2> QED
    BY <1>2, <2>1 DEF Store, Out!Next, Out!Accept, WriteInv, WriteTypeOK
<1>3. CASE Send
  <2>1. PICK m \in 1 .. write_len : wire' = wire \o [i \in 1 .. m |-> write_buffer[i - 1]]
    BY <1>3 DEF Send
  <2> DEFINE k == Len(wire) + m
  <2>2. /\ wire' \in Seq(Byte) /\ Len(wire') = k
        /\ \A i \in 1 .. k : wire'[i] = written[i]
    BY <2>1, SendTakes
  <2>3. k \in Len(wire) + 1 .. Len(written)
    BY DEF WriteInv, WriteTypeOK, Held
  <2> HIDE DEF k
  <2>4. /\ SubSeq(written, 1, k) \in Seq(Byte) /\ Len(SubSeq(written, 1, k)) = k
        /\ \A i \in 1 .. k : SubSeq(written, 1, k)[i] = written[i]
    BY <2>3 DEF WriteInv, WriteTypeOK
  <2>5. wire' = SubSeq(written, 1, k)
    BY <2>2, <2>4
  <2> QED
    BY <1>3, <2>3, <2>5 DEF Send, Out!Next, Out!Transmit
<1>4. CASE Write \/ Flush
  BY <1>4 DEF Write, Flush, Out!Next, Out!Call
<1>5. CASE Flushed
  <2>1. UNCHANGED <<written, wire>>
    BY <1>5 DEF Flushed
  <2>2. CASE call = "flush"
    <3>1. wire = written
      BY <1>5, EmptyIsOut DEF Flushed
    <3>2. flushed' = TRUE
      BY <1>5, <2>2 DEF Flushed
    <3> QED
      BY <2>1, <3>1, <3>2 DEF Out!Next, Out!FlushOk
  <2>3. CASE call # "flush"
    BY <1>5, <2>1, <2>3 DEF Flushed, Out!Next, Out!Call
  <2> QED
    BY <2>2, <2>3
<1>6. CASE Close \/ SendFails
  BY <1>6 DEF Close, SendFails
<1>7. CASE UNCHANGED writeVars
  BY <1>7 DEF writeVars
<1> QED
  BY <1>1, <1>2, <1>3, <1>4, <1>5, <1>6, <1>7 DEF WriteNext

\* write() and flush() implement the output stream: however sends split or
\* fail, the peer gets the accepted bytes in order, once, without a gap.
THEOREM ImplementsOutput == WriteSpec => OutSpec
<1>1. WriteInit => Out!Init
  BY DEF WriteInit, Out!Init
<1> QED
  BY <1>1, OutStep, WriteInvariance, PTL DEF WriteSpec, OutSpec, Out!Spec
=============================================================================
