---------------------------- MODULE WriteBuffer -----------------------------
(***************************************************************************)
(* The send side of one gdb connection (gdb/tcpconn.rs): Connection::write *)
(* and Connection::flush on the worker's own write buffer.  The kernel may *)
(* take fewer bytes than it is offered, and it may fail; a failure ends    *)
(* the call and keeps the bytes that were not taken.                       *)
(*                                                                         *)
(* A writer may call again after a failure: a monitor command that prints  *)
(* line after line does, gdbstub hands it the error when it has finished.  *)
(***************************************************************************)
EXTENDS ConnBuffer

CONSTANT MaxWritten    \* bound on what is written to one connection

ASSUME MaxWrittenAssumption == MaxWritten \in Nat

VARIABLES
  write_buffer, write_len,  \* TcpConn
  call, byte,               \* where the worker is in a call, and its argument
  written, wire,            \* bytes accepted, bytes the kernel has taken
  flushed                   \* the last call was a flush() that returned Ok

buffer == <<write_buffer, write_len>>
output == <<written, wire>>
writeVars == <<buffer, call, byte, output, flushed>>

\* flush_write_buffer is called from three places.
Flushing == {"make_room", "drain", "flush"}
CallPc == {"closed", "idle", "store"} \cup Flushing

WriteInit ==
  /\ write_buffer = [i \in Offsets |-> Zero] /\ write_len = 0
  /\ call = "closed" /\ byte = Zero
  /\ written = <<>> /\ wire = <<>> /\ flushed = FALSE

-----------------------------------------------------------------------------
\* A connection has a buffer of its own, and loses with it what it still holds
\* when it is closed.
Open ==
  /\ call = "closed" /\ call' = "idle"
  /\ write_buffer' = [i \in Offsets |-> Zero] /\ write_len' = 0
  /\ written' = <<>> /\ wire' = <<>> /\ flushed' = FALSE
  /\ UNCHANGED byte

Close ==
  /\ call = "idle" /\ call' = "closed"
  /\ UNCHANGED <<buffer, byte, output, flushed>>

\* Mutant of Full: a buffer that a failure has left full is not drained.
FullNever == FALSE

Full == write_len = BufferSize

\* A full buffer is one that an earlier call has failed to drain.
Write ==
  /\ call = "idle"
  /\ Len(written) < MaxWritten
  /\ byte' \in Byte
  /\ call' = IF Full THEN "make_room" ELSE "store"
  /\ flushed' = FALSE
  /\ UNCHANGED <<buffer, output>>

Store ==
  /\ call = "store"
  /\ write_buffer' = [write_buffer EXCEPT ![write_len] = byte]
  /\ write_len' = write_len + 1
  /\ written' = Append(written, byte)
  /\ call' = IF Full' THEN "drain" ELSE "idle"
  /\ UNCHANGED <<byte, wire, flushed>>

Flush ==
  /\ call = "idle"
  /\ call' = "flush"
  /\ flushed' = FALSE
  /\ UNCHANGED <<buffer, byte, output>>

-----------------------------------------------------------------------------
(***************************************************************************)
(* flush_write_buffer, one step for each time around its loop.             *)
(***************************************************************************)
\* Mutant of keep_rest: what was not taken is not moved down.
keep_restUnmoved(n) ==
  /\ write_len' = write_len - n
  /\ UNCHANGED write_buffer

keep_rest(n) ==
  /\ write_len' = write_len - n
  /\ write_buffer' = [i \in Offsets |-> IF i < write_len - n THEN write_buffer[i + n]
                                                             ELSE write_buffer[i]]

\* The kernel takes the first n bytes of those it is offered.
Send ==
  /\ call \in Flushing
  /\ \E n \in 1 .. write_len :
       /\ wire' = wire \o [i \in 1 .. n |-> write_buffer[i - 1]]
       /\ IF n < write_len THEN keep_rest(n)
                           ELSE write_len' = 0 /\ UNCHANGED write_buffer
  /\ UNCHANGED <<call, byte, written, flushed>>

\* The `?` of every caller: the call returns Err.
SendFails ==
  /\ call \in Flushing
  /\ write_len > 0
  /\ call' = "idle"
  /\ UNCHANGED <<buffer, byte, output, flushed>>

\* The loop ends: write() goes on, or the call returns Ok.
Flushed ==
  /\ call \in Flushing
  /\ write_len = 0
  /\ call' = IF call = "make_room" THEN "store" ELSE "idle"
  /\ flushed' = (call = "flush")
  /\ UNCHANGED <<buffer, byte, output>>

WriteNext == \/ Open \/ Close \/ Write \/ Store \/ Flush
             \/ Send \/ SendFails \/ Flushed

WriteSpec == WriteInit /\ [][WriteNext]_writeVars

-----------------------------------------------------------------------------
WriteTypeOK ==
  /\ write_buffer \in [Offsets -> Byte] /\ write_len \in 0 .. BufferSize
  /\ call \in CallPc /\ byte \in Byte
  /\ written \in Seq(Byte) /\ wire \in Seq(Byte) /\ flushed \in BOOLEAN

\* write() never stores past the end of the buffer, also when the call before
\* it has failed and left the buffer full.
IndexInBounds == call = "store" => write_len < BufferSize

\* When flush() has returned Ok the kernel has every byte that write() has
\* accepted, however many sends that took and however many failed before.
FlushedIsOut == flushed => wire = written

\* Partial and failed sends lose, repeat or reorder no byte: what the kernel
\* has taken is at any time the beginning of what write() has accepted, and
\* all of it when flush() answers Ok.
Out == INSTANCE OutputStream
OutSpec == Out!Spec
=============================================================================
