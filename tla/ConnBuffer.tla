----------------------------- MODULE ConnBuffer -----------------------------
(***************************************************************************)
(* What both directions of a gdb connection share (gdb/tcpconn.rs): the    *)
(* bytes and the size of a buffer, which a fresh connection finds zeroed.  *)
(* TcpConn models the receive side, WriteBuffer the send side.             *)
(***************************************************************************)
EXTENDS Naturals, Sequences

CONSTANTS Byte,        \* the values a byte takes
          BufferSize   \* BUFFER_SIZE, the size of either buffer

ASSUME ByteAssumption == Byte # {}
ASSUME BufferSizeAssumption == BufferSize \in Nat \ {0}

Offsets == 0 .. BufferSize - 1

Zero == CHOOSE b \in Byte : TRUE
=============================================================================
