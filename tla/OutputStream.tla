---------------------------- MODULE OutputStream ----------------------------
(***************************************************************************)
(* What a connection promises its writer, without a buffer, partial sends  *)
(* or errors: what the kernel has been given is always a prefix of what    *)
(* has been accepted, it only grows until the connection is replaced, and  *)
(* a flush that succeeds has given it everything.                          *)
(***************************************************************************)
EXTENDS Naturals, Sequences

CONSTANT Byte

VARIABLES written,    \* the bytes the connection has accepted, in order
          wire,       \* the bytes the kernel has taken over, in order
          flushed     \* the last call was a flush that succeeded

vars == <<written, wire, flushed>>

Init == written = <<>> /\ wire = <<>> /\ flushed = FALSE

Open == written' = <<>> /\ wire' = <<>> /\ flushed' = FALSE

Call == flushed' = FALSE /\ UNCHANGED <<written, wire>>

Accept == /\ ~flushed
          /\ \E b \in Byte : written' = Append(written, b)
          /\ UNCHANGED <<wire, flushed>>

Transmit == /\ \E k \in Len(wire) + 1 .. Len(written) : wire' = SubSeq(written, 1, k)
            /\ UNCHANGED <<written, flushed>>

FlushOk == /\ wire = written
           /\ flushed' = TRUE
           /\ UNCHANGED <<written, wire>>

Next == Open \/ Call \/ Accept \/ Transmit \/ FlushOk

Spec == Init /\ [][Next]_vars
=============================================================================
