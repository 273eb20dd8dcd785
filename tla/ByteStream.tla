----------------------------- MODULE ByteStream -----------------------------
(***************************************************************************)
(* What TcpConn::read promises the event loop, without threads, buffers    *)
(* or event flags: the bytes of one connection come out in the order in    *)
(* which the peer sent them, each exactly once, and the end of the stream  *)
(* is reported only when the peer has finished and nothing is left.        *)
(***************************************************************************)
EXTENDS Naturals, Sequences

CONSTANT Byte

VARIABLES sent,       \* the bytes the peer has written, in order
          fin,        \* the peer has shut its side down
          delivered,  \* the bytes read() has returned
          seen        \* read() has returned ReadResult::Closed

vars == <<sent, fin, delivered, seen>>

Fresh == sent = <<>> /\ ~fin /\ delivered = <<>> /\ ~seen

Init == Fresh

Open == Fresh'

Send(b) == /\ ~fin
           /\ sent' = Append(sent, b)
           /\ UNCHANGED <<fin, delivered, seen>>

Finish == /\ fin' = TRUE
          /\ UNCHANGED <<sent, delivered, seen>>

Deliver == /\ Len(delivered) < Len(sent)
           /\ delivered' = Append(delivered, sent[Len(delivered) + 1])
           /\ UNCHANGED <<sent, fin, seen>>

SeeEnd == /\ fin /\ delivered = sent
          /\ seen' = TRUE
          /\ UNCHANGED <<sent, fin, delivered>>

Next == Open \/ (\E b \in Byte : Send(b)) \/ Finish \/ Deliver \/ SeeEnd

Spec == Init /\ [][Next]_vars
=============================================================================
