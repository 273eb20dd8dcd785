----------------------------- MODULE MCTcpConn ------------------------------
(***************************************************************************)
(* Both directions of a connection.  The buffers are smaller than the      *)
(* stream, so that bytes take several hand-overs and several sends, and    *)
(* there are two values of a byte, so that a repeated or a skipped byte    *)
(* shows.  The directions share no variable; a behaviour moves in one of   *)
(* them, which spares TLC their product.                                   *)
(***************************************************************************)
EXTENDS TcpConn, WriteBuffer

VARIABLE direction

allVars == <<vars, writeVars, direction>>

MCInit == Init /\ WriteInit /\ direction \in {"receive", "send"}

MCReceive == direction = "receive" /\ Next /\ UNCHANGED <<writeVars, direction>>

MCSend == direction = "send" /\ WriteNext /\ UNCHANGED <<vars, direction>>

MCFairSpec == /\ MCInit /\ [][MCReceive \/ MCSend]_allVars
              /\ WF_vars(WorkerStep) /\ WF_vars(ReaderStep)
=============================================================================
