------------------------------ MODULE MCServer ------------------------------
(***************************************************************************)
(* Server with two workers and as many connection slots, so that a slot    *)
(* lost to a failure leaves too few, and a session for each of them.       *)
(***************************************************************************)
EXTENDS Server
=============================================================================
