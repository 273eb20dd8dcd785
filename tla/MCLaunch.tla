------------------------------ MODULE MCLaunch ------------------------------
(***************************************************************************)
(* Launch for TLC: three processes, so that a run() follows one that timed *)
(* out and an attach comes between them.                                   *)
(***************************************************************************)
EXTENDS Launch
=============================================================================
