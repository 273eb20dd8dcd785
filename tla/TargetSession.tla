--------------------------- MODULE TargetSession ----------------------------
(***************************************************************************)
(* What the operations of VitaTarget on a halted process share: whether    *)
(* there is a session (gdb/target.rs).  HwSlots and Registers extend it,   *)
(* Target puts them together.                                              *)
(***************************************************************************)
VARIABLE session   \* VitaTarget::session is Some
=============================================================================
