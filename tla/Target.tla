------------------------------- MODULE Target -------------------------------
(***************************************************************************)
(* The worker's operations on a halted process (gdb/target.rs and          *)
(* gdb/multi_thread.rs): registers and hardware slots of one session after *)
(* another.  Software breakpoints are in SwBreakpoints, resumption is in   *)
(* DebugSession.                                                           *)
(***************************************************************************)
EXTENDS HwSlots, Registers

vars == <<session, hwVars, regVars>>

Init == session = FALSE /\ HwInit /\ RegInit

Attach ==
  /\ ~panicked /\ ~session
  /\ session' = TRUE
  /\ UNCHANGED <<hwVars, regVars>>

Detach == ~panicked /\ HwDetach /\ UNCHANGED regVars

Next ==
  \/ Attach \/ Detach
  \/ ~panicked /\ HwNext /\ UNCHANGED regVars
  \/ RegNext /\ UNCHANGED hwVars

Spec == Init /\ [][Next]_vars
=============================================================================
