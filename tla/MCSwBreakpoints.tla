-------------------------- MODULE MCSwBreakpoints ---------------------------
(***************************************************************************)
(* SwBreakpoints for TLC: more addresses than slots, so that the table     *)
(* fills up, and two instructions, so that stale bytes show.               *)
(***************************************************************************)
EXTENDS SwBreakpoints, TLC

\* Threads, unshared addresses and instructions are interchangeable.
Symmetry ==
  Permutations(Threads) \cup Permutations(Addrs \ Shared) \cup Permutations(Code)
=============================================================================
