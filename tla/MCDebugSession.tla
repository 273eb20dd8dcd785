--------------------------- MODULE MCDebugSession ---------------------------
(***************************************************************************)
(* DebugSession for TLC: one or two threads, all in the same process.      *)
(***************************************************************************)
EXTENDS DebugSession, TLC

CONSTANTS p1

InFirst == [t \in Threads |-> p1]

\* Threads of one process do the same things.
Symmetry == Permutations(Threads)
=============================================================================
