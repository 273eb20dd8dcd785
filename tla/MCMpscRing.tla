----------------------------- MODULE MCMpscRing -----------------------------
(***************************************************************************)
(* MpscRing with two handlers and two kinds of event; three slots, so that *)
(* the ring wraps, fills up with two events and runs empty.                *)
(***************************************************************************)
EXTENDS MpscRing, TLC

\* Handlers run the same code; the ring never looks into an event.
Symmetry == Permutations(Producers) \cup Permutations(Value)
=============================================================================
