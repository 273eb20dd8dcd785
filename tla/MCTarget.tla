------------------------------ MODULE MCTarget ------------------------------
(***************************************************************************)
(* Target with two register sets in which all registers hold different     *)
(* values at first.  The second is in user mode, the first may be: a write *)
(* can change the set that is read either way.                             *)
(***************************************************************************)
EXTENDS Target

Pair == <<8, 8>>

\* The kernel reports the halves of the D registers in the other order.
Swapped == [d \in [0 .. NumD - 1 -> Word \X Word] |-> [n \in DOMAIN d |-> <<d[n][2], d[n][1]>>]]

\* Written first, so that TLC does not enumerate all registers.
MCInit ==
  /\ \E mode \in {5, 6} :
       entries = [s \in Sets |-> [r |-> [n \in Gpr |-> n + s], sp |-> 2 + s, lr |-> 3 + s,
                                  pc |-> 4 + s, cpsr |-> IF s = 0 THEN mode ELSE 5,
                                  fpscr |-> 7 - s]]
  /\ vfp = [n \in Dpr |-> <<7, 9>>]
  /\ Init

\* Slots and registers share no state but the session: they are used one
\* after the other, not in every combination.
MCNext ==
  /\ Next
  /\ writes = 0 \/ UNCHANGED hwVars
  /\ Programmed = {} \/ UNCHANGED regVars

MCSpec == MCInit /\ [][MCNext]_vars
=============================================================================
