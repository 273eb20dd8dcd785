---------------------------- MODULE BoundedQueue ----------------------------
(***************************************************************************)
(* What the exception ring promises (vita-gdb/src/kernel/mpsc.rs, as       *)
(* push_excp, pop_excp and reset of gdb/sessions.rs use it): a first-in,   *)
(* first-out queue of bounded size.  Its consumer may also throw away a    *)
(* number of the oldest events.                                            *)
(***************************************************************************)
EXTENDS Naturals, Sequences

CONSTANTS Value,     \* the events
          Capacity   \* the most events it holds

VARIABLES q,         \* the events not yet taken, oldest first
          out        \* the event the last pop returned

vars == <<q, out>>

Init == q = <<>>

Push ==
  /\ Len(q) < Capacity
  /\ \E v \in Value : q' = Append(q, v)
  /\ UNCHANGED out

Pop ==
  /\ q # <<>>
  /\ out' = Head(q)
  /\ q' = Tail(q)

Clear ==
  /\ \E k \in 1 .. Len(q) : q' = SubSeq(q, k + 1, Len(q))
  /\ UNCHANGED out

Next == Push \/ Pop \/ Clear

Spec == Init /\ [][Next]_vars
=============================================================================
