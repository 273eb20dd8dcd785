------------------------------ MODULE HwSlots -------------------------------
(***************************************************************************)
(* Hardware breakpoints and watchpoints: the tables of a session           *)
(* (gdb/sessions.rs), the kernel calls that program the comparators of the *)
(* process, and gdb's requests (gdb/target.rs).  enable_debug leaves the   *)
(* debug hardware off; the switch that is_debug_enabled reads belongs to   *)
(* the kernel, so it may be on all the same.                               *)
(***************************************************************************)
EXTENDS Naturals, TargetSession

CONSTANTS Addrs, Kinds,     \* addresses, WatchKind
          NumBps, NumWps,   \* the sizes of the two tables
          Off               \* an empty slot, a comparator that is disarmed

ASSUME OffAssumption == Off \notin Addrs /\ Off \notin Addrs \X Kinds
ASSUME SizeAssumption == NumBps \in Nat /\ NumWps \in Nat

VARIABLES
  enabled,      \* is_debug_enabled()
  bps, wps,     \* hw_breakpoints, hw_watchpoints
  phbp, phwp,   \* the comparators of the process
  moved,        \* the armed watchpoint's address is not the one in its slot
  left          \* comparators that clear_all could not disarm

tables  == <<bps, wps>>
phw     == <<phbp, phwp>>
hwVars  == <<enabled, tables, phw, moved, left>>

Bps == 0 .. NumBps - 1
Wps == 0 .. NumWps - 1
Watch == Addrs \X Kinds

HwInit ==
  /\ enabled \in BOOLEAN
  /\ bps = [i \in Bps |-> Off] /\ wps = [i \in Wps |-> Off]
  /\ phbp = [i \in Bps |-> Off] /\ phwp = [i \in Wps |-> Off]
  /\ moved = FALSE /\ left = {}

First(S) == CHOOSE i \in S : \A j \in S : i <= j

\* Dip switch 0xe4, which other kernel code may flip.
SwitchFlips ==
  /\ enabled' = ~enabled
  /\ UNCHANGED <<session, tables, phw, moved, left>>

-----------------------------------------------------------------------------
(***************************************************************************)
(* Breakpoints.  A request that changes nothing (no session, hardware off, *)
(* address known, table full, a kernel call that fails) is a stuttering    *)
(* step, whatever gdb is told.                                             *)
(***************************************************************************)
FreeBps == {i \in Bps : bps[i] = Off}

\* Mutant of set_hw_breakpoint: it does not look for the address first.
set_hw_breakpoint_twice(a) ==
  /\ session /\ enabled
  /\ FreeBps # {}
  /\ LET i == First(FreeBps) IN
       bps' = [bps EXCEPT ![i] = a] /\ phbp' = [phbp EXCEPT ![i] = a]
  /\ left' = left \ {<<"bp", First(FreeBps)>>}
  /\ UNCHANGED <<session, enabled, wps, phwp, moved>>

set_hw_breakpoint(a) ==
  /\ session /\ enabled
  /\ \A i \in Bps : bps[i] # a
  /\ FreeBps # {}
  /\ LET i == First(FreeBps) IN
       bps' = [bps EXCEPT ![i] = a] /\ phbp' = [phbp EXCEPT ![i] = a]
  /\ left' = left \ {<<"bp", First(FreeBps)>>}
  /\ UNCHANGED <<session, enabled, wps, phwp, moved>>

clear_hw_breakpoint(a) ==
  /\ session /\ enabled
  /\ \E i \in Bps :
       /\ bps[i] = a
       /\ bps' = [bps EXCEPT ![i] = Off] /\ phbp' = [phbp EXCEPT ![i] = Off]
  /\ UNCHANGED <<session, enabled, wps, phwp, moved, left>>

(***************************************************************************)
(* Watchpoints.  The first loop of set_hw_watchpoint stops at the first    *)
(* slot in use, whatever its address: a watchpoint of the same kind is     *)
(* forgotten, one of another kind takes the comparator over, and the slot  *)
(* keeps the old address.                                                  *)
(***************************************************************************)
UsedWps == {i \in Wps : wps[i] # Off}

WatchTakesOver(a, k) ==
  LET i == First(UsedWps) IN
  /\ UsedWps # {}
  /\ wps[i][2] # k
  /\ phwp' = [phwp EXCEPT ![i] = <<a, k>>]
  /\ wps' = [wps EXCEPT ![i] = <<wps[i][1], k>>]
  /\ moved' = (wps[i][1] # a)
  /\ UNCHANGED left

\* Mutant of WatchIsNew: the slot is not filled in.
WatchIsNewUntabled(a, k) ==
  /\ UsedWps = {} /\ Wps # {}
  /\ phwp' = [phwp EXCEPT ![First(Wps)] = <<a, k>>]
  /\ left' = left \ {<<"wp", First(Wps)>>}
  /\ UNCHANGED <<wps, moved>>

WatchIsNew(a, k) ==
  /\ UsedWps = {} /\ Wps # {}
  /\ phwp' = [phwp EXCEPT ![First(Wps)] = <<a, k>>]
  /\ wps' = [wps EXCEPT ![First(Wps)] = <<a, k>>]
  /\ left' = left \ {<<"wp", First(Wps)>>}
  /\ UNCHANGED moved

set_hw_watchpoint(a, k) ==
  /\ session /\ enabled
  /\ WatchTakesOver(a, k) \/ WatchIsNew(a, k)
  /\ UNCHANGED <<session, enabled, bps, phbp>>

clear_hw_watchpoint(a) ==
  /\ session /\ enabled
  /\ \E i \in Wps :
       /\ wps[i] # Off /\ wps[i][1] = a
       /\ wps' = [wps EXCEPT ![i] = Off] /\ phwp' = [phwp EXCEPT ![i] = Off]
  /\ moved' = FALSE
  /\ UNCHANGED <<session, enabled, bps, phbp, left>>

\* handle_watch asks this about the address of a data abort.
has_watchpoint(a) == \E i \in Wps : wps[i] # Off /\ wps[i][1] = a

(***************************************************************************)
(* detach: clear_all, twice for the watchpoints, whose slots stay filled   *)
(* until reset.  It does not look at the switch.  F are the calls that     *)
(* fail; nobody is told.                                                   *)
(***************************************************************************)
Programmed ==
  {<<"bp", i>> : i \in {j \in Bps : bps[j] # Off}} \cup
  {<<"wp", i>> : i \in {j \in Wps : wps[j] # Off}}

\* Mutant of clear_all: the watchpoints are forgotten.
clear_all_breakpoints(F) ==
  /\ phbp' = [i \in Bps |-> IF bps[i] # Off /\ <<"bp", i>> \notin F THEN Off ELSE phbp[i]]
  /\ UNCHANGED phwp

clear_all(F) ==
  /\ phbp' = [i \in Bps |-> IF bps[i] # Off /\ <<"bp", i>> \notin F THEN Off ELSE phbp[i]]
  /\ phwp' = [i \in Wps |-> IF wps[i] # Off /\ <<"wp", i>> \notin F THEN Off ELSE phwp[i]]

HwDetach ==
  /\ session /\ session' = FALSE
  /\ \E F \in SUBSET Programmed : clear_all(F) /\ left' = left \cup F
  /\ bps' = [i \in Bps |-> Off] /\ wps' = [i \in Wps |-> Off]
  /\ moved' = FALSE
  /\ UNCHANGED enabled

HwNext ==
  \/ SwitchFlips
  \/ \E a \in Addrs : set_hw_breakpoint(a) \/ clear_hw_breakpoint(a)
  \/ \E a \in Addrs, k \in Kinds : set_hw_watchpoint(a, k)
  \/ \E a \in Addrs : clear_hw_watchpoint(a)

-----------------------------------------------------------------------------
(***************************************************************************)
(* Properties.                                                             *)
(***************************************************************************)

HwTypeOK ==
  /\ enabled \in BOOLEAN /\ moved \in BOOLEAN
  /\ bps \in [Bps -> Addrs \cup {Off}] /\ phbp \in [Bps -> Addrs \cup {Off}]
  /\ wps \in [Wps -> Watch \cup {Off}] /\ phwp \in [Wps -> Watch \cup {Off}]
  /\ left \subseteq ({"bp"} \X Bps) \cup ({"wp"} \X Wps)

\* The breakpoint table is what the process's comparators hold, address for
\* address and each address once, except for what an earlier session left.
BreakTableIsHardware ==
  \A i \in Bps :
    /\ <<"bp", i>> \notin left => bps[i] = phbp[i]
    /\ bps[i] # Off => phbp[i] = bps[i] /\ \A j \in Bps \ {i} : bps[j] # bps[i]

\* A hit of an armed watchpoint is known to handle_watch, which otherwise
\* leaves the exception unhandled, unless a second watchpoint has taken the
\* comparator of the first.
HitIsKnown ==
  session /\ ~moved =>
    \A i \in Wps : phwp[i] # Off /\ <<"wp", i>> \notin left
                     => has_watchpoint(phwp[i][1])

\* After a detach no comparator is armed, not even one whose slot has lost
\* its address, unless the kernel refused to disarm it.
DetachedIsDisarmed ==
  ~session => /\ \A i \in Bps : phbp[i] # Off => <<"bp", i>> \in left
              /\ \A i \in Wps : phwp[i] # Off => <<"wp", i>> \in left
=============================================================================
