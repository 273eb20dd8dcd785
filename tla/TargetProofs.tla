---------------------------- MODULE TargetProofs ----------------------------
(***************************************************************************)
(* Proofs about Target.  The hardware slots, for any addresses, kinds and  *)
(* table sizes: the tables of a session agree with the comparators of the  *)
(* process, a hit of a watchpoint is known, and a detach disarms.  Then    *)
(* the registers, for any number of them and any words.                    *)
(***************************************************************************)
EXTENDS Target, FiniteSetTheorems, SequenceTheorems, WellFoundedInduction, TLAPS

\* A set of numbers has a least one.
LEMMA LeastNumber ==
  ASSUME NEW S, S \subseteq Nat, S # {}
  PROVE  \E x \in S : \A y \in S : x <= y
<1> DEFINE R == {ss \in Nat \X Nat : ss[1] < ss[2]}
<1>1. IsWellFoundedOn(R, Nat)
  BY NatLessThanWellFounded DEF OpToRel
<1>2. PICK x \in S : \A y \in S : <<y, x>> \notin R
  <2> HIDE DEF R
  <2> QED
    BY <1>1, WFMin
<1>3. ASSUME NEW y \in S PROVE x <= y
  <2>1. x \in Nat /\ y \in Nat /\ <<y, x>> \notin R
    BY <1>2
  <2> QED
    BY <2>1
<1> QED
  BY <1>3

\* The search for a slot ends at a slot of the set that is searched.
LEMMA FirstIsMember ==
  ASSUME NEW S, S \subseteq Nat, S # {}
  PROVE  First(S) \in S
BY LeastNumber DEF First

\* Outside a session both tables are empty: detach drops it with all slots.
Empty ==
  ~session => /\ \A i \in Bps : bps[i] = Off
              /\ \A i \in Wps : wps[i] = Off

\* One watchpoint at most is in the table.  A comparator is armed exactly if
\* its slot is in use, and for the same watchpoint unless it was taken over.
WatchTable ==
  \A i \in Wps :
    /\ wps[i] # Off => <<"wp", i>> \notin left /\ \A j \in Wps : wps[j] # Off => j = i
    /\ <<"wp", i>> \notin left => /\ (phwp[i] # Off) = (wps[i] # Off)
                                  /\ ~moved => phwp[i] = wps[i]

Inv ==
  /\ session \in BOOLEAN /\ HwTypeOK
  /\ Empty /\ BreakTableIsHardware /\ WatchTable /\ DetachedIsDisarmed

-----------------------------------------------------------------------------
\* Slot numbers are numbers, and a watchpoint is not an empty slot.
LEMMA Slots ==
  /\ Bps \subseteq Nat /\ Wps \subseteq Nat
  /\ Off \notin Addrs /\ Off \notin Watch
  BY OffAssumption, SizeAssumption DEF Bps, Wps, Watch

LEMMA InitInv == Init => Inv
<1> SUFFICES ASSUME Init PROVE Inv
  OBVIOUS
<1> QED
  BY DEF Init, HwInit, Inv, HwTypeOK, Empty, BreakTableIsHardware, WatchTable, DetachedIsDisarmed

\* Inv is about these variables only.
LEMMA InvUnchanged == Inv /\ UNCHANGED <<session, hwVars>> => Inv'
  BY DEF hwVars, tables, phw, Inv, HwTypeOK, Empty, BreakTableIsHardware,
     WatchTable, DetachedIsDisarmed

LEMMA SetBreakpoint ==
  ASSUME Inv, NEW a \in Addrs, set_hw_breakpoint(a)
  PROVE  Inv'
<1> DEFINE i == First(FreeBps)
<1>1. i \in Bps /\ bps[i] = Off
  BY FirstIsMember, Slots DEF set_hw_breakpoint, FreeBps
<1> HIDE DEF i
<1>2. /\ session /\ UNCHANGED <<session, enabled, wps, phwp, moved>>
      /\ \A j \in Bps : bps[j] # a
      /\ bps' = [bps EXCEPT ![i] = a] /\ phbp' = [phbp EXCEPT ![i] = a]
      /\ left' = left \ {<<"bp", i>>}
  BY DEF set_hw_breakpoint, i
<1>3. HwTypeOK' /\ session' \in BOOLEAN
  BY <1>1, <1>2 DEF Inv, HwTypeOK
<1>4. Empty' /\ DetachedIsDisarmed'
  BY <1>2 DEF Empty, DetachedIsDisarmed
<1>5. BreakTableIsHardware'
  BY <1>1, <1>2, Slots DEF Inv, HwTypeOK, BreakTableIsHardware
<1>6. WatchTable'
  BY <1>2 DEF Inv, WatchTable
<1> QED
  BY <1>3, <1>4, <1>5, <1>6 DEF Inv

LEMMA ClearBreakpoint ==
  ASSUME Inv, NEW a \in Addrs, clear_hw_breakpoint(a)
  PROVE  Inv'
<1>1. PICK i \in Bps : /\ bps[i] = a
                       /\ bps' = [bps EXCEPT ![i] = Off]
                       /\ phbp' = [phbp EXCEPT ![i] = Off]
  BY DEF clear_hw_breakpoint
<1>2. session /\ UNCHANGED <<session, enabled, wps, phwp, moved, left>>
  BY DEF clear_hw_breakpoint
<1>3. HwTypeOK' /\ session' \in BOOLEAN
  BY <1>1, <1>2 DEF Inv, HwTypeOK
<1>4. Empty' /\ DetachedIsDisarmed'
  BY <1>2 DEF Empty, DetachedIsDisarmed
<1>5. BreakTableIsHardware'
  BY <1>1, <1>2, Slots DEF Inv, HwTypeOK, BreakTableIsHardware
<1>6. WatchTable'
  BY <1>2 DEF Inv, WatchTable
<1> QED
  BY <1>3, <1>4, <1>5, <1>6 DEF Inv

\* The first slot in use takes the new kind, and the comparator the new
\* address: the one step that lets slot and comparator part.
LEMMA TakeWatchpoint ==
  ASSUME Inv, NEW a \in Addrs, NEW k \in Kinds, session, WatchTakesOver(a, k),
         UNCHANGED <<session, enabled, bps, phbp>>
  PROVE  Inv'
<1> DEFINE i == First(UsedWps)
<1>1. i \in Wps /\ wps[i] # Off /\ wps[i] \in Watch
  BY FirstIsMember, Slots DEF WatchTakesOver, UsedWps, Inv, HwTypeOK
<1> HIDE DEF i
<1>2. /\ phwp' = [phwp EXCEPT ![i] = <<a, k>>]
      /\ wps' = [wps EXCEPT ![i] = <<wps[i][1], k>>]
      /\ moved' = (wps[i][1] # a) /\ left' = left
  BY DEF WatchTakesOver, i
<1>3. <<a, k>> \in Watch /\ <<wps[i][1], k>> \in Watch
  BY <1>1 DEF Watch
<1>4. HwTypeOK' /\ session' \in BOOLEAN
  BY <1>1, <1>2, <1>3 DEF Inv, HwTypeOK
<1>5. Empty' /\ DetachedIsDisarmed'
  BY DEF Empty, DetachedIsDisarmed
<1>6. BreakTableIsHardware'
  BY <1>2 DEF Inv, BreakTableIsHardware
<1>7. <<a, k>> # Off /\ <<wps[i][1], k>> # Off /\ <<"wp", i>> \notin left
  BY <1>1, <1>3, Slots DEF Inv, WatchTable
<1>8. ASSUME NEW j \in Wps, j # i
      PROVE  /\ wps'[j] = Off
             /\ <<"wp", j>> \notin left' => phwp'[j] = Off
  <2>1. wps'[j] = wps[j] /\ phwp'[j] = phwp[j]
    BY <1>1, <1>2, <1>8 DEF Inv, HwTypeOK
  <2>2. wps[j] = Off /\ (<<"wp", j>> \notin left => phwp[j] = Off)
    BY <1>1, <1>8 DEF Inv, WatchTable
  <2>3. <<"wp", j>> \in left' <=> <<"wp", j>> \in left
    BY <1>2, <1>8
  <2> QED
    BY <2>1, <2>2, <2>3
<1>9. /\ wps'[i] # Off /\ phwp'[i] # Off
      /\ <<"wp", i>> \notin left' /\ (~moved' => phwp'[i] = wps'[i])
  BY <1>1, <1>2, <1>7 DEF Inv, HwTypeOK
<1>10. WatchTable'
  BY <1>8, <1>9 DEF WatchTable
<1> QED
  BY <1>4, <1>5, <1>6, <1>10 DEF Inv

LEMMA NewWatchpoint ==
  ASSUME Inv, NEW a \in Addrs, NEW k \in Kinds, session, WatchIsNew(a, k),
         UNCHANGED <<session, enabled, bps, phbp>>
  PROVE  Inv'
<1> DEFINE i == First(Wps)
<1>1. i \in Wps /\ \A j \in Wps : wps[j] = Off
  BY FirstIsMember, Slots DEF WatchIsNew, UsedWps
<1> HIDE DEF i
<1>2. /\ phwp' = [phwp EXCEPT ![i] = <<a, k>>]
      /\ wps' = [wps EXCEPT ![i] = <<a, k>>]
      /\ left' = left \ {<<"wp", i>>} /\ moved' = moved
  BY DEF WatchIsNew, i
<1>3. <<a, k>> \in Watch
  BY DEF Watch
<1>4. HwTypeOK' /\ session' \in BOOLEAN
  BY <1>1, <1>2, <1>3 DEF Inv, HwTypeOK
<1>5. Empty' /\ DetachedIsDisarmed'
  BY DEF Empty, DetachedIsDisarmed
<1>6. BreakTableIsHardware'
  BY <1>2 DEF Inv, BreakTableIsHardware
<1>7. <<a, k>> # Off
  BY <1>3, Slots
<1>8. ASSUME NEW j \in Wps, j # i
      PROVE  /\ wps'[j] = Off
             /\ <<"wp", j>> \notin left' => phwp'[j] = Off
  <2>1. wps'[j] = wps[j] /\ phwp'[j] = phwp[j]
    BY <1>1, <1>2, <1>8 DEF Inv, HwTypeOK
  <2>2. wps[j] = Off /\ (<<"wp", j>> \notin left => phwp[j] = Off)
    BY <1>1, <1>8 DEF Inv, WatchTable
  <2>3. <<"wp", j>> \in left' <=> <<"wp", j>> \in left
    BY <1>2, <1>8
  <2> QED
    BY <2>1, <2>2, <2>3
<1>9. /\ wps'[i] # Off /\ phwp'[i] # Off
      /\ <<"wp", i>> \notin left' /\ (~moved' => phwp'[i] = wps'[i])
  BY <1>1, <1>2, <1>7 DEF Inv, HwTypeOK
<1>10. WatchTable'
  BY <1>8, <1>9 DEF WatchTable
<1> QED
  BY <1>4, <1>5, <1>6, <1>10 DEF Inv

LEMMA ClearWatchpoint ==
  ASSUME Inv, NEW a \in Addrs, clear_hw_watchpoint(a)
  PROVE  Inv'
<1>1. PICK i \in Wps : /\ wps[i] # Off
                       /\ wps' = [wps EXCEPT ![i] = Off]
                       /\ phwp' = [phwp EXCEPT ![i] = Off]
  BY DEF clear_hw_watchpoint
<1>2. session /\ moved' = FALSE /\ UNCHANGED <<session, enabled, bps, phbp, left>>
  BY DEF clear_hw_watchpoint
<1>3. HwTypeOK' /\ session' \in BOOLEAN
  BY <1>1, <1>2 DEF Inv, HwTypeOK
<1>4. Empty' /\ DetachedIsDisarmed'
  BY <1>2 DEF Empty, DetachedIsDisarmed
<1>5. BreakTableIsHardware'
  BY <1>2 DEF Inv, BreakTableIsHardware
<1>6. ASSUME NEW j \in Wps
      PROVE  wps'[j] = Off /\ (<<"wp", j>> \notin left => phwp'[j] = Off)
  <2>1. CASE j = i
    BY <1>1, <2>1 DEF Inv, HwTypeOK
  <2>2. CASE j # i
    BY <1>1, <2>2 DEF Inv, HwTypeOK, WatchTable
  <2> QED
    BY <2>1, <2>2
<1>7. WatchTable'
  BY <1>2, <1>6 DEF WatchTable
<1> QED
  BY <1>3, <1>4, <1>5, <1>7 DEF Inv

\* What clear_all leaves armed is what the kernel refused, now or before.
LEMMA DetachStep ==
  ASSUME Inv, HwDetach
  PROVE  Inv'
<1>1. PICK F \in SUBSET Programmed : clear_all(F) /\ left' = left \cup F
  BY DEF HwDetach
<1>2. /\ session' = FALSE /\ moved' = FALSE /\ enabled' = enabled
      /\ bps' = [i \in Bps |-> Off] /\ wps' = [i \in Wps |-> Off]
  BY DEF HwDetach
<1>3. /\ phbp' = [i \in Bps |-> IF bps[i] # Off /\ <<"bp", i>> \notin F
                                THEN Off ELSE phbp[i]]
      /\ phwp' = [i \in Wps |-> IF wps[i] # Off /\ <<"wp", i>> \notin F
                                THEN Off ELSE phwp[i]]
  BY <1>1 DEF clear_all
<1>4. F \subseteq ({"bp"} \X Bps) \cup ({"wp"} \X Wps)
  BY <1>1 DEF Programmed
<1>5. HwTypeOK' /\ session' \in BOOLEAN
  BY <1>1, <1>2, <1>3, <1>4 DEF Inv, HwTypeOK
<1>6. Empty'
  BY <1>2 DEF Empty
<1>7. ASSUME NEW i \in Bps, <<"bp", i>> \notin left' PROVE phbp'[i] = Off
  BY <1>1, <1>3, <1>7 DEF Inv, BreakTableIsHardware
<1>8. ASSUME NEW i \in Wps, <<"wp", i>> \notin left' PROVE phwp'[i] = Off
  BY <1>1, <1>3, <1>8 DEF Inv, WatchTable
<1>9. BreakTableIsHardware' /\ WatchTable' /\ DetachedIsDisarmed'
  BY <1>2, <1>7, <1>8 DEF BreakTableIsHardware, WatchTable, DetachedIsDisarmed
<1> QED
  BY <1>5, <1>6, <1>9 DEF Inv

\* The switch and attach change nothing that Inv is about.
LEMMA OtherStep ==
  ASSUME Inv, SwitchFlips \/ Attach
  PROVE  Inv'
<1>1. CASE SwitchFlips
  BY <1>1 DEF SwitchFlips, tables, phw, Inv, HwTypeOK, Empty, BreakTableIsHardware,
     WatchTable, DetachedIsDisarmed
<1>2. CASE Attach
  BY <1>2 DEF Attach, hwVars, tables, phw, Inv, HwTypeOK, Empty, BreakTableIsHardware,
     WatchTable, DetachedIsDisarmed
<1> QED
  BY <1>1, <1>2

LEMMA NextInv == Inv /\ [Next]_vars => Inv'
<1> SUFFICES ASSUME Inv, [Next]_vars PROVE Inv'
  OBVIOUS
<1>1. CASE Attach
  BY <1>1, OtherStep
<1>2. CASE Detach
  BY <1>2, DetachStep DEF Detach
<1>3. CASE HwNext
  <2>1. CASE SwitchFlips
    BY <2>1, OtherStep
  <2>2. CASE \E a \in Addrs : set_hw_breakpoint(a) \/ clear_hw_breakpoint(a)
    BY <2>2, SetBreakpoint, ClearBreakpoint
  <2>3. CASE \E a \in Addrs, k \in Kinds : set_hw_watchpoint(a, k)
    <3>1. PICK a \in Addrs, k \in Kinds : set_hw_watchpoint(a, k)
      BY <2>3
    <3>2. session /\ UNCHANGED <<session, enabled, bps, phbp>>
      BY <3>1 DEF set_hw_watchpoint
    <3>3. CASE WatchTakesOver(a, k)
      BY <3>2, <3>3, TakeWatchpoint
    <3>4. CASE WatchIsNew(a, k)
      BY <3>2, <3>4, NewWatchpoint
    <3> QED
      BY <3>1, <3>3, <3>4 DEF set_hw_watchpoint
  <2>4. CASE \E a \in Addrs : clear_hw_watchpoint(a)
    BY <2>4, ClearWatchpoint
  <2> QED
    BY <1>3, <2>1, <2>2, <2>3, <2>4 DEF HwNext
<1>4. CASE RegNext /\ UNCHANGED hwVars
  <2>1. UNCHANGED session
    BY <1>4 DEF RegNext, read_registers, read_register, write_registers, write_register,
       write_register_panics
  <2> QED
    BY <1>4, <2>1, InvUnchanged
<1>5. CASE UNCHANGED vars
  BY <1>5, InvUnchanged DEF vars
<1> QED
  BY <1>1, <1>2, <1>3, <1>4, <1>5 DEF Next

LEMMA Invariance == Spec => []Inv
  BY InitInv, NextInv, PTL DEF Spec

-----------------------------------------------------------------------------
\* The table of hardware breakpoints is what the comparators hold, whatever
\* requests, flips of the switch and failing calls there have been.
THEOREM TableIsHardware == Spec => []BreakTableIsHardware
<1>1. Inv => BreakTableIsHardware
  BY DEF Inv
<1> QED
  BY <1>1, Invariance, PTL

\* handle_watch knows every hit, unless a watchpoint was taken over.
THEOREM HitsAreKnown == Spec => []HitIsKnown
<1>1. Inv => HitIsKnown
  BY DEF Inv, WatchTable, HitIsKnown, has_watchpoint
<1> QED
  BY <1>1, Invariance, PTL

\* detach leaves nothing armed but what the kernel refused to disarm.
THEOREM DetachDisarms == Spec => []DetachedIsDisarmed
<1>1. Inv => DetachedIsDisarmed
  BY DEF Inv
<1> QED
  BY <1>1, Invariance, PTL

-----------------------------------------------------------------------------
(***************************************************************************)
(* The registers: the tables of gdb/armv7.rs agree with each other, what   *)
(* is written is read back, and a write stays with its register.           *)
(*                                                                         *)
(* Offset() sums up sizes with a fold of the community modules.  Its value *)
(* is found without an induction theorem: a closed form satisfies the      *)
(* fold's equation, and two functions that do agree on every finite set,   *)
(* since otherwise they would differ on a smallest one.                    *)
(***************************************************************************)

\* The numbers of the D registers.
DIds == (NumGpr + 4) .. (NumGpr + NumD + 3)

\* A D register has two words, every other register one.
LEMMA SizeValue ==
  \A id \in RawIds : size(id) = IF id \in DIds THEN 2 ELSE 1
<1> SUFFICES ASSUME NEW id \in RawIds PROVE size(id) = IF id \in DIds THEN 2 ELSE 1
  OBVIOUS
<1>1. (from_raw_id(id)[1] = "dpr") = (id \in DIds)
  BY NumAssumption DEF from_raw_id, RawIds, DIds, Gpr
<1> QED
  BY <1>1 DEF size

\* The words of the registers of s: one each, and one more for a D register.
words(s) == Cardinality(s) + Cardinality(s \cap DIds)

\* Without one of its registers a set has that register's words less.
LEMMA WordsStep ==
  ASSUME NEW s, IsFiniteSet(s), s \subseteq RawIds, NEW x \in s
  PROVE  words(s) = size(x) + words(s \ {x})
<1>1. IsFiniteSet(s \cap DIds) /\ (s \ {x}) \cap DIds = (s \cap DIds) \ {x}
  BY FS_Subset
<1>2. /\ Cardinality(s \ {x}) = Cardinality(s) - 1
      /\ Cardinality((s \cap DIds) \ {x})
           = IF x \in DIds THEN Cardinality(s \cap DIds) - 1 ELSE Cardinality(s \cap DIds)
  BY <1>1, FS_RemoveElement
<1>3. Cardinality(s) \in Nat /\ Cardinality(s \cap DIds) \in Nat
  BY <1>1, FS_CardinalityType
<1>4. size(x) = IF x \in DIds THEN 2 ELSE 1
  BY SizeValue
<1>5. words(s \ {x}) = Cardinality(s \ {x}) + Cardinality((s \cap DIds) \ {x})
  BY <1>1 DEF words
<1> HIDE DEF DIds
<1> QED
  BY <1>2, <1>3, <1>4, <1>5 DEF words

\* The fold under MapThenSumSet(size, S), a recursive function on sets.
picked(s) == CHOOSE x \in s : TRUE
IsSum(f, S) ==
  f = [s \in SUBSET S |-> IF s = {} THEN 0 ELSE size(picked(s)) + f[s \ {picked(s)}]]
sum(S) == CHOOSE f : IsSum(f, S)

LEMMA SumIsFold ==
  ASSUME NEW S
  PROVE  MapThenSumSet(size, S) = sum(S)[S]
BY DEF MapThenSumSet, MapThenFoldSet, sum, IsSum, picked

\* There is such a function ...
LEMMA SumExists ==
  ASSUME NEW S, IsFiniteSet(S), S \subseteq RawIds
  PROVE  IsSum([s \in SUBSET S |-> words(s)], S)
<1> DEFINE g == [s \in SUBSET S |-> words(s)]
<1>1. ASSUME NEW s \in SUBSET S
      PROVE  g[s] = IF s = {} THEN 0 ELSE size(picked(s)) + g[s \ {picked(s)}]
  <2>1. CASE s = {}
    <3>1. words({}) = 0
      <4>1. {} \cap DIds = {} /\ Cardinality({}) = 0
        BY FS_EmptySet
      <4> QED
        BY <4>1 DEF words
    <3> QED
      BY <2>1, <3>1
  <2>2. CASE s # {}
    <3>1. picked(s) \in s
      BY <2>2 DEF picked
    <3>2. IsFiniteSet(s)
      BY FS_Subset
    <3>3. words(s) = size(picked(s)) + words(s \ {picked(s)})
      BY <3>1, <3>2, WordsStep
    <3> QED
      BY <2>2, <3>3
  <2> QED
    BY <2>1, <2>2
<1> QED
  BY <1>1 DEF IsSum

\* ... and no other: on a smallest set that it sums up wrongly, it would be
\* right for the set without the picked register.
LEMMA SumIsWords ==
  ASSUME NEW S, IsFiniteSet(S), S \subseteq RawIds
  PROVE  MapThenSumSet(size, S) = words(S)
<1> DEFINE f == sum(S)
<1>1. IsSum(f, S)
  <2>1. \E g : IsSum(g, S)
    BY SumExists
  <2> QED
    BY <2>1 DEF sum
<1> HIDE DEF f
<1>2. ASSUME NEW s \in SUBSET S
      PROVE  f[s] = IF s = {} THEN 0 ELSE size(picked(s)) + f[s \ {picked(s)}]
  BY <1>1 DEF IsSum
<1>3. ASSUME NEW s \in SUBSET S
      PROVE  IsFiniteSet(s) /\ Cardinality(s) \in Nat
  BY FS_Subset, FS_CardinalityType
<1> DEFINE Wrong == {s \in SUBSET S : f[s] # words(s)}
           Sizes == {Cardinality(s) : s \in Wrong}
<1>4. Wrong = {}
  <2>1. SUFFICES ASSUME Wrong # {} PROVE FALSE
    OBVIOUS
  <2>2. Sizes \subseteq Nat /\ Sizes # {}
    BY <1>3, <2>1
  <2>3. PICK n \in Sizes : \A m \in Sizes : n <= m
    <3> HIDE DEF Sizes
    <3> QED
      BY <2>2, LeastNumber
  <2>4. PICK s \in Wrong : \A t \in Wrong : Cardinality(s) <= Cardinality(t)
    BY <2>3
  <2>5. CASE s = {}
    <3>1. words(s) = 0
      <4>1. s \cap DIds = {} /\ Cardinality({}) = 0
        BY <2>5, FS_EmptySet
      <4> QED
        BY <2>5, <4>1 DEF words
    <3> QED
      BY <1>2, <2>5, <3>1
  <2>6. CASE s # {}
    <3> DEFINE x == picked(s)
               t == s \ {x}
    <3>1. x \in s
      BY <2>6 DEF picked
    <3>2. t \in SUBSET S /\ Cardinality(t) = Cardinality(s) - 1 /\ Cardinality(s) \in Nat
      BY <1>3, <3>1, FS_RemoveElement
    <3>3. f[t] = words(t)
      BY <2>4, <3>2
    <3>4. words(s) = size(x) + words(t)
      BY <1>3, <3>1, WordsStep
    <3>5. f[s] = size(x) + f[t]
      BY <1>2, <2>6
    <3> QED
      BY <3>3, <3>4, <3>5
  <2> QED
    BY <2>5, <2>6
<1> QED
  BY <1>4, SumIsFold DEF f

\* Where a register begins: the D registers come after the core registers,
\* with two words each, and fpscr comes last.
LEMMA OffsetValue ==
  ASSUME NEW id \in RawIds
  PROVE  /\ id < NumGpr + 4 => Offset(id) = id
         /\ id \in DIds => Offset(id) = id + (id - (NumGpr + 4))
         /\ id = NumGpr + NumD + 4 => Offset(id) = id + NumD
<1>1. 0 .. id - 1 \subseteq RawIds /\ IsFiniteSet(0 .. id - 1)
      /\ Cardinality(0 .. id - 1) = id
  BY NumAssumption, FS_Interval DEF RawIds
<1>2. Offset(id) = id + Cardinality((0 .. id - 1) \cap DIds)
  BY <1>1, SumIsWords DEF Offset, words
<1>3. ASSUME id < NumGpr + 4 PROVE Offset(id) = id
  <2>1. (0 .. id - 1) \cap DIds = {}
    BY <1>3, NumAssumption DEF DIds, RawIds
  <2> QED
    BY <1>2, <1>3, <2>1, FS_EmptySet DEF RawIds
<1>4. ASSUME id \in DIds PROVE Offset(id) = id + (id - (NumGpr + 4))
  <2>1. (0 .. id - 1) \cap DIds = (NumGpr + 4) .. (id - 1)
    BY <1>4, NumAssumption DEF DIds, RawIds
  <2>2. Cardinality((NumGpr + 4) .. (id - 1)) = id - (NumGpr + 4)
    BY <1>4, NumAssumption, FS_Interval DEF DIds
  <2> QED
    BY <1>2, <2>1, <2>2
<1>5. ASSUME id = NumGpr + NumD + 4 PROVE Offset(id) = id + NumD
  <2>1. (0 .. id - 1) \cap DIds = DIds
    BY <1>5, NumAssumption DEF DIds
  <2>2. Cardinality(DIds) = NumD
    BY NumAssumption, FS_Interval DEF DIds
  <2> QED
    BY <1>2, <2>1, <2>2
<1> QED
  BY <1>3, <1>4, <1>5

-----------------------------------------------------------------------------
(***************************************************************************)
(* The wire format: where gdb_serialize puts each register, and that       *)
(* deserialize reads it there.                                             *)
(***************************************************************************)

\* A function on 1 .. n is a sequence, and where the elements of a
\* concatenation are, with the lengths named.
LEMMA FunctionIsSeq ==
  ASSUME NEW S, NEW n \in Nat, NEW f \in [1 .. n -> S]
  PROVE  f \in Seq(S) /\ Len(f) = n
OBVIOUS

LEMMA Concatenated ==
  ASSUME NEW S, NEW s \in Seq(S), NEW t \in Seq(S)
  PROVE  /\ s \o t \in Seq(S) /\ Len(s \o t) = Len(s) + Len(t)
         /\ \A i \in 1 .. Len(s) : (s \o t)[i] = s[i]
         /\ \A i \in 1 .. Len(t) : (s \o t)[Len(s) + i] = t[i]
<1>1. /\ s \o t \in Seq(S) /\ Len(s \o t) = Len(s) + Len(t)
      /\ \A i \in 1 .. Len(s) + Len(t) :
           (s \o t)[i] = IF i <= Len(s) THEN s[i] ELSE t[i - Len(s)]
  BY ConcatProperties
<1>2. Len(s) \in Nat /\ Len(t) \in Nat
  OBVIOUS
<1>3. ASSUME NEW i \in 1 .. Len(t) PROVE (s \o t)[Len(s) + i] = t[i]
  <2>1. /\ Len(s) + i \in 1 .. Len(s) + Len(t) /\ ~(Len(s) + i <= Len(s))
        /\ Len(s) + i - Len(s) = i
    BY <1>2
  <2> QED
    BY <1>1, <2>1
<1> QED
  BY <1>1, <1>2, <1>3

\* The words in front of the D registers.
NumCore == NumGpr + 4

\* The places of the registers in the whole set.
LEMMA Serialized ==
  ASSUME NEW regs \in Core, NEW d \in VfpState
  PROVE  LET data == gdb_serialize(regs, d) IN
           /\ data \in Seq(Word) /\ Len(data) = EXPECTED_LEN
           /\ \A n \in Gpr : data[n + 1] = regs.r[n]
           /\ data[NumGpr + 1] = regs.sp /\ data[NumGpr + 2] = regs.lr
           /\ data[NumGpr + 3] = regs.pc /\ data[NumGpr + 4] = regs.cpsr
           /\ \A n \in Dpr : /\ data[NumCore + 2 * n + 1] = d[n][1]
                             /\ data[NumCore + 2 * n + 2] = d[n][2]
           /\ data[NumCore + 2 * NumD + 1] = regs.fpscr
<1> DEFINE A == [i \in 1 .. NumGpr |-> regs.r[i - 1]]
           B == <<regs.sp, regs.lr, regs.pc, regs.cpsr>>
           C == [i \in 1 .. 2 * NumD |-> d[(i - 1) \div 2][1 + ((i - 1) % 2)]]
           F == <<regs.fpscr>>
           AB  == A \o B
           ABC == AB \o C
           data == ABC \o F
<1>1. A \in Seq(Word) /\ Len(A) = NumGpr /\ \A n \in Gpr : A[n + 1] = regs.r[n]
  <2>1. A \in [1 .. NumGpr -> Word]
    BY NumAssumption DEF Core, Gpr
  <2>2. ASSUME NEW n \in Gpr PROVE A[n + 1] = regs.r[n]
    <3>1. n + 1 \in 1 .. NumGpr /\ n + 1 - 1 = n
      BY NumAssumption DEF Gpr
    <3> QED
      BY <3>1, NumAssumption DEF Gpr
  <2> QED
    BY <2>1, <2>2, NumAssumption, FunctionIsSeq
<1>2. B \in Seq(Word) /\ Len(B) = 4
  BY DEF Core
<1>3. /\ C \in Seq(Word) /\ Len(C) = 2 * NumD
      /\ \A i \in 1 .. 2 * NumD : C[i] = d[(i - 1) \div 2][1 + ((i - 1) % 2)]
  <2>1. ASSUME NEW i \in 1 .. 2 * NumD PROVE d[(i - 1) \div 2][1 + ((i - 1) % 2)] \in Word
    <3>1. (i - 1) \div 2 \in Dpr /\ (i - 1) % 2 \in {0, 1}
      BY NumAssumption DEF Dpr
    <3>2. d[(i - 1) \div 2] \in Word \X Word
      BY <3>1 DEF VfpState
    <3> QED
      BY <3>1, <3>2
  <2>2. C \in [1 .. 2 * NumD -> Word] /\ 2 * NumD \in Nat
    BY <2>1, NumAssumption
  <2>3. C \in Seq(Word) /\ Len(C) = 2 * NumD
    BY <2>2, FunctionIsSeq
  <2> QED
    BY <2>3
<1>4. F \in Seq(Word) /\ Len(F) = 1 /\ F[1] = regs.fpscr
  BY DEF Core
<1>5. data = gdb_serialize(regs, d)
  <2>1. gdb_serialize(regs, d) = A \o B \o C \o F
    BY DEF gdb_serialize
  <2> QED
    BY <2>1
<1>6. B[1] = regs.sp /\ B[2] = regs.lr /\ B[3] = regs.pc /\ B[4] = regs.cpsr
  OBVIOUS
<1> HIDE DEF A, B, C, F
<1>7. NumGpr \in Nat /\ NumCore \in Nat /\ 2 * NumD \in Nat
  BY NumAssumption DEF NumCore
<1> HIDE DEF AB, ABC, data
<1>8. /\ AB \in Seq(Word) /\ Len(AB) = NumCore
      /\ \A i \in 1 .. NumGpr : AB[i] = A[i]
      /\ \A i \in 1 .. 4 : AB[NumGpr + i] = B[i]
  <2>1. A \in Seq(Word) /\ B \in Seq(Word)
    BY <1>1, <1>2
  <2>2. /\ A \o B \in Seq(Word) /\ Len(A \o B) = Len(A) + Len(B)
        /\ \A i \in 1 .. Len(A) : (A \o B)[i] = A[i]
        /\ \A i \in 1 .. Len(B) : (A \o B)[Len(A) + i] = B[i]
    BY <2>1, Concatenated
  <2> QED
    BY <1>1, <1>2, <1>7, <2>2 DEF AB, NumCore
<1>9. /\ ABC \in Seq(Word) /\ Len(ABC) = NumCore + 2 * NumD
      /\ \A i \in 1 .. NumCore : ABC[i] = AB[i]
      /\ \A i \in 1 .. 2 * NumD : ABC[NumCore + i] = C[i]
  <2>1. AB \in Seq(Word) /\ C \in Seq(Word)
    BY <1>3, <1>8
  <2>2. /\ AB \o C \in Seq(Word) /\ Len(AB \o C) = Len(AB) + Len(C)
        /\ \A i \in 1 .. Len(AB) : (AB \o C)[i] = AB[i]
        /\ \A i \in 1 .. Len(C) : (AB \o C)[Len(AB) + i] = C[i]
    BY <2>1, Concatenated
  <2> QED
    BY <1>3, <1>8, <1>7, <2>2 DEF ABC
<1>10. /\ data \in Seq(Word) /\ Len(data) = NumCore + 2 * NumD + 1
       /\ \A i \in 1 .. NumCore + 2 * NumD : data[i] = ABC[i]
       /\ data[NumCore + 2 * NumD + 1] = F[1]
  <2>1. ABC \in Seq(Word) /\ F \in Seq(Word)
    BY <1>4, <1>9
  <2>2. /\ ABC \o F \in Seq(Word) /\ Len(ABC \o F) = Len(ABC) + Len(F)
        /\ \A i \in 1 .. Len(ABC) : (ABC \o F)[i] = ABC[i]
        /\ \A i \in 1 .. Len(F) : (ABC \o F)[Len(ABC) + i] = F[i]
    BY <2>1, Concatenated
  <2> QED
    BY <1>4, <1>9, <1>7, <2>2 DEF data
<1>11. ASSUME NEW n \in Gpr PROVE data[n + 1] = regs.r[n]
  <2>1. n + 1 \in 1 .. NumGpr
    BY NumAssumption DEF Gpr
  <2>2. n + 1 \in 1 .. NumCore /\ n + 1 \in 1 .. NumCore + 2 * NumD
    BY <1>7, <2>1, NumAssumption DEF NumCore
  <2>3. data[n + 1] = A[n + 1]
    BY <1>8, <1>9, <1>10, <2>1, <2>2
  <2> QED
    BY <1>1, <2>1, <2>3
<1>12. ASSUME NEW j \in 1 .. 4 PROVE data[NumGpr + j] = B[j]
  <2>1. NumGpr + j \in 1 .. NumCore /\ NumGpr + j \in 1 .. NumCore + 2 * NumD
    BY <1>7 DEF NumCore
  <2> QED
    BY <1>8, <1>9, <1>10, <2>1
<1>13. ASSUME NEW n \in Dpr, NEW j \in {1, 2} PROVE data[NumCore + 2 * n + j] = d[n][j]
  <2> DEFINE i == 2 * n + j
  <2>1. i \in 1 .. 2 * NumD /\ (i - 1) \div 2 = n /\ 1 + ((i - 1) % 2) = j
    BY NumAssumption DEF Dpr
  <2>2. C[i] = d[n][j]
    BY <1>3, <2>1
  <2>3. data[NumCore + i] = C[i]
    <3> HIDE DEF i
    <3>1. NumCore + i \in 1 .. NumCore + 2 * NumD
      BY <1>7, <2>1
    <3> QED
      BY <1>9, <1>10, <2>1, <3>1
  <2>4. NumCore + i = NumCore + 2 * n + j
    BY <1>7, NumAssumption DEF Dpr
  <2> QED
    BY <2>2, <2>3, <2>4
<1> QED
  <2>1. data[NumGpr + 1] = B[1] /\ data[NumGpr + 2] = B[2]
        /\ data[NumGpr + 3] = B[3] /\ data[NumGpr + 4] = B[4]
    BY <1>12
  <2>2. Len(data) = EXPECTED_LEN
    BY <1>10 DEF NumCore, EXPECTED_LEN
  <2> QED
    BY <1>4, <1>5, <1>6, <1>10, <1>11, <1>13, <2>1, <2>2

\* What deserialize makes of a whole set is the set that serializes to it.
LEMMA RoundTrip ==
  ASSUME NEW data \in Seq(Word), Len(data) = EXPECTED_LEN
  PROVE  /\ deserialize_core(data) \in Core /\ deserialize_d(data) \in VfpState
         /\ gdb_serialize(deserialize_core(data), deserialize_d(data)) = data
<1> DEFINE c == deserialize_core(data)
           d == deserialize_d(data)
           e == gdb_serialize(c, d)
<1>1. \A i \in 1 .. NumCore + 2 * NumD + 1 : data[i] \in Word
  BY NumAssumption, ElementOfSeq DEF NumCore, EXPECTED_LEN
<1>2. c \in Core
  <2>1. /\ \A n \in Gpr : n + 1 \in 1 .. NumCore + 2 * NumD + 1
        /\ \A j \in 1 .. 4 : NumGpr + j \in 1 .. NumCore + 2 * NumD + 1
        /\ NumGpr + 2 * NumD + 5 \in 1 .. NumCore + 2 * NumD + 1
    BY NumAssumption DEF NumCore, Gpr
  <2>2. /\ \A n \in Gpr : data[n + 1] \in Word
        /\ \A j \in 1 .. 4 : data[NumGpr + j] \in Word
        /\ data[NumGpr + 2 * NumD + 5] \in Word
    BY <1>1, <2>1
  <2> QED
    BY <2>2 DEF deserialize_core, Core
<1>3. d \in VfpState
  <2>1. ASSUME NEW n \in Dpr
        PROVE  data[NumGpr + 2 * n + 5] \in Word /\ data[NumGpr + 2 * n + 6] \in Word
    <3>1. /\ NumGpr + 2 * n + 5 \in 1 .. NumCore + 2 * NumD + 1
          /\ NumGpr + 2 * n + 6 \in 1 .. NumCore + 2 * NumD + 1
      BY NumAssumption DEF NumCore, Dpr
    <3> QED
      BY <1>1, <3>1
  <2> QED
    BY <2>1 DEF deserialize_d, VfpState
<1>4. /\ e \in Seq(Word) /\ Len(e) = EXPECTED_LEN
      /\ \A n \in Gpr : e[n + 1] = c.r[n]
      /\ e[NumGpr + 1] = c.sp /\ e[NumGpr + 2] = c.lr
      /\ e[NumGpr + 3] = c.pc /\ e[NumGpr + 4] = c.cpsr
      /\ \A n \in Dpr : e[NumCore + 2 * n + 1] = d[n][1] /\ e[NumCore + 2 * n + 2] = d[n][2]
      /\ e[NumCore + 2 * NumD + 1] = c.fpscr
  <2> HIDE DEF c, d
  <2> QED
    BY <1>2, <1>3, Serialized
<1>5. ASSUME NEW i \in 1 .. EXPECTED_LEN PROVE e[i] = data[i]
  <2>1. CASE i \in 1 .. NumGpr
    <3>1. i - 1 \in Gpr /\ (i - 1) + 1 = i
      BY <2>1, NumAssumption DEF Gpr
    <3>2. c.r[i - 1] = data[(i - 1) + 1]
      BY <3>1 DEF deserialize_core
    <3>3. e[(i - 1) + 1] = c.r[i - 1]
      BY <1>4, <3>1
    <3> QED
      BY <3>1, <3>2, <3>3
  <2>2. CASE i \in {NumGpr + 1, NumGpr + 2, NumGpr + 3, NumGpr + 4}
    <3>1. /\ c.sp = data[NumGpr + 1] /\ c.lr = data[NumGpr + 2]
          /\ c.pc = data[NumGpr + 3] /\ c.cpsr = data[NumGpr + 4]
      BY DEF deserialize_core
    <3> HIDE DEF c, d, e
    <3> QED
      BY <1>4, <2>2, <3>1
  <2>3. CASE i = NumCore + 2 * NumD + 1
    <3>1. NumGpr + 2 * NumD + 5 = NumCore + 2 * NumD + 1
      BY NumAssumption DEF NumCore
    <3>2. c.fpscr = data[NumCore + 2 * NumD + 1]
      BY <3>1 DEF deserialize_core
    <3> HIDE DEF c, d, e
    <3> QED
      BY <1>4, <2>3, <3>2
  <2>4. CASE i \in NumCore + 1 .. NumCore + 2 * NumD
    <3> DEFINE n == (i - NumCore - 1) \div 2
    <3>1. /\ n \in Dpr
          /\ i = NumCore + 2 * n + 1 \/ i = NumCore + 2 * n + 2
          /\ NumGpr + 2 * n + 5 = NumCore + 2 * n + 1
          /\ NumGpr + 2 * n + 6 = NumCore + 2 * n + 2
      BY <2>4, NumAssumption DEF NumCore, Dpr
    <3> HIDE DEF n
    <3>2. d[n][1] = data[NumCore + 2 * n + 1] /\ d[n][2] = data[NumCore + 2 * n + 2]
      BY <3>1 DEF deserialize_d
    <3> HIDE DEF c, d, e
    <3> QED
      BY <1>4, <3>1, <3>2
  <2>5. \/ i \in 1 .. NumGpr
        \/ i \in {NumGpr + 1, NumGpr + 2, NumGpr + 3, NumGpr + 4}
        \/ i = NumCore + 2 * NumD + 1
        \/ i \in NumCore + 1 .. NumCore + 2 * NumD
    BY NumAssumption DEF NumCore, EXPECTED_LEN
  <2> QED
    BY <2>1, <2>2, <2>3, <2>4, <2>5
<1>6. e = data
  <2> HIDE DEF e
  <2> QED
    BY <1>4, <1>5, SeqEqual
<1> QED
  BY <1>2, <1>3, <1>6

-----------------------------------------------------------------------------
(***************************************************************************)
(* One register: read_register answers its slice of the whole set.         *)
(***************************************************************************)

\* The register id of a register set and of the D registers.
RegValue(regs, d, id) ==
  LET reg == from_raw_id(id) IN
    CASE reg[1] = "gpr"   -> <<regs.r[reg[2]]>>
      [] reg[1] = "sp"    -> <<regs.sp>>
      [] reg[1] = "lr"    -> <<regs.lr>>
      [] reg[1] = "pc"    -> <<regs.pc>>
      [] reg[1] = "cpsr"  -> <<regs.cpsr>>
      [] reg[1] = "fpscr" -> <<regs.fpscr>>
      [] reg[1] = "dpr"   -> d[reg[2]]

\* The numbers of the registers, kind by kind.
LEMMA RegisterKinds ==
  ASSUME NEW id \in RawIds
  PROVE  \/ id \in Gpr /\ from_raw_id(id) = <<"gpr", id>>
         \/ id = NumGpr /\ from_raw_id(id) = <<"sp", 0>>
         \/ id = NumGpr + 1 /\ from_raw_id(id) = <<"lr", 0>>
         \/ id = NumGpr + 2 /\ from_raw_id(id) = <<"pc", 0>>
         \/ id = NumGpr + 3 /\ from_raw_id(id) = <<"cpsr", 0>>
         \/ /\ id \in DIds /\ from_raw_id(id) = <<"dpr", id - NumCore>>
            /\ id - NumCore \in Dpr
         \/ id = NumGpr + NumD + 4 /\ from_raw_id(id) = <<"fpscr", 0>>
BY NumAssumption DEF from_raw_id, RawIds, DIds, Gpr, Dpr, NumCore

\* The slice of a register is the one or two words at its offset.
LEMMA SliceIs ==
  ASSUME NEW data \in Seq(Word), Len(data) = EXPECTED_LEN, NEW id \in RawIds
  PROVE  Slice(data, id) = IF id \in DIds THEN <<data[Offset(id) + 1], data[Offset(id) + 2]>>
                                          ELSE <<data[Offset(id) + 1]>>
<1> DEFINE o == Offset(id)
           n == size(id)
<1>1. o \in Nat /\ n = (IF id \in DIds THEN 2 ELSE 1) /\ o + n <= Len(data)
  BY OffsetValue, SizeValue, RegisterKinds, NumAssumption
     DEF RawIds, DIds, Gpr, EXPECTED_LEN
<1> HIDE DEF o, n
<1> DEFINE a == o + 1
           b == o + n
           t == SubSeq(data, a, b)
<1>2. a \in Int /\ b \in Int /\ b - a + 1 = n /\ a <= b
  BY <1>1
<1>3. \A i \in a .. b : data[i] \in Word
  BY <1>1, ElementOfSeq
<1>4. /\ t \in Seq(Word) /\ Len(t) = n
      /\ \A i \in 1 .. n : t[i] = data[a + i - 1]
  <2> HIDE DEF a, b
  <2>1. /\ t \in Seq(Word)
        /\ Len(t) = IF a <= b THEN b - a + 1 ELSE 0
        /\ \A i \in 1 .. b - a + 1 : t[i] = data[a + i - 1]
    BY <1>2, <1>3, SubSeqProperties
  <2> QED
    BY <1>2, <2>1
<1>5. t[1] = data[o + 1] /\ (n = 2 => t[2] = data[o + 2])
  <2>1. 1 \in 1 .. n /\ a + 1 - 1 = o + 1 /\ (n = 2 => 2 \in 1 .. n) /\ a + 2 - 1 = o + 2
    BY <1>1
  <2> HIDE DEF a, b, t
  <2> QED
    BY <1>4, <2>1
<1> HIDE DEF t
<1>6. n = 2 => t = <<data[o + 1], data[o + 2]>>
  BY <1>4, <1>5
<1>7. n = 1 => t = <<data[o + 1]>>
  BY <1>4, <1>5
<1>8. Slice(data, id) = t
  BY DEF Slice, t, o, n
<1> QED
  BY <1>1, <1>6, <1>7, <1>8 DEF o

\* The slice of a register in the whole set is the register.
LEMMA SliceIsValue ==
  ASSUME NEW regs \in Core, NEW d \in VfpState, NEW id \in RawIds
  PROVE  Slice(gdb_serialize(regs, d), id) = RegValue(regs, d, id)
<1> DEFINE data == gdb_serialize(regs, d)
           o == Offset(id)
<1>1. /\ data \in Seq(Word) /\ Len(data) = EXPECTED_LEN
      /\ \A n \in Gpr : data[n + 1] = regs.r[n]
      /\ data[NumGpr + 1] = regs.sp /\ data[NumGpr + 2] = regs.lr
      /\ data[NumGpr + 3] = regs.pc /\ data[NumGpr + 4] = regs.cpsr
      /\ \A n \in Dpr : /\ data[NumCore + 2 * n + 1] = d[n][1]
                        /\ data[NumCore + 2 * n + 2] = d[n][2]
      /\ data[NumCore + 2 * NumD + 1] = regs.fpscr
  BY Serialized
<1> HIDE DEF data
<1>2. Slice(data, id) = IF id \in DIds THEN <<data[o + 1], data[o + 2]>> ELSE <<data[o + 1]>>
  BY <1>1, SliceIs
<1>3. CASE id \in Gpr /\ from_raw_id(id) = <<"gpr", id>>
  <2>1. id \notin DIds /\ o = id
    BY <1>3, OffsetValue, NumAssumption DEF DIds, Gpr
  <2> QED
    BY <1>1, <1>2, <1>3, <2>1 DEF RegValue, data
<1>4. CASE id = NumGpr /\ from_raw_id(id) = <<"sp", 0>>
  <2>1. id \notin DIds /\ o = NumGpr
    BY <1>4, OffsetValue, NumAssumption DEF DIds
  <2> QED
    BY <1>1, <1>2, <1>4, <2>1 DEF RegValue, data
<1>5. CASE id = NumGpr + 1 /\ from_raw_id(id) = <<"lr", 0>>
  <2>1. id \notin DIds /\ o + 1 = NumGpr + 2
    BY <1>5, OffsetValue, NumAssumption DEF DIds
  <2> QED
    BY <1>1, <1>2, <1>5, <2>1 DEF RegValue, data
<1>6. CASE id = NumGpr + 2 /\ from_raw_id(id) = <<"pc", 0>>
  <2>1. id \notin DIds /\ o + 1 = NumGpr + 3
    BY <1>6, OffsetValue, NumAssumption DEF DIds
  <2> QED
    BY <1>1, <1>2, <1>6, <2>1 DEF RegValue, data
<1>7. CASE id = NumGpr + 3 /\ from_raw_id(id) = <<"cpsr", 0>>
  <2>1. id \notin DIds /\ o + 1 = NumGpr + 4
    BY <1>7, OffsetValue, NumAssumption DEF DIds
  <2> QED
    BY <1>1, <1>2, <1>7, <2>1 DEF RegValue, data
<1>8. CASE id \in DIds /\ from_raw_id(id) = <<"dpr", id - NumCore>> /\ id - NumCore \in Dpr
  <2> DEFINE n == id - NumCore
  <2>1. o + 1 = NumCore + 2 * n + 1 /\ o + 2 = NumCore + 2 * n + 2
    BY <1>8, OffsetValue, NumAssumption DEF DIds, NumCore
  <2>2. d[n] \in Word \X Word
    BY <1>8 DEF VfpState
  <2>3. data[o + 1] = d[n][1] /\ data[o + 2] = d[n][2]
    <3> HIDE DEF n
    <3> QED
      BY <1>1, <1>8, <2>1 DEF n
  <2>4. Slice(data, id) = d[n]
    BY <1>2, <1>8, <2>2, <2>3
  <2> QED
    BY <1>8, <2>4 DEF RegValue, data
<1>9. CASE id = NumGpr + NumD + 4 /\ from_raw_id(id) = <<"fpscr", 0>>
  <2>1. id \notin DIds /\ o + 1 = NumCore + 2 * NumD + 1
    BY <1>9, OffsetValue, NumAssumption DEF DIds, NumCore
  <2> QED
    BY <1>1, <1>2, <1>9, <2>1 DEF RegValue, data
<1> QED
  BY <1>3, <1>4, <1>5, <1>6, <1>7, <1>8, <1>9, RegisterKinds

\* The register that a number names.
LEMMA ValueOf ==
  ASSUME NEW regs, NEW d, NEW id \in RawIds
  PROVE  /\ id \in Gpr => RegValue(regs, d, id) = <<regs.r[id]>>
         /\ id = NumGpr => RegValue(regs, d, id) = <<regs.sp>>
         /\ id = NumGpr + 1 => RegValue(regs, d, id) = <<regs.lr>>
         /\ id = NumGpr + 2 => RegValue(regs, d, id) = <<regs.pc>>
         /\ id = NumGpr + 3 => RegValue(regs, d, id) = <<regs.cpsr>>
         /\ id \in DIds => RegValue(regs, d, id) = d[id - NumCore]
         /\ id = NumGpr + NumD + 4 => RegValue(regs, d, id) = <<regs.fpscr>>
<1>1. /\ id \in Gpr => from_raw_id(id) = <<"gpr", id>>
      /\ id = NumGpr => from_raw_id(id) = <<"sp", 0>>
      /\ id = NumGpr + 1 => from_raw_id(id) = <<"lr", 0>>
  BY NumAssumption DEF from_raw_id, Gpr
<1>2. /\ id = NumGpr + 2 => from_raw_id(id) = <<"pc", 0>>
      /\ id = NumGpr + 3 => from_raw_id(id) = <<"cpsr", 0>>
  BY NumAssumption DEF from_raw_id, Gpr
<1>3. /\ id \in DIds => from_raw_id(id) = <<"dpr", id - NumCore>>
      /\ id = NumGpr + NumD + 4 => from_raw_id(id) = <<"fpscr", 0>>
  BY RegisterKinds, NumAssumption DEF Gpr, DIds, NumCore
<1> QED
  BY <1>1, <1>2, <1>3 DEF RegValue

\* ksceKernelSetThreadCpuRegisters with a mask sets the one register.
LEMMA MaskedSets ==
  ASSUME NEW regs \in Core, NEW id \in RawIds, id \notin DIds, NEW w \in Word
  PROVE  LET new == set_masked(regs, from_raw_id(id), w) IN
           /\ new \in Core
           /\ \A n \in Gpr : new.r[n] = IF id = n THEN w ELSE regs.r[n]
           /\ new.sp = IF id = NumGpr THEN w ELSE regs.sp
           /\ new.lr = IF id = NumGpr + 1 THEN w ELSE regs.lr
           /\ new.pc = IF id = NumGpr + 2 THEN w ELSE regs.pc
           /\ new.cpsr = IF id = NumGpr + 3 THEN w ELSE regs.cpsr
           /\ new.fpscr = IF id = NumGpr + NumD + 4 THEN w ELSE regs.fpscr
<1> USE NumAssumption DEF Core
<1>0. /\ \A n \in Gpr : n # NumGpr /\ n # NumGpr + 1 /\ n # NumGpr + 2 /\ n # NumGpr + 3
                       /\ n # NumGpr + NumD + 4
      /\ NumD + 4 \notin {0, 1, 2, 3}
  BY DEF Gpr
<1>1. CASE id \in Gpr /\ from_raw_id(id) = <<"gpr", id>>
  <2>1. set_masked(regs, from_raw_id(id), w) = [regs EXCEPT !.r[id] = w]
    BY <1>1 DEF set_masked
  <2> QED
    BY <1>0, <1>1, <2>1
<1>2. CASE id = NumGpr /\ from_raw_id(id) = <<"sp", 0>>
  <2>1. set_masked(regs, from_raw_id(id), w) = [regs EXCEPT !.sp = w]
    BY <1>2 DEF set_masked
  <2> QED
    BY <1>0, <1>2, <2>1
<1>3. CASE id = NumGpr + 1 /\ from_raw_id(id) = <<"lr", 0>>
  <2>1. set_masked(regs, from_raw_id(id), w) = [regs EXCEPT !.lr = w]
    BY <1>3 DEF set_masked
  <2> QED
    BY <1>0, <1>3, <2>1
<1>4. CASE id = NumGpr + 2 /\ from_raw_id(id) = <<"pc", 0>>
  <2>1. set_masked(regs, from_raw_id(id), w) = [regs EXCEPT !.pc = w]
    BY <1>4 DEF set_masked
  <2> QED
    BY <1>0, <1>4, <2>1
<1>5. CASE id = NumGpr + 3 /\ from_raw_id(id) = <<"cpsr", 0>>
  <2>1. set_masked(regs, from_raw_id(id), w) = [regs EXCEPT !.cpsr = w]
    BY <1>5 DEF set_masked
  <2> QED
    BY <1>0, <1>5, <2>1
<1>6. CASE id = NumGpr + NumD + 4 /\ from_raw_id(id) = <<"fpscr", 0>>
  <2>1. set_masked(regs, from_raw_id(id), w) = [regs EXCEPT !.fpscr = w]
    BY <1>6 DEF set_masked
  <2> QED
    BY <1>0, <1>6, <2>1
<1> QED
  BY <1>1, <1>2, <1>3, <1>4, <1>5, <1>6, RegisterKinds

\* P changes the register it names and no other.
LEMMA MaskedWrite ==
  ASSUME NEW regs \in Core, NEW id \in RawIds, size(id) = 1, NEW w \in Word, NEW d
  PROVE  LET new == set_masked(regs, from_raw_id(id), w) IN
           /\ RegValue(new, d, id) = <<w>>
           /\ \A other \in RawIds \ {id} : RegValue(new, d, other) = RegValue(regs, d, other)
<1> DEFINE new == set_masked(regs, from_raw_id(id), w)
<1>1. id \notin DIds
  BY SizeValue
<1>2. /\ \A n \in Gpr : new.r[n] = IF id = n THEN w ELSE regs.r[n]
      /\ new.sp = IF id = NumGpr THEN w ELSE regs.sp
      /\ new.lr = IF id = NumGpr + 1 THEN w ELSE regs.lr
      /\ new.pc = IF id = NumGpr + 2 THEN w ELSE regs.pc
      /\ new.cpsr = IF id = NumGpr + 3 THEN w ELSE regs.cpsr
      /\ new.fpscr = IF id = NumGpr + NumD + 4 THEN w ELSE regs.fpscr
  BY <1>1, MaskedSets
<1> HIDE DEF new
<1>3. RegValue(new, d, id) = <<w>>
  BY <1>1, <1>2, ValueOf, RegisterKinds
<1>4. ASSUME NEW other \in RawIds, other # id PROVE RegValue(new, d, other) = RegValue(regs, d, other)
  BY <1>2, <1>4, ValueOf, RegisterKinds
<1> QED
  BY <1>3, <1>4 DEF new

-----------------------------------------------------------------------------
(***************************************************************************)
(* The invariant: gdb holds a whole register set after g, and the answers  *)
(* to p, P and G agree with the registers.                                 *)
(***************************************************************************)
RegistersType == entries \in [Sets -> Core] /\ vfp \in VfpState /\ hasVfp \in BOOLEAN

GdbHasWords == reply.op = "g" /\ reply.ok => reply.data \in Seq(Word)

\* The numbers of the answers to p and P are in the target description.
RepliesAreKnown == reply.op \in {"p", "P"} /\ reply.ok => reply.id \in RawIds

RegInv ==
  RegistersType /\ GdbHasWords /\ RepliesAreKnown /\ SingleReadIsSlice /\ WriteReadsBack

\* Whatever the kernel reports of the VFP unit, and whichever set is read, a
\* g packet answers a whole set.
LEMMA ViewIsSet ==
  ASSUME RegistersType
  PROVE  /\ readD \in VfpState /\ Current \in Sets /\ th_regs \in Core
         /\ View \in Seq(Word) /\ Len(View) = EXPECTED_LEN
         /\ \A id \in RawIds : Slice(View, id) = RegValue(th_regs, readD, id)
         /\ \A s \in Sets, id \in RawIds : Slice(ViewOf(s), id) = RegValue(entries[s], readD, id)
<1>1. readD \in VfpState
  BY PlaceholderAssumption, ReportedAssumption DEF readD, VfpState, RegistersType
<1>2. Current \in Sets
  BY DEF Current, Sets
<1>3. th_regs \in Core /\ \A s \in Sets : entries[s] \in Core
  BY <1>2 DEF RegistersType, th_regs
<1>4. /\ View \in Seq(Word) /\ Len(View) = EXPECTED_LEN
      /\ \A id \in RawIds : Slice(View, id) = RegValue(th_regs, readD, id)
  BY <1>1, <1>3, Serialized, SliceIsValue DEF View
<1>5. \A s \in Sets, id \in RawIds : Slice(ViewOf(s), id) = RegValue(entries[s], readD, id)
  BY <1>1, <1>3, SliceIsValue DEF ViewOf
<1> QED
  BY <1>1, <1>2, <1>3, <1>4, <1>5

LEMMA RegInvInit == Init => RegInv
<1> SUFFICES ASSUME Init PROVE RegInv
  OBVIOUS
<1>1. RegistersType /\ reply.op = "none"
  BY DEF Init, RegInit, RegistersType
<1> QED
  BY <1>1 DEF RegInv, GdbHasWords, RepliesAreKnown, SingleReadIsSlice, WriteReadsBack

\* What gdb sees depends on the registers only.
LEMMA ViewUnchanged ==
  ASSUME UNCHANGED <<entries, vfp, hasVfp>>
  PROVE  UNCHANGED <<View, Current, th_regs, readD>> /\ \A s \in Sets : ViewOf(s)' = ViewOf(s)
BY DEF View, Current, th_regs, readD, ViewOf

\* The invariant is about the registers and the last answer only.
LEMMA RegInvUnchanged == RegInv /\ UNCHANGED <<entries, vfp, hasVfp, reply>> => RegInv'
<1> SUFFICES ASSUME RegInv, UNCHANGED <<entries, vfp, hasVfp, reply>> PROVE RegInv'
  OBVIOUS
<1>1. View' = View /\ Current' = Current
  BY ViewUnchanged
<1> QED
  BY <1>1 DEF RegInv, RegistersType, GdbHasWords, RepliesAreKnown, SingleReadIsSlice,
     WriteReadsBack

LEMMA ReadRegisters == RegInv /\ read_registers => RegInv'
<1> SUFFICES ASSUME RegInv, read_registers PROVE RegInv'
  OBVIOUS
<1>1. RegistersType' /\ View \in Seq(Word)
  BY ViewIsSet DEF RegInv, RegistersType, read_registers
<1>2. reply'.op = "g" /\ (reply'.ok => reply'.data = View)
  BY DEF read_registers, Answer
<1> QED
  BY <1>1, <1>2 DEF RegInv, GdbHasWords, RepliesAreKnown, SingleReadIsSlice, WriteReadsBack

LEMMA ReadRegister ==
  ASSUME RegInv, NEW id \in RawIds, read_register(id)
  PROVE  RegInv'
<1>1. UNCHANGED <<entries, vfp, hasVfp>>
  BY DEF read_register
<1>2. RegistersType' /\ View' = View
  BY <1>1, ViewUnchanged DEF RegInv, RegistersType
<1>3. /\ reply'.op = "p"
      /\ reply'.ok => reply'.id = id /\ reply'.data = RegValue(th_regs, readD, id)
  <2>1. \/ reply' = [op |-> "p", ok |-> TRUE, id |-> id, data |-> RegValue(th_regs, readD, id)]
        \/ reply' = [op |-> "p", ok |-> FALSE]
    BY DEF read_register, Answer, RegValue
  <2> QED
    BY <2>1
<1>4. Slice(View, id) = RegValue(th_regs, readD, id)
  BY ViewIsSet DEF RegInv
<1>5. reply'.ok => reply'.data = Slice(View', reply'.id)
  BY <1>2, <1>3, <1>4
<1> QED
  BY <1>2, <1>3, <1>5 DEF RegInv, GdbHasWords, RepliesAreKnown, SingleReadIsSlice,
     WriteReadsBack

\* What holds of the view holds of the next one.
LEMMA ViewIsSetNext ==
  ASSUME RegistersType' PROVE readD' \in VfpState /\ Current' \in Sets
<1>1. readD' \in VfpState
  BY PlaceholderAssumption, ReportedAssumption DEF readD, VfpState, RegistersType
<1> QED
  BY <1>1 DEF Current, Sets

\* A core register does not depend on the D registers.
LEMMA CoreValue ==
  ASSUME NEW regs, NEW d, NEW e, NEW id \in RawIds, id \notin DIds
  PROVE  RegValue(regs, d, id) = RegValue(regs, e, id)
BY ValueOf, RegisterKinds

\* What gdb writes back is words again.
LEMMA EditedIsWords ==
  ASSUME NEW data \in Seq(Word), NEW e \in Edited(data)
  PROVE  e \in Seq(Word)
<1>1. SubSeq(data, 1, Len(data) - 1) \in Seq(Word)
  <2>1. \A i \in 1 .. Len(data) - 1 : data[i] \in Word
    BY ElementOfSeq
  <2>2. 1 \in Int /\ Len(data) - 1 \in Int
    OBVIOUS
  <2> QED
    BY <2>1, <2>2, SubSeqProperties
<1>2. ASSUME NEW i \in DOMAIN data, NEW w \in Written PROVE [data EXCEPT ![i] = w] \in Seq(Word)
  <2>1. i \in 1 .. Len(data) /\ w \in Word
    BY WrittenAssumption
  <2> QED
    BY <2>1, ExceptSeq
<1> QED
  BY <1>1, <1>2 DEF Edited

LEMMA WriteRegisters ==
  ASSUME RegInv, NEW data \in Seq(Word), write_registers(data)
  PROVE  RegInv'
<1>1. reply'.op = "G" /\ reply'.data = data
  BY DEF write_registers, Answer
<1>2. RegInv /\ RegistersType
  BY DEF RegInv
<1>3. CASE UNCHANGED <<entries, vfp, hasVfp>> /\ ~reply'.ok
  <2>1. RegistersType'
    BY <1>2, <1>3 DEF RegistersType
  <2> QED
    BY <1>1, <1>3, <2>1 DEF RegInv, GdbHasWords, RepliesAreKnown, SingleReadIsSlice,
       WriteReadsBack
<1>4. ASSUME Len(data) = EXPECTED_LEN, NEW sets \in SUBSET Sets,
             SetRegisters([s \in Sets |-> deserialize_core(data)], sets),
             \/ reply'.ok /\ reply'.sets = sets /\ vfp' = deserialize_d(data) /\ hasVfp' = TRUE
             \/ ~reply'.ok /\ UNCHANGED <<vfp, hasVfp>>
      PROVE  RegInv'
  <2>1. /\ deserialize_core(data) \in Core /\ deserialize_d(data) \in VfpState
        /\ gdb_serialize(deserialize_core(data), deserialize_d(data)) = data
    BY <1>4, RoundTrip
  <2>2. entries' \in [Sets -> Core] /\ \A s \in sets : entries'[s] = deserialize_core(data)
    BY <1>2, <1>4, <2>1 DEF RegistersType, SetRegisters
  <2>3. RegistersType'
    BY <1>2, <1>4, <2>1, <2>2 DEF RegistersType
  <2>4. CASE ~reply'.ok
    BY <1>1, <2>3, <2>4 DEF RegInv, GdbHasWords, RepliesAreKnown, SingleReadIsSlice,
       WriteReadsBack
  <2>5. ASSUME reply'.ok, Current' \in reply'.sets, NEW id \in RawIds, size(id) = 1
        PROVE  Slice(View', id) = Slice(data, id)
    <3>1. th_regs' = deserialize_core(data)
      BY <1>4, <2>2, <2>5 DEF th_regs
    <3>2. View' = gdb_serialize(deserialize_core(data), readD') /\ readD' \in VfpState
      BY <2>3, <3>1, ViewIsSetNext DEF View
    <3>3. Slice(View', id) = RegValue(deserialize_core(data), readD', id)
      BY <2>1, <3>2, SliceIsValue
    <3>4. Slice(data, id) = RegValue(deserialize_core(data), deserialize_d(data), id)
      BY <2>1, SliceIsValue
    <3>5. id \notin DIds
      BY <2>5, SizeValue
    <3> HIDE DEF View
    <3> QED
      BY <3>3, <3>4, <3>5, CoreValue
  <2> QED
    BY <1>1, <2>3, <2>4, <2>5 DEF RegInv, GdbHasWords, RepliesAreKnown, SingleReadIsSlice,
       WriteReadsBack
<1>5. CASE Len(data) = EXPECTED_LEN /\ ~UNCHANGED <<entries, vfp, hasVfp>>
  <2>1. PICK sets \in SUBSET Sets :
          /\ SetRegisters([s \in Sets |-> deserialize_core(data)], sets)
          /\ \/ /\ Answer([op |-> "G", ok |-> TRUE, data |-> data, sets |-> sets])
                /\ vfp' = deserialize_d(data) /\ hasVfp' = TRUE
             \/ /\ Answer([op |-> "G", ok |-> FALSE, data |-> data])
                /\ UNCHANGED <<vfp, hasVfp>>
    BY <1>5 DEF write_registers, SetRegisters
  <2>2. \/ reply'.ok /\ reply'.sets = sets /\ vfp' = deserialize_d(data) /\ hasVfp' = TRUE
        \/ ~reply'.ok /\ UNCHANGED <<vfp, hasVfp>>
    BY <2>1 DEF Answer
  <2> QED
    BY <1>4, <1>5, <2>1, <2>2 DEF SetRegisters
<1>6. CASE UNCHANGED <<entries, vfp, hasVfp>> /\ reply'.ok
  <2>1. PICK sets \in SUBSET Sets :
          /\ Len(data) = EXPECTED_LEN
          /\ SetRegisters([s \in Sets |-> deserialize_core(data)], sets)
          /\ Answer([op |-> "G", ok |-> TRUE, data |-> data, sets |-> sets])
          /\ vfp' = deserialize_d(data) /\ hasVfp' = TRUE
    BY <1>6 DEF write_registers, SetRegisters, Answer
  <2>2. reply'.ok /\ reply'.sets = sets
    BY <2>1 DEF Answer
  <2> QED
    BY <1>4, <2>1, <2>2 DEF SetRegisters
<1> QED
  BY <1>3, <1>5, <1>6 DEF write_registers, SetRegisters

\* P: what it answers, and what becomes of every register of either set.
LEMMA WriteRegister ==
  ASSUME RegInv, NEW id \in RawIds, NEW w \in Written, write_register(id, w)
  PROVE  /\ RegInv'
         /\ \A s \in Sets, other \in RawIds :
              Slice(ViewOf(s)', other) # Slice(ViewOf(s), other) => other = id /\ reply'.ok
<1>1. /\ reply'.op = "P" /\ reply'.id = id /\ reply'.data = <<w>>
      /\ size(id) = 1 /\ w \in Word /\ UNCHANGED <<vfp, hasVfp>>
  BY WrittenAssumption DEF write_register, SetRegisters, Answer
<1>2. RegistersType /\ readD' = readD
  BY <1>1 DEF RegInv, readD
<1>3. CASE ~reply'.ok /\ UNCHANGED entries
  <2>1. RegistersType' /\ \A s \in Sets : ViewOf(s)' = ViewOf(s)
    BY <1>1, <1>2, <1>3, ViewUnchanged DEF RegistersType
  <2> QED
    BY <1>1, <1>3, <2>1 DEF RegInv, GdbHasWords, RepliesAreKnown, SingleReadIsSlice,
       WriteReadsBack
<1>4. ASSUME NEW sets \in SUBSET Sets, reply'.ok, reply'.sets = sets,
             SetRegisters([s \in Sets |-> set_masked(entries[s], from_raw_id(id), w)], sets)
      PROVE  /\ RegInv'
             /\ \A s \in Sets, other \in RawIds :
                  Slice(ViewOf(s)', other) # Slice(ViewOf(s), other) => other = id
  <2>1. id \notin DIds
    BY <1>1, SizeValue
  <2>2. \A s \in Sets : entries[s] \in Core
    BY <1>2 DEF RegistersType
  <2>3. \A s \in Sets :
          entries'[s] = IF s \in sets THEN set_masked(entries[s], from_raw_id(id), w)
                                      ELSE entries[s]
    BY <1>4 DEF SetRegisters
  <2>4. \A s \in Sets : set_masked(entries[s], from_raw_id(id), w) \in Core
    BY <1>1, <2>1, <2>2, MaskedSets
  <2>5. entries' \in [Sets -> Core]
    BY <1>4, <2>2, <2>4 DEF SetRegisters
  <2>6. RegistersType'
    BY <1>1, <1>2, <2>5 DEF RegistersType
  <2>7. ASSUME NEW s \in Sets
        PROVE  /\ s \in sets => RegValue(entries'[s], readD, id) = <<w>>
               /\ \A other \in RawIds \ {id} :
                    RegValue(entries'[s], readD, other) = RegValue(entries[s], readD, other)
    BY <1>1, <2>2, <2>3, MaskedWrite
  <2>8. ASSUME NEW s \in Sets, NEW other \in RawIds
        PROVE  /\ Slice(ViewOf(s), other) = RegValue(entries[s], readD, other)
               /\ Slice(ViewOf(s)', other) = RegValue(entries'[s], readD, other)
    <3>1. ViewOf(s)' = gdb_serialize(entries'[s], readD) /\ readD \in VfpState
      BY <1>2, ViewIsSet DEF ViewOf
    <3>2. entries'[s] \in Core
      BY <2>5
    <3> QED
      BY <1>2, <3>1, <3>2, SliceIsValue, ViewIsSet
  <2>9. Current' \in sets => Slice(View', id) = <<w>>
    <3>1. Current' \in Sets /\ View' = gdb_serialize(entries'[Current'], readD)
      BY <1>2, <2>6, ViewIsSetNext DEF View, th_regs
    <3>2. entries'[Current'] \in Core /\ readD \in VfpState
      BY <1>2, <2>5, <3>1, ViewIsSet
    <3>3. Slice(View', id) = RegValue(entries'[Current'], readD, id)
      BY <3>1, <3>2, SliceIsValue
    <3> QED
      BY <2>7, <3>1, <3>3
  <2>10. RegInv'
    BY <1>1, <1>4, <2>6, <2>9 DEF RegInv, GdbHasWords, RepliesAreKnown, SingleReadIsSlice,
       WriteReadsBack
  <2> QED
    BY <2>7, <2>8, <2>10
<1> QED
  BY <1>3, <1>4 DEF write_register, SetRegisters, Answer

LEMMA RegInvNext == RegInv /\ [Next]_vars => RegInv'
<1> SUFFICES ASSUME RegInv, [Next]_vars PROVE RegInv'
  OBVIOUS
<1>1. CASE UNCHANGED regVars
  BY <1>1, RegInvUnchanged DEF regVars
<1>2. CASE RegNext
  <2>1. ASSUME NEW id \in RawIds, write_register_panics(id) PROVE RegInv'
    BY <2>1, RegInvUnchanged DEF write_register_panics
  <2>2. ASSUME reply.op = "g", reply.ok, NEW data \in Edited(reply.data), write_registers(data)
        PROVE  RegInv'
    <3>1. data \in Seq(Word)
      BY <2>2, EditedIsWords DEF RegInv, GdbHasWords
    <3> QED
      BY <2>2, <3>1, WriteRegisters
  <2> QED
    BY <1>2, <2>1, <2>2, ReadRegisters, ReadRegister, WriteRegister DEF RegNext
<1> QED
  BY <1>1, <1>2 DEF Next, Attach, Detach, vars

LEMMA RegInvariance == Spec => []RegInv
  BY RegInvInit, RegInvNext, PTL DEF Spec

-----------------------------------------------------------------------------
\* p answers what g has at the register's place, by the sizes of the target
\* description: read_register, gdb_serialize and from_raw_id agree.
THEOREM ReadsAgree == Spec => []SingleReadIsSlice
<1>1. RegInv => SingleReadIsSlice
  BY DEF RegInv
<1> QED
  BY <1>1, RegInvariance, PTL

\* The core registers that gdb was told are written are what it reads then,
\* if the kernel put them in the set that read_registers and read_register
\* choose by the cpsr; whatever the kernel reports of the D registers.
THEOREM WritesAreRead == Spec => []WriteReadsBack
<1>1. RegInv => WriteReadsBack
  BY DEF RegInv
<1> QED
  BY <1>1, RegInvariance, PTL

\* P touches its register only, in either set, and a refused G no VFP register.
THEOREM WritesStayLocal == Spec => WritesAreLocal
<1> DEFINE Local ==
      /\ reply'.op = "P" =>
           \A s \in Sets, id \in RawIds :
             Slice(ViewOf(s)', id) # Slice(ViewOf(s), id) => id = reply'.id /\ reply'.ok
      /\ reply'.op = "G" /\ ~reply'.ok =>
           /\ UNCHANGED <<vfp, hasVfp>>
           /\ \A s \in Sets : entries'[s] # entries[s] =>
                               entries'[s] = deserialize_core(reply'.data)
<1>1. RegInv /\ [Next]_vars => [Local]_regVars
  <2> SUFFICES ASSUME RegInv, [Next]_vars, ~UNCHANGED regVars PROVE Local
    OBVIOUS
  <2>1. RegNext
    BY DEF Next, Attach, Detach, vars
  <2>2. CASE read_registers
    BY <2>2 DEF read_registers, Answer
  <2>3. ASSUME NEW id \in RawIds, read_register(id) PROVE Local
    BY <2>3 DEF read_register, Answer
  <2>4. ASSUME NEW id \in RawIds, write_register_panics(id) PROVE Local
    <3>1. UNCHANGED <<entries, vfp, hasVfp>>
      BY <2>4 DEF write_register_panics
    <3>2. \A s \in Sets : ViewOf(s)' = ViewOf(s)
      BY <3>1, ViewUnchanged
    <3> QED
      BY <3>1, <3>2
  <2>5. ASSUME NEW id \in RawIds, NEW w \in Written, write_register(id, w) PROVE Local
    <3>1. reply'.op = "P" /\ reply'.id = id
      BY <2>5 DEF write_register, SetRegisters, Answer
    <3> QED
      BY <2>5, <3>1, WriteRegister
  <2>6. ASSUME NEW data, write_registers(data) PROVE Local
    BY <2>6 DEF write_registers, SetRegisters, Answer
  <2> QED
    BY <2>1, <2>2, <2>3, <2>4, <2>5, <2>6 DEF RegNext
<1>2. Spec => [][Local]_regVars
  BY <1>1, RegInvariance, PTL DEF Spec
<1> QED
  BY <1>2 DEF WritesAreLocal
=============================================================================
