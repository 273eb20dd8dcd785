------------------------ MODULE SwBreakpointsProofs -------------------------
(***************************************************************************)
(* Proofs about SwBreakpoints, for any addresses, instructions, number of  *)
(* slots and threads: types, one slot per address, and, as long as no      *)
(* write fails and nobody interferes, a text that is the user's program    *)
(* with exactly the saved breakpoints in it, clean again after a detach.   *)
(***************************************************************************)
EXTENDS SwBreakpoints, TLAPS

\* The type of the worker's locals.
Ops == [addr : Addrs \cup {None}, kind : Kinds \cup {None},
        orig : Word \cup {None}, idx : 0 .. NumSlots, stepping : BOOLEAN]

\* The worker's locals while it sets a breakpoint, and the handler's while
\* it removes one.
Locals ==
  /\ wpc \in Setting => op.addr \in Addrs /\ op.kind \in Kinds /\ op.orig \in Word
  /\ wpc \in {"write", "undo"} => op.idx \in Slots
  /\ \A t \in Threads : hpc[t] = "clear" => haddr[t] \in Addrs

\* What set_sw_breakpoint read before it took the lock is still true after,
\* and the claim is undone only after a failure.
Fresh ==
  ~spoiled =>
    /\ wpc = "claim" => At(op.addr) # {} \/ op.orig = program[op.addr]
    /\ wpc = "write" => sw[op.idx].addr = op.addr
    /\ wpc # "undo"

\* Outside a session the table is empty.
Empty ==
  wpc \in {"off", "reset_slots", "reset_step", "reset_pid"}
    => \A i \in Slots : sw[i] = Free

\* The inductive invariant.
Inv == TypeOK /\ Locals /\ Fresh /\ Empty /\ OneSlotPerAddress /\ TextIsProgram

\* A slot is free, or holds an address and bytes of the text.
LEMMA SlotFacts ==
  ASSUME TypeOK, NEW i \in Slots
  PROVE  /\ sw[i] \in Saved \cup {Free}
         /\ sw[i].used \in BOOLEAN
         /\ sw[i].used => sw[i] \in Saved /\ sw[i].addr \in Addrs /\ sw[i].orig \in Word
         /\ ~sw[i].used => sw[i] = Free /\ sw[i].addr = None
<1>1. sw[i] \in Saved \cup {Free}
  BY DEF TypeOK
<1>2. CASE sw[i] = Free
  <2>1. sw[i].used = FALSE /\ sw[i].addr = None
    BY <1>2 DEF Free
  <2> QED
    BY <1>2, <2>1
<1>3. CASE sw[i] \in Saved
  <2>1. sw[i].used = TRUE /\ sw[i].addr \in Addrs /\ sw[i].orig \in Word
    BY <1>3 DEF Saved
  <2> QED
    BY <1>3, <2>1
<1> QED
  BY <1>1, <1>2, <1>3

\* Which slots an address is found in: all of them used, none of them free.
LEMMA AtFacts ==
  ASSUME TypeOK, NEW a \in Addrs
  PROVE  /\ At(a) \subseteq Slots
         /\ \A i \in At(a) : sw[i] \in Saved /\ sw[i].addr = a /\ sw[i].orig \in Word
         /\ \A i \in Slots : sw[i].addr = a => i \in At(a)
<1>1. ASSUME NEW i \in At(a)
      PROVE  sw[i] \in Saved /\ sw[i].addr = a /\ sw[i].orig \in Word
  BY <1>1, SlotFacts, NoneAssumption DEF At
<1> QED
  BY <1>1 DEF At

\* The type a breakpoint's removal gives the table and the text.
LEMMA ClearTypes ==
  ASSUME TypeOK, NEW a \in Addrs, clearBreakpoint(a) \/ clearFails(a)
  PROVE  sw' \in [Slots -> Saved \cup {Free}] /\ text' \in [Addrs -> Word]
<1>1. CASE At(a) = {} /\ UNCHANGED <<sw, text>>
  BY <1>1 DEF TypeOK
<1>2. ASSUME NEW i \in At(a), sw' = [sw EXCEPT ![i] = Free],
             text' = [text EXCEPT ![a] = restored(i)] \/ UNCHANGED text
      PROVE  sw' \in [Slots -> Saved \cup {Free}] /\ text' \in [Addrs -> Word]
  BY <1>2, AtFacts DEF TypeOK, restored
<1> QED
  BY <1>1, <1>2 DEF clearBreakpoint, clearFails

\* The types the worker's locals get when set_sw_breakpoint is called and
\* when it returns.
LEMMA NoOpType == NoOp \in Ops
<1>1. 0 \in 0 .. NumSlots
  BY NumSlotsAssumption
<1> QED
  BY <1>1 DEF NoOp, Ops

LEMMA ReadTypes ==
  ASSUME TypeOK, NEW a \in Addrs, NEW k \in Kinds, NEW s \in BOOLEAN,
         readOrig(a, k, s)
  PROVE  wpc' \in WorkerPc /\ op' \in Ops
<1>1. 0 \in 0 .. NumSlots /\ text[a] \in Word
  BY NumSlotsAssumption DEF TypeOK
<1> QED
  BY <1>1 DEF readOrig, Ops, WorkerPc, Setting

LEMMA ReturnTypes ==
  ASSUME TypeOK, setReturns
  PROVE  wpc' \in WorkerPc /\ op' \in Ops
<1>1. CASE op.stepping
  BY <1>1 DEF setReturns, TypeOK, WorkerPc, Ops
<1>2. CASE ~op.stepping
  BY <1>2, NoOpType DEF setReturns, WorkerPc
<1> QED
  BY <1>1, <1>2

\* Every step keeps the types.
LEMMA TypeStep ==
  TypeOK /\ Locals /\ [Next]_vars => TypeOK'
<1> SUFFICES ASSUME TypeOK, Locals, [Next]_vars
             PROVE  TypeOK'
  OBVIOUS
<1> USE DEF vars, table, worker, handler, history
<1>1. CASE Attach
  <2>1. attached' \in BOOLEAN /\ running' \in BOOLEAN
    BY <1>1, Zenon DEF Attach
  <2> QED
    BY <1>1, <2>1 DEF Attach, TypeOK, WorkerPc
<1>2. ASSUME NEW a \in Addrs, NEW k \in Kinds, Add(a, k)
      PROVE  TypeOK'
  BY <1>2, ReadTypes, Zenon DEF Add, TypeOK, Ops
<1>3. ASSUME NEW a \in Addrs, NEW k \in Kinds, Step(a, k)
      PROVE  TypeOK'
  <2>1. CASE readOrig(a, k, TRUE)
    BY <1>3, <2>1, ReadTypes, Zenon DEF Step, TypeOK, Ops
  <2>2. CASE wpc' = "set_step" /\ op' = [NoOp EXCEPT !.addr = a, !.stepping = TRUE]
    <3>1. op' \in Ops
      BY <2>2, NoOpType DEF Ops
    <3> QED
      BY <1>3, <2>2, <3>1 DEF Step, TypeOK, WorkerPc, Ops
  <2> QED
    BY <1>3, <2>1, <2>2 DEF Step
<1>4. CASE SetClaim
  <2>1. CASE setReturns /\ UNCHANGED sw
    BY <1>4, <2>1, ReturnTypes DEF SetClaim, TypeOK, Ops
  <2>2. CASE wpc = "claim" /\ claim
    <3>1. PICK i \in freeSlots :
            /\ sw' = [sw EXCEPT ![i] = [used |-> TRUE, addr |-> op.addr,
                                       orig |-> op.orig]]
            /\ op' = [op EXCEPT !.idx = i]
            /\ wpc' = "write"
      BY <2>2 DEF claim
    <3>2. i \in Slots /\ i \in 0 .. NumSlots
      BY NumSlotsAssumption DEF freeSlots, Slots
    <3>3. op.addr \in Addrs /\ op.orig \in Word
      BY <2>2 DEF Locals, Setting
    <3>4. sw' \in [Slots -> Saved \cup {Free}]
      BY <3>1, <3>2, <3>3 DEF TypeOK, Saved
    <3>5. op' \in Ops
      BY <3>1, <3>2 DEF TypeOK, Ops
    <3> QED
      BY <1>4, <3>1, <3>4, <3>5 DEF SetClaim, TypeOK, WorkerPc, Setting, Ops
  <2> QED
    BY <1>4, <2>1, <2>2 DEF SetClaim
<1>5. CASE SetWrite
  <2>1. text' \in [Addrs -> Word]
    BY <1>5 DEF SetWrite, TypeOK, patched, Word, Patches
  <2> QED
    BY <1>5, <2>1, ReturnTypes DEF SetWrite, TypeOK, Ops
<1>6. CASE SetWriteFails
  <2>1. text' \in [Addrs -> Word]
    BY <1>6 DEF SetWriteFails, TypeOK, patched, Word, Patches
  <2>2. spoiled' \in BOOLEAN
    BY <1>6, Zenon DEF SetWriteFails
  <2> QED
    BY <1>6, <2>1, <2>2 DEF SetWriteFails, TypeOK, WorkerPc, Setting
<1>7. CASE SetUndo
  <2>1. sw' \in [Slots -> Saved \cup {Free}]
    BY <1>7 DEF SetUndo, TypeOK
  <2> QED
    BY <1>7, <2>1, ReturnTypes DEF SetUndo, TypeOK, Ops
<1>8. CASE SetStep
  BY <1>8, NoOpType DEF SetStep, TypeOK, WorkerPc, Ops
<1>9. CASE Continue
  BY <1>9 DEF Continue, TypeOK, WorkerPc, HandlerPc
<1>10. CASE Resume
  <2>1. running' \in BOOLEAN
    BY <1>10, Zenon DEF Resume, TypeOK
  <2> QED
    BY <1>10, <2>1 DEF Resume, TypeOK, WorkerPc
<1>11. CASE Stop
  <2>1. running' \in BOOLEAN
    BY <1>11, Zenon DEF Stop, TypeOK
  <2> QED
    BY <1>11, <2>1 DEF Stop, TypeOK, WorkerPc
<1>12. ASSUME NEW a \in Addrs, Remove(a)
      PROVE  TypeOK'
  <2>1. sw' \in [Slots -> Saved \cup {Free}] /\ text' \in [Addrs -> Word]
    BY <1>12, ClearTypes DEF Remove
  <2> QED
    BY <1>12, <2>1 DEF Remove, TypeOK
<1>13. ASSUME NEW a \in Addrs, RemoveFails(a)
      PROVE  TypeOK'
  <2>1. sw' \in [Slots -> Saved \cup {Free}] /\ text' \in [Addrs -> Word]
    BY <1>13, ClearTypes DEF RemoveFails
  <2>2. spoiled' \in BOOLEAN
    BY <1>13, Zenon DEF RemoveFails
  <2> QED
    BY <1>13, <2>1, <2>2 DEF RemoveFails, TypeOK
<1>14. ASSUME NEW a \in Addrs, NEW c \in Code, WriteAddrs(a, c)
      PROVE  TypeOK'
  <2>1. text' \in [Addrs -> Word] /\ program' \in [Addrs -> Code]
    BY <1>14 DEF WriteAddrs, TypeOK, Word
  <2>2. spoiled' \in BOOLEAN
    BY <1>14, Zenon DEF WriteAddrs, TypeOK
  <2> QED
    BY <1>14, <2>1, <2>2 DEF WriteAddrs, TypeOK
<1>15. CASE ClearAll
  <2>1. PICK lost \in SUBSET {a \in Addrs : At(a) # {}} :
          /\ text' = [a \in Addrs |->
               IF At(a) = {} \/ a \in lost THEN text[a]
               ELSE restored(CHOOSE i \in At(a) : TRUE)]
          /\ spoiled' = (spoiled \/ lost # {})
    BY <1>15 DEF ClearAll
  <2>2. ASSUME NEW a \in Addrs, At(a) # {}
        PROVE  restored(CHOOSE i \in At(a) : TRUE) \in Word
    <3>1. (CHOOSE i \in At(a) : TRUE) \in At(a)
      BY <2>2
    <3> QED
      BY <3>1, AtFacts DEF restored
  <2>3. text' \in [Addrs -> Word]
    BY <2>1, <2>2 DEF TypeOK
  <2>4. spoiled' \in BOOLEAN
    BY <2>1, Zenon DEF TypeOK
  <2>5. running' \in BOOLEAN
    BY <1>15, Zenon DEF ClearAll
  <2> QED
    BY <1>15, <2>3, <2>4, <2>5 DEF ClearAll, TypeOK, WorkerPc
<1>16. CASE ResetSlots
  BY <1>16 DEF ResetSlots, TypeOK, WorkerPc, HandlerPc
<1>17. CASE ResetStep
  BY <1>17 DEF ResetStep, TypeOK, WorkerPc, HandlerPc
<1>18. CASE ResetPid
  <2>1. attached' \in BOOLEAN
    BY <1>18, Zenon DEF ResetPid, TypeOK
  <2> QED
    BY <1>18, <2>1 DEF ResetPid, TypeOK, WorkerPc
<1>19. ASSUME NEW t \in Threads, NEW a \in Addrs, Hit(t, a)
      PROVE  TypeOK'
  BY <1>19 DEF Hit, goto, TypeOK, WorkerPc, HandlerPc
<1>20. ASSUME NEW t \in Threads, HaltForDebug(t)
      PROVE  TypeOK'
  <2>1. running' \in BOOLEAN
    BY <1>20, Zenon DEF HaltForDebug, TypeOK
  <2> QED
    BY <1>20, <2>1 DEF HaltForDebug, goto, TypeOK, HandlerPc
<1>21. ASSUME NEW t \in Threads, IsStep(t)
      PROVE  TypeOK'
  BY <1>21 DEF IsStep, goto, TypeOK, WorkerPc, HandlerPc
<1>22. ASSUME NEW t \in Threads, StepTake(t)
      PROVE  TypeOK'
  BY <1>22 DEF StepTake, goto, TypeOK, WorkerPc, HandlerPc
<1>23. ASSUME NEW t \in Threads, StepClear(t)
      PROVE  TypeOK'
  <2>1. haddr[t] \in Addrs
    BY <1>23 DEF StepClear, Locals
  <2>2. sw' \in [Slots -> Saved \cup {Free}] /\ text' \in [Addrs -> Word]
    <3>1. CASE UNCHANGED <<sw, text>>
      BY <3>1 DEF TypeOK
    <3>2. CASE clearBreakpoint(haddr[t])
      BY <2>1, <3>2, ClearTypes
    <3> QED
      BY <1>23, <3>1, <3>2 DEF StepClear
  <2>3. spoiled' \in BOOLEAN
    BY <1>23, Zenon DEF StepClear, TypeOK
  <2> QED
    BY <1>23, <2>2, <2>3 DEF StepClear, goto, TypeOK, HandlerPc
<1>24. ASSUME NEW t \in Threads, StepClearFails(t)
      PROVE  TypeOK'
  <2>1. haddr[t] \in Addrs
    BY <1>24 DEF StepClearFails, Locals
  <2>2. sw' \in [Slots -> Saved \cup {Free}] /\ text' \in [Addrs -> Word]
    BY <1>24, <2>1, ClearTypes DEF StepClearFails
  <2>3. spoiled' \in BOOLEAN
    BY <1>24, Zenon DEF StepClearFails
  <2> QED
    BY <1>24, <2>2, <2>3 DEF StepClearFails, goto, TypeOK, HandlerPc
<1>25. CASE UNCHANGED vars
  BY <1>25 DEF TypeOK, WorkerPc, HandlerPc
<1> QED
  BY <1>1, <1>2, <1>3, <1>4, <1>5, <1>6, <1>7, <1>8, <1>9, <1>10, <1>11,
     <1>12, <1>13, <1>14, <1>15, <1>16, <1>17, <1>18, <1>19, <1>20, <1>21,
     <1>22, <1>23, <1>24, <1>25 DEF Next

\* A handler removes, and the worker sets, what it has picked up.
LEMMA LocalsStep ==
  TypeOK /\ Locals /\ [Next]_vars => Locals'
<1> SUFFICES ASSUME TypeOK, Locals, [Next]_vars
             PROVE  Locals'
  OBVIOUS
<1> USE DEF vars, table, worker, handler, history
<1>1. ASSUME NEW a \in Addrs, NEW k \in Kinds, Add(a, k)
      PROVE  Locals'
  BY <1>1 DEF Add, readOrig, TypeOK, Locals, Setting, WorkerPc, HandlerPc
<1>2. ASSUME NEW a \in Addrs, NEW k \in Kinds, Step(a, k)
      PROVE  Locals'
  BY <1>2 DEF Step, readOrig, NoOp, TypeOK, Locals, Setting, WorkerPc,
     HandlerPc
<1>3. CASE SetClaim
  <2>1. CASE setReturns
    BY <1>3, <2>1 DEF SetClaim, setReturns, NoOp, Locals, Setting
  <2>2. CASE wpc = "claim" /\ claim
    <3>1. PICK i \in freeSlots : op' = [op EXCEPT !.idx = i] /\ wpc' = "write"
      BY <2>2 DEF claim
    <3>2. op' = [op EXCEPT !.idx = i] /\ i \in Slots
      BY <3>1 DEF freeSlots
    <3>3. op'.addr = op.addr /\ op'.kind = op.kind /\ op'.orig = op.orig /\ op'.idx = i
      BY <3>2 DEF TypeOK
    <3>4. op.addr \in Addrs /\ op.kind \in Kinds /\ op.orig \in Word
      BY <2>2 DEF Locals, Setting
    <3>5. hpc' = hpc /\ haddr' = haddr
      BY <1>3 DEF SetClaim
    <3> QED
      BY <3>1, <3>2, <3>3, <3>4, <3>5 DEF Locals
  <2> QED
    BY <1>3, <2>1, <2>2 DEF SetClaim
<1>4. CASE SetWrite
  BY <1>4 DEF SetWrite, setReturns, NoOp, TypeOK, Locals, Setting, WorkerPc,
     HandlerPc
<1>5. CASE SetUndo
  BY <1>5 DEF SetUndo, setReturns, NoOp, TypeOK, Locals, Setting, WorkerPc,
     HandlerPc
<1>6. ASSUME NEW a \in Addrs, NEW c \in Code, WriteAddrs(a, c)
      PROVE  Locals'
  BY <1>6 DEF WriteAddrs, TypeOK, Locals, Setting, WorkerPc, HandlerPc
<1>7. ASSUME NEW t \in Threads, NEW a \in Addrs, Hit(t, a)
      PROVE  Locals'
  BY <1>7 DEF Hit, goto, TypeOK, Locals, Setting, WorkerPc, HandlerPc
<1>8. ASSUME NEW t \in Threads, HaltForDebug(t)
      PROVE  Locals'
  BY <1>8 DEF HaltForDebug, goto, TypeOK, Locals, Setting, WorkerPc,
     HandlerPc
<1>9. ASSUME NEW t \in Threads, IsStep(t)
      PROVE  Locals'
  BY <1>9 DEF IsStep, goto, TypeOK, Locals, Setting, WorkerPc, HandlerPc
<1>10. ASSUME NEW t \in Threads, StepTake(t)
      PROVE  Locals'
  BY <1>10 DEF StepTake, goto, TypeOK, Locals, Setting, WorkerPc, HandlerPc
<1>11. ASSUME NEW t \in Threads, StepClear(t)
      PROVE  Locals'
  BY <1>11 DEF StepClear, goto, TypeOK, Locals, Setting, WorkerPc, HandlerPc
<1>12. ASSUME NEW t \in Threads, StepClearFails(t)
      PROVE  Locals'
  BY <1>12 DEF StepClearFails, goto, TypeOK, Locals, Setting, WorkerPc,
     HandlerPc
<1>13. CASE \/ Attach \/ SetWriteFails \/ SetStep \/ Continue \/ Resume
            \/ Stop \/ ClearAll \/ ResetSlots \/ ResetStep \/ ResetPid
  BY <1>13 DEF Attach, SetWriteFails, SetStep, NoOp, Continue, Resume, Stop,
     ClearAll, ResetSlots, ResetStep, ResetPid, TypeOK, Locals, Setting,
     WorkerPc, HandlerPc
<1>14. ASSUME NEW a \in Addrs, \/ Remove(a) \/ RemoveFails(a)
      PROVE  Locals'
  BY <1>14 DEF Remove, RemoveFails, TypeOK, Locals, Setting, WorkerPc,
     HandlerPc
<1>15. CASE UNCHANGED vars
  BY <1>15 DEF TypeOK, Locals, Setting, WorkerPc, HandlerPc
<1> QED
  BY <1>1, <1>2, <1>3, <1>4, <1>5, <1>6, <1>7, <1>8, <1>9, <1>10, <1>11,
     <1>12, <1>13, <1>14, <1>15 DEF Next

\* Only clear_all and reset() lead out of a session, and only a claim fills a
\* slot.
LEMMA EmptyStep ==
  TypeOK /\ Empty /\ [Next]_vars => Empty'
<1> SUFFICES ASSUME TypeOK, Empty, [Next]_vars
             PROVE  Empty'
  OBVIOUS
<1> USE DEF vars, table, worker, handler, history
<1>1. CASE Attach
  BY <1>1 DEF Attach, Empty
<1>2. CASE SetClaim
  <2>1. CASE setReturns
    BY <1>2, <2>1 DEF SetClaim, setReturns, Empty
  <2>2. CASE wpc' = "write"
    BY <2>2 DEF Empty
  <2> QED
    BY <1>2, <2>1, <2>2 DEF SetClaim, claim
<1>3. CASE SetWrite
  BY <1>3 DEF SetWrite, setReturns, NoOp, Empty
<1>4. CASE SetUndo
  BY <1>4 DEF SetUndo, setReturns, NoOp, Empty
<1>5. ASSUME NEW a \in Addrs, NEW c \in Code, WriteAddrs(a, c)
      PROVE  Empty'
  BY <1>5 DEF WriteAddrs, Empty
<1>6. ASSUME NEW t \in Threads, NEW a \in Addrs, Hit(t, a)
      PROVE  Empty'
  BY <1>6 DEF Hit, goto, Empty
<1>7. ASSUME NEW t \in Threads, StepClear(t)
      PROVE  Empty'
  <2>1. SUFFICES ASSUME wpc \in {"off", "reset_slots", "reset_step", "reset_pid"}
                 PROVE  \A i \in Slots : sw'[i] = Free
    BY <1>7 DEF StepClear, Empty
  <2>2. CASE UNCHANGED sw
    BY <2>1, <2>2 DEF Empty
  <2>3. ASSUME NEW i \in Slots, sw' = [sw EXCEPT ![i] = Free]
        PROVE  \A j \in Slots : sw'[j] = Free
    BY <2>1, <2>3 DEF Empty, TypeOK
  <2> QED
    BY <1>7, <2>2, <2>3 DEF StepClear, clearBreakpoint, At
<1>8. ASSUME NEW t \in Threads, StepClearFails(t)
      PROVE  Empty'
  <2>1. SUFFICES ASSUME wpc \in {"off", "reset_slots", "reset_step", "reset_pid"}
                 PROVE  \A i \in Slots : sw'[i] = Free
    BY <1>8 DEF StepClearFails, Empty
  <2>2. PICK i \in Slots : sw' = [sw EXCEPT ![i] = Free]
    BY <1>8 DEF StepClearFails, clearFails, At
  <2> QED
    BY <2>1, <2>2 DEF Empty, TypeOK
<1>9. CASE \/ SetWriteFails \/ SetStep \/ Continue \/ Resume \/ Stop
  BY <1>9 DEF SetWriteFails, SetStep, NoOp, Continue, Resume, Stop, Empty
<1>10. ASSUME NEW a \in Addrs, NEW k \in Kinds, \/ Add(a, k) \/ Step(a, k)
      PROVE  Empty'
  BY <1>10 DEF Add, readOrig, Step, NoOp, Empty
<1>11. CASE \/ ClearAll \/ ResetSlots \/ ResetStep \/ ResetPid
  BY <1>11 DEF ClearAll, ResetSlots, ResetStep, ResetPid, Empty
<1>12. ASSUME NEW t \in Threads, \/ HaltForDebug(t) \/ IsStep(t)
                                 \/ StepTake(t)
      PROVE  Empty'
  BY <1>12 DEF HaltForDebug, goto, IsStep, StepTake, Empty
<1>13. ASSUME NEW a \in Addrs, \/ Remove(a) \/ RemoveFails(a)
      PROVE  Empty'
  BY <1>13 DEF Remove, RemoveFails, Empty
<1>14. CASE UNCHANGED vars
  BY <1>14 DEF Empty
<1> QED
  BY <1>1, <1>2, <1>3, <1>4, <1>5, <1>6, <1>7, <1>8, <1>9, <1>10, <1>11,
     <1>12, <1>13, <1>14 DEF Next

\* Emptying a slot, and emptying all of them, makes no copies.
LEMMA FreeOne ==
  ASSUME TypeOK, OneSlotPerAddress, NEW i \in Slots, sw' = [sw EXCEPT ![i] = Free]
  PROVE  OneSlotPerAddress'
<1> SUFFICES ASSUME NEW j \in Slots, NEW k \in Slots,
                    sw'[j].used, sw'[j].addr = sw'[k].addr
             PROVE  j = k
  BY DEF OneSlotPerAddress
<1>1. Free.used = FALSE /\ Free.addr = None
  BY DEF Free
<1>2. sw'[i] = Free /\ \A l \in Slots : l # i => sw'[l] = sw[l]
  BY DEF TypeOK
<1>3. j # i
  BY <1>1, <1>2
<1>4. sw[j].addr \in Addrs
  BY <1>2, <1>3, SlotFacts
<1>5. k # i
  BY <1>1, <1>2, <1>3, <1>4, NoneAssumption
<1> QED
  BY <1>2, <1>3, <1>5 DEF OneSlotPerAddress

LEMMA FreeAll ==
  ASSUME sw' = [i \in Slots |-> Free]
  PROVE  OneSlotPerAddress'
<1>1. Free.used = FALSE
  BY DEF Free
<1>2. \A i \in Slots : sw'[i].used = FALSE
  BY <1>1
<1> QED
  BY <1>2 DEF OneSlotPerAddress

\* clear_sw_breakpoint empties at most one slot, one of this address.
LEMMA ClearShape ==
  ASSUME TypeOK, NEW a \in Addrs, clearBreakpoint(a) \/ clearFails(a)
  PROVE  \/ UNCHANGED sw
         \/ \E i \in Slots : sw[i].addr = a /\ sw' = [sw EXCEPT ![i] = Free]
BY DEF clearBreakpoint, clearFails, At

LEMMA ClearKeepsOneSlot ==
  ASSUME TypeOK, OneSlotPerAddress, NEW a \in Addrs,
         clearBreakpoint(a) \/ clearFails(a)
  PROVE  OneSlotPerAddress'
<1>1. CASE UNCHANGED sw
  BY <1>1 DEF OneSlotPerAddress
<1> QED
  BY <1>1, ClearShape, FreeOne

\* What a claim does to the table.
LEMMA ClaimShape ==
  ASSUME TypeOK, Locals, wpc = "claim", claim
  PROVE  \E i \in Slots :
           /\ sw[i].addr = None /\ wpc' = "write"
           /\ op'.idx = i /\ op'.addr = op.addr /\ op'.orig = op.orig
           /\ sw'[i].used = TRUE /\ sw'[i].addr = op.addr
           /\ sw'[i].orig = op.orig
           /\ \A j \in Slots : j # i => sw'[j] = sw[j]
<1>1. PICK i \in freeSlots :
        /\ sw' = [sw EXCEPT ![i] = [used |-> TRUE, addr |-> op.addr,
                                   orig |-> op.orig]]
        /\ op' = [op EXCEPT !.idx = i]
        /\ wpc' = "write"
  BY DEF claim
<1>2. i \in Slots /\ ~sw[i].used
  BY DEF freeSlots
<1>3. sw[i].addr = None
  BY <1>2, SlotFacts
<1>4. op'.idx = i /\ op'.addr = op.addr /\ op'.orig = op.orig
  BY <1>1 DEF TypeOK
<1>5. sw'[i] = [used |-> TRUE, addr |-> op.addr, orig |-> op.orig]
      /\ \A j \in Slots : j # i => sw'[j] = sw[j]
  BY <1>1, <1>2 DEF TypeOK
<1> QED
  BY <1>1, <1>2, <1>3, <1>4, <1>5

\* The table is searched and filled under one lock, so no step copies an
\* address.
LEMMA OneSlotStep ==
  TypeOK /\ Locals /\ OneSlotPerAddress /\ [Next]_vars => OneSlotPerAddress'
<1> SUFFICES ASSUME TypeOK, Locals, OneSlotPerAddress, [Next]_vars
             PROVE  OneSlotPerAddress'
  OBVIOUS
<1> USE DEF vars, table, worker, handler, history
<1>1. CASE SetClaim
  <2>1. CASE UNCHANGED sw
    BY <2>1 DEF OneSlotPerAddress
  <2>2. CASE At(op.addr) = {} /\ wpc = "claim" /\ claim
    <3>1. PICK i \in Slots :
            /\ sw[i].addr = None /\ sw'[i].addr = op.addr
            /\ \A j \in Slots : j # i => sw'[j] = sw[j]
      BY <2>2, ClaimShape
    <3>2. \A j \in Slots : sw[j].addr # op.addr
      BY <2>2 DEF At
    <3> QED
      BY <3>1, <3>2 DEF OneSlotPerAddress
  <2> QED
    BY <1>1, <2>1, <2>2 DEF SetClaim
<1>2. CASE SetUndo
  BY <1>2, FreeOne DEF SetUndo, Locals
<1>3. ASSUME NEW a \in Addrs, NEW c \in Code, WriteAddrs(a, c)
      PROVE  OneSlotPerAddress'
  BY <1>3 DEF WriteAddrs, OneSlotPerAddress
<1>4. CASE ClearAll
  BY <1>4, FreeAll DEF ClearAll
<1>5. CASE ResetSlots
  BY <1>5, FreeAll DEF ResetSlots
<1>6. ASSUME NEW t \in Threads, NEW a \in Addrs, Hit(t, a)
      PROVE  OneSlotPerAddress'
  BY <1>6 DEF Hit, goto, OneSlotPerAddress
<1>7. CASE \/ Attach \/ SetWrite \/ SetWriteFails \/ SetStep \/ Continue
           \/ Resume \/ Stop
  BY <1>7 DEF Attach, SetWrite, setReturns, NoOp, SetWriteFails, SetStep,
     Continue, Resume, Stop, OneSlotPerAddress
<1>8. CASE \/ ResetStep \/ ResetPid
  BY <1>8 DEF ResetStep, ResetPid, OneSlotPerAddress
<1>9. ASSUME NEW a \in Addrs, NEW k \in Kinds, \/ Add(a, k) \/ Step(a, k)
      PROVE  OneSlotPerAddress'
  BY <1>9 DEF Add, readOrig, Step, NoOp, OneSlotPerAddress
<1>10. ASSUME NEW a \in Addrs, \/ Remove(a) \/ RemoveFails(a)
      PROVE  OneSlotPerAddress'
  BY <1>10, ClearKeepsOneSlot DEF Remove, RemoveFails
<1>11. ASSUME NEW t \in Threads, \/ HaltForDebug(t) \/ IsStep(t)
                                 \/ StepTake(t)
      PROVE  OneSlotPerAddress'
  BY <1>11 DEF HaltForDebug, goto, IsStep, StepTake, OneSlotPerAddress
<1>12. ASSUME NEW t \in Threads, \/ StepClear(t) \/ StepClearFails(t)
      PROVE  OneSlotPerAddress'
  <2>1. haddr[t] \in Addrs
    BY <1>12 DEF StepClear, StepClearFails, Locals
  <2>2. CASE UNCHANGED sw
    BY <2>2 DEF OneSlotPerAddress
  <2>3. CASE clearBreakpoint(haddr[t]) \/ clearFails(haddr[t])
    BY <2>1, <2>3, ClearKeepsOneSlot
  <2> QED
    BY <1>12, <2>2, <2>3 DEF StepClear, StepClearFails
<1>13. CASE UNCHANGED vars
  BY <1>13 DEF OneSlotPerAddress
<1> QED
  BY <1>1, <1>2, <1>3, <1>4, <1>5, <1>6, <1>7, <1>8, <1>9, <1>10, <1>11,
     <1>12, <1>13 DEF Next

\* Nobody but a finishing step touches the slot or the address the worker is
\* setting, and that is what spoiled records.
LEMMA FreshStep ==
  TypeOK /\ Locals /\ Fresh /\ TextIsProgram /\ [Next]_vars => Fresh'
<1> SUFFICES ASSUME TypeOK, Locals, Fresh, TextIsProgram, [Next]_vars
             PROVE  Fresh'
  OBVIOUS
<1> USE DEF vars, table, worker, handler, history
<1>1. CASE SetClaim
  <2>1. CASE setReturns
    BY <1>1, <2>1 DEF SetClaim, setReturns, Fresh
  <2>2. CASE wpc = "claim" /\ claim
    <3>1. wpc' = "write" /\ sw'[op'.idx].addr = op'.addr
      BY <2>2, ClaimShape
    <3> QED
      BY <3>1 DEF Fresh
  <2> QED
    BY <1>1, <2>1, <2>2 DEF SetClaim
<1>2. ASSUME NEW a \in Addrs, NEW c \in Code, WriteAddrs(a, c)
      PROVE  Fresh'
  BY <1>2 DEF WriteAddrs, Fresh, At
<1>3. ASSUME NEW t \in Threads, NEW a \in Addrs, Hit(t, a)
      PROVE  Fresh'
  BY <1>3 DEF Hit, goto, Fresh, At
<1>4. ASSUME NEW t \in Threads, StepClear(t)
      PROVE  Fresh'
  <2> SUFFICES ASSUME ~spoiled'
               PROVE  /\ wpc = "claim" => At(op.addr)' # {} \/ op.orig = program[op.addr]
                      /\ wpc = "write" => sw'[op.idx].addr = op.addr
                      /\ wpc # "undo"
    BY <1>4 DEF StepClear, Fresh
  <2>1. ~spoiled /\ ~races(t)
    BY <1>4 DEF StepClear
  <2>2. CASE UNCHANGED sw
    BY <1>4, <2>1, <2>2 DEF StepClear, Fresh, At
  <2>3. ASSUME NEW i \in Slots, sw[i].addr = haddr[t], sw' = [sw EXCEPT ![i] = Free]
        PROVE  /\ wpc = "claim" => At(op.addr)' # {} \/ op.orig = program[op.addr]
               /\ wpc = "write" => sw'[op.idx].addr = op.addr
    <3>1. \A j \in Slots : sw[j].addr # haddr[t] => sw'[j] = sw[j]
      BY <2>3 DEF TypeOK
    <3>2. wpc \in Setting => op.addr # haddr[t]
      BY <2>1 DEF races
    <3>3. CASE wpc = "claim"
      BY <1>4, <2>1, <3>1, <3>2, <3>3 DEF StepClear, Fresh, At, Setting
    <3>4. CASE wpc = "write"
      BY <2>1, <3>1, <3>2, <3>4 DEF Fresh, Locals, Setting
    <3> QED
      BY <3>3, <3>4
  <2>4. haddr[t] \in Addrs
    BY <1>4 DEF StepClear, Locals
  <2>5. wpc # "undo"
    BY <2>1 DEF Fresh
  <2> QED
    BY <1>4, <2>2, <2>3, <2>4, <2>5, ClearShape DEF StepClear
<1>5. ASSUME NEW t \in Threads, StepClearFails(t)
      PROVE  Fresh'
  BY <1>5 DEF StepClearFails, goto, Fresh, At
<1>6. CASE \/ Attach \/ SetWriteFails \/ SetStep \/ Continue \/ Resume
           \/ Stop
  BY <1>6 DEF Attach, SetWriteFails, SetStep, NoOp, Continue, Resume, Stop,
     Fresh, At
<1>7. CASE \/ SetWrite \/ SetUndo
  BY <1>7 DEF SetWrite, setReturns, NoOp, SetUndo, Fresh, At
<1>8. ASSUME NEW a \in Addrs, NEW k \in Kinds, \/ Add(a, k) \/ Step(a, k)
      PROVE  Fresh'
  <2> SUFFICES ASSUME ~spoiled, wpc' = "claim"
               PROVE  At(op.addr)' # {} \/ op'.orig = program'[op'.addr]
    BY <1>8 DEF Add, Step, readOrig, Fresh
  <2>1. CASE wpc' = "claim" /\ op'.addr = a /\ op'.orig = text[a]
    <3>1. At(op.addr)' = At(a)
      BY <1>8, <2>1 DEF Add, Step, At
    <3> QED
      BY <1>8, <2>1, <3>1 DEF Add, Step, TextIsProgram
  <2> QED
    BY <1>8, <2>1 DEF Add, Step, readOrig
<1>9. CASE \/ ClearAll \/ ResetSlots \/ ResetStep \/ ResetPid
  BY <1>9 DEF ClearAll, ResetSlots, ResetStep, ResetPid, Fresh, At
<1>10. ASSUME NEW a \in Addrs, \/ Remove(a) \/ RemoveFails(a)
      PROVE  Fresh'
  BY <1>10 DEF Remove, RemoveFails, Fresh, At
<1>11. ASSUME NEW t \in Threads, \/ HaltForDebug(t) \/ IsStep(t)
                                 \/ StepTake(t)
      PROVE  Fresh'
  BY <1>11 DEF HaltForDebug, goto, IsStep, StepTake, Fresh, At
<1>12. CASE UNCHANGED vars
  BY <1>12 DEF Fresh, At
<1> QED
  BY <1>1, <1>2, <1>3, <1>4, <1>5, <1>6, <1>7, <1>8, <1>9, <1>10, <1>11,
     <1>12 DEF Next

\* A step that leaves the table and the text alone keeps TextIsProgram.
LEMMA TextFrame ==
  ASSUME TextIsProgram, UNCHANGED <<sw, text, program>>, spoiled => spoiled',
         wpc = "write" => wpc' = "write" /\ op' = op
  PROVE  TextIsProgram'
BY DEF TextIsProgram, At, Unwritten

\* Removing a breakpoint puts the user's instruction back.
LEMMA ClearText ==
  ASSUME TypeOK, OneSlotPerAddress, TextIsProgram, ~spoiled,
         NEW a \in Addrs, clearBreakpoint(a), ~Unwritten(a),
         UNCHANGED <<wpc, op, program>>
  PROVE  TextIsProgram'
<1>1. CASE UNCHANGED <<sw, text>>
  BY <1>1, TextFrame
<1>2. ASSUME NEW i \in At(a), sw' = [sw EXCEPT ![i] = Free],
             text' = [text EXCEPT ![a] = restored(i)]
      PROVE  TextIsProgram'
  <2>1. i \in Slots /\ sw[i].addr = a /\ sw[i].used
    BY AtFacts, SlotFacts, NoneAssumption
  <2>2. Free.addr = None
    BY DEF Free
  <2>3. sw'[i] = Free /\ \A j \in Slots : j # i => sw'[j] = sw[j]
    BY <1>2, <2>1 DEF TypeOK
  <2>4. At(a)' = {}
    BY <2>1, <2>2, <2>3, NoneAssumption DEF At, OneSlotPerAddress
  <2>5. text'[a] = program[a]
    BY <1>2, <2>1 DEF TypeOK, restored, TextIsProgram
  <2>6. ASSUME NEW b \in Addrs, b # a
        PROVE  /\ At(b)' = {} => text'[b] = program[b]
               /\ \A j \in At(b)' : /\ sw'[j].orig = program[b]
                                    /\ Unwritten(b)' \/ text'[b] \in Patches
    <3>1. At(b)' = At(b) /\ i \notin At(b)
      BY <2>1, <2>2, <2>3, <2>6, NoneAssumption DEF At
    <3>2. text'[b] = text[b] /\ (Unwritten(b)' <=> Unwritten(b))
      BY <1>2, <2>6 DEF TypeOK, Unwritten
    <3>3. \A j \in At(b) : sw'[j] = sw[j]
      BY <2>3, <3>1 DEF At
    <3> QED
      BY <3>1, <3>2, <3>3 DEF TextIsProgram
  <2> QED
    BY <2>4, <2>5, <2>6 DEF TextIsProgram
<1> QED
  BY <1>1, <1>2 DEF clearBreakpoint

\* Every write to the text by a session is matched by what the table saves.
LEMMA TextStep ==
  TypeOK /\ Locals /\ Fresh /\ Empty /\ OneSlotPerAddress /\ TextIsProgram /\ [Next]_vars => TextIsProgram'
<1> SUFFICES ASSUME TypeOK, Locals, Fresh, Empty, OneSlotPerAddress, TextIsProgram, [Next]_vars
             PROVE  TextIsProgram'
  OBVIOUS
<1> USE DEF vars, table, worker, handler, history
<1>1. CASE SetClaim
  <2>1. CASE UNCHANGED sw
    BY <1>1, <2>1, TextFrame DEF SetClaim
  <2>2. CASE At(op.addr) = {} /\ wpc = "claim" /\ claim
    <3> SUFFICES ASSUME ~spoiled, NEW a \in Addrs
                 PROVE  /\ At(a)' = {} => text[a] = program[a]
                        /\ \A j \in At(a)' : /\ sw'[j].orig = program[a]
                                             /\ Unwritten(a)' \/ text[a] \in Patches
      BY <1>1 DEF SetClaim, TextIsProgram
    <3>1. PICK i \in Slots :
            /\ sw[i].addr = None /\ wpc' = "write" /\ op'.addr = op.addr
            /\ sw'[i].addr = op.addr /\ sw'[i].orig = op.orig
            /\ \A j \in Slots : j # i => sw'[j] = sw[j]
      BY <2>2, ClaimShape
    <3>2. CASE a = op.addr
      <4>1. At(a)' = {i}
        BY <2>2, <3>1, <3>2 DEF At
      <4>2. op.orig = program[a]
        BY <2>2, <3>2 DEF Fresh
      <4> QED
        BY <3>1, <3>2, <4>1, <4>2 DEF Unwritten
    <3>3. CASE a # op.addr
      <4>1. At(a)' = At(a) /\ i \notin At(a)
        BY <3>1, <3>3, NoneAssumption DEF At
      <4>2. ~Unwritten(a) /\ \A j \in At(a) : sw'[j] = sw[j]
        BY <2>2, <3>1, <4>1 DEF Unwritten, At
      <4> QED
        BY <4>1, <4>2 DEF TextIsProgram
    <3> QED
      BY <3>2, <3>3
  <2> QED
    BY <1>1, <2>1, <2>2 DEF SetClaim
<1>2. CASE SetWrite
  <2> SUFFICES ASSUME ~spoiled, NEW a \in Addrs
               PROVE  /\ At(a) = {} => text'[a] = program[a]
                      /\ \A j \in At(a) : /\ sw[j].orig = program[a]
                                          /\ text'[a] \in Patches
    BY <1>2 DEF SetWrite, TextIsProgram, At
  <2>1. CASE a = op.addr
    <3>1. op.idx \in At(a)
      BY <1>2, <2>1 DEF SetWrite, Locals, Fresh, At
    <3>2. text'[a] \in Patches
      BY <1>2, <2>1 DEF SetWrite, TypeOK, patched, Patches
    <3> QED
      BY <3>1, <3>2 DEF TextIsProgram
  <2>2. CASE a # op.addr
    <3>1. text'[a] = text[a] /\ ~Unwritten(a)
      BY <1>2, <2>2 DEF SetWrite, TypeOK, Unwritten
    <3> QED
      BY <3>1 DEF TextIsProgram
  <2> QED
    BY <2>1, <2>2
<1>3. CASE SetWriteFails
  BY <1>3 DEF SetWriteFails, TextIsProgram
<1>4. CASE SetUndo
  <2>1. spoiled /\ spoiled' = spoiled
    BY <1>4 DEF SetUndo, Fresh
  <2> QED
    BY <2>1 DEF TextIsProgram
<1>5. ASSUME NEW a \in Addrs, Remove(a)
      PROVE  TextIsProgram'
  <2>1. CASE spoiled
    BY <1>5, <2>1 DEF Remove, TextIsProgram
  <2>2. CASE ~spoiled
    BY <1>5, <2>2, ClearText DEF Remove, Unwritten
  <2> QED
    BY <2>1, <2>2
<1>6. ASSUME NEW a \in Addrs, RemoveFails(a)
      PROVE  TextIsProgram'
  BY <1>6 DEF RemoveFails, TextIsProgram
<1>7. ASSUME NEW a \in Addrs, NEW c \in Code, WriteAddrs(a, c)
      PROVE  TextIsProgram'
  <2> SUFFICES ASSUME ~spoiled', NEW b \in Addrs
               PROVE  /\ At(b) = {} => text'[b] = program'[b]
                      /\ \A j \in At(b) : /\ sw[j].orig = program'[b]
                                          /\ Unwritten(b) \/ text'[b] \in Patches
    BY <1>7 DEF WriteAddrs, TextIsProgram, At, Unwritten
  <2>1. ~spoiled /\ At(a) = {}
    BY <1>7 DEF WriteAddrs
  <2>2. CASE b = a
    BY <1>7, <2>1, <2>2 DEF WriteAddrs, TypeOK
  <2>3. CASE b # a
    <3>1. text'[b] = text[b] /\ program'[b] = program[b]
      BY <1>7, <2>3 DEF WriteAddrs, TypeOK
    <3> QED
      BY <2>1, <3>1 DEF TextIsProgram
  <2> QED
    BY <2>2, <2>3
<1>8. CASE ClearAll
  <2>1. Free.addr = None
    BY DEF Free
  <2>2. ASSUME NEW a \in Addrs
        PROVE  At(a)' = {}
    BY <1>8, <2>1, NoneAssumption DEF ClearAll, At
  <2> SUFFICES ASSUME ~spoiled', NEW a \in Addrs
               PROVE  text'[a] = program[a]
    BY <1>8, <2>2 DEF ClearAll, TextIsProgram
  <2>3. ~spoiled
    BY <1>8 DEF ClearAll
  <2>4. text'[a] = IF At(a) = {} THEN text[a]
                   ELSE restored(CHOOSE i \in At(a) : TRUE)
    BY <1>8 DEF ClearAll
  <2>5. CASE At(a) = {}
    BY <2>3, <2>4, <2>5 DEF TextIsProgram
  <2>6. CASE At(a) # {}
    <3>1. (CHOOSE i \in At(a) : TRUE) \in At(a)
      BY <2>6
    <3> QED
      BY <2>3, <2>4, <2>6, <3>1 DEF restored, TextIsProgram
  <2> QED
    BY <2>5, <2>6
<1>9. CASE ResetSlots
  <2>1. sw' = sw
    BY <1>9 DEF ResetSlots, Empty, TypeOK
  <2> QED
    BY <1>9, <2>1, TextFrame DEF ResetSlots
<1>10. ASSUME NEW t \in Threads, NEW a \in Addrs, Hit(t, a)
      PROVE  TextIsProgram'
  BY <1>10, TextFrame DEF Hit
<1>11. ASSUME NEW t \in Threads, StepClear(t)
      PROVE  TextIsProgram'
  <2>1. CASE spoiled'
    BY <2>1 DEF TextIsProgram
  <2>2. CASE ~spoiled' /\ clearBreakpoint(haddr[t])
    <3>1. ~spoiled /\ ~races(t) /\ haddr[t] \in Addrs
      BY <1>11, <2>2 DEF StepClear, Locals
    <3>2. ~Unwritten(haddr[t])
      BY <3>1 DEF races, Setting, Unwritten
    <3> QED
      BY <1>11, <2>2, <3>1, <3>2, ClearText DEF StepClear
  <2>3. CASE ~spoiled' /\ UNCHANGED <<sw, text>>
    BY <1>11, <2>3, TextFrame DEF StepClear
  <2> QED
    BY <1>11, <2>1, <2>2, <2>3 DEF StepClear
<1>12. ASSUME NEW t \in Threads, StepClearFails(t)
      PROVE  TextIsProgram'
  BY <1>12 DEF StepClearFails, TextIsProgram
<1>13. CASE \/ Attach \/ SetStep \/ Continue \/ Resume \/ Stop
  <2>1. wpc # "write" /\ UNCHANGED <<sw, text, program, spoiled>>
    BY <1>13 DEF Attach, SetStep, Continue, Resume, Stop
  <2> QED
    BY <2>1, TextFrame
<1>14. ASSUME NEW a \in Addrs, NEW k \in Kinds, \/ Add(a, k) \/ Step(a, k)
      PROVE  TextIsProgram'
  <2>1. wpc = "idle" /\ UNCHANGED <<sw, text, program, spoiled>>
    BY <1>14 DEF Add, Step
  <2> QED
    BY <2>1, TextFrame
<1>15. CASE \/ ResetStep \/ ResetPid
  BY <1>15, TextFrame DEF ResetStep, ResetPid
<1>16. ASSUME NEW t \in Threads, \/ HaltForDebug(t) \/ IsStep(t)
                                 \/ StepTake(t)
      PROVE  TextIsProgram'
  BY <1>16, TextFrame DEF HaltForDebug, IsStep, StepTake
<1>17. CASE UNCHANGED vars
  BY <1>17, TextFrame
<1> QED
  BY <1>1, <1>2, <1>3, <1>4, <1>5, <1>6, <1>7, <1>8, <1>9, <1>10, <1>11,
     <1>12, <1>13, <1>14, <1>15, <1>16, <1>17 DEF Next

LEMMA InvInit == Init => Inv
<1> SUFFICES ASSUME Init
             PROVE  Inv
  OBVIOUS
<1>1. Free.used = FALSE /\ Free.addr = None
  BY DEF Free
<1>2. TypeOK
  <2>1. attached \in BOOLEAN /\ running \in BOOLEAN /\ spoiled \in BOOLEAN
    BY Zenon DEF Init
  <2> QED
    BY <2>1, NoOpType DEF Init, TypeOK, WorkerPc, HandlerPc, Word, Ops
<1>3. Locals /\ Fresh /\ Empty
  BY DEF Init, Locals, Fresh, Empty, Setting
<1>4. OneSlotPerAddress
  BY <1>1 DEF Init, OneSlotPerAddress
<1>5. TextIsProgram
  BY <1>1, NoneAssumption DEF Init, TextIsProgram, At
<1> QED
  BY <1>2, <1>3, <1>4, <1>5 DEF Inv

LEMMA InvStep == Inv /\ [Next]_vars => Inv'
BY TypeStep, LocalsStep, FreshStep, EmptyStep, OneSlotStep, TextStep DEF Inv

\* Inv holds in every reachable state.
THEOREM Invariance == Spec => []Inv
BY InvInit, InvStep, PTL DEF Spec

\* Every variable keeps its type, for every number of slots and threads.
THEOREM TypeCorrectness == Spec => []TypeOK
<1>1. Inv => TypeOK
  BY DEF Inv
<1> QED
  BY <1>1, Invariance, PTL

\* set_sw_breakpoint, step_finished and clear_all never leave an address in
\* two slots of the table.
THEOREM SavedOnce == Spec => []OneSlotPerAddress
<1>1. Inv => OneSlotPerAddress
  BY DEF Inv
<1> QED
  BY <1>1, Invariance, PTL

\* As long as nothing spoiled it, the text is the program with exactly the
\* saved breakpoints in it: the insertion outside the lock is harmless.
THEOREM TextIsKept == Spec => []TextIsProgram
<1>1. Inv => TextIsProgram
  BY DEF Inv
<1> QED
  BY <1>1, Invariance, PTL

\* And clear_all and reset() then leave the program as the user wrote it.
THEOREM DetachLeavesNothing == Spec => []DetachedIsClean
<1>1. ASSUME Inv, ~spoiled, wpc = "off"
      PROVE  text = program
  <2>1. \A i \in Slots : sw[i].addr = None
    BY <1>1 DEF Inv, Empty, Free
  <2>2. \A a \in Addrs : text[a] = program[a]
    BY <1>1, <2>1, NoneAssumption DEF Inv, TextIsProgram, At
  <2> QED
    BY <1>1, <2>2 DEF Inv, TypeOK
<1>2. Inv => DetachedIsClean
  BY <1>1 DEF DetachedIsClean
<1> QED
  BY <1>2, Invariance, PTL

=============================================================================
