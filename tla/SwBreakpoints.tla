--------------------------- MODULE SwBreakpoints ----------------------------
(***************************************************************************)
(* The software breakpoints of one debug session (gdb/sessions.rs): the    *)
(* table of saved instructions, behind a spinlock, and the text of the     *)
(* debugged process, behind nothing.  The worker inserts and removes       *)
(* breakpoints for gdb and for single steps; an exception handler removes  *)
(* the one of a finished step, at any moment.                              *)
(*                                                                         *)
(* An address stands for the bytes an inserted breakpoint covers;          *)
(* addresses do not overlap, as gdb inserts at instruction boundaries.     *)
(* What a handler reports, and to whom, is left to DebugSession.           *)
(***************************************************************************)
EXTENDS Naturals, FiniteSets

CONSTANTS Addrs,     \* addresses of instructions
          Shared,    \* those is_shared_address refuses
          Code,      \* instructions other than breakpoints
          NumSlots,  \* the length of sw_breakpoints
          Threads,   \* threads of the process
          None

ASSUME SharedAssumption == Shared \subseteq Addrs
ASSUME NumSlotsAssumption == NumSlots \in Nat
ASSUME NoneAssumption == None \notin Addrs

Kinds   == {"Thumb16", "Thumb32", "Arm32"}
Patches == {"be00", "e1200070"}

ASSUME CodeAssumption == Code # {} /\ Code \cap Patches = {}

Slots == 1 .. NumSlots
Word  == Code \cup Patches
Free  == [used |-> FALSE, addr |-> None, orig |-> None]
Saved == [used : {TRUE}, addr : Addrs, orig : Word]

VARIABLES
  attached,    \* the session has a pid
  sw, step,    \* sw_breakpoints and the address in `step`
  text,        \* the text of the process
  running,     \* the process runs
  wpc, op,     \* where the worker is, its locals in set_sw_breakpoint
  hpc, haddr,  \* per thread: where its handler is, the address it handles
  program,     \* history: the text as the program and gdb's writes made it
  spoiled      \* history: a write failed, gdb wrote over a breakpoint, or a
               \* step ended at an address that was just being set

table   == <<sw, step>>
worker  == <<wpc, op>>
handler == <<hpc, haddr>>
history == <<program, spoiled>>
vars == <<attached, table, text, running, worker, handler, history>>

Setting  == {"claim", "write", "undo"}
WorkerPc == Setting \cup {"off", "idle", "set_step", "resume", "running",
                          "reset_slots", "reset_step", "reset_pid"}
HandlerPc == {"run", "halt", "is_step", "take", "clear"}

NoOp == [addr |-> None, kind |-> None, orig |-> None, idx |-> 0,
         stepping |-> FALSE]

Init ==
  /\ attached = FALSE /\ running = TRUE
  /\ sw = [i \in Slots |-> Free] /\ step = None
  /\ text \in [Addrs -> Code] /\ program = text
  /\ wpc = "off" /\ op = NoOp
  /\ hpc = [t \in Threads |-> "run"] /\ haddr = [t \in Threads |-> None]
  /\ spoiled = FALSE

\* The slots that hold a breakpoint at a.
At(a) == {i \in Slots : sw[i].addr = a}

\* The bytes written over the instruction.
patched(kind) == IF kind = "Thumb16" THEN "be00" ELSE "e1200070"

-----------------------------------------------------------------------------
(***************************************************************************)
(* The worker.                                                             *)
(***************************************************************************)
\* attach halts the process; that fails only for a dead one, whose threads
\* do not run either.
Attach ==
  /\ wpc = "off" /\ wpc' = "idle"
  /\ attached' = TRUE /\ running' = FALSE
  /\ UNCHANGED <<table, text, op, handler, history>>

\* set_sw_breakpoint reads the original bytes before it takes the lock; a
\* shared address or a failing copy changes nothing.
readOrig(a, kind, stepping) ==
  /\ a \notin Shared
  /\ wpc' = "claim"
  /\ op' = [addr |-> a, kind |-> kind, orig |-> text[a], idx |-> 0,
            stepping |-> stepping]

\* add_sw_breakpoint
Add(a, kind) ==
  /\ wpc = "idle"
  /\ readOrig(a, kind, FALSE)
  /\ UNCHANGED <<attached, table, text, running, handler, history>>

\* resume() with a step whose next pc is a; the result of
\* set_sw_breakpoint is ignored.
Step(a, kind) ==
  /\ wpc = "idle"
  /\ kind # "Thumb32"
  /\ \/ readOrig(a, kind, TRUE)
     \/ wpc' = "set_step" /\ op' = [NoOp EXCEPT !.addr = a, !.stepping = TRUE]
  /\ UNCHANGED <<attached, table, text, running, handler, history>>

\* The caller of set_sw_breakpoint goes on.
setReturns ==
  IF op.stepping THEN wpc' = "set_step" /\ UNCHANGED op
                 ELSE wpc' = "idle" /\ op' = NoOp

\* The first free slot gets the address and the bytes read.
freeSlots == {i \in Slots : ~sw[i].used}
claim ==
  \E idx \in freeSlots :
    /\ \A j \in freeSlots : idx <= j
    /\ sw' = [sw EXCEPT ![idx] = [used |-> TRUE, addr |-> op.addr,
                                  orig |-> op.orig]]
    /\ op' = [op EXCEPT !.idx = idx]
    /\ wpc' = "write"

\* Mutant of SetClaim: the table is not searched for the address.
SetClaimTwice ==
  /\ wpc = "claim"
  /\ IF freeSlots = {} THEN setReturns /\ UNCHANGED sw ELSE claim
  /\ UNCHANGED <<attached, step, text, running, handler, history>>

\* Under the lock: nothing to do for an address already there, no room in a
\* full table.
SetClaim ==
  /\ wpc = "claim"
  /\ IF At(op.addr) # {} \/ freeSlots = {}
     THEN setReturns /\ UNCHANGED sw
     ELSE claim
  /\ UNCHANGED <<attached, step, text, running, handler, history>>

\* write_user_text, after the lock is gone.
SetWrite ==
  /\ wpc = "write"
  /\ text' = [text EXCEPT ![op.addr] = patched(op.kind)]
  /\ setReturns
  /\ UNCHANGED <<attached, table, running, handler, history>>

\* It fails before or after the bytes are copied.
SetWriteFails ==
  /\ wpc = "write" /\ wpc' = "undo"
  /\ text' \in {text, [text EXCEPT ![op.addr] = patched(op.kind)]}
  /\ spoiled' = TRUE
  /\ UNCHANGED <<attached, table, running, op, handler, program>>

SetUndo ==
  /\ wpc = "undo"
  /\ sw' = [sw EXCEPT ![op.idx] = Free]
  /\ setReturns
  /\ UNCHANGED <<attached, step, text, running, handler, history>>

SetStep ==
  /\ wpc = "set_step" /\ wpc' = "resume"
  /\ step' = op.addr /\ op' = NoOp
  /\ UNCHANGED <<attached, sw, text, running, handler, history>>

Continue ==
  /\ wpc = "idle" /\ wpc' = "resume"
  /\ UNCHANGED <<attached, table, text, running, op, handler, history>>

Resume ==
  /\ wpc = "resume" /\ wpc' = "running"
  /\ running' = TRUE
  /\ UNCHANGED <<attached, table, text, op, handler, history>>

\* gdb interrupts the process, or an event has stopped it.
Stop ==
  /\ wpc = "running" /\ wpc' = "idle"
  /\ running' = FALSE
  /\ UNCHANGED <<attached, table, text, op, handler, history>>

\* Mutant of restored: the breakpoint is written back.
restoredAsPatch(i) == patched("Thumb16")

\* What restore_sw_slot writes back.
restored(i) == sw[i].orig

\* clear_sw_breakpoint and restore_sw_slot, all under the lock.  The slot
\* is taken before the write, so a failing write loses it.
clearBreakpoint(a) ==
  \/ At(a) = {} /\ UNCHANGED <<sw, text>>
  \/ \E i \in At(a) : sw' = [sw EXCEPT ![i] = Free]
                      /\ text' = [text EXCEPT ![a] = restored(i)]

clearFails(a) ==
  \E i \in At(a) : sw' = [sw EXCEPT ![i] = Free] /\ UNCHANGED text

\* remove_sw_breakpoint
Remove(a) ==
  /\ wpc = "idle"
  /\ clearBreakpoint(a)
  /\ UNCHANGED <<attached, step, running, worker, handler, history>>

RemoveFails(a) ==
  /\ wpc = "idle"
  /\ clearFails(a)
  /\ spoiled' = TRUE
  /\ UNCHANGED <<attached, step, running, worker, handler, program>>

\* write_addrs does not look at the table.  A write that fails has copied
\* the bytes as well, or has changed nothing.
WriteAddrs(a, c) ==
  /\ wpc = "idle"
  /\ text' = [text EXCEPT ![a] = c] /\ program' = [program EXCEPT ![a] = c]
  /\ spoiled' = (spoiled \/ At(a) # {})
  /\ UNCHANGED <<attached, table, running, worker, handler>>

\* Mutant of ClearAll: the loop leaves out the last slot.
ClearAllButLast ==
  /\ wpc \in {"idle", "running"} /\ wpc' = "reset_slots"
  /\ text' = [a \in Addrs |->
       IF At(a) \ {NumSlots} = {} THEN text[a]
       ELSE restored(CHOOSE i \in At(a) \ {NumSlots} : TRUE)]
  /\ sw' = [i \in Slots |-> Free]
  /\ running' = TRUE
  /\ UNCHANGED <<attached, step, op, handler, history>>

\* detach and drop, on request or when the connection ends: clear_all
\* restores every slot, then reset() empties the table.  The writes to some
\* addresses (lost) may fail.
ClearAll ==
  /\ wpc \in {"idle", "running"} /\ wpc' = "reset_slots"
  /\ \E lost \in SUBSET {a \in Addrs : At(a) # {}} :
       /\ text' = [a \in Addrs |->
            IF At(a) = {} \/ a \in lost THEN text[a]
            ELSE restored(CHOOSE i \in At(a) : TRUE)]
       /\ spoiled' = (spoiled \/ lost # {})
  /\ sw' = [i \in Slots |-> Free]
  /\ running' = TRUE
  /\ UNCHANGED <<attached, step, op, handler, program>>

ResetSlots ==
  /\ wpc = "reset_slots" /\ wpc' = "reset_step"
  /\ sw' = [i \in Slots |-> Free]
  /\ UNCHANGED <<attached, step, text, running, op, handler, history>>

ResetStep ==
  /\ wpc = "reset_step" /\ wpc' = "reset_pid"
  /\ step' = None
  /\ UNCHANGED <<attached, sw, text, running, op, handler, history>>

ResetPid ==
  /\ wpc = "reset_pid" /\ wpc' = "off"
  /\ attached' = FALSE
  /\ UNCHANGED <<table, text, running, op, handler, history>>

-----------------------------------------------------------------------------
(***************************************************************************)
(* handle_break in thread t.                                               *)
(***************************************************************************)
goto(t, pc) == hpc' = [hpc EXCEPT ![t] = pc]

Hit(t, a) ==
  /\ hpc[t] = "run" /\ running /\ attached
  /\ text[a] \in Patches
  /\ goto(t, "halt") /\ haddr' = [haddr EXCEPT ![t] = a]
  /\ UNCHANGED <<attached, table, text, running, worker, history>>

HaltForDebug(t) ==
  /\ hpc[t] = "halt"
  /\ running' = FALSE
  /\ goto(t, "is_step")
  /\ UNCHANGED <<attached, table, text, worker, haddr, history>>

\* Not the step: the handler pushes an event and is done.
IsStep(t) ==
  /\ hpc[t] = "is_step"
  /\ goto(t, IF step = haddr[t] THEN "take" ELSE "run")
  /\ haddr' = [haddr EXCEPT ![t] = None]
  /\ UNCHANGED <<attached, table, text, running, worker, history>>

StepTake(t) ==
  /\ hpc[t] = "take"
  /\ step' = None
  /\ goto(t, IF step = None THEN "run" ELSE "clear")
  /\ haddr' = [haddr EXCEPT ![t] = step]
  /\ UNCHANGED <<attached, sw, text, running, worker, history>>

\* The worker is inserting a breakpoint where this handler removes one.
races(t) == wpc \in Setting /\ op.addr = haddr[t]

StepClear(t) ==
  /\ hpc[t] = "clear" /\ goto(t, "run")
  /\ IF attached THEN clearBreakpoint(haddr[t]) ELSE UNCHANGED <<sw, text>>
  /\ spoiled' = (spoiled \/ races(t))
  /\ haddr' = [haddr EXCEPT ![t] = None]
  /\ UNCHANGED <<attached, step, running, worker, program>>

StepClearFails(t) ==
  /\ hpc[t] = "clear" /\ goto(t, "run")
  /\ attached /\ clearFails(haddr[t])
  /\ spoiled' = TRUE
  /\ haddr' = [haddr EXCEPT ![t] = None]
  /\ UNCHANGED <<attached, step, running, worker, program>>

-----------------------------------------------------------------------------
Next ==
  \/ Attach
  \/ \E a \in Addrs, k \in Kinds : Add(a, k) \/ Step(a, k)
  \/ SetClaim \/ SetWrite \/ SetWriteFails \/ SetUndo
  \/ SetStep \/ Continue \/ Resume \/ Stop
  \/ \E a \in Addrs : Remove(a) \/ RemoveFails(a)
  \/ \E a \in Addrs, c \in Code : WriteAddrs(a, c)
  \/ ClearAll \/ ResetSlots \/ ResetStep \/ ResetPid
  \/ \E t \in Threads : \/ \E a \in Addrs : Hit(t, a)
                        \/ HaltForDebug(t) \/ IsStep(t) \/ StepTake(t)
                        \/ StepClear(t) \/ StepClearFails(t)

Spec == Init /\ [][Next]_vars

-----------------------------------------------------------------------------
(***************************************************************************)
(* Properties.                                                             *)
(***************************************************************************)

\* Every variable keeps its type; a slot in use has an address and bytes.
TypeOK ==
  /\ attached \in BOOLEAN /\ running \in BOOLEAN
  /\ sw \in [Slots -> Saved \cup {Free}]
  /\ step \in Addrs \cup {None}
  /\ text \in [Addrs -> Word] /\ program \in [Addrs -> Code]
  /\ wpc \in WorkerPc
  /\ op \in [addr : Addrs \cup {None}, kind : Kinds \cup {None},
             orig : Word \cup {None}, idx : 0 .. NumSlots, stepping : BOOLEAN]
  /\ hpc \in [Threads -> HandlerPc]
  /\ haddr \in [Threads -> Addrs \cup {None}]
  /\ spoiled \in BOOLEAN

\* No address is saved twice: a second copy would save the breakpoint the
\* first one wrote, and restoring both would leave it in the text.
OneSlotPerAddress ==
  \A i, j \in Slots : sw[i].used /\ sw[i].addr = sw[j].addr => i = j

\* The worker has claimed a slot for a and has not yet written the text.
Unwritten(a) == wpc = "write" /\ op.addr = a

\* Until a write fails, gdb overwrites a breakpoint, or a finished step is
\* cleared while its address is being set, the text is the user's program
\* with exactly the saved breakpoints in it, and the saved bytes are the
\* user's: removing them in any order gives the program back.
TextIsProgram ==
  ~spoiled => \A a \in Addrs :
    /\ At(a) = {} => text[a] = program[a]
    /\ \A i \in At(a) : /\ sw[i].orig = program[a]
                        /\ Unwritten(a) \/ text[a] \in Patches

\* After a detach nothing of the debugger is left in the process.
DetachedIsClean == ~spoiled /\ wpc = "off" => text = program
=============================================================================
