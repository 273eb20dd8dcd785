----------------------------- MODULE Registers ------------------------------
(***************************************************************************)
(* gdb's view of a thread's registers: their order and sizes on the wire   *)
(* (gdb/armv7.rs), and the packets g, G, p and P (gdb/multi_thread.rs) on  *)
(* the two kernel objects they come from, the core registers and the VFP   *)
(* registers, each of which has calls that fail on their own.              *)
(*                                                                         *)
(* A word stands for four bytes.  The kernel holds two sets of core        *)
(* registers of a thread; the target reads the first if its cpsr says user *)
(* mode, else the second.  Three things the kernel decides and src/ does   *)
(* not show are left open: which of the sets a write goes to (any, both or *)
(* none), which values of cpsr are in user mode, and what the kernel       *)
(* reports of the D registers it was given, which src/readme.md:17 says is *)
(* not right.                                                              *)
(***************************************************************************)
EXTENDS Naturals, Sequences, FiniteSetsExt, TargetSession

CONSTANTS Word,          \* the values of a word
          Written,       \* the ones gdb writes
          UserMode,      \* the values of cpsr with 0x10 in the low five bits
          NumGpr, NumD,  \* general purpose registers, D registers
          ReportedVfp,   \* what the kernel reports of a VFP state
          Placeholder,   \* 0x7ff8dead7f80dead, for a thread without VFP state
          MaxWrites      \* bound on the registers packets that write

ASSUME PlaceholderAssumption == Placeholder \in Word \X Word
ASSUME WrittenAssumption == Written \subseteq Word
ASSUME NumAssumption == NumGpr \in Nat /\ NumD \in Nat

VARIABLES
  entries,   \* the core registers of the thread, as the kernel has them
  vfp,       \* its D registers, if it has any VFP state
  hasVfp,
  reply,     \* the last packet, and how it was answered
  panicked,  \* the worker has panicked
  writes

regVars == <<entries, vfp, hasVfp, reply, panicked, writes>>

Gpr == 0 .. NumGpr - 1
Dpr == 0 .. NumD - 1

Sets == {0, 1}
Core == [r : [Gpr -> Word], sp : Word, lr : Word, pc : Word, cpsr : Word, fpscr : Word]
VfpState == [Dpr -> Word \X Word]

ASSUME ReportedAssumption == ReportedVfp \in [VfpState -> VfpState]

-----------------------------------------------------------------------------
(***************************************************************************)
(* Register numbers, as the target description lists them.                 *)
(***************************************************************************)
RawIds == 0 .. NumGpr + NumD + 4

\* Mutant of from_raw_id: lr and pc have each other's number.
from_raw_id_shifted(id) ==
  CASE id \in Gpr -> <<"gpr", id>>
    [] id = NumGpr -> <<"sp", 0>>
    [] id = NumGpr + 1 -> <<"pc", 0>>
    [] id = NumGpr + 2 -> <<"lr", 0>>
    [] id = NumGpr + 3 -> <<"cpsr", 0>>
    [] id \in (NumGpr + 4) .. (NumGpr + NumD + 3) -> <<"dpr", id - NumGpr - 4>>
    [] OTHER -> <<"fpscr", 0>>

from_raw_id(id) ==
  CASE id \in Gpr -> <<"gpr", id>>
    [] id = NumGpr -> <<"sp", 0>>
    [] id = NumGpr + 1 -> <<"lr", 0>>
    [] id = NumGpr + 2 -> <<"pc", 0>>
    [] id = NumGpr + 3 -> <<"cpsr", 0>>
    [] id \in (NumGpr + 4) .. (NumGpr + NumD + 3) -> <<"dpr", id - NumGpr - 4>>
    [] OTHER -> <<"fpscr", 0>>

\* The size of a register in words.
size(id) == IF from_raw_id(id)[1] = "dpr" THEN 2 ELSE 1

EXPECTED_LEN == NumGpr + 4 + 2 * NumD + 1

\* The whole set on the wire; and back, for data of the expected length.
gdb_serialize(regs, d) ==
  [i \in 1 .. NumGpr |-> regs.r[i - 1]]
  \o <<regs.sp, regs.lr, regs.pc, regs.cpsr>>
  \o [i \in 1 .. 2 * NumD |-> d[(i - 1) \div 2][1 + ((i - 1) % 2)]]
  \o <<regs.fpscr>>

\* Mutant of deserialize_core: fpscr is taken from in front of the D registers.
deserialize_core_early(data) ==
  [r |-> [n \in Gpr |-> data[n + 1]],
   sp |-> data[NumGpr + 1], lr |-> data[NumGpr + 2], pc |-> data[NumGpr + 3],
   cpsr |-> data[NumGpr + 4], fpscr |-> data[NumGpr + 5]]

deserialize_core(data) ==
  [r |-> [n \in Gpr |-> data[n + 1]],
   sp |-> data[NumGpr + 1], lr |-> data[NumGpr + 2], pc |-> data[NumGpr + 3],
   cpsr |-> data[NumGpr + 4], fpscr |-> data[NumGpr + 2 * NumD + 5]]

deserialize_d(data) ==
  [n \in Dpr |-> <<data[NumGpr + 2 * n + 5], data[NumGpr + 2 * n + 6]>>]

-----------------------------------------------------------------------------
RegInit ==
  /\ entries \in [Sets -> Core] /\ vfp \in VfpState /\ hasVfp \in BOOLEAN
  /\ reply = [op |-> "none"] /\ panicked = FALSE /\ writes = 0

\* The D registers as they are read: error 0x80020008 leaves the placeholder.
readD == IF hasVfp THEN ReportedVfp[vfp] ELSE [n \in Dpr |-> Placeholder]

\* The set that is read, and its registers.
Current == IF entries[0].cpsr \in UserMode THEN 0 ELSE 1
th_regs == entries[Current]

\* What a g packet answers now, and what it would if it read set s.
ViewOf(s) == gdb_serialize(entries[s], readD)
View == gdb_serialize(th_regs, readD)

Answer(packet) == reply' = packet

read_registers ==
  /\ ~panicked
  /\ \/ session /\ Answer([op |-> "g", ok |-> TRUE, data |-> View])
     \/ Answer([op |-> "g", ok |-> FALSE])
  /\ UNCHANGED <<session, entries, vfp, hasVfp, panicked, writes>>

\* Without a session the code answers Ok with no bytes, which is no value.
read_register(id) ==
  LET reg   == from_raw_id(id)
      value == CASE reg[1] = "gpr"   -> <<th_regs.r[reg[2]]>>
                 [] reg[1] = "sp"    -> <<th_regs.sp>>
                 [] reg[1] = "lr"    -> <<th_regs.lr>>
                 [] reg[1] = "pc"    -> <<th_regs.pc>>
                 [] reg[1] = "cpsr"  -> <<th_regs.cpsr>>
                 [] reg[1] = "fpscr" -> <<th_regs.fpscr>>
                 [] reg[1] = "dpr"   -> readD[reg[2]]
  IN /\ ~panicked
     /\ \/ session /\ Answer([op |-> "p", ok |-> TRUE, id |-> id, data |-> value])
        \/ Answer([op |-> "p", ok |-> FALSE])
     /\ UNCHANGED <<session, entries, vfp, hasVfp, panicked, writes>>

\* The kernel takes core registers: some of its sets become those of new.
SetRegisters(new, sets) ==
  entries' = [s \in Sets |-> IF s \in sets THEN new[s] ELSE entries[s]]

Write == ~panicked /\ writes < MaxWrites /\ writes' = writes + 1

\* Mutant of write_registers: the VFP registers are written first.
write_registers_vfp_first(data) ==
  /\ Write
  /\ \/ /\ Answer([op |-> "G", ok |-> FALSE, data |-> data])
        /\ UNCHANGED <<entries, vfp, hasVfp>>
     \/ /\ Len(data) = EXPECTED_LEN
        /\ vfp' = deserialize_d(data) /\ hasVfp' = TRUE
        /\ \/ /\ Answer([op |-> "G", ok |-> TRUE, data |-> data, sets |-> Sets])
              /\ SetRegisters([s \in Sets |-> deserialize_core(data)], Sets)
           \/ /\ Answer([op |-> "G", ok |-> FALSE, data |-> data])
              /\ UNCHANGED entries
  /\ UNCHANGED <<session, panicked>>

(***************************************************************************)
(* G: the length is wrong or the first call fails; or the core registers   *)
(* are set and the second call fails; or both succeed.  Neither G nor P    *)
(* asks for a session: the thread is the one gdb named before.             *)
(***************************************************************************)
write_registers(data) ==
  /\ Write
  /\ \/ /\ Answer([op |-> "G", ok |-> FALSE, data |-> data])
        /\ UNCHANGED <<entries, vfp, hasVfp>>
     \/ /\ Len(data) = EXPECTED_LEN
        /\ \E sets \in SUBSET Sets :
             /\ SetRegisters([s \in Sets |-> deserialize_core(data)], sets)
             /\ \/ /\ Answer([op |-> "G", ok |-> TRUE, data |-> data, sets |-> sets])
                   /\ vfp' = deserialize_d(data) /\ hasVfp' = TRUE
                \/ /\ Answer([op |-> "G", ok |-> FALSE, data |-> data])
                   /\ UNCHANGED <<vfp, hasVfp>>
  /\ UNCHANGED <<session, panicked>>

\* What ksceKernelSetThreadCpuRegisters with the mask of one register makes
\* of a set.
set_masked(regs, reg, w) ==
  CASE reg[1] = "gpr"   -> [regs EXCEPT !.r[reg[2]] = w]
    [] reg[1] = "sp"    -> [regs EXCEPT !.sp = w]
    [] reg[1] = "lr"    -> [regs EXCEPT !.lr = w]
    [] reg[1] = "pc"    -> [regs EXCEPT !.pc = w]
    [] reg[1] = "cpsr"  -> [regs EXCEPT !.cpsr = w]
    [] reg[1] = "fpscr" -> [regs EXCEPT !.fpscr = w]

write_register(id, w) ==
  /\ size(id) = 1
  /\ Write
  /\ \/ \E sets \in SUBSET Sets :
          /\ SetRegisters([s \in Sets |-> set_masked(entries[s], from_raw_id(id), w)], sets)
          /\ Answer([op |-> "P", ok |-> TRUE, id |-> id, data |-> <<w>>, sets |-> sets])
     \/ /\ Answer([op |-> "P", ok |-> FALSE, id |-> id, data |-> <<w>>])
        /\ UNCHANGED entries
  /\ UNCHANGED <<session, vfp, hasVfp, panicked>>

\* P of a D register: its eight bytes do not convert to a u32, and the
\* unwrap() panics before the register is refused.
write_register_panics(id) ==
  /\ size(id) = 2
  /\ Write
  /\ panicked' = TRUE
  /\ UNCHANGED <<session, entries, vfp, hasVfp, reply>>

\* gdb writes back what it has read, with at most one word changed, or with
\* one word less.
Edited(data) ==
  {data, SubSeq(data, 1, Len(data) - 1)}
  \cup {[data EXCEPT ![i] = w] : i \in DOMAIN data, w \in Written}

RegNext ==
  \/ read_registers
  \/ \E id \in RawIds : read_register(id) \/ write_register_panics(id)
  \/ \E id \in RawIds, w \in Written : write_register(id, w)
  \/ /\ reply.op = "g" /\ reply.ok
     /\ \E data \in Edited(reply.data) : write_registers(data)

-----------------------------------------------------------------------------
(***************************************************************************)
(* Properties.                                                             *)
(***************************************************************************)

\* Where gdb finds a register in the answer to g, by the sizes it was told.
Offset(id) == MapThenSumSet(size, 0 .. id - 1)
Slice(data, id) == SubSeq(data, Offset(id) + 1, Offset(id) + size(id))

\* p answers exactly the bytes that g has at the register's place: the
\* numbers, the sizes and the order of the three tables agree.
SingleReadIsSlice ==
  reply.op = "p" /\ reply.ok => reply.data = Slice(View, reply.id)

\* The core registers that gdb wrote and was told are written are those it
\* reads afterwards, if the kernel put them in the set that is then read: gdb
\* may have changed that by the cpsr it wrote.  Nothing is said of the D
\* registers, where what is read is up to the kernel.
WriteReadsBack ==
  reply.op \in {"G", "P"} /\ reply.ok /\ Current \in reply.sets =>
    /\ reply.op = "G" =>
         \A id \in RawIds : size(id) = 1 => Slice(View, id) = Slice(reply.data, id)
    /\ reply.op = "P" => Slice(View, reply.id) = reply.data

\* P changes no register but its own, in either set, and none if it is
\* refused.  A refused G leaves the VFP registers alone, but may have written
\* the core registers.
WritesAreLocal ==
  [][/\ reply'.op = "P" =>
          \A s \in Sets, id \in RawIds :
            Slice(ViewOf(s)', id) # Slice(ViewOf(s), id) => id = reply'.id /\ reply'.ok
     /\ reply'.op = "G" /\ ~reply'.ok =>
          /\ UNCHANGED <<vfp, hasVfp>>
          /\ \A s \in Sets : entries'[s] # entries[s] =>
                              entries'[s] = deserialize_core(reply'.data)]_regVars
=============================================================================
