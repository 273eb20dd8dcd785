------------------------------- MODULE NextPc -------------------------------
(***************************************************************************)
(* Where a thread that is stepped stops next: next_pc                      *)
(* (arm-next-pc/src/lib.rs), a function of the decoded instruction, the    *)
(* registers and the memory, on words of W bits.  Resume plants its step   *)
(* breakpoint there.                                                       *)
(*                                                                         *)
(* The decoder is a library (yaxpeax_arm); an instruction here is what it  *)
(* returns: opcode, condition, size and operands.  Nothing is assumed of   *)
(* the operands it gives an opcode: those no match has an arm for end in   *)
(* unreachable!().  What a read returns depends on its address and size.   *)
(* Architecture, at the end, is what the processor does with the same      *)
(* instruction.                                                            *)
(***************************************************************************)
EXTENDS Integers, Sequences, FiniteSets

CONSTANTS W,           \* the bits of a word
          Memory,      \* Memory[n][a] is the value of n bytes at a
          Unreadable,  \* ... if they can be read
          Insns,       \* the decoded instructions
          Values,      \* the values of r0 and r1
          Addrs,       \* the addresses of instructions
          BitAnd(_, _), BitOr(_, _), BitXor(_, _)   \* &, | and ^ on words

VARIABLES insn, r, flags, result

vars == <<insn, r, flags, result>>

Modulus == 2 ^ W
Word    == 0 .. Modulus - 1
Bit(x, k) == (x \div 2 ^ k) % 2

ASSUME WAssumption == W \in Nat \ {0}
ASSUME WordAssumption ==
  Values \subseteq Word /\ Addrs \subseteq Word /\ \A a \in Addrs : a % 2 = 0
ASSUME BitwiseAssumption ==
  \A x, y \in Word :
    /\ {BitAnd(x, y), BitOr(x, y), BitXor(x, y)} \subseteq Word
    /\ \A k \in 0 .. W - 1 :
         /\ Bit(BitAnd(x, y), k) = Bit(x, k) * Bit(y, k)
         /\ Bit(BitOr(x, y), k) = (IF Bit(x, k) + Bit(y, k) > 0 THEN 1 ELSE 0)
         /\ Bit(BitXor(x, y), k) = (Bit(x, k) + Bit(y, k)) % 2
Flags   == [n : BOOLEAN, z : BOOLEAN, c : BOOLEAN, v : BOOLEAN]

wrapping_add(a, b) == (a + b) % Modulus
wrapping_sub(a, b) == (a - b) % Modulus

Ok(pc, thumb) == [kind |-> "ok", pc |-> pc, thumb |-> thumb]
MemoryRead    == [kind |-> "MemoryRead"]
DecodeError   == [kind |-> "DecodeError"]
Panic         == [kind |-> "panic"]   \* unreachable!()
Pending       == [kind |-> "pending"]

\* A value that is branched to with its bit 0 choosing the instruction set.
Interwork(v) == Ok(2 * (v \div 2), v % 2 = 1)

\* mem.read_u8, read_u16 and read_u32, whose error is passed on.
read(n, a)        == Memory[n][a]
IfRead(v, target) == IF v = Unreadable THEN MemoryRead ELSE target

\* A branch to the word at a; one to an offset from the pc, from a table.
ReadTarget(a)           == IfRead(read(4, a), Interwork(read(4, a)))
ReadOffset(n, a, thumb) == IfRead(read(n, a), Ok(wrapping_add(r[15], 2 * read(n, a)), thumb))

-----------------------------------------------------------------------------
(***************************************************************************)
(* Conditions and operands.                                                *)
(***************************************************************************)
eval_cond(cond, f) ==
  CASE cond = "EQ" -> f.z
    [] cond = "NE" -> ~f.z
    [] cond = "HS" -> f.c
    [] cond = "LO" -> ~f.c
    [] cond = "MI" -> f.n
    [] cond = "PL" -> ~f.n
    [] cond = "VS" -> f.v
    [] cond = "VC" -> ~f.v
    [] cond = "HI" -> f.c /\ ~f.z
    [] cond = "LS" -> ~f.c \/ f.z
    [] cond = "GE" -> f.n = f.v
    [] cond = "LT" -> f.n # f.v
    [] cond = "GT" -> ~f.z /\ f.n = f.v
    [] cond = "LE" -> f.z \/ f.n # f.v
    [] cond = "AL" -> TRUE

is_pc_destination(operand) == operand = <<"Reg", 15>>

\* value_of, for the operands it has an arm for.
HasValue(operand) == operand[1] \in {"Reg", "Imm12", "Imm32"}
value_of(operand) == IF operand[1] = "Reg" THEN r[operand[2]] ELSE operand[2]

OneOperand == {"MOV", "ADR", "MVN", "RRX"}
Shifts     == {"LSL", "LSR", "ASR", "ROR"}
AluOpcodes == OneOperand \cup Shifts \cup
  {"AND", "EOR", "SUB", "RSB", "ADD", "ADC", "SBC", "RSC", "ORR", "BIC"}

\* Mutant of AluPanics: a shifted second operand has an arm too.
AluPanicsOnFirst(i) == ~HasValue(i.ops[2])

AluPanics(i) ==
  \/ ~HasValue(i.ops[2])
  \/ i.opcode \notin OneOperand /\ ~HasValue(i.ops[3])

\* A signed shift to the right keeps the sign.
AsrWord(x, n) ==
  ((IF x >= Modulus \div 2 THEN x - Modulus ELSE x) \div 2 ^ n) % Modulus

RotateRight(x, n) == (x \div 2 ^ n) + ((x * 2 ^ (W - n)) % Modulus)

alu(op, first, second, carry) ==
  LET shift == second % 256
  IN CASE op \in {"MOV", "ADR"} -> first
       [] op = "MVN" -> Modulus - 1 - first
       [] op = "RRX" -> (first \div 2) + carry * 2 ^ (W - 1)
       [] op = "ADD" -> wrapping_add(first, second)
       [] op = "ADC" -> wrapping_add(wrapping_add(first, second), carry)
       [] op = "SUB" -> wrapping_sub(first, second)
       [] op = "RSB" -> wrapping_sub(second, first)
       [] op = "SBC" -> wrapping_sub(wrapping_sub(first, second), 1 - carry)
       [] op = "RSC" -> wrapping_sub(wrapping_sub(second, first), 1 - carry)
       [] op = "AND" -> BitAnd(first, second)
       [] op = "EOR" -> BitXor(first, second)
       [] op = "ORR" -> BitOr(first, second)
       [] op = "BIC" -> BitAnd(first, Modulus - 1 - second)
       [] op = "LSL" -> IF shift < W THEN (first * 2 ^ shift) % Modulus ELSE 0
       [] op = "LSR" -> IF shift < W THEN first \div 2 ^ shift ELSE 0
       [] op = "ASR" -> IF shift < W THEN AsrWord(first, shift)
                        ELSE IF first >= Modulus \div 2 THEN Modulus - 1 ELSE 0
       [] op = "ROR" -> RotateRight(first, shift % W)

eval_alu(i) ==
  alu(i.opcode, value_of(i.ops[2]), value_of(i.ops[3]), IF flags.c THEN 1 ELSE 0)

\* effective_address, for the operands it has an arm for.
HasAddress(operand) == operand[1] \in {"RegDeref", "PreindexOffset", "PostindexOffset"}
effective_address(operand) ==
  LET base == r[operand[2]]
  IN IF operand[1] # "PreindexOffset" THEN base
     ELSE IF operand[4] THEN wrapping_add(base, operand[3])
     ELSE wrapping_sub(base, operand[3])

-----------------------------------------------------------------------------
(***************************************************************************)
(* next_pc, one operator per group of opcodes.                             *)
(***************************************************************************)
addr(i) == wrapping_sub(r[15], IF i.thumb THEN 4 ELSE 8)

fallthrough(i) ==
  Ok(wrapping_add(addr(i), IF i.thumb /\ ~i.wide THEN 2 ELSE 4), i.thumb)

thumb_branch_target(cond, offset) ==
  wrapping_add(IF cond = "AL" THEN wrapping_add(r[15], 4) ELSE wrapping_sub(r[15], 4),
               2 * offset)

OffsetKinds == {"BranchOffset", "BranchThumbOffset"}

\* B, BL, BLX with an offset: BLX changes the instruction set.
BranchOffset(i) ==
  LET offset == i.ops[1][2]
      arm    == i.ops[1][1] = "BranchOffset"
  IN IF i.opcode = "BLX"
     THEN Ok(wrapping_add(r[15], (IF arm THEN 4 ELSE 2) * offset), arm)
     ELSE IF arm THEN Ok(wrapping_add(r[15], 4 * (offset - 2)), FALSE)
     ELSE Ok(thumb_branch_target(i.cond, offset), TRUE)

BranchReg(i) == Interwork(r[i.ops[1][2]])

Branch(i) ==
  IF i.opcode \in {"B", "BL", "BLX"} /\ i.ops[1][1] \in OffsetKinds THEN BranchOffset(i)
  ELSE IF i.opcode \in {"BLX", "BX", "BXJ"} /\ i.ops[1][1] = "Reg" THEN BranchReg(i)
  ELSE Panic

CompareBranch(i) ==
  IF ~(i.ops[1][1] = "Reg" /\ i.ops[2][1] = "Imm32") THEN Panic
  ELSE IF (r[i.ops[1][2]] = 0) = (i.opcode = "CBZ") THEN Interwork(i.ops[2][2])
  ELSE fallthrough(i)

Alu(i) ==
  IF ~is_pc_destination(i.ops[1]) THEN fallthrough(i)
  ELSE IF AluPanics(i) THEN Panic
  ELSE LET target == eval_alu(i) IN Ok(4 * (target \div 4), i.thumb)

Load(i) ==
  IF ~is_pc_destination(i.ops[1]) THEN fallthrough(i)
  ELSE IF ~HasAddress(i.ops[2]) THEN Panic
  ELSE ReadTarget(effective_address(i.ops[2]))

Multiple == {"LDMIA", "LDMIB", "LDMDA", "LDMDB", "POP"}

\* Mutant of pc_addr: decrementing forms count the whole list.
pc_addr_whole(op, base, before_pc, total_regs) ==
  CASE op \in {"LDMIA", "POP"} -> wrapping_add(base, before_pc * 4)
    [] op = "LDMIB" -> wrapping_add(base, (before_pc + 1) * 4)
    [] op = "LDMDA" -> wrapping_sub(base, (total_regs - 1) * 4)
    [] op = "LDMDB" -> wrapping_sub(base, total_regs * 4)

pc_addr(op, base, before_pc, total_regs) ==
  CASE op \in {"LDMIA", "POP"} -> wrapping_add(base, before_pc * 4)
    [] op = "LDMIB" -> wrapping_add(base, (before_pc + 1) * 4)
    [] op = "LDMDA" -> wrapping_sub(base, (total_regs - 1 - before_pc) * 4)
    [] op = "LDMDB" -> wrapping_sub(base, (total_regs - before_pc) * 4)

\* The base register an operand names; POP need not name one.
NamesBase(i) == i.ops[1][1] \in {"Reg", "RegWBack"}
BaseReg(i)   == IF NamesBase(i) THEN i.ops[1][2] ELSE 13

LoadMultiple(i) ==
  LET list == i.ops[2][2]
  IN IF i.ops[2][1] # "RegList" \/ ~(NamesBase(i) \/ i.opcode = "POP") THEN Panic
     ELSE IF 15 \notin list THEN fallthrough(i)
     ELSE ReadTarget(pc_addr(i.opcode, r[BaseReg(i)],
                             Cardinality(list \ {15}), Cardinality(list)))

\* table_branch_address and TBB, TBH.
TableForms == {<<"Reg", "Reg">>, <<"PreindexReg", "Nothing">>}
TableBase(i)  == r[i.ops[1][2]]
TableIndex(i) == IF i.ops[1][1] = "Reg" THEN r[i.ops[2][2]] ELSE r[i.ops[1][3]]

TableBranch(i) ==
  IF <<i.ops[1][1], i.ops[2][1]>> \notin TableForms THEN Panic
  ELSE IF i.opcode = "TBB"
       THEN ReadOffset(1, wrapping_add(TableBase(i), TableIndex(i)), i.thumb)
       ELSE ReadOffset(2, wrapping_add(TableBase(i), 4 * TableIndex(i)), i.thumb)

Taken(i) ==
  CASE i.opcode \in {"B", "BL", "BLX", "BX", "BXJ"} -> Branch(i)
    [] i.opcode \in {"CBZ", "CBNZ"} -> CompareBranch(i)
    [] i.opcode \in AluOpcodes -> Alu(i)
    [] i.opcode \in {"LDR", "LDRT"} -> Load(i)
    [] i.opcode \in Multiple -> LoadMultiple(i)
    [] i.opcode \in {"TBB", "TBH"} -> TableBranch(i)
    [] OTHER -> fallthrough(i)

next_pc(i) ==
  IF Memory[4][addr(i)] = Unreadable THEN MemoryRead
  ELSE IF i.opcode = "undefined" THEN DecodeError
  ELSE IF ~eval_cond(i.cond, flags) THEN fallthrough(i)
  ELSE Taken(i)

-----------------------------------------------------------------------------
\* resume() adds 4 or 8 to the pc of the thread, as the hardware does.
Init ==
  /\ insn \in Insns
  /\ flags \in Flags
  /\ \E a \in Addrs, v0 \in Values, v1 \in Values :
       /\ insn.thumb \/ a % 4 = 0
       /\ r = [n \in 0 .. 15 |->
                 CASE n = 0 -> v0 [] n = 1 -> v1
                   [] n = 15 -> wrapping_add(a, IF insn.thumb THEN 4 ELSE 8)
                   [] OTHER -> (4 * n) % Modulus]
  /\ result = Pending

Step == result = Pending /\ result' = next_pc(insn) /\ UNCHANGED <<insn, r, flags>>

Spec == Init /\ [][Step]_vars
-----------------------------------------------------------------------------
(***************************************************************************)
(* What the processor does, from the architecture's own definitions: a     *)
(* condition is a flag test and its inverse, arithmetic is an addition     *)
(* with carry, a shift moves bits, registers are loaded from the lowest    *)
(* address up.                                                             *)
(***************************************************************************)
Conditions == <<"EQ", "NE", "HS", "LO", "MI", "PL", "VS", "VC",
                "HI", "LS", "GE", "LT", "GT", "LE", "AL">>

ConditionPassed(cond, f) ==
  LET number == (CHOOSE k \in DOMAIN Conditions : Conditions[k] = cond) - 1
      base   == CASE number \div 2 = 0 -> f.z
                  [] number \div 2 = 1 -> f.c
                  [] number \div 2 = 2 -> f.n
                  [] number \div 2 = 3 -> f.v
                  [] number \div 2 = 4 -> f.c /\ ~f.z
                  [] number \div 2 = 5 -> f.n = f.v
                  [] number \div 2 = 6 -> f.n = f.v /\ ~f.z
                  [] OTHER -> TRUE
  IN base = (number % 2 = 0)

(***************************************************************************)
(* What the decoder returns, as far as next_pc looks at it.                *)
(***************************************************************************)
RegNumbers == 0 .. 15
Operand ==
  {<<"Nothing">>}
  \cup ({"Reg", "RegWBack", "RegShift", "RegDeref"} \X RegNumbers)
  \cup ({"Imm12", "Imm32"} \X Word)
  \cup ({"RegList"} \X SUBSET RegNumbers)
  \cup (OffsetKinds \X Int)
  \cup ({"PreindexOffset"} \X RegNumbers \X Word \X BOOLEAN)
  \cup ({"PostindexOffset"} \X RegNumbers \X Word)
  \cup ({"PreindexReg"} \X RegNumbers \X RegNumbers)

\* The fourth operand is never looked at.
WellFormed(i) ==
  /\ i.cond \in {Conditions[k] : k \in DOMAIN Conditions} /\ i.thumb \in BOOLEAN
  /\ i.ops \in [1 .. 3 -> Operand]

ASSUME InsnsAssumption == \A i \in Insns : WellFormed(i)

AddWithCarry(x, y, c) == (x + y + c) % Modulus
NOT(x) == Modulus - 1 - x

FromBits(bit(_)) == CHOOSE x \in Word : \A k \in 0 .. W - 1 : Bit(x, k) = bit(k)

AluResult(op, x, y, c) ==
  LET AndBit(k) == Bit(x, k) * Bit(y, k)
      BicBit(k) == Bit(x, k) * (1 - Bit(y, k))
      OrBit(k)  == IF Bit(x, k) + Bit(y, k) > 0 THEN 1 ELSE 0
      EorBit(k) == (Bit(x, k) + Bit(y, k)) % 2
      LslBit(k) == IF k >= y THEN Bit(x, k - y) ELSE 0
      LsrBit(k) == IF k + y < W THEN Bit(x, k + y) ELSE 0
      AsrBit(k) == Bit(x, IF k + y < W THEN k + y ELSE W - 1)
      RorBit(k) == Bit(x, (k + y) % W)
      RrxBit(k) == IF k = W - 1 THEN c ELSE Bit(x, k + 1)
  IN CASE op \in {"MOV", "ADR"} -> x
       [] op = "MVN" -> NOT(x)
       [] op = "ADD" -> AddWithCarry(x, y, 0)
       [] op = "ADC" -> AddWithCarry(x, y, c)
       [] op = "SUB" -> AddWithCarry(x, NOT(y), 1)
       [] op = "SBC" -> AddWithCarry(x, NOT(y), c)
       [] op = "RSB" -> AddWithCarry(NOT(x), y, 1)
       [] op = "RSC" -> AddWithCarry(NOT(x), y, c)
       [] op = "AND" -> FromBits(AndBit)
       [] op = "BIC" -> FromBits(BicBit)
       [] op = "ORR" -> FromBits(OrBit)
       [] op = "EOR" -> FromBits(EorBit)
       [] op = "LSL" -> FromBits(LslBit)
       [] op = "LSR" -> FromBits(LsrBit)
       [] op = "ASR" -> FromBits(AsrBit)
       [] op = "ROR" -> FromBits(RorBit)
       [] op = "RRX" -> FromBits(RrxBit)

\* The second operand is not there for the opcodes with one, and a shift is by
\* its lowest byte.
AluTarget(i) ==
  AluResult(i.opcode, value_of(i.ops[2]),
            CASE i.opcode \in OneOperand -> 0
              [] i.opcode \in Shifts -> value_of(i.ops[3]) % 256
              [] OTHER -> value_of(i.ops[3]),
            IF flags.c THEN 1 ELSE 0)

\* The address the new pc is loaded from; a literal is relative to the
\* word the pc is in.
LoadAddress(op) ==
  LET base == IF op[2] = 15 THEN 4 * (r[15] \div 4) ELSE r[op[2]]
  IN CASE op[1] \in {"RegDeref", "PostindexOffset"} -> base
       [] op[1] = "PreindexOffset" -> (base + (IF op[4] THEN op[3] ELSE -op[3])) % Modulus

\* The pc has the highest number and is loaded from the highest address.
LoadMultipleAddress(i) ==
  LET n     == Cardinality(i.ops[2][2])
      base  == r[BaseReg(i)]
      start == CASE i.opcode \in {"LDMIA", "POP"} -> base
                 [] i.opcode = "LDMIB" -> base + 4
                 [] i.opcode = "LDMDA" -> base - 4 * n + 4
                 [] i.opcode = "LDMDB" -> base - 4 * n
  IN (start + 4 * (n - 1)) % Modulus

WritesPc(i) ==
  \/ i.opcode \in Multiple /\ 15 \in i.ops[2][2]
  \/ i.opcode \in AluOpcodes \cup {"LDR", "LDRT"} /\ i.ops[1] = <<"Reg", 15>>
  \/ i.opcode \in {"B", "BL", "BLX", "BX", "BXJ", "TBB", "TBH"}
  \/ i.opcode = "CBZ" /\ r[i.ops[1][2]] = 0
  \/ i.opcode = "CBNZ" /\ r[i.ops[1][2]] # 0

Length(i) == IF i.thumb /\ ~i.wide THEN 2 ELSE 4

\* Not for B, BL and BLX with an offset, which the decoder returns with a bias
\* of its own.  The immediate of CBZ and CBNZ is an offset: the decoder is
\* given the bytes of the instruction and not its address.
Architecture(i) ==
  LET Read(n, a, target) == IF Memory[n][a] = Unreadable THEN MemoryRead ELSE target
      Word4(a) == Read(4, a, Interwork(Memory[4][a]))
      Jump(n, a) == Read(n, a, Ok((r[15] + 2 * Memory[n][a]) % Modulus, i.thumb))
  IN IF ~ConditionPassed(i.cond, flags) \/ ~WritesPc(i)
     THEN Ok((addr(i) + Length(i)) % Modulus, i.thumb)
     ELSE CASE i.opcode \in {"BX", "BXJ", "BLX"} -> Interwork(r[i.ops[1][2]])
            [] i.opcode \in {"CBZ", "CBNZ"} -> Ok((r[15] + i.ops[2][2]) % Modulus, TRUE)
            [] i.opcode \in AluOpcodes ->
                 IF i.thumb THEN Ok(2 * (AluTarget(i) \div 2), TRUE) ELSE Interwork(AluTarget(i))
            [] i.opcode \in {"LDR", "LDRT"} -> Word4(LoadAddress(i.ops[2]))
            [] i.opcode \in Multiple -> Word4(LoadMultipleAddress(i))
            [] i.opcode = "TBB" -> Jump(1, (TableBase(i) + TableIndex(i)) % Modulus)
            [] i.opcode = "TBH" -> Jump(2, (TableBase(i) + 2 * TableIndex(i)) % Modulus)

-----------------------------------------------------------------------------
(***************************************************************************)
(* Properties.                                                             *)
(***************************************************************************)

\* Branches whose target is not compared, and those of them whose offset is
\* one of the instruction set they are in.
OffsetBranch(i) == i.opcode \in {"B", "BL", "BLX"} /\ i.ops[1][1] \in OffsetKinds
OwnOffset(i)    == i.ops[1][1] = (IF i.thumb THEN "BranchThumbOffset" ELSE "BranchOffset")

(***************************************************************************)
(* Where next_pc and the processor part: TBH scales its index by four, not *)
(* two; a Thumb literal is taken relative to an unaligned pc; an ALU       *)
(* result loses bit 1 and never changes the instruction set; a CBZ or CBNZ *)
(* that is taken goes to its immediate and not to an offset from the pc,   *)
(* and to ARM if the immediate is even.                                    *)
(***************************************************************************)
TableDeviates(i)   == i.opcode = "TBH" /\ TableIndex(i) # 0
LiteralDeviates(i) == i.opcode \in {"LDR", "LDRT"} /\ i.ops[2][2] = 15 /\ r[15] % 4 # 0
ResultDeviates(i)  == i.opcode \in AluOpcodes /\ AluTarget(i) % 4 > (IF i.thumb THEN 1 ELSE 0)
CompareDeviates(i) == i.opcode \in {"CBZ", "CBNZ"}

\* Of an instruction that writes the pc.
Deviates(i) ==
  TableDeviates(i) \/ LiteralDeviates(i) \/ ResultDeviates(i) \/ CompareDeviates(i)

Decoded == result \notin {Pending, DecodeError} /\ Memory[4][addr(insn)] # Unreadable

\* A step breakpoint is where the processor goes next, in the instruction
\* set it has there, or the memory error is the one the processor would
\* meet, with two exceptions.  Where the four deviations apply it need not be
\* (and for an ALU result and CBZ, CBNZ never is); the target of a taken B,
\* BL or BLX with an offset is not compared, only its instruction set.
StepsToNext ==
  Decoded /\ result # Panic =>
    IF ~ConditionPassed(insn.cond, flags) \/ ~WritesPc(insn) THEN result = Architecture(insn)
    ELSE IF OffsetBranch(insn)
         THEN OwnOffset(insn) => result.thumb = (insn.thumb # (insn.opcode = "BLX"))
    ELSE /\ ~Deviates(insn) => result = Architecture(insn)
         /\ ResultDeviates(insn) \/ CompareDeviates(insn) => result # Architecture(insn)

(***************************************************************************)
(* The operands each opcode is expected with.  A shifted register for an   *)
(* ALU operation and a register offset for a load are among them.          *)
(***************************************************************************)
Expected(i) ==
  LET kind(k) == i.ops[k][1]
      toPc    == is_pc_destination(i.ops[1])
  IN /\ i.opcode \in {"B", "BL"} => kind(1) \in OffsetKinds
     /\ i.opcode = "BLX" => kind(1) \in OffsetKinds \cup {"Reg"}
     /\ i.opcode \in {"BX", "BXJ"} => kind(1) = "Reg"
     /\ i.opcode \in {"CBZ", "CBNZ"} => kind(1) = "Reg" /\ kind(2) = "Imm32"
     /\ i.opcode \in AluOpcodes /\ toPc =>
          kind(2) \in {"Reg", "Imm12", "Imm32", "RegShift"}
     /\ i.opcode \in AluOpcodes \ OneOperand /\ toPc =>
          kind(3) \in {"Reg", "Imm12", "Imm32", "RegShift"}
     /\ i.opcode \in {"LDR", "LDRT"} /\ toPc =>
          kind(2) \in {"RegDeref", "PreindexOffset", "PostindexOffset", "PreindexReg"}
     /\ i.opcode \in Multiple => kind(2) = "RegList"
     /\ i.opcode \in Multiple \ {"POP"} => kind(1) \in {"Reg", "RegWBack"}
     /\ i.opcode \in {"TBB", "TBH"} => <<kind(1), kind(2)>> \in TableForms

ShiftsToPc(i) ==
  /\ is_pc_destination(i.ops[1])
  /\ \/ i.opcode \in AluOpcodes /\ i.ops[2][1] = "RegShift"
     \/ i.opcode \in AluOpcodes \ OneOperand /\ i.ops[3][1] = "RegShift"
     \/ i.opcode \in {"LDR", "LDRT"} /\ i.ops[2][1] = "PreindexReg"

\* The worker panics in unreachable!() for two forms that the instruction set
\* has, an ALU operation on the pc with a shifted register and a load of the pc
\* with a register offset, and for operands that are not expected of the
\* opcode; it depends on nothing else but the condition.
PanicsOnShiftedOnly ==
  Decoded =>
    (result = Panic <=> /\ ConditionPassed(insn.cond, flags)
                        /\ ShiftsToPc(insn) \/ ~Expected(insn))
=============================================================================
