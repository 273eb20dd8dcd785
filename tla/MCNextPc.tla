------------------------------ MODULE MCNextPc ------------------------------
(***************************************************************************)
(* NextPc on words of five bits: every condition with every state of the   *)
(* flags, every opcode that can write the pc with every form of operand.   *)
(***************************************************************************)
EXTENDS NextPc, Bitwise

WordAnd(x, y) == x & y
WordOr(x, y)  == x | y
WordXor(x, y) == x ^^ y

Reg(n)  == <<"Reg", n>>
Imm(v)  == <<"Imm32", v>>
Nothing == <<"Nothing">>
Insn(op, cond, thumb, wide, ops) ==
  [opcode |-> op, cond |-> cond, thumb |-> thumb, wide |-> wide,
   ops |-> [k \in 1 .. 3 |-> IF k <= Len(ops) THEN ops[k] ELSE Nothing]]

\* Thumb has conditions on branches only.
Branches ==
  {Insn(op, Conditions[k], FALSE, FALSE, <<<<"BranchOffset", o>>>>) :
     op \in {"B", "BL"}, k \in DOMAIN Conditions, o \in {-3, 5}}
  \cup {Insn("B", Conditions[k], TRUE, w, <<<<"BranchThumbOffset", o>>>>) :
          k \in DOMAIN Conditions, o \in {-3, 5}, w \in BOOLEAN}
  \cup {Insn("BL", "AL", TRUE, TRUE, <<<<"BranchThumbOffset", 4>>>>),
        Insn("BLX", "AL", TRUE, TRUE, <<<<"BranchThumbOffset", 4>>>>),
        Insn("BLX", "AL", FALSE, FALSE, <<<<"BranchOffset", 4>>>>)}

\* Each form in ARM, with and without a condition, and in Thumb.
Modes == {<<"AL", FALSE>>, <<"GT", FALSE>>, <<"AL", TRUE>>}
In(op, ops) == {Insn(op, m[1], m[2], m[2], ops) : m \in Modes}

Registers == UNION {In(op, <<Reg(n)>>) : op \in {"BX", "BXJ", "BLX"}, n \in {0, 15}}

CompareBranches ==
  {Insn(op, "AL", TRUE, FALSE, <<Reg(0), Imm(v)>>) : op \in {"CBZ", "CBNZ"}, v \in {8, 9}}

Alus ==
  UNION {In(op, <<Reg(d), Reg(0), second>>) :
           op \in AluOpcodes \ OneOperand, d \in {1, 15},
           second \in {Reg(1), <<"Imm12", 7>>, <<"RegShift", 1>>}}
  \cup UNION {In(op, <<Reg(d), first>>) :
                op \in OneOperand, d \in {1, 15}, first \in {Reg(0), Imm(7), <<"RegShift", 0>>}}

Loads ==
  UNION {In(op, <<Reg(d), address>>) :
           op \in {"LDR", "LDRT"}, d \in {1, 15},
           address \in {<<"RegDeref", 0>>, <<"PreindexOffset", 0, 4, TRUE>>,
                        <<"PreindexOffset", 0, 4, FALSE>>, <<"PreindexOffset", 15, 8, TRUE>>,
                        <<"PostindexOffset", 0, 4>>, <<"PreindexReg", 0, 1>>}}

Multiples ==
  UNION {In(op, <<<<"RegWBack", 0>>, <<"RegList", list>>>>) :
           op \in Multiple, list \in {{2}, {15}, {2, 15}, {1, 2, 15}}}
  \cup In("POP", <<Nothing, <<"RegList", {2, 15}>>>>)

Tables ==
  {Insn(op, "AL", TRUE, TRUE, ops) :
     op \in {"TBB", "TBH"},
     ops \in {<<<<"PreindexReg", b, 1>>>> : b \in {0, 15}} \cup {<<Reg(0), Reg(1)>>}}

\* Operands that are not expected of the opcode.
Unexpected ==
  UNION {In(op, ops) :
    op \in {"B", "BLX", "BX", "CBZ", "CBNZ", "LDMIA", "POP", "TBB", "TBH", "MOV", "ADD", "LDR"},
    ops \in {<<Imm(1)>>, <<Reg(0), <<"Imm12", 4>>>>, <<Reg(15), Imm(1)>>, <<Reg(15), Nothing>>,
             <<Nothing, <<"RegList", {15}>>>>,
             <<<<"PreindexReg", 0, 1>>, Reg(1)>>, <<<<"BranchOffset", 4>>>>}}

Others == In("NOP", <<>>) \cup In("undefined", <<>>)

AllInsns ==
  Branches \cup Registers \cup CompareBranches \cup Alus \cup Loads \cup Multiples
  \cup Tables \cup Unexpected \cup Others

\* Different addresses hold different words.
Bytes == [n \in {1, 2, 4} |->
            [a \in 0 .. 31 |-> IF a = 28 THEN Unreadable
                               ELSE IF n = 4 THEN (5 * a + 3) % 32 ELSE (3 * a + n) % 8]]
=============================================================================
