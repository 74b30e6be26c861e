-------------------------- MODULE InstructionBits --------------------------
(***************************************************************************)
(* The 32 bits of an instruction: the constructors that build them         *)
(* (src/sim/simlib/instructions.hpp), the emitter that builds them for     *)
(* the assembler (src/sim/aslib/emitter.cpp), and the decoder that reads   *)
(* them (src/src/decoder.sv).  A word, and a field of one, is the set of   *)
(* the positions of its 1 bits, so that a setter, which ORs a shifted      *)
(* value into the word, is a union, and two setters may overlap as in the  *)
(* code.                                                                   *)
(*                                                                         *)
(* An instruction to encode is a record of its mnemonic, whether it has    *)
(* the prefix "s.", register numbers and an immediate, as the C++ code     *)
(* has them: not yet cut or extended to the width of a field.              *)
(***************************************************************************)
EXTENDS Isa, Integers, FiniteSetsExt

ASSUME BitsAssumption == WIDTH = 32 /\ NUM_REGISTERS = 32

BitPositions == 0 .. 31
Bits(n) == {i \in 0 .. 30 : Bit(n, i)}
Field(w, lo, hi) == {i - lo : i \in w \intersect lo .. hi}
Place(f, lo) == {i + lo : i \in f}
Number(f) ==
    LET sum[k \in 0 .. 31] ==
            IF k = 0 THEN 0 ELSE sum[k - 1] + (IF k - 1 \in f THEN 2^(k - 1) ELSE 0)
    IN  sum[31]
-----------------------------------------------------------------------------
(* Mnemonics and what determines an instruction: opcode, funct3, funct7.   *)

LoadNames == {"LB", "LH", "LW"}
StoreNames == {"SB", "SH", "SW"}
UpperNames == {"LUI", "AUIPC"}
ShiftNames == {"SLLI", "SRLI", "SRAI"}
Names == AluOps \union LoadNames \union StoreNames \union UpperNames
            \union VectorScalarOps \union {"HALT"}

Opcode(name) ==
    CASE name = "LUI" -> \b0110111
      [] name = "AUIPC" -> \b0010111
      [] name \in ImmediateOps -> \b0010011
      [] name \in RegisterOps -> \b0110011
      [] name \in LoadNames -> \b0000011
      [] name \in StoreNames -> \b0100011
      [] name = "JAL" -> \b1101111
      [] name = "JALR" -> \b1100111
      [] name \in BranchOps -> \b1100011
      [] name = "HALT" -> \b1111111
      [] name = "SX_SLT" -> \b1111110
      [] name = "SX_SLTI" -> \b1111101

Funct3(name) ==
    CASE name \in {"SLLI", "SLL", "LH", "SH", "BNE"} -> 1
      [] name \in {"SLTI", "SLT", "LW", "SW", "SX_SLT", "SX_SLTI"} -> 2
      [] name \in {"XORI", "XOR", "BLT"} -> 4
      [] name \in {"SRLI", "SRAI", "SRL", "SRA", "BGE"} -> 5
      [] name \in {"ORI", "OR"} -> 6
      [] name \in {"ANDI", "AND"} -> 7
      [] OTHER -> 0

Funct7(name) == IF name \in {"SRAI", "SUB", "SRA"} THEN \b0100000 ELSE 0

Determinant(name) ==
    [opcode |-> Bits(Opcode(name)), funct3 |-> Bits(Funct3(name)), funct7 |-> Bits(Funct7(name))]
-----------------------------------------------------------------------------
(* The constructors.                                                       *)

\* The create_*_instruction function that the mnemonic's constructor calls.
Constructor(name) ==
    CASE name \in UpperNames -> "U"
      [] name \in ShiftNames -> "SHIFT"
      [] name \in RegisterOps \union {"SX_SLT"} -> "R"
      [] name \in StoreNames -> "S"
      [] name \in BranchOps -> "B"
      [] name = "JAL" -> "J"
      [] name = "HALT" -> "NONE"
      [] OTHER -> "I"

\* The one the emitter calls: by the kind of the operands, so that a shift
\* is built as any other instruction with an immediate, and HALT with the
\* first kind of operands and all of them 0.
EmitterForm(name) ==
    IF name \in ShiftNames \union {"HALT"} THEN "I" ELSE Constructor(name)

\* The immediates that the assertions of a form let through are below this.
ImmediateLimit_OffByOne(form) ==
    CASE form = "U" -> 2^20 + 1
      [] form = "J" -> 2^21 + 1
      [] form = "SHIFT" -> 33
      [] form \in {"I", "S"} -> 2^12 + 1

ImmediateLimit(form) ==
    CASE form = "U" -> 2^20
      [] form = "J" -> 2^21
      [] form = "SHIFT" -> 32
      [] form \in {"I", "S"} -> 2^12

\* validate_register and the assertions.  A negative immediate is a huge
\* IData.  The stub for branches asserts nothing.
Accepts_AnyRegister(form, i) ==
    form \in {"B", "R", "NONE"} \/ i.imm \in 0 .. ImmediateLimit(form) - 1

Accepts(form, i) ==
    \/ form = "B"
    \/ /\ {i.rd, i.rs1, i.rs2} \subseteq Registers
       /\ form \in {"R", "NONE"} \/ i.imm \in 0 .. ImmediateLimit(form) - 1

\* set_imm21 scatters the bits of a jump's offset, and drops bit 0.
Imm21_Shifted(imm) ==
    (IF 20 \in imm THEN {31} ELSE {}) \union {k \in 21 .. 30 : k - 20 \in imm}
        \union (IF 12 \in imm THEN {20} ELSE {}) \union (imm \intersect 12 .. 19)

Imm21(imm) ==
    (IF 20 \in imm THEN {31} ELSE {}) \union {k \in 21 .. 30 : k - 20 \in imm}
        \union (IF 11 \in imm THEN {20} ELSE {}) \union (imm \intersect 12 .. 19)

\* create_utype_instruction and its siblings.  create_btype_instruction is a
\* stub that returns an empty word.
Build(form, i) ==
    LET d == Determinant(i.name)
        imm == Bits(i.imm)
        rd == Place(Bits(i.rd), 7)
        rs1 == Place(Bits(i.rs1), 15)
        rs2 == Place(Bits(i.rs2), 20)
        funct3 == Place(d.funct3, 12)
        funct7 == Place(d.funct7, 25)
    IN  CASE form = "B" -> {}
          [] form = "NONE" -> d.opcode
          [] form = "U" -> d.opcode \union rd \union Place(imm, 12)
          [] form = "J" -> d.opcode \union rd \union Imm21(imm)
          [] form = "S" -> d.opcode \union funct3 \union rs1 \union rs2 \union Place(imm, 20)
          [] form = "R" -> d.opcode \union funct3 \union funct7 \union rd \union rs1 \union rs2
          [] form = "I" -> d.opcode \union funct3 \union rd \union rs1 \union Place(imm, 20)
          [] form = "SHIFT" ->
                d.opcode \union funct3 \union funct7 \union rd \union rs1 \union Place(imm, 20)

\* make_scalar and make_vector.
MakeScalar(w) == w \union {6}
MakeVector(w) == w \ {6}

-----------------------------------------------------------------------------
(* decoder.sv.                                                             *)

\* sign_extend, sign_extend_13 and sign_extend_21; the immediate has n bits.
SignExtend(f, n) == f \union (IF n - 1 \in f THEN n .. 31 ELSE {})

ImmI(w) == SignExtend(Field(w, 20, 31), 12)
ImmS(w) == SignExtend(Field(w, 7, 11) \union Place(Field(w, 25, 31), 5), 12)
ImmB(w) == SignExtend(Place(Field(w, 8, 11), 1) \union Place(Field(w, 25, 30), 5)
                         \union Place(Field(w, 7, 7), 11) \union Place(Field(w, 31, 31), 12), 13)
ImmJ(w) == SignExtend(Place(Field(w, 21, 30), 1) \union Place(Field(w, 20, 20), 11)
                         \union (w \intersect 12 .. 19) \union Place(Field(w, 31, 31), 20), 21)
ImmU(w) == w \intersect 12 .. 31

\* The operation that funct3 and funct7 select.  What selects none is
\* reported with $error, and the register keeps its default.
AluOperation(names, funct3, funct7) ==
    LET readsFunct7 == \/ names = RegisterOps /\ funct3 \in {0, 5}
                       \/ names = ImmediateOps /\ funct3 = 5
        selected == {n \in names : /\ Funct3(n) = funct3
                                   /\ readsFunct7 => Funct7(n) = funct7}
    IN  IF selected = {} THEN "ADDI" ELSE CHOOSE n \in selected : TRUE

\* The class of a word: the one-form opcodes are compared in full, and come
\* before the others, which are compared without bit 6.
ClassOf(w) ==
    LET is(name) == Field(w, 0, 6) = Bits(Opcode(name))
        isForm(name) == Field(w, 0, 5) = Bits(Opcode(name))
    IN  CASE is("HALT") -> "HALT"
          [] is("SX_SLT") -> "SX_SLT"
          [] is("SX_SLTI") -> "SX_SLTI"
          [] is("BEQ") -> "B"
          [] is("JAL") -> "JAL"
          [] is("JALR") -> "JALR"
          [] OTHER ->
                CASE isForm("ADD") -> "R"
                  [] isForm("ADDI") -> "I"
                  [] isForm("LW") -> "LOAD"
                  [] isForm("SW") -> "STORE"
                  [] isForm("LUI") -> "LUI"
                  [] isForm("AUIPC") -> "AUIPC"
                  [] OTHER -> "NOOP"

DecodeWord(w) ==
    LET class == ClassOf(w)
        funct3 == Number(Field(w, 12, 14))
        funct7 == Number(Field(w, 25, 31))
    IN  [scalar |-> class \notin VectorScalarOps /\ (6 \in w \/ class \in JumpOps),
         write  |-> class \notin {"B", "STORE", "HALT", "NOOP"},
         load   |-> class = "LOAD",
         store  |-> class = "STORE",
         branch |-> class = "B",
         halt   |-> class = "HALT",
         mux    |-> CASE class \in VectorScalarOps -> "VECTOR_TO_SCALAR"
                      [] class \in JumpOps -> "PC_PLUS_1"
                      [] class = "LOAD" -> "LSU_OUT"
                      [] class = "LUI" -> "IMMEDIATE"
                      [] OTHER -> "ALU_OUT",
         alu    |-> CASE class = "SX_SLT" -> "SLT"
                      [] class = "SX_SLTI" -> "SLTI"
                      [] class = "B" -> AluOperation(BranchOps, funct3, funct7)
                      [] class \in JumpOps -> class
                      [] class = "R" -> AluOperation(RegisterOps, funct3, funct7)
                      [] class = "I" -> AluOperation(ImmediateOps, funct3, funct7)
                      [] class = "AUIPC" -> "ADD"
                      [] OTHER -> "ADDI",
         rd     |-> IF class \in {"B", "STORE", "HALT", "NOOP"} THEN 0
                    ELSE Number(Field(w, 7, 11)),
         rs1    |-> IF class \in {"HALT", "JAL", "LUI", "AUIPC", "NOOP"} THEN 0
                    ELSE Number(Field(w, 15, 19)),
         rs2    |-> IF class \in {"SX_SLT", "B", "R", "STORE"} THEN Number(Field(w, 20, 24)) ELSE 0,
         imm    |-> CASE class \in {"SX_SLTI", "JALR", "I", "LOAD"} -> ImmI(w)
                      [] class = "STORE" -> ImmS(w)
                      [] class = "B" -> ImmB(w)
                      [] class = "JAL" -> ImmJ(w)
                      [] class \in {"LUI", "AUIPC"} -> ImmU(w)
                      [] OTHER -> {}]
-----------------------------------------------------------------------------
(* What the program means, written from the mnemonics and not from bits.   *)

IsaOp(name) == CASE name \in LoadNames -> "LOAD"
                 [] name \in StoreNames -> "STORE"
                 [] OTHER -> name

Signed(n, bits) == IF n < 2^(bits - 1) THEN n ELSE n - 2^bits

\* The immediate a program asks for, as a two's complement number.
Meant(i) ==
    CASE i.name \in UpperNames -> Signed(i.imm, 20) * 2^12
      [] i.name = "JAL" -> Signed(i.imm, 21)
      [] i.name \in RegisterOps \union {"SX_SLT", "HALT"} -> 0
      [] OTHER -> Signed(i.imm, 12)

SignedWord(w) ==
    IF 31 \in w THEN -1 - Number(BitPositions \ w) ELSE Number(w)

\* The instructions there are to encode, with operands of any size.  Those
\* with a scalar target have no prefix.
InstructionRecords ==
    {i \in [name : Names, scalar : BOOLEAN, rd : Int, rs1 : Int, rs2 : Int, imm : Int] :
        i.name \in VectorScalarOps => ~i.scalar}

MeantControls(i) ==
    Decode([op |-> IsaOp(i.name), scalar |-> i.scalar \/ i.name \in ScalarOps,
            rd |-> i.rd, rs1 |-> i.rs1, rs2 |-> i.rs2, imm |-> Meant(i)])

DecodesAs(w, i) ==
    [DecodeWord(w) EXCEPT !.imm = SignedWord(@)] = MeantControls(i)

\* What the encoding cannot carry: a store's offset shares bits 20 to 24 with
\* rs2 and is read from elsewhere; a scalar store has the opcode of a branch;
\* a shift's funct7 is part of its immediate, which the emitter takes at any
\* size; jumps go an even distance; and branches have no encoder.
Carried(i) ==
    /\ i.name \in StoreNames => ~i.scalar /\ i.imm % 32 = 0
    /\ i.name = "JAL" => i.imm % 2 = 0
    /\ i.name = "SRLI" => i.imm < 32
    /\ i.name \notin BranchOps \union {"SRAI"}
=============================================================================
