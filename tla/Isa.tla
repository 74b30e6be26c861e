-------------------------------- MODULE Isa --------------------------------
(***************************************************************************)
(* Words, the ALU (src/src/alu.sv), the instructions, and the control      *)
(* signals the decoder (src/src/decoder.sv) derives from them.  Words have *)
(* WIDTH bits (32 in the source) and every operation on them is unsigned,  *)
(* as the data_t of src/src/common/common.sv is.  An instruction is a      *)
(* record of its mnemonic and operands; immediates are already extended to *)
(* a word.  InstructionBits.tla relates these records to their bits.       *)
(***************************************************************************)
EXTENDS Naturals

CONSTANTS
    WIDTH,              \* `DATA_WIDTH
    NUM_REGISTERS       \* 32 in reg_file.sv and scalar_reg_file.sv

ASSUME IsaAssumption ==
    /\ WIDTH \in Nat \ {0}
    /\ NUM_REGISTERS \in Nat /\ NUM_REGISTERS > 4

Words == 0 .. 2^WIDTH - 1
Wrap(n) == n % 2^WIDTH
Bit(w, i) == (w \div 2^i) % 2 = 1
Positions == 0 .. WIDTH - 1

\* The word whose bits are set at the positions in b.
WordOf(b) == CHOOSE w \in Words : \A i \in Positions : Bit(w, i) <=> i \in b

\* The provers do not know this of powers; TLC evaluates it.
PowersOfTwo == \A n \in Positions : 2^(n + 1) = 2 * 2^n

AllOnes == 2^WIDTH - 1
Truth(p) == IF p THEN 1 ELSE 0

Registers == 0 .. NUM_REGISTERS - 1

-----------------------------------------------------------------------------
(* Instructions.                                                           *)

ImmediateOps == {"ADDI", "SLTI", "XORI", "ORI", "ANDI", "SLLI", "SRLI", "SRAI"}
RegisterOps == {"ADD", "SUB", "SLL", "SLT", "XOR", "SRL", "SRA", "OR", "AND"}
BranchOps == {"BEQ", "BNE", "BLT", "BGE"}
JumpOps == {"JAL", "JALR"}
AluOps == ImmediateOps \union RegisterOps \union BranchOps \union JumpOps

\* These have a vector and a scalar form; the others have only one.  The
\* opcode of a scalar store is that of the branches, and decodes as a branch.
\* NOOP stands for all words whose opcode is none of these, among them the
\* word 0 that a memory holds where nothing was written (sim.hpp 47).
TwoFormOps == ImmediateOps \union RegisterOps \union {"LOAD", "LUI", "AUIPC", "NOOP"}
ScalarOps == BranchOps \union JumpOps \union {"HALT"}
VectorScalarOps == {"SX_SLT", "SX_SLTI"}
Ops == TwoFormOps \union ScalarOps \union VectorScalarOps \union {"STORE"}

\* Bit 0 of these instructions' immediate is not in the instruction.
EvenOffsetOps == BranchOps \union {"JAL"}

Instructions ==
    {i \in [op : Ops, scalar : BOOLEAN,
            rd : Registers, rs1 : Registers, rs2 : Registers, imm : Words] :
        /\ i.op \notin TwoFormOps => (i.scalar <=> i.op \in ScalarOps)
        /\ i.op \in EvenOffsetOps => ~Bit(i.imm, 0)}

-----------------------------------------------------------------------------
(* alu.sv: the value alu_out takes at the edge.  ">>>" of an unsigned      *)
(* operand shifts in zeros, and the shift distance is the whole operand.   *)

AluOut(op, pc, rs1, rs2, imm) ==
    LET b == IF op \in ImmediateOps THEN imm ELSE rs2
    IN  CASE op \in {"ADDI", "ADD"} -> Wrap(rs1 + b)
          [] op = "SUB" -> Wrap(rs1 + 2^WIDTH - b)
          [] op \in {"SLTI", "SLT", "BLT"} -> Truth(rs1 < b)
          [] op = "BEQ" -> Truth(rs1 = b)
          [] op = "BNE" -> Truth(rs1 # b)
          [] op = "BGE" -> Truth(rs1 >= b)
          [] op \in {"XORI", "XOR"} -> WordOf({i \in Positions : Bit(rs1, i) # Bit(b, i)})
          [] op \in {"ORI", "OR"} -> WordOf({i \in Positions : Bit(rs1, i) \/ Bit(b, i)})
          [] op \in {"ANDI", "AND"} -> WordOf({i \in Positions : Bit(rs1, i) /\ Bit(b, i)})
          [] op \in {"SLLI", "SLL"} -> IF b < WIDTH THEN Wrap(rs1 * 2^b) ELSE 0
          [] op \in {"SRLI", "SRAI", "SRL", "SRA"} -> IF b < WIDTH THEN rs1 \div 2^b ELSE 0
          [] op = "JAL" -> Wrap(pc + imm)
          [] op = "JALR" -> Wrap(rs1 + imm)

-----------------------------------------------------------------------------
(* decoder.sv: the control signals of an instruction.                      *)

Muxes == {"ALU_OUT", "LSU_OUT", "IMMEDIATE", "PC_PLUS_1", "VECTOR_TO_SCALAR"}

Controls ==
    [scalar : BOOLEAN, write : BOOLEAN, load : BOOLEAN, store : BOOLEAN,
     branch : BOOLEAN, halt : BOOLEAN, mux : Muxes, alu : AluOps,
     rd : Registers, rs1 : Registers, rs2 : Registers, imm : Words]

\* What reset leaves, and what every decode starts from.
NoControls ==
    [scalar |-> FALSE, write |-> FALSE, load |-> FALSE, store |-> FALSE,
     branch |-> FALSE, halt |-> FALSE, mux |-> "ALU_OUT", alu |-> "ADDI",
     rd |-> 0, rs1 |-> 0, rs2 |-> 0, imm |-> 0]

\* A field an instruction class does not set keeps its default.
Decode(i) ==
    LET op == i.op
    IN  [scalar |-> i.scalar,
         write  |-> op \notin BranchOps \union {"STORE", "HALT", "NOOP"},
         load   |-> op = "LOAD",
         store  |-> op = "STORE",
         branch |-> op \in BranchOps,
         halt   |-> op = "HALT",
         mux    |-> CASE op \in VectorScalarOps -> "VECTOR_TO_SCALAR"
                      [] op \in JumpOps -> "PC_PLUS_1"
                      [] op = "LOAD" -> "LSU_OUT"
                      [] op = "LUI" -> "IMMEDIATE"
                      [] OTHER -> "ALU_OUT",
         alu    |-> CASE op \in AluOps -> op
                      [] op = "SX_SLT" -> "SLT"
                      [] op = "SX_SLTI" -> "SLTI"
                      [] op = "AUIPC" -> "ADD"
                      [] OTHER -> "ADDI",
         rd     |-> IF op \in BranchOps \union {"STORE", "HALT", "NOOP"} THEN 0 ELSE i.rd,
         rs1    |-> IF op \in {"HALT", "JAL", "LUI", "AUIPC", "NOOP"} THEN 0 ELSE i.rs1,
         rs2    |-> IF op \in RegisterOps \union BranchOps \union {"STORE", "SX_SLT"}
                    THEN i.rs2 ELSE 0,
         imm    |-> IF op \in RegisterOps \union {"HALT", "SX_SLT", "NOOP"} THEN 0 ELSE i.imm]
=============================================================================
