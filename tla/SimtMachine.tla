----------------------------- MODULE SimtMachine -----------------------------
(***************************************************************************)
(* What a compute core promises to the programmer: warps that execute the  *)
(* program one instruction at a time, each instruction in one step, the    *)
(* threads of a warp in lockstep under its execution mask.  No pipeline    *)
(* stages, fetchers, units or latencies.  ComputeCore.tla implements it.   *)
(***************************************************************************)
EXTENDS Isa, Integers, FiniteSets

CONSTANTS
    WARPS_PER_CORE, THREADS_PER_WARP,
    Programs,           \* functions from addresses to instructions
    BaseAddress,        \* kernel_config.base_instructions_address
    NumWarpsPerBlock,   \* kernel_config.num_warps_per_block
    BlockIds,
    SignedArithmetic    \* TRUE: numbers are in two's complement, as RISC-V's are;
                        \* FALSE: operations yield what alu.sv does

VARIABLES
    program,
    block_id,
    pc,
    halted,             \* the warps that have executed a HALT
    x,                  \* x[w][t][r]: the general purpose vector registers
    s,                  \* s[w][r]: the scalar registers
    memory

vars == <<program, block_id, pc, halted, x, s, memory>>

Warps == 0 .. WARPS_PER_CORE - 1
Threads == 0 .. THREADS_PER_WARP - 1
GeneralRegisters == 4 .. NUM_REGISTERS - 1

ClearVectors == [w \in Warps |-> [t \in Threads |-> [r \in GeneralRegisters |-> 0]]]
ClearScalars == [w \in Warps |-> [r \in Registers |-> IF r = 1 THEN AllOnes ELSE 0]]

Init ==
    /\ program \in Programs
    /\ block_id \in BlockIds
    /\ pc = [w \in Warps |-> BaseAddress]
    /\ halted = {}
    /\ x = ClearVectors
    /\ s = ClearScalars
    /\ memory = [a \in Words |-> 0]

-----------------------------------------------------------------------------
\* The threads that execute the warp's next instruction.
Active(w) == {t \in Threads : Bit(s[w][1], t)}

\* Registers 0 to 3 of a thread are read-only and have fixed contents.
Vector(w, t, r) ==
    CASE r = 0 -> 0
      [] r = 1 -> Wrap(w * THREADS_PER_WARP + t)
      [] r = 2 -> block_id
      [] r = 3 -> Wrap(NumWarpsPerBlock * THREADS_PER_WARP)
      [] OTHER -> x[w][t][r]

Instruction(w) == program[pc[w]]

\* What an operation means, in two's complement.  It is written from the
\* instruction set, RISC-V's, and not from alu.sv: README.md knows no unsigned
\* comparisons.  A shift distance is taken modulo the width of a word.
Signed(a) == IF Bit(a, WIDTH - 1) THEN a - 2^WIDTH ELSE a
Ones(a) == {p \in Positions : Bit(a, p)}

Meaning(op, a, b) ==
    LET factor == 2^(b % WIDTH)
    IN  CASE op \in {"ADDI", "ADD"} -> Wrap(Signed(a) + Signed(b))
          [] op = "SUB" -> Wrap(Signed(a) - Signed(b))
          [] op \in {"SLTI", "SLT", "BLT"} -> Truth(Signed(a) < Signed(b))
          [] op = "BEQ" -> Truth(a = b)
          [] op = "BNE" -> Truth(a # b)
          [] op = "BGE" -> Truth(Signed(a) >= Signed(b))
          [] op \in {"XORI", "XOR"} -> WordOf((Ones(a) \union Ones(b)) \ (Ones(a) \intersect Ones(b)))
          [] op \in {"ORI", "OR"} -> WordOf(Ones(a) \union Ones(b))
          [] op \in {"ANDI", "AND"} -> WordOf(Ones(a) \intersect Ones(b))
          [] op \in {"SLLI", "SLL"} -> Wrap(a * factor)
          [] op \in {"SRLI", "SRL"} -> a \div factor
          [] op \in {"SRAI", "SRA"} -> Wrap(Signed(a) \div factor)

Calculate(i, op, a, b) ==
    IF SignedArithmetic THEN Meaning(op, a, IF op \in ImmediateOps THEN i.imm ELSE b)
                        ELSE AluOut(op, 0, a, b, i.imm)

\* value[t] goes to each active thread's rd.
WriteVector(w, value) ==
    /\ x' = [x EXCEPT ![w] = [t \in Threads |->
          IF t \in Active(w) /\ Instruction(w).rd \in GeneralRegisters
          THEN [@[t] EXCEPT ![Instruction(w).rd] = value[t]]
          ELSE @[t]]]
    /\ UNCHANGED s

WriteScalar(w, value) ==
    /\ s' = IF Instruction(w).rd = 0 THEN s ELSE [s EXCEPT ![w][Instruction(w).rd] = value]
    /\ UNCHANGED x

GoTo(w, address) == pc' = [pc EXCEPT ![w] = Wrap(address)]

Runs(w, ops) == w \notin halted /\ Instruction(w).op \in ops

-----------------------------------------------------------------------------
Compute(w) ==
    LET i == Instruction(w)
    IN  /\ Runs(w, ImmediateOps \union RegisterOps)
        /\ IF i.scalar
           THEN WriteScalar(w, Calculate(i, i.op, s[w][i.rs1], s[w][i.rs2]))
           ELSE WriteVector(w, [t \in Threads |->
                    Calculate(i, i.op, Vector(w, t, i.rs1), Vector(w, t, i.rs2))])
        /\ GoTo(w, pc[w] + 1)
        /\ UNCHANGED <<halted, memory>>

LoadUpper(w) ==
    LET i == Instruction(w)
    IN  /\ Runs(w, {"LUI"})
        /\ IF i.scalar THEN WriteScalar(w, i.imm)
                       ELSE WriteVector(w, [t \in Threads |-> i.imm])
        /\ GoTo(w, pc[w] + 1)
        /\ UNCHANGED <<halted, memory>>

\* No document says what auipc yields (decoder.sv 213: its operands are x0).
AddUpper(w) ==
    /\ Runs(w, {"AUIPC"})
    /\ IF Instruction(w).scalar
       THEN \E v \in Words : WriteScalar(w, v)
       ELSE \E v \in [Threads -> Words] : WriteVector(w, v)
    /\ GoTo(w, pc[w] + 1)
    /\ UNCHANGED <<halted, memory>>

Load(w) ==
    LET i == Instruction(w)
    IN  /\ Runs(w, {"LOAD"})
        /\ IF i.scalar
           THEN WriteScalar(w, memory[Wrap(s[w][i.rs1] + i.imm)])
           ELSE WriteVector(w, [t \in Threads |-> memory[Wrap(Vector(w, t, i.rs1) + i.imm)]])
        /\ GoTo(w, pc[w] + 1)
        /\ UNCHANGED <<halted, memory>>

\* Threads that store to one address do so in any order.
Store(w) ==
    LET i == Instruction(w)
        stores == {[addr |-> Wrap(Vector(w, t, i.rs1) + i.imm),
                    data |-> Vector(w, t, i.rs2)] : t \in Active(w)}
        stored(a) == {st.data : st \in {u \in stores : u.addr = a}}
    IN  /\ Runs(w, {"STORE"})
        /\ memory' \in [Words -> Words]
        /\ \A a \in Words : IF stored(a) = {} THEN memory'[a] = memory[a]
                                              ELSE memory'[a] \in stored(a)
        /\ GoTo(w, pc[w] + 1)
        /\ UNCHANGED <<halted, x, s>>

\* Each active thread writes the outcome of its comparison to its own bit of
\* a scalar register; the bits of threads that are masked out are unspecified.
Compare(w) ==
    LET i == Instruction(w)
        holds(t) == Calculate(i, IF i.op = "SX_SLT" THEN "SLT" ELSE "SLTI",
                              Vector(w, t, i.rs1), Vector(w, t, i.rs2)) = 1
    IN  /\ Runs(w, VectorScalarOps)
        /\ \E unspecified \in SUBSET (Threads \ Active(w)) :
              WriteScalar(w, WordOf({t \in Active(w) : holds(t)} \union unspecified))
        /\ GoTo(w, pc[w] + 1)
        /\ UNCHANGED <<halted, memory>>

Branch(w) ==
    LET i == Instruction(w)
    IN  /\ Runs(w, BranchOps)
        /\ GoTo(w, IF Calculate(i, i.op, s[w][i.rs1], s[w][i.rs2]) = 1
                   THEN pc[w] + i.imm ELSE pc[w] + 1)
        /\ UNCHANGED <<halted, x, s, memory>>

Jump(w) ==
    LET i == Instruction(w)
    IN  /\ Runs(w, JumpOps)
        /\ WriteScalar(w, Wrap(pc[w] + 1))
        /\ GoTo(w, IF i.op = "JAL" THEN pc[w] + i.imm ELSE s[w][i.rs1] + i.imm)
        /\ UNCHANGED <<halted, memory>>

NoOperation(w) ==
    /\ Runs(w, {"NOOP"})
    /\ GoTo(w, pc[w] + 1)
    /\ UNCHANGED <<halted, x, s, memory>>

Halt(w) ==
    /\ Runs(w, {"HALT"})
    /\ halted' = halted \union {w}
    /\ UNCHANGED <<pc, x, s, memory>>

\* The core has finished its block and is given another.
NextBlock ==
    /\ halted = Warps
    /\ block_id' \in BlockIds
    /\ pc' = [w \in Warps |-> BaseAddress]
    /\ halted' = {}
    /\ x' = ClearVectors
    /\ s' = ClearScalars
    /\ UNCHANGED <<program, memory>>

Step(w) ==
    /\ \/ Compute(w) \/ LoadUpper(w) \/ AddUpper(w) \/ Load(w) \/ Store(w)
       \/ Compare(w) \/ Branch(w) \/ Jump(w) \/ NoOperation(w) \/ Halt(w)
    /\ UNCHANGED <<program, block_id>>

Next == (\E w \in Warps : Step(w)) \/ NextBlock

Spec == Init /\ [][Next]_vars
=============================================================================
