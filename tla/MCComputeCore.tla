--------------------------- MODULE MCComputeCore ---------------------------
(***************************************************************************)
(* Programs for model-checking ComputeCore.tla: two warps of two threads,  *)
(* four-bit words.  Between them they use every instruction class.         *)
(***************************************************************************)
EXTENDS ComputeCore, Sequences

Vec(op, rd, r1, r2, imm) ==
    [op |-> op, scalar |-> FALSE, rd |-> rd, rs1 |-> r1, rs2 |-> r2, imm |-> imm]
Sca(op, rd, r1, r2, imm) ==
    [op |-> op, scalar |-> TRUE, rd |-> rd, rs1 |-> r1, rs2 |-> r2, imm |-> imm]
HALT == Sca("HALT", 0, 0, 0, 0)

Minus(n) == 2^WIDTH - n

\* A word that was never written.
NOOP == Vec("NOOP", 0, 0, 0, 0)

\* A program starts at address BaseAddress.
Listing(code) ==
    [a \in Words |->
        IF a \in BaseAddress .. BaseAddress + Len(code) - 1 THEN code[a - BaseAddress + 1]
        ELSE NOOP]

\* Threads with a small id, and then the others, store and load.
Diverge == Listing(<<
    Vec("SX_SLTI", 1, 1, 0, 1),         \* s1 := thread id < 1, by thread
    Vec("ADD", 4, 1, 2, 0),             \* x4 := thread id + block id
    Vec("STORE", 0, 1, 4, 4),           \* mem[thread id + 4] := x4
    Sca("XORI", 1, 1, 0, 3),            \* invert the mask
    Vec("LOAD", 5, 1, 0, 3),            \* x5 := mem[thread id + 3]
    Vec("SX_SLT", 2, 4, 5, 0),
    Vec("AUIPC", 5, 0, 0, 2),
    NOOP,
    HALT>>)

\* Warp 0 waits until warp 1 has stored a flag.
Spin == Listing(<<
    Vec("SX_SLTI", 2, 1, 0, THREADS_PER_WARP),  \* s2 # 0 in warp 0 only
    Sca("BNE", 0, 2, 0, 4),
    Vec("ADD", 4, 1, 3, 0),
    Vec("STORE", 0, 0, 3, 9),                   \* mem[9] := block size
    HALT,
    Sca("LOAD", 3, 0, 0, 9),
    Sca("ADD", 4, 3, 2, 0),
    Sca("BEQ", 0, 3, 0, Minus(2)),
    HALT>>)

\* All threads store to one address; then a call and a return.
Races == Listing(<<
    Vec("STORE", 0, 0, 1, 6),           \* mem[6] := thread id
    Sca("LUI", 2, 0, 0, 4),
    Sca("JAL", 3, 0, 0, 4),             \* call; s3 := return address
    Vec("LOAD", 4, 0, 0, 6),
    Vec("SLTI", 5, 4, 0, 1),
    HALT,
    Sca("SRLI", 2, 2, 0, 1),
    Sca("JALR", 0, 3, 0, 0)>>)          \* return; s0 stays 0

\* Comparisons of numbers of one sign, shifts, and operations on bits.
Arithmetic == Listing(<<
    Vec("XORI", 4, 1, 0, AllOnes),          \* x4 := -1 - thread id
    Vec("SLTI", 5, 4, 0, Minus(2)),         \* x5 := x4 < -2
    Vec("SUB", 4, 5, 4, 0),                 \* 1, 2, 4, 5
    Vec("SRA", 5, 4, 5, 0),                 \* 1, 2, 2, 2
    Vec("SLL", 4, 4, 5, 0),                 \* 2, 8, 0, 4
    Vec("OR", 5, 4, 5, 0),
    Vec("ANDI", 5, 5, 0, 6),
    Sca("ORI", 2, 0, 0, Minus(1)),          \* s2 := -1
    Sca("SLLI", 3, 2, 0, WIDTH - 1),        \* s3 := the least number
    Sca("BLT", 0, 3, 2, 2),
    HALT,
    Sca("BGE", 0, 3, 3, 2),
    HALT,
    Sca("SRLI", 4, 3, 0, 3),
    HALT>>)

AllPrograms == {Diverge, Spin, Races, Arithmetic}

\* The scalar loop condition of a program that counts down to -1.
CountsDown == {Listing(<<Sca("ADDI", 2, 0, 0, Minus(1)), Sca("BLT", 0, 2, 0, 2), HALT>>)}
=============================================================================
