------------------------------ MODULE IsaProofs ------------------------------
(***************************************************************************)
(* Facts about Isa.tla, for every width of words: the ALU computes words,  *)
(* every set of bits is a word, and the decoder yields control signals.    *)
(***************************************************************************)
EXTENDS Isa, NatFacts

\* The arithmetic of powers of two, of which the provers only know that they
\* are integers, and that words have more than one value.
LEMMA Powers ==
  ASSUME PowersOfTwo
  PROVE  /\ \A n \in 0 .. WIDTH : 2^n \in Nat \ {0}
         /\ \A n \in 0 .. WIDTH - 1 : 2^(n + 1) = 2 * 2^n
<1> DEFINE Bad == {n \in 0 .. WIDTH : 2^n \notin Nat \ {0}}
<1>1. \A n \in 0 .. WIDTH - 1 : 2^(n + 1) = 2 * 2^n
  BY DEF PowersOfTwo, Positions
<1>2. Bad = {}
  <2> SUFFICES ASSUME Bad # {} PROVE FALSE
    OBVIOUS
  <2>1. PICK m \in Bad : \A n \in Bad : m <= n
    <3> Bad \in SUBSET Nat
      BY IsaAssumption
    <3> HIDE DEF Bad
    <3> QED
      BY LeastElement
  <2>2. CASE m = 0
    BY <2>2
  <2>3. CASE m # 0
    <3>1. m - 1 \in 0 .. WIDTH - 1 /\ m - 1 \in 0 .. WIDTH /\ (m - 1) + 1 = m
      BY <2>3, IsaAssumption
    <3>2. m - 1 \notin Bad
      BY <2>1, <3>1
    <3>3. 2^(m - 1) \in Nat \ {0} /\ 2^m = 2 * 2^(m - 1)
      BY <3>1, <3>2, <1>1
    <3> QED
      BY <3>3
  <2> QED
    BY <2>2, <2>3
<1> QED
  BY <1>1, <1>2

\* What a word is, without powers.
LEMMA WordRange ==
  ASSUME PowersOfTwo
  PROVE  /\ 2^WIDTH \in Nat \ {0, 1}
         /\ Words = 0 .. 2^WIDTH - 1
         /\ 0 \in Words /\ 1 \in Words /\ AllOnes \in Words
         /\ \A n \in Int : Wrap(n) \in Words
<1>1. WIDTH - 1 \in 0 .. WIDTH - 1 /\ WIDTH - 1 \in 0 .. WIDTH /\ WIDTH \in 0 .. WIDTH
      /\ (WIDTH - 1) + 1 = WIDTH
  BY IsaAssumption
<1>2. 2^WIDTH = 2 * 2^(WIDTH - 1) /\ 2^(WIDTH - 1) \in Nat \ {0} /\ 2^WIDTH \in Nat \ {0}
  BY <1>1, Powers
<1>3. 2^WIDTH \in Nat \ {0, 1}
  BY <1>2
<1> QED
  BY <1>3 DEF Words, AllOnes, Wrap

\* Every set of positions is the set of bits of a number: by halving.
LEMMA BitsMakeNumbers ==
  ASSUME PowersOfTwo
  PROVE  \A n \in 0 .. WIDTH : \A b \in SUBSET (0 .. n - 1) :
            \E w \in 0 .. 2^n - 1 : \A i \in 0 .. n - 1 : Bit(w, i) <=> i \in b
<1> DEFINE Q(n, b, w) == \A i \in 0 .. n - 1 : Bit(w, i) <=> i \in b
           P(n) == \A b \in SUBSET (0 .. n - 1) : \E w \in 0 .. 2^n - 1 : Q(n, b, w)
           Bad == {n \in 0 .. WIDTH : ~P(n)}
<1> SUFFICES ASSUME Bad # {} PROVE FALSE
  OBVIOUS
<1>1. PICK m \in Bad : \A n \in Bad : m <= n
  <2> Bad \in SUBSET Nat
    BY IsaAssumption
  <2> HIDE DEF Bad
  <2> QED
    BY LeastElement
<1>2. m # 0
  <2>1. 0 \in 0 .. 2^0 - 1
    OBVIOUS
  <2>2. P(0)
    BY <2>1
  <2> QED
    BY <2>2
<1> DEFINE k == m - 1
<1>3. k \in 0 .. WIDTH - 1 /\ k \in 0 .. WIDTH /\ k + 1 = m /\ P(k)
  <2>1. k \in 0 .. WIDTH - 1 /\ k \in 0 .. WIDTH /\ k + 1 = m /\ k \notin Bad
    BY <1>1, <1>2, IsaAssumption
  <2> QED
    BY <2>1
<1>4. 2^m = 2 * 2^k /\ 2^k \in Nat \ {0}
  <2> HIDE DEF k
  <2> QED
  BY <1>3, Powers
<1>5. ASSUME NEW b \in SUBSET (0 .. m - 1)
      PROVE  \E w \in 0 .. 2^m - 1 : Q(m, b, w)
  <2> DEFINE c == {i \in 0 .. k - 1 : i + 1 \in b}
  <2>1. PICK v \in 0 .. 2^k - 1 : Q(k, c, v)
    BY <1>3
  <2> DEFINE low == IF 0 \in b THEN 1 ELSE 0
             w == 2 * v + low
  <2>2. w \in 0 .. 2^m - 1 /\ v \in Nat /\ low \in 0 .. 1
    BY <1>4
  <2>3. ASSUME NEW i \in 0 .. m - 1
        PROVE  Bit(w, i) <=> i \in b
    <3>1. CASE i = 0
      <4>1. w \div 2^0 = w
        BY <2>2
      <4>2. w % 2 = low
        BY <2>2
      <4> QED
        BY <4>1, <4>2, <3>1 DEF Bit
    <3>2. CASE i # 0
      <4> DEFINE j == i - 1
      <4>1. j \in 0 .. k - 1 /\ j \in 0 .. WIDTH - 1 /\ j \in 0 .. WIDTH /\ j + 1 = i
        BY <3>2, <1>3, IsaAssumption
      <4> HIDE DEF j
      <4>2. 2^i = 2 * 2^j /\ 2^j \in Nat \ {0}
        BY <4>1, Powers
      <4>3. w \div 2^i = v \div 2^j
        <5> HIDE DEF low
        <5> QED
          BY <4>2, <2>2, DivisionByDouble
      <4>4. Bit(w, i) <=> Bit(v, j)
        BY <4>3 DEF Bit
      <4> QED
        BY <4>1, <4>4, <2>1
    <3> QED
      BY <3>1, <3>2
  <2> HIDE DEF w
  <2> QED
    BY <2>2, <2>3
<1> QED
  BY <1>5, <1>1

\* WordOf is the word it is meant to be.
LEMMA WordOfBits ==
  ASSUME PowersOfTwo, NEW b \in SUBSET Positions
  PROVE  /\ WordOf(b) \in Words
         /\ \A i \in Positions : Bit(WordOf(b), i) <=> i \in b
<1>1. \E w \in Words : \A i \in Positions : Bit(w, i) <=> i \in b
  BY BitsMakeNumbers, IsaAssumption DEF Positions, Words
<1> QED
  BY <1>1 DEF WordOf

-----------------------------------------------------------------------------
\* An ALU that is given words and an operation computes a word.
LEMMA AluComputesWords ==
  ASSUME PowersOfTwo, NEW op \in AluOps, NEW pc \in Words,
         NEW rs1 \in Words, NEW rs2 \in Words, NEW imm \in Words
  PROVE  AluOut(op, pc, rs1, rs2, imm) \in Words
<1> DEFINE b == IF op \in ImmediateOps THEN imm ELSE rs2
<1>1. b \in Words /\ Words \subseteq Nat /\ 2^WIDTH \in Nat
  BY WordRange
<1> HIDE DEF b
<1>2. Wrap(rs1 + b) \in Words /\ Wrap(rs1 + 2^WIDTH - b) \in Words
      /\ Wrap(pc + imm) \in Words /\ Wrap(rs1 + imm) \in Words
  <2> DEFINE top == 2^WIDTH
  <2>1. top \in Nat
    BY <1>1
  <2> HIDE DEF top
  <2>2. rs1 + b \in Int /\ rs1 + top - b \in Int /\ pc + imm \in Int /\ rs1 + imm \in Int
    BY <1>1, <2>1
  <2> QED
    BY <2>2, WordRange DEF top
<1>3. \A p : Truth(p) \in Words
  BY WordRange DEF Truth
<1>4. /\ WordOf({i \in Positions : Bit(rs1, i) # Bit(b, i)}) \in Words
      /\ WordOf({i \in Positions : Bit(rs1, i) \/ Bit(b, i)}) \in Words
      /\ WordOf({i \in Positions : Bit(rs1, i) /\ Bit(b, i)}) \in Words
  BY WordOfBits
<1>5. (IF b < WIDTH THEN Wrap(rs1 * 2^b) ELSE 0) \in Words
  <2>1. CASE b < WIDTH
    <3>1. b \in 0 .. WIDTH
      BY <1>1, <2>1, IsaAssumption
    <3>2. rs1 * 2^b \in Int
      BY <1>1, <3>1, Powers
    <3> QED
      BY <2>1, <3>2, WordRange
  <2> QED
    BY <2>1, WordRange
<1>6. (IF b < WIDTH THEN rs1 \div 2^b ELSE 0) \in Words
  <2>1. CASE b < WIDTH
    <3>1. b \in 0 .. WIDTH
      BY <1>1, <2>1, IsaAssumption
    <3>2. 2^b \in Nat \ {0}
      BY <3>1, Powers
    <3>3. rs1 \div 2^b \in Nat /\ rs1 \div 2^b <= rs1
      BY <1>1, <3>2, Division
    <3> QED
      BY <2>1, <3>3, WordRange
  <2> QED
    BY <2>1, WordRange
<1>7. AluOut(op, pc, rs1, rs2, imm) =
        CASE op \in {"ADDI", "ADD"} -> Wrap(rs1 + b)
          [] op = "SUB" -> Wrap(rs1 + 2^WIDTH - b)
          [] op \in {"SLTI", "SLT", "BLT"} -> Truth(rs1 < b)
          [] op = "BEQ" -> Truth(rs1 = b)
          [] op = "BNE" -> Truth(rs1 # b)
          [] op = "BGE" -> Truth(rs1 >= b)
          [] op \in {"XORI", "XOR"} -> WordOf({i \in Positions : Bit(rs1, i) # Bit(b, i)})
          [] op \in {"ORI", "OR"} -> WordOf({i \in Positions : Bit(rs1, i) \/ Bit(b, i)})
          [] op \in {"ANDI", "AND"} -> WordOf({i \in Positions : Bit(rs1, i) /\ Bit(b, i)})
          [] op \in {"SLLI", "SLL"} -> IF b < WIDTH THEN Wrap(rs1 * 2^b) ELSE 0
          [] op \in {"SRLI", "SRAI", "SRL", "SRA"} -> IF b < WIDTH THEN rs1 \div 2^b ELSE 0
          [] op = "JAL" -> Wrap(pc + imm)
          [] op = "JALR" -> Wrap(rs1 + imm)
  BY Zenon DEF AluOut, b
<1> QED
  BY <1>2, <1>3, <1>4, <1>5, <1>6, <1>7
     DEF AluOps, ImmediateOps, RegisterOps, BranchOps, JumpOps

\* The decoder yields control signals of the right kinds, whatever it decodes.
LEMMA DecodeYieldsControls ==
  ASSUME PowersOfTwo
  PROVE  /\ NoControls \in Controls
         /\ \A i \in Instructions : Decode(i) \in Controls
<1>1. 0 \in Words /\ 0 \in Registers
  BY WordRange, IsaAssumption DEF Registers
<1>2. NoControls \in Controls
  BY <1>1 DEF NoControls, Controls, Muxes, AluOps, ImmediateOps
<1>3. ASSUME NEW i \in Instructions
      PROVE  Decode(i) \in Controls
  <2>1. /\ i.op \in Ops /\ i.scalar \in BOOLEAN /\ i.imm \in Words
        /\ i.rd \in Registers /\ i.rs1 \in Registers /\ i.rs2 \in Registers
    BY DEF Instructions
  <2>2. /\ Decode(i).scalar \in BOOLEAN /\ Decode(i).write \in BOOLEAN
        /\ Decode(i).load \in BOOLEAN /\ Decode(i).store \in BOOLEAN
        /\ Decode(i).branch \in BOOLEAN /\ Decode(i).halt \in BOOLEAN
    BY <2>1 DEF Decode
  <2>3. Decode(i).mux \in Muxes
    BY DEF Decode, Muxes
  <2>4. Decode(i).alu \in AluOps
    BY DEF Decode, AluOps, ImmediateOps, RegisterOps
  <2>5. /\ Decode(i).rd \in Registers /\ Decode(i).rs1 \in Registers
        /\ Decode(i).rs2 \in Registers /\ Decode(i).imm \in Words
    BY <1>1, <2>1 DEF Decode
  <2>6. Decode(i) =
          [scalar |-> Decode(i).scalar, write |-> Decode(i).write,
           load |-> Decode(i).load, store |-> Decode(i).store,
           branch |-> Decode(i).branch, halt |-> Decode(i).halt,
           mux |-> Decode(i).mux, alu |-> Decode(i).alu, rd |-> Decode(i).rd,
           rs1 |-> Decode(i).rs1, rs2 |-> Decode(i).rs2, imm |-> Decode(i).imm]
    BY DEF Decode
  <2> QED
    BY <2>2, <2>3, <2>4, <2>5, <2>6 DEF Controls
<1> QED
  BY <1>2, <1>3
=============================================================================
