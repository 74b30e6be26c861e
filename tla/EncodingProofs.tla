--------------------------- MODULE EncodingProofs ---------------------------
(***************************************************************************)
(* The decoder reads back what the encoder wrote, for every register,      *)
(* immediate and mnemonic that the encoding can carry.  First come the     *)
(* arithmetic of the bits of a number, then the fields of a word, the      *)
(* class the decoder sees in one, and the formats, one by one.             *)
(***************************************************************************)
EXTENDS InstructionBits, IsaProofs, FiniteSetTheorems

-----------------------------------------------------------------------------
\* Induction over the indices up to a bound.
LEMMA IndexInduction ==
  ASSUME NEW b \in Nat, NEW T, 0 \in T, \A k \in 0 .. b - 1 : k \in T => k + 1 \in T
  PROVE  \A k \in 0 .. b : k \in T
<1> DEFINE Bad == {k \in 0 .. b : k \notin T}
<1> SUFFICES ASSUME Bad # {} PROVE FALSE
  OBVIOUS
<1>1. PICK m \in Bad : \A n \in Bad : m <= n
  <2> Bad \in SUBSET Nat
    OBVIOUS
  <2> HIDE DEF Bad
  <2> QED
    BY LeastElement
<1>2. m # 0 /\ m - 1 \in 0 .. b - 1 /\ m - 1 \notin Bad
  BY <1>1
<1> QED
  BY <1>1, <1>2

\* A power of two, for the provers to take as it is.
Pow(n) == 2^n

\* The powers up to the width of a word, which the provers can compute.
LEMMA PowersKnown ==
  /\ \A k \in 0 .. 32 : Pow(k) \in Nat \ {0}
  /\ \A k \in 0 .. 31 : Pow(k + 1) = 2 * Pow(k)
<1>1. \A n \in 0 .. 7 : 2^(n + 1) = 2 * 2^n
  <2>1. /\ 2^(0 + 1) = 2 * 2^0 /\ 2^(1 + 1) = 2 * 2^1 /\ 2^(2 + 1) = 2 * 2^2 /\ 2^(3 + 1) = 2 * 2^3
        /\ 2^(4 + 1) = 2 * 2^4 /\ 2^(5 + 1) = 2 * 2^5 /\ 2^(6 + 1) = 2 * 2^6 /\ 2^(7 + 1) = 2 * 2^7
    OBVIOUS
  <2>2. \A n \in 0 .. 7 : n = 0 \/ n = 1 \/ n = 2 \/ n = 3 \/ n = 4 \/ n = 5 \/ n = 6 \/ n = 7
    OBVIOUS
  <2> QED
    BY <2>1, <2>2, Zenon
<1>2. \A n \in 8 .. 15 : 2^(n + 1) = 2 * 2^n
  <2>1. /\ 2^(8 + 1) = 2 * 2^8 /\ 2^(9 + 1) = 2 * 2^9 /\ 2^(10 + 1) = 2 * 2^10 /\ 2^(11 + 1) = 2 * 2^11
        /\ 2^(12 + 1) = 2 * 2^12 /\ 2^(13 + 1) = 2 * 2^13 /\ 2^(14 + 1) = 2 * 2^14 /\ 2^(15 + 1) = 2 * 2^15
    OBVIOUS
  <2>2. \A n \in 8 .. 15 : n = 8 \/ n = 9 \/ n = 10 \/ n = 11 \/ n = 12 \/ n = 13 \/ n = 14 \/ n = 15
    OBVIOUS
  <2> QED
    BY <2>1, <2>2, Zenon
<1>3. \A n \in 16 .. 23 : 2^(n + 1) = 2 * 2^n
  <2>1. /\ 2^(16 + 1) = 2 * 2^16 /\ 2^(17 + 1) = 2 * 2^17 /\ 2^(18 + 1) = 2 * 2^18 /\ 2^(19 + 1) = 2 * 2^19
        /\ 2^(20 + 1) = 2 * 2^20 /\ 2^(21 + 1) = 2 * 2^21 /\ 2^(22 + 1) = 2 * 2^22 /\ 2^(23 + 1) = 2 * 2^23
    OBVIOUS
  <2>2. \A n \in 16 .. 23 : n = 16 \/ n = 17 \/ n = 18 \/ n = 19 \/ n = 20 \/ n = 21 \/ n = 22 \/ n = 23
    OBVIOUS
  <2> QED
    BY <2>1, <2>2, Zenon
<1>4. \A n \in 24 .. 31 : 2^(n + 1) = 2 * 2^n
  <2>1. /\ 2^(24 + 1) = 2 * 2^24 /\ 2^(25 + 1) = 2 * 2^25 /\ 2^(26 + 1) = 2 * 2^26 /\ 2^(27 + 1) = 2 * 2^27
        /\ 2^(28 + 1) = 2 * 2^28 /\ 2^(29 + 1) = 2 * 2^29 /\ 2^(30 + 1) = 2 * 2^30 /\ 2^(31 + 1) = 2 * 2^31
    OBVIOUS
  <2>2. \A n \in 24 .. 31 : n = 24 \/ n = 25 \/ n = 26 \/ n = 27 \/ n = 28 \/ n = 29 \/ n = 30 \/ n = 31
    OBVIOUS
  <2> QED
    BY <2>1, <2>2, Zenon
<1>5. ASSUME NEW n \in 0 .. 31
      PROVE  n \in 0 .. 7 \/ n \in 8 .. 15 \/ n \in 16 .. 23 \/ n \in 24 .. 31
  OBVIOUS
<1>6. \A k \in 0 .. 31 : 2^(k + 1) = 2 * 2^k
  BY <1>1, <1>2, <1>3, <1>4, <1>5, Zenon
<1>7. PowersOfTwo
  <2>1. Positions = 0 .. 31
    BY BitsAssumption DEF Positions
  <2> QED
    BY <2>1, <1>6, Zenon DEF PowersOfTwo
<1>8. 0 .. WIDTH = 0 .. 32
  BY BitsAssumption
<1> QED
  BY <1>6, <1>7, <1>8, Powers, Zenon DEF Pow

\* A larger exponent makes a larger power.
LEMMA PowersGrow ==
  ASSUME NEW i \in 0 .. 32, NEW j \in 0 .. 32, i <= j
  PROVE  Pow(i) <= Pow(j)
<1> DEFINE T == {k \in 0 .. 32 : i <= k => Pow(i) <= Pow(k)}
<1>1. 0 \in T
  BY PowersKnown
<1>2. ASSUME NEW k \in 0 .. 31, k \in T
      PROVE  k + 1 \in T
  <2>1. Pow(k + 1) = 2 * Pow(k) /\ Pow(k) \in Nat /\ Pow(i) \in Nat
    BY PowersKnown
  <2> QED
    BY <1>2, <2>1
<1>3. \A k \in 0 .. 32 : k \in T
  <2> HIDE DEF T
  <2> QED
    BY <1>1, <1>2, IndexInduction
<1> QED
  BY <1>3

-----------------------------------------------------------------------------
Term(f, k) == IF k \in f THEN Pow(k) ELSE 0

\* The sums of Number, up to each position.
Sums(f) ==
    CHOOSE s : s = [k \in 0 .. 31 |-> IF k = 0 THEN 0 ELSE s[k - 1] + Term(f, k - 1)]

\* Number is the last of its sums, each of which adds a term to the one before.
LEMMA SumsAdd ==
  ASSUME NEW f
  PROVE  /\ Number(f) = Sums(f)[31]
         /\ Sums(f)[0] = 0
         /\ \A k \in 0 .. 30 : Sums(f)[k + 1] = Sums(f)[k] + Term(f, k)
         /\ \A k \in 0 .. 31 : Sums(f)[k] \in Nat
<1> DEFINE Upto(b, s) == s = [k \in 0 .. b |-> IF k = 0 THEN 0 ELSE s[k - 1] + Term(f, k - 1)]
           T == {b \in 0 .. 31 : \E s : Upto(b, s)}
<1>1. 0 \in T
  <2> DEFINE s == [k \in 0 .. 0 |-> 0]
  <2>1. Upto(0, s)
    OBVIOUS
  <2> HIDE DEF s
  <2> QED
    BY <2>1
<1>2. ASSUME NEW b \in 0 .. 30, b \in T
      PROVE  b + 1 \in T
  <2>1. PICK s : Upto(b, s)
    BY <1>2
  <2> DEFINE u == [k \in 0 .. b + 1 |-> IF k = 0 THEN 0 ELSE s[k - 1] + Term(f, k - 1)]
  <2>2. \A k \in 0 .. b : u[k] = s[k]
    BY <2>1
  <2>3. Upto(b + 1, u)
    <3>1. \A k \in 0 .. b + 1 : k # 0 => k - 1 \in 0 .. b
      OBVIOUS
    <3> QED
      BY <2>2, <3>1
  <2>4. b + 1 \in 0 .. 31
    OBVIOUS
  <2> HIDE DEF u
  <2> QED
    BY <2>3, <2>4
<1>3. \A b \in 0 .. 31 : b \in T
  <2> HIDE DEF T
  <2> QED
    BY <1>1, <1>2, IndexInduction
<1>4. \E s : Upto(31, s)
  BY <1>3
<1>5. Upto(31, Sums(f))
  <2> HIDE DEF Upto
  <2>1. Sums(f) = CHOOSE s : Upto(31, s)
    BY Zenon DEF Sums, Upto
  <2> QED
    BY <1>4, <2>1, Zenon
<1>6. Number(f) = Sums(f)[31]
  BY Zenon DEF Number, Sums, Term, Pow
<1>7. \A k \in 0 .. 30 : Sums(f)[k + 1] = Sums(f)[k] + Term(f, k)
  <2> TAKE k \in 0 .. 30
  <2>1. k + 1 \in 0 .. 31 /\ k + 1 # 0 /\ (k + 1) - 1 = k
    OBVIOUS
  <2> QED
    BY <1>5, <2>1
<1>8. Sums(f)[0] = 0
  BY <1>5
<1>9. \A k \in 0 .. 31 : Sums(f)[k] \in Nat
  <2> DEFINE N == {k \in 0 .. 31 : Sums(f)[k] \in Nat}
  <2>1. 0 \in N
    BY <1>8
  <2>2. ASSUME NEW k \in 0 .. 30, k \in N
        PROVE  k + 1 \in N
    <3>1. Term(f, k) \in Nat
      BY PowersKnown DEF Term
    <3> QED
      BY <2>2, <3>1, <1>7
  <2> HIDE DEF N
  <2>3. \A k \in 0 .. 31 : k \in N
    BY <2>1, <2>2, IndexInduction
  <2> QED
    BY <2>3 DEF N
<1> QED
  BY <1>6, <1>7, <1>8, <1>9

\* The sum of the bits of a number, up to a position, is its remainder.
LEMMA SumOfBits ==
  ASSUME NEW n \in Nat
  PROVE  \A k \in 0 .. 31 : Sums(Bits(n))[k] = n % Pow(k)
<1> DEFINE T == {k \in 0 .. 31 : Sums(Bits(n))[k] = n % Pow(k)}
<1>1. 0 \in T
  <2>1. Pow(0) = 1
    BY DEF Pow
  <2> QED
    BY <2>1, SumsAdd
<1>2. ASSUME NEW k \in 0 .. 30, k \in T
      PROVE  k + 1 \in T
  <2> DEFINE q == n \div Pow(k)
             b == IF q % 2 = 1 THEN 1 ELSE 0
  <2>1. Pow(k) \in Nat \ {0} /\ Pow(k + 1) = 2 * Pow(k)
    BY PowersKnown
  <2>2. q \in Nat /\ n % Pow(k) \in 0 .. Pow(k) - 1 /\ n = Pow(k) * q + (n % Pow(k))
    BY <2>1, Division
  <2>3. q = 2 * (q \div 2) + b /\ q \div 2 \in Nat
    <3> HIDE DEF q
    <3>1. q \div 2 \in Nat /\ q % 2 \in 0 .. 1 /\ q = 2 * (q \div 2) + (q % 2)
      BY <2>2, Division
    <3> QED
      BY <3>1
  <2>4. n % Pow(k + 1) = (n % Pow(k)) + b * Pow(k)
    <3> DEFINE h == q \div 2
               r == n % Pow(k)
    <3>1. h \in Nat /\ b \in {0, 1} /\ q = 2 * h + b /\ r \in 0 .. Pow(k) - 1 /\ n = Pow(k) * q + r
      BY <2>2, <2>3
    <3> HIDE DEF h, r, q, b
    <3>2. r + b * Pow(k) \in 0 .. 2 * Pow(k) - 1
      <4>1. CASE b = 0
        BY <3>1, <2>1, <4>1
      <4>2. CASE b = 1
        BY <3>1, <2>1, <4>2
      <4> QED
        BY <4>1, <4>2, <3>1
    <3>3. n = (2 * Pow(k)) * h + (r + b * Pow(k))
      <4>1. Pow(k) * q = (2 * Pow(k)) * h + b * Pow(k)
        <5>1. CASE b = 0
          BY <3>1, <2>1, <5>1
        <5>2. CASE b = 1
          BY <3>1, <2>1, <5>2
        <5> QED
          BY <5>1, <5>2, <3>1
      <4>2. Pow(k) * q \in Nat /\ (2 * Pow(k)) * h \in Nat /\ b * Pow(k) \in Nat
        <5>1. b * Pow(k) \in Nat
          BY <3>1, <2>1
        <5> QED
          BY <5>1, <3>1, <2>1
      <4> QED
        BY <3>1, <4>1, <4>2
    <3>4. 2 * Pow(k) \in Nat \ {0}
      BY <2>1
    <3>5. n % (2 * Pow(k)) = r + b * Pow(k)
      BY <3>2, <3>3, <3>4, <3>1, RemainderUnique
    <3> QED
      BY <3>5, <2>1 DEF r
  <2>5. Term(Bits(n), k) = b * Pow(k)
    <3>1. k \in Bits(n) <=> q % 2 = 1
      BY DEF Bits, Bit, Pow
    <3> HIDE DEF q
    <3> QED
      BY <3>1, <2>1 DEF Term
  <2>6. Sums(Bits(n))[k + 1] = Sums(Bits(n))[k] + Term(Bits(n), k)
    BY SumsAdd
  <2> HIDE DEF b
  <2> QED
    BY <1>2, <2>4, <2>5, <2>6
<1>3. \A k \in 0 .. 31 : k \in T
  <2> HIDE DEF T
  <2> QED
    BY <1>1, <1>2, IndexInduction
<1> QED
  BY <1>3

\* Bits and Number are each other's inverse for a number below 2^31, whose
\* bits are below its length.
LEMMA NumberOfBits ==
  ASSUME NEW k \in 0 .. 31, NEW n \in 0 .. Pow(k) - 1
  PROVE  Number(Bits(n)) = n /\ Bits(n) \subseteq 0 .. k - 1
<1>1. /\ Pow(k) <= Pow(31) /\ Pow(k) \in Nat /\ Pow(31) \in Nat \ {0} /\ n \in Nat
      /\ n \in 0 .. Pow(31) - 1
  <2>1. Pow(k) <= Pow(31) /\ Pow(k) \in Nat /\ Pow(31) \in Nat \ {0}
    BY PowersKnown, PowersGrow
  <2> QED
    BY <2>1
<1>2. Number(Bits(n)) = n
  <2>1. n % Pow(31) = n
    BY <1>1, SmallRemainder
  <2>2. Sums(Bits(n))[31] = n % Pow(31)
    BY <1>1, SumOfBits
  <2> QED
    BY <2>1, <2>2, SumsAdd
<1>3. ASSUME NEW i \in Bits(n), ~(i \in 0 .. k - 1)
      PROVE  FALSE
  <2>1. i \in 0 .. 30 /\ k <= i /\ (n \div Pow(i)) % 2 = 1
    BY <1>3 DEF Bits, Bit, Pow
  <2>2. Pow(i) \in Nat \ {0} /\ Pow(k) <= Pow(i)
    BY <2>1, PowersKnown, PowersGrow
  <2>3. n < Pow(i)
    BY <1>1, <2>2
  <2>4. n \div Pow(i) = 0
    BY <1>1, <2>2, <2>3
  <2> QED
    BY <2>1, <2>4
<1> QED
  BY <1>2, <1>3

\* Disjoint sets of bits add up.
LEMMA NumberOfUnion ==
  ASSUME NEW f, NEW g, f \intersect g = {}
  PROVE  Number(f \union g) = Number(f) + Number(g)
<1> DEFINE T == {k \in 0 .. 31 : Sums(f \union g)[k] = Sums(f)[k] + Sums(g)[k]}
<1>1. 0 \in T
  BY SumsAdd
<1>2. ASSUME NEW k \in 0 .. 30, k \in T
      PROVE  k + 1 \in T
  <2>1. Term(f \union g, k) = Term(f, k) + Term(g, k) /\ Term(f, k) \in Nat /\ Term(g, k) \in Nat
    BY PowersKnown DEF Term
  <2>2. /\ Sums(f)[k + 1] = Sums(f)[k] + Term(f, k)
        /\ Sums(g)[k + 1] = Sums(g)[k] + Term(g, k)
        /\ Sums(f \union g)[k + 1] = Sums(f \union g)[k] + Term(f \union g, k)
        /\ Sums(f)[k] \in Nat /\ Sums(g)[k] \in Nat
    BY SumsAdd
  <2> QED
    BY <1>2, <2>1, <2>2
<1>3. \A k \in 0 .. 31 : k \in T
  <2> HIDE DEF T
  <2> QED
    BY <1>1, <1>2, IndexInduction
<1>4. 31 \in T
  BY <1>3
<1> QED
  BY <1>4, SumsAdd

\* The number all of whose bits are set.
LEMMA NumberOfInterval ==
  ASSUME NEW n \in 0 .. 31
  PROVE  Number(0 .. n - 1) = Pow(n) - 1
<1> DEFINE f == 0 .. n - 1
           T == {k \in 0 .. 31 : Sums(f)[k] = IF k <= n THEN Pow(k) - 1 ELSE Pow(n) - 1}
<1>0. \A k : k \in f <=> k \in 0 .. n - 1
  OBVIOUS
<1> HIDE DEF f
<1>1. 0 \in T
  <2>1. Pow(0) = 1
    BY DEF Pow
  <2> QED
    BY <2>1, SumsAdd
<1>2. ASSUME NEW k \in 0 .. 30, k \in T
      PROVE  k + 1 \in T
  <2>1. Sums(f)[k + 1] = Sums(f)[k] + Term(f, k) /\ k + 1 \in 0 .. 31
    BY SumsAdd
  <2>2. Pow(k + 1) = 2 * Pow(k) /\ Pow(k) \in Nat /\ Pow(n) \in Nat
    BY PowersKnown
  <2>3. CASE k < n
    <3>1. Term(f, k) = Pow(k) /\ k + 1 <= n /\ k <= n
      BY <2>3, <1>0 DEF Term
    <3> QED
      BY <3>1, <2>1, <2>2, <1>2
  <2>4. CASE n <= k
    <3>1. Term(f, k) = 0 /\ ~(k + 1 <= n)
      BY <2>4, <1>0 DEF Term
    <3>2. Sums(f)[k] = Pow(n) - 1
      <4>1. k = n \/ ~(k <= n)
        BY <2>4
      <4> QED
        BY <4>1, <1>2
    <3> QED
      BY <3>1, <3>2, <2>1, <2>2
  <2> QED
    BY <2>3, <2>4
<1>3. \A k \in 0 .. 31 : k \in T
  <2> HIDE DEF T
  <2> QED
    BY <1>1, <1>2, IndexInduction
<1>4. Sums(f)[31] = Pow(n) - 1
  <2>1. 31 \in T
    BY <1>3
  <2>2. 31 <= n => n = 31
    OBVIOUS
  <2> QED
    BY <2>1, <2>2
<1> QED
  BY <1>4, SumsAdd DEF f

\* A sum that is 0 has no bits, and one beyond all bits is the number.
LEMMA SumsTell ==
  ASSUME NEW f, NEW m \in 0 .. 31
  PROVE  /\ Sums(f)[m] = 0 => \A i \in 0 .. m - 1 : i \notin f
         /\ f \subseteq 0 .. m - 1 => Number(f) = Sums(f)[m]
<1>1. Sums(f)[m] = 0 => \A i \in 0 .. m - 1 : i \notin f
  <2> DEFINE T == {k \in 0 .. 31 : Sums(f)[k] = 0 => \A i \in 0 .. k - 1 : i \notin f}
  <2>1. 0 \in T
    OBVIOUS
  <2>2. ASSUME NEW k \in 0 .. 30, k \in T
        PROVE  k + 1 \in T
    <3>1. /\ Sums(f)[k + 1] = Sums(f)[k] + Term(f, k) /\ k + 1 \in 0 .. 31
          /\ Sums(f)[k] \in Nat
      BY SumsAdd
    <3>2. Term(f, k) \in Nat /\ (k \in f => Term(f, k) # 0)
      BY PowersKnown DEF Term
    <3>3. Sums(f)[k + 1] = 0 => Sums(f)[k] = 0 /\ k \notin f
      BY <3>1, <3>2
    <3>4. \A i \in 0 .. (k + 1) - 1 : i \in 0 .. k - 1 \/ i = k
      OBVIOUS
    <3> QED
      BY <3>1, <3>3, <3>4, <2>2
  <2>3. \A k \in 0 .. 31 : k \in T
    <3> HIDE DEF T
    <3> QED
      BY <2>1, <2>2, IndexInduction
  <2> QED
    BY <2>3
<1>2. ASSUME f \subseteq 0 .. m - 1
      PROVE  Number(f) = Sums(f)[m]
  <2> DEFINE T == {k \in 0 .. 31 : m <= k => Sums(f)[k] = Sums(f)[m]}
  <2>1. 0 \in T
    OBVIOUS
  <2>2. ASSUME NEW k \in 0 .. 30, k \in T
        PROVE  k + 1 \in T
    <3>1. /\ Sums(f)[k + 1] = Sums(f)[k] + Term(f, k) /\ k + 1 \in 0 .. 31
          /\ Sums(f)[k] \in Nat
      BY SumsAdd
    <3>2. m <= k => Term(f, k) = 0
      BY <1>2 DEF Term
    <3>3. m <= k + 1 => m <= k \/ m = k + 1
      OBVIOUS
    <3> QED
      BY <3>1, <3>2, <3>3, <2>2
  <2>3. \A k \in 0 .. 31 : k \in T
    <3> HIDE DEF T
    <3> QED
      BY <2>1, <2>2, IndexInduction
  <2>4. 31 \in T /\ m <= 31
    BY <2>3
  <2> QED
    BY <2>4, SumsAdd
<1> QED
  BY <1>1, <1>2

\* The sign bit of a number of k bits.
LEMMA SignBit ==
  ASSUME NEW k \in 1 .. 31, NEW n \in 0 .. Pow(k) - 1
  PROVE  k - 1 \in Bits(n) <=> ~(n < Pow(k - 1))
<1> DEFINE j == k - 1
<1>1. j \in 0 .. 30 /\ j \in 0 .. 31 /\ j \in 0 .. 32 /\ j + 1 = k
  OBVIOUS
<1> HIDE DEF j
<1>2. Pow(k) = 2 * Pow(j) /\ Pow(j) \in Nat \ {0}
  BY <1>1, PowersKnown
<1>3. j \in Bits(n) <=> (n \div Pow(j)) % 2 = 1
  BY <1>1 DEF Bits, Bit, Pow
<1>4. CASE n < Pow(j)
  <2>1. n \div Pow(j) = 0
    BY <1>4, <1>2
  <2> QED
    BY <1>3, <1>4, <2>1 DEF j
<1>5. CASE ~(n < Pow(j))
  <2>1. n \div Pow(j) = 1
    BY <1>5, <1>2
  <2> QED
    BY <1>3, <1>5, <2>1 DEF j
<1> QED
  BY <1>4, <1>5

\* The complement of a number's bits.
LEMMA NumberOfComplement ==
  ASSUME NEW k \in 0 .. 31, NEW n \in 0 .. Pow(k) - 1
  PROVE  Number((0 .. k - 1) \ Bits(n)) = Pow(k) - 1 - n
<1> DEFINE f == Bits(n)
           g == (0 .. k - 1) \ f
<1>1. Number(f) = n /\ f \subseteq 0 .. k - 1
  BY NumberOfBits
<1>2. f \union g = 0 .. k - 1 /\ f \intersect g = {}
  BY <1>1
<1>3. Number(f \union g) = Number(f) + Number(g)
  <2> HIDE DEF f, g
  <2> QED
    BY <1>2, NumberOfUnion
<1>4. Number(f \union g) = Pow(k) - 1
  BY <1>2, NumberOfInterval
<1>5. Number(g) \in Nat /\ Pow(k) \in Nat
  <2> HIDE DEF g
  <2> QED
    BY SumsAdd, PowersKnown
<1> HIDE DEF g, f
<1>6. Number(g) = Pow(k) - 1 - n
  BY <1>1, <1>3, <1>4, <1>5
<1> QED
  BY <1>6 DEF g, f

\* sign_extend and its siblings make the word of the number that is meant.
LEMMA ExtensionIsSigned ==
  ASSUME NEW k \in 1 .. 31, NEW n \in 0 .. Pow(k) - 1
  PROVE  SignedWord(SignExtend(Bits(n), k)) = Signed(n, k)
<1>1. Number(Bits(n)) = n /\ Bits(n) \subseteq 0 .. k - 1
  BY NumberOfBits
<1>2. k - 1 \in Bits(n) <=> ~(n < Pow(k - 1))
  BY SignBit
<1>3. CASE k - 1 \in Bits(n)
  <2>1. SignExtend(Bits(n), k) = Bits(n) \union (k .. 31)
    BY <1>3 DEF SignExtend
  <2>2. 31 \in SignExtend(Bits(n), k)
    BY <2>1
  <2>3. BitPositions \ SignExtend(Bits(n), k) = (0 .. k - 1) \ Bits(n)
    BY <2>1, <1>1 DEF BitPositions
  <2>4. SignedWord(SignExtend(Bits(n), k)) = -1 - (Pow(k) - 1 - n)
    <3>1. SignedWord(SignExtend(Bits(n), k)) = -1 - Number(BitPositions \ SignExtend(Bits(n), k))
      BY <2>2, Zenon DEF SignedWord
    <3>2. Number((0 .. k - 1) \ Bits(n)) = Pow(k) - 1 - n
      <4>1. k \in 0 .. 31
        OBVIOUS
      <4> QED
        BY <4>1, NumberOfComplement
    <3> QED
      BY <3>1, <3>2, <2>3, Zenon
  <2>5. Signed(n, k) = n - Pow(k)
    BY <1>2, <1>3 DEF Signed, Pow
  <2>6. Pow(k) \in Nat
    BY PowersKnown
  <2> QED
    BY <2>4, <2>5, <2>6
<1>4. CASE k - 1 \notin Bits(n)
  <2>1. SignExtend(Bits(n), k) = Bits(n)
    BY <1>4 DEF SignExtend
  <2>2. 31 \notin Bits(n)
    BY DEF Bits
  <2>3. SignedWord(SignExtend(Bits(n), k)) = n
    BY <2>1, <2>2, <1>1 DEF SignedWord
  <2>4. Signed(n, k) = n
    BY <1>2, <1>4 DEF Signed, Pow
  <2> QED
    BY <2>3, <2>4
<1> QED
  BY <1>3, <1>4

-----------------------------------------------------------------------------
\* What is in a field of a word, and in a field that is put into one.
LEMMA FieldMember ==
  ASSUME NEW w \in SUBSET Int, NEW lo \in Nat, NEW hi \in Nat
  PROVE  /\ Field(w, lo, hi) \subseteq 0 .. hi - lo
         /\ \A x \in Int : x \in Field(w, lo, hi) <=> x \in 0 .. hi - lo /\ x + lo \in w
<1>1. ASSUME NEW x \in Int, x \in 0 .. hi - lo, x + lo \in w
      PROVE  x \in Field(w, lo, hi)
  <2>1. x + lo \in w \intersect lo .. hi /\ x = (x + lo) - lo
    BY <1>1
  <2> QED
    BY <2>1 DEF Field
<1>2. ASSUME NEW x \in Field(w, lo, hi)
      PROVE  x \in 0 .. hi - lo /\ x + lo \in w
  BY <1>2 DEF Field
<1> QED
  BY <1>1, <1>2

\* What is in a field that was put into its place.
LEMMA PlaceMember ==
  ASSUME NEW f \in SUBSET Int, NEW lo \in Nat
  PROVE  /\ Place(f, lo) \subseteq Int
         /\ \A x \in Int : x \in Place(f, lo) <=> x - lo \in f
<1>1. ASSUME NEW x \in Int, x - lo \in f
      PROVE  x \in Place(f, lo)
  <2>1. x = (x - lo) + lo
    OBVIOUS
  <2> QED
    BY <1>1, <2>1 DEF Place
<1>2. ASSUME NEW x \in Place(f, lo)
      PROVE  x \in Int /\ x - lo \in f
  BY <1>2 DEF Place
<1> QED
  BY <1>1, <1>2

\* Twelve places up, a number is 4096 times as large.
LEMMA NumberOfUpper ==
  ASSUME NEW f \in SUBSET (0 .. 18)
  PROVE  Number(Place(f, 12)) = 4096 * Number(f)
<1> DEFINE g == Place(f, 12)
<1>0. \A x \in Int : x \in g <=> x - 12 \in f
  BY PlaceMember
<1> HIDE DEF g
<1>1. ASSUME NEW i \in 0 .. 19
      PROVE  Pow(i + 12) = 4096 * Pow(i) /\ Pow(i) \in Nat
  <2>1. Pow(i) \in Nat /\ Pow(i + 1) = 2 * Pow(i) /\ Pow((i + 1) + 1) = 2 * Pow(i + 1)
        /\ Pow((i + 2) + 1) = 2 * Pow(i + 2) /\ Pow((i + 3) + 1) = 2 * Pow(i + 3)
    BY PowersKnown
  <2>2. Pow((i + 4) + 1) = 2 * Pow(i + 4) /\ Pow((i + 5) + 1) = 2 * Pow(i + 5)
        /\ Pow((i + 6) + 1) = 2 * Pow(i + 6) /\ Pow((i + 7) + 1) = 2 * Pow(i + 7)
    BY PowersKnown
  <2>3. Pow((i + 8) + 1) = 2 * Pow(i + 8) /\ Pow((i + 9) + 1) = 2 * Pow(i + 9)
        /\ Pow((i + 10) + 1) = 2 * Pow(i + 10) /\ Pow((i + 11) + 1) = 2 * Pow(i + 11)
    BY PowersKnown
  <2>4. /\ (i + 1) + 1 = i + 2 /\ (i + 2) + 1 = i + 3 /\ (i + 3) + 1 = i + 4
        /\ (i + 4) + 1 = i + 5 /\ (i + 5) + 1 = i + 6 /\ (i + 6) + 1 = i + 7
        /\ (i + 7) + 1 = i + 8 /\ (i + 8) + 1 = i + 9 /\ (i + 9) + 1 = i + 10
        /\ (i + 10) + 1 = i + 11 /\ (i + 11) + 1 = i + 12
    OBVIOUS
  <2> QED
    BY <2>1, <2>2, <2>3, <2>4
<1> DEFINE T == {k \in 0 .. 19 : Sums(g)[k + 12] = 4096 * Sums(f)[k]}
<1>2. 0 \in T
  <2> DEFINE Z == {k \in 0 .. 12 : Sums(g)[k] = 0}
  <2>2. 0 \in Z
    BY SumsAdd
  <2>3. ASSUME NEW k \in 0 .. 11, k \in Z
        PROVE  k + 1 \in Z
    <3>1. k \in 0 .. 30 /\ Sums(g)[k + 1] = Sums(g)[k] + Term(g, k)
      BY SumsAdd
    <3>2. Term(g, k) = 0
      BY <1>0 DEF Term
    <3> QED
      BY <2>3, <3>1, <3>2
  <2>4. \A k \in 0 .. 12 : k \in Z
    <3> HIDE DEF Z
    <3> QED
      BY <2>2, <2>3, IndexInduction
  <2>5. 12 \in Z
    BY <2>4
  <2> QED
    BY <2>5, SumsAdd
<1>3. ASSUME NEW k \in 0 .. 18, k \in T
      PROVE  k + 1 \in T
  <2>1. k \in 0 .. 30 /\ k + 12 \in 0 .. 30 /\ (k + 12) + 1 = (k + 1) + 12 /\ k \in 0 .. 31
    OBVIOUS
  <2>2. /\ Sums(f)[k + 1] = Sums(f)[k] + Term(f, k)
        /\ Sums(g)[(k + 12) + 1] = Sums(g)[k + 12] + Term(g, k + 12)
        /\ Sums(f)[k] \in Nat
    BY <2>1, SumsAdd
  <2>3. k + 12 \in g <=> k \in f
    BY <1>0
  <2>4. Pow(k + 12) = 4096 * Pow(k) /\ Pow(k) \in Nat
    BY <1>1
  <2>5. Term(g, k + 12) = 4096 * Term(f, k) /\ Term(f, k) \in Nat
    BY <2>3, <2>4 DEF Term
  <2>6. Sums(g)[(k + 1) + 12] = 4096 * Sums(f)[k + 1]
    BY <2>1, <2>2, <2>5, <1>3
  <2> QED
    BY <2>6
<1>4. \A k \in 0 .. 19 : k \in T
  <2> HIDE DEF T
  <2> QED
    BY <1>2, <1>3, IndexInduction
<1>5. 19 \in T
  BY <1>4
<1>6. Sums(g)[31] = 4096 * Sums(f)[19]
  BY <1>5
<1>7. Number(f) = Sums(f)[19]
  <2>1. f \subseteq 0 .. 19 - 1 /\ 19 \in 0 .. 31
    OBVIOUS
  <2> QED
    BY <2>1, SumsTell
<1>8. Number(g) = 4096 * Number(f)
  BY <1>6, <1>7, SumsAdd
<1> QED
  BY <1>8 DEF g

\* The immediate of LUI and AUIPC stands in the upper bits.
LEMMA UpperIsSigned ==
  ASSUME NEW n \in 0 .. Pow(20) - 1
  PROVE  SignedWord(Place(Bits(n), 12)) = Signed(n, 20) * 2^12
<1> DEFINE f == Bits(n)
           w == Place(f, 12)
<1>1. Number(f) = n /\ f \subseteq 0 .. 19 /\ n \in Nat
  <2>1. 20 - 1 = 19 /\ 20 \in 0 .. 31
    OBVIOUS
  <2>2. Pow(20) \in Nat
    BY PowersKnown
  <2> QED
    BY <2>1, <2>2, NumberOfBits
<1>2. 19 \in f <=> ~(n < Pow(19))
  <2>1. 20 - 1 = 19 /\ 20 \in 1 .. 31
    OBVIOUS
  <2> QED
    BY <2>1, SignBit
<1>3. w \subseteq Int /\ \A x \in Int : x \in w <=> x - 12 \in f
  <2>1. f \in SUBSET Int
    BY <1>1
  <2> HIDE DEF f
  <2> QED
    BY <2>1, PlaceMember
<1>4. 31 \in w <=> 19 \in f
  BY <1>3
<1>5. Pow(20) = 1048576 /\ Pow(12) = 4096 /\ Pow(19) = 524288
  BY DEF Pow
<1> HIDE DEF f
<1>6. CASE 19 \in f
  <2> DEFINE g == (0 .. 19) \ f
             h == Place(g, 12)
  <2>1. Number(g) = Pow(20) - 1 - n
    <3>1. 20 - 1 = 19 /\ 20 \in 0 .. 31
      OBVIOUS
    <3>2. Number((0 .. 20 - 1) \ Bits(n)) = Pow(20) - 1 - n
      BY <3>1, NumberOfComplement
    <3> QED
      BY <3>1, <3>2, Zenon DEF f
  <2>2. g \in SUBSET (0 .. 18)
    BY <1>6
  <2>3. \A x \in Int : x \in h <=> x - 12 \in g
    <3>1. g \in SUBSET Int
      BY <2>2
    <3> HIDE DEF g
    <3> QED
      BY <3>1, PlaceMember
  <2>3a. h \subseteq Int
    <3>1. g \in SUBSET Int
      BY <2>2
    <3> HIDE DEF g
    <3> QED
      BY <3>1, PlaceMember
  <2>4. Number(h) = 4096 * Number(g)
    <3> HIDE DEF g
    <3> QED
      BY <2>2, NumberOfUpper
  <2> HIDE DEF h, w
  <2>5. BitPositions \ w = (0 .. 11) \union h
    <3>1. ASSUME NEW x \in Int
          PROVE  x \in BitPositions \ w <=> x \in (0 .. 11) \union h
      BY <1>3, <2>3, <1>1 DEF BitPositions
    <3>2. BitPositions \subseteq Int /\ 0 .. 11 \subseteq Int
      BY DEF BitPositions
    <3> HIDE DEF g
    <3> QED
      BY <3>1, <3>2, <2>3a
  <2>6. (0 .. 11) \intersect h = {}
    BY <2>3, <2>2
  <2>7. Number((0 .. 11) \union h) = Number(0 .. 11) + Number(h)
    BY <2>6, NumberOfUnion
  <2>8. Number(0 .. 11) = 4095
    <3>1. 12 - 1 = 11 /\ 12 \in 0 .. 31
      OBVIOUS
    <3>2. Number(0 .. 12 - 1) = Pow(12) - 1
      BY <3>1, NumberOfInterval
    <3> QED
      BY <3>1, <3>2, <1>5
  <2>9. SignedWord(w) = -1 - Number(BitPositions \ w)
    BY <1>4, <1>6, Zenon DEF SignedWord
  <2> HIDE DEF g
  <2>10. SignedWord(w) = 4096 * (n - 1048576)
    BY <2>9, <2>5, <2>7, <2>8, <2>4, <2>1, <1>5, <1>1
  <2>11. Signed(n, 20) = n - 1048576
    BY <1>2, <1>6, <1>5 DEF Signed, Pow
  <2>12. 4096 * (n - 1048576) = (n - 1048576) * 4096
    BY <1>1
  <2> QED
    BY <2>10, <2>11, <2>12, <1>5 DEF w, f, Pow
<1>7. CASE 19 \notin f
  <2>1. f \in SUBSET (0 .. 18)
    BY <1>7, <1>1
  <2>2. Number(w) = 4096 * Number(f)
    BY <2>1, NumberOfUpper
  <2>3. SignedWord(w) = Number(w)
    <3> HIDE DEF w
    <3> QED
      BY <1>4, <1>7, Zenon DEF SignedWord
  <2>4. Signed(n, 20) = n
    BY <1>2, <1>7, <1>5 DEF Signed, Pow
  <2>5. SignedWord(w) = n * 4096
    BY <2>2, <2>3, <1>1
  <2> QED
    BY <2>5, <2>4, <1>5 DEF w, f, Pow
<1> QED
  BY <1>6, <1>7

\* Two sets of integers with the same elements.
LEMMA SameIntegers ==
  ASSUME NEW p, NEW q, p \subseteq Int, q \subseteq Int, \A x \in Int : x \in p <=> x \in q
  PROVE  p = q
  OBVIOUS

\* A set of bits between two positions, and a word put together from its fields;
\* for the provers to take as they are.
Within(f, lo, hi) == f \subseteq lo .. hi
Assembled(opcode, rd, high) == opcode \union Place(rd, 7) \union high
UpperFields(funct3, rs1, rs2, funct7) ==
    Place(funct3, 12) \union Place(rs1, 15) \union Place(rs2, 20) \union Place(funct7, 25)

\* The opcode and the target register of a word, and what is above them.
LEMMA LowFields ==
  ASSUME NEW a, NEW b, NEW h, Within(a, 0, 6), Within(b, 0, 4), Within(h, 12, 31),
         NEW w, w = Assembled(a, b, h)
  PROVE  /\ Within(w, 0, 31)
         /\ Field(w, 0, 6) = a /\ Field(w, 0, 5) = a \ {6} /\ (6 \in w <=> 6 \in a)
         /\ Field(w, 7, 11) = b /\ w \intersect 12 .. 31 = h
         /\ \A lo \in 12 .. 31, hi \in 12 .. 31 : Field(w, lo, hi) = Field(h, lo, hi)
<1>0. /\ a \in SUBSET (0 .. 6) /\ b \in SUBSET (0 .. 4) /\ h \in SUBSET (12 .. 31)
      /\ w = a \union Place(b, 7) \union h
  BY DEF Within, Assembled
<1>1. Place(b, 7) \subseteq Int /\ \A x \in Int : x \in Place(b, 7) <=> x - 7 \in b
  <2>1. b \in SUBSET Int
    BY <1>0
  <2> QED
    BY <2>1, PlaceMember
<1>2. \A x \in Int : x \in w <=> x \in a \/ x - 7 \in b \/ x \in h
  BY <1>0, <1>1
<1>3. w \in SUBSET Int /\ a \subseteq Int /\ b \subseteq Int
  <2>1. a \subseteq Int /\ b \subseteq Int /\ h \subseteq Int
    BY <1>0
  <2> QED
    BY <2>1, <1>0, <1>1, Zenon
<1>4. Within(w, 0, 31)
  BY <1>0, <1>2, <1>3 DEF Within
<1>5. Field(w, 0, 6) = a
  <2>1. ASSUME NEW x \in Int
        PROVE  x \in Field(w, 0, 6) <=> x \in a
    <3>1. x \in Field(w, 0, 6) <=> x \in 0 .. 6 /\ x + 0 \in w
      BY <1>3, FieldMember
    <3>2. x + 0 \in w <=> x + 0 \in a \/ (x + 0) - 7 \in b \/ x + 0 \in h
      BY <1>2
    <3> QED
      BY <3>1, <3>2, <1>0
  <2>2. Field(w, 0, 6) \subseteq 0 .. 6 - 0
    BY <1>3, FieldMember
  <2>3. Field(w, 0, 6) \subseteq Int /\ a \subseteq Int
    <3>1. 0 .. 6 - 0 \subseteq Int
      OBVIOUS
    <3> QED
      BY <2>2, <3>1, <1>3, Zenon
  <2> QED
    BY <2>1, <2>3, SameIntegers
<1>6. Field(w, 0, 5) = (a \ {6})
  <2>1. ASSUME NEW x \in Int
        PROVE  x \in Field(w, 0, 5) <=> x \in (a \ {6})
    <3>1. x \in Field(w, 0, 5) <=> x \in 0 .. 5 /\ x + 0 \in w
      BY <1>3, FieldMember
    <3>2. x + 0 \in w <=> x + 0 \in a \/ (x + 0) - 7 \in b \/ x + 0 \in h
      BY <1>2
    <3> QED
      BY <3>1, <3>2, <1>0
  <2>2. Field(w, 0, 5) \subseteq 0 .. 5 - 0
    BY <1>3, FieldMember
  <2>3. Field(w, 0, 5) \subseteq Int /\ (a \ {6}) \subseteq Int
    <3>1. 0 .. 5 - 0 \subseteq Int
      OBVIOUS
    <3> QED
      BY <2>2, <3>1, <1>3, Zenon
  <2> QED
    BY <2>1, <2>3, SameIntegers
<1>7. Field(w, 7, 11) = b
  <2>1. ASSUME NEW x \in Int
        PROVE  x \in Field(w, 7, 11) <=> x \in b
    <3>1. x \in Field(w, 7, 11) <=> x \in 0 .. 4 /\ x + 7 \in w
      BY <1>3, FieldMember
    <3>2. x + 7 \in w <=> x + 7 \in a \/ (x + 7) - 7 \in b \/ x + 7 \in h
      BY <1>2
    <3> QED
      BY <3>1, <3>2, <1>0
  <2>2. Field(w, 7, 11) \subseteq 0 .. 11 - 7
    BY <1>3, FieldMember
  <2>3. Field(w, 7, 11) \subseteq Int /\ b \subseteq Int
    <3>1. 0 .. 11 - 7 \subseteq Int
      OBVIOUS
    <3> QED
      BY <2>2, <3>1, <1>3, Zenon
  <2> QED
    BY <2>1, <2>3, SameIntegers
<1>8. w \intersect 12 .. 31 = h
  <2>1. \A x \in Int : x \in w \intersect 12 .. 31 <=> x \in h
    BY <1>0, <1>2
  <2>2. w \intersect 12 .. 31 \subseteq Int /\ h \subseteq Int
    BY <1>0
  <2> QED
    BY <2>1, <2>2, SameIntegers
<1>9. 6 \in w <=> 6 \in a
  BY <1>0, <1>2
<1>10. ASSUME NEW lo \in 12 .. 31, NEW hi \in 12 .. 31
       PROVE  Field(w, lo, hi) = Field(h, lo, hi)
  <2>1. w \intersect lo .. hi = h \intersect lo .. hi
    <3>1. lo .. hi \subseteq 12 .. 31
      OBVIOUS
    <3> QED
      BY <3>1, <1>8, Zenon
  <2> QED
    BY <2>1, Zenon DEF Field
<1> QED
  BY <1>4, <1>5, <1>6, <1>7, <1>8, <1>9, <1>10

\* The fields above them in the formats that have these.
LEMMA HighFields ==
  ASSUME NEW c, NEW d, NEW e, NEW f,
         Within(c, 0, 2), Within(d, 0, 4), Within(e, 0, 4), Within(f, 0, 6),
         NEW h, h = UpperFields(c, d, e, f)
  PROVE  /\ Within(h, 12, 31)
         /\ Field(h, 12, 14) = c /\ Field(h, 15, 19) = d
         /\ Field(h, 20, 24) = e /\ Field(h, 25, 31) = f
         /\ Field(h, 20, 31) = e \union Place(f, 5)
<1>0. /\ c \in SUBSET (0 .. 2) /\ d \in SUBSET (0 .. 4) /\ e \in SUBSET (0 .. 4) /\ f \in SUBSET (0 .. 6)
      /\ h = Place(c, 12) \union Place(d, 15) \union Place(e, 20) \union Place(f, 25)
  BY DEF Within, UpperFields
<1>1. /\ Place(c, 12) \subseteq Int /\ \A x \in Int : x \in Place(c, 12) <=> x - 12 \in c
      /\ Place(d, 15) \subseteq Int /\ \A x \in Int : x \in Place(d, 15) <=> x - 15 \in d
      /\ Place(e, 20) \subseteq Int /\ \A x \in Int : x \in Place(e, 20) <=> x - 20 \in e
      /\ Place(f, 25) \subseteq Int /\ \A x \in Int : x \in Place(f, 25) <=> x - 25 \in f
  <2>1. c \in SUBSET Int /\ d \in SUBSET Int /\ e \in SUBSET Int /\ f \in SUBSET Int
    BY <1>0
  <2> QED
    BY <2>1, PlaceMember
<1>2. \A x \in Int : x \in h <=> x - 12 \in c \/ x - 15 \in d \/ x - 20 \in e \/ x - 25 \in f
  BY <1>0, <1>1
<1>3. /\ h \in SUBSET Int /\ c \subseteq Int /\ d \subseteq Int
      /\ e \subseteq Int /\ f \subseteq Int
  <2>1. c \subseteq Int /\ d \subseteq Int /\ e \subseteq Int /\ f \subseteq Int
    BY <1>0
  <2> QED
    BY <2>1, <1>0, <1>1, Zenon
<1>4. Within(h, 12, 31)
  BY <1>0, <1>2, <1>3 DEF Within
<1>5. Field(h, 12, 14) = c
  <2>1. ASSUME NEW x \in Int
        PROVE  x \in Field(h, 12, 14) <=> x \in c
    <3>1. x \in Field(h, 12, 14) <=> x \in 0 .. 2 /\ x + 12 \in h
      BY <1>3, FieldMember
    <3>2. x + 12 \in h <=> \/ (x + 12) - 12 \in c \/ (x + 12) - 15 \in d
                            \/ (x + 12) - 20 \in e \/ (x + 12) - 25 \in f
      BY <1>2
    <3> QED
      BY <3>1, <3>2, <1>0
  <2>2. Field(h, 12, 14) \subseteq 0 .. 14 - 12
    BY <1>3, FieldMember
  <2>3. Field(h, 12, 14) \subseteq Int /\ c \subseteq Int
    <3>1. 0 .. 14 - 12 \subseteq Int
      OBVIOUS
    <3> QED
      BY <2>2, <3>1, <1>3, Zenon
  <2> QED
    BY <2>1, <2>3, SameIntegers
<1>6. Field(h, 15, 19) = d
  <2>1. ASSUME NEW x \in Int
        PROVE  x \in Field(h, 15, 19) <=> x \in d
    <3>1. x \in Field(h, 15, 19) <=> x \in 0 .. 4 /\ x + 15 \in h
      BY <1>3, FieldMember
    <3>2. x + 15 \in h <=> \/ (x + 15) - 12 \in c \/ (x + 15) - 15 \in d
                            \/ (x + 15) - 20 \in e \/ (x + 15) - 25 \in f
      BY <1>2
    <3> QED
      BY <3>1, <3>2, <1>0
  <2>2. Field(h, 15, 19) \subseteq 0 .. 19 - 15
    BY <1>3, FieldMember
  <2>3. Field(h, 15, 19) \subseteq Int /\ d \subseteq Int
    <3>1. 0 .. 19 - 15 \subseteq Int
      OBVIOUS
    <3> QED
      BY <2>2, <3>1, <1>3, Zenon
  <2> QED
    BY <2>1, <2>3, SameIntegers
<1>7. Field(h, 20, 24) = e
  <2>1. ASSUME NEW x \in Int
        PROVE  x \in Field(h, 20, 24) <=> x \in e
    <3>1. x \in Field(h, 20, 24) <=> x \in 0 .. 4 /\ x + 20 \in h
      BY <1>3, FieldMember
    <3>2. x + 20 \in h <=> \/ (x + 20) - 12 \in c \/ (x + 20) - 15 \in d
                            \/ (x + 20) - 20 \in e \/ (x + 20) - 25 \in f
      BY <1>2
    <3> QED
      BY <3>1, <3>2, <1>0
  <2>2. Field(h, 20, 24) \subseteq 0 .. 24 - 20
    BY <1>3, FieldMember
  <2>3. Field(h, 20, 24) \subseteq Int /\ e \subseteq Int
    <3>1. 0 .. 24 - 20 \subseteq Int
      OBVIOUS
    <3> QED
      BY <2>2, <3>1, <1>3, Zenon
  <2> QED
    BY <2>1, <2>3, SameIntegers
<1>8. Field(h, 25, 31) = f
  <2>1. ASSUME NEW x \in Int
        PROVE  x \in Field(h, 25, 31) <=> x \in f
    <3>1. x \in Field(h, 25, 31) <=> x \in 0 .. 6 /\ x + 25 \in h
      BY <1>3, FieldMember
    <3>2. x + 25 \in h <=> \/ (x + 25) - 12 \in c \/ (x + 25) - 15 \in d
                            \/ (x + 25) - 20 \in e \/ (x + 25) - 25 \in f
      BY <1>2
    <3> QED
      BY <3>1, <3>2, <1>0
  <2>2. Field(h, 25, 31) \subseteq 0 .. 31 - 25
    BY <1>3, FieldMember
  <2>3. Field(h, 25, 31) \subseteq Int /\ f \subseteq Int
    <3>1. 0 .. 31 - 25 \subseteq Int
      OBVIOUS
    <3> QED
      BY <2>2, <3>1, <1>3, Zenon
  <2> QED
    BY <2>1, <2>3, SameIntegers
<1>9. Field(h, 20, 31) = e \union Place(f, 5)
  <2>0. Place(f, 5) \subseteq Int /\ \A x \in Int : x \in Place(f, 5) <=> x - 5 \in f
    <3>1. f \in SUBSET Int
      BY <1>3
    <3> QED
      BY <3>1, PlaceMember
  <2>1. ASSUME NEW x \in Int
        PROVE  x \in Field(h, 20, 31) <=> x \in e \union Place(f, 5)
    <3>1. x \in Field(h, 20, 31) <=> x \in 0 .. 11 /\ x + 20 \in h
      BY <1>3, FieldMember
    <3>2. x + 20 \in h <=> \/ (x + 20) - 12 \in c \/ (x + 20) - 15 \in d
                            \/ (x + 20) - 20 \in e \/ (x + 20) - 25 \in f
      BY <1>2
    <3>3. (x + 20) - 20 = x /\ (x + 20) - 25 = x - 5
      OBVIOUS
    <3>4. x \in Field(h, 20, 31) <=> x \in e \/ x - 5 \in f
      BY <3>1, <3>2, <3>3, <1>0
    <3> QED
      BY <3>4, <2>0
  <2>2. Field(h, 20, 31) \subseteq 0 .. 31 - 20
    BY <1>3, FieldMember
  <2>3. Field(h, 20, 31) \subseteq Int /\ e \union Place(f, 5) \subseteq Int
    <3>1. 0 .. 31 - 20 \subseteq Int
      OBVIOUS
    <3> QED
      BY <2>2, <3>1, <2>0, <1>3, Zenon
  <2> QED
    BY <2>1, <2>3, SameIntegers
<1> QED
  BY <1>4, <1>5, <1>6, <1>7, <1>8, <1>9

\* An immediate of 12 bits at position 20 takes the fields of rs2 and funct7.
LEMMA ImmediateFields ==
  ASSUME NEW m, Within(m, 0, 11)
  PROVE  /\ Place(m, 20) = Place(m \intersect 0 .. 4, 20) \union Place(Field(m, 5, 11), 25)
         /\ Within(m \intersect 0 .. 4, 0, 4) /\ Within(Field(m, 5, 11), 0, 6)
         /\ m = (m \intersect 0 .. 4) \union Place(Field(m, 5, 11), 5)
<1> DEFINE e == m \intersect 0 .. 4
           f == Field(m, 5, 11)
<1>0. m \in SUBSET (0 .. 11)
  BY DEF Within
<1>1. f \subseteq 0 .. 6 /\ \A x \in Int : x \in f <=> x \in 0 .. 6 /\ x + 5 \in m
  <2>1. m \in SUBSET Int /\ 11 - 5 = 6
    BY <1>0
  <2> QED
    BY <2>1, FieldMember
<1>2. e \subseteq 0 .. 4 /\ \A x \in Int : x \in e <=> x \in 0 .. 4 /\ x \in m
  OBVIOUS
<1> HIDE DEF e, f
<1>3. /\ Place(m, 20) \subseteq Int /\ \A x \in Int : x \in Place(m, 20) <=> x - 20 \in m
      /\ Place(e, 20) \subseteq Int /\ \A x \in Int : x \in Place(e, 20) <=> x - 20 \in e
      /\ Place(f, 25) \subseteq Int /\ \A x \in Int : x \in Place(f, 25) <=> x - 25 \in f
      /\ Place(f, 5) \subseteq Int /\ \A x \in Int : x \in Place(f, 5) <=> x - 5 \in f
  <2>1. m \in SUBSET Int /\ e \in SUBSET Int /\ f \in SUBSET Int
    BY <1>0, <1>1, <1>2
  <2> QED
    BY <2>1, PlaceMember
<1>4. Place(m, 20) = Place(e, 20) \union Place(f, 25)
  <2>1. ASSUME NEW x \in Int
        PROVE  x \in Place(m, 20) <=> x \in Place(e, 20) \union Place(f, 25)
    <3>1. x - 25 \in f <=> x - 25 \in 0 .. 6 /\ (x - 25) + 5 \in m
      BY <1>1
    <3>2. x - 20 \in e <=> x - 20 \in 0 .. 4 /\ x - 20 \in m
      BY <1>2
    <3>3. (x - 25) + 5 = x - 20
      OBVIOUS
    <3>4. x - 20 \in m => x - 20 \in 0 .. 11
      BY <1>0
    <3>5. x \in Place(m, 20) <=> x - 20 \in e \/ x - 25 \in f
      BY <3>1, <3>2, <3>3, <3>4, <1>3
    <3> QED
      BY <3>5, <1>3
  <2> QED
    BY <2>1, <1>3, SameIntegers
<1>5. m = e \union Place(f, 5)
  <2>1. ASSUME NEW x \in Int
        PROVE  x \in m <=> x \in e \union Place(f, 5)
    <3>1. x - 5 \in f <=> x - 5 \in 0 .. 6 /\ (x - 5) + 5 \in m
      BY <1>1
    <3>2. x \in e <=> x \in 0 .. 4 /\ x \in m
      BY <1>2
    <3>3. (x - 5) + 5 = x
      OBVIOUS
    <3>4. x \in m => x \in 0 .. 11
      BY <1>0
    <3>5. x \in m <=> x \in e \/ x - 5 \in f
      BY <3>1, <3>2, <3>3, <3>4
    <3> QED
      BY <3>5, <1>3
  <2>2. m \subseteq Int /\ e \union Place(f, 5) \subseteq Int
    <3>1. m \subseteq Int /\ e \subseteq Int
      BY <1>0, <1>2
    <3> QED
      BY <3>1, <1>3, Zenon
  <2> QED
    BY <2>1, <2>2, SameIntegers
<1> QED
  BY <1>1, <1>2, <1>4, <1>5 DEF e, f, Within

-----------------------------------------------------------------------------
\* The opcodes of the classes of instructions.
LEMMA Opcodes ==
  /\ \A n \in RegisterOps : Opcode(n) = 51
  /\ \A n \in ImmediateOps : Opcode(n) = 19
  /\ \A n \in LoadNames : Opcode(n) = 3
  /\ \A n \in StoreNames : Opcode(n) = 35
  /\ Opcode("LUI") = 55 /\ Opcode("AUIPC") = 23
  /\ Opcode("HALT") = 127 /\ Opcode("SX_SLT") = 126 /\ Opcode("SX_SLTI") = 125
  /\ Opcode("BEQ") = 99 /\ Opcode("JAL") = 111 /\ Opcode("JALR") = 103
<1> USE DEF ImmediateOps, RegisterOps, LoadNames, StoreNames, BranchOps
<1>1. ASSUME NEW n \in RegisterOps PROVE Opcode(n) = 51
  <2>1. /\ n \notin ImmediateOps \union LoadNames \union StoreNames \union BranchOps
        /\ n \notin {"LUI", "AUIPC", "JAL", "JALR", "HALT", "SX_SLT", "SX_SLTI"}
    OBVIOUS
  <2> QED
    BY <2>1, Zenon DEF Opcode
<1>2. ASSUME NEW n \in ImmediateOps PROVE Opcode(n) = 19
  <2>1. /\ n \notin RegisterOps \union LoadNames \union StoreNames \union BranchOps
        /\ n \notin {"LUI", "AUIPC", "JAL", "JALR", "HALT", "SX_SLT", "SX_SLTI"}
    OBVIOUS
  <2> QED
    BY <2>1, Zenon DEF Opcode
<1>3. ASSUME NEW n \in LoadNames PROVE Opcode(n) = 3
  <2>1. /\ n \notin RegisterOps \union ImmediateOps \union StoreNames \union BranchOps
        /\ n \notin {"LUI", "AUIPC", "JAL", "JALR", "HALT", "SX_SLT", "SX_SLTI"}
    OBVIOUS
  <2> QED
    BY <2>1, Zenon DEF Opcode
<1>4. ASSUME NEW n \in StoreNames PROVE Opcode(n) = 35
  <2>1. /\ n \notin RegisterOps \union ImmediateOps \union LoadNames \union BranchOps
        /\ n \notin {"LUI", "AUIPC", "JAL", "JALR", "HALT", "SX_SLT", "SX_SLTI"}
    OBVIOUS
  <2> QED
    BY <2>1, Zenon DEF Opcode
<1>5. Opcode("LUI") = 55 /\ Opcode("AUIPC") = 23 /\ Opcode("BEQ") = 99
  BY Zenon DEF Opcode
<1>6. Opcode("HALT") = 127 /\ Opcode("SX_SLT") = 126 /\ Opcode("SX_SLTI") = 125
  BY Zenon DEF Opcode
<1>7. Opcode("JAL") = 111 /\ Opcode("JALR") = 103
  BY Zenon DEF Opcode
<1> QED
  BY <1>1, <1>2, <1>3, <1>4, <1>5, <1>6, <1>7

\* Bits of numbers below 128: they tell the numbers apart, bit 6 is that of
\* 64, and setting it adds 64.
LEMMA OpcodeBits ==
  /\ \A c \in 0 .. 127 : Number(Bits(c)) = c /\ Bits(c) \subseteq 0 .. 6 /\ (6 \in Bits(c) <=> 64 <= c)
  /\ \A c \in 0 .. 63 : Bits(c) \subseteq 0 .. 5 /\ Number(Bits(c) \union {6}) = c + 64
<1>1. Pow(7) = 128 /\ Pow(6) = 64
  BY DEF Pow
<1>2. ASSUME NEW c \in 0 .. 127
      PROVE  Number(Bits(c)) = c /\ Bits(c) \subseteq 0 .. 6 /\ (6 \in Bits(c) <=> 64 <= c)
  <2>1. c \in 0 .. Pow(7) - 1 /\ 7 \in 1 .. 31 /\ 7 \in 0 .. 31 /\ 7 - 1 = 6
    BY <1>1
  <2>2. Number(Bits(c)) = c /\ Bits(c) \subseteq 0 .. 7 - 1
    BY <2>1, NumberOfBits
  <2>3. 7 - 1 \in Bits(c) <=> ~(c < Pow(7 - 1))
    BY <2>1, SignBit
  <2> QED
    BY <2>1, <2>2, <2>3, <1>1
<1>3. Number({6}) = 64
  <2>1. Number(0 .. 6) = 127
    <3>1. 7 - 1 = 6 /\ 7 \in 0 .. 31
      OBVIOUS
    <3>2. Number(0 .. 7 - 1) = Pow(7) - 1
      BY <3>1, NumberOfInterval
    <3> QED
      BY <3>1, <3>2, <1>1
  <2>2. Number(0 .. 5) = 63
    <3>1. 6 - 1 = 5 /\ 6 \in 0 .. 31
      OBVIOUS
    <3>2. Number(0 .. 6 - 1) = Pow(6) - 1
      BY <3>1, NumberOfInterval
    <3> QED
      BY <3>1, <3>2, <1>1
  <2>3. (0 .. 5) \union {6} = 0 .. 6 /\ (0 .. 5) \intersect {6} = {}
    OBVIOUS
  <2>4. Number((0 .. 5) \union {6}) = Number(0 .. 5) + Number({6})
    BY <2>3, NumberOfUnion
  <2>5. Number({6}) \in Nat
    BY SumsAdd
  <2> QED
    BY <2>1, <2>2, <2>3, <2>4, <2>5
<1>4. ASSUME NEW c \in 0 .. 63
      PROVE  Bits(c) \subseteq 0 .. 5 /\ Number(Bits(c) \union {6}) = c + 64
  <2>1. c \in 0 .. 127
    OBVIOUS
  <2>2. Number(Bits(c)) = c /\ Bits(c) \subseteq 0 .. 6 /\ 6 \notin Bits(c)
    BY <2>1, <1>2
  <2>3. Bits(c) \intersect {6} = {}
    BY <2>2
  <2>4. Number(Bits(c) \union {6}) = Number(Bits(c)) + Number({6})
    BY <2>3, NumberOfUnion
  <2> QED
    BY <2>2, <2>4, <1>3
<1> QED
  BY <1>2, <1>4

\* The class that the decoder is to find.
Class(name) ==
    CASE name \in RegisterOps -> "R"
      [] name \in ImmediateOps -> "I"
      [] name \in LoadNames -> "LOAD"
      [] name \in StoreNames -> "STORE"
      [] OTHER -> name

\* Opcode and prefix of a word, as the constructors and make_scalar set them.
OpcodeField(name, scalar) == Bits(Opcode(name)) \union (IF scalar THEN {6} ELSE {})

OneFormNames == JumpOps \union VectorScalarOps \union {"HALT"}

\* An instruction whose opcode is without bit 6.
LEMMA TwoFormClass ==
  ASSUME NEW name \in Names \ (BranchOps \union OneFormNames), NEW scalar \in BOOLEAN,
         name \in StoreNames => ~scalar,
         NEW w, Field(w, 0, 6) = OpcodeField(name, scalar),
         Field(w, 0, 5) = OpcodeField(name, scalar) \ {6}
  PROVE  ClassOf(w) = Class(name) /\ (6 \in OpcodeField(name, scalar) <=> scalar)
<1> DEFINE c == Opcode(name)
           a == OpcodeField(name, scalar)
<1>1. \/ name \in RegisterOps \/ name \in ImmediateOps \/ name \in LoadNames \/ name \in StoreNames
      \/ name = "LUI" \/ name = "AUIPC"
  BY DEF Names, AluOps, OneFormNames, UpperNames
<1>2. c \in {51, 19, 3, 55, 23} \/ (c = 35 /\ ~scalar)
  BY <1>1, Opcodes
<1>3. Bits(c) \subseteq 0 .. 5 /\ Number(Bits(c)) = c /\ Number(Bits(c) \union {6}) = c + 64
  <2>1. c \in 0 .. 63 /\ c \in 0 .. 127
    BY <1>2
  <2> HIDE DEF c
  <2> QED
    BY <2>1, OpcodeBits
<1>4. a = IF scalar THEN Bits(c) \union {6} ELSE Bits(c)
  BY DEF OpcodeField
<1>5. a \ {6} = Bits(c) /\ (6 \in a <=> scalar)
  <2> HIDE DEF a, c
  <2> QED
    BY <1>3, <1>4
<1>6. Number(a) = IF scalar THEN c + 64 ELSE c
  <2> HIDE DEF a, c
  <2> QED
    BY <1>3, <1>4
<1>7. Number(a) \notin {127, 126, 125, 99, 111, 103}
  <2> HIDE DEF a, c
  <2> QED
    BY <1>2, <1>6
<1>8. /\ Number(Bits(127)) = 127 /\ Number(Bits(126)) = 126 /\ Number(Bits(125)) = 125
      /\ Number(Bits(99)) = 99 /\ Number(Bits(111)) = 111 /\ Number(Bits(103)) = 103
  BY OpcodeBits
<1>9. /\ Number(Bits(51)) = 51 /\ Number(Bits(19)) = 19 /\ Number(Bits(3)) = 3
      /\ Number(Bits(35)) = 35 /\ Number(Bits(55)) = 55 /\ Number(Bits(23)) = 23
  BY OpcodeBits
<1>10. /\ Opcode("HALT") = 127 /\ Opcode("SX_SLT") = 126 /\ Opcode("SX_SLTI") = 125
       /\ Opcode("BEQ") = 99 /\ Opcode("JAL") = 111 /\ Opcode("JALR") = 103
  BY Opcodes
<1>11. /\ Opcode("ADD") = 51 /\ Opcode("ADDI") = 19 /\ Opcode("LW") = 3
       /\ Opcode("SW") = 35 /\ Opcode("LUI") = 55 /\ Opcode("AUIPC") = 23
  <2>1. "ADD" \in RegisterOps /\ "ADDI" \in ImmediateOps /\ "LW" \in LoadNames /\ "SW" \in StoreNames
    BY DEF RegisterOps, ImmediateOps, LoadNames, StoreNames
  <2> QED
    BY <2>1, Opcodes
<1>12. /\ Field(w, 0, 6) # Bits(Opcode("HALT")) /\ Field(w, 0, 6) # Bits(Opcode("SX_SLT"))
       /\ Field(w, 0, 6) # Bits(Opcode("SX_SLTI")) /\ Field(w, 0, 6) # Bits(Opcode("BEQ"))
       /\ Field(w, 0, 6) # Bits(Opcode("JAL")) /\ Field(w, 0, 6) # Bits(Opcode("JALR"))
  <2> HIDE DEF a
  <2> Field(w, 0, 6) = a
    BY DEF a
  <2> QED
    BY <1>7, <1>8, <1>10
<1>13. Field(w, 0, 5) = Bits(c)
  BY <1>5
<1> DEFINE isForm(n) == Field(w, 0, 5) = Bits(Opcode(n))
<1>14. \A n \in {"ADD", "ADDI", "LW", "SW", "LUI", "AUIPC"} : isForm(n) <=> Opcode(n) = c
  <2> HIDE DEF c
  <2> QED
    BY <1>3, <1>9, <1>11, <1>13
<1> DEFINE inner == CASE isForm("ADD") -> "R"
                      [] isForm("ADDI") -> "I"
                      [] isForm("LW") -> "LOAD"
                      [] isForm("SW") -> "STORE"
                      [] isForm("LUI") -> "LUI"
                      [] isForm("AUIPC") -> "AUIPC"
                      [] OTHER -> "NOOP"
<1>15. ClassOf(w) = inner
  BY <1>12, Zenon DEF ClassOf
<1>16. inner = Class(name)
  <2> HIDE DEF isForm
  <2>1. CASE name \in RegisterOps
    <3>1. c = 51 /\ Class(name) = "R"
      BY <2>1, Opcodes DEF Class, RegisterOps, ImmediateOps, LoadNames, StoreNames
    <3>2. isForm("ADD") /\ ~isForm("ADDI") /\ ~isForm("LW") /\ ~isForm("SW") /\ ~isForm("LUI") /\ ~isForm("AUIPC")
      BY <3>1, <1>11, <1>14
    <3> QED
      BY <3>1, <3>2, Zenon
  <2>2. CASE name \in ImmediateOps
    <3>1. c = 19 /\ Class(name) = "I"
      BY <2>2, Opcodes DEF Class, RegisterOps, ImmediateOps, LoadNames, StoreNames
    <3>2. ~isForm("ADD") /\ isForm("ADDI") /\ ~isForm("LW") /\ ~isForm("SW") /\ ~isForm("LUI") /\ ~isForm("AUIPC")
      BY <3>1, <1>11, <1>14
    <3> QED
      BY <3>1, <3>2, Zenon
  <2>3. CASE name \in LoadNames
    <3>1. c = 3 /\ Class(name) = "LOAD"
      BY <2>3, Opcodes DEF Class, RegisterOps, ImmediateOps, LoadNames, StoreNames
    <3>2. ~isForm("ADD") /\ ~isForm("ADDI") /\ isForm("LW") /\ ~isForm("SW") /\ ~isForm("LUI") /\ ~isForm("AUIPC")
      BY <3>1, <1>11, <1>14
    <3> QED
      BY <3>1, <3>2, Zenon
  <2>4. CASE name \in StoreNames
    <3>1. c = 35 /\ Class(name) = "STORE"
      BY <2>4, Opcodes DEF Class, RegisterOps, ImmediateOps, LoadNames, StoreNames
    <3>2. ~isForm("ADD") /\ ~isForm("ADDI") /\ ~isForm("LW") /\ isForm("SW") /\ ~isForm("LUI") /\ ~isForm("AUIPC")
      BY <3>1, <1>11, <1>14
    <3> QED
      BY <3>1, <3>2, Zenon
  <2>5. CASE name = "LUI"
    <3>1. c = 55 /\ Class(name) = "LUI"
      BY <2>5, Opcodes DEF Class, RegisterOps, ImmediateOps, LoadNames, StoreNames
    <3>2. ~isForm("ADD") /\ ~isForm("ADDI") /\ ~isForm("LW") /\ ~isForm("SW") /\ isForm("LUI") /\ ~isForm("AUIPC")
      BY <3>1, <1>11, <1>14
    <3> QED
      BY <3>1, <3>2, Zenon
  <2>6. CASE name = "AUIPC"
    <3>1. c = 23 /\ Class(name) = "AUIPC"
      BY <2>6, Opcodes DEF Class, RegisterOps, ImmediateOps, LoadNames, StoreNames
    <3>2. ~isForm("ADD") /\ ~isForm("ADDI") /\ ~isForm("LW") /\ ~isForm("SW") /\ ~isForm("LUI") /\ isForm("AUIPC")
      BY <3>1, <1>11, <1>14
    <3> QED
      BY <3>1, <3>2, Zenon
  <2> QED
    BY <1>1, <2>1, <2>2, <2>3, <2>4, <2>5, <2>6
<1> QED
  BY <1>5, <1>15, <1>16

\* An instruction whose opcode has bit 6.
LEMMA OneFormClass ==
  ASSUME NEW name \in OneFormNames, NEW scalar \in BOOLEAN,
         NEW w, Field(w, 0, 6) = OpcodeField(name, scalar)
  PROVE  ClassOf(w) = Class(name) /\ 6 \in OpcodeField(name, scalar)
<1> DEFINE c == Opcode(name)
<1>1. name \in {"HALT", "SX_SLT", "SX_SLTI", "JAL", "JALR"}
  BY DEF OneFormNames, JumpOps, VectorScalarOps
<1>2. c \in {127, 126, 125, 111, 103}
  BY <1>1, Opcodes
<1>3. 6 \in Bits(c)
  <2>1. c \in 0 .. 127 /\ 64 <= c
    BY <1>2
  <2> HIDE DEF c
  <2> QED
    BY <2>1, OpcodeBits
<1>4. OpcodeField(name, scalar) = Bits(c)
  BY <1>3 DEF OpcodeField
<1>5. /\ Number(Bits(127)) = 127 /\ Number(Bits(126)) = 126 /\ Number(Bits(125)) = 125
      /\ Number(Bits(99)) = 99 /\ Number(Bits(111)) = 111 /\ Number(Bits(103)) = 103
  BY OpcodeBits
<1>6. /\ Opcode("HALT") = 127 /\ Opcode("SX_SLT") = 126 /\ Opcode("SX_SLTI") = 125
      /\ Opcode("BEQ") = 99 /\ Opcode("JAL") = 111 /\ Opcode("JALR") = 103
  BY Opcodes
<1> DEFINE is(n) == Field(w, 0, 6) = Bits(Opcode(n))
<1>7. \A n \in {"HALT", "SX_SLT", "SX_SLTI", "BEQ", "JAL", "JALR"} : is(n) <=> n = name
  BY <1>1, <1>4, <1>5, <1>6
<1>8. Class(name) = name
  BY <1>1 DEF Class, RegisterOps, ImmediateOps, LoadNames, StoreNames
<1>9. ClassOf(w) = name
  <2>1. CASE name = "HALT"
    <3>1. is("HALT") /\ ~is("SX_SLT") /\ ~is("SX_SLTI") /\ ~is("BEQ") /\ ~is("JAL") /\ ~is("JALR")
      BY <2>1, <1>7
    <3> QED
      BY <2>1, <3>1, Zenon DEF ClassOf
  <2>2. CASE name = "SX_SLT"
    <3>1. ~is("HALT") /\ is("SX_SLT") /\ ~is("SX_SLTI") /\ ~is("BEQ") /\ ~is("JAL") /\ ~is("JALR")
      BY <2>2, <1>7
    <3> QED
      BY <2>2, <3>1, Zenon DEF ClassOf
  <2>3. CASE name = "SX_SLTI"
    <3>1. ~is("HALT") /\ ~is("SX_SLT") /\ is("SX_SLTI") /\ ~is("BEQ") /\ ~is("JAL") /\ ~is("JALR")
      BY <2>3, <1>7
    <3> QED
      BY <2>3, <3>1, Zenon DEF ClassOf
  <2>4. CASE name = "JAL"
    <3>1. ~is("HALT") /\ ~is("SX_SLT") /\ ~is("SX_SLTI") /\ ~is("BEQ") /\ is("JAL") /\ ~is("JALR")
      BY <2>4, <1>7
    <3> QED
      BY <2>4, <3>1, Zenon DEF ClassOf
  <2>5. CASE name = "JALR"
    <3>1. ~is("HALT") /\ ~is("SX_SLT") /\ ~is("SX_SLTI") /\ ~is("BEQ") /\ ~is("JAL") /\ is("JALR")
      BY <2>5, <1>7
    <3> QED
      BY <2>5, <3>1, Zenon DEF ClassOf
  <2> QED
    BY <1>1, <2>1, <2>2, <2>3, <2>4, <2>5
<1> QED
  BY <1>3, <1>4, <1>8, <1>9

-----------------------------------------------------------------------------
\* funct3 and funct7 fit their fields, which give them back.
LEMMA FunctBits ==
  ASSUME NEW name
  PROVE  /\ Within(Bits(Funct3(name)), 0, 2) /\ Number(Bits(Funct3(name))) = Funct3(name)
         /\ Within(Bits(Funct7(name)), 0, 6) /\ Number(Bits(Funct7(name))) = Funct7(name)
<1>1. Pow(3) = 8 /\ Pow(7) = 128
  BY DEF Pow
<1>2. Funct3(name) \in 0 .. 7
  <2>1. Funct3(name) \in {0, 1, 2, 4, 5, 6, 7}
    BY SMT DEF Funct3
  <2> QED
    BY <2>1
<1>3. Funct7(name) \in 0 .. 127
  BY DEF Funct7
<1>4. /\ Number(Bits(Funct3(name))) = Funct3(name)
      /\ Bits(Funct3(name)) \subseteq 0 .. 2
  <2>1. Funct3(name) \in 0 .. Pow(3) - 1 /\ 3 \in 0 .. 31 /\ 3 - 1 = 2
    BY <1>1, <1>2
  <2>2. Number(Bits(Funct3(name))) = Funct3(name) /\ Bits(Funct3(name)) \subseteq 0 .. 3 - 1
    BY <2>1, NumberOfBits
  <2> QED
    BY <2>1, <2>2
<1>5. /\ Number(Bits(Funct7(name))) = Funct7(name)
      /\ Bits(Funct7(name)) \subseteq 0 .. 6
  <2>1. Funct7(name) \in 0 .. Pow(7) - 1 /\ 7 \in 0 .. 31 /\ 7 - 1 = 6
    BY <1>1, <1>3
  <2>2. Number(Bits(Funct7(name))) = Funct7(name) /\ Bits(Funct7(name)) \subseteq 0 .. 7 - 1
    BY <2>1, NumberOfBits
  <2> QED
    BY <2>1, <2>2
<1> QED
  BY <1>4, <1>5 DEF Within

\* The number of a register fits its field.
LEMMA RegisterBits ==
  ASSUME NEW r \in Registers
  PROVE  Within(Bits(r), 0, 4) /\ Number(Bits(r)) = r
<1>1. r \in 0 .. Pow(5) - 1 /\ 5 \in 0 .. 31 /\ 5 - 1 = 4
  <2>1. Pow(5) = 32
    BY DEF Pow
  <2> QED
    BY <2>1, BitsAssumption DEF Registers
<1>2. Number(Bits(r)) = r /\ Bits(r) \subseteq 0 .. 5 - 1
  BY <1>1, NumberOfBits
<1> QED
  BY <1>1, <1>2 DEF Within

\* funct3 and, where the decoder looks at it, funct7 single out the operation.
LEMMA OperationIsSelected ==
  /\ \A n \in RegisterOps : AluOperation(RegisterOps, Funct3(n), Funct7(n)) = n
  /\ \A n \in ImmediateOps, f \in Nat :
        (Funct3(n) = 5 => f = Funct7(n)) => AluOperation(ImmediateOps, Funct3(n), f) = n
<1> DEFINE Reads(names, funct3) == \/ names = RegisterOps /\ funct3 \in {0, 5}
                                   \/ names = ImmediateOps /\ funct3 = 5
           Selected(names, funct3, funct7) ==
             {n \in names : /\ Funct3(n) = funct3
                            /\ Reads(names, funct3) => Funct7(n) = funct7}
<1>0. ASSUME NEW names, NEW funct3, NEW funct7, NEW n, Selected(names, funct3, funct7) = {n}
      PROVE  AluOperation(names, funct3, funct7) = n
  <2>1. Selected(names, funct3, funct7) # {} /\ n = CHOOSE x \in Selected(names, funct3, funct7) : TRUE
    BY <1>0
  <2>2. AluOperation(names, funct3, funct7) =
           IF Selected(names, funct3, funct7) = {} THEN "ADDI"
           ELSE CHOOSE x \in Selected(names, funct3, funct7) : TRUE
    BY Zenon DEF AluOperation
  <2> HIDE DEF Selected
  <2> QED
    BY <2>1, <2>2, Zenon
<1>1. RegisterOps # ImmediateOps
  BY DEF RegisterOps, ImmediateOps
<1>2. ASSUME NEW n \in RegisterOps
      PROVE  AluOperation(RegisterOps, Funct3(n), Funct7(n)) = n
  <2>1. Selected(RegisterOps, Funct3(n), Funct7(n)) = {n}
    <3>1. ASSUME NEW x \in RegisterOps
          PROVE  (Funct3(x) = Funct3(n) /\ (Funct3(n) \in {0, 5} => Funct7(x) = Funct7(n))) <=> x = n
      BY SMT DEF RegisterOps, Funct3, Funct7
    <3>2. Reads(RegisterOps, Funct3(n)) <=> Funct3(n) \in {0, 5}
      BY <1>1
    <3> HIDE DEF Reads
    <3> QED
      BY <3>1, <3>2
  <2> HIDE DEF Selected
  <2> QED
    BY <2>1, <1>0
<1>3. ASSUME NEW n \in ImmediateOps, NEW f \in Nat, Funct3(n) = 5 => f = Funct7(n)
      PROVE  AluOperation(ImmediateOps, Funct3(n), f) = n
  <2>1. Selected(ImmediateOps, Funct3(n), f) = {n}
    <3>1. ASSUME NEW x \in ImmediateOps
          PROVE  (Funct3(x) = Funct3(n) /\ (Funct3(n) = 5 => Funct7(x) = f)) <=> x = n
      BY <1>3, SMT DEF ImmediateOps, Funct3, Funct7
    <3>2. Reads(ImmediateOps, Funct3(n)) <=> Funct3(n) = 5
      BY <1>1
    <3> HIDE DEF Reads
    <3> QED
      BY <3>1, <3>2
  <2> HIDE DEF Selected
  <2> QED
    BY <2>1, <1>0
<1> QED
  BY <1>2, <1>3

-----------------------------------------------------------------------------
\* A word whose class, bit 6, fields and immediate are those of an instruction
\* is decoded to what the instruction means.
LEMMA DecodedAsMeant ==
  ASSUME NEW i \in InstructionRecords, i.name \notin BranchOps, NEW w,
         ClassOf(w) = Class(i.name),
         6 \in w <=> i.scalar \/ i.name \in OneFormNames,
         i.name \notin StoreNames \union {"HALT"} => Number(Field(w, 7, 11)) = i.rd,
         i.name \notin UpperNames \union {"HALT", "JAL"} => Number(Field(w, 15, 19)) = i.rs1,
         i.name \in RegisterOps \union StoreNames \union {"SX_SLT"} => Number(Field(w, 20, 24)) = i.rs2,
         i.name \in RegisterOps =>
            AluOperation(RegisterOps, Number(Field(w, 12, 14)), Number(Field(w, 25, 31))) = i.name,
         i.name \in ImmediateOps =>
            AluOperation(ImmediateOps, Number(Field(w, 12, 14)), Number(Field(w, 25, 31))) = i.name,
         SignedWord(DecodeWord(w).imm) = Meant(i)
  PROVE  DecodesAs(w, i)
<1> DEFINE d == DecodeWord(w)
           m == MeantControls(i)
           class == Class(i.name)
           op == IsaOp(i.name)
           alu1 == AluOperation(RegisterOps, Number(Field(w, 12, 14)), Number(Field(w, 25, 31)))
           alu2 == AluOperation(ImmediateOps, Number(Field(w, 12, 14)), Number(Field(w, 25, 31)))
<1>1. /\ i.name \in Names /\ i.scalar \in BOOLEAN
      /\ i.name \in VectorScalarOps => ~i.scalar
  BY DEF InstructionRecords
<1>2. \/ i.name \in RegisterOps \/ i.name \in ImmediateOps \/ i.name \in LoadNames \/ i.name \in StoreNames
      \/ i.name \in {"LUI", "AUIPC", "HALT", "SX_SLT", "SX_SLTI", "JAL", "JALR"}
  BY <1>1 DEF Names, AluOps, UpperNames, JumpOps, VectorScalarOps
<1> USE DEF RegisterOps, ImmediateOps, BranchOps, JumpOps, LoadNames, StoreNames, VectorScalarOps,
            UpperNames, OneFormNames, ScalarOps, AluOps
<1>3. /\ i.name \in RegisterOps => class = "R" /\ op = i.name
      /\ i.name \in ImmediateOps => class = "I" /\ op = i.name
      /\ i.name \in LoadNames => class = "LOAD" /\ op = "LOAD"
      /\ i.name \in StoreNames => class = "STORE" /\ op = "STORE"
      /\ i.name \in {"LUI", "AUIPC", "HALT", "SX_SLT", "SX_SLTI", "JAL", "JALR"} => class = i.name /\ op = i.name
  BY <1>2 DEF Class, IsaOp
<1>4. /\ d.scalar = (class \notin VectorScalarOps /\ (6 \in w \/ class \in JumpOps))
      /\ d.write = (class \notin {"B", "STORE", "HALT", "NOOP"})
      /\ d.load = (class = "LOAD") /\ d.store = (class = "STORE")
      /\ d.branch = (class = "B") /\ d.halt = (class = "HALT")
  BY DEF DecodeWord
<1>5. /\ m.scalar = (i.scalar \/ i.name \in ScalarOps)
      /\ m.write = (op \notin BranchOps \union {"STORE", "HALT", "NOOP"})
      /\ m.load = (op = "LOAD") /\ m.store = (op = "STORE")
      /\ m.branch = (op \in BranchOps) /\ m.halt = (op = "HALT")
  BY DEF MeantControls, Decode
<1>6. /\ d.scalar = m.scalar /\ d.write = m.write /\ d.load = m.load /\ d.store = m.store
      /\ d.branch = m.branch /\ d.halt = m.halt
  <2> HIDE DEF d, m, class, op
  <2> QED
    BY <1>1, <1>2, <1>3, <1>4, <1>5
<1>7. d.mux = m.mux
  <2>1. d.mux = CASE class \in VectorScalarOps -> "VECTOR_TO_SCALAR"
                  [] class \in JumpOps -> "PC_PLUS_1"
                  [] class = "LOAD" -> "LSU_OUT"
                  [] class = "LUI" -> "IMMEDIATE"
                  [] OTHER -> "ALU_OUT"
    BY Zenon DEF DecodeWord
  <2>2. m.mux = CASE op \in VectorScalarOps -> "VECTOR_TO_SCALAR"
                  [] op \in JumpOps -> "PC_PLUS_1"
                  [] op = "LOAD" -> "LSU_OUT"
                  [] op = "LUI" -> "IMMEDIATE"
                  [] OTHER -> "ALU_OUT"
    BY Zenon DEF MeantControls, Decode
  <2> HIDE DEF d, m, class, op
  <2> QED
    BY <1>2, <1>3, <2>1, <2>2
<1>8. d.alu = m.alu
  <2>1. d.alu = CASE class = "SX_SLT" -> "SLT"
                  [] class = "SX_SLTI" -> "SLTI"
                  [] class = "B" -> AluOperation(BranchOps, Number(Field(w, 12, 14)), Number(Field(w, 25, 31)))
                  [] class \in JumpOps -> class
                  [] class = "R" -> alu1
                  [] class = "I" -> alu2
                  [] class = "AUIPC" -> "ADD"
                  [] OTHER -> "ADDI"
    BY Zenon DEF DecodeWord
  <2>2. m.alu = CASE op \in AluOps -> op
                  [] op = "SX_SLT" -> "SLT"
                  [] op = "SX_SLTI" -> "SLTI"
                  [] op = "AUIPC" -> "ADD"
                  [] OTHER -> "ADDI"
    BY Zenon DEF MeantControls, Decode
  <2>3. (i.name \in RegisterOps => alu1 = i.name) /\ (i.name \in ImmediateOps => alu2 = i.name)
    OBVIOUS
  <2> HIDE DEF d, m, class, op, alu1, alu2
  <2> QED
    BY <1>2, <1>3, <2>1, <2>2, <2>3
<1>9. d.rd = m.rd
  <2>1. d.rd = IF class \in {"B", "STORE", "HALT", "NOOP"} THEN 0 ELSE Number(Field(w, 7, 11))
    BY Zenon DEF DecodeWord
  <2>2. m.rd = IF op \in BranchOps \union {"STORE", "HALT", "NOOP"} THEN 0 ELSE i.rd
    BY DEF MeantControls, Decode
  <2> HIDE DEF d, m, class, op
  <2> QED
    BY <1>2, <1>3, <2>1, <2>2
<1>10. d.rs1 = m.rs1
  <2>1. d.rs1 = IF class \in {"HALT", "JAL", "LUI", "AUIPC", "NOOP"} THEN 0 ELSE Number(Field(w, 15, 19))
    BY Zenon DEF DecodeWord
  <2>2. m.rs1 = IF op \in {"HALT", "JAL", "LUI", "AUIPC", "NOOP"} THEN 0 ELSE i.rs1
    BY DEF MeantControls, Decode
  <2> HIDE DEF d, m, class, op
  <2> QED
    BY <1>2, <1>3, <2>1, <2>2
<1>11. d.rs2 = m.rs2
  <2>1. d.rs2 = IF class \in {"SX_SLT", "B", "R", "STORE"} THEN Number(Field(w, 20, 24)) ELSE 0
    BY Zenon DEF DecodeWord
  <2>2. m.rs2 = IF op \in RegisterOps \union BranchOps \union {"STORE", "SX_SLT"} THEN i.rs2 ELSE 0
    BY DEF MeantControls, Decode
  <2> HIDE DEF d, m, class, op
  <2> QED
    BY <1>2, <1>3, <2>1, <2>2
<1>12. SignedWord(d.imm) = m.imm
  <2>1. m.imm = IF op \in RegisterOps \union {"HALT", "SX_SLT", "NOOP"} THEN 0 ELSE Meant(i)
    BY DEF MeantControls, Decode
  <2>2. i.name \in RegisterOps \union {"HALT", "SX_SLT"} => Meant(i) = 0
    BY SMT DEF Meant
  <2> HIDE DEF m, class, op
  <2> QED
    BY <1>2, <1>3, <2>1, <2>2
<1>13. /\ d = [scalar |-> d.scalar, write |-> d.write, load |-> d.load, store |-> d.store,
               branch |-> d.branch, halt |-> d.halt, mux |-> d.mux, alu |-> d.alu,
               rd |-> d.rd, rs1 |-> d.rs1, rs2 |-> d.rs2, imm |-> d.imm]
       /\ m = [scalar |-> m.scalar, write |-> m.write, load |-> m.load, store |-> m.store,
               branch |-> m.branch, halt |-> m.halt, mux |-> m.mux, alu |-> m.alu,
               rd |-> m.rd, rs1 |-> m.rs1, rs2 |-> m.rs2, imm |-> m.imm]
  BY DEF DecodeWord, MeantControls, Decode
<1>14. [d EXCEPT !.imm = SignedWord(d.imm)] = m
  <2> HIDE DEF d, m
  <2> QED
    BY <1>6, <1>7, <1>8, <1>9, <1>10, <1>11, <1>12, <1>13
<1> QED
  BY <1>14 DEF DecodesAs

-----------------------------------------------------------------------------
\* The word of an instruction in a program: with the prefix, make_scalar has
\* gone over it.
Encoded(form, i) == IF i.scalar THEN MakeScalar(Build(form, i)) ELSE Build(form, i)

\* What the constructors put together.
LEMMA Formats ==
  ASSUME NEW i, NEW form \in {"U", "J", "S", "R", "I", "SHIFT", "NONE"}
  PROVE  \E b, h :
    /\ Encoded(form, i) = Assembled(OpcodeField(i.name, i.scalar), b, h)
    /\ form = "NONE" => b = {} /\ h = {}
    /\ form = "S" => b = {}
    /\ form \notin {"S", "NONE"} => b = Bits(i.rd)
    /\ form = "U" => h = Place(Bits(i.imm), 12)
    /\ form = "J" => h = Imm21(Bits(i.imm))
    /\ form = "S" => h = Place(Bits(Funct3(i.name)), 12) \union Place(Bits(i.rs1), 15)
                            \union Place(Bits(i.rs2), 20) \union Place(Bits(i.imm), 20)
    /\ form = "R" => h = UpperFields(Bits(Funct3(i.name)), Bits(i.rs1), Bits(i.rs2),
                                     Bits(Funct7(i.name)))
    /\ form = "I" => h = Place(Bits(Funct3(i.name)), 12) \union Place(Bits(i.rs1), 15)
                            \union Place(Bits(i.imm), 20)
    /\ form = "SHIFT" => h = Place(Bits(Funct3(i.name)), 12) \union Place(Bits(i.rs1), 15)
                                \union Place(Bits(i.imm), 20) \union Place(Bits(Funct7(i.name)), 25)
<1> DEFINE op == Bits(Opcode(i.name))
           f3 == Place(Bits(Funct3(i.name)), 12)
           f7 == Place(Bits(Funct7(i.name)), 25)
           rd == Place(Bits(i.rd), 7)
           rs1 == Place(Bits(i.rs1), 15)
           rs2 == Place(Bits(i.rs2), 20)
           imm == Bits(i.imm)
           tail == CASE form = "NONE" -> {}
                     [] form = "U" -> Place(imm, 12)
                     [] form = "J" -> Imm21(imm)
                     [] form = "S" -> f3 \union rs1 \union rs2 \union Place(imm, 20)
                     [] form = "R" -> f3 \union rs1 \union rs2 \union f7
                     [] form = "I" -> f3 \union rs1 \union Place(imm, 20)
                     [] OTHER -> f3 \union rs1 \union Place(imm, 20) \union f7
           target == IF form \in {"S", "NONE"} THEN {} ELSE Bits(i.rd)
<1>1. Place({}, 7) = {}
  BY DEF Place
<1>2. Build(form, i) = op \union Place(target, 7) \union tail
  <2>1. Determinant(i.name).opcode = op /\ Place(Determinant(i.name).funct3, 12) = f3
        /\ Place(Determinant(i.name).funct7, 25) = f7
    BY DEF Determinant
  <2>2. CASE form = "NONE"
    <3>1. Build(form, i) = Determinant(i.name).opcode
      BY <2>2, Zenon DEF Build
    <3>2. tail = {} /\ target = {}
      BY <2>2
    <3> HIDE DEF tail, target, op
    <3> QED
      BY <3>1, <3>2, <2>1, <1>1
  <2>3. CASE form = "U"
    <3>1. Build(form, i) = Determinant(i.name).opcode \union rd \union Place(imm, 12)
      BY <2>3, Zenon DEF Build
    <3>2. tail = Place(imm, 12) /\ target = Bits(i.rd)
      BY <2>3, Zenon
    <3> HIDE DEF tail, target, op, imm
    <3> QED
      BY <3>1, <3>2, <2>1
  <2>4. CASE form = "J"
    <3>1. Build(form, i) = Determinant(i.name).opcode \union rd \union Imm21(imm)
      BY <2>4, Zenon DEF Build
    <3>2. tail = Imm21(imm) /\ target = Bits(i.rd)
      BY <2>4, Zenon
    <3> HIDE DEF tail, target, op, imm
    <3> QED
      BY <3>1, <3>2, <2>1
  <2>5. CASE form = "S"
    <3>1. Build(form, i) = Determinant(i.name).opcode \union Place(Determinant(i.name).funct3, 12)
                              \union rs1 \union rs2 \union Place(imm, 20)
      BY <2>5, Zenon DEF Build
    <3>2. tail = f3 \union rs1 \union rs2 \union Place(imm, 20) /\ target = {}
      BY <2>5, Zenon
    <3> HIDE DEF tail, target, op, imm, f3, rs1, rs2
    <3> QED
      BY <3>1, <3>2, <2>1, <1>1
  <2>6. CASE form = "R"
    <3>1. Build(form, i) = Determinant(i.name).opcode \union Place(Determinant(i.name).funct3, 12)
                              \union Place(Determinant(i.name).funct7, 25) \union rd \union rs1 \union rs2
      BY <2>6, Zenon DEF Build
    <3>2. tail = f3 \union rs1 \union rs2 \union f7 /\ target = Bits(i.rd)
      BY <2>6, Zenon
    <3>3. rd = Place(target, 7)
      BY <3>2
    <3> HIDE DEF tail, target, op, imm, f3, f7, rd, rs1, rs2
    <3> QED
      BY <3>1, <3>2, <3>3, <2>1
  <2>7. CASE form = "I"
    <3>1. Build(form, i) = Determinant(i.name).opcode \union Place(Determinant(i.name).funct3, 12)
                              \union rd \union rs1 \union Place(imm, 20)
      BY <2>7, Zenon DEF Build
    <3>2. tail = f3 \union rs1 \union Place(imm, 20) /\ target = Bits(i.rd)
      BY <2>7, Zenon
    <3>3. rd = Place(target, 7)
      BY <3>2
    <3> HIDE DEF tail, target, op, imm, f3, f7, rd, rs1, rs2
    <3> QED
      BY <3>1, <3>2, <3>3, <2>1
  <2>8. CASE form = "SHIFT"
    <3>1. Build(form, i) = Determinant(i.name).opcode \union Place(Determinant(i.name).funct3, 12)
                              \union Place(Determinant(i.name).funct7, 25) \union rd \union rs1
                              \union Place(imm, 20)
      BY <2>8, Zenon DEF Build
    <3>2. tail = f3 \union rs1 \union Place(imm, 20) \union f7 /\ target = Bits(i.rd)
      BY <2>8, Zenon
    <3>3. rd = Place(target, 7)
      BY <3>2
    <3> HIDE DEF tail, target, op, imm, f3, f7, rd, rs1, rs2
    <3> QED
      BY <3>1, <3>2, <3>3, <2>1
  <2> QED
    BY <2>2, <2>3, <2>4, <2>5, <2>6, <2>7, <2>8
<1>3. Encoded(form, i) = Assembled(OpcodeField(i.name, i.scalar), target, tail)
  <2> HIDE DEF tail, target
  <2> QED
    BY <1>2 DEF Encoded, MakeScalar, OpcodeField, Assembled
<1>4. /\ form = "NONE" => target = {} /\ tail = {}
      /\ form = "S" => target = {}
      /\ form \notin {"S", "NONE"} => target = Bits(i.rd)
      /\ form = "U" => tail = Place(imm, 12)
      /\ form = "J" => tail = Imm21(imm)
      /\ form = "S" => tail = f3 \union rs1 \union rs2 \union Place(imm, 20)
      /\ form = "R" => tail = f3 \union rs1 \union rs2 \union f7
      /\ form = "I" => tail = f3 \union rs1 \union Place(imm, 20)
      /\ form = "SHIFT" => tail = f3 \union rs1 \union Place(imm, 20) \union f7
  <2> HIDE DEF imm, f3, f7, rs1, rs2
  <2> QED
    OBVIOUS
<1>5. form = "R" => tail = UpperFields(Bits(Funct3(i.name)), Bits(i.rs1), Bits(i.rs2), Bits(Funct7(i.name)))
  BY <1>4 DEF UpperFields
<1> HIDE DEF tail, target
<1> WITNESS target, tail
<1> QED
  BY <1>3, <1>4, <1>5

\* The class and the fields of such a word.
LEMMA WordFields ==
  ASSUME NEW i \in InstructionRecords, i.name \notin BranchOps, i.name \in StoreNames => ~i.scalar,
         NEW b, NEW h, Within(b, 0, 4), Within(h, 12, 31),
         NEW w, w = Assembled(OpcodeField(i.name, i.scalar), b, h)
  PROVE  /\ Within(w, 0, 31)
         /\ ClassOf(w) = Class(i.name)
         /\ 6 \in w <=> i.scalar \/ i.name \in OneFormNames
         /\ Field(w, 7, 11) = b /\ w \intersect 12 .. 31 = h
         /\ \A lo \in 12 .. 31, hi \in 12 .. 31 : Field(w, lo, hi) = Field(h, lo, hi)
<1> DEFINE a == OpcodeField(i.name, i.scalar)
<1>1. i.name \in Names /\ i.scalar \in BOOLEAN
  BY DEF InstructionRecords
<1>2. Opcode(i.name) \in 0 .. 127
  <2>1. \/ i.name \in RegisterOps \/ i.name \in ImmediateOps \/ i.name \in LoadNames \/ i.name \in StoreNames
        \/ i.name \in {"LUI", "AUIPC", "HALT", "SX_SLT", "SX_SLTI", "JAL", "JALR"}
    BY <1>1 DEF Names, AluOps, UpperNames, JumpOps, VectorScalarOps
  <2>2. Opcode(i.name) \in {51, 19, 3, 35, 55, 23, 127, 126, 125, 111, 103}
    BY <2>1, Opcodes
  <2> QED
    BY <2>2
<1>3. Within(a, 0, 6)
  <2>1. Bits(Opcode(i.name)) \subseteq 0 .. 6
    BY <1>2, OpcodeBits
  <2> QED
    BY <2>1 DEF OpcodeField, Within
<1>4. /\ Within(w, 0, 31)
      /\ Field(w, 0, 6) = a /\ Field(w, 0, 5) = a \ {6} /\ (6 \in w <=> 6 \in a)
      /\ Field(w, 7, 11) = b /\ w \intersect 12 .. 31 = h
      /\ \A lo \in 12 .. 31, hi \in 12 .. 31 : Field(w, lo, hi) = Field(h, lo, hi)
  <2> HIDE DEF a
  <2>1. w = Assembled(a, b, h)
    BY DEF a
  <2> QED
    BY <1>3, <2>1, LowFields
<1>5. ClassOf(w) = Class(i.name) /\ (6 \in a <=> i.scalar \/ i.name \in OneFormNames)
  <2>1. CASE i.name \in OneFormNames
    BY <2>1, <1>1, <1>4, OneFormClass
  <2>2. CASE i.name \notin OneFormNames
    <3>1. i.name \in Names \ (BranchOps \union OneFormNames)
      BY <2>2, <1>1
    <3> QED
      BY <3>1, <2>2, <1>1, <1>4, TwoFormClass
  <2> QED
    BY <2>1, <2>2
<1> QED
  BY <1>4, <1>5

\* The assertions of the constructors, as ranges.
LEMMA AcceptedRanges ==
  ASSUME NEW i \in InstructionRecords, NEW form \in {"U", "J", "S", "R", "I", "SHIFT", "NONE"}, Accepts(form, i)
  PROVE  /\ i.rd \in Registers /\ i.rs1 \in Registers /\ i.rs2 \in Registers
         /\ form = "U" => i.imm \in 0 .. Pow(20) - 1
         /\ form = "J" => i.imm \in 0 .. Pow(21) - 1
         /\ form = "SHIFT" => i.imm \in 0 .. Pow(5) - 1
         /\ form \in {"S", "I", "SHIFT"} => i.imm \in 0 .. Pow(12) - 1
<1>1. i.rd \in Registers /\ i.rs1 \in Registers /\ i.rs2 \in Registers
  BY DEF Accepts
<1>2. form \in {"U", "J", "S", "I", "SHIFT"} => i.imm \in 0 .. ImmediateLimit(form) - 1
  BY DEF Accepts
<1>3. Pow(20) = 1048576 /\ Pow(21) = 2097152 /\ Pow(5) = 32 /\ Pow(12) = 4096
  BY DEF Pow
<1>4. /\ form = "U" => ImmediateLimit(form) = Pow(20)
      /\ form = "J" => ImmediateLimit(form) = Pow(21)
      /\ form = "SHIFT" => ImmediateLimit(form) = 32
      /\ form \in {"S", "I"} => ImmediateLimit(form) = Pow(12)
  BY Zenon DEF ImmediateLimit, Pow
<1>5. /\ form = "U" => i.imm \in 0 .. Pow(20) - 1
      /\ form = "J" => i.imm \in 0 .. Pow(21) - 1
      /\ form = "SHIFT" => i.imm \in 0 .. Pow(5) - 1
  BY <1>2, <1>3, <1>4
<1>6. form \in {"S", "I", "SHIFT"} => i.imm \in 0 .. Pow(12) - 1
  BY <1>2, <1>3, <1>4
<1> QED
  BY <1>1, <1>5, <1>6

\* The empty immediate is 0.
LEMMA NoImmediate == SignedWord({}) = 0 /\ Number({}) = 0 /\ Bits(0) = {}
<1>1. Number({}) = 0
  <2>1. {} \subseteq 0 .. 0 - 1 /\ 0 \in 0 .. 31
    OBVIOUS
  <2>2. Number({}) = Sums({})[0]
    BY <2>1, SumsTell
  <2> QED
    BY <2>2, SumsAdd
<1>2. SignedWord({}) = Number({})
  BY DEF SignedWord
<1>3. Bits(0) = {}
  <2>1. Pow(0) = 1 /\ 0 \in 0 .. Pow(0) - 1 /\ 0 \in 0 .. 31
    BY DEF Pow
  <2>2. Bits(0) \subseteq 0 .. 0 - 1
    BY <2>1, NumberOfBits
  <2> QED
    BY <2>2
<1> QED
  BY <1>1, <1>2, <1>3

\* An instruction with three registers.
LEMMA RegisterFormat ==
  ASSUME NEW i \in InstructionRecords, i.name \in RegisterOps \union {"SX_SLT"}, Accepts("R", i)
  PROVE  DecodesAs(Encoded("R", i), i)
<1> DEFINE w == Encoded("R", i)
           c == Bits(Funct3(i.name))
           d == Bits(i.rs1)
           e == Bits(i.rs2)
           f == Bits(Funct7(i.name))
           b == Bits(i.rd)
           h == UpperFields(c, d, e, f)
<1>1. i.name \notin BranchOps /\ i.name \notin StoreNames /\ i.name # "HALT"
      /\ i.name \notin ImmediateOps /\ i.name \notin UpperNames
  BY DEF RegisterOps, BranchOps, StoreNames, ImmediateOps, UpperNames
<1>2. w = Assembled(OpcodeField(i.name, i.scalar), b, h)
  BY Formats
<1>3. i.rd \in Registers /\ i.rs1 \in Registers /\ i.rs2 \in Registers
  BY AcceptedRanges
<1>4. /\ Within(b, 0, 4) /\ Within(d, 0, 4) /\ Within(e, 0, 4)
      /\ Number(b) = i.rd /\ Number(d) = i.rs1 /\ Number(e) = i.rs2
  BY <1>3, RegisterBits
<1>5. /\ Within(c, 0, 2) /\ Within(f, 0, 6)
      /\ Number(c) = Funct3(i.name) /\ Number(f) = Funct7(i.name)
  BY FunctBits
<1> HIDE DEF w, b, c, d, e, f
<1>6. /\ Within(h, 12, 31) /\ Field(h, 12, 14) = c /\ Field(h, 15, 19) = d
      /\ Field(h, 20, 24) = e /\ Field(h, 25, 31) = f
  BY <1>4, <1>5, HighFields
<1> HIDE DEF h
<1>7. /\ ClassOf(w) = Class(i.name)
      /\ 6 \in w <=> i.scalar \/ i.name \in OneFormNames
      /\ Field(w, 7, 11) = b
      /\ \A lo \in 12 .. 31, hi \in 12 .. 31 : Field(w, lo, hi) = Field(h, lo, hi)
  BY <1>1, <1>2, <1>4, <1>6, WordFields
<1>8. /\ Number(Field(w, 7, 11)) = i.rd /\ Number(Field(w, 15, 19)) = i.rs1
      /\ Number(Field(w, 20, 24)) = i.rs2
      /\ Number(Field(w, 12, 14)) = Funct3(i.name) /\ Number(Field(w, 25, 31)) = Funct7(i.name)
  BY <1>4, <1>5, <1>6, <1>7
<1>9. i.name \in RegisterOps =>
         AluOperation(RegisterOps, Number(Field(w, 12, 14)), Number(Field(w, 25, 31))) = i.name
  BY <1>8, OperationIsSelected
<1>10. SignedWord(DecodeWord(w).imm) = Meant(i)
  <2>1. ClassOf(w) = "R" \/ ClassOf(w) = "SX_SLT"
    BY <1>7 DEF Class, RegisterOps, ImmediateOps, LoadNames, StoreNames
  <2>2. DecodeWord(w).imm = CASE ClassOf(w) \in {"SX_SLTI", "JALR", "I", "LOAD"} -> ImmI(w)
                              [] ClassOf(w) = "STORE" -> ImmS(w)
                              [] ClassOf(w) = "B" -> ImmB(w)
                              [] ClassOf(w) = "JAL" -> ImmJ(w)
                              [] ClassOf(w) \in {"LUI", "AUIPC"} -> ImmU(w)
                              [] OTHER -> {}
    BY Zenon DEF DecodeWord
  <2>3. DecodeWord(w).imm = {}
    BY <2>1, <2>2
  <2>4. Meant(i) = 0
    BY SMT DEF Meant, RegisterOps, UpperNames
  <2> QED
    BY <2>3, <2>4, NoImmediate
<1>11. DecodesAs(w, i)
  BY <1>1, <1>7, <1>8, <1>9, <1>10, DecodedAsMeant
<1> QED
  BY <1>11 DEF w

\* The names an immediate of 12 bits is extended for.
ShortImmediateNames == (ImmediateOps \ {"SRAI"}) \union LoadNames \union {"JALR", "SX_SLTI"}

\* An instruction with two registers and an immediate of 12 bits; a shift may
\* come from either constructor.
LEMMA ImmediateFormat ==
  ASSUME NEW i \in InstructionRecords, i.name \in ShortImmediateNames, Carried(i),
         NEW form \in {"I", "SHIFT"}, form = "SHIFT" => i.name \in ShiftNames, Accepts(form, i)
  PROVE  DecodesAs(Encoded(form, i), i)
<1> DEFINE w == Encoded(form, i)
           n == i.imm
           m == Bits(n)
           c == Bits(Funct3(i.name))
           d == Bits(i.rs1)
           e == m \intersect 0 .. 4
           f == Field(m, 5, 11)
           b == Bits(i.rd)
           h == UpperFields(c, d, e, f)
<1>1. i.name \notin BranchOps /\ i.name \notin StoreNames /\ i.name # "HALT" /\ i.name # "JAL"
      /\ i.name \notin RegisterOps /\ i.name \notin UpperNames /\ i.name # "SX_SLT"
  BY DEF ShortImmediateNames, RegisterOps, BranchOps, StoreNames, ImmediateOps, UpperNames, LoadNames
<1>2. i.rd \in Registers /\ i.rs1 \in Registers /\ n \in 0 .. Pow(12) - 1
      /\ (form = "SHIFT" => n \in 0 .. Pow(5) - 1)
  BY AcceptedRanges
<1>3. Number(m) = n /\ Within(m, 0, 11)
  <2>1. 12 \in 0 .. 31 /\ 12 - 1 = 11
    OBVIOUS
  <2>2. Number(m) = n /\ m \subseteq 0 .. 12 - 1
    BY <2>1, <1>2, NumberOfBits
  <2> QED
    BY <2>1, <2>2 DEF Within
<1>4. Place(m, 20) = Place(e, 20) \union Place(f, 25) /\ Within(e, 0, 4) /\ Within(f, 0, 6)
      /\ m = e \union Place(f, 5)
  <2> HIDE DEF m
  <2> QED
    BY <1>3, ImmediateFields
<1>5. w = Assembled(OpcodeField(i.name, i.scalar), b, h)
  <2>1. PICK g : /\ w = Assembled(OpcodeField(i.name, i.scalar), b, g)
                 /\ form = "I" => g = Place(c, 12) \union Place(d, 15) \union Place(m, 20)
                 /\ form = "SHIFT" => g = Place(c, 12) \union Place(d, 15) \union Place(m, 20)
                                             \union Place(Bits(Funct7(i.name)), 25)
    BY Formats
  <2>2. form = "SHIFT" => Place(Bits(Funct7(i.name)), 25) = {}
    <3>1. ASSUME form = "SHIFT"
          PROVE  Funct7(i.name) = 0
      BY <3>1, SMT DEF ShiftNames, ShortImmediateNames, Funct7, LoadNames
    <3>2. Place({}, 25) = {}
      BY DEF Place
    <3> QED
      BY <3>1, <3>2, NoImmediate
  <2>3. g = Place(c, 12) \union Place(d, 15) \union Place(m, 20)
    BY <2>1, <2>2
  <2>4. g = h
    <3> HIDE DEF c, d, e, f, m
    <3> QED
      BY <2>3, <1>4 DEF UpperFields
  <2> QED
    BY <2>1, <2>4
<1>6. Within(b, 0, 4) /\ Within(d, 0, 4) /\ Number(b) = i.rd /\ Number(d) = i.rs1
  BY <1>2, RegisterBits
<1>7. Within(c, 0, 2) /\ Number(c) = Funct3(i.name)
  BY FunctBits
<1>8. i.name = "SRLI" => Number(f) = 0
  <2>1. ASSUME i.name = "SRLI"
        PROVE  f = {}
    <3>1. n \in 0 .. Pow(5) - 1 /\ 5 \in 0 .. 31 /\ 5 - 1 = 4
      <4>1. Pow(5) = 32
        BY DEF Pow
      <4>2. n < 32
        BY <2>1 DEF Carried
      <4>3. n \in Nat
        <5>1. Pow(12) = 4096
          BY DEF Pow
        <5> QED
          BY <5>1, <1>2
      <4> HIDE DEF n
      <4> QED
        BY <4>1, <4>2, <4>3
    <3>2. m \subseteq 0 .. 4
      <4>1. m \subseteq 0 .. 5 - 1
        BY <3>1, NumberOfBits
      <4> QED
        BY <4>1, <3>1
    <3>3. m \intersect 5 .. 11 = {}
      <4> HIDE DEF m
      <4> QED
        BY <3>2
    <3> QED
      BY <3>3 DEF Field
  <2> QED
    BY <2>1, NoImmediate
<1>9. Number(f) \in Nat
  BY SumsAdd
<1> HIDE DEF w, b, c, d, e, f, m, n
<1>10. /\ Within(h, 12, 31) /\ Field(h, 12, 14) = c /\ Field(h, 15, 19) = d
       /\ Field(h, 25, 31) = f /\ Field(h, 20, 31) = m
  BY <1>4, <1>6, <1>7, HighFields
<1> HIDE DEF h
<1>11. /\ ClassOf(w) = Class(i.name)
       /\ 6 \in w <=> i.scalar \/ i.name \in OneFormNames
       /\ Field(w, 7, 11) = b
       /\ \A lo \in 12 .. 31, hi \in 12 .. 31 : Field(w, lo, hi) = Field(h, lo, hi)
  BY <1>1, <1>5, <1>6, <1>10, WordFields
<1>12. /\ Number(Field(w, 7, 11)) = i.rd /\ Number(Field(w, 15, 19)) = i.rs1
       /\ Number(Field(w, 12, 14)) = Funct3(i.name) /\ Number(Field(w, 25, 31)) = Number(f)
       /\ Field(w, 20, 31) = m
  BY <1>6, <1>7, <1>10, <1>11
<1>13. i.name \in ImmediateOps =>
         AluOperation(ImmediateOps, Number(Field(w, 12, 14)), Number(Field(w, 25, 31))) = i.name
  <2>1. ASSUME i.name \in ImmediateOps, Funct3(i.name) = 5
        PROVE  i.name = "SRLI" /\ Funct7(i.name) = 0
    BY <2>1, SMT DEF ImmediateOps, Funct3, Funct7, ShortImmediateNames, LoadNames
  <2>2. i.name \in ImmediateOps /\ Funct3(i.name) = 5 => Number(f) = Funct7(i.name)
    BY <2>1, <1>8
  <2> QED
    BY <2>2, <1>9, <1>12, OperationIsSelected
<1>14. SignedWord(DecodeWord(w).imm) = Meant(i)
  <2>1. ClassOf(w) \in {"SX_SLTI", "JALR", "I", "LOAD"}
    BY <1>11 DEF Class, RegisterOps, ImmediateOps, LoadNames, StoreNames, ShortImmediateNames
  <2>2. DecodeWord(w).imm = CASE ClassOf(w) \in {"SX_SLTI", "JALR", "I", "LOAD"} -> ImmI(w)
                              [] ClassOf(w) = "STORE" -> ImmS(w)
                              [] ClassOf(w) = "B" -> ImmB(w)
                              [] ClassOf(w) = "JAL" -> ImmJ(w)
                              [] ClassOf(w) \in {"LUI", "AUIPC"} -> ImmU(w)
                              [] OTHER -> {}
    BY Zenon DEF DecodeWord
  <2>3. DecodeWord(w).imm = ImmI(w)
    BY <2>1, <2>2
  <2>4. ImmI(w) = SignExtend(Bits(n), 12)
    BY <1>12 DEF ImmI, m
  <2>5. SignedWord(SignExtend(Bits(n), 12)) = Signed(n, 12)
    BY <1>2, ExtensionIsSigned
  <2>6. Meant(i) = Signed(n, 12)
    <3>1. i.name # "JAL" /\ i.name \notin RegisterOps \union {"SX_SLT", "HALT"} /\ i.name \notin UpperNames
      BY <1>1
    <3> QED
      BY <3>1, Zenon DEF Meant, n
  <2> QED
    BY <2>3, <2>4, <2>5, <2>6
<1>15. DecodesAs(w, i)
  BY <1>1, <1>11, <1>12, <1>13, <1>14, DecodedAsMeant
<1> QED
  BY <1>15 DEF w

\* A store, whose offset must leave the bits of rs2 alone.
LEMMA StoreFormat ==
  ASSUME NEW i \in InstructionRecords, i.name \in StoreNames, Carried(i), Accepts("S", i)
  PROVE  DecodesAs(Encoded("S", i), i)
<1> DEFINE w == Encoded("S", i)
           n == i.imm
           m == Bits(n)
           c == Bits(Funct3(i.name))
           d == Bits(i.rs1)
           e == Bits(i.rs2)
           f == Field(m, 5, 11)
           h == UpperFields(c, d, e, f)
<1>1. i.name \notin BranchOps /\ i.name # "HALT" /\ i.name # "JAL" /\ i.name \notin ImmediateOps
      /\ i.name \notin RegisterOps /\ i.name \notin UpperNames /\ i.name # "SX_SLT"
  BY DEF RegisterOps, BranchOps, StoreNames, ImmediateOps, UpperNames
<1>2. i.rs1 \in Registers /\ i.rs2 \in Registers /\ n \in 0 .. Pow(12) - 1
  BY AcceptedRanges
<1>3. Number(m) = n /\ Within(m, 0, 11)
  <2>1. 12 \in 0 .. 31 /\ 12 - 1 = 11
    OBVIOUS
  <2>2. Number(m) = n /\ m \subseteq 0 .. 12 - 1
    BY <2>1, <1>2, NumberOfBits
  <2> QED
    BY <2>1, <2>2 DEF Within
<1>4. m \intersect 0 .. 4 = {}
  <2>1. Pow(5) = 32 /\ Pow(12) = 4096
    BY DEF Pow
  <2>2. n % Pow(5) = 0 /\ n \in Nat /\ 5 \in 0 .. 31 /\ 5 - 1 = 4
    <3>1. n % 32 = 0
      BY DEF Carried
    <3> QED
      BY <3>1, <2>1, <1>2
  <2>3. Sums(m)[5] = n % Pow(5)
    BY <2>2, SumOfBits
  <2>4. \A j \in 0 .. 5 - 1 : j \notin m
    BY <2>2, <2>3, SumsTell
  <2> HIDE DEF m
  <2> QED
    BY <2>2, <2>4
<1>5. Place(m, 20) = Place(f, 25) /\ Within(f, 0, 6) /\ m = Place(f, 5)
  <2>1. Place({}, 20) = {}
    BY DEF Place
  <2> HIDE DEF m
  <2>2. Place(m, 20) = Place(m \intersect 0 .. 4, 20) \union Place(f, 25) /\ Within(f, 0, 6)
        /\ m = (m \intersect 0 .. 4) \union Place(f, 5)
    BY <1>3, ImmediateFields
  <2> HIDE DEF f
  <2> QED
    BY <2>1, <2>2, <1>4
<1>6. w = Assembled(OpcodeField(i.name, i.scalar), {}, h)
  <2>1. w = Assembled(OpcodeField(i.name, i.scalar), {},
                      Place(c, 12) \union Place(d, 15) \union Place(e, 20) \union Place(m, 20))
    BY Formats
  <2>2. Place(c, 12) \union Place(d, 15) \union Place(e, 20) \union Place(m, 20) = h
    <3> HIDE DEF c, d, e, f, m
    <3> QED
      BY <1>5 DEF UpperFields
  <2> QED
    BY <2>1, <2>2
<1>7. Within(e, 0, 4) /\ Within(d, 0, 4) /\ Number(e) = i.rs2 /\ Number(d) = i.rs1 /\ Within({}, 0, 4)
  BY <1>2, RegisterBits DEF Within
<1>8. Within(c, 0, 2)
  BY FunctBits
<1>9. i.scalar = FALSE
  BY DEF Carried, InstructionRecords
<1> HIDE DEF w, c, d, e, f, m, n
<1>10. /\ Within(h, 12, 31) /\ Field(h, 15, 19) = d /\ Field(h, 20, 24) = e /\ Field(h, 25, 31) = f
  BY <1>5, <1>7, <1>8, HighFields
<1> HIDE DEF h
<1>11. /\ ClassOf(w) = Class(i.name)
       /\ 6 \in w <=> i.scalar \/ i.name \in OneFormNames
       /\ Field(w, 7, 11) = {}
       /\ \A lo \in 12 .. 31, hi \in 12 .. 31 : Field(w, lo, hi) = Field(h, lo, hi)
  BY <1>1, <1>6, <1>7, <1>9, <1>10, WordFields
<1>12. /\ Number(Field(w, 15, 19)) = i.rs1 /\ Number(Field(w, 20, 24)) = i.rs2 /\ Field(w, 25, 31) = f
  BY <1>7, <1>10, <1>11
<1>13. SignedWord(DecodeWord(w).imm) = Meant(i)
  <2>1. ClassOf(w) = "STORE"
    BY <1>11, <1>1 DEF Class, RegisterOps, ImmediateOps, LoadNames, StoreNames
  <2>2. DecodeWord(w).imm = CASE ClassOf(w) \in {"SX_SLTI", "JALR", "I", "LOAD"} -> ImmI(w)
                              [] ClassOf(w) = "STORE" -> ImmS(w)
                              [] ClassOf(w) = "B" -> ImmB(w)
                              [] ClassOf(w) = "JAL" -> ImmJ(w)
                              [] ClassOf(w) \in {"LUI", "AUIPC"} -> ImmU(w)
                              [] OTHER -> {}
    BY Zenon DEF DecodeWord
  <2>3. DecodeWord(w).imm = ImmS(w)
    BY <2>1, <2>2
  <2>4. ImmS(w) = SignExtend(Bits(n), 12)
    <3>1. Field(w, 7, 11) \union Place(Field(w, 25, 31), 5) = m
      BY <1>5, <1>11, <1>12
    <3> QED
      BY <3>1 DEF ImmS, m
  <2>5. SignedWord(SignExtend(Bits(n), 12)) = Signed(n, 12)
    BY <1>2, ExtensionIsSigned
  <2>6. Meant(i) = Signed(n, 12)
    BY <1>1, Zenon DEF Meant, n
  <2> QED
    BY <2>3, <2>4, <2>5, <2>6
<1>14. DecodesAs(w, i)
  BY <1>1, <1>11, <1>12, <1>13, DecodedAsMeant
<1> QED
  BY <1>14 DEF w

\* LUI and AUIPC.
LEMMA UpperFormat ==
  ASSUME NEW i \in InstructionRecords, i.name \in UpperNames, Accepts("U", i)
  PROVE  DecodesAs(Encoded("U", i), i)
<1> DEFINE w == Encoded("U", i)
           n == i.imm
           m == Bits(n)
           b == Bits(i.rd)
           h == Place(m, 12)
<1>1. i.name \notin BranchOps /\ i.name # "HALT" /\ i.name # "JAL" /\ i.name \notin ImmediateOps
      /\ i.name \notin RegisterOps /\ i.name \notin StoreNames /\ i.name # "SX_SLT"
  BY DEF RegisterOps, BranchOps, StoreNames, ImmediateOps, UpperNames
<1>2. i.rd \in Registers /\ n \in 0 .. Pow(20) - 1
  BY AcceptedRanges
<1>3. m \subseteq 0 .. 19
  <2>1. 20 \in 0 .. 31 /\ 20 - 1 = 19
    OBVIOUS
  <2>2. m \subseteq 0 .. 20 - 1
    BY <2>1, <1>2, NumberOfBits
  <2> QED
    BY <2>1, <2>2
<1>4. Within(h, 12, 31)
  <2>1. m \in SUBSET Int
    BY <1>3
  <2> HIDE DEF m
  <2>2. h \subseteq Int /\ \A x \in Int : x \in h <=> x - 12 \in m
    BY <2>1, PlaceMember
  <2> HIDE DEF h
  <2> QED
    BY <2>2, <1>3 DEF Within
<1>5. w = Assembled(OpcodeField(i.name, i.scalar), b, h)
  BY Formats
<1>6. Within(b, 0, 4) /\ Number(b) = i.rd
  BY <1>2, RegisterBits
<1> HIDE DEF w, b, m, n, h
<1>7. /\ ClassOf(w) = Class(i.name)
      /\ 6 \in w <=> i.scalar \/ i.name \in OneFormNames
      /\ Field(w, 7, 11) = b /\ w \intersect 12 .. 31 = h
  <2>1. i.name \notin BranchOps /\ i.name \notin StoreNames /\ Within(b, 0, 4)
    BY <1>1, <1>6
  <2> QED
    BY <2>1, <1>4, <1>5, WordFields
<1>8. SignedWord(DecodeWord(w).imm) = Meant(i)
  <2>1. ClassOf(w) \in {"LUI", "AUIPC"}
    BY <1>7 DEF Class, RegisterOps, ImmediateOps, LoadNames, StoreNames, UpperNames
  <2>2. DecodeWord(w).imm = CASE ClassOf(w) \in {"SX_SLTI", "JALR", "I", "LOAD"} -> ImmI(w)
                              [] ClassOf(w) = "STORE" -> ImmS(w)
                              [] ClassOf(w) = "B" -> ImmB(w)
                              [] ClassOf(w) = "JAL" -> ImmJ(w)
                              [] ClassOf(w) \in {"LUI", "AUIPC"} -> ImmU(w)
                              [] OTHER -> {}
    BY Zenon DEF DecodeWord
  <2>3. DecodeWord(w).imm = h
    BY <2>1, <2>2, <1>7 DEF ImmU
  <2>4. SignedWord(h) = Signed(n, 20) * 2^12
    BY <1>2, UpperIsSigned DEF h, m
  <2>5. Meant(i) = Signed(n, 20) * 2^12
    <3>1. i.name # "JAL" /\ i.name \notin RegisterOps \union {"SX_SLT", "HALT"}
      BY <1>1
    <3> QED
      BY <3>1, Zenon DEF Meant, n
  <2> QED
    BY <2>3, <2>4, <2>5, Zenon
<1>9. DecodesAs(w, i)
  BY <1>1, <1>6, <1>7, <1>8, DecodedAsMeant
<1> QED
  BY <1>9 DEF w

\* The offset of a jump comes back from where set_imm21 scatters it, if it is even.
LEMMA JumpFields ==
  ASSUME NEW m, Within(m, 0, 20), 0 \notin m
  PROVE  Within(Imm21(m), 12, 31)
         /\ \A w : w \intersect 12 .. 31 = Imm21(m) /\ Within(w, 0, 31) => ImmJ(w) = SignExtend(m, 21)
<1> DEFINE h == Imm21(m)
<1>0. m \in SUBSET (0 .. 20)
  BY DEF Within
<1>1. /\ h \subseteq 12 .. 31
      /\ \A x \in Int : x \in h <=> \/ x = 31 /\ 20 \in m
                                    \/ x \in 21 .. 30 /\ x - 20 \in m
                                    \/ x = 20 /\ 11 \in m
                                    \/ x \in 12 .. 19 /\ x \in m
  BY DEF Imm21
<1> HIDE DEF h
<1>2. ASSUME NEW w, w \intersect 12 .. 31 = h, Within(w, 0, 31)
      PROVE  ImmJ(w) = SignExtend(m, 21)
  <2> DEFINE p == Place(Field(w, 21, 30), 1)
             q == Place(Field(w, 20, 20), 11)
             r == w \intersect 12 .. 19
             s == Place(Field(w, 31, 31), 20)
  <2>1. w \in SUBSET Int /\ \A x \in Int : x \in 12 .. 31 => (x \in w <=> x \in h)
    BY <1>2 DEF Within
  <2>2. /\ Field(w, 21, 30) \in SUBSET Int /\ Field(w, 20, 20) \in SUBSET Int
        /\ Field(w, 31, 31) \in SUBSET Int
        /\ \A x \in Int : x \in Field(w, 21, 30) <=> x \in 0 .. 9 /\ x + 21 \in w
        /\ \A x \in Int : x \in Field(w, 20, 20) <=> x = 0 /\ x + 20 \in w
        /\ \A x \in Int : x \in Field(w, 31, 31) <=> x = 0 /\ x + 31 \in w
    <3>1. /\ Field(w, 21, 30) \subseteq 0 .. 30 - 21
          /\ Field(w, 20, 20) \subseteq 0 .. 20 - 20
          /\ Field(w, 31, 31) \subseteq 0 .. 31 - 31
          /\ \A x \in Int : x \in Field(w, 21, 30) <=> x \in 0 .. 30 - 21 /\ x + 21 \in w
          /\ \A x \in Int : x \in Field(w, 20, 20) <=> x \in 0 .. 20 - 20 /\ x + 20 \in w
          /\ \A x \in Int : x \in Field(w, 31, 31) <=> x \in 0 .. 31 - 31 /\ x + 31 \in w
      BY <2>1, FieldMember
    <3> QED
      BY <3>1
  <2>3. /\ p \subseteq Int /\ \A x \in Int : x \in p <=> x - 1 \in Field(w, 21, 30)
        /\ q \subseteq Int /\ \A x \in Int : x \in q <=> x - 11 \in Field(w, 20, 20)
        /\ s \subseteq Int /\ \A x \in Int : x \in s <=> x - 20 \in Field(w, 31, 31)
    BY <2>2, PlaceMember
  <2> HIDE DEF p, q, s
  <2>4. \A x \in Int : /\ x \in p <=> x \in 1 .. 10 /\ x \in m
                       /\ x \in q <=> x = 11 /\ x \in m
                       /\ x \in r <=> x \in 12 .. 19 /\ x \in m
                       /\ x \in s <=> x = 20 /\ x \in m
    <3> TAKE x \in Int
    <3>1. x \in p <=> x \in 1 .. 10 /\ x \in m
      <4>1. x \in p <=> x - 1 \in 0 .. 9 /\ (x - 1) + 21 \in w
        BY <2>2, <2>3
      <4>2. x \in 1 .. 10 => (x + 20 \in w <=> x \in m)
        BY <2>1, <1>1
      <4> QED
        BY <4>1, <4>2
    <3>2. x \in q <=> x = 11 /\ x \in m
      <4>1. x \in q <=> x - 11 = 0 /\ (x - 11) + 20 \in w
        BY <2>2, <2>3
      <4>2. 20 \in w <=> 11 \in m
        BY <2>1, <1>1
      <4> QED
        BY <4>1, <4>2
    <3>3. x \in r <=> x \in 12 .. 19 /\ x \in m
      BY <2>1, <1>1
    <3>4. x \in s <=> x = 20 /\ x \in m
      <4>1. x \in s <=> x - 20 = 0 /\ (x - 20) + 31 \in w
        BY <2>2, <2>3
      <4>2. 31 \in w <=> 20 \in m
        BY <2>1, <1>1
      <4> QED
        BY <4>1, <4>2
    <3> QED
      BY <3>1, <3>2, <3>3, <3>4
  <2>5. p \union q \union r \union s = m
    <3>1. ASSUME NEW x \in Int
          PROVE  x \in p \union q \union r \union s <=> x \in m
      <4>1. x \in m => x \in 1 .. 10 \/ x = 11 \/ x \in 12 .. 19 \/ x = 20
        BY <1>0
      <4> HIDE DEF r
      <4> QED
        BY <4>1, <2>4
    <3>2. r \subseteq Int /\ m \subseteq Int
      BY <1>0
    <3> HIDE DEF r
    <3>3. p \union q \union r \union s \subseteq Int
      BY <2>3, <3>2
    <3> QED
      BY <3>1, <3>2, <3>3, SameIntegers
  <2> QED
    BY <2>5, Zenon DEF ImmJ, p, q, s
<1> QED
  BY <1>1, <1>2 DEF Within, h

\* JAL, which jumps an even distance.
LEMMA JumpFormat ==
  ASSUME NEW i \in InstructionRecords, i.name = "JAL", Carried(i), Accepts("J", i)
  PROVE  DecodesAs(Encoded("J", i), i)
<1> DEFINE w == Encoded("J", i)
           n == i.imm
           m == Bits(n)
           b == Bits(i.rd)
           h == Imm21(m)
<1>1. i.name \notin BranchOps /\ i.name \notin ImmediateOps /\ i.name \notin UpperNames
      /\ i.name \notin RegisterOps /\ i.name \notin StoreNames /\ i.name \notin LoadNames
  BY DEF RegisterOps, BranchOps, StoreNames, LoadNames, ImmediateOps, UpperNames
<1>2. i.rd \in Registers /\ n \in 0 .. Pow(21) - 1
  BY AcceptedRanges
<1>3. Within(m, 0, 20)
  <2>1. 21 \in 0 .. 31 /\ 21 - 1 = 20
    OBVIOUS
  <2>2. m \subseteq 0 .. 21 - 1
    BY <2>1, <1>2, NumberOfBits
  <2> QED
    BY <2>1, <2>2 DEF Within
<1>4. 0 \notin m
  <2>1. Pow(1) = 2 /\ Pow(21) = 2097152
    BY DEF Pow
  <2>2. n % Pow(1) = 0 /\ n \in Nat /\ 1 \in 0 .. 31
    <3>1. n % 2 = 0
      BY DEF Carried
    <3> QED
      BY <3>1, <2>1, <1>2
  <2>3. Sums(m)[1] = n % Pow(1)
    BY <2>2, SumOfBits
  <2>4. \A j \in 0 .. 1 - 1 : j \notin m
    BY <2>2, <2>3, SumsTell
  <2> HIDE DEF m
  <2> QED
    BY <2>4
<1>5. w = Assembled(OpcodeField(i.name, i.scalar), b, h)
  BY Formats
<1>6. Within(b, 0, 4) /\ Number(b) = i.rd
  BY <1>2, RegisterBits
<1> HIDE DEF w, b, m, n
<1>7. \A x : x \intersect 12 .. 31 = h /\ Within(x, 0, 31) => ImmJ(x) = SignExtend(m, 21)
  BY <1>3, <1>4, JumpFields
<1>7a. Within(h, 12, 31)
  BY <1>3, <1>4, JumpFields
<1> HIDE DEF h
<1>8. /\ ClassOf(w) = Class(i.name) /\ Within(w, 0, 31)
      /\ 6 \in w <=> i.scalar \/ i.name \in OneFormNames
      /\ Field(w, 7, 11) = b /\ w \intersect 12 .. 31 = h
  BY <1>1, <1>5, <1>6, <1>7a, WordFields
<1>9. SignedWord(DecodeWord(w).imm) = Meant(i)
  <2>1. ClassOf(w) = "JAL"
    BY <1>1, <1>8 DEF Class
  <2>2. DecodeWord(w).imm = CASE ClassOf(w) \in {"SX_SLTI", "JALR", "I", "LOAD"} -> ImmI(w)
                              [] ClassOf(w) = "STORE" -> ImmS(w)
                              [] ClassOf(w) = "B" -> ImmB(w)
                              [] ClassOf(w) = "JAL" -> ImmJ(w)
                              [] ClassOf(w) \in {"LUI", "AUIPC"} -> ImmU(w)
                              [] OTHER -> {}
    BY Zenon DEF DecodeWord
  <2>3. DecodeWord(w).imm = SignExtend(Bits(n), 21)
    BY <2>1, <2>2, <1>7, <1>8 DEF m
  <2>4. SignedWord(SignExtend(Bits(n), 21)) = Signed(n, 21)
    BY <1>2, ExtensionIsSigned
  <2>5. Meant(i) = Signed(n, 21)
    <3>1. i.name \notin RegisterOps \union {"SX_SLT", "HALT"} /\ i.name \notin UpperNames
      BY <1>1
    <3> QED
      BY <3>1, Zenon DEF Meant, n
  <2> QED
    BY <2>3, <2>4, <2>5
<1>10. i.name \notin ImmediateOps /\ i.name # "SX_SLT" /\ i.name # "HALT"
  BY <1>1
<1>11. DecodesAs(w, i)
  BY <1>1, <1>6, <1>8, <1>9, <1>10, DecodedAsMeant
<1> QED
  BY <1>11 DEF w

\* HALT, from its constructor or from the emitter; nothing but its class is read.
LEMMA HaltFormat ==
  ASSUME NEW i \in InstructionRecords, i.name = "HALT", NEW form \in {"NONE", "I"}, Accepts(form, i)
  PROVE  DecodesAs(Encoded(form, i), i)
<1> DEFINE w == Encoded(form, i)
<1>1. i.name \notin BranchOps /\ i.name \notin ImmediateOps /\ i.name \notin UpperNames
      /\ i.name \notin RegisterOps /\ i.name \notin StoreNames /\ i.name \notin LoadNames
  BY DEF RegisterOps, BranchOps, StoreNames, LoadNames, ImmediateOps, UpperNames
<1>2. PICK b, h : /\ w = Assembled(OpcodeField(i.name, i.scalar), b, h)
                  /\ Within(b, 0, 4) /\ Within(h, 12, 31)
  <2>1. CASE form = "NONE"
    <3>1. w = Assembled(OpcodeField(i.name, i.scalar), {}, {})
      BY <2>1, Formats
    <3>2. Within({}, 0, 4) /\ Within({}, 12, 31)
      BY DEF Within
    <3> QED
      BY <3>1, <3>2, Zenon
  <2>2. CASE form = "I"
    <3> DEFINE m == Bits(i.imm)
               c == Bits(Funct3(i.name))
               d == Bits(i.rs1)
               e == m \intersect 0 .. 4
               f == Field(m, 5, 11)
               b == Bits(i.rd)
               h == UpperFields(c, d, e, f)
    <3>1. i.rd \in Registers /\ i.rs1 \in Registers /\ i.imm \in 0 .. Pow(12) - 1
      BY <2>2, AcceptedRanges
    <3>2. Within(m, 0, 11)
      <4>1. 12 \in 0 .. 31 /\ 12 - 1 = 11
        OBVIOUS
      <4>2. m \subseteq 0 .. 12 - 1
        BY <4>1, <3>1, NumberOfBits
      <4> QED
        BY <4>1, <4>2 DEF Within
    <3>3. Place(m, 20) = Place(e, 20) \union Place(f, 25) /\ Within(e, 0, 4) /\ Within(f, 0, 6)
      <4> HIDE DEF m
      <4> QED
        BY <3>2, ImmediateFields
    <3>4. Within(b, 0, 4) /\ Within(d, 0, 4) /\ Within(c, 0, 2)
      BY <3>1, RegisterBits, FunctBits
    <3>5. w = Assembled(OpcodeField(i.name, i.scalar), b, Place(c, 12) \union Place(d, 15) \union Place(m, 20))
      BY <2>2, Formats
    <3> HIDE DEF w, b, c, d, e, f, m
    <3>6. w = Assembled(OpcodeField(i.name, i.scalar), b, h)
      BY <3>3, <3>5 DEF UpperFields
    <3>7. Within(h, 12, 31)
      BY <3>3, <3>4, HighFields
    <3> HIDE DEF h
    <3> QED
      BY <3>4, <3>6, <3>7, Zenon
  <2> QED
    BY <2>1, <2>2
<1> HIDE DEF w
<1>3. ClassOf(w) = Class(i.name) /\ (6 \in w <=> i.scalar \/ i.name \in OneFormNames)
  BY <1>1, <1>2, WordFields
<1>4. SignedWord(DecodeWord(w).imm) = Meant(i)
  <2>1. ClassOf(w) = "HALT"
    BY <1>1, <1>3 DEF Class
  <2>2. DecodeWord(w).imm = CASE ClassOf(w) \in {"SX_SLTI", "JALR", "I", "LOAD"} -> ImmI(w)
                              [] ClassOf(w) = "STORE" -> ImmS(w)
                              [] ClassOf(w) = "B" -> ImmB(w)
                              [] ClassOf(w) = "JAL" -> ImmJ(w)
                              [] ClassOf(w) \in {"LUI", "AUIPC"} -> ImmU(w)
                              [] OTHER -> {}
    BY Zenon DEF DecodeWord
  <2>3. DecodeWord(w).imm = {}
    BY <2>1, <2>2
  <2>4. Meant(i) = 0
    BY SMT DEF Meant, RegisterOps, UpperNames
  <2> QED
    BY <2>3, <2>4, NoImmediate
<1>5. i.name \notin ImmediateOps /\ i.name # "SX_SLT" /\ i.name \notin RegisterOps
  BY <1>1
<1>6. DecodesAs(w, i)
  BY <1>1, <1>3, <1>4, <1>5, DecodedAsMeant
<1> QED
  BY <1>6 DEF w

\* Whatever instruction the constructor of its mnemonic, or the emitter's choice
\* of one, accepts and the encoding can carry: the decoder reads from the word
\* the operation, registers, signed immediate and control signals meant by it.
THEOREM EncodingIsRight ==
  ASSUME NEW i \in InstructionRecords, NEW form \in {Constructor(i.name), EmitterForm(i.name)},
         Accepts(form, i), Carried(i)
  PROVE  DecodesAs(Encoded(form, i), i)
<1>1. i.name \in Names /\ i.name \notin BranchOps /\ i.name # "SRAI"
  BY DEF InstructionRecords, Carried
<1>2. \/ i.name \in RegisterOps \union {"SX_SLT"} \/ i.name \in StoreNames \/ i.name \in UpperNames
      \/ i.name = "JAL" \/ i.name = "HALT" \/ i.name \in ShortImmediateNames
  BY <1>1 DEF Names, AluOps, JumpOps, VectorScalarOps, ShortImmediateNames
<1> USE DEF RegisterOps, StoreNames, UpperNames, ShiftNames, BranchOps, LoadNames, ImmediateOps
<1>3. CASE i.name \in RegisterOps \union {"SX_SLT"}
  <2>1. form = "R"
    BY <1>3 DEF Constructor, EmitterForm
  <2> QED
    BY <1>3, <2>1, RegisterFormat
<1>4. CASE i.name \in StoreNames
  <2>1. form = "S"
    BY <1>4 DEF Constructor, EmitterForm
  <2> QED
    BY <1>4, <2>1, StoreFormat
<1>5. CASE i.name \in UpperNames
  <2>1. form = "U"
    BY <1>5 DEF Constructor, EmitterForm
  <2> QED
    BY <1>5, <2>1, UpperFormat
<1>6. CASE i.name = "JAL"
  <2>1. form = "J"
    BY <1>6 DEF Constructor, EmitterForm
  <2> QED
    BY <1>6, <2>1, JumpFormat
<1>7. CASE i.name = "HALT"
  <2>1. form \in {"NONE", "I"}
    BY <1>7 DEF Constructor, EmitterForm
  <2> QED
    BY <1>7, <2>1, HaltFormat
<1>8. CASE i.name \in ShortImmediateNames
  <2>1. form \in {"I", "SHIFT"} /\ (form = "SHIFT" => i.name \in ShiftNames)
    BY <1>8 DEF Constructor, EmitterForm, ShortImmediateNames
  <2> QED
    BY <1>8, <2>1, ImmediateFormat
<1> QED
  BY <1>2, <1>3, <1>4, <1>5, <1>6, <1>7, <1>8

-----------------------------------------------------------------------------
\* The bits of a word a constructor builds, and which of them decide the prefix.
LEMMA BuiltWord ==
  ASSUME NEW i \in InstructionRecords, NEW form \in {"U", "J", "S", "R", "I", "SHIFT", "NONE"},
         Accepts(form, i)
  PROVE  /\ Build(form, i) \subseteq BitPositions
         /\ i.name \notin BranchOps => (6 \in Build(form, i) <=> i.name \in OneFormNames)
<1> DEFINE j == [i EXCEPT !.scalar = FALSE]
           a == Bits(Opcode(j.name))
<1>1. /\ j.name = i.name /\ ~j.scalar
      /\ j.rd = i.rd /\ j.rs1 = i.rs1 /\ j.rs2 = i.rs2 /\ j.imm = i.imm
  BY DEF InstructionRecords
<1>2. Build(form, i) = Build(form, j)
  BY <1>1, Zenon DEF Build
<1>3. PICK b, h :
        /\ Encoded(form, j) = Assembled(OpcodeField(j.name, j.scalar), b, h)
        /\ form = "NONE" => b = {} /\ h = {}
        /\ form = "S" => b = {}
        /\ form \notin {"S", "NONE"} => b = Bits(j.rd)
        /\ form = "U" => h = Place(Bits(j.imm), 12)
        /\ form = "J" => h = Imm21(Bits(j.imm))
        /\ form = "S" => h = Place(Bits(Funct3(j.name)), 12) \union Place(Bits(j.rs1), 15)
                                \union Place(Bits(j.rs2), 20) \union Place(Bits(j.imm), 20)
        /\ form = "R" => h = UpperFields(Bits(Funct3(j.name)), Bits(j.rs1), Bits(j.rs2),
                                         Bits(Funct7(j.name)))
        /\ form = "I" => h = Place(Bits(Funct3(j.name)), 12) \union Place(Bits(j.rs1), 15)
                                \union Place(Bits(j.imm), 20)
        /\ form = "SHIFT" => h = Place(Bits(Funct3(j.name)), 12) \union Place(Bits(j.rs1), 15)
                                    \union Place(Bits(j.imm), 20) \union Place(Bits(Funct7(j.name)), 25)
  <2> HIDE DEF j
  <2> QED
    BY Formats
<1>4. Build(form, i) = a \union Place(b, 7) \union h
  <2>1. Encoded(form, j) = Build(form, j)
    BY <1>1, Zenon DEF Encoded
  <2>2. OpcodeField(j.name, j.scalar) = a
    BY <1>1 DEF OpcodeField
  <2> QED
    BY <2>1, <2>2, <1>2, <1>3, Zenon DEF Assembled
<1>5. /\ i.rd \in Registers /\ i.rs1 \in Registers /\ i.rs2 \in Registers
      /\ form = "U" => i.imm \in 0 .. Pow(20) - 1
      /\ form = "J" => i.imm \in 0 .. Pow(21) - 1
      /\ form \in {"S", "I", "SHIFT"} => i.imm \in 0 .. Pow(12) - 1
  BY AcceptedRanges
<1>6. /\ Bits(i.rd) \subseteq 0 .. 4 /\ Bits(i.rs1) \subseteq 0 .. 4 /\ Bits(i.rs2) \subseteq 0 .. 4
      /\ Bits(Funct3(i.name)) \subseteq 0 .. 2 /\ Bits(Funct7(i.name)) \subseteq 0 .. 6
  BY <1>5, RegisterBits, FunctBits DEF Within
<1>7. /\ form = "U" => Bits(i.imm) \subseteq 0 .. 19
      /\ form \in {"S", "I", "SHIFT"} => Bits(i.imm) \subseteq 0 .. 11
  <2>1. form = "U" => Bits(i.imm) \subseteq 0 .. 20 - 1
    BY <1>5, NumberOfBits
  <2>2. form \in {"S", "I", "SHIFT"} => Bits(i.imm) \subseteq 0 .. 12 - 1
    BY <1>5, NumberOfBits
  <2> QED
    BY <2>1, <2>2
<1>8. Place(b, 7) \subseteq 7 .. 11
  <2>1. b = {} \/ b = Bits(i.rd)
    <3> HIDE DEF j
    <3> QED
      BY <1>1, <1>3
  <2>2. b \subseteq 0 .. 4
    BY <2>1, <1>6
  <2>3. \A f \in SUBSET (0 .. 4) : Place(f, 7) \subseteq 7 .. 11
    BY DEF Place
  <2> QED
    BY <2>2, <2>3, Zenon
<1>9. h \subseteq 12 .. 31
  <2>1. /\ Place(Bits(Funct3(i.name)), 12) \subseteq 12 .. 31
        /\ Place(Bits(i.rs1), 15) \subseteq 12 .. 31 /\ Place(Bits(i.rs2), 20) \subseteq 12 .. 31
        /\ Place(Bits(Funct7(i.name)), 25) \subseteq 12 .. 31
    BY <1>6 DEF Place
  <2>2. /\ form = "U" => Place(Bits(i.imm), 12) \subseteq 12 .. 31
        /\ form \in {"S", "I", "SHIFT"} => Place(Bits(i.imm), 20) \subseteq 12 .. 31
    BY <1>7 DEF Place
  <2>3. Imm21(Bits(i.imm)) \subseteq 12 .. 31
    BY DEF Imm21
  <2>4. UpperFields(Bits(Funct3(i.name)), Bits(i.rs1), Bits(i.rs2), Bits(Funct7(i.name))) \subseteq 12 .. 31
    BY <2>1 DEF UpperFields
  <2> HIDE DEF j
  <2>5. /\ form = "NONE" => h = {}
        /\ form = "U" => h = Place(Bits(i.imm), 12)
        /\ form = "J" => h = Imm21(Bits(i.imm))
        /\ form = "S" => h = Place(Bits(Funct3(i.name)), 12) \union Place(Bits(i.rs1), 15)
                                \union Place(Bits(i.rs2), 20) \union Place(Bits(i.imm), 20)
        /\ form = "R" => h = UpperFields(Bits(Funct3(i.name)), Bits(i.rs1), Bits(i.rs2),
                                         Bits(Funct7(i.name)))
        /\ form = "I" => h = Place(Bits(Funct3(i.name)), 12) \union Place(Bits(i.rs1), 15)
                                \union Place(Bits(i.imm), 20)
        /\ form = "SHIFT" => h = Place(Bits(Funct3(i.name)), 12) \union Place(Bits(i.rs1), 15)
                                    \union Place(Bits(i.imm), 20) \union Place(Bits(Funct7(i.name)), 25)
    BY <1>1, <1>3, Zenon
  <2> QED
    BY <2>1, <2>2, <2>3, <2>4, <2>5
<1>10. a \subseteq 0 .. 30
  BY DEF Bits
<1>11. Build(form, i) \subseteq BitPositions
  <2>1. 0 .. 30 \subseteq BitPositions /\ 7 .. 11 \subseteq BitPositions /\ 12 .. 31 \subseteq BitPositions
    BY DEF BitPositions
  <2> QED
    BY <2>1, <1>4, <1>8, <1>9, <1>10, Zenon
<1>12. ASSUME i.name \notin BranchOps
       PROVE  6 \in Build(form, i) <=> i.name \in OneFormNames
  <2>1. 6 \in a <=> i.name \in OneFormNames
    <3>1. \/ i.name \in RegisterOps \/ i.name \in ImmediateOps \/ i.name \in LoadNames \/ i.name \in StoreNames
          \/ i.name \in {"LUI", "AUIPC", "HALT", "SX_SLT", "SX_SLTI", "JAL", "JALR"}
      BY <1>12 DEF InstructionRecords, Names, AluOps, UpperNames, JumpOps, VectorScalarOps
    <3>2. Opcode(i.name) \in 0 .. 127 /\ (64 <= Opcode(i.name) <=> i.name \in OneFormNames)
      <4>1. i.name \in RegisterOps \union ImmediateOps \union LoadNames \union StoreNames \union {"LUI", "AUIPC"}
                => Opcode(i.name) \in {51, 19, 3, 35, 55, 23} /\ i.name \notin OneFormNames
        BY Opcodes DEF RegisterOps, ImmediateOps, LoadNames, StoreNames, OneFormNames, JumpOps, VectorScalarOps
      <4>2. i.name \in {"HALT", "SX_SLT", "SX_SLTI", "JAL", "JALR"}
                => Opcode(i.name) \in {127, 126, 125, 111, 103} /\ i.name \in OneFormNames
        BY Opcodes DEF OneFormNames, JumpOps, VectorScalarOps
      <4> QED
        BY <3>1, <4>1, <4>2
    <3> QED
      BY <1>1, <3>2, OpcodeBits
  <2> HIDE DEF a
  <2> QED
    BY <2>1, <1>4, <1>8, <1>9
<1> QED
  BY <1>11, <1>12
=============================================================================
