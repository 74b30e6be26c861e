------------------------------ MODULE NatFacts ------------------------------
(***************************************************************************)
(* Facts about natural numbers that the proofs rest on.  An induction over *)
(* the channels of the controller or the bits of a word is written as an   *)
(* appeal to the least counterexample.                                     *)
(***************************************************************************)
EXTENDS Naturals, WellFoundedInduction, TLAPS

\* Every nonempty set of natural numbers has a least element.
LEMMA LeastElement ==
  ASSUME NEW T \in SUBSET Nat, T # {}
  PROVE  \E m \in T : \A n \in T : m <= n
<1> DEFINE R == {p \in Nat \X Nat : p[1] < p[2]}
<1>1. IsWellFoundedOn(R, Nat)
  BY NatLessThanWellFounded DEF OpToRel
<1>2. PICK m \in T : \A n \in T : <<n, m>> \notin R
  BY <1>1, WFMin
<1>3. ASSUME NEW n \in T PROVE m <= n
  <2>1. ~(n < m)
    BY <1>2
  <2> HIDE DEF R
  <2> QED
    BY <2>1
<1> QED
  BY <1>3

\* A nonempty set of numbers up to a bound has a greatest element.
LEMMA GreatestElement ==
  ASSUME NEW b \in Nat, NEW T \in SUBSET (0 .. b), T # {}
  PROVE  \E m \in T : \A n \in T : n <= m
<1> DEFINE D == {d \in 0 .. b : b - d \in T}
<1>1. D \in SUBSET Nat /\ D # {}
  <2>1. PICK t \in T : TRUE
    OBVIOUS
  <2>2. b - t \in 0 .. b /\ b - (b - t) = t
    BY <2>1
  <2> QED
    BY <2>1, <2>2
<1>2. PICK d \in D : \A e \in D : d <= e
  <2> HIDE DEF D
  <2> QED
    BY <1>1, LeastElement
<1>3. \A n \in T : n <= b - d
  <2> TAKE n \in T
  <2>1. b - n \in 0 .. b /\ b - (b - n) = n
    OBVIOUS
  <2>2. b - n \in D
    BY <2>1
  <2>3. d <= b - n
    BY <2>2, <1>2
  <2> QED
    BY <2>3, <2>1
<1> QED
  BY <1>2, <1>3

\* Division by a positive number, as quotient and remainder.
LEMMA Division ==
  ASSUME NEW n \in Nat, NEW k \in Nat \ {0}
  PROVE  /\ n \div k \in Nat
         /\ n \div k <= n
         /\ n % k \in 0 .. k - 1
         /\ n = k * (n \div k) + (n % k)
  OBVIOUS

\* Dividing by twice k is dropping the lowest bit and dividing by k.
LEMMA DivisionByDouble ==
  ASSUME NEW n \in Nat, NEW b \in 0 .. 1, NEW k \in Nat \ {0}
  PROVE  (2 * n + b) \div (2 * k) = n \div k
<1>1. PICK q \in Nat, r \in 0 .. k - 1 : n = k * q + r /\ q = n \div k
  BY Division
<1>2. 2 * n + b = (2 * k) * q + (2 * r + b)
  BY <1>1
<1>3. 2 * r + b \in 0 .. 2 * k - 1
  OBVIOUS
<1> QED
  BY <1>1, <1>2, <1>3

\* What a number leaves when it is divided is determined by how it is composed.
LEMMA RemainderUnique ==
  ASSUME NEW k \in Nat \ {0}, NEW q \in Int, NEW r \in 0 .. k - 1
  PROVE  (k * q + r) % k = r
  OBVIOUS

\* A number below the divisor is its own remainder.
LEMMA SmallRemainder ==
  ASSUME NEW k \in Nat \ {0}, NEW r \in 0 .. k - 1
  PROVE  r % k = r
  OBVIOUS

\* Subtracting the divisor does not change the remainder.
LEMMA RemainderOfShift ==
  ASSUME NEW n \in Int, NEW k \in Nat \ {0}
  PROVE  (n - k) % k = n % k
<1>1. PICK q \in Int, r \in 0 .. k - 1 : n = k * q + r
  <2>1. n = k * (n \div k) + (n % k) /\ n % k \in 0 .. k - 1 /\ n \div k \in Int
    OBVIOUS
  <2> QED
    BY <2>1
<1>2. n - k = k * (q - 1) + r
  BY <1>1
<1>3. (n - k) % k = r
  BY <1>2, RemainderUnique
<1> QED
  BY <1>1, <1>3, RemainderUnique
=============================================================================
