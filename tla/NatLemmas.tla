----------------------------- MODULE NatLemmas -----------------------------
(* Facts about natural numbers that the proof modules share.                 *)
EXTENDS Integers, WellFoundedInduction, TLAPS

\* Every nonempty set of natural numbers has a least element.  Proofs by
\* induction take the set of counterexamples for S.
LEMMA LeastNatural ==
    ASSUME NEW S \in SUBSET Nat, S # {}
    PROVE  \E n \in S : \A m \in S : n <= m
<1>1. \E n \in S : \A m \in S : <<m, n>> \notin OpToRel(<, Nat)
  BY NatLessThanWellFounded, WFMin
<1>2. \A m, n \in Nat : m < n => <<m, n>> \in OpToRel(<, Nat)
  BY Zenon DEF OpToRel
<1>3. PICK n \in S : \A m \in S : <<m, n>> \notin OpToRel(<, Nat)
  BY <1>1
<1>4. \A m \in S : ~ (m < n)
  BY <1>2, <1>3, Zenon
<1> QED
  BY <1>4

\* The remainder of a division in the two cases that index arithmetic needs.
LEMMA ModBasics ==
    ASSUME NEW a \in Nat, NEW b \in Nat, b > 0
    PROVE  /\ a % b \in 0 .. b - 1
           /\ a < b => a % b = a
           /\ b <= a /\ a < 2 * b => a % b = a - b
OBVIOUS

\* A product of natural numbers is one.
LEMMA MulNat ==
    ASSUME NEW a \in Nat, NEW b \in Nat
    PROVE  a * b \in Nat
OBVIOUS

\* A number below another is at least one multiple below it.
LEMMA MulLess ==
    ASSUME NEW a \in Nat, NEW b \in Nat, NEW m \in Nat, a < b
    PROVE  a * m + m <= b * m
<1>1. b = a + 1 + (b - a - 1) /\ b - a - 1 \in Nat
  OBVIOUS
<1>2. PICK c \in Nat : b = a + 1 + c
  BY <1>1
<1>3. b * m = a * m + m + c * m /\ c * m \in Nat /\ a * m \in Nat
  BY <1>2
<1> QED
  BY <1>3

\* The division with remainder.
LEMMA DivMod ==
    ASSUME NEW a \in Nat, NEW b \in Nat, b > 0
    PROVE  /\ a = (b * (a \div b)) + (a % b)
           /\ a % b \in 0 .. b - 1 /\ a \div b \in Nat
OBVIOUS

\* The quotient and the remainder of a number that is given by them.
LEMMA DivPoint ==
    ASSUME NEW q \in Nat, NEW m \in Nat, m > 0, NEW r \in 0 .. m - 1
    PROVE  (q * m + r) \div m = q /\ (q * m + r) % m = r
<1>1. PICK a : a = q * m + r
  OBVIOUS
<1>2. a \in Nat
  BY <1>1
<1>3. PICK d, e : d = a \div m /\ e = a % m
  OBVIOUS
<1>4. d \in Nat /\ e \in 0 .. m - 1 /\ a = m * d + e
  BY <1>2, <1>3, DivMod
<1>5. ~ (d < q)
  <2> SUFFICES ASSUME d < q
               PROVE  FALSE
    OBVIOUS
  <2>1. d * m + m <= q * m
    BY <1>4, MulLess
  <2> QED
    BY <2>1, <1>1, <1>4
<1>6. ~ (q < d)
  <2> SUFFICES ASSUME q < d
               PROVE  FALSE
    OBVIOUS
  <2>1. q * m + m <= d * m
    BY <1>4, MulLess
  <2> QED
    BY <2>1, <1>1, <1>4
<1>7. d = q
  BY <1>4, <1>5, <1>6
<1> QED
  BY <1>1, <1>3, <1>4, <1>7

\* A number that can be divided into k parts is k of these parts.
LEMMA WholeParts ==
    ASSUME NEW b \in Nat \ {0}, NEW k \in Nat, k > 0, b % k = 0
    PROVE  b \div k \in Nat /\ b \div k > 0 /\ k * (b \div k) = b
<1>1. b = (k * (b \div k)) + (b % k) /\ b \div k \in Nat
  BY DivMod
<1>2. PICK d \in Nat : d = b \div k
  BY <1>1
<1>3. b = k * d
  BY <1>1, <1>2
<1>4. d # 0
  BY <1>3
<1> QED
  BY <1>2, <1>3, <1>4
=============================================================================
