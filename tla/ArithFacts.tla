----------------------------- MODULE ArithFacts -----------------------------
(* Facts about naturals that the proofs of several components cite.         *)
EXTENDS Integers, WellFoundedInduction, TLAPS

\* Every nonempty set of naturals has a least element, so the CHOOSE of a
\* minimum (the first hit of an upward scan) is that element.
LEMMA LeastElement ==
    ASSUME NEW S \in SUBSET Nat, S # {}
    PROVE  \E m \in S : \A n \in S : m <= n
<1> DEFINE Less == OpToRel(<, Nat)
<1>1. \A x, y \in Nat : <<x, y>> \in Less <=> x < y
  BY DEF OpToRel
<1>2. PICK m \in S : \A n \in S : ~(<<n, m>> \in Less)
  <2>1. IsWellFoundedOn(Less, Nat)
    BY NatLessThanWellFounded
  <2> HIDE DEF Less
  <2> QED BY <2>1, WFMin, ZenonT(60)
<1>3. \A n \in S : n \in Nat
  OBVIOUS
<1>4. ASSUME NEW n \in S PROVE m <= n
  <2> HIDE DEF Less
  <2>1. ~(n < m)
    BY <1>1, <1>2, <1>3, ZenonT(60)
  <2> QED BY <2>1, <1>3
<1> QED BY <1>4

\* A nonempty selection of the positions 1..n of a table of integers has a
\* first largest member: what a scan with a strict comparison ends with.
LEMMA FirstLargestExists ==
    ASSUME NEW n \in Nat, NEW f, \A i \in 1..n : f[i] \in Int,
           NEW S \in SUBSET (1..n), S # {}
    PROVE  \E i \in S : \A j \in S : f[i] > f[j] \/ (f[i] = f[j] /\ i <= j)
<1> DEFINE Beats(i, j) == f[i] > f[j] \/ (f[i] = f[j] /\ i <= j)
           UpTo(k) == {j \in S : j <= k}
           Top(k) == \E i \in UpTo(k) : \A j \in UpTo(k) : Beats(i, j)
           Bad == {k \in 1..n : UpTo(k) # {} /\ ~Top(k)}
<1>0. \A i \in S : i \in 1..n /\ f[i] \in Int
  OBVIOUS
<1>a. \A i \in S : Beats(i, i)
  BY <1>0
<1>b. \A i, j, k \in S : Beats(i, j) /\ Beats(j, k) => Beats(i, k)
  BY <1>0
<1>c. \A i, j \in S : Beats(i, j) \/ Beats(j, i)
  BY <1>0
<1>1. ASSUME Bad # {} PROVE FALSE
  <2>1. PICK k \in Bad : \A m \in Bad : k <= m
    <3>1. Bad \in SUBSET Nat
      OBVIOUS
    <3> HIDE DEF Bad
    <3> QED BY <1>1, <3>1, LeastElement
  <2>2. k \in 1..n /\ UpTo(k) # {} /\ ~Top(k)
    BY <2>1 DEF Bad
  <2>0. k \in Int
    BY <2>2
  <2>3. UpTo(k) \subseteq S /\ UpTo(k) \subseteq UpTo(k - 1) \cup {k}
    <3> SUFFICES ASSUME NEW j \in UpTo(k) PROVE j \in S /\ (j \in UpTo(k - 1) \/ j = k)
      BY ZenonT(60)
    <3>1. j \in S /\ j <= k /\ j \in Int
      BY <1>0
    <3> QED BY <3>1, <2>0
  <2>3a. UpTo(k - 1) \subseteq UpTo(k)
    <3> SUFFICES ASSUME NEW j \in S, j <= k - 1 PROVE j <= k
      BY ZenonT(60)
    <3> QED BY <1>0, <2>0
  <2>4. CASE UpTo(k - 1) = {}
    <3>1. UpTo(k) = {k}
      BY <2>2, <2>3, <2>4
    <3> HIDE DEF UpTo, Beats
    <3> QED BY <3>1, <2>2, <2>3, <1>a
  <2>5. CASE UpTo(k - 1) # {}
    <3>1. k - 1 \in 1..n
      <4>1. PICK j \in S : j <= k - 1
        BY <2>5, ZenonT(60)
      <4> QED BY <4>1, <1>0, <2>2
    <3>2. k - 1 \notin Bad
      <4> HIDE DEF Bad
      <4> QED BY <2>1, <2>2, <3>1
    <3>3. Top(k - 1)
      <4> HIDE DEF Top, UpTo
      <4> QED BY <3>1, <3>2, <2>5 DEF Bad
    <3>4. PICK i \in UpTo(k - 1) : \A j \in UpTo(k - 1) : Beats(i, j)
      BY <3>3
    <3> HIDE DEF UpTo, Beats
    <3>5. i \in S /\ i \in UpTo(k)
      BY <2>3, <2>3a
    <3>6. CASE k \in UpTo(k) /\ Beats(k, i)
      <4>1. \A j \in UpTo(k) : Beats(k, j)
        BY <3>4, <3>5, <3>6, <2>3, <2>3a, <1>a, <1>b
      <4> QED BY <4>1, <3>6, <2>2
    <3>7. CASE k \in UpTo(k) => ~Beats(k, i)
      <4>1. \A j \in UpTo(k) : Beats(i, j)
        BY <3>4, <3>5, <3>7, <2>3, <1>c
      <4> QED BY <4>1, <3>5, <2>2
    <3> QED BY <3>6, <3>7
  <2> QED BY <2>4, <2>5
<1>2. n \in 1..n /\ UpTo(n) = S
  <2>1. PICK i \in S : i \in 1..n
    BY <1>0, ZenonT(60)
  <2>2. \A j \in S : j <= n
    BY <1>0
  <2>3. UpTo(n) = S
    BY <2>2, ZenonT(60)
  <2> HIDE DEF UpTo
  <2> QED BY <2>1, <2>3
<1>3. Top(n)
  <2> HIDE DEF UpTo, Top
  <2> QED BY <1>1, <1>2
<1>4. \E i \in S : \A j \in S : Beats(i, j)
  <2> HIDE DEF UpTo, Beats
  <2> QED BY <1>2, <1>3, ZenonT(60)
<1> QED BY <1>4

\* Quotient and remainder by a positive divisor.
LEMMA DivMod ==
    ASSUME NEW p \in Nat \ {0}, NEW x \in Nat
    PROVE  /\ x \div p \in Nat
           /\ x % p \in 0 .. p - 1
           /\ x = p * (x \div p) + (x % p)
  OBVIOUS

\* A quotient is determined by its defining equation.
LEMMA QuotientUnique ==
    ASSUME NEW p \in Nat \ {0}, NEW q \in Nat, NEW r \in 0 .. p - 1
    PROVE  (p * q + r) \div p = q /\ (p * q + r) % p = r
<1> DEFINE x == p * q + r
           q2 == x \div p
           r2 == x % p
<1>1. x \in Nat
  OBVIOUS
<1>2. q2 \in Nat /\ r2 \in 0 .. p - 1 /\ x = p * q2 + r2
  <2> HIDE DEF x
  <2> QED BY <1>1, DivMod, ZenonT(60)
<1>3. p * (q - q2) = r2 - r
  <2> HIDE DEF q2, r2
  <2> QED BY <1>2
<1>4. \A d \in Int : p * d > -p /\ p * d < p => d = 0
  <2> TAKE d \in Int
  <2>1. d >= 1 => p * d >= p
    OBVIOUS
  <2>2. d <= -1 => p * d <= -p
    OBVIOUS
  <2> QED BY <2>1, <2>2
<1> HIDE DEF q2, r2, x
<1>5. q - q2 \in Int /\ r2 - r > -p /\ r2 - r < p
  BY <1>2
<1>6. q - q2 = 0
  BY <1>3, <1>4, <1>5
<1>7. q = q2
  BY <1>6, <1>2
<1>8. r = r2
  BY <1>3, <1>7, <1>2
<1> QED BY <1>7, <1>8 DEF q2, r2, x

\* Multiplying by a positive number keeps the order.
LEMMA ScaleOrder ==
    ASSUME NEW p \in Nat \ {0}, NEW a \in Nat, NEW b \in Nat
    PROVE  (a <= b <=> p * a <= p * b) /\ (a < b <=> p * a < p * b)
<1>1. a <= b => p * a <= p * b
  OBVIOUS
<1>2. a > b => p * a > p * b
  <2>1. p * (a - b) = p * a - p * b
    OBVIOUS
  <2>2. a - b >= 1 => p * (a - b) >= 1
    OBVIOUS
  <2> QED BY <2>1, <2>2
<1>3. a < b => p * a < p * b
  <2>1. p * (b - a) = p * b - p * a
    OBVIOUS
  <2>2. b - a >= 1 => p * (b - a) >= 1
    OBVIOUS
  <2> QED BY <2>1, <2>2
<1>4. a = b => p * a = p * b
  OBVIOUS
<1>5. p * a \in Int /\ p * b \in Int
  OBVIOUS
<1> QED BY <1>1, <1>2, <1>3, <1>4, <1>5

\* Induction over the naturals, for a set: it does not take a predicate as a
\* parameter, so it can be cited.
LEMMA SetInduction ==
    ASSUME NEW S \in SUBSET Nat, 0 \in S, \A n \in S : n + 1 \in S
    PROVE  S = Nat
<1> DEFINE B == Nat \ S
<1> SUFFICES ASSUME B # {} PROVE FALSE
  BY ZenonT(60)
<1>1. B \in SUBSET Nat
  OBVIOUS
<1>2. PICK m \in B : \A k \in B : m <= k
  BY <1>1, LeastElement, ZenonT(60)
<1>3. m \in Nat /\ m # 0 /\ m - 1 \in Nat /\ (m - 1) + 1 = m
  OBVIOUS
<1>4. m - 1 \in S
  BY <1>2, <1>3
<1> QED BY <1>3, <1>4
=============================================================================
