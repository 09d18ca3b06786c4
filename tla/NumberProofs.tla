---------------------------- MODULE NumberProofs ----------------------------
(***************************************************************************)
(* Facts about numbers that the proofs of several components rest on.      *)
(* Induction is a lemma about sets of numbers: a loop or a recursive       *)
(* function is reasoned about through the set of the steps up to which     *)
(* what is said of it holds.                                               *)
(***************************************************************************)
EXTENDS Integers, WellFoundedInduction, TLAPS

\* Every set of numbers that is not empty has a least one.
LEMMA LeastNumber ==
  ASSUME NEW S, S \subseteq Nat, S # {}
  PROVE  \E m \in S : \A k \in S : m <= k
<1> DEFINE R == OpToRel(<, Nat)
<1>1. IsWellFoundedOn(R, Nat)
  BY NatLessThanWellFounded
<1> HIDE DEF R
<1>2. PICK m \in S : \A k \in S : <<k, m>> \notin R
  BY <1>1, WFMin
<1>3. ASSUME NEW k \in S PROVE m <= k
  <2>1. k \in Nat /\ m \in Nat
    OBVIOUS
  <2>2. k < m => <<k, m>> \in R
    BY <2>1 DEF R, OpToRel
  <2>3. QED
    BY <1>2, <2>1, <2>2
<1>4. QED
  BY <1>3

\* A set that holds 0 and, with a number below n, the next one holds all up
\* to n.  Facts about loops are proved with it, the set in place of a predicate.
LEMMA Induction ==
  ASSUME NEW n \in Nat, NEW S, 0 \in S,
         \A k \in 0 .. n - 1 : k \in S => k + 1 \in S
  PROVE  0 .. n \subseteq S
<1> DEFINE T == (0 .. n) \ S
<1> SUFFICES ASSUME T # {} PROVE FALSE
  OBVIOUS
<1>1. PICK m \in T : \A k \in T : m <= k
  BY LeastNumber, T \subseteq Nat
<1>2. m # 0 /\ m - 1 \in 0 .. n - 1
  OBVIOUS
<1>3. m - 1 \in S
  BY <1>1, <1>2
<1>4. QED
  BY <1>2, <1>3

\* f is given by its first value and a step: f[0] = a, f[k] = g[<<k - 1, f[k - 1]>>].
IsIterate(f, m, a, g) ==
  f = [k \in 0 .. m |-> IF k = 0 THEN a ELSE g[<<k - 1, f[k - 1]>>]]

\* A function given by its first value and a step exists on every 0 .. n.
LEMMA Recursion ==
  ASSUME NEW n \in Nat, NEW S, NEW a \in S, NEW g \in [Nat \X S -> S]
  PROVE  \E f \in [0 .. n -> S] : IsIterate(f, n, a, g)
<1> DEFINE T == {m \in 0 .. n : \E f \in [0 .. m -> S] : IsIterate(f, m, a, g)}
<1>1. 0 \in T
  <2> DEFINE f == [k \in 0 .. 0 |-> a]
  <2>1. f \in [0 .. 0 -> S]
    OBVIOUS
  <2>2. IsIterate(f, 0, a, g)
    BY DEF IsIterate
  <2> HIDE DEF f
  <2>3. \E ff \in [0 .. 0 -> S] : IsIterate(ff, 0, a, g)
    BY <2>1, <2>2
  <2>4. QED
    BY <2>3
<1>2. ASSUME NEW m \in 0 .. n - 1, m \in T
      PROVE  m + 1 \in T
  <2>1. PICK f \in [0 .. m -> S] : IsIterate(f, m, a, g)
    BY <1>2
  <2> DEFINE h == [k \in 0 .. m + 1 |-> IF k = m + 1 THEN g[<<m, f[m]>>] ELSE f[k]]
  <2>2. h \in [0 .. m + 1 -> S]
    <3>1. f[m] \in S /\ <<m, f[m]>> \in Nat \X S
      OBVIOUS
    <3>2. g[<<m, f[m]>>] \in S
      BY <3>1
    <3>3. QED
      BY <3>2
  <2>3. ASSUME NEW k \in 0 .. m + 1
        PROVE  h[k] = IF k = 0 THEN a ELSE g[<<k - 1, h[k - 1]>>]
    <3>1. CASE k = m + 1
      <4>1. k # 0 /\ k - 1 = m /\ m \in 0 .. m + 1 /\ m # m + 1
        BY <3>1
      <4>2. h[k - 1] = f[m] /\ h[k] = g[<<m, f[m]>>]
        BY <3>1, <4>1
      <4>3. QED
        BY <4>1, <4>2
    <3>2. CASE k \in 0 .. m
      <4>1. h[k] = f[k] /\ (k # 0 => h[k - 1] = f[k - 1])
        BY <3>2
      <4>2. f[k] = IF k = 0 THEN a ELSE g[<<k - 1, f[k - 1]>>]
        BY <2>1, <3>2 DEF IsIterate
      <4> HIDE DEF h
      <4>3. QED
        BY <4>1, <4>2
    <3>3. QED
      BY <3>1, <3>2
  <2>4. IsIterate(h, m + 1, a, g)
    <3> HIDE DEF h
    <3>1. DOMAIN h = 0 .. m + 1
      BY <2>2
    <3>2. h = [k \in 0 .. m + 1 |-> h[k]]
      BY <2>2
    <3>3. QED
      BY <2>3, <3>2 DEF IsIterate
  <2> HIDE DEF h
  <2>5. \E ff \in [0 .. m + 1 -> S] : IsIterate(ff, m + 1, a, g)
    BY <2>2, <2>4
  <2>6. QED
    BY <2>5
<1>3. n \in T
  <2> HIDE DEF T
  <2>1. QED
    BY <1>1, <1>2, Induction
<1>4. QED
  BY <1>3

\* Division with rest is unique.
LEMMA Quotient ==
  ASSUME NEW i \in Nat, NEW m \in Nat \ {0}, NEW p \in Nat, NEW c \in Nat,
         i = p * m + c, c < m
  PROVE  i \div m = p /\ i % m = c
  OBVIOUS

\* What / and % return.
LEMMA DivMod ==
  ASSUME NEW i \in Nat, NEW m \in Nat \ {0}
  PROVE  /\ i \div m \in Nat /\ i % m \in 0 .. m - 1
         /\ i = (i \div m) * m + (i % m)
  OBVIOUS

\* Division by a product is division by its factors: a digit of a row can be
\* taken level by level.
LEMMA DivTwice ==
  ASSUME NEW i \in Nat, NEW s \in Nat \ {0}, NEW r \in Nat \ {0}
  PROVE  i \div (s * r) = (i \div s) \div r
<1> DEFINE q == i \div s
           a == i % s
           p == q \div r
           b == q % r
           c == b * s + a
<1>1. q \in Nat /\ a \in 0 .. s - 1 /\ i = q * s + a
  BY DivMod
<1>2. p \in Nat /\ b \in 0 .. r - 1 /\ q = p * r + b
  <2> HIDE DEF q
  <2>1. QED
    BY <1>1, DivMod
<1> HIDE DEF q, a, p, b
<1>3. i = p * (s * r) + c
  BY <1>1, <1>2
<1>4. s * r \in Nat \ {0}
  OBVIOUS
<1>5. c \in Nat
  BY <1>1, <1>2
<1>6. c < s * r
  <2>1. b * s <= (r - 1) * s
    BY <1>2
  <2>2. QED
    BY <1>1, <1>2, <2>1
<1> HIDE DEF c
<1>7. i \div (s * r) = p
  BY <1>2, <1>3, <1>4, <1>5, <1>6, Quotient
<1>8. QED
  BY <1>7 DEF p, q

\* Multiplication by a positive number keeps the order.
LEMMA MulOrder ==
  ASSUME NEW a \in Nat, NEW c \in Nat, NEW r \in Nat \ {0}
  PROVE  /\ a * r \in Nat /\ (a + 1) * r = a * r + r
         /\ a * r >= c * r => a >= c
         /\ a <= c => a * r <= c * r
<1>0. a <= c => a * r <= c * r
  OBVIOUS
<1>1. ASSUME a < c PROVE a * r < c * r
  <2>1. (a + 1) * r <= c * r
    BY <1>1
  <2>2. QED
    BY <2>1
<1>2. QED
  BY <1>0, <1>1

\* The rows of one leaf are those with one quotient.
LEMMA InChunk ==
  ASSUME NEW j \in Nat, NEW c \in Nat, NEW r \in Nat \ {0}
  PROVE  j \div r = c <=> c * r <= j /\ j < c * r + r
<1>1. ASSUME j \div r = c PROVE c * r <= j /\ j < c * r + r
  BY <1>1, DivMod
<1>2. ASSUME c * r <= j, j < c * r + r PROVE j \div r = c
  <2>1. j - c * r \in Nat /\ j - c * r < r /\ j = c * r + (j - c * r)
    BY <1>2
  <2>2. QED
    BY <2>1, Quotient
<1>3. QED
  BY <1>1, <1>2

=============================================================================
