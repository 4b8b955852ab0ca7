----------------------------- MODULE Iteration -----------------------------
(***************************************************************************)
(* What the proofs about numbers need and the prover does not know.        *)
(* Induction: what holds of 0 and goes over to the next number holds of    *)
(* all of them.  Division.  And recursion: a function on the natural       *)
(* numbers that is defined by its first value and a step from each value   *)
(* to the next exists and satisfies its definition.  Modules instantiate   *)
(* this one for their functions.                                           *)
(***************************************************************************)
EXTENDS Integers, WellFoundedInduction, TLAPS

CONSTANTS Base, Step(_, _)

Iterates(f, S) == f = [k \in S |-> IF k = 0 THEN Base ELSE Step(k, f[k - 1])]

-----------------------------------------------------------------------------
(* Induction                                                                *)

\* The least number of a set.
LEMMA Least ==
  ASSUME NEW T, T \subseteq Nat, T # {}
  PROVE  \E m \in T : \A k \in T : m <= k
<1> DEFINE R == OpToRel(<, Nat)
<1>1. IsWellFoundedOn(R, Nat)
  BY NatLessThanWellFounded
<1> HIDE DEF R
<1>2. PICK m \in T : \A k \in T : ~(<<k, m>> \in R)
  BY <1>1, WFMin
<1>3. \A k \in T : ~(k < m)
  BY <1>2 DEF R, OpToRel
<1>4. QED
  BY <1>2, <1>3

\* What holds of 0 and goes over to the next number has no least exception.
LEMMA NoLeastException ==
  ASSUME NEW T, T \subseteq Nat, 0 \notin T,
         \A k \in Nat : k \notin T => k + 1 \notin T
  PROVE  T = {}
<1> SUFFICES ASSUME T # {} PROVE FALSE
  OBVIOUS
<1>1. PICK m \in T : \A k \in T : m <= k
  BY Least
<1>2. m \in Nat /\ m # 0
  OBVIOUS
<1>3. m - 1 \in Nat /\ m - 1 \notin T
  BY <1>1, <1>2
<1>4. (m - 1) + 1 = m
  BY <1>2
<1>5. QED
  BY <1>3, <1>4

-----------------------------------------------------------------------------
(* Division                                                                 *)

\* Division with remainder.
LEMMA Division ==
  ASSUME NEW p \in Nat \ {0}, NEW n \in Nat
  PROVE  /\ n \div p \in Nat
         /\ n % p \in 0 .. p - 1
         /\ n = (p * (n \div p)) + (n % p)
  BY SMT

\* Products of natural numbers with a larger factor are larger.
LEMMA LargerProduct ==
  ASSUME NEW p \in Nat, NEW x \in Nat, NEW y \in Nat, x <= y
  PROVE  p * x <= p * y
<1>1. y = x + (y - x) /\ y - x \in Nat
  OBVIOUS
<1>2. p * y = (p * x) + (p * (y - x)) /\ p * (y - x) \in Nat /\ p * x \in Nat
  BY <1>1, SMT
<1>3. QED
  BY <1>2, SMT

\* A number lies between two multiples that follow each other, which tells the
\* quotient.
LEMMA QuotientIs ==
  ASSUME NEW p \in Nat \ {0}, NEW n \in Nat, NEW q \in Nat,
         p * q <= n, n < (p * q) + p
  PROVE  n \div p = q
<1> DEFINE d == n \div p
<1>1. d \in Nat /\ n % p \in 0 .. p - 1 /\ n = (p * d) + (n % p)
  BY Division
<1>2. p * d <= n /\ n < (p * d) + p
  BY <1>1, SMT
<1> HIDE DEF d
<1>3. ~(d < q)
  <2> SUFFICES ASSUME d + 1 <= q PROVE FALSE
    BY <1>1
  <2>1. p * (d + 1) <= p * q /\ p * (d + 1) = (p * d) + p
    BY <1>1, LargerProduct, SMT
  <2>2. QED
    BY <1>1, <1>2, <2>1, SMT
<1>4. ~(q < d)
  <2> SUFFICES ASSUME q + 1 <= d PROVE FALSE
    BY <1>1
  <2>1. p * (q + 1) <= p * d /\ p * (q + 1) = (p * q) + p
    BY <1>1, LargerProduct, SMT
  <2>2. QED
    BY <1>1, <1>2, <2>1, SMT
<1>5. d = q
  BY <1>1, <1>3, <1>4
<1>6. QED
  BY <1>5 DEF d

\* The remainders of numbers that follow each other.
LEMMA NextRemainder ==
  ASSUME NEW p \in Nat \ {0}, NEW n \in Nat
  PROVE  (n + 1) % p = IF (n % p) + 1 < p THEN (n % p) + 1 ELSE 0
<1> DEFINE d == n \div p
           r == n % p
           e == (n + 1) \div p
           s == (n + 1) % p
<1>1. d \in Nat /\ r \in 0 .. p - 1 /\ n = (p * d) + r
  BY Division
<1>2. n + 1 \in Nat
  OBVIOUS
<1>3. e \in Nat /\ s \in 0 .. p - 1 /\ n + 1 = (p * e) + s
  BY <1>2, Division
<1>4. p * d \in Nat /\ p * (d + 1) = (p * d) + p
  BY <1>1, SMT
<1>5. ASSUME r + 1 < p PROVE e = d
  <2>1. p * d <= n + 1 /\ n + 1 < (p * d) + p
    <3> HIDE DEF d, r
    <3>1. QED
      BY <1>1, <1>4, <1>5
  <2>2. QED
    BY <1>1, <1>2, <2>1, QuotientIs
<1>6. ASSUME ~(r + 1 < p) PROVE e = d + 1
  <2>1. p * (d + 1) <= n + 1 /\ n + 1 < (p * (d + 1)) + p
    <3> HIDE DEF d, r
    <3>1. QED
      BY <1>1, <1>4, <1>6
  <2>2. d + 1 \in Nat
    BY <1>1
  <2>3. QED
    BY <1>2, <2>1, <2>2, QuotientIs
<1> HIDE DEF d, r, e, s
<1>7. s = IF r + 1 < p THEN r + 1 ELSE 0
  <2>1. CASE r + 1 < p
    BY <1>1, <1>3, <1>4, <1>5, <2>1
  <2>2. CASE ~(r + 1 < p)
    <3>1. r + 1 = p
      BY <1>1, <2>2
    <3>2. n + 1 = (p * (d + 1)) + 0
      BY <1>1, <1>4, <3>1
    <3>3. QED
      BY <1>1, <1>3, <1>4, <1>6, <2>2, <3>2
  <2>3. QED
    BY <2>1, <2>2
<1>8. QED
  BY <1>7 DEF r, s

-----------------------------------------------------------------------------
(* Recursion                                                                *)

LEMMA Values ==
  ASSUME NEW S, NEW f, Iterates(f, S)
  PROVE  \A k \in S : f[k] = IF k = 0 THEN Base ELSE Step(k, f[k - 1])
BY DEF Iterates

LEMMA Beginnings == \A n \in Nat : \E f : Iterates(f, 0 .. n)
<1> DEFINE T == {n \in Nat : ~\E f : Iterates(f, 0 .. n)}
<1> SUFFICES ASSUME T # {} PROVE FALSE
  OBVIOUS
<1>1. PICK n \in T : \A k \in T : n <= k
  BY Least
<1>2. n \in Nat /\ ~\E f : Iterates(f, 0 .. n)
  OBVIOUS
<1>3. CASE n = 0
  <2> DEFINE f == [k \in 0 .. 0 |-> Base]
  <2>1. Iterates(f, 0 .. 0)
    BY DEF Iterates
  <2>2. QED
    BY <1>2, <1>3, <2>1
<1>4. CASE n # 0
  <2>1. n - 1 \in Nat /\ n - 1 \notin T
    BY <1>1, <1>2, <1>4
  <2>2. PICK g : Iterates(g, 0 .. n - 1)
    BY <2>1
  <2> DEFINE f == [k \in 0 .. n |-> IF k = n THEN Step(n, g[n - 1]) ELSE g[k]]
  <2>3. \A k \in 0 .. n - 1 : g[k] = IF k = 0 THEN Base ELSE Step(k, g[k - 1])
    BY <2>2, Values
  <2>4. \A k \in 0 .. n : f[k] = IF k = 0 THEN Base ELSE Step(k, f[k - 1])
    <3> SUFFICES ASSUME NEW k \in 0 .. n
                 PROVE  f[k] = IF k = 0 THEN Base ELSE Step(k, f[k - 1])
      OBVIOUS
    <3>1. CASE k = n
      <4>1. n - 1 \in 0 .. n /\ n - 1 # n
        BY <1>2, <1>4
      <4>2. f[n - 1] = g[n - 1]
        BY <4>1
      <4>3. QED
        BY <1>4, <3>1, <4>2
    <3>2. CASE k # n
      <4>1. k \in 0 .. n - 1
        BY <1>2, <3>2
      <4>2. k # 0 => k - 1 \in 0 .. n /\ k - 1 # n
        BY <1>2, <4>1
      <4>3. f[k] = g[k] /\ (k # 0 => f[k - 1] = g[k - 1])
        BY <3>2, <4>2
      <4>4. QED
        BY <2>3, <4>1, <4>3
    <3>3. QED
      BY <3>1, <3>2
  <2>5. f = [k \in 0 .. n |-> f[k]]
    OBVIOUS
  <2> HIDE DEF f
  <2>6. Iterates(f, 0 .. n)
    BY <2>4, <2>5 DEF Iterates
  <2>7. QED
    BY <1>2, <2>6
<1>5. QED
  BY <1>3, <1>4

LEMMA Agree ==
  ASSUME NEW n \in Nat, NEW m \in Nat, NEW f, NEW g, Iterates(f, 0 .. n), Iterates(g, 0 .. m)
  PROVE  \A k \in Nat : k <= n /\ k <= m => f[k] = g[k]
<1> DEFINE T == {k \in Nat : k <= n /\ k <= m /\ f[k] # g[k]}
<1> SUFFICES ASSUME T # {} PROVE FALSE
  OBVIOUS
<1>1. PICK k \in T : \A j \in T : k <= j
  BY Least
<1>2. k \in Nat /\ k <= n /\ k <= m /\ f[k] # g[k]
  OBVIOUS
<1>3. /\ f[k] = IF k = 0 THEN Base ELSE Step(k, f[k - 1])
      /\ g[k] = IF k = 0 THEN Base ELSE Step(k, g[k - 1])
  <2>1. k \in 0 .. n /\ k \in 0 .. m
    BY <1>2
  <2>2. QED
    BY <2>1, Values
<1>4. k # 0
  <2>1. SUFFICES ASSUME k = 0 PROVE FALSE
    OBVIOUS
  <2>2. f[k] = Base /\ g[k] = Base
    BY <1>3, <2>1
  <2>3. QED
    BY <1>2, <2>2
<1>5. k - 1 \in Nat /\ k - 1 \notin T
  BY <1>1, <1>2, <1>4
<1>6. f[k - 1] = g[k - 1]
  BY <1>2, <1>5
<1>7. QED
  BY <1>2, <1>3, <1>4, <1>6

THEOREM IterationExists == \E f : Iterates(f, Nat)
<1> DEFINE Part(n) == CHOOSE f : Iterates(f, 0 .. n)
           f == [k \in Nat |-> Part(k)[k]]
<1>1. \A n \in Nat : Iterates(Part(n), 0 .. n)
  BY Beginnings
<1> HIDE DEF Part
<1>2. \A k \in Nat : f[k] = IF k = 0 THEN Base ELSE Step(k, f[k - 1])
  <2> SUFFICES ASSUME NEW k \in Nat PROVE f[k] = IF k = 0 THEN Base ELSE Step(k, f[k - 1])
    OBVIOUS
  <2>1. Part(k)[k] = IF k = 0 THEN Base ELSE Step(k, Part(k)[k - 1])
    <3>1. Iterates(Part(k), 0 .. k) /\ k \in 0 .. k
      BY <1>1
    <3>2. QED
      BY <3>1, Values
  <2>2. CASE k = 0
    BY <2>1, <2>2
  <2>3. CASE k # 0
    <3>1. k - 1 \in Nat /\ k - 1 <= k
      BY <2>3
    <3>2. Iterates(Part(k), 0 .. k) /\ Iterates(Part(k - 1), 0 .. k - 1)
      BY <1>1, <3>1
    <3>3. Part(k)[k - 1] = Part(k - 1)[k - 1]
      BY <3>1, <3>2, Agree
    <3>4. QED
      BY <2>1, <2>3, <3>1, <3>3
  <2>4. QED
    BY <2>2, <2>3
<1>3. f = [k \in Nat |-> f[k]]
  OBVIOUS
<1> HIDE DEF f
<1>4. Iterates(f, Nat)
  BY <1>2, <1>3 DEF Iterates
<1>5. QED
  BY <1>4
=============================================================================
