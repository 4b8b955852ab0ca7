--------------------------- MODULE TreeHashProofs ---------------------------
(***************************************************************************)
(* For every size of a leaf, every depth of the stack and every message    *)
(* that fits it, cut into chunks in any way: the tree hash is the root of  *)
(* the Merkle tree of the message.                                         *)
(***************************************************************************)
EXTENDS TreeHash, WellFoundedInduction, TLAPS

-----------------------------------------------------------------------------
(* Powers of two, and the bits of a number                                  *)

Twice(k, p) == 2 * p
Doubling == INSTANCE Iteration WITH Base <- 1, Step <- Twice

\* The powers satisfy their recursion.
LEMMA PowerSteps == \A k \in Nat : Pow2[k] = IF k = 0 THEN 1 ELSE 2 * Pow2[k - 1]
<1>1. \E f : f = [k \in Nat |-> IF k = 0 THEN 1 ELSE 2 * f[k - 1]]
  BY Doubling!IterationExists DEF Doubling!Iterates, Twice
<1>2. Pow2 = CHOOSE f : f = [k \in Nat |-> IF k = 0 THEN 1 ELSE 2 * f[k - 1]]
  BY DEF Pow2
<1>3. Pow2 = [k \in Nat |-> IF k = 0 THEN 1 ELSE 2 * Pow2[k - 1]]
  BY <1>1, <1>2
<1>4. QED
  BY <1>3

LEMMA Powers ==
  /\ Pow2[0] = 1
  /\ \A k \in Nat : Pow2[k] \in Nat \ {0}
  /\ \A k \in Nat : Pow2[k + 1] = 2 * Pow2[k]
<1>1. Pow2[0] = 1
  BY PowerSteps
<1>2. \A k \in Nat : Pow2[k + 1] = 2 * Pow2[k]
  <2> TAKE k \in Nat
  <2>1. k + 1 \in Nat /\ k + 1 # 0 /\ (k + 1) - 1 = k
    OBVIOUS
  <2>2. QED
    BY <2>1, PowerSteps
<1>3. \A k \in Nat : Pow2[k] \in Nat \ {0}
  <2> DEFINE T == {k \in Nat : Pow2[k] \notin Nat \ {0}}
  <2>1. 0 \notin T
    BY <1>1
  <2>2. \A k \in Nat : k \notin T => k + 1 \notin T
    BY <1>2
  <2>3. T = {}
    BY <2>1, <2>2, Doubling!NoLeastException
  <2>4. QED
    BY <2>3
<1>4. QED
  BY <1>1, <1>2, <1>3

\* The powers grow.
LEMMA PowersGrow ==
  ASSUME NEW k \in Nat
  PROVE  \A j \in Nat : k <= j => Pow2[k] <= Pow2[j]
<1> DEFINE T == {d \in Nat : ~(Pow2[k] <= Pow2[k + d])}
<1>1. 0 \notin T
  BY Powers
<1>2. \A d \in Nat : d \notin T => d + 1 \notin T
  <2> SUFFICES ASSUME NEW d \in Nat, Pow2[k] <= Pow2[k + d]
               PROVE  Pow2[k] <= Pow2[k + (d + 1)]
    OBVIOUS
  <2>1. k + d \in Nat /\ k + (d + 1) = (k + d) + 1
    OBVIOUS
  <2>2. Pow2[k + (d + 1)] = 2 * Pow2[k + d] /\ Pow2[k + d] \in Nat /\ Pow2[k] \in Nat
    BY <2>1, Powers
  <2>3. QED
    BY <2>2
<1>3. T = {}
  BY <1>1, <1>2, Doubling!NoLeastException
<1>4. ASSUME NEW j \in Nat, k <= j
      PROVE  Pow2[k] <= Pow2[j]
  <2>1. j - k \in Nat /\ k + (j - k) = j
    BY <1>4
  <2>2. QED
    BY <1>3, <2>1
<1>5. QED
  BY <1>4

\* A power that is smaller has a smaller exponent.
LEMMA SmallerPower ==
  ASSUME NEW k \in Nat, NEW j \in Nat, Pow2[k] < Pow2[j]
  PROVE  k < j
<1>1. Pow2[k] \in Nat /\ Pow2[j] \in Nat
  BY Powers
<1>2. j <= k => Pow2[j] <= Pow2[k]
  BY PowersGrow
<1>3. QED
  BY <1>1, <1>2

\* A number without its k lowest bits lies between two multiples of 2^k.
LEMMA ShiftedBounds ==
  ASSUME NEW n \in Nat, NEW k \in Nat
  PROVE  /\ Shifted(n, k) \in Nat
         /\ Pow2[k] * Shifted(n, k) <= n
         /\ n < (Pow2[k] * Shifted(n, k)) + Pow2[k]
<1> DEFINE p == Pow2[k]
           d == n \div p
<1>1. p \in Nat \ {0}
  BY Powers
<1>2. Shifted(n, k) = d
  BY DEF Shifted
<1> HIDE DEF p
<1>3. d \in Nat /\ n % p \in 0 .. p - 1 /\ n = (p * d) + (n % p)
  BY <1>1, Doubling!Division
<1> HIDE DEF d
<1>4. p * d \in Nat
  BY <1>1, <1>3, SMT
<1>5. p * d <= n /\ n < (p * d) + p
  BY <1>1, <1>3, <1>4, SMT
<1>6. QED
  BY <1>2, <1>3, <1>5 DEF p

LEMMA ShiftedIs ==
  ASSUME NEW n \in Nat, NEW k \in Nat, NEW q \in Nat,
         Pow2[k] * q <= n, n < (Pow2[k] * q) + Pow2[k]
  PROVE  Shifted(n, k) = q
BY Powers, Doubling!QuotientIs DEF Shifted

LEMMA ShiftedByNone ==
  ASSUME NEW n \in Nat PROVE Shifted(n, 0) = n
<1>1. Pow2[0] * n <= n /\ n < (Pow2[0] * n) + Pow2[0]
  BY Powers, SMT
<1>2. QED
  BY <1>1, ShiftedIs

\* What is left of an even or odd number, when it loses one more bit.
LEMMA ShiftedOnce ==
  ASSUME NEW n \in Nat, NEW k \in Nat, NEW i \in Nat,
         Shifted(n, k) = 2 * i \/ Shifted(n, k) = (2 * i) + 1
  PROVE  Shifted(n, k + 1) = i
<1> DEFINE p == Pow2[k]
<1>1. p \in Nat \ {0} /\ Pow2[k + 1] = 2 * p
  BY Powers
<1>2. p * Shifted(n, k) <= n /\ n < (p * Shifted(n, k)) + p
  BY ShiftedBounds
<1> HIDE DEF p
<1>3. /\ p * (2 * i) = (2 * p) * i
      /\ p * ((2 * i) + 1) = ((2 * p) * i) + p
      /\ (2 * p) * i \in Nat
  BY <1>1, SMT
<1>4. (2 * p) * i <= n /\ n < ((2 * p) * i) + (2 * p)
  <2>1. CASE Shifted(n, k) = 2 * i
    BY <1>1, <1>2, <1>3, <2>1, SMT
  <2>2. CASE Shifted(n, k) = (2 * i) + 1
    BY <1>1, <1>2, <1>3, <2>2, SMT
  <2>3. QED
    BY <2>1, <2>2
<1>5. k + 1 \in Nat
  OBVIOUS
<1>6. QED
  BY <1>1, <1>4, <1>5, ShiftedIs

\* A number is even or odd.
LEMMA EvenOrOdd ==
  ASSUME NEW x \in Nat
  PROVE  /\ x % 2 = 0 => \E i \in Nat : x = 2 * i
         /\ x % 2 # 0 => x % 2 = 1 /\ \E i \in Nat : x = (2 * i) + 1
         /\ \A i \in Nat : (2 * i) % 2 = 0 /\ ((2 * i) + 1) % 2 = 1
<1>1. x \div 2 \in Nat /\ x % 2 \in 0 .. 1 /\ x = (2 * (x \div 2)) + (x % 2)
  BY SMT
<1>2. \A i \in Nat : (2 * i) % 2 = 0 /\ ((2 * i) + 1) % 2 = 1
  BY SMT
<1>3. QED
  BY <1>1, <1>2

\* Numbers that agree without their k lowest bits agree without more of them.
LEMMA ShiftedAgree ==
  ASSUME NEW n \in Nat, NEW m \in Nat, NEW k \in Nat, Shifted(n, k) = Shifted(m, k)
  PROVE  \A j \in Nat : k <= j => Shifted(n, j) = Shifted(m, j)
<1> DEFINE T == {d \in Nat : Shifted(n, k + d) # Shifted(m, k + d)}
<1>1. 0 \notin T
  <2>1. k + 0 = k
    OBVIOUS
  <2>2. QED
    BY <2>1
<1>2. \A d \in Nat : d \notin T => d + 1 \notin T
  <2> SUFFICES ASSUME NEW d \in Nat, Shifted(n, k + d) = Shifted(m, k + d)
               PROVE  Shifted(n, k + (d + 1)) = Shifted(m, k + (d + 1))
    OBVIOUS
  <2>1. k + d \in Nat /\ k + (d + 1) = (k + d) + 1
    OBVIOUS
  <2>2. Shifted(n, k + d) \in Nat
    BY <2>1, ShiftedBounds
  <2>3. PICK i \in Nat : Shifted(n, k + d) = 2 * i \/ Shifted(n, k + d) = (2 * i) + 1
    BY <2>2, EvenOrOdd
  <2>4. Shifted(n, (k + d) + 1) = i /\ Shifted(m, (k + d) + 1) = i
    BY <2>1, <2>3, ShiftedOnce
  <2>5. QED
    BY <2>1, <2>4
<1>3. T = {}
  BY <1>1, <1>2, Doubling!NoLeastException
<1>4. ASSUME NEW j \in Nat, k <= j
      PROVE  Shifted(n, j) = Shifted(m, j)
  <2>1. j - k \in Nat /\ k + (j - k) = j
    BY <1>4
  <2>2. QED
    BY <1>3, <2>1
<1>5. QED
  BY <1>4

-----------------------------------------------------------------------------
(* The rows of the Merkle tree                                              *)

LeafRow == [m \in Nat |-> [i \in Nat |-> MessageLeaf(m, i)]]

NextRow(k, row) ==
  [m \in Nat |-> [i \in Nat |->
     IF (2 * i + 1) * Pow2[k - 1] < Leaves(m)
       THEN Node(row[m][2 * i], row[m][2 * i + 1])
       ELSE row[m][2 * i]]]

Rising == INSTANCE Iteration WITH Base <- LeafRow, Step <- NextRow

\* The rows satisfy their recursion.
LEMMA RowSteps ==
  \A k \in Nat : Row[k] = IF k = 0 THEN LeafRow ELSE NextRow(k, Row[k - 1])
<1> DEFINE Rows(f) == [k \in Nat |-> IF k = 0 THEN LeafRow ELSE NextRow(k, f[k - 1])]
<1>1. \E f : f = Rows(f)
  BY Rising!IterationExists DEF Rising!Iterates
<1>2. Row = CHOOSE f : f = Rows(f)
  BY DEF Row, LeafRow, NextRow
<1> HIDE DEF Rows
<1>3. Row = Rows(Row)
  BY <1>1, <1>2
<1>4. QED
  BY <1>3 DEF Rows

LEMMA Rows ==
  ASSUME NEW m \in Nat, NEW i \in Nat
  PROVE  /\ Row[0][m][i] = MessageLeaf(m, i)
         /\ \A k \in Nat :
              Row[k + 1][m][i] = IF ((2 * i) + 1) * Pow2[k] < Leaves(m)
                                   THEN Node(Row[k][m][2 * i], Row[k][m][(2 * i) + 1])
                                   ELSE Row[k][m][2 * i]
<1>1. Row[0] = LeafRow
  BY RowSteps
<1>2. \A k \in Nat : Row[k + 1] = NextRow(k + 1, Row[k])
  <2> TAKE k \in Nat
  <2>1. k + 1 \in Nat /\ k + 1 # 0 /\ (k + 1) - 1 = k
    OBVIOUS
  <2>2. QED
    BY <2>1, RowSteps
<1>3. \A k \in Nat : \A row :
         NextRow(k + 1, row)[m][i] = IF ((2 * i) + 1) * Pow2[k] < Leaves(m)
                                       THEN Node(row[m][2 * i], row[m][(2 * i) + 1])
                                       ELSE row[m][2 * i]
  <2> TAKE k \in Nat
  <2> TAKE row
  <2>1. (k + 1) - 1 = k
    OBVIOUS
  <2>2. QED
    BY <2>1 DEF NextRow
<1>4. Row[0][m][i] = MessageLeaf(m, i)
  BY <1>1 DEF LeafRow
<1>5. QED
  BY <1>2, <1>3, <1>4

\* The number of leaves, from the last one, which has at least one byte.
LEMMA LeavesCounted ==
  ASSUME NEW b \in Nat, NEW n \in 1 .. BlockSize, NEW m \in Nat, m = b * BlockSize + n
  PROVE  Leaves(m) = b + 1
<1>1. BlockSize \in Nat \ {0} /\ b * BlockSize \in Nat /\ n \in Nat /\ n # 0
  BY TreeHashAssumption, SMT
<1>2. BlockSize * (b + 1) = (b * BlockSize) + BlockSize /\ b + 1 \in Nat
  BY <1>1, SMT
<1>3. /\ m # 0 /\ m + BlockSize - 1 \in Nat
      /\ BlockSize * (b + 1) <= m + BlockSize - 1
      /\ m + BlockSize - 1 < (BlockSize * (b + 1)) + BlockSize
  BY <1>1, <1>2, SMT
<1>4. (m + BlockSize - 1) \div BlockSize = b + 1
  BY <1>1, <1>2, <1>3, Doubling!QuotientIs
<1>5. QED
  BY <1>3, <1>4 DEF Leaves

LEMMA NoBytes == Leaves(0) = 1
BY DEF Leaves

\* Every message but the empty one has such a last leaf.
LEMMA LastLeaf ==
  ASSUME NEW m \in Nat \ {0}
  PROVE  \E b \in Nat, n \in 1 .. BlockSize : m = b * BlockSize + n /\ Leaves(m) = b + 1
<1> DEFINE b == (m - 1) \div BlockSize
           r == (m - 1) % BlockSize
           n == r + 1
<1>1. BlockSize \in Nat \ {0} /\ m - 1 \in Nat
  BY TreeHashAssumption
<1>2. b \in Nat /\ r \in 0 .. BlockSize - 1 /\ m - 1 = (BlockSize * b) + r
  BY <1>1, Doubling!Division
<1> HIDE DEF b, r
<1>3. n \in 1 .. BlockSize
  BY <1>1, <1>2
<1>4. BlockSize * b = b * BlockSize /\ b * BlockSize \in Nat
  BY <1>1, <1>2, SMT
<1>5. m = b * BlockSize + n
  BY <1>1, <1>2, <1>4
<1> HIDE DEF n
<1>6. Leaves(m) = b + 1
  BY <1>2, <1>3, <1>5, LeavesCounted
<1>7. QED
  BY <1>2, <1>3, <1>5, <1>6

LEMMA LeavesType ==
  ASSUME NEW m \in Nat PROVE Leaves(m) \in Nat \ {0}
<1>1. CASE m = 0
  BY <1>1, NoBytes
<1>2. CASE m # 0
  BY <1>2, LastLeaf
<1>3. QED
  BY <1>1, <1>2

\* The full leaves are some of the leaves.
LEMMA LeavesAtLeast ==
  ASSUME NEW m \in Nat, NEW b \in Nat, b * BlockSize <= m
  PROVE  b <= Leaves(m)
<1>1. BlockSize \in Nat \ {0}
  BY TreeHashAssumption
<1>2. CASE m = 0
  <2> DEFINE x == b * BlockSize
  <2>1. x \in Nat /\ x <= 0 /\ (b # 0 => x # 0)
    BY <1>1, <1>2, SMT
  <2> HIDE DEF x
  <2>2. b = 0
    BY <2>1
  <2>3. QED
    BY <1>2, <2>2, NoBytes
<1>3. CASE m # 0
  <2>1. PICK c \in Nat, n \in 1 .. BlockSize : m = c * BlockSize + n /\ Leaves(m) = c + 1
    BY <1>3, LastLeaf
  <2>2. SUFFICES ASSUME c + 2 <= b PROVE FALSE
    BY <2>1
  <2>3. BlockSize * (c + 2) <= BlockSize * b
    BY <1>1, <2>1, <2>2, Doubling!LargerProduct
  <2>4. BlockSize * (c + 2) = (c * BlockSize) + BlockSize + BlockSize /\ BlockSize * b = b * BlockSize
    BY <1>1, <2>1, SMT
  <2>5. c * BlockSize \in Nat /\ b * BlockSize \in Nat /\ n \in Nat /\ n <= BlockSize
    BY <1>1, <2>1, SMT
  <2>6. QED
    BY <1>1, <2>1, <2>3, <2>4, <2>5, SMT
<1>4. QED
  BY <1>2, <1>3

\* The stack has a level for every leaf of a message.
LEMMA LeavesFit ==
  ASSUME NEW m \in Nat, m <= MaxBytes
  PROVE  Leaves(m) < Pow2[StackSize]
<1>1. BlockSize \in Nat \ {0} /\ StackSize \in Nat \ {0} /\ Pow2[StackSize] \in Nat
  BY TreeHashAssumption, Powers
<1>2. CASE m = 0
  <2>1. Pow2[1] <= Pow2[StackSize]
    BY <1>1, PowersGrow
  <2>2. 0 + 1 = 1
    OBVIOUS
  <2>3. Pow2[1] = 2
    BY <2>2, Powers
  <2>4. QED
    BY <1>1, <1>2, <2>1, <2>3, NoBytes
<1>3. CASE m # 0
  <2>1. PICK c \in Nat, n \in 1 .. BlockSize : m = c * BlockSize + n /\ Leaves(m) = c + 1
    BY <1>3, LastLeaf
  <2>2. SUFFICES ASSUME Pow2[StackSize] <= c + 1 PROVE FALSE
    BY <1>1, <2>1
  <2>3. BlockSize * Pow2[StackSize] <= BlockSize * (c + 1)
    BY <1>1, <2>1, <2>2, Doubling!LargerProduct
  <2>4. BlockSize * (c + 1) = (c * BlockSize) + BlockSize /\ c * BlockSize \in Nat
    BY <1>1, <2>1, SMT
  <2>5. MaxBytes \in Nat /\ MaxBytes + BlockSize <= BlockSize * Pow2[StackSize]
    BY TreeHashAssumption
  <2>6. n \in Nat /\ n # 0
    BY <1>1
  <2>7. BlockSize * Pow2[StackSize] \in Nat
    BY <1>1, SMT
  <2> DEFINE x == c * BlockSize
             y == BlockSize * Pow2[StackSize]
             z == BlockSize * (c + 1)
  <2>8. /\ x \in Nat /\ y \in Nat /\ z = x + BlockSize /\ m = x + n
        /\ MaxBytes + BlockSize <= y /\ y <= z
    BY <2>1, <2>3, <2>4, <2>5, <2>7
  <2> HIDE DEF x, y, z
  <2>9. QED
    BY <1>1, <2>5, <2>6, <2>8
<1>4. QED
  BY <1>2, <1>3

\* A node whose leaves are all full does not depend on what follows them.
LEMMA SameNode ==
  ASSUME NEW b \in Nat, NEW m \in Nat, NEW n \in Nat,
         b * BlockSize <= m, b * BlockSize <= n
  PROVE  \A k \in Nat : \A i \in Nat : Pow2[k] * (i + 1) <= b => Row[k][m][i] = Row[k][n][i]
<1> DEFINE T == {k \in Nat : ~\A i \in Nat : Pow2[k] * (i + 1) <= b => Row[k][m][i] = Row[k][n][i]}
<1>1. BlockSize \in Nat \ {0}
  BY TreeHashAssumption
<1>2. 0 \notin T
  <2> SUFFICES ASSUME NEW i \in Nat, Pow2[0] * (i + 1) <= b
               PROVE  Row[0][m][i] = Row[0][n][i]
    OBVIOUS
  <2>1. i + 1 <= b /\ i + 1 \in Nat
    BY Powers
  <2>2. BlockSize * (i + 1) <= BlockSize * b
    BY <1>1, <2>1, Doubling!LargerProduct
  <2>3. BlockSize * b = b * BlockSize /\ (i + 1) * BlockSize = BlockSize * (i + 1)
    BY <1>1, SMT
  <2>4. b * BlockSize \in Nat /\ (i + 1) * BlockSize \in Nat
    BY <1>1, SMT
  <2>5. ~(m < (i + 1) * BlockSize) /\ ~(n < (i + 1) * BlockSize)
    BY <2>2, <2>3, <2>4
  <2>6. MessageLeaf(m, i) = MessageLeaf(n, i)
    BY <2>5 DEF MessageLeaf
  <2>7. Row[0][m][i] = MessageLeaf(m, i) /\ Row[0][n][i] = MessageLeaf(n, i)
    BY Rows
  <2>8. QED
    BY <2>6, <2>7
<1>3. \A k \in Nat : k \notin T => k + 1 \notin T
  <2> SUFFICES ASSUME NEW k \in Nat, k \notin T,
                      NEW i \in Nat, Pow2[k + 1] * (i + 1) <= b
               PROVE  Row[k + 1][m][i] = Row[k + 1][n][i]
    OBVIOUS
  <2> DEFINE p == Pow2[k]
  <2>1. p \in Nat \ {0} /\ Pow2[k + 1] = 2 * p
    BY Powers
  <2>2. \A j \in Nat : p * (j + 1) <= b => Row[k][m][j] = Row[k][n][j]
    OBVIOUS
  <2>3. (2 * p) * (i + 1) <= b
    BY <2>1
  <2>4. b <= Leaves(m) /\ b <= Leaves(n) /\ Leaves(m) \in Nat /\ Leaves(n) \in Nat
    BY LeavesAtLeast, LeavesType
  <2> HIDE DEF p
  <2>5. /\ p * ((2 * i) + 1) < (2 * p) * (i + 1)
        /\ p * (((2 * i) + 1) + 1) = (2 * p) * (i + 1)
        /\ ((2 * i) + 1) * p = p * ((2 * i) + 1)
        /\ p * ((2 * i) + 1) \in Nat
    BY <2>1, SMT
  <2>6. (2 * i) \in Nat /\ (2 * i) + 1 \in Nat
    OBVIOUS
  <2>7. Row[k][m][2 * i] = Row[k][n][2 * i]
    <3>1. p * ((2 * i) + 1) <= b
      <4> DEFINE x == p * ((2 * i) + 1)
                 y == (2 * p) * (i + 1)
      <4>1. x \in Nat /\ x < y /\ y <= b
        BY <2>3, <2>5
      <4>2. y \in Nat
        BY <2>1, SMT
      <4> HIDE DEF x, y
      <4>3. x <= b
        BY <4>1, <4>2
      <4>4. QED
        BY <4>3 DEF x
    <3>2. QED
      BY <2>2, <2>6, <3>1
  <2>8. Row[k][m][(2 * i) + 1] = Row[k][n][(2 * i) + 1]
    <3>1. p * (((2 * i) + 1) + 1) <= b
      BY <2>3, <2>5
    <3>2. QED
      BY <2>2, <2>6, <3>1
  <2>9. ((2 * i) + 1) * Pow2[k] < Leaves(m) /\ ((2 * i) + 1) * Pow2[k] < Leaves(n)
    <3> DEFINE x == ((2 * i) + 1) * p
               y == (2 * p) * (i + 1)
    <3>1. x \in Nat /\ x < y /\ y <= b
      BY <2>3, <2>5
    <3>2. y \in Nat
      BY <2>1, SMT
    <3> HIDE DEF x, y
    <3>3. x < Leaves(m) /\ x < Leaves(n)
      BY <2>4, <3>1, <3>2
    <3>4. QED
      BY <3>3 DEF x, p
  <2>10. \A l \in {m, n} :
           Row[k + 1][l][i] = IF ((2 * i) + 1) * Pow2[k] < Leaves(l)
                                THEN Node(Row[k][l][2 * i], Row[k][l][(2 * i) + 1])
                                ELSE Row[k][l][2 * i]
    BY Rows
  <2>11. QED
    BY <2>7, <2>8, <2>9, <2>10
<1>4. T = {}
  BY <1>2, <1>3, Doubling!NoLeastException
<1>5. QED
  BY <1>4

\* Above a row with one node there is nothing but this node.
LEMMA TopNode ==
  ASSUME NEW m \in Nat, NEW k \in Nat, Leaves(m) <= Pow2[k]
  PROVE  \A j \in Nat : k <= j => Row[j][m][0] = Row[k][m][0]
<1> DEFINE T == {d \in Nat : Row[k + d][m][0] # Row[k][m][0]}
<1>1. 0 \notin T
  <2>1. k + 0 = k
    OBVIOUS
  <2>2. QED
    BY <2>1
<1>2. \A d \in Nat : d \notin T => d + 1 \notin T
  <2> SUFFICES ASSUME NEW d \in Nat, Row[k + d][m][0] = Row[k][m][0]
               PROVE  Row[k + (d + 1)][m][0] = Row[k][m][0]
    OBVIOUS
  <2>1. k + d \in Nat /\ k <= k + d /\ k + (d + 1) = (k + d) + 1
    OBVIOUS
  <2>2. Pow2[k] <= Pow2[k + d] /\ Pow2[k] \in Nat /\ Pow2[k + d] \in Nat /\ Leaves(m) \in Nat
    BY <2>1, PowersGrow, Powers, LeavesType
  <2>3. 2 * 0 = 0 /\ ~(((2 * 0) + 1) * Pow2[k + d] < Leaves(m))
    BY <2>2
  <2>4. Row[(k + d) + 1][m][0] = Row[k + d][m][0]
    <3>1. 0 \in Nat
      OBVIOUS
    <3>2. Row[(k + d) + 1][m][0] = IF ((2 * 0) + 1) * Pow2[k + d] < Leaves(m)
                                     THEN Node(Row[k + d][m][2 * 0], Row[k + d][m][(2 * 0) + 1])
                                     ELSE Row[k + d][m][2 * 0]
      BY <2>1, <3>1, Rows, Zenon
    <3>3. QED
      BY <2>3, <3>2
  <2>5. QED
    BY <2>1, <2>4
<1>3. T = {}
  BY <1>1, <1>2, Doubling!NoLeastException
<1>4. ASSUME NEW j \in Nat, k <= j
      PROVE  Row[j][m][0] = Row[k][m][0]
  <2>1. j - k \in Nat /\ k + (j - k) = j
    BY <1>4
  <2>2. QED
    BY <1>3, <2>1
<1>5. QED
  BY <1>4

-----------------------------------------------------------------------------
(* The invariant                                                            *)

\* What was fed is in the leaves and in the one that is being filled.
FedOK ==
  /\ pc \in {"idle", "feed", "merge"} => fed = blocks * BlockSize + length
  /\ pc \in {"idle", "feed"} => length < BlockSize
  /\ pc = "feed" => rest = BlockSize - length /\ fed + size <= MaxBytes
  /\ pc = "merge" /\ back = "feed" => length = BlockSize /\ fed + size <= MaxBytes

\* In the end every leaf of the message was counted.
CountOK ==
  /\ pc = "merge" => Leaves(fed) = blocks + 1
  /\ pc \in {"scan", "climb", "done"} => Leaves(fed) = blocks

\* The levels in use hold the nodes to the left of what is still missing.
StackOK == \A k \in Levels : Bit(k) => stack[k] = Row[k][fed][Shifted(blocks, k) - 1]

\* A leaf that is merged has passed the levels whose bits become zero by the
\* increment.
MergeOK ==
  pc = "merge" =>
    /\ Shifted(blocks + 1, level) = Shifted(blocks, level) + 1
    /\ \A j \in 0 .. level - 1 : Shifted(blocks + 1, j) % 2 = 0
    /\ carry = Row[level][fed][Shifted(blocks, level)]

\* The levels that were scanned are not in use: the last leaf is below the
\* rightmost node of each.  The climb has this node in hand.
FinalOK ==
  /\ pc = "scan" => Shifted(blocks - 1, level) = Shifted(blocks, level) - 1
  /\ pc \in {"climb", "done"} =>
       /\ Shifted(blocks - 1, level) = Shifted(blocks, level)
       /\ carry = Row[level][fed][Shifted(blocks - 1, level)]
  /\ pc = "done" => blocks < Pow2[level]

TreeInv == TypeOK /\ FedOK /\ CountOK /\ StackOK /\ MergeOK /\ FinalOK

LEMMA TreeInit == Init => TreeInv
<1> SUFFICES ASSUME Init PROVE TreeInv
  OBVIOUS
<1>1. /\ BlockSize \in Nat \ {0} /\ StackSize \in Nat \ {0}
      /\ MaxBytes \in Nat /\ MaxChunk \in Nat
  BY TreeHashAssumption
<1>2. TypeOK
  BY <1>1 DEF Init, TypeOK
<1>3. FedOK /\ CountOK /\ MergeOK /\ FinalOK
  BY <1>1 DEF Init, FedOK, CountOK, MergeOK, FinalOK
<1>4. \A k \in Levels : ~Bit(k)
  <2> SUFFICES ASSUME NEW k \in Levels PROVE Shifted(0, k) = 0
    BY DEF Init, Bit
  <2>1. k \in Nat /\ Pow2[k] \in Nat \ {0}
    BY <1>1, Powers DEF Levels
  <2>2. Pow2[k] * 0 <= 0 /\ 0 < (Pow2[k] * 0) + Pow2[k]
    BY <2>1
  <2>3. QED
    BY <2>1, <2>2, ShiftedIs
<1>5. StackOK
  BY <1>4 DEF StackOK
<1>6. QED
  BY <1>2, <1>3, <1>5 DEF TreeInv

\* The level of a number that has not lost its last bit is one of the stack.
LEMMA LevelInStack ==
  ASSUME NEW n \in Nat, NEW k \in Nat, n < Pow2[StackSize], Pow2[k] <= n
  PROVE  k \in Levels /\ k + 1 \in 0 .. StackSize
<1>1. StackSize \in Nat \ {0} /\ Pow2[StackSize] \in Nat /\ Pow2[k] \in Nat
  BY TreeHashAssumption, Powers
<1>2. Pow2[k] < Pow2[StackSize]
  BY <1>1
<1>3. k < StackSize
  BY <1>1, <1>2, SmallerPower
<1>4. QED
  BY <1>1, <1>3 DEF Levels

LEMMA ShiftedPositive ==
  ASSUME NEW n \in Nat, NEW k \in Nat, Shifted(n, k) # 0
  PROVE  Pow2[k] <= n
<1> DEFINE p == Pow2[k]
           x == Shifted(n, k)
<1>1. p \in Nat \ {0} /\ x \in Nat /\ p * x <= n /\ x # 0
  BY Powers, ShiftedBounds
<1> HIDE DEF p, x
<1>2. p * 1 <= p * x /\ p * x \in Nat
  BY <1>1, Doubling!LargerProduct, SMT
<1>3. QED
  BY <1>1, <1>2 DEF p

\* A chunk begins or ends, bytes are added: the count and the stack stay.
LEMMA UpdateStep ==
  ASSUME TreeInv, NEW n \in 0 .. MaxChunk, Update(n)
  PROVE  TreeInv'
<1>1. /\ BlockSize \in Nat \ {0} /\ StackSize \in Nat \ {0}
      /\ MaxBytes \in Nat /\ MaxChunk \in Nat
  BY TreeHashAssumption
<1>2. TypeOK /\ FedOK /\ StackOK
  BY DEF TreeInv
<1>3. TypeOK'
  BY <1>1, <1>2 DEF TypeOK, Update
<1>4. FedOK'
  BY <1>1, <1>2 DEF FedOK, Update
<1>5. CountOK' /\ MergeOK' /\ FinalOK'
  BY DEF CountOK, MergeOK, FinalOK, Update
<1>6. StackOK'
  BY <1>2 DEF StackOK, Update, Bit
<1>7. QED
  BY <1>3, <1>4, <1>5, <1>6 DEF TreeInv

\* The bits in use stand for full leaves.
LEMMA StackStays ==
  ASSUME TypeOK, StackOK, UNCHANGED <<blocks, stack>>, fed' \in Nat,
         blocks * BlockSize <= fed, blocks * BlockSize <= fed'
  PROVE  StackOK'
<1> SUFFICES ASSUME NEW k \in Levels, Bit(k)
             PROVE  stack[k] = Row[k][fed'][Shifted(blocks, k) - 1]
  BY DEF StackOK, Bit
<1>1. k \in Nat /\ blocks \in Nat /\ fed \in Nat
  BY TreeHashAssumption DEF Levels, TypeOK
<1>2. Shifted(blocks, k) \in Nat \ {0}
  BY <1>1, ShiftedBounds DEF Bit
<1>3. Pow2[k] * Shifted(blocks, k) <= blocks
  BY <1>1, ShiftedBounds
<1> DEFINE i == Shifted(blocks, k) - 1
<1>4. i \in Nat /\ i + 1 = Shifted(blocks, k)
  BY <1>2
<1>5. Row[k][fed][i] = Row[k][fed'][i]
  BY <1>1, <1>3, <1>4, SameNode
<1>6. QED
  BY <1>5 DEF StackOK

\* The leaf that is processed is the next one of the message.
LEMMA LeafProcessed ==
  ASSUME NEW m \in Nat, NEW b \in Nat, NEW n \in 0 .. BlockSize,
         m = b * BlockSize + n, n = 0 => b = 0
  PROVE  /\ Leaves(m) = b + 1
         /\ Leaf(m - n, m) = Row[0][m][Shifted(b, 0)]
         /\ Shifted(b + 1, 0) = Shifted(b, 0) + 1
<1>1. BlockSize \in Nat \ {0} /\ b * BlockSize \in Nat /\ (b + 1) * BlockSize \in Nat
  BY TreeHashAssumption, SMT
<1>2. (b + 1) * BlockSize = (b * BlockSize) + BlockSize
  BY <1>1, SMT
<1>3. Leaves(m) = b + 1
  <2>1. CASE n = 0
    <3>1. b = 0 /\ m = 0
      BY <1>1, <2>1, SMT
    <3>2. QED
      BY <3>1, NoBytes
  <2>2. CASE n # 0
    <3>1. n \in 1 .. BlockSize
      BY <2>2
    <3>2. QED
      BY <3>1, LeavesCounted
  <2>3. QED
    BY <2>1, <2>2
<1>4. Leaf(m - n, m) = MessageLeaf(m, b)
  <2> DEFINE x == b * BlockSize
             y == (b + 1) * BlockSize
  <2>1. x \in Nat /\ y = x + BlockSize /\ m = x + n
    BY <1>1, <1>2
  <2>2. MessageLeaf(m, b) = Leaf(x, IF m < y THEN m ELSE y)
    BY DEF MessageLeaf
  <2> HIDE DEF x, y
  <2>3. m - n = x /\ (IF m < y THEN m ELSE y) = m
    BY <1>1, <2>1
  <2>4. QED
    BY <2>2, <2>3
<1>5. Row[0][m][b] = MessageLeaf(m, b)
  BY Rows
<1>6. Shifted(b, 0) = b /\ Shifted(b + 1, 0) = b + 1
  BY ShiftedByNone
<1>7. QED
  BY <1>3, <1>4, <1>5, <1>6

LEMMA FeedStep ==
  ASSUME TreeInv, Feed
  PROVE  TreeInv'
<1>1. /\ BlockSize \in Nat \ {0} /\ StackSize \in Nat \ {0}
      /\ MaxBytes \in Nat /\ MaxChunk \in Nat
  BY TreeHashAssumption
<1>2. TypeOK /\ FedOK /\ StackOK /\ pc = "feed"
  BY DEF TreeInv, Feed
<1> DEFINE n == IF size < rest THEN size ELSE rest
<1>3. /\ length' = length + n /\ fed' = fed + n /\ size' = size - n /\ rest' = n
      /\ UNCHANGED <<blocks, stack>>
  BY DEF Feed
<1>4. /\ rest = BlockSize - length /\ fed + size <= MaxBytes /\ length < BlockSize
      /\ fed = blocks * BlockSize + length
  BY <1>2 DEF FedOK
<1>5. /\ fed \in Nat /\ length \in Nat /\ size \in 0 .. MaxChunk /\ rest \in 0 .. BlockSize
      /\ blocks \in Nat /\ blocks * BlockSize \in Nat /\ level \in 0 .. StackSize
      /\ DOMAIN stack = Levels
  BY <1>1, <1>2, SMT DEF TypeOK
<1>6. n \in Nat /\ n <= rest /\ n <= size
  BY <1>5
<1> HIDE DEF n
<1>7. /\ length' \in 0 .. BlockSize /\ rest' \in 0 .. BlockSize /\ size' \in 0 .. MaxChunk
      /\ fed' + size' = fed + size /\ fed' \in 0 .. MaxBytes
  BY <1>1, <1>3, <1>4, <1>5, <1>6
<1>8. fed' = blocks * BlockSize + length'
  BY <1>1, <1>3, <1>4, <1>5, <1>6
<1>9. StackOK'
  <2>1. blocks * BlockSize <= fed /\ blocks * BlockSize <= fed' /\ fed' \in Nat
    <3>1. PICK x \in Nat : x = blocks * BlockSize /\ fed = x + length /\ fed' = x + length'
      BY <1>4, <1>5, <1>8
    <3>2. length \in Nat /\ length' \in Nat /\ fed' \in Nat
      BY <1>1, <1>5, <1>7
    <3>3. x <= fed /\ x <= fed'
      BY <3>1, <3>2
    <3>4. QED
      BY <3>1, <3>2, <3>3
  <2>2. QED
    BY <1>2, <1>3, <2>1, StackStays
<1>10. CASE length' < BlockSize
  <2>1. pc' = "idle" /\ UNCHANGED <<level, carry, back>>
    BY <1>10 DEF Feed
  <2>2. TypeOK'
    BY <1>2, <1>3, <1>5, <1>7, <2>1 DEF TypeOK
  <2>3. FedOK' /\ CountOK' /\ MergeOK' /\ FinalOK'
    BY <1>3, <1>7, <1>8, <1>10, <2>1 DEF FedOK, CountOK, MergeOK, FinalOK
  <2>4. QED
    BY <1>9, <2>2, <2>3 DEF TreeInv
<1>11. CASE ~(length' < BlockSize)
  <2>1. /\ pc' = "merge" /\ back' = "feed" /\ level' = 0
        /\ carry' = Leaf(fed' - length', fed')
    BY <1>11 DEF Feed, ProcessBlock
  <2>2. length' = BlockSize /\ length' \in 0 .. BlockSize /\ length' # 0
    BY <1>1, <1>7, <1>11
  <2>3. /\ Leaves(fed') = blocks + 1
        /\ carry' = Row[0][fed'][Shifted(blocks, 0)]
        /\ Shifted(blocks + 1, 0) = Shifted(blocks, 0) + 1
    <3>1. fed' \in Nat /\ (length' = 0 => blocks = 0)
      BY <1>1, <1>7, <2>2
    <3>2. QED
      BY <1>5, <1>8, <2>1, <2>2, <3>1, LeafProcessed
  <2>4. TypeOK'
    BY <1>1, <1>3, <1>5, <1>7, <2>1 DEF TypeOK
  <2>5. FedOK'
    BY <1>3, <1>4, <1>7, <1>8, <2>1, <2>2 DEF FedOK
  <2>6. CountOK' /\ FinalOK'
    BY <1>3, <2>1, <2>3 DEF CountOK, FinalOK
  <2>7. MergeOK'
    BY <1>3, <2>1, <2>3 DEF MergeOK
  <2>8. QED
    BY <1>9, <2>4, <2>5, <2>6, <2>7 DEF TreeInv
<1>12. QED
  BY <1>10, <1>11

\* A bit is set when what is left of the number is odd.
LEMMA BitIs ==
  ASSUME NEW k \in Nat, blocks \in Nat
  PROVE  /\ Bit(k) => \E i \in Nat : Shifted(blocks, k) = (2 * i) + 1
         /\ ~Bit(k) => \E i \in Nat : Shifted(blocks, k) = 2 * i
<1>1. Shifted(blocks, k) \in Nat
  BY ShiftedBounds
<1>2. QED
  BY <1>1, EvenOrOdd DEF Bit

\* The subtree of the level is the left sibling.
LEMMA MergeStep ==
  ASSUME TreeInv, Merge
  PROVE  TreeInv'
<1>1. /\ TypeOK /\ FedOK /\ StackOK /\ CountOK /\ MergeOK /\ pc = "merge" /\ Bit(level)
      /\ UNCHANGED <<pc, fed, length, size, rest, blocks, stack, back>>
      /\ level' = level + 1 /\ carry' = Node(stack[level], carry)
  BY DEF TreeInv, Merge
<1>2. level \in Nat /\ blocks \in Nat /\ fed \in Nat /\ fed <= MaxBytes
  BY <1>1, TreeHashAssumption DEF TypeOK
<1>3. Leaves(fed) = blocks + 1 /\ Leaves(fed) < Pow2[StackSize]
  BY <1>1, <1>2, LeavesFit DEF CountOK
<1>4. PICK i \in Nat : Shifted(blocks, level) = (2 * i) + 1
  BY <1>1, <1>2, BitIs
<1>5. Pow2[level] <= blocks /\ blocks < Pow2[StackSize]
  <2>1. Pow2[level] <= blocks
    BY <1>2, <1>4, ShiftedPositive
  <2>2. Pow2[StackSize] \in Nat
    BY TreeHashAssumption, Powers
  <2>3. QED
    BY <1>2, <1>3, <2>1, <2>2
<1>6. level \in Levels /\ level + 1 \in 0 .. StackSize
  BY <1>2, <1>5, LevelInStack
<1>7. TypeOK'
  BY <1>1, <1>6 DEF TypeOK
<1>8. FedOK' /\ CountOK' /\ FinalOK' /\ StackOK'
  BY <1>1 DEF FedOK, CountOK, FinalOK, StackOK, Bit
<1>9. /\ Shifted(blocks + 1, level) = 2 * (i + 1)
      /\ \A j \in 0 .. level - 1 : Shifted(blocks + 1, j) % 2 = 0
      /\ carry = Row[level][fed][(2 * i) + 1]
  BY <1>1, <1>4 DEF MergeOK
<1>10. Shifted(blocks, level + 1) = i /\ Shifted(blocks + 1, level + 1) = i + 1
  BY <1>2, <1>4, <1>9, ShiftedOnce
<1>11. stack[level] = Row[level][fed][2 * i]
  <2>1. stack[level] = Row[level][fed][Shifted(blocks, level) - 1]
    BY <1>1, <1>6 DEF StackOK
  <2>2. Shifted(blocks, level) - 1 = 2 * i
    BY <1>4
  <2>3. QED
    BY <2>1, <2>2
<1>12. carry' = Row[level + 1][fed][i]
  <2>1. ((2 * i) + 1) * Pow2[level] < Leaves(fed)
    <3> DEFINE x == Pow2[level] * ((2 * i) + 1)
    <3>1. x <= blocks
      BY <1>2, <1>4, ShiftedBounds
    <3>2. Pow2[level] \in Nat
      BY <1>2, Powers
    <3>3. x \in Nat /\ ((2 * i) + 1) * Pow2[level] = x
      BY <3>2, SMT
    <3> HIDE DEF x
    <3>4. x < blocks + 1
      BY <1>2, <3>1, <3>3
    <3>5. QED
      BY <1>3, <3>3, <3>4
  <2>2. Row[level + 1][fed][i] = IF ((2 * i) + 1) * Pow2[level] < Leaves(fed)
                                   THEN Node(Row[level][fed][2 * i], Row[level][fed][(2 * i) + 1])
                                   ELSE Row[level][fed][2 * i]
    BY <1>2, Rows
  <2>3. QED
    BY <1>1, <1>9, <1>11, <2>1, <2>2
<1>13. \A j \in 0 .. (level + 1) - 1 : Shifted(blocks + 1, j) % 2 = 0
  <2> TAKE j \in 0 .. (level + 1) - 1
  <2>1. CASE j = level
    <3>1. (2 * (i + 1)) % 2 = 0 /\ i + 1 \in Nat
      BY EvenOrOdd
    <3>2. QED
      BY <1>9, <2>1, <3>1
  <2>2. CASE j # level
    BY <1>2, <1>9, <2>2
  <2>3. QED
    BY <2>1, <2>2
<1>14. MergeOK'
  BY <1>1, <1>10, <1>12, <1>13 DEF MergeOK
<1>15. QED
  BY <1>7, <1>8, <1>14 DEF TreeInv

\* The leaf is counted: the bits below the level become zero, the bit of the
\* level is set, and those above it stay.
LEMMA StoreStep ==
  ASSUME TreeInv, Store
  PROVE  TreeInv'
<1>1. /\ TypeOK /\ FedOK /\ StackOK /\ CountOK /\ MergeOK /\ pc = "merge" /\ ~Bit(level)
      /\ stack' = [stack EXCEPT ![level] = carry] /\ blocks' = blocks + 1
      /\ pc' = back /\ level' = 0 /\ UNCHANGED <<fed, size, carry, back>>
      /\ back = "feed" => length' = 0 /\ rest' = BlockSize
      /\ back # "feed" => UNCHANGED <<length, rest>>
  BY DEF TreeInv, Store
<1>2. /\ BlockSize \in Nat \ {0} /\ StackSize \in Nat \ {0}
      /\ level \in Nat /\ blocks \in Nat /\ fed \in Nat /\ fed <= MaxBytes
      /\ back \in {"feed", "scan"} /\ DOMAIN stack = Levels
  BY <1>1, TreeHashAssumption DEF TypeOK
<1>3. Leaves(fed) = blocks + 1 /\ Leaves(fed) < Pow2[StackSize]
  BY <1>1, <1>2, LeavesFit DEF CountOK
<1>4. PICK i \in Nat : Shifted(blocks, level) = 2 * i
  BY <1>1, <1>2, BitIs
<1>5. /\ Shifted(blocks + 1, level) = (2 * i) + 1
      /\ \A j \in 0 .. level - 1 : Shifted(blocks + 1, j) % 2 = 0
      /\ carry = Row[level][fed][2 * i]
  BY <1>1, <1>4 DEF MergeOK
<1>6. level \in Levels
  <2>1. blocks + 1 \in Nat /\ Shifted(blocks + 1, level) # 0
    BY <1>2, <1>5
  <2>2. Pow2[level] <= blocks + 1
    BY <1>2, <2>1, ShiftedPositive
  <2>3. QED
    BY <1>2, <1>3, <2>1, <2>2, LevelInStack
<1>7. TypeOK'
  BY <1>1, <1>2 DEF TypeOK
<1>8. FedOK'
  <2>1. CASE back = "feed"
    <3>1. length = BlockSize /\ fed + size <= MaxBytes /\ fed = blocks * BlockSize + length
      BY <1>1, <2>1 DEF FedOK
    <3>2. (blocks + 1) * BlockSize + 0 = blocks * BlockSize + BlockSize
      BY <1>2, SMT
    <3>3. pc' = "feed" /\ length' = 0 /\ rest' = BlockSize - length'
      BY <1>1, <1>2, <2>1
    <3>4. fed' = blocks' * BlockSize + length' /\ length' < BlockSize /\ fed' + size' <= MaxBytes
      BY <1>1, <1>2, <3>1, <3>2, <3>3
    <3>5. QED
      BY <3>3, <3>4 DEF FedOK
  <2>2. CASE back = "scan"
    BY <1>1, <2>2 DEF FedOK
  <2>3. QED
    BY <1>2, <2>1, <2>2
<1>9. CountOK' /\ MergeOK'
  BY <1>1, <1>2, <1>3 DEF CountOK, MergeOK
<1>10. FinalOK'
  <2>1. (blocks + 1) - 1 = blocks /\ blocks + 1 \in Nat
    BY <1>2
  <2>2. Shifted((blocks + 1) - 1, 0) = Shifted(blocks + 1, 0) - 1
    BY <1>2, <2>1, ShiftedByNone
  <2>3. QED
    BY <1>1, <1>2, <2>2 DEF FinalOK
<1>11. ASSUME NEW k \in Levels, Bit(k)'
       PROVE  stack'[k] = Row[k][fed][Shifted(blocks + 1, k) - 1]
  <2>1. k \in Nat /\ Shifted(blocks + 1, k) % 2 = 1
    BY <1>1, <1>2, <1>11 DEF Levels, Bit
  <2>2. CASE k < level
    BY <1>2, <1>5, <2>1, <2>2
  <2>3. CASE k = level
    <3>1. stack'[k] = carry
      BY <1>1, <1>2, <1>6, <2>3
    <3>2. Shifted(blocks + 1, level) - 1 = 2 * i
      BY <1>5
    <3>3. QED
      BY <1>5, <2>3, <3>1, <3>2
  <2>4. CASE level < k
    <3>1. Shifted(blocks, level + 1) = i /\ Shifted(blocks + 1, level + 1) = i
      BY <1>2, <1>4, <1>5, ShiftedOnce
    <3>2. level + 1 \in Nat /\ level + 1 <= k /\ blocks + 1 \in Nat
      BY <1>2, <2>1, <2>4
    <3>3. Shifted(blocks + 1, k) = Shifted(blocks, k)
      BY <1>2, <2>1, <3>1, <3>2, ShiftedAgree
    <3>4. Bit(k) /\ stack'[k] = stack[k]
      BY <1>1, <1>2, <2>1, <2>4, <3>3 DEF Bit
    <3>5. QED
      BY <1>1, <3>3, <3>4 DEF StackOK
  <2>5. QED
    BY <1>2, <2>1, <2>2, <2>3, <2>4
<1>12. StackOK'
  BY <1>1, <1>11 DEF StackOK
<1>13. QED
  BY <1>7, <1>8, <1>9, <1>10, <1>12 DEF TreeInv

\* The last leaf is what is left, and is not added when nothing is.
LEMMA FinalStep ==
  ASSUME TreeInv, Final
  PROVE  TreeInv'
<1>1. /\ TypeOK /\ FedOK /\ StackOK /\ pc = "idle"
      /\ UNCHANGED <<fed, length, size, rest, blocks, stack>>
  BY DEF TreeInv, Final
<1>2. /\ BlockSize \in Nat \ {0} /\ StackSize \in Nat \ {0}
      /\ blocks \in Nat /\ fed \in Nat /\ length \in 0 .. BlockSize
      /\ fed = blocks * BlockSize + length
  BY <1>1, TreeHashAssumption DEF TypeOK, FedOK
<1>3. StackOK'
  BY <1>1 DEF StackOK, Bit
<1>4. CASE length > 0 \/ blocks = 0
  <2>1. /\ pc' = "merge" /\ back' = "scan" /\ level' = 0
        /\ carry' = Leaf(fed - length, fed)
    BY <1>4 DEF Final, ProcessBlock
  <2>2. length = 0 => blocks = 0
    BY <1>2, <1>4
  <2>3. /\ Leaves(fed) = blocks + 1
        /\ carry' = Row[0][fed][Shifted(blocks, 0)]
        /\ Shifted(blocks + 1, 0) = Shifted(blocks, 0) + 1
    BY <1>2, <2>1, <2>2, LeafProcessed
  <2>4. TypeOK'
    BY <1>1, <1>2, <2>1 DEF TypeOK
  <2>5. FedOK' /\ CountOK' /\ FinalOK'
    BY <1>1, <1>2, <2>1, <2>3 DEF FedOK, CountOK, FinalOK
  <2>6. MergeOK'
    BY <1>1, <2>1, <2>3 DEF MergeOK
  <2>7. QED
    BY <1>3, <2>4, <2>5, <2>6 DEF TreeInv
<1>5. CASE ~(length > 0 \/ blocks = 0)
  <2>1. pc' = "scan" /\ level' = 0 /\ UNCHANGED <<carry, back>>
    BY <1>5 DEF Final
  <2>2. length = 0 /\ blocks \in Nat \ {0} /\ blocks - 1 \in Nat
    BY <1>2, <1>5
  <2>3. Leaves(fed) = blocks
    <3>1. fed = (blocks - 1) * BlockSize + BlockSize
      BY <1>2, <2>2, SMT
    <3>2. BlockSize \in 1 .. BlockSize /\ (blocks - 1) + 1 = blocks
      BY <1>2
    <3>3. QED
      BY <1>2, <2>2, <3>1, <3>2, LeavesCounted
  <2>4. Shifted(blocks - 1, 0) = Shifted(blocks, 0) - 1
    BY <2>2, ShiftedByNone
  <2>5. TypeOK'
    BY <1>1, <1>2, <2>1 DEF TypeOK
  <2>6. FedOK' /\ CountOK' /\ MergeOK' /\ FinalOK'
    BY <1>1, <2>1, <2>3, <2>4 DEF FedOK, CountOK, MergeOK, FinalOK
  <2>7. QED
    BY <1>3, <2>5, <2>6 DEF TreeInv
<1>6. QED
  BY <1>4, <1>5

\* The number of leaves in the final part.
LEMMA FinalCount ==
  ASSUME TypeOK, CountOK, pc \in {"scan", "climb", "done"}
  PROVE  /\ blocks \in Nat \ {0} /\ blocks - 1 \in Nat /\ blocks = Leaves(fed)
         /\ blocks < Pow2[StackSize]
<1>1. fed \in Nat /\ fed <= MaxBytes
  BY TreeHashAssumption DEF TypeOK
<1>2. Leaves(fed) \in Nat \ {0} /\ Leaves(fed) < Pow2[StackSize]
  BY <1>1, LeavesType, LeavesFit
<1>3. Leaves(fed) = blocks
  BY DEF CountOK
<1>4. QED
  BY <1>2, <1>3

\* The lowest level in use has the rightmost node.
LEMMA ScanStep ==
  ASSUME TreeInv, Scan
  PROVE  TreeInv'
<1>1. /\ TypeOK /\ FedOK /\ StackOK /\ CountOK /\ FinalOK /\ pc = "scan"
      /\ UNCHANGED <<fed, length, size, rest, blocks, stack, back>> /\ level' = level + 1
  BY DEF TreeInv, Scan
<1>2. /\ level \in Nat /\ fed \in Nat
      /\ blocks \in Nat \ {0} /\ blocks - 1 \in Nat /\ blocks = Leaves(fed)
      /\ blocks < Pow2[StackSize]
  BY <1>1, FinalCount, TreeHashAssumption DEF TypeOK
<1>3. /\ Shifted(blocks - 1, level) = Shifted(blocks, level) - 1
      /\ Shifted(blocks - 1, level) \in Nat /\ Shifted(blocks, level) \in Nat
  BY <1>1, <1>2, ShiftedBounds DEF FinalOK
<1>4. Pow2[level] <= blocks /\ Pow2[level] \in Nat
  BY <1>2, <1>3, ShiftedPositive, Powers
<1>5. level \in Levels /\ level + 1 \in 0 .. StackSize
  BY <1>2, <1>4, LevelInStack
<1>6. CASE Pow2[level] < blocks /\ ~Bit(level)
  <2>1. UNCHANGED <<pc, carry>>
    BY <1>6 DEF Scan
  <2>2. PICK i \in Nat : Shifted(blocks, level) = 2 * i
    BY <1>2, <1>6, BitIs
  <2>3. i - 1 \in Nat /\ Shifted(blocks - 1, level) = (2 * (i - 1)) + 1
    BY <1>3, <2>2
  <2>4. Shifted(blocks, level + 1) = i /\ Shifted(blocks - 1, level + 1) = i - 1
    BY <1>2, <2>2, <2>3, ShiftedOnce
  <2>5. TypeOK'
    BY <1>1, <1>5, <2>1 DEF TypeOK
  <2>6. FedOK' /\ CountOK' /\ StackOK' /\ MergeOK'
    BY <1>1, <2>1 DEF FedOK, CountOK, StackOK, MergeOK, Bit
  <2>7. FinalOK'
    BY <1>1, <2>1, <2>4 DEF FinalOK
  <2>8. QED
    BY <2>5, <2>6, <2>7 DEF TreeInv
<1>7. CASE ~(Pow2[level] < blocks /\ ~Bit(level))
  <2>1. pc' = "climb" /\ carry' = stack[level]
    BY <1>7 DEF Scan
  <2>2. Bit(level)
    <3>1. SUFFICES ASSUME Pow2[level] = blocks PROVE Bit(level)
      BY <1>2, <1>4, <1>7
    <3>2. Pow2[level] * 1 <= blocks /\ blocks < (Pow2[level] * 1) + Pow2[level]
      BY <1>2, <1>4, <3>1
    <3>3. Shifted(blocks, level) = 1
      BY <1>2, <3>2, ShiftedIs
    <3>4. QED
      BY <3>3 DEF Bit
  <2>3. PICK i \in Nat : Shifted(blocks, level) = (2 * i) + 1
    BY <1>2, <2>2, BitIs
  <2>4. Shifted(blocks - 1, level) = 2 * i
    BY <1>3, <2>3
  <2>5. Shifted(blocks, level + 1) = i /\ Shifted(blocks - 1, level + 1) = i
    BY <1>2, <2>3, <2>4, ShiftedOnce
  <2>6. stack[level] = Row[level][fed][2 * i]
    <3>1. stack[level] = Row[level][fed][Shifted(blocks, level) - 1]
      BY <1>1, <1>5, <2>2 DEF StackOK
    <3>2. Shifted(blocks, level) - 1 = 2 * i
      BY <2>3
    <3>3. QED
      BY <3>1, <3>2
  <2>7. carry' = Row[level + 1][fed][i]
    <3>1. ~(((2 * i) + 1) * Pow2[level] < Leaves(fed))
      <4> DEFINE x == Pow2[level] * (2 * i)
      <4>1. blocks - 1 < x + Pow2[level]
        BY <1>2, <2>4, ShiftedBounds
      <4>2. x \in Nat /\ ((2 * i) + 1) * Pow2[level] = x + Pow2[level]
        BY <1>4, SMT
      <4> HIDE DEF x
      <4>3. ~(x + Pow2[level] < blocks)
        BY <1>2, <1>4, <4>1, <4>2
      <4>4. QED
        BY <1>2, <4>2, <4>3
    <3>2. Row[level + 1][fed][i] = IF ((2 * i) + 1) * Pow2[level] < Leaves(fed)
                                     THEN Node(Row[level][fed][2 * i], Row[level][fed][(2 * i) + 1])
                                     ELSE Row[level][fed][2 * i]
      BY <1>2, Rows
    <3>3. QED
      BY <2>1, <2>6, <3>1, <3>2
  <2>8. TypeOK'
    BY <1>1, <1>5, <2>1 DEF TypeOK
  <2>9. FedOK' /\ CountOK' /\ StackOK' /\ MergeOK'
    BY <1>1, <2>1 DEF FedOK, CountOK, StackOK, MergeOK, Bit
  <2>10. FinalOK'
    BY <1>1, <2>1, <2>5, <2>7 DEF FinalOK
  <2>11. QED
    BY <2>8, <2>9, <2>10 DEF TreeInv
<1>8. QED
  BY <1>6, <1>7

\* From a node to the one above it.
LEMMA ClimbStep ==
  ASSUME TreeInv, Climb
  PROVE  TreeInv'
<1>1. /\ TypeOK /\ FedOK /\ StackOK /\ CountOK /\ FinalOK /\ pc = "climb"
      /\ UNCHANGED <<fed, length, size, rest, blocks, stack, back>>
  BY DEF TreeInv, Climb
<1>2. /\ level \in Nat /\ fed \in Nat
      /\ blocks \in Nat \ {0} /\ blocks - 1 \in Nat /\ blocks = Leaves(fed)
      /\ blocks < Pow2[StackSize] /\ Pow2[level] \in Nat
  BY <1>1, FinalCount, Powers, TreeHashAssumption DEF TypeOK
<1>3. /\ Shifted(blocks - 1, level) = Shifted(blocks, level)
      /\ carry = Row[level][fed][Shifted(blocks - 1, level)]
      /\ Shifted(blocks, level) \in Nat
  BY <1>1, <1>2, ShiftedBounds DEF FinalOK
<1>4. CASE Pow2[level] <= blocks
  <2>1. /\ carry' = IF Bit(level) THEN Node(stack[level], carry) ELSE carry
        /\ level' = level + 1 /\ pc' = "climb"
    BY <1>1, <1>4 DEF Climb
  <2>2. level \in Levels /\ level + 1 \in 0 .. StackSize
    BY <1>2, <1>4, LevelInStack
  <2>3. \A i \in Nat :
          Row[level + 1][fed][i] = IF ((2 * i) + 1) * Pow2[level] < Leaves(fed)
                                     THEN Node(Row[level][fed][2 * i], Row[level][fed][(2 * i) + 1])
                                     ELSE Row[level][fed][2 * i]
    BY <1>2, Rows
  <2>4. \E i \in Nat :
          /\ Shifted(blocks, level + 1) = i /\ Shifted(blocks - 1, level + 1) = i
          /\ carry' = Row[level + 1][fed][i]
    <3>1. CASE Bit(level)
      <4>1. PICK i \in Nat : Shifted(blocks, level) = (2 * i) + 1
        BY <1>2, <3>1, BitIs
      <4>2. Shifted(blocks, level + 1) = i /\ Shifted(blocks - 1, level + 1) = i
        BY <1>2, <1>3, <4>1, ShiftedOnce
      <4>3. stack[level] = Row[level][fed][2 * i]
        <5>1. stack[level] = Row[level][fed][Shifted(blocks, level) - 1]
          BY <1>1, <2>2, <3>1 DEF StackOK
        <5>2. Shifted(blocks, level) - 1 = 2 * i
          BY <4>1
        <5>3. QED
          BY <5>1, <5>2
      <4>4. carry = Row[level][fed][(2 * i) + 1]
        BY <1>3, <4>1
      <4>5. ((2 * i) + 1) * Pow2[level] < Leaves(fed)
        <5> DEFINE x == Pow2[level] * ((2 * i) + 1)
        <5>1. x <= blocks - 1
          BY <1>2, <1>3, <4>1, ShiftedBounds
        <5>2. x \in Nat /\ ((2 * i) + 1) * Pow2[level] = x
          BY <1>2, SMT
        <5> HIDE DEF x
        <5>3. x < blocks
          BY <1>2, <5>1, <5>2
        <5>4. QED
          BY <1>2, <5>2, <5>3
      <4>6. carry' = Row[level + 1][fed][i]
        BY <2>1, <2>3, <3>1, <4>3, <4>4, <4>5
      <4>7. QED
        BY <4>2, <4>6
    <3>2. CASE ~Bit(level)
      <4>1. PICK i \in Nat : Shifted(blocks, level) = 2 * i
        BY <1>2, <3>2, BitIs
      <4>2. Shifted(blocks, level + 1) = i /\ Shifted(blocks - 1, level + 1) = i
        BY <1>2, <1>3, <4>1, ShiftedOnce
      <4>3. ~(((2 * i) + 1) * Pow2[level] < Leaves(fed))
        <5> DEFINE x == Pow2[level] * (2 * i)
        <5>1. blocks < x + Pow2[level]
          BY <1>2, <4>1, ShiftedBounds
        <5>2. x \in Nat /\ ((2 * i) + 1) * Pow2[level] = x + Pow2[level]
          BY <1>2, SMT
        <5> HIDE DEF x
        <5>3. ~(x + Pow2[level] < blocks)
          BY <1>2, <5>1, <5>2
        <5>4. QED
          BY <1>2, <5>2, <5>3
      <4>4. carry' = Row[level + 1][fed][i]
        BY <1>3, <2>1, <2>3, <3>2, <4>1, <4>3
      <4>5. QED
        BY <4>2, <4>4
    <3>3. QED
      BY <3>1, <3>2
  <2>5. TypeOK'
    BY <1>1, <2>1, <2>2 DEF TypeOK
  <2>6. FedOK' /\ CountOK' /\ StackOK' /\ MergeOK'
    BY <1>1, <2>1 DEF FedOK, CountOK, StackOK, MergeOK, Bit
  <2>7. FinalOK'
    BY <1>1, <2>1, <2>4 DEF FinalOK
  <2>8. QED
    BY <2>5, <2>6, <2>7 DEF TreeInv
<1>5. CASE ~(Pow2[level] <= blocks)
  <2>1. pc' = "done" /\ UNCHANGED <<carry, level>>
    BY <1>5 DEF Climb
  <2>2. blocks < Pow2[level]
    BY <1>2, <1>5
  <2>3. TypeOK'
    BY <1>1, <2>1 DEF TypeOK
  <2>4. FedOK' /\ CountOK' /\ StackOK' /\ MergeOK'
    BY <1>1, <2>1 DEF FedOK, CountOK, StackOK, MergeOK, Bit
  <2>5. FinalOK'
    BY <1>1, <1>3, <2>1, <2>2 DEF FinalOK
  <2>6. QED
    BY <2>3, <2>4, <2>5 DEF TreeInv
<1>6. QED
  BY <1>4, <1>5

LEMMA TreeStep == TreeInv /\ [Next]_vars => TreeInv'
<1> SUFFICES ASSUME TreeInv, [Next]_vars PROVE TreeInv'
  OBVIOUS
<1>1. CASE \E n \in 0 .. MaxChunk : Update(n)
  BY <1>1, UpdateStep
<1>2. CASE Final
  BY <1>2, FinalStep
<1>3. CASE Feed
  BY <1>3, FeedStep
<1>4. CASE Merge
  BY <1>4, MergeStep
<1>5. CASE Store
  BY <1>5, StoreStep
<1>6. CASE Scan
  BY <1>6, ScanStep
<1>7. CASE Climb
  BY <1>7, ClimbStep
<1>8. CASE Done \/ UNCHANGED vars
  <2>1. UNCHANGED vars
    BY <1>8 DEF Done
  <2>2. QED
    BY <2>1 DEF vars, TreeInv, TypeOK, FedOK, CountOK, StackOK, MergeOK, FinalOK, Bit
<1>9. QED
  BY <1>1, <1>2, <1>3, <1>4, <1>5, <1>6, <1>7, <1>8 DEF Next, Inside

LEMMA TreeInvariant == Spec => []TreeInv
<1>1. QED
  BY TreeInit, TreeStep, PTL DEF Spec

-----------------------------------------------------------------------------
(* The theorems                                                             *)

\* Between the calls of rhash_tth_update, whatever the chunks were, the bits of
\* block_count tell which levels of the stack are in use, and these hold the
\* nodes of the Merkle tree over all the full leaves.
THEOREM StackIsShaped == Spec => []StackInv
<1>1. TreeInv => StackInv
  BY DEF TreeInv, StackInv, StackIsComplete, StackOK
<1>2. QED
  BY <1>1, TreeInvariant, PTL

\* What rhash_tth_final stores is the root of the Merkle tree of the message,
\* for every length and every way to cut the message into chunks.
THEOREM TreeHashIsRoot == Spec => []RootIsMerkle
<1>1. TreeInv => RootIsMerkle
  <2> SUFFICES ASSUME TreeInv, pc = "done", NEW k \in 0 .. StackSize, Leaves(fed) <= Pow2[k]
               PROVE  carry = Row[k][fed][0]
    BY DEF RootIsMerkle
  <2>1. TypeOK /\ CountOK /\ FinalOK
    BY DEF TreeInv
  <2>2. /\ level \in Nat /\ fed \in Nat /\ k \in Nat
        /\ blocks \in Nat \ {0} /\ blocks - 1 \in Nat /\ blocks = Leaves(fed)
    BY <2>1, FinalCount, TreeHashAssumption DEF TypeOK
  <2>3. /\ carry = Row[level][fed][Shifted(blocks - 1, level)]
        /\ blocks < Pow2[level] /\ Pow2[level] \in Nat
    BY <2>1, <2>2, Powers DEF FinalOK
  <2>4. Shifted(blocks - 1, level) = 0
    <3>1. Pow2[level] * 0 <= blocks - 1 /\ blocks - 1 < (Pow2[level] * 0) + Pow2[level]
      BY <2>2, <2>3
    <3>2. QED
      BY <2>2, <3>1, ShiftedIs
  <2>5. Leaves(fed) <= Pow2[level]
    BY <2>2, <2>3
  <2>6. Row[level][fed][0] = Row[k][fed][0]
    <3>1. CASE k <= level
      BY <2>2, <3>1, TopNode
    <3>2. CASE level <= k
      BY <2>2, <2>5, <3>2, TopNode
    <3>3. QED
      BY <2>2, <3>1, <3>2
  <2>7. QED
    BY <2>3, <2>4, <2>6
<1>2. QED
  BY <1>1, TreeInvariant, PTL
=============================================================================
