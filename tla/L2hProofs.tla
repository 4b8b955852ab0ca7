----------------------------- MODULE L2hProofs -----------------------------
(***************************************************************************)
(* Proofs about module L2h, for every command line:                        *)
(*   - the walk over the tree of a query hands its nodes over each once    *)
(*     and in order (VisitsInOrder), and errors are reported for the texts *)
(*     they concern (ErrorsAreReported);                                   *)
(*   - a query answers only for its own names (NamesPerQuery), and pools   *)
(*     are opened and destroyed in pairs (PoolsAndTables);                 *)
(*   - a node takes back only instructions of its own children and of its  *)
(*     left sibling (TakesBackOwn): ListInv says what the list of a tree   *)
(*     of the grammar is after each node;                                  *)
(*   - the processor crashes only for the reasons that FaultNeeds names,   *)
(*     and a plain query calculates what it means (PlainIsCalculated):     *)
(*     QueryInv follows the stack, the table and the scans of a run over   *)
(*     any such list, CauseInv and JunkInv keep the reasons of a crash.    *)
(***************************************************************************)
EXTENDS L2h, FiniteSetTheorems, SequenceTheorems, TLAPS

-----------------------------------------------------------------------------
(* The walk                                                                 *)

(***************************************************************************)
(* A walk over tree t with stack s that left node l last and has visited   *)
(* the first v nodes.  A node on the stack has above it its last child,    *)
(* when its children are being visited, or its left sibling, when it waits *)
(* itself: the one whose subtree ends where its own begins.  The top is    *)
(* either still to be expanded, when all in front of its subtree has been  *)
(* visited, or has only itself left.                                       *)
(***************************************************************************)
Waits(t, upper, lower) ==
  \/ upper = lower - 1 /\ ~IsLeaf(t[lower])
  \/ upper = Leftmost(t)[lower] - 1

Fresh(t, n, l, v) ==
  v = Leftmost(t)[n] - 1 /\ ((l = v /\ v > 0) \/ l = Len(t))

ChildrenDone(t, n, l, v) == v = n - 1 /\ l = n - 1 /\ ~IsLeaf(t[n])

WalkOK(t, s, l, v) ==
  /\ v \in Nat
  /\ s \in Seq(DOMAIN t)
  /\ s = <<>> => v = Len(t)
  /\ s # <<>> =>
       /\ s[1] = Len(t)
       /\ \A k \in 1 .. Len(s) - 1 : Waits(t, s[k + 1], s[k])
       /\ Fresh(t, Back(s), l, v) \/ ChildrenDone(t, Back(s), l, v)

\* What remains of a stack without its top, and what a stack is with one or two
\* more elements.
LEMMA WithoutTop ==
  ASSUME NEW S, NEW s \in Seq(S), s # <<>>
  PROVE  LET rest == SubSeq(s, 1, Len(s) - 1)
         IN  /\ Len(s) \in Nat /\ Len(s) > 0
             /\ rest \in Seq(S) /\ Len(rest) = Len(s) - 1
             /\ \A k \in 1 .. Len(s) - 1 : rest[k] = s[k] /\ s[k] \in S
             /\ s[Len(s)] \in S
             /\ rest = <<>> <=> Len(s) = 1
<1>1. Len(s) \in Nat /\ Len(s) > 0
  OBVIOUS
<1>2. \A k \in 1 .. Len(s) : s[k] \in S
  BY ElementOfSeq
<1> DEFINE m == Len(s) - 1
           rest == SubSeq(s, 1, m)
<1>3. m \in Nat
  BY <1>1
<1> HIDE DEF m
<1>4. \A k \in 1 .. m : s[k] \in S
  BY <1>1, <1>2 DEF m
<1>5. /\ rest \in Seq(S)
      /\ Len(rest) = IF 1 <= m THEN m - 1 + 1 ELSE 0
      /\ \A k \in 1 .. m - 1 + 1 : rest[k] = s[1 + k - 1]
  BY <1>3, <1>4, SubSeqProperties
<1> HIDE DEF rest
<1>6. Len(rest) = m /\ \A k \in 1 .. m : rest[k] = s[k]
  BY <1>3, <1>5
<1>7. rest = <<>> <=> m = 0
  BY <1>3, <1>5, <1>6
<1> QED
  BY <1>1, <1>2, <1>4, <1>5, <1>6, <1>7 DEF m, rest

LEMMA WithOneMore ==
  ASSUME NEW S, NEW s \in Seq(S), NEW a \in S
  PROVE  LET new == s \o <<a>>
         IN  /\ new \in Seq(S) /\ new # <<>> /\ Len(new) = Len(s) + 1
             /\ \A k \in 1 .. Len(s) : new[k] = s[k]
             /\ new[Len(s) + 1] = a
BY AppendProperties, AppendIsConcat

LEMMA WithTwoMore ==
  ASSUME NEW S, NEW s \in Seq(S), NEW a \in S, NEW b \in S
  PROVE  LET new == s \o <<a>> \o <<b>>
         IN  /\ new \in Seq(S) /\ new # <<>> /\ Len(new) = Len(s) + 2
             /\ \A k \in 1 .. Len(s) : new[k] = s[k]
             /\ new[Len(s) + 1] = a /\ new[Len(s) + 2] = b
<1> DEFINE mid == s \o <<a>>
           new == mid \o <<b>>
<1>1. /\ mid \in Seq(S) /\ Len(mid) = Len(s) + 1
      /\ \A k \in 1 .. Len(s) : mid[k] = s[k]
      /\ mid[Len(s) + 1] = a
  BY WithOneMore
<1> HIDE DEF mid
<1>2. /\ new \in Seq(S) /\ new # <<>> /\ Len(new) = Len(mid) + 1
      /\ \A k \in 1 .. Len(mid) : new[k] = mid[k]
      /\ new[Len(mid) + 1] = b
  BY <1>1, WithOneMore
<1>3. Len(s) \in Nat
  OBVIOUS
<1> HIDE DEF new
<1>4. \A k \in 1 .. Len(s) : new[k] = s[k]
  BY <1>1, <1>2, <1>3
<1>5. Len(new) = Len(s) + 2 /\ new[Len(s) + 1] = a /\ new[Len(s) + 2] = b
  BY <1>1, <1>2, <1>3
<1> QED
  BY <1>2, <1>4, <1>5 DEF new, mid

\* What WellNumbered says of one node: where its children are.
LEMMA Children ==
  ASSUME NEW t, WellNumbered(t), NEW n \in DOMAIN t
  PROVE  LET l == t[n].left
             r == t[n].right
             first == Leftmost(t)
         IN  /\ n \in 1 .. Len(t) /\ Len(t) \in Nat
             /\ l \in Nat /\ r \in Nat /\ first[n] \in 1 .. n
             /\ r # 0 => r = n - 1 /\ r \in DOMAIN t /\ first[r] \in 1 .. r
             /\ r # 0 /\ l = 0 => first[n] = first[r]
             /\ r # 0 /\ l # 0 => l = first[r] - 1
             /\ r = 0 /\ l # 0 => l = n - 1
             /\ l # 0 => l \in DOMAIN t /\ l < n /\ first[n] = first[l] /\ first[l] \in 1 .. l
             /\ l = 0 /\ r = 0 => first[n] = n
<1> DEFINE l == t[n].left
           r == t[n].right
           first == Leftmost(t)
<1>1. t \in Seq(NodeType) /\ DOMAIN t = 1 .. Len(t) /\ Len(t) \in Nat
  BY DEF WellNumbered
<1>2. l \in Nat /\ r \in Nat /\ n \in 1 .. Len(t)
  <2>1. n \in 1 .. Len(t)
    BY <1>1
  <2>2. t[n] \in NodeType
    BY <1>1, <2>1, ElementOfSeq
  <2> QED
    BY <2>1, <2>2 DEF NodeType
<1>3. /\ first[n] \in 1 .. n
      /\ r # 0 => r = n - 1
      /\ l # 0 => l = (IF r = 0 THEN n ELSE first[r]) - 1
      /\ first[n] = IF l # 0 THEN first[l] ELSE IF r # 0 THEN first[r] ELSE n
  BY DEF WellNumbered
<1>4. ASSUME r # 0 PROVE r \in DOMAIN t /\ first[r] \in 1 .. r
  <2>1. r \in DOMAIN t
    BY <1>1, <1>2, <1>3, <1>4
  <2> QED
    BY <2>1 DEF WellNumbered
<1>5. ASSUME l # 0 PROVE l \in DOMAIN t /\ l < n /\ first[l] \in 1 .. l
  <2>1. l \in DOMAIN t /\ l < n
    BY <1>1, <1>2, <1>3, <1>4, <1>5
  <2> QED
    BY <2>1 DEF WellNumbered
<1> QED
  BY <1>1, <1>2, <1>3, <1>4, <1>5

\* A node that is handed over is the next one, and the walk goes on from it.
LEMMA VisitOK ==
  ASSUME NEW t, WellNumbered(t), NEW s, NEW l, NEW v, WalkOK(t, s, l, v), s # <<>>,
         l \in {t[Back(s)].left, t[Back(s)].right} \/ IsLeaf(t[Back(s)])
  PROVE  Back(s) = v + 1 /\ WalkOK(t, SubSeq(s, 1, Len(s) - 1), Back(s), v + 1)
<1> DEFINE n == Back(s)
           m == Len(s)
           first == Leftmost(t)
           rest == SubSeq(s, 1, m - 1)
<1>1. /\ s \in Seq(DOMAIN t) /\ v \in Nat
      /\ m \in Nat /\ m > 0 /\ n = s[m] /\ n \in DOMAIN t
      /\ rest \in Seq(DOMAIN t) /\ Len(rest) = m - 1
      /\ \A k \in 1 .. m - 1 : rest[k] = s[k] /\ s[k] \in DOMAIN t
      /\ rest = <<>> <=> m = 1
  BY WithoutTop DEF WalkOK, Back
<1>2. /\ n \in 1 .. Len(t) /\ Len(t) \in Nat
      /\ t[n].left \in Nat /\ t[n].right \in Nat
      /\ first[n] \in 1 .. n
      /\ t[n].left # 0 => t[n].left < n /\ first[n] <= t[n].left
      /\ t[n].right # 0 => t[n].right = n - 1 /\ first[n] <= n - 1
      /\ t[n].left = 0 /\ t[n].right = 0 => first[n] = n
  BY <1>1, Children
<1>3. Fresh(t, n, l, v) \/ ChildrenDone(t, n, l, v)
  BY DEF WalkOK
<1>4. /\ s[1] = Len(t)
      /\ \A k \in 1 .. m - 1 : Waits(t, s[k + 1], s[k])
  BY DEF WalkOK
<1>5. l \in {t[n].left, t[n].right} \/ IsLeaf(t[n])
  OBVIOUS
<1> HIDE DEF n, m, first, rest
<1>6. n = v + 1
  <2>1. CASE ChildrenDone(t, n, l, v)
    BY <2>1, <1>1, <1>2 DEF ChildrenDone
  <2>2. CASE Fresh(t, n, l, v)
    <3>1. v = first[n] - 1 /\ ((l = v /\ v > 0) \/ l = Len(t))
      BY <2>2 DEF Fresh, first
    <3>2. /\ first[n] \in Nat /\ n \in Nat /\ n > 0 /\ Len(t) \in Nat /\ n <= Len(t)
          /\ v \in Nat
      BY <1>1, <1>2, SMTT(30)
    <3>3. /\ t[n].left = 0 \/ t[n].left \in v + 1 .. n - 1
          /\ t[n].right = 0 \/ t[n].right \in v + 1 .. n - 1
      <4>1. v + 1 = first[n]
        BY <3>1, <3>2
      <4>2. t[n].left # 0 => t[n].left \in v + 1 .. n - 1
        BY <4>1, <1>2, <3>2
      <4>3. t[n].right # 0 => t[n].right \in v + 1 .. n - 1
        BY <4>1, <1>2, <3>2
      <4> QED
        BY <4>2, <4>3
    <3>4. l \notin {t[n].left, t[n].right}
      <4>1. l \notin v + 1 .. n - 1 /\ l # 0
        <5>1. CASE l = v /\ v > 0
          BY <5>1, <3>2
        <5>2. CASE l = Len(t)
          BY <5>2, <3>2
        <5> QED
          BY <5>1, <5>2, <3>1
      <4> QED
        BY <4>1, <3>3
    <3>5. IsLeaf(t[n])
      BY <1>5, <3>4
    <3> QED
      BY <3>5, <2>2, <1>1, <1>2 DEF Fresh, IsLeaf, first
  <2> QED
    BY <1>3, <2>1, <2>2
<1>7. CASE m = 1
  <2>1. rest = <<>> /\ v + 1 = Len(t)
    BY <1>7, <1>1, <1>4, <1>6
  <2>2. v + 1 \in Nat
    BY <1>1
  <2>3. WalkOK(t, rest, n, v + 1)
    BY <2>1, <2>2, <1>1 DEF WalkOK
  <2> QED
    BY <2>3, <1>6 DEF rest, n, m
<1>8. CASE m # 1
  <2> DEFINE p == s[m - 1]
  <2>1. m - 1 \in 1 .. m - 1 /\ 1 \in 1 .. m - 1
    BY <1>8, <1>1
  <2>2. p \in DOMAIN t /\ rest # <<>> /\ Back(rest) = p /\ rest[1] = Len(t)
    BY <2>1, <1>1, <1>4, <1>8 DEF Back
  <2>3. Waits(t, n, p)
    <3>1. m - 1 + 1 = m
      BY <1>1
    <3> QED
      BY <2>1, <3>1, <1>1, <1>4
  <2>4. \A k \in 1 .. Len(rest) - 1 : Waits(t, rest[k + 1], rest[k])
    <3>0. Len(rest) - 1 = m - 2
      BY <1>1
    <3> SUFFICES ASSUME NEW k \in 1 .. m - 2 PROVE Waits(t, rest[k + 1], rest[k])
      BY <3>0
    <3>1. k \in 1 .. m - 1 /\ k + 1 \in 1 .. m - 1
      BY <1>1
    <3> QED
      BY <3>1, <1>1, <1>4
  <2>5. p \in 1 .. Len(t) /\ Leftmost(t)[p] \in 1 .. p
    BY <2>2, Children
  <2>6. Fresh(t, p, n, v + 1) \/ ChildrenDone(t, p, n, v + 1)
    <3>1. CASE n = p - 1 /\ ~IsLeaf(t[p])
      BY <3>1, <1>1, <1>6 DEF ChildrenDone
    <3>2. CASE n = Leftmost(t)[p] - 1
      BY <3>2, <1>1, <1>6 DEF Fresh
    <3> QED
      BY <2>3, <3>1, <3>2 DEF Waits
  <2>7. v + 1 \in Nat
    BY <1>1
  <2>8. WalkOK(t, rest, n, v + 1)
    BY <2>2, <2>4, <2>6, <2>7, <1>1 DEF WalkOK
  <2> QED
    BY <2>8, <1>6 DEF rest, n, m
<1> QED
  BY <1>7, <1>8

\* Children go onto the stack right before left, and the walk goes on.
LEMMA DescendOK ==
  ASSUME NEW t, WellNumbered(t), NEW s, NEW l, NEW v, WalkOK(t, s, l, v), s # <<>>,
         ~(l \in {t[Back(s)].left, t[Back(s)].right} \/ IsLeaf(t[Back(s)]))
  PROVE  WalkOK(t, s \o Child(t[Back(s)].right) \o Child(t[Back(s)].left), l, v)
<1> DEFINE n == Back(s)
           m == Len(s)
           left == t[n].left
           right == t[n].right
<1>1. s \in Seq(DOMAIN t) /\ m \in Nat /\ m > 0 /\ n = s[m] /\ n \in DOMAIN t /\ v \in Nat
  BY WithoutTop DEF WalkOK, Back
<1>2. LET first == Leftmost(t)
      IN  /\ n \in 1 .. Len(t) /\ Len(t) \in Nat
          /\ left \in Nat /\ right \in Nat /\ first[n] \in 1 .. n
          /\ right # 0 => right = n - 1 /\ right \in DOMAIN t /\ first[right] \in 1 .. right
          /\ right # 0 /\ left = 0 => first[n] = first[right]
          /\ right # 0 /\ left # 0 => left = first[right] - 1
          /\ right = 0 /\ left # 0 => left = n - 1
          /\ left # 0 => left \in DOMAIN t /\ left < n /\ first[n] = first[left]
  BY <1>1, Children
<1>3. ~IsLeaf(t[n]) /\ l # left /\ l # right /\ (left # 0 \/ right # 0)
  BY DEF IsLeaf
<1>4. Fresh(t, n, l, v)
  <2>1. Fresh(t, n, l, v) \/ ChildrenDone(t, n, l, v)
    BY DEF WalkOK
  <2>2. ~ChildrenDone(t, n, l, v)
    BY <1>2, <1>3 DEF ChildrenDone
  <2> QED
    BY <2>1, <2>2
<1>5. /\ s[1] = Len(t) /\ 1 \in 1 .. m
      /\ \A k \in 1 .. m - 1 : Waits(t, s[k + 1], s[k])
  BY <1>1 DEF WalkOK
<1> HIDE DEF n, m, left, right
\* One child.
<1>6. ASSUME NEW c \in DOMAIN t, c = n - 1, Leftmost(t)[c] = Leftmost(t)[n]
      PROVE  WalkOK(t, s \o <<c>>, l, v)
  <2> DEFINE new == s \o <<c>>
  <2>1. /\ new \in Seq(DOMAIN t) /\ Len(new) = m + 1 /\ new # <<>>
        /\ \A k \in 1 .. m : new[k] = s[k]
        /\ new[m + 1] = c
    BY <1>1, WithOneMore DEF m
  <2> HIDE DEF new
  <2>2. Waits(t, c, n)
    BY <1>6, <1>3 DEF Waits
  <2>3. \A k \in 1 .. Len(new) - 1 : Waits(t, new[k + 1], new[k])
    <3> SUFFICES ASSUME NEW k \in 1 .. m PROVE Waits(t, new[k + 1], new[k])
      BY <1>1, <2>1
    <3>1. CASE k = m
      BY <3>1, <2>1, <2>2, <1>1
    <3>2. CASE k # m
      <4>1. k \in 1 .. m - 1 /\ k + 1 \in 1 .. m
        BY <3>2, <1>1
      <4> QED
        BY <4>1, <2>1, <1>5
    <3> QED
      BY <3>1, <3>2
  <2>4. Back(new) = c
    BY <2>1 DEF Back
  <2>5. Fresh(t, c, l, v)
    BY <1>4, <1>6 DEF Fresh
  <2>6. new[1] = Len(t)
    BY <2>1, <1>5
  <2>7. WalkOK(t, new, l, v)
    BY <2>1, <2>3, <2>4, <2>5, <2>6, <1>1 DEF WalkOK
  <2> QED
    BY <2>7 DEF new
\* Two children.
<1>7. ASSUME right # 0, left # 0
      PROVE  WalkOK(t, s \o <<right>> \o <<left>>, l, v)
  <2> DEFINE new == s \o <<right>> \o <<left>>
  <2>1. /\ new \in Seq(DOMAIN t) /\ Len(new) = m + 2 /\ new # <<>>
        /\ \A k \in 1 .. m : new[k] = s[k]
        /\ new[m + 1] = right /\ new[m + 2] = left
    BY <1>1, <1>2, <1>7, WithTwoMore DEF m
  <2> HIDE DEF new
  <2>2. Waits(t, right, n)
    BY <1>2, <1>3, <1>7 DEF Waits
  <2>3. Waits(t, left, right)
    BY <1>2, <1>7 DEF Waits
  <2>4. \A k \in 1 .. Len(new) - 1 : Waits(t, new[k + 1], new[k])
    <3> SUFFICES ASSUME NEW k \in 1 .. m + 1 PROVE Waits(t, new[k + 1], new[k])
      BY <1>1, <2>1
    <3>1. CASE k = m
      BY <3>1, <2>1, <2>2, <1>1
    <3>2. CASE k = m + 1
      <4>1. k + 1 = m + 2
        BY <3>2, <1>1
      <4> QED
        BY <4>1, <3>2, <2>1, <2>3
    <3>3. CASE k # m /\ k # m + 1
      <4>1. k \in 1 .. m - 1 /\ k + 1 \in 1 .. m /\ k \in 1 .. m
        BY <3>3, <1>1
      <4> QED
        BY <4>1, <2>1, <1>5
    <3> QED
      BY <3>1, <3>2, <3>3
  <2>5. Back(new) = left
    BY <2>1 DEF Back
  <2>6. Fresh(t, left, l, v)
    BY <1>2, <1>4, <1>7 DEF Fresh
  <2>7. new[1] = Len(t)
    BY <2>1, <1>5
  <2>8. WalkOK(t, new, l, v)
    BY <2>1, <2>4, <2>5, <2>6, <2>7, <1>1 DEF WalkOK
  <2> QED
    BY <2>8 DEF new
<1>8. s \o <<>> = s
  BY <1>1, ConcatEmptySeq
<1>9. CASE right # 0 /\ left # 0
  BY <1>7, <1>9 DEF Child, left, right, n
<1>10. CASE right # 0 /\ left = 0
  <2>1. WalkOK(t, s \o <<right>>, l, v)
    BY <1>2, <1>6, <1>10
  <2>2. s \o <<right>> \o <<>> = s \o <<right>>
    BY <1>1, <1>2, <1>10, WithOneMore, ConcatEmptySeq
  <2> QED
    BY <2>1, <2>2, <1>10 DEF Child, left, right, n
<1>11. CASE right = 0 /\ left # 0
  <2>1. WalkOK(t, s \o <<left>>, l, v)
    BY <1>2, <1>6, <1>11
  <2> QED
    BY <2>1, <1>8, <1>11 DEF Child, left, right, n
<1> QED
  BY <1>3, <1>9, <1>10, <1>11

-----------------------------------------------------------------------------
(* The invariant                                                            *)

\* Where the parser is in the texts.
ParserInv ==
  /\ program \in Programs
  /\ text \in Nat \ {0} /\ unit \in Nat \ {0}
  /\ stage \in {"units", "reduce", "walk", "run"} => text <= Len(Texts)
  /\ stage = "reduce" => unit <= Len(Texts[text]) /\ Unit.kind = "query"

\* The tree and how far the walk has come.
WalkInv ==
  /\ Len(visits) \in Nat /\ visits = [k \in 1 .. Len(visits) |-> k]
  /\ IF tree = NoTree
       THEN stack = <<>> /\ visits = <<>>
       ELSE WellNumbered(tree) /\ WalkOK(tree, stack, last, Len(visits))

\* The count of the errors says whether there was any so far, which is what the
\* reports are made from; a text that is not reported yet is the only one that
\* may still go wrong.
ErrorInv ==
  /\ errors \in Nat
  /\ reports \in Seq(BOOLEAN) /\ Len(reports) = text - 1
  /\ broken \subseteq 1 .. text
  /\ stage = "open" => text \notin broken
  /\ errors = 0 <=> broken = {}
  /\ \A k \in 1 .. text - 1 : reports[k] <=> \E j \in 1 .. k : j \in broken

LInv == ParserInv /\ WalkInv /\ ErrorInv

LEMMA InitLInv == LInit => LInv
<1> SUFFICES ASSUME LInit PROVE LInv
  OBVIOUS
<1>1. /\ program \in Programs /\ stage = "open" /\ text = 1 /\ unit = 1
      /\ errors = 0 /\ broken = {} /\ reports = <<>>
      /\ tree = <<>> /\ stack = <<>> /\ visits = <<>>
  BY DEF LInit, NoWalk, NoTree
<1>2. ParserInv
  BY <1>1 DEF ParserInv
<1>3. WalkInv
  <2>1. <<>> = [k \in 1 .. 0 |-> k]
    OBVIOUS
  <2> QED
    BY <1>1, <2>1 DEF WalkInv, NoTree
<1>4. ErrorInv
  BY <1>1 DEF ErrorInv
<1> QED
  BY <1>2, <1>3, <1>4 DEF LInv

\* Running a query leaves the walk alone.
LEMMA RunKeepsWalk == RunInstruction => UNCHANGED bendVars
<1>1. ASSUME NEW f PROVE Fault(f) => UNCHANGED bendVars
  BY DEF Fault
<1>2. Next1 => UNCHANGED bendVars
  BY DEF Next1
<1>3. ScanOn => UNCHANGED bendVars
  BY DEF ScanOn
<1>4. ASSUME NEW b, NEW h, NEW v PROVE Calculate(b, h, v) => UNCHANGED bendVars
  BY <1>1, <1>3 DEF Calculate
<1>5. OnDef \/ OnString \/ OnProperty \/ OnNothing => UNCHANGED bendVars
  BY <1>2 DEF OnDef, OnString, OnProperty, OnNothing
<1>6. OnFrom => UNCHANGED bendVars
  BY <1>1, <1>2 DEF OnFrom
<1>7. OnSelect \/ SelectEnds \/ CalculationEnds => UNCHANGED bendVars
  BY DEF OnSelect, SelectEnds, CalculationEnds
<1>8. Pass => UNCHANGED bendVars
  BY <1>3 DEF Pass
<1>9. ScanProperty => UNCHANGED bendVars
  BY <1>1, <1>3 DEF ScanProperty
<1>10. ScanString \/ ScanDeclaration \/ ScanDefinition \/ ScanHashDeclaration => UNCHANGED bendVars
  BY <1>1, <1>4, <1>8 DEF ScanString, ScanDeclaration, ScanDefinition, ScanHashDeclaration
<1> QED
  BY <1>5, <1>6, <1>7, <1>9, <1>10 DEF RunInstruction

\* Only the start of a walk and its steps change what WalkInv speaks of.
LEMMA WalkUnchanged == WalkInv /\ UNCHANGED bendVars => WalkInv'
BY DEF WalkInv, bendVars

LEMMA StartWalkOK ==
  ASSUME NEW t, WellNumbered(t), StartWalk(t)
  PROVE  WalkInv'
<1>1. t \in Seq(NodeType) /\ t # NoTree /\ Leftmost(t)[Len(t)] = 1
  BY DEF WellNumbered
<1>2. Len(t) \in Nat /\ Len(t) > 0 /\ Len(t) \in DOMAIN t
  BY <1>1 DEF NoTree
<1>3. tree' = t /\ stack' = <<Len(t)>> /\ last' = Len(t) /\ visits' = <<>>
  BY DEF StartWalk
<1>4. WalkOK(t, <<Len(t)>>, Len(t), 0)
  <2>1. Fresh(t, Len(t), Len(t), 0)
    BY <1>1 DEF Fresh
  <2> QED
    BY <1>2, <2>1 DEF WalkOK, Back
<1> QED
  BY <1>1, <1>3, <1>4 DEF WalkInv

LEMMA WalkStepOK ==
  ASSUME WalkInv, Visit \/ Descend
  PROVE  WalkInv'
<1> DEFINE v == Len(visits)
<1>1. stack # <<>> /\ tree # NoTree /\ tree' = tree
  BY DEF WalkInv, Visit, Descend
<1>2. WellNumbered(tree) /\ WalkOK(tree, stack, last, v) /\ v \in Nat
      /\ visits = [k \in 1 .. v |-> k]
  BY <1>1 DEF WalkInv
<1>3. CASE Visit
  <2>1. /\ last \in {tree[Back(stack)].left, tree[Back(stack)].right} \/ IsLeaf(tree[Back(stack)])
        /\ stack' = SubSeq(stack, 1, Len(stack) - 1)
        /\ last' = Back(stack)
        /\ visits' = Append(visits, Back(stack))
    BY <1>3 DEF Visit, Finished
  <2>2. Back(stack) = v + 1 /\ WalkOK(tree, stack', last', v + 1)
    BY <1>1, <1>2, <2>1, VisitOK
  <2>3. visits' = [k \in 1 .. v + 1 |-> k] /\ Len(visits') = v + 1
    <3>1. visits \in Seq(Nat)
      BY <1>2
    <3>2. /\ visits' \in Seq(Nat) /\ Len(visits') = v + 1
          /\ \A k \in 1 .. v : visits'[k] = visits[k]
          /\ visits'[v + 1] = v + 1
      BY <1>2, <2>1, <2>2, <3>1, AppendProperties
    <3>3. \A k \in 1 .. v + 1 : visits'[k] = k
      BY <1>2, <3>2
    <3>4. visits' = [k \in 1 .. Len(visits') |-> visits'[k]]
      BY <3>2
    <3> QED
      BY <3>2, <3>3, <3>4
  <2> QED
    BY <1>1, <1>2, <2>2, <2>3 DEF WalkInv
<1>4. CASE Descend
  <2>1. /\ ~(last \in {tree[Back(stack)].left, tree[Back(stack)].right} \/ IsLeaf(tree[Back(stack)]))
        /\ stack' = stack \o Child(tree[Back(stack)].right) \o Child(tree[Back(stack)].left)
        /\ last' = last /\ visits' = visits
    BY <1>4 DEF Descend, Finished
  <2>2. WalkOK(tree, stack', last, v)
    BY <1>1, <1>2, <2>1, DescendOK
  <2> QED
    BY <1>1, <1>2, <2>1, <2>2 DEF WalkInv
<1> QED
  BY <1>3, <1>4

\* The report on a text, when only that text can have gone wrong in the step.
LEMMA ReportOK ==
  ASSUME ErrorInv, text \in Nat \ {0}, NEW failed \in BOOLEAN, Report(failed),
         errors' \in Nat, errors' = 0 <=> broken' = {},
         broken' \subseteq broken \cup {text}, broken \subseteq broken',
         failed => errors' > 0
  PROVE  ErrorInv'
<1> DEFINE report == errors' > 0 \/ failed
<1>1. stage' = "open" /\ text' = text + 1 /\ reports' = Append(reports, report)
  BY DEF Report
<1>2. /\ reports \in Seq(BOOLEAN) /\ Len(reports) = text - 1
      /\ broken \subseteq 1 .. text
      /\ \A k \in 1 .. text - 1 : reports[k] <=> \E j \in 1 .. k : j \in broken
  BY DEF ErrorInv
<1>3. report \in BOOLEAN /\ (report <=> broken' # {})
  OBVIOUS
<1> HIDE DEF report
<1>4. /\ reports' \in Seq(BOOLEAN) /\ Len(reports') = text
      /\ \A k \in 1 .. text - 1 : reports'[k] = reports[k]
      /\ reports'[text] = report
  <2>1. /\ reports' \in Seq(BOOLEAN) /\ Len(reports') = Len(reports) + 1
        /\ \A k \in 1 .. Len(reports) : reports'[k] = reports[k]
        /\ reports'[Len(reports) + 1] = report
    BY <1>1, <1>2, <1>3, AppendProperties
  <2>2. Len(reports) + 1 = text
    BY <1>2
  <2> QED
    BY <1>2, <2>1, <2>2
<1>5. broken' \subseteq 1 .. text
  BY <1>2
<1>6. ASSUME NEW k \in 1 .. text
      PROVE  reports'[k] <=> \E j \in 1 .. k : j \in broken'
  <2>1. CASE k = text
    BY <2>1, <1>3, <1>4, <1>5
  <2>2. CASE k # text
    <3>1. k \in 1 .. text - 1 /\ \A j \in 1 .. k : j # text
      BY <2>2
    <3>2. reports'[k] <=> \E j \in 1 .. k : j \in broken
      BY <3>1, <1>2, <1>4
    <3>3. \A j \in 1 .. k : j \in broken <=> j \in broken'
      BY <3>1
    <3> QED
      BY <3>2, <3>3
  <2> QED
    BY <2>1, <2>2
<1>7. /\ text' - 1 = text /\ broken' \subseteq 1 .. text'
      /\ text' \notin broken'
  BY <1>1, <1>5
<1> QED
  BY <1>1, <1>4, <1>6, <1>7 DEF ErrorInv

LEMMA SyntaxErrorOK ==
  ASSUME ParserInv, ErrorInv, SyntaxError
  PROVE  ErrorInv'
<1>1. errors' = errors + 1 /\ broken' = broken \cup {text} /\ Report(TRUE)
  BY DEF SyntaxError
<1>2. text \in Nat \ {0} /\ errors \in Nat
  BY DEF ParserInv, ErrorInv
<1>3. errors' \in Nat /\ errors' > 0 /\ (errors' = 0 <=> broken' = {})
  BY <1>1, <1>2
<1> QED
  BY <1>1, <1>2, <1>3, ReportOK

LEMMA ErrorsUnchanged ==
  ErrorInv /\ UNCHANGED <<text, errors, broken, reports>> /\ (stage' = "open" => stage = "open")
    => ErrorInv'
BY DEF ErrorInv

\* A query complains about at most one name at each of its nodes.
LEMMA FewComplaints ==
  ASSUME NEW t, NEW i, NEW known
  PROVE  Cardinality(Uses(t, i) \ known) \in Nat
<1>1. \E c : Uses(t, i) \subseteq {c}
  BY DEF Uses
<1>2. PICK c : Uses(t, i) \ known \subseteq {c}
  BY <1>1
<1>3. IsFiniteSet({c})
  BY FS_Singleton
<1>4. IsFiniteSet(Uses(t, i) \ known)
  BY <1>2, <1>3, FS_Subset
<1> QED
  BY <1>4, FS_CardinalityType

LEMMA ReduceOK ==
  ASSUME ParserInv, ErrorInv, Reduce
  PROVE  ErrorInv'
<1> DEFINE new == Uses(Unit.tree, node + 1) \ ids
           many == Cardinality(new)
<1>1. many \in Nat
  BY FewComplaints
<1>2. /\ errors' = errors + many
      /\ broken' = IF errors' > errors THEN broken \cup {text} ELSE broken
      /\ UNCHANGED <<stage, text, reports>> /\ stage = "reduce"
  BY DEF Reduce, At
<1> HIDE DEF many
<1>3. /\ errors \in Nat /\ text \in Nat \ {0} /\ broken \subseteq 1 .. text
      /\ errors = 0 <=> broken = {}
  BY DEF ErrorInv, ParserInv
<1>4. /\ errors' \in Nat /\ broken' \subseteq 1 .. text
      /\ errors' = 0 <=> broken' = {}
  BY <1>1, <1>2, <1>3
<1>5. \A k \in 1 .. text - 1 : \A j \in 1 .. k : j \in broken <=> j \in broken'
  BY <1>2, <1>3
<1>6. \A k \in 1 .. text - 1 : reports[k] <=> \E j \in 1 .. k : j \in broken'
  BY <1>5 DEF ErrorInv
<1> QED
  BY <1>2, <1>4, <1>6 DEF ErrorInv

LEMMA NextLInv == LInv /\ [LNext]_vars => LInv'
<1> SUFFICES ASSUME LInv, [LNext]_vars PROVE LInv'
  OBVIOUS
<1>1. ParserInv /\ WalkInv /\ ErrorInv
  BY DEF LInv
<1>2. text \in Nat \ {0} /\ unit \in Nat \ {0} /\ program \in Programs
  BY <1>1 DEF ParserInv
<1>3. CASE OpenText
  <2>1. ParserInv'
    BY <1>1, <1>3 DEF OpenText, KeepBackground, ParserInv, Texts, Unit
  <2>2. ErrorInv'
    BY <1>1, <1>3, ErrorsUnchanged DEF OpenText
  <2>3. WalkInv'
    BY <1>1, <1>3, WalkUnchanged DEF OpenText, KeepBackground
  <2> QED
    BY <2>1, <2>2, <2>3 DEF LInv
<1>4. CASE OpenFails \/ Exit
  <2>1. ParserInv'
    BY <1>1, <1>4 DEF OpenFails, Exit, KeepBackground, ParserInv, Texts, Unit
  <2>2. ErrorInv'
    BY <1>1, <1>4, ErrorsUnchanged DEF OpenFails, Exit
  <2>3. WalkInv'
    BY <1>1, <1>4, WalkUnchanged DEF OpenFails, Exit, KeepBackground
  <2> QED
    BY <2>1, <2>2, <2>3 DEF LInv
<1>5. CASE TextEnds
  <2>1. ParserInv'
    BY <1>1, <1>2, <1>5 DEF TextEnds, Report, KeepBackground, ParserInv
  <2>2. ErrorInv'
    BY <1>1, <1>2, <1>5, ReportOK DEF TextEnds, ErrorInv
  <2>3. WalkInv'
    BY <1>1, <1>5, WalkUnchanged DEF TextEnds, KeepBackground
  <2> QED
    BY <2>1, <2>2, <2>3 DEF LInv
<1>6. CASE Comment
  <2>1. ParserInv'
    <3>1. unit' = unit + 1 /\ stage = "units" /\ UNCHANGED <<program, stage, text>>
      BY <1>6 DEF Comment, AtUnit, At, KeepBackground
    <3>2. unit' \in Nat \ {0}
      BY <1>2, <3>1
    <3> QED
      BY <1>1, <3>1, <3>2 DEF ParserInv, Texts
  <2>2. ErrorInv'
    BY <1>1, <1>6, ErrorsUnchanged DEF Comment
  <2>3. WalkInv'
    BY <1>1, <1>6, WalkUnchanged DEF Comment, KeepBackground
  <2> QED
    BY <2>1, <2>2, <2>3 DEF LInv
<1>7. CASE BeginQuery
  <2>1. ParserInv'
    BY <1>1, <1>7 DEF BeginQuery, AtUnit, At, KeepBackground, ParserInv, Texts, Unit
  <2>2. ErrorInv'
    BY <1>1, <1>7, ErrorsUnchanged DEF BeginQuery
  <2>3. WalkInv'
    BY <1>1, <1>7, WalkUnchanged DEF BeginQuery, KeepBackground
  <2> QED
    BY <2>1, <2>2, <2>3 DEF LInv
<1>8. CASE Junk \/ QueryGoesWrong
  <2>1. SyntaxError /\ UNCHANGED unit /\ UNCHANGED program /\ UNCHANGED bendVars
    BY <1>8 DEF Junk, QueryGoesWrong, KeepBackground
  <2>2. ParserInv'
    BY <1>1, <1>2, <2>1 DEF SyntaxError, Report, ParserInv
  <2>3. ErrorInv'
    BY <1>1, <2>1, SyntaxErrorOK
  <2>4. WalkInv'
    BY <1>1, <2>1, WalkUnchanged
  <2> QED
    BY <2>2, <2>3, <2>4 DEF LInv
<1>9. CASE Reduce
  <2>1. ParserInv'
    BY <1>1, <1>9 DEF Reduce, KeepBackground, ParserInv, Texts, Unit
  <2>2. ErrorInv'
    BY <1>1, <1>9, ReduceOK
  <2>3. WalkInv'
    BY <1>1, <1>9, WalkUnchanged DEF Reduce, KeepBackground
  <2> QED
    BY <2>1, <2>2, <2>3 DEF LInv
<1>10. CASE BeginWalk
  <2>1. stage = "reduce" /\ StartWalk(Unit.tree) /\ stage' = "walk"
        /\ UNCHANGED <<program, text, unit, errors, broken, reports>>
    BY <1>10 DEF BeginWalk, At
  <2>2. ParserInv'
    BY <1>1, <2>1 DEF ParserInv, Texts, Unit
  <2>3. ErrorInv'
    BY <1>1, <2>1, ErrorsUnchanged
  <2>4. WellNumbered(Unit.tree)
    <3>1. /\ Unit.kind = "query"
          /\ text \in 1 .. Len(Texts) /\ unit \in 1 .. Len(Texts[text])
      BY <1>1, <2>1 DEF ParserInv
    <3> QED
      BY <1>2, <3>1, ProgramsAssumption DEF Texts, Unit
  <2>5. WalkInv'
    BY <2>1, <2>4, StartWalkOK
  <2> QED
    BY <2>2, <2>3, <2>5 DEF LInv
<1>11. CASE Walk
  <2>1. (Visit \/ Descend) /\ UNCHANGED frontVars
    BY <1>11 DEF Walk
  <2>2. ParserInv'
    BY <1>1, <2>1 DEF ParserInv, frontVars, Texts, Unit
  <2>3. ErrorInv'
    BY <1>1, <2>1, ErrorsUnchanged DEF frontVars
  <2>4. WalkInv'
    BY <1>1, <2>1, WalkStepOK
  <2> QED
    BY <2>2, <2>3, <2>4 DEF LInv
<1>12. CASE BeginRun
  <2>1. ParserInv'
    BY <1>1, <1>12 DEF BeginRun, At, ParserInv, Texts, Unit
  <2>2. ErrorInv'
    BY <1>1, <1>12, ErrorsUnchanged DEF BeginRun
  <2>3. WalkInv'
    BY <1>1, <1>12, WalkUnchanged DEF BeginRun
  <2> QED
    BY <2>1, <2>2, <2>3 DEF LInv
<1>13. CASE Run
  <2>1. UNCHANGED frontVars /\ UNCHANGED bendVars
    BY <1>13, RunKeepsWalk DEF Run
  <2>2. ParserInv'
    BY <1>1, <2>1 DEF ParserInv, frontVars, Texts, Unit
  <2>3. ErrorInv'
    BY <1>1, <2>1, ErrorsUnchanged DEF frontVars
  <2>4. WalkInv'
    BY <1>1, <2>1, WalkUnchanged
  <2> QED
    BY <2>2, <2>3, <2>4 DEF LInv
<1>14. CASE QueryEnds
  <2>1. ParserInv'
    <3>1. unit' = unit + 1 /\ stage = "run" /\ stage' = "units" /\ UNCHANGED <<program, text>>
      BY <1>14 DEF QueryEnds, At, KeepBackground
    <3>2. unit' \in Nat \ {0}
      BY <1>2, <3>1
    <3> QED
      BY <1>1, <3>1, <3>2 DEF ParserInv, Texts
  <2>2. ErrorInv'
    BY <1>1, <1>14, ErrorsUnchanged DEF QueryEnds
  <2>3. WalkInv'
    BY <1>1, <1>14, WalkUnchanged DEF QueryEnds, KeepBackground
  <2> QED
    BY <2>1, <2>2, <2>3 DEF LInv
<1>15. CASE UNCHANGED vars
  <2>1. UNCHANGED frontVars /\ UNCHANGED bendVars
    BY <1>15 DEF vars
  <2>2. ParserInv'
    BY <1>1, <2>1 DEF ParserInv, frontVars, Texts, Unit
  <2>3. ErrorInv'
    BY <1>1, <2>1, ErrorsUnchanged DEF frontVars
  <2>4. WalkInv'
    BY <1>1, <2>1, WalkUnchanged
  <2> QED
    BY <2>2, <2>3, <2>4 DEF LInv
<1> QED
  BY <1>3, <1>4, <1>5, <1>6, <1>7, <1>8, <1>9, <1>10, <1>11, <1>12, <1>13, <1>14, <1>15 DEF LNext

-----------------------------------------------------------------------------
(* The theorems                                                             *)

\* The inductive invariant holds for every set of command lines whose trees the
\* parser can build: l2h.c, frontend.c and tree_postorder of treeutil.c.
THEOREM LInvariant == LSpec => []LInv
<1>1. LInit => LInv
  BY InitLInv
<1>2. LInv /\ [LNext]_vars => LInv'
  BY NextLInv
<1> QED
  BY <1>1, <1>2, PTL DEF LSpec

\* tree_postorder, which keeps of the way back only the node it left last, hands
\* over the nodes of every tree each once, children before their parent and
\* left before right, and ends only after the root.
THEOREM WalkIsPostorder == LSpec => []VisitsInOrder
<1>1. LInv => VisitsInOrder
  <2> SUFFICES ASSUME LInv PROVE VisitsInOrder
    OBVIOUS
  <2>1. CASE tree = NoTree
    BY <2>1 DEF LInv, WalkInv, VisitsInOrder, NoTree
  <2>2. CASE tree # NoTree
    BY <2>2 DEF LInv, WalkInv, WalkOK, VisitsInOrder
  <2> QED
    BY <2>1, <2>2
<1> QED
  BY <1>1, LInvariant, PTL

\* main_parse reports a text as failed exactly when an error was met in it or
\* in a text before it, in spite of the one counter, fend_error_count, that is
\* never set back.
THEOREM ReportsAreRight == LSpec => []ErrorsAreReported
<1>1. LInv => ErrorsAreReported
  <2> SUFFICES ASSUME LInv PROVE \A k \in DOMAIN reports :
                                  reports[k] <=> \E j \in 1 .. k : j \in broken
    BY DEF ErrorsAreReported
  <2>1. /\ reports \in Seq(BOOLEAN) /\ Len(reports) = text - 1
        /\ \A k \in 1 .. text - 1 : reports[k] <=> \E j \in 1 .. k : j \in broken
    BY DEF LInv, ErrorInv
  <2>2. DOMAIN reports = 1 .. text - 1
    BY <2>1
  <2> QED
    BY <2>1, <2>2
<1> QED
  BY <1>1, LInvariant, PTL

-----------------------------------------------------------------------------
(* The names of a query                                                     *)

\* What is registered so far is what the nodes of the query so far register.
IdsInv ==
  stage = "reduce" =>
    node \in Nat /\ \A name : name \in ids <=> \E i \in 1 .. node : name \in Registers(Unit.tree, i)

LEMMA InitIdsInv == LInit => IdsInv
BY DEF LInit, IdsInv

LEMMA NextIdsInv == IdsInv /\ [LNext]_vars => IdsInv'
<1> SUFFICES ASSUME IdsInv, [LNext]_vars, stage' = "reduce" PROVE IdsInv'
  BY DEF IdsInv
<1>1. CASE BeginQuery
  BY <1>1 DEF BeginQuery, IdsInv
<1>2. CASE Reduce
  <2>1. /\ stage = "reduce" /\ node' = node + 1 /\ Unit' = Unit
        /\ ids' = ids \cup Registers(Unit.tree, node + 1)
    BY <1>2 DEF Reduce, At, KeepBackground, Unit, Texts
  <2>2. node \in Nat /\ \A name : name \in ids <=> \E i \in 1 .. node : name \in Registers(Unit.tree, i)
    BY <2>1 DEF IdsInv
  <2>3. node' \in Nat /\ \A i : i \in 1 .. node' <=> i \in 1 .. node \/ i = node + 1
    BY <2>1, <2>2
  <2>4. \A name : name \in ids' <=> \E i \in 1 .. node' : name \in Registers(Unit.tree, i)
    BY <2>1, <2>2, <2>3
  <2>5. QED
    BY <2>1, <2>3, <2>4 DEF IdsInv
<1>3. CASE UNCHANGED vars
  BY <1>3 DEF vars, frontVars, IdsInv, Unit, Texts
<1>4. ASSUME OpenText \/ OpenFails \/ Exit \/ TextEnds \/ Comment \/ Junk \/ QueryGoesWrong
             \/ BeginWalk \/ BeginRun \/ QueryEnds
      PROVE  FALSE
  BY <1>4 DEF OpenText, OpenFails, Exit, TextEnds, Comment, AtUnit, At, Junk, QueryGoesWrong,
              SyntaxError, Report, BeginWalk, BeginRun, QueryEnds
<1>5. ASSUME Walk \/ Run PROVE FALSE
  BY <1>5 DEF Walk, Run, At, frontVars
<1>6. QED
  BY <1>1, <1>2, <1>3, <1>4, <1>5 DEF LNext

\* A query complains of a name exactly when none of its nodes so far has
\* declared it: fend_query_identifiers, which fend_query_init makes anew, stands
\* for the nodes that were made since, and for no others.
THEOREM NamesAreTheQuerys == LSpec => NamesPerQuery
<1> DEFINE Complaints ==
             stage = "reduce" /\ node' = node + 1 =>
               errors' - errors =
                 Cardinality({name \in Uses(Unit.tree, node') :
                                \A i \in 1 .. node : name \notin Registers(Unit.tree, i)})
<1>1. ASSUME LInv, IdsInv, [LNext]_vars PROVE Complaints
  <2> SUFFICES ASSUME stage = "reduce", node' = node + 1
               PROVE  errors' - errors =
                        Cardinality({name \in Uses(Unit.tree, node') :
                                       \A i \in 1 .. node : name \notin Registers(Unit.tree, i)})
    OBVIOUS
  <2>1. node \in Nat /\ \A name : name \in ids <=> \E i \in 1 .. node : name \in Registers(Unit.tree, i)
    BY <1>1 DEF IdsInv
  <2>2. node' # node
    BY <2>1
  <2>3. Reduce
    <3>1. ~UNCHANGED vars
      BY <2>2 DEF vars, frontVars
    <3>2. ~(OpenText \/ OpenFails \/ Exit \/ TextEnds \/ Comment \/ BeginQuery \/ Junk \/ QueryGoesWrong
            \/ BeginWalk \/ BeginRun \/ QueryEnds)
      BY <2>2 DEF OpenText, OpenFails, Exit, TextEnds, Comment, BeginQuery, AtUnit, At, Junk,
                  QueryGoesWrong, BeginWalk, BeginRun, QueryEnds
    <3>3. ~(Walk \/ Run)
      BY <2>2 DEF Walk, Run, frontVars
    <3>4. QED
      BY <1>1, <3>1, <3>2, <3>3 DEF LNext
  <2> DEFINE new == Uses(Unit.tree, node + 1) \ ids
             many == Cardinality(new)
  <2>4. errors' = errors + many
    BY <2>3 DEF Reduce
  <2>5. many \in Nat
    BY FewComplaints
  <2>6. errors \in Nat
    BY <1>1 DEF LInv, ErrorInv
  <2>7. new = {name \in Uses(Unit.tree, node + 1) :
                 \A i \in 1 .. node : name \notin Registers(Unit.tree, i)}
    BY <2>1
  <2> HIDE DEF many
  <2>8. errors' - errors = many
    BY <2>4, <2>5, <2>6
  <2>9. QED
    BY <2>7, <2>8 DEF many
<1>2. LSpec => [](LInv /\ IdsInv)
  <2>1. LSpec => []IdsInv
    BY InitIdsInv, NextIdsInv, PTL DEF LSpec
  <2>2. QED
    BY <2>1, LInvariant, PTL
<1>3. LInv /\ IdsInv /\ [LNext]_vars => [Complaints]_vars
  BY <1>1
<1> HIDE DEF Complaints
<1>4. LSpec => [][Complaints]_vars
  BY <1>2, <1>3, PTL DEF LSpec
<1>5. QED
  BY <1>4, PTL DEF NamesPerQuery, Complaints

-----------------------------------------------------------------------------
(* Pools and the table of hashes.                                           *)

\* Which pools are inside which.
LEMMA EnclosingPools ==
  /\ Enclosing["main"] = {"main"} /\ Enclosing["text"] = {"text", "main"}
  /\ Enclosing["query"] = {"query", "text", "main"} /\ Enclosing["list"] = {"list", "main"}
  /\ Enclosing["proc"] = {"proc", "list", "main"}
  /\ Enclosing["builtin"] = {"builtin", "proc", "list", "main"}
<1> DEFINE D == {"main", "text", "query", "list", "proc", "builtin"}
           F == [p \in D |->
                   CASE p = "main" -> {"main"}
                     [] p = "text" -> {"text", "main"}
                     [] p = "query" -> {"query", "text", "main"}
                     [] p = "list" -> {"list", "main"}
                     [] p = "proc" -> {"proc", "list", "main"}
                     [] p = "builtin" -> {"builtin", "proc", "list", "main"}]
           Step(f) == [p \in DOMAIN PoolParent |->
                         {p} \cup IF PoolParent[p] = "" THEN {} ELSE f[PoolParent[p]]]
<1>1. /\ DOMAIN PoolParent = D
      /\ PoolParent["main"] = "" /\ PoolParent["text"] = "main"
      /\ PoolParent["query"] = "text" /\ PoolParent["list"] = "main"
      /\ PoolParent["proc"] = "list" /\ PoolParent["builtin"] = "proc"
  BY PoolsAssumption DEF Pools
<1>2. F = Step(F)
  <2>1. /\ F["main"] = {"main"} /\ F["text"] = {"text", "main"}
        /\ F["query"] = {"query", "text", "main"} /\ F["list"] = {"list", "main"}
        /\ F["proc"] = {"proc", "list", "main"}
        /\ F["builtin"] = {"builtin", "proc", "list", "main"}
    OBVIOUS
  <2>2. F = [p \in D |-> F[p]]
    OBVIOUS
  <2> HIDE DEF F
  <2>3. \A p \in D : F[p] = {p} \cup IF PoolParent[p] = "" THEN {} ELSE F[PoolParent[p]]
    <3> SUFFICES ASSUME NEW p \in D
                 PROVE  F[p] = {p} \cup IF PoolParent[p] = "" THEN {} ELSE F[PoolParent[p]]
      OBVIOUS
    <3>1. CASE p = "main"
      BY <1>1, <2>1, <3>1
    <3>2. CASE p = "text"
      BY <1>1, <2>1, <3>2
    <3>3. CASE p = "query"
      BY <1>1, <2>1, <3>3
    <3>4. CASE p = "list"
      BY <1>1, <2>1, <3>4
    <3>5. CASE p = "proc"
      BY <1>1, <2>1, <3>5
    <3>6. CASE p = "builtin"
      BY <1>1, <2>1, <3>6
    <3>7. QED
      BY <3>1, <3>2, <3>3, <3>4, <3>5, <3>6
  <2>4. QED
    BY <1>1, <2>2, <2>3
<1>3. Enclosing = CHOOSE f : f = Step(f)
  BY DEF Enclosing
<1> HIDE DEF F, Step
<1>4. Enclosing = Step(Enclosing)
  BY <1>2, <1>3
<1>5. \A p \in D :
        Enclosing[p] = {p} \cup IF PoolParent[p] = "" THEN {} ELSE Enclosing[PoolParent[p]]
  <2>1. \A f : \A p \in D :
          Step(f)[p] = {p} \cup IF PoolParent[p] = "" THEN {} ELSE f[PoolParent[p]]
    BY <1>1, ZenonT(30) DEF Step
  <2>2. QED
    BY <1>4, <2>1, ZenonT(30)
<1>6. Enclosing["main"] = {"main"}
  BY <1>1, <1>5
<1>7. Enclosing["text"] = {"text", "main"} /\ Enclosing["list"] = {"list", "main"}
  BY <1>1, <1>5, <1>6
<1>8. Enclosing["query"] = {"query", "text", "main"} /\ Enclosing["proc"] = {"proc", "list", "main"}
  BY <1>1, <1>5, <1>7
<1>9. Enclosing["builtin"] = {"builtin", "proc", "list", "main"}
  BY <1>1, <1>5, <1>8
<1>10. QED
  BY <1>6, <1>7, <1>8, <1>9

\* What is left when a pool is destroyed.
LEMMA WithoutPools ==
  ASSUME pools \subseteq {"main", "text", "query", "list", "proc", "builtin"}
  PROVE  /\ Without("main") = {} /\ Without("text") = pools \ {"text", "query"}
         /\ Without("list") = pools \ {"list", "proc", "builtin"}
         /\ Without("builtin") = pools \ {"builtin"}
<1>1. \A q \in pools :
        /\ "main" \in Enclosing[q]
        /\ "text" \in Enclosing[q] <=> q \in {"text", "query"}
        /\ "list" \in Enclosing[q] <=> q \in {"list", "proc", "builtin"}
        /\ "builtin" \in Enclosing[q] <=> q = "builtin"
  BY EnclosingPools
<1>2. QED
  BY <1>1 DEF Without

\* The pools of a stage, but for that of a builtin.
StagePools ==
  CASE stage = "open" -> {"main"}
    [] stage = "units" -> {"main", "text"}
    [] stage = "reduce" -> {"main", "text", "query"}
    [] stage \in {"walk", "run"} -> {"main", "text", "query", "list", "proc"}
    [] stage = "end" -> {}

PoolInv ==
  fault = "" =>
    /\ stage \in {"open", "units", "reduce", "walk", "run", "end"}
    /\ pools = StagePools \cup IF BuiltinIsOpen THEN {"builtin"} ELSE {}
    /\ BuiltinIsOpen => stage = "run" /\ scan # -1

\* A source; and one that names only hashes there are.
IsSource(e) == e = Source(e.type, e.name, e.value)
NamesKnown(e) ==
  /\ e.type = "hash_decl" => e.value \in KnownHashes
  /\ e.type = "hash_definition" => e.name \in KnownHashes

IsSequence(s) == \E S : s \in Seq(S)

\* The stack of sources with what it has popped, and the scan of it.
StackOK ==
  /\ IsSequence(elts) /\ count \in 0 .. Len(elts)
  /\ \A i \in 1 .. Len(elts) : IsSource(elts[i]) /\ (DefinesKnown => NamesKnown(elts[i]))

ScanOK == ip \in Nat \ {0} /\ scan \in -1 .. count

PropsKnown == \A v \in DOMAIN props : props[v] \in KnownHashes

\* The table is the query's own until it first calculates something.
TableOK == DefinesKnown /\ calcs = <<>> => table = "proc" /\ PropsKnown

RunInv ==
  fault = "" =>
    /\ stage = "walk" => Idle /\ table = "proc"
    /\ stage \in {"walk", "run"} => IsSequence(list)
    /\ stage = "run" => StackOK /\ ScanOK /\ IsSequence(calcs) /\ TableOK

-----------------------------------------------------------------------------
\* The sequences in it stay sequences.

LEMMA LargerSeq ==
  ASSUME NEW S, NEW T, S \subseteq T, NEW s \in Seq(S)
  PROVE  s \in Seq(T)
OBVIOUS

LEMMA JoinedSeq ==
  ASSUME NEW s, NEW u, IsSequence(s), IsSequence(u)
  PROVE  IsSequence(s \o u)
<1>1. PICK S : s \in Seq(S)
  BY DEF IsSequence
<1>2. PICK U : u \in Seq(U)
  BY DEF IsSequence
<1>3. s \in Seq(S \cup U) /\ u \in Seq(S \cup U)
  BY <1>1, <1>2, LargerSeq
<1>4. s \o u \in Seq(S \cup U)
  BY <1>3, ConcatProperties
<1>5. QED
  BY <1>4 DEF IsSequence

\* A node appends a sequence.
LEMMA PushesSeq == ASSUME NEW l, NEW n, NEW i PROVE IsSequence(Pushes(l, n, i))
<1>1. IsSequence(<<>>)
  <2>1. <<>> \in Seq({})
    OBVIOUS
  <2>2. QED
    BY <2>1 DEF IsSequence
<1>2. ASSUME NEW a PROVE IsSequence(<<a>>)
  <2>1. <<a>> \in Seq({a})
    OBVIOUS
  <2>2. QED
    BY <2>1 DEF IsSequence
<1>3. ASSUME NEW a, NEW b PROVE IsSequence(<<a, b>>)
  <2>1. <<a, b>> \in Seq({a, b})
    OBVIOUS
  <2>2. QED
    BY <2>1 DEF IsSequence
<1>4. ASSUME NEW name PROVE IsSequence(Identifier(l, name, i))
  BY <1>2, <1>3 DEF Identifier
<1>5. QED
  BY <1>1, <1>2, <1>4 DEF Pushes

LEMMA EmitSeq ==
  ASSUME IsSequence(list), NEW i, Emit(i)
  PROVE  IsSequence(list')
<1> DEFINE n == tree[i]
           taken == Pops(list, n)
<1>1. taken \in {0, 1, 2}
  BY DEF Pops
<1>2. CASE taken > Len(list)
  BY <1>2 DEF Emit
<1>3. CASE ~(taken > Len(list))
  <2>1. list' = SubSeq(list, 1, Len(list) - taken) \o Pushes(list, n, i)
    BY <1>3 DEF Emit
  <2>2. IsSequence(SubSeq(list, 1, Len(list) - taken))
    <3> DEFINE m == Len(list) - taken
    <3>1. PICK S : list \in Seq(S)
      BY DEF IsSequence
    <3>2. m \in Nat /\ m <= Len(list) /\ Len(list) \in Nat
      BY <1>1, <1>3, <3>1
    <3> HIDE DEF m
    <3>3. \A k \in 1 .. m : list[k] \in S
      BY <3>1, <3>2, ElementOfSeq
    <3>4. SubSeq(list, 1, m) \in Seq(S)
      BY <3>2, <3>3, SubSeqProperties
    <3>5. QED
      BY <3>4 DEF m, IsSequence
  <2>3. IsSequence(Pushes(list, n, i))
    BY PushesSeq
  <2>4. QED
    BY <2>1, <2>2, <2>3, JoinedSeq
<1>4. QED
  BY <1>2, <1>3

LEMMA FunctionSeq ==
  ASSUME NEW T, NEW n \in Nat, NEW f \in [1 .. n -> T]
  PROVE  f \in Seq(T) /\ Len(f) = n
OBVIOUS

\* A source is pushed.
LEMMA PushOK ==
  ASSUME StackOK, UNCHANGED list, NEW e, Push(e), IsSource(e), DefinesKnown => NamesKnown(e)
  PROVE  StackOK' /\ count' = count + 1
<1> DEFINE n == Len(elts)
           m == IF count = n THEN n + 1 ELSE n
<1>1. PICK S : elts \in Seq(S)
  BY DEF StackOK, IsSequence
<1>2. n \in Nat /\ count \in 0 .. n /\ DOMAIN elts = 1 .. n
  BY <1>1 DEF StackOK
<1>3. m \in Nat /\ 1 .. n \cup {count + 1} = 1 .. m /\ count + 1 \in 0 .. m
  <2> HIDE DEF n
  <2>1. CASE count = n
    BY <1>2, <2>1
  <2>2. CASE count # n
    BY <1>2, <2>2
  <2>3. QED
    BY <2>1, <2>2
<1>4. /\ elts' = [i \in 1 .. n \cup {count + 1} |-> IF i = count + 1 THEN e ELSE elts[i]]
      /\ count' = count + 1
  BY DEF Push
<1>5. elts' = [i \in 1 .. m |-> IF i = count + 1 THEN e ELSE elts[i]]
  BY <1>3, <1>4
<1>6. \A i \in 1 .. m : i # count + 1 => i \in 1 .. n
  BY <1>2, <1>3
<1>7. \A i \in 1 .. n : elts[i] \in S
  BY <1>1, <1>2
<1> HIDE DEF n, m
<1>8. elts' \in Seq(S \cup {e}) /\ Len(elts') = m
  BY <1>3, <1>5, <1>6, <1>7
<1>9. \A i \in 1 .. m : elts'[i] = e \/ (i \in 1 .. n /\ elts'[i] = elts[i])
  BY <1>5, <1>6
<1>10. DefinesKnown' <=> DefinesKnown
  BY DEF DefinesKnown
<1>11. \A i \in 1 .. n : IsSource(elts[i]) /\ (DefinesKnown => NamesKnown(elts[i]))
  BY DEF StackOK, n
<1>12. \A i \in 1 .. m : IsSource(elts'[i]) /\ (DefinesKnown => NamesKnown(elts'[i]))
  BY <1>9, <1>11
<1>13. IsSequence(elts')
  BY <1>8 DEF IsSequence
<1>14. QED
  BY <1>3, <1>4, <1>8, <1>10, <1>12, <1>13 DEF StackOK

\* A source takes the place of another.
LEMMA ReplaceOK ==
  ASSUME StackOK, UNCHANGED list, NEW e, NEW j, elts' = [elts EXCEPT ![j] = e],
         IsSource(e), DefinesKnown => NamesKnown(e), count' \in 0 .. count
  PROVE  StackOK'
<1> DEFINE n == Len(elts)
<1>1. PICK S : elts \in Seq(S)
  BY DEF StackOK, IsSequence
<1>2. n \in Nat /\ count \in 0 .. n /\ DOMAIN elts = 1 .. n
  BY <1>1 DEF StackOK
<1>3. elts' = [i \in 1 .. n |-> IF i = j THEN e ELSE elts[i]]
  BY <1>2
<1>4. \A i \in 1 .. n : elts[i] \in S
  BY <1>1, <1>2
<1> HIDE DEF n
<1>5. elts' \in Seq(S \cup {e}) /\ Len(elts') = n
  <2>1. n \in Nat
    BY <1>2
  <2>2. elts' \in [1 .. n -> S \cup {e}]
    BY <1>3, <1>4
  <2>3. QED
    BY <2>1, <2>2, FunctionSeq
<1>6. \A i \in 1 .. n : elts'[i] = e \/ elts'[i] = elts[i]
  BY <1>3
<1>7. DefinesKnown' <=> DefinesKnown
  BY DEF DefinesKnown
<1>8. \A i \in 1 .. n : IsSource(elts[i]) /\ (DefinesKnown => NamesKnown(elts[i]))
  BY DEF StackOK, n
<1>9. \A i \in 1 .. n : IsSource(elts'[i]) /\ (DefinesKnown => NamesKnown(elts'[i]))
  BY <1>6, <1>8
<1>10. IsSequence(elts') /\ count' \in 0 .. n
  BY <1>2, <1>5 DEF IsSequence
<1>11. QED
  BY <1>5, <1>7, <1>9, <1>10 DEF StackOK

-----------------------------------------------------------------------------
\* The steps of a run.

\* What the invariants say of a run.
LEMMA AtRun ==
  ASSUME PoolInv, RunInv, At("run")
  PROVE  /\ fault = "" /\ stage = "run"
         /\ pools = {"main", "text", "query", "list", "proc"}
                      \cup IF BuiltinIsOpen THEN {"builtin"} ELSE {}
         /\ BuiltinIsOpen => scan # -1
         /\ IsSequence(list) /\ StackOK /\ ScanOK /\ IsSequence(calcs) /\ TableOK
BY DEF PoolInv, RunInv, At, StagePools

\* The run stops at once.
LEMMA FaultOK == ASSUME fault' # "" PROVE PoolInv' /\ RunInv'
BY DEF PoolInv, RunInv

\* A step that has nothing to do with builtins.
LEMMA StepOK ==
  ASSUME PoolInv, RunInv, At("run"), ~BuiltinIsOpen,
         UNCHANGED <<stage, list, fault, builtinVars, calcs>>, StackOK', ScanOK',
         PropsKnown /\ table = "proc" => PropsKnown'
  PROVE  PoolInv' /\ RunInv'
<1>1. fault = "" /\ stage = "run" /\ IsSequence(list) /\ IsSequence(calcs) /\ TableOK
  BY AtRun
<1>2. UNCHANGED <<pools, table, definition>>
  BY DEF builtinVars
<1>3. BuiltinIsOpen' <=> BuiltinIsOpen
  BY <1>2 DEF BuiltinIsOpen
<1>4. PoolInv'
  BY <1>1, <1>2, <1>3 DEF PoolInv, StagePools
<1>5. DefinesKnown' <=> DefinesKnown
  BY DEF DefinesKnown
<1>6. TableOK'
  BY <1>1, <1>2, <1>5 DEF TableOK
<1>7. QED
  BY <1>1, <1>4, <1>6 DEF RunInv

\* An instruction that leaves the table alone and lets the stack be in order.
LEMMA NextOK ==
  ASSUME PoolInv, RunInv, At("run"), UNCHANGED stage, scan = -1, Next1, StackOK'
  PROVE  PoolInv' /\ RunInv'
<1>1. ~BuiltinIsOpen /\ ScanOK
  BY AtRun
<1>2. ip' = ip + 1 /\ UNCHANGED <<list, fault, builtinVars, scan, props, calcs>>
  BY DEF Next1, bendVars
<1>3. count' \in Nat
  BY DEF StackOK
<1>4. ScanOK'
  BY <1>1, <1>2, <1>3 DEF ScanOK
<1>5. PropsKnown => PropsKnown'
  BY <1>2 DEF PropsKnown
<1>6. QED
  BY <1>1, <1>2, <1>4, <1>5, StepOK

LEMMA OnDefOK ==
  ASSUME PoolInv, RunInv, At("run"), UNCHANGED stage, OnDef
  PROVE  PoolInv' /\ RunInv'
<1>1. StackOK /\ ScanOK /\ IsSequence(list)
  BY AtRun
<1>2. /\ scan = -1 /\ ip <= Len(list) /\ list[ip].op = "def" /\ Next1 /\ UNCHANGED list
  BY DEF OnDef, AtInstruction, Next1, bendVars
<1> DEFINE e == Declared(list[ip].op1, list[ip].op2)
<1>3. CASE list[ip].op1 = Type("dynamic")
  <2>1. UNCHANGED <<elts, count>>
    BY <1>3 DEF OnDef
  <2>2. DefinesKnown' <=> DefinesKnown
    BY <1>2 DEF DefinesKnown
  <2>3. StackOK'
    BY <1>1, <2>1, <2>2 DEF StackOK
  <2>4. QED
    BY <1>2, <2>3, NextOK
<1>4. CASE list[ip].op1 # Type("dynamic")
  <2>1. Push(e)
    BY <1>4 DEF OnDef
  <2>2. IsSource(e)
    BY DEF Declared, Source, IsSource
  <2>3. ip \in DOMAIN list
    <3>1. PICK S : list \in Seq(S)
      BY <1>1 DEF IsSequence
    <3>2. QED
      BY <1>1, <1>2, <3>1 DEF ScanOK
  <2>4. DefinesKnown => NamesKnown(e)
    <3> SUFFICES ASSUME DefinesKnown PROVE NamesKnown(e)
      OBVIOUS
    <3>1. \/ e.type \in {"string", "file", "dir"}
          \/ e.type = "hash_decl" /\ e.value \in KnownHashes
      BY <1>2, <1>4, <2>3 DEF DefinesKnown
    <3>2. QED
      BY <3>1 DEF NamesKnown
  <2> HIDE DEF e
  <2>5. StackOK'
    BY <1>1, <1>2, <2>1, <2>2, <2>4, PushOK
  <2>6. QED
    BY <1>2, <2>5, NextOK
<1>5. QED
  BY <1>3, <1>4

\* The other instructions that push, and those that do nothing.
LEMMA OnOtherOK ==
  ASSUME PoolInv, RunInv, At("run"), UNCHANGED stage, OnString \/ OnProperty \/ OnNothing
  PROVE  PoolInv' /\ RunInv'
<1>1. StackOK
  BY AtRun
<1>2. scan = -1 /\ Next1 /\ UNCHANGED list
  BY DEF OnString, OnProperty, OnNothing, AtInstruction, Next1, bendVars
<1>3. ASSUME NEW e, Push(e), IsSource(e), NamesKnown(e)
      PROVE  StackOK'
  BY <1>1, <1>2, <1>3, PushOK
<1>4. ASSUME NEW type \in {"string_def", "prop_call"}, NEW name, NEW value
      PROVE  IsSource(Source(type, name, value)) /\ NamesKnown(Source(type, name, value))
  BY DEF IsSource, NamesKnown, Source
<1>5. CASE OnString
  BY <1>2, <1>3, <1>4, <1>5, NextOK DEF OnString
<1>6. CASE OnProperty
  BY <1>2, <1>3, <1>4, <1>6, NextOK DEF OnProperty
<1>7. CASE OnNothing
  <2>1. UNCHANGED <<elts, count>>
    BY <1>7 DEF OnNothing
  <2>2. DefinesKnown' <=> DefinesKnown
    BY <1>2 DEF DefinesKnown
  <2>3. StackOK'
    BY <1>1, <2>1, <2>2 DEF StackOK
  <2>4. QED
    BY <1>2, <2>3, NextOK
<1>8. QED
  BY <1>5, <1>6, <1>7

\* What from gives a value keeps its type, or becomes the definition of the
\* hash it declares.
LEMMA OnFromOK ==
  ASSUME PoolInv, RunInv, At("run"), UNCHANGED stage, OnFrom
  PROVE  PoolInv' /\ RunInv'
<1> DEFINE at == list[ip].op1[2]
           to == Element(at)
           from == Element(list[ip].op2[2])
           lost == at < 0 \/ (from # Null /\ (to = Null \/ count = 0))
<1>1. StackOK /\ scan = -1
  BY AtRun DEF OnFrom, AtInstruction
<1>2. CASE lost
  <2>1. fault' = "position"
    BY <1>2 DEF OnFrom, Fault
  <2>2. QED
    BY <2>1, FaultOK
<1>3. CASE ~lost /\ from = Null
  <2>1. UNCHANGED <<elts, count>> /\ Next1 /\ UNCHANGED list
    BY <1>3 DEF OnFrom, Next1, bendVars
  <2>2. DefinesKnown' <=> DefinesKnown
    BY <2>1 DEF DefinesKnown
  <2>3. StackOK'
    BY <1>1, <2>1, <2>2 DEF StackOK
  <2>4. QED
    BY <1>1, <2>1, <2>3, NextOK
<1>4. CASE ~lost /\ from # Null
  <2>1. Next1 /\ UNCHANGED list
    BY <1>4 DEF OnFrom, Next1, bendVars
  <2>2. to # Null /\ count # 0
    BY <1>4
  <2>3. at + 1 \in DOMAIN elts /\ to = elts[at + 1]
    BY <2>2 DEF Element
  <2>4. DOMAIN elts = 1 .. Len(elts) /\ Len(elts) \in Nat /\ count \in 1 .. Len(elts)
    <3>1. PICK S : elts \in Seq(S)
      BY <1>1 DEF StackOK, IsSequence
    <3>2. QED
      BY <1>1, <2>2, <3>1 DEF StackOK
  <2>5. IsSource(to) /\ (DefinesKnown => NamesKnown(to))
    BY <1>1, <2>3, <2>4 DEF StackOK
  <2>6. CASE to.type = "hash_decl"
    <3> DEFINE e == Source("hash_definition", to.value, from.value)
    <3>1. elts' = [elts EXCEPT ![count] = e] /\ count' = count
      BY <1>4, <2>6 DEF OnFrom
    <3>2. IsSource(e) /\ (DefinesKnown => NamesKnown(e))
      BY <2>5, <2>6 DEF IsSource, NamesKnown, Source
    <3>3. count' \in 0 .. count
      BY <2>4, <3>1
    <3> HIDE DEF e
    <3>4. StackOK'
      BY <1>1, <2>1, <3>1, <3>2, <3>3, ReplaceOK
    <3>5. QED
      BY <1>1, <2>1, <3>4, NextOK
  <2>7. CASE to.type # "hash_decl"
    <3> DEFINE e == [elts[at + 1] EXCEPT !.value = from.value]
    <3>1. elts' = [elts EXCEPT ![at + 1] = e] /\ count' = count - 1
      BY <1>4, <2>7 DEF OnFrom
    <3>2. e = Source(to.type, to.name, from.value)
      BY <2>3, <2>5 DEF IsSource, Source
    <3>3. IsSource(e) /\ (DefinesKnown => NamesKnown(e))
      <4>1. e.type = to.type /\ e.name = to.name
        BY <3>2 DEF Source
      <4>2. IsSource(e)
        BY <3>2 DEF Source, IsSource
      <4>3. DefinesKnown => NamesKnown(e)
        BY <2>5, <2>7, <4>1 DEF NamesKnown
      <4>4. QED
        BY <4>2, <4>3
    <3>4. count' \in 0 .. count
      BY <2>4, <3>1
    <3> HIDE DEF e
    <3>5. StackOK'
      BY <1>1, <2>1, <3>1, <3>3, <3>4, ReplaceOK
    <3>6. QED
      BY <1>1, <2>1, <3>5, NextOK
  <2>8. QED
    BY <2>6, <2>7
<1>5. QED
  BY <1>2, <1>3, <1>4

-----------------------------------------------------------------------------
\* The steps of a select.

LEMMA OnSelectOK ==
  ASSUME PoolInv, RunInv, At("run"), UNCHANGED stage, OnSelect
  PROVE  PoolInv' /\ RunInv'
<1>1. ~BuiltinIsOpen /\ StackOK /\ ScanOK
  BY AtRun DEF OnSelect, AtInstruction
<1>2. /\ scan' = count /\ props' = <<>>
      /\ UNCHANGED <<list, fault, builtinVars, ip, elts, count, calcs>>
  BY DEF OnSelect, bendVars
<1>3. DefinesKnown' <=> DefinesKnown
  BY <1>2 DEF DefinesKnown
<1>4. StackOK'
  BY <1>1, <1>2, <1>3 DEF StackOK
<1>5. ScanOK'
  <2>1. count \in Nat
    BY <1>1 DEF StackOK
  <2>2. QED
    BY <1>1, <1>2, <2>1 DEF ScanOK
<1>6. PropsKnown'
  BY <1>2 DEF PropsKnown
<1>7. QED
  BY <1>1, <1>2, <1>4, <1>5, <1>6, StepOK

LEMMA SelectEndsOK ==
  ASSUME PoolInv, RunInv, At("run"), UNCHANGED stage, SelectEnds
  PROVE  PoolInv' /\ RunInv'
<1>1. ~BuiltinIsOpen /\ StackOK /\ ScanOK
  BY AtRun DEF SelectEnds
<1>2. /\ scan' = -1 /\ ip' = ip + 1
      /\ UNCHANGED <<list, fault, builtinVars, elts, count, props, calcs>>
  BY DEF SelectEnds, bendVars
<1>3. DefinesKnown' <=> DefinesKnown
  BY <1>2 DEF DefinesKnown
<1>4. StackOK'
  BY <1>1, <1>2, <1>3 DEF StackOK
<1>5. ScanOK'
  <2>1. count \in Nat
    BY <1>1 DEF StackOK
  <2>2. QED
    BY <1>1, <1>2, <2>1 DEF ScanOK
<1>6. PropsKnown => PropsKnown'
  BY <1>2 DEF PropsKnown
<1>7. QED
  BY <1>1, <1>2, <1>4, <1>5, <1>6, StepOK

\* One step further down the stack, which only reads it.
LEMMA ScanOnOK ==
  ASSUME StackOK, ScanOK, scan > 0, ScanOn
  PROVE  StackOK' /\ ScanOK' /\ scan' # -1
<1>1. scan' = scan - 1 /\ UNCHANGED <<list, ip, elts, count>>
  BY DEF ScanOn, bendVars
<1>2. DefinesKnown' <=> DefinesKnown
  BY <1>1 DEF DefinesKnown
<1>3. StackOK'
  BY <1>1, <1>2 DEF StackOK
<1>4. count \in Nat
  BY DEF StackOK
<1>5. QED
  BY <1>1, <1>3, <1>4 DEF ScanOK

LEMMA PassOK ==
  ASSUME PoolInv, RunInv, At("run"), UNCHANGED stage, scan > 0, ~BuiltinIsOpen, Pass
  PROVE  PoolInv' /\ RunInv'
<1>1. StackOK /\ ScanOK
  BY AtRun
<1>2. ScanOn /\ UNCHANGED <<list, fault, builtinVars, props, calcs>>
  BY DEF Pass, ScanOn, bendVars
<1>3. StackOK' /\ ScanOK'
  BY <1>1, <1>2, ScanOnOK
<1>4. PropsKnown => PropsKnown'
  BY <1>2 DEF PropsKnown
<1>5. QED
  BY <1>2, <1>3, <1>4, StepOK

\* While the table is the query's own, a look up finds what there is.
LEMMA ScanPropertyOK ==
  ASSUME PoolInv, RunInv, At("run"), UNCHANGED stage, ScanProperty
  PROVE  PoolInv' /\ RunInv'
<1>1. StackOK /\ ScanOK /\ "proc" \in pools
  BY AtRun
<1>2. scan > 0 /\ ~BuiltinIsOpen
  BY DEF ScanProperty, Scanning
<1>3. CASE Fault("table")
  <2>1. fault' = "table"
    BY <1>3 DEF Fault
  <2>2. QED
    BY <2>1, FaultOK
<1>4. CASE ~Fault("table")
  <2>1. PICK found \in Lookup(Scanned.value) :
          /\ props' = [v \in DOMAIN props \cup {w \in {Scanned.name} : found} |->
                         IF found /\ v = Scanned.name THEN Scanned.value ELSE props[v]]
          /\ ScanOn /\ UNCHANGED <<fault, builtinVars, calcs>>
    BY <1>4 DEF ScanProperty
  <2>2. StackOK' /\ ScanOK'
    BY <1>1, <1>2, <2>1, ScanOnOK
  <2>3. ASSUME PropsKnown, table = "proc"
        PROVE  PropsKnown'
    <3>1. found => Scanned.value \in KnownHashes
      BY <1>1, <2>1, <2>3 DEF Lookup
    <3>2. \A v \in DOMAIN props' :
            \/ props'[v] = Scanned.value /\ found
            \/ v \in DOMAIN props /\ props'[v] = props[v]
      BY <2>1
    <3>3. QED
      BY <2>3, <3>1, <3>2 DEF PropsKnown
  <2>4. UNCHANGED list
    BY <2>1 DEF ScanOn, bendVars
  <2>5. QED
    BY <1>2, <2>1, <2>2, <2>3, <2>4, StepOK
<1>5. QED
  BY <1>3, <1>4

\* A calculation leaves the table as it was only when there is no such hash.
LEMMA CalculateOK ==
  ASSUME PoolInv, RunInv, At("run"), UNCHANGED stage, scan > 0, ~BuiltinIsOpen,
         NEW builtin, NEW hash, NEW value, Calculate(builtin, hash, value),
         DefinesKnown /\ PropsKnown => hash \in KnownHashes
  PROVE  PoolInv' /\ RunInv'
<1>1. /\ fault = "" /\ stage = "run" /\ stage' = "run"
      /\ pools = {"main", "text", "query", "list", "proc"}
      /\ IsSequence(list) /\ StackOK /\ ScanOK /\ IsSequence(calcs) /\ TableOK
  BY AtRun
<1>2. CASE value = NoValue /\ hash \in KnownHashes
  <2>1. fault' = "value"
    BY <1>2 DEF Calculate, Fault
  <2>2. QED
    BY <2>1, FaultOK
<1>3. CASE ~(value = NoValue /\ hash \in KnownHashes)
  <2> DEFINE c == [builtin |-> builtin, hash |-> hash, value |-> value]
  <2>1. /\ BuiltinInit(hash) /\ ScanOn /\ UNCHANGED <<list, fault, props>>
        /\ calcs' = IF hash \in KnownHashes THEN Append(calcs, c) ELSE calcs
    BY <1>3 DEF Calculate, ScanOn, bendVars
  <2>2. StackOK' /\ ScanOK' /\ scan' # -1
    BY <1>1, <2>1, ScanOnOK
  <2>3. DefinesKnown' <=> DefinesKnown
    BY <2>1 DEF DefinesKnown
  <2>4. CASE hash \in KnownHashes
    <3>1. pools' = pools \cup {"builtin"} /\ definition' = hash /\ hash # ""
      BY <2>1, <2>4, HashNamesAssumption DEF BuiltinInit
    <3>2. PoolInv'
      BY <1>1, <2>2, <3>1 DEF PoolInv, StagePools, BuiltinIsOpen
    <3>3. PICK S : calcs \in Seq(S)
      BY <1>1 DEF IsSequence
    <3>4. calcs \in Seq(S \cup {c}) /\ calcs' = Append(calcs, c)
      BY <2>1, <2>4, <3>3, LargerSeq
    <3> HIDE DEF c
    <3>5. calcs' \in Seq(S \cup {c}) /\ calcs' # <<>>
      BY <3>4, AppendProperties
    <3>6. IsSequence(calcs') /\ TableOK'
      BY <3>5 DEF IsSequence, TableOK
    <3>7. QED
      BY <1>1, <2>1, <2>2, <3>2, <3>6 DEF RunInv
  <2>5. CASE hash \notin KnownHashes
    <3>1. UNCHANGED <<pools, definition, calcs>>
      BY <2>1, <2>5 DEF BuiltinInit
    <3>2. PoolInv'
      BY <1>1, <2>2, <3>1 DEF PoolInv, StagePools, BuiltinIsOpen
    <3>3. ~(DefinesKnown /\ calcs = <<>>)
      BY <1>1, <2>5 DEF TableOK
    <3>4. TableOK'
      BY <2>3, <3>1, <3>3 DEF TableOK
    <3>5. QED
      BY <1>1, <2>1, <2>2, <3>1, <3>2, <3>4 DEF RunInv
  <2>6. QED
    BY <2>4, <2>5
<1>4. QED
  BY <1>2, <1>3

\* What select does with a string or a declaration, which only asks properties.
LEMMA ScanSourceOK ==
  ASSUME PoolInv, RunInv, At("run"), UNCHANGED stage,
         ScanString \/ ScanDeclaration \/ ScanDefinition \/ ScanHashDeclaration
  PROVE  PoolInv' /\ RunInv'
<1>1. scan > 0 /\ ~BuiltinIsOpen
  BY DEF ScanString, ScanDeclaration, ScanDefinition, ScanHashDeclaration, Scanning
<1>2. StackOK /\ ScanOK
  BY AtRun
<1>3. CASE Pass
  BY <1>1, <1>3, PassOK
<1>4. CASE Fault("iterator")
  <2>1. fault' = "iterator"
    BY <1>4 DEF Fault
  <2>2. QED
    BY <2>1, FaultOK
<1>5. ASSUME NEW v \in DOMAIN props, NEW builtin, Calculate(builtin, props[v], Scanned.value)
      PROVE  PoolInv' /\ RunInv'
  <2>1. PropsKnown => props[v] \in KnownHashes
    BY DEF PropsKnown
  <2>2. QED
    BY <1>1, <1>5, <2>1, CalculateOK
<1>6. ASSUME Scanned.type = "hash_definition", Calculate("hash", Scanned.name, Scanned.value)
      PROVE  PoolInv' /\ RunInv'
  <2>1. scan \in 1 .. Len(elts)
    BY <1>1, <1>2 DEF StackOK, ScanOK
  <2>2. DefinesKnown => Scanned.name \in KnownHashes
    BY <1>2, <1>6, <2>1 DEF StackOK, NamesKnown, Scanned
  <2>3. QED
    BY <1>1, <1>6, <2>2, CalculateOK
<1>7. CASE ScanString
  BY <1>3, <1>4, <1>5, <1>7 DEF ScanString
<1>8. CASE ScanDeclaration
  BY <1>3, <1>5, <1>8 DEF ScanDeclaration
<1>9. CASE ScanDefinition
  BY <1>4, <1>6, <1>9 DEF ScanDefinition, Scanning
<1>10. CASE ScanHashDeclaration
  BY <1>3, <1>10 DEF ScanHashDeclaration
<1>11. QED
  BY <1>7, <1>8, <1>9, <1>10

\* A builtin takes its pool along.
LEMMA CalculationEndsOK ==
  ASSUME PoolInv, RunInv, At("run"), UNCHANGED stage, CalculationEnds
  PROVE  PoolInv' /\ RunInv'
<1>1. /\ fault = "" /\ stage = "run" /\ BuiltinIsOpen
      /\ pools = {"main", "text", "query", "list", "proc", "builtin"}
      /\ IsSequence(list) /\ StackOK /\ ScanOK /\ IsSequence(calcs) /\ TableOK
  BY AtRun DEF CalculationEnds, BuiltinClose
<1>2. /\ pools' = Without("builtin") /\ definition' = ""
      /\ UNCHANGED <<stage, list, table, fault, ip, elts, count, scan, props, calcs>>
  BY DEF CalculationEnds, BuiltinClose, bendVars, procVars
<1>3. pools' = {"main", "text", "query", "list", "proc"}
  BY <1>1, <1>2, WithoutPools
<1>4. PoolInv'
  BY <1>1, <1>2, <1>3 DEF PoolInv, StagePools, BuiltinIsOpen
<1>5. DefinesKnown' <=> DefinesKnown
  BY <1>2 DEF DefinesKnown
<1>6. StackOK' /\ ScanOK' /\ TableOK'
  BY <1>1, <1>2, <1>5 DEF StackOK, ScanOK, TableOK, PropsKnown
<1>7. QED
  BY <1>1, <1>2, <1>4, <1>6 DEF RunInv

-----------------------------------------------------------------------------
\* The steps between runs.

LEMMA InitPools == LInit => PoolInv /\ RunInv
<1>1. LInit => PoolInv
  BY DEF LInit, PoolInv, StagePools, BuiltinIsOpen
<1>2. LInit => RunInv
  BY DEF LInit, RunInv
<1>3. QED
  BY <1>1, <1>2

\* Outside a run there is no builtin, so that only the pools of the stage matter.
LEMMA StagePoolsOK ==
  ASSUME PoolInv, fault = "", stage # "run", stage' \in {"open", "units", "reduce", "end"},
         UNCHANGED definition, pools' = StagePools'
  PROVE  PoolInv' /\ RunInv'
<1>1. ~BuiltinIsOpen
  BY DEF PoolInv
<1>2. ~BuiltinIsOpen'
  BY <1>1 DEF BuiltinIsOpen
<1>3. QED
  BY <1>2 DEF PoolInv, RunInv

LEMMA NextPools == PoolInv /\ RunInv /\ [LNext]_vars => PoolInv' /\ RunInv'
<1> SUFFICES ASSUME PoolInv, RunInv, [LNext]_vars PROVE PoolInv' /\ RunInv'
  OBVIOUS
<1>1. ASSUME fault = "", stage # "run"
      PROVE  pools = StagePools /\ pools \subseteq {"main", "text", "query", "list", "proc", "builtin"}
             /\ ~BuiltinIsOpen
  BY <1>1 DEF PoolInv, StagePools
<1>2. CASE OpenText
  <2>1. /\ fault = "" /\ stage = "open" /\ stage' = "units" /\ pools' = pools \cup {"text"}
        /\ UNCHANGED definition
    BY <1>2 DEF OpenText, At, KeepBackground
  <2>2. pools' = StagePools'
    BY <1>1, <2>1 DEF StagePools
  <2>3. QED
    BY <2>1, <2>2, StagePoolsOK
<1>3. CASE OpenFails \/ Exit
  <2>1. /\ fault = "" /\ stage = "open" /\ stage' = "end" /\ pools' = Without("main")
        /\ UNCHANGED definition
    BY <1>3 DEF OpenFails, Exit, At, KeepBackground
  <2>2. pools' = StagePools'
    BY <1>1, <2>1, WithoutPools DEF StagePools
  <2>3. QED
    BY <2>1, <2>2, StagePoolsOK
<1>4. CASE TextEnds \/ Junk \/ QueryGoesWrong
  <2>1. /\ fault = "" /\ stage \in {"units", "reduce"} /\ stage' = "open" /\ pools' = Without("text")
        /\ UNCHANGED definition
    BY <1>4 DEF TextEnds, Junk, QueryGoesWrong, SyntaxError, Report, AtUnit, At, KeepBackground
  <2>2. pools' = StagePools'
    BY <1>1, <2>1, WithoutPools DEF StagePools
  <2>3. QED
    BY <2>1, <2>2, StagePoolsOK
<1>5. CASE Comment \/ Reduce
  <2>1. /\ fault = "" /\ stage \in {"units", "reduce"} /\ UNCHANGED <<stage, pools, definition>>
    BY <1>5 DEF Comment, Reduce, AtUnit, At, KeepBackground
  <2>2. pools' = StagePools'
    BY <1>1, <2>1 DEF StagePools
  <2>3. QED
    BY <2>1, <2>2, StagePoolsOK
<1>6. CASE BeginQuery
  <2>1. /\ fault = "" /\ stage = "units" /\ stage' = "reduce" /\ pools' = pools \cup {"query"}
        /\ UNCHANGED definition
    BY <1>6 DEF BeginQuery, AtUnit, At, KeepBackground
  <2>2. pools' = StagePools'
    BY <1>1, <2>1 DEF StagePools
  <2>3. QED
    BY <2>1, <2>2, StagePoolsOK
<1>7. CASE BeginWalk
  <2>1. /\ fault = "" /\ stage = "reduce" /\ stage' = "walk" /\ pools' = pools \cup {"list", "proc"}
        /\ list' = <<>> /\ Idle' /\ table' = "proc" /\ UNCHANGED <<fault, definition>>
    BY <1>7 DEF BeginWalk, At, StartWalk, StartRun, Idle
  <2>2. PoolInv'
    BY <1>1, <2>1 DEF PoolInv, StagePools, BuiltinIsOpen
  <2>3. IsSequence(list')
    <3>1. <<>> \in Seq({})
      OBVIOUS
    <3>2. QED
      BY <2>1, <3>1 DEF IsSequence
  <2>4. QED
    BY <2>1, <2>2, <2>3 DEF RunInv
<1>8. CASE Walk
  <2>1. /\ fault = "" /\ stage = "walk" /\ (Visit \/ Descend)
        /\ UNCHANGED <<stage, pools, table, definition, ip, elts, count, scan, props, calcs>>
    BY <1>8 DEF Walk, At, frontVars, builtinVars, procVars
  <2>2. Idle /\ table = "proc" /\ IsSequence(list)
    BY <2>1 DEF RunInv
  <2>3. IsSequence(list')
    <3>1. CASE Visit
      BY <2>2, <3>1, EmitSeq DEF Visit
    <3>2. CASE Descend
      BY <2>2, <3>2 DEF Descend
    <3>3. QED
      BY <2>1, <3>1, <3>2
  <2>4. Idle'
    BY <2>1, <2>2 DEF Idle
  <2>5. PoolInv'
    BY <1>1, <2>1 DEF PoolInv, StagePools, BuiltinIsOpen
  <2>6. QED
    BY <2>1, <2>2, <2>3, <2>4, <2>5 DEF RunInv
<1>9. CASE BeginRun
  <2>1. /\ fault = "" /\ stage = "walk" /\ stage' = "run"
        /\ UNCHANGED <<list, fault, pools, table, definition, ip, elts, count, scan, props, calcs>>
    BY <1>9 DEF BeginRun, At, bendVars, builtinVars, procVars
  <2>2. Idle /\ table = "proc" /\ IsSequence(list)
    BY <2>1 DEF RunInv
  <2>3. PoolInv'
    BY <1>1, <2>1 DEF PoolInv, StagePools, BuiltinIsOpen
  <2>4. <<>> \in Seq({}) /\ Len(<<>>) = 0
    OBVIOUS
  <2>5. IsSequence(<<>>)
    BY <2>4 DEF IsSequence
  <2>6. /\ elts' = <<>> /\ count' = 0 /\ scan' = -1 /\ ip' = 1
        /\ props' = <<>> /\ calcs' = <<>> /\ table' = "proc"
    BY <2>1, <2>2 DEF Idle
  <2>7. StackOK'
    BY <2>4, <2>5, <2>6 DEF StackOK
  <2>8. ScanOK'
    BY <2>6 DEF ScanOK
  <2>9. PropsKnown'
    BY <2>6 DEF PropsKnown
  <2>10. QED
    BY <2>1, <2>2, <2>3, <2>5, <2>6, <2>7, <2>8, <2>9 DEF RunInv, TableOK
<1>10. CASE Run
  <2>1. At("run") /\ RunInstruction /\ UNCHANGED stage
    BY <1>10 DEF Run, frontVars
  <2>2. CASE OnDef \/ OnString \/ OnProperty \/ OnFrom \/ OnNothing \/ OnSelect
    BY <2>1, <2>2, OnDefOK, OnOtherOK, OnFromOK, OnSelectOK
  <2>3. CASE ScanProperty \/ SelectEnds \/ CalculationEnds
    BY <2>1, <2>3, ScanPropertyOK, SelectEndsOK, CalculationEndsOK
  <2>4. CASE ScanString \/ ScanDeclaration \/ ScanDefinition \/ ScanHashDeclaration
    BY <2>1, <2>4, ScanSourceOK
  <2>5. QED
    BY <2>1, <2>2, <2>3, <2>4 DEF RunInstruction
<1>11. CASE QueryEnds
  <2>1. /\ At("run") /\ scan = -1 /\ fault = "" /\ stage' = "units"
        /\ pools' = Without("list") \ {"query"} /\ UNCHANGED definition
    BY <1>11 DEF QueryEnds, Ran, At, KeepBackground
  <2>2. pools = {"main", "text", "query", "list", "proc"} /\ ~BuiltinIsOpen
    BY <2>1, AtRun
  <2>3. pools' = {"main", "text"}
    BY <2>1, <2>2, WithoutPools
  <2>4. PoolInv'
    BY <2>1, <2>2, <2>3 DEF PoolInv, StagePools, BuiltinIsOpen
  <2>5. QED
    BY <2>1, <2>4 DEF RunInv
<1>12. CASE UNCHANGED vars
  <2>1. UNCHANGED <<stage, fault, pools, table, definition, list, ip, elts, count, scan, props, calcs>>
    BY <1>12 DEF vars, frontVars, bendVars, builtinVars, procVars
  <2>2. PoolInv'
    BY <2>1 DEF PoolInv, StagePools, BuiltinIsOpen
  <2>3. DefinesKnown' <=> DefinesKnown
    BY <2>1 DEF DefinesKnown
  <2>4. RunInv'
    BY <2>1, <2>3 DEF RunInv, Idle, StackOK, ScanOK, TableOK, PropsKnown
  <2>5. QED
    BY <2>2, <2>4
<1>13. QED
  BY <1>2, <1>3, <1>4, <1>5, <1>6, <1>7, <1>8, <1>9, <1>10, <1>11, <1>12 DEF LNext

\* fend_query_init and fend_query_cleanup, bend_init and proc_init,
\* builtin_init and builtin_close open and close their pools in pairs, on every
\* way through them; and the table that proc_run looks up in first is the one
\* its own proc_init has built, whatever ran before.
THEOREM PoolsArePaired == LSpec => []PoolsAndTables
<1>1. PoolInv /\ RunInv => PoolsAndTables
  <2> SUFFICES ASSUME PoolInv, RunInv, fault = "" PROVE PoolsAndTables
    BY DEF PoolsAndTables
  <2>1. /\ "query" \in pools <=> stage \in {"reduce", "walk", "run"}
        /\ "text" \in pools <=> stage \in {"units", "reduce", "walk", "run"}
        /\ "proc" \in pools <=> stage \in {"walk", "run"}
        /\ "builtin" \in pools <=> BuiltinIsOpen
    BY DEF PoolInv, StagePools
  <2>2. stage = "run" /\ calcs = <<>> /\ DefinesKnown => table = "proc"
    BY DEF RunInv, TableOK
  <2>3. QED
    BY <2>1, <2>2 DEF PoolsAndTables
<1>2. LSpec => [](PoolInv /\ RunInv)
  BY InitPools, NextPools, PTL DEF LSpec
<1>3. QED
  BY <1>1, <1>2, PTL

-----------------------------------------------------------------------------
(* What the grammar says of trees                                           *)

Tree(t) == WellNumbered(t) /\ Grammatical(t)

IsName(t, i) == i \in DOMAIN t /\ t[i].type = "identifier" /\ t[i].left = 0
IsDeclaration(t, i) == i \in DOMAIN t /\ t[i].type = "identifier" /\ t[i].left # 0
IsExpression(t, i) == i \in DOMAIN t /\ Sort(t, i) \in Expressions

\* Where a sort can be below another.
LEMMA Below ==
  ASSUME NEW s \in DOMAIN Rules
  PROVE  /\ "internal_type" \in Rules[s][1] => s = "declaration"
         /\ "internal_type" \notin Rules[s][2]
         /\ "property" \notin Rules[s][1]
         /\ "property" \in Rules[s][2] => s = "unary"
         /\ "method_call" \notin Rules[s][1]
         /\ "method_call" \in Rules[s][2] => s = "unary"
         /\ "declaration" \in Rules[s][1] => s \in {"from", "join"}
         /\ "declaration" \notin Rules[s][2]
         /\ \A c \in BodyClauses \cup {"clauses"} :
              c \in Rules[s][1] \cup Rules[s][2] => s \in {"clauses", "select", "query", "join_into"}
BY SMTT(30) DEF Rules, BodyClauses, Expressions, Conditions, Nothing

SortTypes ==
  [query |-> "query", query_body |-> "query_body", continuation |-> "continuation",
   select |-> "select", clauses |-> "enum", from |-> "from", let |-> "let", where |-> "where",
   join |-> "join", in |-> "in", on |-> "on", join_into |-> "continuation",
   order_by |-> "order_by", orderings |-> "enum", ordering |-> "ordering", group |-> "group",
   or_rel |-> "or_rel", and_rel |-> "and_rel", not_rel |-> "not_rel", relation |-> "relation",
   values |-> "enum", unary |-> "unary", method_call |-> "method_call",
   declaration |-> "identifier", internal_type |-> "internal_type", name |-> "identifier",
   string |-> "string", integer |-> "integer", property |-> "property"]

\* The type of a node is that of its sort.
LEMMA TypeOfSort ==
  ASSUME NEW t, NEW p, p # 0, t[p].type \in NodeTypes
  PROVE  /\ Sort(t, p) \in DOMAIN Rules /\ t[p].type = SortTypes[Sort(t, p)]
         /\ Sort(t, p) = "name" <=> t[p].type = "identifier" /\ t[p].left = 0
         /\ Sort(t, p) = "declaration" <=> t[p].type = "identifier" /\ t[p].left # 0
         /\ t[p].type \notin {"identifier", "enum", "continuation"} => Sort(t, p) = t[p].type
<1> DEFINE type == t[p].type
           below == IF t[p].right = 0 THEN "none" ELSE t[t[p].right].type
<1>1. Sort(t, p) =
        CASE type = "identifier" -> IF t[p].left = 0 THEN "name" ELSE "declaration"
          [] type = "enum" ->
               CASE below = "ordering" -> "orderings"
                 [] below \in {"from", "let", "where", "join", "continuation", "order_by"} -> "clauses"
                 [] OTHER -> "values"
          [] type = "continuation" -> IF below = "join" THEN "join_into" ELSE "continuation"
          [] OTHER -> type
  BY DEF Sort
<1> HIDE DEF below
<1>2. CASE type = "identifier"
  BY <1>1, <1>2 DEF SortTypes, Rules
<1>3. CASE type = "enum"
  BY <1>1, <1>3 DEF SortTypes, Rules
<1>4. CASE type = "continuation"
  BY <1>1, <1>4 DEF SortTypes, Rules
<1>5. CASE type \notin {"identifier", "enum", "continuation"}
  <2>1. Sort(t, p) = type
    BY <1>1, <1>5
  <2>2. QED
    BY <2>1, <1>5 DEF SortTypes, Rules, NodeTypes
<1>6. QED
  BY <1>2, <1>3, <1>4, <1>5

LEMMA NodeTyped ==
  ASSUME NEW t, WellNumbered(t), NEW i \in DOMAIN t
  PROVE  t[i].type \in NodeTypes /\ t[i].value \in STRING /\ i # 0 /\ i \in Nat
<1>1. t \in Seq(NodeType) /\ i \in 1 .. Len(t)
  BY DEF WellNumbered
<1>2. t[i] \in NodeType
  BY <1>1, ElementOfSeq
<1>3. QED
  BY <1>1, <1>2 DEF NodeType

\* The sorts of the children of a node.
LEMMA ChildSorts ==
  ASSUME NEW t, Tree(t), NEW i \in DOMAIN t
  PROVE  LET s == Sort(t, i)
             l == t[i].left
             r == t[i].right
         IN  /\ s \in DOMAIN Rules /\ Sort(t, l) \in Rules[s][1] /\ Sort(t, r) \in Rules[s][2]
             /\ l = 0 <=> Sort(t, l) = "none"
             /\ r = 0 <=> Sort(t, r) = "none"
<1>1. /\ Sort(t, i) \in DOMAIN Rules
      /\ Sort(t, t[i].left) \in Rules[Sort(t, i)][1]
      /\ Sort(t, t[i].right) \in Rules[Sort(t, i)][2]
  BY DEF Grammatical, Tree
<1>2. Sort(t, 0) = "none"
  BY DEF Sort
<1>3. ASSUME NEW p \in DOMAIN t PROVE Sort(t, p) # "none"
  <2>1. Sort(t, p) \in DOMAIN Rules
    BY TypeOfSort, NodeTyped DEF Tree
  <2>2. QED
    BY <2>1 DEF Rules
<1>4. (t[i].left # 0 => t[i].left \in DOMAIN t) /\ (t[i].right # 0 => t[i].right \in DOMAIN t)
  BY Children DEF Tree
<1>5. QED
  BY <1>1, <1>2, <1>3, <1>4

\* The nodes the walk makes something of, with what is below them.
LEMMA LeafShape ==
  ASSUME NEW t, Tree(t), NEW i \in DOMAIN t,
         t[i].type \in {"string", "integer", "property"} \/ IsName(t, i)
  PROVE  IsLeaf(t[i])
<1>1. Sort(t, i) \in {"string", "integer", "property", "name"}
  BY TypeOfSort, NodeTyped DEF Tree, IsName
<1>2. Rules[Sort(t, i)] = <<{"none"}, {"none"}>>
  BY <1>1, SMTT(30) DEF Rules, Nothing
<1>3. QED
  BY <1>2, ChildSorts DEF IsLeaf

LEMMA TypeShape ==
  ASSUME NEW t, Tree(t), NEW i \in DOMAIN t, t[i].type = "internal_type"
  PROVE  /\ t[i].right = 0
         /\ \/ t[i].left = 0 /\ t[i].value \in {"file", "string", "dir", "dynamic"}
            \/ t[i].left = i - 1 /\ t[i].value = "user" /\ IsName(t, i - 1)
<1>1. Rules["internal_type"] = <<{"none", "name"}, {"none"}>>
  BY DEF Rules, Nothing
<1>2. Sort(t, i) = "internal_type"
  BY TypeOfSort, NodeTyped DEF Tree
<1>3. t[i].right = 0 /\ (t[i].left = 0 \/ Sort(t, t[i].left) = "name")
  BY <1>1, <1>2, ChildSorts
<1>4. t[i].left # 0 => t[i].left = i - 1 /\ t[i].left \in DOMAIN t
  BY <1>3, Children DEF Tree
<1>5. t[i].left # 0 => IsName(t, i - 1)
  BY <1>3, <1>4, TypeOfSort, NodeTyped DEF Tree, IsName
<1>6. IF t[i].left # 0 THEN t[i].value = "user" ELSE t[i].value \in {"file", "string", "dir", "dynamic"}
  BY DEF Tree, Grammatical
<1>7. QED
  BY <1>3, <1>4, <1>5, <1>6

LEMMA DeclarationShape ==
  ASSUME NEW t, Tree(t), NEW i, IsDeclaration(t, i)
  PROVE  /\ t[i].right = 0 /\ t[i].left = i - 1 /\ i - 1 \in DOMAIN t
         /\ t[i - 1].type = "internal_type"
<1>1. Rules["declaration"] = <<{"internal_type"}, {"none"}>>
  BY DEF Rules, Nothing
<1>2. Sort(t, i) = "declaration" /\ i \in DOMAIN t
  BY TypeOfSort, NodeTyped DEF Tree, IsDeclaration
<1>3. t[i].right = 0 /\ Sort(t, t[i].left) = "internal_type"
  BY <1>1, <1>2, ChildSorts
<1>4. t[i].left = i - 1 /\ t[i].left \in DOMAIN t
  BY <1>2, <1>3, Children DEF Tree, IsDeclaration
<1>5. t[i - 1].type = SortTypes["internal_type"]
  BY <1>3, <1>4, TypeOfSort, NodeTyped DEF Tree
<1>6. QED
  BY <1>3, <1>4, <1>5 DEF SortTypes

LEMMA UnaryShape ==
  ASSUME NEW t, Tree(t), NEW i \in DOMAIN t, t[i].type = "unary"
  PROVE  \/ /\ t[i].right = 0 /\ t[i].left = i - 1 /\ i - 1 \in DOMAIN t
            /\ t[i - 1].type \in {"string", "integer"} \/ IsName(t, i - 1)
         \/ /\ t[i].right = i - 1 /\ i - 1 \in DOMAIN t
            /\ t[i - 1].type \in {"property", "method_call"}
            /\ IsName(t, t[i].left) /\ t[i].left = Leftmost(t)[i - 1] - 1
<1>1. Rules["unary"] = <<{"name", "string", "integer"}, {"none", "property", "method_call"}>>
  BY DEF Rules, Nothing
<1>2. Sort(t, i) = "unary"
  BY TypeOfSort, NodeTyped DEF Tree
<1>3. /\ Sort(t, t[i].left) \in {"name", "string", "integer"}
      /\ t[i].right = 0 \/ Sort(t, t[i].right) \in {"property", "method_call"}
      /\ t[i].left # 0
  BY <1>1, <1>2, ChildSorts
<1>4. /\ t[i].left \in DOMAIN t
      /\ t[i].right = 0 => t[i].left = i - 1
      /\ t[i].right # 0 => t[i].right = i - 1 /\ i - 1 \in DOMAIN t /\ t[i].left = Leftmost(t)[i - 1] - 1
  BY <1>3, Children DEF Tree
<1>5. t[i].left # 0 /\ t[t[i].left].type = SortTypes[Sort(t, t[i].left)]
      /\ (Sort(t, t[i].left) = "name" <=> IsName(t, t[i].left))
  BY <1>3, <1>4, TypeOfSort, NodeTyped DEF Tree, IsName
<1>6. t[t[i].left].type \in {"string", "integer"} \/ IsName(t, t[i].left)
  BY <1>3, <1>5 DEF SortTypes
<1>7. t[i].right # 0 => Sort(t, t[i].left) = "name"
  BY DEF Tree, Grammatical
<1>8. t[i].right # 0 => t[i - 1].type = SortTypes[Sort(t, i - 1)]
  BY <1>4, TypeOfSort, NodeTyped DEF Tree
<1>9. t[i].right # 0 => t[i - 1].type \in {"property", "method_call"}
  BY <1>3, <1>4, <1>8 DEF SortTypes
<1>10. QED
  BY <1>4, <1>5, <1>6, <1>7, <1>9

\* From, query and the body of a query have their children where the next
\* lemmas need them.
LEMMA FromShape ==
  ASSUME NEW t, Tree(t), NEW f \in DOMAIN t, t[f].type = "from"
  PROVE  /\ t[f].right = f - 1 /\ IsExpression(t, f - 1)
         /\ t[f].left = Leftmost(t)[f - 1] - 1 /\ IsDeclaration(t, t[f].left)
<1>1. Rules["from"] = <<{"declaration"}, Expressions>> /\ "none" \notin Expressions
  BY DEF Rules, Expressions
<1>2. Sort(t, f) = "from"
  BY TypeOfSort, NodeTyped DEF Tree
<1>3. Sort(t, t[f].left) = "declaration" /\ Sort(t, t[f].right) \in Expressions
      /\ t[f].left # 0 /\ t[f].right # 0
  BY <1>1, <1>2, ChildSorts
<1>4. /\ t[f].right = f - 1 /\ f - 1 \in DOMAIN t /\ t[f].left = Leftmost(t)[f - 1] - 1
      /\ t[f].left \in DOMAIN t
  BY <1>3, Children DEF Tree
<1>5. t[t[f].left].type = "identifier" /\ t[t[f].left].left # 0
  BY <1>3, <1>4, TypeOfSort, NodeTyped DEF Tree
<1>6. QED
  BY <1>3, <1>4, <1>5 DEF IsExpression, IsDeclaration

LEMMA QueryShape ==
  ASSUME NEW t, Tree(t), NEW q \in DOMAIN t, t[q].type = "query"
  PROVE  /\ q - 1 \in DOMAIN t /\ t[q].right = q - 1 /\ t[q - 1].type = "query_body"
         /\ t[q].left \in DOMAIN t /\ t[q].left = Leftmost(t)[q - 1] - 1
         /\ t[t[q].left].type = "from"
<1>1. Rules["query"] = <<{"from"}, {"query_body"}>>
  BY DEF Rules
<1>2. Sort(t, q) = "query"
  BY TypeOfSort, NodeTyped DEF Tree
<1>3. Sort(t, t[q].left) = "from" /\ Sort(t, t[q].right) = "query_body"
      /\ t[q].left # 0 /\ t[q].right # 0
  BY <1>1, <1>2, ChildSorts
<1>4. /\ t[q].right = q - 1 /\ q - 1 \in DOMAIN t /\ t[q].left = Leftmost(t)[q - 1] - 1
      /\ t[q].left \in DOMAIN t
  BY <1>3, Children DEF Tree
<1>5. t[t[q].left].type = SortTypes["from"] /\ t[q - 1].type = SortTypes["query_body"]
  BY <1>3, <1>4, TypeOfSort, NodeTyped DEF Tree
<1>6. QED
  BY <1>3, <1>4, <1>5 DEF SortTypes

LEMMA BodyShape ==
  ASSUME NEW t, Tree(t), NEW b \in DOMAIN t, t[b].type = "query_body"
  PROVE  /\ t[b].left \in DOMAIN t /\ t[t[b].left].type = "select"
         /\ t[b].right # 0 =>
              t[b].right \in DOMAIN t /\ t[b].right = b - 1 /\ Sort(t, t[b].right) = "continuation"
         /\ t[b].right = 0 => t[b].left = b - 1
<1>1. Rules["query_body"] = <<{"select"}, {"none", "continuation"}>>
  BY DEF Rules, Nothing
<1>2. Sort(t, b) = "query_body"
  BY TypeOfSort, NodeTyped DEF Tree
<1>3. Sort(t, t[b].left) = "select" /\ t[b].left # 0
      /\ (t[b].right = 0 \/ Sort(t, t[b].right) = "continuation")
  BY <1>1, <1>2, ChildSorts
<1>4. /\ t[b].left \in DOMAIN t
      /\ t[b].right # 0 => t[b].right \in DOMAIN t /\ t[b].right = b - 1
      /\ t[b].right = 0 => t[b].left = b - 1
  BY <1>3, Children DEF Tree
<1>5. t[t[b].left].type = SortTypes["select"]
  BY <1>3, <1>4, TypeOfSort, NodeTyped DEF Tree
<1>6. QED
  BY <1>3, <1>4, <1>5 DEF SortTypes

LEMMA ContinuationShape ==
  ASSUME NEW t, Tree(t), NEW c \in DOMAIN t, Sort(t, c) = "continuation"
  PROVE  t[c].right = c - 1 /\ c - 1 \in DOMAIN t /\ t[c - 1].type = "query_body"
<1>1. Rules["continuation"] = <<{"name"}, {"query_body"}>>
  BY DEF Rules
<1>2. Sort(t, t[c].right) = "query_body" /\ t[c].right # 0
  BY <1>1, ChildSorts
<1>3. t[c].right = c - 1 /\ c - 1 \in DOMAIN t
  BY <1>2, Children DEF Tree
<1>4. t[c - 1].type = SortTypes["query_body"]
  BY <1>2, <1>3, TypeOfSort, NodeTyped DEF Tree
<1>5. QED
  BY <1>3, <1>4 DEF SortTypes

-----------------------------------------------------------------------------
(* Parents                                                                  *)

Numbers == INSTANCE Iteration WITH Base <- 0, Step <- LAMBDA k, x : 0

\* Every node of a subtree but its root has its parent in it.
LEMMA ParentExists ==
  ASSUME NEW t, WellNumbered(t), NEW r \in DOMAIN t, NEW i \in DOMAIN t, Leftmost(t)[r] <= i, i < r
  PROVE  \E q \in DOMAIN t : i < q /\ q <= r /\ i \in {t[q].left, t[q].right}
<1> DEFINE first == Leftmost(t)
           T == {q \in DOMAIN t : i < q /\ q <= r /\ first[q] <= i}
<1>1. T \subseteq Nat /\ r \in T
  BY NodeTyped
<1>2. PICK q \in T : \A p \in T : q <= p
  BY <1>1, Numbers!Least
<1>3. /\ q \in DOMAIN t /\ i < q /\ q <= r /\ first[q] <= i /\ q \in Nat /\ i \in Nat /\ r \in Nat
  BY NodeTyped
<1>4. \A p \in DOMAIN t : i < p /\ p < q => first[p] > i
  <2> SUFFICES ASSUME NEW p \in DOMAIN t, i < p, p < q, ~(first[p] > i) PROVE FALSE
    OBVIOUS
  <2>1. p \in Nat /\ first[p] \in 1 .. p
    BY NodeTyped, Children
  <2>2. p \in T
    BY <1>3, <2>1
  <2>3. QED
    BY <1>2, <1>3, <2>1, <2>2
<1> DEFINE l == t[q].left
           e == t[q].right
<1>5. /\ l \in Nat /\ e \in Nat /\ first[q] \in 1 .. q
      /\ e # 0 => e = q - 1 /\ e \in DOMAIN t /\ first[e] \in 1 .. e
      /\ e # 0 /\ l = 0 => first[q] = first[e]
      /\ e # 0 /\ l # 0 => l = first[e] - 1
      /\ e = 0 /\ l # 0 => l = q - 1
      /\ l # 0 => l \in DOMAIN t /\ l < q /\ first[q] = first[l] /\ first[l] \in 1 .. l
      /\ l = 0 /\ e = 0 => first[q] = q
  BY <1>3, Children
<1> HIDE DEF l, e, first, T
<1>6. e # 0 /\ e # i => first[e] > i
  BY <1>3, <1>4, <1>5
<1>7. l # 0 /\ l > i => first[l] > i
  BY <1>3, <1>4, <1>5
<1>8. i \in {l, e}
  <2>1. CASE e = 0
    BY <1>3, <1>5, <1>7, <2>1
  <2>2. CASE e # 0
    BY <1>3, <1>5, <1>6, <1>7, <2>2
  <2>3. QED
    BY <2>1, <2>2
<1>9. QED
  BY <1>3, <1>8 DEF l, e

\* Every node but the root has a parent.
LEMMA HasParent ==
  ASSUME NEW t, WellNumbered(t), NEW i \in DOMAIN t, i # Len(t)
  PROVE  \E q \in DOMAIN t : i < q /\ i \in {t[q].left, t[q].right}
<1>1. Len(t) \in DOMAIN t /\ Leftmost(t)[Len(t)] = 1 /\ i \in 1 .. Len(t) /\ Len(t) \in Nat
  BY DEF WellNumbered
<1>2. QED
  BY <1>1, ParentExists

\* What is above a type, a property and a method.
LEMMA AboveType ==
  ASSUME NEW t, Tree(t), NEW i \in DOMAIN t, t[i].type = "internal_type"
  PROVE  i + 1 \in DOMAIN t /\ IsDeclaration(t, i + 1) /\ t[i + 1].left = i
<1>1. Sort(t, i) = "internal_type"
  BY TypeOfSort, NodeTyped DEF Tree
<1>2. i # Len(t)
  BY <1>1 DEF Tree, Grammatical
<1>3. PICK q \in DOMAIN t : i < q /\ i \in {t[q].left, t[q].right}
  BY <1>2, HasParent DEF Tree
<1>4. Sort(t, q) = "declaration"
  BY <1>1, <1>3, ChildSorts, Below
<1>5. IsDeclaration(t, q)
  BY <1>4, TypeOfSort, NodeTyped DEF Tree, IsDeclaration
<1>6. t[q].right = 0 /\ t[q].left = q - 1
  BY <1>5, DeclarationShape
<1>7. i = q - 1 /\ q = i + 1
  BY <1>3, <1>6, NodeTyped DEF Tree
<1>8. QED
  BY <1>5, <1>6, <1>7

\* A property, or a method without arguments, comes at once behind its name,
\* for any parent it has.
LEMMA AboveCall ==
  ASSUME NEW t, Tree(t), NEW i \in DOMAIN t,
         t[i].type = "property" \/ (t[i].type = "method_call" /\ IsLeaf(t[i])),
         NEW q \in DOMAIN t, i \in {t[q].left, t[q].right}
  PROVE  q = i + 1 /\ t[q].type = "unary" /\ t[q].left = i - 1 /\ IsName(t, i - 1)
<1>1. Sort(t, i) \in {"property", "method_call"} /\ IsLeaf(t[i])
  BY TypeOfSort, NodeTyped, LeafShape DEF Tree
<1>2. Sort(t, q) = "unary" /\ t[q].right = i
  BY <1>1, ChildSorts, Below
<1>3. t[q].type = "unary"
  BY <1>2, TypeOfSort, NodeTyped DEF Tree, SortTypes
<1>4. i \in Nat /\ i # 0 /\ q \in Nat /\ Leftmost(t)[i] = i
  BY <1>1, NodeTyped, Children DEF Tree, IsLeaf
<1>5. t[q].right = q - 1 /\ IsName(t, t[q].left) /\ t[q].left = Leftmost(t)[q - 1] - 1
  BY <1>2, <1>3, <1>4, UnaryShape
<1>6. QED
  BY <1>2, <1>3, <1>4, <1>5

LEMMA CallHasParent ==
  ASSUME NEW t, Tree(t), NEW i \in DOMAIN t,
         t[i].type = "property" \/ (t[i].type = "method_call" /\ IsLeaf(t[i]))
  PROVE  /\ i # Len(t) /\ i - 1 \in DOMAIN t /\ i + 1 \in DOMAIN t /\ IsName(t, i - 1)
         /\ t[i + 1].type = "unary" /\ t[i + 1].left = i - 1
         /\ t[ParentOf(t, i)].left = i - 1
<1>1. i # Len(t)
  BY TypeOfSort, NodeTyped DEF Tree, Grammatical
<1>2. PICK q \in DOMAIN t : i < q /\ i \in {t[q].left, t[q].right}
  BY <1>1, HasParent DEF Tree
<1>3. q = i + 1 /\ t[q].type = "unary" /\ t[q].left = i - 1 /\ IsName(t, i - 1)
  BY <1>2, AboveCall
<1>4. ParentOf(t, i) \in DOMAIN t /\ i \in {t[ParentOf(t, i)].left, t[ParentOf(t, i)].right}
  BY <1>2 DEF ParentOf
<1>5. t[ParentOf(t, i)].left = i - 1
  BY <1>4, AboveCall
<1>6. QED
  BY <1>1, <1>2, <1>3, <1>5 DEF IsName

-----------------------------------------------------------------------------
(* The front and the end of a query                                         *)

\* The first from of a query, and its declaration.
HeadFrom(t) == t[Len(t)].left
Front(t) == t[HeadFrom(t)].left

LEMMA FrontShape ==
  ASSUME NEW t, Tree(t)
  PROVE  LET f == HeadFrom(t)
             d == Front(t)
         IN  /\ Len(t) \in DOMAIN t /\ Len(t) \in Nat /\ f \in DOMAIN t /\ t[f].type = "from"
             /\ IsDeclaration(t, d) /\ d \in {2, 3} /\ d < f /\ f < Len(t)
             /\ Leftmost(t)[f] = 1 /\ Leftmost(t)[f - 1] = d + 1 /\ f - 1 \in DOMAIN t
             /\ t[d - 1].type = "internal_type" /\ 1 \in DOMAIN t /\ 2 \in DOMAIN t
             /\ d = 2 => t[1].type = "internal_type" /\ t[1].left = 0
             /\ d = 3 => IsName(t, 1) /\ t[2].value = "user" /\ t[2].type = "internal_type"
<1> DEFINE N == Len(t)
           f == HeadFrom(t)
           d == Front(t)
<1>1. t \in Seq(NodeType) /\ N \in DOMAIN t /\ N \in Nat /\ Leftmost(t)[N] = 1 /\ DOMAIN t = 1 .. N
  <2>1. t \in Seq(NodeType) /\ t # <<>> /\ Leftmost(t)[N] = 1
    BY DEF Tree, WellNumbered, NoTree
  <2>2. QED
    BY <2>1
<1>2. t[N].type = "query"
  <2>1. Sort(t, N) = "query"
    BY DEF Tree, Grammatical
  <2>2. QED
    BY <1>1, <2>1, TypeOfSort, NodeTyped DEF Tree, SortTypes
<1>3. f \in DOMAIN t /\ t[f].type = "from" /\ t[N].left = f
  BY <1>1, <1>2, QueryShape DEF HeadFrom
<1>4. Leftmost(t)[f] = 1 /\ f < N /\ f \in Nat /\ f # 0
  BY <1>1, <1>3, Children, NodeTyped DEF Tree
<1>5. t[f].right = f - 1 /\ IsExpression(t, f - 1) /\ d = Leftmost(t)[f - 1] - 1 /\ IsDeclaration(t, d)
      /\ t[f].left = d
  BY <1>3, FromShape DEF Front
<1>6. d \in DOMAIN t /\ d # 0 /\ d \in Nat /\ d < f /\ Leftmost(t)[d] = 1
  BY <1>3, <1>4, <1>5, Children, NodeTyped DEF Tree, IsDeclaration
<1>7. t[d].right = 0 /\ t[d].left = d - 1 /\ d - 1 \in DOMAIN t /\ t[d - 1].type = "internal_type"
  BY <1>5, DeclarationShape
<1>8. Leftmost(t)[d - 1] = 1 /\ d - 1 # 0 /\ d - 1 \in Nat
  BY <1>6, <1>7, Children, NodeTyped DEF Tree
<1>9. /\ t[d - 1].right = 0
      /\ t[d - 1].left = 0 \/ (t[d - 1].left = d - 2 /\ t[d - 1].value = "user" /\ IsName(t, d - 2))
  <2>1. (d - 1) - 1 = d - 2
    BY <1>6
  <2>2. QED
    BY <1>7, <2>1, TypeShape
<1>10. t[d - 1].left = 0 => d = 2
  <2>1. t[d - 1].left = 0 => Leftmost(t)[d - 1] = d - 1
    BY <1>7, <1>9, Children DEF Tree
  <2>2. QED
    BY <1>6, <1>8, <2>1
<1>11. t[d - 1].left # 0 => d = 3
  <2> SUFFICES ASSUME t[d - 1].left # 0 PROVE d = 3
    OBVIOUS
  <2>1. IsName(t, d - 2) /\ d - 2 \in DOMAIN t /\ Leftmost(t)[d - 2] = 1 /\ d - 2 \in Nat
    BY <1>7, <1>8, <1>9, Children, NodeTyped DEF Tree, IsName
  <2>2. Leftmost(t)[d - 2] = d - 2
    BY <2>1, LeafShape, Children DEF Tree, IsLeaf
  <2>3. QED
    BY <1>6, <2>1, <2>2
<1>12. d \in {2, 3} /\ (d = 2 => t[1].type = "internal_type" /\ t[1].left = 0)
       /\ (d = 3 => IsName(t, 1) /\ t[2].value = "user" /\ t[2].type = "internal_type")
  <2>1. CASE t[d - 1].left = 0
    BY <1>7, <1>10, <2>1
  <2>2. CASE t[d - 1].left # 0
    BY <1>7, <1>9, <1>11, <2>2
  <2>3. QED
    BY <2>1, <2>2
<1>13. f - 1 \in DOMAIN t /\ 1 \in DOMAIN t /\ 2 \in DOMAIN t /\ Leftmost(t)[f - 1] = d + 1
  <2>1. f - 1 \in DOMAIN t
    BY <1>5 DEF IsExpression
  <2>2. Leftmost(t)[f - 1] \in Nat
    BY <2>1, Children DEF Tree
  <2>3. QED
    BY <1>1, <1>5, <1>6, <1>12, <2>1, <2>2
<1>14. QED
  BY <1>1, <1>3, <1>4, <1>5, <1>6, <1>7, <1>12, <1>13

\* Every expression comes behind a unary one.
LEMMA ExpressionHasUnary ==
  ASSUME NEW t, Tree(t), NEW e, IsExpression(t, e)
  PROVE  \E u \in DOMAIN t : u <= e /\ t[u].type = "unary"
<1> DEFINE T == {x \in DOMAIN t : IsExpression(t, x) /\ \A u \in DOMAIN t : u <= x => t[u].type # "unary"}
<1> SUFFICES ASSUME T # {} PROVE FALSE
  BY DEF IsExpression
<1>1. T \subseteq Nat
  BY NodeTyped DEF Tree
<1>2. PICK x \in T : \A y \in T : x <= y
  BY <1>1, Numbers!Least
<1>3. x \in DOMAIN t /\ x \in Nat /\ Sort(t, x) \in Expressions
      /\ \A u \in DOMAIN t : u <= x => t[u].type # "unary"
  BY <1>1, <1>2 DEF IsExpression
<1>4. \A y \in DOMAIN t : y < x => ~IsExpression(t, y)
  <2> SUFFICES ASSUME NEW y \in DOMAIN t, y < x, IsExpression(t, y) PROVE FALSE
    OBVIOUS
  <2>1. y \in Nat /\ \A u \in DOMAIN t : u \in Nat
    BY NodeTyped DEF Tree
  <2>2. \A u \in DOMAIN t : u <= y => t[u].type # "unary"
    BY <1>3, <2>1
  <2>3. y \in T
    BY <2>2
  <2>4. QED
    BY <1>2, <1>3, <2>1, <2>3
<1>5. t[x].type = SortTypes[Sort(t, x)]
  BY <1>3, TypeOfSort, NodeTyped DEF Tree
<1>6. CASE Sort(t, x) = "unary"
  BY <1>3, <1>5, <1>6 DEF SortTypes
<1>7. CASE Sort(t, x) = "values"
  <2>1. Rules["values"] = <<Expressions, Expressions>> /\ "none" \notin Expressions
    BY DEF Rules, Expressions
  <2>2. Sort(t, t[x].left) \in Expressions /\ t[x].left # 0
    BY <1>3, <1>7, <2>1, ChildSorts
  <2>3. t[x].left \in DOMAIN t /\ t[x].left < x
    BY <1>3, <2>2, Children DEF Tree
  <2>4. QED
    BY <1>4, <2>2, <2>3 DEF IsExpression
<1>8. CASE Sort(t, x) = "query"
  <2>1. t[x].type = "query"
    BY <1>5, <1>8 DEF SortTypes
  <2> DEFINE f == t[x].left
  <2>2. f \in DOMAIN t /\ t[f].type = "from" /\ f # 0 /\ f < x /\ f \in Nat
    BY <1>3, <2>1, QueryShape, Children, NodeTyped DEF Tree
  <2> HIDE DEF f
  <2>3. IsExpression(t, f - 1)
    BY <2>2, FromShape
  <2>4. f - 1 \in DOMAIN t /\ f - 1 < x
    BY <1>3, <2>2, <2>3 DEF IsExpression
  <2>5. QED
    BY <1>4, <2>3, <2>4
<1>9. QED
  BY <1>3, <1>6, <1>7, <1>8 DEF Expressions

-----------------------------------------------------------------------------
(* The list of instructions                                                 *)

\* A sequence without its last elements, and with another one.
LEMMA Kept ==
  ASSUME NEW l, IsSequence(l), NEW m \in 0 .. Len(l)
  PROVE  /\ IsSequence(SubSeq(l, 1, m)) /\ Len(SubSeq(l, 1, m)) = m /\ Len(l) \in Nat
         /\ \A k \in 1 .. m : SubSeq(l, 1, m)[k] = l[k]
<1>1. PICK S : l \in Seq(S)
  BY DEF IsSequence
<1>2. m \in Nat /\ m <= Len(l) /\ Len(l) \in Nat
  BY <1>1
<1>3. \A k \in 1 .. m : l[k] \in S
  BY <1>1, <1>2, ElementOfSeq
<1>4. /\ SubSeq(l, 1, m) \in Seq(S)
      /\ Len(SubSeq(l, 1, m)) = IF 1 <= m THEN m - 1 + 1 ELSE 0
      /\ \A k \in 1 .. m - 1 + 1 : SubSeq(l, 1, m)[k] = l[1 + k - 1]
  BY <1>2, <1>3, SubSeqProperties
<1>5. Len(SubSeq(l, 1, m)) = m /\ \A k \in 1 .. m : SubSeq(l, 1, m)[k] = l[k]
  <2> DEFINE s == SubSeq(l, 1, m)
  <2>1. Len(s) = IF 1 <= m THEN m - 1 + 1 ELSE 0
    BY <1>4
  <2>2. \A k \in 1 .. m - 1 + 1 : s[k] = l[1 + k - 1]
    BY <1>4
  <2> HIDE DEF s
  <2>3. Len(s) = m /\ \A k \in 1 .. m : s[k] = l[k]
    BY <1>2, <2>1, <2>2
  <2>4. QED
    BY <2>3 DEF s
<1>6. QED
  BY <1>2, <1>4, <1>5 DEF IsSequence

LEMMA WithLast ==
  ASSUME NEW l, IsSequence(l), NEW m \in 0 .. Len(l), NEW e
  PROVE  LET new == SubSeq(l, 1, m) \o <<e>>
         IN  /\ IsSequence(new) /\ Len(new) = m + 1
             /\ \A k \in 1 .. m : new[k] = l[k]
             /\ new[m + 1] = e
<1> DEFINE s == SubSeq(l, 1, m)
<1>1. IsSequence(s) /\ Len(s) = m /\ \A k \in 1 .. m : s[k] = l[k]
  BY Kept
<1> HIDE DEF s
<1>2. PICK S : s \in Seq(S)
  BY <1>1 DEF IsSequence
<1>3. s \in Seq(S \cup {e}) /\ e \in S \cup {e}
  BY <1>2, LargerSeq
<1>4. /\ s \o <<e>> \in Seq(S \cup {e}) /\ Len(s \o <<e>>) = Len(s) + 1
      /\ \A k \in 1 .. Len(s) : (s \o <<e>>)[k] = s[k]
      /\ (s \o <<e>>)[Len(s) + 1] = e
  BY <1>3, WithOneMore
<1>5. QED
  BY <1>1, <1>4 DEF s, IsSequence

LEMMA Unchanged ==
  ASSUME NEW l, IsSequence(l)
  PROVE  SubSeq(l, 1, Len(l)) \o <<>> = l
<1>1. PICK S : l \in Seq(S)
  BY DEF IsSequence
<1>2. Len(l) \in 0 .. Len(l) /\ Len(l) \in Nat
  BY <1>1
<1> DEFINE n == Len(l)
           s == SubSeq(l, 1, n)
<1>3. IsSequence(s) /\ Len(s) = n /\ \A k \in 1 .. n : s[k] = l[k]
  BY <1>2, Kept
<1> HIDE DEF s
<1>4. PICK T : s \in Seq(T)
  BY <1>3 DEF IsSequence
<1>5. s = l
  <2>1. s = [k \in 1 .. n |-> s[k]] /\ l = [k \in 1 .. n |-> l[k]]
    BY <1>1, <1>3, <1>4
  <2>2. QED
    BY <1>3, <2>1
<1>6. QED
  BY <1>1, <1>5, ConcatEmptySeq DEF s

\* The operand that stands for the type in node i.
TypeOperand(t, i) == IF t[i].value = "user" THEN Name(t[i - 1].value) ELSE Type(t[i].value)

Emitting ==
  {"from", "internal_type", "identifier", "property", "string", "integer", "method_call",
   "not_rel", "and_rel", "or_rel", "relation", "let", "select"}

\* What the instruction of a node says of it.
Says(t, e) ==
  LET i == e.node
      n == t[i]
  IN  /\ i \in DOMAIN t /\ n.type \in Emitting
      /\ e.op = "from" <=> n.type = "from"
      /\ e.op = "string" <=> n.type = "string"
      /\ e.op = "property" <=> n.type = "property"
      /\ e.op = "select" <=> n.type = "select"
      /\ e.op = "def" <=> IsDeclaration(t, i)
      /\ e.op = "type" <=> n.type = "internal_type"
      /\ n.type = "string" => e.op1 = Name(n.value)
      /\ n.type = "property" => e.op1 = Name(t[i - 1].value) /\ e.op2 = Name(n.value)
      /\ n.type = "internal_type" => e.op1 = TypeOperand(t, i)
      /\ IsDeclaration(t, i) => e.op1 = TypeOperand(t, i - 1) /\ e.op2 = Name(n.value)
      /\ IsName(t, i) => e.op2 = Name(n.value)

\* The instructions of the first v nodes are in the order of their nodes; those
\* of a from look for their values right in front of themselves; a type is there
\* only until its declaration comes.
Ordered(t, l, v) ==
  /\ IsSequence(l)
  /\ \A k \in 1 .. Len(l) :
       /\ Says(t, l[k]) /\ l[k].node \in 1 .. v
       /\ l[k].op = "from" => k >= 3 /\ l[k].op1 = Position(k - 3) /\ l[k].op2 = Position(k - 2)
       /\ l[k].op = "type" => l[k].node = v
       /\ \A j \in 1 .. k - 1 : l[j].node < l[k].node

\* A type or a name is at the end of the list when it is made.
Ends(t, l, v) ==
  t[v].type = "internal_type" \/ IsName(t, v) => l # <<>> /\ Back(l).node = v

\* There is something to take back: behind a unary expression there are always
\* two instructions, and a third when a name comes.
Filled(t, v) == \E u \in DOMAIN t : u <= v /\ t[u].type = "unary"

Roomy(t, l, v) ==
  /\ Len(l) >= 1
  /\ t[v].type \in {"string", "integer", "property", "method_call", "unary"} => Len(l) >= 2
  /\ IsName(t, v) \/ Filled(t, v) => Len(l) >= 2
  /\ IsName(t, v) /\ Filled(t, v) => Len(l) >= 3

\* Nothing that the processor uses is lost but to user types in the wrong place.
Lasting(t, i) ==
  t[i].type \in {"from", "string", "property", "select"} \/ IsDeclaration(t, i)

Complete(t, l, v) ==
  StrayUsers(t) = {} =>
    /\ v >= Front(t) => l[1].node = Front(t)
    /\ \A i \in 1 .. v : Lasting(t, i) => \E k \in 1 .. Len(l) : l[k].node = i

Listed(t, l, v) == Ordered(t, l, v) /\ Ends(t, l, v) /\ Roomy(t, l, v) /\ Complete(t, l, v)

\* The first node may be the name of a user type, which leaves the list as no
\* other name does.
Unnamed(t) ==
  <<Instruction("type", Type("dynamic"), None, 1),
    Instruction("def", Type("dynamic"), Name(t[1].value), 1)>>

ListOK(t, l, v) ==
  /\ v = 0 => l = <<>>
  /\ v = 1 /\ IsName(t, 1) => l = Unnamed(t)
  /\ v = Front(t) - 1 => Len(l) = 1
  /\ v >= 1 /\ ~(v = 1 /\ IsName(t, 1)) => Listed(t, l, v)

\* An instruction of the next node is appended, perhaps in the place of others.
LEMMA AppendOrdered ==
  ASSUME NEW t, NEW l, NEW v \in Nat, Ordered(t, l, v), NEW m \in 0 .. Len(l), NEW e,
         Says(t, e), e.node = v + 1,
         e.op = "from" => m >= 2 /\ e.op1 = Position(m - 2) /\ e.op2 = Position(m - 1),
         \A k \in 1 .. m : l[k].op # "type"
  PROVE  LET new == SubSeq(l, 1, m) \o <<e>>
         IN  Ordered(t, new, v + 1) /\ Len(new) = m + 1 /\ new # <<>> /\ Back(new) = e
               /\ \A k \in 1 .. m : new[k] = l[k]
<1> DEFINE new == SubSeq(l, 1, m) \o <<e>>
<1>1. IsSequence(new) /\ Len(new) = m + 1 /\ (\A k \in 1 .. m : new[k] = l[k]) /\ new[m + 1] = e
  BY WithLast DEF Ordered
<1> HIDE DEF new
<1>2. m \in Nat /\ Len(l) \in Nat
  BY Kept DEF Ordered
<1>3. ASSUME NEW k \in 1 .. m + 1
      PROVE  /\ Says(t, new[k]) /\ new[k].node \in 1 .. v + 1
             /\ new[k].op = "from" => k >= 3 /\ new[k].op1 = Position(k - 3) /\ new[k].op2 = Position(k - 2)
             /\ new[k].op = "type" => new[k].node = v + 1
             /\ \A j \in 1 .. k - 1 : new[j].node < new[k].node
  <2>1. CASE k = m + 1
    <3>1. new[k] = e /\ k - 3 = m - 2 /\ k - 2 = m - 1 /\ k - 1 = m
      BY <1>1, <1>2, <2>1
    <3>2. \A j \in 1 .. m : new[j].node < v + 1
      <4> SUFFICES ASSUME NEW j \in 1 .. m PROVE new[j].node < v + 1
        OBVIOUS
      <4>1. new[j] = l[j] /\ j \in 1 .. Len(l)
        BY <1>1, <1>2
      <4>2. l[j].node \in 1 .. v
        BY <4>1 DEF Ordered
      <4>3. QED
        BY <4>1, <4>2
    <3>3. e.op = "from" => k >= 3
      BY <1>2, <2>1
    <3>4. QED
      BY <3>1, <3>2, <3>3
  <2>2. CASE k # m + 1
    <3>1. k \in 1 .. m /\ k \in 1 .. Len(l) /\ new[k] = l[k]
      BY <1>1, <1>2, <2>2
    <3>2. \A j \in 1 .. k - 1 : new[j] = l[j]
      BY <1>1, <1>2, <3>1
    <3>3. /\ Says(t, l[k]) /\ l[k].node \in 1 .. v
          /\ l[k].op = "from" => k >= 3 /\ l[k].op1 = Position(k - 3) /\ l[k].op2 = Position(k - 2)
          /\ \A j \in 1 .. k - 1 : l[j].node < l[k].node
      BY <3>1 DEF Ordered
    <3>4. l[k].node \in 1 .. v + 1
      BY <3>3
    <3>5. QED
      BY <3>1, <3>2, <3>3, <3>4
  <2>3. QED
    BY <2>1, <2>2
<1>4. Ordered(t, new, v + 1)
  BY <1>1, <1>3 DEF Ordered
<1>5. new # <<>> /\ Back(new) = e
  BY <1>1, <1>2 DEF Back
<1>6. QED
  BY <1>1, <1>4, <1>5 DEF new

\* A node that changes nothing.
LEMMA SameOrdered ==
  ASSUME NEW t, NEW l, NEW v \in Nat, Ordered(t, l, v), \A k \in 1 .. Len(l) : l[k].op # "type"
  PROVE  Ordered(t, l, v + 1)
<1>1. \A k \in 1 .. Len(l) : l[k].node \in 1 .. v => l[k].node \in 1 .. v + 1
  OBVIOUS
<1>2. QED
  BY <1>1 DEF Ordered

\* A type is there only when it is that of the next node.
LEMMA TypeLast ==
  ASSUME NEW t, Tree(t), NEW l, NEW v \in 1 .. Len(t), Ordered(t, l, v), v + 1 \in DOMAIN t,
         NEW k \in 1 .. Len(l), l[k].op = "type"
  PROVE  k = Len(l) /\ IsDeclaration(t, v + 1)
<1>1. l[k].node = v /\ t[v].type = "internal_type" /\ v \in DOMAIN t
  BY DEF Ordered, Says
<1>2. IsDeclaration(t, v + 1)
  BY <1>1, AboveType
<1>3. Len(l) \in Nat /\ Len(l) \in 0 .. Len(l)
  BY Kept DEF Ordered, IsSequence
<1>4. ~(k < Len(l))
  <2> SUFFICES ASSUME k < Len(l) PROVE FALSE
    OBVIOUS
  <2>1. k \in 1 .. Len(l) - 1 /\ Len(l) \in 1 .. Len(l)
    BY <1>3
  <2>2. l[k].node < l[Len(l)].node /\ l[Len(l)].node \in 1 .. v
    BY <2>1 DEF Ordered
  <2>3. QED
    BY <1>1, <2>2
<1>5. QED
  BY <1>2, <1>3, <1>4

\* The nodes whose instructions a node may take back: its left child and its
\* left sibling.
Own(t, v) == {t[v].left} \cup IF v = Len(t) THEN {} ELSE {t[ParentOf(t, v)].left}

\* What a list needs to have room for what comes behind node v.
Room(t, v) ==
  IF (IsName(t, v) /\ Filled(t, v)) THEN 3
  ELSE IF IsName(t, v) \/ Filled(t, v)
            \/ t[v].type \in {"string", "integer", "property", "method_call", "unary"} THEN 2
  ELSE 1

LEMMA RoomyIs ==
  ASSUME NEW t, NEW l, Len(l) \in Nat, NEW v
  PROVE  Roomy(t, l, v) <=> Len(l) >= Room(t, v)
BY DEF Roomy, Room

\* The next node's instruction is appended, behind m others.
LEMMA PushListed ==
  ASSUME NEW t, Tree(t), NEW l, NEW v \in Nat, v + 1 \in DOMAIN t, v + 1 # Front(t) \/ Len(l) = 1,
         Listed(t, l, v), NEW m \in 0 .. Len(l), NEW e,
         Says(t, e), e.node = v + 1, v + 1 >= Front(t),
         e.op = "from" => m >= 2 /\ e.op1 = Position(m - 2) /\ e.op2 = Position(m - 1),
         \A k \in 1 .. m : l[k].op # "type",
         \A k \in m + 1 .. Len(l) : StrayUsers(t) = {} => ~Lasting(t, l[k].node),
         v + 1 = Front(t) => m = 0,
         m + 1 >= Room(t, v + 1)
  PROVE  Listed(t, SubSeq(l, 1, m) \o <<e>>, v + 1)
<1> DEFINE new == SubSeq(l, 1, m) \o <<e>>
<1>1. /\ Ordered(t, new, v + 1) /\ Len(new) = m + 1 /\ new # <<>> /\ Back(new) = e
      /\ \A k \in 1 .. m : new[k] = l[k]
  BY AppendOrdered DEF Listed
<1> HIDE DEF new
<1>2. m \in Nat /\ Len(l) \in Nat /\ new[m + 1] = e
  BY <1>1, Kept DEF Listed, Ordered, Back
<1>3. Ends(t, new, v + 1)
  BY <1>1 DEF Ends
<1>4. Roomy(t, new, v + 1)
  BY <1>1, <1>2, RoomyIs
<1>5. ASSUME StrayUsers(t) = {}
      PROVE  /\ new[1].node = Front(t)
             /\ \A i \in 1 .. v + 1 : Lasting(t, i) => \E k \in 1 .. Len(new) : new[k].node = i
  <2>1. ASSUME v + 1 # Front(t) PROVE v >= Front(t) /\ l[1].node = Front(t) /\ m >= 1
    <3>1. Front(t) \in Nat
      BY FrontShape
    <3>2. v >= Front(t)
      BY <2>1, <3>1
    <3>3. l[1].node = Front(t) /\ Len(l) >= 1
      BY <1>5, <3>2 DEF Listed, Complete, Roomy
    <3>4. Lasting(t, l[1].node)
      BY <3>3, FrontShape DEF Lasting
    <3>5. m >= 1
      <4> SUFFICES ASSUME m = 0 PROVE FALSE
        BY <1>2
      <4>1. 1 \in m + 1 .. Len(l)
        BY <1>2, <3>3
      <4>2. QED
        BY <1>5, <3>4, <4>1
    <3>6. QED
      BY <3>2, <3>3, <3>5
  <2>2. new[1].node = Front(t)
    <3>1. CASE v + 1 = Front(t)
      BY <1>2, <3>1
    <3>2. CASE v + 1 # Front(t)
      BY <1>1, <1>2, <2>1, <3>2
    <3>3. QED
      BY <3>1, <3>2
  <2>3. ASSUME NEW i \in 1 .. v + 1, Lasting(t, i) PROVE \E k \in 1 .. Len(new) : new[k].node = i
    <3>1. CASE i = v + 1
      BY <1>1, <1>2, <3>1
    <3>2. CASE i # v + 1
      <4>1. i \in 1 .. v
        BY <3>2
      <4>2. PICK k \in 1 .. Len(l) : l[k].node = i
        BY <1>5, <2>3, <4>1 DEF Listed, Complete
      <4>3. k \in 1 .. m
        <5> SUFFICES ASSUME k \notin 1 .. m PROVE FALSE
          OBVIOUS
        <5>1. k \in m + 1 .. Len(l)
          BY <1>2
        <5>2. QED
          BY <1>5, <2>3, <4>2, <5>1
      <4>4. QED
        BY <1>1, <1>2, <4>2, <4>3
    <3>3. QED
      BY <3>1, <3>2
  <2>4. QED
    BY <2>2, <2>3
<1>6. Complete(t, new, v + 1)
  BY <1>5 DEF Complete
<1>7. QED
  BY <1>1, <1>3, <1>4, <1>6 DEF Listed, new

\* A node without an instruction.
LEMMA SkipListed ==
  ASSUME NEW t, Tree(t), NEW l, NEW v \in 1 .. Len(t), v + 1 \in DOMAIN t, Listed(t, l, v),
         t[v + 1].type \notin Emitting, Len(l) >= Room(t, v + 1)
  PROVE  Listed(t, l, v + 1)
<1>1. ~IsDeclaration(t, v + 1) /\ ~IsName(t, v + 1) /\ t[v + 1].type # "internal_type"
      /\ ~Lasting(t, v + 1)
  BY DEF IsDeclaration, IsName, Emitting, Lasting
<1>2. \A k \in 1 .. Len(l) : l[k].op # "type"
  BY <1>1, TypeLast DEF Listed
<1>3. Ordered(t, l, v + 1)
  BY <1>2, SameOrdered DEF Listed
<1>4. Ends(t, l, v + 1)
  BY <1>1 DEF Ends
<1>5. Len(l) \in Nat
  BY Kept DEF Listed, Ordered, IsSequence
<1>6. Roomy(t, l, v + 1)
  BY <1>5, RoomyIs
<1>7. Complete(t, l, v + 1)
  <2> SUFFICES ASSUME StrayUsers(t) = {}
               PROVE  /\ v + 1 >= Front(t) => l[1].node = Front(t)
                      /\ \A i \in 1 .. v + 1 : Lasting(t, i) => \E k \in 1 .. Len(l) : l[k].node = i
    BY DEF Complete
  <2>1. /\ v >= Front(t) => l[1].node = Front(t)
        /\ \A i \in 1 .. v : Lasting(t, i) => \E k \in 1 .. Len(l) : l[k].node = i
    BY DEF Listed, Complete
  <2>2. v + 1 # Front(t) /\ Front(t) \in Nat
    BY <1>1, FrontShape
  <2>3. v + 1 >= Front(t) => v >= Front(t)
    BY <2>2
  <2>4. \A i \in 1 .. v + 1 : i = v + 1 \/ i \in 1 .. v
    OBVIOUS
  <2>5. QED
    BY <1>1, <2>1, <2>3, <2>4
<1>8. QED
  BY <1>3, <1>4, <1>6, <1>7 DEF Listed

\* How the room grows.
LEMMA NextRoom ==
  ASSUME NEW t, Tree(t), NEW v \in 1 .. Len(t), v + 1 \in DOMAIN t
  PROVE  /\ Room(t, v) \in 1 .. 3 /\ Room(t, v + 1) \in 1 .. 3
         /\ Room(t, v + 1) <= Room(t, v) + 1
         /\ IsName(t, v) => Room(t, v) >= 2
         /\ Filled(t, v) => Room(t, v) >= 2
         /\ Filled(t, v) /\ IsName(t, v) => Room(t, v) >= 3
         /\ t[v + 1].type = "unary" => Room(t, v) >= 2
         /\ ~IsName(t, v + 1) => Room(t, v + 1) <= 2
         /\ ~IsName(t, v + 1) /\ t[v + 1].type \notin {"string", "integer", "property", "method_call", "unary"}
              /\ ~Filled(t, v) => Room(t, v + 1) = 1
<1>1. Filled(t, v + 1) => Filled(t, v) \/ t[v + 1].type = "unary"
  <2> SUFFICES ASSUME NEW u \in DOMAIN t, u <= v + 1, t[u].type = "unary", t[v + 1].type # "unary"
               PROVE  Filled(t, v)
    BY DEF Filled
  <2>1. u \in Nat /\ u # v + 1
    BY NodeTyped DEF Tree
  <2>2. u <= v
    BY <2>1
  <2>3. QED
    BY <2>2 DEF Filled
<1>2. IsName(t, v + 1) => t[v + 1].type = "identifier"
  BY DEF IsName
<1>3. ASSUME t[v + 1].type = "unary" PROVE Room(t, v) >= 2
  <2>1. (v + 1) - 1 = v
    OBVIOUS
  <2>2. t[v].type \in {"string", "integer", "property", "method_call"} \/ IsName(t, v)
    BY <1>3, <2>1, UnaryShape
  <2>3. QED
    BY <2>2 DEF Room
<1>4. QED
  BY <1>1, <1>2, <1>3 DEF Room

\* What the next node finds: its own kind decides how many instructions there
\* are and which of them it takes back.
LEMMA BeforeNext ==
  ASSUME NEW t, Tree(t), NEW l, NEW v \in 1 .. Len(t), v + 1 \in DOMAIN t, Listed(t, l, v)
  PROVE  /\ Len(l) \in Nat /\ Len(l) >= Room(t, v) /\ Len(l) >= 1 /\ l # <<>> /\ Len(l) \in 1 .. Len(l)
         /\ EndsWith(l, "type") <=> IsDeclaration(t, v + 1)
         /\ IsDeclaration(t, v + 1) =>
              /\ t[v].type = "internal_type" /\ l[Len(l)].node = v /\ l[Len(l)].op1 = TypeOperand(t, v)
              /\ t[v + 1].left = v
         /\ ~IsDeclaration(t, v + 1) => \A k \in 1 .. Len(l) : l[k].op # "type"
         /\ \A k \in 1 .. Len(l) - 1 : l[k].op # "type"
         /\ IsName(t, v) => l[Len(l)].node = v /\ l[Len(l)].op2 = Name(t[v].value)
<1>1. Len(l) \in Nat /\ Roomy(t, l, v) /\ IsSequence(l)
  BY Kept DEF Listed, Ordered, IsSequence
<1>2. Len(l) >= 1 /\ l # <<>> /\ Len(l) \in 1 .. Len(l) /\ Len(l) >= Room(t, v)
  <2>1. Len(l) >= 1
    BY <1>1 DEF Roomy
  <2>2. l # <<>>
    BY <2>1
  <2>3. QED
    BY <1>1, <2>1, <2>2, RoomyIs
<1>3. ASSUME NEW k \in 1 .. Len(l), l[k].op = "type" PROVE k = Len(l) /\ IsDeclaration(t, v + 1)
  BY <1>3, TypeLast DEF Listed
<1>4. ASSUME IsDeclaration(t, v + 1)
      PROVE  t[v].type = "internal_type" /\ t[v + 1].left = v /\ l[Len(l)].node = v
  <2>1. (v + 1) - 1 = v
    OBVIOUS
  <2>2. t[v].type = "internal_type" /\ t[v + 1].left = v
    BY <1>4, <2>1, DeclarationShape
  <2>3. QED
    BY <2>2 DEF Listed, Ends, Back
<1>5. Says(t, l[Len(l)])
  BY <1>2 DEF Listed, Ordered
<1>6. IsDeclaration(t, v + 1) => l[Len(l)].op = "type" /\ l[Len(l)].op1 = TypeOperand(t, v)
  BY <1>4, <1>5 DEF Says
<1>7. EndsWith(l, "type") <=> IsDeclaration(t, v + 1)
  BY <1>2, <1>3, <1>6 DEF EndsWith, Back
<1>8. \A k \in 1 .. Len(l) - 1 : l[k].op # "type"
  <2> SUFFICES ASSUME NEW k \in 1 .. Len(l) - 1, l[k].op = "type" PROVE FALSE
    OBVIOUS
  <2>1. k \in 1 .. Len(l) /\ k # Len(l)
    BY <1>1
  <2>2. QED
    BY <1>3, <2>1
<1>9. IsName(t, v) => l[Len(l)].node = v /\ l[Len(l)].op2 = Name(t[v].value)
  <2>1. IsName(t, v) => l[Len(l)].node = v
    BY DEF Listed, Ends, Back
  <2>2. QED
    BY <1>5, <2>1 DEF Says
<1>10. QED
  BY <1>1, <1>2, <1>3, <1>4, <1>6, <1>7, <1>8, <1>9

\* A node that takes nothing back.
LEMMA AppendStep ==
  ASSUME NEW t, Tree(t), NEW l, NEW v \in 1 .. Len(t), v + 1 \in DOMAIN t, v >= Front(t) - 1,
         Listed(t, l, v), ~IsDeclaration(t, v + 1),
         NEW e, Says(t, e), e.node = v + 1,
         e.op = "from" => Len(l) >= 2 /\ e.op1 = Position(Len(l) - 2) /\ e.op2 = Position(Len(l) - 1)
  PROVE  Listed(t, SubSeq(l, 1, Len(l)) \o <<e>>, v + 1)
<1>1. /\ Len(l) \in Nat /\ Len(l) >= Room(t, v) /\ Len(l) \in 0 .. Len(l)
      /\ \A k \in 1 .. Len(l) : l[k].op # "type"
  BY BeforeNext
<1>2. v + 1 # Front(t) /\ v + 1 >= Front(t) /\ v \in Nat
  BY FrontShape
<1>3. Len(l) + 1 >= Room(t, v + 1)
  BY <1>1, NextRoom
<1>4. Len(l) + 1 .. Len(l) = {}
  BY <1>1
<1> DEFINE m == Len(l)
<1>5. /\ m \in 0 .. Len(l) /\ m + 1 >= Room(t, v + 1) /\ m + 1 .. Len(l) = {}
      /\ \A k \in 1 .. m : l[k].op # "type"
      /\ e.op = "from" => m >= 2 /\ e.op1 = Position(m - 2) /\ e.op2 = Position(m - 1)
  BY <1>1, <1>3, <1>4
<1> HIDE DEF m
<1>6. Listed(t, SubSeq(l, 1, m) \o <<e>>, v + 1)
  BY <1>2, <1>5, PushListed
<1>7. QED
  BY <1>6 DEF m

\* A node that takes back the instruction of the node in front of it.
LEMMA ReplaceStep ==
  ASSUME NEW t, Tree(t), NEW l, NEW v \in 1 .. Len(t), v + 1 \in DOMAIN t, v >= Front(t) - 1,
         Listed(t, l, v), l[Len(l)].node = v, ~Lasting(t, v), v + 1 = Front(t) => Len(l) = 1,
         Len(l) >= Room(t, v + 1),
         NEW e, Says(t, e), e.node = v + 1, e.op # "from"
  PROVE  Listed(t, SubSeq(l, 1, Len(l) - 1) \o <<e>>, v + 1)
<1>1. /\ Len(l) \in Nat /\ Len(l) >= 1 /\ \A k \in 1 .. Len(l) - 1 : l[k].op # "type"
  BY BeforeNext
<1>2. v + 1 >= Front(t) /\ v \in Nat
  BY FrontShape
<1> DEFINE m == Len(l) - 1
<1>3. /\ m \in 0 .. Len(l) /\ m + 1 = Len(l) /\ (v + 1 = Front(t) => m = 0)
      /\ (v + 1 # Front(t) \/ Len(l) = 1) /\ m + 1 >= Room(t, v + 1)
      /\ \A k \in 1 .. m : l[k].op # "type"
  BY <1>1
<1>4. \A k \in m + 1 .. Len(l) : ~Lasting(t, l[k].node)
  BY <1>3
<1> HIDE DEF m
<1>5. Listed(t, SubSeq(l, 1, m) \o <<e>>, v + 1)
  BY <1>2, <1>3, <1>4, PushListed
<1>6. QED
  BY <1>5 DEF m

\* The list stays in order, from the declaration of the first from on.
LEMMA NextListed ==
  ASSUME NEW t, Tree(t), NEW l, NEW v \in 1 .. Len(t), v + 1 \in DOMAIN t, v >= Front(t) - 1,
         Listed(t, l, v), v + 1 = Front(t) => Len(l) = 1
  PROVE  LET taken == Pops(l, t[v + 1])
         IN  /\ taken \in Nat /\ taken <= Len(l)
             /\ Listed(t, SubSeq(l, 1, Len(l) - taken) \o Pushes(l, t[v + 1], v + 1), v + 1)
             /\ StrayUsers(t) = {} =>
                  \A k \in Len(l) - taken + 1 .. Len(l) : l[k].node \in Own(t, v + 1)
<1> DEFINE n == t[v + 1]
           taken == Pops(l, n)
<1>1. /\ Len(l) \in Nat /\ Len(l) >= Room(t, v) /\ Len(l) >= 1 /\ l # <<>> /\ Len(l) \in 1 .. Len(l)
      /\ EndsWith(l, "type") <=> IsDeclaration(t, v + 1)
      /\ IsDeclaration(t, v + 1) =>
           /\ t[v].type = "internal_type" /\ l[Len(l)].node = v /\ l[Len(l)].op1 = TypeOperand(t, v)
           /\ t[v + 1].left = v
      /\ ~IsDeclaration(t, v + 1) => \A k \in 1 .. Len(l) : l[k].op # "type"
      /\ \A k \in 1 .. Len(l) - 1 : l[k].op # "type"
      /\ IsName(t, v) => l[Len(l)].node = v /\ l[Len(l)].op2 = Name(t[v].value)
  BY BeforeNext
<1>2. (v + 1) - 1 = v /\ v \in Nat /\ v + 1 # 0
  OBVIOUS
<1>3. n.type = "identifier" <=> IsDeclaration(t, v + 1) \/ IsName(t, v + 1)
  BY DEF IsDeclaration, IsName
<1>4. n.type \in NodeTypes
  BY NodeTyped DEF Tree
\* A property, or a method without arguments.
<1>5. CASE n.type = "property" \/ (n.type = "method_call" /\ IsLeaf(n))
  <2>1. /\ v + 1 # Len(t) /\ IsName(t, v) /\ t[ParentOf(t, v + 1)].left = v
    BY <1>2, <1>5, CallHasParent
  <2>2. taken = 1
    BY <1>5 DEF Pops
  <2>3. ~IsDeclaration(t, v + 1) /\ ~IsDeclaration(t, v) /\ ~Lasting(t, v) /\ ~IsName(t, v + 1)
    BY <1>5, <2>1 DEF IsDeclaration, IsName, Lasting
  <2>4. v + 1 # Front(t) /\ l[Len(l)].node = v /\ l[Len(l)].op2 = Name(t[v].value)
    BY <1>1, <2>1, <2>3, FrontShape
  <2>5. Len(l) >= Room(t, v + 1)
    BY <1>1, <2>1, <2>3, NextRoom
  <2>6. PICK e : Pushes(l, n, v + 1) = <<e>> /\ Says(t, e) /\ e.node = v + 1 /\ e.op # "from"
    <3>1. CASE n.type = "property"
      <4> DEFINE e == Instruction("property", Back(l).op2, Name(n.value), v + 1)
      <4>1. Pushes(l, n, v + 1) = <<e>>
        BY <3>1 DEF Pushes
      <4>2. e.op = "property" /\ e.op1 = Name(t[v].value) /\ e.op2 = Name(n.value) /\ e.node = v + 1
        BY <2>4 DEF Instruction, Back
      <4>3. Says(t, e)
        BY <1>2, <2>3, <3>1, <4>2 DEF Says, Emitting
      <4>4. QED
        BY <4>1, <4>2, <4>3
    <3>2. CASE n.type = "method_call" /\ IsLeaf(n)
      <4> DEFINE e == Instruction("call", Back(l).op2, Name(n.value), v + 1)
      <4>1. Pushes(l, n, v + 1) = <<e>>
        BY <3>2 DEF Pushes
      <4>2. e.op = "call" /\ e.node = v + 1
        BY DEF Instruction
      <4>3. Says(t, e)
        BY <2>3, <3>2, <4>2 DEF Says, Emitting
      <4>4. QED
        BY <4>1, <4>2, <4>3
    <3>3. QED
      BY <1>5, <3>1, <3>2
  <2>7. Listed(t, SubSeq(l, 1, Len(l) - 1) \o <<e>>, v + 1)
    BY <2>3, <2>4, <2>5, <2>6, ReplaceStep
  <2>8. \A k \in Len(l) - 1 + 1 .. Len(l) : l[k].node = v
    BY <1>1, <2>4
  <2>9. v \in Own(t, v + 1)
    BY <2>1 DEF Own
  <2>10. QED
    BY <1>1, <2>2, <2>6, <2>7, <2>8, <2>9
\* A declaration.
<1>6. CASE IsDeclaration(t, v + 1)
  <2>1. n.type = "identifier" /\ n.left # 0
    BY <1>6 DEF IsDeclaration
  <2>2. taken = 1
    BY <1>1, <1>6, <2>1 DEF Pops
  <2> DEFINE e == Instruction("def", Back(l).op1, Name(n.value), v + 1)
  <2>3. Pushes(l, n, v + 1) = <<e>>
    <3>1. Identifier(l, n.value, v + 1) = <<e>>
      <4>1. l # <<>> /\ EndsWith(l, "type")
        BY <1>1, <1>6
      <4>2. ~EndsWith(l, "select")
        BY <4>1 DEF EndsWith
      <4>3. QED
        BY <4>1, <4>2 DEF Identifier
    <3>2. Pushes(l, n, v + 1) = Identifier(l, n.value, v + 1)
      BY <2>1 DEF Pushes
    <3>3. QED
      BY <3>1, <3>2
  <2>4. e.op = "def" /\ e.op1 = TypeOperand(t, v) /\ e.op2 = Name(n.value) /\ e.node = v + 1
    BY <1>1, <1>6 DEF Instruction, Back
  <2>5. Says(t, e)
    BY <1>2, <1>6, <2>1, <2>4 DEF Says, Emitting, IsName
  <2>6. ~Lasting(t, v)
    BY <1>1, <1>6 DEF Lasting, IsDeclaration
  <2>7. Len(l) >= Room(t, v + 1)
    <3>1. ~IsName(t, v + 1)
      BY <2>1 DEF IsName
    <3>2. QED
      BY <1>1, <2>1, <3>1, NextRoom
  <2> HIDE DEF e
  <2>8. Listed(t, SubSeq(l, 1, Len(l) - 1) \o <<e>>, v + 1)
    BY <1>1, <1>6, <2>4, <2>5, <2>6, <2>7, ReplaceStep
  <2>9. \A k \in Len(l) - 1 + 1 .. Len(l) : l[k].node = v
    BY <1>1, <1>6
  <2>10. v \in Own(t, v + 1)
    BY <1>1, <1>6 DEF Own
  <2>11. QED
    BY <1>1, <2>2, <2>3, <2>8, <2>9, <2>10
\* A user type that is not in the first from.
<1>7. CASE n.type = "internal_type" /\ n.value = "user"
  <2>1. taken = 2
    BY <1>7 DEF Pops
  <2>2. IsName(t, v)
    BY <1>2, <1>7, TypeShape
  <2>3. v + 1 # Front(t) /\ ~IsDeclaration(t, v + 1) /\ ~IsName(t, v + 1)
    BY <1>7, FrontShape DEF IsDeclaration, IsName
  <2>4. v >= Front(t) /\ Front(t) \in {2, 3} /\ v + 1 >= Front(t)
    BY <2>3, FrontShape
  <2>5. v + 1 \in StrayUsers(t)
    <3>1. v + 1 # 2
      BY <2>4
    <3>2. QED
      BY <1>7, <3>1 DEF StrayUsers, NodesOf
  <2>6. Len(l) >= 2 /\ Len(l) - 1 >= Room(t, v + 1)
    BY <1>1, <1>7, <2>2, <2>3, NextRoom
  <2> DEFINE e == Instruction("type", Back(l).op2, None, v + 1)
             m == Len(l) - 2
  <2>7. Pushes(l, n, v + 1) = <<e>>
    BY <1>7 DEF Pushes
  <2>8. e.op = "type" /\ e.op1 = TypeOperand(t, v + 1) /\ e.node = v + 1
    BY <1>1, <1>2, <1>7, <2>2 DEF Instruction, Back, TypeOperand
  <2>9. Says(t, e)
    BY <1>7, <2>3, <2>8 DEF Says, Emitting
  <2>10. /\ m \in 0 .. Len(l) /\ m + 1 >= Room(t, v + 1)
         /\ \A k \in 1 .. m : l[k].op # "type"
    BY <1>1, <2>3, <2>6
  <2>11. SubSeq(l, 1, Len(l) - taken) \o Pushes(l, n, v + 1) = SubSeq(l, 1, m) \o <<e>>
    BY <2>1, <2>7
  <2> HIDE DEF e, m
  <2>12. Listed(t, SubSeq(l, 1, m) \o <<e>>, v + 1)
    BY <1>2, <2>3, <2>4, <2>5, <2>8, <2>9, <2>10, PushListed
  <2>13. taken \in Nat /\ taken <= Len(l)
    BY <2>1, <2>6
  <2>14. Listed(t, SubSeq(l, 1, Len(l) - taken) \o Pushes(l, n, v + 1), v + 1)
    BY <2>11, <2>12
  <2>15. StrayUsers(t) # {}
    BY <2>5
  <2>16. QED
    BY <2>13, <2>14, <2>15
\* The nodes that take nothing back.
<1>8. CASE /\ n.type \in Emitting /\ ~IsDeclaration(t, v + 1) /\ n.type # "property"
           /\ ~(n.type = "method_call" /\ IsLeaf(n)) /\ ~(n.type = "internal_type" /\ n.value = "user")
  <2>1. taken = 0
    <3>1. n.type = "identifier" => ~EndsWith(l, "type")
      BY <1>1, <1>8
    <3>2. QED
      BY <1>8, <3>1 DEF Pops
  <2>2. PICK e : /\ Pushes(l, n, v + 1) = <<e>> /\ Says(t, e) /\ e.node = v + 1
                 /\ e.op = "from" => Len(l) >= 2 /\ e.op1 = Position(Len(l) - 2) /\ e.op2 = Position(Len(l) - 1)
    <3>1. CASE n.type = "from"
      <4> DEFINE e == Instruction("from", Position(Len(l) - 2), Position(Len(l) - 1), v + 1)
      <4>1. Pushes(l, n, v + 1) = <<e>>
        BY <3>1 DEF Pushes
      <4>2. /\ e.op = "from" /\ e.node = v + 1
            /\ e.op1 = Position(Len(l) - 2) /\ e.op2 = Position(Len(l) - 1)
        BY DEF Instruction
      <4>3. Says(t, e)
        BY <1>8, <3>1, <4>2 DEF Says, Emitting, IsName
      <4>4. Filled(t, v)
        <5>1. IsExpression(t, v)
          BY <1>2, <3>1, FromShape
        <5>2. QED
          BY <5>1, ExpressionHasUnary DEF Filled
      <4>5. Len(l) >= 2
        BY <1>1, <4>4, NextRoom
      <4>6. QED
        BY <4>1, <4>2, <4>3, <4>5
    <3>2. CASE n.type = "internal_type"
      <4> DEFINE e == Instruction("type", Type(n.value), None, v + 1)
      <4>1. Pushes(l, n, v + 1) = <<e>>
        BY <1>8, <3>2 DEF Pushes
      <4>2. e.op = "type" /\ e.op1 = TypeOperand(t, v + 1) /\ e.node = v + 1
        BY <1>8, <3>2 DEF Instruction, TypeOperand
      <4>3. Says(t, e)
        BY <1>8, <3>2, <4>2 DEF Says, Emitting, IsName
      <4>4. QED
        BY <4>1, <4>2, <4>3
    <3>3. CASE n.type \in {"string", "integer"}
      <4> DEFINE e == Instruction(n.type, Name(n.value), None, v + 1)
      <4>1. Pushes(l, n, v + 1) = <<e>>
        BY <3>3 DEF Pushes
      <4>2. e.op = n.type /\ e.op1 = Name(n.value) /\ e.node = v + 1
        BY DEF Instruction
      <4>3. Says(t, e)
        BY <1>8, <3>3, <4>2 DEF Says, Emitting, IsName
      <4>4. QED
        BY <3>3, <4>1, <4>2, <4>3
    <3>4. CASE n.type = "identifier"
      <4>1. IsName(t, v + 1) /\ ~EndsWith(l, "type")
        BY <1>1, <1>3, <1>8, <3>4
      <4>2. PICK op, op1 :
              op \in {"into", "usage"}
                /\ Pushes(l, n, v + 1) = <<Instruction(op, op1, Name(n.value), v + 1)>>
        <5>1. Pushes(l, n, v + 1) = Identifier(l, n.value, v + 1)
          BY <3>4 DEF Pushes
        <5>2. CASE EndsWith(l, "select")
          BY <1>1, <4>1, <5>1, <5>2 DEF Identifier
        <5>3. CASE ~EndsWith(l, "select")
          BY <1>1, <4>1, <5>1, <5>3 DEF Identifier
        <5>4. QED
          BY <5>2, <5>3
      <4> DEFINE e == Instruction(op, op1, Name(n.value), v + 1)
      <4>3. e.op = op /\ e.op2 = Name(n.value) /\ e.node = v + 1
        BY DEF Instruction
      <4>4. Says(t, e)
        BY <1>8, <3>4, <4>2, <4>3 DEF Says, Emitting
      <4>5. QED
        BY <4>2, <4>3, <4>4
    <3>5. CASE n.type = "method_call"
      <4> DEFINE e == Instruction("call", Name(""), Name(n.value), v + 1)
      <4>1. Pushes(l, n, v + 1) = <<e>>
        BY <1>8, <3>5 DEF Pushes
      <4>2. e.op = "call" /\ e.node = v + 1
        BY DEF Instruction
      <4>3. Says(t, e)
        BY <1>8, <3>5, <4>2 DEF Says, Emitting, IsName
      <4>4. QED
        BY <4>1, <4>2, <4>3
    <3>6. CASE n.type \in {"not_rel", "and_rel", "or_rel", "relation", "let", "select"}
      <4> DEFINE e == Instruction(n.type, None, None, v + 1)
      <4>1. Pushes(l, n, v + 1) = <<e>>
        BY <3>6 DEF Pushes
      <4>2. e.op = n.type /\ e.node = v + 1
        BY DEF Instruction
      <4>3. Says(t, e)
        BY <1>8, <3>6, <4>2 DEF Says, Emitting, IsName
      <4>4. QED
        BY <3>6, <4>1, <4>2, <4>3
    <3>7. QED
      BY <1>8, <3>1, <3>2, <3>3, <3>4, <3>5, <3>6 DEF Emitting
  <2>3. Listed(t, SubSeq(l, 1, Len(l)) \o <<e>>, v + 1)
    BY <1>8, <2>2, AppendStep
  <2>4. Len(l) - 0 = Len(l) /\ Len(l) + 1 .. Len(l) = {}
    BY <1>1
  <2>5. QED
    BY <1>1, <2>1, <2>2, <2>3, <2>4
\* The nodes without an instruction.
<1>9. CASE n.type \notin Emitting
  <2>1. taken = 0 /\ Pushes(l, n, v + 1) = <<>>
    BY <1>9 DEF Pops, Pushes, Emitting
  <2>2. Len(l) >= Room(t, v + 1)
    <3>1. ~IsName(t, v + 1)
      BY <1>9 DEF IsName, Emitting
    <3>2. n.type \notin {"string", "integer", "property", "method_call"}
      BY <1>9 DEF Emitting
    <3>3. QED
      BY <1>1, <3>1, <3>2, NextRoom
  <2>3. Listed(t, l, v + 1)
    BY <1>9, <2>2, SkipListed
  <2>4. SubSeq(l, 1, Len(l) - taken) \o Pushes(l, n, v + 1) = l
    <3>1. IsSequence(l) /\ Len(l) - 0 = Len(l)
      BY <1>1 DEF Listed, Ordered
    <3>2. QED
      BY <2>1, <3>1, Unchanged
  <2>5. taken \in Nat /\ taken <= Len(l) /\ Len(l) - taken + 1 .. Len(l) = {}
    BY <1>1, <2>1
  <2>6. Listed(t, SubSeq(l, 1, Len(l) - taken) \o Pushes(l, n, v + 1), v + 1)
    BY <2>3, <2>4
  <2>7. QED
    BY <2>5, <2>6
<1>10. QED
  BY <1>5, <1>6, <1>7, <1>8, <1>9

\* What is appended to nothing.
LEMMA NothingElse ==
  ASSUME NEW l, IsSequence(l), NEW s, s = <<>>
  PROVE  s \o l = l
<1>1. PICK S : l \in Seq(S)
  BY DEF IsSequence
<1>2. QED
  BY <1>1, ConcatEmptySeq

LEMMA OneIsSequence == ASSUME NEW e PROVE IsSequence(<<e>>)
<1>1. <<e>> \in Seq({e})
  OBVIOUS
<1>2. QED
  BY <1>1 DEF IsSequence

\* The list begins with the type of the first from.
LEMMA FirstType ==
  ASSUME NEW t, Tree(t), NEW v, v = Front(t) - 1, NEW e, Says(t, e), e.node = v, e.op = "type"
  PROVE  Listed(t, <<e>>, v) /\ Len(<<e>>) = 1
<1>1. /\ v \in {1, 2} /\ v \in DOMAIN t /\ t[v].type = "internal_type" /\ Front(t) = v + 1
      /\ \A i \in 1 .. v : t[i].type \in {"internal_type", "identifier"}
      /\ \A i \in 1 .. v : ~IsDeclaration(t, i)
  <2> DEFINE d == Front(t)
  <2>1. /\ d \in {2, 3} /\ t[d - 1].type = "internal_type" /\ 1 \in DOMAIN t /\ 2 \in DOMAIN t
        /\ d = 3 => IsName(t, 1)
    BY FrontShape
  <2>2. CASE d = 2
    <3>1. v = 1 /\ t[1].type = "internal_type"
      BY <2>1, <2>2
    <3>2. QED
      BY <2>1, <2>2, <3>1 DEF IsDeclaration
  <2>3. CASE d = 3
    <3>1. v = 2 /\ t[2].type = "internal_type" /\ t[1].type = "identifier" /\ t[1].left = 0
      BY <2>1, <2>3 DEF IsName
    <3>2. \A i \in 1 .. 2 : i = 1 \/ i = 2
      OBVIOUS
    <3>3. QED
      BY <2>1, <2>3, <3>1, <3>2 DEF IsDeclaration
  <2>4. QED
    BY <2>1, <2>2, <2>3
<1> DEFINE l == <<e>>
<1>2. Len(l) = 1 /\ l # <<>> /\ l[1] = e /\ Back(l) = e /\ IsSequence(l)
  <2>1. l \in Seq({e})
    OBVIOUS
  <2>2. QED
    BY <2>1 DEF Back, IsSequence
<1> HIDE DEF l
<1>3. Ordered(t, l, v)
  <2> SUFFICES ASSUME NEW k \in 1 .. Len(l)
               PROVE  /\ Says(t, l[k]) /\ l[k].node \in 1 .. v
                      /\ l[k].op = "from" => k >= 3 /\ l[k].op1 = Position(k - 3) /\ l[k].op2 = Position(k - 2)
                      /\ l[k].op = "type" => l[k].node = v
                      /\ \A j \in 1 .. k - 1 : l[j].node < l[k].node
    BY <1>2 DEF Ordered
  <2>1. k = 1 /\ v \in 1 .. v
    BY <1>1, <1>2
  <2>2. QED
    BY <1>2, <2>1
<1>4. Ends(t, l, v)
  BY <1>2 DEF Ends
<1>5. ~Filled(t, v) /\ ~IsName(t, v)
  <2>1. ~IsName(t, v)
    BY <1>1 DEF IsName
  <2>2. ASSUME NEW u \in DOMAIN t, u <= v PROVE t[u].type # "unary"
    <3>1. u \in Nat /\ u # 0
      BY NodeTyped DEF Tree
    <3>2. u \in 1 .. v
      BY <1>1, <2>2, <3>1
    <3>3. QED
      BY <1>1, <3>2
  <2>3. QED
    BY <2>1, <2>2 DEF Filled
<1>6. Roomy(t, l, v)
  BY <1>1, <1>2, <1>5 DEF Roomy
<1>7. Complete(t, l, v)
  <2>1. \A i \in 1 .. v : ~Lasting(t, i)
    BY <1>1 DEF Lasting
  <2>2. ~(v >= Front(t))
    BY <1>1
  <2>3. QED
    BY <2>1, <2>2 DEF Complete
<1>8. QED
  BY <1>2, <1>3, <1>4, <1>6, <1>7 DEF Listed, l

LEMMA FirstStep ==
  ASSUME NEW t, Tree(t)
  PROVE  LET n == t[1]
         IN  Pops(<<>>, n) = 0 /\ ListOK(t, SubSeq(<<>>, 1, Len(<<>>) - 0) \o Pushes(<<>>, n, 1), 1)
<1> DEFINE n == t[1]
           d == Front(t)
<1>1. /\ d \in {2, 3} /\ 1 \in DOMAIN t
      /\ d = 2 => n.type = "internal_type" /\ n.left = 0
      /\ d = 3 => IsName(t, 1)
  BY FrontShape
<1>2. ~EndsWith(<<>>, "type")
  BY DEF EndsWith
<1>3. ASSUME NEW e PROVE SubSeq(<<>>, 1, Len(<<>>) - 0) \o <<e>> = <<e>>
  <2>1. SubSeq(<<>>, 1, Len(<<>>) - 0) = <<>>
    OBVIOUS
  <2>2. QED
    BY <2>1, OneIsSequence, NothingElse
<1>4. CASE d = 2
  <2>1. n.type = "internal_type" /\ n.value \in {"file", "string", "dir", "dynamic"}
    BY <1>1, <1>4, TypeShape, NodeTyped DEF Tree, IsName
  <2> DEFINE e == Instruction("type", Type(n.value), None, 1)
  <2>2. Pops(<<>>, n) = 0 /\ Pushes(<<>>, n, 1) = <<e>>
    BY <2>1 DEF Pops, Pushes
  <2>3. e.op = "type" /\ e.op1 = TypeOperand(t, 1) /\ e.node = 1
    BY <2>1 DEF Instruction, TypeOperand
  <2>4. Says(t, e) /\ ~IsName(t, 1)
    BY <1>1, <2>1, <2>3 DEF Says, Emitting, IsDeclaration, IsName
  <2> HIDE DEF e
  <2>5. Listed(t, <<e>>, 1) /\ Len(<<e>>) = 1
    BY <1>4, <2>3, <2>4, FirstType
  <2>6. ListOK(t, <<e>>, 1)
    BY <2>4, <2>5 DEF ListOK
  <2>7. QED
    BY <1>3, <2>2, <2>6
<1>5. CASE d = 3
  <2>1. IsName(t, 1) /\ n.type = "identifier"
    BY <1>1, <1>5 DEF IsName
  <2>2. Pops(<<>>, n) = 0
    BY <1>2, <2>1 DEF Pops
  <2>3. Pushes(<<>>, n, 1) = Unnamed(t)
    <3>1. Identifier(<<>>, n.value, 1) = Unnamed(t)
      BY <1>2 DEF Identifier, Unnamed, EndsWith
    <3>2. QED
      BY <2>1, <3>1 DEF Pushes
  <2>4. SubSeq(<<>>, 1, Len(<<>>) - 0) \o Unnamed(t) = Unnamed(t)
    <3>1. SubSeq(<<>>, 1, Len(<<>>) - 0) = <<>>
      OBVIOUS
    <3>2. IsSequence(Unnamed(t))
      <4> DEFINE a == Instruction("type", Type("dynamic"), None, 1)
                 b == Instruction("def", Type("dynamic"), Name(t[1].value), 1)
      <4>1. <<a, b>> \in Seq({a, b})
        OBVIOUS
      <4>2. QED
        BY <4>1 DEF Unnamed, IsSequence
    <3>3. QED
      BY <3>1, <3>2, NothingElse
  <2>5. ListOK(t, Unnamed(t), 1)
    BY <1>5, <2>1 DEF ListOK
  <2>6. QED
    BY <2>2, <2>3, <2>4, <2>5
<1>6. QED
  BY <1>1, <1>4, <1>5

LEMMA SecondStep ==
  ASSUME NEW t, Tree(t), IsName(t, 1)
  PROVE  LET n == t[2]
             l == Unnamed(t)
         IN  /\ Pops(l, n) = 2 /\ Len(l) = 2
             /\ ListOK(t, SubSeq(l, 1, Len(l) - 2) \o Pushes(l, n, 2), 2)
             /\ \A k \in Len(l) - 2 + 1 .. Len(l) : l[k].node \in Own(t, 2)
<1> DEFINE n == t[2]
           l == Unnamed(t)
<1>1. /\ Front(t) = 3 /\ 2 \in DOMAIN t /\ n.type = "internal_type" /\ n.value = "user"
  BY FrontShape DEF IsName
<1>2. Pops(l, n) = 2
  BY <1>1 DEF Pops
<1>3. /\ Len(l) = 2 /\ Back(l).op2 = Name(t[1].value)
      /\ l[1].node = 1 /\ l[2].node = 1
  BY DEF Unnamed, Back, Instruction
<1> DEFINE e == Instruction("type", Back(l).op2, None, 2)
<1>4. Pushes(l, n, 2) = <<e>>
  BY <1>1 DEF Pushes
<1>5. e.op = "type" /\ e.op1 = TypeOperand(t, 2) /\ e.node = 2
  BY <1>1, <1>3 DEF Instruction, TypeOperand
<1>6. Says(t, e)
  BY <1>1, <1>5 DEF Says, Emitting, IsDeclaration, IsName
<1>7. SubSeq(l, 1, Len(l) - 2) \o <<e>> = <<e>>
  <2>1. SubSeq(l, 1, Len(l) - 2) = <<>>
    BY <1>3
  <2>2. QED
    BY <2>1, OneIsSequence, NothingElse
<1> HIDE DEF e
<1>8. Listed(t, <<e>>, 2) /\ Len(<<e>>) = 1
  BY <1>1, <1>5, <1>6, FirstType
<1>9. ListOK(t, <<e>>, 2)
  BY <1>8 DEF ListOK
<1>10. 1 \in Own(t, 2)
  <2>1. t[2].left = 2 - 1
    BY <1>1, TypeShape, NodeTyped DEF Tree
  <2>2. QED
    BY <2>1 DEF Own
<1>11. \A k \in Len(l) - 2 + 1 .. Len(l) : l[k].node \in Own(t, 2)
  <2>1. \A k \in Len(l) - 2 + 1 .. Len(l) : k = 1 \/ k = 2
    BY <1>3
  <2>2. QED
    BY <1>3, <1>10, <2>1
<1> HIDE DEF l
<1>12. QED
  BY <1>2, <1>3, <1>4, <1>7, <1>9, <1>11 DEF l

\* The next node finds what it takes back, and keeps the list in order.
LEMMA NextList ==
  ASSUME NEW t, Tree(t), NEW l, NEW v \in Nat, v + 1 \in DOMAIN t, ListOK(t, l, v)
  PROVE  LET taken == Pops(l, t[v + 1])
         IN  /\ taken <= Len(l)
             /\ ListOK(t, SubSeq(l, 1, Len(l) - taken) \o Pushes(l, t[v + 1], v + 1), v + 1)
             /\ StrayUsers(t) = {} =>
                  \A k \in Len(l) - taken + 1 .. Len(l) : l[k].node \in Own(t, v + 1)
<1>1. CASE v = 0
  <2>1. l = <<>> /\ v + 1 = 1
    BY <1>1 DEF ListOK
  <2>2. Pops(l, t[v + 1]) = 0 /\ ListOK(t, SubSeq(l, 1, Len(l) - 0) \o Pushes(l, t[v + 1], v + 1), v + 1)
    BY <2>1, FirstStep
  <2>3. Len(l) = 0 /\ Len(l) - 0 + 1 .. Len(l) = {}
    BY <2>1
  <2>4. QED
    BY <2>2, <2>3
<1>2. CASE v = 1 /\ IsName(t, 1)
  <2>1. l = Unnamed(t) /\ v + 1 = 2
    BY <1>2 DEF ListOK
  <2>2. /\ Pops(l, t[v + 1]) = 2 /\ Len(l) = 2
        /\ ListOK(t, SubSeq(l, 1, Len(l) - 2) \o Pushes(l, t[v + 1], v + 1), v + 1)
        /\ \A k \in Len(l) - 2 + 1 .. Len(l) : l[k].node \in Own(t, v + 1)
    BY <1>2, <2>1, SecondStep
  <2>3. QED
    BY <2>2
<1>3. CASE v >= 1 /\ ~(v = 1 /\ IsName(t, 1))
  <2>1. Listed(t, l, v) /\ (v = Front(t) - 1 => Len(l) = 1)
    BY <1>3 DEF ListOK
  <2>2. v \in 1 .. Len(t)
    <3>1. v + 1 \in 1 .. Len(t)
      BY Children DEF Tree
    <3>2. QED
      BY <1>3, <3>1
  <2>3. v >= Front(t) - 1 /\ Front(t) \in {2, 3}
    BY <1>3, FrontShape
  <2>4. v + 1 = Front(t) => Len(l) = 1
    BY <2>1, <2>3
  <2> DEFINE taken == Pops(l, t[v + 1])
             new == SubSeq(l, 1, Len(l) - taken) \o Pushes(l, t[v + 1], v + 1)
  <2>5. /\ taken \in Nat /\ taken <= Len(l) /\ Listed(t, new, v + 1)
        /\ StrayUsers(t) = {} => \A k \in Len(l) - taken + 1 .. Len(l) : l[k].node \in Own(t, v + 1)
    BY <2>1, <2>2, <2>3, <2>4, NextListed
  <2> HIDE DEF new, taken
  <2>6. ListOK(t, new, v + 1)
    <3>1. v + 1 # Front(t) - 1 /\ v + 1 >= 2
      BY <1>3, <2>3
    <3>2. QED
      BY <2>5, <3>1 DEF ListOK
  <2>7. QED
    BY <2>5, <2>6 DEF new, taken
<1>4. QED
  BY <1>1, <1>2, <1>3

\* The faults of a run.
LEMMA RunFaults ==
  RunInstruction => fault' \in {fault, "position", "value", "table", "iterator"}
<1>1. ASSUME NEW f PROVE Fault(f) => fault' = f
  BY DEF Fault
<1>2. Next1 => fault' = fault
  BY DEF Next1
<1>3. Pass => fault' = fault
  BY DEF Pass
<1>4. ASSUME NEW b, NEW h, NEW v PROVE Calculate(b, h, v) => fault' \in {fault, "value"}
  BY <1>1 DEF Calculate
<1>5. OnDef \/ OnString \/ OnProperty \/ OnNothing => fault' = fault
  BY <1>2 DEF OnDef, OnString, OnProperty, OnNothing
<1>6. OnFrom => fault' \in {fault, "position"}
  BY <1>1, <1>2 DEF OnFrom
<1>7. OnSelect \/ SelectEnds \/ CalculationEnds => fault' = fault
  BY DEF OnSelect, SelectEnds, CalculationEnds
<1>8. ScanProperty => fault' \in {fault, "table"}
  BY <1>1 DEF ScanProperty
<1>9. ScanString \/ ScanDeclaration \/ ScanDefinition \/ ScanHashDeclaration
        => fault' \in {fault, "value", "iterator"}
  BY <1>1, <1>3, <1>4 DEF ScanString, ScanDeclaration, ScanDefinition, ScanHashDeclaration
<1>10. QED
  BY <1>5, <1>6, <1>7, <1>8, <1>9 DEF RunInstruction

\* The list is in order while the walk goes on and when the run begins.
ListInv ==
  /\ fault # "pop"
  /\ tree # NoTree => Tree(tree) /\ ListOK(tree, list, Len(visits))
  /\ stage \in {"walk", "run"} => tree # NoTree
  /\ stage = "run" => stack = <<>>

LEMMA InitListInv == LInit => ListInv
BY DEF LInit, ListInv, NoWalk, NoTree

\* A node is handed over.
LEMMA VisitList ==
  ASSUME LInv, ListInv, stage = "walk", Visit
  PROVE  LET v == Back(stack)
             taken == Pops(list, tree[v])
         IN  /\ v = Len(visits) + 1 /\ Len(visits') = v /\ v \in DOMAIN tree
             /\ taken <= Len(list) /\ fault' = fault
             /\ ListOK(tree, list', v)
             /\ StrayUsers(tree) = {} =>
                  \A k \in Len(list) - taken + 1 .. Len(list) : list[k].node \in Own(tree, v)
<1> DEFINE v == Len(visits)
<1>1. /\ stack # <<>>
      /\ last \in {tree[Back(stack)].left, tree[Back(stack)].right} \/ IsLeaf(tree[Back(stack)])
      /\ visits' = Append(visits, Back(stack)) /\ Emit(Back(stack))
  BY DEF Visit, Finished
<1>2. /\ tree # NoTree /\ v \in Nat /\ visits = [k \in 1 .. v |-> k]
      /\ WellNumbered(tree) /\ WalkOK(tree, stack, last, v)
  BY DEF LInv, WalkInv, ListInv
<1>3. Back(stack) = v + 1
  BY <1>1, <1>2, VisitOK
<1>4. v + 1 \in DOMAIN tree
  BY <1>1, <1>2, <1>3, WithoutTop DEF WalkOK, Back
<1>5. Len(visits') = v + 1
  <2>1. visits \in Seq(Nat)
    BY <1>2
  <2>2. QED
    BY <1>1, <1>2, <1>3, <2>1, AppendProperties
<1>6. Tree(tree) /\ ListOK(tree, list, v)
  BY <1>2 DEF ListInv
<1> DEFINE taken == Pops(list, tree[v + 1])
<1>7. /\ taken <= Len(list)
      /\ ListOK(tree, SubSeq(list, 1, Len(list) - taken) \o Pushes(list, tree[v + 1], v + 1), v + 1)
      /\ StrayUsers(tree) = {} =>
           \A k \in Len(list) - taken + 1 .. Len(list) : list[k].node \in Own(tree, v + 1)
  BY <1>2, <1>4, <1>6, NextList
<1>8. taken \in {0, 1, 2}
  BY DEF Pops
<1>9. Len(list) \in Nat
  <2>1. CASE v = 0
    BY <1>6, <2>1 DEF ListOK
  <2>2. CASE v = 1 /\ IsName(tree, 1)
    BY <1>6, <2>2 DEF ListOK, Unnamed
  <2>3. CASE v >= 1 /\ ~(v = 1 /\ IsName(tree, 1))
    BY <1>6, <2>3, Kept DEF ListOK, Listed, Ordered, IsSequence
  <2>4. QED
    BY <1>2, <2>1, <2>2, <2>3
<1>10. ~(taken > Len(list))
  BY <1>7, <1>8, <1>9
<1>11. list' = SubSeq(list, 1, Len(list) - taken) \o Pushes(list, tree[v + 1], v + 1) /\ fault' = fault
  BY <1>1, <1>3, <1>10 DEF Emit
<1> HIDE DEF taken, v
<1>12. QED
  BY <1>3, <1>4, <1>5, <1>7, <1>8, <1>11 DEF taken, v

LEMMA NextListInv == LInv /\ ListInv /\ [LNext]_vars => ListInv'
<1> SUFFICES ASSUME LInv, ListInv, [LNext]_vars PROVE ListInv'
  OBVIOUS
<1>1. ASSUME UNCHANGED bendVars, stage' \notin {"walk", "run"} \/ UNCHANGED stage,
             fault' \in {fault, "", "pool", "position", "value", "table", "iterator"}
      PROVE  ListInv'
  BY <1>1 DEF ListInv, bendVars
<1>2. CASE OpenText \/ OpenFails \/ Exit \/ TextEnds \/ Comment \/ BeginQuery \/ Reduce \/ QueryEnds
  BY <1>1, <1>2 DEF OpenText, OpenFails, Exit, TextEnds, Comment, BeginQuery, Reduce, QueryEnds,
                    AtUnit, At, Report, KeepBackground
<1>3. CASE Junk \/ QueryGoesWrong
  <2>1. UNCHANGED bendVars /\ stage' = "open"
    BY <1>3 DEF Junk, QueryGoesWrong, SyntaxError, Report, KeepBackground
  <2>2. fault' \in {fault, "", "pool"}
    BY <1>3 DEF Junk, QueryGoesWrong
  <2>3. QED
    BY <1>1, <2>1, <2>2
<1>4. CASE Run
  <2>1. UNCHANGED bendVars /\ UNCHANGED stage
    BY <1>4, RunKeepsWalk DEF Run, frontVars
  <2>2. QED
    BY <1>1, <1>4, <2>1, RunFaults DEF Run
<1>5. CASE UNCHANGED vars
  BY <1>1, <1>5 DEF vars, frontVars
<1>6. CASE BeginRun
  BY <1>6 DEF BeginRun, At, ListInv, bendVars
<1>7. CASE BeginWalk
  <2>1. /\ stage = "reduce" /\ stage' = "walk" /\ StartWalk(Unit.tree) /\ fault = "" /\ UNCHANGED fault
    BY <1>7 DEF BeginWalk, At
  <2>2. WellNumbered(Unit.tree) /\ Grammatical(Unit.tree)
    <3>1. /\ program \in Programs /\ Unit.kind = "query"
          /\ text \in 1 .. Len(Texts) /\ unit \in 1 .. Len(Texts[text])
      <4>1. ParserInv
        BY DEF LInv
      <4>2. program \in Programs /\ text \in Nat \ {0} /\ unit \in Nat \ {0} /\ text <= Len(Texts)
            /\ unit <= Len(Texts[text]) /\ Unit.kind = "query"
        BY <2>1, <4>1 DEF ParserInv
      <4>3. QED
        BY <4>2
    <3>2. QED
      BY <3>1, ProgramsAssumption DEF Texts, Unit
  <2>3. tree' = Unit.tree /\ tree' # NoTree /\ list' = <<>> /\ visits' = <<>>
    BY <2>1, <2>2 DEF StartWalk, WellNumbered
  <2>4. Tree(tree') /\ Len(visits') = 0
    BY <2>2, <2>3 DEF Tree
  <2>5. 0 # Front(tree') - 1
    BY <2>4, FrontShape
  <2>6. ListOK(tree', list', Len(visits'))
    BY <2>3, <2>4, <2>5 DEF ListOK
  <2>7. QED
    BY <2>1, <2>3, <2>4, <2>6 DEF ListInv
<1>8. CASE Walk /\ Descend
  <2>1. UNCHANGED <<tree, list, visits, fault, stage>> /\ stage = "walk"
    BY <1>8 DEF Walk, Descend, frontVars, At
  <2>2. QED
    BY <2>1 DEF ListInv
<1>9. CASE Walk /\ Visit
  <2>1. stage = "walk" /\ UNCHANGED <<stage, tree>> /\ stack # <<>>
    BY <1>9 DEF Walk, Visit, frontVars, At
  <2>2. /\ fault' = fault /\ ListOK(tree, list', Len(visits')) /\ tree # NoTree
    BY <1>9, <2>1, VisitList DEF ListInv
  <2>3. Tree(tree')
    BY <2>1, <2>2 DEF ListInv
  <2>4. QED
    BY <2>1, <2>2, <2>3 DEF ListInv
<1>10. QED
  BY <1>2, <1>3, <1>4, <1>5, <1>6, <1>7, <1>8, <1>9 DEF LNext, Walk

\* Nothing else lengthens the list of the nodes handed over.
LEMMA OnlyVisit ==
  ASSUME LInv, [LNext]_vars, Len(visits') > Len(visits)
  PROVE  Walk /\ Visit
<1>1. Len(visits) \in Nat
  BY DEF LInv, WalkInv
<1>2. visits' # <<>>
  BY <1>1
<1>3. visits' # visits
  BY <1>1
<1>4. ~UNCHANGED bendVars
  BY <1>3 DEF bendVars
<1>5. ~(OpenText \/ OpenFails \/ Exit \/ TextEnds \/ Comment \/ BeginQuery \/ Junk \/ Reduce
        \/ QueryGoesWrong \/ BeginRun \/ QueryEnds \/ UNCHANGED vars)
  BY <1>4 DEF OpenText, OpenFails, Exit, TextEnds, Comment, BeginQuery, Junk, Reduce,
              QueryGoesWrong, BeginRun, QueryEnds, KeepBackground, vars
<1>6. ~Run
  BY <1>4, RunKeepsWalk DEF Run
<1>7. ~BeginWalk
  BY <1>2 DEF BeginWalk, StartWalk
<1>8. ~Descend
  BY <1>3 DEF Descend
<1>9. QED
  BY <1>5, <1>6, <1>7, <1>8 DEF LNext, Walk

\* A node of a tree without user types in the wrong place removes from the list
\* of instructions only those of its left child and of its left sibling: the
\* bend_processors of backend.c rely on it, which apr_array_pop by number.
THEOREM OwnInstructionsTakenBack == LSpec => TakesBackOwn
<1> DEFINE OwnOnly ==
             Len(visits') > Len(visits) /\ fault' = "" =>
               LET v == Back(stack)
                   own == {tree[v].left} \cup
                            IF v = Len(tree) THEN {} ELSE {tree[ParentOf(tree, v)].left}
               IN  StrayUsers(tree) = {} =>
                     \A k \in Len(list) - Pops(list, tree[v]) + 1 .. Len(list) : list[k].node \in own
<1>1. ASSUME LInv, ListInv, [LNext]_vars PROVE OwnOnly
  <2> SUFFICES ASSUME Len(visits') > Len(visits), fault' = "" PROVE OwnOnly
    OBVIOUS
  <2>1. Walk /\ Visit
    BY <1>1, OnlyVisit
  <2>4. stage = "walk"
    BY <2>1 DEF Walk, At
  <2>5. StrayUsers(tree) = {} =>
          \A k \in Len(list) - Pops(list, tree[Back(stack)]) + 1 .. Len(list) :
            list[k].node \in Own(tree, Back(stack))
    BY <1>1, <2>1, <2>4, VisitList
  <2>6. QED
    BY <2>5 DEF Own
<1>2. LSpec => [](LInv /\ ListInv)
  <2>1. LSpec => []LInv
    BY LInvariant
  <2>2. LInit => ListInv
    BY InitListInv
  <2>3. LInv /\ ListInv /\ [LNext]_vars => ListInv'
    BY NextListInv
  <2>4. QED
    BY <2>1, <2>2, <2>3, PTL DEF LSpec
<1>3. LInv /\ ListInv /\ [LNext]_vars => [OwnOnly]_vars
  BY <1>1
<1> HIDE DEF OwnOnly
<1>4. LSpec => [][OwnOnly]_vars
  BY <1>2, <1>3, PTL DEF LSpec
<1>5. QED
  BY <1>4, PTL DEF TakesBackOwn, OwnOnly

-----------------------------------------------------------------------------
(* The shape of a query that selects once                                   *)

LEMMA OneOf ==
  ASSUME NEW t, WellNumbered(t), NEW type, HasOne(t, type)
  PROVE  \E x \in DOMAIN t : \A i \in DOMAIN t : t[i].type = type <=> i = x
<1>1. DOMAIN t = 1 .. Len(t) /\ Len(t) \in Nat
  BY DEF WellNumbered
<1>2. IsFiniteSet(DOMAIN t)
  BY <1>1, FS_Interval
<1>3. IsFiniteSet(NodesOf(t, type)) /\ NodesOf(t, type) \subseteq DOMAIN t
  BY <1>2, FS_Subset DEF NodesOf
<1>4. PICK x : NodesOf(t, type) = {x}
  BY <1>3, FS_Singleton DEF HasOne
<1>5. QED
  BY <1>3, <1>4 DEF NodesOf

\* The select is the last node but two, in front of the body of the query.
LEMMA SelectIsLast ==
  ASSUME NEW t, Tree(t), HasOne(t, "select")
  PROVE  /\ Len(t) \in Nat /\ Len(t) - 2 \in DOMAIN t /\ t[Len(t)].type = "query"
         /\ t[Len(t) - 1].type = "query_body" /\ t[Len(t) - 2].type = "select"
         /\ \A i \in DOMAIN t : t[i].type = "select" => i = Len(t) - 2
<1> DEFINE N == Len(t)
           b == N - 1
<1>1. N \in Nat /\ N \in DOMAIN t
  BY FrontShape
<1>2. t[N].type = "query"
  <2>1. Sort(t, N) = "query"
    BY DEF Tree, Grammatical
  <2>2. QED
    BY <1>1, <2>1, TypeOfSort, NodeTyped DEF Tree, SortTypes
<1>3. b \in DOMAIN t /\ t[b].type = "query_body"
  BY <1>1, <1>2, QueryShape
<1>4. PICK x \in DOMAIN t : \A i \in DOMAIN t : t[i].type = "select" <=> i = x
  BY OneOf DEF Tree
<1>5. /\ t[b].left \in DOMAIN t /\ t[t[b].left].type = "select"
      /\ t[b].right # 0 => t[b].right \in DOMAIN t /\ t[b].right = b - 1 /\ Sort(t, t[b].right) = "continuation"
      /\ t[b].right = 0 => t[b].left = b - 1
  BY <1>3, BodyShape
<1>6. t[b].left = x
  BY <1>4, <1>5
<1>7. t[b].right = 0
  <2> SUFFICES ASSUME t[b].right # 0 PROVE FALSE
    OBVIOUS
  <2> DEFINE c == t[b].right
             e == t[c].right
             s == t[e].left
             first == Leftmost(t)
  <2>1. c \in DOMAIN t /\ Sort(t, c) = "continuation" /\ c # 0
    BY <1>5
  <2>2. e = c - 1 /\ e \in DOMAIN t /\ t[e].type = "query_body"
    BY <2>1, ContinuationShape
  <2>3. s \in DOMAIN t /\ t[s].type = "select"
    BY <2>2, BodyShape
  <2>4. s = x
    BY <1>4, <2>3
  <2>5. t[c].left # 0
    <3>1. Rules["continuation"] = <<{"name"}, {"query_body"}>>
      BY DEF Rules
    <3>2. QED
      BY <2>1, <3>1, ChildSorts
  <2>6. b \in Nat /\ c \in Nat /\ e \in Nat /\ s \in Nat /\ e # 0 /\ s # 0
    BY <1>3, <2>1, <2>2, <2>3, NodeTyped DEF Tree
  <2>7. x = first[c] - 1
    <3>1. t[b].left # 0
      BY <1>4, <1>6, NodeTyped DEF Tree
    <3>2. QED
      BY <1>3, <1>6, <2>1, <3>1, Children DEF Tree
  <2>8. t[c].left = first[e] - 1 /\ first[c] <= t[c].left /\ first[e] \in Nat
        /\ t[c].left \in Nat /\ first[c] \in Nat
    <3>1. /\ t[c].left = first[e] - 1 /\ t[c].left \in DOMAIN t
          /\ first[c] = first[t[c].left] /\ first[c] \in 1 .. t[c].left
      BY <2>1, <2>2, <2>5, <2>6, Children DEF Tree
    <3>2. t[c].left \in Nat /\ first[e] \in 1 .. e
      BY <2>1, <2>2, Children DEF Tree
    <3> HIDE DEF c, e, first
    <3>3. QED
      BY <2>6, <3>1, <3>2
  <2>9. first[e] = first[s] /\ first[s] <= s /\ first[s] \in Nat
    BY <2>2, <2>3, <2>6, Children DEF Tree
  <2> HIDE DEF c, e, s, first
  <2>10. QED
    BY <2>4, <2>6, <2>7, <2>8, <2>9
<1>8. t[b].left = N - 2 /\ x = N - 2
  BY <1>1, <1>5, <1>6, <1>7
<1>9. QED
  BY <1>1, <1>2, <1>3, <1>4, <1>8

\* What the source of a from is made of, unless there is a query in it.
Plainly == {"unary", "values", "name", "string", "integer", "property", "method_call"}

LEMMA HeadSource ==
  ASSUME NEW t, Tree(t), HasOne(t, "select")
  PROVE  \A i \in Front(t) + 1 .. HeadFrom(t) - 1 : i \in DOMAIN t /\ Sort(t, i) \in Plainly
<1> DEFINE f == HeadFrom(t)
           d == Front(t)
           T == {i \in d + 1 .. f - 1 : Sort(t, i) \notin Plainly}
           B == {k \in 0 .. f : f - 1 - k \in T}
<1>1. /\ f \in DOMAIN t /\ t[f].type = "from" /\ d \in {2, 3} /\ d < f /\ f < Len(t) /\ f \in Nat
      /\ Leftmost(t)[f - 1] = d + 1 /\ f - 1 \in DOMAIN t /\ Len(t) \in Nat /\ DOMAIN t = 1 .. Len(t)
  BY FrontShape, NodeTyped DEF Tree, WellNumbered
<1>2. IsExpression(t, f - 1)
  BY <1>1, FromShape
<1>3. ASSUME T # {} PROVE FALSE
  <2>1. \A i \in T : f - 1 - i \in B
    <3> SUFFICES ASSUME NEW i \in T PROVE f - 1 - i \in B
      OBVIOUS
    <3>1. i \in d + 1 .. f - 1
      OBVIOUS
    <3>2. f - 1 - i \in 0 .. f /\ f - 1 - (f - 1 - i) = i
      BY <1>1, <3>1
    <3>3. QED
      BY <3>2
  <2>2. B # {} /\ B \subseteq Nat
    BY <1>3, <2>1
  <2>3. PICK k \in B : \A j \in B : k <= j
    BY <2>2, Numbers!Least
  <2> DEFINE i == f - 1 - k
  <2>4. i \in T /\ k \in Nat
    BY <2>2
  <2>5. i \in d + 1 .. f - 1 /\ Sort(t, i) \notin Plainly /\ i \in DOMAIN t
    BY <1>1, <2>4
  <2>6. \A q \in d + 1 .. f - 1 : i < q => Sort(t, q) \in Plainly
    <3> SUFFICES ASSUME NEW q \in d + 1 .. f - 1, i < q, Sort(t, q) \notin Plainly PROVE FALSE
      OBVIOUS
    <3>1. f - 1 - q \in B
      BY <2>1
    <3>2. k <= f - 1 - q
      BY <2>3, <3>1
    <3>3. QED
      BY <1>1, <2>4, <3>2
  <2> HIDE DEF i
  <2>7. Sort(t, i) = "query"
    <3>1. CASE i = f - 1
      BY <1>2, <2>5, <3>1 DEF IsExpression, Expressions, Plainly
    <3>2. CASE i # f - 1
      <4>1. i < f - 1 /\ d + 1 <= i
        BY <1>1, <2>5, <3>2
      <4>2. PICK q \in DOMAIN t : i < q /\ q <= f - 1 /\ i \in {t[q].left, t[q].right}
        BY <1>1, <2>5, <4>1, ParentExists DEF Tree
      <4>3. Sort(t, q) \in Plainly
        BY <1>1, <2>5, <2>6, <4>2
      <4>4. Sort(t, i) \in Rules[Sort(t, q)][1] \cup Rules[Sort(t, q)][2]
        BY <4>2, ChildSorts
      <4>5. \A s \in Plainly : Rules[s][1] \cup Rules[s][2] \subseteq Plainly \cup {"query", "none"}
        BY DEF Plainly, Rules, Nothing, Expressions
      <4>6. Sort(t, i) # "none"
        <5>1. Sort(t, i) \in DOMAIN Rules
          BY <2>5, ChildSorts
        <5>2. QED
          BY <5>1 DEF Rules
      <4>7. QED
        BY <2>5, <4>3, <4>4, <4>5, <4>6
    <3>3. QED
      BY <3>1, <3>2
  <2>8. t[i].type = "query"
    BY <2>5, <2>7, TypeOfSort, NodeTyped DEF Tree, SortTypes
  <2>9. i - 1 \in DOMAIN t /\ t[i - 1].type = "query_body"
    BY <2>5, <2>8, QueryShape
  <2> DEFINE s == t[i - 1].left
  <2>10. s \in DOMAIN t /\ t[s].type = "select" /\ s < i - 1
    <3>1. s \in DOMAIN t /\ t[s].type = "select"
      BY <2>9, BodyShape
    <3>2. s # 0
      BY <3>1, NodeTyped DEF Tree
    <3>3. QED
      BY <2>9, <3>1, <3>2, Children DEF Tree
  <2>11. /\ t[Len(t) - 1].type = "query_body" /\ t[Len(t) - 2].type = "select"
         /\ \A j \in DOMAIN t : t[j].type = "select" => j = Len(t) - 2
    BY SelectIsLast
  <2>12. s = Len(t) - 2
    BY <2>10, <2>11
  <2>13. i \in Nat /\ i <= f - 1 /\ f <= Len(t) - 1
    BY <1>1, <2>5
  <2> HIDE DEF s
  <2>14. QED
    BY <1>1, <2>10, <2>12, <2>13
<1>4. \A i \in d + 1 .. f - 1 : i \in DOMAIN t
  BY <1>1
<1>5. QED
  BY <1>3, <1>4

\* The first from is the lowest, and its declaration too.
LEMMA FrontIsLeast ==
  ASSUME NEW t, Tree(t), HasOne(t, "select"), NEW i \in DOMAIN t, i <= HeadFrom(t)
  PROVE  /\ t[i].type = "from" => i = HeadFrom(t)
         /\ IsDeclaration(t, i) => i = Front(t)
         /\ i < HeadFrom(t) => t[i].type \in {"internal_type", "identifier", "unary", "enum", "string",
                                           "integer", "property", "method_call"}
<1> DEFINE f == HeadFrom(t)
           d == Front(t)
<1>1. /\ d \in {2, 3} /\ d < f /\ f \in Nat /\ IsDeclaration(t, d) /\ t[d - 1].type = "internal_type"
      /\ t[f].type = "from" /\ (d = 3 => IsName(t, 1))
  BY FrontShape, NodeTyped DEF Tree
<1>2. i \in Nat /\ i >= 1
  BY NodeTyped DEF Tree
<1>3. CASE i \in d + 1 .. f - 1
  <2>1. Sort(t, i) \in Plainly
    BY <1>3, HeadSource
  <2>2. t[i].type = SortTypes[Sort(t, i)] /\ ~IsDeclaration(t, i)
    <3>1. Sort(t, i) # "declaration"
      BY <2>1 DEF Plainly
    <3>2. QED
      BY <3>1, TypeOfSort, NodeTyped DEF Tree, IsDeclaration
  <2>3. t[i].type \in {"identifier", "unary", "enum", "string", "integer", "property", "method_call"}
    BY <2>1, <2>2 DEF Plainly, SortTypes
  <2>4. QED
    BY <2>2, <2>3
<1>4. CASE i = f
  BY <1>1, <1>4 DEF IsDeclaration
<1>5. CASE i = d
  BY <1>1, <1>5 DEF IsDeclaration
<1>6. CASE i = d - 1
  BY <1>1, <1>6 DEF IsDeclaration
<1>7. CASE i = 1 /\ d = 3
  BY <1>1, <1>7 DEF IsDeclaration, IsName
<1>8. QED
  <2>1. i \in d + 1 .. f - 1 \/ i = f \/ i = d \/ i = d - 1 \/ (i = 1 /\ d = 3)
    BY <1>1, <1>2
  <2>2. QED
    BY <2>1, <1>3, <1>4, <1>5, <1>6, <1>7

LEMMA FirstFromIs ==
  ASSUME NEW t, Tree(t), HasOne(t, "select") \/ HasOne(t, "from")
  PROVE  FirstFrom(t) = HeadFrom(t) /\ HeadFrom(t) \in Froms(t) /\ \A g \in Froms(t) : HeadFrom(t) <= g
<1>1. HeadFrom(t) \in Froms(t) /\ HeadFrom(t) \in Nat /\ Froms(t) \subseteq Nat
  BY FrontShape, NodeTyped DEF Tree, Froms, NodesOf
<1>2. \A g \in Froms(t) : HeadFrom(t) <= g
  <2>1. CASE HasOne(t, "select")
    <3> SUFFICES ASSUME NEW g \in Froms(t), ~(HeadFrom(t) <= g) PROVE FALSE
      OBVIOUS
    <3>1. g \in DOMAIN t /\ t[g].type = "from" /\ g <= HeadFrom(t)
      BY <1>1 DEF Froms, NodesOf
    <3>2. g = HeadFrom(t)
      BY <2>1, <3>1, FrontIsLeast
    <3>3. QED
      BY <1>1, <3>2
  <2>2. CASE HasOne(t, "from")
    <3>1. PICK x \in DOMAIN t : \A i \in DOMAIN t : t[i].type = "from" <=> i = x
      BY <2>2, OneOf DEF Tree
    <3>2. QED
      BY <1>1, <3>1 DEF Froms, NodesOf
  <2>3. QED
    BY <2>1, <2>2
<1>3. \A h \in Froms(t) : (\A g \in Froms(t) : h <= g) => h = HeadFrom(t)
  <2> SUFFICES ASSUME NEW h \in Froms(t), \A g \in Froms(t) : h <= g PROVE h = HeadFrom(t)
    OBVIOUS
  <2>1. h <= HeadFrom(t) /\ HeadFrom(t) <= h /\ h \in Nat
    BY <1>1, <1>2
  <2>2. QED
    BY <1>1, <2>1
<1>4. QED
  BY <1>1, <1>2, <1>3 DEF FirstFrom

\* When the first from reads a string.
LEMMA StringSource ==
  ASSUME NEW t, Tree(t), SourceString(t, HeadFrom(t)) # {}
  PROVE  LET d == Front(t)
         IN  /\ HeadFrom(t) = d + 3 /\ SourceString(t, HeadFrom(t)) = {d + 1}
             /\ t[d + 1].type = "string" /\ t[d + 2].type = "unary"
             /\ d + 1 \in DOMAIN t /\ d + 2 \in DOMAIN t /\ d + 3 \in DOMAIN t
<1> DEFINE f == HeadFrom(t)
           d == Front(t)
           u == f - 1
<1>1. /\ f \in DOMAIN t /\ t[f].type = "from" /\ d \in {2, 3} /\ d < f /\ f \in Nat
      /\ Leftmost(t)[u] = d + 1 /\ u \in DOMAIN t /\ u \in Nat
  BY FrontShape, NodeTyped DEF Tree
<1>2. t[f].right = u /\ IsExpression(t, u)
  BY <1>1, FromShape
<1> DEFINE s == t[u].left
<1>3. s \in DOMAIN t /\ t[s].type = "string" /\ SourceString(t, f) = {s}
  BY <1>2 DEF SourceString, NodesOf
<1>4. s # 0 /\ Sort(t, s) = "string"
  BY <1>3, TypeOfSort, NodeTyped DEF Tree
<1>5. Sort(t, u) = "unary"
  <2>1. Sort(t, s) \in Rules[Sort(t, u)][1] /\ Sort(t, u) \in Expressions
    BY <1>1, <1>2, ChildSorts DEF IsExpression
  <2>2. \A x \in Expressions : "string" \in Rules[x][1] => x = "unary"
    BY DEF Rules, Expressions
  <2>3. QED
    BY <1>4, <2>1, <2>2
<1>6. t[u].type = "unary"
  BY <1>1, <1>5, TypeOfSort, NodeTyped DEF Tree, SortTypes
<1>7. t[u].right = 0 /\ s = u - 1
  <2>1. ~IsName(t, s)
    BY <1>3 DEF IsName
  <2>2. QED
    BY <1>1, <1>6, <2>1, UnaryShape
<1>8. Leftmost(t)[u] = Leftmost(t)[s]
  BY <1>1, <1>4, <1>7, Children DEF Tree
<1>9. Leftmost(t)[s] = s
  BY <1>3, LeafShape, Children DEF Tree, IsLeaf
<1>10. s = d + 1 /\ u = d + 2 /\ f = d + 3
  BY <1>1, <1>7, <1>8, <1>9
<1>11. QED
  BY <1>1, <1>3, <1>6, <1>10

-----------------------------------------------------------------------------
(* The list that a run has                                                  *)

HasProgram(t, l) == Tree(t) /\ Listed(t, l, Len(t))

LEMMA WalkedProgram ==
  ASSUME LInv, ListInv, stage \in {"walk", "run"}, stack = <<>>
  PROVE  HasProgram(tree, list)
<1>1. tree # NoTree /\ Tree(tree) /\ ListOK(tree, list, Len(visits))
  BY DEF ListInv
<1>2. Len(visits) = Len(tree)
  BY <1>1 DEF LInv, WalkInv, WalkOK
<1>3. Len(tree) \in Nat /\ Front(tree) \in {2, 3} /\ Front(tree) < HeadFrom(tree) /\ HeadFrom(tree) < Len(tree)
      /\ HeadFrom(tree) \in Nat
  BY <1>1, FrontShape, NodeTyped DEF Tree
<1>4. Len(tree) >= 2
  BY <1>3
<1>5. QED
  BY <1>1, <1>2, <1>4 DEF HasProgram, ListOK

LEMMA RunHasProgram ==
  ASSUME LInv, ListInv, stage = "run"
  PROVE  HasProgram(tree, list)
<1>1. stack = <<>>
  BY DEF ListInv
<1>2. stage \in {"walk", "run"}
  OBVIOUS
<1>3. QED
  BY <1>1, <1>2, WalkedProgram, Zenon

\* What it is made of.
LEMMA InstructionSays ==
  ASSUME NEW t, NEW l, HasProgram(t, l)
  PROVE  /\ IsSequence(l) /\ Len(l) \in Nat /\ DOMAIN l = 1 .. Len(l)
         /\ \A k \in 1 .. Len(l) :
              /\ Says(t, l[k])
              /\ l[k].op = "from" => k >= 3 /\ l[k].op1 = Position(k - 3) /\ l[k].op2 = Position(k - 2)
              /\ \A j \in 1 .. k - 1 : l[j].node < l[k].node
<1>1. Ordered(t, l, Len(t))
  BY DEF HasProgram, Listed
<1>2. Len(l) \in Nat /\ DOMAIN l = 1 .. Len(l)
  <2>1. PICK S : l \in Seq(S)
    BY <1>1 DEF Ordered, IsSequence
  <2>2. QED
    BY <2>1
<1>3. QED
  BY <1>1, <1>2 DEF Ordered

LEMMA SameInstruction ==
  ASSUME NEW t, NEW l, HasProgram(t, l), NEW j \in 1 .. Len(l), NEW k \in 1 .. Len(l)
  PROVE  /\ j < k <=> l[j].node < l[k].node
         /\ l[j].node = l[k].node => j = k
<1>1. Len(l) \in Nat
  BY InstructionSays
<1>2. l[j].node \in Nat /\ l[k].node \in Nat
  BY InstructionSays, NodeTyped DEF Says, HasProgram, Tree
<1>3. j < k => l[j].node < l[k].node
  <2> SUFFICES ASSUME j < k PROVE l[j].node < l[k].node
    OBVIOUS
  <2>1. j \in 1 .. k - 1
    BY <1>1
  <2>2. QED
    BY <2>1, InstructionSays
<1>4. k < j => l[k].node < l[j].node
  <2> SUFFICES ASSUME k < j PROVE l[k].node < l[j].node
    OBVIOUS
  <2>1. k \in 1 .. j - 1
    BY <1>1
  <2>2. QED
    BY <2>1, InstructionSays
<1>5. j \in Nat /\ k \in Nat
  BY <1>1
<1>6. QED
  BY <1>2, <1>3, <1>4, <1>5

\* The type a declaration has.
LEMMA DeclaresType ==
  ASSUME NEW t, Tree(t), NEW d, IsDeclaration(t, d)
  PROVE  LET type == TypeOperand(t, d - 1)
         IN  \/ /\ type \in {Type("file"), Type("string"), Type("dir"), Type("dynamic")}
                /\ t[d - 1].value # "user" /\ type = Type(t[d - 1].value)
             \/ /\ t[d - 1].value = "user" /\ t[d - 1].left = d - 2 /\ d - 2 \in DOMAIN t
                /\ type = Name(t[d - 2].value)
<1>1. d \in DOMAIN t /\ d - 1 \in DOMAIN t /\ t[d - 1].type = "internal_type"
  BY DeclarationShape DEF IsDeclaration
<1>2. d \in Nat
  BY <1>1, NodeTyped DEF Tree
<1>3. d - 1 - 1 = d - 2
  BY <1>2
<1>4. \/ t[d - 1].left = 0 /\ t[d - 1].value \in {"file", "string", "dir", "dynamic"}
      \/ t[d - 1].left = d - 2 /\ t[d - 1].value = "user" /\ IsName(t, d - 2)
  BY <1>1, <1>3, TypeShape
<1>5. QED
  BY <1>3, <1>4 DEF TypeOperand, IsName

LEMMA OperandIs ==
  ASSUME NEW s
  PROVE  Name(s)[1] = "name" /\ Name(s)[2] = s /\ Type(s)[1] = "type" /\ Type(s)[2] = s
         /\ Position(s)[2] = s
BY DEF Name, Type, Position

-----------------------------------------------------------------------------
(* The steps of the processor                                               *)

\* The source that a string of its own is.
StringOf(value) == Source("string_def", "", value)

LEMMA StringOfIs ==
  ASSUME NEW value
  PROVE  IsSource(StringOf(value)) /\ StringOf(value).type = "string_def" /\ StringOf(value).value = value
<1>1. /\ StringOf(value).type = "string_def"
      /\ StringOf(value).name = ""
      /\ StringOf(value).value = value
  BY Zenon DEF StringOf, Source
<1>2. IsSource(StringOf(value))
  BY <1>1, Zenon DEF IsSource, StringOf
<1>3. QED
  BY <1>1, <1>2

\* What an instruction pushes.
SourceOf(i) ==
  CASE i.op = "def"      -> Declared(i.op1, i.op2)
    [] i.op = "string"   -> StringOf(i.op1[2])
    [] i.op = "property" -> Source("prop_call", i.op1[2], i.op2[2])

AtStep == fault = "" /\ scan = -1 /\ ip <= Len(list) /\ Next1

PushStep ==
  /\ AtStep /\ list[ip].op \in {"def", "string", "property"}
  /\ ~(list[ip].op = "def" /\ list[ip].op1 = Type("dynamic"))
  /\ Push(SourceOf(list[ip]))

PlainStep ==
  /\ AtStep /\ UNCHANGED <<elts, count>>
  /\ list[ip].op \notin {"string", "property", "select"}
  /\ list[ip].op = "def" => list[ip].op1 = Type("dynamic")
  /\ list[ip].op = "from" => Element(list[ip].op2[2]) = Null

FromStep ==
  LET at == list[ip].op1[2]
      to == Element(at)
      from == Element(list[ip].op2[2])
  IN  /\ AtStep /\ list[ip].op = "from"
      /\ from # Null /\ to # Null /\ count # 0
      /\ IF to.type = "hash_decl"
           THEN /\ elts' = [elts EXCEPT ![count] = Source("hash_definition", to.value, from.value)]
                /\ UNCHANGED count
           ELSE /\ elts' = [elts EXCEPT ![at + 1].value = from.value]
                /\ count' = count - 1

ScanStep ==
  /\ fault = "" /\ scan > 0 /\ ~BuiltinIsOpen /\ ScanOn
  /\ \/ ScanProperty \/ ScanString \/ ScanDeclaration \/ ScanDefinition \/ ScanHashDeclaration

LEMMA RunSteps ==
  ASSUME RunInstruction, fault' = ""
  PROVE  \/ PushStep \/ PlainStep \/ FromStep \/ OnSelect \/ ScanStep \/ SelectEnds \/ CalculationEnds
<1>1. CASE OnDef
  BY <1>1 DEF OnDef, AtInstruction, AtStep, PushStep, PlainStep, SourceOf
<1>2. CASE OnString
  BY <1>2, Zenon DEF OnString, AtInstruction, AtStep, PushStep, SourceOf, StringOf
<1>3. CASE OnProperty
  BY <1>3 DEF OnProperty, AtInstruction, AtStep, PushStep, SourceOf
<1>4. CASE OnFrom
  <2> DEFINE at == list[ip].op1[2]
             to == Element(at)
             from == Element(list[ip].op2[2])
             lost == at < 0 \/ (from # Null /\ (to = Null \/ count = 0))
  <2>1. AtInstruction("from")
    BY <1>4 DEF OnFrom
  <2>2. CASE lost
    BY <1>4, <2>2 DEF OnFrom, Fault
  <2>3. CASE ~lost /\ from = Null
    <3>1. UNCHANGED <<elts, count>> /\ Next1
      BY <1>4, <2>3 DEF OnFrom
    <3>2. QED
      BY <2>1, <2>3, <3>1 DEF PlainStep, AtStep, AtInstruction
  <2>4. CASE ~lost /\ from # Null
    <3>1. /\ IF to.type = "hash_decl"
               THEN /\ elts' = [elts EXCEPT ![count] = Source("hash_definition", to.value, from.value)]
                    /\ UNCHANGED count
               ELSE /\ elts' = [elts EXCEPT ![at + 1].value = from.value]
                    /\ count' = count - 1
          /\ Next1
      BY <1>4, <2>4 DEF OnFrom
    <3>2. to # Null /\ count # 0
      BY <2>4
    <3>3. QED
      BY <2>1, <2>4, <3>1, <3>2 DEF FromStep, AtStep, AtInstruction
  <2>5. QED
    BY <2>2, <2>3, <2>4
<1>5. CASE OnNothing
  BY <1>5 DEF OnNothing, PlainStep, AtStep
<1>6. CASE ScanProperty
  BY <1>6 DEF ScanProperty, Scanning, ScanStep, Fault
<1>7. ASSUME NEW b, NEW h, NEW v, Calculate(b, h, v) PROVE ScanOn
  BY <1>7 DEF Calculate, Fault
<1>8. Pass => ScanOn
  BY DEF Pass
<1>9. CASE ScanString
  BY <1>7, <1>8, <1>9 DEF ScanString, Scanning, ScanStep, Fault
<1>10. CASE ScanDeclaration
  BY <1>7, <1>8, <1>10 DEF ScanDeclaration, Scanning, ScanStep, Fault
<1>11. CASE ScanDefinition
  BY <1>7, <1>8, <1>11 DEF ScanDefinition, Scanning, ScanStep, Fault
<1>12. CASE ScanHashDeclaration
  BY <1>8, <1>12 DEF ScanHashDeclaration, Scanning, ScanStep, Fault
<1>13. QED
  BY <1>1, <1>2, <1>3, <1>4, <1>5, <1>6, <1>9, <1>10, <1>11, <1>12 DEF RunInstruction

\* What the steps make of the stack.
LEMMA PushedIs ==
  ASSUME StackOK, NEW e, Push(e)
  PROVE  /\ Len(elts) \in Nat /\ count \in 0 .. Len(elts) /\ DOMAIN elts = 1 .. Len(elts)
         /\ count' = count + 1
         /\ Len(elts') = IF count = Len(elts) THEN Len(elts) + 1 ELSE Len(elts)
         /\ DOMAIN elts' = 1 .. Len(elts')
         /\ \A i \in 1 .. Len(elts') : elts'[i] = IF i = count + 1 THEN e ELSE elts[i]
<1> DEFINE n == Len(elts)
           m == IF count = n THEN n + 1 ELSE n
<1>1. PICK S : elts \in Seq(S)
  BY DEF StackOK, IsSequence
<1>2. n \in Nat /\ count \in 0 .. n /\ DOMAIN elts = 1 .. n
  BY <1>1 DEF StackOK
<1>3. m \in Nat /\ 1 .. n \cup {count + 1} = 1 .. m
  <2> HIDE DEF n
  <2>1. CASE count = n
    BY <1>2, <2>1
  <2>2. CASE count # n
    BY <1>2, <2>2
  <2>3. QED
    BY <2>1, <2>2
<1>4. elts' = [i \in 1 .. m |-> IF i = count + 1 THEN e ELSE elts[i]] /\ count' = count + 1
  BY <1>3 DEF Push
<1> HIDE DEF m
<1>5. Len(elts') = m /\ DOMAIN elts' = 1 .. m
  BY <1>3, <1>4
<1>6. QED
  BY <1>2, <1>4, <1>5 DEF m

LEMMA ReplacedIs ==
  ASSUME StackOK, NEW j, NEW e, elts' = [elts EXCEPT ![j] = e]
  PROVE  /\ Len(elts) \in Nat /\ count \in 0 .. Len(elts) /\ DOMAIN elts = 1 .. Len(elts)
         /\ Len(elts') = Len(elts) /\ DOMAIN elts' = 1 .. Len(elts)
         /\ \A i \in 1 .. Len(elts) : elts'[i] = IF i = j THEN e ELSE elts[i]
<1> DEFINE n == Len(elts)
<1>1. PICK S : elts \in Seq(S)
  BY DEF StackOK, IsSequence
<1>2. n \in Nat /\ count \in 0 .. n /\ DOMAIN elts = 1 .. n
  BY <1>1 DEF StackOK
<1>3. elts' = [i \in 1 .. n |-> IF i = j THEN e ELSE elts[i]]
  BY <1>2
<1>4. Len(elts') = n /\ DOMAIN elts' = 1 .. n
  BY <1>2, <1>3
<1>5. QED
  BY <1>2, <1>3, <1>4

-----------------------------------------------------------------------------
(* From finds its values                                                    *)

DeclaredTypes == {"string", "file", "dir", "hash_decl"}
SourceTypes == DeclaredTypes \cup {"hash_definition", "string_def", "prop_call"}

\* As long as the stack has one element for each instruction, all of them are
\* on it; a select is under way only at one.
DepthOK ==
  /\ Len(elts) <= ip - 1
  /\ Len(elts) = ip - 1 => count = ip - 1
  /\ \A i \in 1 .. Len(elts) : elts[i].type \in SourceTypes
  /\ scan # -1 => ip <= Len(list) /\ list[ip].op = "select"

DepthInv == fault = "" /\ stage = "run" => DepthOK

\* What an instruction pushes is a source of some type.
LEMMA SourceOfType ==
  ASSUME NEW t, Tree(t), NEW i, Says(t, i), i.op \in {"def", "string", "property"},
         ~(i.op = "def" /\ i.op1 = Type("dynamic"))
  PROVE  /\ IsSource(SourceOf(i))
         /\ i.op = "def" => SourceOf(i).type \in DeclaredTypes /\ SourceOf(i).value = IF i.op1[1] = "name" THEN i.op1[2] ELSE NoValue
         /\ i.op = "string" => SourceOf(i) = StringOf(t[i.node].value)
         /\ i.op = "property" => SourceOf(i) = Source("prop_call", t[i.node - 1].value, t[i.node].value)
<1>1. CASE i.op = "def"
  <2>1. SourceOf(i) = Declared(i.op1, i.op2)
    BY <1>1 DEF SourceOf
  <2>2. IsDeclaration(t, i.node) /\ i.op1 = TypeOperand(t, i.node - 1)
    BY <1>1 DEF Says
  <2>3. \/ i.op1 \in {Type("file"), Type("string"), Type("dir")}
        \/ i.op1 = Name(t[i.node - 2].value)
    BY <1>1, <2>2, DeclaresType
  <2>4. CASE i.op1 \in {Type("file"), Type("string"), Type("dir")}
    <3>1. i.op1[1] # "name" /\ i.op1[2] \in {"file", "string", "dir"}
      BY <2>4 DEF Type
    <3>2. QED
      BY <1>1, <2>1, <3>1 DEF Declared, Source, IsSource, DeclaredTypes
  <2>5. CASE i.op1 = Name(t[i.node - 2].value)
    <3>1. i.op1[1] = "name"
      BY <2>5 DEF Name
    <3>2. QED
      BY <1>1, <2>1, <3>1 DEF Declared, Source, IsSource, DeclaredTypes
  <2>6. QED
    BY <2>3, <2>4, <2>5
<1>2. CASE i.op = "string"
  <2>1. i.op1 = Name(t[i.node].value) /\ SourceOf(i) = StringOf(i.op1[2])
    BY <1>2 DEF Says, SourceOf
  <2>2. SourceOf(i) = StringOf(t[i.node].value)
    BY <2>1, OperandIs
  <2>3. QED
    BY <1>2, <2>2, StringOfIs
<1>3. CASE i.op = "property"
  <2>1. /\ i.op1 = Name(t[i.node - 1].value) /\ i.op2 = Name(t[i.node].value)
        /\ SourceOf(i) = Source("prop_call", i.op1[2], i.op2[2])
    BY <1>3 DEF Says, SourceOf
  <2>2. SourceOf(i) = Source("prop_call", t[i.node - 1].value, t[i.node].value)
    BY <2>1, OperandIs
  <2>3. QED
    BY <1>3, <2>2 DEF IsSource, Source
<1>4. QED
  BY <1>1, <1>2, <1>3

\* The stack of a run in numbers.
LEMMA StackIs ==
  ASSUME PoolInv, RunInv, At("run")
  PROVE  /\ StackOK /\ ScanOK
         /\ Len(elts) \in Nat /\ count \in Nat /\ count <= Len(elts) /\ DOMAIN elts = 1 .. Len(elts)
         /\ ip \in Nat /\ ip # 0 /\ scan \in Int /\ scan <= count
<1>1. StackOK /\ ScanOK
  BY AtRun
<1>2. PICK S : elts \in Seq(S)
  BY <1>1 DEF StackOK, IsSequence
<1>3. Len(elts) \in Nat /\ DOMAIN elts = 1 .. Len(elts)
  BY <1>2
<1>4. count \in 0 .. Len(elts) /\ ip \in Nat \ {0} /\ scan \in -1 .. count
  BY <1>1 DEF StackOK, ScanOK
<1>5. QED
  BY <1>1, <1>3, <1>4

\* The instruction at which a run is.
LEMMA InstructionIs ==
  ASSUME PoolInv, RunInv, At("run"), HasProgram(tree, list), ip <= Len(list)
  PROVE  ip \in 1 .. Len(list) /\ Says(tree, list[ip]) /\ Tree(tree)
<1>1. Len(list) \in Nat /\ ip \in Nat /\ ip # 0
  BY InstructionSays, StackIs
<1>2. ip \in 1 .. Len(list)
  BY <1>1
<1>3. QED
  BY <1>2, InstructionSays DEF HasProgram

LEMMA PushIs ==
  ASSUME PoolInv, RunInv, At("run"), HasProgram(tree, list), PushStep
  PROVE  LET e == SourceOf(list[ip])
         IN  /\ ip' = ip + 1 /\ scan = -1 /\ scan' = -1 /\ UNCHANGED <<bendVars, builtinVars, props, calcs>>
             /\ ip \in 1 .. Len(list) /\ Says(tree, list[ip]) /\ Tree(tree)
             /\ list[ip].op \in {"def", "string", "property"}
             /\ ~(list[ip].op = "def" /\ list[ip].op1 = Type("dynamic"))
             /\ count' = count + 1
             /\ Len(elts') = IF count = Len(elts) THEN Len(elts) + 1 ELSE Len(elts)
             /\ \A i \in 1 .. Len(elts') : elts'[i] = IF i = count + 1 THEN e ELSE elts[i]
<1> DEFINE e == SourceOf(list[ip])
<1>1. Push(e) /\ ip' = ip + 1 /\ scan = -1 /\ scan' = -1 /\ ip <= Len(list) /\ Next1
  BY DEF PushStep, AtStep, Next1
<1>2. list[ip].op \in {"def", "string", "property"} /\ ~(list[ip].op = "def" /\ list[ip].op1 = Type("dynamic"))
  BY DEF PushStep
<1>3. UNCHANGED <<bendVars, builtinVars, props, calcs>>
  BY <1>1 DEF Next1
<1>4. ip \in 1 .. Len(list) /\ Says(tree, list[ip]) /\ Tree(tree)
  BY <1>1, InstructionIs
<1> HIDE DEF e
<1>5. /\ count' = count + 1
      /\ Len(elts') = IF count = Len(elts) THEN Len(elts) + 1 ELSE Len(elts)
      /\ \A i \in 1 .. Len(elts') : elts'[i] = IF i = count + 1 THEN e ELSE elts[i]
  BY <1>1, StackIs, PushedIs
<1>6. QED
  BY <1>1, <1>2, <1>3, <1>4, <1>5 DEF e

\* What a from that has an effect finds and leaves.
LEMMA FromIs ==
  ASSUME PoolInv, RunInv, At("run"), HasProgram(tree, list), DepthOK, FromStep
  PROVE  /\ ip' = ip + 1 /\ scan = -1 /\ scan' = -1 /\ UNCHANGED <<bendVars, builtinVars, props, calcs>>
         /\ ip \in 1 .. Len(list) /\ list[ip].op = "from"
         /\ ip >= 3 /\ Len(elts) = ip - 1 /\ count = ip - 1 /\ Len(elts') = ip - 1
         /\ elts[ip - 2] = Source(elts[ip - 2].type, elts[ip - 2].name, elts[ip - 2].value)
         /\ IF elts[ip - 2].type = "hash_decl"
              THEN /\ count' = count
                   /\ \A i \in 1 .. ip - 1 : elts'[i] =
                        IF i = ip - 1 THEN Source("hash_definition", elts[ip - 2].value, elts[ip - 1].value)
                                      ELSE elts[i]
              ELSE /\ count' = count - 1
                   /\ \A i \in 1 .. ip - 1 : elts'[i] =
                        IF i = ip - 2 THEN Source(elts[ip - 2].type, elts[ip - 2].name, elts[ip - 1].value)
                                      ELSE elts[i]
<1> DEFINE at == list[ip].op1[2]
           to == Element(at)
           from == Element(list[ip].op2[2])
<1>1. ip' = ip + 1 /\ scan = -1 /\ scan' = -1 /\ ip <= Len(list) /\ Next1 /\ list[ip].op = "from"
  BY DEF FromStep, AtStep, Next1
<1>2. UNCHANGED <<bendVars, builtinVars, props, calcs>>
  BY <1>1 DEF Next1
<1>3. /\ from # Null
      /\ IF to.type = "hash_decl"
           THEN /\ elts' = [elts EXCEPT ![count] = Source("hash_definition", to.value, from.value)]
                /\ count' = count
           ELSE /\ elts' = [elts EXCEPT ![at + 1] = [elts[at + 1] EXCEPT !.value = from.value]]
                /\ count' = count - 1
  BY DEF FromStep
<1>4. ip \in 1 .. Len(list)
  BY <1>1, InstructionIs
<1>5. ip >= 3 /\ list[ip].op1 = Position(ip - 3) /\ list[ip].op2 = Position(ip - 2)
  BY <1>1, <1>4, InstructionSays
<1>6. at = ip - 3 /\ list[ip].op2[2] = ip - 2
  BY <1>5, OperandIs
<1>7. Len(elts) \in Nat /\ count \in Nat /\ DOMAIN elts = 1 .. Len(elts) /\ ip \in Nat
  BY StackIs
<1> HIDE DEF at
<1>8. (ip - 2) + 1 \in 1 .. Len(elts)
  BY <1>3, <1>6, <1>7 DEF Element
<1>9. Len(elts) = ip - 1 /\ count = ip - 1
  BY <1>7, <1>8 DEF DepthOK
<1>10. from = elts[ip - 1]
  <2>1. from = elts[(ip - 2) + 1] /\ (ip - 2) + 1 = ip - 1
    BY <1>6, <1>7, <1>8 DEF Element
  <2>2. QED
    BY <2>1
<1>11. at + 1 = ip - 2 /\ ip - 2 \in 1 .. Len(elts)
  BY <1>5, <1>6, <1>7, <1>9
<1>12. to = elts[ip - 2]
  BY <1>7, <1>11 DEF Element
<1>13. elts[ip - 2] = Source(elts[ip - 2].type, elts[ip - 2].name, elts[ip - 2].value)
  BY <1>11, StackIs DEF StackOK, IsSource
<1> HIDE DEF to, from
<1>14. StackOK
  BY StackIs
<1>15. CASE elts[ip - 2].type = "hash_decl"
  <2> DEFINE e == Source("hash_definition", elts[ip - 2].value, elts[ip - 1].value)
  <2>1. elts' = [elts EXCEPT ![count] = e] /\ count' = count
    BY <1>3, <1>10, <1>12, <1>15
  <2> HIDE DEF e
  <2>2. Len(elts') = Len(elts) /\ \A i \in 1 .. Len(elts) : elts'[i] = IF i = count THEN e ELSE elts[i]
    BY <1>14, <2>1, ReplacedIs
  <2>3. \A i \in 1 .. ip - 1 : elts'[i] = IF i = ip - 1 THEN e ELSE elts[i]
    BY <1>9, <2>2
  <2>4. QED
    BY <1>1, <1>2, <1>4, <1>5, <1>9, <1>13, <1>15, <2>1, <2>2, <2>3 DEF e
<1>16. CASE elts[ip - 2].type # "hash_decl"
  <2> DEFINE e == [elts[ip - 2] EXCEPT !.value = elts[ip - 1].value]
             s == Source(elts[ip - 2].type, elts[ip - 2].name, elts[ip - 1].value)
  <2>1. elts' = [elts EXCEPT ![ip - 2] = e] /\ count' = count - 1
    BY <1>3, <1>10, <1>11, <1>12, <1>16
  <2>2. e = s
    BY <1>13 DEF Source
  <2> HIDE DEF e, s
  <2>3. Len(elts') = Len(elts) /\ \A i \in 1 .. Len(elts) : elts'[i] = IF i = ip - 2 THEN s ELSE elts[i]
    BY <1>14, <2>1, <2>2, ReplacedIs
  <2>4. \A i \in 1 .. ip - 1 : elts'[i] = IF i = ip - 2 THEN s ELSE elts[i]
    BY <1>9, <2>3
  <2>5. QED
    BY <1>1, <1>2, <1>4, <1>5, <1>9, <1>13, <1>16, <2>1, <2>3, <2>4 DEF s
<1>17. QED
  BY <1>15, <1>16

\* One step of the scan of a select.
LEMMA ScanIs ==
  ASSUME PoolInv, RunInv, At("run"), ScanStep
  PROVE  /\ UNCHANGED <<bendVars, ip, elts, count>> /\ scan' = scan - 1
         /\ scan \in 1 .. count /\ scan \in 1 .. Len(elts) /\ scan # -1 /\ scan' # -1 /\ ~BuiltinIsOpen
<1>1. UNCHANGED <<bendVars, ip, elts, count>> /\ scan' = scan - 1 /\ scan > 0 /\ ~BuiltinIsOpen
  BY DEF ScanStep, ScanOn
<1>2. scan \in Int /\ scan <= count /\ count \in Nat /\ count <= Len(elts) /\ Len(elts) \in Nat
  BY StackIs
<1>3. QED
  BY <1>1, <1>2

\* Only from fails for a position.
LEMMA OnlyFrom ==
  ASSUME RunInstruction, fault = "", fault' = "position"
  PROVE  OnFrom
<1>1. fault' # fault /\ fault' \notin {"value", "table", "iterator"}
  OBVIOUS
<1>2. ASSUME NEW f PROVE Fault(f) => fault' = f
  BY DEF Fault
<1>3. Next1 \/ Pass => fault' = fault
  BY DEF Next1, Pass
<1>4. ASSUME NEW b, NEW h, NEW v PROVE Calculate(b, h, v) => fault' \in {fault, "value"}
  BY <1>2 DEF Calculate
<1>5. ~(OnDef \/ OnString \/ OnProperty \/ OnNothing)
  BY <1>1, <1>3 DEF OnDef, OnString, OnProperty, OnNothing
<1>6. ~(OnSelect \/ SelectEnds \/ CalculationEnds)
  BY <1>1 DEF OnSelect, SelectEnds, CalculationEnds
<1>7. ~ScanProperty
  BY <1>1, <1>2 DEF ScanProperty
<1>8. ~(ScanString \/ ScanDeclaration \/ ScanDefinition \/ ScanHashDeclaration)
  BY <1>1, <1>2, <1>3, <1>4 DEF ScanString, ScanDeclaration, ScanDefinition, ScanHashDeclaration
<1>9. QED
  BY <1>5, <1>6, <1>7, <1>8 DEF RunInstruction

LEMMA NoPosition ==
  ASSUME PoolInv, RunInv, At("run"), DepthOK, HasProgram(tree, list), RunInstruction
  PROVE  fault' # "position"
<1> SUFFICES ASSUME fault' = "position" PROVE FALSE
  OBVIOUS
<1>1. fault = ""
  BY AtRun
<1>2. OnFrom
  BY <1>1, OnlyFrom
<1> DEFINE at == list[ip].op1[2]
           to == Element(at)
           from == Element(list[ip].op2[2])
<1>3. AtInstruction("from")
  BY <1>2 DEF OnFrom
<1>4. at < 0 \/ (from # Null /\ (to = Null \/ count = 0))
  <2>1. ~Next1
    BY <1>1 DEF Next1
  <2>2. QED
    BY <1>2, <2>1 DEF OnFrom
<1>5. ip <= Len(list) /\ list[ip].op = "from"
  BY <1>3 DEF AtInstruction
<1>6. ip >= 3 /\ list[ip].op1 = Position(ip - 3) /\ list[ip].op2 = Position(ip - 2)
  BY <1>5, InstructionIs, InstructionSays
<1>7. at = ip - 3 /\ list[ip].op2[2] = ip - 2
  BY <1>6, OperandIs
<1>8. Len(elts) \in Nat /\ count \in Nat /\ DOMAIN elts = 1 .. Len(elts) /\ ip \in Nat
  BY StackIs
<1>9. ~(at < 0)
  BY <1>6, <1>7, <1>8
<1> HIDE DEF at
<1>10. (ip - 2) + 1 \in 1 .. Len(elts)
  BY <1>4, <1>7, <1>8, <1>9 DEF Element
<1>11. Len(elts) = ip - 1 /\ count = ip - 1
  BY <1>8, <1>10 DEF DepthOK
<1>12. at + 1 \in 1 .. Len(elts) /\ count # 0
  BY <1>6, <1>7, <1>8, <1>11
<1>13. to = elts[at + 1]
  BY <1>8, <1>12 DEF Element
<1>14. to.type \in SourceTypes
  BY <1>12, <1>13 DEF DepthOK
<1>15. to # Null
  <2>1. Null.type = "null"
    BY Zenon DEF Null, Source
  <2>2. "null" \notin SourceTypes
    BY DEF SourceTypes, DeclaredTypes
  <2>3. QED
    BY <1>14, <2>1, <2>2
<1>16. QED
  BY <1>4, <1>9, <1>12, <1>15

LEMMA StepDepth ==
  ASSUME PoolInv, RunInv, DepthOK, At("run"), UNCHANGED stage, HasProgram(tree, list), RunInstruction
  PROVE  DepthInv'
<1> SUFFICES ASSUME PushStep \/ PlainStep \/ FromStep \/ OnSelect \/ ScanStep \/ SelectEnds \/ CalculationEnds
             PROVE  DepthOK'
  BY RunSteps DEF DepthInv
<1>1. /\ StackOK /\ ScanOK
      /\ Len(elts) \in Nat /\ count \in Nat /\ count <= Len(elts) /\ DOMAIN elts = 1 .. Len(elts)
      /\ ip \in Nat /\ ip # 0 /\ scan \in Int /\ scan <= count
  BY StackIs
<1>2. /\ Len(elts) <= ip - 1
      /\ Len(elts) = ip - 1 => count = ip - 1
      /\ \A i \in 1 .. Len(elts) : elts[i].type \in SourceTypes
      /\ scan # -1 => ip <= Len(list) /\ list[ip].op = "select"
  BY DEF DepthOK
<1>3. CASE PushStep
  <2> DEFINE e == SourceOf(list[ip])
  <2>1. /\ ip' = ip + 1 /\ scan' = -1
        /\ Says(tree, list[ip]) /\ Tree(tree) /\ list[ip].op \in {"def", "string", "property"}
        /\ ~(list[ip].op = "def" /\ list[ip].op1 = Type("dynamic"))
        /\ count' = count + 1
        /\ Len(elts') = IF count = Len(elts) THEN Len(elts) + 1 ELSE Len(elts)
        /\ \A i \in 1 .. Len(elts') : elts'[i] = IF i = count + 1 THEN e ELSE elts[i]
    BY <1>3, PushIs
  <2>2. e.type \in SourceTypes
    <3>1. e.type \in DeclaredTypes \/ e.type = "string_def" \/ e.type = "prop_call"
      <4>1. CASE list[ip].op = "def"
        BY <2>1, <4>1, SourceOfType
      <4>2. CASE list[ip].op = "string"
        BY <2>1, <4>2, SourceOfType, StringOfIs
      <4>3. CASE list[ip].op = "property"
        BY <2>1, <4>3, SourceOfType DEF Source
      <4>4. QED
        BY <2>1, <4>1, <4>2, <4>3
    <3>2. QED
      BY <3>1 DEF SourceTypes
  <2> HIDE DEF e
  <2>3. Len(elts') <= ip' - 1 /\ (Len(elts') = ip' - 1 => count' = ip' - 1)
    <3>1. /\ Len(elts') = IF count = Len(elts) THEN Len(elts) + 1 ELSE Len(elts)
          /\ Len(elts) \in Nat /\ count \in Nat /\ count <= Len(elts) /\ ip \in Nat
          /\ Len(elts) <= ip - 1 /\ (Len(elts) = ip - 1 => count = ip - 1)
      BY <1>1, <1>2, <2>1
    <3>2. ip' = ip + 1 /\ count' = count + 1
      BY <2>1
    <3>3. QED
      BY <3>1, <3>2
  <2>4. \A i \in 1 .. Len(elts') : i = count + 1 \/ i \in 1 .. Len(elts)
    <3>1. /\ Len(elts') = IF count = Len(elts) THEN Len(elts) + 1 ELSE Len(elts)
          /\ Len(elts) \in Nat /\ count \in Nat
      BY <1>1, <2>1
    <3>2. QED
      BY <3>1
  <2>5. \A i \in 1 .. Len(elts') : elts'[i].type \in SourceTypes
    BY <1>2, <2>1, <2>2, <2>4
  <2>6. QED
    BY <2>1, <2>3, <2>5 DEF DepthOK
<1>4. CASE PlainStep
  <2>1. ip' = ip + 1 /\ scan' = -1 /\ UNCHANGED <<elts, count>>
    BY <1>4 DEF PlainStep, AtStep, Next1
  <2>2. Len(elts') <= ip' - 1 /\ Len(elts') # ip' - 1
    <3>1. Len(elts) <= ip - 1 /\ Len(elts) \in Nat /\ ip \in Nat
      BY <1>1, <1>2
    <3>2. elts' = elts /\ ip' = ip + 1
      BY <2>1
    <3>3. QED
      BY <3>1, <3>2
  <2>3. \A i \in 1 .. Len(elts') : elts'[i].type \in SourceTypes
    BY <1>2, <2>1
  <2>4. QED
    BY <2>1, <2>2, <2>3 DEF DepthOK
<1>5. CASE FromStep
  <2>1. /\ ip' = ip + 1 /\ scan' = -1
        /\ ip >= 3 /\ Len(elts) = ip - 1 /\ Len(elts') = ip - 1
    BY <1>5, FromIs
  <2>2. /\ IF elts[ip - 2].type = "hash_decl"
             THEN \A i \in 1 .. ip - 1 : elts'[i] =
                        IF i = ip - 1 THEN Source("hash_definition", elts[ip - 2].value, elts[ip - 1].value)
                                      ELSE elts[i]
             ELSE \A i \in 1 .. ip - 1 : elts'[i] =
                        IF i = ip - 2 THEN Source(elts[ip - 2].type, elts[ip - 2].name, elts[ip - 1].value)
                                      ELSE elts[i]
    BY <1>5, FromIs
  <2>3. ASSUME NEW a, NEW b, NEW c PROVE Source(a, b, c).type = a
    BY DEF Source
  <2>4. ip - 2 \in 1 .. Len(elts) /\ "hash_definition" \in SourceTypes
    BY <1>1, <2>1 DEF SourceTypes
  <2>5. \A i \in 1 .. ip - 1 : elts'[i].type \in SourceTypes
    BY <1>2, <2>1, <2>2, <2>3, <2>4
  <2>6. Len(elts') <= ip' - 1 /\ Len(elts') # ip' - 1
    BY <1>1, <2>1
  <2>7. QED
    BY <2>1, <2>5, <2>6 DEF DepthOK
<1>6. CASE OnSelect
  <2>1. ip <= Len(list) /\ list[ip].op = "select" /\ UNCHANGED <<list, ip, elts, count>>
    BY <1>6 DEF OnSelect, AtInstruction, bendVars
  <2>2. QED
    BY <1>2, <2>1 DEF DepthOK
<1>7. CASE ScanStep
  <2>1. UNCHANGED <<list, ip, elts, count>> /\ scan # -1
    BY <1>7, ScanIs DEF bendVars
  <2>2. QED
    BY <1>2, <2>1 DEF DepthOK
<1>8. CASE SelectEnds
  <2>1. UNCHANGED <<list, elts, count>> /\ scan' = -1 /\ ip' = ip + 1
    BY <1>8 DEF SelectEnds, bendVars
  <2>2. Len(elts') <= ip' - 1 /\ Len(elts') # ip' - 1
    <3>1. Len(elts) <= ip - 1 /\ Len(elts) \in Nat /\ ip \in Nat
      BY <1>1, <1>2
    <3>2. elts' = elts /\ ip' = ip + 1
      BY <2>1
    <3>3. QED
      BY <3>1, <3>2
  <2>3. \A i \in 1 .. Len(elts') : elts'[i].type \in SourceTypes
    BY <1>2, <2>1
  <2>4. QED
    BY <2>1, <2>2, <2>3 DEF DepthOK
<1>9. CASE CalculationEnds
  <2>1. UNCHANGED <<list, ip, elts, count, scan>>
    BY <1>9 DEF CalculationEnds, bendVars, procVars
  <2>2. QED
    BY <1>2, <2>1 DEF DepthOK
<1>10. QED
  BY <1>3, <1>4, <1>5, <1>6, <1>7, <1>8, <1>9

-----------------------------------------------------------------------------
(* The instructions of a query                                              *)

\* The list begins with the declaration of the first from.
LEMMA FirstInstruction ==
  ASSUME NEW t, NEW l, HasProgram(t, l), StrayUsers(t) = {}
  PROVE  /\ Len(l) \in Nat /\ 1 \in 1 .. Len(l) /\ l[1].node = Front(t) /\ IsDeclaration(t, Front(t))
         /\ l[1].op = "def" /\ l[1].op1 = TypeOperand(t, Front(t) - 1)
         /\ l[1].op2 = Name(t[Front(t)].value)
<1>1. Tree(t) /\ Roomy(t, l, Len(t)) /\ Complete(t, l, Len(t))
  BY DEF HasProgram, Listed
<1>2. IsDeclaration(t, Front(t)) /\ Front(t) <= Len(t)
  <2>1. IsDeclaration(t, Front(t)) /\ Front(t) \in {2, 3} /\ Front(t) < HeadFrom(t) /\ HeadFrom(t) < Len(t)
        /\ HeadFrom(t) \in DOMAIN t /\ Len(t) \in Nat
    BY <1>1, FrontShape
  <2>2. HeadFrom(t) \in Nat
    BY <1>1, <2>1, NodeTyped DEF Tree
  <2>3. QED
    BY <2>1, <2>2
<1>3. l[1].node = Front(t)
  <2>1. Front(t) \in Nat /\ Len(t) \in Nat
    BY <1>1, FrontShape
  <2>2. Len(t) >= Front(t)
    BY <1>2, <2>1
  <2>3. QED
    BY <1>1, <2>2 DEF Complete
<1>4. Len(l) \in Nat /\ Len(l) >= 1
  BY <1>1, InstructionSays DEF Roomy
<1>5. 1 \in 1 .. Len(l)
  BY <1>4
<1>6. Says(t, l[1])
  BY <1>5, InstructionSays
<1>7. QED
  BY <1>2, <1>3, <1>4, <1>5, <1>6 DEF Says

LEMMA EntryOf ==
  ASSUME NEW t, NEW l, HasProgram(t, l), StrayUsers(t) = {}, NEW i \in DOMAIN t, Lasting(t, i)
  PROVE  \E k \in 1 .. Len(l) : l[k].node = i
<1>1. i \in 1 .. Len(t)
  BY DEF HasProgram, Tree, WellNumbered
<1>2. Complete(t, l, Len(t))
  BY DEF HasProgram, Listed
<1>3. QED
  BY <1>1, <1>2 DEF Complete

\* A string that the first from reads comes next, and then the from.
LEMMA StringInstructions ==
  ASSUME NEW t, NEW l, HasProgram(t, l), StrayUsers(t) = {}, SourceString(t, HeadFrom(t)) # {}
  PROVE  /\ 2 \in 1 .. Len(l) /\ l[2].node = Front(t) + 1 /\ l[2].op = "string"
         /\ 3 \in 1 .. Len(l) /\ l[3].node = HeadFrom(t) /\ l[3].op = "from"
<1> DEFINE d == Front(t)
<1>1. /\ HeadFrom(t) = d + 3 /\ t[d + 1].type = "string" /\ t[d + 2].type = "unary"
      /\ d + 1 \in DOMAIN t /\ d + 3 \in DOMAIN t /\ t[d + 3].type = "from" /\ d \in Nat
  BY StringSource, FrontShape DEF HasProgram
<1>2. l[1].node = d /\ 1 \in 1 .. Len(l) /\ Len(l) \in Nat
  BY FirstInstruction
<1>3. PICK j \in 1 .. Len(l) : l[j].node = d + 1
  BY <1>1, EntryOf DEF Lasting
<1>4. PICK k \in 1 .. Len(l) : l[k].node = d + 3
  BY <1>1, EntryOf DEF Lasting
<1> HIDE DEF d
<1>5. 1 < j /\ j < k /\ j \in Nat /\ k \in Nat
  BY <1>1, <1>2, <1>3, <1>4, SameInstruction
<1>6. 2 \in 1 .. Len(l) /\ 3 \in 1 .. Len(l)
  BY <1>2, <1>3, <1>4, <1>5
<1>7. \A i \in 1 .. Len(l) : l[i].node \in Nat /\ l[i].node # d + 2
  <2> SUFFICES ASSUME NEW i \in 1 .. Len(l) PROVE l[i].node \in Nat /\ l[i].node # d + 2
    OBVIOUS
  <2>1. Says(t, l[i])
    BY InstructionSays
  <2>2. l[i].node \in Nat
    BY <2>1, NodeTyped DEF Says, HasProgram, Tree
  <2>3. t[l[i].node].type # "unary"
    BY <2>1 DEF Says, Emitting
  <2>4. QED
    BY <1>1, <2>2, <2>3
<1>8. j = 2
  <2> SUFFICES ASSUME j # 2 PROVE FALSE
    OBVIOUS
  <2>1. 1 < 2 /\ 2 < j
    BY <1>5
  <2>2. l[1].node < l[2].node /\ l[2].node < l[j].node
    BY <1>2, <1>6, <2>1, SameInstruction
  <2>3. QED
    BY <1>1, <1>2, <1>3, <1>6, <1>7, <2>2
<1>9. k = 3
  <2> SUFFICES ASSUME k # 3 PROVE FALSE
    OBVIOUS
  <2>1. 2 < 3 /\ 3 < k
    BY <1>5, <1>8
  <2>2. l[2].node < l[3].node /\ l[3].node < l[k].node
    BY <1>6, <2>1, SameInstruction
  <2>3. l[3].node \in Nat /\ l[3].node # d + 2
    BY <1>6, <1>7
  <2>4. QED
    BY <1>1, <1>3, <1>4, <1>8, <2>2, <2>3
<1>10. Says(t, l[2]) /\ Says(t, l[3])
  BY <1>6, InstructionSays
<1>11. l[2].op = "string" /\ l[3].op = "from"
  BY <1>1, <1>3, <1>4, <1>8, <1>9, <1>10 DEF Says
<1>12. QED
  BY <1>1, <1>3, <1>4, <1>6, <1>8, <1>9, <1>11 DEF d

\* If there is no other string, no other instruction is one.
LEMMA OneString ==
  ASSUME NEW t, NEW l, HasProgram(t, l), StrayUsers(t) = {}, LooseStrings(t) = {},
         HasOne(t, "select") \/ HasOne(t, "from"), NEW k \in 1 .. Len(l), l[k].op = "string"
  PROVE  k = 2 /\ SourceString(t, HeadFrom(t)) # {} /\ l[k].node = Front(t) + 1
<1>1. FirstFrom(t) = HeadFrom(t)
  BY FirstFromIs DEF HasProgram
<1>2. l[k].node \in NodesOf(t, "string")
  BY InstructionSays DEF Says, NodesOf
<1>3. l[k].node \in SourceString(t, HeadFrom(t))
  BY <1>1, <1>2 DEF LooseStrings
<1>4. SourceString(t, HeadFrom(t)) = {Front(t) + 1}
  BY <1>3, StringSource DEF HasProgram
<1>5. 2 \in 1 .. Len(l) /\ l[2].node = Front(t) + 1
  BY <1>3, StringInstructions
<1>6. QED
  BY <1>3, <1>4, <1>5, SameInstruction

\* The only select is the last instruction.
LEMMA SelectEndsList ==
  ASSUME NEW t, NEW l, HasProgram(t, l), HasOne(t, "select"), NEW k \in 1 .. Len(l), l[k].op = "select"
  PROVE  k = Len(l)
<1> DEFINE n == Len(t)
<1>1. /\ n \in Nat /\ t[n].type = "query" /\ t[n - 1].type = "query_body"
      /\ \A i \in DOMAIN t : t[i].type = "select" => i = n - 2
  BY SelectIsLast DEF HasProgram
<1>2. Len(l) \in Nat /\ Says(t, l[k])
  BY InstructionSays
<1>3. l[k].node = n - 2
  BY <1>1, <1>2 DEF Says
<1> SUFFICES ASSUME k # Len(l) PROVE FALSE
  OBVIOUS
<1> DEFINE m == Len(l)
<1>4. m \in 1 .. Len(l) /\ k < m
  BY <1>2
<1>5. l[k].node < l[m].node /\ Says(t, l[m])
  BY <1>4, SameInstruction, InstructionSays
<1>6. l[m].node \in DOMAIN t /\ t[l[m].node].type \in Emitting
  BY <1>5 DEF Says
<1>7. l[m].node \in Nat /\ l[m].node <= n
  <2>1. DOMAIN t = 1 .. n
    BY DEF HasProgram, Tree, WellNumbered
  <2>2. QED
    BY <1>1, <1>6, <2>1
<1> HIDE DEF n, m
<1>8. l[m].node = n \/ l[m].node = n - 1
  BY <1>1, <1>3, <1>5, <1>7
<1>9. QED
  BY <1>1, <1>6, <1>8 DEF Emitting

\* The first from comes before any other, and only its declaration before it.
LEMMA FirstFromFirst ==
  ASSUME NEW t, NEW l, HasProgram(t, l), StrayUsers(t) = {}, HasOne(t, "select"),
         NEW k \in 1 .. Len(l), l[k].op = "from", \A j \in 1 .. k - 1 : l[j].op # "from"
  PROVE  l[k].node = HeadFrom(t) /\ \A j \in 1 .. k - 1 : l[j].op = "def" => j = 1
<1>1. Tree(t) /\ Len(l) \in Nat
  BY InstructionSays DEF HasProgram
<1>2. HeadFrom(t) \in DOMAIN t /\ t[HeadFrom(t)].type = "from"
  BY <1>1, FrontShape
<1>3. PICK j \in 1 .. Len(l) : l[j].node = HeadFrom(t)
  BY <1>2, EntryOf DEF Lasting
<1>4. l[j].op = "from"
  BY <1>2, <1>3, InstructionSays DEF Says
<1>5. l[k].node \in Froms(t)
  BY InstructionSays DEF Says, Froms, NodesOf
<1>6. HeadFrom(t) <= l[k].node
  BY <1>1, <1>5, FirstFromIs
<1>7. j = k
  <2>1. HeadFrom(t) \in Nat /\ l[k].node \in Nat
    BY <1>1, <1>2, <1>5, NodeTyped DEF Tree, Froms, NodesOf
  <2>2. ~(l[k].node < l[j].node)
    BY <1>3, <1>6, <2>1
  <2>3. ~(k < j)
    BY <2>2, SameInstruction
  <2>4. ~(j \in 1 .. k - 1)
    BY <1>4
  <2>5. QED
    BY <1>1, <2>3, <2>4
<1>8. ASSUME NEW i \in 1 .. k - 1, l[i].op = "def" PROVE i = 1
  <2>1. i \in 1 .. Len(l) /\ i < k
    BY <1>1, <1>8
  <2>2. Says(t, l[i])
    BY <2>1, InstructionSays
  <2>3. IsDeclaration(t, l[i].node) /\ l[i].node \in DOMAIN t
    BY <1>8, <2>2 DEF Says
  <2>4. l[i].node < HeadFrom(t)
    BY <1>3, <1>7, <2>1, SameInstruction
  <2>5. l[i].node <= HeadFrom(t)
    <3>1. l[i].node \in Nat /\ HeadFrom(t) \in Nat
      BY <1>1, <1>2, <2>3, NodeTyped DEF Tree
    <3>2. QED
      BY <2>4, <3>1
  <2>6. l[i].node = Front(t)
    BY <1>1, <2>3, <2>5, FrontIsLeast
  <2>7. QED
    BY <2>1, <2>6, FirstInstruction, SameInstruction
<1>9. QED
  BY <1>3, <1>7, <1>8

\* A query whose declarations all get a string has one from and no join, and
\* its list begins with them.
LEMMA SourcedQuery ==
  ASSUME NEW t, Tree(t), Sourceless(t) = {}
  PROVE  /\ Froms(t) = {HeadFrom(t)} /\ SourceString(t, HeadFrom(t)) # {} /\ StrayUsers(t) = {}
         /\ \A i : IsDeclaration(t, i) => i = Front(t)
<1>1. HeadFrom(t) \in Froms(t) /\ Froms(t) \subseteq Nat /\ NodesOf(t, "join") = {}
  BY FrontShape, NodeTyped DEF Tree, Froms, NodesOf, Sourceless
<1>2. \A f \in Froms(t) : SourceString(t, f) # {} /\ \A g \in Froms(t) : ~(g < f)
  BY DEF Sourceless
<1>3. \A f \in Froms(t) : f = HeadFrom(t)
  BY <1>1, <1>2
<1>4. ASSUME NEW i, IsDeclaration(t, i) PROVE i = Front(t)
  <2>1. i \in DOMAIN t /\ t[i].type = "identifier" /\ Sort(t, i) = "declaration"
    BY <1>4, TypeOfSort, NodeTyped DEF IsDeclaration, Tree
  <2>2. i # Len(t)
    <3>1. Sort(t, Len(t)) = "query"
      BY DEF Tree, Grammatical
    <3>2. QED
      BY <2>1, <3>1
  <2>3. PICK q \in DOMAIN t : i < q /\ i \in {t[q].left, t[q].right}
    BY <2>1, <2>2, HasParent DEF Tree
  <2>4. /\ Sort(t, q) \in DOMAIN Rules
        /\ i = t[q].left => "declaration" \in Rules[Sort(t, q)][1]
        /\ i = t[q].right => "declaration" \in Rules[Sort(t, q)][2]
    BY <2>1, <2>3, ChildSorts
  <2>5. Sort(t, q) \in {"from", "join"} /\ i = t[q].left
    BY <2>3, <2>4, Below
  <2>6. t[q].type \in {"from", "join"}
    BY <2>3, <2>5, TypeOfSort, NodeTyped DEF Tree, SortTypes
  <2>7. q = HeadFrom(t)
    BY <1>1, <1>3, <2>3, <2>6 DEF Froms, NodesOf
  <2>8. QED
    BY <2>5, <2>7 DEF Front
<1>5. StrayUsers(t) = {}
  <2> SUFFICES ASSUME NEW i \in StrayUsers(t) PROVE FALSE
    OBVIOUS
  <2>1. i \in DOMAIN t /\ t[i].type = "internal_type" /\ t[i].value = "user" /\ i # 2
    BY DEF StrayUsers, NodesOf
  <2>2. IsDeclaration(t, i + 1)
    BY <2>1, AboveType
  <2>3. i + 1 = Front(t) /\ Front(t) \in {2, 3}
    BY <1>4, <2>2, FrontShape
  <2>4. IsName(t, i - 1)
    BY <2>1, TypeShape
  <2>5. i - 1 \in Nat /\ i - 1 # 0 /\ i \in Nat
    BY <2>1, <2>4, NodeTyped DEF Tree, IsName
  <2>6. QED
    BY <2>1, <2>3, <2>5
<1>6. QED
  BY <1>1, <1>2, <1>3, <1>4, <1>5

LEMMA SourcedList ==
  ASSUME NEW t, NEW l, HasProgram(t, l), Sourceless(t) = {}
  PROVE  /\ Len(l) \in Nat /\ Len(l) >= 3
         /\ l[1].op = "def" /\ l[1].op1 = TypeOperand(t, Front(t) - 1) /\ l[1].op2 = Name(t[Front(t)].value)
         /\ l[2].op = "string" /\ l[2].node = Front(t) + 1 /\ Says(t, l[2])
         /\ l[3].op = "from" /\ l[3].node = HeadFrom(t)
         /\ \A k \in 1 .. Len(l) : (l[k].op = "def" => k = 1) /\ (l[k].op = "from" => k = 3)
<1>1. /\ Froms(t) = {HeadFrom(t)} /\ SourceString(t, HeadFrom(t)) # {} /\ StrayUsers(t) = {}
      /\ \A i : IsDeclaration(t, i) => i = Front(t)
  BY SourcedQuery DEF HasProgram
<1>2. /\ 1 \in 1 .. Len(l) /\ l[1].node = Front(t) /\ Len(l) \in Nat
      /\ l[1].op = "def" /\ l[1].op1 = TypeOperand(t, Front(t) - 1) /\ l[1].op2 = Name(t[Front(t)].value)
  BY <1>1, FirstInstruction
<1>3. /\ 2 \in 1 .. Len(l) /\ l[2].node = Front(t) + 1 /\ l[2].op = "string"
      /\ 3 \in 1 .. Len(l) /\ l[3].node = HeadFrom(t) /\ l[3].op = "from"
  BY <1>1, StringInstructions
<1>4. Len(l) >= 3 /\ Says(t, l[2])
  BY <1>2, <1>3, InstructionSays
<1>5. ASSUME NEW k \in 1 .. Len(l) PROVE (l[k].op = "def" => k = 1) /\ (l[k].op = "from" => k = 3)
  <2>1. Says(t, l[k])
    BY InstructionSays
  <2>2. l[k].op = "def" => l[k].node = Front(t)
    BY <1>1, <2>1 DEF Says
  <2>3. l[k].op = "from" => l[k].node = HeadFrom(t)
    BY <1>1, <2>1 DEF Says, Froms, NodesOf
  <2>4. QED
    BY <1>2, <1>3, <2>2, <2>3, SameInstruction
<1>6. QED
  BY <1>2, <1>3, <1>4, <1>5

-----------------------------------------------------------------------------
(* The table of a run                                                       *)

\* The sources that a select may run a builtin for.
Calculates(e) ==
  e.type \in {"string_def", "hash_definition"}
    \/ (e.type \in {"string", "file", "dir"} /\ e.value # NoValue)

LEMMA PushedSource ==
  ASSUME NEW t, Tree(t), NEW i, Says(t, i), i.op \in {"def", "string", "property"},
         ~(i.op = "def" /\ i.op1 = Type("dynamic"))
  PROVE  LET e == SourceOf(i)
         IN  /\ i.op = "def" => e.type \in DeclaredTypes /\ ~Calculates(e)
             /\ i.op = "string" => e.type = "string_def"
             /\ i.op = "property" => e.type = "prop_call" /\ ~Calculates(e)
<1> DEFINE e == SourceOf(i)
<1>1. CASE i.op = "def"
  <2>1. e = Declared(i.op1, i.op2) /\ e.type \in DeclaredTypes
    BY <1>1, SourceOfType DEF SourceOf
  <2>2. e.type = "hash_decl" \/ e.value = NoValue
    BY <2>1 DEF Declared, Source
  <2>3. ~Calculates(e)
    BY <2>1, <2>2 DEF Calculates, DeclaredTypes
  <2>4. QED
    BY <1>1, <2>1, <2>3
<1>2. CASE i.op = "string"
  BY <1>2, SourceOfType, StringOfIs
<1>3. CASE i.op = "property"
  <2>1. e.type = "prop_call"
    BY <1>3, SourceOfType DEF Source
  <2>2. ~Calculates(e)
    BY <2>1 DEF Calculates
  <2>3. QED
    BY <1>3, <2>1, <2>2
<1>4. QED
  BY <1>1, <1>2, <1>3

\* What keeps the table in order.
OrderlyQuery(t) == HasOne(t, "select") /\ LooseStrings(t) = {} /\ StrayUsers(t) = {}

\* No property lies below a source that calculates, so that the scan looks up
\* all properties before the first calculation takes the table away.
TableKept ==
  /\ \A j \in 1 .. count : Calculates(elts[j]) => \A i \in 1 .. j - 1 : elts[i].type # "prop_call"
  /\ ip <= 2 => \A i \in 1 .. Len(elts) : elts[i].type # "prop_call"
  /\ Len(elts) = ip - 1 =>
       \A k \in 1 .. ip - 1 : list[k].op # "from" /\ (elts[k].type \in DeclaredTypes => list[k].op = "def")
  /\ \/ table = "proc"
     \/ scan # -1 /\ \A i \in 1 .. scan : elts[i].type # "prop_call"
     \/ scan = -1 /\ ip > Len(list)
  /\ PropsKnown

LEMMA TablePush ==
  ASSUME PoolInv, RunInv, DepthOK, At("run"), HasProgram(tree, list), OrderlyQuery(tree), TableKept, PushStep
  PROVE  TableKept'
<1> DEFINE e == SourceOf(list[ip])
<1>1. /\ ip' = ip + 1 /\ scan = -1 /\ scan' = -1 /\ UNCHANGED <<list, table, props>>
      /\ ip \in 1 .. Len(list) /\ Says(tree, list[ip]) /\ Tree(tree)
      /\ list[ip].op \in {"def", "string", "property"}
      /\ ~(list[ip].op = "def" /\ list[ip].op1 = Type("dynamic"))
      /\ count' = count + 1
      /\ Len(elts') = IF count = Len(elts) THEN Len(elts) + 1 ELSE Len(elts)
      /\ \A i \in 1 .. Len(elts') : elts'[i] = IF i = count + 1 THEN e ELSE elts[i]
  BY PushIs DEF bendVars, builtinVars
<1>2. /\ Len(elts) \in Nat /\ count \in Nat /\ count <= Len(elts) /\ ip \in Nat /\ ip # 0 /\ Len(list) \in Nat
  BY StackIs, InstructionSays
<1>3. /\ list[ip].op = "def" => e.type \in DeclaredTypes /\ ~Calculates(e)
      /\ list[ip].op = "string" => e.type = "string_def"
      /\ list[ip].op = "property" => e.type = "prop_call" /\ ~Calculates(e)
  BY <1>1, PushedSource
<1>4. list[ip].op = "string" => ip = 2
  BY <1>1, OneString DEF OrderlyQuery
<1>5. ip = 1 => list[ip].op = "def"
  BY FirstInstruction DEF OrderlyQuery
<1>6. table = "proc"
  BY <1>1, <1>2 DEF TableKept
<1> HIDE DEF e
<1>7. Len(elts) <= ip - 1 /\ (Len(elts) = ip - 1 => count = ip - 1)
  BY DEF DepthOK
<1>8. /\ \A i \in 1 .. count : i \in 1 .. Len(elts') /\ i # count + 1
      /\ count + 1 \in 1 .. Len(elts')
      /\ \A i \in 1 .. Len(elts') : i = count + 1 \/ i \in 1 .. Len(elts)
  <2>1. Len(elts') = IF count = Len(elts) THEN Len(elts) + 1 ELSE Len(elts)
    BY <1>1
  <2>2. QED
    BY <1>2, <2>1
<1>9. /\ \A i \in 1 .. count : elts'[i] = elts[i]
      /\ elts'[count + 1] = e
  BY <1>1, <1>8
<1>10. ASSUME NEW j \in 1 .. count', Calculates(elts'[j]), NEW i \in 1 .. j - 1
       PROVE  elts'[i].type # "prop_call"
  <2>1. i \in 1 .. count /\ (j \in 1 .. count \/ j = count + 1)
    BY <1>1, <1>2
  <2>2. CASE j \in 1 .. count
    BY <1>9, <1>10, <2>1, <2>2 DEF TableKept, Calculates
  <2>3. CASE j = count + 1
    <3>1. list[ip].op = "string"
      BY <1>1, <1>3, <1>9, <1>10, <2>3
    <3>2. ip <= 2
      BY <1>4, <3>1
    <3>3. i \in 1 .. Len(elts)
      BY <1>2, <2>1
    <3>4. QED
      BY <1>9, <2>1, <3>2, <3>3 DEF TableKept
  <2>4. QED
    BY <2>1, <2>2, <2>3
<1>11. ASSUME ip' <= 2, NEW i \in 1 .. Len(elts')
       PROVE  elts'[i].type # "prop_call"
  <2>1. ip = 1 /\ ip <= 2
    BY <1>1, <1>2, <1>11
  <2>2. e.type # "prop_call"
    BY <1>3, <1>5, <2>1 DEF DeclaredTypes
  <2>3. i # count + 1 => i \in 1 .. Len(elts) /\ elts'[i] = elts[i]
    BY <1>1, <1>8
  <2>4. i = count + 1 => elts'[i] = e
    BY <1>9
  <2>5. QED
    BY <2>1, <2>2, <2>3, <2>4 DEF TableKept
<1>12. ASSUME Len(elts') = ip' - 1, NEW k \in 1 .. ip' - 1
       PROVE  list[k].op # "from" /\ (elts'[k].type \in DeclaredTypes => list[k].op = "def")
  <2>1. Len(elts) = ip - 1 /\ count = ip - 1
    <3>1. Len(elts') = IF count = Len(elts) THEN Len(elts) + 1 ELSE Len(elts)
      BY <1>1
    <3>2. Len(elts') = ip
      BY <1>1, <1>2, <1>12
    <3>3. QED
      BY <1>2, <1>7, <3>1, <3>2
  <2>2. CASE k \in 1 .. ip - 1
    <3>1. elts'[k] = elts[k]
      BY <1>9, <2>1, <2>2
    <3>2. QED
      BY <2>1, <2>2, <3>1 DEF TableKept
  <2>3. CASE k = ip
    <3>1. elts'[k] = e
      BY <1>2, <1>9, <2>1, <2>3
    <3>2. list[k].op # "from"
      BY <1>1, <2>3
    <3>3. e.type \in DeclaredTypes => list[ip].op = "def"
      BY <1>1, <1>3 DEF DeclaredTypes
    <3>4. QED
      BY <2>3, <3>1, <3>2, <3>3
  <2>4. QED
    BY <1>1, <1>2, <2>2, <2>3
<1>13. PropsKnown'
  BY <1>1 DEF TableKept, PropsKnown
<1>14. list' = list /\ table' = "proc"
  BY <1>1, <1>6
<1>15. QED
  BY <1>10, <1>11, <1>12, <1>13, <1>14 DEF TableKept, Calculates

LEMMA TableFrom ==
  ASSUME PoolInv, RunInv, DepthOK, At("run"), HasProgram(tree, list), OrderlyQuery(tree), TableKept, FromStep
  PROVE  TableKept'
<1>1. /\ ip' = ip + 1 /\ scan = -1 /\ scan' = -1 /\ UNCHANGED <<list, table, props>>
      /\ ip \in 1 .. Len(list) /\ list[ip].op = "from"
      /\ ip >= 3 /\ Len(elts) = ip - 1 /\ count = ip - 1 /\ Len(elts') = ip - 1
  BY FromIs DEF bendVars, builtinVars
<1>2. IF elts[ip - 2].type = "hash_decl"
        THEN /\ count' = count
             /\ \A i \in 1 .. ip - 1 : elts'[i] =
                  IF i = ip - 1 THEN Source("hash_definition", elts[ip - 2].value, elts[ip - 1].value)
                                ELSE elts[i]
        ELSE /\ count' = count - 1
             /\ \A i \in 1 .. ip - 1 : elts'[i] =
                  IF i = ip - 2 THEN Source(elts[ip - 2].type, elts[ip - 2].name, elts[ip - 1].value)
                                ELSE elts[i]
  BY FromIs
<1>3. ip \in Nat /\ Len(list) \in Nat
  BY StackIs, InstructionSays
<1>4. \A k \in 1 .. ip - 1 : list[k].op # "from" /\ (elts[k].type \in DeclaredTypes => list[k].op = "def")
  BY <1>1 DEF TableKept
<1>5. \A k \in 1 .. ip - 1 : elts[k].type \in DeclaredTypes => k = 1
  BY <1>1, <1>4, FirstFromFirst DEF OrderlyQuery
<1>6. table = "proc"
  BY <1>1, <1>3 DEF TableKept
<1>7. \A j \in 1 .. ip - 1 : Calculates(elts[j]) => \A i \in 1 .. j - 1 : elts[i].type # "prop_call"
  BY <1>1 DEF TableKept
<1>8. ASSUME NEW j \in 1 .. count', Calculates(elts'[j]), NEW i \in 1 .. j - 1
      PROVE  elts'[i].type # "prop_call"
  <2>1. CASE elts[ip - 2].type = "hash_decl"
    <3>1. ip - 2 = 1
      BY <1>1, <1>3, <1>5, <2>1 DEF DeclaredTypes
    <3>2. count' = 2 /\ ip = 3
      BY <1>1, <1>2, <1>3, <2>1, <3>1
    <3>3. i = 1 /\ i \in 1 .. ip - 1 /\ i # ip - 1
      BY <3>2
    <3>4. elts'[i] = elts[i] /\ elts[i].type = "hash_decl"
      BY <1>2, <2>1, <3>1, <3>3
    <3>5. QED
      BY <3>4
  <2>2. CASE elts[ip - 2].type # "hash_decl"
    <3>1. count' = ip - 2
      BY <1>1, <1>2, <1>3, <2>2
    <3>2. i \in 1 .. ip - 1 /\ i # ip - 2 /\ j \in 1 .. ip - 1 /\ ip - 2 \in 1 .. ip - 1
      BY <1>1, <1>3, <3>1
    <3>3. elts'[i] = elts[i]
      BY <1>2, <2>2, <3>2
    <3>4. CASE j # ip - 2
      <4>1. elts'[j] = elts[j]
        BY <1>2, <2>2, <3>2, <3>4
      <4>2. QED
        BY <1>7, <1>8, <3>2, <3>3, <4>1
    <3>5. CASE j = ip - 2
      <4>1. elts'[j] = Source(elts[j].type, elts[j].name, elts[ip - 1].value)
        BY <1>2, <2>2, <3>2, <3>5
      <4>2. elts'[j].type = elts[j].type
        BY <4>1 DEF Source
      <4>3. CASE elts[j].type \in {"string_def", "hash_definition"}
        <5>1. Calculates(elts[j])
          BY <4>3 DEF Calculates
        <5>2. QED
          BY <1>7, <1>8, <3>2, <3>3, <5>1
      <4>4. CASE elts[j].type \notin {"string_def", "hash_definition"}
        <5>1. elts[j].type \in DeclaredTypes
          BY <1>8, <4>2, <4>4 DEF Calculates, DeclaredTypes
        <5>2. j = 1
          BY <1>5, <3>2, <5>1
        <5>3. QED
          BY <5>2
      <4>5. QED
        BY <4>3, <4>4
    <3>6. QED
      BY <3>4, <3>5
  <2>3. QED
    BY <2>1, <2>2
<1>9. ~(ip' <= 2) /\ Len(elts') # ip' - 1
  BY <1>1, <1>3
<1>10. PropsKnown'
  BY <1>1 DEF TableKept, PropsKnown
<1>11. table' = "proc"
  BY <1>1, <1>6
<1>12. QED
  BY <1>8, <1>9, <1>10, <1>11 DEF TableKept, Calculates

LEMMA TablePlain ==
  ASSUME PoolInv, RunInv, DepthOK, At("run"), HasProgram(tree, list), TableKept, PlainStep
  PROVE  TableKept'
<1>1. ip' = ip + 1 /\ scan = -1 /\ scan' = -1 /\ ip <= Len(list)
      /\ UNCHANGED <<list, table, props, elts, count>>
  BY DEF PlainStep, AtStep, Next1, bendVars, builtinVars
<1>2. ip \in Nat /\ Len(list) \in Nat
  BY StackIs, InstructionSays
<1>3. table = "proc"
  BY <1>1, <1>2 DEF TableKept
<1>4. Len(elts') # ip' - 1
  <2>1. Len(elts) <= ip - 1 /\ Len(elts) \in Nat
    BY StackIs DEF DepthOK
  <2>2. elts' = elts /\ ip' = ip + 1
    BY <1>1
  <2>3. QED
    BY <1>2, <2>1, <2>2
<1>5. ip' <= 2 => ip <= 2
  BY <1>1, <1>2
<1>6. PropsKnown'
  BY <1>1 DEF TableKept, PropsKnown
<1>7. QED
  BY <1>1, <1>3, <1>4, <1>5, <1>6 DEF TableKept, Calculates

LEMMA TableSelect ==
  ASSUME PoolInv, RunInv, DepthOK, At("run"), HasProgram(tree, list), TableKept, OnSelect
  PROVE  TableKept'
<1>1. scan = -1 /\ ip <= Len(list) /\ UNCHANGED <<list, table, ip, elts, count>> /\ props' = <<>>
  BY DEF OnSelect, AtInstruction, bendVars, builtinVars
<1>2. ip \in Nat /\ Len(list) \in Nat
  BY StackIs, InstructionSays
<1>3. table = "proc"
  BY <1>1, <1>2 DEF TableKept
<1>4. PropsKnown'
  BY <1>1 DEF PropsKnown
<1>5. QED
  BY <1>1, <1>3, <1>4 DEF TableKept, Calculates

LEMMA TableSelectEnds ==
  ASSUME PoolInv, RunInv, DepthOK, At("run"), HasProgram(tree, list), OrderlyQuery(tree), TableKept, SelectEnds
  PROVE  TableKept'
<1>1. scan = 0 /\ scan' = -1 /\ ip' = ip + 1 /\ UNCHANGED <<list, elts, count, props>>
  BY DEF SelectEnds, bendVars
<1>2. ip \in Nat /\ Len(list) \in Nat /\ Len(elts) \in Nat
  BY StackIs, InstructionSays
<1>3. Len(elts) <= ip - 1 /\ ip <= Len(list) /\ list[ip].op = "select"
  <2>1. scan # -1
    BY <1>1
  <2>2. QED
    BY <2>1 DEF DepthOK
<1>4. ip = Len(list)
  <2>1. ip \in 1 .. Len(list)
    BY <1>3, InstructionIs
  <2>2. QED
    BY <1>3, <2>1, SelectEndsList DEF OrderlyQuery
<1>5. ip' > Len(list')
  BY <1>1, <1>2, <1>4
<1>6. Len(elts') # ip' - 1
  BY <1>1, <1>2, <1>3
<1>7. ip' <= 2 => ip <= 2
  BY <1>1, <1>2
<1>8. PropsKnown'
  BY <1>1 DEF TableKept, PropsKnown
<1>9. QED
  BY <1>1, <1>5, <1>6, <1>7, <1>8 DEF TableKept, Calculates

LEMMA TableCalculationEnds ==
  ASSUME TableKept, CalculationEnds
  PROVE  TableKept'
<1>1. UNCHANGED <<list, table, ip, elts, count, scan, props>>
  BY DEF CalculationEnds, BuiltinClose, bendVars, procVars
<1>2. QED
  BY <1>1 DEF TableKept, Calculates, PropsKnown

\* While the table is the query's own.
LEMMA RightLookup ==
  ASSUME PoolInv, RunInv, At("run"), table = "proc", NEW hash
  PROVE  Lookup(hash) = {hash \in KnownHashes} /\ table \in pools
<1>1. "proc" \in pools
  BY AtRun
<1>2. QED
  BY <1>1 DEF Lookup

LEMMA TableAtProperty ==
  ASSUME PoolInv, RunInv, At("run"), TableKept, scan > 0, Scanned.type = "prop_call"
  PROVE  table = "proc"
<1>1. scan \in Int
  BY StackIs
<1>2. scan # -1 /\ scan \in 1 .. scan
  BY <1>1
<1>3. QED
  BY <1>2 DEF TableKept, Scanned

LEMMA BelowScanned ==
  ASSUME NEW c \in Nat, NEW s \in 1 .. c, NEW i \in 1 .. s - 1
  PROVE  i \in 1 .. s
OBVIOUS

LEMMA TableScan ==
  ASSUME PoolInv, RunInv, DepthOK, At("run"), TableKept, ScanStep
  PROVE  TableKept' \/ fault' # ""
<1> SUFFICES ASSUME ~(fault' # "") PROVE TableKept'
  OBVIOUS
<1>1. /\ UNCHANGED <<list, ip, elts, count>> /\ scan' = scan - 1
      /\ scan \in 1 .. count /\ scan \in 1 .. Len(elts) /\ scan # -1 /\ scan' # -1
  BY ScanIs DEF bendVars
<1>2. count \in Nat /\ Len(elts) \in Nat
  BY StackIs
<1>3. \A i \in 1 .. scan' : i \in 1 .. scan /\ i \in 1 .. scan - 1
  BY <1>1, <1>2, BelowScanned, Zenon
<1>4. ASSUME table' = "proc" \/ (\A i \in 1 .. scan' : elts[i].type # "prop_call"), PropsKnown'
      PROVE  TableKept'
  BY <1>1, <1>4, Zenon DEF TableKept, Calculates
<1>5. CASE UNCHANGED <<table, props>>
  <2>1. table = "proc" \/ \A i \in 1 .. scan : elts[i].type # "prop_call"
    BY <1>1 DEF TableKept
  <2>2. PropsKnown'
    BY <1>5 DEF TableKept, PropsKnown
  <2>3. QED
    BY <1>3, <1>4, <1>5, <2>1, <2>2, Zenon
<1>6. ASSUME Calculates(Scanned), UNCHANGED props PROVE TableKept'
  <2>1. \A i \in 1 .. scan - 1 : elts[i].type # "prop_call"
    BY <1>1, <1>6 DEF TableKept, Scanned
  <2>2. PropsKnown'
    BY <1>6 DEF TableKept, PropsKnown
  <2>3. QED
    BY <1>3, <1>4, <2>1, <2>2, Zenon
<1>7. ASSUME NEW f, Fault(f), f # "" PROVE FALSE
  BY <1>7, Zenon DEF Fault
<1>8. Pass => UNCHANGED <<table, props>>
  BY Zenon DEF Pass, builtinVars
<1>9. ASSUME NEW b, NEW h, NEW v, Calculate(b, h, v)
      PROVE  ~(v = NoValue /\ h \in KnownHashes) /\ UNCHANGED props
  <2>1. "value" # ""
    BY Zenon
  <2>2. QED
    BY <1>7, <1>9, <2>1, Zenon DEF Calculate
<1>10. CASE ScanProperty
  <2>1. scan > 0 /\ Scanned.type = "prop_call" /\ table = "proc"
    <3>1. scan > 0 /\ Scanned.type = "prop_call"
      BY <1>10, Zenon DEF ScanProperty, Scanning
    <3>2. QED
      BY <3>1, TableAtProperty
  <2>2. "table" # ""
    BY Zenon
  <2>3. PICK found \in Lookup(Scanned.value) :
          /\ props' = [v \in DOMAIN props \cup {w \in {Scanned.name} : found} |->
                         IF found /\ v = Scanned.name THEN Scanned.value ELSE props[v]]
          /\ UNCHANGED builtinVars
    BY <1>7, <1>10, <2>2, Zenon DEF ScanProperty
  <2>4. found => Scanned.value \in KnownHashes
    BY <2>1, <2>3, RightLookup
  <2>5. \A v \in DOMAIN props' :
            \/ props'[v] = Scanned.value /\ found
            \/ v \in DOMAIN props /\ props'[v] = props[v]
    BY <2>3
  <2>6. PropsKnown'
    BY <2>4, <2>5 DEF TableKept, PropsKnown
  <2>7. table' = "proc"
    BY <2>1, <2>3 DEF builtinVars
  <2>8. QED
    BY <1>4, <2>6, <2>7
<1>11. CASE ScanString
  <2>1. Scanned.type = "string_def"
    BY <1>11, Zenon DEF ScanString, Scanning
  <2>2. Calculates(Scanned)
    BY <2>1 DEF Calculates
  <2>3. "iterator" # ""
    BY Zenon
  <2>4. Pass \/ \E v \in DOMAIN props, b \in {"dir", "file", "string"} : Calculate(b, props[v], Scanned.value)
    BY <1>7, <1>11, <2>3, Zenon DEF ScanString
  <2>5. UNCHANGED props
    BY <1>8, <1>9, <2>4, Zenon
  <2>6. QED
    BY <1>6, <2>2, <2>5
<1>12. CASE ScanDeclaration
  <2>1. Scanned.type \in {"string", "file", "dir"}
    BY <1>12, Zenon DEF ScanDeclaration, Scanning
  <2>2. CASE Scanned.name \notin DOMAIN props
    <3>1. Pass
      BY <1>12, <2>2, Zenon DEF ScanDeclaration
    <3>2. QED
      BY <1>5, <1>8, <3>1
  <2>3. CASE Scanned.name \in DOMAIN props
    <3>1. Calculate(Scanned.type, props[Scanned.name], Scanned.value)
      BY <1>12, <2>3, Zenon DEF ScanDeclaration
    <3>2. ~(Scanned.value = NoValue /\ props[Scanned.name] \in KnownHashes) /\ UNCHANGED props
      BY <1>9, <3>1
    <3>3. props[Scanned.name] \in KnownHashes
      BY <2>3 DEF TableKept, PropsKnown
    <3>4. Calculates(Scanned)
      BY <2>1, <3>2, <3>3, Zenon DEF Calculates
    <3>5. QED
      BY <1>6, <3>2, <3>4
  <2>4. QED
    BY <2>2, <2>3
<1>13. CASE ScanDefinition
  <2>1. Scanned.type = "hash_definition"
    BY <1>13, Zenon DEF ScanDefinition, Scanning
  <2>2. Calculates(Scanned)
    BY <2>1 DEF Calculates
  <2>3. "iterator" # ""
    BY Zenon
  <2>4. Calculate("hash", Scanned.name, Scanned.value)
    BY <1>7, <1>13, <2>3, Zenon DEF ScanDefinition
  <2>5. QED
    BY <1>6, <1>9, <2>2, <2>4
<1>14. CASE ScanHashDeclaration
  BY <1>5, <1>8, <1>14, Zenon DEF ScanHashDeclaration
<1>15. QED
  BY <1>10, <1>11, <1>12, <1>13, <1>14, Zenon DEF ScanStep

LEMMA StepTable ==
  ASSUME PoolInv, RunInv, DepthOK, At("run"), HasProgram(tree, list), OrderlyQuery(tree), TableKept, RunInstruction
  PROVE  TableKept' \/ fault' # ""
<1> SUFFICES ASSUME fault' = "" PROVE TableKept'
  OBVIOUS
<1>1. PushStep \/ PlainStep \/ FromStep \/ OnSelect \/ ScanStep \/ SelectEnds \/ CalculationEnds
  BY RunSteps
<1>2. QED
  BY <1>1, TablePush, TablePlain, TableFrom, TableSelect, TableScan, TableSelectEnds, TableCalculationEnds, Zenon

\* Then no look up meets a table that is gone.
LEMMA NoTable ==
  ASSUME PoolInv, RunInv, At("run"), TableKept, RunInstruction
  PROVE  fault' # "table"
<1> SUFFICES ASSUME fault' = "table" PROVE FALSE
  OBVIOUS
<1>1. fault = ""
  BY AtRun
<1>2. ASSUME NEW f, Fault(f) PROVE f = "table"
  BY <1>2, Zenon DEF Fault
<1>3. ~Next1 /\ ~Pass
  BY <1>1, Zenon DEF Next1, Pass
<1>4. ASSUME NEW b, NEW h, NEW v, Calculate(b, h, v) PROVE FALSE
  <2>1. "value" # "table"
    BY Zenon
  <2>2. QED
    BY <1>1, <1>2, <1>4, <2>1, Zenon DEF Calculate
<1>5. "position" # "table" /\ "iterator" # "table"
  BY Zenon
<1>6. ~(OnDef \/ OnString \/ OnProperty \/ OnNothing)
  BY <1>3, Zenon DEF OnDef, OnString, OnProperty, OnNothing
<1>7. ~OnFrom
  BY <1>2, <1>3, <1>5, Zenon DEF OnFrom
<1>8. ~(OnSelect \/ SelectEnds \/ CalculationEnds)
  BY <1>1, Zenon DEF OnSelect, SelectEnds, CalculationEnds
<1>9. ~(ScanString \/ ScanDeclaration \/ ScanDefinition \/ ScanHashDeclaration)
  BY <1>2, <1>3, <1>4, <1>5, Zenon DEF ScanString, ScanDeclaration, ScanDefinition, ScanHashDeclaration
<1>10. ScanProperty
  BY <1>6, <1>7, <1>8, <1>9, Zenon DEF RunInstruction
<1>11. scan > 0 /\ Scanned.type = "prop_call" /\ table \notin pools
  BY <1>1, <1>10, Zenon DEF ScanProperty, Scanning
<1>12. QED
  BY <1>11, TableAtProperty, RightLookup

-----------------------------------------------------------------------------
(* The sources of a query that has one from                                 *)

\* The type that the first from declares, the string it reads, and what its
\* declaration puts on the stack.
TypeOf(t) == TypeOperand(t, Front(t) - 1)
TextOf(t) == t[Front(t) + 1].value
Lead(t) == Declared(TypeOf(t), Name(t[Front(t)].value))
IsDynamic(t) == TypeOf(t) = Type("dynamic")

\* What the from leaves on the stack: the declaration with its value, the
\* declaration of a hash with its definition, or a string of its own.
Height(t) == IF ~IsDynamic(t) /\ Lead(t).type = "hash_decl" THEN 2 ELSE 1
Foot(t, i) ==
  IF IsDynamic(t) THEN StringOf(TextOf(t))
  ELSE IF Lead(t).type # "hash_decl" THEN Source(Lead(t).type, Lead(t).name, TextOf(t))
  ELSE IF i = 1 THEN Lead(t) ELSE Source("hash_definition", Lead(t).value, TextOf(t))

LEMMA SourceIs ==
  ASSUME NEW a, NEW b, NEW c
  PROVE  Source(a, b, c).type = a /\ Source(a, b, c).name = b /\ Source(a, b, c).value = c
BY DEF Source

LEMMA LeadIs ==
  ASSUME NEW t, Tree(t)
  PROVE  LET type == TypeOf(t)
         IN  \/ /\ IsDynamic(t) /\ Height(t) = 1 /\ Foot(t, 1) = StringOf(TextOf(t))
             \/ /\ ~IsDynamic(t) /\ Height(t) = 1 /\ type \in {Type("file"), Type("string"), Type("dir")}
                /\ Lead(t).type = type[2] /\ Lead(t).type \in {"file", "string", "dir"}
                /\ Foot(t, 1) = Source(type[2], t[Front(t)].value, TextOf(t))
             \/ /\ ~IsDynamic(t) /\ Height(t) = 2 /\ type = Name(t[Front(t) - 2].value)
                /\ Lead(t).type = "hash_decl" /\ Lead(t).value = type[2]
                /\ Foot(t, 1) = Lead(t) /\ Foot(t, 2) = Source("hash_definition", type[2], TextOf(t))
<1> DEFINE type == TypeOf(t)
           x == t[Front(t)].value
<1>1. IsDeclaration(t, Front(t))
  BY FrontShape
<1>2. \/ type \in {Type("file"), Type("string"), Type("dir"), Type("dynamic")}
      \/ type = Name(t[Front(t) - 2].value)
  BY <1>1, DeclaresType DEF TypeOf
<1>3. Lead(t) = Declared(type, Name(x))
  BY DEF Lead
<1> HIDE DEF type, x
<1>4. CASE type = Type("dynamic")
  <2>1. IsDynamic(t)
    BY <1>4 DEF IsDynamic, type
  <2>2. QED
    BY <2>1 DEF Height, Foot
<1>5. CASE type \in {Type("file"), Type("string"), Type("dir")}
  <2>1. type[1] = "type" /\ type[2] \in {"file", "string", "dir"} /\ type # Type("dynamic") /\ Name(x)[2] = x
    BY <1>5 DEF Type, Name
  <2>2. Lead(t) = Source(type[2], x, NoValue)
    BY <1>3, <2>1 DEF Declared
  <2>3. Lead(t).type = type[2] /\ Lead(t).name = x
    BY <2>2, SourceIs
  <2>4. ~IsDynamic(t) /\ Lead(t).type # "hash_decl"
    BY <2>1, <2>3 DEF IsDynamic, type
  <2>5. Height(t) = 1 /\ Foot(t, 1) = Source(type[2], x, TextOf(t))
    BY <2>3, <2>4 DEF Height, Foot
  <2>6. QED
    BY <1>5, <2>1, <2>3, <2>4, <2>5 DEF type, x
<1>6. CASE type = Name(t[Front(t) - 2].value)
  <2>1. type[1] = "name" /\ type # Type("dynamic")
    BY <1>6 DEF Type, Name
  <2>2. Lead(t) = Source("hash_decl", Name(x)[2], type[2])
    BY <1>3, <2>1 DEF Declared
  <2>3. Lead(t).type = "hash_decl" /\ Lead(t).value = type[2]
    BY <2>2, SourceIs
  <2>4. ~IsDynamic(t)
    BY <2>1 DEF IsDynamic, type
  <2>5. Height(t) = 2 /\ Foot(t, 1) = Lead(t) /\ Foot(t, 2) = Source("hash_definition", type[2], TextOf(t))
    BY <2>3, <2>4 DEF Height, Foot
  <2>6. QED
    BY <1>6, <2>3, <2>4, <2>5 DEF type
<1>7. QED
  BY <1>2, <1>4, <1>5, <1>6

\* The value that the string in the from has is one.
LEMMA TextIs ==
  ASSUME NEW t, Tree(t), Sourceless(t) = {}
  PROVE  TextOf(t) # NoValue
<1>1. Front(t) + 1 \in DOMAIN t
  BY SourcedQuery, StringSource
<1>2. TextOf(t) \in STRING
  BY <1>1, NodeTyped DEF Tree, TextOf
<1>3. QED
  BY <1>2, NoValueAssumption

\* The bottom of the stack in a query whose from has its string, and what
\* comes upon it.
BaseOK ==
  /\ ip = 1 => count = 0 /\ Len(elts) = 0
  /\ ip = 2 /\ IsDynamic(tree) => count = 0 /\ Len(elts) = 0
  /\ ip = 2 /\ ~IsDynamic(tree) => count = 1 /\ Len(elts) = 1 /\ elts[1] = Lead(tree)
  /\ ip = 3 /\ IsDynamic(tree) => count = 1 /\ Len(elts) = 1 /\ elts[1] = StringOf(TextOf(tree))
  /\ ip = 3 /\ ~IsDynamic(tree) =>
       count = 2 /\ Len(elts) = 2 /\ elts[1] = Lead(tree) /\ elts[2] = StringOf(TextOf(tree))
  /\ ip >= 4 =>
       /\ count >= Height(tree) /\ \A i \in 1 .. Height(tree) : elts[i] = Foot(tree, i)
       /\ \A i \in Height(tree) + 1 .. count :
            elts[i].type \in {"string_def", "prop_call"} /\ elts[i].value # NoValue
  /\ ip = 4 => count = Height(tree)

\* A step that leaves the stack alone.
LEMMA BaseStays ==
  ASSUME BaseOK, UNCHANGED <<tree, elts, count>>, ip' = ip
  PROVE  BaseOK'
BY DEF BaseOK

LEMMA BasePush ==
  ASSUME PoolInv, RunInv, At("run"), HasProgram(tree, list), Sourceless(tree) = {}, BaseOK, PushStep
  PROVE  BaseOK'
<1> DEFINE e == SourceOf(list[ip])
<1>1. /\ ip' = ip + 1 /\ tree' = tree
      /\ ip \in 1 .. Len(list) /\ Says(tree, list[ip]) /\ Tree(tree)
      /\ list[ip].op \in {"def", "string", "property"}
      /\ ~(list[ip].op = "def" /\ list[ip].op1 = Type("dynamic"))
      /\ count' = count + 1
      /\ Len(elts') = IF count = Len(elts) THEN Len(elts) + 1 ELSE Len(elts)
      /\ \A i \in 1 .. Len(elts') : elts'[i] = IF i = count + 1 THEN e ELSE elts[i]
  BY PushIs DEF bendVars
<1>2. Len(elts) \in Nat /\ count \in Nat /\ count <= Len(elts) /\ ip \in Nat /\ ip # 0 /\ Len(list) \in Nat
  BY StackIs, InstructionSays
<1>3. /\ list[1].op = "def" /\ list[1].op1 = TypeOf(tree) /\ list[1].op2 = Name(tree[Front(tree)].value)
      /\ list[2].op = "string" /\ list[2].node = Front(tree) + 1
      /\ list[3].op = "from"
      /\ list[ip].op = "def" => ip = 1
  BY <1>1, SourcedList DEF TypeOf
<1>4. /\ list[ip].op = "def" => e = Declared(list[ip].op1, list[ip].op2)
      /\ list[ip].op = "string" => e = StringOf(tree[list[ip].node].value)
      /\ list[ip].op = "property" => e = Source("prop_call", tree[list[ip].node - 1].value, tree[list[ip].node].value)
  <2>1. list[ip].op = "def" => e = Declared(list[ip].op1, list[ip].op2)
    BY DEF SourceOf
  <2>2. QED
    BY <1>1, <2>1, SourceOfType
<1> HIDE DEF e
<1>5. /\ \A i \in 1 .. count : elts'[i] = elts[i]
      /\ elts'[count + 1] = e
  <2>1. /\ \A i \in 1 .. count : i \in 1 .. Len(elts') /\ i # count + 1
        /\ count + 1 \in 1 .. Len(elts')
    <3>1. Len(elts') = IF count = Len(elts) THEN Len(elts) + 1 ELSE Len(elts)
      BY <1>1
    <3>2. QED
      BY <1>2, <3>1
  <2>2. QED
    BY <1>1, <2>1
<1>6. CASE ip = 1
  <2>1. ~IsDynamic(tree)
    BY <1>1, <1>3, <1>6 DEF IsDynamic
  <2>2. e = Lead(tree)
    BY <1>3, <1>4, <1>6 DEF Lead
  <2>3. count = 0 /\ Len(elts) = 0
    BY <1>6 DEF BaseOK
  <2>4. ip' = 2 /\ count' = 1 /\ Len(elts') = 1 /\ elts'[1] = e
    BY <1>1, <1>5, <1>6, <2>3
  <2>5. QED
    BY <1>1, <2>1, <2>2, <2>4 DEF BaseOK
<1>7. CASE ip = 2
  <2>1. e = StringOf(TextOf(tree))
    BY <1>3, <1>4, <1>7 DEF TextOf
  <2>2. ip' = 3
    BY <1>1, <1>7
  <2>3. CASE IsDynamic(tree)
    <3>1. count = 0 /\ Len(elts) = 0
      BY <1>7, <2>3 DEF BaseOK
    <3>2. count' = 1 /\ Len(elts') = 1 /\ elts'[1] = e
      BY <1>1, <1>5, <3>1
    <3>3. QED
      BY <1>1, <2>1, <2>2, <2>3, <3>2 DEF BaseOK
  <2>4. CASE ~IsDynamic(tree)
    <3>1. count = 1 /\ Len(elts) = 1 /\ elts[1] = Lead(tree)
      BY <1>7, <2>4 DEF BaseOK
    <3>2. count' = 2 /\ Len(elts') = 2 /\ elts'[1] = Lead(tree) /\ elts'[2] = e
      BY <1>1, <1>5, <3>1
    <3>3. QED
      BY <1>1, <2>1, <2>2, <2>4, <3>2 DEF BaseOK
  <2>5. QED
    BY <2>3, <2>4
<1>8. CASE ip >= 4
  <2>1. e.type \in {"string_def", "prop_call"} /\ e.value = tree[list[ip].node].value
    <3>1. list[ip].op # "def"
      BY <1>3, <1>8
    <3>2. CASE list[ip].op = "string"
      BY <1>4, <3>2, StringOfIs
    <3>3. CASE list[ip].op = "property"
      BY <1>4, <3>3, SourceIs
    <3>4. QED
      BY <1>1, <3>1, <3>2, <3>3
  <2>2. tree[list[ip].node].value \in STRING
    BY <1>1, NodeTyped DEF Says, Tree
  <2>3. e.value # NoValue
    BY <2>1, <2>2, NoValueAssumption
  <2>4. Height(tree) \in 1 .. 2
    BY DEF Height
  <2>5. /\ count >= Height(tree) /\ \A i \in 1 .. Height(tree) : elts[i] = Foot(tree, i)
        /\ \A i \in Height(tree) + 1 .. count :
             elts[i].type \in {"string_def", "prop_call"} /\ elts[i].value # NoValue
    BY <1>8 DEF BaseOK
  <2>6. count' >= Height(tree) /\ \A i \in 1 .. Height(tree) : i \in 1 .. count
    BY <1>1, <1>2, <2>4, <2>5
  <2>7. \A i \in 1 .. Height(tree) : elts'[i] = Foot(tree, i)
    BY <1>5, <2>5, <2>6
  <2>8. \A i \in Height(tree) + 1 .. count' :
          i = count + 1 \/ (i \in 1 .. count /\ i \in Height(tree) + 1 .. count)
    BY <1>1, <1>2, <2>4, <2>5
  <2>9. \A i \in Height(tree) + 1 .. count' :
          elts'[i].type \in {"string_def", "prop_call"} /\ elts'[i].value # NoValue
    BY <1>5, <2>1, <2>3, <2>5, <2>8
  <2>10. ip' # 1 /\ ip' # 2 /\ ip' # 3 /\ ip' # 4
    BY <1>1, <1>2, <1>8
  <2>11. tree' = tree
    BY <1>1
  <2>12. QED
    BY <2>6, <2>7, <2>9, <2>10, <2>11 DEF BaseOK
<1>9. ip # 3
  BY <1>1, <1>3
<1>10. QED
  BY <1>2, <1>6, <1>7, <1>8, <1>9

LEMMA BasePlain ==
  ASSUME PoolInv, RunInv, At("run"), HasProgram(tree, list), Sourceless(tree) = {}, BaseOK, PlainStep
  PROVE  BaseOK'
<1>1. ip' = ip + 1 /\ UNCHANGED <<tree, elts, count>> /\ ip <= Len(list)
      /\ list[ip].op \notin {"string", "property", "select"}
      /\ (list[ip].op = "def" => list[ip].op1 = Type("dynamic"))
      /\ (list[ip].op = "from" => Element(list[ip].op2[2]) = Null)
  BY DEF PlainStep, AtStep, Next1, bendVars
<1>2. /\ Len(elts) \in Nat /\ count \in Nat /\ ip \in Nat /\ ip # 0 /\ DOMAIN elts = 1 .. Len(elts)
      /\ StackOK
  BY StackIs
<1>3. /\ list[1].op = "def" /\ list[1].op1 = TypeOf(tree)
      /\ list[2].op = "string" /\ list[3].op = "from"
  BY SourcedList DEF TypeOf
<1>4. Tree(tree)
  BY DEF HasProgram
<1>5. CASE ip = 1
  <2>1. IsDynamic(tree)
    BY <1>1, <1>3, <1>5 DEF IsDynamic
  <2>2. ip' = 2 /\ count' = 0 /\ Len(elts') = 0
    BY <1>1, <1>5 DEF BaseOK
  <2>3. QED
    BY <1>1, <2>1, <2>2 DEF BaseOK
<1>6. ip # 2
  BY <1>1, <1>3
<1>7. CASE ip = 3
  <2>1. list[ip].op2[2] = 1
    <3>1. ip \in 1 .. Len(list)
      BY <1>1, InstructionIs
    <3>2. list[ip].op2 = Position(ip - 2)
      BY <1>3, <1>7, <3>1, InstructionSays
    <3>3. QED
      BY <1>7, <3>2, OperandIs
  <2>2. IsDynamic(tree)
    <3> SUFFICES ASSUME ~IsDynamic(tree) PROVE FALSE
      OBVIOUS
    <3>1. Len(elts) = 2 /\ elts[2] = StringOf(TextOf(tree))
      BY <1>7 DEF BaseOK
    <3>2. Element(1) = elts[2]
      BY <1>2, <3>1 DEF Element
    <3>3. Element(1) = Null
      BY <1>1, <1>3, <1>7, <2>1
    <3>4. Null.type = "null"
      BY Zenon DEF Null, Source
    <3>5. QED
      BY <3>1, <3>2, <3>3, <3>4, StringOfIs
  <2>3. count = 1 /\ elts[1] = StringOf(TextOf(tree))
    BY <1>7, <2>2 DEF BaseOK
  <2>4. Height(tree) = 1 /\ Foot(tree, 1) = elts[1]
    BY <2>2, <2>3 DEF Height, Foot
  <2>5. ip' = 4 /\ count' = 1 /\ elts' = elts /\ tree' = tree
    BY <1>1, <1>7, <2>3
  <2>6. \A i \in 1 .. Height(tree) : elts'[i] = Foot(tree, i)
    BY <2>4, <2>5
  <2>7. \A i \in Height(tree) + 1 .. count' : FALSE
    BY <2>4, <2>5
  <2>8. count' >= Height(tree) /\ count' = Height(tree)
    BY <2>4, <2>5
  <2>9. QED
    BY <2>5, <2>6, <2>7, <2>8 DEF BaseOK
<1>8. CASE ip >= 4
  <2>1. ip' >= 4 /\ ip' # 1 /\ ip' # 2 /\ ip' # 3 /\ ip' # 4
    BY <1>1, <1>2, <1>8
  <2>2. QED
    BY <1>1, <1>8, <2>1 DEF BaseOK
<1>9. QED
  BY <1>2, <1>5, <1>6, <1>7, <1>8

LEMMA BaseFrom ==
  ASSUME PoolInv, RunInv, DepthOK, At("run"), HasProgram(tree, list), Sourceless(tree) = {}, BaseOK, FromStep
  PROVE  BaseOK'
<1>1. /\ ip' = ip + 1 /\ tree' = tree
      /\ ip \in 1 .. Len(list) /\ list[ip].op = "from"
      /\ Len(elts) = ip - 1 /\ count = ip - 1
      /\ IF elts[ip - 2].type = "hash_decl"
           THEN /\ count' = count
                /\ \A i \in 1 .. ip - 1 : elts'[i] =
                     IF i = ip - 1 THEN Source("hash_definition", elts[ip - 2].value, elts[ip - 1].value)
                                   ELSE elts[i]
           ELSE /\ count' = count - 1
                /\ \A i \in 1 .. ip - 1 : elts'[i] =
                     IF i = ip - 2 THEN Source(elts[ip - 2].type, elts[ip - 2].name, elts[ip - 1].value)
                                   ELSE elts[i]
  BY FromIs DEF bendVars
<1>2. ip = 3
  BY <1>1, SourcedList
<1>3. ~IsDynamic(tree)
  <2>1. Len(elts) = 2
    BY <1>1, <1>2
  <2>2. QED
    BY <1>2, <2>1 DEF BaseOK
<1>4. elts[1] = Lead(tree) /\ elts[2].value = TextOf(tree)
  <2>1. elts[1] = Lead(tree) /\ elts[2] = StringOf(TextOf(tree))
    BY <1>2, <1>3 DEF BaseOK
  <2>2. QED
    BY <2>1, StringOfIs
<1>5. ip - 2 = 1 /\ ip - 1 = 2 /\ count = 2 /\ ip' = 4 /\ count - 1 = 1
  BY <1>1, <1>2
<1>6. IF Lead(tree).type = "hash_decl"
        THEN count' = 2 /\ elts'[1] = Lead(tree) /\ elts'[2] = Source("hash_definition", Lead(tree).value, TextOf(tree))
        ELSE count' = 1 /\ elts'[1] = Source(Lead(tree).type, Lead(tree).name, TextOf(tree))
  <2>1. CASE Lead(tree).type = "hash_decl"
    <3>1. count' = 2 /\ \A i \in 1 .. 2 : elts'[i] = IF i = 2 THEN Source("hash_definition", elts[1].value, elts[2].value) ELSE elts[i]
      BY <1>1, <1>4, <1>5, <2>1
    <3>2. QED
      BY <1>4, <2>1, <3>1
  <2>2. CASE Lead(tree).type # "hash_decl"
    <3>1. count' = 1 /\ \A i \in 1 .. 2 : elts'[i] = IF i = 1 THEN Source(elts[1].type, elts[1].name, elts[2].value) ELSE elts[i]
      BY <1>1, <1>4, <1>5, <2>2
    <3>2. QED
      BY <1>4, <2>2, <3>1
  <2>3. QED
    BY <2>1, <2>2
<1>7. count' = Height(tree) /\ Height(tree) \in 1 .. 2
  BY <1>3, <1>6 DEF Height
<1>8. \A i \in 1 .. Height(tree) : elts'[i] = Foot(tree, i)
  BY <1>3, <1>6, <1>7 DEF Height, Foot
<1>9. \A i \in Height(tree) + 1 .. count' : FALSE
  BY <1>7
<1>10. count' >= Height(tree) /\ count' = Height(tree)
  BY <1>7
<1>11. QED
  BY <1>1, <1>5, <1>8, <1>9, <1>10 DEF BaseOK

\* A select comes behind the from and finds all of that.
LEMMA BaseSelected ==
  ASSUME PoolInv, RunInv, DepthOK, At("run"), HasProgram(tree, list), Sourceless(tree) = {}, BaseOK, scan # -1
  PROVE  /\ ip \in 4 .. Len(list) /\ list[ip].op = "select"
         /\ count >= Height(tree) /\ \A i \in 1 .. Height(tree) : elts[i] = Foot(tree, i)
         /\ \A i \in Height(tree) + 1 .. count :
              elts[i].type \in {"string_def", "prop_call"} /\ elts[i].value # NoValue
<1>1. ip <= Len(list) /\ list[ip].op = "select"
  BY DEF DepthOK
<1>2. /\ list[1].op = "def" /\ list[2].op = "string" /\ list[3].op = "from" /\ Len(list) \in Nat
  BY SourcedList
<1>3. ip # 1 /\ ip # 2 /\ ip # 3
  BY <1>1, <1>2
<1>4. ip \in Nat /\ ip # 0
  BY StackIs
<1>5. ip >= 4
  BY <1>3, <1>4
<1>6. ip \in 4 .. Len(list)
  BY <1>1, <1>2, <1>4, <1>5
<1>7. QED
  BY <1>1, <1>5, <1>6 DEF BaseOK

LEMMA StepBase ==
  ASSUME PoolInv, RunInv, DepthOK, At("run"), HasProgram(tree, list), Sourceless(tree) = {}, BaseOK, RunInstruction
  PROVE  BaseOK' \/ fault' # ""
<1> SUFFICES ASSUME PushStep \/ PlainStep \/ FromStep \/ OnSelect \/ ScanStep \/ SelectEnds \/ CalculationEnds
             PROVE  BaseOK'
  BY RunSteps, Zenon
<1>1. OnSelect \/ ScanStep \/ CalculationEnds => UNCHANGED <<tree, elts, count>> /\ ip' = ip
  BY ScanIs DEF OnSelect, CalculationEnds, bendVars, procVars
<1>2. CASE SelectEnds
  <2>1. UNCHANGED <<tree, elts, count>> /\ ip' = ip + 1 /\ scan # -1
    <3>1. UNCHANGED <<bendVars, elts, count>> /\ ip' = ip + 1 /\ scan = 0
      BY <1>2, Zenon DEF SelectEnds
    <3>2. QED
      BY <3>1 DEF bendVars
  <2>2. ip \in 4 .. Len(list) /\ Len(list) \in Nat
    BY <2>1, BaseSelected, InstructionSays
  <2>3. ip >= 4 /\ ip' >= 4 /\ ip' # 1 /\ ip' # 2 /\ ip' # 3 /\ ip' # 4
    BY <2>1, <2>2
  <2>4. QED
    BY <2>1, <2>3 DEF BaseOK
<1>3. QED
  BY <1>1, <1>2, BasePush, BasePlain, BaseFrom, BaseStays

\* Then every source that is calculated has its value.
LEMMA ScannedHasValue ==
  ASSUME PoolInv, RunInv, DepthOK, At("run"), HasProgram(tree, list), Sourceless(tree) = {}, BaseOK, scan > 0
  PROVE  Scanned.type # "hash_decl" => Scanned.value # NoValue
<1>1. scan \in Int /\ scan <= count /\ count \in Nat
  BY StackIs
<1>2. scan # -1
  BY <1>1
<1>3. /\ \A i \in 1 .. Height(tree) : elts[i] = Foot(tree, i)
      /\ \A i \in Height(tree) + 1 .. count : elts[i].value # NoValue
  BY <1>2, BaseSelected
<1>4. Height(tree) \in 1 .. 2
  BY DEF Height
<1>5. CASE scan \in 1 .. Height(tree)
  <2>1. Scanned = Foot(tree, scan)
    BY <1>3, <1>5 DEF Scanned
  <2>2. Tree(tree) /\ TextOf(tree) # NoValue
    BY TextIs DEF HasProgram
  <2>3. StringOf(TextOf(tree)).value = TextOf(tree)
    BY StringOfIs
  <2>4. Foot(tree, scan).type = "hash_decl" \/ Foot(tree, scan).value = TextOf(tree)
    BY <2>3, SourceIs DEF Foot
  <2>5. QED
    BY <2>1, <2>2, <2>4
<1>6. CASE scan \in Height(tree) + 1 .. count
  BY <1>3, <1>6 DEF Scanned
<1>7. QED
  BY <1>1, <1>4, <1>5, <1>6

LEMMA NoMissing ==
  ASSUME PoolInv, RunInv, DepthOK, At("run"), HasProgram(tree, list), Sourceless(tree) = {}, BaseOK, RunInstruction
  PROVE  fault' # "value"
<1> SUFFICES ASSUME fault' = "value" PROVE FALSE
  OBVIOUS
<1>1. fault = ""
  BY AtRun
<1>2. ASSUME NEW f, Fault(f) PROVE f = "value"
  BY <1>2, Zenon DEF Fault
<1>3. ~Next1 /\ ~Pass
  BY <1>1, Zenon DEF Next1, Pass
<1>4. ASSUME NEW b, NEW h, NEW v, Calculate(b, h, v) PROVE v = NoValue
  BY <1>1, <1>4, Zenon DEF Calculate
<1>5. "position" # "value" /\ "iterator" # "value" /\ "table" # "value"
  BY Zenon
<1>6. ~(OnDef \/ OnString \/ OnProperty \/ OnNothing)
  BY <1>3, Zenon DEF OnDef, OnString, OnProperty, OnNothing
<1>7. ~OnFrom
  BY <1>2, <1>3, <1>5, Zenon DEF OnFrom
<1>8. ~(OnSelect \/ SelectEnds \/ CalculationEnds)
  BY <1>1, Zenon DEF OnSelect, SelectEnds, CalculationEnds
<1>9. ~ScanProperty /\ ~ScanHashDeclaration
  BY <1>1, <1>2, <1>3, <1>5, Zenon DEF ScanProperty, ScanHashDeclaration
<1>10. ASSUME NEW types, Scanning(types) PROVE scan > 0 /\ Scanned.type \in types
  BY <1>10, Zenon DEF Scanning
<1>11. CASE ScanString
  <2>1. Scanning({"string_def"}) /\ Scanned.value = NoValue
    BY <1>2, <1>3, <1>4, <1>5, <1>11, Zenon DEF ScanString
  <2>2. QED
    BY <1>10, <2>1, ScannedHasValue
<1>12. CASE ScanDeclaration
  <2>1. Scanning({"string", "file", "dir"}) /\ Scanned.value = NoValue
    BY <1>2, <1>3, <1>4, <1>5, <1>12, Zenon DEF ScanDeclaration
  <2>2. QED
    BY <1>10, <2>1, ScannedHasValue
<1>13. CASE ScanDefinition
  <2>1. Scanning({"hash_definition"}) /\ Scanned.value = NoValue
    BY <1>2, <1>3, <1>4, <1>5, <1>13, Zenon DEF ScanDefinition
  <2>2. QED
    BY <1>10, <2>1, ScannedHasValue
<1>14. QED
  BY <1>6, <1>7, <1>8, <1>9, <1>11, <1>12, <1>13, Zenon DEF RunInstruction

-----------------------------------------------------------------------------
(* What a plain query calculates                                            *)

\* The variable of its from; the first hash it selects; what it may have
\* calculated.
VariableOf(t) == t[Front(t)].value
FirstCall(t) == CHOOSE p \in HashCalls(t) : \A q \in HashCalls(t) : p <= q
FirstHash(t) == t[FirstCall(t)].value
Calculated(t, builtin, hash) == <<[builtin |-> builtin, hash |-> hash, value |-> TextOf(t)]>>

LEMMA PlainIs ==
  ASSUME NEW t, Tree(t), Plain(t)
  PROVE  /\ Sourceless(t) = {} /\ OrderlyQuery(t) /\ StrayUsers(t) = {}
         /\ DeclaredType(t) = TypeOf(t) /\ NodesOf(t, "string") = {Front(t) + 1}
         /\ \A p \in DOMAIN t : t[p].type = "property" => t[p - 1].value = VariableOf(t)
<1>1. /\ HasOne(t, "select") /\ LooseStrings(t) = {} /\ Sourceless(t) = {}
      /\ \A u \in NodesOf(t, "unary") : Uses(t, u) \subseteq {Declaring(t).value}
  BY DEF Plain
<1>2. /\ StrayUsers(t) = {} /\ SourceString(t, HeadFrom(t)) # {} /\ FirstFrom(t) = HeadFrom(t)
      /\ SourceString(t, HeadFrom(t)) = {Front(t) + 1}
      /\ t[Front(t) + 1].type = "string" /\ Front(t) + 1 \in DOMAIN t
  BY <1>1, SourcedQuery, FirstFromIs, StringSource
<1>3. NodesOf(t, "string") = {Front(t) + 1}
  BY <1>1, <1>2 DEF LooseStrings, NodesOf
<1>4. Declaring(t) = t[Front(t)]
  BY <1>2 DEF Declaring, Front
<1>5. DeclaredType(t) = TypeOf(t)
  <2>1. IsDeclaration(t, Front(t))
    BY FrontShape
  <2>2. t[Front(t)].left = Front(t) - 1
    BY <2>1, DeclarationShape
  <2>3. t[Front(t) - 1].value = "user" => t[Front(t) - 1].left = Front(t) - 1 - 1
    <3>1. Front(t) \in {2, 3}
      BY FrontShape
    <3>2. Front(t) - 2 = Front(t) - 1 - 1
      BY <3>1
    <3>3. QED
      BY <2>1, <3>2, DeclaresType
  <2>4. QED
    BY <1>4, <2>2, <2>3 DEF DeclaredType, TypeOf, TypeOperand
<1>6. ASSUME NEW p \in DOMAIN t, t[p].type = "property" PROVE t[p - 1].value = VariableOf(t)
  <2>1. p + 1 \in DOMAIN t /\ t[p + 1].type = "unary" /\ t[p + 1].left = p - 1
    BY <1>6, CallHasParent
  <2>2. t[p + 1].right # 0
    <3>1. p \in Nat /\ p # 0
      BY NodeTyped DEF Tree
    <3> DEFINE u == p + 1
    <3>2. u \in DOMAIN t /\ t[u].type = "unary" /\ u - 1 # 0 /\ p - 1 # u - 1 /\ t[u].left = p - 1
      BY <2>1, <3>1
    <3> HIDE DEF u
    <3>3. t[u].right # 0
      BY <3>2, UnaryShape
    <3>4. QED
      BY <3>3 DEF u
  <2>3. Uses(t, p + 1) = {t[p - 1].value}
    BY <2>1, <2>2 DEF Uses
  <2>4. p + 1 \in NodesOf(t, "unary")
    BY <2>1 DEF NodesOf
  <2>5. QED
    BY <1>1, <1>4, <2>3, <2>4 DEF VariableOf
<1>7. QED
  BY <1>1, <1>2, <1>3, <1>5, <1>6 DEF OrderlyQuery

LEMMA MeaningIs ==
  ASSUME NEW t, Tree(t), Plain(t)
  PROVE  LET type == TypeOf(t)
         IN  /\ type \in {Type("string"), Type("file"), Type("dir")} =>
                  Meaning(t) = {IF HashCalls(t) = {} THEN <<>> ELSE Calculated(t, type[2], FirstHash(t))}
             /\ IsDynamic(t) =>
                  Meaning(t) = {<<>>} \cup {Calculated(t, b, FirstHash(t)) : b \in {"string", "file", "dir"}}
             /\ ~IsDynamic(t) /\ type \notin {Type("string"), Type("file"), Type("dir")} =>
                  Meaning(t) = {IF type[2] \in KnownHashes THEN Calculated(t, "hash", type[2]) ELSE <<>>}
<1> DEFINE s == t[CHOOSE i \in NodesOf(t, "string") : TRUE].value
           type == TypeOf(t)
           One(b, h) == <<[builtin |-> b, hash |-> h, value |-> s]>>
<1>1. s = TextOf(t)
  <2>1. NodesOf(t, "string") = {Front(t) + 1}
    BY PlainIs
  <2>2. (CHOOSE i \in NodesOf(t, "string") : TRUE) = Front(t) + 1
    BY <2>1
  <2>3. QED
    BY <2>2 DEF TextOf
<1>2. \A b, h : One(b, h) = Calculated(t, b, h)
  BY <1>1 DEF Calculated
<1>3. Meaning(t) =
        CASE type \in {Type("string"), Type("file"), Type("dir")} ->
               {IF HashCalls(t) = {} THEN <<>> ELSE One(type[2], FirstHash(t))}
          [] type = Type("dynamic") -> {<<>>} \cup {One(b, FirstHash(t)) : b \in {"string", "file", "dir"}}
          [] OTHER -> {IF type[2] \in KnownHashes THEN One("hash", type[2]) ELSE <<>>}
  <2>1. DeclaredType(t) = type
    BY PlainIs
  <2>2. QED
    BY <2>1, Zenon DEF Meaning, FirstHash, FirstCall
<1>4. Type("dynamic") \notin {Type("string"), Type("file"), Type("dir")}
  BY DEF Type
<1>5. IsDynamic(t) <=> type = Type("dynamic")
  BY DEF IsDynamic
<1> HIDE DEF s, type, One
<1>6. type \in {Type("string"), Type("file"), Type("dir")} =>
        Meaning(t) = {IF HashCalls(t) = {} THEN <<>> ELSE One(type[2], FirstHash(t))}
  BY <1>3, <1>4, Zenon
<1>7. type = Type("dynamic") =>
        Meaning(t) = {<<>>} \cup {One(b, FirstHash(t)) : b \in {"string", "file", "dir"}}
  BY <1>3, <1>4, Zenon
<1>8. type # Type("dynamic") /\ type \notin {Type("string"), Type("file"), Type("dir")} =>
        Meaning(t) = {IF type[2] \in KnownHashes THEN One("hash", type[2]) ELSE <<>>}
  BY <1>3, Zenon
<1>9. QED
  BY <1>2, <1>5, <1>6, <1>7, <1>8 DEF type

\* Only the select ends the list.
LEMMA NotLast ==
  ASSUME NEW t, NEW l, HasProgram(t, l), OrderlyQuery(t), NEW k \in 1 .. Len(l), l[k].op # "select"
  PROVE  k + 1 <= Len(l)
<1>1. Len(t) - 2 \in DOMAIN t /\ t[Len(t) - 2].type = "select"
  BY SelectIsLast DEF HasProgram, OrderlyQuery
<1>2. PICK j \in 1 .. Len(l) : l[j].node = Len(t) - 2
  BY <1>1, EntryOf DEF Lasting, OrderlyQuery
<1>3. l[j].op = "select"
  BY <1>1, <1>2, InstructionSays DEF Says
<1>4. j = Len(l)
  BY <1>3, SelectEndsList DEF OrderlyQuery
<1>5. k # j /\ Len(l) \in Nat
  BY <1>3, InstructionSays
<1>6. QED
  BY <1>4, <1>5

-----------------------------------------------------------------------------
\* Nothing that was run selects a hash; or the first hash that is selected is
\* the lowest on the stack above what the from has left.
Unselected ==
  /\ \A k \in 1 .. ip - 1 : list[k].node \notin HashCalls(tree)
  /\ \A i \in Height(tree) + 1 .. count : elts[i].value \notin KnownHashes

Selected ==
  /\ HashCalls(tree) # {} /\ FirstHash(tree) \in KnownHashes
  /\ \E j \in Height(tree) + 1 .. count :
       elts[j].value = FirstHash(tree) /\ \A i \in Height(tree) + 1 .. j - 1 : elts[i].value \notin KnownHashes

\* The hash that the scan has kept is the lowest of those it has seen.
PropsFrom(n) ==
  LET x == VariableOf(tree)
  IN  /\ DOMAIN props \subseteq {x}
      /\ (\A i \in n + 1 .. count : elts[i].value \notin KnownHashes) => DOMAIN props = {}
      /\ \A j \in n + 1 .. count :
           elts[j].value \in KnownHashes /\ (\A i \in n + 1 .. j - 1 : elts[i].value \notin KnownHashes) =>
             DOMAIN props = {x} /\ props[x] = elts[j].value

CallsOK ==
  ip >= 4 =>
    /\ \A i \in Height(tree) + 1 .. count : elts[i].type = "prop_call" /\ elts[i].name = VariableOf(tree)
    /\ Unselected \/ Selected

CalcsOK ==
  /\ scan = -1 /\ ip <= Len(list) => calcs = <<>>
  /\ scan >= Height(tree) => calcs = <<>> /\ PropsFrom(scan)
  /\ scan \in 0 .. Height(tree) - 1 => calcs \in Meaning(tree)
  /\ scan = -1 /\ ip > Len(list) => calcs \in Meaning(tree)

PlainOK == CallsOK /\ CalcsOK

\* An instruction that calculates nothing.
LEMMA AdvanceCalcs ==
  ASSUME PoolInv, RunInv, At("run"), HasProgram(tree, list), OrderlyQuery(tree), CalcsOK,
         ip' = ip + 1, scan = -1, scan' = -1, ip <= Len(list), list[ip].op # "select",
         UNCHANGED <<bendVars, calcs>>
  PROVE  CalcsOK'
<1>1. ip \in 1 .. Len(list)
  BY InstructionIs
<1>2. ip + 1 <= Len(list) /\ Len(list) \in Nat /\ ip \in Nat
  BY <1>1, NotLast, InstructionSays
<1>3. ip' <= Len(list') /\ ~(ip' > Len(list')) /\ list' = list /\ tree' = tree
  BY <1>2 DEF bendVars
<1>4. calcs' = <<>>
  BY DEF CalcsOK
<1>5. Height(tree)' \in 1 .. 2
  BY <1>3 DEF Height
<1>6. ~(scan' >= Height(tree)') /\ scan' \notin 0 .. Height(tree)' - 1
  BY <1>5
<1>7. QED
  BY <1>3, <1>4, <1>6 DEF CalcsOK

\* Right behind the from nothing is selected yet.
LEMMA BehindFrom ==
  ASSUME PoolInv, RunInv, At("run"), HasProgram(tree, list), Sourceless(tree) = {}, BaseOK',
         ip' = 4, UNCHANGED <<tree, list>>
  PROVE  CallsOK'
<1>1. count' = Height(tree)'
  BY DEF BaseOK
<1>2. Height(tree)' \in 1 .. 2
  BY DEF Height
<1>3. \A i \in Height(tree)' + 1 .. count' : FALSE
  BY <1>1, <1>2
<1>4. ASSUME NEW k \in 1 .. ip' - 1 PROVE list'[k].node \notin HashCalls(tree)'
  <2>1. k \in {1, 2, 3} /\ k \in 1 .. Len(list)
    <3>1. Len(list) \in Nat /\ Len(list) >= 3
      BY SourcedList
    <3>2. QED
      BY <3>1
  <2>2. list[k].op # "property"
    BY <2>1, SourcedList
  <2>3. tree[list[k].node].type # "property"
    BY <2>1, <2>2, InstructionSays DEF Says
  <2>4. QED
    BY <2>3 DEF HashCalls, NodesOf
<1>5. QED
  BY <1>3, <1>4 DEF CallsOK, Unselected

LEMMA PlainPush ==
  ASSUME PoolInv, RunInv, At("run"), HasProgram(tree, list), Plain(tree), BaseOK, PlainOK, PushStep
  PROVE  PlainOK'
<1> DEFINE e == SourceOf(list[ip])
           p == list[ip].node
           H == Height(tree)
           x == VariableOf(tree)
<1>1. /\ ip' = ip + 1 /\ scan = -1 /\ scan' = -1 /\ UNCHANGED <<bendVars, calcs>> /\ tree' = tree /\ list' = list
      /\ ip \in 1 .. Len(list) /\ Says(tree, list[ip]) /\ Tree(tree)
      /\ list[ip].op \in {"def", "string", "property"}
      /\ ~(list[ip].op = "def" /\ list[ip].op1 = Type("dynamic"))
      /\ count' = count + 1
      /\ Len(elts') = IF count = Len(elts) THEN Len(elts) + 1 ELSE Len(elts)
      /\ \A i \in 1 .. Len(elts') : elts'[i] = IF i = count + 1 THEN e ELSE elts[i]
  BY PushIs DEF bendVars
<1>2. Len(elts) \in Nat /\ count \in Nat /\ count <= Len(elts) /\ ip \in Nat /\ ip # 0 /\ Len(list) \in Nat
  BY StackIs, InstructionSays
<1>3. Sourceless(tree) = {} /\ OrderlyQuery(tree) /\ StrayUsers(tree) = {} /\ LooseStrings(tree) = {}
      /\ HasOne(tree, "select")
  BY <1>1, PlainIs DEF OrderlyQuery
<1>4. CalcsOK'
  <2>1. ip <= Len(list) /\ list[ip].op # "select"
    BY <1>1, <1>2
  <2>2. QED
    BY <1>1, <1>3, <2>1, AdvanceCalcs DEF PlainOK
<1>5. /\ list[ip].op = "def" => ip = 1
      /\ list[ip].op = "string" => ip = 2
      /\ list[3].op = "from"
  BY <1>1, <1>3, SourcedList, OneString
<1>6. ip <= 2 => CallsOK'
  <2> SUFFICES ASSUME ip <= 2 PROVE ~(ip' >= 4)
    BY DEF CallsOK
  <2>1. QED
    BY <1>1, <1>2
<1>7. ip # 3
  BY <1>1, <1>5
<1>8. ASSUME ip >= 4 PROVE CallsOK'
  <2>1. list[ip].op = "property" /\ tree[p].type = "property" /\ p \in DOMAIN tree
    BY <1>1, <1>5, <1>8 DEF Says
  <2>2. e = Source("prop_call", tree[p - 1].value, tree[p].value)
    BY <1>1, <2>1, SourceOfType
  <2>3. e.type = "prop_call" /\ e.name = x /\ e.value = tree[p].value
    BY <1>1, <2>1, <2>2, SourceIs, PlainIs
  <2>4. H \in 1 .. 2 /\ H' = H /\ x' = x /\ HashCalls(tree)' = HashCalls(tree) /\ FirstHash(tree)' = FirstHash(tree)
    BY <1>1 DEF Height
  <2>5. /\ \A i \in H + 1 .. count : elts[i].type = "prop_call" /\ elts[i].name = x
        /\ Unselected \/ Selected
        /\ count >= H
    BY <1>8 DEF PlainOK, CallsOK, BaseOK
  <2> HIDE DEF e, p, H, x
  <2>6. /\ \A i \in 1 .. count : elts'[i] = elts[i]
        /\ elts'[count + 1] = e
    <3>1. /\ \A i \in 1 .. count : i \in 1 .. Len(elts') /\ i # count + 1
          /\ count + 1 \in 1 .. Len(elts')
      <4>1. Len(elts') = IF count = Len(elts) THEN Len(elts) + 1 ELSE Len(elts)
        BY <1>1
      <4>2. QED
        BY <1>2, <4>1
    <3>2. QED
      BY <1>1, <3>1 DEF e
  <2>7. /\ \A i \in H + 1 .. count' : i = count + 1 \/ i \in H + 1 .. count
        /\ \A i \in H + 1 .. count : i \in 1 .. count
        /\ count + 1 \in H + 1 .. count'
        /\ \A j \in H + 1 .. count : j \in H + 1 .. count' /\ \A i \in H + 1 .. j - 1 : i \in 1 .. count
    BY <1>1, <1>2, <2>4, <2>5
  <2>8. \A i \in H + 1 .. count' : elts'[i].type = "prop_call" /\ elts'[i].name = x
    BY <2>3, <2>5, <2>6, <2>7
  <2>9. CASE Selected
    <3>1. PICK j \in H + 1 .. count :
            elts[j].value = FirstHash(tree) /\ \A i \in H + 1 .. j - 1 : elts[i].value \notin KnownHashes
      BY <2>9 DEF Selected, H
    <3>2. /\ elts'[j].value = FirstHash(tree) /\ j \in H + 1 .. count'
          /\ \A i \in H + 1 .. j - 1 : elts'[i].value \notin KnownHashes
      BY <2>6, <2>7, <3>1
    <3>3. Selected'
      BY <2>4, <2>9, <3>2 DEF Selected, H
    <3>4. QED
      BY <2>4, <2>8, <3>3 DEF CallsOK, H, x
  <2>10. CASE Unselected /\ p \in HashCalls(tree)
    <3>1. \A q \in HashCalls(tree) : p <= q
      <4> SUFFICES ASSUME NEW q \in HashCalls(tree) PROVE p <= q
        OBVIOUS
      <4>1. q \in DOMAIN tree /\ tree[q].type = "property"
        BY DEF HashCalls, NodesOf
      <4>2. PICK k \in 1 .. Len(list) : list[k].node = q
        BY <1>3, <4>1, EntryOf DEF Lasting
      <4>3. ~(k < ip)
        <5>1. k \notin 1 .. ip - 1
          BY <2>10, <4>2 DEF Unselected
        <5>2. QED
          BY <1>2, <5>1
      <4>4. ~(q < p)
        BY <1>1, <4>2, <4>3, SameInstruction DEF p
      <4>5. p \in Nat /\ q \in Nat
        BY <1>1, <2>1, <4>1, NodeTyped DEF Tree
      <4>6. QED
        BY <4>4, <4>5
    <3>2. \A q \in HashCalls(tree) : (\A r \in HashCalls(tree) : q <= r) => q = p
      <4> SUFFICES ASSUME NEW q \in HashCalls(tree), \A r \in HashCalls(tree) : q <= r PROVE q = p
        OBVIOUS
      <4>1. q <= p /\ p <= q
        BY <2>10, <3>1
      <4>2. p \in Nat /\ q \in Nat
        BY <1>1, <2>1, NodeTyped DEF Tree, HashCalls, NodesOf
      <4>3. QED
        BY <4>1, <4>2
    <3>3. FirstCall(tree) = p
      BY <2>10, <3>1, <3>2 DEF FirstCall
    <3>4. FirstHash(tree) = tree[p].value /\ tree[p].value \in KnownHashes
      BY <2>10, <3>3 DEF FirstHash, HashCalls
    <3>6. \A i \in H + 1 .. count : elts'[i].value \notin KnownHashes
      BY <2>6, <2>7, <2>10 DEF Unselected, H
    <3>7. elts'[count + 1].value = FirstHash(tree)
      BY <2>3, <2>6, <3>4
    <3>8. Selected'
      <4>1. HashCalls(tree)' # {} /\ FirstHash(tree)' \in KnownHashes
        BY <2>4, <2>10, <3>4
      <4>2. \E j \in H + 1 .. count' :
              elts'[j].value = FirstHash(tree)' /\ \A i \in H + 1 .. j - 1 : elts'[i].value \notin KnownHashes
        <5> DEFINE m == count + 1
        <5>1. m \in H + 1 .. count' /\ elts'[m].value = FirstHash(tree)' /\ m - 1 = count
          BY <1>2, <2>4, <2>7, <3>7
        <5> HIDE DEF m
        <5>2. QED
          BY <3>6, <5>1
      <4>3. QED
        BY <2>4, <4>1, <4>2 DEF Selected, H
    <3>9. QED
      BY <2>4, <2>8, <3>8 DEF CallsOK, H, x
  <2>11. CASE Unselected /\ p \notin HashCalls(tree)
    <3>1. tree[p].value \notin KnownHashes
      BY <2>1, <2>11 DEF HashCalls, NodesOf
    <3>2. \A i \in H + 1 .. count' : elts'[i].value \notin KnownHashes
      BY <2>3, <2>6, <2>7, <2>11, <3>1 DEF Unselected, H
    <3>3. \A k \in 1 .. ip' - 1 : k = ip \/ k \in 1 .. ip - 1
      BY <1>1, <1>2
    <3>4. \A k \in 1 .. ip' - 1 : list'[k].node \notin HashCalls(tree)'
      BY <1>1, <2>4, <2>11, <3>3 DEF Unselected, p
    <3>5. Unselected'
      BY <2>4, <3>2, <3>4 DEF Unselected, H
    <3>6. QED
      BY <2>4, <2>8, <3>5 DEF CallsOK, H, x
  <2>12. QED
    BY <2>5, <2>9, <2>10, <2>11
<1>9. CallsOK'
  <2>1. ip <= 2 \/ ip >= 4
    BY <1>2, <1>7
  <2>2. QED
    BY <1>6, <1>8, <2>1
<1>10. QED
  BY <1>4, <1>9 DEF PlainOK

\* What is selected stays so when the stack does.
LEMMA CallsStay ==
  ASSUME CallsOK, UNCHANGED <<tree, list, elts, count>>, ip >= 4, ip \in Nat,
         ip' = ip \/ (ip' = ip + 1 /\ list[ip].node \notin HashCalls(tree))
  PROVE  CallsOK'
<1>1. /\ \A i \in Height(tree) + 1 .. count : elts[i].type = "prop_call" /\ elts[i].name = VariableOf(tree)
      /\ Unselected \/ Selected
  BY DEF CallsOK
<1>2. \A k \in 1 .. ip' - 1 : k \in 1 .. ip - 1 \/ list[k].node \notin HashCalls(tree)
  BY DEF HashCalls
<1>3. Unselected => Unselected'
  BY <1>2 DEF Unselected
<1>4. Selected => Selected'
  BY DEF Selected
<1>5. QED
  BY <1>1, <1>3, <1>4 DEF CallsOK

LEMMA PlainPlain ==
  ASSUME PoolInv, RunInv, At("run"), HasProgram(tree, list), Plain(tree), BaseOK, BaseOK', PlainOK, PlainStep
  PROVE  PlainOK'
<1>1. /\ ip' = ip + 1 /\ scan = -1 /\ scan' = -1 /\ ip <= Len(list)
      /\ UNCHANGED <<bendVars, calcs>> /\ UNCHANGED <<tree, list, elts, count>>
      /\ list[ip].op \notin {"string", "property", "select"}
      /\ list[ip].op = "def" => list[ip].op1 = Type("dynamic")
  BY DEF PlainStep, AtStep, Next1, bendVars
<1>2. ip \in Nat /\ ip # 0 /\ ip \in 1 .. Len(list) /\ Says(tree, list[ip]) /\ Tree(tree)
  BY <1>1, StackIs, InstructionIs
<1>3. OrderlyQuery(tree) /\ Sourceless(tree) = {}
  BY <1>2, PlainIs
<1>4. CalcsOK'
  BY <1>1, <1>3, AdvanceCalcs DEF PlainOK
<1>5. CASE ip <= 2
  <2>1. ~(ip' >= 4)
    BY <1>1, <1>2, <1>5
  <2>2. QED
    BY <1>4, <2>1 DEF PlainOK, CallsOK
<1>6. CASE ip = 3
  <2>1. ip' = 4
    BY <1>1, <1>6
  <2>2. QED
    BY <1>1, <1>3, <1>4, <2>1, BehindFrom DEF PlainOK
<1>7. CASE ip >= 4
  <2>1. list[ip].node \notin HashCalls(tree)
    BY <1>1, <1>2 DEF Says, HashCalls, NodesOf
  <2>2. QED
    BY <1>1, <1>2, <1>4, <1>7, <2>1, CallsStay DEF PlainOK
<1>8. QED
  BY <1>2, <1>5, <1>6, <1>7

LEMMA PlainFrom ==
  ASSUME PoolInv, RunInv, DepthOK, At("run"), HasProgram(tree, list), Plain(tree), BaseOK', PlainOK, FromStep
  PROVE  PlainOK'
<1>1. /\ ip' = ip + 1 /\ scan = -1 /\ scan' = -1 /\ UNCHANGED <<bendVars, calcs>> /\ UNCHANGED <<tree, list>>
      /\ ip \in 1 .. Len(list) /\ list[ip].op = "from"
  BY FromIs DEF bendVars
<1>2. OrderlyQuery(tree) /\ Sourceless(tree) = {}
  BY PlainIs DEF HasProgram
<1>3. ip = 3 /\ ip' = 4 /\ ip <= Len(list)
  BY <1>1, <1>2, SourcedList
<1>4. CalcsOK'
  BY <1>1, <1>2, <1>3, AdvanceCalcs DEF PlainOK
<1>5. QED
  BY <1>1, <1>2, <1>3, <1>4, BehindFrom DEF PlainOK

LEMMA PlainSelect ==
  ASSUME PoolInv, RunInv, At("run"), HasProgram(tree, list), Plain(tree), BaseOK, PlainOK, OnSelect
  PROVE  PlainOK'
<1>1. /\ scan = -1 /\ ip <= Len(list) /\ list[ip].op = "select"
      /\ UNCHANGED <<bendVars, ip, elts, count, calcs>> /\ scan' = count /\ props' = <<>>
  BY DEF OnSelect, AtInstruction
<1>2. UNCHANGED <<tree, list, ip, elts, count, calcs>>
  BY <1>1 DEF bendVars
<1>3. Sourceless(tree) = {}
  BY PlainIs DEF HasProgram
<1>4. ip \in Nat /\ ip # 0 /\ count \in Nat
  BY StackIs
<1>5. ip >= 4
  <2>1. list[1].op = "def" /\ list[2].op = "string" /\ list[3].op = "from"
    BY <1>3, SourcedList
  <2>2. ip # 1 /\ ip # 2 /\ ip # 3
    BY <1>1, <2>1
  <2>3. QED
    BY <1>4, <2>2
<1>6. CallsOK'
  BY <1>2, <1>4, <1>5, CallsStay DEF PlainOK
<1>7. Height(tree)' = Height(tree) /\ Height(tree) \in 1 .. 2 /\ count >= Height(tree)
  BY <1>2, <1>5 DEF Height, BaseOK
<1>8. calcs' = <<>>
  BY <1>1, <1>2 DEF PlainOK, CalcsOK
<1>9. PropsFrom(scan)'
  <2>1. DOMAIN props' = {}
    BY <1>1
  <2>2. \A j \in scan' + 1 .. count' : FALSE
    BY <1>1, <1>4
  <2>3. QED
    BY <2>1, <2>2 DEF PropsFrom
<1>10. scan' # -1 /\ scan' \notin 0 .. Height(tree)' - 1
  BY <1>1, <1>4, <1>7
<1>11. CalcsOK'
  BY <1>8, <1>9, <1>10 DEF CalcsOK
<1>12. QED
  BY <1>6, <1>11 DEF PlainOK

LEMMA PlainSelectEnds ==
  ASSUME PoolInv, RunInv, DepthOK, At("run"), HasProgram(tree, list), Plain(tree), BaseOK, PlainOK, SelectEnds
  PROVE  PlainOK'
<1>1. scan = 0 /\ scan' = -1 /\ ip' = ip + 1 /\ UNCHANGED <<bendVars, elts, count, calcs>>
  BY Zenon DEF SelectEnds
<1>2. UNCHANGED <<tree, list, elts, count, calcs>> /\ scan # -1
  BY <1>1 DEF bendVars
<1>3. Sourceless(tree) = {} /\ HasOne(tree, "select") /\ Tree(tree)
  BY PlainIs DEF OrderlyQuery, HasProgram
<1>4. ip \in 4 .. Len(list) /\ list[ip].op = "select"
  BY <1>2, <1>3, BaseSelected
<1>5. Len(list) \in Nat
  BY InstructionSays
<1>6. ip \in 1 .. Len(list) /\ ip >= 4 /\ ip \in Nat
  BY <1>4, <1>5
<1>7. ip = Len(list) /\ Says(tree, list[ip])
  BY <1>3, <1>4, <1>6, SelectEndsList, InstructionSays
<1>8. list[ip].node \notin HashCalls(tree)
  BY <1>4, <1>7 DEF Says, HashCalls, NodesOf
<1>9. CallsOK'
  BY <1>1, <1>2, <1>6, <1>8, CallsStay DEF PlainOK
<1>10. Height(tree)' = Height(tree) /\ Height(tree) \in 1 .. 2
  BY <1>2 DEF Height
<1>11. scan \in 0 .. Height(tree) - 1
  BY <1>1, <1>10
<1>12. calcs' \in Meaning(tree)'
  BY <1>2, <1>11 DEF PlainOK, CalcsOK
<1>13. ~(ip' <= Len(list')) /\ ~(scan' >= Height(tree)') /\ scan' \notin 0 .. Height(tree)' - 1
  BY <1>1, <1>2, <1>5, <1>7, <1>10
<1>14. CalcsOK'
  BY <1>12, <1>13 DEF CalcsOK
<1>15. QED
  BY <1>9, <1>14 DEF PlainOK

LEMMA PlainCalculationEnds ==
  ASSUME PlainOK, CalculationEnds
  PROVE  PlainOK'
<1>1. UNCHANGED <<tree, list, ip, elts, count, scan, props, calcs>>
  BY DEF CalculationEnds, bendVars, procVars
<1>2. CallsOK'
  BY <1>1 DEF PlainOK, CallsOK, Unselected, Selected
<1>3. CalcsOK'
  BY <1>1 DEF PlainOK, CalcsOK, PropsFrom
<1>4. QED
  BY <1>2, <1>3 DEF PlainOK

-----------------------------------------------------------------------------
(* The scan of a plain query                                                *)

LEMMA NoFaultScans ==
  ASSUME PoolInv, RunInv, At("run"), ScanStep
  PROVE  \A f : ~Fault(f)
<1>1. scan' = scan - 1 /\ scan \in Int
  BY ScanIs, StackIs
<1>2. scan' # scan
  BY <1>1
<1>3. QED
  BY <1>2, Zenon DEF Fault, procVars

LEMMA CalculateIs ==
  ASSUME NEW b, NEW h, NEW v, Calculate(b, h, v), \A f : ~Fault(f)
  PROVE  /\ props' = props
         /\ h \in KnownHashes => calcs' = Append(calcs, [builtin |-> b, hash |-> h, value |-> v])
         /\ h \notin KnownHashes => calcs' = calcs
<1>1. ~(v = NoValue /\ h \in KnownHashes)
  BY Zenon DEF Calculate
<1>2. /\ calcs' = IF h \in KnownHashes THEN Append(calcs, [builtin |-> b, hash |-> h, value |-> v]) ELSE calcs
      /\ UNCHANGED <<fault, props>>
  BY <1>1, Zenon DEF Calculate
<1>3. QED
  BY <1>2

LEMMA FirstAppended == ASSUME NEW e PROVE Append(<<>>, e) = <<e>>
OBVIOUS

\* What the scan has kept when it comes to what the from has left.
LEMMA KeptHash ==
  ASSUME PoolInv, RunInv, DepthOK, At("run"), HasProgram(tree, list), Plain(tree), BaseOK, PlainOK,
         scan = Height(tree)
  PROVE  \/ HashCalls(tree) = {} /\ DOMAIN props = {}
         \/ /\ HashCalls(tree) # {} /\ FirstHash(tree) \in KnownHashes
            /\ DOMAIN props = {VariableOf(tree)} /\ props[VariableOf(tree)] = FirstHash(tree)
<1>1. Sourceless(tree) = {} /\ OrderlyQuery(tree) /\ StrayUsers(tree) = {} /\ Tree(tree)
      /\ HasOne(tree, "select")
  BY PlainIs DEF OrderlyQuery, HasProgram
<1>2. Height(tree) \in 1 .. 2 /\ scan \in Int
  BY StackIs DEF Height
<1>3. scan # -1 /\ scan >= Height(tree)
  BY <1>2
<1>4. ip \in 4 .. Len(list) /\ list[ip].op = "select"
  BY <1>1, <1>3, BaseSelected
<1>5. Len(list) \in Nat
  BY InstructionSays
<1>6. ip \in 1 .. Len(list) /\ ip >= 4
  BY <1>4, <1>5
<1>7. ip = Len(list)
  BY <1>1, <1>4, <1>6, SelectEndsList
<1>8. PropsFrom(Height(tree))
  BY <1>3 DEF PlainOK, CalcsOK
<1>9. Unselected \/ Selected
  BY <1>6 DEF PlainOK, CallsOK
<1>10. CASE Unselected
  <2>1. DOMAIN props = {}
    BY <1>8, <1>10 DEF PropsFrom, Unselected
  <2>2. HashCalls(tree) = {}
    <3> SUFFICES ASSUME NEW p \in HashCalls(tree) PROVE FALSE
      OBVIOUS
    <3>1. p \in DOMAIN tree /\ tree[p].type = "property"
      BY DEF HashCalls, NodesOf
    <3>2. PICK k \in 1 .. Len(list) : list[k].node = p
      BY <1>1, <3>1, EntryOf DEF Lasting
    <3>3. list[k].op = "property"
      BY <3>1, <3>2, InstructionSays DEF Says
    <3>4. k # ip
      BY <1>4, <3>3
    <3>5. k \in 1 .. ip - 1
      BY <1>5, <1>7, <3>4
    <3>6. QED
      BY <1>10, <3>2, <3>5 DEF Unselected
  <2>3. QED
    BY <2>1, <2>2
<1>11. CASE Selected
  <2>1. PICK j \in Height(tree) + 1 .. count :
          elts[j].value = FirstHash(tree) /\ \A i \in Height(tree) + 1 .. j - 1 : elts[i].value \notin KnownHashes
    BY <1>11 DEF Selected
  <2>2. FirstHash(tree) \in KnownHashes /\ HashCalls(tree) # {}
    BY <1>11 DEF Selected
  <2>3. DOMAIN props = {VariableOf(tree)} /\ props[VariableOf(tree)] = elts[j].value
    BY <1>8, <2>1, <2>2 DEF PropsFrom
  <2>4. QED
    BY <2>1, <2>2, <2>3
<1>12. QED
  BY <1>9, <1>10, <1>11

\* Above it the scan finds calls of properties only.
LEMMA ScanCalls ==
  ASSUME PoolInv, RunInv, DepthOK, At("run"), HasProgram(tree, list), Plain(tree), BaseOK, TableKept, PlainOK,
         ScanStep, scan > Height(tree)
  PROVE  calcs' = <<>> /\ PropsFrom(scan)'
<1> DEFINE x == VariableOf(tree)
           H == Height(tree)
<1>1. /\ scan' = scan - 1 /\ scan \in 1 .. count /\ UNCHANGED <<tree, list, ip, elts, count>>
  BY ScanIs DEF bendVars
<1>2. Tree(tree) /\ Sourceless(tree) = {}
  BY PlainIs DEF HasProgram
<1>3. count \in Nat /\ scan \in Nat /\ H \in 1 .. 2
  BY <1>1, StackIs DEF Height
<1>4. scan # -1 /\ scan >= H /\ scan \in H + 1 .. count /\ scan > 0
  BY <1>1, <1>3
<1>5. calcs = <<>> /\ PropsFrom(scan)
  BY <1>4 DEF PlainOK, CalcsOK
<1>6. ip >= 4
  <2>1. ip \in 4 .. Len(list)
    BY <1>2, <1>4, BaseSelected
  <2>2. Len(list) \in Nat
    BY InstructionSays
  <2>3. QED
    BY <2>1, <2>2
<1>7. Scanned.type = "prop_call" /\ Scanned.name = x
  BY <1>4, <1>6 DEF PlainOK, CallsOK, Scanned
<1>8. table = "proc"
  BY <1>4, <1>7, TableAtProperty
<1>9. \A f : ~Fault(f)
  BY NoFaultScans
<1>10. ScanProperty
  <2>1. ASSUME NEW types, Scanning(types) PROVE Scanned.type \in types
    BY <2>1, Zenon DEF Scanning
  <2>2. "prop_call" \notin {"string_def"} /\ "prop_call" \notin {"string", "file", "dir"}
        /\ "prop_call" \notin {"hash_definition"} /\ "prop_call" \notin {"hash_decl"}
    OBVIOUS
  <2>3. ~ScanString /\ ~ScanDeclaration /\ ~ScanDefinition /\ ~ScanHashDeclaration
    BY <1>7, <2>1, <2>2, Zenon DEF ScanString, ScanDeclaration, ScanDefinition, ScanHashDeclaration
  <2>4. QED
    BY <2>3, Zenon DEF ScanStep
<1> DEFINE v == Scanned.value
<1>11. PICK found \in Lookup(v) :
          /\ props' = [w \in DOMAIN props \cup {u \in {Scanned.name} : found} |->
                         IF found /\ w = Scanned.name THEN v ELSE props[w]]
          /\ UNCHANGED calcs
  BY <1>9, <1>10, Zenon DEF ScanProperty
<1>12. found <=> v \in KnownHashes
  BY <1>8, RightLookup
<1>13. v = elts[scan].value
  BY DEF Scanned
<1> HIDE DEF v, x, H
<1>14. /\ DOMAIN props \subseteq {x}
       /\ (\A i \in scan + 1 .. count : elts[i].value \notin KnownHashes) => DOMAIN props = {}
       /\ \A j \in scan + 1 .. count :
            elts[j].value \in KnownHashes /\ (\A i \in scan + 1 .. j - 1 : elts[i].value \notin KnownHashes) =>
              DOMAIN props = {x} /\ props[x] = elts[j].value
  BY <1>5 DEF PropsFrom, x
<1>15. scan' + 1 = scan
  BY <1>1, <1>3
<1>16. /\ scan \in scan .. count
       /\ \A i \in scan .. count : i = scan \/ i \in scan + 1 .. count
       /\ \A i \in scan + 1 .. count : i \in scan .. count /\ scan \in scan .. i - 1
                                        /\ \A k \in scan + 1 .. i - 1 : k \in scan .. i - 1
  BY <1>1, <1>3
<1>17. CASE v \in KnownHashes
  <2>1. DOMAIN props' = {x} /\ props'[x] = v
    BY <1>7, <1>11, <1>12, <1>14, <1>17
  <2>2. \A j \in scan .. count :
            elts[j].value \in KnownHashes /\ (\A i \in scan .. j - 1 : elts[i].value \notin KnownHashes) => j = scan
    BY <1>13, <1>16, <1>17
  <2>3. /\ DOMAIN props' \subseteq {x}
        /\ ~(\A i \in scan .. count : elts[i].value \notin KnownHashes)
        /\ \A j \in scan .. count :
             elts[j].value \in KnownHashes /\ (\A i \in scan .. j - 1 : elts[i].value \notin KnownHashes) =>
               DOMAIN props' = {x} /\ props'[x] = elts[j].value
    BY <1>13, <1>16, <1>17, <2>1, <2>2
  <2>4. QED
    BY <1>1, <1>5, <1>11, <1>15, <2>3 DEF PropsFrom, x
<1>18. CASE v \notin KnownHashes
  <2>1. DOMAIN props' = DOMAIN props /\ \A w \in DOMAIN props : props'[w] = props[w]
    BY <1>11, <1>12, <1>18
  <2>2. (\A i \in scan .. count : elts[i].value \notin KnownHashes) =>
           \A i \in scan + 1 .. count : elts[i].value \notin KnownHashes
    BY <1>16
  <2>3. \A j \in scan .. count :
            elts[j].value \in KnownHashes /\ (\A i \in scan .. j - 1 : elts[i].value \notin KnownHashes) =>
              j \in scan + 1 .. count /\ \A i \in scan + 1 .. j - 1 : elts[i].value \notin KnownHashes
    BY <1>13, <1>16, <1>18
  <2>4. x \in {x}
    OBVIOUS
  <2>5. /\ DOMAIN props' \subseteq {x}
        /\ (\A i \in scan .. count : elts[i].value \notin KnownHashes) => DOMAIN props' = {}
        /\ \A j \in scan .. count :
             elts[j].value \in KnownHashes /\ (\A i \in scan .. j - 1 : elts[i].value \notin KnownHashes) =>
               DOMAIN props' = {x} /\ props'[x] = elts[j].value
    BY <1>14, <2>1, <2>2, <2>3, <2>4
  <2>6. QED
    BY <1>1, <1>5, <1>11, <1>15, <2>5 DEF PropsFrom, x
<1>19. QED
  BY <1>17, <1>18

\* Of what the from has left the scan calculates what the query means.
LEMMA ScanFoot ==
  ASSUME PoolInv, RunInv, DepthOK, At("run"), HasProgram(tree, list), Plain(tree), BaseOK, PlainOK,
         ScanStep, scan \in 1 .. Height(tree)
  PROVE  calcs' \in Meaning(tree)
<1> DEFINE x == VariableOf(tree)
           H == Height(tree)
           type == TypeOf(tree)
           s == TextOf(tree)
           first == FirstHash(tree)
<1>1. Tree(tree) /\ Sourceless(tree) = {}
  BY PlainIs DEF HasProgram
<1>2. H \in 1 .. 2 /\ scan \in Nat
  BY DEF Height
<1>3. scan # -1 /\ scan > 0
  BY <1>2
<1>4. Scanned = Foot(tree, scan)
  BY <1>1, <1>3, BaseSelected DEF Scanned
<1>5. \A f : ~Fault(f)
  BY NoFaultScans
<1>6. ASSUME NEW types, Scanning(types) PROVE Scanned.type \in types
  BY <1>6, Zenon DEF Scanning
<1>7. Pass => calcs' = calcs
  BY Zenon DEF Pass
<1>8. scan = H => calcs = <<>>
  <2> SUFFICES ASSUME scan = H PROVE calcs = <<>>
    OBVIOUS
  <2>1. scan >= Height(tree)
    BY <1>2
  <2>2. QED
    BY <2>1 DEF PlainOK, CalcsOK
<1>9. scan = H =>
        \/ HashCalls(tree) = {} /\ DOMAIN props = {}
        \/ HashCalls(tree) # {} /\ first \in KnownHashes /\ DOMAIN props = {x} /\ props[x] = first
  BY KeptHash
<1>10. ASSUME NEW b, NEW h, Calculate(b, h, s), scan = H
       PROVE  /\ h \in KnownHashes => calcs' = Calculated(tree, b, h)
              /\ h \notin KnownHashes => calcs' = <<>>
  <2>1. /\ h \in KnownHashes => calcs' = Append(<<>>, [builtin |-> b, hash |-> h, value |-> s])
        /\ h \notin KnownHashes => calcs' = <<>>
    BY <1>5, <1>8, <1>10, CalculateIs
  <2>2. QED
    BY <2>1, FirstAppended DEF Calculated
<1>11. CASE IsDynamic(tree)
  <2>1. H = 1 /\ Foot(tree, 1) = StringOf(s)
    BY <1>1, <1>11, LeadIs
  <2>2. scan = H /\ Scanned = StringOf(s)
    BY <1>4, <2>1
  <2>3. Scanned.type = "string_def" /\ Scanned.value = s
    BY <2>2, StringOfIs
  <2>4. Meaning(tree) = {<<>>} \cup {Calculated(tree, b, first) : b \in {"string", "file", "dir"}}
    BY <1>1, <1>11, MeaningIs
  <2>5. ScanString
    <3>1. "string_def" \notin {"prop_call"} /\ "string_def" \notin {"string", "file", "dir"}
          /\ "string_def" \notin {"hash_definition"} /\ "string_def" \notin {"hash_decl"}
      OBVIOUS
    <3>2. ~ScanProperty /\ ~ScanDeclaration /\ ~ScanDefinition /\ ~ScanHashDeclaration
      BY <1>6, <2>3, <3>1, Zenon DEF ScanProperty, ScanDeclaration, ScanDefinition, ScanHashDeclaration
    <3>3. QED
      BY <3>2, Zenon DEF ScanStep
  <2>6. Pass \/ \E v \in DOMAIN props, b \in {"dir", "file", "string"} : Calculate(b, props[v], s)
    BY <1>5, <2>3, <2>5, Zenon DEF ScanString
  <2>7. CASE Pass
    BY <1>7, <1>8, <2>2, <2>4, <2>7
  <2>8. ASSUME NEW v \in DOMAIN props, NEW b \in {"dir", "file", "string"}, Calculate(b, props[v], s)
        PROVE  calcs' \in Meaning(tree)
    <3>1. props[v] = first /\ first \in KnownHashes
      BY <1>9, <2>2, <2>8
    <3>2. calcs' = Calculated(tree, b, first)
      BY <1>10, <2>2, <2>8, <3>1
    <3>3. b \in {"string", "file", "dir"}
      OBVIOUS
    <3>4. QED
      BY <2>4, <3>2, <3>3
  <2>9. QED
    BY <2>6, <2>7, <2>8
<1>12. CASE type \in {Type("file"), Type("string"), Type("dir")}
  <2>1. H = 1 /\ Foot(tree, 1) = Source(type[2], x, s) /\ type[2] \in {"file", "string", "dir"}
    <3>1. type # Type("dynamic") /\ type[1] # "name" /\ Name(tree[Front(tree) - 2].value)[1] = "name"
      BY <1>12 DEF Type, Name
    <3>2. QED
      BY <1>1, <3>1, LeadIs DEF IsDynamic, VariableOf
  <2>2. scan = H /\ Scanned = Source(type[2], x, s)
    BY <1>4, <2>1
  <2>3. Scanned.type = type[2] /\ Scanned.name = x /\ Scanned.value = s
    BY <2>2, SourceIs
  <2>4. Meaning(tree) = {IF HashCalls(tree) = {} THEN <<>> ELSE Calculated(tree, type[2], first)}
    BY <1>1, <1>12, MeaningIs
  <2>5. ScanDeclaration
    <3>1. Scanned.type \notin {"prop_call"} /\ Scanned.type \notin {"string_def"}
          /\ Scanned.type \notin {"hash_definition"} /\ Scanned.type \notin {"hash_decl"}
      BY <2>1, <2>3
    <3>2. ~ScanProperty /\ ~ScanString /\ ~ScanDefinition /\ ~ScanHashDeclaration
      BY <1>6, <3>1, Zenon DEF ScanProperty, ScanString, ScanDefinition, ScanHashDeclaration
    <3>3. QED
      BY <3>2, Zenon DEF ScanStep
  <2>6. CASE x \in DOMAIN props
    <3>1. HashCalls(tree) # {} /\ props[x] = first /\ first \in KnownHashes
      BY <1>9, <2>2, <2>6
    <3>2. Calculate(type[2], props[x], s)
      BY <2>3, <2>5, <2>6, Zenon DEF ScanDeclaration
    <3>3. calcs' = Calculated(tree, type[2], first)
      BY <1>10, <2>2, <3>1, <3>2
    <3>4. QED
      BY <2>4, <3>1, <3>3
  <2>7. CASE x \notin DOMAIN props
    <3>1. HashCalls(tree) = {}
      BY <1>9, <2>2, <2>7
    <3>2. Pass
      BY <2>3, <2>5, <2>7, Zenon DEF ScanDeclaration
    <3>3. QED
      BY <1>7, <1>8, <2>2, <2>4, <3>1, <3>2
  <2>8. QED
    BY <2>6, <2>7
<1>13. CASE ~IsDynamic(tree) /\ type \notin {Type("file"), Type("string"), Type("dir")}
  <2>1. /\ H = 2 /\ Lead(tree).type = "hash_decl" /\ Foot(tree, 1) = Lead(tree)
        /\ Foot(tree, 2) = Source("hash_definition", type[2], s)
    BY <1>1, <1>13, LeadIs
  <2>2. Meaning(tree) = {IF type[2] \in KnownHashes THEN Calculated(tree, "hash", type[2]) ELSE <<>>}
    BY <1>1, <1>13, MeaningIs
  <2>3. CASE scan = 1
    <3>1. Scanned.type = "hash_decl"
      BY <1>4, <2>1, <2>3
    <3>2. "hash_decl" \notin {"prop_call"} /\ "hash_decl" \notin {"string_def"}
          /\ "hash_decl" \notin {"hash_definition"} /\ "hash_decl" \notin {"string", "file", "dir"}
      OBVIOUS
    <3>3. ~ScanProperty /\ ~ScanString /\ ~ScanDefinition /\ ~ScanDeclaration
      BY <1>6, <3>1, <3>2, Zenon DEF ScanProperty, ScanString, ScanDefinition, ScanDeclaration
    <3>4. Pass
      BY <3>3, Zenon DEF ScanStep, ScanHashDeclaration
    <3>5. scan \in 0 .. Height(tree) - 1
      BY <2>1, <2>3
    <3>6. calcs \in Meaning(tree)
      BY <3>5 DEF PlainOK, CalcsOK
    <3>7. QED
      BY <1>7, <3>4, <3>6
  <2>4. CASE scan = 2
    <3>1. scan = H /\ Scanned = Source("hash_definition", type[2], s)
      BY <1>4, <2>1, <2>4
    <3>2. Scanned.type = "hash_definition" /\ Scanned.name = type[2] /\ Scanned.value = s
      BY <3>1, SourceIs
    <3>3. "hash_definition" \notin {"prop_call"} /\ "hash_definition" \notin {"string_def"}
          /\ "hash_definition" \notin {"hash_decl"} /\ "hash_definition" \notin {"string", "file", "dir"}
      OBVIOUS
    <3>4. ~ScanProperty /\ ~ScanString /\ ~ScanHashDeclaration /\ ~ScanDeclaration
      BY <1>6, <3>2, <3>3, Zenon DEF ScanProperty, ScanString, ScanHashDeclaration, ScanDeclaration
    <3>5. Calculate("hash", type[2], s)
      <4>1. ScanDefinition
        BY <3>4, Zenon DEF ScanStep
      <4>2. QED
        BY <1>5, <3>2, <4>1, Zenon DEF ScanDefinition
    <3>6. QED
      BY <1>10, <2>2, <3>1, <3>5
  <2>5. QED
    BY <2>1, <2>3, <2>4
<1>14. QED
  BY <1>11, <1>12, <1>13

LEMMA PlainScan ==
  ASSUME PoolInv, RunInv, DepthOK, At("run"), HasProgram(tree, list), Plain(tree), BaseOK, TableKept, PlainOK,
         ScanStep
  PROVE  PlainOK'
<1>1. /\ scan' = scan - 1 /\ scan \in 1 .. count /\ UNCHANGED <<tree, list, ip, elts, count>> /\ scan # -1
  BY ScanIs DEF bendVars
<1>2. Tree(tree) /\ Sourceless(tree) = {} /\ count \in Nat /\ ip \in Nat
  BY PlainIs, StackIs DEF HasProgram
<1>3. ip >= 4
  <2>1. ip \in 4 .. Len(list) /\ Len(list) \in Nat
    BY <1>1, <1>2, BaseSelected, InstructionSays
  <2>2. QED
    BY <2>1
<1>4. CallsOK'
  BY <1>1, <1>2, <1>3, CallsStay DEF PlainOK
<1>5. Height(tree)' = Height(tree) /\ Height(tree) \in 1 .. 2 /\ Meaning(tree)' = Meaning(tree)
  BY <1>1 DEF Height
<1>6. CASE scan > Height(tree)
  <2>1. calcs' = <<>> /\ PropsFrom(scan)'
    BY <1>6, ScanCalls
  <2>2. scan' # -1 /\ scan' \notin 0 .. Height(tree)' - 1
    BY <1>1, <1>2, <1>5, <1>6
  <2>3. CalcsOK'
    BY <2>1, <2>2 DEF CalcsOK
  <2>4. QED
    BY <1>4, <2>3 DEF PlainOK
<1>7. CASE scan \in 1 .. Height(tree)
  <2>1. calcs' \in Meaning(tree)'
    BY <1>5, <1>7, ScanFoot
  <2>2. scan' # -1 /\ ~(scan' >= Height(tree)')
    BY <1>1, <1>2, <1>5, <1>7
  <2>3. CalcsOK'
    BY <2>1, <2>2 DEF CalcsOK
  <2>4. QED
    BY <1>4, <2>3 DEF PlainOK
<1>8. QED
  <2>1. scan > Height(tree) \/ scan \in 1 .. Height(tree)
    BY <1>1, <1>2, <1>5
  <2>2. QED
    BY <1>6, <1>7, <2>1

LEMMA StepPlain ==
  ASSUME PoolInv, RunInv, DepthOK, At("run"), HasProgram(tree, list), Plain(tree), BaseOK, TableKept, PlainOK,
         RunInstruction
  PROVE  PlainOK' \/ fault' # ""
<1> SUFFICES ASSUME PushStep \/ PlainStep \/ FromStep \/ OnSelect \/ ScanStep \/ SelectEnds \/ CalculationEnds,
                    BaseOK'
             PROVE  PlainOK'
  <2>1. Sourceless(tree) = {}
    BY PlainIs DEF HasProgram
  <2>2. QED
    BY <2>1, RunSteps, StepBase, Zenon
<1>1. QED
  BY PlainPush, PlainPlain, PlainFrom, PlainSelect, PlainScan, PlainSelectEnds, PlainCalculationEnds, Zenon

\* The only fault of a plain query: it looks for a hash it has not selected.
LEMMA OnlyIterator ==
  ASSUME PoolInv, RunInv, DepthOK, At("run"), HasProgram(tree, list), Plain(tree), BaseOK, PlainOK,
         RunInstruction, fault' = "iterator"
  PROVE  /\ HashCalls(tree) = {}
         /\ DeclaredType(tree) \notin {Type("string"), Type("file"), Type("dir")}
<1>1. fault = ""
  BY AtRun
<1>2. ASSUME NEW f, Fault(f) PROVE f = "iterator"
  BY <1>2, Zenon DEF Fault
<1>3. "position" # "iterator" /\ "table" # "iterator" /\ "value" # "iterator"
  BY Zenon
<1>4. ~Next1 /\ ~Pass
  BY <1>1, Zenon DEF Next1, Pass
<1>5. ASSUME NEW b, NEW h, NEW v, Calculate(b, h, v) PROVE FALSE
  BY <1>1, <1>2, <1>3, <1>5, Zenon DEF Calculate
<1>6. ~(OnDef \/ OnString \/ OnProperty \/ OnNothing)
  BY <1>4, Zenon DEF OnDef, OnString, OnProperty, OnNothing
<1>7. ~OnFrom
  BY <1>2, <1>3, <1>4, Zenon DEF OnFrom
<1>8. ~(OnSelect \/ SelectEnds \/ CalculationEnds)
  BY <1>1, Zenon DEF OnSelect, SelectEnds, CalculationEnds
<1>9. ~(ScanProperty \/ ScanDeclaration \/ ScanHashDeclaration)
  BY <1>1, <1>2, <1>3, <1>4, <1>5, Zenon DEF ScanProperty, ScanDeclaration, ScanHashDeclaration
<1>10. ASSUME NEW types, Scanning(types) PROVE scan > 0 /\ Scanned.type \in types
  BY <1>10, Zenon DEF Scanning
<1>11. DOMAIN props = {} /\ scan > 0 /\ Scanned.type \in {"string_def", "hash_definition"}
  <2>1. CASE ScanString
    <3>1. Scanning({"string_def"}) /\ DOMAIN props = {}
      BY <1>4, <1>5, <2>1, Zenon DEF ScanString
    <3>2. QED
      BY <1>10, <3>1
  <2>2. CASE ScanDefinition
    <3>1. Scanning({"hash_definition"}) /\ DOMAIN props = {}
      BY <1>5, <2>2, Zenon DEF ScanDefinition
    <3>2. QED
      BY <1>10, <3>1
  <2>3. QED
    BY <1>6, <1>7, <1>8, <1>9, <2>1, <2>2, Zenon DEF RunInstruction
<1>12. Tree(tree) /\ Sourceless(tree) = {} /\ DeclaredType(tree) = TypeOf(tree)
  BY PlainIs DEF HasProgram
<1>13. scan \in Int /\ scan <= count /\ count \in Nat /\ Height(tree) \in 1 .. 2
  BY StackIs DEF Height
<1>14. scan # -1
  BY <1>11, <1>13
<1>15. ip >= 4
  <2>1. ip \in 4 .. Len(list) /\ Len(list) \in Nat
    BY <1>12, <1>14, BaseSelected, InstructionSays
  <2>2. QED
    BY <2>1
<1>16. scan \in 1 .. Height(tree)
  <2>1. scan \notin Height(tree) + 1 .. count
    <3>1. scan \in Height(tree) + 1 .. count => Scanned.type = "prop_call"
      BY <1>15 DEF PlainOK, CallsOK, Scanned
    <3>2. QED
      BY <1>11, <3>1
  <2>2. QED
    BY <1>11, <1>13, <2>1
<1>17. Scanned = Foot(tree, scan)
  BY <1>12, <1>14, <1>16, BaseSelected DEF Scanned
<1>18. scan = Height(tree) /\ TypeOf(tree) \notin {Type("string"), Type("file"), Type("dir")}
  <2>1. CASE IsDynamic(tree)
    <3>1. Height(tree) = 1
      BY <1>12, <2>1, LeadIs
    <3>2. TypeOf(tree) \notin {Type("string"), Type("file"), Type("dir")}
      BY <2>1 DEF IsDynamic, Type
    <3>3. QED
      BY <1>16, <3>1, <3>2
  <2>2. CASE ~IsDynamic(tree) /\ Height(tree) = 1
    <3>1. Foot(tree, 1) = Source(Lead(tree).type, tree[Front(tree)].value, TextOf(tree))
          /\ Lead(tree).type \in {"file", "string", "dir"}
      BY <1>12, <2>2, LeadIs
    <3>2. Scanned = Foot(tree, 1)
      BY <1>16, <1>17, <2>2
    <3>3. QED
      BY <1>11, <3>1, <3>2, SourceIs
  <2>3. CASE ~IsDynamic(tree) /\ Height(tree) = 2
    <3>1. /\ TypeOf(tree) = Name(tree[Front(tree) - 2].value)
          /\ Lead(tree).type = "hash_decl" /\ Foot(tree, 1) = Lead(tree)
      BY <1>12, <2>3, LeadIs
    <3>2. scan # 1
      BY <1>11, <1>17, <3>1
    <3>3. scan = 2
      BY <1>16, <2>3, <3>2
    <3>4. TypeOf(tree) \notin {Type("string"), Type("file"), Type("dir")}
      BY <3>1 DEF Name, Type
    <3>5. QED
      BY <2>3, <3>3, <3>4
  <2>4. QED
    BY <1>13, <2>1, <2>2, <2>3
<1>19. HashCalls(tree) = {}
  BY <1>11, <1>18, KeptHash
<1>20. QED
  BY <1>12, <1>18, <1>19

-----------------------------------------------------------------------------
(* Together                                                                 *)

\* A run keeps the depth of its stack; an orderly query its table; a query
\* whose from has its string the bottom of the stack; a plain query what it
\* calculates.
QueryInv ==
  fault = "" /\ stage = "run" =>
    /\ DepthOK
    /\ OrderlyQuery(tree) => TableKept
    /\ Sourceless(tree) = {} => BaseOK
    /\ Plain(tree) => PlainOK

LEMMA RunBegins ==
  ASSUME Idle, table = "proc", HasProgram(tree, list)
  PROVE  DepthOK /\ TableKept /\ BaseOK /\ (Plain(tree) => PlainOK)
<1>1. ip = 1 /\ elts = <<>> /\ count = 0 /\ scan = -1 /\ DOMAIN props = {} /\ calcs = <<>>
  BY DEF Idle
<1>2. DepthOK
  BY <1>1 DEF DepthOK
<1>3. TableKept
  BY <1>1 DEF TableKept, PropsKnown
<1>4. BaseOK
  BY <1>1 DEF BaseOK
<1>5. ASSUME Plain(tree) PROVE PlainOK
  <2>1. Sourceless(tree) = {}
    BY <1>5 DEF Plain
  <2>2. Len(list) \in Nat /\ Len(list) >= 3
    BY <2>1, SourcedList
  <2>3. Height(tree) \in 1 .. 2
    BY DEF Height
  <2>4. ~(scan >= Height(tree)) /\ scan \notin 0 .. Height(tree) - 1 /\ ~(ip > Len(list)) /\ ~(ip >= 4)
    BY <1>1, <2>2, <2>3
  <2>5. QED
    BY <1>1, <2>4 DEF PlainOK, CallsOK, CalcsOK
<1>6. QED
  BY <1>2, <1>3, <1>4, <1>5

\* After a fault nothing happens any more.
LEMMA FaultStops ==
  ASSUME [LNext]_vars, fault # ""
  PROVE  UNCHANGED vars
<1>1. \A s : ~At(s)
  BY Zenon DEF At
<1>2. \A kind : ~AtUnit(kind)
  BY <1>1, Zenon DEF AtUnit
<1>3. QED
  BY <1>1, <1>2, Zenon DEF LNext, OpenText, OpenFails, Exit, TextEnds, Comment, BeginQuery, Junk, Reduce,
                           QueryGoesWrong, BeginWalk, Walk, BeginRun, Run, QueryEnds

\* Only two actions leave a run under way.
LEMMA OnlyRun ==
  ASSUME LNext, stage' = "run"
  PROVE  BeginRun \/ Run
<1>1. "open" # "run" /\ "units" # "run" /\ "reduce" # "run" /\ "walk" # "run" /\ "end" # "run"
  BY Zenon
<1>2. \A s : At(s) => stage = s
  BY Zenon DEF At
<1>3. \A kind : AtUnit(kind) => stage = "units"
  BY <1>2, Zenon DEF AtUnit
<1>4. \A failed : Report(failed) => stage' = "open"
  BY Zenon DEF Report
<1>5. SyntaxError => stage' = "open"
  BY <1>4, Zenon DEF SyntaxError
<1>6. ~(OpenText \/ OpenFails \/ Exit)
  BY <1>1, Zenon DEF OpenText, OpenFails, Exit
<1>7. ~(TextEnds \/ Junk \/ QueryGoesWrong)
  BY <1>1, <1>4, <1>5, Zenon DEF TextEnds, Junk, QueryGoesWrong
<1>8. ~(Comment \/ BeginQuery \/ Reduce)
  BY <1>1, <1>2, <1>3, Zenon DEF Comment, BeginQuery, Reduce
<1>9. ~(BeginWalk \/ QueryEnds)
  BY <1>1, Zenon DEF BeginWalk, QueryEnds
<1>10. ~Walk
  BY <1>1, <1>2, Zenon DEF Walk, frontVars
<1>11. QED
  BY <1>6, <1>7, <1>8, <1>9, <1>10, Zenon DEF LNext

LEMMA NextQueryInv == LInv /\ ListInv /\ PoolInv /\ RunInv /\ QueryInv /\ [LNext]_vars => QueryInv'
<1> SUFFICES ASSUME LInv, ListInv, PoolInv, RunInv, QueryInv, [LNext]_vars, fault' = "", stage' = "run"
             PROVE  /\ DepthOK'
                    /\ OrderlyQuery(tree)' => TableKept'
                    /\ (Sourceless(tree) = {})' => BaseOK'
                    /\ Plain(tree)' => PlainOK'
  BY Zenon DEF QueryInv
<1>1. CASE BeginRun
  <2>1. stage = "walk" /\ fault = "" /\ stack = <<>>
    BY <1>1, Zenon DEF BeginRun, At
  <2>2. Idle /\ table = "proc"
    BY <2>1, Zenon DEF RunInv
  <2>3. stage \in {"walk", "run"}
    BY <2>1, Zenon
  <2>4. HasProgram(tree, list)
    BY <2>1, <2>3, WalkedProgram, Zenon
  <2>5. DepthOK /\ TableKept /\ BaseOK /\ (Plain(tree) => PlainOK)
    BY <2>2, <2>4, RunBegins, Zenon
  <2>6. UNCHANGED <<tree, list, table, ip, elts, count, scan, props, calcs>>
    BY <1>1, Zenon DEF BeginRun, bendVars, builtinVars, procVars
  <2>7. DepthOK'
    BY <2>5, <2>6, Zenon DEF DepthOK
  <2>8. TableKept'
    BY <2>5, <2>6, Zenon DEF TableKept, Calculates, PropsKnown
  <2>9. BaseOK'
    BY <2>5, <2>6, Zenon DEF BaseOK
  <2>10. Plain(tree)' => PlainOK'
    BY <2>5, <2>6, Zenon DEF PlainOK, CallsOK, Unselected, Selected, CalcsOK, PropsFrom
  <2>11. QED
    BY <2>7, <2>8, <2>9, <2>10, Zenon
<1>2. CASE Run
  <2>1. At("run") /\ RunInstruction /\ UNCHANGED stage
    BY <1>2, Zenon DEF Run, frontVars
  <2>2. UNCHANGED <<tree, list>>
    BY <2>1, RunKeepsWalk, Zenon DEF bendVars
  <2>3. fault = "" /\ stage = "run"
    BY <2>1, Zenon DEF At
  <2>4. HasProgram(tree, list)
    BY <2>3, RunHasProgram, Zenon
  <2>5. /\ DepthOK
        /\ OrderlyQuery(tree) => TableKept
        /\ Sourceless(tree) = {} => BaseOK
        /\ Plain(tree) => PlainOK
    BY <2>3, Zenon DEF QueryInv
  <2>6. DepthOK'
    BY <2>1, <2>4, <2>5, StepDepth, Zenon DEF DepthInv
  <2>7. OrderlyQuery(tree) => TableKept'
    BY <2>1, <2>4, <2>5, StepTable, Zenon
  <2>8. Sourceless(tree) = {} => BaseOK'
    BY <2>1, <2>4, <2>5, StepBase, Zenon
  <2>9. Plain(tree) => Sourceless(tree) = {} /\ OrderlyQuery(tree)
    BY <2>4, PlainIs, Zenon DEF HasProgram
  <2>10. Plain(tree) => PlainOK'
    BY <2>1, <2>4, <2>5, <2>9, StepPlain, Zenon
  <2>11. OrderlyQuery(tree)' = OrderlyQuery(tree) /\ (Sourceless(tree) = {})' = (Sourceless(tree) = {})
         /\ Plain(tree)' = Plain(tree)
    BY <2>2
  <2>12. QED
    BY <2>6, <2>7, <2>8, <2>10, <2>11, Zenon
<1>3. CASE UNCHANGED vars
  <2>1. UNCHANGED <<fault, stage, tree, list, table, ip, elts, count, scan, props, calcs>>
    BY <1>3, Zenon DEF vars, frontVars, bendVars, builtinVars, procVars
  <2>2. /\ DepthOK
        /\ OrderlyQuery(tree) => TableKept
        /\ Sourceless(tree) = {} => BaseOK
        /\ Plain(tree) => PlainOK
    BY <2>1, Zenon DEF QueryInv
  <2>3. DepthOK'
    BY <2>1, <2>2, Zenon DEF DepthOK
  <2>4. OrderlyQuery(tree)' => TableKept'
    BY <2>1, <2>2, Zenon DEF TableKept, Calculates, PropsKnown
  <2>5. (Sourceless(tree) = {})' => BaseOK'
    BY <2>1, <2>2, Zenon DEF BaseOK
  <2>6. Plain(tree)' => PlainOK'
    BY <2>1, <2>2, Zenon DEF PlainOK, CallsOK, Unselected, Selected, CalcsOK, PropsFrom
  <2>7. QED
    BY <2>3, <2>4, <2>5, <2>6, Zenon
<1>4. QED
  BY <1>1, <1>2, <1>3, OnlyRun, Zenon

\* Why a walk or a run has crashed.
Causes ==
  /\ Plain(tree) =>
       fault = "iterator" /\ HashCalls(tree) = {}
         /\ DeclaredType(tree) \notin {Type("string"), Type("file"), Type("dir")}
  /\ fault = "table" =>
       ~HasOne(tree, "select") \/ LooseStrings(tree) # {} \/ StrayUsers(tree) # {}
  /\ fault = "value" => Sourceless(tree) # {}
  /\ fault \notin {"pop", "position"}

CauseInv == stage \in {"walk", "run"} /\ fault # "" => Causes

LEMMA RunCauses ==
  ASSUME LInv, ListInv, PoolInv, RunInv, QueryInv, Run, fault' # ""
  PROVE  Causes'
<1>1. At("run") /\ RunInstruction
  BY Zenon DEF Run
<1>2. fault = "" /\ stage = "run"
  BY <1>1, Zenon DEF At
<1>3. HasProgram(tree, list) /\ Tree(tree)
  BY <1>2, RunHasProgram, Zenon DEF HasProgram
<1>4. /\ DepthOK
      /\ OrderlyQuery(tree) => TableKept
      /\ Sourceless(tree) = {} => BaseOK
      /\ Plain(tree) => PlainOK
  BY <1>2, Zenon DEF QueryInv
<1>5. tree' = tree
  BY <1>1, RunKeepsWalk, Zenon DEF bendVars
<1>6. fault' \in {"position", "value", "table", "iterator"}
  <2>1. fault' \in {fault, "position", "value", "table", "iterator"}
    BY <1>1, RunFaults, Zenon
  <2>2. QED
    BY <1>2, <2>1, Zenon
<1>7. fault' # "position"
  BY <1>1, <1>3, <1>4, NoPosition, Zenon
<1>8. OrderlyQuery(tree) => fault' # "table"
  BY <1>1, <1>4, NoTable, Zenon
<1>9. Sourceless(tree) = {} => fault' # "value"
  BY <1>1, <1>3, <1>4, NoMissing, Zenon
<1>10. Plain(tree) => Sourceless(tree) = {} /\ OrderlyQuery(tree)
  BY <1>3, PlainIs, Zenon
<1>11. Plain(tree) => fault' = "iterator"
  BY <1>6, <1>7, <1>8, <1>9, <1>10, Zenon
<1>12. Plain(tree) => HashCalls(tree) = {} /\ DeclaredType(tree) \notin {Type("string"), Type("file"), Type("dir")}
  BY <1>1, <1>3, <1>4, <1>10, <1>11, OnlyIterator, Zenon
<1>13. fault' = "table" => ~HasOne(tree, "select") \/ LooseStrings(tree) # {} \/ StrayUsers(tree) # {}
  BY <1>8, Zenon DEF OrderlyQuery
<1>14. fault' \notin {"pop", "position"}
  <2>1. "pop" \notin {"position", "value", "table", "iterator"}
    BY Zenon
  <2>2. fault' # "pop"
    BY <1>6, <2>1, Zenon
  <2>3. QED
    BY <1>7, <2>2, Zenon
<1> DEFINE C(t, f) ==
             /\ Plain(t) =>
                  f = "iterator" /\ HashCalls(t) = {}
                    /\ DeclaredType(t) \notin {Type("string"), Type("file"), Type("dir")}
             /\ f = "table" => ~HasOne(t, "select") \/ LooseStrings(t) # {} \/ StrayUsers(t) # {}
             /\ f = "value" => Sourceless(t) # {}
             /\ f \notin {"pop", "position"}
<1>15. C(tree, fault')
  BY <1>9, <1>11, <1>12, <1>13, <1>14, Zenon
<1>16. C(tree', fault')
  <2> HIDE DEF C
  <2>1. QED
    BY <1>5, <1>15, Zenon
<1>17. QED
  BY <1>16, Zenon DEF Causes

LEMMA NextCauseInv ==
  LInv /\ ListInv /\ PoolInv /\ RunInv /\ QueryInv /\ CauseInv /\ [LNext]_vars => CauseInv'
<1> SUFFICES ASSUME LInv, ListInv, PoolInv, RunInv, QueryInv, CauseInv, [LNext]_vars,
                    stage' \in {"walk", "run"}, fault' # ""
             PROVE  Causes'
  BY Zenon DEF CauseInv
<1>1. CASE UNCHANGED vars
  <2>1. UNCHANGED <<stage, fault, tree>>
    BY <1>1, Zenon DEF vars, frontVars, bendVars
  <2>2. Causes
    BY <2>1, Zenon DEF CauseInv
  <2>3. QED
    BY <2>1, <2>2 DEF Causes
<1>2. CASE fault # ""
  BY <1>1, <1>2, FaultStops, Zenon
<1>3. CASE Run
  BY <1>3, RunCauses, Zenon
<1>4. CASE LNext /\ ~Run /\ fault = ""
  <2>1. ~UNCHANGED fault
    BY <1>4, Zenon
  <2>2. ~(OpenText \/ OpenFails \/ Exit \/ TextEnds \/ Comment \/ BeginQuery \/ Reduce)
    BY <2>1, Zenon DEF OpenText, OpenFails, Exit, TextEnds, Comment, BeginQuery, Reduce
  <2>3. ~(QueryGoesWrong \/ BeginWalk \/ BeginRun \/ QueryEnds)
    BY <2>1, Zenon DEF QueryGoesWrong, BeginWalk, BeginRun, QueryEnds
  <2>4. ~Junk
    <3>1. Junk => stage' = "open"
      BY Zenon DEF Junk, SyntaxError, Report
    <3>2. "open" \notin {"walk", "run"}
      BY Zenon
    <3>3. QED
      BY <3>1, <3>2, Zenon
  <2>5. ~Walk
    <3>1. Walk => stage = "walk" /\ (Visit \/ Descend)
      BY Zenon DEF Walk, At
    <3>2. stage = "walk" /\ Visit => fault' = fault
      BY VisitList, Zenon
    <3>3. Descend => fault' = fault
      BY Zenon DEF Descend
    <3>4. QED
      BY <2>1, <3>1, <3>2, <3>3, Zenon
  <2>6. QED
    BY <1>4, <2>2, <2>3, <2>4, <2>5, Zenon DEF LNext
<1>5. QED
  BY <1>1, <1>2, <1>3, <1>4, Zenon

-----------------------------------------------------------------------------
(* The parser's pools                                                       *)

\* A text of nothing has no query; a dead pool is used for junk only.
JunkInv ==
  /\ stage \in {"reduce", "walk", "run"} => Texts[text] # <<>>
  /\ stage = "units" /\ Texts[text] = <<>> => unit = 1
  /\ fault = "pool" => Texts[text - 1] # <<>> /\ Texts[text - 1][unit].kind = "junk"

LEMMA InitJunkInv == LInit => JunkInv
<1> SUFFICES ASSUME LInit PROVE JunkInv
  OBVIOUS
<1>1. stage = "open" /\ fault = ""
  BY Zenon DEF LInit
<1>2. "open" \notin {"reduce", "walk", "run"} /\ "open" # "units" /\ "pool" # ""
  BY Zenon
<1>3. QED
  BY <1>1, <1>2, Zenon DEF JunkInv

\* What is left to show when the pool is not at fault.
LEMMA SomeUnit == ASSUME NEW s, NEW u \in Nat, u # 0, u <= Len(s) PROVE s # <<>>
  OBVIOUS

LEMMA BackOne == ASSUME NEW n \in Nat, NEW m, m = n + 1 PROVE m - 1 = n
  OBVIOUS

LEMMA NextUnits ==
  ASSUME JunkInv, ParserInv, LNext, fault = "", fault' = ""
  PROVE  JunkInv'
<1>1. fault' # "pool" /\ fault # "pool"
  BY Zenon
<1> DEFINE U(s, t, u) ==
             /\ s \in {"reduce", "walk", "run"} => t # <<>>
             /\ s = "units" /\ t = <<>> => u = 1
<1>2. U(stage, Texts[text], unit)
  BY Zenon DEF JunkInv
<1>3. U(stage', Texts'[text'], unit') => JunkInv'
  BY <1>1, Zenon DEF JunkInv
<1> HIDE DEF U
<1>4. Texts' = Texts
  <2>1. program' = program
    BY Zenon DEF LNext, OpenText, OpenFails, Exit, TextEnds, Comment, BeginQuery, Junk, Reduce,
                 QueryGoesWrong, BeginWalk, Walk, BeginRun, Run, QueryEnds, KeepBackground, frontVars
  <2>2. QED
    BY <2>1, Zenon DEF Texts
<1>6. CASE OpenText
  <2>1. stage' = "units" /\ unit' = 1
    BY <1>6, Zenon DEF OpenText
  <2>2. "units" \notin {"reduce", "walk", "run"}
    BY Zenon
  <2>3. U(stage', Texts'[text'], unit')
    BY <2>1, <2>2, Zenon DEF U
  <2>4. QED
    BY <1>3, <2>3, Zenon
<1>7. CASE OpenFails \/ Exit \/ TextEnds \/ Junk \/ QueryGoesWrong
  <2>1. stage' \in {"open", "end"}
    BY <1>7, Zenon DEF OpenFails, Exit, TextEnds, Junk, QueryGoesWrong, SyntaxError, Report
  <2>2. stage' \notin {"reduce", "walk", "run"} /\ stage' # "units"
    <3>1. "open" \notin {"reduce", "walk", "run"} /\ "open" # "units"
          /\ "end" \notin {"reduce", "walk", "run"} /\ "end" # "units"
      BY Zenon
    <3>2. stage' = "open" \/ stage' = "end"
      BY <2>1, Zenon
    <3>3. QED
      BY <3>1, <3>2, Zenon
  <2>3. U(stage', Texts'[text'], unit')
    BY <2>2, Zenon DEF U
  <2>4. QED
    BY <1>3, <2>3, Zenon
<1>8. CASE Reduce \/ BeginWalk \/ Walk \/ BeginRun \/ Run
  <2>1. text' = text /\ stage \in {"reduce", "walk", "run"}
    BY <1>8, Zenon DEF Reduce, BeginWalk, Walk, BeginRun, Run, At, frontVars
  <2>2. stage' \in {"reduce", "walk", "run"}
    BY <1>8, <2>1, Zenon DEF Reduce, BeginWalk, Walk, BeginRun, Run, At, frontVars
  <2>3. stage' # "units" /\ Texts[text] # <<>>
    <3>1. "units" \notin {"reduce", "walk", "run"}
      BY Zenon
    <3>2. QED
      BY <1>2, <2>1, <2>2, <3>1, Zenon DEF U
  <2>4. U(stage', Texts'[text'], unit')
    BY <1>4, <2>1, <2>3, Zenon DEF U
  <2>5. QED
    BY <1>3, <2>4, Zenon
<1>9. CASE Comment \/ BeginQuery \/ QueryEnds
  <2>1. text' = text
    BY <1>9, Zenon DEF Comment, BeginQuery, QueryEnds, AtUnit, At
  <2>2. Texts[text] # <<>>
    <3>1. CASE QueryEnds
      <4>1. stage \in {"reduce", "walk", "run"}
        BY <3>1, Zenon DEF QueryEnds, At
      <4>2. QED
        BY <1>2, <4>1, Zenon DEF U
    <3>2. CASE Comment \/ BeginQuery
      <4>1. unit <= Len(Texts[text])
        BY <3>2, Zenon DEF Comment, BeginQuery, AtUnit
      <4>2. unit \in Nat /\ unit # 0
        BY DEF ParserInv
      <4>3. QED
        BY <4>1, <4>2, SomeUnit, Zenon
    <3>3. QED
      BY <1>9, <3>1, <3>2, Zenon
  <2>3. U(stage', Texts'[text'], unit')
    BY <1>4, <2>1, <2>2, Zenon DEF U
  <2>4. QED
    BY <1>3, <2>3, Zenon
<1>10. QED
  BY <1>6, <1>7, <1>8, <1>9, Zenon DEF LNext

LEMMA NextJunkInv == JunkInv /\ LInv /\ ListInv /\ [LNext]_vars => JunkInv'
<1> SUFFICES ASSUME JunkInv, LInv, ListInv, [LNext]_vars PROVE JunkInv'
  OBVIOUS
<1>1. ParserInv /\ text \in Nat /\ text # 0 /\ unit \in Nat /\ unit # 0
  BY DEF LInv, ParserInv
<1>2. CASE UNCHANGED vars
  <2>1. UNCHANGED <<program, stage, text, unit, fault>>
    BY <1>2, Zenon DEF vars, frontVars
  <2>2. QED
    BY <2>1 DEF JunkInv, Texts
<1>3. CASE LNext /\ fault = "" /\ fault' = ""
  BY <1>1, <1>3, NextUnits, Zenon
<1>4. CASE Junk /\ fault' # ""
  <2>1. /\ fault' \in {"", "pool"} /\ (fault' = "pool" => ~(unit = 1 /\ Texts[text] = <<>>))
        /\ (AtUnit("junk") \/ (At("units") /\ Texts[text] = <<>>))
        /\ stage' = "open" /\ text' = text + 1 /\ UNCHANGED unit /\ UNCHANGED program
    <3>1. /\ LET first == unit = 1
                 valued == Texts[text] # <<>> /\ Unit.valued
             IN  fault' \in IF first /\ ~ valued THEN {""}
                       ELSE IF poolSet THEN {"", "pool"} ELSE {"pool"}
          /\ (AtUnit("junk") \/ (At("units") /\ Texts[text] = <<>>))
          /\ SyntaxError /\ UNCHANGED unit /\ KeepBackground
      BY <1>4, Zenon DEF Junk
    <3>2. stage' = "open" /\ text' = text + 1
      BY <3>1, Zenon DEF SyntaxError, Report
    <3>3. UNCHANGED program
      BY <3>1, Zenon DEF KeepBackground
    <3>4. fault' \in {"", "pool"}
      BY <3>1, Zenon
    <3>5. "pool" # ""
      BY Zenon
    <3>6. fault' = "pool" => ~(unit = 1 /\ Texts[text] = <<>>)
      BY <3>1, <3>5, Zenon
    <3>7. QED
      BY <3>1, <3>2, <3>3, <3>4, <3>6, Zenon
  <2>2. fault' = "pool"
    BY <1>4, <2>1, Zenon
  <2>3. AtUnit("junk")
    <3>1. At("units") /\ Texts[text] = <<>> => unit = 1
      BY Zenon DEF JunkInv, At
    <3>2. QED
      BY <2>1, <2>2, <3>1, Zenon
  <2>4. unit <= Len(Texts[text]) /\ Texts[text][unit].kind = "junk"
    BY <2>3, Zenon DEF AtUnit, Unit
  <2>5. Texts[text] # <<>>
    BY <1>1, <2>4, SomeUnit, Zenon
  <2>6. text' - 1 = text
    <3>1. text' = text + 1
      BY <2>1, Zenon
    <3>2. QED
      BY <1>1, <3>1, BackOne, Zenon
  <2>7. Texts'[text' - 1] # <<>> /\ Texts'[text' - 1][unit'].kind = "junk"
    BY <2>1, <2>4, <2>5, <2>6, Zenon DEF Texts
  <2>8. "open" \notin {"reduce", "walk", "run"} /\ "open" # "units"
    BY Zenon
  <2>9. QED
    BY <2>1, <2>7, <2>8, Zenon DEF JunkInv
<1>5. CASE Run /\ fault' # ""
  <2>1. At("run") /\ RunInstruction /\ UNCHANGED <<program, stage, text, unit>>
    BY <1>5, Zenon DEF Run, frontVars
  <2>2. fault' \in {fault, "position", "value", "table", "iterator"} /\ fault = ""
    BY <2>1, RunFaults, Zenon DEF At
  <2>3. "pool" \notin {"position", "value", "table", "iterator"}
    BY Zenon
  <2>4. fault' # "pool"
    BY <1>5, <2>2, <2>3, Zenon
  <2>5. QED
    BY <2>1, <2>4, Zenon DEF JunkInv, Texts
<1>6. CASE LNext /\ fault = "" /\ fault' # "" /\ ~Junk /\ ~Run
  <2>1. ~UNCHANGED fault
    BY <1>6, Zenon
  <2>2. ~(OpenText \/ OpenFails \/ Exit \/ TextEnds \/ Comment \/ BeginQuery \/ Reduce)
    BY <2>1, Zenon DEF OpenText, OpenFails, Exit, TextEnds, Comment, BeginQuery, Reduce
  <2>3. ~(QueryGoesWrong \/ BeginWalk \/ BeginRun \/ QueryEnds)
    BY <2>1, Zenon DEF QueryGoesWrong, BeginWalk, BeginRun, QueryEnds
  <2>4. ~Walk
    <3>1. Walk => stage = "walk" /\ (Visit \/ Descend)
      BY Zenon DEF Walk, At
    <3>2. stage = "walk" /\ Visit => fault' = fault
      BY VisitList, Zenon
    <3>3. Descend => fault' = fault
      BY Zenon DEF Descend
    <3>4. QED
      BY <2>1, <3>1, <3>2, <3>3, Zenon
  <2>5. QED
    BY <1>6, <2>2, <2>3, <2>4, Zenon DEF LNext
<1>7. QED
  BY <1>2, <1>3, <1>4, <1>5, <1>6, FaultStops, Zenon

-----------------------------------------------------------------------------
LEMMA QueryInvariant == LSpec => [](LInv /\ ListInv /\ QueryInv /\ CauseInv /\ JunkInv)
<1>1. LInit => QueryInv /\ CauseInv
  <2>1. LInit => stage = "open" /\ fault = ""
    BY Zenon DEF LInit
  <2>2. "open" # "run"
    BY Zenon
  <2>3. QED
    BY <2>1, <2>2, Zenon DEF QueryInv, CauseInv
<1>2. LSpec => []LInv
  BY LInvariant
<1>3. LSpec => [](PoolInv /\ RunInv)
  BY InitPools, NextPools, PTL DEF LSpec
<1>4. LSpec => []ListInv
  BY <1>2, InitListInv, NextListInv, PTL DEF LSpec
<1>5. LSpec => []QueryInv
  BY <1>1, <1>2, <1>3, <1>4, NextQueryInv, PTL DEF LSpec
<1>6. LSpec => []CauseInv
  BY <1>1, <1>2, <1>3, <1>4, <1>5, NextCauseInv, PTL DEF LSpec
<1>7. LSpec => []JunkInv
  BY <1>2, <1>4, InitJunkInv, NextJunkInv, PTL DEF LSpec
<1>8. QED
  BY <1>2, <1>4, <1>5, <1>6, <1>7, PTL

\* Nothing crashes but for a cause in the query: no list is popped when it is
\* empty and no from of processor.c looks for its values outside the stack; the
\* table of properties is only destroyed, a value only NULL and an iterator only
\* absent when the tree is one of those that FaultNeeds names; and the parser
\* uses a dead pool only for a token that belongs to no query.
THEOREM FaultsNeedCauses == LSpec => []FaultNeeds
<1>1. CauseInv /\ JunkInv => FaultNeeds
  BY Zenon DEF CauseInv, Causes, JunkInv, FaultNeeds
<1>2. QED
  BY <1>1, QueryInvariant, PTL

\* A plain query, one from over a string and a select of hashes of its variable,
\* has had calculated, when proc_run has come to its end, the hash it names
\* first of the string it names, by the builtin of its type, and nothing else.
THEOREM PlainQueriesAreCalculated == LSpec => []PlainIsCalculated
<1>1. QueryInv => PlainIsCalculated
  <2> SUFFICES ASSUME QueryInv, stage = "run", Ran, Plain(tree) PROVE calcs \in Meaning(tree)
    BY Zenon DEF PlainIsCalculated
  <2>1. fault = "" /\ scan = -1 /\ ip > Len(list)
    BY Zenon DEF Ran
  <2>2. PlainOK
    BY <2>1, Zenon DEF QueryInv
  <2>3. QED
    BY <2>1, <2>2, Zenon DEF PlainOK, CalcsOK
<1>2. QED
  BY <1>1, QueryInvariant, PTL

=============================================================================
