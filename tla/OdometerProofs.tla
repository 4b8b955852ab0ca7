--------------------------- MODULE OdometerProofs ---------------------------
(***************************************************************************)
(* Proofs about Dictionary and Odometer, for every text of --dict, all     *)
(* templates and expansions, lengths and numbers of threads: the           *)
(* expansions fit their memory, the dictionary has the characters that the *)
(* text stands for, the loops write every word once and in order, and the  *)
(* turns of the threads follow the words.                                  *)
(***************************************************************************)
EXTENDS Odometer, WellFoundedInduction, SequenceTheorems, TLAPS

-----------------------------------------------------------------------------
(* The counting loop                                                        *)

NoRounds == [s \in Seq(Chars) |-> [c \in 1 .. 3 |-> 0]]

NextRound(n, counts) ==
  [s \in Seq(Chars) |-> [c \in 1 .. 3 |->
     IF ~Occurs(s, Templates[c]) THEN 0 ELSE 1 + counts[Behind(s, Templates[c])][c]]]

Counting == INSTANCE Iteration WITH Base <- NoRounds, Step <- NextRound

\* The rounds satisfy their recursion.
LEMMA RoundSteps ==
  \A n \in Nat : Rounds[n] = IF n = 0 THEN NoRounds ELSE NextRound(n, Rounds[n - 1])
<1> DEFINE Body(f) ==
             [n \in Nat |-> [s \in Seq(Chars) |-> [c \in 1 .. 3 |->
                IF n = 0 \/ ~Occurs(s, Templates[c])
                  THEN 0
                  ELSE 1 + f[n - 1][Behind(s, Templates[c])][c]]]]
           Steps(f) == [n \in Nat |-> IF n = 0 THEN NoRounds ELSE NextRound(n, f[n - 1])]
<1>1. ASSUME NEW f PROVE Body(f) = Steps(f)
  <2>1. ASSUME NEW n \in Nat PROVE Body(f)[n] = Steps(f)[n]
    <3>1. CASE n = 0
      BY <3>1 DEF NoRounds
    <3>2. CASE n # 0
      BY <3>2 DEF NextRound
    <3>3. QED
      BY <3>1, <3>2
  <2>2. QED
    BY <2>1
<1>2. \E f : f = Steps(f)
  BY Counting!IterationExists DEF Counting!Iterates
<1>3. Rounds = CHOOSE f : f = Body(f)
  BY DEF Rounds
<1> HIDE DEF Body
<1>4. Rounds = Body(Rounds)
  BY <1>1, <1>2, <1>3
<1>5. Rounds = Steps(Rounds)
  BY <1>1, <1>4
<1>6. QED
  BY <1>5

LEMMA TemplateType ==
  ASSUME NEW c \in 1 .. 3
  PROVE  /\ Len(Templates[c]) \in Nat \ {0} /\ Len(Expansions[c]) \in Nat
         /\ Expansions[c] \in Seq(Chars)
BY DictionaryAssumption

\* strstr finds the first occurrence.
LEMMA FirstFound ==
  ASSUME NEW s \in Seq(Chars), NEW c \in 1 .. 3, Occurs(s, Templates[c])
  PROVE  /\ First(s, Templates[c]) \in 1 .. Len(s)
         /\ First(s, Templates[c]) + Len(Templates[c]) - 1 <= Len(s)
<1> DEFINE t == Templates[c]
           T == {k \in 1 .. Len(s) : OccursAt(s, t, k)}
<1>1. T \subseteq Nat /\ T # {}
  BY DEF Occurs
<1>2. PICK k \in T : \A j \in T : k <= j
  BY <1>1, Counting!Least
<1>3. k \in 1 .. Len(s) /\ OccursAt(s, t, k) /\ \A j \in 1 .. k - 1 : ~OccursAt(s, t, j)
  BY <1>2
<1> HIDE DEF t
<1>4. First(s, t) \in 1 .. Len(s) /\ OccursAt(s, t, First(s, t))
  BY <1>3 DEF First
<1>5. QED
  BY <1>4 DEF OccursAt, t

\* What is behind it is shorter.
LEMMA BehindType ==
  ASSUME NEW s \in Seq(Chars), NEW c \in 1 .. 3, Occurs(s, Templates[c])
  PROVE  /\ Behind(s, Templates[c]) \in Seq(Chars)
         /\ Len(Behind(s, Templates[c])) =
              Len(s) - (First(s, Templates[c]) - 1) - Len(Templates[c])
<1> DEFINE k == First(s, Templates[c])
           n == Len(Templates[c])
<1>1. k \in 1 .. Len(s) /\ k + n - 1 <= Len(s) /\ n \in Nat \ {0} /\ Len(s) \in Nat
  BY FirstFound, TemplateType
<1> HIDE DEF k, n
<1>2. /\ SubSeq(s, k + n, Len(s)) \in Seq(Chars)
      /\ Len(SubSeq(s, k + n, Len(s))) = Len(s) - (k - 1) - n
  <2>1. CASE k + n <= Len(s)
    BY <1>1, <2>1, SubSeqProperties
  <2>2. CASE k + n = Len(s) + 1
    BY <1>1, <2>2, SubSeqProperties
  <2>3. QED
    BY <1>1, <2>1, <2>2
<1>3. QED
  BY <1>2 DEF Behind, From, k, n

LEMMA RoundsType ==
  \A n \in Nat : \A s \in Seq(Chars) : \A c \in 1 .. 3 :
    /\ Rounds[n][s][c] =
         IF n = 0 \/ ~Occurs(s, Templates[c])
           THEN 0
           ELSE 1 + Rounds[n - 1][Behind(s, Templates[c])][c]
    /\ Rounds[n][s][c] \in Nat
<1>1. ASSUME NEW n \in Nat, NEW s \in Seq(Chars), NEW c \in 1 .. 3
      PROVE  Rounds[n][s][c] =
               IF n = 0 \/ ~Occurs(s, Templates[c])
                 THEN 0
                 ELSE 1 + Rounds[n - 1][Behind(s, Templates[c])][c]
  <2>1. CASE n = 0
    BY <2>1, RoundSteps DEF NoRounds
  <2>2. CASE n # 0
    <3>1. Rounds[n] = NextRound(n, Rounds[n - 1])
      BY <2>2, RoundSteps
    <3>2. QED
      BY <2>2, <3>1 DEF NextRound
  <2>3. QED
    BY <2>1, <2>2
<1> DEFINE T == {n \in Nat : ~\A s \in Seq(Chars) : \A c \in 1 .. 3 : Rounds[n][s][c] \in Nat}
<1>2. 0 \notin T
  BY <1>1
<1>3. \A n \in Nat : n \notin T => n + 1 \notin T
  <2> SUFFICES ASSUME NEW n \in Nat, n \notin T, NEW s \in Seq(Chars), NEW c \in 1 .. 3
               PROVE  Rounds[n + 1][s][c] \in Nat
    OBVIOUS
  <2>1. n + 1 \in Nat /\ (n + 1) - 1 = n
    OBVIOUS
  <2>2. CASE ~Occurs(s, Templates[c])
    BY <1>1, <2>1, <2>2
  <2>3. CASE Occurs(s, Templates[c])
    <3>1. Behind(s, Templates[c]) \in Seq(Chars)
      BY <2>3, BehindType
    <3>2. PICK x \in Nat : x = Rounds[n][Behind(s, Templates[c])][c]
      BY <3>1
    <3>3. Rounds[n + 1][s][c] = 1 + Rounds[(n + 1) - 1][Behind(s, Templates[c])][c]
      <4>1. n + 1 # 0
        OBVIOUS
      <4>2. QED
        BY <1>1, <2>1, <2>3, <4>1, Zenon
    <3>4. Rounds[n + 1][s][c] = 1 + x
      BY <2>1, <3>2, <3>3
    <3>5. QED
      BY <3>4
  <2>4. QED
    BY <2>2, <2>3
<1>4. T = {}
  BY <1>2, <1>3, Counting!NoLeastException
<1>5. QED
  BY <1>1, <1>4

\* A text has no more occurrences than characters, so that more rounds count no
\* more.
LEMMA RoundsEnough ==
  \A n \in Nat : \A s \in Seq(Chars) : Len(s) <= n => \A c \in 1 .. 3 :
    /\ Rounds[n + 1][s][c] = Rounds[n][s][c]
    /\ Rounds[n][s][c] * Len(Templates[c]) <= Len(s)
<1> DEFINE Q(n, s, c) == /\ Rounds[n + 1][s][c] = Rounds[n][s][c]
                         /\ Rounds[n][s][c] * Len(Templates[c]) <= Len(s)
           T == {n \in Nat : ~\A s \in Seq(Chars) : Len(s) <= n => \A c \in 1 .. 3 : Q(n, s, c)}
<1>1. ASSUME NEW n \in Nat, NEW s \in Seq(Chars), NEW c \in 1 .. 3, ~Occurs(s, Templates[c])
      PROVE  Q(n, s, c)
  <2>1. Rounds[n][s][c] = 0 /\ Rounds[n + 1][s][c] = 0
    BY <1>1, RoundsType
  <2>2. 0 * Len(Templates[c]) = 0 /\ 0 <= Len(s)
    BY TemplateType
  <2>3. QED
    BY <2>1, <2>2
<1>2. 0 \notin T
  <2> SUFFICES ASSUME NEW s \in Seq(Chars), Len(s) <= 0, NEW c \in 1 .. 3
               PROVE  ~Occurs(s, Templates[c])
    BY <1>1
  <2>1. 1 .. Len(s) = {}
    OBVIOUS
  <2>2. QED
    BY <2>1 DEF Occurs
<1>3. \A n \in Nat : n \notin T => n + 1 \notin T
  <2> SUFFICES ASSUME NEW n \in Nat, n \notin T,
                      NEW s \in Seq(Chars), Len(s) <= n + 1, NEW c \in 1 .. 3
               PROVE  Q(n + 1, s, c)
    OBVIOUS
  <2>1. CASE ~Occurs(s, Templates[c])
    <3>1. n + 1 \in Nat
      OBVIOUS
    <3> HIDE DEF Q
    <3>2. QED
      BY <1>1, <2>1, <3>1
  <2>2. CASE Occurs(s, Templates[c])
    <3> DEFINE u == Behind(s, Templates[c])
               l == Len(Templates[c])
               x == Rounds[n][u][c]
    <3>1. u \in Seq(Chars) /\ Len(u) = Len(s) - (First(s, Templates[c]) - 1) - l
      BY <2>2, BehindType
    <3>2. First(s, Templates[c]) \in 1 .. Len(s) /\ l \in Nat \ {0} /\ Len(s) \in Nat
      BY <2>2, FirstFound, TemplateType
    <3>3. Len(u) <= n /\ Len(u) + l <= Len(s) /\ Len(u) \in Nat
      BY <3>1, <3>2
    <3>4. Rounds[n + 1][u][c] = x /\ x * l <= Len(u) /\ x \in Nat
      BY <3>1, <3>3, RoundsType
    <3>5. Rounds[n + 1][s][c] = 1 + x
      BY <2>2, RoundsType
    <3>6. Rounds[(n + 1) + 1][s][c] = 1 + Rounds[n + 1][u][c]
      BY <2>2, RoundsType
    <3> HIDE DEF u, l, x
    <3>7. (1 + x) * l = l + (x * l) /\ x * l \in Nat
      BY <3>2, <3>4, SMT
    <3>8. (1 + x) * l <= Len(s)
      BY <3>2, <3>3, <3>4, <3>7
    <3>9. QED
      BY <3>4, <3>5, <3>6, <3>8 DEF l
  <2>3. QED
    BY <2>1, <2>2
<1>4. T = {}
  BY <1>2, <1>3, Counting!NoLeastException
<1>5. QED
  BY <1>4

LEMMA RoundsAgree ==
  ASSUME NEW s \in Seq(Chars), NEW c \in 1 .. 3
  PROVE  \A n \in Nat : Len(s) <= n => Rounds[n][s][c] = Count(s, c)
<1> DEFINE T == {d \in Nat : Rounds[Len(s) + d][s][c] # Count(s, c)}
<1>1. 0 \notin T
  <2>1. Len(s) + 0 = Len(s)
    OBVIOUS
  <2>2. QED
    BY <2>1 DEF Count
<1>2. \A d \in Nat : d \notin T => d + 1 \notin T
  <2> SUFFICES ASSUME NEW d \in Nat, Rounds[Len(s) + d][s][c] = Count(s, c)
               PROVE  Rounds[Len(s) + (d + 1)][s][c] = Count(s, c)
    OBVIOUS
  <2>1. Len(s) + d \in Nat /\ Len(s) <= Len(s) + d /\ Len(s) + (d + 1) = (Len(s) + d) + 1
    OBVIOUS
  <2>2. QED
    BY <2>1, RoundsEnough
<1>3. T = {}
  BY <1>1, <1>2, Counting!NoLeastException
<1>4. ASSUME NEW n \in Nat, Len(s) <= n
      PROVE  Rounds[n][s][c] = Count(s, c)
  <2>1. n - Len(s) \in Nat /\ Len(s) + (n - Len(s)) = n
    BY <1>4
  <2>2. QED
    BY <1>3, <2>1
<1>5. QED
  BY <1>4

\* The loop counts the occurrences one by one.
LEMMA Counts ==
  ASSUME NEW s \in Seq(Chars), NEW c \in 1 .. 3
  PROVE  /\ Count(s, c) \in Nat
         /\ Count(s, c) * Len(Templates[c]) <= Len(s)
         /\ Occurs(s, Templates[c]) => Count(s, c) = 1 + Count(Behind(s, Templates[c]), c)
         /\ ~Occurs(s, Templates[c]) => Count(s, c) = 0
<1>1. Len(s) \in Nat
  OBVIOUS
<1>2. Count(s, c) \in Nat /\ Count(s, c) * Len(Templates[c]) <= Len(s)
  <2>1. Rounds[Len(s)][s][c] \in Nat
    BY <1>1, RoundsType
  <2>2. Rounds[Len(s)][s][c] * Len(Templates[c]) <= Len(s)
    BY <1>1, RoundsEnough
  <2>3. QED
    BY <2>1, <2>2 DEF Count
<1>3. ASSUME Occurs(s, Templates[c])
      PROVE  Count(s, c) = 1 + Count(Behind(s, Templates[c]), c)
  <2> DEFINE u == Behind(s, Templates[c])
  <2>1. u \in Seq(Chars) /\ Len(u) = Len(s) - (First(s, Templates[c]) - 1) - Len(Templates[c])
    BY <1>3, BehindType
  <2>2. First(s, Templates[c]) \in 1 .. Len(s) /\ Len(Templates[c]) \in Nat \ {0}
    BY <1>3, FirstFound, TemplateType
  <2>3. Len(u) <= Len(s) - 1 /\ Len(s) - 1 \in Nat /\ Len(s) # 0
    BY <1>1, <2>1, <2>2
  <2>4. Rounds[Len(s) - 1][u][c] = Count(u, c)
    BY <2>1, <2>3, RoundsAgree
  <2>5. Rounds[Len(s)][s][c] = 1 + Rounds[Len(s) - 1][u][c]
    BY <1>1, <1>3, <2>3, RoundsType
  <2>6. QED
    BY <2>4, <2>5 DEF Count
<1>4. ~Occurs(s, Templates[c]) => Count(s, c) = 0
  BY <1>1, RoundsType DEF Count
<1>5. QED
  BY <1>2, <1>3, <1>4

-----------------------------------------------------------------------------
(* The dictionary                                                           *)

\* What a text will take when the occurrences in it are replaced.
Room(s, c) == Len(s) + (Len(Expansions[c]) - Len(Templates[c])) * Count(s, c)

\* The expansion that is in progress fills what was allocated; no character is
\* kept twice.
DictInv ==
  /\ DictTypeOK
  /\ stage = "replace" => class \in 1 .. 3 /\ allocated = Len(tmp) + Room(orig, class)
  /\ stage \in {"class", "replace"} => result = <<>>
  /\ IsInjective(result)

LEMMA RoomType ==
  ASSUME NEW s \in Seq(Chars), NEW c \in 1 .. 3
  PROVE  Room(s, c) \in Nat
<1> DEFINE e == Len(Expansions[c])
           l == Len(Templates[c])
           n == Count(s, c)
<1>1. e \in Nat /\ l \in Nat /\ n \in Nat /\ n * l <= Len(s) /\ Len(s) \in Nat
  <2>1. e \in Nat /\ l \in Nat
    BY TemplateType
  <2>2. n \in Nat /\ n * l <= Len(s)
    BY Counts
  <2>3. QED
    BY <2>1, <2>2
<1> HIDE DEF e, l, n
<1>2. (e - l) * n = (e * n) - (n * l) /\ e * n \in Nat /\ n * l \in Nat
  BY <1>1, SMT
<1>3. Len(s) + (e - l) * n \in Nat
  BY <1>1, <1>2
<1>4. QED
  BY <1>3 DEF Room, e, l, n

LEMMA RoomBehind ==
  ASSUME NEW s \in Seq(Chars), NEW c \in 1 .. 3
  PROVE  /\ Occurs(s, Templates[c]) =>
              Room(s, c) = (First(s, Templates[c]) - 1) + Len(Expansions[c])
                              + Room(Behind(s, Templates[c]), c)
         /\ ~Occurs(s, Templates[c]) => Room(s, c) = Len(s)
<1> DEFINE e == Len(Expansions[c])
           l == Len(Templates[c])
           n == Count(s, c)
           u == Behind(s, Templates[c])
           m == Count(u, c)
           k == First(s, Templates[c])
<1>1. e \in Nat /\ l \in Nat /\ n \in Nat /\ Len(s) \in Nat
  <2>1. e \in Nat /\ l \in Nat
    BY TemplateType
  <2>2. n \in Nat
    BY Counts
  <2>3. QED
    BY <2>1, <2>2
<1>2. CASE Occurs(s, Templates[c])
  <2>1. u \in Seq(Chars) /\ Len(u) = Len(s) - (k - 1) - l /\ k \in 1 .. Len(s)
    BY <1>2, BehindType, FirstFound
  <2>2. n = 1 + m /\ m \in Nat /\ Len(u) \in Nat
    <3>1. n = 1 + m
      BY <1>2, Counts
    <3>2. m \in Nat
      BY <2>1, Counts
    <3>3. QED
      BY <2>1, <3>1, <3>2
  <2> HIDE DEF e, l, n, u, m, k
  <2>3. (e - l) * (1 + m) = (e - l) + (e - l) * m /\ (e - l) * m \in Int
    BY <1>1, <2>2, SMT
  <2>4. Len(s) + (e - l) * n = (k - 1) + e + (Len(u) + (e - l) * m)
    BY <1>1, <2>1, <2>2, <2>3
  <2>5. QED
    BY <1>2, <2>4 DEF Room, e, l, n, u, m, k
<1>3. CASE ~Occurs(s, Templates[c])
  <2>1. n = 0
    BY <1>3, Counts
  <2> HIDE DEF e, l, n
  <2>2. Len(s) + (e - l) * n = Len(s)
    BY <1>1, <2>1
  <2>3. QED
    BY <1>3, <2>2 DEF Room, e, l, n
<1>4. QED
  BY <1>2, <1>3

LEMMA DictInitInv == DictInit => DictInv
<1> SUFFICES ASSUME DictInit PROVE DictInv
  OBVIOUS
<1>1. dict \in Seq(Chars) /\ <<>> \in Seq(Chars)
  BY DictionaryAssumption DEF DictInit
<1>2. DictTypeOK
  BY <1>1 DEF DictInit, DictTypeOK
<1>3. IsInjective(result)
  BY DEF DictInit, IsInjective
<1>4. QED
  BY <1>2, <1>3 DEF DictInit, DictInv

LEMMA SequencesType ==
  ASSUME DictTypeOK
  PROVE  text \in Seq(Chars) /\ orig \in Seq(Chars) /\ tmp \in Seq(Chars) /\ result \in Seq(Chars)
BY DEF DictTypeOK

\* A character that is appended is not yet there.
LEMMA UniqueInjective ==
  ASSUME NEW r \in Seq(Chars), NEW c \in Chars, IsInjective(r), c \notin Range(r)
  PROVE  IsInjective(Append(r, c))
<1> SUFFICES ASSUME NEW a \in 1 .. Len(r) + 1, NEW b \in 1 .. Len(r) + 1,
                    Append(r, c)[a] = Append(r, c)[b]
             PROVE  a = b
  BY AppendProperties DEF IsInjective
<1>1. \A z \in 1 .. Len(r) : Append(r, c)[z] = r[z] /\ r[z] # c
  BY AppendProperties DEF Range
<1>2. Append(r, c)[Len(r) + 1] = c
  BY AppendProperties
<1>3. Len(r) \in Nat /\ \A z \in 1 .. Len(r) + 1 : z \in 1 .. Len(r) \/ z = Len(r) + 1
  OBVIOUS
<1>4. CASE a \in 1 .. Len(r) /\ b \in 1 .. Len(r)
  BY <1>1, <1>4 DEF IsInjective
<1>5. QED
  BY <1>1, <1>2, <1>3, <1>4

\* What a step of prbf_str_replace writes fits.
LEMMA ReplaceNextStep ==
  ASSUME DictInv, ReplaceNext
  PROVE  DictInv' /\ Len(tmp') <= allocated
<1>1. /\ DictTypeOK /\ stage = "replace" /\ class \in 1 .. 3 /\ result = <<>>
      /\ IsInjective(result) /\ allocated = Len(tmp) + Room(orig, class)
      /\ Occurs(orig, Templates[class])
      /\ UNCHANGED <<dict, stage, class, text, allocated, result>>
  BY DEF DictInv, ReplaceNext
<1> DEFINE k == First(orig, Templates[class])
           b == SubSeq(orig, 1, k - 1)
           e == Expansions[class]
<1>2. tmp' = tmp \o b \o e /\ orig' = Behind(orig, Templates[class])
  BY DEF ReplaceNext
<1>3. orig \in Seq(Chars) /\ tmp \in Seq(Chars) /\ e \in Seq(Chars) /\ orig' \in Seq(Chars)
  BY <1>1, <1>2, SequencesType, TemplateType, BehindType
<1>4. b \in Seq(Chars) /\ Len(b) = k - 1 /\ k - 1 \in Nat
  <2>1. k \in 1 .. Len(orig) /\ Len(orig) \in Nat
    BY <1>1, <1>3, FirstFound
  <2>2. QED
    BY <1>3, <2>1, SubSeqProperties
<1> HIDE DEF b, e
<1>5. tmp' \in Seq(Chars) /\ Len(tmp') = Len(tmp) + (k - 1) + Len(e)
  <2>1. tmp \o b \in Seq(Chars) /\ Len(tmp \o b) = Len(tmp) + (k - 1)
    BY <1>3, <1>4, ConcatProperties
  <2>2. (tmp \o b) \o e \in Seq(Chars) /\ Len((tmp \o b) \o e) = Len(tmp \o b) + Len(e)
    BY <1>3, <2>1, ConcatProperties
  <2>3. QED
    BY <1>2, <2>1, <2>2
<1>6. Room(orig, class) = (k - 1) + Len(e) + Room(orig', class)
  BY <1>1, <1>2, <1>3, RoomBehind DEF e
<1>7. Room(orig', class) \in Nat
  BY <1>1, <1>3, RoomType
<1> HIDE DEF k
<1>8. allocated = Len(tmp') + Room(orig', class) /\ Len(tmp') <= allocated
  BY <1>1, <1>3, <1>4, <1>5, <1>6, <1>7
<1>9. DictTypeOK'
  BY <1>1, <1>3, <1>5 DEF DictTypeOK
<1>10. Room(orig, class)' = Room(orig', class)
  BY <1>1 DEF Room
<1>11. QED
  BY <1>1, <1>8, <1>9, <1>10 DEF DictInv

LEMMA ReplaceRestStep ==
  ASSUME DictInv, ReplaceRest
  PROVE  DictInv' /\ Len(tmp') <= allocated /\ Len(text') = allocated
<1>1. /\ DictTypeOK /\ class \in 1 .. 3 /\ result = <<>>
      /\ IsInjective(result) /\ allocated = Len(tmp) + Room(orig, class)
      /\ ~Occurs(orig, Templates[class])
      /\ tmp' = tmp \o orig /\ text' = tmp' /\ stage' = "class" /\ class' = class + 1
      /\ UNCHANGED <<dict, orig, allocated, result>>
  BY DEF DictInv, ReplaceRest
<1>2. orig \in Seq(Chars) /\ tmp \in Seq(Chars)
  BY <1>1, SequencesType
<1>3. tmp' \in Seq(Chars) /\ Len(tmp') = Len(tmp) + Len(orig) /\ Len(tmp') \in Nat
  BY <1>1, <1>2, ConcatProperties
<1>4. Room(orig, class) = Len(orig)
  BY <1>1, <1>2, RoomBehind
<1>5. Len(tmp') <= allocated /\ Len(text') = allocated
  BY <1>1, <1>3, <1>4
<1>6. DictTypeOK'
  BY <1>1, <1>3 DEF DictTypeOK
<1>7. QED
  BY <1>1, <1>5, <1>6 DEF DictInv

\* The other steps of the preparation.
LEMMA OtherDictSteps ==
  ASSUME DictInv, UseAscii \/ SkipClass \/ StartReplace \/ StartUnique \/ Unique \/ Prepared
  PROVE  DictInv' /\ stage # "replace"
<1>1. DictTypeOK /\ IsInjective(result)
  BY DEF DictInv
<1>2. text \in Seq(Chars) /\ orig \in Seq(Chars) /\ tmp \in Seq(Chars) /\ result \in Seq(Chars)
  BY <1>1, SequencesType
<1>3. CASE UseAscii
  <2>1. AsciiChars \in Seq(Chars) /\ IsInjective(AsciiChars)
    BY DictionaryAssumption
  <2>2. DictTypeOK'
    BY <1>1, <1>2, <1>3, <2>1 DEF UseAscii, DictTypeOK
  <2>3. QED
    BY <1>3, <2>1, <2>2 DEF UseAscii, DictInv
<1>4. CASE SkipClass
  <2>1. DictTypeOK'
    BY <1>1, <1>2, <1>4 DEF SkipClass, DictTypeOK
  <2>2. QED
    BY <1>4, <2>1 DEF SkipClass, DictInv
<1>5. CASE StartReplace
  <2>1. class \in 1 .. 3
    BY <1>1, <1>5 DEF StartReplace, DictTypeOK
  <2>2. /\ allocated' = Room(text, class) /\ orig' = text /\ tmp' = <<>> /\ stage' = "replace"
        /\ stage = "class" /\ UNCHANGED <<dict, class, text, result>>
    BY <1>5 DEF StartReplace, Room
  <2>3. Room(text, class) \in Nat
    BY <1>2, <2>1, RoomType
  <2>4. <<>> \in Seq(Chars) /\ Len(<<>>) = 0
    OBVIOUS
  <2>5. DictTypeOK'
    BY <1>1, <1>2, <2>2, <2>3, <2>4 DEF DictTypeOK
  <2>6. Room(orig, class)' = Room(text, class)
    BY <2>2 DEF Room
  <2>7. allocated' = Len(tmp') + Room(orig, class)'
    BY <2>2, <2>3, <2>4, <2>6
  <2>8. QED
    BY <1>1, <2>1, <2>2, <2>5, <2>7 DEF DictInv
<1>6. CASE StartUnique
  <2>1. DictTypeOK'
    BY <1>1, <1>2, <1>6 DEF StartUnique, DictTypeOK
  <2>2. QED
    BY <1>6, <2>1 DEF StartUnique, DictInv
<1>7. CASE Unique
  <2>1. Head(text) \in Chars /\ Tail(text) \in Seq(Chars)
    BY <1>2, <1>7, HeadTailProperties DEF Unique
  <2>2. result' \in Seq(Chars) /\ IsInjective(result')
    <3>1. CASE Head(text) \in Range(result)
      BY <1>1, <1>2, <1>7, <3>1 DEF Unique
    <3>2. CASE Head(text) \notin Range(result)
      BY <1>1, <1>2, <1>7, <2>1, <3>2, UniqueInjective, AppendProperties DEF Unique
    <3>3. QED
      BY <3>1, <3>2
  <2>3. DictTypeOK'
    BY <1>1, <1>2, <1>7, <2>1, <2>2 DEF Unique, DictTypeOK
  <2>4. QED
    BY <1>7, <2>2, <2>3 DEF Unique, DictInv
<1>8. CASE Prepared
  <2>1. DictTypeOK'
    BY <1>1, <1>2, <1>8 DEF Prepared, DictTypeOK
  <2>2. QED
    BY <1>8, <2>1 DEF Prepared, DictInv
<1>9. QED
  BY <1>3, <1>4, <1>5, <1>6, <1>7, <1>8

LEMMA DictUnchanged ==
  ASSUME DictInv, UNCHANGED dictVars
  PROVE  DictInv'
<1>1. Room(orig, class)' = Room(orig, class)
  BY DEF Room, dictVars
<1>2. QED
  BY <1>1 DEF DictInv, DictTypeOK, dictVars

LEMMA DictSteps ==
  ASSUME DictInv, DictStep \/ UNCHANGED dictVars
  PROVE  DictInv'
BY ReplaceNextStep, ReplaceRestStep, OtherDictSteps, DictUnchanged DEF DictStep

\* The text is only prepared until it is done.
LEMMA DictDone ==
  ASSUME DictStep
  PROVE  stage # "done" /\ dict' = dict
BY DEF DictStep, UseAscii, SkipClass, StartReplace, ReplaceNext, ReplaceRest, StartUnique, Unique, Prepared

-----------------------------------------------------------------------------
(* The numbers of the words                                                 *)

\* The recursions, each as a step from one value to the next.
NextLast(k, w) == DictLen * w + DictLen
Lasts == INSTANCE Iteration WITH Base <- 0, Step <- NextLast

\* The last word that begins with word w and has k more characters.
LastFrom[k \in Nat] ==
  [w \in Nat |-> IF k = 0 THEN w ELSE DictLen * LastFrom[k - 1][w] + DictLen]

NextLastFrom(k, f) == [w \in Nat |-> DictLen * f[w] + DictLen]
Extensions == INSTANCE Iteration WITH Base <- [w \in Nat |-> w], Step <- NextLastFrom

NoWord == [a \in Attempts |-> 0]
NextWordIn(k, f) == [a \in Attempts |-> DictLen * f[a] + IndexOfChar(a[k - 1]) + 1]
Readings == INSTANCE Iteration WITH Base <- NoWord, Step <- NextWordIn

LEMMA LastSteps ==
  \A k \in Nat : LastWord[k] = IF k = 0 THEN 0 ELSE DictLen * LastWord[k - 1] + DictLen
<1> DEFINE Steps(f) == [k \in Nat |-> IF k = 0 THEN 0 ELSE DictLen * f[k - 1] + DictLen]
<1>1. \E f : f = Steps(f)
  BY Lasts!IterationExists DEF Lasts!Iterates, NextLast
<1>2. LastWord = CHOOSE f : f = Steps(f)
  BY DEF LastWord
<1> HIDE DEF Steps
<1>3. LastWord = Steps(LastWord)
  BY <1>1, <1>2
<1>4. QED
  BY <1>3 DEF Steps

LEMMA LastFromSteps ==
  \A k \in Nat : \A w \in Nat :
    LastFrom[k][w] = IF k = 0 THEN w ELSE DictLen * LastFrom[k - 1][w] + DictLen
<1> DEFINE Body(f) == [k \in Nat |-> [w \in Nat |->
                         IF k = 0 THEN w ELSE DictLen * f[k - 1][w] + DictLen]]
           Steps(f) == [k \in Nat |-> IF k = 0 THEN [w \in Nat |-> w]
                                               ELSE NextLastFrom(k, f[k - 1])]
<1>1. ASSUME NEW f PROVE Body(f) = Steps(f)
  <2>1. ASSUME NEW k \in Nat PROVE Body(f)[k] = Steps(f)[k]
    <3>1. CASE k = 0
      BY <3>1
    <3>2. CASE k # 0
      BY <3>2 DEF NextLastFrom
    <3>3. QED
      BY <3>1, <3>2
  <2>2. QED
    BY <2>1
<1>2. \E f : f = Steps(f)
  BY Extensions!IterationExists DEF Extensions!Iterates
<1>3. LastFrom = CHOOSE f : f = Body(f)
  BY DEF LastFrom
<1> HIDE DEF Body
<1>4. LastFrom = Body(LastFrom)
  BY <1>1, <1>2, <1>3
<1>5. QED
  BY <1>4 DEF Body

LEMMA WordInSteps ==
  \A k \in Nat : \A a \in Attempts :
    WordIn[k][a] = IF k = 0 THEN 0 ELSE DictLen * WordIn[k - 1][a] + IndexOfChar(a[k - 1]) + 1
<1> DEFINE Body(f) ==
             [k \in Nat |-> [a \in Attempts |->
                IF k = 0 THEN 0 ELSE DictLen * f[k - 1][a] + IndexOfChar(a[k - 1]) + 1]]
           Steps(f) == [k \in Nat |-> IF k = 0 THEN NoWord ELSE NextWordIn(k, f[k - 1])]
<1>1. ASSUME NEW f PROVE Body(f) = Steps(f)
  <2>1. ASSUME NEW k \in Nat PROVE Body(f)[k] = Steps(f)[k]
    <3>1. CASE k = 0
      BY <3>1 DEF NoWord
    <3>2. CASE k # 0
      BY <3>2 DEF NextWordIn
    <3>3. QED
      BY <3>1, <3>2
  <2>2. QED
    BY <2>1
<1>2. \E f : f = Steps(f)
  BY Readings!IterationExists DEF Readings!Iterates
<1>3. WordIn = CHOOSE f : f = Body(f)
  BY DEF WordIn
<1> HIDE DEF Body
<1>4. WordIn = Body(WordIn)
  BY <1>1, <1>2, <1>3
<1>5. QED
  BY <1>4 DEF Body

\* The table of indexes finds the characters, and no NUL.
LEMMA Indexes ==
  ASSUME result \in Seq(Chars), IsInjective(result)
  PROVE  /\ DictLen \in Nat
         /\ \A i \in 0 .. DictLen - 1 : /\ DictChar(i) \in Range(result)
                                       /\ DictChar(i) # Nul
                                       /\ IndexOfChar(DictChar(i)) = i
         /\ IndexOfChar(Nul) = -1
         /\ \A c \in Range(result) : \E i \in 0 .. DictLen - 1 : c = DictChar(i)
<1>1. DictLen \in Nat /\ \A k \in 1 .. DictLen : result[k] \in Chars /\ result[k] # Nul
  BY OdometerAssumption DEF DictLen
<1>2. \A c \in Range(result) : \E i \in 0 .. DictLen - 1 : c = DictChar(i)
  <2> SUFFICES ASSUME NEW k \in 1 .. DictLen
               PROVE  \E i \in 0 .. DictLen - 1 : result[k] = DictChar(i)
    BY DEF Range, DictLen
  <2>1. k - 1 \in 0 .. DictLen - 1 /\ (k - 1) + 1 = k
    BY <1>1
  <2>2. QED
    BY <2>1 DEF DictChar
<1>3. IndexOfChar(Nul) = -1
  <2>1. {0} \cup {k \in 1 .. DictLen : result[k] = Nul} = {0}
    BY <1>1
  <2>2. Max({0}) = 0
    BY DEF Max
  <2>3. IndexOfChar(Nul) = Max({0}) - 1
    BY <2>1 DEF IndexOfChar
  <2>4. QED
    BY <2>2, <2>3
<1>4. ASSUME NEW i \in 0 .. DictLen - 1
      PROVE  /\ DictChar(i) \in Range(result) /\ DictChar(i) # Nul
             /\ IndexOfChar(DictChar(i)) = i
  <2>1. i + 1 \in 1 .. DictLen /\ i \in Nat
    BY <1>1
  <2>2. \A k \in 1 .. DictLen : result[k] = result[i + 1] => k = i + 1
    BY <2>1 DEF IsInjective, DictLen
  <2>3. {0} \cup {k \in 1 .. DictLen : result[k] = DictChar(i)} = {0, i + 1}
    BY <2>1, <2>2 DEF DictChar
  <2>4. Max({0, i + 1}) = i + 1
    <3>1. \A y \in {0, i + 1} : i + 1 >= y
      BY <2>1
    <3>2. \A x \in {0, i + 1} : (\A y \in {0, i + 1} : x >= y) => x = i + 1
      BY <2>1
    <3>3. QED
      BY <3>1, <3>2 DEF Max
  <2>5. QED
    BY <1>1, <2>1, <2>3, <2>4 DEF IndexOfChar, DictChar, Range, DictLen
<1>5. QED
  BY <1>1, <1>2, <1>3, <1>4

DictOK == result \in Seq(Chars) /\ IsInjective(result)

\* What a character counts for in the number of a word.
Digit(c) == IndexOfChar(c) + 1

LEMMA Digits ==
  ASSUME DictOK
  PROVE  /\ DictLen \in Nat
         /\ Digit(Nul) = 0
         /\ \A c \in Range(result) \cup {Nul} :
              Digit(c) \in 0 .. DictLen /\ (Digit(c) = 0 <=> c = Nul)
         /\ \A i \in 0 .. DictLen - 1 :
              /\ DictChar(i) \in Range(result) /\ DictChar(i) # Nul
              /\ Digit(DictChar(i)) = i + 1
<1>1. /\ DictLen \in Nat
      /\ \A i \in 0 .. DictLen - 1 : /\ DictChar(i) \in Range(result) /\ DictChar(i) # Nul
                                    /\ IndexOfChar(DictChar(i)) = i
      /\ IndexOfChar(Nul) = -1
      /\ \A c \in Range(result) : \E i \in 0 .. DictLen - 1 : c = DictChar(i)
  BY Indexes DEF DictOK
<1>2. Digit(Nul) = 0
  BY <1>1 DEF Digit
<1>3. ASSUME NEW i \in 0 .. DictLen - 1
      PROVE  /\ DictChar(i) \in Range(result) /\ DictChar(i) # Nul
             /\ Digit(DictChar(i)) = i + 1
  BY <1>1 DEF Digit
<1>4. ASSUME NEW c \in Range(result)
      PROVE  Digit(c) \in 0 .. DictLen /\ Digit(c) # 0 /\ c # Nul
  <2>1. PICK i \in 0 .. DictLen - 1 : c = DictChar(i)
    BY <1>1
  <2>2. QED
    BY <1>1, <1>3, <2>1
<1>5. QED
  BY <1>1, <1>2, <1>3, <1>4

\* The numbers of the last words, and those that begin with a given one.
LEMMA LastType ==
  ASSUME DictOK
  PROVE  /\ \A k \in Nat : LastWord[k] \in Nat
         /\ \A k \in Nat : LastWord[k] <= LastWord[k + 1]
<1>1. DictLen \in Nat
  BY Digits
<1> DEFINE T == {k \in Nat : LastWord[k] \notin Nat}
<1>2. 0 \notin T
  BY LastSteps
<1>3. \A k \in Nat : k \notin T => k + 1 \notin T
  <2> SUFFICES ASSUME NEW k \in Nat, LastWord[k] \in Nat
               PROVE  LastWord[k + 1] \in Nat
    OBVIOUS
  <2>1. LastWord[k + 1] = DictLen * LastWord[k] + DictLen
    BY LastSteps
  <2>2. DictLen * LastWord[k] \in Nat
    BY <1>1, SMT
  <2>3. QED
    BY <1>1, <2>1, <2>2
<1>4. T = {}
  BY <1>2, <1>3, Counting!NoLeastException
<1>5. \A k \in Nat : LastWord[k] \in Nat
  BY <1>4
<1> DEFINE U == {k \in Nat : ~(LastWord[k] <= LastWord[k + 1])}
<1>6. 0 \notin U
  <2>1. LastWord[0] = 0 /\ LastWord[0 + 1] \in Nat
    BY <1>5, LastSteps
  <2>2. QED
    BY <2>1
<1>7. \A k \in Nat : k \notin U => k + 1 \notin U
  <2> SUFFICES ASSUME NEW k \in Nat, LastWord[k] <= LastWord[k + 1]
               PROVE  LastWord[k + 1] <= LastWord[(k + 1) + 1]
    OBVIOUS
  <2>1. LastWord[k + 1] = DictLen * LastWord[k] + DictLen
    BY LastSteps
  <2>2. LastWord[(k + 1) + 1] = DictLen * LastWord[k + 1] + DictLen
    BY LastSteps
  <2>3. PICK x \in Nat, y \in Nat : x = LastWord[k] /\ y = LastWord[k + 1]
    BY <1>5
  <2>4. DictLen * x <= DictLen * y
    BY <1>1, <2>3, Counting!LargerProduct
  <2>5. DictLen * x \in Nat /\ DictLen * y \in Nat
    BY <1>1, SMT
  <2>6. QED
    BY <1>1, <2>1, <2>2, <2>3, <2>4, <2>5
<1>8. U = {}
  BY <1>6, <1>7, Counting!NoLeastException
<1>9. QED
  BY <1>5, <1>8

LEMMA FromType ==
  ASSUME DictOK
  PROVE  \A k \in Nat : \A w \in Nat : LastFrom[k][w] \in Nat
<1>1. DictLen \in Nat
  BY Digits
<1> DEFINE T == {k \in Nat : ~\A w \in Nat : LastFrom[k][w] \in Nat}
<1>2. 0 \notin T
  BY LastFromSteps
<1>3. \A k \in Nat : k \notin T => k + 1 \notin T
  <2> SUFFICES ASSUME NEW k \in Nat, k \notin T, NEW w \in Nat
               PROVE  LastFrom[k + 1][w] \in Nat
    OBVIOUS
  <2>1. LastFrom[k + 1][w] = DictLen * LastFrom[k][w] + DictLen
    BY LastFromSteps
  <2>2. LastFrom[k][w] \in Nat
    OBVIOUS
  <2>3. DictLen * LastFrom[k][w] \in Nat
    BY <1>1, <2>2, SMT
  <2>4. QED
    BY <1>1, <2>1, <2>3
<1>4. T = {}
  BY <1>2, <1>3, Counting!NoLeastException
<1>5. QED
  BY <1>4

\* The last word that begins with w begins with w and the last character.
LEMMA FromNext ==
  ASSUME DictOK
  PROVE  \A k \in Nat : \A w \in Nat : LastFrom[k][DictLen * w + DictLen] = LastFrom[k + 1][w]
<1>1. DictLen \in Nat
  BY Digits
<1>2. \A w \in Nat : DictLen * w + DictLen \in Nat
  <2>1. \A w \in Nat : DictLen * w \in Nat
    BY <1>1, SMT
  <2>2. QED
    BY <1>1, <2>1
<1> DEFINE T == {k \in Nat : ~\A w \in Nat :
                   LastFrom[k][DictLen * w + DictLen] = LastFrom[k + 1][w]}
<1>3. 0 \notin T
  <2> SUFFICES ASSUME NEW w \in Nat
               PROVE  LastFrom[0][DictLen * w + DictLen] = LastFrom[0 + 1][w]
    OBVIOUS
  <2>1. LastFrom[0][DictLen * w + DictLen] = DictLen * w + DictLen /\ LastFrom[0][w] = w
    BY <1>2, LastFromSteps
  <2>2. LastFrom[0 + 1][w] = DictLen * LastFrom[0][w] + DictLen
    BY LastFromSteps
  <2>3. QED
    BY <2>1, <2>2
<1>4. \A k \in Nat : k \notin T => k + 1 \notin T
  <2> SUFFICES ASSUME NEW k \in Nat, k \notin T, NEW w \in Nat
               PROVE  LastFrom[k + 1][DictLen * w + DictLen] = LastFrom[(k + 1) + 1][w]
    OBVIOUS
  <2>1. \A x \in Nat : LastFrom[k + 1][x] = DictLen * LastFrom[k][x] + DictLen
    BY LastFromSteps
  <2>2. LastFrom[(k + 1) + 1][w] = DictLen * LastFrom[k + 1][w] + DictLen
    BY LastFromSteps
  <2>3. LastFrom[k + 1][DictLen * w + DictLen] =
          DictLen * LastFrom[k][DictLen * w + DictLen] + DictLen
    BY <1>2, <2>1
  <2>4. LastFrom[k][DictLen * w + DictLen] = LastFrom[k + 1][w]
    OBVIOUS
  <2>5. QED
    BY <2>2, <2>3, <2>4
<1>5. T = {}
  BY <1>3, <1>4, Counting!NoLeastException
<1>6. QED
  BY <1>5

LEMMA FromZero ==
  ASSUME DictOK
  PROVE  \A k \in Nat : LastFrom[k][0] = LastWord[k]
<1> DEFINE T == {k \in Nat : LastFrom[k][0] # LastWord[k]}
<1>1. 0 \notin T
  BY LastFromSteps, LastSteps
<1>2. \A k \in Nat : k \notin T => k + 1 \notin T
  <2> SUFFICES ASSUME NEW k \in Nat, LastFrom[k][0] = LastWord[k]
               PROVE  LastFrom[k + 1][0] = LastWord[k + 1]
    OBVIOUS
  <2>1. LastFrom[k + 1][0] = DictLen * LastFrom[k][0] + DictLen
    BY LastFromSteps
  <2>2. LastWord[k + 1] = DictLen * LastWord[k] + DictLen
    BY LastSteps
  <2>3. QED
    BY <2>1, <2>2
<1>3. T = {}
  BY <1>1, <1>2, Counting!NoLeastException
<1>4. QED
  BY <1>3

\* With one character there is one word of each length.
LEMMA FromOne ==
  ASSUME DictOK, DictLen = 1
  PROVE  \A k \in Nat : \A w \in Nat : LastFrom[k][w + 1] = LastFrom[k][w] + 1
<1> DEFINE T == {k \in Nat : ~\A w \in Nat : LastFrom[k][w + 1] = LastFrom[k][w] + 1}
<1>1. 0 \notin T
  BY LastFromSteps
<1>2. \A k \in Nat : k \notin T => k + 1 \notin T
  <2> SUFFICES ASSUME NEW k \in Nat, k \notin T, NEW w \in Nat
               PROVE  LastFrom[k + 1][w + 1] = LastFrom[k + 1][w] + 1
    OBVIOUS
  <2>1. /\ LastFrom[k + 1][w + 1] = DictLen * LastFrom[k][w + 1] + DictLen
        /\ LastFrom[k + 1][w] = DictLen * LastFrom[k][w] + DictLen
    BY LastFromSteps
  <2>2. LastFrom[k][w + 1] = LastFrom[k][w] + 1 /\ LastFrom[k][w] \in Nat
    BY FromType
  <2>3. QED
    BY <2>1, <2>2
<1>3. T = {}
  BY <1>1, <1>2, Counting!NoLeastException
<1>4. QED
  BY <1>3

-----------------------------------------------------------------------------
(* The numbers of the words in the buffer                                   *)

\* A cell adds its digit.
LEMMA NextCell ==
  ASSUME DictOK, job \in Jobs, NEW a \in Attempts
  PROVE  /\ job.last \in Nat \ {0}
         /\ \A z \in 0 .. job.last - 1 : Digit(a[z]) \in 0 .. DictLen
         /\ \A k \in Nat : k < job.last => WordIn[k + 1][a] = DictLen * WordIn[k][a] + Digit(a[k])
         /\ WordIn[0][a] = 0
         /\ \A k \in 0 .. job.last : WordIn[k][a] \in Nat
<1>1. job.last \in Nat \ {0}
  BY OdometerAssumption
<1>2. DictLen \in Nat
  BY Digits
<1>3. \A z \in 0 .. job.last - 1 : Digit(a[z]) \in 0 .. DictLen
  BY Digits DEF Attempts
<1>4. ASSUME NEW k \in Nat, k < job.last
      PROVE  /\ WordIn[k + 1][a] = (DictLen * WordIn[k][a] + IndexOfChar(a[k])) + 1
             /\ IndexOfChar(a[k]) \in Int
  <2>1. WordIn[k + 1][a] = (DictLen * WordIn[k][a] + IndexOfChar(a[k])) + 1
    <3>1. (k + 1) - 1 = k /\ k + 1 # 0 /\ k + 1 \in Nat
      OBVIOUS
    <3>2. QED
      BY <3>1, WordInSteps
  <2>2. k \in 0 .. job.last - 1
    BY <1>1, <1>4
  <2>3. a[k] \in Range(result) \cup {Nul}
    BY <2>2 DEF Attempts
  <2>4. IndexOfChar(a[k]) \in Int
    <3>1. CASE a[k] = Nul
      BY <3>1, Indexes DEF DictOK
    <3>2. CASE a[k] \in Range(result)
      BY <3>2, Indexes DEF DictOK
    <3>3. QED
      BY <2>3, <3>1, <3>2
  <2>5. QED
    BY <2>1, <2>4
<1>5. WordIn[0][a] = 0
  BY WordInSteps
<1> DEFINE T == {k \in Nat : k <= job.last /\ WordIn[k][a] \notin Nat}
<1>6. 0 \notin T
  BY <1>5
<1>7. \A k \in Nat : k \notin T => k + 1 \notin T
  <2> SUFFICES ASSUME NEW k \in Nat, k + 1 <= job.last, WordIn[k][a] \in Nat
               PROVE  WordIn[k + 1][a] \in Nat
    BY <1>1
  <2>1. k < job.last /\ k \in 0 .. job.last - 1
    BY <1>1
  <2>2. PICK i \in Int : i = IndexOfChar(a[k]) /\ i + 1 \in Nat
    BY <1>3, <1>4, <2>1 DEF Digit
  <2>3. PICK w \in Nat : w = WordIn[k][a]
    OBVIOUS
  <2>4. WordIn[k + 1][a] = (DictLen * w + i) + 1
    BY <1>4, <2>1, <2>2, <2>3
  <2>5. DictLen * w \in Nat
    BY <1>2, SMT
  <2>6. QED
    BY <2>2, <2>4, <2>5
<1>8. T = {}
  BY <1>6, <1>7, Counting!NoLeastException
<1>9. \A k \in 0 .. job.last : WordIn[k][a] \in Nat
  BY <1>1, <1>8
<1>10. ASSUME NEW k \in Nat, k < job.last
       PROVE  WordIn[k + 1][a] = DictLen * WordIn[k][a] + Digit(a[k])
  <2>1. PICK i \in Int : i = IndexOfChar(a[k])
    BY <1>4, <1>10
  <2>2. PICK w \in Nat : w = WordIn[k][a]
    BY <1>1, <1>9, <1>10
  <2>3. WordIn[k + 1][a] = (DictLen * w + i) + 1
    BY <1>4, <1>10, <2>1, <2>2
  <2>4. DictLen * w \in Nat
    BY <1>2, SMT
  <2>5. (DictLen * w + i) + 1 = DictLen * w + (i + 1)
    BY <2>4
  <2>6. QED
    BY <2>1, <2>2, <2>3, <2>5 DEF Digit
<1>11. QED
  BY <1>1, <1>3, <1>5, <1>9, <1>10

\* Only the cells that are read count.
LEMMA WordAgrees ==
  ASSUME DictOK, job \in Jobs, NEW a \in Attempts, NEW b \in Attempts,
         NEW j \in 0 .. job.last, \A z \in 0 .. j - 1 : a[z] = b[z]
  PROVE  WordIn[j][a] = WordIn[j][b]
<1>1. job.last \in Nat
  BY NextCell
<1> DEFINE T == {k \in Nat : k <= j /\ WordIn[k][a] # WordIn[k][b]}
<1>2. 0 \notin T
  BY NextCell
<1>3. \A k \in Nat : k \notin T => k + 1 \notin T
  <2> SUFFICES ASSUME NEW k \in Nat, k + 1 <= j, WordIn[k][a] = WordIn[k][b]
               PROVE  WordIn[k + 1][a] = WordIn[k + 1][b]
    BY <1>1
  <2>1. k < job.last /\ k \in 0 .. j - 1
    BY <1>1
  <2>2. /\ WordIn[k + 1][a] = DictLen * WordIn[k][a] + Digit(a[k])
        /\ WordIn[k + 1][b] = DictLen * WordIn[k][b] + Digit(b[k])
    BY <2>1, NextCell
  <2>3. QED
    BY <2>1, <2>2
<1>4. T = {}
  BY <1>2, <1>3, Counting!NoLeastException
<1>5. QED
  BY <1>1, <1>4

\* Behind a beginning that has just grown by one, first characters only: the word
\* behind the last one that had the old beginning.
LEMMA FirstBehind ==
  ASSUME DictOK, job \in Jobs, NEW a \in Attempts,
         NEW n \in 0 .. job.last, NEW j \in 0 .. n, NEW p \in Nat,
         WordIn[j][a] = p + 1, \A z \in j .. n - 1 : Digit(a[z]) = 1
  PROVE  WordIn[n][a] = LastFrom[n - j][p] + 1
<1>1. job.last \in Nat /\ DictLen \in Nat
  BY NextCell, Digits
<1> DEFINE T == {d \in Nat : d <= n - j /\ WordIn[j + d][a] # LastFrom[d][p] + 1}
<1>2. 0 \notin T
  <2>1. j + 0 = j /\ LastFrom[0][p] = p
    BY LastFromSteps
  <2>2. QED
    BY <2>1
<1>3. \A d \in Nat : d \notin T => d + 1 \notin T
  <2>0. \A d \in Nat : d + 1 <= n - j => d <= n - j
    BY <1>1
  <2> SUFFICES ASSUME NEW d \in Nat, d + 1 <= n - j, WordIn[j + d][a] = LastFrom[d][p] + 1
               PROVE  WordIn[j + (d + 1)][a] = LastFrom[d + 1][p] + 1
    BY <2>0
  <2>1. j + d \in Nat /\ j + d < job.last /\ j + d \in j .. n - 1 /\ (j + d) + 1 = j + (d + 1)
    BY <1>1
  <2>2. WordIn[(j + d) + 1][a] = DictLen * WordIn[j + d][a] + Digit(a[j + d])
    BY <2>1, NextCell
  <2>3. PICK x \in Nat : x = LastFrom[d][p]
    BY FromType
  <2>4. LastFrom[d + 1][p] = DictLen * x + DictLen
    BY <2>3, LastFromSteps
  <2>5. DictLen * (x + 1) = DictLen * x + DictLen /\ DictLen * x \in Nat
    BY <1>1, SMT
  <2>6. Digit(a[j + d]) = 1
    BY <2>1
  <2>7. WordIn[(j + d) + 1][a] = (DictLen * x + DictLen) + 1
    BY <2>2, <2>3, <2>5, <2>6
  <2>8. QED
    BY <2>1, <2>4, <2>7
<1>4. T = {}
  BY <1>2, <1>3, Counting!NoLeastException
<1>5. n - j \in Nat /\ j + (n - j) = n
  BY <1>1
<1>6. n - j \notin T
  BY <1>4
<1>7. WordIn[j + (n - j)][a] = LastFrom[n - j][p] + 1
  BY <1>5, <1>6
<1>8. QED
  BY <1>5, <1>7

\* First characters only: the first word of its length.
LEMMA FirstOfLength ==
  ASSUME DictOK, job \in Jobs, NEW a \in Attempts, NEW n \in 0 .. job.last,
         \A z \in 0 .. n - 1 : DictLen > 0 => Digit(a[z]) = 1
  PROVE  DictLen * WordIn[n][a] = LastWord[n]
<1>1. job.last \in Nat /\ DictLen \in Nat /\ \A k \in 0 .. job.last : WordIn[k][a] \in Nat
  BY NextCell, Digits
<1> DEFINE T == {k \in Nat : k <= n /\ DictLen * WordIn[k][a] # LastWord[k]}
<1>2. 0 \notin T
  <2>1. WordIn[0][a] = 0 /\ LastWord[0] = 0
    BY NextCell, LastSteps
  <2>2. QED
    BY <1>1, <2>1
<1>3. \A k \in Nat : k \notin T => k + 1 \notin T
  <2> SUFFICES ASSUME NEW k \in Nat, k + 1 <= n, DictLen * WordIn[k][a] = LastWord[k]
               PROVE  DictLen * WordIn[k + 1][a] = LastWord[k + 1]
    BY <1>1
  <2>1. k < job.last /\ k \in 0 .. n - 1 /\ k + 1 \in 0 .. job.last
    BY <1>1
  <2>2. LastWord[k + 1] = DictLen * LastWord[k] + DictLen
    BY LastSteps
  <2>3. CASE DictLen = 0
    <3>1. PICK w \in Nat : w = WordIn[k + 1][a]
      BY <1>1, <2>1
    <3>2. PICK v \in Nat : v = LastWord[k]
      BY LastType
    <3>3. QED
      BY <2>2, <2>3, <3>1, <3>2
  <2>4. CASE DictLen > 0
    <3>1. WordIn[k + 1][a] = DictLen * WordIn[k][a] + Digit(a[k])
      BY <2>1, NextCell
    <3>2. Digit(a[k]) = 1
      BY <2>1, <2>4
    <3>3. PICK v \in Nat : v = LastWord[k]
      BY LastType
    <3>4. WordIn[k + 1][a] = v + 1
      BY <3>1, <3>2, <3>3
    <3>5. DictLen * (v + 1) = DictLen * v + DictLen
      BY <1>1, SMT
    <3>6. QED
      BY <2>2, <3>3, <3>4, <3>5
  <2>5. QED
    BY <1>1, <2>3, <2>4
<1>4. T = {}
  BY <1>2, <1>3, Counting!NoLeastException
<1>5. n \notin T /\ n \in Nat
  BY <1>4
<1>6. QED
  BY <1>5

\* A word without a NUL is longer than those that begin with one.
LEMMA WordOfLength ==
  ASSUME DictOK, job \in Jobs, NEW a \in Attempts, NEW n \in 1 .. job.last
  PROVE  /\ (\A z \in 0 .. n - 1 : a[z] # Nul) => WordIn[n][a] >= LastWord[n - 1] + 1
         /\ a[0] = Nul => WordIn[n][a] <= LastWord[n - 1]
<1>1. /\ job.last \in Nat /\ DictLen \in Nat
      /\ \A k \in 0 .. job.last : WordIn[k][a] \in Nat
      /\ \A z \in 0 .. job.last - 1 : Digit(a[z]) \in 0 .. DictLen
  BY NextCell, Digits
<1>2. \A k \in Nat : LastWord[k] \in Nat
  BY LastType
<1>3. WordIn[0 + 1][a] = Digit(a[0])
  <2>1. WordIn[0 + 1][a] = DictLen * WordIn[0][a] + Digit(a[0]) /\ WordIn[0][a] = 0
    <3>1. 0 \in Nat /\ 0 < job.last
      BY <1>1
    <3>2. QED
      BY <3>1, NextCell
  <2>2. Digit(a[0]) \in Nat
    BY <1>1
  <2>3. QED
    BY <1>1, <2>1, <2>2
<1>4. ASSUME \A z \in 0 .. n - 1 : a[z] # Nul
      PROVE  WordIn[n][a] >= LastWord[n - 1] + 1
  <2>0. \A z \in 0 .. n - 1 : Digit(a[z]) \in 1 .. DictLen
    <3> SUFFICES ASSUME NEW z \in 0 .. n - 1 PROVE Digit(a[z]) \in 1 .. DictLen
      OBVIOUS
    <3>1. z \in 0 .. job.last - 1
      BY <1>1
    <3>2. a[z] \in Range(result) \cup {Nul} /\ a[z] # Nul
      BY <1>4, <3>1 DEF Attempts
    <3>3. QED
      BY <1>1, <3>2, Digits
  <2> DEFINE T == {k \in Nat : k + 1 <= n /\ ~(WordIn[k + 1][a] >= LastWord[k] + 1)}
  <2>1. 0 \notin T
    <3>1. LastWord[0] = 0
      BY LastSteps
    <3>2. 0 \in 0 .. n - 1
      BY <1>1
    <3>3. QED
      BY <1>3, <2>0, <3>1, <3>2
  <2>2. \A k \in Nat : k \notin T => k + 1 \notin T
    <3> SUFFICES ASSUME NEW k \in Nat, (k + 1) + 1 <= n, WordIn[k + 1][a] >= LastWord[k] + 1
                 PROVE  WordIn[(k + 1) + 1][a] >= LastWord[k + 1] + 1
      BY <1>1
    <3>1. k + 1 \in Nat /\ k + 1 < job.last /\ k + 1 \in 0 .. n - 1 /\ k + 1 \in 0 .. job.last
      BY <1>1
    <3>2. WordIn[(k + 1) + 1][a] = DictLen * WordIn[k + 1][a] + Digit(a[k + 1])
      BY <3>1, NextCell
    <3>3. LastWord[k + 1] = DictLen * LastWord[k] + DictLen
      BY LastSteps
    <3>4. PICK w \in Nat, v \in Nat : w = WordIn[k + 1][a] /\ v = LastWord[k]
      BY <1>1, <1>2, <3>1
    <3>5. DictLen * (v + 1) <= DictLen * w
      BY <1>1, <3>4, Counting!LargerProduct
    <3>6. DictLen * (v + 1) = DictLen * v + DictLen /\ DictLen * v \in Nat /\ DictLen * w \in Nat
      BY <1>1, SMT
    <3>7. Digit(a[k + 1]) \in 1 .. DictLen
      BY <2>0, <3>1
    <3>8. QED
      BY <1>1, <3>2, <3>3, <3>4, <3>5, <3>6, <3>7
  <2>3. T = {}
    BY <2>1, <2>2, Counting!NoLeastException
  <2>4. n - 1 \notin T /\ n - 1 \in Nat /\ (n - 1) + 1 = n
    BY <1>1, <2>3
  <2>5. QED
    BY <2>4
<1>5. ASSUME a[0] = Nul
      PROVE  WordIn[n][a] <= LastWord[n - 1]
  <2> DEFINE T == {k \in Nat : k + 1 <= n /\ ~(WordIn[k + 1][a] <= LastWord[k])}
  <2>1. 0 \notin T
    <3>1. LastWord[0] = 0 /\ Digit(a[0]) = 0
      BY <1>5, LastSteps, Digits
    <3>2. QED
      BY <1>3, <3>1
  <2>2. \A k \in Nat : k \notin T => k + 1 \notin T
    <3> SUFFICES ASSUME NEW k \in Nat, (k + 1) + 1 <= n, WordIn[k + 1][a] <= LastWord[k]
                 PROVE  WordIn[(k + 1) + 1][a] <= LastWord[k + 1]
      BY <1>1
    <3>1. k + 1 \in Nat /\ k + 1 < job.last /\ k + 1 \in 0 .. job.last - 1 /\ k + 1 \in 0 .. job.last
      BY <1>1
    <3>2. WordIn[(k + 1) + 1][a] = DictLen * WordIn[k + 1][a] + Digit(a[k + 1])
      BY <3>1, NextCell
    <3>3. LastWord[k + 1] = DictLen * LastWord[k] + DictLen
      BY LastSteps
    <3>4. PICK w \in Nat, v \in Nat : w = WordIn[k + 1][a] /\ v = LastWord[k]
      BY <1>1, <1>2, <3>1
    <3>5. DictLen * w <= DictLen * v
      BY <1>1, <3>4, Counting!LargerProduct
    <3>6. DictLen * v \in Nat /\ DictLen * w \in Nat
      BY <1>1, SMT
    <3>7. Digit(a[k + 1]) \in 0 .. DictLen
      BY <1>1, <3>1
    <3>8. QED
      BY <1>1, <3>2, <3>3, <3>4, <3>5, <3>6, <3>7
  <2>3. T = {}
    BY <2>1, <2>2, Counting!NoLeastException
  <2>4. n - 1 \notin T /\ n - 1 \in Nat /\ (n - 1) + 1 = n
    BY <1>1, <2>3
  <2>5. QED
    BY <2>4
<1>6. QED
  BY <1>4, <1>5

\* An empty buffer is word 0.
LEMMA EmptyBuffer ==
  ASSUME DictOK, job \in Jobs, NEW a \in Attempts, NEW n \in 0 .. job.last,
         \A z \in 0 .. n - 1 : a[z] = Nul
  PROVE  WordIn[n][a] = 0
<1>1. job.last \in Nat /\ DictLen \in Nat
  BY NextCell, Digits
<1> DEFINE T == {k \in Nat : k <= n /\ WordIn[k][a] # 0}
<1>2. 0 \notin T
  BY NextCell
<1>3. \A k \in Nat : k \notin T => k + 1 \notin T
  <2> SUFFICES ASSUME NEW k \in Nat, k + 1 <= n, WordIn[k][a] = 0
               PROVE  WordIn[k + 1][a] = 0
    BY <1>1
  <2>1. k < job.last /\ k \in 0 .. n - 1
    BY <1>1
  <2>2. WordIn[k + 1][a] = DictLen * WordIn[k][a] + Digit(a[k])
    BY <2>1, NextCell
  <2>3. Digit(a[k]) = 0
    BY <2>1, Digits
  <2>4. QED
    BY <1>1, <2>2, <2>3
<1>4. T = {}
  BY <1>2, <1>3, Counting!NoLeastException
<1>5. n \notin T /\ n \in Nat
  BY <1>4
<1>6. QED
  BY <1>5

-----------------------------------------------------------------------------
(* The word that comes next                                                 *)

\* With the loops at text index t of buffer a of length l: behind the last word
\* that has what stands in front of t and at it.
ComingAt(t, a, l) == LastFrom[(l - 1) - t][WordIn[t + 1][a]] + 1

\* A loop that skips the NULs probes none of the words that are too short.
Probed(w, l) == IF job.skipNul /\ w <= LastWord[l - 1] THEN LastWord[l - 1] + 1 ELSE w

LEMMA ComingType ==
  ASSUME DictOK, job \in Jobs, NEW a \in Attempts,
         NEW l \in 1 .. job.last, NEW t \in -1 .. l - 1
  PROVE  ComingAt(t, a, l) \in Nat \ {0}
<1>1. job.last \in Nat /\ \A k \in 0 .. job.last : WordIn[k][a] \in Nat
  BY NextCell
<1>2. (l - 1) - t \in Nat /\ t + 1 \in 0 .. job.last
  BY <1>1
<1>3. LastFrom[(l - 1) - t][WordIn[t + 1][a]] \in Nat
  BY <1>1, <1>2, FromType
<1>4. QED
  BY <1>3 DEF ComingAt

\* A carry to the left leaves it.
LEMMA ComingAfterCarry ==
  ASSUME DictOK, job \in Jobs, NEW a \in Attempts, NEW b \in Attempts,
         NEW l \in 1 .. job.last, NEW t \in 0 .. l - 1,
         \A z \in 0 .. t - 1 : b[z] = a[z], Digit(a[t]) = DictLen
  PROVE  ComingAt(t - 1, b, l) = ComingAt(t, a, l)
<1>1. job.last \in Nat /\ \A k \in 0 .. job.last : WordIn[k][a] \in Nat
  BY NextCell
<1>2. /\ t \in Nat /\ t < job.last /\ t \in 0 .. job.last /\ (t - 1) + 1 = t
      /\ (l - 1) - t \in Nat /\ (l - 1) - (t - 1) = ((l - 1) - t) + 1
  BY <1>1
<1>3. WordIn[t + 1][a] = DictLen * WordIn[t][a] + DictLen
  BY <1>2, NextCell
<1>4. WordIn[t][b] = WordIn[t][a] /\ WordIn[t][a] \in Nat
  BY <1>1, <1>2, WordAgrees
<1>5. LastFrom[(l - 1) - t][WordIn[t + 1][a]] = LastFrom[((l - 1) - t) + 1][WordIn[t][a]]
  BY <1>2, <1>3, <1>4, FromNext
<1>6. QED
  BY <1>2, <1>4, <1>5 DEF ComingAt

\* What is written at t makes this word, and moves what comes on by one.
LEMMA ComingAfterWrite ==
  ASSUME DictOK, job \in Jobs, NEW a \in Attempts, NEW b \in Attempts,
         NEW l \in 1 .. job.last, NEW t \in 0 .. l - 1,
         \A z \in 0 .. t - 1 : b[z] = a[z], Digit(b[t]) = Digit(a[t]) + 1,
         \A z \in t + 1 .. l - 1 : Digit(b[z]) = 1
  PROVE  /\ WordIn[l][b] = ComingAt(t, a, l)
         /\ ComingAt(l - 1, b, l) = ComingAt(t, a, l) + 1
         /\ DictLen = 1 \/ t = l - 1 => ComingAt(t, b, l) = ComingAt(t, a, l) + 1
<1>1. /\ job.last \in Nat /\ DictLen \in Nat /\ \A k \in 0 .. job.last : WordIn[k][a] \in Nat
      /\ \A k \in 0 .. job.last : WordIn[k][b] \in Nat
      /\ \A z \in 0 .. job.last - 1 : Digit(a[z]) \in Nat
  BY NextCell, Digits
<1>2. /\ t \in Nat /\ t < job.last /\ t \in 0 .. job.last - 1 /\ t \in 0 .. job.last
      /\ t + 1 \in 0 .. l /\ t + 1 \in 0 .. job.last /\ l \in 0 .. job.last
      /\ l - (t + 1) = (l - 1) - t /\ (l - 1) - t \in Nat
      /\ (l - 1) + 1 = l /\ (l - 1) - (l - 1) = 0
  BY <1>1
<1>3. WordIn[t + 1][b] = WordIn[t + 1][a] + 1
  <2>1. WordIn[t + 1][a] = DictLen * WordIn[t][a] + Digit(a[t])
    BY <1>2, NextCell
  <2>2. WordIn[t + 1][b] = DictLen * WordIn[t][b] + (Digit(a[t]) + 1)
    BY <1>2, NextCell
  <2>3. WordIn[t][b] = WordIn[t][a]
    BY <1>2, WordAgrees
  <2>4. PICK w \in Nat : w = WordIn[t][a]
    BY <1>1, <1>2
  <2>5. DictLen * w \in Nat
    BY <1>1, SMT
  <2>6. PICK d \in Nat : d = Digit(a[t])
    BY <1>1, <1>2
  <2>7. WordIn[t + 1][a] = DictLen * w + d /\ WordIn[t + 1][b] = DictLen * w + (d + 1)
    BY <2>1, <2>2, <2>3, <2>4, <2>6
  <2>8. DictLen * w + (d + 1) = (DictLen * w + d) + 1
    BY <2>5
  <2>9. QED
    BY <2>7, <2>8
<1>4. WordIn[l][b] = ComingAt(t, a, l)
  <2>1. PICK p \in Nat : p = WordIn[t + 1][a]
    BY <1>1, <1>2
  <2>2. WordIn[t + 1][b] = p + 1
    BY <1>3, <2>1
  <2>3. WordIn[l][b] = LastFrom[l - (t + 1)][p] + 1
    BY <1>2, <2>2, FirstBehind
  <2>4. QED
    BY <1>2, <2>1, <2>3 DEF ComingAt
<1>5. ComingAt(l - 1, b, l) = ComingAt(t, a, l) + 1
  <2>1. LastFrom[0][WordIn[l][b]] = WordIn[l][b]
    BY <1>1, <1>2, LastFromSteps
  <2>2. QED
    BY <1>2, <1>4, <2>1 DEF ComingAt
<1>6. CASE t = l - 1
  BY <1>4, <1>5, <1>6
<1>7. CASE DictLen = 1
  <2>1. LastFrom[(l - 1) - t][WordIn[t + 1][a] + 1] = LastFrom[(l - 1) - t][WordIn[t + 1][a]] + 1
    BY <1>1, <1>2, <1>7, FromOne
  <2>2. ComingAt(t, b, l) = ComingAt(t, a, l) + 1
    BY <1>3, <2>1 DEF ComingAt
  <2>3. QED
    BY <1>4, <1>5, <2>2
<1>8. QED
  BY <1>4, <1>5, <1>6, <1>7

\* When a length is used up the first word of the next one comes.
LEMMA ComingAtEnd ==
  ASSUME DictOK, job \in Jobs, NEW a \in Attempts, NEW l \in 1 .. job.last
  PROVE  /\ ComingAt(-1, a, l) = LastWord[l] + 1
         /\ /\ l < job.last /\ a[l] = Nul
            /\ \A z \in 0 .. l - 1 : DictLen > 0 => Digit(a[z]) = 1
            => ComingAt(l, a, l + 1) = LastWord[l] + 1
<1>1. job.last \in Nat /\ l \in Nat /\ l \in 0 .. job.last
  BY NextCell
<1>2. ComingAt(-1, a, l) = LastWord[l] + 1
  <2>1. (l - 1) - (-1) = l /\ (-1) + 1 = 0
    BY <1>1
  <2>2. WordIn[0][a] = 0
    BY NextCell
  <2>3. LastFrom[l][0] = LastWord[l]
    BY <1>1, FromZero
  <2>4. QED
    BY <2>1, <2>2, <2>3 DEF ComingAt
<1>3. ASSUME l < job.last, a[l] = Nul, \A z \in 0 .. l - 1 : DictLen > 0 => Digit(a[z]) = 1
      PROVE  ComingAt(l, a, l + 1) = LastWord[l] + 1
  <2>1. ((l + 1) - 1) - l = 0
    BY <1>1
  <2>2. DictLen * WordIn[l][a] = LastWord[l]
    BY <1>1, <1>3, FirstOfLength
  <2>3. WordIn[l + 1][a] = DictLen * WordIn[l][a] + 0
    BY <1>1, <1>3, NextCell, Digits
  <2>4. LastWord[l] \in Nat
    BY <1>1, LastType
  <2>5. LastFrom[0][LastWord[l]] = LastWord[l]
    BY <2>4, LastFromSteps
  <2>6. WordIn[l + 1][a] = LastWord[l]
    BY <2>2, <2>3, <2>4
  <2>7. QED
    BY <2>1, <2>5, <2>6 DEF ComingAt
<1>4. QED
  BY <1>2, <1>3

-----------------------------------------------------------------------------
(* The invariant of the loops                                               *)

\* The numbers depend on the dictionary and the job only.
IndexIn(r, c) == Max({0} \cup {k \in 1 .. Len(r) : r[k] = c}) - 1

WordsOver(r, j) ==
  CHOOSE f : f = [n \in Nat |-> [a \in [0 .. j.last - 1 -> Range(r) \cup {Nul}] |->
                    IF n = 0 THEN 0 ELSE Len(r) * f[n - 1][a] + IndexIn(r, a[n - 1]) + 1]]

LastOver(r) ==
  CHOOSE f : f = [n \in Nat |-> IF n = 0 THEN 0 ELSE Len(r) * f[n - 1] + Len(r)]

LastFromOver(r) ==
  CHOOSE f : f = [k \in Nat |-> [w \in Nat |->
                    IF k = 0 THEN w ELSE Len(r) * f[k - 1][w] + Len(r)]]

LEMMA Frozen ==
  ASSUME result' = result, job' = job
  PROVE  /\ WordIn' = WordIn /\ LastWord' = LastWord /\ LastFrom' = LastFrom
         /\ DictLen' = DictLen /\ Attempts' = Attempts
         /\ \A i : result'[i] = result[i]
<1>1. WordIn' = WordIn
  <2>1. WordIn = WordsOver(result, job)
    BY Zenon DEF WordIn, WordsOver, Attempts, DictLen, IndexOfChar, IndexIn
  <2>2. WordIn' = WordsOver(result', job')
    BY Zenon DEF WordIn, WordsOver, Attempts, DictLen, IndexOfChar, IndexIn
  <2>3. QED
    BY <2>1, <2>2, Zenon
<1>2. LastWord' = LastWord
  <2>1. LastWord = LastOver(result)
    BY Zenon DEF LastWord, LastOver, DictLen
  <2>2. LastWord' = LastOver(result')
    BY Zenon DEF LastWord, LastOver, DictLen
  <2>3. QED
    BY <2>1, <2>2, Zenon
<1>3. LastFrom' = LastFrom
  <2>1. LastFrom = LastFromOver(result)
    BY Zenon DEF LastFrom, LastFromOver, DictLen
  <2>2. LastFrom' = LastFromOver(result')
    BY Zenon DEF LastFrom, LastFromOver, DictLen
  <2>3. QED
    BY <2>1, <2>2, Zenon
<1>4. QED
  BY <1>1, <1>2, <1>3 DEF DictLen, Attempts

FirstChar == IF DictLen = 0 THEN Nul ELSE DictChar(0)

\* Nothing has begun; the loops run over a finished dictionary.
WaitOK ==
  /\ pc = "wait" => /\ attempt = [z \in 0 .. job.last - 1 |-> Nul]
                    /\ passLen = job.first /\ ti = passLen - 1 /\ li = 0
                    /\ workThread = 1 /\ word = 0
  /\ pc # "wait" => stage = "done"

\* NULs stand in front of the characters, but for the last cell, which may
\* still be empty when a length begins, and behind the length.
CellsOK ==
  /\ ti < passLen
  /\ \A z \in passLen .. job.last - 1 : attempt[z] = Nul
  /\ \A z \in 1 .. passLen - 2 : attempt[z - 1] # Nul => attempt[z] # Nul

\* To the right of the text index stands the first character, and the inner
\* loop goes on from the character at it.
LoopOK ==
  pc \in {"outer", "inner"} =>
    /\ \A z \in ti + 1 .. passLen - 1 : attempt[z] = FirstChar
    /\ pc = "inner" => ti >= 0 /\ li = IndexOfChar(attempt[ti]) + 1
    /\ word = Probed(ComingAt(ti, attempt, passLen), passLen)

LoopInv == DictInv /\ TypeOK /\ WaitOK /\ CellsOK /\ LoopOK /\ TurnFollowsWord

\* What the types say.
LEMMA Types ==
  ASSUME TypeOK, DictInv
  PROVE  /\ DictOK /\ job \in Jobs /\ attempt \in Attempts
         /\ job.last \in Nat \ {0} /\ job.first \in Nat \ {0}
         /\ passLen \in 1 .. job.last /\ passLen \in job.first .. job.last
         /\ DictLen \in Nat /\ li \in 0 .. DictLen /\ ti \in -1 .. job.last - 1
         /\ job.threads \in Nat \ {0} /\ job.skipNul \in BOOLEAN
         /\ NumOfThreads \in Nat /\ NumOfThreads <= job.threads
         /\ (DictLen > 0 => NumOfThreads > 0)
         /\ (DictLen = 0 => NumOfThreads = 0)
         /\ workThread \in 1 .. job.threads /\ word \in Nat
<1>1. DictOK
  BY SequencesType DEF DictOK, DictInv
<1>2. job \in Jobs /\ attempt \in Attempts /\ li \in 0 .. DictLen
      /\ ti \in -1 .. job.last - 1 /\ passLen \in job.first .. job.last
      /\ workThread \in 1 .. job.threads /\ word \in Nat
  BY DEF TypeOK
<1>3. /\ job.last \in Nat /\ job.first \in Nat \ {0} /\ job.first <= job.last
      /\ job.threads \in Nat \ {0} /\ job.skipNul \in BOOLEAN
  BY <1>2, OdometerAssumption
<1>4. DictLen \in Nat
  BY <1>1, Digits
<1>5. QED
  BY <1>1, <1>2, <1>3, <1>4 DEF NumOfThreads

LEMMA LoopInit == Init => LoopInv
<1> SUFFICES ASSUME Init PROVE LoopInv
  OBVIOUS
<1>1. DictInv
  BY DictInitInv DEF Init
<1>2. job \in Jobs /\ job.last \in Nat /\ job.first \in Nat \ {0} /\ job.first <= job.last
      /\ job.threads \in Nat \ {0}
  BY OdometerAssumption DEF Init
<1>3. /\ attempt = [z \in 0 .. job.last - 1 |-> Nul] /\ passLen = job.first
      /\ ti = passLen - 1 /\ li = 0 /\ pc = "wait" /\ workThread = 1 /\ word = 0
  BY DEF Init
<1>4. DictLen \in Nat
  BY <1>1, SequencesType DEF DictInv, DictLen
<1>5. TypeOK
  BY <1>1, <1>2, <1>3, <1>4 DEF TypeOK, DictInv, Attempts
<1>6. WaitOK /\ LoopOK /\ TurnFollowsWord
  BY <1>3 DEF WaitOK, LoopOK, TurnFollowsWord
<1>7. CellsOK
  BY <1>2, <1>3 DEF CellsOK
<1>8. QED
  BY <1>1, <1>5, <1>6, <1>7 DEF LoopInv

\* While the dictionary is prepared the loops wait.
LEMMA PrepareStep ==
  ASSUME LoopInv, PrepareDictionary
  PROVE  LoopInv'
<1>1. /\ DictStep /\ stage # "done" /\ DictInv'
      /\ UNCHANGED <<job, attempt, passLen, ti, li, pc, workThread, word>>
  BY DictSteps, DictDone DEF PrepareDictionary, LoopInv
<1>2. pc = "wait" /\ WaitOK /\ CellsOK /\ TypeOK
  BY <1>1 DEF LoopInv, WaitOK
<1>3. attempt = [z \in 0 .. job.last - 1 |-> Nul] /\ li = 0
  BY <1>2 DEF WaitOK
<1>4. DictLen' \in Nat /\ DictTypeOK'
  <2>1. DictTypeOK'
    BY <1>1 DEF DictInv
  <2>2. result' \in Seq(Chars)
    BY <2>1 DEF DictTypeOK
  <2>3. QED
    BY <2>1, <2>2 DEF DictLen
<1>5. attempt' \in Attempts'
  BY <1>1, <1>3 DEF Attempts
<1>6. TypeOK'
  BY <1>1, <1>2, <1>3, <1>4, <1>5 DEF TypeOK
<1>7. WaitOK' /\ CellsOK' /\ LoopOK' /\ TurnFollowsWord'
  BY <1>1, <1>2 DEF WaitOK, CellsOK, LoopOK, TurnFollowsWord
<1>8. QED
  BY <1>1, <1>6, <1>7 DEF LoopInv

\* What has to be shown of a step of the loops, in terms of the values before
\* the step of all that depends on the dictionary.
CellsNext ==
  /\ attempt' \in Attempts
  /\ passLen' \in job.first .. job.last
  /\ ti' \in Int /\ ti' >= -1 /\ ti' < passLen'
  /\ \A z \in passLen' .. job.last - 1 : attempt'[z] = Nul
  /\ \A z \in 1 .. passLen' - 2 : attempt'[z - 1] # Nul => attempt'[z] # Nul

LoopNext ==
  /\ li' \in 0 .. DictLen
  /\ pc' \in {"outer", "inner", "end"}
  /\ pc' # "end" =>
       /\ \A z \in ti' + 1 .. passLen' - 1 : attempt'[z] = FirstChar
       /\ pc' = "inner" => ti' >= 0 /\ li' = Digit(attempt'[ti'])
       /\ word' = Probed(ComingAt(ti', attempt', passLen'), passLen')

TurnNext ==
  /\ workThread' \in 1 .. job.threads /\ word' \in Nat
  /\ ~job.skipNul /\ DictLen > 0 =>
       workThread' = ((word' - FirstWord) % NumOfThreads) + 1

LEMMA Steps ==
  /\ LoopInv /\ UNCHANGED dictVars /\ job' = job /\ stage = "done"
  /\ CellsNext /\ LoopNext /\ TurnNext
  => LoopInv'
<1>a. SUFFICES ASSUME LoopInv, UNCHANGED dictVars, job' = job, stage = "done",
                      CellsNext, LoopNext, TurnNext
               PROVE  LoopInv'
  OBVIOUS
<1>0. TypeOK /\ DictInv
  BY <1>a DEF LoopInv
<1>1. /\ DictInv' /\ DictTypeOK' /\ result' = result /\ stage' = "done"
  <2>1. DictInv'
    BY <1>a, <1>0, DictUnchanged
  <2>2. QED
    BY <1>a, <2>1 DEF dictVars, DictInv
<1>2. /\ WordIn' = WordIn /\ LastWord' = LastWord /\ LastFrom' = LastFrom
      /\ DictLen' = DictLen /\ Attempts' = Attempts /\ \A z : result'[z] = result[z]
  BY <1>a, <1>1, Frozen
<1>3. /\ job.last \in Nat \ {0} /\ job \in Jobs /\ job.first \in Nat \ {0}
      /\ attempt' \in Attempts /\ ti' \in Int /\ ti' >= -1 /\ ti' < passLen'
      /\ passLen' \in job.first .. job.last /\ passLen' \in Nat /\ passLen' <= job.last
  <2>1. job.last \in Nat \ {0} /\ job \in Jobs /\ job.first \in Nat \ {0}
    BY <1>0, Types
  <2>2. /\ attempt' \in Attempts /\ passLen' \in job.first .. job.last
        /\ ti' \in Int /\ ti' >= -1 /\ ti' < passLen'
    BY <1>a DEF CellsNext
  <2>3. QED
    BY <2>1, <2>2
<1>4. TypeOK'
  <2>1. ti' \in -1 .. job.last - 1
    BY <1>3
  <2>2. /\ li' \in 0 .. DictLen' /\ pc' \in {"wait", "outer", "inner", "end"}
        /\ workThread' \in 1 .. job.threads /\ word' \in Nat
    BY <1>a, <1>2 DEF LoopNext, TurnNext
  <2>3. attempt' \in Attempts'
    BY <1>2, <1>3
  <2>4. QED
    BY <1>a, <1>1, <1>3, <2>1, <2>2, <2>3 DEF TypeOK
<1>5. WaitOK'
  BY <1>a, <1>1 DEF WaitOK, LoopNext
<1>6. CellsOK'
  BY <1>a DEF CellsOK, CellsNext
<1>7. LoopOK'
  <2> SUFFICES ASSUME pc' \in {"outer", "inner"}
               PROVE  /\ \A z \in ti' + 1 .. passLen' - 1 : attempt'[z] = FirstChar'
                      /\ pc' = "inner" => ti' >= 0 /\ li' = IndexOfChar(attempt[ti])' + 1
                      /\ word' = Probed(ComingAt(ti, attempt, passLen), passLen)'
    BY DEF LoopOK
  <2>1. FirstChar' = FirstChar
    BY <1>1, <1>2 DEF FirstChar, DictChar
  <2>2. IndexOfChar(attempt[ti])' + 1 = Digit(attempt'[ti'])
    BY <1>1, <1>2 DEF Digit, IndexOfChar
  <2>3. Probed(ComingAt(ti, attempt, passLen), passLen)' =
          Probed(ComingAt(ti', attempt', passLen'), passLen')
    BY <1>a, <1>1, <1>2 DEF Probed, ComingAt
  <2>4. QED
    BY <1>a, <2>1, <2>2, <2>3 DEF LoopNext
<1>8. TurnFollowsWord'
  <2>1. FirstWord' = FirstWord /\ NumOfThreads' = NumOfThreads
    BY <1>a, <1>2 DEF FirstWord, NumOfThreads
  <2>2. QED
    BY <1>a, <1>2, <2>1 DEF TurnFollowsWord, TurnNext
<1>9. QED
  BY <1>1, <1>4, <1>5, <1>6, <1>7, <1>8 DEF LoopInv

\* The loops begin with the first word they probe.
LEMMA StartStep ==
  ASSUME LoopInv, Start
  PROVE  /\ CellsNext /\ LoopNext /\ TurnNext
         /\ pc' = "end" => word' = LastWord[job.last] + 1
<1>1. /\ stage = "done" /\ pc = "wait"
      /\ pc' = IF job.skipNul \/ NumOfThreads > 0 THEN "outer" ELSE "end"
      /\ word' = FirstWord
      /\ attempt' = attempt /\ passLen' = passLen /\ ti' = ti /\ li' = li
      /\ workThread' = workThread
  BY DEF Start
<1>2. WaitOK /\ CellsOK /\ TypeOK /\ DictInv
  BY DEF LoopInv
<1>3. /\ attempt = [z \in 0 .. job.last - 1 |-> Nul] /\ passLen = job.first
      /\ ti = passLen - 1 /\ li = 0 /\ workThread = 1
  BY <1>1, <1>2 DEF WaitOK
<1>4. /\ DictOK /\ job \in Jobs /\ attempt \in Attempts
      /\ job.last \in Nat \ {0} /\ passLen \in 1 .. job.last /\ passLen \in job.first .. job.last
      /\ DictLen \in Nat /\ job.threads \in Nat \ {0} /\ job.skipNul \in BOOLEAN
      /\ NumOfThreads \in Nat
  BY <1>2, Types
<1>5. CellsNext
  BY <1>1, <1>2, <1>3, <1>4 DEF CellsNext, CellsOK
<1>6. WordIn[passLen][attempt] = 0
  <2>1. \A z \in 0 .. passLen - 1 : attempt[z] = Nul
    BY <1>3, <1>4
  <2>2. passLen \in 0 .. job.last
    BY <1>4
  <2>3. QED
    BY <1>4, <2>1, <2>2, EmptyBuffer
<1>7. ComingAt(ti, attempt, passLen) = 1
  <2>1. (passLen - 1) - ti = 0 /\ ti + 1 = passLen
    BY <1>3, <1>4
  <2>2. LastFrom[0][0] = 0
    BY LastFromSteps
  <2>3. QED
    BY <1>6, <2>1, <2>2 DEF ComingAt
<1>8. PICK w \in Nat : w = LastWord[job.first - 1]
  <2>1. job.first - 1 \in Nat
    BY <1>3, <1>4
  <2>2. QED
    BY <1>4, <2>1, LastType
<1>9. FirstWord = Probed(ComingAt(ti, attempt, passLen), passLen) /\ FirstWord \in Nat
  BY <1>3, <1>4, <1>7, <1>8 DEF FirstWord, Probed
<1>10. LoopNext
  <2>1. \A z \in ti + 1 .. passLen - 1 : FALSE
    BY <1>3, <1>4
  <2>2. QED
    BY <1>1, <1>3, <1>4, <1>9, <2>1 DEF LoopNext
<1>11. TurnNext
  <2>1. ASSUME ~job.skipNul, DictLen > 0
        PROVE  (FirstWord - FirstWord) % NumOfThreads = 0
    <3>1. NumOfThreads \in Nat \ {0}
      BY <1>2, <1>4, <2>1, Types
    <3>2. QED
      BY <1>9, <3>1, SMT
  <2>2. QED
    BY <1>1, <1>3, <1>4, <1>9, <2>1 DEF TurnNext
<1>12. ASSUME pc' = "end"
       PROVE  word' = LastWord[job.last] + 1
  <2>1. ~job.skipNul /\ DictLen = 0
    BY <1>1, <1>2, <1>4, <1>12, Types
  <2>2. LastWord[job.last] = DictLen * LastWord[job.last - 1] + DictLen
    BY <1>4, LastSteps
  <2>3. PICK v \in Nat : v = LastWord[job.last - 1]
    BY <1>4, LastType
  <2>4. LastWord[job.last] = 0
    BY <2>1, <2>2, <2>3
  <2>5. QED
    BY <1>1, <2>1, <2>4 DEF FirstWord
<1>13. QED
  BY <1>5, <1>10, <1>11, <1>12

LEMMA OuterStep ==
  ASSUME LoopInv, Outer
  PROVE  CellsNext /\ LoopNext /\ TurnNext
<1>1. /\ pc = "outer" /\ ti > -1 /\ li' = IndexOfChar(attempt[ti]) + 1 /\ pc' = "inner"
      /\ attempt' = attempt /\ passLen' = passLen /\ ti' = ti
      /\ workThread' = workThread /\ word' = word
  BY DEF Outer
<1>2. CellsOK /\ TypeOK /\ DictInv /\ LoopOK /\ TurnFollowsWord
  BY DEF LoopInv
<1>3. /\ DictOK /\ job \in Jobs /\ attempt \in Attempts /\ ti \in -1 .. job.last - 1
      /\ job.last \in Nat \ {0} /\ passLen \in 1 .. job.last /\ passLen \in job.first .. job.last
      /\ DictLen \in Nat /\ workThread \in 1 .. job.threads /\ word \in Nat
  BY <1>2, Types
<1>4. CellsNext
  BY <1>1, <1>2, <1>3 DEF CellsNext, CellsOK
<1>5. li' = Digit(attempt[ti]) /\ li' \in 0 .. DictLen
  <2>1. ti \in 0 .. job.last - 1
    BY <1>1, <1>3
  <2>2. QED
    BY <1>1, <1>3, <2>1, NextCell DEF Digit
<1>6. LoopNext
  BY <1>1, <1>2, <1>3, <1>5 DEF LoopNext, LoopOK
<1>7. TurnNext
  BY <1>1, <1>2, <1>3 DEF TurnNext, TurnFollowsWord
<1>8. QED
  BY <1>4, <1>6, <1>7

\* A buffer that does not begin with a NUL has none before its end.
LEMMA NoNuls ==
  ASSUME NEW n \in Nat, NEW a, \A z \in 1 .. n - 1 : a[z - 1] # Nul => a[z] # Nul, a[0] # Nul
  PROVE  \A z \in 0 .. n - 1 : a[z] # Nul
<1> DEFINE T == {z \in Nat : z < n /\ a[z] = Nul}
<1>1. 0 \notin T
  OBVIOUS
<1>2. \A z \in Nat : z \notin T => z + 1 \notin T
  <2> SUFFICES ASSUME NEW z \in Nat, z + 1 < n, a[z] # Nul
               PROVE  a[z + 1] # Nul
    OBVIOUS
  <2>1. z + 1 \in 1 .. n - 1 /\ (z + 1) - 1 = z
    OBVIOUS
  <2>2. QED
    BY <2>1
<1>3. T = {}
  BY <1>1, <1>2, Counting!NoLeastException
<1>4. QED
  BY <1>3

\* A cell that is written.
LEMMA Written ==
  ASSUME TypeOK, DictInv, NEW t \in 0 .. job.last - 1, NEW c \in Range(result) \cup {Nul}
  PROVE  /\ [attempt EXCEPT ![t] = c] \in Attempts
         /\ [attempt EXCEPT ![t] = c][t] = c
         /\ \A z \in 0 .. job.last - 1 : z # t => [attempt EXCEPT ![t] = c][z] = attempt[z]
<1>1. attempt \in [0 .. job.last - 1 -> Range(result) \cup {Nul}]
  BY Types DEF Attempts
<1>2. QED
  BY <1>1 DEF Attempts

\* The first character, when there is one.
LEMMA FirstDigit ==
  ASSUME DictOK
  PROVE  /\ FirstChar \in Range(result) \cup {Nul}
         /\ DictLen > 0 => FirstChar # Nul /\ Digit(FirstChar) = 1 /\ FirstChar = DictChar(0)
         /\ DictLen = 0 => Range(result) = {}
<1>1. DictLen \in Nat /\ result \in Seq(Chars)
  BY Digits DEF DictOK
<1>2. CASE DictLen = 0
  <2>1. Range(result) = {}
    BY <1>1, <1>2, Indexes DEF DictOK
  <2>2. QED
    BY <1>2, <2>1 DEF FirstChar
<1>3. CASE DictLen > 0
  <2>1. 0 \in 0 .. DictLen - 1 /\ 0 + 1 = 1
    BY <1>1, <1>3
  <2>2. DictChar(0) \in Range(result) /\ DictChar(0) # Nul /\ Digit(DictChar(0)) = 0 + 1
    BY <2>1, Digits
  <2>3. QED
    BY <1>1, <1>3, <2>2 DEF FirstChar
<1>4. QED
  BY <1>1, <1>2, <1>3

\* What one round of the inner loop writes, probes and leaves to come.
LEMMA InnerWrites ==
  ASSUME LoopInv, Inner
  PROVE  /\ CellsNext /\ NulsInFront(attempt')
         /\ WordIn[passLen][attempt'] = ComingAt(ti, attempt, passLen)
         /\ pc' # "end" /\ li' \in 0 .. DictLen /\ passLen' = passLen
         /\ \A z \in ti' + 1 .. passLen - 1 : attempt'[z] = FirstChar
         /\ pc' = "inner" => ti' >= 0 /\ li' = Digit(attempt'[ti'])
         /\ pc' \in {"inner", "outer"}
         /\ ComingAt(ti', attempt', passLen) = ComingAt(ti, attempt, passLen) + 1
<1>1. /\ pc = "inner" /\ li < DictLen /\ attempt' = [attempt EXCEPT ![ti] = DictChar(li)]
      /\ Rotate /\ passLen' = passLen
  BY DEF Inner
<1>2. CellsOK /\ TypeOK /\ DictInv /\ LoopOK
  BY DEF LoopInv
<1>3. /\ DictOK /\ job \in Jobs /\ attempt \in Attempts
      /\ job.last \in Nat \ {0} /\ passLen \in 1 .. job.last /\ passLen \in job.first .. job.last
      /\ DictLen \in Nat /\ li \in 0 .. DictLen
  BY <1>2, Types
<1>4. /\ ti \in 0 .. passLen - 1 /\ ti \in 0 .. job.last - 1 /\ li = Digit(attempt[ti])
      /\ \A z \in ti + 1 .. passLen - 1 : attempt[z] = FirstChar
  <2>1. /\ ti >= 0 /\ li = IndexOfChar(attempt[ti]) + 1 /\ ti < passLen
        /\ \A z \in ti + 1 .. passLen - 1 : attempt[z] = FirstChar
    BY <1>1, <1>2 DEF LoopOK, CellsOK
  <2>2. ti \in -1 .. job.last - 1
    BY <1>2, Types
  <2>3. QED
    BY <1>3, <2>1, <2>2 DEF Digit
<1>5. /\ DictChar(li) \in Range(result) /\ DictChar(li) # Nul /\ Digit(DictChar(li)) = li + 1
      /\ DictLen > 0 /\ FirstChar # Nul /\ Digit(FirstChar) = 1
  <2>1. li \in 0 .. DictLen - 1 /\ DictLen > 0
    BY <1>1, <1>3
  <2>2. QED
    BY <1>3, <2>1, Digits, FirstDigit
<1>6. /\ attempt' \in Attempts /\ attempt'[ti] = DictChar(li)
      /\ \A z \in 0 .. job.last - 1 : z # ti => attempt'[z] = attempt[z]
  <2>1. PICK c \in Range(result) \cup {Nul} : c = DictChar(li)
    BY <1>5
  <2>2. attempt' = [attempt EXCEPT ![ti] = c]
    BY <1>1, <2>1
  <2>3. /\ [attempt EXCEPT ![ti] = c] \in Attempts
        /\ [attempt EXCEPT ![ti] = c][ti] = c
        /\ \A z \in 0 .. job.last - 1 : z # ti => [attempt EXCEPT ![ti] = c][z] = attempt[z]
    BY <1>2, <1>4, Written
  <2>4. QED
    BY <2>1, <2>2, <2>3
<1>7. \A z \in ti + 1 .. passLen - 1 : attempt'[z] = FirstChar
  BY <1>3, <1>4, <1>6
<1>8. NulsInFront(attempt')
  <2>1. attempt'[passLen - 1] # Nul
    <3>1. CASE ti = passLen - 1
      BY <1>5, <1>6, <3>1
    <3>2. CASE ti # passLen - 1
      <4>1. passLen - 1 \in ti + 1 .. passLen - 1
        BY <1>3, <1>4, <3>2
      <4>2. QED
        BY <1>5, <1>7, <4>1
    <3>3. QED
      BY <3>1, <3>2
  <2>2. ASSUME NEW z \in 1 .. passLen - 1, attempt'[z - 1] # Nul
        PROVE  attempt'[z] # Nul
    <3>1. CASE z = passLen - 1
      BY <2>1, <3>1
    <3>2. CASE z = ti
      BY <1>5, <1>6, <3>2
    <3>3. CASE z - 1 = ti /\ z # passLen - 1
      <4>1. z \in ti + 1 .. passLen - 1
        BY <1>3, <1>4, <3>3
      <4>2. QED
        BY <1>5, <1>7, <4>1
    <3>4. CASE z # passLen - 1 /\ z # ti /\ z - 1 # ti
      <4>1. z \in 0 .. job.last - 1 /\ z - 1 \in 0 .. job.last - 1 /\ z \in 1 .. passLen - 2
        BY <1>3, <3>4
      <4>2. attempt'[z] = attempt[z] /\ attempt'[z - 1] = attempt[z - 1]
        BY <1>6, <3>4, <4>1
      <4>3. attempt[z - 1] # Nul => attempt[z] # Nul
        BY <1>2, <4>1 DEF CellsOK
      <4>4. QED
        BY <2>2, <4>2, <4>3
    <3>5. QED
      BY <3>1, <3>2, <3>3, <3>4
  <2>3. QED
    BY <2>1, <2>2 DEF NulsInFront
<1>9. /\ WordIn[passLen][attempt'] = ComingAt(ti, attempt, passLen)
      /\ ComingAt(passLen - 1, attempt', passLen) = ComingAt(ti, attempt, passLen) + 1
      /\ DictLen = 1 \/ ti = passLen - 1 =>
           ComingAt(ti, attempt', passLen) = ComingAt(ti, attempt, passLen) + 1
  <2>1. \A z \in 0 .. ti - 1 : attempt'[z] = attempt[z]
    BY <1>3, <1>4, <1>6
  <2>2. Digit(attempt'[ti]) = Digit(attempt[ti]) + 1
    BY <1>4, <1>5, <1>6
  <2>3. \A z \in ti + 1 .. passLen - 1 : Digit(attempt'[z]) = 1
    BY <1>5, <1>7
  <2>4. QED
    BY <1>3, <1>4, <1>6, <2>1, <2>2, <2>3, ComingAfterWrite
<1>10. CASE MustRotate
  <2>1. ti' = passLen - 1 /\ pc' = "outer" /\ li' = li
    BY <1>1, <1>10 DEF Rotate
  <2>2. \A z \in ti' + 1 .. passLen - 1 : FALSE
    BY <1>3, <2>1
  <2>3. CellsNext
    <3>1. ti' \in Int /\ ti' >= -1 /\ ti' < passLen
      BY <1>3, <2>1
    <3>2. \A z \in passLen .. job.last - 1 : attempt'[z] = Nul
      BY <1>2, <1>3, <1>4, <1>6 DEF CellsOK
    <3>3. \A z \in 1 .. passLen - 2 : attempt'[z - 1] # Nul => attempt'[z] # Nul
      BY <1>3, <1>8 DEF NulsInFront
    <3>4. QED
      BY <1>1, <1>3, <1>6, <3>1, <3>2, <3>3 DEF CellsNext
  <2>4. QED
    BY <1>1, <1>3, <1>8, <1>9, <2>1, <2>2, <2>3
<1>11. CASE ~MustRotate
  <2>1. ti' = ti /\ pc' = "inner" /\ li' = li + 1
    BY <1>1, <1>11 DEF Rotate
  <2>2. CellsNext
    <3>1. ti' \in Int /\ ti' >= -1 /\ ti' < passLen
      BY <1>3, <1>4, <2>1
    <3>2. \A z \in passLen .. job.last - 1 : attempt'[z] = Nul
      BY <1>2, <1>3, <1>4, <1>6 DEF CellsOK
    <3>3. \A z \in 1 .. passLen - 2 : attempt'[z - 1] # Nul => attempt'[z] # Nul
      BY <1>3, <1>8 DEF NulsInFront
    <3>4. QED
      BY <1>1, <1>3, <1>6, <3>1, <3>2, <3>3 DEF CellsNext
  <2>3. DictLen = 1 \/ ti = passLen - 1
    <3> SUFFICES ASSUME ti # passLen - 1 PROVE DictLen = 1
      OBVIOUS
    <3>1. passLen - 1 \in ti + 1 .. passLen - 1
      BY <1>3, <1>4
    <3>2. attempt'[passLen - 1] = DictChar(DictLen - 1)
      BY <1>11, <3>1 DEF MustRotate
    <3>3. attempt'[passLen - 1] = FirstChar
      BY <1>7, <3>1
    <3>4. DictLen - 1 \in 0 .. DictLen - 1
      BY <1>3, <1>5
    <3>5. Digit(DictChar(DictLen - 1)) = (DictLen - 1) + 1
      BY <1>3, <3>4, Digits
    <3>6. QED
      BY <1>3, <1>5, <3>2, <3>3, <3>5
  <2>4. ti' >= 0 /\ li' = Digit(attempt'[ti']) /\ li' \in 0 .. DictLen
    BY <1>1, <1>3, <1>4, <1>5, <1>6, <2>1
  <2>5. QED
    BY <1>1, <1>7, <1>8, <1>9, <2>1, <2>2, <2>3, <2>4
<1>12. QED
  BY <1>10, <1>11

\* The turn goes on with the word.
LEMMA NextTurn ==
  ASSUME NEW n \in Nat \ {0}, NEW w \in Nat \ {0}, NEW t, t = ((w - 1) % n) + 1
  PROVE  /\ (IF t < n THEN t + 1 ELSE 1) = (((w + 1) - 1) % n) + 1
         /\ t \in 1 .. n /\ (IF t < n THEN t + 1 ELSE 1) \in 1 .. n
<1>1. w - 1 \in Nat /\ (w - 1) + 1 = (w + 1) - 1
  OBVIOUS
<1>2. PICK r \in 0 .. n - 1 : r = (w - 1) % n
  BY <1>1, Counting!Division
<1>3. ((w + 1) - 1) % n = IF r + 1 < n THEN r + 1 ELSE 0
  BY <1>1, <1>2, Counting!NextRemainder
<1>4. QED
  BY <1>2, <1>3

\* The word that is probed is the one that came next, and counts as a turn.
LEMMA InnerStep ==
  ASSUME LoopInv, Inner
  PROVE  /\ CellsNext /\ LoopNext /\ TurnNext /\ pc' # "end"
         /\ word' # word => /\ NulsInFront(attempt') /\ word' = word + 1
                            /\ WordIn[passLen][attempt'] = word
<1> DEFINE v == ComingAt(ti, attempt, passLen)
<1>1. /\ CellsNext /\ NulsInFront(attempt') /\ WordIn[passLen][attempt'] = v
      /\ pc' # "end" /\ li' \in 0 .. DictLen /\ passLen' = passLen
      /\ \A z \in ti' + 1 .. passLen - 1 : attempt'[z] = FirstChar
      /\ pc' = "inner" => ti' >= 0 /\ li' = Digit(attempt'[ti'])
      /\ pc' \in {"inner", "outer"}
      /\ ComingAt(ti', attempt', passLen) = v + 1
  BY InnerWrites
<1>2. /\ pc = "inner" /\ li < DictLen
      /\ \/ job.skipNul /\ attempt'[0] = Nul /\ UNCHANGED <<workThread, word>>
         \/ job.skipNul /\ attempt'[0] # Nul /\ word' = word + 1 /\ UNCHANGED workThread
         \/ /\ ~job.skipNul /\ word' = word + 1
            /\ workThread' = IF workThread < NumOfThreads THEN workThread + 1 ELSE 1
  BY DEF Inner
<1>3. CellsOK /\ TypeOK /\ DictInv /\ LoopOK /\ TurnFollowsWord
  BY DEF LoopInv
<1>4. /\ DictOK /\ job \in Jobs /\ attempt \in Attempts /\ attempt' \in Attempts
      /\ job.last \in Nat \ {0} /\ passLen \in 1 .. job.last
      /\ DictLen \in Nat /\ li \in 0 .. DictLen /\ ti \in -1 .. job.last - 1
      /\ job.threads \in Nat \ {0} /\ job.skipNul \in BOOLEAN
      /\ NumOfThreads \in Nat /\ NumOfThreads <= job.threads
      /\ (DictLen > 0 => NumOfThreads > 0)
      /\ workThread \in 1 .. job.threads /\ word \in Nat
  BY <1>1, <1>3, Types DEF CellsNext
<1>5. v \in Nat \ {0}
  <2>1. ti \in -1 .. passLen - 1
    BY <1>3, <1>4 DEF CellsOK
  <2>2. QED
    BY <1>4, <2>1, ComingType
<1>6. word = Probed(v, passLen)
  BY <1>2, <1>3 DEF LoopOK
<1> HIDE DEF v
<1>7. PICK last \in Nat : last = LastWord[passLen - 1]
  <2>1. passLen - 1 \in Nat
    BY <1>4
  <2>2. QED
    BY <1>4, <2>1, LastType
<1>8. CASE job.skipNul /\ attempt'[0] = Nul
  <2>1. v <= last
    BY <1>1, <1>4, <1>7, <1>8, WordOfLength
  <2>2. Probed(v, passLen) = Probed(v + 1, passLen)
    BY <1>5, <1>7, <1>8, <2>1 DEF Probed
  <2>3. word' = word /\ workThread' = workThread
    BY <1>2, <1>8
  <2>4. LoopNext
    BY <1>1, <1>6, <2>2, <2>3 DEF LoopNext
  <2>5. TurnNext
    BY <1>4, <1>8, <2>3 DEF TurnNext
  <2>6. QED
    BY <1>1, <2>3, <2>4, <2>5
<1>9. CASE job.skipNul /\ attempt'[0] # Nul
  <2>1. v >= last + 1
    <3>1. \A z \in 1 .. passLen - 1 : attempt'[z - 1] # Nul => attempt'[z] # Nul
      BY <1>1 DEF NulsInFront
    <3>2. passLen \in Nat
      BY <1>4
    <3>3. \A z \in 0 .. passLen - 1 : attempt'[z] # Nul
      BY <1>9, <3>1, <3>2, NoNuls
    <3>4. QED
      BY <1>1, <1>4, <1>7, <3>3, WordOfLength
  <2>2. Probed(v, passLen) = v /\ Probed(v + 1, passLen) = v + 1
    BY <1>5, <1>7, <2>1 DEF Probed
  <2>3. word' = word + 1 /\ workThread' = workThread
    BY <1>2, <1>9
  <2>4. LoopNext
    BY <1>1, <1>6, <2>2, <2>3 DEF LoopNext
  <2>5. TurnNext
    BY <1>4, <1>9, <2>3 DEF TurnNext
  <2>6. QED
    BY <1>1, <1>6, <2>2, <2>3, <2>4, <2>5
<1>10. CASE ~job.skipNul
  <2>1. Probed(v, passLen) = v /\ Probed(v + 1, passLen) = v + 1
    BY <1>10 DEF Probed
  <2>2. word' = word + 1 /\ workThread' = IF workThread < NumOfThreads THEN workThread + 1 ELSE 1
    BY <1>2, <1>10
  <2>3. LoopNext
    BY <1>1, <1>6, <2>1, <2>2 DEF LoopNext
  <2>4. NumOfThreads \in Nat \ {0} /\ word \in Nat \ {0} /\ FirstWord = 1
    BY <1>2, <1>4, <1>5, <1>6, <1>10, <2>1 DEF FirstWord
  <2>5. workThread = ((word - 1) % NumOfThreads) + 1
    BY <1>2, <1>3, <1>4, <1>10, <2>4 DEF TurnFollowsWord
  <2>6. workThread' = ((word' - 1) % NumOfThreads) + 1 /\ workThread' \in 1 .. NumOfThreads
    BY <2>2, <2>4, <2>5, NextTurn
  <2>7. TurnNext
    <3>1. workThread' \in 1 .. job.threads
      BY <1>4, <2>4, <2>6
    <3>2. QED
      BY <1>4, <2>2, <2>4, <2>6, <3>1 DEF TurnNext
  <2>8. QED
    BY <1>1, <1>6, <2>1, <2>2, <2>3, <2>7
<1>11. QED
  BY <1>2, <1>8, <1>9, <1>10

LEMMA CarryStep ==
  ASSUME LoopInv, Carry
  PROVE  /\ CellsNext /\ LoopNext /\ TurnNext
         /\ word' = word /\ pc' # "end"
<1>1. /\ pc = "inner" /\ li >= DictLen /\ ti' = ti - 1 /\ pc' = "outer"
      /\ passLen' = passLen /\ li' = li /\ workThread' = workThread /\ word' = word
  BY DEF Carry
<1>2. CellsOK /\ TypeOK /\ DictInv /\ LoopOK /\ TurnFollowsWord
  BY DEF LoopInv
<1>3. /\ DictOK /\ job \in Jobs /\ attempt \in Attempts
      /\ job.last \in Nat \ {0} /\ passLen \in 1 .. job.last /\ passLen \in job.first .. job.last
      /\ DictLen \in Nat /\ li \in 0 .. DictLen
      /\ workThread \in 1 .. job.threads /\ word \in Nat
  BY <1>2, Types
<1>4. /\ ti \in 0 .. passLen - 1 /\ ti \in 0 .. job.last - 1 /\ li = Digit(attempt[ti])
      /\ \A z \in ti + 1 .. passLen - 1 : attempt[z] = FirstChar
      /\ word = Probed(ComingAt(ti, attempt, passLen), passLen)
  <2>1. /\ ti >= 0 /\ li = IndexOfChar(attempt[ti]) + 1 /\ ti < passLen
        /\ \A z \in ti + 1 .. passLen - 1 : attempt[z] = FirstChar
        /\ word = Probed(ComingAt(ti, attempt, passLen), passLen)
    BY <1>1, <1>2 DEF LoopOK, CellsOK
  <2>2. ti \in -1 .. job.last - 1
    BY <1>2, Types
  <2>3. QED
    BY <1>3, <2>1, <2>2 DEF Digit
<1>5. li = DictLen /\ Digit(attempt[ti]) = DictLen
  BY <1>1, <1>3, <1>4
<1>6. attempt' = [attempt EXCEPT ![ti] = FirstChar]
  <2>1. attempt' = [attempt EXCEPT ![ti] = IF DictLen = 0 THEN Nul ELSE DictChar(0)]
    BY <1>5 DEF Carry
  <2>2. QED
    BY <2>1 DEF FirstChar
<1>7. /\ attempt' \in Attempts /\ attempt'[ti] = FirstChar
      /\ \A z \in 0 .. job.last - 1 : z # ti => attempt'[z] = attempt[z]
  <2>1. PICK c \in Range(result) \cup {Nul} : c = FirstChar
    BY <1>3, FirstDigit
  <2>2. attempt' = [attempt EXCEPT ![ti] = c]
    BY <1>6, <2>1
  <2>3. /\ [attempt EXCEPT ![ti] = c] \in Attempts
        /\ [attempt EXCEPT ![ti] = c][ti] = c
        /\ \A z \in 0 .. job.last - 1 : z # ti => [attempt EXCEPT ![ti] = c][z] = attempt[z]
    BY <1>2, <1>4, Written
  <2>4. QED
    BY <2>1, <2>2, <2>3
<1>8. \A z \in ti' + 1 .. passLen - 1 : attempt'[z] = FirstChar
  <2> SUFFICES ASSUME NEW z \in ti' + 1 .. passLen - 1 PROVE attempt'[z] = FirstChar
    OBVIOUS
  <2>1. z = ti \/ (z \in ti + 1 .. passLen - 1 /\ z \in 0 .. job.last - 1 /\ z # ti)
    BY <1>1, <1>3, <1>4
  <2>2. QED
    BY <1>4, <1>7, <2>1
<1>9. CellsNext
  <2>1. \A z \in passLen .. job.last - 1 : attempt'[z] = Nul
    BY <1>2, <1>3, <1>4, <1>7 DEF CellsOK
  <2>2. ASSUME NEW z \in 1 .. passLen - 2, attempt'[z - 1] # Nul
        PROVE  attempt'[z] # Nul
    <3>1. z \in 0 .. job.last - 1 /\ z - 1 \in 0 .. job.last - 1
      BY <1>3
    <3>2. DictLen > 0
      <4>1. attempt'[z - 1] \in Range(result)
        BY <1>7, <2>2, <3>1 DEF Attempts
      <4>2. QED
        BY <1>3, <4>1, FirstDigit
    <3>3. FirstChar # Nul
      BY <1>3, <3>2, FirstDigit
    <3>4. CASE z >= ti
      <4>1. z \in ti' + 1 .. passLen - 1
        BY <1>1, <1>3, <1>4, <3>4
      <4>2. QED
        BY <1>8, <3>3, <4>1
    <3>5. CASE z < ti
      <4>1. attempt'[z] = attempt[z] /\ attempt'[z - 1] = attempt[z - 1]
        BY <1>4, <1>7, <3>1, <3>5
      <4>2. QED
        BY <1>2, <2>2, <4>1 DEF CellsOK
    <3>6. QED
      BY <1>4, <3>1, <3>4, <3>5
  <2>3. ti' \in Int /\ ti' >= -1 /\ ti' < passLen
    BY <1>1, <1>3, <1>4
  <2>4. QED
    BY <1>1, <1>3, <1>7, <2>1, <2>2, <2>3 DEF CellsNext
<1>10. ComingAt(ti', attempt', passLen) = ComingAt(ti, attempt, passLen)
  <2>1. \A z \in 0 .. ti - 1 : attempt'[z] = attempt[z]
    BY <1>3, <1>4, <1>7
  <2>2. ComingAt(ti - 1, attempt', passLen) = ComingAt(ti, attempt, passLen)
    BY <1>3, <1>4, <1>5, <1>7, <2>1, ComingAfterCarry
  <2>3. QED
    BY <1>1, <2>2
<1>11. LoopNext
  BY <1>1, <1>3, <1>4, <1>8, <1>10 DEF LoopNext
<1>12. TurnNext
  BY <1>1, <1>2, <1>3 DEF TurnNext, TurnFollowsWord
<1>13. QED
  BY <1>1, <1>9, <1>11, <1>12

\* The next length begins with the word behind the last one, and after the
\* last length nothing is left.
LEMMA LengthDoneStep ==
  ASSUME LoopInv, LengthDone
  PROVE  /\ CellsNext /\ LoopNext /\ TurnNext /\ word' = word
         /\ pc' = "end" => word' = LastWord[job.last] + 1
<1>1. /\ pc = "outer" /\ ti <= -1
      /\ IF passLen < job.last
           THEN passLen' = passLen + 1 /\ ti' = passLen /\ pc' = pc
           ELSE pc' = "end" /\ passLen' = passLen /\ ti' = ti
      /\ attempt' = attempt /\ li' = li /\ workThread' = workThread /\ word' = word
  BY DEF LengthDone
<1>2. CellsOK /\ TypeOK /\ DictInv /\ LoopOK /\ TurnFollowsWord
  BY DEF LoopInv
<1>3. /\ DictOK /\ job \in Jobs /\ attempt \in Attempts
      /\ job.last \in Nat \ {0} /\ job.first \in Nat \ {0}
      /\ passLen \in 1 .. job.last /\ passLen \in job.first .. job.last
      /\ DictLen \in Nat /\ li \in 0 .. DictLen /\ ti \in -1 .. job.last - 1
      /\ workThread \in 1 .. job.threads /\ word \in Nat
  BY <1>2, Types
<1>4. ti = -1 /\ \A z \in 0 .. passLen - 1 : attempt[z] = FirstChar
  <2>1. ti = -1
    BY <1>1, <1>3
  <2>2. \A z \in ti + 1 .. passLen - 1 : attempt[z] = FirstChar
    BY <1>1, <1>2 DEF LoopOK
  <2>3. ti + 1 = 0
    BY <2>1
  <2>4. QED
    BY <2>1, <2>2, <2>3
<1>5. PICK last \in Nat : last = LastWord[passLen]
  <2>1. passLen \in Nat
    BY <1>3
  <2>2. QED
    BY <1>3, <2>1, LastType
<1>6. word = last + 1
  <2>1. word = Probed(ComingAt(-1, attempt, passLen), passLen)
    BY <1>1, <1>2, <1>4 DEF LoopOK
  <2>2. ComingAt(-1, attempt, passLen) = last + 1
    BY <1>3, <1>5, ComingAtEnd
  <2>3. LastWord[passLen - 1] \in Nat /\ LastWord[passLen - 1] <= last
    <3>1. passLen - 1 \in Nat /\ (passLen - 1) + 1 = passLen
      BY <1>3
    <3>2. LastWord[passLen - 1] \in Nat /\ LastWord[passLen - 1] <= LastWord[(passLen - 1) + 1]
      BY <1>3, <3>1, LastType
    <3>3. QED
      BY <1>5, <3>1, <3>2
  <2>4. ~(last + 1 <= LastWord[passLen - 1])
    BY <1>5, <2>3
  <2>5. QED
    BY <2>1, <2>2, <2>4 DEF Probed
<1>7. TurnNext
  BY <1>1, <1>2, <1>3 DEF TurnNext, TurnFollowsWord
<1>8. CASE passLen < job.last
  <2>1. passLen' = passLen + 1 /\ ti' = passLen /\ pc' = "outer"
    BY <1>1, <1>8
  <2>2. CellsNext
    <3>1. passLen + 1 \in job.first .. job.last
      BY <1>3, <1>8
    <3>2. \A z \in passLen + 1 .. job.last - 1 : attempt[z] = Nul
      BY <1>2, <1>3, <1>8 DEF CellsOK
    <3>3. ASSUME NEW z \in 1 .. (passLen + 1) - 2, attempt[z - 1] # Nul
          PROVE  attempt[z] # Nul
      <4>1. z \in 0 .. passLen - 1 /\ z - 1 \in 0 .. passLen - 1
        BY <1>3
      <4>2. QED
        BY <1>4, <3>3, <4>1
    <3>4. passLen \in Int /\ passLen >= -1 /\ passLen < passLen + 1
      BY <1>3
    <3>5. QED
      BY <1>1, <1>3, <2>1, <3>1, <3>2, <3>3, <3>4 DEF CellsNext
  <2>3. ComingAt(passLen, attempt, passLen + 1) = last + 1
    <3>1. attempt[passLen] = Nul
      <4>1. passLen \in passLen .. job.last - 1
        BY <1>3, <1>8
      <4>2. QED
        BY <1>2, <4>1 DEF CellsOK
    <3>2. \A z \in 0 .. passLen - 1 : DictLen > 0 => Digit(attempt[z]) = 1
      BY <1>3, <1>4, FirstDigit
    <3>3. QED
      BY <1>3, <1>5, <1>8, <3>1, <3>2, ComingAtEnd
  <2>4. Probed(last + 1, passLen + 1) = last + 1
    <3>1. (passLen + 1) - 1 = passLen
      BY <1>3
    <3>2. ~(last + 1 <= LastWord[(passLen + 1) - 1])
      BY <1>5, <3>1
    <3>3. QED
      BY <3>2 DEF Probed
  <2>5. LoopNext
    <3>1. \A z \in passLen + 1 .. (passLen + 1) - 1 : FALSE
      BY <1>3
    <3>2. word' = Probed(ComingAt(ti', attempt', passLen'), passLen')
      BY <1>1, <1>6, <2>1, <2>3, <2>4
    <3>3. QED
      BY <1>1, <1>3, <2>1, <3>1, <3>2 DEF LoopNext
  <2>6. QED
    BY <1>1, <1>7, <2>1, <2>2, <2>5
<1>9. CASE ~(passLen < job.last)
  <2>1. pc' = "end" /\ passLen' = passLen /\ ti' = ti /\ passLen = job.last
    BY <1>1, <1>3, <1>9
  <2>2. CellsNext
    BY <1>1, <1>2, <1>3, <1>4, <2>1 DEF CellsNext, CellsOK
  <2>3. LoopNext
    BY <1>1, <1>3, <2>1 DEF LoopNext
  <2>4. QED
    BY <1>1, <1>5, <1>6, <1>7, <2>1, <2>2, <2>3
<1>10. QED
  BY <1>8, <1>9

LEMMA LoopUnchanged ==
  ASSUME LoopInv, UNCHANGED vars
  PROVE  LoopInv'
<1>1. UNCHANGED dictVars /\ UNCHANGED <<job, attempt, passLen, ti, li, pc, workThread, word>>
  BY DEF vars
<1>2. /\ DictInv' /\ DictTypeOK' /\ result' = result /\ stage' = stage
  <2>1. DictInv'
    BY <1>1, DictUnchanged DEF LoopInv
  <2>2. QED
    BY <1>1, <2>1 DEF dictVars, DictInv
<1>3. /\ WordIn' = WordIn /\ LastWord' = LastWord /\ LastFrom' = LastFrom
      /\ DictLen' = DictLen /\ Attempts' = Attempts /\ \A z : result'[z] = result[z]
  BY <1>1, <1>2, Frozen
<1>4. TypeOK /\ WaitOK /\ CellsOK /\ LoopOK /\ TurnFollowsWord
  BY DEF LoopInv
<1>5. TypeOK' /\ WaitOK' /\ CellsOK'
  BY <1>1, <1>2, <1>3, <1>4 DEF TypeOK, WaitOK, CellsOK
<1>6. LoopOK'
  BY <1>1, <1>2, <1>3, <1>4 DEF LoopOK, FirstChar, DictChar, IndexOfChar, Probed, ComingAt
<1>7. TurnFollowsWord'
  BY <1>1, <1>2, <1>3, <1>4 DEF TurnFollowsWord, FirstWord, NumOfThreads
<1>8. QED
  BY <1>2, <1>5, <1>6, <1>7 DEF LoopInv

\* Each step, and what it probes.
LEMMA NextStep ==
  ASSUME LoopInv, [Next]_vars
  PROVE  /\ LoopInv'
         /\ Probes => /\ NulsInFront(attempt')
                      /\ word' = word + 1 /\ WordIn[passLen][attempt'] = word
         /\ pc # "end" /\ pc' = "end" => word' = LastWord[job.last] + 1
<1>1. WaitOK
  BY DEF LoopInv
<1>2. CASE PrepareDictionary
  <2>1. LoopInv' /\ word' = word /\ pc' = pc
    BY <1>2, PrepareStep DEF PrepareDictionary
  <2>2. QED
    BY <2>1 DEF Probes
<1>3. CASE Start
  <2>1. stage = "done" /\ pc = "wait" /\ UNCHANGED dictVars /\ job' = job
    BY <1>3 DEF Start
  <2>2. QED
    BY <1>3, <2>1, StartStep, Steps DEF Probes
<1>4. CASE Outer
  <2>1. pc = "outer" /\ pc' = "inner" /\ word' = word /\ UNCHANGED dictVars /\ job' = job
    BY <1>4 DEF Outer
  <2>2. stage = "done"
    BY <1>1, <2>1 DEF WaitOK
  <2>3. QED
    BY <1>4, <2>1, <2>2, OuterStep, Steps DEF Probes
<1>5. CASE Inner
  <2>1. pc = "inner" /\ UNCHANGED dictVars /\ job' = job
    BY <1>5 DEF Inner
  <2>2. stage = "done"
    BY <1>1, <2>1 DEF WaitOK
  <2>3. QED
    BY <1>5, <2>1, <2>2, InnerStep, Steps DEF Probes
<1>6. CASE Carry
  <2>1. pc = "inner" /\ UNCHANGED dictVars /\ job' = job
    BY <1>6 DEF Carry
  <2>2. stage = "done"
    BY <1>1, <2>1 DEF WaitOK
  <2>3. QED
    BY <1>6, <2>1, <2>2, CarryStep, Steps DEF Probes
<1>7. CASE LengthDone
  <2>1. pc = "outer" /\ UNCHANGED dictVars /\ job' = job
    BY <1>7 DEF LengthDone
  <2>2. stage = "done"
    BY <1>1, <2>1 DEF WaitOK
  <2>3. QED
    BY <1>7, <2>1, <2>2, LengthDoneStep, Steps DEF Probes
<1>8. CASE UNCHANGED vars
  <2>1. word' = word /\ pc' = pc
    BY <1>8 DEF vars
  <2>2. QED
    BY <1>8, <2>1, LoopUnchanged DEF Probes
<1>9. QED
  BY <1>2, <1>3, <1>4, <1>5, <1>6, <1>7, <1>8 DEF Next, Ended

-----------------------------------------------------------------------------
(* What the dictionary means                                                *)

\* The characters that a text stands for if only the classes in C are expanded.
CoveredIn(s, C, k) ==
  \E c \in C : \E j \in 1 .. k : OccursAt(s, Templates[c], j) /\ k < j + Len(Templates[c])

MeantIn(s, C) ==
  (UNION {Range(Expansions[c]) : c \in {d \in C : Occurs(s, Templates[d])}})
    \cup {s[k] : k \in {j \in 1 .. Len(s) : ~CoveredIn(s, C, j)}}

Classes == 1 .. 3

\* An occurrence of a template, character by character.
LEMMA OccursAtIs ==
  ASSUME NEW s \in Seq(Chars), NEW c \in Classes, NEW j \in Nat \ {0}
  PROVE  OccursAt(s, Templates[c], j) <=>
           /\ j + 2 <= Len(s)
           /\ s[j] = Templates[c][1] /\ s[j + 1] = Templates[c][2] /\ s[j + 2] = Templates[c][3]
<1> DEFINE t == Templates[c]
           u == SubSeq(s, j, j + 2)
<1>1. t \in Seq(Range(t)) /\ Len(t) = 3
  BY DictionaryAssumption, TemplatesAssumption DEF Classes
<1>2. j + Len(t) - 1 = j + 2 /\ Len(s) \in Nat
  BY <1>1
<1> HIDE DEF t
<1>3. OccursAt(s, t, j) <=> j + 2 <= Len(s) /\ u = t
  BY <1>2 DEF OccursAt
<1>4. ASSUME j + 2 <= Len(s)
      PROVE  u = t <=> s[j] = t[1] /\ s[j + 1] = t[2] /\ s[j + 2] = t[3]
  <2>1. u \in Seq(Chars) /\ Len(u) = 3 /\ u[1] = s[j] /\ u[2] = s[j + 1] /\ u[3] = s[j + 2]
    BY <1>2, <1>4, SubSeqProperties
  <2>2. u = t <=> u[1] = t[1] /\ u[2] = t[2] /\ u[3] = t[3]
    <3> HIDE DEF u
    <3>1. u = [i \in 1 .. 3 |-> u[i]] /\ t = [i \in 1 .. 3 |-> t[i]]
      BY <1>1, <2>1
    <3>2. \A i \in 1 .. 3 : i = 1 \/ i = 2 \/ i = 3
      OBVIOUS
    <3>3. QED
      BY <3>1, <3>2
  <2>3. QED
    BY <2>1, <2>2
<1>5. QED
  BY <1>3, <1>4 DEF t

\* Text v is text s with the expansion in place of the template of class c
\* behind position p.
Exchanged(s, v, c, p) ==
  LET e == Len(Expansions[c])
  IN  /\ s \in Seq(Chars) /\ v \in Seq(Chars) /\ p \in Nat /\ p + 3 <= Len(s)
      /\ Len(v) = (Len(s) - 3) + e
      /\ OccursAt(s, Templates[c], p + 1)
      /\ \A k \in 1 .. p : v[k] = s[k]
      /\ \A k \in 1 .. e : v[p + k] = Expansions[c][k]
      /\ \A k \in p + 4 .. Len(s) : v[(k - 3) + e] = s[k]

LEMMA ExpansionType ==
  ASSUME NEW c \in Classes
  PROVE  Len(Expansions[c]) \in Nat \ {0} /\ \A k \in 1 .. Len(Expansions[c]) : Expansions[c][k] \in Range(Expansions[c])
<1>1. Expansions[c] \in Seq(Chars) /\ Len(Expansions[c]) > 0
  BY DictionaryAssumption, TemplatesAssumption DEF Classes
<1>2. QED
  BY <1>1 DEF Range

\* No template overlaps the one that is exchanged, or what takes its place.
LEMMA NoOverlap ==
  ASSUME NEW c \in Classes, NEW d \in Classes, NEW s, NEW v, NEW p, Exchanged(s, v, c, p)
  PROVE  /\ \A j \in 1 .. Len(s) : OccursAt(s, Templates[d], j) =>
              j + 2 <= p \/ j >= p + 4 \/ (j = p + 1 /\ d = c)
         /\ \A j \in 1 .. Len(v) : OccursAt(v, Templates[d], j) =>
              j + 2 <= p \/ j >= p + Len(Expansions[c]) + 1
         /\ \A j \in 1 .. Len(s) : j + 2 <= p \/ j >= p + 4 =>
              (OccursAt(s, Templates[d], j) <=>
               OccursAt(v, Templates[d], IF j + 2 <= p THEN j ELSE (j - 3) + Len(Expansions[c])))
<1> DEFINE e == Len(Expansions[c])
<1>1. e \in Nat \ {0} /\ \A k \in 1 .. e : Expansions[c][k] \in Range(Expansions[c])
  BY ExpansionType
<1>2. /\ s \in Seq(Chars) /\ v \in Seq(Chars) /\ p \in Nat /\ p + 3 <= Len(s)
      /\ Len(s) \in Nat /\ Len(v) \in Nat /\ Len(v) = (Len(s) - 3) + e
      /\ OccursAt(s, Templates[c], p + 1)
      /\ \A k \in 1 .. p : v[k] = s[k]
      /\ \A k \in 1 .. e : v[p + k] = Expansions[c][k]
      /\ \A k \in p + 4 .. Len(s) : v[(k - 3) + e] = s[k]
  BY DEF Exchanged
<1>3. s[p + 1] = Templates[c][1] /\ s[p + 2] = Templates[c][2] /\ s[p + 3] = Templates[c][3]
  <2>1. p + 1 \in Nat \ {0} /\ (p + 1) + 1 = p + 2 /\ (p + 1) + 2 = p + 3
    BY <1>2
  <2>2. QED
    BY <1>2, <2>1, OccursAtIs
<1>4. /\ Templates[d][2] \notin Range(Expansions[c])
      /\ Templates[d][1] \notin {Templates[c][2], Templates[c][3], Expansions[c][e]}
      /\ Templates[d][3] \notin {Templates[c][2], Expansions[c][1]}
      /\ Templates[c][1] \notin {Templates[d][2], Templates[d][3]}
      /\ Templates[c][3] # Templates[d][2]
  BY TemplatesAssumption DEF Classes
<1> HIDE DEF e
<1>5. ASSUME NEW j \in 1 .. Len(s), OccursAt(s, Templates[d], j)
      PROVE  j + 2 <= p \/ j >= p + 4 \/ (j = p + 1 /\ d = c)
  <2>1. /\ j + 2 <= Len(s) /\ s[j] = Templates[d][1]
        /\ s[j + 1] = Templates[d][2] /\ s[j + 2] = Templates[d][3]
    BY <1>2, <1>5, OccursAtIs
  <2>2. j + 2 # p + 1 /\ j + 1 # p + 1 /\ j + 1 # p + 3 /\ j # p + 3
    BY <1>2, <1>3, <1>4, <2>1
  <2>3. j = p + 1 => d = c
    <3> SUFFICES ASSUME j = p + 1 PROVE d = c
      OBVIOUS
    <3>1. OccursAt(s, Templates[d], p + 1)
      BY <1>5
    <3>2. Templates[c] = Templates[d]
      BY <1>2, <3>1, TemplatesAssumption DEF OccursAt, Classes
    <3>3. QED
      BY <3>2, TemplatesAssumption DEF Classes
  <2>4. QED
    BY <1>2, <2>2, <2>3
<1>6. ASSUME NEW j \in 1 .. Len(v), OccursAt(v, Templates[d], j)
      PROVE  j + 2 <= p \/ j >= p + e + 1
  <2>1. /\ j + 2 <= Len(v) /\ v[j] = Templates[d][1]
        /\ v[j + 1] = Templates[d][2] /\ v[j + 2] = Templates[d][3]
    BY <1>2, <1>6, OccursAtIs
  <2>2. \A k \in p + 1 .. p + e : v[k] = Expansions[c][k - p] /\ k - p \in 1 .. e
    <3>1. \A k \in p + 1 .. p + e : k - p \in 1 .. e /\ p + (k - p) = k
      BY <1>1, <1>2
    <3>2. QED
      BY <1>2, <3>1
  <2>3. j + 1 \notin p + 1 .. p + e
    BY <1>1, <1>4, <2>1, <2>2
  <2>4. j + 2 # p + 1
    <3>1. v[p + 1] = Expansions[c][1]
      BY <1>1, <1>2
    <3>2. QED
      BY <1>4, <2>1, <3>1
  <2>5. j # p + e
    <3>1. e \in 1 .. e
      BY <1>1
    <3>2. v[p + e] = Expansions[c][e]
      BY <1>2, <3>1
    <3>3. QED
      BY <1>4, <2>1, <3>2
  <2>6. QED
    BY <1>1, <1>2, <2>3, <2>4, <2>5
<1>7. ASSUME NEW j \in 1 .. Len(s), j + 2 <= p
      PROVE  OccursAt(s, Templates[d], j) <=> OccursAt(v, Templates[d], j)
  <2>1. j \in 1 .. p /\ j + 1 \in 1 .. p /\ j + 2 \in 1 .. p
    BY <1>2, <1>7
  <2>2. v[j] = s[j] /\ v[j + 1] = s[j + 1] /\ v[j + 2] = s[j + 2]
    BY <1>2, <2>1
  <2>3. j \in Nat \ {0} /\ j + 2 <= Len(s) /\ j + 2 <= Len(v)
    BY <1>1, <1>2, <1>7
  <2>4. QED
    BY <1>2, <2>2, <2>3, OccursAtIs
<1>8. ASSUME NEW j \in 1 .. Len(s), j >= p + 4
      PROVE  OccursAt(s, Templates[d], j) <=> OccursAt(v, Templates[d], (j - 3) + e)
  <2> DEFINE i == (j - 3) + e
  <2>1. i \in Nat \ {0} /\ (j + 2 <= Len(s) <=> i + 2 <= Len(v))
    BY <1>1, <1>2, <1>8
  <2>2. j + 2 <= Len(s) => v[i] = s[j] /\ v[i + 1] = s[j + 1] /\ v[i + 2] = s[j + 2]
    <3> SUFFICES ASSUME j + 2 <= Len(s) PROVE v[i] = s[j] /\ v[i + 1] = s[j + 1] /\ v[i + 2] = s[j + 2]
      OBVIOUS
    <3>1. j \in p + 4 .. Len(s) /\ j + 1 \in p + 4 .. Len(s) /\ j + 2 \in p + 4 .. Len(s)
      BY <1>2, <1>8
    <3>2. ((j + 1) - 3) + e = i + 1 /\ ((j + 2) - 3) + e = i + 2
      BY <1>1
    <3> HIDE DEF i
    <3>3. v[i] = s[j]
      BY <1>2, <3>1 DEF i
    <3>4. v[i + 1] = s[j + 1]
      BY <1>2, <3>1, <3>2
    <3>5. v[i + 2] = s[j + 2]
      BY <1>2, <3>1, <3>2
    <3>6. QED
      BY <3>3, <3>4, <3>5
  <2> HIDE DEF i
  <2>3. j \in Nat \ {0}
    OBVIOUS
  <2>4. OccursAt(s, Templates[d], j) <=>
          /\ j + 2 <= Len(s) /\ s[j] = Templates[d][1]
          /\ s[j + 1] = Templates[d][2] /\ s[j + 2] = Templates[d][3]
    BY <1>2, <2>3, OccursAtIs
  <2>5. OccursAt(v, Templates[d], i) <=>
          /\ i + 2 <= Len(v) /\ v[i] = Templates[d][1]
          /\ v[i + 1] = Templates[d][2] /\ v[i + 2] = Templates[d][3]
    BY <1>2, <2>1, OccursAtIs
  <2>6. OccursAt(s, Templates[d], j) <=> OccursAt(v, Templates[d], i)
    BY <2>1, <2>2, <2>4, <2>5
  <2>7. QED
    BY <2>6 DEF i
<1>9. ASSUME NEW j \in 1 .. Len(s), j + 2 <= p \/ j >= p + 4
      PROVE  OccursAt(s, Templates[d], j) <=>
               OccursAt(v, Templates[d], IF j + 2 <= p THEN j ELSE (j - 3) + e)
  BY <1>2, <1>7, <1>8, <1>9
<1>10. QED
  BY <1>5, <1>6, <1>9 DEF e

\* The positions of s and v that correspond are covered alike, those of the
\* template are covered, and those of the expansion are not.
LEMMA SameCover ==
  ASSUME NEW C, C \subseteq Classes, NEW c \in C, NEW s, NEW v, NEW p, Exchanged(s, v, c, p)
  PROVE  /\ \A k \in 1 .. p : CoveredIn(s, C, k) <=> CoveredIn(v, C, k)
         /\ \A k \in p + 4 .. Len(s) :
              CoveredIn(s, C, k) <=> CoveredIn(v, C, (k - 3) + Len(Expansions[c]))
         /\ \A k \in p + 1 .. p + 3 : CoveredIn(s, C, k)
         /\ \A k \in p + 1 .. p + Len(Expansions[c]) : ~CoveredIn(v, C, k)
<1> DEFINE e == Len(Expansions[c])
<1>1. /\ e \in Nat \ {0} /\ p \in Nat /\ p + 3 <= Len(s) /\ Len(s) \in Nat /\ Len(v) \in Nat
      /\ Len(v) = (Len(s) - 3) + e /\ OccursAt(s, Templates[c], p + 1)
  BY ExpansionType DEF Exchanged
<1>2. \A d \in C : Len(Templates[d]) = 3
  BY TemplatesAssumption DEF Classes
<1>3. ASSUME NEW d \in C
      PROVE  /\ \A j \in 1 .. Len(s) : OccursAt(s, Templates[d], j) =>
                   j + 2 <= p \/ j >= p + 4 \/ (j = p + 1 /\ d = c)
             /\ \A j \in 1 .. Len(v) : OccursAt(v, Templates[d], j) =>
                   j + 2 <= p \/ j >= p + e + 1
             /\ \A j \in 1 .. Len(s) : j + 2 <= p \/ j >= p + 4 =>
                   (OccursAt(s, Templates[d], j) <=>
                    OccursAt(v, Templates[d], IF j + 2 <= p THEN j ELSE (j - 3) + e))
  BY NoOverlap
<1> HIDE DEF e
<1>4. ASSUME NEW k \in 1 .. p
      PROVE  CoveredIn(s, C, k) <=> CoveredIn(v, C, k)
  <2>1. ASSUME NEW d \in C, NEW j \in 1 .. k, k < j + 3
        PROVE  OccursAt(s, Templates[d], j) <=> OccursAt(v, Templates[d], j)
    <3>1. j \in 1 .. Len(s) /\ j \in 1 .. Len(v) /\ j <= p /\ j \in Nat
      BY <1>1
    <3>2. CASE j + 2 <= p
      BY <1>3, <3>1, <3>2
    <3>3. CASE ~(j + 2 <= p)
      <4>1. ~OccursAt(s, Templates[d], j)
        BY <1>1, <1>3, <3>1, <3>3
      <4>2. ~OccursAt(v, Templates[d], j)
        BY <1>1, <1>3, <3>1, <3>3
      <4>3. QED
        BY <4>1, <4>2
    <3>4. QED
      BY <3>2, <3>3
  <2>2. QED
    BY <1>2, <2>1 DEF CoveredIn
<1>5. ASSUME NEW k \in p + 4 .. Len(s)
      PROVE  CoveredIn(s, C, k) <=> CoveredIn(v, C, (k - 3) + e)
  <2> DEFINE m == (k - 3) + e
  <2>1. k \in Nat /\ m \in Nat /\ m >= p + e + 1
    BY <1>1
  <2>2. ASSUME CoveredIn(s, C, k)
        PROVE  CoveredIn(v, C, m)
    <3>1. PICK d \in C, j \in 1 .. k : OccursAt(s, Templates[d], j) /\ k < j + 3
      BY <1>2, <2>2 DEF CoveredIn
    <3>2. j \in 1 .. Len(s) /\ j \in Nat
      BY <1>1
    <3>3. j >= p + 4
      BY <1>1, <1>3, <2>1, <3>1, <3>2
    <3> DEFINE i == (j - 3) + e
    <3>4. OccursAt(v, Templates[d], i)
      BY <1>1, <1>3, <3>1, <3>2, <3>3
    <3>5. i \in 1 .. m /\ m < i + 3
      BY <1>1, <2>1, <3>1, <3>2, <3>3
    <3> HIDE DEF i, m
    <3>6. QED
      BY <1>2, <3>4, <3>5 DEF CoveredIn
  <2>3. ASSUME CoveredIn(v, C, m)
        PROVE  CoveredIn(s, C, k)
    <3>1. PICK d \in C, i \in 1 .. m : OccursAt(v, Templates[d], i) /\ m < i + 3
      BY <1>2, <2>3 DEF CoveredIn
    <3>2. i \in 1 .. Len(v) /\ i \in Nat
      BY <1>1, <2>1
    <3>3. i >= p + e + 1
      <4>1. i + 2 <= p \/ i >= p + e + 1
        BY <1>3, <3>1, <3>2
      <4>2. QED
        BY <1>1, <2>1, <3>1, <3>2, <4>1
    <3> DEFINE j == (i - e) + 3
    <3>4. j \in 1 .. Len(s) /\ j >= p + 4 /\ (j - 3) + e = i /\ ~(j + 2 <= p)
      BY <1>1, <3>2, <3>3
    <3>5. j \in 1 .. k /\ k < j + 3
      BY <1>1, <2>1, <3>1, <3>2, <3>3
    <3> HIDE DEF j, m
    <3>6. OccursAt(s, Templates[d], j)
      BY <1>3, <3>1, <3>4
    <3>7. QED
      BY <1>2, <3>5, <3>6 DEF CoveredIn
  <2>4. QED
    BY <2>2, <2>3
<1>6. ASSUME NEW k \in p + 1 .. p + 3
      PROVE  CoveredIn(s, C, k)
  <2>1. p + 1 \in 1 .. k /\ k < (p + 1) + 3
    BY <1>1
  <2>2. QED
    BY <1>1, <1>2, <2>1 DEF CoveredIn
<1>7. ASSUME NEW k \in p + 1 .. p + e
      PROVE  ~CoveredIn(v, C, k)
  <2> SUFFICES ASSUME NEW d \in C, NEW i \in 1 .. k, OccursAt(v, Templates[d], i), k < i + 3
               PROVE  FALSE
    BY <1>2 DEF CoveredIn
  <2>1. i \in 1 .. Len(v) /\ i \in Nat /\ k \in Nat
    BY <1>1
  <2>2. i + 2 <= p \/ i >= p + e + 1
    BY <1>3, <2>1
  <2>3. QED
    BY <1>1, <2>1, <2>2
<1>8. QED
  BY <1>4, <1>5, <1>6, <1>7 DEF e

LEMMA MeantMember ==
  ASSUME NEW s, NEW C, NEW x
  PROVE  x \in MeantIn(s, C) <=>
           \/ \E d \in C : Occurs(s, Templates[d]) /\ x \in Range(Expansions[d])
           \/ \E k \in 1 .. Len(s) : ~CoveredIn(s, C, k) /\ x = s[k]
<1> DEFINE A == UNION {Range(Expansions[c]) : c \in {d \in C : Occurs(s, Templates[d])}}
           B == {s[k] : k \in {j \in 1 .. Len(s) : ~CoveredIn(s, C, j)}}
<1>1. x \in B <=> \E k \in 1 .. Len(s) : ~CoveredIn(s, C, k) /\ x = s[k]
  OBVIOUS
<1>2. x \in A <=> \E d \in C : Occurs(s, Templates[d]) /\ x \in Range(Expansions[d])
  OBVIOUS
<1>3. MeantIn(s, C) = A \cup B
  BY DEF MeantIn
<1> HIDE DEF A, B
<1>4. QED
  BY <1>1, <1>2, <1>3

\* So the exchange changes neither whether the other templates occur nor what
\* the text stands for.
LEMMA ExchangeKeeps ==
  ASSUME NEW C, C \subseteq Classes, NEW c \in C, NEW s, NEW v, NEW p, Exchanged(s, v, c, p)
  PROVE  /\ \A d \in Classes : d # c => (Occurs(s, Templates[d]) <=> Occurs(v, Templates[d]))
         /\ MeantIn(s, C) = MeantIn(v, C)
<1> DEFINE e == Len(Expansions[c])
<1>1. /\ e \in Nat \ {0} /\ p \in Nat /\ p + 3 <= Len(s) /\ Len(s) \in Nat /\ Len(v) \in Nat
      /\ Len(v) = (Len(s) - 3) + e /\ OccursAt(s, Templates[c], p + 1)
      /\ \A k \in 1 .. p : v[k] = s[k]
      /\ \A k \in 1 .. e : v[p + k] = Expansions[c][k]
      /\ \A k \in p + 4 .. Len(s) : v[(k - 3) + e] = s[k]
  BY ExpansionType DEF Exchanged
<1>2. Occurs(s, Templates[c])
  <2>1. p + 1 \in 1 .. Len(s)
    BY <1>1
  <2>2. QED
    BY <1>1, <2>1 DEF Occurs
<1>3. /\ \A k \in 1 .. p : CoveredIn(s, C, k) <=> CoveredIn(v, C, k)
      /\ \A k \in p + 4 .. Len(s) : CoveredIn(s, C, k) <=> CoveredIn(v, C, (k - 3) + e)
      /\ \A k \in p + 1 .. p + 3 : CoveredIn(s, C, k)
      /\ \A k \in p + 1 .. p + e : ~CoveredIn(v, C, k)
  BY SameCover
<1>4. Range(Expansions[c]) = {Expansions[c][k] : k \in 1 .. e}
  <2>1. Expansions[c] \in Seq(Chars)
    BY DictionaryAssumption DEF Classes
  <2>2. QED
    BY <2>1 DEF Range
<1>5. ASSUME NEW d \in Classes, d # c
      PROVE  Occurs(s, Templates[d]) <=> Occurs(v, Templates[d])
  <2>1. /\ \A j \in 1 .. Len(s) : OccursAt(s, Templates[d], j) => j + 2 <= p \/ j >= p + 4
        /\ \A j \in 1 .. Len(v) : OccursAt(v, Templates[d], j) => j + 2 <= p \/ j >= p + e + 1
        /\ \A j \in 1 .. Len(s) : j + 2 <= p \/ j >= p + 4 =>
              (OccursAt(s, Templates[d], j) <=>
               OccursAt(v, Templates[d], IF j + 2 <= p THEN j ELSE (j - 3) + e))
    BY <1>5, NoOverlap
  <2> HIDE DEF e
  <2>2. ASSUME NEW j \in 1 .. Len(s), OccursAt(s, Templates[d], j)
        PROVE  Occurs(v, Templates[d])
    <3> DEFINE i == IF j + 2 <= p THEN j ELSE (j - 3) + e
    <3>1. j + 2 <= p \/ j >= p + 4
      BY <2>1, <2>2
    <3>2. i \in 1 .. Len(v)
      BY <1>1, <3>1
    <3>3. OccursAt(v, Templates[d], i)
      BY <2>1, <2>2, <3>1
    <3>4. QED
      BY <3>2, <3>3 DEF Occurs
  <2>3. ASSUME NEW i \in 1 .. Len(v), OccursAt(v, Templates[d], i)
        PROVE  Occurs(s, Templates[d])
    <3> DEFINE j == IF i + 2 <= p THEN i ELSE (i - e) + 3
    <3>1. i + 2 <= p \/ i >= p + e + 1
      BY <2>1, <2>3
    <3>2. j \in 1 .. Len(s) /\ (j + 2 <= p \/ j >= p + 4)
          /\ i = (IF j + 2 <= p THEN j ELSE (j - 3) + e)
      <4>1. CASE i + 2 <= p
        BY <1>1, <4>1
      <4>2. CASE i >= p + e + 1
        <5>1. ~(i + 2 <= p)
          BY <1>1, <4>2
        <5>2. j = (i - e) + 3 /\ j >= p + 4 /\ ~(j + 2 <= p)
          BY <1>1, <4>2, <5>1
        <5>3. QED
          BY <1>1, <4>2, <5>2
      <4>3. QED
        BY <3>1, <4>1, <4>2
    <3> HIDE DEF j
    <3>3. OccursAt(s, Templates[d], j)
      BY <2>1, <2>3, <3>2
    <3>4. QED
      BY <3>2, <3>3 DEF Occurs
  <2>4. QED
    BY <2>2, <2>3 DEF Occurs
<1>6. ASSUME NEW x \in MeantIn(s, C)
      PROVE  x \in MeantIn(v, C)
  <2>1. CASE \E d \in C : d # c /\ Occurs(s, Templates[d]) /\ x \in Range(Expansions[d])
    BY <1>5, <2>1, MeantMember
  <2>2. CASE x \in Range(Expansions[c])
    <3>1. PICK k \in 1 .. e : x = Expansions[c][k]
      BY <1>4, <2>2
    <3>2. p + k \in 1 .. Len(v) /\ p + k \in p + 1 .. p + e /\ v[p + k] = x
      BY <1>1, <3>1
    <3>3. QED
      BY <1>3, <3>2, MeantMember
  <2>3. CASE \E k \in 1 .. Len(s) : ~CoveredIn(s, C, k) /\ x = s[k]
    <3>1. PICK k \in 1 .. Len(s) : ~CoveredIn(s, C, k) /\ x = s[k]
      BY <2>3
    <3>2. CASE k \in 1 .. p
      <4>1. k \in 1 .. Len(v) /\ v[k] = x /\ ~CoveredIn(v, C, k)
        BY <1>1, <1>3, <3>1, <3>2
      <4>2. QED
        BY <4>1, MeantMember
    <3>3. CASE k \in p + 4 .. Len(s)
      <4> DEFINE i == (k - 3) + e
      <4>1. i \in 1 .. Len(v)
        BY <1>1, <3>3
      <4>2. v[i] = x /\ ~CoveredIn(v, C, i)
        BY <1>1, <1>3, <3>1, <3>3
      <4> HIDE DEF i
      <4>3. QED
        BY <4>1, <4>2, MeantMember
    <3>4. k \in 1 .. p \/ k \in p + 4 .. Len(s)
      <4>1. k \notin p + 1 .. p + 3
        BY <1>3, <3>1
      <4>2. QED
        BY <1>1, <4>1
    <3>5. QED
      BY <3>2, <3>3, <3>4
  <2>4. QED
    BY <1>6, <2>1, <2>2, <2>3, MeantMember
<1>7. ASSUME NEW x \in MeantIn(v, C)
      PROVE  x \in MeantIn(s, C)
  <2>1. CASE \E d \in C : Occurs(v, Templates[d]) /\ x \in Range(Expansions[d])
    BY <1>2, <1>5, <2>1, MeantMember
  <2>2. CASE \E k \in 1 .. Len(v) : ~CoveredIn(v, C, k) /\ x = v[k]
    <3>1. PICK k \in 1 .. Len(v) : ~CoveredIn(v, C, k) /\ x = v[k]
      BY <2>2
    <3>2. CASE k \in 1 .. p
      <4>1. k \in 1 .. Len(s) /\ s[k] = x /\ ~CoveredIn(s, C, k)
        BY <1>1, <1>3, <3>1, <3>2
      <4>2. QED
        BY <4>1, MeantMember
    <3>3. CASE k \in p + 1 .. p + e
      <4>1. k - p \in 1 .. e /\ p + (k - p) = k
        BY <1>1, <3>3
      <4>2. x \in Range(Expansions[c])
        BY <1>1, <1>4, <3>1, <4>1
      <4>3. QED
        BY <1>2, <4>2, MeantMember
    <3>4. CASE k > p + e
      <4> DEFINE j == (k - e) + 3
      <4>1. j \in p + 4 .. Len(s) /\ j \in 1 .. Len(s) /\ (j - 3) + e = k
        <5>1. k \in Nat /\ k <= (Len(s) - 3) + e
          BY <1>1
        <5> HIDE DEF e
        <5>2. QED
          BY <1>1, <3>4, <5>1
      <4> HIDE DEF j
      <4>2. s[j] = x /\ ~CoveredIn(s, C, j)
        BY <1>1, <1>3, <3>1, <4>1
      <4>3. QED
        BY <4>1, <4>2, MeantMember
    <3>5. k \in 1 .. p \/ k \in p + 1 .. p + e \/ k > p + e
      BY <1>1
    <3>6. QED
      BY <3>2, <3>3, <3>4, <3>5
  <2>3. QED
    BY <1>7, <2>1, <2>2, MeantMember
<1>8. QED
  BY <1>5, <1>6, <1>7

\* A class without a template in the text makes no difference; without any
\* class every character stands for itself.
LEMMA AbsentClass ==
  ASSUME NEW s, NEW C, NEW c, ~Occurs(s, Templates[c])
  PROVE  MeantIn(s, C) = MeantIn(s, C \ {c})
<1>1. ASSUME NEW k \in 1 .. Len(s)
      PROVE  CoveredIn(s, C, k) <=> CoveredIn(s, C \ {c}, k)
  <2>1. ASSUME NEW j \in 1 .. k
        PROVE  ~OccursAt(s, Templates[c], j)
    <3>1. j \in 1 .. Len(s)
      OBVIOUS
    <3>2. QED
      BY <3>1 DEF Occurs
  <2>2. QED
    BY <2>1 DEF CoveredIn
<1>2. {d \in C : Occurs(s, Templates[d])} = {d \in C \ {c} : Occurs(s, Templates[d])}
  OBVIOUS
<1>3. {k \in 1 .. Len(s) : ~CoveredIn(s, C, k)} = {k \in 1 .. Len(s) : ~CoveredIn(s, C \ {c}, k)}
  BY <1>1
<1>4. QED
  BY <1>2, <1>3 DEF MeantIn

LEMMA NoClass ==
  ASSUME NEW s \in Seq(Chars)
  PROVE  MeantIn(s, {}) = Range(s)
<1>1. \A k : ~CoveredIn(s, {}, k)
  BY DEF CoveredIn
<1>2. \A x : x \in MeantIn(s, {}) <=> \E k \in 1 .. Len(s) : x = s[k]
  BY <1>1, MeantMember
<1>3. \A x : x \in Range(s) <=> \E k \in 1 .. Len(s) : x = s[k]
  BY DEF Range
<1>4. QED
  BY <1>2, <1>3

\* The text that prbf_str_replace makes of what it has written and what is left.
Replaced == tmp \o orig

\* What the text stands for is kept.  A class that is done has been expanded
\* where its template was; in the text that is being made no template of the
\* class begins in what is written.
MeaningInv ==
  /\ stage = "class" =>
       /\ MeantIn(text, class .. 3) = MeantIn(dict, Classes)
       /\ \A c \in class .. 3 : Occurs(text, Templates[c]) <=> Occurs(dict, Templates[c])
       /\ class > 1 => ~Occurs(dict, AsciiTpl)
  /\ stage = "replace" =>
       /\ MeantIn(Replaced, class .. 3) = MeantIn(dict, Classes)
       /\ \A c \in class + 1 .. 3 : Occurs(Replaced, Templates[c]) <=> Occurs(dict, Templates[c])
       /\ \A j \in 1 .. Len(tmp) : ~OccursAt(Replaced, Templates[class], j)
       /\ ~Occurs(dict, AsciiTpl)
  /\ stage = "unique" =>
       /\ Range(result) \cup Range(text) = MeantIn(dict, Classes)
       /\ ~Occurs(dict, AsciiTpl)
  /\ stage = "done" => Range(result) = Meant

LEMMA MeantIs == Meant = IF Occurs(dict, AsciiTpl) THEN Range(AsciiChars) ELSE MeantIn(dict, Classes)
<1>1. \A k \in 1 .. Len(dict) : Covered(k) <=> CoveredIn(dict, Classes, k)
  BY DEF Covered, CoveredIn, Classes
<1>2. {j \in 1 .. Len(dict) : ~Covered(j)} = {j \in 1 .. Len(dict) : ~CoveredIn(dict, Classes, j)}
  BY <1>1
<1>3. QED
  BY <1>2 DEF Meant, MeantIn, Classes

\* Behind a beginning a template occurs where it occurs in the rest.
LEMMA OccursBehind ==
  ASSUME NEW a \in Seq(Chars), NEW b \in Seq(Chars), NEW c \in Classes, NEW j \in Nat \ {0}
  PROVE  OccursAt(a \o b, Templates[c], Len(a) + j) <=> OccursAt(b, Templates[c], j)
<1> DEFINE s == a \o b
           i == Len(a) + j
<1>1. s \in Seq(Chars) /\ Len(s) = Len(a) + Len(b) /\ Len(a) \in Nat /\ Len(b) \in Nat
      /\ \A k \in 1 .. Len(a) + Len(b) : s[k] = IF k <= Len(a) THEN a[k] ELSE b[k - Len(a)]
  BY ConcatProperties
<1> HIDE DEF s
<1>2. i \in Nat \ {0} /\ (i + 2 <= Len(s) <=> j + 2 <= Len(b))
  BY <1>1
<1>3. j + 2 <= Len(b) => s[i] = b[j] /\ s[i + 1] = b[j + 1] /\ s[i + 2] = b[j + 2]
  <2> SUFFICES ASSUME j + 2 <= Len(b) PROVE s[i] = b[j] /\ s[i + 1] = b[j + 1] /\ s[i + 2] = b[j + 2]
    OBVIOUS
  <2>1. /\ i - Len(a) = j /\ (i + 1) - Len(a) = j + 1 /\ (i + 2) - Len(a) = j + 2
        /\ i \in 1 .. Len(a) + Len(b) /\ i + 1 \in 1 .. Len(a) + Len(b)
        /\ i + 2 \in 1 .. Len(a) + Len(b)
        /\ ~(i <= Len(a)) /\ ~(i + 1 <= Len(a)) /\ ~(i + 2 <= Len(a))
    BY <1>1
  <2> HIDE DEF i
  <2>2. QED
    BY <1>1, <2>1
<1> HIDE DEF i
<1>4. OccursAt(s, Templates[c], i) <=>
        i + 2 <= Len(s) /\ s[i] = Templates[c][1] /\ s[i + 1] = Templates[c][2] /\ s[i + 2] = Templates[c][3]
  BY <1>1, <1>2, OccursAtIs
<1>5. OccursAt(b, Templates[c], j) <=>
        j + 2 <= Len(b) /\ b[j] = Templates[c][1] /\ b[j + 1] = Templates[c][2] /\ b[j + 2] = Templates[c][3]
  BY OccursAtIs
<1>6. QED
  BY <1>2, <1>3, <1>4, <1>5 DEF s, i

\* strstr finds the first occurrence, and nothing in front of it.
LEMMA FirstIs ==
  ASSUME NEW s \in Seq(Chars), NEW c \in Classes, Occurs(s, Templates[c])
  PROVE  /\ First(s, Templates[c]) \in 1 .. Len(s) /\ First(s, Templates[c]) + 2 <= Len(s)
         /\ OccursAt(s, Templates[c], First(s, Templates[c]))
         /\ \A j \in 1 .. First(s, Templates[c]) - 1 : ~OccursAt(s, Templates[c], j)
<1> DEFINE t == Templates[c]
           T == {k \in 1 .. Len(s) : OccursAt(s, t, k)}
<1>1. T \subseteq Nat /\ T # {}
  BY DEF Occurs
<1>2. PICK k \in T : \A j \in T : k <= j
  BY <1>1, Counting!Least
<1>3. k \in 1 .. Len(s) /\ OccursAt(s, t, k) /\ \A j \in 1 .. k - 1 : ~OccursAt(s, t, j)
  BY <1>2
<1> HIDE DEF t
<1>4. /\ First(s, t) \in 1 .. Len(s) /\ OccursAt(s, t, First(s, t))
      /\ \A j \in 1 .. First(s, t) - 1 : ~OccursAt(s, t, j)
  BY <1>3 DEF First
<1>5. First(s, t) + 2 <= Len(s)
  BY <1>4, OccursAtIs DEF t
<1>6. QED
  BY <1>4, <1>5 DEF t

\* A step of the loop exchanges one template.
LEMMA ReplaceNextExchanges ==
  ASSUME DictInv, ReplaceNext
  PROVE  /\ Exchanged(Replaced, Replaced', class, Len(tmp) + (First(orig, Templates[class]) - 1))
         /\ Len(tmp') = Len(tmp) + (First(orig, Templates[class]) - 1) + Len(Expansions[class])
         /\ Replaced' \in Seq(Chars)
<1>1. /\ DictTypeOK /\ stage = "replace" /\ class \in Classes
      /\ Occurs(orig, Templates[class])
  BY DEF DictInv, ReplaceNext, Classes
<1> DEFINE k == First(orig, Templates[class])
           b == SubSeq(orig, 1, k - 1)
           r == SubSeq(orig, k + 3, Len(orig))
           x == Expansions[class]
           e == Len(x)
           n == Len(tmp)
           m == Len(orig)
           p == n + (k - 1)
           s == tmp \o orig
           v == (tmp \o b \o x) \o r
<1>2. orig \in Seq(Chars) /\ tmp \in Seq(Chars) /\ x \in Seq(Chars) /\ n \in Nat /\ m \in Nat /\ e \in Nat
  BY <1>1, SequencesType, TemplateType DEF Classes
<1>3. tmp' = tmp \o b \o x /\ orig' = r
  <2>1. Len(Templates[class]) = 3
    BY <1>1, TemplatesAssumption DEF Classes
  <2>2. QED
    BY <2>1 DEF ReplaceNext, Behind, From
<1>4. k \in 1 .. m /\ k + 2 <= m /\ OccursAt(orig, Templates[class], k)
  BY <1>1, <1>2, FirstIs
<1>5. b \in Seq(Chars) /\ Len(b) = k - 1 /\ \A i \in 1 .. k - 1 : b[i] = orig[i]
  <2> HIDE DEF k
  <2>1. \A i \in 1 .. k - 1 : orig[i] \in Chars /\ (1 + i) - 1 = i
    BY <1>2, <1>4
  <2>2. QED
    BY <1>2, <1>4, <2>1, SubSeqProperties
<1>6. r \in Seq(Chars) /\ Len(r) = m - (k + 2) /\ \A i \in 1 .. m - (k + 2) : r[i] = orig[i + (k + 2)]
  <2> HIDE DEF k
  <2>1. k + 3 \in Int /\ m \in Int /\ (m - (k + 3)) + 1 = m - (k + 2)
        /\ \A i \in k + 3 .. m : orig[i] \in Chars
    BY <1>2, <1>4
  <2>2. \A i \in 1 .. m - (k + 2) : ((k + 3) + i) - 1 = i + (k + 2)
    BY <1>4
  <2>3. /\ r \in Seq(Chars) /\ Len(r) = (IF k + 3 <= m THEN (m - (k + 3)) + 1 ELSE 0)
        /\ \A i \in 1 .. (m - (k + 3)) + 1 : r[i] = orig[((k + 3) + i) - 1]
    BY <2>1, SubSeqProperties
  <2>4. Len(r) = m - (k + 2)
    BY <1>2, <1>4, <2>3
  <2>5. QED
    BY <2>1, <2>2, <2>3, <2>4
<1> HIDE DEF b, r, x, k
<1> DEFINE f == tmp \o b
           g == f \o x
<1>7. f \in Seq(Chars) /\ Len(f) = p /\ p \in Nat
      /\ \A i \in 1 .. p : f[i] = IF i <= n THEN tmp[i] ELSE b[i - n]
  <2>1. f \in Seq(Chars) /\ Len(f) = n + Len(b)
        /\ \A i \in 1 .. n + Len(b) : f[i] = IF i <= n THEN tmp[i] ELSE b[i - n]
    BY <1>2, <1>5, ConcatProperties
  <2>2. QED
    BY <1>2, <1>4, <1>5, <2>1
<1>8. g \in Seq(Chars) /\ Len(g) = p + e
      /\ \A i \in 1 .. p + e : g[i] = IF i <= p THEN f[i] ELSE x[i - p]
  <2> HIDE DEF f, p
  <2>1. QED
    BY <1>2, <1>7, ConcatProperties
<1>9. v \in Seq(Chars) /\ Len(v) = (p + e) + (m - (k + 2))
      /\ \A i \in 1 .. (p + e) + (m - (k + 2)) : v[i] = IF i <= p + e THEN g[i] ELSE r[i - (p + e)]
  <2>1. v = g \o r
    OBVIOUS
  <2> HIDE DEF g, v, p
  <2>2. QED
    <3>1. p + e \in Nat
      BY <1>2, <1>7
    <3>2. v \in Seq(Chars) /\ Len(v) = Len(g) + Len(r)
          /\ \A i \in 1 .. Len(g) + Len(r) : v[i] = IF i <= Len(g) THEN g[i] ELSE r[i - Len(g)]
      BY <1>6, <1>8, <2>1, ConcatProperties
    <3>3. QED
      BY <1>6, <1>8, <3>1, <3>2
<1>10. s \in Seq(Chars) /\ Len(s) = n + m
       /\ \A i \in 1 .. n + m : s[i] = IF i <= n THEN tmp[i] ELSE orig[i - n]
  BY <1>2, ConcatProperties
<1>11. p + 3 <= Len(s) /\ Len(v) = (Len(s) - 3) + e
  BY <1>2, <1>4, <1>9, <1>10
<1>12. OccursAt(s, Templates[class], p + 1)
  <2>1. p + 1 = n + k /\ k \in Nat \ {0}
    BY <1>2, <1>4
  <2>2. OccursAt(s, Templates[class], n + k)
    BY <1>1, <1>2, <1>4, <2>1, OccursBehind
  <2>3. QED
    BY <2>1, <2>2
<1> HIDE DEF f, g, v, s
<1>13. ASSUME NEW i \in 1 .. p PROVE v[i] = s[i]
  <2>1. v[i] = f[i]
    <3>1. i \in 1 .. p + e /\ i \in 1 .. (p + e) + (m - (k + 2)) /\ i <= p /\ i <= p + e
      BY <1>2, <1>4, <1>7
    <3> HIDE DEF p, e
    <3>2. QED
      BY <1>8, <1>9, <3>1
  <2>2. CASE i <= n
    <3>1. i \in 1 .. n + m
      BY <1>2, <1>4, <2>2
    <3> HIDE DEF p
    <3>2. QED
      BY <1>7, <1>10, <2>1, <2>2, <3>1
  <2>3. CASE ~(i <= n)
    <3>1. i - n \in 1 .. k - 1 /\ i \in 1 .. n + m
      BY <1>2, <1>4, <2>3
    <3>2. f[i] = b[i - n] /\ s[i] = orig[i - n]
      BY <1>7, <1>10, <2>3, <3>1
    <3>3. QED
      BY <1>5, <2>1, <3>1, <3>2
  <2>4. QED
    BY <2>2, <2>3
<1>14. ASSUME NEW i \in 1 .. e PROVE v[p + i] = x[i]
  <2>1. p + i \in 1 .. p + e /\ ~(p + i <= p) /\ (p + i) - p = i
        /\ p + i \in 1 .. (p + e) + (m - (k + 2)) /\ p + i <= p + e
    BY <1>2, <1>4, <1>7
  <2> HIDE DEF p, e
  <2>2. QED
    BY <1>8, <1>9, <2>1
<1>15. ASSUME NEW i \in p + 4 .. Len(s) PROVE v[(i - 3) + e] = s[i]
  <2> DEFINE h == (i - 3) + e
  <2>1. /\ h \in 1 .. (p + e) + (m - (k + 2)) /\ ~(h <= p + e)
        /\ h - (p + e) \in 1 .. m - (k + 2) /\ (h - (p + e)) + (k + 2) = i - n
        /\ i \in 1 .. n + m /\ ~(i <= n)
    BY <1>2, <1>4, <1>7, <1>10
  <2> HIDE DEF h, p, e
  <2>2. v[h] = r[h - (p + e)]
    BY <1>9, <2>1
  <2>3. r[h - (p + e)] = orig[i - n]
    BY <1>6, <2>1
  <2>4. QED
    BY <1>10, <2>1, <2>2, <2>3 DEF h
<1>16. Exchanged(s, v, class, p)
  <2> HIDE DEF p
  <2>1. QED
    BY <1>7, <1>9, <1>10, <1>11, <1>12, <1>13, <1>14, <1>15 DEF Exchanged, x, e
<1>17. QED
  <2>1. s = Replaced /\ v = Replaced'
    BY <1>3 DEF Replaced, s, v, b, r, x, k
  <2>2. Len(tmp') = p + e
    BY <1>3, <1>8 DEF g, f, b, x, k
  <2>3. QED
    BY <1>9, <1>16, <2>1, <2>2 DEF k, x

LEMMA MeaningInit == DictInit => MeaningInv
BY DEF DictInit, MeaningInv, Classes

\* A step of the loop keeps what the text stands for.
LEMMA MeaningReplaceNext ==
  ASSUME DictInv, MeaningInv, ReplaceNext
  PROVE  MeaningInv'
<1> DEFINE s == Replaced
           v == Replaced'
           k == First(orig, Templates[class])
           e == Len(Expansions[class])
           n == Len(tmp)
           p == n + (k - 1)
           C == class .. 3
<1>1. /\ stage = "replace" /\ stage' = "replace" /\ dict' = dict /\ class' = class
      /\ class \in Classes /\ Occurs(orig, Templates[class]) /\ orig \in Seq(Chars) /\ tmp \in Seq(Chars)
  BY SequencesType DEF DictInv, ReplaceNext, Classes
<1>2. Exchanged(s, v, class, p) /\ Len(tmp') = p + e /\ v \in Seq(Chars)
  BY ReplaceNextExchanges
<1>3. /\ MeantIn(s, C) = MeantIn(dict, Classes)
      /\ \A c \in class + 1 .. 3 : Occurs(s, Templates[c]) <=> Occurs(dict, Templates[c])
      /\ \A j \in 1 .. n : ~OccursAt(s, Templates[class], j)
      /\ ~Occurs(dict, AsciiTpl)
  BY <1>1 DEF MeaningInv
<1>4. C \subseteq Classes /\ class \in C
  BY <1>1 DEF Classes
<1>5. k \in 1 .. Len(orig) /\ \A j \in 1 .. k - 1 : ~OccursAt(orig, Templates[class], j)
  BY <1>1, FirstIs
<1>6. n \in Nat /\ p \in Nat /\ p + 3 <= Len(s) /\ s \in Seq(Chars) /\ Len(s) \in Nat /\ e \in Nat
      /\ Len(v) = (Len(s) - 3) + e
  BY <1>1, <1>2, <1>5, ExpansionType DEF Exchanged
<1> HIDE DEF s, v, k, e, p
<1>7. MeantIn(v, C) = MeantIn(dict, Classes)
  BY <1>2, <1>3, <1>4, ExchangeKeeps
<1>8. ASSUME NEW c \in class + 1 .. 3
      PROVE  Occurs(v, Templates[c]) <=> Occurs(dict, Templates[c])
  <2>1. c \in Classes /\ c # class
    BY <1>1 DEF Classes
  <2>2. Occurs(v, Templates[c]) <=> Occurs(s, Templates[c])
    BY <1>2, <1>4, <2>1, ExchangeKeeps
  <2>3. QED
    BY <1>3, <2>2
<1>9. ASSUME NEW j \in 1 .. p + e, OccursAt(v, Templates[class], j)
      PROVE  FALSE
  <2>1. j \in 1 .. Len(v) /\ j \in Nat
    BY <1>6
  <2>2. j + 2 <= p \/ j >= p + Len(Expansions[class]) + 1
    BY <1>1, <1>2, <1>9, <2>1, NoOverlap
  <2>3. j + 2 <= p
    BY <1>6, <2>1, <2>2 DEF e
  <2>4. j \in 1 .. Len(s)
    BY <1>6, <2>1, <2>3
  <2>5. OccursAt(s, Templates[class], j) <=>
          OccursAt(v, Templates[class], IF j + 2 <= p THEN j ELSE (j - 3) + Len(Expansions[class]))
    BY <1>1, <1>2, <2>3, <2>4, NoOverlap
  <2>6. OccursAt(s, Templates[class], j)
    BY <1>9, <2>3, <2>5
  <2>7. j \notin 1 .. n
    BY <1>3, <2>6
  <2> DEFINE i == j - n
  <2>8. i \in Nat \ {0} /\ i \in 1 .. k - 1 /\ n + i = j
    BY <1>5, <1>6, <2>1, <2>3, <2>7 DEF p
  <2> HIDE DEF i
  <2>9. OccursAt(orig, Templates[class], i)
    <3>1. OccursAt(tmp \o orig, Templates[class], Len(tmp) + i)
      BY <2>6, <2>8 DEF s, Replaced
    <3>2. QED
      BY <1>1, <2>8, <3>1, OccursBehind
  <2>10. QED
    BY <1>5, <2>8, <2>9
<1>10. QED
  BY <1>1, <1>2, <1>3, <1>7, <1>8, <1>9 DEF MeaningInv, v

\* With the rest copied the class makes no difference any more.
LEMMA MeaningReplaceRest ==
  ASSUME DictInv, MeaningInv, ReplaceRest
  PROVE  MeaningInv'
<1> DEFINE s == Replaced
<1>1. /\ stage = "replace" /\ stage' = "class" /\ dict' = dict /\ class' = class + 1
      /\ text' = s /\ class \in Classes /\ ~Occurs(orig, Templates[class])
      /\ orig \in Seq(Chars) /\ tmp \in Seq(Chars)
  BY SequencesType DEF DictInv, ReplaceRest, Replaced, Classes
<1>2. /\ MeantIn(s, class .. 3) = MeantIn(dict, Classes)
      /\ \A c \in class + 1 .. 3 : Occurs(s, Templates[c]) <=> Occurs(dict, Templates[c])
      /\ \A j \in 1 .. Len(tmp) : ~OccursAt(s, Templates[class], j)
      /\ ~Occurs(dict, AsciiTpl)
  BY <1>1 DEF MeaningInv
<1>3. ~Occurs(s, Templates[class])
  <2> SUFFICES ASSUME NEW j \in 1 .. Len(s), OccursAt(s, Templates[class], j) PROVE FALSE
    BY DEF Occurs
  <2>1. s \in Seq(Chars) /\ Len(s) = Len(tmp) + Len(orig) /\ Len(tmp) \in Nat /\ Len(orig) \in Nat
    BY <1>1, ConcatProperties DEF Replaced
  <2> DEFINE i == j - Len(tmp)
  <2>2. i \in 1 .. Len(orig) /\ i \in Nat \ {0} /\ Len(tmp) + i = j
    BY <1>2, <2>1
  <2> HIDE DEF i
  <2>3. OccursAt(tmp \o orig, Templates[class], Len(tmp) + i)
    BY <2>2 DEF Replaced
  <2>4. OccursAt(orig, Templates[class], i)
    BY <1>1, <2>2, <2>3, OccursBehind
  <2>5. QED
    BY <1>1, <2>2, <2>4 DEF Occurs
<1>4. (class .. 3) \ {class} = class + 1 .. 3
  BY <1>1 DEF Classes
<1> HIDE DEF s
<1>5. MeantIn(s, class + 1 .. 3) = MeantIn(dict, Classes)
  <2> DEFINE C == class .. 3
  <2>1. MeantIn(s, C) = MeantIn(s, C \ {class})
    <3> HIDE DEF C
    <3>1. QED
      BY <1>3, AbsentClass
  <2>2. QED
    BY <1>2, <1>4, <2>1
<1>6. QED
  BY <1>1, <1>2, <1>5 DEF MeaningInv

LEMMA MeaningOther ==
  ASSUME DictInv, MeaningInv, UseAscii \/ SkipClass \/ StartReplace \/ StartUnique \/ Unique \/ Prepared
  PROVE  MeaningInv'
<1>1. DictTypeOK
  BY DEF DictInv
<1>2. text \in Seq(Chars) /\ orig \in Seq(Chars) /\ tmp \in Seq(Chars) /\ result \in Seq(Chars)
  BY <1>1, SequencesType
<1>3. CASE UseAscii
  <2>1. stage' = "done" /\ result' = AsciiChars /\ dict' = dict /\ Occurs(dict, AsciiTpl)
    BY <1>3 DEF UseAscii
  <2>2. Meant' = Range(AsciiChars)
    BY <2>1 DEF Meant
  <2>3. QED
    BY <2>1, <2>2 DEF MeaningInv
<1>4. CASE SkipClass
  <2>1. /\ class \in Classes /\ class' = class + 1 /\ stage = "class" /\ stage' = "class"
        /\ dict' = dict /\ text' = text /\ ~Occurs(dict, AsciiTpl) /\ ~Occurs(dict, Templates[class])
    BY <1>1, <1>4 DEF SkipClass, DictTypeOK, Classes
  <2>2. /\ MeantIn(text, class .. 3) = MeantIn(dict, Classes)
        /\ \A c \in class .. 3 : Occurs(text, Templates[c]) <=> Occurs(dict, Templates[c])
    BY <2>1 DEF MeaningInv
  <2>3. (class .. 3) \ {class} = class + 1 .. 3 /\ class \in class .. 3
        /\ \A c \in class + 1 .. 3 : c \in class .. 3
    BY <2>1 DEF Classes
  <2>4. MeantIn(text, class + 1 .. 3) = MeantIn(dict, Classes)
    BY <2>1, <2>2, <2>3, AbsentClass
  <2>5. QED
    BY <2>1, <2>2, <2>3, <2>4 DEF MeaningInv
<1>5. CASE StartReplace
  <2>1. /\ class \in Classes /\ class' = class /\ stage = "class" /\ stage' = "replace"
        /\ dict' = dict /\ orig' = text /\ tmp' = <<>> /\ ~Occurs(dict, AsciiTpl)
    BY <1>1, <1>5 DEF StartReplace, DictTypeOK, Classes
  <2>2. /\ MeantIn(text, class .. 3) = MeantIn(dict, Classes)
        /\ \A c \in class .. 3 : Occurs(text, Templates[c]) <=> Occurs(dict, Templates[c])
    BY <2>1 DEF MeaningInv
  <2>3. Replaced' = text
    BY <1>2, <2>1, ConcatEmptySeq DEF Replaced
  <2>4. Len(tmp') = 0 /\ \A c \in class + 1 .. 3 : c \in class .. 3
    BY <2>1 DEF Classes
  <2>5. QED
    BY <2>1, <2>2, <2>3, <2>4 DEF MeaningInv
<1>6. CASE StartUnique
  <2>1. /\ class = 4 /\ stage = "class" /\ stage' = "unique" /\ dict' = dict
        /\ text' = text /\ result' = result /\ result = <<>>
    BY <1>6 DEF StartUnique, DictInv
  <2>2. MeantIn(text, {}) = MeantIn(dict, Classes) /\ ~Occurs(dict, AsciiTpl)
    <3>1. class .. 3 = {} /\ class > 1
      BY <2>1
    <3>2. QED
      BY <2>1, <3>1 DEF MeaningInv
  <2>3. MeantIn(text, {}) = Range(text)
    BY <1>2, NoClass
  <2>4. Range(result) = {}
    BY <2>1 DEF Range
  <2>5. Range(result') \cup Range(text') = MeantIn(dict, Classes)
    BY <2>1, <2>2, <2>3, <2>4
  <2>6. QED
    BY <2>1, <2>2, <2>5 DEF MeaningInv
<1>7. CASE Unique
  <2>1. /\ stage = "unique" /\ stage' = "unique" /\ dict' = dict /\ text # <<>>
        /\ result' = (IF Head(text) \in Range(result) THEN result ELSE Append(result, Head(text)))
        /\ text' = Tail(text)
    BY <1>7 DEF Unique
  <2>2. Range(result) \cup Range(text) = MeantIn(dict, Classes) /\ ~Occurs(dict, AsciiTpl)
    BY <2>1 DEF MeaningInv
  <2>3. Range(text) = {Head(text)} \cup Range(Tail(text)) /\ Head(text) \in Chars
    <3>1. /\ Head(text) = text[1] /\ Tail(text) \in Seq(Chars) /\ Len(Tail(text)) = Len(text) - 1
          /\ \A i \in 1 .. Len(Tail(text)) : Tail(text)[i] = text[i + 1]
      BY <1>2, <2>1, HeadTailProperties
    <3>2. Len(text) \in Nat \ {0}
      BY <1>2, <2>1, EmptySeq
    <3>3. \A x : x \in Range(text) <=> x = text[1] \/ \E i \in 1 .. Len(text) - 1 : x = text[i + 1]
      <4>1. \A x : x \in Range(text) <=> \E j \in 1 .. Len(text) : x = text[j]
        BY <1>2 DEF Range
      <4>2. \A j \in 1 .. Len(text) : j = 1 \/ (j - 1 \in 1 .. Len(text) - 1 /\ j = (j - 1) + 1)
        BY <3>2
      <4>3. \A i \in 1 .. Len(text) - 1 : i + 1 \in 1 .. Len(text)
        BY <3>2
      <4>4. 1 \in 1 .. Len(text)
        BY <3>2
      <4>5. ASSUME NEW j \in 1 .. Len(text)
            PROVE  text[j] = text[1] \/ \E i \in 1 .. Len(text) - 1 : text[j] = text[i + 1]
        BY <4>2
      <4>6. QED
        BY <4>1, <4>3, <4>4, <4>5
    <3>4. \A x : x \in Range(Tail(text)) <=> \E i \in 1 .. Len(text) - 1 : x = Tail(text)[i]
      <4> DEFINE u == Tail(text)
      <4>1. u \in Seq(Chars) /\ Len(u) = Len(text) - 1
        BY <3>1
      <4> HIDE DEF u
      <4>2. \A x : x \in Range(u) <=> \E i \in 1 .. Len(u) : x = u[i]
        BY <4>1 DEF Range
      <4>3. QED
        BY <4>1, <4>2 DEF u
    <3>5. \A i \in 1 .. Len(text) - 1 : Tail(text)[i] = text[i + 1]
      BY <3>1
    <3>6. \A x : x \in Range(text) <=> x \in {Head(text)} \cup Range(Tail(text))
      BY <3>1, <3>3, <3>4, <3>5
    <3>7. text[1] \in Chars
      BY <1>2, <3>2
    <3>8. QED
      BY <3>1, <3>6, <3>7
  <2>4. Range(result') = Range(result) \cup {Head(text)}
    <3>1. CASE Head(text) \in Range(result)
      BY <2>1, <3>1
    <3>2. CASE Head(text) \notin Range(result)
      <4>1. result' = Append(result, Head(text))
        BY <2>1, <3>2
      <4>2. /\ Len(result') = Len(result) + 1 /\ Len(result) \in Nat /\ result' \in Seq(Chars)
            /\ \A i \in 1 .. Len(result) : result'[i] = result[i]
            /\ result'[Len(result) + 1] = Head(text)
        BY <1>2, <2>3, <4>1, AppendProperties
      <4>3. \A x : x \in Range(result') <=> \E i \in 1 .. Len(result) + 1 : x = result'[i]
        BY <4>2 DEF Range
      <4>4. \A x : x \in Range(result) <=> \E i \in 1 .. Len(result) : x = result[i]
        BY <1>2 DEF Range
      <4>5. \A i \in 1 .. Len(result) + 1 : i \in 1 .. Len(result) \/ i = Len(result) + 1
        BY <4>2
      <4>6. (\A i \in 1 .. Len(result) : i \in 1 .. Len(result) + 1) /\ Len(result) + 1 \in 1 .. Len(result) + 1
        BY <4>2
      <4>7. \A x : x \in Range(result') <=> x \in Range(result) \cup {Head(text)}
        BY <4>2, <4>3, <4>4, <4>5, <4>6
      <4>8. QED
        BY <4>7
    <3>3. QED
      BY <3>1, <3>2
  <2>5. Range(result') \cup Range(text') = MeantIn(dict, Classes)
    BY <2>1, <2>2, <2>3, <2>4
  <2>6. QED
    BY <2>1, <2>2, <2>5 DEF MeaningInv
<1>8. CASE Prepared
  <2>1. /\ stage = "unique" /\ stage' = "done" /\ dict' = dict /\ text = <<>> /\ result' = result
    BY <1>8 DEF Prepared
  <2>2. Range(text) = {}
    BY <2>1 DEF Range
  <2>3. Range(result) = Meant
    BY <2>1, <2>2, MeantIs DEF MeaningInv
  <2>4. Meant' = Meant
    BY <2>1 DEF Meant, Covered
  <2>5. QED
    BY <2>1, <2>3, <2>4 DEF MeaningInv
<1>9. QED
  BY <1>3, <1>4, <1>5, <1>6, <1>7, <1>8

LEMMA MeaningUnchanged ==
  ASSUME MeaningInv, UNCHANGED dictVars
  PROVE  MeaningInv'
<1>1. UNCHANGED <<dict, stage, class, text, orig, tmp, result>>
  BY DEF dictVars
<1>2. Replaced' = Replaced /\ Meant' = Meant
  BY <1>1 DEF Replaced, Meant, Covered
<1>3. QED
  BY <1>1, <1>2 DEF MeaningInv

LEMMA MeaningSteps ==
  ASSUME DictInv, MeaningInv, DictStep \/ UNCHANGED dictVars
  PROVE  MeaningInv'
BY MeaningReplaceNext, MeaningReplaceRest, MeaningOther, MeaningUnchanged DEF DictStep

-----------------------------------------------------------------------------
(* The theorems                                                             *)

\* What is true of the dictionary and the loops at any time.
THEOREM LoopInvariant == Spec => []LoopInv
<1>1. LoopInv /\ [Next]_vars => LoopInv'
  BY NextStep
<1>2. QED
  BY <1>1, LoopInit, PTL DEF Spec

\* The types, and that the turns follow the words, for every dictionary and any
\* number of threads.
THEOREM TurnsFollowWords == Spec => []OdometerInv
<1>1. LoopInv => OdometerInv
  BY DEF LoopInv, OdometerInv
<1>2. QED
  BY <1>1, LoopInvariant, PTL

\* The loops probe every word of the lengths asked for, once and in order, over
\* every dictionary: which entitles BruteForce to take words by number.
THEOREM WordsComeInOrder == Spec => ProbesInOrder
<1>1. LoopInv /\ [Next]_vars =>
        [/\ Probes => /\ NulsInFront(attempt')
                      /\ word' = word + 1 /\ WordIn[passLen][attempt'] = word
         /\ pc # "end" /\ pc' = "end" => word' = LastWord[job.last] + 1]_vars
  BY NextStep
<1>2. QED
  BY <1>1, LoopInvariant, PTL DEF Spec, ProbesInOrder

\* The memory that prbf_str_replace allocates holds the expansion of every text,
\* and is filled by it.
THEOREM ExpansionsFit == Spec => ReplacementFits
<1>1. LoopInv /\ [Next]_vars =>
        [stage = "replace" => /\ Len(tmp') <= allocated
                              /\ stage' = "class" => Len(text') = allocated]_dictVars
  <2> SUFFICES ASSUME LoopInv, [Next]_vars, dictVars' # dictVars, stage = "replace"
               PROVE  Len(tmp') <= allocated /\ (stage' = "class" => Len(text') = allocated)
    OBVIOUS
  <2>1. DictStep
    BY DEF Next, Ended, vars, PrepareDictionary, Start, Outer, Inner, Carry, LengthDone
  <2>2. DictInv
    BY DEF LoopInv
  <2>3. CASE ReplaceNext
    <3>1. stage' # "class"
      BY <2>3 DEF ReplaceNext
    <3>2. QED
      BY <2>2, <2>3, <3>1, ReplaceNextStep
  <2>4. CASE ReplaceRest
    BY <2>2, <2>4, ReplaceRestStep
  <2>5. QED
    BY <2>1, <2>2, <2>3, <2>4, OtherDictSteps DEF DictStep
<1>2. QED
  BY <1>1, LoopInvariant, PTL DEF Spec, ReplacementFits

\* The dictionary has exactly the characters that the text of --dict stands
\* for, each of them once, for every text and for all templates that keep apart
\* from one another and from the expansions.
THEOREM DictionaryIsMeant == Spec => []CharsAreMeant
<1>1. Init => DictInv /\ MeaningInv
  BY DictInitInv, MeaningInit DEF Init
<1>2. DictInv /\ MeaningInv /\ [Next]_vars => (DictInv /\ MeaningInv)'
  <2> SUFFICES ASSUME DictInv, MeaningInv, [Next]_vars PROVE (DictInv /\ MeaningInv)'
    OBVIOUS
  <2>1. DictStep \/ UNCHANGED dictVars
    BY DEF Next, Ended, vars, PrepareDictionary, Start, Outer, Inner, Carry, LengthDone
  <2>2. QED
    BY <2>1, DictSteps, MeaningSteps
<1>3. DictInv /\ MeaningInv => CharsAreMeant
  BY DEF DictInv, MeaningInv, CharsAreMeant
<1>4. QED
  BY <1>1, <1>2, <1>3, PTL DEF Spec
=============================================================================
