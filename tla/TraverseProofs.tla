--------------------------- MODULE TraverseProofs ---------------------------
(***************************************************************************)
(* Proofs about Traverse, for every tree of directories, every pattern and *)
(* any number of failures.                                                 *)
(***************************************************************************)
EXTENDS Traverse, FiniteSetTheorems, SequenceTheorems, TLAPS

-----------------------------------------------------------------------------
(* The tree.                                                                *)

\* What is under x has x, and all that is in its directories.
LEMMA UnderClosed ==
  ASSUME NEW x \in Dirs \cup Files
  PROVE  /\ Under[x] \subseteq Dirs \cup Files
         /\ x \in Under[x]
         /\ Closed(Under[x])
<1>1. Under[x] = {y \in Dirs \cup Files :
                    \A S \in SUBSET (Dirs \cup Files) : x \in S /\ Closed(S) => y \in S}
  BY DEF Under
<1>2. ASSUME NEW d \in Under[x] \cap Dirs, NEW y \in Entries[d]
      PROVE  y \in Under[x]
  <2>1. y \in Dirs \cup Files
    BY TraverseAssumption
  <2>2. ASSUME NEW S \in SUBSET (Dirs \cup Files), x \in S, Closed(S)
        PROVE  y \in S
    <3>1. d \in S
      BY <1>1, <2>2
    <3>2. QED
      BY <2>2, <3>1 DEF Closed
  <2>3. QED
    BY <1>1, <2>1, <2>2
<1>3. QED
  BY <1>1, <1>2 DEF Closed

\* And it is the smallest such set.
LEMMA UnderSmallest ==
  ASSUME NEW x \in Dirs \cup Files, NEW S, x \in S,
         \A d \in S \cap Under[x] \cap Dirs : Entries[d] \subseteq S
  PROVE  Under[x] \subseteq S
<1> DEFINE T == S \cap Under[x]
<1>1. T \in SUBSET (Dirs \cup Files) /\ x \in T
  BY UnderClosed
<1>2. Closed(T)
  BY UnderClosed DEF Closed
<1>3. \A y \in Under[x] : y \in T
  BY <1>1, <1>2 DEF Under
<1>4. QED
  BY <1>3

\* What is under something in a directory is under it as well.
LEMMA UnderTransitive ==
  ASSUME NEW x \in Dirs \cup Files, NEW d \in Under[x] \cap Dirs, NEW e \in Entries[d]
  PROVE  e \in Dirs \cup Files /\ e \in Under[x] /\ Under[e] \subseteq Under[x]
<1>1. e \in Dirs \cup Files /\ e \in Under[x]
  BY UnderClosed DEF Closed
<1>2. Under[e] \subseteq Under[x]
  BY <1>1, UnderClosed, UnderSmallest DEF Closed
<1>3. QED
  BY <1>1, <1>2

\* A file is all that is under it; what is under a directory, but the directory
\* itself, is under one of its entries.
LEMMA UnderFile == ASSUME NEW f \in Files PROVE Under[f] = {f}
<1>1. \A d \in {f} \cap Under[f] \cap Dirs : Entries[d] \subseteq {f}
  BY TraverseAssumption
<1>2. f \in Under[f] /\ Under[f] \subseteq {f}
  BY <1>1, UnderClosed, UnderSmallest
<1>3. QED
  BY <1>2

LEMMA UnderDir ==
  ASSUME NEW d \in Dirs, NEW y \in Under[d], y # d
  PROVE  \E e \in Entries[d] : y \in Under[e]
<1> DEFINE S == {d} \cup UNION {Under[e] : e \in Entries[d]}
<1>1. Entries[d] \subseteq Dirs \cup Files
  BY TraverseAssumption
<1>2. ASSUME NEW c \in S \cap Dirs
      PROVE  Entries[c] \subseteq S
  <2>1. CASE c = d
    BY <1>1, <2>1, UnderClosed
  <2>2. ASSUME NEW e \in Entries[d], c \in Under[e]
        PROVE  Entries[c] \subseteq S
    BY <1>1, <2>2, UnderClosed DEF Closed
  <2>3. QED
    BY <2>1, <2>2
<1>3. Under[d] \subseteq S
  BY <1>2, UnderSmallest
<1>4. QED
  BY <1>3

\* What is under x, but x, is in a directory under x.
LEMMA UnderParent ==
  ASSUME NEW x \in Dirs \cup Files, NEW y \in Under[x], y # x
  PROVE  \E d \in Under[x] \cap Dirs : y \in Entries[d]
<1> SUFFICES ASSUME \A d \in Under[x] \cap Dirs : y \notin Entries[d]
             PROVE  FALSE
  OBVIOUS
<1> DEFINE S == Under[x] \ {y}
<1>1. \A d \in S \cap Under[x] \cap Dirs : Entries[d] \subseteq S
  BY UnderClosed DEF Closed
<1>2. x \in S /\ y \notin S
  BY UnderClosed
<1> HIDE DEF S
<1>3. Under[x] \subseteq S
  BY <1>1, <1>2, UnderSmallest
<1>4. QED
  BY <1>2, <1>3

\* Nothing is under two entries of a directory.
LEMMA SiblingsApart ==
  ASSUME NEW d \in Dirs, NEW x \in Entries[d], NEW y \in Entries[d], x # y
  PROVE  Under[x] \cap Under[y] = {}
<1>1. x \in Dirs \cup Files /\ y \in Dirs \cup Files
  BY TraverseAssumption
<1>2. ASSUME NEW u \in Entries[d], NEW v \in Entries[d], u # v, u \in Under[v]
      PROVE  FALSE
  <2>1. v \in Dirs \cup Files
    BY TraverseAssumption
  <2>2. PICK c \in Under[v] \cap Dirs : u \in Entries[c]
    BY <1>2, <2>1, UnderParent
  <2>3. c = d
    BY <2>2, TreeAssumption
  <2>4. QED
    BY <2>2, <2>3, TreeAssumption
<1>3. ASSUME NEW c \in (Under[x] \ Under[y]) \cap Under[x] \cap Dirs, NEW e \in Entries[c]
      PROVE  e \in Under[x] \ Under[y]
  <2>1. e \in Under[x]
    BY <1>1, <1>3, UnderClosed DEF Closed
  <2>2. ASSUME e \in Under[y]
        PROVE  FALSE
    <3>1. e # y
      BY <1>2, <2>1
    <3>2. PICK b \in Under[y] \cap Dirs : e \in Entries[b]
      BY <1>1, <2>2, <3>1, UnderParent
    <3>3. b = c
      BY <3>2, TreeAssumption
    <3>4. QED
      BY <3>2, <3>3
  <2>3. QED
    BY <2>1, <2>2
<1>4. x \in Under[x] \ Under[y]
  BY <1>1, <1>2, UnderClosed
<1>5. Under[x] \subseteq Under[x] \ Under[y]
  BY <1>1, <1>3, <1>4, UnderSmallest
<1>6. QED
  BY <1>5

-----------------------------------------------------------------------------
(* The calls and the pools.                                                 *)

StackOK ==
  /\ recursive \in BOOLEAN
  /\ calls \in Seq(CallType) /\ depth <= MaxDepth
  /\ live \in [0 .. MaxDepth -> SUBSET Dirs]
  /\ PathsAlive /\ NestOK
  /\ \A d \in 1 .. depth : CallOK(calls[d])

LEMMA MaxDepthType == MaxDepth \in Nat
BY TraverseAssumption, FS_CardinalityType DEF MaxDepth

\* The calls that are open are for different directories.
LEMMA NestBound == calls \in Seq(CallType) /\ NestOK => depth <= MaxDepth
<1> SUFFICES ASSUME calls \in Seq(CallType), NestOK
             PROVE  depth <= MaxDepth
  OBVIOUS
<1> DEFINE dirOf == [d \in 1 .. depth |-> calls[d].dir]
<1>1. depth \in Nat /\ \A d \in 1 .. depth : calls[d] \in CallType
  BY ElementOfSeq DEF depth
<1>2. dirOf \in [1 .. depth -> Dirs]
  BY <1>1 DEF CallType
<1>3. ASSUME NEW d \in 1 .. depth, NEW o \in 1 .. depth, o < d
      PROVE  dirOf[o] # dirOf[d]
  <2>1. o \in 1 .. d - 1
    BY <1>1, <1>3
  <2>2. PICK e \in Entries[calls[o].dir] : calls[d].dir \in Under[e]
    BY <2>1 DEF NestOK
  <2>3. calls[o].dir \in Dirs /\ calls[o].dir \notin Under[e]
    BY <1>1, <2>2, TreeAssumption DEF CallType
  <2>4. QED
    BY <2>2, <2>3
<1>4. \A d, o \in 1 .. depth : dirOf[o] = dirOf[d] => o = d
  <2> SUFFICES ASSUME NEW d \in 1 .. depth, NEW o \in 1 .. depth,
                      dirOf[o] = dirOf[d], o # d
               PROVE  FALSE
    OBVIOUS
  <2>1. o < d \/ d < o
    BY <1>1
  <2>2. QED
    BY <1>3, <2>1
<1>5. dirOf \in Injection(1 .. depth, Dirs)
  BY <1>2, <1>4 DEF Injection, IsInjective
<1>6. Cardinality(1 .. depth) <= Cardinality(Dirs)
  BY <1>5, TraverseAssumption, FS_Injection
<1>7. Cardinality(1 .. depth) = depth
  BY <1>1, FS_Interval
<1>8. QED
  BY <1>6, <1>7 DEF MaxDepth

\* The call on top goes on: what the others need stays allocated.
LEMMA TopStack ==
  ASSUME StackOK, calls # <<>>, recursive' = recursive,
         NEW c \in CallType, c.dir = Top.dir, CallOK(c), SetTop(c),
         live' \in [0 .. MaxDepth -> SUBSET Dirs],
         \A k \in 0 .. depth - 1 : live[k] \subseteq live'[k],
         Range(c.subdirs) \subseteq live'[depth - 1]
  PROVE  StackOK'
<1>1. depth \in Nat \ {0} /\ depth <= MaxDepth /\ MaxDepth \in Nat
  BY EmptySeq, MaxDepthType DEF StackOK, depth
<1>2. /\ calls' \in Seq(CallType) /\ Len(calls') = depth
      /\ \A d \in 1 .. depth : calls'[d] = IF d = depth THEN c ELSE calls[d]
  <2>1. calls \in Seq(CallType) /\ depth \in 1 .. Len(calls)
    BY <1>1 DEF StackOK, depth
  <2>2. calls' = [calls EXCEPT ![depth] = c]
    BY DEF SetTop
  <2>3. QED
    BY <2>1, <2>2, ExceptSeq DEF depth
<1>3. depth' = depth
  BY <1>2 DEF depth
<1>4. \A d \in 1 .. depth : calls'[d].dir = calls[d].dir
  BY <1>2 DEF Top
<1>5. PathsAlive'
  <2> SUFFICES ASSUME NEW d \in 1 .. depth
               PROVE  /\ d > 1 => calls'[d].dir \in live'[d - 2]
                      /\ \A s \in Range(calls'[d].subdirs) : s \in live'[d - 1]
    BY <1>3 DEF PathsAlive
  <2>1. /\ d > 1 => calls[d].dir \in live[d - 2]
        /\ \A s \in Range(calls[d].subdirs) : s \in live[d - 1]
    BY DEF StackOK, PathsAlive
  <2>2. (d > 1 => d - 2 \in 0 .. depth - 1) /\ d - 1 \in 0 .. depth - 1
    BY <1>1
  <2>3. \A s \in Range(calls'[d].subdirs) : s \in live'[d - 1]
    BY <1>2, <2>1, <2>2
  <2>4. QED
    BY <1>4, <2>1, <2>2, <2>3
<1>6. NestOK'
  <2> SUFFICES ASSUME NEW d \in 1 .. depth, NEW o \in 1 .. d - 1
               PROVE  \E e \in Entries[calls'[o].dir] : calls'[d].dir \in Under[e]
    BY <1>3 DEF NestOK
  <2>1. o \in 1 .. depth
    BY <1>1
  <2>2. QED
    BY <1>4, <2>1 DEF StackOK, NestOK
<1>7. (\A d \in 1 .. depth : CallOK(calls[d]))'
  BY <1>2, <1>3 DEF StackOK, CallOK
<1>8. QED
  BY <1>1, <1>2, <1>3, <1>5, <1>6, <1>7 DEF StackOK

\* The call on top returns.
LEMMA PopStack ==
  ASSUME StackOK, calls # <<>>, recursive' = recursive, calls' = Front(calls),
         live' \in [0 .. MaxDepth -> SUBSET Dirs],
         \A k \in 0 .. depth - 1 : live'[k] = live[k]
  PROVE  /\ StackOK' /\ depth' = depth - 1
         /\ \A d \in 1 .. depth - 1 : calls'[d] = calls[d]
<1>1. /\ depth \in Nat \ {0} /\ depth <= MaxDepth /\ MaxDepth \in Nat
      /\ calls \in Seq(CallType)
  BY EmptySeq, MaxDepthType DEF StackOK, depth
<1>2. /\ calls' \in Seq(CallType) /\ Len(calls') = depth - 1
      /\ \A d \in 1 .. depth - 1 : calls'[d] = calls[d]
  <2>1. /\ calls' = SubSeq(calls, 1, depth - 1)
        /\ \A d \in 1 .. depth - 1 : calls[d] \in CallType
        /\ 1 \in Int /\ depth - 1 \in Int
    BY <1>1, ElementOfSeq DEF Front, depth
  <2>2. /\ SubSeq(calls, 1, depth - 1) \in Seq(CallType)
        /\ Len(SubSeq(calls, 1, depth - 1))
             = IF 1 <= depth - 1 THEN (depth - 1) - 1 + 1 ELSE 0
        /\ \A d \in 1 .. (depth - 1) - 1 + 1 :
              SubSeq(calls, 1, depth - 1)[d] = calls[1 + d - 1]
    BY <2>1, SubSeqProperties
  <2> HIDE DEF depth
  <2>3. \A d \in 1 .. depth - 1 : 1 + d - 1 = d /\ (depth - 1) - 1 + 1 = depth - 1
    BY <1>1
  <2>4. QED
    BY <1>1, <2>1, <2>2, <2>3
<1>3. depth' = depth - 1
  BY <1>2 DEF depth
<1>4. PathsAlive'
  <2> SUFFICES ASSUME NEW d \in 1 .. depth - 1
               PROVE  /\ d > 1 => calls'[d].dir \in live'[d - 2]
                      /\ \A s \in Range(calls'[d].subdirs) : s \in live'[d - 1]
    BY <1>3 DEF PathsAlive
  <2>1. (d > 1 => d - 2 \in 0 .. depth - 1) /\ d - 1 \in 0 .. depth - 1
        /\ d \in 1 .. depth
    BY <1>1
  <2>2. QED
    BY <1>2, <2>1 DEF StackOK, PathsAlive
<1>5. NestOK'
  <2> SUFFICES ASSUME NEW d \in 1 .. depth - 1, NEW o \in 1 .. d - 1
               PROVE  \E e \in Entries[calls'[o].dir] : calls'[d].dir \in Under[e]
    BY <1>3 DEF NestOK
  <2>1. o \in 1 .. depth - 1 /\ d \in 1 .. depth
    BY <1>1
  <2>2. QED
    BY <1>2, <2>1 DEF StackOK, NestOK
<1>6. (\A d \in 1 .. depth : CallOK(calls[d]))'
  <2>1. \A d \in 1 .. depth - 1 : d \in 1 .. depth
    BY <1>1
  <2>2. QED
    BY <1>2, <1>3, <2>1 DEF StackOK, CallOK
<1>7. QED
  BY <1>1, <1>2, <1>3, <1>4, <1>5, <1>6 DEF StackOK

\* The iteration pool of the call on top is cleared: no path that is needed goes.
LEMMA ClearKeeps ==
  ASSUME StackOK, calls # <<>>
  PROVE  /\ ClearIterPool \in [0 .. MaxDepth -> SUBSET Dirs]
         /\ \A k \in 0 .. depth - 1 : ClearIterPool[k] = live[k]
         /\ depth \in Nat \ {0} /\ depth <= MaxDepth /\ MaxDepth \in Nat
         /\ Top \in CallType /\ CallOK(Top)
         /\ Range(Top.subdirs) \subseteq live[depth - 1]
<1>1. depth \in Nat \ {0} /\ depth <= MaxDepth /\ MaxDepth \in Nat
  BY EmptySeq, MaxDepthType DEF StackOK, depth
<1>2. /\ ClearIterPool \in [0 .. MaxDepth -> SUBSET Dirs]
      /\ \A k \in 0 .. depth - 1 : ClearIterPool[k] = live[k]
  BY <1>1 DEF StackOK, ClearIterPool
<1>3. depth \in 1 .. depth
  BY <1>1
<1>4. Top \in CallType
  BY <1>3, ElementOfSeq DEF StackOK, Top, depth
<1>5. CallOK(Top) /\ Range(Top.subdirs) \subseteq live[depth - 1]
  BY <1>3 DEF StackOK, PathsAlive, Top
<1>6. QED
  BY <1>1, <1>2, <1>4, <1>5

\* The next subdirectory, and where the calls are after the descent into it.
LEMMA PushCalls ==
  ASSUME StackOK, Descend, NEW s, s = Top.subdirs[Top.next]
  PROVE  /\ s \in Dirs /\ s \in Entries[Top.dir] /\ s \in live[depth - 1]
         /\ recursive /\ Top.next \in Nat \ {0} /\ Len(Top.subdirs) \in Nat
         /\ calls' \in Seq(CallType) /\ depth' = depth + 1
         /\ calls'[depth + 1] = Call(s)
         /\ calls'[depth] = [Top EXCEPT !.next = @ + 1]
         /\ \A d \in 1 .. depth - 1 : calls'[d] = calls[d]
<1> DEFINE c == [Top EXCEPT !.next = @ + 1]
<1>1. calls # <<>> /\ Top.next <= Len(Top.subdirs)
  BY DEF Descend
<1>2. /\ depth \in Nat \ {0} /\ Top \in CallType /\ CallOK(Top)
      /\ Range(Top.subdirs) \subseteq live[depth - 1]
      /\ Top.next \in Nat \ {0} /\ Top.subdirs \in Seq(Dirs)
  BY <1>1, ClearKeeps DEF CallType
<1>3. /\ Top.next \in 1 .. Len(Top.subdirs) /\ Len(Top.subdirs) \in Nat
  BY <1>1, <1>2
<1>4. s \in Dirs /\ s \in Range(Top.subdirs)
  BY <1>2, <1>3, ElementOfSeq DEF Range
<1>5. recursive
  <2>1. Top.subdirs # <<>>
    BY <1>3
  <2>2. QED
    BY <1>2, <2>1 DEF StackOK, CallOK
<1>6. c \in CallType /\ Call(s) \in CallType
  BY <1>2, <1>4 DEF CallType, Call
<1>7. [calls EXCEPT ![depth].next = @ + 1] = [calls EXCEPT ![depth] = c]
  BY DEF Top
<1> HIDE DEF c
<1> DEFINE front == [calls EXCEPT ![depth] = c]
<1>8. calls \in Seq(CallType) /\ depth \in 1 .. Len(calls)
  BY <1>2 DEF StackOK, depth
<1>9. /\ front \in Seq(CallType) /\ Len(front) = depth
      /\ \A d \in 1 .. depth : front[d] = IF d = depth THEN c ELSE calls[d]
  BY <1>6, <1>8, ExceptSeq DEF depth
<1>10. calls' = Append(front, Call(s))
  BY <1>7 DEF Descend
<1> HIDE DEF front
<1>11. /\ calls' \in Seq(CallType) /\ Len(calls') = depth + 1
       /\ \A d \in 1 .. depth : calls'[d] = front[d]
       /\ calls'[depth + 1] = Call(s)
  BY <1>6, <1>9, <1>10, AppendProperties
<1>12. calls'[depth] = c /\ \A d \in 1 .. depth - 1 : calls'[d] = calls[d]
  BY <1>2, <1>9, <1>11
<1>13. depth' = depth + 1
  BY <1>11 DEF depth
<1>14. QED
  BY <1>2, <1>3, <1>4, <1>5, <1>11, <1>12, <1>13 DEF CallOK, c

LEMMA PushStack == ASSUME StackOK, Descend PROVE StackOK'
<1> SUFFICES ASSUME NEW s, s = Top.subdirs[Top.next]
             PROVE  StackOK'
  OBVIOUS
<1>1. /\ s \in Dirs /\ s \in Entries[Top.dir] /\ s \in live[depth - 1]
      /\ recursive /\ calls' \in Seq(CallType) /\ depth' = depth + 1
      /\ calls'[depth + 1] = Call(s)
      /\ calls'[depth] = [Top EXCEPT !.next = @ + 1]
      /\ \A d \in 1 .. depth - 1 : calls'[d] = calls[d]
  BY PushCalls
<1>2. /\ calls # <<>> /\ live' = ClearIterPool /\ recursive' = recursive
  BY DEF Descend
<1>3. /\ live' \in [0 .. MaxDepth -> SUBSET Dirs]
      /\ \A k \in 0 .. depth - 1 : live'[k] = live[k]
      /\ depth \in Nat \ {0} /\ Top \in CallType /\ CallOK(Top)
  BY <1>2, ClearKeeps
<1>4. \A d \in 1 .. depth : /\ calls'[d].dir = calls[d].dir
                            /\ calls'[d].subdirs = calls[d].subdirs
  <2>1. /\ calls'[depth].dir = calls[depth].dir
        /\ calls'[depth].subdirs = calls[depth].subdirs
    BY <1>1, <1>3 DEF Top, CallType
  <2>2. \A d \in 1 .. depth : d = depth \/ d \in 1 .. depth - 1
    BY <1>3
  <2>3. QED
    BY <1>1, <2>1, <2>2
<1>5. PathsAlive'
  <2> SUFFICES ASSUME NEW d \in 1 .. depth + 1
               PROVE  /\ d > 1 => calls'[d].dir \in live'[d - 2]
                      /\ \A t \in Range(calls'[d].subdirs) : t \in live'[d - 1]
    BY <1>1 DEF PathsAlive
  <2>1. CASE d = depth + 1
    <3>1. d - 2 = depth - 1 /\ depth - 1 \in 0 .. depth - 1
      BY <1>3, <2>1
    <3>2. calls'[d].dir = s /\ Range(calls'[d].subdirs) = {}
      BY <1>1, <2>1 DEF Call, Range
    <3>3. QED
      BY <1>1, <1>3, <3>1, <3>2
  <2>2. CASE d \in 1 .. depth
    <3>1. (d > 1 => d - 2 \in 0 .. depth - 1) /\ d - 1 \in 0 .. depth - 1
      BY <1>3, <2>2
    <3>2. QED
      BY <1>3, <1>4, <2>2, <3>1 DEF StackOK, PathsAlive
  <2>3. QED
    BY <1>3, <2>1, <2>2
<1>6. NestOK'
  <2> SUFFICES ASSUME NEW d \in 1 .. depth + 1, NEW o \in 1 .. d - 1
               PROVE  \E e \in Entries[calls'[o].dir] : calls'[d].dir \in Under[e]
    BY <1>1 DEF NestOK
  <2>1. o \in 1 .. depth /\ calls'[o].dir = calls[o].dir
    BY <1>3, <1>4
  <2>2. CASE d \in 1 .. depth
    BY <1>4, <2>1, <2>2 DEF StackOK, NestOK
  <2>3. CASE d = depth + 1 /\ o = depth
    <3>1. calls'[d].dir = s /\ s \in Entries[calls'[o].dir]
      BY <1>1, <2>1, <2>3 DEF Call, Top
    <3>2. QED
      BY <1>1, <3>1, UnderClosed
  <2>4. CASE d = depth + 1 /\ o \in 1 .. depth - 1
    <3>1. calls'[d].dir = s /\ depth \in 1 .. depth
      BY <1>1, <1>3, <2>4 DEF Call
    <3>2. PICK e \in Entries[calls[o].dir] : Top.dir \in Under[e]
      BY <2>4, <3>1 DEF StackOK, NestOK, Top
    <3>3. calls[o].dir \in Dirs /\ e \in Dirs \cup Files /\ Top.dir \in Dirs
      <4>1. calls[o] \in CallType
        BY <2>1, ElementOfSeq DEF StackOK, depth
      <4>2. QED
        BY <1>3, <3>2, <4>1, TraverseAssumption DEF CallType
    <3>4. s \in Under[e]
      BY <1>1, <3>2, <3>3, UnderTransitive
    <3>5. QED
      BY <2>1, <3>1, <3>2, <3>4
  <2>5. QED
    BY <1>3, <2>1, <2>2, <2>3, <2>4
<1>7. s \in Under[Root]
  BY <1>1, <1>3, UnderTransitive, TraverseAssumption DEF CallOK, CallType
<1>8. (\A d \in 1 .. depth : CallOK(calls[d]))'
  <2> SUFFICES ASSUME NEW d \in 1 .. depth + 1
               PROVE  CallOK(calls[d])'
    BY <1>1
  <2>1. CASE d \in 1 .. depth - 1
    <3>1. calls'[d] = calls[d] /\ CallOK(calls[d])
      BY <1>1, <1>3, <2>1 DEF StackOK
    <3>2. QED
      BY <1>2, <3>1 DEF CallOK
  <2>2. CASE d = depth
    <3>1. /\ calls'[d].dir = Top.dir /\ calls'[d].unread = Top.unread
          /\ calls'[d].info = Top.info /\ calls'[d].subdirs = Top.subdirs
          /\ calls'[d].phase = Top.phase /\ calls'[d].next = Top.next + 1
      BY <1>1, <1>3, <2>2 DEF CallType
    <3>2. Top.next \in Nat /\ Len(Top.subdirs) \in Nat /\ Top.next <= Len(Top.subdirs)
      BY PushCalls DEF Descend
    <3>3. QED
      BY <1>2, <1>3, <3>1, <3>2 DEF CallOK
  <2>3. CASE d = depth + 1
    <3>1. calls'[d] = Call(s) /\ recursive'
      BY <1>1, <1>2, <2>3
    <3>2. QED
      BY <1>7, <3>1 DEF CallOK, Call, Range
  <2>4. QED
    BY <1>3, <2>1, <2>2, <2>3
<1>9. depth' <= MaxDepth
  <2>1. (calls \in Seq(CallType) /\ NestOK => depth <= MaxDepth)'
    BY NestBound, PTL
  <2>2. QED
    BY <1>1, <1>6, <2>1
<1>10. QED
  BY <1>1, <1>2, <1>3, <1>5, <1>6, <1>8, <1>9 DEF StackOK

\* The call on top while the directory is read: as it is, or with an entry in info.
LEMMA ReadCall ==
  ASSUME StackOK, Reading, NEW c \in {Top} \cup {WithEntry(e) : e \in Top.unread}
  PROVE  /\ c \in CallType /\ CallOK(c) /\ c.dir = Top.dir /\ c.phase = "read"
         /\ c.subdirs = Top.subdirs /\ c.next = Top.next
<1>1. Top \in CallType /\ CallOK(Top) /\ Top.phase = "read"
  BY ClearKeeps DEF Reading
<1>2. ASSUME NEW e \in Top.unread, c = WithEntry(e)
      PROVE  /\ c \in CallType /\ CallOK(c) /\ c.dir = Top.dir /\ c.phase = "read"
             /\ c.subdirs = Top.subdirs /\ c.next = Top.next
  <2>1. e \in Dirs \cup Files \cup {Dot, None}
    BY <1>1 DEF CallType
  <2>2. /\ c.dir = Top.dir /\ c.phase = "read" /\ c.subdirs = Top.subdirs
        /\ c.next = Top.next /\ c.unread = Top.unread \ {e} /\ c.info = e
        /\ c \in CallType
    BY <1>1, <1>2, <2>1 DEF WithEntry, CallType
  <2>3. QED
    BY <1>1, <2>2 DEF CallOK
<1>3. QED
  BY <1>1, <1>2

\* Its list with one more subdirectory.
LEMMA MoreSubdirs ==
  ASSUME NEW c \in CallType, CallOK(c), c.info \in Dirs, recursive,
         NEW b, b = [c EXCEPT !.subdirs = Append(@, c.info)]
  PROVE  /\ b \in CallType /\ CallOK(b) /\ b.dir = c.dir /\ b.phase = c.phase
         /\ b.unread = c.unread /\ b.info = c.info /\ b.next = c.next
         /\ Len(b.subdirs) = Len(c.subdirs) + 1 /\ Len(c.subdirs) \in Nat
         /\ b.subdirs[Len(c.subdirs) + 1] = c.info
         /\ \A n \in 1 .. Len(c.subdirs) : b.subdirs[n] = c.subdirs[n]
         /\ Range(b.subdirs) = Range(c.subdirs) \cup {c.info}
<1>1. c.subdirs \in Seq(Dirs) /\ c.next \in Nat
  BY DEF CallType
<1>2. /\ b.dir = c.dir /\ b.phase = c.phase /\ b.unread = c.unread
      /\ b.info = c.info /\ b.next = c.next /\ b.subdirs = Append(c.subdirs, c.info)
  BY DEF CallType
<1>3. /\ b.subdirs \in Seq(Dirs) /\ Len(b.subdirs) = Len(c.subdirs) + 1
      /\ Len(c.subdirs) \in Nat
      /\ \A n \in 1 .. Len(c.subdirs) : b.subdirs[n] = c.subdirs[n]
      /\ b.subdirs[Len(c.subdirs) + 1] = c.info
  BY <1>1, <1>2, AppendProperties, LenProperties
<1>4. b \in CallType
  BY <1>3 DEF CallType
<1>5. Range(b.subdirs) = Range(c.subdirs) \cup {c.info}
  <2>1. /\ DOMAIN b.subdirs = 1 .. Len(c.subdirs) + 1
        /\ DOMAIN c.subdirs = 1 .. Len(c.subdirs)
    BY <1>1, <1>3, LenProperties
  <2>2. \A n \in 1 .. Len(c.subdirs) + 1 :
           n \in 1 .. Len(c.subdirs) \/ n = Len(c.subdirs) + 1
    BY <1>3
  <2>3. Len(c.subdirs) + 1 \in 1 .. Len(c.subdirs) + 1
        /\ \A n \in 1 .. Len(c.subdirs) : n \in 1 .. Len(c.subdirs) + 1
    BY <1>3
  <2>4. QED
    BY <1>3, <2>1, <2>2, <2>3 DEF Range
<1>6. CallOK(b)
  <2>1. c.info \in Entries[c.dir]
    BY TraverseAssumption DEF CallOK
  <2>2. QED
    BY <1>1, <1>2, <1>3, <1>5, <2>1 DEF CallOK
<1>7. QED
  BY <1>2, <1>3, <1>4, <1>5, <1>6

LEMMA ReadStack ==
  ASSUME StackOK, Reading, recursive' = recursive,
         NEW c \in {Top} \cup {WithEntry(e) : e \in Top.unread},
         \/ SetTop(c) /\ live' = ClearIterPool
         \/ c.info \in Dirs /\ recursive /\ Remember(c.info, c)
  PROVE  StackOK'
<1>1. /\ c \in CallType /\ CallOK(c) /\ c.dir = Top.dir /\ c.subdirs = Top.subdirs
      /\ calls # <<>>
  BY ReadCall DEF Reading
<1>2. /\ ClearIterPool \in [0 .. MaxDepth -> SUBSET Dirs]
      /\ \A k \in 0 .. depth - 1 : ClearIterPool[k] = live[k]
      /\ depth \in Nat \ {0} /\ depth <= MaxDepth /\ MaxDepth \in Nat
      /\ Range(Top.subdirs) \subseteq live[depth - 1]
  BY <1>1, ClearKeeps
<1>3. depth - 1 \in 0 .. depth - 1 /\ depth - 1 \in 0 .. MaxDepth
  BY <1>2
<1>4. CASE SetTop(c) /\ live' = ClearIterPool
  BY <1>1, <1>2, <1>3, <1>4, TopStack
<1>5. ASSUME c.info \in Dirs, recursive, Remember(c.info, c)
      PROVE  StackOK'
  <2> SUFFICES ASSUME NEW b, b = [c EXCEPT !.subdirs = Append(@, c.info)]
               PROVE  StackOK'
    OBVIOUS
  <2>1. /\ b \in CallType /\ CallOK(b) /\ b.dir = Top.dir
        /\ Range(b.subdirs) = Range(c.subdirs) \cup {c.info}
    BY <1>1, <1>5, MoreSubdirs
  <2>2. /\ live' = [ClearIterPool EXCEPT ![depth - 1] = @ \cup {c.info}]
        /\ SetTop(b)
    BY <1>5 DEF Remember
  <2>3. /\ live' \in [0 .. MaxDepth -> SUBSET Dirs]
        /\ \A k \in 0 .. depth - 1 : live[k] \subseteq live'[k]
        /\ Range(b.subdirs) \subseteq live'[depth - 1]
    BY <1>1, <1>2, <1>3, <1>5, <2>1, <2>2
  <2>4. QED
    BY <1>1, <2>1, <2>2, <2>3, TopStack
<1>6. QED
  BY <1>4, <1>5

\* Each step keeps the calls and the pools in order.
LEMMA StackStep == StackOK /\ [Next]_vars => StackOK'
<1> SUFFICES ASSUME StackOK, [Next]_vars
             PROVE  StackOK'
  OBVIOUS
<1>1. CASE Open
  <2>1. calls # <<>> /\ recursive' = recursive /\ live' = live
    BY <1>1 DEF Open
  <2>2. live \in [0 .. MaxDepth -> SUBSET Dirs] /\ \A k \in 0 .. depth - 1 : live'[k] = live[k]
    BY <2>1 DEF StackOK
  <2>3. /\ Top \in CallType /\ CallOK(Top) /\ Range(Top.subdirs) \subseteq live[depth - 1]
    BY <2>1, ClearKeeps
  <2>4. CASE SetTop([Top EXCEPT !.phase = "read", !.unread = Entries[Top.dir] \cup {Dot}])
    <3> SUFFICES ASSUME NEW c, c = [Top EXCEPT !.phase = "read",
                                               !.unread = Entries[Top.dir] \cup {Dot}]
                 PROVE  StackOK'
      OBVIOUS
    <3>1. Entries[Top.dir] \subseteq Dirs \cup Files
      BY <2>3, TraverseAssumption DEF CallType
    <3>2. /\ c \in CallType /\ c.dir = Top.dir /\ c.phase = "read"
          /\ c.unread = Entries[Top.dir] \cup {Dot} /\ c.info = Top.info
          /\ c.subdirs = Top.subdirs /\ c.next = Top.next
      BY <2>3, <3>1 DEF CallType
    <3>3. CallOK(c)
      BY <2>3, <3>2 DEF CallOK
    <3>4. QED
      BY <2>1, <2>2, <2>3, <2>4, <3>2, <3>3, TopStack
  <2>5. CASE calls' = Front(calls)
    BY <2>1, <2>2, <2>5, PopStack
  <2>6. QED
    BY <1>1, <2>4, <2>5 DEF Open
<1>2. ASSUME Read \/ ReadIncomplete \/ ReadFails
      PROVE  StackOK'
  <2>1. Reading /\ recursive' = recursive
    BY <1>2 DEF Read, ReadIncomplete, ReadFails
  <2>2. \E c \in {Top} \cup {WithEntry(e) : e \in Top.unread} :
           \/ SetTop(c) /\ live' = ClearIterPool
           \/ c.info \in Dirs /\ recursive /\ Remember(c.info, c)
    <3>1. CASE Read
      BY <3>1 DEF Read, EnterSubdir, EnterFile, PassOver
    <3>2. CASE ReadIncomplete
      BY <3>2 DEF ReadIncomplete, EnterSubdir, PassOver
    <3>3. CASE ReadFails
      BY <3>3 DEF ReadFails, EnterSubdir, PassOver
    <3>4. QED
      BY <1>2, <3>1, <3>2, <3>3
  <2>3. QED
    BY <2>1, <2>2, ReadStack
<1>3. CASE CloseDir
  <2> SUFFICES ASSUME NEW c, c = [Top EXCEPT !.phase = "descend"]
               PROVE  StackOK'
    OBVIOUS
  <2>1. /\ calls # <<>> /\ recursive' = recursive /\ live' = ClearIterPool
        /\ SetTop(c) /\ Top.unread = {}
    BY <1>3 DEF CloseDir, Reading
  <2>2. /\ ClearIterPool \in [0 .. MaxDepth -> SUBSET Dirs]
        /\ \A k \in 0 .. depth - 1 : ClearIterPool[k] = live[k]
        /\ Top \in CallType /\ CallOK(Top) /\ depth \in Nat \ {0}
        /\ Range(Top.subdirs) \subseteq live[depth - 1]
    BY <2>1, ClearKeeps
  <2>3. /\ c \in CallType /\ c.dir = Top.dir /\ c.unread = {}
        /\ c.info = Top.info /\ c.subdirs = Top.subdirs /\ c.next = Top.next
    BY <2>1, <2>2 DEF CallType
  <2>4. CallOK(c)
    BY <2>2, <2>3 DEF CallOK
  <2>5. depth - 1 \in 0 .. depth - 1
    BY <2>2
  <2>6. QED
    BY <2>1, <2>2, <2>3, <2>4, <2>5, TopStack
<1>4. CASE Descend
  BY <1>4, PushStack
<1>5. CASE Return
  BY <1>5, ClearKeeps, PopStack DEF Return
<1>6. CASE UNCHANGED vars
  <2>1. UNCHANGED <<recursive, calls, live>> /\ depth' = depth
    BY <1>6 DEF vars, depth
  <2>2. QED
    BY <2>1 DEF StackOK, PathsAlive, NestOK, CallOK
<1>7. QED
  BY <1>1, <1>2, <1>3, <1>4, <1>5, <1>6 DEF Next, Step, Ended

-----------------------------------------------------------------------------
(* The counters, and the first invariant.                                   *)

CountersOK ==
  /\ noErrorOnFind \in BOOLEAN
  /\ handled \in [Files -> Nat]
  /\ failures \in [Kinds -> Nat] /\ Failed <= MaxFailures
  /\ told \subseteq Kinds

\* What a failure does to the counts.
LEMMA FailCounts ==
  ASSUME failures \in [Kinds -> Nat], NEW kinds, Fail(kinds)
  PROVE  /\ failures' \in [Kinds -> Nat] /\ Failed' <= MaxFailures
         /\ failures'["read"] = failures["read"] + (IF "read" \in kinds THEN 1 ELSE 0)
         /\ Failed' = 0 => Failed = 0 /\ kinds \cap Kinds = {}
<1>1. /\ failures' = [k \in Kinds |-> failures[k] + IF k \in kinds THEN 1 ELSE 0]
      /\ Failed' <= MaxFailures
  BY DEF Fail
<1>2. failures' \in [Kinds -> Nat]
  BY <1>1
<1>3. \A k \in Kinds : /\ failures[k] \in Nat /\ failures'[k] \in Nat
                       /\ failures'[k] = failures[k] + IF k \in kinds THEN 1 ELSE 0
  BY <1>1
<1>4. Kinds = {"open", "read", "merge", "close", "incomplete"}
  BY DEF Kinds
<1>5. ASSUME Failed' = 0
      PROVE  Failed = 0 /\ kinds \cap Kinds = {}
  <2>1. \A k \in Kinds : failures'[k] = 0
    <3>1. failures'["open"] + failures'["read"] + failures'["merge"]
            + failures'["close"] + failures'["incomplete"] = 0
      BY <1>5 DEF Failed
    <3>2. /\ failures'["open"] \in Nat /\ failures'["read"] \in Nat
          /\ failures'["merge"] \in Nat /\ failures'["close"] \in Nat
          /\ failures'["incomplete"] \in Nat
      BY <1>3, <1>4
    <3>3. /\ failures'["open"] = 0 /\ failures'["read"] = 0 /\ failures'["merge"] = 0
          /\ failures'["close"] = 0 /\ failures'["incomplete"] = 0
      <4>1. PICK a \in Nat, b \in Nat, c \in Nat, d \in Nat, e \in Nat :
              /\ a = failures'["open"] /\ b = failures'["read"] /\ c = failures'["merge"]
              /\ d = failures'["close"] /\ e = failures'["incomplete"]
        BY <3>2
      <4>2. a + b + c + d + e = 0
        BY <3>1, <4>1
      <4>3. a = 0 /\ b = 0 /\ c = 0 /\ d = 0 /\ e = 0
        BY <4>2
      <4>4. QED
        BY <4>1, <4>3
    <3>4. QED
      BY <1>4, <3>3
  <2>2. \A k \in Kinds : failures[k] = 0 /\ k \notin kinds
    BY <1>3, <2>1
  <2>3. QED
    BY <1>4, <2>2 DEF Failed
<1>6. QED
  BY <1>1, <1>2, <1>3, <1>4, <1>5

LEMMA CountersStep == CountersOK /\ [Next]_vars => CountersOK'
<1> SUFFICES ASSUME CountersOK, [Next]_vars
             PROVE  CountersOK'
  OBVIOUS
<1>1. noErrorOnFind' = noErrorOnFind
  BY DEF Next, Step, Open, Read, ReadIncomplete, ReadFails, CloseDir, Descend,
         Return, Ended, vars
<1>2. handled' \in [Files -> Nat]
  <2>1. handled' = handled \/ \E f \in Files : handled' = [handled EXCEPT ![f] = @ + 1]
    BY DEF Next, Step, Open, Read, ReadIncomplete, ReadFails, CloseDir, Descend,
           Return, Ended, vars, EnterSubdir, EnterFile, PassOver
  <2>2. QED
    BY <2>1 DEF CountersOK
<1>3. failures' \in [Kinds -> Nat] /\ Failed' <= MaxFailures
  <2>1. UNCHANGED failures \/ \E kinds : Fail(kinds)
    <3>1. \A c, kinds : EnterSubdir(c, kinds) => \E ks : Fail(ks)
      BY DEF EnterSubdir
    <3>2. \A c : EnterFile(c) => UNCHANGED failures \/ \E ks : Fail(ks)
      BY DEF EnterFile
    <3>3. \A c, kinds : PassOver(c, kinds) => \E ks : Fail(ks)
      BY DEF PassOver
    <3>4. Read => UNCHANGED failures \/ \E ks : Fail(ks)
      BY <3>1, <3>2, <3>3 DEF Read
    <3>5. ReadIncomplete \/ ReadFails => \E ks : Fail(ks)
      BY <3>1, <3>3 DEF ReadIncomplete, ReadFails
    <3>6. QED
      BY <3>4, <3>5 DEF Next, Step, Open, CloseDir, Descend, Return, Ended, vars
  <2>2. UNCHANGED failures => Failed' = Failed
    BY DEF Failed
  <2>3. QED
    BY <2>1, <2>2, FailCounts DEF CountersOK
<1>4. told' \subseteq Kinds
  <2>1. told' = told \/ \E k \in Kinds : told' = told \cup {k}
    BY DEF Next, Step, Open, Read, ReadIncomplete, ReadFails, CloseDir, Descend,
           Return, Ended, vars, EnterSubdir, EnterFile, PassOver, TellIfAsked, Tell, Kinds
  <2>2. QED
    BY <2>1 DEF CountersOK
<1>5. QED
  BY <1>1, <1>2, <1>3, <1>4 DEF CountersOK

LEMMA StackInit == Init => StackOK /\ CountersOK
<1> SUFFICES ASSUME Init
             PROVE  StackOK /\ CountersOK
  OBVIOUS
<1>1. /\ Call(Root) \in CallType /\ MaxDepth \in Nat /\ Root \in Dirs
      /\ Root \in Under[Root]
  BY TraverseAssumption, MaxDepthType, UnderClosed DEF CallType, Call
<1>2. /\ calls \in Seq(CallType) /\ depth = 1 /\ calls[1] = Call(Root)
  BY <1>1 DEF Init, depth
<1>3. MaxDepth >= 1
  <2>1. MaxDepth # 0
    BY <1>1, TraverseAssumption, FS_EmptySet DEF MaxDepth
  <2>2. QED
    BY <1>1, <2>1
<1>4. PathsAlive
  BY <1>2 DEF PathsAlive, Call, Range
<1>5. NestOK
  BY <1>2 DEF NestOK
<1>6. \A d \in 1 .. depth : CallOK(calls[d])
  BY <1>1, <1>2 DEF CallOK, Call, Range
<1>7. CountersOK
  BY TraverseAssumption DEF Init, CountersOK, Failed, Kinds
<1>8. QED
  BY <1>1, <1>2, <1>3, <1>4, <1>5, <1>6, <1>7 DEF StackOK, Init

LEMMA StackIsSafe == Spec => [](StackOK /\ CountersOK)
<1>1. (StackOK /\ CountersOK) /\ [Next]_vars => (StackOK /\ CountersOK)'
  BY StackStep, CountersStep
<1>2. QED
  BY <1>1, StackInit, PTL DEF Spec

\* However many pools are cleared, a path that the traversal still needs, of the
\* directory it reads and of every one it has yet to enter, stays allocated: in
\* every tree, at every depth, whatever fails.
THEOREM PathsStayAlive == Spec => []PathsInv
<1>1. StackOK /\ CountersOK => PathsInv
  BY DEF StackOK, CountersOK, PathsInv, TypeOK
<1>2. QED
  BY <1>1, StackIsSafe, PTL

-----------------------------------------------------------------------------
(* The places where a file will be come upon.                               *)

LEMMA FewerPlaces ==
  ASSUME NEW P, IsFiniteSet(P), NEW Q, Q \subseteq P
  PROVE  /\ IsFiniteSet(Q) /\ Cardinality(P) \in Nat /\ Cardinality(Q) \in Nat
         /\ Cardinality(Q) <= Cardinality(P)
BY FS_Subset, FS_CardinalityType

LEMMA PlaceAdded ==
  ASSUME NEW P, IsFiniteSet(P), NEW Q, NEW y, Q \subseteq P \cup {y}
  PROVE  /\ IsFiniteSet(Q) /\ Cardinality(P) \in Nat /\ Cardinality(Q) \in Nat
         /\ Cardinality(Q) <= Cardinality(P) + 1
<1>1. /\ IsFiniteSet(P \cup {y}) /\ Cardinality(P) \in Nat
      /\ Cardinality(P \cup {y}) <= Cardinality(P) + 1
  BY FS_AddElement, FS_CardinalityType
<1>2. /\ IsFiniteSet(Q) /\ Cardinality(Q) \in Nat /\ Cardinality(P \cup {y}) \in Nat
      /\ Cardinality(Q) <= Cardinality(P \cup {y})
  BY <1>1, FewerPlaces
<1>3. QED
  BY <1>1, <1>2

LEMMA PlaceGone ==
  ASSUME NEW P, IsFiniteSet(P), NEW x \in P, NEW Q, Q \subseteq P \ {x}
  PROVE  /\ IsFiniteSet(Q) /\ Cardinality(P) \in Nat /\ Cardinality(Q) \in Nat
         /\ Cardinality(Q) + 1 <= Cardinality(P)
<1>1. /\ IsFiniteSet(P \ {x}) /\ Cardinality(P) \in Nat
      /\ Cardinality(P \ {x}) = Cardinality(P) - 1
  BY FS_RemoveElement, FS_CardinalityType
<1>2. /\ IsFiniteSet(Q) /\ Cardinality(Q) \in Nat /\ Cardinality(P \ {x}) \in Nat
      /\ Cardinality(Q) <= Cardinality(P \ {x})
  BY <1>1, FewerPlaces
<1>3. QED
  BY <1>1, <1>2

LEMMA PlaceMoved ==
  ASSUME NEW P, IsFiniteSet(P), NEW x \in P, NEW y, NEW Q, Q \subseteq (P \ {x}) \cup {y}
  PROVE  /\ IsFiniteSet(Q) /\ Cardinality(P) \in Nat /\ Cardinality(Q) \in Nat
         /\ Cardinality(Q) <= Cardinality(P)
<1>1. /\ IsFiniteSet(P \ {x}) /\ Cardinality(P) \in Nat /\ Cardinality(P \ {x}) \in Nat
      /\ Cardinality(P \ {x}) + 1 <= Cardinality(P)
  BY PlaceGone
<1>2. /\ IsFiniteSet(Q) /\ Cardinality(Q) \in Nat
      /\ Cardinality(Q) <= Cardinality(P \ {x}) + 1
  BY <1>1, PlaceAdded
<1>3. QED
  BY <1>1, <1>2

\* What a step may do to the places of file f, and to the count of file f.
Moves(f) ==
  /\ recursive' = recursive
  /\ failures'["read"] >= failures["read"] /\ (Failed' = 0 => Failed = 0)
  /\ \/ handled'[f] = handled[f] /\ Places(f)' \subseteq Places(f)
     \/ /\ handled'[f] = handled[f]
        /\ \E x \in Places(f) : \E y : Places(f)' \subseteq (Places(f) \ {x}) \cup {y}
     \/ /\ handled'[f] = handled[f] /\ failures'["read"] = failures["read"] + 1
        /\ \E y : Places(f)' \subseteq Places(f) \cup {y}
     \/ /\ handled'[f] = handled[f] + 1 /\ f \in Asked
        /\ \E x \in Places(f) : Places(f)' \subseteq Places(f) \ {x}
  /\ f \in Asked /\ Failed' = 0 /\ Places(f) # {} => Places(f)' # {} \/ handled'[f] > 0

\* Such a step keeps the count right.
LEMMA MovesCount ==
  ASSUME NEW f \in Files, FileOK(f), CountersOK, CountersOK', Moves(f)
  PROVE  FileOK(f)'
<1>1. Asked' = Asked
  BY DEF Moves, Asked, InScope, Passes
<1>2. /\ handled[f] \in Nat /\ handled'[f] \in Nat
      /\ failures["read"] \in Nat /\ failures'["read"] \in Nat
  BY DEF CountersOK, Kinds
<1>3. PICK P, Q : P = Places(f) /\ Q = Places(f)'
  OBVIOUS
<1>4. /\ IsFiniteSet(P) /\ Cardinality(P) \in Nat
      /\ handled[f] + Cardinality(P) <= 1 + failures["read"]
      /\ handled[f] > 0 => f \in Asked
      /\ f \in Asked /\ Failed = 0 => handled[f] > 0 \/ P # {}
  BY <1>3, FewerPlaces DEF FileOK
<1>5. /\ IsFiniteSet(Q)
      /\ handled'[f] + Cardinality(Q) <= 1 + failures'["read"]
      /\ handled'[f] = handled[f] \/ (handled'[f] = handled[f] + 1 /\ f \in Asked)
  <2>1. failures'["read"] >= failures["read"]
    BY DEF Moves
  <2>2. CASE handled'[f] = handled[f] /\ Q \subseteq P
    <3>1. IsFiniteSet(Q) /\ Cardinality(Q) \in Nat /\ Cardinality(Q) <= Cardinality(P)
      BY <1>4, <2>2, FewerPlaces
    <3>2. QED
      BY <1>2, <1>4, <2>1, <2>2, <3>1
  <2>3. CASE handled'[f] = handled[f] /\ \E x \in P : \E y : Q \subseteq (P \ {x}) \cup {y}
    <3>1. IsFiniteSet(Q) /\ Cardinality(Q) \in Nat /\ Cardinality(Q) <= Cardinality(P)
      BY <1>4, <2>3, PlaceMoved
    <3>2. QED
      BY <1>2, <1>4, <2>1, <2>3, <3>1
  <2>4. CASE /\ handled'[f] = handled[f] /\ failures'["read"] = failures["read"] + 1
             /\ \E y : Q \subseteq P \cup {y}
    <3>1. IsFiniteSet(Q) /\ Cardinality(Q) \in Nat /\ Cardinality(Q) <= Cardinality(P) + 1
      BY <1>4, <2>4, PlaceAdded
    <3>2. QED
      BY <1>2, <1>4, <2>4, <3>1
  <2>5. CASE /\ handled'[f] = handled[f] + 1 /\ f \in Asked
             /\ \E x \in P : Q \subseteq P \ {x}
    <3>1. IsFiniteSet(Q) /\ Cardinality(Q) \in Nat /\ Cardinality(Q) + 1 <= Cardinality(P)
      BY <1>4, <2>5, PlaceGone
    <3>2. QED
      BY <1>2, <1>4, <2>1, <2>5, <3>1
  <2>6. QED
    BY <1>3, <2>2, <2>3, <2>4, <2>5 DEF Moves
<1>6. f \in Asked /\ Failed' = 0 => handled'[f] > 0 \/ Q # {}
  BY <1>2, <1>3, <1>4, <1>5 DEF Moves
<1>7. handled'[f] > 0 => f \in Asked
  BY <1>2, <1>4, <1>5
<1>8. QED
  BY <1>1, <1>3, <1>5, <1>6, <1>7 DEF FileOK

LEMMA InPlacesIn ==
  ASSUME NEW r, NEW c, NEW d, NEW f, NEW p
  PROVE  p \in PlacesIn(r, c, d, f) <=>
           \/ p = <<d, "open", 0>> /\ c.phase = "open" /\ DirLeadsTo(r, c.dir, f)
           \/ \E e \in c.unread \ {Dot} : LeadsTo(r, e, f) /\ p = <<d, "unread", e>>
           \/ \E n \in c.next .. Len(c.subdirs) :
                LeadsTo(r, c.subdirs[n], f) /\ p = <<d, "list", n>>
BY DEF PlacesIn

\* The places of the calls below the one on top.
Below(f) == UNION {PlacesIn(recursive, calls[d], d, f) : d \in 1 .. depth - 1}

LEMMA BelowIsLower ==
  ASSUME StackOK, calls # <<>>, NEW f, NEW k, NEW n
  PROVE  <<depth, k, n>> \notin Below(f)
<1>1. depth \in Nat \ {0}
  BY ClearKeeps
<1>2. ASSUME NEW d \in 1 .. depth - 1, <<depth, k, n>> \in PlacesIn(recursive, calls[d], d, f)
      PROVE  FALSE
  <2>1. d # depth
    BY <1>1
  <2>2. QED
    BY <1>2, <2>1, InPlacesIn
<1>3. QED
  BY <1>2 DEF Below

LEMMA PlacesParts ==
  ASSUME StackOK, calls # <<>>, NEW f
  PROVE  Places(f) = Below(f) \cup PlacesIn(recursive, Top, depth, f)
<1>1. depth \in Nat \ {0}
  BY ClearKeeps
<1>2. 1 .. depth = (1 .. depth - 1) \cup {depth}
  BY <1>1
<1>3. QED
  BY <1>2 DEF Places, Below, Top

\* After a step of the call on top.
LEMMA TopPlaces ==
  ASSUME StackOK, calls # <<>>, recursive' = recursive, NEW c \in CallType, SetTop(c),
         NEW f
  PROVE  Places(f)' = Below(f) \cup PlacesIn(recursive, c, depth, f)
<1>1. depth \in Nat \ {0} /\ calls \in Seq(CallType)
  BY ClearKeeps DEF StackOK
<1>2. /\ Len(calls') = depth
      /\ \A d \in 1 .. depth : calls'[d] = IF d = depth THEN c ELSE calls[d]
  <2>1. depth \in 1 .. Len(calls)
    BY <1>1 DEF depth
  <2>2. calls' = [calls EXCEPT ![depth] = c]
    BY DEF SetTop
  <2>3. QED
    BY <1>1, <2>1, <2>2, ExceptSeq DEF depth
<1>3. depth' = depth
  BY <1>2 DEF depth
<1>4. 1 .. depth = (1 .. depth - 1) \cup {depth} /\ depth \notin 1 .. depth - 1
  BY <1>1
<1>5. Places(f)' = UNION {PlacesIn(recursive, calls'[d], d, f) : d \in 1 .. depth}
  BY <1>3 DEF Places
<1>6. calls'[depth] = c /\ \A d \in 1 .. depth - 1 : calls'[d] = calls[d]
  BY <1>2, <1>4
<1>7. QED
  BY <1>4, <1>5, <1>6 DEF Below

\* After the return of the call on top.
LEMMA PopPlaces ==
  ASSUME StackOK, calls # <<>>, recursive' = recursive, calls' = Front(calls),
         live' \in [0 .. MaxDepth -> SUBSET Dirs],
         \A k \in 0 .. depth - 1 : live'[k] = live[k], NEW f
  PROVE  Places(f)' = Below(f)
<1>1. depth' = depth - 1 /\ \A d \in 1 .. depth - 1 : calls'[d] = calls[d]
  BY PopStack
<1>2. QED
  BY <1>1 DEF Places, Below

\* After the descent into s.
LEMMA PushPlaces ==
  ASSUME StackOK, Descend, NEW s, s = Top.subdirs[Top.next], NEW f
  PROVE  Places(f)' = Below(f) \cup PlacesIn(recursive, [Top EXCEPT !.next = @ + 1], depth, f)
                        \cup PlacesIn(recursive, Call(s), depth + 1, f)
<1>1. /\ depth' = depth + 1 /\ calls'[depth + 1] = Call(s)
      /\ calls'[depth] = [Top EXCEPT !.next = @ + 1]
      /\ \A d \in 1 .. depth - 1 : calls'[d] = calls[d]
  BY PushCalls
<1>2. depth \in Nat \ {0} /\ recursive' = recursive
  BY ClearKeeps DEF Descend
<1>3. 1 .. depth + 1 = (1 .. depth - 1) \cup {depth} \cup {depth + 1}
  BY <1>2
<1>4. Places(f)' = UNION {PlacesIn(recursive, calls'[d], d, f) : d \in 1 .. depth + 1}
  BY <1>1, <1>2 DEF Places
<1>5. QED
  BY <1>1, <1>3, <1>4 DEF Below

\* Entry e of directory d leads to file f for at most one e; going into a
\* directory that leads to f is to come upon f in it.
LEMMA OneWay ==
  ASSUME NEW r, NEW f \in Files, NEW d \in Dirs, NEW e \in Entries[d], LeadsTo(r, e, f),
         NEW o \in Entries[d], LeadsTo(r, o, f)
  PROVE  o = e
BY SiblingsApart DEF LeadsTo

LEMMA WayIn ==
  ASSUME NEW f \in Files, NEW s \in Dirs
  PROVE  LeadsTo(TRUE, s, f) <=> DirLeadsTo(TRUE, s, f)
<1>1. s # f
  BY TraverseAssumption
<1>2. ASSUME NEW e \in Entries[s], f \in Under[e]
      PROVE  f \in Under[s]
  BY <1>2, UnderTransitive, UnderClosed
<1>3. QED
  BY <1>1, <1>2, UnderDir DEF LeadsTo, DirLeadsTo

-----------------------------------------------------------------------------
(* What each step does to the places of a file.                             *)

LEMMA SameFailures ==
  ASSUME CountersOK, UNCHANGED failures
  PROVE  failures'["read"] >= failures["read"] /\ (Failed' = 0 => Failed = 0)
BY DEF CountersOK, Failed, Kinds

LEMMA MoreFailures ==
  ASSUME CountersOK, NEW kinds, Fail(kinds)
  PROVE  /\ failures'["read"] >= failures["read"] /\ (Failed' = 0 => Failed = 0)
         /\ "read" \in kinds => failures'["read"] = failures["read"] + 1
         /\ kinds \cap Kinds # {} => Failed' # 0
<1>1. failures["read"] \in Nat
  BY DEF CountersOK, Kinds
<1>2. QED
  BY <1>1, FailCounts DEF CountersOK

LEMMA OpenMoves == ASSUME StackOK, CountersOK, Open, NEW f \in Files PROVE Moves(f)
<1> DEFINE x == <<depth, "open", 0>>
<1>1. /\ calls # <<>> /\ recursive' = recursive /\ live' = live
      /\ handled' = handled /\ Top.phase = "open"
  BY DEF Open
<1>2. /\ Top \in CallType /\ CallOK(Top) /\ Top.dir \in Dirs
      /\ Entries[Top.dir] \subseteq Dirs \cup Files
  BY <1>1, ClearKeeps, TraverseAssumption DEF CallType
<1>3. Places(f) = Below(f) \cup PlacesIn(recursive, Top, depth, f)
  BY <1>1, PlacesParts
<1>4. ASSUME Fail({"open"}), calls' = Front(calls)
      PROVE  Moves(f)
  <2>1. live' \in [0 .. MaxDepth -> SUBSET Dirs] /\ \A k \in 0 .. depth - 1 : live'[k] = live[k]
    BY <1>1 DEF StackOK
  <2>2. Places(f)' \subseteq Places(f)
    BY <1>1, <1>3, <1>4, <2>1, PopPlaces
  <2>3. Failed' # 0 /\ failures'["read"] >= failures["read"]
    BY <1>4, MoreFailures DEF Kinds
  <2>4. QED
    BY <1>1, <2>2, <2>3 DEF Moves
<1>5. ASSUME UNCHANGED failures, NEW c,
             c = [Top EXCEPT !.phase = "read", !.unread = Entries[Top.dir] \cup {Dot}],
             SetTop(c)
      PROVE  Moves(f)
  <2>1. /\ c \in CallType /\ c.dir = Top.dir /\ c.phase = "read"
        /\ c.unread \ {Dot} = Entries[Top.dir]
        /\ c.subdirs = Top.subdirs /\ c.next = Top.next
    <3>1. /\ c \in CallType /\ c.dir = Top.dir /\ c.phase = "read"
          /\ c.unread = Entries[Top.dir] \cup {Dot}
          /\ c.subdirs = Top.subdirs /\ c.next = Top.next
      BY <1>2, <1>5 DEF CallType
    <3>2. Dot \notin Entries[Top.dir]
      BY <1>2, TraverseAssumption
    <3>3. QED
      BY <3>1, <3>2
  <2>2. Places(f)' = Below(f) \cup PlacesIn(recursive, c, depth, f)
    BY <1>1, <1>5, <2>1, TopPlaces
  <2>3. failures'["read"] >= failures["read"] /\ (Failed' = 0 => Failed = 0)
    BY <1>5, SameFailures
  <2>4. Top.unread \ {Dot} \subseteq Entries[Top.dir]
    BY <1>2 DEF CallOK
  <2>5. ASSUME NEW e \in Entries[Top.dir], LeadsTo(recursive, e, f)
        PROVE  Moves(f)
    <3> DEFINE y == <<depth, "unread", e>>
    <3>1. x \in Places(f)
      BY <1>1, <1>3, <2>5, InPlacesIn DEF DirLeadsTo
    <3>2. y \in Places(f)'
      BY <2>1, <2>2, <2>5, InPlacesIn
    <3>3. ASSUME NEW p \in PlacesIn(recursive, c, depth, f)
          PROVE  p = y \/ (p \in PlacesIn(recursive, Top, depth, f) /\ p # x)
      <4>1. CASE \E o \in c.unread \ {Dot} : LeadsTo(recursive, o, f) /\ p = <<depth, "unread", o>>
        BY <1>2, <2>1, <2>5, <4>1, OneWay
      <4>2. CASE \E n \in c.next .. Len(c.subdirs) :
                   LeadsTo(recursive, c.subdirs[n], f) /\ p = <<depth, "list", n>>
        BY <2>1, <4>2, InPlacesIn
      <4>3. QED
        BY <2>1, <3>3, <4>1, <4>2, InPlacesIn
    <3>4. x \notin Below(f)
      BY <1>1, BelowIsLower
    <3>5. Places(f)' \subseteq (Places(f) \ {x}) \cup {y}
      BY <1>3, <2>2, <3>3, <3>4
    <3>6. QED
      BY <1>1, <2>3, <3>1, <3>2, <3>5 DEF Moves
  <2>6. ASSUME \A e \in Entries[Top.dir] : ~LeadsTo(recursive, e, f)
        PROVE  Moves(f)
    <3>1. PlacesIn(recursive, c, depth, f) = PlacesIn(recursive, Top, depth, f)
      <4>1. ASSUME NEW p
            PROVE  p \in PlacesIn(recursive, c, depth, f)
                     <=> p \in PlacesIn(recursive, Top, depth, f)
        BY <2>1, <2>4, <2>6, InPlacesIn DEF DirLeadsTo
      <4>2. QED
        BY <4>1
    <3>2. Places(f)' = Places(f)
      BY <1>3, <2>2, <3>1
    <3>3. QED
      BY <1>1, <2>3, <3>2 DEF Moves
  <2>7. QED
    BY <2>5, <2>6
<1>6. QED
  BY <1>4, <1>5 DEF Open

\* While the directory is read, with the entries of E taken out.
LEMMA ReadPlaces ==
  ASSUME StackOK, Reading, recursive' = recursive, NEW f, NEW c \in CallType, NEW E,
         c.dir = Top.dir, c.phase = "read", c.unread = Top.unread \ E, c.next = Top.next,
         c.subdirs = Top.subdirs, SetTop(c)
  PROVE  Places(f)' = Places(f) \ {<<depth, "unread", e>> : e \in E}
<1>1. calls # <<>> /\ Top.phase = "read"
  BY DEF Reading
<1>2. Places(f) = Below(f) \cup PlacesIn(recursive, Top, depth, f)
  BY <1>1, PlacesParts
<1>3. Places(f)' = Below(f) \cup PlacesIn(recursive, c, depth, f)
  BY <1>1, TopPlaces
<1>4. Below(f) \cap {<<depth, "unread", e>> : e \in E} = {}
  BY <1>1, BelowIsLower
<1>5. ASSUME NEW p
      PROVE  p \in PlacesIn(recursive, c, depth, f)
               <=> p \in PlacesIn(recursive, Top, depth, f) \ {<<depth, "unread", e>> : e \in E}
  BY <1>1, InPlacesIn
<1>6. QED
  BY <1>2, <1>3, <1>4, <1>5

\* The same with one more subdirectory in the list.
LEMMA ListPlaces ==
  ASSUME StackOK, Reading, recursive' = recursive, NEW f, NEW c \in CallType, NEW E,
         c.dir = Top.dir, c.phase = "read", c.unread = Top.unread \ E, c.next = Top.next,
         Len(c.subdirs) = Len(Top.subdirs) + 1, SetTop(c),
         \A n \in 1 .. Len(Top.subdirs) : c.subdirs[n] = Top.subdirs[n]
  PROVE  \A p : p \in Places(f)' <=>
                  \/ p \in Places(f) /\ \A e \in E : p # <<depth, "unread", e>>
                  \/ /\ p = <<depth, "list", Len(c.subdirs)>>
                     /\ LeadsTo(recursive, c.subdirs[Len(c.subdirs)], f)
<1> SUFFICES ASSUME NEW k, k = Len(Top.subdirs) + 1, NEW i, i = c.subdirs[k]
             PROVE  \A p : p \in Places(f)' <=>
                            \/ p \in Places(f) /\ \A e \in E : p # <<depth, "unread", e>>
                            \/ p = <<depth, "list", k>> /\ LeadsTo(recursive, i, f)
  OBVIOUS
<1> DEFINE gone == {<<depth, "unread", e>> : e \in E}
<1>1. calls # <<>> /\ Top.phase = "read"
  BY DEF Reading
<1>2. /\ Top.next \in Nat \ {0} /\ Len(Top.subdirs) \in Nat /\ Top.next <= k
  BY <1>1, ClearKeeps, LenProperties DEF CallType, CallOK
<1>3. Places(f) = Below(f) \cup PlacesIn(recursive, Top, depth, f)
  BY <1>1, PlacesParts
<1>4. Places(f)' = Below(f) \cup PlacesIn(recursive, c, depth, f)
  BY <1>1, TopPlaces
<1>5. Below(f) \cap gone = {}
  BY <1>1, BelowIsLower
<1>6. /\ Top.next .. k = (Top.next .. Len(Top.subdirs)) \cup {k}
      /\ \A n \in Top.next .. Len(Top.subdirs) : c.subdirs[n] = Top.subdirs[n]
  BY <1>2
<1>7. \A p : (\E n \in c.next .. Len(c.subdirs) :
                LeadsTo(recursive, c.subdirs[n], f) /\ p = <<depth, "list", n>>)
             <=> \/ \E n \in Top.next .. Len(Top.subdirs) :
                      LeadsTo(recursive, Top.subdirs[n], f) /\ p = <<depth, "list", n>>
                 \/ LeadsTo(recursive, i, f) /\ p = <<depth, "list", k>>
  BY <1>6
<1>8. ASSUME NEW p
      PROVE  p \in PlacesIn(recursive, c, depth, f)
               <=> \/ p \in PlacesIn(recursive, Top, depth, f) \ gone
                   \/ LeadsTo(recursive, i, f) /\ p = <<depth, "list", k>>
  BY <1>1, <1>7, InPlacesIn
<1>9. QED
  BY <1>3, <1>4, <1>5, <1>8

\* An entry that does not lead to the file is no place for it.
LEMMA NoPlace ==
  ASSUME StackOK, calls # <<>>, NEW f, NEW e, e = Dot \/ ~LeadsTo(recursive, e, f)
  PROVE  <<depth, "unread", e>> \notin Places(f)
<1>1. <<depth, "unread", e>> \notin PlacesIn(recursive, Top, depth, f)
  BY InPlacesIn
<1>2. QED
  BY <1>1, PlacesParts, BelowIsLower

\* The call as it is, or with an entry taken out, which the step passes over: so
\* it may, if the entry does not lead to the file or something has failed.
LEMMA SkipMoves ==
  ASSUME StackOK, Reading, recursive' = recursive, NEW f \in Files, NEW E,
         NEW c \in {Top} \cup {WithEntry(e) : e \in Top.unread},
         c.unread = Top.unread \ E, SetTop(c), handled'[f] = handled[f],
         failures'["read"] >= failures["read"], Failed' = 0 => Failed = 0,
         f \in Asked /\ Failed' = 0 => \A e \in E : e = Dot \/ ~LeadsTo(recursive, e, f)
  PROVE  Moves(f)
<1>1. /\ c \in CallType /\ c.dir = Top.dir /\ c.phase = "read"
      /\ c.subdirs = Top.subdirs /\ c.next = Top.next /\ calls # <<>> /\ Top.phase = "read"
  BY ReadCall DEF Reading
<1>2. Places(f)' = Places(f) \ {<<depth, "unread", e>> : e \in E}
  BY <1>1, ReadPlaces
<1>3. ASSUME NEW e, e = Dot \/ ~LeadsTo(recursive, e, f)
      PROVE  <<depth, "unread", e>> \notin Places(f)
  BY <1>1, <1>3, NoPlace
<1>4. f \in Asked /\ Failed' = 0 => Places(f)' = Places(f)
  BY <1>2, <1>3
<1>5. QED
  BY <1>2, <1>4 DEF Moves

\* The entry is a subdirectory and is remembered; after a failed read, whatever
\* was read before.
LEMMA RememberMoves ==
  ASSUME StackOK, Reading, recursive' = recursive, NEW f \in Files, NEW E,
         NEW c \in {Top} \cup {WithEntry(e) : e \in Top.unread},
         c.unread = Top.unread \ E, Remember(c.info, c), c.info \in Dirs, recursive,
         handled'[f] = handled[f],
         failures'["read"] >= failures["read"], Failed' = 0 => Failed = 0,
         \/ E = {c.info} /\ c.info \in Top.unread
         \/ E = {} /\ failures'["read"] = failures["read"] + 1
  PROVE  Moves(f)
<1> SUFFICES ASSUME NEW b, b = [c EXCEPT !.subdirs = Append(@, c.info)],
                    NEW i \in Dirs, i = c.info, NEW k, k = Len(Top.subdirs) + 1
             PROVE  Moves(f)
  OBVIOUS
<1>1. /\ c \in CallType /\ CallOK(c) /\ c.dir = Top.dir /\ c.phase = "read"
      /\ c.subdirs = Top.subdirs /\ c.next = Top.next /\ calls # <<>> /\ Top.phase = "read"
  BY ReadCall DEF Reading
<1>2. /\ b \in CallType /\ b.dir = Top.dir /\ b.phase = "read"
      /\ b.unread = Top.unread \ E /\ b.next = Top.next
      /\ Len(b.subdirs) = k /\ b.subdirs[k] = i
      /\ \A n \in 1 .. Len(Top.subdirs) : b.subdirs[n] = Top.subdirs[n]
  BY <1>1, MoreSubdirs
<1>3. SetTop(b)
  BY DEF Remember
<1> DEFINE y == <<depth, "list", k>>
<1>4. \A p : p \in Places(f)' <=>
                \/ p \in Places(f) /\ \A e \in E : p # <<depth, "unread", e>>
                \/ p = y /\ LeadsTo(recursive, i, f)
  <2>1. \A p : p \in Places(f)' <=>
                  \/ p \in Places(f) /\ \A e \in E : p # <<depth, "unread", e>>
                  \/ /\ p = <<depth, "list", Len(b.subdirs)>>
                     /\ LeadsTo(recursive, b.subdirs[Len(b.subdirs)], f)
    <3>1. b.dir = Top.dir /\ b.phase = "read" /\ b.unread = Top.unread \ E /\ b.next = Top.next
      BY <1>2
    <3>2. Len(b.subdirs) = Len(Top.subdirs) + 1
      BY <1>2
    <3>3. \A n \in 1 .. Len(Top.subdirs) : b.subdirs[n] = Top.subdirs[n]
      BY <1>2
    <3>4. b \in CallType
      BY <1>2
    <3> HIDE DEF y
    <3>5. QED
      BY <3>1, <3>2, <3>3, <3>4, <1>3, ListPlaces
  <2>2. QED
    BY <1>2, <2>1
<1>5. CASE E = {i} /\ i \in Top.unread
  <2> DEFINE x == <<depth, "unread", i>>
  <2>1. \A p : p \in Places(f)' <=>
                  (p \in Places(f) /\ p # x) \/ (p = y /\ LeadsTo(recursive, i, f))
    BY <1>4, <1>5
  <2>2. x \in Places(f) <=> LeadsTo(recursive, i, f)
    <3>1. i # Dot
      BY TraverseAssumption
    <3>2. LeadsTo(recursive, i, f) => x \in PlacesIn(recursive, Top, depth, f)
      BY <1>5, <3>1, InPlacesIn
    <3>3. ~LeadsTo(recursive, i, f) => x \notin Places(f)
      BY <1>1, NoPlace
    <3>4. QED
      BY <1>1, <3>2, <3>3, PlacesParts
  <2>3. CASE LeadsTo(recursive, i, f)
    <3>1. Places(f)' \subseteq (Places(f) \ {x}) \cup {y} /\ y \in Places(f)'
      BY <2>1, <2>3
    <3>2. QED
      BY <2>2, <2>3, <3>1 DEF Moves
  <2>4. CASE ~LeadsTo(recursive, i, f)
    <3>1. Places(f)' = Places(f)
      BY <2>1, <2>2, <2>4
    <3>2. QED
      BY <3>1 DEF Moves
  <2>5. QED
    BY <2>3, <2>4
<1>6. CASE E = {} /\ failures'["read"] = failures["read"] + 1
  <2>1. Places(f) \subseteq Places(f)' /\ Places(f)' \subseteq Places(f) \cup {y}
    BY <1>4, <1>6
  <2>2. QED
    BY <1>6, <2>1 DEF Moves
<1>7. QED
  BY <1>5, <1>6

\* The entry is a file that passes the filter, and is handled.
LEMMA HandleMoves ==
  ASSUME StackOK, CountersOK, Reading, recursive' = recursive, NEW f \in Files,
         NEW e \in Top.unread \cap Files, Passes(e), SetTop(WithEntry(e)),
         UNCHANGED failures, handled' = [handled EXCEPT ![e] = @ + 1]
  PROVE  Moves(f)
<1> DEFINE x == <<depth, "unread", e>>
<1>1. failures'["read"] >= failures["read"] /\ (Failed' = 0 => Failed = 0)
  BY SameFailures
<1>2. /\ Top \in CallType /\ CallOK(Top) /\ calls # <<>> /\ Top.phase = "read"
  BY ClearKeeps DEF Reading
<1>3. WithEntry(e).unread = Top.unread \ {e}
  BY <1>2 DEF WithEntry, CallType
<1>4. handled \in [Files -> Nat]
  BY DEF CountersOK
<1>5. CASE f # e
  <2>1. handled'[f] = handled[f]
    BY <1>4, <1>5
  <2>2. ~LeadsTo(recursive, e, f)
    BY <1>5, UnderFile DEF LeadsTo
  <2>3. QED
    BY <1>1, <1>3, <2>1, <2>2, SkipMoves
<1>6. CASE f = e
  <2>1. handled'[f] = handled[f] + 1 /\ handled'[f] > 0
    BY <1>4, <1>6
  <2>2. e # Dot /\ LeadsTo(recursive, e, f)
    BY <1>6, TraverseAssumption, UnderFile DEF LeadsTo
  <2>3. f \in Asked
    <3>1. e \in Entries[Top.dir]
      BY <1>2, <2>2 DEF CallOK
    <3>2. recursive => e \in Under[Root]
      BY <1>2, <3>1, UnderTransitive, TraverseAssumption DEF CallOK, CallType
    <3>3. ~recursive => e \in Entries[Root]
      BY <1>2, <3>1 DEF CallOK
    <3>4. QED
      BY <1>6, <3>2, <3>3 DEF Asked, InScope
  <2>4. x \in Places(f)
    <3>1. x \in PlacesIn(recursive, Top, depth, f)
      BY <2>2, InPlacesIn
    <3>2. QED
      BY <1>2, <3>1, PlacesParts
  <2>5. Places(f)' = Places(f) \ {<<depth, "unread", o>> : o \in {e}}
    <3>1. /\ WithEntry(e) \in CallType /\ WithEntry(e).dir = Top.dir
          /\ WithEntry(e).phase = "read" /\ WithEntry(e).subdirs = Top.subdirs
          /\ WithEntry(e).next = Top.next
      BY ReadCall
    <3>2. QED
      BY <1>3, <3>1, ReadPlaces
  <2>6. QED
    BY <1>1, <2>1, <2>3, <2>4, <2>5 DEF Moves
<1>7. QED
  BY <1>5, <1>6

\* The steps that read: what becomes of the entry, and of a failure.
LEMMA EnterSubdirMoves ==
  ASSUME StackOK, CountersOK, Reading, recursive' = recursive, NEW f \in Files,
         NEW c, NEW E, NEW failed, EnterSubdir(c, failed), c.unread = Top.unread \ E,
         \/ E = {c.info} /\ c.info \in Top.unread /\ c = WithEntry(c.info)
         \/ E = {} /\ c = Top /\ failed = {"read"}
  PROVE  Moves(f)
<1>1. c \in {Top} \cup {WithEntry(e) : e \in Top.unread}
  OBVIOUS
<1>2. handled'[f] = handled[f] /\ c.info \in Dirs /\ recursive
  BY DEF EnterSubdir
<1>3. CASE Remember(c.info, c) /\ Fail(failed)
  <2>1. /\ failures'["read"] >= failures["read"] /\ (Failed' = 0 => Failed = 0)
        /\ "read" \in failed => failures'["read"] = failures["read"] + 1
    BY <1>3, MoreFailures
  <2>2. \/ E = {c.info} /\ c.info \in Top.unread
        \/ E = {} /\ failures'["read"] = failures["read"] + 1
    BY <2>1
  <2>3. QED
    BY <1>1, <1>2, <1>3, <2>1, <2>2, RememberMoves
<1>4. CASE Fail(failed \cup {"merge"}) /\ SetTop(c)
  <2>1. failures'["read"] >= failures["read"] /\ Failed' # 0
    BY <1>4, MoreFailures DEF Kinds
  <2>2. QED
    BY <1>1, <1>2, <1>4, <2>1, SkipMoves
<1>5. QED
  BY <1>3, <1>4 DEF EnterSubdir

LEMMA PassOverMoves ==
  ASSUME StackOK, CountersOK, Reading, recursive' = recursive, NEW f \in Files,
         NEW E, NEW c \in {Top} \cup {WithEntry(e) : e \in Top.unread},
         c.unread = Top.unread \ E, NEW failed, PassOver(c, failed),
         \/ failed \cap Kinds # {}
         \/ E = {c.info} /\ c.info \notin Files
  PROVE  Moves(f)
<1>1. /\ handled'[f] = handled[f] /\ SetTop(c) /\ Fail(failed)
      /\ ~(c.info \in Dirs /\ recursive)
  BY DEF PassOver
<1>2. /\ failures'["read"] >= failures["read"] /\ (Failed' = 0 => Failed = 0)
      /\ failed \cap Kinds # {} => Failed' # 0
  BY <1>1, MoreFailures
<1>3. ASSUME c.info \notin Files, c.info # Dot, c.info \in Top.unread
      PROVE  ~LeadsTo(recursive, c.info, f)
  <2>1. calls # <<>>
    BY DEF Reading
  <2>2. c.info \in Dirs
    BY <1>3, <2>1, ClearKeeps DEF CallType
  <2>3. QED
    BY <1>1, <1>3, <2>2 DEF LeadsTo
<1>4. ASSUME c.info \notin Top.unread, E = {c.info}
      PROVE  Moves(f)
  BY <1>1, <1>2, <1>4, SkipMoves
<1>5. QED
  BY <1>1, <1>2, <1>3, <1>4, SkipMoves

LEMMA EnterFileMoves ==
  ASSUME StackOK, CountersOK, Reading, recursive' = recursive, NEW f \in Files,
         NEW e \in Top.unread, EnterFile(WithEntry(e))
  PROVE  Moves(f)
<1>1. /\ calls # <<>> /\ Top \in CallType
      /\ WithEntry(e).info = e /\ WithEntry(e).unread = Top.unread \ {e}
  BY ClearKeeps DEF Reading, WithEntry, CallType
<1>2. e \in Files /\ SetTop(WithEntry(e))
  BY <1>1 DEF EnterFile
<1>3. CASE Passes(e) /\ handled' = [handled EXCEPT ![e] = @ + 1] /\ UNCHANGED failures
  BY <1>2, <1>3, HandleMoves
<1>4. CASE Fail({"merge"}) /\ UNCHANGED handled
  <2>1. failures'["read"] >= failures["read"] /\ Failed' # 0
    BY <1>4, MoreFailures DEF Kinds
  <2>2. QED
    BY <1>1, <1>2, <1>4, <2>1, SkipMoves
<1>5. CASE ~Passes(e) /\ UNCHANGED <<handled, failures>>
  <2>1. failures'["read"] >= failures["read"] /\ (Failed' = 0 => Failed = 0)
    BY <1>5, SameFailures
  <2>2. f \in Asked => ~LeadsTo(recursive, e, f)
    BY <1>2, <1>5, UnderFile DEF Asked, LeadsTo
  <2>3. QED
    BY <1>1, <1>2, <1>5, <2>1, <2>2, SkipMoves
<1>6. QED
  BY <1>1, <1>3, <1>4, <1>5 DEF EnterFile

LEMMA ReadMoves ==
  ASSUME StackOK, CountersOK, Read \/ ReadIncomplete \/ ReadFails, NEW f \in Files
  PROVE  Moves(f)
<1>1. Reading /\ recursive' = recursive
  BY DEF Read, ReadIncomplete, ReadFails
<1>2. ASSUME NEW e \in Top.unread
      PROVE  WithEntry(e).info = e /\ WithEntry(e).unread = Top.unread \ {e}
  BY <1>1, ClearKeeps DEF Reading, WithEntry, CallType
<1>3. CASE Read
  <2>1. PICK e \in Top.unread :
          \/ EnterSubdir(WithEntry(e), {})
          \/ EnterFile(WithEntry(e))
          \/ e \notin Files /\ PassOver(WithEntry(e), {})
    BY <1>3 DEF Read
  <2>2. CASE EnterSubdir(WithEntry(e), {})
    BY <1>1, <1>2, <2>2, EnterSubdirMoves
  <2>3. CASE EnterFile(WithEntry(e))
    BY <1>1, <2>3, EnterFileMoves
  <2>4. CASE e \notin Files /\ PassOver(WithEntry(e), {})
    <3>1. PICK c, E : c = WithEntry(e) /\ E = {e}
      OBVIOUS
    <3>2. /\ c \in {Top} \cup {WithEntry(o) : o \in Top.unread} /\ PassOver(c, {})
          /\ c.unread = Top.unread \ E /\ E = {c.info} /\ c.info \notin Files
      BY <1>2, <2>4, <3>1
    <3>3. QED
      BY <1>1, <3>2, PassOverMoves
  <2>5. QED
    BY <2>1, <2>2, <2>3, <2>4
<1>4. CASE ReadIncomplete
  <2>1. PICK e \in Top.unread :
          \/ EnterSubdir(WithEntry(e), {"incomplete"})
          \/ PassOver(WithEntry(e), {"incomplete"})
    BY <1>4 DEF ReadIncomplete
  <2>2. CASE EnterSubdir(WithEntry(e), {"incomplete"})
    BY <1>1, <1>2, <2>2, EnterSubdirMoves
  <2>3. CASE PassOver(WithEntry(e), {"incomplete"})
    BY <1>1, <1>2, <2>3, PassOverMoves DEF Kinds
  <2>4. QED
    BY <2>1, <2>2, <2>3
<1>5. CASE ReadFails
  <2>1. Top.unread = Top.unread \ {}
    OBVIOUS
  <2>2. CASE EnterSubdir(Top, {"read"})
    BY <1>1, <2>1, <2>2, EnterSubdirMoves
  <2>3. CASE PassOver(Top, {"read"})
    <3>1. {"read"} \cap Kinds # {} /\ Top \in {Top} \cup {WithEntry(e) : e \in Top.unread}
      BY DEF Kinds
    <3>2. QED
      BY <1>1, <2>1, <2>3, <3>1, PassOverMoves
  <2>4. QED
    BY <1>5, <2>2, <2>3 DEF ReadFails
<1>6. QED
  BY <1>3, <1>4, <1>5

LEMMA CloseMoves == ASSUME StackOK, CountersOK, CloseDir, NEW f \in Files PROVE Moves(f)
<1>c. PICK c : c = [Top EXCEPT !.phase = "descend"]
  OBVIOUS
<1>1. /\ calls # <<>> /\ Top.phase = "read" /\ Top.unread = {} /\ SetTop(c)
      /\ recursive' = recursive /\ handled' = handled
      /\ UNCHANGED failures \/ Fail({"close"})
  BY <1>c DEF CloseDir, Reading
<1>2. /\ c \in CallType /\ c.phase = "descend" /\ c.unread = {}
      /\ c.subdirs = Top.subdirs /\ c.next = Top.next
  BY <1>c, <1>1, ClearKeeps DEF CallType
<1>3. /\ Places(f) = Below(f) \cup PlacesIn(recursive, Top, depth, f)
      /\ Places(f)' = Below(f) \cup PlacesIn(recursive, c, depth, f)
  BY <1>1, <1>2, PlacesParts, TopPlaces
<1>4. PlacesIn(recursive, c, depth, f) = PlacesIn(recursive, Top, depth, f)
  <2>1. ASSUME NEW p
        PROVE  p \in PlacesIn(recursive, c, depth, f)
                 <=> p \in PlacesIn(recursive, Top, depth, f)
    BY <1>1, <1>2, InPlacesIn
  <2>2. QED
    BY <2>1
<1>5. failures'["read"] >= failures["read"] /\ (Failed' = 0 => Failed = 0)
  BY <1>1, SameFailures, MoreFailures
<1>6. QED
  BY <1>1, <1>3, <1>4, <1>5 DEF Moves

LEMMA ReturnMoves == ASSUME StackOK, CountersOK, Return, NEW f \in Files PROVE Moves(f)
<1>1. /\ calls # <<>> /\ Top.phase = "descend" /\ Top.next > Len(Top.subdirs)
      /\ recursive' = recursive /\ handled' = handled /\ failures' = failures
      /\ calls' = Front(calls) /\ live' = ClearIterPool
  BY DEF Return
<1>2. /\ Top \in CallType /\ Top.unread = {}
      /\ Top.next \in Nat /\ Len(Top.subdirs) \in Nat
  BY <1>1, ClearKeeps, LenProperties DEF CallType, CallOK
<1>3. Places(f)' = Below(f)
  BY <1>1, ClearKeeps, PopPlaces
<1>4. PlacesIn(recursive, Top, depth, f) = {}
  <2>1. Top.next .. Len(Top.subdirs) = {}
    BY <1>1, <1>2
  <2>2. ASSUME NEW p
        PROVE  p \notin PlacesIn(recursive, Top, depth, f)
    BY <1>1, <1>2, <2>1, InPlacesIn
  <2>3. QED
    BY <2>2
<1>5. Places(f)' = Places(f)
  BY <1>1, <1>3, <1>4, PlacesParts
<1>6. QED
  BY <1>1, <1>5, SameFailures DEF Moves

LEMMA DescendMoves == ASSUME StackOK, CountersOK, Descend, NEW f \in Files PROVE Moves(f)
<1>c. PICK s, c : s = Top.subdirs[Top.next] /\ c = [Top EXCEPT !.next = @ + 1]
  OBVIOUS
<1> DEFINE x == <<depth, "list", Top.next>>
           y == <<depth + 1, "open", 0>>
<1>1. /\ calls # <<>> /\ recursive' = recursive /\ handled' = handled
      /\ failures' = failures /\ Top.phase = "descend" /\ Top.next <= Len(Top.subdirs)
  BY DEF Descend
<1>2. s \in Dirs /\ recursive = TRUE /\ Top.next \in Nat /\ Len(Top.subdirs) \in Nat
  BY <1>c, PushCalls DEF StackOK
<1>3. /\ Top \in CallType /\ depth \in Nat /\ Top.unread = {}
  BY <1>1, ClearKeeps DEF CallOK
<1>4. /\ c.phase = "descend" /\ c.unread = {} /\ c.subdirs = Top.subdirs
      /\ c.next = Top.next + 1
  BY <1>c, <1>1, <1>3 DEF CallType
<1>5. Places(f)' = Below(f) \cup PlacesIn(recursive, c, depth, f)
                     \cup PlacesIn(recursive, Call(s), depth + 1, f)
  BY <1>c, PushPlaces
<1>6. Places(f) = Below(f) \cup PlacesIn(recursive, Top, depth, f)
  BY <1>1, PlacesParts
<1>7. Top.next .. Len(Top.subdirs) = {Top.next} \cup (Top.next + 1 .. Len(Top.subdirs))
      /\ Top.next \notin Top.next + 1 .. Len(Top.subdirs)
  BY <1>1, <1>2
<1>8. ASSUME NEW p
      PROVE  p \in PlacesIn(recursive, Top, depth, f)
               <=> \/ p \in PlacesIn(recursive, c, depth, f)
                   \/ p = x /\ LeadsTo(recursive, s, f)
  <2>1. p \in PlacesIn(recursive, Top, depth, f) <=>
          \E n \in Top.next .. Len(Top.subdirs) :
             LeadsTo(recursive, Top.subdirs[n], f) /\ p = <<depth, "list", n>>
    BY <1>1, <1>3, InPlacesIn
  <2>2. p \in PlacesIn(recursive, c, depth, f) <=>
          \E n \in Top.next + 1 .. Len(Top.subdirs) :
             LeadsTo(recursive, Top.subdirs[n], f) /\ p = <<depth, "list", n>>
    BY <1>4, InPlacesIn
  <2>3. QED
    BY <1>c, <1>7, <2>1, <2>2
<1>9. x \notin PlacesIn(recursive, c, depth, f)
  BY <1>4, <1>7, InPlacesIn
<1>10. ASSUME NEW p
       PROVE  p \in PlacesIn(recursive, Call(s), depth + 1, f)
                <=> p = y /\ LeadsTo(recursive, s, f)
  <2>1. /\ Call(s).phase = "open" /\ Call(s).dir = s /\ Call(s).unread = {}
        /\ Call(s).next .. Len(Call(s).subdirs) = {}
    BY DEF Call
  <2>2. p \in PlacesIn(recursive, Call(s), depth + 1, f)
          <=> p = y /\ DirLeadsTo(recursive, s, f)
    BY <2>1, InPlacesIn
  <2>3. QED
    BY <1>2, <2>2, WayIn
<1>11. x \notin Below(f)
  BY <1>1, BelowIsLower
<1>12. failures'["read"] >= failures["read"] /\ (Failed' = 0 => Failed = 0)
  BY <1>1, SameFailures
<1>13. CASE LeadsTo(recursive, s, f)
  <2>1. x \in Places(f) /\ y \in Places(f)'
    BY <1>5, <1>6, <1>8, <1>10, <1>13
  <2>2. Places(f)' \subseteq (Places(f) \ {x}) \cup {y}
    <3>1. ASSUME NEW p \in Places(f)'
          PROVE  p = y \/ (p \in Places(f) /\ p # x)
      BY <1>5, <1>6, <1>8, <1>9, <1>10, <1>11, <3>1
    <3>2. QED
      BY <3>1
  <2>3. QED
    BY <1>1, <1>12, <2>1, <2>2 DEF Moves
<1>14. CASE ~LeadsTo(recursive, s, f)
  <2>1. Places(f)' = Places(f)
    BY <1>5, <1>6, <1>8, <1>10, <1>14
  <2>2. QED
    BY <1>1, <1>12, <2>1 DEF Moves
<1>15. QED
  BY <1>13, <1>14

-----------------------------------------------------------------------------
(* The second invariant.                                                    *)

LEMMA PlacesStep == StackOK /\ CountersOK /\ PlacesInv /\ [Next]_vars => PlacesInv'
<1> SUFFICES ASSUME StackOK, CountersOK, PlacesInv, [Next]_vars, NEW f \in Files
             PROVE  FileOK(f)'
  BY DEF PlacesInv
<1>1. CountersOK'
  BY CountersStep
<1>2. CASE Moves(f)
  BY <1>1, <1>2, MovesCount DEF PlacesInv
<1>3. CASE UNCHANGED vars
  <2>1. Places(f)' = Places(f)
    BY <1>3 DEF vars, Places, depth
  <2>2. UNCHANGED <<handled, failures, recursive>> /\ Asked' = Asked /\ Failed' = Failed
    BY <1>3 DEF vars, Asked, InScope, Passes, Failed
  <2>3. QED
    BY <2>1, <2>2 DEF PlacesInv, FileOK
<1>4. QED
  BY <1>2, <1>3, OpenMoves, ReadMoves, CloseMoves, DescendMoves, ReturnMoves
  DEF Next, Step, Ended

LEMMA PlacesInit == Init => PlacesInv
<1> SUFFICES ASSUME Init, NEW f \in Files
             PROVE  FileOK(f)
  BY DEF PlacesInv
<1> DEFINE x == <<1, "open", 0>>
<1>1. depth = 1 /\ calls[1] = Call(Root) /\ handled[f] = 0 /\ failures["read"] = 0
  BY DEF Init, depth, Kinds
<1>2. \A p : p \in Places(f) <=> p = x /\ DirLeadsTo(recursive, Root, f)
  <2>1. 1 .. depth = {1}
    BY <1>1
  <2>2. Places(f) = PlacesIn(recursive, Call(Root), 1, f)
    BY <1>1, <2>1 DEF Places
  <2>3. /\ Call(Root).phase = "open" /\ Call(Root).dir = Root /\ Call(Root).unread = {}
        /\ Call(Root).next .. Len(Call(Root).subdirs) = {}
    BY DEF Call
  <2>4. QED
    BY <2>2, <2>3, InPlacesIn
<1>3. IsFiniteSet(Places(f)) /\ Cardinality(Places(f)) \in Nat /\ Cardinality(Places(f)) <= 1
  <2>1. IsFiniteSet({x}) /\ Cardinality({x}) = 1
    BY FS_Singleton
  <2>2. Places(f) \subseteq {x}
    BY <1>2
  <2>3. QED
    BY <2>1, <2>2, FewerPlaces
<1>4. ASSUME f \in Asked
      PROVE  Places(f) # {}
  <2>1. CASE recursive
    <3>1. recursive = TRUE
      BY <2>1 DEF Init
    <3>2. LeadsTo(TRUE, Root, f)
      BY <1>4, <2>1 DEF Asked, InScope, LeadsTo
    <3>3. DirLeadsTo(TRUE, Root, f)
      BY <3>2, WayIn, TraverseAssumption
    <3>4. QED
      BY <1>2, <3>1, <3>3
  <2>2. CASE ~recursive
    BY <1>2, <1>4, <2>2 DEF Asked, InScope, DirLeadsTo, LeadsTo
  <2>3. QED
    BY <2>1, <2>2
<1>5. QED
  BY <1>1, <1>3, <1>4 DEF FileOK

THEOREM PlacesAreCounted == Spec => []PlacesInv
<1>1. /\ Init => StackOK /\ CountersOK /\ PlacesInv
      /\ (StackOK /\ CountersOK /\ PlacesInv) /\ [Next]_vars
           => (StackOK /\ CountersOK /\ PlacesInv)'
  BY StackInit, StackStep, CountersStep, PlacesInit, PlacesStep
<1>2. QED
  BY <1>1, PTL DEF Spec

\* A file that is not asked for is never handled, and one that is asked for at
\* most once, and once more for each read that failed: in every tree.
THEOREM OthersAreLeftAlone == Spec => []OnlyAskedHandled
<1>1. CountersOK /\ PlacesInv => OnlyAskedHandled
  <2> SUFFICES ASSUME CountersOK, PlacesInv, NEW f \in Files
               PROVE  handled[f] <= (IF f \in Asked THEN 1 + failures["read"] ELSE 0)
    BY DEF OnlyAskedHandled
  <2>1. /\ handled[f] \in Nat /\ failures["read"] \in Nat
        /\ Cardinality(Places(f)) \in Nat
        /\ handled[f] + Cardinality(Places(f)) <= 1 + failures["read"]
        /\ handled[f] > 0 => f \in Asked
    BY FewerPlaces DEF CountersOK, Kinds, PlacesInv, FileOK
  <2>2. QED
    BY <2>1
<1>2. QED
  BY <1>1, StackIsSafe, PlacesAreCounted, PTL

\* When the traversal has ended and nothing has failed, every file that is asked
\* for has been handled exactly once, and no other.
THEOREM FilesAreHandledOnce == Spec => []HandledOnce
<1>1. CountersOK /\ PlacesInv => HandledOnce
  <2> SUFFICES ASSUME CountersOK, PlacesInv, calls = <<>>, Failed = 0, NEW f \in Files
               PROVE  handled[f] = IF f \in Asked THEN 1 ELSE 0
    BY DEF HandledOnce, CountersOK
  <2>1. Places(f) = {}
    BY DEF Places, depth
  <2>2. /\ handled[f] \in Nat /\ handled[f] + Cardinality(Places(f)) <= 1 + failures["read"]
        /\ handled[f] > 0 <=> f \in Asked
    BY <2>1 DEF CountersOK, PlacesInv, FileOK
  <2>3. Cardinality(Places(f)) = 0
    BY <2>1, FS_EmptySet
  <2>4. failures["read"] = 0
    <3>1. PICK a \in Nat, b \in Nat, c \in Nat, d \in Nat, e \in Nat :
            /\ a = failures["open"] /\ b = failures["read"] /\ c = failures["merge"]
            /\ d = failures["close"] /\ e = failures["incomplete"]
      BY DEF CountersOK, Kinds
    <3>2. a + b + c + d + e = 0
      BY <3>1 DEF Failed
    <3>3. b = 0
      BY <3>2
    <3>4. QED
      BY <3>1, <3>3
  <2>5. QED
    BY <2>2, <2>3, <2>4
<1>2. QED
  BY <1>1, StackIsSafe, PlacesAreCounted, PTL
=============================================================================
