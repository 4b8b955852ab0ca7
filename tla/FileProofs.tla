----------------------------- MODULE FileProofs -----------------------------
(***************************************************************************)
(* Proofs about HashPart, FileHash and FileFilter, for every page size,    *)
(* every file and every part: fhash_calculate_hash feeds the hash exactly  *)
(* the part that was asked for and maps nothing beyond the end of the      *)
(* file; what fhash_calculate_file prints about a file is true; and what   *)
(* the search of a directory finds.                                        *)
(***************************************************************************)
EXTENDS FileFilter, SequenceTheorems, TLAPS

-----------------------------------------------------------------------------
(* Runs of bytes                                                            *)

\* A run of bytes is a sequence of positions of the expected length.
LEMMA BytesType ==
  ASSUME NEW a \in Nat, NEW b \in Nat, a <= b
  PROVE  /\ Bytes(a, b) \in Seq(Nat)
         /\ Len(Bytes(a, b)) = b - a
  BY DEF Bytes

\* The empty run.
LEMMA BytesEmpty ==
  ASSUME NEW a \in Nat
  PROVE  Bytes(a, a) = <<>>
  BY DEF Bytes

\* Two runs that meet make one.
LEMMA BytesConcat ==
  ASSUME NEW a \in Nat, NEW b \in Nat, NEW c \in Nat, a <= b, b <= c
  PROVE  Bytes(a, b) \o Bytes(b, c) = Bytes(a, c)
<1> DEFINE u == Bytes(a, b)
           v == Bytes(b, c)
           w == Bytes(a, c)
<1>1. a <= c
  OBVIOUS
<1>2. /\ u \in Seq(Nat) /\ v \in Seq(Nat) /\ w \in Seq(Nat)
      /\ Len(u) = b - a /\ Len(v) = c - b /\ Len(w) = c - a
  BY <1>1, BytesType
<1>3. /\ \A k \in 1 .. b - a : u[k] = a + k - 1
      /\ \A k \in 1 .. c - b : v[k] = b + k - 1
      /\ \A k \in 1 .. c - a : w[k] = a + k - 1
  BY DEF Bytes
<1> HIDE DEF u, v, w
<1>4. /\ u \o v \in Seq(Nat) /\ Len(u \o v) = c - a
      /\ \A k \in 1 .. c - a :
           (u \o v)[k] = IF k <= b - a THEN u[k] ELSE v[k - (b - a)]
  <2>1. /\ u \o v \in Seq(Nat)
        /\ Len(u \o v) = Len(u) + Len(v)
        /\ \A k \in 1 .. Len(u) + Len(v) :
             (u \o v)[k] = IF k <= Len(u) THEN u[k] ELSE v[k - Len(u)]
    BY <1>2, ConcatProperties, Zenon
  <2>2. Len(u) + Len(v) = c - a
    BY <1>2
  <2> QED BY <1>2, <2>1, <2>2
<1>5. ASSUME NEW k \in 1 .. c - a PROVE (u \o v)[k] = w[k]
  <2>1. CASE k <= b - a
    <3>1. (u \o v)[k] = u[k] /\ k \in 1 .. b - a
      BY <1>4, <2>1
    <3> QED BY <1>3, <3>1
  <2>2. CASE ~(k <= b - a)
    <3>1. (u \o v)[k] = v[k - (b - a)] /\ k - (b - a) \in 1 .. c - b
      BY <1>4, <2>2
    <3> QED BY <1>3, <3>1
  <2> QED BY <2>1, <2>2
<1>6. u \o v = w
  BY <1>2, <1>4, <1>5, SeqEqual
<1> QED BY <1>6 DEF u, v, w

-----------------------------------------------------------------------------
(* The invariant                                                            *)

\* The sizes the loop works with are numbers, and a page is never longer than
\* what is left of the part and of the file.
LEMMA Sizes ==
  ASSUME TypeOK
  PROVE  /\ part \in PartType
         /\ PartSize \in Nat /\ PartEnd \in Nat /\ PageSize \in Nat
         /\ PartSize <= part.size
         /\ PartSize # 0 => PageSize > 0
         /\ PartSize = 0 => part.size = 0
<1>1. part \in PartType /\ BufferSize \in Nat \ {0}
  BY HashPartAssumption DEF TypeOK
<1> QED
  BY <1>1 DEF PartType, PartSize, PartEnd, PageSize, Least

LEMMA ChunkBounds ==
  ASSUME TypeOK, pos < PartEnd, pos < part.size
  PROVE  /\ Chunk \in Nat \ {0}
         /\ pos + Chunk <= PartEnd /\ pos + Chunk <= part.size
<1>1. PartSize # 0
  BY Sizes DEF TypeOK, PartType, PartSize, PartEnd, Least
<1> QED
  BY <1>1, Sizes DEF TypeOK, PartType, Chunk, Least

LEMMA InitInv == Init => IInv
<1> SUFFICES ASSUME Init PROVE IInv
  OBVIOUS
<1>1. TypeOK
  <2>1. fed \in Seq(Nat) /\ pos \in Nat
    BY DEF Init, Ready
  <2>2. /\ part \in Parts /\ opc \in {"ready", "map", "unmap", "returned"}
        /\ digest \in Seq(Nat) \cup {Zeros} /\ message \in BOOLEAN
    BY Zenon DEF Init, Ready
  <2> QED BY <2>1, <2>2 DEF TypeOK
<1>2. FedInOrder
  BY DEF Init, Ready, FedInOrder
<1>3. DigestIsOfPart
  BY DEF Init, Ready, DigestIsOfPart
<1> QED BY <1>1, <1>2, <1>3 DEF IInv

\* The first step.
LEMMA BeginInv ==
  ASSUME IInv, Begin PROVE IInv'
<1> USE DEF IInv
<1>1. CASE PartSize = 0
  <2>1. TypeOK' /\ FedInOrder'
    BY <1>1 DEF TypeOK, FedInOrder, Begin
  <2>2. DigestIsOfPart'
    BY <1>1, Sizes DEF TypeOK, PartType, DigestIsOfPart, Begin, Wanted
  <2> QED BY <2>1, <2>2
<1>2. CASE PartSize # 0 /\ part.offset >= part.size
  <2>1. TypeOK' /\ FedInOrder'
    BY <1>2, Sizes DEF TypeOK, PartType, FedInOrder, Begin
  <2>2. DigestIsOfPart'
    BY <1>2, Sizes DEF TypeOK, PartType, DigestIsOfPart, Begin
  <2> QED BY <2>1, <2>2
<1>3. CASE PartSize # 0 /\ ~(part.offset >= part.size)
  <2>1. TypeOK'
    BY <1>3, Sizes DEF TypeOK, PartType, Begin
  <2>2. Bytes(part.offset, part.offset) = <<>>
    BY BytesEmpty, Sizes DEF PartType
  <2>3. part' = part /\ pos' = part.offset /\ opc' = "map" /\ fed' = <<>>
    BY <1>3 DEF Begin, FedInOrder
  <2>4. part.offset < PartEnd /\ part.offset < part.size
    BY <1>3, Sizes DEF PartType, PartEnd
  <2>5. FedInOrder'
    BY <2>2, <2>3, <2>4, Sizes DEF PartType, FedInOrder, PartEnd, PartSize
  <2>6. DigestIsOfPart'
    BY <2>3 DEF DigestIsOfPart
  <2> QED BY <2>1, <2>5, <2>6
<1> QED BY <1>1, <1>2, <1>3

\* A page is fed.
LEMMA MapInv ==
  ASSUME IInv, Map PROVE IInv'
<1> USE DEF IInv
<1>1. /\ pos < PartEnd /\ pos < part.size
      /\ part.offset <= pos /\ fed = Bytes(part.offset, pos)
  BY DEF Map, FedInOrder
<1>2. Chunk \in Nat \ {0} /\ pos + Chunk <= PartEnd /\ pos + Chunk <= part.size
  BY <1>1, ChunkBounds
<1>3. pos \in Nat /\ part.offset \in Nat /\ part.size \in Nat
  BY Sizes DEF TypeOK, PartType
<1> DEFINE end == pos + Chunk
<1>4. end \in Nat /\ pos <= end /\ part.offset <= end
  BY <1>1, <1>2, <1>3
<1> HIDE DEF end
<1>5. Bytes(part.offset, pos) \o Bytes(pos, end) = Bytes(part.offset, end)
  BY <1>1, <1>3, <1>4, BytesConcat
<1>6. fed' = Bytes(part.offset, end)
  BY <1>1, <1>5 DEF Map, end
<1>7. TypeOK'
  <2>1. fed' \in Seq(Nat)
    BY <1>3, <1>4, <1>6, BytesType
  <2> QED BY <1>2, <1>3, <2>1 DEF TypeOK, Map
<1>8. FedInOrder'
  <2>1. part' = part /\ opc' = "unmap" /\ pos' = pos + Chunk
    BY DEF Map
  <2>2. PartEnd' = PartEnd
    BY <2>1 DEF PartEnd, PartSize
  <2> QED
    BY <1>1, <1>2, <1>3, <1>4, <1>6, <2>1, <2>2 DEF FedInOrder, end
<1>9. DigestIsOfPart'
  BY DEF Map, DigestIsOfPart
<1> QED BY <1>7, <1>8, <1>9

\* The loop goes on or the digest is written.
LEMMA UnmapInv ==
  ASSUME IInv, Unmap PROVE IInv'
<1> USE DEF IInv
<1>1. /\ part.offset <= pos /\ pos <= PartEnd /\ pos <= part.size
      /\ part.offset < part.size
      /\ fed = Bytes(part.offset, pos)
  BY DEF Unmap, FedInOrder
<1>2. TypeOK'
  BY DEF TypeOK, Unmap
<1>3. PartEnd' = PartEnd /\ part' = part /\ pos' = pos /\ fed' = fed
  BY DEF Unmap, PartEnd, PartSize
<1>4. FedInOrder'
  BY <1>1, <1>3 DEF FedInOrder, Unmap
<1>5. DigestIsOfPart'
  <2>1. CASE pos < PartEnd /\ pos < part.size
    BY <2>1 DEF Unmap, DigestIsOfPart
  <2>2. CASE ~(pos < PartEnd /\ pos < part.size)
    <3>1. pos = Least(PartEnd, part.size)
      BY <1>1, <2>2, Sizes DEF TypeOK, PartType, Least
    <3>2. Wanted = fed
      BY <1>1, <3>1, Sizes DEF PartType, Wanted
    <3>3. Wanted' = Wanted
      BY <1>3 DEF Wanted
    <3> QED BY <2>2, <3>2, <3>3 DEF Unmap, DigestIsOfPart
  <2> QED BY <2>1, <2>2
<1> QED BY <1>2, <1>4, <1>5

\* A system call fails.
LEMMA FailInv ==
  ASSUME IInv, Fail PROVE IInv'
  BY DEF IInv, TypeOK, FedInOrder, DigestIsOfPart, Fail

LEMMA StepInv ==
  ASSUME IInv, HashStep PROVE IInv'
  BY BeginInv, MapInv, UnmapInv, FailInv DEF HashStep

LEMMA StutterInv ==
  ASSUME IInv, UNCHANGED partVars PROVE IInv'
  BY DEF partVars, IInv, TypeOK, FedInOrder, DigestIsOfPart, Wanted, PartEnd,
         PartSize

\* The inductive invariant holds for every page size and every part.
THEOREM Invariant == Spec => []IInv
<1>1. Init => IInv
  BY InitInv
<1>2. IInv /\ [Next]_partVars => IInv'
  BY StepInv, StutterInv DEF Next, Returned
<1> QED BY <1>1, <1>2, PTL DEF Spec

\* The digest of a call that returns no message is that of exactly the bytes
\* that were asked for, unless the part begins behind the end of the file.
THEOREM DigestIsRight == Spec => []DigestIsOfPart
<1>1. IInv => DigestIsOfPart
  BY DEF IInv
<1> QED BY <1>1, Invariant, PTL

\* No page reaches beyond the end of the file, and none is empty.
THEOREM NothingMappedOutside == Spec => []MapsInside
<1>1. IInv => MapsInside
  BY ChunkBounds DEF IInv, FedInOrder, MapsInside
<1> QED BY <1>1, Invariant, PTL

-----------------------------------------------------------------------------
(* fhash_calculate_file                                                     *)

\* The part does not change, hence neither does what is wanted of it.
LEMMA PartUnchanged ==
  ASSUME UNCHANGED part
  PROVE  Wanted' = Wanted /\ PartEnd' = PartEnd
  BY DEF Wanted, PartEnd, PartSize

\* The steps of the handler leave what is known of the loop alone.
LEMMA LoopUnchanged ==
  ASSUME FedInOrder, DigestIsOfPart, UNCHANGED partVars
  PROVE  FedInOrder' /\ DigestIsOfPart'
<1>1. UNCHANGED <<part, opc, pos, fed, digest, message>>
  BY DEF partVars
<1>2. Wanted' = Wanted /\ PartEnd' = PartEnd
  BY <1>1, PartUnchanged
<1> QED BY <1>1, <1>2 DEF FedInOrder, DigestIsOfPart

\* The digest of an empty file is that of "".
LEMMA EmptyFileDigest ==
  ASSUME TypeOK, part.size = 0 PROVE Wanted = <<>>
  BY Sizes DEF PartType, Wanted

LEMMA FileInitInv == FileInit => FileInv
<1> SUFFICES ASSUME FileInit PROVE FileInv
  OBVIOUS
<1>1. IInv
  BY InitInv DEF FileInit, Init
<1>2. FileTypeOK
  BY <1>1 DEF IInv, FileInit, FileTypeOK
<1>3. BeforeHash /\ DuringHash /\ AtCompare /\ AfterCompare /\ NoLineYet
  BY DEF FileInit, Ready, BeforeHash, DuringHash, AtCompare, AfterCompare,
         NoLineYet
<1>4. MessageMeansFailure /\ HashMeansSuccess
  BY DEF FileInit, Ready, MessageMeansFailure, HashMeansSuccess
<1>5. PrintedDigestIsTrue /\ MatchIsTrue
  BY DEF FileInit, PrintedDigestIsTrue, MatchIsTrue
<1>20. OpenUntilClosed
  BY DEF FileInit, OpenUntilClosed, FileTypeOK
<1> QED BY <1>20, <1>1, <1>2, <1>3, <1>4, <1>5 DEF IInv, FileInv

LEMMA OpenInv == ASSUME FileInv, Open PROVE FileInv'
<1> USE DEF FileInv
<1>1. UNCHANGED <<partVars, opts, hasHash, result, quiet, line>> /\ line = "none"
  BY DEF Open, NoLineYet
<1>2. UNCHANGED <<part, opc, pos, fed, digest, message>> /\ Wanted' = Wanted
  BY <1>1, PartUnchanged DEF partVars
<1>3. FedInOrder' /\ DigestIsOfPart'
  BY <1>1, LoopUnchanged
<1>4. FileTypeOK'
  BY <1>1, <1>2 DEF FileTypeOK, TypeOK, Open
<1>5. BeforeHash' /\ DuringHash' /\ AtCompare' /\ NoLineYet'
  BY <1>1, <1>2 DEF Open, BeforeHash, DuringHash, AtCompare, NoLineYet
<1>6. MessageMeansFailure' /\ HashMeansSuccess'
  BY <1>1, <1>2
     DEF Open, BeforeHash, MessageMeansFailure, HashMeansSuccess, Offered
<1>7. AfterCompare'
  BY <1>1, <1>2 DEF Open, AfterCompare
<1>8. PrintedDigestIsTrue' /\ MatchIsTrue'
  BY <1>1 DEF PrintedDigestIsTrue, MatchIsTrue
<1>20. OpenUntilClosed'
  BY DEF Open, OpenUntilClosed, FileTypeOK
<1> QED BY <1>20, <1>3, <1>4, <1>5, <1>6, <1>7, <1>8

LEMMA InfoInv == ASSUME FileInv, Info PROVE FileInv'
<1> USE DEF FileInv
<1>1. /\ UNCHANGED <<part, opc, pos, fed, message, opts, handle, hasHash, quiet,
                     line>>
      /\ line = "none" /\ opc = "ready" /\ ~hasHash /\ errors = {} /\ ~message
  BY DEF Info, NoLineYet, BeforeHash, MessageMeansFailure
<1>2. Wanted' = Wanted /\ PartEnd' = PartEnd
  BY <1>1, PartUnchanged
<1>3. digest' \in Seq(Nat) \cup {Zeros}
  <2>1. <<>> \in Seq(Nat)
    OBVIOUS
  <2> QED BY <2>1 DEF FileTypeOK, TypeOK, Info
<1>4. FileTypeOK'
  BY <1>1, <1>3 DEF FileTypeOK, TypeOK, Info
<1>5. FedInOrder' /\ DigestIsOfPart'
  BY <1>1, <1>2 DEF FedInOrder, DigestIsOfPart
<1>6. BeforeHash' /\ NoLineYet'
  BY <1>1 DEF Info, BeforeHash, NoLineYet
<1>7. DuringHash'
  <2> SUFFICES ASSUME phase' = "hash" PROVE DuringHash'
    BY DEF DuringHash
  <2>1. ~(part.offset >= part.size /\ part.size > 0) /\ UNCHANGED errors
    BY DEF Info
  <2>2. Search => digest' = <<>>
    BY DEF Info
  <2>3. Offered'
    BY <1>1, <2>1, Sizes DEF FileTypeOK, PartType, Offered
  <2> QED BY <1>1, <2>1, <2>2, <2>3 DEF DuringHash, Search
<1>8. MessageMeansFailure' /\ HashMeansSuccess'
  BY <1>1 DEF MessageMeansFailure, HashMeansSuccess
<1>9. AtCompare'
  BY <1>1 DEF Info, AtCompare
<1>10. AfterCompare'
  BY <1>1 DEF Info, AfterCompare
<1>11. PrintedDigestIsTrue' /\ MatchIsTrue'
  BY <1>1 DEF PrintedDigestIsTrue, MatchIsTrue
<1>20. OpenUntilClosed'
  BY DEF Info, OpenUntilClosed, FileTypeOK
<1> QED BY <1>20, <1>4, <1>5, <1>6, <1>7, <1>8, <1>9, <1>10, <1>11

LEMMA HashInv == ASSUME FileInv, Hash PROVE FileInv'
<1> USE DEF FileInv
<1>1. /\ UNCHANGED <<opts, phase, handle, errors, hasHash, result, quiet, line>>
      /\ phase = "hash" /\ HashStep /\ line = "none" /\ errors = {} /\ ~hasHash
  BY DEF Hash, NoLineYet, DuringHash
<1>2. IInv
  BY DEF FileTypeOK, IInv
<1>3. IInv' /\ UNCHANGED part
  BY <1>1, <1>2, StepInv DEF HashStep, Begin, Map, Unmap, Fail
<1>4. FileTypeOK' /\ FedInOrder' /\ DigestIsOfPart'
  BY <1>1, <1>3 DEF FileTypeOK, IInv
<1>5. (opc' # "returned" \/ message') /\ Search => digest' = <<>>
  BY <1>1 DEF DuringHash, MessageMeansFailure, HashStep, Begin, Map, Unmap, Fail
<1>6. DuringHash'
  BY <1>1, <1>3, <1>5 DEF DuringHash, Offered, Search
<1>7. MessageMeansFailure'
  BY <1>1, <1>3 DEF MessageMeansFailure, FedInOrder, HashStep, Begin, Map,
                    Unmap, Fail
<1>8. /\ BeforeHash' /\ HashMeansSuccess' /\ AtCompare' /\ AfterCompare'
      /\ NoLineYet'
  BY <1>1 DEF BeforeHash, HashMeansSuccess, AtCompare, AfterCompare, NoLineYet
<1>9. PrintedDigestIsTrue' /\ MatchIsTrue'
  BY <1>1 DEF PrintedDigestIsTrue, MatchIsTrue
<1>20. OpenUntilClosed'
  BY DEF Hash, OpenUntilClosed, FileTypeOK
<1> QED BY <1>20, <1>4, <1>6, <1>7, <1>8, <1>9

LEMMA HashedInv == ASSUME FileInv, Hashed PROVE FileInv'
<1> USE DEF FileInv
<1>1. /\ UNCHANGED <<partVars, opts, handle, result, quiet, line>>
      /\ phase = "hash" /\ phase' = "compare" /\ opc = "returned"
      /\ line = "none" /\ errors = {} /\ ~hasHash /\ Offered
  BY DEF Hashed, NoLineYet, DuringHash
<1>2. UNCHANGED <<part, opc, pos, fed, digest, message>>
  BY <1>1 DEF partVars
<1>3. FedInOrder' /\ DigestIsOfPart'
  BY <1>1, LoopUnchanged
<1>4. FileTypeOK'
  BY <1>1, <1>2 DEF FileTypeOK, TypeOK, Hashed
<1>5. BeforeHash' /\ DuringHash' /\ AfterCompare' /\ NoLineYet'
  BY <1>1 DEF BeforeHash, DuringHash, AfterCompare, NoLineYet
<1>6. MessageMeansFailure'
  BY <1>2 DEF MessageMeansFailure
<1>7. HashMeansSuccess'
  BY <1>1, <1>2 DEF HashMeansSuccess, Hashed, Offered
<1>8. AtCompare'
  BY <1>1, <1>2 DEF AtCompare, DuringHash, Hashed, Search
<1>9. PrintedDigestIsTrue' /\ MatchIsTrue'
  BY <1>1 DEF PrintedDigestIsTrue, MatchIsTrue
<1>20. OpenUntilClosed'
  BY DEF Hashed, OpenUntilClosed, FileTypeOK
<1> QED BY <1>20, <1>3, <1>4, <1>5, <1>6, <1>7, <1>8, <1>9

LEMMA CompareInv == ASSUME FileInv, Compare PROVE FileInv'
<1> USE DEF FileInv
<1>1. /\ UNCHANGED <<partVars, opts, handle, errors, hasHash, line>>
      /\ phase = "compare" /\ phase' = "close" /\ line = "none"
  BY DEF Compare, NoLineYet
<1>2. UNCHANGED <<part, opc, pos, fed, digest, message>> /\ Wanted' = Wanted
  BY <1>1, PartUnchanged DEF partVars
<1>3. FedInOrder' /\ DigestIsOfPart'
  BY <1>1, LoopUnchanged
<1>4. FileTypeOK'
  BY <1>1, <1>2 DEF FileTypeOK, TypeOK, Compare, Search, EmptyWanted
<1>5. BeforeHash' /\ DuringHash' /\ AtCompare' /\ NoLineYet'
  BY <1>1 DEF BeforeHash, DuringHash, AtCompare, NoLineYet
<1>6. MessageMeansFailure' /\ HashMeansSuccess'
  BY <1>1, <1>2 DEF MessageMeansFailure, HashMeansSuccess, Offered
<1>7. ASSUME errors \ {"hash", "close"} = {}, Search, result'
      PROVE  Wanted = opts.wanted /\ "hash" \notin errors
  <2>1. CASE errors = {} /\ hasHash
    <3>1. digest = Wanted
      BY <2>1 DEF HashMeansSuccess, DigestIsOfPart, Offered
    <3>2. CASE EmptyWanted
      <4>1. part.size = 0
        BY <1>7, <3>2 DEF Compare
      <4> QED BY <2>1, <3>2, <4>1, EmptyFileDigest DEF FileTypeOK, EmptyWanted
    <3>3. CASE ~EmptyWanted
      BY <1>7, <2>1, <3>1, <3>3 DEF Compare
    <3> QED BY <3>2, <3>3
  <2>2. CASE errors = {"hash"} /\ message /\ (Search => digest = <<>>)
    <3>1. part.size # 0
      BY <2>2, Sizes DEF FileTypeOK, PartType, MessageMeansFailure
    <3>2. EmptyWanted => part.size = 0
      BY <1>7 DEF Compare
    <3>3. ~EmptyWanted => digest = opts.wanted
      BY <1>7 DEF Compare
    <3> QED BY <1>7, <2>2, <3>1, <3>2, <3>3 DEF EmptyWanted
  <2>3. CASE "offset" \in errors
    BY <1>7, <2>3
  <2> QED BY <1>1, <2>1, <2>2, <2>3 DEF AtCompare
<1>8. AfterCompare'
  <2>1. quiet' = (~opts.validate /\ ~result')
    BY DEF Compare
  <2> QED BY <1>1, <1>2, <1>7, <2>1 DEF AfterCompare, Search
<1>9. PrintedDigestIsTrue' /\ MatchIsTrue'
  BY <1>1 DEF PrintedDigestIsTrue, MatchIsTrue
<1>20. OpenUntilClosed'
  BY DEF Compare, OpenUntilClosed, FileTypeOK
<1> QED BY <1>20, <1>3, <1>4, <1>5, <1>6, <1>8, <1>9

LEMMA CloseInv == ASSUME FileInv, Close PROVE FileInv'
<1> USE DEF FileInv
<1>1. /\ UNCHANGED <<partVars, opts, hasHash, result, quiet, line>>
      /\ phase = "close" /\ phase' = "output" /\ line = "none"
      /\ errors' \in {errors, errors \cup {"close"}}
  BY DEF Close, NoLineYet
<1>2. UNCHANGED <<part, opc, pos, fed, digest, message>> /\ Wanted' = Wanted
  BY <1>1, PartUnchanged DEF partVars
<1>3. FedInOrder' /\ DigestIsOfPart'
  BY <1>1, LoopUnchanged
<1>4. FileTypeOK'
  BY <1>1, <1>2 DEF FileTypeOK, TypeOK, Close
<1>5. BeforeHash' /\ DuringHash' /\ AtCompare' /\ NoLineYet'
  BY <1>1 DEF BeforeHash, DuringHash, AtCompare, NoLineYet
<1>6. MessageMeansFailure' /\ HashMeansSuccess'
  BY <1>1, <1>2 DEF MessageMeansFailure, HashMeansSuccess, Offered
<1>7. /\ errors' \ {"hash", "close"} = errors \ {"hash", "close"}
      /\ "hash" \in errors' <=> "hash" \in errors
  BY <1>1
<1>8. AfterCompare'
  BY <1>1, <1>2, <1>7 DEF AfterCompare, Search
<1>9. PrintedDigestIsTrue' /\ MatchIsTrue'
  BY <1>1 DEF PrintedDigestIsTrue, MatchIsTrue
<1>20. OpenUntilClosed'
  BY DEF Close, OpenUntilClosed, FileTypeOK
<1> QED BY <1>20, <1>3, <1>4, <1>5, <1>6, <1>8, <1>9

LEMMA OutputInv == ASSUME FileInv, Output PROVE FileInv'
<1> USE DEF FileInv
<1>1. /\ UNCHANGED <<partVars, opts, handle, errors, hasHash, result, quiet>>
      /\ phase = "output" /\ phase' = "end" /\ line' = Line
  BY DEF Output
<1>2. UNCHANGED <<part, opc, pos, fed, digest, message>> /\ Wanted' = Wanted
  BY <1>1, PartUnchanged DEF partVars
<1>3. FedInOrder' /\ DigestIsOfPart'
  BY <1>1, LoopUnchanged
<1>4. FileTypeOK'
  <2>1. Line \in {"none", "checksum", "error", "found", "valid", "invalid",
                  "hash", "(null)"}
    BY DEF Line, FileTypeOK
  <2> QED BY <1>1, <1>2, <2>1 DEF FileTypeOK, TypeOK
<1>5. BeforeHash' /\ DuringHash' /\ AtCompare' /\ NoLineYet'
  BY <1>1 DEF BeforeHash, DuringHash, AtCompare, NoLineYet
<1>6. MessageMeansFailure' /\ HashMeansSuccess'
  BY <1>1, <1>2 DEF MessageMeansFailure, HashMeansSuccess, Offered
<1>7. AfterCompare'
  BY <1>1, <1>2 DEF AfterCompare, Search
<1>8. PrintedDigestIsTrue'
  <2>1. Line \in {"hash", "checksum"} => hasHash
    BY DEF Line, FileTypeOK
  <2>2. hasHash => digest = Wanted /\ "hash" \notin errors
    BY DEF HashMeansSuccess, DigestIsOfPart, Offered
  <2> QED BY <1>1, <1>2, <2>1, <2>2 DEF PrintedDigestIsTrue
<1>9. MatchIsTrue'
  <2> SUFFICES ASSUME Line \in {"valid", "found"}
               PROVE  Wanted = opts.wanted /\ errors = {}
    BY <1>1, <1>2 DEF MatchIsTrue
  <2>1. /\ ~quiet /\ ~opts.sfv /\ ~opts.verify /\ errors \ {"hash"} = {}
        /\ Search /\ (opts.validate => result)
    BY DEF Line, FileTypeOK
  <2>2. quiet = (~opts.validate /\ ~result)
    BY <1>1, <2>1 DEF AfterCompare
  <2>3. Wanted = opts.wanted /\ "hash" \notin errors
    BY <1>1, <2>1, <2>2 DEF AfterCompare
  <2> QED BY <2>1, <2>3
<1>20. OpenUntilClosed'
  BY DEF Output, OpenUntilClosed, FileTypeOK
<1> QED BY <1>20, <1>3, <1>4, <1>5, <1>6, <1>7, <1>8, <1>9

LEMMA FileStutterInv == ASSUME FileInv, UNCHANGED fileVars PROVE FileInv'
<1> USE DEF FileInv
<1>1. UNCHANGED <<partVars, opts, phase, handle, errors, hasHash, result, quiet,
                  line>>
  BY DEF fileVars
<1>2. UNCHANGED <<part, opc, pos, fed, digest, message>> /\ Wanted' = Wanted
  BY <1>1, PartUnchanged DEF partVars
<1>3. FedInOrder' /\ DigestIsOfPart'
  BY <1>1, LoopUnchanged
<1>4. FileTypeOK'
  BY <1>1, <1>2 DEF FileTypeOK, TypeOK
<1>5. BeforeHash' /\ DuringHash' /\ AtCompare' /\ AfterCompare' /\ NoLineYet'
  BY <1>1, <1>2
     DEF BeforeHash, DuringHash, AtCompare, AfterCompare, NoLineYet, Offered,
         Search
<1>6. MessageMeansFailure' /\ HashMeansSuccess'
  BY <1>1, <1>2 DEF MessageMeansFailure, HashMeansSuccess, Offered
<1>7. PrintedDigestIsTrue' /\ MatchIsTrue'
  BY <1>1, <1>2 DEF PrintedDigestIsTrue, MatchIsTrue
<1>20. OpenUntilClosed'
  BY DEF fileVars, OpenUntilClosed, FileTypeOK
<1> QED BY <1>20, <1>3, <1>4, <1>5, <1>6, <1>7

LEMMA FileNextInv == FileInv /\ [FileNext]_fileVars => FileInv'
BY OpenInv, InfoInv, HashInv, HashedInv, CompareInv, CloseInv, OutputInv,
   FileStutterInv DEF FileNext, FileStep, Ended

\* The inductive invariant holds for every file, part and set of options.
THEOREM FileInvariant == FileSpec => []FileInv
<1>1. FileInit => FileInv
  BY FileInitInv
<1>2. FileInv /\ [FileNext]_fileVars => FileInv'
  BY FileNextInv
<1> QED BY <1>1, <1>2, PTL DEF FileSpec

\* Every variable of the handler keeps its type.
THEOREM FileTypeCorrect == FileSpec => []FileTypeOK
<1>1. FileInv => FileTypeOK
  BY DEF FileInv
<1> QED BY <1>1, FileInvariant, PTL

\* A digest that is printed is that of exactly the part that was asked for.
THEOREM PrintedDigestsAreTrue == FileSpec => []PrintedDigestIsTrue
<1>1. FileInv => PrintedDigestIsTrue
  BY DEF FileInv
<1> QED BY <1>1, FileInvariant, PTL

\* A file that is called valid, or found, has the digest that was given.
THEOREM MatchesAreTrue == FileSpec => []MatchIsTrue
<1>1. FileInv => MatchIsTrue
  BY DEF FileInv
<1> QED BY <1>1, FileInvariant, PTL
-----------------------------------------------------------------------------
(* What is passed over in silence                                           *)

\* A part of a file that is not empty has a byte.
LEMMA PartHasBytes ==
  ASSUME TypeOK, part.offset < part.size PROVE Wanted # <<>>
<1>1. /\ part \in PartType /\ PartEnd = PartSize + part.offset
      /\ PartSize \in Nat \ {0}
  BY Sizes DEF PartEnd, PartType
<1> DEFINE last == Least(PartEnd, part.size)
<1>2. part.offset \in Nat /\ last \in Nat /\ part.offset < last /\ part.offset <= last
  BY <1>1 DEF PartType, Least
<1> HIDE DEF last
<1>3. Len(Bytes(part.offset, last)) = last - part.offset
  BY <1>2, BytesType, Zenon
<1>4. Wanted = Bytes(part.offset, last)
  BY <1>1 DEF Wanted, PartType, last
<1> QED
  BY <1>2, <1>3, <1>4

LEMMA SilenceInit == FileInit => SilenceInv
BY DEF FileInit, SilenceInv, MismatchIsTrue, ErrorIsTold

\* A digest that differs is that of another part.
LEMMA CompareKeepsSilence == ASSUME FileInv, SilenceInv, Compare PROVE SilenceInv'
<1>1. /\ UNCHANGED <<partVars, opts, handle, errors, hasHash, line>>
      /\ phase = "compare" /\ phase' = "close" /\ result /\ ~quiet
      /\ quiet' = (~opts.validate /\ ~result')
  BY DEF Compare, SilenceInv
<1>2. UNCHANGED part /\ Wanted' = Wanted
  BY <1>1, PartUnchanged DEF partVars
<1>3. ~Search => result'
  BY <1>1 DEF Compare
<1>4. quiet' => Search'
  BY <1>1, <1>3 DEF Search
<1>5. ASSUME errors = {}, Search, ~result' PROVE Wanted # opts.wanted
  <2>1. hasHash /\ Offered /\ digest = Wanted
    BY <1>1, <1>5 DEF FileInv, AtCompare, HashMeansSuccess, DigestIsOfPart, Offered
  <2>2. CASE EmptyWanted
    <3>1. part.size # 0
      BY <1>5, <2>2 DEF Compare
    <3>2. part.offset < part.size /\ TypeOK
      BY <2>1, <3>1 DEF Offered, FileInv, FileTypeOK
    <3> QED BY <2>2, <3>2, PartHasBytes DEF EmptyWanted
  <2>3. CASE ~EmptyWanted
    BY <1>5, <2>1, <2>3 DEF Compare
  <2> QED BY <2>2, <2>3
<1> QED
  BY <1>1, <1>2, <1>4, <1>5 DEF SilenceInv, MismatchIsTrue, ErrorIsTold, Search

\* The line that is printed, or none.
LEMMA OutputKeepsSilence == ASSUME FileInv, SilenceInv, Output PROVE SilenceInv'
<1>1. /\ UNCHANGED <<partVars, opts, handle, errors, hasHash, result, quiet>>
      /\ phase = "output" /\ phase' = "end" /\ line' = Line
  BY DEF Output
<1>2. Wanted' = Wanted
  BY <1>1, PartUnchanged DEF partVars
<1>3. MismatchIsTrue'
  <2> SUFFICES ASSUME Search, errors = {}, ~opts.sfv, ~opts.verify,
                      Line \in {"invalid", "none"}
               PROVE  Wanted # opts.wanted
    BY <1>1, <1>2 DEF MismatchIsTrue, Search
  <2>1. quiet = (~opts.validate /\ ~result)
    BY <1>1 DEF FileInv, AfterCompare
  <2>2. quiet \/ ~result
    BY DEF Line, FileInv, FileTypeOK
  <2> QED BY <1>1, <2>1, <2>2 DEF SilenceInv
<1>4. ErrorIsTold'
  <2> SUFFICES ASSUME errors # {}, Line # "error", ~opts.sfv, ~opts.verify,
                      ~(quiet /\ Search)
               PROVE  errors = {"hash"} /\ Line \in {"(null)", "invalid"}
    BY <1>1 DEF ErrorIsTold, Search
  <2>1. ~quiet
    BY DEF SilenceInv
  <2>2. errors = {"hash"}
    BY <2>1 DEF Line
  <2>3. ~hasHash
    BY <2>2 DEF FileInv, HashMeansSuccess
  <2>4. Search => ~result
    BY <1>1, <2>2 DEF FileInv, AfterCompare
  <2>5. Search => opts.validate
    BY <1>1, <2>1, <2>2, <2>4 DEF FileInv, AfterCompare
  <2> QED BY <2>1, <2>2, <2>3, <2>4, <2>5 DEF Line
<1> QED
  BY <1>1, <1>2, <1>3, <1>4 DEF SilenceInv, Search

LEMMA SilenceNext == FileInv /\ SilenceInv /\ [FileNext]_fileVars => SilenceInv'
<1> SUFFICES ASSUME FileInv, SilenceInv, [FileNext]_fileVars PROVE SilenceInv'
  OBVIOUS
<1>1. CASE Open
  BY <1>1 DEF Open, SilenceInv, MismatchIsTrue, ErrorIsTold, Search
<1>2. CASE Info
  BY <1>2 DEF Info, SilenceInv, MismatchIsTrue, ErrorIsTold, Search
<1>3. CASE Hash
  BY <1>3 DEF Hash, SilenceInv, MismatchIsTrue, ErrorIsTold, Search
<1>4. CASE Hashed
  BY <1>4 DEF Hashed, SilenceInv, MismatchIsTrue, ErrorIsTold, Search
<1>5. CASE Compare
  BY <1>5, CompareKeepsSilence
<1>6. CASE Close
  <2>1. /\ UNCHANGED <<partVars, opts, result, quiet, line>>
        /\ phase = "close" /\ phase' = "output"
        /\ errors' = {} => errors = {}
    BY <1>6 DEF Close
  <2>2. Wanted' = Wanted
    BY <2>1, PartUnchanged DEF partVars
  <2> QED BY <2>1, <2>2 DEF SilenceInv, MismatchIsTrue, ErrorIsTold, Search
<1>7. CASE Output
  BY <1>7, OutputKeepsSilence
<1>8. CASE UNCHANGED fileVars
  <2>1. UNCHANGED <<partVars, opts, phase, errors, result, quiet, line>>
    BY <1>8 DEF fileVars
  <2>2. Wanted' = Wanted
    BY <2>1, PartUnchanged DEF partVars
  <2> QED BY <2>1, <2>2 DEF SilenceInv, MismatchIsTrue, ErrorIsTold, Search
<1> QED
  BY <1>1, <1>2, <1>3, <1>4, <1>5, <1>6, <1>7, <1>8 DEF FileNext, FileStep, Ended

LEMMA Silence == FileSpec => []SilenceInv
<1>1. FileInit => SilenceInv
  BY SilenceInit
<1>2. FileInv /\ SilenceInv /\ [FileNext]_fileVars => SilenceInv'
  BY SilenceNext
<1> QED BY <1>1, <1>2, FileInvariant, PTL DEF FileSpec

\* A file is called invalid, or passed over, only if its part has not the digest
\* that was given or an error was met.
THEOREM MismatchesAreTrue == FileSpec => []MismatchIsTrue
<1>1. SilenceInv => MismatchIsTrue
  BY DEF SilenceInv
<1> QED BY <1>1, Silence, PTL

\* Where an error leaves no trace in what is printed.
THEOREM ErrorsAreTold == FileSpec => []ErrorIsTold
<1>1. SilenceInv => ErrorIsTold
  BY DEF SilenceInv
<1> QED BY <1>1, Silence, PTL

-----------------------------------------------------------------------------
(* The search by hash                                                       *)

\* The buffer holds the digest of "" until the part has been read without an
\* error, and then that of the part, which is "" behind the end of the file.
BufferOK ==
  /\ opc # "returned" \/ message => digest = <<>>
  /\ opc = "returned" /\ ~message => digest = Wanted
  /\ message => opc = "returned"

\* The filter and the printer: what is found, and whether the file can be opened.
SearchOK ==
  /\ step \in {"filter", "hash", "print", "size", "fault", "end"}
  /\ step = "filter" => opc = "ready"
  /\ step \in {"filter", "hash"} => ~found
  /\ step \in {"print", "size", "fault"} => found
  /\ found => digest = searchHash /\ (opc = "returned" \/ part.size = 0)
  /\ step = "end" /\ opc = "returned" => (found <=> digest = searchHash)
  /\ step \in {"hash", "print"} /\ ~removed /\ part.size # 0 => readable
  /\ step = "fault" => removed \/ part.size = 0

\* During a search fhash_calculate_file has nothing to do.
HandlerIdle == phase = "end" /\ errors = {} /\ line = "none" /\ ~Search

SearchInv == IInv /\ BufferOK /\ SearchOK /\ HandlerIdle

FilterInv ==
  /\ searchHash = NoDigest => FileInv /\ SilenceInv /\ step = "end" /\ ~found
  /\ searchHash # NoDigest => SearchInv

LEMMA FilterInitInv == FilterInit => FilterInv
<1> SUFFICES ASSUME FilterInit PROVE FilterInv
  OBVIOUS
<1>1. found = FALSE /\ removed = FALSE
  BY DEF FilterInit
<1>2. CASE FileInit /\ searchHash = NoDigest /\ step = "end"
  BY <1>1, <1>2, FileInitInv, SilenceInit DEF FilterInv
<1>3. CASE /\ Ready /\ digest = <<>> /\ searchHash \in SearchHashes
           /\ step = "filter" /\ HandlerIdle
  <2>1. opc = "ready" /\ message = FALSE /\ fed = <<>> /\ pos = 0 /\ part \in Parts
    BY <1>3 DEF Ready
  <2>2. IInv
    <3>1. <<>> \in Seq(Nat) /\ 0 \in Nat
      OBVIOUS
    <3> QED
      BY <1>3, <2>1, <3>1 DEF IInv, TypeOK, FedInOrder, DigestIsOfPart
  <2>3. BufferOK /\ SearchOK
    BY <1>1, <1>3, <2>1 DEF BufferOK, SearchOK
  <2>4. searchHash # NoDigest
    BY <1>3, FileFilterAssumption
  <2> QED
    BY <1>3, <2>2, <2>3, <2>4 DEF FilterInv, SearchInv
<1> QED
  BY <1>2, <1>3 DEF FilterInit, HandlerIdle, Search

\* One step of the hash calculation keeps what is known of the buffer.
LEMMA HashKeepsBuffer ==
  ASSUME IInv, BufferOK, HashStep
  PROVE  IInv' /\ BufferOK' /\ UNCHANGED part /\ opc # "returned"
<1>1. IInv' /\ UNCHANGED part /\ Wanted' = Wanted
  BY StepInv, PartUnchanged DEF HashStep, Begin, Map, Unmap, Fail
<1>2. opc # "returned" /\ digest = <<>> /\ ~message
  BY DEF HashStep, Begin, Map, Unmap, Fail, BufferOK
<1>3. part \in PartType /\ (PartSize = 0 => part.size = 0)
  BY Sizes DEF IInv
<1>4. ASSUME Begin PROVE BufferOK'
  <2>1. CASE part.offset >= part.size /\ part.size > 0
    <3>1. Wanted = <<>> /\ digest' = <<>>
      BY <1>2, <1>3, <1>4, <2>1 DEF Wanted, Begin, PartType
    <3> QED
      BY <1>1, <1>2, <1>4, <3>1 DEF Begin, BufferOK
  <2>2. CASE part.offset < part.size \/ part.size = 0
    <3>1. opc' = "returned" /\ ~message' => digest' = Wanted'
      BY <1>1, <2>2 DEF IInv, DigestIsOfPart
    <3> QED
      BY <1>2, <1>4, <3>1 DEF Begin, BufferOK
  <2> QED
    BY <1>3, <2>1, <2>2 DEF PartType
<1>5. ASSUME Map PROVE BufferOK'
  BY <1>2, <1>5 DEF Map, BufferOK
<1>6. ASSUME Unmap PROVE BufferOK'
  <2>1. part.offset < part.size
    BY <1>6 DEF IInv, FedInOrder, Unmap
  <2>2. opc' = "returned" /\ ~message' => digest' = Wanted'
    BY <1>1, <2>1 DEF IInv, DigestIsOfPart
  <2> QED
    BY <1>2, <1>6, <2>2 DEF Unmap, BufferOK
<1>7. ASSUME Fail PROVE BufferOK'
  BY <1>2, <1>7 DEF Fail, BufferOK
<1> QED
  BY <1>1, <1>2, <1>4, <1>5, <1>6, <1>7 DEF HashStep

\* All but the hash calculation leave it alone.
LEMMA BufferUnchanged ==
  ASSUME IInv, BufferOK, UNCHANGED partVars
  PROVE  IInv' /\ BufferOK' /\ UNCHANGED <<part, opc, digest, message>>
<1>1. UNCHANGED <<part, opc, digest, message>> /\ Wanted' = Wanted
  BY PartUnchanged DEF partVars
<1> QED
  BY <1>1, StutterInv DEF BufferOK

LEMMA SearchStepInv ==
  ASSUME SearchInv, SearchStep \/ Remove
  PROVE  SearchInv' /\ UNCHANGED searchHash
<1> USE DEF SearchInv
<1>1. UNCHANGED searchHash /\ HandlerIdle'
  <2>1. UNCHANGED <<searchHash, phase, errors, line, opts>>
    BY DEF SearchStep, Remove, EmptyFile, FilterOpen, FilterHash, FilterHashed, PrinterOpen,
           PrinterPrint, fileVars, searchVars, UnchangedFile
  <2> QED BY <2>1 DEF HandlerIdle, Search
<1>2. CASE FilterHash
  <2>1. step = "hash" /\ HashStep /\ UNCHANGED searchVars
    BY <1>2 DEF FilterHash
  <2>2. IInv' /\ BufferOK' /\ UNCHANGED part
    BY <2>1, HashKeepsBuffer
  <2>3. SearchOK'
    BY <2>1, <2>2 DEF SearchOK, searchVars
  <2> QED
    BY <1>1, <2>2, <2>3
<1>3. ASSUME EmptyFile \/ FilterOpen \/ FilterHashed \/ PrinterOpen \/ PrinterPrint \/ Remove
      PROVE  SearchInv'
  <2>1. UNCHANGED partVars
    BY <1>3 DEF EmptyFile, FilterOpen, FilterHashed, PrinterOpen, PrinterPrint, Remove, fileVars
  <2>2. IInv' /\ BufferOK' /\ UNCHANGED <<part, opc, digest, message>>
    BY <2>1, BufferUnchanged
  <2>3. CASE EmptyFile
    BY <2>2, <2>3, <1>1 DEF EmptyFile, Skippable, SearchOK
  <2>4. CASE FilterOpen
    BY <2>2, <2>4, <1>1 DEF FilterOpen, SearchOK
  <2>5. CASE FilterHashed
    BY <2>2, <2>5, <1>1 DEF FilterHashed, SearchOK
  <2>6. CASE PrinterOpen
    BY <2>2, <2>6, <1>1 DEF PrinterOpen, SearchOK
  <2>7. CASE PrinterPrint
    BY <2>2, <2>7, <1>1 DEF PrinterPrint, SearchOK
  <2>8. CASE Remove
    BY <2>2, <2>8, <1>1 DEF Remove, SearchOK
  <2> QED
    BY <1>1, <1>3, <2>2, <2>3, <2>4, <2>5, <2>6, <2>7, <2>8
<1> QED
  BY <1>1, <1>2, <1>3 DEF SearchStep

LEMMA FilterNextInv == FilterInv /\ [FilterNext]_filterVars => FilterInv'
<1> SUFFICES ASSUME FilterInv, [FilterNext]_filterVars PROVE FilterInv'
  OBVIOUS
<1>1. CASE FileHandlerStep
  <2>1. FileStep /\ UNCHANGED searchVars
    BY <1>1 DEF FileHandlerStep
  <2>2. searchHash = NoDigest
    <3>1. phase # "end"
      BY <2>1 DEF FileStep, Open, Info, Hash, Hashed, Compare, Close, Output
    <3> QED
      BY <3>1 DEF FilterInv, SearchInv, HandlerIdle
  <2>3. FileInv' /\ SilenceInv'
    BY <2>1, <2>2, FileNextInv, SilenceNext DEF FilterInv, FileNext
  <2> QED
    BY <2>1, <2>2, <2>3 DEF FilterInv, searchVars
<1>2. CASE SearchStep \/ Remove
  <2>1. searchHash # NoDigest
    <3>1. step # "end"
      BY <1>2 DEF SearchStep, Remove, EmptyFile, FilterOpen, FilterHash, FilterHashed,
                  PrinterOpen, PrinterPrint
    <3> QED
      BY <3>1 DEF FilterInv
  <2> QED
    BY <1>2, <2>1, SearchStepInv DEF FilterInv
<1>3. CASE UNCHANGED filterVars
  <2>1. UNCHANGED fileVars /\ UNCHANGED searchVars
    BY <1>3 DEF filterVars
  <2>2. UNCHANGED partVars /\ UNCHANGED <<phase, errors, line, opts>>
    BY <2>1 DEF fileVars
  <2>3. FileInv /\ SilenceInv => FileInv' /\ SilenceInv'
    BY <2>1, FileNextInv, SilenceNext
  <2>4. SearchInv => SearchInv'
    <3> SUFFICES ASSUME SearchInv PROVE SearchInv'
      OBVIOUS
    <3>1. IInv' /\ BufferOK' /\ UNCHANGED <<part, opc, digest, message>>
      BY <2>2, BufferUnchanged DEF SearchInv
    <3>2. SearchOK'
      BY <2>1, <3>1 DEF SearchInv, SearchOK, searchVars
    <3> QED
      BY <2>2, <3>1, <3>2 DEF SearchInv, HandlerIdle, Search
  <2> QED
    BY <2>1, <2>3, <2>4 DEF FilterInv, searchVars
<1> QED
  BY <1>1, <1>2, <1>3 DEF FilterNext, HandlerEnded

\* The invariant of what is done to a file that the traversal meets (dir.c),
\* for every file and whatever is asked for.
THEOREM FilterInvariant == FilterSpec => []FilterInv
<1>1. FilterInit => FilterInv
  BY FilterInitInv
<1>2. FilterInv /\ [FilterNext]_filterVars => FilterInv'
  BY FilterNextInv
<1> QED BY <1>1, <1>2, PTL DEF FilterSpec

\* prdir_filter_by_hash, which drops the message of the hash calculation, finds
\* a file for a digest other than that of "" only if its part has it, and
\* misses none that it could read.
THEOREM FilterFindsRight == FilterSpec => []FilterIsRight
<1>1. FilterInv => FilterIsRight
  <2> SUFFICES ASSUME FilterInv PROVE FilterIsRight
    OBVIOUS
  <2>1. CASE searchHash = NoDigest
    <3>1. ~found /\ TypeOK
      BY <2>1 DEF FilterInv, FileInv, FileTypeOK
    <3>2. Wanted \in Seq(Nat)
      <4>1. part \in PartType /\ PartEnd \in Nat /\ part.offset <= PartEnd
        BY <3>1, Sizes DEF PartEnd, PartType
      <4>2. <<>> \in Seq(Nat)
        OBVIOUS
      <4>3. ASSUME part.offset < part.size
            PROVE  Bytes(part.offset, Least(PartEnd, part.size)) \in Seq(Nat)
        <5>1. part.offset \in Nat /\ part.size \in Nat
          BY <4>1 DEF PartType
        <5>2. /\ Least(PartEnd, part.size) \in Nat
              /\ part.offset <= Least(PartEnd, part.size)
          BY <4>1, <4>3, <5>1 DEF Least
        <5> QED
          BY <5>1, <5>2, BytesType
      <4> QED
        BY <4>1, <4>2, <4>3 DEF Wanted, PartType
    <3>3. Wanted # NoDigest
      BY <3>2, FileHashAssumption
    <3> QED
      BY <2>1, <3>1, <3>3 DEF FilterIsRight
  <2>2. CASE searchHash # NoDigest
    BY <2>2, FileFilterAssumption DEF FilterInv, SearchInv, BufferOK, SearchOK, FilterIsRight
  <2> QED
    BY <2>1, <2>2
<1> QED BY <1>1, FilterInvariant, PTL

\* prdir_print_file_info, which drops the status of its open call, asks a null
\* handle for the size only of a file that was removed or is empty.
THEOREM NullHandlesAreRare == FilterSpec => []NullHandleNeeds
<1>1. FilterInv => NullHandleNeeds
  BY DEF FilterInv, SearchInv, SearchOK, NullHandleNeeds
<1> QED BY <1>1, FilterInvariant, PTL

\* What dir_run prints for a file is right in the sense of FileHash too, and a
\* search leaves nothing behind that would be printed.
THEOREM HandlerPrintsRight ==
  FilterSpec => [](PrintedDigestIsTrue /\ MatchIsTrue /\ MismatchIsTrue /\ ErrorIsTold)
<1>1. FilterInv => PrintedDigestIsTrue /\ MatchIsTrue /\ MismatchIsTrue /\ ErrorIsTold
  <2>1. CASE searchHash = NoDigest
    BY <2>1 DEF FilterInv, FileInv, SilenceInv
  <2>2. CASE searchHash # NoDigest
    BY <2>2 DEF FilterInv, SearchInv, HandlerIdle, PrintedDigestIsTrue, MatchIsTrue,
                MismatchIsTrue, ErrorIsTold
  <2> QED BY <2>1, <2>2
<1> QED BY <1>1, FilterInvariant, PTL
=============================================================================
