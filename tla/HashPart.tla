------------------------------ MODULE HashPart ------------------------------
(***************************************************************************)
(* fhash_calculate_hash (srclib/filehash.c): the hash of a part of a file, *)
(* mapped and fed to the hash algorithm one page after the other.          *)
(*                                                                         *)
(* A byte is its position in the file.  A digest is the sequence of the    *)
(* bytes that were hashed, so that the algorithm is an injective function. *)
(* Mapping a page and removing the mapping may fail at any time.  The size *)
(* is what the caller has read earlier.  Modules FileHash and FileFilter   *)
(* are the two callers.                                                    *)
(***************************************************************************)
EXTENDS Integers, Sequences

CONSTANTS
  BufferSize,    \* FILE_BIG_BUFFER_SIZE
  Parts,         \* what may be asked for: [size, limit, offset]
  Zeros          \* the digest in memory that was never written

PartType == [size : Nat, limit : Nat \ {0}, offset : Nat]

\* The command line turns a limit of 0 into the greatest number.
ASSUME HashPartAssumption ==
  /\ BufferSize \in Nat \ {0}
  /\ Parts \subseteq PartType
  /\ Zeros \notin Seq(Nat)

VARIABLES
  part,     \* the arguments file_size, limit and offset
  opc,      \* "ready" before the call, then "map", "unmap", "returned"
  pos,      \* offset
  fed,      \* the bytes the hash context has been fed
  digest,   \* the caller's digest
  message   \* TRUE if an error message is returned

partVars == <<part, opc, pos, fed, digest, message>>

Least(a, b) == IF a <= b THEN a ELSE b

\* The bytes from position a to position b - 1.
Bytes(a, b) == [k \in 1 .. b - a |-> a + k - 1]

\* file_part_size, and the position at which the loop ends.
PartSize == Least(part.limit, part.size)
PartEnd == PartSize + part.offset

PageSize == Least(PartSize, BufferSize)

\* Mutant: a page is not cut at the end of the file.
Chunk_NotCut == Least(PageSize, PartEnd - pos)

\* How much is mapped next.
Chunk == Least(Least(PageSize, PartEnd - pos), part.size - pos)

Ready ==
  /\ part \in Parts
  /\ opc = "ready" /\ pos = 0 /\ fed = <<>> /\ message = FALSE

Init == Ready /\ digest = Zeros

\* An empty part has the digest of the empty string; when the part begins
\* behind the end of the file, the caller's digest is left as it is.
Begin ==
  /\ opc = "ready"
  /\ IF PartSize = 0
       THEN opc' = "returned" /\ digest' = <<>> /\ UNCHANGED pos
       ELSE /\ opc' = IF part.offset >= part.size THEN "returned" ELSE "map"
            /\ pos' = part.offset
            /\ UNCHANGED digest
  /\ UNCHANGED <<part, fed, message>>

\* Map a page and feed it.
Map ==
  /\ opc = "map"
  /\ fed' = fed \o Bytes(pos, pos + Chunk)
  /\ pos' = pos + Chunk
  /\ opc' = "unmap"
  /\ UNCHANGED <<part, digest, message>>

\* Mutants: the loop ends after the first page; or goes on at the end.
Unmap_OnePage ==
  /\ opc = "unmap"
  /\ opc' = "returned" /\ digest' = fed
  /\ UNCHANGED <<part, pos, fed, message>>

Unmap_Inclusive ==
  /\ opc = "unmap"
  /\ IF pos <= PartEnd /\ pos <= part.size
       THEN opc' = "map" /\ UNCHANGED digest
       ELSE opc' = "returned" /\ digest' = fed
  /\ UNCHANGED <<part, pos, fed, message>>

\* Remove the mapping; go on, or write the digest.
Unmap ==
  /\ opc = "unmap"
  /\ IF pos < PartEnd /\ pos < part.size
       THEN opc' = "map" /\ UNCHANGED digest
       ELSE opc' = "returned" /\ digest' = fed
  /\ UNCHANGED <<part, pos, fed, message>>

\* apr_mmap_create or apr_mmap_delete fails.
Fail ==
  /\ opc \in {"map", "unmap"}
  /\ opc' = "returned"
  /\ message' = TRUE
  /\ UNCHANGED <<part, pos, fed, digest>>

HashStep == Begin \/ Map \/ Unmap \/ Fail

Returned == opc = "returned" /\ UNCHANGED partVars

Next == HashStep \/ Returned

Spec == Init /\ [][Next]_partVars

-----------------------------------------------------------------------------
(* Properties                                                               *)

TypeOK ==
  /\ part \in Parts
  /\ opc \in {"ready", "map", "unmap", "returned"}
  /\ pos \in Nat
  /\ fed \in Seq(Nat)
  /\ digest \in Seq(Nat) \cup {Zeros}
  /\ message \in BOOLEAN

\* The bytes of the part that was asked for.
Wanted ==
  IF part.offset >= part.size
    THEN <<>>
    ELSE Bytes(part.offset, Least(PartEnd, part.size))

\* What the context has been fed is the part from its beginning to the
\* position, each byte once and in order: the loop invariant.
FedInOrder ==
  /\ opc = "ready" => fed = <<>> /\ ~message
  /\ opc \in {"map", "unmap"} =>
       /\ part.offset <= pos /\ pos <= PartEnd /\ pos <= part.size
       /\ part.offset < part.size
       /\ fed = Bytes(part.offset, pos)
  /\ opc = "map" => pos < PartEnd /\ pos < part.size

\* Nothing is mapped beyond the end of the file, and never an empty page,
\* which mmap refuses.
MapsInside == opc = "map" => Chunk > 0 /\ pos + Chunk <= part.size

\* A call that returns no message, of a part that begins inside the file,
\* leaves the digest of exactly that part.
DigestIsOfPart ==
  opc = "returned" /\ ~message
    /\ (part.offset < part.size \/ part.size = 0) => digest = Wanted

\* The inductive invariant.
IInv == TypeOK /\ FedInOrder /\ DigestIsOfPart
=============================================================================
