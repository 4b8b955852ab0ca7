------------------------------ MODULE TreeHash ------------------------------
(***************************************************************************)
(* The Tiger tree hash of srclib/tth.c: the bytes come in chunks of any    *)
(* size, every BlockSize bytes make a leaf, and the leaves are merged as   *)
(* in a binary counter: block_count counts the leaves, and level k of the  *)
(* stack is in use when bit k of the count is set.                         *)
(*                                                                         *)
(* The Tiger hash is taken to be injective: the hash of a leaf is the run  *)
(* of bytes it covers, the hash of an inner node the pair of its children. *)
(***************************************************************************)
EXTENDS Integers

CONSTANTS
  BlockSize,   \* 1024
  StackSize,   \* 64, the levels of the stack
  MaxBytes,    \* bound on the length of the message
  MaxChunk     \* bound on the length of a chunk

\* The mask of a level: 1, shifted left once for each level.
Pow2[k \in Nat] == IF k = 0 THEN 1 ELSE 2 * Pow2[k - 1]

ASSUME TreeHashAssumption ==
  /\ BlockSize \in Nat \ {0} /\ StackSize \in Nat \ {0}
  /\ MaxBytes \in Nat /\ MaxChunk \in Nat
  /\ MaxBytes + BlockSize <= BlockSize * Pow2[StackSize]

VARIABLES
  pc,        \* "idle" between calls, "feed", "merge", "scan", "climb", "done"
  fed,       \* history: how many bytes were fed
  length,    \* bytes in the leaf, without the 0x00 in front
  size,      \* what is left of the chunk
  rest,      \* room in the leaf, as the loop of the update counts it
  blocks,    \* block_count
  stack,     \* the hashes of complete subtrees, None where none was written
  level,     \* pos / 3
  carry,     \* msg, or last_message
  back       \* who has called rhash_tth_process_block

vars == <<pc, fed, length, size, rest, blocks, stack, level, carry, back>>

Levels == 0 .. StackSize - 1
None == <<>>
Leaf(a, b) == <<"leaf", a, b>>
Node(l, r) == <<"node", l, r>>

\* n without its k lowest bits.
Shifted(n, k) == n \div Pow2[k]

Bit(k) == Shifted(blocks, k) % 2 = 1

\* rhash_tth_init
Init ==
  /\ pc = "idle"
  /\ fed = 0 /\ length = 0 /\ size = 0 /\ rest = 0
  /\ blocks = 0
  /\ stack = [k \in Levels |-> None]
  /\ level = 0 /\ carry = None /\ back = "feed"

\* rhash_tth_update is called with n bytes.
Update(n) ==
  /\ pc = "idle" /\ fed + n <= MaxBytes
  /\ size' = n /\ rest' = BlockSize - length
  /\ pc' = "feed"
  /\ UNCHANGED <<fed, length, blocks, stack, level, carry, back>>

\* rhash_tth_process_block begins with the hash of the leaf.
ProcessBlock(caller, leaf) ==
  /\ pc' = "merge" /\ back' = caller
  /\ level' = 0
  /\ carry' = leaf

\* Fill the leaf as far as the chunk goes; a full leaf is processed.
Feed ==
  /\ pc = "feed"
  /\ LET n == IF size < rest THEN size ELSE rest
     IN  /\ length' = length + n /\ fed' = fed + n /\ size' = size - n
         /\ rest' = n
  /\ IF length' < BlockSize
       THEN pc' = "idle" /\ UNCHANGED <<level, carry, back>>
       ELSE ProcessBlock("feed", Leaf(fed' - length', fed'))
  /\ UNCHANGED <<blocks, stack>>

\* Mutant: the children are swapped.
Merge_Swapped ==
  /\ pc = "merge" /\ Bit(level)
  /\ carry' = Node(carry, stack[level])
  /\ level' = level + 1
  /\ UNCHANGED <<pc, fed, length, size, rest, blocks, stack, back>>

\* The level is in use: its subtree is the left sibling.
Merge ==
  /\ pc = "merge" /\ Bit(level)
  /\ carry' = Node(stack[level], carry)
  /\ level' = level + 1
  /\ UNCHANGED <<pc, fed, length, size, rest, blocks, stack, back>>

\* The level is free: it takes the subtree.  The update goes on with an empty
\* leaf.
Store ==
  /\ pc = "merge" /\ ~Bit(level)
  /\ stack' = [stack EXCEPT ![level] = carry]
  /\ blocks' = blocks + 1
  /\ pc' = back
  /\ IF back = "feed" THEN length' = 0 /\ rest' = BlockSize
                      ELSE UNCHANGED <<length, rest>>
  /\ level' = 0
  /\ UNCHANGED <<fed, size, carry, back>>

\* Mutant: the leaf is processed even when it is empty.
Final_EmptyLeaf ==
  /\ pc = "idle"
  /\ ProcessBlock("scan", Leaf(fed - length, fed))
  /\ UNCHANGED <<fed, length, size, rest, blocks, stack>>

\* rhash_tth_final: what is left makes a last leaf; an empty message has one.
Final ==
  /\ pc = "idle"
  /\ IF length > 0 \/ blocks = 0
       THEN ProcessBlock("scan", Leaf(fed - length, fed))
       ELSE pc' = "scan" /\ level' = 0 /\ UNCHANGED <<carry, back>>
  /\ UNCHANGED <<fed, length, size, rest, blocks, stack>>

\* Look for the lowest level in use, which holds the rightmost subtree.
Scan ==
  /\ pc = "scan"
  /\ IF Pow2[level] < blocks /\ ~Bit(level)
       THEN UNCHANGED <<pc, carry>>
       ELSE pc' = "climb" /\ carry' = stack[level]
  /\ level' = level + 1
  /\ UNCHANGED <<fed, length, size, rest, blocks, stack, back>>

\* Mutant: the climb does not advance.
Climb_Stays ==
  /\ pc = "climb"
  /\ IF Pow2[level] <= blocks
       THEN UNCHANGED <<carry, level, pc>>
       ELSE pc' = "done" /\ UNCHANGED <<carry, level>>
  /\ UNCHANGED <<fed, length, size, rest, blocks, stack, back>>

\* Merge the levels in use from there to the top.
Climb ==
  /\ pc = "climb"
  /\ IF Pow2[level] <= blocks
       THEN /\ carry' = IF Bit(level) THEN Node(stack[level], carry) ELSE carry
            /\ level' = level + 1
            /\ UNCHANGED pc
       ELSE pc' = "done" /\ UNCHANGED <<carry, level>>
  /\ UNCHANGED <<fed, length, size, rest, blocks, stack, back>>

\* The steps inside a call.
Inside == Feed \/ Merge \/ Store \/ Scan \/ Climb

Done == pc = "done" /\ UNCHANGED vars

Next == (\E n \in 0 .. MaxChunk : Update(n)) \/ Final \/ Inside \/ Done

\* A call that has begun goes on; the caller may stop calling.
Spec == Init /\ [][Next]_vars /\ WF_vars(Inside)

-----------------------------------------------------------------------------
(* Properties                                                               *)

TypeOK ==
  /\ pc \in {"idle", "feed", "merge", "scan", "climb", "done"}
  /\ fed \in 0 .. MaxBytes /\ length \in 0 .. BlockSize
  /\ size \in 0 .. MaxChunk /\ rest \in 0 .. BlockSize
  /\ blocks \in Nat /\ DOMAIN stack = Levels /\ level \in 0 .. StackSize
  /\ back \in {"feed", "scan"}

\* The number of leaves of a message of m bytes, and leaf i.
Leaves(m) == IF m = 0 THEN 1 ELSE (m + BlockSize - 1) \div BlockSize

MessageLeaf(m, i) ==
  Leaf(i * BlockSize,
       IF m < (i + 1) * BlockSize THEN m ELSE (i + 1) * BlockSize)

\* The Merkle tree of a message of m bytes, row by row from its leaves: node i
\* of a row joins nodes 2i and 2i + 1 of the row below, where node i of row k
\* begins with leaf i * 2^k; a node without a right sibling goes up as it is.
Row[k \in Nat] ==
  IF k = 0
    THEN [m \in Nat |-> [i \in Nat |-> MessageLeaf(m, i)]]
    ELSE [m \in Nat |-> [i \in Nat |->
            IF (2 * i + 1) * Pow2[k - 1] < Leaves(m)
              THEN Node(Row[k - 1][m][2 * i], Row[k - 1][m][2 * i + 1])
              ELSE Row[k - 1][m][2 * i]]]

\* The result is the Merkle root of the message, however it was cut into
\* chunks: the one node of every row that has just one.  No leaf is added when
\* the length is a multiple of the block, and the empty message has one leaf.
RootIsMerkle ==
  pc = "done" =>
    \A k \in 0 .. StackSize : Leaves(fed) <= Pow2[k] => carry = Row[k][fed][0]

\* Between calls, a level whose bit is set holds the complete subtree over its
\* share of the leaves: what makes the count stand for the shape of the stack.
StackIsComplete ==
  pc \in {"idle", "feed"} =>
    \A k \in Levels : Bit(k) => stack[k] = Row[k][fed][Shifted(blocks, k) - 1]

\* The types and the shape of the stack.
StackInv == TypeOK /\ StackIsComplete

\* Every call returns.
CallsReturn == pc \notin {"idle", "done"} ~> pc \in {"idle", "done"}
=============================================================================
