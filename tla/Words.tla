------------------------------- MODULE Words -------------------------------
(***************************************************************************)
(* The words over the prepared dictionary (bf.c, g_brute_force_ctx->dict_) *)
(* numbered in the order in which the odometer of prbf_make_cpu_attempt    *)
(* writes them: shorter words first, words of one length in dictionary     *)
(* order.  Word 0 is the empty string, and appending the i-th character of *)
(* the dictionary to word w gives word DictLen * w + i.  Module Odometer   *)
(* shows that the loops of the code really walk through the words in this  *)
(* order.                                                                  *)
(*                                                                         *)
(* A query is what one call of bf_brute_force is asked: the length bounds  *)
(* and the words whose digest is the wanted one.                           *)
(***************************************************************************)
EXTENDS Naturals

CONSTANTS
  DictLen,       \* number of characters of the dictionary
  LengthLimit    \* the largest passmax accepted: INT_MAX / sizeof(int)

\* The length of word w.
WordLen[w \in Nat] == IF w = 0 THEN 0 ELSE 1 + WordLen[(w - 1) \div DictLen]

\* The last word of length n, hence the number of words of lengths 1 .. n.
LastWord[n \in Nat] == IF n = 0 THEN 0 ELSE DictLen * LastWord[n - 1] + DictLen

\* The words one character longer than w that begin with w.
Extend(w) == {DictLen * w + i : i \in 1 .. DictLen}

\* The test of a candidate: long enough, and with the wanted digest.
Wanted(q, w) == q.passmin <= WordLen[w] /\ w \in q.targets

\* use_gpu and the test of the length: whether devices take part in a call.
GpuTakesPart(q) == q.gpu /\ q.passmax > 3

(***************************************************************************)
(* What the caller of bf_brute_force wants: the words of the requested     *)
(* lengths whose digest is the wanted one; nothing when the call is        *)
(* refused because passmax is too big.                                     *)
(***************************************************************************)
Matching(q) ==
  IF q.passmax > LengthLimit
    THEN {}
    ELSE {w \in 1 .. LastWord[q.passmax] : Wanted(q, w)}
=============================================================================
