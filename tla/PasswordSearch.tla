--------------------------- MODULE PasswordSearch ---------------------------
(***************************************************************************)
(* What bf_brute_force promises its caller: it answers once, with a string *)
(* of the requested length that has the wanted digest whenever there is    *)
(* one, and with NULL otherwise.  When a GPU takes part it promises less:  *)
(* a string that has the digest, or NULL.  How the words are divided among *)
(* threads, and in which order they are tried, is left open.               *)
(***************************************************************************)
EXTENDS Words

CONSTANTS
  Queries,   \* the calls considered
  None       \* a NULL answer

VARIABLES
  query,     \* the arguments of the call
  status,    \* "searching" or "done"
  answer     \* the string returned

vars == <<query, status, answer>>

Init ==
  /\ query \in Queries
  /\ status = "searching"
  /\ answer = None

Answers(q) ==
  CASE GpuTakesPart(q) -> q.targets \cup {None}
    [] ~GpuTakesPart(q) /\ Matching(q) = {} -> {None}
    [] OTHER -> Matching(q)

Answer ==
  /\ status = "searching"
  /\ status' = "done"
  /\ answer' \in Answers(query)
  /\ UNCHANGED query

Next == Answer

Spec == Init /\ [][Next]_vars /\ WF_vars(Answer)
=============================================================================
