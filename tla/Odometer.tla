------------------------------ MODULE Odometer ------------------------------
(***************************************************************************)
(* The nested loops that write one candidate after the other into the      *)
(* attempt buffer: prbf_make_cpu_attempt, its wide copy, and               *)
(* prbf_make_gpu_attempt, which prbf_gpu_thread_func calls for one length  *)
(* after the other with the buffer the previous call has left.  They walk  *)
(* over the characters that module Dictionary has prepared.                *)
(*                                                                         *)
(* BruteForce counts words instead of writing them; the properties here    *)
(* are what entitles it to.                                                *)
(***************************************************************************)
EXTENDS Dictionary, Integers

CONSTANTS
  Nul,   \* the NUL character
  Jobs   \* records: text of --dict; first and last pass_len; skipNul, the GPU
         \* loop skips an attempt that begins with NUL; threads

ASSUME OdometerAssumption ==
  /\ Nul \notin Chars
  /\ Texts = {j.text : j \in Jobs}
  /\ \A j \in Jobs : /\ j.first \in Nat \ {0} /\ j.last \in Nat /\ j.first <= j.last
                     /\ j.skipNul \in BOOLEAN /\ j.threads \in Nat \ {0}

VARIABLES
  job,         \* what the search is asked
  attempt,     \* the buffer
  passLen,     \* pass_len of the call
  ti,          \* text index
  li,          \* index in the dictionary
  pc,          \* "wait" for the dictionary, "outer" or "inner" loop, "end"
  workThread,  \* work_thread_
  word         \* history: the number of the next word to be probed

vars == <<dictVars, job, attempt, passLen, ti, li, pc, workThread, word>>

DictLen == Len(result)

\* dict[ix], and the last index of a character in the dictionary, which is what
\* prbf_create_dict_hash leaves in the table; -1 for NUL.
DictChar(ix) == result[ix + 1]
IndexOfChar(c) == Max({0} \cup {k \in 1 .. DictLen : result[k] = c}) - 1

\* A worker without a character would have nothing to do.
NumOfThreads == IF DictLen <= job.threads THEN DictLen ELSE job.threads

\* The last word of length n, as in module Words.
LastWord[n \in Nat] == IF n = 0 THEN 0 ELSE DictLen * LastWord[n - 1] + DictLen

FirstWord == IF job.skipNul THEN LastWord[job.first - 1] + 1 ELSE 1

Init ==
  /\ DictInit
  /\ job \in {j \in Jobs : j.text = dict}
  /\ attempt = [z \in 0 .. job.last - 1 |-> Nul]
  /\ passLen = job.first
  /\ ti = passLen - 1 /\ li = 0 /\ pc = "wait"
  /\ workThread = 1
  /\ word = 0

PrepareDictionary ==
  /\ DictStep
  /\ UNCHANGED <<job, attempt, passLen, ti, li, pc, workThread, word>>

\* The threads start with empty buffers; without a character no worker does.
Start ==
  /\ stage = "done" /\ pc = "wait"
  /\ pc' = IF job.skipNul \/ NumOfThreads > 0 THEN "outer" ELSE "end"
  /\ word' = FirstWord
  /\ UNCHANGED <<dictVars, job, attempt, passLen, ti, li, workThread>>

\* Mutant: the search goes on one character too far.
Outer_SkipsOne ==
  /\ pc = "outer" /\ ti > -1
  /\ li' = IndexOfChar(attempt[ti]) + 2
  /\ pc' = "inner"
  /\ UNCHANGED <<dictVars, job, attempt, passLen, ti, workThread, word>>

\* for(li = prbf_indexofchar(attempt[ti], alphabet_hash) + 1; ...
Outer ==
  /\ pc = "outer" /\ ti > -1
  /\ li' = IndexOfChar(attempt[ti]) + 1
  /\ pc' = "inner"
  /\ UNCHANGED <<dictVars, job, attempt, passLen, ti, workThread, word>>

\* Some character to the right of ti is not the last of the dictionary, so
\* that the rotation must restart from the right end.
MustRotate ==
  \E z \in ti + 1 .. passLen - 1 : attempt'[z] # DictChar(DictLen - 1)

Rotate ==
  IF MustRotate
    THEN ti' = passLen - 1 /\ pc' = "outer" /\ UNCHANGED li
    ELSE li' = li + 1 /\ UNCHANGED <<ti, pc>>

\* Mutant: the turns start again one too late.
Inner_LateWrap ==
  /\ pc = "inner" /\ li < DictLen
  /\ attempt' = [attempt EXCEPT ![ti] = DictChar(li)]
  /\ \/ job.skipNul /\ attempt'[0] = Nul /\ UNCHANGED <<workThread, word>>
     \/ job.skipNul /\ attempt'[0] # Nul /\ word' = word + 1 /\ UNCHANGED workThread
     \/ /\ ~job.skipNul /\ word' = word + 1
        /\ workThread' = IF workThread <= NumOfThreads THEN workThread + 1 ELSE 1
  /\ Rotate
  /\ UNCHANGED <<dictVars, job, passLen>>

\* Write the next character; probe the attempt, which on a GPU must be complete
\* and on a CPU is a turn; then rotate or stay at ti.
Inner ==
  /\ pc = "inner" /\ li < DictLen
  /\ attempt' = [attempt EXCEPT ![ti] = DictChar(li)]
  /\ \/ job.skipNul /\ attempt'[0] = Nul /\ UNCHANGED <<workThread, word>>
     \/ job.skipNul /\ attempt'[0] # Nul /\ word' = word + 1 /\ UNCHANGED workThread
     \/ /\ ~job.skipNul /\ word' = word + 1
        /\ workThread' = IF workThread < NumOfThreads THEN workThread + 1 ELSE 1
  /\ Rotate
  /\ UNCHANGED <<dictVars, job, passLen>>

\* Mutant: neither the position nor the index is changed.
Carry_Stays ==
  /\ pc = "inner" /\ li >= DictLen
  /\ pc' = "outer"
  /\ UNCHANGED <<dictVars, job, attempt, ti, passLen, li, workThread, word>>

\* The characters are used up: back to the first one, which is the terminating
\* NUL of an empty dictionary, and carry to the left.
Carry ==
  /\ pc = "inner" /\ li >= DictLen
  /\ attempt' = [attempt EXCEPT ![ti] = IF li # DictLen THEN @
                                        ELSE IF DictLen = 0 THEN Nul ELSE DictChar(0)]
  /\ ti' = ti - 1
  /\ pc' = "outer"
  /\ UNCHANGED <<dictVars, job, passLen, li, workThread, word>>

\* The leftmost position is used up: the next call, or the end.
LengthDone ==
  /\ pc = "outer" /\ ti <= -1
  /\ IF passLen < job.last
       THEN passLen' = passLen + 1 /\ ti' = passLen /\ UNCHANGED pc
       ELSE pc' = "end" /\ UNCHANGED <<passLen, ti>>
  /\ UNCHANGED <<dictVars, job, attempt, li, workThread, word>>

Ended == pc = "end" /\ UNCHANGED vars

Next == PrepareDictionary \/ Start \/ Outer \/ Inner \/ Carry \/ LengthDone \/ Ended

Spec == Init /\ [][Next]_vars /\ WF_vars(Next)

-----------------------------------------------------------------------------
(* Properties                                                               *)

Attempts == [0 .. job.last - 1 -> Range(result) \cup {Nul}]

TypeOK ==
  /\ DictTypeOK
  /\ job \in Jobs
  /\ attempt \in Attempts
  /\ passLen \in job.first .. job.last
  /\ ti \in -1 .. job.last - 1
  /\ li \in 0 .. DictLen
  /\ pc \in {"wait", "outer", "inner", "end"}
  /\ workThread \in 1 .. job.threads
  /\ word \in Nat

\* The turn of a thread depends on the number of the word only.
TurnFollowsWord ==
  ~job.skipNul /\ DictLen > 0 /\ pc # "wait"
    => workThread = ((word - FirstWord) % NumOfThreads) + 1

\* The types, and what divides the words: whatever the carries between two
\* words, the thread whose turn it is follows from the number of the word.
OdometerInv == TypeOK /\ TurnFollowsWord

\* The number of the word in the first n cells of the buffer, leading NULs left
\* out as the skip loop does.
WordIn[n \in Nat] ==
  [a \in Attempts |->
     IF n = 0 THEN 0 ELSE DictLen * WordIn[n - 1][a] + IndexOfChar(a[n - 1]) + 1]

Probes == pc = "inner" /\ word' # word

\* The NULs are in front and the last cell has a character, so that the loop
\* that skips the NULs stays inside the buffer.
NulsInFront(a) ==
  /\ a[passLen - 1] # Nul
  /\ \A z \in 1 .. passLen - 1 : a[z - 1] # Nul => a[z] # Nul

\* What is probed is a well formed attempt, and the word whose number comes
\* next, in the order of module Words: no word is skipped and none comes twice,
\* across the carries, the growth of the attempt and the calls for increasing
\* lengths, and the loops end only after the last word.
ProbesInOrder ==
  [][/\ Probes => /\ NulsInFront(attempt')
                  /\ word' = word + 1 /\ WordIn[passLen][attempt'] = word
     /\ pc # "end" /\ pc' = "end" => word' = LastWord[job.last] + 1]_vars

\* The dictionary is prepared and the loops end.
Termination == <>(pc = "end")
=============================================================================
