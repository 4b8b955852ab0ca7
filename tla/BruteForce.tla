----------------------------- MODULE BruteForce -----------------------------
(***************************************************************************)
(* One call of bf_brute_force (srclib/bf.c): the calling thread starts CPU *)
(* workers and one thread for each GPU device, waits for them in order and *)
(* returns a string or NULL.  The threads share three globals:             *)
(*                                                                         *)
(*   g_already_found   read and set with apr_atomic_*: one step each;      *)
(*   g_attempts        "+=" is a load and a store, except in the flushes   *)
(*                     of the MSVC build, which are interlocked;           *)
(*   g_gpu_variant_ix  the slot of the batch that is filled next, shared   *)
(*                     by all the device threads without any lock.         *)
(*                                                                         *)
(* A step makes at most one access to a shared variable.  The narrow and   *)
(* the wide search loops of the CPU workers have the same control; one set *)
(* of actions stands for both.  Words are numbered as in module Words.     *)
(***************************************************************************)
EXTENDS Words, Integers, FiniteSets

CONSTANTS
  Queries,        \* the calls considered
  None,           \* a NULL string
  FlushLimit,     \* CPU_MAX_ATTEMT_COUNT_TO_FLUSH
  AtomicFlush,    \* TRUE in the MSVC build
  VariantsCount,  \* slots of a GPU batch: blocks * threads per block
  MaxThreads,     \* bound on the number of CPU threads asked for
  MaxDevices      \* bound on the number of GPU devices

Workers == 1 .. MaxThreads
Devices == 1 .. MaxDevices
Slots == 0 .. VariantsCount - 1

(***************************************************************************)
(* The arguments of a call.  gpu says that the hash has a CUDA kernel and  *)
(* that the CUDA runtime answers; factor and comparisons are the numbers   *)
(* prhsh_set_gpu_functions registers for the hash.                         *)
(***************************************************************************)
CallType ==
  [passmin : Nat, passmax : Nat, targets : SUBSET Nat, threads : Workers,
   gpu : BOOLEAN, devices : 0 .. MaxDevices,
   factor : 1 .. 2, comparisons : 1 .. 2]

ASSUME BruteForceAssumption ==
  /\ DictLen \in Nat /\ LengthLimit \in Nat /\ FlushLimit \in Nat
  /\ VariantsCount \in Nat \ {0} /\ MaxThreads \in Nat /\ MaxDevices \in Nat
  /\ AtomicFlush \in BOOLEAN
  /\ None \notin Nat
  /\ Queries \subseteq CallType
  /\ LastWord[2] \in Nat
  /\ \A q \in Queries :
       /\ LastWord[q.passmax] \in Nat /\ (DictLen = 0 => LastWord[q.passmax] = 0)
       /\ q.passmax > 3 => LastWord[q.passmax - (3 - q.factor)] \in Nat

VARIABLES
  query,         \* the arguments of the call
  \* the calling thread
  mpc,           \* where it is; "idle" before any call
  i,             \* its loop index
  pass,          \* the string it will return
  reg,           \* the value of g_attempts it has loaded
  \* globals
  alreadyFound,  \* g_already_found
  attempts,      \* g_attempts
  variantIx,     \* g_gpu_variant_ix
  \* CPU workers (tread_ctx_t)
  wpc,           \* where each worker is
  word,          \* the word its odometer stands on (pass_ or wide_pass_)
  workThread,    \* work_thread_: whose turn the word is
  numOfAttempts, \* num_of_attempts_, not yet added to g_attempts
  wreg,          \* the value of g_attempts it has loaded
  wpass,         \* the string in its context when it has ended
  tried,         \* history: the words it has counted as attempts
  \* GPU device threads (gpu_tread_ctx_t)
  gpc,           \* where each device thread is
  variant,       \* the word its odometer stands on (attempt_)
  slot,          \* current: the slot it writes next
  batch,         \* variants_: the words of the batch, 0 for an empty slot
  greg,          \* a shared value it has loaded
  gpass,         \* result_, None unless found_in_the_thread_
  ran            \* history: the variants a kernel was run on

mainVars == <<query, mpc, i, pass, reg>>
cpuVars == <<wpc, word, workThread, numOfAttempts, wreg, wpass, tried>>
gpuVars == <<gpc, variant, slot, batch, greg, gpass, ran>>
vars == <<mainVars, alreadyFound, attempts, variantIx, cpuVars, gpuVars>>

-----------------------------------------------------------------------------
(* What a call works with                                                   *)

UseGpu == GpuTakesPart(query)

\* num_of_threads: one with a GPU, and never more than the dictionary has
\* characters.
NumOfThreads ==
  LET asked == IF UseGpu THEN 1 ELSE query.threads
  IN  IF DictLen <= asked THEN DictLen ELSE asked

Last == LastWord[query.passmax]

\* The device threads start at length 3 and leave the last one or two
\* characters to the kernel.
FirstVariant == LastWord[2] + 1
LastVariant == LastWord[query.passmax - (3 - query.factor)]

\* The words a kernel thread compares for variant w.  Kernels that compare
\* once per iteration try w and w with one character more; the others try w
\* with one character more only if that makes four, and with two more.
KernelWords(w) ==
  (IF query.comparisons = 1
     THEN {w} \cup Extend(w)
     ELSE {x \in Extend(w) : WordLen[w] + 1 = 4}
            \cup UNION {Extend(x) : x \in Extend(w)}) \ {0}

\* attempts_in_iteration
BatchAttempts ==
  VariantsCount + VariantsCount *
    (IF query.comparisons = 2 THEN DictLen * DictLen ELSE DictLen)

-----------------------------------------------------------------------------
(* Initial states: the globals hold what an earlier call has left.          *)

PerWorker(v) == [t \in Workers |-> v]
PerDevice(v) == [d \in Devices |-> v]
EmptyBatch == [s \in Slots |-> 0]

NoContexts ==
  /\ wpc = PerWorker("none") /\ word = PerWorker(1)
  /\ workThread = PerWorker(1) /\ numOfAttempts = PerWorker(0)
  /\ wreg = PerWorker(0) /\ wpass = PerWorker(None) /\ tried = PerWorker({})
  /\ gpc = PerDevice("none") /\ variant = PerDevice(0) /\ slot = PerDevice(0)
  /\ batch = PerDevice(EmptyBatch) /\ greg = PerDevice(0)
  /\ gpass = PerDevice(None) /\ ran = PerDevice({})

Init ==
  /\ query \in Queries
  /\ mpc = "enter" /\ i = 1 /\ pass = None /\ reg = 0
  /\ alreadyFound \in BOOLEAN
  /\ attempts = 0
  /\ variantIx \in Slots
  /\ NoContexts

-----------------------------------------------------------------------------
(* The calling thread                                                       *)

\* Fresh contexts of all threads.
FreshContexts ==
  /\ wpc' = PerWorker("none") /\ word' = PerWorker(1)
  /\ workThread' = PerWorker(1) /\ numOfAttempts' = PerWorker(0)
  /\ wreg' = PerWorker(0) /\ wpass' = PerWorker(None) /\ tried' = PerWorker({})
  /\ gpc' = PerDevice("none") /\ variant' = PerDevice(0) /\ slot' = PerDevice(0)
  /\ batch' = PerDevice(EmptyBatch) /\ greg' = PerDevice(0)
  /\ gpass' = PerDevice(None) /\ ran' = PerDevice({})

\* Mutant: the flag an earlier call has left up is not cleared.
Enter_KeepsFlag ==
  /\ mpc = "enter"
  /\ pass' = None /\ i' = 1
  /\ mpc' = IF query.passmax > LengthLimit THEN "done" ELSE "create"
  /\ FreshContexts
  /\ UNCHANGED <<query, reg, alreadyFound, attempts, variantIx>>

\* The prologue: clear the flag, refuse a length that is too big, otherwise
\* allocate fresh contexts.
Enter ==
  /\ mpc = "enter"
  /\ alreadyFound' = FALSE
  /\ pass' = None
  /\ i' = 1
  /\ mpc' = IF query.passmax > LengthLimit THEN "done" ELSE "create"
  /\ FreshContexts
  /\ UNCHANGED <<query, reg, attempts, variantIx>>

\* Mutant: the first word is taken for every worker's own.
CreateWorker_OwnTurn ==
  /\ mpc = "create" /\ i <= NumOfThreads
  /\ wpc' = [wpc EXCEPT ![i] = "walk"]
  /\ workThread' = [workThread EXCEPT ![i] = i]
  /\ i' = i + 1
  /\ UNCHANGED <<query, mpc, pass, reg, alreadyFound, attempts, variantIx,
                 word, numOfAttempts, wreg, wpass, tried, gpuVars>>

\* Create CPU worker i: work_thread_ = 1, an empty attempt, so the first word
\* the odometer writes is word 1.
CreateWorker ==
  /\ mpc = "create" /\ i <= NumOfThreads
  /\ wpc' = [wpc EXCEPT ![i] = "walk"]
  /\ i' = i + 1
  /\ UNCHANGED <<query, mpc, pass, reg, alreadyFound, attempts, variantIx,
                 word, workThread, numOfAttempts, wreg, wpass, tried, gpuVars>>

WorkersCreated ==
  /\ mpc = "create" /\ i > NumOfThreads
  /\ mpc' = IF UseGpu /\ query.devices # 0 THEN "createGpu" ELSE "join"
  /\ i' = 1
  /\ UNCHANGED <<query, pass, reg, alreadyFound, attempts, variantIx,
                 cpuVars, gpuVars>>

\* Create the thread of device i; its odometer stands before the first word
\* of length 3 and it reads g_gpu_variant_ix to find its first slot.
CreateDevice ==
  /\ mpc = "createGpu" /\ i <= query.devices
  /\ gpc' = [gpc EXCEPT ![i] = "advance"]
  /\ variant' = [variant EXCEPT ![i] = FirstVariant - 1]
  /\ i' = i + 1
  /\ UNCHANGED <<query, mpc, pass, reg, alreadyFound, attempts, variantIx,
                 cpuVars, slot, batch, greg, gpass, ran>>

DevicesCreated ==
  /\ mpc = "createGpu" /\ i > query.devices
  /\ mpc' = "joinGpu"
  /\ i' = 1
  /\ UNCHANGED <<query, pass, reg, alreadyFound, attempts, variantIx,
                 cpuVars, gpuVars>>

\* Mutant: the result is read without waiting for the thread.
JoinDevice_NoWait ==
  /\ mpc = "joinGpu" /\ i <= query.devices
  /\ pass' = IF gpass[i] # None THEN gpass[i] ELSE pass
  /\ i' = i + 1
  /\ UNCHANGED <<query, mpc, reg, alreadyFound, attempts, variantIx,
                 cpuVars, gpuVars>>

JoinDevice ==
  /\ mpc = "joinGpu" /\ i <= query.devices
  /\ gpc[i] = "exited"
  /\ pass' = IF gpass[i] # None THEN gpass[i] ELSE pass
  /\ i' = i + 1
  /\ UNCHANGED <<query, mpc, reg, alreadyFound, attempts, variantIx,
                 cpuVars, gpuVars>>

\* "Stop CPU threads even if they found nothing"
StopWorkers ==
  /\ mpc = "joinGpu" /\ i > query.devices
  /\ alreadyFound' = TRUE
  /\ mpc' = "join"
  /\ i' = 1
  /\ UNCHANGED <<query, pass, reg, attempts, variantIx, cpuVars, gpuVars>>

\* Join worker i and load g_attempts for the addition ...
JoinWorker ==
  /\ mpc = "join" /\ i <= NumOfThreads
  /\ wpc[i] = "exited"
  /\ reg' = attempts
  /\ mpc' = "add"
  /\ UNCHANGED <<query, i, pass, alreadyFound, attempts, variantIx,
                 cpuVars, gpuVars>>

\* ... and store the sum; a string in the context replaces the one so far.
AddAttempts ==
  /\ mpc = "add"
  /\ attempts' = reg + numOfAttempts[i]
  /\ pass' = IF wpass[i] # None THEN wpass[i] ELSE pass
  /\ mpc' = "join"
  /\ i' = i + 1
  /\ UNCHANGED <<query, reg, alreadyFound, variantIx, cpuVars, gpuVars>>

Return ==
  /\ mpc = "join" /\ i > NumOfThreads
  /\ mpc' = "done"
  /\ UNCHANGED <<query, i, pass, reg, alreadyFound, attempts, variantIx,
                 cpuVars, gpuVars>>

MainSteps ==
  \/ Enter
  \/ CreateWorker \/ WorkersCreated
  \/ CreateDevice \/ DevicesCreated
  \/ JoinDevice \/ StopWorkers
  \/ JoinWorker \/ AddAttempts
  \/ Return

-----------------------------------------------------------------------------
(* CPU worker t                                                             *)

\* Mutant: the turns start again one too late.
NextThread_LateWrap(n) == IF n <= NumOfThreads THEN n + 1 ELSE 1

\* prbf_update_thread_ix
NextThread(n) == IF n < NumOfThreads THEN n + 1 ELSE 1

\* It is another worker's turn: go on to the next word.
CpuSkip(t) ==
  /\ wpc[t] = "walk" /\ word[t] <= Last /\ workThread[t] # t
  /\ word' = [word EXCEPT ![t] = @ + 1]
  /\ workThread' = [workThread EXCEPT ![t] = NextThread(@)]
  /\ UNCHANGED <<mainVars, alreadyFound, attempts, variantIx,
                 wpc, numOfAttempts, wreg, wpass, tried, gpuVars>>

\* All the words are behind: the thread function clears the context's string.
CpuExhausted(t) ==
  /\ wpc[t] = "walk" /\ word[t] > Last
  /\ wpc' = [wpc EXCEPT ![t] = "exited"]
  /\ UNCHANGED <<mainVars, alreadyFound, attempts, variantIx, word,
                 workThread, numOfAttempts, wreg, wpass, tried, gpuVars>>

\* Its turn, but somebody has found the string: give up.
CpuStopped(t) ==
  /\ wpc[t] = "walk" /\ word[t] <= Last /\ workThread[t] = t
  /\ alreadyFound
  /\ wpc' = [wpc EXCEPT ![t] = "exited"]
  /\ UNCHANGED <<mainVars, alreadyFound, attempts, variantIx, word,
                 workThread, numOfAttempts, wreg, wpass, tried, gpuVars>>

\* Its turn: count the attempt, and flush the count if there are many.
CpuAttempt(t) ==
  /\ wpc[t] = "walk" /\ word[t] <= Last /\ workThread[t] = t
  /\ ~alreadyFound
  /\ numOfAttempts' = [numOfAttempts EXCEPT ![t] = @ + 1]
  /\ tried' = [tried EXCEPT ![t] = @ \cup {word[t]}]
  /\ wpc' = [wpc EXCEPT ![t] =
               IF numOfAttempts[t] + 1 > FlushLimit THEN "flush" ELSE "compare"]
  /\ UNCHANGED <<mainVars, alreadyFound, attempts, variantIx,
                 word, workThread, wreg, wpass, gpuVars>>

\* Mutant: the count is added but not cleared.
CpuFlush_KeepsCount(t) ==
  /\ wpc[t] = "flush"
  /\ attempts' = attempts + numOfAttempts[t]
  /\ wpc' = [wpc EXCEPT ![t] = "compare"]
  /\ UNCHANGED <<mainVars, alreadyFound, variantIx, word, workThread,
                 numOfAttempts, wreg, wpass, tried, gpuVars>>

\* prbf_increment_attempts: interlocked in the MSVC build, otherwise a load ...
CpuFlush(t) ==
  /\ wpc[t] = "flush"
  /\ IF AtomicFlush
       THEN /\ attempts' = attempts + numOfAttempts[t]
            /\ numOfAttempts' = [numOfAttempts EXCEPT ![t] = 0]
            /\ wpc' = [wpc EXCEPT ![t] = "compare"]
            /\ UNCHANGED wreg
       ELSE /\ wreg' = [wreg EXCEPT ![t] = attempts]
            /\ wpc' = [wpc EXCEPT ![t] = "store"]
            /\ UNCHANGED <<attempts, numOfAttempts>>
  /\ UNCHANGED <<mainVars, alreadyFound, variantIx, word, workThread,
                 wpass, tried, gpuVars>>

\* ... and a store.
CpuStore(t) ==
  /\ wpc[t] = "store"
  /\ attempts' = wreg[t] + numOfAttempts[t]
  /\ numOfAttempts' = [numOfAttempts EXCEPT ![t] = 0]
  /\ wpc' = [wpc EXCEPT ![t] = "compare"]
  /\ UNCHANGED <<mainVars, alreadyFound, variantIx, word, workThread,
                 wreg, wpass, tried, gpuVars>>

\* Mutant: the length of the word is not asked for.
CpuFound_AnyLength(t) ==
  /\ wpc[t] = "compare" /\ word[t] \in query.targets
  /\ alreadyFound' = TRUE
  /\ wpass' = [wpass EXCEPT ![t] = word[t]]
  /\ wpc' = [wpc EXCEPT ![t] = "exited"]
  /\ UNCHANGED <<mainVars, attempts, variantIx, word, workThread,
                 numOfAttempts, wreg, tried, gpuVars>>

\* The digest is the wanted one: raise the flag, keep the word and end.
CpuFound(t) ==
  /\ wpc[t] = "compare" /\ Wanted(query, word[t])
  /\ alreadyFound' = TRUE
  /\ wpass' = [wpass EXCEPT ![t] = word[t]]
  /\ wpc' = [wpc EXCEPT ![t] = "exited"]
  /\ UNCHANGED <<mainVars, attempts, variantIx, word, workThread,
                 numOfAttempts, wreg, tried, gpuVars>>

\* It is not: go on to the next word.
CpuMissed(t) ==
  /\ wpc[t] = "compare" /\ ~Wanted(query, word[t])
  /\ word' = [word EXCEPT ![t] = @ + 1]
  /\ workThread' = [workThread EXCEPT ![t] = NextThread(@)]
  /\ wpc' = [wpc EXCEPT ![t] = "walk"]
  /\ UNCHANGED <<mainVars, alreadyFound, attempts, variantIx,
                 numOfAttempts, wreg, wpass, tried, gpuVars>>

Cpu(t) ==
  \/ CpuSkip(t) \/ CpuExhausted(t) \/ CpuStopped(t)
  \/ CpuAttempt(t) \/ CpuFlush(t) \/ CpuStore(t)
  \/ CpuFound(t) \/ CpuMissed(t)

-----------------------------------------------------------------------------
(* The thread of GPU device d                                               *)

\* Step the odometer and recompute the slot from g_gpu_variant_ix.
GpuAdvance(d) ==
  /\ gpc[d] = "advance" /\ variant[d] < LastVariant
  /\ variant' = [variant EXCEPT ![d] = @ + 1]
  /\ slot' = [slot EXCEPT ![d] = variantIx]
  /\ gpc' = [gpc EXCEPT ![d] = "fill"]
  /\ UNCHANGED <<mainVars, alreadyFound, attempts, variantIx, cpuVars,
                 batch, greg, gpass, ran>>

\* No more variants: what is left in the batch is never run.
GpuExhausted(d) ==
  /\ gpc[d] = "advance" /\ variant[d] >= LastVariant
  /\ gpc' = [gpc EXCEPT ![d] = "exited"]
  /\ UNCHANGED <<mainVars, alreadyFound, attempts, variantIx, cpuVars,
                 variant, slot, batch, greg, gpass, ran>>

\* Mutants: the last variant of a batch is not copied; or the index goes one
\* past the last slot.
GpuFill_DropsLast(d) ==
  /\ gpc[d] = "fill"
  /\ batch' = [batch EXCEPT ![d] =
                 [s \in Slots |->
                    IF s = slot[d] /\ variantIx < VariantsCount - 1
                      THEN variant[d] ELSE @[s]]]
  /\ greg' = [greg EXCEPT ![d] = variantIx]
  /\ gpc' = [gpc EXCEPT ![d] =
               IF variantIx < VariantsCount - 1 THEN "next" ELSE "full"]
  /\ UNCHANGED <<mainVars, alreadyFound, attempts, variantIx, cpuVars,
                 variant, slot, gpass, ran>>

GpuFill_OneMore(d) ==
  /\ gpc[d] = "fill"
  /\ batch' = [batch EXCEPT ![d] =
                 [s \in Slots |-> IF s = slot[d] THEN variant[d] ELSE @[s]]]
  /\ greg' = [greg EXCEPT ![d] = variantIx]
  /\ gpc' = [gpc EXCEPT ![d] =
               IF variantIx < VariantsCount THEN "next" ELSE "full"]
  /\ UNCHANGED <<mainVars, alreadyFound, attempts, variantIx, cpuVars,
                 variant, slot, gpass, ran>>

\* Copy the variant to its slot (a slot past the end is lost, see README)
\* and compare g_gpu_variant_ix with the last index.
GpuFill(d) ==
  /\ gpc[d] = "fill"
  /\ batch' = [batch EXCEPT ![d] =
                 [s \in Slots |-> IF s = slot[d] THEN variant[d] ELSE @[s]]]
  /\ greg' = [greg EXCEPT ![d] = variantIx]
  /\ gpc' = [gpc EXCEPT ![d] =
               IF variantIx < VariantsCount - 1 THEN "next" ELSE "full"]
  /\ UNCHANGED <<mainVars, alreadyFound, attempts, variantIx, cpuVars,
                 variant, slot, gpass, ran>>

\* ++g_gpu_variant_ix, of the value compared or of a value read again.
GpuNext(d) ==
  /\ gpc[d] = "next"
  /\ \E v \in {greg[d], variantIx} : variantIx' = v + 1
  /\ gpc' = [gpc EXCEPT ![d] = "advance"]
  /\ UNCHANGED <<mainVars, alreadyFound, attempts, cpuVars,
                 variant, slot, batch, greg, gpass, ran>>

GpuFull(d) ==
  /\ gpc[d] = "full"
  /\ variantIx' = 0
  /\ gpc' = [gpc EXCEPT ![d] = "poll"]
  /\ UNCHANGED <<mainVars, alreadyFound, attempts, cpuVars,
                 variant, slot, batch, greg, gpass, ran>>

\* Mutant: the thread waits instead of ending when the flag is up.
GpuPoll_Waits(d) ==
  /\ gpc[d] = "poll" /\ ~alreadyFound
  /\ gpc' = [gpc EXCEPT ![d] = "run"]
  /\ UNCHANGED <<mainVars, alreadyFound, attempts, variantIx, cpuVars,
                 variant, slot, batch, greg, gpass, ran>>

GpuPoll(d) ==
  /\ gpc[d] = "poll"
  /\ gpc' = [gpc EXCEPT ![d] = IF alreadyFound THEN "exited" ELSE "run"]
  /\ UNCHANGED <<mainVars, alreadyFound, attempts, variantIx, cpuVars,
                 variant, slot, batch, greg, gpass, ran>>

\* Mutant: the kernel returns the variant without the characters it appended.
KernelHits_Prefix(d) ==
  {batch[d][s] : s \in {z \in Slots :
                          query.targets \cap KernelWords(batch[d][z]) # {}}}

\* The words that one launch of the kernel on the batch of d finds.
KernelHits(d) ==
  query.targets \cap UNION {KernelWords(batch[d][s]) : s \in Slots}

\* gpu_run: launch the kernel on the batch, wait, take its result if any.
GpuRun(d) ==
  /\ gpc[d] = "run"
  /\ \E hit \in IF KernelHits(d) = {} THEN {None} ELSE KernelHits(d) :
        gpass' = [gpass EXCEPT ![d] = hit]
  /\ ran' = [ran EXCEPT ![d] = @ \cup {batch[d][s] : s \in Slots}]
  /\ gpc' = [gpc EXCEPT ![d] = "flush"]
  /\ UNCHANGED <<mainVars, alreadyFound, attempts, variantIx, cpuVars,
                 variant, slot, batch, greg>>

\* prbf_increment_attempts, as in CpuFlush and CpuStore.
GpuFlush(d) ==
  /\ gpc[d] = "flush"
  /\ IF AtomicFlush
       THEN /\ attempts' = attempts + BatchAttempts
            /\ gpc' = [gpc EXCEPT ![d] = "check"]
            /\ UNCHANGED greg
       ELSE /\ greg' = [greg EXCEPT ![d] = attempts]
            /\ gpc' = [gpc EXCEPT ![d] = "store"]
            /\ UNCHANGED attempts
  /\ UNCHANGED <<mainVars, alreadyFound, variantIx, cpuVars,
                 variant, slot, batch, gpass, ran>>

GpuStore(d) ==
  /\ gpc[d] = "store"
  /\ attempts' = greg[d] + BatchAttempts
  /\ gpc' = [gpc EXCEPT ![d] = "check"]
  /\ UNCHANGED <<mainVars, alreadyFound, variantIx, cpuVars,
                 variant, slot, batch, greg, gpass, ran>>

GpuFound(d) ==
  /\ gpc[d] = "check" /\ gpass[d] # None
  /\ alreadyFound' = TRUE
  /\ gpc' = [gpc EXCEPT ![d] = "exited"]
  /\ UNCHANGED <<mainVars, attempts, variantIx, cpuVars,
                 variant, slot, batch, greg, gpass, ran>>

\* Nothing in the batch: clear it and go on.
GpuMissed(d) ==
  /\ gpc[d] = "check" /\ gpass[d] = None
  /\ batch' = [batch EXCEPT ![d] = EmptyBatch]
  /\ gpc' = [gpc EXCEPT ![d] = "advance"]
  /\ UNCHANGED <<mainVars, alreadyFound, attempts, variantIx, cpuVars,
                 variant, slot, greg, gpass, ran>>

Gpu(d) ==
  \/ GpuAdvance(d) \/ GpuExhausted(d)
  \/ GpuFill(d) \/ GpuNext(d)
  \/ GpuFull(d) \/ GpuPoll(d) \/ GpuRun(d)
  \/ GpuFlush(d) \/ GpuStore(d)
  \/ GpuFound(d) \/ GpuMissed(d)

-----------------------------------------------------------------------------
\* The call has returned: nothing more happens.
Returned == mpc = "done" /\ UNCHANGED vars

Next ==
  \/ MainSteps
  \/ \E t \in Workers : Cpu(t)
  \/ \E d \in Devices : Gpu(d)
  \/ Returned

\* The system schedules every thread that can run.
Spec ==
  /\ Init /\ [][Next]_vars
  /\ WF_vars(MainSteps)
  /\ \A t \in Workers : WF_vars(Cpu(t))
  /\ \A d \in Devices : WF_vars(Gpu(d))

-----------------------------------------------------------------------------
(* Types                                                                    *)

TypeOK ==
  /\ query \in Queries
  /\ mpc \in {"idle", "enter", "create", "createGpu", "joinGpu", "join", "add", "done"}
  /\ i \in Nat \ {0} /\ pass \in Nat \cup {None} /\ reg \in Nat
  /\ alreadyFound \in BOOLEAN /\ attempts \in Nat /\ variantIx \in Nat
  /\ wpc \in [Workers -> {"none", "walk", "flush", "store", "compare", "exited"}]
  /\ word \in [Workers -> Nat] /\ workThread \in [Workers -> Nat \ {0}]
  /\ numOfAttempts \in [Workers -> Nat] /\ wreg \in [Workers -> Nat]
  /\ wpass \in [Workers -> Nat \cup {None}]
  /\ tried \in [Workers -> SUBSET Nat]
  /\ gpc \in [Devices -> {"none", "advance", "fill", "next", "full", "poll",
                          "run", "flush", "store", "check", "exited"}]
  /\ variant \in [Devices -> Int] /\ slot \in [Devices -> Nat]
  /\ batch \in [Devices -> [Slots -> Int]] /\ greg \in [Devices -> Nat]
  /\ gpass \in [Devices -> Nat \cup {None}]
  /\ ran \in [Devices -> SUBSET Int]

-----------------------------------------------------------------------------
(* The inductive invariant.  Its parts say, while a call runs, how far the  *)
(* calling thread is, what a worker has tried, what a device holds, and who *)
(* has raised the flag.                                                     *)

\* The worker whose turn word w is when there are n.
Turn(n, w) == ((w - 1) % n) + 1

Calling == mpc \notin {"idle", "enter"}
Refused == query.passmax > LengthLimit
DevicesQuiet == \A d \in Devices : gpc[d] \in {"none", "exited"}

\* Worker t has gone through the words before word[t], one turn in
\* NumOfThreads being its own, and none of those was wanted.
WorkerOK(t) ==
  /\ wpc[t] = "none" =>
       word[t] = 1 /\ workThread[t] = 1 /\ wpass[t] = None /\ tried[t] = {}
  /\ t > NumOfThreads => wpc[t] = "none"
  /\ t <= NumOfThreads => word[t] >= 1 /\ workThread[t] = Turn(NumOfThreads, word[t])
  /\ wpc[t] \in {"flush", "store", "compare"} =>
       word[t] <= Last /\ workThread[t] = t
  /\ wpc[t] = "exited" => wpass[t] # None \/ word[t] > Last \/ alreadyFound
  /\ wpass[t] # None =>
       wpc[t] = "exited" /\ wpass[t] \in 1 .. Last /\ Wanted(query, wpass[t])
  /\ \A w \in 1 .. Last : w < word[t] /\ Turn(NumOfThreads, w) = t => ~Wanted(query, w)
  /\ \A w \in tried[t] : w \in 1 .. Last /\ Turn(NumOfThreads, w) = t

DeviceOK(d) ==
  /\ ~UseGpu => gpc[d] = "none"
  /\ gpc[d] = "none" => gpass[d] = None
  /\ gpass[d] # None =>
       gpass[d] \in query.targets /\ gpc[d] \in {"flush", "store", "check", "exited"}

FlagOK ==
  alreadyFound =>
    \/ \E t \in Workers : wpass[t] # None
    \/ \E d \in Devices : gpass[d] # None
    \/ UseGpu /\ mpc \in {"join", "add", "done"}

\* What the calling thread may return.
PassOK ==
  pass # None => /\ pass \in query.targets
                 /\ ~UseGpu => pass \in 1 .. Last /\ Wanted(query, pass)

CreateOK ==
  mpc = "create" =>
    /\ ~Refused /\ pass = None
    /\ i \in 1 .. NumOfThreads + 1
    /\ \A t \in Workers : wpc[t] = "none" <=> t >= i
    /\ \A d \in Devices : gpc[d] = "none"

GpuOK ==
  mpc \in {"createGpu", "joinGpu"} =>
    /\ ~Refused /\ UseGpu
    /\ i \in 1 .. query.devices + 1
    /\ \A t \in Workers : t <= NumOfThreads => wpc[t] # "none"
    /\ \A d \in Devices : d > query.devices => gpc[d] = "none"
    /\ mpc = "createGpu" =>
         pass = None /\ \A d \in Devices : d >= i => gpc[d] = "none"
    /\ mpc = "joinGpu" => \A d \in Devices : d < i => gpc[d] = "exited"

JoinOK ==
  mpc \in {"join", "add"} =>
    /\ ~Refused
    /\ i \in 1 .. NumOfThreads + 1
    /\ mpc = "add" => i <= NumOfThreads /\ wpc[i] = "exited"
    /\ \A t \in Workers : t <= NumOfThreads => wpc[t] # "none"
    /\ \A t \in Workers : t < i => wpc[t] = "exited"
    /\ pass = None => \A t \in Workers : t < i => wpass[t] = None
    /\ DevicesQuiet

DoneOK ==
  mpc = "done" =>
    /\ Refused => pass = None /\ \A t \in Workers : wpc[t] = "none"
    /\ ~Refused => \A t \in Workers : t <= NumOfThreads => wpc[t] = "exited"
    /\ pass = None => \A t \in Workers : wpass[t] = None
    /\ DevicesQuiet

IdleOK ==
  mpc \in {"idle", "enter"} =>
    /\ \A t \in Workers : wpc[t] \in {"none", "exited"}
    /\ DevicesQuiet

MainOK == CreateOK /\ GpuOK /\ JoinOK /\ DoneOK /\ IdleOK /\ (Calling => PassOK)

ThreadsOK ==
  Calling => /\ \A t \in Workers : WorkerOK(t)
             /\ \A d \in Devices : DeviceOK(d)
             /\ FlagOK

\* The inductive invariant: MainOK, ThreadsOK and the types.
IInv == TypeOK /\ MainOK /\ ThreadsOK

(***************************************************************************)
(* What one device alone does with its batches.  No call is under way, or  *)
(* the shared index of the slots is the device's own.                      *)
(***************************************************************************)
SlotInv ==
  /\ ~Calling => variantIx \in Slots /\ \A d \in Devices : gpc[d] = "none"
  /\ query.devices = 1 =>
       /\ variantIx \in Slots
       /\ \A d \in Devices :
            /\ gpc[d] = "fill" => slot[d] = variantIx
            /\ gpc[d] = "next" => greg[d] = variantIx /\ variantIx < VariantsCount - 1

\* Each variant up to last was given to a kernel or is in one of the slots.
Kept(d, last, slots) ==
  \A v \in FirstVariant .. last : v \in ran[d] \/ \E s \in slots : batch[d][s] = v

Filled == 0 .. variantIx - 1

TailOK(d) ==
  /\ gpc[d] = "advance" => Kept(d, variant[d], Filled)
  /\ gpc[d] = "fill" => Kept(d, variant[d] - 1, Filled)
  /\ gpc[d] = "next" => Kept(d, variant[d], Filled \cup {variantIx})
  /\ gpc[d] \in {"full", "poll", "run"} => Kept(d, variant[d], Slots)
  /\ gpc[d] \in {"flush", "store", "check"} => Kept(d, variant[d], {})
  /\ gpc[d] = "exited" =>
       alreadyFound \/ (variant[d] >= LastVariant /\ Kept(d, variant[d], Filled))

TailInv == query.devices = 1 => \A d \in Devices : TailOK(d)

(***************************************************************************)
(* The attempts.  At any time there is a set of words that have reached    *)
(* g_attempts, or would have if no update had been lost: those of a worker *)
(* that has been joined, and of every other one all but as many as it has  *)
(* still to add.                                                           *)
(***************************************************************************)
AllTried == UNION {tried[t] : t \in Workers}

Joined(t) == mpc \in {"join", "add", "done"} /\ t < i

\* No update can be lost: there is only one worker, or only the calling thread
\* adds anything.
CountIsExact ==
  NumOfThreads = 1 \/ \A t \in Workers : Cardinality(tried[t]) <= FlushLimit

TallyOK(added) ==
  /\ \A t \in Workers :
       IF Joined(t) THEN tried[t] \subseteq added
                    ELSE Cardinality(tried[t] \ added) = numOfAttempts[t]
  /\ attempts <= Cardinality(added)
  /\ mpc = "add" => reg <= Cardinality(added)
  /\ \A t \in Workers : wpc[t] = "store" => wreg[t] <= Cardinality(added)
  /\ CountIsExact =>
       /\ attempts = Cardinality(added)
       /\ mpc = "add" => reg = Cardinality(added)
       /\ \A t \in Workers : wpc[t] = "store" => wreg[t] = Cardinality(added)

\* A worker counts no word twice, and flushes only above the limit.
TriedOK(t) ==
  /\ \A w \in tried[t] : w <= word[t] /\ (wpc[t] = "walk" => w < word[t])
  /\ wpc[t] \in {"flush", "store"} => numOfAttempts[t] > FlushLimit

TriedInv ==
  /\ \E n \in Nat : AllTried \subseteq 1 .. n
  /\ ~Calling => attempts = 0
  /\ mpc = "done" => Refused \/ i > NumOfThreads
  /\ Calling => \A t \in Workers : TriedOK(t)

TallyInv ==
  /\ TriedInv
  /\ Calling /\ ~UseGpu => \E added \in SUBSET AllTried : TallyOK(added)

-----------------------------------------------------------------------------
(* Properties                                                               *)

\* A string that is returned has the wanted digest, whoever found it and
\* whichever of several finds the joins kept.
AnswerIsPreimage == mpc = "done" /\ pass # None => pass \in query.targets

\* Without a GPU, NULL is returned only if no word of the requested lengths
\* has the wanted digest: dividing the words among the workers loses none,
\* and no worker gives up while nobody holds a string.
NothingMissed == mpc = "done" /\ ~UseGpu /\ pass = None => Matching(query) = {}

\* No word is tried by two workers: their copies of the odometer and of
\* work_thread_ stay consistent without any communication.
EachWordOnce ==
  \A t, u \in Workers : t # u => tried[t] \cap tried[u] = {}

\* Until the calling thread itself stops the workers, the flag is up only
\* if some thread holds a string, so that a worker that gives up is right to.
FlagHasWinner ==
  alreadyFound /\ mpc \notin {"idle", "enter", "done"}
    => \/ \E t \in Workers : wpass[t] # None
       \/ \E d \in Devices : gpass[d] # None
       \/ UseGpu /\ mpc \in {"join", "add"}

\* When the call returns no thread it created is still running: the contexts
\* and g_brute_force_ctx, which the next call overwrites, are not in use.
Quiescent ==
  mpc = "done" =>
    /\ \A t \in Workers : wpc[t] \in {"none", "exited"}
    /\ \A d \in Devices : gpc[d] \in {"none", "exited"}

\* Without a GPU, the attempts reported are never more than the words tried,
\* whatever updates of g_attempts were lost; and they are exactly the words
\* tried if only one worker runs, or if no worker reaches the limit at which it
\* flushes its count while others run.
AttemptsCounted ==
  ~UseGpu =>
    /\ attempts <= Cardinality(AllTried)
    /\ mpc = "done" /\ CountIsExact => attempts = Cardinality(AllTried)

\* One device never writes past its batch, whatever value of the global slot
\* index an earlier call has left.
SlotInBounds ==
  query.devices = 1 => \A d \in Devices : gpc[d] = "fill" => slot[d] \in Slots

\* One device that ends while the flag is down has run a kernel on all its
\* variants but the last few, fewer than one batch of them.
OnlyTailLost ==
  query.devices = 1 /\ ~alreadyFound =>
    \A d \in Devices :
      gpc[d] = "exited"
        => Cardinality((FirstVariant .. LastVariant) \ ran[d]) < VariantsCount

\* What BruteForceTest.cpp expects of every hash, those with a GPU
\* implementation included: a string of the requested lengths is found.  It
\* does not hold: a device that has no more variants makes the calling thread
\* stop the CPU workers, whatever they have still to try.
PresentIsFound == mpc = "done" /\ pass = None => Matching(query) = {}

\* What the documentation says of --max.  It does not hold with a GPU: the
\* kernels append characters without looking at the bound.
AnswerNotTooLong == mpc = "done" /\ pass # None => WordLen[pass] <= query.passmax

(***************************************************************************)
(* The call implements PasswordSearch: in particular it returns, since      *)
(* nobody waits for a thread that does not end.                            *)
(***************************************************************************)
Search == INSTANCE PasswordSearch WITH
            status <- IF mpc = "done" THEN "done" ELSE "searching",
            answer <- IF mpc = "done" THEN pass ELSE None

SearchSpec == Search!Spec
=============================================================================
