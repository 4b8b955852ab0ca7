--------------------------- MODULE HashModeProofs ---------------------------
(***************************************************************************)
(* Proofs about HashMode: what is true of one call of bf_brute_force stays *)
(* true of the calls that the hash mode makes one after the other on the   *)
(* same globals, and what is printed is right, for every set of command    *)
(* lines.                                                                  *)
(***************************************************************************)
EXTENDS HashMode, BruteForceProofs

-----------------------------------------------------------------------------
(* The invariant of the calls.                                              *)

LEMMA FirstCallInv == NoThreads => CallInv
BY FirstIInv, FirstSlot, FirstTail, FirstTally DEF CallInv

LEMMA StepCallInv ==
  ASSUME CallInv, [Next]_vars
  PROVE  CallInv'
BY StepIInv, SlotStep, TailStep, TallyStep DEF CallInv

\* A new call begins when the threads of the last one have ended.
LEMMA NewCallInv ==
  ASSUME CallInv, mpc \in {"idle", "done"}, NEW q \in Queries, Call(q),
         attempts' = 0, variantIx = 0, \A d \in Devices : gpc[d] = "none"
  PROVE  CallInv'
<1>1. /\ mpc' = "enter" /\ query' = q /\ i' = i /\ pass' = pass /\ reg' = reg
      /\ alreadyFound' = alreadyFound /\ variantIx' = 0
      /\ wpc' = wpc /\ word' = word /\ workThread' = workThread
      /\ numOfAttempts' = numOfAttempts /\ wreg' = wreg /\ wpass' = wpass
      /\ tried' = tried /\ gpc' = gpc /\ variant' = variant /\ slot' = slot
      /\ batch' = batch /\ greg' = greg /\ gpass' = gpass /\ ran' = ran
  BY DEF Call, cpuVars, gpuVars
<1>2. TypeOK /\ MainOK /\ TriedInv
  BY DEF CallInv, IInv, TallyInv
<1>3. TypeOK'
  BY <1>1, <1>2 DEF TypeOK
<1>4. \A t \in Workers : wpc[t] \in {"none", "exited"}
  <2>1. CASE mpc = "idle"
    BY <1>2, <2>1 DEF MainOK, IdleOK
  <2>2. CASE mpc = "done"
    BY <2>2, QuiescentState DEF CallInv, Quiescent
  <2>3. QED
    BY <2>1, <2>2
<1>5. MainOK'
  BY <1>1, <1>4 DEF MainOK, IdleOK, CreateOK, GpuOK, JoinOK, DoneOK, Calling, DevicesQuiet
<1>6. ~Calling' /\ ThreadsOK'
  BY <1>1 DEF Calling, ThreadsOK
<1>7. SlotInv'
  <2>1. 0 \in Slots'
    BY BruteForceAssumption DEF Slots
  <2>2. QED
    BY <1>1, <1>6, <2>1 DEF SlotInv
<1>8. TailInv'
  BY <1>1 DEF TailInv, TailOK
<1>9. TallyInv'
  <2>1. AllTried' = AllTried
    BY <1>1 DEF AllTried
  <2>2. QED
    BY <1>1, <1>2, <1>6, <2>1 DEF TallyInv, TriedInv
<1>10. QED
  BY <1>3, <1>5, <1>6, <1>7, <1>8, <1>9 DEF CallInv, IInv

-----------------------------------------------------------------------------
(* The phases of bf_crack_hash.                                             *)

\* What a call may change, phase by phase.
LEMMA InCallPhase ==
  ASSUME CallInv, PhaseOK, InCall, Next
  PROVE  PhaseOK'
<1>1. /\ phase \in {"probe", "main"} /\ phase' = phase /\ job' = job
      /\ query' = query /\ mpc # "idle"
  BY QueryStays DEF InCall, PhaseOK
<1>2. mpc' # "idle"
  BY <1>1, StepIInv DEF CallInv, Calling, vars, mainVars
<1>3. phase = "probe" => variantIx' = 0 /\ \A d \in Devices : gpc'[d] = "none"
  <2> SUFFICES ASSUME phase = "probe"
               PROVE  variantIx' = 0 /\ \A d \in Devices : gpc'[d] = "none"
    OBVIOUS
  <2>1. variantIx = 0 /\ (\A d \in Devices : gpc[d] = "none") /\ ~UseGpu
    BY CrackAssumption DEF PhaseOK, UseGpu, GpuTakesPart
  <2>2. ASSUME NEW d \in Devices
        PROVE  ~Gpu(d)
    BY <2>1 DEF Gpu, GpuAdvance, GpuExhausted, GpuFill, GpuNext, GpuFull, GpuPoll,
                GpuRun, GpuFlush, GpuStore, GpuFound, GpuMissed
  <2>3. variantIx' = 0
    <3>1. ASSUME NEW t \in Workers, Cpu(t)
          PROVE  variantIx' = variantIx
      BY <3>1 DEF Cpu, CpuSkip, CpuExhausted, CpuStopped, CpuAttempt, CpuFlush,
                  CpuStore, CpuFound, CpuMissed
    <3>2. MainSteps => variantIx' = variantIx
      BY MainGpuFrame DEF CallInv, IInv
    <3>3. QED
      BY <2>1, <2>2, <3>1, <3>2 DEF Next, Returned, vars
  <2>4. ASSUME NEW d \in Devices
        PROVE  gpc'[d] = "none"
    <3>1. CallInv' /\ (Calling' \/ UNCHANGED vars) /\ UseGpu' = UseGpu
      BY <1>1, StepCallInv, StepIInv, QueryFrame DEF CallInv
    <3>2. CASE Calling'
      BY <2>1, <3>1, <3>2 DEF CallInv, IInv, ThreadsOK, DeviceOK
    <3>3. CASE UNCHANGED vars
      BY <2>1, <3>3 DEF vars, gpuVars
    <3>4. QED
      BY <3>1, <3>2, <3>3
  <2>5. QED
    BY <2>3, <2>4
<1>4. QED
  BY <1>1, <1>2, <1>3 DEF PhaseOK

\* The steps of bf_crack_hash outside a call.
LEMMA CrackStep ==
  ASSUME CallInv, PhaseOK, UNCHANGED job,
         FoundEmpty \/ StartProbe \/ StartMain \/ ProbeToMain \/ Report
  PROVE  CallInv' /\ PhaseOK'
<1>1. /\ ProbeQuery \in Queries /\ Asked(job.query) \in Queries
      /\ Asked(job.query)' = Asked(job.query)
  BY CrackAssumption DEF PhaseOK
<1>2. CASE FoundEmpty \/ Report
  <2>1. UNCHANGED vars /\ [Next]_vars
    BY <1>2 DEF FoundEmpty, Report
  <2>2. CallInv'
    BY <2>1, StepCallInv
  <2>3. /\ query' = query /\ mpc' = mpc /\ pass' = pass /\ attempts' = attempts
        /\ variantIx' = variantIx /\ gpc' = gpc
    BY <2>1 DEF vars, mainVars, gpuVars
  <2>4. PhaseOK'
    BY <1>1, <1>2, <2>3 DEF FoundEmpty, Report, PhaseOK
  <2>5. QED
    BY <2>2, <2>4
<1>3. CASE StartProbe \/ StartMain \/ ProbeToMain
  <2>1. /\ phase \in {"start", "probe"} /\ mpc \in {"idle", "done"} /\ attempts' = 0
        /\ variantIx = 0 /\ \A d \in Devices : gpc[d] = "none"
    BY <1>3 DEF StartProbe, StartMain, ProbeToMain, PhaseOK, CallInv, TallyInv,
                TriedInv, Calling
  <2>2. PICK q \in Queries : /\ Call(q)
                             /\ q = IF phase' = "probe" THEN ProbeQuery
                                                        ELSE Asked(job.query)
    BY <1>1, <1>3 DEF StartProbe, StartMain, ProbeToMain
  <2>3. CallInv'
    BY <2>1, <2>2, NewCallInv
  <2>4. /\ query' = q /\ mpc' = "enter" /\ variantIx' = 0 /\ gpc' = gpc
        /\ phase' \in {"probe", "main"}
    BY <1>3, <2>1, <2>2 DEF Call, gpuVars, StartProbe, StartMain, ProbeToMain
  <2>5. ~job.empty
    <3>1. phase = "start" => ~job.empty
      BY <1>3 DEF StartProbe, StartMain, ProbeToMain
    <3>2. phase = "probe" => ~job.empty
      BY DEF PhaseOK
    <3>3. QED
      BY <2>1, <3>1, <3>2
  <2>6. PhaseOK'
    BY <1>1, <2>1, <2>2, <2>4, <2>5 DEF PhaseOK
  <2>7. QED
    BY <2>3, <2>6
<1>4. QED
  BY <1>2, <1>3

-----------------------------------------------------------------------------
(* The process.                                                             *)

LEMMA HashStep ==
  ASSUME HashInv, [HashNext]_hashVars
  PROVE  HashInv'
<1>0. CallInv /\ PhaseOK /\ StageOK
  BY DEF HashInv
<1>1. ASSUME UNCHANGED <<vars, job, phase, answer, reported>>
      PROVE  CallInv' /\ PhaseOK'
  <2>1. CallInv'
    BY <1>0, <1>1, StepCallInv
  <2>2. /\ query' = query /\ mpc' = mpc /\ pass' = pass /\ attempts' = attempts
        /\ variantIx' = variantIx /\ gpc' = gpc
    BY <1>1 DEF vars, mainVars, gpuVars
  <2>3. PhaseOK'
    BY <1>0, <1>1, <2>2 DEF PhaseOK
  <2>4. QED
    BY <2>1, <2>3
<1>2. CASE UNCHANGED hashVars
  <2>1. UNCHANGED <<vars, job, phase, answer, reported>>
    BY <1>2 DEF hashVars, crackVars
  <2>2. attempts' = attempts
    BY <2>1 DEF vars
  <2>3. StageOK'
    BY <1>0, <1>2, <2>1, <2>2 DEF StageOK, hashVars, builtinVars
  <2>4. QED
    BY <1>1, <2>1, <2>3 DEF HashInv
<1>3. CASE MakePools \/ BeginHash \/ EndHash \/ Exit \/ CtrlC
  <2>1. UNCHANGED <<vars, job, phase, answer, reported>>
    BY <1>3 DEF MakePools, BeginHash, EndHash, Exit, CtrlC, crackVars
  <2>2. attempts' = attempts
    BY <2>1 DEF vars
  <2>3. StageOK'
    <3>1. CASE MakePools
      BY <1>0, <2>1, <3>1 DEF MakePools, StageOK
    <3>2. CASE BeginHash
      BY <1>0, <2>1, <3>2 DEF BeginHash, BuiltinInit, StageOK
    <3>3. CASE EndHash
      BY <1>0, <2>1, <3>3 DEF EndHash, StageOK
    <3>4. CASE Exit
      BY <1>0, <2>1, <3>4 DEF Exit, StageOK
    <3>5. CASE CtrlC
      BY <1>0, <2>1, <2>2, <3>5 DEF CtrlC, StageOK
    <3>6. QED
      BY <1>3, <3>1, <3>2, <3>3, <3>4, <3>5
  <2>4. QED
    BY <1>1, <2>1, <2>3 DEF HashInv
<1>4. ASSUME InCrack
      PROVE  StageOK'
  BY <1>0, <1>4 DEF InCrack, builtinVars, StageOK
<1>5. CASE InCrack /\ (FoundEmpty \/ StartProbe \/ StartMain \/ ProbeToMain \/ Report)
  <2>1. job' = job
    BY <1>5 DEF FoundEmpty, StartProbe, StartMain, ProbeToMain, Report
  <2>2. QED
    BY <1>0, <1>4, <1>5, <2>1, CrackStep DEF HashInv
<1>6. CASE InCrack /\ InCall /\ Next
  <2>1. [Next]_vars
    BY <1>6
  <2>2. QED
    BY <1>0, <1>4, <1>6, <2>1, StepCallInv, InCallPhase DEF HashInv
<1>7. QED
  BY <1>2, <1>3, <1>5, <1>6
     DEF HashNext, MainThread, Worker, Device, CallMain, CallCpu, CallGpu, Next

LEMMA HashInitInv == HashInit => HashInv
<1> SUFFICES ASSUME HashInit
             PROVE  HashInv
  OBVIOUS
<1>1. job \in Jobs /\ Asked(job.query) \in Queries
  BY CrackAssumption DEF HashInit, CrackInit
<1>2. NoThreads
  <2>1. 0 \in Slots
    BY BruteForceAssumption DEF Slots
  <2>2. QED
    BY <1>1, <2>1 DEF HashInit, CrackInit, NoThreads
<1>3. PhaseOK
  BY <1>1 DEF HashInit, CrackInit, PhaseOK, NoContexts, PerDevice
<1>4. StageOK
  BY DEF HashInit, CrackInit, StageOK
<1>5. QED
  BY <1>2, <1>3, <1>4, FirstCallInv DEF HashInv

\* What is true of one call, and where the process is, from its start to its
\* end.
THEOREM HashInvariant == HashSpec => []HashInv
<1>1. HashInv /\ [HashNext]_hashVars => HashInv'
  BY HashStep
<1>2. QED
  BY <1>1, HashInitInv, PTL DEF HashSpec

-----------------------------------------------------------------------------
(* What is printed, and who runs when.                                      *)

\* The string that is printed is one that the call asked for may return,
\* although the probe was made on the same globals.
THEOREM JobIsAnswered == HashSpec => []AnswersTheJob
<1>1. HashInv => AnswersTheJob
  <2> SUFFICES ASSUME HashInv, phase = "report"
               PROVE  answer \in IF job.empty THEN {EmptyString}
                                              ELSE Search!Answers(Asked(job.query))
    BY DEF AnswersTheJob
  <2>1. /\ query = Asked(job.query) /\ IInv
        /\ IF job.empty THEN answer = EmptyString ELSE mpc = "done" /\ answer = pass
    BY DEF HashInv, PhaseOK, CallInv
  <2>2. CASE job.empty
    BY <2>1, <2>2
  <2>3. CASE ~job.empty
    BY <2>1, <2>3, ReturnedIsAllowed
  <2>4. QED
    BY <2>2, <2>3
<1>2. QED
  BY <1>1, HashInvariant, PTL

\* Threads run only inside the call that made them, and while the pools that
\* hold their contexts exist.
THEOREM ThreadsHavePools == HashSpec => []ThreadsInPool
<1>1. HashInv => ThreadsInPool
  <2> SUFFICES ASSUME HashInv, stage # "interrupted",
                      NEW pc \in {wpc[t] : t \in Workers} \cup {gpc[d] : d \in Devices},
                      pc \notin {"none", "exited"}
               PROVE  {"main", "builtin"} \subseteq pools /\ mpc \notin {"idle", "enter", "done"}
    BY DEF ThreadsInPool
  <2>1. IInv /\ PhaseOK /\ StageOK /\ TypeOK
    BY DEF HashInv, CallInv, IInv
  <2>2. mpc \notin {"idle", "enter", "done"}
    <3>1. mpc \in {"idle", "enter"} => pc \in {"none", "exited"}
      BY <2>1 DEF IInv, MainOK, IdleOK, DevicesQuiet
    <3>2. mpc = "done" => pc \in {"none", "exited"}
      BY <2>1, QuiescentState DEF Quiescent
    <3>3. QED
      BY <3>1, <3>2
  <2>3. stage = "crack"
    BY <2>1, <2>2 DEF PhaseOK, StageOK
  <2>4. QED
    BY <2>1, <2>2, <2>3 DEF StageOK
<1>2. QED
  BY <1>1, HashInvariant, PTL

\* The attempts printed, at the end or by the handler of Ctrl-C at any moment,
\* are words that the call asked for has tried, never words of the probe.
THEOREM OwnAttemptsReported == HashSpec => []ReportsOwnAttempts
<1>1. HashInv => ReportsOwnAttempts
  <2> SUFFICES ASSUME HashInv, ~UseGpu
               PROVE  /\ printed <= Cardinality(AllTried)
                      /\ phase = "report" => reported <= Cardinality(AllTried)
    BY DEF ReportsOwnAttempts
  <2>1. /\ attempts <= Cardinality(AllTried) /\ attempts \in Nat
        /\ Cardinality(AllTried) \in Nat
    BY CountedState, TriedFinite
       DEF HashInv, CallInv, TallyInv, AttemptsCounted, IInv, TypeOK
  <2>2. printed \in {-1, attempts}
    BY DEF HashInv, StageOK
  <2>3. phase = "report" => reported = attempts
    BY DEF HashInv, PhaseOK
  <2>4. QED
    BY <2>1, <2>2, <2>3
<1>2. QED
  BY <1>1, HashInvariant, PTL

\* The string, the slots and the batches are right in each of the calls of the
\* process.
THEOREM HashCallsAreRight ==
  HashSpec => [](AnswerIsPreimage /\ NothingMissed /\ AttemptsCounted
                 /\ SlotInBounds /\ OnlyTailLost)
<1>1. HashInv => AnswerIsPreimage /\ NothingMissed /\ AttemptsCounted
                 /\ SlotInBounds /\ OnlyTailLost
  BY NothingMissedState, CountedState, SlotInBoundsState, OnlyTailLostState
     DEF HashInv, CallInv, IInv, MainOK, PassOK, Calling, AnswerIsPreimage
<1>2. QED
  BY <1>1, HashInvariant, PTL
=============================================================================
