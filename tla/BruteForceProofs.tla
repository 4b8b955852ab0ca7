-------------------------- MODULE BruteForceProofs --------------------------
(***************************************************************************)
(* Proofs about BruteForce, for every dictionary, every set of queries and *)
(* any number of workers and devices: the search, and what it counts, the  *)
(* slots and batches of a single device and the attempts of the workers.   *)
(***************************************************************************)
EXTENDS BruteForce, FiniteSetTheorems, TLAPS

-----------------------------------------------------------------------------
(* The quotient and the remainder of natural numbers.                       *)

\* Division with remainder.
LEMMA DivMod ==
  ASSUME NEW N \in Nat \ {0}, NEW w \in Nat
  PROVE  /\ w \div N \in Nat
         /\ w % N \in 0 .. N - 1
         /\ w = (N * (w \div N)) + (w % N)
  BY SMT

\* The remainder is determined by any such decomposition.
LEMMA DivModUnique ==
  ASSUME NEW N \in Nat \ {0}, NEW q \in Nat, NEW p \in Nat,
         NEW r \in 0 .. N - 1, NEW s \in 0 .. N - 1,
         (N * q) + r = (N * p) + s
  PROVE  r = s
<1>1. ASSUME NEW x \in Nat, NEW y \in Nat, x < y
      PROVE  N * y >= (N * x) + N
  <2>1. y = x + 1 + (y - x - 1) /\ y - x - 1 \in Nat
    BY <1>1
  <2>2. N * y = (N * x) + N + (N * (y - x - 1))
    BY <2>1, SMT
  <2>3. N * (y - x - 1) \in Nat
    BY <2>1, SMT
  <2> HIDE <2>1
  <2>4. N * x \in Nat /\ N * y \in Nat
    BY SMT
  <2>5. QED BY <2>2, <2>3, <2>4
<1>2. N * q \in Nat /\ N * p \in Nat
  BY SMT
<1>3. CASE q < p
  BY <1>1, <1>2, <1>3
<1>4. CASE p < q
  BY <1>1, <1>2, <1>4
<1>5. CASE p = q
  BY <1>2, <1>5
<1>6. QED BY <1>3, <1>4, <1>5

\* The remainder of the successor, as a counter that wraps around.
LEMMA ModStep ==
  ASSUME NEW N \in Nat \ {0}, NEW w \in Nat
  PROVE  (w + 1) % N = IF (w % N) < N - 1 THEN (w % N) + 1 ELSE 0
<1> DEFINE q == w \div N
           r == w % N
<1>1. q \in Nat /\ r \in 0 .. N - 1 /\ w = (N * q) + r
  BY DivMod
<1>2. /\ (w + 1) \div N \in Nat
      /\ (w + 1) % N \in 0 .. N - 1
      /\ w + 1 = (N * ((w + 1) \div N)) + ((w + 1) % N)
  <2>1. w + 1 \in Nat
    OBVIOUS
  <2>2. QED BY <2>1, DivMod
<1> HIDE DEF q, r
<1>3. CASE r < N - 1
  <2>1. w + 1 = (N * q) + (r + 1) /\ r + 1 \in 0 .. N - 1
    BY <1>1, <1>3
  <2>2. r + 1 = (w + 1) % N
    BY <1>1, <1>2, <2>1, DivModUnique
  <2>3. QED BY <2>2, <1>3 DEF r
<1>4. CASE r = N - 1
  <2>1. w + 1 = (N * (q + 1)) + 0
    BY <1>1, <1>4
  <2>2. 0 = (w + 1) % N
    <3>1. q + 1 \in Nat /\ 0 \in 0 .. N - 1
      BY <1>1
    <3>2. (N * (q + 1)) + 0 = (N * ((w + 1) \div N)) + ((w + 1) % N)
      BY <1>2, <2>1
    <3>3. QED BY <1>2, <3>1, <3>2, DivModUnique
  <2>3. QED BY <2>2, <1>4 DEF r
<1>5. QED BY <1>1, <1>3, <1>4

-----------------------------------------------------------------------------
(* Types.                                                                   *)

\* No call starts more workers than there are contexts; and it starts one at
\* least if there are words to try.
LEMMA NumOfThreadsType ==
  ASSUME query \in Queries
  PROVE  /\ NumOfThreads \in 0 .. MaxThreads
         /\ MaxThreads \in Nat /\ MaxDevices \in Nat
         /\ query.threads \in Workers /\ query.devices \in 0 .. MaxDevices
         /\ Last \in Nat
         /\ Last # 0 => NumOfThreads # 0
<1>1. query \in CallType
  BY BruteForceAssumption
<1>2. query.threads \in 1 .. MaxThreads /\ query.devices \in 0 .. MaxDevices
  BY <1>1 DEF CallType, Workers
<1>3. MaxThreads \in Nat /\ MaxDevices \in Nat /\ DictLen \in Nat
  BY BruteForceAssumption
<1>4. Last \in Nat /\ (DictLen = 0 => Last = 0)
  BY BruteForceAssumption DEF Last
<1>5. QED
  BY <1>2, <1>3, <1>4 DEF NumOfThreads, Workers

LEMMA BatchAttemptsType == BatchAttempts \in Nat
<1>1. \A m, n \in Nat : m * n \in Nat /\ m + n \in Nat
  BY SMT
<1>2. VariantsCount \in Nat /\ DictLen \in Nat
  BY BruteForceAssumption
<1>3. DictLen * DictLen \in Nat
  BY <1>1, <1>2
<1>4. /\ VariantsCount * (DictLen * DictLen) \in Nat
      /\ VariantsCount * DictLen \in Nat
  BY <1>1, <1>2, <1>3
<1>5. QED
  BY <1>1, <1>2, <1>4 DEF BatchAttempts

\* Every variable keeps its type.
LEMMA TypeStep ==
  ASSUME TypeOK, JoinOK, [Next]_vars
  PROVE  TypeOK'
<1> USE DEF TypeOK, Workers, Devices
<1>0. /\ FlushLimit \in Nat /\ VariantsCount \in Nat \ {0} /\ DictLen \in Nat
      /\ LastWord[2] \in Nat /\ AtomicFlush \in BOOLEAN
  BY BruteForceAssumption
<1>a. \A n \in Nat \ {0} : NextThread(n) \in Nat \ {0}
  BY DEF NextThread
<1>1. CASE Enter
  <2>1. EmptyBatch \in [Slots -> Int]
    BY DEF EmptyBatch
  <2>2. /\ wpc' \in [Workers -> {"none", "walk", "flush", "store", "compare", "exited"}]
        /\ word' \in [Workers -> Nat] /\ workThread' \in [Workers -> Nat \ {0}]
        /\ numOfAttempts' \in [Workers -> Nat] /\ wreg' \in [Workers -> Nat]
        /\ wpass' \in [Workers -> Nat \cup {None}]
        /\ tried' \in [Workers -> SUBSET Nat]
    BY <1>1 DEF Enter, FreshContexts, PerWorker
  <2>3. /\ gpc' \in [Devices -> {"none", "advance", "fill", "next", "full", "poll",
                                "run", "flush", "store", "check", "exited"}]
        /\ variant' \in [Devices -> Int] /\ slot' \in [Devices -> Nat]
        /\ batch' \in [Devices -> [Slots -> Int]] /\ greg' \in [Devices -> Nat]
        /\ gpass' \in [Devices -> Nat \cup {None}]
        /\ ran' \in [Devices -> SUBSET Int]
    BY <1>1, <2>1 DEF Enter, FreshContexts, PerDevice
  <2>4. mpc' \in {"idle", "enter", "create", "createGpu", "joinGpu", "join",
                  "add", "done"}
    BY <1>1 DEF Enter, FreshContexts
  <2>5. /\ query' \in Queries /\ i' \in Nat \ {0} /\ pass' \in Nat \cup {None}
        /\ reg' \in Nat /\ attempts' \in Nat /\ variantIx' \in Nat
    BY <1>1 DEF Enter, FreshContexts
  <2>6. alreadyFound' \in BOOLEAN
    BY <1>1 DEF Enter, FreshContexts
  <2>7. QED
    BY <2>2, <2>3, <2>4, <2>5, <2>6
<1>2. CASE CreateWorker
  <2>1. wpc' \in [Workers -> {"none", "walk", "flush", "store", "compare", "exited"}]
    BY <1>2 DEF CreateWorker
  <2>2. QED
    BY <1>2, <2>1 DEF CreateWorker, gpuVars
<1>3. CASE WorkersCreated
  BY <1>3 DEF WorkersCreated, cpuVars, gpuVars
<1>4. CASE CreateDevice
  <2>1. FirstVariant - 1 \in Int
    BY <1>0 DEF FirstVariant
  <2>2. /\ variant' \in [Devices -> Int]
        /\ gpc' \in [Devices -> {"none", "advance", "fill", "next", "full", "poll",
                                "run", "flush", "store", "check", "exited"}]
    BY <1>4, <2>1 DEF CreateDevice
  <2>3. QED
    BY <1>4, <2>2 DEF CreateDevice, cpuVars
<1>5. CASE DevicesCreated
  BY <1>5 DEF DevicesCreated, cpuVars, gpuVars
<1>6. CASE JoinDevice
  <2>1. i \in Devices
    BY <1>6, NumOfThreadsType DEF JoinDevice
  <2>2. QED
    BY <1>6, <2>1 DEF JoinDevice, cpuVars, gpuVars
<1>7. CASE StopWorkers
  BY <1>7 DEF StopWorkers, cpuVars, gpuVars
<1>8. CASE JoinWorker
  BY <1>8 DEF JoinWorker, cpuVars, gpuVars
<1>9. CASE AddAttempts
  <2>1. i \in Workers
    BY <1>9, NumOfThreadsType DEF AddAttempts, JoinOK
  <2>2. QED
    BY <1>9, <2>1 DEF AddAttempts, cpuVars, gpuVars
<1>10. CASE Return
  BY <1>10 DEF Return, cpuVars, gpuVars
<1>11. ASSUME NEW t \in Workers, Cpu(t)
       PROVE  TypeOK'
  <2> USE DEF mainVars, cpuVars, gpuVars
  <2>1. CASE CpuSkip(t)
    <3>1. NextThread(workThread[t]) \in Nat \ {0}
      BY <1>a
    <3>2. word' \in [Workers -> Nat] /\ workThread' \in [Workers -> Nat \ {0}]
      BY <2>1, <3>1 DEF CpuSkip
    <3>3. QED
      BY <2>1, <3>2 DEF CpuSkip
  <2>2. CASE CpuExhausted(t)
    BY <2>2 DEF CpuExhausted
  <2>3. CASE CpuStopped(t)
    BY <2>3 DEF CpuStopped
  <2>4. CASE CpuAttempt(t)
    BY <2>4 DEF CpuAttempt
  <2>5. CASE CpuFlush(t)
    <3>1. /\ attempts' \in Nat /\ wreg' \in [Workers -> Nat]
          /\ numOfAttempts' \in [Workers -> Nat]
      BY <2>5 DEF CpuFlush
    <3>2. wpc' \in [Workers -> {"none", "walk", "flush", "store", "compare", "exited"}]
      BY <2>5 DEF CpuFlush
    <3>3. QED
      BY <2>5, <3>1, <3>2 DEF CpuFlush
  <2>6. CASE CpuStore(t)
    BY <2>6 DEF CpuStore
  <2>7. CASE CpuFound(t)
    BY <2>7 DEF CpuFound
  <2>8. CASE CpuMissed(t)
    <3>1. NextThread(workThread[t]) \in Nat \ {0}
      BY <1>a
    <3>2. word' \in [Workers -> Nat] /\ workThread' \in [Workers -> Nat \ {0}]
      BY <2>8, <3>1 DEF CpuMissed
    <3>3. QED
      BY <2>8, <3>2 DEF CpuMissed
  <2>9. QED
    BY <1>11, <2>1, <2>2, <2>3, <2>4, <2>5, <2>6, <2>7, <2>8 DEF Cpu
<1>12. ASSUME NEW d \in Devices, Gpu(d)
       PROVE  TypeOK'
  <2> USE DEF mainVars, cpuVars, gpuVars
  <2>1. CASE GpuAdvance(d)
    BY <2>1 DEF GpuAdvance
  <2>2. CASE GpuExhausted(d)
    BY <2>2 DEF GpuExhausted
  <2>3. CASE GpuFill(d)
    BY <2>3 DEF GpuFill
  <2>4. CASE GpuNext(d)
    BY <2>4 DEF GpuNext
  <2>5. CASE GpuFull(d)
    BY <2>5 DEF GpuFull
  <2>6. CASE GpuPoll(d)
    BY <2>6 DEF GpuPoll
  <2>7. CASE GpuRun(d)
    <3>1. query.targets \subseteq Nat
      BY BruteForceAssumption DEF CallType
    <3>2. KernelHits(d) \subseteq Nat
      BY <3>1 DEF KernelHits
    <3>3. {batch[d][s] : s \in Slots} \subseteq Int
      <4>1. batch[d] \in [Slots -> Int]
        OBVIOUS
      <4>2. QED
        BY <4>1
    <3>4. QED
      BY <2>7, <3>2, <3>3 DEF GpuRun
  <2>8. CASE GpuFlush(d)
    <3>1. BatchAttempts \in Nat
      BY BatchAttemptsType
    <3>2. attempts' \in Nat /\ greg' \in [Devices -> Nat]
      BY <2>8, <3>1 DEF GpuFlush
    <3>3. gpc' \in [Devices -> {"none", "advance", "fill", "next", "full", "poll",
                              "run", "flush", "store", "check", "exited"}]
      BY <2>8 DEF GpuFlush
    <3>4. QED
      BY <2>8, <3>2, <3>3 DEF GpuFlush
  <2>9. CASE GpuStore(d)
    <3>1. BatchAttempts \in Nat
      BY BatchAttemptsType
    <3>2. QED
      BY <2>9, <3>1 DEF GpuStore
  <2>10. CASE GpuFound(d)
    BY <2>10 DEF GpuFound
  <2>11. CASE GpuMissed(d)
    BY <2>11 DEF GpuMissed, EmptyBatch
  <2>12. QED
    BY <1>12, <2>1, <2>2, <2>3, <2>4, <2>5, <2>6, <2>7, <2>8, <2>9, <2>10,
       <2>11 DEF Gpu
<1>13. CASE UNCHANGED vars
  BY <1>13 DEF vars, mainVars, cpuVars, gpuVars
<1>14. QED
  BY <1>1, <1>2, <1>3, <1>4, <1>5, <1>6, <1>7, <1>8, <1>9, <1>10, <1>11,
     <1>12, <1>13 DEF Next, MainSteps, Returned

-----------------------------------------------------------------------------
(* What the steps of one thread leave alone.                                *)

LEMMA QueryFrame ==
  ASSUME query' = query
  PROVE  /\ UseGpu' = UseGpu /\ NumOfThreads' = NumOfThreads
         /\ Last' = Last /\ Refused' = Refused
BY DEF UseGpu, GpuTakesPart, NumOfThreads, Last, Refused

\* A step of worker t: it was running, it may end, it touches no other
\* context, and it never lowers the flag.
LEMMA CpuFrame ==
  ASSUME TypeOK, NEW t \in Workers, Cpu(t)
  PROVE  /\ UNCHANGED <<mainVars, gpuVars>>
         /\ wpc[t] \in {"walk", "flush", "store", "compare"}
         /\ wpc'[t] # "none"
         /\ \A u \in Workers \ {t} :
              /\ wpc'[u] = wpc[u] /\ word'[u] = word[u]
              /\ workThread'[u] = workThread[u]
              /\ wpass'[u] = wpass[u] /\ tried'[u] = tried[u]
         /\ alreadyFound => alreadyFound'
<1> USE DEF TypeOK, cpuVars
<1>1. CASE CpuSkip(t)
  BY <1>1 DEF CpuSkip
<1>2. CASE CpuExhausted(t)
  BY <1>2 DEF CpuExhausted
<1>3. CASE CpuStopped(t)
  BY <1>3 DEF CpuStopped
<1>4. CASE CpuAttempt(t)
  BY <1>4 DEF CpuAttempt
<1>5. CASE CpuFlush(t)
  BY <1>5 DEF CpuFlush
<1>6. CASE CpuStore(t)
  BY <1>6 DEF CpuStore
<1>7. CASE CpuFound(t)
  BY <1>7 DEF CpuFound
<1>8. CASE CpuMissed(t)
  BY <1>8 DEF CpuMissed
<1>9. QED
  BY <1>1, <1>2, <1>3, <1>4, <1>5, <1>6, <1>7, <1>8 DEF Cpu

\* A step of device d, likewise; a result is never dropped.
LEMMA GpuFrame ==
  ASSUME TypeOK, NEW d \in Devices, Gpu(d), DeviceOK(d)
  PROVE  /\ UNCHANGED <<mainVars, cpuVars>>
         /\ gpc[d] \notin {"none", "exited"}
         /\ gpc'[d] # "none"
         /\ \A e \in Devices \ {d} : gpc'[e] = gpc[e] /\ gpass'[e] = gpass[e]
         /\ gpass[d] # None => gpass'[d] = gpass[d]
         /\ gpass'[d] # None =>
              /\ gpass'[d] \in query.targets
              /\ gpc'[d] \in {"flush", "store", "check", "exited"}
         /\ alreadyFound => alreadyFound'
         /\ alreadyFound' => alreadyFound \/ gpass'[d] # None
<1> USE DEF TypeOK, gpuVars, DeviceOK
<1>1. CASE GpuAdvance(d)
  BY <1>1 DEF GpuAdvance
<1>2. CASE GpuExhausted(d)
  BY <1>2 DEF GpuExhausted
<1>3. CASE GpuFill(d)
  BY <1>3 DEF GpuFill
<1>4. CASE GpuNext(d)
  BY <1>4 DEF GpuNext
<1>5. CASE GpuFull(d)
  BY <1>5 DEF GpuFull
<1>6. CASE GpuPoll(d)
  BY <1>6 DEF GpuPoll
<1>7. CASE GpuRun(d)
  <2>1. gpass[d] = None
    BY <1>7 DEF GpuRun
  <2>2. gpass'[d] # None => gpass'[d] \in query.targets
    BY <1>7 DEF GpuRun, KernelHits
  <2>3. QED
    BY <1>7, <2>1, <2>2 DEF GpuRun
<1>8. CASE GpuFlush(d)
  BY <1>8 DEF GpuFlush
<1>9. CASE GpuStore(d)
  BY <1>9 DEF GpuStore
<1>10. CASE GpuFound(d)
  BY <1>10 DEF GpuFound
<1>11. CASE GpuMissed(d)
  BY <1>11 DEF GpuMissed
<1>12. QED
  BY <1>1, <1>2, <1>3, <1>4, <1>5, <1>6, <1>7, <1>8, <1>9, <1>10, <1>11 DEF Gpu

\* work_thread_ runs through the workers as the words run on.
LEMMA TurnStep ==
  ASSUME query \in Queries, NumOfThreads # 0, NEW w \in Nat \ {0}
  PROVE  /\ Turn(NumOfThreads, w) \in 1 .. NumOfThreads
         /\ NextThread(Turn(NumOfThreads, w)) = Turn(NumOfThreads, w + 1)
         /\ Turn(NumOfThreads, 1) = 1
<1> DEFINE N == NumOfThreads
           v == w - 1
<1>1. N \in Nat \ {0} /\ v \in Nat /\ 0 \in Nat
  BY NumOfThreadsType
<1>2. NextThread(Turn(N, w)) = IF Turn(N, w) < N THEN Turn(N, w) + 1 ELSE 1
  BY DEF NextThread
<1>3. Turn(N, w) = (v % N) + 1 /\ Turn(N, w + 1) = ((v + 1) % N) + 1
  <2>1. (w + 1) - 1 = v + 1
    BY <1>1
  <2>2. QED
    BY <2>1 DEF Turn
<1>4. Turn(N, 1) = (0 % N) + 1
  BY DEF Turn
<1> HIDE DEF N, v
<1>5. v % N \in 0 .. N - 1
  BY <1>1, DivMod
<1>6. (v + 1) % N = IF (v % N) < N - 1 THEN (v % N) + 1 ELSE 0
  BY <1>1, ModStep
<1>7. 0 % N = 0
  <2>1. 0 \div N \in Nat /\ 0 % N \in 0 .. N - 1 /\ 0 = (N * (0 \div N)) + (0 % N)
    BY <1>1, DivMod
  <2>2. N * (0 \div N) \in Nat
    BY <1>1, <2>1, SMT
  <2>3. QED
    BY <1>1, <2>1, <2>2
<1>8. Turn(N, w) \in 1 .. N /\ Turn(N, 1) = 1
  BY <1>1, <1>3, <1>4, <1>5, <1>7
<1>9. NextThread(Turn(N, w)) = Turn(N, w + 1)
  BY <1>1, <1>2, <1>3, <1>5, <1>6
<1>10. QED
  BY <1>8, <1>9 DEF N

-----------------------------------------------------------------------------
(* Steps of the workers.                                                    *)

\* Worker t keeps its own account right.
LEMMA CpuKeepsWorker ==
  ASSUME TypeOK, NEW t \in Workers, WorkerOK(t), Cpu(t)
  PROVE  WorkerOK(t)'
<1>0. /\ UNCHANGED <<mainVars, gpuVars>>
      /\ wpc[t] \in {"walk", "flush", "store", "compare"}
      /\ query' = query
  BY CpuFrame DEF mainVars
<1>1. /\ NumOfThreads' = NumOfThreads /\ Last' = Last
      /\ NumOfThreads \in Nat /\ Last \in Nat
  BY <1>0, QueryFrame, NumOfThreadsType DEF TypeOK
<1>2. /\ t \in Nat \ {0} /\ t <= NumOfThreads /\ NumOfThreads # 0
      /\ word[t] \in Nat \ {0} /\ workThread[t] = Turn(NumOfThreads, word[t])
  BY <1>0, <1>1 DEF WorkerOK, TypeOK, Workers
<1>3. /\ NextThread(workThread[t]) = Turn(NumOfThreads, word[t] + 1)
      /\ Turn(NumOfThreads, word[t]) \in 1 .. NumOfThreads
  BY <1>2, TurnStep DEF TypeOK
<1>4. CASE CpuSkip(t)
  <2>1. /\ word'[t] = word[t] + 1 /\ workThread'[t] = NextThread(workThread[t])
        /\ wpc' = wpc /\ wpass' = wpass /\ tried' = tried
        /\ wpc[t] = "walk" /\ Turn(NumOfThreads, word[t]) # t
    BY <1>2, <1>4 DEF CpuSkip, TypeOK
  <2>2. \A w \in 1 .. Last :
          w < word'[t] /\ Turn(NumOfThreads, w) = t => ~Wanted(query, w)
    BY <1>1, <1>2, <2>1 DEF WorkerOK
  <2>3. QED
    BY <1>0, <1>1, <1>2, <1>3, <2>1, <2>2 DEF WorkerOK
<1>5. CASE CpuExhausted(t) \/ CpuStopped(t)
  <2>1. /\ word' = word /\ workThread' = workThread /\ wpc'[t] = "exited"
        /\ wpass' = wpass /\ tried' = tried /\ wpc[t] = "walk"
        /\ word[t] > Last \/ alreadyFound'
    BY <1>5 DEF CpuExhausted, CpuStopped, TypeOK
  <2>2. QED
    BY <1>0, <1>1, <1>2, <2>1 DEF WorkerOK
<1>6. CASE CpuAttempt(t)
  <2>1. /\ word' = word /\ workThread' = workThread
        /\ wpc'[t] \in {"flush", "compare"} /\ wpc[t] = "walk"
        /\ wpass' = wpass /\ tried'[t] = tried[t] \cup {word[t]}
        /\ word[t] <= Last /\ workThread[t] = t
    BY <1>6 DEF CpuAttempt, TypeOK
  <2>2. word[t] \in 1 .. Last /\ Turn(NumOfThreads, word[t]) = t
    BY <1>1, <1>2, <2>1
  <2>3. \A w \in tried[t] : w \in 1 .. Last /\ Turn(NumOfThreads, w) = t
    BY DEF WorkerOK
  <2>4. \A w \in tried'[t] : w \in 1 .. Last /\ Turn(NumOfThreads, w) = t
    BY <2>1, <2>2, <2>3, Zenon
  <2>5. QED
    BY <1>0, <1>1, <1>2, <2>1, <2>4 DEF WorkerOK
<1>7. CASE CpuFlush(t) \/ CpuStore(t)
  <2>1. /\ word' = word /\ workThread' = workThread
        /\ wpc'[t] \in {"store", "compare"} /\ wpc[t] \in {"flush", "store"}
        /\ wpass' = wpass /\ tried' = tried
    BY <1>7 DEF CpuFlush, CpuStore, TypeOK
  <2>2. QED
    BY <1>0, <1>1, <1>2, <2>1 DEF WorkerOK
<1>8. CASE CpuFound(t)
  <2>1. /\ word' = word /\ workThread' = workThread
        /\ wpc[t] = "compare" /\ wpc'[t] = "exited"
        /\ wpass'[t] = word[t] /\ tried' = tried
        /\ Wanted(query, word[t])
    BY <1>8 DEF CpuFound, TypeOK
  <2>2. word[t] \in 1 .. Last /\ word[t] # None
    BY <1>1, <1>2, <2>1, BruteForceAssumption DEF WorkerOK
  <2>3. QED
    BY <1>0, <1>1, <1>2, <2>1, <2>2 DEF WorkerOK
<1>9. CASE CpuMissed(t)
  <2>1. /\ word'[t] = word[t] + 1 /\ workThread'[t] = NextThread(workThread[t])
        /\ wpc'[t] = "walk" /\ wpass' = wpass /\ tried' = tried
        /\ wpc[t] = "compare" /\ ~Wanted(query, word[t])
    BY <1>9 DEF CpuMissed, TypeOK
  <2>2. \A w \in 1 .. Last :
          w < word'[t] /\ Turn(NumOfThreads, w) = t => ~Wanted(query, w)
    BY <1>1, <1>2, <2>1 DEF WorkerOK
  <2>3. QED
    BY <1>0, <1>1, <1>2, <1>3, <2>1, <2>2 DEF WorkerOK
<1>10. QED
  BY <1>4, <1>5, <1>6, <1>7, <1>8, <1>9 DEF Cpu

\* A step of a worker leaves the account of the others and of the devices,
\* and raises the flag only with a string in hand.
LEMMA CpuKeepsThreads ==
  ASSUME TypeOK, Calling, ThreadsOK, NEW t \in Workers, Cpu(t)
  PROVE  ThreadsOK'
<1>0. /\ UNCHANGED <<mainVars, gpuVars>> /\ query' = query /\ mpc' = mpc
      /\ alreadyFound => alreadyFound'
  BY CpuFrame DEF mainVars
<1>1. NumOfThreads' = NumOfThreads /\ Last' = Last /\ UseGpu' = UseGpu
  BY <1>0, QueryFrame
<1>2. \A u \in Workers : WorkerOK(u)'
  <2>1. WorkerOK(t)'
    BY CpuKeepsWorker DEF ThreadsOK
  <2>2. ASSUME NEW u \in Workers \ {t}
        PROVE  WorkerOK(u)'
    <3>1. WorkerOK(u)
      BY DEF ThreadsOK
    <3>2. /\ wpc'[u] = wpc[u] /\ word'[u] = word[u]
          /\ workThread'[u] = workThread[u]
          /\ wpass'[u] = wpass[u] /\ tried'[u] = tried[u]
      BY CpuFrame
    <3>3. QED
      BY <1>0, <1>1, <3>1, <3>2 DEF WorkerOK
  <2>3. QED
    BY <2>1, <2>2
<1>3. \A d \in Devices : DeviceOK(d)'
  BY <1>0, <1>1 DEF ThreadsOK, DeviceOK, gpuVars
<1>4. FlagOK'
  <2>1. FlagOK
    BY DEF ThreadsOK
  <2>2. CASE CpuFound(t)
    <3>1. wpass'[t] = word[t] /\ word[t] # None
      BY <2>2, BruteForceAssumption DEF CpuFound, TypeOK
    <3>2. QED
      BY <3>1 DEF FlagOK
  <2>3. CASE ~CpuFound(t)
    <3>1. alreadyFound' = alreadyFound /\ wpass' = wpass /\ gpass' = gpass
      BY <1>0, <2>3 DEF Cpu, CpuSkip, CpuExhausted, CpuStopped, CpuAttempt,
                        CpuFlush, CpuStore, CpuMissed, gpuVars
    <3>2. QED
      BY <1>0, <1>1, <2>1, <3>1 DEF FlagOK
  <2>4. QED
    BY <2>2, <2>3
<1>5. QED
  BY <1>2, <1>3, <1>4 DEF ThreadsOK

\* The calling thread's account does not depend on what a running worker
\* does: it has only relied on workers that have ended.
LEMMA CpuKeepsMain ==
  ASSUME TypeOK, MainOK, ThreadsOK, NEW t \in Workers, Cpu(t)
  PROVE  Calling /\ MainOK'
<1>0. /\ UNCHANGED <<mainVars, gpuVars>>
      /\ wpc[t] \in {"walk", "flush", "store", "compare"}
      /\ wpc'[t] # "none"
      /\ \A u \in Workers \ {t} : wpc'[u] = wpc[u] /\ wpass'[u] = wpass[u]
  BY CpuFrame
<1>1. /\ query' = query /\ mpc' = mpc /\ i' = i /\ pass' = pass /\ gpc' = gpc
  BY <1>0 DEF mainVars, gpuVars
<1>2. /\ NumOfThreads' = NumOfThreads /\ Last' = Last /\ UseGpu' = UseGpu
      /\ Refused' = Refused
  BY <1>1, QueryFrame
<1>3. Calling
  BY <1>0 DEF MainOK, IdleOK, Calling
<1>4. t <= NumOfThreads
  <2>1. t \in Nat /\ NumOfThreads \in Nat
    BY NumOfThreadsType DEF TypeOK, Workers
  <2>2. WorkerOK(t)
    BY <1>3 DEF ThreadsOK
  <2>3. t > NumOfThreads => wpc[t] = "none"
    BY <2>2 DEF WorkerOK
  <2>4. QED
    BY <1>0, <2>1, <2>3
<1>5. mpc # "done"
  BY <1>0, <1>4 DEF MainOK, DoneOK
<1>6. CreateOK'
  BY <1>0, <1>1, <1>2 DEF MainOK, CreateOK
<1>7. GpuOK'
  BY <1>0, <1>1, <1>2 DEF MainOK, GpuOK
<1>8. JoinOK'
  <2> SUFFICES ASSUME mpc \in {"join", "add"}
               PROVE  JoinOK'
    BY <1>1 DEF JoinOK
  <2>1. /\ ~Refused /\ i \in 1 .. NumOfThreads + 1
        /\ mpc = "add" => i <= NumOfThreads /\ wpc[i] = "exited"
        /\ \A u \in Workers : u <= NumOfThreads => wpc[u] # "none"
        /\ \A u \in Workers : u < i => wpc[u] = "exited"
        /\ pass = None => \A u \in Workers : u < i => wpass[u] = None
        /\ DevicesQuiet
    BY DEF MainOK, JoinOK
  <2>2. mpc = "add" => wpc'[i] = "exited"
    <3>1. mpc = "add" => i \in Workers \ {t}
      BY <1>0, <2>1, NumOfThreadsType DEF TypeOK, Workers
    <3>2. QED
      BY <1>0, <2>1, <3>1
  <2>3. /\ \A u \in Workers : u <= NumOfThreads => wpc'[u] # "none"
        /\ \A u \in Workers : u < i => wpc'[u] = "exited"
        /\ pass = None => \A u \in Workers : u < i => wpass'[u] = None
    BY <1>0, <2>1
  <2>4. DevicesQuiet'
    BY <1>1, <2>1 DEF DevicesQuiet
  <2>5. QED
    BY <1>1, <1>2, <2>1, <2>2, <2>3, <2>4 DEF JoinOK
<1>9. DoneOK' /\ IdleOK'
  BY <1>1, <1>3, <1>5 DEF DoneOK, IdleOK, Calling
<1>10. (Calling => PassOK)'
  BY <1>1, <1>2 DEF MainOK, PassOK, Calling
<1>11. QED
  BY <1>3, <1>6, <1>7, <1>8, <1>9, <1>10 DEF MainOK

-----------------------------------------------------------------------------
(* Steps of the devices.                                                    *)

LEMMA GpuKeepsThreads ==
  ASSUME TypeOK, Calling, ThreadsOK, NEW d \in Devices, Gpu(d)
  PROVE  ThreadsOK'
<1>0. DeviceOK(d) /\ FlagOK
  BY DEF ThreadsOK
<1>1. /\ UNCHANGED <<mainVars, cpuVars>>
      /\ gpc[d] \notin {"none", "exited"}
      /\ gpc'[d] # "none"
      /\ \A e \in Devices \ {d} : gpc'[e] = gpc[e] /\ gpass'[e] = gpass[e]
      /\ gpass[d] # None => gpass'[d] = gpass[d]
      /\ gpass'[d] # None =>
           /\ gpass'[d] \in query.targets
           /\ gpc'[d] \in {"flush", "store", "check", "exited"}
      /\ alreadyFound => alreadyFound'
      /\ alreadyFound' => alreadyFound \/ gpass'[d] # None
  BY <1>0, GpuFrame
<1>2. query' = query /\ mpc' = mpc
  BY <1>1 DEF mainVars
<1>3. NumOfThreads' = NumOfThreads /\ Last' = Last /\ UseGpu' = UseGpu
  BY <1>2, QueryFrame
<1>4. ASSUME NEW u \in Workers
      PROVE  WorkerOK(u)'
  <2>1. WorkerOK(u)
    BY DEF ThreadsOK
  <2>2. QED
    BY <1>1, <1>2, <1>3, <2>1 DEF WorkerOK, cpuVars
<1>5. ASSUME NEW e \in Devices
      PROVE  DeviceOK(e)'
  <2>1. DeviceOK(e)
    BY DEF ThreadsOK
  <2>2. QED
    BY <1>0, <1>1, <1>2, <1>3, <2>1 DEF DeviceOK
<1>6. FlagOK'
  <2>1. wpass' = wpass
    BY <1>1 DEF cpuVars
  <2>2. CASE gpass'[d] # None
    BY <2>2 DEF FlagOK
  <2>3. CASE gpass'[d] = None
    <3>1. alreadyFound' => alreadyFound
      BY <1>1, <2>3
    <3>2. \A e \in Devices : gpass[e] # None => gpass'[e] # None
      BY <1>1
    <3>3. QED
      BY <1>0, <1>2, <1>3, <2>1, <3>1, <3>2 DEF FlagOK
  <2>4. QED
    BY <2>2, <2>3
<1>7. QED
  BY <1>4, <1>5, <1>6 DEF ThreadsOK

LEMMA GpuKeepsMain ==
  ASSUME TypeOK, MainOK, ThreadsOK, NEW d \in Devices, Gpu(d)
  PROVE  Calling /\ MainOK'
<1>0. gpc[d] \notin {"none", "exited"}
  BY DEF Gpu, GpuAdvance, GpuExhausted, GpuFill, GpuNext, GpuFull, GpuPoll,
         GpuRun, GpuFlush, GpuStore, GpuFound, GpuMissed
<1>1. Calling
  BY <1>0 DEF MainOK, IdleOK, DevicesQuiet, Calling
<1>2. /\ UNCHANGED <<mainVars, cpuVars>>
      /\ gpc'[d] # "none"
      /\ \A e \in Devices \ {d} : gpc'[e] = gpc[e]
  BY <1>1, GpuFrame DEF ThreadsOK
<1>3. /\ query' = query /\ mpc' = mpc /\ i' = i /\ pass' = pass
      /\ wpc' = wpc /\ wpass' = wpass
  BY <1>2 DEF mainVars, cpuVars
<1>4. /\ NumOfThreads' = NumOfThreads /\ Last' = Last /\ UseGpu' = UseGpu
      /\ Refused' = Refused
  BY <1>3, QueryFrame
<1>5. mpc \in {"createGpu", "joinGpu"}
  BY <1>0, <1>1 DEF MainOK, CreateOK, JoinOK, DoneOK, DevicesQuiet, Calling,
                    TypeOK
<1>6. GpuOK'
  BY <1>0, <1>2, <1>3, <1>4, <1>5 DEF MainOK, GpuOK
<1>7. CreateOK' /\ JoinOK' /\ DoneOK' /\ IdleOK'
  BY <1>3, <1>5 DEF CreateOK, JoinOK, DoneOK, IdleOK
<1>8. (Calling => PassOK)'
  BY <1>3, <1>4 DEF MainOK, PassOK, Calling
<1>9. QED
  BY <1>1, <1>6, <1>7, <1>8 DEF MainOK

-----------------------------------------------------------------------------
(* Steps of the calling thread.                                             *)

\* The prologue leaves fresh contexts, which say nothing yet.
LEMMA EnterKeeps ==
  ASSUME TypeOK, MainOK, Enter
  PROVE  MainOK' /\ ThreadsOK'
<1>1. /\ query' = query /\ alreadyFound' = FALSE /\ pass' = None /\ i' = 1
      /\ mpc' = IF Refused THEN "done" ELSE "create"
      /\ \A t \in Workers : /\ wpc'[t] = "none" /\ word'[t] = 1
                            /\ workThread'[t] = 1 /\ wpass'[t] = None
                            /\ tried'[t] = {}
      /\ \A d \in Devices : gpc'[d] = "none" /\ gpass'[d] = None
  BY DEF Enter, FreshContexts, PerWorker, PerDevice, Refused
<1>2. /\ NumOfThreads' = NumOfThreads /\ Last' = Last /\ UseGpu' = UseGpu
      /\ Refused' = Refused
  BY <1>1, QueryFrame
<1>3. NumOfThreads \in 0 .. MaxThreads /\ MaxThreads \in Nat
  BY NumOfThreadsType DEF TypeOK
<1>4. ASSUME NEW t \in Workers
      PROVE  WorkerOK(t)'
  <2>1. t <= NumOfThreads => Turn(NumOfThreads, 1) = 1
    <3>1. t <= NumOfThreads => NumOfThreads # 0
      BY <1>3 DEF Workers
    <3>2. query \in Queries /\ 1 \in Nat \ {0}
      BY DEF TypeOK
    <3>3. NumOfThreads # 0 => Turn(NumOfThreads, 1) = 1
      BY <3>2, TurnStep
    <3>4. QED
      BY <3>1, <3>3
  <2>2. \A w \in 1 .. Last : ~(w < 1)
    OBVIOUS
  <2>3. QED
    BY <1>1, <1>2, <2>1, <2>2 DEF WorkerOK
<1>5. \A d \in Devices : DeviceOK(d)'
  BY <1>1 DEF DeviceOK
<1>6. ThreadsOK'
  BY <1>1, <1>4, <1>5 DEF ThreadsOK, FlagOK
<1>7. CreateOK'
  <2>1. \A t \in Workers : t >= 1
    BY DEF Workers
  <2>2. 1 \in 1 .. NumOfThreads + 1
    BY <1>3
  <2>3. QED
    BY <1>1, <1>2, <2>1, <2>2 DEF CreateOK
<1>8. GpuOK' /\ JoinOK' /\ DoneOK' /\ IdleOK'
  <2>1. DevicesQuiet'
    BY <1>1 DEF DevicesQuiet
  <2>2. QED
    BY <1>1, <1>2, <2>1 DEF GpuOK, JoinOK, DoneOK, IdleOK
<1>9. PassOK'
  BY <1>1 DEF PassOK
<1>10. QED
  BY <1>6, <1>7, <1>8, <1>9 DEF MainOK

\* The threads' accounts survive a step of the calling thread that changes
\* neither them nor the flag and does not leave the last part of the call.
LEMMA ThreadsFrame ==
  ASSUME ThreadsOK, Calling, UNCHANGED <<query, alreadyFound, cpuVars, gpuVars>>,
         mpc \in {"join", "add", "done"} => mpc' \in {"join", "add", "done"}
  PROVE  ThreadsOK'
<1>1. /\ NumOfThreads' = NumOfThreads /\ Last' = Last /\ UseGpu' = UseGpu
  BY QueryFrame
<1>2. ASSUME NEW t \in Workers
      PROVE  WorkerOK(t)'
  <2>1. WorkerOK(t)
    BY DEF ThreadsOK
  <2>2. QED
    BY <1>1, <2>1 DEF WorkerOK, cpuVars
<1>3. ASSUME NEW d \in Devices
      PROVE  DeviceOK(d)'
  BY <1>1 DEF ThreadsOK, DeviceOK, gpuVars
<1>4. FlagOK'
  BY <1>1 DEF ThreadsOK, FlagOK, cpuVars, gpuVars
<1>5. QED
  BY <1>2, <1>3, <1>4 DEF ThreadsOK

LEMMA CreateWorkerKeeps ==
  ASSUME TypeOK, MainOK, ThreadsOK, CreateWorker
  PROVE  MainOK' /\ ThreadsOK'
<1>1. /\ mpc = "create" /\ mpc' = "create" /\ i <= NumOfThreads /\ i' = i + 1
      /\ query' = query /\ pass' = pass /\ alreadyFound' = alreadyFound
      /\ gpc' = gpc /\ gpass' = gpass /\ wpass' = wpass /\ word' = word
      /\ workThread' = workThread /\ tried' = tried
      /\ wpc' = [wpc EXCEPT ![i] = "walk"]
  BY DEF CreateWorker, gpuVars
<1>2. /\ NumOfThreads' = NumOfThreads /\ Last' = Last /\ UseGpu' = UseGpu
      /\ Refused' = Refused
  BY <1>1, QueryFrame
<1>3. NumOfThreads \in 0 .. MaxThreads /\ MaxThreads \in Nat /\ i \in Nat \ {0}
  BY NumOfThreadsType DEF TypeOK
<1>4. i \in Workers /\ Calling
  BY <1>1, <1>3 DEF Workers, Calling
<1>5. wpc'[i] = "walk" /\ \A t \in Workers \ {i} : wpc'[t] = wpc[t]
  BY <1>1, <1>4 DEF TypeOK
<1>6. /\ ~Refused /\ pass = None /\ \A t \in Workers : wpc[t] = "none" <=> t >= i
      /\ \A d \in Devices : gpc[d] = "none"
  BY <1>1 DEF MainOK, CreateOK
<1>7. CreateOK'
  <2>1. \A t \in Workers : wpc'[t] = "none" <=> t >= i + 1
    BY <1>3, <1>5, <1>6 DEF Workers
  <2>2. i + 1 \in 1 .. NumOfThreads + 1
    BY <1>1, <1>3
  <2>3. QED
    BY <1>1, <1>2, <1>6, <2>1, <2>2 DEF CreateOK
<1>8. MainOK'
  BY <1>1, <1>6, <1>7 DEF MainOK, GpuOK, JoinOK, DoneOK, IdleOK, PassOK
<1>9. ASSUME NEW t \in Workers
      PROVE  WorkerOK(t)'
  <2>1. WorkerOK(t)
    BY <1>4 DEF ThreadsOK
  <2>2. CASE t = i
    <3>1. /\ word[t] = 1 /\ workThread[t] = 1 /\ wpass[t] = None /\ tried[t] = {}
      BY <1>3, <1>6, <2>1, <2>2 DEF WorkerOK
    <3>2. \A w \in 1 .. Last : ~(w < 1)
      OBVIOUS
    <3>3. t \in Nat /\ t <= NumOfThreads
      BY <1>1, <1>3, <2>2
    <3>4. t > NumOfThreads => FALSE
      BY <1>3, <3>3
    <3>5. workThread[t] = Turn(NumOfThreads, word[t])
      BY <2>1, <3>3 DEF WorkerOK
    <3>6. QED
      BY <1>1, <1>2, <1>5, <2>2, <3>1, <3>2, <3>4, <3>5 DEF WorkerOK
  <2>3. CASE t # i
    BY <1>1, <1>2, <1>5, <2>1, <2>3 DEF WorkerOK
  <2>4. QED
    BY <2>2, <2>3
<1>10. \A d \in Devices : DeviceOK(d)'
  BY <1>1, <1>2, <1>4 DEF ThreadsOK, DeviceOK
<1>11. FlagOK'
  BY <1>1, <1>2, <1>4 DEF ThreadsOK, FlagOK
<1>12. QED
  BY <1>8, <1>9, <1>10, <1>11 DEF ThreadsOK

LEMMA WorkersCreatedKeeps ==
  ASSUME TypeOK, MainOK, ThreadsOK, WorkersCreated
  PROVE  MainOK' /\ ThreadsOK'
<1>1. /\ mpc = "create" /\ i > NumOfThreads /\ i' = 1
      /\ mpc' = IF UseGpu /\ query.devices # 0 THEN "createGpu" ELSE "join"
      /\ query' = query /\ pass' = pass /\ alreadyFound' = alreadyFound
      /\ UNCHANGED <<cpuVars, gpuVars>>
  BY DEF WorkersCreated
<1>2. wpc' = wpc /\ gpc' = gpc /\ wpass' = wpass
  BY <1>1 DEF cpuVars, gpuVars
<1>3. /\ NumOfThreads' = NumOfThreads /\ UseGpu' = UseGpu /\ Refused' = Refused
      /\ query.devices \in Nat
  BY <1>1, QueryFrame, NumOfThreadsType DEF TypeOK
<1>4. NumOfThreads \in Nat /\ i \in Nat \ {0}
  BY NumOfThreadsType DEF TypeOK
<1>5. /\ ~Refused /\ pass = None /\ \A t \in Workers : wpc[t] = "none" <=> t >= i
      /\ \A d \in Devices : gpc[d] = "none"
  BY <1>1 DEF MainOK, CreateOK
<1>6. \A t \in Workers : t <= NumOfThreads => wpc[t] # "none"
  BY <1>1, <1>4, <1>5 DEF Workers
<1>7. GpuOK'
  <2>1. 1 \in 1 .. query.devices + 1
    BY <1>3
  <2>2. CASE mpc' = "createGpu"
    BY <1>1, <1>2, <1>3, <1>5, <1>6, <2>1, <2>2 DEF GpuOK
  <2>3. CASE mpc' # "createGpu"
    BY <1>1, <2>3 DEF GpuOK
  <2>4. QED
    BY <2>2, <2>3
<1>8. JoinOK'
  <2>1. CASE mpc' = "join"
    <3>1. DevicesQuiet'
      BY <1>2, <1>5 DEF DevicesQuiet
    <3>2. \A t \in Workers : ~(t < 1)
      BY DEF Workers
    <3>3. 1 \in 1 .. NumOfThreads + 1
      BY <1>4
    <3>4. QED
      BY <1>1, <1>2, <1>3, <1>5, <1>6, <2>1, <3>1, <3>2, <3>3 DEF JoinOK
  <2>2. CASE mpc' # "join"
    BY <1>1, <2>2 DEF JoinOK
  <2>3. QED
    BY <2>1, <2>2
<1>9. CreateOK' /\ DoneOK' /\ IdleOK'
  BY <1>1 DEF CreateOK, DoneOK, IdleOK
<1>10. PassOK'
  BY <1>1, <1>5 DEF PassOK
<1>11. ThreadsOK'
  BY <1>1, ThreadsFrame DEF Calling
<1>12. QED
  BY <1>7, <1>8, <1>9, <1>10, <1>11 DEF MainOK

LEMMA CreateDeviceKeeps ==
  ASSUME TypeOK, MainOK, ThreadsOK, CreateDevice
  PROVE  MainOK' /\ ThreadsOK'
<1>1. /\ mpc = "createGpu" /\ mpc' = "createGpu" /\ i <= query.devices
      /\ i' = i + 1 /\ query' = query /\ pass' = pass
      /\ alreadyFound' = alreadyFound /\ gpass' = gpass
      /\ gpc' = [gpc EXCEPT ![i] = "advance"]
      /\ UNCHANGED cpuVars
  BY DEF CreateDevice
<1>2. /\ NumOfThreads' = NumOfThreads /\ Last' = Last /\ UseGpu' = UseGpu
      /\ Refused' = Refused
      /\ query.devices \in 0 .. MaxDevices /\ MaxDevices \in Nat
  BY <1>1, QueryFrame, NumOfThreadsType DEF TypeOK
<1>3. i \in Devices /\ i \in Nat \ {0}
  BY <1>1, <1>2 DEF TypeOK, Devices
<1>4. gpc'[i] = "advance" /\ \A d \in Devices \ {i} : gpc'[d] = gpc[d]
  BY <1>1, <1>3 DEF TypeOK
<1>5. /\ ~Refused /\ UseGpu /\ pass = None
      /\ \A t \in Workers : t <= NumOfThreads => wpc[t] # "none"
      /\ \A d \in Devices : d > query.devices => gpc[d] = "none"
      /\ \A d \in Devices : d >= i => gpc[d] = "none"
  BY <1>1 DEF MainOK, GpuOK
<1>6. GpuOK'
  <2>1. \A d \in Devices : d >= i + 1 => gpc'[d] = "none"
    BY <1>3, <1>4, <1>5 DEF Devices
  <2>2. \A d \in Devices : d > query.devices => gpc'[d] = "none"
    BY <1>1, <1>2, <1>3, <1>4, <1>5 DEF Devices
  <2>3. i + 1 \in 1 .. query.devices + 1
    BY <1>1, <1>2, <1>3
  <2>4. wpc' = wpc
    BY <1>1 DEF cpuVars
  <2>5. QED
    BY <1>1, <1>2, <1>5, <2>1, <2>2, <2>3, <2>4 DEF GpuOK
<1>7. MainOK'
  BY <1>1, <1>5, <1>6 DEF MainOK, CreateOK, JoinOK, DoneOK, IdleOK, PassOK
<1>8. Calling
  BY <1>1 DEF Calling
<1>9. ASSUME NEW t \in Workers
      PROVE  WorkerOK(t)'
  <2>1. WorkerOK(t)
    BY <1>8 DEF ThreadsOK
  <2>2. QED
    BY <1>1, <1>2, <2>1 DEF WorkerOK, cpuVars
<1>10. ASSUME NEW d \in Devices
       PROVE  DeviceOK(d)'
  <2>1. DeviceOK(d) /\ DeviceOK(i)
    BY <1>3, <1>8 DEF ThreadsOK
  <2>2. gpass[i] = None
    BY <1>3, <1>5, <2>1 DEF DeviceOK
  <2>3. CASE d = i
    BY <1>1, <1>2, <1>4, <1>5, <2>2, <2>3 DEF DeviceOK
  <2>4. CASE d # i
    BY <1>1, <1>2, <1>4, <2>1, <2>4 DEF DeviceOK
  <2>5. QED
    BY <2>3, <2>4
<1>11. FlagOK'
  BY <1>1, <1>2, <1>8 DEF ThreadsOK, FlagOK, cpuVars
<1>12. QED
  BY <1>7, <1>9, <1>10, <1>11 DEF ThreadsOK

LEMMA DevicesCreatedKeeps ==
  ASSUME TypeOK, MainOK, ThreadsOK, DevicesCreated
  PROVE  MainOK' /\ ThreadsOK'
<1>1. /\ mpc = "createGpu" /\ mpc' = "joinGpu" /\ i' = 1
      /\ query' = query /\ pass' = pass /\ alreadyFound' = alreadyFound
      /\ UNCHANGED <<cpuVars, gpuVars>>
  BY DEF DevicesCreated
<1>2. /\ NumOfThreads' = NumOfThreads /\ UseGpu' = UseGpu /\ Refused' = Refused
      /\ query.devices \in Nat
  BY <1>1, QueryFrame, NumOfThreadsType DEF TypeOK
<1>3. wpc' = wpc /\ gpc' = gpc
  BY <1>1 DEF cpuVars, gpuVars
<1>4. GpuOK'
  <2>1. \A d \in Devices : ~(d < 1)
    BY DEF Devices
  <2>2. 1 \in 1 .. query.devices + 1
    BY <1>2
  <2>3. QED
    BY <1>1, <1>2, <1>3, <2>1, <2>2 DEF MainOK, GpuOK
<1>5. CreateOK' /\ JoinOK' /\ DoneOK' /\ IdleOK' /\ PassOK'
  BY <1>1 DEF MainOK, GpuOK, CreateOK, JoinOK, DoneOK, IdleOK, PassOK
<1>6. ThreadsOK'
  BY <1>1, ThreadsFrame DEF Calling
<1>7. QED
  BY <1>4, <1>5, <1>6 DEF MainOK

LEMMA JoinDeviceKeeps ==
  ASSUME TypeOK, MainOK, ThreadsOK, JoinDevice
  PROVE  MainOK' /\ ThreadsOK'
<1>1. /\ mpc = "joinGpu" /\ mpc' = "joinGpu" /\ i <= query.devices
      /\ gpc[i] = "exited" /\ i' = i + 1 /\ query' = query
      /\ pass' = IF gpass[i] # None THEN gpass[i] ELSE pass
      /\ alreadyFound' = alreadyFound
      /\ UNCHANGED <<cpuVars, gpuVars>>
  BY DEF JoinDevice
<1>2. /\ NumOfThreads' = NumOfThreads /\ UseGpu' = UseGpu /\ Refused' = Refused
      /\ Last' = Last
      /\ query.devices \in 0 .. MaxDevices /\ MaxDevices \in Nat
  BY <1>1, QueryFrame, NumOfThreadsType DEF TypeOK
<1>3. i \in Devices /\ i \in Nat \ {0} /\ Calling
  BY <1>1, <1>2 DEF TypeOK, Devices, Calling
<1>4. wpc' = wpc /\ gpc' = gpc
  BY <1>1 DEF cpuVars, gpuVars
<1>5. /\ ~Refused /\ UseGpu
      /\ \A t \in Workers : t <= NumOfThreads => wpc[t] # "none"
      /\ \A d \in Devices : d > query.devices => gpc[d] = "none"
      /\ \A d \in Devices : d < i => gpc[d] = "exited"
  BY <1>1 DEF MainOK, GpuOK
<1>6. GpuOK'
  <2>1. \A d \in Devices : d < i + 1 => gpc[d] = "exited"
    BY <1>1, <1>3, <1>5 DEF Devices
  <2>2. i + 1 \in 1 .. query.devices + 1
    BY <1>1, <1>2, <1>3
  <2>3. QED
    BY <1>1, <1>2, <1>4, <1>5, <2>1, <2>2 DEF GpuOK
<1>7. PassOK'
  <2>1. DeviceOK(i) /\ PassOK
    BY <1>3 DEF ThreadsOK, MainOK
  <2>2. QED
    BY <1>1, <1>2, <1>5, <2>1 DEF DeviceOK, PassOK
<1>8. CreateOK' /\ JoinOK' /\ DoneOK' /\ IdleOK'
  BY <1>1 DEF CreateOK, JoinOK, DoneOK, IdleOK
<1>9. ThreadsOK'
  BY <1>1, <1>3, ThreadsFrame
<1>10. QED
  BY <1>6, <1>7, <1>8, <1>9 DEF MainOK

\* The calling thread raises the flag itself, after all the devices.
LEMMA StopWorkersKeeps ==
  ASSUME TypeOK, MainOK, ThreadsOK, StopWorkers
  PROVE  MainOK' /\ ThreadsOK'
<1>1. /\ mpc = "joinGpu" /\ mpc' = "join" /\ i > query.devices /\ i' = 1
      /\ query' = query /\ pass' = pass /\ alreadyFound' = TRUE
      /\ UNCHANGED <<cpuVars, gpuVars>>
  BY DEF StopWorkers
<1>2. /\ NumOfThreads' = NumOfThreads /\ UseGpu' = UseGpu /\ Refused' = Refused
      /\ Last' = Last /\ query.devices \in Nat /\ NumOfThreads \in Nat
  BY <1>1, QueryFrame, NumOfThreadsType DEF TypeOK
<1>3. wpc' = wpc /\ gpc' = gpc /\ wpass' = wpass /\ gpass' = gpass
  BY <1>1 DEF cpuVars, gpuVars
<1>4. /\ ~Refused /\ UseGpu
      /\ \A t \in Workers : t <= NumOfThreads => wpc[t] # "none"
      /\ \A d \in Devices : d > query.devices => gpc[d] = "none"
      /\ \A d \in Devices : d < i => gpc[d] = "exited"
  BY <1>1 DEF MainOK, GpuOK
<1>5. JoinOK'
  <2>1. \A d \in Devices : gpc[d] \in {"none", "exited"}
    BY <1>1, <1>2, <1>4 DEF Devices, TypeOK
  <2>2. DevicesQuiet'
    BY <1>3, <2>1 DEF DevicesQuiet
  <2>3. \A t \in Workers : ~(t < 1)
    BY DEF Workers
  <2>4. 1 \in 1 .. NumOfThreads + 1
    BY <1>2
  <2>5. QED
    BY <1>1, <1>2, <1>3, <1>4, <2>2, <2>3, <2>4 DEF JoinOK
<1>6. PassOK'
  BY <1>1, <1>2 DEF MainOK, PassOK, Calling
<1>7. CreateOK' /\ GpuOK' /\ DoneOK' /\ IdleOK'
  BY <1>1 DEF CreateOK, GpuOK, DoneOK, IdleOK
<1>8. Calling
  BY <1>1 DEF Calling
<1>9. ASSUME NEW t \in Workers
      PROVE  WorkerOK(t)'
  <2>1. WorkerOK(t)
    BY <1>8 DEF ThreadsOK
  <2>2. QED
    BY <1>1, <1>2, <2>1 DEF WorkerOK, cpuVars
<1>10. ASSUME NEW d \in Devices
       PROVE  DeviceOK(d)'
  BY <1>1, <1>2, <1>3, <1>8 DEF ThreadsOK, DeviceOK
<1>11. FlagOK'
  BY <1>1, <1>2, <1>4 DEF FlagOK
<1>12. QED
  BY <1>5, <1>6, <1>7, <1>9, <1>10, <1>11 DEF MainOK, ThreadsOK

LEMMA JoinWorkerKeeps ==
  ASSUME TypeOK, MainOK, ThreadsOK, JoinWorker
  PROVE  MainOK' /\ ThreadsOK'
<1>1. /\ mpc = "join" /\ mpc' = "add" /\ i <= NumOfThreads /\ wpc[i] = "exited"
      /\ i' = i /\ query' = query /\ pass' = pass
      /\ alreadyFound' = alreadyFound
      /\ UNCHANGED <<cpuVars, gpuVars>>
  BY DEF JoinWorker
<1>2. /\ NumOfThreads' = NumOfThreads /\ UseGpu' = UseGpu /\ Refused' = Refused
      /\ Last' = Last
  BY <1>1, QueryFrame
<1>3. wpc' = wpc /\ gpc' = gpc /\ wpass' = wpass
  BY <1>1 DEF cpuVars, gpuVars
<1>4. JoinOK'
  BY <1>1, <1>2, <1>3 DEF MainOK, JoinOK, DevicesQuiet
<1>5. PassOK'
  BY <1>1, <1>2 DEF MainOK, PassOK, Calling
<1>6. CreateOK' /\ GpuOK' /\ DoneOK' /\ IdleOK'
  BY <1>1 DEF CreateOK, GpuOK, DoneOK, IdleOK
<1>7. ThreadsOK'
  BY <1>1, ThreadsFrame DEF Calling
<1>8. QED
  BY <1>4, <1>5, <1>6, <1>7 DEF MainOK

LEMMA AddAttemptsKeeps ==
  ASSUME TypeOK, MainOK, ThreadsOK, AddAttempts
  PROVE  MainOK' /\ ThreadsOK'
<1>1. /\ mpc = "add" /\ mpc' = "join" /\ i' = i + 1
      /\ pass' = IF wpass[i] # None THEN wpass[i] ELSE pass
      /\ query' = query /\ alreadyFound' = alreadyFound
      /\ UNCHANGED <<cpuVars, gpuVars>>
  BY DEF AddAttempts
<1>2. /\ NumOfThreads' = NumOfThreads /\ UseGpu' = UseGpu /\ Refused' = Refused
      /\ Last' = Last /\ NumOfThreads \in 0 .. MaxThreads /\ MaxThreads \in Nat
  BY <1>1, QueryFrame, NumOfThreadsType DEF TypeOK
<1>3. wpc' = wpc /\ gpc' = gpc /\ wpass' = wpass
  BY <1>1 DEF cpuVars, gpuVars
<1>4. /\ ~Refused
      /\ i <= NumOfThreads /\ wpc[i] = "exited"
      /\ \A t \in Workers : t <= NumOfThreads => wpc[t] # "none"
      /\ \A t \in Workers : t < i => wpc[t] = "exited"
      /\ pass = None => \A t \in Workers : t < i => wpass[t] = None
      /\ DevicesQuiet
  BY <1>1 DEF MainOK, JoinOK
<1>5. i \in Workers /\ i \in Nat \ {0} /\ Calling
  BY <1>1, <1>2, <1>4 DEF TypeOK, Workers, Calling
<1>6. JoinOK'
  <2>1. \A t \in Workers : t < i + 1 => t < i \/ t = i
    BY <1>5 DEF Workers
  <2>2. \A t \in Workers : t < i + 1 => wpc[t] = "exited"
    BY <1>4, <2>1
  <2>3. pass' = None => pass = None /\ wpass[i] = None
    BY <1>1
  <2>4. pass' = None => \A t \in Workers : t < i + 1 => wpass[t] = None
    BY <1>4, <2>1, <2>3
  <2>5. i + 1 \in 1 .. NumOfThreads + 1
    BY <1>2, <1>4, <1>5
  <2>6. DevicesQuiet'
    BY <1>3, <1>4 DEF DevicesQuiet
  <2>7. QED
    BY <1>1, <1>2, <1>3, <1>4, <2>2, <2>4, <2>5, <2>6 DEF JoinOK
<1>7. PassOK'
  <2>1. WorkerOK(i) /\ PassOK
    BY <1>5 DEF ThreadsOK, MainOK
  <2>2. wpass[i] # None => wpass[i] \in 1 .. Last /\ Wanted(query, wpass[i])
    BY <2>1 DEF WorkerOK
  <2>3. QED
    BY <1>1, <1>2, <2>1, <2>2 DEF PassOK, Wanted
<1>8. CreateOK' /\ GpuOK' /\ DoneOK' /\ IdleOK'
  BY <1>1 DEF CreateOK, GpuOK, DoneOK, IdleOK
<1>9. ThreadsOK'
  BY <1>1, <1>5, ThreadsFrame
<1>10. QED
  BY <1>6, <1>7, <1>8, <1>9 DEF MainOK

LEMMA ReturnKeeps ==
  ASSUME TypeOK, MainOK, ThreadsOK, Return
  PROVE  MainOK' /\ ThreadsOK'
<1>1. /\ mpc = "join" /\ mpc' = "done" /\ i > NumOfThreads
      /\ pass' = pass /\ query' = query /\ alreadyFound' = alreadyFound
      /\ UNCHANGED <<cpuVars, gpuVars>>
  BY DEF Return
<1>2. /\ NumOfThreads' = NumOfThreads /\ UseGpu' = UseGpu /\ Refused' = Refused
      /\ Last' = Last /\ NumOfThreads \in Nat /\ i \in Nat
  BY <1>1, QueryFrame, NumOfThreadsType DEF TypeOK
<1>3. wpc' = wpc /\ gpc' = gpc /\ wpass' = wpass
  BY <1>1 DEF cpuVars, gpuVars
<1>4. Calling
  BY <1>1 DEF Calling
<1>5. /\ ~Refused
      /\ \A t \in Workers : t < i => wpc[t] = "exited"
      /\ pass = None => \A t \in Workers : t < i => wpass[t] = None
      /\ DevicesQuiet
  BY <1>1 DEF MainOK, JoinOK
<1>6. DoneOK'
  <2>1. \A t \in Workers : t <= NumOfThreads => t < i
    BY <1>1, <1>2 DEF Workers
  <2>2. ASSUME NEW t \in Workers, ~(t < i)
        PROVE  wpass[t] = None
    <3>1. t > NumOfThreads
      BY <1>1, <1>2, <2>2 DEF Workers
    <3>2. WorkerOK(t)
      BY <1>4 DEF ThreadsOK
    <3>3. wpc[t] = "none"
      BY <3>1, <3>2 DEF WorkerOK
    <3>4. QED
      BY <3>2, <3>3 DEF WorkerOK
  <2>3. pass = None => \A t \in Workers : wpass[t] = None
    BY <1>5, <2>2
  <2>4. \A t \in Workers : t <= NumOfThreads => wpc[t] = "exited"
    BY <1>5, <2>1
  <2>5. DevicesQuiet'
    BY <1>3, <1>5 DEF DevicesQuiet
  <2>6. QED
    BY <1>1, <1>2, <1>3, <1>5, <2>3, <2>4, <2>5 DEF DoneOK
<1>7. PassOK'
  BY <1>1, <1>2, <1>4 DEF MainOK, PassOK
<1>8. CreateOK' /\ GpuOK' /\ JoinOK' /\ IdleOK'
  BY <1>1 DEF CreateOK, GpuOK, JoinOK, IdleOK
<1>9. ThreadsOK'
  BY <1>1, <1>4, ThreadsFrame
<1>10. QED
  BY <1>6, <1>7, <1>8, <1>9 DEF MainOK

-----------------------------------------------------------------------------
(* The inductive invariant.                                                 *)

\* Before the first call, in a process that has made no threads yet.
NoThreads ==
  /\ query \in Queries /\ mpc \in {"idle", "enter"}
  /\ i = 1 /\ pass = None /\ reg = 0 /\ attempts = 0
  /\ alreadyFound \in BOOLEAN /\ variantIx \in Slots
  /\ NoContexts

LEMMA FirstIInv == NoThreads => IInv
<1> SUFFICES ASSUME NoThreads
             PROVE  IInv
  OBVIOUS
<1>1. /\ mpc \in {"idle", "enter"} /\ query \in Queries
      /\ i = 1 /\ pass = None /\ reg = 0 /\ attempts = 0 /\ variantIx \in Nat
      /\ NoContexts
  BY BruteForceAssumption DEF NoThreads, Slots
<1>2. alreadyFound \in BOOLEAN
  BY DEF NoThreads
<1>3. EmptyBatch \in [Slots -> Int]
  BY DEF EmptyBatch
<1>4. /\ wpc \in [Workers -> {"none", "walk", "flush", "store", "compare", "exited"}]
      /\ word \in [Workers -> Nat] /\ workThread \in [Workers -> Nat \ {0}]
      /\ numOfAttempts \in [Workers -> Nat] /\ wreg \in [Workers -> Nat]
      /\ wpass \in [Workers -> Nat \cup {None}]
      /\ tried \in [Workers -> SUBSET Nat]
  BY <1>1 DEF NoContexts, PerWorker
<1>5. /\ gpc \in [Devices -> {"none", "advance", "fill", "next", "full", "poll",
                              "run", "flush", "store", "check", "exited"}]
      /\ variant \in [Devices -> Int] /\ slot \in [Devices -> Nat]
      /\ batch \in [Devices -> [Slots -> Int]] /\ greg \in [Devices -> Nat]
      /\ gpass \in [Devices -> Nat \cup {None}]
      /\ ran \in [Devices -> SUBSET Int]
  BY <1>1, <1>3 DEF NoContexts, PerDevice
<1>6. TypeOK
  BY <1>1, <1>2, <1>4, <1>5 DEF TypeOK
<1>7. IdleOK
  BY <1>1 DEF IdleOK, DevicesQuiet, NoContexts, PerWorker, PerDevice
<1>8. MainOK /\ ThreadsOK
  BY <1>1, <1>7 DEF MainOK, ThreadsOK, CreateOK, GpuOK, JoinOK, DoneOK, Calling
<1>9. QED
  BY <1>6, <1>8 DEF IInv

LEMMA InitIInv == Init => IInv
BY FirstIInv DEF Init, NoThreads

\* One step of any thread; no step leads back to a state before the call.
LEMMA StepIInv ==
  ASSUME IInv, [Next]_vars
  PROVE  IInv' /\ (Calling' \/ UNCHANGED vars)
<1>1. TypeOK /\ MainOK /\ ThreadsOK
  BY DEF IInv
<1>2. TypeOK'
  BY <1>1, TypeStep DEF MainOK
<1>3. CASE MainSteps
  <2>1. CASE Enter
    <3>1. Calling'
      BY <2>1 DEF Enter, FreshContexts, Calling
    <3>2. QED
      BY <1>1, <1>2, <2>1, <3>1, EnterKeeps DEF IInv
  <2>2. CASE CreateWorker
    <3>1. Calling'
      BY <2>2 DEF CreateWorker, Calling
    <3>2. QED
      BY <1>1, <1>2, <2>2, <3>1, CreateWorkerKeeps DEF IInv
  <2>3. CASE WorkersCreated
    <3>1. Calling'
      BY <2>3 DEF WorkersCreated, Calling
    <3>2. QED
      BY <1>1, <1>2, <2>3, <3>1, WorkersCreatedKeeps DEF IInv
  <2>4. CASE CreateDevice
    <3>1. Calling'
      BY <2>4 DEF CreateDevice, Calling
    <3>2. QED
      BY <1>1, <1>2, <2>4, <3>1, CreateDeviceKeeps DEF IInv
  <2>5. CASE DevicesCreated
    <3>1. Calling'
      BY <2>5 DEF DevicesCreated, Calling
    <3>2. QED
      BY <1>1, <1>2, <2>5, <3>1, DevicesCreatedKeeps DEF IInv
  <2>6. CASE JoinDevice
    <3>1. Calling'
      BY <2>6 DEF JoinDevice, Calling
    <3>2. QED
      BY <1>1, <1>2, <2>6, <3>1, JoinDeviceKeeps DEF IInv
  <2>7. CASE StopWorkers
    <3>1. Calling'
      BY <2>7 DEF StopWorkers, Calling
    <3>2. QED
      BY <1>1, <1>2, <2>7, <3>1, StopWorkersKeeps DEF IInv
  <2>8. CASE JoinWorker
    <3>1. Calling'
      BY <2>8 DEF JoinWorker, Calling
    <3>2. QED
      BY <1>1, <1>2, <2>8, <3>1, JoinWorkerKeeps DEF IInv
  <2>9. CASE AddAttempts
    <3>1. Calling'
      BY <2>9 DEF AddAttempts, Calling
    <3>2. QED
      BY <1>1, <1>2, <2>9, <3>1, AddAttemptsKeeps DEF IInv
  <2>10. CASE Return
    <3>1. Calling'
      BY <2>10 DEF Return, Calling
    <3>2. QED
      BY <1>1, <1>2, <2>10, <3>1, ReturnKeeps DEF IInv
  <2>11. QED
    BY <1>3, <2>1, <2>2, <2>3, <2>4, <2>5, <2>6, <2>7, <2>8, <2>9, <2>10
       DEF MainSteps
<1>4. ASSUME NEW t \in Workers, Cpu(t)
      PROVE  IInv' /\ Calling'
  <2>1. Calling /\ MainOK'
    BY <1>1, <1>4, CpuKeepsMain
  <2>2. ThreadsOK'
    BY <1>1, <1>4, <2>1, CpuKeepsThreads
  <2>3. mpc' = mpc
    BY <1>1, <1>4, CpuFrame DEF mainVars
  <2>4. QED
    BY <1>2, <2>1, <2>2, <2>3 DEF IInv, Calling
<1>5. ASSUME NEW d \in Devices, Gpu(d)
      PROVE  IInv' /\ Calling'
  <2>1. Calling /\ MainOK'
    BY <1>1, <1>5, GpuKeepsMain
  <2>2. ThreadsOK' /\ DeviceOK(d)
    BY <1>1, <1>5, <2>1, GpuKeepsThreads DEF ThreadsOK
  <2>3. mpc' = mpc
    BY <1>1, <1>5, <2>2, GpuFrame DEF mainVars
  <2>4. QED
    BY <1>2, <2>1, <2>2, <2>3 DEF IInv, Calling
<1>6. CASE UNCHANGED vars
  <2>1. /\ query' = query /\ mpc' = mpc /\ i' = i /\ pass' = pass
        /\ alreadyFound' = alreadyFound /\ wpc' = wpc /\ wpass' = wpass
        /\ gpc' = gpc /\ gpass' = gpass
        /\ UNCHANGED cpuVars /\ UNCHANGED gpuVars
    BY <1>6 DEF vars, mainVars, cpuVars, gpuVars
  <2>2. /\ NumOfThreads' = NumOfThreads /\ Last' = Last /\ UseGpu' = UseGpu
        /\ Refused' = Refused
    BY <2>1, QueryFrame
  <2>3. MainOK'
    BY <1>1, <2>1, <2>2 DEF MainOK, CreateOK, GpuOK, JoinOK, DoneOK, IdleOK,
                            PassOK, DevicesQuiet, Calling
  <2>4. ThreadsOK'
    <3>1. CASE Calling
      BY <1>1, <2>1, <3>1, ThreadsFrame
    <3>2. CASE ~Calling
      BY <2>1, <3>2 DEF ThreadsOK, Calling
    <3>3. QED
      BY <3>1, <3>2
  <2>5. QED
    BY <1>2, <1>6, <2>3, <2>4 DEF IInv
<1>7. QED
  BY <1>3, <1>4, <1>5, <1>6 DEF Next, Returned

\* IInv holds throughout every behaviour of the threads.
THEOREM Invariant == Spec => []IInv
<1>1. Init => IInv
  BY InitIInv
<1>2. IInv /\ [Next]_vars => IInv'
  BY StepIInv
<1>3. QED
  BY <1>1, <1>2, PTL DEF Spec

\* Every variable keeps its type, for any number of workers and devices.
THEOREM TypeCorrect == Spec => []TypeOK
<1>1. IInv => TypeOK
  BY DEF IInv
<1>2. QED
  BY <1>1, Invariant, PTL

-----------------------------------------------------------------------------
(* What the invariant says of the answer.                                   *)

\* Without a GPU, when the call has returned NULL, every worker has gone
\* through all its words, so every word has been looked at by somebody.
LEMMA NothingMissedState == IInv => NothingMissed
<1> SUFFICES ASSUME IInv, mpc = "done", ~UseGpu, pass = None
             PROVE  Matching(query) = {}
  BY DEF NothingMissed
<1>1. TypeOK /\ DoneOK /\ Calling
  BY DEF IInv, MainOK, Calling
<1>2. /\ \A t \in Workers : WorkerOK(t)
      /\ \A d \in Devices : DeviceOK(d)
      /\ FlagOK
  BY <1>1 DEF IInv, ThreadsOK
<1>3. CASE Refused
  BY <1>3 DEF Refused, Matching
<1>4. CASE ~Refused
  <2>1. /\ \A t \in Workers : t <= NumOfThreads => wpc[t] = "exited"
        /\ \A t \in Workers : wpass[t] = None
    BY <1>1, <1>4 DEF DoneOK
  <2>2. \A d \in Devices : gpass[d] = None
    BY <1>2 DEF DeviceOK
  <2>3. ~alreadyFound
    BY <1>2, <2>1, <2>2 DEF FlagOK
  <2>4. \A t \in Workers : t <= NumOfThreads => word[t] > Last
    BY <1>2, <2>1, <2>3 DEF WorkerOK
  <2>5. /\ NumOfThreads \in 0 .. MaxThreads /\ MaxThreads \in Nat
        /\ Last \in Nat /\ (Last # 0 => NumOfThreads # 0)
    BY <1>1, NumOfThreadsType DEF TypeOK
  <2>6. ASSUME NEW w \in 1 .. Last
        PROVE  ~Wanted(query, w)
    <3>1. NumOfThreads # 0 /\ w \in Nat \ {0} /\ query \in Queries
      BY <1>1, <2>5 DEF TypeOK
    <3>2. Turn(NumOfThreads, w) \in 1 .. NumOfThreads
      BY <3>1, TurnStep
    <3>3. PICK t \in Workers : t = Turn(NumOfThreads, w) /\ t <= NumOfThreads
      BY <2>5, <3>2 DEF Workers
    <3>4. w < word[t]
      <4>1. word[t] > Last /\ word[t] \in Nat
        BY <1>1, <2>4, <3>3 DEF TypeOK
      <4>2. QED
        BY <2>5, <4>1
    <3>5. WorkerOK(t)
      BY <1>2
    <3>6. QED
      BY <3>3, <3>4, <3>5 DEF WorkerOK
  <2>7. QED
    BY <1>4, <2>6 DEF Matching, Refused, Last
<1>5. QED
  BY <1>3, <1>4

\* No candidate is missed, whatever the dictionary, the lengths and the
\* number of workers.
THEOREM NothingIsMissed == Spec => []NothingMissed
BY NothingMissedState, Invariant, PTL

\* With or without a GPU, a string that is returned is one that was wanted.
THEOREM AnswerIsCorrect == Spec => []AnswerIsPreimage
<1>1. IInv => AnswerIsPreimage
  BY DEF IInv, MainOK, PassOK, Calling, AnswerIsPreimage
<1>2. QED
  BY <1>1, Invariant, PTL

\* A raised flag always has a thread with a string behind it.
THEOREM FlagIsJustified == Spec => []FlagHasWinner
<1>1. IInv => FlagHasWinner
  BY DEF IInv, ThreadsOK, FlagOK, Calling, FlagHasWinner
<1>2. QED
  BY <1>1, Invariant, PTL

LEMMA QuiescentState == IInv => Quiescent
<1> SUFFICES ASSUME IInv, mpc = "done"
             PROVE  /\ \A t \in Workers : wpc[t] \in {"none", "exited"}
                    /\ \A d \in Devices : gpc[d] \in {"none", "exited"}
  BY DEF Quiescent
<1>1. DoneOK /\ Calling /\ TypeOK
  BY DEF IInv, MainOK, Calling
<1>2. \A d \in Devices : gpc[d] \in {"none", "exited"}
  BY <1>1 DEF DoneOK, DevicesQuiet
<1>3. ASSUME NEW t \in Workers
      PROVE  wpc[t] \in {"none", "exited"}
  <2>1. WorkerOK(t)
    BY <1>1 DEF IInv, ThreadsOK
  <2>2. t <= NumOfThreads \/ t > NumOfThreads
    BY <1>1, NumOfThreadsType DEF TypeOK, Workers
  <2>3. QED
    BY <1>1, <2>1, <2>2 DEF DoneOK, WorkerOK
<1>4. QED
  BY <1>2, <1>3

\* No thread outlives the call.
THEOREM CallIsQuiescent == Spec => []Quiescent
BY QuiescentState, Invariant, PTL

\* While a call runs, a word is tried only by the worker whose turn it is.
LEMMA WordsDividedState == IInv /\ Calling => EachWordOnce
<1> SUFFICES ASSUME IInv, Calling, NEW t \in Workers, NEW u \in Workers, t # u
             PROVE  tried[t] \cap tried[u] = {}
  BY DEF EachWordOnce
<1>1. WorkerOK(t) /\ WorkerOK(u)
  BY DEF IInv, ThreadsOK
<1>2. /\ \A w \in tried[t] : Turn(NumOfThreads, w) = t
      /\ \A w \in tried[u] : Turn(NumOfThreads, w) = u
  BY <1>1 DEF WorkerOK
<1>3. QED
  BY <1>2

\* No two workers try the same word.
THEOREM WordsAreDivided == Spec => []EachWordOnce
<1>1. Init => EachWordOnce
  BY DEF Init, NoContexts, PerWorker, EachWordOnce
<1>2. IInv /\ EachWordOnce /\ [Next]_vars => EachWordOnce'
  <2> SUFFICES ASSUME IInv, EachWordOnce, [Next]_vars
               PROVE  EachWordOnce'
    OBVIOUS
  <2>1. IInv' /\ (Calling' \/ UNCHANGED vars)
    BY StepIInv
  <2>2. (IInv /\ Calling => EachWordOnce)'
    BY WordsDividedState, PTL
  <2>3. CASE UNCHANGED vars
    BY <2>3 DEF vars, cpuVars, EachWordOnce
  <2>4. QED
    BY <2>1, <2>2, <2>3
<1>3. QED
  BY <1>1, <1>2, Invariant, PTL DEF Spec

-----------------------------------------------------------------------------
(* The call implements PasswordSearch: one step of the calling thread is    *)
(* its Answer, every other step is invisible to it.                         *)

LEMMA SearchMatching == ASSUME NEW q PROVE Search!Matching(q) = Matching(q)
BY DEF Search!Matching, Matching, Search!Wanted, Wanted, Search!WordLen,
       WordLen, Search!LastWord, LastWord

LEMMA SearchGpu == UseGpu <=> Search!GpuTakesPart(query)
BY DEF UseGpu, GpuTakesPart, Search!GpuTakesPart

LEMMA SearchInit == Init => Search!Init
BY DEF Init, Search!Init

LEMMA QueryStays ==
  ASSUME [Next]_vars
  PROVE  /\ query' = query
         /\ mpc = "done" => mpc' = mpc /\ pass' = pass
BY DEF Next, MainSteps, Enter, CreateWorker, WorkersCreated, CreateDevice,
       DevicesCreated, JoinDevice, StopWorkers, JoinWorker, AddAttempts,
       Return, Returned, vars, mainVars,
       Cpu, CpuSkip, CpuExhausted, CpuStopped, CpuAttempt, CpuFlush, CpuStore,
       CpuFound, CpuMissed,
       Gpu, GpuAdvance, GpuExhausted, GpuFill, GpuNext, GpuFull, GpuPoll,
       GpuRun, GpuFlush, GpuStore, GpuFound, GpuMissed

\* What the calling thread has returned.
LEMMA ReturnedIsAllowed == IInv /\ mpc = "done" => pass \in Search!Answers(query)
<1> SUFFICES ASSUME IInv, mpc = "done"
             PROVE  pass \in Search!Answers(query)
  OBVIOUS
<1>1. NothingMissed /\ DoneOK /\ PassOK
  BY NothingMissedState DEF IInv, MainOK, Calling
<1>2. CASE UseGpu
  <2>1. pass = None \/ pass \in query.targets
    BY <1>1, <1>2 DEF PassOK, Wanted
  <2>2. QED
    BY <1>2, <2>1, SearchGpu DEF Search!Answers
<1>3. CASE ~UseGpu
  <2>1. pass = None => Matching(query) = {}
    BY <1>1, <1>3 DEF NothingMissed
  <2>2. pass # None => pass \in Matching(query)
    BY <1>1, <1>3 DEF DoneOK, PassOK, Matching, Refused, Last
  <2>3. QED
    BY <1>3, <2>1, <2>2, SearchGpu, SearchMatching DEF Search!Answers
<1>4. QED
  BY <1>2, <1>3

LEMMA SearchStep ==
  ASSUME IInv, IInv', [Next]_vars
  PROVE  [Search!Next]_(Search!vars)
<1>1. CASE mpc # "done" /\ mpc' = "done"
  <2>1. query' = query
    BY QueryStays
  <2>2. (IInv /\ mpc = "done" => pass \in Search!Answers(query))'
    BY ReturnedIsAllowed, PTL
  <2>3. pass' \in Search!Answers(query)
    BY <1>1, <2>1, <2>2
  <2>4. Search!Answer
    BY <1>1, <2>1, <2>3 DEF Search!Answer
  <2>5. QED
    BY <2>4 DEF Search!Next
<1>2. CASE mpc # "done" /\ mpc' # "done"
  <2>1. query' = query
    BY QueryStays
  <2>2. QED
    BY <1>2, <2>1 DEF Search!vars
<1>3. CASE mpc = "done"
  <2>1. query' = query /\ mpc' = mpc /\ pass' = pass
    BY <1>3, QueryStays
  <2>2. QED
    BY <2>1 DEF Search!vars
<1>4. QED
  BY <1>1, <1>2, <1>3

\* The initial states and the steps of the call, on any number of threads and
\* devices, are those of PasswordSearch: the answer is given once, and it is
\* one that the call may give.
THEOREM SearchIsImplemented == Spec => Search!Init /\ [][Search!Next]_(Search!vars)
<1>1. Init => Search!Init
  BY SearchInit
<1>2. IInv /\ IInv' /\ [Next]_vars => [Search!Next]_(Search!vars)
  BY SearchStep
<1>3. QED
  BY <1>1, <1>2, Invariant, PTL DEF Spec

-----------------------------------------------------------------------------
(* The batches of one device.                                               *)

\* A device thread runs only while the calling thread creates or joins the
\* devices.
LEMMA ActiveDevice ==
  ASSUME IInv, NEW d \in Devices, gpc[d] \notin {"none", "exited"}
  PROVE  /\ Calling /\ mpc \in {"createGpu", "joinGpu"} /\ UseGpu
         /\ d <= query.devices
         /\ \A e \in Devices : e > query.devices => gpc[e] = "none"
<1>1. TypeOK /\ CreateOK /\ GpuOK /\ JoinOK /\ DoneOK /\ IdleOK
  BY DEF IInv, MainOK
<1>2. mpc \in {"createGpu", "joinGpu"}
  BY <1>1 DEF TypeOK, CreateOK, JoinOK, DoneOK, IdleOK, DevicesQuiet
<1>3. UseGpu /\ \A e \in Devices : e > query.devices => gpc[e] = "none"
  BY <1>1, <1>2 DEF GpuOK
<1>4. d \in Nat /\ query.devices \in Nat
  BY <1>1, NumOfThreadsType DEF TypeOK, Devices
<1>5. QED
  BY <1>2, <1>3, <1>4 DEF Calling

\* What the steps of the calling thread do to the devices.
LEMMA MainGpuFrame ==
  ASSUME TypeOK, MainSteps
  PROVE  /\ variantIx' = variantIx
         /\ \/ \A d \in Devices : gpc'[d] = "none"
            \/ /\ UNCHANGED <<slot, batch, greg, ran>>
               /\ alreadyFound => alreadyFound'
               /\ \A d \in Devices :
                    \/ gpc'[d] = gpc[d] /\ variant'[d] = variant[d]
                    \/ gpc'[d] = "advance" /\ variant'[d] = FirstVariant - 1
<1> USE DEF TypeOK, gpuVars
<1>1. CASE Enter
  BY <1>1 DEF Enter, FreshContexts, PerDevice
<1>2. CASE CreateDevice
  BY <1>2 DEF CreateDevice
<1>3. CASE CreateWorker \/ WorkersCreated \/ DevicesCreated \/ JoinDevice
           \/ StopWorkers \/ JoinWorker \/ AddAttempts \/ Return
  BY <1>3 DEF CreateWorker, WorkersCreated, DevicesCreated, JoinDevice,
              StopWorkers, JoinWorker, AddAttempts, Return
<1>4. QED
  BY <1>1, <1>2, <1>3 DEF MainSteps

\* With one device, its thread is the only one that runs.
LEMMA OnlyDevice ==
  ASSUME IInv, query.devices = 1, NEW d \in Devices, Gpu(d)
  PROVE  /\ d = 1 /\ Calling /\ UseGpu
         /\ \A e \in Devices \ {d} : gpc[e] = "none" /\ gpc'[e] = "none"
<1>1. gpc[d] \notin {"none", "exited"}
  BY DEF Gpu, GpuAdvance, GpuExhausted, GpuFill, GpuNext, GpuFull, GpuPoll,
         GpuRun, GpuFlush, GpuStore, GpuFound, GpuMissed
<1>2. /\ Calling /\ UseGpu /\ d <= 1
      /\ \A e \in Devices : e > 1 => gpc[e] = "none"
  BY <1>1, ActiveDevice
<1>3. d = 1 /\ \A e \in Devices \ {d} : gpc[e] = "none"
  BY <1>2, NumOfThreadsType DEF Devices
<1>4. DeviceOK(d) /\ TypeOK
  BY <1>2 DEF IInv, ThreadsOK
<1>5. \A e \in Devices \ {d} : gpc'[e] = gpc[e]
  BY <1>4, GpuFrame
<1>6. QED
  BY <1>2, <1>3, <1>5

\* A step that starts no thread and touches no shared index.
LEMMA SlotFrame ==
  ASSUME IInv, SlotInv, query' = query, Calling', variantIx' = variantIx,
         UNCHANGED <<slot, greg>>,
         \A d \in Devices : gpc'[d] \in {gpc[d], "none", "advance"}
  PROVE  SlotInv'
<1>1. CASE query.devices = 1
  <2>1. variantIx \in Slots
    BY <1>1 DEF SlotInv
  <2>2. QED
    BY <1>1, <2>1 DEF SlotInv, Calling, Slots
<1>2. QED
  BY <1>1 DEF SlotInv

LEMMA SlotStep ==
  ASSUME IInv, SlotInv, [Next]_vars
  PROVE  SlotInv'
<1>0. TypeOK /\ query' = query
  BY QueryStays DEF IInv
<1>1. CASE UNCHANGED vars
  BY <1>1 DEF vars, mainVars, gpuVars, SlotInv, Calling, Slots
<1>2. CASE Calling' /\ MainSteps
  <2>1. variantIx' = variantIx
    BY <1>0, <1>2, MainGpuFrame
  <2>2. CASE \A d \in Devices : gpc'[d] = "none"
    BY <1>0, <1>2, <2>1, <2>2 DEF SlotInv, Slots, Calling
  <2>3. CASE ~(\A d \in Devices : gpc'[d] = "none")
    BY <1>0, <1>2, <2>1, <2>3, MainGpuFrame, SlotFrame
  <2>4. QED
    BY <2>2, <2>3
<1>3. ASSUME Calling', NEW t \in Workers, Cpu(t)
      PROVE  SlotInv'
  <2>1. gpc' = gpc /\ slot' = slot /\ greg' = greg
    BY <1>0, <1>3, CpuFrame DEF gpuVars
  <2>2. variantIx' = variantIx
    BY <1>3 DEF Cpu, CpuSkip, CpuExhausted, CpuStopped, CpuAttempt, CpuFlush,
                CpuStore, CpuFound, CpuMissed
  <2>3. QED
    BY <1>0, <1>3, <2>1, <2>2, SlotFrame
<1>4. ASSUME Calling', NEW d \in Devices, Gpu(d)
      PROVE  SlotInv'
  <2>1. CASE query.devices = 1
    <3>1. /\ Calling /\ \A e \in Devices \ {d} : gpc'[e] = "none"
          /\ variantIx \in Slots /\ VariantsCount \in Nat \ {0}
          /\ gpc[d] = "fill" => slot[d] = variantIx
          /\ gpc[d] = "next" => greg[d] = variantIx /\ variantIx < VariantsCount - 1
      BY <2>1, <1>4, OnlyDevice, BruteForceAssumption DEF SlotInv
    <3>2. /\ variantIx' \in Slots
          /\ gpc'[d] = "fill" => slot'[d] = variantIx'
          /\ gpc'[d] = "next" => greg'[d] = variantIx' /\ variantIx' < VariantsCount - 1
      <4> USE DEF TypeOK
      <4>1. CASE GpuAdvance(d)
        BY <1>0, <3>1, <4>1 DEF GpuAdvance
      <4>2. CASE GpuFill(d)
        BY <1>0, <3>1, <4>2 DEF GpuFill
      <4>3. CASE GpuNext(d)
        BY <1>0, <3>1, <4>3 DEF GpuNext, Slots
      <4>4. CASE GpuFull(d)
        BY <1>0, <3>1, <4>4 DEF GpuFull, Slots
      <4>5. CASE GpuExhausted(d) \/ GpuPoll(d) \/ GpuRun(d) \/ GpuFlush(d)
                 \/ GpuStore(d) \/ GpuFound(d) \/ GpuMissed(d)
        BY <1>0, <3>1, <4>5 DEF GpuExhausted, GpuPoll, GpuRun, GpuFlush,
                                GpuStore, GpuFound, GpuMissed
      <4>6. QED
        BY <1>4, <4>1, <4>2, <4>3, <4>4, <4>5 DEF Gpu
    <3>3. SlotInv' <=>
            /\ variantIx' \in Slots
            /\ \A e \in Devices :
                 /\ gpc'[e] = "fill" => slot'[e] = variantIx'
                 /\ gpc'[e] = "next" => greg'[e] = variantIx'
                                        /\ variantIx' < VariantsCount - 1
      BY <1>0, <1>4, <2>1 DEF SlotInv, Slots
    <3>4. QED
      BY <3>1, <3>2, <3>3
  <2>2. CASE query.devices # 1
    BY <1>0, <1>4, <2>2 DEF SlotInv
  <2>3. QED
    BY <2>1, <2>2
<1>5. QED
  BY <1>1, <1>2, <1>3, <1>4, StepIInv DEF Next, Returned

LEMMA InitNoThreads == Init => NoThreads
BY DEF Init, NoThreads

LEMMA FirstSlot == NoThreads => SlotInv
BY BruteForceAssumption DEF NoThreads, NoContexts, PerDevice, SlotInv, Slots, Calling

\* One device writes only to slots of its batch, whatever index an earlier
\* call has left, for batches of any size.
LEMMA SlotInBoundsState == SlotInv => SlotInBounds
BY DEF SlotInv, SlotInBounds

THEOREM SlotsInBounds == Spec => []SlotInBounds
<1>1. IInv /\ SlotInv /\ [Next]_vars => SlotInv'
  BY SlotStep
<1>2. QED
  BY <1>1, InitNoThreads, FirstSlot, SlotInBoundsState, Invariant, PTL DEF Spec

\* Steps that leave the device's batch, and the index, alone.
LEMMA TailFrame ==
  ASSUME NEW d \in Devices, query.devices = 1, query' = query, TailOK(d),
         variantIx' = variantIx, alreadyFound => alreadyFound',
         batch'[d] = batch[d], ran'[d] = ran[d],
         \/ gpc'[d] = gpc[d] /\ variant'[d] = variant[d]
         \/ gpc'[d] = "none"
         \/ gpc'[d] = "advance" /\ variant'[d] = FirstVariant - 1
  PROVE  TailOK(d)'
<1>1. FirstVariant' = FirstVariant /\ LastVariant' = LastVariant /\ Filled' = Filled
  BY DEF FirstVariant, LastVariant, Filled
<1>2. ASSUME NEW last, NEW slots, Kept(d, last, slots)
      PROVE  \A v \in FirstVariant .. last :
                v \in ran'[d] \/ \E s \in slots : batch'[d][s] = v
  BY <1>2 DEF Kept
<1>3. CASE gpc'[d] = gpc[d] /\ variant'[d] = variant[d]
  BY <1>1, <1>2, <1>3 DEF TailOK, Kept, Slots
<1>4. CASE gpc'[d] = "advance" /\ variant'[d] = FirstVariant - 1
  <2>1. FirstVariant \in Int
    BY BruteForceAssumption DEF FirstVariant
  <2>2. FirstVariant .. FirstVariant - 1 = {}
    BY <2>1
  <2>3. QED
    BY <1>1, <1>4, <2>2 DEF TailOK, Kept
<1>5. CASE gpc'[d] = "none"
  BY <1>5 DEF TailOK
<1>6. QED
  BY <1>3, <1>4, <1>5

\* The steps of the device's own thread.
LEMMA TailOwnStep ==
  ASSUME IInv, SlotInv, query.devices = 1, NEW d \in Devices, Gpu(d), TailOK(d)
  PROVE  TailOK(d)'
<1> USE DEF TailOK, Kept
<1>0. /\ query' = query /\ variant[d] \in Int /\ FirstVariant \in Int
      /\ variantIx \in Slots /\ VariantsCount \in Nat \ {0}
      /\ gpc[d] = "fill" => slot[d] = variantIx
      /\ gpc[d] = "next" => greg[d] = variantIx /\ variantIx < VariantsCount - 1
      /\ Gpu(d) => [Next]_vars
  BY BruteForceAssumption, QueryStays DEF IInv, TypeOK, SlotInv, FirstVariant, Next
<1>1. /\ FirstVariant' = FirstVariant /\ LastVariant' = LastVariant
      /\ Slots' = Slots
  BY <1>0 DEF FirstVariant, LastVariant, Slots
<1>2. /\ gpc \in [Devices -> {"none", "advance", "fill", "next", "full", "poll",
                               "run", "flush", "store", "check", "exited"}]
      /\ variant \in [Devices -> Int] /\ slot \in [Devices -> Nat]
      /\ batch \in [Devices -> [Slots -> Int]] /\ greg \in [Devices -> Nat]
      /\ ran \in [Devices -> SUBSET Int]
  BY DEF IInv, TypeOK
<1>3. CASE GpuAdvance(d)
  <2>1. /\ variant'[d] - 1 = variant[d] /\ gpc'[d] = "fill" /\ gpc[d] = "advance"
        /\ ran' = ran /\ batch' = batch /\ variantIx' = variantIx
    BY <1>0, <1>2, <1>3 DEF GpuAdvance
  <2>2. QED
    BY <1>1, <2>1 DEF Filled
<1>4. CASE GpuFill(d)
  <2>1. /\ gpc[d] = "fill" /\ batch'[d] = [batch[d] EXCEPT ![variantIx] = variant[d]]
        /\ ran' = ran /\ variant' = variant /\ variantIx' = variantIx
        /\ gpc'[d] = IF variantIx < VariantsCount - 1 THEN "next" ELSE "full"
    <3>1. slot[d] = variantIx /\ batch[d] \in [Slots -> Int]
      BY <1>0, <1>2, <1>4 DEF GpuFill
    <3>2. batch'[d] = [s \in Slots |-> IF s = variantIx THEN variant[d] ELSE batch[d][s]]
      BY <1>2, <1>4, <3>1 DEF GpuFill
    <3>3. QED
      BY <1>2, <1>4, <3>1, <3>2 DEF GpuFill
  <2>2. ASSUME NEW v \in FirstVariant .. variant[d], v \notin ran[d]
        PROVE  \E s \in Filled \cup {variantIx} : batch'[d][s] = v
    <3>0. batch[d] \in [Slots -> Int]
      BY <1>2
    <3>1. CASE v = variant[d]
      BY <1>0, <2>1, <3>0, <3>1
    <3>2. CASE v # variant[d]
      <4>1. v \in FirstVariant .. variant[d] - 1
        BY <1>0, <3>2
      <4>2. PICK s \in Filled : batch[d][s] = v
        BY <2>1, <2>2, <4>1
      <4>3. s # variantIx /\ s \in Slots
        BY <1>0 DEF Filled, Slots
      <4>4. QED
        BY <2>1, <3>0, <4>2, <4>3
    <3>3. QED
      BY <3>1, <3>2
  <2>3. (Filled \cup {variantIx})' = Filled \cup {variantIx}
    BY <2>1 DEF Filled
  <2>4. variantIx >= VariantsCount - 1 => Filled \cup {variantIx} = Slots
    BY <1>0 DEF Filled, Slots
  <2>5. Kept(d, variant[d], Filled \cup {variantIx})'
    BY <1>1, <2>1, <2>2, <2>3
  <2>6. QED
    BY <1>0, <1>1, <2>1, <2>2, <2>4, <2>5 DEF Slots
<1>5. CASE GpuNext(d)
  <2>1. /\ gpc[d] = "next" /\ gpc'[d] = "advance" /\ variantIx' = variantIx + 1
        /\ ran' = ran /\ batch' = batch /\ variant' = variant
    BY <1>0, <1>2, <1>5 DEF GpuNext
  <2>2. Filled' = Filled \cup {variantIx}
    BY <1>0, <2>1 DEF Filled, Slots
  <2>3. QED
    BY <1>1, <2>1, <2>2
<1>6. CASE GpuFull(d) \/ GpuPoll(d)
  BY <1>1, <1>2, <1>6 DEF GpuFull, GpuPoll
<1>7. CASE GpuRun(d)
  <2>1. /\ gpc[d] = "run" /\ gpc'[d] = "flush" /\ variant' = variant
        /\ ran'[d] = ran[d] \cup {batch[d][s] : s \in Slots}
    BY <1>2, <1>7 DEF GpuRun
  <2>2. QED
    BY <1>1, <2>1
<1>8. CASE GpuFlush(d) \/ GpuStore(d)
  BY <1>1, <1>2, <1>8 DEF GpuFlush, GpuStore
<1>9. CASE GpuFound(d)
  BY <1>1, <1>2, <1>9 DEF GpuFound
<1>10. CASE GpuMissed(d)
  BY <1>1, <1>2, <1>10 DEF GpuMissed
<1>11. CASE GpuExhausted(d)
  <2>1. /\ gpc[d] = "advance" /\ gpc'[d] = "exited" /\ variant[d] >= LastVariant
        /\ ran' = ran /\ batch' = batch /\ variant' = variant /\ variantIx' = variantIx
    BY <1>2, <1>11 DEF GpuExhausted
  <2>2. QED
    BY <1>1, <2>1 DEF Filled
<1>12. QED
  BY <1>3, <1>4, <1>5, <1>6, <1>7, <1>8, <1>9, <1>10, <1>11 DEF Gpu

LEMMA TailStep ==
  ASSUME IInv, SlotInv, TailInv, [Next]_vars
  PROVE  TailInv'
<1>0. TypeOK /\ query' = query
  BY QueryStays DEF IInv
<1> SUFFICES ASSUME query.devices = 1, NEW d \in Devices
             PROVE  TailOK(d)'
  BY <1>0 DEF TailInv
<1>1. TailOK(d)
  BY DEF TailInv
<1>2. CASE UNCHANGED vars
  BY <1>0, <1>1, <1>2, TailFrame DEF vars, gpuVars
<1>3. CASE MainSteps
  <2>1. CASE gpc'[d] = "none"
    BY <2>1 DEF TailOK
  <2>2. CASE gpc'[d] # "none"
    BY <1>0, <1>1, <1>3, <2>2, MainGpuFrame, TailFrame
  <2>3. QED
    BY <2>1, <2>2
<1>4. ASSUME NEW t \in Workers, Cpu(t)
      PROVE  TailOK(d)'
  <2>1. UNCHANGED gpuVars /\ (alreadyFound => alreadyFound')
    BY <1>0, <1>4, CpuFrame
  <2>2. variantIx' = variantIx
    BY <1>4 DEF Cpu, CpuSkip, CpuExhausted, CpuStopped, CpuAttempt, CpuFlush,
                CpuStore, CpuFound, CpuMissed
  <2>3. QED
    BY <1>0, <1>1, <2>1, <2>2, TailFrame DEF gpuVars
<1>5. ASSUME NEW e \in Devices, Gpu(e)
      PROVE  TailOK(d)'
  <2>1. CASE e = d
    BY <1>1, <1>5, <2>1, TailOwnStep
  <2>2. CASE e # d
    <3>1. gpc'[d] = "none"
      BY <1>5, <2>2, OnlyDevice
    <3>2. QED
      BY <3>1 DEF TailOK
  <2>3. QED
    BY <2>1, <2>2
<1>6. QED
  BY <1>2, <1>3, <1>4, <1>5 DEF Next, Returned

LEMMA FirstTail == NoThreads => TailInv
BY DEF NoThreads, NoContexts, PerDevice, TailInv, TailOK

\* The variants that no kernel has seen are still in the slots that were being
\* filled, each in one of its own.
LEMMA OnlyTailLostState ==
  ASSUME IInv, SlotInv, TailInv
  PROVE  OnlyTailLost
<1> SUFFICES ASSUME query.devices = 1, ~alreadyFound,
                    NEW d \in Devices, gpc[d] = "exited"
             PROVE  Cardinality((FirstVariant .. LastVariant) \ ran[d]) < VariantsCount
  BY DEF OnlyTailLost
<1> DEFINE Lost == (FirstVariant .. LastVariant) \ ran[d]
           At == [v \in Lost |-> CHOOSE s \in Filled : batch[d][s] = v]
<1>1. /\ variantIx \in Slots /\ VariantsCount \in Nat \ {0} /\ variant[d] \in Int
      /\ variant[d] >= LastVariant /\ Kept(d, variant[d], Filled)
      /\ Calling
  BY BruteForceAssumption DEF SlotInv, TailInv, TailOK, IInv, TypeOK
<1>2. LastVariant \in Nat /\ FirstVariant \in Nat
  <2>1. UseGpu /\ query \in Queries
    BY <1>1 DEF IInv, TypeOK, ThreadsOK, DeviceOK
  <2>2. query.passmax > 3
    BY <2>1 DEF UseGpu, GpuTakesPart
  <2>3. QED
    BY <2>1, <2>2, BruteForceAssumption DEF LastVariant, FirstVariant
<1>3. ASSUME NEW v \in Lost
      PROVE  At[v] \in Filled /\ batch[d][At[v]] = v
  <2>1. v \in FirstVariant .. variant[d] /\ v \notin ran[d]
    BY <1>1, <1>2
  <2>2. \E s \in Filled : batch[d][s] = v
    BY <1>1, <2>1 DEF Kept
  <2>3. QED
    BY <2>2
<1> HIDE DEF At
<1>4. At \in Injection(Lost, Filled)
  <2>1. At \in [Lost -> Filled]
    BY <1>3 DEF At
  <2>2. \A v, w \in Lost : At[v] = At[w] => v = w
    BY <1>3
  <2>3. QED
    BY <2>1, <2>2 DEF Injection, IsInjective
<1>5. IsFiniteSet(Filled) /\ Cardinality(Filled) = variantIx
  <2>1. variantIx - 1 \in Int /\ variantIx \in Nat
    BY <1>1 DEF Slots
  <2>2. /\ IsFiniteSet(0 .. variantIx - 1)
        /\ Cardinality(0 .. variantIx - 1)
             = IF 0 > variantIx - 1 THEN 0 ELSE (variantIx - 1) - 0 + 1
    BY <2>1, FS_Interval
  <2>3. QED
    BY <2>1, <2>2 DEF Filled
<1>6. IsFiniteSet(Lost) /\ Cardinality(Lost) <= Cardinality(Filled)
  BY <1>4, <1>5, FS_Injection
<1>7. Cardinality(Lost) \in Nat
  BY <1>6, FS_CardinalityType
<1>8. QED
  BY <1>1, <1>5, <1>6, <1>7 DEF Slots

\* One device that goes through its variants loses fewer of them than a batch
\* holds, for batches of any size and any number of variants.
THEOREM FewVariantsLost == Spec => []OnlyTailLost
<1>1. IInv /\ SlotInv /\ [Next]_vars => SlotInv'
  BY SlotStep
<1>2. IInv /\ SlotInv /\ TailInv /\ [Next]_vars => TailInv'
  BY TailStep
<1>3. IInv /\ SlotInv /\ TailInv => OnlyTailLost
  BY OnlyTailLostState
<1>4. QED
  BY <1>1, <1>2, <1>3, InitNoThreads, FirstSlot, FirstTail, Invariant, PTL DEF Spec

-----------------------------------------------------------------------------
(* The attempts of the CPU workers.                                         *)

\* How many words a set gains from another one.
LEMMA GainedWords ==
  ASSUME NEW S, NEW T, IsFiniteSet(S), IsFiniteSet(T)
  PROVE  /\ Cardinality(S) \in Nat /\ Cardinality(T \ S) \in Nat
         /\ Cardinality(S \cup T) = Cardinality(S) + Cardinality(T \ S)
<1>1. /\ Cardinality(S \cup T) = Cardinality(S) + Cardinality(T) - Cardinality(S \cap T)
      /\ Cardinality(T \ S) = Cardinality(T) - Cardinality(T \cap S)
      /\ IsFiniteSet(T \ S) /\ IsFiniteSet(T \cap S)
  BY FS_Union, FS_Difference, FS_Intersection
<1>2. /\ Cardinality(S) \in Nat /\ Cardinality(T) \in Nat
      /\ Cardinality(T \ S) \in Nat /\ Cardinality(T \cap S) \in Nat
  BY <1>1, FS_CardinalityType
<1>3. T \cap S = S \cap T
  OBVIOUS
<1>4. QED
  BY <1>1, <1>2, <1>3

\* The words tried are finitely many.
LEMMA TriedFinite ==
  ASSUME TriedInv
  PROVE  /\ \A S \in SUBSET AllTried : IsFiniteSet(S) /\ Cardinality(S) \in Nat
         /\ \A S \in SUBSET AllTried : \A T \in SUBSET S :
               Cardinality(T) <= Cardinality(S)
         /\ \A t \in Workers : tried[t] \in SUBSET AllTried
<1>1. PICK n \in Nat : AllTried \subseteq 1 .. n
  BY DEF TriedInv
<1>2. IsFiniteSet(1 .. n)
  BY FS_Interval
<1>3. IsFiniteSet(AllTried)
  BY <1>1, <1>2, FS_Subset
<1>4. \A S \in SUBSET AllTried : IsFiniteSet(S)
  BY <1>3, FS_Subset
<1>5. QED
  BY <1>4, FS_CardinalityType, FS_Subset DEF AllTried

\* A worker that runs has not been joined.
LEMMA RunningNotJoined ==
  ASSUME IInv, Calling, NEW t \in Workers, wpc[t] \notin {"none", "exited"}
  PROVE  ~Joined(t) /\ t <= NumOfThreads
<1>1. /\ JoinOK /\ DoneOK /\ WorkerOK(t) /\ NumOfThreads \in Nat /\ t \in Nat
  BY NumOfThreadsType DEF IInv, MainOK, ThreadsOK, TypeOK, Workers
<1>2. QED
  BY <1>1 DEF JoinOK, DoneOK, WorkerOK, Joined

\* The word that a worker is about to count has been counted by nobody.
LEMMA NewWord ==
  ASSUME IInv, Calling, NEW t \in Workers, TriedOK(t), wpc[t] = "walk",
         workThread[t] = t
  PROVE  word[t] \notin AllTried
<1> SUFFICES ASSUME NEW u \in Workers, word[t] \in tried[u]
             PROVE  FALSE
  BY DEF AllTried
<1>1. WorkerOK(t) /\ WorkerOK(u) /\ word[t] \in Nat
  BY DEF IInv, ThreadsOK, TypeOK
<1>2. Turn(NumOfThreads, word[t]) = t
  BY <1>1, RunningNotJoined DEF WorkerOK
<1>3. u = t
  BY <1>1, <1>2 DEF WorkerOK
<1>4. word[t] < word[t]
  BY <1>3 DEF TriedOK
<1>5. QED
  BY <1>1, <1>4

\* While no update can be lost, a worker that flushes is alone: it is the only
\* one, and the calling thread waits for it.
LEMMA ExactAlone ==
  ASSUME IInv, Calling, TriedInv, CountIsExact,
         NEW added \in SUBSET AllTried, TallyOK(added),
         NEW t \in Workers, wpc[t] \in {"flush", "store"}
  PROVE  mpc # "add" /\ \A u \in Workers \ {t} : wpc[u] = "none"
<1>1. ~Joined(t) /\ t <= NumOfThreads
  BY RunningNotJoined
<1>2. /\ numOfAttempts[t] > FlushLimit
      /\ numOfAttempts[t] = Cardinality(tried[t] \ added)
  BY <1>1 DEF TriedInv, TriedOK, TallyOK
<1>3. /\ Cardinality(tried[t] \ added) <= Cardinality(tried[t])
      /\ Cardinality(tried[t]) \in Nat /\ FlushLimit \in Nat
      /\ numOfAttempts[t] \in Nat
  BY TriedFinite, BruteForceAssumption DEF IInv, TypeOK
<1>4. NumOfThreads = 1
  BY <1>2, <1>3 DEF CountIsExact
<1>5. t = 1 /\ \A u \in Workers \ {t} : u > NumOfThreads
  BY <1>1, <1>4, BruteForceAssumption DEF Workers
<1>6. \A u \in Workers : WorkerOK(u)
  BY DEF IInv, ThreadsOK
<1>7. mpc # "add"
  BY <1>4, <1>5 DEF IInv, MainOK, JoinOK, TypeOK
<1>8. QED
  BY <1>5, <1>6, <1>7 DEF WorkerOK

\* When all the words of a worker are added, the others have as many to add as
\* before.
LEMMA WordsAdded ==
  ASSUME IInv, Calling, TriedInv, NEW added \in SUBSET AllTried, TallyOK(added),
         NEW t \in Workers, ~Joined(t)
  PROVE  \E more \in SUBSET AllTried :
           /\ Cardinality(added) \in Nat
           /\ Cardinality(more) = Cardinality(added) + numOfAttempts[t]
           /\ tried[t] \subseteq more /\ Cardinality(tried[t] \ more) = 0
           /\ \A u \in Workers \ {t} :
                 IF Joined(u) THEN tried[u] \subseteq more
                              ELSE Cardinality(tried[u] \ more) = numOfAttempts[u]
<1> DEFINE more == added \cup tried[t]
<1>1. /\ more \in SUBSET AllTried
      /\ IsFiniteSet(added) /\ IsFiniteSet(tried[t])
  BY TriedFinite
<1>2. /\ Cardinality(added) \in Nat
      /\ Cardinality(more) = Cardinality(added) + numOfAttempts[t]
  <2>1. Cardinality(tried[t] \ added) = numOfAttempts[t]
    BY DEF TallyOK
  <2>2. /\ Cardinality(added) \in Nat
        /\ Cardinality(more) = Cardinality(added) + Cardinality(tried[t] \ added)
    BY <1>1, GainedWords
  <2>3. QED
    BY <2>1, <2>2
<1>3. tried[t] \ more = {} /\ Cardinality(tried[t] \ more) = 0
  BY FS_EmptySet
<1>4. ASSUME NEW u \in Workers \ {t}
      PROVE  IF Joined(u) THEN tried[u] \subseteq more
                          ELSE Cardinality(tried[u] \ more) = numOfAttempts[u]
  <2>1. tried[u] \cap tried[t] = {}
    BY WordsDividedState DEF EachWordOnce
  <2>2. tried[u] \ more = tried[u] \ added
    BY <2>1
  <2>3. QED
    BY <2>2 DEF TallyOK
<1>5. QED
  BY <1>1, <1>2, <1>3, <1>4

\* Steps that add nothing to g_attempts: whoever loads it, loads it now.
LEMMA TallyFrame ==
  ASSUME NEW added \in SUBSET AllTried, TallyOK(added), query' = query,
         attempts' = attempts, UNCHANGED <<numOfAttempts, tried>>,
         \A t \in Workers : Joined(t)' <=> Joined(t),
         mpc' = "add" => reg' = attempts \/ (mpc = "add" /\ reg' = reg),
         \A t \in Workers : wpc'[t] = "store" =>
            wreg'[t] = attempts \/ (wpc[t] = "store" /\ wreg'[t] = wreg[t])
  PROVE  (\E more \in SUBSET AllTried : TallyOK(more))'
<1>1. CountIsExact' <=> CountIsExact
  BY QueryFrame DEF CountIsExact
<1>2. AllTried' = AllTried
  BY DEF AllTried
<1>3. /\ \A t \in Workers :
            IF Joined(t)' THEN tried'[t] \subseteq added
                          ELSE Cardinality(tried'[t] \ added) = numOfAttempts'[t]
      /\ attempts' <= Cardinality(added)
      /\ mpc' = "add" => reg' <= Cardinality(added)
      /\ \A t \in Workers : wpc'[t] = "store" => wreg'[t] <= Cardinality(added)
  BY DEF TallyOK
<1>4. CountIsExact =>
        /\ attempts' = Cardinality(added)
        /\ mpc' = "add" => reg' = Cardinality(added)
        /\ \A t \in Workers : wpc'[t] = "store" => wreg'[t] = Cardinality(added)
  BY DEF TallyOK
<1>5. TallyOK(added)'
  BY <1>1, <1>3, <1>4 DEF TallyOK
<1>6. QED
  BY <1>2, <1>5

\* Steps that add the count of worker t to base, a value of g_attempts.
LEMMA TallyAdd ==
  ASSUME IInv, Calling, TriedInv, NEW added \in SUBSET AllTried, TallyOK(added),
         query' = query, tried' = tried,
         NEW t \in Workers, ~Joined(t), Joined(t)' \/ numOfAttempts'[t] = 0,
         NEW base \in Nat, base <= Cardinality(added),
         CountIsExact => base = Cardinality(added),
         attempts' = base + numOfAttempts[t],
         \A u \in Workers \ {t} :
            /\ numOfAttempts'[u] = numOfAttempts[u]
            /\ Joined(u)' <=> Joined(u)
            /\ wpc'[u] = wpc[u] /\ wreg'[u] = wreg[u],
         wpc'[t] # "store",
         mpc' = "add" => mpc = "add" /\ reg' = reg,
         CountIsExact => /\ mpc' # "add"
                         /\ \A u \in Workers \ {t} : wpc[u] # "store"
  PROVE  (\E more \in SUBSET AllTried : TallyOK(more))'
<1>1. PICK more \in SUBSET AllTried :
         /\ Cardinality(added) \in Nat
         /\ Cardinality(more) = Cardinality(added) + numOfAttempts[t]
         /\ tried[t] \subseteq more /\ Cardinality(tried[t] \ more) = 0
         /\ \A u \in Workers \ {t} :
               IF Joined(u) THEN tried[u] \subseteq more
                            ELSE Cardinality(tried[u] \ more) = numOfAttempts[u]
  BY WordsAdded
<1>2. CountIsExact' <=> CountIsExact
  BY QueryFrame DEF CountIsExact
<1>3. AllTried' = AllTried
  BY DEF AllTried
<1>4. numOfAttempts[t] \in Nat /\ reg \in Nat /\ \A u \in Workers : wreg[u] \in Nat
  BY DEF IInv, TypeOK
<1>5. \A u \in Workers :
         IF Joined(u)' THEN tried'[u] \subseteq more
                       ELSE Cardinality(tried'[u] \ more) = numOfAttempts'[u]
  <2>1. IF Joined(t)' THEN tried'[t] \subseteq more
                      ELSE Cardinality(tried'[t] \ more) = numOfAttempts'[t]
    BY <1>1
  <2>2. QED
    BY <1>1, <2>1
<1>6. /\ attempts' <= Cardinality(more)
      /\ CountIsExact => attempts' = Cardinality(more)
  BY <1>1, <1>4
<1>7. mpc' = "add" => reg' <= Cardinality(more)
  BY <1>1, <1>4 DEF TallyOK
<1>8. ASSUME NEW u \in Workers, wpc'[u] = "store"
      PROVE  wreg'[u] <= Cardinality(more)
  <2>1. wpc[u] = "store" /\ wreg'[u] = wreg[u] /\ wreg[u] <= Cardinality(added)
    BY <1>8 DEF TallyOK
  <2>2. QED
    BY <1>1, <1>4, <2>1
<1>9. CountIsExact => mpc' # "add" /\ \A u \in Workers : wpc'[u] # "store"
  OBVIOUS
<1>10. TallyOK(more)'
  BY <1>2, <1>5, <1>6, <1>7, <1>8, <1>9 DEF TallyOK
<1>11. QED
  BY <1>3, <1>10

\* A worker that counts a word has one more to add.
LEMMA TallyAttempt ==
  ASSUME IInv, Calling, TriedInv, NEW added \in SUBSET AllTried, TallyOK(added),
         NEW t \in Workers, CpuAttempt(t)
  PROVE  (\E more \in SUBSET AllTried : TallyOK(more))'
<1>1. /\ wpc[t] = "walk" /\ workThread[t] = t
      /\ numOfAttempts' = [numOfAttempts EXCEPT ![t] = @ + 1]
      /\ tried' = [tried EXCEPT ![t] = @ \cup {word[t]}]
      /\ attempts' = attempts /\ mpc' = mpc /\ i' = i /\ reg' = reg /\ wreg' = wreg
      /\ query' = query /\ wpc'[t] # "store"
      /\ \A u \in Workers \ {t} : wpc'[u] = wpc[u]
  BY DEF CpuAttempt, mainVars, IInv, TypeOK
<1>2. /\ tried \in [Workers -> SUBSET Nat] /\ numOfAttempts \in [Workers -> Nat]
      /\ attempts \in Nat
  BY DEF IInv, TypeOK
<1>3. ~Joined(t) /\ word[t] \notin AllTried
  BY <1>1, RunningNotJoined, NewWord DEF TriedInv
<1>4. \A u \in Workers : Joined(u)' <=> Joined(u)
  BY <1>1 DEF Joined
<1>5. Cardinality(tried'[t] \ added) = numOfAttempts'[t]
  <2>1. tried'[t] \ added = (tried[t] \ added) \cup {word[t]}
    BY <1>1, <1>2, <1>3
  <2>2. tried[t] \in SUBSET AllTried /\ IsFiniteSet(tried[t])
    BY TriedFinite
  <2>3. word[t] \notin tried[t] \ added /\ IsFiniteSet(tried[t] \ added)
    BY <1>3, <2>2, FS_Difference
  <2>4. Cardinality(tried'[t] \ added) = Cardinality(tried[t] \ added) + 1
    BY <2>1, <2>3, FS_AddElement
  <2>5. Cardinality(tried[t] \ added) = numOfAttempts[t]
    BY <1>3 DEF TallyOK
  <2>6. QED
    BY <1>1, <1>2, <2>4, <2>5
<1>6. ASSUME NEW u \in Workers \ {t}
      PROVE  IF Joined(u)' THEN tried'[u] \subseteq added
                           ELSE Cardinality(tried'[u] \ added) = numOfAttempts'[u]
  <2>1. tried'[u] = tried[u] /\ numOfAttempts'[u] = numOfAttempts[u]
    BY <1>1, <1>2
  <2>2. QED
    BY <1>4, <2>1 DEF TallyOK
<1>7. CountIsExact' => CountIsExact
  <2>1. tried[t] \subseteq tried'[t] /\ IsFiniteSet(tried'[t])
    <3>1. IsFiniteSet(tried[t])
      BY TriedFinite
    <3>2. tried'[t] = tried[t] \cup {word[t]}
      BY <1>1, <1>2
    <3>3. QED
      BY <3>1, <3>2, FS_AddElement
  <2>2. /\ Cardinality(tried[t]) <= Cardinality(tried'[t])
        /\ Cardinality(tried[t]) \in Nat /\ Cardinality(tried'[t]) \in Nat
        /\ FlushLimit \in Nat
    BY <2>1, TriedFinite, FS_Subset, FS_CardinalityType, BruteForceAssumption
  <2>3. \A u \in Workers \ {t} : tried'[u] = tried[u]
    BY <1>1, <1>2
  <2>4. ASSUME \A u \in Workers : Cardinality(tried'[u]) <= FlushLimit,
               NEW u \in Workers
        PROVE  Cardinality(tried[u]) <= FlushLimit
    BY <2>2, <2>3, <2>4
  <2>5. NumOfThreads' = NumOfThreads
    BY <1>1, QueryFrame
  <2>6. QED
    BY <2>4, <2>5 DEF CountIsExact
<1>8. \A u \in Workers : wpc'[u] = "store" => wpc[u] = "store"
  BY <1>1
<1>9. TallyOK(added)'
  <2>1. \A u \in Workers :
          IF Joined(u)' THEN tried'[u] \subseteq added
                        ELSE Cardinality(tried'[u] \ added) = numOfAttempts'[u]
    BY <1>3, <1>4, <1>5, <1>6
  <2>2. /\ attempts' <= Cardinality(added)
        /\ mpc' = "add" => reg' <= Cardinality(added)
        /\ \A u \in Workers : wpc'[u] = "store" => wreg'[u] <= Cardinality(added)
    BY <1>1, <1>8 DEF TallyOK
  <2>3. CountIsExact =>
          /\ attempts' = Cardinality(added)
          /\ mpc' = "add" => reg' = Cardinality(added)
          /\ \A u \in Workers : wpc'[u] = "store" => wreg'[u] = Cardinality(added)
    BY <1>1, <1>8 DEF TallyOK
  <2>4. QED
    BY <1>7, <2>1, <2>2, <2>3 DEF TallyOK
<1>10. added \in SUBSET (AllTried')
  <2>1. \A u \in Workers : tried[u] \subseteq tried'[u]
    BY <1>1, <1>2
  <2>2. QED
    BY <2>1 DEF AllTried
<1>11. QED
  BY <1>9, <1>10

\* What the steps of the calling thread do to the workers.
LEMMA MainCpuFrame ==
  ASSUME TypeOK, MainOK, MainSteps
  PROVE  \/ Enter
         \/ /\ Calling
            /\ UNCHANGED <<word, workThread, numOfAttempts, wreg, wpass, tried>>
            /\ \A t \in Workers : wpc'[t] = wpc[t] \/ (wpc[t] = "none" /\ wpc'[t] = "walk")
<1> USE DEF TypeOK, cpuVars, Calling
<1>1. CASE CreateWorker
  <2>1. i \in Workers /\ wpc[i] = "none"
    BY <1>1, NumOfThreadsType DEF CreateWorker, MainOK, CreateOK, Workers
  <2>2. QED
    BY <1>1, <2>1 DEF CreateWorker
<1>2. CASE WorkersCreated \/ CreateDevice \/ DevicesCreated \/ JoinDevice
           \/ StopWorkers \/ JoinWorker \/ AddAttempts \/ Return
  BY <1>2 DEF WorkersCreated, CreateDevice, DevicesCreated, JoinDevice,
              StopWorkers, JoinWorker, AddAttempts, Return
<1>3. QED
  BY <1>1, <1>2 DEF MainSteps

\* Nobody counts a word twice, in any step.
LEMMA TriedStep ==
  ASSUME IInv, TriedInv, [Next]_vars
  PROVE  TriedInv'
<1>0. IInv' /\ (Calling' \/ UNCHANGED vars) /\ TypeOK /\ MainOK /\ query' = query
  BY StepIInv, QueryStays DEF IInv
<1>1. CASE UNCHANGED vars
  <2>1. /\ tried' = tried /\ mpc' = mpc /\ i' = i /\ attempts' = attempts
        /\ wpc' = wpc /\ word' = word /\ numOfAttempts' = numOfAttempts
        /\ Refused' = Refused /\ NumOfThreads' = NumOfThreads
    BY <1>0, <1>1, QueryFrame DEF vars, mainVars, cpuVars
  <2>2. QED
    BY <2>1 DEF TriedInv, TriedOK, AllTried, Calling
<1>2. CASE Calling'
  <2>1. (\E n \in Nat : AllTried \subseteq 1 .. n)'
    <3>1. Last' \in Nat
      <4>1. (query \in Queries)'
        BY <1>0 DEF IInv, TypeOK
      <4>2. (query \in Queries => Last \in Nat)'
        BY NumOfThreadsType, PTL
      <4>3. QED
        BY <4>1, <4>2
    <3>2. \A t \in Workers : \A w \in tried'[t] : w \in 1 .. Last'
      BY <1>0, <1>2 DEF IInv, ThreadsOK, WorkerOK
    <3>3. QED
      BY <3>1, <3>2 DEF AllTried
  <2>2. mpc' = "done" => Refused' \/ i' > NumOfThreads'
    <3>1. CASE mpc' = "done" /\ mpc # "done"
      <4>1. Enter \/ Return
        BY <3>1, <1>0, CpuFrame, GpuFrame
           DEF Next, Returned, MainSteps, CreateWorker, WorkersCreated, CreateDevice,
               DevicesCreated, JoinDevice, StopWorkers, JoinWorker, AddAttempts,
               mainVars, vars,
               Gpu, GpuAdvance, GpuExhausted, GpuFill, GpuNext, GpuFull, GpuPoll,
               GpuRun, GpuFlush, GpuStore, GpuFound, GpuMissed
      <4>2. QED
        BY <1>0, <3>1, <4>1, QueryFrame DEF Enter, Return, Refused
    <3>2. CASE mpc = "done"
      <4>1. UNCHANGED i
        BY <3>2, <1>0 DEF Next, Returned, MainSteps, Enter, CreateWorker,
               WorkersCreated, CreateDevice,
               DevicesCreated, JoinDevice, StopWorkers, JoinWorker, AddAttempts,
               Return, mainVars, vars,
               Cpu, CpuSkip, CpuExhausted, CpuStopped, CpuAttempt, CpuFlush,
               CpuStore, CpuFound, CpuMissed,
               Gpu, GpuAdvance, GpuExhausted, GpuFill, GpuNext, GpuFull, GpuPoll,
               GpuRun, GpuFlush, GpuStore, GpuFound, GpuMissed
      <4>2. QED
        BY <1>0, <3>2, <4>1, QueryFrame DEF TriedInv
    <3>3. QED
      BY <3>1, <3>2
  <2>3. ASSUME NEW t \in Workers
        PROVE  TriedOK(t)'
    <3>1. CASE MainSteps
      <4>1. CASE Enter
        BY <4>1 DEF Enter, FreshContexts, PerWorker, TriedOK
      <4>2. CASE ~Enter
        <5>1. /\ Calling /\ UNCHANGED <<word, numOfAttempts, tried>>
              /\ wpc'[t] = wpc[t] \/ (wpc[t] = "none" /\ wpc'[t] = "walk")
          BY <1>0, <3>1, <4>2, MainCpuFrame
        <5>2. wpc[t] = "none" => tried[t] = {}
          BY <5>1 DEF IInv, ThreadsOK, WorkerOK
        <5>3. QED
          BY <5>1, <5>2 DEF TriedInv, TriedOK
      <4>3. QED
        BY <4>1, <4>2
    <3>2. ASSUME NEW u \in Workers, Cpu(u)
          PROVE  TriedOK(t)'
      <4>1. Calling /\ TriedOK(t)
        BY <1>0, <3>2, CpuKeepsMain DEF IInv, TriedInv
      <4>2. /\ word \in [Workers -> Nat] /\ tried \in [Workers -> SUBSET Nat]
            /\ numOfAttempts \in [Workers -> Nat]
            /\ wpc \in [Workers -> {"none", "walk", "flush", "store", "compare", "exited"}]
        BY <1>0 DEF TypeOK
      <4>3. CASE u # t
        BY <3>2, <4>1, <4>2, <4>3
           DEF TriedOK, Cpu, CpuSkip, CpuExhausted, CpuStopped, CpuAttempt,
               CpuFlush, CpuStore, CpuFound, CpuMissed
      <4>4. CASE u = t /\ CpuSkip(t)
        BY <4>1, <4>2, <4>4 DEF TriedOK, CpuSkip
      <4>5. CASE u = t /\ CpuAttempt(t)
        BY <4>1, <4>2, <4>5 DEF TriedOK, CpuAttempt
      <4>6. CASE u = t /\ CpuMissed(t)
        BY <4>1, <4>2, <4>6 DEF TriedOK, CpuMissed
      <4>7. CASE u = t /\ (CpuExhausted(t) \/ CpuStopped(t) \/ CpuFound(t))
        BY <4>1, <4>2, <4>7 DEF TriedOK, CpuExhausted, CpuStopped, CpuFound
      <4>8. CASE u = t /\ (CpuFlush(t) \/ CpuStore(t))
        BY <4>1, <4>2, <4>8 DEF TriedOK, CpuFlush, CpuStore
      <4>9. QED
        BY <3>2, <4>3, <4>4, <4>5, <4>6, <4>7, <4>8 DEF Cpu
    <3>3. ASSUME NEW d \in Devices, Gpu(d)
          PROVE  TriedOK(t)'
      <4>1. Calling /\ DeviceOK(d)
        BY <1>0, <3>3, GpuKeepsMain DEF IInv, ThreadsOK
      <4>2. UNCHANGED cpuVars
        BY <1>0, <3>3, <4>1, GpuFrame
      <4>3. QED
        BY <4>1, <4>2 DEF cpuVars, TriedInv, TriedOK
    <3>4. CASE UNCHANGED vars
      BY <1>1, <1>2, <3>4 DEF TriedInv
    <3>5. QED
      BY <3>1, <3>2, <3>3, <3>4 DEF Next, Returned
  <2>4. QED
    BY <1>2, <2>1, <2>2, <2>3 DEF TriedInv
<1>3. QED
  BY <1>0, <1>1, <1>2

\* The steps of the calling thread and the attempts.
LEMMA MainTally ==
  ASSUME IInv, TriedInv, TriedInv', ~UseGpu, MainSteps,
         Calling => \E added \in SUBSET AllTried : TallyOK(added)
  PROVE  (\E added \in SUBSET AllTried : TallyOK(added))'
<1>0. /\ TypeOK /\ MainOK /\ query' = query
      /\ NumOfThreads \in Nat /\ \A t \in Workers : t \in Nat
  BY QueryStays, NumOfThreadsType DEF IInv, TypeOK, Next, Workers
<1>1. CASE Enter
  <2>1. /\ \A t \in Workers : tried'[t] = {} /\ numOfAttempts'[t] = 0
                              /\ wpc'[t] = "none" /\ ~Joined(t)'
        /\ attempts' = 0 /\ mpc' # "add"
    BY <1>1 DEF Enter, FreshContexts, PerWorker, TriedInv, Calling, Joined, Workers
  <2>2. Cardinality({}) = 0 /\ \A t \in Workers : tried'[t] \ {} = {}
    BY <2>1, FS_EmptySet
  <2>3. TallyOK({})'
    BY <2>1, <2>2 DEF TallyOK
  <2>4. QED
    BY <2>3
<1>2. CASE ~Enter
  <2>1. /\ Calling /\ UNCHANGED <<numOfAttempts, wreg, tried>>
        /\ \A t \in Workers : wpc'[t] = "store" => wpc[t] = "store"
    BY <1>0, <1>2, MainCpuFrame
  <2>2. PICK added \in SUBSET AllTried : TallyOK(added)
    BY <2>1
  <2>3. CASE CreateWorker \/ WorkersCreated \/ Return
    <3>1. attempts' = attempts /\ mpc' # "add"
      BY <2>3 DEF CreateWorker, WorkersCreated, Return
    <3>2. \A t \in Workers : Joined(t)' <=> Joined(t)
      BY <1>0, <2>3 DEF CreateWorker, WorkersCreated, Return, Joined, Workers
    <3>3. QED
      BY <1>0, <2>1, <2>2, <3>1, <3>2, TallyFrame
  <2>4. CASE JoinWorker
    <3>1. /\ attempts' = attempts /\ reg' = attempts
          /\ \A t \in Workers : Joined(t)' <=> Joined(t)
      BY <2>4 DEF JoinWorker, Joined
    <3>2. QED
      BY <1>0, <2>1, <2>2, <3>1, TallyFrame
  <2>5. CASE AddAttempts
    <3>1. /\ mpc = "add" /\ mpc' = "join" /\ i' = i + 1 /\ UNCHANGED cpuVars
          /\ attempts' = reg + numOfAttempts[i]
      BY <2>5 DEF AddAttempts
    <3>2. PICK t \in Workers : t = i /\ wpc[t] = "exited"
      BY <1>0, <3>1, NumOfThreadsType DEF MainOK, JoinOK, TypeOK, Workers
    <3>3. ~Joined(t) /\ Joined(t)'
      BY <1>0, <3>1, <3>2 DEF Joined
    <3>4. \A u \in Workers \ {t} : Joined(u)' <=> Joined(u)
      <4>1. \A u \in Workers \ {t} : u < t + 1 <=> u < t
        BY <1>0
      <4>2. QED
        BY <3>1, <3>2, <4>1 DEF Joined
    <3>5. /\ reg \in Nat /\ reg <= Cardinality(added)
          /\ CountIsExact => reg = Cardinality(added)
      BY <1>0, <2>2, <3>1 DEF TypeOK, TallyOK
    <3>6. CountIsExact => \A u \in Workers : wpc[u] # "store"
      BY <1>0, <2>1, <2>2, <3>1, ExactAlone
    <3>7. /\ \A u \in Workers : /\ numOfAttempts'[u] = numOfAttempts[u]
                                 /\ wpc'[u] = wpc[u] /\ wreg'[u] = wreg[u]
          /\ tried' = tried /\ wpc'[t] # "store" /\ mpc' # "add"
          /\ attempts' = reg + numOfAttempts[t]
      BY <3>1, <3>2 DEF cpuVars
    <3>8. QED
      BY <1>0, <2>1, <2>2, <3>1, <3>3, <3>4, <3>5, <3>6, <3>7, TallyAdd
  <2>6. CASE CreateDevice \/ DevicesCreated \/ JoinDevice \/ StopWorkers
    BY <1>0, <2>6 DEF CreateDevice, DevicesCreated, JoinDevice, StopWorkers,
                      MainOK, GpuOK
  <2>7. QED
    BY <1>2, <2>3, <2>4, <2>5, <2>6 DEF MainSteps
<1>3. QED
  BY <1>1, <1>2

\* The steps of a worker and the attempts.
LEMMA CpuTally ==
  ASSUME IInv, TriedInv, Calling, NEW t \in Workers, Cpu(t),
         NEW added \in SUBSET AllTried, TallyOK(added)
  PROVE  (\E more \in SUBSET AllTried : TallyOK(more))'
<1>0. /\ TypeOK /\ UNCHANGED mainVars
      /\ wpc[t] \in {"walk", "flush", "store", "compare"}
  BY CpuFrame DEF IInv
<1>1. /\ query' = query /\ mpc' = mpc /\ i' = i /\ reg' = reg
      /\ \A u \in Workers : Joined(u)' <=> Joined(u)
      /\ ~Joined(t)
  BY <1>0, RunningNotJoined DEF mainVars, Joined
<1>2. /\ wpc \in [Workers -> {"none", "walk", "flush", "store", "compare", "exited"}]
      /\ numOfAttempts \in [Workers -> Nat] /\ wreg \in [Workers -> Nat]
      /\ attempts \in Nat
  BY <1>0 DEF TypeOK
<1>3. CASE CpuSkip(t) \/ CpuExhausted(t) \/ CpuStopped(t) \/ CpuFound(t)
           \/ CpuMissed(t)
  <2>1. /\ attempts' = attempts /\ UNCHANGED <<numOfAttempts, tried, wreg>>
        /\ \A u \in Workers : wpc'[u] = "store" => wpc[u] = "store"
    BY <1>2, <1>3 DEF CpuSkip, CpuExhausted, CpuStopped, CpuFound, CpuMissed
  <2>2. QED
    BY <1>1, <2>1, TallyFrame
<1>4. CASE CpuAttempt(t)
  BY <1>4, TallyAttempt
<1>5. CASE CpuFlush(t) /\ ~AtomicFlush
  <2>1. /\ attempts' = attempts /\ UNCHANGED <<numOfAttempts, tried>>
        /\ wreg' = [wreg EXCEPT ![t] = attempts]
        /\ wpc' = [wpc EXCEPT ![t] = "store"]
    BY <1>5 DEF CpuFlush
  <2>2. \A u \in Workers : wpc'[u] = "store" =>
            wreg'[u] = attempts \/ (wpc[u] = "store" /\ wreg'[u] = wreg[u])
    BY <1>2, <2>1
  <2>3. QED
    BY <1>1, <2>1, <2>2, TallyFrame
<1>6. CASE (CpuFlush(t) /\ AtomicFlush) \/ CpuStore(t)
  <2>1. PICK base \in Nat :
          /\ base \in {attempts} \cup (IF wpc[t] = "store" THEN {wreg[t]} ELSE {})
          /\ attempts' = base + numOfAttempts[t]
    <3>1. CASE CpuFlush(t) /\ AtomicFlush
      BY <1>2, <3>1 DEF CpuFlush
    <3>2. CASE CpuStore(t)
      BY <1>2, <3>2 DEF CpuStore
    <3>3. QED
      BY <1>6, <3>1, <3>2
  <2>2. base <= Cardinality(added) /\ (CountIsExact => base = Cardinality(added))
    BY <2>1 DEF TallyOK
  <2>3. wpc[t] \in {"flush", "store"}
    BY <1>6 DEF CpuFlush, CpuStore
  <2>4. /\ tried' = tried /\ numOfAttempts' = [numOfAttempts EXCEPT ![t] = 0]
        /\ wpc' = [wpc EXCEPT ![t] = "compare"] /\ wreg' = wreg
    BY <1>6 DEF CpuFlush, CpuStore
  <2>5. /\ numOfAttempts'[t] = 0 /\ wpc'[t] # "store"
        /\ \A u \in Workers \ {t} :
             /\ numOfAttempts'[u] = numOfAttempts[u]
             /\ Joined(u)' <=> Joined(u)
             /\ wpc'[u] = wpc[u] /\ wreg'[u] = wreg[u]
    BY <1>1, <1>2, <2>4
  <2>6. CountIsExact => mpc' # "add" /\ \A u \in Workers \ {t} : wpc[u] # "store"
    BY <1>1, <2>3, ExactAlone
  <2>7. QED
    BY <1>1, <2>1, <2>2, <2>4, <2>5, <2>6, TallyAdd
<1>7. QED
  BY <1>3, <1>4, <1>5, <1>6 DEF Cpu

LEMMA TallyStep ==
  ASSUME IInv, TallyInv, [Next]_vars
  PROVE  TallyInv'
<1>0. /\ IInv' /\ (Calling' \/ UNCHANGED vars) /\ query' = query
      /\ TriedInv /\ TriedInv' /\ UseGpu' = UseGpu
  BY StepIInv, QueryStays, TriedStep, QueryFrame DEF TallyInv
<1>1. CASE UNCHANGED vars
  <2>1. /\ query' = query /\ mpc' = mpc /\ i' = i /\ reg' = reg
        /\ attempts' = attempts /\ tried' = tried /\ wpc' = wpc /\ wreg' = wreg
        /\ numOfAttempts' = numOfAttempts
    BY <1>1 DEF vars, mainVars, cpuVars
  <2>2. Calling' = Calling /\ \A t \in Workers : Joined(t)' <=> Joined(t)
    BY <2>1 DEF Calling, Joined
  <2>3. QED
    BY <1>0, <2>1, <2>2, TallyFrame DEF TallyInv
<1>2. CASE Calling' /\ ~UseGpu
  <2>1. (\E added \in SUBSET AllTried : TallyOK(added))'
    <3>1. CASE MainSteps
      BY <1>0, <1>2, <3>1, MainTally DEF TallyInv
    <3>2. ASSUME NEW t \in Workers, Cpu(t)
          PROVE  (\E added \in SUBSET AllTried : TallyOK(added))'
      <4>1. Calling
        BY <3>2, CpuKeepsMain DEF IInv
      <4>2. PICK added \in SUBSET AllTried : TallyOK(added)
        BY <1>2, <4>1 DEF TallyInv
      <4>3. QED
        BY <1>0, <3>2, <4>1, <4>2, CpuTally
    <3>3. ASSUME NEW d \in Devices, Gpu(d)
          PROVE  FALSE
      <4>1. gpc[d] \notin {"none", "exited"}
        BY <3>3 DEF Gpu, GpuAdvance, GpuExhausted, GpuFill, GpuNext, GpuFull,
                    GpuPoll, GpuRun, GpuFlush, GpuStore, GpuFound, GpuMissed
      <4>2. QED
        BY <1>2, <4>1, ActiveDevice
    <3>4. QED
      BY <1>0, <1>1, <1>2, <3>1, <3>2, <3>3 DEF Next, Returned, TallyInv
  <2>2. QED
    BY <1>0, <2>1 DEF TallyInv
<1>3. QED
  BY <1>0, <1>1, <1>2 DEF TallyInv

LEMMA FirstTally == NoThreads => TallyInv
<1> SUFFICES ASSUME NoThreads
             PROVE  TallyInv
  OBVIOUS
<1>1. AllTried = {}
  BY DEF NoThreads, NoContexts, PerWorker, AllTried
<1>2. AllTried \subseteq 1 .. 0
  BY <1>1
<1>3. QED
  BY <1>2 DEF NoThreads, TallyInv, TriedInv, Calling

LEMMA CountedState == IInv /\ TallyInv => AttemptsCounted
<1> SUFFICES ASSUME IInv, TallyInv, ~UseGpu
             PROVE  /\ attempts <= Cardinality(AllTried)
                    /\ mpc = "done" /\ CountIsExact => attempts = Cardinality(AllTried)
  BY DEF AttemptsCounted
<1>0. /\ attempts \in Nat /\ TriedInv /\ Cardinality(AllTried) \in Nat
      /\ NumOfThreads \in Nat /\ \A t \in Workers : t \in Nat
  BY TriedFinite, NumOfThreadsType DEF IInv, TypeOK, TallyInv, Workers
<1>1. CASE ~Calling
  BY <1>0, <1>1 DEF TriedInv, Calling
<1>2. CASE Calling
  <2>1. PICK added \in SUBSET AllTried : TallyOK(added)
    BY <1>2 DEF TallyInv
  <2>2. Cardinality(added) \in Nat /\ Cardinality(added) <= Cardinality(AllTried)
    BY <1>0, <2>1, TriedFinite
  <2>3. attempts <= Cardinality(added)
    BY <2>1 DEF TallyOK
  <2>4. ASSUME mpc = "done", NEW t \in Workers
        PROVE  tried[t] \subseteq added
    <3>1. WorkerOK(t) /\ DoneOK
      BY <1>2 DEF IInv, ThreadsOK, MainOK
    <3>2. CASE wpc[t] = "none"
      BY <3>1, <3>2 DEF WorkerOK
    <3>3. CASE wpc[t] # "none"
      <4>1. i > NumOfThreads /\ t <= NumOfThreads /\ i \in Nat
        BY <1>0, <2>4, <3>1, <3>3 DEF DoneOK, TriedInv, WorkerOK, IInv, TypeOK
      <4>2. Joined(t)
        BY <1>0, <2>4, <4>1 DEF Joined
      <4>3. QED
        BY <2>1, <4>2 DEF TallyOK
    <3>4. QED
      BY <3>2, <3>3
  <2>5. mpc = "done" => added = AllTried
    BY <2>1, <2>4 DEF AllTried
  <2>6. QED
    BY <1>0, <2>1, <2>2, <2>3, <2>5 DEF TallyOK
<1>3. QED
  BY <1>1, <1>2

\* The attempts that are reported are never more than the words tried, however
\* the updates of g_attempts interleave; and they are just these when no two
\* threads can add to it at a time.
THEOREM AttemptsAreCounted == Spec => []AttemptsCounted
<1>1. IInv /\ TallyInv /\ [Next]_vars => TallyInv'
  BY TallyStep
<1>2. QED
  BY <1>1, InitNoThreads, FirstTally, CountedState, Invariant, PTL DEF Spec
=============================================================================
