----------------------------- MODULE MCHashMode -----------------------------
(***************************************************************************)
(* A small instance of HashMode: one character, so that word n has n       *)
(* letters, batches of two variants, two processors.                       *)
(***************************************************************************)
EXTENDS HashMode

Query(min, max, found, threads, devices, kernel) ==
  [passmin |-> min, passmax |-> max, targets |-> found, threads |-> threads,
   gpu |-> devices >= 0, devices |-> IF devices < 0 THEN 0 ELSE devices,
   factor |-> kernel[1], comparisons |-> kernel[2]]
Cpu0(min, max, found, threads) == Query(min, max, found, threads, -1, <<1, 1>>)

Command(q, noProbe) == [query |-> q, hash |-> "md5", noProbe |-> noProbe, empty |-> FALSE]

\* The pairs <<factor, comparisons>> prhsh_set_gpu_functions is called with.
Kernels == {<<1, 2>>, <<2, 1>>, <<2, 2>>}

\* The call of the probe, for a word of two letters.
MCProbe == [Cpu0(1, 3, {2}, <<>>) EXCEPT !.threads = 1]

\* Without a GPU: options that are missing, out of range or refused, a digest
\* of nothing, of the first and of the last word.
CpuCommands ==
  {Command(Cpu0(min, max, found, threads), noProbe) :
     min \in {0, 2}, max \in {-1, 3, 8}, found \in {{}, {1}, {3}},
     threads \in {<<>>, <<0>>, <<2>>}, noProbe \in BOOLEAN}
  \cup {[Command(Cpu0(1, 3, {}, <<>>), FALSE) EXCEPT !.empty = TRUE],
        [Command(Cpu0(1, 3, {}, <<>>), TRUE) EXCEPT !.hash = "unknown"]}

\* One device with each kind of kernel, two that share the index of the slots,
\* and none.  What is searched for is a word that only the CPU reaches, one of
\* the variants, one that a kernel completes, or nothing.
GpuCommands ==
  {Command(Query(1, max, found, <<>>, 1, k), TRUE) :
     max \in {4, 6}, found \in {{}, {2}, {3}, {6}}, k \in Kernels}
  \cup {Command(Query(1, max, found, <<>>, 2, <<2, 1>>), TRUE) :
          max \in {4, 5}, found \in {{}, {5}}}
  \cup {Command(Query(1, 4, {3}, <<>>, 0, <<2, 1>>), FALSE),
        Command(Query(1, 3, {3}, <<>>, 1, <<2, 1>>), FALSE),
        Command(Query(1, 4, {4}, <<>>, 1, <<2, 1>>), FALSE)}

MCCommands == CpuCommands \cup GpuCommands
MCJobs == {JobOf(c) : c \in MCCommands}
MCQueries == {Asked(j.query) : j \in MCJobs} \cup {MCProbe}
=============================================================================
