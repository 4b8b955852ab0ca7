---------------------------- MODULE MCBruteForce ----------------------------
(***************************************************************************)
(* Small instances of BruteForce for TLC: the calls are records built from *)
(* small sets of length bounds, targets and thread counts.                 *)
(***************************************************************************)
EXTENDS BruteForce

CpuQuery(min, max, found, n) ==
  [passmin |-> min, passmax |-> max, targets |-> found, threads |-> n,
   gpu |-> FALSE, devices |-> 0, factor |-> 1, comparisons |-> 1]

GpuQuery(min, max, found, kernel, n) ==
  [passmin |-> min, passmax |-> max, targets |-> found, threads |-> 1,
   gpu |-> TRUE, devices |-> n, factor |-> kernel[1], comparisons |-> kernel[2]]

\* Two characters: words 1..2 have one letter, 3..6 two, 7..14 three.  Nothing
\* to find, the first and the last word, words of different workers, words too
\* short; length 5 is refused by the limit 4.
CpuQueries ==
  {CpuQuery(min, max, found, n) :
     min \in 1 .. 2, max \in {3, 5},
     found \in {{}, {1}, {14}, {2, 6, 7}}, n \in 2 .. 3}

\* One device: a word that the CPU reaches first, and one of the variants.
DeviceQueries ==
  {GpuQuery(1, 4, {2}, <<2, 1>>, 1), GpuQuery(1, 4, {10}, <<2, 2>>, 1)}

AllQueries == CpuQueries \cup DeviceQueries

\* The call of BruteForceTest.cpp: "123" over "12345", lengths 1 to 4, with a
\* kernel that leaves it two characters, so that the device has no variant.
TestQueries == {GpuQuery(1, 4, {38}, <<1, 2>>, 1)}

\* A string of five characters although four are asked for, over two characters.
TooLongQueries == {GpuQuery(1, 4, {31}, <<2, 2>>, 1)}
=============================================================================
