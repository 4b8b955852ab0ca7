----------------------------- MODULE CrackHash -----------------------------
(***************************************************************************)
(* bf_crack_hash (srclib/bf.c), what the hash mode of hc runs: try the     *)
(* empty string, estimate the speed by a first call of bf_brute_force for  *)
(* a known string, run the call that was asked for, report the attempts    *)
(* and the string.  Both calls use the same globals, which only the second *)
(* one may find changed by the first.                                      *)
(***************************************************************************)
EXTENDS BruteForce

CONSTANTS
  Jobs,         \* what the command line may ask for
  ProbeQuery,   \* the call made to estimate the speed, never on a GPU
  EmptyString,  \* the answer when the digest is that of ""
  MaxDefault    \* the greatest length when none is given

VARIABLES
  job,       \* the job: its call, no_probe, and whether "" has the digest
  phase,     \* "start", "probe", "main" or "report"
  answer,    \* the string printed
  reported   \* the number of attempts printed

crackVars == <<vars, job, phase, answer, reported>>

\* passmax = passmax ? passmax : MAX_DEFAULT
Asked(q) == [q EXCEPT !.passmax = IF @ = 0 THEN MaxDefault ELSE @]

ASSUME CrackAssumption ==
  /\ ProbeQuery \in Queries /\ ~ProbeQuery.gpu
  /\ \A j \in Jobs : /\ Asked(j.query) \in Queries
                     /\ j.noProbe \in BOOLEAN /\ j.empty \in BOOLEAN
  /\ EmptyString \notin Nat \cup {None}

\* The process has just started: no call yet, zeroed globals.
CrackInit ==
  /\ job \in Jobs
  /\ phase = "start" /\ answer = None /\ reported = 0
  /\ query = Asked(job.query)
  /\ mpc = "idle" /\ i = 1 /\ pass = None /\ reg = 0
  /\ alreadyFound = FALSE /\ attempts = 0 /\ variantIx = 0
  /\ NoContexts

\* Call bf_brute_force.  The threads of an earlier call have ended but their
\* contexts and the globals are as they left them.
Call(q) ==
  /\ query' = q
  /\ mpc' = "enter"
  /\ UNCHANGED <<i, pass, reg, alreadyFound, variantIx, cpuVars, gpuVars>>

\* The empty string: bf_output_timings prints no attempts.
FoundEmpty ==
  /\ phase = "start" /\ job.empty
  /\ phase' = "report"
  /\ answer' = EmptyString
  /\ reported' = attempts
  /\ UNCHANGED <<vars, job>>

StartProbe ==
  /\ phase = "start" /\ ~job.empty /\ ~job.noProbe
  /\ phase' = "probe"
  /\ Call(ProbeQuery)
  /\ UNCHANGED <<attempts, job, answer, reported>>

StartMain ==
  /\ phase = "start" /\ ~job.empty /\ job.noProbe
  /\ phase' = "main"
  /\ Call(Asked(job.query))
  /\ UNCHANGED <<attempts, job, answer, reported>>

\* Mutant: the attempts of the probe are not cleared.
ProbeToMain_KeepsAttempts ==
  /\ phase = "probe" /\ mpc = "done"
  /\ phase' = "main"
  /\ Call(Asked(job.query))
  /\ UNCHANGED <<attempts, job, answer, reported>>

\* The probe has returned: its string is dropped, its attempts are cleared
\* once they have been divided by its time.
ProbeToMain ==
  /\ phase = "probe" /\ mpc = "done"
  /\ phase' = "main"
  /\ attempts' = 0
  /\ Call(Asked(job.query))
  /\ UNCHANGED <<job, answer, reported>>

\* bf_output_timings, and the string.
Report ==
  /\ phase = "main" /\ mpc = "done"
  /\ phase' = "report"
  /\ answer' = pass
  /\ reported' = attempts
  /\ UNCHANGED <<vars, job>>

InCall ==
  /\ phase \in {"probe", "main"}
  /\ UNCHANGED <<job, phase, answer, reported>>

CallMain == MainSteps /\ InCall
CallCpu(t) == Cpu(t) /\ InCall
CallGpu(d) == Gpu(d) /\ InCall

CrackNext ==
  \/ FoundEmpty \/ StartProbe \/ StartMain \/ ProbeToMain \/ Report
  \/ CallMain
  \/ \E t \in Workers : CallCpu(t)
  \/ \E d \in Devices : CallGpu(d)

-----------------------------------------------------------------------------
(* The inductive invariant                                                  *)

\* Which call is under way in which phase.  Until the main call no device has
\* been started and g_gpu_variant_ix is as the process found it.
PhaseOK ==
  /\ job \in Jobs
  /\ phase \in {"start", "probe", "main", "report"}
  /\ phase = "start" => query = Asked(job.query) /\ mpc = "idle"
  /\ phase = "probe" => query = ProbeQuery /\ mpc # "idle" /\ ~job.empty
  /\ phase = "main" => query = Asked(job.query) /\ mpc # "idle" /\ ~job.empty
  /\ phase = "report" =>
       /\ query = Asked(job.query) /\ reported = attempts
       /\ IF job.empty THEN mpc = "idle" /\ answer = EmptyString
                       ELSE mpc = "done" /\ answer = pass
  /\ phase \in {"start", "probe"} =>
       variantIx = 0 /\ \A d \in Devices : gpc[d] = "none"

-----------------------------------------------------------------------------
(* Properties                                                               *)

\* What is printed is the answer that PasswordSearch allows to the call that
\* was asked for, although the probe has left the flag up, its string and its
\* contexts behind.
AnswersTheJob ==
  phase = "report" =>
    answer \in IF job.empty THEN {EmptyString} ELSE Search!Answers(Asked(job.query))
=============================================================================
