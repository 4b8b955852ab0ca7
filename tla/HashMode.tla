------------------------------ MODULE HashMode ------------------------------
(***************************************************************************)
(* The hash mode of hc from the start of the process to its end: main      *)
(* (hc/hc.c) makes g_pool, the options become a job (hc/configuration.c,   *)
(* hc/hash.c), a builtin runs bf_crack_hash in a pool of its own, and all  *)
(* is destroyed again.  At any time Ctrl-C may be pressed: its handler     *)
(* runs in a thread of its own.                                            *)
(***************************************************************************)
EXTENDS CrackHash, Builtin

CONSTANTS
  Commands,     \* the command lines considered
  Processors    \* lib_get_processor_count

VARIABLES
  stage,        \* "boot", "options", "crack", "closed", "exit" or "interrupted"
  printed       \* the attempts the handler of Ctrl-C printed, -1 for nothing

hashVars == <<crackVars, builtinVars, stage, printed>>

Pools == [main |-> "", builtin |-> "main"]

\* prconf_get_threads_count.  given are the values of the option, at most one.
Threads(given) ==
  LET half == IF Processors = 1 THEN 1 ELSE Processors \div 2
      asked == IF given = <<>> THEN half ELSE given[1]
  IN  IF asked \in 1 .. Processors THEN asked ELSE half

\* The job of a command line: hash_run replaces lengths that are not positive,
\* those not given included.
JobOf(c) ==
  [query |-> [c.query EXCEPT !.passmin = IF @ > 0 THEN @ ELSE 1,
                             !.passmax = IF @ > 0 THEN @ ELSE MaxDefault,
                             !.threads = Threads(@)],
   hash |-> c.hash, noProbe |-> c.noProbe, empty |-> c.empty]

ASSUME HashModeAssumption ==
  /\ PoolParent = Pools
  /\ Jobs = {JobOf(c) : c \in Commands}

HashInit ==
  /\ CrackInit
  /\ stage = "boot" /\ printed = -1
  /\ pools = {} /\ table = "" /\ definition = ""

\* main, up to the options.
MakePools ==
  /\ stage = "boot"
  /\ stage' = "options"
  /\ pools' = {"main"} /\ table' = "main"
  /\ UNCHANGED <<crackVars, definition, printed>>

\* prhc_on_hash, builtin_run and hash_run as far as bf_crack_hash.
BeginHash ==
  /\ stage = "options"
  /\ BuiltinInit(job.hash)
  /\ stage' = IF job.hash \in KnownHashes THEN "crack" ELSE "closed"
  /\ UNCHANGED <<crackVars, printed>>

EndHash ==
  /\ stage = "crack" /\ phase = "report"
  /\ BuiltinClose
  /\ stage' = "closed"
  /\ UNCHANGED <<crackVars, printed>>

Exit ==
  /\ stage = "closed"
  /\ pools' = Without("main")
  /\ stage' = "exit"
  /\ UNCHANGED <<crackVars, table, definition, printed>>

InCrack == stage = "crack" /\ UNCHANGED <<builtinVars, stage, printed>>

\* The thread of main; those of bf_brute_force.
MainThread ==
  \/ MakePools \/ BeginHash \/ EndHash \/ Exit
  \/ (FoundEmpty /\ InCrack) \/ (StartProbe /\ InCrack) \/ (StartMain /\ InCrack)
  \/ (ProbeToMain /\ InCrack) \/ (Report /\ InCrack) \/ (CallMain /\ InCrack)
Worker(t) == CallCpu(t) /\ InCrack
Device(d) == CallGpu(d) /\ InCrack

\* prhc_ctrl_handler.  g_mode is mode_hash from BeginHash on.  The steps that
\* other threads still make before the process ends are left out.
CtrlC ==
  /\ stage \notin {"exit", "interrupted"}
  /\ stage' = "interrupted"
  /\ printed' = IF stage \in {"crack", "closed"} THEN attempts ELSE -1
  /\ pools' = IF stage = "boot" THEN pools ELSE Without("main")
  /\ UNCHANGED <<crackVars, table, definition>>

HashNext ==
  \/ MainThread
  \/ \E t \in Workers : Worker(t)
  \/ \E d \in Devices : Device(d)
  \/ CtrlC

\* Every thread goes on while it can; nobody has to press Ctrl-C.
HashSpec ==
  /\ HashInit /\ [][HashNext]_hashVars
  /\ WF_hashVars(MainThread)
  /\ \A t \in Workers : WF_hashVars(Worker(t))
  /\ \A d \in Devices : WF_hashVars(Device(d))

-----------------------------------------------------------------------------
(* The inductive invariant                                                  *)

\* Where the process is, and what Ctrl-C has printed.
StageOK ==
  /\ stage \in {"boot", "options", "crack", "closed", "exit", "interrupted"}
  /\ stage \in {"boot", "options"} => phase = "start"
  /\ stage = "options" => pools = {"main"}
  /\ stage = "crack" => pools = {"main", "builtin"}
  /\ stage \in {"closed", "exit"} => phase \in {"start", "report"}
  /\ printed \in IF stage = "interrupted" THEN {-1, attempts} ELSE {-1}

\* With the invariant of the call, which holds from one call to the next.
CallInv == IInv /\ SlotInv /\ TailInv /\ TallyInv
HashInv == CallInv /\ PhaseOK /\ StageOK

-----------------------------------------------------------------------------
(* Properties                                                               *)

\* The attempts that are printed, at the end or by the handler of Ctrl-C, are
\* words that were tried, and those reported at the end were tried by the call
\* that was asked for: the counter is shared with the probe.
ReportsOwnAttempts ==
  LET words == Cardinality(AllTried)
  IN  ~ UseGpu => printed <= words /\ (phase = "report" => reported <= words)

\* A thread of the search runs only while the call that made it has not
\* returned, and the pool that its context is in, below g_pool, exists.
ThreadsInPool ==
  stage # "interrupted" =>
    \A pc \in {wpc[t] : t \in Workers} \cup {gpc[d] : d \in Devices} :
      pc \notin {"none", "exited"} =>
        {"main", "builtin"} \subseteq pools /\ mpc \notin {"idle", "enter", "done"}

\* The process ends, with all its pools destroyed, unless it is interrupted,
\* and then they are gone as well.
Returns == <>(stage \in {"exit", "interrupted"} /\ pools = {})
=============================================================================
