------------------------------ MODULE FileHash ------------------------------
(***************************************************************************)
(* fhash_calculate_file (srclib/filehash.c): open a file, read its size,   *)
(* hash the part that was asked for, compare with a digest if one was      *)
(* given, close, and print one line or none.  Every call of the operating  *)
(* system may fail.                                                        *)
(***************************************************************************)
EXTENDS HashPart

CONSTANTS
  Options,     \* what may be asked of a file: see OptionType
  NoDigest,    \* no hash_to_search_
  OtherDigest  \* a digest that none of the parts has

(***************************************************************************)
(* sfv, verify and validate are is_print_sfv_, is_print_verify_ and        *)
(* is_validate_file_by_hash_; wanted is hash_to_search_ as a digest.       *)
(* file_run sets validate exactly when there is a digest, dir_run exactly  *)
(* when verify is set.                                                     *)
(***************************************************************************)
OptionType ==
  {o \in [sfv : BOOLEAN, verify : BOOLEAN, validate : BOOLEAN,
          wanted : Seq(Nat) \cup {NoDigest, OtherDigest}] :
     o.validate = (o.wanted # NoDigest) \/ o.validate = o.verify}

ASSUME FileHashAssumption ==
  /\ Options \subseteq OptionType
  /\ {NoDigest, OtherDigest, Zeros} \cap Seq(Nat) = {}
  /\ NoDigest # OtherDigest /\ Zeros \notin {NoDigest, OtherDigest}

VARIABLES
  opts,      \* the options
  phase,     \* "open", "info", "hash", "compare", "close", "output", "end"
  handle,    \* TRUE while the file is open
  errors,    \* the KEY_ERR_ entries of the results
  hasHash,   \* whether KEY_HASH is set
  result,    \* FALSE when a digest was given and is not the file's
  quiet,     \* do_not_output_results
  line       \* what was printed

fileVars == <<partVars, opts, phase, handle, errors, hasHash, result, quiet, line>>

Search == opts.wanted # NoDigest

\* is_zero_search_hash
EmptyWanted == opts.wanted = <<>>

FileInit ==
  /\ Ready /\ digest = Zeros
  /\ opts \in Options
  /\ phase = "open" /\ handle = FALSE
  /\ errors = {} /\ hasHash = FALSE
  /\ result = TRUE /\ quiet = FALSE
  /\ line = "none"

Open ==
  /\ phase = "open"
  /\ \/ handle' = TRUE /\ phase' = "info" /\ UNCHANGED errors
     \/ /\ phase' = "output"
        /\ errors' = IF opts.sfv \/ opts.verify THEN errors
                                                ELSE errors \cup {"open"}
        /\ UNCHANGED handle
  /\ UNCHANGED <<partVars, opts, hasHash, result, quiet, line>>

\* Mutant: when the size cannot be read the file is not closed.
Info_SkipsClose ==
  /\ phase = "info"
  /\ \/ /\ result' = FALSE
        /\ errors' = errors \cup {"info"}
        /\ phase' = "output"
        /\ UNCHANGED digest
     \/ /\ digest' = IF Search THEN <<>> ELSE digest
        /\ IF part.offset >= part.size /\ part.size > 0
             THEN errors' = errors \cup {"offset"} /\ phase' = "compare"
             ELSE phase' = "hash" /\ UNCHANGED errors
        /\ UNCHANGED result
  /\ UNCHANGED <<part, opc, pos, fed, message, opts, handle, hasHash, quiet, line>>

\* The size is read; the digest becomes that of "" when there is one to
\* compare it with.  An offset behind the end is an error, except in an empty
\* file.
Info ==
  /\ phase = "info"
  /\ \/ /\ result' = FALSE
        /\ errors' = errors \cup {"info"}
        /\ phase' = "close"
        /\ UNCHANGED digest
     \/ /\ digest' = IF Search THEN <<>> ELSE digest
        /\ IF part.offset >= part.size /\ part.size > 0
             THEN errors' = errors \cup {"offset"} /\ phase' = "compare"
             ELSE phase' = "hash" /\ UNCHANGED errors
        /\ UNCHANGED result
  /\ UNCHANGED <<part, opc, pos, fed, message, opts, handle, hasHash, quiet, line>>

Hash ==
  /\ phase = "hash" /\ HashStep
  /\ UNCHANGED <<opts, phase, handle, errors, hasHash, result, quiet, line>>

Hashed ==
  /\ phase = "hash" /\ opc = "returned"
  /\ IF message
       THEN errors' = errors \cup {"hash"} /\ UNCHANGED hasHash
       ELSE hasHash' = TRUE /\ UNCHANGED errors
  /\ phase' = "compare"
  /\ UNCHANGED <<partVars, opts, handle, result, quiet, line>>

\* Mutants: a digest equal to the wanted one is enough, although it may be
\* the digest of "" the buffer was filled with; or the result is not used to
\* suppress the line.
Compare_DigestOnly ==
  /\ phase = "compare"
  /\ result' = IF Search THEN digest = opts.wanted ELSE result
  /\ quiet' = (~opts.validate /\ ~result')
  /\ phase' = "close"
  /\ UNCHANGED <<partVars, opts, handle, errors, hasHash, line>>

Compare_NeverQuiet ==
  /\ phase = "compare"
  /\ result' = IF Search THEN IF EmptyWanted THEN part.size = 0
                                             ELSE digest = opts.wanted
                         ELSE result
  /\ phase' = "close"
  /\ UNCHANGED <<partVars, opts, handle, errors, hasHash, quiet, line>>

\* Compare; a file that does not match is not printed unless it is validated.
Compare ==
  /\ phase = "compare"
  /\ result' = IF Search THEN IF EmptyWanted THEN part.size = 0
                                             ELSE digest = opts.wanted
                         ELSE result
  /\ quiet' = (~opts.validate /\ ~result')
  /\ phase' = "close"
  /\ UNCHANGED <<partVars, opts, handle, errors, hasHash, line>>

\* apr_file_close releases the handle even when it fails.
Close ==
  /\ phase = "close"
  /\ handle' = FALSE
  /\ errors' \in {errors, errors \cup {"close"}}
  /\ phase' = "output"
  /\ UNCHANGED <<partVars, opts, hasHash, result, quiet, line>>

\* The kind of line that is printed.  error does not look at KEY_ERR_HASH.
Line ==
  CASE quiet -> "none"
    [] ~quiet /\ (opts.sfv \/ opts.verify) ->
         IF hasHash THEN "checksum" ELSE "none"
    [] ~quiet /\ ~opts.sfv /\ ~opts.verify /\ errors \ {"hash"} # {} -> "error"
    [] OTHER ->
         CASE Search /\ ~opts.validate -> "found"
           [] Search /\ opts.validate -> IF result THEN "valid" ELSE "invalid"
           [] OTHER -> IF hasHash THEN "hash" ELSE "(null)"

Output ==
  /\ phase = "output"
  /\ line' = Line
  /\ phase' = "end"
  /\ UNCHANGED <<partVars, opts, handle, errors, hasHash, result, quiet>>

FileStep == Open \/ Info \/ Hash \/ Hashed \/ Compare \/ Close \/ Output

Ended == phase = "end" /\ UNCHANGED fileVars

FileNext == FileStep \/ Ended

FileSpec == FileInit /\ [][FileNext]_fileVars /\ WF_fileVars(FileStep)

-----------------------------------------------------------------------------
(* Properties                                                               *)

FileTypeOK ==
  /\ TypeOK
  /\ opts \in Options
  /\ phase \in {"open", "info", "hash", "compare", "close", "output", "end"}
  /\ handle \in BOOLEAN
  /\ errors \subseteq {"open", "info", "offset", "hash", "close"}
  /\ hasHash \in BOOLEAN /\ result \in BOOLEAN /\ quiet \in BOOLEAN
  /\ line \in {"none", "checksum", "error", "found", "valid", "invalid",
               "hash", "(null)"}

\* A digest is printed only if it is the digest of the part that was asked
\* for, read to its end: no error on the way can put another one in its place.
PrintedDigestIsTrue ==
  line \in {"hash", "checksum"} => digest = Wanted /\ "hash" \notin errors

\* A file is called valid, or found, only if its part has the digest that was
\* given, in spite of the digest of "" that is left in the buffer when the
\* part cannot be read or begins behind the end.
MatchIsTrue == line \in {"valid", "found"} => Wanted = opts.wanted /\ errors = {}

\* When nothing fails, a file is called invalid, or passed over in silence,
\* only if its part does not have the digest.
MismatchIsTrue ==
  phase = "end" /\ Search /\ errors = {} /\ ~opts.sfv /\ ~opts.verify
    /\ line \in {"invalid", "none"} => Wanted # opts.wanted

\* An error is passed over in silence only by the checksum formats, which
\* have no place for it, and in a search; otherwise only the error of a read
\* is, which leaves a line without a digest.
ErrorIsTold ==
  phase = "end" /\ errors # {} /\ line # "error" =>
    \/ opts.sfv \/ opts.verify
    \/ quiet /\ Search
    \/ errors = {"hash"} /\ line \in {"(null)", "invalid"}

(***************************************************************************)
(* The inductive invariant.  What is known of the results before the       *)
(* comparison ...                                                          *)
(***************************************************************************)
BeforeHash ==
  phase \in {"open", "info"} => opc = "ready" /\ errors = {} /\ ~hasHash

Offered == part.offset < part.size \/ part.size = 0

\* While the part is hashed, and when this has failed, the buffer holds the
\* digest of "" if there is a digest to compare with.
DuringHash ==
  phase = "hash" =>
    /\ errors = {} /\ ~hasHash /\ Offered
    /\ (opc # "returned" \/ message) /\ Search => digest = <<>>

MessageMeansFailure == message => opc = "returned" /\ part.offset < part.size

HashMeansSuccess ==
  hasHash => opc = "returned" /\ ~message /\ Offered /\ "hash" \notin errors

AtCompare ==
  phase = "compare" =>
    \/ "offset" \in errors
    \/ errors = {} /\ hasHash
    \/ errors = {"hash"} /\ message /\ (Search => digest = <<>>)

\* ... and what after it: without another error than that of a read, a result
\* that is TRUE means that the part has the digest.
AfterCompare ==
  phase \in {"close", "output", "end"} /\ errors \ {"hash", "close"} = {}
    /\ ~opts.sfv /\ ~opts.verify =>
      /\ quiet = (~opts.validate /\ ~result)
      /\ Search /\ result => Wanted = opts.wanted /\ "hash" \notin errors

NoLineYet == phase # "end" => line = "none"

\* The file is open exactly from the open call to the close call, on whatever
\* path: in particular no path ends with an open file.
OpenUntilClosed == handle <=> phase \in {"info", "hash", "compare", "close"}

FileInv ==
  /\ FileTypeOK /\ FedInOrder /\ DigestIsOfPart
  /\ BeforeHash /\ DuringHash /\ MessageMeansFailure /\ HashMeansSuccess
  /\ AtCompare /\ AfterCompare /\ NoLineYet /\ OpenUntilClosed
  /\ PrintedDigestIsTrue /\ MatchIsTrue

\* What is not printed, and why: without a search there is nothing to pass over,
\* and a result that is FALSE without an error means another digest.
SilenceInv ==
  /\ phase \in {"open", "info", "hash", "compare"} => result /\ ~quiet
  /\ quiet => Search
  /\ phase \in {"close", "output", "end"} /\ errors = {} /\ Search /\ ~result =>
       Wanted # opts.wanted
  /\ MismatchIsTrue /\ ErrorIsTold
=============================================================================
