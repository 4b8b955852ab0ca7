----------------------------- MODULE FileFilter -----------------------------
(***************************************************************************)
(* What dir_run (hc/dir.c) has done to a file that the traversal meets.    *)
(* Without a digest to search for that is fhash_calculate_file, module     *)
(* FileHash.  With one, prdir_filter_by_hash hashes the file and, if the   *)
(* digest is the one, prdir_print_file_info opens the file again to print  *)
(* its name and its size.                                                  *)
(*                                                                         *)
(* The filter takes the size from the directory entry and drops the        *)
(* message of fhash_calculate_hash; the printer drops the status of its    *)
(* open call and uses the handle all the same.  The file may not be        *)
(* readable, and may be removed while it is handled.                       *)
(***************************************************************************)
EXTENDS FileHash

CONSTANTS
  SearchHashes,  \* the digests that may be searched for (search_hash_)
  NonEmpty       \* those that are not the digest of the empty string

VARIABLES
  searchHash,    \* digest_to_compare, or NoDigest without a search
  step,          \* "filter", "hash", "print", "size", "fault" or "end"
  filterHandle,  \* TRUE while the filter or the printer has the file open
  found,         \* the value the filter has returned
  readable,      \* whether the file can be opened
  removed        \* history: the file was removed

searchVars == <<searchHash, step, filterHandle, found, readable, removed>>
filterVars == <<fileVars, searchVars>>

ASSUME FileFilterAssumption ==
  /\ NonEmpty \subseteq SearchHashes
  /\ <<>> \notin NonEmpty /\ {Zeros, NoDigest} \cap SearchHashes = {}

\* pfn_file_handler is fhash_calculate_file, or the filter and the printer:
\* then no call of fhash_calculate_file is under way.
FilterInit ==
  /\ filterHandle = FALSE /\ found = FALSE /\ removed = FALSE
  /\ \/ /\ FileInit
        /\ searchHash = NoDigest /\ step = "end" /\ readable = TRUE
     \/ /\ Ready /\ digest = <<>>  \* calculated before anything else
        /\ searchHash \in SearchHashes /\ step = "filter"
        /\ readable \in BOOLEAN
        /\ opts = [sfv |-> FALSE, verify |-> FALSE, validate |-> FALSE, wanted |-> NoDigest]
        /\ phase = "end" /\ handle = FALSE /\ errors = {} /\ hasHash = FALSE
        /\ result = TRUE /\ quiet = FALSE /\ line = "none"

UnchangedFile ==
  UNCHANGED <<opts, phase, handle, errors, hasHash, result, quiet, line>>

\* "Empty file optimization": such a file is not opened.
Skippable == digest = searchHash /\ part.size = 0

\* Mutant: the empty file is recognised by its size only.
EmptyFile_AnyDigest ==
  /\ step = "filter" /\ part.size = 0
  /\ found' = TRUE /\ step' = "print"
  /\ UNCHANGED <<fileVars, searchHash, filterHandle, readable, removed>>

EmptyFile ==
  /\ step = "filter" /\ Skippable
  /\ found' = TRUE /\ step' = "print"
  /\ UNCHANGED <<fileVars, searchHash, filterHandle, readable, removed>>

\* Mutant: the status of this open call is dropped too.
FilterOpen_DropsStatus ==
  /\ step = "filter" /\ ~Skippable
  /\ filterHandle' = readable
  /\ IF readable THEN step' = "hash" /\ UNCHANGED found
                 ELSE step' = "print" /\ found' = TRUE
  /\ UNCHANGED <<fileVars, searchHash, readable, removed>>

FilterOpen ==
  /\ step = "filter" /\ ~Skippable
  /\ filterHandle' = readable
  /\ step' = IF readable THEN "hash" ELSE "end"
  /\ UNCHANGED <<fileVars, searchHash, found, readable, removed>>

FilterHash ==
  /\ step = "hash" /\ HashStep
  /\ UnchangedFile /\ UNCHANGED searchVars

\* Close and compare; the traversal calls the printer for a file that passes.
FilterHashed ==
  /\ step = "hash" /\ opc = "returned"
  /\ filterHandle' = FALSE
  /\ found' = (digest = searchHash)
  /\ step' = IF found' THEN "print" ELSE "end"
  /\ UNCHANGED <<fileVars, searchHash, readable, removed>>

\* Open again, and ask the null handle for the size if there is none.
PrinterOpen ==
  /\ step = "print"
  /\ filterHandle' = readable
  /\ step' = IF readable THEN "size" ELSE "fault"
  /\ UNCHANGED <<fileVars, searchHash, found, readable, removed>>

\* Name and size are printed, the file is closed.
PrinterPrint ==
  /\ step = "size"
  /\ filterHandle' = FALSE /\ step' = "end"
  /\ UNCHANGED <<fileVars, searchHash, found, readable, removed>>

\* An open file can still be read when it is removed.
Remove ==
  /\ step \notin {"fault", "end"} /\ readable
  /\ readable' = FALSE /\ removed' = TRUE
  /\ UNCHANGED <<fileVars, searchHash, step, filterHandle, found>>

SearchStep ==
  \/ EmptyFile \/ FilterOpen \/ FilterHash \/ FilterHashed
  \/ PrinterOpen \/ PrinterPrint

FileHandlerStep == FileStep /\ UNCHANGED searchVars

HandlerEnded ==
  phase = "end" /\ step \in {"fault", "end"} /\ UNCHANGED filterVars

FilterNext == FileHandlerStep \/ SearchStep \/ Remove \/ HandlerEnded

FilterSpec ==
  /\ FilterInit /\ [][FilterNext]_filterVars
  /\ WF_filterVars(FileHandlerStep) /\ WF_filterVars(SearchStep)

-----------------------------------------------------------------------------
(* Properties                                                               *)

\* When what is searched for is not the digest of the empty string, a file is
\* found only if its part has the digest and could be read, although an early
\* return or an error leaves the digest of "" in the buffer; and without an
\* error on the way no file with the digest is missed.
FilterIsRight ==
  /\ found /\ searchHash \in NonEmpty => Wanted = searchHash /\ ~message
  /\ step = "end" /\ opc = "returned" /\ ~message /\ Wanted = searchHash => found

\* The printer gets a null handle, and the program faults, only for a file
\* that was removed after the filter or that is empty: the filter finds this one
\* without opening it, so that it need not be readable.  The filter is what
\* makes the dropped status harmless for all the others.
NullHandleNeeds == step = "fault" => removed \/ part.size = 0

\* What the help says of --search, for every digest: a file that is found has
\* the digest.  A file that cannot be read is found for the digest of the empty
\* string, which the failed read leaves in the buffer.
FoundMatchesAny == found => Wanted = searchHash

\* Every file is handled to its end, with or without a line, or faults.
HandlerReturns == <>(phase = "end" /\ step \in {"fault", "end"})
=============================================================================
