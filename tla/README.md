# Verification of linq2hash

linq2hash is a C program with two front ends: `hc`, a command line tool that
calculates the hashes of strings and files, validates and searches files by
hash, and restores a string from its hash by brute force; and `l2h`, an
interpreter of a small query language over the same functions.  This directory
holds TLA+ models of its core, the TLC configurations that check them and the
TLAPS proofs of their main properties.  Paths below are relative to `src/src/`.

## 1. Inventory

| Component | Source | State | Operations | How it interacts |
|---|---|---|---|---|
| Brute force search | `srclib/bf.c`, `srclib/gpu.h`, `hc/gpu.cu`, `hc/*.cu`, `l2h/hashes.c` (registration) | globals `g_already_found`, `g_attempts`, `g_gpu_variant_ix`, `g_brute_force_ctx`; one context per thread | `bf_crack_hash`, `bf_brute_force`, the CPU and GPU thread functions, the odometers | the only concurrent part: the caller, CPU workers and one thread per GPU device share the globals |
| Hashing of a file part | `srclib/filehash.c` (`fhash_calculate_hash`) | position, hash context, mapping | map, update, unmap, final | called by the file handler and by the search filter |
| File handler | `srclib/filehash.c` (`fhash_calculate_file`), `hc/file.c` | handle, digests, the table of results and errors | open, stat, hash, compare, close, print | called once by `hc file`, for every file by `hc dir` |
| Directory search | `srclib/traverse.c`, `hc/dir.c` | open directory, list of subdirectories, pools | read, filter, handle, descend | calls a filter and a handler for every file |
| Tiger tree hash | `srclib/tth.c` | leaf buffer, block count, stack of subtrees | init, update, final | the `tth` entry of the hash table |
| Builtins | `hc/builtin.c`, `hc/str.c`, `hc/hash.c`, `hc/hc.c` | `builtin_pool`, `builtin_hash`, `g_pool`, `g_mode` | init, run, close, Ctrl-C handler | the commands of `hc`; the handler runs in a thread of its own |
| Command line | `hc/configuration.c`, `l2h/configuration.c` | argument tables | parse, normalise numbers, choose the command | calls the builtins |
| Query language | `l2h/l2h.lex`, `l2h/l2h.y`, `l2h/frontend.c`, `l2h/backend.c`, `l2h/treeutil.c`, `l2h/processor.c`, `l2h/l2h.c` | scanner, pools, identifier tables, tree, instruction list | parse, build tree, emit instructions, run them | parser callbacks call the front end, which calls back when a query is complete |
| Conversions | `srclib/lib.c`, `srclib/output.c`, `srclib/encoding.c`, `srclib/b64.c` | none | size, time and hex formatting, character sets | used by everything |
| Hash algorithms and vendored code | `libtomcrypt`, `libtommath`, `pcre`, other `srclib/*.c`, `hc/*.cu` arithmetic | digest contexts | init, update, final | reached through the hash table |

What makes each part correct, and where it is hard:

* **Brute force.** A string of the requested lengths with the wanted digest is
  found if there is one; nothing else is returned; no thread outlives the call;
  the second call of a process is not disturbed by what the first has left.
  Hard: the words are divided among workers by counting turns, so every worker
  must count alike; the found flag is polled before a word and raised after it;
  `g_attempts +=` is not atomic in every build; device threads share a slot
  index without a lock; a device gives up what is in an incomplete batch.
* **File part.** Exactly the bytes of the requested part are fed to the hash,
  each once and in order, whatever the page size; nothing is mapped beyond the
  end; an early return leaves the caller's digest as it was.
* **File handler.** A file is reported valid, or found, only if the part that
  was asked for has the digest; an error of any step leaves a trace.
* **Directory search.** Every regular file that passes the filters is handled
  once, the traversal ends, paths live as long as they are used.
* **Tree hash.** The result is the root of the Merkle tree over 1024-byte
  leaves however the input is cut into chunks.
* **Builtins.** The pool and the hash definition exist while an action runs, and
  Ctrl-C, whose handler runs in a thread of its own, ends the process at any time.
  Hard: the table of hashes is a global that points into the pool of the builtin
  that ran last.
* **Query language.** A query calculates what its tree says whatever ran before;
  an error in a text is reported for it; pools are not used after they are
  destroyed, also after a syntax error.  Hard: the tree is walked without
  recursion by a test on the node left last; nodes take back instructions that
  others have emitted; `from` uses positions in one list to index another; the
  scanner reads a token ahead of the query whose pool it copies into.

PROJECT.json lists the hazards line by line, each with the properties that
would catch it.

## 2. Plan

Written, in this order, the most important behaviour first:

1. `Words`, `PasswordSearch`, `BruteForce`: the threads of a brute force
   search, the abstract specification of what it promises, and the refinement;
   `Dictionary` and `Odometer`: the characters and the loops that give the words
   `BruteForce` takes by number; `CrackHash`: two calls over the same globals.
2. `BruteForceProofs`, the threads and what they count; `OdometerProofs`, the loops
   and the memory of the dictionary.
3. `HashPart`, then `FileHash`, then `FileFilter`, which composes it with the
   search; `FileProofs`, the proofs of all three.
4. `TreeHash` with `TreeHashProofs`, `Traverse` with `TraverseProofs`; `Iteration`,
   induction and recursion for the former and for `OdometerProofs`.
5. `Builtin`, and `HashMode`, which composes it with `CrackHash`, the command
   line and the Ctrl-C handler; `HashModeProofs`.
6. `QueryTree`, `Backend`, `Processor`, and `L2h`, which composes them with
   `Builtin` and the parser; `L2hProofs`.

Still worth doing:

7. `DirSearch`: `Traverse` with `FileFilter` for each file.  Each file is handled
   by a call that shares nothing with the next but the pool, which `Traverse`
   models, so that the two are checked apart.
8. An abstract directory search that handles a set of files in any order,
   implemented by `Traverse`.
9. A proof that every tree the constructors of `QueryTree` make of trees that are
   `Grammatical` is `Grammatical` again; now TLC evaluates it for the trees of the run.

## 3. The modules and the code

**Words** numbers the strings over the dictionary: shorter ones first, strings
of one length in dictionary order, the empty one is word 0.

**Dictionary** is `prbf_prepare_dictionary` with `prbf_str_replace`: one action for
the decision on a class, the start of a replacement, each occurrence that is
replaced, the rest that is copied, and each character that is kept or dropped.
A string is a sequence of characters, because what is at stake is which
characters come out.  **Odometer** EXTENDS it with what is done with the result:
the pair of nested loops of `prbf_make_cpu_attempt` (with
`prbf_make_cpu_attempt_wide`) and `prbf_make_gpu_attempt` with their buffer,
position by position, and the table of indexes of `prbf_create_dict_hash`.  It
shows that the loops walk through the words in the order of their numbers, so
that `BruteForce` may count.  `WordIn` reads the number of a word from the buffer.

**BruteForce** is one call of `bf_brute_force`.  `mpc` is the place of the
calling thread, `wpc[t]` that of CPU worker `t` (`prbf_cpu_thread_func`), `gpc[d]`
that of the thread of device `d` (`prbf_gpu_thread_func`, `prbf_compare_on_gpu`).
`alreadyFound`, `attempts` and `variantIx` are the globals.  A step makes at most
one access to a global: `CpuFlush` loads `g_attempts` and `CpuStore` writes it
back, unless `AtomicFlush` says that the build is interlocked; `CpuStopped` and
`CpuAttempt` are the poll of the flag, `CpuFound` the write, with the hash
calculated in between.  `GpuFill`, `GpuNext`, `GpuFull` and `GpuRun` are the
filling of a slot, the increment of the shared index, its test and the kernel.
A kernel gets words of two characters less than the longest, or one, and
appends the missing ones itself (`KernelWords`); `factor` and `comparisons` are
the numbers `l2h/hashes.c` registers for a hash.  **PasswordSearch** is what a
call promises: the answer is right if no device takes part, and is a wanted
string or NULL if one does; `Search` in `BruteForce` maps `mpc` and `pass` to it.

**CrackHash** is `bf_crack_hash`: the empty string, the timing probe, the call
that was asked for, the report.  It EXTENDS `BruteForce` and runs its steps twice.
**Builtin** is `hc/builtin.c`, which both programs run: the pools, of which one
that is destroyed takes those below it along, and the table of hashes, a global
that is known by the pool it was built in.  **HashMode** composes the two into the
hash mode of `hc` from `main` to its end; `Threads` and `JobOf` are what becomes of
the options, and `CtrlC` is the handler, at any moment.  Only the Visual C++ build
installs the handler; the run leaves it in for the load-and-store flushes of the
other builds as well, which allows more than either.

**HashPart** is `fhash_calculate_hash`.  A byte is its position in the file and a
digest is the sequence of bytes that were hashed.  `Map` is one round of the loop
up to the update of the hash, `Unmap` the rest of it, `Fail` a mapping that fails.
**FileHash** EXTENDS it with `fhash_calculate_file`, one action for each stage
(`open`, `info`, `hash`, `compare`, `close`, `output`); `errors` and `hasHash`
are the table of results, `line` is the kind of line that is printed.
**FileFilter** EXTENDS it with what `dir_run` does to a file: `FileHash`, or, for a
search, `prdir_filter_by_hash` (`EmptyFile`, `FilterOpen`, `FilterHash`,
`FilterHashed`) and then `prdir_print_file_info` (`PrinterOpen`, `PrinterPrint`).
`Remove` is another process that removes the file meanwhile.  The invariants of
the three are parts of them, so that TLC can check each on the runs.

**Traverse** is `traverse_directory` as `dir_run` starts it.  `calls` is the
stack of its calls, `live` says what is allocated in which pool, `Read`,
`ReadIncomplete` and `ReadFails` are the outcomes of `apr_dir_read`; `next` is the
index of the loop over the subdirectories.  A round of the loop is one action, so
that the clearing of the pool, the read, the filter, the list and the handler are
never apart.  `TreeAssumption` says that directories form a tree: each entry is
in one directory, and none is below itself.

**TreeHash** is `srclib/tth.c`.  `Update`, `Feed`, `Merge` and `Store` are
`rhash_tth_update` with `rhash_tth_process_block`, `Final`, `Scan` and `Climb` are
`rhash_tth_final`.  Tiger is an injective function: a hash is a tree of runs of
bytes.  The reference, `Row[k][m]`, is the *k*-th row from below of the Merkle
tree over the first *m* bytes, made from the row beneath it by joining neighbours;
it knows nothing of a stack.  `Pow2` and `Shifted` are the shifts of `block_count`.
`TreeHashAssumption` bounds the message by what the 64 levels of the stack hold.

**QueryTree** has one constructor for each function of `l2h/frontend.c` that makes
nodes.  A tree is the sequence of its nodes in the order in which the parser
makes a parent behind its children; `WellNumbered` says so of any sequence.
`Rules` is the grammar read as what each kind of node may have below it, where `Sort`
tells apart the uses that `l2h.y` makes of one type of node (an `enum` is a list of
clauses, of orderings or of expressions); `Grammatical` says that a tree obeys it.
`Registers` and `Uses` are the identifiers that the grammar's actions record and
ask for.  **Backend** is `tree_postorder` (`Visit`, `Descend`) and `bend_emit`:
`Pops` and `Pushes` are what each of the `prbend_create` functions takes off the
list and appends.  **Processor** is `proc_run`; one action for each processor of an
instruction, and one for each case of the scan of `prproc_on_select`.  `elts` keeps
what was popped, as the array does, because `from` may read there.  A step that C
leaves undefined sets `fault` and ends the behaviour: reading a table whose pool is
gone is a choice between any result and a fault.  **L2h** is `main_on_string` and
`main_on_file` with the parser: a text is a sequence of queries, comments and
tokens that begin neither; `Reduce` makes the next node of a query, and
`QueryGoesWrong` is a syntax error after any of them.

The operators whose names have a suffix, such as `Unmap_OnePage`, stand just
before the action they vary and are used by no specification: each is a plausible
mistake, and the properties are known to notice it.

## 4. What the runs show

| Run | Instance | Shows |
|---|---|---|
| `brute_force` | 2 characters, lengths to 3 (and 5, which the limit refuses) with 2 and 3 workers, lengths to 4 with one worker and one device, flush after 2 words, batches of 2, load-and-store flushes | no word is tried twice or, without a device, missed, attempts are never overcounted and exact where the code can count them, and the call implements `PasswordSearch` |
| `hash_mode` | 1 character, lengths to 6, no, one and two devices with each kind of kernel, batches of 2, 2 processors, threads and lengths given, missing or out of range, an unknown hash, probe or none, Ctrl-C at any step | the second call is undisturbed by the first; answers are right; one device stays inside its batch and drops less than one; no thread outlives its pool; the process ends with its pools destroyed |
| `candidates` | texts of up to 3 of the characters `0 - 9 a` with CPU words of 3 and GPU words of 3 to 4 characters; texts of 4 and longer ones with several classes, with words of 2; two characters with GPU words of 3 to 5 | the right characters, each once, in memory that fits; every word over them once and in order, with NULs behind it; the loops end |
| `files` | files to 3 bytes in pages of 2, every part, every set of options, every digest of a part, every failure, a file that cannot be read or is removed at any step | exactly the part is hashed, no mapping leaves the file, what is printed is true, every path closes the file; a search finds the right files; a null handle needs a file that is removed or empty |
| `tree_hash` | 30 bytes in blocks of 2, chunks to 5 | the Merkle root, however the message is cut; the bits of the block count say which levels are in use |
| `traverse` | 4 directories on 3 levels, 5 files, 2 failures | each file once, paths outlive their use |
| `l2h` | some 280 queries, among them those of `_tst/FrontendTest.cpp` and every kind of node, alone or behind another one, with comments, junk tokens, syntax errors, several files, and files that cannot be opened | the tree is walked in order; a plain query calculates what it says, whatever ran before; the only ways to a crash; the life of the pools; errors are counted for their own query and reported |

The bounds are chosen so that the interesting cases happen: more words than one
round of the workers and than one flush, a word for every worker and for none,
batches that are full and one that is not; parts that begin, end and lie at,
before and behind the end of a page and of the file; two levels of subdirectories,
so that a pool is lent twice; up to fifteen leaves, so that a level is skipped both when
merging and when climbing; queries with a second source, a nested query, a join
and a continuation, each kind of source with each kind of selection.

A *plain* query has one source, which is its only string, and one `select`, from
that source: for these the properties say exactly what is calculated.  For all
others `FaultNeeds` says what each kind of crash needs.  Two kinds never happen in
the run: a node that takes back more than there is, and a `from` that looks for
its values outside the stack of sources.  Not in the run are texts longer than the
initial 32 elements of the processor's stack: apr arrays grow by copying only
what is in use, and `from` behind that could read what was never written.

Five runs are expected to find a violation.  Each states what a doc, a comment
or a test of the repository says and the code does not do:

| Run | What is said | What the code does |
|---|---|---|
| `gpu_stops_cpu` | `_tst/BruteForceTest.cpp:71` expects the string | when the devices end, the CPU workers are stopped although they have words left (`srclib/bf.c:286`) |
| `gpu_too_long` | `--max` is the maximum length | a kernel that appends two characters to words one short of it exceeds it (`l2h/hashes.c:545`) |
| `search_empty` | `--search` finds files that match the hash | a file that cannot be read is found for the hash of the empty string (`hc/dir.c:200`) |
| `no_error_on_find` | errors are shown unless `--noerroronfind` is given | they are never shown (`hc/dir.c:46`) |
| `restore_crashes` | `_tst/FrontendTest.cpp:110` has a query that restores a string for a good one | it crashes when it is run: the scan of `select` reads through an iterator over no properties (`l2h/processor.c:410`) |

Two more disagreements of this kind are seen in the models without a run of
their own.  `AnswerIsPreimage` asks for a wanted digest and not for a length,
because a device starts at three characters whatever `--min` is
(`srclib/bf.c:378`), so that shorter strings than asked for may be returned.
`DigestIsOfPart` makes an exception of a part behind the end, for which
`fhash_calculate_hash` returns NULL without a digest although
`srclib/filehash.h:72` says that NULL means success (`srclib/filehash.c:266`).

**Fairness.**  Every thread of `BruteForce` that can run is scheduled (WF for the
caller, each worker and each device): none waits for anything but the end of a
thread.  Nobody has to press Ctrl-C.  A sequential function goes on once it has
been called (WF of its steps); nothing is assumed about the system calls but that
they return, and nobody has to remove a file.  `Terminates` of `Traverse` further
rests on `MaxFailures`: a read that fails for ever is retried for ever.  In
`TreeHash` only the steps inside a call are fair, as the caller may stop feeding.
`L2h` is one thread, WF of its next step.

**Deadlock** is checked in every run but those of `HashMode` and `L2h`, two programs
that end (or crash) for good: `Returns` and `Finishes` say that they do so only
there.  Where another function ends, its model stutters.

## 5. What is proved

For all values of the constants, by TLAPS:

* `BruteForceProofs`, for every dictionary, length limit, set of calls, number of
  workers and devices and size of a batch that satisfy `BruteForceAssumption`:
  `IInv` is an invariant, and with it `TypeOK`, `NothingMissed`,
  `AnswerIsPreimage`, `FlagHasWinner`, `Quiescent` and `EachWordOnce`; and every
  step of the threads is a step of `PasswordSearch` or leaves it unchanged
  (`SearchIsImplemented`), with or without a GPU.  What is counted follows from
  further invariants on top of `IInv`: `SlotInBounds`, `OnlyTailLost` and
  `AttemptsCounted`.
* `OdometerProofs`, for every text of `--dict`, all templates and expansions, lengths
  and numbers of threads: `OdometerInv`, `ProbesInOrder` and `ReplacementFits`, and with
  `TemplatesAssumption`, that the templates keep apart from one another and from the
  expansions, `CharsAreMeant`.
* `HashModeProofs`, for every set of command lines: `HashInv`, which holds the
  invariants of one call across both calls of the process, and `AnswersTheJob`,
  `ThreadsInPool` and `ReportsOwnAttempts`.
* `FileProofs`, for every size of files and pages, every set of options and every
  digest: `DigestIsOfPart` and `MapsInside` of `HashPart`; `FileInv`, `FileTypeOK`,
  `PrintedDigestIsTrue`, `MatchIsTrue`, `MismatchIsTrue` and `ErrorIsTold` of
  `FileHash`; `FilterIsRight` and `NullHandleNeeds` of `FileFilter`, and that what
  holds of a call of the handler holds of those a directory search makes
  (`HandlerPrintsRight`).
* `TraverseProofs`, for every tree of directories, every set of options and any
  number of failures: `PathsInv`, `PlacesInv`, `OnlyAskedHandled` and `HandledOnce`.
* `TreeHashProofs`, for every size of a leaf, depth of the stack and message that
  fits it, however it is cut: `StackInv` and `RootIsMerkle`.
* `L2hProofs`, for every set of command lines whose trees obey the grammar
  (`ProgramsAssumption`: `WellNumbered` and `Grammatical`): `VisitsInOrder`,
  `ErrorsAreReported`, `NamesPerQuery`, `TakesBackOwn`, `FaultNeeds`,
  `PlainIsCalculated`, and `PoolsAndTables`, its last part as long as no query comes
  upon a hash that there is not (`DefinesKnown`).  `HashNamesAssumption` says that no
  hash has an empty name, `NoValueAssumption` that NULL is not a string.
* `Iteration`: induction over the natural numbers, division with remainder, and that
  a function that is given by its first value and a step exists and satisfies its
  definition.

**The argument for the search.**  None of the properties is inductive: that a
call which returns NULL has missed nothing depends on what every worker has
tried, and on why it stopped.  `IInv` ties the private state of a worker to the
number of its word: its copy of `work_thread_` is the turn of that word, so the
words it has tried are those below the number whose turn is its own.  Since the
turns of two workers are different remainders of the same division, no word is
tried twice; since every remainder belongs to a worker, none is left out when all
have run to the end.  A worker that stops early has seen the flag; `IInv` says
who has raised it (a thread that holds a string, or the caller after all devices
have been joined), and that the caller picks up such a string while it joins.

**The argument for the counts.**  One device is alone with the shared index:
`SlotInv` says that between calls the index is inside a batch, wherever the last
call has left it, and that during a call it is the slot the device has just filled.
`TailInv` says where the variants are: each one up to the current is in a slot that
is filled or was given to a kernel, so that a device that ends leaves behind at most
what the slots hold, which is less than a batch.  For the attempts the invariant is
the existence of a set of words (`TallyInv`): those of the workers that were joined,
and of every other all but as many as it has still to add.  `g_attempts` is at most
its size, as a lost update loses words and never adds any, and equal to it when one
worker runs or all updates are interlocked.

**The argument for the loops.**  `LoopOK` says which word comes next wherever the
loops are: with *p* the number of what stands in the buffer up to the text index, and
only first characters to the right of it, it is the one behind the last word that
begins with *p* (`ComingAt`, `LastFrom`).  A carry leaves it as it is, because the last
word that begins with *p* is the last that begins with *p* and the last character
(`ComingAfterCarry`); what the inner loop writes is this very word, and the next one
comes (`ComingAfterWrite`), whether it rotates or stays, as it may stay only when
nothing is to the right or the dictionary has one character; and the end of a length
is the beginning of the next (`ComingAtEnd`).  A loop that skips NULs does so for
exactly the words that are too short, because the NULs stand in front
(`WordOfLength`).  For the memory, `DictInv` says that what was allocated is what is
written and what the rest will take (`Room`), and the count is a recursion over the
text that is left (`Counts`).

**The argument for the hash mode.**  `CallInv` is stated so that a call that begins
on the globals of the last one satisfies it (`NewCallInv`): `bf_brute_force` clears
the flag, `bf_crack_hash` the attempts, and nobody the index, which is still 0 because
the probe runs no device.  `PhaseOK` says
which of the two calls is under way, and that the report follows the second;
`StageOK` which pools the process has at each stage.  A thread runs only inside a
call, a call only in the stage `crack`, and there the pools exist.

**The argument for a file part.**  The loop invariant is `FedInOrder`: what the
context has been fed is the part from its beginning to the position.  It needs
that a round appends one run of bytes to the next (`BytesConcat`) and that a page
is never empty while the loop goes on (`ChunkBounds`).  `FileInv` adds what the
table of results means at each stage: an entry for the digest means that the
call ended without a message, and a message means that the buffer still holds
the digest of `""` the function has put there, which is why `MatchIsTrue` needs
that a part that was read to its end from inside the file is not empty.  It also
says at which stages the file is open (`OpenUntilClosed`), hence that none of
the paths leaves it open at the end.  `SilenceInv` goes on with what is *not*
printed: `quiet`, a line that is kept back, is set by a search alone, and a result
that is FALSE without an error means that the digests were compared and differ.

**The argument for a search in a directory.**  The filter does not look at the
message, so the invariant (`BufferOK`) ties the buffer to it: until the part has
been read the buffer holds the digest of `""`, and with a message it still does.
Every digest but that one is therefore found only for a part that was read.
`SearchOK` adds that the filter passes a file only when it has opened it, unless
the file is empty, and that a file can stop being readable only by its removal.

**The argument for the traversal.**  Files are counted by their *places*: the points
from which the traversal will still come upon a file, which are the directory that
is being read and has not given the entry, the subdirectories that wait in a list,
and those that are yet to be found.  As directories form a tree, the places of a
file shrink by one when it is handled and never grow, unless a failed read leaves
the last entry in place (`PlacesInv`); at the end there are none.  The paths need
that the calls on the stack are for directories each of which is below the last
(`StackOK`), so that the pool which a call clears holds nothing that a call above
or a list still points to.

**The argument for the tree hash.**  The bits of `block_count` are the state: where
bit *k* is set, level *k* of the stack holds the node of row *k* to the left of what
is missing (`StackOK`).  A leaf that is merged climbs over exactly the levels whose
bits the increment clears (`MergeOK`), joining neighbours of a row into the node
above them; the last leaf, in `Final`, does the same with the levels that are in
use, and a level that is not in use is one whose last node has no neighbour and
goes up unchanged (`FinalOK`).  It rests on two facts of the reference, that a node
over full leaves does not depend on what follows and that the rightmost node of a row
is that of the row above unless it has a left neighbour, both by induction over the
rows.

**The argument for recursive functions.**  TLAPS cannot instantiate the induction
theorems of its library, whose parameter is a predicate.  `Iteration` takes the
one about sets instead, that a set of numbers has a least element, and proves by
least counterexamples that partial solutions of a recursion agree, hence that the
recursion has a solution.  `TreeHashProofs` instantiates it for `Pow2` and `Row`,
`OdometerProofs` for the counting loop and the numbers of the words, and both use
the same principle (`NoLeastException`) for their own inductions.

**The argument for the walk.**  `tree_postorder` knows of its progress only a
stack and the node it left last.  `WalkOK` says what the stack holds when the
first *v* nodes have been handed over: each node that waits above another is its
right child or ends where the subtree above begins (`Waits`), and the top is
either untouched, with *v* just in front of its subtree (`Fresh`), or has just
lost its last child, which is then node *v* (`ChildrenDone`).  In the first case
the node left last is outside the subtree, which is why the test cannot mistake
it for a child; in the second it is the right child, or the left one when there
is no other.  Either way the node that is handed over is number *v* + 1
(`VisitOK`), and pushing the children, right below left, keeps the invariant
(`DescendOK`).

**The argument for the reports.**  The count is compared with zero and never
reset, so `ErrorInv` says that it is zero exactly as long as no text was wrong,
and that a text about to be opened is not yet wrong.

**The argument for names and pools.**  `IdsInv` says that the identifiers of a query
are those its reduced nodes have registered, so that a syntax error cannot leave any
for the next query.  `PoolInv` gives the pools of each stage, with that of the
builtin, which is open only inside an instruction.  The table of hashes is the
query's own until it first calculates something (`TableOK`); from then on it is that
of the builtin that ran last, and the pool of that one is gone.

**The argument for the list.**  A node takes instructions back by their number, so
what matters is what is at the end of the list.  `ListInv` says, by `Listed`, of the
list after *v* nodes: the instructions are in the order of their nodes and say what
these do (`Ordered`, `Says`), those of a `from` look for their values two and three
places in front of themselves, and a type is there only until its declaration has
taken it; the last instruction is that of the last node when that is a type or a
name (`Ends`); there are as many as the next node may take (`Roomy`); and nothing the
processor uses is lost but to a user type in the wrong place (`Complete`).  The
grammar comes in through the shapes of the nodes: a declaration has its type right in
front, a property its name, a unary expression at least one node.  `NextListed` does
a step for any node but the first two, which begin with an empty list (`NextList`).

**The argument for a run.**  `HasProgram` is what `ListInv` gives when the walk is
over, and a run never changes it.  On top of it are four invariants, each for
narrower queries.  `DepthOK`, for all: the array of sources is never longer than the
instructions that were run, which is why the values a `from` looks for, by their
positions in the *other* list, are inside it or in the slot `Element` reads as
nothing.  `TableKept`, for a query with one `select` and no string but that of its
first `from`: no property lies below a source that is calculated, so that the scan of
the `select`, which goes downwards, has made all its look ups when the first
calculation takes the table away.  `BaseOK`, for a query whose only `from` reads a string: what the
first three instructions put at the bottom of the stack (`Foot`) stays there, and
nothing above it lacks a value.  `PlainOK`, for a plain query: what stands above is
calls of properties of its variable, so the scan leaves the lowest known hash in `props`, which is the one the query names first (`CallsOK`,
`PropsFrom`), and at the bottom calculates what `Meaning` says (`CalcsOK`).
`QueryInv` is the four together; `CauseInv` keeps the reasons of a crash behind it,
as nothing happens after a fault (`FaultStops`), and `JunkInv` those of the parser's
dead pool.

**What the proofs have corrected.**  `FaultNeeds` once said that the table is only gone
with a second `select` or a string that no `from` reads.  The attempt to prove it showed
two more ways, which the run has had queries for since then: the string of a second
`from` (`LooseStrings` counts all but that of the first), and a user type outside the
first `from` (`StrayUsers`), which takes back the instructions of others.

**The argument for the characters.**  `MeantIn(s, C)` is what a text stands for when only
the classes in *C* are expanded.  A step of `prbf_str_replace` exchanges one template
for its expansion; because the middle of a template is in no expansion, and its ends
do not match the ends of another, this changes neither where the other templates occur
nor what is covered, so that `MeantIn` is the same before and after (`MeaningInv`).
With no class left each character stands for itself, which is what the last loop keeps.

**Only model-checked.**  Liveness under fairness, which is out of the prover's reach
(`Terminates`, `Returns`, `Finishes` and their like).  That the trees the constructors
make obey the grammar, which TLC evaluates for those of the run.  The runs that expect
a violation.  Nothing is assumed about what TLC does not evaluate: every assumption on
the constants is checked on the instance of a run.

## 6. What is not modelled

* In the search: the estimate of the remaining time and everything that is only
  printed; the wide strings of the NTLM search, whose loop has the same control;
  failures of CUDA, on which `hc/gpu.cu` exits; words longer than the slots of a
  GPU batch; what threads still do between the destruction of the pools by the
  Ctrl-C handler and the end of the process.
* In files and directories: a file that changes while it is hashed; matching of
  names against patterns; the trimming of quotes.
* In `l2h`: the tables that flex and bison generate, the drawing of the tree with
  its labels, the inorder and preorder walks, which nothing calls, and the matching
  of regular expressions, which only tests call; the growth of arrays beyond their
  first 32 elements.
* The choice of one of `hc`'s four modes by its tables of options, which is done
  by argtable, and the string mode, one call of a hash function.
* Conversions and formatting (`srclib/lib.c`, `srclib/output.c`,
  `srclib/encoding.c`, `srclib/b64.c`): pure functions, floating point in part,
  with unit tests of known values.
* The hash algorithms, the installers and the generator of the documentation:
  their correctness is a matter of test vectors, or none of the program's logic.
* Vendored code (pcre2, libtommath, libtomcrypt, argtable3, gtest), which is nearly
  all of the repository's 177 thousand lines; the program's own logic is the few
  thousand lines of section 1.
