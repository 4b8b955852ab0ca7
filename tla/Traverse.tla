------------------------------ MODULE Traverse ------------------------------
(***************************************************************************)
(* traverse_directory (srclib/traverse.c), started by dir_run (hc/dir.c):  *)
(* read a directory, handle its files as they come, remember its           *)
(* subdirectories, close it, and descend.  Reading, opening and closing    *)
(* may fail; entries come in any order.                                    *)
(*                                                                         *)
(* Memory comes from pools.  A call allocates from its caller's pool and   *)
(* from an iteration pool of its own, which it clears before every entry   *)
(* and every subdirectory and lends to the calls it makes.  Pool 0 is the  *)
(* pool of the program, pool d the iteration pool of the call at depth d;  *)
(* live[k] holds the paths that are allocated in pool k.                   *)
(***************************************************************************)
EXTENDS Naturals, Sequences, FiniteSets, SequencesExt

CONSTANTS
  Root,           \* the directory the command line names
  Dirs, Files,    \* everything below it, and it
  Entries,        \* what is in each directory, but "." and ".."
  Include,        \* files whose names match the include pattern, or None
  Exclude,        \* files whose names match the exclude pattern, or None
  None,
  MaxFailures     \* bound on the failures of the operating system

\* What is at and below x: the smallest set that has x and what is in each of
\* its directories.
Closed(S) == \A d \in S \cap Dirs : Entries[d] \subseteq S
Under ==
  [x \in Dirs \cup Files |->
    {y \in Dirs \cup Files :
       \A S \in SUBSET (Dirs \cup Files) : x \in S /\ Closed(S) => y \in S}]

\* An entry of every directory that leads nowhere, as do "..", links and the like.
Dot == "."

ASSUME TraverseAssumption ==
  /\ Root \in Dirs /\ Dirs \cap Files = {} /\ IsFiniteSet(Dirs)
  /\ Entries \in [Dirs -> SUBSET (Dirs \cup Files)]
  /\ Dot \notin Dirs \cup Files
  /\ Include \subseteq Files \/ Include = None
  /\ Exclude \subseteq Files \/ Exclude = None
  /\ None \notin Dirs \cup Files
  /\ MaxFailures \in Nat

\* A file system is a tree of names: each has one place, and no directory is
\* inside itself.  Links are entries that are neither a file nor a directory.
ASSUME TreeAssumption ==
  /\ \A c, d \in Dirs : c # d => Entries[c] \cap Entries[d] = {}
  /\ \A d \in Dirs : \A e \in Entries[d] : d \notin Under[e]

VARIABLES
  recursive,      \* is_scan_dir_recursively
  noErrorOnFind,  \* no_error_on_find_, the option --noerroronfind
  calls,          \* the calls of traverse_directory that have not returned
  live,           \* what is allocated in each pool
  handled,        \* history: how often each file was handled
  failures,       \* history: how many operations have failed, of each kind
  told            \* the errors that were printed, of each kind

vars == <<recursive, noErrorOnFind, calls, live, handled, failures, told>>

Kinds == {"open", "read", "merge", "close", "incomplete"}
MaxDepth == Cardinality(Dirs)

depth == Len(calls)
Top == calls[depth]
Failed ==
  failures["open"] + failures["read"] + failures["merge"] + failures["close"]
    + failures["incomplete"]

\* A call for directory dir: unread are the entries to come, info is the last
\* one that was read, subdirs are those to descend into, next the index of the
\* one that comes next.
Call(dir) ==
  [dir |-> dir, phase |-> "open", unread |-> {}, info |-> None,
   subdirs |-> <<>>, next |-> 1]

SetTop(c) == calls' = [calls EXCEPT ![depth] = c]
Fail(kinds) ==
  /\ failures' = [k \in Kinds |-> failures[k] + IF k \in kinds THEN 1 ELSE 0]
  /\ Failed' <= MaxFailures
Tell(kind) == told' = told \cup {kind}

\* is_print_error_on_find_: dir_run leaves it 0 whatever the option is.
PrintErrorOnFind == FALSE

TellIfAsked(kind) == IF PrintErrorOnFind THEN Tell(kind) ELSE UNCHANGED told

Init ==
  /\ recursive \in BOOLEAN /\ noErrorOnFind \in BOOLEAN
  /\ calls = <<Call(Root)>>
  /\ live = [k \in 0 .. MaxDepth |-> {}]
  /\ handled = [f \in Files |-> 0]
  /\ failures = [k \in Kinds |-> 0]
  /\ told = {}

\* apr_dir_open; "." and ".." are entries too.
Open ==
  /\ calls # <<>> /\ Top.phase = "open"
  /\ \/ /\ SetTop([Top EXCEPT !.phase = "read",
                              !.unread = Entries[Top.dir] \cup {Dot}])
        /\ UNCHANGED <<failures, told>>
     \/ /\ Fail({"open"}) /\ TellIfAsked("open")
        /\ calls' = Front(calls)
  /\ UNCHANGED <<recursive, noErrorOnFind, live, handled>>

\* traverse_filter_by_name: without an include pattern every name passes.
Passes(f) == (Include = None \/ f \in Include) /\ (Exclude = None \/ f \notin Exclude)

Reading == calls # <<>> /\ Top.phase = "read"
ClearIterPool == [live EXCEPT ![depth] = {}]

\* Mutant: the path of a subdirectory is put in the iteration pool.
Remember_IterPool(dir, c) ==
  /\ SetTop([c EXCEPT !.subdirs = Append(@, dir)])
  /\ live' = [ClearIterPool EXCEPT ![depth] = @ \cup {dir}]

\* Put the path of a subdirectory in the caller's pool, and in the list.
Remember(dir, c) ==
  /\ SetTop([c EXCEPT !.subdirs = Append(@, dir)])
  /\ live' = [ClearIterPool EXCEPT ![depth - 1] = @ \cup {dir}]

\* The last entry that was read is a subdirectory.  The status of the read,
\* which has had the failures of the set failed, is overwritten.
EnterSubdir(c, failed) ==
  /\ c.info \in Dirs /\ recursive
  /\ \/ Remember(c.info, c) /\ Fail(failed) /\ UNCHANGED told
     \/ /\ Fail(failed \cup {"merge"}) /\ TellIfAsked("merge")
        /\ SetTop(c) /\ live' = ClearIterPool
  /\ UNCHANGED handled

\* Mutant: a file is handled before the filter is asked.
EnterFile_NoFilter(c) ==
  /\ c.info \in Files
  /\ \/ /\ handled' = [handled EXCEPT ![c.info] = @ + 1]
        /\ UNCHANGED <<failures, told>>
     \/ Fail({"merge"}) /\ TellIfAsked("merge") /\ UNCHANGED handled
  /\ SetTop(c) /\ live' = ClearIterPool

\* A regular file that passes the filter is handled.
EnterFile(c) ==
  /\ c.info \in Files
  /\ IF Passes(c.info)
       THEN \/ /\ handled' = [handled EXCEPT ![c.info] = @ + 1]
               /\ UNCHANGED <<failures, told>>
            \/ Fail({"merge"}) /\ TellIfAsked("merge") /\ UNCHANGED handled
       ELSE UNCHANGED <<handled, failures, told>>
  /\ SetTop(c) /\ live' = ClearIterPool

\* Anything else is passed over.
PassOver(c, failed) ==
  /\ ~(c.info \in Dirs /\ recursive)
  /\ SetTop(c) /\ live' = ClearIterPool
  /\ Fail(failed)
  /\ UNCHANGED handled

\* The call with entry e taken out and in info.
WithEntry(e) == [Top EXCEPT !.unread = @ \ {e}, !.info = e]

Read ==
  /\ Reading
  /\ \E e \in Top.unread :
       \/ EnterSubdir(WithEntry(e), {})
       \/ EnterFile(WithEntry(e))
       \/ e \notin Files /\ PassOver(WithEntry(e), {}) /\ UNCHANGED told
  /\ UNCHANGED <<recursive, noErrorOnFind>>

\* An entry is read without all that was asked for: a subdirectory is entered
\* all the same, a file is left out.
ReadIncomplete ==
  /\ Reading
  /\ \E e \in Top.unread :
       \/ EnterSubdir(WithEntry(e), {"incomplete"})
       \/ PassOver(WithEntry(e), {"incomplete"}) /\ UNCHANGED told
  /\ UNCHANGED <<recursive, noErrorOnFind>>

\* apr_dir_read fails: info is as the last read has left it.
ReadFails ==
  /\ Reading
  /\ \/ EnterSubdir(Top, {"read"})
     \/ /\ PassOver(Top, {"read"})
        /\ IF Top.info = None THEN TellIfAsked("read") ELSE UNCHANGED told
  /\ UNCHANGED <<recursive, noErrorOnFind>>

\* Mutant: the end of the directory does not leave the loop.
CloseDir_ReadsOn ==
  /\ Reading /\ Top.unread = {}
  /\ live' = ClearIterPool
  /\ UNCHANGED <<recursive, noErrorOnFind, calls, handled, failures, told>>

\* No more entries: close the directory; this error is always printed.
CloseDir ==
  /\ Reading /\ Top.unread = {}
  /\ SetTop([Top EXCEPT !.phase = "descend"])
  /\ live' = ClearIterPool
  /\ \/ UNCHANGED <<failures, told>>
     \/ Fail({"close"}) /\ Tell("close")
  /\ UNCHANGED <<recursive, noErrorOnFind, handled>>

\* Mutant: the rest of the list is dropped.
Descend_FirstOnly ==
  /\ calls # <<>> /\ Top.phase = "descend" /\ Top.next <= Len(Top.subdirs)
  /\ calls' = Append([calls EXCEPT ![depth].next = Len(Top.subdirs) + 1],
                     Call(Top.subdirs[Top.next]))
  /\ live' = ClearIterPool
  /\ UNCHANGED <<recursive, noErrorOnFind, handled, failures, told>>

\* The next subdirectory: the iteration pool is cleared and lent to the call.
Descend ==
  /\ calls # <<>> /\ Top.phase = "descend" /\ Top.next <= Len(Top.subdirs)
  /\ calls' = Append([calls EXCEPT ![depth].next = @ + 1],
                     Call(Top.subdirs[Top.next]))
  /\ live' = ClearIterPool
  /\ UNCHANGED <<recursive, noErrorOnFind, handled, failures, told>>

\* The call returns: its iteration pool is destroyed.
Return ==
  /\ calls # <<>> /\ Top.phase = "descend" /\ Top.next > Len(Top.subdirs)
  /\ calls' = Front(calls)
  /\ live' = ClearIterPool
  /\ UNCHANGED <<recursive, noErrorOnFind, handled, failures, told>>

Step ==
  \/ Open \/ Read \/ ReadIncomplete \/ ReadFails \/ CloseDir
  \/ Descend \/ Return

Ended == calls = <<>> /\ UNCHANGED vars

Next == Step \/ Ended

Spec == Init /\ [][Next]_vars /\ WF_vars(Step)

-----------------------------------------------------------------------------
(* Types                                                                    *)

CallType ==
  [dir : Dirs, phase : {"open", "read", "descend"},
   unread : SUBSET (Dirs \cup Files \cup {Dot}),
   info : Dirs \cup Files \cup {Dot, None},
   subdirs : Seq(Dirs), next : Nat \ {0}]

TypeOK ==
  /\ recursive \in BOOLEAN /\ noErrorOnFind \in BOOLEAN
  /\ calls \in Seq(CallType) /\ depth <= MaxDepth
  /\ live \in [0 .. MaxDepth -> SUBSET Dirs]
  /\ handled \in [Files -> Nat]
  /\ failures \in [Kinds -> Nat] /\ Failed <= MaxFailures
  /\ told \subseteq Kinds

\* A path that is still needed, of the directory being read or of one that
\* waits, is in a pool that has not been cleared since it was put there:
\* although every iteration and every descent clears a pool.
PathsAlive ==
  \A d \in 1 .. depth :
    /\ d > 1 => calls[d].dir \in live[d - 2]
    /\ \A s \in Range(calls[d].subdirs) : s \in live[d - 1]

\* The types and the life of the paths.
PathsInv == TypeOK /\ PathsAlive

-----------------------------------------------------------------------------
(* The inductive invariant.                                                 *)

\* What call c still has to look at is in its directory.
CallOK(c) ==
  /\ c.dir \in Under[Root]
  /\ c.unread \subseteq Entries[c.dir] \cup {Dot}
  /\ c.info \in Entries[c.dir] \cup {Dot, None}
  /\ Range(c.subdirs) \subseteq Entries[c.dir]
  /\ c.phase = "descend" => c.unread = {}
  /\ c.next <= Len(c.subdirs) + 1
  /\ ~recursive => c.dir = Root /\ c.subdirs = <<>>

\* Each call is for a directory inside those of the calls around it.
NestOK ==
  \A d \in 1 .. depth : \A o \in 1 .. d - 1 :
    \E e \in Entries[calls[o].dir] : calls[d].dir \in Under[e]

StackInv == PathsInv /\ NestOK /\ \A d \in 1 .. depth : CallOK(calls[d])

\* Whether going on with entry e, or with directory dir, leads to file f; r says
\* whether the traversal is recursive.
LeadsTo(r, e, f) == IF r THEN f \in Under[e] ELSE e = f
DirLeadsTo(r, dir, f) == \E e \in Entries[dir] : LeadsTo(r, e, f)

\* Where the traversal will come upon file f: all of it, and the part that the
\* call c at depth d has before it.
PlacesIn(r, c, d, f) ==
  {p \in {<<d, "open", 0>>} : c.phase = "open" /\ DirLeadsTo(r, c.dir, f)}
    \cup {<<d, "unread", e>> : e \in {x \in c.unread \ {Dot} : LeadsTo(r, x, f)}}
    \cup {<<d, "list", n>> : n \in {m \in c.next .. Len(c.subdirs) :
                                         LeadsTo(r, c.subdirs[m], f)}}
Places(f) == UNION {PlacesIn(recursive, calls[d], d, f) : d \in 1 .. depth}

\* The files that are asked for.
InScope == (IF recursive THEN Under[Root] ELSE Entries[Root]) \cap Files
Asked == {f \in InScope : Passes(f)}

\* The traversal comes upon each file at one place, and at one more for each
\* failed read; it skips a place only if something fails.
FileOK(f) ==
  /\ IsFiniteSet(Places(f))
  /\ handled[f] + Cardinality(Places(f)) <= 1 + failures["read"]
  /\ handled[f] > 0 => f \in Asked
  /\ f \in Asked /\ Failed = 0 => handled[f] > 0 \/ Places(f) # {}
PlacesInv == \A f \in Files : FileOK(f)

-----------------------------------------------------------------------------
(* Properties                                                               *)

\* Without a failure every file that is asked for is handled once, and no
\* other file ever is.
HandledOnce ==
  calls = <<>> /\ Failed = 0 =>
    handled = [f \in Files |-> IF f \in Asked THEN 1 ELSE 0]

\* A failure may keep files from being handled, but none is handled that was
\* not asked for, and only a failed read, which leaves the last entry in
\* place, makes a subdirectory come twice.
OnlyAskedHandled ==
  \A f \in Files :
    handled[f] <= (IF f \in Asked THEN 1 + failures["read"] ELSE 0)

\* The traversal ends if only finitely many reads fail.
Terminates == <>(calls = <<>>)

\* What the help says of --noerroronfind, "False by default": unless it is
\* given, a directory that cannot be opened is reported.
ErrorsAreTold ==
  calls = <<>> /\ failures["open"] > 0 /\ ~noErrorOnFind => "open" \in told
=============================================================================
