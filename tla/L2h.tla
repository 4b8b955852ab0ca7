-------------------------------- MODULE L2h --------------------------------
(***************************************************************************)
(* The program l2h: l2h.c compiles the text given on the command line or   *)
(* the files named there, one after the other; the parser (l2h.y) calls    *)
(* l2h/frontend.c for every reduction; each complete query is compiled by  *)
(* Backend and run by Processor before the parser goes on.                 *)
(*                                                                         *)
(* A text is a sequence of units: a comment, a query, which is the tree it *)
(* has if it is right, or junk, a token that begins neither of them.       *)
(***************************************************************************)
EXTENDS Processor, FiniteSets

CONSTANT Programs   \* the command lines: [on, texts], on is "string" or "file"

VARIABLES
  program,   \* the command line
  stage,     \* where the program is, see LType
  text,      \* the text being compiled
  unit,      \* the unit of it the parser has come to
  node,      \* how many nodes of the query have been made
  ids,       \* fend_query_identifiers, {} when it is NULL
  poolSet,   \* fend_query_pool is not NULL
  errors,    \* fend_error_count
  broken,    \* history: the texts in which an error was met
  reports    \* history: for each text compiled, whether failure was reported

frontVars == <<program, stage, text, unit, node, ids, poolSet, errors, broken, reports>>
vars == <<frontVars, bendVars, fault, builtinVars, procVars>>

Pools == [main |-> "", text |-> "main", query |-> "text",
          list |-> "main", proc |-> "list", builtin |-> "proc"]

ASSUME PoolsAssumption == PoolParent = Pools

ASSUME HashNamesAssumption == "" \notin KnownHashes

\* The trees are those the parser can build.
ASSUME ProgramsAssumption ==
  \A p \in Programs : \A k \in 1 .. Len(p.texts) : \A u \in 1 .. Len(p.texts[k]) :
    p.texts[k][u].kind = "query" =>
      WellNumbered(p.texts[k][u].tree) /\ Grammatical(p.texts[k][u].tree)

Texts == program.texts
Unit == Texts[text][unit]

LType ==
  /\ program \in Programs
  /\ stage \in {"open", "units", "reduce", "walk", "run", "end"}
  /\ pools \subseteq DOMAIN Pools /\ table \in {"none", "proc", "builtin"}
  /\ text \in 1 .. Len(Texts) + 1 /\ errors \in Nat

LInit ==
  /\ program \in Programs /\ stage = "open" /\ text = 1 /\ unit = 1 /\ node = 0
  /\ ids = {} /\ poolSet = FALSE /\ errors = 0 /\ broken = {} /\ reports = <<>>
  /\ pools = {"main"} /\ table = "none" /\ definition = "" /\ fault = ""
  /\ NoWalk /\ Idle

At(s) == fault = "" /\ stage = s

KeepBackground == UNCHANGED <<program, bendVars, procVars, definition>>

-----------------------------------------------------------------------------
(* Texts                                                                    *)

\* fend_translation_unit_init
OpenText ==
  /\ At("open") /\ text <= Len(Texts)
  /\ stage' = "units" /\ unit' = 1
  /\ pools' = pools \cup {"text"}
  /\ UNCHANGED <<text, node, ids, poolSet, errors, broken, reports, fault, table>>
  /\ KeepBackground

\* main_on_file gives up on the files that are left.
OpenFails ==
  /\ At("open") /\ text <= Len(Texts) /\ program.on = "file"
  /\ stage' = "end" /\ pools' = Without("main")
  /\ UNCHANGED <<text, unit, node, ids, poolSet, errors, broken, reports, fault, table>>
  /\ KeepBackground

\* The end of main, after the last text.
Exit ==
  /\ At("open") /\ text > Len(Texts)
  /\ stage' = "end" /\ pools' = Without("main")
  /\ UNCHANGED <<text, unit, node, ids, poolSet, errors, broken, reports, fault, table>>
  /\ KeepBackground

\* Mutant: only the result of the parser counts.
Report_ResultOnly(failed) ==
  /\ reports' = Append(reports, failed)
  /\ stage' = "open" /\ text' = text + 1

\* The end of main_parse and fend_translation_unit_cleanup.
Report(failed) ==
  /\ reports' = Append(reports, errors' > 0 \/ failed)
  /\ stage' = "open" /\ text' = text + 1

\* The text ends after a unit, which the grammar allows.
TextEnds ==
  /\ At("units") /\ unit > Len(Texts[text]) /\ Texts[text] # <<>>
  /\ UNCHANGED errors /\ Report(FALSE)
  /\ pools' = Without("text")
  /\ UNCHANGED <<unit, node, ids, poolSet, broken, fault, table>>
  /\ KeepBackground

\* yyerror: the query is dropped with its pool, the rest of the text is not read.
SyntaxError ==
  /\ errors' = errors + 1 /\ broken' = broken \cup {text}
  /\ Report(TRUE)
  /\ pools' = Without("text")
  /\ ids' = {}

-----------------------------------------------------------------------------
(* Units                                                                    *)

AtUnit(kind) == At("units") /\ unit <= Len(Texts[text]) /\ Unit.kind = kind

\* Mutant: the comment is read again.
Comment_Again ==
  /\ AtUnit("comment")
  /\ UNCHANGED <<unit, stage, text, node, ids, poolSet, errors, broken, reports, fault, pools, table>>
  /\ KeepBackground

Comment ==
  /\ AtUnit("comment")
  /\ unit' = unit + 1
  /\ UNCHANGED <<stage, text, node, ids, poolSet, errors, broken, reports, fault, pools, table>>
  /\ KeepBackground

\* fend_query_init
BeginQuery ==
  /\ AtUnit("query")
  /\ stage' = "reduce" /\ node' = 0
  /\ pools' = pools \cup {"query"} /\ ids' = {} /\ poolSet' = TRUE
  /\ UNCHANGED <<text, unit, errors, broken, reports, fault, table>>
  /\ KeepBackground

\* A token that begins no unit, or the end of an empty text.  The scanner copies
\* the token's value into the pool of the query before it.  At the start of a
\* text the parser then begins a query and finds it wrong; behind a unit it
\* finds the error at once, and yyerror destroys that earlier pool.  Without
\* a pool both crash; with one that is gone they may.
Junk ==
  /\ \/ AtUnit("junk")
     \/ At("units") /\ Texts[text] = <<>>
  /\ LET first == unit = 1
         valued == Texts[text] # <<>> /\ Unit.valued
     IN  /\ fault' \in IF first /\ ~ valued THEN {""}
                       ELSE IF poolSet THEN {"", "pool"} ELSE {"pool"}
         /\ poolSet' = (poolSet \/ first)
  /\ SyntaxError
  /\ UNCHANGED <<unit, node, table>>
  /\ KeepBackground

\* Mutant: each from begins with names of its own.
Reduce_FromForgets ==
  /\ At("reduce") /\ node < Len(Unit.tree)
  /\ node' = node + 1
  /\ ids' = IF Unit.tree[node + 1].type = "from"
              THEN Registers(Unit.tree, node + 1)
              ELSE ids \cup Registers(Unit.tree, node + 1)
  /\ errors' = errors + Cardinality(Uses(Unit.tree, node + 1) \ ids)
  /\ broken' = IF errors' > errors THEN broken \cup {text} ELSE broken
  /\ UNCHANGED <<stage, text, unit, poolSet, reports, fault, pools, table>>
  /\ KeepBackground

\* The nodes of a query are made from its leaves up.
Reduce ==
  /\ At("reduce") /\ node < Len(Unit.tree)
  /\ node' = node + 1
  /\ ids' = ids \cup Registers(Unit.tree, node + 1)
  /\ errors' = errors + Cardinality(Uses(Unit.tree, node + 1) \ ids)
  /\ broken' = IF errors' > errors THEN broken \cup {text} ELSE broken
  /\ UNCHANGED <<stage, text, unit, poolSet, reports, fault, pools, table>>
  /\ KeepBackground

\* The text breaks off, or goes wrong, inside a query.
QueryGoesWrong ==
  /\ At("reduce") /\ node < Len(Unit.tree)
  /\ SyntaxError
  /\ UNCHANGED <<unit, node, poolSet, fault, table>>
  /\ KeepBackground

\* The callback of fend_query_cleanup, main_on_each_query_callback, begins.
BeginWalk ==
  /\ At("reduce") /\ node = Len(Unit.tree)
  /\ stage' = "walk" /\ pools' = pools \cup {"list", "proc"}
  /\ StartWalk(Unit.tree) /\ StartRun
  /\ UNCHANGED <<program, text, unit, node, ids, poolSet, errors, broken, reports,
                 fault, definition>>

Walk ==
  /\ At("walk")
  /\ Visit \/ Descend
  /\ UNCHANGED <<frontVars, builtinVars, procVars>>

BeginRun ==
  /\ At("walk") /\ fault = "" /\ stack = <<>>
  /\ stage' = "run"
  /\ UNCHANGED <<program, text, unit, node, ids, poolSet, errors, broken, reports,
                 bendVars, fault, builtinVars, procVars>>

Run == At("run") /\ RunInstruction /\ UNCHANGED frontVars

\* The callback returns and the query is cleaned up.
QueryEnds ==
  /\ At("run") /\ Ran
  /\ stage' = "units" /\ unit' = unit + 1
  /\ pools' = Without("list") \ {"query"} /\ ids' = {}
  /\ UNCHANGED <<text, node, poolSet, errors, broken, reports, fault, table>>
  /\ KeepBackground

LNext ==
  \/ OpenText \/ OpenFails \/ Exit \/ TextEnds
  \/ Comment \/ BeginQuery \/ Junk \/ Reduce \/ QueryGoesWrong
  \/ BeginWalk \/ Walk \/ BeginRun \/ Run \/ QueryEnds

\* One thread, which goes on while it can.
LSpec == LInit /\ [][LNext]_vars /\ WF_vars(LNext)

-----------------------------------------------------------------------------
(* What a query means, from its tree                                        *)

Froms(t) == NodesOf(t, "from")
HasOne(t, type) == Cardinality(NodesOf(t, type)) = 1

\* The first from, its declaration, and the type of that: a user type is the
\* name of the hash to restore a string from.
FirstFrom(t) == CHOOSE f \in Froms(t) : \A g \in Froms(t) : f <= g
Declaring(t) == t[t[FirstFrom(t)].left]
DeclaredType(t) ==
  LET type == t[Declaring(t).left]
  IN  IF type.value = "user" THEN Name(t[type.left].value) ELSE Type(type.value)

\* The types that make their nodes take back what was there before them.
StrayUsers(t) == {i \in NodesOf(t, "internal_type") : t[i].value = "user"} \ {2}

\* The calls of properties that name a hash.
HashCalls(t) == {p \in NodesOf(t, "property") : t[p].value \in KnownHashes}

\* What a from reads, when it is a string, and the strings that are not the
\* first from's; the declarations that get no value: those of a from but the
\* first, of a source that is not a string, and of a join.
SourceString(t, f) == {t[t[f].right].left} \cap NodesOf(t, "string")
LooseStrings(t) == NodesOf(t, "string") \ SourceString(t, FirstFrom(t))
Sourceless(t) ==
  NodesOf(t, "join") \cup
    {f \in Froms(t) : SourceString(t, f) = {} \/ \E g \in Froms(t) : g < f}

\* A plain query has one source, which is the only string, and selects once,
\* from that source.
Plain(t) ==
  /\ HasOne(t, "from") /\ HasOne(t, "select")
  /\ LooseStrings(t) = {} /\ Sourceless(t) = {}
  /\ \A u \in NodesOf(t, "unary") : Uses(t, u) \subseteq {Declaring(t).value}

\* What a plain query may calculate: the string, file or directory it declares
\* with the FIRST hash that is selected; what has no type as what it is, if it
\* is one of the three; the string whose digest a user type names.
Meaning(t) ==
  LET s == t[CHOOSE i \in NodesOf(t, "string") : TRUE].value
      first == t[CHOOSE p \in HashCalls(t) : \A q \in HashCalls(t) : p <= q].value
      type == DeclaredType(t)
      One(builtin, hash) == <<[builtin |-> builtin, hash |-> hash, value |-> s]>>
  IN  CASE type \in {Type("string"), Type("file"), Type("dir")} ->
             {IF HashCalls(t) = {} THEN <<>> ELSE One(type[2], first)}
        [] type = Type("dynamic") -> {<<>>} \cup {One(b, first) : b \in {"string", "file", "dir"}}
        [] OTHER -> {IF type[2] \in KnownHashes THEN One("hash", type[2]) ELSE <<>>}

-----------------------------------------------------------------------------
(* Properties                                                               *)

\* A plain query calculates what its tree means and nothing else, whatever
\* ran before it: through the walk, the instructions that nodes take back,
\* the positions of from, the backward scan of select and the global table.
PlainIsCalculated ==
  stage = "run" /\ Ran /\ Plain(tree) => calcs \in Meaning(tree)

\* The only ways to a crash.  A plain query crashes only when it selects no
\* known hash and has a dynamic or a user type; the table is gone only when
\* there is more than one select, a string that is not the source of the first
\* from, or a user type in another place; a value is missing only with several
\* sources or one that is not a string; the parser uses a dead pool only for a
\* token that belongs to no unit.  No query makes a node take back more than
\* there is, or from look for its values outside the stack.
FaultNeeds ==
  /\ fault = "pool" => Texts[text - 1] # <<>> /\ Texts[text - 1][unit].kind = "junk"
  /\ stage \in {"walk", "run"} /\ fault # "" =>
       /\ Plain(tree) =>
            fault = "iterator" /\ HashCalls(tree) = {}
              /\ DeclaredType(tree) \notin {Type("string"), Type("file"), Type("dir")}
       /\ fault = "table" =>
            ~ HasOne(tree, "select") \/ LooseStrings(tree) # {} \/ StrayUsers(tree) # {}
       /\ fault = "value" => Sourceless(tree) # {}
       /\ fault \notin {"pop", "position"}

\* What a node takes back was emitted by its own child or by the name in front
\* of it, in a query whose only user type, if any, is in its first from.
TakesBackOwn ==
  [][Len(visits') > Len(visits) /\ fault' = "" =>
       LET v == Back(stack)
           own == {tree[v].left} \cup
                    IF v = Len(tree) THEN {} ELSE {tree[ParentOf(tree, v)].left}
       IN  StrayUsers(tree) = {} =>
             \A k \in Len(list) - Pops(list, tree[v]) + 1 .. Len(list) : list[k].node \in own]_vars

\* What the query defines is strings, files, directories and known hashes, as
\* far as its definitions say.
DefinesKnown ==
  \A i \in DOMAIN list : list[i].op = "def" /\ list[i].op1 # Type("dynamic") =>
    LET declared == Declared(list[i].op1, list[i].op2)
    IN  \/ declared.type \in {"string", "file", "dir"}
        \/ declared.type = "hash_decl" /\ declared.value \in KnownHashes

\* The pool of a query lives from its first token to its last calculation and
\* no longer, that of a builtin while it runs; and a query that has calculated
\* nothing yet finds the table in order whatever earlier queries have left,
\* unless it has come upon a hash that there is not.
PoolsAndTables ==
  fault = "" =>
    /\ "query" \in pools <=> stage \in {"reduce", "walk", "run"}
    /\ "text" \in pools <=> stage \in {"units", "reduce", "walk", "run"}
    /\ "proc" \in pools <=> stage \in {"walk", "run"}
    /\ "builtin" \in pools <=> BuiltinIsOpen
    /\ stage = "run" /\ calcs = <<>> /\ DefinesKnown => table \in pools

\* A name is complained about when its own query, the queries inside it
\* included, has not declared it before, and names of other queries are no help.
NamesPerQuery ==
  [][stage = "reduce" /\ node' = node + 1 =>
       errors' - errors =
         Cardinality({name \in Uses(Unit.tree, node') :
                        \A i \in 1 .. node : name \notin Registers(Unit.tree, i)})]_vars

\* A text is reported as failed when an error was met in it, or in one before
\* it: the errors are counted over all of them.
ErrorsAreReported ==
  fault = "" => \A k \in DOMAIN reports : reports[k] <=> \E j \in 1 .. k : j \in broken

\* The program ends, or crashes, whatever it is given.
Finishes == <>(stage = "end" \/ fault # "")

\* FrontendTest.RestoreString_FromHash_Success takes the query that restores a
\* string from its md5 for a good one: a plain query without errors, whose type
\* names a known hash, does not crash.
RestoreRuns ==
  stage = "run" /\ Plain(tree) /\ errors = 0
    /\ (\E hash \in KnownHashes : DeclaredType(tree) = Name(hash)) => fault = ""
=============================================================================
