----------------------------- MODULE Processor -----------------------------
(***************************************************************************)
(* The processor of l2h (l2h/processor.c): it runs the instructions of the *)
(* backend in order.  Declarations, strings and properties are pushed on a *)
(* stack of sources; from gives a declaration its value, and takes the     *)
(* values by the positions which their definitions have in the list of     *)
(* INSTRUCTIONS; select scans the stack from its top and runs a builtin of *)
(* hc for whatever it finds a hash for.                                    *)
(***************************************************************************)
EXTENDS Backend, Builtin

CONSTANT NoValue   \* NULL for a string

ASSUME NoValueAssumption == NoValue \notin STRING

VARIABLES
  ip,      \* the position in list of the instruction to run, from 1
  elts,    \* the elements of proc_instructions, those popped included
  count,   \* how many of them are on the stack
  scan,    \* how many are left for the select under way, -1 if there is none
  props,   \* properties of that select: a variable |-> its hash
  calcs    \* what has been calculated for the query

procVars == <<ip, elts, count, scan, props, calcs>>

Source(type, name, value) == [type |-> type, name |-> name, value |-> value]

\* Elements that were never written are NULL, as is the value of a
\* declaration that no from has given one.
Null == Source("null", "", NoValue)
Element(i) == IF i + 1 \in DOMAIN elts THEN elts[i + 1] ELSE Null

Push(source) ==
  /\ elts' = [i \in 1 .. Len(elts) \cup {count + 1} |->
                IF i = count + 1 THEN source ELSE elts[i]]
  /\ count' = count + 1

Fault(f) ==
  fault' = f /\ UNCHANGED <<bendVars, builtinVars, procVars>>

Idle == ip = 1 /\ elts = <<>> /\ count = 0 /\ scan = -1 /\ props = <<>> /\ calcs = <<>>

\* Mutant: the table of hashes is built once, at the start of the program.
StartRun_KeepsTable ==
  /\ ip' = 1 /\ elts' = <<>> /\ count' = 0 /\ scan' = -1 /\ props' = <<>> /\ calcs' = <<>>
  /\ table' = IF table = "none" THEN "proc" ELSE table

\* proc_init, but for the pool.
StartRun ==
  /\ ip' = 1 /\ elts' = <<>> /\ count' = 0 /\ scan' = -1 /\ props' = <<>> /\ calcs' = <<>>
  /\ table' = "proc"

-----------------------------------------------------------------------------
(* proc_run                                                                 *)

AtInstruction(op) ==
  /\ fault = "" /\ scan = -1 /\ ip <= Len(list) /\ list[ip].op = op

Next1 == ip' = ip + 1 /\ UNCHANGED <<bendVars, fault, builtinVars, scan, props, calcs>>

\* What a definition declares: the declaration of a hash keeps its name.
Declared(type, name) ==
  IF type[1] = "name" THEN Source("hash_decl", name[2], type[2])
                      ELSE Source(type[2], name[2], NoValue)

OnDef ==
  /\ AtInstruction("def")
  /\ IF list[ip].op1 = Type("dynamic")
       THEN UNCHANGED <<elts, count>>
       ELSE Push(Declared(list[ip].op1, list[ip].op2))
  /\ Next1

OnString ==
  /\ AtInstruction("string")
  /\ Push(Source("string_def", "", list[ip].op1[2]))
  /\ Next1

OnProperty ==
  /\ AtInstruction("property")
  /\ Push(Source("prop_call", list[ip].op1[2], list[ip].op2[2]))
  /\ Next1

\* Mutant: the value stays on the stack.
OnFrom_KeepsValue ==
  /\ AtInstruction("from")
  /\ LET at == list[ip].op1[2]
         to == Element(at)
         from == Element(list[ip].op2[2])
     IN  IF from = Null \/ to = Null
           THEN UNCHANGED elts
           ELSE elts' = [elts EXCEPT ![at + 1] =
                           IF to.type = "hash_decl"
                             THEN Source("hash_definition", to.value, from.value)
                             ELSE [to EXCEPT !.value = from.value]]
  /\ UNCHANGED count
  /\ Next1

\* prproc_on_from.  The value is taken off the stack, and the declaration of
\* a hash makes room for its definition.  It would read in front of the array,
\* or through NULL, if a position had nothing to do with the stack.
OnFrom ==
  /\ AtInstruction("from")
  /\ LET at == list[ip].op1[2]
         to == Element(at)
         from == Element(list[ip].op2[2])
         lost == at < 0 \/ (from # Null /\ (to = Null \/ count = 0))
     IN  CASE lost -> Fault("position")
           [] ~ lost /\ from = Null -> UNCHANGED <<elts, count>> /\ Next1
           [] OTHER ->
                /\ IF to.type = "hash_decl"
                     THEN /\ elts' = [elts EXCEPT ![count] =
                                        Source("hash_definition", to.value, from.value)]
                          /\ UNCHANGED count
                     ELSE /\ elts' = [elts EXCEPT ![at + 1].value = from.value]
                          /\ count' = count - 1
                /\ Next1

OnNothing ==
  /\ fault = "" /\ scan = -1 /\ ip <= Len(list)
  /\ list[ip].op \notin {"def", "string", "property", "from", "select"}
  /\ UNCHANGED <<elts, count>> /\ Next1

-----------------------------------------------------------------------------
(* prproc_on_select                                                         *)

OnSelect ==
  /\ AtInstruction("select")
  /\ scan' = count /\ props' = <<>>
  /\ UNCHANGED <<bendVars, fault, builtinVars, ip, elts, count, calcs>>

Scanned == elts[scan]
Scanning(types) ==
  fault = "" /\ scan > 0 /\ ~ BuiltinIsOpen /\ Scanned.type \in types
ScanOn == scan' = scan - 1 /\ UNCHANGED <<bendVars, ip, elts, count>>

Pass == ScanOn /\ UNCHANGED <<fault, builtinVars, props, calcs>>

\* The prproc_calculate functions up to the end of builtin_init.  A builtin
\* that is given no string reads through a NULL pointer.
Calculate(builtin, hash, value) ==
  IF value = NoValue /\ hash \in KnownHashes
    THEN Fault("value")
    ELSE /\ BuiltinInit(hash)
         /\ calcs' = IF hash \in KnownHashes
                       THEN Append(calcs, [builtin |-> builtin, hash |-> hash, value |-> value])
                       ELSE calcs
         /\ ScanOn /\ UNCHANGED <<fault, props>>

\* The end of a builtin.
CalculationEnds == BuiltinClose /\ UNCHANGED <<bendVars, fault, procVars>>

\* Mutant: a hash that is there already is kept.
ScanProperty_KeepsLast ==
  /\ Scanning({"prop_call"})
  /\ \/ \E found \in Lookup(Scanned.value) :
          /\ props' = [v \in DOMAIN props \cup {w \in {Scanned.name} : found} |->
                         IF v \in DOMAIN props THEN props[v] ELSE Scanned.value]
          /\ ScanOn /\ UNCHANGED <<fault, builtinVars, calcs>>
     \/ table \notin pools /\ Fault("table")

\* A property that names a hash is kept for its variable.  The look up may
\* as well crash when the table is gone.
ScanProperty ==
  /\ Scanning({"prop_call"})
  /\ \/ \E found \in Lookup(Scanned.value) :
          /\ props' = [v \in DOMAIN props \cup {w \in {Scanned.name} : found} |->
                         IF found /\ v = Scanned.name THEN Scanned.value ELSE props[v]]
          /\ ScanOn /\ UNCHANGED <<fault, builtinVars, calcs>>
     \/ table \notin pools /\ Fault("table")

\* A string of its own is hashed with any property there is, as the directory
\* or the file of that name if there is one.
ScanString ==
  /\ Scanning({"string_def"})
  /\ \/ DOMAIN props = {} /\ Fault("iterator")
     \/ \E v \in DOMAIN props, builtin \in {"dir", "file", "string"} :
          Calculate(builtin, props[v], Scanned.value)
     \/ DOMAIN props # {} /\ Pass   \* neither a file nor a directory

ScanDeclaration ==
  /\ Scanning({"string", "file", "dir"})
  /\ IF Scanned.name \in DOMAIN props
       THEN Calculate(Scanned.type, props[Scanned.name], Scanned.value)
       ELSE Pass

ScanDefinition ==
  /\ Scanning({"hash_definition"})
  /\ IF DOMAIN props = {} THEN Fault("iterator")
                          ELSE Calculate("hash", Scanned.name, Scanned.value)

ScanHashDeclaration == Scanning({"hash_decl"}) /\ Pass

SelectEnds ==
  /\ fault = "" /\ scan = 0 /\ ~ BuiltinIsOpen
  /\ scan' = -1 /\ ip' = ip + 1
  /\ UNCHANGED <<bendVars, fault, builtinVars, elts, count, props, calcs>>

Ran == fault = "" /\ scan = -1 /\ ip > Len(list)

RunInstruction ==
  \/ OnDef \/ OnString \/ OnProperty \/ OnFrom \/ OnNothing \/ OnSelect
  \/ ScanProperty \/ ScanString \/ ScanDeclaration \/ ScanDefinition
  \/ ScanHashDeclaration \/ SelectEnds \/ CalculationEnds
=============================================================================
