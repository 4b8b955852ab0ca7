------------------------------ MODULE Backend ------------------------------
(***************************************************************************)
(* The backend of l2h: tree_postorder of l2h/treeutil.c walks the tree of  *)
(* a query with a stack and without recursion, and hands each node to      *)
(* bend_emit of l2h/backend.c, which appends instructions to a list and,   *)
(* where a node says more about what came before it, takes the last        *)
(* instructions back.  An operand is a type, a name, a position in the     *)
(* list (counted from 0 as in the code) or nothing.                        *)
(***************************************************************************)
EXTENDS QueryTree

VARIABLES
  tree,     \* the tree being compiled
  stack,    \* nodes that wait, the top last
  last,     \* the node handed over last: "root" of tree_postorder
  list,     \* bend_instructions
  visits,   \* the nodes handed over, in order
  fault     \* what the program has done that C leaves undefined; "" is nothing

bendVars == <<tree, stack, last, list, visits>>

None == <<>>
Type(t) == <<"type", t>>
Name(s) == <<"name", s>>
Position(n) == <<"position", n>>

Instruction(op, op1, op2, node) == [op |-> op, op1 |-> op1, op2 |-> op2, node |-> node]

Back(l) == l[Len(l)]

IsLeaf(n) == n.left = 0 /\ n.right = 0

EndsWith(l, op) == l # <<>> /\ Back(l).op = op

-----------------------------------------------------------------------------
(* What a node does to the list                                             *)

\* Mutant: a method with arguments takes one back as well.
Pops_AnyCall(l, n) ==
  CASE n.type = "internal_type" /\ n.value = "user" -> 2
    [] n.type \in {"property", "method_call"} -> 1
    [] n.type = "identifier" /\ EndsWith(l, "type") -> 1
    [] OTHER -> 0

\* How many instructions it takes back.
Pops(l, n) ==
  CASE n.type = "internal_type" /\ n.value = "user" -> 2
    [] n.type = "property" -> 1
    [] n.type = "method_call" /\ IsLeaf(n) -> 1
    [] n.type = "identifier" /\ EndsWith(l, "type") -> 1
    [] OTHER -> 0

\* A definition, or the use of a name.
Identifier(l, name, node) ==
  CASE l = <<>> -> <<Instruction("type", Type("dynamic"), None, node),
                     Instruction("def", Type("dynamic"), Name(name), node)>>
    [] EndsWith(l, "type") -> <<Instruction("def", Back(l).op1, Name(name), node)>>
    [] EndsWith(l, "select") ->
         <<Instruction("into", Position(Len(l) - 1), Name(name), node)>>
    [] OTHER -> <<Instruction("usage", None, Name(name), node)>>

\* The instructions it appends.
Pushes(l, n, node) ==
  LET Plain(op, op1, op2) == <<Instruction(op, op1, op2, node)>>
  IN  CASE n.type = "from" -> Plain("from", Position(Len(l) - 2), Position(Len(l) - 1))
        [] n.type = "internal_type" ->
             Plain("type", IF n.value = "user" THEN Back(l).op2 ELSE Type(n.value), None)
        [] n.type \in {"string", "integer"} -> Plain(n.type, Name(n.value), None)
        [] n.type = "identifier" -> Identifier(l, n.value, node)
        [] n.type = "property" -> Plain("property", Back(l).op2, Name(n.value))
        [] n.type = "method_call" ->
             Plain("call", IF IsLeaf(n) THEN Back(l).op2 ELSE Name(""), Name(n.value))
        [] n.type \in {"not_rel", "and_rel", "or_rel", "relation", "let", "select"} ->
             Plain(n.type, None, None)
        [] OTHER -> <<>>

Emit(node) ==
  LET n == tree[node]
      taken == Pops(list, n)
  IN  IF taken > Len(list)
        THEN fault' = "pop" /\ UNCHANGED list
        ELSE /\ list' = SubSeq(list, 1, Len(list) - taken) \o Pushes(list, n, node)
             /\ UNCHANGED fault

-----------------------------------------------------------------------------
(* The walk                                                                 *)

NoWalk == tree = NoTree /\ stack = <<>> /\ last = 0 /\ list = <<>> /\ visits = <<>>

\* bend_init, and the start of tree_postorder.
StartWalk(t) ==
  /\ tree' = t /\ stack' = <<Len(t)>> /\ last' = Len(t) /\ list' = <<>> /\ visits' = <<>>

Finished(n) == last \in {n.left, n.right} \/ IsLeaf(n)

Visit ==
  /\ stack # <<>> /\ Finished(tree[Back(stack)])
  /\ stack' = SubSeq(stack, 1, Len(stack) - 1)
  /\ last' = Back(stack)
  /\ visits' = Append(visits, Back(stack))
  /\ Emit(Back(stack))
  /\ UNCHANGED tree

\* A child, if there is one.
Child(p) == IF p = 0 THEN <<>> ELSE <<p>>

\* Mutant: the left child is pushed first.
Descend_LeftFirst ==
  /\ stack # <<>> /\ ~ Finished(tree[Back(stack)])
  /\ stack' = stack \o Child(tree[Back(stack)].left) \o Child(tree[Back(stack)].right)
  /\ UNCHANGED <<tree, last, list, visits, fault>>

Descend ==
  /\ stack # <<>> /\ ~ Finished(tree[Back(stack)])
  /\ stack' = stack \o Child(tree[Back(stack)].right) \o Child(tree[Back(stack)].left)
  /\ UNCHANGED <<tree, last, list, visits, fault>>

-----------------------------------------------------------------------------

\* The nodes are handed over each once, children before their parent and left
\* before right, which is the order in which QueryTree numbers them, and all
\* of them once nothing waits, although the walk remembers only the node it
\* left last.
VisitsInOrder ==
  /\ visits = [i \in 1 .. Len(visits) |-> i]
  /\ fault = "" /\ stack = <<>> => Len(visits) = Len(tree)
=============================================================================
