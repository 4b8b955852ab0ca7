----------------------------- MODULE QueryTree -----------------------------
(***************************************************************************)
(* The tree that the parser of l2h builds with the functions of            *)
(* l2h/frontend.c.  A tree is the sequence of its nodes, children before   *)
(* their parent and left before right, so that the root is the last one; a *)
(* pointer is a position in the sequence, 0 stands for NULL.               *)
(***************************************************************************)
EXTENDS Integers, Sequences

NoTree == <<>>

\* The same nodes with n others in front of them.
Shift(t, n) ==
  LET Moved(p) == IF p = 0 THEN 0 ELSE p + n
  IN  [i \in DOMAIN t |-> [t[i] EXCEPT !.left = Moved(@), !.right = Moved(@)]]

\* prfend_create_node
Node(type, value, left, right) ==
  left \o Shift(right, Len(left))
    \o <<[type |-> type, value |-> value, left |-> Len(left),
          right |-> IF right = NoTree THEN 0 ELSE Len(left) + Len(right)]>>

Leaf(type, value) == Node(type, value, NoTree, NoTree)

\* The type of a declaration: file, string, dir, dynamic, or a user type,
\* which has its name below it.
SimpleType(t) == Leaf("internal_type", t)
UserType(name) == Node("internal_type", "user", Leaf("identifier", name), NoTree)

\* fend_on_identifier_declaration
Declaration(type, name) == Node("identifier", name, type, NoTree)

String(s) == Node("unary", "", Leaf("string", s), NoTree)
Number(n) == Node("unary", "", Leaf("integer", n), NoTree)
Variable(name) == Node("unary", "", Leaf("identifier", name), NoTree)
PropertyCall(name, attribute) ==
  Node("unary", "", Leaf("identifier", name), Leaf("property", attribute))
MethodCall(name, method, arguments) ==
  Node("unary", "", Leaf("identifier", name),
       Node("method_call", method, arguments, NoTree))

From(declaration, source) == Node("from", "", declaration, source)
Let(name, expr) == Node("let", "", Leaf("identifier", name), expr)
Where(expr) == Node("where", "", expr, NoTree)
Relation(l, r) == Node("relation", "", l, r)
And(l, r) == Node("and_rel", "", l, r)
Or(l, r) == Node("or_rel", "", l, r)
Not(e) == Node("not_rel", "", e, NoTree)
Enum(l, r) == Node("enum", "", l, r)
Group(what, by) == Node("group", "", what, by)
OrderBy(expr) == Node("order_by", "", Node("ordering", "", expr, NoTree), NoTree)

\* fend_on_join
Join(declaration, source, first, second) ==
  Node("join", "", declaration,
       Node("in", "", source, Node("on", "", first, second)))

\* fend_on_continuation, of the query or of a join.
Continuation(name, what) == Node("continuation", "", Leaf("identifier", name), what)

\* fend_on_query_body and fend_query_complete
Body(clauses, selected, next) ==
  Node("query_body", "", Node("select", "", clauses, selected), next)
Query(from, body) == Node("query", "", from, body)

\* The first of the nodes in the subtree of each node.
Leftmost(t) ==
  LET first[i \in DOMAIN t] ==
        CASE t[i].left # 0                     -> first[t[i].left]
          [] t[i].left = 0 /\ t[i].right # 0  -> first[t[i].right]
          [] t[i].left = 0 /\ t[i].right = 0  -> i
  IN  first

\* node_type_t, and a node.
NodeTypes ==
  {"query", "from", "where", "not_rel", "and_rel", "or_rel", "relation", "internal_type",
   "string", "integer", "identifier", "property", "unary", "enum", "group", "let",
   "query_body", "continuation", "select", "method_call", "join", "on", "in", "order_by",
   "ordering"}

NodeType == [type : NodeTypes, value : STRING, left : Nat, right : Nat]

\* What Node makes of its subtrees: the nodes of a subtree are next to each
\* other and begin with the left one's, the parent comes at once behind them.
WellNumbered(t) ==
  /\ t \in Seq(NodeType) /\ t # NoTree /\ Leftmost(t)[Len(t)] = 1
  /\ \A i \in DOMAIN t :
       LET l == t[i].left
           r == t[i].right
           first == Leftmost(t)
       IN  /\ first[i] \in 1 .. i
           /\ r # 0 => r = i - 1
           /\ l # 0 => l = (IF r = 0 THEN i ELSE first[r]) - 1
           /\ first[i] = IF l # 0 THEN first[l] ELSE IF r # 0 THEN first[r] ELSE i

-----------------------------------------------------------------------------
(* The grammar (l2h.y)                                                      *)

\* What the grammar takes node p for.  An identifier with a type below it is a
\* declaration, any other a name; a list is a list of what its last item is.
Sort(t, p) ==
  LET type(i) == IF i = 0 THEN "none" ELSE t[i].type
      below == type(t[p].right)
  IN  CASE type(p) = "identifier" -> IF t[p].left = 0 THEN "name" ELSE "declaration"
        [] type(p) = "enum" ->
             CASE below = "ordering" -> "orderings"
               [] below \in {"from", "let", "where", "join", "continuation", "order_by"} -> "clauses"
               [] OTHER -> "values"
        [] type(p) = "continuation" -> IF below = "join" THEN "join_into" ELSE "continuation"
        [] OTHER -> type(p)

Expressions == {"unary", "values", "query"}
Conditions == {"or_rel", "and_rel", "not_rel", "relation"}
BodyClauses == {"from", "let", "where", "join", "join_into", "order_by"}
Nothing == {"none"}

\* What a node may have to its left and to its right.
Rules ==
  [query         |-> <<{"from"}, {"query_body"}>>,
   query_body    |-> <<{"select"}, Nothing \cup {"continuation"}>>,
   continuation  |-> <<{"name"}, {"query_body"}>>,
   select        |-> <<Nothing \cup {"clauses"} \cup BodyClauses, Expressions \cup {"group"}>>,
   clauses       |-> <<{"clauses"} \cup BodyClauses, BodyClauses>>,
   from          |-> <<{"declaration"}, Expressions>>,
   let           |-> <<{"name"}, Expressions>>,
   where         |-> <<Conditions, Nothing>>,
   join          |-> <<{"declaration"}, {"in"}>>,
   in            |-> <<Expressions, {"on"}>>,
   on            |-> <<Expressions, Expressions>>,
   join_into     |-> <<{"name"}, {"join"}>>,
   order_by      |-> <<{"ordering", "orderings"}, Nothing>>,
   orderings     |-> <<{"ordering", "orderings"}, {"ordering"}>>,
   ordering      |-> <<Expressions, Nothing>>,
   group         |-> <<Expressions, Expressions>>,
   or_rel        |-> <<Conditions, Conditions>>,
   and_rel       |-> <<Conditions, Conditions>>,
   not_rel       |-> <<Conditions, Nothing>>,
   relation      |-> <<{"unary"}, {"unary"}>>,
   values        |-> <<Expressions, Expressions>>,
   unary         |-> <<{"name", "string", "integer"}, Nothing \cup {"property", "method_call"}>>,
   method_call   |-> <<Nothing \cup Expressions, Nothing>>,
   declaration   |-> <<{"internal_type"}, Nothing>>,
   internal_type |-> <<Nothing \cup {"name"}, Nothing>>,
   name          |-> <<Nothing, Nothing>>,
   string        |-> <<Nothing, Nothing>>,
   integer       |-> <<Nothing, Nothing>>,
   property      |-> <<Nothing, Nothing>>]

\* A tree that the parser can build.  Properties and methods are those of a
\* name; only a user type has a name; and no attribute is a TYPE, which the
\* scanner returns between from and in only.
Grammatical(t) ==
  /\ Sort(t, Len(t)) = "query"
  /\ \A i \in DOMAIN t :
       LET n == t[i]
       IN  /\ Sort(t, i) \in DOMAIN Rules
           /\ Sort(t, n.left) \in Rules[Sort(t, i)][1]
           /\ Sort(t, n.right) \in Rules[Sort(t, i)][2]
           /\ n.type = "unary" /\ n.right # 0 => Sort(t, n.left) = "name"
           /\ n.type = "internal_type" =>
                IF n.left # 0 THEN n.value = "user"
                              ELSE n.value \in {"file", "string", "dir", "dynamic"}

-----------------------------------------------------------------------------
(* The identifiers of a query                                               *)

\* The nodes of a type.
NodesOf(t, type) == {i \in DOMAIN t : t[i].type = type}

ParentOf(t, i) == CHOOSE p \in DOMAIN t : i \in {t[p].left, t[p].right}

\* The name in node p, if it is an identifier.
NameAt(t, p) == {t[i].value : i \in {p} \cap NodesOf(t, "identifier")}

\* The name that the reduction that makes node i registers, if any: that of a
\* declaration, of the source of a from clause when it begins with a name, of
\* let, of a join into, and of a continuation, which has it before its body.
Registers(t, i) ==
  LET n == t[i]
  IN  CASE n.type = "identifier" /\ n.left # 0 -> {n.value}
        [] n.type = "identifier" /\ n.left = 0 /\ i < Len(t) ->
             LET p == t[ParentOf(t, i)]
             IN  {n.value : q \in {p.right} \cap
                       IF p.type = "continuation" THEN NodesOf(t, "query_body") ELSE {}}
        [] n.type = "from" -> NameAt(t, t[n.right].left)
        [] n.type = "let" -> NameAt(t, n.left)
        [] n.type = "continuation" /\ t[n.right].type = "join" -> NameAt(t, n.left)
        [] OTHER -> {}

\* The name that must be known when node i is made: that of a property or
\* method call.
Uses(t, i) ==
  IF t[i].type = "unary" /\ t[i].right # 0 THEN {t[t[i].left].value} ELSE {}
=============================================================================
