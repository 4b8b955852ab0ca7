------------------------------- MODULE MCL2h -------------------------------
(* Queries for TLC: those of _tst/FrontendTest.cpp, and others that between *)
(* them have every kind of node.                                           *)
EXTENDS L2h

Hashes == {"md5", "md2", "crc32"}

Source1 == String("s")
TypedFrom(type, name, source) == From(Declaration(SimpleType(type), name), source)
Select(from, what) == Query(from, Body(NoTree, what, NoTree))
Filtered(from, clauses, what) == Query(from, Body(clauses, what, NoTree))

FileX == TypedFrom("file", "x", Source1)
Md5X == From(Declaration(UserType("md5"), "x"), Source1)
xmd5 == PropertyCall("x", "md5")

OfTests ==
  { Select(FileX, xmd5), Select(FileX, PropertyCall("y", "md5")),
    Select(FileX, Enum(xmd5, PropertyCall("x", "md2"))),
    Select(FileX, MethodCall("x", "m", NoTree)),
    Select(FileX, MethodCall("x", "m", Number("1"))),
    Select(FileX, MethodCall("x", "m", Enum(Number("1"), String("a")))),
    Query(FileX, Body(NoTree, xmd5, Continuation("x", Body(NoTree, PropertyCall("x", "crc32"), NoTree)))),
    Filtered(TypedFrom("dynamic", "a", Variable("x")),
             Continuation("gr", Join(Declaration(SimpleType("dynamic"), "y"), Variable("z"),
                                     PropertyCall("a", "i"), PropertyCall("y", "i"))),
             PropertyCall("a", "md5")),
    Select(Md5X, PropertyCall("x", "string")),
    Select(TypedFrom("string", "x", Source1), xmd5) }

\* A from, perhaps some clauses, what is selected, perhaps an into.
Nested == Select(TypedFrom("file", "y", Source1), PropertyCall("y", "md2"))
Firsts ==
  {TypedFrom("file", "x", s) : s \in {Source1, Variable("z"), Nested}}
    \cup {TypedFrom("dynamic", "x", s) : s \in {Source1, Nested}}
    \cup {TypedFrom(type, "x", Source1) : type \in {"string", "dir"}}
    \cup {From(Declaration(UserType("md5"), "x"), s) : s \in {Source1, Nested}}
    \cup {From(Declaration(UserType("foo"), "x"), Source1)}
Clauses ==
  { NoTree,
    TypedFrom("file", "y", String("t")),
    From(Declaration(UserType("md2"), "y"), String("t")),
    Where(And(Relation(PropertyCall("x", "name"), String("a")),
              Not(Or(Relation(Variable("x"), Number("1")), Relation(Number("2"), Variable("x")))))),
    Enum(Let("y", xmd5), OrderBy(PropertyCall("y", "md2"))),
    Enum(Where(Relation(xmd5, Number("1"))), TypedFrom("file", "y", String("t"))),
    Enum(From(Declaration(UserType("md2"), "y"), xmd5),
         From(Declaration(UserType("md5"), "w"), PropertyCall("x", "crc32"))),
    Enum(Where(Relation(xmd5, Number("1"))), TypedFrom("file", "y", Variable("z"))),
    Join(Declaration(UserType("foo"), "y"), String("t"), PropertyCall("x", "i"), PropertyCall("y", "i")) }
Selected ==
  { PropertyCall("x", "name"), Enum(xmd5, PropertyCall("x", "md2")),
    Enum(PropertyCall("y", "crc32"), MethodCall("x", "m", NoTree)), Group(xmd5, PropertyCall("x", "size")) }
Into == Continuation("w", Body(NoTree, PropertyCall("w", "crc32"), NoTree))

Generated ==
  {Filtered(from, clauses, what) : from \in Firsts, clauses \in Clauses, what \in Selected}
    \cup {Query(from, Body(NoTree, what, Into)) : from \in Firsts, what \in Selected}

QueryUnit(t) == [kind |-> "query", tree |-> t]
CommentUnit == [kind |-> "comment"]
JunkUnits == {[kind |-> "junk", valued |-> v] : v \in BOOLEAN}

Good == QueryUnit(Select(FileX, xmd5))
Undeclared == QueryUnit(Select(TypedFrom("file", "y", Source1), xmd5))

\* Every query by itself; those of the tests also behind one that leaves its
\* table and its names; then texts of other units, and several texts.
Given ==
  {[on |-> "string", texts |-> <<<<QueryUnit(t)>>>>] : t \in OfTests \cup Generated}
    \cup {[on |-> "string", texts |-> <<<<Good, QueryUnit(t)>>>>] : t \in OfTests}
    \cup {[on |-> "file", texts |-> <<<<Good, CommentUnit, j>>, <<j>>, <<Good>>>>] : j \in JunkUnits}
    \cup {[on |-> "file", texts |-> <<<<CommentUnit, j>>, <<Good>>>>] : j \in JunkUnits}
    \cup {[on |-> "file", texts |-> <<<<CommentUnit>>, <<Good>>, <<>>, <<j>>>>] : j \in JunkUnits}
    \cup {[on |-> "file", texts |-> <<<<Good>>, <<Undeclared>>, <<Good>>>>]}
=============================================================================
