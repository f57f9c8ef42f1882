---------------------------- MODULE MCReferences ----------------------------
\* Workspaces for References: a class and its users in another module, type
\* parameters that hide each other, and every require graph of two modules.
EXTENDS References

\* A syntax node; the fields a kind of node does not have are empty.
N(kind, up) == [kind |-> kind, up |-> up, name |-> "", sym |-> "none", ty |-> 0, of |-> 0,
                prefix |-> "", exported |-> FALSE, assigned |-> FALSE, quoted |-> FALSE]
Named(kind, up, name) == [N(kind, up) EXCEPT !.name = name]
Local(kind, up, sym, ty) == [N(kind, up) EXCEPT !.name = sym, !.sym = sym, !.ty = ty]
Global(up, sym, ty) == Local("exprGlobal", up, sym, ty)
Index(up, name, of, ty) == [Named("index", up, name) EXCEPT !.of = of, !.ty = ty]
Call(up, of) == [N("call", up) EXCEPT !.of = of]
Typed(kind, up, ty) == [N(kind, up) EXCEPT !.ty = ty]
Ref(up, prefix, name) == [Named("typeRef", up, name) EXCEPT !.prefix = prefix]

Property(name, ty, loc) == [name |-> name, ty |-> ty, loc |-> loc]
Table(def, props) == [kind |-> "table", def |-> def, table |-> 0, metatable |-> 0, props |-> props, options |-> {}]
Function(def) == [Table(def, {}) EXCEPT !.kind = "function"]
Meta(t, m) == [Table(<< >>, {}) EXCEPT !.kind = "metatable", !.table = t, !.metatable = m]
Union(S) == [Table(<< >>, {}) EXCEPT !.kind = "union", !.options = S]

\* local Base = {size = ..}; function Base.greet() print() end; return Base
BaseModule == <<
    Local("local", 0, "Base", 1), Typed("table", 0, 1), [Named("string", 2, "size") EXCEPT !.quoted = TRUE],
    N("statFunction", 0), Index(4, "greet", 6, 2), Local("exprLocal", 5, "Base", 1),
    Typed("function", 4, 2), Call(7, 9), Global(8, "print", 3), Local("exprLocal", 0, "Base", 1)>>

\* A module that makes an object of the class and calls it in four places.
MainModule == <<
    Local("local", 0, "B", 4), Local("local", 0, "obj", 7), Typed("table", 0, 6), Named("string", 3, "name"),
    Call(0, 6), Index(5, "greet", 7, 9), Local("exprLocal", 6, "obj", 7),
    [N("indexExpr", 0) EXCEPT !.of = 9], Local("exprLocal", 8, "B", 4), Named("string", 8, "size"),
    N("statFunction", 0), [Global(11, "main", 10) EXCEPT !.assigned = TRUE], Typed("function", 11, 10),
    Call(13, 15), Index(14, "greet", 16, 0), Local("exprLocal", 15, "obj", 7),
    N("statFunction", 13), Local("local", 17, "inner", 11), Typed("function", 17, 11),
    Call(19, 21), Index(20, "greet", 22, 9), Local("exprLocal", 21, "B", 4),
    Call(0, 24), Global(23, "main", 10), Index(0, "typo", 26, 0), Local("exprLocal", 25, "obj", 8),
    Call(0, 28), Global(27, "require", 0), Named("string", 27, "Base")>>

\* The object has a greet of its own, or reaches the class through one more
\* class in between.
ClassTypes(own, between) == <<
    Table(<<"Base", 2>>, {Property("size", 0, <<"Base", 3>>), Property("greet", 2, <<"Base", 5>>)}),
    Function(<<"Base", 5>>), Function(<< >>),
    Table(<<"Base", 2>>, {Property("size", 0, <<"Base", 3>>), Property("greet", 9, <<"Base", 5>>)}),
    Table(<< >>, {Property("__index", IF between THEN 12 ELSE 4, << >>)}),
    Table(<<"Main", 3>>, {Property("name", 0, <<"Main", 4>>)}
                         \union (IF own THEN {Property("greet", 9, <<"Main", 4>>)} ELSE {})),
    Meta(6, 5), Union({6, 7}), Function(<<"Base", 5>>), Function(<<"Main", 12>>), Function(<<"Main", 18>>),
    Meta(13, 14), Table(<<"Main", 2>>, {}), Table(<< >>, {Property("__index", 4, << >>)})>>

Symbols == {"none", "require", "Base", "print", "B", "obj", "main", "inner", "T"}

ClassProgram(own, between, open) ==
    [nodes |-> [Base |-> BaseModule, Main |-> MainModule],
     requires |-> [Base |-> {}, Main |-> {"Base", "Missing"}],
     imports |-> [Base |-> << >>, Main |-> << >>],
     types |-> ClassTypes(own, between),
     symTy |-> [s \in Symbols |-> CASE s = "Base" -> 1 [] s = "B" -> 4 [] s = "obj" -> 7 [] s = "main" -> 10
                                    [] s = "inner" -> 11 [] OTHER -> 0],
     returned |-> [Base |-> {1}, Main |-> {10}],
     open |-> open]

\* type Foo<a> = {x: X, f: <b>(X, <c>(X) -> ())}; type X = Foo; function<a>(X) local y: X end
TypesModule(a, b, c) == <<
    [Named("alias", 0, "Foo") EXCEPT !.exported = TRUE], Named("generic", 1, a),
    Typed("typeTable", 1, 1), Named("prop", 3, "x"), Ref(4, "", "X"),
    N("typeFunction", 3), Named("generic", 6, b), Ref(6, "", "X"),
    N("typeFunction", 6), Named("generic", 9, c), Ref(9, "", "X"),
    Named("alias", 0, "X"), Ref(12, "", "Foo"),
    N("statFunction", 0), Local("local", 14, "inner", 0), N("function", 14),
    Named("generic", 16, a), Ref(16, "", "X"), N("statLocal", 16), Ref(19, "", "X")>>

\* local T = require(Types); type Foo = T.Foo; return T :: Foo
UserModule == <<Local("local", 0, "T", 0), Named("alias", 0, "Foo"), Ref(2, "T", "Foo"),
                N("other", 0), Local("exprLocal", 4, "T", 0), Ref(4, "", "Foo")>>

TypesProgram(a, b, c) ==
    [nodes |-> [Types |-> TypesModule(a, b, c), User |-> UserModule],
     requires |-> [Types |-> {}, User |-> {"Types"}],
     imports |-> [Types |-> << >>, User |-> [T |-> "Types"]],
     types |-> <<Table(<<"Types", 3>>, {Property("x", 0, <<"Types", 4>>)})>>,
     symTy |-> [s \in Symbols |-> 0],
     returned |-> [Types |-> {}, User |-> {}],
     open |-> {"Types", "User"}]

GraphProgram(requires) ==
    [nodes |-> [A |-> << >>, B |-> << >>],
     requires |-> requires,
     imports |-> [A |-> << >>, B |-> << >>],
     types |-> << >>, symTy |-> [s \in Symbols |-> 0],
     returned |-> [A |-> {}, B |-> {}], open |-> {"A", "B"}]

MCPrograms ==
    {ClassProgram(own, between, open) : own \in BOOLEAN, between \in BOOLEAN, open \in {{"Base", "Main"}, {"Main"}}}
    \union {TypesProgram(a, b, c) : a \in {"X", "Y"}, b \in {"X", "Y"}, c \in {"X", "Y"}}
    \union {GraphProgram(r) : r \in [{"A", "B"} -> SUBSET {"A", "B", "Missing"}]}

MCNewNames == {"fresh", ""}

=============================================================================
