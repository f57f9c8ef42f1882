----------------------------- MODULE References -----------------------------
(***************************************************************************)
(* Requests that follow a name through the modules of a workspace          *)
(* (operations/References.cpp, Rename.cpp, GotoDefinition.cpp,             *)
(* CallHierarchy.cpp, RequireGraph.cpp, and the searches of LuauExt.cpp    *)
(* they are built from).                                                   *)
(*                                                                         *)
(* A checked workspace is data.  A module is a sequence of syntax nodes in *)
(* source order, each with the node above it ("up", 0 at the top); a       *)
(* position is a node; a location is a node and the part of it that is     *)
(* meant.  Types are numbered: Luau's inference, which gives them to the   *)
(* nodes, is outside the repository.  Type packs are treated like types.   *)
(***************************************************************************)
EXTENDS Integers, FiniteSets, SequencesExt

CONSTANTS
    Programs,    \* the workspaces, see IsWorkspace
    NewNames     \* names a rename is asked for: "fresh", or "" for one that is no identifier

VARIABLES
    program,     \* [nodes, requires, imports, types, symTy, returned, open]
    request,     \* the request that is answered
    answer       \* and its answer: [error |-> a message or "", found |-> a set]

vars == <<program, request, answer>>

\* "other" are the expressions that no search looks for, such as a type assertion.
Exprs == {"exprLocal", "exprGlobal", "function", "index", "indexExpr", "string", "table", "call", "other"}
Binders == {"alias", "typeFunction", "function"}

\* The nodes around a node, itself included.
AroundIn(nodes, i) ==
    LET around[j \in 0..i] == IF j = 0 THEN {} ELSE {j} \union around[nodes[j].up]
    IN  around[i]

Nearest(S) == CHOOSE j \in S \union {0} : \A k \in S : k <= j

\* A node stands behind the one above it, and where Luau's grammar allows it: a
\* type parameter in what declares it, a type in a function or an expression
\* that is no name and no string, an exported alias at the top of its module.
IsTree(nodes) ==
    /\ Len(nodes) \in Nat /\ DOMAIN nodes = 1..Len(nodes)
    /\ \A i \in DOMAIN nodes :
          LET n == nodes[i]
              around == AroundIn(nodes, i)
              above(j) == IF nodes[j].up = 0 THEN "none" ELSE nodes[nodes[j].up].kind
              expr == Nearest({j \in around : nodes[j].kind \in Exprs \union {"local"}})
          IN  /\ n.up \in 0..(i - 1)
              /\ n.kind \in {"call", "index", "indexExpr"} => n.of \in DOMAIN nodes
              /\ n.kind = "local" => n.sym # "none"
              /\ n.kind = "generic" => above(i) \in Binders
              /\ n.kind = "prop" => above(i) = "typeTable"
              /\ n.kind = "alias" /\ n.exported => n.up = 0
              /\ n.kind = "typeRef" => above(i) # "call"
              /\ n.kind \in {"typeRef", "generic"} /\ expr # 0 => nodes[expr].kind \in {"function", "table", "call", "indexExpr", "other"}
              /\ n.kind = "call" => \A j \in around : above(j) = "statFunction" => nodes[j].kind = "function"

\* What the checker gives a workspace: the types its nodes have, with those that
\* they are made of; functions have function types, and a table that has a
\* property with a location has one.
IsTyped(p) ==
    LET Types == DOMAIN p.types
        type(t) == p.types[t]
    IN  /\ IsFiniteSet(Types)
        /\ \A m \in DOMAIN p.nodes : \A i \in DOMAIN p.nodes[m] :
              LET n == p.nodes[m][i]
              IN  n.ty # 0 => n.ty \in Types /\ (n.kind = "function" => type(n.ty).kind = "function")
        /\ \A t \in Types :
              /\ type(t).kind = "metatable" => {type(t).table, type(t).metatable} \subseteq Types
              /\ type(t).kind = "union" => type(t).options \subseteq Types
              /\ \A q \in type(t).props :
                    /\ q.name = "__index" => q.ty \in Types
                    /\ type(t).kind = "table" /\ q.loc # << >> => type(t).def # << >>

IsWorkspace(p) ==
    LET mods == DOMAIN p.nodes
    IN  /\ IsFiniteSet(mods) /\ p.open \subseteq mods
        /\ \A m \in mods : IsTree(p.nodes[m]) /\ IsFiniteSet(p.requires[m])
        /\ \A m \in mods : \A name \in DOMAIN p.imports[m] : p.imports[m][name] \in mods
        /\ IsTyped(p)

ASSUME ReferencesAssumption == \A p \in Programs : IsWorkspace(p)

Modules == DOMAIN program.nodes
Nodes(m) == DOMAIN program.nodes[m]
Node(m, i) == program.nodes[m][i]
Kind(m, i) == Node(m, i).kind

Around(m, i) == AroundIn(program.nodes[m], i)
Below(m, i) == {j \in Nodes(m) : i \in Around(m, j)}

At(m, i) == [module |-> m, node |-> i, part |-> "name"]
PrefixAt(m, i) == [At(m, i) EXCEPT !.part = "prefix"]
WholeAt(m, i) == [At(m, i) EXCEPT !.part = "whole"]

IsSingle(S) == \E x \in S : S = {x}

\* What is reached from some things, in any number of steps.
Reached(from, next) ==
    LET round[n \in 0..Cardinality(DOMAIN next)] ==
            IF n = 0 THEN from
            ELSE LET before == round[n - 1] IN before \union UNION {next[x] : x \in before}
    IN  round[Cardinality(DOMAIN next)]

-----------------------------------------------------------------------------
(* Types.                                                                  *)

Type(t) == program.types[t]
Prop(t, name) == {p \in Type(t).props : p.name = name}
BaseTable(t) == IF Type(t).kind = "metatable" THEN Type(t).table ELSE t

IsSameTableDirect(a, b) ==
    LET s == BaseTable(a)
        t == BaseTable(b)
    IN  \/ a = b \/ s = t
        \/ /\ Type(s).kind = "table" /\ Type(t).kind = "table"
           /\ Type(s).def # << >> /\ Type(s).def = Type(t).def

\* What a table takes the properties from that it does not have itself.
Behind(t) ==
    LET meta == Type(t).metatable IN
    CASE Type(t).kind # "metatable" -> {}
      [] Type(t).kind = "metatable" /\ Type(meta).kind = "table" -> {p.ty : p \in Prop(meta, "__index")}
      [] OTHER -> {meta} \intersect {u \in DOMAIN program.types : Type(u).kind = "metatable"}

\* Each metatable is visited once.
TableIsRelatedViaMetatable(mt, target) ==
    \E t \in Reached(Behind(mt), [u \in DOMAIN program.types |-> Behind(u)]) : IsSameTableDirect(t, target)

IsSameTable(a, b) ==
    \/ IsSameTableDirect(a, b)
    \/ TableIsRelatedViaMetatable(a, b)
    \/ TableIsRelatedViaMetatable(b, a)

IsSameFunction(a, b) ==
    \/ a = b
    \/ /\ Type(a).kind = "function" /\ Type(b).kind = "function"
       /\ Type(a).def # << >> /\ Type(a).def = Type(b).def

\* lookupProp: the tables a property may be found in, with the property.  No type
\* is looked into twice.
LookupProp(t, name) ==
    LET found(b) == {[base |-> b, prop |-> p] : p \in {q \in Prop(b, name) : Type(b).kind = "table"}}
        here(u) == CASE Type(u).kind = "table" -> found(u)
                     [] Type(u).kind = "metatable" -> found(Type(u).table)
                     [] OTHER -> {}
        next(u) == CASE Type(u).kind = "union" -> Type(u).options
                     [] Type(u).kind = "metatable" /\ here(u) = {} /\ Type(Type(u).metatable).kind = "table" ->
                           {v \in Behind(u) : Type(v).kind \in {"table", "metatable"}}
                     [] OTHER -> {}
    IN  UNION {here(u) : u \in Reached({t}, [u \in DOMAIN program.types |-> next(u)])}

-----------------------------------------------------------------------------
(* Searches of one module.                                                 *)

\* findExprOrLocalAtPositionClosed, findNodeOrTypeAtPositionClosed: neither
\* stops at a generic or at a property of a table type.
ExprOrLocalAt(m, i) == Nearest({j \in Around(m, i) : Kind(m, j) \in Exprs \union {"local"}})
NodeOrTypeAt(m, i) == Nearest({j \in Around(m, i) : Kind(m, j) \notin {"generic", "prop", "local"}})

SymbolAt(m, i) ==
    LET j == ExprOrLocalAt(m, i)
    IN  IF j # 0 /\ Kind(m, j) \in {"local", "exprLocal", "exprGlobal"} THEN Node(m, j).sym ELSE "none"

\* A type prefix is compared by name with the symbol, if that is a local.
FindSymbolReferences(m, sym) ==
    LET uses == {j \in Nodes(m) : Node(m, j).sym = sym}
        names == {Node(m, j).name : j \in {k \in uses : Kind(m, k) = "local"}}
    IN  {At(m, j) : j \in uses}
        \union {PrefixAt(m, j) : j \in {k \in Nodes(m) : Kind(m, k) = "typeRef" /\ Node(m, k).prefix \in names}}

FindTypeReferences(m, name, prefix) ==
    {At(m, j) : j \in {k \in Nodes(m) : /\ Kind(m, k) = "typeRef"
                                        /\ Node(m, k).name = name
                                        /\ Node(m, k).prefix = prefix}}

Generics(m, i) == {j \in Nodes(m) : Node(m, j).up = i /\ Kind(m, j) = "generic"}

\* Mutant: a type parameter of an inner function type hides nothing.
HiddenNowhere(m, i, name, j) == FALSE

\* The visit turns back at a function type that declares the name again.
Hidden(m, i, name, j) ==
    \E k \in Around(m, j) \ Around(m, i) :
        /\ Kind(m, k) = "typeFunction"
        /\ \E g \in Generics(m, k) : Node(m, g).name = name

\* FindTypeParameterUsages
FindTypeParameterUsages(m, i, name) ==
    {At(m, j) : j \in {k \in Below(m, i) : /\ Kind(m, k) \in {"generic", "typeRef"}
                                           /\ Node(m, k).name = name
                                           /\ ~Hidden(m, i, name, k)}}

-----------------------------------------------------------------------------
(* Searches of all modules.                                                *)

FindReverseDependencies(m) == Reached({m}, [n \in Modules |-> {d \in Modules : n \in program.requires[d]}])

FindAllFunctionReferences(t) ==
    LET def == Type(t).def
        uses(m) == {j \in Nodes(m) : /\ Kind(m, j) \in Exprs \ {"function"}
                                     /\ Node(m, j).ty # 0 /\ IsSameFunction(t, Node(m, j).ty)}
    IN  IF def = << >> THEN {}
        ELSE {At(def[1], def[2])}
             \union UNION {{WholeAt(m, j) : j \in uses(m)} : m \in FindReverseDependencies(def[1])}

\* What a search for a property looks at: the name of an index, the string of
\* an index in brackets, the keys of a table, the properties of a table type.
Owner(m, j) ==
    LET up == Node(m, j).up IN
    CASE Kind(m, j) = "index" -> Node(m, Node(m, j).of).ty
      [] Kind(m, j) = "string" /\ up # 0 /\ Kind(m, up) = "indexExpr" -> Node(m, Node(m, up).of).ty
      [] Kind(m, j) = "string" /\ up # 0 /\ Kind(m, up) = "table" -> Node(m, up).ty
      [] Kind(m, j) = "prop" -> Node(m, up).ty
      [] OTHER -> 0

\* Mutant: a class and its instances are different tables.
DefiningItself(t, name) == t

\* The table the property is defined in, if the lookup finds exactly one.
Defining(t, name) ==
    LET found == LookupProp(t, name)
    IN  IF IsSingle(found) THEN (CHOOSE f \in found : TRUE).base ELSE t

FindAllPropertyReferences(owner, name) ==
    LET t == Defining(owner, name)
        named(m) == {j \in Nodes(m) : Node(m, j).name = name /\ Owner(m, j) # 0 /\ IsSameTable(t, Owner(m, j))}
        declared == {f.prop.loc : f \in LookupProp(t, name)} \ {<< >>}
    IN  IF Type(t).kind # "table" \/ Type(t).def = << >> THEN {}
        ELSE {At(l[1], l[2]) : l \in declared}
             \union UNION {{At(m, j) : j \in named(m)} : m \in FindReverseDependencies(Type(t).def[1])}

FindAllTableReferences(t) ==
    LET uses(m) == {j \in Nodes(m) : /\ Kind(m, j) \in Exprs \union {"typeTable", "typeRef"}
                                     /\ Node(m, j).ty # 0 /\ IsSameTable(t, Node(m, j).ty)}
    IN  IF Type(t).def = << >> THEN {}
        ELSE UNION {{WholeAt(m, j) : j \in uses(m)} : m \in FindReverseDependencies(Type(t).def[1])}

\* Dependents are searched for one of the names they import the module by.
FindAllTypeReferences(m, name) ==
    LET aliases == {j \in Nodes(m) : Kind(m, j) = "alias" /\ Node(m, j).up = 0 /\ Node(m, j).name = name}
        names(d) == {n \in DOMAIN program.imports[d] : program.imports[d][n] = m}
    IN  FindTypeReferences(m, name, "") \union {At(m, j) : j \in aliases}
        \union UNION {FindTypeReferences(d, name, CHOOSE n \in names(d) : TRUE) :
                         d \in {e \in FindReverseDependencies(m) \ {m} : names(e) # {}}}

-----------------------------------------------------------------------------
(* textDocument/references and textDocument/rename.                        *)

\* A type parameter declared by node j, asked for at one of its generics.
GenericAt(m, i, j) ==
    Kind(m, i) = "generic" /\ Kind(m, j) \in Binders /\ Node(m, i).up = j

Binding(m, i, S) ==
    Nearest({j \in S : Kind(m, j) \in Binders /\ \E g \in Generics(m, j) : Node(m, g).name = Node(m, i).name})

\* The walk up from a use, which ends at the first node that is no type.
BinderOf(m, i) ==
    LET end == Nearest({j \in Around(m, i) : Kind(m, j) \notin {"typeRef", "typeFunction", "typeTable", "prop"}})
    IN  Binding(m, i, {j \in Around(m, i) : j >= end})

TypeReferences(m, i) ==
    LET j == NodeOrTypeAt(m, i)
        n == Node(m, j)
        aliases == {k \in Nodes(m) : Kind(m, k) = "alias" /\ Node(m, k).name = n.name}
    IN  IF j = 0 THEN {}
        ELSE IF GenericAt(m, i, j) THEN FindTypeParameterUsages(m, j, Node(m, i).name)
        ELSE IF n.kind = "alias"
             THEN IF n.exported THEN FindAllTypeReferences(m, n.name)
                  ELSE FindTypeReferences(m, n.name, "") \union {At(m, j)}
        ELSE IF n.kind = "typeRef" /\ n.prefix # ""
             THEN IF n.prefix \in DOMAIN program.imports[m]
                  THEN FindAllTypeReferences(program.imports[m][n.prefix], n.name) ELSE {}
        ELSE IF n.kind = "typeRef"
             THEN IF BinderOf(m, j) # 0 THEN FindTypeParameterUsages(m, BinderOf(m, j), n.name)
                  ELSE FindTypeReferences(m, n.name, "") \union {At(m, k) : k \in aliases}
        ELSE IF Kind(m, i) = "prop" THEN FindAllPropertyReferences(n.ty, Node(m, i).name)
        ELSE {}

SymbolReferences(m, sym) ==
    LET t == program.symTy[sym]
        isReturned == t # 0 /\ \E r \in program.returned[m] : IsSameTable(t, r) \/ IsSameFunction(t, r)
    IN  IF ~isReturned THEN FindSymbolReferences(m, sym)
        ELSE IF Type(t).kind = "function" THEN FindAllFunctionReferences(t)
        ELSE IF Type(t).kind = "table" THEN FindAllTableReferences(t) ELSE {}

\* WorkspaceFolder::references
ReferencesAt(m, i) ==
    LET j == ExprOrLocalAt(m, i) IN
    IF SymbolAt(m, i) # "none" THEN SymbolReferences(m, SymbolAt(m, i))
    ELSE IF j # 0 /\ Owner(m, j) # 0 THEN FindAllPropertyReferences(Owner(m, j), Node(m, j).name)
    ELSE TypeReferences(m, i)

\* getReferencesForRenaming: a symbol is renamed in its own file only.
ReferencesForRenaming(m, i) ==
    IF SymbolAt(m, i) # "none" THEN FindSymbolReferences(m, SymbolAt(m, i)) ELSE ReferencesAt(m, i)

\* getAdjustedRangeIfQuotedString: within a string that is not the plain key of
\* a table item only the text between the quotes is replaced.
Adjusted(l) ==
    LET n == Node(l.module, l.node)
        isKey == n.up # 0 /\ Kind(l.module, n.up) = "table"
    IN  IF n.kind = "string" /\ (isKey => n.quoted) THEN [l EXCEPT !.part = "between quotes"] ELSE l

\* A global of a definition file has no location in any file.
IsGlobalBinding(m, i) ==
    SymbolAt(m, i) # "none" /\ \A d \in Modules : \A j \in Nodes(d) :
        Node(d, j).sym = SymbolAt(m, i) => Kind(d, j) = "exprGlobal" /\ ~Node(d, j).assigned

-----------------------------------------------------------------------------
(* textDocument/definition and textDocument/typeDefinition.                *)

Located(locs) == {At(l[1], l[2]) : l \in locs \ {<< >>}}

\* findLocationsForIndex: a name behind a dot or a string in brackets.
IndexDefinitions(m, j) ==
    LET keys == {k \in Nodes(m) : Node(m, k).up = j /\ Kind(m, k) = "string"}
        at == IF Kind(m, j) = "index" THEN {j} ELSE IF Kind(m, j) = "indexExpr" THEN keys ELSE {}
    IN  Located(UNION {{f.prop.loc : f \in LookupProp(Owner(m, k), Node(m, k).name)} :
                          k \in {l \in at : Owner(m, l) # 0}})

TypeAliases(m, name) == {At(m, k) : k \in {l \in Nodes(m) : Kind(m, l) = "alias" /\ Node(m, l).name = name}}

\* Mutant: the prefix of a type is ignored.
UnprefixedDefinitions(m, j) == TypeAliases(m, Node(m, j).name)

\* lookupImportedModule and the exported types of that module, or
\* lookupTypeLocation.
TypeRefDefinitions(m, j) ==
    LET n == Node(m, j) IN
    IF n.prefix = "" THEN TypeAliases(m, n.name)
    ELSE IF n.prefix \in DOMAIN program.imports[m]
         THEN {l \in TypeAliases(program.imports[m][n.prefix], n.name) : Node(l.module, l.node).exported}
    ELSE {}

\* The symbol a position binds, through to the function it holds.
BindingDefinitions(m, sym) ==
    LET t == program.symTy[sym] IN
    IF t # 0 /\ Type(t).kind = "function" /\ Type(t).def # << >> THEN Located({Type(t).def})
    ELSE {At(m, j) : j \in {k \in Nodes(m) : Node(m, k).sym = sym /\ (Kind(m, k) = "local" \/ Node(m, k).assigned)}}

\* The argument of a require leads to the start of that module.
RequiredModule(m, j) ==
    LET up == Node(m, j).up IN
    {At(Node(m, j).name, 0) : k \in {l \in {up} \ {0} : /\ Kind(m, l) = "call"
                                                        /\ Node(m, Node(m, l).of).name = "require"
                                                        /\ Node(m, j).name \in program.requires[m]}}

GotoDefinition(m, i) ==
    LET j == NodeOrTypeAt(m, i)
        found == IF j = 0 THEN {}
                 ELSE IF Kind(m, j) = "typeRef" THEN TypeRefDefinitions(m, j) ELSE IndexDefinitions(m, j)
    IN  IF SymbolAt(m, i) # "none"
        THEN IF IsGlobalBinding(m, i) THEN {} ELSE BindingDefinitions(m, SymbolAt(m, i))
        ELSE IF found # {} \/ j = 0 THEN found ELSE RequiredModule(m, j)

GotoTypeDefinition(m, i) ==
    LET j == NodeOrTypeAt(m, i)
        aliased == {k \in Nodes(m) : Node(m, k).up = j /\ Kind(m, k) = "typeRef"}
        t == IF j = 0 THEN 0 ELSE Node(m, j).ty
    IN  IF j = 0 THEN {}
        ELSE IF Kind(m, j) = "typeRef" THEN TypeRefDefinitions(m, j)
        ELSE IF Kind(m, j) = "alias" THEN UNION {TypeRefDefinitions(m, k) : k \in aliased}
        ELSE IF Kind(m, j) \in Exprs /\ t # 0 THEN Located({Type(BaseTable(t)).def})
        ELSE {}

-----------------------------------------------------------------------------
(* The call hierarchy.  An item is the function node of a module.          *)

\* FindAllCallsVisitor
CallsIn(m, i) == {j \in Nodes(m) : Kind(m, j) = "call" /\ (i = 0 \/ i \in Around(m, j))}

\* Mutant: the calls at the top of a module include those in its functions.
AllCalls(m, i) == CallsIn(m, i)

\* Without the calls in functions declared inside.
OwnCalls(m, i) ==
    {j \in CallsIn(m, i) :
        \A k \in Around(m, j) \ (IF i = 0 THEN {} ELSE Around(m, i)) : Kind(m, k) # "statFunction"}

LookupFunctionCallType(m, c) ==
    LET f == Node(m, Node(m, c).of)
        found == LookupProp(Owner(m, Node(m, c).of), f.name)
    IN  IF f.ty # 0 THEN f.ty
        ELSE IF f.kind = "index" /\ Owner(m, Node(m, c).of) # 0 /\ IsSingle(found)
             THEN (CHOOSE p \in found : TRUE).prop.ty
        ELSE 0

\* FindAllFunctionsVisitor: the functions of statements.
DeclaredFunctions(m) ==
    {j \in Nodes(m) : Kind(m, j) = "function" /\ Node(m, j).up # 0 /\ Kind(m, Node(m, j).up) = "statFunction"}

IncomingCalls(m, f) ==
    LET t == Node(m, f).ty
        matching(d, i) == {c \in OwnCalls(d, i) : /\ LookupFunctionCallType(d, c) # 0
                                                  /\ IsSameFunction(LookupFunctionCallType(d, c), t)}
    IN  UNION {{[module |-> d, from |-> i, calls |-> matching(d, i)] :
                   i \in {k \in DeclaredFunctions(d) \union {0} : matching(d, k) # {}}} :
               d \in FindReverseDependencies(m)}

OutgoingCalls(m, f) ==
    LET calls(t) == {c \in CallsIn(m, f) : LookupFunctionCallType(m, c) = t}
        called == {LookupFunctionCallType(m, c) : c \in CallsIn(m, f)} \ {0}
    IN  {[to |-> Type(t).def, calls |-> calls(t)] :
            t \in {u \in called : Type(u).kind = "function" /\ Type(u).def # << >>}}

-----------------------------------------------------------------------------
(* The require graph.                                                      *)

\* Mutant: only the first require of a module draws an edge to it.
EdgesOfNew(m, seen) == {<<m, r>> : r \in program.requires[m] \ seen}

EdgesFrom(m, seen) == {<<m, r>> : r \in program.requires[m]}

\* computeRequireGraphFromRoot: its queue holds modules more than once; a
\* required module that does not exist is a node without edges.  Every require is
\* queued once, so that many turns are enough.
GraphFrom(root) ==
    LET turns == 1 + Cardinality(UNION {EdgesFrom(m, {}) : m \in Modules})
        after(g) ==
            LET m == Head(g.queue)
                seen == Range(g.nodes)
                new == IF m \in Modules THEN EdgesFrom(m, seen \union {m}) ELSE {}
            IN  IF g.queue = << >> THEN g
                ELSE IF m \in seen THEN [g EXCEPT !.queue = Tail(@)]
                ELSE [queue |-> Tail(g.queue) \o SetToSeq({e[2] : e \in new}),
                      nodes |-> Append(g.nodes, m), edges |-> g.edges \union new]
        graph[n \in 0..turns] ==
            IF n = 0 THEN [queue |-> <<root>>, nodes |-> << >>, edges |-> {}] ELSE after(graph[n - 1])
    IN  graph[turns]

\* computeFullRequireGraph
FullGraph ==
    [nodes |-> SetToSeq(Modules), edges |-> UNION {EdgesFrom(m, {}) : m \in Modules}]

\* requireGraphToDot: modules are numbered from 0, and a module that is not
\* among the nodes gets the number 0.
GraphToDot(graph) ==
    LET ids(m) == {k - 1 : k \in {j \in DOMAIN graph.nodes : graph.nodes[j] = m}}
        id(m) == IF ids(m) = {} THEN 0 ELSE CHOOSE k \in ids(m) : \A j \in ids(m) : j <= k
    IN  [labels |-> graph.nodes, edges |-> {<<id(e[1]), id(e[2])>> : e \in graph.edges}]


-----------------------------------------------------------------------------
(* Requests.                                                               *)

Answer(req, error, found) ==
    /\ request' = req
    /\ answer' = [error |-> error, found |-> IF error = "" THEN found ELSE {}]
    /\ UNCHANGED program

Positions == UNION {{At(m, i) : i \in Nodes(m)} : m \in Modules}

\* getTextDocument: a request for a document that is not open is an error.
FindReferences ==
    \E at \in Positions :
        Answer([kind |-> "references", at |-> at],
               IF at.module \in program.open THEN "" ELSE "no document", ReferencesAt(at.module, at.node))

RenameSymbol ==
    \E at \in Positions, name \in NewNames :
        LET found == ReferencesForRenaming(at.module, at.node)
        IN  Answer([kind |-> "rename", at |-> at, name |-> name],
                   IF name = "" THEN "not an identifier"
                   ELSE IF at.module \notin program.open THEN "no document"
                   ELSE IF IsGlobalBinding(at.module, at.node) THEN "global"
                   ELSE IF found = {} THEN "no symbol" ELSE "",
                   {Adjusted(l) : l \in found})

\* getTextDocument as for the references.
GotoRequest ==
    \E at \in Positions :
        LET error == IF at.module \in program.open THEN "" ELSE "no document"
        IN  \/ Answer([kind |-> "definition", at |-> at], error, GotoDefinition(at.module, at.node))
            \/ Answer([kind |-> "typeDefinition", at |-> at], error, GotoTypeDefinition(at.module, at.node))

\* prepareCallHierarchy answers with the definition of the function's type.
PrepareCallHierarchy ==
    \E at \in Positions :
        LET j == ExprOrLocalAt(at.module, at.node)
            t == IF j = 0 THEN 0 ELSE Node(at.module, j).ty
        IN  /\ at.module \in program.open
            /\ t # 0 /\ Type(t).kind = "function" /\ Type(t).def # << >>
            /\ Answer([kind |-> "prepare", at |-> at], "", {Type(t).def})

\* The client asks about a function it was shown, at the place it was given.
CallHierarchy ==
    /\ request.kind = "prepare"
    /\ \E def \in {d \in answer.found : d[1] \in Modules} :
       \E f \in {j \in Nodes(def[1]) : Kind(def[1], j) = "function" /\ Node(def[1], j).ty # 0} :
          /\ Type(Node(def[1], f).ty).def = def
          /\ \/ Answer([kind |-> "incoming", at |-> At(def[1], f)], "", IncomingCalls(def[1], f))
             \/ Answer([kind |-> "outgoing", at |-> At(def[1], f)], "", OutgoingCalls(def[1], f))

RequireGraph ==
    \E m \in program.open, fromTextDocumentOnly \in BOOLEAN :
        LET graph == IF fromTextDocumentOnly THEN GraphFrom(m) ELSE FullGraph
        IN  Answer([kind |-> "graph", at |-> At(m, 0), from |-> fromTextDocumentOnly], "", GraphToDot(graph))

Init ==
    /\ program \in Programs
    /\ request = [kind |-> "none"]
    /\ answer = [error |-> "", found |-> {}]

\* A request changes nothing but its answer, so a behaviour asks once and, about
\* a function it was shown, once more.
Next ==
    \/ /\ request.kind = "none"
       /\ FindReferences \/ RenameSymbol \/ GotoRequest \/ PrepareCallHierarchy \/ RequireGraph
    \/ CallHierarchy

Spec == Init /\ [][Next]_vars

-----------------------------------------------------------------------------
(* Properties.                                                             *)

Here == request.at.module
There == request.at.node

\* The locations a use of a property stands for, by the language's lookup.
Declares(m, j) == {f.prop.loc : f \in LookupProp(Owner(m, j), Node(m, j).name)}

\* Two tables on one chain of metatables have the property, and the searches
\* do not tell them apart.
Overridden(name) ==
    \E a, b \in DOMAIN program.types : /\ IsSameTable(a, b)
                                       /\ {p.loc : p \in Prop(BaseTable(a), name)} # {p.loc : p \in Prop(BaseTable(b), name)}
                                       /\ Prop(BaseTable(a), name) # {} /\ Prop(BaseTable(b), name) # {}

\* References of a property are the same from wherever one asks: its
\* declaration and exactly the uses, in all modules, that the lookup takes
\* there, through an instance, a subclass, brackets or a table type alike.
PropertyUsesAreFound ==
    request.kind = "references" /\ answer.error = "" =>
        LET j == ExprOrLocalAt(Here, There)
            i == IF Kind(Here, There) = "prop" THEN There ELSE j
            name == Node(Here, i).name
            declared == Declares(Here, i)
            uses(m) == {k \in Nodes(m) : Node(m, k).name = name /\ Owner(m, k) # 0 /\ Declares(m, k) = declared}
        IN  i # 0 /\ Owner(Here, i) # 0 /\ IsSingle(declared) /\ ~Overridden(name)
            => answer.found = {At(l[1], l[2]) : l \in declared} \union UNION {{At(m, k) : k \in uses(m)} : m \in Modules}

\* What a type name stands for when node i of module m is called name: its
\* binder, or the aliases of the module it is looked up in.
Meaning(m, i, called) ==
    LET nameOf(d, k) == called[At(d, k)]
        binders == {j \in Around(m, i) : Kind(m, j) \in Binders /\ \E g \in Generics(m, j) : nameOf(m, g) = nameOf(m, i)}
        aliases(d) == {At(d, k) : k \in {l \in Nodes(d) : Kind(d, l) = "alias" /\ nameOf(d, l) = nameOf(m, i)}}
        imported == {program.imports[m][n] : n \in {Node(m, i).prefix} \intersect DOMAIN program.imports[m]}
    IN  IF Node(m, i).prefix # "" THEN UNION {aliases(d) : d \in imported}
        ELSE IF binders # {} THEN {At(m, Nearest(binders))} ELSE aliases(m)

\* Renaming a type parameter, where it is declared or used, to a name that is new
\* changes only names that stand for it and leaves every type name of the
\* workspace with the meaning it had, whatever parameters of inner function types
\* are called.  Excluded are uses in the body of a function, whose binder the walk
\* does not reach, and what the visit does not notice: inner functions and aliases
\* that declare the name again, and a prefix before the name.
TypeNamesKeepMeaning ==
    request.kind = "rename" /\ answer.error = "" =>
        LET old == [l \in Positions |-> Node(l.module, l.node).name]
            new == [l \in Positions |-> IF l \in answer.found THEN request.name ELSE old[l]]
            typeRefs == {l \in Positions : Kind(l.module, l.node) = "typeRef"}
            binder == IF Kind(Here, There) = "generic" THEN Node(Here, There).up ELSE BinderOf(Here, There)
            again == {k \in Below(Here, binder) \ {binder} : Kind(Here, k) \in {"alias", "function"}}
        IN  /\ Kind(Here, There) \in {"generic", "typeRef"} /\ binder # 0
            /\ \A l \in Positions : old[l] # request.name
            /\ \A k \in again, g \in Nodes(Here) : g \in Generics(Here, k) => old[At(Here, g)] # old[request.at]
            /\ \A k \in Below(Here, binder) \union {There} :
                  Kind(Here, k) = "typeRef" /\ old[At(Here, k)] = old[request.at] => Node(Here, k).prefix = ""
            => \A l \in typeRefs :
                  /\ Meaning(l.module, l.node, new) = Meaning(l.module, l.node, old)
                  /\ l \in answer.found => Meaning(l.module, l.node, old) = {At(Here, binder)}

\* The definition of a property or of a type name is among its references, so
\* that a rename from any use renames the definition with it.  Excluded are
\* properties that the lookup finds in several tables or without a location, and
\* type parameters, for which the definition is the alias that happens to have
\* their name.
DefinitionsAreReferences ==
    request.kind = "definition" /\ answer.error = "" /\ SymbolAt(Here, There) = "none" =>
        LET j == NodeOrTypeAt(Here, There)
            isType == Kind(Here, j) = "typeRef" /\ BinderOf(Here, j) = 0
            found == LookupProp(Owner(Here, j), Node(Here, j).name)
            isProperty == /\ Kind(Here, j) = "index" /\ Owner(Here, j) # 0
                          /\ IsSingle(found) /\ \A f \in found : f.prop.loc # << >>
        IN  j # 0 /\ (isType \/ isProperty) => answer.found \subseteq ReferencesAt(Here, There)

\* Callers and callees agree: the incoming calls of a function are each found
\* once, in the innermost declared function around them or at the top of its
\* module, and that function lists them among its outgoing calls.
CallsAgree ==
    request.kind = "incoming" =>
        LET t == Node(Here, There).ty
            callsOf(d) == {c \in CallsIn(d, 0) : /\ LookupFunctionCallType(d, c) # 0
                                                 /\ IsSameFunction(LookupFunctionCallType(d, c), t)}
        IN  /\ \A d \in FindReverseDependencies(Here) : \A c \in callsOf(d) :
                  Cardinality({e \in answer.found : e.module = d /\ c \in e.calls}) = 1
            /\ \A e \in {f \in answer.found : f.from # 0} : \A c \in e.calls :
                  \E o \in OutgoingCalls(e.module, e.from) : o.to = Type(t).def /\ c \in o.calls

\* The graph from a module has every module it requires, directly or not,
\* once, and draws exactly the requires between them; the full graph does so
\* when no module requires one that does not exist.
GraphsShowRequires ==
    request.kind = "graph" =>
        LET label(k) == answer.found.labels[k + 1]
            shown == {answer.found.labels[k] : k \in DOMAIN answer.found.labels}
            requires(m) == IF m \in Modules THEN program.requires[m] ELSE {}
        IN  \/ ~request.from /\ \E m \in Modules : ~(program.requires[m] \subseteq Modules)
            \/ /\ IsInjective(answer.found.labels)
               /\ Here \in shown
               /\ \A m \in shown : requires(m) \subseteq shown
               /\ {<<label(e[1]), label(e[2])>> : e \in answer.found.edges} = UNION {{<<m, r>> : r \in requires(m)} : m \in shown}

=============================================================================
