-------------------------- MODULE ReferencesProofs --------------------------
(***************************************************************************)
(* What the answers about names, calls and requires have in common, for    *)
(* workspaces of any size that the parser and the checker can give.        *)
(***************************************************************************)
EXTENDS References, Lemmas

-----------------------------------------------------------------------------
(* The nodes around a node.                                                *)

LEMMA NearestIs ==
    ASSUME NEW S \in SUBSET Nat, NEW j \in S \union {0}, \A k \in S : k <= j
    PROVE  Nearest(S) = j
<1>1. \A l \in S \union {0} : (\A k \in S : k <= l) => l = j
  OBVIOUS
<1> QED BY <1>1 DEF Nearest

LEMMA NearestOf ==
    ASSUME NEW S \in SUBSET Nat, NEW n \in Nat, \A k \in S : k <= n
    PROVE  Nearest(S) \in S \union {0} /\ \A k \in S : k <= Nearest(S)
<1>1. CASE S = {}
  BY <1>1 DEF Nearest
<1>2. CASE S # {}
  <2>1. Max(S) \in S /\ \A k \in S : k <= Max(S)
    BY <1>2, MaxOf
  <2>2. Nearest(S) = Max(S)
    BY <2>1, NearestIs
  <2> QED BY <2>1, <2>2
<1> QED BY <1>1, <1>2

\* Every node stands behind the one above it.
Rises(nodes, n) == n \in Nat /\ \A i \in 1..n : nodes[i].up \in 0..(i - 1)

\* The function that AroundIn computes.
IsAround(f, nodes, n) == f = [j \in 0..n |-> IF j = 0 THEN {} ELSE {j} \union f[nodes[j].up]]

LEMMA AroundExists ==
    ASSUME NEW nodes, NEW n, Rises(nodes, n)
    PROVE  \E f : IsAround(f, nodes, n)
<1> DEFINE V == SUBSET Nat
           first == {}
           parent == [k \in 1..(n + 1) |-> IF k = 1 THEN 1 ELSE nodes[k - 1].up + 1]
           step == [p \in (1..(n + 1)) \X V |-> {p[1] - 1} \union p[2]]
<1>1. n \in Nat /\ n + 1 \in Nat /\ first \in V
  BY DEF Rises
<1>2. \A k \in 2..(n + 1) : parent[k] = nodes[k - 1].up + 1 /\ parent[k] \in 1..(k - 1)
  <2> SUFFICES ASSUME NEW k \in 2..(n + 1) PROVE parent[k] = nodes[k - 1].up + 1 /\ parent[k] \in 1..(k - 1)
    OBVIOUS
  <2>1. k - 1 \in 1..n /\ k \in 1..(n + 1) /\ k # 1 /\ k \in Nat
    BY <1>1
  <2>2. nodes[k - 1].up \in 0..((k - 1) - 1)
    BY <2>1 DEF Rises
  <2> QED BY <2>1, <2>2
<1>3. /\ \A k \in 1..(n + 1), v \in V : step[<<k, v>>] = {k - 1} \union v
      /\ step \in [(1..(n + 1)) \X V -> V]
  <2>1. ASSUME NEW p \in (1..(n + 1)) \X V PROVE {p[1] - 1} \union p[2] \in V
    BY <1>1
  <2> QED BY <2>1
<1> HIDE DEF parent, step, V
<1>4. PICK g \in [1..(n + 1) -> V] : FollowsParent(g, n + 1, first, parent, step)
  BY <1>1, <1>2, <1>3, ParentRecursion
<1> DEFINE f == [k \in 0..n |-> g[k + 1]]
<1>5. f \in [0..n -> V]
  BY <1>1, <1>4
<1>6. ASSUME NEW j \in 0..n PROVE f[j] = IF j = 0 THEN {} ELSE {j} \union f[nodes[j].up]
  <2>1. CASE j = 0
    BY <1>1, <1>4, <2>1 DEF FollowsParent
  <2>2. CASE j # 0
    <3>1. j \in Nat /\ j + 1 \in 2..(n + 1) /\ j + 1 \in 1..(n + 1) /\ (j + 1) - 1 = j /\ j \in 1..n
      BY <1>1, <2>2
    <3>2. nodes[j].up \in 0..n /\ parent[j + 1] = nodes[j].up + 1
      <4>1. nodes[j].up \in 0..(j - 1)
        BY <3>1 DEF Rises
      <4>2. parent[j + 1] = nodes[(j + 1) - 1].up + 1
        BY <1>2, <3>1
      <4>3. nodes[(j + 1) - 1] = nodes[j]
        BY <3>1
      <4>4. 0..(j - 1) \subseteq 0..n
        BY <1>1, <3>1
      <4> QED BY <4>1, <4>2, <4>3, <4>4
    <3>3. f[nodes[j].up] = g[parent[j + 1]] /\ g[parent[j + 1]] \in V
      <4>1. parent[j + 1] \in 1..(n + 1)
        BY <1>1, <3>2
      <4> QED BY <1>4, <3>2, <4>1
    <3>4. g[j + 1] = step[<<j + 1, g[parent[j + 1]]>>]
      BY <1>4, <3>1 DEF FollowsParent
    <3>5. step[<<j + 1, g[parent[j + 1]]>>] = {(j + 1) - 1} \union g[parent[j + 1]]
      BY <1>3, <3>1, <3>3
    <3>6. f[j] = g[j + 1]
      OBVIOUS
    <3> HIDE DEF f
    <3> QED BY <2>2, <3>1, <3>3, <3>4, <3>5, <3>6
  <2> QED BY <2>1, <2>2
<1>7. IsAround(f, nodes, n)
  <2> HIDE DEF f
  <2> QED BY <1>5, <1>6 DEF IsAround
<1> HIDE DEF f
<1> QED BY <1>7

\* The functions for two nodes agree where they both are defined.
LEMMA AroundAgrees ==
    ASSUME NEW nodes, NEW n, Rises(nodes, n), NEW i \in 0..n,
           NEW f, IsAround(f, nodes, i), NEW g, IsAround(g, nodes, n)
    PROVE  \A j \in 0..i : f[j] = g[j]
<1> DEFINE P == {j \in Nat : j \in 0..i => f[j] = g[j]}
<1>1. n \in Nat /\ i \in Nat
  BY DEF Rises
<1>2. \A j \in 0..i : f[j] = IF j = 0 THEN {} ELSE {j} \union f[nodes[j].up]
  BY DEF IsAround
<1>3. \A j \in 0..n : g[j] = IF j = 0 THEN {} ELSE {j} \union g[nodes[j].up]
  BY DEF IsAround
<1>4. ASSUME NEW j \in 0..i, \A k \in 0..i : k < j => k \in P PROVE j \in P
  <2>1. CASE j = 0
    <3>1. 0 \in 0..i /\ 0 \in 0..n /\ 0 \in Nat
      BY <1>1
    <3>2. f[0] = {} /\ g[0] = {}
      BY <1>2, <1>3, <3>1
    <3> QED BY <2>1, <3>1, <3>2
  <2>2. CASE j # 0
    <3>1. j \in 0..n /\ j \in 1..n /\ j \in Nat
      BY <1>1, <2>2
    <3>2. nodes[j].up \in 0..(j - 1)
      BY <3>1 DEF Rises
    <3>3. nodes[j].up \in 0..i /\ nodes[j].up < j
      BY <1>1, <3>1, <3>2
    <3>4. f[nodes[j].up] = g[nodes[j].up]
      BY <1>4, <3>3
    <3> QED BY <1>2, <1>3, <2>2, <3>1, <3>4
  <2> QED BY <2>1, <2>2
<1>5. 0..i \in SUBSET Nat
  OBVIOUS
<1>6. 0..i \subseteq P
  <2> HIDE DEF P
  <2> QED BY <1>4, <1>5, StrongInduction
<1> QED BY <1>6

LEMMA AroundIs ==
    ASSUME NEW nodes, NEW n, Rises(nodes, n), NEW i \in 0..n
    PROVE  AroundIn(nodes, i) = IF i = 0 THEN {} ELSE {i} \union AroundIn(nodes, nodes[i].up)
<1>1. PICK g : IsAround(g, nodes, n)
  BY AroundExists
<1>2. n \in Nat
  BY DEF Rises
<1>3. ASSUME NEW k \in 0..n PROVE AroundIn(nodes, k) = g[k]
  <2>5. ASSUME NEW x, IsAround(x, nodes, k) PROVE x[k] = g[k]
    <3>1. \A j \in 0..k : x[j] = g[j]
      BY <1>1, <2>5, AroundAgrees
    <3> QED BY <1>2, <3>1
  <2> DEFINE X == CHOOSE f : IsAround(f, nodes, k)
  <2>1. AroundIn(nodes, k) = X[k]
    BY DEF AroundIn, IsAround
  <2>2. Rises(nodes, k)
    BY <1>2 DEF Rises
  <2>3. PICK f : IsAround(f, nodes, k)
    BY <2>2, AroundExists
  <2>4. IsAround(X, nodes, k)
    BY <2>3
  <2> HIDE DEF X
  <2> QED BY <2>1, <2>4, <2>5
<1>4. g[i] = IF i = 0 THEN {} ELSE {i} \union g[nodes[i].up]
  BY <1>1 DEF IsAround
<1>5. i # 0 => nodes[i].up \in 0..n
  <2> SUFFICES ASSUME i # 0 PROVE nodes[i].up \in 0..n
    OBVIOUS
  <2>1. i \in 1..n /\ i \in Nat
    BY <1>2
  <2>2. nodes[i].up \in 0..(i - 1)
    BY <2>1 DEF Rises
  <2> QED BY <1>2, <2>1, <2>2
<1> QED BY <1>3, <1>4, <1>5

\* The nodes around a node are a chain.
Chain(nodes, i) ==
    /\ AroundIn(nodes, i) \subseteq 1..i
    /\ \A j \in AroundIn(nodes, i) : AroundIn(nodes, j) \subseteq AroundIn(nodes, i)
    /\ \A j, k \in AroundIn(nodes, i) : j <= k => j \in AroundIn(nodes, k)

LEMMA AroundIsChain ==
    ASSUME NEW nodes, NEW n, Rises(nodes, n), NEW i \in 0..n
    PROVE  Chain(nodes, i)
<1> DEFINE P == {j \in Nat : j \in 0..n => Chain(nodes, j)}
<1>1. n \in Nat
  BY DEF Rises
<1>2. ASSUME NEW l \in 0..n, \A k \in 0..n : k < l => k \in P PROVE l \in P
  <2>1. CASE l = 0
    <3>1. AroundIn(nodes, 0) = {}
      BY <2>1, AroundIs
    <3>2. Chain(nodes, 0)
      BY <3>1 DEF Chain
    <3> QED BY <2>1, <3>2
  <2>2. CASE l # 0
    <3> DEFINE up == nodes[l].up
    <3>1. l \in Nat /\ l \in 1..n /\ up \in 0..(l - 1) /\ up \in 0..n /\ up < l
      <4>1. l \in Nat /\ l \in 1..n
        BY <1>1, <2>2
      <4>2. up \in 0..(l - 1)
        BY <4>1 DEF Rises
      <4> QED BY <1>1, <4>1, <4>2
    <3>2. AroundIn(nodes, l) = {l} \union AroundIn(nodes, up)
      BY <2>2, AroundIs
    <3> HIDE DEF up
    <3>3. Chain(nodes, up)
      BY <1>2, <3>1
    <3>4. AroundIn(nodes, up) \subseteq 1..up
      BY <3>3 DEF Chain
    <3>5. AroundIn(nodes, l) \subseteq 1..l
      BY <3>1, <3>2, <3>4
    <3>6. \A j \in AroundIn(nodes, l) : AroundIn(nodes, j) \subseteq AroundIn(nodes, l)
      BY <3>2, <3>3 DEF Chain
    <3>7. ASSUME NEW j \in AroundIn(nodes, l), NEW k \in AroundIn(nodes, l), j <= k
          PROVE  j \in AroundIn(nodes, k)
      <4>1. CASE k = l
        BY <4>1
      <4>2. CASE k # l
        <5>1. k \in AroundIn(nodes, up) /\ k <= up
          BY <3>1, <3>2, <3>4, <4>2
        <5>2. j # l
          BY <3>1, <3>4, <3>5, <3>7, <5>1
        <5>3. j \in AroundIn(nodes, up)
          BY <3>2, <5>2
        <5> QED BY <3>3, <3>7, <5>1, <5>3 DEF Chain
      <4> QED BY <4>1, <4>2
    <3> QED BY <3>1, <3>5, <3>6, <3>7 DEF Chain
  <2> QED BY <2>1, <2>2
<1>3. 0..n \in SUBSET Nat
  OBVIOUS
<1>4. 0..n \subseteq P
  <2> HIDE DEF P
  <2> QED BY <1>2, <1>3, StrongInduction
<1> QED BY <1>4

\* The syntax of a module is a tree.
LEMMA ModuleRises ==
    ASSUME IsWorkspace(program), NEW m \in Modules
    PROVE  /\ Rises(program.nodes[m], Len(program.nodes[m]))
           /\ Nodes(m) = 1..Len(program.nodes[m])
<1>1. IsTree(program.nodes[m])
  BY DEF IsWorkspace, Modules
<1> QED BY <1>1 DEF IsTree, Rises, Nodes

LEMMA Tree ==
    ASSUME IsWorkspace(program), NEW m \in Modules, NEW i \in Nodes(m)
    PROVE  /\ i \in Nat /\ i # 0 /\ Node(m, i).up \in Nodes(m) \union {0} /\ Node(m, i).up < i
           /\ i \in Around(m, i) /\ Around(m, i) \subseteq Nodes(m) /\ \A j \in Around(m, i) : j <= i
           /\ Around(m, i) = {i} \union (IF Node(m, i).up = 0 THEN {} ELSE Around(m, Node(m, i).up))
<1> DEFINE nodes == program.nodes[m]
           n == Len(nodes)
           up == Node(m, i).up
<1>1. Rises(nodes, n) /\ Nodes(m) = 1..n
  BY ModuleRises
<1>2. n \in Nat /\ i \in Nat /\ i \in 1..n /\ i \in 0..n /\ 0 \in 0..n /\ i # 0
  BY <1>1 DEF Rises
<1>3. up \in 0..(i - 1)
  BY <1>1, <1>2 DEF Rises, Node
<1>4. AroundIn(nodes, i) = {i} \union AroundIn(nodes, up)
  <2>1. AroundIn(nodes, i) = {i} \union AroundIn(nodes, nodes[i].up)
    <3> HIDE DEF n
    <3> QED BY <1>1, <1>2, AroundIs
  <2> QED BY <2>1 DEF Node
<1>5. AroundIn(nodes, 0) = {}
  <2> HIDE DEF n
  <2> QED BY <1>1, <1>2, AroundIs
<1>6. AroundIn(nodes, i) \subseteq 1..i
  <2>1. Chain(nodes, i)
    <3> HIDE DEF n
    <3> QED BY <1>1, <1>2, AroundIsChain
  <2> QED BY <2>1 DEF Chain
<1> HIDE DEF nodes, n, up
<1>7. up \in Nodes(m) \union {0} /\ up < i
  BY <1>1, <1>2, <1>3
<1>8. Around(m, i) \subseteq Nodes(m) /\ \A j \in Around(m, i) : j <= i
  BY <1>1, <1>2, <1>6 DEF Around, nodes
<1>9. Around(m, i) = {i} \union (IF up = 0 THEN {} ELSE Around(m, up))
  BY <1>4, <1>5 DEF Around, nodes
<1> QED BY <1>2, <1>4, <1>7, <1>8, <1>9 DEF Around, nodes, up

LEMMA Chained ==
    ASSUME IsWorkspace(program), NEW m \in Modules, NEW i \in Nodes(m),
           NEW j \in Around(m, i), NEW k \in Around(m, i)
    PROVE  Around(m, j) \subseteq Around(m, i) /\ (j <= k => j \in Around(m, k))
<1> DEFINE nodes == program.nodes[m]
           n == Len(nodes)
<1>1. Rises(nodes, n) /\ Nodes(m) = 1..n
  BY ModuleRises
<1>2. i \in 0..n
  BY <1>1 DEF Rises
<1> HIDE DEF n
<1>3. Chain(nodes, i)
  BY <1>1, <1>2, AroundIsChain
<1> QED BY <1>3 DEF Chain, Around

LEMMA Grammar ==
    ASSUME IsWorkspace(program), NEW m \in Modules, NEW i \in Nodes(m)
    PROVE  LET n == Node(m, i)
               expr == Nearest({j \in Around(m, i) : Kind(m, j) \in Exprs \union {"local"}})
           IN  /\ n.kind \in {"call", "index", "indexExpr"} => n.of \in Nodes(m)
               /\ n.kind = "local" => n.sym # "none"
               /\ n.kind = "generic" => n.up # 0 /\ Kind(m, n.up) \in Binders
               /\ n.kind = "prop" => n.up # 0 /\ Kind(m, n.up) = "typeTable"
               /\ n.kind = "alias" /\ n.exported => n.up = 0
               /\ n.kind = "typeRef" /\ n.up # 0 => Kind(m, n.up) # "call"
               /\ n.kind \in {"typeRef", "generic"} /\ expr # 0
                  => Kind(m, expr) \in {"function", "table", "call", "indexExpr", "other"}
               /\ n.kind = "call" => \A j \in Around(m, i) :
                     Node(m, j).up # 0 /\ Kind(m, Node(m, j).up) = "statFunction" => Kind(m, j) = "function"
<1> DEFINE nodes == program.nodes[m]
           n == nodes[i]
           around == AroundIn(nodes, i)
           above(j) == IF nodes[j].up = 0 THEN "none" ELSE nodes[nodes[j].up].kind
           expr == Nearest({j \in around : nodes[j].kind \in Exprs \union {"local"}})
<1>1. IsTree(nodes)
  BY DEF IsWorkspace, Modules
<1>2. /\ n.up \in 0..(i - 1)
      /\ n.kind \in {"call", "index", "indexExpr"} => n.of \in DOMAIN nodes
      /\ n.kind = "local" => n.sym # "none"
      /\ n.kind = "generic" => above(i) \in Binders
      /\ n.kind = "prop" => above(i) = "typeTable"
      /\ n.kind = "alias" /\ n.exported => n.up = 0
      /\ n.kind = "typeRef" => above(i) # "call"
      /\ n.kind \in {"typeRef", "generic"} /\ expr # 0 => nodes[expr].kind \in {"function", "table", "call", "indexExpr", "other"}
      /\ n.kind = "call" => \A j \in around : above(j) = "statFunction" => nodes[j].kind = "function"
  <2>1. i \in DOMAIN nodes
    BY DEF Nodes
  <2> QED BY <1>1, <2>1 DEF IsTree
<1>3. Node(m, i) = n /\ Around(m, i) = around /\ Nodes(m) = DOMAIN nodes /\ \A j : Kind(m, j) = nodes[j].kind /\ Node(m, j) = nodes[j]
  BY DEF Node, Around, Nodes, Kind
<1>4. Nearest({j \in Around(m, i) : Kind(m, j) \in Exprs \union {"local"}}) = expr
  BY <1>3
<1> HIDE DEF expr, around, nodes
<1> QED BY <1>2, <1>3, <1>4 DEF Binders

\* Of a node around another that is not that node, one is right below.
LEMMA ChildAround ==
    ASSUME IsWorkspace(program), NEW m \in Modules, NEW i \in Nodes(m), NEW k \in Around(m, i), k # i
    PROVE  \E j \in Around(m, i) : Node(m, j).up = k
<1> DEFINE T == {j \in Around(m, i) : k < j}
<1>1. Around(m, i) \subseteq Nodes(m) /\ i \in Around(m, i) /\ k <= i
  BY Tree
<1>2. \A j \in Nodes(m) : j \in Nat /\ j # 0
  BY Tree
<1>3. i \in T /\ T \in SUBSET Nat
  BY <1>1, <1>2
<1>4. PICK j \in T : \A y \in T : j <= y
  <2> HIDE DEF T
  <2> QED BY <1>3, LeastElement
<1> DEFINE up == Node(m, j).up
<1>5. j \in Nodes(m) /\ j \in Around(m, i) /\ k < j /\ k \in Nat /\ j \in Nat
  BY <1>1, <1>2, <1>4
<1>6. k \in Around(m, j)
  BY <1>1, <1>5, Chained
<1>7. /\ up \in Nodes(m) \union {0} /\ up < j
      /\ Around(m, j) = {j} \union (IF up = 0 THEN {} ELSE Around(m, up))
  BY <1>5, Tree
<1>8. up # 0 /\ k \in Around(m, up)
  BY <1>5, <1>6, <1>7
<1>9. up \in Nodes(m) /\ up \in Around(m, up) /\ k <= up
  BY <1>7, <1>8, Tree
<1>10. up \in Around(m, i)
  <2>1. up \in Around(m, j)
    BY <1>7, <1>8, <1>9
  <2>2. Around(m, j) \subseteq Around(m, i)
    BY <1>1, <1>5, Chained
  <2> QED BY <2>1, <2>2
<1>11. up \in Nat /\ up < j /\ k <= up /\ (k < up => j <= up)
  <2>1. k < up => j <= up
    BY <1>4, <1>10
  <2> HIDE DEF up
  <2> QED BY <1>2, <1>7, <1>9, <2>1
<1>12. up = k
  <2> HIDE DEF up, T
  <2> QED BY <1>5, <1>11
<1> QED BY <1>5, <1>12

-----------------------------------------------------------------------------
(* What is reached.                                                        *)

\* The rounds of a search, one after the other.
Rounds(f, from, next, n) ==
    f[0] = from /\ \A k \in 1..n : f[k] = f[k - 1] \union UNION {next[x] : x \in f[k - 1]}

LEMMA RoundsOf ==
    ASSUME NEW from, NEW next, IsFiniteSet(DOMAIN next), NEW S, from \subseteq S,
           \A x \in S : next[x] \subseteq S
    PROVE  \E f : /\ Rounds(f, from, next, Cardinality(DOMAIN next))
                  /\ Reached(from, next) = f[Cardinality(DOMAIN next)]
<1> DEFINE n == Cardinality(DOMAIN next)
           Def(g) == [k \in 0..n |-> IF k = 0 THEN from
                                     ELSE LET before == g[k - 1] IN before \union UNION {next[x] : x \in before}]
           X == CHOOSE g : g = Def(g)
           V == SUBSET S
           step == [p \in (1..n) \X V |-> p[2] \union UNION {next[x] : x \in p[2]}]
<1>1. n \in Nat
  BY FS_CardinalityType
<1>2. Reached(from, next) = X[n]
  BY DEF Reached
<1> HIDE DEF n
<1>3. /\ step \in [(1..n) \X V -> V]
      /\ \A k \in 1..n, v \in V : step[<<k, v>>] = v \union UNION {next[x] : x \in v}
  <2>1. ASSUME NEW p \in (1..n) \X V PROVE p[2] \union UNION {next[x] : x \in p[2]} \in V
    OBVIOUS
  <2> QED BY <2>1
<1> HIDE DEF step
<1>4. PICK f \in [0..n -> V] : FollowsStep(f, n, from, step)
  BY <1>1, <1>3, StepRecursion
<1>5. f = Def(f)
  <2>1. \A k \in 0..n : f[k] = IF k = 0 THEN from ELSE f[k - 1] \union UNION {next[x] : x \in f[k - 1]}
    <3> SUFFICES ASSUME NEW k \in 0..n
                 PROVE  f[k] = IF k = 0 THEN from ELSE f[k - 1] \union UNION {next[x] : x \in f[k - 1]}
      OBVIOUS
    <3>1. CASE k = 0
      BY <1>4, <3>1 DEF FollowsStep
    <3>2. CASE k # 0
      <4>1. k \in 1..n /\ k - 1 \in 0..n
        BY <1>1, <3>2
      <4>2. f[k] = step[<<k, f[k - 1]>>] /\ f[k - 1] \in V
        BY <1>4, <4>1 DEF FollowsStep
      <4>3. step[<<k, f[k - 1]>>] = f[k - 1] \union UNION {next[x] : x \in f[k - 1]}
        BY <1>3, <4>1, <4>2
      <4> QED BY <3>2, <4>2, <4>3
    <3> QED BY <3>1, <3>2
  <2> QED BY <1>4, <2>1
<1> HIDE DEF Def
<1>6. X = Def(X)
  BY <1>5
<1> HIDE DEF X
<1>7. Rounds(X, from, next, n)
  <2>1. Def(X)[0] = from
    BY <1>1 DEF Def
  <2>2. ASSUME NEW k \in 1..n PROVE Def(X)[k] = X[k - 1] \union UNION {next[x] : x \in X[k - 1]}
    <3>1. k \in 0..n /\ k # 0
      BY <1>1
    <3> QED BY <3>1 DEF Def
  <2> QED BY <1>6, <2>1, <2>2 DEF Rounds
<1> QED BY <1>2, <1>7 DEF n

\* What a search does not leave, and that it has what it starts from.
LEMMA ReachedWithin ==
    ASSUME NEW from, NEW next, IsFiniteSet(DOMAIN next), NEW S, from \subseteq S,
           \A x \in S : next[x] \subseteq S
    PROVE  from \subseteq Reached(from, next) /\ Reached(from, next) \subseteq S
<1> DEFINE n == Cardinality(DOMAIN next)
<1>1. n \in Nat
  BY FS_CardinalityType
<1>2. PICK f : Rounds(f, from, next, n) /\ Reached(from, next) = f[n]
  BY RoundsOf
<1> HIDE DEF n
<1> DEFINE P == {k \in Nat : k \in 0..n => from \subseteq f[k] /\ f[k] \subseteq S}
<1>3. 0 \in P
  BY <1>2 DEF Rounds
<1>4. ASSUME NEW k \in 1..n, k - 1 \in P PROVE k \in P
  <2>1. k \in Nat /\ k - 1 \in 0..n
    BY <1>1
  <2>2. f[k] = f[k - 1] \union UNION {next[x] : x \in f[k - 1]}
    BY <1>2 DEF Rounds
  <2>3. from \subseteq f[k - 1] /\ f[k - 1] \subseteq S
    BY <1>4, <2>1
  <2> QED BY <2>1, <2>2, <2>3
<1>5. n \in P
  <2> HIDE DEF P
  <2>1. 0..n \subseteq P
    BY <1>1, <1>3, <1>4, StepInduction
  <2> QED BY <1>1, <2>1
<1> QED BY <1>1, <1>2, <1>5

LEMMA Dependents ==
    ASSUME IsWorkspace(program), NEW m \in Modules
    PROVE  m \in FindReverseDependencies(m) /\ FindReverseDependencies(m) \subseteq Modules
<1> DEFINE next == [n \in Modules |-> {d \in Modules : n \in program.requires[d]}]
<1>1. IsFiniteSet(DOMAIN next)
  BY DEF IsWorkspace, Modules
<1>2. {m} \subseteq Modules /\ \A x \in Modules : next[x] \subseteq Modules
  OBVIOUS
<1> HIDE DEF next
<1>3. {m} \subseteq Reached({m}, next) /\ Reached({m}, next) \subseteq Modules
  BY <1>1, <1>2, ReachedWithin
<1> QED BY <1>3 DEF FindReverseDependencies, next

-----------------------------------------------------------------------------
(* The require graph.                                                      *)

Required(m) == IF m \in Modules THEN program.requires[m] ELSE {}
EdgesOf(m) == {<<m, r>> : r \in Required(m)}
AllEdges == UNION {EdgesOf(m) : m \in Modules}
Named == Modules \union UNION {Required(m) : m \in Modules}

\* Everything that is shown is shown once, with all it requires.
Drawn(graph) ==
    /\ graph.nodes \in Seq(Named) /\ IsInjective(graph.nodes)
    /\ \A x \in Range(graph.nodes) : Required(x) \subseteq Range(graph.nodes)
    /\ graph.edges = {e \in AllEdges : e[1] \in Range(graph.nodes)}

LEMMA EdgesAreFinite ==
    ASSUME IsWorkspace(program)
    PROVE  /\ IsFiniteSet(Modules) /\ IsFiniteSet(AllEdges) /\ Cardinality(AllEdges) \in Nat
           /\ \A m : IsFiniteSet(EdgesOf(m))
           /\ UNION {EdgesFrom(m, {}) : m \in Modules} = AllEdges
<1>1. IsFiniteSet(Modules) /\ \A m \in Modules : IsFiniteSet(program.requires[m])
  BY DEF IsWorkspace, Modules
<1>2. ASSUME NEW m PROVE IsFiniteSet(EdgesOf(m))
  <2> DEFINE R == Required(m)
             f == [r \in R |-> <<m, r>>]
  <2>1. IsFiniteSet(R)
    BY <1>1, FS_EmptySet DEF Required
  <2>2. {f[r] : r \in R} = EdgesOf(m)
    BY DEF EdgesOf
  <2> HIDE DEF R, f
  <2>3. IsFiniteSet({f[r] : r \in R})
    BY <2>1, FiniteImage
  <2> QED BY <2>2, <2>3
<1>3. IsFiniteSet(AllEdges)
  <2> DEFINE f == [m \in Modules |-> EdgesOf(m)]
             S == {f[m] : m \in Modules}
  <2>1. S = {EdgesOf(m) : m \in Modules}
    OBVIOUS
  <2>2. IsFiniteSet(S)
    <3> HIDE DEF f
    <3> QED BY <1>1, FiniteImage
  <2>3. \A T \in S : IsFiniteSet(T)
    BY <1>2
  <2> HIDE DEF S
  <2>4. IsFiniteSet(UNION S)
    BY <2>2, <2>3, FS_UNION
  <2> QED BY <2>1, <2>4 DEF AllEdges
<1>4. \A m \in Modules : EdgesFrom(m, {}) = EdgesOf(m)
  BY DEF EdgesFrom, EdgesOf, Required
<1>5. Cardinality(AllEdges) \in Nat
  BY <1>3, FS_CardinalityType
<1> QED BY <1>1, <1>2, <1>3, <1>4, <1>5 DEF AllEdges

\* The numbers of the modules lead back to their labels.
LEMMA DotShows ==
    ASSUME NEW graph, Drawn(graph)
    PROVE  LET dot == GraphToDot(graph)
           IN  /\ dot.labels = graph.nodes
               /\ {<<dot.labels[e[1] + 1], dot.labels[e[2] + 1]>> : e \in dot.edges} = graph.edges
<1> DEFINE nodes == graph.nodes
           ids(m) == {k - 1 : k \in {j \in DOMAIN nodes : nodes[j] = m}}
           id(m) == IF ids(m) = {} THEN 0 ELSE CHOOSE k \in ids(m) : \A j \in ids(m) : j <= k
           edges == {<<id(e[1]), id(e[2])>> : e \in graph.edges}
<1>1. nodes \in Seq(Named) /\ IsInjective(nodes) /\ DOMAIN nodes = 1..Len(nodes)
  BY DEF Drawn
<1>2. ASSUME NEW x \in Range(nodes) PROVE nodes[id(x) + 1] = x
  <2>1. PICK p \in DOMAIN nodes : nodes[p] = x
    BY DEF Range
  <2>2. p \in Int /\ \A j \in DOMAIN nodes : nodes[j] = x => j = p
    BY <1>1, <2>1 DEF IsInjective
  <2>3. {j \in DOMAIN nodes : nodes[j] = x} = {p}
    BY <2>1, <2>2
  <2>4. ids(x) = {p - 1}
    BY <2>3
  <2>5. (CHOOSE k \in {p - 1} : \A j \in {p - 1} : j <= k) = p - 1
    BY <2>2
  <2>6. id(x) = p - 1
    BY <2>4, <2>5
  <2>7. (p - 1) + 1 = p
    BY <2>2
  <2> HIDE DEF id
  <2> QED BY <2>1, <2>6, <2>7
<1>3. GraphToDot(graph).labels = nodes /\ GraphToDot(graph).edges = edges
  BY DEF GraphToDot
<1>4. \A e \in graph.edges : e[1] \in Range(nodes) /\ e[2] \in Range(nodes) /\ e = <<e[1], e[2]>>
  BY DEF Drawn, EdgesOf, AllEdges
<1> HIDE DEF id, nodes
<1>5. ASSUME NEW e \in graph.edges PROVE <<nodes[id(e[1]) + 1], nodes[id(e[2]) + 1]>> = e
  BY <1>2, <1>4
<1>6. ASSUME NEW d \in edges PROVE <<nodes[d[1] + 1], nodes[d[2] + 1]>> \in graph.edges
  <2>1. PICK e \in graph.edges : d = <<id(e[1]), id(e[2])>>
    OBVIOUS
  <2>2. d[1] = id(e[1]) /\ d[2] = id(e[2])
    BY <2>1
  <2> HIDE DEF edges
  <2> QED BY <1>5, <2>2
<1>7. ASSUME NEW e \in graph.edges PROVE \E d \in edges : e = <<nodes[d[1] + 1], nodes[d[2] + 1]>>
  <2> DEFINE d == <<id(e[1]), id(e[2])>>
  <2>1. d \in edges /\ d[1] = id(e[1]) /\ d[2] = id(e[2])
    OBVIOUS
  <2> HIDE DEF edges, d
  <2> QED BY <1>5, <2>1
<1> HIDE DEF edges
<1>8. {<<nodes[d[1] + 1], nodes[d[2] + 1]>> : d \in edges} = graph.edges
  BY <1>6, <1>7
<1> QED BY <1>3, <1>8 DEF nodes

LEMMA FullGraphIsDrawn ==
    ASSUME IsWorkspace(program), \A m \in Modules : program.requires[m] \subseteq Modules
    PROVE  Drawn(FullGraph) /\ Range(FullGraph.nodes) = Modules
<1>1. /\ SetToSeq(Modules) \in Seq(Modules) /\ IsInjective(SetToSeq(Modules))
      /\ Range(SetToSeq(Modules)) = Modules
  BY EdgesAreFinite, ElementSequence
<1>2. FullGraph.nodes = SetToSeq(Modules) /\ FullGraph.edges = AllEdges
  BY EdgesAreFinite DEF FullGraph
<1>3. SetToSeq(Modules) \in Seq(Named)
  <2>1. Modules \subseteq Named
    BY DEF Named
  <2> QED BY <1>1, <2>1, SeqMonotonic
<1>4. \A x \in Modules : Required(x) \subseteq Modules
  BY DEF Required
<1>5. AllEdges = {e \in AllEdges : e[1] \in Modules}
  BY DEF AllEdges, EdgesOf
<1> QED BY <1>1, <1>2, <1>3, <1>4, <1>5 DEF Drawn

\* The queue of the search runs dry before its turns are used up.
Unseen(g) == {e \in AllEdges : e[1] \notin Range(g.nodes)}

Growing(root, g, n) ==
    /\ g \in [queue : Seq(Named), nodes : Seq(Named), edges : SUBSET (Named \X Named)]
    /\ IsInjective(g.nodes)
    /\ root \in Range(g.nodes) \union Range(g.queue)
    /\ \A x \in Range(g.nodes) : Required(x) \subseteq Range(g.nodes) \union Range(g.queue)
    /\ g.edges = {e \in AllEdges : e[1] \in Range(g.nodes)}
    /\ g.queue = << >> \/ Len(g.queue) + Cardinality(Unseen(g)) + n <= 1 + Cardinality(AllEdges)

\* One turn of the search.
After(g) ==
    LET m == Head(g.queue)
        seen == Range(g.nodes)
        new == IF m \in Modules THEN EdgesFrom(m, seen \union {m}) ELSE {}
    IN  IF g.queue = << >> THEN g
        ELSE IF m \in seen THEN [g EXCEPT !.queue = Tail(@)]
        ELSE [queue |-> Tail(g.queue) \o SetToSeq({e[2] : e \in new}),
              nodes |-> Append(g.nodes, m), edges |-> g.edges \union new]

LEMMA HeadAndTail ==
    ASSUME NEW S, NEW s \in Seq(S), s # << >>
    PROVE  /\ Head(s) \in S /\ Tail(s) \in Seq(S)
           /\ Len(s) \in Nat /\ Len(Tail(s)) = Len(s) - 1
           /\ Range(s) = {Head(s)} \union Range(Tail(s))
<1>1. /\ Head(s) \in S /\ Tail(s) \in Seq(S) /\ Len(Tail(s)) = Len(s) - 1
      /\ \A i \in 1..Len(Tail(s)) : Tail(s)[i] = s[i + 1]
  BY HeadTailProperties
<1>2. Len(s) \in Nat /\ Len(s) # 0 /\ DOMAIN s = 1..Len(s) /\ DOMAIN Tail(s) = 1..Len(Tail(s)) /\ Head(s) = s[1]
  BY <1>1
<1>3. Range(Tail(s)) \subseteq Range(s) /\ Head(s) \in Range(s)
  BY <1>1, <1>2 DEF Range
<1>4. ASSUME NEW i \in DOMAIN s PROVE s[i] \in {Head(s)} \union Range(Tail(s))
  <2>1. CASE i = 1
    BY <1>2, <2>1
  <2>2. CASE i # 1
    <3>1. i - 1 \in 1..Len(Tail(s)) /\ (i - 1) + 1 = i
      BY <1>1, <1>2, <2>2
    <3>2. Tail(s)[i - 1] = s[i]
      BY <1>1, <3>1
    <3> QED BY <1>2, <3>1, <3>2 DEF Range
  <2> QED BY <2>1, <2>2
<1>5. Range(s) \subseteq {Head(s)} \union Range(Tail(s))
  BY <1>4 DEF Range
<1> QED BY <1>1, <1>2, <1>3, <1>5

LEMMA RangeOfConcat ==
    ASSUME NEW S, NEW s \in Seq(S), NEW t \in Seq(S)
    PROVE  /\ s \o t \in Seq(S) /\ Len(s \o t) = Len(s) + Len(t)
           /\ Range(s \o t) = Range(s) \union Range(t)
<1>1. /\ s \o t \in Seq(S) /\ Len(s \o t) = Len(s) + Len(t)
      /\ \A i \in 1..Len(s) + Len(t) : (s \o t)[i] = IF i <= Len(s) THEN s[i] ELSE t[i - Len(s)]
  BY ConcatProperties
<1>2. /\ Len(s) \in Nat /\ Len(t) \in Nat
      /\ DOMAIN s = 1..Len(s) /\ DOMAIN t = 1..Len(t) /\ DOMAIN (s \o t) = 1..Len(s) + Len(t)
  BY <1>1
<1> DEFINE u == s \o t
<1> HIDE DEF u
<1>3. \A i \in 1..Len(s) + Len(t) : u[i] = IF i <= Len(s) THEN s[i] ELSE t[i - Len(s)]
  BY <1>1 DEF u
<1>4. DOMAIN u = 1..Len(s) + Len(t)
  BY <1>2 DEF u
<1>5. ASSUME NEW i \in DOMAIN u PROVE u[i] \in Range(s) \union Range(t)
  <2>1. i \in Nat /\ (i \in 1..Len(s) \/ i - Len(s) \in 1..Len(t))
    BY <1>2, <1>4
  <2> QED BY <1>2, <1>3, <1>4 DEF Range
<1>6. ASSUME NEW i \in DOMAIN s PROVE s[i] \in Range(u)
  <2>1. i \in DOMAIN u /\ i <= Len(s)
    BY <1>2, <1>4
  <2> QED BY <1>3, <1>4, <2>1 DEF Range
<1>7. ASSUME NEW i \in DOMAIN t PROVE t[i] \in Range(u)
  <2>1. Len(s) + i \in DOMAIN u /\ ~(Len(s) + i <= Len(s)) /\ (Len(s) + i) - Len(s) = i
    BY <1>2, <1>4
  <2>2. u[Len(s) + i] = t[i]
    BY <1>3, <1>4, <2>1
  <2> QED BY <2>1, <2>2 DEF Range
<1>8. Range(u) = Range(s) \union Range(t)
  BY <1>5, <1>6, <1>7 DEF Range
<1> QED BY <1>1, <1>8 DEF u

LEMMA AppendNew ==
    ASSUME NEW S, NEW s \in Seq(S), IsInjective(s), NEW x \in S, x \notin Range(s)
    PROVE  /\ Append(s, x) \in Seq(S) /\ IsInjective(Append(s, x))
           /\ Range(Append(s, x)) = Range(s) \union {x}
<1> DEFINE t == Append(s, x)
<1>1. /\ t \in Seq(S) /\ Len(s) \in Nat /\ DOMAIN s = 1..Len(s) /\ DOMAIN t = 1..(Len(s) + 1)
      /\ t[Len(s) + 1] = x /\ \A i \in 1..Len(s) : t[i] = s[i]
  BY AppendProperties
<1> HIDE DEF t
<1>2. \A i \in DOMAIN t : i = Len(s) + 1 \/ i \in DOMAIN s
  BY <1>1
<1>3. Range(t) = Range(s) \union {x}
  BY <1>1, <1>2 DEF Range
<1>4. \A i \in DOMAIN s : s[i] # x
  BY DEF Range
<1>5. IsInjective(t)
  <2> SUFFICES ASSUME NEW i \in DOMAIN t, NEW j \in DOMAIN t, t[i] = t[j] PROVE i = j
    BY DEF IsInjective
  <2>1. CASE i \in DOMAIN s /\ j \in DOMAIN s
    <3>1. s[i] = s[j]
      BY <1>1, <2>1
    <3> QED BY <2>1, <3>1 DEF IsInjective
  <2>2. CASE i \in DOMAIN s /\ j = Len(s) + 1
    BY <1>1, <1>4, <2>2
  <2>3. CASE i = Len(s) + 1 /\ j \in DOMAIN s
    BY <1>1, <1>4, <2>3
  <2> QED BY <1>2, <2>1, <2>2, <2>3
<1> QED BY <1>1, <1>3, <1>5 DEF t

LEMMA RequiresCount ==
    ASSUME IsWorkspace(program), NEW m
    PROVE  /\ IsFiniteSet(Required(m)) /\ Cardinality(Required(m)) = Cardinality(EdgesOf(m))
           /\ {e[2] : e \in EdgesOf(m)} = Required(m)
<1> DEFINE R == Required(m)
           f == [r \in R |-> <<m, r>>]
<1>1. IsFiniteSet(R)
  <2>1. \A k \in Modules : IsFiniteSet(program.requires[k])
    BY DEF IsWorkspace, Modules
  <2> QED BY <2>1, FS_EmptySet DEF Required
<1>2. f \in Bijection(R, EdgesOf(m))
  BY DEF Bijection, Injection, Surjection, IsInjective, EdgesOf
<1>3. {e[2] : e \in EdgesOf(m)} = R
  <2>1. \A r \in R : <<m, r>> \in EdgesOf(m) /\ <<m, r>>[2] = r
    BY DEF EdgesOf
  <2>2. \A e \in EdgesOf(m) : e[2] \in R
    BY DEF EdgesOf
  <2> HIDE DEF R
  <2> QED BY <2>1, <2>2
<1> HIDE DEF f, R
<1>4. ExistsBijection(R, EdgesOf(m))
  BY <1>2 DEF ExistsBijection
<1>5. Cardinality(EdgesOf(m)) = Cardinality(R)
  BY <1>1, <1>4, FS_Bijection
<1> QED BY <1>1, <1>3, <1>5 DEF R

LEMMA TurnGrows ==
    ASSUME IsWorkspace(program), NEW root, NEW n \in Nat, NEW g, Growing(root, g, n)
    PROVE  Growing(root, After(g), n + 1)
<1> DEFINE m == Head(g.queue)
           seen == Range(g.nodes)
           rest == Tail(g.queue)
           next == After(g)
<1>1. /\ g \in [queue : Seq(Named), nodes : Seq(Named), edges : SUBSET (Named \X Named)]
      /\ g.queue \in Seq(Named) /\ g.nodes \in Seq(Named) /\ g.edges \in SUBSET (Named \X Named)
      /\ IsInjective(g.nodes)
      /\ root \in seen \union Range(g.queue)
      /\ \A x \in seen : Required(x) \subseteq seen \union Range(g.queue)
      /\ g.edges = {e \in AllEdges : e[1] \in seen}
      /\ g.queue = << >> \/ Len(g.queue) + Cardinality(Unseen(g)) + n <= 1 + Cardinality(AllEdges)
  BY DEF Growing
<1>2. IsFiniteSet(Unseen(g)) /\ Cardinality(Unseen(g)) \in Nat /\ Cardinality(AllEdges) \in Nat
  <2>1. Unseen(g) \subseteq AllEdges
    BY DEF Unseen
  <2> QED BY <2>1, EdgesAreFinite, FS_Subset, FS_CardinalityType
<1>3. CASE g.queue = << >>
  <2>1. next = g
    BY <1>3 DEF After
  <2> HIDE DEF next
  <2> QED BY <1>1, <1>3, <2>1 DEF Growing, next
<1>4. CASE g.queue # << >>
  <2>1. /\ m \in Named /\ rest \in Seq(Named) /\ Len(g.queue) \in Nat /\ Len(rest) = Len(g.queue) - 1
        /\ Range(g.queue) = {m} \union Range(rest)
    BY <1>1, <1>4, HeadAndTail
  <2>2. CASE m \in seen
    <3>1. next = [g EXCEPT !.queue = rest]
      BY <1>4, <2>2 DEF After
    <3>2. /\ next \in [queue : Seq(Named), nodes : Seq(Named), edges : SUBSET (Named \X Named)]
          /\ next.nodes = g.nodes /\ next.edges = g.edges /\ next.queue = rest
      <4> HIDE DEF rest, next
      <4> QED BY <1>1, <2>1, <3>1
    <3> HIDE DEF next, m, rest
    <3>3. Unseen(next) = Unseen(g)
      BY <3>2 DEF Unseen
    <3>4. seen \union Range(g.queue) = seen \union Range(rest)
      BY <2>1, <2>2
    <3>5. Len(rest) + Cardinality(Unseen(g)) + (n + 1) <= 1 + Cardinality(AllEdges)
      BY <1>1, <1>2, <1>4, <2>1
    <3>6. Growing(root, next, n + 1)
      <4> DEFINE left == Unseen(next)
      <4>1. Len(next.queue) + Cardinality(left) + (n + 1) <= 1 + Cardinality(AllEdges)
        BY <3>2, <3>3, <3>5
      <4>2. Range(next.nodes) = seen
        BY <3>2
      <4> HIDE DEF left, seen
      <4> QED BY <1>1, <3>2, <3>4, <4>1, <4>2 DEF Growing, left
    <3> QED BY <3>6 DEF next
  <2>3. CASE m \notin seen
    <3> DEFINE added == SetToSeq(Required(m))
    <3>1. (IF m \in Modules THEN EdgesFrom(m, seen \union {m}) ELSE {}) = EdgesOf(m)
      BY DEF EdgesFrom, EdgesOf, Required
    <3>2. next = [queue |-> rest \o SetToSeq({e[2] : e \in EdgesOf(m)}),
                  nodes |-> Append(g.nodes, m), edges |-> g.edges \union EdgesOf(m)]
      BY <1>4, <2>3, <3>1 DEF After
    <3> HIDE DEF next, m, rest, seen
    <3>3. next = [queue |-> rest \o added, nodes |-> Append(g.nodes, m), edges |-> g.edges \union EdgesOf(m)]
      BY <3>2, RequiresCount
    <3>4. Required(m) \subseteq Named /\ EdgesOf(m) \subseteq Named \X Named
      BY <2>1 DEF Named, EdgesOf, Required
    <3>5. added \in Seq(Named) /\ Len(added) = Cardinality(EdgesOf(m)) /\ Range(added) = Required(m)
      <4>1. added \in Seq(Required(m)) /\ Len(added) = Cardinality(Required(m)) /\ Range(added) = Required(m)
        BY RequiresCount, ElementSequence
      <4> QED BY <3>4, <4>1, RequiresCount, SeqMonotonic
    <3> HIDE DEF added
    <3>6. /\ rest \o added \in Seq(Named) /\ Len(rest \o added) = Len(rest) + Len(added)
          /\ Range(rest \o added) = Range(rest) \union Required(m)
      BY <2>1, <3>5, RangeOfConcat
    <3>7. /\ Append(g.nodes, m) \in Seq(Named) /\ IsInjective(Append(g.nodes, m))
          /\ Range(Append(g.nodes, m)) = seen \union {m}
      BY <1>1, <2>1, <2>3, AppendNew DEF seen
    <3>8. /\ next \in [queue : Seq(Named), nodes : Seq(Named), edges : SUBSET (Named \X Named)]
          /\ next.queue = rest \o added /\ next.nodes = Append(g.nodes, m)
          /\ next.edges = g.edges \union EdgesOf(m)
      BY <1>1, <3>3, <3>4, <3>6, <3>7
    <3>9. Unseen(next) = Unseen(g) \ EdgesOf(m) /\ Unseen(g) \intersect EdgesOf(m) = EdgesOf(m)
      <4>1. \A e \in AllEdges : e[1] = m <=> e \in EdgesOf(m)
        BY DEF AllEdges, EdgesOf
      <4>2. EdgesOf(m) \subseteq AllEdges
        BY DEF EdgesOf, Required, AllEdges
      <4>3. \A e \in EdgesOf(m) : e[1] \notin seen
        BY <2>3 DEF EdgesOf
      <4>4. Range(next.nodes) = seen \union {m}
        BY <3>7, <3>8
      <4> QED BY <4>1, <4>2, <4>3, <4>4 DEF Unseen, seen
    <3>10. Cardinality(Unseen(next)) = Cardinality(Unseen(g)) - Cardinality(EdgesOf(m)) /\ Cardinality(EdgesOf(m)) \in Nat
      <4>1. Cardinality(Unseen(g) \ EdgesOf(m)) = Cardinality(Unseen(g)) - Cardinality(Unseen(g) \intersect EdgesOf(m))
        BY <1>2, FS_Difference
      <4> QED BY <3>9, <4>1, EdgesAreFinite, FS_CardinalityType
    <3>11. Len(next.queue) + Cardinality(Unseen(next)) + (n + 1) <= 1 + Cardinality(AllEdges)
      <4> DEFINE u == Cardinality(Unseen(g))
                 v == Cardinality(Unseen(next))
                 k == Cardinality(EdgesOf(m))
                 e == Cardinality(AllEdges)
                 l == Len(g.queue)
      <4>1. u \in Nat /\ k \in Nat /\ e \in Nat /\ l \in Nat /\ v = u - k /\ l + u + n <= 1 + e
        BY <1>1, <1>2, <1>4, <2>1, <3>10
      <4>2. Len(next.queue) = (l - 1) + k
        BY <2>1, <3>5, <3>6, <3>8
      <4> HIDE DEF u, v, k, e, l
      <4>3. Len(next.queue) + v + (n + 1) <= 1 + e
        BY <4>1, <4>2
      <4> QED BY <4>3 DEF v, e
    <3>12. root \in Range(next.nodes) \union Range(next.queue)
      BY <1>1, <2>1, <3>6, <3>7, <3>8
    <3>13. \A x \in Range(next.nodes) : Required(x) \subseteq Range(next.nodes) \union Range(next.queue)
      <4>1. \A x \in seen \union {m} : Required(x) \subseteq (seen \union {m}) \union (Range(rest) \union Required(m))
        BY <1>1, <2>1
      <4> QED BY <3>6, <3>7, <3>8, <4>1
    <3>14. next.edges = {e \in AllEdges : e[1] \in Range(next.nodes)}
      <4>1. \A e : e \in EdgesOf(m) <=> e \in AllEdges /\ e[1] = m
        BY DEF AllEdges, EdgesOf, Required
      <4> QED BY <1>1, <3>7, <3>8, <4>1
    <3>15. IsInjective(next.nodes)
      BY <3>7, <3>8
    <3>16. Growing(root, next, n + 1)
      BY <3>8, <3>11, <3>12, <3>13, <3>14, <3>15 DEF Growing
    <3> QED BY <3>16 DEF next
  <2> QED BY <2>2, <2>3
<1> QED BY <1>3, <1>4

LEMMA SearchStarts ==
    ASSUME IsWorkspace(program), NEW root \in Modules
    PROVE  Growing(root, [queue |-> <<root>>, nodes |-> << >>, edges |-> {}], 0)
<1> DEFINE g == [queue |-> <<root>>, nodes |-> << >>, edges |-> {}]
<1>1. root \in Named
  BY DEF Named
<1>2. g.queue = <<root>> /\ g.nodes = << >> /\ g.edges = {}
  OBVIOUS
<1>3. g \in [queue : Seq(Named), nodes : Seq(Named), edges : SUBSET (Named \X Named)]
  <2>1. <<root>> \in Seq(Named) /\ << >> \in Seq(Named)
    BY <1>1
  <2> QED BY <2>1
<1> HIDE DEF g
<1>4. Range(g.nodes) = {} /\ Range(g.queue) = {root} /\ IsInjective(g.nodes) /\ Len(g.queue) = 1
  BY <1>2 DEF Range, IsInjective
<1>5. Unseen(g) = AllEdges
  BY <1>4 DEF Unseen
<1>6. Len(g.queue) + Cardinality(Unseen(g)) + 0 <= 1 + Cardinality(AllEdges)
  <2>1. Cardinality(AllEdges) \in Nat
    BY EdgesAreFinite
  <2> QED BY <1>4, <1>5, <2>1
<1>7. Growing(root, g, 0)
  BY <1>2, <1>3, <1>4, <1>6 DEF Growing
<1> QED BY <1>7 DEF g

LEMMA GraphIsDrawn ==
    ASSUME IsWorkspace(program), NEW root \in Modules
    PROVE  Drawn(GraphFrom(root)) /\ root \in Range(GraphFrom(root).nodes)
<1> DEFINE turns == 1 + Cardinality(UNION {EdgesFrom(m, {}) : m \in Modules})
           first == [queue |-> <<root>>, nodes |-> << >>, edges |-> {}]
           Def(g) == [n \in 0..turns |-> IF n = 0 THEN first ELSE After(g[n - 1])]
           X == CHOOSE g : g = Def(g)
           graphs == [queue : Seq(Named), nodes : Seq(Named), edges : SUBSET (Named \X Named)]
           V == {g \in graphs : \E n \in Nat : Growing(root, g, n)}
           step == [p \in (1..turns) \X V |-> After(p[2])]
<1>1. turns \in Nat /\ turns = 1 + Cardinality(AllEdges)
  <2>1. UNION {EdgesFrom(m, {}) : m \in Modules} = AllEdges /\ Cardinality(AllEdges) \in Nat
    BY EdgesAreFinite, Zenon
  <2>2. turns = 1 + Cardinality(AllEdges)
    BY <2>1, Zenon
  <2> HIDE DEF turns
  <2> QED BY <2>1, <2>2
<1>2. GraphFrom(root) = X[turns]
  BY DEF GraphFrom, After
<1> HIDE DEF turns
<1>3. first \in V /\ Growing(root, first, 0)
  BY SearchStarts DEF Growing
<1> HIDE DEF first
<1>4. \A g \in V : After(g) \in V
  <2> SUFFICES ASSUME NEW g \in V PROVE After(g) \in V
    OBVIOUS
  <2>1. PICK n \in Nat : Growing(root, g, n)
    OBVIOUS
  <2>2. Growing(root, After(g), n + 1) /\ n + 1 \in Nat
    BY <2>1, TurnGrows
  <2> QED BY <2>2 DEF Growing
<1> HIDE DEF V
<1>5. step \in [(1..turns) \X V -> V] /\ \A k \in 1..turns, v \in V : step[<<k, v>>] = After(v)
  BY <1>4
<1> HIDE DEF step
<1>6. PICK f \in [0..turns -> V] : FollowsStep(f, turns, first, step)
  BY <1>1, <1>3, <1>5, StepRecursion
<1>7. f = Def(f)
  <2>1. \A n \in 0..turns : f[n] = IF n = 0 THEN first ELSE After(f[n - 1])
    <3> SUFFICES ASSUME NEW n \in 0..turns PROVE f[n] = IF n = 0 THEN first ELSE After(f[n - 1])
      OBVIOUS
    <3>1. CASE n = 0
      BY <1>6, <3>1 DEF FollowsStep
    <3>2. CASE n # 0
      <4>1. n \in 1..turns /\ n - 1 \in 0..turns
        BY <1>1, <3>2
      <4>2. f[n] = step[<<n, f[n - 1]>>] /\ f[n - 1] \in V
        BY <1>6, <4>1 DEF FollowsStep
      <4> QED BY <1>5, <3>2, <4>1, <4>2
    <3> QED BY <3>1, <3>2
  <2> QED BY <1>6, <2>1
<1> HIDE DEF Def
<1>8. X = Def(X)
  BY <1>7
<1> HIDE DEF X
<1>9. X[0] = first /\ \A n \in 1..turns : X[n] = After(X[n - 1])
  <2>1. Def(X)[0] = first
    BY <1>1 DEF Def
  <2>2. ASSUME NEW n \in 1..turns PROVE Def(X)[n] = After(X[n - 1])
    <3>1. n \in 0..turns /\ n # 0
      BY <1>1
    <3> QED BY <3>1 DEF Def
  <2> QED BY <1>8, <2>1, <2>2
<1> DEFINE P == {n \in Nat : Growing(root, X[n], n)}
<1>10. 0 \in P
  BY <1>3, <1>9
<1>11. ASSUME NEW n \in 1..turns, n - 1 \in P PROVE n \in P
  <2>1. n \in Nat /\ n - 1 \in Nat /\ (n - 1) + 1 = n
    BY <1>1
  <2>2. Growing(root, After(X[n - 1]), (n - 1) + 1)
    BY <1>11, <2>1, TurnGrows
  <2> QED BY <1>9, <2>1, <2>2
<1>12. turns \in P
  <2> HIDE DEF P
  <2>1. 0..turns \subseteq P
    BY <1>1, <1>10, <1>11, StepInduction
  <2> QED BY <1>1, <2>1
<1> DEFINE g == X[turns]
<1>13. Growing(root, g, turns)
  BY <1>12
<1> HIDE DEF g, P
<1>14. g.queue = << >>
  <2>1. SUFFICES ASSUME g.queue # << >> PROVE FALSE
    OBVIOUS
  <2>2. Len(g.queue) + Cardinality(Unseen(g)) + turns <= 1 + Cardinality(AllEdges) /\ g.queue \in Seq(Named)
    BY <1>13, <2>1 DEF Growing
  <2>3. Len(g.queue) \in Nat /\ Len(g.queue) # 0
    BY <2>1, <2>2
  <2>4. Cardinality(Unseen(g)) \in Nat
    <3>1. Unseen(g) \subseteq AllEdges
      BY DEF Unseen
    <3> QED BY <3>1, EdgesAreFinite, FS_Subset, FS_CardinalityType
  <2> QED BY <1>1, <2>2, <2>3, <2>4, EdgesAreFinite
<1>15. Range(g.queue) = {}
  BY <1>14 DEF Range
<1>16. Drawn(g) /\ root \in Range(g.nodes)
  BY <1>13, <1>15 DEF Growing, Drawn
<1> QED BY <1>2, <1>16 DEF g

\* What GraphsShowRequires says of an answer.
Shows(mods, required, m, from, found) ==
    LET label(k) == found.labels[k + 1]
        shown == {found.labels[k] : k \in DOMAIN found.labels}
        requires(x) == IF x \in mods THEN required[x] ELSE {}
    IN  \/ ~from /\ \E x \in mods : ~(required[x] \subseteq mods)
        \/ /\ IsInjective(found.labels)
           /\ m \in shown
           /\ \A x \in shown : requires(x) \subseteq shown
           /\ {<<label(e[1]), label(e[2])>> : e \in found.edges} = UNION {{<<x, r>> : r \in requires(x)} : x \in shown}

LEMMA GraphShows ==
    ASSUME IsWorkspace(program), NEW m \in Modules, NEW from \in BOOLEAN,
           NEW found, found = GraphToDot(IF from THEN GraphFrom(m) ELSE FullGraph)
    PROVE  Shows(Modules, program.requires, m, from, found)
<1> DEFINE graph == IF from THEN GraphFrom(m) ELSE FullGraph
           shown == {found.labels[k] : k \in DOMAIN found.labels}
           requires(x) == IF x \in Modules THEN program.requires[x] ELSE {}
<1>1. CASE from \/ \A x \in Modules : program.requires[x] \subseteq Modules
  <2>1. Drawn(graph) /\ m \in Range(graph.nodes)
    BY <1>1, GraphIsDrawn, FullGraphIsDrawn
  <2>0. found = GraphToDot(graph)
    OBVIOUS
  <2> HIDE DEF graph
  <2>2. /\ found.labels = graph.nodes
        /\ {<<found.labels[e[1] + 1], found.labels[e[2] + 1]>> : e \in found.edges} = graph.edges
    BY <2>0, <2>1, DotShows
  <2>3. shown = Range(graph.nodes)
    BY <2>2 DEF Range
  <2>4. \A x : requires(x) = Required(x)
    BY DEF Required
  <2>5. UNION {{<<x, r>> : r \in requires(x)} : x \in shown} = {e \in AllEdges : e[1] \in Range(graph.nodes)}
    <3> HIDE DEF shown, requires
    <3>1. ASSUME NEW e \in AllEdges, e[1] \in shown PROVE \E x \in shown : \E r \in requires(x) : e = <<x, r>>
      <4>1. PICK x \in Modules : e \in EdgesOf(x)
        BY DEF AllEdges
      <4>2. PICK r \in Required(x) : e = <<x, r>>
        BY <4>1 DEF EdgesOf
      <4> QED BY <2>4, <3>1, <4>2
    <3>2. ASSUME NEW x \in shown, NEW r \in requires(x) PROVE <<x, r>> \in AllEdges /\ <<x, r>>[1] \in shown
      <4>1. x \in Modules /\ r \in Required(x)
        BY <2>4 DEF Required
      <4> QED BY <4>1 DEF AllEdges, EdgesOf
    <3> QED BY <2>3, <3>1, <3>2
  <2>6. IsInjective(found.labels) /\ \A x \in shown : requires(x) \subseteq shown
    BY <2>1, <2>2, <2>3, <2>4 DEF Drawn
  <2>7. {<<found.labels[e[1] + 1], found.labels[e[2] + 1]>> : e \in found.edges} = UNION {{<<x, r>> : r \in requires(x)} : x \in shown}
    BY <2>1, <2>2, <2>5 DEF Drawn
  <2>8. m \in shown
    BY <2>1, <2>3
  <2> QED BY <2>6, <2>7, <2>8, Zenon DEF Shows
<1>2. CASE ~from /\ \E x \in Modules : ~(program.requires[x] \subseteq Modules)
  BY <1>2 DEF Shows
<1> QED BY <1>1, <1>2

-----------------------------------------------------------------------------
(* The answers.                                                            *)

\* The workspace is one of Programs, and does not change.
LEMMA WorkspaceStays ==
    /\ Init => program \in Programs
    /\ [Next]_vars => UNCHANGED program
<1> USE DEF Answer
<1>1. Init => program \in Programs
  BY DEF Init
<1>2. [Next]_vars => UNCHANGED program
  <2> SUFFICES ASSUME [Next]_vars PROVE UNCHANGED program
    OBVIOUS
  <2>1. CASE FindReferences
    BY <2>1 DEF FindReferences
  <2>2. CASE RenameSymbol
    BY <2>2 DEF RenameSymbol
  <2>3. CASE GotoRequest
    BY <2>3 DEF GotoRequest
  <2>4. CASE PrepareCallHierarchy
    BY <2>4 DEF PrepareCallHierarchy
  <2>5. CASE CallHierarchy
    BY <2>5 DEF CallHierarchy
  <2>6. CASE RequireGraph
    BY <2>6 DEF RequireGraph
  <2>7. CASE UNCHANGED vars
    BY <2>7 DEF vars
  <2> QED BY <2>1, <2>2, <2>3, <2>4, <2>5, <2>6, <2>7 DEF Next
<1> QED BY <1>1, <1>2

\* What a step asks.
LEMMA RequestKinds ==
    /\ Init => request.kind = "none"
    /\ FindReferences => request'.kind = "references"
    /\ RenameSymbol => request'.kind = "rename"
    /\ GotoRequest => request'.kind \in {"definition", "typeDefinition"}
    /\ PrepareCallHierarchy => request'.kind = "prepare"
    /\ CallHierarchy => request'.kind \in {"incoming", "outgoing"}
    /\ RequireGraph => request'.kind = "graph"
<1>1. Init => request.kind = "none"
  <2>1. Init => request = [kind |-> "none"]
    BY Zenon DEF Init
  <2>2. [kind |-> "none"].kind = "none"
    OBVIOUS
  <2> QED BY <2>1, <2>2, Zenon
<1>2. FindReferences => request'.kind = "references"
  <2> SUFFICES ASSUME FindReferences PROVE request'.kind = "references"
    OBVIOUS
  <2>1. \E at : request' = [kind |-> "references", at |-> at]
    BY Zenon DEF FindReferences, Answer
  <2> QED BY <2>1
<1>3. RenameSymbol => request'.kind = "rename"
  <2> SUFFICES ASSUME RenameSymbol PROVE request'.kind = "rename"
    OBVIOUS
  <2>1. \E at, name : request' = [kind |-> "rename", at |-> at, name |-> name]
    BY Zenon DEF RenameSymbol, Answer
  <2> QED BY <2>1
<1>4. GotoRequest => request'.kind \in {"definition", "typeDefinition"}
  <2> SUFFICES ASSUME GotoRequest PROVE request'.kind \in {"definition", "typeDefinition"}
    OBVIOUS
  <2>1. \E at : request' = [kind |-> "definition", at |-> at] \/ request' = [kind |-> "typeDefinition", at |-> at]
    BY Zenon DEF GotoRequest, Answer
  <2> QED BY <2>1
<1>5. PrepareCallHierarchy => request'.kind = "prepare"
  <2> SUFFICES ASSUME PrepareCallHierarchy PROVE request'.kind = "prepare"
    OBVIOUS
  <2>1. \E at : request' = [kind |-> "prepare", at |-> at]
    BY Zenon DEF PrepareCallHierarchy, Answer
  <2> QED BY <2>1
<1>6. CallHierarchy => request'.kind \in {"incoming", "outgoing"}
  <2> SUFFICES ASSUME CallHierarchy PROVE request'.kind \in {"incoming", "outgoing"}
    OBVIOUS
  <2>1. \E at : request' = [kind |-> "incoming", at |-> at] \/ request' = [kind |-> "outgoing", at |-> at]
    BY Zenon DEF CallHierarchy, Answer
  <2> QED BY <2>1
<1>7. RequireGraph => request'.kind = "graph"
  <2> SUFFICES ASSUME RequireGraph PROVE request'.kind = "graph"
    OBVIOUS
  <2>1. \E at, from : request' = [kind |-> "graph", at |-> at, from |-> from]
    BY Zenon DEF RequireGraph, Answer
  <2> QED BY <2>1
<1> QED BY <1>1, <1>2, <1>3, <1>4, <1>5, <1>6, <1>7

\* The graph a client is shown is complete.
\* (computeRequireGraphFromRoot, computeFullRequireGraph, requireGraphToDot)
THEOREM GraphsAreComplete == Spec => []GraphsShowRequires
<1> DEFINE Inv == program \in Programs /\ GraphsShowRequires
<1>1. Init => Inv
  <2>1. request.kind = "none" => GraphsShowRequires
    BY Zenon DEF GraphsShowRequires
  <2> QED BY <2>1, WorkspaceStays, RequestKinds, Zenon
<1>2. Inv /\ [Next]_vars => Inv'
  <2> SUFFICES ASSUME Inv, [Next]_vars PROVE Inv'
    OBVIOUS
  <2>1. program' = program /\ IsWorkspace(program)
    BY WorkspaceStays, ReferencesAssumption
  <2>2. Modules' = Modules
    BY <2>1 DEF Modules
  <2>3. CASE RequireGraph
    <3>1. PICK m \in program.open, from \in BOOLEAN :
             Answer([kind |-> "graph", at |-> At(m, 0), from |-> from], "",
                    GraphToDot(IF from THEN GraphFrom(m) ELSE FullGraph))
      BY <2>3 DEF RequireGraph
    <3> DEFINE found == GraphToDot(IF from THEN GraphFrom(m) ELSE FullGraph)
    <3>2. m \in Modules
      BY <2>1 DEF IsWorkspace, Modules
    <3>3. Shows(Modules, program.requires, m, from, found)
      BY <2>1, <3>2, GraphShows
    <3> HIDE DEF found
    <3>4. request'.from = from /\ Here' = m /\ answer'.found = found
      BY <3>1 DEF Answer, At, found, Here
    <3>5. Shows(Modules', program'.requires, Here', request'.from, answer'.found)
      BY <2>1, <2>2, <3>3, <3>4
    <3>6. GraphsShowRequires'
      BY <3>5, Zenon DEF GraphsShowRequires, Shows
    <3> QED BY <2>1, <3>6
  <2>4. CASE UNCHANGED vars
    <3>1. request' = request /\ answer' = answer
      BY <2>4 DEF vars
    <3>2. request.kind = "graph" => Shows(Modules, program.requires, Here, request.from, answer.found)
      BY Zenon DEF GraphsShowRequires, Shows
    <3>3. request'.kind = "graph" => Shows(Modules', program'.requires, Here', request'.from, answer'.found)
      BY <2>1, <2>2, <3>1, <3>2 DEF Here
    <3>4. GraphsShowRequires'
      BY <3>3, Zenon DEF GraphsShowRequires, Shows
    <3> QED BY <2>1, <3>4
  <2>5. CASE FindReferences \/ RenameSymbol \/ GotoRequest \/ PrepareCallHierarchy \/ CallHierarchy
    <3>1. request'.kind # "graph"
      BY <2>5, RequestKinds
    <3>2. GraphsShowRequires'
      BY <3>1, Zenon DEF GraphsShowRequires
    <3> QED BY <2>1, <3>2
  <2> QED BY <2>3, <2>4, <2>5 DEF Next
<1> QED BY <1>1, <1>2, PTL DEF Spec

-----------------------------------------------------------------------------
(* The call hierarchy.                                                     *)

LEMMA DeclaredAbove ==
    ASSUME IsWorkspace(program), NEW m \in Modules, NEW c \in Nodes(m),
           NEW i \in DeclaredFunctions(m), i \in Around(m, c)
    PROVE  /\ Node(m, i).up \in Around(m, c) /\ Kind(m, Node(m, i).up) = "statFunction"
           /\ i \in Nodes(m) /\ i # 0 /\ Node(m, i).up \in Nodes(m)
           /\ Around(m, i) = {i} \union Around(m, Node(m, i).up)
<1> DEFINE up == Node(m, i).up
<1>1. i \in Nodes(m) /\ up # 0 /\ Kind(m, up) = "statFunction"
  BY DEF DeclaredFunctions
<1>2. up \in Nodes(m) /\ i # 0 /\ Around(m, i) = {i} \union Around(m, up)
  BY <1>1, Tree
<1>3. up \in Around(m, up)
  BY <1>2, Tree
<1>4. Around(m, i) \subseteq Around(m, c)
  BY <1>1, Chained
<1> QED BY <1>1, <1>2, <1>3, <1>4

\* Every call belongs to one declared function, or to the top of its module.
LEMMA CallHasOneOwner ==
    ASSUME IsWorkspace(program), NEW m \in Modules, NEW c \in CallsIn(m, 0)
    PROVE  \E i \in DeclaredFunctions(m) \union {0} :
              /\ c \in OwnCalls(m, i)
              /\ \A k \in DeclaredFunctions(m) \union {0} : c \in OwnCalls(m, k) => k = i
<1> DEFINE stats == {k \in Around(m, c) : Kind(m, k) = "statFunction"}
<1>1. c \in Nodes(m) /\ Kind(m, c) = "call"
  BY DEF CallsIn
<1>2. /\ Around(m, c) \subseteq Nodes(m) /\ c \in Around(m, c) /\ c \in Nat
      /\ \A j \in Around(m, c) : j <= c
  BY <1>1, Tree
<1>3. \A j \in Nodes(m) : j \in Nat /\ j # 0
  BY Tree
<1>4. \A i : i \in Around(m, c) => c \in CallsIn(m, i)
  BY <1>1 DEF CallsIn
<1>5. \A i : i # 0 /\ c \in OwnCalls(m, i) => i \in Around(m, c) /\ stats \subseteq Around(m, i)
  BY DEF OwnCalls, CallsIn
<1>6. CASE stats = {}
  <2>1. c \in OwnCalls(m, 0)
    BY <1>6 DEF OwnCalls
  <2>2. ASSUME NEW k \in DeclaredFunctions(m), c \in OwnCalls(m, k), k # 0 PROVE FALSE
    <3>1. k \in Around(m, c)
      BY <1>5, <2>2
    <3> QED BY <1>1, <1>6, <3>1, DeclaredAbove
  <2> QED BY <2>1, <2>2
<1>7. CASE stats # {}
  <2> DEFINE top == Nearest(stats)
  <2>1. stats \in SUBSET Nat
    BY <1>2, <1>3
  <2>2. top \in stats /\ \A k \in stats : k <= top
    <3>1. \A k \in stats : k <= c
      BY <1>2
    <3>2. top \in stats \union {0} /\ \A k \in stats : k <= top
      <4> HIDE DEF stats
      <4> QED BY <1>2, <2>1, <3>1, NearestOf
    <3>3. \A k \in stats : k # 0
      BY <1>2, <1>3
    <3>4. PICK k \in stats : TRUE
      BY <1>7
    <3> HIDE DEF stats, top
    <3>5. top # 0
      BY <2>1, <3>2, <3>3, <3>4
    <3> QED BY <3>2, <3>5
  <2>3. top \in Around(m, c) /\ Kind(m, top) = "statFunction" /\ top \in Nodes(m) /\ top \in Nat /\ top # 0
    BY <1>2, <1>3, <2>2
  <2> HIDE DEF top
  <2>4. top # c
    BY <1>1, <2>3
  <2>5. PICK i \in Around(m, c) : Node(m, i).up = top
    BY <1>1, <2>3, <2>4, ChildAround
  <2>6. i \in Nodes(m) /\ i # 0 /\ top < i /\ i \in Nat
    BY <1>2, <2>5, Tree
  <2>7. Kind(m, i) = "function"
    <3>1. Node(m, c).kind = "call"
      BY <1>1 DEF Kind
    <3>2. \A j \in Around(m, c) : Node(m, j).up # 0 /\ Kind(m, Node(m, j).up) = "statFunction" => Kind(m, j) = "function"
      BY <1>1, <3>1, Grammar
    <3> QED BY <2>3, <2>5, <3>2
  <2>8. i \in DeclaredFunctions(m)
    BY <2>3, <2>5, <2>6, <2>7 DEF DeclaredFunctions
  <2>9. c \in OwnCalls(m, i)
    <3>1. \A k \in stats : k \in Around(m, i)
      <4> SUFFICES ASSUME NEW k \in stats PROVE k \in Around(m, i)
        OBVIOUS
      <4>1. k \in Around(m, c) /\ k \in Nat /\ k <= top
        BY <2>1, <2>2
      <4>2. k <= i
        BY <2>3, <2>6, <4>1
      <4> QED BY <1>1, <2>5, <4>1, <4>2, Chained
    <3> QED BY <1>4, <2>5, <2>6, <3>1 DEF OwnCalls
  <2>10. ASSUME NEW k \in DeclaredFunctions(m) \union {0}, c \in OwnCalls(m, k) PROVE k = i
    <3>1. k # 0
      <4>1. c \notin OwnCalls(m, 0)
        BY <2>3 DEF OwnCalls
      <4> QED BY <2>10, <4>1
    <3>2. k \in DeclaredFunctions(m) /\ k \in Around(m, c) /\ top \in Around(m, k)
      BY <1>5, <2>2, <2>10, <3>1
    <3> DEFINE up == Node(m, k).up
    <3>3. up \in stats /\ k \in Nodes(m) /\ up \in Nodes(m) /\ Around(m, k) = {k} \union Around(m, up)
      BY <1>1, <3>2, DeclaredAbove
    <3>4. k # top
      BY <2>3, <3>2 DEF DeclaredFunctions
    <3>5. top \in Around(m, up)
      BY <3>2, <3>3, <3>4
    <3>6. up = top
      <4>1. top <= up
        BY <3>3, <3>5, Tree
      <4>2. up <= top
        BY <2>2, <3>3
      <4>3. up \in Nat
        BY <1>3, <3>3
      <4> HIDE DEF up
      <4> QED BY <2>3, <4>1, <4>2, <4>3
    <3>7. Around(m, i) = {i} \union Around(m, top)
      BY <2>3, <2>5, <2>6, Tree
    <3>8. top < k /\ k \in Nat
      BY <3>3, <3>6, Tree
    <3>9. \A j \in Around(m, top) : j <= top
      BY <2>3, Tree
    <3>10. CASE k <= i
      <4>1. k \in Around(m, i)
        BY <1>1, <2>5, <3>2, <3>10, Chained
      <4>2. k \notin Around(m, top)
        BY <2>3, <3>8, <3>9
      <4> QED BY <3>7, <4>1, <4>2
    <3>11. CASE i <= k
      <4>1. i \in Around(m, k)
        BY <1>1, <2>5, <3>2, <3>11, Chained
      <4>2. i \notin Around(m, top)
        BY <2>3, <2>6, <3>9
      <4> QED BY <3>3, <3>6, <4>1, <4>2
    <3> QED BY <2>6, <3>8, <3>10, <3>11
  <2> QED BY <2>8, <2>9, <2>10
<1> QED BY <1>6, <1>7

\* What CallsAgree says of an answer.
CallsAgreeIn(m, f, found) ==
    LET t == Node(m, f).ty
        callsOf(d) == {c \in CallsIn(d, 0) : /\ LookupFunctionCallType(d, c) # 0
                                             /\ IsSameFunction(LookupFunctionCallType(d, c), t)}
    IN  /\ \A d \in FindReverseDependencies(m) : \A c \in callsOf(d) :
              Cardinality({e \in found : e.module = d /\ c \in e.calls}) = 1
        /\ \A e \in {x \in found : x.from # 0} : \A c \in e.calls :
              \E o \in OutgoingCalls(e.module, e.from) : o.to = Type(t).def /\ c \in o.calls

\* What a client asks the callers of.
IsFunction(m, f) ==
    /\ m \in Modules /\ f \in Nodes(m) /\ Kind(m, f) = "function"
    /\ Node(m, f).ty # 0 /\ Type(Node(m, f).ty).def # << >>

LEMMA FunctionsHaveFunctionTypes ==
    ASSUME IsWorkspace(program), NEW m, NEW f, IsFunction(m, f)
    PROVE  Type(Node(m, f).ty).kind = "function"
<1> DEFINE n == program.nodes[m][f]
<1>1. n.kind = "function" /\ n.ty # 0 /\ m \in DOMAIN program.nodes /\ f \in DOMAIN program.nodes[m]
  BY DEF IsFunction, Kind, Node, Modules, Nodes
<1>2. program.types[n.ty].kind = "function"
  BY <1>1 DEF IsWorkspace, IsTyped
<1> QED BY <1>2 DEF Type, Node

LEMMA CallersAgree ==
    ASSUME IsWorkspace(program), NEW m, NEW f, IsFunction(m, f),
           NEW found, found = IncomingCalls(m, f)
    PROVE  CallsAgreeIn(m, f, found)
<1> DEFINE t == Node(m, f).ty
           type(d, c) == LookupFunctionCallType(d, c)
           isCall(d, c) == type(d, c) # 0 /\ IsSameFunction(type(d, c), t)
           matching(d, i) == {c \in OwnCalls(d, i) : isCall(d, c)}
           item(d, i) == [module |-> d, from |-> i, calls |-> matching(d, i)]
           owners(d) == {k \in DeclaredFunctions(d) \union {0} : matching(d, k) # {}}
           dependents == FindReverseDependencies(m)
<1>1. found = UNION {{item(d, i) : i \in owners(d)} : d \in dependents}
  BY Zenon DEF IncomingCalls
<1>2. \A d, i : item(d, i).module = d /\ item(d, i).from = i /\ item(d, i).calls = matching(d, i)
  OBVIOUS
<1>3. \A d, i, c : c \in matching(d, i) <=> c \in OwnCalls(d, i) /\ isCall(d, c)
  OBVIOUS
<1>4. \A d, i : i \in owners(d) <=> i \in DeclaredFunctions(d) \union {0} /\ matching(d, i) # {}
  OBVIOUS
<1>5. dependents \subseteq Modules
  <2>1. m \in Modules
    BY DEF IsFunction
  <2> QED BY <2>1, Dependents
<1>6. \A d, i : d \in dependents /\ i \in owners(d) => item(d, i) \in found
  <2> HIDE DEF item, owners, dependents
  <2> QED BY <1>1
<1>7. ASSUME NEW e \in found PROVE \E d \in dependents : \E i \in owners(d) : e = item(d, i)
  <2> HIDE DEF item, owners, dependents
  <2> QED BY <1>1
<1> HIDE DEF item, owners, matching, dependents, isCall
<1>8. ASSUME NEW d \in dependents, NEW c \in CallsIn(d, 0), isCall(d, c)
      PROVE  Cardinality({e \in found : e.module = d /\ c \in e.calls}) = 1
  <2>1. d \in Modules
    BY <1>5
  <2>2. PICK i \in DeclaredFunctions(d) \union {0} :
           /\ c \in OwnCalls(d, i)
           /\ \A k \in DeclaredFunctions(d) \union {0} : c \in OwnCalls(d, k) => k = i
    BY <2>1, CallHasOneOwner
  <2>3. item(d, i) \in {e \in found : e.module = d /\ c \in e.calls}
    <3>1. c \in matching(d, i)
      BY <1>3, <1>8, <2>2
    <3>2. i \in owners(d)
      BY <1>4, <2>2, <3>1
    <3> QED BY <1>2, <1>6, <3>1, <3>2
  <2>4. ASSUME NEW e \in found, e.module = d, c \in e.calls PROVE e = item(d, i)
    <3>1. PICK k \in dependents : \E j \in owners(k) : e = item(k, j)
      BY <1>7
    <3>2. PICK j \in owners(k) : e = item(k, j)
      BY <3>1
    <3>3. k = d /\ c \in matching(d, j) /\ j \in DeclaredFunctions(d) \union {0}
      BY <1>2, <1>4, <2>4, <3>2
    <3>4. j = i
      BY <1>3, <2>2, <3>3
    <3> QED BY <3>2, <3>3, <3>4
  <2>5. {e \in found : e.module = d /\ c \in e.calls} = {item(d, i)}
    BY <2>3, <2>4
  <2> QED BY <2>5, FS_Singleton
<1>9. ASSUME NEW e \in found, e.from # 0, NEW c \in e.calls
      PROVE  \E o \in OutgoingCalls(e.module, e.from) : o.to = Type(t).def /\ c \in o.calls
  <2>1. PICK d \in dependents : \E i \in owners(d) : e = item(d, i)
    BY <1>7
  <2>2. PICK i \in owners(d) : e = item(d, i)
    BY <2>1
  <2>3. e.module = d /\ e.from = i /\ c \in CallsIn(d, i) /\ isCall(d, c)
    <3>1. e.module = d /\ e.from = i /\ c \in matching(d, i)
      BY <1>2, <1>9, <2>2
    <3>2. c \in OwnCalls(d, i) /\ isCall(d, c)
      BY <1>3, <3>1
    <3> QED BY <3>1, <3>2 DEF OwnCalls
  <2> DEFINE u == type(d, c)
  <2>4. Type(t).kind = "function" /\ Type(t).def # << >>
    BY FunctionsHaveFunctionTypes DEF IsFunction
  <2>5. u # 0 /\ Type(u).kind = "function" /\ Type(u).def = Type(t).def
    BY <2>3, <2>4 DEF isCall, IsSameFunction
  <2> DEFINE o == [to |-> Type(u).def, calls |-> {k \in CallsIn(d, i) : LookupFunctionCallType(d, k) = u}]
  <2>6. o \in OutgoingCalls(d, i)
    <3>1. u \in {LookupFunctionCallType(d, k) : k \in CallsIn(d, i)} \ {0}
      BY <2>3, <2>5
    <3> HIDE DEF u
    <3> QED BY <2>4, <2>5, <3>1 DEF OutgoingCalls
  <2>7. o.to = Type(t).def /\ c \in o.calls
    BY <2>3, <2>5
  <2> QED BY <2>3, <2>6, <2>7
<1> QED BY <1>8, <1>9 DEF CallsAgreeIn, isCall, dependents

\* The items a client is shown are functions with a place, and the incoming
\* calls are those of the function it asks about.
CallersAnswered ==
    /\ request.kind = "prepare" => \A def \in answer.found : def # << >>
    /\ request.kind = "incoming" => IsFunction(Here, There) /\ answer.found = IncomingCalls(Here, There)

LEMMA AnsweredCallersAgree ==
    ASSUME program \in Programs, CallersAnswered
    PROVE  CallsAgree
<1>1. SUFFICES ASSUME request.kind = "incoming" PROVE CallsAgreeIn(Here, There, answer.found)
  BY Zenon DEF CallsAgree, CallsAgreeIn
<1>2. IsFunction(Here, There) /\ answer.found = IncomingCalls(Here, There)
  BY <1>1 DEF CallersAnswered
<1> QED BY <1>2, CallersAgree, ReferencesAssumption

\* The searches see nothing but the workspace.
LEMMA SameCallers ==
    ASSUME program' = program, NEW m, NEW f
    PROVE  IncomingCalls(m, f)' = IncomingCalls(m, f)
BY DEF IncomingCalls, OwnCalls, CallsIn, DeclaredFunctions, FindReverseDependencies, LookupFunctionCallType,
       IsSameFunction, Owner, LookupProp, Behind, Prop, Type, Around, Kind, Node, Nodes, Modules

LEMMA CallersStay ==
    ASSUME program \in Programs, CallersAnswered, [Next]_vars
    PROVE  CallersAnswered'
<1>1. program' = program
  BY WorkspaceStays
<1>2. CASE FindReferences \/ RenameSymbol \/ GotoRequest \/ RequireGraph
  <2>1. request'.kind \notin {"prepare", "incoming"}
    BY <1>2, RequestKinds
  <2> QED BY <2>1, Zenon DEF CallersAnswered
<1>3. CASE PrepareCallHierarchy
  <2>1. request'.kind = "prepare"
    BY <1>3, RequestKinds
  <2>2. \A def \in answer'.found : def # << >>
    <3>1. PICK at, t : Type(t).def # << >> /\ Answer([kind |-> "prepare", at |-> at], "", {Type(t).def})
      BY <1>3, Zenon DEF PrepareCallHierarchy
    <3>2. answer'.found = {Type(t).def}
      BY <3>1 DEF Answer
    <3> QED BY <3>1, <3>2
  <2> QED BY <2>1, <2>2 DEF CallersAnswered
<1>4. CASE CallHierarchy
  <2>1. request.kind = "prepare" /\ request'.kind \in {"incoming", "outgoing"}
    BY <1>4, RequestKinds, Zenon DEF CallHierarchy
  <2>0. PICK def \in {d \in answer.found : d[1] \in Modules} :
          \E f \in {j \in Nodes(def[1]) : Kind(def[1], j) = "function" /\ Node(def[1], j).ty # 0} :
           /\ Type(Node(def[1], f).ty).def = def
           /\ \/ Answer([kind |-> "incoming", at |-> At(def[1], f)], "", IncomingCalls(def[1], f))
              \/ Answer([kind |-> "outgoing", at |-> At(def[1], f)], "", OutgoingCalls(def[1], f))
    BY <1>4, Zenon DEF CallHierarchy
  <2>2. PICK f \in {j \in Nodes(def[1]) : Kind(def[1], j) = "function" /\ Node(def[1], j).ty # 0} :
           /\ Type(Node(def[1], f).ty).def = def
           /\ \/ Answer([kind |-> "incoming", at |-> At(def[1], f)], "", IncomingCalls(def[1], f))
              \/ Answer([kind |-> "outgoing", at |-> At(def[1], f)], "", OutgoingCalls(def[1], f))
    BY <2>0
  <2>3. IsFunction(def[1], f)
    BY <2>1, <2>2 DEF CallersAnswered, IsFunction
  <2> DEFINE m == def[1]
             calls == IncomingCalls(m, f)
  <2>4. request'.kind = "incoming" => Here' = m /\ There' = f /\ answer'.found = calls
    <3> HIDE DEF calls
    <3>1. CASE Answer([kind |-> "incoming", at |-> At(m, f)], "", calls)
      BY <3>1 DEF Answer, At, Here, There
    <3>2. CASE Answer([kind |-> "outgoing", at |-> At(m, f)], "", OutgoingCalls(m, f))
      BY <3>2 DEF Answer
    <3> QED BY <2>2, <3>1, <3>2 DEF calls
  <2>5. IsFunction(m, f)' /\ IncomingCalls(m, f)' = calls
    <3>1. IsFunction(m, f)' = IsFunction(m, f)
      BY <1>1 DEF IsFunction, Modules, Nodes, Node, Kind, Type
    <3>2. IncomingCalls(m, f)' = IncomingCalls(m, f)
      BY <1>1, SameCallers
    <3> QED BY <2>3, <3>1, <3>2
  <2> QED BY <2>1, <2>4, <2>5 DEF CallersAnswered
<1>5. CASE UNCHANGED vars
  <2>1. request' = request /\ answer' = answer
    BY <1>5 DEF vars
  <2>2. Here' = Here /\ There' = There
    BY <2>1 DEF Here, There
  <2> DEFINE m == Here
             f == There
  <2>3. IsFunction(m, f)' = IsFunction(m, f)
    BY <1>1, <2>1 DEF IsFunction, Modules, Nodes, Node, Kind, Type, Here, There
  <2>4. IncomingCalls(m, f)' = IncomingCalls(m, f)
    BY <1>1, <2>1 DEF IncomingCalls, OwnCalls, CallsIn, DeclaredFunctions, FindReverseDependencies, LookupFunctionCallType,
       IsSameFunction, Owner, LookupProp, Behind, Prop, Type, Around, Kind, Node, Nodes, Modules, Here, There
  <2> QED BY <2>1, <2>3, <2>4, Zenon DEF CallersAnswered
<1> QED BY <1>2, <1>3, <1>4, <1>5 DEF Next

\* Callers and callees agree.
\* (callHierarchyIncomingCalls, callHierarchyOutgoingCalls)
THEOREM CallersAndCalleesAgree == Spec => []CallsAgree
<1> DEFINE Inv == program \in Programs /\ CallersAnswered
<1>1. Init => Inv
  <2>1. request.kind = "none" => CallersAnswered
    BY Zenon DEF CallersAnswered
  <2> QED BY <2>1, WorkspaceStays, RequestKinds, Zenon
<1>2. Inv /\ [Next]_vars => Inv'
  <2> SUFFICES ASSUME Inv, [Next]_vars PROVE Inv'
    OBVIOUS
  <2>1. program' = program
    BY WorkspaceStays
  <2> QED BY <2>1, CallersStay
<1>3. Inv => CallsAgree
  BY AnsweredCallersAgree
<1> QED BY <1>1, <1>2, <1>3, PTL DEF Spec

-----------------------------------------------------------------------------
(* Definitions and references.                                             *)

\* A type has properties and parts that are types.
LEMMA TypesClosed ==
    ASSUME IsWorkspace(program), NEW t \in DOMAIN program.types
    PROVE  /\ Type(t).kind = "metatable" => Type(t).table \in DOMAIN program.types /\ Type(t).metatable \in DOMAIN program.types
           /\ Type(t).kind = "union" => Type(t).options \subseteq DOMAIN program.types
           /\ Behind(t) \subseteq DOMAIN program.types
           /\ \A q \in Type(t).props : Type(t).kind = "table" /\ q.loc # << >> => Type(t).def # << >>
<1> DEFINE Types == DOMAIN program.types
<1>1. \A u \in Types :
         /\ Type(u).kind = "metatable" => {Type(u).table, Type(u).metatable} \subseteq Types
         /\ Type(u).kind = "union" => Type(u).options \subseteq Types
         /\ \A q \in Type(u).props : /\ q.name = "__index" => q.ty \in Types
                                     /\ Type(u).kind = "table" /\ q.loc # << >> => Type(u).def # << >>
  <2>1. IsTyped(program)
    BY DEF IsWorkspace
  <2>2. ASSUME NEW u \in DOMAIN program.types
        PROVE  /\ program.types[u].kind = "metatable" => {program.types[u].table, program.types[u].metatable} \subseteq DOMAIN program.types
               /\ program.types[u].kind = "union" => program.types[u].options \subseteq DOMAIN program.types
               /\ \A q \in program.types[u].props :
                     /\ q.name = "__index" => q.ty \in DOMAIN program.types
                     /\ program.types[u].kind = "table" /\ q.loc # << >> => program.types[u].def # << >>
    BY <2>1 DEF IsTyped
  <2> QED BY <2>2 DEF Type
<1>2. Behind(t) \subseteq Types
  <2> DEFINE meta == Type(t).metatable
  <2>1. CASE Type(t).kind # "metatable"
    BY <2>1 DEF Behind
  <2>2. CASE Type(t).kind = "metatable" /\ Type(meta).kind = "table"
    <3>1. meta \in Types
      BY <1>1, <2>2
    <3>2. \A p \in Prop(meta, "__index") : p.ty \in Types
      BY <1>1, <3>1 DEF Prop
    <3>3. Behind(t) = {p.ty : p \in Prop(meta, "__index")}
      BY <2>2 DEF Behind
    <3> HIDE DEF Types, meta
    <3> QED BY <3>2, <3>3
  <2>3. CASE Type(t).kind = "metatable" /\ Type(meta).kind # "table"
    BY <2>3 DEF Behind
  <2> QED BY <2>1, <2>2, <2>3
<1> QED BY <1>1, <1>2

\* What lookupProp finds is in a table of the workspace, and it looks first at
\* the type it is given.
LEMMA LookupFinds ==
    ASSUME IsWorkspace(program), NEW t \in DOMAIN program.types, NEW name
    PROVE  /\ \A f \in LookupProp(t, name) :
                 /\ f.base \in DOMAIN program.types /\ Type(f.base).kind = "table"
                 /\ f.prop \in Prop(f.base, name)
           /\ Type(t).kind = "table" => \A p \in Prop(t, name) : [base |-> t, prop |-> p] \in LookupProp(t, name)
<1> DEFINE Types == DOMAIN program.types
           found(b) == {[base |-> b, prop |-> p] : p \in {q \in Prop(b, name) : Type(b).kind = "table"}}
           here(u) == CASE Type(u).kind = "table" -> found(u)
                        [] Type(u).kind = "metatable" -> found(Type(u).table)
                        [] OTHER -> {}
           next(u) == CASE Type(u).kind = "union" -> Type(u).options
                        [] Type(u).kind = "metatable" /\ here(u) = {} /\ Type(Type(u).metatable).kind = "table" ->
                              {v \in Behind(u) : Type(v).kind \in {"table", "metatable"}}
                        [] OTHER -> {}
           nexts == [u \in Types |-> next(u)]
           all == Reached({t}, nexts)
<1>1. LookupProp(t, name) = UNION {here(u) : u \in all}
  BY Zenon DEF LookupProp
<1>2. \A u \in Types : next(u) \subseteq Types
  <2> SUFFICES ASSUME NEW u \in Types PROVE next(u) \subseteq Types
    OBVIOUS
  <2>1. Type(u).kind = "union" => Type(u).options \subseteq Types
    BY TypesClosed
  <2>2. Behind(u) \subseteq Types
    BY TypesClosed
  <2> HIDE DEF Types, here
  <2> QED BY <2>1, <2>2
<1>3. ASSUME NEW u \in Types, NEW f \in here(u)
      PROVE  f.base \in Types /\ Type(f.base).kind = "table" /\ f.prop \in Prop(f.base, name)
  <2>1. \A b \in Types : \A x \in found(b) : x.base = b /\ Type(b).kind = "table" /\ x.prop \in Prop(b, name)
    OBVIOUS
  <2>2. Type(u).kind = "metatable" => Type(u).table \in Types
    BY TypesClosed
  <2>3. here(u) \subseteq found(u) \/ (Type(u).kind = "metatable" /\ here(u) \subseteq found(Type(u).table))
    <3> HIDE DEF found
    <3>1. CASE Type(u).kind = "table"
      BY <3>1
    <3>2. CASE Type(u).kind = "metatable"
      BY <3>2
    <3>3. CASE Type(u).kind # "table" /\ Type(u).kind # "metatable"
      BY <3>3
    <3> QED BY <3>1, <3>2, <3>3
  <2> HIDE DEF found, here, Types
  <2> QED BY <2>1, <2>2, <2>3
<1>4. Type(t).kind = "table" => here(t) = found(t)
  <2> HIDE DEF found
  <2> QED OBVIOUS
<1>5. Type(t).kind = "table" => \A p \in Prop(t, name) : [base |-> t, prop |-> p] \in found(t)
  OBVIOUS
<1>6. IsFiniteSet(DOMAIN nexts) /\ {t} \subseteq Types /\ \A x \in Types : nexts[x] \subseteq Types
  <2> HIDE DEF next
  <2>1. DOMAIN nexts = Types /\ \A x \in Types : nexts[x] = next(x)
    OBVIOUS
  <2>2. IsFiniteSet(Types)
    BY DEF IsWorkspace, IsTyped
  <2> QED BY <1>2, <2>1, <2>2
<1> HIDE DEF nexts, here, found, next
<1>7. {t} \subseteq all /\ all \subseteq Types
  BY <1>6, ReachedWithin
<1> HIDE DEF all
<1>8. ASSUME NEW f \in LookupProp(t, name)
      PROVE  f.base \in Types /\ Type(f.base).kind = "table" /\ f.prop \in Prop(f.base, name)
  <2>1. PICK u \in all : f \in here(u)
    BY <1>1
  <2> QED BY <1>3, <1>7, <2>1
<1>9. here(t) \subseteq LookupProp(t, name)
  BY <1>1, <1>7
<1> QED BY <1>4, <1>5, <1>8, <1>9

\* A search for a node or a type goes on from a generic or a property to what
\* declares it, and stops at any other node that is no local.
LEMMA FoundAt ==
    ASSUME IsWorkspace(program), NEW m \in Modules, NEW i \in Nodes(m)
    PROVE  /\ Kind(m, i) \notin {"generic", "prop", "local"} => NodeOrTypeAt(m, i) = i
           /\ Kind(m, i) \in {"generic", "prop"} =>
                 /\ NodeOrTypeAt(m, i) = Node(m, i).up /\ Node(m, i).up \in Nodes(m)
                 /\ Kind(m, Node(m, i).up) \in Binders \union {"typeTable"}
<1> DEFINE skipped == {"generic", "prop", "local"}
           S == {j \in Around(m, i) : Kind(m, j) \notin skipped}
<1>1. /\ i \in Around(m, i) /\ Around(m, i) \subseteq Nodes(m) /\ \A j \in Around(m, i) : j <= i
      /\ i \in Nat /\ i # 0
  BY Tree
<1>2. \A j \in Nodes(m) : j \in Nat
  BY Tree
<1>3. NodeOrTypeAt(m, i) = Nearest(S)
  BY DEF NodeOrTypeAt
<1>4. CASE Kind(m, i) \notin skipped
  <2>1. S \in SUBSET Nat /\ i \in S /\ \A k \in S : k <= i
    BY <1>1, <1>2, <1>4
  <2> HIDE DEF S
  <2>2. NodeOrTypeAt(m, i) = i
    BY <1>3, <2>1, NearestIs
  <2> QED BY <1>4, <2>2
<1>5. CASE Kind(m, i) \in {"generic", "prop"}
  <2> DEFINE up == Node(m, i).up
  <2>1. up # 0 /\ Kind(m, up) \in Binders \union {"typeTable"}
    BY <1>5, Grammar DEF Kind
  <2>2. up \in Nodes(m) /\ Around(m, i) = {i} \union Around(m, up)
    BY <2>1, Tree
  <2>3. up \in Around(m, up) /\ \A j \in Around(m, up) : j <= up
    BY <2>2, Tree
  <2>4. Kind(m, up) \notin skipped
    BY <2>1 DEF Binders
  <2> HIDE DEF up
  <2>5. S \in SUBSET Nat /\ up \in S /\ \A k \in S : k <= up
    BY <1>1, <1>2, <1>5, <2>2, <2>3, <2>4
  <2> HIDE DEF S
  <2>6. NodeOrTypeAt(m, i) = up
    BY <1>3, <2>5, NearestIs
  <2> QED BY <1>5, <2>1, <2>2, <2>6 DEF up
<1>6. CASE Kind(m, i) = "local"
  BY <1>6
<1> QED BY <1>4, <1>5, <1>6

\* A type name or an index is found at its own position only.
LEMMA FoundItself ==
    ASSUME IsWorkspace(program), NEW m \in Modules, NEW i \in Nodes(m), SymbolAt(m, i) = "none",
           NodeOrTypeAt(m, i) # 0, Kind(m, NodeOrTypeAt(m, i)) \in {"typeRef", "index"}
    PROVE  NodeOrTypeAt(m, i) = i
<1>1. CASE Kind(m, i) \notin {"generic", "prop", "local"}
  BY <1>1, FoundAt
<1>2. CASE Kind(m, i) \in {"generic", "prop"}
  BY <1>2, FoundAt DEF Binders
<1>3. CASE Kind(m, i) = "local"
  <2> DEFINE T == {j \in Around(m, i) : Kind(m, j) \in Exprs \union {"local"}}
  <2>1. T \in SUBSET Nat /\ i \in T /\ (\A k \in T : k <= i) /\ i # 0
    <3>1. /\ i \in Around(m, i) /\ Around(m, i) \subseteq Nodes(m) /\ \A j \in Around(m, i) : j <= i
          /\ i # 0
      BY Tree
    <3>2. \A j \in Nodes(m) : j \in Nat
      BY Tree
    <3> QED BY <1>3, <3>1, <3>2
  <2>2. ExprOrLocalAt(m, i) = Nearest(T)
    BY DEF ExprOrLocalAt
  <2> HIDE DEF T
  <2>3. ExprOrLocalAt(m, i) = i
    BY <2>1, <2>2, NearestIs
  <2>4. SymbolAt(m, i) = Node(m, i).sym
    BY <1>3, <2>1, <2>3 DEF SymbolAt
  <2>5. Node(m, i).sym # "none"
    BY <1>3, Grammar DEF Kind
  <2> QED BY <2>4, <2>5
<1> QED BY <1>1, <1>2, <1>3

\* At a type name or a type parameter there is no symbol and no property.
LEMMA NoSymbolAtTypes ==
    ASSUME IsWorkspace(program), NEW m \in Modules, NEW i \in Nodes(m), Kind(m, i) \in {"typeRef", "generic"}
    PROVE  SymbolAt(m, i) = "none" /\ ReferencesAt(m, i) = TypeReferences(m, i)
<1> DEFINE e == ExprOrLocalAt(m, i)
<1>1. e # 0 => Kind(m, e) \in {"function", "table", "call", "indexExpr", "other"}
  <2>1. e = Nearest({j \in Around(m, i) : Kind(m, j) \in Exprs \union {"local"}})
    BY DEF ExprOrLocalAt
  <2> HIDE DEF e
  <2> QED BY <2>1, Grammar DEF Kind
<1> HIDE DEF e
<1>2. SymbolAt(m, i) = "none"
  BY <1>1 DEF SymbolAt, e
<1>3. e # 0 => Owner(m, e) = 0
  BY <1>1 DEF Owner
<1>4. ReferencesAt(m, i) = TypeReferences(m, i)
  BY <1>2, <1>3 DEF ReferencesAt, e
<1> QED BY <1>2, <1>4

LEMMA ImportsAreModules ==
    ASSUME IsWorkspace(program), NEW m \in Modules, NEW prefix \in DOMAIN program.imports[m]
    PROVE  program.imports[m][prefix] \in Modules
BY DEF IsWorkspace, Modules

\* The references of a type name are its aliases, for a name of another module
\* those it exports.
LEMMA TypeDefinitionsAreFound ==
    ASSUME IsWorkspace(program), NEW m \in Modules, NEW i \in Nodes(m), SymbolAt(m, i) = "none",
           NodeOrTypeAt(m, i) # 0, Kind(m, NodeOrTypeAt(m, i)) = "typeRef", BinderOf(m, NodeOrTypeAt(m, i)) = 0
    PROVE  GotoDefinition(m, i) \subseteq ReferencesAt(m, i)
<1> DEFINE n == Node(m, i)
<1>1. NodeOrTypeAt(m, i) = i /\ Kind(m, i) = "typeRef" /\ BinderOf(m, i) = 0 /\ i # 0
  BY FoundItself
<1>3. ReferencesAt(m, i) = TypeReferences(m, i)
  BY <1>1, NoSymbolAtTypes
<1>4. GotoDefinition(m, i) \subseteq TypeRefDefinitions(m, i)
  <2>1. RequiredModule(m, i) = {}
    <3>1. n.up # 0 => Kind(m, n.up) # "call"
      BY <1>1, Grammar DEF Kind
    <3> HIDE DEF n
    <3> QED BY <3>1 DEF RequiredModule, n
  <2>2. GotoDefinition(m, i) = TypeRefDefinitions(m, i) \/ GotoDefinition(m, i) = RequiredModule(m, i)
    BY <1>1 DEF GotoDefinition
  <2> QED BY <2>1, <2>2
<1> DEFINE named(d) == {At(d, k) : k \in {j \in Nodes(d) : Kind(d, j) = "alias" /\ Node(d, j).up = 0 /\ Node(d, j).name = n.name}}
<1>5. CASE n.prefix = ""
  <2>1. TypeReferences(m, i) = FindTypeReferences(m, n.name, "") \union TypeAliases(m, n.name)
    BY <1>1, <1>5 DEF TypeReferences, TypeAliases, GenericAt, Kind
  <2>2. TypeRefDefinitions(m, i) = TypeAliases(m, n.name)
    BY <1>5 DEF TypeRefDefinitions
  <2> QED BY <1>3, <1>4, <2>1, <2>2
<1>6. CASE n.prefix # "" /\ n.prefix \in DOMAIN program.imports[m]
  <2> DEFINE d == program.imports[m][n.prefix]
  <2>1. TypeReferences(m, i) = FindAllTypeReferences(d, n.name)
    BY <1>1, <1>6 DEF TypeReferences, GenericAt, Kind
  <2>2. TypeRefDefinitions(m, i) = {l \in TypeAliases(d, n.name) : Node(l.module, l.node).exported}
    BY <1>6 DEF TypeRefDefinitions
  <2>3. d \in Modules
    BY <1>6, ImportsAreModules
  <2> HIDE DEF d, n
  <2>4. named(d) \subseteq FindAllTypeReferences(d, n.name)
    BY DEF FindAllTypeReferences
  <2>5. ASSUME NEW l \in TypeAliases(d, n.name), Node(l.module, l.node).exported PROVE l \in named(d)
    <3>1. PICK k \in Nodes(d) : l = At(d, k) /\ Kind(d, k) = "alias" /\ Node(d, k).name = n.name
      BY DEF TypeAliases
    <3>2. l.module = d /\ l.node = k
      BY <3>1 DEF At
    <3>3. Node(d, k).up = 0
      <4>1. Node(d, k).kind = "alias" /\ Node(d, k).exported
        BY <2>5, <3>1, <3>2 DEF Kind
      <4>2. Node(d, k).kind = "alias" /\ Node(d, k).exported => Node(d, k).up = 0
        BY <2>3, Grammar
      <4> QED BY <4>1, <4>2
    <3> QED BY <3>1, <3>3
  <2> QED BY <1>3, <1>4, <2>1, <2>2, <2>4, <2>5
<1>7. CASE n.prefix # "" /\ n.prefix \notin DOMAIN program.imports[m]
  <2>1. TypeRefDefinitions(m, i) = {}
    BY <1>7 DEF TypeRefDefinitions
  <2> QED BY <1>4, <2>1
<1> QED BY <1>5, <1>6, <1>7

\* The place where the only table that has a property declares it is a
\* reference of the property.
LEMMA PropertyDefinitionsAreFound ==
    ASSUME IsWorkspace(program), NEW m \in Modules, NEW i \in Nodes(m), SymbolAt(m, i) = "none",
           NodeOrTypeAt(m, i) # 0, Kind(m, NodeOrTypeAt(m, i)) = "index", Owner(m, NodeOrTypeAt(m, i)) # 0,
           NEW f, LookupProp(Owner(m, NodeOrTypeAt(m, i)), Node(m, NodeOrTypeAt(m, i)).name) = {f}, f.prop.loc # << >>
    PROVE  GotoDefinition(m, i) \subseteq ReferencesAt(m, i)
<1> DEFINE owner == Owner(m, i)
           name == Node(m, i).name
           t == f.base
           loc == f.prop.loc
<1>1. NodeOrTypeAt(m, i) = i /\ Kind(m, i) = "index" /\ i # 0
  BY FoundItself
<1>2. owner # 0 /\ LookupProp(owner, name) = {f}
  BY <1>1
<1>3. owner \in DOMAIN program.types
  <2>1. owner = Node(m, Node(m, i).of).ty
    BY <1>1 DEF Owner
  <2>2. Node(m, i).of \in Nodes(m)
    BY <1>1, Grammar DEF Kind
  <2>3. \A k \in Nodes(m) : Node(m, k).ty # 0 => Node(m, k).ty \in DOMAIN program.types
    <3>1. IsTyped(program)
      BY DEF IsWorkspace
    <3> QED BY <3>1 DEF IsTyped, Node, Nodes, Modules
  <2> QED BY <1>2, <2>1, <2>2, <2>3
<1>4. ReferencesAt(m, i) = FindAllPropertyReferences(owner, name)
  <2> DEFINE T == {j \in Around(m, i) : Kind(m, j) \in Exprs \union {"local"}}
  <2>1. T \in SUBSET Nat /\ i \in T /\ \A k \in T : k <= i
    <3>1. /\ i \in Around(m, i) /\ Around(m, i) \subseteq Nodes(m) /\ \A j \in Around(m, i) : j <= i
      BY Tree
    <3>2. \A j \in Nodes(m) : j \in Nat
      BY Tree
    <3> QED BY <1>1, <3>1, <3>2 DEF Exprs
  <2>2. ExprOrLocalAt(m, i) = Nearest(T)
    BY DEF ExprOrLocalAt
  <2> HIDE DEF T
  <2>3. ExprOrLocalAt(m, i) = i
    BY <2>1, <2>2, NearestIs
  <2> HIDE DEF owner, name
  <2> QED BY <1>1, <1>2, <2>3, Zenon DEF ReferencesAt, owner, name
<1>5. GotoDefinition(m, i) = {At(loc[1], loc[2])}
  <2>1. IndexDefinitions(m, i) = {At(loc[1], loc[2])}
    <3>1. {k \in {i} : Owner(m, k) # 0} = {i}
      BY <1>2
    <3>2. {x.prop.loc : x \in LookupProp(owner, name)} = {loc}
      BY <1>2
    <3>3. UNION {{x.prop.loc : x \in LookupProp(Owner(m, k), Node(m, k).name)} : k \in {i}} = {loc}
      BY <3>2
    <3>4. IndexDefinitions(m, i) = Located({loc})
      BY <1>1, <3>1, <3>3, Zenon DEF IndexDefinitions
    <3> HIDE DEF loc
    <3>5. loc # << >>
      BY DEF loc
    <3> QED BY <3>4, <3>5 DEF Located
  <2> HIDE DEF loc
  <2> QED BY <1>1, <2>1 DEF GotoDefinition
<1>6. t \in DOMAIN program.types /\ Type(t).kind = "table" /\ f.prop \in Prop(t, name)
  BY <1>2, <1>3, LookupFinds
<1>7. Defining(owner, name) = t
  <2>1. IsSingle({f}) /\ (CHOOSE x \in {f} : TRUE) = f
    BY DEF IsSingle
  <2> HIDE DEF owner, name
  <2> QED BY <1>2, <2>1 DEF Defining
<1>8. Type(t).def # << >>
  BY <1>6, TypesClosed DEF Prop
<1>9. loc \in {x.prop.loc : x \in LookupProp(t, name)} \ {<< >>}
  <2>1. [base |-> t, prop |-> f.prop] \in LookupProp(t, name)
    BY <1>6, LookupFinds
  <2>2. [base |-> t, prop |-> f.prop].prop.loc = loc
    OBVIOUS
  <2> HIDE DEF name, t
  <2> QED BY <2>1, <2>2
<1>10. At(loc[1], loc[2]) \in FindAllPropertyReferences(owner, name)
  <2> HIDE DEF loc, t, owner, name
  <2> QED BY <1>6, <1>7, <1>8, <1>9 DEF FindAllPropertyReferences
<1> QED BY <1>4, <1>5, <1>10

LEMMA PositionIs ==
    ASSUME NEW at \in Positions
    PROVE  at.module \in Modules /\ at.node \in Nodes(at.module) /\ at = At(at.module, at.node)
<1>1. PICK m \in Modules : at \in {At(m, i) : i \in Nodes(m)}
  BY DEF Positions
<1>2. PICK i \in Nodes(m) : at = At(m, i)
  BY <1>1
<1>3. at.module = m /\ at.node = i
  BY <1>2 DEF At
<1> QED BY <1>2, <1>3

\* An answered request for a definition is about a node, and its answer is what
\* gotoDefinition finds there.
DefinitionsAnswered ==
    request.kind = "definition" /\ answer.error = "" =>
        Here \in Modules /\ There \in Nodes(Here) /\ answer.found = GotoDefinition(Here, There)

LEMMA AnsweredDefinitions ==
    ASSUME program \in Programs, DefinitionsAnswered
    PROVE  DefinitionsAreReferences
<1> DEFINE j == NodeOrTypeAt(Here, There)
           isType == Kind(Here, j) = "typeRef" /\ BinderOf(Here, j) = 0
           found == LookupProp(Owner(Here, j), Node(Here, j).name)
           isProperty == /\ Kind(Here, j) = "index" /\ Owner(Here, j) # 0
                         /\ IsSingle(found) /\ \A f \in found : f.prop.loc # << >>
<1>1. SUFFICES ASSUME request.kind = "definition", answer.error = "", SymbolAt(Here, There) = "none",
                      j # 0, isType \/ isProperty
               PROVE  answer.found \subseteq ReferencesAt(Here, There)
  BY Zenon DEF DefinitionsAreReferences
<1>2. Here \in Modules /\ There \in Nodes(Here) /\ answer.found = GotoDefinition(Here, There)
  BY <1>1 DEF DefinitionsAnswered
<1>3. IsWorkspace(program)
  BY ReferencesAssumption
<1>4. CASE isType
  BY <1>1, <1>2, <1>3, <1>4, TypeDefinitionsAreFound
<1>5. CASE isProperty
  <2>1. PICK f : found = {f}
    BY <1>5 DEF IsSingle
  <2>2. f.prop.loc # << >>
    BY <1>5, <2>1
  <2> QED BY <1>1, <1>2, <1>3, <1>5, <2>1, <2>2, PropertyDefinitionsAreFound
<1> QED BY <1>1, <1>4, <1>5

LEMMA SameDefinitions ==
    ASSUME program' = program, NEW m, NEW i
    PROVE  GotoDefinition(m, i)' = GotoDefinition(m, i)
BY DEF GotoDefinition, NodeOrTypeAt, ExprOrLocalAt, SymbolAt, IsGlobalBinding, BindingDefinitions, TypeRefDefinitions,
       TypeAliases, IndexDefinitions, RequiredModule, Owner, LookupProp, Behind, Prop, Type, Around, Kind, Node, Nodes, Modules

LEMMA DefinitionsStay ==
    ASSUME program \in Programs, DefinitionsAnswered, [Next]_vars
    PROVE  DefinitionsAnswered'
<1>1. program' = program
  BY WorkspaceStays
<1>2. CASE FindReferences \/ RenameSymbol \/ PrepareCallHierarchy \/ CallHierarchy \/ RequireGraph
  <2>1. request'.kind # "definition"
    BY <1>2, RequestKinds
  <2> QED BY <2>1, Zenon DEF DefinitionsAnswered
<1>3. CASE GotoRequest
  <2>0. PICK at \in Positions : \E error :
           \/ Answer([kind |-> "definition", at |-> at], error, GotoDefinition(at.module, at.node))
           \/ Answer([kind |-> "typeDefinition", at |-> at], error, GotoTypeDefinition(at.module, at.node))
    BY <1>3, Zenon DEF GotoRequest
  <2>1. PICK error :
           \/ Answer([kind |-> "definition", at |-> at], error, GotoDefinition(at.module, at.node))
           \/ Answer([kind |-> "typeDefinition", at |-> at], error, GotoTypeDefinition(at.module, at.node))
    BY <2>0, Zenon
  <2> DEFINE m == at.module
             i == at.node
             found == GotoDefinition(m, i)
  <2>2. m \in Modules /\ i \in Nodes(m)
    BY PositionIs
  <2>3. CASE Answer([kind |-> "definition", at |-> at], error, found)
    <3> HIDE DEF found
    <3>1. Here' = m /\ There' = i /\ (answer'.error = "" => answer'.found = found)
      BY <2>3 DEF Answer, Here, There
    <3>2. (m \in Modules /\ i \in Nodes(m))'
      BY <1>1, <2>2 DEF Modules, Nodes
    <3>3. GotoDefinition(m, i)' = found
      BY <1>1, SameDefinitions DEF found
    <3> QED BY <3>1, <3>2, <3>3 DEF DefinitionsAnswered
  <2>4. CASE Answer([kind |-> "typeDefinition", at |-> at], error, GotoTypeDefinition(m, i))
    <3> DEFINE types == GotoTypeDefinition(m, i)
    <3> HIDE DEF types
    <3>1. request'.kind # "definition"
      <4>1. request' = [kind |-> "typeDefinition", at |-> at]
        BY <2>4, Zenon DEF Answer
      <4> QED BY <4>1
    <3> QED BY <3>1, Zenon DEF DefinitionsAnswered
  <2> QED BY <2>1, <2>3, <2>4
<1>4. CASE UNCHANGED vars
  <2>1. request' = request /\ answer' = answer
    BY <1>4 DEF vars
  <2>2. Here' = Here /\ There' = There
    BY <2>1 DEF Here, There
  <2>3. (Here \in Modules /\ There \in Nodes(Here))' = (Here \in Modules /\ There \in Nodes(Here))
    BY <1>1, <2>1 DEF Modules, Nodes, Here, There
  <2>4. GotoDefinition(Here, There)' = GotoDefinition(Here, There)
    BY <1>1, <2>1
    DEF GotoDefinition, NodeOrTypeAt, ExprOrLocalAt, SymbolAt, IsGlobalBinding, BindingDefinitions, TypeRefDefinitions,
        TypeAliases, IndexDefinitions, RequiredModule, Owner, LookupProp, Behind, Prop, Type, Around, Kind, Node, Nodes,
        Modules, Here, There
  <2> QED BY <2>1, <2>3, <2>4, Zenon DEF DefinitionsAnswered
<1> QED BY <1>2, <1>3, <1>4 DEF Next

\* The definition of a property or of a type name is among its references.
\* (WorkspaceFolder::gotoDefinition, WorkspaceFolder::references)
THEOREM DefinitionsAmongReferences == Spec => []DefinitionsAreReferences
<1> DEFINE Inv == program \in Programs /\ DefinitionsAnswered
<1>1. Init => Inv
  <2>1. request.kind = "none" => DefinitionsAnswered
    BY Zenon DEF DefinitionsAnswered
  <2> QED BY <2>1, WorkspaceStays, RequestKinds, Zenon
<1>2. Inv /\ [Next]_vars => Inv'
  <2> SUFFICES ASSUME Inv, [Next]_vars PROVE Inv'
    OBVIOUS
  <2>1. program' = program
    BY WorkspaceStays
  <2> QED BY <2>1, DefinitionsStay
<1>3. Inv => DefinitionsAreReferences
  BY AnsweredDefinitions
<1> QED BY <1>1, <1>2, <1>3, PTL DEF Spec

-----------------------------------------------------------------------------
(* Renaming a type parameter.                                              *)

\* The type parameters that binder b declares as "from" can be renamed to "to".
CanRename(m, b, from, to) ==
    /\ m \in Modules /\ b \in Nodes(m) /\ Kind(m, b) \in Binders
    /\ \E g \in Generics(m, b) : Node(m, g).name = from
    /\ \A d \in Modules : \A k \in Nodes(d) : Node(d, k).name # to
    /\ \A k \in Below(m, b) \ {b} :
          Kind(m, k) \in {"alias", "function"} => \A g \in Generics(m, k) : Node(m, g).name # from
    /\ \A k \in Below(m, b) : Kind(m, k) = "typeRef" /\ Node(m, k).name = from => Node(m, k).prefix = ""

Usages(m, b, from) ==
    {k \in Below(m, b) : Kind(m, k) \in {"generic", "typeRef"} /\ Node(m, k).name = from /\ ~Hidden(m, b, from, k)}

AreUsages(found, m, b, from) == found = {At(m, k) : k \in Usages(m, b, from)}

OldNames == [l \in Positions |-> Node(l.module, l.node).name]
NewNamesOf(found, to) == [l \in Positions |-> IF l \in found THEN to ELSE OldNames[l]]

LEMMA NodePositions ==
    ASSUME NEW m \in Modules, NEW i \in Nodes(m)
    PROVE  At(m, i) \in Positions /\ At(m, i).module = m /\ At(m, i).node = i
<1>1. At(m, i) \in {At(m, k) : k \in Nodes(m)}
  OBVIOUS
<1>2. At(m, i).module = m /\ At(m, i).node = i
  BY DEF At
<1> QED BY <1>1, <1>2 DEF Positions

LEMMA NamesOf ==
    ASSUME NEW m, NEW b, NEW from, NEW to, NEW found, AreUsages(found, m, b, from),
           NEW d \in Modules, NEW k \in Nodes(d)
    PROVE  /\ OldNames[At(d, k)] = Node(d, k).name
           /\ NewNamesOf(found, to)[At(d, k)] = IF d = m /\ k \in Usages(m, b, from) THEN to ELSE Node(d, k).name
<1>1. At(d, k) \in Positions /\ At(d, k).module = d /\ At(d, k).node = k
  BY NodePositions
<1>2. OldNames[At(d, k)] = Node(d, k).name
  BY <1>1 DEF OldNames
<1>3. At(d, k) \in found <=> d = m /\ k \in Usages(m, b, from)
  <2>1. ASSUME At(d, k) \in found PROVE d = m /\ k \in Usages(m, b, from)
    <3>1. PICK j \in Usages(m, b, from) : At(d, k) = At(m, j)
      BY <2>1 DEF AreUsages
    <3>2. At(m, j).module = m /\ At(m, j).node = j
      BY DEF At
    <3> QED BY <1>1, <3>1, <3>2
  <2> QED BY <2>1 DEF AreUsages
<1>4. NewNamesOf(found, to)[At(d, k)] = IF At(d, k) \in found THEN to ELSE OldNames[At(d, k)]
  BY <1>1 DEF NewNamesOf
<1> QED BY <1>2, <1>3, <1>4

\* Of the type parameters with the old name, those of the binder are renamed,
\* and no others.
LEMMA BindersGenerics ==
    ASSUME IsWorkspace(program), NEW m, NEW b, NEW from, NEW to, CanRename(m, b, from, to),
           NEW p \in Nodes(m), NEW g \in Generics(m, p)
    PROVE  g \in Usages(m, b, from) <=> p = b /\ Node(m, g).name = from
<1>1. m \in Modules /\ b \in Nodes(m) /\ Kind(m, b) \in Binders
  BY DEF CanRename
<1>2. g \in Nodes(m) /\ Node(m, g).up = p /\ Kind(m, g) = "generic"
  BY DEF Generics
<1>3. p # 0 /\ p \in Nat /\ p \in Around(m, p)
  BY <1>1, Tree
<1>4. Kind(m, p) \in Binders
  BY <1>1, <1>2, <1>3, Grammar DEF Kind
<1>5. Around(m, g) = {g} \union Around(m, p)
  BY <1>1, <1>2, <1>3, Tree
<1>6. b # g
  BY <1>1, <1>2 DEF Binders
<1>7. CASE p = b /\ Node(m, g).name = from
  <2>1. g \in Below(m, b)
    BY <1>2, <1>3, <1>5, <1>7 DEF Below
  <2>2. ~Hidden(m, b, from, g)
    BY <1>2, <1>5, <1>7 DEF Hidden
  <2> QED BY <1>2, <1>7, <2>1, <2>2 DEF Usages
<1>8. ASSUME g \in Usages(m, b, from) PROVE p = b /\ Node(m, g).name = from
  <2>1. g \in Below(m, b) /\ Node(m, g).name = from /\ ~Hidden(m, b, from, g)
    BY <1>8 DEF Usages
  <2>2. SUFFICES ASSUME p # b PROVE FALSE
    BY <2>1
  <2>3. b \in Around(m, p)
    BY <1>5, <1>6, <2>1 DEF Below
  <2>4. p \in Below(m, b) \ {b}
    BY <2>2, <2>3 DEF Below
  <2>5. Kind(m, p) = "typeFunction"
    <3>1. Kind(m, p) \notin {"alias", "function"}
      BY <2>1, <2>4 DEF CanRename
    <3> QED BY <1>4, <3>1 DEF Binders
  <2>6. p \notin Around(m, b)
    <3>1. b <= p /\ b \in Nat
      BY <1>1, <2>3, Tree
    <3>2. \A j \in Around(m, b) : j <= b
      BY <1>1, Tree
    <3> QED BY <1>3, <2>2, <3>1, <3>2
  <2>7. Hidden(m, b, from, g)
    BY <1>3, <1>5, <2>1, <2>5, <2>6 DEF Hidden
  <2> QED BY <2>1, <2>7
<1> QED BY <1>7, <1>8

\* The parts a meaning is made of.
NamedBinders(d, i, called) ==
    {j \in Around(d, i) : Kind(d, j) \in Binders /\ \E g \in Generics(d, j) : called[At(d, g)] = called[At(d, i)]}

NamedAliases(d, name, called) ==
    {At(d, k) : k \in {l \in Nodes(d) : Kind(d, l) = "alias" /\ called[At(d, l)] = name}}

ImportedBy(d, i) == {program.imports[d][n] : n \in {Node(d, i).prefix} \intersect DOMAIN program.imports[d]}

LEMMA MeaningIs ==
    ASSUME NEW d, NEW i, NEW called
    PROVE  Meaning(d, i, called) =
              IF Node(d, i).prefix # "" THEN UNION {NamedAliases(x, called[At(d, i)], called) : x \in ImportedBy(d, i)}
              ELSE IF NamedBinders(d, i, called) # {} THEN {At(d, Nearest(NamedBinders(d, i, called)))}
              ELSE NamedAliases(d, called[At(d, i)], called)
BY Zenon DEF Meaning, NamedBinders, NamedAliases, ImportedBy

\* No alias is renamed.
LEMMA SameAliases ==
    ASSUME NEW m, NEW b, NEW from, NEW to, NEW found, AreUsages(found, m, b, from),
           NEW d \in Modules, NEW name
    PROVE  NamedAliases(d, name, NewNamesOf(found, to)) = NamedAliases(d, name, OldNames)
<1>1. ASSUME NEW k \in Nodes(d), Kind(d, k) = "alias"
      PROVE  NewNamesOf(found, to)[At(d, k)] = OldNames[At(d, k)]
  <2>1. ~(d = m /\ k \in Usages(m, b, from))
    BY <1>1 DEF Usages
  <2> QED BY <2>1, NamesOf
<1> QED BY <1>1 DEF NamedAliases

\* A function type that hides a binder stands behind it.
LEMMA HiddenBehind ==
    ASSUME IsWorkspace(program), NEW m \in Modules, NEW i \in Nodes(m), NEW b \in Around(m, i),
           NEW k \in Around(m, i), k \notin Around(m, b)
    PROVE  b < k
<1>1. Around(m, i) \subseteq Nodes(m)
  BY Tree
<1>2. b \in Nat /\ k \in Nat
  BY <1>1, Tree
<1>3. k <= b => k \in Around(m, b)
  BY Chained
<1> QED BY <1>2, <1>3

\* A renamed type name stands for the binder, before and after.
LEMMA MeaningOfRenamed ==
    ASSUME IsWorkspace(program), NEW m, NEW b, NEW from, NEW to, CanRename(m, b, from, to),
           NEW found, AreUsages(found, m, b, from),
           NEW i \in Usages(m, b, from), Kind(m, i) = "typeRef"
    PROVE  Meaning(m, i, OldNames) = {At(m, b)} /\ Meaning(m, i, NewNamesOf(found, to)) = {At(m, b)}
<1> DEFINE old == OldNames
           new == NewNamesOf(found, to)
<1>1. m \in Modules /\ b \in Nodes(m) /\ Kind(m, b) \in Binders /\ b \in Nat
  BY Tree DEF CanRename
<1>2. i \in Nodes(m) /\ b \in Around(m, i) /\ i \in Below(m, b) /\ Node(m, i).name = from /\ ~Hidden(m, b, from, i)
  BY DEF Usages, Below
<1>3. Node(m, i).prefix = ""
  BY <1>2 DEF CanRename
<1>4. Around(m, i) \subseteq Nodes(m) /\ Around(m, i) \subseteq Nat
  <2>1. Around(m, i) \subseteq Nodes(m)
    BY <1>1, <1>2, Tree
  <2> QED BY <1>1, <2>1, Tree
<1>5. \A k \in Nodes(m) : /\ old[At(m, k)] = Node(m, k).name
                          /\ new[At(m, k)] = IF k \in Usages(m, b, from) THEN to ELSE Node(m, k).name
  <2>1. ASSUME NEW d \in Modules, NEW j \in Nodes(d)
        PROVE  /\ OldNames[At(d, j)] = Node(d, j).name
               /\ NewNamesOf(found, to)[At(d, j)] = IF d = m /\ j \in Usages(m, b, from) THEN to ELSE Node(d, j).name
    BY NamesOf
  <2> QED BY <1>1, <2>1
<1>6. old[At(m, i)] = from /\ new[At(m, i)] = to
  BY <1>2, <1>5
<1>7. \A k \in Nodes(m) : Node(m, k).name # to
  BY <1>1 DEF CanRename
<1>8. \A p \in Nodes(m) : \A g \in Generics(m, p) :
         g \in Nodes(m) /\ (g \in Usages(m, b, from) <=> p = b /\ Node(m, g).name = from)
  BY BindersGenerics DEF Generics
<1>9. PICK g \in Generics(m, b) : Node(m, g).name = from
  BY DEF CanRename
<1> HIDE DEF old, new
<1>10. NamedBinders(m, i, new) = {b}
  <2>1. \A p \in Nodes(m) : \A h \in Generics(m, p) : new[At(m, h)] = to => p = b
    BY <1>5, <1>7, <1>8
  <2>2. new[At(m, g)] = to
    BY <1>1, <1>5, <1>8, <1>9
  <2>3. \A j \in NamedBinders(m, i, new) : j = b
    BY <1>4, <1>6, <2>1 DEF NamedBinders
  <2>4. b \in NamedBinders(m, i, new)
    BY <1>1, <1>2, <1>6, <1>9, <2>2 DEF NamedBinders
  <2> QED BY <2>3, <2>4
<1>11. b \in NamedBinders(m, i, old)
  <2>1. old[At(m, g)] = from
    BY <1>1, <1>5, <1>8, <1>9
  <2> QED BY <1>1, <1>2, <1>6, <1>9, <2>1 DEF NamedBinders
<1>12. ASSUME NEW j \in NamedBinders(m, i, old) PROVE j <= b
  <2>1. j \in Around(m, i) /\ Kind(m, j) \in Binders /\ \E h \in Generics(m, j) : old[At(m, h)] = from
    BY <1>6 DEF NamedBinders
  <2>2. j \in Nodes(m) /\ j \in Nat
    BY <1>4, <2>1
  <2>3. PICK h \in Generics(m, j) : Node(m, h).name = from
    BY <1>5, <1>8, <2>1, <2>2
  <2>4. SUFFICES ASSUME b < j PROVE FALSE
    BY <1>1, <2>2
  <2>5. b \in Around(m, j)
    <3>1. b <= j
      BY <1>1, <2>2, <2>4
    <3> QED BY <1>1, <1>2, <2>1, <3>1, Chained, Zenon
  <2>6. j \in Below(m, b) \ {b}
    BY <1>1, <2>2, <2>4, <2>5 DEF Below
  <2>7. Kind(m, j) = "typeFunction"
    <3>1. Kind(m, j) \notin {"alias", "function"}
      BY <2>3, <2>6 DEF CanRename
    <3> QED BY <2>1, <3>1 DEF Binders
  <2>8. j \notin Around(m, b)
    <3>1. \A k \in Around(m, b) : k <= b
      BY <1>1, Tree
    <3> QED BY <1>1, <2>2, <2>4, <3>1
  <2> QED BY <1>2, <2>1, <2>3, <2>7, <2>8 DEF Hidden
<1>13. Nearest(NamedBinders(m, i, old)) = b
  <2>1. NamedBinders(m, i, old) \in SUBSET Nat
    BY <1>4 DEF NamedBinders
  <2> QED BY <1>11, <1>12, <2>1, NearestIs
<1>14. Nearest({b}) = b
  BY <1>1, NearestIs
<1>15. Meaning(m, i, old) = {At(m, b)}
  <2>1. NamedBinders(m, i, old) # {}
    BY <1>11
  <2> QED BY <1>3, <1>13, <2>1, MeaningIs
<1>16. Meaning(m, i, new) = {At(m, b)}
  BY <1>3, <1>10, <1>14, MeaningIs
<1> QED BY <1>15, <1>16 DEF old, new

\* Any other type name stands for what it stood for.
LEMMA MeaningOfOthers ==
    ASSUME IsWorkspace(program), NEW m, NEW b, NEW from, NEW to, CanRename(m, b, from, to),
           NEW found, AreUsages(found, m, b, from),
           NEW d \in Modules, NEW i \in Nodes(d), Kind(d, i) = "typeRef", ~(d = m /\ i \in Usages(m, b, from))
    PROVE  Meaning(d, i, NewNamesOf(found, to)) = Meaning(d, i, OldNames)
<1> DEFINE old == OldNames
           new == NewNamesOf(found, to)
           name == Node(d, i).name
           before == NamedBinders(d, i, old)
           after == NamedBinders(d, i, new)
<1>1. m \in Modules /\ b \in Nodes(m) /\ Kind(m, b) \in Binders /\ b \in Nat
  BY Tree DEF CanRename
<1>2. Around(d, i) \subseteq Nodes(d) /\ Around(d, i) \subseteq Nat
  <2>1. Around(d, i) \subseteq Nodes(d)
    BY Tree
  <2> QED BY <2>1, Tree
<1>3. \A k \in Nodes(d) : /\ old[At(d, k)] = Node(d, k).name
                          /\ new[At(d, k)] = IF d = m /\ k \in Usages(m, b, from) THEN to ELSE Node(d, k).name
  BY NamesOf
<1>4. old[At(d, i)] = name /\ new[At(d, i)] = name
  BY <1>3
<1>5. name # to /\ \A k \in Nodes(d) : Node(d, k).name # to
  BY DEF CanRename
<1>6. \A p \in Nodes(d) : \A g \in Generics(d, p) :
         /\ g \in Nodes(d)
         /\ d = m => (g \in Usages(m, b, from) <=> p = b /\ Node(m, g).name = from)
  BY BindersGenerics DEF Generics
<1>7. \A e \in Modules : NamedAliases(e, name, new) = NamedAliases(e, name, old)
  BY SameAliases
<1>8. ImportedBy(d, i) \subseteq Modules
  BY ImportsAreModules DEF ImportedBy
<1> HIDE DEF old, new, name
<1>9. before = after \/ (before # {} /\ after # {} /\ Nearest(before) = Nearest(after))
  <2>1. CASE d # m \/ name # from
    <3>1. ASSUME NEW j \in Around(d, i), NEW g \in Generics(d, j) PROVE new[At(d, g)] = name <=> old[At(d, g)] = name
      <4>1. j \in Nodes(d) /\ g \in Nodes(d)
        BY <1>2, <1>6
      <4>2. d = m /\ g \in Usages(m, b, from) => Node(d, g).name = from
        BY <1>6, <4>1
      <4> QED BY <1>3, <1>5, <2>1, <4>1, <4>2
    <3>2. before = after
      BY <1>4, <3>1 DEF NamedBinders
    <3> QED BY <3>2
  <2>2. CASE d = m /\ name = from
    <3>1. ASSUME NEW j \in Around(d, i), NEW g \in Generics(d, j)
          PROVE  new[At(d, g)] = name <=> j # b /\ old[At(d, g)] = name
      <4>1. j \in Nodes(d) /\ g \in Nodes(d)
        BY <1>2, <1>6
      <4>2. g \in Usages(m, b, from) <=> j = b /\ Node(d, g).name = from
        BY <1>6, <2>2, <4>1
      <4> QED BY <1>3, <1>5, <2>2, <4>1, <4>2
    <3>2. after = before \ {b}
      BY <1>4, <3>1 DEF NamedBinders
    <3>3. CASE b \notin before
      BY <3>2, <3>3
    <3>4. CASE b \in before
      <4>1. b \in Around(m, i) /\ i \in Below(m, b)
        BY <2>2, <3>4 DEF NamedBinders, Below
      <4>2. Hidden(m, b, from, i)
        BY <2>2, <4>1 DEF Usages, name
      <4>3. PICK k \in Around(m, i) \ Around(m, b) :
               Kind(m, k) = "typeFunction" /\ \E g \in Generics(m, k) : Node(m, g).name = from
        BY <4>2 DEF Hidden
      <4>4. b < k /\ k \in Nat /\ k \in Nodes(m)
        BY <1>1, <1>2, <2>2, <4>1, <4>3, HiddenBehind
      <4>5. k \in before
        <5>1. PICK g \in Generics(m, k) : Node(m, g).name = from
          BY <4>3
        <5>2. old[At(m, g)] = from
          BY <1>3, <1>6, <2>2, <4>4, <5>1
        <5> QED BY <1>4, <2>2, <4>3, <5>1, <5>2 DEF NamedBinders, Binders
      <4>6. before \in SUBSET Nat /\ \A j \in before : j <= i /\ i \in Nat
        <5>1. i \in Nat /\ \A j \in Around(d, i) : j <= i
          BY Tree
        <5> QED BY <1>2, <5>1 DEF NamedBinders
      <4> HIDE DEF before, after
      <4>7. Nearest(before) \in before \union {0} /\ \A j \in before : j <= Nearest(before)
        BY <3>4, <4>6, NearestOf
      <4>8. Nearest(before) \in before /\ Nearest(before) # b
        BY <1>1, <4>4, <4>5, <4>6, <4>7
      <4>9. Nearest(before) \in after /\ after \in SUBSET Nat /\ \A j \in after : j <= Nearest(before)
        BY <3>2, <4>6, <4>7, <4>8
      <4>10. Nearest(after) = Nearest(before)
        BY <4>9, NearestIs
      <4> QED BY <4>8, <4>9, <4>10
    <3> QED BY <3>3, <3>4
  <2> QED BY <2>1, <2>2
<1> HIDE DEF before, after
<1>10. Meaning(d, i, new) = IF Node(d, i).prefix # "" THEN UNION {NamedAliases(x, name, new) : x \in ImportedBy(d, i)}
                            ELSE IF after # {} THEN {At(d, Nearest(after))} ELSE NamedAliases(d, name, new)
  BY <1>4, MeaningIs, Zenon DEF after
<1>11. Meaning(d, i, old) = IF Node(d, i).prefix # "" THEN UNION {NamedAliases(x, name, old) : x \in ImportedBy(d, i)}
                            ELSE IF before # {} THEN {At(d, Nearest(before))} ELSE NamedAliases(d, name, old)
  BY <1>4, MeaningIs, Zenon DEF before
<1>12. UNION {NamedAliases(x, name, new) : x \in ImportedBy(d, i)} = UNION {NamedAliases(x, name, old) : x \in ImportedBy(d, i)}
  BY <1>7, <1>8
<1>13. Meaning(d, i, new) = Meaning(d, i, old)
  <2>1. CASE Node(d, i).prefix # ""
    BY <1>10, <1>11, <1>12, <2>1, Zenon
  <2>2. CASE Node(d, i).prefix = ""
    <3>1. NamedAliases(d, name, new) = NamedAliases(d, name, old)
      BY <1>7
    <3>2. Meaning(d, i, new) = IF after # {} THEN {At(d, Nearest(after))} ELSE NamedAliases(d, name, new)
      BY <1>10, <2>2, Zenon
    <3>3. Meaning(d, i, old) = IF before # {} THEN {At(d, Nearest(before))} ELSE NamedAliases(d, name, old)
      BY <1>11, <2>2, Zenon
    <3> QED BY <1>9, <3>1, <3>2, <3>3
  <2> QED BY <2>1, <2>2
<1> QED BY <1>13 DEF new, old

\* What declares the type parameter at a position.
BinderAt(m, i) == IF Kind(m, i) = "generic" THEN Node(m, i).up ELSE BinderOf(m, i)

LEMMA BinderDeclares ==
    ASSUME IsWorkspace(program), NEW m \in Modules, NEW i \in Nodes(m), Kind(m, i) \in {"typeRef", "generic"},
           BinderAt(m, i) # 0
    PROVE  /\ BinderAt(m, i) \in Nodes(m) /\ Kind(m, BinderAt(m, i)) \in Binders
           /\ \E g \in Generics(m, BinderAt(m, i)) : Node(m, g).name = Node(m, i).name
<1>1. CASE Kind(m, i) = "generic"
  <2>1. BinderAt(m, i) = Node(m, i).up /\ Node(m, i).up \in Nodes(m)
    BY <1>1, FoundAt DEF BinderAt
  <2>2. Kind(m, Node(m, i).up) \in Binders
    BY <1>1, <2>1, Grammar DEF Kind
  <2>3. i \in Generics(m, Node(m, i).up)
    BY <1>1 DEF Generics
  <2> QED BY <2>1, <2>2, <2>3
<1>2. CASE Kind(m, i) = "typeRef"
  <2> DEFINE end == Nearest({j \in Around(m, i) : Kind(m, j) \notin {"typeRef", "typeFunction", "typeTable", "prop"}})
             S == {j \in Around(m, i) : j >= end}
             T == {j \in S : Kind(m, j) \in Binders /\ \E g \in Generics(m, j) : Node(m, g).name = Node(m, i).name}
  <2>1. BinderAt(m, i) = Nearest(T)
    BY <1>2 DEF BinderAt, BinderOf, Binding
  <2> HIDE DEF end
  <2>2. T \in SUBSET Nat /\ T \subseteq Nodes(m) /\ i \in Nat /\ \A j \in T : j <= i
    <3>1. Around(m, i) \subseteq Nodes(m) /\ i \in Nat /\ \A j \in Around(m, i) : j <= i
      BY Tree
    <3>2. \A j \in Nodes(m) : j \in Nat
      BY Tree
    <3> QED BY <3>1, <3>2
  <2>3. BinderAt(m, i) \in T
    <3> HIDE DEF T
    <3>1. Nearest(T) \in T \union {0}
      BY <2>2, NearestOf
    <3> QED BY <2>1, <3>1
  <2> QED BY <2>2, <2>3
<1> QED BY <1>1, <1>2

\* Asked for at a type parameter or at a name that stands for it, the rename
\* changes the usages of the parameter.
LEMMA RenamesUsages ==
    ASSUME IsWorkspace(program), NEW m \in Modules, NEW i \in Nodes(m), Kind(m, i) \in {"typeRef", "generic"},
           BinderAt(m, i) # 0, Kind(m, i) = "typeRef" => Node(m, i).prefix = ""
    PROVE  AreUsages({Adjusted(l) : l \in ReferencesForRenaming(m, i)}, m, BinderAt(m, i), Node(m, i).name)
<1> DEFINE b == BinderAt(m, i)
           name == Node(m, i).name
<1>1. ReferencesForRenaming(m, i) = TypeReferences(m, i)
  BY NoSymbolAtTypes DEF ReferencesForRenaming
<1>2. TypeReferences(m, i) = FindTypeParameterUsages(m, b, name)
  <2>1. CASE Kind(m, i) = "generic"
    <3> DEFINE up == Node(m, i).up
    <3>1. NodeOrTypeAt(m, i) = up /\ up \in Nodes(m) /\ b = up
      BY <2>1, FoundAt DEF BinderAt
    <3>2. Kind(m, up) \in Binders
      BY <2>1, Grammar DEF Kind
    <3>3. up # 0
      BY <3>1, Tree
    <3>4. GenericAt(m, i, up)
      BY <2>1, <3>2 DEF GenericAt
    <3> HIDE DEF b, up
    <3>5. TypeReferences(m, i) = FindTypeParameterUsages(m, up, Node(m, i).name)
      BY <3>1, <3>3, <3>4, Zenon DEF TypeReferences
    <3> QED BY <3>1, <3>5
  <2>2. CASE Kind(m, i) = "typeRef"
    <3>1. NodeOrTypeAt(m, i) = i /\ i # 0
      BY <2>2, FoundAt, Tree
    <3>2. ~GenericAt(m, i, i) /\ Node(m, i).kind = "typeRef" /\ Node(m, i).kind # "alias" /\ Node(m, i).prefix = ""
      BY <2>2 DEF GenericAt, Kind
    <3>3. b = BinderOf(m, i) /\ BinderOf(m, i) # 0
      BY <2>2 DEF BinderAt
    <3> HIDE DEF b
    <3>4. TypeReferences(m, i) = FindTypeParameterUsages(m, BinderOf(m, i), name)
      BY <3>1, <3>2, <3>3, Zenon DEF TypeReferences
    <3> QED BY <3>3, <3>4
  <2> QED BY <2>1, <2>2
<1> HIDE DEF b, name
<1>3. FindTypeParameterUsages(m, b, name) = {At(m, k) : k \in Usages(m, b, name)}
  BY DEF FindTypeParameterUsages, Usages
<1>4. ASSUME NEW k \in Usages(m, b, name) PROVE Adjusted(At(m, k)) = At(m, k)
  <2>1. At(m, k).module = m /\ At(m, k).node = k
    BY DEF At
  <2>2. Node(m, k).kind # "string"
    BY DEF Usages, Kind
  <2> QED BY <2>1, <2>2, Zenon DEF Adjusted
<1>5. {Adjusted(l) : l \in {At(m, k) : k \in Usages(m, b, name)}} = {At(m, k) : k \in Usages(m, b, name)}
  BY <1>4
<1> QED BY <1>1, <1>2, <1>3, <1>5 DEF AreUsages, b, name

\* An answered rename is about a position, and its answer is the adjusted
\* references.
RenameAnswered ==
    request.kind = "rename" /\ answer.error = "" =>
        request.at \in Positions /\ answer.found = {Adjusted(l) : l \in ReferencesForRenaming(Here, There)}

LEMMA AnsweredRenames ==
    ASSUME program \in Programs, RenameAnswered
    PROVE  TypeNamesKeepMeaning
<1> DEFINE to == request.name
           found == answer.found
           new == [l \in Positions |-> IF l \in found THEN to ELSE OldNames[l]]
           typeRefs == {l \in Positions : Kind(l.module, l.node) = "typeRef"}
           binder == BinderAt(Here, There)
           again == {k \in Below(Here, binder) \ {binder} : Kind(Here, k) \in {"alias", "function"}}
<1>1. SUFFICES ASSUME request.kind = "rename", answer.error = "",
                      Kind(Here, There) \in {"generic", "typeRef"}, binder # 0,
                      \A l \in Positions : OldNames[l] # to,
                      \A k \in again, g \in Nodes(Here) : g \in Generics(Here, k) => OldNames[At(Here, g)] # OldNames[request.at],
                      \A k \in Below(Here, binder) \union {There} :
                         Kind(Here, k) = "typeRef" /\ OldNames[At(Here, k)] = OldNames[request.at] => Node(Here, k).prefix = "",
                      NEW l \in typeRefs
               PROVE  /\ Meaning(l.module, l.node, new) = Meaning(l.module, l.node, OldNames)
                      /\ l \in found => Meaning(l.module, l.node, OldNames) = {At(Here, binder)}
  BY Zenon DEF TypeNamesKeepMeaning, OldNames, BinderAt
<1>2. /\ request.at \in Positions /\ Here \in Modules /\ There \in Nodes(Here) /\ request.at = At(Here, There)
      /\ found = {Adjusted(x) : x \in ReferencesForRenaming(Here, There)}
  BY <1>1, PositionIs DEF RenameAnswered, Here, There
<1>3. IsWorkspace(program)
  BY ReferencesAssumption
<1> DEFINE m == Here
           from == Node(Here, There).name
<1>4. \A d \in Modules : \A k \in Nodes(d) : At(d, k) \in Positions /\ OldNames[At(d, k)] = Node(d, k).name
  BY NodePositions DEF OldNames
<1>5. OldNames[request.at] = from
  BY <1>2, <1>4
<1>6. m \in Modules /\ Generics(m, binder) \subseteq Nodes(m) /\ Below(m, binder) \subseteq Nodes(m)
      /\ \A k : Generics(m, k) \subseteq Nodes(m)
  BY <1>2 DEF Generics, Below
<1>7. /\ binder \in Nodes(m) /\ Kind(m, binder) \in Binders
      /\ \E g \in Generics(m, binder) : Node(m, g).name = from
  BY <1>1, <1>2, <1>3, BinderDeclares
<1> HIDE DEF binder
<1>8. CanRename(m, binder, from, to)
  <2>1. \A d \in Modules : \A k \in Nodes(d) : Node(d, k).name # to
    BY <1>1, <1>4
  <2>2. ASSUME NEW k \in Below(m, binder) \ {binder}, Kind(m, k) \in {"alias", "function"}, NEW g \in Generics(m, k)
        PROVE  Node(m, g).name # from
    <3>1. k \in again /\ g \in Nodes(m)
      BY <1>6, <2>2
    <3>2. OldNames[At(m, g)] # OldNames[request.at]
      BY <1>1, <3>1
    <3> QED BY <1>4, <1>5, <1>6, <3>1, <3>2
  <2>3. ASSUME NEW k \in Below(m, binder), Kind(m, k) = "typeRef", Node(m, k).name = from
        PROVE  Node(m, k).prefix = ""
    <3>1. OldNames[At(m, k)] = OldNames[request.at]
      BY <1>4, <1>5, <1>6, <2>3
    <3> QED BY <1>1, <2>3, <3>1
  <2> QED BY <1>6, <1>7, <2>1, <2>2, <2>3 DEF CanRename
<1>9. AreUsages(found, m, binder, from)
  <2>1. Kind(m, There) = "typeRef" => Node(m, There).prefix = ""
    BY <1>1, <1>2
  <2> QED BY <1>1, <1>2, <1>3, <2>1, RenamesUsages DEF binder
<1>10. new = NewNamesOf(found, to)
  BY Zenon DEF NewNamesOf
<1> DEFINE d == l.module
           i == l.node
<1>11. l \in Positions /\ d \in Modules /\ i \in Nodes(d) /\ l = At(d, i) /\ Kind(d, i) = "typeRef"
  BY PositionIs
<1>12. l \in found <=> d = m /\ i \in Usages(m, binder, from)
  <2>1. ASSUME l \in found PROVE d = m /\ i \in Usages(m, binder, from)
    <3>1. PICK k \in Usages(m, binder, from) : l = At(m, k)
      BY <1>9, <2>1 DEF AreUsages
    <3>2. At(m, k).module = m /\ At(m, k).node = k
      BY DEF At
    <3> QED BY <3>1, <3>2
  <2>2. ASSUME d = m, i \in Usages(m, binder, from) PROVE l \in found
    BY <1>9, <1>11, <2>2 DEF AreUsages
  <2> QED BY <2>1, <2>2
<1> HIDE DEF new, found, m, from, to, d, i
<1>13. CASE d = m /\ i \in Usages(m, binder, from)
  <2>1. Kind(m, i) = "typeRef"
    BY <1>11, <1>13
  <2>2. Meaning(m, i, OldNames) = {At(m, binder)} /\ Meaning(m, i, NewNamesOf(found, to)) = {At(m, binder)}
    BY <1>3, <1>8, <1>9, <1>13, <2>1, MeaningOfRenamed
  <2> QED BY <1>10, <1>13, <2>2 DEF m, d, i
<1>14. CASE ~(d = m /\ i \in Usages(m, binder, from))
  <2>1. Meaning(d, i, NewNamesOf(found, to)) = Meaning(d, i, OldNames)
    BY <1>3, <1>8, <1>9, <1>11, <1>14, MeaningOfOthers
  <2> QED BY <1>10, <1>12, <1>14, <2>1 DEF d, i
<1> QED BY <1>13, <1>14

\* The edits of a rename.
Edits(m, i) == {Adjusted(l) : l \in ReferencesForRenaming(m, i)}

\* While the workspace stays, so does every search in it.
LEMMA SameTables ==
    ASSUME program' = program, NEW s, NEW t, NEW name
    PROVE  /\ IsSameTable(s, t)' = IsSameTable(s, t)
           /\ IsSameFunction(s, t)' = IsSameFunction(s, t)
           /\ LookupProp(t, name)' = LookupProp(t, name)
           /\ Type(t)' = Type(t)
<1>1. Type(t)' = Type(t)
  BY DEF Type
<1>2. IsSameFunction(s, t)' = IsSameFunction(s, t)
  BY DEF IsSameFunction, Type
<1>3. LookupProp(t, name)' = LookupProp(t, name)
  BY DEF LookupProp, Behind, Prop, Type
<1>4. IsSameTable(s, t)' = IsSameTable(s, t)
  BY DEF IsSameTable, IsSameTableDirect, TableIsRelatedViaMetatable, BaseTable, Behind, Prop, Type
<1> QED BY <1>1, <1>2, <1>3, <1>4

LEMMA SameNodes ==
    ASSUME program' = program, NEW m, NEW i, NEW name
    PROVE  /\ Modules' = Modules /\ Nodes(m)' = Nodes(m) /\ Node(m, i)' = Node(m, i) /\ Kind(m, i)' = Kind(m, i)
           /\ Around(m, i)' = Around(m, i) /\ Below(m, i)' = Below(m, i) /\ Generics(m, i)' = Generics(m, i)
           /\ Owner(m, i)' = Owner(m, i)
           /\ FindReverseDependencies(m)' = FindReverseDependencies(m)
           /\ ExprOrLocalAt(m, i)' = ExprOrLocalAt(m, i) /\ NodeOrTypeAt(m, i)' = NodeOrTypeAt(m, i)
           /\ SymbolAt(m, i)' = SymbolAt(m, i)
<1>1. /\ Modules' = Modules /\ Nodes(m)' = Nodes(m) /\ Node(m, i)' = Node(m, i) /\ Kind(m, i)' = Kind(m, i)
      /\ Around(m, i)' = Around(m, i) /\ Below(m, i)' = Below(m, i) /\ Generics(m, i)' = Generics(m, i)
  BY DEF Modules, Nodes, Node, Kind, Around, Below, Generics
<1>2. Owner(m, i)' = Owner(m, i)
  BY DEF Owner, Node, Kind
<1>3. FindReverseDependencies(m)' = FindReverseDependencies(m)
  BY DEF FindReverseDependencies, Modules
<1>4. ExprOrLocalAt(m, i)' = ExprOrLocalAt(m, i) /\ NodeOrTypeAt(m, i)' = NodeOrTypeAt(m, i)
  BY DEF ExprOrLocalAt, NodeOrTypeAt, Around, Kind, Node
<1>5. SymbolAt(m, i)' = SymbolAt(m, i)
  BY DEF SymbolAt, ExprOrLocalAt, Around, Kind, Node
<1> QED BY <1>1, <1>2, <1>3, <1>4, <1>5

\* Defining and FindAllPropertyReferences, of what the lookup finds and of the table.
BaseOf(found, t) == IF IsSingle(found) THEN (CHOOSE f \in found : TRUE).base ELSE t

PropertyReferencesOf(t, name) ==
    LET named(m) == {j \in Nodes(m) : Node(m, j).name = name /\ Owner(m, j) # 0 /\ IsSameTable(t, Owner(m, j))}
        declared == {f.prop.loc : f \in LookupProp(t, name)} \ {<< >>}
    IN  IF Type(t).kind # "table" \/ Type(t).def = << >> THEN {}
        ELSE {At(l[1], l[2]) : l \in declared}
             \union UNION {{At(m, j) : j \in named(m)} : m \in FindReverseDependencies(Type(t).def[1])}

LEMMA SameSearches ==
    ASSUME program' = program, NEW m, NEW i, NEW name, NEW prefix
    PROVE  /\ FindSymbolReferences(m, name)' = FindSymbolReferences(m, name)
           /\ FindTypeReferences(m, name, prefix)' = FindTypeReferences(m, name, prefix)
           /\ FindTypeParameterUsages(m, i, name)' = FindTypeParameterUsages(m, i, name)
           /\ FindAllFunctionReferences(i)' = FindAllFunctionReferences(i)
           /\ FindAllPropertyReferences(i, name)' = FindAllPropertyReferences(i, name)
           /\ FindAllTableReferences(i)' = FindAllTableReferences(i)
           /\ FindAllTypeReferences(m, name)' = FindAllTypeReferences(m, name)
           /\ BinderOf(m, i)' = BinderOf(m, i)
<1>1. FindSymbolReferences(m, name)' = FindSymbolReferences(m, name)
  BY DEF FindSymbolReferences, Nodes, Node, Kind
<1>2. \A k, n, q : FindTypeReferences(k, n, q)' = FindTypeReferences(k, n, q)
  BY DEF FindTypeReferences, Nodes, Node, Kind
<1>3. FindTypeParameterUsages(m, i, name)' = FindTypeParameterUsages(m, i, name)
  BY DEF FindTypeParameterUsages, Hidden, Generics, Below, Around, Nodes, Node, Kind
<1>4. FindAllFunctionReferences(i)' = FindAllFunctionReferences(i)
  BY DEF FindAllFunctionReferences, IsSameFunction, Type, FindReverseDependencies, Modules, Nodes, Node, Kind
<1>5. FindAllTableReferences(i)' = FindAllTableReferences(i)
  BY DEF FindAllTableReferences, FindReverseDependencies, Modules, Nodes, Node, Kind, IsSameTable, IsSameTableDirect,
         TableIsRelatedViaMetatable, BaseTable, Behind, Prop, Type
<1>6. FindAllTypeReferences(m, name)' = FindAllTypeReferences(m, name)
  BY DEF FindAllTypeReferences, FindTypeReferences, FindReverseDependencies, Modules, Nodes, Node, Kind
<1>7. BinderOf(m, i)' = BinderOf(m, i)
  BY SameNodes DEF BinderOf, Binding
<1>8. FindAllPropertyReferences(i, name)' = FindAllPropertyReferences(i, name)
  <2>1. Defining(i, name)' = Defining(i, name)
    <3>1. \A t, n : Defining(t, n) = BaseOf(LookupProp(t, n), t)
      BY Zenon DEF Defining, BaseOf
    <3>2. Defining(i, name)' = BaseOf(LookupProp(i, name), i)'
      BY Zenon DEF Defining, BaseOf
    <3>3. LookupProp(i, name)' = LookupProp(i, name)
      BY SameTables
    <3>4. BaseOf(LookupProp(i, name), i)' = BaseOf(LookupProp(i, name), i)
      BY <3>3
    <3> QED BY <3>1, <3>2, <3>4
  <2>2. \A t : PropertyReferencesOf(t, name)' = PropertyReferencesOf(t, name)
    BY DEF PropertyReferencesOf, LookupProp, Owner, FindReverseDependencies, Modules, Nodes, Node, Kind, IsSameTable,
           IsSameTableDirect, TableIsRelatedViaMetatable, BaseTable, Behind, Prop, Type
  <2>3. FindAllPropertyReferences(i, name) = PropertyReferencesOf(Defining(i, name), name)
    BY Zenon DEF FindAllPropertyReferences, PropertyReferencesOf
  <2>4. FindAllPropertyReferences(i, name)' = PropertyReferencesOf(Defining(i, name), name)'
    BY Zenon DEF FindAllPropertyReferences, PropertyReferencesOf
  <2>5. PropertyReferencesOf(Defining(i, name), name)' = PropertyReferencesOf(Defining(i, name), name)
    BY <2>1, <2>2
  <2> QED BY <2>3, <2>4, <2>5
<1> QED BY <1>1, <1>2, <1>3, <1>4, <1>5, <1>6, <1>7, <1>8

LEMMA SameReferences ==
    ASSUME program' = program, NEW m, NEW i
    PROVE  Edits(m, i)' = Edits(m, i)
<1>1. \A k, j : GenericAt(k, i, j)' = GenericAt(k, i, j)
  BY SameNodes DEF GenericAt
<1>2. TypeReferences(m, i)' = TypeReferences(m, i)
  BY <1>1, SameNodes, SameSearches, ZenonT(60) DEF TypeReferences
<1>3. \A sym : SymbolReferences(m, sym)' = SymbolReferences(m, sym)
  BY SameTables, SameSearches DEF SymbolReferences
<1>4. ReferencesAt(m, i)' = ReferencesAt(m, i)
  BY <1>2, <1>3, SameNodes, SameSearches DEF ReferencesAt
<1>5. ReferencesForRenaming(m, i)' = ReferencesForRenaming(m, i)
  BY <1>4, SameNodes, SameSearches DEF ReferencesForRenaming
<1>6. \A l : Adjusted(l)' = Adjusted(l)
  BY SameNodes, Zenon DEF Adjusted
<1> QED BY <1>5, <1>6 DEF Edits

LEMMA RenameStays ==
    ASSUME program \in Programs, RenameAnswered, [Next]_vars
    PROVE  RenameAnswered'
<1>1. program' = program
  BY WorkspaceStays
<1>2. Positions' = Positions
  BY <1>1 DEF Positions, Modules, Nodes
<1>3. CASE FindReferences \/ GotoRequest \/ PrepareCallHierarchy \/ CallHierarchy \/ RequireGraph
  <2>1. request'.kind # "rename"
    BY <1>3, RequestKinds
  <2> QED BY <2>1, Zenon DEF RenameAnswered
<1>4. CASE RenameSymbol
  <2>1. PICK at \in Positions, name \in NewNames :
           \E error : Answer([kind |-> "rename", at |-> at, name |-> name], error, Edits(at.module, at.node))
    BY <1>4, Zenon DEF RenameSymbol, Edits
  <2>2. PICK error : Answer([kind |-> "rename", at |-> at, name |-> name], error, Edits(at.module, at.node))
    BY <2>1
  <2> DEFINE m == at.module
             i == at.node
             found == Edits(m, i)
  <2>3. request'.at = at /\ Here' = m /\ There' = i /\ (answer'.error = "" => answer'.found = found)
    <3>1. Answer([kind |-> "rename", at |-> at, name |-> name], error, found)
      BY <2>2
    <3> HIDE DEF found
    <3> QED BY <3>1 DEF Answer, Here, There
  <2>4. Edits(m, i)' = found
    BY <1>1, SameReferences
  <2> HIDE DEF found
  <2>5. answer'.error = "" => answer'.found = Edits(Here, There)'
    BY <2>3, <2>4
  <2>6. request'.at \in Positions'
    BY <1>2, <2>3
  <2> QED BY <2>5, <2>6, Zenon DEF RenameAnswered, Edits
<1>5. CASE UNCHANGED vars
  <2>1. request' = request /\ answer' = answer
    BY <1>5 DEF vars
  <2>2. Here' = Here /\ There' = There
    BY <2>1 DEF Here, There
  <2>3. Edits(Here, There)' = Edits(Here, There)
    <3>1. PICK m, i : m = Here /\ i = There
      OBVIOUS
    <3>2. Edits(m, i)' = Edits(m, i)
      BY <1>1, SameReferences
    <3>3. Here' = m /\ There' = i
      BY <2>2, <3>1
    <3> QED BY <3>1, <3>2, <3>3
  <2>4. RenameAnswered <=> (request.kind = "rename" /\ answer.error = "" =>
                              request.at \in Positions /\ answer.found = Edits(Here, There))
    BY Zenon DEF RenameAnswered, Edits
  <2>5. request'.kind = "rename" /\ answer'.error = "" => request'.at \in Positions' /\ answer'.found = Edits(Here, There)'
    BY <1>2, <2>1, <2>3, <2>4
  <2> QED BY <2>5, Zenon DEF RenameAnswered, Edits
<1> QED BY <1>3, <1>4, <1>5 DEF Next

\* Renaming a type parameter leaves every type name with the meaning it had.
\* (FindTypeParameterUsages, WorkspaceFolder::rename)
THEOREM RenameKeepsTypeNames == Spec => []TypeNamesKeepMeaning
<1> DEFINE Inv == program \in Programs /\ RenameAnswered
<1>1. Init => Inv
  <2>1. request.kind = "none" => RenameAnswered
    BY Zenon DEF RenameAnswered
  <2> QED BY <2>1, WorkspaceStays, RequestKinds, Zenon
<1>2. Inv /\ [Next]_vars => Inv'
  <2> SUFFICES ASSUME Inv, [Next]_vars PROVE Inv'
    OBVIOUS
  <2>1. program' = program
    BY WorkspaceStays
  <2> QED BY <2>1, RenameStays
<1>3. Inv => TypeNamesKeepMeaning
  BY AnsweredRenames
<1> QED BY <1>1, <1>2, <1>3, PTL DEF Spec
=============================================================================
