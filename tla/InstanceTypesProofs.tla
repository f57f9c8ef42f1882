------------------------ MODULE InstanceTypesProofs ------------------------
(***************************************************************************)
(* What holds of the sourcemap however it is loaded, and of the types of   *)
(* its instances and the modules checked with them, for any trees, classes *)
(* and modules.                                                            *)
(*                                                                         *)
(* First comes what holds of the tree and its maps whenever a sourcemap    *)
(* was loaded: different instances have different paths, each module is    *)
(* found by its own, and the path of an import leads where it should.  A   *)
(* node comes after its parent, so that what is computed from the parent   *)
(* up is a recursion on the numbers of the nodes, and what holds of every  *)
(* node is proved by induction on them.                                    *)
(***************************************************************************)
EXTENDS InstanceTypes, Lemmas, SequenceTheorems, FiniteSetTheorems

\* What the sourcemap file can hold: a parent comes before its children, and a
\* script has a file, which is its own.
IsTree(t) ==
    /\ Len(t) \in Nat /\ DOMAIN t = 1..Len(t)
    /\ \A n \in 2..Len(t) :
           /\ t[n].parent \in 1..(n - 1)
           /\ t[n].name \in Name
           /\ t[n].className \in Class
    /\ 1 \in DOMAIN t =>
           t[1].name = <<"Game">> /\ t[1].className \in RootClass /\ t[1].parent = NoNode
    /\ \A n \in 1..Len(t) : t[n].file = IF IsScript(t, n) THEN n ELSE NoFile

\* What a virtual path is made of.
Parts(t) == {RootPath(t)} \cup {Segment(t, n) : n \in Nodes(t)}

LEMMA AncestorsRec ==
    ASSUME NEW t, IsTree(t)
    PROVE  /\ DOMAIN Ancestors(t) = Nodes(t)
           /\ Root \in Nodes(t) => Ancestors(t)[Root] = {}
           /\ \A n \in 2..Len(t) :
                  Ancestors(t)[n] = {t[n].parent} \cup Ancestors(t)[t[n].parent]
  <1> DEFINE parents == [n \in 1..Len(t) |-> IF n = 1 THEN 1 ELSE t[n].parent]
             step == [p \in (1..Len(t)) \X (SUBSET Nat) |-> {parents[p[1]]} \cup p[2]]
             Above(f) == [n \in Nodes(t) |->
                             IF n = Root THEN {} ELSE {t[n].parent} \cup f[t[n].parent]]
  <1>1. /\ \A n \in 2..Len(t) : parents[n] = t[n].parent /\ parents[n] \in 1..(n - 1)
        /\ \A n \in 1..Len(t) : parents[n] \in Nat
    BY DEF IsTree
  <1>2. Len(t) \in Nat /\ {} \in SUBSET Nat /\ \A n \in 2..Len(t) : parents[n] \in 1..(n - 1)
    BY <1>1 DEF IsTree
  <1> HIDE DEF parents
  <1>3. /\ step \in [(1..Len(t)) \X (SUBSET Nat) -> SUBSET Nat]
        /\ \A n \in 1..Len(t), S \in SUBSET Nat : step[<<n, S>>] = {parents[n]} \cup S
    BY <1>1, <1>2
  <1> HIDE DEF step
  <1>4. PICK f \in [1..Len(t) -> SUBSET Nat] : FollowsParent(f, Len(t), {}, parents, step)
    BY <1>2, <1>3, ParentRecursion
  <1>5. f = Above(f)
    <2>1. ASSUME NEW n \in 2..Len(t)
          PROVE  f[n] = {t[n].parent} \cup f[t[n].parent]
      <3>1. /\ parents[n] = t[n].parent /\ parents[n] \in 1..Len(t) /\ n \in 1..Len(t)
        BY <1>1, <1>2
      <3>2. f[n] = step[<<n, f[parents[n]]>>]
        BY <1>4 DEF FollowsParent
      <3>3. f[parents[n]] \in SUBSET Nat
        BY <3>1
      <3>4. step[<<n, f[parents[n]]>>] = {parents[n]} \cup f[parents[n]]
        BY <1>3, <3>1, <3>3
      <3>. QED
        BY <3>1, <3>2, <3>4
    <2>. QED
      BY <2>1, <1>2, <1>4 DEF FollowsParent, Nodes, Root, IsTree
  <1>6. Ancestors(t) = CHOOSE g : g = Above(g)
    BY DEF Ancestors
  <1>7. Ancestors(t) = Above(Ancestors(t))
    <2>. HIDE DEF Above
    <2>. QED
      BY <1>5, <1>6
  <1>. QED
    BY <1>7 DEF Root, Nodes, IsTree

LEMMA PathRec ==
    ASSUME NEW t, IsTree(t)
    PROVE  /\ VirtualPathOf(t) \in [Nodes(t) -> Seq(Parts(t))]
           /\ Root \in Nodes(t) => VirtualPathOf(t)[Root] = <<RootPath(t)>>
           /\ \A n \in 2..Len(t) :
                  VirtualPathOf(t)[n] = Append(VirtualPathOf(t)[t[n].parent], Segment(t, n))
  <1> DEFINE parents == [n \in 1..Len(t) |-> IF n = 1 THEN 1 ELSE t[n].parent]
             parts == Parts(t)
             segments == [n \in 1..Len(t) |-> Segment(t, n)]
             step == [p \in (1..Len(t)) \X Seq(parts) |-> Append(p[2], segments[p[1]])]
             first == <<RootPath(t)>>
             Longer(p, n) == Append(p, Segment(t, n))
             Path(f) == [n \in Nodes(t) |->
                            IF n = Root THEN first ELSE Longer(f[t[n].parent], n)]
  <1>1. /\ \A n \in 2..Len(t) : parents[n] = t[n].parent /\ parents[n] \in 1..(n - 1)
        /\ \A n \in 1..Len(t) : segments[n] \in parts /\ segments[n] = Segment(t, n)
        /\ RootPath(t) \in parts
    BY DEF IsTree, Parts, Nodes
  <1>2. Len(t) \in Nat /\ \A n \in 2..Len(t) : parents[n] \in 1..(n - 1)
    BY <1>1 DEF IsTree
  <1> HIDE DEF parents, parts, segments
  <1>3. /\ step \in [(1..Len(t)) \X Seq(parts) -> Seq(parts)]
        /\ \A n \in 1..Len(t), p \in Seq(parts) : step[<<n, p>>] = Append(p, segments[n])
        /\ first \in Seq(parts)
    BY <1>1, <1>2
  <1> HIDE DEF step, first
  <1>4. PICK f \in [1..Len(t) -> Seq(parts)] :
               FollowsParent(f, Len(t), first, parents, step)
    BY <1>2, <1>3, ParentRecursion
  <1>5. f = Path(f)
    <2>1. ASSUME NEW n \in 2..Len(t)
          PROVE  f[n] = Longer(f[t[n].parent], n)
      <3>1. /\ parents[n] = t[n].parent /\ parents[n] \in 1..Len(t) /\ n \in 1..Len(t)
        BY <1>1, <1>2
      <3>2. f[n] = step[<<n, f[parents[n]]>>]
        BY <1>4 DEF FollowsParent
      <3>3. f[parents[n]] \in Seq(parts)
        BY <3>1
      <3>. QED
        BY <3>1, <3>2, <3>3, <1>1, <1>3
    <2>. HIDE DEF Longer
    <2>. QED
      BY <2>1, <1>2, <1>4 DEF FollowsParent, Nodes, Root, IsTree
  <1>6. VirtualPathOf(t) = CHOOSE g : g = Path(g)
    BY DEF VirtualPathOf, first
  <1>7. VirtualPathOf(t) = Path(VirtualPathOf(t))
    <2>. HIDE DEF Path
    <2>. QED
      BY <1>5, <1>6
  <1> DEFINE path == VirtualPathOf(t)
  <1>8. /\ path = [n \in Nodes(t) |-> path[n]]
        /\ Root \in Nodes(t) => path[Root] = first
        /\ \A n \in 2..Len(t) : path[n] = Longer(path[t[n].parent], n)
    <2>1. path = Path(path)
      BY <1>7
    <2>. HIDE DEF path, Longer
    <2>. QED
      BY <2>1 DEF Root, Nodes, IsTree
  <1> HIDE DEF path
  <1>9. \A n \in Nodes(t) : path[n] \in Seq(parts)
    <2> DEFINE P == {n \in Nat : path[n] \in Seq(parts)}
    <2>1. ASSUME NEW n \in 1..Len(t), \A m \in 1..Len(t) : m < n => m \in P
          PROVE  n \in P
      <3>1. CASE n = 1
        BY <3>1, <1>3, <1>8 DEF Nodes, Root, IsTree
      <3>2. CASE n # 1
        <4>1. /\ n \in 2..Len(t) /\ t[n].parent \in 1..Len(t) /\ t[n].parent < n
              /\ Segment(t, n) \in parts
          BY <3>2, <1>1, <1>2
        <4>2. path[t[n].parent] \in Seq(parts)
          BY <4>1, <2>1
        <4>3. path[n] = Append(path[t[n].parent], Segment(t, n))
          BY <4>1, <1>8
        <4>4. path[n] \in Seq(parts)
          BY <4>1, <4>2, <4>3
        <4>. QED
          BY <4>4, <1>2
      <3>. QED
        BY <3>1, <3>2
    <2>2. 1..Len(t) \in SUBSET Nat
      BY <1>2
    <2>. HIDE DEF P
    <2>3. 1..Len(t) \subseteq P
      BY <2>1, <2>2, StrongInduction
    <2>. QED
      BY <2>3 DEF P, Nodes, IsTree
  <1>. QED
    BY <1>8, <1>9 DEF path, parts, first

LEMMA ContextRec ==
    ASSUME NEW t, IsTree(t)
    PROVE  /\ ContainerContext(t) \in [Nodes(t) -> {"Server", "Client", "Shared"}]
           /\ Root \in Nodes(t) => ContainerContext(t)[Root] = NameContext(t[Root].name, "Shared")
           /\ \A n \in 2..Len(t) :
                  ContainerContext(t)[n]
                      = NameContext(t[n].name, ContainerContext(t)[t[n].parent])
  <1> DEFINE parents == [n \in 1..Len(t) |-> IF n = 1 THEN 1 ELSE t[n].parent]
             V == {"Server", "Client", "Shared"}
             step == [p \in (1..Len(t)) \X V |-> NameContext(t[p[1]].name, p[2])]
             first == NameContext(t[1].name, "Shared")
             Closest(f) == [n \in Nodes(t) |->
                            NameContext(t[n].name, IF n = Root THEN "Shared" ELSE f[t[n].parent])]
  <1>1. /\ \A n \in 2..Len(t) : parents[n] = t[n].parent /\ parents[n] \in 1..(n - 1)
        /\ \A name : NameContext(name, "Shared") \in V
        /\ \A name, c : c \in V => NameContext(name, c) \in V
    BY DEF IsTree, NameContext
  <1>2. Len(t) \in Nat /\ \A n \in 2..Len(t) : parents[n] \in 1..(n - 1)
    BY <1>1 DEF IsTree
  <1> HIDE DEF parents
  <1>3. /\ step \in [(1..Len(t)) \X V -> V]
        /\ \A n \in 1..Len(t), c \in V : step[<<n, c>>] = NameContext(t[n].name, c)
        /\ first \in V
    <2>. HIDE DEF V
    <2>. QED
      BY <1>1, <1>2
  <1> HIDE DEF step
  <1>4. PICK f \in [1..Len(t) -> V] : FollowsParent(f, Len(t), first, parents, step)
    <2>. HIDE DEF first, V
    <2>. QED
      BY <1>2, <1>3, ParentRecursion
  <1>5. f = Closest(f)
    <2>1. ASSUME NEW n \in 2..Len(t)
          PROVE  f[n] = NameContext(t[n].name, f[t[n].parent])
      <3>1. /\ parents[n] = t[n].parent /\ parents[n] \in 1..Len(t) /\ n \in 1..Len(t)
        BY <1>1, <1>2
      <3>2. f[n] = step[<<n, f[parents[n]]>>]
        BY <1>4 DEF FollowsParent
      <3>3. f[parents[n]] \in V
        BY <3>1
      <3>. HIDE DEF V
      <3>4. step[<<n, f[parents[n]]>>] = NameContext(t[n].name, f[parents[n]])
        BY <1>3, <3>1, <3>3
      <3>. QED
        BY <3>1, <3>2, <3>4
    <2>2. ASSUME NEW n \in 1..Len(t)
          PROVE  f[n] = Closest(f)[n]
      BY <2>1, <1>2, <1>4 DEF FollowsParent, Nodes, Root, IsTree
    <2>3. f = [n \in 1..Len(t) |-> f[n]] /\ Nodes(t) = 1..Len(t)
      BY <1>4 DEF Nodes, IsTree
    <2>. QED
      BY <2>2, <2>3
  <1>6. ContainerContext(t) = CHOOSE g : g = Closest(g)
    BY DEF ContainerContext
  <1>7. ContainerContext(t) = Closest(ContainerContext(t))
    <2>. HIDE DEF Closest
    <2>. QED
      BY <1>5, <1>6
  <1> DEFINE context0 == ContainerContext(t)
  <1>8. /\ context0 = [n \in Nodes(t) |-> context0[n]]
        /\ Root \in Nodes(t) => context0[Root] = first
        /\ \A n \in 2..Len(t) : context0[n] = NameContext(t[n].name, context0[t[n].parent])
    <2>1. context0 = Closest(context0)
      BY <1>7
    <2>. HIDE DEF context0
    <2>2. /\ Nodes(t) = 1..Len(t) /\ Len(t) \in Nat
      BY DEF Nodes, IsTree
    <2>3. ASSUME NEW n \in 2..Len(t)
          PROVE  context0[n] = NameContext(t[n].name, context0[t[n].parent])
      <3>1. n \in Nodes(t) /\ n # Root
        BY <2>2 DEF Root
      <3>2. context0[n] = NameContext(t[n].name, IF n = Root THEN "Shared" ELSE context0[t[n].parent])
        BY <2>1, <3>1
      <3>. QED
        BY <3>1, <3>2
    <2>4. ASSUME Root \in Nodes(t)
          PROVE  context0[Root] = NameContext(t[Root].name, "Shared")
      BY <2>1, <2>4
    <2>. QED
      BY <2>1, <2>3, <2>4 DEF Root
  <1> HIDE DEF context0
  <1>9. \A n \in Nodes(t) : context0[n] \in V
    <2> DEFINE P == {n \in Nat : context0[n] \in V}
    <2>1. ASSUME NEW n \in 1..Len(t), \A m \in 1..Len(t) : m < n => m \in P
          PROVE  n \in P
      <3>1. CASE n = 1
        BY <3>1, <1>3, <1>8 DEF Nodes, Root, IsTree
      <3>2. CASE n # 1
        <4>1. /\ n \in 2..Len(t) /\ t[n].parent \in 1..Len(t) /\ t[n].parent < n
          BY <3>2, <1>1, <1>2
        <4>2. context0[t[n].parent] \in V
          BY <4>1, <2>1
        <4>3. context0[n] = NameContext(t[n].name, context0[t[n].parent])
          BY <4>1, <1>8
        <4>. QED
          BY <4>2, <4>3, <1>1, <1>2
      <3>. QED
        BY <3>1, <3>2
    <2>2. 1..Len(t) \in SUBSET Nat
      BY <1>2
    <2>. HIDE DEF P
    <2>3. 1..Len(t) \subseteq P
      BY <2>1, <2>2, StrongInduction
    <2>. QED
      BY <2>3 DEF P, Nodes, IsTree
  <1>. QED
    BY <1>8, <1>9 DEF context0, Root

-----------------------------------------------------------------------------
(* The nodes above a node                                                  *)

LEMMA TreeInduction ==
    ASSUME NEW t, IsTree(t), NEW P, 1 \in Nodes(t) => 1 \in P,
           \A n \in 2..Len(t) : t[n].parent \in P => n \in P
    PROVE  Nodes(t) \subseteq P
  <1>1. ASSUME NEW n \in 1..Len(t), \A m \in 1..Len(t) : m < n => m \in P
        PROVE  n \in P
    <2>1. CASE n = 1
      BY <1>1, <2>1 DEF Nodes, IsTree
    <2>2. CASE n # 1
      <3>1. n \in 2..Len(t) /\ t[n].parent \in 1..Len(t) /\ t[n].parent < n
        BY <2>2, <1>1 DEF IsTree
      <3>. QED
        BY <3>1, <1>1
    <2>. QED
      BY <2>1, <2>2
  <1>2. 1..Len(t) \in SUBSET Nat
    BY DEF IsTree
  <1>. QED
    BY <1>1, <1>2, StrongInduction DEF Nodes, IsTree

LEMMA AncestorsBelow ==
    ASSUME NEW t, IsTree(t), NEW n \in Nodes(t)
    PROVE  n \in 1..Len(t) /\ Ancestors(t)[n] \subseteq 1..(n - 1)
  <1> DEFINE P == {m \in Nodes(t) : Ancestors(t)[m] \subseteq 1..(m - 1)}
  <1>1. 1 \in Nodes(t) => 1 \in P
    BY AncestorsRec DEF Root
  <1>2. ASSUME NEW m \in 2..Len(t), t[m].parent \in P
        PROVE  m \in P
    <2>1. m \in Nodes(t) /\ t[m].parent \in 1..(m - 1)
      BY DEF IsTree, Nodes
    <2>2. Ancestors(t)[m] = {t[m].parent} \cup Ancestors(t)[t[m].parent]
      BY AncestorsRec
    <2>. QED
      BY <1>2, <2>1, <2>2
  <1>. HIDE DEF P
  <1>3. Nodes(t) \subseteq P
    BY <1>1, <1>2, TreeInduction
  <1>. QED
    BY <1>3 DEF P, IsTree, Nodes

-----------------------------------------------------------------------------
(* The maps lead from a key to a node that has it                          *)

LEMMA LastNodes ==
    ASSUME NEW keys, NEW n \in Nat, DOMAIN keys \subseteq 1..n
    PROVE  /\ DOMAIN LastNode(keys) = Range(keys)
           /\ \A m \in DOMAIN keys : keys[m] \in DOMAIN LastNode(keys)
           /\ \A k \in DOMAIN LastNode(keys) :
                  LastNode(keys)[k] \in DOMAIN keys /\ keys[LastNode(keys)[k]] = k
  <1>1. DOMAIN LastNode(keys) = Range(keys)
    BY DEF LastNode
  <1>2. ASSUME NEW k \in Range(keys)
        PROVE  LastNode(keys)[k] \in DOMAIN keys /\ keys[LastNode(keys)[k]] = k
    <2> DEFINE T == {m \in DOMAIN keys : keys[m] = k}
    <2>1. T \in SUBSET Nat /\ T # {} /\ \A y \in T : y <= n
      BY DEF Range
    <2>2. LastNode(keys)[k] = Max(T)
      BY DEF LastNode
    <2>3. Max(T) \in T
      <3>. HIDE DEF T
      <3>. QED
        BY <2>1, MaxOf
    <2>. QED
      BY <2>2, <2>3
  <1>. QED
    BY <1>1, <1>2 DEF Range

-----------------------------------------------------------------------------
(* Two instances have one virtual path only if a number makes one name of  *)
(* two                                                                     *)

\* NumbersAreFree, of a tree.
FreeNumbers(t) ==
    \A m, n \in Nodes(t) \ {Root} :
        t[m].parent = t[n].parent /\ Segment(t, m) # t[m].name => Segment(t, m) # t[n].name

LEMMA AppendEqual ==
    ASSUME NEW S, NEW p, NEW q, NEW x, NEW y, p \in Seq(S), q \in Seq(S), x \in S, y \in S,
           Append(p, x) = Append(q, y)
    PROVE  p = q /\ x = y
  BY AppendInjective

LEMMA NamesAreTuples ==
    ASSUME NEW name \in Name
    PROVE  name \in Seq({name[i] : i \in 1..Len(name)})
  BY SourcemapAssumption

LEMMA NumberedSegments ==
    ASSUME NEW a \in Name, NEW b \in Name, NEW k \in Nat, NEW l \in Nat
    PROVE  /\ Append(a, k) # a
           /\ Append(a, k) = Append(b, l) => a = b /\ k = l
  <1> DEFINE S == {a[i] : i \in 1..Len(a)} \cup {b[i] : i \in 1..Len(b)} \cup Nat
  <1>1. a \in Seq(S) /\ b \in Seq(S) /\ k \in S /\ l \in S
    <2>1. a \in Seq({a[i] : i \in 1..Len(a)}) /\ b \in Seq({b[i] : i \in 1..Len(b)})
      BY NamesAreTuples
    <2>. QED
      BY <2>1, SeqMonotonic
  <1> HIDE DEF S
  <1>2. Append(a, k) # a
    BY <1>1, AppendProperties
  <1>3. Append(a, k) = Append(b, l) => a = b /\ k = l
    BY <1>1, AppendInjective
  <1>. QED
    BY <1>2, <1>3
LEMMA SegmentsDiffer ==
    ASSUME NEW t, IsTree(t), FreeNumbers(t),
           NEW m \in 2..Len(t), NEW n \in 2..Len(t), m # n, t[m].parent = t[n].parent
    PROVE  Segment(t, m) # Segment(t, n)
  <1> DEFINE elder(k) == {c \in Children(t, t[k].parent) : c < k /\ t[c].name = t[k].name}
  <1>1. ASSUME NEW k \in 2..Len(t)
        PROVE  /\ t[k].name \in Name
               /\ k \in Children(t, t[k].parent)
               /\ \A c \in elder(k) : c \in Nat /\ c < k
               /\ IsFiniteSet(elder(k)) /\ Cardinality(elder(k)) \in Nat
               /\ k \in Nodes(t) \ {Root}
    <2>1. k \in Nodes(t) \ {Root} /\ Nodes(t) = 1..Len(t) /\ Len(t) \in Nat /\ t[k].name \in Name
      BY DEF IsTree, Nodes, Root
    <2>2. k \in Children(t, t[k].parent) /\ elder(k) \in SUBSET (1..Len(t))
      BY <2>1 DEF Children
    <2>3. IsFiniteSet(1..Len(t))
      BY <2>1, FS_Interval
    <2>4. IsFiniteSet(elder(k))
      <3>. HIDE DEF elder
      <3>. QED
        BY <2>2, <2>3, FS_Subset
    <2>5. Cardinality(elder(k)) \in Nat
      BY <2>4, FS_CardinalityType
    <2>6. \A c \in elder(k) : c \in Nat /\ c < k
      BY <2>1, <2>2
    <2>. HIDE DEF elder
    <2>. QED
      BY <2>1, <2>2, <2>4, <2>5, <2>6
  <1>2. ASSUME NEW k \in 2..Len(t)
        PROVE  Segment(t, k) = IF elder(k) = {} THEN t[k].name
                               ELSE Append(t[k].name, Cardinality(elder(k)))
    BY DEF Segment
  <1>3. ASSUME t[m].name = t[n].name
        PROVE  elder(m) # elder(n) /\ Cardinality(elder(m)) # Cardinality(elder(n))
    <2>1. ASSUME NEW a \in 2..Len(t), NEW b \in 2..Len(t), a < b,
                 t[a].parent = t[b].parent, t[a].name = t[b].name
          PROVE  elder(a) # elder(b) /\ Cardinality(elder(a)) # Cardinality(elder(b))
      <3>1. a \in elder(b) /\ a \notin elder(a)
        <4>1. a \in Children(t, t[a].parent)
          BY <1>1
        <4>2. a \in Children(t, t[b].parent)
          BY <2>1, <4>1
        <4>. QED
          BY <2>1, <4>2
      <3>2. \A c \in elder(a) : c \in elder(b)
        <4>1. ASSUME NEW c \in elder(a)
              PROVE  c < b
          <5>1. c \in Nat /\ c < a
            BY <1>1
          <5>. HIDE DEF elder
          <5>. QED
            BY <5>1, <2>1
        <4>2. ASSUME NEW c \in elder(a)
              PROVE  c \in Children(t, t[b].parent) /\ t[c].name = t[b].name
          BY <2>1
        <4>. QED
          BY <4>1, <4>2
      <3>3. IsFiniteSet(elder(b))
        BY <1>1
      <3>. HIDE DEF elder
      <3>. QED
        BY <3>1, <3>2, <3>3, FS_Subset
    <2>2. m < n \/ n < m
      OBVIOUS
    <2>. QED
      BY <1>3, <2>1, <2>2
  <1>4. /\ t[m].name \in Name /\ Cardinality(elder(m)) \in Nat
        /\ t[n].name \in Name /\ Cardinality(elder(n)) \in Nat
    BY <1>1
  <1>5. /\ Segment(t, m) # t[m].name => Segment(t, m) # t[n].name
        /\ Segment(t, n) # t[n].name => Segment(t, n) # t[m].name
    BY <1>1 DEF FreeNumbers
  <1>. HIDE DEF elder
  <1>6. CASE elder(m) = {} /\ elder(n) = {}
    BY <1>2, <1>3, <1>6
  <1>7. CASE elder(m) = {} /\ elder(n) # {}
    BY <1>2, <1>4, <1>5, <1>7, NumberedSegments
  <1>8. CASE elder(m) # {} /\ elder(n) = {}
    BY <1>2, <1>4, <1>5, <1>8, NumberedSegments
  <1>9. CASE elder(m) # {} /\ elder(n) # {}
    <2>1. /\ Segment(t, m) = Append(t[m].name, Cardinality(elder(m)))
          /\ Segment(t, n) = Append(t[n].name, Cardinality(elder(n)))
      BY <1>2, <1>9
    <2>2. Append(t[m].name, Cardinality(elder(m))) = Append(t[n].name, Cardinality(elder(n)))
              => t[m].name = t[n].name /\ Cardinality(elder(m)) = Cardinality(elder(n))
      <3> DEFINE a == t[m].name
                 b == t[n].name
                 k == Cardinality(elder(m))
                 l == Cardinality(elder(n))
      <3>1. a \in Name /\ b \in Name /\ k \in Nat /\ l \in Nat
        BY <1>4
      <3>. HIDE DEF a, b, k, l
      <3>2. Append(a, k) = Append(b, l) => a = b /\ k = l
        BY <3>1, NumberedSegments
      <3>. QED
        BY <3>2 DEF a, b, k, l
    <2>. QED
      BY <1>3, <2>1, <2>2
  <1>. QED
    BY <1>6, <1>7, <1>8, <1>9

LEMMA PathsDiffer ==
    ASSUME NEW t, IsTree(t), FreeNumbers(t), NEW m \in Nodes(t), NEW n \in Nodes(t),
           VirtualPathOf(t)[m] = VirtualPathOf(t)[n]
    PROVE  m = n
  <1> DEFINE path == VirtualPathOf(t)
             parts == Parts(t)
             P == {k \in Nat : \A l \in 1..Len(t) : path[l] = path[k] => l = k}
  <1>1. /\ Nodes(t) = 1..Len(t) /\ Len(t) \in Nat
        /\ \A k \in 2..Len(t) : t[k].parent \in 1..Len(t) /\ t[k].parent < k
        /\ \A k \in 2..Len(t) : Segment(t, k) \in parts
        /\ RootPath(t) \in parts
    BY DEF IsTree, Nodes, Parts
  <1>2. /\ \A k \in 1..Len(t) : path[k] \in Seq(parts)
        /\ 1 \in 1..Len(t) => path[1] = <<RootPath(t)>>
        /\ \A k \in 2..Len(t) : path[k] = Append(path[t[k].parent], Segment(t, k))
    BY <1>1, PathRec DEF Root
  <1> HIDE DEF path, parts
  <1>3. \A k \in 1..Len(t) : path[k] # <<>>
    <2>1. ASSUME NEW k \in 2..Len(t)
          PROVE  path[k] # <<>>
      BY <1>1, <1>2, <2>1, AppendProperties
    <2>2. <<RootPath(t)>> # <<>>
      OBVIOUS
    <2>3. ASSUME NEW k \in 1..Len(t)
          PROVE  path[k] # <<>>
      <3>1. CASE k = 1
        BY <1>2, <2>2, <3>1
      <3>2. CASE k # 1
        BY <1>1, <2>1, <3>2
      <3>. QED
        BY <3>1, <3>2
    <2>. QED
      BY <2>3
  <1>4. \A k \in 2..Len(t) : path[k] # path[1]
    <2>1. SUFFICES ASSUME NEW k \in 2..Len(t), path[k] = path[1] PROVE FALSE
      OBVIOUS
    <2>2. /\ path[k] = Append(path[t[k].parent], Segment(t, k))
          /\ path[t[k].parent] \in Seq(parts) /\ Segment(t, k) \in parts
          /\ path[t[k].parent] # <<>>
      BY <1>1, <1>2, <1>3
    <2>3. Len(path[k]) = Len(path[t[k].parent]) + 1 /\ Len(path[t[k].parent]) \in Nat \ {0}
      <3>1. /\ Len(path[k]) = Len(path[t[k].parent]) + 1
            /\ Len(path[t[k].parent]) \in Nat
        BY <2>2, AppendProperties, LenProperties
      <3>2. Len(path[t[k].parent]) # 0
        BY <2>2, EmptySeq
      <3>. QED
        BY <3>1, <3>2
    <2>4. Len(path[1]) = 1
      <3>1. path[1] = <<RootPath(t)>>
        BY <1>1, <1>2, <2>1
      <3>2. Len(<<RootPath(t)>>) = 1
        OBVIOUS
      <3>. QED
        BY <3>1, <3>2
    <2>5. Len(path[k]) = 1
      BY <2>1, <2>4, Zenon
    <2> DEFINE up == Len(path[t[k].parent])
    <2>6. up + 1 = 1 /\ up \in Nat \ {0}
      BY <2>3, <2>5
    <2>. HIDE DEF up
    <2>. QED
      BY <2>6
  <1>5. ASSUME NEW k \in 1..Len(t), \A j \in 1..Len(t) : j < k => j \in P
        PROVE  k \in P
    <2>1. SUFFICES ASSUME NEW l \in 1..Len(t), path[l] = path[k]
                   PROVE  l = k
      BY <1>1
    <2>2. CASE k = 1
      BY <1>1, <1>4, <2>1, <2>2
    <2>3. CASE k # 1
      <3>1. k \in 2..Len(t) /\ l \in 2..Len(t)
        <4>1. k \in 2..Len(t)
          BY <1>1, <2>3
        <4>2. l # 1
          BY <4>1, <1>4, <2>1
        <4>. QED
          BY <1>1, <4>1, <4>2
      <3>2. /\ path[t[k].parent] \in Seq(parts) /\ path[t[l].parent] \in Seq(parts)
            /\ Segment(t, k) \in parts /\ Segment(t, l) \in parts
            /\ Append(path[t[k].parent], Segment(t, k)) = Append(path[t[l].parent], Segment(t, l))
        BY <1>1, <1>2, <2>1, <3>1
      <3>3. path[t[k].parent] = path[t[l].parent] /\ Segment(t, k) = Segment(t, l)
        <4> DEFINE pk == path[t[k].parent]
                   pl == path[t[l].parent]
                   sk == Segment(t, k)
                   sl == Segment(t, l)
        <4>1. /\ pk \in Seq(parts) /\ pl \in Seq(parts) /\ sk \in parts /\ sl \in parts
              /\ Append(pk, sk) = Append(pl, sl)
          BY <3>2
        <4>. HIDE DEF pk, pl, sk, sl
        <4>2. pk = pl /\ sk = sl
          BY <4>1, AppendEqual
        <4>. QED
          BY <4>2 DEF pk, pl, sk, sl
      <3>4. t[k].parent \in P
        BY <1>1, <1>5, <3>1
      <3>5. t[k].parent = t[l].parent
        BY <1>1, <3>1, <3>3, <3>4
      <3>. QED
        BY <3>1, <3>3, <3>5, SegmentsDiffer
    <2>. QED
      BY <2>2, <2>3
  <1>6. 1..Len(t) \subseteq P
    <2>1. 1..Len(t) \in SUBSET Nat
      BY <1>1
    <2>. HIDE DEF P
    <2>. QED
      BY <1>5, <2>1, StrongInduction
  <1>. QED
    BY <1>1, <1>6 DEF path
-----------------------------------------------------------------------------
(* The maps are those of the tree, which is that of the file or none       *)

SourcemapInv ==
    /\ IsTree(file) /\ Len(file) >= 1
    /\ tree \in {<<>>, file}
    /\ virtualPath = VirtualPathOf(tree)
    /\ context = ContextOf(tree)
    /\ virtualPaths = LastNode(virtualPath)
    /\ realPaths = LastNode(Files(tree))

LEMMA NoTree == IsTree(<<>>)
  <1>1. Len(<<>>) = 0 /\ DOMAIN <<>> = 1..0
    OBVIOUS
  <1>. QED
    BY <1>1 DEF IsTree

LEMMA NoMaps ==
    /\ VirtualPathOf(<<>>) = Empty
    /\ ContextOf(<<>>) = Empty
    /\ LastNode(Empty) = Empty
    /\ LastNode(Files(<<>>)) = Empty
  <1>1. Nodes(<<>>) = {}
    BY DEF Nodes
  <1>2. VirtualPathOf(<<>>) = Empty
    BY <1>1, NoTree, PathRec DEF Empty
  <1>3. ContextOf(<<>>) = Empty
    BY <1>1 DEF ContextOf, Empty
  <1>4. Files(<<>>) = Empty
    BY <1>1 DEF Files, Empty
  <1>5. LastNode(Empty) = Empty
    <2>1. Range(Empty) = {}
      BY DEF Range, Empty
    <2>. QED
      BY <2>1 DEF LastNode, Empty
  <1>. QED
    BY <1>2, <1>3, <1>4, <1>5

LEMMA LoadedInv ==
    ASSUME NEW t, IsTree(t), Len(t) >= 1, file' = t, Load(t)
    PROVE  SourcemapInv'
  BY DEF Load, SourcemapInv

LEMMA SourcemapInit == Init => SourcemapInv
  <1> SUFFICES ASSUME Init PROVE SourcemapInv
    OBVIOUS
  <1>1. PICK class \in RootClass :
            file = <<[parent |-> NoNode, name |-> <<"Game">>, className |-> class, file |-> NoFile]>>
    BY DEF Init
  <1>2. class \notin ScriptClass
    BY SourcemapAssumption DEF ScriptClass, Folder
  <1>3. /\ Len(file) = 1 /\ DOMAIN file = 1..1
        /\ file[1].name = <<"Game">> /\ file[1].className = class
        /\ file[1].file = NoFile /\ file[1].parent = NoNode
    BY <1>1
  <1>4. IsTree(file)
    BY <1>2, <1>3 DEF IsTree, IsScript
  <1>. QED
    BY <1>3, <1>4, NoMaps DEF Init, SourcemapInv

LEMMA AddedInv ==
    ASSUME SourcemapInv, NEW parent, NEW name \in Name, NEW class \in Class,
           AddInstance(parent, name, class)
    PROVE  SourcemapInv'
  <1> DEFINE n == Len(file)
             node == [parent |-> parent, name |-> name, className |-> class,
                      file |-> IF class = Folder THEN NoFile ELSE Len(file) + 1]
  <1>1. file' = Append(file, node) /\ Load(file')
    BY DEF AddInstance
  <1>2. IsTree(file) /\ n \in Nat /\ n >= 1 /\ DOMAIN file = 1..n
    BY DEF SourcemapInv, IsTree
  <1>3. parent \in 1..n
    <2>1. n \in Nodes(file)
      BY <1>2 DEF Nodes
    <2>. QED
      BY <1>2, <2>1, AncestorsBelow DEF AddInstance
  <1>4. /\ file'[n + 1] = node /\ Len(file') = n + 1 /\ DOMAIN file' = 1..(n + 1)
        /\ \A k \in 1..n : file'[k] = file[k]
    BY <1>1, <1>2
  <1>5. node.parent = parent /\ node.name = name /\ node.className = class
        /\ node.file = IF class = Folder THEN NoFile ELSE n + 1
    OBVIOUS
  <1>6. class = Folder <=> class \notin ScriptClass
    BY SourcemapAssumption DEF ScriptClass, Folder
  <1> DEFINE t == file'
  <1> HIDE DEF n, node, t
  <1>7. IsTree(t)
    <2>0. /\ t[n + 1] = node /\ Len(t) = n + 1 /\ DOMAIN t = 1..(n + 1)
          /\ \A k \in 1..n : t[k] = file[k]
      BY <1>4 DEF t
    <2>1. ASSUME NEW k \in 2..(n + 1)
          PROVE  t[k].parent \in 1..(k - 1) /\ t[k].name \in Name /\ t[k].className \in Class
      <3>1. CASE k = n + 1
        BY <3>1, <2>0, <1>2, <1>3, <1>5
      <3>2. CASE k # n + 1
        BY <3>2, <2>0, <1>2 DEF IsTree, n
      <3>. QED
        BY <3>1, <3>2
    <2>2. ASSUME NEW k \in 1..(n + 1)
          PROVE  t[k].file = IF IsScript(t, k) THEN k ELSE NoFile
      <3>1. CASE k = n + 1
        BY <3>1, <2>0, <1>5, <1>6 DEF IsScript
      <3>2. CASE k # n + 1
        BY <3>2, <2>0, <1>2 DEF IsTree, IsScript, n
      <3>. QED
        BY <3>1, <3>2
    <2>3. t[1].name = <<"Game">> /\ t[1].className \in RootClass /\ t[1].parent = NoNode
      BY <2>0, <1>2 DEF IsTree
    <2>. QED
      BY <2>0, <2>1, <2>2, <2>3, <1>2 DEF IsTree
  <1>8. Len(t) >= 1
    BY <1>2, <1>4 DEF t
  <1>. QED
    BY <1>1, <1>7, <1>8, LoadedInv DEF t

LEMMA RemovedInv ==
    ASSUME SourcemapInv, RemoveInstance
    PROVE  SourcemapInv'
  <1> DEFINE n == Len(file)
             t == file'
  <1>1. t = SubSeq(file, 1, n - 1) /\ Load(t) /\ n > 1
    BY DEF RemoveInstance
  <1>2. IsTree(file) /\ n \in Nat /\ DOMAIN file = 1..n
    BY DEF SourcemapInv, IsTree
  <1>3. Len(t) = n - 1 /\ DOMAIN t = 1..(n - 1) /\ \A k \in 1..(n - 1) : t[k] = file[k]
    <2>1. Len(t) = n - 1 /\ \A k \in 1..(n - 1) : t[k] = file[k]
      BY <1>1, <1>2
    <2>2. t \in Seq({file[k] : k \in 1..n})
      BY <1>1, <1>2, SubSeqProperties
    <2>. QED
      BY <2>1, <2>2, LenProperties
  <1> HIDE DEF n, t
  <1>4. IsTree(t)
    <2>1. ASSUME NEW k \in 1..(n - 1)
          PROVE  t[k].file = IF IsScript(t, k) THEN k ELSE NoFile
      BY <1>2, <1>3 DEF IsTree, IsScript, n
    <2>2. \A k \in 2..(n - 1) :
              t[k].parent \in 1..(k - 1) /\ t[k].name \in Name /\ t[k].className \in Class
      BY <1>2, <1>3 DEF IsTree, n
    <2>3. t[1].name = <<"Game">> /\ t[1].className \in RootClass /\ t[1].parent = NoNode
      BY <1>1, <1>2, <1>3 DEF IsTree
    <2>. QED
      BY <1>1, <1>2, <1>3, <2>1, <2>2, <2>3 DEF IsTree
  <1>5. Len(t) >= 1
    BY <1>1, <1>2, <1>3
  <1>. QED
    BY <1>1, <1>4, <1>5, LoadedInv DEF t

\* ChangeStrict of InstanceTypes loads the file again.
LEMMA SourcemapStep ==
    ASSUME SourcemapInv, [Next]_vars \/ (Load(file) /\ UNCHANGED file)
    PROVE  SourcemapInv'
  <1>1. CASE RemoveInstance
    BY <1>1, RemovedInv
  <1>0. CASE \E parent \in Nodes(file), name \in Name, class \in Class :
                 AddInstance(parent, name, class)
    BY <1>0, AddedInv
  <1>2. CASE ReadMalformed
    BY <1>2, NoMaps DEF ReadMalformed, Clear, SourcemapInv
  <1>3. CASE UNCHANGED vars
    BY <1>3 DEF vars, SourcemapInv
  <1>4. CASE Load(file) /\ UNCHANGED file
    BY <1>4 DEF Load, SourcemapInv
  <1>. QED
    BY <1>0, <1>1, <1>2, <1>3, <1>4 DEF Next

-----------------------------------------------------------------------------
(* Files and names                                                         *)

\* What the invariant says of the tree, whether there is one or not.
LEMMA TreeFacts ==
    ASSUME SourcemapInv
    PROVE  /\ IsTree(tree) /\ Len(tree) \in Nat /\ Nodes(tree) = 1..Len(tree)
           /\ DOMAIN virtualPath = Nodes(tree)
           /\ DOMAIN virtualPaths = Range(virtualPath)
           /\ \A n \in Nodes(tree) : virtualPath[n] \in DOMAIN virtualPaths
           /\ \A p \in DOMAIN virtualPaths :
                  virtualPaths[p] \in Nodes(tree) /\ virtualPath[virtualPaths[p]] = p
           /\ \A n \in Nodes(tree) : tree[n].file # NoFile => tree[n].file \in DOMAIN realPaths
           /\ \A f \in DOMAIN realPaths :
                  realPaths[f] \in Nodes(tree) /\ tree[realPaths[f]].file = f /\ f # NoFile
  <1>1. IsTree(tree)
    BY NoTree DEF SourcemapInv
  <1>2. Len(tree) \in Nat /\ Nodes(tree) = 1..Len(tree)
    BY <1>1 DEF IsTree, Nodes
  <1>3. DOMAIN virtualPath = Nodes(tree)
    BY <1>1, PathRec DEF SourcemapInv
  <1>4. /\ DOMAIN virtualPaths = Range(virtualPath)
        /\ \A n \in Nodes(tree) : virtualPath[n] \in DOMAIN virtualPaths
        /\ \A p \in DOMAIN virtualPaths :
               virtualPaths[p] \in Nodes(tree) /\ virtualPath[virtualPaths[p]] = p
    BY <1>2, <1>3, LastNodes DEF SourcemapInv
  <1> DEFINE files == Files(tree)
  <1>5. /\ \A n \in Nodes(tree) : tree[n].file # NoFile => n \in DOMAIN files
        /\ \A n \in DOMAIN files :
               n \in Nodes(tree) /\ tree[n].file # NoFile /\ files[n] = tree[n].file
    BY DEF Files
  <1> HIDE DEF files
  <1>6. /\ \A n \in DOMAIN files : files[n] \in DOMAIN realPaths
        /\ \A f \in DOMAIN realPaths :
               realPaths[f] \in DOMAIN files /\ files[realPaths[f]] = f
    <2>1. realPaths = LastNode(files) /\ DOMAIN files \subseteq 1..Len(tree)
      BY <1>2, <1>5 DEF SourcemapInv, files
    <2>. QED
      BY <1>2, <2>1, LastNodes
  <1>. QED
    BY <1>1, <1>2, <1>3, <1>4, <1>5, <1>6

LEMMA MapsCurrent == SourcemapInv => MapsAreCurrent
  BY TreeFacts DEF MapsAreCurrent, Range

\* The node that a virtual path leads to is the one that has it.
LEMMA PathsLeadBack ==
    ASSUME SourcemapInv, NumbersAreFree, NEW n \in Nodes(tree)
    PROVE  virtualPath[n] \in DOMAIN virtualPaths /\ virtualPaths[virtualPath[n]] = n
  <1>1. FreeNumbers(tree)
    BY DEF NumbersAreFree, FreeNumbers
  <1>2. virtualPath = VirtualPathOf(tree)
    BY DEF SourcemapInv
  <1>. QED
    BY <1>1, <1>2, TreeFacts, PathsDiffer

LEMMA FilesNamed == SourcemapInv => FilesHaveNames
  <1> SUFFICES ASSUME SourcemapInv, NumbersAreFree, NEW f \in DOMAIN realPaths
               PROVE  ResolveToRealPath(ResolveToVirtualPath(f)) = f
    BY DEF FilesHaveNames
  <1>1. /\ realPaths[f] \in Nodes(tree) /\ tree[realPaths[f]].file = f
        /\ realPaths[f] # NoNode
    BY TreeFacts DEF NoNode
  <1>2. ResolveToVirtualPath(f) = virtualPath[realPaths[f]]
    BY <1>1 DEF ResolveToVirtualPath, Lookup
  <1>. QED
    BY <1>1, <1>2, PathsLeadBack DEF ResolveToRealPath, Lookup

-----------------------------------------------------------------------------
(* Imports stay on their side                                              *)

Container == ServerContainer \cup ClientContainer

\* The containers among n and the nodes above it.
ContainersOf(t, n) == {a \in {n} \cup Ancestors(t)[n] : t[a].name \in Container}

LEMMA ClosestContainer ==
    ASSUME NEW t, IsTree(t), NEW n \in Nodes(t), ContainersOf(t, n) # {}
    PROVE  /\ t[Max(ContainersOf(t, n))].name \in ServerContainer
                  => ContainerContext(t)[n] = "Server"
           /\ t[Max(ContainersOf(t, n))].name \in ClientContainer
                  => ContainerContext(t)[n] = "Client"
  <1> DEFINE Q(m) == ContainersOf(t, m) # {} =>
                 /\ t[Max(ContainersOf(t, m))].name \in ServerContainer
                        => ContainerContext(t)[m] = "Server"
                 /\ t[Max(ContainersOf(t, m))].name \in ClientContainer
                        => ContainerContext(t)[m] = "Client"
             P == {m \in Nodes(t) : Q(m)}
  <1>1. ASSUME NEW m \in Nodes(t), t[m].name \in Container
        PROVE  Max(ContainersOf(t, m)) = m
    <2>1. m \in Nat /\ ContainersOf(t, m) \in SUBSET Nat /\ m \in ContainersOf(t, m)
          /\ \A a \in ContainersOf(t, m) : a <= m
      <3>1. m \in 1..Len(t) /\ Ancestors(t)[m] \subseteq 1..(m - 1)
        BY AncestorsBelow
      <3>2. ContainersOf(t, m) \subseteq {m} \cup Ancestors(t)[m] /\ m \in ContainersOf(t, m)
        BY <1>1 DEF ContainersOf
      <3>. QED
        BY <3>1, <3>2
    <2>2. Max(ContainersOf(t, m)) \in ContainersOf(t, m)
          /\ \A a \in ContainersOf(t, m) : a <= Max(ContainersOf(t, m))
      BY <2>1, MaxOf
    <2>3. Max(ContainersOf(t, m)) \in Nat /\ m <= Max(ContainersOf(t, m))
          /\ Max(ContainersOf(t, m)) <= m
      BY <2>1, <2>2
    <2>. QED
      BY <2>1, <2>3
  <1>2. ASSUME NEW m \in Nodes(t), t[m].name \in Container,
               \E c : ContainerContext(t)[m] = NameContext(t[m].name, c)
        PROVE  Q(m)
    BY <1>1, <1>2, SourcemapAssumption DEF NameContext
  <1>3. 1 \in Nodes(t) => 1 \in P
    <2>1. CASE 1 \in Nodes(t) /\ t[1].name \in Container
      BY <1>2, <2>1, ContextRec DEF Root
    <2>2. CASE 1 \in Nodes(t) /\ t[1].name \notin Container
      <3>1. ContainersOf(t, 1) = {}
        BY <2>2, AncestorsRec DEF ContainersOf, Root
      <3>. QED
        BY <2>2, <3>1
    <2>. QED
      BY <2>1, <2>2
  <1>4. ASSUME NEW m \in 2..Len(t), t[m].parent \in P
        PROVE  m \in P
    <2>0. /\ m \in Nodes(t)
          /\ ContainerContext(t)[m] = NameContext(t[m].name, ContainerContext(t)[t[m].parent])
      <3>1. m \in Nodes(t)
        BY DEF IsTree, Nodes
      <3>. QED
        BY <3>1, ContextRec
    <2>1. CASE t[m].name \in Container
      BY <1>2, <2>0, <2>1
    <2>2. CASE t[m].name \notin Container
      <3>1. ContainersOf(t, m) = ContainersOf(t, t[m].parent)
        <4>1. Ancestors(t)[m] = {t[m].parent} \cup Ancestors(t)[t[m].parent]
          BY AncestorsRec
        <4>. QED
          BY <4>1, <2>2 DEF ContainersOf
      <3>2. ContainerContext(t)[m] = ContainerContext(t)[t[m].parent]
        BY <2>0, <2>2 DEF NameContext, Container
      <3>. QED
        BY <1>4, <2>0, <3>1, <3>2
    <2>. QED
      BY <2>1, <2>2
  <1>5. Nodes(t) \subseteq P
    <2>. HIDE DEF P
    <2>. QED
      BY <1>3, <1>4, TreeInduction
  <1>. QED
    BY <1>5

LEMMA BoundaryRespected == SourcemapInv => ImportsRespectBoundary
  <1> SUFFICES ASSUME SourcemapInv PROVE ImportsRespectBoundary
    OBVIOUS
  <1> DEFINE containers(n) ==
                {a \in Ancestors(tree)[n] : tree[a].name \in ServerContainer \cup ClientContainer}
             onServer(n) ==
                \/ tree[n].className = "Script"
                \/ /\ tree[n].className # "LocalScript"
                   /\ containers(n) # {} /\ tree[Max(containers(n))].name \in ServerContainer
             onClient(n) ==
                \/ tree[n].className = "LocalScript"
                \/ /\ tree[n].className # "Script"
                   /\ containers(n) # {} /\ tree[Max(containers(n))].name \in ClientContainer
  <1>1. ASSUME NEW n \in Nodes(tree), containers(n) # {}
        PROVE  /\ n # Root
               /\ containers(n) = ContainersOf(tree, tree[n].parent)
               /\ tree[n].parent \in Nodes(tree)
    <2>1. n # Root
      BY <1>1, TreeFacts, AncestorsRec
    <2>2. n \in 2..Len(tree)
      BY <2>1, TreeFacts DEF Root
    <2>3. Ancestors(tree)[n] = {tree[n].parent} \cup Ancestors(tree)[tree[n].parent]
      BY <2>2, TreeFacts, AncestorsRec
    <2>4. tree[n].parent \in Nodes(tree)
      BY <2>2, TreeFacts DEF IsTree
    <2>. QED
      BY <2>1, <2>3, <2>4 DEF ContainersOf, Container
  <1>2. ASSUME NEW n \in Nodes(tree)
        PROVE  context[n] = CASE tree[n].className = "Script" -> "Server"
                              [] tree[n].className = "LocalScript" -> "Client"
                              [] OTHER -> IF n = Root THEN "Shared"
                                          ELSE ContainerContext(tree)[tree[n].parent]
    BY DEF SourcemapInv, ContextOf
  <1>3. ASSUME NEW n \in Nodes(tree)
        PROVE  /\ onServer(n) => context[n] = "Server"
               /\ onClient(n) => context[n] = "Client"
    <2>1. ASSUME containers(n) # {}
          PROVE  /\ n # Root
                 /\ tree[Max(containers(n))].name \in ServerContainer
                        => ContainerContext(tree)[tree[n].parent] = "Server"
                 /\ tree[Max(containers(n))].name \in ClientContainer
                        => ContainerContext(tree)[tree[n].parent] = "Client"
      <3>1. n # Root /\ containers(n) = ContainersOf(tree, tree[n].parent)
            /\ tree[n].parent \in Nodes(tree) /\ IsTree(tree)
        BY <1>1, <2>1, TreeFacts
      <3>. HIDE DEF containers
      <3>. QED
        BY <2>1, <3>1, ClosestContainer
    <2>. HIDE DEF containers
    <2>. QED
      BY <1>2, <2>1
  <1> HIDE DEF onServer, onClient
  <1>4. ASSUME NEW from \in Scripts, NEW target \in Scripts,
               (onServer(from) /\ onClient(target)) \/ (onClient(from) /\ onServer(target)),
               NEW style \in Style
        PROVE  RequirePath(from, target, style) = NoRequire
    <2>1. from \in Nodes(tree) /\ target \in Nodes(tree)
      BY DEF Scripts
    <2>2. ~Compatible(context[from], context[target])
      BY <1>3, <1>4, <2>1 DEF Compatible
    <2>. QED
      BY <2>2, Zenon DEF RequirePath
  <1>. QED
    BY <1>4 DEF ImportsRespectBoundary, onServer, onClient
-----------------------------------------------------------------------------
(* The path of an import leads to the module                               *)

LEMMA PathFacts ==
    ASSUME SourcemapInv
    PROVE  /\ \A n \in Nodes(tree) : virtualPath[n] \in Seq(Parts(tree)) /\ virtualPath[n] # <<>>
           /\ 1 \in Nodes(tree) => virtualPath[1] = <<RootPath(tree)>>
           /\ \A n \in 2..Len(tree) :
                  /\ n \in Nodes(tree) /\ tree[n].parent \in Nodes(tree) /\ tree[n].parent < n
                  /\ tree[n].name \in Name
                  /\ Segment(tree, n) \in Parts(tree)
                  /\ virtualPath[n] = Append(virtualPath[tree[n].parent], Segment(tree, n))
                  /\ Ancestors(tree)[n] = {tree[n].parent} \cup Ancestors(tree)[tree[n].parent]
           /\ 1 \in Nodes(tree) => Ancestors(tree)[1] = {}
  <1>1. /\ IsTree(tree) /\ Nodes(tree) = 1..Len(tree) /\ Len(tree) \in Nat
        /\ virtualPath = VirtualPathOf(tree)
    BY TreeFacts DEF SourcemapInv
  <1>2. ASSUME NEW n \in 2..Len(tree)
        PROVE  /\ n \in Nodes(tree) /\ tree[n].parent \in Nodes(tree) /\ tree[n].parent < n
               /\ tree[n].name \in Name
               /\ Segment(tree, n) \in Parts(tree)
    <2>1. n \in Nodes(tree) /\ tree[n].parent \in 1..(n - 1) /\ tree[n].name \in Name
      BY <1>1 DEF IsTree
    <2>. QED
      BY <1>1, <2>1 DEF Parts
  <1>3. /\ \A n \in Nodes(tree) : virtualPath[n] \in Seq(Parts(tree))
        /\ 1 \in Nodes(tree) => virtualPath[1] = <<RootPath(tree)>>
        /\ \A n \in 2..Len(tree) :
               virtualPath[n] = Append(virtualPath[tree[n].parent], Segment(tree, n))
    BY <1>1, PathRec DEF Root
  <1>4. /\ \A n \in 2..Len(tree) :
               Ancestors(tree)[n] = {tree[n].parent} \cup Ancestors(tree)[tree[n].parent]
        /\ 1 \in Nodes(tree) => Ancestors(tree)[1] = {}
    BY <1>1, AncestorsRec DEF Root
  <1>5. ASSUME NEW n \in Nodes(tree)
        PROVE  virtualPath[n] # <<>>
    <2>1. CASE n = 1
      <3>1. <<RootPath(tree)>> # <<>>
        OBVIOUS
      <3>. QED
        BY <1>3, <2>1, <3>1
    <2>2. CASE n # 1
      <3> DEFINE a == virtualPath[tree[n].parent]
                 s == Segment(tree, n)
      <3>1. a \in Seq(Parts(tree)) /\ s \in Parts(tree) /\ virtualPath[n] = Append(a, s)
        <4>1. n \in 2..Len(tree)
          BY <1>1, <2>2 DEF Nodes
        <4>2. tree[n].parent \in Nodes(tree) /\ s \in Parts(tree)
          BY <1>2, <4>1
        <4>. QED
          BY <1>3, <4>1, <4>2
      <3>. HIDE DEF a, s
      <3>. QED
        BY <3>1, AppendProperties
    <2>. QED
      BY <2>1, <2>2
  <1>. QED
    BY <1>2, <1>3, <1>4, <1>5

LEMMA NamesRec ==
    ASSUME SourcemapInv, NEW top \in Nodes(tree)
    PROVE  /\ \A n \in Nodes(tree) : NamesDown(top, n) \in Seq(Name)
           /\ \A n \in Nodes(tree) : n <= top => NamesDown(top, n) = <<>>
           /\ \A n \in 2..Len(tree) : n > top =>
                  NamesDown(top, n) = Append(NamesDown(top, tree[n].parent), tree[n].name)
  <1> DEFINE last == Len(tree)
             parents == [n \in 1..last |-> IF n = 1 THEN 1 ELSE tree[n].parent]
             names == [n \in 1..last |-> tree[n].name]
             none == <<>>
             step == [p \in (1..last) \X Seq(Name) |->
                         IF p[1] <= top THEN none ELSE Append(p[2], names[p[1]])]
             Longer(s, n) == Append(s, tree[n].name)
             Down(f) == [n \in Nodes(tree) |->
                            IF n <= top THEN none ELSE Longer(f[tree[n].parent], n)]
  <1>1. /\ last \in Nat /\ Nodes(tree) = 1..last /\ top \in 1..last
        /\ \A n \in 2..last : parents[n] = tree[n].parent /\ parents[n] \in 1..(n - 1)
                             /\ names[n] \in Name
        /\ \A n \in 1..last : names[n] = tree[n].name
    BY TreeFacts DEF IsTree
  <1> HIDE DEF last, parents, names
  <1>2. /\ step \in [(1..last) \X Seq(Name) -> Seq(Name)] /\ none \in Seq(Name)
        /\ \A n \in 1..last, s \in Seq(Name) :
               step[<<n, s>>] = IF n <= top THEN none ELSE Longer(s, n)
    <2>1. none \in Seq(Name)
      OBVIOUS
    <2>2. ASSUME NEW n \in 1..last, NEW s \in Seq(Name)
          PROVE  (IF n <= top THEN none ELSE Append(s, names[n])) \in Seq(Name)
      <3>1. CASE n <= top
        BY <2>1, <3>1
      <3>2. CASE ~(n <= top)
        <4>1. names[n] \in Name
          BY <1>1, <3>2
        <4>. HIDE DEF none
        <4>. QED
          BY <3>2, <4>1, AppendProperties
      <3>. QED
        BY <3>1, <3>2
    <2>. HIDE DEF none
    <2>3. ASSUME NEW q \in (1..last) \X Seq(Name)
          PROVE  (IF q[1] <= top THEN none ELSE Append(q[2], names[q[1]])) \in Seq(Name)
      <3>1. q[1] \in 1..last /\ q[2] \in Seq(Name)
        OBVIOUS
      <3>. QED
        BY <2>2, <3>1
    <2>4. ASSUME NEW n \in 1..last, NEW s \in Seq(Name)
          PROVE  step[<<n, s>>] = IF n <= top THEN none ELSE Longer(s, n)
      BY <1>1
    <2>. QED
      BY <2>1, <2>3, <2>4
  <1> HIDE DEF step, none
  <1>3. PICK f \in [1..last -> Seq(Name)] : FollowsParent(f, last, none, parents, step)
    BY <1>1, <1>2, ParentRecursion
  <1> HIDE DEF Longer
  <1>4. f = Down(f)
    <2>1. ASSUME NEW n \in 1..last
          PROVE  f[n] = IF n <= top THEN none ELSE Longer(f[tree[n].parent], n)
      <3>1. CASE n = 1
        BY <1>1, <1>3, <3>1 DEF FollowsParent
      <3>2. CASE n # 1
        <4>1. /\ n \in 2..last /\ parents[n] = tree[n].parent /\ parents[n] \in 1..last
          BY <1>1, <3>2
        <4>2. f[n] = step[<<n, f[parents[n]]>>] /\ f[parents[n]] \in Seq(Name)
          BY <1>3, <4>1 DEF FollowsParent
        <4>. QED
          BY <1>2, <4>1, <4>2
      <3>. QED
        BY <3>1, <3>2
    <2>. QED
      BY <2>1, <1>1, <1>3
  <1> DEFINE F == CHOOSE g : g = Down(g)
  <1>5. F = Down(F)
    <2>. HIDE DEF Down
    <2>. QED
      BY <1>4
  <1>6. ASSUME NEW n
        PROVE  NamesDown(top, n) = F[n]
    BY Zenon DEF NamesDown, none, Longer
  <1> HIDE DEF F
  <1>7. /\ \A n \in Nodes(tree) : n <= top => NamesDown(top, n) = none
        /\ \A n \in 2..last : n > top => NamesDown(top, n) = Longer(NamesDown(top, tree[n].parent), n)
    <2>1. ASSUME NEW n \in Nodes(tree)
          PROVE  F[n] = IF n <= top THEN none ELSE Longer(F[tree[n].parent], n)
      BY <1>5
    <2>2. ASSUME NEW n \in 2..last, n > top
          PROVE  NamesDown(top, n) = Longer(NamesDown(top, tree[n].parent), n)
      <3>1. n \in Nodes(tree) /\ ~(n <= top)
        BY <1>1, <2>2
      <3>2. NamesDown(top, n) = F[n] /\ NamesDown(top, tree[n].parent) = F[tree[n].parent]
        BY <1>6
      <3>. QED
        BY <2>1, <3>1, <3>2
    <2>. QED
      BY <1>6, <2>1, <2>2
  <1>8. \A n \in Nodes(tree) : NamesDown(top, n) \in Seq(Name)
    <2> DEFINE P == {n \in Nodes(tree) : NamesDown(top, n) \in Seq(Name)}
    <2>1. 1 \in Nodes(tree) => 1 \in P
      BY <1>1, <1>2, <1>7
    <2>2. ASSUME NEW n \in 2..Len(tree), tree[n].parent \in P
          PROVE  n \in P
      <3>1. n \in Nodes(tree) /\ n \in 2..last /\ tree[n].name \in Name
        BY <1>1 DEF last
      <3>2. CASE n <= top
        BY <1>2, <1>7, <3>1, <3>2
      <3>3. CASE n > top
        <4>1. NamesDown(top, n) = Append(NamesDown(top, tree[n].parent), tree[n].name)
          BY <1>7, <3>1, <3>3 DEF Longer
        <4>. QED
          BY <2>2, <3>1, <4>1, AppendProperties
      <3>. QED
        BY <1>1, <3>1, <3>2, <3>3
    <2>. HIDE DEF P
    <2>3. Nodes(tree) \subseteq P
      BY <2>1, <2>2, TreeFacts, TreeInduction
    <2>. QED
      BY <2>3 DEF P
  <1>. QED
    BY <1>7, <1>8 DEF none, Longer, last
LEMMA PathDown ==
    ASSUME SourcemapInv, NEW n \in Nodes(tree), NEW top \in Nodes(tree),
           top \in {n} \cup Ancestors(tree)[n], Unshadowed(n)
    PROVE  virtualPath[n] = virtualPath[top] \o NamesDown(top, n)
  <1> DEFINE X == Parts(tree) \cup Name
             P == {m \in Nodes(tree) :
                     top \in {m} \cup Ancestors(tree)[m] /\ Unshadowed(m)
                     => virtualPath[m] = virtualPath[top] \o NamesDown(top, m)}
  <1>1. /\ \A m \in Nodes(tree) : virtualPath[m] \in Seq(X) /\ NamesDown(top, m) \in Seq(X)
        /\ Nodes(tree) = 1..Len(tree) /\ Len(tree) \in Nat
    <2>1. ASSUME NEW m \in Nodes(tree)
          PROVE  virtualPath[m] \in Seq(X) /\ NamesDown(top, m) \in Seq(X)
      <3>1. virtualPath[m] \in Seq(Parts(tree)) /\ NamesDown(top, m) \in Seq(Name)
        BY PathFacts, NamesRec
      <3>. QED
        BY <3>1, SeqMonotonic
    <2>. QED
      BY <2>1, TreeFacts
  <1>0. \A s, t \in Seq(X) : \A x \in X : Append(s \o t, x) = s \o Append(t, x)
    <2>. HIDE DEF X
    <2>. QED
      OBVIOUS
  <1>2. virtualPath[top] \o NamesDown(top, top) = virtualPath[top]
    <2>1. NamesDown(top, top) = <<>>
      BY <1>1, NamesRec
    <2>. HIDE DEF X
    <2>. QED
      BY <1>1, <2>1, ConcatEmptySeq
  <1>3. 1 \in Nodes(tree) => 1 \in P
    BY <1>2, PathFacts
  <1>4. ASSUME NEW m \in 2..Len(tree), tree[m].parent \in P
        PROVE  m \in P
    <2> DEFINE up == tree[m].parent
    <2>0. /\ m \in Nodes(tree) /\ up \in Nodes(tree) /\ up < m /\ tree[m].name \in Name
          /\ virtualPath[m] = Append(virtualPath[up], Segment(tree, m))
          /\ Ancestors(tree)[m] = {up} \cup Ancestors(tree)[up]
      BY PathFacts
    <2>1. SUFFICES ASSUME top \in {m} \cup Ancestors(tree)[m], Unshadowed(m), top # m
                   PROVE  virtualPath[m] = virtualPath[top] \o NamesDown(top, m)
      BY <1>2, <2>0
    <2>2. top \in {up} \cup Ancestors(tree)[up]
      BY <2>0, <2>1
    <2>3. top < m
      <3>1. top \in Ancestors(tree)[m] /\ Ancestors(tree)[m] \subseteq 1..(m - 1)
        BY <2>0, <2>1, TreeFacts, AncestorsBelow
      <3>. QED
        BY <3>1
    <2>4. Unshadowed(up) /\ Segment(tree, m) = tree[m].name
      <3>1. {up} \cup Ancestors(tree)[up] \subseteq {m} \cup Ancestors(tree)[m] /\ m # Root
        BY <2>0 DEF Root
      <3>. HIDE DEF up
      <3>. QED
        BY <2>1, <3>1 DEF Unshadowed
    <2>5. virtualPath[up] = virtualPath[top] \o NamesDown(top, up)
      BY <1>4, <2>2, <2>4
    <2>6. NamesDown(top, m) = Append(NamesDown(top, up), tree[m].name)
      BY <1>1, <2>3, NamesRec
    <2> DEFINE a == virtualPath[top]
               b == NamesDown(top, up)
               c == tree[m].name
    <2>7. a \in Seq(X) /\ b \in Seq(X) /\ c \in X
      BY <1>1, <2>0
    <2>8. virtualPath[m] = Append(a \o b, c) /\ NamesDown(top, m) = Append(b, c)
      BY <2>0, <2>4, <2>5, <2>6
    <2>. HIDE DEF a, b, c, X
    <2>9. Append(a \o b, c) = a \o Append(b, c)
      BY <1>0, <2>7, Zenon
    <2>10. virtualPath[m] = a \o NamesDown(top, m)
      BY <2>8, <2>9, Zenon
    <2>. QED
      BY <2>10, Zenon DEF a
  <1>5. Nodes(tree) \subseteq P
    <2>. HIDE DEF P
    <2>. QED
      BY <1>3, <1>4, TreeFacts, TreeInduction
  <1>. QED
    BY <1>5

LEMMA PathUp ==
    ASSUME SourcemapInv, NEW n \in Nodes(tree), NEW top \in Ancestors(tree)[n]
    PROVE  /\ HopsUp(top, n) \in Nat
           /\ Len(virtualPath[n]) = Len(virtualPath[top]) + 1 + HopsUp(top, n)
           /\ \A i \in 1..Len(virtualPath[top]) : virtualPath[n][i] = virtualPath[top][i]
  <1> DEFINE len(m) == Len(virtualPath[m])
             Above(m) == {a \in Ancestors(tree)[m] : a > top}
             Q(m) == top \in Ancestors(tree)[m] =>
                       /\ HopsUp(top, m) \in Nat
                       /\ len(m) = len(top) + 1 + HopsUp(top, m)
                       /\ \A i \in 1..len(top) : virtualPath[m][i] = virtualPath[top][i]
             P == {m \in Nodes(tree) : Q(m)}
  <1>1. 1 \in Nodes(tree) => 1 \in P
    BY PathFacts
  <1>2. ASSUME NEW m \in 2..Len(tree), tree[m].parent \in P
        PROVE  m \in P
    <2> DEFINE up == tree[m].parent
    <2>0. /\ m \in Nodes(tree) /\ up \in Nodes(tree) /\ up < m
          /\ virtualPath[m] = Append(virtualPath[up], Segment(tree, m))
          /\ Segment(tree, m) \in Parts(tree)
          /\ virtualPath[up] \in Seq(Parts(tree))
          /\ Ancestors(tree)[m] = {up} \cup Ancestors(tree)[up]
          /\ Ancestors(tree)[up] \subseteq 1..(up - 1)
          /\ up \in Nat
      <3>1. up \in Nodes(tree)
        BY PathFacts
      <3>2. up \in Nat /\ Ancestors(tree)[up] \subseteq 1..(up - 1)
        BY <3>1, TreeFacts, AncestorsBelow
      <3>. QED
        BY <3>1, <3>2, PathFacts
    <2>1. SUFFICES ASSUME top \in Ancestors(tree)[m]
                   PROVE  Q(m)
      BY <2>0
    <2>2. /\ len(m) = len(up) + 1 /\ len(up) \in Nat
          /\ \A i \in 1..len(up) : virtualPath[m][i] = virtualPath[up][i]
      <3> DEFINE a == virtualPath[up]
                 s == Segment(tree, m)
      <3>1. a \in Seq(Parts(tree)) /\ s \in Parts(tree) /\ virtualPath[m] = Append(a, s)
        BY <2>0
      <3>. HIDE DEF a, s
      <3>2. /\ Len(virtualPath[m]) = Len(a) + 1 /\ Len(a) \in Nat
            /\ \A i \in 1..Len(a) : virtualPath[m][i] = a[i]
        BY <3>1, AppendProperties, LenProperties
      <3>. QED
        BY <3>2 DEF a
    <2>3. CASE top = up
      <3>1. Above(m) = {}
        BY <2>0, <2>3
      <3>2. HopsUp(top, m) = 0
        BY <3>1, FS_EmptySet DEF HopsUp
      <3>. QED
        BY <2>2, <2>3, <3>2
    <2>4. CASE top # up
      <3>1. top \in Ancestors(tree)[up] /\ Q(up)
        BY <1>2, <2>0, <2>1, <2>4
      <3>2. Above(m) = Above(up) \cup {up} /\ up \notin Above(up)
        BY <2>0, <3>1
      <3>3. IsFiniteSet(Above(up))
        <4>1. Above(up) \in SUBSET (1..(up - 1)) /\ IsFiniteSet(1..(up - 1))
          <5>1. Above(up) \in SUBSET (1..(up - 1))
            BY <2>0
          <5>2. up - 1 \in Int /\ 1 \in Int
            BY <2>0
          <5>. QED
            BY <5>1, <5>2, FS_Interval
        <4>. HIDE DEF Above
        <4>. QED
          BY <4>1, FS_Subset
      <3>4. HopsUp(top, m) = HopsUp(top, up) + 1
        <4>1. HopsUp(top, m) = Cardinality(Above(m)) /\ HopsUp(top, up) = Cardinality(Above(up))
          BY DEF HopsUp
        <4>. HIDE DEF Above
        <4>. QED
          BY <3>2, <3>3, <4>1, FS_AddElement
      <3>5. /\ HopsUp(top, up) \in Nat
            /\ len(up) = len(top) + 1 + HopsUp(top, up)
            /\ \A i \in 1..len(top) : virtualPath[up][i] = virtualPath[top][i]
        BY <3>1
      <3>6. len(top) \in Nat
        <4>1. top \in Nodes(tree)
          BY <2>0, <3>1, TreeFacts
        <4>. QED
          BY <4>1, PathFacts, LenProperties
      <3>. HIDE DEF len
      <3>7. HopsUp(top, m) \in Nat /\ len(m) = len(top) + 1 + HopsUp(top, m)
        <4> DEFINE h == HopsUp(top, up)
                   g == HopsUp(top, m)
        <4>1. g = h + 1 /\ h \in Nat /\ len(up) = len(top) + 1 + h /\ len(m) = len(up) + 1
          BY <2>2, <3>4, <3>5
        <4>. HIDE DEF h, g
        <4>2. g \in Nat /\ len(m) = len(top) + 1 + g
          BY <3>6, <4>1
        <4>. QED
          BY <4>2 DEF g
      <3>8. \A i \in 1..len(top) : virtualPath[m][i] = virtualPath[top][i]
        BY <2>2, <3>5, <3>6
      <3>. QED
        BY <3>7, <3>8
    <2>. QED
      BY <2>3, <2>4
  <1>3. Nodes(tree) \subseteq P
    <2>. HIDE DEF P
    <2>. QED
      BY <1>1, <1>2, TreeFacts, TreeInduction
  <1>. QED
    BY <1>3
\* The first k parts of a path.
Prefix(p, k) == SubSeq(p, 1, k)

LEMMA PrefixFacts ==
    ASSUME NEW X, NEW p \in Seq(X)
    PROVE  /\ \A k \in 0..Len(p) : Prefix(p, k) \in Seq(X) /\ Len(Prefix(p, k)) = k
                                 /\ \A i \in 1..k : Prefix(p, k)[i] = p[i]
           /\ Prefix(p, Len(p)) = p
           /\ \A k \in 1..Len(p) : ParentPath(Prefix(p, k)) = Prefix(p, k - 1)
           /\ \A k \in 0..(Len(p) - 1) : Append(Prefix(p, k), p[k + 1]) = Prefix(p, k + 1)
  <1>1. Len(p) \in Nat /\ \A i \in 1..Len(p) : p[i] \in X
    BY LenProperties, ElementOfSeq
  <1>2. ASSUME NEW k \in 0..Len(p)
        PROVE  /\ Prefix(p, k) \in Seq(X) /\ Len(Prefix(p, k)) = k
               /\ \A i \in 1..k : Prefix(p, k)[i] = p[i]
    <2>1. k \in Int /\ 1 \in Int /\ \A i \in 1..k : p[i] \in X
      BY <1>1
    <2>. QED
      BY <1>1, <2>1, SubSeqProperties DEF Prefix
  <1>3. Prefix(p, Len(p)) = p
    BY SubSeqFull DEF Prefix
  <1>4. ASSUME NEW k \in 1..Len(p)
        PROVE  ParentPath(Prefix(p, k)) = Prefix(p, k - 1)
    <2> DEFINE q == Prefix(p, k)
    <2>1. q \in Seq(X) /\ Len(q) = k /\ \A i \in 1..k : q[i] = p[i]
      BY <1>1, <1>2
    <2>2. k - 1 \in 0..Len(p) /\ k - 1 \in 0..Len(q)
      BY <1>1, <2>1
    <2>3. /\ Prefix(p, k - 1) \in Seq(X) /\ Len(Prefix(p, k - 1)) = k - 1
          /\ \A i \in 1..(k - 1) : Prefix(p, k - 1)[i] = p[i]
      BY <1>2, <2>2
    <2> HIDE DEF q
    <2>4. /\ SubSeq(q, 1, k - 1) \in Seq(X) /\ Len(SubSeq(q, 1, k - 1)) = k - 1
          /\ \A i \in 1..(k - 1) : SubSeq(q, 1, k - 1)[i] = q[i]
      <3>1. k - 1 \in Int /\ 1 \in Int /\ \A i \in 1..(k - 1) : q[i] \in X
        BY <1>1, <2>1
      <3>. QED
        BY <1>1, <3>1, SubSeqProperties
    <2>5. SubSeq(q, 1, k - 1) = Prefix(p, k - 1)
      BY <2>1, <2>3, <2>4, SeqEqual
    <2>. QED
      BY <2>1, <2>5 DEF ParentPath, q
  <1>5. ASSUME NEW k \in 0..(Len(p) - 1)
        PROVE  Append(Prefix(p, k), p[k + 1]) = Prefix(p, k + 1)
    <2> DEFINE q == Prefix(p, k)
               x == p[k + 1]
               r == Prefix(p, k + 1)
    <2>1. k \in 0..Len(p) /\ k + 1 \in 0..Len(p) /\ x \in X
      BY <1>1
    <2>2. /\ q \in Seq(X) /\ Len(q) = k /\ \A i \in 1..k : q[i] = p[i]
          /\ r \in Seq(X) /\ Len(r) = k + 1 /\ \A i \in 1..(k + 1) : r[i] = p[i]
      BY <1>2, <2>1
    <2>3. r[k + 1] = x
      BY <2>1, <2>2
    <2>. HIDE DEF q, x, r
    <2>4. /\ Append(q, x) \in Seq(X) /\ Len(Append(q, x)) = k + 1
          /\ \A i \in 1..k : Append(q, x)[i] = q[i]
          /\ Append(q, x)[k + 1] = x
      BY <2>1, <2>2, AppendProperties
    <2>5. \A i \in 1..(k + 1) : Append(q, x)[i] = r[i]
      BY <2>1, <2>2, <2>3, <2>4
    <2>6. Append(q, x) = r
      BY <2>2, <2>4, <2>5, SeqEqual
    <2>. QED
      BY <2>6 DEF q, x, r
  <1>. QED
    BY <1>2, <1>3, <1>4, <1>5

\* From the parent of p it takes h hops up, and then the names, to get to q.
IsWalk(X, p, h, names, q) ==
    /\ p \in Seq(X) /\ q \in Seq(X) /\ names \in Seq(Name) /\ h \in Nat
    /\ \E k \in Nat \ {0} :
           /\ Len(p) = k + 1 + h /\ Len(q) = k + Len(names)
           /\ \A i \in 1..k : p[i] = q[i]
           /\ \A i \in 1..Len(names) : q[k + i] = names[i]

Relative(h, names) == [anchor |-> "relative", steps |-> [i \in 1..h |-> Up] \o names]

LEMMA WalkLeads ==
    ASSUME NEW X, NEW p, NEW h, NEW names, NEW q, IsWalk(X, p, h, names, q)
    PROVE  ResolveStringRequire(p, Relative(h, names)) = q
  <1> SUFFICES ASSUME p \in Seq(X), q \in Seq(X), names \in Seq(Name), h \in Nat,
                      NEW k \in Nat \ {0}, Len(p) = k + 1 + h, Len(q) = k + Len(names),
                      \A i \in 1..k : p[i] = q[i],
                      \A i \in 1..Len(names) : q[k + i] = names[i]
               PROVE  ResolveStringRequire(p, Relative(h, names)) = q
    BY DEF IsWalk
  <1> DEFINE steps == [i \in 1..h |-> Up] \o names
             require == Relative(h, names)
             n == h + Len(names)
             At(i) == IF i <= h THEN Prefix(p, k + h - i) ELSE Prefix(q, k + (i - h))
             Base(i) == [path |-> At(i), lost |-> FALSE]
             start == [path |-> ParentPath(p), lost |-> FALSE]
             Rec(f) == [i \in 0..Len(require.steps) |->
                           IF i = 0 THEN start ELSE Walk(f[i - 1], require.steps[i])]
             places == [i \in 0..n |-> Base(i)]
  <1>1. /\ Len(names) \in Nat /\ n \in Nat /\ Len(steps) = n
        /\ \A i \in 1..h : steps[i] = Up
        /\ \A i \in 1..Len(names) : steps[h + i] = names[i]
    OBVIOUS
  <1>0. require.anchor = "relative" /\ require.steps = steps /\ Len(require.steps) = n
    BY <1>1 DEF Relative
  <1> HIDE DEF steps, require
  <1>2. /\ \A i \in 0..h : At(i) = Prefix(p, k + h - i)
        /\ \A i \in h..n : At(i) = Prefix(q, k + (i - h))
    <2>1. Prefix(p, k) = Prefix(q, k)
      <3>1. k \in 0..Len(p) /\ k \in 0..Len(q)
        BY <1>1
      <3>2. /\ Prefix(p, k) \in Seq(X) /\ Len(Prefix(p, k)) = k
            /\ \A i \in 1..k : Prefix(p, k)[i] = p[i]
            /\ Prefix(q, k) \in Seq(X) /\ Len(Prefix(q, k)) = k
            /\ \A i \in 1..k : Prefix(q, k)[i] = q[i]
        BY <3>1, PrefixFacts
      <3>. QED
        BY <3>2, SeqEqual
    <2>2. k + h - h = k /\ k + (h - h) = k
      OBVIOUS
    <2>. QED
      BY <1>1, <2>1, <2>2
  <1> HIDE DEF At
  <1>3. At(0) = ParentPath(p)
    <2>1. k + h - 0 = Len(p) - 1 /\ Len(p) \in 1..Len(p) /\ 0 \in 0..h
      OBVIOUS
    <2>2. ParentPath(Prefix(p, Len(p))) = Prefix(p, Len(p) - 1) /\ Prefix(p, Len(p)) = p
      BY <2>1, PrefixFacts
    <2>. QED
      BY <1>2, <2>1, <2>2
  <1>4. ASSUME NEW i \in 1..h
        PROVE  Walk(Base(i - 1), Up) = Base(i)
    <2> DEFINE l == k + h - (i - 1)
    <2>1. l \in 1..Len(p) /\ l - 1 = k + h - i /\ i - 1 \in 0..h /\ i \in 0..h
      OBVIOUS
    <2>2. At(i - 1) = Prefix(p, l) /\ At(i) = Prefix(p, l - 1)
      BY <1>2, <2>1
    <2>. HIDE DEF l
    <2>3. ParentPath(Prefix(p, l)) = Prefix(p, l - 1)
      BY <2>1, PrefixFacts
    <2>4. Prefix(p, l) # <<>>
      <3>1. l \in 0..Len(p) /\ l # 0
        BY <2>1
      <3>2. Len(Prefix(p, l)) = l
        BY <3>1, PrefixFacts
      <3>. QED
        BY <3>1, <3>2
    <2>5. ~Base(i - 1).lost /\ Base(i - 1).path = At(i - 1)
      OBVIOUS
    <2>6. Walk(Base(i - 1), Up) = [path |-> ParentPath(At(i - 1)), lost |-> At(i - 1) = <<>>]
      BY <2>5 DEF Walk
    <2>7. (At(i - 1) = <<>>) = FALSE
      BY <2>2, <2>4
    <2>. QED
      BY <2>2, <2>3, <2>6, <2>7
  <1>5. ASSUME NEW j \in 1..Len(names)
        PROVE  Walk(Base(h + j - 1), names[j]) = Base(h + j)
    <2> DEFINE l == k + (j - 1)
    <2>1. /\ l \in 0..(Len(q) - 1) /\ l + 1 = k + ((h + j) - h) /\ l + 1 = k + j
          /\ l = k + ((h + j - 1) - h)
          /\ h + j - 1 \in h..n /\ h + j \in h..n
      BY <1>1
    <2>2. At(h + j - 1) = Prefix(q, l) /\ At(h + j) = Prefix(q, l + 1)
      BY <1>2, <2>1
    <2>3. names[j] = q[l + 1] /\ names[j] # Up
      <3>1. names[j] \in Name
        BY ElementOfSeq
      <3>. QED
        BY <2>1, <3>1, SourcemapAssumption
    <2>. HIDE DEF l
    <2>4. Append(Prefix(q, l), q[l + 1]) = Prefix(q, l + 1)
      <3>1. \A m \in 0..(Len(q) - 1) : Append(Prefix(q, m), q[m + 1]) = Prefix(q, m + 1)
        BY PrefixFacts, Zenon
      <3>. QED
        BY <2>1, <3>1
    <2>5. ~Base(h + j - 1).lost /\ Base(h + j - 1).path = At(h + j - 1)
      OBVIOUS
    <2>6. Walk(Base(h + j - 1), names[j]) = [path |-> Append(At(h + j - 1), names[j]), lost |-> FALSE]
      BY <2>3, <2>5 DEF Walk
    <2>. QED
      BY <2>2, <2>3, <2>4, <2>6
  <1>6. At(n) = q
    <2>1. n \in h..n /\ k + (n - h) = Len(q)
      BY <1>1
    <2>2. Prefix(q, Len(q)) = q
      BY PrefixFacts
    <2>. QED
      BY <1>2, <2>1, <2>2
  <1> HIDE DEF n, Base
  <1>7. ASSUME NEW i \in 1..n
        PROVE  Walk(Base(i - 1), steps[i]) = Base(i)
    <2>1. CASE i <= h
      BY <1>1, <1>4, <2>1
    <2>2. CASE ~(i <= h)
      <3>1. i - h \in 1..Len(names) /\ h + (i - h) = i /\ h + (i - h) - 1 = i - 1
        BY <1>1, <2>2 DEF n
      <3>2. steps[i] = names[i - h]
        <4>1. steps[h + (i - h)] = names[i - h]
          BY <1>1, <3>1
        <4>. QED
          BY <3>1, <4>1
      <3>3. Walk(Base(h + (i - h) - 1), names[i - h]) = Base(h + (i - h))
        BY <1>5, <3>1
      <3>. QED
        BY <3>1, <3>2, <3>3
    <2>. QED
      BY <2>1, <2>2
  <1>8. Base(0) = start
    BY <1>3 DEF Base
  <1> HIDE DEF start
  <1>9. places = Rec(places)
    <2>1. ASSUME NEW i \in 0..n
          PROVE  places[i] = Rec(places)[i]
      <3>1. CASE i = 0
        BY <1>0, <1>8, <3>1
      <3>2. CASE i # 0
        <4>1. i \in 1..n /\ i - 1 \in 0..n
          BY <1>1, <3>2
        <4>. QED
          BY <1>0, <1>7, <3>2, <4>1
      <3>. QED
        BY <3>1, <3>2
    <2>2. places = [i \in 0..n |-> places[i]]
      OBVIOUS
    <2>. HIDE DEF places
    <2>. QED
      BY <1>0, <2>1, <2>2
  <1> DEFINE base == CHOOSE f : f = Rec(f)
  <1>10. base = Rec(base)
    <2>. HIDE DEF Rec
    <2>. QED
      BY <1>9
  <1>11. ResolveStringRequire(p, require)
            = IF base[Len(require.steps)].lost THEN Unresolved ELSE base[Len(require.steps)].path
    <2>1. require.anchor # "@self" /\ require.anchor # "@game"
      BY <1>0
    <2>. HIDE DEF Rec
    <2>. QED
      BY <2>1, Zenon DEF ResolveStringRequire, Rec, start
  <1>13. /\ base[0] = start
         /\ \A i \in 1..n : base[i] = Walk(base[i - 1], steps[i])
    <2>1. n \in Nat
      BY <1>1
    <2>. HIDE DEF base
    <2>2. ASSUME NEW i \in 0..n
          PROVE  base[i] = IF i = 0 THEN start ELSE Walk(base[i - 1], steps[i])
      BY <1>0, <1>10
    <2>3. ASSUME NEW i \in 1..n
          PROVE  base[i] = Walk(base[i - 1], steps[i])
      <3>1. i \in 0..n /\ i # 0
        BY <2>1
      <3>. QED
        BY <2>2, <3>1, Zenon
    <2>4. base[0] = start
      <3>1. 0 \in 0..n
        BY <2>1
      <3>. QED
        BY <2>2, <3>1, Zenon
    <2>. QED
      BY <2>3, <2>4
  <1> HIDE DEF base, places
  <1>12. base[n] = Base(n)
    <2> DEFINE P == {i \in Nat : base[i] = Base(i)}
    <2>1. ASSUME NEW i \in 0..n, \A j \in 0..n : j < i => j \in P
          PROVE  i \in P
      <3>1. CASE i = 0
        BY <1>8, <1>13, <3>1
      <3>2. CASE i # 0
        <4>1. i \in 1..n /\ i - 1 \in 0..n /\ i - 1 < i
          BY <1>1, <3>2
        <4>2. base[i] = Walk(base[i - 1], steps[i])
          BY <1>13, <4>1
        <4>3. base[i - 1] = Base(i - 1)
          BY <2>1, <4>1
        <4>4. base[i] = Base(i)
          BY <1>7, <4>1, <4>2, <4>3, Zenon
        <4>. QED
          BY <4>4
      <3>. QED
        BY <3>1, <3>2
    <2>2. 0..n \in SUBSET Nat /\ n \in 0..n
      BY <1>1
    <2>. HIDE DEF P
    <2>3. 0..n \subseteq P
      BY <2>1, <2>2, StrongInduction
    <2>. QED
      BY <2>2, <2>3 DEF P
  <1>. QED
    BY <1>0, <1>6, <1>11, <1>12 DEF Base, require
\* What an import can look like.
LEMMA ImportShapes ==
    ASSUME SourcemapInv, NEW from \in Scripts, NEW target \in Scripts, NEW style,
           RequirePath(from, target, style) # NoRequire
    PROVE  \/ RequirePath(from, target, style) = Absolute(target)
           \/ /\ from \in Ancestors(tree)[target]
              /\ RequirePath(from, target, style)
                     = [anchor |-> "@self", steps |-> NamesDown(from, target)]
           \/ \E top \in ({target} \cup Ancestors(tree)[target]) \cap Ancestors(tree)[from] :
                  RequirePath(from, target, style)
                      = Relative(HopsUp(top, from), NamesDown(top, target))
  <1> DEFINE common == ({target} \cup Ancestors(tree)[target]) \cap Ancestors(tree)[from]
             relative(top) == Relative(HopsUp(top, from), NamesDown(top, target))
             self == [anchor |-> "@self", steps |-> NamesDown(from, target)]
             require == RequirePath(from, target, style)
  <1>1. \/ require = NoRequire
        \/ require = Absolute(target)
        \/ from \in Ancestors(tree)[target] /\ require = self
        \/ common # {} /\ require = relative(Max(common))
    BY Zenon DEF RequirePath, Relative
  <1>2. common # {} => Max(common) \in common
    <2>1. from \in Nodes(tree) /\ Len(tree) \in Nat
      BY TreeFacts DEF Scripts
    <2>2. Ancestors(tree)[from] \subseteq 1..(from - 1) /\ from \in 1..Len(tree)
      BY <2>1, TreeFacts, AncestorsBelow
    <2>3. common \subseteq Ancestors(tree)[from]
      OBVIOUS
    <2>. HIDE DEF common
    <2>4. common \in SUBSET Nat /\ from \in Nat /\ \A y \in common : y <= from
      BY <2>1, <2>2, <2>3
    <2>. QED
      BY <2>4, MaxOf
  <1>. HIDE DEF common, relative, self
  <1>3. require # NoRequire
    OBVIOUS
  <1>. HIDE DEF require
  <1>4. \/ require = Absolute(target)
        \/ from \in Ancestors(tree)[target] /\ require = self
        \/ \E top \in common : require = relative(top)
    BY <1>1, <1>2, <1>3
  <1>. QED
    BY <1>4, Zenon DEF common, relative, self, require

LEMMA AbsoluteLeads ==
    ASSUME SourcemapInv, NEW from, NEW target \in Scripts, tree[Root].className = "DataModel"
    PROVE  ResolveStringRequire(from, Absolute(target)) = virtualPath[target]
  <1> DEFINE p == virtualPath[target]
             X == Parts(tree)
             root == <<"game">>
  <1>1. target \in Nodes(tree) /\ IsTree(tree) /\ Nodes(tree) = 1..Len(tree) /\ Len(tree) \in Nat
    BY TreeFacts DEF Scripts
  <1>2. target \in 2..Len(tree) /\ tree # <<>>
    <2>1. ~IsScript(tree, 1)
      <3>1. tree[1].className \in RootClass
        BY <1>1 DEF IsTree, Nodes
      <3>. QED
        BY <3>1, SourcemapAssumption DEF IsScript, ScriptClass, Folder
    <2>2. target # 1
      BY <2>1 DEF Scripts
    <2>3. Len(<<>>) = 0
      OBVIOUS
    <2>. QED
      BY <1>1, <2>2, <2>3
  <1>3. 1 \in Nodes(tree) /\ virtualPath[1] = <<root>>
    BY <1>1, <1>2, PathFacts DEF RootPath, Root
  <1>4. p \in Seq(X) /\ Len(p) > 1 /\ p[1] = root
    <2>1. 1 \in Ancestors(tree)[target]
      <3> DEFINE P == {m \in Nodes(tree) : m = 1 \/ 1 \in Ancestors(tree)[m]}
      <3>1. \A m \in 2..Len(tree) : tree[m].parent \in P => m \in P
        BY PathFacts
      <3>2. 1 \in Nodes(tree) => 1 \in P
        OBVIOUS
      <3>. HIDE DEF P
      <3>3. Nodes(tree) \subseteq P
        BY <1>1, <3>1, <3>2, TreeInduction
      <3>. QED
        BY <1>1, <1>2, <3>3 DEF P
    <2> DEFINE top == virtualPath[1]
               h == HopsUp(1, target)
    <2>2. /\ h \in Nat /\ Len(p) = Len(top) + 1 + h
          /\ \A i \in 1..Len(top) : p[i] = top[i]
      BY <1>1, <2>1, PathUp
    <2>3. Len(top) = 1 /\ top[1] = root
      BY <1>3
    <2>. HIDE DEF top, h
    <2>4. p \in Seq(X)
      BY <1>1, PathFacts
    <2>. QED
      BY <2>2, <2>3, <2>4
  <1>. HIDE DEF p, X
  <1>5. /\ Head(p) = root /\ Tail(p) \in Seq(X) /\ <<root>> \o Tail(p) = p
    <2>1. p # <<>>
      BY <1>4
    <2>2. Head(p) = root /\ Tail(p) \in Seq(X) /\ Len(Tail(p)) = Len(p) - 1
          /\ \A i \in 1..Len(Tail(p)) : Tail(p)[i] = p[i + 1]
      BY <1>4, <2>1, HeadTailProperties
    <2>3. <<root>> \in Seq(X \cup {root}) /\ Tail(p) \in Seq(X \cup {root}) /\ p \in Seq(X \cup {root})
      BY <1>4, <2>2, SeqMonotonic
    <2>4. /\ <<root>> \o Tail(p) \in Seq(X \cup {root}) /\ Len(<<root>> \o Tail(p)) = Len(p)
          /\ \A i \in 1..Len(p) : (<<root>> \o Tail(p))[i] = p[i]
      BY <1>4, <2>2, <2>3
    <2>. QED
      BY <2>2, <2>3, <2>4, SeqEqual
  <1>6. Absolute(target) = [anchor |-> "@game", steps |-> Tail(p)]
    BY <1>4, <1>5 DEF Absolute, p
  <1> DEFINE require == [anchor |-> "@game", steps |-> Tail(p)]
  <1>7. require.anchor = "@game" /\ require.steps = Tail(p)
    OBVIOUS
  <1>. HIDE DEF require
  <1>8. ResolveStringRequire(from, require) = virtualPath[1] \o Tail(p)
    BY <1>2, <1>7, Zenon DEF ResolveStringRequire, Root
  <1>. QED
    BY <1>3, <1>5, <1>6, <1>8 DEF require, p

LEMMA SelfLeads ==
    ASSUME SourcemapInv, NEW target \in Scripts, NEW from \in Ancestors(tree)[target],
           Unshadowed(target)
    PROVE  ResolveStringRequire(virtualPath[from],
               [anchor |-> "@self", steps |-> NamesDown(from, target)]) = virtualPath[target]
  <1>1. /\ target \in Nodes(tree) /\ from \in Nodes(tree)
    <2>1. target \in Nodes(tree)
      BY DEF Scripts
    <2>2. target \in 1..Len(tree) /\ Ancestors(tree)[target] \subseteq 1..(target - 1)
      BY <2>1, TreeFacts, AncestorsBelow
    <2>. QED
      BY <2>1, <2>2, TreeFacts
  <1>2. virtualPath[target] = virtualPath[from] \o NamesDown(from, target)
    BY <1>1, PathDown
  <1> DEFINE require == [anchor |-> "@self", steps |-> NamesDown(from, target)]
  <1>3. require.anchor = "@self" /\ require.steps = NamesDown(from, target)
    OBVIOUS
  <1>. HIDE DEF require
  <1>4. ResolveStringRequire(virtualPath[from], require) = virtualPath[from] \o NamesDown(from, target)
    BY <1>3, Zenon DEF ResolveStringRequire
  <1>. QED
    BY <1>2, <1>4 DEF require

LEMMA RelativeLeads ==
    ASSUME SourcemapInv, NEW from \in Scripts, NEW target \in Scripts, Unshadowed(target),
           NEW top \in ({target} \cup Ancestors(tree)[target]) \cap Ancestors(tree)[from]
    PROVE  ResolveStringRequire(virtualPath[from], Relative(HopsUp(top, from), NamesDown(top, target)))
               = virtualPath[target]
  <1> DEFINE X == Parts(tree) \cup Name
             p == virtualPath[from]
             q == virtualPath[target]
             r == virtualPath[top]
             names == NamesDown(top, target)
             h == HopsUp(top, from)
             k == Len(r)
  <1>1. from \in Nodes(tree) /\ target \in Nodes(tree) /\ top \in Nodes(tree)
    <2>1. from \in Nodes(tree) /\ target \in Nodes(tree)
      BY DEF Scripts
    <2>2. from \in 1..Len(tree) /\ Ancestors(tree)[from] \subseteq 1..(from - 1)
      BY <2>1, TreeFacts, AncestorsBelow
    <2>. QED
      BY <2>1, <2>2, TreeFacts
  <1>2. /\ p \in Seq(X) /\ q \in Seq(X) /\ r \in Seq(X) /\ r # <<>>
    <2>1. /\ p \in Seq(Parts(tree)) /\ q \in Seq(Parts(tree)) /\ r \in Seq(Parts(tree)) /\ r # <<>>
      BY <1>1, PathFacts
    <2>. QED
      BY <2>1, SeqMonotonic
  <1>3. names \in Seq(Name) /\ names \in Seq(X)
    <2>1. names \in Seq(Name)
      BY <1>1, NamesRec
    <2>. QED
      BY <2>1, SeqMonotonic
  <1>4. h \in Nat /\ Len(p) = k + 1 + h /\ \A i \in 1..k : p[i] = r[i]
    BY <1>1, PathUp
  <1>5. q = r \o names
    BY <1>1, PathDown
  <1>. HIDE DEF X, p, q, r, names, h
  <1>6. /\ k \in Nat \ {0} /\ Len(q) = k + Len(names)
        /\ \A i \in 1..k : p[i] = q[i]
        /\ \A i \in 1..Len(names) : q[k + i] = names[i]
    <2>1. k \in Nat \ {0} /\ Len(names) \in Nat
      BY <1>2, <1>3, EmptySeq, LenProperties
    <2>2. /\ Len(q) = k + Len(names)
          /\ \A i \in 1..(k + Len(names)) : q[i] = IF i <= k THEN r[i] ELSE names[i - k]
      BY <1>2, <1>3, <1>5, ConcatProperties
    <2>3. \A i \in 1..k : i \in 1..(k + Len(names)) /\ i <= k
      BY <2>1
    <2>4. ASSUME NEW i \in 1..Len(names)
          PROVE  q[k + i] = names[i]
      <3>1. k + i \in 1..(k + Len(names)) /\ ~(k + i <= k) /\ (k + i) - k = i
        BY <2>1
      <3>. HIDE DEF k
      <3>. QED
        BY <2>2, <3>1
    <2>. QED
      BY <1>4, <2>1, <2>2, <2>3, <2>4
  <1>. HIDE DEF k
  <1>7. IsWalk(X, p, h, names, q)
    BY <1>2, <1>3, <1>4, <1>6 DEF IsWalk
  <1>8. ResolveStringRequire(p, Relative(h, names)) = q
    BY <1>7, WalkLeads
  <1>. QED
    BY <1>8 DEF p, q, h, names

LEMMA ImportsLead == SourcemapInv /\ NumbersAreFree => ImportsResolve
  <1> SUFFICES ASSUME SourcemapInv, NumbersAreFree,
                      NEW from \in Scripts, NEW target \in Scripts \ {from}, Unshadowed(target)
               PROVE  /\ target \in Visited(virtualPath[from])
                      /\ \A style \in Style :
                          LET require == RequirePath(from, target, style)
                          IN /\ require # NoRequire
                             /\ require.anchor = "@game" => tree[Root].className = "DataModel"
                             => Lookup(virtualPaths, ResolveStringRequire(virtualPath[from], require))
                                    = target
    BY DEF ImportsResolve
  <1>1. /\ from \in Nodes(tree) /\ target \in Nodes(tree) /\ target \in Scripts
        /\ virtualPath[from] \in DOMAIN virtualPaths
        /\ virtualPath[target] \in DOMAIN virtualPaths
        /\ virtualPaths[virtualPath[target]] = target
    BY PathsLeadBack DEF Scripts
  <1>2. target \in Visited(virtualPath[from])
    <2>1. tree # <<>>
      <3>1. DOMAIN <<>> = {}
        OBVIOUS
      <3>. QED
        BY <1>1, <3>1 DEF Nodes
    <2>. QED
      BY <1>1, <2>1 DEF Visited, Range
  <1>3. ASSUME NEW style \in Style,
               RequirePath(from, target, style) # NoRequire,
               RequirePath(from, target, style).anchor = "@game"
                   => tree[Root].className = "DataModel"
        PROVE  ResolveStringRequire(virtualPath[from], RequirePath(from, target, style))
                   = virtualPath[target]
    <2>1. CASE RequirePath(from, target, style) = Absolute(target)
      <3>1. Absolute(target).anchor = "@game"
        BY DEF Absolute
      <3>. QED
        BY <1>1, <1>3, <2>1, <3>1, AbsoluteLeads
    <2>2. CASE /\ from \in Ancestors(tree)[target]
               /\ RequirePath(from, target, style)
                      = [anchor |-> "@self", steps |-> NamesDown(from, target)]
      BY <1>1, <2>2, SelfLeads
    <2>3. CASE \E top \in ({target} \cup Ancestors(tree)[target]) \cap Ancestors(tree)[from] :
                  RequirePath(from, target, style)
                      = Relative(HopsUp(top, from), NamesDown(top, target))
      BY <1>1, <2>3, RelativeLeads
    <2>. QED
      BY <1>1, <1>3, <2>1, <2>2, <2>3, ImportShapes
  <1>. QED
    BY <1>1, <1>2, <1>3 DEF Lookup

LEMMA ImportsUsable == SourcemapInv => ImportsAreUsable
  BY ImportsLead, BoundaryRespected DEF ImportsAreUsable

-----------------------------------------------------------------------------
(* The lookups agree                                                       *)

LEMMA FirstChild ==
    ASSUME SourcemapInv, NEW n, NEW name
    PROVE  LET c == FindChild(tree, n, name)
           IN \/ /\ c \in 2..Len(tree) /\ tree[c].parent = n /\ Segment(tree, c) = name
                 /\ tree[c].name = name
              \/ /\ c = NoNode
                 /\ \A m \in 2..Len(tree) : tree[m].parent = n => tree[m].name # name
  <1> DEFINE named == {c \in Children(tree, n) : tree[c].name = name}
             c == Min(named)
  <1>1. /\ Nodes(tree) = 1..Len(tree) /\ Len(tree) \in Nat
        /\ named = {m \in 2..Len(tree) : tree[m].parent = n /\ tree[m].name = name}
    <2>1. Nodes(tree) = 1..Len(tree) /\ Len(tree) \in Nat
      BY TreeFacts
    <2>. QED
      BY <2>1 DEF Children, Root
  <1>2. CASE named = {}
    <2>1. FindChild(tree, n, name) = NoNode
      BY <1>2 DEF FindChild
    <2>. QED
      BY <1>1, <1>2, <2>1
  <1>3. CASE named # {}
    <2>1. FindChild(tree, n, name) = c
      BY <1>3 DEF FindChild
    <2>2. named \in SUBSET Nat
      BY <1>1
    <2>3. c \in named /\ \A m \in named : c <= m
      <3>. HIDE DEF named
      <3>. QED
        BY <1>3, <2>2, MinOf
    <2>4. c \in 2..Len(tree) /\ tree[c].parent = n /\ tree[c].name = name
      BY <1>1, <2>3
    <2>. HIDE DEF c
    <2>5. {m \in Children(tree, tree[c].parent) : m < c /\ tree[m].name = tree[c].name} = {}
      <3>1. ASSUME NEW m \in Children(tree, n), tree[m].name = name, m < c
            PROVE  FALSE
        <4>1. m \in named /\ m \in Nat /\ c \in Nat
          BY <1>1, <2>4, <3>1
        <4>. QED
          BY <2>3, <3>1, <4>1
      <3>. QED
        BY <2>4, <3>1
    <2>6. Segment(tree, c) = name
      BY <2>4, <2>5, Zenon DEF Segment
    <2>. QED
      BY <2>1, <2>4, <2>6
  <1>. QED
    BY <1>2, <1>3

LEMMA ChildFound ==
    ASSUME SourcemapInv, NumbersAreFree, NEW X, NEW path \in Seq(X), path # <<>>,
           NEW name \in Name,
           \A c \in 2..Len(tree) : virtualPath[tree[c].parent] = path /\ Segment(tree, c) = name
                                   => tree[c].name = name
    PROVE  Lookup(virtualPaths, Append(path, name))
               = IF path \in DOMAIN virtualPaths
                 THEN FindChild(tree, virtualPaths[path], name) ELSE NoNode
  <1> DEFINE S == X \cup Parts(tree) \cup Name
             longer == Append(path, name)
  <1>1. /\ Nodes(tree) = 1..Len(tree) /\ Len(tree) \in Nat
        /\ \A p \in DOMAIN virtualPaths :
               virtualPaths[p] \in Nodes(tree) /\ virtualPath[virtualPaths[p]] = p
    BY TreeFacts
  <1>2. path \in Seq(S) /\ name \in S /\ longer \in Seq(S)
    BY SeqMonotonic, AppendProperties
  <1>3. ASSUME longer \in DOMAIN virtualPaths
        PROVE  /\ virtualPaths[longer] \in 2..Len(tree)
               /\ virtualPath[tree[virtualPaths[longer]].parent] = path
               /\ path \in DOMAIN virtualPaths
               /\ tree[virtualPaths[longer]].parent = virtualPaths[path]
               /\ tree[virtualPaths[longer]].name = name
    <2> DEFINE m == virtualPaths[longer]
    <2>1. m \in 1..Len(tree) /\ virtualPath[m] = longer
      BY <1>1, <1>3
    <2>2. m # 1
      <3>1. SUFFICES ASSUME m = 1 PROVE FALSE
        OBVIOUS
      <3>2. longer = <<RootPath(tree)>>
        BY <1>1, <2>1, <3>1, PathFacts
      <3>3. Len(longer) = Len(path) + 1 /\ Len(path) # 0
        BY <1>2, AppendProperties, EmptySeq
      <3>4. Len(<<RootPath(tree)>>) = 1
        OBVIOUS
      <3>. HIDE DEF longer, m
      <3>. QED
        BY <1>2, <3>2, <3>3, <3>4, LenProperties
    <2>3. m \in 2..Len(tree)
      BY <1>1, <2>1, <2>2
    <2> DEFINE up == tree[m].parent
               seg == Segment(tree, m)
    <2>4. /\ up \in Nodes(tree) /\ seg \in Parts(tree)
          /\ longer = Append(virtualPath[up], seg)
          /\ virtualPath[up] \in Seq(Parts(tree))
      BY <2>1, <2>3, PathFacts
    <2>5. virtualPath[up] \in Seq(S) /\ seg \in S
      BY <2>4, SeqMonotonic
    <2>. HIDE DEF S, up, seg
    <2>6. virtualPath[up] = path /\ seg = name
      BY <1>2, <2>4, <2>5, AppendEqual
    <2>7. path \in DOMAIN virtualPaths /\ virtualPaths[path] = up
      BY <2>4, <2>6, PathsLeadBack
    <2>8. tree[m].name = name
      BY <2>3, <2>6 DEF up, seg
    <2>. QED
      BY <2>3, <2>6, <2>7, <2>8 DEF up
  <1>. HIDE DEF longer, S
  <1>4. CASE path \notin DOMAIN virtualPaths
    BY <1>3, <1>4 DEF Lookup, longer
  <1>5. CASE path \in DOMAIN virtualPaths
    <2> DEFINE n == virtualPaths[path]
               c == FindChild(tree, n, name)
    <2>1. n \in Nodes(tree) /\ virtualPath[n] = path
      BY <1>1, <1>5
    <2>. HIDE DEF n, c
    <2>2. CASE c = NoNode
      <3>1. \A m \in 2..Len(tree) : tree[m].parent = n => tree[m].name # name
        BY <2>2, FirstChild DEF c, NoNode
      <3>2. longer \notin DOMAIN virtualPaths
        BY <1>3, <3>1 DEF n
      <3>. QED
        BY <1>5, <2>2, <3>2 DEF Lookup, longer, n, c
    <2>3. CASE c # NoNode
      <3>1. c \in 2..Len(tree) /\ tree[c].parent = n /\ Segment(tree, c) = name
        BY <2>3, FirstChild DEF c
      <3>2. virtualPath[c] = longer /\ c \in Nodes(tree)
        BY <2>1, <3>1, PathFacts DEF longer
      <3>3. longer \in DOMAIN virtualPaths /\ virtualPaths[longer] = c
        BY <3>2, PathsLeadBack
      <3>. QED
        BY <1>5, <3>3 DEF Lookup, longer, n, c
    <2>. QED
      BY <2>2, <2>3
  <1>. QED
    BY <1>4, <1>5

LEMMA ChildrenFound == SourcemapInv /\ NumbersAreFree => ChildrenAgree
  <1> SUFFICES ASSUME SourcemapInv, NumbersAreFree,
                      NEW n \in Nodes(tree), NEW name \in Name, NEW recursive \in BOOLEAN,
                      ResolveChild(virtualPath[n], name, recursive) # Unresolved,
                      virtualPath[n] \notin DOMAIN PlayerPaths,
                      \A c \in Children(tree, n) : Segment(tree, c) = name => tree[c].name = name
               PROVE  Lookup(virtualPaths, ResolveChild(virtualPath[n], name, recursive))
                          = MagicChildLookup(n, name, recursive)
    BY DEF ChildrenAgree
  <1>1. recursive = FALSE
    BY DEF ResolveChild
  <1>2. /\ ResolveChild(virtualPath[n], name, recursive) = Append(virtualPath[n], name)
        /\ MagicChildLookup(n, name, recursive) = FindChild(tree, n, name)
    BY <1>1 DEF ResolveChild, MapContext, MagicChildLookup
  <1>3. /\ virtualPath[n] \in Seq(Parts(tree)) /\ virtualPath[n] # <<>>
        /\ virtualPath[n] \in DOMAIN virtualPaths /\ virtualPaths[virtualPath[n]] = n
    BY PathFacts, PathsLeadBack
  <1>4. ASSUME NEW c \in 2..Len(tree), virtualPath[tree[c].parent] = virtualPath[n],
               Segment(tree, c) = name
        PROVE  tree[c].name = name
    <2>1. tree[c].parent \in Nodes(tree) /\ c \in Nodes(tree)
      BY PathFacts
    <2>2. tree[c].parent = n
      BY <1>3, <1>4, <2>1, PathsLeadBack
    <2>3. c \in Children(tree, n)
      BY <2>1, <2>2 DEF Children, Root
    <2>. QED
      BY <1>4, <2>3
  <1>. QED
    BY <1>2, <1>3, <1>4, ChildFound

\* Up to the last x in a path, which may have none.
UpTo(p, x) ==
    LET places == {i \in DOMAIN p : p[i] = x}
    IN IF places = {} THEN <<>> ELSE SubSeq(p, 1, Max(places))

LEMMA UpToLast ==
    ASSUME NEW X, NEW p \in Seq(X), NEW s \in X, NEW x
    PROVE  UpTo(Append(p, s), x) = IF s = x THEN Append(p, s) ELSE UpTo(p, x)
  <1> DEFINE q == Append(p, s)
             places(r) == {i \in DOMAIN r : r[i] = x}
             n == Len(p)
  <1>1. /\ n \in Nat /\ q \in Seq(X) /\ Len(q) = n + 1 /\ q[n + 1] = s
        /\ \A i \in 1..n : q[i] = p[i]
        /\ DOMAIN p = 1..n /\ DOMAIN q = 1..(n + 1)
    BY AppendProperties, LenProperties
  <1>. HIDE DEF q, n
  <1>2. CASE s = x
    <2>1. n + 1 \in places(q) /\ places(q) \in SUBSET Nat /\ \A i \in places(q) : i <= n + 1
      BY <1>1, <1>2
    <2>. HIDE DEF places
    <2>2. Max(places(q)) \in places(q) /\ n + 1 <= Max(places(q))
      BY <1>1, <2>1, MaxOf
    <2>3. Max(places(q)) = n + 1
      BY <1>1, <2>1, <2>2
    <2>4. SubSeq(q, 1, n + 1) = q
      BY <1>1, SubSeqFull
    <2>5. UpTo(q, x) = SubSeq(q, 1, Max(places(q)))
      BY <2>1, Zenon DEF UpTo, places
    <2>. QED
      BY <1>2, <2>3, <2>4, <2>5 DEF q
  <1>3. CASE s # x
    <2>1. places(q) = places(p)
      BY <1>1, <1>3
    <2>2. CASE places(p) = {}
      <3>1. UpTo(q, x) = <<>> /\ UpTo(p, x) = <<>>
        BY <2>1, <2>2, Zenon DEF UpTo
      <3>. QED
        BY <1>3, <3>1 DEF q
    <2>3. CASE places(p) # {}
      <3> DEFINE k == Max(places(p))
      <3>1. k \in 1..n
        <4>1. places(p) \in SUBSET Nat /\ places(p) \subseteq 1..n /\ \A i \in places(p) : i <= n
          BY <1>1
        <4>. HIDE DEF places
        <4>. QED
          BY <1>1, <2>3, <4>1, MaxOf
      <3>2. UpTo(q, x) = SubSeq(q, 1, k) /\ UpTo(p, x) = SubSeq(p, 1, k)
        <4>1. UpTo(q, x) = SubSeq(q, 1, Max(places(q))) /\ UpTo(p, x) = SubSeq(p, 1, Max(places(p)))
          BY <2>1, <2>3, Zenon DEF UpTo
        <4>. QED
          BY <2>1, <4>1
      <3>. HIDE DEF k
      <3>3. SubSeq(q, 1, k) = SubSeq(p, 1, k)
        <4>1. k \in 0..Len(p) /\ k \in 0..Len(q)
          BY <1>1, <3>1 DEF n
        <4>2. /\ Prefix(p, k) \in Seq(X) /\ Len(Prefix(p, k)) = k
              /\ \A i \in 1..k : Prefix(p, k)[i] = p[i]
          BY <4>1, PrefixFacts
        <4>3. /\ Prefix(q, k) \in Seq(X) /\ Len(Prefix(q, k)) = k
              /\ \A i \in 1..k : Prefix(q, k)[i] = q[i]
          BY <1>1, <4>1, PrefixFacts
        <4>4. \A i \in 1..k : i \in 1..n
          BY <1>1, <3>1
        <4>5. \A i \in 1..k : Prefix(q, k)[i] = Prefix(p, k)[i]
          BY <1>1, <4>2, <4>3, <4>4
        <4>6. Prefix(q, k) = Prefix(p, k)
          BY <4>2, <4>3, <4>5, SeqEqual
        <4>. QED
          BY <4>6 DEF Prefix
      <3>. QED
        BY <1>3, <3>2, <3>3 DEF q
    <2>. QED
      BY <2>2, <2>3
  <1>. QED
    BY <1>2, <1>3

\* The closest ancestor of a name is the parent or the parent's closest one.
LEMMA ClosestAncestor ==
    ASSUME SourcemapInv, NEW n \in 2..Len(tree), NEW name
    PROVE  FindAncestor(tree, n, name)
               = IF tree[tree[n].parent].name = name THEN tree[n].parent
                 ELSE FindAncestor(tree, tree[n].parent, name)
  <1> DEFINE up == tree[n].parent
             named(m) == {a \in Ancestors(tree)[m] : tree[a].name = name}
  <1>1. /\ IsTree(tree) /\ Nodes(tree) = 1..Len(tree) /\ Len(tree) \in Nat
        /\ up \in Nodes(tree)
        /\ Ancestors(tree)[n] = {up} \cup Ancestors(tree)[up]
    BY TreeFacts, PathFacts
  <1>2. up \in Nat /\ Ancestors(tree)[up] \subseteq 1..(up - 1)
    BY <1>1, AncestorsBelow
  <1>3. \A m : FindAncestor(tree, m, name) = IF named(m) = {} THEN NoNode ELSE Max(named(m))
    BY DEF FindAncestor
  <1>4. CASE tree[up].name = name
    <2>1. up \in named(n) /\ named(n) \in SUBSET Nat /\ \A a \in named(n) : a <= up
      BY <1>1, <1>2, <1>4
    <2>. HIDE DEF named
    <2>2. Max(named(n)) \in named(n) /\ up <= Max(named(n))
      BY <1>2, <2>1, MaxOf
    <2>3. Max(named(n)) = up
      BY <1>2, <2>1, <2>2
    <2>. QED
      BY <1>3, <1>4, <2>1, <2>3
  <1>5. CASE tree[up].name # name
    <2>1. named(n) = named(up)
      BY <1>1, <1>5
    <2>. HIDE DEF named
    <2>. QED
      BY <1>3, <1>5, <2>1
  <1>. QED
    BY <1>4, <1>5

LEMMA ParentOfLonger ==
    ASSUME NEW X, NEW p \in Seq(X), NEW s \in X
    PROVE  ParentPath(Append(p, s)) = p
  <1> DEFINE q == Append(p, s)
             n == Len(p)
  <1>1. /\ n \in Nat /\ q \in Seq(X) /\ Len(q) = n + 1
        /\ \A i \in 1..n : q[i] = p[i]
    BY AppendProperties, LenProperties
  <1>. HIDE DEF q
  <1>2. n \in 0..Len(q)
    BY <1>1
  <1>3. Prefix(q, n) \in Seq(X) /\ Len(Prefix(q, n)) = n /\ \A i \in 1..n : Prefix(q, n)[i] = q[i]
    BY <1>1, <1>2, PrefixFacts
  <1>4. Prefix(q, n) = p
    BY <1>1, <1>3, SeqEqual
  <1>5. Len(q) - 1 = n
    BY <1>1
  <1>. QED
    BY <1>4, <1>5 DEF ParentPath, Prefix, q

LEMMA PathsStartAtRoot ==
    ASSUME SourcemapInv, NEW n \in Nodes(tree)
    PROVE  virtualPath[n][1] = RootPath(tree)
  <1> DEFINE P == {m \in Nodes(tree) : virtualPath[m][1] = RootPath(tree)}
  <1>1. 1 \in Nodes(tree) => 1 \in P
    BY PathFacts
  <1>2. ASSUME NEW m \in 2..Len(tree), tree[m].parent \in P
        PROVE  m \in P
    <2> DEFINE p == virtualPath[tree[m].parent]
               s == Segment(tree, m)
    <2>1. /\ m \in Nodes(tree) /\ virtualPath[m] = Append(p, s)
          /\ p \in Seq(Parts(tree)) /\ p # <<>> /\ s \in Parts(tree)
          /\ p[1] = RootPath(tree)
      BY <1>2, PathFacts
    <2>. HIDE DEF p, s
    <2>2. Append(p, s)[1] = p[1]
      <3>1. 1 \in 1..Len(p)
        BY <2>1, EmptySeq, LenProperties
      <3>. QED
        BY <2>1, <3>1, AppendProperties
    <2>. QED
      BY <2>1, <2>2
  <1>. HIDE DEF P
  <1>3. Nodes(tree) \subseteq P
    BY <1>1, <1>2, TreeFacts, TreeInduction
  <1>. QED
    BY <1>3 DEF P

\* Of a node with unshadowed ancestors, what leads to the closest one of a name.
LEMMA AncestorPaths ==
    ASSUME SourcemapInv, NEW n \in 2..Len(tree), NEW name, name # RootPath(tree),
           \A a \in Ancestors(tree)[n] : Unshadowed(a)
    PROVE  LET a == FindAncestor(tree, n, name)
           IN \/ a \in 2..Len(tree) /\ UpTo(ParentPath(virtualPath[n]), name) = virtualPath[a]
              \/ /\ UpTo(ParentPath(virtualPath[n]), name) = <<>>
                 /\ a = IF tree[1].name = name THEN 1 ELSE NoNode
  <1> DEFINE found(m) == FindAncestor(tree, m, name)
             part(m) == UpTo(ParentPath(virtualPath[m]), name)
             Q(m) == \/ found(m) \in 2..Len(tree) /\ part(m) = virtualPath[found(m)]
                     \/ /\ part(m) = <<>>
                        /\ found(m) = IF tree[1].name = name THEN 1 ELSE NoNode
             P == {m \in Nodes(tree) :
                     m # 1 /\ (\A a \in Ancestors(tree)[m] : Unshadowed(a)) => Q(m)}
  <1>1. ASSUME NEW m \in 2..Len(tree), tree[m].parent \in P,
               \A a \in Ancestors(tree)[m] : Unshadowed(a)
        PROVE  Q(m)
    <2> DEFINE up == tree[m].parent
               p == virtualPath[up]
    <2>1. /\ m \in Nodes(tree) /\ up \in Nodes(tree) /\ Nodes(tree) = 1..Len(tree)
          /\ p \in Seq(Parts(tree)) /\ Segment(tree, m) \in Parts(tree)
          /\ virtualPath[m] = Append(p, Segment(tree, m))
          /\ Ancestors(tree)[m] = {up} \cup Ancestors(tree)[up]
          /\ 1 \in Nodes(tree)
      BY PathFacts, TreeFacts
    <2>2. part(m) = UpTo(p, name)
      BY <2>1, ParentOfLonger
    <2>3. found(m) = IF tree[up].name = name THEN up ELSE found(up)
      BY ClosestAncestor
    <2>4. CASE up = 1
      <3>1. p = <<RootPath(tree)>>
        BY <2>1, <2>4, PathFacts
      <3>2. part(m) = <<>>
        <4>1. DOMAIN p = {1} /\ p[1] = RootPath(tree)
          BY <3>1
        <4>2. {i \in DOMAIN p : p[i] = name} = {}
          BY <4>1
        <4>. QED
          BY <2>2, <4>2, Zenon DEF UpTo
      <3>3. found(1) = NoNode
        BY <2>1, PathFacts DEF FindAncestor
      <3>. QED
        BY <2>3, <2>4, <3>2, <3>3
    <2>5. CASE up # 1
      <3> DEFINE o == virtualPath[tree[up].parent]
                 s == tree[up].name
      <3>1. /\ up \in 2..Len(tree)
            /\ o \in Seq(Parts(tree)) /\ Segment(tree, up) \in Parts(tree)
            /\ p = Append(o, Segment(tree, up))
        <4>1. up \in 2..Len(tree)
          BY <2>1, <2>5, TreeFacts
        <4>. QED
          BY <4>1, PathFacts
      <3>2. Segment(tree, up) = s
        <4>1. Unshadowed(up)
          BY <1>1, <2>1
        <4>. QED
          BY <2>5, <4>1 DEF Unshadowed, Root
      <3>3. part(m) = IF s = name THEN p ELSE UpTo(o, name)
        <4>. HIDE DEF o, s
        <4>1. o \in Seq(Parts(tree)) /\ s \in Parts(tree) /\ p = Append(o, s)
          BY <3>1, <3>2
        <4>2. UpTo(Append(o, s), name) = IF s = name THEN Append(o, s) ELSE UpTo(o, name)
          BY <4>1, UpToLast
        <4>. HIDE DEF p
        <4>. QED
          BY <2>2, <4>1, <4>2
      <3>4. part(up) = UpTo(o, name)
        <4>1. ParentPath(Append(o, Segment(tree, up))) = o
          BY <3>1, ParentOfLonger, Zenon
        <4>2. ParentPath(virtualPath[up]) = o
          BY <3>1, <4>1
        <4>. QED
          BY <4>2
      <3>5. Q(up)
        BY <1>1, <2>1, <2>5
      <3>6. CASE s = name
        <4>1. found(m) = up /\ part(m) = p
          BY <2>3, <3>3, <3>6
        <4>. HIDE DEF found, part
        <4>. QED
          BY <3>1, <4>1
      <3>7. CASE s # name
        <4>1. found(m) = found(up) /\ part(m) = part(up)
          BY <2>3, <3>3, <3>4, <3>7
        <4>. HIDE DEF found, part
        <4>. QED
          BY <3>5, <4>1
      <3>. QED
        BY <3>6, <3>7
    <2>. QED
      BY <2>4, <2>5
  <1>. HIDE DEF Q
  <1>2. 1 \in Nodes(tree) => 1 \in P
    OBVIOUS
  <1>3. ASSUME NEW m \in 2..Len(tree), tree[m].parent \in P
        PROVE  m \in P
    <2>1. m \in Nodes(tree)
      BY PathFacts
    <2>. QED
      BY <1>1, <1>3, <2>1
  <1>4. Nodes(tree) \subseteq P
    <2>. HIDE DEF P
    <2>. QED
      BY <1>2, <1>3, TreeFacts, TreeInduction
  <1>5. Q(n)
    <2>1. n \in Nodes(tree) /\ n # 1
      BY PathFacts
    <2>. QED
      BY <1>4, <2>1
  <1>. QED
    BY <1>5 DEF Q

LEMMA AncestorsFound == SourcemapInv /\ NumbersAreFree => AncestorsAgree
  <1> SUFFICES ASSUME SourcemapInv, NumbersAreFree, NEW n \in Nodes(tree) \ {Root},
                      NEW name \in (Name \cup {tree[Root].name}) \ {RootPath(tree)},
                      tree[Root].className = "DataModel" => name # tree[Root].name,
                      \A a \in Ancestors(tree)[n] : Unshadowed(a)
               PROVE  Lookup(virtualPaths, AncestorPath(virtualPath[n], name))
                          = MagicFindFirstAncestor(n, name)
    BY DEF AncestorsAgree
  <1> DEFINE p == ParentPath(virtualPath[n])
             places == {i \in DOMAIN p : p[i] = name}
             a == FindAncestor(tree, n, name)
  <1>1. n \in 2..Len(tree) /\ Nodes(tree) = 1..Len(tree) /\ Len(tree) \in Nat /\ 1 \in Nodes(tree)
    BY TreeFacts DEF Root
  <1>2. p = virtualPath[tree[n].parent] /\ tree[n].parent \in Nodes(tree)
    <2>1. /\ virtualPath[tree[n].parent] \in Seq(Parts(tree)) /\ Segment(tree, n) \in Parts(tree)
          /\ virtualPath[n] = Append(virtualPath[tree[n].parent], Segment(tree, n))
          /\ tree[n].parent \in Nodes(tree)
      BY <1>1, PathFacts
    <2>. QED
      BY <2>1, ParentOfLonger
  <1>3. p \in Seq(Parts(tree)) /\ p # <<>> /\ p[1] = RootPath(tree) /\ Head(p) = p[1]
    <2>1. p \in Seq(Parts(tree)) /\ p # <<>> /\ p[1] = RootPath(tree)
      BY <1>2, PathFacts, PathsStartAtRoot
    <2>. HIDE DEF p
    <2>. QED
      BY <2>1, HeadTailProperties
  <1>4. \/ a \in 2..Len(tree) /\ UpTo(p, name) = virtualPath[a]
        \/ /\ UpTo(p, name) = <<>>
           /\ a = IF tree[1].name = name THEN 1 ELSE NoNode
    BY <1>1, AncestorPaths
  <1>5. MagicFindFirstAncestor(n, name) = a
    BY DEF MagicFindFirstAncestor
  <1>. HIDE DEF p, a
  <1>6. /\ UpTo(p, name) = IF places = {} THEN <<>> ELSE SubSeq(p, 1, Max(places))
        /\ places # {} => UpTo(p, name) # <<>>
    <2>1. UpTo(p, name) = IF places = {} THEN <<>> ELSE SubSeq(p, 1, Max(places))
      BY Zenon DEF UpTo
    <2>2. ASSUME places # {}
          PROVE  SubSeq(p, 1, Max(places)) # <<>>
      <3> DEFINE k == Max(places)
      <3>1. k \in 1..Len(p)
        <4>1. Len(p) \in Nat /\ places \in SUBSET Nat /\ places \subseteq 1..Len(p)
              /\ \A i \in places : i <= Len(p)
          BY <1>3, LenProperties
        <4>. HIDE DEF places
        <4>. QED
          BY <2>2, <4>1, MaxOf
      <3>. HIDE DEF k
      <3>2. k \in 0..Len(p) /\ Len(p) \in Nat
        BY <1>3, <3>1, LenProperties
      <3>3. Prefix(p, k) \in Seq(Parts(tree)) /\ Len(Prefix(p, k)) = k
        BY <1>3, <3>2, PrefixFacts
      <3>4. Prefix(p, k) # <<>>
        BY <3>1, <3>3, <1>3, EmptySeq
      <3>. QED
        BY <3>4 DEF Prefix, k
    <2>. HIDE DEF places
    <2>. QED
      BY <2>1, <2>2
  <1> DEFINE path == AncestorPath(virtualPath[n], name)
  <1>7. path = IF places # {} THEN SubSeq(p, 1, Max(places))
               ELSE IF /\ tree # <<>> /\ tree[Root].name = name
                       /\ p # <<>> => Head(p) # <<"game">>
                    THEN <<<<"ProjectRoot">>>>
               ELSE Unresolved
    BY Zenon DEF AncestorPath, p
  <1>. HIDE DEF path, places
  <1>8. tree # <<>>
    <2>1. Nodes(<<>>) = {}
      BY DEF Nodes
    <2>. QED
      BY <1>1, <2>1
  <1>9. CASE a \in 2..Len(tree) /\ UpTo(p, name) = virtualPath[a]
    <2>1. a \in Nodes(tree) /\ virtualPath[a] # <<>>
      BY <1>1, <1>9, PathFacts
    <2>2. path = virtualPath[a]
      BY <1>6, <1>7, <1>9, <2>1
    <2>. QED
      BY <1>5, <2>1, <2>2, PathsLeadBack DEF Lookup, path
  <1>10. CASE /\ UpTo(p, name) = <<>>
              /\ a = IF tree[1].name = name THEN 1 ELSE NoNode
    <2>1. places = {}
      BY <1>6, <1>10
    <2>2. CASE tree[1].name = name
      <3>1. tree[1].className # "DataModel"
        BY <2>2 DEF Root
      <3>2. RootPath(tree) = <<"ProjectRoot">>
        BY <3>1 DEF RootPath, Root
      <3>3. Head(p) # <<"game">>
        <4>1. <<"ProjectRoot">> # <<"game">>
          OBVIOUS
        <4>. QED
          BY <1>3, <3>2, <4>1
      <3>4. path = <<RootPath(tree)>>
        BY <1>7, <1>8, <2>1, <2>2, <3>2, <3>3 DEF Root
      <3>5. virtualPath[1] = path
        BY <1>1, <3>4, PathFacts
      <3>. QED
        BY <1>1, <1>5, <1>10, <2>2, <3>5, PathsLeadBack DEF Lookup, path
    <2>3. CASE tree[1].name # name
      <3>1. path = <<>>
        BY <1>7, <2>1, <2>3 DEF Unresolved, Root
      <3>2. path \notin DOMAIN virtualPaths
        BY <3>1, TreeFacts, PathFacts
      <3>. QED
        BY <1>5, <1>10, <2>3, <3>2 DEF Lookup, path
    <2>. QED
      BY <2>2, <2>3
  <1>. QED
    BY <1>4, <1>9, <1>10

\* One step of walkPath.
StepFrom(n, s) ==
    IF n = NoNode THEN NoNode
    ELSE IF s = Up THEN tree[n].parent
    ELSE FindChild(tree, n, s)

LEMMA StepStays ==
    ASSUME SourcemapInv, NEW n \in Nodes(tree) \cup {NoNode}, NEW s
    PROVE  StepFrom(n, s) \in Nodes(tree) \cup {NoNode}
  <1>1. IsTree(tree) /\ Nodes(tree) = 1..Len(tree) /\ Len(tree) \in Nat
    BY TreeFacts
  <1>2. FindChild(tree, n, s) \in Nodes(tree) \cup {NoNode}
    BY <1>1, FirstChild
  <1>3. n \in Nodes(tree) => tree[n].parent \in Nodes(tree) \cup {NoNode}
    BY <1>1, PathFacts DEF IsTree, Nodes
  <1>. QED
    BY <1>2, <1>3 DEF StepFrom

\* Where the steps lead from "top", one after the other.
IsWay(f, top, steps) ==
    /\ f \in [0..Len(steps) -> Nodes(tree) \cup {NoNode}]
    /\ f[0] = top
    /\ \A i \in 1..Len(steps) : f[i] = StepFrom(f[i - 1], steps[i])
    /\ WalkPath(tree, top, steps) = f[Len(steps)]

LEMMA WalkRec ==
    ASSUME SourcemapInv, NEW top \in Nodes(tree) \cup {NoNode}, NEW steps, Len(steps) \in Nat
    PROVE  \E f : IsWay(f, top, steps)
  <1>0. PICK n \in Nat : n = Len(steps)
    OBVIOUS
  <1> DEFINE V == Nodes(tree) \cup {NoNode}
             step == [p \in (1..n) \X V |-> StepFrom(p[2], steps[p[1]])]
             At(f) == [i \in 0..n |->
                          IF i = 0 THEN top ELSE StepFrom(f[i - 1], steps[i])]
  <1>1. /\ step \in [(1..n) \X V -> V]
        /\ \A i \in 1..n, v \in V : step[<<i, v>>] = StepFrom(v, steps[i])
    <2>1. \A x : \A v \in V : StepFrom(v, x) \in V
      BY StepStays
    <2>2. \A p \in (1..n) \X V : p[2] \in V
      OBVIOUS
    <2>. HIDE DEF V
    <2>. QED
      BY <2>1, <2>2
  <1>. HIDE DEF step, V
  <1>2. top \in V
    BY DEF V
  <1>3. PICK f \in [0..n -> V] : FollowsStep(f, n, top, step)
    <2>1. step \in [(1..n) \X V -> V]
      BY <1>1
    <2>. QED
      BY <1>2, <2>1, StepRecursion
  <1>4. \A i \in 1..n : f[i] = StepFrom(f[i - 1], steps[i])
    <2>1. ASSUME NEW i \in 1..n
          PROVE  f[i - 1] \in V
      <3>1. i - 1 \in 0..n
        BY <1>0
      <3>. QED
        BY <1>3, <3>1
    <2>. QED
      BY <1>1, <1>3, <2>1 DEF FollowsStep
  <1>5. f = At(f) /\ f[0] = top
    BY <1>3, <1>4 DEF FollowsStep
  <1> DEFINE F == CHOOSE g : g = At(g)
  <1>6. F = At(F)
    <2>. HIDE DEF At
    <2>. QED
      BY <1>5
  <1>7. WalkPath(tree, top, steps) = F[Len(steps)]
    BY <1>0, Zenon DEF WalkPath, StepFrom
  <1>. HIDE DEF F
  <1>8. F[0] = top /\ \A i \in 1..n : F[i] = StepFrom(F[i - 1], steps[i])
    <2>1. \A i \in 0..n : F[i] = IF i = 0 THEN top ELSE StepFrom(F[i - 1], steps[i])
      BY <1>6
    <2>2. 0 \in 0..n /\ \A i \in 1..n : i \in 0..n /\ i # 0
      BY <1>0
    <2>. HIDE DEF At
    <2>. QED
      BY <2>1, <2>2
  <1>9. 0..n \subseteq {i \in 0..n : F[i] = f[i]}
    <2> DEFINE P == {i \in 0..n : F[i] = f[i]}
    <2>1. ASSUME NEW i \in 0..n, \A j \in 0..n : j < i => j \in P
          PROVE  i \in P
      <3>1. CASE i = 0
        BY <3>1, <1>5, <1>8
      <3>2. CASE i # 0
        <4>1. i \in 1..n /\ i - 1 \in 0..n /\ i - 1 < i
          BY <1>0, <3>2
        <4>. QED
          BY <2>1, <4>1, <1>4, <1>8
      <3>. QED
        BY <3>1, <3>2
    <2>2. 0..n \in SUBSET Nat
      OBVIOUS
    <2>. HIDE DEF P
    <2>3. 0..n \subseteq P
      BY <2>1, <2>2, StrongInduction
    <2>. QED
      BY <2>3 DEF P
  <1>10. F[n] = f[n]
    BY <1>0, <1>9
  <1>. QED
    BY <1>0, <1>3, <1>4, <1>5, <1>7, <1>10 DEF V, IsWay

\* The paths that end in a few steps up.
LEMMA WalkUp ==
    ASSUME SourcemapInv, NEW top \in Nodes(tree) \cup {NoNode}
    PROVE  /\ WalkPath(tree, top, <<>>) = top
           /\ WalkPath(tree, top, <<Up>>) = StepFrom(top, Up)
           /\ WalkPath(tree, top, <<Up, Up>>) = StepFrom(StepFrom(top, Up), Up)
  <1>1. WalkPath(tree, top, <<>>) = top
    <2> DEFINE s == <<>>
    <2>1. Len(s) = 0
      OBVIOUS
    <2>. HIDE DEF s
    <2>2. PICK f : IsWay(f, top, s)
      BY <2>1, WalkRec
    <2>. QED
      BY <2>1, <2>2 DEF IsWay, s
  <1>2. WalkPath(tree, top, <<Up>>) = StepFrom(top, Up)
    <2> DEFINE s == <<Up>>
    <2>1. Len(s) = 1 /\ s[1] = Up
      OBVIOUS
    <2>. HIDE DEF s
    <2>2. PICK f : IsWay(f, top, s)
      BY <2>1, WalkRec
    <2>3. f[1] = StepFrom(f[0], s[1])
      <3>1. 1 \in 1..1 /\ 1 - 1 = 0
        OBVIOUS
      <3>. QED
        BY <2>1, <2>2, <3>1 DEF IsWay
    <2>. QED
      BY <2>1, <2>2, <2>3 DEF IsWay, s
  <1>3. WalkPath(tree, top, <<Up, Up>>) = StepFrom(StepFrom(top, Up), Up)
    <2> DEFINE s == <<Up, Up>>
    <2>1. Len(s) = 2 /\ s[1] = Up /\ s[2] = Up
      OBVIOUS
    <2>. HIDE DEF s
    <2>2. PICK f : IsWay(f, top, s)
      BY <2>1, WalkRec
    <2>3. f[1] = StepFrom(f[0], s[1]) /\ f[2] = StepFrom(f[1], s[2])
      <3>1. 1 \in 1..2 /\ 1 - 1 = 0 /\ 2 \in 1..2 /\ 2 - 1 = 1
        OBVIOUS
      <3>. QED
        BY <2>1, <2>2, <3>1 DEF IsWay
    <2>. QED
      BY <2>1, <2>2, <2>3 DEF IsWay, s
  <1>. QED
    BY <1>1, <1>2, <1>3

\* From the parent of "from", h steps up lead to n, and further to its child c.
LEMMA SiblingLeads ==
    ASSUME SourcemapInv, NumbersAreFree, NEW from \in 2..Len(tree),
           NEW n \in Ancestors(tree)[from],
           NEW h \in Nat, Len(virtualPath[from]) = Len(virtualPath[n]) + 1 + h,
           NEW c \in 2..Len(tree), tree[c].parent = n, Segment(tree, c) = tree[c].name
    PROVE  Lookup(virtualPaths,
               ResolveStringRequire(virtualPath[from], Relative(h, <<tree[c].name>>))) = c
  <1> DEFINE X == Parts(tree) \cup Name
             p == virtualPath[from]
             q == virtualPath[c]
             r == virtualPath[n]
             name == tree[c].name
             names == <<name>>
             k == Len(r)
  <1>1. /\ from \in Nodes(tree) /\ c \in Nodes(tree) /\ n \in Nodes(tree)
        /\ p \in Seq(X) /\ q \in Seq(X) /\ r \in Seq(X) /\ r # <<>>
        /\ name \in Name /\ q = Append(r, name)
    <2>1. /\ from \in Nodes(tree) /\ c \in Nodes(tree) /\ n \in Nodes(tree)
          /\ name \in Name /\ q = Append(r, name)
      BY PathFacts
    <2>2. /\ p \in Seq(Parts(tree)) /\ q \in Seq(Parts(tree)) /\ r \in Seq(Parts(tree)) /\ r # <<>>
      BY <2>1, PathFacts
    <2>. QED
      BY <2>1, <2>2, SeqMonotonic
  <1>2. names \in Seq(Name) /\ Len(names) = 1 /\ names[1] = name
    BY <1>1
  <1>3. /\ Len(p) = k + 1 + HopsUp(n, from) /\ \A i \in 1..k : p[i] = r[i]
    BY <1>1, PathUp
  <1>4. k \in Nat \ {0} /\ Len(q) = k + 1 /\ q[k + 1] = name /\ \A i \in 1..k : q[i] = r[i]
    <2>. HIDE DEF p, q, r, name, X
    <2>. QED
      BY <1>1, AppendProperties, EmptySeq, LenProperties
  <1>5. IsWalk(X, p, h, names, q)
    <2>1. /\ Len(p) = k + 1 + h /\ Len(q) = k + Len(names)
          /\ \A i \in 1..k : p[i] = q[i]
      BY <1>2, <1>3, <1>4
    <2>2. \A i \in 1..Len(names) : q[k + i] = names[i]
      <3>1. \A i \in 1..Len(names) : i = 1
        BY <1>2
      <3>. QED
        BY <1>2, <1>4, <3>1
    <2>. HIDE DEF p, q, r, names, X, k
    <2>. QED
      BY <1>1, <1>2, <1>4, <2>1, <2>2 DEF IsWalk
  <1>6. ResolveStringRequire(p, Relative(h, names)) = q
    <2>. HIDE DEF p, q, r, names, X
    <2>. QED
      BY <1>5, WalkLeads
  <1>. QED
    BY <1>1, <1>6, PathsLeadBack DEF Lookup

LEMMA AncestorsAbove ==
    ASSUME SourcemapInv, NEW n \in Nodes(tree), NEW m \in Ancestors(tree)[n]
    PROVE  Ancestors(tree)[m] \subseteq Ancestors(tree)[n]
  <1> DEFINE P == {k \in Nodes(tree) : m \in Ancestors(tree)[k]
                                       => Ancestors(tree)[m] \subseteq Ancestors(tree)[k]}
  <1>1. 1 \in Nodes(tree) => 1 \in P
    BY PathFacts
  <1>2. ASSUME NEW k \in 2..Len(tree), tree[k].parent \in P
        PROVE  k \in P
    <2>1. /\ k \in Nodes(tree)
          /\ Ancestors(tree)[k] = {tree[k].parent} \cup Ancestors(tree)[tree[k].parent]
      BY PathFacts
    <2>. QED
      BY <1>2, <2>1
  <1>. HIDE DEF P
  <1>3. Nodes(tree) \subseteq P
    BY <1>1, <1>2, TreeFacts, TreeInduction
  <1>. QED
    BY <1>3 DEF P

\* What is suggested is a child of the node that the steps up lead to.
LEMMA SuggestedFound ==
    ASSUME SourcemapInv, NumbersAreFree, NEW from \in Scripts, NEW h \in {0, 1, 2},
           NEW steps, steps = IF h = 0 THEN <<>> ELSE IF h = 1 THEN <<Up>> ELSE <<Up, Up>>,
           NEW c \in Suggested(from, [anchor |-> "relative", steps |-> steps]), Unshadowed(c)
    PROVE  Lookup(virtualPaths,
               ResolveStringRequire(virtualPath[from], Relative(h, <<tree[c].name>>))) = c
  <1> DEFINE require == [anchor |-> "relative", steps |-> steps]
             n == ResolvePathToNode(from, require)
             u == tree[from].parent
             v == tree[u].parent
             w == tree[v].parent
             len(m) == Len(virtualPath[m])
  <1>1. /\ IsTree(tree) /\ Nodes(tree) = 1..Len(tree) /\ Len(tree) \in Nat
        /\ from \in Nodes(tree)
    BY TreeFacts DEF Scripts
  <1>2. from \in 2..Len(tree)
    <2>1. ~IsScript(tree, 1)
      <3>1. tree[1].className \in RootClass
        BY <1>1 DEF IsTree, Nodes
      <3>. QED
        BY <3>1, SourcemapAssumption DEF IsScript, ScriptClass, Folder
    <2>. QED
      BY <1>1, <2>1 DEF Scripts
  <1>3. n # NoNode /\ c \in Children(tree, n)
    BY Zenon DEF Suggested
  <1>4. n = WalkPath(tree, u, steps)
    <2>1. require.anchor = "relative" /\ require.steps = steps /\ from # Root
      BY <1>2 DEF Root
    <2>. HIDE DEF require
    <2>. QED
      BY <2>1 DEF ResolvePathToNode
  <1>5. u \in Nodes(tree) /\ u \in Ancestors(tree)[from]
    BY <1>2, PathFacts
  <1>6. ASSUME NEW m \in 2..Len(tree)
        PROVE  len(m) = len(tree[m].parent) + 1 /\ len(tree[m].parent) \in Nat
    <2>1. /\ virtualPath[m] = Append(virtualPath[tree[m].parent], Segment(tree, m))
          /\ virtualPath[tree[m].parent] \in Seq(Parts(tree)) /\ Segment(tree, m) \in Parts(tree)
      BY PathFacts
    <2>. QED
      BY <2>1, AppendProperties, LenProperties
  <1>7. 1 \in Nodes(tree) /\ tree[1].parent = NoNode
    <2>1. 1 \in Nodes(tree)
      BY <1>1, <1>2
    <2>. QED
      BY <1>1, <2>1 DEF IsTree, Nodes
  <1>8. ASSUME NEW m \in Nodes(tree), m \in Ancestors(tree)[from], tree[m].parent # NoNode
        PROVE  /\ m \in 2..Len(tree) /\ tree[m].parent \in Nodes(tree)
               /\ tree[m].parent \in Ancestors(tree)[from]
    <2>1. m \in 2..Len(tree)
      BY <1>1, <1>7, <1>8
    <2>2. /\ tree[m].parent \in Nodes(tree) /\ tree[m].parent \in Ancestors(tree)[m]
      BY <2>1, PathFacts
    <2>3. Ancestors(tree)[m] \subseteq Ancestors(tree)[from]
      BY <1>8, <1>1, AncestorsAbove
    <2>. QED
      BY <2>1, <2>2, <2>3
  <1>9. StepFrom(NoNode, Up) = NoNode /\ \A m \in Nodes(tree) : StepFrom(m, Up) = tree[m].parent
    BY <1>1 DEF StepFrom, NoNode
  <1>10. n \in Ancestors(tree)[from] /\ len(from) = len(n) + 1 + h /\ n \in Nodes(tree)
    <2>0. len(from) = len(u) + 1 /\ len(u) \in Nat
      BY <1>2, <1>6
    <2>1. CASE h = 0
      <3>1. n = u
        BY <1>4, <1>5, <2>1, WalkUp
      <3>2. len(u) + 1 = len(u) + 1 + 0
        BY <2>0
      <3>. HIDE DEF n, u, len
      <3>. QED
        BY <1>5, <2>0, <2>1, <3>1, <3>2
    <2>2. CASE h = 1
      <3>1. n = v
        BY <1>4, <1>5, <1>9, <2>2, WalkUp
      <3>2. u \in 2..Len(tree) /\ v \in Nodes(tree) /\ v \in Ancestors(tree)[from]
        BY <1>3, <1>5, <1>8, <3>1
      <3>3. len(u) = len(v) + 1 /\ len(v) \in Nat
        BY <1>6, <3>2
      <3>. HIDE DEF n, u, v, len
      <3>. QED
        BY <2>0, <2>2, <3>1, <3>2, <3>3
    <2>3. CASE h = 2
      <3>1. n = StepFrom(v, Up) /\ v = StepFrom(u, Up)
        BY <1>4, <1>5, <1>9, <2>3, WalkUp
      <3>2. v # NoNode
        BY <1>3, <1>9, <3>1
      <3>3. u \in 2..Len(tree) /\ v \in Nodes(tree) /\ v \in Ancestors(tree)[from]
        BY <1>5, <1>8, <3>2
      <3>4. n = w
        BY <1>9, <3>1, <3>3
      <3>5. v \in 2..Len(tree) /\ w \in Nodes(tree) /\ w \in Ancestors(tree)[from]
        BY <1>3, <1>8, <3>3, <3>4
      <3>6. len(u) = len(v) + 1 /\ len(v) = len(w) + 1 /\ len(w) \in Nat
        BY <1>6, <3>3, <3>5
      <3>. HIDE DEF n, u, v, w, len
      <3>. QED
        BY <2>0, <2>3, <3>4, <3>5, <3>6
    <2>. QED
      BY <2>1, <2>2, <2>3
  <1>11. c \in 2..Len(tree) /\ tree[c].parent = n /\ Segment(tree, c) = tree[c].name
    <2>1. c \in 2..Len(tree) /\ tree[c].parent = n
      BY <1>1, <1>3 DEF Children, Root
    <2>2. Segment(tree, c) = tree[c].name
      BY <2>1 DEF Unshadowed, Root
    <2>. QED
      BY <2>1, <2>2
  <1>. HIDE DEF n
  <1>12. h \in Nat
    OBVIOUS
  <1>. QED
    BY <1>2, <1>10, <1>11, <1>12, SiblingLeads

LEMMA SuggestionsFound == SourcemapInv /\ NumbersAreFree => SuggestionsAgree
  <1> SUFFICES ASSUME SourcemapInv, NumbersAreFree, NEW from \in Scripts,
                      NEW anchor \in {"relative", "@game"},
                      NEW steps \in {<<>>, <<Up>>, <<Up, Up>>},
                      NEW c \in Suggested(from, [anchor |-> anchor, steps |-> steps]),
                      Unshadowed(c), anchor = "@game" => steps = <<>>
               PROVE  Lookup(virtualPaths,
                          ResolveStringRequire(virtualPath[from],
                              [anchor |-> anchor, steps |-> Append(steps, tree[c].name)])) = c
    BY Zenon DEF SuggestionsAgree
  <1> DEFINE name == tree[c].name
  <1>1. CASE anchor = "relative"
    <2>1. PICK h \in {0, 1, 2} :
              /\ steps = IF h = 0 THEN <<>> ELSE IF h = 1 THEN <<Up>> ELSE <<Up, Up>>
              /\ Append(steps, name) = [i \in 1..h |-> Up] \o <<name>>
      <3>1. /\ Append(<<>>, name) = [i \in 1..0 |-> Up] \o <<name>>
            /\ Append(<<Up>>, name) = [i \in 1..1 |-> Up] \o <<name>>
            /\ Append(<<Up, Up>>, name) = [i \in 1..2 |-> Up] \o <<name>>
        <4>. HIDE DEF name
        <4>. QED
          OBVIOUS
      <3>. HIDE DEF name
      <3>2. CASE steps = <<>>
        BY <3>1, <3>2
      <3>3. CASE steps = <<Up>>
        BY <3>1, <3>3
      <3>4. CASE steps = <<Up, Up>>
        BY <3>1, <3>4
      <3>. QED
        BY <3>2, <3>3, <3>4
    <2>2. Lookup(virtualPaths, ResolveStringRequire(virtualPath[from], Relative(h, <<name>>))) = c
      BY <1>1, <2>1, SuggestedFound
    <2>3. Relative(h, <<name>>) = [anchor |-> anchor, steps |-> Append(steps, name)]
      BY <1>1, <2>1, Zenon DEF Relative
    <2>. QED
      BY <2>2, <2>3
  <1>2. CASE anchor = "@game"
    <2> DEFINE require == [anchor |-> "@game", steps |-> <<>>]
               accepted == [anchor |-> "@game", steps |-> Append(steps, name)]
               n == ResolvePathToNode(from, require)
    <2>0. /\ IsTree(tree) /\ Nodes(tree) = 1..Len(tree) /\ Len(tree) \in Nat
          /\ from \in Nodes(tree) /\ 1 \in Nodes(tree)
      BY TreeFacts DEF Scripts
    <2>1. n = 1
      <3>1. require.anchor = "@game" /\ require.steps = <<>>
        OBVIOUS
      <3>2. n = WalkPath(tree, Root, <<>>)
        <4>. HIDE DEF require
        <4>. QED
          BY <3>1, Zenon DEF ResolvePathToNode
      <3>. QED
        BY <2>0, <3>2, WalkUp DEF Root
    <2>2. c \in Children(tree, 1)
      <3>1. c \in Suggested(from, require)
        BY <1>2
      <3>2. n # NoNode
        BY <2>1 DEF NoNode
      <3>. QED
        BY <2>1, <3>1, <3>2, Zenon DEF Suggested
    <2>3. c \in 2..Len(tree) /\ tree[c].parent = 1 /\ Segment(tree, c) = name
      <3>1. c \in 2..Len(tree) /\ tree[c].parent = 1
        BY <2>0, <2>2 DEF Children, Root
      <3>. QED
        BY <3>1 DEF Unshadowed, Root
    <2>4. /\ virtualPath[c] = Append(virtualPath[1], name) /\ c \in Nodes(tree)
          /\ virtualPath[1] \in Seq(Parts(tree)) /\ name \in Parts(tree)
      BY <2>0, <2>3, PathFacts
    <2>5. ResolveStringRequire(virtualPath[from], accepted) = virtualPath[1] \o <<name>>
      <3>1. accepted.anchor = "@game" /\ accepted.steps = Append(steps, name)
        OBVIOUS
      <3>2. Append(<<>>, name) = <<name>>
        OBVIOUS
      <3>3. tree # <<>>
        <4>1. Nodes(<<>>) = {}
          BY DEF Nodes
        <4>. QED
          BY <2>0, <4>1
      <3>. HIDE DEF accepted, name
      <3>. QED
        BY <1>2, <3>1, <3>2, <3>3, Zenon DEF ResolveStringRequire, Root
    <2>6. virtualPath[1] \o <<name>> = Append(virtualPath[1], name)
      <3>. HIDE DEF name
      <3>. QED
        BY <2>4, AppendIsConcat
    <2>7. Lookup(virtualPaths, virtualPath[c]) = c
      BY <2>4, PathsLeadBack DEF Lookup
    <2>. QED
      BY <1>2, <2>4, <2>5, <2>6, <2>7
  <1>. QED
    BY <1>1, <1>2

-----------------------------------------------------------------------------
(* The types of the instances, and the steps                               *)

IsResult(m) ==
    /\ m = [script |-> m.script, holds |-> m.holds, dirty |-> m.dirty, invalid |-> m.invalid]
    /\ m.dirty \in BOOLEAN /\ m.invalid \in BOOLEAN

\* Of each module there are the results of both kinds of check.
ModulesInv ==
    \A name \in DOMAIN modules :
        /\ DOMAIN modules[name] = Mode
        /\ \A mode \in Mode : IsResult(modules[name][mode])

\* A result that counts holds nothing freed, and "script" is a node of the map now.
IsCurrent(m, name) ==
    ~(m.dirty /\ m.invalid) =>
        /\ m.holds # "freed"
        /\ m.script \subseteq {Lookup(virtualPaths, name)}

\* A new sourcemap leaves no result that counts.
LEMMA AllAreMarked ==
    ASSUME ModulesInv, UpdateSourcemapTypes
    PROVE  /\ ModulesInv'
           /\ FreedTypesAreUnread'
  <1>1. modules' = [name \in DOMAIN modules |->
                       [mode \in Mode |-> AfterFree(Marked(modules[name][mode]))]]
    BY DEF UpdateSourcemapTypes
  <1>2. ASSUME NEW m, IsResult(m)
        PROVE  IsResult(AfterFree(Marked(m))) /\ AfterFree(Marked(m)).dirty /\ AfterFree(Marked(m)).invalid
    <2> DEFINE yes == TRUE
               none == "freed"
               gone == {Freed : n \in m.script}
               marked == [script |-> m.script, holds |-> m.holds, dirty |-> yes, invalid |-> yes]
    <2>1. m = [script |-> m.script, holds |-> m.holds, dirty |-> m.dirty, invalid |-> m.invalid]
      BY <1>2 DEF IsResult
    <2>2. Marked(m) = [m EXCEPT !.dirty = yes, !.invalid = yes]
      BY DEF Marked
    <2>. HIDE DEF yes
    <2>3. Marked(m) = marked
      BY <2>1, <2>2
    <2>4. AfterFree(marked) \in {marked, [script |-> gone, holds |-> none, dirty |-> yes, invalid |-> yes]}
      BY DEF AfterFree
    <2>5. IsResult(marked) /\ marked.dirty /\ marked.invalid
      BY DEF IsResult, yes
    <2>6. ASSUME NEW r, r = [script |-> gone, holds |-> none, dirty |-> yes, invalid |-> yes]
          PROVE  IsResult(r) /\ r.dirty /\ r.invalid
      <3>. HIDE DEF gone
      <3>. QED
        BY <2>6 DEF IsResult, yes
    <2>. QED
      BY <2>3, <2>4, <2>5, <2>6
  <1>. QED
    BY <1>1, <1>2 DEF ModulesInv, FreedTypesAreUnread

LEMMA CheckIsCurrent ==
    ASSUME ModulesInv, FreedTypesAreUnread, NEW name \in Opened, NEW mode \in Mode,
           CheckModule(name, mode)
    PROVE  ModulesInv' /\ FreedTypesAreUnread'
  <1> DEFINE before == IF name \in DOMAIN modules THEN modules[name]
                       ELSE [m \in Mode |-> Unchecked]
             result == [script |-> ScriptType(name, mode), holds |-> "live",
                        dirty |-> FALSE, invalid |-> FALSE]
             after == [before EXCEPT ![mode] = result]
  <1>1. /\ modules' = [other \in {name} \cup DOMAIN modules |->
                       IF other = name THEN after ELSE modules[other]]
        /\ virtualPaths' = virtualPaths
        /\ name \in DOMAIN virtualPaths
    BY DEF CheckModule, vars
  <1>2. DOMAIN before = Mode /\ \A m \in Mode : IsResult(before[m]) /\ IsCurrent(before[m], name)
    <2>1. IsResult(Unchecked) /\ IsCurrent(Unchecked, name)
      BY DEF IsResult, IsCurrent, Unchecked
    <2>. QED
      BY <2>1 DEF ModulesInv, FreedTypesAreUnread, IsCurrent
  <1>3. IsResult(result) /\ IsCurrent(result, name)
    <2>1. ScriptType(name, mode) \subseteq {virtualPaths[name]}
      BY DEF ScriptType
    <2>. QED
      BY <1>1, <2>1 DEF IsResult, IsCurrent, Lookup
  <1> HIDE DEF before, result
  <1>4. DOMAIN after = Mode /\ \A m \in Mode : IsResult(after[m]) /\ IsCurrent(after[m], name)
    BY <1>2, <1>3
  <1> HIDE DEF after
  <1>5. /\ DOMAIN modules' = {name} \cup DOMAIN modules
        /\ modules'[name] = after
        /\ \A other \in DOMAIN modules \ {name} : modules'[other] = modules[other]
    BY <1>1
  <1>6. ModulesInv'
    BY <1>4, <1>5 DEF ModulesInv
  <1>7. FreedTypesAreUnread'
    BY <1>1, <1>4, <1>5 DEF FreedTypesAreUnread, IsCurrent, Lookup
  <1>. QED
    BY <1>6, <1>7

LEMMA EditIsCurrent ==
    ASSUME ModulesInv, FreedTypesAreUnread, NEW name \in Opened, EditModule(name)
    PROVE  ModulesInv' /\ FreedTypesAreUnread'
  <1> DEFINE edited(m) == [m EXCEPT !.dirty = TRUE]
             after == [mode \in Mode |-> edited(modules[name][mode])]
  <1>1. /\ name \in DOMAIN modules
        /\ modules' = [modules EXCEPT ![name] = after]
        /\ virtualPaths' = virtualPaths
    BY DEF EditModule, vars
  <1>2. ASSUME NEW m, IsResult(m), IsCurrent(m, name)
        PROVE  IsResult(edited(m)) /\ IsCurrent(edited(m), name)
    <2> DEFINE yes == TRUE
    <2>1. m = [script |-> m.script, holds |-> m.holds, dirty |-> m.dirty, invalid |-> m.invalid]
      BY <1>2 DEF IsResult
    <2>2. edited(m) = [m EXCEPT !.dirty = yes]
      OBVIOUS
    <2>. HIDE DEF yes, edited
    <2>3. edited(m) = [script |-> m.script, holds |-> m.holds, dirty |-> yes, invalid |-> m.invalid]
      BY <2>1, <2>2
    <2>. QED
      BY <1>2, <2>3 DEF IsResult, IsCurrent, yes
  <1> HIDE DEF edited
  <1>3. \A m \in Mode : IsResult(after[m]) /\ IsCurrent(after[m], name)
    BY <1>1, <1>2 DEF ModulesInv, FreedTypesAreUnread, IsCurrent
  <1>4. DOMAIN after = Mode
    OBVIOUS
  <1> HIDE DEF after
  <1>5. /\ DOMAIN modules' = DOMAIN modules
        /\ modules'[name] = after
        /\ \A other \in DOMAIN modules \ {name} : modules'[other] = modules[other]
    BY <1>1
  <1>6. ModulesInv'
    BY <1>3, <1>4, <1>5 DEF ModulesInv
  <1>7. FreedTypesAreUnread'
    BY <1>1, <1>3, <1>5 DEF FreedTypesAreUnread, IsCurrent, Lookup
  <1>. QED
    BY <1>6, <1>7

-----------------------------------------------------------------------------
(* The types of children                                                   *)

\* The properties of the declared classes are those of the tree, and no others.
PropsInv ==
    props = [mode \in Mode |-> AddTypes(tree, [class \in Declared |-> Empty])]

AllUnshadowed == \A n \in Nodes(tree) : Unshadowed(n)

\* A service is the only instance of its class.
ServicesAreOne ==
    \A s, n \in Nodes(tree) \ {Root} :
        tree[s].parent = Root /\ s # n => ClassName(tree, s) # ClassName(tree, n)

LEMMA PropsStep ==
    ASSUME PropsInv, [NextTypes]_<<vars, typeVars>>
    PROVE  PropsInv'
  <1>1. CASE UpdateSourceMap \/ ChangeStrict
    BY <1>1 DEF UpdateSourceMap, ChangeStrict, UpdateSourcemapTypes, ClearGeneratedTypes, PropsInv
  <1>2. CASE tree' = tree /\ props' = props
    BY <1>2 DEF PropsInv
  <1>. QED
    BY <1>1, <1>2 DEF NextTypes, CheckModule, EditModule, vars, typeVars

\* In an unshadowed tree a name has one child, whose type is found.
LEMMA TypeOfChild ==
    ASSUME SourcemapInv, AllUnshadowed, NEW n \in Nodes(tree), NEW name \in Name
    PROVE  Lookup(ChildTypes(tree, {n}), name) = FindChild(tree, n, name)
  <1> DEFINE c == FindChild(tree, n, name)
             children == UNION {Children(tree, m) : m \in {n}}
             named(x) == {k \in children : tree[k].name = x}
  <1>1. ChildTypes(tree, {n}) = [x \in {tree[k].name : k \in children} |-> Max(named(x))]
    BY Zenon DEF ChildTypes
  <1>2. /\ Nodes(tree) = 1..Len(tree) /\ Len(tree) \in Nat
        /\ children = {k \in 2..Len(tree) : tree[k].parent = n}
    <2>1. Nodes(tree) = 1..Len(tree) /\ Len(tree) \in Nat
      BY TreeFacts
    <2>. QED
      BY <2>1 DEF Children, Root
  <1>. HIDE DEF children, c
  <1>3. CASE c = NoNode
    <2>1. name \notin {tree[k].name : k \in children}
      BY <1>2, <1>3, FirstChild DEF c, NoNode
    <2>. HIDE DEF named
    <2>. QED
      BY <1>1, <1>3, <2>1 DEF Lookup, c
  <1>4. CASE c # NoNode
    <2>1. c \in 2..Len(tree) /\ tree[c].parent = n /\ tree[c].name = name
      BY <1>4, FirstChild DEF c
    <2>2. ASSUME NEW k \in named(name)
          PROVE  k = c
      <3>1. k \in 2..Len(tree) /\ tree[k].parent = n /\ tree[k].name = name
        BY <1>2
      <3>2. ASSUME NEW i \in 2..Len(tree), NEW j \in 2..Len(tree), i < j,
                   tree[i].parent = tree[j].parent, tree[i].name = tree[j].name
            PROVE  FALSE
        <4> DEFINE elder == {m \in Children(tree, tree[j].parent) :
                                m < j /\ tree[m].name = tree[j].name}
        <4>1. i \in elder
          BY <1>2, <3>2 DEF Children, Root
        <4>2. Segment(tree, j) = Append(tree[j].name, Cardinality(elder))
          BY <4>1, Zenon DEF Segment
        <4>3. Cardinality(elder) \in Nat
          <5>1. elder \subseteq Nodes(tree)
            BY DEF Children
          <5>2. IsFiniteSet(1..Len(tree))
            BY <1>2, FS_Interval
          <5>. HIDE DEF elder
          <5>. QED
            BY <1>2, <5>1, <5>2, FS_Subset, FS_CardinalityType
        <4>. HIDE DEF elder
        <4>4. tree[j].name \in Name
          BY <3>2, PathFacts
        <4>5. Segment(tree, j) # tree[j].name
          BY <4>2, <4>3, <4>4, NumberedSegments
        <4>6. j \in Nodes(tree) /\ j # Root
          BY <1>2 DEF Root
        <4>. QED
          BY <4>5, <4>6 DEF AllUnshadowed, Unshadowed
      <3>. QED
        BY <1>2, <2>1, <3>1, <3>2
    <2>3. c \in named(name)
      BY <1>2, <2>1
    <2>4. Max(named(name)) = c
      <3>1. named(name) = {c} /\ c \in Nat
        BY <1>2, <2>1, <2>2, <2>3
      <3>2. {c} \in SUBSET Nat /\ {c} # {} /\ \A k \in {c} : k <= c
        BY <3>1
      <3>3. Max({c}) \in {c}
        BY <3>1, <3>2, MaxOf
      <3>. HIDE DEF named
      <3>. QED
        BY <3>1, <3>3
    <2>5. name \in {tree[k].name : k \in children}
      BY <1>2, <2>1
    <2>. HIDE DEF named
    <2>. QED
      BY <1>1, <2>4, <2>5 DEF Lookup, c
  <1>. QED
    BY <1>3, <1>4

LEMMA NoTypes == \A t, name : Lookup(ChildTypes(t, {}), name) = NoNode
  <1>1. ASSUME NEW t
        PROVE  DOMAIN ChildTypes(t, {}) = {}
    BY DEF ChildTypes
  <1>. QED
    BY <1>1 DEF Lookup

\* What a property of a declared class is.
LEMMA PropsOf ==
    ASSUME SourcemapInv, PropsInv, NEW mode \in Mode, NEW class \in Declared, NEW name
    PROVE  Lookup(props[mode][class], name)
               = IF tree # <<>> /\ tree[Root].className = "DataModel"
                 THEN Lookup(ChildTypes(tree, DeclaredFor(tree, class)), name)
                 ELSE NoNode
  <1> DEFINE children == ChildTypes(tree, DeclaredFor(tree, class))
             none == [k \in Declared |-> Empty]
             added == AddTypes(tree, none)
  <1>1. props[mode] = added
    BY DEF PropsInv
  <1>2. DOMAIN Empty = {} /\ none[class] = Empty
    BY DEF Empty
  <1>3. CASE tree # <<>> /\ tree[Root].className = "DataModel"
    <2>1. added[class] = AddChildren(children, Empty)
      <3>1. added = [k \in Declared |-> AddChildren(ChildTypes(tree, DeclaredFor(tree, k)), none[k])]
        BY <1>3 DEF AddTypes
      <3>. HIDE DEF added, none
      <3>. QED
        BY <1>2, <3>1
    <2>2. /\ DOMAIN AddChildren(children, Empty) = DOMAIN children
          /\ \A k \in DOMAIN children : AddChildren(children, Empty)[k] = children[k]
      <3>. HIDE DEF children
      <3>. QED
        BY <1>2 DEF AddChildren
    <2>. HIDE DEF added, children
    <2>3. Lookup(props[mode][class], name) = Lookup(children, name)
      BY <1>1, <2>1, <2>2 DEF Lookup
    <2>. QED
      BY <1>3, <2>3 DEF children
  <1>4. CASE ~(tree # <<>> /\ tree[Root].className = "DataModel")
    <2>1. added = none
      BY <1>4 DEF AddTypes
    <2>. HIDE DEF added, none
    <2>2. props[mode][class] = Empty
      BY <1>1, <1>2, <2>1
    <2>. QED
      BY <1>2, <1>4, <2>2 DEF Lookup
  <1>. QED
    BY <1>3, <1>4

LEMMA ClassNames ==
    ASSUME SourcemapInv, NEW n \in Nodes(tree)
    PROVE  /\ ClassName(tree, n) \in ServerContainer \cup ClientContainer \cup Classes
           /\ ClassName(tree, n) \in Declared /\ ClassName(tree, n) \notin DOMAIN Copies
           /\ tree[Root].className = "DataModel" =>
                  (ClassName(tree, n) = ClassName(tree, Root) <=> n = Root)
  <1>1. /\ IsTree(tree) /\ Nodes(tree) = 1..Len(tree) /\ Len(tree) \in Nat /\ 1 \in Nodes(tree)
    BY TreeFacts
  <1>2. /\ tree[1].name = <<"Game">> /\ tree[1].className \in RootClass
        /\ n # 1 => tree[n].className \in Class
    BY <1>1 DEF IsTree, Nodes
  <1>3. ClassName(tree, n) = <<tree[n].className>> \/ ClassName(tree, n) \in ServerContainer \cup ClientContainer
    BY DEF ClassName
  <1>4. <<tree[n].className>> \in Classes
    BY <1>2 DEF Classes
  <1>5. ClassName(tree, n) \in ServerContainer \cup ClientContainer \cup Classes
    BY <1>3, <1>4
  <1>6. ClassName(tree, n) \in Declared
    BY <1>5 DEF Declared
  <1>7. ClassName(tree, n) \notin DOMAIN Copies
    BY <1>5, InstanceAssumption
  <1>8. ASSUME tree[Root].className = "DataModel", n # Root
        PROVE  ClassName(tree, n) # ClassName(tree, Root)
    <2>1. ClassName(tree, Root) = <<"DataModel">>
      <3>1. tree[Root].name \notin ServerContainer \cup ClientContainer
        BY <1>2, InstanceAssumption DEF Root
      <3>. QED
        BY <1>8, <3>1 DEF ClassName
    <2>2. <<"DataModel">> \in Classes
      BY <1>2, <1>8 DEF Classes, Root
    <2>3. CASE ClassName(tree, n) \in ServerContainer \cup ClientContainer
      BY <2>1, <2>2, <2>3, InstanceAssumption
    <2>4. CASE ClassName(tree, n) = <<tree[n].className>>
      <3>1. tree[n].className \in ScriptClass \cup {Folder}
        BY <1>2, <1>8, SourcemapAssumption DEF Root
      <3>2. tree[n].className # "DataModel"
        BY <3>1 DEF ScriptClass, Folder
      <3>. QED
        BY <2>1, <2>4, <3>2
    <2>. QED
      BY <1>3, <2>3, <2>4
  <1>. QED
    BY <1>5, <1>6, <1>7, <1>8

\* A declared class is that of one instance, or of none.
LEMMA DeclaredOnce ==
    ASSUME SourcemapInv, ServicesAreOne, tree # <<>>, tree[Root].className = "DataModel",
           NEW n \in Nodes(tree)
    PROVE  DeclaredFor(tree, ClassName(tree, n))
               = IF n = Root \/ tree[n].parent = Root THEN {n} ELSE {}
  <1>1. DeclaredFor(tree, ClassName(tree, n))
            = {m \in {Root} \cup Children(tree, Root) : ClassName(tree, m) = ClassName(tree, n)}
    BY ClassNames DEF DeclaredFor
  <1>2. Nodes(tree) = 1..Len(tree) /\ Len(tree) \in Nat /\ Root \in Nodes(tree)
    BY TreeFacts DEF Root
  <1>3. ASSUME NEW m \in {Root} \cup Children(tree, Root), ClassName(tree, m) = ClassName(tree, n)
        PROVE  m = n
    <2>1. m \in Nodes(tree) /\ (m # Root => tree[m].parent = Root)
      BY <1>2 DEF Children
    <2>2. m = Root <=> n = Root
      BY <1>3, <2>1, ClassNames
    <2>. QED
      BY <1>3, <2>1, <2>2 DEF ServicesAreOne
  <1>4. n \in {Root} \cup Children(tree, Root) <=> (n = Root \/ tree[n].parent = Root)
    BY DEF Children
  <1>. QED
    BY <1>1, <1>3, <1>4

Game == <<"game">>

LEMMA GamePath ==
    ASSUME NEW names \in Seq(Name)
    PROVE  LET p == <<Game>> \o names
               n == Len(names)
           IN /\ n \in Nat /\ p \in Seq(Name \cup {Game}) /\ Len(p) = n + 1 /\ p[1] = Game
              /\ \A k \in 1..n : p[k + 1] = names[k] /\ names[k] \in Name
  <1> DEFINE n == Len(names)
             X == Name \cup {Game}
  <1>1. n \in Nat /\ \A k \in 1..n : names[k] \in Name
    BY LenProperties, ElementOfSeq
  <1>2. names \in Seq(X) /\ <<Game>> \in Seq(X) /\ Len(<<Game>>) = 1 /\ <<Game>>[1] = Game
    BY SeqMonotonic
  <1> DEFINE g == <<Game>>
  <1>. HIDE DEF g
  <1>3. g \in Seq(X) /\ Len(g) = 1 /\ g[1] = Game
    BY <1>2 DEF g
  <1>4. /\ g \o names \in Seq(X) /\ Len(g \o names) = 1 + n
        /\ (g \o names)[1] = Game
        /\ \A k \in 1..n : (g \o names)[1 + k] = names[k]
    <2>1. /\ g \o names \in Seq(X) /\ Len(g \o names) = Len(g) + Len(names)
          /\ \A k \in 1..Len(g) : (g \o names)[k] = g[k]
          /\ \A k \in 1..Len(names) : (g \o names)[Len(g) + k] = names[k]
      <3>1. g \in Seq(X) /\ names \in Seq(X)
        BY <1>2, <1>3
      <3>. HIDE DEF X
      <3>. QED
        BY <3>1, ConcatEntries
    <2>2. Len(g) = 1 /\ 1 \in 1..Len(g) /\ g[1] = Game
      BY <1>3
    <2>3. (g \o names)[1] = Game
      BY <2>1, <2>2
    <2>. HIDE DEF X
    <2>. QED
      BY <2>1, <2>2, <2>3, Zenon
  <1>5. Len(g \o names) = n + 1 /\ \A k \in 1..n : k + 1 = 1 + k
    BY <1>1, <1>4
  <1>. QED
    BY <1>1, <1>4, <1>5 DEF g

\* In a tree without shadowed nodes, names that lead to a node are its path.
LEMMA NodeAtPath ==
    ASSUME SourcemapInv, NumbersAreFree, AllUnshadowed, tree # <<>>,
           tree[Root].className = "DataModel", NEW names \in Seq(Name)
    PROVE  Lookup(virtualPaths, <<Game>> \o names) = NodeAt(tree, names)
  <1> DEFINE X == Name \cup {Game}
             n == Len(names)
             p == <<Game>> \o names
             At(k) == Lookup(virtualPaths, Prefix(p, k + 1))
  <1>1. /\ Nodes(tree) = 1..Len(tree) /\ Len(tree) \in Nat /\ 1 \in Nodes(tree)
        /\ virtualPath[1] = <<Game>>
    <2>1. Nodes(tree) = 1..Len(tree) /\ Len(tree) \in Nat /\ IsTree(tree)
      BY TreeFacts
    <2>2. 1 \in Nodes(tree)
      <3>1. Len(tree) >= 1
        BY DEF SourcemapInv
      <3>. QED
        BY <2>1, <3>1
    <2>. QED
      BY <2>1, <2>2, PathFacts DEF RootPath, Root, Game
  <1>2. /\ n \in Nat /\ p \in Seq(X) /\ Len(p) = n + 1 /\ p[1] = Game
        /\ \A k \in 1..n : p[k + 1] = names[k] /\ names[k] \in Name
    BY GamePath
  <1>3. PICK f : IsWay(f, Root, names)
    BY <1>1, <1>2, WalkRec DEF Root
  <1>4. /\ f[0] = 1 /\ NodeAt(tree, names) = f[n]
        /\ \A k \in 0..n : f[k] \in Nodes(tree) \cup {NoNode}
        /\ \A k \in 1..n : f[k] = StepFrom(f[k - 1], names[k])
    BY <1>3 DEF IsWay, NodeAt, Root
  <1>. HIDE DEF p, X, n
  <1>5. At(0) = 1
    <2>1. Prefix(p, 1) \in Seq(X) /\ Len(Prefix(p, 1)) = 1 /\ Prefix(p, 1)[1] = p[1]
      <3>1. 1 \in 0..Len(p) /\ 1 \in 1..1
        BY <1>2
      <3>. QED
        BY <1>2, <3>1, PrefixFacts
    <2>2. Prefix(p, 1) = <<Game>>
      <3> DEFINE g == <<Game>>
      <3>1. g \in Seq({Game}) /\ Len(g) = 1 /\ g[1] = Game
        OBVIOUS
      <3>. HIDE DEF g
      <3>2. \A i \in 1..1 : Prefix(p, 1)[i] = g[i]
        BY <1>2, <2>1, <3>1
      <3>. QED
        BY <2>1, <3>1, <3>2, SeqEqual DEF g
    <2>3. 0 + 1 = 1
      OBVIOUS
    <2>. QED
      BY <1>1, <2>2, <2>3, PathsLeadBack DEF Lookup
  <1>6. ASSUME NEW k \in 1..n, At(k - 1) = f[k - 1]
        PROVE  At(k) = f[k]
    <2> DEFINE q == Prefix(p, k)
               x == names[k]
    <2>1. q \in Seq(X) /\ q # <<>> /\ x \in Name /\ Append(q, x) = Prefix(p, k + 1)
      <3>1. k \in 0..Len(p) /\ k \in 0..(Len(p) - 1) /\ k # 0 /\ k \in Nat
        BY <1>2
      <3>2. /\ Prefix(p, k) \in Seq(X) /\ Len(Prefix(p, k)) = k
            /\ Append(Prefix(p, k), p[k + 1]) = Prefix(p, k + 1)
        BY <1>2, <3>1, PrefixFacts
      <3>3. Prefix(p, k) # <<>>
        BY <3>1, <3>2, EmptySeq
      <3>. QED
        BY <1>2, <3>2, <3>3
    <2>2. Lookup(virtualPaths, q) = f[k - 1]
      <3>1. (k - 1) + 1 = k
        BY <1>2
      <3>. QED
        BY <1>6, <3>1
    <2>. HIDE DEF q, x
    <2>3. \A c \in 2..Len(tree) : virtualPath[tree[c].parent] = q /\ Segment(tree, c) = x
                                  => tree[c].name = x
      <3>1. ASSUME NEW c \in 2..Len(tree)
            PROVE  Segment(tree, c) = tree[c].name
        <4>1. c \in Nodes(tree) /\ c # Root
          BY <1>1 DEF Root
        <4>. QED
          BY <4>1 DEF AllUnshadowed, Unshadowed
      <3>. QED
        BY <3>1
    <2>4. Lookup(virtualPaths, Append(q, x))
              = IF q \in DOMAIN virtualPaths THEN FindChild(tree, virtualPaths[q], x) ELSE NoNode
      BY <2>1, <2>3, ChildFound
    <2>5. f[k] = StepFrom(f[k - 1], x) /\ x # Up
      BY <1>4, <2>1, SourcemapAssumption DEF x
    <2>6. CASE q \in DOMAIN virtualPaths
      <3>1. f[k - 1] = virtualPaths[q] /\ f[k - 1] # NoNode
        BY <1>1, <2>2, <2>6, TreeFacts DEF Lookup, NoNode
      <3>. QED
        BY <2>1, <2>4, <2>5, <2>6, <3>1 DEF StepFrom
    <2>7. CASE q \notin DOMAIN virtualPaths
      BY <2>1, <2>2, <2>4, <2>5, <2>7 DEF Lookup, StepFrom
    <2>. QED
      BY <2>6, <2>7
  <1>. HIDE DEF At
  <1> DEFINE P == {k \in 0..n : At(k) = f[k]}
  <1>7. 0..n \subseteq P
    <2>1. ASSUME NEW k \in 0..n, \A j \in 0..n : j < k => j \in P
          PROVE  k \in P
      <3>1. CASE k = 0
        BY <1>4, <1>5, <3>1
      <3>2. CASE k # 0
        <4>1. k \in 1..n /\ k - 1 \in 0..n /\ k - 1 < k
          BY <1>2, <3>2
        <4>. QED
          BY <1>6, <2>1, <4>1
      <3>. QED
        BY <3>1, <3>2
    <2>2. 0..n \in SUBSET Nat
      BY <1>2
    <2>. HIDE DEF P
    <2>. QED
      BY <2>1, <2>2, StrongInduction
  <1>8. At(n) = f[n]
    BY <1>2, <1>7
  <1>9. Prefix(p, n + 1) = p
    BY <1>2, PrefixFacts
  <1>. QED
    BY <1>4, <1>8, <1>9 DEF At, p

\* No path leads from "game" in another project.
LEMMA NoGame ==
    ASSUME SourcemapInv, tree = <<>> \/ tree[Root].className # "DataModel",
           NEW path, path[1] = Game
    PROVE  Lookup(virtualPaths, path) = NoNode
  <1>1. ASSUME path \in DOMAIN virtualPaths
        PROVE  FALSE
    <2> DEFINE n == virtualPaths[path]
    <2>1. n \in Nodes(tree) /\ virtualPath[n] = path
      BY <1>1, TreeFacts
    <2>2. tree # <<>>
      <3>1. Nodes(<<>>) = {}
        BY DEF Nodes
      <3>. QED
        BY <2>1, <3>1
    <2>3. RootPath(tree) = <<"ProjectRoot">>
      BY <2>2 DEF RootPath
    <2>4. path[1] = RootPath(tree)
      BY <2>1, PathsStartAtRoot
    <2>5. <<"ProjectRoot">> # <<"game">>
      OBVIOUS
    <2>. QED
      BY <2>3, <2>4, <2>5 DEF Game
  <1>. QED
    BY <1>1 DEF Lookup

LEMMA TypesFound ==
    ASSUME SourcemapInv, PropsInv, NumbersAreFree
    PROVE  TypesAgree
  <1> SUFFICES ASSUME AllUnshadowed, ServicesAreOne, NEW mode \in Mode, NEW name \in Name
               PROVE  /\ \A n \in Nodes(tree) : TypedChild(mode, n, name) = FindChild(tree, n, name)
                      /\ \A n \in Nodes(tree) :
                             tree[Root].className = "DataModel" /\ (n = Root \/ tree[n].parent = Root)
                             => Lookup(props[mode][ClassName(tree, n)], name) = FindChild(tree, n, name)
                      /\ \A class \in DOMAIN Copies :
                             LET n == IF tree = <<>> \/ tree[Root].className # "DataModel" THEN NoNode
                                      ELSE NodeAt(tree, Copies[class])
                                 child == IF n = NoNode THEN NoNode ELSE FindChild(tree, n, name)
                             IN /\ Lookup(props[mode][class], name) = child
                                /\ \A path \in {p \in DOMAIN PlayerPaths : Last(p) = class} :
                                       Lookup(virtualPaths, ResolveChild(path, name, FALSE)) = child
    BY DEF TypesAgree, AllUnshadowed, ServicesAreOne
  <1>1. ASSUME NEW n \in Nodes(tree)
        PROVE  /\ tree # <<>> /\ ClassName(tree, n) \in Declared
               /\ Lookup(ChildTypes(tree, {n}), name) = FindChild(tree, n, name)
    <2>1. Nodes(<<>>) = {}
      BY DEF Nodes
    <2>. QED
      BY <2>1, ClassNames, TypeOfChild
  <1>2. ASSUME NEW n \in Nodes(tree), tree[Root].className = "DataModel",
               n = Root \/ tree[n].parent = Root
        PROVE  Lookup(props[mode][ClassName(tree, n)], name) = FindChild(tree, n, name)
    <2>1. DeclaredFor(tree, ClassName(tree, n)) = {n}
      BY <1>1, <1>2, DeclaredOnce
    <2>. QED
      BY <1>1, <1>2, <2>1, PropsOf
  <1>3. ASSUME NEW n \in Nodes(tree)
        PROVE  TypedChild(mode, n, name) = FindChild(tree, n, name)
    <2>1. CASE name \in DOMAIN ChildTypes(tree, {n})
      BY <1>1, <2>1 DEF TypedChild, Lookup
    <2>2. CASE name \notin DOMAIN ChildTypes(tree, {n})
      <3>1. FindChild(tree, n, name) = NoNode
        BY <1>1, <2>2 DEF Lookup
      <3>2. TypedChild(mode, n, name) = Lookup(props[mode][ClassName(tree, n)], name)
        BY <2>2 DEF TypedChild
      <3>3. CASE tree[Root].className = "DataModel" /\ (n = Root \/ tree[n].parent = Root)
        BY <1>2, <3>2, <3>3
      <3>4. CASE tree[Root].className = "DataModel" /\ ~(n = Root \/ tree[n].parent = Root)
        <4>1. DeclaredFor(tree, ClassName(tree, n)) = {}
          BY <1>1, <3>4, DeclaredOnce
        <4>2. Lookup(props[mode][ClassName(tree, n)], name) = Lookup(ChildTypes(tree, {}), name)
          BY <1>1, <3>4, <4>1, PropsOf
        <4>. QED
          BY <3>1, <3>2, <4>2, NoTypes
      <3>5. CASE tree[Root].className # "DataModel"
        BY <1>1, <3>1, <3>2, <3>5, PropsOf
      <3>. QED
        BY <3>3, <3>4, <3>5
    <2>. QED
      BY <2>1, <2>2
  <1>4. ASSUME NEW class \in DOMAIN Copies, NEW n, NEW child,
               n = IF tree = <<>> \/ tree[Root].className # "DataModel" THEN NoNode
                   ELSE NodeAt(tree, Copies[class]),
               child = IF n = NoNode THEN NoNode ELSE FindChild(tree, n, name)
        PROVE  /\ Lookup(props[mode][class], name) = child
               /\ \A path \in {p \in DOMAIN PlayerPaths : Last(p) = class} :
                      Lookup(virtualPaths, ResolveChild(path, name, FALSE)) = child
    <2> DEFINE names == Copies[class]
               p == <<Game>> \o names
    <2>1. class \in Declared /\ names \in Seq(Name)
      BY InstanceAssumption DEF Declared
    <2>2. \A path \in {q \in DOMAIN PlayerPaths : Last(q) = class} :
              ResolveChild(path, name, FALSE) = Append(p, name)
      <3>1. \A path \in DOMAIN PlayerPaths : PlayerPaths[path] = <<Game>> \o Copies[Last(path)]
        BY InstanceAssumption DEF Game
      <3>. QED
        BY <3>1, Zenon DEF ResolveChild, MapContext
    <2>3. p \in Seq(Name \cup {Game}) /\ p # <<>> /\ Append(p, name)[1] = Game
      <3> DEFINE X == Name \cup {Game}
      <3>1. p \in Seq(X) /\ Len(p) \in Nat /\ Len(p) >= 1 /\ p[1] = Game
        BY <2>1, GamePath
      <3>. HIDE DEF p
      <3>2. p # <<>> /\ 1 \in 1..Len(p) /\ name \in X
        BY <3>1, EmptySeq
      <3>. HIDE DEF X
      <3>3. Append(p, name)[1] = Game
        BY <3>1, <3>2, AppendProperties
      <3>. QED
        BY <3>1, <3>2, <3>3 DEF X
    <2>. HIDE DEF p, names
    <2>4. CASE tree = <<>> \/ tree[Root].className # "DataModel"
      <3>1. child = NoNode
        BY <1>4, <2>4
      <3>2. Lookup(props[mode][class], name) = NoNode
        BY <2>1, <2>4, PropsOf
      <3>3. Lookup(virtualPaths, Append(p, name)) = NoNode
        BY <2>3, <2>4, NoGame
      <3>. QED
        BY <2>2, <3>1, <3>2, <3>3
    <2>5. CASE tree # <<>> /\ tree[Root].className = "DataModel"
      <3>1. n = NodeAt(tree, names)
        BY <1>4, <2>5 DEF names
      <3>2. n = Lookup(virtualPaths, p)
        BY <2>1, <2>5, <3>1, NodeAtPath DEF p
      <3>3. \A c \in 2..Len(tree) : virtualPath[tree[c].parent] = p /\ Segment(tree, c) = name
                                    => tree[c].name = name
        <4>1. ASSUME NEW c \in 2..Len(tree)
              PROVE  Segment(tree, c) = tree[c].name
          <5>1. c \in Nodes(tree) /\ c # Root
            BY PathFacts DEF Root
          <5>. QED
            BY <5>1 DEF AllUnshadowed, Unshadowed
        <4>. QED
          BY <4>1
      <3>4. Lookup(virtualPaths, Append(p, name))
                = IF p \in DOMAIN virtualPaths THEN FindChild(tree, virtualPaths[p], name) ELSE NoNode
        BY <2>3, <3>3, ChildFound
      <3>5. p \in DOMAIN virtualPaths => virtualPaths[p] \in Nodes(tree) /\ NoNode \notin Nodes(tree)
        BY TreeFacts DEF NoNode
      <3>6. Lookup(virtualPaths, Append(p, name)) = child
        BY <1>4, <3>2, <3>4, <3>5 DEF Lookup
      <3>7. DeclaredFor(tree, class) = {n} \ {NoNode}
        BY <1>4, <3>1 DEF DeclaredFor, names
      <3>8. Lookup(props[mode][class], name) = Lookup(ChildTypes(tree, DeclaredFor(tree, class)), name)
        BY <2>1, <2>5, PropsOf
      <3>9. CASE n = NoNode
        <4>1. DeclaredFor(tree, class) = {}
          BY <3>7, <3>9
        <4>. QED
          BY <1>4, <2>2, <3>6, <3>8, <3>9, <4>1, NoTypes
      <3>10. CASE n # NoNode
        <4>1. DeclaredFor(tree, class) = {n}
          BY <3>7, <3>10
        <4>2. n \in Nodes(tree)
          BY <3>2, <3>5, <3>10 DEF Lookup
        <4>. QED
          BY <1>1, <1>4, <2>2, <3>6, <3>8, <3>10, <4>1, <4>2
      <3>. QED
        BY <3>9, <3>10
    <2>. QED
      BY <2>4, <2>5
  <1>. QED
    BY <1>2, <1>3, <1>4

-----------------------------------------------------------------------------
(* The theorems                                                            *)

TypesInv == SourcemapInv /\ ModulesInv /\ FreedTypesAreUnread /\ PropsInv

LEMMA TypesInit == InitTypes => TypesInv
  <1> SUFFICES ASSUME InitTypes PROVE TypesInv
    OBVIOUS
  <1>1. SourcemapInv
    BY SourcemapInit DEF InitTypes
  <1>2. ModulesInv /\ FreedTypesAreUnread
    BY DEF InitTypes, ModulesInv, FreedTypesAreUnread, Empty
  <1>3. PropsInv
    <2>1. tree = <<>>
      BY DEF InitTypes, Init
    <2>. QED
      BY <2>1 DEF InitTypes, PropsInv, AddTypes
  <1>. QED
    BY <1>1, <1>2, <1>3 DEF TypesInv

\* A sourcemap is loaded, here too, only as Sourcemap does it.
LEMMA TypesStep == TypesInv /\ [NextTypes]_<<vars, typeVars>> => TypesInv'
  <1> SUFFICES ASSUME TypesInv, [NextTypes]_<<vars, typeVars>>
               PROVE  TypesInv'
    OBVIOUS
  <1>1. [Next]_vars \/ (Load(file) /\ UNCHANGED file)
    BY DEF NextTypes, UpdateSourceMap, ChangeStrict, CheckModule, EditModule
  <1>2. SourcemapInv'
    BY <1>1, SourcemapStep DEF TypesInv
  <1>3. ModulesInv' /\ FreedTypesAreUnread'
    <2>1. CASE UpdateSourceMap \/ ChangeStrict
      BY <2>1, AllAreMarked DEF UpdateSourceMap, ChangeStrict, TypesInv
    <2>2. CASE UNCHANGED <<vars, typeVars>>
      BY <2>2 DEF vars, typeVars, TypesInv, ModulesInv, FreedTypesAreUnread
    <2>. QED
      BY <2>1, <2>2, CheckIsCurrent, EditIsCurrent DEF NextTypes, TypesInv
  <1>4. PropsInv'
    BY PropsStep DEF TypesInv
  <1>. QED
    BY <1>2, <1>3, <1>4 DEF TypesInv

\* Whatever sourcemaps are read, malformed ones included, and whichever modules are
\* checked and edited in between: no map leads to a node of an earlier tree, and a type
\* graph with types of an earlier sourcemap is neither used as checked nor read by
\* fragment autocomplete.
\* (OverdareSourcemap.cpp:384-388, Completion.cpp:738)
THEOREM FreedTypesStayUnread == TypesSpec => []NothingFreedIsRead
  <1>1. TypesInv => NothingFreedIsRead
    BY MapsCurrent DEF TypesInv, NothingFreedIsRead
  <1>. QED
    BY <1>1, TypesInit, TypesStep, PTL DEF TypesSpec

\* Every file in the sourcemap has a module name of its own that leads back to it,
\* whatever instances are added to and removed from any project, with malformed
\* sourcemaps in between; unless a number makes one name of two.
\* (OverdareSourcemap.cpp:494-500)
THEOREM FilesKeepNames == TypesSpec => []FilesHaveNames
  <1>1. TypesInv => FilesHaveNames
    BY FilesNamed DEF TypesInv
  <1>. QED
    BY <1>1, TypesInit, TypesStep, PTL DEF TypesSpec

\* In every project, the require that an auto-import writes leads to the module it was
\* offered for, with each style and from wherever it is written; and it is not offered
\* across the boundary between server and client.
\* (OverdareFileResolver.cpp:216, InstanceRequireAutoImporter.cpp:55)
THEOREM ImportsStayUsable == TypesSpec => []ImportsAreUsable
  <1>1. TypesInv => ImportsAreUsable
    BY ImportsUsable DEF TypesInv
  <1>. QED
    BY <1>1, TypesInit, TypesStep, PTL DEF TypesSpec

\* Whichever way an instance is looked up, by a path, in the tree, as a type or within
\* the quotes of a require, the same one is found, in every project and whatever was
\* loaded before, as long as a number does not make one name of two.
\* (OverdareFileResolver.cpp:364-432, OverdareSourcemap.cpp:38-335, 550-618,
\* OverdareStringRequireSuggester.cpp)
THEOREM LookupsStayAgreed == TypesSpec => []LookupsAgree
  <1>1. TypesInv => LookupsAgree
    BY ChildrenFound, SuggestionsFound, AncestorsFound, TypesFound DEF TypesInv, LookupsAgree
  <1>. QED
    BY <1>1, TypesInit, TypesStep, PTL DEF TypesSpec
=============================================================================
