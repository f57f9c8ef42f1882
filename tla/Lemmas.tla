------------------------------- MODULE Lemmas -------------------------------
(***************************************************************************)
(* What the proofs of several modules use: induction without predicates as *)
(* parameters, where the property is the set of the numbers that have it,  *)
(* functions that are defined by recursion, and parts of sequences.        *)
(***************************************************************************)
EXTENDS SequencesExt, SequenceTheorems, FiniteSetTheorems, WellFoundedInduction, TLAPS

-----------------------------------------------------------------------------
(* Induction and recursion                                                 *)

LessThan == {p \in Nat \X Nat : p[1] < p[2]}

LEMMA LessThanIsWellFounded == IsWellFoundedOn(LessThan, Nat)
  <1>1. OpToRel(<, Nat) = LessThan
    BY DEF OpToRel, LessThan
  <1>. QED
    BY <1>1, NatLessThanWellFounded

LEMMA LeastElement ==
    ASSUME NEW T \in SUBSET Nat, T # {}
    PROVE  \E x \in T : \A y \in T : x <= y
  <1>1. PICK x \in T : \A y \in T : ~(<<y, x>> \in LessThan)
    BY LessThanIsWellFounded, WFMin
  <1>2. ASSUME NEW y \in T
        PROVE  x <= y
    <2>1. <<y, x>> \notin LessThan
      BY <1>1
    <2>2. x \in Nat /\ y \in Nat /\ <<y, x>> \in Nat \X Nat
      OBVIOUS
    <2>3. ~(y < x)
      BY <2>1, <2>2 DEF LessThan
    <2>. QED
      BY <2>2, <2>3
  <1>. QED
    BY <1>2

\* A number has the property if all smaller ones do.
LEMMA StrongInduction ==
    ASSUME NEW S \in SUBSET Nat, NEW P,
           \A k \in S : (\A j \in S : j < k => j \in P) => k \in P
    PROVE  S \subseteq P
  <1> DEFINE T == S \ P
  <1>1. SUFFICES ASSUME T # {} PROVE FALSE
    OBVIOUS
  <1>2. T \in SUBSET Nat
    OBVIOUS
  <1>3. PICK x \in T : \A y \in T : x <= y
    BY <1>1, <1>2, LeastElement
  <1>4. \A j \in S : j < x => j \in P
    BY <1>3
  <1>. QED
    BY <1>3, <1>4

\* The same, one step after the other up to n.
LEMMA StepInduction ==
    ASSUME NEW n \in Nat, NEW P, 0 \in P, \A k \in 1..n : k - 1 \in P => k \in P
    PROVE  0..n \subseteq P
  <1>1. ASSUME NEW k \in 0..n, \A j \in 0..n : j < k => j \in P
        PROVE  k \in P
    <2>1. CASE k = 0
      BY <2>1
    <2>2. CASE k # 0
      <3>1. k \in 1..n /\ k - 1 \in 0..n /\ k - 1 < k
        BY <2>2
      <3>. QED
        BY <1>1, <3>1
    <2>. QED
      BY <2>1, <2>2
  <1>2. 0..n \in SUBSET Nat
    OBVIOUS
  <1>. QED
    BY <1>1, <1>2, StrongInduction

LEMMA MinOf ==
    ASSUME NEW T \in SUBSET Nat, T # {}
    PROVE  Min(T) \in T /\ \A y \in T : Min(T) <= y
  BY LeastElement DEF Min

LEMMA MaxOf ==
    ASSUME NEW T \in SUBSET Nat, T # {}, NEW n \in Nat, \A y \in T : y <= n
    PROVE  Max(T) \in T /\ \A y \in T : y <= Max(T)
  <1> DEFINE U == {m \in Nat : \A y \in T : y <= m}
  <1>1. PICK m \in U : \A k \in U : m <= k
    BY LeastElement
  <1>2. m \in T
    <2>1. SUFFICES ASSUME m \notin T PROVE FALSE
      OBVIOUS
    <2>2. PICK y \in T : TRUE
      OBVIOUS
    <2>3. m > 0 /\ \A z \in T : z <= m - 1
      BY <2>1, <2>2
    <2>4. m - 1 \in U
      BY <2>3
    <2>. QED
      BY <2>4, <1>1
  <1>3. \A y \in T : m >= y
    OBVIOUS
  <1>. QED
    BY <1>2, <1>3 DEF Max

\* Up to m, the value of f at k comes from its value at the parent of k.
FollowsParent(f, m, first, parent, step) ==
    /\ m >= 1 => f[1] = first
    /\ \A k \in 2..m : f[k] = step[<<k, f[parent[k]]>>]

LEMMA ParentRecursion ==
    ASSUME NEW n \in Nat, NEW V, NEW first \in V,
           NEW parent, \A k \in 2..n : parent[k] \in 1..(k - 1),
           NEW step \in [(1..n) \X V -> V]
    PROVE  \E f \in [1..n -> V] : FollowsParent(f, n, first, parent, step)
  <1> DEFINE P == {m \in Nat : \E f \in [1..m -> V] : FollowsParent(f, m, first, parent, step)}
  <1>1. ASSUME NEW m \in 0..n, \A j \in 0..n : j < m => j \in P
        PROVE  m \in P
    <2>1. CASE m = 0
      <3>1. [k \in 1..0 |-> first] \in [1..0 -> V]
        OBVIOUS
      <3>2. FollowsParent([k \in 1..0 |-> first], 0, first, parent, step)
        BY DEF FollowsParent
      <3>. QED
        BY <2>1, <3>1, <3>2
    <2>2. CASE m > 0
      <3>1. m \in Nat /\ m - 1 \in 0..n /\ m - 1 < m
        BY <2>2
      <3>2. m - 1 \in P
        BY <1>1, <3>1
      <3>3. PICK f \in [1..(m - 1) -> V] : FollowsParent(f, m - 1, first, parent, step)
        BY <3>2
      <3>4. PICK v \in V : IF m = 1 THEN v = first ELSE v = step[<<m, f[parent[m]]>>]
        <4>1. CASE m = 1
          BY <4>1
        <4>2. CASE m # 1
          <5>1. m \in 2..n /\ parent[m] \in 1..(m - 1)
            BY <4>2, <2>2
          <5>2. <<m, f[parent[m]]>> \in (1..n) \X V
            BY <5>1
          <5>. QED
            BY <5>2, <4>2
        <4>. QED
          BY <4>1, <4>2
      <3> DEFINE g == [k \in 1..m |-> IF k = m THEN v ELSE f[k]]
      <3>5. /\ g \in [1..m -> V]
            /\ g[m] = v
            /\ \A k \in 1..(m - 1) : g[k] = f[k]
        BY <3>1
      <3>. HIDE DEF g
      <3>6. g[1] = first
        <4>1. CASE m = 1
          BY <4>1, <3>4, <3>5
        <4>2. CASE m # 1
          BY <4>2, <3>1, <3>3, <3>5 DEF FollowsParent
        <4>. QED
          BY <4>1, <4>2
      <3>7. ASSUME NEW k \in 2..m
            PROVE  g[k] = step[<<k, g[parent[k]]>>]
        <4>1. parent[k] \in 1..(k - 1) /\ parent[k] \in 1..(m - 1)
          BY <3>1
        <4>2. g[parent[k]] = f[parent[k]]
          BY <3>5, <4>1
        <4>3. CASE k = m
          BY <4>2, <4>3, <3>4, <3>5
        <4>4. CASE k # m
          <5>1. k \in 2..(m - 1) /\ k \in 1..(m - 1)
            BY <4>4, <3>1
          <5>2. f[k] = step[<<k, f[parent[k]]>>]
            BY <5>1, <3>3 DEF FollowsParent
          <5>. QED
            BY <4>2, <5>1, <5>2, <3>5
        <4>. QED
          BY <4>3, <4>4
      <3>8. FollowsParent(g, m, first, parent, step)
        BY <3>6, <3>7 DEF FollowsParent
      <3>. QED
        BY <3>1, <3>5, <3>8
    <2>. QED
      BY <2>1, <2>2
  <1>2. 0..n \subseteq P
    <2>1. 0..n \in SUBSET Nat
      OBVIOUS
    <2>. HIDE DEF P
    <2>. QED
      BY <1>1, <2>1, StrongInduction
  <1>3. n \in P
    BY <1>2
  <1>. QED
    BY <1>3

\* Up to n, the value of f at k comes from that at k - 1.
FollowsStep(f, n, first, step) ==
    f[0] = first /\ \A k \in 1..n : f[k] = step[<<k, f[k - 1]>>]

LEMMA StepRecursion ==
    ASSUME NEW n \in Nat, NEW V, NEW first \in V, NEW step \in [(1..n) \X V -> V]
    PROVE  \E f \in [0..n -> V] : FollowsStep(f, n, first, step)
  <1> DEFINE parent == [k \in 1..(n + 1) |-> k - 1]
             later == [p \in (1..(n + 1)) \X V |-> IF p[1] = 1 THEN first ELSE step[<<p[1] - 1, p[2]>>]]
  <1>1. /\ n + 1 \in Nat
        /\ \A k \in 2..(n + 1) : parent[k] = k - 1 /\ parent[k] \in 1..(k - 1)
    OBVIOUS
  <1>2. /\ \A k \in 2..(n + 1), v \in V : later[<<k, v>>] = step[<<k - 1, v>>]
        /\ later \in [(1..(n + 1)) \X V -> V]
    <2>1. ASSUME NEW k \in 1..(n + 1), NEW v \in V
          PROVE  (IF k = 1 THEN first ELSE step[<<k - 1, v>>]) \in V
      <3>1. k # 1 => <<k - 1, v>> \in (1..n) \X V
        OBVIOUS
      <3>. QED
        BY <3>1
    <2>2. ASSUME NEW p \in (1..(n + 1)) \X V
          PROVE  (IF p[1] = 1 THEN first ELSE step[<<p[1] - 1, p[2]>>]) \in V
      <3>1. p[1] \in 1..(n + 1) /\ p[2] \in V
        OBVIOUS
      <3>. QED
        BY <2>1, <3>1
    <2>3. \A k \in 2..(n + 1), v \in V : later[<<k, v>>] = step[<<k - 1, v>>]
      OBVIOUS
    <2>. QED
      BY <2>2, <2>3
  <1> HIDE DEF parent, later
  <1>3. PICK g \in [1..(n + 1) -> V] : FollowsParent(g, n + 1, first, parent, later)
    BY <1>1, <1>2, ParentRecursion
  <1> DEFINE f == [k \in 0..n |-> g[k + 1]]
  <1>4. f \in [0..n -> V] /\ f[0] = first
    BY <1>3 DEF FollowsParent
  <1>5. ASSUME NEW k \in 1..n
        PROVE  f[k] = step[<<k, f[k - 1]>>]
    <2>1. k + 1 \in 2..(n + 1) /\ parent[k + 1] = k /\ g[k] \in V /\ f[k] = g[k + 1] /\ f[k - 1] = g[k]
      BY <1>1
    <2>2. g[k + 1] = later[<<k + 1, g[k]>>]
      BY <1>3, <2>1 DEF FollowsParent
    <2>3. later[<<k + 1, g[k]>>] = step[<<(k + 1) - 1, g[k]>>]
      BY <1>2, <2>1
    <2>4. (k + 1) - 1 = k
      OBVIOUS
    <2>. HIDE DEF f
    <2>5. later[<<k + 1, g[k]>>] = step[<<k, g[k]>>]
      BY <2>3, <2>4
    <2>. QED
      BY <2>1, <2>2, <2>5
  <1>. QED
    BY <1>4, <1>5 DEF FollowsStep

-----------------------------------------------------------------------------
(* Parts of sequences                                                      *)

LEMMA PartOfText ==
    ASSUME NEW S, NEW s \in Seq(S), NEW i \in 0..Len(s), NEW j \in i..Len(s)
    PROVE  /\ SubSeq(s, i + 1, j) \in Seq(S) /\ Len(SubSeq(s, i + 1, j)) = j - i
           /\ \A k \in 1..(j - i) : SubSeq(s, i + 1, j)[k] = s[i + k]
  OBVIOUS

LEMMA CutInTwo ==
    ASSUME NEW S, NEW s \in Seq(S), NEW j \in 0..Len(s), NEW i \in 0..j
    PROVE  SubSeq(s, 1, i) \o SubSeq(s, i + 1, j) = SubSeq(s, 1, j)
  <1>1. 1 \in 1..Len(s) + 1 /\ i \in (1 - 1)..Len(s) /\ j \in i..Len(s)
    OBVIOUS
  <1>. QED
    BY <1>1, ConcatAdjacentSubSeq, Zenon

LEMMA WholeText ==
    ASSUME NEW S, NEW s \in Seq(S), NEW i \in 0..Len(s)
    PROVE  /\ SubSeq(s, 1, Len(s)) = s /\ SubSeq(s, 1, 0) = <<>>
           /\ SubSeq(s, 1, i) \in Seq(S) /\ Len(SubSeq(s, 1, i)) = i
           /\ SubSeq(s, i + 1, Len(s)) \in Seq(S) /\ Len(SubSeq(s, i + 1, Len(s))) = Len(s) - i
           /\ SubSeq(s, 1, i) \o SubSeq(s, i + 1, Len(s)) = s
  <1>1. Len(s) \in 0..Len(s) /\ i \in 0..Len(s)
    OBVIOUS
  <1>2. SubSeq(s, 1, i) \o SubSeq(s, i + 1, Len(s)) = SubSeq(s, 1, Len(s))
    BY <1>1, CutInTwo, Zenon
  <1>3. SubSeq(s, 1, Len(s)) = s
    OBVIOUS
  <1>4. SubSeq(s, 1, 0) = <<>>
    OBVIOUS
  <1>5. /\ SubSeq(s, 1, i) \in Seq(S) /\ Len(SubSeq(s, 1, i)) = i
        /\ SubSeq(s, i + 1, Len(s)) \in Seq(S) /\ Len(SubSeq(s, i + 1, Len(s))) = Len(s) - i
    OBVIOUS
  <1>. QED
    BY <1>2, <1>3, <1>4, <1>5

\* A part of a part that begins with it.
LEMMA PartOfStart ==
    ASSUME NEW S, NEW s \in Seq(S), NEW j \in 0..Len(s), NEW i \in 0..j
    PROVE  /\ SubSeq(SubSeq(s, 1, j), 1, i) = SubSeq(s, 1, i)
           /\ SubSeq(SubSeq(s, 1, j), i + 1, j) = SubSeq(s, i + 1, j)
  <1> DEFINE p == SubSeq(s, 1, j)
  <1>1. /\ p \in Seq(S) /\ Len(p) = j /\ j \in Nat /\ i \in Nat
        /\ \A k \in 1..j : p[k] = s[k]
    OBVIOUS
  <1>2. /\ SubSeq(s, 1, i) \in Seq(S) /\ Len(SubSeq(s, 1, i)) = i
        /\ SubSeq(s, i + 1, j) \in Seq(S) /\ Len(SubSeq(s, i + 1, j)) = j - i
        /\ \A k \in 1..i : SubSeq(s, 1, i)[k] = s[k]
        /\ \A k \in 1..(j - i) : SubSeq(s, i + 1, j)[k] = s[i + k]
    OBVIOUS
  <1>. HIDE DEF p
  <1>3. /\ SubSeq(p, 1, i) \in Seq(S) /\ Len(SubSeq(p, 1, i)) = i
        /\ SubSeq(p, i + 1, j) \in Seq(S) /\ Len(SubSeq(p, i + 1, j)) = j - i
        /\ \A k \in 1..i : SubSeq(p, 1, i)[k] = p[k]
        /\ \A k \in 1..(j - i) : SubSeq(p, i + 1, j)[k] = p[i + k]
    BY <1>1
  <1>4. SubSeq(p, 1, i) = SubSeq(s, 1, i)
    <2>1. \A k \in 1..Len(SubSeq(p, 1, i)) : SubSeq(p, 1, i)[k] = SubSeq(s, 1, i)[k]
      BY <1>1, <1>2, <1>3
    <2>. QED
      BY <1>2, <1>3, <2>1, SeqEqual
  <1>5. SubSeq(p, i + 1, j) = SubSeq(s, i + 1, j)
    <2>1. \A k \in 1..Len(SubSeq(p, i + 1, j)) : SubSeq(p, i + 1, j)[k] = SubSeq(s, i + 1, j)[k]
      BY <1>1, <1>2, <1>3
    <2>. QED
      BY <1>2, <1>3, <2>1, SeqEqual
  <1>. QED
    BY <1>4, <1>5 DEF p

LEMMA ConcatEntries ==
    ASSUME NEW S, NEW s \in Seq(S), NEW t \in Seq(S)
    PROVE  /\ s \o t \in Seq(S) /\ Len(s \o t) = Len(s) + Len(t)
           /\ \A k \in 1..Len(s) : (s \o t)[k] = s[k]
           /\ \A k \in 1..Len(t) : (s \o t)[Len(s) + k] = t[k]
  OBVIOUS

LEMMA EntryOfConcat ==
    ASSUME NEW S, NEW s \in Seq(S), NEW t \in Seq(S), NEW i \in DOMAIN (s \o t)
    PROVE  \/ \E k \in DOMAIN s : (s \o t)[i] = s[k]
           \/ \E k \in DOMAIN t : (s \o t)[i] = t[k]
  <1>1. /\ Len(s) \in Nat /\ Len(t) \in Nat /\ i \in 1..(Len(s) + Len(t))
        /\ DOMAIN s = 1..Len(s) /\ DOMAIN t = 1..Len(t)
    OBVIOUS
  <1>2. CASE i <= Len(s)
    <2>1. i \in 1..Len(s)
      BY <1>1, <1>2
    <2>. QED
      BY <1>1, <2>1, ConcatEntries
  <1>3. CASE ~(i <= Len(s))
    <2>1. i - Len(s) \in 1..Len(t) /\ Len(s) + (i - Len(s)) = i
      BY <1>1, <1>3
    <2>2. (s \o t)[Len(s) + (i - Len(s))] = t[i - Len(s)]
      BY <2>1, ConcatEntries
    <2>. QED
      BY <1>1, <2>1, <2>2
  <1>. QED
    BY <1>2, <1>3

LEMMA PartOfConcat ==
    ASSUME NEW S, NEW s \in Seq(S), NEW t \in Seq(S)
    PROVE  /\ s \o t \in Seq(S) /\ Len(s \o t) = Len(s) + Len(t)
           /\ Len(s) \in Nat /\ Len(t) \in Nat
           /\ \A k \in 1..Len(s) : (s \o t)[k] = s[k]
           /\ \A k \in 1..Len(t) : (s \o t)[Len(s) + k] = t[k]
           /\ \A k \in 0..Len(s) : SubSeq(s \o t, 1, k) = SubSeq(s, 1, k)
           /\ \A k \in 0..Len(t) : SubSeq(s \o t, 1, Len(s) + k) = s \o SubSeq(t, 1, k)
  <1>1. /\ s \o t \in Seq(S) /\ Len(s \o t) = Len(s) + Len(t)
        /\ Len(s) \in Nat /\ Len(t) \in Nat
        /\ \A k \in 1..Len(s) : (s \o t)[k] = s[k]
        /\ \A k \in 1..Len(t) : (s \o t)[Len(s) + k] = t[k]
    OBVIOUS
  <1>2. ASSUME NEW k \in 0..Len(s)
        PROVE  SubSeq(s \o t, 1, k) = SubSeq(s, 1, k)
    OBVIOUS
  <1>3. ASSUME NEW k \in 0..Len(t)
        PROVE  SubSeq(s \o t, 1, Len(s) + k) = s \o SubSeq(t, 1, k)
    <2> DEFINE l == SubSeq(s \o t, 1, Len(s) + k)
               r == s \o SubSeq(t, 1, k)
    <2>1. Len(s) + k \in 0..Len(s \o t) /\ Len(s) + k \in Nat /\ k \in Nat
      BY <1>1
    <2>2. /\ l \in Seq(S) /\ Len(l) = Len(s) + k
          /\ \A n \in 1..Len(l) : l[n] = (s \o t)[n]
      <3> HIDE DEF r
      <3> DEFINE u == s \o t
      <3>1. u \in Seq(S) /\ Len(s) + k \in 0..Len(u)
        BY <1>1, <2>1
      <3> HIDE DEF u
      <3>2. SubSeq(u, 1, Len(s) + k) \in Seq(S) /\ Len(SubSeq(u, 1, Len(s) + k)) = Len(s) + k
            /\ \A n \in 1..(Len(s) + k) : SubSeq(u, 1, Len(s) + k)[n] = u[n]
        BY <3>1
      <3>. QED
        BY <3>2 DEF u
    <2>3. SubSeq(t, 1, k) \in Seq(S) /\ Len(SubSeq(t, 1, k)) = k
          /\ \A n \in 1..k : SubSeq(t, 1, k)[n] = t[n]
      BY <1>1
    <2>4. /\ r \in Seq(S) /\ Len(r) = Len(s) + k
          /\ \A n \in 1..Len(s) : r[n] = s[n]
          /\ \A n \in 1..k : r[Len(s) + n] = t[n]
      BY <1>1, <2>3
    <2>. HIDE DEF l, r
    <2>5. ASSUME NEW n \in 1..Len(l)
          PROVE  l[n] = r[n]
      <3>1. CASE n <= Len(s)
        BY <1>1, <2>2, <2>4, <3>1
      <3>2. CASE n > Len(s)
        <4>1. n - Len(s) \in 1..k /\ n - Len(s) \in 1..Len(t) /\ n = Len(s) + (n - Len(s))
          BY <1>1, <2>1, <2>2, <3>2
        <4>. QED
          BY <1>1, <2>2, <2>4, <4>1
      <3>. QED
        BY <1>1, <2>2, <3>1, <3>2
    <2>6. l = r
      BY <2>2, <2>4, <2>5, SeqEqual
    <2>. QED
      BY <2>6 DEF l, r
  <1>. QED
    BY <1>1, <1>2, <1>3

-----------------------------------------------------------------------------
(* Finite sets and sequences                                               *)

LEMMA FiniteImage ==
    ASSUME NEW S, IsFiniteSet(S), NEW f
    PROVE  IsFiniteSet({f[x] : x \in S})
  <1> DEFINE T == {f[x] : x \in S}
             g == [x \in S |-> f[x]]
  <1>1. g \in Surjection(S, T)
    BY DEF Surjection
  <1>. HIDE DEF g
  <1>. QED
    BY <1>1, FS_Surjection

LEMMA ElementSequence ==
    ASSUME NEW S, IsFiniteSet(S)
    PROVE  /\ SetToSeq(S) \in Seq(S) /\ Cardinality(S) \in Nat
           /\ Len(SetToSeq(S)) = Cardinality(S) /\ DOMAIN SetToSeq(S) = 1..Cardinality(S)
           /\ IsInjective(SetToSeq(S))
           /\ Range(SetToSeq(S)) = S
  <1> DEFINE n == Cardinality(S)
  <1>1. n \in Nat /\ ExistsBijection(1..n, S)
    BY FS_CardinalityType
  <1>2. PICK f \in [1..n -> S] : IsInjective(f)
    BY <1>1 DEF ExistsBijection, Bijection, Injection
  <1>3. SetToSeq(S) \in [1..n -> S] /\ IsInjective(SetToSeq(S))
    BY <1>2 DEF SetToSeq
  <1> DEFINE s == SetToSeq(S)
  <1>. HIDE DEF n, s
  <1>4. s \in Injection(1..n, S)
    BY <1>3 DEF Injection, s
  <1>5. IsFiniteSet(1..n) /\ Cardinality(1..n) = n
    BY <1>1, FS_Interval
  <1>6. s \in Surjection(1..n, S)
    <2>1. Cardinality(1..n) = Cardinality(S)
      BY <1>5 DEF n
    <2>. QED
      BY <1>4, <2>1, FS_Injection, Zenon
  <1>7. Range(s) = S
    BY <1>3, <1>6 DEF Surjection, Range, s
  <1>8. s \in Seq(S) /\ Len(s) = n /\ DOMAIN s = 1..n
    BY <1>1, <1>3 DEF s
  <1>. QED
    BY <1>1, <1>3, <1>7, <1>8 DEF s, n

\* Each entry of a flattened sequence has a place of its own.
Placed(flat, ss, place) ==
    /\ \A i \in DOMAIN flat : /\ place[i][1] \in DOMAIN ss
                              /\ place[i][2] \in DOMAIN ss[place[i][1]]
                              /\ flat[i] = ss[place[i][1]][place[i][2]]
    /\ \A i, j \in DOMAIN flat : i # j => place[i][1] # place[j][1] \/ place[i][2] # place[j][2]

LEMMA ConcatPlaces ==
    ASSUME NEW V, NEW ss \in Seq(Seq(V)), NEW n \in 1..Len(ss), NEW s \in Seq(V),
           NEW place, Placed(s, SubSeq(ss, 1, n - 1), place)
    PROVE  \E later : Placed(s \o ss[n], SubSeq(ss, 1, n), later)
  <1> DEFINE before == SubSeq(ss, 1, n - 1)
             upto == SubSeq(ss, 1, n)
             t == ss[n]
             all == s \o t
             later == [i \in 1..(Len(s) + Len(t)) |-> IF i <= Len(s) THEN place[i] ELSE <<n, i - Len(s)>>]
  <1>1. /\ n \in Nat /\ n - 1 \in Nat /\ t \in Seq(V) /\ Len(s) \in Nat /\ Len(t) \in Nat
        /\ DOMAIN before = 1..(n - 1) /\ DOMAIN upto = 1..n
        /\ \A k \in 1..(n - 1) : before[k] = ss[k] /\ upto[k] = ss[k]
        /\ upto[n] = t
    OBVIOUS
  <1>2. /\ DOMAIN all = 1..(Len(s) + Len(t)) /\ DOMAIN s = 1..Len(s) /\ DOMAIN t = 1..Len(t)
        /\ \A k \in 1..Len(s) : all[k] = s[k]
        /\ \A k \in 1..Len(t) : all[Len(s) + k] = t[k]
    <2>. HIDE DEF t
    <2>. QED
      BY <1>1
  <1>3. ASSUME NEW i \in DOMAIN all
        PROVE  \/ i \in DOMAIN s /\ later[i] = place[i] /\ all[i] = s[i]
               \/ /\ i \notin DOMAIN s /\ i - Len(s) \in DOMAIN t /\ later[i] = <<n, i - Len(s)>>
                  /\ all[i] = t[i - Len(s)]
    <2>. HIDE DEF all, t
    <2>1. i \in 1..(Len(s) + Len(t)) /\ i \in Nat
      BY <1>1, <1>2
    <2>2. CASE i <= Len(s)
      BY <1>1, <1>2, <2>1, <2>2
    <2>3. CASE ~(i <= Len(s))
      <3>1. i - Len(s) \in 1..Len(t) /\ Len(s) + (i - Len(s)) = i
        BY <1>1, <2>1, <2>3
      <3>. QED
        BY <1>1, <1>2, <2>1, <2>3, <3>1
    <2>. QED
      BY <2>2, <2>3
  <1>4. ASSUME NEW i \in DOMAIN s
        PROVE  /\ place[i][1] \in 1..(n - 1) /\ place[i][2] \in DOMAIN ss[place[i][1]]
               /\ s[i] = ss[place[i][1]][place[i][2]]
    <2> DEFINE P(a, b) == a \in DOMAIN before /\ b \in DOMAIN before[a] /\ s[i] = before[a][b]
    <2>1. P(place[i][1], place[i][2])
      BY Zenon DEF Placed
    <2>2. ASSUME NEW a, NEW b, P(a, b)
          PROVE  a \in 1..(n - 1) /\ b \in DOMAIN ss[a] /\ s[i] = ss[a][b]
      <3>. HIDE DEF before
      <3>. QED
        BY <1>1, <2>2
    <2>. HIDE DEF P
    <2>. QED
      BY <2>1, <2>2
  <1>. HIDE DEF all, t, later, upto, before
  <1>5. ASSUME NEW i \in DOMAIN all
        PROVE  /\ later[i][1] \in DOMAIN upto
               /\ later[i][2] \in DOMAIN upto[later[i][1]]
               /\ all[i] = upto[later[i][1]][later[i][2]]
    <2>1. CASE i \in DOMAIN s /\ later[i] = place[i] /\ all[i] = s[i]
      <3> DEFINE a == place[i][1]
      <3>1. a \in 1..(n - 1) /\ place[i][2] \in DOMAIN ss[a] /\ s[i] = ss[a][place[i][2]]
        BY <1>4, <2>1
      <3>2. later[i][1] = a /\ later[i][2] = place[i][2]
        BY <2>1
      <3> HIDE DEF a
      <3>3. a \in 1..n /\ upto[a] = ss[a]
        BY <1>1, <3>1
      <3>. QED
        BY <1>1, <2>1, <3>1, <3>2, <3>3
    <2>2. CASE i - Len(s) \in DOMAIN t /\ later[i] = <<n, i - Len(s)>> /\ all[i] = t[i - Len(s)]
      BY <1>1, <2>2
    <2>. QED
      BY <1>3, <2>1, <2>2
  <1>6. ASSUME NEW i \in DOMAIN all, NEW j \in DOMAIN all, i # j
        PROVE  later[i][1] # later[j][1] \/ later[i][2] # later[j][2]
    <2>1. CASE i \in DOMAIN s /\ j \in DOMAIN s
      <3>1. place[i][1] # place[j][1] \/ place[i][2] # place[j][2]
        BY <1>6, <2>1 DEF Placed
      <3>2. later[i] = place[i] /\ later[j] = place[j]
        BY <1>3, <2>1
      <3>. QED
        BY <3>1, <3>2
    <2>2. CASE i \notin DOMAIN s /\ j \notin DOMAIN s
      <3>1. i - Len(s) # j - Len(s)
        BY <1>1, <1>2, <1>6
      <3>. QED
        BY <1>3, <2>2, <3>1
    <2>3. CASE i \in DOMAIN s /\ j \notin DOMAIN s
      <3>1. later[i][1] # n
        <4>1. later[i] = place[i]
          BY <1>3, <2>3
        <4>2. place[i][1] \in 1..(n - 1)
          BY <1>4, <2>3
        <4>. QED
          BY <1>1, <4>1, <4>2
      <3>2. later[j][1] = n
        BY <1>3, <2>3
      <3>. QED
        BY <3>1, <3>2
    <2>4. CASE i \notin DOMAIN s /\ j \in DOMAIN s
      <3>1. later[j][1] # n
        <4>1. later[j] = place[j]
          BY <1>3, <2>4
        <4>2. place[j][1] \in 1..(n - 1)
          BY <1>4, <2>4
        <4>. QED
          BY <1>1, <4>1, <4>2
      <3>2. later[i][1] = n
        BY <1>3, <2>4
      <3>. QED
        BY <3>1, <3>2
    <2>. QED
      BY <2>1, <2>2, <2>3, <2>4
  <1>7. Placed(all, upto, later)
    BY <1>5, <1>6 DEF Placed
  <1>. QED
    BY <1>7 DEF all, upto, t

\* The steps of FlattenSeq.
LEMMA FlattenSteps ==
    ASSUME NEW V, NEW ss \in Seq(Seq(V))
    PROVE  \E f \in [0..Len(ss) -> Seq(V)] : /\ f[0] = << >> /\ FlattenSeq(ss) = f[Len(ss)]
                                             /\ \A k \in 1..Len(ss) : f[k] = f[k - 1] \o ss[k]
  <1> DEFINE n == Len(ss)
             Def(g) == [i \in 1..n |-> IF i = 1 THEN ss[i] ELSE g[i - 1] \o ss[i]]
             X == CHOOSE g : g = Def(g)
             step == [p \in (1..n) \X Seq(V) |-> p[2] \o ss[p[1]]]
  <1>1. n \in Nat /\ \A k \in 1..n : ss[k] \in Seq(V)
    OBVIOUS
  <1>2. /\ step \in [(1..n) \X Seq(V) -> Seq(V)]
        /\ \A k \in 1..n, s \in Seq(V) : step[<<k, s>>] = s \o ss[k]
    <2>1. ASSUME NEW p \in (1..n) \X Seq(V) PROVE p[2] \o ss[p[1]] \in Seq(V)
      <3>1. p[2] \in Seq(V) /\ ss[p[1]] \in Seq(V)
        BY <1>1
      <3>. QED
        BY <3>1
    <2>. QED
      BY <2>1
  <1>3. CASE n = 0
    <2>1. FlattenSeq(ss) = << >>
      BY <1>3 DEF FlattenSeq
    <2> DEFINE f == [k \in 0..n |-> << >>]
    <2>2. f \in [0..n -> Seq(V)] /\ f[0] = << >> /\ f[n] = << >>
      BY <1>3
    <2>3. \A k \in 1..n : f[k] = f[k - 1] \o ss[k]
      BY <1>3
    <2>. HIDE DEF f
    <2>. QED
      BY <2>1, <2>2, <2>3
  <1>4. CASE n # 0
    <2>1. FlattenSeq(ss) = X[n]
      BY <1>4 DEF FlattenSeq
    <2>. HIDE DEF step
    <2>2. << >> \in Seq(V)
      OBVIOUS
    <2>3. PICK f \in [0..n -> Seq(V)] : FollowsStep(f, n, << >>, step)
      <3>. HIDE DEF n
      <3>. QED
        BY <1>1, <1>2, <2>2, StepRecursion
    <2>4. f[0] = << >> /\ \A k \in 1..n : f[k] = f[k - 1] \o ss[k]
      <3>1. ASSUME NEW k \in 1..n PROVE f[k] = f[k - 1] \o ss[k]
        <4>1. k - 1 \in 0..n
          BY <1>1
        <4>2. f[k - 1] \in Seq(V)
          BY <2>3, <4>1
        <4>3. f[k] = step[<<k, f[k - 1]>>]
          BY <2>3 DEF FollowsStep
        <4>. QED
          BY <1>2, <4>2, <4>3
      <3>. QED
        BY <2>3, <3>1 DEF FollowsStep
    <2>5. \A g : (g = Def(g)) => \A k \in 1..n : g[k] = f[k]
      <3>. SUFFICES ASSUME NEW g, g = Def(g) PROVE \A k \in 1..n : g[k] = f[k]
        OBVIOUS
      <3> DEFINE P == {k \in Nat : k \in 1..n => g[k] = f[k]}
      <3>1. g[1] = ss[1] /\ \A k \in 2..n : g[k] = g[k - 1] \o ss[k]
        <4>1. Def(g)[1] = ss[1]
          BY <1>1, <1>4
        <4>2. ASSUME NEW k \in 2..n PROVE Def(g)[k] = g[k - 1] \o ss[k]
          <5>1. k \in 1..n /\ k # 1
            BY <1>1
          <5>. QED
            BY <5>1
        <4>. HIDE DEF Def
        <4>. QED
          BY <4>1, <4>2
      <3>. HIDE DEF Def
      <3>2. 0 \in P
        OBVIOUS
      <3>3. ASSUME NEW k \in 1..n, k - 1 \in P PROVE k \in P
        <4>1. CASE k = 1
          <5>1. f[1] = f[0] \o ss[1]
            <6>1. 1 - 1 = 0 /\ 1 \in 1..n
              BY <4>1
            <6>. HIDE DEF n
            <6>. QED
              BY <2>4, <6>1
          <5>2. ss[1] \in Seq(V)
            BY <1>1, <4>1
          <5>3. << >> \o ss[1] = ss[1]
            BY <5>2
          <5>. QED
            BY <2>4, <3>1, <4>1, <5>1, <5>3
        <4>2. CASE k # 1
          <5>1. k \in 2..n /\ k - 1 \in 1..n /\ k \in Nat
            BY <1>1, <4>2
          <5>2. g[k - 1] = f[k - 1]
            BY <3>3, <5>1
          <5>. QED
            BY <2>4, <3>1, <5>1, <5>2
        <4>. QED
          BY <4>1, <4>2
      <3>4. 0..n \subseteq P
        <4>. HIDE DEF P, n
        <4>. QED
          BY <1>1, <3>2, <3>3, StepInduction
      <3>5. \A k \in 1..n : k \in 0..n
        BY <1>1
      <3>. QED
        <4>. HIDE DEF n
        <4>. QED
          BY <3>4, <3>5
    <2>6. X = Def(X)
      <3> DEFINE g == [k \in 1..n |-> f[k]]
      <3>1. ASSUME NEW k \in 1..n PROVE g[k] = Def(g)[k]
        <4>1. CASE k = 1
          <5>1. f[1] = f[0] \o ss[1]
            <6>1. 1 - 1 = 0 /\ 1 \in 1..n
              BY <4>1
            <6>. HIDE DEF n
            <6>. QED
              BY <2>4, <6>1
          <5>2. ss[1] \in Seq(V)
            BY <1>1, <4>1
          <5>3. << >> \o ss[1] = ss[1]
            BY <5>2
          <5>. QED
            BY <2>4, <4>1, <5>1, <5>3
        <4>2. CASE k # 1
          <5>1. k - 1 \in 1..n
            BY <1>1, <4>2
          <5>. QED
            BY <2>4, <4>2, <5>1
        <4>. QED
          BY <4>1, <4>2
      <3>2. g = Def(g)
        <4>1. Def(g) = [k \in 1..n |-> Def(g)[k]]
          OBVIOUS
        <4>. HIDE DEF Def
        <4>. QED
          BY <3>1, <4>1
      <3>. HIDE DEF Def, g
      <3>. QED
        BY <3>2
    <2>7. X[n] = f[n]
      <3>1. n \in 1..n
        BY <1>1, <1>4
      <3>. HIDE DEF X, Def, n
      <3>. QED
        BY <2>5, <2>6, <3>1
    <2>. QED
      BY <2>1, <2>3, <2>4, <2>7
  <1>. QED
    BY <1>3, <1>4

LEMMA FlattenedEntries ==
    ASSUME NEW V, NEW ss \in Seq(Seq(V))
    PROVE  FlattenSeq(ss) \in Seq(V) /\ \E place : Placed(FlattenSeq(ss), ss, place)
  <1> DEFINE n == Len(ss)
             upto(k) == SubSeq(ss, 1, k)
  <1>1. n \in Nat /\ \A k \in 1..n : ss[k] \in Seq(V)
    OBVIOUS
  <1>2. PICK f \in [0..n -> Seq(V)] : /\ f[0] = << >> /\ FlattenSeq(ss) = f[n]
                                      /\ \A k \in 1..n : f[k] = f[k - 1] \o ss[k]
    BY FlattenSteps
  <1> DEFINE P == {k \in Nat : \E place : Placed(f[k], upto(k), place)}
  <1>3. 0 \in P
    <2>1. Placed(<< >>, upto(0), << >>)
      BY DEF Placed
    <2>. HIDE DEF upto
    <2>. QED
      BY <1>2, <2>1
  <1>4. ASSUME NEW k \in 1..n, k - 1 \in P PROVE k \in P
    <2>1. k \in 1..Len(ss) /\ k \in Nat /\ k - 1 \in 0..n
      BY <1>1
    <2>2. PICK place : Placed(f[k - 1], upto(k - 1), place)
      BY <1>4
    <2>3. f[k - 1] \in Seq(V) /\ f[k] = f[k - 1] \o ss[k]
      BY <1>2, <2>1
    <2>4. \E later : Placed(f[k - 1] \o ss[k], upto(k), later)
      BY <2>1, <2>2, <2>3, ConcatPlaces
    <2>. HIDE DEF upto
    <2>. QED
      BY <2>1, <2>3, <2>4
  <1>5. n \in P
    <2>. HIDE DEF P, n
    <2>1. n \in 0..n
      BY <1>1
    <2>. QED
      BY <1>1, <1>3, <1>4, <2>1, StepInduction
  <1>6. upto(n) = ss
    OBVIOUS
  <1>7. f[n] \in Seq(V)
    BY <1>1, <1>2
  <1>. HIDE DEF n, upto
  <1>. QED
    BY <1>2, <1>5, <1>6, <1>7

-----------------------------------------------------------------------------
(* What is left of a sequence when some of its entries are taken out.      *)

\* How many of the numbers are not behind k.
KeptUpTo(keep, k) == Cardinality({j \in keep : j <= k})

LEMMA KeptUpToType ==
    ASSUME NEW keep \in SUBSET Nat, NEW k \in Nat
    PROVE  IsFiniteSet({j \in keep : j <= k}) /\ KeptUpTo(keep, k) \in Nat
  <1>1. IsFiniteSet(0..k)
    <2>1. 0 \in Int /\ k \in Int
      OBVIOUS
    <2>. QED
      BY <2>1, FS_Interval
  <1>2. {j \in keep : j <= k} \subseteq 0..k
    <2>1. \A j \in keep : j \in Nat
      OBVIOUS
    <2>2. ASSUME NEW j \in keep, j <= k PROVE j \in 0..k
      BY <2>1, <2>2
    <2>. QED
      BY <2>2
  <1>3. IsFiniteSet({j \in keep : j <= k})
    BY <1>1, <1>2, FS_Subset
  <1>. QED
    BY <1>3, FS_CardinalityType DEF KeptUpTo

LEMMA KeptUpToNext ==
    ASSUME NEW keep \in SUBSET Nat, NEW k \in Nat, k # 0
    PROVE  /\ k \in keep => KeptUpTo(keep, k) = KeptUpTo(keep, k - 1) + 1
           /\ k \notin keep => KeptUpTo(keep, k) = KeptUpTo(keep, k - 1)
  <1> DEFINE before == {j \in keep : j <= k - 1}
             upto == {j \in keep : j <= k}
  <1>1. k - 1 \in Nat /\ \A j \in keep : j \in Nat
    OBVIOUS
  <1>2. IsFiniteSet(before)
    BY <1>1, KeptUpToType
  <1>3. CASE k \in keep
    <2>1. k \notin before
      OBVIOUS
    <2>2. upto = before \union {k}
      <3>1. \A j \in keep : j <= k <=> j <= k - 1 \/ j = k
        BY <1>1
      <3>. QED
        BY <1>3, <3>1
    <2>3. Cardinality(upto) = Cardinality(before) + 1
      <3>. HIDE DEF before, upto
      <3>. QED
        BY <1>2, <2>1, <2>2, FS_AddElement
    <2>. QED
      BY <1>3, <2>3 DEF KeptUpTo
  <1>4. CASE k \notin keep
    <2>1. \A j \in keep : j <= k <=> j <= k - 1
      BY <1>1, <1>4
    <2>2. upto = before
      BY <2>1
    <2>. QED
      BY <1>4, <2>2 DEF KeptUpTo
  <1>. QED
    BY <1>3, <1>4

LEMMA KeptUpToGrows ==
    ASSUME NEW keep \in SUBSET Nat, NEW l \in Nat, NEW k \in Nat, l < k
    PROVE  KeptUpTo(keep, l) <= KeptUpTo(keep, k) /\ (k \in keep => KeptUpTo(keep, l) < KeptUpTo(keep, k))
  <1>1. ASSUME NEW i \in Nat, l <= i PROVE KeptUpTo(keep, l) <= KeptUpTo(keep, i)
    <2>1. {j \in keep : j <= l} \subseteq {j \in keep : j <= i}
      <3>1. \A j \in keep : j \in Nat
        OBVIOUS
      <3>2. \A j \in keep : j <= l => j <= i
        BY <1>1, <3>1
      <3>. QED
        BY <3>2
    <2>2. IsFiniteSet({j \in keep : j <= i})
      BY KeptUpToType
    <2>. QED
      BY <2>1, <2>2, FS_Subset DEF KeptUpTo
  <1>2. KeptUpTo(keep, l) <= KeptUpTo(keep, k) /\ KeptUpTo(keep, l) <= KeptUpTo(keep, k - 1)
    BY <1>1
  <1>3. KeptUpTo(keep, l) \in Nat /\ KeptUpTo(keep, k - 1) \in Nat
    <2>1. k - 1 \in Nat
      OBVIOUS
    <2>. QED
      BY <2>1, KeptUpToType
  <1>4. k \in keep => KeptUpTo(keep, k) = KeptUpTo(keep, k - 1) + 1
    BY KeptUpToNext
  <1>. QED
    BY <1>2, <1>3, <1>4

LEMMA CountBetween ==
    ASSUME NEW keep \in SUBSET Nat, NEW l \in Nat, NEW k \in Nat, l <= k
    PROVE  /\ IsFiniteSet({j \in keep : l < j /\ j <= k})
           /\ Cardinality({j \in keep : l < j /\ j <= k}) = KeptUpTo(keep, k) - KeptUpTo(keep, l)
  <1> DEFINE S == {j \in keep : j <= l}
             T == {j \in keep : l < j /\ j <= k}
             all == {j \in keep : j <= k}
  <1>1. \A j \in keep : j \in Nat
    OBVIOUS
  <1>2. S \intersect T = {} /\ S \union T = all
    <2>1. \A j \in keep : /\ ~(j <= l /\ l < j)
                          /\ j <= k <=> j <= l \/ (l < j /\ j <= k)
      BY <1>1
    <2>. QED
      BY <2>1
  <1>3. IsFiniteSet(S) /\ IsFiniteSet(all) /\ KeptUpTo(keep, l) \in Nat /\ KeptUpTo(keep, k) \in Nat
    BY KeptUpToType
  <1>4. T \subseteq all
    OBVIOUS
  <1>5. Cardinality(S) = KeptUpTo(keep, l) /\ Cardinality(all) = KeptUpTo(keep, k)
    BY DEF KeptUpTo
  <1>. HIDE DEF S, T, all
  <1>6. IsFiniteSet(T)
    BY <1>3, <1>4, FS_Subset
  <1>7. Cardinality(S \union T) = Cardinality(S) + Cardinality(T) - Cardinality(S \intersect T)
    BY <1>3, <1>6, FS_Union
  <1>8. Cardinality(S \intersect T) = 0 /\ Cardinality(T) \in Nat
    BY <1>2, <1>6, FS_EmptySet, FS_CardinalityType
  <1>9. Cardinality(T) = KeptUpTo(keep, k) - KeptUpTo(keep, l)
    <2>1. KeptUpTo(keep, k) = KeptUpTo(keep, l) + Cardinality(T) - 0
      BY Zenon, <1>2, <1>5, <1>7, <1>8
    <2>2. ASSUME NEW x \in Nat, NEW y \in Nat, NEW z \in Nat, x = y + z - 0 PROVE z = x - y
      BY <2>2
    <2>. QED
      BY <1>3, <1>8, <2>1, <2>2
  <1>. QED
    BY <1>6, <1>9 DEF T

\* The sequences of ss have an entry each for the numbers in keep, and none for
\* the others.
HoldsEntries(ss, n, keep, line, V) ==
    /\ n \in Nat /\ keep \in SUBSET (1..n) /\ line \in [keep -> V]
    /\ ss \in Seq(Seq(V)) /\ Len(ss) = n
    /\ \A k \in 1..n : ss[k] = IF k \in keep THEN <<line[k]>> ELSE << >>

LEMMA KeptEntries ==
    ASSUME NEW V, NEW n, NEW keep, NEW line, NEW ss, HoldsEntries(ss, n, keep, line, V)
    PROVE  /\ FlattenSeq(ss) \in Seq(V) /\ Len(FlattenSeq(ss)) = KeptUpTo(keep, n)
           /\ \A k \in keep : KeptUpTo(keep, k) \in 1..KeptUpTo(keep, n) /\ FlattenSeq(ss)[KeptUpTo(keep, k)] = line[k]
           /\ \A p \in 1..KeptUpTo(keep, n) : \E k \in keep : KeptUpTo(keep, k) = p
  <1>2. /\ n \in Nat /\ keep \in SUBSET (1..n) /\ line \in [keep -> V]
        /\ ss \in Seq(Seq(V)) /\ Len(ss) = n
        /\ \A k \in 1..n : ss[k] = IF k \in keep THEN <<line[k]>> ELSE << >>
    BY DEF HoldsEntries
  <1> USE <1>2
  <1>1. \A k \in 1..n : ss[k] \in Seq(V) /\ Len(ss[k]) = IF k \in keep THEN 1 ELSE 0
    OBVIOUS
  <1>3. PICK f \in [0..n -> Seq(V)] : /\ f[0] = << >> /\ FlattenSeq(ss) = f[n]
                                      /\ \A k \in 1..n : f[k] = f[k - 1] \o ss[k]
    <2>1. \E f \in [0..Len(ss) -> Seq(V)] : /\ f[0] = << >> /\ FlattenSeq(ss) = f[Len(ss)]
                                             /\ \A k \in 1..Len(ss) : f[k] = f[k - 1] \o ss[k]
      BY FlattenSteps
    <2>. QED
      BY <2>1
  <1>4. keep \in SUBSET Nat /\ \A k \in 0..n : KeptUpTo(keep, k) \in Nat
    <2>1. keep \in SUBSET Nat /\ \A k \in 0..n : k \in Nat
      OBVIOUS
    <2>. QED
      BY <2>1, KeptUpToType
  <1> DEFINE Good(k) == /\ Len(f[k]) = KeptUpTo(keep, k)
                        /\ \A j \in keep : j <= k => /\ KeptUpTo(keep, j) \in 1..KeptUpTo(keep, k)
                                                     /\ f[k][KeptUpTo(keep, j)] = line[j]
                        /\ \A p \in 1..KeptUpTo(keep, k) : \E j \in keep : KeptUpTo(keep, j) = p
             P == {k \in Nat : Good(k)}
  <1>5. 0 \in P
    <2>1. {j \in keep : j <= 0} = {}
      <3>1. \A j \in keep : ~(j <= 0)
        OBVIOUS
      <3>. QED
        BY <3>1
    <2>2. KeptUpTo(keep, 0) = 0
      BY <2>1, FS_EmptySet DEF KeptUpTo
    <2>. QED
      BY <1>3, <2>2
  <1>6. ASSUME NEW k \in 1..n, k - 1 \in P PROVE k \in P
    <2> DEFINE s == f[k - 1]
               u(j) == KeptUpTo(keep, j)
    <2>1. k \in Nat /\ k # 0 /\ k - 1 \in 0..n /\ k - 1 \in Nat
      OBVIOUS
    <2>2. Good(k - 1)
      BY <1>6
    <2>3. s \in Seq(V) /\ f[k] = s \o ss[k] /\ ss[k] \in Seq(V) /\ u(k - 1) \in Nat /\ Len(s) = u(k - 1)
      BY <1>1, <1>3, <1>4, <2>1, <2>2
    <2>4. CASE k \in keep
      <3>1. u(k) = u(k - 1) + 1
        BY <1>4, <2>1, <2>4, KeptUpToNext
      <3>2. ss[k] = <<line[k]>> /\ line[k] \in V
        BY <2>4
      <3>. HIDE DEF u, s
      <3>3. Len(f[k]) = u(k) /\ f[k][u(k)] = line[k] /\ \A p \in 1..u(k - 1) : f[k][p] = s[p]
        <4>1. f[k] = Append(s, line[k])
          BY <2>3, <3>2
        <4>2. s \in Seq(V) /\ line[k] \in V /\ Len(s) \in Nat /\ u(k) = Len(s) + 1
          BY <2>3, <3>1, <3>2
        <4>3. Append(s, line[k])[Len(s) + 1] = line[k] /\ Len(Append(s, line[k])) = Len(s) + 1
          BY <4>2
        <4>4. \A p \in 1..Len(s) : Append(s, line[k])[p] = s[p]
          BY <4>2
        <4>. QED
          BY <2>3, <4>1, <4>2, <4>3, <4>4
      <3>4. ASSUME NEW j \in keep, j <= k PROVE u(j) \in 1..u(k) /\ f[k][u(j)] = line[j]
        <4>1. CASE j = k
          BY <2>3, <3>1, <3>3, <4>1
        <4>2. CASE j # k
          <5>1. j <= k - 1
            BY <3>4, <4>2
          <5>2. u(j) \in 1..u(k - 1) /\ s[u(j)] = line[j]
            BY <2>2, <5>1 DEF u, s
          <5>3. f[k][u(j)] = s[u(j)]
            BY <3>3, <5>2
          <5>4. 1..u(k - 1) \subseteq 1..u(k)
            BY <2>3, <3>1
          <5>. QED
            BY <5>2, <5>3, <5>4
        <4>. QED
          BY <4>1, <4>2
      <3>5. ASSUME NEW p \in 1..u(k) PROVE \E j \in keep : u(j) = p
        <4>1. p = u(k) \/ p \in 1..u(k - 1)
          BY <2>3, <3>1
        <4>2. p \in 1..u(k - 1) => \E j \in keep : u(j) = p
          BY <2>2 DEF u
        <4>. QED
          BY <2>4, <4>1, <4>2
      <3>. QED
        BY <2>1, <3>3, <3>4, <3>5 DEF u
    <2>5. CASE k \notin keep
      <3>1. u(k) = u(k - 1)
        BY <1>4, <2>1, <2>5, KeptUpToNext
      <3>2. f[k] = s
        <4>1. ss[k] = << >>
          BY <2>5
        <4>. HIDE DEF s
        <4>. QED
          BY <2>3, <4>1
      <3>3. ASSUME NEW j \in keep, j <= k PROVE j <= k - 1
        BY <2>5, <3>3
      <3>. QED
        BY <2>1, <2>2, <3>1, <3>2, <3>3
    <2>. QED
      BY <2>4, <2>5
  <1>7. Good(n)
    <2>1. n \in 0..n
      OBVIOUS
    <2>. HIDE DEF Good
    <2>2. 0..n \subseteq P
      <3>. HIDE DEF P
      <3>. QED
        BY <1>5, <1>6, StepInduction
    <2>. QED
      BY <2>1, <2>2
  <1>8. f[n] \in Seq(V)
    BY <1>3
  <1>9. \A k \in keep : k <= n
    <2>1. \A k \in 1..n : k <= n
      OBVIOUS
    <2>. QED
      BY <2>1
  <1>. QED
    BY <1>3, <1>7, <1>8, <1>9
=============================================================================
