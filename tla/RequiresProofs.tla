--------------------------- MODULE RequiresProofs ---------------------------
(***************************************************************************)
(* Configurations and requires for any files, names, aliases and chains of *)
(* aliases, and any order of edits, changes on disk and indexing: what the *)
(* configuration cache holds is what the files say, and what an            *)
(* auto-import or a completion writes leads to the module it was made for. *)
(* Behind it, the edits of the imports: for any document, the edits of one *)
(* code action or completion are disjoint.                                 *)
(***************************************************************************)
EXTENDS ImportEdits, SequenceTheorems, FiniteSetTheorems, Lemmas

Path == Seq(Step)
Info == [at : Path, value : {arg \in Argument : arg.steps # << >>}]
Configs == UNION {[D -> Info] : D \in {E \in SUBSET Name : IsFiniteSet(E)}}

-----------------------------------------------------------------------------
(* Paths                                                                   *)

LEMMA NamesAreSteps == \A s \in Seq(Name) : s \in Path
BY DEF Path, Step

LEMMA WalkType ==
    ASSUME NEW path \in Path, NEW s \in Step
    PROVE  Walk(path, s) \in Path
BY DEF Walk, Path, Front

\* The paths on the way from start, one step after the other.
IsWalk(f, start, steps) ==
    /\ f \in [0..Len(steps) -> Path]
    /\ f[0] = start
    /\ \A n \in 1..Len(steps) : f[n] = Walk(f[n - 1], steps[n])

LEMMA WalkExists ==
    ASSUME NEW start \in Path, NEW steps \in Path
    PROVE  \E f : IsWalk(f, start, steps)
<1> DEFINE step == [p \in (1..Len(steps)) \X Path |-> Walk(p[2], steps[p[1]])]
<1>1. step \in [(1..Len(steps)) \X Path -> Path]
  <2> SUFFICES ASSUME NEW p \in (1..Len(steps)) \X Path PROVE Walk(p[2], steps[p[1]]) \in Path
    OBVIOUS
  <2>1. p[2] \in Path /\ steps[p[1]] \in Step
    BY DEF Path
  <2> QED BY <2>1, WalkType
<1>2. Len(steps) \in Nat
  BY DEF Path
<1>3. \A n \in 1..Len(steps), p \in Path : step[<<n, p>>] = Walk(p, steps[n])
  OBVIOUS
<1> HIDE DEF step
<1>4. PICK f \in [0..Len(steps) -> Path] : FollowsStep(f, Len(steps), start, step)
  BY <1>1, <1>2, StepRecursion
<1>5. ASSUME NEW n \in 1..Len(steps) PROVE f[n] = Walk(f[n - 1], steps[n])
  <2>1. n - 1 \in 0..Len(steps)
    BY <1>2
  <2>2. f[n] = step[<<n, f[n - 1]>>] /\ f[n - 1] \in Path
    BY <1>4, <2>1 DEF FollowsStep
  <2> QED BY <1>3, <2>2
<1> QED BY <1>4, <1>5 DEF IsWalk, FollowsStep

Start(base, steps) == IF steps # << >> /\ Head(steps) = "/" THEN << >> ELSE base

LEMMA ResolvedPath ==
    ASSUME NEW base \in Path, NEW steps \in Path
    PROVE  \E f : IsWalk(f, Start(base, steps), steps) /\ ResolvePath(base, steps) = f[Len(steps)]
<1> DEFINE Def(g) == [n \in 0..Len(steps) |->
                        IF n = 0 THEN IF steps # << >> /\ Head(steps) = "/" THEN << >> ELSE base
                        ELSE Walk(g[n - 1], steps[n])]
           X == CHOOSE g : g = Def(g)
<1>1. Start(base, steps) \in Path /\ Len(steps) \in Nat
  BY DEF Start, Path
<1>2. PICK f : IsWalk(f, Start(base, steps), steps)
  BY <1>1, WalkExists
<1>3. f = Def(f)
  <2>1. DOMAIN Def(f) = 0..Len(steps) /\ f \in [0..Len(steps) -> Path]
    BY <1>2 DEF IsWalk
  <2>2. \A n \in 0..Len(steps) : f[n] = Def(f)[n]
    BY <1>1, <1>2 DEF IsWalk, Start
  <2> HIDE DEF Def
  <2>3. Def(f) = [n \in 0..Len(steps) |-> Def(f)[n]]
    BY DEF Def
  <2> QED BY <2>1, <2>2, <2>3
<1>4. ResolvePath(base, steps) = X[Len(steps)]
  BY DEF ResolvePath
<1> HIDE DEF Def
<1>5. X = Def(X)
  BY <1>3
<1> HIDE DEF X
<1>6. IsWalk(X, Start(base, steps), steps)
  <2>1. /\ DOMAIN X = 0..Len(steps)
        /\ X[0] = Start(base, steps)
        /\ \A n \in 1..Len(steps) : X[n] = Walk(X[n - 1], steps[n])
    <3>1. /\ DOMAIN Def(X) = 0..Len(steps)
          /\ Def(X)[0] = Start(base, steps)
          /\ \A n \in 1..Len(steps) : Def(X)[n] = Walk(X[n - 1], steps[n])
      BY <1>1 DEF Def, Start
    <3> QED BY <1>5, <3>1
  <2> DEFINE P == {n \in Nat : X[n] = f[n]}
  <2>2. ASSUME NEW n \in 0..Len(steps), \A j \in 0..Len(steps) : j < n => j \in P PROVE n \in P
    <3>1. CASE n = 0
      BY <1>2, <2>1, <3>1 DEF IsWalk
    <3>2. CASE n # 0
      <4>1. n - 1 \in 0..Len(steps) /\ n - 1 < n /\ n \in 1..Len(steps)
        BY <1>1, <3>2
      <4>2. X[n - 1] = f[n - 1]
        BY <2>2, <4>1
      <4> QED BY <1>2, <2>1, <4>1, <4>2 DEF IsWalk
    <3> QED BY <3>1, <3>2
  <2>3. 0..Len(steps) \subseteq P
    <3>1. 0..Len(steps) \in SUBSET Nat
      BY <1>1
    <3> HIDE DEF P
    <3> QED BY <2>2, <3>1, StrongInduction
  <2>4. \A n \in 0..Len(steps) : X[n] \in Path
    BY <1>2, <2>3 DEF IsWalk
  <2>5. X = [n \in 0..Len(steps) |-> X[n]]
    <3>1. Def(X) = [n \in 0..Len(steps) |-> Def(X)[n]]
      BY DEF Def
    <3> QED BY <1>5, <3>1
  <2> QED BY <2>1, <2>4, <2>5 DEF IsWalk
<1> QED BY <1>4, <1>6

LEMMA ResolvedIsPath ==
    ASSUME NEW base \in Path, NEW steps \in Path
    PROVE  ResolvePath(base, steps) \in Path
<1>1. PICK f : IsWalk(f, Start(base, steps), steps) /\ ResolvePath(base, steps) = f[Len(steps)]
  BY ResolvedPath
<1> QED BY <1>1 DEF IsWalk, Path

\* No step is taken anew from the root.
Stays(steps) == \A k \in DOMAIN steps : steps[k] # "/"

\* A walk in two parts.
LEMMA ResolveInTwo ==
    ASSUME NEW base \in Path, NEW s \in Path, NEW t \in Path, Stays(t)
    PROVE  ResolvePath(base, s \o t) = ResolvePath(ResolvePath(base, s), t)
<1> DEFINE mid == ResolvePath(base, s)
<1>1. s \o t \in Path /\ Len(s \o t) = Len(s) + Len(t) /\ Len(s) \in Nat /\ Len(t) \in Nat
      /\ mid \in Path
  BY ResolvedIsPath DEF Path
<1>2. PICK f : IsWalk(f, Start(base, s), s) /\ mid = f[Len(s)]
  BY ResolvedPath
<1>3. PICK g : IsWalk(g, Start(mid, t), t) /\ ResolvePath(mid, t) = g[Len(t)]
  BY <1>1, ResolvedPath
<1>4. PICK h : IsWalk(h, Start(base, s \o t), s \o t) /\ ResolvePath(base, s \o t) = h[Len(s \o t)]
  BY <1>1, ResolvedPath
<1> HIDE DEF mid
<1>5. Start(mid, t) = mid
  BY HeadTailProperties DEF Start, Stays, Path
<1>6. Start(base, s \o t) = Start(base, s)
  <2>1. CASE s = << >>
    <3>1. s \o t = t
      BY <2>1 DEF Path
    <3> QED BY <2>1, <3>1, HeadTailProperties DEF Start, Stays, Path
  <2>2. CASE s # << >>
    <3>1. s \o t # << >> /\ Head(s \o t) = Head(s)
      BY <2>2 DEF Path
    <3> QED BY <2>2, <3>1 DEF Start
  <2> QED BY <2>1, <2>2
<1> DEFINE P == {n \in Nat : h[n] = IF n <= Len(s) THEN f[n] ELSE g[n - Len(s)]}
<1>7. ASSUME NEW n \in 0..Len(s \o t), \A j \in 0..Len(s \o t) : j < n => j \in P
      PROVE  n \in P
  <2>1. CASE n = 0
    BY <1>1, <1>2, <1>4, <1>6, <2>1 DEF IsWalk
  <2>2. CASE n \in 1..Len(s)
    <3>1. n - 1 \in 0..Len(s \o t) /\ n - 1 < n /\ n \in 1..Len(s \o t) /\ n - 1 <= Len(s)
      BY <1>1, <2>2
    <3>2. h[n - 1] = f[n - 1]
      BY <1>7, <3>1
    <3>3. (s \o t)[n] = s[n]
      BY <1>1, <2>2 DEF Path
    <3> QED BY <1>2, <1>4, <2>2, <3>1, <3>2, <3>3 DEF IsWalk
  <2>3. CASE n > Len(s)
    <3>1. /\ n - 1 \in 0..Len(s \o t) /\ n - 1 < n /\ n \in 1..Len(s \o t)
          /\ n - Len(s) \in 1..Len(t) /\ (n - 1) - Len(s) = (n - Len(s)) - 1
      BY <1>1, <2>3
    <3>2. h[n - 1] = g[(n - Len(s)) - 1]
      <4>1. CASE n - 1 > Len(s)
        BY <1>7, <3>1, <4>1
      <4>2. CASE n - 1 = Len(s)
        <5>1. h[n - 1] = f[Len(s)] /\ (n - Len(s)) - 1 = 0
          BY <1>1, <1>7, <3>1, <4>2
        <5> QED BY <1>2, <1>3, <1>5, <5>1 DEF IsWalk
      <4> QED BY <1>1, <2>3, <4>1, <4>2
    <3>3. (s \o t)[n] = t[n - Len(s)]
      BY <1>1, <2>3, <3>1 DEF Path
    <3>4. h[n] = Walk(h[n - 1], (s \o t)[n])
      BY <1>4, <3>1 DEF IsWalk
    <3>5. g[n - Len(s)] = Walk(g[(n - Len(s)) - 1], t[n - Len(s)])
      BY <1>3, <3>1 DEF IsWalk
    <3> QED BY <2>3, <3>1, <3>2, <3>3, <3>4, <3>5
  <2> QED BY <1>1, <2>1, <2>2, <2>3
<1>8. 0..Len(s \o t) \subseteq P
  <2>1. 0..Len(s \o t) \in SUBSET Nat
    BY <1>1
  <2> HIDE DEF P
  <2> QED BY <1>7, <2>1, StrongInduction
<1>9. h[Len(s) + Len(t)] = g[Len(t)]
  <2>1. CASE Len(t) = 0
    <3>1. h[Len(s)] = f[Len(s)] /\ Len(s) + Len(t) = Len(s)
      BY <1>1, <1>8, <2>1
    <3> QED BY <1>2, <1>3, <1>5, <2>1, <3>1 DEF IsWalk
  <2>2. CASE Len(t) > 0
    BY <1>1, <1>8, <2>2
  <2> QED BY <1>1, <2>1, <2>2
<1> QED BY <1>1, <1>3, <1>4, <1>9 DEF mid

LEMMA ResolveOne ==
    ASSUME NEW base \in Path, NEW s \in Step
    PROVE  ResolvePath(base, <<s>>) = IF s = "/" THEN << >> ELSE Walk(base, s)
<1>1. <<s>> \in Path /\ Len(<<s>>) = 1 /\ <<s>>[1] = s /\ Head(<<s>>) = s /\ <<s>> # << >>
  BY DEF Path
<1>2. PICK f : IsWalk(f, Start(base, <<s>>), <<s>>) /\ ResolvePath(base, <<s>>) = f[1]
  BY <1>1, ResolvedPath
<1>3. f[1] = Walk(Start(base, <<s>>), s)
  BY <1>1, <1>2 DEF IsWalk
<1> QED BY <1>1, <1>2, <1>3 DEF Start, Walk

LEMMA ResolveNone == ASSUME NEW base \in Path PROVE ResolvePath(base, << >>) = base
<1>1. << >> \in Path /\ Len(<< >>) = 0
  BY DEF Path
<1>2. PICK f : IsWalk(f, Start(base, << >>), << >>) /\ ResolvePath(base, << >>) = f[0]
  BY <1>1, ResolvedPath
<1> QED BY <1>2 DEF IsWalk, Start

LEMMA ResolveMore ==
    ASSUME NEW base \in Path, NEW s \in Path, NEW x \in Step \ {"/"}
    PROVE  ResolvePath(base, Append(s, x)) = Walk(ResolvePath(base, s), x)
<1>1. Append(s, x) = s \o <<x>> /\ <<x>> \in Path /\ Stays(<<x>>)
  BY DEF Path, Stays
<1> QED BY <1>1, ResolveInTwo, ResolveOne, ResolvedIsPath

\* A first step that is not absolute.
LEMMA ResolveFirst ==
    ASSUME NEW base \in Path, NEW x \in Step \ {"/"}, NEW s \in Path, Stays(s)
    PROVE  ResolvePath(base, <<x>> \o s) = ResolvePath(Walk(base, x), s)
<1>1. <<x>> \in Path
  BY DEF Path
<1> QED BY <1>1, ResolveInTwo, ResolveOne

LEMMA ConcatAppend ==
    ASSUME NEW S, NEW s \in Seq(S), NEW t \in Seq(S), NEW x \in S
    PROVE  s \o Append(t, x) = Append(s \o t, x)
<1>1. Append(t, x) \in Seq(S) /\ Len(Append(t, x)) = Len(t) + 1 /\ s \o t \in Seq(S)
      /\ Len(s) \in Nat /\ Len(t) \in Nat
  OBVIOUS
<1> DEFINE l == s \o Append(t, x)
           r == Append(s \o t, x)
<1>2. /\ l \in Seq(S) /\ r \in Seq(S)
      /\ Len(l) = (Len(s) + Len(t)) + 1 /\ Len(r) = (Len(s) + Len(t)) + 1
  BY <1>1
<1>3. ASSUME NEW i \in 1..Len(l) PROVE l[i] = r[i]
  BY <1>1, <1>3
<1> HIDE DEF l, r
<1>4. l = r
  BY <1>2, <1>3, SeqEqual
<1> QED BY <1>4 DEF l, r

Plain(name) == name \in Step \ {"/", ".", ".."}

\* Names lead down.
LEMMA ResolveDown ==
    ASSUME NEW base \in Path, NEW names \in Path, \A k \in DOMAIN names : Plain(names[k])
    PROVE  ResolvePath(base, names) = base \o names
<1>1. /\ Len(names) \in Nat /\ DOMAIN names = 1..Len(names)
      /\ \A k \in 1..Len(names) : names[k] \in Step
  BY DEF Path
<1>2. Stays(names)
  BY DEF Stays, Plain
<1>3. PICK f : IsWalk(f, Start(base, names), names) /\ ResolvePath(base, names) = f[Len(names)]
  BY ResolvedPath
<1>4. Start(base, names) = base
  BY <1>2, HeadTailProperties DEF Start, Stays, Path
<1> DEFINE P == {n \in Nat : f[n] = base \o SubSeq(names, 1, n)}
<1>5. ASSUME NEW n \in 0..Len(names), \A j \in 0..Len(names) : j < n => j \in P
      PROVE  n \in P
  <2>1. CASE n = 0
    <3>1. base \o SubSeq(names, 1, 0) = base
      BY DEF Path
    <3> QED BY <1>3, <1>4, <2>1, <3>1 DEF IsWalk
  <2>2. CASE n # 0
    <3>1. n - 1 \in 0..Len(names) /\ n - 1 < n /\ n \in 1..Len(names)
      BY <1>1, <2>2
    <3>2. f[n - 1] = base \o SubSeq(names, 1, n - 1)
      BY <1>5, <3>1
    <3>3. f[n] = Append(f[n - 1], names[n])
      BY <1>1, <1>3, <3>1 DEF IsWalk, Walk, Plain
    <3>4. SubSeq(names, 1, n) = Append(SubSeq(names, 1, n - 1), names[n])
      BY <1>1, <3>1 DEF Path
    <3>5. base \o Append(SubSeq(names, 1, n - 1), names[n]) = Append(base \o SubSeq(names, 1, n - 1), names[n])
      <4>1. SubSeq(names, 1, n - 1) \in Path /\ names[n] \in Step
        BY <1>1, <3>1 DEF Path
      <4> QED BY <4>1, ConcatAppend DEF Path
    <3>6. f[n] = base \o SubSeq(names, 1, n)
      BY <3>2, <3>3, <3>4, <3>5
    <3> QED BY <1>1, <3>6
  <2> QED BY <2>1, <2>2
<1>6. 0..Len(names) \subseteq P
  <2>1. 0..Len(names) \in SUBSET Nat
    BY <1>1
  <2> HIDE DEF P
  <2> QED BY <1>5, <2>1, StrongInduction
<1>7. SubSeq(names, 1, Len(names)) = names
  BY DEF Path
<1>8. f[Len(names)] = base \o SubSeq(names, 1, Len(names))
  <2>1. Len(names) \in P
    BY <1>1, <1>6
  <2> QED BY <2>1
<1> QED BY <1>3, <1>7, <1>8

\* So many steps up.
LEMMA ResolveUp ==
    ASSUME NEW base \in Path, NEW u \in 0..Len(base)
    PROVE  /\ [k \in 1..u |-> ".."] \in Path /\ Stays([k \in 1..u |-> ".."])
           /\ ResolvePath(base, [k \in 1..u |-> ".."]) = SubSeq(base, 1, Len(base) - u)
<1> DEFINE ups == [k \in 1..u |-> ".."]
<1>1. ups \in Path /\ Len(ups) = u /\ u \in Nat /\ Len(base) \in Nat
      /\ \A k \in 1..u : ups[k] = ".."
  BY DEF Path, Step
<1>2. Stays(ups)
  BY DEF Stays
<1> HIDE DEF ups
<1>3. PICK f : IsWalk(f, Start(base, ups), ups) /\ ResolvePath(base, ups) = f[u]
  BY <1>1, ResolvedPath
<1>4. Start(base, ups) = base
  BY <1>1, <1>2, HeadTailProperties DEF Start, Stays, Path
<1> DEFINE P == {n \in Nat : f[n] = SubSeq(base, 1, Len(base) - n)}
<1>5. ASSUME NEW n \in 0..u, \A j \in 0..u : j < n => j \in P
      PROVE  n \in P
  <2>1. CASE n = 0
    BY <1>3, <1>4, <2>1 DEF IsWalk, Path
  <2>2. CASE n # 0
    <3>1. n - 1 \in 0..u /\ n - 1 < n /\ n \in 1..u
      BY <1>1, <2>2
    <3>2. f[n - 1] = SubSeq(base, 1, Len(base) - (n - 1))
      BY <1>5, <3>1
    <3>3. f[n] = Front(f[n - 1])
      BY <1>1, <1>3, <3>1 DEF IsWalk, Walk
    <3>4. Front(SubSeq(base, 1, Len(base) - (n - 1))) = SubSeq(base, 1, Len(base) - n)
      BY <1>1, <3>1 DEF Path, Front
    <3> QED BY <3>1, <3>2, <3>3, <3>4
  <2> QED BY <2>1, <2>2
<1>6. 0..u \subseteq P
  <2>1. 0..u \in SUBSET Nat
    OBVIOUS
  <2> HIDE DEF P
  <2> QED BY <1>5, <2>1, StrongInduction
<1>7. ResolvePath(base, ups) = SubSeq(base, 1, Len(base) - u)
  BY <1>1, <1>3, <1>6
<1> QED BY <1>1, <1>2, <1>7 DEF ups

\* The paths of files and of the directories they are in.
IsNames(path) == path \in Path /\ \A k \in DOMAIN path : Plain(path[k]) /\ path[k] # "@"

LEMMA FileNames ==
    ASSUME NEW m \in Files
    PROVE  /\ IsNames(m.path) /\ m.path # << >> /\ Len(m.path) \in Nat \ {0}
           /\ IsNames(Front(m.path)) /\ Append(Front(m.path), Last(m.path)) = m.path
<1>1. /\ m.path \in Seq(Name) /\ m.path # << >> /\ Len(m.path) \in Nat \ {0}
      /\ \A k \in 1..Len(m.path) : m.path[k] \in Name /\ m.path[k] \notin {"/", "@", ".", ".."}
  BY PathAssumption, EmptySeq
<1>2. IsNames(m.path)
  BY <1>1, NamesAreSteps DEF IsNames, Plain, Step
<1>3. IsNames(Front(m.path)) /\ Append(Front(m.path), Last(m.path)) = m.path
  BY <1>1, <1>2 DEF IsNames, Front, Last, Path
<1> QED BY <1>1, <1>2, <1>3

LEMMA TargetNames ==
    ASSUME NEW m \in Files
    PROVE  IsNames(Target(m).path)
BY FileNames DEF Target

LEMMA SplitPath ==
    ASSUME NEW p \in Path, NEW n \in 0..Len(p)
    PROVE  SubSeq(p, 1, n) \in Path /\ SubSeq(p, 1, n) \o SubSeq(p, n + 1, Len(p)) = p
<1>1. SubSeq(p, 1, n) \o SubSeq(p, n + 1, Len(p)) = SubSeq(p, 1, Len(p))
  <2>1. 1 \in 1..Len(p) + 1 /\ n \in (1 - 1)..Len(p) /\ Len(p) \in n..Len(p)
    BY DEF Path
  <2>2. p \in Seq(Step)
    BY DEF Path
  <2> QED BY <2>1, <2>2, ConcatAdjacentSubSeq, Zenon
<1>2. SubSeq(p, 1, Len(p)) = p /\ SubSeq(p, 1, n) \in Path
  BY DEF Path
<1> QED BY <1>1, <1>2, Zenon

LEMMA DirsAbove ==
    ASSUME NEW target, target.path \in Path, NEW p \in DirsOf(target)
    PROVE  Len(p) \in 0..Len(target.path) /\ p = SubSeq(target.path, 1, Len(p))
<1>1. /\ Len(target.path) \in Nat
      /\ \A n \in 0..Len(target.path) : Len(SubSeq(target.path, 1, n)) = n
  BY DEF Path
<1>2. CASE target.isDir
  BY <1>1, <1>2 DEF DirsOf, Prefixes
<1>3. CASE ~target.isDir
  <2>1. PICK l \in 0..Len(Front(target.path)) : p = SubSeq(Front(target.path), 1, l)
    BY <1>3 DEF DirsOf, Prefixes
  <2>2. l \in 0..Len(target.path) /\ SubSeq(Front(target.path), 1, l) = SubSeq(target.path, 1, l)
    BY <1>1, <2>1 DEF Front, Path
  <2> QED BY <1>1, <2>1, <2>2
<1> QED BY <1>2, <1>3

\* The longest path that both the target's directories and base begin with.
Common(target, base) ==
    CHOOSE p \in DirsOf(target) \intersect Prefixes(base) :
        \A q \in DirsOf(target) \intersect Prefixes(base) : Len(q) <= Len(p)

LEMMA CommonPrefix ==
    ASSUME NEW target, target.path \in Path, NEW base \in Path
    PROVE  /\ Len(Common(target, base)) \in 0..Len(base)
           /\ Len(Common(target, base)) \in 0..Len(target.path)
           /\ Common(target, base) = SubSeq(base, 1, Len(Common(target, base)))
           /\ Common(target, base) = SubSeq(target.path, 1, Len(Common(target, base)))
<1> DEFINE D == DirsOf(target) \intersect Prefixes(base)
           T == {n \in Nat : \E p \in D : n = Len(p)}
<1>1. /\ Len(base) \in Nat /\ Len(target.path) \in Nat
      /\ \A n \in 0..Len(base) : SubSeq(base, 1, n) \in Path /\ Len(SubSeq(base, 1, n)) = n
      /\ \A n \in 0..Len(target.path) :
            SubSeq(target.path, 1, n) \in Path /\ Len(SubSeq(target.path, 1, n)) = n
  BY DEF Path
<1>2. \A p \in Prefixes(base) : Len(p) \in 0..Len(base) /\ p = SubSeq(base, 1, Len(p))
  BY <1>1 DEF Prefixes
<1>3. \A p \in DirsOf(target) : Len(p) \in 0..Len(target.path) /\ p = SubSeq(target.path, 1, Len(p))
  BY DirsAbove
<1>4. << >> \in D
  <2>1. << >> \in Prefixes(base)
    BY <1>1, SubSeqEmpty DEF Prefixes
  <2>2. << >> \in Prefixes(target.path) /\ << >> \in Prefixes(Front(target.path))
    <3>1. Len(Front(target.path)) \in Nat
      BY <1>1 DEF Front, Path
    <3> QED BY <1>1, <3>1, SubSeqEmpty DEF Prefixes
  <2> QED BY <2>1, <2>2 DEF DirsOf
<1>5. PICK p \in D : \A q \in D : Len(q) <= Len(p)
  <2>1. T \in SUBSET Nat /\ T # {}
    <3>1. Len(<< >>) = 0 /\ 0 \in Nat
      OBVIOUS
    <3> QED BY <1>4, <3>1
  <2>2. \A n \in T : n <= Len(base)
    BY <1>2
  <2>3. Max(T) \in T /\ \A n \in T : n <= Max(T)
    <3> HIDE DEF T
    <3> QED BY <1>1, <2>1, <2>2, MaxOf
  <2>4. PICK p \in D : Max(T) = Len(p)
    BY <2>3
  <2>5. \A q \in D : Len(q) \in T
    BY <1>2
  <2> QED BY <2>3, <2>4, <2>5
<1>6. Common(target, base) \in D
  BY <1>5 DEF Common
<1> QED BY <1>2, <1>3, <1>6

\* A path that is relative to base leads from there to the target.
LEMMA RelativeLeads ==
    ASSUME NEW target, IsNames(target.path), NEW base \in Path
    PROVE  /\ LexicallyRelative(target, base) \in Path /\ Stays(LexicallyRelative(target, base))
           /\ LexicallyRelative(target, base) # << >>
           /\ ResolvePath(base, LexicallyRelative(target, base)) = target.path
<1> DEFINE n == Len(Common(target, base))
           up == [k \in 1..(Len(base) - n) |-> ".."]
           down == SubSeq(target.path, n + 1, Len(target.path))
<1>1. /\ target.path \in Path /\ Len(base) \in Nat /\ Len(target.path) \in Nat
      /\ \A k \in 1..Len(target.path) : Plain(target.path[k])
  BY DEF IsNames, Path
<1>2. /\ n \in 0..Len(base) /\ n \in 0..Len(target.path)
      /\ SubSeq(base, 1, n) = SubSeq(target.path, 1, n)
  BY <1>1, CommonPrefix
<1>3. LexicallyRelative(target, base) = IF up \o down = << >> THEN <<".">> ELSE up \o down
  BY Zenon DEF LexicallyRelative, Common
<1> HIDE DEF n
<1>4. /\ up \in Path /\ Stays(up)
      /\ ResolvePath(base, up) = SubSeq(base, 1, Len(base) - (Len(base) - n))
  <2>1. Len(base) - n \in 0..Len(base)
    BY <1>1, <1>2
  <2> QED BY <2>1, ResolveUp
<1>5. down \in Path /\ \A k \in DOMAIN down : Plain(down[k])
  <2> DEFINE l == Len(target.path)
  <2>1. n \in 0..l /\ l \in n..l
    BY <1>1, <1>2
  <2>2. /\ down \in Path /\ Len(down) = l - n
        /\ \A k \in 1..(l - n) : down[k] = target.path[n + k]
    BY <1>1, <2>1, PartOfText DEF Path
  <2>3. ASSUME NEW k \in 1..(l - n) PROVE Plain(down[k])
    <3>1. n + k \in 1..l
      BY <1>1, <2>1
    <3> QED BY <1>1, <2>2, <3>1
  <2> QED BY <2>2, <2>3 DEF Path
<1>6. SubSeq(target.path, 1, n) \in Path /\ SubSeq(target.path, 1, n) \o down = target.path
  <2>1. \A p \in Path : n \in 0..Len(p) => /\ SubSeq(p, 1, n) \in Path
                                           /\ SubSeq(p, 1, n) \o SubSeq(p, n + 1, Len(p)) = p
    BY SplitPath
  <2> QED BY <1>1, <1>2, <2>1
<1> HIDE DEF up, down
<1>7. Stays(down)
  BY <1>5 DEF Stays, Plain
<1>8. /\ up \o down \in Path /\ Stays(up \o down)
  <2>1. \A i \in DOMAIN (up \o down) :
           \/ \E k \in DOMAIN up : (up \o down)[i] = up[k]
           \/ \E k \in DOMAIN down : (up \o down)[i] = down[k]
    BY <1>4, <1>5, EntryOfConcat DEF Path
  <2>2. up \o down \in Path
    BY <1>4, <1>5, ConcatEntries DEF Path
  <2> QED BY <1>4, <1>7, <2>1, <2>2 DEF Stays
<1>9. ResolvePath(base, up \o down) = target.path
  <2>1. Len(base) - (Len(base) - n) = n
    BY <1>1, <1>2
  <2>2. ResolvePath(base, up) = SubSeq(target.path, 1, n)
    BY <1>2, <1>4, <2>1
  <2>3. ResolvePath(base, up \o down) = ResolvePath(SubSeq(target.path, 1, n), down)
    <3>1. ResolvePath(base, up \o down) = ResolvePath(ResolvePath(base, up), down)
      BY <1>4, <1>5, <1>7, ResolveInTwo
    <3> QED BY <2>2, <3>1, Zenon
  <2>4. ResolvePath(SubSeq(target.path, 1, n), down) = SubSeq(target.path, 1, n) \o down
    BY <1>5, <1>6, ResolveDown
  <2> QED BY <1>6, <2>3, <2>4, Zenon
<1>10. CASE up \o down = << >>
  <2>1. ResolvePath(base, << >>) = base /\ ResolvePath(base, <<".">>) = base
    BY ResolveNone, ResolveOne DEF Step, Walk
  <2>2. <<".">> \in Path /\ Stays(<<".">>) /\ <<".">> # << >>
    BY DEF Path, Step, Stays
  <2> QED BY <1>3, <1>9, <1>10, <2>1, <2>2
<1>11. CASE up \o down # << >>
  BY <1>3, <1>8, <1>9, <1>11
<1> QED BY <1>10, <1>11

-----------------------------------------------------------------------------
(* Requires                                                                *)

LEMMA ConfigInfo ==
    ASSUME NEW config \in Configs, NEW a \in DOMAIN config
    PROVE  /\ config[a].at \in Path /\ config[a].value \in Argument /\ config[a].value.steps # << >>
           /\ config[a].value.lead \in {"@", "."} /\ config[a].value.steps \in Path
BY DEF Configs, Info, Argument, Path

LEMMA LiterallyPath ==
    ASSUME NEW arg \in Argument, arg.steps # << >>
    PROVE  /\ Literally(arg) \in Path
           /\ arg.lead = "@" => Literally(arg) = <<"@">> \o Tail(arg.steps) /\ Tail(arg.steps) \in Path
<1>1. arg.steps \in Path /\ Tail(arg.steps) \in Path
  BY DEF Argument, Path
<1>2. <<"@">> \in Path
  BY DEF Path, Step
<1> QED BY <1>1, <1>2 DEF Literally, Path

LEMMA LocationPath ==
    ASSUME NEW config \in Configs, NEW a \in DOMAIN config
    PROVE  ResolveAliasLocation(config[a]) \in Path
BY ConfigInfo, LiterallyPath, ResolvedIsPath DEF ResolveAliasLocation

\* A require whose path is that of the target is one of the module.
LEMMA RequireOfTarget ==
    ASSUME NEW m \in Files, Alone(m), NEW path, path = Target(m).path
    PROVE  LET file == IF path \in Dirs THEN Append(path, "init") ELSE path
           IN m = [path |-> file,
                   ext |-> IF [path |-> file, ext |-> "luau"] \in Files THEN "luau" ELSE "lua"]
<1>1. m = [path |-> m.path, ext |-> m.ext] /\ m.ext \in {"luau", "lua"}
  BY PathAssumption
<1>2. \A f \in Files : f.path = m.path => f = m
  BY DEF Alone
<1>3. m.path = IF path \in Dirs THEN Append(path, "init") ELSE path
  <2>1. CASE IsInit(m.path)
    <3>1. path = Front(m.path) /\ Last(m.path) = "init"
      BY <2>1 DEF Target, IsInit
    <3>2. Front(m.path) \in Prefixes(Front(m.path))
      <4>1. Len(Front(m.path)) \in Nat /\ SubSeq(Front(m.path), 1, Len(Front(m.path))) = Front(m.path)
        BY FileNames DEF IsNames, Path
      <4> QED BY <4>1 DEF Prefixes
    <3>3. path \in Dirs
      BY <3>1, <3>2 DEF Dirs
    <3> QED BY <3>1, <3>3, FileNames
  <2>2. CASE ~IsInit(m.path)
    BY <2>2 DEF Target, Alone
  <2> QED BY <2>1, <2>2
<1> DEFINE ext == IF [path |-> m.path, ext |-> "luau"] \in Files THEN "luau" ELSE "lua"
<1>4. m.ext = ext
  <2>1. CASE [path |-> m.path, ext |-> "luau"] \in Files
    <3>1. [path |-> m.path, ext |-> "luau"].path = m.path
      OBVIOUS
    <3>2. [path |-> m.path, ext |-> "luau"] = m
      BY <1>2, <2>1, <3>1
    <3>3. m.ext = "luau"
      BY <3>2
    <3> QED BY <2>1, <3>3
  <2>2. CASE [path |-> m.path, ext |-> "luau"] \notin Files
    BY <1>1, <2>2
  <2> QED BY <2>1, <2>2
<1>5. m = [path |-> m.path, ext |-> ext]
  BY <1>1, <1>4
<1> HIDE DEF ext
<1> QED BY <1>3, <1>5 DEF ext

\* Where the path of a require begins that is no alias.
Base(from) == IF IsInit(from.path) /\ ~original THEN Front(Front(from.path)) ELSE Front(from.path)

LEMMA BasePath ==
    ASSUME NEW from \in Files
    PROVE  Front(from.path) \in Path /\ Base(from) \in Path /\ Front(Front(from.path)) \in Path
<1>1. Front(from.path) \in Path
  BY FileNames DEF IsNames
<1>2. Front(Front(from.path)) \in Path
  BY <1>1 DEF Front, Path
<1> QED BY <1>1, <1>2 DEF Base

\* What a require leads to, if its path, or that of its alias, is the target's.
LEMMA RequireLeads ==
    ASSUME NEW from \in Files, NEW m \in Files, Alone(m), NEW config, NEW arg,
           \/ /\ ResolveAlias(arg, config, Front(from.path)) = {}
              /\ ResolvePath(Base(from), Literally(arg)) = Target(m).path
           \/ ResolveAlias(arg, config, Front(from.path)) = {Target(m).path}
    PROVE  ResolveStringRequire(from, arg, config) = m
<1> DEFINE aliased == ResolveAlias(arg, config, Front(from.path))
           path == IF aliased = {} THEN ResolvePath(Base(from), Literally(arg)) ELSE CHOOSE p \in aliased : TRUE
           file == IF path \in Dirs THEN Append(path, "init") ELSE path
<1>1. path = Target(m).path
  <2> HIDE DEF aliased
  <2>1. CASE aliased = {}
    BY <2>1 DEF aliased
  <2>2. CASE aliased = {Target(m).path}
    BY <2>2
  <2> QED BY <2>1, <2>2 DEF aliased
<1>2. ResolveStringRequire(from, arg, config)
        = [path |-> file, ext |-> IF [path |-> file, ext |-> "luau"] \in Files THEN "luau" ELSE "lua"]
  BY Zenon DEF ResolveStringRequire, Base
<1> HIDE DEF path
<1>3. m = [path |-> file, ext |-> IF [path |-> file, ext |-> "luau"] \in Files THEN "luau" ELSE "lua"]
  BY <1>1, RequireOfTarget
<1> QED BY <1>2, <1>3

\* An alias of its own leads where it is located, and self to the directory.
IsChain(alias, config) == alias \in DOMAIN config /\ config[alias].value.lead = "@"

Ends(alias, config, from) ==
    IF alias \in DOMAIN config THEN {ResolveAliasLocation(config[alias])}
    ELSE {from : b \in {alias} \intersect {"self"}}

\* One step along a chain of aliases, and what g says of the rest.
Along(g, config, from) ==
    [visited \in SUBSET DOMAIN config |->
        [a \in DOMAIN config |->
            LET next == Head(config[a].value.steps)
                places == IF IsChain(next, config) THEN g[visited \union {a}][next] ELSE Ends(next, config, from)
            IN  IF a \in visited THEN {}
                ELSE {ResolvePath(p, Tail(config[a].value.steps)) : p \in places}]]

LEMMA AliasOrChain ==
    ASSUME NEW config, NEW alias, NEW from
    PROVE  AliasedPlaces(alias, config, from)
              = IF IsChain(alias, config) THEN (CHOOSE g : g = Along(g, config, from))[{}][alias]
                ELSE Ends(alias, config, from)
BY DEF AliasedPlaces, Along, IsChain, Ends

LEMMA PlainAlias ==
    ASSUME NEW config, NEW alias, NEW from, ~IsChain(alias, config)
    PROVE  /\ alias \in DOMAIN config
                => AliasedPlaces(alias, config, from) = {ResolveAliasLocation(config[alias])}
           /\ alias = "self" /\ alias \notin DOMAIN config => AliasedPlaces(alias, config, from) = {from}
BY AliasOrChain DEF Ends

\* One place, or none.
Leads == {{}} \union {{p} : p \in Path}

LEMMA LeadsOn ==
    ASSUME NEW places \in Leads, NEW s \in Path
    PROVE  {ResolvePath(p, s) : p \in places} \in Leads
<1>1. CASE places = {}
  BY <1>1 DEF Leads
<1>2. CASE places # {}
  <2>1. PICK p \in Path : places = {p}
    BY <1>2 DEF Leads
  <2>2. ResolvePath(p, s) \in Path
    BY ResolvedIsPath
  <2>3. {ResolvePath(q, s) : q \in places} = {ResolvePath(p, s)}
    BY <2>1
  <2> QED BY <2>2, <2>3 DEF Leads
<1> QED BY <1>1, <1>2

LEMMA EndsLead ==
    ASSUME NEW config \in Configs, NEW alias, NEW from \in Path
    PROVE  Ends(alias, config, from) \in Leads
<1>1. CASE alias \in DOMAIN config
  BY <1>1, LocationPath DEF Ends, Leads
<1>2. CASE alias \notin DOMAIN config
  <2>1. CASE alias = "self"
    <3>1. Ends(alias, config, from) = {from}
      BY <1>2, <2>1 DEF Ends
    <3> QED BY <3>1 DEF Leads
  <2>2. CASE alias # "self"
    <3>1. Ends(alias, config, from) = {}
      BY <1>2, <2>2 DEF Ends
    <3> QED BY <3>1 DEF Leads
  <2> QED BY <2>1, <2>2
<1> QED BY <1>1, <1>2

Follows(config) == [SUBSET DOMAIN config -> [DOMAIN config -> Leads]]

LEMMA AlongLeads ==
    ASSUME NEW config \in Configs, NEW from \in Path, NEW g \in Follows(config)
    PROVE  Along(g, config, from) \in Follows(config)
<1> SUFFICES ASSUME NEW visited \in SUBSET DOMAIN config, NEW a \in DOMAIN config
             PROVE  Along(g, config, from)[visited][a] \in Leads
  <2>1. \A visited \in SUBSET DOMAIN config :
           Along(g, config, from)[visited] = [a \in DOMAIN config |-> Along(g, config, from)[visited][a]]
    BY DEF Along
  <2>2. Along(g, config, from)
           = [visited \in SUBSET DOMAIN config |-> Along(g, config, from)[visited]]
    BY DEF Along
  <2> QED BY <2>1, <2>2 DEF Follows
<1> DEFINE next == Head(config[a].value.steps)
           places == IF IsChain(next, config) THEN g[visited \union {a}][next] ELSE Ends(next, config, from)
<1>1. places \in Leads
  <2>1. CASE IsChain(next, config)
    <3>1. next \in DOMAIN config /\ visited \union {a} \in SUBSET DOMAIN config
      BY <2>1 DEF IsChain
    <3> HIDE DEF next
    <3> QED BY <2>1, <3>1 DEF Follows
  <2>2. CASE ~IsChain(next, config)
    BY <2>2, EndsLead
  <2> QED BY <2>1, <2>2
<1>2. Tail(config[a].value.steps) \in Path
  BY ConfigInfo DEF Path
<1>3. Along(g, config, from)[visited][a]
        = IF a \in visited THEN {} ELSE {ResolvePath(p, Tail(config[a].value.steps)) : p \in places}
  BY DEF Along
<1> HIDE DEF places
<1>4. {} \in Leads
  BY DEF Leads
<1> QED BY <1>1, <1>2, <1>3, <1>4, LeadsOn

Unvisited(visited, config) == Cardinality(DOMAIN config \ visited)

LEMMA UnvisitedType ==
    ASSUME NEW config \in Configs, NEW visited \in SUBSET DOMAIN config
    PROVE  /\ Cardinality(DOMAIN config) \in Nat
           /\ Unvisited(visited, config) \in 0..Cardinality(DOMAIN config)
           /\ Unvisited(visited, config) = 0 => visited = DOMAIN config
<1>1. IsFiniteSet(DOMAIN config) /\ Cardinality(DOMAIN config) \in Nat
  <2>1. IsFiniteSet(DOMAIN config)
    BY DEF Configs
  <2> QED BY <2>1, FS_CardinalityType
<1>2. /\ IsFiniteSet(DOMAIN config \ visited) /\ Cardinality(DOMAIN config \ visited) \in Nat
      /\ Cardinality(DOMAIN config \ visited) <= Cardinality(DOMAIN config)
  BY <1>1, FS_Subset, FS_CardinalityType
<1>3. Cardinality(DOMAIN config \ visited) = 0 => DOMAIN config \ visited = {}
  BY <1>2, FS_EmptySet
<1> QED BY <1>1, <1>2, <1>3 DEF Unvisited

LEMMA FewerUnvisited ==
    ASSUME NEW config \in Configs, NEW visited \in SUBSET DOMAIN config,
           NEW a \in DOMAIN config, a \notin visited
    PROVE  /\ Unvisited(visited \union {a}, config) = Unvisited(visited, config) - 1
           /\ Unvisited(visited, config) # 0
<1>1. IsFiniteSet(DOMAIN config \ visited) /\ a \in DOMAIN config \ visited
  <2>1. IsFiniteSet(DOMAIN config)
    BY DEF Configs
  <2> QED BY <2>1, FS_Subset
<1>2. Cardinality((DOMAIN config \ visited) \ {a}) = Cardinality(DOMAIN config \ visited) - 1
  BY <1>1, FS_RemoveElement
<1>3. (DOMAIN config \ visited) \ {a} = DOMAIN config \ (visited \union {a})
  OBVIOUS
<1>4. Unvisited(visited \union {a}, config) = Unvisited(visited, config) - 1
  BY <1>2, <1>3 DEF Unvisited
<1> QED BY <1>4, UnvisitedType

\* A chain of aliases comes to an end: there is a function that follows it.
LEMMA ChainsEnd ==
    ASSUME NEW config \in Configs, NEW from \in Path
    PROVE  \E g \in Follows(config) : g = Along(g, config, from)
<1> DEFINE D == DOMAIN config
           N == Cardinality(D)
           F == Follows(config)
           none == [visited \in SUBSET D |-> [a \in D |-> {}]]
           step == [p \in (1..N) \X F |-> Along(p[2], config, from)]
           left(visited) == Unvisited(visited, config)
<1>1. IsFiniteSet(D) /\ N \in Nat
  BY FS_CardinalityType DEF Configs
<1>2. none \in F
  BY DEF Follows, Leads
<1>3. step \in [(1..N) \X F -> F]
  BY AlongLeads
<1>4. \A k \in 1..N, v \in F : step[<<k, v>>] = Along(v, config, from)
  OBVIOUS
<1>5. PICK f \in [0..N -> F] : FollowsStep(f, N, none, step)
  <2> HIDE DEF step, N, F, none
  <2> QED BY <1>1, <1>2, <1>3, StepRecursion
<1>6. \A visited \in SUBSET D : left(visited) \in 0..N /\ (left(visited) = 0 => visited = D)
  BY UnvisitedType
<1>7. \A visited \in SUBSET D, a \in D : a \notin visited =>
          left(visited \union {a}) = left(visited) - 1 /\ left(visited) # 0
  BY FewerUnvisited
<1> DEFINE g == [visited \in SUBSET D |-> [a \in D |-> f[left(visited)][visited][a]]]
<1>8. \A visited \in SUBSET D, a \in D : g[visited][a] = f[left(visited)][visited][a]
  OBVIOUS
<1>9. g \in F
  BY <1>6, <1>5 DEF Follows
<1> HIDE DEF left, N, none, step
<1>10. \A visited \in SUBSET D, a \in D : g[visited][a] = Along(g, config, from)[visited][a]
  <2> HIDE DEF g
  <2> SUFFICES ASSUME NEW visited \in SUBSET D, NEW a \in D
               PROVE  g[visited][a] = Along(g, config, from)[visited][a]
    OBVIOUS
  <2> DEFINE next == Head(config[a].value.steps)
             places(h) == IF IsChain(next, config) THEN h[visited \union {a}][next] ELSE Ends(next, config, from)
  <2>1. \A h : Along(h, config, from)[visited][a]
            = IF a \in visited THEN {} ELSE {ResolvePath(p, Tail(config[a].value.steps)) : p \in places(h)}
    BY DEF Along
  <2>2. CASE left(visited) = 0
    <3>1. a \in visited
      BY <1>6, <2>2
    <3>2. g[visited][a] = none[visited][a]
      BY <1>5, <1>8, <2>2 DEF FollowsStep
    <3>3. none[visited][a] = {}
      BY DEF none
    <3> QED BY <2>1, <3>1, <3>2, <3>3
  <2>3. CASE left(visited) # 0
    <3> DEFINE k == left(visited)
    <3>1. k \in 1..N /\ k - 1 \in 0..N /\ k \in 0..N
      BY <1>1, <1>6, <2>3
    <3>2. g[visited][a] = Along(f[k - 1], config, from)[visited][a]
      <4>1. f[k] = step[<<k, f[k - 1]>>] /\ f[k - 1] \in F
        BY <1>5, <3>1 DEF FollowsStep
      <4>2. f[k] = Along(f[k - 1], config, from)
        BY <1>4, <3>1, <4>1
      <4> HIDE DEF k
      <4> QED BY <1>8, <4>2 DEF k
    <3>3. CASE a \in visited
      BY <2>1, <3>2, <3>3
    <3>4. CASE a \notin visited
      <4>1. IsChain(next, config) => places(g) = places(f[k - 1])
        <5> SUFFICES ASSUME IsChain(next, config) PROVE places(g) = places(f[k - 1])
          OBVIOUS
        <5>1. next \in D /\ visited \union {a} \in SUBSET D
          BY DEF IsChain
        <5>2. g[visited \union {a}][next] = f[left(visited \union {a})][visited \union {a}][next]
          BY <1>8, <5>1
        <5>3. left(visited \union {a}) = k - 1
          BY <1>7, <3>4
        <5> HIDE DEF k, next, D
        <5> QED BY <5>2, <5>3
      <4>2. places(g) = places(f[k - 1])
        BY <4>1
      <4> HIDE DEF places, k
      <4> QED BY <2>1, <3>2, <4>2
    <3> QED BY <3>3, <3>4
  <2> QED BY <2>2, <2>3
<1>11. Along(g, config, from) \in F
  BY <1>9, AlongLeads
<1>12. g = Along(g, config, from)
  <2> HIDE DEF g
  <2> QED BY <1>9, <1>10, <1>11 DEF Follows
<1> QED BY <1>9, <1>12

\* An alias leads to one place or to none.
LEMMA AliasLeads ==
    ASSUME NEW config \in Configs, NEW alias, NEW from \in Path
    PROVE  AliasedPlaces(alias, config, from) \in Leads
<1> DEFINE D == DOMAIN config
           X == CHOOSE g : g = Along(g, config, from)
           P == {n \in Nat : \A visited \in SUBSET D, a \in D :
                                Unvisited(visited, config) = n => X[visited][a] \in Leads}
<1>1. X = Along(X, config, from)
  BY ChainsEnd
<1>2. AliasedPlaces(alias, config, from)
        = IF IsChain(alias, config) THEN X[{}][alias] ELSE Ends(alias, config, from)
  BY AliasOrChain
<1> HIDE DEF X
<1>3. ASSUME NEW n \in Nat, \A j \in Nat : j < n => j \in P PROVE n \in P
  <2> SUFFICES ASSUME NEW visited \in SUBSET D, NEW a \in D, Unvisited(visited, config) = n
               PROVE  X[visited][a] \in Leads
    OBVIOUS
  <2> DEFINE next == Head(config[a].value.steps)
             places == IF IsChain(next, config) THEN X[visited \union {a}][next] ELSE Ends(next, config, from)
  <2>1. X[visited][a]
          = IF a \in visited THEN {} ELSE {ResolvePath(p, Tail(config[a].value.steps)) : p \in places}
    <3>1. Along(X, config, from)[visited][a]
            = IF a \in visited THEN {} ELSE {ResolvePath(p, Tail(config[a].value.steps)) : p \in places}
      BY DEF Along
    <3> QED BY <1>1, <3>1
  <2>2. {} \in Leads /\ Tail(config[a].value.steps) \in Path
    BY ConfigInfo DEF Leads, Path
  <2>3. CASE a \in visited
    BY <2>1, <2>2, <2>3
  <2>4. CASE a \notin visited
    <3>1. IsChain(next, config) => X[visited \union {a}][next] \in Leads
      <4> SUFFICES ASSUME IsChain(next, config) PROVE X[visited \union {a}][next] \in Leads
        OBVIOUS
      <4>1. next \in D /\ visited \union {a} \in SUBSET D
        BY DEF IsChain
      <4>2. Unvisited(visited \union {a}, config) = n - 1 /\ n # 0
        BY <2>4, FewerUnvisited
      <4>3. n - 1 \in P
        BY <1>3, <4>2
      <4> HIDE DEF next, D
      <4> QED BY <4>1, <4>2, <4>3
    <3>2. places \in Leads
      BY <3>1, EndsLead
    <3> HIDE DEF places
    <3> QED BY <2>1, <2>2, <2>4, <3>2, LeadsOn
  <2> QED BY <2>3, <2>4
<1>4. Nat \subseteq P
  <2> HIDE DEF P
  <2> QED BY <1>3, StrongInduction
<1>5. CASE IsChain(alias, config)
  <2>1. alias \in D /\ {} \in SUBSET D
    BY <1>5 DEF IsChain
  <2>2. Unvisited({}, config) \in P
    BY <1>4, UnvisitedType
  <2>3. X[{}][alias] \in Leads
    BY <2>1, <2>2
  <2> QED BY <1>2, <1>5, <2>3
<1>6. CASE ~IsChain(alias, config)
  BY <1>2, <1>6, EndsLead
<1> QED BY <1>5, <1>6

-----------------------------------------------------------------------------
(* Configurations                                                          *)

DiskShape ==
    /\ DOMAIN disk = ConfigDirs
    /\ \A dir \in ConfigDirs : DOMAIN disk[dir] = Kinds /\ \A kind \in Kinds : IsWritten(disk[dir][kind])

Caches == UNION {[D -> Configs] : D \in SUBSET Path}

LEMMA EmptyConfig == NoConfig \in Configs /\ NoConfig \in Caches /\ DOMAIN NoConfig = {}
<1>1. NoConfig = [a \in {} |-> NoConfig] /\ DOMAIN NoConfig = {}
  BY DEF NoConfig
<1>2. NoConfig \in [{} -> Info] /\ NoConfig \in [{} -> Configs]
  BY <1>1
<1>3. IsFiniteSet({})
  BY FS_EmptySet
<1> QED BY <1>1, <1>2, <1>3 DEF Configs, Caches

LEMMA ParsedConfig ==
    ASSUME NEW dir \in Path, NEW file, IsWritten(file), NEW config \in Configs
    PROVE  Parse(dir, file, config) \in Configs
<1> DEFINE A == DOMAIN file.aliases
           C == DOMAIN config
<1>1. A \subseteq Name /\ IsFiniteSet(A) /\ C \subseteq Name /\ IsFiniteSet(C)
  BY DEF IsWritten, Configs
<1>2. A \union C \subseteq Name /\ IsFiniteSet(A \union C)
  BY <1>1, FS_Union
<1>3. \A a \in A : [at |-> dir, value |-> file.aliases[a]] \in Info
  BY DEF IsWritten, Info
<1>4. \A a \in C : config[a] \in Info
  BY DEF Configs
<1>5. Parse(dir, file, config) \in [A \union C -> Info]
  BY <1>3, <1>4 DEF Parse
<1> QED BY <1>2, <1>5 DEF Configs

LEMMA OwnConfig ==
    ASSUME DiskShape, NEW dir \in ConfigDirs, NEW config \in Configs
    PROVE  Own(dir, config) \in Configs
<1>1. dir \in Path /\ IsWritten(disk[dir]["luau"]) /\ IsWritten(disk[dir]["luaurc"])
      /\ IsWritten(disk[dir]["robloxrc"])
  BY PathAssumption, NamesAreSteps DEF DiskShape, Kinds
<1>2. Parse(dir, disk[dir]["luau"], config) \in Configs
  BY <1>1, ParsedConfig
<1>3. /\ Parse(dir, disk[dir]["luaurc"], Parse(dir, disk[dir]["luau"], config)) \in Configs
      /\ Parse(dir, disk[dir]["robloxrc"], Parse(dir, disk[dir]["luau"], config)) \in Configs
  BY <1>1, <1>2, ParsedConfig
<1> QED BY <1>3 DEF Own

\* What a directory on the way to dir adds.
Level(dir, n, c, inherited) ==
    LET at == SubSeq(dir, 1, n)
    IN  IF at \in DOMAIN c THEN c[at] ELSE IF at \in ConfigDirs THEN Own(at, inherited) ELSE inherited

LEMMA LevelType ==
    ASSUME DiskShape, NEW dir, NEW n, NEW c \in Caches, NEW inherited \in Configs
    PROVE  Level(dir, n, c, inherited) \in Configs
<1> DEFINE at == SubSeq(dir, 1, n)
<1>1. CASE at \in DOMAIN c
  <2>1. c[at] \in Configs
    BY <1>1 DEF Caches
  <2> QED BY <1>1, <2>1 DEF Level
<1>2. CASE at \notin DOMAIN c
  BY <1>2, OwnConfig DEF Level
<1> QED BY <1>1, <1>2

IsReading(f, dir, c) ==
    /\ f \in [0..Len(dir) -> Configs]
    /\ f[0] = Level(dir, 0, c, NoConfig)
    /\ \A n \in 1..Len(dir) : f[n] = Level(dir, n, c, f[n - 1])

LEMMA ReadingExists ==
    ASSUME DiskShape, NEW dir \in Path, NEW c \in Caches
    PROVE  \E f : IsReading(f, dir, c)
<1> DEFINE N == Len(dir)
           first == Level(dir, 0, c, NoConfig)
           step == [p \in (1..N) \X Configs |-> Level(dir, p[1], c, p[2])]
<1>1. N \in Nat /\ first \in Configs
  BY LevelType, EmptyConfig DEF Path
<1>2. step \in [(1..N) \X Configs -> Configs]
  BY LevelType
<1>3. \A n \in 1..N, config \in Configs : step[<<n, config>>] = Level(dir, n, c, config)
  OBVIOUS
<1>4. PICK f \in [0..N -> Configs] : FollowsStep(f, N, first, step)
  <2> HIDE DEF N, first, step
  <2> QED BY <1>1, <1>2, StepRecursion
<1>5. ASSUME NEW n \in 1..N PROVE f[n] = Level(dir, n, c, f[n - 1])
  <2>1. n - 1 \in 0..N
    BY <1>1
  <2>2. f[n] = step[<<n, f[n - 1]>>] /\ f[n - 1] \in Configs
    BY <1>4, <2>1 DEF FollowsStep
  <2> HIDE DEF step
  <2> QED BY <1>3, <2>2
<1> HIDE DEF step
<1> QED BY <1>4, <1>5 DEF IsReading, FollowsStep

LEMMA ReadingIs ==
    ASSUME DiskShape, NEW dir \in Path, NEW c \in Caches, NEW f, IsReading(f, dir, c)
    PROVE  ReadConfigRec(dir, c) = f[Len(dir)]
<1> DEFINE Def(g) == [n \in 0..Len(dir) |->
                        LET at == SubSeq(dir, 1, n)
                            inherited == IF n = 0 THEN NoConfig ELSE g[n - 1]
                        IN  IF at \in DOMAIN c THEN c[at]
                            ELSE IF at \in ConfigDirs THEN Own(at, inherited) ELSE inherited]
           X == CHOOSE g : g = Def(g)
<1>1. Len(dir) \in Nat
  BY DEF Path
<1>2. \A g : /\ DOMAIN Def(g) = 0..Len(dir)
             /\ Def(g)[0] = Level(dir, 0, c, NoConfig)
             /\ \A n \in 1..Len(dir) : Def(g)[n] = Level(dir, n, c, g[n - 1])
             /\ Def(g) = [n \in 0..Len(dir) |-> Def(g)[n]]
  BY <1>1 DEF Level
<1>3. ReadConfigRec(dir, c) = X[Len(dir)]
  BY DEF ReadConfigRec
<1> HIDE DEF Def
<1>4. f = Def(f)
  <2>1. \A n \in 0..Len(dir) : f[n] = Def(f)[n]
    <3> TAKE n \in 0..Len(dir)
    <3>1. n = 0 \/ n \in 1..Len(dir)
      BY <1>1
    <3> QED BY <1>2, <3>1 DEF IsReading
  <2>2. f = [n \in 0..Len(dir) |-> f[n]]
    BY DEF IsReading
  <2>3. Def(f) = [n \in 0..Len(dir) |-> Def(f)[n]]
    BY <1>2
  <2> QED BY <2>1, <2>2, <2>3
<1>5. X = Def(X)
  BY <1>4
<1> HIDE DEF X
<1> DEFINE P == {n \in Nat : X[n] = f[n]}
<1>6. ASSUME NEW n \in 0..Len(dir), \A j \in 0..Len(dir) : j < n => j \in P PROVE n \in P
  <2>1. CASE n = 0
    BY <1>2, <1>5, <2>1 DEF IsReading
  <2>2. CASE n # 0
    <3>1. n - 1 \in 0..Len(dir) /\ n - 1 < n /\ n \in 1..Len(dir)
      BY <1>1, <2>2
    <3>2. X[n - 1] = f[n - 1]
      BY <1>6, <3>1
    <3> QED BY <1>2, <1>5, <3>1, <3>2 DEF IsReading
  <2> QED BY <2>1, <2>2
<1>7. 0..Len(dir) \subseteq P
  <2>1. 0..Len(dir) \in SUBSET Nat
    BY <1>1
  <2> HIDE DEF P
  <2> QED BY <1>6, <2>1, StrongInduction
<1> QED BY <1>1, <1>3, <1>7

\* What is read on the way to dir is the configuration of the directory there.
LEMMA ReadingOfPrefix ==
    ASSUME DiskShape, NEW dir \in Path, NEW c \in Caches, NEW f, IsReading(f, dir, c),
           NEW n \in 0..Len(dir)
    PROVE  ReadConfigRec(SubSeq(dir, 1, n), c) = f[n]
<1> DEFINE at == SubSeq(dir, 1, n)
           g == [k \in 0..n |-> f[k]]
<1>1. at \in Path /\ Len(at) = n /\ Len(dir) \in Nat
      /\ \A k \in 0..n : SubSeq(at, 1, k) = SubSeq(dir, 1, k)
  BY DEF Path
<1>2. \A k \in 0..n : \A inherited : Level(at, k, c, inherited) = Level(dir, k, c, inherited)
  <2> HIDE DEF at
  <2> QED BY <1>1 DEF Level
<1>3. \A k \in 0..n : k \in 0..Len(dir) /\ (k # 0 => k \in 1..Len(dir) /\ k - 1 \in 0..n)
  BY <1>1
<1>4. \A k \in 0..n : g[k] = f[k]
  OBVIOUS
<1>5. IsReading(g, at, c)
  <2>1. g \in [0..Len(at) -> Configs]
    <3> HIDE DEF at
    <3> QED BY <1>1, <1>3 DEF IsReading
  <2>2. g[0] = Level(at, 0, c, NoConfig)
    <3>1. 0 \in 0..n
      BY <1>1
    <3> HIDE DEF g, at
    <3> QED BY <1>2, <1>4, <3>1 DEF IsReading
  <2>3. ASSUME NEW k \in 1..Len(at) PROVE g[k] = Level(at, k, c, g[k - 1])
    <3>1. k \in 0..n /\ k # 0 /\ k - 1 \in 0..n /\ k \in 1..Len(dir)
      BY <1>1, <1>3
    <3> HIDE DEF g, at
    <3> QED BY <1>2, <1>4, <3>1 DEF IsReading
  <2> HIDE DEF g, at
  <2> QED BY <2>1, <2>2, <2>3 DEF IsReading
<1>6. ReadConfigRec(at, c) = g[Len(at)]
  <2> HIDE DEF g, at
  <2> QED BY <1>1, <1>5, ReadingIs
<1>7. n \in 0..n
  BY <1>1
<1> QED BY <1>1, <1>4, <1>6, <1>7

LEMMA ReadType ==
    ASSUME DiskShape, NEW dir \in Path, NEW c \in Caches
    PROVE  ReadConfigRec(dir, c) \in Configs
<1>1. PICK f : IsReading(f, dir, c)
  BY ReadingExists
<1> QED BY <1>1, ReadingIs DEF IsReading, Path

IsCurrent(c) == \A d \in DOMAIN c : c[d] = ReadConfigRec(d, NoConfig)

\* A cache that agrees with the files does not change what is read.
LEMMA ReadAgain ==
    ASSUME DiskShape, NEW c \in Caches, IsCurrent(c), NEW dir \in Path
    PROVE  ReadConfigRec(dir, c) = ReadConfigRec(dir, NoConfig)
<1>1. PICK f : IsReading(f, dir, c)
  BY ReadingExists
<1>2. PICK g : IsReading(g, dir, NoConfig)
  BY EmptyConfig, ReadingExists
<1>3. Len(dir) \in Nat
  BY DEF Path
<1> DEFINE P == {n \in Nat : f[n] = g[n]}
<1>4. ASSUME NEW n \in 0..Len(dir), \A j \in 0..Len(dir) : j < n => j \in P PROVE n \in P
  <2> DEFINE at == SubSeq(dir, 1, n)
             from(h) == IF n = 0 THEN NoConfig ELSE h[n - 1]
  <2>1. f[n] = Level(dir, n, c, from(f)) /\ g[n] = Level(dir, n, NoConfig, from(g))
    <3>1. n = 0 \/ n \in 1..Len(dir)
      BY <1>3
    <3> QED BY <1>1, <1>2, <3>1 DEF IsReading
  <2>2. from(f) = from(g)
    <3>1. n # 0 => n - 1 \in 0..Len(dir) /\ n - 1 < n
      BY <1>3
    <3> QED BY <1>4, <3>1
  <2> HIDE DEF from
  <2>3. CASE at \in DOMAIN c
    <3>1. f[n] = c[at]
      BY <2>1, <2>3 DEF Level
    <3>2. c[at] = ReadConfigRec(at, NoConfig)
      BY <2>3 DEF IsCurrent
    <3>3. ReadConfigRec(at, NoConfig) = g[n]
      BY <1>2, EmptyConfig, ReadingOfPrefix
    <3> QED BY <3>1, <3>2, <3>3
  <2>4. CASE at \notin DOMAIN c
    BY <2>1, <2>2, <2>4, EmptyConfig DEF Level
  <2> QED BY <2>3, <2>4
<1>5. 0..Len(dir) \subseteq P
  <2>1. 0..Len(dir) \in SUBSET Nat
    BY <1>3
  <2> HIDE DEF P
  <2> QED BY <1>4, <2>1, StrongInduction
<1>6. f[Len(dir)] = g[Len(dir)]
  BY <1>3, <1>5
<1> QED BY <1>1, <1>2, <1>6, EmptyConfig, ReadingIs

LEMMA CachedIsCurrent ==
    ASSUME DiskShape, NEW c \in Caches, NEW dir \in Path
    PROVE  /\ Cached(dir, c) \in Caches
           /\ IsCurrent(c) => IsCurrent(Cached(dir, c))
<1>1. Prefixes(dir) \subseteq Path
  BY DEF Prefixes, Path
<1>2. DOMAIN c \subseteq Path /\ \A d \in DOMAIN c : c[d] \in Configs
  BY DEF Caches
<1>3. \A d \in Prefixes(dir) : ReadConfigRec(d, c) \in Configs
  BY <1>1, ReadType
<1>4. Cached(dir, c) \in [Prefixes(dir) \union DOMAIN c -> Configs]
  BY <1>2, <1>3 DEF Cached
<1>5. Prefixes(dir) \union DOMAIN c \in SUBSET Path
  BY <1>1, <1>2
<1>6. ASSUME IsCurrent(c), NEW d \in DOMAIN Cached(dir, c)
      PROVE  Cached(dir, c)[d] = ReadConfigRec(d, NoConfig)
  <2>1. Cached(dir, c)[d] = IF d \in DOMAIN c THEN c[d] ELSE ReadConfigRec(d, c)
    BY DEF Cached
  <2>2. CASE d \in DOMAIN c
    BY <1>6, <2>1, <2>2 DEF IsCurrent
  <2>3. CASE d \notin DOMAIN c
    <3>1. d \in Path
      BY <1>4, <1>5
    <3> QED BY <1>6, <2>1, <2>3, <3>1, ReadAgain
  <2> QED BY <2>2, <2>3
<1> QED BY <1>4, <1>5, <1>6 DEF Caches, IsCurrent

LEMMA ReadsSameDisk ==
    ASSUME disk' = disk, NEW dir
    PROVE  ReadConfigRec(dir, NoConfig)' = ReadConfigRec(dir, NoConfig)
BY DEF ReadConfigRec, Own

\* The shape of the files and of the cache, beside ConfigIsCurrent.
RequiresInv ==
    /\ home \in Homes
    /\ DiskShape
    /\ unseen \subseteq ConfigDirs \X Kinds
    /\ cache \in Caches
    /\ ConfigIsCurrent

LEMMA ConfigDirPath ==
    ASSUME home \in Homes
    PROVE  ConfigDir(home) \in Path /\ Front(home.path) \in Path
<1>1. home \in Files
  BY PathAssumption
<1> QED BY <1>1, BasePath DEF ConfigDir

LEMMA InitHasRequires == Init => RequiresInv
<1> SUFFICES ASSUME Init PROVE RequiresInv
  OBVIOUS
<1> USE DEF Init, InitRequires
<1>1. DiskShape
  BY ConfigAssumption DEF DiskShape
<1>2. cache \in Caches /\ DOMAIN cache = {}
  BY EmptyConfig
<1> QED BY <1>1, <1>2 DEF RequiresInv, ConfigIsCurrent

\* Reading the configuration of a directory again.
LEMMA ReadsConfigKeeps ==
    ASSUME RequiresInv, NEW dir \in Path, disk' = disk, NEW c \in Caches,
           cache' = Cached(dir, c), IsCurrent(c) \/ unseen' # {}
    PROVE  cache' \in Caches /\ ConfigIsCurrent'
<1>1. DiskShape
  BY DEF RequiresInv
<1>2. cache' \in Caches
  BY <1>1, CachedIsCurrent
<1>3. ASSUME unseen' = {} PROVE \A d \in DOMAIN cache' : cache'[d] = ReadConfigRec(d, NoConfig)'
  <2>1. IsCurrent(cache')
    BY <1>1, <1>3, CachedIsCurrent
  <2>2. \A d : ReadConfigRec(d, NoConfig)' = ReadConfigRec(d, NoConfig)
    BY ReadsSameDisk
  <2> QED BY <2>1, <2>2 DEF IsCurrent
<1> QED BY <1>2, <1>3 DEF ConfigIsCurrent

LEMMA NextKeepsRequires ==
    ASSUME RequiresInv, [Next]_vars
    PROVE  RequiresInv'
<1>1. /\ home \in Homes /\ DiskShape /\ unseen \subseteq ConfigDirs \X Kinds
      /\ cache \in Caches /\ ConfigIsCurrent
  BY DEF RequiresInv
<1>2. unseen = {} => IsCurrent(cache)
  BY <1>1 DEF ConfigIsCurrent, IsCurrent
<1>3. ASSUME UNCHANGED requireVars PROVE RequiresInv'
  <2>1. disk' = disk /\ unseen' = unseen /\ cache' = cache /\ home' = home
    BY <1>3 DEF requireVars, configVars
  <2>2. DiskShape'
    BY <1>1, <2>1 DEF DiskShape
  <2>3. ConfigIsCurrent'
    <3>1. \A d : ReadConfigRec(d, NoConfig)' = ReadConfigRec(d, NoConfig)
      BY <2>1, ReadsSameDisk
    <3> QED BY <1>1, <2>1, <3>1 DEF ConfigIsCurrent
  <2> QED BY <1>1, <2>1, <2>2, <2>3 DEF RequiresInv
<1>4. ASSUME NEW dir \in Path, ReadsConfig(dir, cache), UNCHANGED <<disk, unseen, home>>
      PROVE  RequiresInv'
  <2>1. cache' \in Caches /\ ConfigIsCurrent'
    BY <1>1, <1>2, <1>4, ReadsConfigKeeps DEF ReadsConfig
  <2>2. DiskShape'
    BY <1>1, <1>4 DEF DiskShape
  <2> QED BY <1>1, <1>4, <2>1, <2>2 DEF RequiresInv
<1>5. CASE Type
  BY <1>3, <1>5 DEF Type, Edited
<1>6. CASE CheckDocument
  BY <1>1, <1>4, <1>6, ConfigDirPath DEF CheckDocument
<1>7. CASE CodeAction
  BY <1>3, <1>7 DEF CodeAction, Edited
<1>8. CASE AcceptImport
  BY <1>3, <1>8 DEF AcceptImport, Edited
<1>9. CASE ChangeConfig
  <2>1. PICK dir \in ConfigDirs, kind \in Kinds, file \in Contents \union {NoFile} :
           /\ disk' = [disk EXCEPT ![dir][kind] = file]
           /\ unseen' = unseen \union {<<dir, kind>>}
           /\ UNCHANGED <<cache, home>>
    BY <1>9 DEF ChangeConfig
  <2>2. IsWritten(file)
    <3>1. IsWritten(NoFile)
      <4>1. << >> = [a \in DOMAIN << >> |-> << >>[a]] /\ DOMAIN << >> = {} /\ IsFiniteSet({})
        BY FS_EmptySet
      <4> QED BY <4>1 DEF IsWritten, NoFile
    <3> QED BY <3>1, ConfigAssumption
  <2>3. DiskShape'
    <3>1. DOMAIN disk' = ConfigDirs
      BY <1>1, <2>1 DEF DiskShape
    <3>2. ASSUME NEW d \in ConfigDirs, NEW k \in Kinds
          PROVE  DOMAIN disk'[d] = Kinds /\ IsWritten(disk'[d][k])
      <4>1. DOMAIN disk[d] = Kinds /\ IsWritten(disk[d][k])
        BY <1>1 DEF DiskShape
      <4>2. DOMAIN disk'[d] = DOMAIN disk[d]
            /\ (disk'[d][k] = file \/ disk'[d][k] = disk[d][k])
        BY <1>1, <2>1, <4>1 DEF DiskShape
      <4> QED BY <2>2, <4>1, <4>2
    <3> QED BY <3>1, <3>2 DEF DiskShape
  <2>4. unseen' # {} /\ unseen' \subseteq ConfigDirs \X Kinds
    <3>1. unseen' = unseen \union {<<dir, kind>>} /\ <<dir, kind>> \in ConfigDirs \X Kinds
      BY <2>1
    <3>2. unseen \subseteq ConfigDirs \X Kinds
      BY <1>1
    <3> QED BY <3>1, <3>2, Zenon
  <2>5. ConfigIsCurrent'
    BY <2>4 DEF ConfigIsCurrent
  <2>6. cache' = cache /\ home' = home
    BY <2>1
  <2> QED BY <1>1, <2>3, <2>4, <2>5, <2>6 DEF RequiresInv
<1>10. CASE ConfigChanged(clean)
  <2>1. PICK change \in unseen :
           /\ unseen' = unseen \ {change}
           /\ LET cleared == IF IsConfig(change) THEN NoConfig ELSE cache
              IN  cache' = Cached(ConfigDir(home), cleared) \/ cache' = cleared
           /\ UNCHANGED <<disk, home>>
    BY <1>10 DEF ConfigChanged, ReadsConfig
  <2>2. IsConfig(change)
    BY <1>1 DEF IsConfig
  <2>3. IsCurrent(NoConfig)
    BY EmptyConfig DEF IsCurrent
  <2>4. cache' \in Caches /\ ConfigIsCurrent'
    <3>1. CASE cache' = NoConfig
      BY <3>1, EmptyConfig DEF ConfigIsCurrent
    <3>2. CASE cache' = Cached(ConfigDir(home), NoConfig)
      BY <1>1, <2>1, <2>3, <3>2, ConfigDirPath, EmptyConfig, ReadsConfigKeeps
    <3> QED BY <2>1, <2>2, <3>1, <3>2
  <2>5. DiskShape'
    BY <1>1, <2>1 DEF DiskShape
  <2> QED BY <1>1, <2>1, <2>4, <2>5 DEF RequiresInv
<1>11. CASE IndexFiles
  <2>1. Root \in Path
    BY PathAssumption, NamesAreSteps
  <2> QED BY <1>4, <1>11, <2>1 DEF IndexFiles
<1>12. CASE UNCHANGED vars
  BY <1>3, <1>12 DEF vars
<1> QED BY <1>5, <1>6, <1>7, <1>8, <1>9, <1>10, <1>11, <1>12 DEF Next, Configure

\* Once the server has been told of every change of a configuration file,
\* each entry of configCache is what the files of that directory and of those
\* above it say now, whatever was read in between.
THEOREM ConfigsStayCurrent == Spec => []ConfigIsCurrent
<1>1. RequiresInv => ConfigIsCurrent
  BY DEF RequiresInv
<1> QED BY <1>1, InitHasRequires, NextKeepsRequires, PTL DEF Spec

-----------------------------------------------------------------------------
(* What is written and what is offered                                     *)

LEMMA AppendKeeps ==
    ASSUME NEW S, NEW s \in Seq(S), NEW x \in S, NEW k \in DOMAIN s
    PROVE  k \in DOMAIN Append(s, x) /\ Append(s, x)[k] = s[k]
OBVIOUS

LEMMA OneStep ==
    ASSUME NEW s \in Step
    PROVE  <<s>> \in Path /\ \A u \in Step : Append(<<s>>, u) \in Path
<1>1. <<s>> \in Path /\ Len(<<s>>) = 1 /\ <<s>>[1] = s
  BY DEF Path
<1>2. \A p \in Path, u \in Step : Append(p, u) \in Path
  BY DEF Path
<1> QED BY <1>1, <1>2

LEMMA LastOf ==
    ASSUME NEW s \in Path, s # << >>
    PROVE  Last(s) = s[Len(s)] /\ Len(s) \in DOMAIN s /\ Last(s) \in Step
<1>1. Len(s) \in 1..Len(s)
  BY EmptySeq DEF Path
<1> QED BY <1>1 DEF Last, Path

LEMMA ShortSequences ==
    ASSUME NEW a, NEW x
    PROVE  /\ Head(<<a>>) = a /\ Tail(<<a>>) = << >>
           /\ Append(<<a>>, x) = <<a, x>>
           /\ Head(<<a, x>>) = a /\ Tail(<<a, x>>) = <<x>>
<1> DEFINE S == {a, x}
<1>1. a \in S /\ x \in S
  OBVIOUS
<1> HIDE DEF S
<1>2. <<a>> \in Seq(S) /\ <<a, x>> \in Seq(S)
  BY <1>1
<1>3. Head(<<a>>) = a /\ Head(<<a, x>>) = a /\ Append(<<a>>, x) = <<a, x>>
  <2>1. Head(<<a>>) = a /\ Head(<<a, x>>) = a
    BY <1>1, <1>2
  <2>2. /\ Append(<<a>>, x) \in Seq(S) /\ Len(Append(<<a>>, x)) = 2 /\ Len(<<a, x>>) = 2
        /\ Append(<<a>>, x)[1] = a /\ Append(<<a>>, x)[2] = x
        /\ <<a, x>>[1] = a /\ <<a, x>>[2] = x
    BY <1>1, <1>2
  <2>3. \A k \in 1..2 : k = 1 \/ k = 2
    OBVIOUS
  <2> DEFINE l == Append(<<a>>, x)
             r == <<a, x>>
  <2> HIDE DEF l, r
  <2>4. l \in Seq(S) /\ r \in Seq(S) /\ Len(l) = Len(r) /\ \A k \in 1..Len(l) : l[k] = r[k]
    BY <1>2, <2>2, <2>3 DEF l, r
  <2>5. l = r
    BY <2>4, SeqEqual
  <2> QED BY <2>1, <2>5 DEF l, r
<1>4. Tail(<<a>>) = << >>
  BY <1>1, <1>2
<1>5. Tail(<<a, x>>) = <<x>>
  BY <1>1, <1>2
<1> QED BY <1>3, <1>4, <1>5

\* The alias that a path begins with stays in it, if no step leads up.
LEMMA KeepsMark ==
    ASSUME NEW base \in Path, NEW t \in Path, \A k \in DOMAIN t : t[k] # ".."
    PROVE  \E k \in DOMAIN ResolvePath(base, <<"@">> \o t) : ResolvePath(base, <<"@">> \o t)[k] = "@"
<1> DEFINE steps == <<"@">> \o t
           at == Len(base) + 1
<1>1. /\ steps \in Path /\ Len(steps) = Len(t) + 1 /\ Len(t) \in Nat /\ Len(base) \in Nat
      /\ steps # << >> /\ Head(steps) = "@" /\ steps[1] = "@"
      /\ \A n \in 2..Len(steps) : steps[n] # ".." /\ steps[n] \in Step
  <2>1. <<"@">> \in Path /\ Len(<<"@">>) = 1 /\ <<"@">>[1] = "@"
    BY DEF Path, Step
  <2> QED BY <2>1 DEF Path
<1> HIDE DEF steps
<1>2. PICK f : IsWalk(f, Start(base, steps), steps) /\ ResolvePath(base, steps) = f[Len(steps)]
  BY <1>1, ResolvedPath
<1>3. Start(base, steps) = base
  BY <1>1 DEF Start
<1> DEFINE P == {n \in Nat : n = 0 \/ (at \in DOMAIN f[n] /\ f[n][at] = "@")}
<1>4. ASSUME NEW n \in 0..Len(steps), \A j \in 0..Len(steps) : j < n => j \in P PROVE n \in P
  <2>1. CASE n = 0
    BY <2>1
  <2>2. CASE n = 1
    <3>1. f[1] = Walk(base, "@")
      BY <1>1, <1>2, <1>3 DEF IsWalk
    <3>2. f[1] = Append(base, "@")
      BY <3>1 DEF Walk
    <3>3. at \in DOMAIN Append(base, "@") /\ Append(base, "@")[at] = "@"
      BY <1>1 DEF Path, Step
    <3> QED BY <2>2, <3>2, <3>3
  <2>3. CASE n > 1
    <3>1. /\ n - 1 \in 0..Len(steps) /\ n - 1 < n /\ n - 1 # 0 /\ n \in 1..Len(steps)
          /\ n \in 2..Len(steps)
      BY <1>1, <2>3
    <3>2. at \in DOMAIN f[n - 1] /\ f[n - 1][at] = "@"
      BY <1>4, <3>1
    <3>3. f[n] = Walk(f[n - 1], steps[n]) /\ f[n - 1] \in Path
      BY <1>2, <3>1 DEF IsWalk
    <3>4. f[n] = f[n - 1] \/ f[n] = Append(f[n - 1], steps[n])
      BY <1>1, <3>1, <3>3 DEF Walk
    <3>5. at \in DOMAIN f[n] /\ f[n][at] = "@"
      <4>1. f[n - 1] \in Seq(Step) /\ steps[n] \in Step
        BY <1>1, <3>1, <3>3 DEF Path
      <4>2. at \in DOMAIN Append(f[n - 1], steps[n]) /\ Append(f[n - 1], steps[n])[at] = f[n - 1][at]
        BY <3>2, <4>1, AppendKeeps
      <4> QED BY <3>2, <3>4, <4>2
    <3> QED BY <3>5
  <2> QED BY <2>1, <2>2, <2>3
<1>5. 0..Len(steps) \subseteq P
  <2>1. 0..Len(steps) \in SUBSET Nat
    BY <1>1
  <2> HIDE DEF P
  <2> QED BY <1>4, <2>1, StrongInduction
<1>6. at \in DOMAIN f[Len(steps)] /\ f[Len(steps)][at] = "@"
  BY <1>1, <1>5
<1> QED BY <1>2, <1>6 DEF steps

\* The path without an alias, however many files are init files.
LEMMA RelativePathLeads ==
    ASSUME NEW from \in Files, NEW m \in Files, Alone(m), NEW config \in Configs,
           ~original, "self" \notin DOMAIN config
    PROVE  ResolveStringRequire(from, RelativePath(from, LexicallyRelative(Target(m), Front(from.path))), config) = m
<1> DEFINE dir == Front(from.path)
           steps == LexicallyRelative(Target(m), dir)
           arg == RelativePath(from, steps)
           goal == Target(m).path
<1> SUFFICES ResolveStringRequire(from, arg, config) = m
  OBVIOUS
<1>1. dir \in Path /\ Front(dir) \in Path
  BY BasePath
<1>2. steps \in Path /\ Stays(steps) /\ steps # << >> /\ ResolvePath(dir, steps) = goal
  BY <1>1, TargetNames, RelativeLeads
<1> HIDE DEF steps, goal, arg
<1>3. ASSUME NEW s \in Path, Stays(s), ResolvePath(Base(from), s) = goal,
             arg = Relative(s) \/ arg = Relative(<<".">> \o s)
      PROVE  ResolveStringRequire(from, arg, config) = m
  <2>1. ResolvePath(Base(from), <<".">> \o s) = goal
    <3>1. Walk(Base(from), ".") = Base(from) /\ "." \in Step \ {"/"}
      BY DEF Walk, Step
    <3> QED BY <1>3, <3>1, BasePath, ResolveFirst
  <2>2. arg.lead = "." /\ ResolvePath(Base(from), Literally(arg)) = goal
    <3>1. CASE arg = Relative(s)
      BY <1>3, <3>1 DEF Relative, Literally
    <3>2. CASE arg = Relative(<<".">> \o s)
      <4>1. Literally(arg) = <<".">> \o s /\ arg.lead = "."
        BY <3>2 DEF Relative, Literally
      <4> QED BY <2>1, <4>1
    <3> QED BY <1>3, <3>1, <3>2
  <2>3. ResolveAlias(arg, config, Front(from.path)) = {}
    BY <2>2 DEF ResolveAlias
  <2> QED BY <2>2, <2>3, RequireLeads DEF goal
<1>4. CASE ~IsInit(from.path)
  <2>1. Base(from) = dir
    BY <1>4 DEF Base
  <2>2. arg = Relative(steps) \/ arg = Relative(<<".">> \o steps)
    BY <1>4 DEF RelativePath, arg
  <2> QED BY <1>2, <1>3, <2>1, <2>2
<1>5. CASE IsInit(from.path) /\ Len(steps) > 1 /\ Head(steps) = ".."
  <2>1. Base(from) = Front(dir)
    BY <1>5 DEF Base
  <2>2. Tail(steps) \in Path /\ Stays(Tail(steps)) /\ steps = <<"..">> \o Tail(steps)
    <3>1. Tail(steps) \in Path /\ \A k \in DOMAIN Tail(steps) : k + 1 \in DOMAIN steps /\ Tail(steps)[k] = steps[k + 1]
      BY <1>2 DEF Path
    <3>2. steps = <<Head(steps)>> \o Tail(steps)
      BY <1>2 DEF Path
    <3> QED BY <1>2, <1>5, <3>1, <3>2 DEF Stays
  <2>3. ResolvePath(dir, steps) = ResolvePath(Front(dir), Tail(steps))
    <3>1. Walk(dir, "..") = Front(dir) /\ ".." \in Step \ {"/"}
      BY DEF Walk, Step
    <3>2. ResolvePath(dir, <<"..">> \o Tail(steps)) = ResolvePath(Front(dir), Tail(steps))
      BY <1>1, <2>2, <3>1, ResolveFirst
    <3> QED BY <2>2, <3>2
  <2>4. arg = Relative(Tail(steps)) \/ arg = Relative(<<".">> \o Tail(steps))
    BY <1>5 DEF RelativePath, arg
  <2> HIDE DEF dir
  <2> QED BY <1>2, <1>3, <2>1, <2>2, <2>3, <2>4
<1>6. CASE IsInit(from.path) /\ ~(Len(steps) > 1 /\ Head(steps) = "..")
  <2>1. arg = Aliased(<<"self">> \o steps)
    BY <1>6 DEF RelativePath, arg
  <2>2. arg.lead = "@" /\ arg.steps = <<"self">> \o steps
    BY <2>1 DEF Aliased
  <2>3. Head(<<"self">> \o steps) = "self" /\ Tail(<<"self">> \o steps) = steps
    BY <1>2 DEF Path
  <2>4. AliasedPlaces("self", config, dir) = {dir}
    BY PlainAlias DEF IsChain
  <2>5. ResolveAlias(arg, config, dir) = {ResolvePath(dir, steps)}
    BY <2>2, <2>3, <2>4 DEF ResolveAlias
  <2>6. ResolveAlias(arg, config, Front(from.path)) = {goal}
    BY <1>2, <2>5
  <2> QED BY <2>6, RequireLeads DEF goal
<1> QED BY <1>4, <1>5, <1>6

\* The path behind the best alias.
LEMMA AliasedPathLeads ==
    ASSUME NEW from \in Files, NEW m \in Files, Alone(m), NEW config \in Configs,
           \A a \in DOMAIN config :
               config[a].value.lead = "@" => ".." \notin Range(Tail(config[a].value.steps)),
           NEW arg \in BestAliasedPaths(Target(m), config)
    PROVE  ResolveStringRequire(from, arg, config) = m
<1> DEFINE dir == Front(from.path)
           goal == Target(m).path
<1>1. goal \in Path /\ \A k \in DOMAIN goal : Plain(goal[k]) /\ goal[k] # "@"
  BY TargetNames DEF IsNames
<1>2. PICK a \in DOMAIN config :
         /\ ResolveAliasLocation(config[a]) \in DirsOf(Target(m))
         /\ arg = Aliased(<<a>> \o SubSeq(goal, Len(ResolveAliasLocation(config[a])) + 1, Len(goal)))
  BY DEF BestAliasedPaths
<1> DEFINE loc == ResolveAliasLocation(config[a])
           rest == SubSeq(goal, Len(loc) + 1, Len(goal))
<1>3. Len(loc) \in 0..Len(goal) /\ loc = SubSeq(goal, 1, Len(loc)) /\ Len(goal) \in Nat
  <2>1. Len(goal) \in Nat
    BY <1>1 DEF Path
  <2> QED BY <1>1, <1>2, <2>1, DirsAbove
<1>4. ~IsChain(a, config)
  <2> SUFFICES ASSUME config[a].value.lead = "@" PROVE FALSE
    BY DEF IsChain
  <2>1. /\ config[a].at \in Path /\ Tail(config[a].value.steps) \in Path
        /\ loc = ResolvePath(config[a].at, <<"@">> \o Tail(config[a].value.steps))
    BY ConfigInfo, LiterallyPath DEF ResolveAliasLocation
  <2>2. \A k \in DOMAIN Tail(config[a].value.steps) : Tail(config[a].value.steps)[k] # ".."
    BY DEF Range
  <2>3. PICK k \in DOMAIN loc : loc[k] = "@"
    BY <2>1, <2>2, KeepsMark
  <2> HIDE DEF loc, goal
  <2>4. k \in DOMAIN goal /\ goal[k] = "@"
    <3>1. DOMAIN loc = 1..Len(loc) /\ \A i \in 1..Len(loc) : i \in DOMAIN goal /\ loc[i] = goal[i]
      BY <1>1, <1>3 DEF Path
    <3> QED BY <2>3, <3>1
  <2> QED BY <1>1, <2>4
<1>5. AliasedPlaces(a, config, dir) = {loc}
  BY <1>4, PlainAlias
<1>6. rest \in Path /\ loc \in Path /\ loc \o rest = goal
      /\ \A k \in DOMAIN rest : Plain(rest[k])
  <2> HIDE DEF goal, loc
  <2>1. SubSeq(goal, 1, Len(loc)) \in Path /\ SubSeq(goal, 1, Len(loc)) \o rest = goal
    BY <1>1, <1>3, SplitPath
  <2>2. rest \in Path /\ \A k \in DOMAIN rest : Plain(rest[k])
    BY <1>1, <1>3 DEF Path
  <2> QED BY <1>3, <2>1, <2>2
<1> HIDE DEF rest, loc, goal
<1>7. ResolvePath(loc, rest) = goal
  BY <1>6, ResolveDown
<1>8. arg.lead = "@" /\ Head(arg.steps) = a /\ Tail(arg.steps) = rest
  <2>1. arg = Aliased(<<a>> \o rest) /\ a \in Step
    BY <1>2 DEF rest, loc, Configs, Step
  <2>2. Head(<<a>> \o rest) = a /\ Tail(<<a>> \o rest) = rest
    BY <1>6, <2>1 DEF Path
  <2> QED BY <2>1, <2>2 DEF Aliased
<1>9. ResolveAlias(arg, config, dir) = {goal}
  BY <1>5, <1>7, <1>8 DEF ResolveAlias
<1> QED BY <1>9, RequireLeads DEF goal

\* What is offered behind an argument that is typed.
LEMMA OfferLeads ==
    ASSUME NEW from \in Files, NEW config \in Configs, ~original,
           NEW arg, \/ arg = Relative(<<".">>) \/ arg = Relative(<<".", "..">>) \/ arg = Relative(<<"..">>)
                    \/ \E a : arg = Aliased(<<a>>),
           NEW offer \in Offers(from, arg, config), offer.meant.ext # "", Alone(offer.meant)
    PROVE  ResolveStringRequire(from, offer.arg, config) = offer.meant
<1>1. PICK path \in ResolvePathToNode(from, arg, config) : \E m \in Children(path) :
         offer = [arg |-> [arg EXCEPT !.steps = Append(@, Last(m.path))], meant |-> m]
  BY DEF Offers
<1>0. PICK m \in Children(path) :
         offer = [arg |-> [arg EXCEPT !.steps = Append(@, Last(m.path))], meant |-> m]
  BY <1>1
<1>2. offer.meant = m /\ m.ext # "" /\ Alone(m)
  BY <1>0
<1>3. m \in Files /\ path = Front(m.path) /\ ~IsInit(m.path)
  <2>1. ASSUME NEW d, m = [path |-> d, ext |-> ""] PROVE FALSE
    <3>1. m.ext = ""
      BY <2>1
    <3> QED BY <1>2, <3>1
  <2> QED BY <2>1 DEF Children
<1> DEFINE x == Last(m.path)
           dir == Front(from.path)
<1>4. x \in Step \ {"/"} /\ Plain(x) /\ Append(path, x) = m.path /\ path \in Path
  <2>1. /\ IsNames(m.path) /\ Len(m.path) \in Nat \ {0} /\ IsNames(path) /\ Append(path, x) = m.path
    BY <1>3, FileNames
  <2>2. x = m.path[Len(m.path)] /\ Len(m.path) \in DOMAIN m.path /\ x \in Step
    BY <1>3, <2>1, FileNames, LastOf DEF IsNames
  <2> QED BY <2>1, <2>2 DEF IsNames, Plain
<1>5. Target(m).path = m.path
  BY <1>3 DEF Target
<1> HIDE DEF x
<1>6. Walk(path, x) = m.path
  BY <1>4 DEF Walk, Plain
<1>7. offer.arg = [arg EXCEPT !.steps = Append(@, x)]
  BY <1>0 DEF x
<1>8. dir \in Path /\ Base(from) \in Path
  BY BasePath
<1>9. ASSUME NEW s \in Path, arg = Relative(s)
      PROVE  ResolveStringRequire(from, offer.arg, config) = m
  <2>1. arg.lead = "." /\ arg.steps = s
    BY <1>9 DEF Relative
  <2>2. offer.arg.lead = "." /\ offer.arg.steps = Append(s, x)
    BY <1>7, <1>9 DEF Relative
  <2>3. ResolvePath(Base(from), s) = path
    BY <1>1, <2>1 DEF ResolvePathToNode, ResolveAlias, Base
  <2>4. ResolvePath(Base(from), Literally(offer.arg)) = m.path
    <3>1. Literally(offer.arg) = Append(s, x)
      BY <2>2 DEF Literally
    <3>2. ResolvePath(Base(from), Append(s, x)) = Walk(path, x)
      BY <1>4, <1>8, <1>9, <2>3, ResolveMore
    <3> QED BY <1>6, <3>1, <3>2
  <2>5. ResolveAlias(offer.arg, config, Front(from.path)) = {}
    BY <2>2 DEF ResolveAlias
  <2>6. ResolvePath(Base(from), Literally(offer.arg)) = Target(m).path
    BY <1>5, <2>4
  <2> QED BY <1>2, <1>3, <2>5, <2>6, RequireLeads, Zenon
<1>10. ASSUME NEW a, arg = Aliased(<<a>>)
       PROVE  ResolveStringRequire(from, offer.arg, config) = m
  <2>1. arg.lead = "@" /\ arg.steps = <<a>> /\ Head(arg.steps) = a /\ Tail(arg.steps) = << >>
    BY <1>10, ShortSequences DEF Aliased
  <2>2. /\ offer.arg.lead = "@" /\ offer.arg.steps = <<a, x>>
        /\ Head(offer.arg.steps) = a /\ Tail(offer.arg.steps) = <<x>>
    <3>1. offer.arg.lead = "@" /\ offer.arg.steps = Append(<<a>>, x)
      BY <1>7, <1>10 DEF Aliased
    <3>2. Append(<<a>>, x) = <<a, x>> /\ Head(<<a, x>>) = a /\ Tail(<<a, x>>) = <<x>>
      BY ShortSequences
    <3> QED BY <3>1, <3>2
  <2>3. path \in {ResolvePath(p, << >>) : p \in AliasedPlaces(a, config, dir)}
    <3>1. path \in ResolveAlias(arg, config, dir)
      BY <1>1, <2>1 DEF ResolvePathToNode
    <3> QED BY <2>1, <3>1 DEF ResolveAlias
  <2>4. PICK p \in Path : AliasedPlaces(a, config, dir) = {p}
    <3>1. AliasedPlaces(a, config, dir) \in Leads
      BY <1>8, AliasLeads
    <3> QED BY <2>3, <3>1 DEF Leads
  <2>5. path = p
    <3>1. path = ResolvePath(p, << >>)
      BY <2>3, <2>4
    <3> QED BY <3>1, ResolveNone
  <2>6. ResolvePath(p, <<x>>) = m.path
    BY <1>4, <1>6, <2>5, ResolveOne
  <2>7. ResolveAlias(offer.arg, config, dir) = {m.path}
    <3>1. ResolveAlias(offer.arg, config, dir) = {ResolvePath(q, <<x>>) : q \in AliasedPlaces(a, config, dir)}
      BY <2>2 DEF ResolveAlias
    <3>2. {ResolvePath(q, <<x>>) : q \in {p}} = {ResolvePath(p, <<x>>)}
      OBVIOUS
    <3> QED BY <2>4, <2>6, <3>1, <3>2
  <2>8. ResolveAlias(offer.arg, config, Front(from.path)) = {Target(m).path}
    BY <1>5, <2>7
  <2> QED BY <1>2, <1>3, <2>8, RequireLeads, Zenon
<1>11. <<".">> \in Path /\ <<".", "..">> \in Path /\ <<"..">> \in Path
  <2>1. \A s \in Step : <<s>> \in Path
    BY OneStep
  <2>2. \A s, u \in Step : Append(<<s>>, u) \in Path
    BY OneStep
  <2>3. "." \in Step /\ ".." \in Step
    BY DEF Step
  <2>4. Append(<<".">>, "..") = <<".", "..">>
    BY ShortSequences
  <2>5. Append(<<".">>, "..") \in Path
    BY <2>2, <2>3, Zenon
  <2>6. <<".">> \in Path /\ <<"..">> \in Path
    BY <2>1, <2>3, Zenon
  <2> QED BY <2>4, <2>5, <2>6, Zenon
<1>12. ResolveStringRequire(from, offer.arg, config) = m
  <2>1. CASE \E s \in Path : arg = Relative(s)
    BY <1>9, <2>1
  <2>2. CASE \E a : arg = Aliased(<<a>>)
    BY <1>10, <2>2
  <2> QED BY <1>11, <2>1, <2>2
<1> QED BY <1>2, <1>12

LEMMA RequiresResolve == RequiresInv => PathsResolve
<1> SUFFICES ASSUME RequiresInv PROVE PathsResolve
  OBVIOUS
<1> DEFINE config == Config(home)
<1>1. home \in Files
  BY PathAssumption DEF RequiresInv
<1>2. config \in Configs
  BY ConfigDirPath, ReadType DEF RequiresInv, Config
<1> HIDE DEF config
<1>3. ASSUME ~original, "self" \notin DOMAIN config,
             \A a \in DOMAIN config :
                 config[a].value.lead = "@" => ".." \notin Range(Tail(config[a].value.steps)),
             NEW m \in Files, Alone(m), NEW arg \in RequirePaths(home, m, config)
      PROVE  ResolveStringRequire(home, arg, config) = m
  <2>1. \/ arg \in BestAliasedPaths(Target(m), config)
        \/ arg = RelativePath(home, LexicallyRelative(Target(m), Front(home.path)))
    BY DEF RequirePaths
  <2> QED BY <1>1, <1>2, <1>3, <2>1, RelativePathLeads, AliasedPathLeads
<1>4. ImportsResolve
  BY <1>3 DEF ImportsResolve, config
<1>5. ASSUME ~original,
             NEW arg \in {Relative(<<".">>), Relative(<<".", "..">>), Relative(<<"..">>)}
                         \union {Aliased(<<a>>) : a \in AvailableAliases(home, config)},
             NEW offer \in Offers(home, arg, config), offer.meant.ext # "", Alone(offer.meant)
      PROVE  ResolveStringRequire(home, offer.arg, config) = offer.meant
  BY <1>1, <1>2, <1>5, OfferLeads
<1>6. OffersResolve
  BY <1>5 DEF OffersResolve, config
<1> QED BY <1>4, <1>6 DEF PathsResolve

\* What an auto-import writes into a string require, and what completion
\* offers inside one, leads to the module it was made for: for every tree of
\* files, every set of aliases and chains of them, each style, and init files
\* on either end.
THEOREM PathsStayResolved == Spec => []PathsResolve
<1> QED BY RequiresResolve, InitHasRequires, NextKeepsRequires, PTL DEF Spec

-----------------------------------------------------------------------------
(* Orders of lines and of edits                                            *)

IsStrictOrder(R, S) ==
    /\ \A i \in S : <<i, i>> \notin R
    /\ \A i, j, k \in S : <<i, j>> \in R /\ <<j, k>> \in R => <<i, k>> \in R
    /\ \A i, j \in S : i # j => <<i, j>> \in R \/ <<j, i>> \in R

LEMMA MoreBefore ==
    ASSUME NEW S, IsFiniteSet(S), NEW R, IsStrictOrder(R, S), NEW i \in S, NEW j \in S, <<i, j>> \in R
    PROVE  Cardinality({k \in S : <<k, i>> \in R}) < Cardinality({k \in S : <<k, j>> \in R})
<1> DEFINE A == {k \in S : <<k, i>> \in R}
           B == {k \in S : <<k, j>> \in R}
<1>1. IsFiniteSet(A) /\ IsFiniteSet(B) /\ i \notin A /\ A \union {i} \subseteq B
  <2>1. A \in SUBSET S /\ B \in SUBSET S /\ i \notin A /\ A \union {i} \subseteq B
    BY DEF IsStrictOrder
  <2> HIDE DEF A, B
  <2> QED BY <2>1, FS_Subset
<1> HIDE DEF A, B
<1>2. Cardinality(A \union {i}) = Cardinality(A) + 1 /\ IsFiniteSet(A \union {i})
  BY <1>1, FS_AddElement
<1>3. Cardinality(A \union {i}) <= Cardinality(B)
  BY <1>1, FS_Subset
<1>4. Cardinality(A) \in Nat /\ Cardinality(B) \in Nat
  BY <1>1, FS_CardinalityType
<1>5. Cardinality(A) < Cardinality(B)
  BY <1>2, <1>3, <1>4
<1> QED BY <1>5 DEF A, B

LEMMA RankedIsOrdered ==
    ASSUME NEW S, IsFiniteSet(S), NEW R, IsStrictOrder(R, S)
    PROVE  /\ Ranked(S, R) \in Seq(S) /\ DOMAIN Ranked(S, R) = 1..Cardinality(S)
           /\ Cardinality(S) \in Nat /\ Len(Ranked(S, R)) = Cardinality(S)
           /\ \A k, l \in DOMAIN Ranked(S, R) : k < l => <<Ranked(S, R)[k], Ranked(S, R)[l]>> \in R
           /\ \A k, l \in DOMAIN Ranked(S, R) : k # l => Ranked(S, R)[k] # Ranked(S, R)[l]
           /\ \A i \in S : \E k \in DOMAIN Ranked(S, R) : Ranked(S, R)[k] = i
<1> DEFINE n == Cardinality(S)
           before(i) == {j \in S : <<j, i>> \in R}
           rank(i) == Cardinality(before(i))
           r == Ranked(S, R)
           h == [i \in S |-> rank(i) + 1]
<1>1. n \in Nat
  BY FS_CardinalityType
<1>2. ASSUME NEW i \in S PROVE rank(i) \in 0..(n - 1)
  <2>1. before(i) \in SUBSET S /\ i \notin before(i)
    BY DEF IsStrictOrder
  <2> HIDE DEF before
  <2>2. IsFiniteSet(before(i)) /\ rank(i) <= n /\ (n = rank(i) => S = before(i))
    BY <2>1, FS_Subset
  <2>3. rank(i) \in Nat
    BY <2>2, FS_CardinalityType
  <2> QED BY <1>1, <2>1, <2>2, <2>3
<1>3. ASSUME NEW i \in S, NEW j \in S, <<i, j>> \in R PROVE rank(i) < rank(j)
  BY <1>3, MoreBefore
<1> HIDE DEF rank
<1>4. h \in Injection(S, 1..n)
  <2>1. h \in [S -> 1..n]
    BY <1>1, <1>2
  <2>2. ASSUME NEW i \in S, NEW j \in S, i # j PROVE h[i] # h[j]
    <3>1. <<i, j>> \in R \/ <<j, i>> \in R
      BY <2>2 DEF IsStrictOrder
    <3>2. rank(i) < rank(j) \/ rank(j) < rank(i)
      BY <1>3, <3>1
    <3>3. rank(i) # rank(j)
      BY <1>2, <3>2
    <3> QED BY <1>2, <3>3
  <2> HIDE DEF h
  <2> QED BY <2>1, <2>2 DEF Injection, IsInjective
<1>5. h \in Surjection(S, 1..n)
  <2>1. IsFiniteSet(1..n) /\ Cardinality(1..n) = n
    BY <1>1, FS_Interval
  <2> HIDE DEF h
  <2>2. Cardinality(S) = Cardinality(1..n)
    BY <2>1
  <2> HIDE DEF n
  <2> QED BY <1>4, <2>1, <2>2, FS_Injection, Zenon
<1>6. ASSUME NEW k \in 1..n PROVE \E i \in S : rank(i) = k - 1
  <2>1. PICK i \in S : h[i] = k
    BY <1>5 DEF Surjection
  <2> QED BY <1>2, <2>1
<1>7. r = [k \in 1..n |-> CHOOSE i \in S : rank(i) = k - 1]
  BY DEF Ranked, rank
<1> HIDE DEF n, r
<1>8. ASSUME NEW k \in 1..n PROVE r[k] \in S /\ rank(r[k]) = k - 1
  BY <1>6, <1>7
<1>9. r \in Seq(S) /\ DOMAIN r = 1..n /\ Len(r) = n
  <2>1. r \in [1..n -> S]
    BY <1>7, <1>8
  <2> QED BY <1>1, <2>1
<1>10. ASSUME NEW k \in 1..n, NEW l \in 1..n, k # l PROVE r[k] # r[l]
  <2>1. rank(r[k]) # rank(r[l])
    BY <1>8, <1>10
  <2> QED BY <2>1
<1>11. ASSUME NEW k \in 1..n, NEW l \in 1..n, k < l PROVE <<r[k], r[l]>> \in R
  <2>1. r[k] \in S /\ r[l] \in S /\ r[k] # r[l] /\ rank(r[k]) = k - 1 /\ rank(r[l]) = l - 1
    BY <1>8, <1>10, <1>11
  <2>2. <<r[l], r[k]>> \notin R
    BY <1>3, <1>11, <2>1
  <2> QED BY <2>1, <2>2 DEF IsStrictOrder
<1>12. ASSUME NEW i \in S PROVE \E k \in 1..n : r[k] = i
  <2>1. rank(i) + 1 \in 1..n /\ rank(i) \in Nat /\ (rank(i) + 1) - 1 = rank(i)
    BY <1>1, <1>2
  <2>2. r[rank(i) + 1] \in S /\ rank(r[rank(i) + 1]) = rank(i)
    BY <1>8, <2>1
  <2>3. r[rank(i) + 1] = i
    <3>1. SUFFICES ASSUME r[rank(i) + 1] # i PROVE FALSE
      OBVIOUS
    <3> DEFINE j == r[rank(i) + 1]
    <3>2. j \in S /\ rank(j) = rank(i) /\ j # i /\ rank(i) \in Nat
      BY <2>1, <2>2, <3>1
    <3> HIDE DEF j
    <3>3. <<i, j>> \in R \/ <<j, i>> \in R
      BY <3>2 DEF IsStrictOrder
    <3> QED BY <1>3, <3>2, <3>3
  <2> QED BY <2>1, <2>3
<1> QED BY <1>1, <1>9, <1>10, <1>11, <1>12 DEF n, r

-----------------------------------------------------------------------------
(* Texts                                                                   *)

LEMMA SeqIsText ==
    ASSUME NEW V, \A v \in V : IsLine(v), NEW s \in Seq(V)
    PROVE  IsText(s)
<1>1. s \in Seq(Range(s))
  <2>1. s \in [1..Len(s) -> Range(s)] /\ Len(s) \in Nat
    BY DEF Range
  <2> QED BY <2>1
<1>2. \A k \in DOMAIN s : s[k] \in V
  OBVIOUS
<1> QED BY <1>1, <1>2 DEF IsText

LEMMA TextIsSeq ==
    ASSUME NEW s, IsText(s), NEW V, Range(s) \subseteq V
    PROVE  s \in Seq(V)
<1>1. s \in Seq(Range(s))
  BY DEF IsText
<1> QED BY <1>1

LEMMA TextLines ==
    ASSUME NEW s, IsText(s)
    PROVE  \A v \in Range(s) : IsLine(v)
BY DEF IsText, Range

LEMMA NoText == IsText(<< >>)
<1>1. << >> \in Seq({})
  OBVIOUS
<1> QED BY <1>1, SeqIsText

LEMMA OneLine == ASSUME NEW line, IsLine(line) PROVE IsText(<<line>>)
<1>1. <<line>> \in Seq({line})
  OBVIOUS
<1> QED BY <1>1, SeqIsText

LEMMA TwoLines == ASSUME NEW line, IsLine(line), NEW next, IsLine(next) PROVE IsText(<<line, next>>)
<1>1. <<line, next>> \in Seq({line, next})
  OBVIOUS
<1> QED BY <1>1, SeqIsText

LEMMA TextsInOne ==
    ASSUME NEW s, IsText(s), NEW t, IsText(t)
    PROVE  IsText(s \o t)
<1> DEFINE V == Range(s) \union Range(t)
<1>1. \A v \in V : IsLine(v)
  BY TextLines
<1>2. s \in Seq(V) /\ t \in Seq(V)
  BY TextIsSeq
<1> HIDE DEF V
<1>3. s \o t \in Seq(V)
  BY <1>2
<1> QED BY <1>1, <1>3, SeqIsText

LEMMA FlattenedTexts ==
    ASSUME NEW ss, NEW n \in Nat, DOMAIN ss = 1..n, ss = [k \in 1..n |-> ss[k]], \A k \in 1..n : IsText(ss[k])
    PROVE  IsText(FlattenSeq(ss))
<1> DEFINE V == UNION {Range(ss[k]) : k \in 1..n}
<1>1. ASSUME NEW v \in V PROVE IsLine(v)
  <2>1. PICK k \in 1..n : v \in Range(ss[k])
    OBVIOUS
  <2> QED BY <2>1, TextLines
<1>2. ASSUME NEW k \in 1..n PROVE ss[k] \in Seq(V)
  <2>1. Range(ss[k]) \subseteq V
    OBVIOUS
  <2> HIDE DEF V
  <2> QED BY <2>1, TextIsSeq
<1> HIDE DEF V
<1>3. ss \in Seq(Seq(V))
  BY <1>2
<1> QED BY <1>1, <1>3, FlattenedEntries, SeqIsText

LEMMA PartIsText ==
    ASSUME NEW s, IsText(s), NEW i \in 0..Len(s), NEW j \in i..Len(s)
    PROVE  IsText(SubSeq(s, i + 1, j))
<1>1. s \in Seq(Range(s)) /\ \A v \in Range(s) : IsLine(v)
  BY TextLines DEF IsText
<1>2. SubSeq(s, i + 1, j) \in Seq(Range(s))
  BY <1>1, PartOfText
<1> QED BY <1>1, <1>2, SeqIsText

LEMMA LineFacts ==
    ASSUME IsText(doc)
    PROVE  /\ Len(doc) \in Nat /\ Lines \subseteq Nat /\ IsFiniteSet(Lines)
           /\ \A i \in Lines : /\ i + 1 \in DOMAIN doc /\ IsLine(Line(i)) /\ Line(i).len \in Nat \ {0}
                               /\ i <= Len(doc)
                               /\ End(i) \in Nat /\ i <= End(i)
<1>1. doc \in Seq(Range(doc)) /\ \A k \in DOMAIN doc : IsLine(doc[k])
  BY DEF IsText
<1>2. Len(doc) \in Nat /\ DOMAIN doc = 1..Len(doc)
  BY <1>1
<1>3. Lines \subseteq Nat /\ IsFiniteSet(Lines)
  <2>1. 0 \in Int /\ Len(doc) - 1 \in Int
    BY <1>2
  <2> QED BY <2>1, FS_Interval DEF Lines
<1>4. ASSUME NEW i \in Lines
      PROVE  /\ i + 1 \in DOMAIN doc /\ IsLine(Line(i)) /\ Line(i).len \in Nat \ {0}
             /\ i <= Len(doc)
             /\ End(i) \in Nat /\ i <= End(i)
  <2>1. i \in Nat /\ i + 1 \in DOMAIN doc /\ i <= Len(doc)
    BY <1>2 DEF Lines
  <2>2. IsLine(Line(i))
    BY <1>1, <2>1 DEF Line
  <2>3. Line(i).len \in Nat \ {0}
    BY <2>2 DEF IsLine
  <2> QED BY <2>1, <2>2, <2>3 DEF End
<1> QED BY <1>2, <1>3, <1>4

-----------------------------------------------------------------------------
(* Lists of lines                                                          *)

LEMMA RankType == \A name : Rank(name) \in Nat
<1>1. ASSUME NEW name \in Range(Order) PROVE Ranks[name] \in Nat
  <2>1. \E k \in DOMAIN Order : Order[k] = name
    BY DEF Range
  <2>2. Ranks[name] \in DOMAIN Order
    BY <2>1 DEF Ranks
  <2> QED BY <2>2, EditAssumption
<1>2. DOMAIN Ranks = Range(Order)
  BY DEF Ranks
<1> QED BY <1>1, <1>2 DEF Rank

\* The members of S, each once.
Lists(list, S) ==
    /\ list \in Seq(S) /\ Len(list) \in Nat
    /\ \A k, l \in DOMAIN list : k # l => list[k] # list[l]
    /\ \A i \in S : \E k \in DOMAIN list : list[k] = i

LEMMA InOrderLists ==
    ASSUME NEW S \in SUBSET Nat, IsFiniteSet(S)
    PROVE  /\ Lists(InOrder(S), S)
           /\ \A k, l \in DOMAIN InOrder(S) : k < l => InOrder(S)[k] < InOrder(S)[l]
<1> DEFINE R == {p \in S \X S : p[1] < p[2]}
<1>1. \A i, j \in S : <<i, j>> \in R <=> i < j
  OBVIOUS
<1> HIDE DEF R
<1>2. IsStrictOrder(R, S)
  BY <1>1 DEF IsStrictOrder
<1>3. InOrder(S) = Ranked(S, R)
  BY DEF InOrder, R
<1> DEFINE r == Ranked(S, R)
<1>4. /\ r \in Seq(S) /\ Len(r) \in Nat
      /\ \A k, l \in DOMAIN r : k < l => <<r[k], r[l]>> \in R
      /\ \A k, l \in DOMAIN r : k # l => r[k] # r[l]
      /\ \A i \in S : \E k \in DOMAIN r : r[k] = i
  BY <1>2, RankedIsOrdered
<1> HIDE DEF r
<1>5. ASSUME NEW k \in DOMAIN r, NEW l \in DOMAIN r, k < l PROVE r[k] < r[l]
  <2>1. <<r[k], r[l]>> \in R
    BY <1>4, <1>5
  <2>2. r[k] \in S /\ r[l] \in S
    BY <1>4
  <2> QED BY <1>1, <2>1, <2>2
<1>6. Lists(r, S)
  BY <1>4 DEF Lists
<1> QED BY <1>3, <1>5, <1>6 DEF r

LEMMA ByNameLists ==
    ASSUME NEW S \in SUBSET Nat, IsFiniteSet(S)
    PROVE  Lists(ByName(S), S)
<1> DEFINE rank(i) == Rank(Line(i).name)
           R == {p \in S \X S : rank(p[1]) < rank(p[2]) \/ (rank(p[1]) = rank(p[2]) /\ p[1] < p[2])}
<1>1. \A i : rank(i) \in Nat
  BY RankType
<1>2. ByName(S) = Ranked(S, R)
  BY DEF ByName
<1> HIDE DEF rank
<1>3. \A i, j \in S : <<i, j>> \in R <=> (rank(i) < rank(j) \/ (rank(i) = rank(j) /\ i < j))
  OBVIOUS
<1> HIDE DEF R
<1>4. IsStrictOrder(R, S)
  <2>1. \A i \in S : <<i, i>> \notin R
    BY <1>1, <1>3
  <2>2. ASSUME NEW i \in S, NEW j \in S, NEW k \in S, <<i, j>> \in R, <<j, k>> \in R PROVE <<i, k>> \in R
    BY <1>1, <1>3, <2>2
  <2>3. ASSUME NEW i \in S, NEW j \in S, i # j PROVE <<i, j>> \in R \/ <<j, i>> \in R
    BY <1>1, <1>3, <2>3
  <2> QED BY <2>1, <2>2, <2>3 DEF IsStrictOrder
<1> DEFINE r == Ranked(S, R)
<1>5. /\ r \in Seq(S) /\ Len(r) \in Nat
      /\ \A k, l \in DOMAIN r : k # l => r[k] # r[l]
      /\ \A i \in S : \E k \in DOMAIN r : r[k] = i
  BY <1>4, RankedIsOrdered
<1> HIDE DEF r
<1>6. Lists(r, S)
  BY <1>5 DEF Lists
<1> QED BY <1>2, <1>6 DEF r

-----------------------------------------------------------------------------
(* The lines new imports go to                                             *)

LEMMA FiniteMax ==
    ASSUME NEW T \in SUBSET Nat, T # {}, IsFiniteSet(T)
    PROVE  Max(T) \in T
<1> DEFINE n == Cardinality(T)
<1>1. n \in Nat /\ ExistsBijection(1..n, T)
  BY FS_CardinalityType
<1> HIDE DEF n
<1>2. PICK f \in [1..n -> T] : \A y \in T : \E k \in 1..n : f[k] = y
  BY <1>1 DEF ExistsBijection, Bijection, Surjection
<1>8. \A k \in 1..n : f[k] \in Nat
  <2>1. T \subseteq Nat
    OBVIOUS
  <2> QED BY <1>2, <2>1
<1> DEFINE P == {k \in Nat : \E b \in Nat : \A j \in 1..k : f[j] <= b}
<1>3. 0 \in P
  OBVIOUS
<1>4. ASSUME NEW k \in 1..n, k - 1 \in P PROVE k \in P
  <2>1. PICK b \in Nat : \A j \in 1..(k - 1) : f[j] <= b
    BY <1>4
  <2>2. f[k] \in Nat /\ k \in Nat /\ k <= n
    BY <1>1, <1>8
  <2>3. \A j \in 1..k : f[j] <= b + f[k]
    <3>1. ASSUME NEW j \in 1..k PROVE f[j] <= b + f[k]
      <4>1. j \in 1..n
        BY <1>1, <2>2
      <4>4. f[j] \in Nat
        BY <1>8, <4>1
      <4>2. CASE j = k
        BY <2>1, <2>2, <4>2
      <4>3. CASE j # k
        BY <2>1, <2>2, <4>4, <4>3
      <4> QED BY <4>2, <4>3
    <3> QED BY <3>1
  <2>4. b + f[k] \in Nat
    BY <2>2
  <2> QED BY <2>2, <2>3, <2>4
<1> HIDE DEF P
<1>5. n \in P
  BY <1>1, <1>3, <1>4, StepInduction
<1>6. PICK b \in Nat : \A j \in 1..n : f[j] <= b
  BY <1>5 DEF P
<1>7. \A y \in T : y <= b
  BY <1>2, <1>6
<1> QED BY <1>7, MaxOf

LEMMA HotLine == ASSUME IsText(doc) PROVE HotCommentsLineNumber \in Nat
<1> DEFINE hot == {j \in Lines : Line(j).kind = "hot"}
           f == [i \in hot |-> i + 1]
           T == {0} \union {f[i] : i \in hot}
<1>1. hot \in SUBSET Lines /\ IsFiniteSet(Lines) /\ Lines \subseteq Nat
  BY LineFacts
<1>2. IsFiniteSet(hot) /\ hot \subseteq Nat
  BY <1>1, FS_Subset
<1> HIDE DEF hot
<1>3. HotCommentsLineNumber = Max(T)
  <2>1. {f[i] : i \in hot} = {i + 1 : i \in hot}
    OBVIOUS
  <2> HIDE DEF f
  <2> QED BY <2>1 DEF HotCommentsLineNumber, hot
<1>4. T \in SUBSET Nat /\ T # {}
  <2>1. \A i \in hot : f[i] \in Nat
    BY <1>2
  <2> HIDE DEF f
  <2> QED BY <2>1
<1> HIDE DEF f
<1>5. IsFiniteSet({f[i] : i \in hot})
  BY <1>2, FiniteImage
<1>6. IsFiniteSet(T)
  <2>1. IsFiniteSet({0})
    BY FS_Singleton
  <2> QED BY <1>5, <2>1, FS_Union
<1> HIDE DEF T
<1> QED BY <1>3, <1>4, <1>6, FiniteMax

LEMMA SomeLines ==
    ASSUME IsText(doc), NEW S \in SUBSET Lines
    PROVE  /\ S \in SUBSET Nat /\ IsFiniteSet(S)
           /\ IsFiniteSet({End(i) + 1 : i \in S}) /\ {End(i) + 1 : i \in S} \in SUBSET Nat
           /\ FirstOfName(S) \in SUBSET S
           /\ Lists(ByName(S), S) /\ Lists(ByName(FirstOfName(S)), FirstOfName(S))
<1>1. Lines \subseteq Nat /\ IsFiniteSet(Lines) /\ \A i \in Lines : End(i) \in Nat
  BY LineFacts
<1>2. S \in SUBSET Nat /\ IsFiniteSet(S)
  BY <1>1, FS_Subset
<1> DEFINE f == [i \in S |-> End(i) + 1]
<1>3. {f[i] : i \in S} = {End(i) + 1 : i \in S} /\ {f[i] : i \in S} \in SUBSET Nat
  BY <1>1
<1> HIDE DEF f
<1>4. IsFiniteSet({f[i] : i \in S})
  BY <1>2, FiniteImage
<1>5. FirstOfName(S) \in SUBSET S
  BY DEF FirstOfName
<1>6. IsFiniteSet(FirstOfName(S)) /\ FirstOfName(S) \in SUBSET Nat
  BY <1>2, <1>5, FS_Subset
<1> QED BY <1>2, <1>3, <1>4, <1>5, <1>6, ByNameLists

LEMMA MinimumLine == ASSUME IsText(doc), NEW overdare PROVE ComputeMinimumLine(overdare) \in Nat
<1> DEFINE services == {j \in ServiceLines : overdare}
           first == {i \in RequireLines : \A j \in RequireLines : i <= j}
           T == {HotCommentsLineNumber} \union LinesBehindServices(overdare) \union first
<1>1. services \in SUBSET Lines /\ first \in SUBSET Lines
  BY DEF ServiceLines, RequireLines
<1>2. LinesBehindServices(overdare) = {End(i) + 1 : i \in services}
  BY DEF LinesBehindServices
<1> HIDE DEF services, first
<1>3. /\ IsFiniteSet(LinesBehindServices(overdare)) /\ LinesBehindServices(overdare) \in SUBSET Nat
      /\ IsFiniteSet(first) /\ first \in SUBSET Nat
  BY <1>1, <1>2, SomeLines
<1>4. HotCommentsLineNumber \in Nat
  BY HotLine
<1>5. IsFiniteSet({HotCommentsLineNumber})
  BY FS_Singleton
<1>6. IsFiniteSet(T)
  BY <1>3, <1>5, FS_Union
<1>7. T \in SUBSET Nat /\ T # {}
  BY <1>3, <1>4
<1>8. ComputeMinimumLine(overdare) = Max(T)
  BY DEF ComputeMinimumLine, first
<1> HIDE DEF T
<1> QED BY <1>6, <1>7, <1>8, FiniteMax

LEMMA ServiceLine == ASSUME IsText(doc), NEW service PROVE FindBestLineForService(service) \in Nat
<1> DEFINE list == ServiceLineMap
           n == Len(list)
           first == Max({HotCommentsLineNumber} \union (IF ServiceLines = {} THEN {} ELSE {Min(ServiceLines)}))
           below(m, i) == IF Rank(Line(i).name) < Rank(service) /\ End(i) >= m THEN End(i) + 1 ELSE m
           Def(g) == [k \in 0..n |-> IF k = 0 THEN first ELSE below(g[k - 1], list[k])]
           X == CHOOSE g : g = Def(g)
<1>1. ServiceLines \in SUBSET Lines
  BY DEF ServiceLines
<1>2. n \in Nat /\ \A k \in 1..n : list[k] \in Lines
  <2>1. Lists(list, FirstOfName(ServiceLines)) /\ FirstOfName(ServiceLines) \subseteq ServiceLines
    BY <1>1, SomeLines DEF ServiceLineMap
  <2> HIDE DEF list
  <2> QED BY <1>1, <2>1 DEF Lists
<1>3. first \in Nat
  <2>1. ServiceLines \in SUBSET Nat
    BY <1>1, SomeLines
  <2>2. CASE ServiceLines = {}
    <3>1. {HotCommentsLineNumber} # {} /\ {HotCommentsLineNumber} \in SUBSET Nat
      BY HotLine
    <3>2. IsFiniteSet({HotCommentsLineNumber})
      BY FS_Singleton
    <3>3. Max({HotCommentsLineNumber}) \in Nat
      BY <3>1, <3>2, FiniteMax
    <3>4. {HotCommentsLineNumber} \union (IF ServiceLines = {} THEN {} ELSE {Min(ServiceLines)}) = {HotCommentsLineNumber}
      BY <2>2
    <3> QED BY <3>3, <3>4
  <2>3. CASE ServiceLines # {}
    <3> DEFINE T == {HotCommentsLineNumber} \union {Min(ServiceLines)}
    <3>1. Min(ServiceLines) \in Nat
      BY <2>1, <2>3, MinOf
    <3>2. T # {} /\ T \in SUBSET Nat
      BY <3>1, HotLine
    <3>3. IsFiniteSet(T)
      BY FS_Singleton, FS_Union
    <3>4. first = Max(T)
      BY <2>3
    <3> HIDE DEF T, first
    <3> QED BY <3>2, <3>3, <3>4, FiniteMax
  <2> QED BY <2>2, <2>3
<1>4. FindBestLineForService(service) = X[n]
  BY DEF FindBestLineForService
<1> HIDE DEF first, list
<1>5. ASSUME NEW m \in Nat, NEW k \in 1..n PROVE below(m, list[k]) \in Nat
  BY <1>2, LineFacts
<1> HIDE DEF below, n
<1>6. PICK f : f = Def(f)
  <2> DEFINE step == [p \in (1..n) \X Nat |-> below(p[2], list[p[1]])]
  <2>1. step \in [(1..n) \X Nat -> Nat] /\ \A k \in 1..n, m \in Nat : step[<<k, m>>] = below(m, list[k])
    BY <1>5
  <2> HIDE DEF step
  <2>2. PICK f \in [0..n -> Nat] : FollowsStep(f, n, first, step)
    BY <1>2, <1>3, <2>1, StepRecursion
  <2>3. ASSUME NEW k \in 0..n PROVE f[k] = Def(f)[k]
    <3>1. CASE k = 0
      BY <2>2, <3>1 DEF FollowsStep
    <3>2. CASE k # 0
      <4>1. k \in 1..n /\ k - 1 \in 0..n
        BY <1>2, <3>2
      <4>2. f[k] = step[<<k, f[k - 1]>>] /\ f[k - 1] \in Nat
        BY <2>2, <4>1 DEF FollowsStep
      <4> QED BY <2>1, <3>2, <4>1, <4>2
    <3> QED BY <3>1, <3>2
  <2>4. f = [k \in 0..n |-> f[k]] /\ Def(f) = [k \in 0..n |-> Def(f)[k]]
    BY <2>2
  <2> HIDE DEF Def
  <2> QED BY <2>3, <2>4
<1> HIDE DEF Def
<1>7. X = Def(X)
  BY <1>6
<1> HIDE DEF X
<1> DEFINE P == {k \in Nat : X[k] \in Nat}
<1>8. 0 \in P
  <2>1. Def(X)[0] = first
    BY <1>2 DEF Def
  <2> QED BY <1>3, <1>7, <2>1
<1>9. ASSUME NEW k \in 1..n, k - 1 \in P PROVE k \in P
  <2>1. k \in 0..n /\ k # 0 /\ k \in Nat
    BY <1>2
  <2>2. Def(X)[k] = below(X[k - 1], list[k])
    BY <2>1 DEF Def
  <2> QED BY <1>5, <1>7, <1>9, <2>1, <2>2
<1> HIDE DEF P
<1>10. n \in P
  BY <1>2, <1>8, <1>9, StepInduction
<1> QED BY <1>4, <1>10 DEF P

LEMMA GroupsOfRequires ==
    ASSUME IsText(doc)
    PROVE  /\ Groups \in Seq(Seq(RequireLines))
           /\ \A k, l \in DOMAIN Groups : \A p \in DOMAIN Groups[k], q \in DOMAIN Groups[l] :
                  k # l \/ p # q => Groups[k][p] # Groups[l][q]
<1> DEFINE starts == {i \in RequireLines : ~\E j \in RequireLines : j < i /\ i - End(j) <= 1}
           group(s) == {i \in RequireLines : s <= i /\ ~\E t \in starts : s < t /\ t <= i}
           order == InOrder(starts)
           list(k) == ByName(FirstOfName(group(order[k])))
           n == Len(order)
<1>1. RequireLines \in SUBSET Lines /\ starts \in SUBSET RequireLines /\ \A s : group(s) \in SUBSET RequireLines
  BY DEF RequireLines
<1>2. RequireLines \subseteq Nat /\ IsFiniteSet(starts) /\ starts \in SUBSET Nat
  <2> HIDE DEF starts
  <2> QED BY <1>1, SomeLines
<1>3. ASSUME NEW s \in Nat, NEW t \in starts, s < t PROVE group(s) \intersect group(t) = {}
  BY <1>2, <1>3
<1>4. Groups = [k \in DOMAIN order |-> list(k)]
  BY DEF Groups
<1> HIDE DEF starts, group
<1>5. Lists(order, starts) /\ \A k, l \in DOMAIN order : k < l => order[k] < order[l]
  BY <1>2, InOrderLists
<1>6. n \in Nat /\ DOMAIN order = 1..n /\ \A k \in 1..n : order[k] \in starts
  BY <1>5 DEF Lists
<1> HIDE DEF order
<1>7. ASSUME NEW k \in 1..n
      PROVE  /\ list(k) \in Seq(RequireLines)
             /\ \A p \in DOMAIN list(k) : list(k)[p] \in group(order[k])
             /\ \A p, q \in DOMAIN list(k) : p # q => list(k)[p] # list(k)[q]
  <2> DEFINE S == FirstOfName(group(order[k]))
  <2>1. group(order[k]) \in SUBSET Lines /\ group(order[k]) \subseteq RequireLines
    BY <1>1
  <2>2. Lists(list(k), S) /\ S \subseteq group(order[k])
    BY <2>1, SomeLines
  <2> HIDE DEF S, list
  <2> QED BY <2>1, <2>2 DEF Lists
<1> HIDE DEF n, list
<1>8. ASSUME NEW k \in 1..n, NEW l \in 1..n, k < l
      PROVE  group(order[k]) \intersect group(order[l]) = {}
  <2>1. order[k] < order[l] /\ order[k] \in Nat /\ order[l] \in starts
    BY <1>2, <1>5, <1>6, <1>8
  <2> QED BY <1>3, <2>1
<1>9. ASSUME NEW k \in 1..n, NEW l \in 1..n, NEW p \in DOMAIN list(k), NEW q \in DOMAIN list(l), k # l \/ p # q
      PROVE  list(k)[p] # list(l)[q]
  <2>1. list(k)[p] \in group(order[k]) /\ list(l)[q] \in group(order[l])
    BY <1>7
  <2>2. CASE k = l
    BY <1>7, <1>9, <2>2
  <2>3. CASE k # l
    <3>1. k < l \/ l < k
      BY <1>6, <2>3
    <3>2. group(order[k]) \intersect group(order[l]) = {}
      BY <1>8, <3>1
    <3> QED BY <2>1, <3>2
  <2> QED BY <2>2, <2>3
<1>10. Groups \in Seq(Seq(RequireLines))
  BY <1>4, <1>6, <1>7
<1>11. DOMAIN Groups = 1..n /\ \A k \in 1..n : Groups[k] = list(k)
  BY <1>4, <1>6
<1> QED BY <1>9, <1>10, <1>11

LEMMA RequireLine ==
    ASSUME IsText(doc), NEW arg, NEW minimum \in Nat
    PROVE  ComputeBestLine(arg, minimum) \in Nat
<1> DEFINE list == FlattenSeq(Groups)
           n == Len(list)
           better(m, i) == IF Line(i).lead = "@" /\ arg.lead # "@" THEN End(i) + 1
                           ELSE IF ShareStart(Line(i), arg) /\ BeforeSteps(Line(i).steps, arg.steps) /\ End(i) >= m
                                THEN End(i) + 1 ELSE m
           Def(g) == [k \in 0..n |-> IF k = 0 THEN minimum ELSE better(g[k - 1], list[k])]
           X == CHOOSE g : g = Def(g)
<1>1. RequireLines \in SUBSET Lines
  BY DEF RequireLines
<1>2. n \in Nat /\ \A k \in 1..n : list[k] \in Lines
  <2>1. list \in Seq(RequireLines)
    BY GroupsOfRequires, FlattenedEntries
  <2> HIDE DEF list
  <2> QED BY <1>1, <2>1
<1>3. ComputeBestLine(arg, minimum) = X[n]
  BY DEF ComputeBestLine
<1> HIDE DEF list
<1>4. ASSUME NEW m \in Nat, NEW k \in 1..n PROVE better(m, list[k]) \in Nat
  <2>1. End(list[k]) \in Nat
    BY <1>2, LineFacts
  <2> QED BY <2>1
<1> HIDE DEF better, n
<1>5. PICK f : f = Def(f)
  <2> DEFINE step == [p \in (1..n) \X Nat |-> better(p[2], list[p[1]])]
  <2>1. step \in [(1..n) \X Nat -> Nat] /\ \A k \in 1..n, m \in Nat : step[<<k, m>>] = better(m, list[k])
    BY <1>4
  <2> HIDE DEF step
  <2>2. PICK f \in [0..n -> Nat] : FollowsStep(f, n, minimum, step)
    BY <1>2, <2>1, StepRecursion
  <2>3. ASSUME NEW k \in 0..n PROVE f[k] = Def(f)[k]
    <3>1. CASE k = 0
      BY <2>2, <3>1 DEF FollowsStep
    <3>2. CASE k # 0
      <4>1. k \in 1..n /\ k - 1 \in 0..n
        BY <1>2, <3>2
      <4>2. f[k] = step[<<k, f[k - 1]>>] /\ f[k - 1] \in Nat
        BY <2>2, <4>1 DEF FollowsStep
      <4> QED BY <2>1, <3>2, <4>1, <4>2
    <3> QED BY <3>1, <3>2
  <2>4. f = [k \in 0..n |-> f[k]] /\ Def(f) = [k \in 0..n |-> Def(f)[k]]
    BY <2>2
  <2> HIDE DEF Def
  <2> QED BY <2>3, <2>4
<1> HIDE DEF Def
<1>6. X = Def(X)
  BY <1>5
<1> HIDE DEF X
<1> DEFINE P == {k \in Nat : X[k] \in Nat}
<1>7. 0 \in P
  <2>1. Def(X)[0] = minimum
    BY <1>2 DEF Def
  <2> QED BY <1>6, <2>1
<1>8. ASSUME NEW k \in 1..n, k - 1 \in P PROVE k \in P
  <2>1. k \in 0..n /\ k # 0 /\ k \in Nat
    BY <1>2
  <2>2. Def(X)[k] = better(X[k - 1], list[k])
    BY <2>1 DEF Def
  <2> QED BY <1>4, <1>6, <1>8, <2>1, <2>2
<1> HIDE DEF P
<1>9. n \in P
  BY <1>2, <1>7, <1>8, StepInduction
<1> QED BY <1>3, <1>9 DEF P

-----------------------------------------------------------------------------
(* Lists of edits                                                          *)

IsEdit(e) == e.from \in Nat /\ e.to \in Nat /\ IsText(e.text)
IsInsert(e) == IsEdit(e) /\ e.to = e.from

IsList(list) == list \in Seq(Range(list))
AllEdits(list) == IsList(list) /\ \A k \in DOMAIN list : IsEdit(list[k])
AllInserts(list) == IsList(list) /\ \A k \in DOMAIN list : IsInsert(list[k])

LEMMA InsertsAreDisjoint ==
    ASSUME NEW list, AllInserts(list)
    PROVE  Disjoint(list) /\ AllEdits(list)
<1>1. \A k \in DOMAIN list : list[k].from \in Nat /\ list[k].to = list[k].from /\ IsEdit(list[k])
  BY DEF AllInserts, IsInsert, IsEdit
<1>2. Disjoint(list)
  BY <1>1 DEF Disjoint
<1> QED BY <1>1, <1>2 DEF AllInserts, AllEdits

LEMMA SeqIsList ==
    ASSUME NEW V, NEW s \in Seq(V)
    PROVE  IsList(s) /\ Range(s) \subseteq V
<1>1. s \in [1..Len(s) -> Range(s)] /\ Len(s) \in Nat
  BY DEF Range
<1>2. Range(s) \subseteq V
  BY DEF Range
<1> QED BY <1>1, <1>2 DEF IsList

LEMMA ListIsSeq ==
    ASSUME NEW s, IsList(s), NEW V, Range(s) \subseteq V
    PROVE  s \in Seq(V)
BY DEF IsList

LEMMA InsertsOf ==
    ASSUME NEW V, \A e \in V : IsInsert(e), NEW s \in Seq(V)
    PROVE  AllInserts(s)
<1>1. \A k \in DOMAIN s : s[k] \in V
  OBVIOUS
<1> QED BY <1>1, SeqIsList DEF AllInserts

LEMMA InsertsInOne ==
    ASSUME NEW s, AllInserts(s), NEW t, AllInserts(t)
    PROVE  AllInserts(s \o t)
<1> DEFINE V == Range(s) \union Range(t)
<1>1. \A e \in V : IsInsert(e)
  BY DEF AllInserts, Range
<1>2. s \in Seq(V) /\ t \in Seq(V)
  BY ListIsSeq DEF AllInserts
<1> HIDE DEF V
<1>3. s \o t \in Seq(V)
  BY <1>2
<1> QED BY <1>1, <1>3, InsertsOf

LEMMA InsertIs ==
    ASSUME NEW n \in Nat, NEW text, IsText(text)
    PROVE  IsInsert(Insert(n, text))
BY DEF Insert, IsInsert, IsEdit

LEMMA RequireEditInserts ==
    ASSUME IsText(doc), NEW name, NEW arg, NEW uses, NEW overdare
    PROVE  IsInsert(RequireEdit(name, arg, uses, overdare))
<1> DEFINE n == ComputeBestLine(arg, ComputeMinimumLine(overdare))
           line == [Blank EXCEPT !.kind = "require", !.name = name, !.lead = arg.lead, !.steps = arg.steps, !.uses = uses]
           text == IF separated /\ ShouldPrependNewline(n, overdare) THEN <<Blank, line>> ELSE <<line>>
<1>1. n \in Nat
  BY MinimumLine, RequireLine
<1>2. IsLine(Blank) /\ IsLine(line)
  BY DEF IsLine, Blank
<1> HIDE DEF line
<1>3. IsText(<<Blank, line>>) /\ IsText(<<line>>)
  BY <1>2, OneLine, TwoLines
<1>4. IsText(text)
  BY <1>3
<1>5. RequireEdit(name, arg, uses, overdare) = Insert(n, text)
  BY DEF RequireEdit, line
<1> HIDE DEF n, text
<1> QED BY <1>1, <1>4, <1>5, InsertIs

LEMMA ServiceEditInserts ==
    ASSUME IsText(doc), NEW service, NEW withRequire
    PROVE  IsInsert(ServiceEdit(service, withRequire))
<1> DEFINE n == FindBestLineForService(service)
           append == IF RequireLines = {} THEN withRequire ELSE n = Min(RequireLines)
           line == [Blank EXCEPT !.kind = "service", !.name = service]
           text == IF separated /\ append THEN <<line, Blank>> ELSE <<line>>
<1>1. n \in Nat
  BY ServiceLine
<1>2. IsLine(Blank) /\ IsLine(line)
  BY DEF IsLine, Blank
<1> HIDE DEF line
<1>3. IsText(<<line, Blank>>) /\ IsText(<<line>>)
  BY <1>2, OneLine, TwoLines
<1>4. IsText(text)
  BY <1>3
<1>5. ServiceEdit(service, withRequire) = Insert(n, text)
  BY DEF ServiceEdit, line
<1> HIDE DEF n, text
<1> QED BY <1>1, <1>4, <1>5, InsertIs

\* What an import brings with it.
IsImport(i, names) == i.name \in names /\ AllInserts(i.edits) /\ i.edits # << >>

LEMMA OneInsert ==
    ASSUME NEW e, IsInsert(e)
    PROVE  AllInserts(<<e>>) /\ <<e>> # << >>
<1>1. <<e>> \in Seq({e})
  OBVIOUS
<1> QED BY <1>1, InsertsOf

LEMMA StringImportsInsert ==
    ASSUME IsText(doc), NEW names, NEW overdare, NEW i \in StringImports(names, overdare)
    PROVE  IsImport(i, names)
<1>1. PICK m, arg :
         /\ RequireName(m) \in names
         /\ i = [name |-> RequireName(m), meant |-> m, service |-> "",
                 edits |-> <<RequireEdit(RequireName(m), arg, "", overdare)>>]
  <2> DEFINE wanted == {m \in known \ (Ignored \union {home}) :
                           RequireName(m) \in names /\ ~ContainsRequire(RequireName(m))}
             of(m) == {[name |-> RequireName(m), meant |-> m, service |-> "",
                        edits |-> <<RequireEdit(RequireName(m), arg, "", overdare)>>] :
                          arg \in RequirePaths(home, m, Config(home))}
  <2>1. i \in UNION {of(m) : m \in wanted}
    BY DEF StringImports
  <2> HIDE DEF of
  <2>2. PICK m \in wanted : i \in of(m)
    BY <2>1
  <2> QED BY <2>2 DEF of
<1> DEFINE e == RequireEdit(RequireName(m), arg, "", overdare)
<1>2. IsInsert(e)
  BY RequireEditInserts
<1>3. i.name = RequireName(m) /\ i.edits = <<e>>
  BY <1>1
<1> HIDE DEF e
<1> QED BY <1>1, <1>2, <1>3, OneInsert DEF IsImport

LEMMA ServiceImportsInsert ==
    ASSUME IsText(doc), NEW names, NEW i \in ServiceImports(names)
    PROVE  IsImport(i, names)
<1>1. PICK s \in names : i = [name |-> s, meant |-> s, service |-> s, edits |-> <<ServiceEdit(s, FALSE)>>]
  BY DEF ServiceImports
<1> DEFINE e == ServiceEdit(s, FALSE)
<1>2. IsInsert(e)
  BY ServiceEditInserts
<1>3. i.name = s /\ i.edits = <<e>>
  BY <1>1
<1> HIDE DEF e
<1> QED BY <1>1, <1>2, <1>3, OneInsert DEF IsImport

LEMMA InstanceImportsInsert ==
    ASSUME IsText(doc), NEW names, NEW i \in InstanceImports(names)
    PROVE  IsImport(i, names)
<1> DEFINE near(p) == p \in Prefixes(HomePath) \/ HomePath \in Prefixes(p) \/ Front(p) = Front(HomePath)
           relative(p) == style = "alwaysRelative" \/ (style = "auto" /\ near(p))
           up(p) == LexicallyRelative([path |-> p, isDir |-> TRUE], HomePath)
           argOf(p) == [lead |-> "", steps |-> IF relative(p)
                            THEN <<"script">> \o [k \in DOMAIN up(p) |-> IF up(p)[k] = ".." THEN "Parent" ELSE up(p)[k]]
                            ELSE p]
           usesOf(p) == IF relative(p) THEN "" ELSE Head(p)
           serviceOf(p) == IF Defined(usesOf(p)) THEN "" ELSE usesOf(p)
           firstOf(p) == IF serviceOf(p) = "" THEN << >> ELSE <<ServiceEdit(serviceOf(p), TRUE)>>
           wanted == {m \in Instances : m.name \in names /\ m.path # HomePath /\ ~ContainsRequire(m.name)}
           of(m) == [name |-> m.name, meant |-> m, service |-> serviceOf(m.path),
                     edits |-> Append(firstOf(m.path), RequireEdit(m.name, argOf(m.path), usesOf(m.path), TRUE))]
<1>1. PICK m \in wanted : i = of(m)
  <2>1. i \in {of(m) : m \in wanted}
    BY DEF InstanceImports
  <2> HIDE DEF of, wanted
  <2> QED BY <2>1
<1> DEFINE service == serviceOf(m.path)
           e == RequireEdit(m.name, argOf(m.path), usesOf(m.path), TRUE)
           f == ServiceEdit(service, TRUE)
           first == IF service = "" THEN << >> ELSE <<f>>
<1>2. i.name = m.name /\ m.name \in names
  BY <1>1
<1> HIDE DEF argOf, usesOf, serviceOf
<1>3. IsInsert(e) /\ IsInsert(f)
  BY RequireEditInserts, ServiceEditInserts
<1>4. i.edits = Append(first, e)
  BY <1>1
<1> HIDE DEF e, f, service
<1>5. first \in Seq({e, f})
  <2>1. << >> \in Seq({e, f}) /\ <<f>> \in Seq({e, f})
    OBVIOUS
  <2> QED BY <2>1
<1> HIDE DEF first
<1>6. Append(first, e) \in Seq({e, f}) /\ Append(first, e) # << >>
  BY <1>5
<1>7. AllInserts(Append(first, e))
  BY <1>3, <1>6, InsertsOf
<1> QED BY <1>2, <1>4, <1>6, <1>7 DEF IsImport

LEMMA ImportsInsert ==
    ASSUME IsText(doc), NEW names, NEW overdare, NEW i \in Imports(names, overdare)
    PROVE  IsImport(i, names)
<1>1. i \in InstanceImports(names) \/ i \in StringImports(names, overdare)
  BY DEF Imports
<1> QED BY <1>1, InstanceImportsInsert, StringImportsInsert

-----------------------------------------------------------------------------
(* Adding all missing imports                                              *)

KeyBefore(line, blank, rank, k, l) ==
    \/ line[k] < line[l]
    \/ line[k] = line[l] /\ blank[k] /\ ~blank[l]
    \/ line[k] = line[l] /\ (blank[k] <=> blank[l]) /\ rank[k] < rank[l]

LEMMA KeysOrder ==
    ASSUME NEW D \in SUBSET Nat, NEW line \in [D -> Nat], NEW blank \in [D -> BOOLEAN], NEW rank \in [D -> Nat],
           NEW R,
           \A k, l \in D : <<k, l>> \in R <=>
               KeyBefore(line, blank, rank, k, l) \/ (~KeyBefore(line, blank, rank, l, k) /\ k < l)
    PROVE  IsStrictOrder(R, D)
<1>1. \A k \in D : <<k, k>> \notin R
  BY DEF KeyBefore
<1>2. ASSUME NEW i \in D, NEW j \in D, NEW k \in D, <<i, j>> \in R, <<j, k>> \in R PROVE <<i, k>> \in R
  BY <1>2 DEF KeyBefore
<1>3. ASSUME NEW i \in D, NEW j \in D, i # j PROVE <<i, j>> \in R \/ <<j, i>> \in R
  <2>1. i < j \/ j < i
    BY <1>3
  <2>2. /\ <<i, j>> \in R <=> KeyBefore(line, blank, rank, i, j) \/ (~KeyBefore(line, blank, rank, j, i) /\ i < j)
        /\ <<j, i>> \in R <=> KeyBefore(line, blank, rank, j, i) \/ (~KeyBefore(line, blank, rank, i, j) /\ j < i)
    BY Zenon
  <2> QED BY <2>1, <2>2, Zenon
<1> QED BY <1>1, <1>2, <1>3 DEF IsStrictOrder

LEMMA SortedInserts ==
    ASSUME NEW list, AllInserts(list)
    PROVE  AllInserts(SortEdits(list))
<1> DEFINE D == DOMAIN list
           isBlank(e) == Head(e.text) = Blank
           name(e) == e.text[CHOOSE k \in DOMAIN e.text : e.text[k] # Blank].name
           line == [k \in D |-> list[k].from]
           blank == [k \in D |-> isBlank(list[k])]
           rank == [k \in D |-> Rank(name(list[k]))]
           before(k, l) == EditBefore(list[k], list[l]) \/ (~EditBefore(list[l], list[k]) /\ k < l)
           R == {p \in D \X D : before(p[1], p[2])}
           order == Ranked(D, R)
<1>1. list \in Seq(Range(list)) /\ \A k \in D : list[k].from \in Nat
  BY DEF AllInserts, IsList, IsInsert, IsEdit
<1>2. Len(list) \in Nat /\ D = 1..Len(list) /\ D \in SUBSET Nat /\ IsFiniteSet(D)
  <2>1. Len(list) \in Nat /\ D = 1..Len(list)
    BY <1>1
  <2> HIDE DEF D
  <2> QED BY <2>1, FS_Interval
<1>3. SortEdits(list) = [k \in D |-> list[order[k]]]
  BY DEF SortEdits
<1>4. line \in [D -> Nat] /\ blank \in [D -> BOOLEAN] /\ rank \in [D -> Nat]
  BY <1>1, RankType
<1>5. ASSUME NEW k \in D, NEW l \in D PROVE EditBefore(list[k], list[l]) <=> KeyBefore(line, blank, rank, k, l)
  <2> DEFINE a == list[k]
             b == list[l]
  <2>1. /\ line[k] = a.from /\ line[l] = b.from /\ (blank[k] <=> isBlank(a)) /\ (blank[l] <=> isBlank(b))
        /\ rank[k] = Rank(name(a)) /\ rank[l] = Rank(name(b))
    OBVIOUS
  <2>2. EditBefore(a, b) <=> \/ a.from < b.from
                             \/ a.from = b.from /\ isBlank(a) /\ ~isBlank(b)
                             \/ a.from = b.from /\ (isBlank(a) <=> isBlank(b)) /\ Rank(name(a)) < Rank(name(b))
    <3>1. EditBefore(a, b) <=> \/ a.from < b.from
                               \/ a.from = b.from /\ isBlank(a) /\ ~isBlank(b)
                               \/ a.from = b.from /\ isBlank(a) = isBlank(b) /\ Rank(name(a)) < Rank(name(b))
      BY Zenon DEF EditBefore
    <3> HIDE DEF name
    <3>2. isBlank(a) = isBlank(b) <=> (isBlank(a) <=> isBlank(b))
      BY Zenon
    <3> HIDE DEF isBlank
    <3> QED BY <3>1, <3>2, Zenon
  <2> HIDE DEF line, blank, rank, isBlank, name, a, b
  <2>3. EditBefore(a, b) <=> KeyBefore(line, blank, rank, k, l)
    BY <2>1, <2>2 DEF KeyBefore
  <2> QED BY <2>3 DEF a, b
<1>6. \A k, l \in D : <<k, l>> \in R <=>
          KeyBefore(line, blank, rank, k, l) \/ (~KeyBefore(line, blank, rank, l, k) /\ k < l)
  BY <1>5
<1> HIDE DEF line, blank, rank, R, D
<1>7. IsStrictOrder(R, D)
  BY <1>2, <1>4, <1>6, KeysOrder, Zenon
<1>8. order \in Seq(D) /\ DOMAIN order = 1..Cardinality(D)
  BY <1>2, <1>7, RankedIsOrdered
<1>9. Cardinality(D) = Len(list)
  <2>1. 1 \in Int /\ Len(list) \in Int
    BY <1>2
  <2>2. Cardinality(1..Len(list)) = IF 1 > Len(list) THEN 0 ELSE Len(list) - 1 + 1
    BY <2>1, FS_Interval
  <2> QED BY <1>2, <2>2
<1> HIDE DEF order
<1>10. \A k \in D : order[k] \in D
  BY <1>2, <1>8, <1>9
<1>11. SortEdits(list) \in Seq(Range(list))
  <2>1. \A k \in 1..Len(list) : list[order[k]] \in Range(list)
    BY <1>2, <1>10 DEF D, Range
  <2>2. SortEdits(list) = [k \in 1..Len(list) |-> list[order[k]]]
    BY <1>2, <1>3
  <2> QED BY <1>2, <2>1, <2>2
<1>12. \A e \in Range(list) : IsInsert(e)
  BY DEF AllInserts, Range
<1> QED BY <1>11, <1>12, InsertsOf

LEMMA UnknownAreFinite == ASSUME IsText(doc) PROVE IsFiniteSet(UnknownNames)
<1> DEFINE used == {i \in Lines : Line(i).uses # "" /\ Binders(i) = {}}
           f == [j \in used |-> Line(j).uses]
<1>1. used \in SUBSET Lines
  OBVIOUS
<1>2. UnknownNames = {f[j] : j \in used}
  BY DEF UnknownNames
<1> HIDE DEF used, f
<1>3. IsFiniteSet(used)
  BY <1>1, SomeLines
<1> QED BY <1>2, <1>3, FiniteImage

LEMMA ServicesInsert ==
    ASSUME NEW services, IsFiniteSet(services), NEW imports, IsFiniteSet(Range(imports)),
           \A i \in services \union Range(imports) : AllInserts(i.edits) /\ i.edits # << >>
    PROVE  AllInserts(ServicesOf(services, imports))
<1> DEFINE needed == {i \in Range(imports) : i.service # "" /\ \A s \in services : s.name # i.service}
           S == services \union needed
           f == [i \in S |-> i.edits[1]]
           T == {f[i] : i \in S}
<1>1. needed \in SUBSET Range(imports)
  OBVIOUS
<1>2. T = {i.edits[1] : i \in S}
  OBVIOUS
<1>3. ServicesOf(services, imports) = SetToSeq(T)
  <2> HIDE DEF T
  <2> QED BY <1>2 DEF ServicesOf
<1> HIDE DEF needed
<1>4. IsFiniteSet(S)
  BY <1>1, FS_Subset, FS_Union
<1>5. \A i \in S : IsInsert(f[i])
  <2>1. ASSUME NEW i \in S PROVE IsInsert(i.edits[1])
    <3>1. AllInserts(i.edits) /\ i.edits # << >>
      BY <1>1
    <3>2. 1 \in DOMAIN i.edits
      BY <3>1 DEF AllInserts, IsList
    <3> QED BY <3>1, <3>2 DEF AllInserts
  <2> QED BY <2>1
<1> HIDE DEF f, S
<1>6. IsFiniteSet(T)
  BY <1>4, FiniteImage
<1>7. \A e \in T : IsInsert(e)
  BY <1>5
<1> HIDE DEF T
<1>8. SetToSeq(T) \in Seq(T)
  BY <1>6, ElementSequence
<1> QED BY <1>3, <1>7, <1>8, InsertsOf

LEMMA MissingInserts ==
    ASSUME IsText(doc), NEW list \in AddAllMissingImports
    PROVE  AllInserts(list)
<1> DEFINE all == Imports(UnknownNames, FALSE)
           names == {i.name : i \in all}
           services == ServiceImports(UnknownNames)
<1>1. PICK one \in [names -> all] :
         list = SortEdits(ServicesOf(services, SetToSeq(Range(one))))
                \o SortEdits(SetToSeq({Last(one[name].edits) : name \in names}))
  BY DEF AddAllMissingImports
<1>2. \A i \in all \union services : IsImport(i, UnknownNames)
  BY ImportsInsert, ServiceImportsInsert
<1>3. names \subseteq UnknownNames
  BY <1>2 DEF IsImport
<1>4. IsFiniteSet(names)
  BY <1>3, UnknownAreFinite, FS_Subset
<1>5. IsFiniteSet(services)
  <2> DEFINE new == {t \in Services \intersect UnknownNames : Overdare /\ ~Defined(t)}
             f == [s \in new |-> [name |-> s, meant |-> s, service |-> s, edits |-> <<ServiceEdit(s, FALSE)>>]]
  <2>1. services = {f[s] : s \in new} /\ new \in SUBSET UnknownNames
    BY DEF ServiceImports
  <2> HIDE DEF new, f
  <2>2. IsFiniteSet(new)
    BY <2>1, UnknownAreFinite, FS_Subset
  <2> QED BY <2>1, <2>2, FiniteImage
<1> HIDE DEF names, all, services
<1>6. IsFiniteSet(Range(one)) /\ Range(one) \subseteq all
  <2>1. Range(one) = {one[name] : name \in names} /\ Range(one) \subseteq all
    BY DEF Range
  <2> QED BY <1>4, <2>1, FiniteImage
<1> DEFINE imports == SetToSeq(Range(one))
<1>7. Range(imports) = Range(one)
  BY <1>6, ElementSequence
<1> HIDE DEF imports
<1>8. AllInserts(SortEdits(ServicesOf(services, imports)))
  <2>1. IsFiniteSet(Range(imports))
    BY <1>6, <1>7
  <2>2. \A i \in services \union Range(imports) : AllInserts(i.edits) /\ i.edits # << >>
    BY <1>2, <1>6, <1>7 DEF IsImport
  <2>3. AllInserts(ServicesOf(services, imports))
    BY <1>5, <2>1, <2>2, ServicesInsert
  <2> QED BY <2>3, SortedInserts
<1> DEFINE f == [name \in names |-> Last(one[name].edits)]
           T == {f[name] : name \in names}
<1>9. T = {Last(one[name].edits) : name \in names}
  OBVIOUS
<1>10. ASSUME NEW name \in names PROVE IsInsert(f[name])
  <2>1. one[name] \in all
    OBVIOUS
  <2>2. AllInserts(one[name].edits) /\ one[name].edits # << >>
    BY <1>2, <2>1 DEF IsImport
  <2>3. Len(one[name].edits) \in DOMAIN one[name].edits
    BY <2>2 DEF AllInserts, IsList
  <2>4. IsInsert(one[name].edits[Len(one[name].edits)])
    BY <2>2, <2>3 DEF AllInserts
  <2> QED BY <2>4 DEF Last
<1> HIDE DEF f
<1>11. IsFiniteSet(T)
  BY <1>4, FiniteImage
<1>12. \A e \in T : IsInsert(e)
  BY <1>10
<1> HIDE DEF T
<1>13. AllInserts(SortEdits(SetToSeq(T)))
  <2>1. SetToSeq(T) \in Seq(T)
    BY <1>11, ElementSequence
  <2> QED BY <1>12, <2>1, InsertsOf, SortedInserts
<1>14. list = SortEdits(ServicesOf(services, imports)) \o SortEdits(SetToSeq(T))
  BY <1>1, <1>9 DEF imports
<1> QED BY <1>8, <1>13, <1>14, InsertsInOne

-----------------------------------------------------------------------------
(* Sorting                                                                 *)

\* Each line is deleted by one edit at most.
UnitDeletes(list) ==
    /\ IsList(list)
    /\ \A k \in DOMAIN list : list[k].from \in Nat /\ list[k].to \in {list[k].from, list[k].from + 1}
    /\ \A k, l \in DOMAIN list : k # l /\ list[k].from = list[l].from
                                     => list[k].to = list[k].from \/ list[l].to = list[l].from

LEMMA UnitsAreDisjoint ==
    ASSUME NEW list, UnitDeletes(list)
    PROVE  Disjoint(list)
<1> SUFFICES ASSUME NEW k \in DOMAIN list, NEW l \in DOMAIN list, k # l
             PROVE  LET a == list[k]
                        b == list[l]
                    IN  IF a.from = a.to THEN ~(b.from < a.from /\ a.from < b.to)
                        ELSE b.from = b.to \/ a.to <= b.from \/ b.to <= a.from
  BY DEF Disjoint
<1> DEFINE a == list[k]
           b == list[l]
<1>1. /\ a.from \in Nat /\ b.from \in Nat /\ a.to \in {a.from, a.from + 1} /\ b.to \in {b.from, b.from + 1}
      /\ a.from = b.from => a.to = a.from \/ b.to = b.from
  BY DEF UnitDeletes
<1> HIDE DEF a, b
<1>2. IF a.from = a.to THEN ~(b.from < a.from /\ a.from < b.to)
      ELSE b.from = b.to \/ a.to <= b.from \/ b.to <= a.from
  BY <1>1
<1> QED BY <1>2 DEF a, b

LEMMA WholeStatements ==
    ASSUME IsText(doc), Parses, NEW i \in Lines
    PROVE  End(i) \in Lines
<1> DEFINE rest(j) == IF IsBlock(j) THEN {End(j)} ELSE (j + 1)..End(j)
<1>1. i \in Nat /\ End(i) \in Nat /\ i <= End(i)
  BY LineFacts
<1>2. {j \in Lines : Line(j).kind = "tail"} = UNION {rest(j) : j \in Lines}
  BY DEF Parses
<1>3. rest(i) \subseteq Lines
  BY <1>2
<1>4. End(i) = i \/ End(i) \in rest(i)
  BY <1>1
<1> QED BY <1>3, <1>4

LEMMA DeleteIs ==
    ASSUME NEW i \in Nat, NEW j \in Nat
    PROVE  /\ IsEdit(Delete(i, j))
           /\ Delete(i, j).from = i /\ Delete(i, j).to = j
BY NoText DEF Delete, IsEdit

LEMMA SortedUnits ==
    ASSUME IsText(doc), Parses, NEW list \in Seq(Lines),
           \A k, l \in DOMAIN list : k # l => list[k] # list[l]
    PROVE  /\ UnitDeletes(Sort(list)) /\ AllEdits(Sort(list))
           /\ \A k \in DOMAIN Sort(list) : \/ Sort(list)[k].to = Sort(list)[k].from
                                           \/ \E p \in DOMAIN list : Sort(list)[k].from = list[p]
<1>1. CASE InPlace(list)
  <2>1. Sort(list) = << >>
    BY <1>1 DEF Sort
  <2>2. IsList(<< >>)
    <3>1. << >> \in Seq({})
      OBVIOUS
    <3> QED BY <3>1, SeqIsList
  <2> QED BY <2>1, <2>2 DEF UnitDeletes, AllEdits
<1>2. CASE ~InPlace(list)
  <2> DEFINE m == Min(Range(list))
             n == Len(list)
             deletes == [k \in DOMAIN list |-> Delete(list[k], list[k] + 1)]
             inserts == [k \in DOMAIN list |-> Insert(m, SubSeq(doc, list[k] + 1, End(list[k]) + 1))]
             s == deletes \o inserts
  <2>1. Sort(list) = s
    BY <1>2 DEF Sort
  <2>2. /\ n \in Nat /\ DOMAIN list = 1..n /\ Lines \subseteq Nat
        /\ \A k \in 1..n : list[k] \in Lines /\ list[k] \in Nat
    BY LineFacts
  <2>3. m \in Nat
    <3>1. Range(list) # {}
      <4>1. SUFFICES ASSUME Range(list) = {} PROVE FALSE
        OBVIOUS
      <4>2. n = 0
        <5>1. n # 0 => 1 \in DOMAIN list /\ list[1] \in Range(list)
          BY <2>2 DEF Range
        <5> QED BY <4>1, <5>1
      <4>3. InPlace(list)
        BY <4>2 DEF InPlace
      <4> QED BY <1>2, <4>3
    <3>2. Range(list) \in SUBSET Nat
      BY <2>2 DEF Range
    <3> QED BY <3>1, <3>2, MinOf
  <2> HIDE DEF m, n
  <2>4. ASSUME NEW k \in 1..n
        PROVE  IsEdit(deletes[k]) /\ deletes[k].from = list[k] /\ deletes[k].to = list[k] + 1
    BY <2>2, DeleteIs
  <2>5. ASSUME NEW k \in 1..n
        PROVE  IsEdit(inserts[k]) /\ inserts[k].from = m /\ inserts[k].to = m
    <3> DEFINE text == SubSeq(doc, list[k] + 1, End(list[k]) + 1)
    <3>1. list[k] \in Lines /\ End(list[k]) \in Lines /\ list[k] \in Nat /\ list[k] <= End(list[k])
      BY <2>2, WholeStatements, LineFacts
    <3>2. list[k] \in 0..Len(doc) /\ End(list[k]) + 1 \in list[k]..Len(doc)
      BY <3>1, LineFacts DEF Lines
    <3>3. IsText(text)
      BY <3>2, PartIsText
    <3>4. inserts[k] = Insert(m, text)
      BY <2>2
    <3> HIDE DEF text
    <3>5. IsInsert(Insert(m, text)) /\ Insert(m, text).from = m /\ Insert(m, text).to = m
      BY <2>3, <3>3, InsertIs DEF Insert
    <3> QED BY <3>4, <3>5 DEF IsInsert
  <2> DEFINE V == Range(deletes) \union Range(inserts)
  <2>6. deletes \in Seq(V) /\ inserts \in Seq(V) /\ Len(deletes) = n /\ Len(inserts) = n
    <3>1. deletes \in [1..n -> V] /\ inserts \in [1..n -> V]
      BY <2>2 DEF Range
    <3> HIDE DEF deletes, inserts, V
    <3> QED BY <2>2, <3>1
  <2> HIDE DEF deletes, inserts, V
  <2>7. /\ s \in Seq(V) /\ DOMAIN s = 1..(n + n)
        /\ \A k \in 1..n : s[k] = deletes[k]
        /\ \A k \in 1..n : s[n + k] = inserts[k]
    BY SMTT(30), <2>2, <2>6
  <2> HIDE DEF s
  <2>8. ASSUME NEW k \in DOMAIN s
        PROVE  \/ k \in 1..n /\ IsEdit(s[k]) /\ s[k].from = list[k] /\ s[k].to = list[k] + 1
               \/ IsEdit(s[k]) /\ s[k].from = m /\ s[k].to = m
    <3>1. CASE k \in 1..n
      BY <2>4, <2>7, <3>1
    <3>2. CASE k \notin 1..n
      <4>1. k - n \in 1..n /\ n + (k - n) = k
        BY <2>2, <2>7, <3>2
      <4>2. s[k] = inserts[k - n]
        BY <2>7, <4>1
      <4> QED BY <2>5, <4>1, <4>2
    <3> QED BY <3>1, <3>2
  <2>9. IsList(s)
    BY <2>7, SeqIsList
  <2>10. AllEdits(s)
    BY <2>8, <2>9 DEF AllEdits
  <2>11. ASSUME NEW k \in DOMAIN s PROVE s[k].from \in Nat /\ s[k].to \in {s[k].from, s[k].from + 1}
    BY <2>2, <2>3, <2>8
  <2>12. ASSUME NEW k \in DOMAIN s, NEW l \in DOMAIN s, k # l, s[k].from = s[l].from
         PROVE  s[k].to = s[k].from \/ s[l].to = s[l].from
    <3>1. CASE k \in 1..n /\ l \in 1..n /\ s[k].from = list[k] /\ s[l].from = list[l]
      <4>1. list[k] # list[l]
        BY <2>2, <2>12, <3>1
      <4> QED BY <2>12, <3>1, <4>1
    <3>2. CASE s[k].from = m /\ s[k].to = m
      BY <3>2
    <3>3. CASE s[l].from = m /\ s[l].to = m
      BY <3>3
    <3> QED BY <2>8, <3>1, <3>2, <3>3
  <2>13. UnitDeletes(s)
    BY <2>9, <2>11, <2>12 DEF UnitDeletes
  <2>14. ASSUME NEW k \in DOMAIN s PROVE s[k].to = s[k].from \/ \E p \in DOMAIN list : s[k].from = list[p]
    BY <2>2, <2>8
  <2> QED BY <2>1, <2>10, <2>13, <2>14
<1> QED BY <1>1, <1>2

LEMMA ServicesSorted ==
    ASSUME IsText(doc), Parses
    PROVE  Disjoint(OrganiseServices) /\ AllEdits(OrganiseServices)
<1> DEFINE S == FirstOfName(ServiceLines)
<1>1. ServiceLines \in SUBSET Lines
  BY DEF ServiceLines
<1>2. Lists(ServiceLineMap, S) /\ S \subseteq ServiceLines
  BY <1>1, SomeLines DEF ServiceLineMap
<1>3. ServiceLineMap \in Seq(Lines)
  BY <1>1, <1>2 DEF Lists
<1>4. \A k, l \in DOMAIN ServiceLineMap : k # l => ServiceLineMap[k] # ServiceLineMap[l]
  BY <1>2 DEF Lists
<1> QED BY <1>3, <1>4, SortedUnits, UnitsAreDisjoint DEF OrganiseServices

LEMMA RequiresSorted ==
    ASSUME IsText(doc), Parses
    PROVE  Disjoint(OrganiseRequires) /\ AllEdits(OrganiseRequires)
<1> DEFINE sorts == [k \in DOMAIN Groups |-> Sort(Groups[k])]
           n == Len(Groups)
           V == UNION {Range(sorts[k]) : k \in 1..n}
           s == FlattenSeq(sorts)
<1>1. /\ Groups \in Seq(Seq(RequireLines)) /\ RequireLines \subseteq Lines
      /\ \A k, l \in DOMAIN Groups : \A p \in DOMAIN Groups[k], q \in DOMAIN Groups[l] :
             k # l \/ p # q => Groups[k][p] # Groups[l][q]
  BY GroupsOfRequires DEF RequireLines
<1>2. n \in Nat /\ DOMAIN Groups = 1..n /\ \A k \in 1..n : Groups[k] \in Seq(Lines)
  BY <1>1
<1>3. ASSUME NEW k \in 1..n
      PROVE  /\ sorts[k] = Sort(Groups[k])
             /\ UnitDeletes(sorts[k]) /\ AllEdits(sorts[k])
             /\ \A p \in DOMAIN sorts[k] : \/ sorts[k][p].to = sorts[k][p].from
                                           \/ \E q \in DOMAIN Groups[k] : sorts[k][p].from = Groups[k][q]
  <2>1. \A p, q \in DOMAIN Groups[k] : p # q => Groups[k][p] # Groups[k][q]
    BY <1>1, <1>2
  <2>2. Groups[k] \in Seq(Lines) /\ sorts[k] = Sort(Groups[k])
    BY <1>2
  <2> HIDE DEF sorts
  <2> QED BY <2>1, <2>2, SortedUnits
<1>4. DOMAIN sorts = 1..n /\ sorts = [k \in 1..n |-> sorts[k]]
  BY <1>2
<1>5. OrganiseRequires = s
  BY DEF OrganiseRequires
<1> HIDE DEF n, sorts
<1>6. ASSUME NEW k \in 1..n PROVE sorts[k] \in Seq(V)
  <2>1. Range(sorts[k]) \subseteq V
    OBVIOUS
  <2> HIDE DEF V
  <2> QED BY <1>3, <2>1, ListIsSeq DEF UnitDeletes
<1> HIDE DEF V
<1>7. sorts \in Seq(Seq(V))
  <2>1. sorts \in [1..n -> Seq(V)]
    BY <1>4, <1>6
  <2> QED BY <1>2, <2>1
<1>8. s \in Seq(V) /\ \E place : Placed(s, sorts, place)
  BY <1>7, FlattenedEntries
<1>9. PICK place : Placed(s, sorts, place)
  BY <1>8
<1> HIDE DEF s
<1> DEFINE group(i) == place[i][1]
           at(i) == place[i][2]
<1>10. ASSUME NEW i \in DOMAIN s
       PROVE  group(i) \in 1..n /\ at(i) \in DOMAIN sorts[group(i)] /\ s[i] = sorts[group(i)][at(i)]
  BY <1>4, <1>9 DEF Placed
<1>11. ASSUME NEW i \in DOMAIN s, NEW j \in DOMAIN s, i # j PROVE group(i) # group(j) \/ at(i) # at(j)
  BY <1>9, <1>11 DEF Placed
<1>12. IsList(s)
  BY <1>8, SeqIsList
<1>13. ASSUME NEW i \in DOMAIN s
       PROVE  IsEdit(s[i]) /\ s[i].from \in Nat /\ s[i].to \in {s[i].from, s[i].from + 1}
  BY <1>3, <1>10 DEF UnitDeletes, AllEdits
<1>14. ASSUME NEW i \in DOMAIN s, NEW j \in DOMAIN s, i # j, s[i].from = s[j].from
       PROVE  s[i].to = s[i].from \/ s[j].to = s[j].from
  <2> DEFINE k == group(i)
             l == group(j)
             p == at(i)
             q == at(j)
  <2>1. /\ k \in 1..n /\ p \in DOMAIN sorts[k] /\ s[i] = sorts[k][p]
        /\ l \in 1..n /\ q \in DOMAIN sorts[l] /\ s[j] = sorts[l][q]
        /\ k # l \/ p # q
    BY <1>10, <1>11, <1>14
  <2> HIDE DEF group, at, k, l, p, q
  <2>2. CASE k = l
    <3>1. UnitDeletes(sorts[k]) /\ p \in DOMAIN sorts[k] /\ q \in DOMAIN sorts[k] /\ p # q /\ s[j] = sorts[k][q]
      BY <1>3, <2>1, <2>2
    <3> QED BY <1>14, <2>1, <3>1 DEF UnitDeletes
  <2>3. CASE k # l
    <3>1. SUFFICES ASSUME s[i].to # s[i].from, s[j].to # s[j].from PROVE FALSE
      OBVIOUS
    <3>2. PICK a \in DOMAIN Groups[k] : s[i].from = Groups[k][a]
      BY <1>3, <2>1, <3>1
    <3>3. PICK b \in DOMAIN Groups[l] : s[j].from = Groups[l][b]
      BY <1>3, <2>1, <3>1
    <3>4. Groups[k][a] # Groups[l][b]
      BY <1>1, <1>2, <2>1, <2>3
    <3> QED BY <1>14, <3>2, <3>3, <3>4
  <2> QED BY <2>2, <2>3
<1>15. UnitDeletes(s) /\ AllEdits(s)
  BY <1>12, <1>13, <1>14 DEF UnitDeletes, AllEdits
<1> QED BY <1>5, <1>15, UnitsAreDisjoint

-----------------------------------------------------------------------------
(* Removing unused code                                                    *)

\* What the walk over the first k of the removable lines has collected.
HasRemoved(r, order, k) ==
    /\ \A p \in DOMAIN r.edits : \E q \in 1..k : /\ r.edits[p] = Statement(order[q])
                                                 /\ order[q]..End(order[q]) \subseteq r.deletedLines
    /\ Disjoint(r.edits)

LEMMA OneMoreRemoved ==
    ASSUME IsText(doc), NEW n \in Nat, NEW order \in [1..n -> Lines],
           \A k, l \in 1..n : k < l => order[k] < order[l],
           NEW k \in 1..n, NEW r, NEW E, r.edits \in Seq(E), HasRemoved(r, order, k - 1),
           order[k] \notin r.deletedLines,
           NEW later, later.edits = Append(r.edits, Statement(order[k])),
           later.deletedLines = r.deletedLines \union (order[k]..End(order[k]))
    PROVE  HasRemoved(later, order, k)
<1> DEFINE s == r.edits
           m == Len(s)
           t == Append(s, Statement(order[k]))
           V == E \union {Statement(order[k])}
<1>1. m \in Nat /\ s \in Seq(V) /\ Statement(order[k]) \in V /\ DOMAIN s = 1..m
  OBVIOUS
<1> HIDE DEF s, V, m
<1>2. /\ DOMAIN t = 1..(m + 1) /\ t[m + 1] = Statement(order[k])
      /\ \A p \in 1..m : t[p] = s[p]
  BY <1>1 DEF m
<1>3. \A l \in 1..n : /\ order[l] \in Nat /\ End(order[l]) \in Nat /\ order[l] <= End(order[l])
                      /\ Statement(order[l]).from = order[l] /\ Statement(order[l]).to = End(order[l]) + 1
  <2>1. ASSUME NEW l \in 1..n PROVE order[l] \in Nat /\ End(order[l]) \in Nat /\ order[l] <= End(order[l])
    BY LineFacts
  <2>2. ASSUME NEW l \in 1..n
        PROVE  Statement(order[l]).from = order[l] /\ Statement(order[l]).to = End(order[l]) + 1
    <3> DEFINE end == End(order[l])
    <3>3. order[l] \in Nat /\ end \in Nat
      BY <2>1
    <3> HIDE DEF end
    <3>4. end + 1 \in Nat
      BY <3>3
    <3>1. order[l] \in Nat /\ End(order[l]) + 1 \in Nat
      BY <3>3, <3>4 DEF end
    <3>2. Statement(order[l]) = Delete(order[l], End(order[l]) + 1)
      BY DEF Statement
    <3> QED BY <3>1, <3>2, DeleteIs
  <2> QED BY <2>1, <2>2
<1> HIDE DEF t
<1>4. ASSUME NEW p \in 1..m
      PROVE  \E q \in 1..(k - 1) : s[p] = Statement(order[q]) /\ order[q]..End(order[q]) \subseteq r.deletedLines
  BY <1>1 DEF HasRemoved, s
<1>5. ASSUME NEW p \in 1..m PROVE s[p].to <= order[k] /\ s[p].from < s[p].to /\ s[p].from \in Nat /\ s[p].to \in Nat
  <2>1. PICK q \in 1..(k - 1) : s[p] = Statement(order[q]) /\ order[q]..End(order[q]) \subseteq r.deletedLines
    BY <1>4
  <2>2. q \in 1..n /\ k \in 1..n /\ q < k
    OBVIOUS
  <2>3. order[q] < order[k] /\ order[k] \notin order[q]..End(order[q])
    BY <2>1, <2>2
  <2>4. End(order[q]) + 1 <= order[k]
    BY SMTT(30), <1>3, <2>2, <2>3
  <2>5. s[p].from = order[q] /\ s[p].to = End(order[q]) + 1
    BY <1>3, <2>1, <2>2
  <2>6. order[q] \in Nat /\ End(order[q]) \in Nat /\ order[q] <= End(order[q])
    BY <1>3, <2>2
  <2> QED BY <2>4, <2>5, <2>6
<1>6. ASSUME NEW p \in DOMAIN t
      PROVE  \E q \in 1..k : t[p] = Statement(order[q]) /\ order[q]..End(order[q]) \subseteq later.deletedLines
  <2>1. CASE p \in 1..m
    <3>1. PICK q \in 1..(k - 1) : s[p] = Statement(order[q]) /\ order[q]..End(order[q]) \subseteq r.deletedLines
      BY <1>4, <2>1
    <3>2. q \in 1..k
      OBVIOUS
    <3> QED BY <1>2, <2>1, <3>1, <3>2
  <2>2. CASE p = m + 1
    <3>1. k \in 1..k
      OBVIOUS
    <3> QED BY <1>2, <2>2, <3>1
  <2> QED BY <1>1, <1>2, <2>1, <2>2
<1>7. Disjoint(t)
  <2> SUFFICES ASSUME NEW i \in DOMAIN t, NEW j \in DOMAIN t, i # j
               PROVE  LET a == t[i]
                          b == t[j]
                      IN  IF a.from = a.to THEN ~(b.from < a.from /\ a.from < b.to)
                          ELSE b.from = b.to \/ a.to <= b.from \/ b.to <= a.from
    BY DEF Disjoint
  <2>1. Disjoint(s)
    BY DEF HasRemoved, s
  <2>2. CASE i \in 1..m /\ j \in 1..m
    <3>1. t[i] = s[i] /\ t[j] = s[j] /\ i \in DOMAIN s /\ j \in DOMAIN s
      BY <1>1, <1>2, <2>2
    <3>2. LET a == s[i]
              b == s[j]
          IN  IF a.from = a.to THEN ~(b.from < a.from /\ a.from < b.to)
              ELSE b.from = b.to \/ a.to <= b.from \/ b.to <= a.from
      BY <2>1, <3>1 DEF Disjoint
    <3> QED BY <3>1, <3>2
  <2>3. CASE i \in 1..m /\ j = m + 1
    <3>1. t[i] = s[i] /\ t[j].from = order[k]
      BY <1>2, <1>3, <2>3
    <3>2. t[i].to <= t[j].from /\ t[i].from < t[i].to /\ t[i].from \in Nat /\ t[i].to \in Nat
      BY <1>5, <2>3, <3>1
    <3> QED BY <3>2
  <2>4. CASE i = m + 1 /\ j \in 1..m
    <3>1. t[j] = s[j] /\ t[i].from = order[k] /\ t[i].to = End(order[k]) + 1
      BY <1>2, <1>3, <2>4
    <3>2. t[j].to <= t[i].from /\ t[i].from # t[i].to
      BY SMTT(30), <1>3, <1>5, <2>4, <3>1
    <3> QED BY <3>2
  <2> QED BY <1>1, <1>2, <2>2, <2>3, <2>4
<1>8. later.edits = t
  BY DEF t, s
<1> QED BY <1>6, <1>7, <1>8 DEF HasRemoved

LEMMA UnusedRemoved ==
    ASSUME IsText(doc)
    PROVE  /\ Disjoint(RemoveUnusedCode) /\ AllEdits(RemoveUnusedCode)
           /\ \A k \in DOMAIN RemoveUnusedCode :
                 \E d \in Unused \union Unreachable : RemoveUnusedCode[k] = Statement(d)
<1> DEFINE S == Unused \union Unreachable
           order == InOrder(S)
           n == Len(order)
           E == {Statement(i) : i \in Lines}
           V == [edits : Seq(E), deletedLines : SUBSET Int]
           first == [edits |-> << >>, deletedLines |-> {}]
           remove(r, i) == IF ~Removable(i, r.deletedLines) THEN r
                           ELSE [edits |-> Append(r.edits, Statement(i)),
                                 deletedLines |-> r.deletedLines \union (i..End(i))]
           Def(g) == [k \in 0..n |-> IF k = 0 THEN first ELSE remove(g[k - 1], order[k])]
           X == CHOOSE g : g = Def(g)
<1>1. S \in SUBSET Lines
  BY DEF Unused, Unreachable
<1>2. /\ n \in Nat /\ order \in [1..n -> Lines] /\ order \in [1..n -> S]
      /\ \A k, l \in 1..n : k < l => order[k] < order[l]
  <2>1. S \in SUBSET Nat /\ IsFiniteSet(S)
    BY <1>1, SomeLines
  <2>2. Lists(order, S) /\ \A k, l \in DOMAIN order : k < l => order[k] < order[l]
    BY <2>1, InOrderLists
  <2> HIDE DEF order, S
  <2>3. n \in Nat /\ order \in [1..n -> S]
    BY <2>2 DEF Lists
  <2> QED BY <1>1, <2>2, <2>3
<1>3. RemoveUnusedCode = X[n].edits
  BY DEF RemoveUnusedCode
<1> HIDE DEF S, order, n, E
<1>4. first \in V
  OBVIOUS
<1>5. ASSUME NEW r \in V, NEW k \in 1..n PROVE remove(r, order[k]) \in V
  <2>1. order[k] \in Lines
    BY <1>2
  <2>2. Append(r.edits, Statement(order[k])) \in Seq(E)
    BY <2>1 DEF E
  <2>3. order[k]..End(order[k]) \in SUBSET Int /\ r.deletedLines \in SUBSET Int /\ r.edits \in Seq(E)
    BY <2>1
  <2> QED BY <2>2, <2>3
<1>6. ASSUME NEW r \in V, NEW k \in 1..n, HasRemoved(r, order, k - 1) PROVE HasRemoved(remove(r, order[k]), order, k)
  <2>1. CASE ~Removable(order[k], r.deletedLines)
    <3>1. remove(r, order[k]) = r
      BY <2>1
    <3>2. \A q \in 1..(k - 1) : q \in 1..k
      OBVIOUS
    <3> HIDE DEF remove
    <3> QED BY <1>6, <3>1, <3>2 DEF HasRemoved
  <2>2. CASE Removable(order[k], r.deletedLines)
    <3> DEFINE later == remove(r, order[k])
    <3>1. /\ later.edits = Append(r.edits, Statement(order[k]))
          /\ later.deletedLines = r.deletedLines \union (order[k]..End(order[k]))
      BY <2>2
    <3>2. order[k] \notin r.deletedLines
      BY <2>2 DEF Removable
    <3>3. r.edits \in Seq(E)
      OBVIOUS
    <3> HIDE DEF remove, V
    <3>4. HasRemoved(later, order, k)
      BY <1>2, <1>6, <3>1, <3>2, <3>3, OneMoreRemoved
    <3> QED BY <3>4
  <2> QED BY <2>1, <2>2
<1>7. HasRemoved(first, order, 0)
  BY DEF HasRemoved, Disjoint
<1> HIDE DEF first, remove, V
<1>8. PICK f : f = Def(f)
  <2> DEFINE step == [p \in (1..n) \X V |-> remove(p[2], order[p[1]])]
  <2>1. step \in [(1..n) \X V -> V] /\ \A k \in 1..n, r \in V : step[<<k, r>>] = remove(r, order[k])
    BY <1>5
  <2> HIDE DEF step
  <2>2. PICK f \in [0..n -> V] : FollowsStep(f, n, first, step)
    BY <1>2, <1>4, <2>1, StepRecursion
  <2>3. ASSUME NEW k \in 0..n PROVE f[k] = Def(f)[k]
    <3>1. CASE k = 0
      BY <2>2, <3>1 DEF FollowsStep
    <3>2. CASE k # 0
      <4>1. k \in 1..n /\ k - 1 \in 0..n
        BY <1>2, <3>2
      <4>2. f[k] = step[<<k, f[k - 1]>>] /\ f[k - 1] \in V
        BY <2>2, <4>1 DEF FollowsStep
      <4> QED BY <2>1, <3>2, <4>1, <4>2
    <3> QED BY <3>1, <3>2
  <2>4. f = [k \in 0..n |-> f[k]] /\ Def(f) = [k \in 0..n |-> Def(f)[k]]
    BY <2>2
  <2> HIDE DEF Def
  <2> QED BY <2>3, <2>4
<1> HIDE DEF Def
<1>9. X = Def(X)
  BY <1>8
<1> HIDE DEF X
<1> DEFINE P == {k \in Nat : X[k] \in V /\ HasRemoved(X[k], order, k)}
<1>10. 0 \in P
  <2>1. Def(X)[0] = first
    BY <1>2 DEF Def
  <2> QED BY <1>4, <1>7, <1>9, <2>1
<1>11. ASSUME NEW k \in 1..n, k - 1 \in P PROVE k \in P
  <2>1. k \in 0..n /\ k # 0 /\ k \in Nat
    BY <1>2
  <2>2. Def(X)[k] = remove(X[k - 1], order[k])
    BY <2>1 DEF Def
  <2> QED BY <1>5, <1>6, <1>9, <1>11, <2>1, <2>2
<1> HIDE DEF P
<1>12. n \in P
  BY <1>2, <1>10, <1>11, StepInduction
<1>13. X[n] \in V /\ HasRemoved(X[n], order, n)
  BY <1>12 DEF P
<1>14. X[n].edits \in Seq(E)
  BY <1>13 DEF V
<1>15. \A e \in E : IsEdit(e)
  <2>1. ASSUME NEW i \in Lines PROVE IsEdit(Statement(i))
    <3>1. i \in Nat /\ End(i) + 1 \in Nat
      BY LineFacts
    <3> QED BY <3>1, DeleteIs DEF Statement
  <2> QED BY <2>1 DEF E
<1>16. AllEdits(X[n].edits)
  <2> DEFINE s == X[n].edits
  <2>1. s \in Seq(E)
    BY <1>14
  <2> HIDE DEF s
  <2>2. IsList(s) /\ \A k \in DOMAIN s : s[k] \in E
    BY <2>1, SeqIsList
  <2>3. AllEdits(s)
    BY <1>15, <2>2 DEF AllEdits
  <2> QED BY <2>3 DEF s
<1>17. ASSUME NEW k \in DOMAIN X[n].edits PROVE \E d \in S : X[n].edits[k] = Statement(d)
  <2>1. PICK q \in 1..n : X[n].edits[k] = Statement(order[q])
    BY <1>13 DEF HasRemoved
  <2>2. order[q] \in S
    BY <1>2
  <2> QED BY <2>1, <2>2
<1> QED BY <1>3, <1>13, <1>16, <1>17 DEF HasRemoved, S

-----------------------------------------------------------------------------
(* What a client makes of the edits                                        *)

LEMMA AppliedIsText ==
    ASSUME IsText(doc), NEW list, AllEdits(list)
    PROVE  IsText(Apply(list))
<1> DEFINE texts(i) == [k \in DOMAIN list |-> IF list[k].from = i THEN list[k].text ELSE << >>]
           text(i) == FlattenSeq(texts(i))
           deleted(i) == \E k \in DOMAIN list : list[k].from <= i /\ i < list[k].to
           new(i) == (IF deleted(i) THEN 1 ELSE 0)..Len(text(i))
           size(i) == 1 + Cardinality(UNION {{j} \X new(j) : j \in (i + 1)..End(i)})
           kept(i) == IF i \notin Lines \/ deleted(i) THEN << >>
                      ELSE <<[Line(i) EXCEPT !.len = IF IsBlock(i) THEN size(i) ELSE @]>>
           parts == [k \in 1..(Len(doc) + 1) |-> text(k - 1) \o kept(k - 1)]
<1>1. Apply(list) = FlattenSeq(parts)
  BY DEF Apply
<1>2. ASSUME NEW i PROVE IsText(text(i))
  <2>1. list \in Seq(Range(list)) /\ \A k \in DOMAIN list : IsText(list[k].text)
    BY DEF AllEdits, IsList, IsEdit
  <2>2. Len(list) \in Nat /\ DOMAIN list = 1..Len(list)
    BY <2>1
  <2>3. DOMAIN texts(i) = 1..Len(list) /\ texts(i) = [k \in 1..Len(list) |-> texts(i)[k]]
    BY <2>2
  <2>4. \A k \in 1..Len(list) : IsText(texts(i)[k])
    <3>1. ASSUME NEW k \in 1..Len(list) PROVE IsText(texts(i)[k])
      <4>1. texts(i)[k] = list[k].text \/ texts(i)[k] = << >>
        BY <2>2
      <4>2. IsText(list[k].text)
        BY <2>1, <2>2
      <4> HIDE DEF texts
      <4> QED BY <4>1, <4>2, NoText
    <3> QED BY <3>1
  <2> HIDE DEF texts
  <2> QED BY <2>2, <2>3, <2>4, FlattenedTexts
<1> HIDE DEF text, deleted
<1>3. ASSUME NEW i \in Lines PROVE size(i) \in Nat \ {0}
  <2> DEFINE f == [j \in (i + 1)..End(i) |-> {j} \X new(j)]
  <2>1. i + 1 \in Int /\ End(i) \in Int
    BY LineFacts
  <2>2. IsFiniteSet((i + 1)..End(i))
    BY <2>1, FS_Interval
  <2>3. ASSUME NEW j PROVE IsFiniteSet({j} \X new(j))
    <3>1. Len(text(j)) \in Int
      <4>1. text(j) \in Seq(Range(text(j)))
        BY <1>2 DEF IsText
      <4> QED BY <4>1
    <3>2. (IF deleted(j) THEN 1 ELSE 0) \in Int
      OBVIOUS
    <3>3. IsFiniteSet(new(j))
      BY <3>1, <3>2, FS_Interval
    <3>4. IsFiniteSet({j})
      BY FS_Singleton
    <3> HIDE DEF new
    <3> QED BY <3>3, <3>4, FS_Product
  <2> HIDE DEF new
  <2> DEFINE S == {{j} \X new(j) : j \in (i + 1)..End(i)}
  <2>4. S = {f[j] : j \in (i + 1)..End(i)}
    OBVIOUS
  <2>5. \A T \in S : IsFiniteSet(T)
    BY <2>3
  <2> HIDE DEF f, S
  <2>6. IsFiniteSet(S)
    BY <2>2, <2>4, FiniteImage
  <2>7. IsFiniteSet(UNION S)
    BY <2>5, <2>6, FS_UNION
  <2>8. Cardinality(UNION S) \in Nat
    BY <2>7, FS_CardinalityType
  <2>9. size(i) = 1 + Cardinality(UNION S)
    BY DEF S
  <2> HIDE DEF size
  <2> QED BY <2>8, <2>9
<1> HIDE DEF size
<1>4. ASSUME NEW i PROVE IsText(kept(i))
  <2>1. CASE i \notin Lines \/ deleted(i)
    BY <2>1, NoText
  <2>2. CASE ~(i \notin Lines \/ deleted(i))
    <3> DEFINE line == [Line(i) EXCEPT !.len = IF IsBlock(i) THEN size(i) ELSE @]
    <3>1. i \in Lines /\ IsLine(Line(i)) /\ size(i) \in Nat \ {0}
      BY <1>3, <2>2, LineFacts
    <3>2. IsLine(line)
      <4>1. {"kind", "name", "uses", "len"} \subseteq DOMAIN Line(i)
        BY <3>1 DEF IsLine
      <4>2. DOMAIN line = DOMAIN Line(i) /\ line.kind = Line(i).kind /\ line.name = Line(i).name
        BY <4>1
      <4>3. line.len = IF IsBlock(i) THEN size(i) ELSE Line(i).len
        BY <4>1
      <4>4. Line(i).kind = "tail" => ~IsBlock(i)
        BY DEF IsBlock
      <4> HIDE DEF line
      <4> QED BY <3>1, <4>1, <4>2, <4>3, <4>4 DEF IsLine
    <3>3. kept(i) = <<line>>
      BY <2>2
    <3> HIDE DEF line, kept
    <3> QED BY <3>2, <3>3, OneLine
  <2> QED BY <2>1, <2>2
<1> HIDE DEF kept
<1>5. ASSUME NEW i PROVE IsText(text(i) \o kept(i))
  BY <1>2, <1>4, TextsInOne
<1>6. Len(doc) + 1 \in Nat
  BY LineFacts
<1>7. /\ DOMAIN parts = 1..(Len(doc) + 1) /\ parts = [k \in 1..(Len(doc) + 1) |-> parts[k]]
      /\ \A k \in 1..(Len(doc) + 1) : IsText(parts[k])
  BY <1>5
<1> HIDE DEF parts
<1> QED BY <1>1, <1>6, <1>7, FlattenedTexts

-----------------------------------------------------------------------------
(* The document                                                            *)

LEMMA FixesOfWarnings ==
    ASSUME IsText(doc), NEW list \in WarningFixes
    PROVE  AllEdits(list)
<1>1. ASSUME NEW e, IsEdit(e) PROVE AllEdits(<<e>>)
  <2>1. <<e>> \in Seq({e})
    OBVIOUS
  <2>2. IsList(<<e>>)
    BY <2>1, SeqIsList
  <2> QED BY <1>1, <2>2 DEF AllEdits
<1>2. ASSUME NEW i \in Unused \union Unreachable, list = <<Statement(i)>> PROVE AllEdits(list)
  <2>4. i \in Lines
    BY DEF Unused, Unreachable
  <2>1. i \in Nat /\ End(i) + 1 \in Nat
    BY <2>4, LineFacts
  <2>2. IsEdit(Statement(i))
    BY <2>1, DeleteIs DEF Statement
  <2> QED BY <1>1, <1>2, <2>2
<1>3. ASSUME NEW i \in Unused, list = <<Replace(i, [Line(i) EXCEPT !.name = Silenced[@]])>> PROVE AllEdits(list)
  <2> DEFINE line == [Line(i) EXCEPT !.name = Silenced[@]]
  <2>1. i \in Lines
    BY DEF Unused
  <2>2. i \in Nat /\ IsLine(Line(i))
    BY <2>1, LineFacts
  <2>3. IsLine(line)
    <3>1. {"kind", "name", "uses", "len"} \subseteq DOMAIN Line(i) /\ Line(i).name # ""
      BY <2>2 DEF IsLine, Unused
    <3>2. DOMAIN line = DOMAIN Line(i) /\ line.kind = Line(i).kind /\ line.len = Line(i).len
      BY <3>1
    <3>3. Line(i).kind \notin {"tail", "dead"}
      BY <2>2, <3>1 DEF IsLine
    <3> HIDE DEF line
    <3> QED BY <2>2, <3>1, <3>2, <3>3 DEF IsLine
  <2>4. IsText(<<line>>)
    BY <2>3, OneLine
  <2> HIDE DEF line
  <2>5. IsEdit(Replace(i, line))
    BY <2>2, <2>4 DEF Replace, IsEdit
  <2>6. list = <<Replace(i, line)>>
    BY <1>3 DEF line
  <2> QED BY <1>1, <2>5, <2>6
<1>4. \/ \E i \in Unused \union Unreachable : list = <<Statement(i)>>
      \/ \E i \in Unused : list = <<Replace(i, [Line(i) EXCEPT !.name = Silenced[@]])>>
  BY DEF WarningFixes
<1> QED BY <1>2, <1>3, <1>4

LEMMA OfferedEdits ==
    ASSUME IsText(doc), Parses, NEW list \in Offered
    PROVE  Disjoint(list) /\ AllEdits(list)
<1>1. CASE list = OrganiseRequires
  BY <1>1, RequiresSorted
<1>2. CASE list = RemoveUnusedCode
  BY <1>2, UnusedRemoved
<1>3. CASE list = OrganiseServices
  BY <1>3, ServicesSorted
<1>4. CASE list \in AddAllMissingImports
  BY <1>4, MissingInserts, InsertsAreDisjoint
<1>5. ASSUME NEW i, AllInserts(i.edits), list = i.edits
      PROVE  Disjoint(list) /\ AllEdits(list)
  BY <1>5, InsertsAreDisjoint
<1>6. CASE list \in UnknownSymbolFixes
  <2>1. PICK n \in UnknownNames : list \in {i.edits : i \in ServiceImports({n}) \union Imports({n}, FALSE)}
    BY <1>6 DEF UnknownSymbolFixes
  <2>2. PICK i \in ServiceImports({n}) \union Imports({n}, FALSE) : list = i.edits
    BY <2>1
  <2>3. AllInserts(i.edits)
    BY ServiceImportsInsert, ImportsInsert DEF IsImport
  <2> QED BY <1>5, <2>2, <2>3
<1>7. CASE list \in UNION {Completions(name) : name \in UnknownNames}
  <2>1. PICK n \in UnknownNames : list \in {i.edits : i \in ServiceImports({n}) \union Imports({n}, Overdare)}
    BY <1>7 DEF Completions
  <2>2. PICK i \in ServiceImports({n}) \union Imports({n}, Overdare) : list = i.edits
    BY <2>1
  <2>3. AllInserts(i.edits)
    BY ServiceImportsInsert, ImportsInsert DEF IsImport
  <2> QED BY <1>5, <2>2, <2>3
<1> QED BY <1>1, <1>2, <1>3, <1>4, <1>6, <1>7 DEF Offered, SourceActions

LEMMA BlocksAreTexts ==
    ASSUME NEW i \in Nat, NEW block \in Blocks
    PROVE  AllEdits(<<Insert(i, block)>>)
<1>1. IsText(block)
  BY EditAssumption
<1>2. IsInsert(Insert(i, block))
  BY <1>1, InsertIs
<1> QED BY <1>2, OneInsert, InsertsAreDisjoint

LEMMA NextKeepsText ==
    ASSUME IsText(doc), [Next]_vars
    PROVE  IsText(doc')
<1>1. CASE Type
  <2>1. PICK i \in 0..Len(doc), block \in Blocks : doc' = Apply(<<Insert(i, block)>>)
    BY <1>1 DEF Type, Edited
  <2>2. i \in Nat
    BY LineFacts
  <2> QED BY <2>1, <2>2, BlocksAreTexts, AppliedIsText
<1>2. CASE CodeAction
  <2>1. PICK list \in SourceActions \union WarningFixes \union UnknownSymbolFixes : Parses /\ doc' = Apply(list)
    BY <1>2 DEF CodeAction, Edited
  <2>2. list \in Offered \/ list \in WarningFixes
    BY DEF Offered
  <2>3. AllEdits(list)
    BY <2>1, <2>2, OfferedEdits, FixesOfWarnings
  <2> QED BY <2>1, <2>3, AppliedIsText
<1>3. CASE AcceptImport
  <2>1. PICK list \in UNION {Completions(name) : name \in UnknownNames} : Parses /\ doc' = Apply(list)
    BY <1>3 DEF AcceptImport, Edited
  <2>2. list \in Offered
    BY DEF Offered
  <2>3. AllEdits(list)
    BY <2>1, <2>2, OfferedEdits
  <2> QED BY <2>1, <2>3, AppliedIsText
<1>4. CASE CheckDocument \/ Configure \/ UNCHANGED vars
  BY <1>4 DEF CheckDocument, Configure, docVars, vars
<1> QED BY <1>1, <1>2, <1>3, <1>4 DEF Next

\* The edits of one code action or completion never overlap, for every
\* document, every platform and setting and any names: what is sorted is moved
\* between the statements, what is removed is removed once, and every new
\* import is an insertion.
THEOREM EditsStayDisjoint == Spec => []EditsAreDisjoint
<1>1. Init => IsText(doc)
  BY EditAssumption DEF Init
<1>2. IsText(doc) /\ [Next]_vars => IsText(doc)'
  BY NextKeepsText
<1>3. IsText(doc) => EditsAreDisjoint
  BY OfferedEdits DEF EditsAreDisjoint
<1> QED BY <1>1, <1>2, <1>3, PTL DEF Spec
-----------------------------------------------------------------------------
(* What the removal of unused code leaves                                  *)

\* The lines that are left, and the new number of one of them.
Left == {i \in Lines : \A k \in DOMAIN RemoveUnusedCode : ~(RemoveUnusedCode[k].from <= i /\ i < RemoveUnusedCode[k].to)}
Numbers == {i + 1 : i \in Left}
Place(i) == KeptUpTo(Numbers, i + 1) - 1

\* Statements that are removed are whole, and so are those that are left.
LEMMA StatementsLeft ==
    ASSUME IsText(doc), Parses
    PROVE  /\ \A i \in Left : End(i) \in Left
           /\ \A i \in Left, j \in Lines : ~IsBlock(i) /\ i < j /\ j <= End(i) => j \in Left
           /\ \A i, j \in Lines : j \in Left /\ i < j /\ j <= End(i) => i \in Left
           /\ \A i \in Lines \ Left : Line(i).name # "" =>
                 i \in Unused \/ \E d \in Lines : IsBlock(d) /\ d < i /\ i <= End(d) /\ (d..End(d)) \intersect Left = {}
<1> DEFINE list == RemoveUnusedCode
           D == {d \in Unused \union Unreachable : \E k \in DOMAIN list : list[k] = Statement(d)}
<1>1. \A i \in Lines : i \in Nat /\ End(i) \in Nat /\ i <= End(i) /\ End(i) \in Lines /\ IsLine(Line(i))
  BY LineFacts, WholeStatements
<1>2. \A d \in D : d \in Lines /\ Line(d).kind # "tail" /\ (d \in Unused \/ Line(d).name = "")
  <2>1. ASSUME NEW d \in D PROVE d \in Lines /\ Line(d).kind # "tail" /\ (d \in Unused \/ Line(d).name = "")
    <3>1. d \in Lines /\ (d \in Unused \/ Line(d).kind = "dead")
      BY DEF Unused, Unreachable
    <3>2. d \in Unused => Line(d).name # ""
      BY DEF Unused
    <3>3. Line(d).kind \in {"tail", "dead"} => Line(d).name = ""
      BY <1>1, <3>1 DEF IsLine
    <3> QED BY <3>1, <3>2, <3>3
  <2> QED BY <2>1
<1>3. \A i \in Lines : i \notin Left <=> \E d \in D : d <= i /\ i <= End(d)
  <2> SUFFICES ASSUME NEW i \in Lines PROVE i \notin Left <=> \E d \in D : d <= i /\ i <= End(d)
    OBVIOUS
  <2>1. \A d \in D : Statement(d).from = d /\ Statement(d).to = End(d) + 1
    BY DEF Statement, Delete
  <2>2. \A k \in DOMAIN list : \E d \in D : list[k] = Statement(d)
    BY UnusedRemoved
  <2>3. \A d \in D : \E k \in DOMAIN list : list[k] = Statement(d)
    OBVIOUS
  <2>4. i \notin Left <=> \E k \in DOMAIN list : list[k].from <= i /\ i < list[k].to
    BY DEF Left
  <2>5. \A d \in D : i <= End(d) <=> i < End(d) + 1
    <3> SUFFICES ASSUME NEW d \in D PROVE i <= End(d) <=> i < End(d) + 1
      OBVIOUS
    <3>1. d \in Lines
      BY <1>2
    <3>2. i \in Nat /\ End(d) \in Nat
      BY <1>1, <3>1
    <3> QED BY <3>2
  <2> HIDE DEF D, list
  <2> QED BY <2>1, <2>2, <2>3, <2>4, <2>5
<1>4. \A i, j \in Lines : i < j /\ j <= End(i) /\ Line(j).kind # "tail" => End(j) < End(i)
  BY DEF Parses
<1>5. \A i, j \in Lines : i < j /\ j <= End(i) /\ Line(j).kind # "tail" => IsBlock(i)
  <2> SUFFICES ASSUME NEW i \in Lines, NEW j \in Lines, i < j, j <= End(i), ~IsBlock(i) PROVE Line(j).kind = "tail"
    OBVIOUS
  <2>1. j \in (i + 1)..End(i)
    BY <1>1
  <2>2. {k \in Lines : Line(k).kind = "tail"} = UNION {IF IsBlock(k) THEN {End(k)} ELSE (k + 1)..End(k) : k \in Lines}
    BY DEF Parses
  <2> QED BY <2>1, <2>2
<1> HIDE DEF D, list
<1>6. ASSUME NEW i \in Left PROVE End(i) \in Left
  <2>1. i \in Lines
    BY DEF Left
  <2>2. ASSUME NEW d \in D, d <= End(i), End(i) <= End(d) PROVE FALSE
    <3>1. d \in Lines /\ ~(d <= i /\ i <= End(d))
      BY <1>2, <1>3, <2>1
    <3>2. i < d
      BY <1>1, <2>1, <2>2, <3>1
    <3>3. End(d) < End(i)
      BY <1>2, <1>4, <2>1, <2>2, <3>1, <3>2
    <3> QED BY <1>1, <2>1, <2>2, <3>1, <3>3
  <2> QED BY <1>1, <1>3, <2>1, <2>2
<1>7. ASSUME NEW i \in Lines, NEW j \in Left, i < j, j <= End(i) PROVE i \in Left
  <2>1. j \in Lines
    BY DEF Left
  <2>2. ASSUME NEW d \in D, d <= i, i <= End(d) PROVE FALSE
    <3>1. d \in Lines /\ ~(d <= j /\ j <= End(d))
      BY <1>2, <1>3, <2>1
    <3>2. End(d) < j
      BY <1>1, <1>7, <2>1, <2>2, <3>1
    <3>3. d # i /\ d < i
      BY <1>1, <1>7, <2>1, <2>2, <3>1, <3>2
    <3>4. Line(i).kind # "tail"
      <4>1. Line(i).kind = "tail" => Line(i).len = 1
        BY <1>1 DEF IsLine
      <4>2. Line(i).kind = "tail" => End(i) = i
        BY <1>1, <4>1 DEF End
      <4> QED BY <1>1, <1>7, <2>1, <4>2
    <3>5. End(i) < End(d)
      BY <1>4, <2>2, <3>1, <3>3, <3>4
    <3> QED BY <1>1, <1>7, <2>1, <3>1, <3>2, <3>5
  <2> QED BY <1>3, <2>2
<1>8. ASSUME NEW i \in Lines \ Left, Line(i).name # ""
      PROVE  i \in Unused \/ \E d \in Lines : IsBlock(d) /\ d < i /\ i <= End(d) /\ (d..End(d)) \intersect Left = {}
  <2>1. PICK d \in D : d <= i /\ i <= End(d)
    BY <1>3
  <2>2. d \in Lines /\ (d \in Unused \/ Line(d).name = "")
    BY <1>2
  <2>3. CASE d = i
    BY <1>8, <2>2, <2>3
  <2>4. CASE d # i
    <3>1. d < i
      <4>1. d \in Nat /\ i \in Nat
        BY <1>1, <2>2
      <4> QED BY <2>1, <2>4, <4>1
    <3>2. Line(i).kind # "tail"
      BY <1>1, <1>8 DEF IsLine
    <3>3. IsBlock(d)
      BY <1>5, <2>1, <2>2, <3>1, <3>2
    <3>4. (d..End(d)) \intersect Left = {}
      <4>1. ASSUME NEW j \in d..End(d), j \in Left PROVE FALSE
        <5>1. j \in Lines
          BY <4>1 DEF Left
        <5>2. d \in Nat /\ End(d) \in Nat
          BY <1>1, <2>2
        <5>3. d <= j /\ j <= End(d)
          BY <4>1, <5>2
        <5> QED BY <1>3, <4>1, <5>1, <5>3
      <4> QED BY <4>1
    <3> QED BY <2>1, <2>2, <3>1, <3>3, <3>4
  <2> QED BY <2>3, <2>4
<1>9. ASSUME NEW i \in Left, NEW j \in Lines, ~IsBlock(i), i < j, j <= End(i) PROVE j \in Left
  <2>1. i \in Lines
    BY DEF Left
  <2>2. ASSUME NEW d \in D, d <= j, j <= End(d) PROVE FALSE
    <3>1. d \in Lines /\ ~(d <= i /\ i <= End(d))
      BY <1>2, <1>3, <2>1
    <3>2. i < d /\ d <= End(i)
      BY <1>1, <1>9, <2>1, <2>2, <3>1
    <3> QED BY <1>2, <1>5, <1>9, <2>1, <3>1, <3>2
  <2> QED BY <1>3, <2>2
<1> QED BY <1>6, <1>7, <1>8, <1>9
LEMMA NumbersAre ==
    ASSUME IsText(doc)
    PROVE  /\ Numbers \in SUBSET (1..Len(doc)) /\ Numbers \in SUBSET Nat
           /\ \A i \in Left : i \in Lines /\ i \in Nat /\ i + 1 \in Numbers /\ Place(i) \in Nat /\ KeptUpTo(Numbers, i + 1) = Place(i) + 1
           /\ \A i, j \in Left : i < j <=> Place(i) < Place(j)
<1>1. Left \subseteq Lines /\ \A i \in Lines : i \in Nat /\ i + 1 \in 1..Len(doc)
  BY LineFacts DEF Left, Lines
<1>2. Numbers \in SUBSET (1..Len(doc)) /\ Numbers \in SUBSET Nat
  BY <1>1 DEF Numbers
<1>3. ASSUME NEW i \in Left
      PROVE  i \in Lines /\ i \in Nat /\ i + 1 \in Numbers /\ Place(i) \in Nat /\ KeptUpTo(Numbers, i + 1) = Place(i) + 1
  <2>1. i \in Lines /\ i \in Nat /\ i + 1 \in Nat /\ i + 1 \in Numbers /\ 0 \in Nat /\ 0 < i + 1
    BY <1>1 DEF Numbers
  <2>2. KeptUpTo(Numbers, 0) < KeptUpTo(Numbers, i + 1)
    BY <1>2, <2>1, KeptUpToGrows
  <2>3. KeptUpTo(Numbers, 0) \in Nat /\ KeptUpTo(Numbers, i + 1) \in Nat
    BY <1>2, <2>1, KeptUpToType
  <2> QED BY <2>1, <2>2, <2>3 DEF Place
<1>4. ASSUME NEW i \in Left, NEW j \in Left, i < j PROVE Place(i) < Place(j)
  <2>1. i + 1 < j + 1 /\ i + 1 \in Nat /\ j + 1 \in Nat /\ j + 1 \in Numbers
    BY <1>3, <1>4
  <2>2. KeptUpTo(Numbers, i + 1) < KeptUpTo(Numbers, j + 1)
    BY <1>2, <2>1, KeptUpToGrows
  <2> QED BY <1>3, <2>2
<1>5. \A i, j \in Left : i < j <=> Place(i) < Place(j)
  <2> SUFFICES ASSUME NEW i \in Left, NEW j \in Left PROVE i < j <=> Place(i) < Place(j)
    OBVIOUS
  <2>1. i \in Nat /\ j \in Nat /\ Place(i) \in Nat /\ Place(j) \in Nat
    BY <1>3
  <2>2. (i < j => Place(i) < Place(j)) /\ (j < i => Place(j) < Place(i))
    BY <1>4
  <2> QED BY <2>1, <2>2
<1> QED BY <1>2, <1>3, <1>5
\* How many lines are left behind i, up to the end of its statement.
LEMMA LeftWithin ==
    ASSUME IsText(doc), Parses, NEW i \in Left
    PROVE  LET behind == {k \in Numbers : i + 1 < k /\ k <= End(i) + 1}
           IN  IsFiniteSet(behind) /\ Cardinality(behind) = Place(End(i)) - Place(i) /\ i <= End(i)
<1>1. End(i) \in Left /\ i \in Lines /\ i \in Nat /\ End(i) \in Nat /\ i <= End(i)
  <2>1. End(i) \in Left /\ i \in Lines
    BY StatementsLeft DEF Left
  <2> QED BY <2>1, LineFacts
<1>2. i + 1 \in Nat /\ End(i) + 1 \in Nat /\ i + 1 <= End(i) + 1 /\ Numbers \in SUBSET Nat
  BY <1>1, NumbersAre
<1>3. /\ KeptUpTo(Numbers, i + 1) = Place(i) + 1 /\ KeptUpTo(Numbers, End(i) + 1) = Place(End(i)) + 1
      /\ Place(i) \in Nat /\ Place(End(i)) \in Nat
  BY <1>1, NumbersAre
<1> DEFINE behind == {k \in Numbers : i + 1 < k /\ k <= End(i) + 1}
<1>4. IsFiniteSet(behind) /\ Cardinality(behind) = KeptUpTo(Numbers, End(i) + 1) - KeptUpTo(Numbers, i + 1)
  BY <1>2, CountBetween
<1> HIDE DEF behind
<1>5. Cardinality(behind) = Place(End(i)) - Place(i)
  BY <1>3, <1>4
<1> QED BY <1>1, <1>4, <1>5 DEF behind

\* What is left is the text without the other lines; a statement is as long as
\* what is left of it.
LEMMA LinesLeft ==
    ASSUME IsText(doc), Parses, NEW left, left = Apply(RemoveUnusedCode)
    PROVE  /\ \A p : p \in 0..(Len(left) - 1) <=> \E i \in Left : p = Place(i)
           /\ \A i \in Left : /\ left[Place(i) + 1].kind = Line(i).kind
                              /\ left[Place(i) + 1].name = Line(i).name
                              /\ left[Place(i) + 1].uses = Line(i).uses
                              /\ Place(i) + left[Place(i) + 1].len - 1 = Place(End(i))
<1> DEFINE list == RemoveUnusedCode
           texts(i) == [k \in DOMAIN list |-> IF list[k].from = i THEN list[k].text ELSE << >>]
           text(i) == FlattenSeq(texts(i))
           deleted(i) == \E k \in DOMAIN list : list[k].from <= i /\ i < list[k].to
           new(i) == (IF deleted(i) THEN 1 ELSE 0)..Len(text(i))
           size(i) == 1 + Cardinality(UNION {{j} \X new(j) : j \in (i + 1)..End(i)})
           line(i) == [Line(i) EXCEPT !.len = IF IsBlock(i) THEN size(i) ELSE @]
           kept(i) == IF i \notin Lines \/ deleted(i) THEN << >>
                      ELSE <<[Line(i) EXCEPT !.len = IF IsBlock(i) THEN size(i) ELSE @]>>
           n == Len(doc) + 1
           parts == [k \in 1..n |-> text(k - 1) \o kept(k - 1)]
<1>1. left = FlattenSeq(parts)
  BY DEF Apply
<1>2. ASSUME NEW i PROVE text(i) = << >>
  <2>1. \A k \in DOMAIN list : list[k].text = << >>
    <3>1. \A d : Statement(d).text = << >>
      BY DEF Statement, Delete
    <3> QED BY <3>1, UnusedRemoved
  <2>2. Len(list) \in Nat /\ DOMAIN list = 1..Len(list)
    <3>1. list \in Seq(Range(list))
      BY UnusedRemoved DEF AllEdits, IsList
    <3> QED BY <3>1
  <2>3. \A k \in 1..Len(list) : texts(i)[k] = << >>
    BY <2>1, <2>2
  <2>4. texts(i) \in Seq(Seq({}))
    <3>1. << >> \in Seq({})
      OBVIOUS
    <3>2. texts(i) \in [1..Len(list) -> Seq({})]
      BY <2>1, <2>2, <3>1
    <3> HIDE DEF texts
    <3> QED BY <2>2, <3>2
  <2> HIDE DEF texts, list
  <2>5. FlattenSeq(texts(i)) \in Seq({})
    BY <2>4, FlattenedEntries
  <2> QED BY <2>5
<1>3. \A i \in Lines : deleted(i) <=> i \notin Left
  BY DEF Left
<1> HIDE DEF text, deleted, list
<1>4. \A i \in Left : i \in Lines /\ {"kind", "name", "uses", "len"} \subseteq DOMAIN Line(i)
  BY LineFacts DEF Left, IsLine
<1>5. ASSUME NEW k \in 1..n PROVE parts[k] = IF k \in Numbers THEN <<line(k - 1)>> ELSE << >>
  <2>1. parts[k] = << >> \o kept(k - 1)
    BY <1>2
  <2>2. k \in Numbers <=> k - 1 \in Left
    <3>1. \A i \in Left : i \in Nat
      BY NumbersAre
    <3>2. Len(doc) \in Nat
      BY LineFacts
    <3>3. k \in Nat /\ (k - 1) + 1 = k
      BY <3>2
    <3> QED BY <3>1, <3>3 DEF Numbers
  <2>3. kept(k - 1) = IF k - 1 \in Left THEN <<line(k - 1)>> ELSE << >>
    BY <1>3, <1>4
  <2> HIDE DEF kept, line, parts
  <2>4. << >> \o kept(k - 1) = kept(k - 1)
    BY <2>3
  <2> QED BY <2>1, <2>2, <2>3, <2>4
<1> DEFINE entry == [k \in Numbers |-> line(k - 1)]
           V == {entry[k] : k \in Numbers}
<1>6. n \in Nat /\ Numbers \in SUBSET (1..n)
  <2>1. Len(doc) \in Nat /\ Numbers \in SUBSET (1..Len(doc))
    BY LineFacts, NumbersAre
  <2>2. 1..Len(doc) \subseteq 1..n
    BY <2>1
  <2> QED BY <2>1, <2>2
<1>7. \A k \in Numbers : entry[k] \in V /\ entry[k] = line(k - 1)
  OBVIOUS
<1>8. DOMAIN parts = 1..n /\ parts = [k \in 1..n |-> parts[k]]
  OBVIOUS
<1> HIDE DEF line, n, parts
<1>9. \A k \in 1..n : parts[k] = IF k \in Numbers THEN <<entry[k]>> ELSE << >>
  BY <1>5, <1>7
<1> HIDE DEF entry, V
<1>10. parts \in Seq(Seq(V)) /\ Len(parts) = n
  <2>1. ASSUME NEW k \in 1..n PROVE parts[k] \in Seq(V)
    <3>1. CASE k \in Numbers
      <4>1. parts[k] = <<entry[k]>> /\ entry[k] \in V
        BY <1>7, <1>9, <3>1
      <4> QED BY <4>1
    <3>2. CASE k \notin Numbers
      <4>1. parts[k] = << >>
        BY <1>9, <3>2
      <4> QED BY <4>1
    <3> QED BY <3>1, <3>2
  <2> QED BY <1>6, <1>8, <2>1
<1>11. /\ left \in Seq(V) /\ Len(left) = KeptUpTo(Numbers, n)
       /\ \A k \in Numbers : KeptUpTo(Numbers, k) \in 1..KeptUpTo(Numbers, n) /\ left[KeptUpTo(Numbers, k)] = entry[k]
       /\ \A p \in 1..KeptUpTo(Numbers, n) : \E k \in Numbers : KeptUpTo(Numbers, k) = p
  <2>1. entry \in [Numbers -> V]
    BY DEF entry, V
  <2>2. HoldsEntries(parts, n, Numbers, entry, V)
    BY <1>6, <1>9, <1>10, <2>1, Zenon DEF HoldsEntries
  <2>3. /\ FlattenSeq(parts) \in Seq(V) /\ Len(FlattenSeq(parts)) = KeptUpTo(Numbers, n)
        /\ \A k \in Numbers : KeptUpTo(Numbers, k) \in 1..KeptUpTo(Numbers, n) /\ FlattenSeq(parts)[KeptUpTo(Numbers, k)] = entry[k]
        /\ \A p \in 1..KeptUpTo(Numbers, n) : \E k \in Numbers : KeptUpTo(Numbers, k) = p
    <3>1. FlattenSeq(parts) \in Seq(V)
      BY <2>2, KeptEntries
    <3>2. Len(FlattenSeq(parts)) = KeptUpTo(Numbers, n)
      BY <2>2, KeptEntries
    <3>3. \A k \in Numbers : KeptUpTo(Numbers, k) \in 1..KeptUpTo(Numbers, n) /\ FlattenSeq(parts)[KeptUpTo(Numbers, k)] = entry[k]
      BY <2>2, KeptEntries
    <3>4. \A p \in 1..KeptUpTo(Numbers, n) : \E k \in Numbers : KeptUpTo(Numbers, k) = p
      BY <2>2, KeptEntries
    <3> QED BY <3>1, <3>2, <3>3, <3>4
  <2> QED BY <1>1, <2>3
<1>12. \A p : p \in 0..(Len(left) - 1) <=> \E i \in Left : p = Place(i)
  <2>1. Len(left) \in Nat
    BY <1>11
  <2>2. ASSUME NEW i \in Left PROVE Place(i) \in 0..(Len(left) - 1)
    <3>1. Place(i) \in Nat /\ Place(i) + 1 \in 1..Len(left)
      BY <1>11, NumbersAre
    <3> QED BY <2>1, <3>1
  <2>3. ASSUME NEW p \in 0..(Len(left) - 1) PROVE \E i \in Left : p = Place(i)
    <3>1. p + 1 \in 1..Len(left) /\ p \in Nat
      BY <2>1
    <3>2. PICK k \in Numbers : KeptUpTo(Numbers, k) = p + 1
      BY <1>11, <3>1
    <3>3. PICK i \in Left : k = i + 1
      BY DEF Numbers
    <3>4. KeptUpTo(Numbers, i + 1) = Place(i) + 1 /\ Place(i) \in Nat
      BY NumbersAre
    <3> QED BY <3>1, <3>2, <3>3, <3>4
  <2> QED BY <2>2, <2>3
<1>13. ASSUME NEW i \in Left PROVE left[Place(i) + 1] = line(i)
  <2>1. i + 1 \in Numbers /\ KeptUpTo(Numbers, i + 1) = Place(i) + 1 /\ i \in Nat
    BY NumbersAre
  <2>2. left[Place(i) + 1] = entry[i + 1] /\ entry[i + 1] = line((i + 1) - 1)
    BY <1>7, <1>11, <2>1
  <2>3. (i + 1) - 1 = i
    BY <2>1
  <2> QED BY <2>2, <2>3
<1>14. ASSUME NEW i \in Left
       PROVE  /\ line(i).kind = Line(i).kind /\ line(i).name = Line(i).name /\ line(i).uses = Line(i).uses
              /\ line(i).len = IF IsBlock(i) THEN size(i) ELSE Line(i).len
  <2> HIDE DEF size
  <2> QED BY <1>4 DEF line
<1> DEFINE behind(i) == {k \in Numbers : i + 1 < k /\ k <= End(i) + 1}
<1>15. ASSUME NEW i \in Left
       PROVE  /\ IsFiniteSet(behind(i)) /\ Cardinality(behind(i)) = Place(End(i)) - Place(i)
              /\ i <= End(i) /\ i \in Nat /\ End(i) \in Nat /\ i \in Lines /\ End(i) \in Lines
              /\ Place(i) \in Nat /\ Place(End(i)) \in Nat
  <2>1. End(i) \in Left
    BY StatementsLeft
  <2> QED BY <2>1, LeftWithin, NumbersAre
<1>16. ASSUME NEW i \in Left, ~IsBlock(i) PROVE Line(i).len = Place(End(i)) - Place(i) + 1
  <2>0. /\ i <= End(i) /\ i \in Nat /\ End(i) \in Nat /\ i \in Lines /\ End(i) \in Lines
        /\ Place(i) \in Nat /\ Place(End(i)) \in Nat
    BY <1>15
  <2>8. \A j \in (i + 1)..End(i) : j \in Lines
    <3>1. Len(doc) \in Nat /\ End(i) <= Len(doc) - 1
      BY <2>0, LineFacts DEF Lines
    <3> QED BY <2>0, <3>1 DEF Lines
  <2>1. behind(i) = (i + 2)..(End(i) + 1)
    <3>1. ASSUME NEW k \in (i + 2)..(End(i) + 1) PROVE k \in behind(i)
      <4>1. k - 1 \in Nat /\ i < k - 1 /\ k - 1 <= End(i) /\ (k - 1) + 1 = k /\ i + 1 < k /\ k <= End(i) + 1
        BY <2>0
      <4>2. k - 1 \in Lines
        BY <2>0, <2>8, <4>1
      <4>3. k - 1 \in Left
        BY <1>16, <4>1, <4>2, StatementsLeft
      <4> QED BY <4>1, <4>3 DEF Numbers
    <3>2. ASSUME NEW k \in behind(i) PROVE k \in (i + 2)..(End(i) + 1)
      <4>1. k \in Nat /\ i + 1 < k /\ k <= End(i) + 1
        BY NumbersAre
      <4> QED BY <2>0, <4>1
    <3> HIDE DEF behind
    <3> QED BY <3>1, <3>2
  <2>2. Cardinality((i + 2)..(End(i) + 1)) = End(i) - i
    <3>1. i + 2 \in Int /\ End(i) + 1 \in Int
      BY <2>0
    <3>2. Cardinality((i + 2)..(End(i) + 1)) = IF i + 2 > End(i) + 1 THEN 0 ELSE (End(i) + 1) - (i + 2) + 1
      BY <3>1, FS_Interval
    <3> QED BY <2>0, <3>2
  <2>3. Line(i).len \in Nat /\ End(i) = i + Line(i).len - 1
    BY <2>0, LineFacts DEF End
  <2> HIDE DEF behind
  <2> QED BY <1>15, <2>1, <2>2, <2>3
<1>17. ASSUME NEW i \in Left PROVE size(i) = Place(End(i)) - Place(i) + 1
  <2> DEFINE U == UNION {{j} \X new(j) : j \in (i + 1)..End(i)}
             f == [k \in behind(i) |-> <<k - 1, 0>>]
  <2>0. /\ i <= End(i) /\ i \in Nat /\ End(i) \in Nat /\ i \in Lines /\ End(i) \in Lines
        /\ Place(i) \in Nat /\ Place(End(i)) \in Nat
    BY <1>15
  <2>8. \A j \in (i + 1)..End(i) : j \in Lines
    <3>1. Len(doc) \in Nat /\ End(i) <= Len(doc) - 1
      BY <2>0, LineFacts DEF Lines
    <3> QED BY <2>0, <3>1 DEF Lines
  <2>1. ASSUME NEW j \in (i + 1)..End(i) PROVE new(j) = IF j \in Left THEN {0} ELSE {}
    <3>1. j \in Lines
      BY <2>8
    <3>2. Len(text(j)) = 0
      BY <1>2
    <3>3. 0..0 = {0} /\ 1..0 = {}
      OBVIOUS
    <3> QED BY <1>3, <3>1, <3>2, <3>3
  <2>2. \A x : x \in U <=> \E j \in (i + 1)..End(i) : j \in Left /\ x = <<j, 0>>
    <3> HIDE DEF new
    <3> QED BY <2>1
  <2>3. \A k \in behind(i) : k - 1 \in Left /\ k - 1 \in (i + 1)..End(i) /\ k \in Nat
    <3> SUFFICES ASSUME NEW k \in behind(i) PROVE k - 1 \in Left /\ k - 1 \in (i + 1)..End(i) /\ k \in Nat
      OBVIOUS
    <3>1. PICK j \in Left : k = j + 1
      BY DEF Numbers
    <3>2. j \in Nat
      BY NumbersAre
    <3>3. i + 1 < k /\ k <= End(i) + 1
      OBVIOUS
    <3>4. k - 1 = j
      BY <3>1, <3>2
    <3>5. j \in (i + 1)..End(i)
      BY <2>0, <3>1, <3>2, <3>3
    <3> QED BY <3>1, <3>2, <3>4, <3>5
  <2>4. \A j \in (i + 1)..End(i) : j \in Left => j + 1 \in behind(i) /\ (j + 1) - 1 = j
    <3> SUFFICES ASSUME NEW j \in (i + 1)..End(i), j \in Left PROVE j + 1 \in behind(i) /\ (j + 1) - 1 = j
      OBVIOUS
    <3>1. i + 1 < j + 1 /\ j + 1 <= End(i) + 1 /\ (j + 1) - 1 = j
      BY <2>0
    <3> QED BY <3>1 DEF Numbers
  <2> HIDE DEF U, behind
  <2>5. f \in Bijection(behind(i), U)
    <3>1. f \in [behind(i) -> U]
      BY <2>2, <2>3
    <3>2. \A x, y \in behind(i) : f[x] = f[y] => x = y
      BY <2>3
    <3>3. \A x \in U : \E k \in behind(i) : f[k] = x
      BY <2>2, <2>4
    <3> QED BY <3>1, <3>2, <3>3, Zenon DEF Bijection, Injection, Surjection, IsInjective
  <2>6. Cardinality(U) = Cardinality(behind(i))
    BY <1>15, <2>5, FS_Bijection DEF ExistsBijection
  <2>7. size(i) = 1 + Cardinality(U)
    BY DEF U
  <2> HIDE DEF size
  <2> QED BY <1>15, <2>6, <2>7
<1> HIDE DEF size, behind
<1>18. ASSUME NEW i \in Left PROVE Place(i) + line(i).len - 1 = Place(End(i))
  <2>1. line(i).len = Place(End(i)) - Place(i) + 1
    BY <1>14, <1>16, <1>17
  <2> QED BY <1>15, <2>1
<1> QED BY <1>12, <1>13, <1>14, <1>18
\* The lines and statements of the document after the removal.
LEMMA LinesAfter ==
    ASSUME IsText(doc), Parses, doc' = Apply(RemoveUnusedCode)
    PROVE  /\ \A p : p \in Lines' <=> \E i \in Left : p = Place(i)
           /\ \A i \in Left : \A p : p = Place(i) =>
                 /\ Line(p)'.kind = Line(i).kind /\ Line(p)'.name = Line(i).name /\ Line(p)'.uses = Line(i).uses
                 /\ IsBlock(p)' = IsBlock(i) /\ End(p)' = Place(End(i))
<1>1. /\ \A p : p \in 0..(Len(doc') - 1) <=> \E i \in Left : p = Place(i)
      /\ \A i \in Left : /\ doc'[Place(i) + 1].kind = Line(i).kind
                         /\ doc'[Place(i) + 1].name = Line(i).name
                         /\ doc'[Place(i) + 1].uses = Line(i).uses
                         /\ Place(i) + doc'[Place(i) + 1].len - 1 = Place(End(i))
  <2>1. \A left : left = Apply(RemoveUnusedCode) =>
           /\ \A p : p \in 0..(Len(left) - 1) <=> \E i \in Left : p = Place(i)
           /\ \A i \in Left : /\ left[Place(i) + 1].kind = Line(i).kind
                              /\ left[Place(i) + 1].name = Line(i).name
                              /\ left[Place(i) + 1].uses = Line(i).uses
                              /\ Place(i) + left[Place(i) + 1].len - 1 = Place(End(i))
    BY LinesLeft
  <2> QED BY <2>1
<1>2. \A p : p \in Lines' <=> \E i \in Left : p = Place(i)
  BY <1>1 DEF Lines
<1>3. ASSUME NEW i \in Left, NEW p, p = Place(i)
      PROVE  /\ Line(p)'.kind = Line(i).kind /\ Line(p)'.name = Line(i).name /\ Line(p)'.uses = Line(i).uses
             /\ IsBlock(p)' = IsBlock(i) /\ End(p)' = Place(End(i))
  <2>1. Line(p)' = doc'[Place(i) + 1]
    BY <1>3 DEF Line
  <2>2. End(p)' = Place(i) + doc'[Place(i) + 1].len - 1
    BY <1>3, <2>1 DEF End
  <2>3. IsBlock(p)' = (Line(p)'.kind \in {"function", "dead"})
    BY DEF IsBlock
  <2>4. Line(p)'.kind = Line(i).kind
    BY <1>1, <2>1
  <2>5. IsBlock(p)' = IsBlock(i)
    BY <2>3, <2>4 DEF IsBlock
  <2> QED BY <1>1, <2>1, <2>2, <2>4, <2>5
<1> QED BY <1>2, <1>3

LEMMA RemovedParses ==
    ASSUME IsText(doc), Parses, doc' = Apply(RemoveUnusedCode)
    PROVE  Parses'
<1> DEFINE rest(i) == IF IsBlock(i) THEN {End(i)} ELSE (i + 1)..End(i)
           next(p) == IF IsBlock(p)' THEN {End(p)'} ELSE (p + 1)..End(p)'
<1>1. /\ {j \in Lines : Line(j).kind = "tail"} = UNION {rest(i) : i \in Lines}
      /\ \A i, j \in Lines : i < j /\ j <= End(i) /\ Line(j).kind # "tail" => End(j) < End(i)
  BY DEF Parses
<1>2. /\ \A p : p \in Lines' <=> \E i \in Left : p = Place(i)
      /\ \A i \in Left : \A p : p = Place(i) =>
            /\ Line(p)'.kind = Line(i).kind
            /\ IsBlock(p)' = IsBlock(i) /\ End(p)' = Place(End(i))
  BY LinesAfter
<1>3. /\ \A i \in Left : i \in Lines /\ i \in Nat /\ Place(i) \in Nat /\ End(i) \in Left
      /\ \A i, j \in Left : i < j <=> Place(i) < Place(j)
  BY NumbersAre, StatementsLeft
<1>4. ASSUME NEW i \in Left, NEW j \in Left, NEW p, NEW q, p = Place(i), q = Place(j)
      PROVE  q \in next(p) <=> j \in rest(i)
  <2>1. /\ i \in Nat /\ j \in Nat /\ End(i) \in Nat /\ End(i) \in Left /\ p \in Nat /\ q \in Nat /\ Place(End(i)) \in Nat
        /\ i < j <=> p < q
        /\ End(i) < j <=> Place(End(i)) < q
        /\ j < End(i) <=> q < Place(End(i))
    BY <1>3, <1>4
  <2>2. IsBlock(p)' = IsBlock(i) /\ End(p)' = Place(End(i))
    BY <1>2, <1>4
  <2>3. CASE IsBlock(i)
    <3>1. next(p) = {Place(End(i))} /\ rest(i) = {End(i)}
      BY <2>2, <2>3
    <3>2. q = Place(End(i)) <=> j = End(i)
      BY <2>1, <1>4
    <3> QED BY <3>1, <3>2
  <2>4. CASE ~IsBlock(i)
    <3>1. next(p) = (p + 1)..Place(End(i)) /\ rest(i) = (i + 1)..End(i)
      BY <2>2, <2>4
    <3> HIDE DEF next, rest
    <3> QED BY <2>1, <3>1
  <2> QED BY <2>3, <2>4
<1>5. ASSUME NEW q \in Lines', Line(q)'.kind = "tail" PROVE \E p \in Lines' : q \in next(p)
  <2>1. PICK j \in Left : q = Place(j)
    BY <1>2
  <2>2. j \in Lines /\ Line(j).kind = "tail"
    BY <1>2, <1>3, <1>5, <2>1
  <2>3. PICK i \in Lines : j \in rest(i)
    BY <1>1, <2>2
  <2>4. i \in Nat /\ j \in Nat /\ End(i) \in Nat /\ i <= End(i)
    BY <2>2, LineFacts
  <2>5. i = j \/ (i < j /\ j <= End(i))
    BY <2>3, <2>4
  <2>6. i \in Left
    BY <2>1, <2>2, <2>5, StatementsLeft
  <2>7. PICK p : p = Place(i)
    OBVIOUS
  <2>8. p \in Lines'
    BY <1>2, <2>6, <2>7
  <2> HIDE DEF next, rest
  <2> QED BY <1>4, <2>1, <2>3, <2>6, <2>7, <2>8
<1>6. ASSUME NEW p \in Lines', NEW q \in next(p) PROVE q \in Lines' /\ Line(q)'.kind = "tail"
  <2>1. PICK i \in Left : p = Place(i)
    BY <1>2
  <2>2. IsBlock(p)' = IsBlock(i) /\ End(p)' = Place(End(i)) /\ End(i) \in Left /\ p \in Nat
    BY <1>2, <1>3, <2>1
  <2>3. Place(End(i)) \in Lines' /\ Place(End(i)) \in Nat
    <3>1. \A x : x = Place(End(i)) => x \in Lines'
      BY <1>2, <2>2
    <3> QED BY <1>3, <2>2, <3>1
  <2>4. q \in Lines'
    <3>1. q = End(p)' \/ q \in (p + 1)..End(p)'
      OBVIOUS
    <3> HIDE DEF next
    <3>2. CASE q = End(p)'
      BY <2>2, <2>3, <3>2
    <3>3. CASE q \in (p + 1)..End(p)'
      <4>1. q \in (p + 1)..Place(End(i))
        BY <2>2, <3>3
      <4>2. q \in Nat /\ q <= Place(End(i))
        BY <2>2, <2>3, <4>1
      <4> QED BY <2>3, <4>2 DEF Lines
    <3> QED BY <3>1, <3>2, <3>3
  <2>5. PICK j \in Left : q = Place(j)
    BY <1>2, <2>4
  <2> HIDE DEF next, rest
  <2>6. j \in rest(i)
    BY <1>4, <2>1, <2>5
  <2>7. Line(j).kind = "tail"
    BY <1>1, <1>3, <2>6
  <2> QED BY <1>2, <2>4, <2>5, <2>7
<1>7. {q \in Lines' : Line(q)'.kind = "tail"} = UNION {next(p) : p \in Lines'}
  <2> HIDE DEF next
  <2> QED BY <1>5, <1>6
<1>8. ASSUME NEW p \in Lines', NEW q \in Lines', p < q, q <= End(p)', Line(q)'.kind # "tail"
      PROVE  End(q)' < End(p)'
  <2>1. PICK i \in Left, j \in Left : p = Place(i) /\ q = Place(j)
    BY <1>2
  <2>2. /\ End(p)' = Place(End(i)) /\ End(q)' = Place(End(j)) /\ Line(j).kind # "tail"
        /\ End(i) \in Left /\ End(j) \in Left /\ i \in Lines /\ j \in Lines
    BY <1>2, <1>3, <1>8, <2>1
  <2>3. i < j
    BY <1>3, <1>8, <2>1
  <2>4. j <= End(i)
    <3>1. End(i) < j <=> Place(End(i)) < q
      BY <1>3, <2>1, <2>2
    <3>2. q \in Nat /\ Place(End(i)) \in Nat /\ j \in Nat /\ End(i) \in Nat
      BY <1>3, <2>1, <2>2
    <3> QED BY <1>8, <2>2, <3>1, <3>2
  <2>5. End(j) < End(i)
    BY <1>1, <2>2, <2>3, <2>4
  <2>6. Place(End(j)) < Place(End(i))
    BY <1>3, <2>2, <2>5
  <2> QED BY <2>2, <2>6
<1> QED BY <1>7, <1>8 DEF Parses

LEMMA RemovedKnows ==
    ASSUME IsText(doc), Parses, doc' = Apply(RemoveUnusedCode)
    PROVE  UnknownNames' \subseteq UnknownNames
<1>2. /\ \A p : p \in Lines' <=> \E i \in Left : p = Place(i)
      /\ \A i \in Left : \A p : p = Place(i) =>
            /\ Line(p)'.name = Line(i).name /\ Line(p)'.uses = Line(i).uses
            /\ IsBlock(p)' = IsBlock(i) /\ End(p)' = Place(End(i))
  BY LinesAfter
<1>3. /\ \A i \in Left : i \in Lines /\ i \in Nat /\ Place(i) \in Nat /\ End(i) \in Left
      /\ \A i, j \in Left : i < j <=> Place(i) < Place(j)
  BY NumbersAre, StatementsLeft
<1>4. ASSUME NEW i \in Left, NEW j \in Left, NEW p, NEW q, p = Place(i), q = Place(j)
      PROVE  p \in Around(q)' <=> i \in Around(j)
  <2>1. /\ i \in Nat /\ j \in Nat /\ End(i) \in Nat /\ End(i) \in Left /\ p \in Nat /\ q \in Nat /\ Place(End(i)) \in Nat
        /\ i < j <=> p < q
        /\ End(i) < j <=> Place(End(i)) < q
    BY <1>3, <1>4
  <2>2. p \in Lines' /\ IsBlock(p)' = IsBlock(i) /\ End(p)' = Place(End(i)) /\ i \in Lines
    BY <1>2, <1>3, <1>4
  <2>3. j <= End(i) <=> q <= Place(End(i))
    BY <2>1
  <2>4. p \in Around(q)' <=> p \in Lines' /\ IsBlock(p)' /\ p < q /\ q <= End(p)'
    BY DEF Around
  <2>5. i \in Around(j) <=> i \in Lines /\ IsBlock(i) /\ i < j /\ j <= End(i)
    BY DEF Around
  <2> QED BY <2>1, <2>2, <2>3, <2>4, <2>5
<1>5. ASSUME NEW q \in Lines', Line(q)'.uses # "", Binders(q)' = {}, Line(q)'.uses \notin UnknownNames PROVE FALSE
  <2>1. PICK j \in Left : q = Place(j)
    BY <1>2
  <2>2. Line(j).uses = Line(q)'.uses /\ j \in Lines
    BY <1>2, <1>3, <2>1
  <2>3. Binders(j) # {}
    BY <1>5, <2>2 DEF UnknownNames
  <2> DEFINE m == Max(Binders(j))
  <2>4. m \in Binders(j)
    <3>1. Binders(j) \subseteq Lines /\ Lines \subseteq Nat /\ IsFiniteSet(Lines)
      BY LineFacts DEF Binders
    <3>2. IsFiniteSet(Binders(j))
      BY <3>1, FS_Subset
    <3> QED BY <2>3, <3>1, <3>2, FiniteMax
  <2>5. m \in Lines /\ Line(m).name = Line(j).uses /\ m < j /\ Around(m) \subseteq Around(j)
    BY <2>4 DEF Binders
  <2>6. m \notin Unused
    BY <2>2, <2>3 DEF Unused
  <2> HIDE DEF m
  <2>7. m \in Left
    <3>1. SUFFICES ASSUME m \notin Left PROVE FALSE
      OBVIOUS
    <3>2. PICK d \in Lines : IsBlock(d) /\ d < m /\ m <= End(d) /\ (d..End(d)) \intersect Left = {}
      BY <1>5, <2>2, <2>5, <2>6, <3>1, StatementsLeft
    <3>3. d \in Around(j)
      BY <2>5, <3>2 DEF Around
    <3>4. d < j /\ j <= End(d) /\ d \in Nat /\ End(d) \in Nat /\ j \in Nat
      BY <1>3, <3>2, <3>3, LineFacts DEF Around
    <3>5. j \in d..End(d)
      BY <3>4
    <3> QED BY <3>2, <3>5
  <2>8. PICK p : p = Place(m)
    OBVIOUS
  <2>9. p \in Lines' /\ Line(p)'.name = Line(q)'.uses /\ p < q
    BY <1>2, <1>3, <2>1, <2>2, <2>5, <2>7, <2>8
  <2>10. Around(p)' \subseteq Around(q)'
    <3> SUFFICES ASSUME NEW k \in Around(p)' PROVE k \in Around(q)'
      OBVIOUS
    <3>1. k \in Lines'
      BY DEF Around
    <3>2. PICK i \in Left : k = Place(i)
      BY <1>2, <3>1
    <3>3. i \in Around(m)
      BY <1>4, <2>7, <2>8, <3>2
    <3> QED BY <1>4, <2>1, <2>5, <3>2, <3>3
  <2>11. p \in Binders(q)'
    BY <2>9, <2>10 DEF Binders
  <2> QED BY <1>5, <2>11
<1> QED BY <1>5 DEF UnknownNames

\* What "Remove all unused code" leaves parses and uses no name that was bound
\* before and is not bound any more, for every document that parses: statements
\* go as a whole, and a binding goes only if it is unused or with all its uses.
THEOREM RemovalLeavesTheRest == Spec => RemovalKeepsTheRest
<1>1. Init => IsText(doc)
  BY EditAssumption DEF Init
<1>2. IsText(doc) /\ [Next]_vars => IsText(doc)'
  BY NextKeepsText
<1>3. IsText(doc) /\ [Next]_vars => [(doc' # doc /\ Parses /\ doc' = Apply(RemoveUnusedCode))
                                       => (Parses' /\ UnknownNames' \subseteq UnknownNames)]_doc
  BY RemovedParses, RemovedKnows
<1> QED BY <1>1, <1>2, <1>3, PTL DEF Spec, RemovalKeepsTheRest
=============================================================================
