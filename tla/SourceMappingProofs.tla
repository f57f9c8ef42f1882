------------------------ MODULE SourceMappingProofs ------------------------
(***************************************************************************)
(* The mapping between a source and the text that the plugins make of it,  *)
(* for any bytes, sources and replacements and any number of edits: what   *)
(* no edit replaces stays where the lengths of the texts before it put it, *)
(* and positions map to it and back wherever the mappings keep the column. *)
(***************************************************************************)
EXTENDS SourceMapping, SequenceTheorems, FiniteSetTheorems, Lemmas

Text == Seq(Byte)

\* The positions of a text, and those the mappings count with.
Pos == [line : Nat, column : Nat]

IntPos == [line : Int, column : Int]

IntRange == [begin : IntPos, end : IntPos]

Delta == [lines : Int, columns : Int, line : Int]

Zero == Position(0, 0)

\* The position as far behind p as z is behind the start of a text.
Plus(p, z) ==
    IF z.line = 0 THEN Position(p.line, p.column + z.column) ELSE Position(p.line + z.line, z.column)

-----------------------------------------------------------------------------
(* Positions                                                               *)

LEMMA PositionFields ==
    /\ \A l, c : Position(l, c).line = l /\ Position(l, c).column = c
    /\ \A p \in IntPos : p = Position(p.line, p.column) /\ p.line \in Int /\ p.column \in Int
    /\ \A l \in Int, c \in Int : Position(l, c) \in IntPos
    /\ \A l \in Nat, c \in Nat : Position(l, c) \in Pos
    /\ \A p \in Pos : p \in IntPos /\ p.line \in Nat /\ p.column \in Nat
  BY DEF Position, IntPos, Pos

LEMMA SamePosition ==
    ASSUME NEW p \in IntPos, NEW q \in IntPos, p.line = q.line, p.column = q.column
    PROVE  p = q
  BY DEF IntPos

LEMMA PlusType ==
    ASSUME NEW z \in Pos
    PROVE  /\ \A p \in Pos : Plus(p, z) \in Pos
           /\ \A p \in IntPos : Plus(p, z) \in IntPos
  BY DEF Plus, Position, Pos, IntPos

LEMMA PlusZero ==
    ASSUME NEW p \in IntPos
    PROVE  /\ Zero \in Pos /\ Plus(p, Zero) = p
           /\ p \in Pos => Plus(Zero, p) = p
  BY DEF Plus, Position, Zero, Pos, IntPos

LEMMA PlusFields ==
    ASSUME NEW p, NEW z
    PROVE  /\ z.line = 0 => Plus(p, z).line = p.line /\ Plus(p, z).column = p.column + z.column
           /\ z.line # 0 => Plus(p, z).line = p.line + z.line /\ Plus(p, z).column = z.column
  BY DEF Plus, Position

LEMMA AdvanceType ==
    ASSUME NEW p \in Pos, NEW byte
    PROVE  Advance(p, byte) \in Pos /\ Precedes(p, Advance(p, byte))
  BY DEF Advance, Position, Pos, Precedes

LEMMA AdvancePlus ==
    ASSUME NEW p \in Pos, NEW z \in Pos, NEW byte
    PROVE  Advance(Plus(p, z), byte) = Plus(p, Advance(z, byte))
  <1>1. CASE byte = LF
    BY <1>1 DEF Advance, Plus, Position, Pos
  <1>2. CASE byte # LF
    BY <1>2 DEF Advance, Plus, Position, Pos
  <1>. QED
    BY <1>1, <1>2

LEMMA Order ==
    /\ \A p \in IntPos, q \in IntPos, r \in IntPos :
           /\ Precedes(p, q) /\ Precedes(q, r) => Precedes(p, r)
           /\ Precedes(p, q) /\ ~Precedes(r, q) => Precedes(p, r)
           /\ ~Precedes(q, p) /\ Precedes(q, r) => Precedes(p, r)
           /\ ~Precedes(q, p) /\ ~Precedes(r, q) => ~Precedes(r, p)
    /\ \A p \in IntPos, q \in IntPos :
           /\ Precedes(p, q) => ~Precedes(q, p) /\ p # q
           /\ ~Precedes(p, q) /\ ~Precedes(q, p) => p = q
           /\ ~Precedes(q, p) => p.line <= q.line
    /\ \A p \in IntPos : ~Precedes(p, p)
  BY DEF Precedes, IntPos

LEMMA PlusIsBehind ==
    ASSUME NEW p \in IntPos, NEW z \in Pos
    PROVE  ~Precedes(Plus(p, z), p)
  BY DEF Plus, Position, Precedes, IntPos, Pos

-----------------------------------------------------------------------------
(* The positions of the places of a text                                   *)

ArePositions(f, s) ==
    /\ f \in [0..Len(s) -> Pos]
    /\ f[0] = Zero
    /\ \A k \in 1..Len(s) : f[k] = Advance(f[k - 1], s[k])

LEMMA PositionsExist ==
    ASSUME NEW s \in Text
    PROVE  \E f : ArePositions(f, s)
  <1> DEFINE N == Len(s)
             step == [p \in (1..N) \X Pos |-> Advance(p[2], s[p[1]])]
  <1>1. N \in Nat /\ Zero \in Pos
    BY DEF Text, Zero, Pos, Position
  <1>2. step \in [(1..N) \X Pos -> Pos]
    BY AdvanceType
  <1>3. \A k \in 1..N, p \in Pos : step[<<k, p>>] = Advance(p, s[k])
    OBVIOUS
  <1>4. PICK f \in [0..N -> Pos] : FollowsStep(f, N, Zero, step)
    <2>. HIDE DEF N, step
    <2>. QED
      BY <1>1, <1>2, StepRecursion
  <1>5. ASSUME NEW k \in 1..N
        PROVE  f[k] = Advance(f[k - 1], s[k])
    <2>0. k - 1 \in 0..N
      BY <1>1
    <2>1. f[k] = step[<<k, f[k - 1]>>] /\ f[k - 1] \in Pos
      BY <1>4, <2>0 DEF FollowsStep
    <2>. HIDE DEF step
    <2>. QED
      BY <1>3, <2>1
  <1>. HIDE DEF step
  <1>. QED
    BY <1>4, <1>5 DEF ArePositions, FollowsStep

LEMMA PositionOfIs ==
    ASSUME NEW s \in Text, NEW f, ArePositions(f, s), NEW k \in 0..Len(s)
    PROVE  PositionOf(s, k) = f[k]
  <1> DEFINE Def(g) == [i \in 0..Len(s) |-> IF i = 0 THEN Position(0, 0) ELSE Advance(g[i - 1], s[i])]
             X == CHOOSE g : g = Def(g)
             P == {i \in Nat : X[i] = f[i]}
  <1>1. Len(s) \in Nat
    BY DEF Text
  <1>2. f = Def(f)
    BY <1>1 DEF ArePositions, Zero
  <1>3. PositionOf(s, k) = X[k]
    BY DEF PositionOf
  <1>4. \A g : /\ Def(g)[0] = Zero
               /\ \A i \in 1..Len(s) : Def(g)[i] = Advance(g[i - 1], s[i])
    BY <1>1 DEF Zero
  <1>. HIDE DEF Def
  <1>5. X = Def(X)
    BY <1>2
  <1>. HIDE DEF X
  <1>6. 0 \in P
    BY <1>4, <1>5 DEF ArePositions
  <1>7. ASSUME NEW i \in 1..Len(s), i - 1 \in P
        PROVE  i \in P
    BY <1>1, <1>4, <1>5, <1>7 DEF ArePositions
  <1>8. 0..Len(s) \subseteq P
    <2>. HIDE DEF P
    <2>. QED
      BY <1>1, <1>6, <1>7, StepInduction
  <1>. QED
    BY <1>1, <1>3, <1>8

LEMMA PositionSteps ==
    ASSUME NEW s \in Text
    PROVE  /\ Len(s) \in Nat
           /\ PositionOf(s, 0) = Zero
           /\ \A k \in 0..Len(s) : PositionOf(s, k) \in Pos
           /\ \A k \in 1..Len(s) : PositionOf(s, k) = Advance(PositionOf(s, k - 1), s[k])
  <1>1. PICK f : ArePositions(f, s)
    BY PositionsExist
  <1>2. Len(s) \in Nat
    BY DEF Text
  <1>3. \A k \in 0..Len(s) : PositionOf(s, k) = f[k]
    BY <1>1, PositionOfIs
  <1>4. 0 \in 0..Len(s) /\ \A k \in 1..Len(s) : k \in 0..Len(s) /\ k - 1 \in 0..Len(s)
    BY <1>2
  <1>. QED
    BY <1>1, <1>2, <1>3, <1>4 DEF ArePositions

\* A place further on has a later position.
LEMMA PositionsIncrease ==
    ASSUME NEW s \in Text, NEW j \in 0..Len(s), NEW k \in 0..Len(s)
    PROVE  /\ j < k <=> Precedes(PositionOf(s, j), PositionOf(s, k))
           /\ PositionOf(s, j) = PositionOf(s, k) => j = k
  <1>1. Len(s) \in Nat
    BY PositionSteps
  <1>2. \A i \in 0..Len(s) : PositionOf(s, i) \in IntPos
    BY PositionSteps, PositionFields
  <1>3. ASSUME NEW i \in 0..Len(s), NEW n \in 0..Len(s), i < n
        PROVE  Precedes(PositionOf(s, i), PositionOf(s, n))
    <2> DEFINE P == {m \in Nat : i < m => Precedes(PositionOf(s, i), PositionOf(s, m))}
    <2>1. 0 \in P
      OBVIOUS
    <2>2. ASSUME NEW m \in 1..Len(s), m - 1 \in P
          PROVE  m \in P
      <3>1. m \in 0..Len(s) /\ m - 1 \in 0..Len(s) /\ m \in Nat
        BY <1>1
      <3>2. Precedes(PositionOf(s, m - 1), PositionOf(s, m))
        BY <3>1, PositionSteps, AdvanceType
      <3>3. CASE i < m - 1
        <4>1. Precedes(PositionOf(s, i), PositionOf(s, m - 1))
          BY <2>2, <3>3
        <4>. QED
          BY <1>2, <3>1, <3>2, <4>1, Order
      <3>4. CASE i = m - 1
        BY <3>1, <3>2, <3>4
      <3>5. CASE i > m - 1
        BY <3>1, <3>5
      <3>. QED
        BY <3>1, <3>3, <3>4, <3>5
    <2>3. 0..Len(s) \subseteq P
      <3>. HIDE DEF P
      <3>. QED
        BY <1>1, <2>1, <2>2, StepInduction
    <2>. QED
      BY <1>3, <2>3
  <1>4. j < k \/ k < j \/ j = k
    BY <1>1
  <1>5. PositionOf(s, j) \in IntPos /\ PositionOf(s, k) \in IntPos
    BY <1>2
  <1>6. j < k => Precedes(PositionOf(s, j), PositionOf(s, k))
    BY <1>3
  <1>7. k < j => Precedes(PositionOf(s, k), PositionOf(s, j))
    BY <1>3
  <1>8. j = k => ~Precedes(PositionOf(s, j), PositionOf(s, k))
    BY <1>5, Order
  <1>9. k < j => ~Precedes(PositionOf(s, j), PositionOf(s, k)) /\ ~(j < k)
    BY <1>1, <1>5, <1>7, Order
  <1>10. Precedes(PositionOf(s, j), PositionOf(s, k)) \/ Precedes(PositionOf(s, k), PositionOf(s, j))
         => PositionOf(s, j) # PositionOf(s, k)
    BY <1>5, Order
  <1>. QED
    BY <1>1, <1>4, <1>6, <1>7, <1>8, <1>9, <1>10

LEMMA OffsetOfPosition ==
    ASSUME NEW s \in Text, NEW k \in 0..Len(s)
    PROVE  OffsetOf(s, PositionOf(s, k)) = k
  <1>1. \A j \in 0..Len(s) : PositionOf(s, j) = PositionOf(s, k) => j = k
    BY PositionsIncrease
  <1>. QED
    BY <1>1 DEF OffsetOf

\* Places as far behind p and q as each other.
Parallel(p, p1, q, q1) == \E z \in Pos : p1 = Plus(p, z) /\ q1 = Plus(q, z)

\* The same bytes take positions equally far.
LEMMA SameBytes ==
    ASSUME NEW s \in Text, NEW t \in Text, NEW a \in 0..Len(s), NEW c \in 0..Len(t),
           NEW n \in Nat, a + n <= Len(s), c + n <= Len(t),
           \A k \in 1..n : s[a + k] = t[c + k]
    PROVE  Parallel(PositionOf(s, a), PositionOf(s, a + n), PositionOf(t, c), PositionOf(t, c + n))
  <1> DEFINE P == {m \in Nat : Parallel(PositionOf(s, a), PositionOf(s, a + m),
                                        PositionOf(t, c), PositionOf(t, c + m))}
  <1>1. Len(s) \in Nat /\ Len(t) \in Nat /\ PositionOf(s, a) \in Pos /\ PositionOf(t, c) \in Pos
    BY PositionSteps
  <1>2. 0 \in P
    <2>1. PositionOf(s, a) = Plus(PositionOf(s, a), Zero) /\ PositionOf(t, c) = Plus(PositionOf(t, c), Zero)
          /\ Zero \in Pos
      BY <1>1, PlusZero, PositionFields
    <2>2. a + 0 = a /\ c + 0 = c
      BY <1>1
    <2>. QED
      BY <2>1, <2>2 DEF Parallel
  <1>3. ASSUME NEW m \in 1..n, m - 1 \in P
        PROVE  m \in P
    <2>1. PICK z \in Pos : /\ PositionOf(s, a + (m - 1)) = Plus(PositionOf(s, a), z)
                           /\ PositionOf(t, c + (m - 1)) = Plus(PositionOf(t, c), z)
      BY <1>3 DEF Parallel
    <2>2. a + m \in 1..Len(s) /\ c + m \in 1..Len(t) /\ (a + m) - 1 = a + (m - 1) /\ (c + m) - 1 = c + (m - 1)
      BY <1>1
    <2>3. /\ PositionOf(s, a + m) = Advance(PositionOf(s, (a + m) - 1), s[a + m])
          /\ PositionOf(t, c + m) = Advance(PositionOf(t, (c + m) - 1), t[c + m])
      BY <2>2, PositionSteps
    <2>4. /\ PositionOf(s, a + m) = Plus(PositionOf(s, a), Advance(z, s[a + m]))
          /\ PositionOf(t, c + m) = Plus(PositionOf(t, c), Advance(z, t[c + m]))
      BY <1>1, <2>1, <2>2, <2>3, AdvancePlus
    <2>5. s[a + m] = t[c + m] /\ Advance(z, s[a + m]) \in Pos /\ m \in Nat
      BY AdvanceType
    <2>. QED
      BY <2>4, <2>5 DEF Parallel
  <1>4. 0..n \subseteq P
    <2>. HIDE DEF P
    <2>. QED
      BY <1>2, <1>3, StepInduction
  <1>. QED
    BY <1>4

-----------------------------------------------------------------------------
(* The deltas                                                              *)

LEMMA MovedFields ==
    ASSUME NEW d, NEW p
    PROVE  /\ Moved(d, p).line = p.line + d.lines
           /\ p.line = d.line => Moved(d, p).column = p.column + d.columns
           /\ p.line # d.line => Moved(d, p).column = p.column + 0
  BY DEF Moved, Position

LEMMA MovedType ==
    ASSUME NEW d \in Delta, NEW p \in IntPos
    PROVE  Moved(d, p) \in IntPos
  BY DEF Moved, Position, Delta, IntPos

LEMMA AddedType ==
    ASSUME NEW d \in Delta, NEW old \in IntRange, NEW new \in IntRange
    PROVE  Added(d, old, new) \in Delta
  <1>1. /\ old.begin.line \in Int /\ old.begin.column \in Int /\ old.end.line \in Int /\ old.end.column \in Int
        /\ new.begin.line \in Int /\ new.begin.column \in Int /\ new.end.line \in Int /\ new.end.column \in Int
        /\ d.lines \in Int /\ d.columns \in Int /\ d.line \in Int
    BY DEF IntRange, IntPos, Delta
  <1>. QED
    BY <1>1 DEF Added, Delta

LEMMA AddedFields ==
    ASSUME NEW d, NEW old, NEW new
    PROVE  LET a == Added(d, old, new)
               columns == (new.end.column - new.begin.column) - (old.end.column - old.begin.column)
           IN /\ a.lines = d.lines + (new.end.line - new.begin.line) - (old.end.line - old.begin.line)
              /\ old.begin.line = old.end.line /\ new.begin.line = new.end.line =>
                     /\ a.line = old.begin.line
                     /\ old.begin.line = d.line => a.columns = d.columns + columns
                     /\ old.begin.line # d.line => a.columns = columns
              /\ ~(old.begin.line = old.end.line /\ new.begin.line = new.end.line) => a.line = -1
  BY DEF Added

\* The deltas say how far the line moved on which an edit ends, from p to q, and if
\* they know of a line then of this one.
Follows(d, p, q) ==
    /\ d.lines = q.line - p.line
    /\ d.line = -1 \/ d.line = p.line

\* They know the column, too.
Exact(d, p, q) == Moved(d, p) = q

LEMMA MovedBehind ==
    ASSUME NEW d \in Delta, NEW p \in Pos, NEW q \in Pos, NEW p1, NEW q1,
           Follows(d, p, q), Parallel(p, p1, q, q1)
    PROVE  /\ p1 \in Pos /\ q1 \in Pos
           /\ Moved(d, p1).line = q1.line
           /\ Exact(d, p, q) \/ p1.line # p.line => Moved(d, p1) = q1
           /\ p1.line - p.line = q1.line - q.line
           /\ ~Precedes(p1, p) /\ ~Precedes(q1, q)
  <1>1. PICK z \in Pos : p1 = Plus(p, z) /\ q1 = Plus(q, z)
    BY DEF Parallel
  <1>2. p1 \in Pos /\ q1 \in Pos /\ ~Precedes(p1, p) /\ ~Precedes(q1, q)
    BY <1>1, PlusType, PlusIsBehind, PositionFields
  <1>3. /\ z.line \in Nat /\ z.column \in Nat /\ p.line \in Nat /\ p.column \in Nat
        /\ q.line \in Nat /\ q.column \in Nat /\ p1.line \in Nat /\ p1.column \in Nat
        /\ q1.line \in Nat /\ q1.column \in Nat
        /\ d.lines \in Int /\ d.columns \in Int /\ d.line \in Int
    BY <1>2, PositionFields DEF Delta
  <1>4. Moved(d, p1) \in IntPos /\ q1 \in IntPos
    BY <1>2, MovedType, PositionFields
  <1>5. Moved(d, p1).line = p1.line + d.lines /\ d.lines = q.line - p.line
    BY MovedFields DEF Follows
  <1>6. CASE z.line = 0
    <2>1. /\ p1.line = p.line /\ p1.column = p.column + z.column
          /\ q1.line = q.line /\ q1.column = q.column + z.column
      BY <1>1, <1>6, PlusFields
    <2>2. ASSUME Exact(d, p, q)
          PROVE  Moved(d, p1).column = q1.column
      <3>1. CASE p.line = d.line
        <4>1. Moved(d, p).column = p.column + d.columns /\ Moved(d, p1).column = p1.column + d.columns
          BY <2>1, <3>1, MovedFields
        <4>. QED
          BY <1>3, <2>1, <2>2, <4>1 DEF Exact
      <3>2. CASE p.line # d.line
        <4>1. Moved(d, p).column = p.column + 0 /\ Moved(d, p1).column = p1.column + 0
          BY <2>1, <3>2, MovedFields
        <4>. QED
          BY <1>3, <2>1, <2>2, <4>1 DEF Exact
      <3>. QED
        BY <3>1, <3>2
    <2>3. Moved(d, p1).line = q1.line
      BY <1>3, <1>5, <2>1
    <2>4. Exact(d, p, q) => Moved(d, p1) = q1
      BY <1>4, <2>2, <2>3, SamePosition
    <2>. QED
      BY <1>2, <1>3, <2>1, <2>3, <2>4
  <1>7. CASE z.line # 0
    <2>1. /\ p1.line = p.line + z.line /\ p1.column = z.column
          /\ q1.line = q.line + z.line /\ q1.column = z.column
      BY <1>1, <1>7, PlusFields
    <2>2. p1.line # d.line
      BY <1>3, <1>7, <2>1 DEF Follows
    <2>3. Moved(d, p1).column = q1.column
      BY <1>3, <2>1, <2>2, MovedFields
    <2>4. Moved(d, p1).line = q1.line
      BY <1>3, <1>5, <2>1
    <2>5. Moved(d, p1) = q1
      BY <1>4, <2>3, <2>4, SamePosition
    <2>. QED
      BY <1>2, <1>3, <2>1, <2>4, <2>5
  <1>. QED
    BY <1>6, <1>7

\* An edit that replaces what is from o to e in the source, and whose text is from b to
\* r in the transformed text.
Edited(o, e, b, r, size) ==
    o \in Pos /\ e \in Pos /\ b \in Pos /\ size \in Pos /\ r = Plus(b, size) /\ ~Precedes(e, o)

\* What the pass takes for the range of the text.
Claims(d, o, size, c) ==
    c \in IntRange /\ c.begin = Moved(d, o) /\ c.end = Plus(c.begin, size)

OneLine(o, e, size) == o.line = e.line /\ size.line = 0

Between(o, e) == [begin |-> o, end |-> e]

LEMMA EditedTypes ==
    ASSUME NEW o, NEW e, NEW b, NEW r, NEW size, Edited(o, e, b, r, size)
    PROVE  /\ o.line \in Nat /\ o.column \in Nat /\ e.line \in Nat /\ e.column \in Nat
           /\ b.line \in Nat /\ b.column \in Nat /\ r.line \in Nat /\ r.column \in Nat
           /\ size.line \in Nat /\ size.column \in Nat
           /\ o \in IntPos /\ e \in IntPos /\ b \in IntPos /\ r \in IntPos /\ r \in Pos
           /\ o.line <= e.line /\ b.line <= r.line
           /\ ~Precedes(r, b)
           /\ Between(o, e) \in IntRange
           /\ Between(o, e).begin = o /\ Between(o, e).end = e
  <1>1. o \in Pos /\ e \in Pos /\ b \in Pos /\ size \in Pos /\ r = Plus(b, size) /\ ~Precedes(e, o)
    BY DEF Edited
  <1>2. r \in Pos
    BY <1>1, PlusType
  <1>3. o \in IntPos /\ e \in IntPos /\ b \in IntPos /\ r \in IntPos
    BY <1>1, <1>2, PositionFields
  <1>4. ~Precedes(r, b)
    BY <1>1, <1>3, PlusIsBehind
  <1>5. o.line <= e.line /\ b.line <= r.line
    BY <1>1, <1>3, <1>4, Order
  <1>6. /\ o.line \in Nat /\ o.column \in Nat /\ e.line \in Nat /\ e.column \in Nat
        /\ b.line \in Nat /\ b.column \in Nat /\ r.line \in Nat /\ r.column \in Nat
        /\ size.line \in Nat /\ size.column \in Nat
    BY <1>1, <1>2, PositionFields
  <1>7. /\ Between(o, e) \in IntRange
        /\ Between(o, e).begin = o /\ Between(o, e).end = e
    BY <1>3 DEF Between, IntRange
  <1>. QED
    BY <1>2, <1>3, <1>4, <1>5, <1>6, <1>7

\* What the pass takes for the range of an edit's text has the right lines, and is
\* right unless the columns were dropped before.
LEMMA ClaimedRange ==
    ASSUME NEW o, NEW e, NEW b, NEW r, NEW size, Edited(o, e, b, r, size),
           NEW d \in Delta, NEW p \in Pos, NEW q \in Pos,
           Follows(d, p, q), Parallel(p, o, q, b),
           NEW c, Claims(d, o, size, c)
    PROVE  /\ c.begin.line = b.line /\ c.end.line = r.line
           /\ c.begin \in IntPos /\ c.end \in IntPos /\ ~Precedes(c.end, c.begin)
           /\ Exact(d, p, q) \/ o.line # p.line => c.begin = b
           /\ c.begin = b \/ size.line # 0 => c.end = r
           /\ size.line = 0 => c.end.column = c.begin.column + size.column
  <1>1. /\ c.begin.line = b.line
        /\ Exact(d, p, q) \/ o.line # p.line => c.begin = b
    BY MovedBehind DEF Claims
  <1>2. c.begin \in IntPos /\ c.end \in IntPos
    BY DEF Claims, IntRange
  <1>3. r = Plus(b, size) /\ c.end = Plus(c.begin, size) /\ size \in Pos
    BY DEF Edited, Claims
  <1>4. ~Precedes(c.end, c.begin)
    BY <1>2, <1>3, PlusIsBehind
  <1>5. c.end.line = r.line
    BY <1>1, <1>3, PlusFields
  <1>6. ASSUME size.line # 0
        PROVE  c.end = r
    <2>1. c.end.column = r.column
      BY <1>3, <1>6, PlusFields
    <2>. QED
      BY <1>2, <1>5, <2>1, SamePosition, EditedTypes
  <1>7. size.line = 0 => c.end.column = c.begin.column + size.column
    BY <1>3, PlusFields
  <1>. QED
    BY <1>1, <1>2, <1>3, <1>4, <1>5, <1>6, <1>7

\* The deltas behind an edit follow its end, and know its column if they did before it
\* and it stays on one line.
LEMMA DeltaStep ==
    ASSUME NEW o, NEW e, NEW b, NEW r, NEW size, Edited(o, e, b, r, size),
           NEW d \in Delta, NEW p \in Pos, NEW q \in Pos,
           Follows(d, p, q), Parallel(p, o, q, b),
           NEW c, Claims(d, o, size, c),
           NEW d1, d1 = Added(d, Between(o, e), c)
    PROVE  /\ d1 \in Delta
           /\ Follows(d1, e, r)
           /\ OneLine(o, e, size) => d1.line = e.line
           /\ ~OneLine(o, e, size) => d1.line = -1
           /\ OneLine(o, e, size) /\ c.begin = b => Exact(d1, e, r)
  <1> DEFINE f == Between(o, e)
             columns == (c.end.column - c.begin.column) - (f.end.column - f.begin.column)
  <1>0. f \in IntRange /\ c \in IntRange /\ f.begin = o /\ f.end = e
    BY EditedTypes DEF Claims
  <1>1. d1 \in Delta
    BY <1>0, AddedType
  <1>2. /\ d1.lines = d.lines + (c.end.line - c.begin.line) - (f.end.line - f.begin.line)
        /\ f.begin.line = f.end.line /\ c.begin.line = c.end.line =>
               /\ d1.line = f.begin.line
               /\ f.begin.line = d.line => d1.columns = d.columns + columns
               /\ f.begin.line # d.line => d1.columns = columns
        /\ ~(f.begin.line = f.end.line /\ c.begin.line = c.end.line) => d1.line = -1
    BY AddedFields
  <1>3. /\ o.line \in Nat /\ o.column \in Nat /\ e.line \in Nat /\ e.column \in Nat
        /\ b.line \in Nat /\ b.column \in Nat /\ r.line \in Nat /\ r.column \in Nat
        /\ size.line \in Nat /\ size.column \in Nat
    BY EditedTypes
  <1>4. /\ c.begin.line = b.line /\ c.end.line = r.line
        /\ size.line = 0 => c.end.column = c.begin.column + size.column
    BY ClaimedRange
  <1>5. o.line - p.line = b.line - q.line /\ p.line \in Nat /\ q.line \in Nat
    BY MovedBehind, PositionFields, <1>3
  <1>6. d.lines = q.line - p.line /\ (d.line = -1 \/ d.line = p.line)
    BY DEF Follows
  <1>7. d1.lines = r.line - e.line
    <2>1. d1.lines = d.lines + (r.line - b.line) - (e.line - o.line)
      BY <1>0, <1>2, <1>4
    <2>. QED
      BY <1>3, <1>5, <1>6, <2>1
  <1>8. size.line = 0 <=> c.begin.line = c.end.line
    <2>1. r.line = b.line <=> size.line = 0
      <3>1. r = Plus(b, size)
        BY DEF Edited
      <3>2. CASE size.line = 0
        BY <3>1, <3>2, PlusFields
      <3>3. CASE size.line # 0
        BY <1>3, <3>1, <3>3, PlusFields
      <3>. QED
        BY <3>2, <3>3
    <2>. QED
      BY <1>4, <2>1
  <1>9. OneLine(o, e, size) => d1.line = e.line
    BY <1>0, <1>2, <1>8 DEF OneLine
  <1>10. ~OneLine(o, e, size) => d1.line = -1
    BY <1>0, <1>2, <1>8 DEF OneLine
  <1>11. Follows(d1, e, r)
    BY <1>7, <1>9, <1>10 DEF Follows
  <1>12. ASSUME OneLine(o, e, size), c.begin = b
         PROVE  Exact(d1, e, r)
    <2>1. o.line = e.line /\ size.line = 0 /\ d1.line = e.line
      BY <1>9, <1>12 DEF OneLine
    <2>2. Moved(d1, e).column = e.column + d1.columns
      BY <2>1, MovedFields
    <2>3. r.column = b.column + size.column
      BY <2>1, PlusFields DEF Edited
    <2>4. b = Moved(d, o)
      BY <1>12 DEF Claims
    <2>5. d.columns \in Int /\ d1.columns \in Int /\ d1.lines \in Int
      BY <1>1 DEF Delta
    <2>6. Moved(d1, e).column = r.column
      <3>1. columns = size.column - (e.column - o.column)
        BY <1>0, <1>3, <1>4, <1>12, <2>1
      <3>. HIDE DEF columns
      <3>2. CASE o.line = d.line
        <4>1. d1.columns = d.columns + columns /\ b.column = o.column + d.columns
          BY <1>0, <1>2, <1>8, <2>1, <2>4, <3>2, MovedFields
        <4>. QED
          BY <1>3, <2>2, <2>3, <2>5, <3>1, <4>1
      <3>3. CASE o.line # d.line
        <4>1. d1.columns = columns /\ b.column = o.column + 0
          BY <1>0, <1>2, <1>8, <2>1, <2>4, <3>3, MovedFields
        <4>. QED
          BY <1>3, <2>2, <2>3, <2>5, <3>1, <4>1
      <3>. QED
        BY <3>2, <3>3
    <2>7. Moved(d1, e).line = r.line
      BY <1>3, <1>7, MovedFields
    <2>8. Moved(d1, e) \in IntPos /\ r \in IntPos
      BY <1>1, EditedTypes, MovedType
    <2>. QED
      BY <2>6, <2>7, <2>8, SamePosition DEF Exact
  <1>. QED
    BY <1>1, <1>9, <1>10, <1>11, <1>12

\* The deltas on the way back are the opposite of those on the way forth.
Opposite(d, back, p, q) ==
    /\ back.lines = -d.lines
    /\ \/ d.line = -1 /\ back.line = -1
       \/ d.line = p.line /\ back.line = q.line /\ back.columns = -d.columns

LEMMA BackStep ==
    ASSUME NEW o, NEW e, NEW b, NEW r, NEW size, Edited(o, e, b, r, size),
           NEW d \in Delta, NEW p \in Pos, NEW q \in Pos,
           Follows(d, p, q), Parallel(p, o, q, b),
           NEW c, Claims(d, o, size, c),
           NEW d1, d1 = Added(d, Between(o, e), c),
           NEW back \in Delta, Opposite(d, back, p, q),
           NEW back1, back1 = Added(back, c, Between(o, e))
    PROVE  Opposite(d1, back1, e, r)
  <1> DEFINE f == Between(o, e)
             forth == (c.end.column - c.begin.column) - (f.end.column - f.begin.column)
             columns == (f.end.column - f.begin.column) - (c.end.column - c.begin.column)
  <1>0. f \in IntRange /\ c \in IntRange /\ f.begin = o /\ f.end = e
    BY EditedTypes DEF Claims
  <1>1. /\ d1.lines = d.lines + (c.end.line - c.begin.line) - (f.end.line - f.begin.line)
        /\ f.begin.line = f.end.line /\ c.begin.line = c.end.line =>
               /\ d1.line = f.begin.line
               /\ f.begin.line = d.line => d1.columns = d.columns + forth
               /\ f.begin.line # d.line => d1.columns = forth
        /\ ~(f.begin.line = f.end.line /\ c.begin.line = c.end.line) => d1.line = -1
    BY AddedFields
  <1>2. /\ back1.lines = back.lines + (f.end.line - f.begin.line) - (c.end.line - c.begin.line)
        /\ c.begin.line = c.end.line /\ f.begin.line = f.end.line =>
               /\ back1.line = c.begin.line
               /\ c.begin.line = back.line => back1.columns = back.columns + columns
               /\ c.begin.line # back.line => back1.columns = columns
        /\ ~(c.begin.line = c.end.line /\ f.begin.line = f.end.line) => back1.line = -1
    BY AddedFields
  <1>3. /\ o.line \in Nat /\ e.line \in Nat /\ b.line \in Nat /\ r.line \in Nat
        /\ c.begin.line = b.line /\ c.end.line = r.line
        /\ p.line \in Nat /\ q.line \in Nat
        /\ o.line - p.line = b.line - q.line
    BY EditedTypes, ClaimedRange, MovedBehind, PositionFields
  <1>4. d.lines \in Int /\ back.lines \in Int /\ d.columns \in Int /\ back.columns \in Int
    BY DEF Delta
  <1>5. back1.lines = -d1.lines
    BY <1>0, <1>1, <1>2, <1>3, <1>4 DEF Opposite
  <1>6. forth = -columns /\ forth \in Int /\ columns \in Int
    <2>1. /\ c.end.column \in Int /\ c.begin.column \in Int
          /\ f.end.column \in Int /\ f.begin.column \in Int
      BY <1>0 DEF IntRange, IntPos
    <2>. QED
      BY <2>1
  <1>. HIDE DEF f, forth, columns
  <1>7. CASE f.begin.line = f.end.line /\ c.begin.line = c.end.line
    <2>1. d1.line = e.line /\ back1.line = r.line
      BY <1>0, <1>1, <1>2, <1>3, <1>7
    <2>2. CASE d.line = p.line /\ back.line = q.line /\ back.columns = -d.columns
      <3>1. f.begin.line = d.line <=> c.begin.line = back.line
        BY <1>0, <1>3, <2>2
      <3>2. CASE f.begin.line = d.line
        <4>1. d1.columns = d.columns + forth /\ back1.columns = back.columns + columns
          BY <1>1, <1>2, <1>7, <3>1, <3>2
        <4>2. back1.columns = -d1.columns
          BY <1>4, <1>6, <2>2, <4>1
        <4>. QED
          BY <1>5, <2>1, <4>2 DEF Opposite
      <3>3. CASE f.begin.line # d.line
        <4>1. d1.columns = forth /\ back1.columns = columns
          BY <1>1, <1>2, <1>7, <3>1, <3>3
        <4>2. back1.columns = -d1.columns
          BY <1>6, <4>1
        <4>. QED
          BY <1>5, <2>1, <4>2 DEF Opposite
      <3>. QED
        BY <3>2, <3>3
    <2>3. CASE d.line = -1 /\ back.line = -1
      <3>1. f.begin.line # d.line /\ c.begin.line # back.line
        BY <1>0, <1>3, <2>3
      <3>2. d1.columns = forth /\ back1.columns = columns
        BY <1>1, <1>2, <1>7, <3>1
      <3>3. back1.columns = -d1.columns
        BY <1>6, <3>2
      <3>. QED
        BY <1>5, <2>1, <3>3 DEF Opposite
    <2>. QED
      BY <2>2, <2>3 DEF Opposite
  <1>8. CASE ~(f.begin.line = f.end.line /\ c.begin.line = c.end.line)
    BY <1>1, <1>2, <1>5, <1>8 DEF Opposite
  <1>. QED
    BY <1>7, <1>8

LEMMA MovedBack ==
    ASSUME NEW d \in Delta, NEW back \in Delta, NEW p \in Pos, NEW q \in Pos, NEW p1, NEW q1,
           Follows(d, p, q), Parallel(p, p1, q, q1), Opposite(d, back, p, q),
           Exact(d, p, q) \/ p1.line # p.line
    PROVE  Moved(back, q1) = p1
  <1>1. /\ p1 \in Pos /\ q1 \in Pos /\ Moved(d, p1) = q1
        /\ p1.line - p.line = q1.line - q.line
    BY MovedBehind
  <1>2. /\ p1.line \in Nat /\ p1.column \in Nat /\ q1.line \in Nat /\ q1.column \in Nat
        /\ p.line \in Nat /\ q.line \in Nat
        /\ d.lines \in Int /\ back.lines \in Int /\ d.columns \in Int /\ back.columns \in Int
    BY <1>1, PositionFields DEF Delta
  <1>3. q1.line = p1.line + d.lines
    BY <1>1, MovedFields
  <1>4. Moved(back, q1).line = p1.line
    <2>1. Moved(back, q1).line = q1.line + back.lines /\ back.lines = -d.lines
      BY MovedFields DEF Opposite
    <2>. QED
      BY <1>2, <1>3, <2>1
  <1>5. Moved(back, q1).column = p1.column
    <2>1. CASE d.line = -1 /\ back.line = -1
      <3>1. q1.line # back.line /\ p1.line # d.line
        BY <1>2, <2>1
      <3>2. q1.column = p1.column + 0 /\ Moved(back, q1).column = q1.column + 0
        BY <1>1, <3>1, MovedFields
      <3>. QED
        BY <1>2, <3>2
    <2>2. CASE d.line = p.line /\ back.line = q.line /\ back.columns = -d.columns
      <3>1. p1.line = d.line <=> q1.line = back.line
        BY <1>1, <1>2, <2>2
      <3>2. CASE p1.line = d.line
        <4>1. q1.column = p1.column + d.columns /\ Moved(back, q1).column = q1.column + back.columns
          BY <1>1, <3>1, <3>2, MovedFields
        <4>. QED
          BY <1>2, <2>2, <4>1
      <3>3. CASE p1.line # d.line
        <4>1. q1.column = p1.column + 0 /\ Moved(back, q1).column = q1.column + 0
          BY <1>1, <3>1, <3>3, MovedFields
        <4>. QED
          BY <1>2, <4>1
      <3>. QED
        BY <3>2, <3>3
    <2>. QED
      BY <2>1, <2>2 DEF Opposite
  <1>6. Moved(back, q1) \in IntPos /\ p1 \in IntPos
    BY <1>1, MovedType, PositionFields
  <1>. QED
    BY <1>4, <1>5, <1>6, SamePosition

-----------------------------------------------------------------------------
(* The deltas of all edits                                                 *)

\* n edits, the i-th of which replaces what is from O[i] to P[i] by a text of size[i]
\* that ends up from B[i] to Q[i].
Laid(n, O, P, B, Q, size) ==
    /\ n \in Nat
    /\ P \in [0..n -> Pos] /\ Q \in [0..n -> Pos]
    /\ P[0] = Zero /\ Q[0] = Zero
    /\ \A i \in 1..n :
           /\ Edited(O[i], P[i], B[i], Q[i], size[i])
           /\ Parallel(P[i - 1], O[i], Q[i - 1], B[i])

\* The ranges and deltas of the pass over them, and the deltas on the way back.
Passed(n, O, P, size, C, delta, back) ==
    /\ delta \in [0..n -> Delta] /\ back \in [0..n -> Delta]
    /\ delta[0] = NoDelta /\ back[0] = NoDelta
    /\ \A i \in 1..n :
           /\ Claims(delta[i - 1], O[i], size[i], C[i])
           /\ delta[i] = Added(delta[i - 1], Between(O[i], P[i]), C[i])
           /\ back[i] = Added(back[i - 1], C[i], Between(O[i], P[i]))

\* One of the edits up to i ends on the line and dropped its columns.
Dropped(O, P, size, i, line) ==
    \E j \in 1..i : P[j].line = line /\ ~OneLine(O[j], P[j], size[j])

\* What is known of the deltas behind an edit.
Known(O, P, Q, size, delta, back, i) ==
    /\ Follows(delta[i], P[i], Q[i])
    /\ Exact(delta[i], P[i], Q[i]) \/ Dropped(O, P, size, i, P[i].line)
    /\ Opposite(delta[i], back[i], P[i], Q[i])

LEMMA StartIsKnown ==
    ASSUME NEW n, NEW O, NEW P, NEW B, NEW Q, NEW size, NEW C, NEW delta, NEW back,
           Laid(n, O, P, B, Q, size), Passed(n, O, P, size, C, delta, back)
    PROVE  Known(O, P, Q, size, delta, back, 0)
  <1>1. P[0] = Zero /\ Q[0] = Zero /\ delta[0] = NoDelta /\ back[0] = NoDelta
    BY DEF Laid, Passed
  <1>2. Zero.line = 0 /\ NoDelta.line = -1 /\ NoDelta.lines = 0 /\ NoDelta.columns = 0
    BY DEF Zero, Position, NoDelta
  <1>3. Follows(NoDelta, Zero, Zero) /\ Opposite(NoDelta, NoDelta, Zero, Zero)
    <2>1. \A x \in Int : x = 0 => x = x - x /\ x = -x
      <3>1. \A x \in Int, y \in Int : x + y = 0 => x = -y
        OBVIOUS
      <3>2. \A x \in Int : x = 0 => x = x - x /\ x + x = 0
        OBVIOUS
      <3>. QED
        BY <3>1, <3>2, Zenon
    <2>2. NoDelta.lines = Zero.line - Zero.line /\ NoDelta.lines = -NoDelta.lines
      <3>1. 0 \in Int
        OBVIOUS
      <3>2. NoDelta.lines \in Int /\ NoDelta.lines = Zero.line
        BY <1>2, <3>1
      <3>. QED
        BY <1>2, <2>1, <3>2, Zenon
    <2>. QED
      BY <1>2, <2>2, Zenon DEF Follows, Opposite
  <1>4. Exact(NoDelta, Zero, Zero)
    BY DEF Exact, Moved, NoDelta, Zero, Position
  <1>. QED
    BY <1>1, <1>3, <1>4 DEF Known

LEMMA EditAt ==
    ASSUME NEW n, NEW O, NEW P, NEW B, NEW Q, NEW size, NEW C, NEW delta, NEW back,
           Laid(n, O, P, B, Q, size), Passed(n, O, P, size, C, delta, back),
           NEW i \in 1..n
    PROVE  /\ n \in Nat /\ i \in 0..n /\ i - 1 \in 0..n
           /\ P[i - 1] \in Pos /\ Q[i - 1] \in Pos /\ delta[i - 1] \in Delta /\ back[i - 1] \in Delta
           /\ Edited(O[i], P[i], B[i], Q[i], size[i])
           /\ Parallel(P[i - 1], O[i], Q[i - 1], B[i])
           /\ Claims(delta[i - 1], O[i], size[i], C[i])
           /\ delta[i] = Added(delta[i - 1], Between(O[i], P[i]), C[i])
           /\ back[i] = Added(back[i - 1], C[i], Between(O[i], P[i]))
  <1>1. n \in Nat /\ i \in 0..n /\ i - 1 \in 0..n
    BY DEF Laid
  <1>. QED
    BY <1>1 DEF Laid, Passed

LEMMA StepIsKnown ==
    ASSUME NEW n, NEW O, NEW P, NEW B, NEW Q, NEW size, NEW C, NEW delta, NEW back,
           Laid(n, O, P, B, Q, size), Passed(n, O, P, size, C, delta, back),
           NEW i \in 1..n, Known(O, P, Q, size, delta, back, i - 1)
    PROVE  Known(O, P, Q, size, delta, back, i)
  <1>1. /\ n \in Nat /\ i \in 0..n /\ i - 1 \in 0..n
        /\ P[i - 1] \in Pos /\ Q[i - 1] \in Pos /\ delta[i - 1] \in Delta /\ back[i - 1] \in Delta
        /\ Edited(O[i], P[i], B[i], Q[i], size[i])
        /\ Parallel(P[i - 1], O[i], Q[i - 1], B[i])
        /\ Claims(delta[i - 1], O[i], size[i], C[i])
        /\ delta[i] = Added(delta[i - 1], Between(O[i], P[i]), C[i])
        /\ back[i] = Added(back[i - 1], C[i], Between(O[i], P[i]))
    BY EditAt
  <1>2. /\ Follows(delta[i - 1], P[i - 1], Q[i - 1])
        /\ Exact(delta[i - 1], P[i - 1], Q[i - 1]) \/ Dropped(O, P, size, i - 1, P[i - 1].line)
        /\ Opposite(delta[i - 1], back[i - 1], P[i - 1], Q[i - 1])
    BY DEF Known
  <1>3. /\ Follows(delta[i], P[i], Q[i])
        /\ OneLine(O[i], P[i], size[i]) /\ C[i].begin = B[i] => Exact(delta[i], P[i], Q[i])
    BY <1>1, <1>2, DeltaStep
  <1>4. Opposite(delta[i], back[i], P[i], Q[i])
    BY <1>1, <1>2, BackStep
  <1>5. Exact(delta[i - 1], P[i - 1], Q[i - 1]) \/ O[i].line # P[i - 1].line => C[i].begin = B[i]
    BY <1>1, <1>2, ClaimedRange
  <1>6. CASE ~OneLine(O[i], P[i], size[i])
    <2>1. Dropped(O, P, size, i, P[i].line)
      BY <1>1, <1>6 DEF Dropped
    <2>. QED
      BY <1>3, <1>4, <2>1 DEF Known
  <1>7. CASE OneLine(O[i], P[i], size[i]) /\ C[i].begin = B[i]
    BY <1>3, <1>4, <1>7 DEF Known
  <1>8. CASE OneLine(O[i], P[i], size[i]) /\ C[i].begin # B[i]
    <2>1. Dropped(O, P, size, i - 1, P[i - 1].line) /\ P[i].line = P[i - 1].line
      BY <1>2, <1>5, <1>8 DEF OneLine
    <2>2. PICK j \in 1..(i - 1) : P[j].line = P[i - 1].line /\ ~OneLine(O[j], P[j], size[j])
      BY <2>1 DEF Dropped
    <2>3. j \in 1..i
      BY <1>1
    <2>4. Dropped(O, P, size, i, P[i].line)
      BY <2>1, <2>2, <2>3 DEF Dropped
    <2>. QED
      BY <1>3, <1>4, <2>4 DEF Known
  <1>. QED
    BY <1>6, <1>7, <1>8

LEMMA AllAreKnown ==
    ASSUME NEW n, NEW O, NEW P, NEW B, NEW Q, NEW size, NEW C, NEW delta, NEW back,
           Laid(n, O, P, B, Q, size), Passed(n, O, P, size, C, delta, back),
           NEW i \in 0..n
    PROVE  Known(O, P, Q, size, delta, back, i)
  <1> DEFINE S == {k \in Nat : Known(O, P, Q, size, delta, back, k)}
  <1>1. n \in Nat
    BY DEF Laid
  <1>2. 0 \in S
    BY StartIsKnown
  <1>3. ASSUME NEW k \in 1..n, k - 1 \in S
        PROVE  k \in S
    BY <1>3, StepIsKnown
  <1>4. 0..n \subseteq S
    <2>. HIDE DEF S
    <2>. QED
      BY <1>1, <1>2, <1>3, StepInduction
  <1>. QED
    BY <1>4

LEMMA RangeAt ==
    ASSUME NEW n, NEW O, NEW P, NEW B, NEW Q, NEW size, NEW C, NEW delta, NEW back,
           Laid(n, O, P, B, Q, size), Passed(n, O, P, size, C, delta, back),
           NEW i \in 1..n
    PROVE  /\ C[i].begin.line = B[i].line /\ C[i].end.line = Q[i].line
           /\ C[i].begin \in IntPos /\ C[i].end \in IntPos /\ ~Precedes(C[i].end, C[i].begin)
           /\ C[i].begin = B[i] \/ Dropped(O, P, size, i - 1, O[i].line)
           /\ C[i].end = Q[i] \/ Dropped(O, P, size, i, P[i].line)
  <1>1. /\ n \in Nat /\ i \in 0..n /\ i - 1 \in 0..n
        /\ P[i - 1] \in Pos /\ Q[i - 1] \in Pos /\ delta[i - 1] \in Delta /\ back[i - 1] \in Delta
        /\ Edited(O[i], P[i], B[i], Q[i], size[i])
        /\ Parallel(P[i - 1], O[i], Q[i - 1], B[i])
        /\ Claims(delta[i - 1], O[i], size[i], C[i])
    BY EditAt
  <1>2. /\ Follows(delta[i - 1], P[i - 1], Q[i - 1])
        /\ Exact(delta[i - 1], P[i - 1], Q[i - 1]) \/ Dropped(O, P, size, i - 1, P[i - 1].line)
    BY <1>1, AllAreKnown DEF Known
  <1>3. /\ C[i].begin.line = B[i].line /\ C[i].end.line = Q[i].line
        /\ C[i].begin \in IntPos /\ C[i].end \in IntPos /\ ~Precedes(C[i].end, C[i].begin)
        /\ Exact(delta[i - 1], P[i - 1], Q[i - 1]) \/ O[i].line # P[i - 1].line => C[i].begin = B[i]
        /\ C[i].begin = B[i] \/ size[i].line # 0 => C[i].end = Q[i]
    BY <1>1, <1>2, ClaimedRange
  <1>4. C[i].begin = B[i] \/ Dropped(O, P, size, i - 1, O[i].line)
    BY <1>2, <1>3
  <1>5. C[i].end = Q[i] \/ Dropped(O, P, size, i, P[i].line)
    <2>1. CASE OneLine(O[i], P[i], size[i])
      <3>1. O[i].line = P[i].line
        BY <2>1 DEF OneLine
      <3>2. ASSUME Dropped(O, P, size, i - 1, O[i].line)
            PROVE  Dropped(O, P, size, i, P[i].line)
        <4>1. PICK j \in 1..(i - 1) : P[j].line = O[i].line /\ ~OneLine(O[j], P[j], size[j])
          BY <3>2 DEF Dropped
        <4>2. j \in 1..i
          BY <1>1
        <4>. QED
          BY <3>1, <4>1, <4>2 DEF Dropped
      <3>. QED
        BY <1>3, <1>4, <3>2
    <2>2. CASE ~OneLine(O[i], P[i], size[i])
      BY <1>1, <2>2 DEF Dropped
    <2>. QED
      BY <2>1, <2>2
  <1>. QED
    BY <1>3, <1>4, <1>5

\* The edits end in their order.
LEMMA EndsIncrease ==
    ASSUME NEW n, NEW O, NEW P, NEW B, NEW Q, NEW size, NEW C, NEW delta, NEW back,
           Laid(n, O, P, B, Q, size), Passed(n, O, P, size, C, delta, back),
           NEW i \in 0..n, NEW j \in 0..i
    PROVE  ~Precedes(P[i], P[j]) /\ ~Precedes(Q[i], Q[j])
  <1> DEFINE S == {k \in Nat : j <= k => ~Precedes(P[k], P[j]) /\ ~Precedes(Q[k], Q[j])}
  <1>1. n \in Nat /\ \A k \in 0..n : P[k] \in IntPos /\ Q[k] \in IntPos
    BY PositionFields DEF Laid
  <1>2. 0 \in S
    <2>1. j <= 0 => j = 0
      BY <1>1
    <2>2. 0 \in 0..n
      BY <1>1
    <2>3. ~Precedes(P[0], P[0]) /\ ~Precedes(Q[0], Q[0])
      BY <1>1, <2>2, Order
    <2>. QED
      BY <2>1, <2>3
  <1>3. ASSUME NEW k \in 1..n, k - 1 \in S
        PROVE  k \in S
    <2>1. k \in Nat /\ j \in 0..n /\ k \in 0..n /\ k - 1 \in 0..n
      BY <1>1
    <2>2. CASE j = k
      <3>1. ~Precedes(P[k], P[k]) /\ ~Precedes(Q[k], Q[k])
        BY <1>1, <2>1, Order
      <3>. QED
        BY <2>1, <2>2, <3>1
    <2>3. CASE j < k
      <3>1. ~Precedes(P[k - 1], P[j]) /\ ~Precedes(Q[k - 1], Q[j])
        BY <1>3, <2>1, <2>3
      <3>2. /\ P[k - 1] \in Pos /\ Q[k - 1] \in Pos /\ delta[k - 1] \in Delta
            /\ Edited(O[k], P[k], B[k], Q[k], size[k])
            /\ Parallel(P[k - 1], O[k], Q[k - 1], B[k])
        BY EditAt
      <3>3. Follows(delta[k - 1], P[k - 1], Q[k - 1])
        BY <2>1, AllAreKnown DEF Known
      <3>4. ~Precedes(O[k], P[k - 1]) /\ ~Precedes(B[k], Q[k - 1])
        BY <3>2, <3>3, MovedBehind
      <3>5. ~Precedes(P[k], O[k]) /\ ~Precedes(Q[k], B[k]) /\ O[k] \in IntPos /\ B[k] \in IntPos
        BY <3>2, EditedTypes DEF Edited
      <3>6. ~Precedes(P[k], P[k - 1]) /\ ~Precedes(Q[k], Q[k - 1])
        BY <1>1, <2>1, <3>4, <3>5, Order
      <3>7. ~Precedes(P[k], P[j]) /\ ~Precedes(Q[k], Q[j])
        BY <1>1, <2>1, <3>1, <3>6, Order
      <3>. QED
        BY <2>1, <3>7
    <2>4. CASE j > k
      BY <2>1, <2>4
    <2>. QED
      BY <2>1, <2>2, <2>3, <2>4
  <1>4. 0..n \subseteq S
    <2>. HIDE DEF S
    <2>. QED
      BY <1>1, <1>2, <1>3, StepInduction
  <1>. QED
    BY <1>1, <1>4

\* Edits that end on one line of the transformed text end on one line of the source, if
\* none of them dropped its columns there.
LEMMA EndsOnOneLine ==
    ASSUME NEW n, NEW O, NEW P, NEW B, NEW Q, NEW size, NEW C, NEW delta, NEW back,
           Laid(n, O, P, B, Q, size), Passed(n, O, P, size, C, delta, back),
           NEW i \in 0..n, NEW j \in 0..i,
           Q[j].line = Q[i].line, ~Dropped(O, P, size, i, P[i].line)
    PROVE  P[j].line = P[i].line
  <1> DEFINE S == {k \in Nat : j <= k /\ k <= i /\ Q[j].line = Q[k].line /\ ~Dropped(O, P, size, k, P[k].line)
                               => P[j].line = P[k].line}
  <1>1. n \in Nat /\ \A k \in 0..n : P[k] \in Pos /\ Q[k] \in Pos
    BY DEF Laid
  <1>2. 0 \in S
    <2>1. j <= 0 => j = 0
      BY <1>1
    <2>. QED
      BY <2>1
  <1>3. ASSUME NEW k \in 1..n, k - 1 \in S
        PROVE  k \in S
    <2>1. k \in Nat /\ j \in 0..n /\ k \in 0..n /\ k - 1 \in 0..n
      BY <1>1
    <2>2. ASSUME j <= k, k <= i, Q[j].line = Q[k].line, ~Dropped(O, P, size, k, P[k].line)
          PROVE  P[j].line = P[k].line
      <3>1. CASE j = k
        BY <3>1
      <3>2. CASE j < k
        <4>1. /\ P[k - 1] \in Pos /\ Q[k - 1] \in Pos /\ delta[k - 1] \in Delta
              /\ Edited(O[k], P[k], B[k], Q[k], size[k])
              /\ Parallel(P[k - 1], O[k], Q[k - 1], B[k])
          BY EditAt
        <4>2. Follows(delta[k - 1], P[k - 1], Q[k - 1])
          BY <2>1, AllAreKnown DEF Known
        <4>3. OneLine(O[k], P[k], size[k])
          <5>1. k \in 1..k
            BY <2>1
          <5>. QED
            BY <2>2, <5>1 DEF Dropped
        <4>4. O[k].line = P[k].line /\ B[k].line = Q[k].line
          BY <4>1, <4>3, PlusFields DEF OneLine, Edited
        <4>5. /\ O[k].line - P[k - 1].line = B[k].line - Q[k - 1].line
              /\ ~Precedes(B[k], Q[k - 1]) /\ B[k] \in IntPos
          BY <4>1, <4>2, MovedBehind, EditedTypes
        <4>6. Q[j].line <= Q[k - 1].line /\ Q[k - 1].line <= B[k].line
          <5>1. j \in 0..(k - 1)
            BY <2>1, <3>2
          <5>2. ~Precedes(Q[k - 1], Q[j])
            BY <2>1, <5>1, EndsIncrease
          <5>3. Q[j] \in IntPos /\ Q[k - 1] \in IntPos
            BY <1>1, <2>1, PositionFields
          <5>. QED
            BY <4>5, <5>2, <5>3, Order
        <4>7. /\ Q[j].line \in Nat /\ Q[k - 1].line \in Nat /\ B[k].line \in Nat
              /\ P[k - 1].line \in Nat /\ O[k].line \in Nat
          BY <1>1, <2>1, <4>1, PositionFields, EditedTypes
        <4>8. Q[k - 1].line = Q[j].line /\ P[k - 1].line = P[k].line
          BY <2>2, <4>4, <4>5, <4>6, <4>7
        <4>9. ~Dropped(O, P, size, k - 1, P[k - 1].line)
          <5>1. SUFFICES ASSUME Dropped(O, P, size, k - 1, P[k - 1].line)
                         PROVE  FALSE
            OBVIOUS
          <5>2. PICK m \in 1..(k - 1) : P[m].line = P[k - 1].line /\ ~OneLine(O[m], P[m], size[m])
            BY <5>1 DEF Dropped
          <5>3. m \in 1..k
            BY <2>1
          <5>. QED
            BY <2>2, <4>8, <5>2, <5>3 DEF Dropped
        <4>10. j <= k - 1 /\ k - 1 <= i
          BY <2>1, <2>2, <3>2
        <4>. QED
          BY <1>3, <4>8, <4>9, <4>10
      <3>. QED
        BY <2>1, <2>2, <3>1, <3>2
    <2>. QED
      BY <2>1, <2>2
  <1>4. 0..n \subseteq S
    <2>. HIDE DEF S
    <2>. QED
      BY <1>1, <1>2, <1>3, StepInduction
  <1>. QED
    BY <1>1, <1>4

\* What is behind an edit and before the next one: p1 in the source, q1 in the
\* transformed text.
Beside(n, P, Q, i, p1, q1) == i \in 0..n /\ Parallel(P[i], p1, Q[i], q1)

LEMMA BesideType ==
    ASSUME NEW n, NEW O, NEW P, NEW B, NEW Q, NEW size, NEW C, NEW delta, NEW back,
           Laid(n, O, P, B, Q, size), Passed(n, O, P, size, C, delta, back),
           NEW i, NEW p1, NEW q1, Beside(n, P, Q, i, p1, q1)
    PROVE  /\ n \in Nat /\ i \in 0..n
           /\ P[i] \in Pos /\ Q[i] \in Pos /\ delta[i] \in Delta /\ back[i] \in Delta
           /\ Follows(delta[i], P[i], Q[i]) /\ Opposite(delta[i], back[i], P[i], Q[i])
           /\ p1 \in Pos /\ q1 \in Pos /\ p1 \in IntPos /\ q1 \in IntPos
           /\ p1.line - P[i].line = q1.line - Q[i].line
           /\ ~Precedes(p1, P[i]) /\ ~Precedes(q1, Q[i])
  <1>1. /\ n \in Nat /\ i \in 0..n /\ Parallel(P[i], p1, Q[i], q1)
        /\ P[i] \in Pos /\ Q[i] \in Pos /\ delta[i] \in Delta /\ back[i] \in Delta
    BY DEF Beside, Laid, Passed
  <1>2. Follows(delta[i], P[i], Q[i]) /\ Opposite(delta[i], back[i], P[i], Q[i])
    BY <1>1, AllAreKnown DEF Known
  <1>3. /\ p1 \in Pos /\ q1 \in Pos
        /\ p1.line - P[i].line = q1.line - Q[i].line
        /\ ~Precedes(p1, P[i]) /\ ~Precedes(q1, Q[i])
    BY <1>1, <1>2, MovedBehind
  <1>. QED
    BY <1>1, <1>2, <1>3, PositionFields

\* The deltas behind an edit take what is behind it forth and back.
LEMMA BesideMaps ==
    ASSUME NEW n, NEW O, NEW P, NEW B, NEW Q, NEW size, NEW C, NEW delta, NEW back,
           Laid(n, O, P, B, Q, size), Passed(n, O, P, size, C, delta, back),
           NEW i, NEW p1, NEW q1, Beside(n, P, Q, i, p1, q1),
           ~Dropped(O, P, size, i, p1.line)
    PROVE  Moved(delta[i], p1) = q1 /\ Moved(back[i], q1) = p1
  <1>1. /\ n \in Nat /\ i \in 0..n
        /\ P[i] \in Pos /\ Q[i] \in Pos /\ delta[i] \in Delta /\ back[i] \in Delta
        /\ Follows(delta[i], P[i], Q[i]) /\ Opposite(delta[i], back[i], P[i], Q[i])
    BY BesideType
  <1>2. Parallel(P[i], p1, Q[i], q1)
    BY DEF Beside
  <1>3. Exact(delta[i], P[i], Q[i]) \/ p1.line # P[i].line
    <2>1. Exact(delta[i], P[i], Q[i]) \/ Dropped(O, P, size, i, P[i].line)
      BY <1>1, AllAreKnown DEF Known
    <2>. QED
      BY <2>1
  <1>4. Moved(delta[i], p1) = q1
    BY <1>1, <1>2, <1>3, MovedBehind
  <1>5. Moved(back[i], q1) = p1
    BY <1>1, <1>2, <1>3, MovedBack
  <1>. QED
    BY <1>4, <1>5

\* The earlier edits do not decide on it on the way forth.
LEMMA EarlierEndBefore ==
    ASSUME NEW n, NEW O, NEW P, NEW B, NEW Q, NEW size, NEW C, NEW delta, NEW back,
           Laid(n, O, P, B, Q, size), Passed(n, O, P, size, C, delta, back),
           NEW i, NEW p1, NEW q1, Beside(n, P, Q, i, p1, q1), NEW j \in 1..i
    PROVE  /\ ~Precedes(p1, P[j]) /\ ~Precedes(p1, O[j]) /\ ~Precedes(q1, Q[j])
           /\ P[j] \in IntPos /\ Q[j] \in IntPos
  <1>1. /\ n \in Nat /\ i \in 0..n /\ P[i] \in Pos /\ Q[i] \in Pos
        /\ p1 \in IntPos /\ q1 \in IntPos
        /\ ~Precedes(p1, P[i]) /\ ~Precedes(q1, Q[i])
    BY BesideType
  <1>2. j \in 0..i /\ j \in 1..n /\ j \in 0..n
    BY <1>1
  <1>3. ~Precedes(P[i], P[j]) /\ ~Precedes(Q[i], Q[j])
    BY <1>1, <1>2, EndsIncrease
  <1>4. Edited(O[j], P[j], B[j], Q[j], size[j])
    BY <1>2, EditAt
  <1>5. P[j] \in IntPos /\ Q[j] \in IntPos /\ O[j] \in IntPos /\ ~Precedes(P[j], O[j])
        /\ P[i] \in IntPos /\ Q[i] \in IntPos
    BY <1>1, <1>4, EditedTypes, PositionFields DEF Edited
  <1>6. ~Precedes(p1, P[j]) /\ ~Precedes(q1, Q[j])
    BY <1>1, <1>3, <1>5, Order
  <1>7. ~Precedes(p1, O[j])
    BY <1>1, <1>5, <1>6, Order
  <1>. QED
    BY <1>5, <1>6, <1>7

\* Nor on the way back, where no edit dropped its columns.
LEMMA EarlierClaimsEndBefore ==
    ASSUME NEW n, NEW O, NEW P, NEW B, NEW Q, NEW size, NEW C, NEW delta, NEW back,
           Laid(n, O, P, B, Q, size), Passed(n, O, P, size, C, delta, back),
           NEW i, NEW p1, NEW q1, Beside(n, P, Q, i, p1, q1),
           ~Dropped(O, P, size, i, p1.line), NEW j \in 1..i
    PROVE  ~Precedes(q1, C[j].end)
  <1>1. /\ n \in Nat /\ i \in 0..n /\ P[i] \in Pos /\ Q[i] \in Pos
        /\ p1 \in Pos /\ q1 \in Pos /\ p1 \in IntPos /\ q1 \in IntPos
        /\ p1.line - P[i].line = q1.line - Q[i].line
        /\ ~Precedes(p1, P[i]) /\ ~Precedes(q1, Q[i])
    BY BesideType
  <1>2. j \in 1..n /\ j \in 0..i /\ i \in Nat /\ j \in Nat
    BY <1>1
  <1>3. /\ C[j].end.line = Q[j].line /\ C[j].end \in IntPos
        /\ C[j].end = Q[j] \/ Dropped(O, P, size, j, P[j].line)
    BY <1>2, RangeAt
  <1>4. ~Precedes(q1, Q[j]) /\ Q[j] \in IntPos
    BY EarlierEndBefore
  <1>5. CASE C[j].end = Q[j]
    BY <1>4, <1>5
  <1>6. CASE Q[j].line # q1.line
    <2>1. Q[j].line <= q1.line /\ Q[j].line \in Int /\ q1.line \in Int
      BY <1>1, <1>4, Order, PositionFields
    <2>. QED
      BY <1>3, <1>6, <2>1 DEF Precedes
  <1>7. CASE C[j].end # Q[j] /\ Q[j].line = q1.line
    <2>1. PICK m \in 1..j : P[m].line = P[j].line /\ ~OneLine(O[m], P[m], size[m])
      BY <1>3, <1>7 DEF Dropped
    <2>2. Q[j].line = Q[i].line /\ p1.line = P[i].line
      <3>1. ~Precedes(Q[i], Q[j])
        BY <1>1, <1>2, EndsIncrease
      <3>2. Q[i] \in IntPos
        BY <1>1, PositionFields
      <3>3. Q[j].line <= Q[i].line /\ Q[i].line <= q1.line
        BY <1>1, <1>4, <3>1, <3>2, Order
      <3>4. Q[j].line \in Int /\ Q[i].line \in Int /\ q1.line \in Int /\ p1.line \in Int /\ P[i].line \in Int
        BY <1>1, <1>4, PositionFields
      <3>. QED
        BY <1>1, <1>7, <3>3, <3>4
    <2>3. P[j].line = P[i].line
      BY <1>1, <1>2, <2>2, EndsOnOneLine
    <2>4. m \in 1..i
      BY <1>2
    <2>5. Dropped(O, P, size, i, p1.line)
      BY <2>1, <2>2, <2>3, <2>4 DEF Dropped
    <2>. QED
      BY <2>5
  <1>. QED
    BY <1>5, <1>6, <1>7

\* The next edit begins behind it, in the range that the pass took for its text, too.
LEMMA NextClaimBeginsBehind ==
    ASSUME NEW n, NEW O, NEW P, NEW B, NEW Q, NEW size, NEW C, NEW delta, NEW back,
           Laid(n, O, P, B, Q, size), Passed(n, O, P, size, C, delta, back),
           NEW i \in 0..(n - 1), NEW p1, NEW q1, Beside(n, P, Q, i, p1, q1),
           ~Dropped(O, P, size, i, p1.line), Precedes(q1, B[i + 1])
    PROVE  Precedes(q1, C[i + 1].begin)
  <1>1. /\ n \in Nat /\ i \in 0..n /\ P[i] \in Pos /\ Q[i] \in Pos
        /\ p1 \in Pos /\ q1 \in Pos /\ p1 \in IntPos /\ q1 \in IntPos
        /\ p1.line - P[i].line = q1.line - Q[i].line
        /\ delta[i] \in Delta /\ Follows(delta[i], P[i], Q[i])
    BY BesideType
  <1>2. i + 1 \in 1..n /\ (i + 1) - 1 = i
    BY <1>1
  <1>3. /\ C[i + 1].begin.line = B[i + 1].line /\ C[i + 1].begin \in IntPos
        /\ C[i + 1].begin = B[i + 1] \/ Dropped(O, P, size, i, O[i + 1].line)
    BY <1>2, RangeAt
  <1>4. /\ Edited(O[i + 1], P[i + 1], B[i + 1], Q[i + 1], size[i + 1])
        /\ Parallel(P[i], O[i + 1], Q[i], B[i + 1])
    BY <1>2, EditAt
  <1>5. /\ O[i + 1].line - P[i].line = B[i + 1].line - Q[i].line
        /\ O[i + 1].line \in Nat /\ B[i + 1].line \in Nat
        /\ B[i + 1] \in IntPos
    BY <1>1, <1>4, MovedBehind, EditedTypes
  <1>6. CASE C[i + 1].begin = B[i + 1]
    BY <1>6
  <1>7. CASE q1.line = B[i + 1].line
    <2>1. p1.line \in Nat /\ P[i].line \in Nat /\ Q[i].line \in Nat /\ q1.line \in Nat
      BY <1>1, PositionFields
    <2>2. O[i + 1].line = p1.line
      BY <1>1, <1>5, <1>7, <2>1
    <2>3. C[i + 1].begin = B[i + 1]
      BY <1>3, <2>2
    <2>. QED
      BY <2>3
  <1>8. CASE q1.line # B[i + 1].line
    BY <1>3, <1>8 DEF Precedes
  <1>. QED
    BY <1>6, <1>7, <1>8

-----------------------------------------------------------------------------
(* The loop of the mappings                                                *)

\* d are the deltas of a loop over ranges F that became G.
AreDeltas(d, n, F, G) ==
    /\ d \in [0..n -> Delta]
    /\ d[0] = NoDelta
    /\ \A i \in 1..n : d[i] = Added(d[i - 1], F[i], G[i])

\* The sides "from" and "to" of the edits are the ranges F and G.
AreSides(from, to, n, F, G) ==
    Len(applied) = n /\ \A i \in 1..n : applied[i][from] = F[i] /\ applied[i][to] = G[i]

Deciding(n, F, position) == {i \in 1..n : Decides(F[i], position)}

LEMMA MapPositionIs ==
    ASSUME NEW n \in Nat, NEW F, NEW G, NEW d, AreDeltas(d, n, F, G),
           NEW from, NEW to, AreSides(from, to, n, F, G), NEW position
    PROVE  MapPosition(from, to, position) =
               LET first == Min(Deciding(n, F, position))
               IN IF Deciding(n, F, position) = {} THEN Moved(d[n], position)
                  ELSE IF Precedes(position, F[first].begin) THEN Moved(d[first - 1], position)
                  ELSE G[first].begin
  <1> DEFINE Def(g) == [i \in 0..Len(applied) |->
                           IF i = 0 THEN NoDelta ELSE Added(g[i - 1], applied[i][from], applied[i][to])]
             X == CHOOSE g : g = Def(g)
             deciding == {i \in 1..Len(applied) : Decides(applied[i][from], position)}
             P == {i \in Nat : X[i] = d[i]}
  <1>1. Len(applied) = n /\ \A i \in 1..n : applied[i][from] = F[i] /\ applied[i][to] = G[i]
    BY DEF AreSides
  <1>2. \A g : /\ Def(g)[0] = NoDelta
               /\ \A i \in 1..n : Def(g)[i] = Added(g[i - 1], F[i], G[i])
               /\ Def(g) = [i \in 0..n |-> Def(g)[i]]
    BY <1>1
  <1>3. MapPosition(from, to, position) =
            IF deciding = {} THEN Moved(X[Len(applied)], position)
            ELSE IF Precedes(position, applied[Min(deciding)][from].begin)
            THEN Moved(X[Min(deciding) - 1], position)
            ELSE applied[Min(deciding)][to].begin
    BY DEF MapPosition
  <1>4. deciding = Deciding(n, F, position)
    BY <1>1 DEF Deciding
  <1>. HIDE DEF Def
  <1>5. d = Def(d)
    <2>1. \A i \in 0..n : d[i] = Def(d)[i]
      <3>. TAKE i \in 0..n
      <3>1. i = 0 \/ i \in 1..n
        OBVIOUS
      <3>. QED
        BY <1>2, <3>1 DEF AreDeltas
    <2>2. d = [i \in 0..n |-> d[i]]
      BY DEF AreDeltas
    <2>. QED
      BY <1>2, <2>1, <2>2
  <1>6. X = Def(X)
    BY <1>5
  <1>. HIDE DEF X
  <1>7. 0 \in P
    BY <1>2, <1>6 DEF AreDeltas
  <1>8. ASSUME NEW i \in 1..n, i - 1 \in P
        PROVE  i \in P
    BY <1>2, <1>6, <1>8 DEF AreDeltas
  <1>9. 0..n \subseteq P
    <2>. HIDE DEF P
    <2>. QED
      BY <1>7, <1>8, StepInduction
  <1>. HIDE DEF deciding
  <1>10. CASE deciding = {}
    <2>1. n \in 0..n
      OBVIOUS
    <2>2. X[n] = d[n]
      BY <1>9, <2>1
    <2>. QED
      BY <1>1, <1>3, <1>4, <1>10, <2>2
  <1>11. CASE deciding # {}
    <2>1. Min(deciding) \in 1..n
      <3>1. deciding \in SUBSET Nat /\ deciding \subseteq 1..n
        BY <1>4 DEF Deciding
      <3>. QED
        BY <1>11, <3>1, MinOf
    <2>2. Min(deciding) - 1 \in 0..n
      BY <2>1
    <2>3. X[Min(deciding) - 1] = d[Min(deciding) - 1]
      BY <1>9, <2>2
    <2>. QED
      BY <1>1, <1>3, <1>4, <1>11, <2>1, <2>3
  <1>. QED
    BY <1>10, <1>11

\* None of the first i ranges decides on the position.
Passes(F, i, position) == \A j \in 1..i : ~Decides(F[j], position)

LEMMA FirstDeciding ==
    ASSUME NEW n \in Nat, NEW F, NEW i \in 1..n, NEW position,
           Passes(F, i - 1, position), Decides(F[i], position)
    PROVE  Deciding(n, F, position) # {} /\ Min(Deciding(n, F, position)) = i
  <1>1. i \in Deciding(n, F, position)
    BY DEF Deciding
  <1>2. Deciding(n, F, position) \in SUBSET Nat
    BY DEF Deciding
  <1>3. /\ Min(Deciding(n, F, position)) \in Deciding(n, F, position)
        /\ Min(Deciding(n, F, position)) <= i
    BY <1>1, <1>2, MinOf
  <1>4. ASSUME NEW j \in Deciding(n, F, position)
        PROVE  ~(j < i)
    <2>1. SUFFICES ASSUME j < i PROVE FALSE
      OBVIOUS
    <2>2. j \in 1..(i - 1) /\ Decides(F[j], position)
      BY <2>1 DEF Deciding
    <2>. QED
      BY <2>2 DEF Passes
  <1>5. Min(Deciding(n, F, position)) \in Nat
    BY <1>2, <1>3
  <1>. QED
    BY <1>1, <1>3, <1>4, <1>5

\* A position behind i edits and before the next one.
LEMMA MapsBeside ==
    ASSUME NEW n \in Nat, NEW F, NEW G, NEW d, AreDeltas(d, n, F, G),
           NEW from, NEW to, AreSides(from, to, n, F, G), NEW position,
           NEW i \in 0..n, Passes(F, i, position),
           i < n => Precedes(position, F[i + 1].begin)
    PROVE  MapPosition(from, to, position) = Moved(d[i], position)
  <1>1. CASE i = n
    <2>1. Deciding(n, F, position) = {}
      BY <1>1 DEF Deciding, Passes
    <2>. QED
      BY <1>1, <2>1, MapPositionIs
  <1>2. CASE i < n
    <2>1. i + 1 \in 1..n /\ (i + 1) - 1 = i
      BY <1>2
    <2>2. Precedes(position, F[i + 1].begin) /\ Decides(F[i + 1], position)
      BY <1>2 DEF Decides
    <2>3. Deciding(n, F, position) # {} /\ Min(Deciding(n, F, position)) = i + 1
      BY <2>1, <2>2, FirstDeciding
    <2>. QED
      BY <2>1, <2>2, <2>3, MapPositionIs
  <1>. QED
    BY <1>1, <1>2

\* A position inside an edit.
LEMMA MapsInside ==
    ASSUME NEW n \in Nat, NEW F, NEW G, NEW d, AreDeltas(d, n, F, G),
           NEW from, NEW to, AreSides(from, to, n, F, G), NEW position,
           NEW i \in 1..n, Passes(F, i - 1, position), Inside(F[i], position)
    PROVE  MapPosition(from, to, position) = G[i].begin
  <1>1. Decides(F[i], position) /\ ~Precedes(position, F[i].begin)
    BY DEF Decides, Inside
  <1>2. Deciding(n, F, position) # {} /\ Min(Deciding(n, F, position)) = i
    BY <1>1, FirstDeciding
  <1>. QED
    BY <1>1, <1>2, MapPositionIs

-----------------------------------------------------------------------------
(* The transformed text                                                    *)

\* n sorted edits that replace what is from place b[i] to e[i] of s by new[i].
Places(s, sorted, n, b, e, new) ==
    /\ n \in Nat /\ Len(sorted) = n
    /\ b \in [1..n -> 0..Len(s)] /\ e \in [0..n -> 0..Len(s)] /\ new \in [1..n -> Text]
    /\ e[0] = 0
    /\ \A i \in 1..n :
           /\ e[i - 1] <= b[i] /\ b[i] <= e[i]
           /\ sorted[i].range = Between(PositionOf(s, b[i]), PositionOf(s, e[i]))
           /\ sorted[i].newText = new[i]

\* The transformed text up to the end of each edit.
AreTexts(out, s, n, b, e, new) ==
    /\ out \in [0..n -> Text]
    /\ out[0] = <<>>
    /\ \A i \in 1..n : out[i] = (out[i - 1] \o SubSeq(s, e[i - 1] + 1, b[i])) \o new[i]

LEMMA PlaceAt ==
    ASSUME NEW s \in Text, NEW sorted, NEW n, NEW b, NEW e, NEW new, Places(s, sorted, n, b, e, new),
           NEW i \in 1..n
    PROVE  /\ n \in Nat /\ i \in Nat /\ i \in 0..n /\ i - 1 \in 0..n /\ Len(s) \in Nat
           /\ b[i] \in 0..Len(s) /\ e[i] \in 0..Len(s) /\ e[i - 1] \in 0..Len(s)
           /\ b[i] \in Nat /\ e[i] \in Nat /\ e[i - 1] \in Nat
           /\ e[i - 1] <= b[i] /\ b[i] <= e[i]
           /\ new[i] \in Text /\ Len(new[i]) \in Nat
           /\ sorted[i].range = Between(PositionOf(s, b[i]), PositionOf(s, e[i]))
           /\ sorted[i].newText = new[i]
  <1>1. n \in Nat /\ Len(s) \in Nat
    BY DEF Places, Text
  <1>2. i \in Nat /\ i \in 0..n /\ i - 1 \in 0..n
    BY <1>1
  <1>3. /\ b[i] \in 0..Len(s) /\ e[i] \in 0..Len(s) /\ e[i - 1] \in 0..Len(s)
        /\ new[i] \in Text
    BY <1>2 DEF Places
  <1>4. Len(new[i]) \in Nat
    BY <1>3 DEF Text
  <1>5. b[i] \in Nat /\ e[i] \in Nat /\ e[i - 1] \in Nat
    BY <1>1, <1>3
  <1>. QED
    BY <1>1, <1>2, <1>3, <1>4, <1>5 DEF Places

LEMMA BetweenFields ==
    ASSUME NEW o, NEW p
    PROVE  Between(o, p).begin = o /\ Between(o, p).end = p
  BY DEF Between

LEMMA TextsExist ==
    ASSUME NEW s \in Text, NEW sorted, NEW n, NEW b, NEW e, NEW new, Places(s, sorted, n, b, e, new)
    PROVE  \E out : AreTexts(out, s, n, b, e, new)
  <1> DEFINE After(i, text) == (text \o SubSeq(s, e[i - 1] + 1, b[i])) \o new[i]
             step == [p \in (1..n) \X Text |-> After(p[1], p[2])]
  <1>1. n \in Nat /\ <<>> \in Text
    BY DEF Places, Text
  <1>2. ASSUME NEW i \in 1..n, NEW text \in Text
        PROVE  After(i, text) \in Text
    <2>1. e[i - 1] \in 0..Len(s) /\ b[i] \in e[i - 1]..Len(s) /\ new[i] \in Text
      BY PlaceAt
    <2>2. SubSeq(s, e[i - 1] + 1, b[i]) \in Text
      BY <2>1, PartOfText DEF Text
    <2>3. text \o SubSeq(s, e[i - 1] + 1, b[i]) \in Text
      BY <2>2, ConcatEntries DEF Text
    <2>. QED
      BY <2>1, <2>3, ConcatEntries DEF Text
  <1>. HIDE DEF After
  <1>3. step \in [(1..n) \X Text -> Text]
    BY <1>2
  <1>4. \A i \in 1..n, text \in Text : step[<<i, text>>] = After(i, text)
    OBVIOUS
  <1>. HIDE DEF step
  <1>5. PICK out \in [0..n -> Text] : FollowsStep(out, n, <<>>, step)
    BY <1>1, <1>3, StepRecursion
  <1>6. ASSUME NEW i \in 1..n
        PROVE  out[i] = After(i, out[i - 1])
    <2>1. i - 1 \in 0..n
      BY <1>1
    <2>2. out[i] = step[<<i, out[i - 1]>>] /\ out[i - 1] \in Text
      BY <1>5, <2>1 DEF FollowsStep
    <2>. QED
      BY <1>4, <2>2
  <1>7. out \in [0..n -> Text] /\ out[0] = <<>>
    BY <1>5 DEF FollowsStep
  <1>. QED
    BY <1>6, <1>7 DEF AreTexts, After

\* The deltas of the pass over the edits.
Pass(delta, s, sorted, n) ==
    /\ delta \in [0..n -> Delta]
    /\ delta[0] = NoDelta
    /\ \A i \in 1..n :
           delta[i] = Added(delta[i - 1], sorted[i].range, TransformedRange(delta[i - 1], sorted[i]))

LEMMA TransformedRangeIs ==
    ASSUME NEW d \in Delta, NEW o \in Pos, NEW p \in Pos, NEW text \in Text,
           NEW edit, edit.range = Between(o, p), edit.newText = text
    PROVE  /\ Claims(d, o, TextSize(text), TransformedRange(d, edit))
           /\ Between(o, p) \in IntRange
  <1>1. edit.range.begin = o
    BY BetweenFields
  <1>2. TextSize(text) \in Pos
    <2>1. Len(text) \in 0..Len(text)
      BY DEF Text
    <2>. QED
      BY <2>1, PositionSteps DEF TextSize
  <1>3. o \in IntPos /\ p \in IntPos
    BY PositionFields
  <1>4. Moved(d, o) \in IntPos
    BY <1>3, MovedType
  <1>5. TransformedRange(d, edit) = [begin |-> Moved(d, o), end |-> Plus(Moved(d, o), TextSize(text))]
    BY <1>1 DEF TransformedRange, TransformedStart, Plus
  <1>6. Plus(Moved(d, o), TextSize(text)) \in IntPos
    BY <1>2, <1>4, PlusType
  <1>7. Between(o, p) \in IntRange
    BY <1>3 DEF Between, IntRange
  <1>. QED
    BY <1>4, <1>5, <1>6, <1>7 DEF Claims, IntRange

LEMMA PassExists ==
    ASSUME NEW s \in Text, NEW sorted, NEW n, NEW b, NEW e, NEW new, Places(s, sorted, n, b, e, new)
    PROVE  \E delta : Pass(delta, s, sorted, n)
  <1> DEFINE After(i, d) == Added(d, sorted[i].range, TransformedRange(d, sorted[i]))
             step == [p \in (1..n) \X Delta |-> After(p[1], p[2])]
  <1>1. n \in Nat /\ NoDelta \in Delta
    BY DEF Places, NoDelta, Delta
  <1>2. ASSUME NEW i \in 1..n, NEW d \in Delta
        PROVE  After(i, d) \in Delta
    <2>1. /\ b[i] \in 0..Len(s) /\ e[i] \in 0..Len(s) /\ new[i] \in Text
          /\ sorted[i].range = Between(PositionOf(s, b[i]), PositionOf(s, e[i]))
          /\ sorted[i].newText = new[i]
      BY PlaceAt
    <2>2. PositionOf(s, b[i]) \in Pos /\ PositionOf(s, e[i]) \in Pos
      BY <2>1, PositionSteps
    <2>3. /\ Claims(d, PositionOf(s, b[i]), TextSize(new[i]), TransformedRange(d, sorted[i]))
          /\ Between(PositionOf(s, b[i]), PositionOf(s, e[i])) \in IntRange
      BY <2>1, <2>2, TransformedRangeIs
    <2>4. sorted[i].range \in IntRange /\ TransformedRange(d, sorted[i]) \in IntRange
      BY <2>1, <2>3 DEF Claims
    <2>. QED
      BY <2>4, AddedType
  <1>. HIDE DEF After
  <1>3. step \in [(1..n) \X Delta -> Delta]
    BY <1>2
  <1>4. \A i \in 1..n, d \in Delta : step[<<i, d>>] = After(i, d)
    OBVIOUS
  <1>. HIDE DEF step
  <1>5. PICK delta \in [0..n -> Delta] : FollowsStep(delta, n, NoDelta, step)
    BY <1>1, <1>3, StepRecursion
  <1>6. ASSUME NEW i \in 1..n
        PROVE  delta[i] = After(i, delta[i - 1])
    <2>1. i - 1 \in 0..n
      BY <1>1
    <2>2. delta[i] = step[<<i, delta[i - 1]>>] /\ delta[i - 1] \in Delta
      BY <1>5, <2>1 DEF FollowsStep
    <2>. QED
      BY <1>4, <2>2
  <1>7. delta \in [0..n -> Delta] /\ delta[0] = NoDelta
    BY <1>5 DEF FollowsStep
  <1>. QED
    BY <1>6, <1>7 DEF Pass, After

\* What fromEdits returns.
Makes(result, s, sorted, n, b, e, new, out, delta) ==
    /\ result.text = out[n] \o SubSeq(s, e[n] + 1, Len(s))
    /\ result.applied =
           [i \in 1..n |-> [original |-> Between(PositionOf(s, b[i]), PositionOf(s, e[i])),
                            newText |-> new[i],
                            transformed |-> TransformedRange(delta[i - 1], sorted[i])]]

LEMMA FromEditsIs ==
    ASSUME NEW s \in Text, NEW sorted, NEW n, NEW b, NEW e, NEW new, Places(s, sorted, n, b, e, new),
           NEW out, AreTexts(out, s, n, b, e, new), NEW delta, Pass(delta, s, sorted, n)
    PROVE  Makes(FromEdits(s, sorted), s, sorted, n, b, e, new, out, delta)
  <1> DEFINE start(i) == OffsetOf(s, sorted[i].range.begin)
             last(i) == IF i = 0 THEN 0 ELSE OffsetOf(s, sorted[i].range.end)
             DeltaDef(g) == [i \in 0..Len(sorted) |->
                                IF i = 0 THEN NoDelta
                                ELSE Added(g[i - 1], sorted[i].range, TransformedRange(g[i - 1], sorted[i]))]
             TextDef(g) == [i \in 0..Len(sorted) |->
                               IF i = 0 THEN <<>>
                               ELSE (g[i - 1] \o SubSeq(s, last(i - 1) + 1, start(i))) \o sorted[i].newText]
             D == CHOOSE g : g = DeltaDef(g)
             T == CHOOSE g : g = TextDef(g)
             Result(d, t) == [text |-> t[Len(sorted)] \o SubSeq(s, last(Len(sorted)) + 1, Len(s)),
                              applied |-> [i \in 1..Len(sorted) |->
                                              [original |-> sorted[i].range,
                                               newText |-> sorted[i].newText,
                                               transformed |-> TransformedRange(d[i - 1], sorted[i])]]]
  <1>1. FromEdits(s, sorted) = Result(D, T)
    BY DEF FromEdits
  <1>2. n \in Nat /\ Len(sorted) = n /\ e[0] = 0 /\ Len(s) \in Nat
    BY DEF Places, Text
  <1>3. ASSUME NEW i \in 1..n
        PROVE  start(i) = b[i] /\ last(i) = e[i]
    <2>1. /\ b[i] \in 0..Len(s) /\ e[i] \in 0..Len(s)
          /\ sorted[i].range = Between(PositionOf(s, b[i]), PositionOf(s, e[i])) /\ i \in Nat /\ i # 0
      BY PlaceAt
    <2>2. sorted[i].range.begin = PositionOf(s, b[i]) /\ sorted[i].range.end = PositionOf(s, e[i])
      BY <2>1, BetweenFields
    <2>3. OffsetOf(s, sorted[i].range.begin) = b[i] /\ OffsetOf(s, sorted[i].range.end) = e[i]
      BY <2>1, <2>2, OffsetOfPosition
    <2>. QED
      BY <2>1, <2>3
  <1>4. ASSUME NEW i \in 0..n
        PROVE  last(i) = e[i]
    <2>1. i = 0 \/ i \in 1..n
      BY <1>2
    <2>. QED
      BY <1>2, <1>3, <2>1
  <1>. HIDE DEF start, last
  <1>5. \A g : /\ DeltaDef(g)[0] = NoDelta
               /\ \A i \in 1..n : DeltaDef(g)[i] = Added(g[i - 1], sorted[i].range, TransformedRange(g[i - 1], sorted[i]))
               /\ DeltaDef(g) = [i \in 0..n |-> DeltaDef(g)[i]]
    BY <1>2
  <1>6. \A g : /\ TextDef(g)[0] = <<>>
               /\ \A i \in 1..n : TextDef(g)[i] = (g[i - 1] \o SubSeq(s, e[i - 1] + 1, b[i])) \o new[i]
               /\ TextDef(g) = [i \in 0..n |-> TextDef(g)[i]]
    <2>. TAKE g
    <2>1. TextDef(g)[0] = <<>> /\ TextDef(g) = [i \in 0..n |-> TextDef(g)[i]]
      BY <1>2
    <2>2. ASSUME NEW i \in 1..n
          PROVE  TextDef(g)[i] = (g[i - 1] \o SubSeq(s, e[i - 1] + 1, b[i])) \o new[i]
      <3>1. i \in 0..Len(sorted) /\ i # 0 /\ i - 1 \in 0..n
        BY <1>2
      <3>2. start(i) = b[i] /\ last(i - 1) = e[i - 1] /\ sorted[i].newText = new[i]
        BY <1>3, <1>4, <3>1, PlaceAt
      <3>. QED
        BY <3>1, <3>2
    <2>. QED
      BY <2>1, <2>2
  <1>. HIDE DEF DeltaDef, TextDef
  <1>7. delta = DeltaDef(delta)
    <2>1. \A i \in 0..n : delta[i] = DeltaDef(delta)[i]
      <3>. TAKE i \in 0..n
      <3>1. i = 0 \/ i \in 1..n
        BY <1>2
      <3>. QED
        BY <1>5, <3>1 DEF Pass
    <2>2. delta = [i \in 0..n |-> delta[i]]
      BY DEF Pass
    <2>. QED
      BY <1>5, <2>1, <2>2
  <1>8. out = TextDef(out)
    <2>1. \A i \in 0..n : out[i] = TextDef(out)[i]
      <3>. TAKE i \in 0..n
      <3>1. i = 0 \/ i \in 1..n
        BY <1>2
      <3>. QED
        BY <1>6, <3>1 DEF AreTexts
    <2>2. out = [i \in 0..n |-> out[i]]
      BY DEF AreTexts
    <2>. QED
      BY <1>6, <2>1, <2>2
  <1>9. D = DeltaDef(D) /\ T = TextDef(T)
    BY <1>7, <1>8
  <1>. HIDE DEF D, T
  <1> DEFINE R == {i \in Nat : D[i] = delta[i] /\ T[i] = out[i]}
  <1>10. 0 \in R
    BY <1>5, <1>6, <1>9 DEF Pass, AreTexts
  <1>11. ASSUME NEW i \in 1..n, i - 1 \in R
         PROVE  i \in R
    <2>1. D[i - 1] = delta[i - 1] /\ T[i - 1] = out[i - 1]
      BY <1>11
    <2>2. D[i] = delta[i]
      BY <1>5, <1>9, <2>1 DEF Pass
    <2>3. T[i] = out[i]
      BY <1>6, <1>9, <2>1 DEF AreTexts
    <2>. QED
      BY <1>2, <2>2, <2>3
  <1>12. 0..n \subseteq R
    <2>. HIDE DEF R
    <2>. QED
      BY <1>2, <1>10, <1>11, StepInduction
  <1>13. FromEdits(s, sorted).text = out[n] \o SubSeq(s, e[n] + 1, Len(s))
    <2>1. n \in 0..n
      BY <1>2
    <2>2. T[n] = out[n] /\ last(n) = e[n]
      BY <1>4, <1>12, <2>1
    <2>3. Result(D, T).text = T[Len(sorted)] \o SubSeq(s, last(Len(sorted)) + 1, Len(s))
      OBVIOUS
    <2>. HIDE DEF Result
    <2>. QED
      BY <1>1, <1>2, <2>2, <2>3, Zenon
  <1>14. FromEdits(s, sorted).applied =
             [i \in 1..n |-> [original |-> Between(PositionOf(s, b[i]), PositionOf(s, e[i])),
                              newText |-> new[i],
                              transformed |-> TransformedRange(delta[i - 1], sorted[i])]]
    <2>1. ASSUME NEW i \in 1..n
          PROVE  /\ sorted[i].range = Between(PositionOf(s, b[i]), PositionOf(s, e[i]))
                 /\ sorted[i].newText = new[i]
                 /\ D[i - 1] = delta[i - 1]
      <3>1. i - 1 \in 0..n
        BY <1>2
      <3>. QED
        BY <1>12, <3>1, PlaceAt
    <2>. QED
      BY <1>1, <1>2, <2>1
  <1>. QED
    BY <1>13, <1>14 DEF Makes

\* Text t begins with text p.
Begins(t, p) == Len(p) <= Len(t) /\ \A k \in 1..Len(p) : t[k] = p[k]

\* From place c on, n bytes of t are those from place a on in s.
Copied(t, c, s, a, n) == c + n <= Len(t) /\ a + n <= Len(s) /\ \A k \in 1..n : t[c + k] = s[a + k]

LEMMA BeginsConcat ==
    ASSUME NEW p \in Text, NEW q \in Text
    PROVE  /\ p \o q \in Text /\ Len(p \o q) = Len(p) + Len(q)
           /\ Len(p) \in Nat /\ Len(q) \in Nat
           /\ Begins(p \o q, p) /\ Copied(p \o q, Len(p), q, 0, Len(q))
  <1>1. /\ p \o q \in Text /\ Len(p \o q) = Len(p) + Len(q)
        /\ \A k \in 1..Len(p) : (p \o q)[k] = p[k]
        /\ \A k \in 1..Len(q) : (p \o q)[Len(p) + k] = q[k]
    BY ConcatEntries DEF Text
  <1>2. Len(p) \in Nat /\ Len(q) \in Nat
    BY DEF Text
  <1>3. \A k \in 1..Len(q) : 0 + k = k
    OBVIOUS
  <1>. QED
    BY <1>1, <1>2, <1>3 DEF Begins, Copied

LEMMA BeginsTransitive ==
    ASSUME NEW t \in Text, NEW p \in Text, NEW q \in Text, Begins(t, p), Begins(p, q)
    PROVE  Begins(t, q)
  <1>1. Len(t) \in Nat /\ Len(p) \in Nat /\ Len(q) \in Nat
    BY DEF Text
  <1>2. \A k \in 1..Len(q) : k \in 1..Len(p)
    BY <1>1 DEF Begins
  <1>. QED
    BY <1>1, <1>2 DEF Begins

LEMMA CopiedToo ==
    ASSUME NEW t \in Text, NEW p \in Text, Begins(t, p), NEW s \in Text,
           NEW c \in Nat, NEW a \in Nat, NEW n \in Nat, Copied(p, c, s, a, n)
    PROVE  Copied(t, c, s, a, n)
  <1>1. Len(t) \in Nat /\ Len(p) \in Nat
    BY DEF Text
  <1>2. c + n <= Len(p) /\ a + n <= Len(s) /\ \A k \in 1..n : p[c + k] = s[a + k]
    BY DEF Copied
  <1>3. Len(p) <= Len(t) /\ \A k \in 1..Len(p) : t[k] = p[k]
    BY DEF Begins
  <1>4. c + n <= Len(t)
    BY <1>1, <1>2, <1>3
  <1>5. ASSUME NEW k \in 1..n
        PROVE  t[c + k] = s[a + k]
    <2>1. c + k \in 1..Len(p)
      BY <1>1, <1>2
    <2>. QED
      BY <1>2, <1>3, <2>1
  <1>. QED
    BY <1>2, <1>4, <1>5 DEF Copied

LEMMA CopiedPart ==
    ASSUME NEW s \in Text, NEW i \in 0..Len(s), NEW j \in i..Len(s), NEW t \in Text, NEW c \in Nat,
           Copied(t, c, SubSeq(s, i + 1, j), 0, j - i)
    PROVE  Copied(t, c, s, i, j - i)
  <1>1. Len(s) \in Nat /\ \A k \in 1..(j - i) : SubSeq(s, i + 1, j)[k] = s[i + k]
    BY PartOfText DEF Text
  <1>2. \A k \in 1..(j - i) : 0 + k = k
    OBVIOUS
  <1>3. i + (j - i) <= Len(s)
    BY <1>1
  <1>. QED
    BY <1>1, <1>2, <1>3 DEF Copied

\* Text u is t with a part of s and a new text behind it.
Grown(s, i, j, t, new, u) ==
    /\ u \in Text /\ Len(t) \in Nat /\ Len(new) \in Nat /\ j - i \in Nat
    /\ Len(u) = (Len(t) + (j - i)) + Len(new)
    /\ Begins(u, t)
    /\ Copied(u, Len(t), s, i, j - i)
    /\ Copied(u, Len(t) + (j - i), new, 0, Len(new))

LEMMA TextStep ==
    ASSUME NEW s \in Text, NEW i \in 0..Len(s), NEW j \in i..Len(s), NEW t \in Text, NEW new \in Text,
           NEW u, u = (t \o SubSeq(s, i + 1, j)) \o new
    PROVE  Grown(s, i, j, t, new, u)
  <1> DEFINE part == SubSeq(s, i + 1, j)
             v == t \o part
  <1>1. part \in Text /\ Len(part) = j - i /\ j - i \in Nat
    BY PartOfText DEF Text
  <1>. HIDE DEF part
  <1>2. /\ v \in Text /\ Len(v) = Len(t) + (j - i)
        /\ Len(t) \in Nat
        /\ Begins(v, t) /\ Copied(v, Len(t), part, 0, j - i)
    BY <1>1, BeginsConcat
  <1>. HIDE DEF v
  <1>3. u = v \o new
    BY DEF v, part
  <1>4. /\ u \in Text /\ Len(u) = Len(v) + Len(new) /\ Len(new) \in Nat
        /\ Begins(u, v) /\ Copied(u, Len(v), new, 0, Len(new))
    <2>1. v \in Text
      BY <1>2
    <2>2. /\ v \o new \in Text /\ Len(v \o new) = Len(v) + Len(new) /\ Len(new) \in Nat
          /\ Begins(v \o new, v) /\ Copied(v \o new, Len(v), new, 0, Len(new))
      BY <2>1, BeginsConcat
    <2>. QED
      BY <1>3, <2>2
  <1>5. Begins(u, t)
    BY <1>2, <1>4, BeginsTransitive
  <1>6. Copied(v, Len(t), s, i, j - i)
    BY <1>2, CopiedPart DEF part
  <1>7. Copied(u, Len(t), s, i, j - i)
    <2>1. i \in Nat
      BY DEF Text
    <2>. QED
      BY <1>1, <1>2, <1>4, <1>6, <2>1, CopiedToo
  <1>. QED
    BY <1>1, <1>2, <1>4, <1>5, <1>7 DEF Grown

\* Where the source and the new texts are in the transformed text t, which has length
\* L[i] up to the end of the i-th edit.
Layout(s, t, n, b, e, new, L) ==
    /\ t \in Text
    /\ L \in [0..n -> Nat] /\ L[0] = 0
    /\ \A i \in 1..n :
           /\ L[i] = (L[i - 1] + (b[i] - e[i - 1])) + Len(new[i])
           /\ Copied(t, L[i - 1], s, e[i - 1], b[i] - e[i - 1])
           /\ Copied(t, L[i - 1] + (b[i] - e[i - 1]), new[i], 0, Len(new[i]))
    /\ Copied(t, L[n], s, e[n], Len(s) - e[n])
    /\ Len(t) = L[n] + (Len(s) - e[n])

LEMMA TextLayout ==
    ASSUME NEW s \in Text, NEW sorted, NEW n, NEW b, NEW e, NEW new, Places(s, sorted, n, b, e, new),
           NEW out, AreTexts(out, s, n, b, e, new)
    PROVE  Layout(s, out[n] \o SubSeq(s, e[n] + 1, Len(s)), n, b, e, new, [i \in 0..n |-> Len(out[i])])
  <1> DEFINE t == out[n] \o SubSeq(s, e[n] + 1, Len(s))
             L == [i \in 0..n |-> Len(out[i])]
  <1>1. n \in Nat /\ Len(s) \in Nat /\ n \in 0..n /\ e[n] \in 0..Len(s) /\ out[n] \in Text
    BY DEF Places, Text, AreTexts
  <1>2. /\ t \in Text /\ Begins(t, out[n]) /\ Len(t) = Len(out[n]) + (Len(s) - e[n])
        /\ Copied(t, Len(out[n]), s, e[n], Len(s) - e[n])
    <2> DEFINE part == SubSeq(s, e[n] + 1, Len(s))
    <2>1. Len(s) \in e[n]..Len(s)
      BY <1>1
    <2>2. part \in Text /\ Len(part) = Len(s) - e[n]
      BY <1>1, <2>1, PartOfText DEF Text
    <2>. HIDE DEF part
    <2>3. /\ out[n] \o part \in Text /\ Len(out[n] \o part) = Len(out[n]) + Len(part)
          /\ Len(out[n]) \in Nat
          /\ Begins(out[n] \o part, out[n]) /\ Copied(out[n] \o part, Len(out[n]), part, 0, Len(part))
      BY <1>1, <2>2, BeginsConcat
    <2>4. Copied(t, Len(out[n]), SubSeq(s, e[n] + 1, Len(s)), 0, Len(s) - e[n]) /\ t \in Text /\ Len(out[n]) \in Nat
      BY <2>2, <2>3 DEF part
    <2>. HIDE DEF t
    <2>5. Copied(t, Len(out[n]), s, e[n], Len(s) - e[n])
      BY <1>1, <2>1, <2>4, CopiedPart
    <2>. QED
      BY <2>2, <2>3, <2>5 DEF t, part
  <1>. HIDE DEF t
  <1>3. ASSUME NEW i \in 1..n
        PROVE  /\ out[i] \in Text /\ out[i - 1] \in Text
               /\ Len(out[i - 1]) \in Nat /\ Len(new[i]) \in Nat /\ b[i] - e[i - 1] \in Nat
               /\ Len(out[i]) = (Len(out[i - 1]) + (b[i] - e[i - 1])) + Len(new[i])
               /\ Begins(out[i], out[i - 1])
               /\ Copied(out[i], Len(out[i - 1]), s, e[i - 1], b[i] - e[i - 1])
               /\ Copied(out[i], Len(out[i - 1]) + (b[i] - e[i - 1]), new[i], 0, Len(new[i]))
    <2>1. /\ e[i - 1] \in 0..Len(s) /\ b[i] \in 0..Len(s) /\ e[i - 1] <= b[i] /\ new[i] \in Text
          /\ i - 1 \in 0..n /\ i \in 0..n
      BY PlaceAt
    <2>2. b[i] \in e[i - 1]..Len(s)
      BY <1>1, <2>1
    <2>3. /\ out[i - 1] \in Text /\ out[i] = (out[i - 1] \o SubSeq(s, e[i - 1] + 1, b[i])) \o new[i]
      BY <2>1 DEF AreTexts
    <2>4. Grown(s, e[i - 1], b[i], out[i - 1], new[i], out[i])
      BY <2>1, <2>2, <2>3, TextStep
    <2>. QED
      BY <2>3, <2>4 DEF Grown
  <1>4. ASSUME NEW i \in 0..n
        PROVE  Begins(t, out[i])
    <2> DEFINE S == {m \in Nat : m <= n => Begins(t, out[n - m])}
    <2>1. 0 \in S
      <3>1. n - 0 = n
        BY <1>1
      <3>. QED
        BY <1>2, <3>1
    <2>2. ASSUME NEW m \in 1..n, m - 1 \in S
          PROVE  m \in S
      <3>1. n - (m - 1) \in 1..n /\ (n - (m - 1)) - 1 = n - m /\ m - 1 <= n /\ m \in Nat
        BY <1>1
      <3>2. Begins(t, out[n - (m - 1)])
        BY <2>2, <3>1
      <3>3. /\ Begins(out[n - (m - 1)], out[n - m])
            /\ out[n - (m - 1)] \in Text /\ out[n - m] \in Text
        BY <1>3, <3>1
      <3>4. Begins(t, out[n - m])
        BY <1>2, <3>2, <3>3, BeginsTransitive
      <3>. QED
        BY <3>1, <3>4
    <2>3. 0..n \subseteq S
      <3>. HIDE DEF S
      <3>. QED
        BY <1>1, <2>1, <2>2, StepInduction
    <2>4. n - i \in 0..n /\ n - (n - i) = i /\ n - i <= n
      BY <1>1
    <2>. QED
      BY <2>3, <2>4
  <1>5. ASSUME NEW i \in 1..n
        PROVE  /\ L[i] = (L[i - 1] + (b[i] - e[i - 1])) + Len(new[i])
               /\ Copied(t, L[i - 1], s, e[i - 1], b[i] - e[i - 1])
               /\ Copied(t, L[i - 1] + (b[i] - e[i - 1]), new[i], 0, Len(new[i]))
    <2>1. i \in 0..n /\ i - 1 \in 0..n /\ new[i] \in Text /\ e[i - 1] \in Nat
      BY PlaceAt
    <2>2. L[i] = Len(out[i]) /\ L[i - 1] = Len(out[i - 1])
      BY <2>1
    <2>. HIDE DEF L
    <2>3. /\ out[i] \in Text /\ out[i - 1] \in Text
          /\ Len(out[i - 1]) \in Nat /\ Len(new[i]) \in Nat /\ b[i] - e[i - 1] \in Nat
          /\ Len(out[i]) = (Len(out[i - 1]) + (b[i] - e[i - 1])) + Len(new[i])
          /\ Copied(out[i], Len(out[i - 1]), s, e[i - 1], b[i] - e[i - 1])
          /\ Copied(out[i], Len(out[i - 1]) + (b[i] - e[i - 1]), new[i], 0, Len(new[i]))
      BY <1>3
    <2>4. Begins(t, out[i])
      BY <1>4, <2>1
    <2>5. Copied(t, Len(out[i - 1]), s, e[i - 1], b[i] - e[i - 1])
      BY <1>2, <2>1, <2>3, <2>4, CopiedToo
    <2>6. Len(out[i - 1]) + (b[i] - e[i - 1]) \in Nat /\ 0 \in Nat
      BY <2>3
    <2>7. Copied(t, Len(out[i - 1]) + (b[i] - e[i - 1]), new[i], 0, Len(new[i]))
      BY <1>2, <2>1, <2>3, <2>4, <2>6, CopiedToo
    <2>. QED
      BY <2>2, <2>3, <2>5, <2>7
  <1>6. L \in [0..n -> Nat] /\ L[0] = 0 /\ L[n] = Len(out[n])
    <2>1. \A i \in 0..n : Len(out[i]) \in Nat
      BY DEF AreTexts, Text
    <2>2. Len(out[0]) = 0
      BY DEF AreTexts
    <2>3. 0 \in 0..n
      BY <1>1
    <2>. QED
      BY <1>1, <2>1, <2>2, <2>3
  <1>. HIDE DEF L
  <1>7. Layout(s, t, n, b, e, new, L)
    BY <1>2, <1>5, <1>6 DEF Layout
  <1>. QED
    BY <1>7 DEF t, L

-----------------------------------------------------------------------------
(* The mapping of sorted edits                                             *)

\* n edits that replace what is from place b[i] to e[i] of s by new[i], the text t they
\* make, the length L[i] of it up to the end of the i-th edit, and the positions there.
Replaced(s, t, n, b, e, new, L, O, P, B, Q) ==
    /\ n \in Nat
    /\ b \in [1..n -> 0..Len(s)] /\ e \in [0..n -> 0..Len(s)] /\ new \in [1..n -> Text]
    /\ e[0] = 0
    /\ \A i \in 1..n : e[i - 1] <= b[i] /\ b[i] <= e[i]
    /\ Layout(s, t, n, b, e, new, L)
    /\ O = [i \in 1..n |-> PositionOf(s, b[i])]
    /\ P = [i \in 0..n |-> PositionOf(s, e[i])]
    /\ B = [i \in 1..n |-> PositionOf(t, L[i - 1] + (b[i] - e[i - 1]))]
    /\ Q = [i \in 0..n |-> PositionOf(t, L[i])]

LEMMA ReplacedAt ==
    ASSUME NEW s \in Text, NEW t, NEW n, NEW b, NEW e, NEW new, NEW L, NEW O, NEW P, NEW B, NEW Q,
           Replaced(s, t, n, b, e, new, L, O, P, B, Q), NEW i \in 1..n
    PROVE  /\ n \in Nat /\ i \in Nat /\ i \in 0..n /\ i - 1 \in 0..n /\ Len(s) \in Nat
           /\ b[i] \in 0..Len(s) /\ e[i] \in 0..Len(s) /\ e[i - 1] \in 0..Len(s)
           /\ b[i] \in Nat /\ e[i] \in Nat /\ e[i - 1] \in Nat /\ b[i] - e[i - 1] \in Nat
           /\ e[i - 1] <= b[i] /\ b[i] <= e[i]
           /\ new[i] \in Text /\ Len(new[i]) \in Nat
           /\ L[i] \in Nat /\ L[i - 1] \in Nat
           /\ L[i] = (L[i - 1] + (b[i] - e[i - 1])) + Len(new[i])
           /\ t \in Text /\ Len(t) \in Nat
           /\ Copied(t, L[i - 1], s, e[i - 1], b[i] - e[i - 1])
           /\ Copied(t, L[i - 1] + (b[i] - e[i - 1]), new[i], 0, Len(new[i]))
           /\ O[i] = PositionOf(s, b[i]) /\ P[i] = PositionOf(s, e[i]) /\ P[i - 1] = PositionOf(s, e[i - 1])
           /\ B[i] = PositionOf(t, L[i - 1] + (b[i] - e[i - 1]))
           /\ Q[i] = PositionOf(t, L[i]) /\ Q[i - 1] = PositionOf(t, L[i - 1])
  <1>1. n \in Nat /\ Len(s) \in Nat
    BY DEF Replaced, Text
  <1>2. i \in Nat /\ i \in 0..n /\ i - 1 \in 0..n
    BY <1>1
  <1>3. /\ b[i] \in 0..Len(s) /\ e[i] \in 0..Len(s) /\ e[i - 1] \in 0..Len(s)
        /\ new[i] \in Text /\ e[i - 1] <= b[i] /\ b[i] <= e[i]
    BY <1>2 DEF Replaced
  <1>4. Len(new[i]) \in Nat
    BY <1>3 DEF Text
  <1>5. b[i] \in Nat /\ e[i] \in Nat /\ e[i - 1] \in Nat /\ b[i] - e[i - 1] \in Nat
    BY <1>1, <1>3
  <1>6. Layout(s, t, n, b, e, new, L)
    BY DEF Replaced
  <1>7. /\ t \in Text /\ L[i] \in Nat /\ L[i - 1] \in Nat
        /\ L[i] = (L[i - 1] + (b[i] - e[i - 1])) + Len(new[i])
        /\ Copied(t, L[i - 1], s, e[i - 1], b[i] - e[i - 1])
        /\ Copied(t, L[i - 1] + (b[i] - e[i - 1]), new[i], 0, Len(new[i]))
    BY <1>2, <1>6 DEF Layout
  <1>8. /\ O[i] = PositionOf(s, b[i]) /\ P[i] = PositionOf(s, e[i]) /\ P[i - 1] = PositionOf(s, e[i - 1])
        /\ B[i] = PositionOf(t, L[i - 1] + (b[i] - e[i - 1]))
        /\ Q[i] = PositionOf(t, L[i]) /\ Q[i - 1] = PositionOf(t, L[i - 1])
    BY <1>2 DEF Replaced
  <1>9. Len(t) \in Nat
    BY <1>7 DEF Text
  <1>. QED
    BY <1>1, <1>2, <1>3, <1>4, <1>5, <1>7, <1>8, <1>9

EditPlace(s, t, b, e, L, O, P, B, i) ==
    /\ Len(s) \in Nat
    /\ b[i] \in 0..Len(s) /\ e[i] \in 0..Len(s) /\ b[i] \in Nat /\ e[i - 1] \in Nat
    /\ O[i] = PositionOf(s, b[i]) /\ P[i] = PositionOf(s, e[i])
    /\ B[i] = PositionOf(t, L[i - 1] + (b[i] - e[i - 1]))

LEMMA EditPlaceIs ==
    ASSUME NEW s \in Text, NEW t, NEW n, NEW b, NEW e, NEW new, NEW L, NEW O, NEW P, NEW B, NEW Q,
           Replaced(s, t, n, b, e, new, L, O, P, B, Q), NEW i \in 1..n
    PROVE  EditPlace(s, t, b, e, L, O, P, B, i)
  BY ReplacedAt DEF EditPlace

\* A place of s from the end of the i-th edit up to the start of the next one.
Stretch(s, n, b, e, i, k) ==
    i \in 0..n /\ k \in Nat /\ e[i] <= k /\ (IF i < n THEN k <= b[i + 1] ELSE k <= Len(s))

\* Where it is, in both texts, and where the place behind it is.
InStretch(k, end, length, old, new) ==
    /\ k - end \in Nat /\ k \in 0..old /\ length + (k - end) \in 0..new
    /\ length \in 0..new /\ end + (k - end) = k
    /\ length + (k - end) <= new /\ end + (k - end) <= old

BeforeNext(k, end, next, length, new) ==
    /\ (k - end) + 1 \in 1..(next - end)
    /\ length + ((k - end) + 1) = length + (k - end) + 1 /\ end + ((k - end) + 1) = k + 1
    /\ length + (k - end) \in 0..new - 1

LEMMA StretchNumbers ==
    ASSUME NEW k \in Nat, NEW end \in Nat, NEW next \in Nat, NEW length \in Nat, NEW old \in Nat, NEW new \in Nat,
           end <= k, next <= old, length + (next - end) <= new
    PROVE  /\ k <= next => InStretch(k, end, length, old, new)
           /\ k < next => BeforeNext(k, end, next, length, new)
  BY DEF InStretch, BeforeNext

\* Its text is copied.
LEMMA StretchIsCopied ==
    ASSUME NEW s \in Text, NEW t, NEW n, NEW b, NEW e, NEW new, NEW L, NEW O, NEW P, NEW B, NEW Q,
           Replaced(s, t, n, b, e, new, L, O, P, B, Q), NEW i, NEW k, Stretch(s, n, b, e, i, k)
    PROVE  /\ t \in Text /\ i \in 0..n /\ k \in 0..Len(s) /\ e[i] \in 0..Len(s) /\ L[i] \in 0..Len(t)
           /\ L[i] + (k - e[i]) \in 0..Len(t) /\ k - e[i] \in Nat
           /\ Parallel(P[i], PositionOf(s, k), Q[i], PositionOf(t, L[i] + (k - e[i])))
           /\ Copied(t, L[i], s, e[i], k - e[i])
           /\ (IF i < n THEN k < b[i + 1] ELSE k < Len(s)) =>
                  /\ L[i] + (k - e[i]) \in 0..Len(t) - 1
                  /\ t[L[i] + (k - e[i]) + 1] = s[k + 1]
  <1>1. /\ n \in Nat /\ Len(s) \in Nat /\ i \in 0..n /\ e[i] \in 0..Len(s)
        /\ t \in Text /\ Len(t) \in Nat /\ L[i] \in Nat
        /\ P[i] = PositionOf(s, e[i]) /\ Q[i] = PositionOf(t, L[i])
        /\ k \in Nat /\ e[i] <= k
    BY DEF Replaced, Layout, Stretch, Text
  <1> DEFINE u == IF i < n THEN b[i + 1] ELSE Len(s)
  <1>2. u \in e[i]..Len(s) /\ Copied(t, L[i], s, e[i], u - e[i])
    <2>1. CASE i < n
      <3>1. i + 1 \in 1..n /\ (i + 1) - 1 = i
        BY <1>1, <2>1
      <3>2. /\ b[i + 1] \in 0..Len(s) /\ e[i] <= b[i + 1]
            /\ Copied(t, L[i], s, e[i], b[i + 1] - e[i])
        BY <3>1, ReplacedAt
      <3>. QED
        BY <1>1, <2>1, <3>2
    <2>2. CASE i = n
      <3>1. Copied(t, L[n], s, e[n], Len(s) - e[n])
        BY DEF Replaced, Layout
      <3>. QED
        BY <1>1, <2>2, <3>1
    <2>. QED
      BY <1>1, <2>1, <2>2
  <1>3. k <= u
    BY <1>1 DEF Stretch
  <1>4. (IF i < n THEN k < b[i + 1] ELSE k < Len(s)) => k < u
    OBVIOUS
  <1>. HIDE DEF u
  <1>5. /\ L[i] + (u - e[i]) <= Len(t) /\ e[i] + (u - e[i]) <= Len(s)
        /\ \A m \in 1..(u - e[i]) : t[L[i] + m] = s[e[i] + m]
    BY <1>2 DEF Copied
  <1>6. u \in Nat /\ u <= Len(s) /\ e[i] \in Nat
    BY <1>1, <1>2
  <1>7. /\ k - e[i] \in Nat /\ k \in 0..Len(s) /\ L[i] + (k - e[i]) \in 0..Len(t)
        /\ L[i] \in 0..Len(t) /\ e[i] + (k - e[i]) = k
        /\ L[i] + (k - e[i]) <= Len(t) /\ e[i] + (k - e[i]) <= Len(s)
    <2>1. InStretch(k, e[i], L[i], Len(s), Len(t))
      BY <1>1, <1>3, <1>5, <1>6, StretchNumbers
    <2>. QED
      BY <2>1 DEF InStretch
  <1>8. \A m \in 1..(k - e[i]) : t[L[i] + m] = s[e[i] + m]
    <2>. TAKE m \in 1..(k - e[i])
    <2>1. m \in 1..(u - e[i])
      BY <1>1, <1>2, <1>3
    <2>. QED
      BY <1>5, <2>1
  <1>9. Copied(t, L[i], s, e[i], k - e[i])
    BY <1>7, <1>8 DEF Copied
  <1>10. Parallel(P[i], PositionOf(s, k), Q[i], PositionOf(t, L[i] + (k - e[i])))
    <2>1. \A m \in 1..(k - e[i]) : s[e[i] + m] = t[L[i] + m]
      BY <1>8
    <2>. QED
      BY <1>1, <1>7, <2>1, SameBytes
  <1>11. ASSUME k < u
         PROVE  /\ L[i] + (k - e[i]) \in 0..Len(t) - 1
                /\ t[L[i] + (k - e[i]) + 1] = s[k + 1]
    <2>1. /\ (k - e[i]) + 1 \in 1..(u - e[i])
          /\ L[i] + ((k - e[i]) + 1) = L[i] + (k - e[i]) + 1 /\ e[i] + ((k - e[i]) + 1) = k + 1
          /\ L[i] + (k - e[i]) \in 0..Len(t) - 1
      <3>1. BeforeNext(k, e[i], u, L[i], Len(t))
        BY <1>1, <1>5, <1>11, <1>6, StretchNumbers
      <3>. QED
        BY <3>1 DEF BeforeNext
    <2>2. t[L[i] + ((k - e[i]) + 1)] = s[e[i] + ((k - e[i]) + 1)]
      BY <1>5, <2>1
    <2>. QED
      BY <2>1, <2>2
  <1>. QED
    BY <1>1, <1>4, <1>7, <1>9, <1>10, <1>11

LEMMA NextStart ==
    ASSUME NEW s \in Text, NEW t, NEW n, NEW b, NEW e, NEW new, NEW L, NEW O, NEW P, NEW B, NEW Q,
           Replaced(s, t, n, b, e, new, L, O, P, B, Q), NEW i \in 1..n
    PROVE  /\ Stretch(s, n, b, e, i - 1, b[i])
           /\ Parallel(P[i - 1], O[i], Q[i - 1], B[i])
  <1>1. /\ n \in Nat /\ i \in Nat /\ i - 1 \in 0..n /\ b[i] \in Nat
        /\ e[i - 1] <= b[i]
        /\ O[i] = PositionOf(s, b[i])
        /\ B[i] = PositionOf(t, L[i - 1] + (b[i] - e[i - 1]))
    BY ReplacedAt
  <1>2. Stretch(s, n, b, e, i - 1, b[i])
    <2>1. i - 1 < n /\ (i - 1) + 1 = i
      BY <1>1
    <2>. QED
      BY <1>1, <2>1 DEF Stretch
  <1>3. Parallel(P[i - 1], PositionOf(s, b[i]), Q[i - 1], PositionOf(t, L[i - 1] + (b[i] - e[i - 1])))
    BY <1>2, StretchIsCopied
  <1>. QED
    BY <1>1, <1>2, <1>3

LEMMA NewTextEnds ==
    ASSUME NEW s \in Text, NEW t, NEW n, NEW b, NEW e, NEW new, NEW L, NEW O, NEW P, NEW B, NEW Q,
           Replaced(s, t, n, b, e, new, L, O, P, B, Q), NEW i \in 1..n
    PROVE  Edited(O[i], P[i], B[i], Q[i], TextSize(new[i])) /\ L[i - 1] + (b[i] - e[i - 1]) \in 0..Len(t)
  <1> DEFINE a == L[i - 1] + (b[i] - e[i - 1])
             text == new[i]
  <1>1. /\ n \in Nat /\ Len(s) \in Nat /\ Len(t) \in Nat
        /\ b[i] \in 0..Len(s) /\ e[i] \in 0..Len(s) /\ b[i] <= e[i]
        /\ L[i - 1] \in Nat /\ b[i] - e[i - 1] \in Nat
        /\ text \in Text /\ Len(text) \in Nat
        /\ L[i] = a + Len(text)
        /\ t \in Text
        /\ Copied(t, a, text, 0, Len(text))
        /\ O[i] = PositionOf(s, b[i]) /\ P[i] = PositionOf(s, e[i])
        /\ B[i] = PositionOf(t, a) /\ Q[i] = PositionOf(t, L[i])
    BY ReplacedAt
  <1>2. a \in Nat
    BY <1>1
  <1>. HIDE DEF a, text
  <1>3. /\ a + Len(text) <= Len(t) /\ 0 + Len(text) <= Len(text)
        /\ \A m \in 1..Len(text) : text[0 + m] = t[a + m]
    BY <1>1 DEF Copied
  <1>4. a \in 0..Len(t) /\ 0 \in 0..Len(text)
    BY <1>1, <1>2, <1>3
  <1>5. Parallel(PositionOf(text, 0), PositionOf(text, 0 + Len(text)), PositionOf(t, a), PositionOf(t, a + Len(text)))
    BY <1>1, <1>3, <1>4, SameBytes
  <1>6. PositionOf(text, 0) = Zero /\ 0 + Len(text) = Len(text)
    BY <1>1, PositionSteps
  <1>7. PICK z \in Pos : TextSize(text) = Plus(Zero, z) /\ Q[i] = Plus(B[i], z)
    BY <1>1, <1>5, <1>6 DEF Parallel, TextSize
  <1>8. TextSize(text) = z
    <2>1. z \in IntPos
      BY PositionFields
    <2>. QED
      BY <1>7, <2>1, PlusZero
  <1>9. O[i] \in Pos /\ P[i] \in Pos /\ B[i] \in Pos
    BY <1>1, <1>4, PositionSteps
  <1>10. ~Precedes(P[i], O[i])
    <2>1. ~(e[i] < b[i])
      BY <1>1
    <2>. QED
      BY <1>1, <2>1, PositionsIncrease
  <1>11. Edited(O[i], P[i], B[i], Q[i], TextSize(text))
    BY <1>7, <1>8, <1>9, <1>10 DEF Edited
  <1>. QED
    BY <1>4, <1>11 DEF a, text

LEMMA ReplacedIsLaid ==
    ASSUME NEW s \in Text, NEW t, NEW n, NEW b, NEW e, NEW new, NEW L, NEW O, NEW P, NEW B, NEW Q,
           Replaced(s, t, n, b, e, new, L, O, P, B, Q)
    PROVE  Laid(n, O, P, B, Q, [i \in 1..n |-> TextSize(new[i])])
  <1> DEFINE size == [i \in 1..n |-> TextSize(new[i])]
  <1>1. /\ n \in Nat /\ t \in Text /\ Len(s) \in Nat /\ Len(t) \in Nat
        /\ P = [i \in 0..n |-> PositionOf(s, e[i])] /\ Q = [i \in 0..n |-> PositionOf(t, L[i])]
        /\ e[0] = 0 /\ L[0] = 0
    BY DEF Replaced, Layout, Text
  <1>2. ASSUME NEW i \in 0..n
        PROVE  PositionOf(s, e[i]) \in Pos /\ PositionOf(t, L[i]) \in Pos
    <2>1. e[i] \in 0..Len(s)
      BY DEF Replaced
    <2>2. Stretch(s, n, b, e, i, e[i])
      <3>1. CASE i < n
        <4>1. i + 1 \in 1..n /\ (i + 1) - 1 = i
          BY <1>1, <3>1
        <4>2. e[i] <= b[i + 1]
          BY <4>1, ReplacedAt
        <4>. QED
          BY <1>1, <2>1, <3>1, <4>2 DEF Stretch
      <3>2. CASE i = n
        BY <1>1, <2>1, <3>2 DEF Stretch
      <3>. QED
        BY <1>1, <3>1, <3>2
    <2>3. L[i] \in 0..Len(t)
      BY <2>2, StretchIsCopied
    <2>. QED
      BY <1>1, <2>1, <2>3, PositionSteps
  <1>3. P \in [0..n -> Pos] /\ Q \in [0..n -> Pos]
    BY <1>1, <1>2
  <1>4. P[0] = Zero /\ Q[0] = Zero
    <2>1. 0 \in 0..n
      BY <1>1
    <2>. QED
      BY <1>1, <2>1, PositionSteps
  <1>5. ASSUME NEW i \in 1..n
        PROVE  Edited(O[i], P[i], B[i], Q[i], size[i]) /\ Parallel(P[i - 1], O[i], Q[i - 1], B[i])
    BY NextStart, NewTextEnds
  <1>. HIDE DEF size
  <1>6. Laid(n, O, P, B, Q, size)
    BY <1>1, <1>3, <1>4, <1>5 DEF Laid
  <1>. QED
    BY <1>6 DEF size

\* The same with the sizes of the new texts, the edits of the mapping, as, and the deltas.
Mapped(s, t, as, n, b, e, new, L, O, P, B, Q, size, C, delta, back) ==
    /\ Replaced(s, t, n, b, e, new, L, O, P, B, Q)
    /\ Laid(n, O, P, B, Q, size)
    /\ Passed(n, O, P, size, C, delta, back)
    /\ DOMAIN as = 1..n /\ Len(as) = n
    /\ \A i \in 1..n :
           as[i].original = Between(O[i], P[i]) /\ as[i].newText = new[i] /\ as[i].transformed = C[i]

LEMMA BackExists ==
    ASSUME NEW n \in Nat, NEW C, NEW F, \A i \in 1..n : C[i] \in IntRange /\ F[i] \in IntRange
    PROVE  \E back : AreDeltas(back, n, C, F)
  <1> DEFINE After(i, d) == Added(d, C[i], F[i])
             step == [p \in (1..n) \X Delta |-> After(p[1], p[2])]
  <1>1. NoDelta \in Delta
    BY DEF NoDelta, Delta
  <1>2. ASSUME NEW i \in 1..n, NEW d \in Delta
        PROVE  After(i, d) \in Delta
    BY AddedType
  <1>. HIDE DEF After
  <1>3. step \in [(1..n) \X Delta -> Delta]
    BY <1>2
  <1>4. \A i \in 1..n, d \in Delta : step[<<i, d>>] = After(i, d)
    OBVIOUS
  <1>. HIDE DEF step
  <1>5. PICK back \in [0..n -> Delta] : FollowsStep(back, n, NoDelta, step)
    BY <1>1, <1>3, StepRecursion
  <1>6. ASSUME NEW i \in 1..n
        PROVE  back[i] = After(i, back[i - 1])
    <2>1. i - 1 \in 0..n
      OBVIOUS
    <2>2. back[i] = step[<<i, back[i - 1]>>] /\ back[i - 1] \in Delta
      BY <1>5, <2>1 DEF FollowsStep
    <2>. QED
      BY <1>4, <2>2
  <1>7. back \in [0..n -> Delta] /\ back[0] = NoDelta
    BY <1>5 DEF FollowsStep
  <1>. QED
    BY <1>6, <1>7 DEF AreDeltas, After

LEMMA MappedExists ==
    ASSUME NEW s \in Text, NEW sorted, NEW n, NEW b, NEW e, NEW new, Places(s, sorted, n, b, e, new)
    PROVE  \E L, O, P, B, Q, size, C, delta, back :
               Mapped(s, FromEdits(s, sorted).text, FromEdits(s, sorted).applied,
                      n, b, e, new, L, O, P, B, Q, size, C, delta, back)
  <1>1. PICK out : AreTexts(out, s, n, b, e, new)
    BY TextsExist
  <1>2. PICK delta : Pass(delta, s, sorted, n)
    BY PassExists
  <1> DEFINE t == out[n] \o SubSeq(s, e[n] + 1, Len(s))
             L == [i \in 0..n |-> Len(out[i])]
             O == [i \in 1..n |-> PositionOf(s, b[i])]
             P == [i \in 0..n |-> PositionOf(s, e[i])]
             B == [i \in 1..n |-> PositionOf(t, L[i - 1] + (b[i] - e[i - 1]))]
             Q == [i \in 0..n |-> PositionOf(t, L[i])]
             size == [i \in 1..n |-> TextSize(new[i])]
             C == [i \in 1..n |-> TransformedRange(delta[i - 1], sorted[i])]
             F == [i \in 1..n |-> Between(O[i], P[i])]
             as == [i \in 1..n |-> [original |-> Between(PositionOf(s, b[i]), PositionOf(s, e[i])),
                                    newText |-> new[i],
                                    transformed |-> TransformedRange(delta[i - 1], sorted[i])]]
  <1>3. FromEdits(s, sorted).text = t /\ FromEdits(s, sorted).applied = as
    <2>1. Makes(FromEdits(s, sorted), s, sorted, n, b, e, new, out, delta)
      BY <1>1, <1>2, FromEditsIs
    <2>. QED
      BY <2>1, Zenon DEF Makes
  <1>4. Layout(s, t, n, b, e, new, L)
    BY <1>1, TextLayout
  <1>5. n \in Nat
    BY DEF Places
  <1>. HIDE DEF t, L
  <1>6. Replaced(s, t, n, b, e, new, L, O, P, B, Q)
    BY <1>4, <1>5 DEF Places, Replaced
  <1>7. Laid(n, O, P, B, Q, size)
    BY <1>6, ReplacedIsLaid
  <1>8. ASSUME NEW i \in 1..n
        PROVE  /\ O[i] = PositionOf(s, b[i]) /\ P[i] = PositionOf(s, e[i])
               /\ C[i] = TransformedRange(delta[i - 1], sorted[i])
               /\ F[i] = Between(O[i], P[i])
               /\ as[i].original = Between(O[i], P[i]) /\ as[i].newText = new[i] /\ as[i].transformed = C[i]
               /\ size[i] = TextSize(new[i])
    <2>1. i \in 0..n
      BY <1>5
    <2>. QED
      BY <2>1
  <1>9. DOMAIN as = 1..n /\ Len(as) = n
    BY <1>5
  <1>. HIDE DEF O, P, B, Q, size, C, F, as
  <1>10. ASSUME NEW i \in 1..n
         PROVE  /\ Claims(delta[i - 1], O[i], size[i], C[i])
                /\ F[i] \in IntRange /\ C[i] \in IntRange
                /\ delta[i] = Added(delta[i - 1], F[i], C[i])
    <2>1. /\ b[i] \in 0..Len(s) /\ e[i] \in 0..Len(s) /\ new[i] \in Text
          /\ sorted[i].range = Between(PositionOf(s, b[i]), PositionOf(s, e[i]))
          /\ sorted[i].newText = new[i] /\ i - 1 \in 0..n
      BY PlaceAt
    <2>2. O[i] \in Pos /\ P[i] \in Pos
      BY <1>8, <2>1, PositionSteps
    <2>3. delta[i - 1] \in Delta
      BY <1>2, <2>1 DEF Pass
    <2>4. sorted[i].range = Between(O[i], P[i])
      BY <1>8, <2>1
    <2>5. /\ Claims(delta[i - 1], O[i], TextSize(new[i]), TransformedRange(delta[i - 1], sorted[i]))
          /\ Between(O[i], P[i]) \in IntRange
      BY <2>1, <2>2, <2>3, <2>4, TransformedRangeIs
    <2>6. delta[i] = Added(delta[i - 1], sorted[i].range, TransformedRange(delta[i - 1], sorted[i]))
      BY <1>2 DEF Pass
    <2>7. Claims(delta[i - 1], O[i], size[i], C[i]) /\ F[i] \in IntRange
      BY <1>8, <2>5
    <2>8. C[i] \in IntRange
      BY <2>7 DEF Claims
    <2>9. delta[i] = Added(delta[i - 1], F[i], C[i])
      BY <1>8, <2>4, <2>6
    <2>. QED
      BY <2>7, <2>8, <2>9
  <1>11. PICK back : AreDeltas(back, n, C, F)
    BY <1>5, <1>10, BackExists
  <1>12. Passed(n, O, P, size, C, delta, back)
    <2>1. delta \in [0..n -> Delta] /\ delta[0] = NoDelta
      BY <1>2 DEF Pass
    <2>2. back \in [0..n -> Delta] /\ back[0] = NoDelta
      BY <1>11 DEF AreDeltas
    <2>3. ASSUME NEW i \in 1..n
          PROVE  /\ Claims(delta[i - 1], O[i], size[i], C[i])
                 /\ delta[i] = Added(delta[i - 1], Between(O[i], P[i]), C[i])
                 /\ back[i] = Added(back[i - 1], C[i], Between(O[i], P[i]))
      <3>1. back[i] = Added(back[i - 1], C[i], F[i]) /\ F[i] = Between(O[i], P[i])
        BY <1>8, <1>11 DEF AreDeltas
      <3>. QED
        BY <1>10, <3>1
    <2>. QED
      BY <2>1, <2>2, <2>3 DEF Passed
  <1>13. Mapped(s, t, as, n, b, e, new, L, O, P, B, Q, size, C, delta, back)
    BY <1>6, <1>7, <1>8, <1>9, <1>12 DEF Mapped
  <1>. QED
    BY <1>3, <1>13

-----------------------------------------------------------------------------
(* The mapping of a state                                                  *)

Current(n, b, e, new, L, O, P, B, Q, size, C, delta, back) ==
    /\ source \in Text
    /\ Mapped(source, transformed, applied, n, b, e, new, L, O, P, B, Q, size, C, delta, back)

LEMMA AppliedAt ==
    ASSUME NEW n, NEW b, NEW e, NEW new, NEW L, NEW O, NEW P, NEW B, NEW Q, NEW size, NEW C, NEW delta, NEW back,
           Current(n, b, e, new, L, O, P, B, Q, size, C, delta, back), NEW i \in 1..n
    PROVE  /\ applied[i].original.begin = O[i] /\ applied[i].original.end = P[i]
           /\ applied[i].original = Between(O[i], P[i])
           /\ applied[i].transformed = C[i] /\ applied[i].newText = new[i]
           /\ First(applied[i].original) = b[i] /\ Behind(applied[i].original) = e[i]
  <1>1. /\ source \in Text
        /\ Replaced(source, transformed, n, b, e, new, L, O, P, B, Q)
        /\ applied[i].original = Between(O[i], P[i])
        /\ applied[i].transformed = C[i] /\ applied[i].newText = new[i]
    BY DEF Current, Mapped
  <1>2. applied[i].original.begin = O[i] /\ applied[i].original.end = P[i]
    BY <1>1, BetweenFields
  <1>3. /\ O[i] = PositionOf(source, b[i]) /\ P[i] = PositionOf(source, e[i])
        /\ b[i] \in 0..Len(source) /\ e[i] \in 0..Len(source)
    BY <1>1, ReplacedAt
  <1>4. First(applied[i].original) = b[i] /\ Behind(applied[i].original) = e[i]
    BY <1>1, <1>2, <1>3, OffsetOfPosition DEF First, Behind
  <1>. QED
    BY <1>1, <1>2, <1>4

\* Place k is behind the first i edits and before the others.
Gap(n, b, e, i, k) ==
    /\ Stretch(source, n, b, e, i, k)
    /\ IF i < n THEN k < b[i + 1] ELSE k <= Len(source)
    /\ \A j \in 1..n : e[j] <= k <=> j <= i

LEMMA EndsInOrder ==
    ASSUME NEW n, NEW b, NEW e, NEW new, NEW L, NEW O, NEW P, NEW B, NEW Q, NEW size, NEW C, NEW delta, NEW back,
           Current(n, b, e, new, L, O, P, B, Q, size, C, delta, back), NEW i \in 0..n, NEW j \in 0..i
    PROVE  e[j] <= e[i]
  <1>1. /\ source \in Text /\ n \in Nat
        /\ Laid(n, O, P, B, Q, size) /\ Passed(n, O, P, size, C, delta, back)
        /\ j \in 0..n
        /\ P[i] = PositionOf(source, e[i]) /\ P[j] = PositionOf(source, e[j])
        /\ e[i] \in 0..Len(source) /\ e[j] \in 0..Len(source)
    BY DEF Current, Mapped, Replaced
  <1>2. ~Precedes(P[i], P[j])
    BY <1>1, EndsIncrease
  <1>3. ~(e[i] < e[j])
    BY <1>1, <1>2, PositionsIncrease
  <1>4. Len(source) \in Nat
    BY <1>1 DEF Text
  <1>. QED
    BY <1>1, <1>3, <1>4

LEMMA UntouchedGap ==
    ASSUME NEW n, NEW b, NEW e, NEW new, NEW L, NEW O, NEW P, NEW B, NEW Q, NEW size, NEW C, NEW delta, NEW back,
           Current(n, b, e, new, L, O, P, B, Q, size, C, delta, back), NEW k \in Untouched
    PROVE  \E i \in 0..n : Gap(n, b, e, i, k)
  <1> DEFINE S == {i \in 0..n : e[i] <= k}
  <1>1. /\ source \in Text /\ n \in Nat /\ Len(source) \in Nat /\ DOMAIN applied = 1..n
        /\ e \in [0..n -> 0..Len(source)] /\ b \in [1..n -> 0..Len(source)] /\ e[0] = 0
    <2>1. /\ source \in Text /\ DOMAIN applied = 1..n
          /\ Replaced(source, transformed, n, b, e, new, L, O, P, B, Q)
      BY DEF Current, Mapped
    <2>2. n \in Nat /\ e \in [0..n -> 0..Len(source)] /\ b \in [1..n -> 0..Len(source)] /\ e[0] = 0
      BY <2>1 DEF Replaced
    <2>3. Len(source) \in Nat
      BY <2>1 DEF Text
    <2>. QED
      BY <2>1, <2>2, <2>3
  <1>2. k \in 0..Len(source) /\ k \in Nat
    BY <1>1 DEF Untouched
  <1>3. S \in SUBSET Nat /\ 0 \in S /\ \A y \in S : y <= n
    BY <1>1, <1>2
  <1>4. Max(S) \in S /\ \A y \in S : y <= Max(S)
    BY <1>1, <1>3, MaxOf
  <1>5. PICK i \in 0..n : e[i] <= k /\ \A j \in 0..n : e[j] <= k => j <= i
    BY <1>4
  <1>6. ASSUME NEW j \in 1..n
        PROVE  e[j] <= k <=> j <= i
    <2>1. ASSUME j <= i
          PROVE  e[j] <= k
      <3>1. j \in 0..i /\ j \in 0..n
        BY <1>1, <2>1
      <3>2. e[j] <= e[i]
        BY <3>1, EndsInOrder
      <3>3. e[j] \in Nat /\ e[i] \in Nat
        BY <1>1, <3>1
      <3>. QED
        BY <1>2, <1>5, <3>2, <3>3
    <2>2. j \in 0..n
      BY <1>1
    <2>. QED
      BY <1>5, <2>1, <2>2
  <1>7. IF i < n THEN k < b[i + 1] ELSE k <= Len(source)
    <2>1. CASE i < n
      <3>1. i + 1 \in 1..n /\ ~(i + 1 <= i)
        BY <1>1, <2>1
      <3>2. ~(e[i + 1] <= k)
        BY <1>6, <3>1
      <3>3. First(applied[i + 1].original) = b[i + 1] /\ Behind(applied[i + 1].original) = e[i + 1]
        BY <3>1, AppliedAt
      <3>4. k < b[i + 1] \/ k >= e[i + 1]
        BY <1>1, <3>1, <3>3 DEF Untouched
      <3>5. e[i + 1] \in Nat
        BY <1>1, <3>1
      <3>. QED
        BY <1>2, <2>1, <3>2, <3>4, <3>5
    <2>2. CASE ~(i < n)
      BY <1>1, <1>2, <2>2
    <2>. QED
      BY <2>1, <2>2
  <1>8. IF i < n THEN k <= b[i + 1] ELSE k <= Len(source)
    <2>1. CASE i < n
      <3>1. i + 1 \in 1..n
        BY <1>1, <2>1
      <3>2. b[i + 1] \in Nat
        BY <1>1, <3>1
      <3>. QED
        BY <1>2, <1>7, <2>1, <3>2
    <2>2. CASE ~(i < n)
      BY <1>7, <2>2
    <2>. QED
      BY <2>1, <2>2
  <1>. QED
    BY <1>2, <1>5, <1>6, <1>7, <1>8 DEF Gap, Stretch

\* How an edit moves what is behind it.
NextLength(old, new, start, before, added) == new = (old + (start - before)) + added

NextImage(k, old, new, start, before, end, added) ==
    new + (k - end) = (old + (k - before)) + (added - (end - start))

LEMMA NextImageIs ==
    ASSUME NEW k \in Nat, NEW old \in Nat, NEW new, NEW start \in Nat, NEW before \in Nat, NEW end \in Nat,
           NEW added \in Nat, NextLength(old, new, start, before, added)
    PROVE  NextImage(k, old, new, start, before, end, added)
  BY DEF NextLength, NextImage

LEMMA ImageIs ==
    ASSUME NEW n, NEW b, NEW e, NEW new, NEW L, NEW O, NEW P, NEW B, NEW Q, NEW size, NEW C, NEW delta, NEW back,
           Current(n, b, e, new, L, O, P, B, Q, size, C, delta, back), NEW i \in 0..n, NEW k, Gap(n, b, e, i, k)
    PROVE  Image(k) = L[i] + (k - e[i])
  <1> DEFINE replaced(range) == Behind(range) - First(range)
             Def(g) == [j \in 0..Len(applied) |->
                           IF j = 0 THEN k
                           ELSE IF Behind(applied[j].original) <= k
                           THEN g[j - 1] + (Len(applied[j].newText) - replaced(applied[j].original))
                           ELSE g[j - 1]]
             X == CHOOSE g : g = Def(g)
             f == [j \in 0..n |-> IF j <= i THEN L[j] + (k - e[j]) ELSE L[i] + (k - e[i])]
  <1>1. /\ n \in Nat /\ Len(applied) = n /\ source \in Text /\ Len(source) \in Nat
        /\ Replaced(source, transformed, n, b, e, new, L, O, P, B, Q)
        /\ e[0] = 0 /\ L[0] = 0 /\ k \in Nat
        /\ \A j \in 1..n : e[j] <= k <=> j <= i
    <2>1. Len(applied) = n /\ source \in Text /\ Replaced(source, transformed, n, b, e, new, L, O, P, B, Q)
      BY DEF Current, Mapped
    <2>2. n \in Nat /\ e[0] = 0 /\ L[0] = 0 /\ Len(source) \in Nat
      BY <2>1 DEF Replaced, Layout, Text
    <2>3. k \in Nat /\ \A j \in 1..n : e[j] <= k <=> j <= i
      BY DEF Gap, Stretch
    <2>. QED
      BY <2>1, <2>2, <2>3
  <1>2. \A g : /\ Def(g)[0] = k
               /\ \A j \in 1..n : Def(g)[j] = IF e[j] <= k THEN g[j - 1] + (Len(new[j]) - (e[j] - b[j]))
                                              ELSE g[j - 1]
               /\ Def(g) = [j \in 0..n |-> Def(g)[j]]
    <2>. TAKE g
    <2>1. Def(g)[0] = k /\ Def(g) = [j \in 0..n |-> Def(g)[j]]
      BY <1>1
    <2>2. ASSUME NEW j \in 1..n
          PROVE  Def(g)[j] = IF e[j] <= k THEN g[j - 1] + (Len(new[j]) - (e[j] - b[j])) ELSE g[j - 1]
      <3>1. First(applied[j].original) = b[j] /\ Behind(applied[j].original) = e[j] /\ applied[j].newText = new[j]
        BY AppliedAt
      <3>2. j \in 0..Len(applied) /\ j # 0
        BY <1>1
      <3>. QED
        BY <3>1, <3>2
    <2>. QED
      BY <2>1, <2>2
  <1>3. Image(k) = X[Len(applied)]
    BY DEF Image
  <1>. HIDE DEF Def
  <1>4. f[0] = k
    <2>1. 0 \in 0..n /\ 0 <= i
      BY <1>1
    <2>2. f[0] = L[0] + (k - e[0])
      BY <2>1
    <2>. HIDE DEF f
    <2>. QED
      BY <1>1, <2>2
  <1>5. ASSUME NEW j \in 1..n
        PROVE  f[j] = IF e[j] <= k THEN f[j - 1] + (Len(new[j]) - (e[j] - b[j])) ELSE f[j - 1]
    <2>1. /\ j \in Nat /\ j \in 0..n /\ j - 1 \in 0..n
          /\ e[j] \in Nat /\ b[j] \in Nat /\ e[j - 1] \in Nat /\ L[j - 1] \in Nat
          /\ Len(new[j]) \in Nat /\ L[j] = (L[j - 1] + (b[j] - e[j - 1])) + Len(new[j])
      BY <1>1, ReplacedAt
    <2>2. CASE j <= i
      <3>1. j - 1 <= i
        BY <2>1, <2>2
      <3>2. f[j] = L[j] + (k - e[j]) /\ f[j - 1] = L[j - 1] + (k - e[j - 1]) /\ e[j] <= k
        BY <1>1, <2>1, <2>2, <3>1
      <3>. HIDE DEF f
      <3>3. L[j] + (k - e[j]) = (L[j - 1] + (k - e[j - 1])) + (Len(new[j]) - (e[j] - b[j]))
        <4>1. NextLength(L[j - 1], L[j], b[j], e[j - 1], Len(new[j]))
          BY <2>1 DEF NextLength
        <4>2. NextImage(k, L[j - 1], L[j], b[j], e[j - 1], e[j], Len(new[j]))
          BY <1>1, <2>1, <4>1, NextImageIs
        <4>. QED
          BY <4>2 DEF NextImage
      <3>. QED
        BY <3>2, <3>3
    <2>3. CASE ~(j <= i)
      <3>1. f[j] = L[i] + (k - e[i]) /\ ~(e[j] <= k)
        BY <1>1, <2>1, <2>3
      <3>2. f[j - 1] = L[i] + (k - e[i])
        <4>1. CASE j - 1 = i
          BY <2>1, <4>1
        <4>2. CASE j - 1 # i
          <5>1. ~(j - 1 <= i)
            BY <2>1, <2>3, <4>2
          <5>. QED
            BY <2>1, <5>1
        <4>. QED
          BY <4>1, <4>2
      <3>. HIDE DEF f
      <3>. QED
        BY <3>1, <3>2
    <2>. QED
      BY <2>2, <2>3
  <1>6. f[n] = L[i] + (k - e[i])
    <2>1. n \in 0..n /\ (n <= i => n = i)
      BY <1>1
    <2>. QED
      BY <2>1
  <1>7. f = [j \in 0..n |-> f[j]]
    OBVIOUS
  <1>. HIDE DEF f
  <1>8. f = Def(f)
    <2>1. \A j \in 0..n : f[j] = Def(f)[j]
      <3>. TAKE j \in 0..n
      <3>1. j = 0 \/ j \in 1..n
        BY <1>1
      <3>. QED
        BY <1>2, <1>4, <1>5, <3>1
    <2>2. Def(f) = [j \in 0..n |-> Def(f)[j]]
      BY <1>2
    <2>. QED
      BY <1>7, <2>1, <2>2
  <1>9. X = Def(X)
    BY <1>8
  <1>. HIDE DEF X
  <1> DEFINE S == {j \in Nat : X[j] = f[j]}
  <1>10. 0 \in S
    BY <1>2, <1>4, <1>9
  <1>11. ASSUME NEW j \in 1..n, j - 1 \in S
         PROVE  j \in S
    <2>1. X[j - 1] = f[j - 1] /\ j \in Nat
      BY <1>1, <1>11
    <2>2. Def(X)[j] = IF e[j] <= k THEN X[j - 1] + (Len(new[j]) - (e[j] - b[j])) ELSE X[j - 1]
      BY <1>2
    <2>3. Def(X)[j] = f[j]
      BY <1>5, <2>1, <2>2
    <2>4. X[j] = Def(X)[j]
      BY <1>9
    <2>. QED
      BY <2>1, <2>3, <2>4
  <1>12. 0..n \subseteq S
    <2>. HIDE DEF S
    <2>. QED
      BY <1>1, <1>10, <1>11, StepInduction
  <1>13. n \in 0..n
    BY <1>1
  <1>. QED
    BY <1>1, <1>3, <1>6, <1>12, <1>13

\* What the tracked positions leave out.
LEMMA TrackedIs ==
    ASSUME NEW n, NEW b, NEW e, NEW new, NEW L, NEW O, NEW P, NEW B, NEW Q, NEW size, NEW C, NEW delta, NEW back,
           Current(n, b, e, new, L, O, P, B, Q, size, C, delta, back), NEW i \in 0..n,
           NEW position, Tracked(position), \A j \in 1..i : ~Precedes(position, P[j])
    PROVE  ~Dropped(O, P, size, i, position.line)
  <1>1. SUFFICES ASSUME Dropped(O, P, size, i, position.line)
                 PROVE  FALSE
    OBVIOUS
  <1>2. PICK j \in 1..i : P[j].line = position.line /\ ~OneLine(O[j], P[j], size[j])
    BY <1>1 DEF Dropped
  <1>3. /\ n \in Nat /\ DOMAIN applied = 1..n
        /\ Laid(n, O, P, B, Q, size) /\ Passed(n, O, P, size, C, delta, back)
    BY DEF Current, Mapped, Replaced
  <1>4. j \in 1..n
    BY <1>3
  <1>5. /\ applied[j].original.begin = O[j] /\ applied[j].original.end = P[j]
        /\ applied[j].transformed = C[j]
    BY <1>4, AppliedAt
  <1>6. applied[j].original.begin.line = applied[j].original.end.line
        /\ applied[j].transformed.begin.line = applied[j].transformed.end.line
    <2>1. ~\E side \in {"original", "transformed"} : applied[j][side].begin.line # applied[j][side].end.line
      BY <1>2, <1>3, <1>4, <1>5 DEF Tracked
    <2>. QED
      BY <2>1
  <1>7. Edited(O[j], P[j], B[j], Q[j], size[j]) /\ Claims(delta[j - 1], O[j], size[j], C[j])
    BY <1>3, <1>4, EditAt
  <1>8. size[j].line = 0
    <2>1. C[j].end = Plus(C[j].begin, size[j]) /\ C[j].begin.line = C[j].end.line
      BY <1>5, <1>6, <1>7 DEF Claims
    <2>2. C[j].begin.line \in Int /\ size[j].line \in Nat
      BY <1>7, EditedTypes DEF Claims, IntRange, IntPos
    <2>3. size[j].line # 0 => C[j].end.line = C[j].begin.line + size[j].line
      BY <2>1, PlusFields
    <2>. QED
      BY <2>1, <2>2, <2>3
  <1>. QED
    BY <1>2, <1>5, <1>6, <1>8 DEF OneLine

\* The loops of the two mappings.
LEMMA Loops ==
    ASSUME NEW n, NEW b, NEW e, NEW new, NEW L, NEW O, NEW P, NEW B, NEW Q, NEW size, NEW C, NEW delta, NEW back,
           Current(n, b, e, new, L, O, P, B, Q, size, C, delta, back),
           NEW F, F = [i \in 1..n |-> Between(O[i], P[i])]
    PROVE  /\ AreDeltas(delta, n, F, C) /\ AreSides("original", "transformed", n, F, C)
           /\ AreDeltas(back, n, C, F) /\ AreSides("transformed", "original", n, C, F)
           /\ n \in Nat
  <1>1. /\ n \in Nat /\ Len(applied) = n
        /\ Laid(n, O, P, B, Q, size) /\ Passed(n, O, P, size, C, delta, back)
    BY DEF Current, Mapped, Replaced
  <1>2. /\ delta \in [0..n -> Delta] /\ back \in [0..n -> Delta]
        /\ delta[0] = NoDelta /\ back[0] = NoDelta
    BY <1>1 DEF Passed
  <1>3. ASSUME NEW i \in 1..n
        PROVE  /\ delta[i] = Added(delta[i - 1], F[i], C[i]) /\ back[i] = Added(back[i - 1], C[i], F[i])
               /\ applied[i]["original"] = F[i] /\ applied[i]["transformed"] = C[i]
    <2>1. F[i] = Between(O[i], P[i])
      OBVIOUS
    <2>2. /\ delta[i] = Added(delta[i - 1], Between(O[i], P[i]), C[i])
          /\ back[i] = Added(back[i - 1], C[i], Between(O[i], P[i]))
      BY <1>1, EditAt
    <2>3. applied[i].original = Between(O[i], P[i]) /\ applied[i].transformed = C[i]
      BY AppliedAt
    <2>. QED
      BY <2>1, <2>2, <2>3
  <1>4. AreDeltas(delta, n, F, C) /\ AreDeltas(back, n, C, F)
    BY <1>2, <1>3 DEF AreDeltas
  <1>5. AreSides("original", "transformed", n, F, C) /\ AreSides("transformed", "original", n, C, F)
    BY <1>1, <1>3 DEF AreSides
  <1>. QED
    BY <1>1, <1>4, <1>5

\* Where an untouched place is: behind the first i edits, p in the source and q in the
\* transformed text.
Untouches(n, b, e, P, Q, i, k, p, q) ==
    /\ i \in 0..n /\ Gap(n, b, e, i, k)
    /\ p = PositionOf(source, k) /\ q = PositionOf(transformed, Image(k))
    /\ Beside(n, P, Q, i, p, q)

LEMMA UntouchedPlace ==
    ASSUME NEW n, NEW b, NEW e, NEW new, NEW L, NEW O, NEW P, NEW B, NEW Q, NEW size, NEW C, NEW delta, NEW back,
           Current(n, b, e, new, L, O, P, B, Q, size, C, delta, back), NEW k \in Untouched
    PROVE  \E i : /\ Untouches(n, b, e, P, Q, i, k, PositionOf(source, k), PositionOf(transformed, Image(k)))
                  /\ Image(k) = L[i] + (k - e[i])
  <1>1. PICK i \in 0..n : Gap(n, b, e, i, k)
    BY UntouchedGap
  <1>2. Image(k) = L[i] + (k - e[i])
    BY <1>1, ImageIs
  <1>3. /\ source \in Text /\ Replaced(source, transformed, n, b, e, new, L, O, P, B, Q)
        /\ Stretch(source, n, b, e, i, k)
    BY <1>1 DEF Current, Mapped, Gap
  <1>4. Parallel(P[i], PositionOf(source, k), Q[i], PositionOf(transformed, L[i] + (k - e[i])))
    BY <1>3, StretchIsCopied
  <1>5. Beside(n, P, Q, i, PositionOf(source, k), PositionOf(transformed, Image(k)))
    BY <1>2, <1>4 DEF Beside
  <1>. QED
    BY <1>1, <1>2, <1>5 DEF Untouches

LEMMA BytesStay ==
    ASSUME NEW n, NEW b, NEW e, NEW new, NEW L, NEW O, NEW P, NEW B, NEW Q, NEW size, NEW C, NEW delta, NEW back,
           Current(n, b, e, new, L, O, P, B, Q, size, C, delta, back)
    PROVE  UntouchedBytesStay
  <1>1. SUFFICES ASSUME NEW k \in Untouched \ {Len(source)}
                 PROVE  /\ Image(k) \in 0..Len(transformed) - 1
                        /\ transformed[Image(k) + 1] = source[k + 1]
    BY DEF UntouchedBytesStay
  <1>2. PICK i : /\ Untouches(n, b, e, P, Q, i, k, PositionOf(source, k), PositionOf(transformed, Image(k)))
                 /\ Image(k) = L[i] + (k - e[i])
    BY UntouchedPlace
  <1>3. /\ source \in Text /\ Replaced(source, transformed, n, b, e, new, L, O, P, B, Q)
        /\ Stretch(source, n, b, e, i, k)
        /\ IF i < n THEN k < b[i + 1] ELSE k <= Len(source)
    BY <1>2 DEF Current, Mapped, Untouches, Gap
  <1>4. k # Len(source) /\ k \in Nat /\ Len(source) \in Nat
    BY <1>3 DEF Untouched, Text
  <1>5. IF i < n THEN k < b[i + 1] ELSE k < Len(source)
    BY <1>3, <1>4
  <1>6. /\ L[i] + (k - e[i]) \in 0..Len(transformed) - 1
        /\ transformed[L[i] + (k - e[i]) + 1] = source[k + 1]
    BY <1>3, <1>5, StretchIsCopied
  <1>. QED
    BY <1>2, <1>6

\* An untouched place that is tracked maps forth and back.
LEMMA PlaceMaps ==
    ASSUME NEW n, NEW b, NEW e, NEW new, NEW L, NEW O, NEW P, NEW B, NEW Q, NEW size, NEW C, NEW delta, NEW back,
           Current(n, b, e, new, L, O, P, B, Q, size, C, delta, back), NEW k \in TrackedPlaces
    PROVE  /\ OriginalToTransformed(PositionOf(source, k)) = PositionOf(transformed, Image(k))
           /\ TransformedToOriginal(PositionOf(transformed, Image(k))) = PositionOf(source, k)
  <1> DEFINE p == PositionOf(source, k)
             q == PositionOf(transformed, Image(k))
             F == [i \in 1..n |-> Between(O[i], P[i])]
  <1>0. k \in Untouched /\ Tracked(p)
    BY DEF TrackedPlaces
  <1>1. PICK i : Untouches(n, b, e, P, Q, i, k, p, q) /\ Image(k) = L[i] + (k - e[i])
    BY <1>0, UntouchedPlace
  <1>2. /\ source \in Text /\ Replaced(source, transformed, n, b, e, new, L, O, P, B, Q)
        /\ Laid(n, O, P, B, Q, size) /\ Passed(n, O, P, size, C, delta, back)
        /\ n \in Nat /\ i \in 0..n /\ Gap(n, b, e, i, k) /\ Stretch(source, n, b, e, i, k)
        /\ Beside(n, P, Q, i, p, q)
    BY <1>1 DEF Current, Mapped, Untouches, Gap, Replaced
  <1>3. /\ AreDeltas(delta, n, F, C) /\ AreSides("original", "transformed", n, F, C)
        /\ AreDeltas(back, n, C, F) /\ AreSides("transformed", "original", n, C, F)
    BY Loops
  <1>4. \A j \in 1..n : F[j].begin = O[j] /\ F[j].end = P[j]
    BY BetweenFields
  <1>5. /\ transformed \in Text /\ k \in 0..Len(source) /\ Image(k) \in 0..Len(transformed)
        /\ L[i] \in 0..Len(transformed) /\ e[i] \in 0..Len(source)
    BY <1>1, <1>2, StretchIsCopied
  <1>6. p \in IntPos /\ q \in IntPos
    BY <1>2, BesideType
  <1>. HIDE DEF F
  <1>7. ASSUME NEW j \in 1..i
        PROVE  ~Precedes(p, P[j]) /\ ~Precedes(p, O[j])
    BY <1>2, EarlierEndBefore
  <1>8. ~Dropped(O, P, size, i, p.line)
    BY <1>0, <1>2, <1>7, TrackedIs
  <1>9. Moved(delta[i], p) = q /\ Moved(back[i], q) = p
    BY <1>2, <1>8, BesideMaps
  <1>10. OriginalToTransformed(p) = q
    <2>1. Passes(F, i, p)
      <3>1. ASSUME NEW j \in 1..i
            PROVE  ~Decides(F[j], p)
        <4>1. j \in 1..n
          BY <1>2
        <4>. QED
          BY <1>4, <1>7, <4>1 DEF Decides, Inside
      <3>. QED
        BY <3>1 DEF Passes
    <2>2. ASSUME i < n
          PROVE  Precedes(p, F[i + 1].begin)
      <3>1. i + 1 \in 1..n
        BY <1>2, <2>2
      <3>2. k < b[i + 1] /\ b[i + 1] \in 0..Len(source) /\ O[i + 1] = PositionOf(source, b[i + 1])
        <4>1. k < b[i + 1]
          BY <1>2, <2>2 DEF Gap
        <4>2. source \in Text /\ Replaced(source, transformed, n, b, e, new, L, O, P, B, Q)
          BY <1>2
        <4>3. b[i + 1] \in 0..Len(source) /\ O[i + 1] = PositionOf(source, b[i + 1])
          BY <3>1, <4>2, ReplacedAt
        <4>. QED
          BY <4>1, <4>3
      <3>3. Precedes(p, O[i + 1])
        BY <1>2, <1>5, <3>2, PositionsIncrease
      <3>. QED
        BY <1>4, <3>1, <3>3
    <2>. HIDE DEF p, q
    <2>3. MapPosition("original", "transformed", p) = Moved(delta[i], p)
      BY <1>2, <1>3, <2>1, <2>2, MapsBeside
    <2>. QED
      BY <1>9, <2>3 DEF OriginalToTransformed
  <1>11. TransformedToOriginal(q) = p
    <2>1. Passes(C, i, q)
      <3>1. ASSUME NEW j \in 1..i
            PROVE  ~Decides(C[j], q)
        <4>1. j \in 1..n
          BY <1>2
        <4>2. ~Precedes(q, C[j].end)
          BY <1>2, <1>8, EarlierClaimsEndBefore
        <4>3. C[j].begin \in IntPos /\ C[j].end \in IntPos /\ ~Precedes(C[j].end, C[j].begin)
          BY <1>2, <4>1, RangeAt
        <4>4. ~Precedes(q, C[j].begin)
          BY <1>6, <4>2, <4>3, Order
        <4>. QED
          BY <4>2, <4>4 DEF Decides, Inside
      <3>. QED
        BY <3>1 DEF Passes
    <2>2. ASSUME i < n
          PROVE  Precedes(q, C[i + 1].begin)
      <3>1. i + 1 \in 1..n /\ (i + 1) - 1 = i /\ i \in 0..(n - 1)
        BY <1>2, <2>2
      <3>2. /\ k < b[i + 1] /\ b[i + 1] \in Nat /\ e[i] \in Nat
            /\ B[i + 1] = PositionOf(transformed, L[i] + (b[i + 1] - e[i]))
        <4>1. /\ b[i + 1] \in Nat /\ e[(i + 1) - 1] \in Nat
              /\ B[i + 1] = PositionOf(transformed, L[(i + 1) - 1] + (b[i + 1] - e[(i + 1) - 1]))
          <5>1. EditPlace(source, transformed, b, e, L, O, P, B, i + 1)
            BY <1>2, <3>1, EditPlaceIs
          <5>. QED
            BY <5>1 DEF EditPlace
        <4>2. k < b[i + 1]
          BY <1>2, <2>2 DEF Gap
        <4>. QED
          BY <3>1, <4>1, <4>2
      <3>3. L[i] + (b[i + 1] - e[i]) \in 0..Len(transformed)
        BY <1>2, <3>1, NewTextEnds
      <3>4. Image(k) < L[i] + (b[i + 1] - e[i])
        <4>1. k \in Nat /\ L[i] \in Nat /\ e[i] \in Nat
          BY <1>2, <1>5 DEF Text
        <4>. QED
          BY <1>1, <3>2, <4>1
      <3>5. Precedes(q, B[i + 1])
        BY <1>5, <3>2, <3>3, <3>4, PositionsIncrease
      <3>. QED
        BY <1>2, <1>8, <3>1, <3>5, NextClaimBeginsBehind
    <2>. HIDE DEF p, q
    <2>3. MapPosition("transformed", "original", q) = Moved(back[i], q)
      BY <1>2, <1>3, <2>1, <2>2, MapsBeside
    <2>. QED
      BY <1>9, <2>3 DEF TransformedToOriginal
  <1>. QED
    BY <1>10, <1>11

\* What an edit replaces maps to the start of its text, and its text back to where it
\* starts.
LEMMA EditMaps ==
    ASSUME NEW n, NEW b, NEW e, NEW new, NEW L, NEW O, NEW P, NEW B, NEW Q, NEW size, NEW C, NEW delta, NEW back,
           Current(n, b, e, new, L, O, P, B, Q, size, C, delta, back), NEW i \in TrackedEdits
    PROVE  /\ \A k \in First(applied[i].original)..Behind(applied[i].original) - 1 :
                  OriginalToTransformed(PositionOf(source, k)) = applied[i].transformed.begin
           /\ \A k \in 0..Len(transformed) :
                  Inside(applied[i].transformed, PositionOf(transformed, k))
                  => TransformedToOriginal(PositionOf(transformed, k)) = applied[i].original.begin
  <1> DEFINE F == [j \in 1..n |-> Between(O[j], P[j])]
  <1>1. /\ source \in Text /\ Replaced(source, transformed, n, b, e, new, L, O, P, B, Q)
        /\ Laid(n, O, P, B, Q, size) /\ Passed(n, O, P, size, C, delta, back)
        /\ n \in Nat /\ i \in 1..n /\ Tracked(applied[i].original.begin)
        /\ transformed \in Text
    BY DEF Current, Mapped, Replaced, Layout, TrackedEdits
  <1>2. /\ applied[i].original.begin = O[i] /\ applied[i].original.end = P[i]
        /\ applied[i].transformed = C[i]
        /\ First(applied[i].original) = b[i] /\ Behind(applied[i].original) = e[i]
    BY <1>1, AppliedAt
  <1>3. /\ AreDeltas(delta, n, F, C) /\ AreSides("original", "transformed", n, F, C)
        /\ AreDeltas(back, n, C, F) /\ AreSides("transformed", "original", n, C, F)
    BY Loops
  <1>4. \A j \in 1..n : F[j].begin = O[j] /\ F[j].end = P[j]
    BY BetweenFields
  <1>. HIDE DEF F
  <1>5. i - 1 \in 0..n /\ i \in Nat
    BY <1>1
  <1>6. Beside(n, P, Q, i - 1, O[i], B[i])
    BY <1>1, <1>5, NextStart DEF Beside
  <1>7. ASSUME NEW j \in 1..(i - 1)
        PROVE  ~Precedes(O[i], P[j]) /\ ~Precedes(O[i], O[j]) /\ P[j] \in IntPos /\ j \in 1..n
    <2>1. j \in 1..n
      BY <1>1, <1>5
    <2>2. ~Precedes(O[i], P[j]) /\ ~Precedes(O[i], O[j]) /\ P[j] \in IntPos
      BY <1>1, <1>6, EarlierEndBefore
    <2>. QED
      BY <2>1, <2>2
  <1>8. O[i] \in IntPos /\ B[i] \in IntPos
    BY <1>1, <1>6, BesideType
  <1>9. /\ b[i] \in 0..Len(source) /\ e[i] \in 0..Len(source) /\ Len(source) \in Nat
        /\ O[i] = PositionOf(source, b[i]) /\ P[i] = PositionOf(source, e[i])
    <2>1. EditPlace(source, transformed, b, e, L, O, P, B, i)
      BY <1>1, EditPlaceIs
    <2>. QED
      BY <2>1 DEF EditPlace
  <1>10. ASSUME NEW k \in b[i]..e[i] - 1
         PROVE  OriginalToTransformed(PositionOf(source, k)) = C[i].begin
    <2> DEFINE p == PositionOf(source, k)
    <2>1. k \in 0..Len(source) /\ ~(k < b[i]) /\ k < e[i]
      BY <1>9
    <2>2. ~Precedes(p, O[i]) /\ Precedes(p, P[i])
      BY <1>1, <1>9, <2>1, PositionsIncrease
    <2>3. p \in IntPos
      BY <1>1, <2>1, PositionSteps, PositionFields
    <2>. HIDE DEF p
    <2>4. ASSUME NEW j \in 1..(i - 1)
          PROVE  ~Decides(F[j], p)
      <3>1. Edited(O[j], P[j], B[j], Q[j], size[j])
        BY <1>1, <1>7, EditAt
      <3>2. O[j] \in IntPos /\ P[j] \in IntPos
        BY <3>1, EditedTypes
      <3>3. ~Precedes(p, P[j]) /\ ~Precedes(p, O[j])
        BY <1>7, <1>8, <2>2, <2>3, <3>2, Order
      <3>4. F[j].begin = O[j] /\ F[j].end = P[j]
        BY <1>4, <1>7
      <3>. QED
        BY <3>3, <3>4 DEF Decides, Inside
    <2>5. Passes(F, i - 1, p)
      BY <2>4 DEF Passes
    <2>6. Inside(F[i], p)
      BY <1>1, <1>4, <2>2 DEF Inside
    <2>7. MapPosition("original", "transformed", p) = C[i].begin
      BY <1>1, <1>3, <2>5, <2>6, MapsInside
    <2>. QED
      BY <2>7 DEF OriginalToTransformed, p
  <1>11. ~Dropped(O, P, size, i - 1, O[i].line)
    BY <1>1, <1>2, <1>5, <1>7, TrackedIs
  <1>12. C[i].begin = B[i] /\ C[i].begin \in IntPos
    BY <1>1, <1>11, RangeAt
  <1>13. ASSUME NEW k \in 0..Len(transformed), Inside(C[i], PositionOf(transformed, k))
         PROVE  TransformedToOriginal(PositionOf(transformed, k)) = O[i]
    <2> DEFINE q == PositionOf(transformed, k)
    <2>1. q \in IntPos /\ ~Precedes(q, B[i])
      BY <1>1, <1>12, <1>13, PositionSteps, PositionFields DEF Inside
    <2>2. Inside(C[i], q)
      BY <1>13
    <2>. HIDE DEF q
    <2>3. ASSUME NEW j \in 1..(i - 1)
          PROVE  ~Decides(C[j], q)
      <3>1. ~Precedes(B[i], C[j].end)
        BY <1>1, <1>6, <1>11, EarlierClaimsEndBefore
      <3>2. C[j].begin \in IntPos /\ C[j].end \in IntPos /\ ~Precedes(C[j].end, C[j].begin)
        BY <1>1, <1>7, RangeAt
      <3>3. ~Precedes(q, C[j].end)
        BY <1>8, <2>1, <3>1, <3>2, Order
      <3>4. ~Precedes(q, C[j].begin)
        BY <2>1, <3>2, <3>3, Order
      <3>. QED
        BY <3>3, <3>4 DEF Decides, Inside
    <2>4. Passes(C, i - 1, q)
      BY <2>3 DEF Passes
    <2>5. MapPosition("transformed", "original", q) = F[i].begin
      BY <1>1, <1>3, <2>2, <2>4, MapsInside
    <2>. QED
      BY <1>1, <1>4, <2>5 DEF TransformedToOriginal, q
  <1>. QED
    BY <1>2, <1>10, <1>13

-----------------------------------------------------------------------------
(* The plugins' edits                                                      *)

\* The edits that Return takes.
Returned(s) ==
    {edit \in {[range |-> [begin |-> PositionOf(s, b), end |-> PositionOf(s, e)], newText |-> new] :
                  b \in 0..Len(s), e \in 0..Len(s), new \in NewText} :
        ~Precedes(edit.range.end, edit.range.begin)}

\* An edit replaces what is from place b to place e.
Replaces(s, edit, b, e) ==
    /\ b \in 0..Len(s) /\ e \in 0..Len(s) /\ b <= e
    /\ edit.range = Between(PositionOf(s, b), PositionOf(s, e))
    /\ edit.newText \in Text

LEMMA ReturnedReplaces ==
    ASSUME NEW s \in Text, NEW edit \in Returned(s)
    PROVE  Replaces(s, edit, OffsetOf(s, edit.range.begin), OffsetOf(s, edit.range.end))
  <1>1. PICK b \in 0..Len(s), e \in 0..Len(s), new \in NewText :
            edit = [range |-> [begin |-> PositionOf(s, b), end |-> PositionOf(s, e)], newText |-> new]
    BY DEF Returned
  <1>2. ~Precedes(edit.range.end, edit.range.begin)
    BY DEF Returned
  <1>3. /\ edit.range.begin = PositionOf(s, b) /\ edit.range.end = PositionOf(s, e)
        /\ edit.range = Between(PositionOf(s, b), PositionOf(s, e)) /\ edit.newText = new
    BY <1>1 DEF Between
  <1>4. OffsetOf(s, edit.range.begin) = b /\ OffsetOf(s, edit.range.end) = e
    BY <1>3, OffsetOfPosition
  <1>5. ~(e < b)
    BY <1>2, <1>3, PositionsIncrease
  <1>6. new \in Text /\ Len(s) \in Nat
    BY MappingAssumption DEF Text
  <1>7. b <= e
    BY <1>5, <1>6
  <1>. QED
    BY <1>3, <1>4, <1>6, <1>7 DEF Replaces

\* Sorted edits that do not overlap are applied one behind the other.
LEMMA SortedPlaces ==
    ASSUME NEW s \in Text, NEW returned \in Seq(Returned(s)), NEW sorted \in SortedOrders(returned),
           ~Overlap(sorted)
    PROVE  \E n, b, e, new : Places(s, sorted, n, b, e, new)
  <1> DEFINE n == Len(returned)
             b == [i \in 1..n |-> OffsetOf(s, sorted[i].range.begin)]
             e == [i \in 0..n |-> IF i = 0 THEN 0 ELSE OffsetOf(s, sorted[i].range.end)]
             new == [i \in 1..n |-> sorted[i].newText]
  <1>1. n \in Nat /\ DOMAIN returned = 1..n /\ \A i \in 1..n : returned[i] \in Returned(s)
    OBVIOUS
  <1>. HIDE DEF n
  <1>2. PICK p \in [1..n -> 1..n] : sorted = [i \in 1..n |-> returned[p[i]]]
    BY <1>1 DEF SortedOrders
  <1>3. Len(sorted) = n /\ \A i \in 1..n : sorted[i] \in Returned(s)
    BY <1>1, <1>2
  <1>4. \A i \in 2..n : ~Precedes(sorted[i].range.begin, sorted[i - 1].range.end)
    BY <1>3 DEF Overlap
  <1>5. ASSUME NEW i \in 1..n
        PROVE  Replaces(s, sorted[i], b[i], e[i]) /\ new[i] = sorted[i].newText
    <2>1. Replaces(s, sorted[i], OffsetOf(s, sorted[i].range.begin), OffsetOf(s, sorted[i].range.end))
      BY <1>3, ReturnedReplaces
    <2>2. i \in 0..n /\ i # 0
      BY <1>1
    <2>3. b[i] = OffsetOf(s, sorted[i].range.begin) /\ e[i] = OffsetOf(s, sorted[i].range.end)
          /\ new[i] = sorted[i].newText
      BY <2>2
    <2>. QED
      BY <2>1, <2>3
  <1>6. e[0] = 0 /\ 0 \in 0..Len(s) /\ Len(s) \in Nat
    <2>1. 0 \in 0..n
      BY <1>1
    <2>. QED
      BY <2>1 DEF Text
  <1>7. b = [i \in 1..n |-> b[i]] /\ e = [i \in 0..n |-> e[i]] /\ new = [i \in 1..n |-> new[i]]
    OBVIOUS
  <1>. HIDE DEF b, e, new
  <1>8. \A i \in 1..n : b[i] \in 0..Len(s) /\ e[i] \in 0..Len(s) /\ new[i] \in Text
    BY <1>5 DEF Replaces
  <1>9. /\ b \in [1..n -> 0..Len(s)] /\ e \in [0..n -> 0..Len(s)] /\ new \in [1..n -> Text]
    <2>1. ASSUME NEW i \in 0..n
          PROVE  e[i] \in 0..Len(s)
      <3>1. i = 0 \/ i \in 1..n
        BY <1>1
      <3>. QED
        BY <1>6, <1>8, <3>1
    <2>. QED
      BY <1>7, <1>8, <2>1
  <1>10. ASSUME NEW i \in 1..n
         PROVE  e[i - 1] <= b[i]
    <2>1. CASE i = 1
      <3>1. i - 1 = 0 /\ b[i] \in 0..Len(s)
        BY <1>8, <2>1
      <3>. QED
        BY <1>6, <3>1
    <2>2. CASE i # 1
      <3>1. i \in 2..n /\ i - 1 \in 1..n
        BY <1>1, <2>2
      <3>2. Replaces(s, sorted[i], b[i], e[i]) /\ Replaces(s, sorted[i - 1], b[i - 1], e[i - 1])
        BY <1>5, <3>1
      <3>3. sorted[i].range.begin = PositionOf(s, b[i]) /\ sorted[i - 1].range.end = PositionOf(s, e[i - 1])
        BY <3>2, BetweenFields DEF Replaces
      <3>4. ~Precedes(PositionOf(s, b[i]), PositionOf(s, e[i - 1]))
        BY <1>4, <3>1, <3>3
      <3>5. b[i] \in 0..Len(s) /\ e[i - 1] \in 0..Len(s)
        BY <1>8, <3>1
      <3>6. ~(b[i] < e[i - 1])
        BY <3>4, <3>5, PositionsIncrease
      <3>. QED
        BY <1>6, <3>5, <3>6
    <2>. QED
      BY <2>1, <2>2
  <1>11. ASSUME NEW i \in 1..n
         PROVE  /\ e[i - 1] <= b[i] /\ b[i] <= e[i]
                /\ sorted[i].range = Between(PositionOf(s, b[i]), PositionOf(s, e[i]))
                /\ sorted[i].newText = new[i]
    BY <1>5, <1>10 DEF Replaces
  <1>12. Places(s, sorted, n, b, e, new)
    BY <1>1, <1>3, <1>6, <1>9, <1>11 DEF Places
  <1>. QED
    BY <1>12

-----------------------------------------------------------------------------
(* The inductive invariant                                                 *)

IsCurrent ==
    \E n, b, e, new, L, O, P, B, Q, size, C, delta, back :
        Current(n, b, e, new, L, O, P, B, Q, size, C, delta, back)

\* The edits are ones of the source, and the mapping, if there is one, is that of edits
\* that lie one behind the other.
MappingInv ==
    /\ source \in Text
    /\ edits \in Seq(Returned(source))
    /\ applied # <<>> => IsCurrent

LEMMA InitMapping == Init => MappingInv
  <1>1. SUFFICES ASSUME Init PROVE MappingInv
    OBVIOUS
  <1>2. source \in Text /\ edits = <<>> /\ applied = <<>>
    BY <1>1, MappingAssumption DEF Init, Text
  <1>3. <<>> \in Seq(Returned(source))
    OBVIOUS
  <1>. QED
    BY <1>2, <1>3 DEF MappingInv

LEMMA ReturnMapping ==
    ASSUME MappingInv, NEW edit \in Edit, Return(edit)
    PROVE  MappingInv'
  <1>1. source' = source /\ source \in Text /\ edits \in Seq(Returned(source)) /\ edits' = Append(edits, edit)
    BY DEF MappingInv, Return
  <1>2. edit \in Returned(source)
    BY DEF Returned, Edit, Return
  <1>3. edits' \in Seq(Returned(source))
    BY <1>1, <1>2, AppendProperties
  <1>4. source' \in Text /\ edits' \in Seq(Returned(source'))
    BY <1>1, <1>3
  <1>5. PICK sorted \in SortedOrders(edits') :
            IF Overlap(sorted)
            THEN transformed' = source /\ applied' = <<>>
            ELSE transformed' = FromEdits(source, sorted).text /\ applied' = FromEdits(source, sorted).applied
    BY DEF Return
  <1>6. ASSUME applied' # <<>>
        PROVE  IsCurrent'
    <2>1. ~Overlap(sorted)
      BY <1>5, <1>6
    <2>2. PICK n, b, e, new : Places(source, sorted, n, b, e, new)
      BY <1>1, <1>3, <2>1, SortedPlaces
    <2>3. PICK L, O, P, B, Q, size, C, delta, back :
              Mapped(source, FromEdits(source, sorted).text, FromEdits(source, sorted).applied,
                     n, b, e, new, L, O, P, B, Q, size, C, delta, back)
      BY <1>1, <2>2, MappedExists
    <2>4. Mapped(source', transformed', applied', n, b, e, new, L, O, P, B, Q, size, C, delta, back)
      BY <1>1, <1>5, <2>1, <2>3
    <2>5. Current(n, b, e, new, L, O, P, B, Q, size, C, delta, back)'
      BY <1>4, <2>4 DEF Current
    <2>. QED
      BY <2>5 DEF IsCurrent
  <1>. QED
    BY <1>4, <1>6 DEF MappingInv

LEMMA StepMapping == MappingInv /\ [Next]_vars => MappingInv'
  <1>1. SUFFICES ASSUME MappingInv, [Next]_vars PROVE MappingInv'
    OBVIOUS
  <1>2. CASE Next
    <2>1. PICK edit \in Edit : Return(edit)
      BY <1>2 DEF Next
    <2>. QED
      BY <1>1, <2>1, ReturnMapping
  <1>3. CASE UNCHANGED vars
    <2>1. source' = source /\ edits' = edits /\ transformed' = transformed /\ applied' = applied
      BY <1>3 DEF vars
    <2>. QED
      BY <1>1, <2>1 DEF MappingInv, IsCurrent, Current
  <1>. QED
    BY <1>1, <1>2, <1>3

LEMMA AlwaysMapping == Spec => []MappingInv
  <1>. QED
    BY InitMapping, StepMapping, PTL DEF Spec

\* Every byte that no edit replaces is in the transformed text, at the place that the
\* lengths of the texts before it give (SourceMapping::fromEdits).
THEOREM UntouchedStay == Spec => []UntouchedBytesStay
  <1>1. MappingInv => UntouchedBytesStay
    <2>1. CASE applied = <<>>
      BY <2>1 DEF UntouchedBytesStay
    <2>2. CASE applied # <<>>
      BY <2>2, BytesStay DEF MappingInv, IsCurrent
    <2>. QED
      BY <2>1, <2>2
  <1>. QED
    BY <1>1, AlwaysMapping, PTL

\* A tracked position of the source that no edit replaces maps to the same byte in the
\* transformed text, and one that is replaced to the start of its replacement
\* (SourceMapping::originalToTransformed).
THEOREM OriginalStaysMapped == Spec => []OriginalMapsForth
  <1>1. MappingInv => OriginalMapsForth
    <2>1. CASE applied = <<>>
      BY <2>1 DEF OriginalMapsForth
    <2>2. CASE MappingInv /\ applied # <<>>
      <3>1. PICK n, b, e, new, L, O, P, B, Q, size, C, delta, back :
                Current(n, b, e, new, L, O, P, B, Q, size, C, delta, back)
        BY <2>2 DEF MappingInv, IsCurrent
      <3>2. \A k \in TrackedPlaces :
                OriginalToTransformed(PositionOf(source, k)) = PositionOf(transformed, Image(k))
        BY <3>1, PlaceMaps
      <3>3. \A i \in TrackedEdits :
                \A k \in First(applied[i].original)..Behind(applied[i].original) - 1 :
                    OriginalToTransformed(PositionOf(source, k)) = applied[i].transformed.begin
        BY <3>1, EditMaps
      <3>. QED
        BY <3>2, <3>3 DEF OriginalMapsForth
    <2>. QED
      BY <2>1, <2>2
  <1>. QED
    BY <1>1, AlwaysMapping, PTL

\* A diagnostic on untouched text is shown on that text, and one on text that a plugin
\* made up at the start of what it replaced (SourceMapping::transformedToOriginal).
THEOREM TransformedStaysMapped == Spec => []TransformedMapsBack
  <1>1. MappingInv => TransformedMapsBack
    <2>1. CASE applied = <<>>
      BY <2>1 DEF TransformedMapsBack
    <2>2. CASE MappingInv /\ applied # <<>>
      <3>1. PICK n, b, e, new, L, O, P, B, Q, size, C, delta, back :
                Current(n, b, e, new, L, O, P, B, Q, size, C, delta, back)
        BY <2>2 DEF MappingInv, IsCurrent
      <3>2. \A k \in TrackedPlaces :
                TransformedToOriginal(PositionOf(transformed, Image(k))) = PositionOf(source, k)
        BY <3>1, PlaceMaps
      <3>3. \A i \in TrackedEdits, k \in 0..Len(transformed) :
                Inside(applied[i].transformed, PositionOf(transformed, k))
                => TransformedToOriginal(PositionOf(transformed, k)) = applied[i].original.begin
        BY <3>1, EditMaps
      <3>. QED
        BY <3>2, <3>3 DEF TransformedMapsBack
    <2>. QED
      BY <2>1, <2>2
  <1>. QED
    BY <1>1, AlwaysMapping, PTL
====
