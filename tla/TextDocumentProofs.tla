------------------------- MODULE TextDocumentProofs -------------------------
(***************************************************************************)
(* A text document under incremental edits, for any characters and any     *)
(* lengths of them in bytes and code units, any texts and edits: the       *)
(* server's text is the client's, the line offsets that are repaired are   *)
(* those that would be computed, and positions mean what the client means. *)
(* Then the copies that workspaces keep of documents, and the caches over  *)
(* them, for every set of files, folders and texts.                        *)
(***************************************************************************)
EXTENDS TextDocument, Documents, SequenceTheorems, FiniteSetTheorems, Lemmas

Texts == Seq(Char)

-----------------------------------------------------------------------------
(* Lengths                                                                 *)

\* What a character may be long.
Lengths == [Char -> Nat \ {0}]

LEMMA BothLengths == Bytes \in Lengths /\ Units \in Lengths
  BY TextAssumption DEF Lengths

IsSum(f, length, s) ==
    /\ f \in [0..Len(s) -> Nat]
    /\ f[0] = 0
    /\ \A k \in 1..Len(s) : f[k] = f[k - 1] + length[s[k]]

LEMMA SumExists ==
    ASSUME NEW length \in Lengths, NEW s \in Texts
    PROVE  \E f : IsSum(f, length, s)
  <1> DEFINE N == Len(s)
             step == [p \in (1..N) \X Nat |-> p[2] + length[s[p[1]]]]
  <1>1. N \in Nat /\ 0 \in Nat /\ \A k \in 1..N : length[s[k]] \in Nat
    BY DEF Texts, Lengths
  <1>2. step \in [(1..N) \X Nat -> Nat]
    BY <1>1
  <1>3. \A k \in 1..N, n \in Nat : step[<<k, n>>] = n + length[s[k]]
    OBVIOUS
  <1>4. PICK f \in [0..N -> Nat] : FollowsStep(f, N, 0, step)
    <2>. HIDE DEF N, step
    <2>. QED
      BY <1>1, <1>2, StepRecursion
  <1>5. ASSUME NEW k \in 1..N
        PROVE  f[k] = f[k - 1] + length[s[k]]
    <2>0. k - 1 \in 0..N
      BY <1>1
    <2>1. f[k] = step[<<k, f[k - 1]>>] /\ f[k - 1] \in Nat
      BY <1>4, <2>0 DEF FollowsStep
    <2>. HIDE DEF step
    <2>. QED
      BY <1>3, <2>1
  <1>. HIDE DEF step
  <1>. QED
    BY <1>4, <1>5 DEF IsSum, FollowsStep

LEMMA TotalIs ==
    ASSUME NEW length \in Lengths, NEW s \in Texts, NEW f, IsSum(f, length, s)
    PROVE  Total(length, s) = f[Len(s)]
  <1> DEFINE Def(g) == [k \in 0..Len(s) |-> IF k = 0 THEN 0 ELSE g[k - 1] + length[s[k]]]
             X == CHOOSE g : g = Def(g)
             P == {k \in Nat : X[k] = f[k]}
  <1>1. Len(s) \in Nat
    BY DEF Texts
  <1>2. f = Def(f)
    BY <1>1 DEF IsSum
  <1>3. Total(length, s) = X[Len(s)]
    BY DEF Total
  <1>4. \A g : /\ Def(g)[0] = 0
               /\ \A k \in 1..Len(s) : Def(g)[k] = g[k - 1] + length[s[k]]
    BY <1>1
  <1>. HIDE DEF Def
  <1>5. X = Def(X)
    BY <1>2
  <1>. HIDE DEF X
  <1>6. 0 \in P
    BY <1>4, <1>5 DEF IsSum
  <1>7. ASSUME NEW k \in 1..Len(s), k - 1 \in P
        PROVE  k \in P
    BY <1>1, <1>4, <1>5, <1>7 DEF IsSum
  <1>8. 0..Len(s) \subseteq P
    <2>. HIDE DEF P
    <2>. QED
      BY <1>1, <1>6, <1>7, StepInduction
  <1>. QED
    BY <1>1, <1>3, <1>8

LEMMA TotalConcat ==
    ASSUME NEW length \in Lengths, NEW s \in Texts, NEW t \in Texts
    PROVE  /\ Total(length, s) \in Nat /\ Total(length, t) \in Nat
           /\ Total(length, s \o t) = Total(length, s) + Total(length, t)
  <1>1. PICK f : IsSum(f, length, s)
    BY SumExists
  <1>2. PICK g : IsSum(g, length, t)
    BY SumExists
  <1>3. /\ s \o t \in Texts /\ Len(s \o t) = Len(s) + Len(t)
        /\ Len(s) \in Nat /\ Len(t) \in Nat
        /\ \A k \in 1..Len(s) : (s \o t)[k] = s[k]
        /\ \A k \in 1..Len(t) : (s \o t)[Len(s) + k] = t[k]
    BY PartOfConcat DEF Texts
  <1> DEFINE h == [k \in 0..Len(s \o t) |-> IF k <= Len(s) THEN f[k] ELSE f[Len(s)] + g[k - Len(s)]]
  <1>4. /\ f \in [0..Len(s) -> Nat] /\ f[0] = 0
        /\ \A k \in 1..Len(s) : f[k] = f[k - 1] + length[s[k]]
        /\ g \in [0..Len(t) -> Nat] /\ g[0] = 0
        /\ \A k \in 1..Len(t) : g[k] = g[k - 1] + length[t[k]]
        /\ \A k \in 1..Len(t) : length[t[k]] \in Nat
    BY <1>1, <1>2 DEF IsSum, Lengths, Texts
  <1>5. \A k \in 0..Len(s \o t) : h[k] \in Nat
    <2> TAKE k \in 0..Len(s \o t)
    <2>1. k <= Len(s) => k \in 0..Len(s)
      BY <1>3
    <2>2. ~(k <= Len(s)) => k - Len(s) \in 0..Len(t)
      BY <1>3
    <2>3. Len(s) \in 0..Len(s)
      BY <1>3
    <2>4. h[k] = IF k <= Len(s) THEN f[k] ELSE f[Len(s)] + g[k - Len(s)]
      OBVIOUS
    <2>. HIDE DEF h
    <2>5. CASE k <= Len(s)
      BY <1>4, <2>1, <2>4, <2>5
    <2>6. CASE ~(k <= Len(s))
      <3>1. f[Len(s)] \in Nat /\ g[k - Len(s)] \in Nat
        BY <1>4, <2>2, <2>3, <2>6
      <3>. QED
        BY <2>4, <2>6, <3>1
    <2>. QED
      BY <2>5, <2>6
  <1>6. h[0] = 0
    BY <1>3, <1>4
  <1>7. ASSUME NEW k \in 1..Len(s \o t)
        PROVE  h[k] = h[k - 1] + length[(s \o t)[k]]
    <2>0. k \in 0..Len(s \o t) /\ k - 1 \in 0..Len(s \o t)
      BY <1>3
    <2>1. CASE k <= Len(s)
      <3>1. k \in 1..Len(s) /\ k - 1 <= Len(s)
        BY <1>3, <2>1
      <3>2. h[k] = f[k] /\ h[k - 1] = f[k - 1]
        BY <2>0, <3>1
      <3>. HIDE DEF h
      <3>. QED
        BY <1>3, <1>4, <3>1, <3>2
    <2>2. CASE k > Len(s)
      <3>1. k - Len(s) \in 1..Len(t) /\ (k - 1) - Len(s) = (k - Len(s)) - 1
            /\ k = Len(s) + (k - Len(s)) /\ (k - Len(s)) - 1 \in 0..Len(t)
        BY <1>3, <2>2
      <3>2. h[k] = f[Len(s)] + g[k - Len(s)]
        BY <1>3, <2>0, <2>2
      <3>3. h[k - 1] = f[Len(s)] + g[(k - Len(s)) - 1]
        <4>1. CASE k - 1 = Len(s)
          <5>1. h[k - 1] = f[Len(s)] /\ (k - Len(s)) - 1 = 0
            BY <1>3, <2>0, <4>1
          <5>2. f[Len(s)] \in Nat
            BY <1>3, <1>4
          <5>. HIDE DEF h
          <5>. QED
            BY <1>4, <5>1, <5>2
        <4>2. CASE k - 1 # Len(s)
          BY <1>3, <2>0, <2>2, <3>1, <4>2
        <4>. QED
          BY <4>1, <4>2
      <3>4. (s \o t)[k] = t[k - Len(s)]
        BY <1>3, <3>1
      <3>5. g[k - Len(s)] = g[(k - Len(s)) - 1] + length[t[k - Len(s)]]
        BY <1>4, <3>1
      <3>6. f[Len(s)] \in Nat /\ g[(k - Len(s)) - 1] \in Nat /\ length[t[k - Len(s)]] \in Nat
        <4>1. Len(s) \in 0..Len(s)
          BY <1>3
        <4>. QED
          BY <1>4, <3>1, <4>1
      <3>. HIDE DEF h
      <3>. QED
        BY <3>2, <3>3, <3>4, <3>5, <3>6
    <2>. QED
      BY <1>3, <2>1, <2>2
  <1>8. IsSum(h, length, s \o t)
    <2>1. h \in [0..Len(s \o t) -> Nat]
      BY <1>5
    <2>. HIDE DEF h
    <2>. QED
      BY <1>6, <1>7, <2>1 DEF IsSum
  <1>9. h[Len(s \o t)] = f[Len(s)] + g[Len(t)]
    <2>1. CASE Len(t) = 0
      <3>1. h[Len(s \o t)] = f[Len(s)] /\ f[Len(s)] \in Nat
        BY <1>3, <1>4, <2>1
      <3>. HIDE DEF h
      <3>. QED
        BY <1>4, <2>1, <3>1
    <2>2. CASE Len(t) # 0
      <3>1. ~(Len(s \o t) <= Len(s)) /\ Len(s \o t) - Len(s) = Len(t) /\ Len(s \o t) \in 0..Len(s \o t)
        BY <1>3, <2>2
      <3>. QED
        BY <3>1
    <2>. QED
      BY <2>1, <2>2
  <1>. HIDE DEF h
  <1>10. /\ Total(length, s) = f[Len(s)] /\ Total(length, t) = g[Len(t)]
         /\ Total(length, s \o t) = h[Len(s \o t)]
    <2>1. Total(length, s) = f[Len(s)]
      BY <1>1, TotalIs
    <2>2. Total(length, t) = g[Len(t)]
      BY <1>2, TotalIs
    <2>3. Total(length, s \o t) = h[Len(s \o t)]
      BY <1>3, <1>8, TotalIs
    <2>. QED
      BY <2>1, <2>2, <2>3
  <1>11. f[Len(s)] \in Nat /\ g[Len(t)] \in Nat
    BY <1>3, <1>4
  <1>. QED
    BY <1>9, <1>10, <1>11

LEMMA TotalPositive ==
    ASSUME NEW length \in Lengths, NEW s \in Texts
    PROVE  /\ Total(length, s) \in Nat
           /\ s = <<>> => Total(length, s) = 0
           /\ s # <<>> => Total(length, s) > 0
  <1>1. PICK f : IsSum(f, length, s)
    BY SumExists
  <1>2. Total(length, s) = f[Len(s)]
    BY <1>1, TotalIs
  <1>3. Len(s) \in Nat /\ (s = <<>> <=> Len(s) = 0)
    BY EmptySeq DEF Texts
  <1>4. CASE Len(s) = 0
    BY <1>1, <1>2, <1>3, <1>4 DEF IsSum
  <1>5. CASE Len(s) # 0
    <2>1. Len(s) \in 1..Len(s) /\ Len(s) - 1 \in 0..Len(s) /\ Len(s) \in 0..Len(s)
      BY <1>3, <1>5
    <2>2. length[s[Len(s)]] \in Nat \ {0}
      BY <2>1 DEF Lengths, Texts
    <2>3. f[Len(s)] = f[Len(s) - 1] + length[s[Len(s)]] /\ f[Len(s) - 1] \in Nat
      BY <1>1, <2>1 DEF IsSum
    <2>. QED
      BY <1>2, <1>3, <1>5, <2>2, <2>3
  <1>. QED
    BY <1>4, <1>5

\* The lengths of the starts of a text grow.
LEMMA StartsGrow ==
    ASSUME NEW length \in Lengths, NEW s \in Texts, NEW j \in 0..Len(s), NEW i \in 0..j
    PROVE  /\ Total(length, SubSeq(s, 1, i)) \in Nat /\ Total(length, SubSeq(s, 1, j)) \in Nat
           /\ Total(length, SubSeq(s, i + 1, j)) \in Nat
           /\ Total(length, SubSeq(s, 1, j))
                = Total(length, SubSeq(s, 1, i)) + Total(length, SubSeq(s, i + 1, j))
           /\ i < j => Total(length, SubSeq(s, 1, i)) < Total(length, SubSeq(s, 1, j))
           /\ i = j => Total(length, SubSeq(s, i + 1, j)) = 0
  <1>1. /\ SubSeq(s, 1, i) \in Texts /\ SubSeq(s, i + 1, j) \in Texts /\ SubSeq(s, 1, j) \in Texts
        /\ Len(SubSeq(s, i + 1, j)) = j - i
    BY DEF Texts
  <1>2. SubSeq(s, 1, i) \o SubSeq(s, i + 1, j) = SubSeq(s, 1, j)
    BY CutInTwo DEF Texts
  <1>3. /\ Total(length, SubSeq(s, 1, i)) \in Nat /\ Total(length, SubSeq(s, i + 1, j)) \in Nat
        /\ Total(length, SubSeq(s, 1, j))
             = Total(length, SubSeq(s, 1, i)) + Total(length, SubSeq(s, i + 1, j))
    BY <1>1, <1>2, TotalConcat
  <1>4. ASSUME i < j
        PROVE  Total(length, SubSeq(s, i + 1, j)) > 0
    <2>1. SubSeq(s, i + 1, j) # <<>>
      <3>1. Len(SubSeq(s, i + 1, j)) # 0
        BY <1>1, <1>4
      <3>2. Len(<<>>) = 0
        OBVIOUS
      <3>. QED
        BY <3>1, <3>2
    <2>. QED
      BY <1>1, <2>1, TotalPositive
  <1>5. ASSUME i = j
        PROVE  Total(length, SubSeq(s, i + 1, j)) = 0
    <2>1. SubSeq(s, i + 1, j) = <<>>
      BY <1>5, <1>1, EmptySeq DEF Texts
    <2>. QED
      BY <1>1, <2>1, TotalPositive
  <1>. QED
    BY <1>3, <1>4, <1>5

-----------------------------------------------------------------------------
(* Sequences that enumerate a set of numbers in their order                *)

Enumerates(q, T) ==
    /\ q \in Seq(Nat)
    /\ \A i, j \in 1..Len(q) : i < j => q[i] < q[j]
    /\ T = {q[i] : i \in 1..Len(q)}

LEMMA Entries ==
    ASSUME NEW T, NEW q, Enumerates(q, T)
    PROVE  /\ Len(q) \in Nat /\ DOMAIN q = 1..Len(q)
           /\ \A i \in 1..Len(q) : q[i] \in Nat /\ q[i] \in T
           /\ \A e \in T : e \in Nat /\ \E i \in 1..Len(q) : e = q[i]
           /\ \A i, j \in 1..Len(q) : i <= j => q[i] <= q[j]
  <1>1. /\ Len(q) \in Nat /\ DOMAIN q = 1..Len(q)
        /\ \A i \in 1..Len(q) : q[i] \in Nat
    BY DEF Enumerates
  <1>2. /\ \A i \in 1..Len(q) : q[i] \in T
        /\ \A e \in T : \E i \in 1..Len(q) : e = q[i]
    BY DEF Enumerates
  <1>3. ASSUME NEW i \in 1..Len(q), NEW j \in 1..Len(q), i <= j
        PROVE  q[i] <= q[j]
    <2>1. i = j \/ i < j
      BY <1>1, <1>3
    <2>2. i < j => q[i] < q[j]
      BY DEF Enumerates
    <2>. QED
      BY <1>1, <2>1, <2>2
  <1>. QED
    BY <1>1, <1>2, <1>3

LEMMA SameEntries ==
    ASSUME NEW T, NEW q, NEW r, Enumerates(q, T), Enumerates(r, T)
    PROVE  /\ Len(q) <= Len(r)
           /\ \A i \in 1..Len(q) : i \in 1..Len(r) /\ q[i] = r[i]
  <1> DEFINE P == {i \in Nat : i \in 1..Len(r) /\ q[i] = r[i]}
  <1>1. /\ Len(q) \in Nat /\ Len(r) \in Nat
        /\ \A i \in 1..Len(q) : q[i] \in Nat /\ q[i] \in T
        /\ \A i \in 1..Len(r) : r[i] \in Nat /\ r[i] \in T
        /\ \A e \in T : \E i \in 1..Len(q) : e = q[i]
        /\ \A e \in T : \E i \in 1..Len(r) : e = r[i]
        /\ \A i, j \in 1..Len(q) : i <= j => q[i] <= q[j]
        /\ \A i, j \in 1..Len(r) : i <= j => r[i] <= r[j]
        /\ \A i, j \in 1..Len(q) : i < j => q[i] < q[j]
        /\ \A i, j \in 1..Len(r) : i < j => r[i] < r[j]
    BY Entries DEF Enumerates
  <1>2. ASSUME NEW i \in 1..Len(q), \A j \in 1..Len(q) : j < i => j \in P
        PROVE  i \in P
    <2>1. PICK m \in 1..Len(r) : q[i] = r[m]
      BY <1>1
    <2>2. ~(m < i)
      <3>1. SUFFICES ASSUME m < i PROVE FALSE
        OBVIOUS
      <3>2. m \in 1..Len(q) /\ q[m] = r[m] /\ q[m] < q[i] /\ q[m] \in Nat
        BY <1>1, <1>2, <3>1
      <3>. QED
        BY <2>1, <3>2
    <2>3. i \in 1..Len(r) /\ r[i] <= r[m]
      BY <1>1, <2>2
    <2>4. PICK n \in 1..Len(q) : r[i] = q[n]
      BY <1>1, <2>3
    <2>5. ~(n < i)
      <3>1. SUFFICES ASSUME n < i PROVE FALSE
        OBVIOUS
      <3>2. n \in 1..Len(r) /\ q[n] = r[n] /\ r[n] < r[i] /\ r[n] \in Nat
        BY <1>1, <1>2, <2>3, <3>1
      <3>. QED
        BY <2>4, <3>2
    <2>6. q[i] <= q[n]
      BY <1>1, <2>5
    <2>7. q[i] \in Nat /\ r[i] \in Nat
      BY <1>1, <2>3
    <2>8. q[i] = r[i]
      BY <2>1, <2>3, <2>4, <2>6, <2>7
    <2>. QED
      BY <1>1, <2>3, <2>8
  <1>3. 1..Len(q) \subseteq P
    <2>. HIDE DEF P
    <2>1. 1..Len(q) \in SUBSET Nat
      BY <1>1
    <2>. QED
      BY <1>2, <2>1, StrongInduction
  <1>4. Len(q) <= Len(r)
    <2>1. CASE Len(q) = 0
      BY <1>1, <2>1
    <2>2. CASE Len(q) # 0
      BY <1>1, <1>3, <2>2
    <2>. QED
      BY <2>1, <2>2
  <1>. QED
    BY <1>3, <1>4

\* There is one such sequence.
LEMMA OneEnumeration ==
    ASSUME NEW T, NEW q, NEW r, Enumerates(q, T), Enumerates(r, T)
    PROVE  q = r
  <1>1. /\ q \in Seq(Nat) /\ r \in Seq(Nat) /\ Len(q) \in Nat /\ Len(r) \in Nat
    BY DEF Enumerates
  <1>2. \A i \in 1..Len(q) : q[i] = r[i]
    BY SameEntries
  <1>3. Len(q) <= Len(r)
    BY SameEntries
  <1>5. Len(r) <= Len(q)
    BY SameEntries
  <1>4. Len(q) = Len(r)
    BY <1>1, <1>3, <1>5
  <1>. QED
    BY <1>1, <1>2, <1>4, SeqEqual

LEMMA EnumerateMore ==
    ASSUME NEW T, NEW q, Enumerates(q, T), NEW v \in Nat, \A e \in T : e < v
    PROVE  Enumerates(Append(q, v), T \cup {v})
  <1> DEFINE r == Append(q, v)
  <1>1. /\ q \in Seq(Nat) /\ Len(q) \in Nat
        /\ r \in Seq(Nat) /\ Len(r) = Len(q) + 1
        /\ \A i \in 1..Len(q) : r[i] = q[i]
        /\ r[Len(q) + 1] = v
    BY DEF Enumerates
  <1>. HIDE DEF r
  <1>2. ASSUME NEW i \in 1..Len(r), NEW j \in 1..Len(r), i < j
        PROVE  r[i] < r[j]
    <2>1. i \in 1..Len(q) /\ r[i] = q[i] /\ q[i] \in T
      <3>1. i \in 1..Len(q)
        BY <1>1, <1>2
      <3>2. r[i] = q[i]
        BY <1>1, <3>1
      <3>. QED
        BY <3>1, <3>2, Entries
    <2>2. CASE j = Len(q) + 1
      <3>1. r[j] = v /\ q[i] < v
        BY <1>1, <2>1, <2>2
      <3>. QED
        BY <2>1, <3>1
    <2>3. CASE j # Len(q) + 1
      <3>1. j \in 1..Len(q) /\ r[j] = q[j]
        BY <1>1, <2>3
      <3>. QED
        BY <1>2, <2>1, <3>1 DEF Enumerates
    <2>. QED
      BY <2>2, <2>3
  <1>3. T \cup {v} = {r[i] : i \in 1..Len(r)}
    <2>1. T \subseteq {r[i] : i \in 1..Len(r)}
      <3>1. ASSUME NEW e \in T
            PROVE  \E i \in 1..Len(r) : e = r[i]
        <4>1. PICK i \in 1..Len(q) : e = q[i]
          BY DEF Enumerates
        <4>2. i \in 1..Len(r) /\ e = r[i]
          BY <1>1, <4>1
        <4>. QED
          BY <4>2
      <3>. QED
        BY <3>1
    <2>2. Len(q) + 1 \in 1..Len(r)
      BY <1>1
    <2>3. ASSUME NEW i \in 1..Len(r)
          PROVE  r[i] \in T \cup {v}
      <3>1. CASE i = Len(q) + 1
        BY <1>1, <3>1
      <3>2. CASE i # Len(q) + 1
        <4>1. i \in 1..Len(q) /\ r[i] = q[i]
          BY <1>1, <3>2
        <4>. QED
          BY <4>1 DEF Enumerates
      <3>. QED
        BY <3>1, <3>2
    <2>. QED
      BY <1>1, <2>1, <2>2, <2>3
  <1>4. Enumerates(r, T \cup {v})
    BY <1>1, <1>2, <1>3 DEF Enumerates
  <1>. QED
    BY <1>4 DEF r

\* How many entries there are up to a number.
LEMMA EntriesUpTo ==
    ASSUME NEW T, NEW q, Enumerates(q, T), NEW v \in Nat, Len(q) >= 1, q[1] <= v
    PROVE  LET m == Max({i \in 1..Len(q) : q[i] <= v})
           IN  /\ m \in 1..Len(q)
               /\ \A i \in 1..Len(q) : q[i] <= v <=> i <= m
  <1> DEFINE S == {i \in 1..Len(q) : q[i] <= v}
             m == Max(S)
  <1>1. /\ Len(q) \in Nat /\ \A i \in 1..Len(q) : q[i] \in Nat
        /\ \A i, j \in 1..Len(q) : i <= j => q[i] <= q[j]
    BY Entries
  <1>2. S \in SUBSET Nat /\ 1 \in S /\ \A i \in S : i <= Len(q)
    BY <1>1
  <1>3. m \in S /\ \A i \in S : i <= m
    <2>. HIDE DEF S
    <2>. QED
      BY <1>1, <1>2, MaxOf
  <1>4. \A i \in 1..Len(q) : i <= m => q[i] <= v
    <2> TAKE i \in 1..Len(q)
    <2> HAVE i <= m
    <2>1. m \in 1..Len(q) /\ q[m] <= v /\ q[i] <= q[m] /\ q[i] \in Nat /\ q[m] \in Nat
      BY <1>1, <1>3
    <2>. HIDE DEF m
    <2>. QED
      BY <2>1
  <1>. QED
    BY <1>3, <1>4

LEMMA CountEntries ==
    ASSUME NEW T, NEW q, Enumerates(q, T), NEW m \in 1..Len(q)
    PROVE  /\ Cardinality({q[i] : i \in 2..m}) = m - 1
           /\ {q[i] : i \in 2..m} = {} <=> m = 1
           /\ m # 1 => Max({q[i] : i \in 2..m}) = q[m]
  <1> DEFINE later == {q[i] : i \in 2..m}
             f == [i \in 1..(m - 1) |-> q[i + 1]]
  <1>1. /\ Len(q) \in Nat /\ \A i \in 1..Len(q) : q[i] \in Nat
        /\ \A i, j \in 1..Len(q) : i <= j => q[i] <= q[j]
        /\ \A i, j \in 1..Len(q) : i < j => q[i] < q[j]
    BY Entries DEF Enumerates
  <1>2. /\ m \in Nat /\ m - 1 \in Nat
        /\ \A i \in 1..(m - 1) : i + 1 \in 2..m /\ i + 1 \in 1..Len(q)
        /\ \A i \in 2..m : i - 1 \in 1..(m - 1) /\ i \in 1..Len(q) /\ i = (i - 1) + 1
    BY <1>1
  <1>3. f \in Bijection(1..(m - 1), later)
    <2>1. f \in [1..(m - 1) -> later]
      BY <1>2
    <2>2. \A i, j \in 1..(m - 1) : f[i] = f[j] => i = j
      <3> SUFFICES ASSUME NEW i \in 1..(m - 1), NEW j \in 1..(m - 1), i # j
                   PROVE  f[i] # f[j]
        OBVIOUS
      <3>1. i + 1 \in 1..Len(q) /\ j + 1 \in 1..Len(q) /\ (i + 1 < j + 1 \/ j + 1 < i + 1)
        BY <1>2
      <3>2. q[i + 1] \in Nat /\ q[j + 1] \in Nat /\ (q[i + 1] < q[j + 1] \/ q[j + 1] < q[i + 1])
        BY <1>1, <3>1
      <3>. QED
        BY <3>2
    <2>3. \A e \in later : \E i \in 1..(m - 1) : f[i] = e
      <3> TAKE e \in later
      <3>1. PICK i \in 2..m : e = q[i]
        OBVIOUS
      <3>2. i - 1 \in 1..(m - 1) /\ f[i - 1] = q[(i - 1) + 1] /\ (i - 1) + 1 = i
        BY <1>2
      <3>. QED
        BY <3>1, <3>2
    <2>4. DOMAIN f = 1..(m - 1)
      OBVIOUS
    <2>. HIDE DEF f, later
    <2>. QED
      BY <2>1, <2>2, <2>3, <2>4 DEF Bijection, Injection, Surjection, IsInjective
  <1>4. Cardinality(later) = m - 1
    <2>. HIDE DEF f, later
    <2>1. ExistsBijection(1..(m - 1), later)
      BY <1>3 DEF ExistsBijection
    <2>. QED
      BY <1>2, <2>1, FS_CountingElements
  <1>5. later = {} <=> m = 1
    <2>1. m # 1 => m \in 2..m
      BY <1>2
    <2>2. m = 1 => 2..m = {}
      BY <1>2
    <2>. QED
      BY <2>1, <2>2
  <1>6. ASSUME m # 1
        PROVE  Max(later) = q[m]
    <2>1. m \in 2..m
      BY <1>2, <1>6
    <2>2. later \in SUBSET Nat /\ q[m] \in later /\ \A e \in later : e <= q[m]
      BY <1>1, <1>2, <2>1
    <2>. HIDE DEF later
    <2>3. q[m] \in Nat
      BY <2>2
    <2>4. Max(later) \in later /\ \A e \in later : e <= Max(later)
      BY <2>2, <2>3, MaxOf
    <2>5. Max(later) \in Nat /\ Max(later) <= q[m] /\ q[m] <= Max(later)
      BY <2>2, <2>4
    <2>. QED
      BY <2>3, <2>5
  <1>. QED
    BY <1>4, <1>5, <1>6
-----------------------------------------------------------------------------
(* Line ends                                                               *)

\* The offset of the place behind k characters.
Upto(s, k) == ByteLength(SubSeq(s, 1, k))

LEMMA UptoGrows ==
    ASSUME NEW s \in Texts
    PROVE  /\ Len(s) \in Nat /\ Upto(s, 0) = 0 /\ Upto(s, Len(s)) = ByteLength(s)
           /\ ByteLength(s) \in Nat
           /\ \A j \in 0..Len(s) : Upto(s, j) \in Nat
           /\ \A j \in 0..Len(s) : \A i \in 0..j : i < j => Upto(s, i) < Upto(s, j)
           /\ \A j \in 0..Len(s) : \A i \in 0..j :
                  /\ ByteLength(SubSeq(s, i + 1, j)) \in Nat
                  /\ Upto(s, j) = Upto(s, i) + ByteLength(SubSeq(s, i + 1, j))
  <1>1. Len(s) \in Nat /\ 0 \in 0..Len(s) /\ Len(s) \in 0..Len(s)
    BY DEF Texts
  <1>2. SubSeq(s, 1, Len(s)) = s /\ SubSeq(s, 1, 0) = <<>>
    BY <1>1, WholeText DEF Texts
  <1>3. <<>> \in Texts
    BY DEF Texts
  <1>4. Upto(s, 0) = 0 /\ Upto(s, Len(s)) = ByteLength(s)
    BY <1>2, <1>3, BothLengths, TotalPositive DEF Upto, ByteLength
  <1>5. ASSUME NEW j \in 0..Len(s), NEW i \in 0..j
        PROVE  /\ Upto(s, i) \in Nat /\ Upto(s, j) \in Nat /\ ByteLength(SubSeq(s, i + 1, j)) \in Nat
               /\ Upto(s, j) = Upto(s, i) + ByteLength(SubSeq(s, i + 1, j))
               /\ i < j => Upto(s, i) < Upto(s, j)
    BY BothLengths, StartsGrow DEF Upto, ByteLength
  <1>6. ASSUME NEW j \in 0..Len(s)
        PROVE  Upto(s, j) \in Nat
    <2>1. 0 \in 0..j
      BY <1>1
    <2>. QED
      BY <1>5, <2>1
  <1>. QED
    BY <1>1, <1>4, <1>5, <1>6

LEMMA UptoOrder ==
    ASSUME NEW s \in Texts, NEW i \in 0..Len(s), NEW j \in 0..Len(s)
    PROVE  /\ Upto(s, i) \in Nat /\ Upto(s, j) \in Nat
           /\ Upto(s, i) <= Upto(s, j) <=> i <= j
  <1>1. /\ Len(s) \in Nat /\ Upto(s, i) \in Nat /\ Upto(s, j) \in Nat
    BY UptoGrows
  <1>2. i < j => Upto(s, i) < Upto(s, j)
    BY <1>1, UptoGrows
  <1>3. j < i => Upto(s, j) < Upto(s, i)
    BY <1>1, UptoGrows
  <1>. QED
    BY <1>1, <1>2, <1>3

\* Two texts that make no line end together.
Apart(s, t) == ~MakeLineEnd(s, t)

LEMMA UptoConcat ==
    ASSUME NEW s \in Texts, NEW t \in Texts
    PROVE  /\ ByteLength(s) \in Nat
           /\ \A k \in 0..Len(s) : Upto(s \o t, k) = Upto(s, k)
           /\ \A k \in 0..Len(t) : Upto(s \o t, Len(s) + k) = ByteLength(s) + Upto(t, k)
  <1>1. ASSUME NEW k \in 0..Len(s)
        PROVE  Upto(s \o t, k) = Upto(s, k)
    BY PartOfConcat DEF Upto, Texts
  <1>2. ASSUME NEW k \in 0..Len(t)
        PROVE  Upto(s \o t, Len(s) + k) = ByteLength(s) + Upto(t, k)
    <2>1. SubSeq(s \o t, 1, Len(s) + k) = s \o SubSeq(t, 1, k)
      BY PartOfConcat DEF Texts
    <2>2. SubSeq(t, 1, k) \in Texts
      BY WholeText DEF Texts
    <2>3. Total(Bytes, s \o SubSeq(t, 1, k)) = Total(Bytes, s) + Total(Bytes, SubSeq(t, 1, k))
      BY <2>2, BothLengths, TotalConcat
    <2>. QED
      BY <2>1, <2>3 DEF Upto, ByteLength
  <1>. QED
    BY <1>1, <1>2, UptoGrows

LEMMA EndsOfConcat ==
    ASSUME NEW s \in Texts, NEW t \in Texts, Apart(s, t)
    PROVE  /\ \A k \in 1..Len(s) : EndsLine(s \o t, k) <=> EndsLine(s, k)
           /\ \A k \in 1..Len(t) : EndsLine(s \o t, Len(s) + k) <=> EndsLine(t, k)
  <1> DEFINE u == s \o t
  <1>1. /\ Len(u) = Len(s) + Len(t) /\ Len(s) \in Nat /\ Len(t) \in Nat
        /\ \A k \in 1..Len(s) : u[k] = s[k]
        /\ \A k \in 1..Len(t) : u[Len(s) + k] = t[k]
    BY PartOfConcat DEF Texts
  <1>2. /\ s # <<>> <=> Len(s) # 0
        /\ t # <<>> <=> Len(t) # 0
    BY EmptySeq DEF Texts
  <1>3. Last(s) = s[Len(s)] /\ Head(t) = t[1]
    BY DEF Last, Texts
  <1>. HIDE DEF u
  <1>4. ASSUME NEW k \in 1..Len(s)
        PROVE  EndsLine(u, k) <=> EndsLine(s, k)
    <2>1. u[k] = s[k]
      BY <1>1
    <2>2. CASE k < Len(s)
      <3>1. k + 1 \in 1..Len(s) /\ k < Len(u)
        BY <1>1, <2>2
      <3>2. u[k + 1] = s[k + 1]
        BY <1>1, <3>1
      <3>. QED
        BY <2>1, <2>2, <3>1, <3>2 DEF EndsLine
    <2>3. CASE k = Len(s)
      <3>1. Len(s) # 0 /\ ~(k < Len(s))
        BY <1>1, <2>3
      <3>2. CASE Len(t) = 0
        <4>1. ~(k < Len(u))
          BY <1>1, <2>3, <3>2
        <4>. QED
          BY <2>1, <3>1, <4>1 DEF EndsLine
      <3>3. CASE Len(t) # 0
        <4>1. 1 \in 1..Len(t) /\ Len(s) + 1 = k + 1
          BY <1>1, <2>3, <3>3
        <4>2. u[k + 1] = t[1]
          BY <1>1, <4>1
        <4>3. ~(s[k] = CR /\ t[1] = LF)
          BY <1>2, <1>3, <2>3, <3>1, <3>3 DEF Apart, MakeLineEnd
        <4>. QED
          BY <2>1, <3>1, <4>2, <4>3 DEF EndsLine
      <3>. QED
        BY <3>2, <3>3
    <2>. QED
      BY <1>1, <2>2, <2>3
  <1>5. ASSUME NEW k \in 1..Len(t)
        PROVE  EndsLine(u, Len(s) + k) <=> EndsLine(t, k)
    <2>1. u[Len(s) + k] = t[k]
      BY <1>1
    <2>2. Len(s) + k < Len(u) <=> k < Len(t)
      BY <1>1
    <2>3. CASE k < Len(t)
      <3>1. k + 1 \in 1..Len(t) /\ Len(s) + (k + 1) = (Len(s) + k) + 1
        BY <1>1, <2>3
      <3>2. u[(Len(s) + k) + 1] = t[k + 1]
        BY <1>1, <3>1
      <3>. QED
        BY <2>1, <2>2, <2>3, <3>2 DEF EndsLine
    <2>4. CASE ~(k < Len(t))
      BY <2>1, <2>2, <2>4 DEF EndsLine
    <2>. QED
      BY <2>3, <2>4
  <1>. QED
    BY <1>4, <1>5 DEF u

Later(set, by) == {by + e : e \in set}

LEMMA LineEndsAre ==
    ASSUME NEW s \in Texts
    PROVE  /\ \A e \in LineEnds(s) :
                  /\ e \in Nat /\ 0 < e /\ e <= ByteLength(s)
                  /\ \E k \in 1..Len(s) : EndsLine(s, k) /\ e = Upto(s, k)
           /\ \A k \in 1..Len(s) : EndsLine(s, k) => Upto(s, k) \in LineEnds(s)
  <1>1. ASSUME NEW e \in LineEnds(s)
        PROVE  \E k \in 1..Len(s) : EndsLine(s, k) /\ e = Upto(s, k)
    BY DEF LineEnds, Upto
  <1>2. ASSUME NEW k \in 1..Len(s)
        PROVE  Upto(s, k) \in Nat /\ 0 < Upto(s, k) /\ Upto(s, k) <= ByteLength(s)
    <2>1. Len(s) \in Nat /\ k \in 0..Len(s) /\ 0 \in 0..Len(s) /\ Len(s) \in 0..Len(s)
      BY UptoGrows
    <2>2. Upto(s, k) \in Nat /\ Upto(s, k) <= Upto(s, Len(s)) /\ ~(Upto(s, k) <= Upto(s, 0))
      BY <2>1, UptoOrder
    <2>. QED
      BY <2>2, UptoGrows
  <1>3. ASSUME NEW k \in 1..Len(s), EndsLine(s, k)
        PROVE  Upto(s, k) \in LineEnds(s)
    BY <1>3 DEF LineEnds, Upto
  <1>. QED
    BY <1>1, <1>2, <1>3

LEMMA LineEndsOfConcat ==
    ASSUME NEW s \in Texts, NEW t \in Texts, Apart(s, t)
    PROVE  LineEnds(s \o t) = LineEnds(s) \cup Later(LineEnds(t), ByteLength(s))
  <1>1. /\ s \o t \in Texts /\ Len(s \o t) = Len(s) + Len(t) /\ Len(s) \in Nat /\ Len(t) \in Nat
    BY PartOfConcat DEF Texts
  <1>2. ASSUME NEW e \in LineEnds(s \o t)
        PROVE  e \in LineEnds(s) \cup Later(LineEnds(t), ByteLength(s))
    <2>1. PICK k \in 1..Len(s \o t) : EndsLine(s \o t, k) /\ e = Upto(s \o t, k)
      BY <1>1, LineEndsAre
    <2>2. CASE k <= Len(s)
      <3>1. k \in 1..Len(s) /\ k \in 0..Len(s)
        BY <1>1, <2>2
      <3>2. EndsLine(s, k) /\ e = Upto(s, k)
        BY <2>1, <3>1, EndsOfConcat, UptoConcat
      <3>. QED
        BY <3>1, <3>2, LineEndsAre
    <2>3. CASE k > Len(s)
      <3>1. k - Len(s) \in 1..Len(t) /\ k - Len(s) \in 0..Len(t) /\ Len(s) + (k - Len(s)) = k
        BY <1>1, <2>3
      <3>2. EndsLine(t, k - Len(s)) /\ e = ByteLength(s) + Upto(t, k - Len(s))
        BY <2>1, <3>1, EndsOfConcat, UptoConcat
      <3>3. Upto(t, k - Len(s)) \in LineEnds(t)
        BY <3>1, <3>2, LineEndsAre
      <3>. QED
        BY <3>2, <3>3 DEF Later
    <2>. QED
      BY <1>1, <2>2, <2>3
  <1>3. ASSUME NEW e \in LineEnds(s)
        PROVE  e \in LineEnds(s \o t)
    <2>1. PICK k \in 1..Len(s) : EndsLine(s, k) /\ e = Upto(s, k)
      BY LineEndsAre
    <2>2. k \in 0..Len(s) /\ k \in 1..Len(s \o t)
      BY <1>1
    <2>3. EndsLine(s \o t, k) /\ e = Upto(s \o t, k)
      BY <2>1, <2>2, EndsOfConcat, UptoConcat
    <2>. QED
      BY <1>1, <2>2, <2>3, LineEndsAre
  <1>4. ASSUME NEW e \in Later(LineEnds(t), ByteLength(s))
        PROVE  e \in LineEnds(s \o t)
    <2>1. PICK d \in LineEnds(t) : e = ByteLength(s) + d
      BY DEF Later
    <2>2. PICK k \in 1..Len(t) : EndsLine(t, k) /\ d = Upto(t, k)
      BY LineEndsAre
    <2>3. k \in 0..Len(t) /\ Len(s) + k \in 1..Len(s \o t)
      BY <1>1
    <2>4. EndsLine(s \o t, Len(s) + k) /\ e = Upto(s \o t, Len(s) + k)
      BY <2>1, <2>2, <2>3, EndsOfConcat, UptoConcat
    <2>. QED
      BY <1>1, <2>3, <2>4, LineEndsAre
  <1>. QED
    BY <1>2, <1>3, <1>4

-----------------------------------------------------------------------------
(* computeLineOffsets                                                      *)

LEMMA OffsetsExist ==
    ASSUME NEW s \in Texts, NEW start \in BOOLEAN, NEW o \in Nat
    PROVE  \E f \in [0..Len(s) -> Seq(Nat)] :
               /\ f[0] = IF start THEN <<o>> ELSE <<>>
               /\ \A k \in 1..Len(s) :
                      f[k] = IF EndsLine(s, k) THEN Append(f[k - 1], o + Upto(s, k)) ELSE f[k - 1]
               /\ ComputeLineOffsets(s, start, o) = f[Len(s)]
  <1> DEFINE N == Len(s)
             first == IF start THEN <<o>> ELSE <<>>
             step == [p \in (1..N) \X Seq(Nat) |->
                         IF EndsLine(s, p[1]) THEN Append(p[2], o + Upto(s, p[1])) ELSE p[2]]
             Def(g) == [k \in 0..Len(s) |->
                           IF k = 0 THEN IF start THEN <<o>> ELSE <<>>
                           ELSE IF EndsLine(s, k) THEN Append(g[k - 1], o + ByteLength(SubSeq(s, 1, k)))
                           ELSE g[k - 1]]
             X == CHOOSE g : g = Def(g)
  <1>1. N \in Nat /\ first \in Seq(Nat) /\ \A k \in 1..N : o + Upto(s, k) \in Nat
    <2>1. Len(s) \in Nat /\ \A k \in 0..Len(s) : Upto(s, k) \in Nat
      BY UptoGrows
    <2>2. \A k \in 1..Len(s) : k \in 0..Len(s)
      BY <2>1
    <2>. QED
      BY <2>1, <2>2
  <1>2. step \in [(1..N) \X Seq(Nat) -> Seq(Nat)]
    BY <1>1
  <1>3. \A k \in 1..N, q \in Seq(Nat) :
            step[<<k, q>>] = IF EndsLine(s, k) THEN Append(q, o + Upto(s, k)) ELSE q
    OBVIOUS
  <1>4. PICK f \in [0..N -> Seq(Nat)] : FollowsStep(f, N, first, step)
    <2>. HIDE DEF N, step, first
    <2>. QED
      BY <1>1, <1>2, StepRecursion
  <1>5. f[0] = first
    BY <1>4 DEF FollowsStep
  <1>6. ASSUME NEW k \in 1..N
        PROVE  f[k] = IF EndsLine(s, k) THEN Append(f[k - 1], o + Upto(s, k)) ELSE f[k - 1]
    <2>1. k - 1 \in 0..N
      BY <1>1
    <2>2. f[k] = step[<<k, f[k - 1]>>] /\ f[k - 1] \in Seq(Nat)
      BY <1>4, <2>1 DEF FollowsStep
    <2>. HIDE DEF step
    <2>. QED
      BY <1>3, <2>2
  <1>. HIDE DEF step
  <1>7. f = Def(f)
    <2>1. ASSUME NEW k \in 0..N
          PROVE  f[k] = Def(f)[k]
      <3>1. CASE k = 0
        BY <1>5, <3>1
      <3>2. CASE k # 0
        <4>1. k \in 1..N
          BY <1>1, <3>2
        <4>2. f[k] = IF EndsLine(s, k) THEN Append(f[k - 1], o + Upto(s, k)) ELSE f[k - 1]
          BY <1>6, <4>1
        <4>3. Def(f)[k] = IF EndsLine(s, k) THEN Append(f[k - 1], o + Upto(s, k)) ELSE f[k - 1]
          BY <3>2 DEF Upto
        <4>. HIDE DEF Def
        <4>. QED
          BY <4>2, <4>3
      <3>. QED
        BY <3>1, <3>2
    <2>2. Def(f) = [k \in 0..N |-> Def(f)[k]]
      OBVIOUS
    <2>3. f = [k \in 0..N |-> f[k]]
      OBVIOUS
    <2>. HIDE DEF Def
    <2>. QED
      BY <2>1, <2>2, <2>3
  <1>8. ComputeLineOffsets(s, start, o) = X[Len(s)]
    BY DEF ComputeLineOffsets
  <1>9. \A g : /\ Def(g)[0] = first
               /\ \A k \in 1..N :
                      Def(g)[k] = IF EndsLine(s, k) THEN Append(g[k - 1], o + Upto(s, k)) ELSE g[k - 1]
    BY <1>1 DEF Upto
  <1>. HIDE DEF Def
  <1>10. X = Def(X)
    BY <1>7
  <1> DEFINE P == {k \in Nat : X[k] = f[k]}
  <1>. HIDE DEF X, first
  <1>11. 0 \in P
    BY <1>5, <1>9, <1>10
  <1>12. ASSUME NEW k \in 1..N, k - 1 \in P
         PROVE  k \in P
    <2>1. X[k - 1] = f[k - 1] /\ k \in Nat
      BY <1>1, <1>12
    <2>2. X[k] = IF EndsLine(s, k) THEN Append(X[k - 1], o + Upto(s, k)) ELSE X[k - 1]
      BY <1>9, <1>10
    <2>3. f[k] = IF EndsLine(s, k) THEN Append(f[k - 1], o + Upto(s, k)) ELSE f[k - 1]
      BY <1>6
    <2>4. X[k] = f[k]
      <3>1. CASE EndsLine(s, k)
        BY <2>1, <2>2, <2>3, <3>1
      <3>2. CASE ~EndsLine(s, k)
        BY <2>1, <2>2, <2>3, <3>2
      <3>. QED
        BY <3>1, <3>2
    <2>. QED
      BY <2>1, <2>4
  <1>13. 0..N \subseteq P
    <2>. HIDE DEF P, N
    <2>. QED
      BY <1>1, <1>11, <1>12, StepInduction
  <1>14. X[Len(s)] = f[Len(s)]
    BY <1>1, <1>13
  <1>. QED
    BY <1>5, <1>6, <1>8, <1>14 DEF first

\* What computeLineOffsets finds, from left to right.
LEMMA OffsetsAre ==
    ASSUME NEW s \in Texts, NEW start \in BOOLEAN, NEW o \in Nat
    PROVE  Enumerates(ComputeLineOffsets(s, start, o),
                      (IF start THEN {o} ELSE {}) \cup Later(LineEnds(s), o))
  <1>1. PICK f \in [0..Len(s) -> Seq(Nat)] :
               /\ f[0] = IF start THEN <<o>> ELSE <<>>
               /\ \A k \in 1..Len(s) :
                      f[k] = IF EndsLine(s, k) THEN Append(f[k - 1], o + Upto(s, k)) ELSE f[k - 1]
               /\ ComputeLineOffsets(s, start, o) = f[Len(s)]
    BY OffsetsExist
  <1> DEFINE first == IF start THEN {o} ELSE {}
             found(k) == first \cup {o + Upto(s, j) : j \in {i \in 1..k : EndsLine(s, i)}}
             P == {k \in Nat : Enumerates(f[k], found(k))}
  <1>2. Len(s) \in Nat /\ \A k \in 0..Len(s) : Upto(s, k) \in Nat
    BY UptoGrows
  <1>3. 0 \in P
    <2>1. found(0) = first
      OBVIOUS
    <2>2. CASE start
      <3>1. f[0] = <<o>> /\ first = {o}
        BY <1>1, <2>2
      <3>2. <<o>> \in Seq(Nat) /\ Len(<<o>>) = 1 /\ <<o>>[1] = o
        OBVIOUS
      <3>3. Enumerates(<<o>>, {o})
        BY <3>2 DEF Enumerates
      <3>. QED
        BY <2>1, <3>1, <3>3
    <2>3. CASE ~start
      <3>1. f[0] = <<>> /\ first = {}
        BY <1>1, <2>3
      <3>2. <<>> \in Seq(Nat) /\ Len(<<>>) = 0
        OBVIOUS
      <3>3. Enumerates(<<>>, {})
        BY <3>2 DEF Enumerates
      <3>. QED
        BY <2>1, <3>1, <3>3
    <2>. QED
      BY <2>2, <2>3
  <1>4. ASSUME NEW k \in 1..Len(s), k - 1 \in P
        PROVE  k \in P
    <2>1. Enumerates(f[k - 1], found(k - 1))
      BY <1>4
    <2>2. k \in Nat /\ k \in 0..Len(s) /\ Upto(s, k) \in Nat /\ o + Upto(s, k) \in Nat
      BY <1>2
    <2>3. CASE EndsLine(s, k)
      <3>1. found(k) = found(k - 1) \cup {o + Upto(s, k)}
        <4>1. 1..k = (1..(k - 1)) \cup {k}
          BY <1>2
        <4>2. {i \in 1..k : EndsLine(s, i)} = {i \in 1..(k - 1) : EndsLine(s, i)} \cup {k}
          BY <2>3, <4>1
        <4>. QED
          BY <4>2
      <3>2. ASSUME NEW e \in found(k - 1)
            PROVE  e < o + Upto(s, k)
        <4>0. 0 \in 0..Len(s) /\ Upto(s, 0) = 0
          BY <1>2, UptoGrows
        <4>1. CASE e \in first
          <5>1. ~(Upto(s, k) <= Upto(s, 0))
            BY <1>2, <2>2, <4>0, UptoOrder
          <5>2. e = o
            BY <4>1
          <5>. QED
            BY <2>2, <4>0, <5>1, <5>2
        <4>2. CASE e \notin first
          <5>1. PICK j \in 1..(k - 1) : e = o + Upto(s, j)
            BY <4>2
          <5>2. j \in 0..Len(s) /\ ~(k <= j)
            BY <1>2
          <5>3. ~(Upto(s, k) <= Upto(s, j)) /\ Upto(s, j) \in Nat
            BY <2>2, <5>2, UptoOrder
          <5>. QED
            BY <2>2, <5>1, <5>3
        <4>. QED
          BY <4>1, <4>2
      <3>3. f[k] = Append(f[k - 1], o + Upto(s, k))
        BY <1>1, <2>3
      <3>. HIDE DEF found
      <3>4. Enumerates(Append(f[k - 1], o + Upto(s, k)), found(k - 1) \cup {o + Upto(s, k)})
        BY <2>1, <2>2, <3>2, EnumerateMore
      <3>. QED
        BY <2>2, <3>1, <3>3, <3>4
    <2>4. CASE ~EndsLine(s, k)
      <3>1. {i \in 1..k : EndsLine(s, i)} = {i \in 1..(k - 1) : EndsLine(s, i)}
        <4>1. 1..k = (1..(k - 1)) \cup {k}
          BY <1>2
        <4>. QED
          BY <2>4, <4>1
      <3>2. found(k) = found(k - 1)
        BY <3>1
      <3>3. f[k] = f[k - 1]
        BY <1>1, <2>4
      <3>. HIDE DEF found
      <3>. QED
        BY <2>1, <2>2, <3>2, <3>3
    <2>. QED
      BY <2>3, <2>4
  <1>5. 0..Len(s) \subseteq P
    <2>. HIDE DEF P
    <2>. QED
      BY <1>2, <1>3, <1>4, StepInduction
  <1>6. found(Len(s)) = first \cup Later(LineEnds(s), o)
    BY DEF Later, LineEnds, Upto
  <1>. HIDE DEF found
  <1>7. Len(s) \in P
    BY <1>2, <1>5
  <1>. QED
    BY <1>1, <1>6, <1>7

AreLineStarts(q, s) ==
    /\ Enumerates(q, {0} \cup LineEnds(s))
    /\ Len(q) >= 1 /\ q[1] = 0

LEMMA LineStarts ==
    ASSUME NEW s \in Texts
    PROVE  AreLineStarts(ComputeLineOffsets(s, TRUE, 0), s)
  <1> DEFINE q == ComputeLineOffsets(s, TRUE, 0)
  <1>1. Enumerates(q, {0} \cup Later(LineEnds(s), 0))
    BY OffsetsAre
  <1>. HIDE DEF q
  <1>2. Later(LineEnds(s), 0) = LineEnds(s)
    <2>1. \A e \in LineEnds(s) : 0 + e = e
      BY LineEndsAre
    <2>. QED
      BY <2>1 DEF Later
  <1>3. Enumerates(q, {0} \cup LineEnds(s))
    BY <1>1, <1>2
  <1> DEFINE T == {0} \cup LineEnds(s)
  <1>4. /\ Len(q) \in Nat
        /\ \A i \in 1..Len(q) : q[i] \in Nat
        /\ \E i \in 1..Len(q) : 0 = q[i]
        /\ \A i, j \in 1..Len(q) : i <= j => q[i] <= q[j]
    <2>1. Enumerates(q, T) /\ 0 \in T
      BY <1>3
    <2>. HIDE DEF T
    <2>. QED
      BY <2>1, Entries
  <1>5. PICK i \in 1..Len(q) : 0 = q[i]
    BY <1>4
  <1>6. 1 \in 1..Len(q) /\ 1 <= i
    BY <1>4
  <1>7. q[1] <= q[i] /\ q[1] \in Nat
    BY <1>4, <1>6
  <1>8. Len(q) >= 1 /\ q[1] = 0
    BY <1>4, <1>5, <1>6, <1>7
  <1>. QED
    BY <1>3, <1>8 DEF q, AreLineStarts

-----------------------------------------------------------------------------
(* Positions                                                               *)

LEMMA StartOfText ==
    ASSUME NEW s \in Texts, NEW j \in 0..Len(s)
    PROVE  Before(s, Upto(s, j)) = SubSeq(s, 1, j) /\ Len(Before(s, Upto(s, j))) = j
  <1> DEFINE K == {k \in 0..Len(s) : ByteLength(SubSeq(s, 1, k)) <= Upto(s, j)}
  <1>1. Len(s) \in Nat /\ j \in Nat
    BY UptoGrows
  <1>2. \A k \in 0..Len(s) : ByteLength(SubSeq(s, 1, k)) <= Upto(s, j) <=> k <= j
    BY UptoOrder DEF Upto
  <1>3. K \in SUBSET Nat /\ j \in K /\ \A k \in K : k <= j
    BY <1>1, <1>2
  <1>4. Max(K) = j
    <2>. HIDE DEF K
    <2>1. Max(K) \in K /\ \A k \in K : k <= Max(K)
      BY <1>1, <1>3, MaxOf
    <2>2. Max(K) <= j /\ j <= Max(K) /\ Max(K) \in Nat
      BY <1>3, <2>1
    <2>. QED
      BY <1>1, <2>2
  <1>5. Before(s, Upto(s, j)) = SubSeq(s, 1, j)
    BY <1>4 DEF Before
  <1>6. Len(SubSeq(s, 1, j)) = j
    BY WholeText DEF Texts
  <1>. QED
    BY <1>5, <1>6

LEMMA EndOfText ==
    ASSUME NEW s \in Texts, NEW j \in 0..Len(s)
    PROVE  After(s, Upto(s, j)) = SubSeq(s, j + 1, Len(s))
  BY StartOfText DEF After

LEMMA PartIs ==
    ASSUME NEW s \in Texts, NEW j \in 0..Len(s), NEW i \in 0..j
    PROVE  /\ Part(s, Upto(s, i), Upto(s, j)) = SubSeq(s, i + 1, j)
           /\ After(SubSeq(s, 1, j), Upto(s, i)) = SubSeq(s, i + 1, j)
  <1> DEFINE p == SubSeq(s, 1, j)
  <1>1. p \in Texts /\ Len(p) = j /\ j \in Nat /\ i \in 0..Len(p)
    BY WholeText DEF Texts
  <1>2. SubSeq(p, 1, i) = SubSeq(s, 1, i) /\ SubSeq(p, i + 1, j) = SubSeq(s, i + 1, j)
    BY PartOfStart DEF Texts
  <1>3. Before(s, Upto(s, j)) = p
    BY StartOfText
  <1>. HIDE DEF p
  <1>4. Upto(p, i) = Upto(s, i)
    BY <1>2 DEF Upto
  <1>5. After(p, Upto(s, i)) = SubSeq(p, i + 1, Len(p))
    BY <1>1, <1>4, EndOfText
  <1>6. After(p, Upto(s, i)) = SubSeq(s, i + 1, j)
    BY <1>1, <1>2, <1>5
  <1>. QED
    BY <1>3, <1>6 DEF Part, p

\* The units of a part of a line lead back to its bytes.
LEMMA MeasuredBack ==
    ASSUME NEW line \in Texts, NEW n \in 0..Len(line)
    PROVE  MeasureUnits(line, LspLength(SubSeq(line, 1, n))) = Upto(line, n)
  <1> DEFINE units(k) == LspLength(SubSeq(line, 1, k))
             enough == {k \in 0..Len(line) : LspLength(SubSeq(line, 1, k)) >= units(n)}
  <1>1. Len(line) \in Nat /\ n \in Nat
    BY UptoGrows
  <1>2. ASSUME NEW j \in 0..Len(line), NEW k \in 0..j
        PROVE  /\ units(j) \in Nat /\ units(k) \in Nat
               /\ k < j => units(k) < units(j)
    BY BothLengths, StartsGrow DEF LspLength
  <1>3. ASSUME NEW k \in 0..Len(line)
        PROVE  units(k) \in Nat /\ (k < n => units(k) < units(n))
    <2>1. k \in 0..k /\ units(k) \in Nat
      BY <1>1, <1>2
    <2>2. ASSUME k < n
          PROVE  units(k) < units(n)
      <3>1. k \in 0..n
        BY <1>1, <2>2
      <3>. QED
        BY <1>2, <2>2, <3>1
    <2>. QED
      BY <2>1, <2>2
  <1>4. enough \in SUBSET Nat /\ n \in enough /\ \A k \in enough : n <= k
    <2>1. units(n) \in Nat
      BY <1>3
    <2>2. ASSUME NEW k \in enough
          PROVE  n <= k
      <3>1. k \in 0..Len(line) /\ units(k) \in Nat /\ ~(units(k) < units(n))
        BY <1>3, <2>1
      <3>. HIDE DEF units
      <3>2. ~(k < n)
        BY <1>3, <3>1
      <3>. QED
        BY <1>1, <3>1, <3>2
    <2>3. units(n) >= units(n)
      BY <2>1
    <2>. QED
      BY <1>1, <2>2, <2>3
  <1>5. Min(enough) = n
    <2>. HIDE DEF enough
    <2>1. Min(enough) \in enough /\ \A k \in enough : Min(enough) <= k
      BY <1>4, MinOf
    <2>2. Min(enough) \in Nat /\ Min(enough) <= n /\ n <= Min(enough)
      BY <1>4, <2>1
    <2>. QED
      BY <1>1, <2>2
  <1>6. enough # {}
    BY <1>4
  <1>7. MeasureUnits(line, units(n)) = ByteLength(SubSeq(line, 1, IF enough = {} THEN Len(line) ELSE Min(enough)))
    BY DEF MeasureUnits
  <1>. HIDE DEF enough
  <1>. QED
    BY <1>5, <1>6, <1>7 DEF Upto

\* The place behind k characters is in the line of the m-th entry, which begins
\* behind a characters.
IsLineOf(s, q, k, m, a) ==
    /\ m \in 1..Len(q) /\ a \in 0..k /\ q[m] = Upto(s, a)
    /\ m = Max({i \in 1..Len(q) : q[i] <= Upto(s, k)})
    /\ \A i \in 1..Len(q) : q[i] <= Upto(s, k) <=> i <= m
    /\ ClientPosition(s, k) = Position(m - 1, LspLength(SubSeq(s, a + 1, k)))

LEMMA LineOf ==
    ASSUME NEW s \in Texts, NEW k \in 0..Len(s), NEW q, AreLineStarts(q, s)
    PROVE  \E m, a : IsLineOf(s, q, k, m, a)
  <1> DEFINE T == {0} \cup LineEnds(s)
  <1>1. Enumerates(q, T) /\ Len(q) >= 1 /\ q[1] = 0
    BY DEF AreLineStarts
  <1>2. Len(s) \in Nat /\ Upto(s, k) \in Nat /\ k \in Nat /\ 0 <= Upto(s, k)
    BY UptoGrows
  <1>3. PICK m \in 1..Len(q) :
            /\ m = Max({i \in 1..Len(q) : q[i] <= Upto(s, k)})
            /\ \A i \in 1..Len(q) : q[i] <= Upto(s, k) <=> i <= m
    <2> DEFINE v == Upto(s, k)
    <2>1. v \in Nat /\ q[1] <= v
      BY <1>1, <1>2
    <2>. HIDE DEF T, v
    <2>2. LET n == Max({i \in 1..Len(q) : q[i] <= v})
          IN  n \in 1..Len(q) /\ \A i \in 1..Len(q) : q[i] <= v <=> i <= n
      BY <1>1, <2>1, EntriesUpTo
    <2>. QED
      BY <2>2 DEF v
  <1> DEFINE ends == {e \in LineEnds(s) : e <= Upto(s, k)}
             later == {q[i] : i \in 2..m}
  <1>4. /\ Len(q) \in Nat
        /\ \A i \in 1..Len(q) : q[i] \in Nat /\ q[i] \in T
        /\ \A e \in T : \E i \in 1..Len(q) : e = q[i]
        /\ \A i, j \in 1..Len(q) : i < j => q[i] < q[j]
    <2>. HIDE DEF T
    <2>. QED
      BY <1>1, Entries DEF Enumerates
  <1>0. m \in Nat /\ 1 <= m /\ m <= Len(q) /\ Len(q) \in Nat
    <2>1. m \in 1..Len(q)
      BY <1>3
    <2>2. Len(q) \in Nat
      BY <1>4
    <2>. QED
      BY <2>1, <2>2
  <1>5. ends = later
    <2>1. ASSUME NEW e \in ends
          PROVE  e \in later
      <3>1. PICK i \in 1..Len(q) : e = q[i]
        BY <1>4
      <3>2. 0 < e /\ e \in Nat /\ e <= Upto(s, k)
        BY LineEndsAre
      <3>3. i # 1
        <4>1. SUFFICES ASSUME i = 1 PROVE FALSE
          OBVIOUS
        <4>2. e = 0
          BY <1>1, <3>1, <4>1
        <4>. QED
          BY <3>2, <4>2
      <3>5. i <= m
        BY <1>3, <3>1, <3>2
      <3>4. i \in 2..m
        BY <1>0, <1>4, <3>3, <3>5
      <3>. QED
        BY <3>1, <3>4
    <2>2. ASSUME NEW e \in later
          PROVE  e \in ends
      <3>1. PICK i \in 2..m : e = q[i]
        OBVIOUS
      <3>2. i \in 1..Len(q) /\ i <= m /\ 1 \in 1..Len(q) /\ 1 < i
        <4>. HIDE DEF later, T
        <4>. QED
          BY <1>0
      <3>3. q[1] < q[i] /\ q[i] \in Nat
        BY <1>4, <3>2
      <3>4. q[i] <= Upto(s, k)
        BY <1>3, <3>2
      <3>5. q[i] \in LineEnds(s)
        <4>1. q[i] # 0
          <5>1. q[1] = 0
            BY <1>1
          <5>. HIDE DEF later, T
          <5>. QED
            BY <3>3, <5>1
        <4>2. q[i] \in T
          BY <1>4, <3>2
        <4>. QED
          BY <4>1, <4>2
      <3>. QED
        BY <3>1, <3>4, <3>5
    <2>. QED
      BY <2>1, <2>2
  <1>6. Cardinality(later) = m - 1 /\ (later = {} <=> m = 1) /\ (m # 1 => Max(later) = q[m])
    <2>. HIDE DEF T
    <2>1. m \in 1..Len(q) /\ Enumerates(q, T)
      BY <1>1, <1>3
    <2>2. /\ Cardinality({q[i] : i \in 2..m}) = m - 1
          /\ {q[i] : i \in 2..m} = {} <=> m = 1
          /\ m # 1 => Max({q[i] : i \in 2..m}) = q[m]
      BY <2>1, CountEntries
    <2>. QED
      BY <2>2
  <1>7. (IF ends = {} THEN 0 ELSE Max(ends)) = q[m]
    <2>. HIDE DEF ends, later
    <2>. QED
      BY <1>1, <1>5, <1>6
  <1>8. PICK a \in 0..Len(s) : q[m] = Upto(s, a)
    <2>1. CASE q[m] = 0
      <3>1. 0 \in 0..Len(s) /\ Upto(s, 0) = 0
        BY UptoGrows
      <3>. QED
        BY <2>1, <3>1
    <2>2. CASE q[m] # 0
      <3>1. q[m] \in LineEnds(s)
        BY <1>3, <1>4, <2>2
      <3>2. PICK a \in 1..Len(s) : q[m] = Upto(s, a)
        BY <3>1, LineEndsAre
      <3>3. a \in 0..Len(s)
        BY <1>2
      <3>. QED
        BY <3>2, <3>3
    <2>. QED
      BY <2>1, <2>2
  <1>9. a \in 0..k
    <2>1. q[m] <= Upto(s, k)
      <3>1. m <= m
        BY <1>3, <1>4
      <3>. QED
        BY <1>3, <3>1
    <2>2. a <= k
      BY <1>8, <2>1, UptoOrder
    <2>. QED
      BY <1>2, <2>2
  <1>10. After(SubSeq(s, 1, k), q[m]) = SubSeq(s, a + 1, k)
    BY <1>8, <1>9, PartIs
  <1>11. ClientPosition(s, k)
           = Position(Cardinality(ends), LspLength(After(SubSeq(s, 1, k), IF ends = {} THEN 0 ELSE Max(ends))))
    BY DEF ClientPosition, Upto
  <1>12. ClientPosition(s, k) = Position(m - 1, LspLength(SubSeq(s, a + 1, k)))
    <2>. HIDE DEF ends, later
    <2>. QED
      BY <1>5, <1>6, <1>7, <1>10, <1>11
  <1>13. m = Max({i \in 1..Len(q) : q[i] <= Upto(s, k)})
    BY <1>3
  <1>14. IsLineOf(s, q, k, m, a)
    BY <1>3, <1>8, <1>9, <1>12, <1>13 DEF IsLineOf
  <1>. QED
    BY <1>14

LEMMA PartOfPart ==
    ASSUME NEW S, NEW s \in Seq(S), NEW b \in 0..Len(s), NEW k \in 0..b, NEW a \in 0..k
    PROVE  /\ SubSeq(s, a + 1, b) \in Seq(S) /\ Len(SubSeq(s, a + 1, b)) = b - a
           /\ k - a \in 0..(b - a)
           /\ SubSeq(SubSeq(s, a + 1, b), 1, k - a) = SubSeq(s, a + 1, k)
  <1> DEFINE p == SubSeq(s, a + 1, b)
  <1>1. /\ p \in Seq(S) /\ Len(p) = b - a
        /\ \A i \in 1..(b - a) : p[i] = s[a + i]
    OBVIOUS
  <1>2. /\ SubSeq(s, a + 1, k) \in Seq(S) /\ Len(SubSeq(s, a + 1, k)) = k - a
        /\ \A i \in 1..(k - a) : SubSeq(s, a + 1, k)[i] = s[a + i]
    OBVIOUS
  <1>3. k - a \in 0..(b - a) /\ \A i \in 1..(k - a) : i \in 1..(b - a)
    OBVIOUS
  <1>. HIDE DEF p
  <1>4. /\ SubSeq(p, 1, k - a) \in Seq(S) /\ Len(SubSeq(p, 1, k - a)) = k - a
        /\ \A i \in 1..(k - a) : SubSeq(p, 1, k - a)[i] = p[i]
    BY <1>1, <1>3
  <1>5. \A i \in 1..Len(SubSeq(p, 1, k - a)) : SubSeq(p, 1, k - a)[i] = SubSeq(s, a + 1, k)[i]
    BY <1>1, <1>2, <1>3, <1>4
  <1>6. SubSeq(p, 1, k - a) = SubSeq(s, a + 1, k)
    BY <1>2, <1>4, <1>5, SeqEqual
  <1>. QED
    BY <1>1, <1>3, <1>6 DEF p

\* What starts a line is one of the places of the text.
LEMMA StartIsPlace ==
    ASSUME NEW s \in Texts, NEW q, AreLineStarts(q, s), NEW i \in 1..Len(q)
    PROVE  \E b \in 0..Len(s) : q[i] = Upto(s, b)
  <1> DEFINE T == {0} \cup LineEnds(s)
  <1>1. Enumerates(q, T)
    BY DEF AreLineStarts
  <1>2. q[i] \in T
    <2>. HIDE DEF T
    <2>. QED
      BY <1>1, Entries
  <1>3. Len(s) \in Nat /\ Upto(s, 0) = 0
    BY UptoGrows
  <1>4. CASE q[i] = 0
    <2>1. 0 \in 0..Len(s)
      BY <1>3
    <2>. QED
      BY <1>3, <1>4, <2>1
  <1>5. CASE q[i] # 0
    <2>1. PICK b \in 1..Len(s) : q[i] = Upto(s, b)
      BY <1>2, <1>5, LineEndsAre
    <2>2. b \in 0..Len(s)
      BY <1>3
    <2>. QED
      BY <2>1, <2>2
  <1>. QED
    BY <1>4, <1>5

\* The line of a place ends behind it.
LEMMA LineEnd ==
    ASSUME NEW s \in Texts, NEW q, AreLineStarts(q, s), NEW k \in 0..Len(s), NEW m, NEW a,
           IsLineOf(s, q, k, m, a)
    PROVE  \E b \in k..Len(s) : (IF m < Len(q) THEN q[m + 1] ELSE ByteLength(s)) = Upto(s, b)
  <1>1. Len(s) \in Nat /\ k \in Nat /\ Upto(s, Len(s)) = ByteLength(s)
    BY UptoGrows
  <1>2. /\ m \in 1..Len(q)
        /\ \A i \in 1..Len(q) : q[i] <= Upto(s, k) <=> i <= m
    BY DEF IsLineOf
  <1>3. Len(q) \in Nat
    BY DEF AreLineStarts, Enumerates
  <1>4. CASE m < Len(q)
    <2>1. m + 1 \in 1..Len(q) /\ ~(m + 1 <= m)
      BY <1>2, <1>3, <1>4
    <2>2. PICK b \in 0..Len(s) : q[m + 1] = Upto(s, b)
      BY <2>1, StartIsPlace
    <2>3. ~(q[m + 1] <= Upto(s, k))
      BY <1>2, <2>1
    <2>4. ~(Upto(s, b) <= Upto(s, k))
      BY <2>2, <2>3
    <2>5. ~(b <= k)
      BY <2>4, UptoOrder
    <2>6. b \in k..Len(s)
      BY <1>1, <2>5
    <2>. QED
      BY <1>4, <2>2, <2>6
  <1>5. CASE ~(m < Len(q))
    <2>1. Len(s) \in k..Len(s)
      BY <1>1
    <2>. QED
      BY <1>1, <1>5, <2>1
  <1>. QED
    BY <1>4, <1>5

LEMMA PlaceOfPosition ==
    ASSUME NEW s \in Texts, NEW q, AreLineStarts(q, s), NEW k \in 0..Len(s), NEW m, NEW a,
           IsLineOf(s, q, k, m, a)
    PROVE  ConvertPosition(s, q, ClientPosition(s, k))
             = [line |-> m - 1, column |-> ByteLength(SubSeq(s, a + 1, k))]
  <1> DEFINE units == LspLength(SubSeq(s, a + 1, k))
             next == IF m < Len(q) THEN q[m + 1] ELSE ByteLength(s)
  <1>1. /\ m \in 1..Len(q) /\ a \in 0..k /\ q[m] = Upto(s, a)
        /\ ClientPosition(s, k) = [line |-> m - 1, character |-> units]
    BY DEF IsLineOf, Position
  <1>2. Len(q) \in Nat /\ Len(s) \in Nat /\ k \in Nat
    BY UptoGrows DEF AreLineStarts, Enumerates
  <1>3. PICK b \in k..Len(s) : next = Upto(s, b)
    BY LineEnd
  <1> DEFINE line == SubSeq(s, a + 1, b)
  <1>4. b \in 0..Len(s) /\ k \in 0..b /\ a \in 0..b
    BY <1>1, <1>2
  <1>5. Part(s, q[m], next) = line
    <2>. HIDE DEF next
    <2>. QED
      BY <1>1, <1>3, <1>4, PartIs
  <1>6. /\ line \in Texts /\ Len(line) = b - a /\ k - a \in 0..Len(line)
        /\ SubSeq(line, 1, k - a) = SubSeq(s, a + 1, k)
    BY <1>1, <1>4, PartOfPart DEF Texts
  <1>. HIDE DEF line
  <1>7. MeasureUnits(line, units) = ByteLength(SubSeq(s, a + 1, k))
    <2>1. MeasureUnits(line, LspLength(SubSeq(line, 1, k - a))) = Upto(line, k - a)
      BY <1>6, MeasuredBack
    <2>. QED
      BY <1>6, <2>1 DEF Upto
  <1>8. /\ (m - 1) + 1 = m /\ (m - 1) + 2 = m + 1 /\ ~(m - 1 >= Len(q))
    BY <1>1, <1>2
  <1> DEFINE here == [line |-> m - 1, character |-> units]
  <1>9. here.line = m - 1 /\ here.character = units
    OBVIOUS
  <1>. HIDE DEF here, units, next
  <1>10. ConvertPosition(s, q, here)
           = [line |-> here.line,
              column |-> MeasureUnits(Part(s, q[here.line + 1],
                                           IF here.line + 1 < Len(q) THEN q[here.line + 2] ELSE ByteLength(s)),
                                      here.character)]
    BY <1>8, <1>9 DEF ConvertPosition
  <1>11. (IF here.line + 1 < Len(q) THEN q[here.line + 2] ELSE ByteLength(s)) = next
    BY <1>8, <1>9 DEF next
  <1>. QED
    BY <1>1, <1>5, <1>7, <1>8, <1>9, <1>10, <1>11 DEF here

\* A position of the client's and its offset lead to each other.
LEMMA PositionsLeadBack ==
    ASSUME NEW s \in Texts, NEW q, AreLineStarts(q, s), NEW k \in 0..Len(s)
    PROVE  /\ OffsetAt(s, q, ClientPosition(s, k)) = Upto(s, k)
           /\ PositionAt(s, q, Upto(s, k)) = ClientPosition(s, k)
           /\ PositionOf(s, q, ConvertPosition(s, q, ClientPosition(s, k))) = ClientPosition(s, k)
  <1>1. PICK m, a : IsLineOf(s, q, k, m, a)
    BY LineOf
  <1> DEFINE place == [line |-> m - 1, column |-> ByteLength(SubSeq(s, a + 1, k))]
  <1>2. ConvertPosition(s, q, ClientPosition(s, k)) = place
    BY <1>1, PlaceOfPosition
  <1>3. /\ m \in 1..Len(q) /\ a \in 0..k /\ q[m] = Upto(s, a)
        /\ m = Max({i \in 1..Len(q) : q[i] <= Upto(s, k)})
        /\ ClientPosition(s, k) = Position(m - 1, LspLength(SubSeq(s, a + 1, k)))
    BY <1>1 DEF IsLineOf
  <1>4. Upto(s, k) = Upto(s, a) + ByteLength(SubSeq(s, a + 1, k))
    BY <1>3, UptoGrows
  <1>5. Part(s, Upto(s, a), Upto(s, k)) = SubSeq(s, a + 1, k)
    BY <1>3, PartIs
  <1>6. (m - 1) + 1 = m
    <2>1. Len(q) \in Nat /\ m \in 1..Len(q)
      BY <1>3 DEF AreLineStarts, Enumerates
    <2>. QED
      BY <2>1
  <1>7. place.line = m - 1 /\ place.column = ByteLength(SubSeq(s, a + 1, k))
    OBVIOUS
  <1>. HIDE DEF place
  <1>8. OffsetAt(s, q, ClientPosition(s, k)) = Upto(s, k)
    <2>1. OffsetAt(s, q, ClientPosition(s, k)) = q[place.line + 1] + place.column
      BY <1>2 DEF OffsetAt
    <2>. QED
      BY <1>3, <1>4, <1>6, <1>7, <2>1
  <1>9. PositionAt(s, q, Upto(s, k)) = ClientPosition(s, k)
    <2>1. PositionAt(s, q, Upto(s, k)) = Position(m - 1, LspLength(Part(s, q[m], Upto(s, k))))
      BY <1>3 DEF PositionAt
    <2>. QED
      BY <1>3, <1>5, <2>1
  <1>10. PositionOf(s, q, place) = ClientPosition(s, k)
    <2>1. PositionOf(s, q, place)
            = Position(place.line, LspLength(Part(s, q[place.line + 1], q[place.line + 1] + place.column)))
      BY DEF PositionOf
    <2>2. q[place.line + 1] = Upto(s, a) /\ q[place.line + 1] + place.column = Upto(s, k)
      BY <1>3, <1>4, <1>6, <1>7
    <2>. QED
      BY <1>3, <1>5, <1>7, <2>1, <2>2
  <1>. QED
    BY <1>2, <1>8, <1>9, <1>10

LEMMA TextBetween ==
    ASSUME NEW s \in Texts, NEW q, AreLineStarts(q, s), NEW k \in 0..Len(s), NEW i \in 0..k
    PROVE  GetText(s, q, [start |-> ClientPosition(s, i), end |-> ClientPosition(s, k)])
             = SubSeq(s, i + 1, k)
  <1>1. i \in 0..Len(s)
    BY UptoGrows
  <1>2. /\ OffsetAt(s, q, ClientPosition(s, i)) = Upto(s, i)
        /\ OffsetAt(s, q, ClientPosition(s, k)) = Upto(s, k)
    BY <1>1, PositionsLeadBack
  <1>3. Part(s, Upto(s, i), Upto(s, k)) = SubSeq(s, i + 1, k)
    BY PartIs
  <1>. QED
    BY <1>2, <1>3 DEF GetText

\* Later places have later positions.
LEMMA PositionsGrow ==
    ASSUME NEW s \in Texts, NEW q, AreLineStarts(q, s), NEW k \in 0..Len(s), NEW i \in 0..k,
           NEW m, NEW a, IsLineOf(s, q, i, m, a), NEW n, NEW b, IsLineOf(s, q, k, n, b)
    PROVE  /\ m \in 1..Len(q) /\ n \in 1..Len(q) /\ m <= n
           /\ ~IsBehind(ClientPosition(s, i), ClientPosition(s, k))
           /\ ClientPosition(s, i) \in [line : Nat, character : Nat]
           /\ ClientPosition(s, k) \in [line : Nat, character : Nat]
  <1>1. Len(s) \in Nat /\ i \in 0..Len(s) /\ k \in Nat /\ i \in Nat /\ i <= k
    BY UptoGrows
  <1>2. /\ m \in 1..Len(q) /\ a \in 0..i /\ q[m] = Upto(s, a)
        /\ \A j \in 1..Len(q) : q[j] <= Upto(s, i) <=> j <= m
        /\ ClientPosition(s, i) = Position(m - 1, LspLength(SubSeq(s, a + 1, i)))
    BY DEF IsLineOf
  <1>3. /\ n \in 1..Len(q) /\ b \in 0..k /\ q[n] = Upto(s, b)
        /\ \A j \in 1..Len(q) : q[j] <= Upto(s, k) <=> j <= n
        /\ ClientPosition(s, k) = Position(n - 1, LspLength(SubSeq(s, b + 1, k)))
    BY DEF IsLineOf
  <1>4. Len(q) \in Nat /\ m \in Nat /\ n \in Nat /\ m - 1 \in Nat /\ n - 1 \in Nat /\ m <= m
    <2>1. Len(q) \in Nat
      BY DEF AreLineStarts, Enumerates
    <2>. QED
      BY <1>2, <1>3, <2>1
  <1>5. a \in 0..Len(s) /\ b \in 0..Len(s) /\ a \in Nat /\ b \in Nat /\ a <= i
    BY <1>1, <1>2, <1>3
  <1>6. m <= n
    <2>1. Upto(s, a) <= Upto(s, i)
      BY <1>2, <1>4
    <2>2. Upto(s, a) <= Upto(s, k)
      BY <1>1, <1>5, UptoOrder
    <2>. QED
      BY <1>2, <1>3, <2>2
  <1>7. ASSUME m = n
        PROVE  a = b
    <2>1. Upto(s, a) = Upto(s, b)
      BY <1>2, <1>3, <1>7
    <2>2. Upto(s, a) <= Upto(s, b) /\ Upto(s, b) <= Upto(s, a)
      BY <1>5, <2>1, UptoOrder
    <2>3. a <= b /\ b <= a
      BY <1>5, <2>2, UptoOrder
    <2>. QED
      BY <1>5, <2>3
  <1>8. /\ LspLength(SubSeq(s, a + 1, i)) \in Nat
        /\ LspLength(SubSeq(s, b + 1, k)) \in Nat
    BY <1>1, <1>2, <1>3, BothLengths, StartsGrow DEF LspLength
  <1>9. ASSUME m = n
        PROVE  LspLength(SubSeq(s, a + 1, i)) <= LspLength(SubSeq(s, b + 1, k))
    <2> DEFINE p == SubSeq(s, a + 1, k)
    <2>1. a \in 0..k /\ i \in 0..k /\ k \in 0..Len(s)
      BY <1>1, <1>5
    <2>2. p \in Texts /\ Len(p) = k - a /\ i - a \in 0..Len(p) /\ SubSeq(p, 1, i - a) = SubSeq(s, a + 1, i)
      BY <1>2, <2>1, PartOfPart DEF Texts
    <2>. HIDE DEF p
    <2>3. SubSeq(p, 1, Len(p)) = p /\ Len(p) \in 0..Len(p) /\ Len(p) \in Nat
      <3>1. Len(p) \in Nat /\ 0 \in 0..Len(p) /\ Len(p) \in 0..Len(p)
        BY <2>2 DEF Texts
      <3>. QED
        BY <2>2, <3>1, WholeText DEF Texts
    <2>4. /\ Total(Units, SubSeq(p, 1, i - a)) \in Nat
          /\ Total(Units, SubSeq(p, i - a + 1, Len(p))) \in Nat
          /\ Total(Units, SubSeq(p, 1, Len(p)))
               = Total(Units, SubSeq(p, 1, i - a)) + Total(Units, SubSeq(p, i - a + 1, Len(p)))
      BY <2>2, <2>3, BothLengths, StartsGrow
    <2>5. LspLength(SubSeq(s, a + 1, i)) <= LspLength(p)
      <3>1. Total(Units, SubSeq(s, a + 1, i)) = Total(Units, SubSeq(p, 1, i - a))
        BY <2>2
      <3>2. Total(Units, p) = Total(Units, SubSeq(p, 1, i - a)) + Total(Units, SubSeq(p, i - a + 1, Len(p)))
        BY <2>3, <2>4
      <3>. QED
        BY <2>4, <3>1, <3>2 DEF LspLength
    <2>. QED
      BY <1>7, <1>9, <2>5 DEF p
  <1> DEFINE here == ClientPosition(s, i)
             there == ClientPosition(s, k)
  <1>10. /\ here.line = m - 1 /\ here.character = LspLength(SubSeq(s, a + 1, i))
         /\ there.line = n - 1 /\ there.character = LspLength(SubSeq(s, b + 1, k))
         /\ here = [line |-> here.line, character |-> here.character]
         /\ there = [line |-> there.line, character |-> there.character]
    BY <1>2, <1>3 DEF Position
  <1>. HIDE DEF here, there
  <1>11. ~IsBehind(here, there)
    BY <1>4, <1>6, <1>8, <1>9, <1>10 DEF IsBehind
  <1>12. here \in [line : Nat, character : Nat] /\ there \in [line : Nat, character : Nat]
    BY <1>4, <1>8, <1>10
  <1>. QED
    BY <1>2, <1>3, <1>6, <1>11, <1>12 DEF here, there

-----------------------------------------------------------------------------
(* The parts of a text that is cut at a place, and their line ends         *)

LEMMA LineEndsCut ==
    ASSUME NEW s \in Texts, NEW i \in 0..Len(s), ~Between(s, i)
    PROVE  /\ {e \in LineEnds(s) : e <= Upto(s, i)} = LineEnds(SubSeq(s, 1, i))
           /\ {e \in LineEnds(s) : e > Upto(s, i)}
                = Later(LineEnds(SubSeq(s, i + 1, Len(s))), Upto(s, i))
  <1> DEFINE left == SubSeq(s, 1, i)
             right == SubSeq(s, i + 1, Len(s))
  <1>0. Len(s) \in Nat /\ i \in Nat
    BY DEF Texts
  <1>1. /\ left \in Texts /\ Len(left) = i /\ right \in Texts /\ Len(right) = Len(s) - i
        /\ left \o right = s
    <2>1. s \in Seq(Char)
      BY DEF Texts
    <2>2. left \o right = s
      BY <2>1, WholeText, Zenon
    <2>3. left \in Seq(Char) /\ Len(left) = i
      BY <2>1, WholeText
    <2>4. right \in Seq(Char) /\ Len(right) = Len(s) - i
      BY <2>1, WholeText
    <2>. QED
      BY <2>2, <2>3, <2>4 DEF Texts
  <1>2. /\ \A k \in 1..i : left[k] = s[k]
        /\ \A k \in 1..(Len(s) - i) : right[k] = s[i + k]
    <2>1. s \in Seq(Char)
      BY DEF Texts
    <2>2. \A k \in 1..i : left[k] = s[k]
      BY <2>1
    <2>3. \A k \in 1..(Len(s) - i) : right[k] = s[i + k]
      BY <2>1
    <2>. QED
      BY <2>2, <2>3
  <1>3. ByteLength(left) = Upto(s, i) /\ Upto(s, i) \in Nat
    BY UptoGrows DEF Upto
  <1>. HIDE DEF left, right
  <1>4. Apart(left, right)
    <2>1. SUFFICES ASSUME left # <<>>, Last(left) = CR, right # <<>>, Head(right) = LF
                   PROVE  FALSE
      BY DEF Apart, MakeLineEnd
    <2>2. Len(left) # 0 /\ Len(right) # 0
      BY <1>0, <1>1, <2>1, EmptySeq DEF Texts
    <2>3. i \in 1..Len(s) - 1 /\ i \in 1..i /\ 1 \in 1..(Len(s) - i)
      BY <1>0, <1>1, <2>2
    <2>4. s[i] = CR /\ s[i + 1] = LF
      BY <1>0, <1>1, <1>2, <2>1, <2>3 DEF Last, Texts
    <2>. QED
      BY <2>3, <2>4 DEF Between
  <1>5. LineEnds(s) = LineEnds(left) \cup Later(LineEnds(right), Upto(s, i))
    BY <1>1, <1>3, <1>4, LineEndsOfConcat
  <1>6. \A e \in LineEnds(left) : e \in Nat /\ e <= Upto(s, i)
    BY <1>1, <1>3, LineEndsAre
  <1>7. \A e \in Later(LineEnds(right), Upto(s, i)) : e \in Nat /\ e > Upto(s, i)
    <2>1. \A d \in LineEnds(right) : d \in Nat /\ 0 < d
      BY <1>1, LineEndsAre
    <2>. QED
      BY <1>3, <2>1 DEF Later
  <1>8. {e \in LineEnds(s) : e <= Upto(s, i)} = LineEnds(left)
    BY <1>3, <1>5, <1>6, <1>7
  <1>9. {e \in LineEnds(s) : e > Upto(s, i)} = Later(LineEnds(right), Upto(s, i))
    BY <1>3, <1>5, <1>6, <1>7
  <1>. QED
    BY <1>8, <1>9 DEF left, right

-----------------------------------------------------------------------------
(* update: the offsets that are repaired                                   *)

LEMMA ThreeBlocks ==
    ASSUME NEW r \in Seq(Nat), NEW m \in Nat, NEW n \in Nat, NEW l \in Nat,
           Len(r) = m + n + l,
           NEW v \in Nat, NEW w \in Nat, v <= w,
           \A i, j \in 1..m : i < j => r[i] < r[j],
           \A i, j \in 1..n : i < j => r[m + i] < r[m + j],
           \A i, j \in 1..l : i < j => r[m + n + i] < r[m + n + j],
           \A i \in 1..m : r[i] <= v,
           \A i \in 1..n : v < r[m + i] /\ r[m + i] <= w,
           \A i \in 1..l : w < r[m + n + i]
    PROVE  Enumerates(r, {r[i] : i \in 1..m} \cup {r[m + i] : i \in 1..n}
                           \cup {r[m + n + i] : i \in 1..l})
  <1>1. \A i \in 1..Len(r) : r[i] \in Nat
    OBVIOUS
  <1>2. ASSUME NEW i \in 1..Len(r)
        PROVE  \/ i \in 1..m
               \/ i - m \in 1..n /\ i = m + (i - m)
               \/ i - m - n \in 1..l /\ i = m + n + (i - m - n)
    OBVIOUS
  <1>3. ASSUME NEW i \in 1..Len(r), NEW j \in 1..Len(r), i < j
        PROVE  r[i] < r[j]
    <2>0. r[i] \in Nat /\ r[j] \in Nat
      BY <1>1
    <2>1. CASE i \in 1..m
      <3>1. r[i] <= v
        BY <2>1
      <3>2. CASE j \in 1..m
        BY <1>3, <2>1, <3>2
      <3>3. CASE j - m \in 1..n /\ j = m + (j - m)
        <4>1. v < r[j]
          BY <3>3
        <4>. QED
          BY <2>0, <3>1, <4>1
      <3>4. CASE j - m - n \in 1..l /\ j = m + n + (j - m - n)
        <4>1. w < r[j]
          BY <3>4
        <4>. QED
          BY <2>0, <3>1, <4>1
      <3>. QED
        BY <1>2, <3>2, <3>3, <3>4
    <2>2. CASE i - m \in 1..n /\ i = m + (i - m)
      <3>1. r[i] <= w
        BY <2>2
      <3>2. CASE j \in 1..m
        BY <1>3, <2>2, <3>2
      <3>3. CASE j - m \in 1..n /\ j = m + (j - m)
        <4>1. i - m < j - m
          BY <1>3
        <4>2. r[m + (i - m)] < r[m + (j - m)]
          BY <2>2, <3>3, <4>1
        <4>. QED
          BY <2>2, <3>3, <4>2
      <3>4. CASE j - m - n \in 1..l /\ j = m + n + (j - m - n)
        <4>1. w < r[j]
          BY <3>4
        <4>. QED
          BY <2>0, <3>1, <4>1
      <3>. QED
        BY <1>2, <3>2, <3>3, <3>4
    <2>3. CASE i - m - n \in 1..l /\ i = m + n + (i - m - n)
      <3>1. j - m - n \in 1..l /\ j = m + n + (j - m - n) /\ i - m - n < j - m - n
        BY <1>3, <2>3
      <3>2. r[m + n + (i - m - n)] < r[m + n + (j - m - n)]
        BY <2>3, <3>1
      <3>. QED
        BY <2>3, <3>1, <3>2
    <2>. QED
      BY <1>2, <2>1, <2>2, <2>3
  <1>4. {r[i] : i \in 1..Len(r)}
          = {r[i] : i \in 1..m} \cup {r[m + i] : i \in 1..n} \cup {r[m + n + i] : i \in 1..l}
    <2>1. ASSUME NEW i \in 1..Len(r)
          PROVE  \/ r[i] \in {r[j] : j \in 1..m}
                 \/ r[i] \in {r[m + j] : j \in 1..n}
                 \/ r[i] \in {r[m + n + j] : j \in 1..l}
      BY <1>2
    <2>2. /\ \A j \in 1..m : j \in 1..Len(r)
          /\ \A j \in 1..n : m + j \in 1..Len(r)
          /\ \A j \in 1..l : m + n + j \in 1..Len(r)
      OBVIOUS
    <2>. QED
      BY <2>1, <2>2
  <1>. QED
    BY <1>3, <1>4 DEF Enumerates

\* u is s and then t.
IsJoined(u, s, t) ==
    /\ Len(u) = Len(s) + Len(t)
    /\ \A i \in 1..Len(s) : u[i] = s[i]
    /\ \A i \in 1..Len(t) : u[Len(s) + i] = t[i]

\* w is s, then t and then u.
IsThree(w, s, t, u) ==
    /\ Len(w) = Len(s) + Len(t) + Len(u)
    /\ \A i \in 1..Len(s) : w[i] = s[i]
    /\ \A i \in 1..Len(t) : w[Len(s) + i] = t[i]
    /\ \A i \in 1..Len(u) : w[Len(s) + Len(t) + i] = u[i]

LEMMA Joined ==
    ASSUME NEW s \in Seq(Nat), NEW t \in Seq(Nat)
    PROVE  s \o t \in Seq(Nat) /\ IsJoined(s \o t, s, t)
  BY ConcatEntries DEF IsJoined

LEMMA JoinThree ==
    ASSUME NEW s \in Seq(Nat), NEW t \in Seq(Nat), NEW u \in Seq(Nat), NEW v, NEW w,
           IsJoined(v, s, t), IsJoined(w, v, u)
    PROVE  IsThree(w, s, t, u)
  <1>1. Len(s) \in Nat /\ Len(t) \in Nat /\ Len(u) \in Nat /\ Len(v) = Len(s) + Len(t)
    BY DEF IsJoined
  <1>2. Len(w) = Len(s) + Len(t) + Len(u)
    BY <1>1 DEF IsJoined
  <1>3. ASSUME NEW i \in 1..Len(s)
        PROVE  w[i] = s[i]
    <2>1. i \in 1..Len(v)
      BY <1>1
    <2>. QED
      BY <2>1 DEF IsJoined
  <1>4. ASSUME NEW i \in 1..Len(t)
        PROVE  w[Len(s) + i] = t[i]
    <2>1. Len(s) + i \in 1..Len(v)
      BY <1>1
    <2>. QED
      BY <2>1 DEF IsJoined
  <1>5. ASSUME NEW i \in 1..Len(u)
        PROVE  w[Len(s) + Len(t) + i] = u[i]
    BY <1>1 DEF IsJoined
  <1>. QED
    BY <1>2, <1>3, <1>4, <1>5 DEF IsThree

\* The entries once the lines of the range were replaced: those up to its start, those
\* of the text, those behind its end.
IsSplice(sp, old, added, m, n) ==
    /\ sp \in Seq(Nat)
    /\ Len(sp) = m + Len(added) + (Len(old) - n)
    /\ \A i \in 1..m : sp[i] = old[i]
    /\ \A i \in 1..Len(added) : sp[m + i] = added[i]
    /\ \A i \in 1..(Len(old) - n) : sp[m + Len(added) + i] = old[n + i]

LEMMA FunctionIsSeq ==
    ASSUME NEW S, NEW n \in Nat, NEW g \in [1..n -> S]
    PROVE  g \in Seq(S) /\ Len(g) = n
  OBVIOUS

LEMMA SplicedIs ==
    ASSUME NEW old \in Seq(Nat), NEW added \in Seq(Nat),
           NEW m \in 1..Len(old), NEW n \in m..Len(old)
    PROVE  IsSplice(Spliced(old, m - 1, n - 1, added), old, added, m, n)
  <1> DEFINE sp == Spliced(old, m - 1, n - 1, added)
             N == Len(added)
             L == Len(old)
  <1>1. /\ N \in Nat /\ L \in Nat /\ m \in Nat /\ n \in Nat /\ m <= n /\ n <= L /\ 1 <= m
        /\ (n - 1) - (m - 1) = n - m /\ (m - 1) + 2 = m + 1 /\ (m - 1) + 1 = m
        /\ (n - 1) + 2 = n + 1
    OBVIOUS
  <1>2. CASE n - m = N
    <2> DEFINE g == [i \in 1..L |-> IF i \in m + 1 .. m + N THEN added[i - m] ELSE old[i]]
    <2>1. sp = g
      <3>1. sp = [i \in DOMAIN old |->
                     IF i \in (m - 1) + 2 .. (m - 1) + 1 + Len(added) THEN added[i - (m - 1) - 1]
                     ELSE old[i]]
        BY <1>1, <1>2 DEF Spliced
      <3>2. DOMAIN old = 1..L
        OBVIOUS
      <3>3. \A i \in 1..L : i - (m - 1) - 1 = i - m
        BY <1>1
      <3>. QED
        BY <1>1, <3>1, <3>2, <3>3
    <2>2. \A i \in 1..L : g[i] = IF i \in m + 1 .. m + N THEN added[i - m] ELSE old[i]
      OBVIOUS
    <2>3. ASSUME NEW i \in 1..L
          PROVE  g[i] \in Nat
      <3>1. CASE i \in m + 1 .. m + N
        <4>1. i - m \in 1..N
          BY <1>1, <3>1
        <4>2. added[i - m] \in Nat
          BY <4>1, ElementOfSeq
        <4>. QED
          BY <2>2, <3>1, <4>2
      <3>2. CASE i \notin m + 1 .. m + N
        BY <2>2, <3>2
      <3>. QED
        BY <3>1, <3>2
    <2>4. g \in Seq(Nat) /\ Len(g) = L
      <3>1. g \in [1..L -> Nat]
        BY <2>3
      <3>2. L \in Nat
        BY <1>1
      <3>. HIDE DEF g, L
      <3>. QED
        BY <3>1, <3>2, FunctionIsSeq
    <2>5. ASSUME NEW i \in 1..m
          PROVE  g[i] = old[i]
      <3>1. i \in 1..L /\ i \notin m + 1 .. m + N
        BY <1>1
      <3>. QED
        BY <2>2, <3>1
    <2>6. ASSUME NEW i \in 1..N
          PROVE  g[m + i] = added[i]
      <3>1. m + i \in 1..L /\ m + i \in m + 1 .. m + N /\ (m + i) - m = i
        BY <1>1, <1>2
      <3>. QED
        BY <2>2, <3>1
    <2>7. ASSUME NEW i \in 1..(L - n)
          PROVE  g[m + N + i] = old[n + i]
      <3>1. m + N + i = n + i /\ n + i \in 1..L /\ n + i \notin m + 1 .. m + N
        BY <1>1, <1>2
      <3>. QED
        BY <2>2, <3>1
    <2>8. L = m + N + (L - n)
      BY <1>1, <1>2
    <2>. HIDE DEF g
    <2>9. /\ sp \in Seq(Nat) /\ Len(sp) = m + N + (L - n)
          /\ \A i \in 1..m : sp[i] = old[i]
          /\ \A i \in 1..N : sp[m + i] = added[i]
          /\ \A i \in 1..(L - n) : sp[m + N + i] = old[n + i]
      <3>. HIDE DEF sp
      <3>. QED
        BY <2>1, <2>4, <2>5, <2>6, <2>7, <2>8
    <2>10. IsSplice(sp, old, added, m, n)
      <3>. HIDE DEF sp
      <3>. QED
        BY <2>9 DEF IsSplice
    <2>. QED
      BY <2>10
  <1>3. CASE n - m # N
    <2> DEFINE head == SubSeq(old, 1, m)
               tail == SubSeq(old, n + 1, L)
    <2>1. sp = (head \o added) \o tail
      BY <1>1, <1>3 DEF Spliced
    <2>2. head \in Seq(Nat) /\ Len(head) = m /\ \A i \in 1..m : head[i] = old[i]
      OBVIOUS
    <2>3. n \in 0..Len(old) /\ Len(old) \in n..Len(old)
      OBVIOUS
    <2>4. /\ tail \in Seq(Nat) /\ Len(tail) = L - n
          /\ \A i \in 1..(L - n) : tail[i] = old[n + i]
      BY <2>3, PartOfText
    <2> DEFINE front == head \o added
    <2>. HIDE DEF sp, head, tail
    <2>5. front \in Seq(Nat) /\ IsJoined(front, head, added)
      BY <2>2, Joined
    <2>6. sp \in Seq(Nat) /\ IsJoined(sp, front, tail)
      <3>. HIDE DEF front
      <3>1. front \o tail \in Seq(Nat) /\ IsJoined(front \o tail, front, tail)
        BY <2>4, <2>5, Joined
      <3>2. sp = front \o tail
        BY <2>1 DEF front
      <3>. QED
        BY <3>1, <3>2
    <2>. HIDE DEF front, N, L
    <2>7. IsThree(sp, head, added, tail)
      <3>1. head \in Seq(Nat) /\ tail \in Seq(Nat)
        BY <2>2, <2>4
      <3>. QED
        BY <2>5, <2>6, <3>1, JoinThree
    <2>. USE DEF N
    <2>8. /\ sp \in Seq(Nat) /\ Len(sp) = m + N + (L - n)
          /\ \A i \in 1..m : sp[i] = old[i]
          /\ \A i \in 1..N : sp[m + i] = added[i]
          /\ \A i \in 1..(L - n) : sp[m + N + i] = old[n + i]
      BY <2>2, <2>4, <2>6, <2>7 DEF IsThree
    <2>9. IsSplice(sp, old, added, m, n)
      BY <2>8 DEF IsSplice, L
    <2>. QED
      BY <2>9 DEF sp
  <1>. QED
    BY <1>2, <1>3

\* The entries from one on move with the change in length.
IsShifted(r, sp, from, by, less) ==
    /\ r \in [1..Len(sp) -> Int]
    /\ \A i \in 1..Len(sp) : r[i] = IF i >= from THEN (sp[i] + by) - less ELSE sp[i]

LEMMA ShiftedBehind ==
    ASSUME NEW x \in Nat, NEW v \in Nat, NEW w \in Nat, v <= w, ~(x <= w), NEW grow \in Nat
    PROVE  /\ (x + grow) - (w - v) \in Nat
           /\ v + grow < (x + grow) - (w - v)
  OBVIOUS

LEMMA ShiftedInOrder ==
    ASSUME NEW x \in Nat, NEW y \in Nat, x < y, NEW by \in Nat, NEW less \in Int
    PROVE  (x + by) - less < (y + by) - less
  OBVIOUS

\* The repaired entries are those up to the start of the edit, those of the new text
\* and those behind the end of the edit at their new offsets.
LEMMA RepairedAre ==
    ASSUME NEW T, NEW old, Enumerates(old, T), NEW A, NEW added, Enumerates(added, A),
           NEW m \in 1..Len(old), NEW n \in m..Len(old),
           NEW v \in Nat, NEW w \in Nat, v <= w, NEW grow \in Nat,
           \A i \in 1..Len(old) : old[i] <= v <=> i <= m,
           \A i \in 1..Len(old) : old[i] <= w <=> i <= n,
           \A e \in A : v < e /\ e <= v + grow,
           NEW B \in SUBSET Nat, {e \in T : e > w} = Later(B, w),
           NEW sp, IsSplice(sp, old, added, m, n),
           NEW r, IsShifted(r, sp, m + Len(added) + 1, grow, w - v)
    PROVE  Enumerates(r, ({e \in T : e <= v} \cup A) \cup Later(B, v + grow))
  <1> DEFINE N == Len(added)
             L == Len(old) - n
  <1>1. /\ m \in Nat /\ N \in Nat /\ n \in Nat /\ L \in Nat /\ Len(old) \in Nat
        /\ n + L = Len(old) /\ m <= n
    <2>1. Len(old) \in Nat /\ Len(added) \in Nat
      BY DEF Enumerates
    <2>. QED
      BY <2>1
  <1>2. /\ \A i \in 1..Len(old) : old[i] \in Nat /\ old[i] \in T
        /\ \A i \in 1..Len(added) : added[i] \in Nat /\ added[i] \in A
        /\ \A i, j \in 1..Len(old) : i < j => old[i] < old[j]
        /\ \A i, j \in 1..Len(added) : i < j => added[i] < added[j]
    BY Entries DEF Enumerates
  <1>3. /\ Len(sp) = m + N + L
        /\ \A i \in 1..m : sp[i] = old[i]
        /\ \A i \in 1..N : sp[m + i] = added[i]
        /\ \A i \in 1..L : sp[m + N + i] = old[n + i]
    BY DEF IsSplice
  <1>4. /\ r \in [1..(m + N + L) -> Int]
        /\ \A i \in 1..(m + N + L) :
               r[i] = IF i >= m + N + 1 THEN (sp[i] + grow) - (w - v) ELSE sp[i]
    BY <1>3 DEF IsShifted
  <1>. HIDE DEF N, L
  <1>5. ASSUME NEW i \in 1..m
        PROVE  r[i] = old[i] /\ i \in 1..Len(old) /\ old[i] \in Nat /\ old[i] <= v
    <2>1. i \in 1..(m + N + L) /\ ~(i >= m + N + 1) /\ i \in 1..Len(old) /\ i <= m
      BY <1>1
    <2>2. r[i] = sp[i]
      BY <1>4, <2>1
    <2>3. sp[i] = old[i]
      BY <1>3
    <2>. QED
      BY <1>2, <2>1, <2>2, <2>3
  <1>6. ASSUME NEW i \in 1..N
        PROVE  /\ r[m + i] = added[i] /\ added[i] \in Nat /\ added[i] \in A
               /\ v < added[i] /\ added[i] <= v + grow
    <2>1. m + i \in 1..(m + N + L) /\ ~(m + i >= m + N + 1)
      BY <1>1
    <2>2. r[m + i] = sp[m + i]
      BY <1>4, <2>1
    <2>3. sp[m + i] = added[i]
      BY <1>3
    <2>4. added[i] \in Nat /\ added[i] \in A
      BY <1>2 DEF N
    <2>. QED
      BY <2>2, <2>3, <2>4
  <1>7. ASSUME NEW i \in 1..L
        PROVE  /\ r[m + N + i] = (old[n + i] + grow) - (w - v)
               /\ n + i \in 1..Len(old) /\ old[n + i] \in Nat /\ w < old[n + i]
               /\ r[m + N + i] \in Nat /\ v + grow < r[m + N + i]
    <2>1. /\ m + N + i \in 1..(m + N + L) /\ m + N + i >= m + N + 1
          /\ n + i \in 1..Len(old) /\ ~(n + i <= n)
      BY <1>1
    <2>2. r[m + N + i] = (sp[m + N + i] + grow) - (w - v)
      BY <1>4, <2>1
    <2>3. sp[m + N + i] = old[n + i]
      BY <1>3
    <2>4. old[n + i] \in Nat /\ ~(old[n + i] <= w)
      BY <1>2, <2>1
    <2>5. r[m + N + i] = (old[n + i] + grow) - (w - v)
      BY <2>2, <2>3
    <2>6. /\ (old[n + i] + grow) - (w - v) \in Nat
          /\ v + grow < (old[n + i] + grow) - (w - v)
      BY <2>4, ShiftedBehind
    <2>. QED
      BY <2>1, <2>4, <2>5, <2>6
  <1>8. r \in Seq(Nat) /\ Len(r) = m + N + L
    <2>1. ASSUME NEW i \in 1..(m + N + L)
          PROVE  r[i] \in Nat
      <3>1. CASE i <= m
        <4>1. i \in 1..m
          BY <1>1, <3>1
        <4>. QED
          BY <1>5, <4>1
      <3>2. CASE m < i /\ i <= m + N
        <4>1. i - m \in 1..N /\ m + (i - m) = i
          BY <1>1, <3>2
        <4>. QED
          BY <1>6, <4>1
      <3>3. CASE m + N < i
        <4>1. i - m - N \in 1..L /\ m + N + (i - m - N) = i
          BY <1>1, <3>3
        <4>. QED
          BY <1>7, <4>1
      <3>. QED
        BY <1>1, <3>1, <3>2, <3>3
    <2>2. m + N + L \in Nat /\ r \in [1..(m + N + L) -> Nat]
      BY <1>1, <1>4, <2>1
    <2>. QED
      BY <2>2
  <1>9. /\ \A i, j \in 1..m : i < j => r[i] < r[j]
        /\ \A i, j \in 1..N : i < j => r[m + i] < r[m + j]
        /\ \A i, j \in 1..L : i < j => r[m + N + i] < r[m + N + j]
    <2>1. ASSUME NEW i \in 1..m, NEW j \in 1..m, i < j
          PROVE  r[i] < r[j]
      <3>1. i \in 1..Len(old) /\ j \in 1..Len(old) /\ r[i] = old[i] /\ r[j] = old[j]
        BY <1>5
      <3>. QED
        BY <1>2, <2>1, <3>1
    <2>2. ASSUME NEW i \in 1..N, NEW j \in 1..N, i < j
          PROVE  r[m + i] < r[m + j]
      <3>1. r[m + i] = added[i] /\ r[m + j] = added[j]
        BY <1>6
      <3>. QED
        BY <1>2, <2>2, <3>1 DEF N
    <2>3. ASSUME NEW i \in 1..L, NEW j \in 1..L, i < j
          PROVE  r[m + N + i] < r[m + N + j]
      <3>1. /\ n + i \in 1..Len(old) /\ n + j \in 1..Len(old) /\ n + i < n + j
            /\ old[n + i] \in Nat /\ old[n + j] \in Nat
            /\ r[m + N + i] = (old[n + i] + grow) - (w - v)
            /\ r[m + N + j] = (old[n + j] + grow) - (w - v)
        <4>1. /\ n + i \in 1..Len(old) /\ old[n + i] \in Nat
              /\ r[m + N + i] = (old[n + i] + grow) - (w - v)
          BY <1>7
        <4>2. /\ n + j \in 1..Len(old) /\ old[n + j] \in Nat
              /\ r[m + N + j] = (old[n + j] + grow) - (w - v)
          BY <1>7
        <4>3. n + i < n + j
          BY <1>1, <2>3
        <4>. QED
          BY <4>1, <4>2, <4>3
      <3>2. old[n + i] < old[n + j]
        BY <1>2, <3>1
      <3>3. w - v \in Int
        OBVIOUS
      <3>. QED
        BY <3>1, <3>2, <3>3, ShiftedInOrder
    <2>. QED
      BY <2>1, <2>2, <2>3
  <1>10. Enumerates(r, {r[i] : i \in 1..m} \cup {r[m + i] : i \in 1..N}
                           \cup {r[m + N + i] : i \in 1..L})
    <2>1. /\ v + grow \in Nat /\ v <= v + grow
          /\ \A i \in 1..m : r[i] <= v
          /\ \A i \in 1..N : v < r[m + i] /\ r[m + i] <= v + grow
          /\ \A i \in 1..L : v + grow < r[m + N + i]
      <3>1. v + grow \in Nat /\ v <= v + grow
        OBVIOUS
      <3>2. ASSUME NEW i \in 1..m PROVE r[i] <= v
        <4>1. r[i] = old[i] /\ old[i] <= v
          BY <1>5
        <4>. QED
          BY <4>1
      <3>3. ASSUME NEW i \in 1..N PROVE v < r[m + i] /\ r[m + i] <= v + grow
        <4>1. r[m + i] = added[i] /\ v < added[i] /\ added[i] <= v + grow
          BY <1>6
        <4>. QED
          BY <4>1
      <3>4. ASSUME NEW i \in 1..L PROVE v + grow < r[m + N + i]
        BY <1>7
      <3>. QED
        BY <3>1, <3>2, <3>3, <3>4
    <2>. QED
      BY <1>1, <1>8, <1>9, <2>1, ThreeBlocks
  <1>11. {r[i] : i \in 1..m} = {e \in T : e <= v}
    <2>1. ASSUME NEW e \in T, e <= v
          PROVE  \E i \in 1..m : e = r[i]
      <3>1. PICK i \in 1..Len(old) : e = old[i]
        BY DEF Enumerates
      <3>2. i \in 1..m
        BY <1>1, <2>1, <3>1
      <3>. QED
        BY <1>5, <3>1, <3>2
    <2>2. ASSUME NEW i \in 1..m
          PROVE  r[i] \in T /\ r[i] <= v
      BY <1>2, <1>5
    <2>. QED
      BY <2>1, <2>2
  <1>12. {r[m + i] : i \in 1..N} = A
    <2>1. ASSUME NEW e \in A
          PROVE  \E i \in 1..N : e = r[m + i]
      <3>1. PICK i \in 1..Len(added) : e = added[i]
        BY DEF Enumerates
      <3>. QED
        BY <1>6, <3>1 DEF N
    <2>2. ASSUME NEW i \in 1..N
          PROVE  r[m + i] \in A
      BY <1>6
    <2>. QED
      BY <2>1, <2>2
  <1>13. {r[m + N + i] : i \in 1..L} = Later(B, v + grow)
    <2>1. ASSUME NEW b \in B
          PROVE  \E i \in 1..L : (v + grow) + b = r[m + N + i]
      <3>1. w + b \in T /\ w + b > w /\ b \in Nat
        BY DEF Later
      <3>2. PICK j \in 1..Len(old) : w + b = old[j]
        BY <3>1 DEF Enumerates
      <3>3. ~(old[j] <= w)
        BY <3>1, <3>2
      <3>4. ~(j <= n)
        BY <3>3
      <3>5. j - n \in 1..L /\ n + (j - n) = j
        BY <1>1, <3>4
      <3>6. r[m + N + (j - n)] = (old[n + (j - n)] + grow) - (w - v)
        BY <1>7, <3>5
      <3>7. r[m + N + (j - n)] = (v + grow) + b
        BY <3>1, <3>2, <3>5, <3>6
      <3>. QED
        BY <3>5, <3>7
    <2>2. ASSUME NEW i \in 1..L
          PROVE  \E b \in B : r[m + N + i] = (v + grow) + b
      <3>1. /\ n + i \in 1..Len(old) /\ old[n + i] \in Nat /\ w < old[n + i]
            /\ r[m + N + i] = (old[n + i] + grow) - (w - v)
        BY <1>7
      <3>2. old[n + i] \in Later(B, w)
        BY <1>2, <3>1
      <3>3. PICK b \in B : old[n + i] = w + b
        BY <3>2 DEF Later
      <3>4. b \in Nat
        OBVIOUS
      <3>5. r[m + N + i] = (v + grow) + b
        BY <3>1, <3>3, <3>4
      <3>. QED
        BY <3>5
    <2> DEFINE shifted == {r[m + N + i] : i \in 1..L}
    <2>3. \A e \in Later(B, v + grow) : e \in shifted
      BY <2>1 DEF Later
    <2>4. \A e \in shifted : e \in Later(B, v + grow)
      BY <2>2 DEF Later
    <2>. HIDE DEF shifted
    <2>5. shifted = Later(B, v + grow)
      BY <2>3, <2>4
    <2>. QED
      BY <2>5 DEF shifted
  <1>. QED
    BY <1>10, <1>11, <1>12, <1>13

\* The line ends of a text with an edit between two places of it.
LEMMA EditedLineEnds ==
    ASSUME NEW s \in Texts, NEW i \in 0..Len(s), NEW j \in i..Len(s),
           ~Between(s, i), ~Between(s, j), NEW ins \in Texts,
           ~JoinsLineEnd(SubSeq(s, 1, i), ins, SubSeq(s, j + 1, Len(s)))
    PROVE  /\ SubSeq(s, 1, i) \o ins \o SubSeq(s, j + 1, Len(s)) \in Texts
           /\ {0} \cup LineEnds(SubSeq(s, 1, i) \o ins \o SubSeq(s, j + 1, Len(s)))
                = ({e \in {0} \cup LineEnds(s) : e <= Upto(s, i)}
                     \cup Later(LineEnds(ins), Upto(s, i)))
                  \cup Later(LineEnds(SubSeq(s, j + 1, Len(s))), Upto(s, i) + ByteLength(ins))
  <1> DEFINE left == SubSeq(s, 1, i)
             right == SubSeq(s, j + 1, Len(s))
  <1>1. Len(s) \in Nat /\ j \in 0..Len(s) /\ Upto(s, i) \in Nat /\ 0 <= Upto(s, i)
    BY UptoGrows
  <1>2. left \in Texts /\ right \in Texts
    BY <1>1, WholeText DEF Texts
  <1>3. ByteLength(left) = Upto(s, i)
    BY DEF Upto
  <1>4. {e \in LineEnds(s) : e <= Upto(s, i)} = LineEnds(left)
    BY LineEndsCut
  <1>5. ~MakeLineEnd(left, ins \o right) /\ ~MakeLineEnd(left \o ins, right)
    BY DEF JoinsLineEnd
  <1>. HIDE DEF left, right
  <1>6. Apart(left, ins) /\ Apart(left \o ins, right)
    <2>1. SUFFICES ASSUME left # <<>>, Last(left) = CR, ins # <<>>, Head(ins) = LF
                   PROVE  FALSE
      BY <1>5 DEF Apart, MakeLineEnd
    <2>2. ins \o right # <<>> /\ Head(ins \o right) = Head(ins)
      <3>1. Len(ins) # 0 /\ Len(ins) \in Nat /\ Len(right) \in Nat
        BY <1>2, <2>1, EmptySeq DEF Texts
      <3>2. 1 \in 1..Len(ins)
        BY <3>1
      <3>3. Len(ins \o right) = Len(ins) + Len(right) /\ (ins \o right)[1] = ins[1]
        BY <1>2, <3>2 DEF Texts
      <3>4. Len(ins \o right) # 0
        BY <3>1, <3>3
      <3>5. ins \o right # <<>>
        BY <3>4
      <3>6. Head(ins \o right) = (ins \o right)[1] /\ Head(ins) = ins[1]
        <4> DEFINE u == ins \o right
        <4>1. u \in Seq(Char) /\ ins \in Seq(Char)
          BY <1>2 DEF Texts
        <4>. HIDE DEF u
        <4>2. Head(u) = u[1] /\ Head(ins) = ins[1]
          BY <4>1
        <4>. QED
          BY <4>2 DEF u
      <3>. QED
        BY <3>3, <3>5, <3>6
    <2>. QED
      BY <1>5, <2>1, <2>2 DEF MakeLineEnd
  <1>7. left \o ins \in Texts
    BY <1>2 DEF Texts
  <1>8. ByteLength(left \o ins) = Upto(s, i) + ByteLength(ins)
    BY <1>2, <1>3, BothLengths, TotalConcat DEF ByteLength
  <1>9. LineEnds(left \o ins) = LineEnds(left) \cup Later(LineEnds(ins), Upto(s, i))
    BY <1>2, <1>3, <1>6, LineEndsOfConcat
  <1>10. LineEnds((left \o ins) \o right)
           = LineEnds(left \o ins) \cup Later(LineEnds(right), ByteLength(left \o ins))
    BY <1>2, <1>6, <1>7, LineEndsOfConcat
  <1>11. {e \in {0} \cup LineEnds(s) : e <= Upto(s, i)} = {0} \cup LineEnds(left)
    BY <1>1, <1>4
  <1>12. (left \o ins) \o right \in Texts
    BY <1>2, <1>7 DEF Texts
  <1>13. {0} \cup LineEnds((left \o ins) \o right)
           = ({e \in {0} \cup LineEnds(s) : e <= Upto(s, i)} \cup Later(LineEnds(ins), Upto(s, i)))
              \cup Later(LineEnds(right), Upto(s, i) + ByteLength(ins))
    BY <1>8, <1>9, <1>10, <1>11, Zenon
  <1>. QED
    BY <1>12, <1>13 DEF left, right

\* The offsets that update repairs are those of the edited text.
LEMMA UpdatedAre ==
    ASSUME NEW s \in Texts, NEW old, AreLineStarts(old, s),
           NEW i \in 0..Len(s), NEW j \in i..Len(s),
           ~Between(s, i), ~Between(s, j), NEW ins \in Texts,
           ~JoinsLineEnd(SubSeq(s, 1, i), ins, SubSeq(s, j + 1, Len(s))),
           NEW range, range.start = ClientPosition(s, i), range.end = ClientPosition(s, j)
    PROVE  UpdatedOffsets(old, range, Upto(s, i), Upto(s, j), ins)
             = ComputeLineOffsets(SubSeq(s, 1, i) \o ins \o SubSeq(s, j + 1, Len(s)), TRUE, 0)
  <1> DEFINE T == {0} \cup LineEnds(s)
             v == Upto(s, i)
             w == Upto(s, j)
             right == SubSeq(s, j + 1, Len(s))
             added == ComputeLineOffsets(ins, FALSE, v)
             A == Later(LineEnds(ins), v)
             B == LineEnds(right)
             new == SubSeq(s, 1, i) \o ins \o SubSeq(s, j + 1, Len(s))
             grow == ByteLength(ins)
  <1>1. /\ Len(s) \in Nat /\ j \in 0..Len(s) /\ i \in 0..j
        /\ v \in Nat /\ w \in Nat /\ v <= w /\ grow \in Nat
    <2>1. Len(s) \in Nat /\ j \in 0..Len(s) /\ i \in 0..j /\ i <= j
      BY UptoGrows
    <2>2. v \in Nat /\ w \in Nat /\ v <= w
      BY <2>1, UptoOrder
    <2>3. grow \in Nat
      BY UptoGrows
    <2>. QED
      BY <2>1, <2>2, <2>3
  <1>2. Enumerates(old, T)
    BY DEF AreLineStarts
  <1>3. PICK m, a : IsLineOf(s, old, i, m, a)
    BY LineOf
  <1>4. PICK n, b : IsLineOf(s, old, j, n, b)
    BY <1>1, LineOf
  <1>5. m \in 1..Len(old) /\ n \in 1..Len(old) /\ m <= n
    BY <1>1, <1>3, <1>4, PositionsGrow
  <1>6. /\ range.start.line = m - 1 /\ range.end.line = n - 1
        /\ \A k \in 1..Len(old) : old[k] <= v <=> k <= m
        /\ \A k \in 1..Len(old) : old[k] <= w <=> k <= n
    <2>. HIDE DEF v, w
    <2>1. /\ ClientPosition(s, i).line = m - 1
          /\ \A k \in 1..Len(old) : old[k] <= v <=> k <= m
      BY <1>3 DEF IsLineOf, Position, v
    <2>2. /\ ClientPosition(s, j).line = n - 1
          /\ \A k \in 1..Len(old) : old[k] <= w <=> k <= n
      BY <1>4 DEF IsLineOf, Position, w
    <2>. QED
      BY <2>1, <2>2
  <1>7. n \in m..Len(old) /\ m \in Nat /\ old \in Seq(Nat)
    <2>1. old \in Seq(Nat)
      BY <1>2 DEF Enumerates
    <2>2. Len(old) \in Nat
      BY <2>1
    <2>. QED
      BY <1>5, <2>1, <2>2
  <1>8. Enumerates(added, A)
    <2>1. Enumerates(added, {} \cup A)
      BY <1>1, OffsetsAre
    <2>2. {} \cup A = A
      OBVIOUS
    <2>. QED
      BY <2>1, <2>2
  <1>9. \A e \in A : v < e /\ e <= v + grow
    <2>1. \A e \in LineEnds(ins) : e \in Nat /\ 0 < e /\ e <= grow
      BY LineEndsAre
    <2>. HIDE DEF v, grow
    <2>. QED
      BY <1>1, <2>1 DEF Later
  <1>10. B \in SUBSET Nat /\ {e \in T : e > w} = Later(B, w)
    <2>1. right \in Texts
      BY <1>1, WholeText DEF Texts
    <2>2. \A e \in B : e \in Nat
      BY <2>1, LineEndsAre
    <2>3. {e \in LineEnds(s) : e > w} = Later(B, w)
      BY <1>1, LineEndsCut
    <2>. HIDE DEF w, B
    <2>4. {e \in T : e > w} = {e \in LineEnds(s) : e > w}
      BY <1>1
    <2>. QED
      BY <2>2, <2>3, <2>4
  <1> DEFINE sp == Spliced(old, m - 1, n - 1, added)
             r == [k \in DOMAIN sp |-> IF k >= m + Len(added) + 1 THEN (sp[k] + grow) - (w - v)
                                       ELSE sp[k]]
  <1>11. added \in Seq(Nat) /\ Len(added) \in Nat
    <2>. HIDE DEF added
    <2>. QED
      BY <1>8 DEF Enumerates
  <1>12. UpdatedOffsets(old, range, v, w, ins) = r
    <2>1. ShiftFrom(m - 1, Len(added)) = m + Len(added) + 1
      <3>. HIDE DEF added
      <3>. QED
        BY <1>7, <1>11 DEF ShiftFrom
    <2>. QED
      BY <1>6, <2>1, Zenon DEF UpdatedOffsets
  <1>13. IsSplice(sp, old, added, m, n)
    <2>. HIDE DEF added
    <2>. QED
      BY <1>5, <1>7, <1>11, SplicedIs
  <1>14. IsShifted(r, sp, m + Len(added) + 1, grow, w - v)
    <2>. HIDE DEF sp, added, v, w, grow
    <2>1. sp \in Seq(Nat) /\ DOMAIN sp = 1..Len(sp) /\ \A k \in 1..Len(sp) : sp[k] \in Nat
      BY <1>13 DEF IsSplice
    <2>2. \A k \in 1..Len(sp) : (sp[k] + grow) - (w - v) \in Int /\ sp[k] \in Int
      BY <1>1, <2>1
    <2>. QED
      BY <2>1, <2>2 DEF IsShifted
  <1>15. Enumerates(r, ({e \in T : e <= v} \cup A) \cup Later(B, v + grow))
    <2>. HIDE DEF T, A, added, B, v, w, grow, sp, r
    <2>. QED
      BY <1>1, <1>2, <1>5, <1>6, <1>7, <1>8, <1>9, <1>10, <1>13, <1>14, RepairedAre
  <1>16. new \in Texts /\ {0} \cup LineEnds(new)
                            = ({e \in T : e <= v} \cup A) \cup Later(B, v + grow)
    BY EditedLineEnds
  <1>17. Enumerates(ComputeLineOffsets(new, TRUE, 0), {0} \cup LineEnds(new))
    BY <1>16, LineStarts DEF AreLineStarts
  <1>18. r = ComputeLineOffsets(new, TRUE, 0)
    <2>. HIDE DEF T, A, added, B, v, w, grow, sp, r, new
    <2>. QED
      BY <1>15, <1>16, <1>17, OneEnumeration
  <1>. QED
    BY <1>12, <1>18

-----------------------------------------------------------------------------
(* The document                                                            *)

\* The two texts are one and the line offsets those of it.
TextInv ==
    /\ text \in Texts
    /\ content = text
    /\ LineOffsets = ComputeLineOffsets(text, TRUE, 0)

\* Behind an edit, its ends in either order.
LEMMA EditInv ==
    ASSUME TextInv, NEW from \in Places, NEW to \in Places, from <= to,
           NEW inserted \in Texts, Edit(from, to, inserted)
    PROVE  TextInv'
  <1> DEFINE right == SubSeq(text, to + 1, Len(text))
             new == SubSeq(text, 1, from) \o inserted \o right
             here == ClientPosition(text, from)
             there == ClientPosition(text, to)
             q == LineOffsets
             r == UpdatedOffsets(q, [start |-> here, end |-> there],
                                 Upto(text, from), Upto(text, to), inserted)
  <1>1. /\ text \in Texts /\ content = text /\ q = ComputeLineOffsets(text, TRUE, 0)
    BY DEF TextInv
  <1>2. /\ Len(text) \in Nat /\ from \in 0..Len(text) /\ to \in from..Len(text)
        /\ to \in 0..Len(text) /\ from \in 0..to
        /\ ~Between(text, from) /\ ~Between(text, to)
    <2>1. Len(text) \in Nat
      BY <1>1, UptoGrows
    <2>2. /\ from \in 0..Len(text) /\ to \in 0..Len(text)
          /\ ~Between(text, from) /\ ~Between(text, to)
      BY DEF Places
    <2>. QED
      BY <2>1, <2>2
  <1>3. ~JoinsLineEnd(SubSeq(text, 1, from), inserted, right) /\ text' = new
    BY DEF Edit, Edited
  <1>4. AreLineStarts(q, text)
    BY <1>1, LineStarts
  <1>5. /\ ~IsBehind(here, there)
        /\ here \in [line : Nat, character : Nat]
        /\ there \in [line : Nat, character : Nat]
    <2>1. PICK m, a : IsLineOf(text, q, from, m, a)
      BY <1>1, <1>2, <1>4, LineOf
    <2>2. PICK n, b : IsLineOf(text, q, to, n, b)
      BY <1>1, <1>2, <1>4, LineOf
    <2>. QED
      BY <1>1, <1>2, <1>4, <2>1, <2>2, PositionsGrow
  <1>6. /\ OffsetAt(text, q, here) = Upto(text, from)
        /\ OffsetAt(text, q, there) = Upto(text, to)
    BY <1>1, <1>2, <1>4, PositionsLeadBack
  <1>7. PICK range \in {[start |-> here, end |-> there], [start |-> there, end |-> here]} :
            UpdateRange(range, inserted)
    BY DEF Edit
  <1> DEFINE wellformed == IF IsBehind(range.start, range.end)
                           THEN [start |-> range.end, end |-> range.start] ELSE range
  <1>8. wellformed = [start |-> here, end |-> there]
    <2>1. CASE range = [start |-> here, end |-> there]
      <3>. HIDE DEF here, there
      <3>. QED
        BY <1>5, <2>1
    <2>2. CASE range = [start |-> there, end |-> here]
      <3>. HIDE DEF here, there
      <3>1. range.start = there /\ range.end = here
        BY <2>2
      <3>2. CASE IsBehind(there, here)
        BY <3>1, <3>2
      <3>3. CASE ~IsBehind(there, here)
        <4>1. here = there
          <5>1. /\ here.line \in Nat /\ here.character \in Nat
                /\ there.line \in Nat /\ there.character \in Nat
                /\ here = [line |-> here.line, character |-> here.character]
                /\ there = [line |-> there.line, character |-> there.character]
            BY <1>5
          <5>2. here.line = there.line /\ here.character = there.character
            BY <1>5, <3>3, <5>1 DEF IsBehind
          <5>. QED
            BY <5>1, <5>2
        <4>. QED
          BY <2>2, <3>1, <3>3, <4>1
      <3>. QED
        BY <3>2, <3>3
    <2>. QED
      BY <1>7, <2>1, <2>2
  <1>9. /\ content' = Before(content, OffsetAt(content, q, wellformed.start)) \o inserted
                         \o After(content, OffsetAt(content, q, wellformed.end))
        /\ offsets' = UpdatedOffsets(q, wellformed, OffsetAt(content, q, wellformed.start),
                                     OffsetAt(content, q, wellformed.end), inserted)
    BY <1>7, Zenon DEF UpdateRange
  <1>10. wellformed.start = here /\ wellformed.end = there
    <2>. HIDE DEF wellformed, here, there
    <2>. QED
      BY <1>8
  <1>11. /\ content' = Before(text, Upto(text, from)) \o inserted \o After(text, Upto(text, to))
         /\ offsets' = r
    <2>. HIDE DEF wellformed, here, there, q
    <2>. QED
      BY <1>1, <1>6, <1>8, <1>9, <1>10, Zenon
  <1>12. content' = new
    <2>1. Before(text, Upto(text, from)) = SubSeq(text, 1, from)
      BY <1>1, <1>2, StartOfText
    <2>2. After(text, Upto(text, to)) = right
      BY <1>1, <1>2, EndOfText
    <2>. QED
      BY <1>11, <2>1, <2>2, Zenon
  <1>13. r = ComputeLineOffsets(new, TRUE, 0)
    <2> DEFINE range2 == [start |-> here, end |-> there]
    <2>1. range2.start = here /\ range2.end = there
      OBVIOUS
    <2>. HIDE DEF range2
    <2>2. UpdatedOffsets(q, range2, Upto(text, from), Upto(text, to), inserted)
            = ComputeLineOffsets(SubSeq(text, 1, from) \o inserted
                                   \o SubSeq(text, to + 1, Len(text)), TRUE, 0)
      <3>1. ~JoinsLineEnd(SubSeq(text, 1, from), inserted, SubSeq(text, to + 1, Len(text)))
        BY <1>3
      <3>2. range2.start = ClientPosition(text, from) /\ range2.end = ClientPosition(text, to)
        BY <2>1
      <3>3. text \in Texts /\ AreLineStarts(q, text)
        BY <1>1, <1>4
      <3>4. /\ from \in 0..Len(text) /\ to \in from..Len(text)
            /\ ~Between(text, from) /\ ~Between(text, to) /\ inserted \in Texts
        BY <1>2
      <3>. HIDE DEF q, right, new, here, there, r
      <3>. QED
        BY <3>1, <3>2, <3>3, <3>4, UpdatedAre, Zenon
    <2>. QED
      BY <2>2, Zenon DEF range2
  <1>14. new \in Texts
    BY <1>1, <1>2, <1>3, EditedLineEnds
  <1>15. LineOffsets' = ComputeLineOffsets(text', TRUE, 0)
    <2>1. LineOffsets' = IF offsets' = Unknown THEN ComputeLineOffsets(content', TRUE, 0)
                         ELSE offsets'
      BY DEF LineOffsets, Unknown
    <2>2. offsets' = ComputeLineOffsets(new, TRUE, 0)
      BY <1>11, <1>13
    <2>. HIDE DEF new, r
    <2>. QED
      BY <1>3, <1>12, <2>1, <2>2
  <1>. QED
    BY <1>3, <1>12, <1>14, <1>15 DEF TextInv

LEMMA TextInductive == Spec => []TextInv
  <1>1. Init => TextInv
    <2>1. SUFFICES ASSUME Init PROVE TextInv
      OBVIOUS
    <2>2. text = <<>> /\ content = <<>> /\ offsets = Unknown
      BY <2>1 DEF Init
    <2>. QED
      BY <2>2 DEF TextInv, LineOffsets, Texts
  <1>2. TextInv /\ [Next]_vars => TextInv'
    <2>1. SUFFICES ASSUME TextInv, [Next]_vars PROVE TextInv'
      OBVIOUS
    <2>2. CASE UNCHANGED vars
      BY <2>1, <2>2, Zenon DEF vars, TextInv, LineOffsets, Unknown
    <2>3. ASSUME NEW from \in Places, NEW to \in Places, NEW inserted \in Insertion,
                 from <= to, Edit(from, to, inserted)
          PROVE  TextInv'
      <3>1. inserted \in Texts
        BY TextAssumption DEF Texts
      <3>. QED
        BY <2>1, <2>3, <3>1, EditInv
    <2>4. ASSUME NEW all \in Insertion, Replace(all)
          PROVE  TextInv'
      <3>1. all \in Texts
        BY TextAssumption DEF Texts
      <3>2. text' = all /\ content' = all /\ offsets' = Unknown
        BY <2>4 DEF Replace, ReplaceAllText
      <3>3. LineOffsets' = ComputeLineOffsets(all, TRUE, 0)
        <4>1. LineOffsets' = IF offsets' = Unknown THEN ComputeLineOffsets(content', TRUE, 0)
                             ELSE offsets'
          BY DEF LineOffsets, Unknown
        <4>. QED
          BY <3>2, <4>1
      <3>. QED
        BY <3>1, <3>2, <3>3 DEF TextInv
    <2>. QED
      BY <2>1, <2>2, <2>3, <2>4 DEF Next
  <1>. QED
    BY <1>1, <1>2, PTL DEF Spec

\* The server's text is the client's, after any sequence of edits.
THEOREM ContentStaysClients == Spec => []ContentIsClients
  <1>1. TextInv => ContentIsClients
    BY DEF TextInv, ContentIsClients
  <1>. QED
    BY <1>1, TextInductive, PTL

\* The repaired line offsets are those that computeLineOffsets gives, and positions,
\* offsets and the texts between them are what the client means by them.
THEOREM PositionsStayCurrent == Spec => []PositionsAreCurrent
  <1>1. TextInv => PositionsAreCurrent
    <2>1. SUFFICES ASSUME TextInv PROVE PositionsAreCurrent
      OBVIOUS
    <2> DEFINE q == LineOffsets
    <2>2. text \in Texts /\ content = text /\ q = ComputeLineOffsets(text, TRUE, 0)
      BY <2>1 DEF TextInv
    <2>3. OffsetsAreCurrent
      BY <2>2 DEF OffsetsAreCurrent
    <2>4. AreLineStarts(q, text)
      BY <2>2, LineStarts
    <2>5. Len(text) \in Nat
      BY <2>2, UptoGrows
    <2>. HIDE DEF q
    <2>6. ASSUME NEW k \in Places
          PROVE  /\ OffsetAt(text, q, ClientPosition(text, k)) = Upto(text, k)
                 /\ PositionAt(text, q, Upto(text, k)) = ClientPosition(text, k)
                 /\ PositionOf(text, q, ConvertPosition(text, q, ClientPosition(text, k)))
                      = ClientPosition(text, k)
      <3>1. k \in 0..Len(text)
        BY DEF Places
      <3>. QED
        BY <2>2, <2>4, <3>1, PositionsLeadBack
    <2>7. ASSUME NEW k \in Places, NEW i \in Places, i <= k
          PROVE  GetText(text, q, [start |-> ClientPosition(text, i),
                                   end |-> ClientPosition(text, k)])
                   = SubSeq(text, i + 1, k)
      <3>1. k \in 0..Len(text) /\ i \in 0..k
        BY <2>5, <2>7 DEF Places
      <3>. QED
        BY <2>2, <2>4, <3>1, TextBetween
    <2>8. PositionsAgree
      BY <2>2, <2>6, <2>7, Zenon DEF PositionsAgree, Upto, q
    <2>. QED
      BY <2>3, <2>8 DEF PositionsAreCurrent
  <1>. QED
    BY <1>1, TextInductive, PTL

-----------------------------------------------------------------------------
(* Documents: the copies of a workspace and the caches over them, however  *)
(* often the files, the documents and the plugin change.                   *)

AnyText == Text \cup {"garbled", "none"}
AnyCopy == [version: Nat, text: AnyText]
AnySource == [text: AnyText, code: Nat]
AnyPlugin == [listed: BOOLEAN, code: Nat]

Shape ==
    /\ disk \in [Doc -> AnyText]
    /\ editor \in [Doc -> AnyCopy]
    /\ lastVersion \in [Doc -> Nat]
    /\ script \in Nat
    /\ folders \subseteq Folder
    /\ ready \subseteq Workspace
    /\ plugin \in [Workspace -> AnyPlugin]
    /\ managed \in [Workspace -> [Doc -> AnyCopy]]
    /\ cache \in [Workspace -> [Doc -> [version: Nat, of: AnySource]]]
    /\ checked \in [Workspace -> [Doc -> AnySource]]
    /\ dirty \in [Workspace -> SUBSET Doc]

\* A workspace that is not set up has read and transformed nothing.
UnreadyIsEmpty ==
    \A w \in Workspace \ ready :
        /\ plugin[w] = NoPlugin
        /\ \A d \in Doc : checked[w][d] = None /\ cache[w][d] = NoEntry

\* The workspace of a document is the only one that has it open.
OneCopy ==
    \A d \in Doc \ moved : \A w \in Workspace \ {FindWorkspace(d)} : managed[w][d] = Closed

\* The source of a document as it should be.
Current(d) == [text |-> Truth(d), code |-> PluginOf(FindWorkspace(d)).code]

\* What was transformed before a document was closed has a version the client does not use
\* again.
VersionsGrow(d) ==
    /\ editor[d] # Closed => editor[d].version = lastVersion[d]
    /\ \A w \in Workspace : cache[w][d].version <= lastVersion[d]

CheckedIsCurrent(d) == LET w == FindWorkspace(d) IN
    /\ checked[w][d] # None
    /\ d \notin dirty[w]
    /\ editor[d] = Closed => d \notin unseen
    => checked[w][d] = Current(d)

CachedIsCurrent(d) ==
    CacheHit(FindWorkspace(d), d) => cache[FindWorkspace(d)][d].of = Current(d)

Sound(d) == VersionsGrow(d) /\ CheckedIsCurrent(d) /\ CachedIsCurrent(d)

CopyInv == Shape /\ OneCopy /\ CopiesFollowEditor

SourceInv == UnreadyIsEmpty /\ (\A d \in Doc \ moved : Sound(d)) /\ PluginsHotReload

USE DocumentAssumption

-----------------------------------------------------------------------------
LEMMA Constants ==
    /\ Closed \in AnyCopy /\ None \in AnySource /\ NoPlugin \in AnyPlugin
    /\ NoEntry \in [version: Nat, of: AnySource] /\ NoEntry.version = 0
    /\ Closed.version = 0
BY DEF Closed, None, NoPlugin, NoEntry, AnyCopy, AnySource, AnyPlugin, AnyText

LEMMA PluginIsTyped ==
    ASSUME Shape, NEW w \in Workspace
    PROVE  PluginOf(w) \in AnyPlugin
BY Constants DEF Shape, PluginOf, Configured, Loaded, AnyPlugin

LEMMA WorkspaceOfDoc ==
    ASSUME Shape, NEW d \in Doc
    PROVE  FindWorkspace(d) \in Workspace
BY DEF Shape, FindWorkspace, Workspace

\* Setting a workspace up changes nothing that can be seen of its plugin.
LEMMA SetUpShowsNothing ==
    ASSUME Shape, NEW w \in Workspace, LazyInitialize(w), UNCHANGED <<enabled, script>>
    PROVE  /\ ready' \subseteq Workspace /\ ready \subseteq ready' /\ w \in ready'
           /\ plugin' \in [Workspace -> AnyPlugin]
           /\ \A v \in Workspace : PluginOf(v)' = PluginOf(v)
           /\ \A v \in Workspace \ ready' : v \notin ready /\ plugin'[v] = plugin[v]
<1>1. plugin' = [plugin EXCEPT ![w] = PluginOf(w)] /\ ready' = ready \cup {w}
  BY DEF LazyInitialize
<1>2. PluginOf(w) \in AnyPlugin
  BY PluginIsTyped
<1>3. plugin' \in [Workspace -> AnyPlugin]
  BY <1>1, <1>2 DEF Shape
<1>4. plugin'[w] = PluginOf(w) /\ \A v \in Workspace \ {w} : plugin'[v] = plugin[v]
  BY <1>1 DEF Shape
<1>5. ASSUME NEW v \in Workspace PROVE PluginOf(v)' = PluginOf(v)
  <2>1. CASE v = w
    BY <2>1, <1>1, <1>4 DEF PluginOf
  <2>2. CASE v # w
    BY <2>2, <1>1, <1>4 DEF PluginOf, Configured
  <2> QED BY <2>1, <2>2
<1> QED BY <1>1, <1>3, <1>4, <1>5 DEF Shape

-----------------------------------------------------------------------------
(* The documents                                                           *)

LEMMA DocumentsInit_CopyInv == DocumentsInit => CopyInv
<1> SUFFICES ASSUME DocumentsInit PROVE CopyInv
  OBVIOUS
<1>1. Shape
  BY Constants DEF DocumentsInit, Shape, AnyPlugin, AnyCopy, AnySource, AnyText
<1>2. OneCopy /\ CopiesFollowEditor
  BY WorkspaceOfDoc, <1>1 DEF DocumentsInit, OneCopy, CopiesFollowEditor
<1> QED BY <1>1, <1>2 DEF CopyInv

\* A notification for an open document changes its copy as the client changed it.
LEMMA NotificationKeepsCopies ==
    ASSUME CopyInv, NEW d \in Doc, UNCHANGED <<folders, moved>>,
           \A c \in Doc \ {d} : editor'[c] = editor[c],
           \A w \in Workspace : \A c \in Doc :
               c # d \/ w # FindWorkspace(d) => managed'[w][c] = managed[w][c],
           d \notin moved => managed'[FindWorkspace(d)][d] = editor'[d]
    PROVE  OneCopy' /\ CopiesFollowEditor'
<1>1. \A c \in Doc : FindWorkspace(c) \in Workspace /\ FindWorkspace(c)' = FindWorkspace(c)
  BY WorkspaceOfDoc DEF CopyInv, FindWorkspace
<1> QED BY <1>1 DEF CopyInv, OneCopy, CopiesFollowEditor

LEMMA Open_CopyInv == ASSUME CopyInv, NEW d \in Doc, Open(d) PROVE CopyInv'
<1> DEFINE w == FindWorkspace(d)
           opened == [version |-> IF Restarts THEN 1 ELSE lastVersion[d] + 1, text |-> disk[d]]
<1>1. w \in Workspace /\ opened \in AnyCopy /\ opened.version \in Nat
  BY WorkspaceOfDoc DEF CopyInv, Shape, AnyCopy, AnyText
<1>2. /\ editor' = [editor EXCEPT ![d] = opened]
      /\ lastVersion' = [lastVersion EXCEPT ![d] = opened.version]
      /\ managed' = [managed EXCEPT ![w][d] = IF @ = Closed THEN opened ELSE @]
      /\ dirty' = [dirty EXCEPT ![w] = @ \cup {d}]
      /\ LazyInitialize(w)
      /\ editor[d] = Closed
      /\ UNCHANGED <<disk, unseen, pluginVars, folders, cache, checked, moved>>
  BY DEF Open, MarkDirty
<1> HIDE DEF w, opened
<1>3. Shape'
  BY <1>1, <1>2, SetUpShowsNothing DEF CopyInv, Shape, pluginVars
<1>4. managed'[w][d] = IF managed[w][d] = Closed THEN opened ELSE managed[w][d]
  BY <1>1, <1>2 DEF CopyInv, Shape
<1>5. editor'[d] = opened
  BY <1>2 DEF CopyInv, Shape
<1>6. d \notin moved => managed'[w][d] = editor'[d]
  BY <1>2, <1>4, <1>5 DEF CopyInv, CopiesFollowEditor, w
<1>7. \A v \in Workspace : \A c \in Doc : c # d \/ v # w => managed'[v][c] = managed[v][c]
  BY <1>1, <1>2 DEF CopyInv, Shape
<1>8. \A c \in Doc \ {d} : editor'[c] = editor[c]
  BY <1>2 DEF CopyInv, Shape
<1> QED BY <1>2, <1>3, <1>6, <1>7, <1>8, NotificationKeepsCopies DEF CopyInv, w

LEMMA Change_CopyInv == ASSUME CopyInv, NEW d \in Doc, NEW latest \in Text, Change(d, latest) PROVE CopyInv'
<1> DEFINE w == FindWorkspace(d)
           edited == [version |-> editor[d].version + 1, text |-> latest]
           new == IF managed[w][d] = Closed THEN Closed ELSE EditedCopy(managed[w][d], editor[d], edited)
<1>1. /\ w \in Workspace /\ edited \in AnyCopy /\ edited.version \in Nat
      /\ managed[w][d] \in AnyCopy /\ editor[d] \in AnyCopy
  BY WorkspaceOfDoc DEF CopyInv, Shape, AnyCopy, AnyText
<1>2. new \in AnyCopy
  BY <1>1, Constants DEF EditedCopy, AnyCopy, AnyText
<1>3. /\ editor[d] # Closed
      /\ editor' = [editor EXCEPT ![d] = edited]
      /\ lastVersion' = [lastVersion EXCEPT ![d] = edited.version]
      /\ LazyInitialize(w)
      /\ UNCHANGED <<disk, unseen, pluginVars, folders, checked, moved>>
  BY DEF Change
<1>4. IF managed[w][d] = Closed
      THEN UNCHANGED <<managed, cache, dirty>>
      ELSE /\ managed' = [managed EXCEPT ![w][d] = EditedCopy(managed[w][d], editor[d], edited)]
           /\ cache' = [cache EXCEPT ![w][d] = NoEntry]
           /\ dirty' = [dirty EXCEPT ![w] = @ \cup {d}]
  BY DEF Change, MarkDirty
<1>5. managed[w][d] = editor[d] => EditedCopy(managed[w][d], editor[d], edited) = edited
  BY DEF EditedCopy
<1>6. d \notin moved => managed[w][d] = editor[d]
  BY DEF CopyInv, CopiesFollowEditor
<1>7. managed' = [managed EXCEPT ![w][d] = new]
  BY <1>1, <1>4 DEF CopyInv, Shape
<1> HIDE DEF w, edited
<1>8. managed'[w][d] = new /\ editor'[d] = edited
  BY <1>1, <1>3, <1>7 DEF CopyInv, Shape
<1>9. d \notin moved => managed'[w][d] = editor'[d]
  BY <1>3, <1>5, <1>6, <1>8
<1> HIDE DEF new
<1>10. Shape'
  <2>1. /\ managed' \in [Workspace -> [Doc -> AnyCopy]]
        /\ editor' \in [Doc -> AnyCopy] /\ lastVersion' \in [Doc -> Nat]
    BY <1>1, <1>2, <1>3, <1>7 DEF CopyInv, Shape
  <2>2. /\ cache' \in [Workspace -> [Doc -> [version: Nat, of: AnySource]]]
        /\ dirty' \in [Workspace -> SUBSET Doc]
    <3>1. CASE managed[w][d] = Closed
      BY <3>1, <1>4 DEF CopyInv, Shape
    <3>2. CASE managed[w][d] # Closed
      <4>1. cache' = [cache EXCEPT ![w][d] = NoEntry] /\ dirty' = [dirty EXCEPT ![w] = @ \cup {d}]
        BY <3>2, <1>4
      <4> QED BY <4>1, <1>1, Constants DEF CopyInv, Shape
    <3> QED BY <3>1, <3>2
  <2> QED BY <1>1, <1>3, <2>1, <2>2, SetUpShowsNothing DEF CopyInv, Shape, pluginVars
<1>11. \A v \in Workspace : \A c \in Doc : c # d \/ v # w => managed'[v][c] = managed[v][c]
  BY <1>1, <1>7 DEF CopyInv, Shape
<1>12. \A c \in Doc \ {d} : editor'[c] = editor[c]
  BY <1>3 DEF CopyInv, Shape
<1> QED BY <1>3, <1>9, <1>10, <1>11, <1>12, NotificationKeepsCopies DEF CopyInv, w

LEMMA Close_CopyInv == ASSUME CopyInv, NEW d \in Doc, Close(d) PROVE CopyInv'
<1> DEFINE w == FindWorkspace(d)
<1>1. w \in Workspace
  BY WorkspaceOfDoc DEF CopyInv
<1>2. /\ editor' = [editor EXCEPT ![d] = Closed]
      /\ managed' = [managed EXCEPT ![w][d] = Closed]
      /\ dirty' = [dirty EXCEPT ![w] = @ \cup {d}]
      /\ LazyInitialize(w)
      /\ UNCHANGED <<disk, unseen, lastVersion, pluginVars, folders, cache, checked, moved>>
  BY DEF Close, MarkDirty
<1> HIDE DEF w
<1>3. Shape'
  BY <1>1, <1>2, SetUpShowsNothing, Constants DEF CopyInv, Shape, pluginVars
<1>4. managed'[w][d] = Closed /\ editor'[d] = Closed
  BY <1>1, <1>2 DEF CopyInv, Shape
<1>5. \A v \in Workspace : \A c \in Doc : c # d \/ v # w => managed'[v][c] = managed[v][c]
  BY <1>1, <1>2 DEF CopyInv, Shape
<1>6. \A c \in Doc \ {d} : editor'[c] = editor[c]
  BY <1>2 DEF CopyInv, Shape
<1> QED BY <1>2, <1>3, <1>4, <1>5, <1>6, NotificationKeepsCopies DEF CopyInv, w

\* A folder that comes or goes: the documents in it that nobody knows are in no workspace.
LEMMA ChangeFolder_CopyInv == ASSUME CopyInv, NEW f \in Folder, ChangeFolder(f) PROVE CopyInv'
<1>1. f \in Workspace
  BY DEF Workspace
<1>2. Shape'
  <2>1. UNCHANGED <<disk, editor, lastVersion, script>>
    BY DEF ChangeFolder, clientVars, pluginVars
  <2>2. folders' \subseteq Folder /\ ready' \subseteq Workspace
    BY DEF ChangeFolder, CopyInv, Shape
  <2>3. /\ plugin' \in [Workspace -> AnyPlugin]
        /\ dirty' \in [Workspace -> SUBSET Doc]
    BY <1>1, Constants DEF ChangeFolder, CopyInv, Shape
  <2>4. /\ managed' \in [Workspace -> [Doc -> AnyCopy]]
        /\ cache' \in [Workspace -> [Doc -> [version: Nat, of: AnySource]]]
        /\ checked' \in [Workspace -> [Doc -> AnySource]]
    BY <1>1, Constants DEF ChangeFolder, CopyInv, Shape
  <2> QED BY <2>1, <2>2, <2>3, <2>4 DEF CopyInv, Shape
<1>3. managed'[f] = [d \in Doc |-> Closed] /\ \A w \in Workspace \ {f} : managed'[w] = managed[w]
  BY <1>1 DEF ChangeFolder, CopyInv, Shape
<1>4. ASSUME NEW d \in Doc \ moved', Under[d] = f
      PROVE  editor'[d] = Closed /\ \A w \in Workspace : managed'[w][d] = Closed
  <2>1. d \notin moved /\ \A w \in Workspace : managed[w][d] = Closed
    BY <1>4 DEF ChangeFolder, Known
  <2>2. editor[d] = Closed
    BY <2>1, WorkspaceOfDoc DEF CopyInv, CopiesFollowEditor
  <2> QED BY <1>3, <2>1, <2>2 DEF ChangeFolder, clientVars
<1>5. ASSUME NEW d \in Doc \ moved', Under[d] # f
      PROVE  /\ d \notin moved /\ FindWorkspace(d)' = FindWorkspace(d) /\ FindWorkspace(d) # f
             /\ editor'[d] = editor[d]
  BY <1>5 DEF ChangeFolder, clientVars, FindWorkspace
<1>6. ASSUME NEW d \in Doc \ moved'
      PROVE  /\ managed'[FindWorkspace(d)'][d] = editor'[d]
             /\ \A w \in Workspace \ {FindWorkspace(d)'} : managed'[w][d] = Closed
  <2>1. FindWorkspace(d)' \in Workspace /\ FindWorkspace(d) \in Workspace
    BY <1>2, WorkspaceOfDoc DEF CopyInv, FindWorkspace, Workspace, Shape
  <2>2. CASE Under[d] = f
    BY <2>1, <2>2, <1>4
  <2>3. CASE Under[d] # f
    BY <2>1, <2>3, <1>3, <1>5 DEF CopyInv, OneCopy, CopiesFollowEditor
  <2> QED BY <2>2, <2>3
<1>7. OneCopy' /\ CopiesFollowEditor'
  BY <1>6 DEF OneCopy, CopiesFollowEditor
<1> QED BY <1>2, <1>7 DEF CopyInv

LEMMA Analyse_CopyInv == ASSUME CopyInv, NEW d \in Doc, Analyse(d) PROVE CopyInv'
<1> DEFINE w == FindWorkspace(d)
           source == SourceOf(w, d)
<1>1. w \in Workspace /\ PluginOf(w) \in AnyPlugin
  BY WorkspaceOfDoc, PluginIsTyped DEF CopyInv
<1>2. /\ LazyInitialize(w)
      /\ checked' = IF checked[w][d] = None \/ d \in dirty[w]
                    THEN [checked EXCEPT ![w][d] = source] ELSE checked
      /\ dirty' = [dirty EXCEPT ![w] = @ \ {d}]
      /\ cache' = IF managed[w][d] # Closed /\ PluginOf(w).code # 0
                  THEN [cache EXCEPT ![w][d] = [version |-> managed[w][d].version, of |-> source]]
                  ELSE cache
      /\ UNCHANGED <<clientVars, pluginVars, folders, managed, moved>>
  BY DEF Analyse
<1>3. source \in AnySource
  BY <1>1, PluginIsTyped DEF SourceOf, CopyInv, Shape, AnySource, AnyCopy, AnyText, AnyPlugin
<1> HIDE DEF w, source
<1>4. checked' \in [Workspace -> [Doc -> AnySource]] /\ dirty' \in [Workspace -> SUBSET Doc]
  BY <1>1, <1>2, <1>3 DEF CopyInv, Shape
<1>5. cache' \in [Workspace -> [Doc -> [version: Nat, of: AnySource]]]
  BY <1>1, <1>2, <1>3 DEF CopyInv, Shape, AnyCopy
<1>6. Shape'
  BY <1>1, <1>2, <1>4, <1>5, SetUpShowsNothing DEF CopyInv, Shape, clientVars, pluginVars
<1>7. UNCHANGED <<editor, managed, folders, moved>>
  BY <1>2 DEF clientVars
<1> QED BY <1>6, <1>7, WorkspaceOfDoc DEF CopyInv, OneCopy, CopiesFollowEditor, FindWorkspace

\* What leaves the client's documents and the server's copies alone.
LEMMA Others_CopyInv ==
    ASSUME CopyInv,
           \/ \E d \in Doc : Save(d) \/ WatchedFile(d) \/ \E latest \in Text : WriteFile(d, latest)
           \/ WriteScript \/ WatchedScript
           \/ \E on \in BOOLEAN : ChangeConfiguration(on)
    PROVE  CopyInv'
<1>1. UNCHANGED <<editor, managed, folders, moved>>
  BY DEF Save, WatchedFile, WriteFile, WriteScript, WatchedScript, ChangeConfiguration, clientVars
<1>2. Shape'
  <2>1. ASSUME NEW d \in Doc, Save(d) PROVE Shape'
    <3>1. editor[d].text \in AnyText
      BY DEF CopyInv, Shape, AnyCopy
    <3> QED BY <2>1, <3>1, SetUpShowsNothing, WorkspaceOfDoc
        DEF Save, CopyInv, Shape, pluginVars, frontendVars
  <2>2. ASSUME NEW d \in Doc, WatchedFile(d) PROVE Shape'
    <3>1. dirty' = dirty \/ dirty' = [dirty EXCEPT ![FindWorkspace(d)] = @ \cup {d}]
      BY <2>2 DEF WatchedFile, MarkDirty
    <3>2. dirty' \in [Workspace -> SUBSET Doc]
      <4> DEFINE w == FindWorkspace(d)
      <4>1. w \in Workspace
        BY WorkspaceOfDoc DEF CopyInv
      <4> HIDE DEF w
      <4>2. dirty' = dirty \/ dirty' = [dirty EXCEPT ![w] = @ \cup {d}]
        BY <3>1 DEF w
      <4>3. ASSUME dirty' = [dirty EXCEPT ![w] = @ \cup {d}]
            PROVE  dirty' \in [Workspace -> SUBSET Doc]
        BY <4>1, <4>3 DEF CopyInv, Shape
      <4>4. ASSUME dirty' = dirty
            PROVE  dirty' \in [Workspace -> SUBSET Doc]
        BY <4>4 DEF CopyInv, Shape
      <4> QED BY <4>2, <4>3, <4>4
    <3> QED BY <2>2, <3>2 DEF WatchedFile, CopyInv, Shape, pluginVars
  <2>3. ASSUME NEW d \in Doc, NEW latest \in Text, WriteFile(d, latest) PROVE Shape'
    BY <2>3 DEF WriteFile, CopyInv, Shape, pluginVars, frontendVars, AnyText
  <2>4. ASSUME WriteScript PROVE Shape'
    BY <2>4 DEF WriteScript, CopyInv, Shape, clientVars, frontendVars
  <2>5. Home \in Workspace /\ Home \in Folder
    BY DEF Workspace
  <2> DEFINE empty == [d \in Doc |-> NoEntry]
  <2>6. empty \in [Doc -> [version: Nat, of: AnySource]]
    BY Constants
  <2> HIDE DEF empty
  <2>7. ASSUME WatchedScript PROVE Shape'
    <3>1. Reloaded \in AnyPlugin
      BY DEF Reloaded, Loaded, AnyPlugin, CopyInv, Shape
    <3>2. \/ UNCHANGED <<plugin, cache, dirty>>
          \/ /\ plugin' = [plugin EXCEPT ![Home] = Reloaded]
             /\ cache' = [cache EXCEPT ![Home] = empty]
             /\ dirty' = [dirty EXCEPT ![Home] = Doc]
      BY <2>7 DEF WatchedScript, empty
    <3>3. plugin' \in [Workspace -> AnyPlugin]
      BY <2>5, <3>1, <3>2 DEF CopyInv, Shape
    <3>4. /\ cache' \in [Workspace -> [Doc -> [version: Nat, of: AnySource]]]
          /\ dirty' \in [Workspace -> SUBSET Doc]
      <4>1. cache' \in [Workspace -> [Doc -> [version: Nat, of: AnySource]]]
        BY <2>5, <2>6, <3>2 DEF CopyInv, Shape
      <4>2. dirty' \in [Workspace -> SUBSET Doc]
        BY <2>5, <3>2 DEF CopyInv, Shape
      <4> QED BY <4>1, <4>2
    <3> QED BY <2>7, <3>3, <3>4 DEF WatchedScript, CopyInv, Shape, clientVars
  <2>8. ASSUME NEW on \in BOOLEAN, ChangeConfiguration(on) PROVE Shape'
    <3>1. Configured(Home, on) \in AnyPlugin
      BY Constants DEF Configured, Loaded, AnyPlugin, CopyInv, Shape
    <3>2. \/ UNCHANGED <<plugin, cache, dirty>>
          \/ /\ plugin' = [plugin EXCEPT ![Home] = Configured(Home, on)]
             /\ cache' = [cache EXCEPT ![Home] = empty]
             /\ dirty' = [dirty EXCEPT ![Home] = Doc] \/ dirty' = dirty
      BY <2>8 DEF ChangeConfiguration, empty
    <3>3. plugin' \in [Workspace -> AnyPlugin]
      BY <2>5, <3>1, <3>2 DEF CopyInv, Shape
    <3>4. /\ cache' \in [Workspace -> [Doc -> [version: Nat, of: AnySource]]]
          /\ dirty' \in [Workspace -> SUBSET Doc]
      <4>1. cache' \in [Workspace -> [Doc -> [version: Nat, of: AnySource]]]
        BY <2>5, <2>6, <3>2 DEF CopyInv, Shape
      <4>2. dirty' \in [Workspace -> SUBSET Doc]
        BY <2>5, <3>2 DEF CopyInv, Shape
      <4> QED BY <4>1, <4>2
    <3> QED BY <2>8, <3>3, <3>4 DEF ChangeConfiguration, CopyInv, Shape, clientVars
  <2> QED BY <2>1, <2>2, <2>3, <2>4, <2>7, <2>8
<1> QED BY <1>1, <1>2, WorkspaceOfDoc DEF CopyInv, OneCopy, CopiesFollowEditor, FindWorkspace

LEMMA DocumentsNext_CopyInv == ASSUME CopyInv, [DocumentsNext]_documentVars PROVE CopyInv'
<1>1. CASE UNCHANGED documentVars
  BY <1>1, WorkspaceOfDoc
  DEF documentVars, clientVars, pluginVars, frontendVars, CopyInv, Shape, OneCopy, CopiesFollowEditor,
      FindWorkspace
<1>2. CASE DocumentsNext
  BY <1>2, Open_CopyInv, Change_CopyInv, Close_CopyInv, ChangeFolder_CopyInv, Analyse_CopyInv,
     Others_CopyInv DEF DocumentsNext
<1> QED BY <1>1, <1>2

\* The server's copies of the open documents are the client's, for every number of files,
\* folders and edits; documents whose folder came or went excepted.
THEOREM CopiesAreTheClients == DocumentsSpec => []CopiesFollowEditor
<1>1. CopyInv => CopiesFollowEditor
  BY DEF CopyInv
<1> QED BY <1>1, DocumentsInit_CopyInv, DocumentsNext_CopyInv, PTL DEF DocumentsSpec

-----------------------------------------------------------------------------
(* The sources                                                             *)

\* Nothing happened to document c and to the plugin of its workspace.
Untouched(c) ==
    /\ editor'[c] = editor[c] /\ lastVersion'[c] = lastVersion[c] /\ disk'[c] = disk[c]
    /\ (c \in unseen') <=> (c \in unseen)
    /\ \A v \in Workspace :
           /\ managed'[v][c] = managed[v][c]
           /\ cache'[v][c] = cache[v][c]
           /\ checked'[v][c] = checked[v][c]
           /\ (c \in dirty'[v]) <=> (c \in dirty[v])

\* The workspaces are as they were, or one of them was set up.
SetUp ==
    /\ UNCHANGED <<folders, enabled, script, scriptUnseen>>
    /\ ready \subseteq ready'
    /\ \A v \in Workspace : PluginOf(v)' = PluginOf(v)
    /\ \A v \in Workspace \ ready' : v \notin ready /\ plugin'[v] = plugin[v]

LEMMA UntouchedIsSound ==
    ASSUME CopyInv, SetUp, NEW c \in Doc, Untouched(c), Sound(c)
    PROVE  Sound(c)'
<1>1. FindWorkspace(c) \in Workspace /\ FindWorkspace(c)' = FindWorkspace(c)
  BY WorkspaceOfDoc DEF CopyInv, FindWorkspace, SetUp
<1>2. Current(c)' = Current(c)
  BY <1>1 DEF Current, Truth, Untouched, SetUp
<1>3. CacheHit(FindWorkspace(c), c)' = CacheHit(FindWorkspace(c), c)
  BY <1>1 DEF CacheHit, Untouched, SetUp
<1>4. VersionsGrow(c)'
  BY DEF Sound, VersionsGrow, Untouched
<1>5. CheckedIsCurrent(c)'
  BY <1>1, <1>2 DEF Sound, CheckedIsCurrent, Untouched
<1>6. CachedIsCurrent(c)'
  BY <1>1, <1>2, <1>3 DEF Sound, CachedIsCurrent, Untouched
<1> QED BY <1>4, <1>5, <1>6 DEF Sound

\* What an action owes that is about one document.
LEMMA OneDocument ==
    ASSUME CopyInv, SourceInv, SetUp, NEW d \in Doc, moved' = moved,
           \A c \in Doc \ {d} : Untouched(c),
           \A v \in Workspace \ ready' : checked'[v][d] = checked[v][d] /\ cache'[v][d] = cache[v][d],
           d \notin moved => Sound(d)'
    PROVE  SourceInv'
<1>1. UnreadyIsEmpty'
  BY DEF SourceInv, UnreadyIsEmpty, SetUp, Untouched
<1>2. \A c \in Doc \ moved' : Sound(c)'
  BY UntouchedIsSound DEF SourceInv
<1>3. PluginsHotReload'
  <2>1. Home \in Workspace
    BY DEF Workspace
  <2>2. CASE Home \in ready
    BY <2>1, <2>2 DEF SourceInv, SetUp, PluginsHotReload, PluginOf
  <2>3. CASE Home \notin ready
    <3>1. PluginOf(Home) = Configured(Home, enabled)
      BY <2>3 DEF PluginOf
    <3>2. Home \in ready' => plugin'[Home] = Configured(Home, enabled)
      BY <2>1, <3>1 DEF SetUp, PluginOf
    <3> QED BY <3>2 DEF SetUp, PluginsHotReload, Configured, NoPlugin, Loaded
  <2> QED BY <2>2, <2>3
<1> QED BY <1>1, <1>2, <1>3 DEF SourceInv

\* Setting up the workspace of a document, in the terms of SetUp.
LEMMA LazyIsSetUp ==
    ASSUME CopyInv, NEW d \in Doc, LazyInitialize(FindWorkspace(d)),
           UNCHANGED <<folders, enabled, script, scriptUnseen>>
    PROVE  SetUp /\ FindWorkspace(d) \in ready'
BY WorkspaceOfDoc, SetUpShowsNothing DEF CopyInv, SetUp

LEMMA DocumentsInit_SourceInv == DocumentsInit => SourceInv
<1> SUFFICES ASSUME DocumentsInit PROVE SourceInv
  OBVIOUS
<1>1. \A d \in Doc : FindWorkspace(d) \in Workspace
  BY WorkspaceOfDoc, DocumentsInit_CopyInv DEF CopyInv
<1>2. UnreadyIsEmpty /\ PluginsHotReload
  BY DEF DocumentsInit, UnreadyIsEmpty, PluginsHotReload
<1>3. ASSUME NEW d \in Doc PROVE Sound(d)
  <2> DEFINE w == FindWorkspace(d)
  <2>1. w \in Workspace
    BY <1>1
  <2>2. VersionsGrow(d)
    BY Constants DEF DocumentsInit, VersionsGrow
  <2>3. checked[w][d] = None /\ managed[w][d] = Closed
    BY <2>1 DEF DocumentsInit
  <2> QED BY <2>2, <2>3 DEF Sound, CheckedIsCurrent, CachedIsCurrent, CacheHit
<1> QED BY <1>2, <1>3 DEF SourceInv

\* A document that is opened gets a version no entry of the cache has.
LEMMA Open_SourceInv ==
    ASSUME ~Restarts, CopyInv, SourceInv, NEW d \in Doc, Open(d)
    PROVE  SourceInv'
<1> DEFINE w == FindWorkspace(d)
           opened == [version |-> lastVersion[d] + 1, text |-> disk[d]]
<1>1. w \in Workspace /\ opened \in AnyCopy /\ opened.version = lastVersion[d] + 1
  BY WorkspaceOfDoc DEF CopyInv, Shape, AnyCopy
<1>2. /\ editor[d] = Closed
      /\ editor' = [editor EXCEPT ![d] = opened]
      /\ lastVersion' = [lastVersion EXCEPT ![d] = opened.version]
      /\ managed' = [managed EXCEPT ![w][d] = IF @ = Closed THEN opened ELSE @]
      /\ dirty' = [dirty EXCEPT ![w] = @ \cup {d}]
      /\ LazyInitialize(w)
      /\ UNCHANGED <<disk, unseen, pluginVars, folders, cache, checked, moved>>
  BY DEF Open, MarkDirty
<1>3. SetUp /\ w \in ready'
  BY <1>2, LazyIsSetUp DEF pluginVars
<1>4. FindWorkspace(d)' = w
  BY <1>2 DEF FindWorkspace
<1> HIDE DEF w, opened
<1>5. \A c \in Doc \ {d} : Untouched(c)
  BY <1>1, <1>2 DEF CopyInv, Shape, Untouched
<1>6. ASSUME d \notin moved PROVE Sound(d)'
  <2>1. editor'[d] = opened /\ lastVersion'[d] = opened.version /\ d \in dirty'[w]
    BY <1>1, <1>2 DEF CopyInv, Shape
  <2>2. managed[w][d] = Closed
    BY <1>2, <1>6 DEF CopyInv, CopiesFollowEditor, w
  <2>3. managed'[w][d] = opened
    BY <1>1, <1>2, <2>2 DEF CopyInv, Shape
  <2>4. \A v \in Workspace : cache[v][d].version \in Nat /\ cache[v][d].version <= lastVersion[d]
    BY <1>6 DEF CopyInv, Shape, SourceInv, Sound, VersionsGrow
  <2>5. lastVersion[d] \in Nat
    BY DEF CopyInv, Shape
  <2>6. VersionsGrow(d)'
    BY <1>1, <1>2, <2>1, <2>4, <2>5 DEF VersionsGrow
  <2>7. ~CacheHit(FindWorkspace(d), d)'
    BY <1>1, <1>2, <1>4, <2>3, <2>4, <2>5 DEF CacheHit
  <2> QED BY <1>4, <2>1, <2>6, <2>7 DEF Sound, CheckedIsCurrent, CachedIsCurrent, w
<1>7. UNCHANGED <<moved, checked, cache>>
  BY <1>2
<1> QED BY <1>3, <1>5, <1>6, <1>7, OneDocument

LEMMA Change_SourceInv ==
    ASSUME CopyInv, SourceInv, NEW d \in Doc, NEW latest \in Text, Change(d, latest)
    PROVE  SourceInv'
<1> DEFINE w == FindWorkspace(d)
           edited == [version |-> editor[d].version + 1, text |-> latest]
<1>1. w \in Workspace /\ editor[d] \in AnyCopy /\ edited.version = editor[d].version + 1
  BY WorkspaceOfDoc DEF CopyInv, Shape
<1>2. /\ editor[d] # Closed
      /\ editor' = [editor EXCEPT ![d] = edited]
      /\ lastVersion' = [lastVersion EXCEPT ![d] = edited.version]
      /\ LazyInitialize(w)
      /\ UNCHANGED <<disk, unseen, pluginVars, folders, checked, moved>>
  BY DEF Change
<1>3. \/ UNCHANGED <<managed, cache, dirty>> /\ managed[w][d] = Closed
      \/ /\ managed' = [managed EXCEPT ![w][d] = EditedCopy(managed[w][d], editor[d], edited)]
         /\ cache' = [cache EXCEPT ![w][d] = NoEntry]
         /\ dirty' = [dirty EXCEPT ![w] = @ \cup {d}]
  BY DEF Change, MarkDirty
<1>4. SetUp /\ w \in ready'
  BY <1>2, LazyIsSetUp DEF pluginVars
<1>5. FindWorkspace(d)' = w
  BY <1>2 DEF FindWorkspace
<1> HIDE DEF w, edited
<1>6. ASSUME NEW c \in Doc \ {d} PROVE Untouched(c)
  <2>1. /\ editor'[c] = editor[c] /\ lastVersion'[c] = lastVersion[c] /\ disk'[c] = disk[c]
        /\ unseen' = unseen /\ checked' = checked
    BY <1>2 DEF CopyInv, Shape
  <2>2. ASSUME NEW v \in Workspace
        PROVE  /\ managed'[v][c] = managed[v][c] /\ cache'[v][c] = cache[v][c]
               /\ (c \in dirty'[v]) <=> (c \in dirty[v])
    <3>1. CASE UNCHANGED <<managed, cache, dirty>>
      BY <3>1
    <3>2. CASE /\ managed' = [managed EXCEPT ![w][d] = EditedCopy(managed[w][d], editor[d], edited)]
               /\ cache' = [cache EXCEPT ![w][d] = NoEntry]
               /\ dirty' = [dirty EXCEPT ![w] = @ \cup {d}]
      BY <1>1, <3>2 DEF CopyInv, Shape
    <3> QED BY <1>3, <3>1, <3>2
  <2> QED BY <2>1, <2>2 DEF Untouched
<1>7. \A v \in Workspace \ {w} : cache'[v][d] = cache[v][d]
  BY <1>1, <1>3 DEF CopyInv, Shape
<1>8. ASSUME d \notin moved PROVE Sound(d)'
  <2>1. managed[w][d] # Closed
    BY <1>2, <1>8 DEF CopyInv, CopiesFollowEditor, w
  <2>2. cache'[w][d] = NoEntry /\ d \in dirty'[w]
    BY <1>1, <1>3, <2>1 DEF CopyInv, Shape
  <2>3. editor'[d] = edited /\ lastVersion'[d] = edited.version
    BY <1>2 DEF CopyInv, Shape
  <2>4. editor[d].version \in Nat /\ editor[d].version = lastVersion[d]
    BY <1>1, <1>2, <1>8 DEF AnyCopy, SourceInv, Sound, VersionsGrow
  <2>5. \A v \in Workspace : cache[v][d].version \in Nat /\ cache[v][d].version <= lastVersion[d]
    BY <1>8 DEF CopyInv, Shape, SourceInv, Sound, VersionsGrow
  <2>6. VersionsGrow(d)'
    BY <1>1, <1>7, <2>2, <2>3, <2>4, <2>5, Constants DEF VersionsGrow
  <2>7. ~CacheHit(FindWorkspace(d), d)'
    BY <1>5, <2>2 DEF CacheHit
  <2> QED BY <1>5, <2>2, <2>6, <2>7 DEF Sound, CheckedIsCurrent, CachedIsCurrent, w
<1>9. UNCHANGED <<moved, checked>>
  BY <1>2
<1> QED BY <1>4, <1>6, <1>7, <1>8, <1>9, OneDocument

LEMMA Close_SourceInv ==
    ASSUME CopyInv, SourceInv, NEW d \in Doc, Close(d)
    PROVE  SourceInv'
<1> DEFINE w == FindWorkspace(d)
<1>1. w \in Workspace
  BY WorkspaceOfDoc DEF CopyInv
<1>2. /\ editor' = [editor EXCEPT ![d] = Closed]
      /\ managed' = [managed EXCEPT ![w][d] = Closed]
      /\ dirty' = [dirty EXCEPT ![w] = @ \cup {d}]
      /\ LazyInitialize(w)
      /\ UNCHANGED <<disk, unseen, lastVersion, pluginVars, folders, cache, checked, moved>>
  BY DEF Close, MarkDirty
<1>3. SetUp /\ w \in ready'
  BY <1>2, LazyIsSetUp DEF pluginVars
<1>4. FindWorkspace(d)' = w
  BY <1>2 DEF FindWorkspace
<1> HIDE DEF w
<1>5. \A c \in Doc \ {d} : Untouched(c)
  BY <1>1, <1>2 DEF CopyInv, Shape, Untouched
<1>6. ASSUME d \notin moved PROVE Sound(d)'
  <2>1. editor'[d] = Closed /\ managed'[w][d] = Closed /\ d \in dirty'[w]
    BY <1>1, <1>2 DEF CopyInv, Shape
  <2>2. VersionsGrow(d)'
    BY <1>2, <1>6, <2>1 DEF SourceInv, Sound, VersionsGrow
  <2>3. ~CacheHit(FindWorkspace(d), d)'
    BY <1>4, <2>1 DEF CacheHit
  <2> QED BY <1>4, <2>1, <2>2, <2>3 DEF Sound, CheckedIsCurrent, CachedIsCurrent, w
<1>7. UNCHANGED <<moved, checked, cache>>
  BY <1>2
<1> QED BY <1>3, <1>5, <1>6, <1>7, OneDocument

LEMMA Save_SourceInv ==
    ASSUME CopyInv, SourceInv, NEW d \in Doc, Save(d)
    PROVE  SourceInv'
<1>1. /\ editor[d] # Closed
      /\ disk' = [disk EXCEPT ![d] = editor[d].text]
      /\ unseen' = unseen \cup {d}
      /\ LazyInitialize(FindWorkspace(d))
      /\ UNCHANGED <<editor, lastVersion, pluginVars, folders, managed, cache, checked, dirty, moved>>
  BY DEF Save, frontendVars
<1>2. SetUp
  BY <1>1, LazyIsSetUp DEF pluginVars
<1>3. \A c \in Doc \ {d} : Untouched(c)
  BY <1>1 DEF CopyInv, Shape, Untouched
<1>4. FindWorkspace(d) \in Workspace /\ FindWorkspace(d)' = FindWorkspace(d)
  BY <1>1, WorkspaceOfDoc DEF CopyInv, FindWorkspace
<1>5. Current(d)' = Current(d)
  BY <1>1, <1>2, <1>4 DEF Current, Truth, SetUp
<1>6. CacheHit(FindWorkspace(d), d)' = CacheHit(FindWorkspace(d), d)
  BY <1>1, <1>2, <1>4 DEF CacheHit, SetUp
<1>7. ASSUME d \notin moved PROVE Sound(d)'
  BY <1>1, <1>4, <1>5, <1>6, <1>7
  DEF SourceInv, Sound, VersionsGrow, CheckedIsCurrent, CachedIsCurrent
<1> QED BY <1>1, <1>2, <1>3, <1>7, OneDocument

LEMMA WriteFile_SourceInv ==
    ASSUME CopyInv, SourceInv, NEW d \in Doc, NEW latest \in Text, WriteFile(d, latest)
    PROVE  SourceInv'
<1>1. /\ disk' = [disk EXCEPT ![d] = latest]
      /\ unseen' = unseen \cup {d}
      /\ UNCHANGED <<editor, lastVersion, script, scriptUnseen, enabled, folders, ready, plugin,
                     managed, cache, checked, dirty, moved>>
  BY DEF WriteFile, pluginVars, frontendVars
<1>2. SetUp
  BY <1>1 DEF SetUp, PluginOf, Configured
<1>3. \A c \in Doc \ {d} : Untouched(c)
  BY <1>1 DEF CopyInv, Shape, Untouched
<1>4. FindWorkspace(d) \in Workspace /\ FindWorkspace(d)' = FindWorkspace(d)
  BY <1>1, WorkspaceOfDoc DEF CopyInv, FindWorkspace
<1>5. ASSUME d \notin moved PROVE Sound(d)'
  <2>1. editor[d] # Closed => Current(d)' = Current(d)
    BY <1>1, <1>2, <1>4 DEF Current, Truth, SetUp
  <2>2. VersionsGrow(d)'
    BY <1>1, <1>5 DEF SourceInv, Sound, VersionsGrow
  <2>3. CheckedIsCurrent(d)'
    BY <1>1, <1>4, <1>5, <2>1 DEF SourceInv, Sound, CheckedIsCurrent
  <2>4. managed[FindWorkspace(d)][d] = editor[d]
    BY <1>5 DEF CopyInv, CopiesFollowEditor
  <2>5. CachedIsCurrent(d)'
    BY <1>1, <1>2, <1>4, <1>5, <2>1, <2>4 DEF SourceInv, Sound, CachedIsCurrent, CacheHit, SetUp
  <2> QED BY <2>2, <2>3, <2>5 DEF Sound
<1> QED BY <1>1, <1>2, <1>3, <1>5, OneDocument

LEMMA WatchedFile_SourceInv ==
    ASSUME CopyInv, SourceInv, NEW d \in Doc, WatchedFile(d)
    PROVE  SourceInv'
<1> DEFINE w == FindWorkspace(d)
<1>1. /\ unseen' = unseen \ {d}
      /\ w \in ready => dirty' = [dirty EXCEPT ![w] = @ \cup {d}]
      /\ w \notin ready => dirty' = dirty
      /\ UNCHANGED <<disk, editor, lastVersion, script, scriptUnseen, enabled, folders, ready,
                     plugin, managed, cache, checked, moved>>
  BY DEF WatchedFile, MarkDirty, pluginVars
<1>2. SetUp
  BY <1>1 DEF SetUp, PluginOf, Configured
<1>3. w \in Workspace /\ FindWorkspace(d)' = w
  BY <1>1, WorkspaceOfDoc DEF CopyInv, FindWorkspace
<1> HIDE DEF w
<1>4. ASSUME NEW c \in Doc \ {d} PROVE Untouched(c)
  <2>1. ASSUME NEW v \in Workspace PROVE (c \in dirty'[v]) <=> (c \in dirty[v])
    <3>1. CASE w \in ready
      <4>1. dirty \in [Workspace -> SUBSET Doc]
        BY DEF CopyInv, Shape
      <4>2. dirty' = [dirty EXCEPT ![w] = dirty[w] \cup {d}]
        BY <1>1, <3>1
      <4>3. dirty'[v] = IF v = w THEN dirty[w] \cup {d} ELSE dirty[v]
        BY <4>1, <4>2
      <4> QED BY <4>3
    <3>2. CASE w \notin ready
      BY <1>1, <3>2
    <3> QED BY <3>1, <3>2
  <2> QED BY <1>1, <2>1 DEF Untouched
<1>5. ASSUME d \notin moved PROVE Sound(d)'
  <2>1. Current(d)' = Current(d)
    BY <1>1, <1>2, <1>3 DEF Current, Truth, SetUp, w
  <2>2. VersionsGrow(d)' /\ CachedIsCurrent(d)'
    BY <1>1, <1>2, <1>3, <1>5, <2>1
    DEF SourceInv, Sound, VersionsGrow, CachedIsCurrent, CacheHit, SetUp, w
  <2>3. w \in ready => d \in dirty'[w]
    BY <1>1, <1>3 DEF CopyInv, Shape
  <2>4. w \notin ready => checked'[w][d] = None
    BY <1>1, <1>3 DEF SourceInv, UnreadyIsEmpty
  <2> QED BY <1>3, <2>2, <2>3, <2>4 DEF Sound, CheckedIsCurrent, w
<1> QED BY <1>1, <1>2, <1>4, <1>5, OneDocument

\* A request reads a document as it is, from the cache or not.
LEMMA Analyse_SourceInv ==
    ASSUME CopyInv, SourceInv, NEW d \in Doc, Analyse(d)
    PROVE  SourceInv'
<1> DEFINE w == FindWorkspace(d)
           source == SourceOf(w, d)
           entry == [version |-> managed[w][d].version, of |-> source]
<1>1. w \in Workspace
  BY WorkspaceOfDoc DEF CopyInv
<1>2. /\ LazyInitialize(w)
      /\ dirty' = [dirty EXCEPT ![w] = @ \ {d}]
      /\ UNCHANGED <<disk, unseen, editor, lastVersion, pluginVars, folders, managed, moved>>
  BY DEF Analyse, clientVars
<1>3. checked' = IF checked[w][d] = None \/ d \in dirty[w]
                 THEN [checked EXCEPT ![w][d] = source] ELSE checked
  BY DEF Analyse
<1>4. cache' = IF managed[w][d] # Closed /\ PluginOf(w).code # 0
               THEN [cache EXCEPT ![w][d] = entry] ELSE cache
  BY DEF Analyse
<1>5. SetUp /\ w \in ready'
  BY <1>2, LazyIsSetUp DEF pluginVars
<1>6. FindWorkspace(d)' = w
  BY <1>2 DEF FindWorkspace
<1>7. ASSUME d \notin moved PROVE source = Current(d)
  <2>1. managed[w][d] = editor[d]
    BY <1>7 DEF CopyInv, CopiesFollowEditor
  <2>2. CacheHit(w, d) => cache[w][d].of = Current(d)
    BY <1>7 DEF SourceInv, Sound, CachedIsCurrent
  <2>3. [text |-> IF managed[w][d] = Closed THEN disk[d] ELSE managed[w][d].text,
         code |-> PluginOf(w).code] = Current(d)
    BY <2>1 DEF Current, Truth
  <2> QED BY <2>2, <2>3 DEF SourceOf
<1>8. Current(d)' = Current(d)
  BY <1>1, <1>2, <1>5, <1>6 DEF Current, Truth, SetUp
<1>9. entry.version = managed[w][d].version /\ entry.of = source
  OBVIOUS
<1> HIDE DEF w, source, entry
<1>10. ASSUME NEW c \in Doc \ {d} PROVE Untouched(c)
  <2>1. ASSUME NEW v \in Workspace PROVE (c \in dirty'[v]) <=> (c \in dirty[v])
    BY <1>1, <1>2 DEF CopyInv, Shape
  <2>2. ASSUME NEW v \in Workspace PROVE checked'[v][c] = checked[v][c]
    BY <1>1, <1>3 DEF CopyInv, Shape
  <2>3. ASSUME NEW v \in Workspace PROVE cache'[v][c] = cache[v][c]
    BY <1>1, <1>4 DEF CopyInv, Shape
  <2> QED BY <1>2, <2>1, <2>2, <2>3 DEF Untouched
<1>11. \A v \in Workspace \ {w} : checked'[v][d] = checked[v][d] /\ cache'[v][d] = cache[v][d]
  BY <1>1, <1>3, <1>4 DEF CopyInv, Shape
<1>12. cache'[w][d] = IF managed[w][d] # Closed /\ PluginOf(w).code # 0 THEN entry ELSE cache[w][d]
  BY <1>1, <1>4 DEF CopyInv, Shape
<1>13. checked'[w][d] = IF checked[w][d] = None \/ d \in dirty[w] THEN source ELSE checked[w][d]
  BY <1>1, <1>3 DEF CopyInv, Shape
<1>14. ASSUME d \notin moved PROVE Sound(d)'
  <2>1. managed[w][d] = editor[d]
    BY <1>14 DEF CopyInv, CopiesFollowEditor, w
  <2>2. VersionsGrow(d) /\ CheckedIsCurrent(d) /\ CachedIsCurrent(d)
    BY <1>14 DEF SourceInv, Sound
  <2>3. lastVersion[d] \in Nat
    BY DEF CopyInv, Shape
  <2>4. VersionsGrow(d)'
    BY <1>1, <1>2, <1>9, <1>11, <1>12, <2>1, <2>2, <2>3 DEF VersionsGrow
  <2>5. CheckedIsCurrent(d)'
    BY <1>2, <1>6, <1>7, <1>8, <1>13, <1>14, <2>2 DEF CheckedIsCurrent, w
  <2>6. CacheHit(FindWorkspace(d), d)' => cache'[w][d] = entry \/ CacheHit(w, d)
    BY <1>1, <1>2, <1>5, <1>6, <1>12 DEF CacheHit, SetUp
  <2>7. cache'[w][d] = entry \/ cache'[w][d] = cache[w][d]
    BY <1>12
  <2>8. CachedIsCurrent(d)'
    BY <1>6, <1>7, <1>8, <1>9, <1>12, <1>14, <2>2, <2>6, <2>7 DEF CachedIsCurrent, w
  <2> QED BY <2>4, <2>5, <2>8 DEF Sound
<1>15. \A v \in Workspace \ ready' : checked'[v][d] = checked[v][d] /\ cache'[v][d] = cache[v][d]
  BY <1>5, <1>11
<1> QED BY <1>2, <1>5, <1>10, <1>14, <1>15, OneDocument

\* What the plugin's file and its configuration owe: a workspace keeps its plugin, is not
\* set up, or forgets what it transformed and reads everything again.
LEMMA PluginsChange ==
    ASSUME CopyInv, SourceInv,
           UNCHANGED <<disk, unseen, editor, lastVersion, folders, ready, managed, checked, moved>>,
           \A w \in Workspace \ ready : plugin'[w] = plugin[w] /\ cache'[w] = cache[w],
           \A w \in ready :
               \/ plugin'[w] = plugin[w] /\ cache'[w] = cache[w] /\ dirty'[w] = dirty[w]
               \/ cache'[w] = [d \in Doc |-> NoEntry] /\ dirty'[w] = Doc,
           PluginsHotReload'
    PROVE  SourceInv'
<1>1. UnreadyIsEmpty'
  BY DEF SourceInv, UnreadyIsEmpty
<1>2. ASSUME NEW d \in Doc \ moved' PROVE Sound(d)'
  <2> DEFINE w == FindWorkspace(d)
  <2>1. w \in Workspace /\ FindWorkspace(d)' = w
    BY WorkspaceOfDoc DEF CopyInv, FindWorkspace
  <2>2. d \notin moved /\ Sound(d)
    BY <1>2 DEF SourceInv
  <2>3. VersionsGrow(d)'
    <3>1. lastVersion[d] \in Nat
      BY DEF CopyInv, Shape
    <3>2. ASSUME NEW v \in Workspace PROVE cache'[v][d].version <= lastVersion[d]
      <4>1. cache'[v] = cache[v] \/ cache'[v] = [c \in Doc |-> NoEntry]
        OBVIOUS
      <4> QED BY <2>2, <3>1, <4>1, Constants DEF Sound, VersionsGrow
    <3> QED BY <2>2, <3>2 DEF Sound, VersionsGrow
  <2>4. CASE w \notin ready
    <3>1. checked'[w][d] = None /\ cache'[w][d] = NoEntry
      BY <2>1, <2>4 DEF SourceInv, UnreadyIsEmpty
    <3> QED BY <2>1, <2>3, <3>1 DEF Sound, CheckedIsCurrent, CachedIsCurrent, CacheHit
  <2>5. CASE w \in ready /\ plugin'[w] = plugin[w] /\ cache'[w] = cache[w] /\ dirty'[w] = dirty[w]
    <3>1. Current(d)' = Current(d)
      BY <2>1, <2>5 DEF Current, Truth, PluginOf
    <3>2. CacheHit(FindWorkspace(d), d)' = CacheHit(FindWorkspace(d), d)
      BY <2>1, <2>5 DEF CacheHit, PluginOf
    <3> QED BY <2>1, <2>2, <2>3, <2>5, <3>1, <3>2 DEF Sound, CheckedIsCurrent, CachedIsCurrent
  <2>6. CASE w \in ready /\ cache'[w] = [c \in Doc |-> NoEntry] /\ dirty'[w] = Doc
    BY <2>1, <2>3, <2>6 DEF Sound, CheckedIsCurrent, CachedIsCurrent, CacheHit
  <2> QED BY <2>4, <2>5, <2>6
<1> QED BY <1>1, <1>2 DEF SourceInv

LEMMA Plugin_SourceInv ==
    ASSUME HasSourcemap, CopyInv, SourceInv,
           WriteScript \/ WatchedScript \/ \E on \in BOOLEAN : ChangeConfiguration(on)
    PROVE  SourceInv'
<1>1. Home \in Workspace
  BY DEF Workspace
<1>2. ASSUME WriteScript PROVE SourceInv'
  <2>1. UNCHANGED <<disk, unseen, editor, lastVersion, folders, ready, managed, checked, moved>>
    BY <1>2 DEF WriteScript, clientVars, frontendVars
  <2>2. UNCHANGED <<plugin, cache, dirty>> /\ PluginsHotReload'
    BY <1>2 DEF WriteScript, frontendVars, PluginsHotReload
  <2> QED BY <2>1, <2>2, PluginsChange
<1>3. ASSUME WatchedScript PROVE SourceInv'
  <2>1. UNCHANGED <<disk, unseen, editor, lastVersion, folders, ready, managed, checked, moved,
                    script, enabled>>
    BY <1>3 DEF WatchedScript, clientVars
  <2>2. CASE Home \in folders \cap ready /\ plugin[Home].listed
    <3>1. /\ plugin' = [plugin EXCEPT ![Home] = Loaded(script)]
          /\ cache' = [cache EXCEPT ![Home] = [d \in Doc |-> NoEntry]]
          /\ dirty' = [dirty EXCEPT ![Home] = Doc]
      BY <1>3, <2>2 DEF WatchedScript, Reloaded
    <3>2. plugin'[Home] = Loaded(script) /\ \A w \in Workspace \ {Home} : plugin'[w] = plugin[w]
      BY <1>1, <3>1 DEF CopyInv, Shape
    <3>3. /\ cache'[Home] = [d \in Doc |-> NoEntry] /\ dirty'[Home] = Doc
          /\ \A w \in Workspace \ {Home} : cache'[w] = cache[w] /\ dirty'[w] = dirty[w]
      BY <1>1, <3>1 DEF CopyInv, Shape
    <3>4. PluginsHotReload'
      BY <2>1, <3>2 DEF PluginsHotReload, Loaded
    <3>5. ready \subseteq Workspace
      BY DEF CopyInv, Shape
    <3> QED BY <2>1, <2>2, <3>2, <3>3, <3>4, <3>5, PluginsChange
  <2>3. CASE ~(Home \in folders \cap ready /\ plugin[Home].listed)
    <3>1. UNCHANGED <<plugin, cache, dirty>>
      BY <1>3, <2>3 DEF WatchedScript
    <3>2. PluginsHotReload'
      BY <2>1, <2>3, <3>1 DEF PluginsHotReload
    <3> QED BY <2>1, <3>1, <3>2, PluginsChange
  <2> QED BY <2>2, <2>3
<1>4. ASSUME NEW on \in BOOLEAN, ChangeConfiguration(on) PROVE SourceInv'
  <2>1. UNCHANGED <<disk, unseen, editor, lastVersion, folders, ready, managed, checked, moved,
                    script, scriptUnseen>>
    BY <1>4 DEF ChangeConfiguration, clientVars
  <2>2. CASE Home \in folders \cap ready
    <3>1. /\ plugin' = [plugin EXCEPT ![Home] = Configured(Home, on)]
          /\ cache' = [cache EXCEPT ![Home] = [d \in Doc |-> NoEntry]]
          /\ dirty' = [dirty EXCEPT ![Home] = Doc]
      BY <1>4, <2>2 DEF ChangeConfiguration
    <3>2. /\ plugin'[Home] = Configured(Home, on)
          /\ \A w \in Workspace \ {Home} : plugin'[w] = plugin[w]
      BY <1>1, <3>1 DEF CopyInv, Shape
    <3>3. /\ cache'[Home] = [d \in Doc |-> NoEntry] /\ dirty'[Home] = Doc
          /\ \A w \in Workspace \ {Home} : cache'[w] = cache[w] /\ dirty'[w] = dirty[w]
      BY <1>1, <3>1 DEF CopyInv, Shape
    <3>4. PluginsHotReload'
      BY <2>1, <3>2 DEF PluginsHotReload, Configured, NoPlugin, Loaded
    <3>5. ready \subseteq Workspace
      BY DEF CopyInv, Shape
    <3> QED BY <2>1, <2>2, <3>2, <3>3, <3>4, <3>5, PluginsChange
  <2>3. CASE Home \notin folders \cap ready
    <3>1. UNCHANGED <<plugin, cache, dirty>>
      BY <1>4, <2>3 DEF ChangeConfiguration
    <3>2. PluginsHotReload'
      BY <2>1, <2>3, <3>1 DEF PluginsHotReload
    <3> QED BY <2>1, <3>1, <3>2, PluginsChange
  <2> QED BY <2>2, <2>3
<1> QED BY <1>2, <1>3, <1>4

LEMMA ChangeFolder_SourceInv ==
    ASSUME CopyInv, CopyInv', SourceInv, NEW f \in Folder, ChangeFolder(f)
    PROVE  SourceInv'
<1>1. f \in Workspace
  BY DEF Workspace
<1>2. /\ ready' = ready \ {f}
      /\ UNCHANGED <<disk, unseen, editor, lastVersion, script, scriptUnseen, enabled>>
  BY DEF ChangeFolder, clientVars, pluginVars
<1>3. /\ plugin'[f] = NoPlugin /\ cache'[f] = [d \in Doc |-> NoEntry] /\ checked'[f] = [d \in Doc |-> None]
      /\ \A w \in Workspace \ {f} :
             /\ plugin'[w] = plugin[w] /\ managed'[w] = managed[w] /\ cache'[w] = cache[w]
             /\ checked'[w] = checked[w] /\ dirty'[w] = dirty[w]
  BY <1>1 DEF ChangeFolder, CopyInv, Shape
<1>4. UnreadyIsEmpty'
  <2>1. ASSUME NEW w \in Workspace \ ready'
        PROVE  plugin'[w] = NoPlugin /\ \A d \in Doc : checked'[w][d] = None /\ cache'[w][d] = NoEntry
    <3>1. CASE w = f
      BY <1>3, <3>1
    <3>2. CASE w # f
      BY <1>2, <1>3, <3>2 DEF SourceInv, UnreadyIsEmpty
    <3> QED BY <3>1, <3>2
  <2> QED BY <2>1 DEF UnreadyIsEmpty
<1>5. PluginsHotReload'
  <2>1. folders' \ {f} = folders \ {f} /\ Home \in Workspace
    BY DEF ChangeFolder, Workspace
  <2> QED BY <1>2, <1>3, <2>1 DEF SourceInv, PluginsHotReload
<1>6. ASSUME NEW d \in Doc \ moved' PROVE Sound(d)'
  <2>1. d \notin moved /\ Sound(d) /\ lastVersion[d] \in Nat
    BY <1>6 DEF ChangeFolder, SourceInv, CopyInv, Shape
  <2>2. VersionsGrow(d)'
    BY <1>2, <1>3, <2>1, Constants DEF Sound, VersionsGrow
  <2>3. FindWorkspace(d)' \in Workspace /\ FindWorkspace(d) \in Workspace
    BY WorkspaceOfDoc DEF CopyInv, FindWorkspace, Workspace, Shape
  <2>4. CASE Under[d] = f
    <3>1. \A w \in Workspace : managed[w][d] = Closed /\ checked[w][d] = None
      BY <1>6, <2>4 DEF ChangeFolder, Known
    <3>2. checked'[FindWorkspace(d)'][d] = None
      BY <1>3, <2>3, <3>1
    <3>3. editor'[d] = Closed
      BY <1>2, <2>1, <2>3, <3>1 DEF CopyInv, CopiesFollowEditor
    <3>4. managed'[FindWorkspace(d)'][d] = Closed
      BY <1>6, <3>3 DEF CopyInv, CopiesFollowEditor
    <3> QED BY <2>2, <3>2, <3>4 DEF Sound, CheckedIsCurrent, CachedIsCurrent, CacheHit
  <2>5. CASE Under[d] # f
    <3>1. FindWorkspace(d)' = FindWorkspace(d) /\ FindWorkspace(d) # f
      BY <2>5 DEF ChangeFolder, FindWorkspace
    <3>2. PluginOf(FindWorkspace(d))' = PluginOf(FindWorkspace(d))
      BY <1>2, <1>3, <2>3, <3>1 DEF PluginOf, Configured
    <3>3. Current(d)' = Current(d)
      BY <1>2, <3>1, <3>2 DEF Current, Truth
    <3>4. CacheHit(FindWorkspace(d), d)' = CacheHit(FindWorkspace(d), d)
      BY <1>3, <2>3, <3>1, <3>2 DEF CacheHit
    <3> QED BY <1>2, <1>3, <2>1, <2>2, <2>3, <3>1, <3>3, <3>4
        DEF Sound, CheckedIsCurrent, CachedIsCurrent
  <2> QED BY <2>4, <2>5
<1> QED BY <1>4, <1>5, <1>6 DEF SourceInv

LEMMA DocumentsNext_SourceInv ==
    ASSUME HasSourcemap, ~Restarts, CopyInv, CopyInv', SourceInv, [DocumentsNext]_documentVars
    PROVE  SourceInv'
<1>1. CASE UNCHANGED documentVars
  <2>1. /\ UNCHANGED <<disk, unseen, editor, lastVersion, folders, ready, managed, checked, moved>>
        /\ UNCHANGED <<script, scriptUnseen, enabled, plugin, cache, dirty>>
    BY <1>1 DEF documentVars, clientVars, pluginVars, frontendVars
  <2>2. PluginsHotReload'
    BY <2>1 DEF SourceInv, PluginsHotReload
  <2> QED BY <2>1, <2>2, PluginsChange
<1>2. CASE DocumentsNext
  BY <1>2, Open_SourceInv, Change_SourceInv, Close_SourceInv, Save_SourceInv, WriteFile_SourceInv,
     WatchedFile_SourceInv, Analyse_SourceInv, Plugin_SourceInv, ChangeFolder_SourceInv DEF DocumentsNext
<1> QED BY <1>1, <1>2

LEMMA SourcesStayCurrent ==
    ASSUME HasSourcemap, ~Restarts
    PROVE  DocumentsSpec => [](CopyInv /\ SourceInv)
<1>1. DocumentsInit => CopyInv /\ SourceInv
  BY DocumentsInit_CopyInv, DocumentsInit_SourceInv
<1>2. CopyInv /\ SourceInv /\ [DocumentsNext]_documentVars => (CopyInv /\ SourceInv)'
  BY DocumentsNext_CopyInv, DocumentsNext_SourceInv
<1> QED BY <1>1, <1>2, PTL DEF DocumentsSpec

\* Whatever the client, the file system and the plugin do, a module the type checker does
\* not read again holds what the user sees, transformed by the plugin as it is loaded; with
\* a sourcemap, and versions that are not used twice.
THEOREM CleanModulesAreCurrent ==
    ASSUME HasSourcemap, ~Restarts
    PROVE  DocumentsSpec => []CleanIsCurrent
<1>1. CopyInv /\ SourceInv => CleanIsCurrent
  <2> SUFFICES ASSUME CopyInv, SourceInv, NEW d \in Doc \ moved,
                      checked[FindWorkspace(d)][d] # None,
                      d \notin dirty[FindWorkspace(d)],
                      editor[d] = Closed => d \notin unseen
               PROVE  checked[FindWorkspace(d)][d] =
                          [text |-> Truth(d), code |-> plugin[FindWorkspace(d)].code]
    BY DEF CleanIsCurrent
  <2>1. FindWorkspace(d) \in ready
    BY WorkspaceOfDoc DEF CopyInv, SourceInv, UnreadyIsEmpty
  <2> QED BY <2>1 DEF SourceInv, Sound, CheckedIsCurrent, Current, PluginOf
<1> QED BY <1>1, SourcesStayCurrent, PTL

\* A transformed document that is used again has the text the user sees, transformed by the
\* plugin as it is in its file; the cache may be keyed by the version as long as the client
\* does not use one twice.
THEOREM TransformedDocumentsAreCurrent ==
    ASSUME HasSourcemap, ~Restarts
    PROVE  DocumentsSpec => []TransformsAreCurrent
<1>1. CopyInv /\ SourceInv => TransformsAreCurrent
  <2> SUFFICES ASSUME CopyInv, SourceInv, NEW d \in Doc \ moved, CacheHit(FindWorkspace(d), d)
               PROVE  cache[FindWorkspace(d)][d].of =
                          [text |-> Truth(d), code |-> plugin[FindWorkspace(d)].code]
    BY DEF SourceInv, TransformsAreCurrent, TransformedIsCurrent
  <2>1. FindWorkspace(d) \in ready
    BY WorkspaceOfDoc DEF CopyInv, SourceInv, UnreadyIsEmpty, CacheHit
  <2> QED BY <2>1 DEF SourceInv, Sound, CachedIsCurrent, Current, PluginOf
<1> QED BY <1>1, SourcesStayCurrent, PTL
=============================================================================
