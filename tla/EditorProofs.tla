---------------------------- MODULE EditorProofs ----------------------------
(***************************************************************************)
(* What holds in the VS Code extension: of the sourcemap generation and of *)
(* the decorations for every project, every number of calls of             *)
(* startSourcemapGeneration and of faults, and every interleaving of the   *)
(* two; and of the language client, which shares no state with them, for   *)
(* every configuration, every number of calls, exits and ticks, and every  *)
(* limit on restarts.                                                      *)
(***************************************************************************)
EXTENDS Extension, LanguageClient, SequenceTheorems, FiniteSetTheorems, Lemmas

\* A watcher whose tick is between two of its awaits.
Ticking == {"statting", "reading", "pausing", "indexing", "writing"}

WatcherShape ==
    /\ DOMAIN gen = Starts
    /\ \A s \in Starts : {"pc", "stopped"} \subseteq DOMAIN gen[s]

\* The tick sets the timer again unless it finds "stopped", so a watcher that is not
\* registered must have been stopped before.
TicksAreRegistered ==
    \A s \in Starts :
        gen[s].pc \in Ticking \cup {"waiting"} /\ ~gen[s].stopped => s \in registered

WaitingIsRunning == \A s \in Starts : gen[s].pc = "waiting" => ~gen[s].stopped

WatcherInv ==
    /\ WatcherShape
    /\ registered \subseteq Starts
    /\ TicksAreRegistered
    /\ WaitingIsRunning

LEMMA WatcherInitially == WatcherInit => WatcherInv
BY DEF WatcherInit, WatcherInv, WatcherShape, TicksAreRegistered, WaitingIsRunning, Idle, Ticking

\* One watcher takes a step within its tick: it stays as stopped as it was, and it does
\* not get a timer once it is.
LEMMA OneWatcherMoves ==
    ASSUME WatcherInv, NEW s \in Starts, NEW g,
           gen' = [gen EXCEPT ![s] = g], registered' = registered,
           {"pc", "stopped"} \subseteq DOMAIN g,
           g.pc = "waiting" => ~g.stopped,
           g.pc \in Ticking \cup {"waiting"} /\ ~g.stopped
              => gen[s].pc \in Ticking \cup {"waiting"} /\ ~gen[s].stopped
    PROVE  WatcherInv'
BY DEF WatcherInv, WatcherShape, TicksAreRegistered, WaitingIsRunning

LEMMA ScheduledShape ==
    ASSUME NEW g
    PROVE  /\ {"pc", "stopped"} \subseteq DOMAIN ScheduleNext(g)
           /\ g.stopped => ScheduleNext(g).pc = "ended"
           /\ ~g.stopped => ScheduleNext(g).pc = "waiting" /\ ~ScheduleNext(g).stopped
BY DEF ScheduleNext, Ended, Idle

LEMMA WatcherStepKeeps ==
    ASSUME WatcherInv, NEW s \in Starts, WatcherStep(s) \/ StatFails(s) \/ WriteFails(s)
    PROVE  WatcherInv'
<1>0. /\ {"pc", "stopped"} \subseteq DOMAIN gen[s]
      /\ gen[s].pc = "waiting" => ~gen[s].stopped
      /\ registered' = registered
  BY DEF WatcherInv, WatcherShape, WaitingIsRunning, WatcherStep, Tick, StatAnswers, StatFails,
         ReadAnswers, RetryAfterPause, IndexAnswers, WriteAnswers, WriteFails
<1> DEFINE Moves(pc) == [gen[s] EXCEPT !.pc = pc]
<1>1. CASE Tick(s)
  <2>1. gen' = [gen EXCEPT ![s] = Moves("statting")] /\ gen[s].pc = "waiting"
    BY <1>1 DEF Tick
  <2> QED BY <1>0, <2>1, OneWatcherMoves DEF Ticking
<1>2. CASE StatAnswers(s)
  <2> DEFINE reading == [gen[s] EXCEPT !.pc = "reading", !.mtime = studio.mtime, !.attempt = 1]
  <2>1. gen[s].pc = "statting"
    BY <1>2 DEF StatAnswers
  <2>2. CASE gen' = [gen EXCEPT ![s] = reading]
    <3>1. {"pc", "stopped"} \subseteq DOMAIN reading /\ reading.pc = "reading"
          /\ reading.stopped = gen[s].stopped
      BY <1>0
    <3> HIDE DEF reading
    <3> QED BY <1>0, <2>1, <2>2, <3>1, OneWatcherMoves DEF Ticking
  <2>3. CASE gen' = [gen EXCEPT ![s] = ScheduleNext(gen[s])]
    BY <1>0, <2>1, <2>3, ScheduledShape, OneWatcherMoves DEF Ticking
  <2> QED BY <1>2, <2>2, <2>3 DEF StatAnswers
<1>3. CASE StatFails(s)
  BY <1>0, <1>3, ScheduledShape, OneWatcherMoves DEF StatFails, TickFails, Ticking
<1>4. CASE ReadAnswers(s)
  <2> DEFINE indexing == [gen[s] EXCEPT !.pc = "indexing", !.version = studio.saved]
             pausing == [gen[s] EXCEPT !.pc = "pausing", !.attempt = gen[s].attempt + 1]
  <2>1. gen[s].pc = "reading"
    BY <1>4 DEF ReadAnswers
  <2>2. CASE gen' = [gen EXCEPT ![s] = indexing]
    <3>1. {"pc", "stopped"} \subseteq DOMAIN indexing /\ indexing.pc = "indexing"
          /\ indexing.stopped = gen[s].stopped
      BY <1>0
    <3> HIDE DEF indexing
    <3> QED BY <1>0, <2>1, <2>2, <3>1, OneWatcherMoves DEF Ticking
  <2>3. CASE gen' = [gen EXCEPT ![s] = pausing]
    <3>1. {"pc", "stopped"} \subseteq DOMAIN pausing /\ pausing.pc = "pausing"
          /\ pausing.stopped = gen[s].stopped
      BY <1>0
    <3> HIDE DEF pausing
    <3> QED BY <1>0, <2>1, <2>3, <3>1, OneWatcherMoves DEF Ticking
  <2>4. CASE gen' = [gen EXCEPT ![s] = ScheduleNext(gen[s])]
    BY <1>0, <2>1, <2>4, ScheduledShape, OneWatcherMoves DEF Ticking
  <2> QED BY <1>4, <2>2, <2>3, <2>4, Zenon DEF ReadAnswers, TickFails
<1>5. CASE RetryAfterPause(s)
  <2>1. gen' = [gen EXCEPT ![s] = Moves("reading")] /\ gen[s].pc = "pausing"
    BY <1>5 DEF RetryAfterPause
  <2> QED BY <1>0, <2>1, OneWatcherMoves DEF Ticking
<1>6. CASE IndexAnswers(s)
  <2> DEFINE writing == [gen[s] EXCEPT !.pc = "writing", !.nodes = BuildTree(Tree[gen[s].version], LuaFiles)]
  <2>1. gen' = [gen EXCEPT ![s] = writing] /\ gen[s].pc = "indexing"
    BY <1>6 DEF IndexAnswers
  <2>2. {"pc", "stopped"} \subseteq DOMAIN writing /\ writing.pc = "writing"
        /\ writing.stopped = gen[s].stopped
    BY <1>0
  <2> HIDE DEF writing
  <2> QED BY <1>0, <2>1, <2>2, OneWatcherMoves DEF Ticking
<1>7. CASE WriteAnswers(s)
  <2> DEFINE written == [gen[s] EXCEPT !.last = gen[s].mtime]
  <2>1. gen' = [gen EXCEPT ![s] = ScheduleNext(written)] /\ gen[s].pc = "writing"
    BY <1>7 DEF WriteAnswers
  <2>2. written.stopped = gen[s].stopped
    BY <1>0
  <2> HIDE DEF written
  <2> QED BY <1>0, <2>1, <2>2, ScheduledShape, OneWatcherMoves DEF Ticking
<1>8. CASE WriteFails(s)
  BY <1>0, <1>8, ScheduledShape, OneWatcherMoves DEF WriteFails, TickFails, Ticking
<1> QED BY <1>1, <1>2, <1>3, <1>4, <1>5, <1>6, <1>7, <1>8 DEF WatcherStep

LEMMA CleanupStops ==
    ASSUME WatcherInv, NEW s \in Starts
    PROVE  /\ {"pc", "stopped"} \subseteq DOMAIN Cleanup(gen)[s]
           /\ Cleanup(gen)[s].pc \in Ticking \cup {"waiting"} => Cleanup(gen)[s].stopped
           /\ Cleanup(gen)[s].pc # "waiting"
<1> DEFINE stopping == [gen[s] EXCEPT !.stopped = TRUE]
<1>1. /\ {"pc", "stopped"} \subseteq DOMAIN gen[s]
      /\ gen[s].pc \in Ticking \cup {"waiting"} /\ ~gen[s].stopped => s \in registered
      /\ gen[s].pc = "waiting" => ~gen[s].stopped
  BY DEF WatcherInv, WatcherShape, TicksAreRegistered, WaitingIsRunning
<1>2. /\ {"pc", "stopped"} \subseteq DOMAIN stopping
      /\ stopping.pc = gen[s].pc
      /\ stopping.stopped
  BY <1>1
<1>3. Cleanup(gen)[s] = IF s \in registered THEN Dispose(gen[s]) ELSE gen[s]
  BY DEF Cleanup
<1>4. CASE s \notin registered
  <2>1. Cleanup(gen)[s] = gen[s]
    BY <1>3, <1>4
  <2> QED BY <1>1, <1>4, <2>1
<1>5. CASE s \in registered /\ gen[s].pc = "waiting"
  <2>1. Cleanup(gen)[s] = Ended
    BY <1>3, <1>5 DEF Dispose
  <2>2. {"pc", "stopped"} \subseteq DOMAIN Ended /\ Ended.pc = "ended"
    BY DEF Ended, Idle
  <2> QED BY <2>1, <2>2 DEF Ticking
<1>6. CASE s \in registered /\ gen[s].pc # "waiting"
  <2>1. Cleanup(gen)[s] = stopping
    BY <1>3, <1>6, Zenon DEF Dispose
  <2> HIDE DEF stopping
  <2> QED BY <1>2, <1>6, <2>1
<1> QED BY <1>4, <1>5, <1>6

\* What StartGeneration and ChangeToDisabled have in common: nothing stays registered,
\* and a watcher is cleaned up or new.
LEMMA AllDisposed ==
    ASSUME WatcherInv, registered' = {}, DOMAIN gen' = Starts,
           \A s \in Starts : \/ gen'[s] = Cleanup(gen)[s]
                             \/ /\ {"pc", "stopped"} \subseteq DOMAIN gen'[s]
                                /\ gen'[s].pc \in {"finding", "ended"}
    PROVE  WatcherInv'
BY CleanupStops DEF WatcherInv, WatcherShape, TicksAreRegistered, WaitingIsRunning, Ticking

LEMMA StartKeeps == WatcherInv /\ StartGeneration => WatcherInv'
<1> SUFFICES ASSUME WatcherInv, StartGeneration PROVE WatcherInv'
  OBVIOUS
<1> DEFINE new == IF enabled' THEN [Idle EXCEPT !.pc = "finding"] ELSE Ended
<1>1. registered' = {} /\ gen' = [Cleanup(gen) EXCEPT ![started + 1] = new]
  BY Zenon DEF StartGeneration
<1>2. {"pc", "stopped"} \subseteq DOMAIN new /\ new.pc \in {"finding", "ended"}
  BY DEF Ended, Idle
<1>3. DOMAIN Cleanup(gen) = Starts
  BY DEF Cleanup
<1> HIDE DEF new
<1> QED BY <1>1, <1>2, <1>3, AllDisposed

LEMMA DisableKeeps == WatcherInv /\ ChangeToDisabled => WatcherInv'
BY AllDisposed DEF ChangeToDisabled, Cleanup

LEMMA FoundKeeps ==
    ASSUME WatcherInv, NEW s \in Starts, ProjectFound(s) \/ ProjectNotFound(s)
    PROVE  WatcherInv'
<1>1. CASE ProjectFound(s)
  <2> DEFINE statting == [gen[s] EXCEPT !.pc = "statting"]
  <2>1. gen' = [gen EXCEPT ![s] = statting] /\ registered' = registered \union {s}
    BY <1>1 DEF ProjectFound
  <2>2. {"pc", "stopped"} \subseteq DOMAIN statting /\ statting.pc = "statting"
    BY DEF WatcherInv, WatcherShape
  <2> HIDE DEF statting
  <2> QED BY <2>1, <2>2 DEF WatcherInv, WatcherShape, TicksAreRegistered, WaitingIsRunning
<1>2. CASE ProjectNotFound(s)
  <2>1. gen' = [gen EXCEPT ![s] = Ended] /\ registered' = registered
    BY <1>2 DEF ProjectNotFound
  <2>2. {"pc", "stopped"} \subseteq DOMAIN Ended /\ Ended.pc = "ended"
    BY DEF Ended, Idle
  <2> QED BY <2>1, <2>2, OneWatcherMoves DEF Ticking
<1> QED BY <1>1, <1>2

LEMMA WatcherNextKeeps == WatcherInv /\ [WatcherNext]_watcherVars => WatcherInv'
<1> SUFFICES ASSUME WatcherInv, [WatcherNext]_watcherVars PROVE WatcherInv'
  OBVIOUS
<1>1. CASE Studio \/ UNCHANGED watcherVars
  BY <1>1 DEF Studio, watcherVars, WatcherInv, WatcherShape, TicksAreRegistered, WaitingIsRunning
<1>2. CASE User
  BY <1>2, StartKeeps, DisableKeeps DEF User, RegenerateSourcemap, ChangeToEnabled
<1>3. ASSUME NEW s \in Starts, Generation(s) PROVE WatcherInv'
  BY <1>3, WatcherStepKeeps, FoundKeeps DEF Generation
<1> QED BY <1>1, <1>2, <1>3 DEF WatcherNext

\* Disabling the generation or closing the window stops every watcher that would tick
\* again, whatever answers were awaited when settings changed.  (overdare.ts:88, :125)
THEOREM WatchersAreReached == Spec => []TimersAreRegistered
<1>1. Init => WatcherInv
  BY WatcherInitially DEF Init
<1>2. WatcherInv /\ [Next]_vars => WatcherInv'
  <2> SUFFICES ASSUME WatcherInv, [Next]_vars PROVE WatcherInv'
    OBVIOUS
  <2>1. CASE Generate
    BY <2>1, WatcherNextKeeps DEF Generate
  <2>2. CASE UNCHANGED vars
    BY <2>2, WatcherNextKeeps DEF vars
  <2>3. CASE Decorations
    BY <2>3 DEF Decorations, ReceiveEvent, RefreshReads, RefreshLands, DeleteSourcemap, watcherVars,
                WatcherInv, WatcherShape, TicksAreRegistered, WaitingIsRunning
  <2> QED BY <2>1, <2>2, <2>3 DEF Next
<1>3. WatcherInv => TimersAreRegistered
  BY DEF WatcherInv, TicksAreRegistered, WaitingIsRunning, TimersAreRegistered
<1> QED BY <1>1, <1>2, <1>3, PTL DEF Spec

-----------------------------------------------------------------------------
(* The files of the nodes                                                  *)

Exports == {{}} \cup {Lua[e] : e \in 1..Len(Lua)}

\* The files of one base name up to f, in the order of indexLuaFiles.
UpToFile(files, name, f) == {h \in {g \in files : g.base = name} : h.suffix <= f.suffix}

LEMMA ExportedFiles ==
    ASSUME NEW files \in Exports
    PROVE  /\ IsFiniteSet(files)
           /\ \A f \in files : f.suffix \in Int /\ f = [base |-> f.base, suffix |-> f.suffix]
BY VersionsAssumption, FS_EmptySet DEF Exports

LEMMA RankGrows ==
    ASSUME NEW files \in Exports, NEW name,
           NEW f \in files, f.base = name, NEW g \in files, g.base = name
    PROVE  /\ Cardinality(UpToFile(files, name, f)) \in Nat \ {0}
           /\ f.suffix < g.suffix
              => Cardinality(UpToFile(files, name, f)) < Cardinality(UpToFile(files, name, g))
<1> DEFINE F == UpToFile(files, name, f)
           G == UpToFile(files, name, g)
<1>1. f.suffix \in Int /\ g.suffix \in Int /\ IsFiniteSet(files)
  BY ExportedFiles
<1>2. IsFiniteSet(F) /\ IsFiniteSet(G) /\ f \in F /\ g \in G
  <2>1. F \in SUBSET files /\ G \in SUBSET files /\ f \in F /\ g \in G
    BY <1>1 DEF UpToFile
  <2> QED BY <1>1, <2>1, FS_Subset
<1>3. Cardinality(F) \in Nat \ {0} /\ Cardinality(G) \in Nat
  BY <1>2, FS_CardinalityType, FS_EmptySet
<1>4. ASSUME f.suffix < g.suffix PROVE Cardinality(F) < Cardinality(G)
  <2>1. F \in SUBSET G /\ g \notin F
    BY <1>1, <1>4, ExportedFiles DEF UpToFile
  <2>2. Cardinality(F) <= Cardinality(G) /\ F # G
    BY <1>2, <2>1, FS_Subset
  <2>3. Cardinality(F) # Cardinality(G)
    BY <1>2, <2>1, <2>2, FS_Subset
  <2> QED BY <1>3, <2>2, <2>3
<1> QED BY <1>3, <1>4

\* indexLuaFiles gives a place at most one file.
LEMMA OneFileEach ==
    ASSUME NEW files \in Exports, NEW name, NEW k,
           NEW f \in IndexedFile(files, name, k), NEW g \in IndexedFile(files, name, k)
    PROVE  f = g
<1>1. /\ f \in files /\ f.base = name /\ Cardinality(UpToFile(files, name, f)) = k
      /\ g \in files /\ g.base = name /\ Cardinality(UpToFile(files, name, g)) = k
  BY DEF IndexedFile, UpToFile
<1>2. /\ f.suffix \in Int /\ f = [base |-> f.base, suffix |-> f.suffix]
      /\ g.suffix \in Int /\ g = [base |-> g.base, suffix |-> g.suffix]
  BY <1>1, ExportedFiles
<1>3. ~(f.suffix < g.suffix) /\ ~(g.suffix < f.suffix)
  BY <1>1, RankGrows
<1>4. f.suffix = g.suffix /\ f.base = g.base
  BY <1>1, <1>2, <1>3
<1> QED BY <1>2, <1>4

\* The place before that of a file is not empty.
LEMMA PlaceBefore ==
    ASSUME NEW files \in Exports, NEW name, NEW k \in Nat \ {0},
           NEW f \in IndexedFile(files, name, k + 1)
    PROVE  IndexedFile(files, name, k) # {}
<1> DEFINE F == UpToFile(files, name, f)
           rank(h) == Cardinality(UpToFile(files, name, h))
           room == {m \in Nat : \E h \in F \ {f} : m = Cardinality(files) - rank(h)}
<1>1. f \in files /\ f.base = name /\ rank(f) = k + 1 /\ IsFiniteSet(files)
  BY ExportedFiles DEF IndexedFile, UpToFile
<1>2. F \in SUBSET files /\ IsFiniteSet(F) /\ f \in F
  <2>1. F \in SUBSET files /\ f \in F
    BY <1>1, ExportedFiles DEF UpToFile
  <2> QED BY <1>1, <2>1, FS_Subset
<1>3. F \ {f} # {} /\ IsFiniteSet(F \ {f}) /\ Cardinality(F \ {f}) = k
  <2>1. IsFiniteSet(F \ {f}) /\ Cardinality(F \ {f}) = k
    <3>1. Cardinality(F) = k + 1
      BY <1>1
    <3> HIDE DEF F
    <3>2. /\ IsFiniteSet(F \ {f})
          /\ Cardinality(F \ {f}) = IF f \in F THEN Cardinality(F) - 1 ELSE Cardinality(F)
      BY <1>2, FS_RemoveElement, Zenon
    <3> QED BY <1>2, <3>1, <3>2
  <2> QED BY <2>1, FS_EmptySet
<1>4. \A h \in F : h \in files /\ h.base = name /\ h.suffix \in Int /\ h.suffix <= f.suffix
  BY <1>1, ExportedFiles DEF UpToFile
<1>5. \A h \in F : rank(h) \in Nat \ {0} /\ rank(h) <= Cardinality(files)
  <2> TAKE h \in F
  <2>1. UpToFile(files, name, h) \in SUBSET files
    BY DEF UpToFile
  <2> QED BY <1>1, <1>4, <2>1, RankGrows, FS_Subset
<1>6. room # {} /\ room \in SUBSET Nat
  <2>1. Cardinality(files) \in Nat
    BY <1>1, FS_CardinalityType
  <2>2. PICK h \in F \ {f} : TRUE
    BY <1>3
  <2>3. Cardinality(files) - rank(h) \in Nat
    BY <1>5, <2>1, <2>2
  <2> QED BY <2>2, <2>3
<1>7. PICK m \in room : \A n \in room : m <= n
  <2> HIDE DEF room
  <2> QED BY <1>6, LeastElement
<1>8. PICK g \in F \ {f} : m = Cardinality(files) - rank(g)
  BY <1>7
<1>9. \A h \in F \ {f} : rank(h) <= rank(g)
  <2> TAKE h \in F \ {f}
  <2>1. Cardinality(files) \in Nat
    BY <1>1, FS_CardinalityType
  <2>2. Cardinality(files) - rank(h) \in room
    BY <1>5, <2>1
  <2>3. m <= Cardinality(files) - rank(h)
    BY <1>7, <2>2
  <2> QED BY <1>5, <1>8, <2>1, <2>3
<1>10. UpToFile(files, name, g) = F \ {f}
  <2>1. UpToFile(files, name, g) \subseteq F \ {f}
    <3> SUFFICES ASSUME NEW h \in UpToFile(files, name, g) PROVE h \in F \ {f}
      OBVIOUS
    <3>1. h \in files /\ h.base = name /\ h.suffix <= g.suffix /\ h.suffix \in Int
      BY ExportedFiles DEF UpToFile
    <3>2. g.suffix \in Int /\ f.suffix \in Int /\ g.suffix <= f.suffix
      BY <1>1, <1>4, ExportedFiles
    <3>3. h \in F
      BY <3>1, <3>2 DEF UpToFile
    <3>4. h # f
      <4>1. SUFFICES ASSUME h = f PROVE FALSE
        OBVIOUS
      <4>2. g.suffix = f.suffix /\ g.base = f.base
        BY <1>1, <1>4, <3>1, <3>2, <4>1
      <4>3. g = f
        <5>1. g \in files
          BY <1>4
        <5>2. g = [base |-> g.base, suffix |-> g.suffix] /\ f = [base |-> f.base, suffix |-> f.suffix]
          BY <1>1, <5>1, ExportedFiles
        <5> QED BY <4>2, <5>2
      <4> QED BY <1>8, <4>3
    <3> QED BY <3>3, <3>4
  <2>2. F \ {f} \subseteq UpToFile(files, name, g)
    <3> SUFFICES ASSUME NEW h \in F \ {f} PROVE h \in UpToFile(files, name, g)
      OBVIOUS
    <3>1. h \in files /\ h.base = name /\ g \in files /\ g.base = name
          /\ h.suffix \in Int /\ g.suffix \in Int
      BY <1>4
    <3>2. ~(g.suffix < h.suffix)
      <4>1. g.suffix < h.suffix => rank(g) < rank(h)
        BY <3>1, RankGrows
      <4> QED BY <1>5, <1>9, <4>1
    <3> QED BY <3>1, <3>2 DEF UpToFile
  <2> QED BY <2>1, <2>2
<1>11. rank(g) = k
  BY <1>3, <1>10
<1>12. g \in IndexedFile(files, name, k)
  BY <1>4, <1>8, <1>11 DEF IndexedFile, UpToFile
<1> QED BY <1>12

\* indexLuaFiles leaves no gaps: with a file at one place there is one at every
\* earlier place.
LEMMA PlacesBefore ==
    ASSUME NEW files \in Exports, NEW name, NEW k \in Nat \ {0}, NEW j \in 1..k,
           IndexedFile(files, name, k) # {}
    PROVE  IndexedFile(files, name, j) # {}
<1> DEFINE S == 0 .. k - 1
           P == {d \in S : IndexedFile(files, name, k - d) # {}}
<1>1. ASSUME NEW d \in S, \A e \in S : e < d => e \in P PROVE d \in P
  <2>1. CASE d = 0
    BY <2>1
  <2>2. CASE d # 0
    <3>1. d - 1 \in S /\ d - 1 < d /\ k - d \in Nat \ {0} /\ k - (d - 1) = (k - d) + 1
      BY <2>2
    <3>2. IndexedFile(files, name, (k - d) + 1) # {}
      BY <1>1, <3>1
    <3>3. IndexedFile(files, name, k - d) # {}
      BY <3>1, <3>2, PlaceBefore
    <3> QED BY <3>3
  <2> QED BY <2>1, <2>2
<1>2. S \subseteq P
  <2>1. S \in SUBSET Nat
    OBVIOUS
  <2> HIDE DEF S, P
  <2> QED BY <1>1, <2>1, StrongInduction
<1>3. k - j \in S /\ k - (k - j) = j
  OBVIOUS
<1> QED BY <1>2, <1>3

\* How often the scripts up to node k of the tree have the name.
Cursor(tree, name, k) == Cardinality({j \in 1..k : IsScript(tree[j]) /\ tree[j].name = name})

LEMMA CursorGrows ==
    ASSUME NEW tree, NEW i \in Nat, NEW k \in Nat, i < k, NEW name
    PROVE  /\ Cursor(tree, name, i) \in Nat /\ Cursor(tree, name, k) \in Nat
           /\ i \in 1..i /\ IsScript(tree[i]) /\ tree[i].name = name => Cursor(tree, name, i) > 0
           /\ IsScript(tree[k]) /\ tree[k].name = name
              => Cursor(tree, name, i) < Cursor(tree, name, k)
<1> DEFINE C(m) == {j \in 1..m : IsScript(tree[j]) /\ tree[j].name = name}
<1>1. IsFiniteSet(C(i)) /\ IsFiniteSet(C(k))
  <2>1. ASSUME NEW m \in Nat PROVE IsFiniteSet(C(m))
    <3>1. IsFiniteSet(1..m) /\ C(m) \in SUBSET (1..m)
      BY FS_Interval
    <3> QED BY <3>1, FS_Subset
  <2> QED BY <2>1
<1>2. Cardinality(C(i)) \in Nat /\ Cardinality(C(k)) \in Nat
  BY <1>1, FS_CardinalityType
<1>3. ASSUME i \in 1..i, IsScript(tree[i]), tree[i].name = name
      PROVE  Cardinality(C(i)) > 0
  <2>1. C(i) # {}
    BY <1>3
  <2> QED BY <1>1, <1>2, <2>1, FS_EmptySet
<1>4. ASSUME IsScript(tree[k]), tree[k].name = name
      PROVE  Cardinality(C(i)) < Cardinality(C(k))
  <2>1. C(i) \in SUBSET C(k) /\ k \in C(k) /\ k \notin C(i)
    BY <1>4
  <2>2. Cardinality(C(i)) <= Cardinality(C(k))
    BY <1>1, <2>1, FS_Subset
  <2>3. Cardinality(C(i)) # Cardinality(C(k))
    BY <1>1, <2>1, FS_Subset
  <2> QED BY <1>2, <2>2, <2>3
<1> QED BY <1>2, <1>3, <1>4 DEF Cursor

\* What the sourcemap has for the files of version v and of one export.
IsBuilt(v, nodes) == v \in Versions /\ \E files \in Exports : nodes = BuildTree(Tree[v], files)

OneNodeEach(v, nodes) ==
    \A i, j \in DOMAIN nodes :
        LET a == nodes[i]
            b == nodes[j]
        IN  /\ \A f \in a.filePaths : f.base = a.name
            /\ i # j => a.filePaths \intersect b.filePaths = {}
            /\ i < j /\ a.name = b.name /\ IsScript(Tree[v][i]) /\ b.filePaths # {}
               => \E f \in a.filePaths : \A h \in b.filePaths : f.suffix < h.suffix

LEMMA BuiltNodes ==
    ASSUME NEW v, NEW files, v \in Versions
    PROVE  LET nodes == BuildTree(Tree[v], files)
           IN /\ DOMAIN nodes = 1..Len(Tree[v]) /\ Len(Tree[v]) \in Nat
              /\ \A k \in DOMAIN nodes :
                    /\ nodes[k].name = Tree[v][k].name
                    /\ nodes[k].filePaths =
                          IF IsScript(Tree[v][k])
                          THEN IndexedFile(files, nodes[k].name, Cursor(Tree[v], nodes[k].name, k))
                          ELSE {}
BY VersionsAssumption DEF BuildTree, Cursor

LEMMA BuiltForOne ==
    ASSUME NEW v, NEW nodes, IsBuilt(v, nodes)
    PROVE  OneNodeEach(v, nodes)
<1>1. PICK files \in Exports : nodes = BuildTree(Tree[v], files)
  BY DEF IsBuilt
<1>2. v \in Versions
  BY DEF IsBuilt
<1> DEFINE place(k) == Cursor(Tree[v], nodes[k].name, k)
<1>3. /\ DOMAIN nodes = 1..Len(Tree[v]) /\ Len(Tree[v]) \in Nat
      /\ \A k \in DOMAIN nodes :
            /\ nodes[k].name = Tree[v][k].name
            /\ nodes[k].filePaths =
                  IF IsScript(Tree[v][k]) THEN IndexedFile(files, nodes[k].name, place(k)) ELSE {}
  BY <1>1, <1>2, BuiltNodes
<1>4. ASSUME NEW i \in DOMAIN nodes, NEW f \in nodes[i].filePaths PROVE f.base = nodes[i].name
  BY <1>3, <1>4 DEF IndexedFile
<1>5. ASSUME NEW i \in DOMAIN nodes, NEW j \in DOMAIN nodes, i < j, nodes[i].name = nodes[j].name,
             IsScript(Tree[v][i]), IsScript(Tree[v][j])
      PROVE  place(i) \in Nat \ {0} /\ place(j) \in Nat /\ place(i) < place(j)
  <2>1. i \in Nat /\ j \in Nat /\ i \in 1..i
    BY <1>3
  <2>2. /\ IsScript(Tree[v][i]) /\ Tree[v][i].name = nodes[i].name
        /\ IsScript(Tree[v][j]) /\ Tree[v][j].name = nodes[i].name
    BY <1>3, <1>5
  <2>3. /\ Cursor(Tree[v], nodes[i].name, i) \in Nat
        /\ Cursor(Tree[v], nodes[i].name, j) \in Nat
        /\ Cursor(Tree[v], nodes[i].name, i) > 0
        /\ Cursor(Tree[v], nodes[i].name, i) < Cursor(Tree[v], nodes[i].name, j)
    BY <1>5, <2>1, <2>2, CursorGrows
  <2> QED BY <1>5, <2>3
<1>6. ASSUME NEW i \in DOMAIN nodes, NEW j \in DOMAIN nodes, i < j
      PROVE  nodes[i].filePaths \intersect nodes[j].filePaths = {}
  <2>1. SUFFICES ASSUME NEW f \in nodes[i].filePaths, f \in nodes[j].filePaths PROVE FALSE
    OBVIOUS
  <2>2. /\ IsScript(Tree[v][i]) /\ IsScript(Tree[v][j])
        /\ f.base = nodes[i].name /\ f.base = nodes[j].name
    BY <1>3, <1>4, <2>1
  <2>3. /\ place(i) < place(j) /\ place(i) \in Nat \ {0} /\ place(j) \in Nat
    BY <1>5, <1>6, <2>2
  <2>4. /\ f \in IndexedFile(files, nodes[i].name, place(i))
        /\ f \in IndexedFile(files, nodes[j].name, place(j))
    BY <1>3, <2>1, <2>2
  <2>5. /\ Cardinality(UpToFile(files, nodes[i].name, f)) = place(i)
        /\ Cardinality(UpToFile(files, nodes[j].name, f)) = place(j)
    BY <2>4 DEF IndexedFile, UpToFile
  <2> QED BY <2>2, <2>3, <2>5
<1>7. ASSUME NEW i \in DOMAIN nodes, NEW j \in DOMAIN nodes, i < j, nodes[i].name = nodes[j].name,
             IsScript(Tree[v][i]), nodes[j].filePaths # {}
      PROVE  \E f \in nodes[i].filePaths : \A h \in nodes[j].filePaths : f.suffix < h.suffix
  <2> DEFINE name == nodes[j].name
  <2>1. IsScript(Tree[v][j])
    BY <1>3, <1>7
  <2>2. place(i) \in 1..place(j) /\ place(j) \in Nat \ {0} /\ place(i) < place(j)
    BY <1>5, <1>7, <2>1
  <2>3. IndexedFile(files, name, place(j)) # {} /\ nodes[j].filePaths = IndexedFile(files, name, place(j))
        /\ nodes[i].filePaths = IndexedFile(files, name, place(i))
    BY <1>3, <1>7, <2>1
  <2>4. PICK f \in IndexedFile(files, name, place(i)) : TRUE
    <3> HIDE DEF place
    <3> QED BY <2>2, <2>3, PlacesBefore
  <2>5. ASSUME NEW h \in IndexedFile(files, name, place(j)) PROVE f.suffix < h.suffix
    <3>1. /\ f \in files /\ f.base = name /\ Cardinality(UpToFile(files, name, f)) = place(i)
          /\ h \in files /\ h.base = name /\ Cardinality(UpToFile(files, name, h)) = place(j)
      BY <2>4, <2>5 DEF IndexedFile, UpToFile
    <3>2. /\ f.suffix \in Int /\ h.suffix \in Int
          /\ f = [base |-> f.base, suffix |-> f.suffix] /\ h = [base |-> h.base, suffix |-> h.suffix]
      BY <3>1, ExportedFiles
    <3>3. ~(h.suffix < f.suffix)
      BY <2>2, <3>1, RankGrows
    <3>4. f.suffix # h.suffix
      BY <2>2, <3>1, <3>2
    <3> QED BY <3>2, <3>3, <3>4
  <2> QED BY <2>3, <2>4, <2>5
<1>8. \A i, j \in DOMAIN nodes : i # j => i < j \/ j < i
  BY <1>3
<1>9. \A i, j \in DOMAIN nodes : i # j => nodes[i].filePaths \intersect nodes[j].filePaths = {}
  BY <1>6, <1>8
<1> QED BY <1>4, <1>7, <1>9 DEF OneNodeEach

Waking == Ticking \cup {"waiting"}

ProjectShape ==
    /\ DOMAIN gen = Starts
    /\ \A s \in Starts : {"pc", "version", "nodes"} \subseteq DOMAIN gen[s]

\* Studio's files: a project that was written, and is not being written, has a version.
ProjectOnDisk ==
    /\ studio.saved \in 0..Len(Tree) /\ studio.exported \in 0..Len(Lua)
    /\ studio.mtime \in Nat /\ studio.torn \in BOOLEAN
    /\ {"saved", "torn", "mtime", "exported"} \subseteq DOMAIN studio
    /\ studio.mtime > 0 /\ ~studio.torn => studio.saved > 0
    /\ studio.torn => studio.saved < Len(Tree)

\* What a tick carries from one await to the next.
TickCarries(g) ==
    /\ g.pc \in Waking => studio.mtime > 0
    /\ g.pc = "indexing" => g.version \in Versions
    /\ g.pc = "writing" => IsBuilt(g.version, g.nodes)

SourcemapInv ==
    /\ ProjectShape
    /\ ProjectOnDisk
    /\ \A s \in Starts : TickCarries(gen[s])
    /\ sourcemap.nodes # << >> => IsBuilt(sourcemap.version, sourcemap.nodes)

LEMMA ProjectInitially == WatcherInit => SourcemapInv
<1> SUFFICES ASSUME WatcherInit PROVE SourcemapInv
  OBVIOUS
<1>1. ProjectShape /\ \A s \in Starts : gen[s].pc = "none"
  BY DEF WatcherInit, ProjectShape, Idle
<1>2. ProjectOnDisk
  <2>1. PICK v \in {0, 1} : studio = [saved |-> v, torn |-> FALSE, mtime |-> v, exported |-> 0]
    BY DEF WatcherInit
  <2>2. v \in 0..Len(Tree) /\ 0 \in 0..Len(Lua) /\ v \in Nat
    BY VersionsAssumption
  <2> QED BY <2>1, <2>2 DEF ProjectOnDisk
<1> QED BY <1>1, <1>2 DEF SourcemapInv, TickCarries, Waking, Ticking, WatcherInit, NoSourcemap

LEMMA ProjectMoves ==
    ASSUME SourcemapInv, NEW s \in Starts, NEW g,
           gen' = [gen EXCEPT ![s] = g], studio' = studio, sourcemap' = sourcemap,
           {"pc", "version", "nodes"} \subseteq DOMAIN g, TickCarries(g)
    PROVE  SourcemapInv'
BY DEF SourcemapInv, ProjectShape, ProjectOnDisk, TickCarries

LEMMA ScheduledCarries ==
    ASSUME NEW g, studio.mtime > 0
    PROVE  /\ {"pc", "version", "nodes"} \subseteq DOMAIN ScheduleNext(g)
           /\ TickCarries(ScheduleNext(g))
<1>1. ScheduleNext(g).pc \in {"waiting", "ended"}
  BY DEF ScheduleNext, Ended, Idle
<1>2. {"pc", "version", "nodes"} \subseteq DOMAIN ScheduleNext(g)
  BY DEF ScheduleNext, Ended, Idle
<1> QED BY <1>1, <1>2 DEF TickCarries

\* A step of a tick that leaves the version and the nodes alone.
LEMMA PcMoves ==
    ASSUME SourcemapInv, NEW s \in Starts, NEW pc \in Ticking \ {"indexing", "writing"}, NEW g,
           gen[s].pc \in Waking \/ studio.mtime > 0,
           g.pc = pc, {"pc", "version", "nodes"} \subseteq DOMAIN g,
           gen' = [gen EXCEPT ![s] = g], studio' = studio, sourcemap' = sourcemap
    PROVE  SourcemapInv'
<1>1. TickCarries(g)
  BY DEF SourcemapInv, TickCarries, Ticking
<1> QED BY <1>1, ProjectMoves

LEMMA ProjectGenerates ==
    ASSUME SourcemapInv, NEW s \in Starts, Generation(s)
    PROVE  SourcemapInv'
<1>0. /\ {"pc", "version", "nodes"} \subseteq DOMAIN gen[s] /\ TickCarries(gen[s])
      /\ studio.mtime \in Nat /\ DOMAIN gen = Starts
  BY DEF SourcemapInv, ProjectShape, ProjectOnDisk
<1>1. CASE Tick(s)
  <2> DEFINE next == [gen[s] EXCEPT !.pc = "statting"]
  <2>1. /\ gen' = [gen EXCEPT ![s] = next] /\ gen[s].pc = "waiting"
        /\ studio' = studio /\ sourcemap' = sourcemap
    BY <1>1 DEF Tick
  <2>2. next.pc = "statting" /\ {"pc", "version", "nodes"} \subseteq DOMAIN next
    BY <1>0
  <2> HIDE DEF next
  <2>3. gen[s].pc \in Waking /\ "statting" \in Ticking \ {"indexing", "writing"}
    BY <2>1 DEF Waking, Ticking
  <2> QED BY <2>1, <2>2, <2>3, PcMoves
<1>2. CASE StatAnswers(s)
  <2> DEFINE next == [gen[s] EXCEPT !.pc = "reading", !.mtime = studio.mtime, !.attempt = 1]
  <2>1. gen[s].pc = "statting" /\ studio' = studio /\ sourcemap' = sourcemap
    BY <1>2 DEF StatAnswers
  <2>2. gen[s].pc \in Waking /\ studio.mtime > 0
    BY <1>0, <2>1 DEF TickCarries, Waking, Ticking
  <2>3. CASE gen' = [gen EXCEPT ![s] = next]
    <3>1. next.pc = "reading" /\ {"pc", "version", "nodes"} \subseteq DOMAIN next
      BY <1>0
    <3> HIDE DEF next
    <3>2. "reading" \in Ticking \ {"indexing", "writing"}
      BY DEF Ticking
    <3> QED BY <2>1, <2>2, <2>3, <3>1, <3>2, PcMoves
  <2>4. CASE gen' = [gen EXCEPT ![s] = ScheduleNext(gen[s])]
    <3>1. /\ {"pc", "version", "nodes"} \subseteq DOMAIN ScheduleNext(gen[s])
          /\ TickCarries(ScheduleNext(gen[s]))
      BY <2>2, ScheduledCarries
    <3> QED BY <2>1, <2>4, <3>1, ProjectMoves
  <2> QED BY <1>2, <2>3, <2>4 DEF StatAnswers
<1>3. CASE ReadAnswers(s)
  <2> DEFINE indexing == [gen[s] EXCEPT !.pc = "indexing", !.version = studio.saved]
             pausing == [gen[s] EXCEPT !.pc = "pausing", !.attempt = gen[s].attempt + 1]
  <2>1. gen[s].pc = "reading" /\ studio' = studio /\ sourcemap' = sourcemap
    BY <1>3 DEF ReadAnswers
  <2>2. gen[s].pc \in Waking /\ studio.mtime > 0
    BY <1>0, <2>1 DEF TickCarries, Waking, Ticking
  <2>3. CASE ~studio.torn /\ gen' = [gen EXCEPT ![s] = indexing]
    <3>1. /\ indexing.pc = "indexing" /\ indexing.version = studio.saved
          /\ {"pc", "version", "nodes"} \subseteq DOMAIN indexing
      BY <1>0
    <3>2. studio.saved \in Versions
      BY <2>2, <2>3, VersionsAssumption DEF SourcemapInv, ProjectOnDisk
    <3> HIDE DEF indexing
    <3>3. TickCarries(indexing)
      BY <2>2, <3>1, <3>2 DEF TickCarries
    <3> QED BY <2>1, <2>3, <3>1, <3>3, ProjectMoves
  <2>4. CASE gen' = [gen EXCEPT ![s] = pausing]
    <3>1. pausing.pc = "pausing" /\ {"pc", "version", "nodes"} \subseteq DOMAIN pausing
      BY <1>0
    <3> HIDE DEF pausing
    <3>2. "pausing" \in Ticking \ {"indexing", "writing"}
      BY DEF Ticking
    <3> QED BY <2>1, <2>2, <2>4, <3>1, <3>2, PcMoves
  <2>5. CASE gen' = [gen EXCEPT ![s] = ScheduleNext(gen[s])]
    <3>1. /\ {"pc", "version", "nodes"} \subseteq DOMAIN ScheduleNext(gen[s])
          /\ TickCarries(ScheduleNext(gen[s]))
      BY <2>2, ScheduledCarries
    <3> QED BY <2>1, <2>5, <3>1, ProjectMoves
  <2> QED BY <1>3, <2>3, <2>4, <2>5, Zenon DEF ReadAnswers, TickFails
<1>4. CASE RetryAfterPause(s)
  <2> DEFINE next == [gen[s] EXCEPT !.pc = "reading"]
  <2>1. /\ gen' = [gen EXCEPT ![s] = next] /\ gen[s].pc = "pausing"
        /\ studio' = studio /\ sourcemap' = sourcemap
    BY <1>4 DEF RetryAfterPause
  <2>2. next.pc = "reading" /\ {"pc", "version", "nodes"} \subseteq DOMAIN next
    BY <1>0
  <2> HIDE DEF next
  <2>3. gen[s].pc \in Waking /\ "reading" \in Ticking \ {"indexing", "writing"}
    BY <2>1 DEF Waking, Ticking
  <2> QED BY <2>1, <2>2, <2>3, PcMoves
<1>5. CASE IndexAnswers(s)
  <2> DEFINE built == BuildTree(Tree[gen[s].version], LuaFiles)
             next == [gen[s] EXCEPT !.pc = "writing", !.nodes = built]
  <2>1. /\ gen' = [gen EXCEPT ![s] = next] /\ gen[s].pc = "indexing"
        /\ studio' = studio /\ sourcemap' = sourcemap
    BY <1>5 DEF IndexAnswers
  <2>2. LuaFiles \in Exports
    BY DEF LuaFiles, Exports, SourcemapInv, ProjectOnDisk
  <2>3. gen[s].version \in Versions /\ studio.mtime > 0
    BY <1>0, <2>1 DEF TickCarries, Waking, Ticking
  <2>4. /\ next.pc = "writing" /\ next.nodes = built /\ next.version = gen[s].version
        /\ {"pc", "version", "nodes"} \subseteq DOMAIN next
    BY <1>0
  <2>5. IsBuilt(next.version, next.nodes)
    BY <2>2, <2>3, <2>4 DEF IsBuilt
  <2> HIDE DEF next
  <2>6. TickCarries(next)
    BY <2>3, <2>4, <2>5 DEF TickCarries
  <2> QED BY <2>1, <2>4, <2>6, ProjectMoves
<1>6. CASE StatFails(s) \/ WriteFails(s) \/ WriteAnswers(s)
  <2>1. gen[s].pc \in {"statting", "writing"} /\ studio' = studio
    BY <1>6 DEF StatFails, WriteFails, WriteAnswers
  <2>2. studio.mtime > 0
    BY <1>0, <2>1 DEF TickCarries, Waking, Ticking
  <2>3. PICK g : gen' = [gen EXCEPT ![s] = ScheduleNext(g)]
    BY <1>6, Zenon DEF StatFails, WriteFails, WriteAnswers, TickFails
  <2>4. /\ {"pc", "version", "nodes"} \subseteq DOMAIN ScheduleNext(g)
        /\ TickCarries(ScheduleNext(g))
    BY <2>2, ScheduledCarries
  <2>5. sourcemap'.nodes # << >> => IsBuilt(sourcemap'.version, sourcemap'.nodes)
    <3>1. CASE StatFails(s) \/ WriteFails(s)
      BY <3>1 DEF StatFails, WriteFails, NoSourcemap, SourcemapInv
    <3>2. CASE WriteAnswers(s)
      BY <1>0, <3>2 DEF WriteAnswers, TickCarries
    <3> QED BY <1>6, <3>1, <3>2
  <2> QED BY <2>1, <2>3, <2>4, <2>5 DEF SourcemapInv, ProjectShape, ProjectOnDisk, TickCarries
<1>7. CASE ProjectFound(s)
  <2> DEFINE next == [gen[s] EXCEPT !.pc = "statting"]
  <2>1. /\ gen' = [gen EXCEPT ![s] = next] /\ studio.mtime > 0
        /\ studio' = studio /\ sourcemap' = sourcemap
    BY <1>7 DEF ProjectFound
  <2>2. next.pc = "statting" /\ {"pc", "version", "nodes"} \subseteq DOMAIN next
    BY <1>0
  <2> HIDE DEF next
  <2>3. "statting" \in Ticking \ {"indexing", "writing"}
    BY DEF Ticking
  <2> QED BY <2>1, <2>2, <2>3, PcMoves
<1>8. CASE ProjectNotFound(s)
  <2>1. gen' = [gen EXCEPT ![s] = Ended] /\ studio' = studio /\ sourcemap' = sourcemap
    BY <1>8 DEF ProjectNotFound
  <2>2. {"pc", "version", "nodes"} \subseteq DOMAIN Ended /\ Ended.pc = "ended"
    BY DEF Ended, Idle
  <2>3. TickCarries(Ended)
    BY <2>2 DEF TickCarries, Waking, Ticking
  <2> QED BY <2>1, <2>2, <2>3, ProjectMoves
<1> QED BY <1>1, <1>2, <1>3, <1>4, <1>5, <1>6, <1>7, <1>8 DEF Generation, WatcherStep

LEMMA CleanupCarries ==
    ASSUME SourcemapInv, NEW s \in Starts
    PROVE  /\ {"pc", "version", "nodes"} \subseteq DOMAIN Cleanup(gen)[s]
           /\ TickCarries(Cleanup(gen)[s])
<1> DEFINE stopping == [gen[s] EXCEPT !.stopped = TRUE]
<1>1. {"pc", "version", "nodes"} \subseteq DOMAIN gen[s] /\ TickCarries(gen[s])
  BY DEF SourcemapInv, ProjectShape
<1>2. Cleanup(gen)[s] \in {gen[s], stopping, Ended}
  BY Zenon DEF Cleanup, Dispose
<1>3. {"pc", "version", "nodes"} \subseteq DOMAIN stopping /\ TickCarries(stopping)
  <2>1. /\ {"pc", "version", "nodes"} \subseteq DOMAIN stopping /\ stopping.pc = gen[s].pc
        /\ stopping.version = gen[s].version /\ stopping.nodes = gen[s].nodes
    BY <1>1
  <2> HIDE DEF stopping
  <2> QED BY <1>1, <2>1 DEF TickCarries
<1>4. {"pc", "version", "nodes"} \subseteq DOMAIN Ended /\ TickCarries(Ended)
  BY DEF Ended, Idle, TickCarries, Waking, Ticking
<1> HIDE DEF stopping
<1> QED BY <1>1, <1>2, <1>3, <1>4

LEMMA ProjectNextKeeps == SourcemapInv /\ [WatcherNext]_watcherVars => SourcemapInv'
<1> SUFFICES ASSUME SourcemapInv, [WatcherNext]_watcherVars PROVE SourcemapInv'
  OBVIOUS
<1>1. CASE UNCHANGED watcherVars
  BY <1>1 DEF watcherVars, SourcemapInv, ProjectShape, ProjectOnDisk, TickCarries
<1>2. CASE Studio
  <2>1. gen' = gen /\ sourcemap' = sourcemap
    BY <1>2 DEF Studio
  <2>2. ProjectOnDisk' /\ (studio.mtime > 0 => studio'.mtime > 0)
    <3>1. CASE StudioBeginsSave
      BY <3>1 DEF StudioBeginsSave, SourcemapInv, ProjectOnDisk
    <3>2. CASE StudioEndsSave
      <4>1. studio.torn /\ studio.saved < Len(Tree)
        BY <3>2 DEF StudioEndsSave, SourcemapInv, ProjectOnDisk
      <4> QED BY <3>2, <4>1, VersionsAssumption DEF StudioEndsSave, SourcemapInv, ProjectOnDisk
    <3>3. CASE StudioExports
      BY <3>3, VersionsAssumption DEF StudioExports, SourcemapInv, ProjectOnDisk
    <3> QED BY <1>2, <3>1, <3>2, <3>3 DEF Studio
  <2> QED BY <2>1, <2>2 DEF SourcemapInv, ProjectShape, TickCarries
<1>3. CASE User
  <2> DEFINE new == IF enabled' THEN [Idle EXCEPT !.pc = "finding"] ELSE Ended
  <2>1. /\ studio' = studio /\ sourcemap' = sourcemap
        /\ \/ gen' = Cleanup(gen)
           \/ gen' = [Cleanup(gen) EXCEPT ![started + 1] = new]
    BY <1>3, Zenon DEF User, RegenerateSourcemap, ChangeToEnabled, ChangeToDisabled, StartGeneration
  <2>2. {"pc", "version", "nodes"} \subseteq DOMAIN new /\ new.pc \in {"finding", "ended"}
    BY DEF Ended, Idle
  <2> HIDE DEF new
  <2>3. TickCarries(new)
    BY <2>2 DEF TickCarries, Waking, Ticking
  <2>4. DOMAIN Cleanup(gen) = Starts
    BY DEF Cleanup
  <2>5. DOMAIN gen' = Starts /\ \A s \in Starts : gen'[s] \in {Cleanup(gen)[s], new}
    BY <2>1, <2>4
  <2>6. \A s \in Starts :
           {"pc", "version", "nodes"} \subseteq DOMAIN gen'[s] /\ TickCarries(gen'[s])
    BY <2>2, <2>3, <2>5, CleanupCarries
  <2> QED BY <2>1, <2>5, <2>6 DEF SourcemapInv, ProjectShape, ProjectOnDisk, TickCarries
<1>4. ASSUME NEW s \in Starts, Generation(s) PROVE SourcemapInv'
  BY <1>4, ProjectGenerates
<1> QED BY <1>1, <1>2, <1>3, <1>4 DEF WatcherNext

\* In every sourcemap that is written a file belongs to one node, of its own name, and
\* nodes of one name take the files in the order of their suffixes, whatever was saved
\* and exported while the conversion awaited.  (ovdrjmSourcemap.ts:48, :83)
THEOREM FilesKeepOneNode == Spec => []FilesHaveOneNode
<1>1. Init => SourcemapInv
  BY ProjectInitially DEF Init
<1>2. SourcemapInv /\ [Next]_vars => SourcemapInv'
  <2> SUFFICES ASSUME SourcemapInv, [Next]_vars PROVE SourcemapInv'
    OBVIOUS
  <2>1. CASE Generate
    BY <2>1, ProjectNextKeeps DEF Generate
  <2>2. CASE UNCHANGED vars
    BY <2>2, ProjectNextKeeps DEF vars
  <2>3. CASE Decorations
    <3>1. UNCHANGED <<studio, gen>> /\ (sourcemap' = sourcemap \/ sourcemap' = NoSourcemap)
      BY <2>3 DEF Decorations, ReceiveEvent, RefreshReads, RefreshLands, DeleteSourcemap, watcherVars
    <3> QED BY <3>1 DEF SourcemapInv, ProjectShape, ProjectOnDisk, TickCarries, NoSourcemap
  <2> QED BY <2>1, <2>2, <2>3 DEF Next
<1>3. SourcemapInv => FilesHaveOneNode
  <2> SUFFICES ASSUME SourcemapInv PROVE FilesHaveOneNode
    OBVIOUS
  <2>1. CASE sourcemap.nodes = << >>
    BY <2>1 DEF FilesHaveOneNode
  <2>2. CASE sourcemap.nodes # << >>
    <3>1. OneNodeEach(sourcemap.version, sourcemap.nodes)
      BY <2>2, BuiltForOne DEF SourcemapInv
    <3> QED BY <3>1 DEF OneNodeEach, FilesHaveOneNode
  <2> QED BY <2>1, <2>2
<1> QED BY <1>1, <1>2, <1>3, PTL DEF Spec

-----------------------------------------------------------------------------
(* The decorations                                                         *)

IsMap(m) == m = [f \in DOMAIN m |-> m[f]]

Writing == \E s \in Starts : gen[s].pc = "writing"

\* What is on its way to the provider, unless two refreshes overlapped: at most one
\* refresh, and without an event behind it that refresh, or else the provider, has the
\* classes of the sourcemap on disk; or a write is not over, whose event is yet to come.
OnTheWay ==
    /\ \A i \in DOMAIN refreshes : i = 1
    /\ events = << >> /\ ~Writing =>
           /\ refreshes = << >> => bySourcemap = Flatten(sourcemap.nodes)
           /\ refreshes # << >> /\ refreshes[1].done
              => refreshes[1].classes = Flatten(sourcemap.nodes)
    /\ events # << >> /\ events[Len(events)] = "deleted" => sourcemap.nodes = << >>

RefreshesAreMaps == \E R : refreshes \in Seq(R) /\ \A r \in R : IsMap(r.classes)

\* The calls of startSourcemapGeneration that are still to come.
FutureCalls ==
    /\ started \in Nat
    /\ \A s \in Starts : s > started => gen[s].pc = "none"

DecorationsInv ==
    /\ WatcherInv
    /\ FutureCalls
    /\ events \in Seq({"changed", "deleted"})
    /\ RefreshesAreMaps
    /\ IsMap(bySourcemap)
    /\ shown = bySourcemap
    /\ ~overlapped => OnTheWay

LEMMA FlattenIsMap == ASSUME NEW nodes PROVE IsMap(Flatten(nodes))
BY DEF IsMap, Flatten

LEMMA NothingToFlatten == Flatten(<< >>) = NoClasses /\ IsMap(NoClasses)
BY DEF IsMap, Flatten, NoClasses

\* Announcing the files of both maps redraws what may have changed, and nothing else.
LEMMA RedrawnIsProvided ==
    ASSUME NEW classes, IsMap(classes), IsMap(bySourcemap), shown = bySourcemap
    PROVE  Redraw(shown, Affected(bySourcemap, classes), classes) = classes
BY DEF IsMap, Redraw, Affected

LEMMA DecorationsInitially == Init => DecorationsInv
<1> SUFFICES ASSUME Init PROVE DecorationsInv
  OBVIOUS
<1>1. WatcherInv
  BY WatcherInitially DEF Init
<1>2. FutureCalls
  BY DEF Init, WatcherInit, FutureCalls, Idle
<1>3. RefreshesAreMaps
  <2>1. refreshes \in Seq({}) /\ \A r \in {} : IsMap(r.classes)
    BY DEF Init
  <2> QED BY <2>1 DEF RefreshesAreMaps
<1>4. OnTheWay
  <2>1. bySourcemap = Flatten(sourcemap.nodes) /\ events = << >> /\ refreshes = << >>
    BY NothingToFlatten DEF Init, WatcherInit, NoSourcemap
  <2> QED BY <2>1 DEF OnTheWay
<1> QED BY <1>1, <1>2, <1>3, <1>4, NothingToFlatten DEF Init, DecorationsInv

\* A tick that does not end a write leaves the ticks of the other watchers alone.
LEMMA OneWatcherChanges ==
    ASSUME WatcherShape, NEW s \in Starts, Generation(s), ~WriteAnswers(s), ~WriteFails(s)
    PROVE  /\ sourcemap' = sourcemap /\ started' = started
           /\ gen[s].pc \notin {"none", "writing"}
           /\ \E g : gen' = [gen EXCEPT ![s] = g]
<1>1. CASE Tick(s)
  BY <1>1 DEF Tick
<1>2. CASE StatAnswers(s)
  BY <1>2 DEF StatAnswers
<1>3. CASE StatFails(s)
  BY <1>3 DEF StatFails
<1>4. CASE ReadAnswers(s)
  <2>1. gen[s].pc = "reading" /\ sourcemap' = sourcemap /\ started' = started
    BY <1>4 DEF ReadAnswers
  <2>2. \E g : gen' = [gen EXCEPT ![s] = g]
    BY <1>4, Zenon DEF ReadAnswers
  <2> QED BY <2>1, <2>2
<1>5. CASE RetryAfterPause(s)
  BY <1>5 DEF RetryAfterPause
<1>6. CASE IndexAnswers(s)
  BY <1>6 DEF IndexAnswers
<1>7. CASE ProjectFound(s)
  BY <1>7 DEF ProjectFound
<1>8. CASE ProjectNotFound(s)
  BY <1>8 DEF ProjectNotFound
<1> QED BY <1>1, <1>2, <1>3, <1>4, <1>5, <1>6, <1>7, <1>8 DEF Generation, WatcherStep

LEMMA CleanupKeepsWriting ==
    ASSUME WatcherShape, NEW s \in Starts
    PROVE  /\ gen[s].pc = "writing" => Cleanup(gen)[s].pc = "writing"
           /\ gen[s].pc = "none" => Cleanup(gen)[s].pc = "none"
<1> DEFINE stopping == [gen[s] EXCEPT !.stopped = TRUE]
<1>1. stopping.pc = gen[s].pc
  BY DEF WatcherShape
<1>2. Cleanup(gen)[s] = IF s \in registered THEN Dispose(gen[s]) ELSE gen[s]
  BY DEF Cleanup
<1>3. CASE s \in registered /\ gen[s].pc # "waiting"
  <2>1. Cleanup(gen)[s] = stopping
    BY <1>2, <1>3, Zenon DEF Dispose
  <2> HIDE DEF stopping
  <2> QED BY <1>1, <2>1
<1>4. CASE s \notin registered
  BY <1>2, <1>4
<1> QED BY <1>3, <1>4

LEMMA WritesEndWithEvents ==
    ASSUME WatcherInv, FutureCalls, WatcherNext
    PROVE  /\ FutureCalls'
           /\ (~\E s \in Starts : WriteAnswers(s) \/ WriteFails(s))
              => sourcemap' = sourcemap /\ (Writing => Writing')
<1>0. WatcherShape
  BY DEF WatcherInv
<1>1. CASE Studio
  BY <1>1 DEF Studio, FutureCalls, Writing
<1>2. CASE StartGeneration
  <2> DEFINE new == IF enabled' THEN [Idle EXCEPT !.pc = "finding"] ELSE Ended
  <2>1. /\ started < MaxStarts /\ started' = started + 1 /\ sourcemap' = sourcemap
        /\ gen' = [Cleanup(gen) EXCEPT ![started + 1] = new]
    BY <1>2, Zenon DEF StartGeneration
  <2>2. DOMAIN Cleanup(gen) = Starts
    BY DEF Cleanup
  <2> HIDE DEF new
  <2>3. \A s \in Starts \ {started + 1} :
           /\ gen[s].pc = "writing" => gen'[s].pc = "writing"
           /\ gen[s].pc = "none" => gen'[s].pc = "none"
    BY <1>0, <2>1, <2>2, CleanupKeepsWriting
  <2>4. started + 1 \in Starts => gen[started + 1].pc = "none"
    BY DEF FutureCalls
  <2> QED BY <2>1, <2>3, <2>4 DEF FutureCalls, Writing, Starts
<1>3. CASE ChangeToDisabled
  <2>1. gen' = Cleanup(gen) /\ started' = started /\ sourcemap' = sourcemap
    BY <1>3 DEF ChangeToDisabled
  <2> QED BY <1>0, <2>1, CleanupKeepsWriting DEF FutureCalls, Writing
<1>4. ASSUME NEW s \in Starts, Generation(s), ~WriteAnswers(s), ~WriteFails(s)
      PROVE  FutureCalls' /\ sourcemap' = sourcemap /\ (Writing => Writing')
  BY <1>0, <1>4, OneWatcherChanges DEF WatcherShape, FutureCalls, Writing
<1>5. ASSUME NEW s \in Starts, WriteAnswers(s) \/ WriteFails(s)
      PROVE  FutureCalls'
  <2>1. gen[s].pc = "writing" /\ started' = started
    BY <1>5 DEF WriteAnswers, WriteFails
  <2>2. \E g : gen' = [gen EXCEPT ![s] = g]
    BY <1>5 DEF WriteAnswers, WriteFails
  <2> QED BY <1>0, <2>1, <2>2 DEF WatcherShape, FutureCalls
<1> QED BY <1>1, <1>2, <1>3, <1>4, <1>5
        DEF WatcherNext, User, RegenerateSourcemap, ChangeToEnabled

LEMMA GenerateKeeps == DecorationsInv /\ Generate => DecorationsInv'
<1> SUFFICES ASSUME DecorationsInv, Generate PROVE DecorationsInv'
  OBVIOUS
<1>1. /\ WatcherNext
      /\ refreshes' = refreshes /\ bySourcemap' = bySourcemap /\ shown' = shown
      /\ overlapped' = overlapped
  BY DEF Generate
<1>2. WatcherInv' /\ FutureCalls'
  BY <1>1, WatcherNextKeeps, WritesEndWithEvents DEF DecorationsInv
<1>3. CASE \E s \in Starts : WriteAnswers(s) \/ WriteFails(s)
  <2>1. events' = Append(events, "changed")
    BY <1>3 DEF Generate
  <2>2. /\ events' \in Seq({"changed", "deleted"})
        /\ events' # << >> /\ events'[Len(events')] = "changed"
    BY <2>1 DEF DecorationsInv
  <2> QED BY <1>1, <1>2, <2>2 DEF DecorationsInv, RefreshesAreMaps, OnTheWay
<1>4. CASE ~\E s \in Starts : WriteAnswers(s) \/ WriteFails(s)
  <2>1. events' = events
    BY <1>4 DEF Generate
  <2>2. sourcemap' = sourcemap /\ (Writing => Writing')
    BY <1>1, <1>4, WritesEndWithEvents DEF DecorationsInv
  <2> QED BY <1>1, <1>2, <2>1, <2>2 DEF DecorationsInv, RefreshesAreMaps, OnTheWay
<1> QED BY <1>3, <1>4

LEMMA WatcherStays ==
    ASSUME DecorationsInv, UNCHANGED <<started, gen, registered>>
    PROVE  WatcherInv' /\ FutureCalls' /\ (Writing <=> Writing')
BY DEF DecorationsInv, WatcherInv, WatcherShape, TicksAreRegistered, WaitingIsRunning, FutureCalls,
       Writing

LEMMA ReceiveKeeps == DecorationsInv /\ ReceiveEvent => DecorationsInv'
<1> SUFFICES ASSUME DecorationsInv, ReceiveEvent PROVE DecorationsInv'
  OBVIOUS
<1>1. WatcherInv' /\ FutureCalls' /\ (Writing <=> Writing') /\ sourcemap' = sourcemap
  BY WatcherStays DEF ReceiveEvent, watcherVars
<1>2. /\ events # << >> /\ events' = Tail(events) /\ events' \in Seq({"changed", "deleted"})
      /\ overlapped' = (overlapped \/ refreshes # << >>)
      /\ events' # << >> => events'[Len(events')] = events[Len(events)]
      /\ events' = << >> => Head(events) = events[Len(events)]
  <2>1. /\ events \in Seq({"changed", "deleted"}) /\ events # << >> /\ events' = Tail(events)
        /\ overlapped' = (overlapped \/ refreshes # << >>)
    BY DEF ReceiveEvent, DecorationsInv
  <2>2. /\ Len(events) \in Nat \ {0} /\ Head(events) = events[1]
        /\ events' \in Seq({"changed", "deleted"}) /\ Len(events') = Len(events) - 1
        /\ \A i \in 1..Len(events') : events'[i] = events[i + 1]
    BY <2>1, HeadTailProperties, EmptySeq
  <2>3. events' # << >> => Len(events') \in 1..Len(events')
    BY <2>2, EmptySeq
  <2>4. events' = << >> => Len(events) = 1
    BY <2>2
  <2> QED BY <2>1, <2>2, <2>3, <2>4
<1>3. CASE Head(events) = "changed"
  <2> DEFINE refresh == [done |-> FALSE, classes |-> NoClasses]
  <2>1. refreshes' = Append(refreshes, refresh) /\ bySourcemap' = bySourcemap /\ shown' = shown
    BY <1>3 DEF ReceiveEvent
  <2>2. IsMap(refresh.classes) /\ ~refresh.done
    BY NothingToFlatten
  <2> HIDE DEF refresh
  <2>3. RefreshesAreMaps'
    <3>1. PICK R : refreshes \in Seq(R) /\ \A r \in R : IsMap(r.classes)
      BY DEF DecorationsInv, RefreshesAreMaps
    <3>2. refreshes' \in Seq(R \cup {refresh}) /\ \A r \in R \cup {refresh} : IsMap(r.classes)
      BY <2>1, <2>2, <3>1
    <3> QED BY <3>2 DEF RefreshesAreMaps
  <2>4. ASSUME ~overlapped' PROVE OnTheWay'
    <3>1. refreshes = << >> /\ OnTheWay
      BY <1>2, <2>4 DEF DecorationsInv
    <3>2. refreshes' = <<refresh>>
      BY <2>1, <3>1
    <3> QED BY <1>1, <1>2, <2>2, <3>1, <3>2 DEF OnTheWay
  <2> QED BY <1>1, <1>2, <2>1, <2>3, <2>4 DEF DecorationsInv
<1>4. CASE Head(events) = "deleted"
  <2>1. refreshes' = refreshes /\ bySourcemap' = NoClasses
        /\ shown' = Redraw(shown, Affected(bySourcemap, NoClasses), NoClasses)
    BY <1>4 DEF ReceiveEvent, SetClasses
  <2>2. shown' = bySourcemap' /\ IsMap(bySourcemap')
    BY <2>1, RedrawnIsProvided, NothingToFlatten DEF DecorationsInv
  <2>3. ASSUME ~overlapped' PROVE OnTheWay'
    <3>1. refreshes' = << >> /\ OnTheWay
      BY <1>2, <2>1, <2>3 DEF DecorationsInv
    <3> QED BY <1>1, <1>2, <1>4, <2>1, <3>1, NothingToFlatten DEF OnTheWay
  <2> QED BY <1>1, <1>2, <2>1, <2>2, <2>3 DEF DecorationsInv, RefreshesAreMaps
<1> QED BY <1>3, <1>4 DEF ReceiveEvent

LEMMA ReadsKeeps ==
    ASSUME DecorationsInv, NEW i \in DOMAIN refreshes, RefreshReads(i)
    PROVE  DecorationsInv'
<1>1. /\ WatcherInv' /\ FutureCalls' /\ (Writing <=> Writing') /\ sourcemap' = sourcemap
      /\ events' = events /\ bySourcemap' = bySourcemap /\ shown' = shown
      /\ overlapped' = overlapped
  BY WatcherStays DEF RefreshReads, watcherVars
<1>2. PICK classes : /\ refreshes' = [refreshes EXCEPT ![i] = [done |-> TRUE, classes |-> classes]]
                     /\ classes = Flatten(sourcemap.nodes) \/ (Writing /\ classes = NoClasses)
  BY DEF RefreshReads, Writing
<1> DEFINE read == [done |-> TRUE, classes |-> classes]
<1>3. read.done /\ read.classes = classes /\ IsMap(read.classes)
  BY <1>2, FlattenIsMap, NothingToFlatten
<1> HIDE DEF read
<1>4. PICK R : refreshes \in Seq(R) /\ \A r \in R : IsMap(r.classes)
  BY DEF DecorationsInv, RefreshesAreMaps
<1>5. /\ refreshes' \in Seq(R \cup {read}) /\ \A r \in R \cup {read} : IsMap(r.classes)
      /\ DOMAIN refreshes' = DOMAIN refreshes
      /\ refreshes'[i] = read
  <2>1. refreshes \in Seq(R \cup {read}) /\ i \in 1..Len(refreshes)
    BY <1>4, SeqMonotonic, LenProperties
  <2>2. refreshes' = [refreshes EXCEPT ![i] = read]
    BY <1>2 DEF read
  <2> QED BY <1>3, <1>4, <2>1, <2>2, ExceptSeq, LenProperties
<1>6. ASSUME ~overlapped' PROVE OnTheWay'
  <2>1. OnTheWay /\ i = 1
    BY <1>1, <1>6 DEF DecorationsInv, OnTheWay
  <2>2. refreshes' # << >>
    BY <1>5, EmptySeq
  <2> QED BY <1>1, <1>2, <1>3, <1>5, <2>1, <2>2 DEF OnTheWay
<1> QED BY <1>1, <1>5, <1>6 DEF DecorationsInv, RefreshesAreMaps

LEMMA LandsKeeps ==
    ASSUME DecorationsInv, NEW i \in DOMAIN refreshes, RefreshLands(i)
    PROVE  DecorationsInv'
<1> DEFINE before == SubSeq(refreshes, 1, i - 1)
           behind == SubSeq(refreshes, i + 1, Len(refreshes))
<1>1. /\ WatcherInv' /\ FutureCalls' /\ (Writing <=> Writing') /\ sourcemap' = sourcemap
      /\ events' = events /\ overlapped' = overlapped
      /\ refreshes[i].done
      /\ bySourcemap' = refreshes[i].classes
      /\ shown' = Redraw(shown, Affected(bySourcemap, refreshes[i].classes), refreshes[i].classes)
      /\ refreshes' = before \o behind
  BY WatcherStays DEF RefreshLands, SetClasses, watcherVars
<1>2. PICK R : refreshes \in Seq(R) /\ \A r \in R : IsMap(r.classes)
  BY DEF DecorationsInv, RefreshesAreMaps
<1>3. /\ Len(refreshes) \in Nat /\ i \in 1..Len(refreshes)
      /\ \A k \in 1..Len(refreshes) : refreshes[k] \in R
  BY <1>2, LenProperties, ElementOfSeq
<1>4. before \in Seq(R) /\ behind \in Seq(R)
  BY <1>3, SubSeqProperties
<1>5. refreshes' \in Seq(R)
  BY <1>1, <1>4, ConcatProperties
<1>6. shown' = bySourcemap' /\ IsMap(bySourcemap')
  BY <1>1, <1>2, <1>3, RedrawnIsProvided DEF DecorationsInv
<1>7. ASSUME ~overlapped' PROVE OnTheWay'
  <2>1. OnTheWay /\ \A k \in 1..Len(refreshes) : k = 1
    BY <1>1, <1>2, <1>7, LenProperties DEF DecorationsInv, OnTheWay
  <2>2. i = 1 /\ Len(refreshes) = 1 /\ refreshes # << >>
    BY <1>3, <2>1
  <2>3. before = << >> /\ behind = << >>
    BY <2>2, SubSeqEmpty
  <2>4. refreshes' = << >>
    BY <1>1, <2>3
  <2> QED BY <1>1, <2>1, <2>2, <2>4 DEF OnTheWay
<1> QED BY <1>1, <1>2, <1>5, <1>6, <1>7 DEF DecorationsInv, RefreshesAreMaps

LEMMA DeleteKeeps == DecorationsInv /\ DeleteSourcemap => DecorationsInv'
<1> SUFFICES ASSUME DecorationsInv, DeleteSourcemap PROVE DecorationsInv'
  OBVIOUS
<1>1. WatcherInv' /\ FutureCalls'
  BY WatcherStays DEF DeleteSourcemap
<1>2. /\ sourcemap'.nodes = << >>
      /\ events' = Append(events, "deleted")
      /\ refreshes' = refreshes /\ bySourcemap' = bySourcemap /\ shown' = shown
      /\ overlapped' = overlapped
  BY DEF DeleteSourcemap, NoSourcemap
<1>3. events' \in Seq({"changed", "deleted"}) /\ events' # << >>
  BY <1>2 DEF DecorationsInv
<1> QED BY <1>1, <1>2, <1>3 DEF DecorationsInv, RefreshesAreMaps, OnTheWay

\* The Explorer draws what the provider would answer for every file, and both are what
\* the sourcemap says once the events are handled, whatever was saved, deleted, failed
\* or switched off on the way; unless two refreshes were in flight at once.
\* (scriptTypeDecorations.ts:94, :107)
THEOREM ExplorerFollowsSourcemap == Spec => []DecorationsFollow
<1>1. DecorationsInv /\ [Next]_vars => DecorationsInv'
  <2> SUFFICES ASSUME DecorationsInv, [Next]_vars PROVE DecorationsInv'
    OBVIOUS
  <2>1. CASE Generate
    BY <2>1, GenerateKeeps
  <2>2. CASE ReceiveEvent \/ DeleteSourcemap
    BY <2>2, ReceiveKeeps, DeleteKeeps
  <2>3. ASSUME NEW i \in DOMAIN refreshes, RefreshReads(i) \/ RefreshLands(i)
        PROVE  DecorationsInv'
    BY <2>3, ReadsKeeps, LandsKeeps
  <2>4. CASE UNCHANGED vars
    <3>1. /\ UNCHANGED <<started, gen, registered>> /\ sourcemap' = sourcemap
          /\ UNCHANGED decorationVars
      BY <2>4 DEF vars, watcherVars
    <3> QED BY <3>1, WatcherStays DEF decorationVars, DecorationsInv, RefreshesAreMaps, OnTheWay
  <2> QED BY <2>1, <2>2, <2>3, <2>4 DEF Next, Decorations
<1>2. DecorationsInv => DecorationsFollow
  BY DEF DecorationsInv, OnTheWay, DecorationsFollow, DrawnIsProvided, Writing
<1> QED BY DecorationsInitially, <1>1, <1>2, PTL DEF Spec

-----------------------------------------------------------------------------
(* The language client                                                     *)

Times == Seq(Nat)

\* A call that has not created its client yet.
Unborn(s) == call[s] \in {"none", "stopping", "preparing", "fetched"}

ClientShape ==
    /\ DOMAIN call = Calls /\ DOMAIN state = Calls /\ DOMAIN awaited = Calls
    /\ called \in 0..MaxCalls
    /\ client \in 0..called
    /\ now \in Nat
    /\ restarts \in [Calls -> Times]
    /\ granted \in [Calls -> Times]
    /\ \A s \in Calls : Unborn(s) => state[s] = "none"
    /\ \A s \in Calls : s > called => call[s] = "none"

-----------------------------------------------------------------------------
(* One server                                                              *)

\* A call that is past stopping the old server found none, and holds the commands back
\* until its own is there.
Alone ==
    /\ owner \in {0, client}
    /\ \A s \in Calls :
           /\ UnderWay(s) => s = called
           /\ HasServer(s) => s = client
           /\ call[s] \in {"stopping", "preparing", "fetched"} => owner = 0
           /\ call[s] = "stopping" => awaited[s] = client
           /\ call[s] \in {"preparing", "fetched"} => \A t \in Calls : ~HasServer(t)

-----------------------------------------------------------------------------
(* Crash loops                                                             *)

\* The handler of a server that may exit again remembers when it was restarted last, up
\* to MaxRestartCount times.
IsMemory(known, all) ==
    /\ Len(known) <= MaxRestartCount /\ Len(known) <= Len(all)
    /\ Len(known) < Len(all) => Len(known) = MaxRestartCount
    /\ \A i \in 1..Len(known) : known[i] = all[(Len(all) - Len(known)) + i]

RestartsAreRemembered ==
    \A s \in Calls : state[s] \in {"none", "starting", "running"} => IsMemory(restarts[s], granted[s])

ClientInv ==
    /\ ClientShape
    /\ ~concurrent => Alone
    /\ RestartsAreRemembered
    /\ CrashLoopsEnd

\* The list of exits once it was too long.
LEMMA OldestIsDropped ==
    ASSUME NEW all \in Times, NEW time \in Nat
    PROVE  LET longer == Append(all, time)
           IN /\ longer \in Times /\ Len(longer) = Len(all) + 1 /\ longer[Len(all) + 1] = time
              /\ \A i \in 1..Len(all) : longer[i] = all[i]
              /\ DropOldest(longer) \in Times /\ Len(DropOldest(longer)) = Len(all)
              /\ \A i \in 1..Len(all) : DropOldest(longer)[i] = longer[i + 1]
<1> DEFINE longer == Append(all, time)
<1>1. /\ longer \in Times /\ Len(longer) = Len(all) + 1 /\ longer[Len(all) + 1] = time
      /\ \A i \in 1..Len(all) : longer[i] = all[i]
      /\ longer # << >>
  BY AppendProperties DEF Times
<1>2. /\ Tail(longer) \in Times /\ Len(Tail(longer)) = Len(longer) - 1
      /\ \A i \in 1..Len(Tail(longer)) : Tail(longer)[i] = longer[i + 1]
  BY <1>1, HeadTailProperties DEF Times
<1>3. Len(all) \in Nat
  BY LenProperties DEF Times
<1> QED BY <1>1, <1>2, <1>3 DEF DropOldest

LEMMA MemoryGrows ==
    ASSUME NEW known \in Times, NEW all \in Times, NEW time \in Nat, IsMemory(known, all)
    PROVE  /\ Len(known) < MaxRestartCount => IsMemory(Append(known, time), Append(all, time))
           /\ Len(known) = MaxRestartCount
              => IsMemory(DropOldest(Append(known, time)), Append(all, time))
<1> USE ClientAssumption
<1> DEFINE longer == Append(known, time)
           longerAll == Append(all, time)
           kept == DropOldest(longer)
<1>1. /\ Len(known) \in Nat /\ Len(all) \in Nat
      /\ Len(longer) = Len(known) + 1 /\ longer[Len(known) + 1] = time
      /\ \A i \in 1..Len(known) : longer[i] = known[i]
      /\ Len(kept) = Len(known)
      /\ \A i \in 1..Len(known) : kept[i] = longer[i + 1]
      /\ Len(longerAll) = Len(all) + 1 /\ longerAll[Len(all) + 1] = time
      /\ \A i \in 1..Len(all) : longerAll[i] = all[i]
  BY OldestIsDropped, LenProperties DEF Times
<1> HIDE DEF longer, longerAll, kept
<1>2. ASSUME Len(known) < MaxRestartCount PROVE IsMemory(longer, longerAll)
  <2>1. Len(known) = Len(all) /\ \A i \in 1..Len(known) : known[i] = all[i]
    <3>1. Len(known) = Len(all)
      BY <1>1, <1>2 DEF IsMemory
    <3>2. \A i \in 1..Len(known) : (Len(all) - Len(known)) + i = i
      BY <1>1, <3>1
    <3> QED BY <3>1, <3>2 DEF IsMemory
  <2> QED BY <1>1, <1>2, <2>1 DEF IsMemory
<1>3. ASSUME Len(known) = MaxRestartCount PROVE IsMemory(kept, longerAll)
  <2> DEFINE shift == Len(all) - Len(known)
  <2>1. shift \in Nat /\ \A i \in 1..Len(known) : known[i] = all[shift + i]
    BY <1>1 DEF IsMemory
  <2>2. ASSUME NEW i \in 1..Len(known) PROVE kept[i] = longerAll[(shift + 1) + i]
    <3>1. CASE i = Len(known)
      BY <1>1, <2>2, <3>1
    <3>2. CASE i # Len(known)
      <4>1. kept[i] = known[i + 1] /\ known[i + 1] = all[shift + (i + 1)]
        BY <1>1, <2>1, <2>2, <3>2
      <4>2. shift + (i + 1) \in 1..Len(all) /\ shift + (i + 1) = (shift + 1) + i
        BY <1>1, <2>1, <2>2, <3>2
      <4> QED BY <1>1, <4>1, <4>2
    <3> QED BY <3>1, <3>2
  <2>3. Len(longerAll) - Len(kept) = shift + 1
    BY <1>1
  <2> QED BY <1>1, <1>3, <2>1, <2>2, <2>3 DEF IsMemory
<1> QED BY <1>2, <1>3 DEF longer, longerAll, kept

LEMMA ClientInitially == ClientInit => ClientInv
<1> SUFFICES ASSUME ClientInit PROVE ClientInv
  OBVIOUS
<1> USE ClientAssumption
<1>1. /\ \A s \in Calls : /\ call[s] = "none" /\ state[s] = "none"
                          /\ restarts[s] = << >> /\ granted[s] = << >>
      /\ called = 0 /\ client = 0 /\ owner = 0 /\ now = 0
  BY DEF ClientInit
<1>2. ClientShape
  <2>1. << >> \in Times
    BY DEF Times
  <2>2. restarts \in [Calls -> Times] /\ granted \in [Calls -> Times]
    BY <2>1 DEF ClientInit
  <2>3. DOMAIN call = Calls /\ DOMAIN state = Calls /\ DOMAIN awaited = Calls
    BY DEF ClientInit
  <2> QED BY <1>1, <2>2, <2>3 DEF ClientShape, Unborn
<1>3. Alone
  BY <1>1 DEF Alone, UnderWay, HasServer
<1>4. RestartsAreRemembered /\ CrashLoopsEnd
  <2>1. Len(<< >>) = 0 /\ DOMAIN << >> = {}
    OBVIOUS
  <2>2. IsMemory(<< >>, << >>)
    BY <2>1 DEF IsMemory
  <2>3. CrashLoopsEnd
    BY <1>1, <2>1 DEF CrashLoopsEnd
  <2> QED BY <1>1, <2>2, <2>3 DEF RestartsAreRemembered
<1> QED BY <1>2, <1>3, <1>4 DEF ClientInv

\* An exit that is followed by a restart: the oldest exit that is remembered is the one
\* MaxRestartCount restarts ago.
LEMMA RestartIsSpaced ==
    ASSUME ClientInv, NEW s \in Calls, ServerExits(s)
    PROVE  /\ restarts' \in [Calls -> Times] /\ granted' \in [Calls -> Times]
           /\ RestartsAreRemembered'
           /\ CrashLoopsEnd'
<1> DEFINE times == Append(restarts[s], now)
           tooMany == Len(times) > MaxRestartCount
           loop == tooMany /\ times[Len(times)] - times[1] <= Window
<1> USE ClientAssumption
<1>1. /\ state[s] = "running"
      /\ restarts' = [restarts EXCEPT ![s] = IF tooMany /\ ~loop THEN DropOldest(times) ELSE times]
      /\ state' = [state EXCEPT ![s] = IF loop THEN "stopped" ELSE "starting"]
      /\ granted' = [granted EXCEPT ![s] = IF loop THEN granted[s] ELSE Append(granted[s], now)]
  BY DEF ServerExits
<1>2. /\ DOMAIN state = Calls /\ restarts \in [Calls -> Times] /\ granted \in [Calls -> Times]
      /\ now \in Nat /\ restarts[s] \in Times /\ granted[s] \in Times
  BY DEF ClientInv, ClientShape
<1>3. IsMemory(restarts[s], granted[s])
  BY <1>1 DEF ClientInv, RestartsAreRemembered
<1>4. /\ times \in Times /\ Len(times) = Len(restarts[s]) + 1
      /\ DropOldest(times) \in Times
      /\ times[Len(times)] = now
      /\ \A i \in 1..Len(restarts[s]) : times[i] = restarts[s][i]
  BY <1>2, OldestIsDropped
<1>5. Len(restarts[s]) \in 0..MaxRestartCount
  BY <1>2, <1>3, LenProperties DEF IsMemory, Times
<1> HIDE DEF times
<1>6. CASE loop
  <2>1. /\ restarts' = [restarts EXCEPT ![s] = times] /\ granted' = granted
        /\ state' = [state EXCEPT ![s] = "stopped"]
    BY <1>1, <1>2, <1>6
  <2>2. /\ restarts' \in [Calls -> Times] /\ state'[s] = "stopped"
        /\ \A t \in Calls \ {s} : restarts'[t] = restarts[t] /\ state'[t] = state[t]
    BY <1>2, <1>4, <2>1
  <2>3. RestartsAreRemembered'
    BY <2>1, <2>2 DEF ClientInv, RestartsAreRemembered
  <2>4. CrashLoopsEnd'
    BY <2>1 DEF ClientInv, CrashLoopsEnd
  <2> QED BY <1>2, <2>1, <2>2, <2>3, <2>4
<1>7. CASE ~loop
  <2> DEFINE kept == IF tooMany THEN DropOldest(times) ELSE times
             all == Append(granted[s], now)
  <2>1. /\ restarts' = [restarts EXCEPT ![s] = kept]
        /\ granted' = [granted EXCEPT ![s] = all]
        /\ state' = [state EXCEPT ![s] = "starting"]
    BY <1>1, <1>7
  <2>2. kept \in Times /\ all \in Times
    BY <1>2, <1>4, OldestIsDropped
  <2>3. IsMemory(kept, all)
    BY <1>2, <1>3, <1>4, <1>5, MemoryGrows DEF times
  <2>4. /\ Len(all) = Len(granted[s]) + 1 /\ all[Len(granted[s]) + 1] = now
        /\ \A i \in 1..Len(granted[s]) : all[i] = granted[s][i]
        /\ Len(granted[s]) \in Nat
        /\ DOMAIN granted[s] = 1..Len(granted[s]) /\ DOMAIN all = 1..Len(all)
    BY <1>2, <2>2, OldestIsDropped, LenProperties DEF Times
  <2> HIDE DEF kept, all
  <2>5. /\ restarts' \in [Calls -> Times] /\ granted' \in [Calls -> Times]
        /\ restarts'[s] = kept /\ granted'[s] = all
        /\ \A t \in Calls \ {s} : /\ restarts'[t] = restarts[t] /\ granted'[t] = granted[t]
                                  /\ state'[t] = state[t]
    BY <1>2, <2>1, <2>2
  <2>6. ASSUME NEW i \in 1..Len(granted[s]), i + MaxRestartCount = Len(granted[s]) + 1
        PROVE  now - granted[s][i] > Window
    <3>1. Len(restarts[s]) = MaxRestartCount
      <4>1. MaxRestartCount <= Len(granted[s])
        BY <2>4, <2>6
      <4> QED BY <1>3, <1>5, <2>4, <4>1 DEF IsMemory
    <3>2. times[1] = restarts[s][1] /\ restarts[s][1] = granted[s][i]
      <4>1. (Len(granted[s]) - Len(restarts[s])) + 1 = i /\ 1 \in 1..Len(restarts[s])
        BY <2>4, <2>6, <3>1
      <4> QED BY <1>3, <1>4, <4>1 DEF IsMemory
    <3>3. tooMany
      BY <1>4, <3>1
    <3>4. granted[s][i] \in Nat
      BY <1>2, <2>4, <2>6, ElementOfSeq DEF Times
    <3> QED BY <1>2, <1>4, <1>7, <3>2, <3>3, <3>4
  <2>7. CrashLoopsEnd'
    <3> SUFFICES ASSUME NEW t \in Calls, NEW i \in DOMAIN granted'[t],
                        i + MaxRestartCount \in DOMAIN granted'[t]
                 PROVE  granted'[t][i + MaxRestartCount] - granted'[t][i] > Window
      BY DEF CrashLoopsEnd
    <3>1. CASE t # s
      BY <2>5, <3>1 DEF ClientInv, CrashLoopsEnd
    <3>2. CASE t = s
      <4>1. i \in 1..Len(granted[s]) /\ i + MaxRestartCount \in 1..Len(granted[s]) + 1
        BY <2>4, <2>5, <3>2
      <4>2. CASE i + MaxRestartCount <= Len(granted[s])
        <5>1. i \in DOMAIN granted[s] /\ i + MaxRestartCount \in DOMAIN granted[s]
          BY <2>4, <4>1, <4>2
        <5>2. granted[s][i + MaxRestartCount] - granted[s][i] > Window
          BY <5>1 DEF ClientInv, CrashLoopsEnd
        <5> QED BY <2>4, <2>5, <3>2, <5>1, <5>2
      <4>3. CASE i + MaxRestartCount = Len(granted[s]) + 1
        BY <2>4, <2>5, <2>6, <3>2, <4>1, <4>3
      <4> QED BY <2>4, <4>1, <4>2, <4>3
    <3> QED BY <3>1, <3>2
  <2>8. RestartsAreRemembered'
    BY <2>3, <2>5 DEF ClientInv, RestartsAreRemembered
  <2> QED BY <2>5, <2>7, <2>8
<1> QED BY <1>6, <1>7

-----------------------------------------------------------------------------
(* Every step                                                              *)

\* The steps that restart no server leave its memory as it is.
LEMMA MemoryStays ==
    ASSUME ClientInv, UNCHANGED <<restarts, granted>>,
           \A s \in Calls : state'[s] \in {"starting", "running", "none"}
                            => state[s] \in {"starting", "running", "none"}
    PROVE  RestartsAreRemembered' /\ CrashLoopsEnd'
BY DEF ClientInv, RestartsAreRemembered, CrashLoopsEnd

LEMMA CallKeeps == ClientInv /\ Call => ClientInv'
<1> SUFFICES ASSUME ClientInv, Call PROVE ClientInv'
  OBVIOUS
<1> USE ClientAssumption
<1> DEFINE new == called + 1
           where == IF client = 0 THEN "preparing" ELSE AfterStop(client)
<1>1. /\ called < MaxCalls /\ called' = new /\ owner' = 0 /\ client' = client
      /\ concurrent' = (concurrent \/ \E s \in Calls : UnderWay(s))
      /\ call' = [call EXCEPT ![new] = where]
      /\ awaited' = [awaited EXCEPT ![new] = client]
      /\ state' = IF client # 0 /\ state[client] = "running"
                  THEN [state EXCEPT ![client] = "stopping"] ELSE state
      /\ UNCHANGED <<restarts, granted, now>>
  BY DEF Call
<1>2. /\ ClientShape
      /\ new \in Calls /\ state[new] = "none" /\ call[new] = "none"
      /\ client # 0 => client \in Calls
  BY <1>1 DEF ClientInv, ClientShape, Calls, Unborn
<1>3. /\ where \in {"preparing", "failed", "stopping"}
      /\ where = "preparing" => client = 0 \/ state[client] \in {"initial", "stopped"}
  BY DEF AfterStop, StopRejects, StopResolvesAtOnce
<1> HIDE DEF where
<1>4. /\ DOMAIN call' = Calls /\ DOMAIN awaited' = Calls /\ DOMAIN state' = Calls
      /\ call'[new] = where /\ awaited'[new] = client
      /\ \A s \in Calls \ {new} : call'[s] = call[s]
      /\ \A s \in Calls : \/ state'[s] = state[s]
                          \/ s = client /\ state[s] = "running" /\ state'[s] = "stopping"
  BY <1>1, <1>2 DEF ClientShape
<1>5. ClientShape'
  <2>1. new \in 0..MaxCalls /\ client' \in 0..new
    BY <1>1, <1>2 DEF ClientShape
  <2>2. \A s \in Calls : s > new => s > called /\ s # new
    BY <1>2 DEF ClientShape, Calls
  <2> QED BY <1>1, <1>2, <1>4, <2>1, <2>2 DEF ClientShape, Unborn
<1>6. ASSUME ~concurrent' PROVE Alone'
  <2>1. Alone /\ \A s \in Calls : ~UnderWay(s)
    BY <1>1, <1>6 DEF ClientInv
  <2>2. \A s \in Calls : HasServer(s)' => HasServer(s) /\ s = client
    BY <1>4, <2>1 DEF Alone, HasServer
  <2>3. \A s \in Calls \ {new} : ~UnderWay(s)'
    BY <1>4, <2>1 DEF UnderWay
  <2>4. where = "preparing" => \A t \in Calls : ~HasServer(t)
    BY <1>3, <2>1 DEF Alone, HasServer, Calls
  <2> QED BY <1>1, <1>3, <1>4, <2>2, <2>3, <2>4 DEF Alone, UnderWay, HasServer
<1>7. RestartsAreRemembered' /\ CrashLoopsEnd'
  BY <1>1, <1>4, MemoryStays
<1> QED BY <1>5, <1>6, <1>7 DEF ClientInv

LEMMA StoppedKeeps ==
    ASSUME ClientInv, NEW c \in Calls, Stopped(c)
    PROVE  ClientInv'
<1>1. /\ state[c] = "stopping" /\ state' = [state EXCEPT ![c] = "stopped"]
      /\ call' = [s \in Calls |-> IF call[s] = "stopping" /\ awaited[s] = c THEN "preparing" ELSE call[s]]
      /\ UNCHANGED <<called, client, owner, awaited, concurrent, restarts, granted, now>>
      /\ ClientShape
  BY DEF Stopped, ClientInv
<1>2. /\ state'[c] = "stopped" /\ \A s \in Calls \ {c} : state'[s] = state[s]
      /\ DOMAIN state' = Calls
      /\ \A s \in Calls : \/ call'[s] = call[s]
                          \/ /\ call[s] = "stopping" /\ awaited[s] = c /\ call'[s] = "preparing"
      /\ \A s \in Calls : call[s] = "stopping" /\ awaited[s] = c => call'[s] = "preparing"
  BY <1>1 DEF ClientShape
<1>3. ClientShape'
  BY <1>1, <1>2 DEF ClientShape, Unborn
<1>4. ASSUME ~concurrent' PROVE Alone'
  <2>1. Alone /\ c = client
    BY <1>1, <1>4 DEF ClientInv, Alone, HasServer
  <2>2. \A t \in Calls : ~HasServer(t)'
    BY <1>2, <2>1 DEF Alone, HasServer
  <2> QED BY <1>1, <1>2, <2>1, <2>2 DEF Alone, UnderWay
<1>5. RestartsAreRemembered' /\ CrashLoopsEnd'
  BY <1>1, <1>2, MemoryStays
<1> QED BY <1>3, <1>4, <1>5 DEF ClientInv

LEMMA DownloadKeeps ==
    ASSUME ClientInv, NEW s \in Calls, Download(s)
    PROVE  ClientInv'
<1>1. /\ call[s] = "preparing" /\ call' = [call EXCEPT ![s] = "fetched"]
      /\ UNCHANGED <<called, client, owner, awaited, concurrent, state, restarts, granted, now>>
      /\ ClientShape
  BY DEF Download, ClientInv, serverVars
<1>2. /\ DOMAIN call' = Calls /\ call'[s] = "fetched"
      /\ \A t \in Calls \ {s} : call'[t] = call[t]
  BY <1>1 DEF ClientShape
<1>3. ClientShape'
  BY <1>1, <1>2 DEF ClientShape, Unborn
<1>4. (~concurrent => Alone)'
  BY <1>1, <1>2 DEF ClientInv, Alone, UnderWay, HasServer
<1>5. RestartsAreRemembered' /\ CrashLoopsEnd'
  BY <1>1, MemoryStays
<1> QED BY <1>3, <1>4, <1>5 DEF ClientInv

LEMMA CreateKeeps ==
    ASSUME ClientInv, NEW s \in Calls, Create(s)
    PROVE  ClientInv'
<1>1. /\ call[s] = "fetched" /\ client' = s
      /\ UNCHANGED <<called, awaited, concurrent, restarts, granted, now>>
      /\ \/ /\ owner = 0 /\ owner' = s
            /\ state' = [state EXCEPT ![s] = "starting"] /\ call' = [call EXCEPT ![s] = "starting"]
         \/ /\ owner # 0 /\ owner' = owner
            /\ state' = [state EXCEPT ![s] = "initial"] /\ call' = [call EXCEPT ![s] = "failed"]
      /\ ClientShape
  BY DEF Create, ClientInv
<1>2. /\ DOMAIN call' = Calls /\ DOMAIN state' = Calls
      /\ \A t \in Calls \ {s} : call'[t] = call[t] /\ state'[t] = state[t]
      /\ \/ owner = 0 /\ state'[s] = "starting" /\ call'[s] = "starting"
         \/ owner # 0 /\ state'[s] = "initial" /\ call'[s] = "failed"
  BY <1>1 DEF ClientShape
<1>3. state[s] = "none" /\ s <= called /\ s \in 0..called
  BY <1>1 DEF ClientShape, Unborn, Calls
<1>4. ClientShape'
  BY <1>1, <1>2, <1>3 DEF ClientShape, Unborn
<1>5. ASSUME ~concurrent' PROVE Alone'
  <2>1. Alone /\ owner = 0 /\ s = called /\ \A t \in Calls : ~HasServer(t)
    BY <1>1, <1>5 DEF ClientInv, Alone, UnderWay
  <2>2. \A t \in Calls \ {s} : ~HasServer(t)' /\ ~UnderWay(t)'
    BY <1>2, <2>1 DEF Alone, HasServer, UnderWay
  <2> QED BY <1>1, <1>2, <2>1, <2>2 DEF Alone, UnderWay
<1>6. RestartsAreRemembered' /\ CrashLoopsEnd'
  BY <1>1, <1>2, <1>3, MemoryStays
<1> QED BY <1>4, <1>5, <1>6 DEF ClientInv

LEMMA StartsKeeps ==
    ASSUME ClientInv, NEW s \in Calls, ServerStarts(s)
    PROVE  ClientInv'
<1>1. /\ state[s] = "starting"
      /\ UNCHANGED <<called, client, owner, awaited, concurrent, restarts, granted, now>>
      /\ ClientShape
  BY DEF ServerStarts, ClientInv
<1>2. /\ DOMAIN call' = Calls /\ DOMAIN state' = Calls
      /\ \A t \in Calls \ {s} : call'[t] = call[t] /\ state'[t] = state[t]
      /\ state'[s] \in {"running", "failed"}
      /\ call'[s] = call[s] \/ (call[s] = "starting" /\ call'[s] \in {"done", "failed"})
  BY <1>1 DEF ServerStarts, ClientShape
<1>3. ~Unborn(s)
  BY <1>1 DEF ClientShape
<1>4. ClientShape'
  BY <1>1, <1>2, <1>3 DEF ClientShape, Unborn
<1>5. ASSUME ~concurrent' PROVE Alone'
  <2>1. Alone
    BY <1>1, <1>5 DEF ClientInv
  <2>2. \A t \in Calls : (HasServer(t)' => HasServer(t)) /\ (UnderWay(t)' => UnderWay(t))
    BY <1>1, <1>2 DEF HasServer, UnderWay
  <2> QED BY <1>1, <1>2, <2>1, <2>2 DEF Alone
<1>6. RestartsAreRemembered' /\ CrashLoopsEnd'
  BY <1>1, <1>2, MemoryStays
<1> QED BY <1>4, <1>5, <1>6 DEF ClientInv

LEMMA ExitsKeeps ==
    ASSUME ClientInv, NEW s \in Calls, ServerExits(s)
    PROVE  ClientInv'
<1>1. /\ state[s] = "running"
      /\ UNCHANGED <<called, call, client, owner, awaited, concurrent, now>>
      /\ \E result \in {"stopped", "starting"} : state' = [state EXCEPT ![s] = result]
      /\ ClientShape
  BY DEF ServerExits, ClientInv, startVars
<1>2. /\ DOMAIN state' = Calls /\ \A t \in Calls \ {s} : state'[t] = state[t]
      /\ state'[s] \in {"stopped", "starting"}
  BY <1>1 DEF ClientShape
<1>3. ~Unborn(s)
  BY <1>1 DEF ClientShape
<1>4. ClientShape'
  BY <1>1, <1>2, <1>3, RestartIsSpaced DEF ClientShape, Unborn
<1>5. (~concurrent => Alone)'
  BY <1>1, <1>2 DEF ClientInv, Alone, UnderWay, HasServer
<1> QED BY <1>4, <1>5, RestartIsSpaced DEF ClientInv

LEMMA DeactivateKeeps == ClientInv /\ Deactivate => ClientInv'
<1> SUFFICES ASSUME ClientInv, Deactivate PROVE ClientInv'
  OBVIOUS
<1>1. /\ owner' = 0
      /\ UNCHANGED <<called, call, client, awaited, concurrent, restarts, granted, now>>
      /\ ClientShape
  BY DEF Deactivate, ClientInv
<1>2. /\ DOMAIN state' = Calls
      /\ \A s \in Calls : \/ state'[s] = state[s]
                          \/ s = client /\ state[s] = "running" /\ state'[s] = "stopping"
  BY DEF Deactivate, ClientInv, ClientShape
<1>3. ClientShape'
  BY <1>1, <1>2 DEF ClientShape, Unborn
<1>4. (~concurrent => Alone)'
  BY <1>1, <1>2 DEF ClientInv, Alone, UnderWay, HasServer
<1>5. RestartsAreRemembered' /\ CrashLoopsEnd'
  BY <1>1, <1>2, MemoryStays
<1> QED BY <1>3, <1>4, <1>5 DEF ClientInv

LEMMA ClientInvariant == ClientSpec => []ClientInv
<1>1. ClientInv /\ [ClientNext]_clientVars => ClientInv'
  <2> SUFFICES ASSUME ClientInv, [ClientNext]_clientVars PROVE ClientInv'
    OBVIOUS
  <2>1. CASE Clock \/ UNCHANGED clientVars
    <3>1. /\ UNCHANGED <<called, call, client, owner, awaited, concurrent, state, restarts, granted>>
          /\ now' \in Nat
      BY <2>1 DEF Clock, clientVars, startVars, serverVars, ClientInv, ClientShape
    <3> QED BY <3>1 DEF ClientInv, ClientShape, Unborn, Alone, UnderWay, HasServer,
                        RestartsAreRemembered, CrashLoopsEnd
  <2>2. CASE Call \/ Deactivate
    BY <2>2, CallKeeps, DeactivateKeeps
  <2>3. ASSUME NEW s \in Calls, \/ Stopped(s) \/ Download(s) \/ Create(s)
                                \/ ServerStarts(s) \/ ServerExits(s)
        PROVE  ClientInv'
    BY <2>3, StoppedKeeps, DownloadKeeps, CreateKeeps, StartsKeeps, ExitsKeeps
  <2> QED BY <2>1, <2>2, <2>3 DEF ClientNext
<1> QED BY ClientInitially, <1>1, PTL DEF ClientSpec

\* A crash loop ends whenever it begins: of any MaxRestartCount restarts in a row and the
\* one behind them, the last is more than the window after the first.  (extension.ts:151)
THEOREM NoCrashLoop == ClientSpec => []CrashLoopsEnd
<1>1. ClientInv => CrashLoopsEnd
  BY DEF ClientInv
<1> QED BY ClientInvariant, <1>1, PTL

\* Restarting the server, by command, after a failure or while it stops, leaves no second
\* one behind, as long as the calls do not overlap.  (extension.ts:256)
THEOREM OneServerAtATime == ClientSpec => []OneServer
<1>1. ClientInv => OneServer
  BY DEF ClientInv, Alone, OneServer
<1> QED BY ClientInvariant, <1>1, PTL

-----------------------------------------------------------------------------
(* What a server is called with                                           *)

\* Each of the downloads was there when call s looked, or was tried by it.
Fetched(s) ==
    \/ External(Definitions(settings)) \subseteq storage
    \/ handed[s].tried = External(Definitions(settings))

\* The two halves of SettingsReachTheServer, for one call.
Served(s) ==
    /\ LET d == Definitions(settings)
       IN  \A p \in DOMAIN d :
               d[p].external /\ p \notin {a.package : a \in handed[s].definitions}
               => d[p].name \in handed[s].tried
    /\ \A a \in handed[s].definitions :
           a.package \in DOMAIN settings.user => a.file = settings.user[a.package].name
    /\ \A f \in DOMAIN settings.override : settings.override[f] # "" =>
           f \in DOMAIN handed[s].fflags /\ handed[s].fflags[f] = settings.override[f]

\* Nothing is handed over before the client is created, and then it is as it should be.
HandedInv ==
    /\ DOMAIN handed = Calls
    /\ \A s \in Calls :
           /\ handed[s] = [tried |-> handed[s].tried, definitions |-> handed[s].definitions,
                           fflags |-> handed[s].fflags, created |-> handed[s].created]
           /\ Unborn(s) => ~handed[s].created
           /\ call[s] = "fetched" => Fetched(s)
           /\ handed[s].created => Served(s)

\* The files are looked up and the flags merged as the settings say.
LEMMA CreateServes ==
    ASSUME NEW s \in Calls, Fetched(s), NEW synced,
           handed'[s].tried = handed[s].tried,
           handed'[s].definitions = DefinitionArgs(settings, storage),
           handed'[s].fflags = FFlags(settings, synced),
           settings' = settings
    PROVE  Served(s)'
<1> DEFINE d == Definitions(settings)
<1>1. ASSUME NEW p \in DOMAIN d, d[p].external,
             p \notin {a.package : a \in DefinitionArgs(settings, storage)}
      PROVE  d[p].name \in handed[s].tried
  <2>1. d[p].name \in External(d)
    BY <1>1 DEF External
  <2>2. d[p].name \notin storage
    <3> SUFFICES ASSUME d[p].name \in storage PROVE FALSE
      OBVIOUS
    <3>1. [package |-> p, file |-> d[p].name] \in DefinitionArgs(settings, storage)
      BY <1>1 DEF DefinitionArgs
    <3>2. [package |-> p, file |-> d[p].name].package = p
      OBVIOUS
    <3> QED BY <1>1, <3>1, <3>2
  <2> QED BY <2>1, <2>2 DEF Fetched
<1>2. ASSUME NEW a \in DefinitionArgs(settings, storage), a.package \in DOMAIN settings.user
      PROVE  a.file = settings.user[a.package].name
  <2>1. PICK p \in DOMAIN d : a = [package |-> p, file |-> d[p].name]
    BY <1>2 DEF DefinitionArgs
  <2>2. a.package = p /\ a.file = d[p].name
    BY <2>1
  <2>3. d[p] = settings.user[p]
    BY <1>2, <2>2 DEF Definitions
  <2> QED BY <2>2, <2>3
<1>3. ASSUME NEW f \in DOMAIN settings.override, settings.override[f] # ""
      PROVE  /\ f \in DOMAIN FFlags(settings, synced)
             /\ FFlags(settings, synced)[f] = settings.override[f]
  BY <1>3 DEF FFlags
<1> QED BY <1>1, <1>2, <1>3 DEF Served

\* The steps that neither download nor create.
LEMMA HandedStays ==
    ASSUME HandedInv, UNCHANGED <<handed, settings, storage>>,
           \A s \in Calls : /\ Unborn(s)' => Unborn(s)
                            /\ call'[s] = "fetched" => call[s] = "fetched"
    PROVE  HandedInv'
BY DEF HandedInv, Fetched, Served

LEMMA DownloadHands ==
    ASSUME ClientInv, HandedInv, NEW s \in Calls, Download(s)
    PROVE  HandedInv'
<1> DEFINE external == External(Definitions(settings))
<1>1. /\ call[s] = "preparing" /\ call' = [call EXCEPT ![s] = "fetched"]
      /\ settings' = settings
      /\ \/ /\ handed' = [handed EXCEPT ![s].tried = external]
            /\ \E got \in SUBSET external : storage' = storage \union got
         \/ /\ ~MustDownload(external)
            /\ UNCHANGED <<handed, storage>>
  BY DEF Download
<1>2. DOMAIN call = Calls /\ DOMAIN handed = Calls
  BY DEF ClientInv, ClientShape, HandedInv
<1>3. storage \subseteq storage'
  BY <1>1
<1>4. \A t \in Calls \ {s} : handed'[t] = handed[t] /\ call'[t] = call[t]
  BY <1>1, <1>2
<1>5. ASSUME NEW t \in Calls \ {s}
      PROVE  /\ handed'[t] = [tried |-> handed'[t].tried, definitions |-> handed'[t].definitions,
                              fflags |-> handed'[t].fflags, created |-> handed'[t].created]
             /\ Unborn(t)' => ~handed'[t].created
             /\ call'[t] = "fetched" => Fetched(t)'
             /\ handed'[t].created => Served(t)'
  <2>1. handed'[t] = handed[t] /\ call'[t] = call[t] /\ settings' = settings
    BY <1>1, <1>4
  <2>2. Fetched(t) => Fetched(t)'
    BY <1>3, <2>1 DEF Fetched
  <2>3. Served(t) => Served(t)'
    BY <2>1 DEF Served
  <2> QED BY <2>1, <2>2, <2>3 DEF HandedInv, Unborn
<1>6. /\ handed'[s] = [tried |-> handed'[s].tried, definitions |-> handed[s].definitions,
                       fflags |-> handed[s].fflags, created |-> handed[s].created]
      /\ handed'[s].tried \in {handed[s].tried, external}
      /\ external \subseteq storage \/ handed'[s].tried = external
  BY <1>1, <1>2 DEF HandedInv, MustDownload
<1>7. ~handed'[s].created /\ Fetched(s)'
  BY <1>1, <1>3, <1>6 DEF HandedInv, Unborn, Fetched
<1>8. DOMAIN handed' = Calls
  BY <1>1, <1>2
<1> QED BY <1>5, <1>6, <1>7, <1>8 DEF HandedInv

\* A record of what a server is started with, with another set of definitions.
LEMMA RecordSet ==
    ASSUME NEW row, NEW a, NEW b, NEW c, NEW d, NEW e,
           row = [tried |-> a, definitions |-> b, fflags |-> c, created |-> d]
    PROVE  [row EXCEPT !.definitions = e]
               = [tried |-> a, definitions |-> e, fflags |-> c, created |-> d]
OBVIOUS

LEMMA CreateHands ==
    ASSUME ClientInv, HandedInv, NEW s \in Calls, Create(s)
    PROVE  HandedInv'
<1>1. PICK synced : handed' = [handed EXCEPT ![s].definitions = DefinitionArgs(settings, storage),
                                             ![s].fflags = FFlags(settings, synced),
                                             ![s].created = TRUE]
  BY DEF Create
<1>2. /\ call[s] = "fetched" /\ call'[s] \in {"starting", "failed"}
      /\ \A t \in Calls \ {s} : call'[t] = call[t]
      /\ UNCHANGED <<settings, storage>>
  BY DEF Create, ClientInv, ClientShape
<1>3. /\ DOMAIN handed' = Calls
      /\ \A t \in Calls \ {s} : handed'[t] = handed[t]
  BY <1>1 DEF HandedInv
<1>4. handed'[s] = [tried |-> handed[s].tried, definitions |-> DefinitionArgs(settings, storage),
                    fflags |-> FFlags(settings, synced), created |-> TRUE]
  <2> DEFINE args == DefinitionArgs(settings, storage)
             flags == FFlags(settings, synced)
             one == [handed EXCEPT ![s].definitions = args]
             two == [one EXCEPT ![s].fflags = flags]
             row == handed[s]
             yes == TRUE
  <2>1. row = [tried |-> row.tried, definitions |-> row.definitions,
               fflags |-> row.fflags, created |-> row.created]
    BY DEF HandedInv
  <2>2. DOMAIN one = Calls /\ one[s] = [row EXCEPT !.definitions = args]
    BY DEF HandedInv
  <2>3. handed' = [two EXCEPT ![s].created = yes]
    BY <1>1
  <2> HIDE DEF args, flags, row, yes
  <2>4. one[s] = [tried |-> row.tried, definitions |-> args,
                  fflags |-> row.fflags, created |-> row.created]
    BY <2>1, <2>2, RecordSet
  <2> HIDE DEF one
  <2>5. DOMAIN two = Calls
        /\ two[s] = [tried |-> row.tried, definitions |-> args,
                     fflags |-> flags, created |-> row.created]
    BY <2>2, <2>4
  <2> HIDE DEF two
  <2>6. handed'[s] = [tried |-> row.tried, definitions |-> args, fflags |-> flags, created |-> yes]
    BY <2>3, <2>5
  <2> QED BY <2>6 DEF args, flags, row, yes
<1>5. Served(s)'
  <2>1. Fetched(s)
    BY <1>2 DEF HandedInv
  <2>2. /\ handed'[s].tried = handed[s].tried
        /\ handed'[s].definitions = DefinitionArgs(settings, storage)
        /\ handed'[s].fflags = FFlags(settings, synced)
    BY <1>4
  <2> QED BY <1>2, <2>1, <2>2, CreateServes
<1>6. ASSUME NEW t \in Calls \ {s}
      PROVE  /\ handed'[t] = [tried |-> handed'[t].tried, definitions |-> handed'[t].definitions,
                              fflags |-> handed'[t].fflags, created |-> handed'[t].created]
             /\ Unborn(t)' => ~handed'[t].created
             /\ call'[t] = "fetched" => Fetched(t)'
             /\ handed'[t].created => Served(t)'
  <2>1. handed'[t] = handed[t] /\ call'[t] = call[t] /\ UNCHANGED <<settings, storage>>
    BY <1>2, <1>3
  <2>2. /\ handed[t] = [tried |-> handed[t].tried, definitions |-> handed[t].definitions,
                        fflags |-> handed[t].fflags, created |-> handed[t].created]
        /\ Unborn(t) => ~handed[t].created
        /\ call[t] = "fetched" => Fetched(t)
        /\ handed[t].created => Served(t)
    BY DEF HandedInv
  <2>3. Unborn(t)' = Unborn(t)
    BY <2>1 DEF Unborn
  <2>4. Fetched(t)' = Fetched(t)
    BY <2>1 DEF Fetched
  <2>5. Served(t)' = Served(t)
    BY <2>1 DEF Served
  <2> QED BY <2>1, <2>2, <2>3, <2>4, <2>5
<1> QED BY <1>2, <1>3, <1>4, <1>5, <1>6 DEF HandedInv, Unborn

LEMMA HandedHolds == ClientSpec => []HandedInv
<1>1. ClientInit => HandedInv
  BY DEF ClientInit, HandedInv, Unborn
<1>2. ClientInv /\ HandedInv /\ [ClientNext]_clientVars => HandedInv'
  <2> SUFFICES ASSUME ClientInv, HandedInv, [ClientNext]_clientVars PROVE HandedInv'
    OBVIOUS
  <2> USE DEF startVars, serverVars
  <2>1. CASE Clock \/ Deactivate \/ UNCHANGED clientVars
    <3>1. UNCHANGED <<handed, settings, storage, call>>
      BY <2>1 DEF Clock, Deactivate, clientVars
    <3> QED BY <3>1, HandedStays DEF Unborn
  <2>2. CASE Call
    <3>1. UNCHANGED <<handed, settings, storage>>
      BY <2>2 DEF Call
    <3>2. /\ called + 1 \in Calls /\ call[called + 1] = "none"
      BY <2>2, ClientAssumption DEF Call, ClientInv, ClientShape, Calls
    <3>3. \A s \in Calls : \/ call'[s] = call[s]
                           \/ /\ call[s] = "none"
                              /\ call'[s] \in {"preparing", "failed", "stopping"}
      BY <2>2, <3>2 DEF Call, AfterStop, ClientInv, ClientShape
    <3> QED BY <3>1, <3>3, HandedStays DEF Unborn
  <2>3. ASSUME NEW c \in Calls, Stopped(c)
        PROVE  HandedInv'
    <3>1. /\ UNCHANGED <<handed, settings, storage>>
          /\ \A s \in Calls : call'[s] = call[s] \/ (call[s] = "stopping" /\ call'[s] = "preparing")
      BY <2>3 DEF Stopped
    <3> QED BY <3>1, HandedStays DEF Unborn
  <2>4. ASSUME NEW s \in Calls, ServerStarts(s) \/ ServerExits(s)
        PROVE  HandedInv'
    <3>1. /\ UNCHANGED <<handed, settings, storage>>
          /\ \A t \in Calls : \/ call'[t] = call[t]
                              \/ call[t] = "starting" /\ call'[t] \in {"done", "failed"}
      BY <2>4 DEF ServerStarts, ServerExits, ClientInv, ClientShape
    <3> QED BY <3>1, HandedStays DEF Unborn
  <2>5. ASSUME NEW s \in Calls, Download(s) \/ Create(s)
        PROVE  HandedInv'
    BY <2>5, DownloadHands, CreateHands
  <2> QED BY <2>1, <2>2, <2>3, <2>4, <2>5 DEF ClientNext
<1> QED BY <1>1, <1>2, ClientInvariant, PTL DEF ClientSpec

\* Whatever the settings, the files on disk and the downloads that fail: a server is
\* started with all definition files, or each that is missing was tried by its start,
\* and with the user's files and flags before any other.  (definitions.ts, extension.ts)
THEOREM SettingsAreHandedOver == ClientSpec => []SettingsReachTheServer
<1>1. HandedInv => SettingsReachTheServer
  BY DEF HandedInv, Served, SettingsReachTheServer, MissingDownloadsAreTried, SettingsWin
<1> QED BY HandedHolds, <1>1, PTL

=============================================================================
