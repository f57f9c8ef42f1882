--------------------------- MODULE OvdrjmWatcher ---------------------------
(***************************************************************************)
(* Sourcemap generation in the VS Code extension                           *)
(* (editors/code/src/overdare.ts, editors/code/src/ovdrjmSourcemap.ts).    *)
(* OVERDARE Studio writes the project (.ovdrjm) and exports its scripts to *)
(* Lua/; the extension polls the project file and turns a new version into *)
(* sourcemap.json.  Everything here runs on one JavaScript thread: a step  *)
(* is what happens between two awaits, and the file system, the settings   *)
(* and Studio may move while a call awaits.                                *)
(*                                                                         *)
(* One workspace folder.  Each call of startSourcemapGeneration has a      *)
(* number; it creates at most one watcher, which gets the same number.     *)
(***************************************************************************)
EXTENDS Integers, Sequences, FiniteSets

CONSTANTS
    Tree,               \* Tree[v]: the nodes of version v in the order buildTree visits
                        \*   them, each [name |-> .., class |-> ..]
    Lua,                \* Lua[v]: the files of Lua/ after export v, each
                        \*   [base |-> .., suffix |-> Int], -1 for no suffix
    MaxStarts,          \* bound: calls of startSourcemapGeneration
    MaxFaults,          \* bound: stat and write calls that fail
    ReadRetryAttempts   \* READ_RETRY_ATTEMPTS

Versions == DOMAIN Tree

\* A project has a version that can be saved first, and Lua/ finitely many files, which
\* differ in their name.
ASSUME VersionsAssumption ==
    /\ Len(Tree) \in Nat \ {0} /\ Versions = 1..Len(Tree)
    /\ \A v \in Versions : Len(Tree[v]) \in Nat /\ DOMAIN Tree[v] = 1..Len(Tree[v])
    /\ Len(Lua) \in Nat
    /\ \A e \in 1..Len(Lua) :
           /\ IsFiniteSet(Lua[e])
           /\ \A f \in Lua[e] : f.suffix \in Int /\ f = [base |-> f.base, suffix |-> f.suffix]
ASSUME BoundsAssumption == /\ MaxStarts \in Nat
                           /\ MaxFaults \in Nat
                           /\ ReadRetryAttempts \in Nat \ {0}

VARIABLES
    studio,      \* [saved, torn, mtime, exported]: the project on disk
    enabled,     \* luau-lsp.sourcemap.enabled and .autogenerate
    started,     \* calls of startSourcemapGeneration so far
    gen,         \* gen[s]: the watcher of call s, and how far its tick is
    registered,  \* sourcemapDisposables of the folder
    sourcemap,   \* sourcemap.json: the version it was made from and its nodes
    converted,   \* versions that were ever written to sourcemap.json
    faults

watcherVars == <<studio, enabled, started, gen, registered, sourcemap, converted, faults>>

Starts == 1..MaxStarts

-----------------------------------------------------------------------------
(* The conversion.                                                         *)

\* SCRIPT_CLASSES
IsScript(node) == node.class \in {"Script", "LocalScript", "ModuleScript"}

\* Mutant: the file is taken by its suffix, as if suffixes were contiguous.
ProbedFile(files, name, k) == {f \in files : f.base = name /\ f.suffix <= k - 2}

\* indexLuaFiles: the k-th of the files of one base name (as a set of at most
\* one), the file without suffix first, then by ascending suffix.
IndexedFile(files, name, k) ==
    LET group == {f \in files : f.base = name}
    IN  {f \in group : Cardinality({h \in group : h.suffix <= f.suffix}) = k}

\* buildTree: script nodes of one name take the files of that name in turn
\* (cursors); a node beyond the last file gets none.
BuildTree(tree, files) ==
    [k \in DOMAIN tree |->
        LET cursor == Cardinality({j \in 1..k : IsScript(tree[j]) /\ tree[j].name = tree[k].name})
        IN  [name |-> tree[k].name,
             className |-> tree[k].class,
             filePaths |-> IF IsScript(tree[k])
                           THEN IndexedFile(files, tree[k].name, cursor) ELSE {}]]

-----------------------------------------------------------------------------
(* Studio.                                                                 *)

LuaFiles == IF studio.exported = 0 THEN {} ELSE Lua[studio.exported]

\* The project file is written in place: between the two steps a reader sees
\* a truncated document.  Every write gives the file a new mtime.
StudioBeginsSave ==
    /\ ~studio.torn
    /\ studio.saved < Len(Tree)
    /\ studio' = [studio EXCEPT !.torn = TRUE, !.mtime = @ + 1]

StudioEndsSave ==
    /\ studio.torn
    /\ studio' = [studio EXCEPT !.torn = FALSE, !.mtime = @ + 1, !.saved = @ + 1]

\* The scripts are exported before or after the project is written.
StudioExports ==
    /\ studio.exported < Len(Lua)
    /\ studio' = [studio EXCEPT !.exported = @ + 1]

Studio ==
    /\ StudioBeginsSave \/ StudioEndsSave \/ StudioExports
    /\ UNCHANGED <<enabled, started, gen, registered, sourcemap, converted, faults>>

-----------------------------------------------------------------------------
(* The watcher: tick, its awaits and scheduleNext.                         *)

NoSourcemap == [version |-> 0, nodes |-> << >>]

Idle == [pc |-> "none", stopped |-> FALSE, last |-> 0, mtime |-> 0,
         attempt |-> 0, version |-> 0, nodes |-> << >>]

\* Mutant: the timer is set without looking at stopped.
ScheduleNextAlways(g) == [Idle EXCEPT !.pc = "waiting", !.last = g.last, !.stopped = g.stopped]

Ended == [Idle EXCEPT !.pc = "ended", !.stopped = TRUE]

\* scheduleNext: the timer is set unless the watcher was disposed meanwhile;
\* the locals of the tick are gone, lastMtimeMs stays.
ScheduleNext(g) == IF g.stopped THEN Ended ELSE [Idle EXCEPT !.pc = "waiting", !.last = g.last]

\* Mutant: a failed conversion counts as done.
TickFailsForGood(g) == ScheduleNext([g EXCEPT !.last = g.mtime])

\* The catch of tick: lastMtimeMs stays, so the next tick converts again.
TickFails(g) == ScheduleNext(g)

\* Disposing sets stopped and clears the timer; a tick that awaits goes on.
Dispose(g) == IF g.pc = "waiting" THEN Ended ELSE [g EXCEPT !.stopped = TRUE]

\* The timer runs out: tick up to its first await.
Tick(s) ==
    /\ gen[s].pc = "waiting"
    /\ ~gen[s].stopped
    /\ gen' = [gen EXCEPT ![s].pc = "statting"]
    /\ UNCHANGED <<studio, enabled, started, registered, sourcemap, converted, faults>>

\* The answer of stat: a new mtime starts the conversion.
StatAnswers(s) ==
    /\ gen[s].pc = "statting"
    /\ gen' = [gen EXCEPT ![s] =
                IF studio.mtime # gen[s].last
                THEN [@ EXCEPT !.pc = "reading", !.mtime = studio.mtime, !.attempt = 1]
                ELSE ScheduleNext(@)]
    /\ UNCHANGED <<studio, enabled, started, registered, sourcemap, converted, faults>>

StatFails(s) ==
    /\ gen[s].pc = "statting"
    /\ faults < MaxFaults
    /\ faults' = faults + 1
    /\ gen' = [gen EXCEPT ![s] = TickFails(@)]
    /\ UNCHANGED <<studio, enabled, started, registered, sourcemap, converted>>

\* convertOvdrjmToSourcemap reads and parses; a truncated file does not parse
\* and convertWithRetry sleeps and tries again, at most ReadRetryAttempts times.
ReadAnswers(s) ==
    /\ gen[s].pc = "reading"
    /\ \/ /\ ~studio.torn
          /\ gen' = [gen EXCEPT ![s] = [@ EXCEPT !.pc = "indexing", !.version = studio.saved]]
       \/ /\ studio.torn
          /\ gen[s].attempt < ReadRetryAttempts
          /\ gen' = [gen EXCEPT ![s] = [@ EXCEPT !.pc = "pausing", !.attempt = gen[s].attempt + 1]]
       \/ /\ studio.torn
          /\ gen[s].attempt = ReadRetryAttempts
          /\ gen' = [gen EXCEPT ![s] = TickFails(@)]
    /\ UNCHANGED <<studio, enabled, started, registered, sourcemap, converted, faults>>

RetryAfterPause(s) ==
    /\ gen[s].pc = "pausing"
    /\ gen' = [gen EXCEPT ![s].pc = "reading"]
    /\ UNCHANGED <<studio, enabled, started, registered, sourcemap, converted, faults>>

\* readDirectory answers (an absent directory gives an empty index), the tree
\* is built and the write is on its way.
IndexAnswers(s) ==
    /\ gen[s].pc = "indexing"
    /\ gen' = [gen EXCEPT ![s].pc = "writing",
                          ![s].nodes = BuildTree(Tree[gen[s].version], LuaFiles)]
    /\ UNCHANGED <<studio, enabled, started, registered, sourcemap, converted, faults>>

WriteAnswers(s) ==
    /\ gen[s].pc = "writing"
    /\ sourcemap' = [version |-> gen[s].version, nodes |-> gen[s].nodes]
    /\ converted' = converted \union {gen[s].version}
    /\ gen' = [gen EXCEPT ![s] = ScheduleNext([@ EXCEPT !.last = gen[s].mtime])]
    /\ UNCHANGED <<studio, enabled, started, registered, faults>>

\* A write that fails leaves the old file or an empty one.
WriteFails(s) ==
    /\ gen[s].pc = "writing"
    /\ faults < MaxFaults
    /\ faults' = faults + 1
    /\ sourcemap' \in {sourcemap, NoSourcemap}
    /\ gen' = [gen EXCEPT ![s] = TickFails(@)]
    /\ UNCHANGED <<studio, enabled, started, registered, converted>>

WatcherStep(s) ==
    \/ Tick(s) \/ StatAnswers(s) \/ ReadAnswers(s)
    \/ RetryAfterPause(s) \/ IndexAnswers(s) \/ WriteAnswers(s)

-----------------------------------------------------------------------------
(* startSourcemapGeneration and its callers.                               *)

\* cleanupSourcemapDisposables
Cleanup(g) == [s \in Starts |-> IF s \in registered THEN Dispose(g[s]) ELSE g[s]]

\* startSourcemapGeneration up to its await: what ran is disposed; the
\* settings are read here and not again.
StartGeneration ==
    /\ started < MaxStarts
    /\ started' = started + 1
    /\ registered' = {}
    /\ gen' = [Cleanup(gen) EXCEPT ![started + 1] =
                IF enabled' THEN [Idle EXCEPT !.pc = "finding"] ELSE Ended]
    /\ UNCHANGED <<studio, sourcemap, converted, faults>>

\* findOvdrjmFile answers: the watcher is created, registered, and its first
\* tick runs to its await within the same step.
ProjectFound(s) ==
    /\ gen[s].pc = "finding"
    /\ studio.mtime > 0
    /\ gen' = [gen EXCEPT ![s].pc = "statting"]
    /\ registered' = registered \union {s}
    /\ UNCHANGED <<studio, enabled, started, sourcemap, converted, faults>>

ProjectNotFound(s) ==
    /\ gen[s].pc = "finding"
    /\ studio.mtime = 0
    /\ gen' = [gen EXCEPT ![s] = Ended]
    /\ UNCHANGED <<studio, enabled, started, registered, sourcemap, converted, faults>>

\* luau-lsp.regenerateSourcemap
RegenerateSourcemap == enabled' = enabled /\ StartGeneration

\* onDidChangeConfiguration, with the settings as they are after the change.
ChangeToEnabled == enabled' = TRUE /\ StartGeneration

ChangeToDisabled ==
    /\ enabled' = FALSE
    /\ enabled
    /\ gen' = Cleanup(gen)
    /\ registered' = {}
    /\ UNCHANGED <<studio, started, sourcemap, converted, faults>>

User == RegenerateSourcemap \/ ChangeToEnabled \/ ChangeToDisabled

-----------------------------------------------------------------------------
\* The first call of onActivate is one of the StartGeneration steps.
WatcherInit ==
    /\ studio \in {[saved |-> v, torn |-> FALSE, mtime |-> v, exported |-> 0] : v \in {0, 1}}
    /\ enabled \in BOOLEAN
    /\ started = 0
    /\ gen = [s \in Starts |-> Idle]
    /\ registered = {}
    /\ sourcemap = NoSourcemap
    /\ converted = {}
    /\ faults = 0

Generation(s) ==
    \/ WatcherStep(s) \/ StatFails(s) \/ WriteFails(s)
    \/ ProjectFound(s) \/ ProjectNotFound(s)

WatcherNext == Studio \/ User \/ \E s \in Starts : Generation(s)

\* The extension host delivers answers and timers; nobody has to save, to
\* touch a setting or to run into a fault.
WatcherFairness ==
    \A s \in Starts : WF_watcherVars(WatcherStep(s) \/ ProjectFound(s) \/ ProjectNotFound(s))

WatcherSpec == WatcherInit /\ [][WatcherNext]_watcherVars /\ WatcherFairness

-----------------------------------------------------------------------------
(* Properties.                                                             *)

\* A watcher that is registered notices every save that is not followed by
\* another one: the version reaches sourcemap.json, whatever failed on the
\* way, because a failed conversion leaves lastMtimeMs alone.
SavesReachTheSourcemap ==
    \A v \in Versions :
        /\ studio.saved = v /\ ~studio.torn /\ registered # {}
        ~> \/ v \in converted
           \/ studio.saved # v \/ studio.torn \/ registered = {}

\* Two nodes never share a file, a node only gets a file of its own name, and
\* of the nodes with one name the earlier ones are served first, with the
\* lower suffixes (the promise of the comment above NAME_SUFFIX_RE).
FilesHaveOneNode ==
    \A i, j \in DOMAIN sourcemap.nodes :
        LET a == sourcemap.nodes[i]
            b == sourcemap.nodes[j]
            t == Tree[sourcemap.version]
        IN  /\ \A f \in a.filePaths : f.base = a.name
            /\ i # j => a.filePaths \intersect b.filePaths = {}
            /\ i < j /\ a.name = b.name /\ IsScript(t[i]) /\ b.filePaths # {}
               => \E f \in a.filePaths : \A h \in b.filePaths : f.suffix < h.suffix

\* A watcher whose timer is set is registered: disabling the generation or
\* closing the window reaches every watcher that would tick again, also one
\* that was disposed in the middle of a tick.
TimersAreRegistered == \A s \in Starts : gen[s].pc = "waiting" => s \in registered

=============================================================================
