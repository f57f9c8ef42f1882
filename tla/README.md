# A formal model of the overdare-lsp language server

TLA+ specifications of the parts of this repository whose behaviour depends on
order, on several actors or on exact arithmetic, the TLC runs that check them,
and proofs for the parts that can be proved. All paths below are relative to the
repository; `LanguageServer.cpp` and similar names are files of `src/src`, and
`*.ts` files are in `src/editors/code/src`. `PROJECT.json` maps every definition
to the lines it models.

Run TLC in this directory with `tlc -config <run>.cfg <MC module>`, and the
proofs with `tlapm <module>.tla` for the modules of section 4.

## 1. The system

A VS Code extension (`editors/code`) starts the language server, a C++ process,
and converts the project that OVERDARE Studio saves into the sourcemap the
server reads. In the server

* the **input thread** (`processInputLoop`) reads JSON-RPC messages, keeps the
  cancellation tokens and answers `shutdown` and `exit` itself;
* the **worker thread** (`messageProcessorThread`) handles all other messages,
  one after the other. It owns everything below;
* a **workspace** (`WorkspaceFolder`) for each folder of the client, and a null
  workspace for other files, holds a file resolver (open documents, their
  plugin-transformed versions, configurations), a plugin manager and plugin
  runtimes, a platform (the sourcemap and its types) and Luau's type checker,
  which is vendored and not modelled.

The threads share the queue, the tokens and the shutdown flag under one mutex.
Everything below the worker is sequential: it is hard because of the order in
which messages, configuration, file watching and edits reach it, and because
several caches hold the same fact. The extension is one JavaScript thread whose
calls overlap at their awaits.

### Inventory

| Component | State | Operations | What makes it correct | Model |
|---|---|---|---|---|
| Message pump (`LanguageServer.cpp`, `Client.cpp`, `operations/Diagnostics.cpp`, `Thread.cpp`) | queue, tokens, postponed messages, shutdown flag, folders with configuration, streaming request | receive, cancel, pop, postpone and drain, requests, notifications, responses, shutdown, exit, end of input | each request is answered once, none is forgotten, order is kept, shutdown returns | `MessagePump`, `RequestLifecycle` |
| Documents and plugins (`Workspace.cpp`, `WorkspaceFileResolver.cpp`, `Plugin/PluginManager.cpp`) | `managedFiles`, `pluginDocuments`, loaded plugins, dirty modules | open, change, save, close, watched file, configure, folder change, check | the type checker sees the user's text through the current plugin | `Documents` |
| Text documents (`TextDocument.cpp`) | text, line offsets | incremental and full edits, position conversion | the server's text is the client's; repaired offsets are the computed ones | `TextDocument` |
| Plugin source mapping (`Plugin/SourceMapping.cpp`) | edits, transformed text | `fromEdits`, two mappings | untouched text maps to itself both ways | `SourceMapping` |
| Sourcemap (`platform/overdare/OverdareSourcemap.cpp`, `OverdareSourceNode.cpp`, `OverdareFileResolver.cpp`, `OverdareStringRequireSuggester.cpp`) | node tree, virtual and real path maps | update with a valid, malformed or unreadable file; resolve, write and suggest requires | maps point into the current tree, module names are unique, a written require resolves | `Sourcemap` |
| Instance types (`OverdareSourcemap.cpp`) | types of the nodes, properties added to declared classes, what checked modules hold of them | replace with each sourcemap, prepare a module's scope | nothing freed is read; types and requires find the same instance | `InstanceTypes` |
| Configurations and file requires (`WorkspaceFileResolver.cpp`, `LSPPlatform.cpp`, `StringRequireAutoImporter.cpp`, `StringRequireSuggester.cpp`, `Uri.cpp`) | cache by directory, indexed modules | read, clear, resolve aliases and requires, write and suggest paths, index | no stale configuration; written and offered paths resolve | `Requires` |
| Import edits (`operations/CodeAction.cpp`, `AutoImports.cpp`, `OverdareCodeAction.cpp`, `InstanceRequireAutoImporter.cpp`, `OverdareCompletion.cpp`) | none | add imports, sort them, remove what is unused | edits do not overlap, nothing is lost, what is missing is bound | `ImportEdits` |
| References (`operations/References.cpp`, `Rename.cpp`, `GotoDefinition.cpp`, `CallHierarchy.cpp`, `RequireGraph.cpp`, walks of `LuauExt.cpp`) | none | search symbols, properties, types and calls over modules | the same answer from every use; a rename keeps meanings | `References` |
| Extension: sourcemap (`ovdrjmSourcemap.ts`, `overdare.ts`, `scriptTypeDecorations.ts`) | watcher, last modification time, class names | poll, convert, retry, dispose, restart, refresh | the sourcemap follows the project, icons follow the sourcemap, watchers can be stopped | `OvdrjmWatcher`, `Extension` |
| Extension: client (`extension.ts`, `definitions.ts`) | client, commands, crash times, downloads | start, reload, stop, restart or give up | one server, crash loops end, settings reach the server | `LanguageClient` |
| Workspace configuration (`Client.cpp`) | `configStore`, handlers | request, store, remove | a folder uses its own latest configuration | in part in `MessagePump` |
| Plugin runtime (`Plugin/PluginRuntime.cpp`) | Luau state, memory use, deadline | load, transform | a failure leaves the plugin inert | in part in `Documents` |
| Other language features, command line, transport, protocol types, Luau extensions, utilities | none of their own | read-only walks, batch work, I/O | depends on type inference or is pure I/O | not modelled |

### Where it is hard

`PROJECT.json` lists 40 hazards, each at its line. In groups:

* *two threads*: cancellation overtakes the queue; shutdown joins a worker that
  may be in the middle of the postponed messages; exit, and end of input, end the
  process under the worker;
* *protocol order*: messages are postponed while a folder lacks configuration and
  drained later, next to messages handled at once; a streaming request stays open
  and is answered by an unrelated event, even in the middle of another request;
* *awaits*: the extension's watcher, decorations and client read state, await and
  use it; calls overlap, are disposed of and fail between two awaits;
* *stale caches*: transformed documents are keyed by version alone; plugins,
  configuration and files change under modules that are clean; path maps and types
  point into a tree that is replaced;
* *positions*: UTF-16 against UTF-8, line ends, edits over several lines, several
  edits in a line; several edits of one action, all in positions of the old text;
* *names*: two or three ways to name a module, a type or a property that have to
  agree: by node, by string, by what is suggested.

## 2. Modules

### MessagePump (with RequestLifecycle, MCMessagePump, MessagePumpProofs)

State: the process and input thread (`process`, `input`, `shutdownId`), what the
threads share (`messages`, `tokens`, `cancelled`, `shutdownRequested`), the
worker (`pc`, `current`, `postponed` for `configPostponedMessages`, `draining`
and `batch` for the loop over it), `folders` with `configured`
(`hasConfiguration`) and `ready` (`isReady`), the streaming request (`streamId`,
`streamToken`), the configuration requests and their handlers, and histories:
`received`, `before`, `replies`, `handled`, `turnedDown`.

One action of the input thread is one message read (`Receive`,
`ReceiveAfterShutdown`, `ReceiveShutdown`, `Cancel`, `ClientResponds`,
`ReceiveExit`, ...) or its return from `join` (`Joined`). The worker's handling
of a message is cut where the other thread can see a difference: `Pop` takes it
under the mutex; `Refuse`, `Postpone`, `Start` and the notification actions are
`handleMessage`; a request's handler ends in `Reply`; `ClearCancellationToken`
takes the mutex again. `OnResponse` ends in the loop `DrainNext` ... `DrainEnd`,
which visits what was postponed when it began and then clears the list, with
everything appended meanwhile, as the code does.

All requests about a document are one kind: the handler may answer with a
result, fail, or notice a cancellation, and may initialise its workspace first
(`InitializeWorkspace`). Setting up a folder, under strict DataModel types,
recomputes the diagnostics, which answers the streaming request
(`LazyInitialize`, `TerminateStream`). Undefined behaviour is a choice: appending
to `configPostponedMessages` inside the loop, and reading an iterator after
`erase`, may crash the process or go on.

The client follows the protocol (`MaySend`): nothing between `initialize` and
`initialized`, and one streaming request at a time. A message is sent at most
once, so ids are unique.

`RequestLifecycle` is the abstract specification: a request waits, is started
unless cancelled while it waited, and is answered once, with a result only if it
was started and `RequestCancelled` only if it was cancelled. The refinement
mapping (`Lifecycle` in `MessagePump`) reads a request's state off `received`,
`handled` and `replies`.

### Documents (with MCDocuments, TextDocumentProofs)

An action is what the user or the file system does, together with the handler of
the notification it causes: `Open`, `Change`, `Save`, `Close`, a file or the plugin
rewritten on disk (`WriteFile`, `WriteScript`) and the later report of the watcher
(`WatchedFile`, `WatchedScript`), the plugin enabled or disabled
(`ChangeConfiguration`), a folder opened or closed (`ChangeFolder`), and a check of a
module (`Analyse`), which reads it through `SourceOf` (`getTextDocument` and
`applyPluginTransformation`) and its cache. A text is a token; a wrongly applied
edit gives the text `garbled`. That the notifications come one by one and in
order is what `MessagePump` shows.

### TextDocument (with MCTextDocument, TextDocumentProofs)

A text is a sequence of characters with a length in bytes and in UTF-16 units.
`Edit` is the client's edit of its own copy and `update` on the server's, from
the same range of positions; `Replace` is an edit without a range. The line
offsets are repaired as in `update`, and positions converted as in `offsetAt`
and `positionAt`. `ClientPosition` is how a client counts.

### SourceMapping (with MCSourceMapping, SourceMappingProofs)

Each `Return` lets a plugin return one more edit of the source; the edits so far,
in any order, are sorted, refused if two overlap, and applied (`FromEdits`). An unstable sort is every
order of edits with equal start. `MapPosition` is the
loop of the two mappings: its `delta` is what the loop carries from edit to edit, and
the first edit that `Decides` is the one at which it returns.
The reference definition, `Image`, moves a place by the lengths of the
edits before it and knows no lines. `Tracked` leaves out the places the code does
not follow: behind an edit over several lines, on its last line.

### Sourcemap and InstanceTypes (with MCInstanceTypes, InstanceTypesProofs)

A tree is a sequence of nodes in preorder. Each action of `Sourcemap` writes the
sourcemap and has `updateSourceMap` read it: with a node more (`AddInstance`), with
one less (`RemoveInstance`), or while it is half-written (`ReadMalformed`).
The definitions follow the code's ways to name a module: by nodes
(`Ancestors`, `FindChild`, `RequirePath`), by strings (`virtualPath`,
`ResolveStringRequire`, `ResolveChild`, `AncestorPath`) and by the suggester's walk
(`ResolvePathToNode`, `Suggested`). `context` tells a node of the client's containers
from one of the server's. A name is a tuple: `<<"A", 1>>` stands for `A_1`,
both as a name of its own and as what the second `A` is called.

`InstanceTypes` composes it with what the tree is read for. The type of an instance
is its node; `props` is what `handleSourcemapUpdate` added to the declared classes,
once for each set of global types, and `modules` what the last check of a module
holds: nothing, types of the current tree (`live`), or freed ones. `UpdateSourceMap`
is a step of `Sourcemap` together with `updateSourcemapTypes`; `CheckModule` makes
a module's scope (`ScriptType`), `EditModule` marks it dirty, and `ChangeStrict`
reads the sourcemap again with the other setting. A lookup in the types
follows the children and the properties of the declared class. What a player gets a copy
of (`PlayerPaths`, `Copies`) leads to the container it is copied from.

### Requires and ImportEdits (with MCImportEdits, RequiresProofs)

`Requires` is what is read where no sourcemap names the modules: configuration
files on disk, `configCache` (`Cached`, `ReadConfigRec`), the files that show an error,
chains of aliases (`AliasedPlaces`, which follows an alias with the set of those visited), resolution of a require (`ResolveStringRequire`), the
paths an import is written with (`RequirePaths`) and those offered within the quotes
(`Offers`). `ChangeConfig` writes a configuration file, `ConfigChanged` is the watcher's
report, `IndexFiles` the first indexing.

`ImportEdits` adds the document at hand, a sequence of statements with a number of
lines, and the edits the server offers for it: `SourceActions` (add all missing
imports, sort requires, sort services, remove unused code), `UnknownSymbolFixes` and
`WarningFixes`, and `Completions` that import. An action of the user takes one of
them, and `Apply` is how a client applies the edits, all in positions of the old text.
What Luau reports (unknown symbols, unused locals, unreachable code) is external, and so is
what its parser accepts (`Parses`): statements are whole, and one within another ends before it.

### References (with MCReferences, ReferencesProofs)

A checked workspace is data: syntax nodes with types and symbols given, types with
tables, metatables and properties, and requires between modules. What Luau's parser
and checker guarantee of it is `IsWorkspace`: a node stands behind the one above it and
where the grammar allows it (`IsTree`), and types are made of types there are
(`IsTyped`). TLC evaluates it on the workspaces of the run, and the proofs assume no more.
The recursive walks keep what they have visited; they are written as what is reached
from a start (`Reached`), and the work list of the require graph as a number of turns.
`FindReferences`,
`RenameSymbol`, `GotoRequest`, `PrepareCallHierarchy`, `CallHierarchy` and `RequireGraph`
each answer one request at one node, through the walks of the code
(`IsSameTable`, `FindTypeParameterUsages`, `FindReverseDependencies`, `GraphFrom`, ...).

### OvdrjmWatcher and Extension (with MCExtension, EditorProofs)

A step is what runs between two awaits. `gen[s]` is the watcher that call `s` of
`startSourcemapGeneration` created, with the locals of its `tick`. The Studio saves in
two steps (a reader in between sees a truncated file) and exports the scripts
separately; each read and write may fail. `Extension` composes the watcher with the
second reader of `sourcemap.json`: every write is a file event, an event starts a
refresh that reads the file back, and `shown` is what the explorer draws.

### LanguageClient (with MCLanguageClient, EditorProofs)

Calls of `startLanguageServer` are numbered; a call stops the old client (`AfterStop`),
downloads (`Download`), creates the client with its arguments and flags (`Create`), and
starts it (`ServerStarts`). `ServerExits` is `ClientErrorHandler`. The class
`LanguageClient` is a library's and modelled from its use: `stop` resolves at
once for a client that has not started, rejects while it starts or after its start
failed, and else resolves when the server exited.

## 3. Runs

| Run | Asks | Bounds |
|---|---|---|
| `pump_core` | one reply, none forgotten, order, tokens, nothing after shutdown, refinement | seven messages: `initialize`, `initialized`, a document request, an edit, a folder notification that closes the only folder, a changed configuration, `shutdown`; a cancellation of any of them and an answer or error to each configuration request at any time |
| `pump_stream` | none forgotten, with a streaming request | starts without a folder, which is opened while the request streams; document request, `.luaurc` change, `exit` |
| `pump_live` | `EventuallyAnswered`, `ShutdownIsAnswered` | a folder opened late, a report, two shutdowns; fair |
| `docs` | copies, clean modules, transformed documents | one file, one folder and the null workspace, two texts, versions and plugin contents up to 3 |
| `text` | texts, offsets and positions agree | up to 5 characters of one and four bytes, CR and LF; insertions of up to four characters |
| `mapping` | transformed text, both mappings | sources of up to 3 bytes, up to 3 edits, insertions with and without a line end |
| `sourcemap` | names, requires, suggestions and lookups; nothing freed is read; types agree | trees of up to 5 nodes under a DataModel or a folder, modules checked in trees of up to 3, one module at hand |
| `extension` | files and nodes, timers, decorations; every save arrives | two versions of a project, one export, one call, two read attempts, one fault; fair |
| `client` | crash loops, one server, settings; every call ends | two calls, four exits, four clock times, at most two restarts in a window of 1; two settings, with and without a library downloaded before; fair |
| `references` | property uses, type names, definitions, calls, graphs | programs of up to three modules: a class with metatables and its users, type parameters that hide each other, every require graph of two modules with a missing third |
| `requires` | configurations, paths; edits of imports | five modules with two init levels and two files of one name, two directories with configuration files of three kinds, two first documents, two edits of which one may be of a configuration, documents of up to nine lines |
| `pump_lost` | one statement of the repository, which the code does not keep (section 5) | |

Why the bounds suffice. In the pump, the interesting cases need one message of
each kind and, at most, one pair (request and edit; two shutdowns): messages
interact through the folders, the single streaming request and the queue's
order, and each of these is present with every interleaving of the two threads.
In `docs` two texts tell a stale one from a current one, three versions leave a
cache entry one behind and one ahead, and three plugin contents, of which the
second does not load, let a reload be missed and a broken plugin be repaired;
for any numbers of them the same three properties are proved. In `text` five
characters hold two line ends of two kinds around
an edit with text on both sides; in `mapping`, three edits accumulate columns on
a line, start over on the next and join or split lines before both. In `sourcemap`
five nodes are two scripts in two containers under a root, or three same-named
siblings with a child, one of them named like a numbered one, and a type graph is stale
after one replacement; trees of four and five nodes are read only while no module was
checked. In
`extension` one call that may be disposed of in every await meets every save, export
and fault; a second call multiplies the states beyond TLC, and what could go wrong
between calls is proved for any number of them (`WatchersAreReached`,
`ExplorerFollowsSourcemap`). In `client` two calls meet in every pair of
states, and four exits fill a window of two and leave it; any numbers are proved.
In `references` a chain of metatables has two links and a shadowed name two
binders. In `requires` one edit leads to every kind of import line and the second is
asked for above, below and between them; two alias links make a chain and one a
cycle. What `requires` leaves out: several statements on a line, changes of
configuration before the first indexing, `MaxFiles` reached, and instance paths
relative to the script or its project root.

`CHECK_DEADLOCK FALSE` stands where the client or user may simply do nothing
more, or where a text or tree has reached its bound.

Every property of a passing run has a mutant in `PROJECT.json`: a definition,
marked "Mutant" in the module, that changes one of the code as a plausible bug
would, under which TLC finds the property violated.

### Fairness

`FairSpec` of `MessagePump` has weak fairness of the worker (the
operating system runs a thread that can run, and no handler blocks: the
worker waits only in `popMessage`), of `Joined` (`join` returns once the
thread ended), and of the client's answer to a configuration request (the
protocol asks every request to be answered; the answer may be an error). The
client need not send anything. `EventuallyAnswered` excuses behaviours in which
some folder stays without configuration for ever, which the client can cause by
answering with an error.

In `Extension` the timers and answers the extension host delivers are fair, per call;
the Studio, the user, faults and further calls are not. In `LanguageClient` the
answers of downloads, of `start` and of `stop` are fair: each is a promise of
the editor or the library that is kept or rejected. Exits, calls and the clock are
not fair.

## 4. Proofs

All are proved with TLAPS for every value of the constants under the named
assumptions of the modules.

**`MessagePumpProofs`**: `TypeCorrect` (`Spec => []TypeOK`), `EveryMessageInOnePlace`
(`Spec => []PlaceInv`) and `NoRequestAnsweredTwice` (`Spec => []AtMostOneReply`), from
`MessageAssumption` and `FolderAssumption`, which type the
constants and say that `NoMsg` is no message and `Null` no folder.

`AtMostOneReply` is not inductive: nothing in it says that the message the worker
pops was not answered before. The inductive invariant `IInv` is
`TypeOK /\ PlaceInv /\ ReplyInv`.

* `PlaceInv` follows the message. It is in the queue, in the backlog or in the
  worker's hand, in one of them and once (`OnePlace`). The backlog is `batch`
  during the loop and `postponed` otherwise: what is appended to `postponed`
  during the loop is cleared with it, so counting it would break the invariant.
  A message in a place was received and not decided on (`Undecided`), and what was
  decided on was not also turned down (`Decided`).
* `ReplyInv` follows the reply. A message with a reply was decided on by the
  worker, turned down by the input thread, or is a shutdown request that is no
  longer being served (`ReplyOrigin`). The three requests still owed one (the one
  in its handler, the streaming one, the shutdown being served) have none, and the
  first two differ (`Owed`).

In the same module, what becomes of a message, from `IInv`:

* `ShutdownIsLast` (`Spec => NothingAfterShutdown`): the worker has stopped when shutdown
  is answered, and the input thread turns messages down only once it was requested.
* `RequestsAreKept` (`[]NoRequestForgotten`) and `TokensAreCleared`
  (`[]TokenOnlyWhilePending`), assuming `NoFolderAdded` and `OneInitialize`. The first
  excludes what `pump_lost` shows: a folder without configuration that appears
  while the loop over the postponed messages runs. `SetupInv` says that during the loop
  all folders are configured, so that nothing is postponed into the list that is cleared
  behind it; `LostInv` that a received message is in its place or was decided on;
  `DebtInv` that one decided on without an answer is in its handler, streams, or is the
  shutdown being served; `TokenInv` the same for tokens.
* `HandledInOrder` (`[]SeesEarlierMessages`), assuming also `Configures`. For a client
  without `workspace/configuration`, `initialized` configures the folders and drains
  nothing; that nothing is postponed by then, because the client sends nothing between
  `initialize` and `initialized`, is not part of the proof. `OrderInv` says where a
  message `b` can be that was sent before `m` (`Behind`): not behind it in either queue,
  and not in the queue when `m` is in hand. `BacklogInv` says that outside the loop something is postponed only
  while a folder lacks configuration, so that `m` cannot overtake a postponed `b`.
* `PumpImplementsLifecycle` (`Spec => ImplementsLifecycle`), without further assumptions.
  A step of the pump changes the life of one request, or of none: reading it makes it
  wait, a dispatch starts or refuses it, a response answers it.
  Besides `IInv` the mapping needs `LifeInv`: the token that is cleared is that of a request
  decided on (without it a cancellation could be forgotten while the request waits), and
  only requests that were received have tokens or stream.

**`TextDocumentProofs`**, of `Documents`: `CopiesAreTheClients`
(`[]CopiesFollowEditor`), and, assuming
`HasSourcemap` and `~Restarts`, `CleanModulesAreCurrent` (`[]CleanIsCurrent`) and
`TransformedDocumentsAreCurrent` (`[]TransformsAreCurrent`). Both assumptions are
needed: see section 5 for a client that uses a version twice and for a workspace
without a sourcemap. `CopyInv` adds that no workspace but the document's own has it open
(`OneCopy`), without which a folder change would bring back an old copy. `SourceInv`
has for each document that the client's version is its last one and no cache entry
has a later one (`VersionsGrow`), that clean modules and usable entries are current,
and that a workspace that is not set up holds nothing (`UnreadyIsEmpty`).
`OneDocument` and `PluginsChange` reduce an action to the one document, or the one
plugin, that it is about.

In the same module, of `TextDocument`: `ContentStaysClients` (`[]ContentIsClients`) and
`PositionsStayCurrent` (`[]PositionsAreCurrent`), from `TextAssumption` (characters have
1 to 4 bytes and 1 or 2 code units). The invariant `TextInv` says that the two texts are
one and that its line offsets are the ones `update` works with; without the second an
edit could go to the wrong place.

* A text's line offsets are the one increasing sequence of 0 and its line ends
  (`OneEnumeration`, `OffsetsAre`). So it is enough that what `update` repairs is
  increasing and has the right members: the entries up to the start of the edit, those
  of the inserted text, and those behind its end, moved (`RepairedAre`). `SplicedIs`
  shows that for both ways of replacing entries, `EditedLineEnds` that these are the
  line ends of the new text. Here the condition on the client, `~JoinsLineEnd`, and its
  places, `~Between`, are needed: an edit that splits CR LF, or makes one, leaves an
  entry that is no line start.
* `PositionsLeadBack` and `TextBetween`: the entry that the binary search finds is that of
  the line the client counts (`LineOf`), and the code units of a part of a line lead to its
  bytes (`MeasuredBack`). `PositionsGrow` is why `getWellformedRange` puts the ends of a
  range in the order of their places.

**`SourceMappingProofs`**: `UntouchedStay` (`[]UntouchedBytesStay`), `OriginalStaysMapped`
(`[]OriginalMapsForth`) and `TransformedStaysMapped` (`[]TransformedMapsBack`), from
`MappingAssumption` (texts are sequences of bytes). `MappingInv` says that the source is a
text, that the edits are what plugins may return for it (their ranges are places of the
source, in order), and `IsCurrent`: where edits are applied, text and mapping are what
`fromEdits` makes of some order of them in which none overlap.

* The text: it consists of the parts of the source between the edits and of their new texts
  (`Layout`), at places given by lengths. That is `UntouchedStay`.
* Positions: a text moves a position by its size (`Plus`), and equal bytes by equal
  sizes (`SameBytes`); places grow with their positions (`PositionsIncrease`).
* The deltas that `fromEdits` carries are right about lines behind every edit, and about
  columns unless an edit over a line end has dropped them on that line (`Dropped`). The
  mappings go over the same edits and so carry the same deltas, or the opposite ones. On a
  line where they are known, `Moved` takes a position of the source to that of the same byte.
* The loops: the first edit that decides is the one behind the place (`MapsBeside`) or the
  one it is in (`MapsInside`). For the way back this needs that on a line whose columns are
  dropped the ranges the code claims for its edits may be wrong in their columns but not in their
  lines (`RangeAt`), so that an earlier edit does not claim a place that is behind it.

**`EditorProofs`**, of the extension's two parts, which share no state. Of the sourcemap and
its reader: `WatchersAreReached` (`[]TimersAreRegistered`) and
`ExplorerFollowsSourcemap` (`[]DecorationsFollow`). `WatcherInv` says that a watcher that
is neither registered nor looking for its project is stopped or has ended. `DecorationsInv`
says that without overlapping refreshes either the map is the file's, or an event or a
refresh that will read it is on its way, or a write is. `FilesKeepOneNode`
(`[]FilesHaveOneNode`) is about the conversion: for each file there is at most one place
in the project that takes it. The k-th script of a name takes the file of the k-th
suffix, and `RankGrows` says that files of one name have different ranks. Its invariant
(`SourcemapInv` there) has what a tick carries over its awaits: a version the Studio
saved, and the nodes built from it. `VersionsAssumption` says that projects and exports
are finite.

Of the language client: `NoCrashLoop` (`[]CrashLoopsEnd`), `OneServerAtATime`
(`[]OneServer`) and `SettingsAreHandedOver` (`[]SettingsReachTheServer`).
For the first, `IsMemory` says that the handler's `restarts` are the last `MaxRestartCount` of all restarts granted: the code forgets one exactly when it has
one too many. For the second, `Alone` says that of calls that do not overlap only the
last is under way, and that once it has stopped the old server there is none. The third
needs that between the two awaits of a start each download is on disk or was tried
(`Fetched`), and that files on disk stay.

**`InstanceTypesProofs`**: the four invariants of run `sourcemap`,
for trees of any size. `SourcemapInv`: the file is a tree (each parent is before its
children), the tree at hand is that or none, and the paths, contexts and both maps are
those of the tree. `TypesInv` adds what the modules hold, and that the properties added
to the declared classes are the tree's and no others (`PropsInv`).

* `FreedTypesStayUnread` (`[]NothingFreedIsRead`): a new sourcemap marks all modules; a
  check or an edit leaves the path maps alone, so what holds of a module's result is kept.
* `FilesKeepNames` (`[]FilesHaveNames`): `PathsDiffer` says that two nodes of a tree have
  two paths unless a number makes one name of two.
* `ImportsStayUsable` (`[]ImportsAreUsable`): `RequirePath` and `ResolveStringRequire` meet
  at the common ancestor; `PathUp` and `PathDown` say where a path that climbs and one
  that descends lead, by induction over the tree.
* `LookupsStayAgreed` (`[]LookupsAgree`): a path names the same node as the tree does
  (`ChildrenAgree`, `AncestorsAgree`), as the types do (`TypesFound`) and as the suggester's
  walk does (`SuggestionsAgree`).

`SourcemapAssumption` says that names are tuples, none of them `..`, and that no container
is the server's and the client's; `InstanceAssumption` that the player's copies,
the containers and the classes of scripts are different names.

**`RequiresProofs`**, from `PathAssumption` (paths are of names, none of which is one of the
four that mean something in a path) and `ConfigAssumption` (a configuration file is absent,
broken or a finite table of aliases):

* `ConfigsStayCurrent` (`[]ConfigIsCurrent`). `RequiresInv` has the shape of disk and cache
  beside the property. A cached entry is a reading of its directory and those above it
  (`ReadingIs`), each of which is read from the cache or from disk; clearing the
  cache leaves nothing that a change could make stale.
* `PathsStayResolved` (`[]PathsResolve`). `RelativeLeads` is about the steps up to the common
  prefix and down again, `RequireLeads` about init files at either end, `AliasLeads` about
  aliases: the chain ends because those visited become more (`ChainsEnd`), and the
  place it leads to is the one the path was written for. `OfferLeads` is the same for
  what completion offers.
* `EditsStayDisjoint` (`[]EditsAreDisjoint`), from `EditAssumption` (the first documents and
  what a user inserts are texts of statements with at least one line, of which tails and dead
  code bind no name). The invariant is
  that the document stays such a text: `AppliedIsText` shows it of any list of edits,
  because a statement has its first line, whatever is inserted or deleted behind it. For the
  edits themselves (`OfferedEdits`): every new import and service is an insertion, and an insertion at the edge of a deletion does not overlap it. Sorting
  deletes first lines of different statements, and inserts at the start of the first. Removal
  is the one with state: `deletedLines` holds every line of the edits so far, so that
  a statement nested in one that is removed already is skipped, while one that
  starts behind them is behind all of them, since they are visited in order.
* `RemovalLeavesTheRest` (`[][...]_doc`, the action property `RemovalKeepsTheRest`). Statements
  are nested (`Parses`) and go as a whole, so that the lines that are left (`Left`) are closed under
  the end of a statement (`StatementsLeft`). Line `i` of them becomes line `Place(i)`, which counts
  those before it (`KeptUpTo`, by `KeptEntries` of `Lemmas`); `LinesLeft` and `LinesAfter` say
  what stands there and that `Place(End(i))` is where the statement ends, shorter by
  what went from within it. So the text parses (`RemovedParses`). A use that
  is left keeps its binder: the last one is not unused, so it could only go within a block
  that is removed, and the scope rule puts the use within that block too (`RemovedKnows`).

**`ReferencesProofs`**, from `ReferencesAssumption`. A request is answered at once, so that
the invariants say that the workspace stays and that an answer is what the search gives
for the request (`CallersAnswered`, `DefinitionsAnswered`, `RenameAnswered`); the work is
in the searches.

* `GraphsAreComplete` (`[]GraphsShowRequires`): a module is expanded once, everything it
  requires is expanded or queued, and the edges are the requires of the modules expanded
  (`Growing`). The queue is empty after one turn more than there are requires: each is
  queued once, so that a turn takes from the queue and from those not seen together.
* `CallersAndCalleesAgree` (`[]CallsAgree`): the nodes around a node are a chain
  (`AroundIsChain`), so that a call has one innermost declared function or is at the top
  (`CallHasOneOwner`): it is found there and nowhere else, and that
  function's outgoing calls lead to the same function.
* `DefinitionsAmongReferences` (`[]DefinitionsAreReferences`): references are searched for the
  one table that the lookup finds the property in, and a lookup that starts at this
  table finds it there again (`LookupFinds`; `ReachedWithin` goes along the rounds of a
  search). For a type name, both answers take the aliases of the module that
  its prefix stands for, or of its own.
* `RenameKeepsTypeNames` (`[]TypeNamesKeepMeaning`): the names that a rename of a type parameter
  changes are the parameter and exactly those names below its binder that stand for it. So no
  other name loses its meaning, and since the new name is used nowhere else, none gains one.
  The proof found what the property now excludes: the visit of `FindTypeParameterUsages` ignores
  a prefix before a type name, and a name that is used already may capture or be captured.

**`Lemmas`**, which the other modules share: the library's induction theorems take a predicate, which cannot be given
to them here. Instead the property is the set of the numbers that have it, and a least
number outside it (from `WFMin`) gives `StrongInduction`, `StepInduction` (along `0..n`)
and, in `InstanceTypesProofs`, `TreeInduction`. What a recursive function computes comes from
`StepRecursion` and `ParentRecursion`: some function satisfies the equations, so the one
that is chosen does. Recursion in these modules is by functions for that reason. The
rest is about parts of sequences.

Only model-checked:

* the liveness properties, with their fairness and ENABLED, which are out of the
  prover's reach;
* `PropertyUsesAreFound`. It holds for less than `IsTyped` says: that two uses with one
  declaration have related tables, and that a module that uses a type requires the type's
  module in some steps, are facts about Luau's inference. To assume them would be to assume
  the property;
* `SortingKeepsStatements` and `MissingImportsAreBound`, which compare a document with
  what deletions and insertions together make of it. That the edits do not overlap is
  proved, and for removal, which only deletes, what is left; which pieces the insertions put
  where is induction over two lists at a time, and is left to TLC.

## 5. Findings

* `pump_lost`: when a folder is added while messages are postponed, the loop over
  the postponed messages postpones those behind it again, into the list it then
  clears (`LanguageServer.cpp:553-555`). They are lost; requests among them are
  never answered.

Observed while modelling, with no run; where a property would be violated, it says in
its comment what it leaves out.

Message pump and configuration:

* after shutdown a notification is answered with an error response that belongs
  to no request (`LanguageServer.cpp:638-641`);
* `onDidChangeWorkspaceFolders` removes the configuration of the folder behind the
  erased one (`LanguageServer.cpp:900-903`), and a changed configuration is compared
  with itself (`Client.cpp:202-206`);
* with a client of the push model, workspace diagnostics and strict DataModel types,
  the first set-up of a folder throws and it never becomes ready
  (`operations/Diagnostics.cpp:245`).

Documents and plugins:

* the transformed text of a closed document is used for one opened
  later under the same URI with the same version (`Workspace.cpp:150`,
  `WorkspaceFileResolver.cpp:69-71`); `Restarts = FALSE` excludes it;
* a plugin that fails to load when it is configured is not
  reloaded when its file is corrected (`Plugin/PluginManager.cpp:26`, against
  `Plugin/README.md:52`);
* behind an edit that joins or splits lines, columns on the same line are not mapped
  (`Plugin/SourceMapping.cpp:157`, `:240`, `:326`, against `Plugin/README.md:136`);
* a changed configuration marks no module dirty in a workspace without a sourcemap,
  nor does a changed `.luaurc`.

Sourcemap and types:

* the second of three siblings `A`, `A` and `A_1` takes the name of the third
  (`OverdareSourcemap.cpp:508`, against its comment at `:500`);
* in a workspace whose root is no DataModel, an auto-import that starts at the root
  does not resolve (`OverdareFileResolver.cpp:246-249`);
* of siblings with one name, the type of `script.A` is the last, `require(script.A)`
  the first; a child named like a declared property erases it with the next sourcemap;
* the children of a top-level `Folder` or `ModuleScript` are added to that class, so that
  every instance of it has them (`OverdareSourcemap.cpp:569`);
* an unreadable sourcemap leaves the old tree in place, a malformed one leaves none but
  keeps the setting that `prepareModuleScope` captured.

Configurations, requires and imports:

* sorting requires that take several lines leaves or loses lines, two requires on
  one line are deleted twice, and requires that need each other may change places;
* a statement that binds several names is removed when one is unused;
* `computeBestLineForRequire` never updates `bestLength`, and its "@" branch may move the
  line up again (comment at `AutoImports.cpp:164`); an import is inserted at the first
  require even where that is nested or below the use; a service and a module of one
  name are both bound;
* code actions for string requires know no services, completion does;
* auto-imports and suggestions ignore `useOriginalRequireByStringSemantics`;
  directories with a dot in their name are offered and do not resolve; an alias named
  `self` hides the built-in one; chained aliases are not used to write a path;
* errors of `.config.luau` are shown at `.luaurc`, and those of a deleted
  configuration stay.

References:

* renaming a type parameter `T` also renames `T` in `module.T` below its binder, and
  a new name that is in use already may change the meaning of others;
* a type parameter used in a function's body is not traced to the function, and
  its definition is the alias of its name, if any; parameters declared again in
  nested functions and aliases are not noticed;
* from a use in its own module, the references of an exported type cover that file only;
* properties overridden along a chain of metatables are not told apart, and a
  metatable that itself has a metatable is not followed by `lookupProp`;
* the full require graph draws requires of missing modules to node 0.

Extension:

* two overlapping starts of the generation leave two registered watchers that write
  one file, and a watcher disposed of in a tick still writes;
* overlapping refreshes of the icons may land out of order;
* files exported after a conversion are missed until the next save, and a script
  named `Foo_1` is indexed under `Foo`;
* a reload during a reload registers a command twice, throws, and leaves a server
  without an owner; a reload while the server starts fails, with the commands gone;
* after a failed download the stale file is kept for a day.

## 6. Not modelled

`$/setTrace`, messages that cannot be parsed, notification handlers that throw
and push diagnostics in the pump; definition files and ignore globs in
the documents; a CR that gets an LF behind it by a later edit, and columns past
the end of a line in the positions; the new type solver in the instance types;
`Refactoring.cpp` and the fixes for globals and misspelt names; what `configStore` holds;
the Luau state of a plugin, with its memory limit and deadline.
Completion, hover, signature help, semantic tokens, inlay hints, symbols, folding, links,
colours and bytecode read the type checker and change nothing: what they answer
follows from its inference, which is vendored code. The command
line is a batch program; transport, protocol types and files are
input and output; the rest of the extension is views over the editor's interface.

## 7. Plan

Done, in this order: `MessagePump` with `RequestLifecycle` and its proofs,
`Documents`, `TextDocument`, `SourceMapping`, `Sourcemap`; then `OvdrjmWatcher`
with `Extension`, `LanguageClient`, `References`, `Requires` with `ImportEdits`,
`InstanceTypes`, the proofs of `Documents`, `Extension` and `LanguageClient`, those
of the pump's order, of what it keeps and of its refinement, those of
`Sourcemap`, `InstanceTypes`, `Requires`, `TextDocument` and `SourceMapping`, and those of
`References`, of the edits of `ImportEdits` and of what its removal leaves. What could follow:

1. `configStore` with the folders' removal, composed with the part of `MessagePump` that
   asks for configurations.
2. Proofs of `SortingKeepsStatements` and `MissingImportsAreBound`, the two action properties
   of `ImportEdits` that insert as well as delete.
3. The pump's liveness stays with TLC; what `RequestsAreKept` leaves to it is that the
   worker gets to every place in turn.
