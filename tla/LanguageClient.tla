--------------------------- MODULE LanguageClient ---------------------------
(***************************************************************************)
(* The life of the language server as the VS Code extension manages it     *)
(* (editors/code/src/extension.ts, definitions.ts): startLanguageServer    *)
(* called by activation and by luau-lsp.reloadServer, the files and flags  *)
(* it hands to the server, and ClientErrorHandler, which restarts a server *)
(* that exits.  The LanguageClient class is vscode-languageclient's and is *)
(* modelled from how the extension uses it.                                *)
(*                                                                         *)
(* One JavaScript thread: a step is what runs between two awaits.  Calls   *)
(* of startLanguageServer are numbered; the client a call creates has its  *)
(* number.                                                                 *)
(***************************************************************************)
EXTENDS Integers, Sequences, FiniteSets

CONSTANTS
    Settings,          \* the settings a window may have, see Definitions and FFlags
    MaxRestartCount,   \* maxRestartCount of ClientErrorHandler
    Window,            \* the three minutes of its crash loop test
    Day,               \* the day of shouldFetchDefinitions
    MaxCalls,          \* bound: calls of startLanguageServer
    MaxTime,           \* bound: the clock
    MaxCrashes         \* bound: exits of a server

ASSUME ClientAssumption ==
    /\ MaxRestartCount \in Nat \ {0}
    /\ Window \in Nat /\ Day \in Nat
    /\ MaxCalls \in Nat /\ MaxTime \in Nat /\ MaxCrashes \in Nat

VARIABLES
    settings,    \* the configuration read by every start
    call,        \* call[s]: where call s of startLanguageServer is
    called,      \* calls so far
    client,      \* the variable `client` (0: undefined)
    state,       \* state[s]: the language client that call s created
    owner,       \* the call whose commands are registered (0: none)
    awaited,     \* awaited[s]: the client whose stop() call s awaits
    concurrent,  \* history: a call began while another was under way
    storage,     \* downloaded files in globalStorage
    lastUpdate,  \* globalState "last-api-update"
    handed,      \* handed[s]: what call s gave to its server
    restarts,    \* restarts[s]: ClientErrorHandler.restarts of client s
    granted,     \* history: times at which client s was restarted
    crashes,
    now,
    active       \* the extension is active

startVars == <<settings, call, called, client, owner, awaited, concurrent, storage, lastUpdate, handed>>
serverVars == <<state, restarts, granted, crashes>>
clientVars == <<startVars, serverVars, now, active>>

Calls == 1..MaxCalls
UnderWay(s) == call[s] \in {"stopping", "preparing", "fetched", "starting"}
HasServer(s) == state[s] \in {"starting", "running", "stopping"}

-----------------------------------------------------------------------------
(* Definition files.                                                       *)

\* Mutant: the built-in definitions replace the user's.
BuiltinDefinitions(c) ==
    [p \in DOMAIN c.user \union DOMAIN c.builtin |->
        IF p \in DOMAIN c.builtin THEN c.builtin[p] ELSE c.user[p]]

\* handleExternalFiles: the user's file of a package, else the built-in one.
\* A file is [external |-> .., name |-> ..]; an external one is read from its
\* download in globalStorage, a local one where it is.
Definitions(c) ==
    [p \in DOMAIN c.user \union DOMAIN c.builtin |->
        IF p \in DOMAIN c.user THEN c.user[p] ELSE c.builtin[p]]

External(definitions) ==
    {definitions[p].name : p \in {q \in DOMAIN definitions : definitions[q].external}}

\* Mutant: only the daily update downloads.
MustDownloadDaily(external) == now - lastUpdate > Day

\* anyFileIsMissing || shouldFetchDefinitions; only the second operand has the
\* side effect on lastUpdate, and only when it is evaluated.
MustDownload(external) == ~(external \subseteq storage) \/ now - lastUpdate > Day

FetchDate(external) ==
    IF external \subseteq storage /\ now - lastUpdate > Day THEN now ELSE lastUpdate

\* The --definitions arguments: utils.exists on every file.
DefinitionArgs(c, files) ==
    LET d == Definitions(c)
        path(p) == [package |-> p, file |-> d[p].name]
    IN  {path(p) : p \in {q \in DOMAIN d :
                            IF d[q].external THEN d[q].name \in files ELSE d[q].name \in c.disk}}

-----------------------------------------------------------------------------
(* Fast flags.                                                             *)

\* Mutant: the switch for the new solver is applied last.
SolverOverridesFlags(c, synced) ==
    [f \in DOMAIN synced \union DOMAIN c.override \union (IF c.newSolver THEN {"LuauSolverV2"} ELSE {}) |->
        IF c.newSolver /\ f = "LuauSolverV2" THEN "true"
        ELSE IF f \in DOMAIN c.override THEN c.override[f] ELSE synced[f]]

\* Flags fetched from upstream, then enableNewSolver, then the overrides with
\* a name and a value, the kind prefix stripped.
FFlags(c, synced) ==
    LET valid == {f \in DOMAIN c.override : c.override[f] # ""}
        solver == IF c.newSolver THEN {"LuauSolverV2"} ELSE {}
    IN  [f \in DOMAIN synced \union solver \union valid |->
            IF f \in valid THEN c.override[f]
            ELSE IF f \in solver THEN "true"
            ELSE synced[f]]

-----------------------------------------------------------------------------
(* startLanguageServer.                                                    *)

\* client.stop() of vscode-languageclient: nothing to do for a client that
\* has not started or has stopped; rejected while it starts or when its start
\* failed.
StopResolvesAtOnce(c) == state[c] \in {"initial", "stopped"}
StopRejects(c) == state[c] \in {"starting", "failed"}

\* Mutant: the old client is told to stop and not awaited.
AfterStopWithoutAwait(c) == "preparing"

\* Mutant: the call waits for the exit of a server that may not be there.
AfterStopOfAny(c) == "stopping"

\* Where a call goes after asking client c to stop.
AfterStop(c) ==
    IF StopRejects(c) THEN "failed"
    ELSE IF StopResolvesAtOnce(c) THEN "preparing" ELSE "stopping"

\* The commands of the old client are disposed, then it is stopped.
Call ==
    /\ active
    /\ called < MaxCalls
    /\ called' = called + 1
    /\ concurrent' = (concurrent \/ \E s \in Calls : UnderWay(s))
    /\ owner' = 0
    /\ call' = [call EXCEPT ![called + 1] = IF client = 0 THEN "preparing" ELSE AfterStop(client)]
    /\ awaited' = [awaited EXCEPT ![called + 1] = client]
    /\ state' = IF client # 0 /\ state[client] = "running"
                THEN [state EXCEPT ![client] = "stopping"] ELSE state
    /\ UNCHANGED <<settings, client, storage, lastUpdate, handed, restarts, granted, crashes, now, active>>

\* The server has exited at the client's request; whoever awaits stop() goes on.
Stopped(c) ==
    /\ state[c] = "stopping"
    /\ state' = [state EXCEPT ![c] = "stopped"]
    /\ call' = [s \in Calls |-> IF call[s] = "stopping" /\ awaited[s] = c THEN "preparing" ELSE call[s]]
    /\ UNCHANGED <<settings, called, client, owner, awaited, concurrent, storage, lastUpdate,
                   handed, restarts, granted, crashes, now, active>>

\* handleExternalFiles: a download leaves some of the files on disk, those that
\* failed stay as they were; failures are only shown.
Download(s) ==
    /\ call[s] = "preparing"
    /\ call' = [call EXCEPT ![s] = "fetched"]
    /\ LET external == External(Definitions(settings))
       IN  IF MustDownload(external)
           THEN /\ handed' = [handed EXCEPT ![s].tried = external]
                /\ \E got \in SUBSET external : storage' = storage \union got
                /\ lastUpdate' = FetchDate(external)
           ELSE UNCHANGED <<handed, storage, lastUpdate>>
    /\ UNCHANGED <<settings, called, client, owner, awaited, concurrent, serverVars, now, active>>

\* The rest up to `await client.start()`: arguments and flags, the new client,
\* its commands.  Registering a command that exists throws, with `client`
\* already replaced and the new client not started.
Create(s) ==
    /\ call[s] = "fetched"
    /\ client' = s
    /\ \E synced \in {[f \in {} |-> ""]} \union (IF settings.sync THEN {settings.upstream} ELSE {}) :
          handed' = [handed EXCEPT ![s].definitions = DefinitionArgs(settings, storage),
                                   ![s].fflags = FFlags(settings, synced),
                                   ![s].created = TRUE]
    /\ \/ /\ owner = 0
          /\ owner' = s
          /\ state' = [state EXCEPT ![s] = "starting"]
          /\ call' = [call EXCEPT ![s] = "starting"]
       \/ /\ owner # 0
          /\ state' = [state EXCEPT ![s] = "initial"]
          /\ call' = [call EXCEPT ![s] = "failed"]
          /\ UNCHANGED owner
    /\ UNCHANGED <<settings, called, awaited, concurrent, storage, lastUpdate,
                   restarts, granted, crashes, now, active>>

\* client.start() resolves or rejects; a restart has no call behind it.
ServerStarts(s) ==
    /\ state[s] = "starting"
    /\ \E ok \in BOOLEAN :
          /\ state' = [state EXCEPT ![s] = IF ok THEN "running" ELSE "failed"]
          /\ call' = [call EXCEPT ![s] = IF @ = "starting" THEN (IF ok THEN "done" ELSE "failed") ELSE @]
    /\ UNCHANGED <<settings, called, client, owner, awaited, concurrent, storage, lastUpdate,
                   handed, restarts, granted, crashes, now, active>>

-----------------------------------------------------------------------------
(* ClientErrorHandler.closed.                                              *)

\* Mutant: the oldest exit is never forgotten.
KeepAll(times) == times

\* restarts.shift()
DropOldest(times) == Tail(times)

ServerExits(s) ==
    /\ state[s] = "running"
    /\ crashes < MaxCrashes
    /\ crashes' = crashes + 1
    /\ LET times == Append(restarts[s], now)
           tooMany == Len(times) > MaxRestartCount
           loop == tooMany /\ times[Len(times)] - times[1] <= Window
       IN  /\ restarts' = [restarts EXCEPT ![s] = IF tooMany /\ ~loop THEN DropOldest(times) ELSE times]
           /\ state' = [state EXCEPT ![s] = IF loop THEN "stopped" ELSE "starting"]
           /\ granted' = [granted EXCEPT ![s] = IF loop THEN @ ELSE Append(@, now)]
    /\ UNCHANGED <<startVars, now, active>>

Clock ==
    /\ now < MaxTime
    /\ now' = now + 1
    /\ UNCHANGED <<startVars, serverVars, active>>

\* deactivate
Deactivate ==
    /\ active
    /\ active' = FALSE
    /\ owner' = 0
    /\ state' = IF client # 0 /\ state[client] = "running"
                THEN [state EXCEPT ![client] = "stopping"] ELSE state
    /\ UNCHANGED <<settings, call, called, client, awaited, concurrent, storage, lastUpdate,
                   handed, restarts, granted, crashes, now>>

-----------------------------------------------------------------------------
ClientInit ==
    /\ settings \in Settings
    /\ call = [s \in Calls |-> "none"]
    /\ called = 0
    /\ client = 0
    /\ state = [s \in Calls |-> "none"]
    /\ owner = 0
    /\ awaited = [s \in Calls |-> 0]
    /\ concurrent = FALSE
    /\ storage = {}
    /\ lastUpdate \in {0, -Day - 1}
    /\ handed = [s \in Calls |-> [tried |-> {}, definitions |-> {}, fflags |-> [f \in {} |-> ""],
                                  created |-> FALSE]]
    /\ restarts = [s \in Calls |-> << >>]
    /\ granted = [s \in Calls |-> << >>]
    /\ crashes = 0
    /\ now = 0
    /\ active = TRUE

ClientNext ==
    \/ Call \/ Clock \/ Deactivate
    \/ \E s \in Calls : \/ Stopped(s) \/ Download(s) \/ Create(s)
                        \/ ServerStarts(s) \/ ServerExits(s)

ClientFairness == \A s \in Calls : WF_clientVars(Stopped(s) \/ Download(s) \/ Create(s) \/ ServerStarts(s))

ClientSpec == ClientInit /\ [][ClientNext]_clientVars /\ ClientFairness

-----------------------------------------------------------------------------
(* Properties.                                                             *)

\* No client is restarted more than MaxRestartCount times within the window,
\* over any stretch of its life and not only its first exits.
CrashLoopsEnd ==
    \A s \in Calls : \A i \in DOMAIN granted[s] :
        i + MaxRestartCount \in DOMAIN granted[s]
        => granted[s][i + MaxRestartCount] - granted[s][i] > Window

\* As long as no call of startLanguageServer began while another was under
\* way, there is at most one server process, it is the one `client` refers to,
\* and the registered commands talk to it.
OneServer ==
    ~concurrent => /\ \A s \in Calls : HasServer(s) => s = client
                   /\ owner \in {0, client}

\* A definition package that is configured as a download and that the server
\* was started without was tried at that very start, whatever the date of the
\* last update: a window opened off line recovers with the next reload.
MissingDownloadsAreTried ==
    \A s \in Calls : handed[s].created =>
        LET d == Definitions(settings)
        IN  \A p \in DOMAIN d :
                d[p].external /\ p \notin {a.package : a \in handed[s].definitions}
                => d[p].name \in handed[s].tried

\* What the user configured wins: over the built-in definitions of the same
\* package, and a flag override over upstream and the new solver switch.
SettingsWin ==
    \A s \in Calls : handed[s].created =>
        /\ \A a \in handed[s].definitions :
              a.package \in DOMAIN settings.user => a.file = settings.user[a.package].name
        /\ \A f \in DOMAIN settings.override : settings.override[f] # "" =>
              f \in DOMAIN handed[s].fflags /\ handed[s].fflags[f] = settings.override[f]

\* What the settings ask for reaches the server: all files, unless a download of
\* this call failed, and the user's own before any other.
SettingsReachTheServer == MissingDownloadsAreTried /\ SettingsWin

\* Every call of startLanguageServer ends, also when files are missing, the
\* server does not start or another call is under way.
CallsEnd == \A s \in Calls : UnderWay(s) ~> call[s] \in {"done", "failed"}

=============================================================================
