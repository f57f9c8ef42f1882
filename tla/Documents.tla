----------------------------- MODULE Documents -----------------------------
(***************************************************************************)
(* The documents of a workspace and the caches over them: the files the    *)
(* client has open (managedFiles), their plugin-transformed versions       *)
(* (pluginDocuments), the plugins that transform them, and what the type   *)
(* checker last read of each module                                        *)
(* (Workspace.cpp, WorkspaceFileResolver.cpp, Plugin/PluginManager.cpp).   *)
(*                                                                         *)
(* The worker handles the client's notifications one by one and in order   *)
(* (module MessagePump), so an action is what the user or the file system  *)
(* does together with the handler of the notification it causes; only the  *)
(* file watcher reports later.  The client uses the pull model of          *)
(* diagnostics, in which nothing is checked before it is asked for.        *)
(***************************************************************************)
EXTENDS Naturals

CONSTANTS
    Doc,           \* the source files
    Folder,        \* the workspace folders
    Null,          \* the null workspace
    Under,         \* Under[d]: the folder file d lies under
    Home,          \* the folder that configures a plugin, and contains it
    Text,          \* what a file can contain
    MaxVersion,    \* bound: the highest version of a document
    MaxScript,     \* bound: how often the plugin is rewritten
    Broken,        \* the contents of the plugin file that do not load
    Restarts,      \* a document that is opened again starts at version 1
    HasSourcemap   \* there is a sourcemap, and it is enabled

ASSUME DocumentAssumption ==
    /\ Under \in [Doc -> Folder]
    /\ Home \in Folder
    /\ Null \notin Folder
    /\ MaxVersion \in Nat /\ MaxScript \in Nat
    /\ Restarts \in BOOLEAN /\ HasSourcemap \in BOOLEAN

VARIABLES
    \* the file system and the client
    disk,         \* disk[d]: the text of d on disk
    unseen,       \* the files whose last change the watcher has not reported yet
    editor,       \* editor[d]: the document as the client has it, or Closed
    lastVersion,  \* lastVersion[d]: the last version the client gave d
    script,       \* the content of the plugin file
    scriptUnseen, \* the watcher has not reported its last change yet
    enabled,      \* the configuration of Home enables the plugin
    \* the server
    folders,      \* workspaceFolders
    ready,        \* the workspaces with isReady
    plugin,       \* plugin[w]: the plugin in the list of pluginManager, and its code
    managed,      \* managed[w]: managedFiles
    cache,        \* cache[w]: pluginDocuments
    checked,      \* checked[w][d]: what the type checker read of d
    dirty,        \* dirty[w]: the modules it will read again
    \* history
    moved         \* the known files whose folder was opened or closed

clientVars == <<disk, unseen, editor, lastVersion>>
pluginVars == <<script, scriptUnseen, enabled>>
frontendVars == <<checked, dirty>>
documentVars == <<clientVars, pluginVars, folders, ready, plugin, managed, cache, frontendVars, moved>>

Workspace == Folder \cup {Null}

\* A document as the client or managedFiles has it.
Copy == [version: 0..MaxVersion, text: Text \cup {"garbled"}]

Closed == [version |-> 0, text |-> "garbled"]

\* Source code as the type checker sees it: a text and the plugin code, if any,
\* that transformed it.
Source == [text: Text \cup {"garbled"}, code: 0..MaxScript]

None == [text |-> "none", code |-> 0]

\* An entry of pluginDocuments.
Entry == [version: 0..MaxVersion, of: Source \cup {None}]

NoEntry == [version |-> 0, of |-> None]

\* A plugin that failed to load when it was configured is not in the list.  One
\* that fails to reload stays in the list and transforms nothing (code 0).
NoPlugin == [listed |-> FALSE, code |-> 0]

Loaded(s) == [listed |-> TRUE, code |-> IF s \in Broken THEN 0 ELSE s]

\* findWorkspace: the folder that contains the file, if the client has it open.
FindWorkspace(d) == IF Under[d] \in folders THEN Under[d] ELSE Null

-----------------------------------------------------------------------------
DocumentsInit ==
    /\ disk \in [Doc -> Text]
    /\ unseen = {}
    /\ editor = [d \in Doc |-> Closed]
    /\ lastVersion = [d \in Doc |-> 0]
    /\ script = 1
    /\ scriptUnseen = FALSE
    /\ enabled \in BOOLEAN
    /\ folders \in SUBSET Folder
    /\ ready = {}
    /\ plugin = [w \in Workspace |-> NoPlugin]
    /\ managed = [w \in Workspace |-> [d \in Doc |-> Closed]]
    /\ cache = [w \in Workspace |-> [d \in Doc |-> NoEntry]]
    /\ checked = [w \in Workspace |-> [d \in Doc |-> None]]
    /\ dirty = [w \in Workspace |-> {}]
    /\ moved = {}

-----------------------------------------------------------------------------
(* Setting up a workspace                                                  *)

\* PluginManager::configure: a new manager, with the plugin if it loads.
Configured(w, on) ==
    IF on /\ w = Home /\ script \notin Broken THEN Loaded(script) ELSE NoPlugin

\* lazyInitialize sets the workspace up the first time it is needed.
PluginOf(w) == IF w \in ready THEN plugin[w] ELSE Configured(w, enabled)

LazyInitialize(w) ==
    /\ ready' = ready \cup {w}
    /\ plugin' = [plugin EXCEPT ![w] = PluginOf(w)]

\* A response with the configuration of Home: setupWithConfiguration for a
\* workspace that is ready.  Reading the sourcemap again marks every module
\* dirty (clearSourcemapTypes); configuring the plugins does not.
ChangeConfiguration(on) ==
    /\ enabled' = on
    /\ IF Home \in folders \cap ready
       THEN /\ plugin' = [plugin EXCEPT ![Home] = Configured(Home, on)]
            /\ cache' = [cache EXCEPT ![Home] = [d \in Doc |-> NoEntry]]
            /\ dirty' = IF HasSourcemap THEN [dirty EXCEPT ![Home] = Doc] ELSE dirty
       ELSE UNCHANGED <<plugin, cache, dirty>>
    /\ UNCHANGED <<clientVars, script, scriptUnseen, folders, ready, managed, checked, moved>>

\* The files some workspace has open or has read.
Known(d) == \E w \in Workspace : managed[w][d] # Closed \/ checked[w][d] # None

\* didChangeWorkspaceFolders: a folder that is added starts from nothing, whatever
\* documents under it the client has open, and one that is removed takes its
\* documents with it.
ChangeFolder(f) ==
    /\ folders' = IF f \in folders THEN folders \ {f} ELSE folders \cup {f}
    /\ ready' = ready \ {f}
    /\ plugin' = [plugin EXCEPT ![f] = NoPlugin]
    /\ managed' = [managed EXCEPT ![f] = [d \in Doc |-> Closed]]
    /\ cache' = [cache EXCEPT ![f] = [d \in Doc |-> NoEntry]]
    /\ checked' = [checked EXCEPT ![f] = [d \in Doc |-> None]]
    /\ dirty' = [dirty EXCEPT ![f] = {}]
    /\ moved' = moved \cup {d \in Doc : Under[d] = f /\ Known(d)}
    /\ UNCHANGED <<clientVars, pluginVars>>

-----------------------------------------------------------------------------
(* The client's documents                                                  *)

\* Mutant: the type checker is not told.
MarkNothing(w, d) == UNCHANGED dirty

\* frontend.markDirty, for a module that may never have been read.
MarkDirty(w, d) == dirty' = [dirty EXCEPT ![w] = @ \cup {d}]

\* openTextDocument: emplace keeps an entry that is already there.
Open(d) ==
    /\ editor[d] = Closed
    /\ LET w == FindWorkspace(d)
           opened == [version |-> IF Restarts THEN 1 ELSE lastVersion[d] + 1, text |-> disk[d]]
       IN /\ opened.version <= MaxVersion
          /\ editor' = [editor EXCEPT ![d] = opened]
          /\ lastVersion' = [lastVersion EXCEPT ![d] = opened.version]
          /\ managed' = [managed EXCEPT ![w][d] = IF @ = Closed THEN opened ELSE @]
          /\ MarkDirty(w, d)
          /\ LazyInitialize(w)
    /\ UNCHANGED <<disk, unseen, pluginVars, folders, cache, checked, moved>>

\* Mutant: the edit is applied but the version is not.
EditedInPlace(copy, from, to) ==
    [version |-> copy.version, text |-> IF copy.text = from.text THEN to.text ELSE "garbled"]

\* The client sends the edit and not the text, so an edit only makes sense for
\* the text it was made in.
EditedCopy(copy, from, to) ==
    [version |-> to.version, text |-> IF copy.text = from.text THEN to.text ELSE "garbled"]

\* updateTextDocument.  A document that is not managed is only reported.
Change(d, text) ==
    /\ editor[d] # Closed
    /\ editor[d].version < MaxVersion
    /\ LET w == FindWorkspace(d)
           edited == [version |-> editor[d].version + 1, text |-> text]
       IN /\ editor' = [editor EXCEPT ![d] = edited]
          /\ lastVersion' = [lastVersion EXCEPT ![d] = edited.version]
          /\ LazyInitialize(w)
          /\ IF managed[w][d] = Closed
             THEN UNCHANGED <<managed, cache, dirty>>
             ELSE /\ managed' = [managed EXCEPT ![w][d] = EditedCopy(@, editor[d], edited)]
                  /\ cache' = [cache EXCEPT ![w][d] = NoEntry]
                  /\ MarkDirty(w, d)
    /\ UNCHANGED <<disk, unseen, pluginVars, folders, checked, moved>>

\* The client writes the document to disk; the handler of didSave changes nothing.
Save(d) ==
    /\ editor[d] # Closed
    /\ disk' = [disk EXCEPT ![d] = editor[d].text]
    /\ unseen' = unseen \cup {d}
    /\ LazyInitialize(FindWorkspace(d))
    /\ UNCHANGED <<editor, lastVersion, pluginVars, folders, managed, cache, frontendVars,
                   moved>>

\* closeTextDocument: the edits since the last save are gone.
Close(d) ==
    /\ editor[d] # Closed
    /\ editor' = [editor EXCEPT ![d] = Closed]
    /\ LET w == FindWorkspace(d)
       IN /\ managed' = [managed EXCEPT ![w][d] = Closed]
          /\ MarkDirty(w, d)
          /\ LazyInitialize(w)
    /\ UNCHANGED <<disk, unseen, lastVersion, pluginVars, folders, cache, checked, moved>>

-----------------------------------------------------------------------------
(* The file system and its watcher                                         *)

WriteFile(d, text) ==
    /\ disk[d] # text
    /\ disk' = [disk EXCEPT ![d] = text]
    /\ unseen' = unseen \cup {d}
    /\ UNCHANGED <<editor, lastVersion, pluginVars, folders, ready, plugin, managed, cache,
                   frontendVars, moved>>

\* didChangeWatchedFiles, which a workspace that is not ready does not get.
WatchedFile(d) ==
    /\ d \in unseen
    /\ unseen' = unseen \ {d}
    /\ IF FindWorkspace(d) \in ready
       THEN MarkDirty(FindWorkspace(d), d)
       ELSE UNCHANGED dirty
    /\ UNCHANGED <<disk, editor, lastVersion, pluginVars, folders, ready, plugin, managed,
                   cache, checked, moved>>

WriteScript ==
    /\ script < MaxScript
    /\ script' = script + 1
    /\ scriptUnseen' = TRUE
    /\ UNCHANGED <<clientVars, enabled, folders, ready, plugin, managed, cache, frontendVars,
                   moved>>

\* Mutant: a plugin that is running is not read from its file again.
Restarted == plugin[Home]

\* PluginManager::reload calls load again for the plugins in the list.
Reloaded == Loaded(script)

\* didChangeWatchedFiles for the plugin file: reloadPlugins, if the plugin is in
\* the list.
WatchedScript ==
    /\ scriptUnseen
    /\ scriptUnseen' = FALSE
    /\ IF Home \in folders \cap ready /\ plugin[Home].listed
       THEN /\ plugin' = [plugin EXCEPT ![Home] = Reloaded]
            /\ cache' = [cache EXCEPT ![Home] = [d \in Doc |-> NoEntry]]
            /\ dirty' = [dirty EXCEPT ![Home] = Doc]
       ELSE UNCHANGED <<plugin, cache, dirty>>
    /\ UNCHANGED <<clientVars, script, enabled, folders, ready, managed, checked, moved>>

-----------------------------------------------------------------------------
(* Requests                                                                *)

\* Mutant: an entry is used whatever its version.
CacheHitAnyVersion(w, d) ==
    /\ managed[w][d] # Closed
    /\ PluginOf(w).listed
    /\ cache[w][d] # NoEntry

\* The entry of pluginDocuments is used as long as its version is the document's.
CacheHit(w, d) ==
    /\ managed[w][d] # Closed
    /\ PluginOf(w).listed
    /\ cache[w][d] # NoEntry
    /\ cache[w][d].version = managed[w][d].version

\* getTextDocument and readSource: the managed copy or the file on disk,
\* transformed by the plugin.
SourceOf(w, d) ==
    IF CacheHit(w, d) THEN cache[w][d].of
    ELSE [text |-> IF managed[w][d] = Closed THEN disk[d] ELSE managed[w][d].text,
          code |-> PluginOf(w).code]

\* A request that has d checked.  A module that is clean is not read again.
Analyse(d) ==
    LET w == FindWorkspace(d)
        source == SourceOf(w, d)
    IN /\ LazyInitialize(w)
       /\ checked' = IF checked[w][d] = None \/ d \in dirty[w]
                     THEN [checked EXCEPT ![w][d] = source]
                     ELSE checked
       /\ dirty' = [dirty EXCEPT ![w] = @ \ {d}]
       /\ cache' = IF managed[w][d] # Closed /\ PluginOf(w).code # 0
                   THEN [cache EXCEPT ![w][d] =
                           [version |-> managed[w][d].version, of |-> source]]
                   ELSE cache
       /\ UNCHANGED <<clientVars, pluginVars, folders, managed, moved>>

-----------------------------------------------------------------------------
DocumentsNext ==
    \/ \E d \in Doc :
           \/ Open(d)
           \/ \E text \in Text : Change(d, text) \/ WriteFile(d, text)
           \/ Save(d)
           \/ Close(d)
           \/ WatchedFile(d)
           \/ Analyse(d)
    \/ WriteScript
    \/ WatchedScript
    \/ \E on \in BOOLEAN : ChangeConfiguration(on)
    \/ \E f \in Folder : ChangeFolder(f)

DocumentsSpec == DocumentsInit /\ [][DocumentsNext]_documentVars

-----------------------------------------------------------------------------
(* Properties                                                              *)

\* The server's copy of an open document is the client's, text and version, and
\* it has no copy of a closed one; unless its folder was opened or closed.
CopiesFollowEditor ==
    \A d \in Doc \ moved : managed[FindWorkspace(d)][d] = editor[d]

\* What the file contains for the user: the open document, or the file on disk.
Truth(d) == IF editor[d] = Closed THEN disk[d] ELSE editor[d].text

\* A module the type checker will not read again was read from the text the user
\* has now and with the plugin as it is loaded now, once the watcher reported
\* the last change on disk.
CleanIsCurrent ==
    \A d \in Doc \ moved : LET w == FindWorkspace(d) IN
        /\ checked[w][d] # None
        /\ d \notin dirty[w]
        /\ editor[d] = Closed => d \notin unseen
        => checked[w][d] = [text |-> Truth(d), code |-> plugin[w].code]

\* A transformed document that getTextDocument would return holds the text that
\* the user sees, transformed by the plugin as it is loaded.
\* (PluginTextDocument.hpp:8-9)
TransformedIsCurrent ==
    \A d \in Doc \ moved : LET w == FindWorkspace(d) IN
        CacheHit(w, d) => cache[w][d].of = [text |-> Truth(d), code |-> plugin[w].code]

\* A plugin in use is the one in the plugin file, once the watcher reported its last
\* change, also after contents that did not load.  (Plugin/README.md:52)
PluginsHotReload ==
    /\ enabled
    /\ Home \in folders \cap ready
    /\ plugin[Home].listed
    /\ ~scriptUnseen
    => plugin[Home].code = Loaded(script).code

\* The analysed text is the user's, transformed by the plugin as it is in its file.
TransformsAreCurrent == TransformedIsCurrent /\ PluginsHotReload
=============================================================================
