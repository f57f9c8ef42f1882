---------------------------- MODULE MessagePump ----------------------------
(***************************************************************************)
(* The two threads of the language server and the messages between them    *)
(* (LanguageServer.cpp, Client.cpp, operations/Diagnostics.cpp).           *)
(*                                                                         *)
(* The input thread (processInputLoop) reads the client's messages, makes  *)
(* a cancellation token for every request and pushes the message on        *)
(* "messages".  The worker thread (messageProcessorThread) pops and        *)
(* handles them one by one.  Requests and workspace notifications that     *)
(* arrive while a workspace folder has no configuration are postponed, and *)
(* drained by the response that brings the last configuration.             *)
(*                                                                         *)
(* A client message is a value of Msg of its own and is sent at most once, *)
(* which is what makes request ids unique.  The client uses the pull model *)
(* of diagnostics, the only one in which it asks for workspace/diagnostic. *)
(***************************************************************************)
EXTENDS Naturals, Sequences

CONSTANTS
    Msg,         \* the messages the client may send
    Kind,        \* Kind[m]: what message m is
    Folder,      \* the workspace folders there may be
    Initial,     \* the folders named by the initialize request
    Null,        \* the null workspace, of files outside every folder
    Target,      \* Target[m]: the folder that the document of m lies under
    Added,       \* Added[m]: the folders a "folders" notification adds
    Removed,     \* Removed[m]: the folders it removes
    Configures,  \* the client supports workspace/configuration
    NoMsg        \* no message

RequestKind == {"initialize", "document", "report", "stream", "shutdown"}

NotificationKind ==
    {"initialized", "edit", "folders", "configuration", "luaurc", "exit"}

ASSUME MessageAssumption ==
    /\ Kind \in [Msg -> RequestKind \cup NotificationKind]
    /\ NoMsg \notin Msg

ASSUME FolderAssumption ==
    /\ Null \notin Folder
    /\ Initial \subseteq Folder
    /\ Target \in [Msg -> Folder \cup {Null}]
    /\ Added \in [Msg -> SUBSET Folder]
    /\ Removed \in [Msg -> SUBSET Folder]
    /\ Configures \in BOOLEAN

VARIABLES
    \* the input thread and the process
    process,            \* "running", "exited" or "crashed"
    input,              \* "reading" or "joining" (inside shutdown())
    received,           \* the messages read so far
    before,             \* before[m]: the messages read before m
    shutdownId,         \* the shutdown request being served
    \* shared by the threads, under messagesMutex
    shutdownRequested,
    messages,           \* the queue between the threads
    tokens,             \* the requests with an entry in cancellationTokens
    cancelled,          \* those whose token was cancelled
    \* the worker thread
    pc,                 \* "idle", "dispatch", "running", "clearing", "stopped"
    current,            \* the message in handleMessage
    postponed,          \* configPostponedMessages
    draining,           \* the worker is in the loop over configPostponedMessages
    batch,              \* what that loop has still to visit
    isInitialized,
    folders,            \* workspaceFolders
    configured,         \* the folders with hasConfiguration
    ready,              \* the workspaces with isReady
    streamId,           \* workspaceDiagnosticsRequestId
    streamToken,        \* workspaceDiagnosticsToken is set
    handlers,           \* responseHandler: the configuration requests with a handler
    \* the client
    asked,              \* asked[m]: the workspaces m made the server ask about
    outstanding,        \* the configuration requests the client has not answered
    \* what was written to the client, and what was decided
    replies,            \* replies[m]: the responses written for request m
    handled,            \* the messages the worker decided on
    turnedDown          \* the messages the input thread refused after shutdown

inputVars  == <<process, input, received, before, shutdownId>>
sharedVars == <<shutdownRequested, messages, tokens, cancelled>>
workerVars == <<pc, current, postponed, draining, batch>>
folderVars == <<isInitialized, folders, configured, ready>>
streamVars == <<streamId, streamToken>>
configVars == <<handlers, asked, outstanding>>
outputVars == <<replies, handled, turnedDown>>
vars == <<inputVars, sharedVars, workerVars, folderVars, streamVars, configVars,
          outputVars>>

-----------------------------------------------------------------------------
(* Messages                                                                *)

IsRequest(m) == Kind[m] \in RequestKind

\* Postponed until every folder has its configuration: every request, and the
\* notifications whose method starts with textDocument/ or workspace/.
RequiresWorkspace(m) ==
    IsRequest(m) \/ Kind[m] \in {"edit", "folders", "configuration", "luaurc"}

Workspace == Folder \cup {Null}

\* An entry of the queue: a request or notification, or the client's response
\* to the configuration request that message "of" caused, with a configuration
\* for the workspaces in "gives".
Item == [isResponse: BOOLEAN, of: Msg, gives: SUBSET Workspace]

Call(m) == [isResponse |-> FALSE, of |-> m, gives |-> {}]

Response(m, gives) == [isResponse |-> TRUE, of |-> m, gives |-> gives]

\* What "current" is before the first message.
Nothing == [isResponse |-> TRUE, of |-> NoMsg, gives |-> {}]

Outcome == {"result", "ServerNotInitialized", "InvalidRequest", "RequestCancelled",
            "ServerCancelled", "InternalError"}

Elems(s) == {s[i] : i \in 1..Len(s)}

AllConfigured == folders \subseteq configured

\* findWorkspace, for a document whose folder may have been closed
FindWorkspace(f) == IF f \in folders THEN f ELSE Null

Running == process = "running"

-----------------------------------------------------------------------------
Init ==
    /\ process = "running"
    /\ input = "reading"
    /\ received = {}
    /\ before = [m \in Msg |-> {}]
    /\ shutdownId = NoMsg
    /\ shutdownRequested = FALSE
    /\ messages = <<>>
    /\ tokens = {}
    /\ cancelled = {}
    /\ pc = "idle"
    /\ current = Nothing
    /\ postponed = <<>>
    /\ draining = FALSE
    /\ batch = <<>>
    /\ isInitialized = FALSE
    /\ folders = {}
    /\ configured = {}
    /\ ready = {}
    /\ streamId = NoMsg
    /\ streamToken = FALSE
    /\ handlers = {}
    /\ asked = [m \in Msg |-> {}]
    /\ outstanding = {}
    /\ replies = [m \in Msg |-> <<>>]
    /\ handled = {}
    /\ turnedDown = {}

-----------------------------------------------------------------------------
(* The input thread                                                        *)

WasSent(kind) == \E m \in received : Kind[m] = kind

\* What a client that follows the protocol sends: "initialized" once initialize
\* was answered, nothing between the two, and one streaming workspace/diagnostic
\* at a time.
MaySend(m) ==
    /\ m \in Msg \ received
    /\ CASE Kind[m] = "initialized" ->
                \E i \in received : Kind[i] = "initialize" /\ replies[i] = <<"result">>
         [] Kind[m] = "stream" ->
                /\ WasSent("initialize") => WasSent("initialized")
                /\ \A s \in received : Kind[s] = "stream" => replies[s] # <<>>
         [] OTHER -> WasSent("initialize") => WasSent("initialized")

\* The input thread reads message m from the transport.
Read(m) ==
    /\ Running
    /\ input = "reading"
    /\ MaySend(m)
    /\ received' = received \cup {m}
    /\ before' = [before EXCEPT ![m] = received]

\* A request or notification before shutdown: a request gets its token, and the
\* message goes to the worker.
Receive(m) ==
    /\ Read(m)
    /\ Kind[m] \notin {"shutdown", "exit"}
    /\ ~shutdownRequested
    /\ tokens' = IF IsRequest(m) THEN tokens \cup {m} ELSE tokens
    /\ messages' = Append(messages, Call(m))
    /\ UNCHANGED <<process, input, shutdownId, shutdownRequested, cancelled, workerVars,
                   folderVars, streamVars, configVars, outputVars>>

\* Once shutdown was requested every message is answered with an error.  One that
\* answers no request, because m is a notification, is not part of the model.
ReceiveAfterShutdown(m) ==
    /\ Read(m)
    /\ Kind[m] \notin {"shutdown", "exit"}
    /\ shutdownRequested
    /\ turnedDown' = turnedDown \cup {m}
    /\ IF IsRequest(m)
       THEN replies' = [replies EXCEPT ![m] = Append(@, "InvalidRequest")]
       ELSE UNCHANGED replies
    /\ UNCHANGED <<process, input, shutdownId, sharedVars, workerVars, folderVars,
                   streamVars, configVars, handled>>

\* shutdown(): set the flag, wake the worker and join it.
ReceiveShutdown(m) ==
    /\ Read(m)
    /\ Kind[m] = "shutdown"
    /\ ~shutdownRequested
    /\ shutdownRequested' = TRUE
    /\ input' = "joining"
    /\ shutdownId' = m
    /\ UNCHANGED <<process, messages, tokens, cancelled, workerVars, folderVars,
                   streamVars, configVars, outputVars>>

\* Mutant: shutdown() does not wait for the worker.
NotJoined ==
    /\ Running
    /\ input = "joining"
    /\ input' = "reading"
    /\ shutdownId' = NoMsg
    /\ replies' = [replies EXCEPT ![shutdownId] = Append(@, "result")]
    /\ UNCHANGED <<process, received, before, sharedVars, workerVars, folderVars,
                   streamVars, configVars, handled, turnedDown>>

\* The worker ended: shutdown() returns and its request is answered.
Joined ==
    /\ Running
    /\ input = "joining"
    /\ pc = "stopped"
    /\ input' = "reading"
    /\ shutdownId' = NoMsg
    /\ replies' = [replies EXCEPT ![shutdownId] = Append(@, "result")]
    /\ UNCHANGED <<process, received, before, sharedVars, workerVars, folderVars,
                   streamVars, configVars, handled, turnedDown>>

\* A second shutdown joins a thread that is no longer joinable: Thread::join
\* throws std::system_error, which nothing on the input thread catches.
ReceiveSecondShutdown(m) ==
    /\ Read(m)
    /\ Kind[m] = "shutdown"
    /\ shutdownRequested
    /\ process' = "crashed"
    /\ UNCHANGED <<input, shutdownId, sharedVars, workerVars, folderVars, streamVars,
                   configVars, outputVars>>

\* std::exit on the input thread, whatever the worker is doing.
ReceiveExit(m) ==
    /\ Read(m)
    /\ Kind[m] = "exit"
    /\ process' = "exited"
    /\ UNCHANGED <<input, shutdownId, sharedVars, workerVars, folderVars, streamVars,
                   configVars, outputVars>>

\* The client cancels request m, which may already be answered.  The token is
\* flagged by the input thread, ahead of everything in the queue.  After shutdown a
\* cancellation is refused like every message.
Cancel(m) ==
    /\ Running
    /\ input = "reading"
    /\ m \in received
    /\ IsRequest(m)
    /\ ~shutdownRequested
    /\ cancelled' = cancelled \cup ({m} \cap tokens)
    /\ UNCHANGED <<inputVars, shutdownRequested, messages, tokens, workerVars, folderVars,
                   streamVars, configVars, replies, handled, turnedDown>>

\* The client answers the configuration request that m caused: with a
\* configuration for each workspace asked about, or with an error.
ClientResponds(m) ==
    /\ Running
    /\ input = "reading"
    /\ m \in outstanding
    /\ outstanding' = outstanding \ {m}
    /\ IF shutdownRequested
       THEN UNCHANGED messages
       ELSE \E gives \in {asked[m], {}} : messages' = Append(messages, Response(m, gives))
    /\ UNCHANGED <<inputVars, shutdownRequested, tokens, cancelled, workerVars, folderVars,
                   streamVars, handlers, asked, replies, handled, turnedDown>>

\* The client closes the pipe: processInputLoop returns.  A worker that was
\* never joined is still joinable, and ~Thread then calls std::terminate.
EndOfInput ==
    /\ Running
    /\ input = "reading"
    /\ process' = IF shutdownRequested THEN "exited" ELSE "crashed"
    /\ UNCHANGED <<input, received, before, shutdownId, sharedVars, workerVars, folderVars,
                   streamVars, configVars, outputVars>>

-----------------------------------------------------------------------------
(* The worker thread: popMessage, and the loop over postponed messages     *)

Pop ==
    /\ Running
    /\ pc = "idle"
    /\ ~draining
    /\ ~shutdownRequested
    /\ messages # <<>>
    /\ current' = Head(messages)
    /\ messages' = Tail(messages)
    /\ pc' = "dispatch"
    /\ UNCHANGED <<inputVars, shutdownRequested, tokens, cancelled, postponed, draining,
                   batch, folderVars, streamVars, configVars, outputVars>>

\* Mutant: the worker ends only with an empty queue.
StopWhenEmpty ==
    /\ Running
    /\ pc = "idle"
    /\ ~draining
    /\ shutdownRequested
    /\ messages = <<>>
    /\ pc' = "stopped"
    /\ UNCHANGED <<inputVars, sharedVars, current, postponed, draining, batch, folderVars,
                   streamVars, configVars, outputVars>>

\* popMessage returns nothing once shutdown was requested, however long the queue.
Stop ==
    /\ Running
    /\ pc = "idle"
    /\ ~draining
    /\ shutdownRequested
    /\ pc' = "stopped"
    /\ UNCHANGED <<inputVars, sharedVars, current, postponed, draining, batch, folderVars,
                   streamVars, configVars, outputVars>>

DrainNext ==
    /\ Running
    /\ pc = "idle"
    /\ draining
    /\ batch # <<>>
    /\ current' = Call(Head(batch))
    /\ batch' = Tail(batch)
    /\ pc' = "dispatch"
    /\ UNCHANGED <<inputVars, sharedVars, postponed, draining, folderVars, streamVars,
                   configVars, outputVars>>

\* Mutant: the list is not cleared and is run through again.
DrainEndKeeping ==
    /\ Running
    /\ pc = "idle"
    /\ draining
    /\ batch = <<>>
    /\ draining' = FALSE
    /\ UNCHANGED <<inputVars, sharedVars, pc, current, postponed, batch, folderVars,
                   streamVars, configVars, outputVars>>

\* configPostponedMessages.clear(), with whatever was appended during the loop.
DrainEnd ==
    /\ Running
    /\ pc = "idle"
    /\ draining
    /\ batch = <<>>
    /\ draining' = FALSE
    /\ postponed' = <<>>
    /\ UNCHANGED <<inputVars, sharedVars, pc, current, batch, folderVars, streamVars,
                   configVars, outputVars>>

-----------------------------------------------------------------------------
(* handleMessage: requests                                                 *)

\* The worker has m, a request or notification, in handleMessage.
Dispatching(m) ==
    /\ Running
    /\ pc = "dispatch"
    /\ current = Call(m)

\* Mutant: notifications are not held back.
MustPostponeRequest(m) == isInitialized /\ ~AllConfigured /\ IsRequest(m)

MustPostpone(m) == isInitialized /\ ~AllConfigured /\ RequiresWorkspace(m)

\* Mutant: the request branch returns without emplace_back.
SetAsideNotification(m) ==
    postponed' = IF IsRequest(m) THEN postponed ELSE Append(postponed, m)

SetAside(m) == postponed' = Append(postponed, m)

\* Inside the loop over configPostponedMessages the append may reallocate the
\* vector under the loop's iterators.
Postpone(m) ==
    /\ Dispatching(m)
    /\ MustPostpone(m)
    /\ SetAside(m)
    /\ pc' = "idle"
    /\ process' \in IF draining THEN {"running", "crashed"} ELSE {"running"}
    /\ UNCHANGED <<input, received, before, shutdownId, sharedVars, current, draining,
                   batch, folderVars, streamVars, configVars, outputVars>>

\* Mutant: the error paths of handleMessage leave the token behind.
ReplyKeepingToken(m, outcome) ==
    /\ replies' = [replies EXCEPT ![m] = Append(@, outcome)]
    /\ pc' = IF outcome = "result" THEN "clearing" ELSE "idle"

\* sendResponse or sendError, after which the token is cleared.
Reply(m, outcome) ==
    /\ replies' = [replies EXCEPT ![m] = Append(@, outcome)]
    /\ pc' = "clearing"

\* Mutant: a request that was cancelled while it waited is served all the same.
EntryErrorsButCancelled(m) ==
    CASE ~isInitialized /\ Kind[m] # "initialize" -> {"ServerNotInitialized"}
      [] (isInitialized \/ Kind[m] = "initialize") /\ shutdownRequested -> {"InvalidRequest"}
      [] OTHER -> {}

\* The errors onRequest throws before it looks at the method.
EntryErrors(m) ==
    CASE ~isInitialized /\ Kind[m] # "initialize" -> {"ServerNotInitialized"}
      [] (isInitialized \/ Kind[m] = "initialize") /\ shutdownRequested -> {"InvalidRequest"}
      [] OTHER -> IF m \in cancelled THEN {"RequestCancelled"} ELSE {}

Refuse(m) ==
    /\ Dispatching(m)
    /\ IsRequest(m)
    /\ ~MustPostpone(m)
    /\ \E e \in EntryErrors(m) : Reply(m, e)
    /\ handled' = handled \cup {m}
    /\ UNCHANGED <<inputVars, sharedVars, current, postponed, draining, batch, folderVars,
                   streamVars, configVars, turnedDown>>

Start(m) ==
    /\ Dispatching(m)
    /\ IsRequest(m)
    /\ ~MustPostpone(m)
    /\ EntryErrors(m) = {}
    /\ handled' = handled \cup {m}
    /\ pc' = "running"
    /\ UNCHANGED <<inputVars, sharedVars, current, postponed, draining, batch, folderVars,
                   streamVars, configVars, replies, turnedDown>>

\* The worker has request m of the given kind in its handler.
Serving(m, kind) ==
    /\ Running
    /\ pc = "running"
    /\ current = Call(m)
    /\ Kind[m] = kind

OnInitialize(m) ==
    /\ Serving(m, "initialize")
    /\ folders' = Initial
    /\ isInitialized' = TRUE
    /\ Reply(m, "result")
    /\ UNCHANGED <<inputVars, sharedVars, current, postponed, draining, batch, configured,
                   ready, streamVars, configVars, handled, turnedDown>>

\* Mutant: the streaming request is forgotten without an answer.
ForgetStream ==
    /\ streamId' = NoMsg
    /\ streamToken' = FALSE
    /\ UNCHANGED replies

\* recomputeDiagnostics for a pull client: terminateWorkspaceDiagnostics answers
\* the streaming request, which the client is then to send again.
TerminateStream ==
    /\ streamId' = NoMsg
    /\ streamToken' = FALSE
    /\ replies' = IF streamId = NoMsg THEN replies
                  ELSE [replies EXCEPT ![streamId] = Append(@, "ServerCancelled")]

\* Setting a folder up reads its sourcemap, and with strict DataModel types that has
\* the diagnostics recomputed.
LazyInitialize(w) ==
    /\ ready' = ready \cup {w}
    /\ \/ UNCHANGED <<streamVars, replies>>
       \/ w \in Folder \ ready /\ TerminateStream

\* A request about a document: findWorkspace initialises the workspace.
InitializeWorkspace(m) ==
    /\ Serving(m, "document")
    /\ FindWorkspace(Target[m]) \notin ready
    /\ LazyInitialize(FindWorkspace(Target[m]))
    /\ UNCHANGED <<inputVars, sharedVars, workerVars, isInitialized, folders, configured,
                   configVars, handled, turnedDown>>

\* The handler notices a cancellation only at its own check points, or fails, which it
\* may do before it looked for the workspace.
OnDocumentRequest(m) ==
    /\ Serving(m, "document")
    /\ \/ Reply(m, "InternalError")
       \/ /\ FindWorkspace(Target[m]) \in ready
          /\ Reply(m, "result") \/ (m \in cancelled /\ Reply(m, "RequestCancelled"))
    /\ UNCHANGED <<inputVars, sharedVars, current, postponed, draining, batch, folderVars,
                   streamVars, configVars, handled, turnedDown>>

\* Mutant: onRequest goes on to sendResponse after it remembered the id.
LeaveOpenAndReply(m) ==
    /\ streamId' = m
    /\ Reply(m, "result")

\* onRequest returns without a response and remembers the request.
LeaveOpen(m) ==
    /\ streamId' = m
    /\ pc' = "clearing"
    /\ UNCHANGED replies

\* workspace/diagnostic.  A folder that was not initialised yet cancels it; with
\* a partial result token there is no response yet.
OnWorkspaceDiagnostic(m) ==
    /\ \E kind \in {"report", "stream"} : Serving(m, kind)
    /\ \/ /\ ~(folders \subseteq ready)
          /\ Reply(m, "ServerCancelled")
          /\ UNCHANGED streamVars
       \/ /\ folders \subseteq ready
          /\ Kind[m] = "report"
          /\ streamToken' = FALSE
          /\ Reply(m, "result")
          /\ UNCHANGED streamId
       \/ /\ folders \subseteq ready
          /\ Kind[m] = "stream"
          /\ streamToken' = TRUE
          /\ LeaveOpen(m)
    /\ UNCHANGED <<inputVars, sharedVars, current, postponed, draining, batch, folderVars,
                   configVars, handled, turnedDown>>

ClearCancellationToken ==
    /\ Running
    /\ pc = "clearing"
    /\ tokens' = tokens \ {current.of}
    /\ cancelled' = cancelled \ {current.of}
    /\ pc' = "idle"
    /\ UNCHANGED <<inputVars, shutdownRequested, messages, current, postponed, draining,
                   batch, folderVars, streamVars, configVars, outputVars>>

-----------------------------------------------------------------------------
(* handleMessage: notifications                                            *)

\* The worker is done with notification m.
Finishes(m) ==
    /\ Dispatching(m)
    /\ ~IsRequest(m)
    /\ ~MustPostpone(m)
    /\ handled' = handled \cup {m}
    /\ pc' = "idle"

\* onNotification ignores everything before initialize and after shutdown.
Drop(m) ==
    /\ Finishes(m)
    /\ ~isInitialized \/ shutdownRequested
    /\ UNCHANGED <<inputVars, sharedVars, current, postponed, draining, batch, folderVars,
                   streamVars, configVars, replies, turnedDown>>

Notified(m, kind) ==
    /\ Finishes(m)
    /\ isInitialized
    /\ ~shutdownRequested
    /\ Kind[m] = kind

RequestConfiguration(m, workspaces) ==
    /\ asked' = [asked EXCEPT ![m] = workspaces]
    /\ handlers' = handlers \cup {m}
    /\ outstanding' = outstanding \cup {m}

\* A client that does not support workspace/configuration leaves the folders on
\* the global configuration.
OnInitialized(m) ==
    /\ Notified(m, "initialized")
    /\ IF Configures
       THEN /\ RequestConfiguration(m, folders \cup {Null})
            /\ UNCHANGED configured
       ELSE /\ configured' = configured \cup folders
            /\ UNCHANGED configVars
    /\ UNCHANGED <<inputVars, sharedVars, current, postponed, draining, batch,
                   isInitialized, folders, ready, streamVars, replies, turnedDown>>

OnDidChangeConfiguration(m) ==
    /\ Notified(m, "configuration")
    /\ IF Configures
       THEN RequestConfiguration(m, folders \cup {Null})
       ELSE UNCHANGED configVars
    /\ UNCHANGED <<inputVars, sharedVars, current, postponed, draining, batch, folderVars,
                   streamVars, replies, turnedDown>>

\* The configuration of the added folders is requested whether or not the client
\* supports it.  After an erase the code reads through the iterator to the next
\* folder; when the last folder was erased there is none.
OnDidChangeWorkspaceFolders(m) ==
    /\ Notified(m, "folders")
    /\ folders' = (folders \ Removed[m]) \cup Added[m]
    /\ configured' = configured \ (Removed[m] \cup Added[m])
    /\ ready' = ready \ (Removed[m] \cup Added[m])
    /\ RequestConfiguration(m, Added[m])
    /\ process' \in IF folders \cap Removed[m] # {} THEN {"running", "crashed"} ELSE {"running"}
    /\ UNCHANGED <<input, received, before, shutdownId, sharedVars, current, postponed,
                   draining, batch, isInitialized, streamVars, replies, turnedDown>>

\* textDocument/didOpen, didChange, didSave and didClose.
OnTextDocument(m) ==
    /\ Notified(m, "edit")
    /\ LazyInitialize(FindWorkspace(Target[m]))
    /\ UNCHANGED <<inputVars, sharedVars, current, postponed, draining, batch,
                   isInitialized, folders, configured, configVars, turnedDown>>

\* workspace/didChangeWatchedFiles with a changed .luaurc, or a changed sourcemap when
\* DataModel types are strict.
OnConfigFileChanged(m) ==
    /\ Notified(m, "luaurc")
    /\ IF FindWorkspace(Target[m]) \in ready
       THEN TerminateStream
       ELSE UNCHANGED <<streamVars, replies>>
    /\ UNCHANGED <<inputVars, sharedVars, current, postponed, draining, batch, folderVars,
                   configVars, turnedDown>>

-----------------------------------------------------------------------------
(* handleMessage: the client's responses                                   *)

\* Mutant: the null workspace, or a folder closed meanwhile, counts as a folder.
MarkedUnchecked(gives) == gives

\* configChangedCallback: the folders whose hasConfiguration it sets.
Marked(gives) == gives \cap folders

\* Mutant: the folders are looked at before the response was handled.
DrainsBefore == postponed # <<>> /\ folders \subseteq configured

\* Whether the response was the last one the postponed messages wait for.
Drains == postponed # <<>> /\ folders \subseteq configured'

\* handleResponse calls the handler that requestConfiguration registered, which
\* stores each configuration and calls configChangedCallback.  If all folders
\* are configured now, the postponed messages are handled next.
OnResponse ==
    /\ Running
    /\ pc = "dispatch"
    /\ current.isResponse
    /\ handlers' = handlers \ {current.of}
    /\ LET gives == IF current.of \in handlers THEN current.gives ELSE {}
       IN /\ configured' = configured \cup Marked(gives)
          /\ IF \E f \in gives : FindWorkspace(f) \in ready
             THEN TerminateStream
             ELSE UNCHANGED <<streamVars, replies>>
    /\ draining' = Drains
    /\ batch' = IF draining' THEN postponed ELSE <<>>
    /\ pc' = "idle"
    /\ UNCHANGED <<inputVars, sharedVars, current, postponed, isInitialized, folders,
                   ready, asked, outstanding, handled, turnedDown>>

-----------------------------------------------------------------------------
\* The protocol ends when the process does, or when the client has nothing left
\* to send.
Terminated ==
    /\ ~Running
    /\ UNCHANGED vars

InputThread ==
    \/ \E m \in Msg :
           \/ Receive(m)
           \/ ReceiveAfterShutdown(m)
           \/ ReceiveShutdown(m)
           \/ ReceiveSecondShutdown(m)
           \/ ReceiveExit(m)
           \/ Cancel(m)
           \/ ClientResponds(m)
    \/ Joined
    \/ EndOfInput

WorkerThread ==
    \/ Pop
    \/ Stop
    \/ DrainNext
    \/ DrainEnd
    \/ \E m \in Msg :
           \/ Postpone(m)
           \/ Refuse(m)
           \/ Start(m)
           \/ OnInitialize(m)
           \/ InitializeWorkspace(m)
           \/ OnDocumentRequest(m)
           \/ OnWorkspaceDiagnostic(m)
           \/ Drop(m)
           \/ OnInitialized(m)
           \/ OnDidChangeConfiguration(m)
           \/ OnDidChangeWorkspaceFolders(m)
           \/ OnTextDocument(m)
           \/ OnConfigFileChanged(m)
    \/ ClearCancellationToken
    \/ OnResponse

Next == InputThread \/ WorkerThread \/ Terminated

Spec == Init /\ [][Next]_vars

\* The operating system runs the worker whenever it can run, and lets the input
\* thread return from join; a client keeps to the protocol by answering the
\* server's requests.
FairSpec ==
    /\ Spec
    /\ WF_vars(WorkerThread)
    /\ WF_vars(Joined)
    /\ \A m \in Msg : WF_vars(ClientResponds(m))

-----------------------------------------------------------------------------
(* Properties                                                              *)

\* Type correctness of the server's state.
TypeOK ==
    /\ process \in {"running", "exited", "crashed"}
    /\ input \in {"reading", "joining"}
    /\ received \subseteq Msg
    /\ before \in [Msg -> SUBSET Msg]
    /\ shutdownId \in Msg \cup {NoMsg}
    /\ shutdownRequested \in BOOLEAN
    /\ messages \in Seq(Item)
    /\ tokens \subseteq Msg
    /\ cancelled \subseteq Msg
    /\ pc \in {"idle", "dispatch", "running", "clearing", "stopped"}
    /\ current \in Item \cup {Nothing}
    /\ postponed \in Seq(Msg)
    /\ draining \in BOOLEAN
    /\ batch \in Seq(Msg)
    /\ isInitialized \in BOOLEAN
    /\ folders \subseteq Folder
    /\ configured \subseteq Folder
    /\ ready \subseteq Workspace
    /\ streamId \in Msg \cup {NoMsg}
    /\ streamToken \in BOOLEAN
    /\ handlers \subseteq Msg
    /\ asked \in [Msg -> SUBSET Workspace]
    /\ outstanding \subseteq Msg
    /\ replies \in [Msg -> Seq(Outcome)]
    /\ handled \subseteq Msg
    /\ turnedDown \subseteq Msg

\* A request is answered at most once, whichever thread answers it and however
\* cancellation, postponement, streaming and shutdown come together.
AtMostOneReply == \A m \in Msg : Len(replies[m]) <= 1

\* The messages put aside that the worker will still come to, in their order.
Backlog == IF draining THEN batch ELSE postponed

\* The places in which the server holds message m and may still come to it.
Queued(m) == Call(m) \in Elems(messages)

Held(m) == m \in Elems(Backlog)

InHand(m) == pc \in {"dispatch", "running"} /\ current = Call(m)

Waiting(m) == Queued(m) \/ Held(m) \/ InHand(m)

\* No request is forgotten: until it is answered it waits in the queue, among
\* the postponed messages, in the worker's hand, as the streaming request, or it
\* is the shutdown request being served.
NoRequestForgotten ==
    \A m \in received :
        IsRequest(m) /\ replies[m] = <<>> /\ Running => Waiting(m) \/ m \in {streamId, shutdownId}

\* A message that needs a workspace is handled only after every such message
\* that the client sent before it: an answer never misses an earlier edit, and no
\* edit is applied out of order, postponed or not.
SeesEarlierMessages ==
    \A m \in handled : \A b \in before[m] :
        RequiresWorkspace(m) /\ RequiresWorkspace(b) /\ Kind[b] # "shutdown" => b \in handled

\* Cancellation tokens do not leak: one exists only for a request that is still
\* waiting or whose token the worker is about to clear.
TokenOnlyWhilePending ==
    \A m \in tokens : Running => Waiting(m) \/ (pc = "clearing" /\ current = Call(m))

\* The response to shutdown is the last one the worker has any part in: once it
\* is written, only the input thread answers, and only with InvalidRequest.
NothingAfterShutdown ==
    [][\A s, m \in Msg :
           /\ Kind[s] = "shutdown"
           /\ replies[s] # <<>>
           /\ replies'[m] # replies[m]
           => m \notin received /\ replies'[m] = <<"InvalidRequest">>]_vars

\* What a client may rely on for one request (RequestLifecycle): among others that
\* a request cancelled while it waited is never started, and that RequestCancelled
\* answers only what the client cancelled.
Requests == {m \in Msg : IsRequest(m) /\ Kind[m] # "shutdown"}

LifeState ==
    [m \in Requests |->
        IF m \notin received THEN "unsent"
        ELSE IF replies[m] # <<>> THEN "answered"
        ELSE IF m \in handled THEN "started" ELSE "waiting"]

Cancelling == {m \in cancelled : replies[m] = <<>>}

Answers == [m \in Requests |-> replies[m]]

Lifecycle == INSTANCE RequestLifecycle WITH
    Request <- Requests, state <- LifeState, cancelling <- Cancelling, answers <- Answers

\* The pump implements the abstract life of a request.
ImplementsLifecycle == Lifecycle!Spec

\* A postponed message leaves the list only by being handled.
\* (Workspace.hpp:41: messages are postponed until configuration is received.)
PostponedIsHandled ==
    [][\A m \in Elems(postponed) \ Elems(postponed') : m \in handled]_vars

\* Every request that was received is answered in the end, if the configuration
\* of the folders arrives and the server is not told to stop; a streaming
\* request may stay open.
EventuallyAnswered ==
    \/ <>[](~AllConfigured)
    \/ \A m \in Msg : (m \in received /\ IsRequest(m) /\ Kind[m] # "stream")
                          ~> (replies[m] # <<>> \/ shutdownRequested \/ ~Running)

\* The shutdown request is answered: the worker always reaches the point where
\* it sees the flag, even from the middle of the postponed messages.
ShutdownIsAnswered == (shutdownRequested /\ Running) ~> (input = "reading" \/ ~Running)

-----------------------------------------------------------------------------
(* The inductive invariant behind AtMostOneReply.  A message is in one     *)
(* place at a time, and a response is written only when it leaves the last *)
(* one.                                                                    *)

NoDuplicates(s) == \A i, j \in 1..Len(s) : s[i] = s[j] => i = j

\* A response of the client may look like another; a request or notification is
\* in the queue once.
CallsOnce(s) == \A i, j \in 1..Len(s) : s[i] = s[j] /\ ~s[i].isResponse => i = j

OnePlace ==
    /\ CallsOnce(messages)
    /\ NoDuplicates(Backlog)
    /\ \A m \in Msg : Queued(m) => ~Held(m)
    /\ \A m \in Msg : pc = "dispatch" /\ current = Call(m) => ~Queued(m) /\ ~Held(m)
    /\ pc = "dispatch" /\ current.isResponse => ~draining

\* What is still to be dispatched was received and not decided on.
Undecided ==
    \A m \in Msg :
        Queued(m) \/ Held(m) \/ (pc = "dispatch" /\ current = Call(m))
        => /\ m \in received
           /\ m \notin handled
           /\ m \notin turnedDown
           /\ Kind[m] # "shutdown"

Decided ==
    /\ \A m \in handled : m \in received /\ m \notin turnedDown /\ Kind[m] # "shutdown"
    /\ turnedDown \subseteq received

\* Where a response can have come from.
ReplyOrigin ==
    \A m \in Msg : replies[m] # <<>> =>
        /\ m \in received
        /\ m \in handled \cup turnedDown \/ (Kind[m] = "shutdown" /\ m # shutdownId)

\* The requests that are still to be answered, and by whom.
Owed ==
    /\ \A m \in Msg : pc = "running" /\ current = Call(m) =>
           m \in handled /\ replies[m] = <<>> /\ m # streamId
    /\ streamId # NoMsg => streamId \in handled /\ replies[streamId] = <<>>
    /\ input = "joining" =>
           /\ shutdownId \in received
           /\ Kind[shutdownId] = "shutdown"
           /\ shutdownId \notin turnedDown
           /\ replies[shutdownId] = <<>>
    /\ input = "reading" => shutdownId = NoMsg

PlaceInv == OnePlace /\ Undecided /\ Decided

ReplyInv == ReplyOrigin /\ Owed /\ AtMostOneReply

IInv == TypeOK /\ PlaceInv /\ ReplyInv
=============================================================================
