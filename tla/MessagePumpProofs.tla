------------------------- MODULE MessagePumpProofs -------------------------
(***************************************************************************)
(* The message pump, for any set of messages, folders and kinds: its types,*)
(* that no request is answered twice and none after shutdown; and, as long *)
(* as no folder is added, that no message is lost and messages are handled *)
(* in the order in which they were sent.  And for each request the pump    *)
(* implements RequestLifecycle.                                            *)
(***************************************************************************)
EXTENDS MessagePump, SequenceTheorems, TLAPS

-----------------------------------------------------------------------------
(* Facts about the queues                                                  *)

\* Appending adds one element to a queue.
LEMMA ElemsAppend ==
    ASSUME NEW S, NEW s \in Seq(S), NEW x \in S
    PROVE  Elems(Append(s, x)) = Elems(s) \cup {x}
  BY DEF Elems

\* A queue that is not empty consists of its head and its tail.
LEMMA ElemsHeadTail ==
    ASSUME NEW S, NEW s \in Seq(S), s # <<>>
    PROVE  /\ Head(s) \in S
           /\ Tail(s) \in Seq(S)
           /\ Head(s) \in Elems(s)
           /\ Elems(Tail(s)) \subseteq Elems(s)
  <1>1. Len(s) \in Nat /\ Len(s) >= 1 /\ Head(s) = s[1]
    OBVIOUS
  <1>2. Tail(s) \in Seq(S) /\ Len(Tail(s)) = Len(s) - 1
        /\ \A i \in 1..Len(Tail(s)) : Tail(s)[i] = s[i + 1]
    OBVIOUS
  <1>3. Head(s) \in Elems(s)
    BY <1>1 DEF Elems
  <1>4. ASSUME NEW i \in 1..Len(Tail(s))
        PROVE  Tail(s)[i] \in Elems(s)
    <2>1. i + 1 \in 1..Len(s)
      BY <1>1, <1>2
    <2>. QED
      BY <1>2, <2>1 DEF Elems
  <1>. QED
    BY <1>1, <1>2, <1>3, <1>4 DEF Elems

\* The elements of a queue are of the type of its elements.
LEMMA ElemsType ==
    ASSUME NEW S, NEW s \in Seq(S)
    PROVE  Elems(s) \subseteq S
  BY DEF Elems

\* A new element keeps a queue free of duplicates.
LEMMA NoDuplicatesAppend ==
    ASSUME NEW S, NEW s \in Seq(S), NEW x \in S, NoDuplicates(s), x \notin Elems(s)
    PROVE  NoDuplicates(Append(s, x))
  BY DEF NoDuplicates, Elems

\* Without duplicates the head is not in the tail.
LEMMA NoDuplicatesTail ==
    ASSUME NEW S, NEW s \in Seq(S), s # <<>>, NoDuplicates(s)
    PROVE  NoDuplicates(Tail(s)) /\ Head(s) \notin Elems(Tail(s))
  <1>1. Len(s) \in Nat /\ Len(s) >= 1 /\ Head(s) = s[1]
    OBVIOUS
  <1>2. Len(Tail(s)) = Len(s) - 1 /\ \A i \in 1..Len(Tail(s)) : Tail(s)[i] = s[i + 1]
    OBVIOUS
  <1>3. \A i \in 1..Len(Tail(s)) : i + 1 \in 1..Len(s) /\ i + 1 # 1
    BY <1>1, <1>2
  <1>. QED
    BY <1>1, <1>2, <1>3 DEF NoDuplicates, Elems

\* The same two facts about calls in the queue between the threads.
LEMMA CallsOnceAppend ==
    ASSUME NEW s \in Seq(Item), NEW x \in Item, CallsOnce(s),
           x.isResponse \/ x \notin Elems(s)
    PROVE  CallsOnce(Append(s, x))
  BY DEF CallsOnce, Elems

LEMMA CallsOnceTail ==
    ASSUME NEW s \in Seq(Item), s # <<>>, CallsOnce(s)
    PROVE  /\ CallsOnce(Tail(s))
           /\ ~Head(s).isResponse => Head(s) \notin Elems(Tail(s))
  <1>1. Len(s) \in Nat /\ Len(s) >= 1 /\ Head(s) = s[1]
    OBVIOUS
  <1>2. Len(Tail(s)) = Len(s) - 1 /\ \A i \in 1..Len(Tail(s)) : Tail(s)[i] = s[i + 1]
    OBVIOUS
  <1>3. \A i \in 1..Len(Tail(s)) : i + 1 \in 1..Len(s) /\ i + 1 # 1
    BY <1>1, <1>2
  <1>. QED
    BY <1>1, <1>2, <1>3 DEF CallsOnce, Elems

\* Calls and responses are entries of the queue and are told apart.
LEMMA Items ==
    /\ \A m \in Msg : Call(m) \in Item /\ ~Call(m).isResponse /\ Call(m).of = m
    /\ \A m \in Msg : \A gives \in SUBSET Workspace :
           Response(m, gives) \in Item /\ Response(m, gives).isResponse
    /\ \A m, n \in Msg : Call(m) = Call(n) => m = n
    /\ \A m \in Msg : Call(m) # Nothing
    /\ \A m, n \in Msg : \A gives : Call(m) # Response(n, gives)
  BY DEF Call, Response, Item, Nothing

\* A response is written to a request that had none.
LEMMA FirstReply ==
    ASSUME TypeOK, AtMostOneReply, NEW m \in Msg, replies[m] = <<>>, NEW o \in Outcome,
           replies' = [replies EXCEPT ![m] = Append(@, o)]
    PROVE  /\ replies' \in [Msg -> Seq(Outcome)]
           /\ AtMostOneReply'
           /\ \A n \in Msg : n # m => replies'[n] = replies[n]
           /\ replies'[m] # <<>>
  <1>1. replies \in [Msg -> Seq(Outcome)]
    BY DEF TypeOK
  <1>2. Append(replies[m], o) \in Seq(Outcome) /\ Len(Append(replies[m], o)) = 1
        /\ Append(replies[m], o) # <<>>
    BY <1>1
  <1>. QED
    BY <1>1, <1>2 DEF AtMostOneReply

-----------------------------------------------------------------------------
(* Type correctness                                                        *)

\* The type of the state holds initially.
LEMMA TypeInit == Init => TypeOK
  <1> SUFFICES ASSUME Init
               PROVE  TypeOK
    OBVIOUS
  <1>1. [m \in Msg |-> <<>>] \in [Msg -> Seq(Outcome)]
    OBVIOUS
  <1>2. messages \in Seq(Item) /\ postponed \in Seq(Msg) /\ batch \in Seq(Msg)
    BY DEF Init
  <1>3. [m \in Msg |-> {}] \in [Msg -> SUBSET Msg]
        /\ [m \in Msg |-> {}] \in [Msg -> SUBSET Workspace]
    OBVIOUS
  <1>. QED
    BY <1>1, <1>2, <1>3 DEF Init, TypeOK

\* Writing a response keeps the type of the history of responses.
LEMMA ReplyType ==
    ASSUME TypeOK, NEW m, NEW o \in Outcome
    PROVE  [replies EXCEPT ![m] = Append(@, o)] \in [Msg -> Seq(Outcome)]
  <1>1. replies \in [Msg -> Seq(Outcome)]
    BY DEF TypeOK
  <1>2. \A n \in Msg : Append(replies[n], o) \in Seq(Outcome)
    BY <1>1
  <1>. QED
    BY <1>1, <1>2

\* So does terminateWorkspaceDiagnostics.
LEMMA TerminateType ==
    ASSUME TypeOK, TerminateStream
    PROVE  replies' \in [Msg -> Seq(Outcome)] /\ streamId' = NoMsg /\ streamToken' = FALSE
  <1>1. "ServerCancelled" \in Outcome
    BY DEF Outcome
  <1>. QED
    BY <1>1, ReplyType DEF TerminateStream, TypeOK

\* And so does the initialisation of a workspace.
LEMMA LazyInitializeType ==
    ASSUME TypeOK, NEW w \in Workspace, LazyInitialize(w)
    PROVE  /\ ready' \subseteq Workspace
           /\ replies' \in [Msg -> Seq(Outcome)]
           /\ streamId' \in Msg \cup {NoMsg}
           /\ streamToken' \in BOOLEAN
  BY TerminateType DEF LazyInitialize, streamVars, TypeOK

\* Every step of the input thread keeps the type of the state.
LEMMA InputType == TypeOK /\ InputThread => TypeOK'
  <1> SUFFICES ASSUME TypeOK, InputThread
               PROVE  TypeOK'
    OBVIOUS
  <1> USE DEF inputVars, sharedVars, workerVars, folderVars, streamVars, configVars,
              outputVars
  <1>1. ASSUME NEW m \in Msg, Receive(m)
        PROVE  TypeOK'
    BY <1>1, Items DEF Receive, Read, MaySend, TypeOK
  <1>2. ASSUME NEW m \in Msg, ReceiveAfterShutdown(m)
        PROVE  TypeOK'
    <2>1. "InvalidRequest" \in Outcome
      BY DEF Outcome
    <2>2. CASE IsRequest(m)
      <3>1. replies' = [replies EXCEPT ![m] = Append(@, "InvalidRequest")]
        BY <1>2, <2>2 DEF ReceiveAfterShutdown
      <3>2. replies' \in [Msg -> Seq(Outcome)]
        BY <2>1, <3>1, ReplyType
      <3>. QED
        BY <1>2, <2>2, <3>2 DEF ReceiveAfterShutdown, Read, MaySend, TypeOK
    <2>3. CASE ~IsRequest(m)
      BY <1>2, <2>3 DEF ReceiveAfterShutdown, Read, MaySend, TypeOK
    <2>. QED
      BY <2>2, <2>3
  <1>3. ASSUME NEW m \in Msg, ReceiveShutdown(m)
        PROVE  TypeOK'
    BY <1>3 DEF ReceiveShutdown, Read, MaySend, TypeOK
  <1>4. ASSUME NEW m \in Msg, ReceiveSecondShutdown(m)
        PROVE  TypeOK'
    BY <1>4 DEF ReceiveSecondShutdown, Read, MaySend, TypeOK
  <1>5. ASSUME NEW m \in Msg, ReceiveExit(m)
        PROVE  TypeOK'
    BY <1>5 DEF ReceiveExit, Read, MaySend, TypeOK
  <1>6. ASSUME NEW m \in Msg, Cancel(m)
        PROVE  TypeOK'
    BY <1>6 DEF Cancel, TypeOK
  <1>7. ASSUME NEW m \in Msg, ClientResponds(m)
        PROVE  TypeOK'
    <2>1. asked[m] \in SUBSET Workspace /\ {} \in SUBSET Workspace
      BY DEF TypeOK
    <2>2. messages' \in Seq(Item)
      <3>1. CASE shutdownRequested
        BY <1>7, <3>1 DEF ClientResponds, TypeOK
      <3>2. CASE ~shutdownRequested
        <4>1. PICK gives \in {asked[m], {}} : messages' = Append(messages, Response(m, gives))
          BY <1>7, <3>2 DEF ClientResponds
        <4>2. Response(m, gives) \in Item
          BY <2>1, <4>1, Items
        <4>. QED
          BY <4>1, <4>2 DEF TypeOK
      <3>. QED
        BY <3>1, <3>2
    <2>. QED
      BY <1>7, <2>2 DEF ClientResponds, TypeOK
  <1>8. CASE Joined
    <2>1. "result" \in Outcome
      BY DEF Outcome
    <2>. QED
      BY <1>8, <2>1, ReplyType DEF Joined, TypeOK
  <1>9. CASE EndOfInput
    BY <1>9 DEF EndOfInput, TypeOK
  <1>. QED
    BY <1>1, <1>2, <1>3, <1>4, <1>5, <1>6, <1>7, <1>8, <1>9 DEF InputThread

\* Every step of the worker thread keeps the type of the state.
LEMMA WorkerType == TypeOK /\ WorkerThread => TypeOK'
  <1> SUFFICES ASSUME TypeOK, WorkerThread
               PROVE  TypeOK'
    OBVIOUS
  <1> USE DEF inputVars, sharedVars, workerVars, folderVars, streamVars, configVars,
              outputVars
  <1>1. CASE Pop
    BY <1>1, ElemsHeadTail DEF Pop, TypeOK
  <1>2. CASE Stop
    BY <1>2 DEF Stop, TypeOK
  <1>3. CASE DrainNext
    BY <1>3, Items, ElemsHeadTail DEF DrainNext, TypeOK
  <1>4. CASE DrainEnd
    BY <1>4 DEF DrainEnd, TypeOK
  <1>5. ASSUME NEW m \in Msg, Postpone(m)
        PROVE  TypeOK'
    BY <1>5 DEF Postpone, SetAside, TypeOK
  <1>6. ASSUME NEW m \in Msg, Refuse(m)
        PROVE  TypeOK'
    <2>1. PICK e \in EntryErrors(m) : Reply(m, e)
      BY <1>6 DEF Refuse
    <2>2. e \in Outcome
      BY <2>1 DEF EntryErrors, Outcome
    <2>3. replies' \in [Msg -> Seq(Outcome)] /\ pc' = "clearing"
      BY <2>1, <2>2, ReplyType DEF Reply
    <2>. QED
      BY <1>6, <2>3 DEF Refuse, TypeOK
  <1>7. ASSUME NEW m \in Msg, Start(m)
        PROVE  TypeOK'
    BY <1>7 DEF Start, TypeOK
  <1>8. ASSUME NEW m \in Msg, OnInitialize(m)
        PROVE  TypeOK'
    <2>1. "result" \in Outcome
      BY DEF Outcome
    <2>. QED
      BY <1>8, <2>1, ReplyType, FolderAssumption DEF OnInitialize, Reply, TypeOK
  <1>9. ASSUME NEW m \in Msg, OnDocumentRequest(m)
        PROVE  TypeOK'
    <2>1. replies' \in [Msg -> Seq(Outcome)] /\ pc' = "clearing"
      <3>1. PICK o \in {"result", "InternalError", "RequestCancelled"} : Reply(m, o)
        BY <1>9 DEF OnDocumentRequest
      <3>2. o \in Outcome
        BY <3>1 DEF Outcome
      <3>. QED
        BY <3>1, <3>2, ReplyType DEF Reply
    <2>. QED
      BY <1>9, <2>1 DEF OnDocumentRequest, TypeOK
  <1>10. ASSUME NEW m \in Msg, OnWorkspaceDiagnostic(m)
         PROVE  TypeOK'
    <2>1. "result" \in Outcome /\ "ServerCancelled" \in Outcome
      BY DEF Outcome
    <2>2. ASSUME NEW o \in Outcome, Reply(m, o)
          PROVE  TypeOK'
      <3>1. replies' \in [Msg -> Seq(Outcome)] /\ pc' = "clearing"
        BY <2>2, ReplyType DEF Reply
      <3>. QED
        BY <1>10, <3>1 DEF OnWorkspaceDiagnostic, LeaveOpen, TypeOK
    <2>3. CASE LeaveOpen(m)
      BY <1>10, <2>3 DEF OnWorkspaceDiagnostic, LeaveOpen, TypeOK
    <2>. QED
      <3>1. Reply(m, "ServerCancelled") \/ Reply(m, "result") \/ LeaveOpen(m)
        BY <1>10 DEF OnWorkspaceDiagnostic
      <3>. QED
        BY <2>1, <2>2, <2>3, <3>1
  <1>11. ASSUME NEW m \in Msg, Drop(m)
         PROVE  TypeOK'
    BY <1>11 DEF Drop, Finishes, TypeOK
  <1>12. ASSUME NEW m \in Msg, OnInitialized(m)
         PROVE  TypeOK'
    <2>1. folders \cup {Null} \in SUBSET Workspace
      BY DEF Workspace, TypeOK
    <2>2. CASE Configures
      <3>1. RequestConfiguration(m, folders \cup {Null})
        BY <1>12, <2>2 DEF OnInitialized
      <3>2. asked' \in [Msg -> SUBSET Workspace] /\ handlers' \subseteq Msg
            /\ outstanding' \subseteq Msg
        BY <2>1, <3>1 DEF RequestConfiguration, TypeOK
      <3>. QED
        BY <1>12, <2>2, <3>2 DEF OnInitialized, Notified, Finishes, TypeOK
    <2>3. CASE ~Configures
      BY <1>12, <2>3 DEF OnInitialized, Notified, Finishes, TypeOK
    <2>. QED
      BY <2>2, <2>3
  <1>13. ASSUME NEW m \in Msg, OnDidChangeConfiguration(m)
         PROVE  TypeOK'
    <2>1. folders \cup {Null} \in SUBSET Workspace
      BY DEF Workspace, TypeOK
    <2>2. CASE Configures
      <3>1. RequestConfiguration(m, folders \cup {Null})
        BY <1>13, <2>2 DEF OnDidChangeConfiguration
      <3>2. asked' \in [Msg -> SUBSET Workspace] /\ handlers' \subseteq Msg
            /\ outstanding' \subseteq Msg
        BY <2>1, <3>1 DEF RequestConfiguration, TypeOK
      <3>. QED
        BY <1>13, <2>2, <3>2 DEF OnDidChangeConfiguration, Notified, Finishes, TypeOK
    <2>3. CASE ~Configures
      BY <1>13, <2>3 DEF OnDidChangeConfiguration, Notified, Finishes, TypeOK
    <2>. QED
      BY <2>2, <2>3
  <1>14. ASSUME NEW m \in Msg, OnDidChangeWorkspaceFolders(m)
         PROVE  TypeOK'
    BY <1>14, FolderAssumption
       DEF OnDidChangeWorkspaceFolders, Notified, Finishes, RequestConfiguration, Workspace,
           TypeOK
  <1>15. ASSUME NEW m \in Msg, OnTextDocument(m)
         PROVE  TypeOK'
    <2>1. FindWorkspace(Target[m]) \in Workspace
      BY FolderAssumption DEF FindWorkspace, Workspace
    <2>2. /\ ready' \subseteq Workspace /\ replies' \in [Msg -> Seq(Outcome)]
          /\ streamId' \in Msg \cup {NoMsg} /\ streamToken' \in BOOLEAN
      BY <1>15, <2>1, LazyInitializeType DEF OnTextDocument
    <2>. QED
      BY <1>15, <2>2 DEF OnTextDocument, Notified, Finishes, TypeOK
  <1>16. ASSUME NEW m \in Msg, OnConfigFileChanged(m)
         PROVE  TypeOK'
    <2>1. /\ replies' \in [Msg -> Seq(Outcome)]
          /\ streamId' \in Msg \cup {NoMsg}
          /\ streamToken' \in BOOLEAN
      BY <1>16, TerminateType DEF OnConfigFileChanged, streamVars, TypeOK
    <2>. QED
      BY <1>16, <2>1 DEF OnConfigFileChanged, Notified, Finishes, TypeOK
  <1>17. CASE ClearCancellationToken
    BY <1>17 DEF ClearCancellationToken, TypeOK
  <1>18. CASE OnResponse
    <2>1. /\ replies' \in [Msg -> Seq(Outcome)]
          /\ streamId' \in Msg \cup {NoMsg}
          /\ streamToken' \in BOOLEAN
      BY <1>18, TerminateType DEF OnResponse, streamVars, TypeOK
    <2>2. configured' \subseteq Folder
      BY <1>18 DEF OnResponse, Marked, TypeOK
    <2>3. draining' \in BOOLEAN /\ batch' \in Seq(Msg)
      BY <1>18 DEF OnResponse, Drains, TypeOK
    <2>. QED
      BY <1>18, <2>1, <2>2, <2>3 DEF OnResponse, TypeOK
  <1>19. ASSUME NEW m \in Msg, InitializeWorkspace(m)
         PROVE  TypeOK'
    <2>1. FindWorkspace(Target[m]) \in Workspace
      BY FolderAssumption DEF FindWorkspace, Workspace
    <2>2. /\ ready' \subseteq Workspace /\ replies' \in [Msg -> Seq(Outcome)]
          /\ streamId' \in Msg \cup {NoMsg} /\ streamToken' \in BOOLEAN
      BY <1>19, <2>1, LazyInitializeType DEF InitializeWorkspace
    <2>. QED
      BY <1>19, <2>2 DEF InitializeWorkspace, TypeOK
  <1>. QED
    BY <1>1, <1>2, <1>3, <1>4, <1>5, <1>6, <1>7, <1>8, <1>9, <1>10, <1>11, <1>12, <1>13,
       <1>14, <1>15, <1>16, <1>17, <1>18, <1>19 DEF WorkerThread

\* The state of the server keeps its type.
THEOREM TypeCorrect == Spec => []TypeOK
  <1>1. TypeOK /\ [Next]_vars => TypeOK'
    <2>1. TypeOK /\ UNCHANGED vars => TypeOK'
      BY DEF vars, inputVars, sharedVars, workerVars, folderVars, streamVars, configVars,
             outputVars, TypeOK
    <2>. QED
      BY <2>1, InputType, WorkerType DEF Next, Terminated
  <1>. QED
    BY <1>1, TypeInit, PTL DEF Spec

-----------------------------------------------------------------------------
(* Every message is in one place                                           *)

\* A step that moves no message keeps each in its place; the worker may decide
\* on the message it has in hand.
LEMMA PlacesKept ==
    ASSUME TypeOK, PlaceInv, UNCHANGED <<messages, postponed, draining, batch, turnedDown>>,
           received \subseteq received',
           \/ handled' = handled
           \/ \E m \in Msg : /\ pc = "dispatch" /\ current = Call(m)
                             /\ handled' = handled \cup {m},
           pc' = "dispatch" => pc = "dispatch" /\ current' = current /\ handled' = handled
    PROVE  PlaceInv'
  <1>1. Backlog' = Backlog /\ \A m \in Msg : Queued(m)' = Queued(m) /\ Held(m)' = Held(m)
    BY DEF Backlog, Queued, Held
  <1>2. OnePlace'
    BY <1>1, Zenon DEF PlaceInv, OnePlace
  <1>3. \A n \in Msg : Queued(n) \/ Held(n) => n \notin handled'
    <2>1. ASSUME NEW m \in Msg, pc = "dispatch", current = Call(m),
                 handled' = handled \cup {m}
          PROVE  \A n \in Msg : Queued(n) \/ Held(n) => n \notin handled'
      BY <2>1 DEF PlaceInv, OnePlace, Undecided
    <2>2. CASE handled' = handled
      BY <2>2 DEF PlaceInv, Undecided
    <2>. QED
      BY <2>1, <2>2
  <1>4. Undecided'
    BY <1>1, <1>3 DEF PlaceInv, Undecided
  <1>5. Decided'
    BY DEF PlaceInv, Undecided, Decided
  <1>. QED
    BY <1>2, <1>4, <1>5 DEF PlaceInv

\* Initially no message is anywhere.
LEMMA PlaceInit == Init => PlaceInv
  BY DEF Init, PlaceInv, OnePlace, Undecided, Decided, CallsOnce, NoDuplicates, Queued, Held,
         Backlog, Elems

\* The input thread puts a message into one place, on the queue.
LEMMA InputPlaces == TypeOK /\ PlaceInv /\ InputThread => PlaceInv'
  <1> SUFFICES ASSUME TypeOK, PlaceInv, InputThread
               PROVE  PlaceInv'
    OBVIOUS
  <1> USE DEF inputVars, sharedVars, workerVars, folderVars, streamVars, configVars,
              outputVars
  <1>0. messages \in Seq(Item) /\ received \subseteq Msg
    BY DEF TypeOK
  <1>1. ASSUME NEW m \in Msg, Receive(m)
        PROVE  PlaceInv'
    <2>1. /\ messages' = Append(messages, Call(m)) /\ received' = received \cup {m}
          /\ m \notin received /\ Kind[m] # "shutdown"
          /\ UNCHANGED <<postponed, draining, batch, pc, current, handled, turnedDown>>
      BY <1>1 DEF Receive, Read, MaySend
    <2>2. Backlog' = Backlog /\ \A n \in Msg : Held(n)' = Held(n)
      BY <2>1 DEF Backlog, Held
    <2>3. \A n \in Msg : Queued(n)' <=> Queued(n) \/ n = m
      BY <1>0, <2>1, ElemsAppend, Items DEF Queued
    <2>4. ~Queued(m) /\ ~Held(m) /\ ~(pc = "dispatch" /\ current = Call(m))
          /\ m \notin handled /\ m \notin turnedDown
      BY <2>1 DEF PlaceInv, Undecided, Decided
    <2>5. CallsOnce(messages')
      BY <1>0, <2>1, <2>4, CallsOnceAppend, Items DEF PlaceInv, OnePlace, Queued
    <2>6. OnePlace'
      BY <2>1, <2>2, <2>3, <2>4, <2>5 DEF PlaceInv, OnePlace
    <2>7. Undecided' /\ Decided'
      BY <2>1, <2>2, <2>3, <2>4 DEF PlaceInv, Undecided, Decided
    <2>. QED
      BY <2>6, <2>7 DEF PlaceInv
  <1>2. ASSUME NEW m \in Msg, ReceiveAfterShutdown(m)
        PROVE  PlaceInv'
    <2>1. /\ received' = received \cup {m} /\ turnedDown' = turnedDown \cup {m}
          /\ m \notin received
          /\ UNCHANGED <<messages, postponed, draining, batch, pc, current, handled>>
      BY <1>2 DEF ReceiveAfterShutdown, Read, MaySend
    <2>2. Backlog' = Backlog /\ \A n \in Msg : Queued(n)' = Queued(n) /\ Held(n)' = Held(n)
      BY <2>1 DEF Backlog, Queued, Held
    <2>3. OnePlace'
      BY <2>1, <2>2, Zenon DEF PlaceInv, OnePlace
    <2>4. Undecided' /\ Decided'
      BY <2>1, <2>2 DEF PlaceInv, Undecided, Decided
    <2>. QED
      BY <2>3, <2>4 DEF PlaceInv
  <1>3. ASSUME NEW m \in Msg,
               ReceiveShutdown(m) \/ ReceiveSecondShutdown(m) \/ ReceiveExit(m)
        PROVE  PlaceInv'
    BY <1>3, PlacesKept DEF ReceiveShutdown, ReceiveSecondShutdown, ReceiveExit, Read
  <1>4. ASSUME NEW m \in Msg, Cancel(m)
        PROVE  PlaceInv'
    BY <1>4, PlacesKept DEF Cancel
  <1>5. ASSUME NEW m \in Msg, ClientResponds(m)
        PROVE  PlaceInv'
    <2>1. CASE shutdownRequested
      BY <1>5, <2>1, PlacesKept DEF ClientResponds
    <2>2. CASE ~shutdownRequested
      <3>1. PICK gives \in {asked[m], {}} : messages' = Append(messages, Response(m, gives))
        BY <1>5, <2>2 DEF ClientResponds
      <3>2. Response(m, gives) \in Item /\ Response(m, gives).isResponse
        <4>1. asked[m] \in SUBSET Workspace /\ {} \in SUBSET Workspace
          BY DEF TypeOK
        <4>. QED
          BY <4>1, <3>1, Items
      <3>3. UNCHANGED <<received, postponed, draining, batch, pc, current, handled, turnedDown>>
        BY <1>5 DEF ClientResponds
      <3>4. Backlog' = Backlog /\ \A n \in Msg : Held(n)' = Held(n)
        BY <3>3 DEF Backlog, Held
      <3>5. \A n \in Msg : Queued(n)' = Queued(n)
        BY <1>0, <3>1, <3>2, ElemsAppend, Items DEF Queued
      <3>6. CallsOnce(messages')
        BY <1>0, <3>1, <3>2, CallsOnceAppend DEF PlaceInv, OnePlace
      <3>7. OnePlace'
        BY <3>3, <3>4, <3>5, <3>6, Zenon DEF PlaceInv, OnePlace
      <3>8. Undecided' /\ Decided'
        BY <3>3, <3>4, <3>5 DEF PlaceInv, Undecided, Decided
      <3>. QED
        BY <3>7, <3>8 DEF PlaceInv
    <2>. QED
      BY <2>1, <2>2
  <1>6. CASE Joined \/ EndOfInput
    BY <1>6, PlacesKept DEF Joined, EndOfInput
  <1>. QED
    BY <1>1, <1>2, <1>3, <1>4, <1>5, <1>6 DEF InputThread

\* The worker takes a message from one place to another, or decides on it.
LEMMA WorkerPlaces == TypeOK /\ PlaceInv /\ WorkerThread => PlaceInv'
  <1> SUFFICES ASSUME TypeOK, PlaceInv, WorkerThread
               PROVE  PlaceInv'
    OBVIOUS
  <1> USE DEF inputVars, sharedVars, workerVars, folderVars, streamVars, configVars,
              outputVars
  <1>0. /\ messages \in Seq(Item) /\ postponed \in Seq(Msg) /\ batch \in Seq(Msg)
        /\ current \in Item \cup {Nothing} /\ draining \in BOOLEAN
    BY DEF TypeOK
  <1>1. CASE Pop
    <2>1. /\ messages # <<>> /\ current' = Head(messages) /\ messages' = Tail(messages)
          /\ ~draining /\ pc' = "dispatch"
          /\ UNCHANGED <<postponed, draining, batch, received, handled, turnedDown>>
      BY <1>1 DEF Pop
    <2>2. Backlog' = Backlog /\ \A n \in Msg : Held(n)' = Held(n)
      BY <2>1 DEF Backlog, Held
    <2>3. current' \in Elems(messages) /\ Elems(messages') \subseteq Elems(messages)
      BY <1>0, <2>1, ElemsHeadTail
    <2>4. CallsOnce(messages') /\ (~current'.isResponse => current' \notin Elems(messages'))
      BY <1>0, <2>1, CallsOnceTail DEF PlaceInv, OnePlace
    <2>5. \A n \in Msg : /\ Queued(n)' => Queued(n)
                         /\ current' = Call(n) => Queued(n) /\ ~Queued(n)'
      BY <2>3, <2>4, Items DEF Queued
    <2>6. OnePlace'
      BY <2>1, <2>2, <2>4, <2>5 DEF PlaceInv, OnePlace
    <2>7. Undecided' /\ Decided'
      BY <2>1, <2>2, <2>5 DEF PlaceInv, Undecided, Decided
    <2>. QED
      BY <2>6, <2>7 DEF PlaceInv
  <1>2. CASE DrainNext
    <2>1. /\ draining /\ batch # <<>> /\ current' = Call(Head(batch)) /\ batch' = Tail(batch)
          /\ pc' = "dispatch"
          /\ UNCHANGED <<messages, postponed, draining, received, handled, turnedDown>>
      BY <1>2 DEF DrainNext
    <2>2. Backlog = batch /\ Backlog' = Tail(batch) /\ \A n \in Msg : Queued(n)' = Queued(n)
      BY <2>1 DEF Backlog, Queued
    <2>3. /\ Head(batch) \in Msg /\ Head(batch) \in Elems(batch)
          /\ Elems(Tail(batch)) \subseteq Elems(batch)
      BY <1>0, <2>1, ElemsHeadTail
    <2>4. NoDuplicates(Backlog') /\ Head(batch) \notin Elems(Tail(batch))
      BY <1>0, <2>1, <2>2, NoDuplicatesTail DEF PlaceInv, OnePlace
    <2>5. \A n \in Msg : /\ Held(n)' => Held(n)
                         /\ current' = Call(n) => Held(n) /\ ~Held(n)'
      BY <2>1, <2>2, <2>3, <2>4, Items DEF Held
    <2>6. ~current'.isResponse
      BY <2>1, <2>3, Items
    <2>7. OnePlace'
      BY <2>1, <2>2, <2>4, <2>5, <2>6 DEF PlaceInv, OnePlace
    <2>8. Undecided' /\ Decided'
      BY <2>1, <2>2, <2>5 DEF PlaceInv, Undecided, Decided
    <2>. QED
      BY <2>7, <2>8 DEF PlaceInv
  <1>3. CASE DrainEnd
    <2>1. /\ draining /\ batch = <<>> /\ draining' = FALSE /\ postponed' = <<>> /\ pc = "idle"
          /\ UNCHANGED <<messages, pc, current, received, handled, turnedDown>>
      BY <1>3 DEF DrainEnd
    <2>2. Backlog' = Backlog
      BY <2>1 DEF Backlog
    <2>3. \A n \in Msg : Queued(n)' = Queued(n) /\ Held(n)' = Held(n)
      BY <2>1, <2>2 DEF Queued, Held
    <2>4. OnePlace'
      BY <2>1, <2>2, <2>3 DEF PlaceInv, OnePlace
    <2>5. Undecided' /\ Decided'
      BY <2>1, <2>3 DEF PlaceInv, Undecided, Decided
    <2>. QED
      BY <2>4, <2>5 DEF PlaceInv
  <1>4. ASSUME NEW m \in Msg, Postpone(m)
        PROVE  PlaceInv'
    <2>1. /\ pc = "dispatch" /\ current = Call(m) /\ pc' = "idle"
          /\ postponed' = Append(postponed, m)
          /\ UNCHANGED <<messages, draining, batch, received, handled, turnedDown>>
      BY <1>4 DEF Postpone, SetAside, Dispatching
    <2>2. \A n \in Msg : Queued(n)' = Queued(n)
      BY <2>1 DEF Queued
    <2>3. CASE draining
      <3>1. Backlog' = Backlog /\ \A n \in Msg : Held(n)' = Held(n)
        BY <2>1, <2>3 DEF Backlog, Held
      <3>. QED
        BY <2>1, <2>2, <3>1 DEF PlaceInv, OnePlace, Undecided, Decided
    <2>4. CASE ~draining
      <3>1. ~Queued(m) /\ ~Held(m) /\ m \in received /\ m \notin handled
            /\ m \notin turnedDown /\ Kind[m] # "shutdown"
        BY <2>1 DEF PlaceInv, OnePlace, Undecided
      <3>2. Backlog = postponed /\ Backlog' = Append(postponed, m)
        BY <2>1, <2>4 DEF Backlog
      <3>3. NoDuplicates(Backlog')
        BY <1>0, <3>1, <3>2, NoDuplicatesAppend DEF PlaceInv, OnePlace, Held
      <3>4. \A n \in Msg : Held(n)' <=> Held(n) \/ n = m
        BY <1>0, <3>2, ElemsAppend DEF Held
      <3>. QED
        BY <2>1, <2>2, <3>1, <3>3, <3>4 DEF PlaceInv, OnePlace, Undecided, Decided
    <2>. QED
      BY <1>0, <2>3, <2>4
  <1>5. CASE OnResponse
    <2>1. /\ pc = "dispatch" /\ current.isResponse /\ pc' = "idle"
          /\ UNCHANGED <<messages, postponed, received, handled, turnedDown>>
          /\ draining' => batch' = postponed
      BY <1>5 DEF OnResponse
    <2>2. Backlog' = Backlog
      BY <2>1 DEF PlaceInv, OnePlace, Backlog
    <2>3. \A n \in Msg : Queued(n)' = Queued(n) /\ Held(n)' = Held(n)
      BY <2>1, <2>2 DEF Queued, Held
    <2>. QED
      BY <2>1, <2>2, <2>3 DEF PlaceInv, OnePlace, Undecided, Decided
  <1>6. CASE Stop \/ ClearCancellationToken
    BY <1>6, PlacesKept DEF Stop, ClearCancellationToken
  <1>7. ASSUME NEW m \in Msg, Refuse(m) \/ Start(m) \/ Drop(m)
        PROVE  PlaceInv'
    BY <1>7, PlacesKept DEF Refuse, Reply, Start, Drop, Finishes, Dispatching
  <1>8. ASSUME NEW m \in Msg,
               \/ OnInitialize(m) \/ InitializeWorkspace(m) \/ OnDocumentRequest(m)
               \/ OnWorkspaceDiagnostic(m)
        PROVE  PlaceInv'
    <2>1. /\ received' = received /\ handled' = handled /\ pc' # "dispatch"
          /\ UNCHANGED <<messages, postponed, draining, batch, turnedDown>>
      BY <1>8 DEF OnInitialize, InitializeWorkspace, OnDocumentRequest, OnWorkspaceDiagnostic,
                  LeaveOpen, Reply, Serving
    <2>. QED
      BY <2>1, PlacesKept
  <1>9. ASSUME NEW m \in Msg,
               \/ OnInitialized(m) \/ OnDidChangeConfiguration(m)
               \/ OnDidChangeWorkspaceFolders(m) \/ OnTextDocument(m) \/ OnConfigFileChanged(m)
        PROVE  PlaceInv'
    <2>1. Finishes(m) /\ received' = received
          /\ UNCHANGED <<messages, postponed, draining, batch, turnedDown>>
      BY <1>9 DEF OnInitialized, OnDidChangeConfiguration, OnDidChangeWorkspaceFolders,
                  OnTextDocument, OnConfigFileChanged, Notified
    <2>. QED
      BY <2>1, PlacesKept DEF Finishes, Dispatching
  <1>. QED
    BY <1>1, <1>2, <1>3, <1>4, <1>5, <1>6, <1>7, <1>8, <1>9 DEF WorkerThread

\* Every message is in one place, and is decided on once.
THEOREM EveryMessageInOnePlace == Spec => []PlaceInv
  <1>1. TypeOK /\ PlaceInv /\ [Next]_vars => PlaceInv'
    <2>1. PlaceInv /\ UNCHANGED vars => PlaceInv'
      BY DEF vars, inputVars, sharedVars, workerVars, folderVars, streamVars, configVars,
             outputVars, PlaceInv, OnePlace, Undecided, Decided, Queued, Held, Backlog
    <2>. QED
      BY <2>1, InputPlaces, WorkerPlaces DEF Next, Terminated
  <1>. QED
    BY <1>1, PlaceInit, TypeCorrect, PTL DEF Spec

-----------------------------------------------------------------------------
(* No request is answered twice                                            *)

LEMMA ReplyInit == Init => ReplyInv
  <1>1. \A m \in Msg : Init => replies[m] = <<>> /\ Len(replies[m]) <= 1
    BY DEF Init
  <1>. QED
    BY <1>1 DEF Init, ReplyInv, ReplyOrigin, Owed, AtMostOneReply

\* A step that writes no response and puts no request into a handler.
LEMMA RepliesKept ==
    ASSUME ReplyInv, UNCHANGED <<replies, streamId, input, shutdownId, turnedDown>>,
           received \subseteq received', handled \subseteq handled',
           pc' = "running" => pc = "running" /\ current' = current
    PROVE  ReplyInv'
  <1>1. ReplyOrigin'
    BY DEF ReplyInv, ReplyOrigin
  <1>2. Owed'
    BY DEF ReplyInv, Owed
  <1>3. AtMostOneReply'
    BY DEF ReplyInv, AtMostOneReply
  <1>. QED
    BY <1>1, <1>2, <1>3 DEF ReplyInv

\* The worker answers a request it has in hand or remembers, which had no answer.
LEMMA WorkerReplies ==
    ASSUME TypeOK, ReplyInv, NEW m \in Msg, NEW o \in Outcome,
           replies' = [replies EXCEPT ![m] = Append(@, o)],
           replies[m] = <<>>, m \in handled', m \in received, Kind[m] # "shutdown",
           streamId' = streamId \/ streamId' = NoMsg,
           m = streamId => streamId' = NoMsg,
           UNCHANGED <<input, shutdownId, turnedDown, received>>,
           handled \subseteq handled',
           pc' = "running" => pc = "running" /\ current' = current /\ current # Call(m)
    PROVE  ReplyInv'
  <1>1. /\ AtMostOneReply' /\ \A n \in Msg : n # m => replies'[n] = replies[n]
    BY FirstReply DEF ReplyInv
  <1>2. ReplyOrigin'
    BY <1>1 DEF ReplyInv, ReplyOrigin
  <1>3. Owed'
    <2>1. \A n \in Msg : pc' = "running" /\ current' = Call(n) =>
              n \in handled' /\ replies'[n] = <<>> /\ n # streamId'
      BY <1>1, MessageAssumption DEF ReplyInv, Owed
    <2>2. streamId' # NoMsg => streamId' \in handled' /\ replies'[streamId'] = <<>>
      BY <1>1 DEF ReplyInv, Owed, TypeOK
    <2>3. input = "joining" => shutdownId # m /\ shutdownId \in Msg
      BY DEF ReplyInv, Owed, TypeOK
    <2>. QED
      BY <1>1, <2>1, <2>2, <2>3 DEF ReplyInv, Owed
  <1>. QED
    BY <1>1, <1>2, <1>3 DEF ReplyInv

\* terminateWorkspaceDiagnostics answers a request that was left open, if any.
LEMMA TerminateReplies ==
    ASSUME TypeOK, PlaceInv, ReplyInv, TerminateStream,
           UNCHANGED <<input, shutdownId, turnedDown, received>>, handled \subseteq handled',
           pc' = "running" => pc = "running" /\ current' = current
    PROVE  ReplyInv'
  <1>1. CASE streamId = NoMsg
    <2>1. replies' = replies /\ streamId' = streamId
      BY <1>1 DEF TerminateStream
    <2>. QED
      BY <2>1, RepliesKept
  <1>2. CASE streamId # NoMsg
    <2>1. /\ streamId \in Msg /\ streamId \in handled /\ replies[streamId] = <<>>
          /\ streamId \in received /\ Kind[streamId] # "shutdown"
      BY <1>2 DEF TypeOK, PlaceInv, Decided, ReplyInv, Owed
    <2>2. "ServerCancelled" \in Outcome
      BY DEF Outcome
    <2>3. replies' = [replies EXCEPT ![streamId] = Append(@, "ServerCancelled")]
          /\ streamId' = NoMsg
      BY <1>2 DEF TerminateStream
    <2>4. pc' = "running" => pc = "running" /\ current' = current /\ current # Call(streamId)
      BY <2>1 DEF ReplyInv, Owed
    <2>. QED
      BY <2>1, <2>2, <2>3, <2>4, WorkerReplies
  <1>. QED
    BY <1>1, <1>2

\* The input thread answers only shutdown and what comes after it.
LEMMA InputReplies == TypeOK /\ PlaceInv /\ ReplyInv /\ InputThread => ReplyInv'
  <1> SUFFICES ASSUME TypeOK, PlaceInv, ReplyInv, InputThread
               PROVE  ReplyInv'
    OBVIOUS
  <1> USE DEF inputVars, sharedVars, workerVars, folderVars, streamVars, configVars,
              outputVars
  <1>0. "InvalidRequest" \in Outcome /\ "result" \in Outcome
    BY DEF Outcome
  <1>1. ASSUME NEW m \in Msg,
               Receive(m) \/ ReceiveSecondShutdown(m) \/ ReceiveExit(m)
        PROVE  ReplyInv'
    BY <1>1, RepliesKept DEF Receive, ReceiveSecondShutdown, ReceiveExit, Read
  <1>2. ASSUME NEW m \in Msg, ReceiveAfterShutdown(m)
        PROVE  ReplyInv'
    <2>1. /\ received' = received \cup {m} /\ turnedDown' = turnedDown \cup {m}
          /\ m \notin received /\ Kind[m] # "shutdown"
          /\ UNCHANGED <<streamId, input, shutdownId, handled, pc, current>>
      BY <1>2 DEF ReceiveAfterShutdown, Read, MaySend
    <2>2. CASE IsRequest(m)
      <3>1. replies' = [replies EXCEPT ![m] = Append(@, "InvalidRequest")]
        BY <1>2, <2>2 DEF ReceiveAfterShutdown
      <3>2. replies[m] = <<>>
        BY <2>1 DEF ReplyInv, ReplyOrigin
      <3>3. AtMostOneReply' /\ \A n \in Msg : n # m => replies'[n] = replies[n]
        BY <1>0, <3>1, <3>2, FirstReply DEF ReplyInv
      <3>4. ReplyOrigin'
        BY <2>1, <3>3 DEF ReplyInv, ReplyOrigin
      <3>5. m \notin handled /\ (input = "joining" => m # shutdownId)
        BY <2>1 DEF PlaceInv, Decided, ReplyInv, Owed
      <3>6. Owed'
        BY <2>1, <3>3, <3>5 DEF ReplyInv, Owed, TypeOK
      <3>. QED
        BY <3>3, <3>4, <3>6 DEF ReplyInv
    <2>3. CASE ~IsRequest(m)
      <3>1. replies' = replies
        BY <1>2, <2>3 DEF ReceiveAfterShutdown
      <3>2. ReplyOrigin' /\ AtMostOneReply'
        BY <2>1, <3>1 DEF ReplyInv, ReplyOrigin, AtMostOneReply
      <3>3. Owed'
        BY <2>1, <3>1 DEF ReplyInv, Owed
      <3>. QED
        BY <3>2, <3>3 DEF ReplyInv
    <2>. QED
      BY <2>2, <2>3
  <1>3. ASSUME NEW m \in Msg, ReceiveShutdown(m)
        PROVE  ReplyInv'
    <2>1. /\ received' = received \cup {m} /\ m \notin received /\ Kind[m] = "shutdown"
          /\ input' = "joining" /\ shutdownId' = m /\ input = "reading"
          /\ UNCHANGED <<replies, streamId, handled, turnedDown, pc, current>>
      BY <1>3 DEF ReceiveShutdown, Read, MaySend
    <2>2. replies[m] = <<>> /\ m \notin turnedDown
      BY <2>1 DEF PlaceInv, Decided, ReplyInv, ReplyOrigin
    <2>3. ReplyOrigin'
      BY <2>1, <2>2 DEF ReplyInv, ReplyOrigin, Owed
    <2>4. Owed' /\ AtMostOneReply'
      BY <2>1, <2>2 DEF ReplyInv, Owed, AtMostOneReply
    <2>. QED
      BY <2>3, <2>4 DEF ReplyInv
  <1>4. ASSUME NEW m \in Msg, Cancel(m) \/ ClientResponds(m)
        PROVE  ReplyInv'
    BY <1>4, RepliesKept DEF Cancel, ClientResponds
  <1>5. CASE Joined
    <2>1. /\ input = "joining" /\ input' = "reading" /\ shutdownId' = NoMsg
          /\ replies' = [replies EXCEPT ![shutdownId] = Append(@, "result")]
          /\ pc = "stopped"
          /\ UNCHANGED <<received, streamId, handled, turnedDown, pc, current>>
      BY <1>5 DEF Joined
    <2>2. /\ shutdownId \in Msg /\ shutdownId \in received /\ Kind[shutdownId] = "shutdown"
          /\ replies[shutdownId] = <<>> /\ shutdownId \notin handled /\ shutdownId # NoMsg
      BY <2>1, MessageAssumption DEF TypeOK, PlaceInv, Decided, ReplyInv, Owed
    <2>3. AtMostOneReply' /\ \A n \in Msg : n # shutdownId => replies'[n] = replies[n]
      BY <1>0, <2>1, <2>2, FirstReply DEF ReplyInv
    <2>4. ReplyOrigin'
      <3>1. \A n \in Msg : n # NoMsg
        BY MessageAssumption
      <3>. QED
        BY <2>1, <2>2, <2>3, <3>1 DEF ReplyInv, ReplyOrigin
    <2>5. streamId # NoMsg => streamId \in handled /\ replies'[streamId] = <<>>
      BY <2>2, <2>3 DEF ReplyInv, Owed, TypeOK
    <2>6. Owed'
      BY <2>1, <2>5 DEF Owed
    <2>. QED
      BY <2>3, <2>4, <2>6 DEF ReplyInv
  <1>6. CASE EndOfInput
    BY <1>6, RepliesKept DEF EndOfInput
  <1>. QED
    BY <1>1, <1>2, <1>3, <1>4, <1>5, <1>6 DEF InputThread

\* The worker answers a request that it decided on and that it still owes.
LEMMA WorkerStepReplies == TypeOK /\ PlaceInv /\ ReplyInv /\ WorkerThread => ReplyInv'
  <1> SUFFICES ASSUME TypeOK, PlaceInv, ReplyInv, WorkerThread
               PROVE  ReplyInv'
    OBVIOUS
  <1> USE DEF inputVars, sharedVars, workerVars, folderVars, streamVars, configVars,
              outputVars
  <1>0. \A n, m \in Msg : Call(n) = Call(m) => n = m
    BY Items
  <1>1. CASE Pop \/ Stop \/ DrainNext \/ DrainEnd \/ ClearCancellationToken
    BY <1>1, RepliesKept DEF Pop, Stop, DrainNext, DrainEnd, ClearCancellationToken
  <1>2. ASSUME NEW m \in Msg,
               \/ Postpone(m) \/ Drop(m) \/ OnInitialized(m) \/ OnDidChangeConfiguration(m)
               \/ OnDidChangeWorkspaceFolders(m)
        PROVE  ReplyInv'
    <2>1. CASE Postpone(m)
      BY <2>1, RepliesKept DEF Postpone
    <2>2. CASE \/ Drop(m) \/ OnInitialized(m) \/ OnDidChangeConfiguration(m)
               \/ OnDidChangeWorkspaceFolders(m)
      <3>1. Finishes(m) /\ UNCHANGED <<replies, streamId, input, shutdownId, turnedDown, received>>
        BY <2>2 DEF Drop, OnInitialized, OnDidChangeConfiguration,
                    OnDidChangeWorkspaceFolders, Notified
      <3>. QED
        BY <3>1, RepliesKept DEF Finishes
    <2>. QED
      BY <1>2, <2>1, <2>2
  <1>3. ASSUME NEW m \in Msg, Refuse(m)
        PROVE  ReplyInv'
    <2>1. PICK e \in EntryErrors(m) : replies' = [replies EXCEPT ![m] = Append(@, e)]
      BY <1>3 DEF Refuse, Reply
    <2>2. e \in Outcome
      BY <2>1 DEF EntryErrors, Outcome
    <2>3. /\ pc = "dispatch" /\ current = Call(m) /\ pc' = "clearing"
          /\ handled' = handled \cup {m}
          /\ UNCHANGED <<received, streamId, input, shutdownId, turnedDown>>
      BY <1>3 DEF Refuse, Reply, Dispatching
    <2>4. m \in received /\ m \notin handled /\ m \notin turnedDown /\ Kind[m] # "shutdown"
      BY <2>3 DEF PlaceInv, Undecided
    <2>5. replies[m] = <<>> /\ (m = streamId => FALSE)
      BY <2>4, MessageAssumption DEF ReplyInv, ReplyOrigin, Owed
    <2>. QED
      BY <2>1, <2>2, <2>3, <2>4, <2>5, WorkerReplies
  <1>4. ASSUME NEW m \in Msg, Start(m)
        PROVE  ReplyInv'
    <2>1. /\ pc = "dispatch" /\ current = Call(m) /\ current' = current
          /\ handled' = handled \cup {m}
          /\ UNCHANGED <<replies, received, streamId, input, shutdownId, turnedDown>>
      BY <1>4 DEF Start, Dispatching
    <2>2. m \in received /\ m \notin handled /\ m \notin turnedDown /\ Kind[m] # "shutdown"
      BY <2>1 DEF PlaceInv, Undecided
    <2>3. replies[m] = <<>> /\ m # streamId
      BY <2>2, MessageAssumption DEF ReplyInv, ReplyOrigin, Owed
    <2>4. Owed'
      BY <1>0, <2>1, <2>3 DEF ReplyInv, Owed
    <2>5. ReplyOrigin' /\ AtMostOneReply'
      BY <2>1 DEF ReplyInv, ReplyOrigin, AtMostOneReply
    <2>. QED
      BY <2>4, <2>5 DEF ReplyInv
  <1>5. ASSUME NEW m \in Msg,
               OnInitialize(m) \/ OnDocumentRequest(m) \/ OnWorkspaceDiagnostic(m)
        PROVE  ReplyInv'
    <2>1. /\ pc = "running" /\ current = Call(m) /\ pc' = "clearing"
          /\ UNCHANGED <<received, handled, input, shutdownId, turnedDown>>
      BY <1>5
      DEF OnInitialize, OnDocumentRequest, OnWorkspaceDiagnostic, LeaveOpen, Serving, Reply
    <2>2. /\ m \in handled /\ replies[m] = <<>> /\ m # streamId
          /\ m \in received /\ Kind[m] # "shutdown"
      BY <2>1 DEF ReplyInv, Owed, PlaceInv, Decided
    <2>3. ASSUME NEW o \in Outcome, Reply(m, o), streamId' = streamId
          PROVE  ReplyInv'
      BY <2>1, <2>2, <2>3, WorkerReplies DEF Reply
    <2>4. CASE replies' = replies /\ streamId' = m
      <3>1. Owed'
        BY <2>1, <2>2, <2>4 DEF ReplyInv, Owed
      <3>2. ReplyOrigin' /\ AtMostOneReply'
        BY <2>1, <2>4 DEF ReplyInv, ReplyOrigin, AtMostOneReply
      <3>. QED
        BY <3>1, <3>2 DEF ReplyInv
    <2>5. \/ \E o \in Outcome : Reply(m, o) /\ streamId' = streamId
          \/ replies' = replies /\ streamId' = m
      <3>1. "result" \in Outcome /\ "InternalError" \in Outcome
            /\ "RequestCancelled" \in Outcome /\ "ServerCancelled" \in Outcome
        BY DEF Outcome
      <3>2. CASE OnInitialize(m)
        BY <3>1, <3>2 DEF OnInitialize
      <3>3. CASE OnDocumentRequest(m)
        <4>1. /\ streamId' = streamId
              /\ \/ Reply(m, "InternalError") \/ Reply(m, "result")
                 \/ Reply(m, "RequestCancelled")
          BY <3>3 DEF OnDocumentRequest
        <4>. QED
          BY <3>1, <4>1
      <3>4. CASE OnWorkspaceDiagnostic(m)
        BY <3>1, <3>4 DEF OnWorkspaceDiagnostic, LeaveOpen
      <3>. QED
        BY <1>5, <3>2, <3>3, <3>4
    <2>. QED
      BY <2>3, <2>4, <2>5
  <1>6. ASSUME NEW m \in Msg, OnTextDocument(m) \/ OnConfigFileChanged(m)
        PROVE  ReplyInv'
    <2>1. /\ pc' = "idle" /\ handled \subseteq handled'
          /\ UNCHANGED <<input, shutdownId, turnedDown, received>>
          /\ TerminateStream \/ UNCHANGED <<replies, streamId>>
      BY <1>6 DEF OnTextDocument, LazyInitialize, OnConfigFileChanged, Notified, Finishes
    <2>. QED
      BY <2>1, TerminateReplies, RepliesKept
  <1>7. CASE OnResponse
    <2>1. /\ pc' = "idle" /\ handled' = handled
          /\ UNCHANGED <<input, shutdownId, turnedDown, received>>
          /\ TerminateStream \/ UNCHANGED <<replies, streamId>>
      BY <1>7 DEF OnResponse
    <2>. QED
      BY <2>1, TerminateReplies, RepliesKept
  <1>8. ASSUME NEW m \in Msg, InitializeWorkspace(m)
        PROVE  ReplyInv'
    <2>1. /\ UNCHANGED <<pc, current, handled, input, shutdownId, turnedDown, received>>
          /\ TerminateStream \/ UNCHANGED <<replies, streamId>>
      BY <1>8 DEF InitializeWorkspace, LazyInitialize
    <2>. QED
      BY <2>1, TerminateReplies, RepliesKept
  <1>. QED
    BY <1>1, <1>2, <1>3, <1>4, <1>5, <1>6, <1>7, <1>8 DEF WorkerThread

\* A request is answered at most once: by the worker when it decides on it or
\* leaves its handler, by a configuration change for one left open, or by the
\* input thread after shutdown, and never by two of them.
THEOREM NoRequestAnsweredTwice == Spec => []AtMostOneReply
  <1>1. TypeOK /\ PlaceInv /\ ReplyInv /\ [Next]_vars => ReplyInv'
    <2>1. ReplyInv /\ UNCHANGED vars => ReplyInv'
      BY DEF vars, inputVars, sharedVars, workerVars, folderVars, streamVars, configVars,
             outputVars, ReplyInv, ReplyOrigin, Owed, AtMostOneReply
    <2>. QED
      BY <2>1, InputReplies, WorkerStepReplies DEF Next, Terminated
  <1>2. ReplyInv => AtMostOneReply
    BY DEF ReplyInv
  <1>. QED
    BY <1>1, <1>2, ReplyInit, TypeCorrect, EveryMessageInOnePlace, PTL DEF Spec

-----------------------------------------------------------------------------
(* All of it                                                               *)

\* What was shown so far holds together.
LEMMA IInvHolds == Spec => []IInv
  <1>1. TypeOK /\ PlaceInv /\ ReplyInv /\ [Next]_vars => ReplyInv'
    <2>1. ReplyInv /\ UNCHANGED vars => ReplyInv'
      BY DEF vars, inputVars, sharedVars, workerVars, folderVars, streamVars, configVars,
             outputVars, ReplyInv, ReplyOrigin, Owed, AtMostOneReply
    <2>. QED
      BY <2>1, InputReplies, WorkerStepReplies DEF Next, Terminated
  <1>. QED
    BY <1>1, ReplyInit, TypeCorrect, EveryMessageInOnePlace, PTL DEF Spec, IInv

-----------------------------------------------------------------------------
(* The end of the worker                                                   *)

\* The worker has stopped when shutdown is answered, and messages are refused and
\* turned down only once shutdown was requested.
ShutdownInv ==
    /\ \A s \in Msg : Kind[s] = "shutdown" /\ replies[s] # <<>> =>
           pc = "stopped" /\ input = "reading"
    /\ pc = "stopped" \/ turnedDown # {} \/ input = "joining" => shutdownRequested

\* The worker answers no shutdown request.
LEMMA WorkerAnswersOthers ==
    ASSUME TypeOK, PlaceInv, ReplyInv, WorkerThread
    PROVE  /\ \A s \in Msg : Kind[s] = "shutdown" => replies'[s] = replies[s]
           /\ UNCHANGED <<turnedDown, input, shutdownRequested>>
           /\ pc # "stopped"
           /\ pc' = "stopped" => shutdownRequested
  <1> USE DEF inputVars, sharedVars, workerVars, folderVars, streamVars, configVars, outputVars
  <1>1. ASSUME NEW m \in Msg, NEW o, replies' = [replies EXCEPT ![m] = Append(@, o)],
               Kind[m] # "shutdown"
        PROVE  \A s \in Msg : Kind[s] = "shutdown" => replies'[s] = replies[s]
    BY <1>1 DEF TypeOK
  <1>2. ASSUME TerminateStream
        PROVE  \A s \in Msg : Kind[s] = "shutdown" => replies'[s] = replies[s]
    <2>1. CASE streamId # NoMsg
      BY <1>1, <1>2, <2>1 DEF TerminateStream, TypeOK, PlaceInv, Decided, ReplyInv, Owed
    <2>. QED
      BY <1>2, <2>1 DEF TerminateStream
  <1>3. ASSUME NEW m \in Msg, Refuse(m)
        PROVE  \A s \in Msg : Kind[s] = "shutdown" => replies'[s] = replies[s]
    <2>1. Kind[m] # "shutdown" /\ \E o : replies' = [replies EXCEPT ![m] = Append(@, o)]
      BY <1>3 DEF Refuse, Reply, Dispatching, PlaceInv, Undecided
    <2>. QED
      BY <1>1, <2>1
  <1>4. ASSUME NEW m \in Msg,
               OnInitialize(m) \/ OnDocumentRequest(m) \/ OnWorkspaceDiagnostic(m)
        PROVE  \A s \in Msg : Kind[s] = "shutdown" => replies'[s] = replies[s]
    <2>1. Kind[m] # "shutdown"
      BY <1>4 DEF OnInitialize, OnDocumentRequest, OnWorkspaceDiagnostic, Serving
    <2>2. replies' = replies \/ \E o : replies' = [replies EXCEPT ![m] = Append(@, o)]
      BY <1>4 DEF OnInitialize, OnDocumentRequest, OnWorkspaceDiagnostic, LeaveOpen, Reply
    <2>. QED
      BY <1>1, <2>1, <2>2
  <1>5. \/ UNCHANGED replies \/ TerminateStream
        \/ \E m \in Msg : Refuse(m) \/ OnInitialize(m) \/ OnDocumentRequest(m)
                          \/ OnWorkspaceDiagnostic(m)
    BY DEF WorkerThread, Pop, Stop, DrainNext, DrainEnd, Postpone, Start, InitializeWorkspace,
           LazyInitialize, Drop, OnInitialized, OnDidChangeConfiguration,
           OnDidChangeWorkspaceFolders, OnTextDocument, OnConfigFileChanged,
           ClearCancellationToken, OnResponse
  <1>6. /\ UNCHANGED <<turnedDown, input, shutdownRequested>>
        /\ pc # "stopped"
        /\ pc' = "stopped" => shutdownRequested
    BY DEF WorkerThread, Pop, Stop, DrainNext, DrainEnd, Postpone, Refuse, Start, Reply,
           OnInitialize, InitializeWorkspace, OnDocumentRequest, OnWorkspaceDiagnostic,
           LeaveOpen, Drop, OnInitialized, OnDidChangeConfiguration,
           OnDidChangeWorkspaceFolders, OnTextDocument, OnConfigFileChanged,
           Notified, Finishes, Dispatching, Serving, ClearCancellationToken, OnResponse
  <1>. QED
    BY <1>2, <1>3, <1>4, <1>5, <1>6

\* The input thread answers the shutdown request that it served, once the worker
\* stopped, and what it reads after shutdown was requested.
LEMMA InputAnswers ==
    ASSUME TypeOK, PlaceInv, ReplyInv, ShutdownInv, InputThread
    PROVE  /\ ShutdownInv'
           /\ \A m \in Msg : replies'[m] # replies[m] =>
                \/ m = shutdownId /\ input = "joining"
                \/ m \notin received /\ replies'[m] = <<"InvalidRequest">>
  <1> USE DEF inputVars, sharedVars, workerVars, folderVars, streamVars, configVars, outputVars
  <1>1. CASE Joined
    <2>1. \A m \in Msg : m # shutdownId => replies'[m] = replies[m]
      BY <1>1 DEF Joined, TypeOK
    <2>. QED
      BY <1>1, <2>1 DEF Joined, ShutdownInv
  <1>2. ASSUME NEW m \in Msg, ReceiveAfterShutdown(m)
        PROVE  /\ ShutdownInv'
               /\ \A n \in Msg : replies'[n] # replies[n] =>
                    n \notin received /\ replies'[n] = <<"InvalidRequest">>
    <2>1. /\ m \notin received /\ Kind[m] # "shutdown" /\ shutdownRequested
          /\ UNCHANGED <<pc, shutdownRequested, input>>
          /\ UNCHANGED replies \/ replies' = [replies EXCEPT ![m] = Append(@, "InvalidRequest")]
      BY <1>2 DEF ReceiveAfterShutdown, Read, MaySend
    <2>2. replies[m] = <<>> /\ Append(<<>>, "InvalidRequest") = <<"InvalidRequest">>
      BY <2>1 DEF ReplyInv, ReplyOrigin
    <2>3. \A n \in Msg : n # m => replies'[n] = replies[n]
      BY <2>1 DEF TypeOK
    <2>. QED
      BY <2>1, <2>2, <2>3 DEF ShutdownInv, TypeOK
  <1>3. ASSUME UNCHANGED <<replies, pc, turnedDown, shutdownRequested>>,
               input' = input
        PROVE  ShutdownInv'
    BY <1>3 DEF ShutdownInv
  <1>4. ASSUME NEW m \in Msg, ReceiveShutdown(m)
        PROVE  ShutdownInv' /\ UNCHANGED replies
    BY <1>4 DEF ReceiveShutdown, ShutdownInv
  <1>5. \/ Joined \/ \E m \in Msg : ReceiveAfterShutdown(m) \/ ReceiveShutdown(m)
        \/ UNCHANGED <<replies, pc, turnedDown, shutdownRequested, input>>
    BY DEF InputThread, Receive, ReceiveSecondShutdown, ReceiveExit, Read, Cancel, ClientResponds,
           EndOfInput
  <1>. QED
    BY <1>1, <1>2, <1>3, <1>4, <1>5

\* Once the response to shutdown is written, the worker is gone, and whatever comes
\* is refused by the input thread as it comes in.
THEOREM ShutdownIsLast == Spec => NothingAfterShutdown
  <1>1. Init => ShutdownInv
    BY DEF Init, ShutdownInv
  <1>2. IInv /\ ShutdownInv /\ WorkerThread => ShutdownInv'
    BY WorkerAnswersOthers DEF ShutdownInv, IInv
  <1>3. ShutdownInv /\ UNCHANGED vars => ShutdownInv'
    BY DEF vars, inputVars, sharedVars, workerVars, outputVars, ShutdownInv
  <1>4. IInv /\ ShutdownInv /\ [Next]_vars => ShutdownInv'
    BY <1>2, <1>3, InputAnswers DEF Next, Terminated, IInv
  <1> DEFINE Quiet == \A s, m \in Msg :
                          /\ Kind[s] = "shutdown"
                          /\ replies[s] # <<>>
                          /\ replies'[m] # replies[m]
                          => m \notin received /\ replies'[m] = <<"InvalidRequest">>
  <1>5. IInv /\ ShutdownInv /\ [Next]_vars => [Quiet]_vars
    <2> SUFFICES ASSUME IInv, ShutdownInv, Next
                 PROVE  Quiet
      OBVIOUS
    <2>1. ASSUME NEW s \in Msg, NEW m \in Msg, Kind[s] = "shutdown", replies[s] # <<>>,
                 replies'[m] # replies[m]
          PROVE  m \notin received /\ replies'[m] = <<"InvalidRequest">>
      <3>1. pc = "stopped"
        BY <2>1 DEF ShutdownInv
      <3>2. ~WorkerThread /\ ~UNCHANGED vars
        BY <2>1, <3>1, WorkerAnswersOthers DEF IInv, vars, outputVars
      <3>3. InputThread
        BY <3>2 DEF Next, Terminated
      <3>4. ~(input = "joining" /\ m = shutdownId)
        BY <2>1 DEF ShutdownInv
      <3>. QED
        BY <2>1, <3>3, <3>4, InputAnswers DEF IInv
    <2>. QED
      BY <2>1
  <1>. QED
    BY <1>1, <1>4, <1>5, IInvHolds, PTL DEF Spec, NothingAfterShutdown

-----------------------------------------------------------------------------
(* Without added folders the loop over the postponed messages is not       *)
(* interrupted: once all folders are configured they stay so.              *)

\* No notification opens a folder: what is lost when one does is shown by pump_lost.
NoFolderAdded == \A m \in Msg : Kind[m] = "folders" => Added[m] = {}

\* The protocol allows a client one initialize request.
OneInitialize == \A m, n \in Msg : Kind[m] = "initialize" /\ Kind[n] = "initialize" => m = n

SetupInv ==
    /\ \A m \in Msg : Kind[m] = "initialize" /\ isInitialized =>
           m \in handled /\ ~(pc = "running" /\ current = Call(m))
    /\ ~isInitialized => postponed = <<>> /\ ~draining
    /\ draining => AllConfigured

\* Most steps leave the folders and the loop alone, and put no message into a handler.
LEMMA SetupKept ==
    ASSUME SetupInv, UNCHANGED <<isInitialized, folders, configured, postponed, draining>>,
           handled \subseteq handled', pc' = "running" => pc = "running" /\ current' = current
    PROVE  SetupInv'
  BY DEF SetupInv, AllConfigured

LEMMA SetupStep ==
    ASSUME NoFolderAdded, OneInitialize, IInv, SetupInv, [Next]_vars
    PROVE  SetupInv'
  <1> USE DEF inputVars, sharedVars, workerVars, folderVars, streamVars, configVars, outputVars
  <1>1. ASSUME NEW m \in Msg, Postpone(m)
        PROVE  SetupInv'
    <2>1. /\ ~AllConfigured /\ isInitialized /\ pc' = "idle"
          /\ UNCHANGED <<isInitialized, folders, configured, draining, handled>>
      BY <1>1 DEF Postpone, MustPostpone
    <2>. QED
      BY <2>1 DEF SetupInv, AllConfigured
  <1>2. ASSUME NEW m \in Msg, OnInitialize(m)
        PROVE  SetupInv'
    <2>1. /\ Kind[m] = "initialize" /\ pc = "running" /\ current = Call(m) /\ pc' = "clearing"
          /\ isInitialized' /\ UNCHANGED <<handled, postponed, draining>>
      BY <1>2 DEF OnInitialize, Serving, Reply
    <2>2. m \in handled /\ ~isInitialized
      BY <2>1 DEF IInv, ReplyInv, Owed, SetupInv
    <2>3. \A n \in Msg : Kind[n] = "initialize" => n = m
      BY <2>1 DEF OneInitialize
    <2>. QED
      BY <2>1, <2>2, <2>3 DEF SetupInv
  <1>3. ASSUME NEW m \in Msg, Start(m)
        PROVE  SetupInv'
    <2>1. /\ pc = "dispatch" /\ current = Call(m) /\ current' = current
          /\ handled' = handled \cup {m}
          /\ UNCHANGED <<isInitialized, folders, configured, postponed, draining>>
      BY <1>3 DEF Start, Dispatching
    <2>2. m \notin handled
      BY <2>1 DEF IInv, PlaceInv, Undecided
    <2>. QED
      BY <2>1, <2>2, Items DEF SetupInv, AllConfigured
  <1>4. ASSUME NEW m \in Msg, OnInitialized(m)
        PROVE  SetupInv'
    <2>1. /\ UNCHANGED <<isInitialized, folders, postponed, draining>>
          /\ configured \subseteq configured' /\ handled \subseteq handled' /\ pc' = "idle"
      BY <1>4 DEF OnInitialized, Notified, Finishes
    <2>. QED
      BY <2>1 DEF SetupInv, AllConfigured
  <1>5. ASSUME NEW m \in Msg, OnDidChangeWorkspaceFolders(m)
        PROVE  SetupInv'
    <2>1. /\ UNCHANGED <<isInitialized, postponed, draining>>
          /\ Added[m] = {} /\ handled \subseteq handled' /\ pc' = "idle"
          /\ folders' = folders \ Removed[m] /\ configured' = configured \ Removed[m]
      BY <1>5 DEF OnDidChangeWorkspaceFolders, Notified, Finishes, NoFolderAdded
    <2>. QED
      BY <2>1 DEF SetupInv, AllConfigured
  <1>6. CASE OnResponse
    <2>1. /\ UNCHANGED <<isInitialized, folders, postponed, handled>> /\ pc' = "idle"
          /\ draining' = Drains
      BY <1>6 DEF OnResponse
    <2>. QED
      BY <2>1 DEF SetupInv, AllConfigured, Drains
  <1>7. CASE DrainEnd
    BY <1>7 DEF DrainEnd, SetupInv, AllConfigured
  <1>8. \/ UNCHANGED vars \/ OnResponse \/ DrainEnd
        \/ \E m \in Msg : \/ Postpone(m) \/ OnInitialize(m) \/ Start(m) \/ OnInitialized(m)
                          \/ OnDidChangeWorkspaceFolders(m)
        \/ /\ UNCHANGED <<isInitialized, folders, configured, postponed, draining>>
           /\ handled \subseteq handled'
           /\ pc' = "running" => pc = "running" /\ current' = current
    BY DEF Next, Terminated, InputThread, WorkerThread, Receive, ReceiveAfterShutdown,
           ReceiveShutdown, ReceiveSecondShutdown, ReceiveExit, Cancel, ClientResponds, Joined,
           EndOfInput, Pop, Stop, DrainNext, Refuse, Reply, InitializeWorkspace,
           OnDocumentRequest, OnWorkspaceDiagnostic, LeaveOpen, Drop, OnDidChangeConfiguration,
           OnTextDocument, OnConfigFileChanged, Notified, Finishes, ClearCancellationToken
  <1>9. UNCHANGED vars => SetupInv'
    BY SetupKept DEF vars
  <1>10. ASSUME UNCHANGED <<isInitialized, folders, configured, postponed, draining>>,
                handled \subseteq handled', pc' = "running" => pc = "running" /\ current' = current
         PROVE  SetupInv'
    BY <1>10, SetupKept
  <1>. QED
    BY <1>1, <1>2, <1>3, <1>4, <1>5, <1>6, <1>7, <1>8, <1>9, <1>10

LEMMA SetupHolds ==
    ASSUME NoFolderAdded, OneInitialize
    PROVE  Spec => []SetupInv
  <1>1. Init => SetupInv
    BY DEF Init, SetupInv
  <1>. QED
    BY <1>1, SetupStep, IInvHolds, PTL DEF Spec

-----------------------------------------------------------------------------
(* No message is lost                                                      *)

Dispatched(m) == pc = "dispatch" /\ current = Call(m)

Inside(m) == Queued(m) \/ Held(m) \/ Dispatched(m)

LostInv ==
    Running => \A m \in received :
        Kind[m] # "shutdown" => Inside(m) \/ m \in handled \cup turnedDown

\* All of a queue is in its head and its tail.
LEMMA HeadOrTail ==
    ASSUME NEW S, NEW s \in Seq(S), s # <<>>, NEW x \in Elems(s)
    PROVE  x = Head(s) \/ x \in Elems(Tail(s))
  <1>1. PICK i \in 1..Len(s) : x = s[i]
    BY DEF Elems
  <1>2. Len(s) \in Nat /\ Head(s) = s[1] /\ Len(Tail(s)) = Len(s) - 1
        /\ \A j \in 1..Len(Tail(s)) : Tail(s)[j] = s[j + 1]
    OBVIOUS
  <1>3. CASE i # 1
    <2>1. i - 1 \in 1..Len(Tail(s)) /\ Tail(s)[i - 1] = s[(i - 1) + 1] /\ (i - 1) + 1 = i
      BY <1>2, <1>3
    <2>. QED
      BY <1>1, <2>1 DEF Elems
  <1>. QED
    BY <1>1, <1>2, <1>3

\* A step that leaves the queues alone, and whose message in hand stays or is decided on.
LEMMA LostKept ==
    ASSUME LostInv, UNCHANGED <<messages, postponed, draining, batch, received>>,
           Running' => Running, handled \subseteq handled', turnedDown \subseteq turnedDown',
           \A n \in Msg : Dispatched(n) => Dispatched(n)' \/ n \in handled',
           received \subseteq Msg
    PROVE  LostInv'
  <1>1. \A n \in Msg : Queued(n)' = Queued(n) /\ Held(n)' = Held(n)
    BY DEF Queued, Held, Backlog
  <1>. QED
    BY <1>1 DEF LostInv, Inside

\* A message in the worker's hand that it decides on.
LEMMA DecidedIsHandled ==
    ASSUME NEW m \in Msg, current = Call(m), handled' = handled \cup {m}
    PROVE  \A n \in Msg : Dispatched(n) => n \in handled'
  BY Items DEF Dispatched

\* The input thread puts what it reads on the queue or turns it down.
LEMMA InputLoses ==
    ASSUME IInv, LostInv, InputThread
    PROVE  LostInv'
  <1> USE DEF inputVars, sharedVars, workerVars, folderVars, streamVars, configVars, outputVars
  <1>0. /\ messages \in Seq(Item) /\ received \subseteq Msg
        /\ asked \in [Msg -> SUBSET Workspace]
    BY DEF IInv, TypeOK
  <1>1. ASSUME NEW m \in Msg, Receive(m)
        PROVE  LostInv'
    <2>1. /\ messages' = Append(messages, Call(m)) /\ received' = received \cup {m}
          /\ UNCHANGED <<process, postponed, draining, batch, pc, current, handled, turnedDown>>
      BY <1>1 DEF Receive, Read
    <2>2. \A n \in Msg : /\ Queued(n)' <=> Queued(n) \/ n = m
                         /\ Held(n)' = Held(n) /\ Dispatched(n)' = Dispatched(n)
      BY <1>0, <2>1, ElemsAppend, Items DEF Queued, Held, Backlog, Dispatched
    <2>. QED
      BY <1>0, <2>1, <2>2 DEF LostInv, Inside, Running
  <1>2. ASSUME NEW m \in Msg, ReceiveAfterShutdown(m) \/ ReceiveShutdown(m)
        PROVE  LostInv'
    <2>1. /\ received' = received \cup {m}
          /\ m \in turnedDown' \/ Kind[m] = "shutdown"
          /\ turnedDown \subseteq turnedDown'
          /\ UNCHANGED <<process, messages, postponed, draining, batch, pc, current, handled>>
      BY <1>2 DEF ReceiveAfterShutdown, ReceiveShutdown, Read
    <2>2. \A n \in Msg : /\ Queued(n)' = Queued(n) /\ Held(n)' = Held(n)
                         /\ Dispatched(n)' = Dispatched(n)
      BY <2>1 DEF Queued, Held, Backlog, Dispatched
    <2>. QED
      BY <1>0, <2>1, <2>2 DEF LostInv, Inside, Running
  <1>3. ASSUME NEW m \in Msg, ClientResponds(m), ~shutdownRequested
        PROVE  LostInv'
    <2>1. PICK gives \in {asked[m], {}} : messages' = Append(messages, Response(m, gives))
      BY <1>3 DEF ClientResponds
    <2>2. Response(m, gives) \in Item /\ Response(m, gives).isResponse
      BY <1>0, Items
    <2>3. UNCHANGED <<process, received, postponed, draining, batch, pc, current, handled, turnedDown>>
      BY <1>3 DEF ClientResponds
    <2>4. \A n \in Msg : /\ Queued(n)' = Queued(n)
                         /\ Held(n)' = Held(n) /\ Dispatched(n)' = Dispatched(n)
      BY <1>0, <2>1, <2>2, <2>3, ElemsAppend, Items DEF Queued, Held, Backlog, Dispatched
    <2>. QED
      BY <1>0, <2>3, <2>4 DEF LostInv, Inside, Running
  <1>4. ASSUME NEW m \in Msg, Cancel(m) \/ (ClientResponds(m) /\ shutdownRequested)
        PROVE  LostInv'
    BY <1>0, <1>4, LostKept DEF Cancel, ClientResponds, Running, Dispatched
  <1>5. CASE Joined
    BY <1>0, <1>5, LostKept DEF Joined, Running, Dispatched
  <1>6. ASSUME EndOfInput \/ \E m \in Msg : ReceiveSecondShutdown(m) \/ ReceiveExit(m)
        PROVE  LostInv'
    BY <1>6 DEF EndOfInput, ReceiveSecondShutdown, ReceiveExit, LostInv, Running
  <1>. QED
    BY <1>1, <1>2, <1>3, <1>4, <1>5, <1>6 DEF InputThread

\* The worker takes a message from the queue into its hand, and out of its hand only
\* to decide on it or to postpone it.
LEMMA WorkerLoses ==
    ASSUME IInv, SetupInv, LostInv, WorkerThread
    PROVE  LostInv'
  <1> USE DEF inputVars, sharedVars, workerVars, folderVars, streamVars, configVars, outputVars
  <1>0. /\ messages \in Seq(Item) /\ received \subseteq Msg
        /\ postponed \in Seq(Msg) /\ batch \in Seq(Msg)
    BY DEF IInv, TypeOK
  <1>1. CASE Pop
    <2>1. /\ messages # <<>> /\ current' = Head(messages) /\ messages' = Tail(messages)
          /\ pc = "idle" /\ pc' = "dispatch"
          /\ UNCHANGED <<process, received, postponed, draining, batch, handled, turnedDown>>
      BY <1>1 DEF Pop
    <2>2. \A n \in Msg : /\ Queued(n) => Queued(n)' \/ Dispatched(n)'
                         /\ Held(n)' = Held(n) /\ ~Dispatched(n)
      BY <1>0, <2>1, HeadOrTail DEF Queued, Held, Backlog, Dispatched
    <2>. QED
      BY <1>0, <2>1, <2>2 DEF LostInv, Inside, Running
  <1>2. CASE DrainNext
    <2>1. /\ draining /\ batch # <<>> /\ current' = Call(Head(batch)) /\ batch' = Tail(batch)
          /\ pc = "idle" /\ pc' = "dispatch"
          /\ UNCHANGED <<process, messages, received, postponed, draining, handled, turnedDown>>
      BY <1>2 DEF DrainNext
    <2>2. \A n \in Msg : /\ Held(n) => Held(n)' \/ Dispatched(n)'
                         /\ Queued(n)' = Queued(n) /\ ~Dispatched(n)
      BY <1>0, <2>1, HeadOrTail DEF Queued, Held, Backlog, Dispatched
    <2>. QED
      BY <1>0, <2>1, <2>2 DEF LostInv, Inside, Running
  <1>3. CASE DrainEnd
    <2>1. /\ draining /\ batch = <<>> /\ draining' = FALSE /\ postponed' = <<>> /\ pc = "idle"
          /\ UNCHANGED <<process, messages, pc, current, received, handled, turnedDown>>
      BY <1>3 DEF DrainEnd
    <2>2. \A n \in Msg : /\ Held(n)' = Held(n) /\ Queued(n)' = Queued(n)
                         /\ Dispatched(n)' = Dispatched(n)
      BY <2>1 DEF Held, Queued, Backlog, Dispatched
    <2>. QED
      BY <1>0, <2>1, <2>2 DEF LostInv, Inside, Running
  <1>4. ASSUME NEW m \in Msg, Postpone(m)
        PROVE  LostInv'
    <2>1. /\ current = Call(m) /\ postponed' = Append(postponed, m) /\ pc = "dispatch"
          /\ ~AllConfigured /\ Running
          /\ UNCHANGED <<messages, draining, batch, received, handled, turnedDown>>
      BY <1>4 DEF Postpone, SetAside, Dispatching, MustPostpone
    <2>2. ~draining /\ Backlog = postponed /\ Backlog' = Append(postponed, m)
      BY <2>1 DEF SetupInv, Backlog
    <2>3. \A n \in Msg : /\ Held(n)' <=> Held(n) \/ n = m
                         /\ Queued(n)' = Queued(n) /\ (Dispatched(n) => n = m)
      BY <1>0, <2>1, <2>2, ElemsAppend, Items DEF Queued, Held, Dispatched
    <2>. QED
      BY <1>0, <2>1, <2>3 DEF LostInv, Inside
  <1>5. CASE OnResponse
    <2>1. /\ current.isResponse /\ draining' = Drains
          /\ batch' = IF draining' THEN postponed ELSE <<>>
          /\ pc = "dispatch" /\ UNCHANGED <<process, messages, postponed, received, handled, turnedDown>>
      BY <1>5 DEF OnResponse
    <2>2. ~draining /\ Backlog' = Backlog
      BY <2>1 DEF IInv, PlaceInv, OnePlace, Backlog
    <2>3. \A n \in Msg : /\ Held(n)' = Held(n) /\ Queued(n)' = Queued(n) /\ ~Dispatched(n)
      BY <2>1, <2>2, Items DEF Held, Queued, Dispatched
    <2>. QED
      BY <1>0, <2>1, <2>3 DEF LostInv, Inside, Running
  <1>6. ASSUME NEW m \in Msg,
               \/ Refuse(m) \/ Start(m) \/ Drop(m) \/ OnInitialized(m)
               \/ OnDidChangeConfiguration(m) \/ OnDidChangeWorkspaceFolders(m)
               \/ OnTextDocument(m) \/ OnConfigFileChanged(m)
        PROVE  LostInv'
    <2>1. /\ current = Call(m) /\ handled' = handled \cup {m} /\ Running
          /\ UNCHANGED <<messages, postponed, draining, batch, received, turnedDown>>
      BY <1>6 DEF Refuse, Start, Drop, OnInitialized, OnDidChangeConfiguration,
                  OnDidChangeWorkspaceFolders, OnTextDocument, OnConfigFileChanged, Notified,
                  Finishes, Dispatching
    <2>. QED
      BY <1>0, <2>1, DecidedIsHandled, LostKept
  <1>7. ASSUME \/ Stop \/ ClearCancellationToken
               \/ \E m \in Msg : \/ OnInitialize(m) \/ InitializeWorkspace(m)
                                 \/ OnDocumentRequest(m) \/ OnWorkspaceDiagnostic(m)
        PROVE  LostInv'
    <2>1. /\ pc # "dispatch" /\ Running
          /\ UNCHANGED <<messages, postponed, draining, batch, received, handled, turnedDown>>
      BY <1>7 DEF Stop, ClearCancellationToken, OnInitialize, InitializeWorkspace,
                  OnDocumentRequest, OnWorkspaceDiagnostic, Serving
    <2>. QED
      BY <1>0, <2>1, LostKept DEF Dispatched
  <1>. QED
    BY <1>1, <1>2, <1>3, <1>4, <1>5, <1>6, <1>7 DEF WorkerThread

LEMMA NothingLost ==
    ASSUME NoFolderAdded, OneInitialize
    PROVE  Spec => []LostInv
  <1>1. Init => LostInv
    BY DEF Init, LostInv
  <1>2. LostInv /\ UNCHANGED vars => LostInv'
    BY DEF vars, inputVars, sharedVars, workerVars, outputVars, LostInv, Inside, Queued, Held, Backlog, Dispatched,
           Running
  <1>3. IInv /\ SetupInv /\ LostInv /\ [Next]_vars => LostInv'
    BY <1>2, InputLoses, WorkerLoses DEF Next, Terminated
  <1>. QED
    BY <1>1, <1>3, IInvHolds, SetupHolds, PTL DEF Spec

-----------------------------------------------------------------------------
(* What is owed to a request that was decided on                           *)

DebtInv ==
    /\ Running => \A m \in received :
           IsRequest(m) /\ replies[m] = <<>> =>
               /\ m \in handled => m = streamId \/ (pc = "running" /\ current = Call(m))
               /\ m \notin turnedDown
               /\ Kind[m] = "shutdown" => m = shutdownId
    /\ streamId # NoMsg => Kind[streamId] = "stream"
    /\ \A s, t \in received :
           /\ Kind[s] = "stream" /\ replies[s] = <<>>
           /\ Kind[t] = "stream" /\ replies[t] = <<>>
           => s = t

\* A response is written and stays.
LEMMA Answered ==
    ASSUME TypeOK, NEW m \in Msg, NEW o \in Outcome,
           replies' = [replies EXCEPT ![m] = Append(@, o)]
    PROVE  replies'[m] # <<>> /\ \A n \in Msg : n # m => replies'[n] = replies[n]
  <1>1. replies \in [Msg -> Seq(Outcome)]
    BY DEF TypeOK
  <1>2. Append(replies[m], o) \in Seq(Outcome) /\ Len(Append(replies[m], o)) = Len(replies[m]) + 1
    BY <1>1
  <1>3. Append(replies[m], o) # <<>>
    BY <1>1, <1>2
  <1>. QED
    BY <1>1, <1>3

\* The input thread owes an answer to the shutdown request it serves.
LEMMA InputOwes ==
    ASSUME IInv, DebtInv, InputThread
    PROVE  DebtInv'
  <1> USE DEF inputVars, sharedVars, workerVars, folderVars, streamVars, configVars, outputVars
  <1>0. received \subseteq Msg /\ TypeOK
    BY DEF IInv, TypeOK
  <1>1. ASSUME NEW m \in Msg, Receive(m)
        PROVE  DebtInv'
    <2>1. /\ received' = received \cup {m} /\ m \notin received /\ Kind[m] # "shutdown"
          /\ Kind[m] = "stream" => \A s \in received : Kind[s] = "stream" => replies[s] # <<>>
          /\ UNCHANGED <<process, replies, handled, turnedDown, streamId, shutdownId, pc, current>>
      BY <1>1 DEF Receive, Read, MaySend
    <2>2. m \notin handled /\ m \notin turnedDown
      BY <2>1 DEF IInv, PlaceInv, Decided
    <2>. QED
      BY <2>1, <2>2 DEF DebtInv, Running, IsRequest
  <1>2. ASSUME NEW m \in Msg, ReceiveAfterShutdown(m)
        PROVE  DebtInv'
    <2>1. /\ received' = received \cup {m} /\ m \notin received /\ Kind[m] # "shutdown"
          /\ turnedDown' = turnedDown \cup {m}
          /\ Kind[m] = "stream" => IsRequest(m)
          /\ UNCHANGED <<process, handled, streamId, shutdownId, pc, current>>
      BY <1>2 DEF ReceiveAfterShutdown, Read, MaySend, IsRequest, RequestKind
    <2>2. /\ IsRequest(m) => replies'[m] # <<>>
          /\ \A n \in Msg : n # m => replies'[n] = replies[n]
      <3>1. CASE IsRequest(m)
        BY <1>0, <1>2, <3>1, Answered DEF ReceiveAfterShutdown, Outcome
      <3>. QED
        BY <1>2, <3>1 DEF ReceiveAfterShutdown
    <2>. QED
      BY <1>0, <2>1, <2>2 DEF DebtInv, Running, IsRequest
  <1>3. ASSUME NEW m \in Msg, ReceiveShutdown(m)
        PROVE  DebtInv'
    <2>1. /\ received' = received \cup {m} /\ m \notin received /\ Kind[m] = "shutdown"
          /\ shutdownId' = m /\ shutdownId = NoMsg
          /\ UNCHANGED <<process, handled, replies, turnedDown, streamId, pc, current>>
      BY <1>3 DEF ReceiveShutdown, Read, MaySend, IInv, ReplyInv, Owed
    <2>2. m \notin handled /\ m \notin turnedDown /\ NoMsg \notin received
      BY <1>0, <2>1, MessageAssumption DEF IInv, PlaceInv, Decided
    <2>. QED
      BY <2>1, <2>2 DEF DebtInv, Running, IsRequest
  <1>4. CASE Joined
    <2>1. /\ replies' = [replies EXCEPT ![shutdownId] = Append(@, "result")]
          /\ shutdownId \in Msg
          /\ UNCHANGED <<process, received, handled, turnedDown, streamId, pc, current>>
      BY <1>4, MessageAssumption DEF Joined, IInv, ReplyInv, Owed, TypeOK
    <2>2. replies'[shutdownId] # <<>> /\ \A n \in Msg : n # shutdownId => replies'[n] = replies[n]
      BY <1>0, <2>1, Answered DEF Outcome
    <2>. QED
      BY <1>0, <2>1, <2>2 DEF DebtInv, Running, IsRequest
  <1>5. ASSUME NEW m \in Msg, Cancel(m) \/ ClientResponds(m)
        PROVE  DebtInv'
    BY <1>5 DEF Cancel, ClientResponds, DebtInv, Running, IsRequest
  <1>6. ASSUME EndOfInput \/ \E m \in Msg : ReceiveSecondShutdown(m) \/ ReceiveExit(m)
        PROVE  DebtInv'
    <2>1. /\ ~Running' /\ UNCHANGED <<replies, streamId>>
          /\ \A s \in received' : Kind[s] = "stream" => s \in received
      BY <1>6 DEF EndOfInput, ReceiveSecondShutdown, ReceiveExit, Read, Running
    <2>. QED
      BY <2>1 DEF DebtInv
  <1>. QED
    BY <1>1, <1>2, <1>3, <1>4, <1>5, <1>6 DEF InputThread

\* The worker answers a request it decided on, or leaves it open as the only one.
LEMMA WorkerOwes ==
    ASSUME IInv, DebtInv, WorkerThread
    PROVE  DebtInv'
  <1> USE DEF inputVars, sharedVars, workerVars, folderVars, streamVars, configVars, outputVars
  <1>0. received \subseteq Msg /\ TypeOK /\ NoMsg \notin Msg /\ streamId \in Msg \cup {NoMsg}
    BY MessageAssumption DEF IInv, TypeOK
  <1>1. ASSUME NEW m \in Msg, Refuse(m)
        PROVE  DebtInv'
    <2>1. PICK o \in Outcome : replies' = [replies EXCEPT ![m] = Append(@, o)]
      BY <1>1 DEF Refuse, Reply, EntryErrors, Outcome
    <2>2. /\ handled' = handled \cup {m} /\ pc = "dispatch"
          /\ UNCHANGED <<process, received, turnedDown, streamId, shutdownId>>
      BY <1>1 DEF Refuse, Reply, Dispatching
    <2>3. replies'[m] # <<>> /\ \A n \in Msg : n # m => replies'[n] = replies[n]
      BY <1>0, <2>1, Answered
    <2>. QED
      BY <1>0, <2>2, <2>3 DEF DebtInv, Running, IsRequest
  <1>2. ASSUME NEW m \in Msg, Start(m)
        PROVE  DebtInv'
    <2>1. /\ handled' = handled \cup {m} /\ pc = "dispatch" /\ pc' = "running"
          /\ current = Call(m) /\ current' = current
          /\ UNCHANGED <<process, replies, received, turnedDown, streamId, shutdownId>>
      BY <1>2 DEF Start, Dispatching
    <2>. QED
      BY <1>0, <2>1 DEF DebtInv, Running, IsRequest
  <1>3. ASSUME NEW m \in Msg,
               OnInitialize(m) \/ OnDocumentRequest(m) \/ OnWorkspaceDiagnostic(m)
        PROVE  DebtInv'
    <2>1. /\ pc = "running" /\ current = Call(m)
          /\ UNCHANGED <<process, received, handled, turnedDown, shutdownId>>
      BY <1>3 DEF OnInitialize, OnDocumentRequest, OnWorkspaceDiagnostic, Serving
    <2>2. m \in received /\ replies[m] = <<>> /\ \A n \in Msg : current = Call(n) => n = m
      BY <2>1, Items DEF IInv, PlaceInv, Decided, ReplyInv, Owed
    <2>3. CASE LeaveOpen(m) /\ Kind[m] = "stream"
      <3>1. streamId' = m /\ UNCHANGED replies
        BY <2>3 DEF LeaveOpen
      <3>2. streamId \in received /\ replies[streamId] = <<>> => streamId \in {m, NoMsg}
        BY <2>2, <2>3 DEF DebtInv
      <3>. QED
        BY <1>0, <2>1, <2>2, <2>3, <3>1, <3>2 DEF DebtInv, Running, IsRequest
    <2>4. ASSUME NEW o \in Outcome, Reply(m, o), streamId' = streamId
          PROVE  DebtInv'
      <3>1. replies'[m] # <<>> /\ \A n \in Msg : n # m => replies'[n] = replies[n]
        BY <1>0, <2>4, Answered DEF Reply
      <3>. QED
        BY <1>0, <2>1, <2>2, <2>4, <3>1 DEF DebtInv, Running, IsRequest
    <2>5. \/ LeaveOpen(m) /\ Kind[m] = "stream"
          \/ \E o \in Outcome : Reply(m, o) /\ streamId' = streamId
      BY <1>3 DEF OnInitialize, OnDocumentRequest, OnWorkspaceDiagnostic, Serving, Outcome
    <2>. QED
      BY <2>3, <2>4, <2>5
  <1>4. ASSUME TerminateStream \/ UNCHANGED <<replies, streamId>>,
               Running' => Running, UNCHANGED <<received, turnedDown, shutdownId>>,
               \A n \in handled' : n \in handled \/ ~IsRequest(n),
               pc = "running" => pc' = "running" /\ current' = current
        PROVE  DebtInv'
    <2>1. CASE UNCHANGED <<replies, streamId>>
      BY <1>0, <1>4, <2>1 DEF DebtInv, IsRequest
    <2>2. CASE TerminateStream /\ streamId = NoMsg
      BY <1>0, <1>4, <2>2 DEF TerminateStream, DebtInv, IsRequest
    <2>3. CASE TerminateStream /\ streamId # NoMsg
      <3>1. streamId \in Msg /\ streamId' = NoMsg
            /\ replies' = [replies EXCEPT ![streamId] = Append(@, "ServerCancelled")]
        BY <1>0, <2>3 DEF TerminateStream
      <3>2. replies'[streamId] # <<>> /\ \A n \in Msg : n # streamId => replies'[n] = replies[n]
        BY <1>0, <3>1, Answered DEF Outcome
      <3>. QED
        BY <1>0, <1>4, <3>1, <3>2 DEF DebtInv, IsRequest
    <2>. QED
      BY <1>4, <2>1, <2>2, <2>3
  <1>5. ASSUME NEW m \in Msg,
               \/ Drop(m) \/ OnInitialized(m) \/ OnDidChangeConfiguration(m)
               \/ OnDidChangeWorkspaceFolders(m) \/ OnTextDocument(m) \/ OnConfigFileChanged(m)
        PROVE  DebtInv'
    <2>1. /\ handled' = handled \cup {m} /\ ~IsRequest(m) /\ pc = "dispatch" /\ Running
          /\ UNCHANGED <<received, turnedDown, shutdownId>>
          /\ TerminateStream \/ UNCHANGED <<replies, streamId>>
      BY <1>5 DEF Drop, OnInitialized, OnDidChangeConfiguration, OnDidChangeWorkspaceFolders,
                  OnTextDocument, OnConfigFileChanged, Notified, Finishes, Dispatching,
                  LazyInitialize
    <2>. QED
      BY <1>4, <2>1
  <1>6. ASSUME \/ OnResponse \/ Pop \/ Stop \/ DrainNext \/ DrainEnd \/ ClearCancellationToken
               \/ \E m \in Msg : InitializeWorkspace(m) \/ Postpone(m)
        PROVE  DebtInv'
    <2>1. /\ pc # "running" \/ (pc' = pc /\ current' = current)
          /\ UNCHANGED <<received, handled, turnedDown, shutdownId>>
      BY <1>6 DEF OnResponse, Pop, Stop, DrainNext, DrainEnd, ClearCancellationToken,
                  InitializeWorkspace, Postpone, Dispatching
    <2>2. Running
      BY <1>6 DEF OnResponse, Pop, Stop, DrainNext, DrainEnd, ClearCancellationToken,
                  InitializeWorkspace, Serving, Postpone, Dispatching
    <2>3. TerminateStream \/ UNCHANGED <<replies, streamId>>
      BY <1>6 DEF OnResponse, Pop, Stop, DrainNext, DrainEnd, ClearCancellationToken,
                  InitializeWorkspace, LazyInitialize, Postpone
    <2>. QED
      BY <1>4, <2>1, <2>2, <2>3
  <1>. QED
    BY <1>1, <1>2, <1>3, <1>5, <1>6 DEF WorkerThread

LEMMA DebtHolds == Spec => []DebtInv
  <1>1. Init => DebtInv
    BY DEF Init, DebtInv
  <1>2. DebtInv /\ UNCHANGED vars => DebtInv'
    BY DEF vars, inputVars, sharedVars, workerVars, streamVars, outputVars, DebtInv, Running,
           IsRequest
  <1>3. IInv /\ DebtInv /\ [Next]_vars => DebtInv'
    BY <1>2, InputOwes, WorkerOwes DEF Next, Terminated
  <1>. QED
    BY <1>1, <1>3, IInvHolds, PTL DEF Spec

\* If no folder is added, a request that was received is answered or is still on its
\* way to an answer, in every state in which the server runs.
THEOREM RequestsAreKept ==
    ASSUME NoFolderAdded, OneInitialize
    PROVE  Spec => []NoRequestForgotten
  <1>1. IInv /\ LostInv /\ DebtInv => NoRequestForgotten
    <2> SUFFICES ASSUME IInv, LostInv, DebtInv, NEW m \in received, IsRequest(m),
                        replies[m] = <<>>, Running
                 PROVE  Waiting(m) \/ m \in {streamId, shutdownId}
      BY DEF NoRequestForgotten
    <2>1. m \in handled => Waiting(m) \/ m = streamId
      BY DEF DebtInv, Waiting, InHand
    <2>2. m \notin handled /\ Kind[m] # "shutdown" => Inside(m)
      BY DEF DebtInv, LostInv
    <2>3. Inside(m) => Waiting(m)
      BY DEF Inside, Waiting, Dispatched, InHand
    <2>. QED
      BY <2>1, <2>2, <2>3 DEF DebtInv
  <1>. QED
    BY <1>1, IInvHolds, NothingLost, DebtHolds, PTL

-----------------------------------------------------------------------------
(* Tokens                                                                  *)

\* A token belongs to a request that the worker has not decided on or has in its hand.
TokenInv ==
    /\ \A m \in tokens :
           m \in received /\ IsRequest(m) /\ Kind[m] # "shutdown" /\ m \notin turnedDown
    /\ Running => \A m \in tokens \cap handled : pc \in {"running", "clearing"} /\ current = Call(m)

LEMMA TokenStep ==
    ASSUME IInv, TokenInv, [Next]_vars
    PROVE  TokenInv'
  <1> USE DEF inputVars, sharedVars, workerVars, folderVars, streamVars, configVars, outputVars
  <1>0. tokens \subseteq Msg
    BY DEF IInv, TypeOK
  <1>1. ASSUME NEW m \in Msg, Receive(m)
        PROVE  TokenInv'
    <2>1. m \notin handled /\ m \notin turnedDown
      BY <1>1 DEF Receive, Read, MaySend, IInv, PlaceInv, Decided
    <2>. QED
      BY <1>1, <2>1 DEF Receive, Read, TokenInv, Running, IsRequest
  <1>2. ASSUME NEW m \in Msg, ReceiveAfterShutdown(m)
        PROVE  TokenInv'
    BY <1>2 DEF ReceiveAfterShutdown, Read, MaySend, TokenInv, Running, IsRequest
  <1>3. CASE ClearCancellationToken
    <2>1. /\ pc = "clearing" /\ tokens' = tokens \ {current.of} /\ Running
          /\ UNCHANGED <<received, turnedDown, handled>>
      BY <1>3 DEF ClearCancellationToken
    <2>2. \A m \in tokens' : m \notin handled
      BY <1>0, <2>1, Items DEF TokenInv
    <2>. QED
      BY <2>1, <2>2 DEF TokenInv, IsRequest
  <1>4. ASSUME NEW m \in Msg,
               \/ Refuse(m) \/ Start(m) \/ Drop(m) \/ OnInitialized(m)
               \/ OnDidChangeConfiguration(m) \/ OnDidChangeWorkspaceFolders(m)
               \/ OnTextDocument(m) \/ OnConfigFileChanged(m)
        PROVE  TokenInv'
    <2>1. /\ pc = "dispatch" /\ current = Call(m) /\ handled' = handled \cup {m} /\ Running
          /\ UNCHANGED <<tokens, received, turnedDown>> /\ current' = current
      BY <1>4 DEF Refuse, Reply, Start, Drop, OnInitialized, OnDidChangeConfiguration,
                  OnDidChangeWorkspaceFolders, OnTextDocument, OnConfigFileChanged, Notified,
                  Finishes, Dispatching
    <2>2. IsRequest(m) => pc' \in {"running", "clearing"}
      BY <1>4 DEF Refuse, Reply, Start, Drop, OnInitialized, OnDidChangeConfiguration,
                  OnDidChangeWorkspaceFolders, OnTextDocument, OnConfigFileChanged, Notified,
                  Finishes
    <2>3. m \in tokens => IsRequest(m)
      BY DEF TokenInv
    <2>. QED
      BY <2>1, <2>2, <2>3 DEF TokenInv, IsRequest
  <1>5. ASSUME UNCHANGED <<tokens, turnedDown, handled>>, received \subseteq received', Running' => Running,
               pc \notin {"running", "clearing"}
                   \/ (pc' \in {"running", "clearing"} /\ current' = current)
        PROVE  TokenInv'
    BY <1>5 DEF TokenInv, IsRequest
  <1>6. ASSUME \/ UNCHANGED vars \/ Joined \/ EndOfInput
               \/ Pop \/ Stop \/ DrainNext \/ DrainEnd \/ OnResponse
               \/ \E m \in Msg : \/ ReceiveShutdown(m) \/ ReceiveSecondShutdown(m)
                                 \/ ReceiveExit(m) \/ Cancel(m) \/ ClientResponds(m)
                                 \/ Postpone(m) \/ OnInitialize(m) \/ InitializeWorkspace(m)
                                 \/ OnDocumentRequest(m) \/ OnWorkspaceDiagnostic(m)
        PROVE  TokenInv'
    <2>1. UNCHANGED <<tokens, turnedDown, handled>> /\ received \subseteq received'
      BY <1>6 DEF vars, Joined, EndOfInput, Pop, Stop, DrainNext, DrainEnd, OnResponse,
                  ReceiveShutdown, ReceiveSecondShutdown, ReceiveExit, Read, Cancel,
                  ClientResponds, Postpone, OnInitialize, InitializeWorkspace,
                  OnDocumentRequest, OnWorkspaceDiagnostic
    <2>2. Running' => Running
      BY <1>6 DEF vars, Joined, EndOfInput, Pop, Stop, DrainNext, DrainEnd, OnResponse,
                  ReceiveShutdown, ReceiveSecondShutdown, ReceiveExit, Read, Cancel,
                  ClientResponds, Postpone, Dispatching, OnInitialize, InitializeWorkspace,
                  OnDocumentRequest, OnWorkspaceDiagnostic, Serving, Running
    <2>3. pc \notin {"running", "clearing"}
              \/ (pc' \in {"running", "clearing"} /\ current' = current)
      BY <1>6 DEF vars, Joined, EndOfInput, Pop, Stop, DrainNext, DrainEnd, OnResponse,
                  ReceiveShutdown, ReceiveSecondShutdown, ReceiveExit, Read, Cancel,
                  ClientResponds, Postpone, Dispatching, OnInitialize, InitializeWorkspace,
                  OnDocumentRequest, OnWorkspaceDiagnostic, LeaveOpen, Reply, Serving
    <2>. QED
      BY <1>5, <2>1, <2>2, <2>3
  <1>. QED
    BY <1>1, <1>2, <1>3, <1>4, <1>6 DEF Next, Terminated, InputThread, WorkerThread

\* If no folder is added, a token outlives its request only until the worker has
\* written the answer, or left the request open, and clears it.
THEOREM TokensAreCleared ==
    ASSUME NoFolderAdded, OneInitialize
    PROVE  Spec => []TokenOnlyWhilePending
  <1>1. Init => TokenInv
    BY DEF Init, TokenInv
  <1>2. LostInv /\ TokenInv => TokenOnlyWhilePending
    <2> SUFFICES ASSUME LostInv, TokenInv, NEW m \in tokens, Running
                 PROVE  Waiting(m) \/ (pc = "clearing" /\ current = Call(m))
      BY DEF TokenOnlyWhilePending
    <2>1. m \in handled => Waiting(m) \/ (pc = "clearing" /\ current = Call(m))
      BY DEF TokenInv, Waiting, InHand
    <2>2. m \notin handled => Inside(m)
      BY DEF TokenInv, LostInv
    <2>. QED
      BY <2>1, <2>2 DEF Inside, Dispatched, Waiting, InHand
  <1>. QED
    BY <1>1, <1>2, TokenStep, IInvHolds, NothingLost, PTL DEF Spec

-----------------------------------------------------------------------------
(* Messages are handled in order                                           *)

\* Both messages wait for a workspace, and b was sent first.
Ahead(b, m) ==
    b \in before[m] /\ RequiresWorkspace(b) /\ RequiresWorkspace(m) /\ Kind[b] # "shutdown"

HistoryInv ==
    /\ \A m \in Msg : before[m] \subseteq received /\ m \notin before[m]
    /\ turnedDown # {} => shutdownRequested
    /\ \A m \in received \ turnedDown :
           Kind[m] \notin {"shutdown", "exit"} => before[m] \cap turnedDown = {}

\* The histories grow by what the input thread reads.
LEMMA HistoryStep ==
    ASSUME IInv, HistoryInv, [Next]_vars
    PROVE  HistoryInv'
  <1> USE DEF inputVars, sharedVars, workerVars, folderVars, streamVars, configVars, outputVars
  <1>0. received \subseteq Msg /\ before \in [Msg -> SUBSET Msg] /\ turnedDown \subseteq received
    BY DEF IInv, TypeOK, PlaceInv, Decided
  <1>1. ASSUME NEW m \in Msg,
               \/ Receive(m) \/ ReceiveAfterShutdown(m) \/ ReceiveShutdown(m)
               \/ ReceiveSecondShutdown(m) \/ ReceiveExit(m)
        PROVE  HistoryInv'
    <2>1. /\ received' = received \cup {m} /\ m \notin received
          /\ before' = [before EXCEPT ![m] = received]
      BY <1>1 DEF Receive, ReceiveAfterShutdown, ReceiveShutdown, ReceiveSecondShutdown,
                  ReceiveExit, Read, MaySend
    <2>2. before'[m] = received /\ \A n \in Msg : n # m => before'[n] = before[n]
      BY <1>0, <2>1
    <2>3. \/ turnedDown' = turnedDown /\ (turnedDown = {} \/ Kind[m] \in {"shutdown", "exit"})
          \/ turnedDown' = turnedDown \cup {m}
      BY <1>1 DEF Receive, ReceiveAfterShutdown, ReceiveShutdown, ReceiveSecondShutdown,
                  ReceiveExit, HistoryInv
    <2>4. turnedDown' # {} => shutdownRequested'
      BY <1>1 DEF Receive, ReceiveAfterShutdown, ReceiveShutdown, ReceiveSecondShutdown,
                  ReceiveExit, HistoryInv
    <2>5. \A n \in Msg : before'[n] \subseteq received' /\ n \notin before'[n]
      BY <2>1, <2>2 DEF HistoryInv
    <2>6. ASSUME NEW n \in received' \ turnedDown', Kind[n] \notin {"shutdown", "exit"}
          PROVE  before'[n] \cap turnedDown' = {}
      <3>1. CASE n = m
        BY <1>0, <2>1, <2>2, <2>3, <2>6, <3>1
      <3>2. CASE n # m
        <4>1. n \in received \ turnedDown /\ before'[n] = before[n] /\ m \notin before[n]
          BY <1>0, <2>1, <2>2, <2>3, <3>2 DEF HistoryInv
        <4>. QED
          BY <2>3, <2>6, <4>1 DEF HistoryInv
      <3>. QED
        BY <3>1, <3>2
    <2>. QED
      BY <2>4, <2>5, <2>6 DEF HistoryInv
  <1>2. ASSUME UNCHANGED <<received, before, turnedDown, shutdownRequested>>
        PROVE  HistoryInv'
    BY <1>2 DEF HistoryInv
  <1>3. \/ UNCHANGED <<received, before, turnedDown, shutdownRequested>>
        \/ \E m \in Msg : \/ Receive(m) \/ ReceiveAfterShutdown(m) \/ ReceiveShutdown(m)
                          \/ ReceiveSecondShutdown(m) \/ ReceiveExit(m)
    <2>1. WorkerThread => UNCHANGED <<received, before, turnedDown, shutdownRequested>>
      BY DEF WorkerThread, Pop, Stop, DrainNext, DrainEnd, Postpone, Refuse, Start,
             OnInitialize, InitializeWorkspace, OnDocumentRequest, OnWorkspaceDiagnostic,
             Drop, OnInitialized, OnDidChangeConfiguration, OnDidChangeWorkspaceFolders,
             OnTextDocument, OnConfigFileChanged, ClearCancellationToken, OnResponse
    <2>. QED
      BY <2>1 DEF Next, Terminated, vars, InputThread, Cancel, ClientResponds, Joined, EndOfInput
  <1>. QED
    BY <1>1, <1>2, <1>3

LEMMA HistoryHolds == Spec => []HistoryInv
  <1>1. Init => HistoryInv
    BY DEF Init, HistoryInv
  <1>. QED
    BY <1>1, HistoryStep, IInvHolds, PTL DEF Spec

\* In s, every x lies ahead of every y.
InOrder(s, x, y) == \A i, j \in 1..Len(s) : s[i] = y /\ s[j] = x => j < i

LEMMA OrderAppend ==
    ASSUME NEW S, NEW s \in Seq(S), NEW z \in S, NEW x, NEW y, z # x, InOrder(s, x, y)
    PROVE  InOrder(Append(s, z), x, y)
  <1>1. /\ Len(s) \in Nat /\ Len(Append(s, z)) = Len(s) + 1
        /\ \A i \in 1..Len(s) : Append(s, z)[i] = s[i]
        /\ Append(s, z)[Len(s) + 1] = z
    OBVIOUS
  <1>2. ASSUME NEW i \in 1..(Len(s) + 1), NEW j \in 1..(Len(s) + 1),
               Append(s, z)[i] = y, Append(s, z)[j] = x
        PROVE  j < i
    <2>1. j \in 1..Len(s)
      BY <1>1, <1>2
    <2>2. CASE i \in 1..Len(s)
      BY <1>1, <1>2, <2>1, <2>2 DEF InOrder
    <2>. QED
      BY <1>1, <2>1, <2>2
  <1>. QED
    BY <1>1, <1>2 DEF InOrder

LEMMA OrderTail ==
    ASSUME NEW S, NEW s \in Seq(S), s # <<>>, NEW x, NEW y, InOrder(s, x, y)
    PROVE  /\ InOrder(Tail(s), x, y)
           /\ Head(s) = y => x \notin Elems(Tail(s))
  <1>1. /\ Len(s) \in Nat /\ Len(s) >= 1 /\ Head(s) = s[1] /\ Len(Tail(s)) = Len(s) - 1
        /\ \A i \in 1..Len(Tail(s)) : Tail(s)[i] = s[i + 1]
    OBVIOUS
  <1>2. \A i \in 1..Len(Tail(s)) : i + 1 \in 1..Len(s) /\ ~(i + 1 < 1)
    BY <1>1
  <1>3. InOrder(Tail(s), x, y)
    <2> SUFFICES ASSUME NEW i \in 1..Len(Tail(s)), NEW j \in 1..Len(Tail(s)),
                        Tail(s)[i] = y, Tail(s)[j] = x
                 PROVE  j < i
      BY DEF InOrder
    <2>1. j + 1 < i + 1
      BY <1>1, <1>2 DEF InOrder
    <2>. QED
      BY <1>1, <2>1
  <1>4. Head(s) = y => x \notin Elems(Tail(s))
    BY <1>1, <1>2 DEF InOrder, Elems
  <1>. QED
    BY <1>3, <1>4

\* Where b may be, when it was sent before m.  The postponed messages come first
\* while the worker is in the loop over them, and then only the message in hand can
\* precede them.
Behind(b, m) ==
    /\ InOrder(messages, Call(b), Call(m))
    /\ InOrder(Backlog, b, m)
    /\ Held(m) => ~Queued(b)
    /\ Dispatched(m) => ~Queued(b) /\ (draining => ~Held(b))
    /\ Dispatched(b) /\ ~draining => ~Held(m)

OrderInv == \A m, b \in Msg : Ahead(b, m) => Behind(b, m)

\* A step that leaves the queues alone.
LEMMA OrderKept ==
    ASSUME OrderInv, UNCHANGED <<messages, postponed, draining, batch>>,
           pc' = "dispatch" => pc = "dispatch" /\ current' = current,
           \A m \in Msg : before'[m] = before[m] \/ ~Inside(m)
    PROVE  OrderInv'
  <1>1. Backlog' = Backlog /\ \A n \in Msg : Queued(n)' = Queued(n) /\ Held(n)' = Held(n)
                              /\ (Dispatched(n)' => Dispatched(n))
    BY DEF Backlog, Queued, Held, Dispatched
  <1>2. ASSUME NEW m \in Msg, NEW b \in Msg, Ahead(b, m)', before'[m] = before[m]
        PROVE  Behind(b, m)'
    <2>1. Behind(b, m)
      BY <1>2 DEF OrderInv, Ahead, RequiresWorkspace, IsRequest
    <2>. QED
      BY <1>1, <2>1 DEF Behind, Call
  <1>3. ASSUME NEW m \in Msg, NEW b \in Msg, ~Inside(m)
        PROVE  Behind(b, m)'
    <2>1. /\ \A i \in 1..Len(messages) : messages[i] # Call(m)
          /\ \A i \in 1..Len(Backlog) : Backlog[i] # m
          /\ ~Held(m) /\ ~Dispatched(m)
      BY <1>3 DEF Inside, Queued, Held, Elems
    <2>. QED
      BY <1>1, <2>1 DEF Behind, InOrder, Call
  <1>. QED
    BY <1>2, <1>3 DEF OrderInv

\* What the input thread reads comes last.
LEMMA InputOrder ==
    ASSUME IInv, HistoryInv, OrderInv, InputThread
    PROVE  OrderInv'
  <1> USE DEF inputVars, sharedVars, workerVars, folderVars, streamVars, configVars, outputVars
  <1>0. /\ messages \in Seq(Item) /\ received \subseteq Msg /\ before \in [Msg -> SUBSET Msg]
        /\ asked \in [Msg -> SUBSET Workspace]
    BY DEF IInv, TypeOK
  <1>1. ASSUME NEW n \in Msg, Receive(n)
        PROVE  OrderInv'
    <2>1. /\ messages' = Append(messages, Call(n)) /\ n \notin received
          /\ before' = [before EXCEPT ![n] = received]
          /\ UNCHANGED <<postponed, draining, batch, pc, current>>
      BY <1>1 DEF Receive, Read, MaySend
    <2>2. ~Inside(n)
      BY <2>1 DEF Inside, Dispatched, IInv, PlaceInv, Undecided
    <2>3. Backlog' = Backlog
          /\ \A m \in Msg : /\ Queued(m)' <=> Queued(m) \/ m = n
                            /\ Held(m)' = Held(m) /\ Dispatched(m)' = Dispatched(m)
      BY <1>0, <2>1, ElemsAppend, Items DEF Queued, Held, Backlog, Dispatched
    <2>4. ASSUME NEW m \in Msg, NEW b \in Msg, Ahead(b, m)'
          PROVE  Behind(b, m)'
      <3>1. b # n /\ (m # n => Ahead(b, m))
        BY <1>0, <2>1, <2>4 DEF Ahead, HistoryInv, RequiresWorkspace, IsRequest
      <3>2. InOrder(messages, Call(b), Call(m)) /\ InOrder(Backlog, b, m)
        <4>1. CASE m # n
          BY <3>1, <4>1 DEF OrderInv, Behind
        <4>2. CASE m = n
          BY <2>2, <4>2 DEF Inside, Queued, Held, Elems, InOrder
        <4>. QED
          BY <4>1, <4>2
      <3>3. InOrder(messages', Call(b), Call(m))
        BY <1>0, <2>1, <3>1, <3>2, OrderAppend, Items
      <3>6. InOrder(messages, Call(b), Call(m))' /\ InOrder(Backlog, b, m)'
        BY <2>3, <3>2, <3>3 DEF Call
      <3>4. CASE m # n
        <4>1. Behind(b, m)
          BY <3>1, <3>4 DEF OrderInv
        <4>. QED
          BY <2>1, <2>3, <3>1, <3>4, <3>6, <4>1 DEF Behind
      <3>5. CASE m = n
        BY <2>2, <2>3, <3>2, <3>3, <3>5 DEF Inside, Behind, Call
      <3>. QED
        BY <3>4, <3>5
    <2>. QED
      BY <2>4 DEF OrderInv
  <1>2. ASSUME NEW n \in Msg, ClientResponds(n), ~shutdownRequested
        PROVE  OrderInv'
    <2>1. PICK gives \in {asked[n], {}} : messages' = Append(messages, Response(n, gives))
      BY <1>2 DEF ClientResponds
    <2>2. Response(n, gives) \in Item /\ \A m \in Msg : Response(n, gives) # Call(m)
      BY <1>0, Items
    <2>3. UNCHANGED <<before, postponed, draining, batch, pc, current>>
      BY <1>2 DEF ClientResponds
    <2>4. Backlog' = Backlog
          /\ \A m \in Msg : /\ Queued(m)' = Queued(m) /\ Held(m)' = Held(m)
                            /\ Dispatched(m)' = Dispatched(m)
      BY <1>0, <2>1, <2>2, <2>3, ElemsAppend DEF Queued, Held, Backlog, Dispatched
    <2>5. ASSUME NEW m \in Msg, NEW b \in Msg, Ahead(b, m)'
          PROVE  Behind(b, m)'
      <3>1. Behind(b, m)
        BY <2>3, <2>5 DEF OrderInv, Ahead, RequiresWorkspace, IsRequest
      <3>2. InOrder(messages', Call(b), Call(m))
        BY <1>0, <2>1, <2>2, <3>1, OrderAppend DEF Behind
      <3>. QED
        BY <2>3, <2>4, <3>1, <3>2 DEF Behind, Call
    <2>. QED
      BY <2>5 DEF OrderInv
  <1>3. ASSUME NEW n \in Msg,
               \/ ReceiveAfterShutdown(n) \/ ReceiveShutdown(n) \/ ReceiveSecondShutdown(n)
               \/ ReceiveExit(n)
        PROVE  OrderInv'
    <2>1. /\ before' = [before EXCEPT ![n] = received] /\ n \notin received
          /\ UNCHANGED <<messages, postponed, draining, batch, pc, current>>
      BY <1>3 DEF ReceiveAfterShutdown, ReceiveShutdown, ReceiveSecondShutdown, ReceiveExit,
                  Read, MaySend
    <2>2. ~Inside(n)
      BY <2>1 DEF Inside, Dispatched, IInv, PlaceInv, Undecided
    <2>. QED
      BY <1>0, <2>1, <2>2, OrderKept
  <1>4. ASSUME \/ Joined \/ EndOfInput
               \/ \E m \in Msg : Cancel(m) \/ (ClientResponds(m) /\ shutdownRequested)
        PROVE  OrderInv'
    BY <1>4, OrderKept DEF Joined, EndOfInput, Cancel, ClientResponds
  <1>. QED
    BY <1>1, <1>2, <1>3, <1>4 DEF InputThread

\* The worker takes the messages in their order.
LEMMA WorkerOrder ==
    ASSUME IInv, SetupInv, HistoryInv, OrderInv, WorkerThread
    PROVE  OrderInv'
  <1> USE DEF inputVars, sharedVars, workerVars, folderVars, streamVars, configVars, outputVars
  <1>0. /\ messages \in Seq(Item) /\ postponed \in Seq(Msg) /\ batch \in Seq(Msg)
        /\ draining \in BOOLEAN
    BY DEF IInv, TypeOK
  <1>1. CASE Pop
    <2>1. /\ messages # <<>> /\ current' = Head(messages) /\ messages' = Tail(messages)
          /\ ~draining /\ pc = "idle" /\ pc' = "dispatch"
          /\ UNCHANGED <<before, postponed, draining, batch>>
      BY <1>1 DEF Pop
    <2>2. Backlog' = Backlog
          /\ \A n \in Msg : /\ Held(n)' = Held(n) /\ (Queued(n)' => Queued(n))
                            /\ Dispatched(n)' => Head(messages) = Call(n) /\ Queued(n)
      BY <1>0, <2>1, ElemsHeadTail DEF Queued, Held, Backlog, Dispatched
    <2>3. ASSUME NEW m \in Msg, NEW b \in Msg, Ahead(b, m)'
          PROVE  Behind(b, m)'
      <3>1. Behind(b, m)
        BY <2>1, <2>3 DEF OrderInv, Ahead, RequiresWorkspace, IsRequest
      <3>2. /\ InOrder(messages', Call(b), Call(m))
            /\ Head(messages) = Call(m) => Call(b) \notin Elems(messages')
        BY <1>0, <2>1, <3>1, OrderTail DEF Behind
      <3>3. Dispatched(m)' => ~Queued(b)'
        BY <2>2, <3>2 DEF Queued, Call
      <3>4. Dispatched(b)' => ~Held(m)'
        BY <2>2, <3>1 DEF Behind
      <3>5. InOrder(messages, Call(b), Call(m))' /\ InOrder(Backlog, b, m)'
        BY <2>2, <3>1, <3>2 DEF Behind, Call
      <3>. QED
        BY <2>1, <2>2, <3>1, <3>3, <3>4, <3>5 DEF Behind
    <2>. QED
      BY <2>3 DEF OrderInv
  <1>2. CASE DrainNext
    <2>1. /\ draining /\ batch # <<>> /\ current' = Call(Head(batch)) /\ batch' = Tail(batch)
          /\ pc = "idle" /\ pc' = "dispatch"
          /\ UNCHANGED <<before, messages, postponed, draining>>
      BY <1>2 DEF DrainNext
    <2>2. Backlog = batch /\ Backlog' = Tail(batch) /\ Head(batch) \in Msg
      BY <1>0, <2>1, ElemsHeadTail DEF Backlog
    <2>3. \A n \in Msg : /\ Queued(n)' = Queued(n) /\ (Held(n)' => Held(n))
                         /\ Dispatched(n)' => Head(batch) = n /\ Held(n)
      BY <1>0, <2>1, <2>2, ElemsHeadTail, Items DEF Queued, Held, Dispatched
    <2>4. ASSUME NEW m \in Msg, NEW b \in Msg, Ahead(b, m)'
          PROVE  Behind(b, m)'
      <3>1. Behind(b, m)
        BY <2>1, <2>4 DEF OrderInv, Ahead, RequiresWorkspace, IsRequest
      <3>2. /\ InOrder(Tail(batch), b, m)
            /\ Head(batch) = m => b \notin Elems(Tail(batch))
        BY <1>0, <2>1, <2>2, <3>1, OrderTail DEF Behind
      <3>3. Dispatched(m)' => ~Queued(b)' /\ ~Held(b)'
        BY <2>2, <2>3, <3>1, <3>2 DEF Held, Behind
      <3>4. InOrder(messages, Call(b), Call(m))' /\ InOrder(Backlog, b, m)'
        BY <2>1, <2>2, <3>1, <3>2 DEF Behind, Call
      <3>. QED
        BY <2>1, <2>3, <3>1, <3>3, <3>4 DEF Behind
    <2>. QED
      BY <2>4 DEF OrderInv
  <1>3. CASE DrainEnd
    <2>1. /\ draining /\ batch = <<>> /\ draining' = FALSE /\ postponed' = <<>> /\ pc = "idle"
          /\ UNCHANGED <<before, messages, pc, current>>
      BY <1>3 DEF DrainEnd
    <2>2. Backlog' = Backlog
          /\ \A n \in Msg : Held(n)' = Held(n) /\ Queued(n)' = Queued(n) /\ ~Dispatched(n)'
      BY <2>1 DEF Held, Queued, Backlog, Dispatched
    <2>3. ASSUME NEW m \in Msg, NEW b \in Msg, Ahead(b, m)'
          PROVE  Behind(b, m)'
      <3>1. Behind(b, m)
        BY <2>1, <2>3 DEF OrderInv, Ahead, RequiresWorkspace, IsRequest
      <3>2. InOrder(messages, Call(b), Call(m))' /\ InOrder(Backlog, b, m)'
        BY <2>1, <2>2, <3>1 DEF Behind, Call
      <3>. QED
        BY <2>2, <3>1, <3>2 DEF Behind
    <2>. QED
      BY <2>3 DEF OrderInv
  <1>4. ASSUME NEW n \in Msg, Postpone(n)
        PROVE  OrderInv'
    <2>1. /\ current = Call(n) /\ postponed' = Append(postponed, n) /\ pc = "dispatch"
          /\ pc' = "idle" /\ ~AllConfigured
          /\ UNCHANGED <<before, messages, draining, batch>>
      BY <1>4 DEF Postpone, SetAside, Dispatching, MustPostpone
    <2>2. ~draining /\ Backlog = postponed /\ Backlog' = Append(postponed, n)
      BY <2>1 DEF SetupInv, Backlog
    <2>3. /\ Dispatched(n) /\ ~Held(n)
          /\ \A m \in Msg : /\ Held(m)' <=> Held(m) \/ m = n
                            /\ Queued(m)' = Queued(m) /\ ~Dispatched(m)'
      BY <1>0, <2>1, <2>2, ElemsAppend
      DEF Queued, Held, Dispatched, IInv, PlaceInv, OnePlace
    <2>4. ASSUME NEW m \in Msg, NEW b \in Msg, Ahead(b, m)'
          PROVE  Behind(b, m)'
      <3>1. Behind(b, m)
        BY <2>1, <2>4 DEF OrderInv, Ahead, RequiresWorkspace, IsRequest
      <3>2. InOrder(Append(postponed, n), b, m)
        <4>1. CASE b # n
          BY <1>0, <2>2, <3>1, <4>1, OrderAppend DEF Behind
        <4>2. CASE b = n
          <5>1. ~Held(m)
            BY <2>2, <2>3, <3>1, <4>2 DEF Behind
          <5>2. m # n
            BY <2>1, <2>4, <4>2 DEF Ahead, HistoryInv
          <5>3. m \notin Elems(Append(postponed, n))
            BY <1>0, <2>2, <5>1, <5>2, ElemsAppend DEF Held
          <5>. QED
            BY <5>3 DEF InOrder, Elems
        <4>. QED
          BY <4>1, <4>2
      <3>3. InOrder(messages, Call(b), Call(m))' /\ InOrder(Backlog, b, m)'
        BY <2>1, <2>2, <3>1, <3>2 DEF Behind, Call
      <3>4. Held(m)' => ~Queued(b)'
        BY <2>3, <3>1 DEF Behind
      <3>. QED
        BY <2>3, <3>3, <3>4 DEF Behind
    <2>. QED
      BY <2>4 DEF OrderInv
  <1>5. CASE OnResponse
    <2>1. /\ current.isResponse /\ draining' = Drains
          /\ batch' = IF draining' THEN postponed ELSE <<>>
          /\ pc = "dispatch" /\ pc' = "idle" /\ UNCHANGED <<before, messages, postponed>>
      BY <1>5 DEF OnResponse
    <2>2. ~draining /\ Backlog' = Backlog
      BY <2>1 DEF IInv, PlaceInv, OnePlace, Backlog
    <2>3. \A n \in Msg : Held(n)' = Held(n) /\ Queued(n)' = Queued(n) /\ ~Dispatched(n)'
      BY <2>1, <2>2 DEF Held, Queued, Dispatched
    <2>4. ASSUME NEW m \in Msg, NEW b \in Msg, Ahead(b, m)'
          PROVE  Behind(b, m)'
      <3>1. Behind(b, m)
        BY <2>1, <2>4 DEF OrderInv, Ahead, RequiresWorkspace, IsRequest
      <3>2. InOrder(messages, Call(b), Call(m))' /\ InOrder(Backlog, b, m)'
        BY <2>1, <2>2, <3>1 DEF Behind, Call
      <3>. QED
        BY <2>3, <3>1, <3>2 DEF Behind
    <2>. QED
      BY <2>4 DEF OrderInv
  <1>6. ASSUME \/ Stop \/ ClearCancellationToken
               \/ \E m \in Msg : \/ OnInitialize(m) \/ InitializeWorkspace(m)
                                 \/ OnDocumentRequest(m) \/ OnWorkspaceDiagnostic(m)
                                 \/ Refuse(m) \/ Start(m) \/ Drop(m) \/ OnInitialized(m)
                                 \/ OnDidChangeConfiguration(m) \/ OnDidChangeWorkspaceFolders(m)
                                 \/ OnTextDocument(m) \/ OnConfigFileChanged(m)
        PROVE  OrderInv'
    <2>1. UNCHANGED <<before, messages, postponed, draining, batch>>
      BY <1>6 DEF Stop, ClearCancellationToken, OnInitialize, InitializeWorkspace,
                  OnDocumentRequest, OnWorkspaceDiagnostic, Refuse, Start, Drop,
                  OnInitialized, OnDidChangeConfiguration, OnDidChangeWorkspaceFolders,
                  OnTextDocument, OnConfigFileChanged
    <2>2. pc' # "dispatch"
      BY <1>6 DEF Stop, ClearCancellationToken, OnInitialize, InitializeWorkspace,
                  OnDocumentRequest, OnWorkspaceDiagnostic, LeaveOpen, Reply, Serving, Refuse,
                  Start, Drop, OnInitialized, OnDidChangeConfiguration,
                  OnDidChangeWorkspaceFolders, OnTextDocument, OnConfigFileChanged, Notified,
                  Finishes
    <2>. QED
      BY <2>1, <2>2, OrderKept
  <1>. QED
    BY <1>1, <1>2, <1>3, <1>4, <1>5, <1>6 DEF WorkerThread

LEMMA OrderHolds ==
    ASSUME NoFolderAdded, OneInitialize
    PROVE  Spec => []OrderInv
  <1>1. Init => OrderInv
    BY DEF Init, OrderInv, Ahead
  <1>2. OrderInv /\ UNCHANGED vars => OrderInv'
    <2> SUFFICES ASSUME OrderInv, UNCHANGED vars
                 PROVE  OrderInv'
      OBVIOUS
    <2>1. UNCHANGED <<messages, postponed, draining, batch, pc, current, before>>
      BY DEF vars, inputVars, sharedVars, workerVars
    <2>. QED
      BY <2>1, OrderKept
  <1>3. IInv /\ SetupInv /\ HistoryInv /\ OrderInv /\ [Next]_vars => OrderInv'
    BY <1>2, InputOrder, WorkerOrder DEF Next, Terminated
  <1>. QED
    BY <1>1, <1>3, IInvHolds, SetupHolds, HistoryHolds, PTL DEF Spec


-----------------------------------------------------------------------------
\* Outside of the loop, postponed messages wait for a configuration.
BacklogInv == ~draining /\ postponed # <<>> => isInitialized /\ ~AllConfigured

LEMMA BacklogStep ==
    ASSUME NoFolderAdded, Configures, SetupInv, BacklogInv, [Next]_vars
    PROVE  BacklogInv'
  <1> USE DEF inputVars, sharedVars, workerVars, folderVars, streamVars, configVars, outputVars
  <1>1. ASSUME NEW m \in Msg, Postpone(m)
        PROVE  BacklogInv'
    BY <1>1 DEF Postpone, MustPostpone, BacklogInv, AllConfigured
  <1>2. ASSUME NEW m \in Msg, OnInitialize(m)
        PROVE  BacklogInv'
    BY <1>2 DEF OnInitialize, Serving, SetupInv, BacklogInv
  <1>3. ASSUME NEW m \in Msg, OnInitialized(m)
        PROVE  BacklogInv'
    BY <1>3 DEF OnInitialized, BacklogInv, AllConfigured
  <1>4. ASSUME NEW m \in Msg, OnDidChangeWorkspaceFolders(m)
        PROVE  BacklogInv'
    <2>1. AllConfigured /\ UNCHANGED <<draining, postponed>>
      BY <1>4 DEF OnDidChangeWorkspaceFolders, Notified, Finishes, MustPostpone,
                  RequiresWorkspace
    <2>. QED
      BY <2>1 DEF BacklogInv
  <1>5. CASE OnResponse
    BY <1>5 DEF OnResponse, Drains, BacklogInv, AllConfigured, SetupInv
  <1>6. CASE DrainEnd
    BY <1>6 DEF DrainEnd, BacklogInv
  <1>7. ASSUME UNCHANGED <<draining, postponed, isInitialized, folders, configured>>
        PROVE  BacklogInv'
    BY <1>7 DEF BacklogInv, AllConfigured
  <1>8. \/ OnResponse \/ DrainEnd
        \/ \E m \in Msg : \/ Postpone(m) \/ OnInitialize(m) \/ OnInitialized(m)
                          \/ OnDidChangeWorkspaceFolders(m)
        \/ UNCHANGED <<draining, postponed, isInitialized, folders, configured>>
    BY DEF Next, Terminated, vars, InputThread, WorkerThread, Receive, ReceiveAfterShutdown,
           ReceiveShutdown, ReceiveSecondShutdown, ReceiveExit, Cancel, ClientResponds, Joined,
           EndOfInput, Pop, Stop, DrainNext, Refuse, Start, InitializeWorkspace,
           OnDocumentRequest, OnWorkspaceDiagnostic, Drop, OnDidChangeConfiguration,
           OnTextDocument, OnConfigFileChanged, ClearCancellationToken
  <1>. QED
    BY <1>1, <1>2, <1>3, <1>4, <1>5, <1>6, <1>7, <1>8

\* What the worker decides on, it decides on after everything sent before.
LEMMA DecidesInOrder ==
    ASSUME IInv, HistoryInv, LostInv, OrderInv, BacklogInv,
           NEW m \in Msg, Dispatching(m), ~MustPostpone(m), NEW b \in Msg, Ahead(b, m)
    PROVE  b \in handled
  <1>1. Dispatched(m) /\ Running /\ Behind(b, m)
    BY DEF Dispatching, Dispatched, OrderInv
  <1>2. b \in received /\ b # m /\ m \in received /\ m \notin turnedDown /\ Kind[m] # "shutdown"
    BY <1>1 DEF Ahead, HistoryInv, IInv, PlaceInv, Undecided, Dispatched
  <1>3. Kind[m] # "exit"
    BY DEF Ahead, RequiresWorkspace, IsRequest, RequestKind
  <1>4. b \notin turnedDown
    BY <1>2, <1>3 DEF Ahead, HistoryInv
  <1>5. Inside(b) \/ b \in handled
    BY <1>1, <1>2, <1>4 DEF LostInv, Ahead
  <1>6. ~Queued(b) /\ ~Dispatched(b) /\ (draining => ~Held(b))
    BY <1>1, <1>2, Items DEF Behind, Dispatched
  <1>7. ~draining => ~Held(b)
    <2> SUFFICES ASSUME ~draining, Held(b)
                 PROVE  FALSE
      OBVIOUS
    <2>1. postponed # <<>>
      BY DEF Held, Backlog, Elems
    <2>2. isInitialized /\ ~AllConfigured
      BY <2>1 DEF BacklogInv
    <2>. QED
      BY <2>2 DEF MustPostpone, Ahead
  <1>. QED
    BY <1>5, <1>6, <1>7 DEF Inside

\* The input thread extends what was sent before a message it reads, and the worker
\* decides on a message that it need not postpone.
LEMMA HistoriesGrow ==
    ASSUME [Next]_vars
    PROVE  /\ \/ before' = before
              \/ \E n \in Msg \ received : before' = [before EXCEPT ![n] = received]
           /\ \/ handled' = handled
              \/ \E m \in Msg : /\ Dispatching(m) /\ ~MustPostpone(m)
                                /\ handled' = handled \cup {m} /\ before' = before
  <1> USE DEF inputVars, sharedVars, workerVars, folderVars, streamVars, configVars, outputVars
  <1>1. CASE UNCHANGED vars
    BY <1>1 DEF vars
  <1>2. CASE InputThread
    BY <1>2 DEF InputThread, Receive, ReceiveAfterShutdown, ReceiveShutdown,
           ReceiveSecondShutdown, ReceiveExit, Read, MaySend, Cancel, ClientResponds, Joined, EndOfInput
  <1>3. ASSUME NEW m \in Msg,
               \/ Refuse(m) \/ Start(m) \/ Drop(m) \/ OnInitialized(m)
               \/ OnDidChangeConfiguration(m) \/ OnDidChangeWorkspaceFolders(m)
               \/ OnTextDocument(m) \/ OnConfigFileChanged(m)
        PROVE  /\ Dispatching(m) /\ ~MustPostpone(m)
               /\ handled' = handled \cup {m} /\ before' = before
    BY <1>3 DEF Refuse, Start, Drop, OnInitialized, OnDidChangeConfiguration,
                OnDidChangeWorkspaceFolders, OnTextDocument, OnConfigFileChanged, Notified, Finishes
  <1>4. ASSUME \/ OnResponse \/ Pop \/ Stop \/ DrainNext \/ DrainEnd \/ ClearCancellationToken
               \/ \E m \in Msg : \/ Postpone(m) \/ OnInitialize(m) \/ InitializeWorkspace(m)
                                 \/ OnDocumentRequest(m) \/ OnWorkspaceDiagnostic(m)
        PROVE  UNCHANGED <<before, handled>>
    BY <1>4 DEF OnResponse, Pop, Stop, DrainNext, DrainEnd, ClearCancellationToken, Postpone,
                OnInitialize, InitializeWorkspace, OnDocumentRequest, OnWorkspaceDiagnostic
  <1>. QED
    BY <1>1, <1>2, <1>3, <1>4 DEF Next, Terminated, WorkerThread

\* If no folder is added and the client supports workspace/configuration, a message that
\* needs a workspace is handled after all such messages that the client sent before it.
THEOREM HandledInOrder ==
    ASSUME NoFolderAdded, OneInitialize, Configures
    PROVE  Spec => []SeesEarlierMessages
  <1> USE DEF inputVars, sharedVars, workerVars, folderVars, streamVars, configVars, outputVars
  <1>1. Init => BacklogInv /\ SeesEarlierMessages
    BY DEF Init, BacklogInv, SeesEarlierMessages
  <1>2. SetupInv /\ BacklogInv /\ [Next]_vars => BacklogInv'
    BY BacklogStep
  <1>3. ASSUME IInv, HistoryInv, LostInv, OrderInv, BacklogInv, SeesEarlierMessages, [Next]_vars
        PROVE  SeesEarlierMessages'
    <2>1. \A m \in handled : before'[m] = before[m]
      <3>1. \/ before' = before
            \/ \E n \in Msg \ received : before' = [before EXCEPT ![n] = received]
        BY <1>3, HistoriesGrow
      <3>2. handled \subseteq received /\ handled \subseteq Msg /\ before \in [Msg -> SUBSET Msg]
        BY <1>3 DEF IInv, TypeOK, PlaceInv, Decided
      <3>. QED
        BY <3>1, <3>2
    <2>2. \/ handled' = handled
          \/ \E m \in Msg : /\ Dispatching(m) /\ ~MustPostpone(m)
                            /\ handled' = handled \cup {m} /\ before' = before
      BY <1>3, HistoriesGrow
    <2>3. CASE handled' = handled
      BY <1>3, <2>1, <2>3 DEF SeesEarlierMessages, RequiresWorkspace, IsRequest
    <2>4. ASSUME NEW m \in Msg, Dispatching(m), ~MustPostpone(m), handled' = handled \cup {m},
                 before' = before
          PROVE  SeesEarlierMessages'
      <3>1. \A b \in before[m] :
                RequiresWorkspace(m) /\ RequiresWorkspace(b) /\ Kind[b] # "shutdown" => b \in handled
        <4>1. before[m] \subseteq Msg
          BY <1>3 DEF IInv, TypeOK
        <4>. QED
          BY <1>3, <2>4, <4>1, DecidesInOrder DEF Ahead
      <3>. QED
        BY <1>3, <2>4, <3>1 DEF SeesEarlierMessages, RequiresWorkspace, IsRequest
    <2>. QED
      BY <2>2, <2>3, <2>4
  <1>. QED
    BY <1>1, <1>2, <1>3, IInvHolds, SetupHolds, HistoryHolds, NothingLost, OrderHolds, PTL DEF Spec

-----------------------------------------------------------------------------
(* The pump implements RequestLifecycle: a step of a thread is a step in   *)
(* the life of one request, or of none.                                    *)
(* Besides IInv the mapping needs that a token is cleared only for what    *)
(* the worker decided on, and that only requests have tokens or stream.    *)

ClearingInv == pc = "clearing" => \E m \in Msg : current = Call(m) /\ m \in handled

RequestTokens ==
    /\ tokens \subseteq Requests \cap received
    /\ cancelled \subseteq Requests \cap received

StreamInv == streamId # NoMsg => streamId \in Requests

LifeInv == ClearingInv /\ RequestTokens /\ StreamInv

LEMMA LifeInit == Init => LifeInv
  BY DEF Init, LifeInv, ClearingInv, RequestTokens, StreamInv

\* Most steps of the input thread touch neither the worker nor a token.
LEMMA InputLife == TypeOK /\ LifeInv /\ InputThread => LifeInv'
  <1> SUFFICES ASSUME TypeOK, LifeInv, InputThread
               PROVE  LifeInv'
    OBVIOUS
  <1> USE DEF inputVars, sharedVars, workerVars, folderVars, streamVars, configVars, outputVars
  <1>1. UNCHANGED <<pc, current, handled>> /\ received \subseteq received'
    BY DEF InputThread, Receive, ReceiveAfterShutdown, ReceiveShutdown, ReceiveSecondShutdown,
           ReceiveExit, Read, Cancel, ClientResponds, Joined, EndOfInput
  <1>2. ClearingInv'
    BY <1>1 DEF LifeInv, ClearingInv
  <1>7. StreamInv'
    <2>1. UNCHANGED streamId
      BY DEF InputThread, Receive, ReceiveAfterShutdown, ReceiveShutdown,
             ReceiveSecondShutdown, ReceiveExit, Cancel, ClientResponds, Joined, EndOfInput
    <2>. QED
      BY <2>1 DEF LifeInv, StreamInv, Requests, IsRequest
  <1>3. ASSUME NEW m \in Msg, Receive(m)
        PROVE  RequestTokens'
    BY <1>3 DEF Receive, Read, LifeInv, RequestTokens, Requests
  <1>4. ASSUME NEW m \in Msg, Cancel(m)
        PROVE  RequestTokens'
    BY <1>4 DEF Cancel, LifeInv, RequestTokens
  <1>5. ASSUME UNCHANGED <<tokens, cancelled>>
        PROVE  RequestTokens'
    BY <1>1, <1>5 DEF LifeInv, RequestTokens, Requests, IsRequest
  <1>6. \/ UNCHANGED <<tokens, cancelled>>
        \/ \E m \in Msg : Receive(m) \/ Cancel(m)
    BY DEF InputThread, ReceiveAfterShutdown, ReceiveShutdown, ReceiveSecondShutdown,
           ReceiveExit, ClientResponds, Joined, EndOfInput
  <1>. QED
    BY <1>2, <1>3, <1>4, <1>5, <1>6, <1>7 DEF LifeInv

\* The worker goes on to clear a token after it decided on the message in its hand.
LEMMA WorkerLife == TypeOK /\ ReplyInv /\ LifeInv /\ WorkerThread => LifeInv'
  <1> SUFFICES ASSUME TypeOK, ReplyInv, LifeInv, WorkerThread
               PROVE  LifeInv'
    OBVIOUS
  <1> USE DEF inputVars, sharedVars, workerVars, folderVars, streamVars, configVars, outputVars
  <1>1. RequestTokens'
    <2>1. /\ received' = received
          /\ UNCHANGED <<tokens, cancelled>> \/ ClearCancellationToken
      BY DEF WorkerThread, Pop, Stop, DrainNext, DrainEnd, Postpone, Refuse, Start, OnInitialize,
             InitializeWorkspace, OnDocumentRequest, OnWorkspaceDiagnostic, Drop, OnInitialized,
             OnDidChangeConfiguration, OnDidChangeWorkspaceFolders, OnTextDocument,
             OnConfigFileChanged, ClearCancellationToken, OnResponse
    <2>. QED
      BY <2>1 DEF ClearCancellationToken, LifeInv, RequestTokens
  <1>2. ASSUME NEW m \in Msg, Refuse(m)
        PROVE  ClearingInv'
    BY <1>2 DEF Refuse, Dispatching, ClearingInv
  <1>3. ASSUME NEW m \in Msg,
               OnInitialize(m) \/ OnDocumentRequest(m) \/ OnWorkspaceDiagnostic(m)
        PROVE  ClearingInv'
    <2>1. pc = "running" /\ current = Call(m) /\ current' = current /\ handled' = handled
      BY <1>3 DEF OnInitialize, OnDocumentRequest, OnWorkspaceDiagnostic, Serving
    <2>. QED
      BY <2>1 DEF ReplyInv, Owed, ClearingInv
  <1>4. ASSUME pc' # "clearing"
        PROVE  ClearingInv'
    BY <1>4 DEF ClearingInv
  <1>5. \/ pc' # "clearing"
        \/ \E m \in Msg : Refuse(m) \/ OnInitialize(m) \/ OnDocumentRequest(m)
                          \/ OnWorkspaceDiagnostic(m)
    BY DEF WorkerThread, Pop, Stop, DrainNext, DrainEnd, Postpone, Start, InitializeWorkspace,
           Serving, Drop, OnInitialized, OnDidChangeConfiguration,
           OnDidChangeWorkspaceFolders, OnTextDocument, OnConfigFileChanged, Notified, Finishes,
           ClearCancellationToken, OnResponse
  <1>6. StreamInv'
    <2>1. ASSUME NEW m \in Msg, OnWorkspaceDiagnostic(m), streamId' = m
          PROVE  m \in Requests \/ streamId' = streamId
      BY <2>1 DEF OnWorkspaceDiagnostic, Reply, LeaveOpen, Serving, Requests, IsRequest, RequestKind
    <2>2. \/ streamId' \in {streamId, NoMsg}
          \/ \E m \in Msg : OnWorkspaceDiagnostic(m) /\ streamId' = m
      BY DEF WorkerThread, Pop, Stop, DrainNext, DrainEnd, Postpone, Refuse, Start,
             OnInitialize, InitializeWorkspace, OnDocumentRequest, OnWorkspaceDiagnostic,
             LeaveOpen, Drop, OnInitialized, OnDidChangeConfiguration,
             OnDidChangeWorkspaceFolders, OnTextDocument, OnConfigFileChanged,
             ClearCancellationToken, OnResponse, LazyInitialize, TerminateStream
    <2>. QED
      BY <2>1, <2>2 DEF LifeInv, StreamInv, Requests, IsRequest
  <1>. QED
    BY <1>1, <1>2, <1>3, <1>4, <1>5, <1>6 DEF LifeInv

LEMMA LifeInductive == Spec => [](TypeOK /\ PlaceInv /\ ReplyInv /\ LifeInv)
  <1>1. TypeOK /\ PlaceInv /\ ReplyInv /\ [Next]_vars => ReplyInv'
    <2>1. ReplyInv /\ UNCHANGED vars => ReplyInv'
      BY DEF vars, inputVars, sharedVars, workerVars, folderVars, streamVars, configVars,
             outputVars, ReplyInv, ReplyOrigin, Owed, AtMostOneReply
    <2>. QED
      BY <2>1, InputReplies, WorkerStepReplies DEF Next, Terminated
  <1>2. TypeOK /\ ReplyInv /\ LifeInv /\ [Next]_vars => LifeInv'
    <2>1. LifeInv /\ UNCHANGED vars => LifeInv'
      BY DEF vars, inputVars, sharedVars, workerVars, folderVars, streamVars, configVars,
             outputVars, LifeInv, ClearingInv, RequestTokens, StreamInv, Requests, IsRequest
    <2>. QED
      BY <2>1, InputLife, WorkerLife DEF Next, Terminated
  <1>. QED
    BY <1>1, <1>2, ReplyInit, LifeInit, TypeCorrect, EveryMessageInOnePlace, PTL DEF Spec
-----------------------------------------------------------------------------
(* Steps of the pump as steps in the life of requests                      *)

\* The phase of request r, what LifeState maps it to.
Phase(r) ==
    IF r \notin received THEN "unsent"
    ELSE IF replies[r] # <<>> THEN "answered"
    ELSE IF r \in handled THEN "started" ELSE "waiting"

LEMMA Phases ==
    /\ LifeState = [r \in Requests |-> Phase(r)]
    /\ LifeState' = [r \in Requests |-> Phase(r)']
  BY DEF LifeState, Phase, Requests, IsRequest

\* A step that changes no phase, no response and no cancellation is a stutter.
LEMMA Stutters ==
    ASSUME \A r \in Requests : Phase(r)' = Phase(r),
           \A r \in Requests : replies'[r] = replies[r],
           Cancelling' = Cancelling
    PROVE  UNCHANGED Lifecycle!vars
  <1>1. LifeState' = LifeState
    BY Phases
  <1>2. Answers' = Answers
    BY DEF Answers, Requests, IsRequest
  <1>. QED
    BY <1>1, <1>2 DEF Lifecycle!vars

\* So is one that keeps the histories and forgets cancellations of what was answered.
LEMMA HistoriesKept ==
    ASSUME LifeInv, UNCHANGED replies,
           \A r \in Requests : r \in received' <=> r \in received,
           \A r \in Requests : r \in handled' <=> r \in handled,
           cancelled' = cancelled
    PROVE  UNCHANGED Lifecycle!vars
  <1>1. Cancelling' = Cancelling
    BY DEF Cancelling
  <1>2. \A r \in Requests : Phase(r)' = Phase(r)
    BY DEF Phase
  <1>. QED
    BY <1>1, <1>2, Stutters

\* A step that changes the phase of one request and writes no response.
LEMMA PhaseChanges ==
    ASSUME NEW r \in Requests, UNCHANGED replies, Cancelling' = Cancelling,
           \A q \in Requests : q # r => Phase(q)' = Phase(q)
    PROVE  /\ LifeState' = [LifeState EXCEPT ![r] = Phase(r)']
           /\ LifeState[r] = Phase(r)
           /\ UNCHANGED <<Cancelling, Answers>>
  <1>1. Answers' = Answers
    BY DEF Answers, Requests, IsRequest
  <1>2. LifeState' = [LifeState EXCEPT ![r] = Phase(r)']
    BY Phases
  <1>. QED
    BY <1>1, <1>2, Phases

\* The worker, or the answer to another message, responds to request r.
LEMMA ResponseIsAnswer ==
    ASSUME TypeOK, NEW r \in Requests, NEW outcome \in Outcome,
           r \in received, replies[r] = <<>>,
           replies' = [replies EXCEPT ![r] = Append(@, outcome)],
           UNCHANGED <<received, cancelled>>,
           outcome = "result" => r \in handled,
           outcome = "RequestCancelled" => r \in cancelled,
           \A q \in Requests : q # r => (q \in handled' <=> q \in handled)
    PROVE  Lifecycle!Next
  <1>1. replies \in [Msg -> Seq(Outcome)] /\ r \in Msg /\ Requests \subseteq Msg
    BY DEF TypeOK, Requests
  <1>2. Append(<<>>, outcome) = <<outcome>> /\ <<outcome>> # <<>>
    OBVIOUS
  <1>3. replies'[r] = <<outcome>> /\ \A q \in Msg : q # r => replies'[q] = replies[q]
    BY <1>1, <1>2
  <1>4. Phase(r)' = "answered" /\ Phase(r) \in {"waiting", "started"}
        /\ (outcome = "result" => Phase(r) = "started")
    BY <1>2, <1>3 DEF Phase
  <1>5. \A q \in Requests : q # r => Phase(q)' = Phase(q)
    BY <1>1, <1>3 DEF Phase
  <1>6. LifeState' = [LifeState EXCEPT ![r] = "answered"] /\ LifeState[r] = Phase(r)
    BY <1>4, <1>5, Phases
  <1>7. Cancelling' = Cancelling \ {r}
    <2>1. cancelled \subseteq Msg
      BY DEF TypeOK
    <2>. QED
      BY <1>1, <1>2, <1>3, <2>1 DEF Cancelling
  <1>8. outcome = "RequestCancelled" => r \in Cancelling
    BY DEF Cancelling
  <1>9. Answers' = [Answers EXCEPT ![r] = <<outcome>>]
    <2>1. Answers' = [q \in Requests |-> replies'[q]]
      BY DEF Answers, Requests, IsRequest
    <2>. QED
      BY <1>1, <1>3, <2>1 DEF Answers
  <1>10. Lifecycle!Answer(r, outcome)
    BY <1>4, <1>6, <1>7, <1>8, <1>9 DEF Lifecycle!Answer
  <1>. QED
    BY <1>10 DEF Lifecycle!Next

\* terminateWorkspaceDiagnostics answers the streaming request, if there is one.
LEMMA TerminationIsAnswer ==
    ASSUME TypeOK, PlaceInv, ReplyInv, LifeInv, TerminateStream \/ UNCHANGED replies,
           UNCHANGED <<received, cancelled>>,
           \A q \in Requests : q \in handled' <=> q \in handled
    PROVE  [Lifecycle!Next]_(Lifecycle!vars)
  <1>1. CASE UNCHANGED replies
    BY <1>1, HistoriesKept
  <1>2. CASE TerminateStream /\ streamId = NoMsg
    BY <1>2, HistoriesKept DEF TerminateStream
  <1>3. CASE TerminateStream /\ streamId # NoMsg
    <2>1. /\ streamId \in Msg /\ streamId \in received /\ Kind[streamId] # "shutdown"
          /\ replies[streamId] = <<>>
      BY <1>3 DEF TypeOK, PlaceInv, Decided, ReplyInv, Owed
    <2>2. replies' = [replies EXCEPT ![streamId] = Append(@, "ServerCancelled")]
      BY <1>3 DEF TerminateStream
    <2>3. streamId \in Requests /\ "ServerCancelled" \in Outcome
      BY <1>3 DEF LifeInv, StreamInv, Outcome
    <2>. QED
      BY <2>1, <2>2, <2>3, ResponseIsAnswer
  <1>. QED
    BY <1>1, <1>2, <1>3

\* The initial states of the pump are initial states of the requests.
LEMMA LifecycleInit == Init => Lifecycle!Init
  <1> SUFFICES ASSUME Init
               PROVE  Lifecycle!Init
    OBVIOUS
  <1>1. \A r \in Requests : r \in Msg /\ Phase(r) = "unsent" /\ replies[r] = <<>>
    BY DEF Init, Phase, Requests
  <1>. QED
    BY <1>1, Phases DEF Init, Lifecycle!Init, Cancelling, Answers

\* The input thread sends, cancels and turns down requests.
LEMMA InputSteps ==
    ASSUME TypeOK, PlaceInv, ReplyInv, LifeInv, InputThread
    PROVE  [Lifecycle!Next]_(Lifecycle!vars)
  <1> USE DEF inputVars, sharedVars, workerVars, folderVars, streamVars, configVars, outputVars
  <1>1. ASSUME NEW m \in Msg, Receive(m)
        PROVE  [Lifecycle!Next]_(Lifecycle!vars)
    <2>1. /\ m \notin received /\ received' = received \cup {m} /\ Kind[m] # "shutdown"
          /\ UNCHANGED <<replies, handled, cancelled>>
      BY <1>1 DEF Receive, Read, MaySend
    <2>2. CASE m \in Requests
      <3>1. Phase(m) = "unsent" /\ Phase(m)' = "waiting"
        BY <2>1 DEF Phase, PlaceInv, Decided, ReplyInv, ReplyOrigin
      <3>2. Cancelling' = Cancelling /\ \A q \in Requests : q # m => Phase(q)' = Phase(q)
        BY <2>1 DEF Cancelling, Phase
      <3>3. Lifecycle!Send(m)
        BY <2>1, <2>2, <3>1, <3>2, PhaseChanges DEF Lifecycle!Send
      <3>. QED
        BY <2>2, <3>3 DEF Lifecycle!Next
    <2>3. CASE m \notin Requests
      BY <2>1, <2>3, HistoriesKept
    <2>. QED
      BY <2>2, <2>3
  <1>2. ASSUME NEW m \in Msg, ReceiveAfterShutdown(m)
        PROVE  [Lifecycle!Next]_(Lifecycle!vars)
    <2>1. /\ m \notin received /\ received' = received \cup {m} /\ Kind[m] # "shutdown"
          /\ UNCHANGED <<handled, cancelled>>
      BY <1>2 DEF ReceiveAfterShutdown, Read, MaySend
    <2>2. CASE IsRequest(m)
      <3>1. m \in Requests /\ replies[m] = <<>>
        BY <2>1, <2>2 DEF Requests, ReplyInv, ReplyOrigin
      <3>2. replies' = [replies EXCEPT ![m] = Append(@, "InvalidRequest")]
        BY <1>2, <2>2 DEF ReceiveAfterShutdown
      <3>3. Append(<<>>, "InvalidRequest") = <<"InvalidRequest">> /\ <<"InvalidRequest">> # <<>>
        OBVIOUS
      <3>4. replies'[m] = <<"InvalidRequest">> /\ \A q \in Msg : q # m => replies'[q] = replies[q]
        BY <3>1, <3>2, <3>3 DEF TypeOK
      <3>5. Phase(m) = "unsent" /\ Phase(m)' = "answered"
            /\ \A q \in Requests : q # m => Phase(q)' = Phase(q)
        BY <2>1, <3>3, <3>4 DEF Phase, Requests
      <3>6. LifeState' = [LifeState EXCEPT ![m] = "answered"] /\ LifeState[m] = "unsent"
        BY <3>1, <3>5, Phases
      <3>7. Cancelling' = Cancelling
        BY <2>1, <3>4 DEF Cancelling, LifeInv, RequestTokens, Requests
      <3>8. Answers' = [Answers EXCEPT ![m] = <<"InvalidRequest">>]
        <4>1. Answers' = [q \in Requests |-> replies'[q]] /\ Requests \subseteq Msg
          BY DEF Answers, Requests, IsRequest
        <4>. QED
          BY <3>1, <3>4, <4>1 DEF Answers
      <3>9. Lifecycle!TurnDown(m)
        BY <3>6, <3>7, <3>8 DEF Lifecycle!TurnDown
      <3>. QED
        BY <3>1, <3>9 DEF Lifecycle!Next
    <2>3. CASE ~IsRequest(m)
      <3>1. replies' = replies /\ m \notin Requests
        BY <1>2, <2>3 DEF ReceiveAfterShutdown, Requests
      <3>. QED
        BY <2>1, <3>1, HistoriesKept
    <2>. QED
      BY <2>2, <2>3
  <1>3. ASSUME NEW m \in Msg, Cancel(m)
        PROVE  [Lifecycle!Next]_(Lifecycle!vars)
    <2>1. /\ cancelled' = cancelled \cup ({m} \cap tokens) /\ m \in received
          /\ UNCHANGED <<received, replies, handled>>
      BY <1>3 DEF Cancel
    <2>2. \A q \in Requests : Phase(q)' = Phase(q) /\ replies'[q] = replies[q]
      BY <2>1 DEF Phase
    <2>3. CASE m \in tokens /\ replies[m] = <<>>
      <3>1. m \in Requests /\ Phase(m) \in {"waiting", "started"}
        BY <2>1, <2>3 DEF LifeInv, RequestTokens, Phase
      <3>2. Cancelling' = Cancelling \cup {m}
        BY <2>1, <2>3 DEF Cancelling
      <3>3. LifeState' = LifeState /\ Answers' = Answers /\ LifeState[m] = Phase(m)
        <4>1. Answers' = Answers
          BY <2>2 DEF Answers, Requests, IsRequest
        <4>. QED
          BY <2>2, <3>1, <4>1, Phases
      <3>4. Lifecycle!Cancel(m)
        BY <3>1, <3>2, <3>3 DEF Lifecycle!Cancel
      <3>. QED
        BY <3>1, <3>4 DEF Lifecycle!Next
    <2>4. CASE ~(m \in tokens /\ replies[m] = <<>>)
      <3>1. Cancelling' = Cancelling
        BY <2>1, <2>4 DEF Cancelling
      <3>. QED
        BY <2>2, <3>1, Stutters
    <2>. QED
      BY <2>3, <2>4
  <1>4. CASE Joined
    <2>1. /\ replies' = [replies EXCEPT ![shutdownId] = Append(@, "result")]
          /\ input = "joining" /\ UNCHANGED <<received, handled, cancelled>>
      BY <1>4 DEF Joined
    <2>2. shutdownId \notin Requests
      BY <2>1 DEF ReplyInv, Owed, Requests
    <2>3. \A q \in Requests : replies'[q] = replies[q]
      BY <2>1, <2>2 DEF TypeOK, Requests
    <2>4. Cancelling' = Cancelling /\ \A q \in Requests : Phase(q)' = Phase(q)
      BY <2>1, <2>3 DEF Cancelling, LifeInv, RequestTokens, Phase
    <2>. QED
      BY <2>3, <2>4, Stutters
  <1>5. ASSUME NEW m \in Msg,
               ReceiveShutdown(m) \/ ReceiveSecondShutdown(m) \/ ReceiveExit(m)
        PROVE  [Lifecycle!Next]_(Lifecycle!vars)
    <2>1. m \notin Requests
      BY <1>5 DEF ReceiveShutdown, ReceiveSecondShutdown, ReceiveExit, Requests, IsRequest,
                  RequestKind
    <2>. QED
      BY <1>5, <2>1, HistoriesKept DEF ReceiveShutdown, ReceiveSecondShutdown, ReceiveExit, Read
  <1>6. ASSUME (\E m \in Msg : ClientResponds(m)) \/ EndOfInput
        PROVE  [Lifecycle!Next]_(Lifecycle!vars)
    BY <1>6, HistoriesKept DEF ClientResponds, EndOfInput
  <1>. QED
    BY <1>1, <1>2, <1>3, <1>4, <1>5, <1>6 DEF InputThread

\* The worker starts requests, answers them, and lets one stay open.
LEMMA WorkerSteps ==
    ASSUME TypeOK, PlaceInv, ReplyInv, LifeInv, WorkerThread
    PROVE  [Lifecycle!Next]_(Lifecycle!vars)
  <1> USE DEF inputVars, sharedVars, workerVars, folderVars, streamVars, configVars, outputVars
  <1>1. ASSUME NEW m \in Msg, Start(m)
        PROVE  [Lifecycle!Next]_(Lifecycle!vars)
    <2>1. /\ pc = "dispatch" /\ current = Call(m) /\ handled' = handled \cup {m}
          /\ IsRequest(m) /\ EntryErrors(m) = {}
          /\ UNCHANGED <<received, replies, cancelled>>
      BY <1>1 DEF Start, Dispatching
    <2>2. /\ m \in received /\ m \notin handled /\ m \in Requests /\ replies[m] = <<>>
      BY <2>1 DEF PlaceInv, Undecided, ReplyInv, ReplyOrigin, Requests
    <2>3. m \notin cancelled
      BY <2>1 DEF EntryErrors
    <2>4. Phase(m) = "waiting" /\ Phase(m)' = "started"
      BY <2>1, <2>2 DEF Phase
    <2>5. Cancelling' = Cancelling /\ \A q \in Requests : q # m => Phase(q)' = Phase(q)
      BY <2>1 DEF Cancelling, Phase
    <2>6. Lifecycle!Start(m)
      BY <2>1, <2>2, <2>3, <2>4, <2>5, PhaseChanges DEF Lifecycle!Start, Cancelling
    <2>. QED
      BY <2>2, <2>6 DEF Lifecycle!Next
  <1>2. ASSUME NEW m \in Msg, Refuse(m)
        PROVE  [Lifecycle!Next]_(Lifecycle!vars)
    <2>1. PICK e \in EntryErrors(m) : replies' = [replies EXCEPT ![m] = Append(@, e)]
      BY <1>2 DEF Refuse, Reply
    <2>2. /\ pc = "dispatch" /\ current = Call(m) /\ handled' = handled \cup {m}
          /\ IsRequest(m) /\ UNCHANGED <<received, cancelled>>
      BY <1>2 DEF Refuse, Reply, Dispatching
    <2>3. /\ m \in received /\ m \in Requests /\ replies[m] = <<>>
      BY <2>2 DEF PlaceInv, Undecided, ReplyInv, ReplyOrigin, Requests
    <2>4. e \in Outcome /\ e # "result" /\ (e = "RequestCancelled" => m \in cancelled)
      BY <2>1 DEF EntryErrors, Outcome
    <2>. QED
      BY <2>1, <2>2, <2>3, <2>4, ResponseIsAnswer
  <1>3. ASSUME NEW m \in Msg,
               OnInitialize(m) \/ OnDocumentRequest(m) \/ OnWorkspaceDiagnostic(m)
        PROVE  [Lifecycle!Next]_(Lifecycle!vars)
    <2>1. /\ pc = "running" /\ current = Call(m) /\ UNCHANGED <<received, handled, cancelled>>
      BY <1>3 DEF OnInitialize, OnDocumentRequest, OnWorkspaceDiagnostic, Serving
    <2>2. m \in handled /\ replies[m] = <<>> /\ m \in received /\ Kind[m] # "shutdown"
      BY <2>1 DEF ReplyInv, Owed, PlaceInv, Decided
    <2>3. m \in Requests
      BY <1>3, <2>2 DEF OnInitialize, OnDocumentRequest, OnWorkspaceDiagnostic, Serving,
                        Requests, IsRequest, RequestKind
    <2>4. ASSUME NEW o \in Outcome, Reply(m, o), o = "RequestCancelled" => m \in cancelled
          PROVE  Lifecycle!Next
      BY <2>1, <2>2, <2>3, <2>4, ResponseIsAnswer DEF Reply
    <2>5. \/ replies' = replies
          \/ \E o \in {"result", "InternalError", "ServerCancelled"} : Reply(m, o)
          \/ m \in cancelled /\ Reply(m, "RequestCancelled")
      BY <1>3 DEF OnInitialize, OnDocumentRequest, OnWorkspaceDiagnostic, LeaveOpen
    <2>6. CASE replies' = replies
      BY <2>1, <2>6, HistoriesKept
    <2>7. CASE \E o \in {"result", "InternalError", "ServerCancelled"} : Reply(m, o)
      <3>1. \A o \in {"result", "InternalError", "ServerCancelled"} :
                o \in Outcome /\ o # "RequestCancelled"
        BY DEF Outcome
      <3>. QED
        BY <2>4, <2>7, <3>1
    <2>8. CASE m \in cancelled /\ Reply(m, "RequestCancelled")
      <3>1. "RequestCancelled" \in Outcome
        BY DEF Outcome
      <3>. QED
        BY <2>4, <2>8, <3>1
    <2>. QED
      BY <2>5, <2>6, <2>7, <2>8
  <1>4. CASE ClearCancellationToken
    <2>1. PICK m \in Msg : current = Call(m) /\ m \in handled
      BY <1>4 DEF ClearCancellationToken, LifeInv, ClearingInv
    <2>2. cancelled' = cancelled \ {m} /\ UNCHANGED <<received, replies, handled>>
      BY <1>4, <2>1 DEF ClearCancellationToken, Call
    <2>3. \A q \in Requests : Phase(q)' = Phase(q) /\ replies'[q] = replies[q]
      BY <2>2 DEF Phase
    <2>4. CASE m \in Requests /\ replies[m] = <<>>
      <3>1. Phase(m) = "started"
        BY <2>1, <2>4 DEF Phase, PlaceInv, Decided
      <3>2. Cancelling' = Cancelling \ {m}
        BY <2>2 DEF Cancelling
      <3>3. Answers' = Answers
        BY <2>3 DEF Answers, Requests, IsRequest
      <3>4. Lifecycle!StayOpen(m)
        BY <2>3, <2>4, <3>1, <3>2, <3>3, Phases DEF Lifecycle!StayOpen
      <3>. QED
        BY <2>4, <3>4 DEF Lifecycle!Next
    <2>5. CASE ~(m \in Requests /\ replies[m] = <<>>)
      <3>1. Cancelling' = Cancelling
        BY <2>2, <2>5 DEF Cancelling, LifeInv, RequestTokens
      <3>. QED
        BY <2>3, <3>1, Stutters
    <2>. QED
      BY <2>4, <2>5
  <1>5. ASSUME NEW m \in Msg,
               \/ Drop(m) \/ OnInitialized(m) \/ OnDidChangeConfiguration(m)
               \/ OnDidChangeWorkspaceFolders(m) \/ OnTextDocument(m) \/ OnConfigFileChanged(m)
        PROVE  [Lifecycle!Next]_(Lifecycle!vars)
    <2>1. /\ handled' = handled \cup {m} /\ m \notin Requests
          /\ UNCHANGED <<received, cancelled>>
          /\ TerminateStream \/ UNCHANGED replies
      BY <1>5 DEF Drop, OnInitialized, OnDidChangeConfiguration, OnDidChangeWorkspaceFolders,
                  OnTextDocument, OnConfigFileChanged, Notified, Finishes, LazyInitialize, Requests
    <2>. QED
      BY <2>1, TerminationIsAnswer
  <1>6. ASSUME OnResponse \/ \E m \in Msg : InitializeWorkspace(m)
        PROVE  [Lifecycle!Next]_(Lifecycle!vars)
    <2>1. /\ UNCHANGED <<handled, received, cancelled>>
          /\ TerminateStream \/ UNCHANGED replies
      BY <1>6 DEF OnResponse, InitializeWorkspace, LazyInitialize
    <2>. QED
      BY <2>1, TerminationIsAnswer
  <1>7. ASSUME Pop \/ Stop \/ DrainNext \/ DrainEnd \/ \E m \in Msg : Postpone(m)
        PROVE  [Lifecycle!Next]_(Lifecycle!vars)
    <2>1. UNCHANGED <<handled, received, cancelled, replies>>
      BY <1>7 DEF Pop, Stop, DrainNext, DrainEnd, Postpone
    <2>. QED
      BY <2>1, HistoriesKept
  <1>. QED
    BY <1>1, <1>2, <1>3, <1>4, <1>5, <1>6, <1>7 DEF WorkerThread

\* For every request the client sees the life that RequestLifecycle promises, with
\* both threads, postponement, streaming, cancellation and shutdown: a result only
\* for a request that was started, RequestCancelled only for a cancelled one.
THEOREM PumpImplementsLifecycle == Spec => ImplementsLifecycle
  <1>1. TypeOK /\ PlaceInv /\ ReplyInv /\ LifeInv /\ [Next]_vars
            => [Lifecycle!Next]_(Lifecycle!vars)
    <2>1. LifeInv /\ UNCHANGED vars => UNCHANGED Lifecycle!vars
      BY HistoriesKept DEF vars, inputVars, sharedVars, workerVars, folderVars, streamVars, configVars,
             outputVars
    <2>. QED
      BY <2>1, InputSteps, WorkerSteps DEF Next, Terminated
  <1>. QED
    BY <1>1, LifecycleInit, LifeInductive, PTL DEF Spec, ImplementsLifecycle, Lifecycle!Spec
=============================================================================
