--------------------------- MODULE MCMessagePump ---------------------------
(***************************************************************************)
(* The messages of the MessagePump runs.  A message is the name of its     *)
(* kind, with a digit where a run has several of a kind; each is sent at   *)
(* most once, in every order the protocol allows.                          *)
(***************************************************************************)
EXTENDS MessagePump

CONSTANTS fA, fB    \* two workspace folders

MCFolder == {fA, fB}

\* Start with a folder, or with none and open it later.
MCOneFolder == {fA}

MCNoFolder == {}

MCKind ==
    [m \in Msg |->
        CASE m \in {"document1", "document2"} -> "document"
          [] m \in {"edit1", "edit2"} -> "edit"
          [] m \in {"stream1", "stream2"} -> "stream"
          [] m \in {"shutdown1", "shutdown2"} -> "shutdown"
          [] m \in {"open", "close", "openB"} -> "folders"
          [] OTHER -> m]

MCTarget == [m \in Msg |-> fA]

MCAdded ==
    [m \in Msg |-> CASE m = "open" -> {fA} [] m = "openB" -> {fB} [] OTHER -> {}]

MCRemoved == [m \in Msg |-> IF m = "close" THEN {fA} ELSE {}]
=============================================================================
