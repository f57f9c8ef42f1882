-------------------------- MODULE RequestLifecycle --------------------------
(***************************************************************************)
(* What the server promises for each request that is not shutdown, as a    *)
(* client sees it: the request waits, is started unless it was cancelled   *)
(* while it waited, and is answered once.  A result comes only from a      *)
(* request that was started, RequestCancelled only for one that the client *)
(* did cancel.  MessagePump implements this specification.                 *)
(***************************************************************************)
EXTENDS Sequences

CONSTANTS
    Request,     \* the requests
    Outcome      \* what a response can say

VARIABLES
    state,       \* state[r]: "unsent", "waiting", "started" or "answered"
    cancelling,  \* the unanswered requests with a cancellation the server knows of
    answers      \* answers[r]: the responses to r

vars == <<state, cancelling, answers>>

Init ==
    /\ state = [r \in Request |-> "unsent"]
    /\ cancelling = {}
    /\ answers = [r \in Request |-> <<>>]

Send(r) ==
    /\ state[r] = "unsent"
    /\ state' = [state EXCEPT ![r] = "waiting"]
    /\ UNCHANGED <<cancelling, answers>>

Cancel(r) ==
    /\ state[r] \in {"waiting", "started"}
    /\ cancelling' = cancelling \cup {r}
    /\ UNCHANGED <<state, answers>>

Start(r) ==
    /\ state[r] = "waiting"
    /\ r \notin cancelling
    /\ state' = [state EXCEPT ![r] = "started"]
    /\ UNCHANGED <<cancelling, answers>>

\* A request that stays open for partial results can no longer be cancelled.
StayOpen(r) ==
    /\ state[r] = "started"
    /\ cancelling' = cancelling \ {r}
    /\ UNCHANGED <<state, answers>>

Answer(r, outcome) ==
    /\ state[r] \in {"waiting", "started"}
    /\ outcome = "result" => state[r] = "started"
    /\ outcome = "RequestCancelled" => r \in cancelling
    /\ state' = [state EXCEPT ![r] = "answered"]
    /\ cancelling' = cancelling \ {r}
    /\ answers' = [answers EXCEPT ![r] = <<outcome>>]

\* After shutdown a request is refused as it comes in.
TurnDown(r) ==
    /\ state[r] = "unsent"
    /\ state' = [state EXCEPT ![r] = "answered"]
    /\ answers' = [answers EXCEPT ![r] = <<"InvalidRequest">>]
    /\ UNCHANGED cancelling

Next ==
    \E r \in Request :
        \/ Send(r)
        \/ Cancel(r)
        \/ Start(r)
        \/ StayOpen(r)
        \/ \E outcome \in Outcome : Answer(r, outcome)
        \/ TurnDown(r)

Spec == Init /\ [][Next]_vars
=============================================================================
