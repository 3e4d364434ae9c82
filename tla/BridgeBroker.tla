---------------------------- MODULE BridgeBroker ----------------------------
(***************************************************************************)
(* The tool calls of Bridge as ToolBroker sees them: which calls wait in   *)
(* which order, whether the first of them has been offered, and how each   *)
(* call ended.                                                             *)
(***************************************************************************)
EXTENDS Bridge

\* The calls a bridge owes an answer, oldest first.
QueueOf(b) ==
    IF b.session = None THEN <<>>
    ELSE (IF Cur(b).waiting = None THEN <<>> ELSE <<Cur(b).waiting>>)
         \o Cur(b).pending

\* The waiting call is the one that some response has offered.
OfferedIn(b) ==
    /\ b.session # None /\ Cur(b).waiting # None
    /\ \E r \in Requests : /\ b.op[r].outcome = "ok"
                           /\ b.op[r].offered = Cur(b).waiting

\* A call without an answer that nobody holds any more died with the link.
FateOf(b, asked) ==
    [c \in Calls |->
        IF b.answers[c] # <<>> THEN b.answers[c][1].kind
        ELSE IF asked[c] # None /\ c \notin Range(QueueOf(b)) THEN "lost"
        ELSE "none"]

Queue == QueueOf(bridge)
IsOffered == OfferedIn(bridge)
Fate == FateOf(bridge, app.asked)

Broker == INSTANCE ToolBroker WITH
            queue <- Queue, offered <- IsOffered, fate <- Fate

\* Bridge implements ToolBroker: calls are offered one at a time in the order
\* they arrived, and end with exactly one fate (docs/design.md: one external
\* call at a time, parallel calls queued, the result answers the original RPC).
ImplementsBroker == Broker!Spec

=============================================================================
