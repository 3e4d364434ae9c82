---------------------------- MODULE StreamClient ----------------------------
(***************************************************************************)
(* The example client (src/examples/tool-client.mjs, request and readSse)  *)
(* at the other end of the event stream that Segment writes.  How bytes    *)
(* become lines is in LineReaders; here an event arrives whole or not at   *)
(* all, and the connection may be cut after any of them.                   *)
(***************************************************************************)
EXTENDS Segment

VARIABLES
    client,    \* "reading", "returned", "failed" (by what it read) or "gone"
    taken      \* the output of the response it has returned

clientVars == <<client, taken>>
both == <<vars, clientVars>>

-----------------------------------------------------------------------------
\* What the client makes of one event more; it stops at the first that fails.
Dispatch(r, event) ==
    IF r.failed THEN r
    ELSE IF event.type = "failed" THEN [r EXCEPT !.failed = TRUE]
    ELSE IF event.type = "completed" THEN [r EXCEPT !.completed = <<event.output>>]
    ELSE r

\* completed is the last completed response, if any.
Dispatched(events) ==
    FoldLeft(Dispatch, [failed |-> FALSE, completed |-> <<>>], events)

\* Variant: the end of the stream is the end of the response.
AtEndTrusting(r) == IF r.failed THEN "failed" ELSE "returned"

\* "SSE ended without response.completed."
AtEnd(r) == IF r.failed \/ r.completed = <<>> THEN "failed" ELSE "returned"

ClientInit == Init /\ client = "reading" /\ taken = <<>>

\* The stream ends where the server ended it.
ReadsEnd ==
    /\ client = "reading" /\ response = "ended"
    /\ LET r == Dispatched(sent)
       IN /\ client' = AtEnd(r)
          /\ taken' = IF AtEnd(r) = "returned" /\ r.completed # <<>>
                      THEN Last(r.completed) ELSE <<>>
    /\ UNCHANGED vars

\* An event of failure: the reader is cancelled and the connection with it.
ReadsFailure ==
    /\ client = "reading" /\ Dispatched(sent).failed
    /\ client' = "failed" /\ taken' = taken
    /\ Disconnects

\* The connection breaks, or the client's timeout runs out: neither waits for
\* the other's events.
LosesConnection ==
    /\ client = "reading"
    /\ client' = "gone" /\ taken' = taken
    /\ \/ Disconnects
       \/ response = "ended" /\ UNCHANGED vars

ServerNext ==
    /\ \/ Starts \/ ToolIsOffered \/ TurnCompletes \/ Fails \/ Ends
       \/ \E id \in Items, text \in Texts : TextArrives(id, text) \/ MessageCompletes(id, text)
    /\ UNCHANGED clientVars

BothNext == ServerNext \/ ReadsEnd \/ ReadsFailure \/ LosesConnection

BothSpec == ClientInit /\ [][BothNext]_both

-----------------------------------------------------------------------------
\* The two ends agree on how a response ended unless the connection broke: the
\* client has a result exactly if the operation succeeded, and it is the whole
\* output; it reports a failure only of an operation that has failed.  This
\* holds though a slow client may get no terminal event at all.
EndsAgree ==
    /\ client = "returned" => settled = "ok" /\ taken = seg.output
    /\ client = "failed" => settled = "failed"

=============================================================================
