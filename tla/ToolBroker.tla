----------------------------- MODULE ToolBroker -----------------------------
(***************************************************************************)
(* What the bridge promises about tool calls, without sessions, turns,     *)
(* HTTP requests or the event loop: calls are queued in the order they     *)
(* arrive, offered to the client one at a time, and each ends with exactly *)
(* one fate.  Only an offered call can end with the client's result.       *)
(***************************************************************************)
EXTENDS Naturals, Sequences, Functions

CONSTANT Calls

VARIABLES
    queue,    \* the accepted calls that have no fate yet, oldest first
    offered,  \* the head of the queue has been shown to the client
    fate      \* how each call ended

vars == <<queue, offered, fate>>

Init ==
    /\ queue = <<>>
    /\ offered = FALSE
    /\ fate = [c \in Calls |-> "none"]

Unseen(c) == fate[c] = "none" /\ c \notin Range(queue)

\* A call arrives, and is offered at once when it is alone and a client waits.
Arrive(c) ==
    /\ Unseen(c)
    /\ queue' = Append(queue, c)
    /\ offered' \in (IF queue = <<>> THEN BOOLEAN ELSE {offered})
    /\ UNCHANGED fate

Offer ==
    /\ queue # <<>> /\ ~offered
    /\ offered' = TRUE
    /\ UNCHANGED <<queue, fate>>

\* The client returned a result for the offered call; it is lost only if the
\* connection to the app-server is already dead.
Finish(end) ==
    /\ offered
    /\ fate' = [fate EXCEPT ![Head(queue)] = end]
    /\ queue' = Tail(queue)
    /\ offered' = FALSE

\* The session ends: every call in the queue ends the same way, and the call
\* that caused it, if any, is refused.
EndSession(end, refused) ==
    /\ \A c \in refused : Unseen(c)
    /\ fate' = [c \in Calls |-> IF c \in Range(queue) THEN end
                                ELSE IF c \in refused
                                THEN (IF end = "lost" THEN "lost" ELSE "error")
                                ELSE fate[c]]
    /\ queue' = <<>>
    /\ offered' = FALSE

\* A call that is refused, or arrives in a session that ends at once.
TurnAway(c, end) ==
    /\ Unseen(c)
    /\ fate' = [fate EXCEPT ![c] = end]
    /\ UNCHANGED <<queue, offered>>

Next ==
    \/ \E c \in Calls : Arrive(c)
    \/ Offer
    \/ \E end \in {"result", "lost"} : Finish(end)
    \/ \E end \in {"cancelled", "lost"}, refused \in SUBSET Calls :
         EndSession(end, refused)
    \/ \E c \in Calls, end \in {"error", "cancelled", "lost"} : TurnAway(c, end)

Spec == Init /\ [][Next]_vars

=============================================================================
