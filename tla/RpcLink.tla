------------------------------ MODULE RpcLink -------------------------------
(***************************************************************************)
(* What CodexBridge relies on in CodexRpc: a link that comes up once, may  *)
(* break, and ends once; a request is answered only while it is pending,   *)
(* and nothing is pending once the link has ended.                         *)
(***************************************************************************)
CONSTANT Requests

VARIABLES
    link,   \* the link: Bridge's rpc field
    reply   \* how far each request is: Bridge's reply fields

vars == <<link, reply>>

Init ==
    /\ link = "starting"
    /\ reply = [r \in Requests |-> "none"]

Connect ==
    /\ link = "starting" /\ link' = "up"
    /\ UNCHANGED reply

Break ==
    /\ link = "up" /\ link' = "broken"
    /\ UNCHANGED reply

\* A request on a link that is not up is refused at once.
Ask(r) ==
    /\ reply[r] = "none"
    /\ reply' = [reply EXCEPT ![r] = IF link = "up" THEN "pending" ELSE "error"]
    /\ UNCHANGED link

Settle(r, result) ==
    /\ link # "closed" /\ reply[r] = "pending"
    /\ reply' = [reply EXCEPT ![r] = result]
    /\ UNCHANGED link

\* The link ends, for good, and with it every pending request.
End ==
    /\ link # "closed" /\ link' = "closed"
    /\ reply' = [r \in Requests |->
                   IF reply[r] = "pending" THEN "error" ELSE reply[r]]

Next ==
    \/ Connect \/ Break \/ End
    \/ \E r \in Requests : Ask(r)
    \/ \E r \in Requests, result \in {"ok", "error"} : Settle(r, result)

Spec == Init /\ [][Next]_vars

=============================================================================
