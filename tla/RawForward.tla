----------------------------- MODULE RawForward -----------------------------
(***************************************************************************)
(* forwardRawRequest (src/src/native-runtime.mjs) and the server's handler *)
(* around it: one HTTP request relayed to the runtime, under a deadline    *)
(* that covers the answer and all of its body.                             *)
(***************************************************************************)
EXTENDS Tunnel

\* The body is being read; no request to the runtime has been made.
Received(t) == [t EXCEPT !.kind = "request", !.promise = "pending"]

Reading(t) == t.kind = "request" /\ t.promise = "pending" /\ t.request = "none"

Requested(t) == [t EXCEPT !.request = "open", !.deadline = TRUE]

\* The catch and finally of forwardRawRequest, and what threw before them.
Abandon(t) ==
    LET left == [t EXCEPT !.request = IF @ \in {"open", "response"} THEN "destroyed" ELSE @,
                          !.promise = "rejected", !.deadline = FALSE]
    IN IF t.answered # "no" THEN Destroyed(left) ELSE left

\* res.writeHead; the pipeline has begun.
Respond(t) == [t EXCEPT !.request = "response", !.answered = "response", !.heads = @ + 1]

Complete(t) == [t EXCEPT !.request = "done", !.promise = "resolved", !.deadline = FALSE]

\* The server's catch (server.mjs).
Report(t) ==
    LET back == [t EXCEPT !.promise = "returned"]
    IN IF t.promise # "rejected" THEN back
       ELSE IF t.answered # "no" THEN Destroyed(back)
       ELSE IF Gone(t) THEN back ELSE [back EXCEPT !.heads = @ + 1]

=============================================================================
