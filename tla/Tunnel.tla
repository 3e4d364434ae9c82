------------------------------- MODULE Tunnel -------------------------------
(***************************************************************************)
(* tunnelWebSocket (src/src/native-websocket.mjs): one client connection   *)
(* of the native gateway and the handshake, sockets, deadline and promise  *)
(* of its tunnel.  Every listener is an operator from a connection to the  *)
(* next, so that Gateway can combine it with what else its event does.     *)
(* Bytes are left out; what is kept is who may still send any.             *)
(* RawForward uses the same record for a plain request.                    *)
(***************************************************************************)
EXTENDS Naturals

Connection ==
    [client : {"none", "http", "open", "ended", "destroyed", "closed"},
         \* the gateway's end of the client's socket: not there, in the HTTP
         \* parser, upgraded, FIN sent, destroy() called, "close" emitted
     kind : {"none", "request", "upgrade"},
     fin : BOOLEAN,             \* the client's FIN has been read
     heads : Nat,               \* response heads written to it
     promise : {"none", "pending", "resolved", "rejected", "returned"},
     answered : {"no", "upgraded", "response"},  \* responseStarted and upgraded
     request : {"none", "open", "response", "done", "destroyed"},
     peer : {"none", "open", "dead", "closed"},  \* upstreamSocket
     eof : BOOLEAN,             \* peer.readableEnded
     deadline : BOOLEAN]        \* the handshake timer is armed

Absent ==
    [client |-> "none", kind |-> "none", fin |-> FALSE, heads |-> 0, promise |-> "none",
     answered |-> "no", request |-> "none", peer |-> "none", eof |-> FALSE,
     deadline |-> FALSE]

Settled(t) == t.promise \in {"resolved", "rejected", "returned"}
Gone(t) == t.client \in {"destroyed", "closed"}

-----------------------------------------------------------------------------
(* Node's sockets *)

\* socket.destroy(); the close event follows.
Destroyed(t) ==
    IF t.client \in {"http", "open", "ended"} THEN [t EXCEPT !.client = "destroyed"] ELSE t

\* socket.end(): a socket both of whose sides have ended destroys itself.
Ended(t) ==
    IF t.client # "open" THEN t
    ELSE [t EXCEPT !.client = IF t.fin THEN "destroyed" ELSE "ended"]

\* Variant: the upstream socket is forgotten.
DropRequest(t) ==
    [t EXCEPT !.request = IF @ \in {"open", "response"} THEN "destroyed" ELSE @]

\* upstream.destroy(), upstreamSocket?.destroy()
DropUpstream(t) ==
    [t EXCEPT !.request = IF @ \in {"open", "response"} THEN "destroyed" ELSE @,
              !.peer = IF @ = "open" THEN "dead" ELSE @]

-----------------------------------------------------------------------------
(* The functions of tunnelWebSocket *)

Begun(t) ==
    [t EXCEPT !.client = "open", !.kind = "upgrade", !.promise = "pending",
              !.request = "open", !.deadline = TRUE]

Settle(t, outcome) ==
    IF Settled(t) THEN t ELSE [t EXCEPT !.promise = outcome, !.deadline = FALSE]

Fail(t) ==
    IF t.answered # "no" THEN Settle(Destroyed(DropUpstream(t)), "resolved")
    ELSE Settle(DropUpstream(t), "rejected")

OnAbort(t) == Settle(Destroyed(DropUpstream(t)), "resolved")

\* Variant: only the sockets are closed.
OnCloseUnsettled(t) == DropUpstream([t EXCEPT !.client = "closed"])

\* The server's listener aborts, the tunnel's drops what is left.
OnClose(t) ==
    LET closed == [t EXCEPT !.client = "closed"]
    IN IF t.promise = "none" THEN closed ELSE OnAbort(closed)

\* peer.destroy() for a socket nobody listens to leaves nothing behind.
OnUpgrade(t, valid) ==
    IF Settled(t) \/ Gone(t) THEN [t EXCEPT !.request = "done"]
    ELSE IF ~valid THEN Fail([t EXCEPT !.request = "done"])
    ELSE [t EXCEPT !.request = "done", !.answered = "upgraded", !.deadline = FALSE,
                   !.peer = "open", !.heads = @ + 1]

OnResponse(t) ==
    IF Settled(t) \/ Gone(t) THEN [t EXCEPT !.request = "done"]
    ELSE [t EXCEPT !.request = "response", !.answered = "response", !.heads = @ + 1]

OnResponseEnd(t) == Ended([t EXCEPT !.request = "done"])

\* peer.pipe(socket) passes the end on; peer then closes by itself.
OnPeerEnd(t) == Ended([t EXCEPT !.eof = TRUE])

OnPeerError(t) == Fail([t EXCEPT !.peer = "dead"])

\* Variant: every close of the peer is passed on as a clean end.
OnPeerCloseQuiet(t) == Ended([t EXCEPT !.peer = "closed"])

OnPeerClose(t) ==
    LET closed == [t EXCEPT !.peer = "closed"]
    IN IF t.eof THEN Ended(closed) ELSE Destroyed(closed)

\* deny (server.mjs): one short response, unless the socket is gone or ended.
Deny(t) ==
    IF t.client # "open" THEN t ELSE Ended([t EXCEPT !.heads = @ + 1])

=============================================================================
