------------------------------- MODULE Gateway ------------------------------
(***************************************************************************)
(* The native gateway process: src/src/main.mjs starting and stopping a    *)
(* NativeRuntime (src/src/native-runtime.mjs) and an HTTP server whose     *)
(* handlers (src/src/server.mjs) forward requests and open tunnels.        *)
(*                                                                         *)
(* The runtime's process, its answers and the clients are external.        *)
(* Continuations may wait longer here than Node lets them.  A connection   *)
(* carries one request or one upgrade.                                     *)
(***************************************************************************)
EXTENDS RawForward

CONSTANT Clients

VARIABLES
    conn,      \* the clients' connections
    sockets,   \* runtime.webSockets
    child,     \* the runtime's process; reaped when its exit event has come
    file,      \* what it has published: "absent", "good", "bad"
    start,     \* where NativeRuntime.start and main's use of it are
    closed,    \* runtime.closed
    stop,      \* where NativeRuntime.close is
    dir,       \* the control directory exists
    server,    \* the HTTP server
    down       \* where main's shutdown is

vars == <<conn, sockets, child, file, start, closed, stop, dir, server, down>>
runtimeVars == <<child, file, start, closed, stop, dir>>
mainVars == <<server, down>>

\* Type invariant; a connection has an upstream socket when it was upgraded.
TypeOK ==
    /\ conn \in [Clients -> Connection]
    /\ \A c \in Clients : conn[c].peer = "none" <=> conn[c].answered # "upgraded"
    /\ sockets \subseteq Clients
    /\ child \in {"none", "running", "dead", "reaped"}
    /\ file \in {"absent", "good", "bad"}
    /\ start \in {"begin", "poll", "read", "ready", "closing", "failed"}
    /\ closed \in BOOLEAN /\ dir \in BOOLEAN
    /\ stop \in {"no", "waiting", "done"}
    /\ server \in {"none", "listening", "closing", "closed"}
    /\ down \in {"no", "runtime", "connections", "done"}

Init ==
    /\ conn = [c \in Clients |-> Absent] /\ sockets = {}
    /\ child = "none" /\ file = "absent" /\ start = "begin" /\ closed = TRUE
    /\ stop = "no" /\ dir = FALSE /\ server = "none" /\ down = "no"

-----------------------------------------------------------------------------
(* NativeRuntime *)

\* Variant: tunnels are left to end by themselves.
CloseLeavingTunnels ==
    /\ closed' = TRUE /\ stop' = "waiting" /\ sockets' = {} /\ UNCHANGED conn

\* close() up to its first await: the child has had SIGTERM.
CloseBegins ==
    /\ closed' = TRUE /\ stop' = "waiting" /\ sockets' = {}
    /\ conn' = [c \in Clients |-> IF c \in sockets THEN Destroyed(conn[c]) ELSE conn[c]]

\* Variant: the exit is not waited for.
CloseUnwaiting ==
    /\ stop = "waiting" /\ stop' = "done" /\ dir' = FALSE
    /\ UNCHANGED <<conn, sockets, child, file, start, closed, mainVars>>

CloseContinues ==
    /\ stop = "waiting" /\ child = "reaped"
    /\ stop' = "done" /\ dir' = FALSE
    /\ UNCHANGED <<conn, sockets, child, file, start, closed, mainVars>>

\* The SIGKILL after two seconds.
Kills ==
    /\ stop = "waiting" /\ child = "running" /\ child' = "dead"
    /\ UNCHANGED <<conn, sockets, file, start, closed, stop, dir, mainVars>>

\* A command that cannot be spawned is dead at once.
RuntimeStarts ==
    /\ start = "begin" /\ start' = "poll" /\ dir' = TRUE
    /\ child' \in {"running", "dead"}
    /\ UNCHANGED <<conn, sockets, file, closed, stop, mainVars>>

\* lstat and readFile, two awaits, have found the control file.
ReadsFile ==
    /\ start = "poll" /\ child # "reaped" /\ file # "absent" /\ start' = "read"
    /\ UNCHANGED <<conn, sockets, child, file, closed, stop, dir, mainVars>>

\* Variant: the child is not looked at again.
BecomesReadyUnchecked ==
    /\ start = "read" /\ file = "good"
    /\ start' = "ready" /\ closed' = FALSE
    /\ UNCHANGED <<conn, sockets, child, file, stop, dir, mainVars>>

BecomesReady ==
    /\ start = "read" /\ file = "good" /\ child # "reaped"
    /\ start' = "ready" /\ closed' = FALSE
    /\ UNCHANGED <<conn, sockets, child, file, stop, dir, mainVars>>

\* An early exit, the startup timeout, or bad control data.
StartFails ==
    /\ start = "poll" \/ (start = "read" /\ (file = "bad" \/ child = "reaped"))
    /\ start' = "closing" /\ CloseBegins
    /\ UNCHANGED <<child, file, dir, mainVars>>

\* main's catch; the second close() finds nothing to do.
StartThrows ==
    /\ start = "closing" /\ stop = "done"
    /\ start' = "failed" /\ down' = "done"
    /\ UNCHANGED <<conn, sockets, child, file, closed, stop, dir, server>>

ChildPublishes ==
    /\ child = "running" /\ file = "absent" /\ file' \in {"good", "bad"}
    /\ UNCHANGED <<conn, sockets, child, start, closed, stop, dir, mainVars>>

ChildDies ==
    /\ child = "running" /\ child' = "dead"
    /\ UNCHANGED <<conn, sockets, file, start, closed, stop, dir, mainVars>>

-----------------------------------------------------------------------------
(* main *)

\* shutdown() up to its first await.
Shutdown == down' = "runtime" /\ server' = "closing" /\ CloseBegins

\* exitPromise.then, once main has attached it.
FollowsExit(listening) ==
    IF listening /\ down = "no" THEN Shutdown
    ELSE closed' = TRUE /\ UNCHANGED <<conn, sockets, stop, server, down>>

ExitSeen ==
    /\ child = "dead" /\ child' = "reaped"
    /\ FollowsExit(server = "listening")
    /\ UNCHANGED <<file, start, dir>>

Listens ==
    /\ start = "ready" /\ server = "none"
    /\ IF child = "reaped" THEN Shutdown
       ELSE server' = "listening" /\ UNCHANGED <<conn, sockets, closed, stop, down>>
    /\ UNCHANGED <<child, file, start, dir>>

ListenFails ==
    /\ start = "ready" /\ server = "none" /\ Shutdown
    /\ UNCHANGED <<child, file, start, dir>>

Signal ==
    /\ server = "listening" /\ down = "no" /\ Shutdown
    /\ UNCHANGED <<child, file, start, dir>>

\* Variant: open requests are left to finish.
ShutdownPatient ==
    /\ down = "runtime" /\ stop = "done" /\ down' = "connections"
    /\ UNCHANGED <<conn, sockets, runtimeVars, server>>

\* closeAllConnections() leaves out what was upgraded.
ShutdownContinues ==
    /\ down = "runtime" /\ stop = "done" /\ down' = "connections"
    /\ conn' = [c \in Clients |->
                 IF conn[c].client = "http" THEN Destroyed(conn[c]) ELSE conn[c]]
    /\ UNCHANGED <<sockets, runtimeVars, server>>

\* server.close() calls back when no connection is left; the process exits.
ShutdownEnds ==
    /\ down = "connections" /\ \A c \in Clients : conn[c].client \in {"none", "closed"}
    /\ down' = "done" /\ server' = "closed"
    /\ UNCHANGED <<conn, sockets, runtimeVars>>

-----------------------------------------------------------------------------
(* Connections and tunnels *)

Becomes(c, t) ==
    conn' = [conn EXCEPT ![c] = t] /\ UNCHANGED <<sockets, runtimeVars, mainVars>>

Connects(c) ==
    /\ server = "listening" /\ conn[c].client = "none"
    /\ Becomes(c, [conn[c] EXCEPT !.client = "http"])

Unused(c) == conn[c].client = "http" /\ conn[c].kind = "none"

\* A request the server refuses, or that finds the runtime closed.
RequestRefused(c) ==
    /\ Unused(c)
    /\ Becomes(c, [conn[c] EXCEPT !.kind = "request", !.promise = "returned", !.heads = 1])

RequestReceived(c) == Unused(c) /\ ~closed /\ Becomes(c, Received(conn[c]))

\* Port and token are those of the call: a request whose body was read while
\* close() went on is still made, and fails by itself (RequestFails).
BodyRead(c) ==
    /\ Reading(conn[c]) /\ conn[c].client = "http"
    /\ Becomes(c, Requested(conn[c]))

\* Too long, or aborted by the client.
BodyFails(c) == Reading(conn[c]) /\ Becomes(c, Abandon(conn[c]))

\* A handshake the server refuses, or that finds the runtime closed.
UpgradeDenied(c) ==
    /\ Unused(c)
    /\ Becomes(c, Deny([conn[c] EXCEPT !.client = "open", !.kind = "upgrade"]))

UpgradeForwarded(c) ==
    /\ Unused(c) /\ ~closed
    /\ conn' = [conn EXCEPT ![c] = Begun(@)]
    /\ sockets' = sockets \cup {c}
    /\ UNCHANGED <<runtimeVars, mainVars>>

\* forwardWebSocket's finally and the server's catch.
ForwardReturns(c) ==
    /\ conn[c].promise \in {"resolved", "rejected"}
    /\ LET t == [conn[c] EXCEPT !.promise = "returned"]
       IN conn' = [conn EXCEPT ![c] =
                    IF @.kind = "request" THEN Report(@)
                    ELSE IF @.promise = "rejected" THEN Deny(t) ELSE t]
    /\ sockets' = sockets \ {c}
    /\ UNCHANGED <<runtimeVars, mainVars>>

GiveUp(t) == IF t.kind = "request" THEN Abandon(t) ELSE Fail(t)

Deadline(c) == conn[c].deadline /\ Becomes(c, GiveUp(conn[c]))

\* The close event of a socket that destroy() was called on.  It aborts a
\* request that is still being relayed.
ClientClosed(c) ==
    /\ conn[c].client = "destroyed"
    /\ LET t == [conn[c] EXCEPT !.client = "closed"]
       IN Becomes(c, IF t.kind = "upgrade" THEN OnClose(conn[c])
                     ELSE IF t.promise = "pending" THEN Abandon(t) ELSE t)

\* The FIN is passed to the peer, or completes a close.
ClientEnds(c) ==
    /\ conn[c].client \in {"open", "ended"} /\ ~conn[c].fin
    /\ LET t == [conn[c] EXCEPT !.fin = TRUE]
       IN Becomes(c, IF t.client = "ended" THEN Destroyed(t) ELSE t)

\* An error of the client's socket, or its end while it is in the HTTP parser.
ClientResets(c) ==
    /\ conn[c].client \in {"http", "open", "ended"}
    /\ Becomes(c, IF conn[c].kind # "upgrade" \/ conn[c].promise = "none"
                  THEN Destroyed(conn[c]) ELSE OnAbort(conn[c]))

RuntimeUpgrades(c) ==
    /\ conn[c].request = "open" /\ conn[c].kind = "upgrade"
    /\ \E valid \in BOOLEAN : Becomes(c, OnUpgrade(conn[c], valid))

RuntimeResponds(c) ==
    /\ conn[c].request = "open"
    /\ Becomes(c, IF conn[c].kind = "request" THEN Respond(conn[c])
                  ELSE OnResponse(conn[c]))

RequestFails(c) ==
    /\ conn[c].request = "open"
    /\ LET t == [conn[c] EXCEPT !.request = "destroyed"]
       IN Becomes(c, IF Settled(t) THEN t ELSE GiveUp(t))

ResponseEnds(c) ==
    /\ conn[c].request = "response"
    /\ Becomes(c, IF conn[c].kind = "request" THEN Complete(conn[c])
                  ELSE OnResponseEnd(conn[c]))

ResponseFails(c) == conn[c].request = "response" /\ Becomes(c, GiveUp(conn[c]))

PeerEnds(c) ==
    conn[c].peer = "open" /\ ~conn[c].eof /\ Becomes(c, OnPeerEnd(conn[c]))

PeerFails(c) == conn[c].peer = "open" /\ Becomes(c, OnPeerError(conn[c]))

\* A close without an error of a socket whose end has not been read.
PeerDrops(c) ==
    conn[c].peer = "open" /\ ~conn[c].eof /\ Becomes(c, OnPeerClose(conn[c]))

PeerCloses(c) ==
    /\ conn[c].peer = "dead" \/ (conn[c].peer = "open" /\ conn[c].eof)
    /\ Becomes(c, OnPeerClose(conn[c]))

-----------------------------------------------------------------------------
Next ==
    \/ CloseContinues \/ Kills \/ RuntimeStarts \/ ReadsFile \/ BecomesReady
    \/ StartFails \/ StartThrows \/ ChildPublishes \/ ChildDies \/ ExitSeen
    \/ Listens \/ ListenFails \/ Signal \/ ShutdownContinues \/ ShutdownEnds
    \/ \E c \in Clients :
        \/ Connects(c) \/ RequestRefused(c) \/ RequestReceived(c) \/ BodyRead(c)
        \/ BodyFails(c) \/ UpgradeDenied(c) \/ UpgradeForwarded(c) \/ ForwardReturns(c)
        \/ Deadline(c) \/ ClientClosed(c) \/ ClientEnds(c) \/ ClientResets(c)
        \/ RuntimeUpgrades(c) \/ RuntimeResponds(c) \/ RequestFails(c)
        \/ ResponseEnds(c) \/ ResponseFails(c)
        \/ PeerEnds(c) \/ PeerFails(c) \/ PeerDrops(c) \/ PeerCloses(c)

\* Timers, continuations, the exit event and close events of the process
\* itself; nothing of clients, nor of what the runtime answers.
Fairness ==
    /\ WF_vars(CloseContinues) /\ WF_vars(Kills) /\ WF_vars(ExitSeen)
    /\ WF_vars(BecomesReady) /\ WF_vars(StartFails) /\ WF_vars(StartThrows)
    /\ WF_vars(Listens) /\ WF_vars(ShutdownContinues) /\ WF_vars(ShutdownEnds)
    /\ \A c \in Clients :
        /\ WF_vars(ForwardReturns(c)) /\ WF_vars(Deadline(c))
        /\ WF_vars(ClientClosed(c)) /\ WF_vars(PeerCloses(c))

Spec == Init /\ [][Next]_vars
FairSpec == Spec /\ Fairness

-----------------------------------------------------------------------------
(* Safety *)

\* A tunnel whose promise has settled holds nothing of the runtime any more, and
\* no timer; nor does the handshake's timer run on in an upgraded session.
SettledHoldsNothing ==
    \A c \in Clients :
        /\ Settled(conn[c]) =>
             conn[c].request \notin {"open", "response"} /\ conn[c].peer # "open"
        /\ conn[c].deadline => ~Settled(conn[c]) /\ conn[c].answered # "upgraded"

\* The gateway has ended its answer and means it to be taken as whole.
FinalEnd(t) == t.client = "ended" \/ (t.client = "http" /\ t.promise = "returned")

\* However the handshake ends, by upgrade, rejection, error, deadline or
\* disconnect, and whoever else answers, the client is sent one head, and it
\* sees a clean end only of what has ended cleanly upstream, or of the gateway's
\* own answer; an abrupt close is shown as one.
CleanEndIsReal ==
    \A c \in Clients :
        /\ conn[c].heads <= 1
        /\ FinalEnd(conn[c]) =>
             \/ conn[c].answered = "no" /\ conn[c].heads = 1
             \/ conn[c].answered = "upgraded" /\ conn[c].eof
             \/ conn[c].answered = "response" /\ conn[c].request = "done"

\* Once the runtime is being closed no tunnel is open or can be opened.
ClosedCutsTunnels ==
    stop # "no" => \A c \in Clients :
        conn[c].kind = "upgrade" /\ conn[c].promise = "pending" => Gone(conn[c])

\* The runtime is reported ready only as long as no exit of it was seen, at
\* whatever point of start() it came.
ReadyMeansAlive == ~closed => child \in {"running", "dead"}

\* When shutdown has ended there is no process, control directory, connection
\* or upstream socket left.
NothingLeft ==
    down = "done" =>
        /\ child = "reaped" /\ ~dir /\ closed /\ sockets = {}
        /\ \A c \in Clients : /\ conn[c].client \in {"none", "closed"}
                              /\ conn[c].request \notin {"open", "response"}
                              /\ conn[c].peer # "open"

-----------------------------------------------------------------------------
(* Liveness *)

\* A handshake is upgraded or over, and a request is over, within its deadline,
\* whatever the runtime and the client do; and once the client has gone its
\* exchange is over on both sides, an upgraded session included.
EveryExchangeEnds ==
    \A c \in Clients :
        /\ conn[c].request = "open" ~> (conn[c].answered = "upgraded" \/ Settled(conn[c]))
        /\ Gone(conn[c]) /\ conn[c].promise # "none"
             ~> conn[c].promise = "returned" /\ conn[c].peer \in {"none", "closed"}

\* Shutdown ends, given that clients do not keep a connection the gateway has
\* ended on its side.
ShutdownTerminates ==
    (\A c \in Clients : []<>(conn[c].client # "ended")) => (down # "no" ~> down = "done")

\* docs/architecture.md:67: when the Rust process exits, Node closes the service
\* and exits with a non-zero status, so that Docker restarts it.
GatewayFollowsRuntime == child = "reaped" ~> down = "done"

=============================================================================
