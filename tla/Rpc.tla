-------------------------------- MODULE Rpc ---------------------------------
(***************************************************************************)
(* CodexRpc (src/src/rpc.mjs): one child process, the JSON-RPC requests    *)
(* pending on it, its start, its failure and its shutdown.                 *)
(*                                                                         *)
(* Requests are the calls of request(), each made once; Initialize is the  *)
(* one that #start makes.  A continuation is allowed to run later than     *)
(* Node would run it.  Lines are framed in RpcFraming.                     *)
(***************************************************************************)
EXTENDS Naturals

CONSTANTS
    Requests,    \* calls of request()
    Initialize,  \* the request that start() makes itself
    None         \* null

ASSUME NamesAssumption ==
    Initialize \notin Requests /\ None \notin Requests \cup {Initialize}

VARIABLES
    started,   \* the public flags
    closed,
    error,     \* #terminalError
    nextId,    \* #nextId
    pending,   \* #pending: the id and the name of each request in the map
    out,       \* how the promise of each request has settled
    wire,      \* what has been written to the child, with its id
    start,     \* #startPromise: how far #start is
    stop,      \* #stopPromise: how far #stopChild is
    closing,   \* how far close() is
    exits,     \* how often 'exit' has been emitted
    child,     \* the process, as far as its events have told
    writable,  \* whether its stdin is
    killed     \* SIGKILL has been sent

link == <<started, closed, error, exits, stop, writable>>
calls == <<nextId, pending, out, wire>>
vars == <<link, calls, start, closing, child, killed>>

-----------------------------------------------------------------------------
All == Requests \cup {Initialize}
Errors == {"process", "io", "protocol", "exit", "closed", "timeout", "remote"}

\* of: the request whose answer settled the promise.
Outcomes == [kind : {"none", "result", "notStarted"} \cup Errors,
             of : All \cup {None}]

\* Type invariant.
TypeOK ==
    /\ started \in BOOLEAN /\ closed \in BOOLEAN
    /\ error \in Errors \cup {None}
    /\ nextId \in Nat \ {0}
    /\ wire \subseteq [id : 1 .. (nextId - 1), req : All]
    /\ pending \subseteq wire
    /\ out \in [All -> Outcomes]
    /\ start \in {"none", "waiting", "stopping", "up", "rejected"}
    /\ stop \in {"none", "term", "kill", "done"}
    /\ closing \in {"no", "waiting", "returned"}
    /\ exits \in Nat
    /\ child \in {"none", "running", "exited", "closed"}
    /\ writable \in BOOLEAN /\ killed \in BOOLEAN

Settled(kind) == [kind |-> kind, of |-> None]

Init ==
    /\ started = FALSE /\ closed = FALSE /\ error = None
    /\ nextId = 1 /\ pending = {} /\ wire = {}
    /\ out = [r \in All |-> Settled("none")]
    /\ start = "none" /\ stop = "none" /\ closing = "no" /\ exits = 0
    /\ child = "none" /\ writable = FALSE /\ killed = FALSE

-----------------------------------------------------------------------------
(* #fail and #stopChild *)

\* Variants: a second failure is handled like the first; the map is not
\* cleared; the promises are not rejected.
FailAgain(e, alive) ==
    /\ closed' = TRUE /\ started' = FALSE /\ error' = e
    /\ out' = [r \in All |->
                 IF \E m \in pending : m.req = r THEN Settled(e) ELSE out[r]]
    /\ pending' = {}
    /\ exits' = exits + 1
    /\ stop' = IF stop = "none" THEN (IF alive THEN "term" ELSE "done")
               ELSE stop
    /\ writable' = FALSE

FailSilently(e, alive) ==
    IF closed THEN UNCHANGED <<link, pending, out>>
    ELSE /\ closed' = TRUE /\ started' = FALSE /\ error' = e
         /\ pending' = {}
         /\ exits' = exits + 1
         /\ stop' = IF alive THEN "term" ELSE "done"
         /\ writable' = FALSE
         /\ UNCHANGED out

FailUnstopped(e, alive) ==
    IF closed THEN UNCHANGED <<link, pending, out>>
    ELSE /\ closed' = TRUE /\ started' = FALSE /\ error' = e
         /\ out' = [r \in All |->
                      IF \E m \in pending : m.req = r THEN Settled(e)
                      ELSE out[r]]
         /\ pending' = {}
         /\ exits' = exits + 1
         /\ stop' = "done"
         /\ writable' = FALSE

\* The first failure is final: it rejects what is pending, emits 'exit', and
\* sends SIGTERM to a child that is alive.
Fail(e, alive) ==
    IF closed THEN UNCHANGED <<link, pending, out>>
    ELSE /\ closed' = TRUE /\ started' = FALSE /\ error' = e
         /\ out' = [r \in All |->
                      IF \E m \in pending : m.req = r THEN Settled(e)
                      ELSE out[r]]
         /\ pending' = {}
         /\ exits' = exits + 1
         /\ stop' = IF alive THEN "term" ELSE "done"
         /\ writable' = FALSE

Alive == child \in {"running", "exited"}

\* Variant: the close event is waited for without a timer.
StopUntimed ==
    /\ stop \in {"term", "kill"} /\ child = "closed"
    /\ stop' = "done"
    /\ UNCHANGED <<started, closed, error, exits, writable, calls, start,
                   closing, child, killed>>

\* The wait for the child's close event is over, or its 300 ms are.
StopContinues ==
    /\ stop \in {"term", "kill"}
    /\ LET kills == stop = "term" /\ child # "closed"
       IN /\ stop' = IF kills THEN "kill" ELSE "done"
          /\ killed' = (killed \/ kills)
    /\ UNCHANGED <<started, closed, error, exits, writable, calls, start,
                   closing, child>>

-----------------------------------------------------------------------------
(* start(), request(), close() *)

\* The id a new request gets.  Variant: the first id that is free.
FreeId == CHOOSE i \in 1 .. nextId : \A m \in pending : m.id # i
FreshId == nextId

\* Variant: what #send throws is not caught.
SendsUncaught(r, canWrite) ==
    /\ nextId' = nextId + 1
    /\ pending' = pending \cup {[id |-> FreshId, req |-> r]}
    /\ wire' = wire \cup {[id |-> FreshId, req |-> r]}
    /\ UNCHANGED out

\* #request, once the connection is known to be usable.
Sends(r, canWrite) ==
    /\ nextId' = nextId + 1
    /\ IF canWrite
       THEN /\ pending' = pending \cup {[id |-> FreshId, req |-> r]}
            /\ wire' = wire \cup {[id |-> FreshId, req |-> r]}
            /\ UNCHANGED out
       ELSE /\ out' = [out EXCEPT ![r] = Settled("closed")]
            /\ UNCHANGED <<pending, wire>>

\* Variant: a closed connection is started all the same.
StartUnchecked ==
    /\ start = "none"
    /\ child' = "running" /\ start' = "waiting" /\ writable' = TRUE
    /\ Sends(Initialize, TRUE)
    /\ UNCHANGED <<started, closed, error, exits, stop, closing, killed>>

StartCalled ==
    /\ start = "none" /\ ~closed
    /\ child' = "running" /\ start' = "waiting" /\ writable' = TRUE
    /\ Sends(Initialize, TRUE)
    /\ UNCHANGED <<started, closed, error, exits, stop, closing, killed>>

StartRefused ==
    /\ start = "none" /\ closed
    /\ start' = "rejected"
    /\ UNCHANGED <<link, calls, closing, child, killed>>

\* After the await: 'initialized' is sent, which throws on a dead link.
StartSucceeds ==
    /\ start = "waiting" /\ out[Initialize].kind = "result"
    /\ ~closed /\ writable
    /\ started' = TRUE /\ start' = "up"
    /\ UNCHANGED <<closed, error, exits, stop, writable, calls, closing, child,
                   killed>>

\* The catch of #start: the connection fails, and its child is waited for.
StartCatches ==
    /\ start = "waiting" /\ out[Initialize].kind # "none"
    /\ out[Initialize].kind = "result" => closed \/ ~writable
    /\ Fail(IF out[Initialize].kind = "result" THEN "closed"
            ELSE out[Initialize].kind, Alive)
    /\ start' = "stopping"
    /\ UNCHANGED <<nextId, wire, closing, child, killed>>

StartRejects ==
    /\ start = "stopping" /\ stop = "done"
    /\ start' = "rejected"
    /\ UNCHANGED <<link, calls, closing, child, killed>>

Unsent(r) == out[r].kind = "none" /\ \A m \in wire : m.req # r

Request(r) ==
    /\ Unsent(r)
    /\ IF ~started \/ closed
       THEN /\ out' = [out EXCEPT ![r] =
                         Settled(IF error = None THEN "notStarted" ELSE error)]
            /\ UNCHANGED <<nextId, pending, wire>>
       ELSE Sends(r, writable)
    /\ UNCHANGED <<link, start, closing, child, killed>>

\* A request's timer.
TimesOut(m) ==
    /\ m \in pending
    /\ pending' = pending \ {m}
    /\ out' = [out EXCEPT ![m.req] = Settled("timeout")]
    /\ UNCHANGED <<link, nextId, wire, start, closing, child, killed>>

CloseCalled ==
    /\ closing = "no" /\ closing' = "waiting"
    /\ Fail("closed", Alive)
    /\ UNCHANGED <<nextId, wire, start, child, killed>>

CloseReturns ==
    /\ closing = "waiting" /\ stop = "done"
    /\ closing' = "returned"
    /\ UNCHANGED <<link, calls, start, child, killed>>

-----------------------------------------------------------------------------
(* The child's events.  It may answer what it was sent late, repeatedly or  *)
(* never, and its output may be read after it has exited.                   *)

\* An answer settles the request that is pending under its id, if any.
Answered(m, kind) ==
    /\ Alive /\ ~closed
    /\ m \in wire
    /\ LET of == {p \in pending : p.id = m.id}
       IN /\ of # {}
          /\ pending' = pending \ of
          /\ out' = [r \in All |->
                       IF \E p \in of : p.req = r
                       THEN [kind |-> kind, of |-> m.req] ELSE out[r]]
    /\ UNCHANGED <<link, nextId, wire, start, closing, child, killed>>

\* An invalid line, a failed stream or write, a process error.
LinkFails(e) ==
    /\ Alive /\ ~closed
    /\ Fail(e, TRUE)
    /\ UNCHANGED <<nextId, wire, start, closing, child, killed>>

\* stdin stops being writable before anything is reported.
PipeBreaks ==
    /\ Alive /\ writable /\ writable' = FALSE
    /\ UNCHANGED <<started, closed, error, exits, stop, calls, start, closing,
                   child, killed>>

ChildExits ==
    /\ child = "running" /\ child' = "exited"
    /\ UNCHANGED <<link, calls, start, closing, killed>>

\* The close event.
ChildCloses ==
    /\ child = "exited" /\ child' = "closed"
    /\ Fail("exit", FALSE)
    /\ UNCHANGED <<nextId, wire, start, closing, killed>>

-----------------------------------------------------------------------------
Starting == StartCalled \/ StartRefused
Continuation == StartSucceeds \/ StartCatches \/ StartRejects \/ CloseReturns

Next ==
    \/ Starting \/ Continuation \/ StopContinues \/ CloseCalled
    \/ \E r \in Requests : Request(r)
    \/ \E m \in pending : TimesOut(m)
    \/ \E m \in wire, kind \in {"result", "remote"} : Answered(m, kind)
    \/ \E e \in {"process", "io", "protocol"} : LinkFails(e)
    \/ PipeBreaks \/ ChildExits \/ ChildCloses

Spec == Init /\ [][Next]_vars

\* Continuations run and timers fire; nothing is assumed of the child.
Fairness ==
    /\ WF_vars(Continuation) /\ WF_vars(StopContinues)
    /\ \A r \in All : WF_vars(\E m \in pending : m.req = r /\ TimesOut(m))

FairSpec == Spec /\ Fairness

-----------------------------------------------------------------------------
(* Safety *)

\* A request is written once, under an id of its own.
IdsUnique ==
    \A m, n \in wire : m.id = n.id \/ m.req = n.req => m = n

\* A request is settled by no answer but its own, although answers may come
\* late, twice or never (lines 113, 221-225).
AnswersMatch ==
    \A r \in All : out[r].kind = "result" => out[r].of = r

\* A request that was written is settled or still in the map, never both and
\* never neither; a closed connection has settled them all (lines 114-126,
\* 239-243).
NoneForgotten ==
    /\ \A m \in wire : out[m.req].kind = "none" <=> m \in pending
    /\ closed => pending = {}

\* 'exit' is emitted once, when the connection closes; part of the inductive
\* invariant behind FirstFailureFinal (line 234).
ExitOnce == exits = IF closed THEN 1 ELSE 0

\* A connection whose start() has resolved is usable or has failed: an invalid
\* line right behind the answer to initialize is not overlooked (lines 92-98).
StartHonest ==
    /\ started => ~closed
    /\ start = "up" => started \/ closed
    /\ start \in {"stopping", "rejected"} => closed

\* A closed connection never keeps a child: shutdown is over only when the
\* child has closed or has been sent SIGKILL (lines 248-265, 278-279).
NoOrphanChild ==
    /\ closed => stop # "none"
    /\ stop = "done" /\ child \in {"running", "exited"} => killed

(* Steps *)

\* A settled request and a closed connection stay as they are: the first
\* failure is the one everyone is told, and 'exit' is not emitted again (lines
\* 234-246).
FirstFailureFinal ==
    [][/\ closed => closed' /\ error' = error /\ exits' = exits
       /\ \A r \in All : out[r].kind # "none" => out'[r] = out[r]]_vars

(* Refinement *)

TheLink ==
    IF closed THEN "closed"
    ELSE IF ~started THEN "starting"
    ELSE IF writable THEN "up" ELSE "broken"

Reply ==
    [r \in Requests |->
        IF out[r].kind = "result" THEN "ok"
        ELSE IF out[r].kind # "none" THEN "error"
        ELSE IF Unsent(r) THEN "none" ELSE "pending"]

Link == INSTANCE RpcLink WITH link <- TheLink, reply <- Reply

\* CodexRpc keeps the promise that CodexBridge relies on: a link that comes up
\* once and ends once, and requests that it settles exactly once.
ImplementsLink == Link!Spec

(* Liveness *)

\* Every request that was made is settled, start() settles and close() returns,
\* whatever the child does.
EveryCallReturns ==
    /\ \A r \in Requests : (\E m \in wire : m.req = r) ~> out[r].kind # "none"
    /\ start # "none" ~> start \in {"up", "rejected"}
    /\ closing = "waiting" ~> closing = "returned"

=============================================================================
