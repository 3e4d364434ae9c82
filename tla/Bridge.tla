------------------------------- MODULE Bridge -------------------------------
(***************************************************************************)
(* CodexBridge (src/src/bridge.mjs): one in-memory session and one HTTP    *)
(* generation at a time, over the JSON-RPC connection to an app-server.    *)
(*                                                                         *)
(* Names.  A request of Requests also names the response id of its         *)
(* segment, the session and thread it creates when it has no               *)
(* previous_response_id, and the turn it starts when it carries a message: *)
(* each is created at most once per request.  A call of Calls names both   *)
(* the app-server's RPC request and the call_id the client is given.       *)
(*                                                                         *)
(* Scheduling.  A timer, an HTTP event or a chunk of child output is a     *)
(* macrotask: it starts only when no promise continuation is ready.  One   *)
(* chunk may hold several JSON lines, handled back to back before any      *)
(* continuation runs.  Macro, Line and Micro are those kinds of step.      *)
(*                                                                         *)
(* The synchronous methods of the class are operators from a bridge state  *)
(* to the next, so that nested calls compose as in the code.               *)
(***************************************************************************)
EXTENDS Naturals, Sequences, Functions

CONSTANTS
    Requests,     \* HTTP requests the clients make
    Calls,        \* tool calls the app-server makes
    Streaming,    \* the requests answered as an event stream (stream: true)
    BufferLimit,  \* events held while no segment is open (4096 in the code)
    MaxItems,     \* bound: text events per turn
    Faults,       \* bound: what may go wrong around the bridge
    None          \* null

ASSUME StreamingAssumption == Streaming \subseteq Requests
ASSUME BoundsAssumption == MaxItems \in Nat /\ BufferLimit \in Nat
ASSUME FaultsAssumption ==
    Faults \subseteq {"early", "pipe", "exit", "close", "gone", "malformed",
                      "rpcTimeout", "timeout", "expire"}
ASSUME NoneAssumption == None \notin Requests \cup Calls

VARIABLES
    bridge,  \* the CodexBridge object and what it has sent (BridgeState)
    task,    \* for each request, its body, respond() and drive() (Task)
    loop,    \* the events drive() has taken out of the buffer to replay
    close,   \* where close() is, and the session whose release it awaits
    burst,   \* more lines of a chunk may follow before continuations run
    app      \* the app-server's turns, their text events and calls

vars == <<bridge, task, loop, close, burst, app>>

-----------------------------------------------------------------------------
OptRequest == Requests \cup {None}
OptCall == Calls \cup {None}

\* Events a segment consumes; "bad" is one that textDelta or completeMessage
\* rejects, "failed" a turn/completed whose status is not "completed".
Events == [kind : {"text", "bad", "completed", "failed"},
           turn : Requests, n : Nat]

\* What answers a call: the client's result, the cancellation written by
\* releaseSession, or a JSON-RPC error.
Answers == [kind : {"result", "cancelled", "error"}, by : OptRequest]

\* A session object (lines 46-50).  thread: its threadId is known.
Session == [thread : BOOLEAN, turnId : OptRequest, last : OptRequest,
            waiting : OptCall, pending : Seq(Calls),
            buffered : Seq(Events), seen : SUBSET Calls]

\* An operation with its segment: the call it offers, and how it settled.
\* segment.finished and operation.settled change in the same handler, so the
\* outcome stands for both.
Operation == [offered : OptCall, outcome : {"none", "ok", "failed", "timeout"}]

BridgeState ==
    [closed : BOOLEAN, busy : BOOLEAN, ttl : BOOLEAN,
     session : OptRequest, operation : OptRequest,
     sess : [Requests -> Session], op : [Requests -> Operation],
     \* sent: answers to calls, text to clients, interrupts, unsubscribes
     answers : [Calls -> Seq(Answers)],
     heard : [Requests -> Seq([n : Nat, by : Requests])],
     interrupted : SUBSET Requests, unsubscribed : SUBSET Requests,
     \* what each session's release awaits, and the connection
     rel : [Requests -> {"none", "interrupt", "unsubscribe", "done"}],
     rpc : {"starting", "up", "broken", "closed"}]

\* reply: the RPC that drive() awaits; late: its turn/start timed out;
\* gone: the abort signal has fired.
Task == [pc : {"unsent", "releasing", "awaiting", "done"},
         drv : {"none", "start", "thread", "turn", "replay", "failed", "done"},
         reply : {"none", "pending", "ok", "noId", "badModel", "error"},
         session : OptRequest, prev : OptRequest, tool : OptCall,
         turn : OptRequest, gone : BOOLEAN, late : BOOLEAN]

\* Type invariant.
TypeOK ==
    /\ bridge \in BridgeState
    /\ task \in [Requests -> Task]
    /\ loop \in Seq(Events)
    /\ close \in [at : {"no", "releasing", "done"}, of : OptRequest]
    /\ burst \in BOOLEAN
    /\ app \in [turn : [Requests -> {"none", "sent", "running", "ended"}],
                items : [Requests -> Nat], asked : [Calls -> OptRequest]]

NewSession ==
    [thread |-> FALSE, turnId |-> None, last |-> None, waiting |-> None,
     pending |-> <<>>, buffered |-> <<>>, seen |-> {}]

Init ==
    /\ \E up \in {"up"} \cup (IF "early" \in Faults THEN {"starting"} ELSE {}) :
         bridge = [closed |-> FALSE, busy |-> FALSE, ttl |-> FALSE,
                   session |-> None, operation |-> None,
                   sess |-> [r \in Requests |-> NewSession],
                   op |-> [r \in Requests |->
                             [offered |-> None, outcome |-> "none"]],
                   answers |-> [c \in Calls |-> <<>>],
                   heard |-> [r \in Requests |-> <<>>],
                   interrupted |-> {}, unsubscribed |-> {},
                   rel |-> [r \in Requests |-> "none"], rpc |-> up]
    /\ task = [r \in Requests |->
                 [pc |-> "unsent", drv |-> "none", reply |-> "none",
                  session |-> None, prev |-> None, tool |-> None,
                  turn |-> None, gone |-> FALSE, late |-> FALSE]]
    /\ loop = <<>>
    /\ close = [at |-> "no", of |-> None]
    /\ burst = FALSE
    /\ app = [turn |-> [r \in Requests |-> "none"],
              items |-> [r \in Requests |-> 0],
              asked |-> [c \in Calls |-> None]]

-----------------------------------------------------------------------------
(* The synchronous methods, as operators on a bridge state b *)

Cur(b) == b.sess[b.session]

\* A segment is open: there is an operation and it has not finished.
Open(b) == b.operation # None /\ b.op[b.operation].outcome = "none"

\* Variant: a session that forgets its queued calls.
HeldWaiting(s) == {s.waiting} \ {None}

\* The calls a session owes an answer.
Held(s) == ({s.waiting} \ {None}) \cup Range(s.pending)

Answer(b, C, kind, r) ==
    [c \in Calls |-> IF c \in C /\ b.rpc = "up"
                     THEN Append(b.answers[c], [kind |-> kind, by |-> r])
                     ELSE b.answers[c]]

\* releaseSession up to its first await; ReleaseNext is the rest.  The object
\* it lets go of is not read again, but for its threadId (line 116).
Release(b) ==
    IF b.session = None THEN [b EXCEPT !.ttl = FALSE]
    ELSE LET s == Cur(b)
             next == IF ~s.thread \/ b.rpc # "up" THEN "done"
                     ELSE IF s.turnId # None THEN "interrupt"
                     ELSE "unsubscribe"
         IN [b EXCEPT
              !.ttl = FALSE,
              !.session = None,
              !.sess[b.session] = [NewSession EXCEPT !.thread = s.thread],
              !.answers = Answer(b, Held(s), "cancelled", None),
              !.rel[b.session] = next,
              !.interrupted = IF next = "interrupt"
                              THEN @ \cup {s.turnId} ELSE @,
              !.unsubscribed = IF next = "unsubscribe"
                               THEN @ \cup {b.session} ELSE @]

\* fail: settle the operation once, drop the session in any case.
Settle(b, outcome) ==
    IF Open(b) THEN [b EXCEPT !.op[b.operation].outcome = outcome] ELSE b

\* Variant: the session is dropped, its operation left alone.
FailUnsettled(b, outcome) == Release(b)

Fail(b, outcome) == Release(Settle(b, outcome))

\* complete, when segment.finish delivers.
Complete(b) ==
    IF Open(b)
    THEN [b EXCEPT !.sess[b.session].last = b.operation,
                   !.op[b.operation].outcome = "ok"]
    ELSE b

\* Whether onEvent delivers: it throws on a destroyed or congested stream,
\* and does nothing when the client did not ask for a stream.
Delivers(b) ==
    IF b.operation \in Streaming THEN {TRUE, FALSE} ELSE {TRUE}

\* flushTool: the next pending call becomes the waiting one (Take), and ends
\* the segment that offers it to the client (Offer).
CanFlush(b) ==
    /\ b.session # None /\ Open(b)
    /\ Cur(b).waiting = None /\ Cur(b).pending # <<>>

\* Variants: the queue is not shifted, or taken from its end.
TakeUnshifted(b) == [b EXCEPT !.sess[b.session].waiting = Head(Cur(b).pending)]
TakeLast(b) ==
    LET p == Cur(b).pending
    IN [b EXCEPT !.sess[b.session].waiting = p[Len(p)],
                 !.sess[b.session].pending = SubSeq(p, 1, Len(p) - 1)]

Take(b) ==
    LET s == Cur(b)
    IN [b EXCEPT !.sess[b.session] =
          [s EXCEPT !.waiting = Head(s.pending), !.pending = Tail(s.pending)]]

Offer(b) ==
    LET t == Take(b)
    IN Complete([t EXCEPT !.op[t.operation].offered = Cur(t).waiting])

\* flushTool as an event handler calls it: its catch calls fail.
Flush(b, ok) ==
    IF ~CanFlush(b) THEN b
    ELSE IF ok THEN Offer(b) ELSE Fail(Take(b), "failed")

\* consumeNotification: whether it throws, and the state it leaves.
Ignores(b, e) ==
    \/ b.session = None \/ ~Open(b)
    \/ e.kind \in {"completed", "failed"} /\ Cur(b).turnId \notin {None, e.turn}

Throws(b, e, ok) ==
    /\ ~Ignores(b, e)
    /\ \/ e.kind \in {"bad", "failed"} \/ ~ok
       \/ e.kind = "completed" /\ Held(Cur(b)) # {}

Consume(b, e, ok) ==
    IF Ignores(b, e) THEN b
    ELSE CASE e.kind = "text" /\ ok ->
                [b EXCEPT !.heard[e.turn] =
                            Append(@, [n |-> e.n, by |-> b.operation])]
           [] e.kind = "completed" /\ Held(Cur(b)) = {} ->
                LET d == [b EXCEPT !.sess[b.session].turnId = None]
                IN IF ok THEN Complete(d) ELSE d
           [] OTHER -> b

-----------------------------------------------------------------------------
(* The event loop *)

Released(x) == x # None => bridge.rel[x] = "done"

MicroReady ==
    \/ \E r \in Requests :
         \/ task[r].drv = "start" /\ bridge.rpc # "starting"
         \/ task[r].drv \in {"thread", "turn"} /\ task[r].reply # "pending"
         \/ task[r].drv \in {"replay", "failed"}
         \/ task[r].pc = "awaiting" /\ bridge.op[r].outcome # "none"
         \/ task[r].pc = "releasing" /\ Released(task[r].session)
    \/ close.at = "releasing" /\ Released(close.of)

\* A timer or an HTTP event.
Macro == ~MicroReady /\ burst' = FALSE

\* A line of child output: the next of the chunk being handled, or the first
\* of a new one.  Handled closes such a step: whether more lines of the chunk
\* may follow matters only while a continuation waits.
Line == bridge.rpc \in {"up", "broken"} /\ (burst \/ ~MicroReady)
Handled == burst' = MicroReady'

\* A continuation; the chunk has been handled, and no replay is under way.
Micro == burst' = FALSE /\ \A r \in Requests : task[r].drv # "replay"

-----------------------------------------------------------------------------
(* respond() *)

Arrives(r) == task[r].pc = "unsent" /\ Macro

\* Variant: any waiting call will do.
ContinuationUnmatched(prev, tool) ==
    LET s == Cur(bridge)
    IN IF prev = None
       THEN bridge.session # None => s.turnId = None /\ Held(s) = {}
       ELSE /\ bridge.session # None /\ s.last = prev
            /\ IF tool # None THEN s.waiting # None
               ELSE s.turnId = None /\ Held(s) = {}

\* checkContinuation: prev is previous_response_id, tool the call_id of a
\* function_call_output.
ContinuationOk(prev, tool) ==
    LET s == Cur(bridge)
    IN IF prev = None
       THEN bridge.session # None => s.turnId = None /\ Held(s) = {}
       ELSE /\ bridge.session # None /\ s.last = prev
            /\ IF tool # None THEN s.waiting = tool
               ELSE s.turnId = None /\ Held(s) = {}

\* 400 of validateRequest, 503, 409 busy or 409 of checkContinuation (a
\* changed configuration included): thrown before anything is touched, so
\* the client may try again.
RespondRejected(r) == Arrives(r) /\ UNCHANGED <<bridge, task, loop, close, app>>

\* Lines 52-69: open the operation; segment.start may throw, and the signal
\* may have fired while the old session was being released.
Begin(r, b, body) ==
    LET o == [b EXCEPT !.operation = r]
    IN /\ \/ /\ ~task[r].gone
             /\ bridge' = o
             /\ task' = [task EXCEPT ![r] =
                           [body EXCEPT !.pc = "awaiting", !.drv = "start"]]
          \/ /\ task[r].gone \/ FALSE \in Delivers(o)
             /\ bridge' = Fail(o, "failed")
             /\ task' = [task EXCEPT ![r] =
                           [body EXCEPT !.pc = "awaiting", !.drv = "done"]]
       /\ UNCHANGED <<loop, close, app>>

\* Variant: busy is not set before the first await.
RespondNewUnmarked(r) ==
    /\ Arrives(r)
    /\ ~bridge.closed /\ ~bridge.busy /\ ContinuationOk(None, None)
    /\ bridge' = Release(bridge)
    /\ task' = [task EXCEPT ![r].pc = "releasing", ![r].turn = r,
                            ![r].session = bridge.session]
    /\ UNCHANGED <<loop, close, app>>

\* Without previous_response_id: release the old session first, and until
\* that is over let the task's session be the old one.
RespondNew(r) ==
    /\ Arrives(r)
    /\ ~bridge.closed /\ ~bridge.busy /\ ContinuationOk(None, None)
    /\ bridge' = Release([bridge EXCEPT !.busy = TRUE])
    /\ task' = [task EXCEPT ![r].pc = "releasing", ![r].turn = r,
                            ![r].session = bridge.session]
    /\ UNCHANGED <<loop, close, app>>

RespondOpens(r) ==
    /\ Micro
    /\ task[r].pc = "releasing" /\ Released(task[r].session)
    /\ Begin(r, [bridge EXCEPT !.session = r, !.sess[r] = NewSession],
                [task[r] EXCEPT !.session = r])

\* A request that continues the session's latest response.
RespondContinue(r, prev, tool) ==
    /\ Arrives(r)
    /\ ~bridge.closed /\ ~bridge.busy
    /\ prev # None /\ ContinuationOk(prev, tool)
    /\ Begin(r, [bridge EXCEPT !.busy = TRUE, !.ttl = FALSE],
                [task[r] EXCEPT !.session = bridge.session, !.prev = prev,
                                !.tool = tool,
                                !.turn = IF tool = None THEN r
                                         ELSE task[prev].turn])

\* The result promise has settled: the finally block.
RespondReturns(r) ==
    /\ Micro
    /\ task[r].pc = "awaiting" /\ bridge.op[r].outcome # "none"
    /\ bridge' = [bridge EXCEPT !.busy = FALSE, !.operation = None,
                                !.ttl = (bridge.session # None) \/ @]
    /\ task' = [task EXCEPT ![r].pc = "done", ![r].gone = FALSE]
    /\ UNCHANGED <<loop, close, app>>

\* The generation timer (line 59).
RequestTimeout(r) ==
    /\ "timeout" \in Faults /\ Macro
    /\ task[r].pc = "awaiting"
    /\ bridge' = Fail(bridge, "timeout")
    /\ UNCHANGED <<task, loop, close, app>>

\* The client goes away: the abort listener exists only once the operation
\* does (line 58); before that the signal is only remembered.
ClientGone(r) ==
    /\ "gone" \in Faults /\ Macro
    /\ task[r].pc \in {"releasing", "awaiting"} /\ ~task[r].gone
    /\ task' = [task EXCEPT ![r].gone = TRUE]
    /\ bridge' = IF task[r].pc = "awaiting" THEN Fail(bridge, "failed")
                 ELSE bridge
    /\ UNCHANGED <<loop, close, app>>

\* The session timer (line 77).
SessionExpires ==
    /\ "expire" \in Faults /\ Macro
    /\ bridge.ttl
    /\ bridge' = Release(bridge)
    /\ UNCHANGED <<task, loop, close, app>>

-----------------------------------------------------------------------------
(* drive(): each await is followed by a test that its session is current *)

Current(r) == bridge.session = task[r].session

Moves(r, step) == task' = [task EXCEPT ![r].drv = step, ![r].reply = "none"]

\* Await rpc.request: sent, or rejected at once when the pipe is down.
Asks(r, step) ==
    task' = [task EXCEPT ![r].drv = step, ![r].reply =
               IF bridge.rpc = "up" THEN "pending" ELSE "error"]

StartsTurn(r) ==
    /\ Asks(r, "turn")
    /\ app' = IF bridge.rpc = "up" THEN [app EXCEPT !.turn[r] = "sent"] ELSE app

\* rpc.start() has resolved, or rejected once the connection is closed.
Started(r) == Micro /\ task[r].drv = "start" /\ bridge.rpc # "starting"

DriveStarts(r) ==
    /\ Started(r)
    /\ \/ bridge.rpc = "closed" /\ Moves(r, "failed")
       \/ bridge.rpc # "closed" /\ ~Current(r) /\ Moves(r, "done")
       \/ /\ bridge.rpc # "closed" /\ Current(r) /\ ~Cur(bridge).thread
          /\ Asks(r, "thread")
    /\ UNCHANGED <<bridge, loop, close, app>>

DriveSendsMessage(r) ==
    /\ Started(r)
    /\ bridge.rpc # "closed" /\ Current(r) /\ Cur(bridge).thread
    /\ task[r].tool = None
    /\ StartsTurn(r)
    /\ UNCHANGED <<bridge, loop, close>>

\* Lines 104-107: the waiting call is taken and answered, and the events
\* that arrived meanwhile leave the buffer; respond throws on a dead pipe.
DriveAnswersTool(r) ==
    /\ Started(r)
    /\ bridge.rpc # "closed" /\ Current(r) /\ Cur(bridge).thread
    /\ task[r].tool # None
    /\ LET s == Cur(bridge)
       IN \/ /\ bridge.rpc = "up"
             /\ bridge' = [bridge EXCEPT
                  !.answers = Answer(bridge, {s.waiting}, "result", r),
                  !.sess[bridge.session] =
                    [s EXCEPT !.waiting = None, !.buffered = <<>>]]
             /\ loop' = s.buffered
             /\ Moves(r, "replay")
          \/ /\ bridge.rpc # "up"
             /\ bridge' = [bridge EXCEPT !.sess[bridge.session].waiting = None]
             /\ UNCHANGED loop
             /\ Moves(r, "failed")
    /\ UNCHANGED <<close, app>>

\* One round of the loop of line 107; nothing else runs until it is over.
DriveReplays(r) ==
    /\ burst' = FALSE
    /\ task[r].drv = "replay" /\ loop # <<>>
    /\ \E ok \in Delivers(bridge) :
         /\ bridge' = Consume(bridge, Head(loop), ok)
         /\ IF Throws(bridge, Head(loop), ok)
            THEN Moves(r, "failed") /\ loop' = <<>>
            ELSE loop' = Tail(loop) /\ UNCHANGED task
    /\ UNCHANGED <<close, app>>

\* Line 108: flushTool, which may throw.
DriveFlushes(r) ==
    /\ burst' = FALSE
    /\ task[r].drv = "replay" /\ loop = <<>>
    /\ \/ /\ bridge' = Flush(bridge, TRUE)
          /\ Moves(r, "done")
       \/ /\ CanFlush(bridge) /\ FALSE \in Delivers(bridge)
          /\ bridge' = Take(bridge)
          /\ Moves(r, "failed")
    /\ UNCHANGED <<loop, close, app>>

\* thread/start or turn/start has resolved with the given kind of result.
Resolved(r, step, replies) ==
    Micro /\ task[r].drv = step /\ task[r].reply \in replies

\* thread/start came too late: unsubscribe the thread nobody will use.
ThreadTooLate(r) ==
    /\ Resolved(r, "thread", {"ok", "badModel", "noId"}) /\ ~Current(r)
    /\ bridge' = IF task[r].reply # "noId" /\ bridge.rpc = "up"
                 THEN [bridge EXCEPT !.unsubscribed = @ \cup {task[r].session}]
                 ELSE bridge
    /\ Moves(r, "done")
    /\ UNCHANGED <<loop, close, app>>

\* Only a request that opened its session gets here, and it carries a
\* message: turn/start is next, unless another model was selected.
ThreadArrives(r) ==
    /\ Resolved(r, "thread", {"ok", "badModel"}) /\ Current(r)
    /\ bridge' = [bridge EXCEPT !.sess[bridge.session].thread = TRUE]
    /\ IF task[r].reply = "ok" THEN StartsTurn(r)
       ELSE Moves(r, "failed") /\ UNCHANGED app
    /\ UNCHANGED <<loop, close>>

\* Variant: the late turn is left alone.
TurnForgotten(r) ==
    /\ Resolved(r, "turn", {"ok", "noId"}) /\ ~Current(r)
    /\ Moves(r, "done")
    /\ UNCHANGED <<bridge, loop, close, app>>

\* turn/start came too late: interrupt the turn nobody waits for.
TurnTooLate(r) ==
    /\ Resolved(r, "turn", {"ok", "noId"}) /\ ~Current(r)
    /\ bridge' = IF task[r].reply = "ok" /\ bridge.rpc = "up"
                 THEN [bridge EXCEPT !.interrupted = @ \cup {r}] ELSE bridge
    /\ Moves(r, "done")
    /\ UNCHANGED <<loop, close, app>>

\* Variant: the acknowledgement is recorded even after the segment is over.
TurnArrivesAlways(r) ==
    /\ Resolved(r, "turn", {"ok"}) /\ Current(r)
    /\ bridge' = IF Cur(bridge).turnId = None
                 THEN [bridge EXCEPT !.sess[bridge.session].turnId = r]
                 ELSE bridge
    /\ Moves(r, "done")
    /\ UNCHANGED <<loop, close, app>>

\* The turn is recorded unless this operation is already over.
TurnArrives(r) ==
    /\ Resolved(r, "turn", {"ok"}) /\ Current(r)
    /\ bridge' = IF /\ bridge.operation = r /\ Open(bridge)
                    /\ Cur(bridge).turnId = None
                 THEN [bridge EXCEPT !.sess[bridge.session].turnId = r]
                 ELSE bridge
    /\ Moves(r, "done")
    /\ UNCHANGED <<loop, close, app>>

\* An RPC rejected, or without the id that was asked for.
DriveRefused(r) ==
    /\ \/ Resolved(r, "thread", {"error"})
       \/ Resolved(r, "turn", {"error"})
       \/ Resolved(r, "thread", {"noId"}) /\ Current(r)
       \/ Resolved(r, "turn", {"noId"}) /\ Current(r)
    /\ Moves(r, IF /\ task[r].drv = "turn" /\ task[r].reply = "noId"
                   /\ ~(bridge.operation = r /\ Open(bridge))
                THEN "done" ELSE "failed")
    /\ UNCHANGED <<bridge, loop, close, app>>

\* Variant: without the test that the operation is its own.
DriveCatchesAny(r) ==
    /\ Micro
    /\ task[r].drv = "failed"
    /\ bridge' = IF Open(bridge) THEN Fail(bridge, "failed") ELSE bridge
    /\ Moves(r, "done")
    /\ UNCHANGED <<loop, close, app>>

\* The catch of line 65: only the operation this drive belongs to fails.
DriveCatches(r) ==
    /\ Micro
    /\ task[r].drv = "failed"
    /\ bridge' = IF bridge.operation = r /\ Open(bridge)
                 THEN Fail(bridge, "failed") ELSE bridge
    /\ Moves(r, "done")
    /\ UNCHANGED <<loop, close, app>>

\* The rpc layer's request timer; an answer that comes later is dropped.
RpcTimeout(r) ==
    /\ "rpcTimeout" \in Faults /\ Macro
    /\ task[r].reply = "pending"
    /\ task' = [task EXCEPT ![r].reply = "error",
                            ![r].late = task[r].drv = "turn"]
    /\ UNCHANGED <<bridge, loop, close, app>>

\* Variant: an interrupted session's thread is not unsubscribed.
ReleaseSkips(x) ==
    /\ bridge.rel[x] \in {"interrupt", "unsubscribe"}
    /\ bridge' = [bridge EXCEPT !.rel[x] = "done"]
    /\ UNCHANGED <<task, loop, close, app>>

\* releaseSession after turn/interrupt or thread/unsubscribe has been
\* answered (with whatever result), refused, or has timed out.
ReleaseNext(x) ==
    /\ bridge.rel[x] \in {"interrupt", "unsubscribe"}
    /\ LET more == bridge.rel[x] = "interrupt" /\ bridge.rpc = "up"
       IN bridge' = [bridge EXCEPT
            !.rel[x] = IF more THEN "unsubscribe" ELSE "done",
            !.unsubscribed = IF more THEN @ \cup {x} ELSE @]
    /\ UNCHANGED <<task, loop, close, app>>

ReleaseAnswered(x) == Line /\ ReleaseNext(x) /\ Handled
ReleaseTimesOut(x) == Macro /\ ReleaseNext(x)

-----------------------------------------------------------------------------
(* The connection, and close() *)

RpcStarted ==
    /\ bridge.rpc = "starting" /\ Macro
    /\ bridge' = [bridge EXCEPT !.rpc = "up"]
    /\ UNCHANGED <<task, loop, close, app>>

\* The child's stdin is no longer writable, and its exit not yet reported.
PipeBreaks ==
    /\ "pipe" \in Faults /\ Macro
    /\ bridge.rpc = "up"
    /\ bridge' = [bridge EXCEPT !.rpc = "broken"]
    /\ UNCHANGED <<task, loop, close, app>>

\* CodexRpc's exit: pending requests are rejected, then the exit listener
\* marks the bridge closed and fails the operation.
Exits(b) ==
    /\ bridge' = Fail([b EXCEPT !.rpc = "closed", !.closed = TRUE,
                        !.rel = [x \in Requests |->
                                   IF @[x] = "none" THEN "none" ELSE "done"]],
                      "failed")
    /\ task' = [r \in Requests |->
                  IF task[r].reply = "pending"
                  THEN [task[r] EXCEPT !.reply = "error"] ELSE task[r]]

\* Reported by the child's close event, or from within a malformed line.
RpcExits ==
    /\ "exit" \in Faults \/ bridge.rpc = "starting"
    /\ bridge.rpc # "closed" /\ (Line \/ ~MicroReady) /\ burst' = FALSE
    /\ Exits(bridge)
    /\ UNCHANGED <<loop, close, app>>

CloseBegins ==
    /\ "close" \in Faults /\ Macro
    /\ close.at = "no"
    /\ LET b == IF Open(bridge) THEN Fail(bridge, "failed") ELSE bridge
       IN /\ bridge' = Release([b EXCEPT !.closed = TRUE])
          /\ close' = [at |-> "releasing", of |-> b.session]
    /\ UNCHANGED <<task, loop, app>>

CloseEnds ==
    /\ Micro
    /\ close.at = "releasing" /\ Released(close.of)
    /\ close' = [close EXCEPT !.at = "done"]
    /\ IF bridge.rpc = "closed" THEN UNCHANGED <<bridge, task>>
       ELSE Exits(bridge)
    /\ UNCHANGED <<loop, app>>

-----------------------------------------------------------------------------
(* The app-server's lines and their handlers.  The app-server is external:  *)
(* it starts the turns it is asked for, and a turn's items and calls come   *)
(* between its start and its end.                                           *)

\* The thread a line names is the current session's.
Ours(t) ==
    bridge.session # None /\ task[t].session = bridge.session /\ Cur(bridge).thread

\* thread/start or turn/start is answered; a refused turn never runs.
RpcReply(r, result) ==
    /\ Line
    /\ task[r].reply = "pending"
    /\ result \in {"noId", "badModel"} => "malformed" \in Faults
    /\ task' = [task EXCEPT ![r].reply = result]
    /\ IF task[r].drv = "turn" /\ result # "ok"
       THEN /\ result # "badModel" /\ app.turn[r] = "sent"
            /\ app' = [app EXCEPT !.turn[r] = "ended"]
       ELSE UNCHANGED app
    /\ UNCHANGED <<bridge, loop, close>>
    /\ Handled

\* A turn begins, with or without a turn/started notification.
TurnBegins(t, announced) ==
    /\ Line
    /\ app.turn[t] = "sent"
    /\ app' = [app EXCEPT !.turn[t] = "running"]
    /\ bridge' = IF announced /\ Ours(t)
                 THEN [bridge EXCEPT !.sess[bridge.session].turnId = t]
                 ELSE bridge
    /\ UNCHANGED <<task, loop, close>>
    /\ Handled

\* Variant: an event that finds no open segment is dropped.
DeliverDropping(e, ok) ==
    LET consumed == Consume(bridge, e, ok)
    IN IF Open(bridge) /\ Throws(bridge, e, ok) THEN Fail(consumed, "failed")
       ELSE consumed

\* The end of onNotification: hold the event while no segment is open,
\* otherwise consume it; what that throws fails the session.
Deliver(e, ok) ==
    LET held == [bridge EXCEPT !.sess[bridge.session].buffered = Append(@, e)]
        consumed == Consume(bridge, e, ok)
    IN IF Open(bridge)
       THEN IF Throws(bridge, e, ok) THEN Fail(consumed, "failed") ELSE consumed
       ELSE IF Len(Cur(held).buffered) > BufferLimit
            THEN Fail(held, "failed") ELSE held

\* An agent-message event names its turn; turn/completed is filtered later.
ItemEvent(t, kind) ==
    /\ Line
    /\ kind = "bad" => "malformed" \in Faults
    /\ app.turn[t] = "running" /\ app.items[t] < MaxItems
    /\ app' = [app EXCEPT !.items[t] = @ + 1]
    /\ \E ok \in Delivers(bridge) :
         bridge' = IF Ours(t) /\ Cur(bridge).turnId \in {None, t}
                   THEN Deliver([kind |-> kind, turn |-> t,
                                 n |-> app.items[t] + 1], ok)
                   ELSE bridge
    /\ UNCHANGED <<task, loop, close>>
    /\ Handled

TurnEnds(t, kind) ==
    /\ Line
    /\ app.turn[t] = "running"
    /\ app' = [app EXCEPT !.turn[t] = "ended"]
    /\ \E ok \in Delivers(bridge) :
         bridge' = IF Ours(t)
                   THEN Deliver([kind |-> kind, turn |-> t, n |-> 0], ok)
                   ELSE bridge
    /\ UNCHANGED <<task, loop, close>>
    /\ Handled

\* A final error notification fails the session whatever turn it names, an
\* item of a blocked type only if it belongs to the session's turn.
FatalNotice(t, blocked) ==
    /\ "malformed" \in Faults /\ Line
    /\ app.turn[t] = "running"
    /\ Ours(t) /\ (blocked => Cur(bridge).turnId \in {None, t})
    /\ bridge' = Fail(bridge, "failed")
    /\ UNCHANGED <<task, loop, close, app>>
    /\ Handled

\* The JSON-RPC error that refuses call c; a repeated call id comes with an
\* RPC id of its own, which Calls does not name.
Refuse(c) ==
    IF app.asked[c] = None
    THEN [bridge EXCEPT !.answers = Answer(bridge, {c}, "error", None)]
    ELSE bridge

\* consumeServerRequest: another thread's call is refused; a malformed,
\* unsupported, repeated or foreign-turn call is refused and fails the
\* session; any other is queued, and offered if a segment is open.
ServerRequest(c, t, wellFormed, ok) ==
    LET s == Cur(bridge)
    IN IF ~Ours(t)
       THEN IF bridge.rpc = "up" THEN Refuse(c) ELSE Fail(bridge, "failed")
       ELSE IF ~wellFormed \/ c \in s.seen \/ s.turnId \notin {None, t}
       THEN Fail(Refuse(c), "failed")
       ELSE Flush([bridge EXCEPT !.sess[bridge.session] =
                     [s EXCEPT !.turnId = t, !.seen = s.seen \cup {c},
                               !.pending = Append(s.pending, c)]], ok)

ToolCall(c, t, wellFormed) ==
    /\ Line
    /\ wellFormed \/ "malformed" \in Faults
    /\ app.turn[t] = "running" /\ app.asked[c] = None
    /\ app' = [app EXCEPT !.asked[c] = t]
    /\ \E ok \in Delivers(bridge) :
         bridge' = ServerRequest(c, t, wellFormed, ok)
    /\ UNCHANGED <<task, loop, close>>
    /\ Handled

\* The app-server repeats a call id.
ToolCallRepeated(c) ==
    /\ "malformed" \in Faults /\ Line
    /\ app.asked[c] # None /\ app.turn[app.asked[c]] = "running"
    /\ \E ok \in Delivers(bridge) :
         bridge' = ServerRequest(c, app.asked[c], TRUE, ok)
    /\ UNCHANGED <<task, loop, close, app>>
    /\ Handled

-----------------------------------------------------------------------------
RespondStep(r) ==
    \/ RespondRejected(r) \/ RespondNew(r)
    \/ \E prev \in OptRequest, tool \in OptCall : RespondContinue(r, prev, tool)
    \/ RequestTimeout(r) \/ ClientGone(r) \/ RpcTimeout(r)
    \/ ReleaseAnswered(r) \/ ReleaseTimesOut(r)

\* The continuations that a request leaves behind.
Continues(r) ==
    \/ RespondOpens(r) \/ RespondReturns(r)
    \/ DriveStarts(r) \/ DriveSendsMessage(r) \/ DriveAnswersTool(r)
    \/ DriveReplays(r) \/ DriveFlushes(r)
    \/ ThreadTooLate(r) \/ ThreadArrives(r)
    \/ TurnTooLate(r) \/ TurnArrives(r)
    \/ DriveRefused(r) \/ DriveCatches(r)

AppServerStep(r) ==
    \/ \E result \in {"ok", "noId", "badModel", "error"} : RpcReply(r, result)
    \/ \E announced \in BOOLEAN : TurnBegins(r, announced)
    \/ \E kind \in {"text", "bad"} : ItemEvent(r, kind)
    \/ \E kind \in {"completed", "failed"} : TurnEnds(r, kind)
    \/ \E blocked \in BOOLEAN : FatalNotice(r, blocked)
    \/ \E c \in Calls, wellFormed \in BOOLEAN : ToolCall(c, r, wellFormed)

Next ==
    \/ \E r \in Requests : RespondStep(r) \/ Continues(r) \/ AppServerStep(r)
    \/ \E c \in Calls : ToolCallRepeated(c)
    \/ SessionExpires \/ RpcStarted \/ PipeBreaks \/ RpcExits
    \/ CloseBegins \/ CloseEnds

Spec == Init /\ [][Next]_vars

\* What Node and the program's timers guarantee: ready continuations run,
\* and every armed timer (generation, RPC, release, session TTL) fires unless
\* it is cleared.  Nothing is assumed of the app-server or of the clients.
Fairness ==
    /\ \A r \in Requests :
         /\ WF_vars(Continues(r)) /\ WF_vars(RequestTimeout(r))
         /\ WF_vars(RpcTimeout(r)) /\ WF_vars(ReleaseTimesOut(r))
    /\ WF_vars(SessionExpires) /\ WF_vars(CloseEnds)

FairSpec == Spec /\ Fairness

-----------------------------------------------------------------------------
(* Safety *)

Idle == bridge.session # None /\ ~bridge.busy

\* Every tool call of the app-server gets at most one answer, whatever
\* mixture of results, cancellations, repeats and exits happens (lines 106,
\* 153, 161, 262).
CallAnsweredOnce == \A c \in Calls : Len(bridge.answers[c]) <= 1

\* A call the app-server made is either answered or still held by the current
\* session: parallel calls are queued, never dropped (docs/design.md "并行到达
\* 的调用排队，不能丢弃"; lines 167-180, 261).  A dead pipe can carry no answer.
NoCallDropped ==
    \A c \in Calls :
      app.asked[c] # None /\ bridge.answers[c] = <<>> /\ bridge.rpc = "up" =>
        /\ bridge.session # None
        /\ Cur(bridge).waiting = c \/ c \in Range(Cur(bridge).pending)

\* A call gets a client's result only from a request that continued the very
\* response that offered that call (lines 132, 139, 104-106).
ResultFromItsOffer ==
    \A c \in Calls : \A i \in DOMAIN bridge.answers[c] :
      LET a == bridge.answers[c][i]
      IN a.kind = "result" =>
           /\ task[a.by].tool = c /\ task[a.by].prev # None
           /\ bridge.op[task[a.by].prev] = [offered |-> c, outcome |-> "ok"]

\* What the clients are shown of a turn is what the app-server sent, in its
\* order, without gaps, and only in responses of that turn, across any number
\* of tool calls and buffered events; as long as a session lives and no delivery
\* has failed, what has not been shown is in the buffer, or in the hands of the
\* replay (lines 103-108, 196-207).
StreamInOrder ==
    \A t \in Requests :
      /\ \A i \in DOMAIN bridge.heard[t] :
           /\ bridge.heard[t][i].n = i
           /\ task[bridge.heard[t][i].by].turn = t
      /\ /\ bridge.session # None /\ task[t].session = bridge.session
         /\ \A r \in Requests : task[r].drv # "failed"
         => LET kept == loop \o Cur(bridge).buffered
                at == {i \in DOMAIN kept : kept[i].turn = t /\ kept[i].n > 0}
            IN {bridge.heard[t][i].n : i \in DOMAIN bridge.heard[t]}
                 \cup {kept[i].n : i \in at} = 1 .. app.items[t]

\* An idle session can be resumed: either it waits for one call, which its
\* latest response offered, or nothing is outstanding and a message is
\* accepted; a late acknowledgement never brings a finished turn back (lines
\* 119-122, 177, 231).  Its timer runs exactly while it is idle, so that an idle
\* session always expires and an active one never does (lines 38, 76-79, 257).
IdleResumable ==
    /\ bridge.ttl <=> Idle
    /\ Idle =>
         LET s == Cur(bridge)
         IN /\ s.last # None
            /\ IF s.waiting # None THEN bridge.op[s.last].offered = s.waiting
               ELSE s.turnId = None /\ s.pending = <<>>

\* One generation at a time: the operation belongs to the only respond() in
\* progress, and busy says so (lines 34, 37, 74).  When the last one is over a
\* closed bridge keeps no session, although a request caught in the await of
\* line 45 may still have opened one (lines 21-24, 270-275).
SingleFlight ==
    LET running == {r \in Requests : task[r].pc \in {"releasing", "awaiting"}}
    IN /\ bridge.busy <=> running # {}
       /\ bridge.closed /\ running = {} => bridge.session = None
       /\ \A q, r \in running : q = r
       /\ bridge.operation # None <=> \E r \in running : task[r].pc = "awaiting"
       /\ bridge.operation # None => bridge.operation \in running

\* Once the drive of a request is over, a turn it started for a session that
\* is gone has been interrupted, unless the turn/start RPC itself timed out; and
\* no turn is interrupted and no thread unsubscribed while its session is the
\* current one (lines 95-97, 114-117, 264-267).
NoOrphanTurn ==
    /\ \A t \in Requests :
         /\ task[t].drv = "done" /\ app.turn[t] = "running" /\ ~task[t].late
         /\ task[t].session # bridge.session /\ bridge.rpc = "up"
         => t \in bridge.interrupted
    /\ bridge.session \notin bridge.unsubscribed
    /\ bridge.session # None =>
         \A t \in bridge.interrupted : task[t].session # bridge.session

\* test/http.test.mjs:228: "A timed-out official turn must be interrupted."
TimedOutTurnInterrupted ==
    \A t \in Requests :
      /\ task[t].drv = "done" /\ app.turn[t] = "running" /\ bridge.rpc = "up"
      /\ bridge.op[t].outcome = "timeout"
      => t \in bridge.interrupted

(* The parts of the inductive invariant behind CallAnsweredOnce *)

\* The requests whose operation has been opened: their session is fixed.
Opened == {r \in Requests : task[r].pc \in {"awaiting", "done"}}

\* Sessions, drives and turns belong to opened requests, and a turn has been
\* sent only on the thread of its session.
OpenedFirst ==
    /\ bridge.session \in Opened \cup {None}
    /\ \A r \in Opened : task[r].session \in Opened
    /\ \A r \in Requests : task[r].drv # "none" => r \in Opened
    /\ \A t \in Requests : app.turn[t] # "none" =>
         t \in Opened /\ bridge.sess[task[t].session].thread

\* The session knows every call of its turns, so that it recognises a repeat.
CallsSeen ==
    \A c \in Calls :
      LET t == app.asked[c]
      IN t # None =>
           /\ app.turn[t] # "none"
           /\ bridge.session = task[t].session => c \in Cur(bridge).seen

\* What a session s holds is unanswered, and held in one place only.
HoldsOnce(s, asked, answers) ==
    /\ Held(s) \subseteq s.seen
    /\ \A c \in s.seen : asked[c] # None
    /\ \A c \in Held(s) : answers[c] = <<>>
    /\ s.waiting \notin Range(s.pending)
    /\ \A i, j \in DOMAIN s.pending : s.pending[i] = s.pending[j] => i = j

CallsOK(b, asked) ==
    /\ \A c \in Calls : /\ Len(b.answers[c]) <= 1
                        /\ asked[c] = None => b.answers[c] = <<>>
    /\ b.session # None => HoldsOnce(Cur(b), asked, b.answers)

\* A call the app-server has not made has no answer; one that it made is known
\* to its session, and waits there, once, until it gets its only answer.
CallInv == OpenedFirst /\ CallsSeen /\ CallsOK(bridge, app.asked)

(* Steps *)

\* A failed drive settles no operation but its own and drops no session but
\* its own: a late RPC error of an earlier segment is ignored (line 66).
FailureStaysHome ==
    [][\A r \in Requests :
         task[r].drv = "failed" /\ task'[r].drv = "done" =>
           /\ \A q \in Requests \ {r} : bridge'.op[q] = bridge.op[q]
           /\ bridge'.session \in {bridge.session, None}
           /\ bridge.operation # r => bridge'.session = bridge.session]_vars

(* Liveness *)

\* Every accepted request is answered, whatever the app-server does.
EverySettles ==
    \A r \in Requests : task[r].pc \in {"releasing", "awaiting"} ~> task[r].pc = "done"

\* The app-server is let go: no call waits forever, its client answers or the
\* session is released, and the thread of a session that is gone is eventually
\* unsubscribed.
NothingHeldForever ==
    /\ \A c \in Calls :
         app.asked[c] # None ~> bridge.answers[c] # <<>> \/ bridge.rpc # "up"
    /\ \A x \in Requests :
         bridge.sess[x].thread /\ bridge.session # x ~>
           x \in bridge.unsubscribed \/ bridge.rpc # "up"

=============================================================================
