# Codex Official Bridge: TLA+ models, checks and proofs

This directory holds a verification development of the repository beside it.
File names such as `bridge.mjs:264` are `src/bridge.mjs` of the repository
unless a directory is given.

    tlc -config RpcCalls.cfg Rpc.tla          model-check one run
    tlapm BridgeProofs.tla                    check the proofs of a module

## 1. The system

The repository is a local gateway between a desktop client that speaks the
OpenAI Responses HTTP interface and an official Codex program that owns the
account. It has two modes. In *legacy* mode a Node process drives
`codex app-server` over JSON-RPC on stdio and turns one in-memory thread into a
chain of HTTP responses. In *native* mode the same HTTP server relays bytes, and
WebSocket sessions, to a Rust runtime it spawns. A set of scripts captures both
routes' traffic for comparison.

| Component | State it keeps | Operations | Talks to |
|---|---|---|---|
| `CodexBridge` (`bridge.mjs`) | `session` (thread id, turn id, last response, waiting and pending calls, buffered events, seen call ids, last error), `operation`, `busy`, `closed`, session timer | `respond`, `drive`, `onNotification`, `onServerRequest`, `flushTool`, `complete`, `fail`, `releaseSession`, `close` | HTTP server (call, abort signal, event callback), `CodexRpc` (calls, three events) |
| `CodexRpc` (`rpc.mjs`) | child, pending calls with timers, id counter, line buffer, `started`, `closed`, terminal error, the promises of start and stop | `start`, `request`, `respond`, `#onData`/`#onLine`, `#fail`, `#stopChild`, `close` | the child process |
| `ResponseSegment` (`protocol.mjs`) | output items, done items, sequence number, `finished` | `start`, `textDelta`, `completeMessage`, `toolCall`, `finish`, `fail` | event callback |
| HTTP server (`server.mjs`) | per request: abort controller, streaming flag, heartbeat | request and upgrade handlers | bridge or native runtime |
| `NativeRuntime` (`native-runtime.mjs`) | child, `closed`, port, token, control directory, open sockets | `start` (polls a control file), `forward`, `forwardWebSocket`, `close` | Rust runtime |
| WebSocket tunnel (`native-websocket.mjs`) | `settled`, `responseStarted`, `upgraded`, deadline | handshake events, `fail`, `onAbort` | client socket, upstream request and socket |
| Gateway process (`main.mjs`) | `shuttingDown`, server, bridge | start, `shutdown` | all of the above |
| Rust forwarding (`native-runtime/src/main.rs`) | recovery state of a request | `forward`, `send_upstream` | official service |
| Rust relay (`native-runtime/src/websocket.rs`) | two pumps, how they ended | handshake loop, `relay` | runtime's client and official service |
| Remote capture (`remote_capture.sh`) | phase, step and marker files, active run, sidecar identities | start, rollback, stop, collect | docker compose, proxies |
| Capture controller (`capturectl.py`) | state file, patches and backups | start, stop, restore | launchers, remote capture |
| Capture recording (`capture_addon.py`, `capture_vault.py`) | one writer under a lock: record number, latched failure | flow hooks, write, finish | proxy, disk |
| Desktop image server (`scripts/desktop-image-mcp.mjs`) | unfinished line, `active` requests, reserved output files | `initialize`, tool calls, cancellation, end of input | MCP client, gateway, disk |
| Example client (`examples/tool-client.mjs`) | event buffer, completed response | `request`, `readSse` | gateway |

Build, login and verification scripts, the Windows client configuration and the container
files are one-shot commands or declarations.

Interaction in legacy mode: an HTTP request calls `respond`, which installs an
operation and starts `drive` *without awaiting it*; `drive` awaits RPCs; the
child's notifications and tool calls arrive as events and act on whatever session
and operation are current; timers, the abort signal, `exit` and `close` all end
up in `fail`, which settles the operation and releases the session; and
`releaseSession` awaits two more RPCs after it has let go of the session.

### What is hard

* Everything above runs on one event loop, so the races are those of *awaits*:
  a session or operation read before an await may be another one, or none,
  after it (`bridge.mjs:45, 66, 85, 95, 114, 119`).
* One chunk of child output may hold several lines; they are all handled before
  the continuation of the first one runs (`rpc.mjs:162-175`), so a turn can end
  before the code that awaited its start resumes.
* Several actors want to end the same thing: timers, answers, disconnects,
  process exit, shutdown (`bridge.mjs:246-254`, `rpc.mjs:115-126, 233-246`).
* Calls of the model outlive the HTTP request that shows them, and the app-server
  waits for an answer to each (`bridge.mjs:165-180, 256-267`).
* Late and duplicate answers, a child that ignores signals, a client that
  stops reading.
* A paid request must be sent at most once, and have a place for its result before
  it is sent; calls and whole processes share one output directory
  (`scripts/desktop-image-mcp.mjs:131-156`).
* A capture spans two machines and four files that a killed command or script leaves as
  they were; what is on disk is all that the next command knows
  (`remote_capture.sh:153-240`, `capturectl.py:116-189`).

`PROJECT.json` lists these hazards at their lines, with the properties that
would catch each going wrong. Two have none: signals before the handlers exist
(`main.mjs:44`), and the close handshake of the Rust relay (`websocket.rs:222`).

### What makes each component correct

* *CodexBridge*: one generation at a time; a request has one outcome and always
  gets it; a tool call of the app-server is shown to one response, answered
  exactly once and never dropped; text is shown in order and not lost between
  segments; a session that is given up has its turn interrupted, its calls
  cancelled and its thread unsubscribed; what an old session's RPC brings never
  touches the new session; an idle session can be continued.
* *CodexRpc*: a call is settled once, by its own answer, its timer or the
  failure of the connection; the first failure is final and announced once; the
  child does not outlive the connection; how output is cut into chunks makes no
  difference.
* *ResponseSegment*: sequence numbers and item events form the Responses
  protocol; one terminal event, even when the callback throws.
* *NativeRuntime, tunnel, process*: ready only with a live child; at most one
  response head per client socket; after shutdown no socket and no child.
* *Rust runtime*: a request is sent again only after a 401 with recovered
  credentials; the relay ends both legs, within the close deadline.
* *Remote capture*: the bridge is never routed through a proxy that does not run; what
  a run has changed, a stop of that run can find.
* *Capture controller*: a run that is called stopped has left nothing behind, unless the
  stop has overtaken the run's own start (section 5); a failed or interrupted start can be
  stopped later.
* *Image server*: one submission per call, to a file that the call owns; what the client
  is told is so; a cancellation reaches the one call that has the id; no empty or cut
  images stay behind.
* *Example client*: it has a result exactly if the response was completed.

## 2. The modules

| Module | Models | Lines of code |
|---|---|---|
| `Bridge` | `CodexBridge`, with the app-server, clients and RPC link as its environment | `bridge.mjs`, parts of `rpc.mjs`, `protocol.mjs`, `server.mjs` |
| `ToolBroker` | abstract: calls are offered one at a time, oldest first, and each has one fate | |
| `BridgeBroker` | what `Bridge` looks like as a `ToolBroker`: the refinement mapping | |
| `BridgeProofs` | theorems about `Bridge`: types, each call in one place, one generation at a time, failures stay with their request | |
| `BridgeTurnProofs` | idle sessions, calls not dropped, results, turns, text in order | |
| `BridgeBrokerProofs` | `Bridge` implements `ToolBroker` | |
| `MCBridge` | symmetry for TLC | |
| `Rpc` | `CodexRpc`: calls, handshake, failure, stopping the child | `rpc.mjs` |
| `RpcLink` | abstract: what a user of `CodexRpc` may rely on | |
| `RpcProofs` | theorems about `Rpc`, refinement of `RpcLink` | |
| `RpcFraming` | `#onData`, `#append`, `#onLine`'s head | `rpc.mjs:162-198` |
| `LineReaders` | `RpcFraming` and the two other places that cut input into lines, fed the same chunks | `examples/tool-client.mjs`, `desktop-image-mcp.mjs` |
| `Segment` | `ResponseSegment` and the server's event callback, for one streamed response | `protocol.mjs:126-211`, `server.mjs:57-76` |
| `StreamClient` | the example client at the other end of the stream of `Segment` | `examples/tool-client.mjs` |
| `StreamProofs` | theorems about `Segment` and `StreamClient`, and about `RpcFraming` and `LineReaders` | |
| `MCStreams` | `StreamClient` and `LineReaders` in one run of TLC | |
| `Tunnel` | `tunnelWebSocket`: the record of one connection, its listeners as operators | `native-websocket.mjs`, `deny` of `server.mjs` |
| `RawForward` | `forwardRawRequest` on the same record | `native-runtime.mjs:19-56`, `server.mjs:34-39` |
| `Gateway` | native mode: `NativeRuntime`, `main`, the server's handlers, with clients and the runtime's process as environment | `native-runtime.mjs`, `main.mjs`, `server.mjs` |
| `GatewayProofs` | theorems about `Gateway` | |
| `ImageMcp` | the image server: its processes, their calls, the output files | `desktop-image-mcp.mjs` |
| `ImageMcpProofs` | theorems about `ImageMcp` | |
| `RemoteCapture` | start, rollback and stop on the server | `remote_capture.sh` |
| `Capture` | start and stop on the desktop, composed with `RemoteCapture` | `capturectl.py` |
| `CaptureProofs` | theorems about `RemoteCapture` and `Capture` | |

### Bridge

*State.* `bridge` is the `CodexBridge` object with what it has sent (answers to
calls, text shown to clients, interrupts, unsubscribes); `task[r]` is one HTTP
request with its `respond()` and `drive()` invocations, i.e. where each is
suspended, the RPC it awaits and the locals it will use when it resumes; `loop`
holds the events `drive` has taken out of the buffer and is replaying; `close`
is the invocation of `close()`; `app` is the app-server; `burst` says that the
chunk being handled may contain more lines.

*Actions.* The synchronous methods (`flushTool`, `complete`, `fail`,
`releaseSession` up to its first await, `consumeNotification`) are operators
from a bridge state to the next, named after them, so that a handler that calls
several of them is one action. Each stretch of code between two awaits is one
action: `RespondNew`, `RespondOpens`, `RespondReturns` for `respond`;
`DriveSendsMessage`, `ThreadArrives`, `ThreadTooLate`, `TurnArrives`,
`TurnTooLate`, `DriveAnswersTool`, `DriveReplays`, `DriveFlushes`,
`DriveRefused`, `DriveCatches` for `drive`; `ReleaseNext` for the release.

*Scheduling.* `Macro`, `Line` and `Micro` encode the event loop: a timer, an HTTP
event or the first line of a chunk starts only when no continuation is ready;
further lines of the same chunk may follow at once. The order of ready
continuations is left open, which allows more than Node does.

*Economies.* A request names its response id, the session and thread it creates
and the turn it starts (each is created at most once per request); a call names
its RPC id and its `call_id`. `segment.finished` and `operation.settled` change
in the same handler and are one field, `op.outcome`. A released session is
reset, except whether it has a thread, which is all its release still reads. A
request refused by `respond`'s checks leaves no trace but the cleared or
untouched timer, so it stays `unsent` and the client may send it again. The RPC
link is `starting`, `up`, `broken` (stdin is not writable, the exit is not yet
reported) or `closed`. Of a message only its number, of an error only whether it
is a timeout is kept.

*Environment.* The app-server is external: it answers what it is asked, late or
never; its text and calls lie between the start and the end of a turn; it may
repeat or garble a call, fail a turn, exit. `Faults` names what may go wrong in a
run, so that a run's bounds go where its question is. `validateRequest` has
passed for every request that is modelled.

### Rpc, RpcLink, RpcFraming, LineReaders

`Rpc` has the calls written to the child (`wire`), those pending with their
timers, each call's outcome (`out`), the stages of `start()` and `#stopChild()`,
the child and `closed`/`started`. The handshake's `initialize` is a call like any
other. A child may answer any call on the wire at any time, repeatedly, or never;
may emit an invalid line, close its stdin, exit, and ignore SIGTERM.
Continuations may be delayed longer than Node would, which only adds behaviours.

`RpcLink` states the contract: a link that comes up once, may break and ends
once; a request that is refused at once or pending until it is settled, exactly
once; nothing pending after the end. Its two variables are exactly what
`Bridge` assumes in its `rpc` field and in its tasks' `reply` fields, so that the refinement
`Rpc => RpcLink` is where the two models meet. Answers the bridge sends
(`respond`, `respondError`) have no reply and are modelled in `Bridge` only.

`RpcFraming` feeds every sequence of bytes, cut in every way, through `#onData`,
and compares the lines it hands on with those of the whole input. `LineReaders`
composes it with `drain` of the example client, where LF, CRLF and CR end a line and
a CR at the end of a chunk must wait, and with the `data` listener of the image
server, which refuses a line that is too long and gives up its input when the
unfinished line is. Each is compared with its own definition of the lines of all bytes so far.
The loops are folds: of a turn of `#onData` over the chunk (`Passes`), of a turn of `drain`, which
stops where it changes nothing, over the buffer (`CutsLine`).

### Segment, StreamClient

The state is the segment (`output`, `finished`, the sequence number, the status),
the events written, how the operation was settled and the HTTP response. A
method is an operator on `[seg, sent, room, threw]`: `room` is how many events
the callback will still accept in this handler. Nothing drains between two events of
one handler, so once the callback throws it throws until the handler returns,
except for errors of the segment itself (text after the end of an item, a final text
that differs), which leave room for `response.failed`. Handlers of the bridge
call the methods as the code does: `toolCall` then `finish`, and `fail` in the
same handler after any throw. An item's events in the middle of an output and the
closing of all items in `finish` happen in one step, with the throw at
any of them. `Bridge` has the same segment with less detail: whether it is finished,
what it showed, whether a delivery threw.

`StreamClient` puts `request` and `readSse` of the example client behind it: the client
reads what was sent, fails at the first event of failure, and at the end of the stream
returns the last completed response if there is one. The connection may break, or
the client's timeout run out, at any time.

### Tunnel, RawForward, Gateway

*State.* `conn[c]` is one client connection with the request or tunnel it carries:
the gateway's end of the client's socket, the promise the server awaits, the request
to the runtime, the upgraded socket (`peer`), the handshake timer and the heads
written so far. `responseStarted` and `upgraded` are the field `answered`. The rest
is the process: `sockets` (`runtime.webSockets`), the child and what it has published,
where `NativeRuntime.start`, `close` and `main`'s `shutdown` are suspended.

*Actions.* A listener of `tunnelWebSocket` is an operator of its name (`Fail`, `OnAbort`,
`OnUpgrade`, ...) from a connection to the next, and the action of `Gateway` that fires
the event applies it: `socket.destroy()` inside a handler takes effect at once, its
close event is an action of its own (`ClientClosed`, `PeerCloses`). `CloseBegins` and
`Shutdown` are the code up to the first await and are part of every action that calls
them. Node itself supplies `Destroyed`, `Ended` (sockets of the server are half-open,
so `end()` leaves the client's side) and `closeAllConnections`, which does not close
upgraded sockets.

*Environment.* A client connects, sends one request or one upgrade, ends, or resets. The
runtime's process may fail to start, publish good or bad control data or none,
answer a handshake by an upgrade (valid or not), a response or an error, end or drop any
socket, and die. What the process does to a socket is independent of its own death:
its sockets may still deliver events after it. Checks of the server that refuse a
request are one action, whatever they find. Continuations may wait longer than in Node.

### ImageMcp

*State.* `server[s]` is a process: whether it is initialized, its input, and `active`, the map
from JSON-RPC ids to calls. `call[c]` is a `tools/call` request with the await it is
suspended at, its abort signal, how often it was submitted, and what it will be answered.
`file[p]` is what is at a path and whose it is. `sound` says whether, in this behaviour, closing
and removing a file succeed.

*Actions.* A step is a line of input (`Initialize`, `ToolCall`, `Cancel`, `InputEnds`,
`InputOverflows`) or what follows one await of a call, in order: `LoadConnection`, `Probe`
or `ReserveOutput`, `Submit`, `Respond` or `FetchFails`, `BodyEnds` or `BodyIsCut`, `WriteFile`,
`Sync`, `Close`, `Unlink`. Each may fail as the code's does; the `finally` of `generate` is
`Close` and `Unlink`.

*Environment.* Clients use ids again and cancel what they like; the endpoint may never
answer; a process may be killed at any point and started again; files of earlier sessions may be
in the directory, and the processes of several client sessions share it.

### RemoteCapture, Capture

*State.* `script` is the script that holds the server's lock: what it does, for which run, at
which step, and how the last one ended. `active` is the file `active-run`, `dir[run]` the run's
directory: whether it was made, `route-change-attempted`, `base-route-restored` and the recorded
sidecars; `alive` and `route` are what really runs. On the desktop, `state` is
`state.json`, `command` what the command that runs is about to do and what has become of the
script it has called, `file` the two launchers, `begun` the runs with a directory there.
`sent` is the set of runs whose start is on its way or waits for the server's lock, whether or not
its command is still there; `overtaken` is a history variable, see section 4. `trouble` says whether
anything may still fail or anybody interfere.

*Actions.* One per step after which the code may fail or be killed. On the server: `StartBegins`,
`Prepare`, `Launch` (each sidecar), `ProxyReady`, `VerifyBase`, `Apply`, `Check`, `StopBegins`,
`RestoreRoute`, `StopSidecars`, `Clear`; the last three are shared by `rollback`, which a failed
step of start enters through the trap, and `stop`. On the desktop: `CallStart`, `StartAnswers`,
`Patch` (the backup and the record), `Write` and `Finish` (a file is torn, then whole), `Settle`,
`StartFails`, `CallStop`, `StopAnswers`, `Restore`, `Rewrite`, `Close`. Between a call and its
answer is the lock (`remote_capture.sh:27`): a start that was sent gets it at any later time
(`StartGetsLock`) or is turned away (`StartTurnedAway`: it never arrived, waited 15 seconds, or was
refused), and so is a stop (`StopFindsNone`, `StopGetsLock`, `StopTurnedAway`).

*Environment.* `Kill` is SIGKILL of the script, perhaps with a sidecar launched and not
recorded; `Interrupt` ends the desktop's command at any point, and its wait for a script may end
(240 seconds, a lost connection) while the script runs or waits for the lock. A start that nobody waits for stays
in `sent`; a stop that nobody waits for is one that anybody may have sent (`Others`). Other
desktops start runs of their own, somebody stops any run on the server, changes the deployment or
edits a patched launcher.

### MCStreams

The checked composition of `StreamClient` and `LineReaders`. They share no variable, so a behaviour
is one of the first or one of the second; `StreamProofs` extends the two directly.

### ToolBroker

The promise to the app-server, without sessions, segments or timers: calls
queue in arrival order; the oldest is offered when none is; an offered call is
answered by its client or cancelled, a queued one cancelled; nothing is offered
twice. `Bridge` implements it under the mapping in `BridgeBroker`: the queue is the call that
the session has offered, those waiting and those among the events not yet taken; a call's fate is
its first answer.

## 3. The runs

Every run is a `.cfg`; deadlock is not an error in any of them, because the
system may really stop: every client has gone, the bridge is closed.

| Run | Question | Bounds |
|---|---|---|
| `bridge_tools` | a tool result answers the call its own previous response offered; idle sessions can be continued; no call is answered twice; one generation at a time | 3 streamed requests (open, answer, answer or message), 2 parallel calls, the app-server may exit |
| `bridge_crash` | slow start, broken pipe, exit, close at any point: no call is dropped, text between two segments is shown in order and none is lost; `Bridge` implements `ToolBroker` | 2 requests, 3 calls (one offered, two waiting in order), 2 texts, buffer of 2 so that the third event overflows it |
| `bridge_live` | timeouts, disconnects, RPC timeouts, expiry and malformed calls against the awaits of `drive`: turns are not orphaned, what an old session brings stays there; requests settle, calls are answered, threads are unsubscribed | 2 requests (an old session and its successor), 1 call; `FairSpec` |
| `bridge_late_turn` | expected violation, see section 5 | 1 request |
| `rpc_calls` | safety of `Rpc`; every call, start and close returns; `Rpc` implements `RpcLink` | 3 calls: two pending while a third is asked; `FairSpec` |
| `streams` | events are nested, numbered and add up to the response, wherever the callback throws; client and server agree on how it ended; chunks do not matter for any of the three readers of lines | 2 items, texts of 2 letters, up to 11 events in a handler; 6 bytes, lines of at most 2 |
| `segment_slow` | expected violation, see section 5 | 1 item |
| `gateway_tunnels` | a clean end is a real one, with one head per client; nothing left of a settled tunnel or after shutdown; handshakes, requests and shutdown end | 2 clients, each with a request or a tunnel; `FairSpec` |
| `gateway_denied` | expected violation, see section 5 | 1 client; `FairSpec` |
| `image_mcp` | one submission, to a file the call owns; honest answers; cancellation by id; nothing left; every call ends | 1 process, killed and restarted, 2 calls on 1 path, 2 ids; `FairSpec` |
| `capture` | the bridge is never cut off; a stop can reach what a run changed; stopped means restored; a later stop finishes | 1 run of this desktop, 1 of another, 2 launchers, 2 sidecars; `FairSpec` |
| `capture_overtaken` | expected violation, see section 5 | as `capture`, without fairness |

*Why the bounds are enough.* The bridge compares only "this session or another", "this operation
or another", "this call or another"; two sessions and two or three calls reach each of these
comparisons both ways, and every action of `Next` is taken in some run. The buffer limit is a
parameter; 1 or 2 puts both sides of the comparison in reach. For `RpcFraming`, lines at, below
and above the limit, several lines in a chunk and several chunks in a line all fit into six
bytes; so do a CRLF cut in the middle and one followed by another line. In `Segment` the longest
handler (a tool call, then two messages closed, then the completed event) writes eleven events,
so a callback that accepts from none to eleven fails at each of them; two letters give a final
text with none, some or all of it streamed, and one that differs. In `Gateway` connections meet
only in `runtime.webSockets` and in the two loops that close them all; two clients give a tunnel
beside a tunnel and a tunnel beside a request, in every state of each. A connection's own
counters are at most one or two, so nothing is cut off. In `ImageMcp` calls meet in the table of
ids and at a path: two calls may have the same id or different ones and always want the same
path. That they may be of two processes is left to the proof, which holds for any number. In
`Capture` a run meets another only in `active-run`, in the lock and in the ports the sidecars
take; that a start left over from an earlier run of the same desktop may begin during a later
one is left to the proof, which holds for any number. The faults are spread over the three bridge runs because together with these numbers of
requests and calls they would not finish; each fault meets an old session and its successor.

*Fairness.* `Bridge!Fairness` assumes that ready continuations run and that
armed timers fire unless cleared; these are `setTimeout` and the promise queue of Node.
Nothing is assumed of clients, of the app-server, or of RPC answers: each wait
is ended by a timer in the code (`bridge.mjs:59, 77, 265, 267`, `rpc.mjs:115`).
`Rpc!Fairness` is the same, with the 300 ms waits of `#waitForClose`.
`Gateway!Fairness` has the timers (deadline, SIGKILL after two seconds, the startup
timeout), continuations, the exit event of a dead child and the close event of a
socket that was destroyed. That a client ever closes is not assumed; where it
matters, it is a premise of the property (`ShutdownTerminates`).
`ImageMcp!FairSpec` has the timers of `fetch` and of the probe and the operations on files; the
endpoint's answers and the client's cancellations are not in it. `Capture!FairSpec` says that a
command and a script go on, that a start which was sent comes to something (ssh delivers it or
fails, and `flock -w 15` waits no longer than that), and that the user tries again to stop a run
that is not stopped; `LaterStopFinishes` promises an end only once `trouble` is over, and only if
nothing was left that a person has to look at (`NeedsCare` lists these cases).

Each property of each run comes with a *mutant*: a variant of one definition, as
a plausible bug of the code would have it (a dropped guard, a missing reset, a
different order), for which the same run reports a violation. The variants are
the operators marked "variant" in the modules; nothing else uses them.

## 4. What is proved

The proofs hold for every set of requests, calls, clients, processes, paths and runs, every
buffer limit and every choice of faults. Type correctness is proved for `Bridge`, `Rpc`,
`Gateway`, `ImageMcp` and `Capture`, so no run checks it again.

*BridgeProofs.* The inductive invariant is `IInv == TypeOK /\ CallInv`. `CallInv`
says where a call can be: if the app-server made it, it is in exactly one place,
i.e. waiting or pending in a session that `respond` has opened, with no answer
yet, or it has exactly one answer and is in no such place; and a call is in the
`seen` set of the session it belongs to. It is stronger than "at most one
answer", which is not inductive: to know that a result written now is the first,
one must know that a waiting call has none. The proof has a lemma per operator
(`Take`, `Offer`, `Flush`, `Release`, `Fail`, ...) that it keeps `Good`, the part
about the bridge state, then one lemma per action.
Theorems: `CallsAccounted` (the invariant), `TypeCorrect` (`TypeOK`),
`AnsweredOnce` (`CallAnsweredOnce`).

The other properties of `Bridge` are proved in layers, each an invariant relative to those
before it. Every layer has one lemma that says which steps keep it (from what changed, not from
which action it was), lemmas that the operators are such steps, and one lemma per action.

The first layer is in the same module. `SingleFlight` is not inductive: that no second `respond`
starts depends on `busy`, which depends on where every task is suspended. `Flight` says: one
running request at most, with its operation; a request not yet opened has left no trace; what
each drive may still do, given which session and operation are current; what a thread being
created, and a closed bridge, leave possible. `NothingTakenBack` is an action property on the
way: a settled operation keeps its outcome, an opened request its session and turn. Theorems:
`OneFlightAlways`, `OneGeneration` (`SingleFlight`), `NothingTakenBack`, `FailureContained`
(`FailureStaysHome`).

*BridgeTurnProofs.* `Shape` is what a session holds at rest between two segments, and at every
await of a drive within one: which call waits, what the buffer may contain, that no turn but
`TheTurn` can run on its thread. At rest it is `IdleResumable`; within a segment it is what
makes the next rest so. `Accounts` follows each call: with the link up, a call that was made is
answered or held by the current session, or nobody can be told; `Results` remembers who brought
each result. It needs `Shape`, because a call is held only as long as its session is, and the
calls of an ended session are answered in the step that ends it. `Orphans` says who still knows
of a turn that is not over: the drive that awaits its start, the session that has its id, or
nobody, once it was interrupted or could not be. `NoOrphanTurn` alone does not say who will
interrupt a turn whose acknowledgement is on the way. `Stream` has two halves: `Told`, what was
shown of a turn is its beginning, by responses of that turn; `Coherent`, what the session has
still to show (in the handler's burst, in `drive`'s loop, in the buffer) goes on exactly where
that ends. `StreamInOrder` speaks only of what was shown; without the second half a step that
replays the buffer could skip or repeat. Theorems: `ShapeAlways`, `AlwaysResumable`,
`AccountsKept`, `CallsNeverDropped`, `ResultsComeHome`, `TurnsWatched`, `NoTurnLeftBehind`
(`NoOrphanTurn`), `StreamKept`, `StreamAlwaysInOrder` (`StreamInOrder`).

*BridgeBrokerProofs.* `BrokerImplemented` is `Spec => ImplementsBroker`. A step of the bridge is one of
four things to the broker: nothing (`Rests`), the end of the session with all that it holds
(`Leaves`), a new call turned away (`Turned`), or an arrival, an offer or a result of the call at the head
of the queue. `Shape` supplies what the state alone does not say: that the offered call is the one
waiting longest, that calls in the buffer come after those waiting, and that a fate once given stays.

*StreamProofs*, the stream. That an item's next event is the right one depends on the state of the item, that
its text is whole on every delta before it, and that numbers have no gap on what a callback that
threw has left of the counter. `Good` is a segment between two methods: `ItemOK` relates each item
to the events sent about it (its last one, and its deltas put together), `Fit` the counter and the
order to the events. Inside a method the item at hand is `AtWork`: its last event is known, the
other items are `ItemOK`, and each `emit` moves it on or throws. `SegInv`, the invariant, is `Good`
while the operation is open; afterwards the stream is complete with every item done
(`Succeeded`), or has no `response.completed` and nothing after `response.failed` (`Broken`).
`finish`, the deltas and the client are folds over sequences. A fold is a recursive function over
sets of indices; `FoldSets` shows that it exists, and `DispatchedRuns`, `DeltasRun` and
`AllClosedKeeps` unfold the three folds element by element by an induction over sets of numbers
(`NatInd`, from the well-foundedness of `<`), which needs no operator as a parameter.
`ClientKeepsSegment` carries what holds of the segment over to the composition.
Theorems: `AlwaysSeg` (the invariant), `StreamWellNested`, `StreamOne`, `StreamWhole`,
`EndsAlwaysAgree`.

*StreamProofs*, its lines. `AlwaysReaders` says that after any chunks each of the three readers
is where the bytes so far put it, for any limit of a line and any number of bytes. The references
(`Split`, `SseSplit`, `Messages`, `Outcomes`) and the loops of the code are folds over sequences;
`RunsSets` makes any such fold one that goes element by element, `RunsMore` says what one element
more does to it, and `SeqInd` is induction over sequences for a set, from `NatInd` again.
`ChunksDoNotMatter` is inductive with the types (`FramingInv`), but not within a chunk: `Through`
adds what the loop of `#onData` has passed of it and not yet appended, and that a line which has
failed is the `First` fatal one, which later bytes leave as it is. `SseLinesWhole` is not
inductive: it does not say where in the bytes the buffer begins. `Reads` does (the lines handed on
are those of the bytes before the buffer, and no LF that belongs to a CR already taken is at its
head), each turn of `drain` keeps it, and a turn takes a byte, so that `drain` comes to where it is
`Stuck`: there is no separator left but a CR that may be half a CRLF. For the image server, cutting
what was pending with the chunk added gives the lines the chunk adds to the input (`InputInv`).
Theorems: `AlwaysReaders`, `ChunksNeverMatter` (`ChunksDoNotMatter`), `SseAlwaysWhole`
(`SseLinesWhole`), `InputAlwaysWhole` (`InputLinesWhole`).

*RpcProofs.* The inductive invariant conjoins the type invariant, `IdsUnique` (a
call is written once, under its own id; the id counter makes late answers
harmless), `AnswersMatch`, `NoneForgotten`, `ExitOnce`, `StartHonest` and
`StartInv` (which stages of start and stop go together).
Theorems: `TypeCorrect`, `OwnAnswers`, `NothingForgotten`, `ChildStopped`,
`FirstIsFinal`, and `LinkImplemented`: every behaviour of `Rpc` is one of
`RpcLink`, step by step under the mapping `TheLink`, `Reply`.

*GatewayProofs.* The inductive invariant is `IInv`: the types; `Good` of every
connection; `Stages`, which says how far `start`, `close` and `shutdown` can be
together; and that every `Live` tunnel (pending, its client's socket not destroyed) is in
`runtime.webSockets`. `Good` is what holds of a connection between two handlers; it
ties the promise to the request, the peer and the timer, since none of the
checked properties is inductive alone: that a second head is not written follows from
where the first one left the promise. The proof has lemmas for what the
socket operators change, then one per handler that it is a `Step` (keeps `Good`, makes
no tunnel live, brings no closed connection back), then one per group of actions.
All safety properties of `gateway_tunnels` follow from `IInv`, for any set of clients:
`TypeCorrect`, `SettledHoldsNothingHolds`, `CleanEndIsRealHolds` (which has "one
head" in it), `ClosedCutsTunnelsHolds`, `ReadyMeansAliveHolds`, `NothingLeftHolds`.

*ImageMcpProofs.* `IInv` conjoins the types, `Cancellable`, and for each call what its stage
says: how often it was submitted, what it will answer, and what is at its path. The last is
needed because "no failure leaves a file" is not inductive: one must know that a call
which still has a file to remove is the one that made it. `OthersKeep` carries the
proof: a step of a call writes to no file, or to one that is nobody's or its own, so the other
calls keep theirs. Theorems: `Inductive`, `TypeCorrect`, `CancellableHolds`,
`SubmissionOwnsFileHolds`, `AnswersAreHonestHolds`, `NoDebrisHolds`.

*CaptureProofs.* `RemoteInv` says what a script may take for granted at each step: that its
run is active, whether the route has been touched, which sidecars run. It is needed
because the properties speak of the state after any number of cut-off scripts:
`NeverCutOff` is not inductive until one knows that a sidecar is stopped only after
the route is marked restored. On the desktop, `FilesOK` follows the patches (a launcher beyond
the recorded ones is the original), and `StopOK` what a successful stop stands for: the run is
`Undone` and can begin no more (`Over`: its start is neither in `sent` nor has it to be sent), unless
it was overtaken. That a start may begin after its stop is why the history variable is needed:
"already stopped" alone does not say whether the run is over. A stop that did find the run
active says so, since a start makes its directory once (`remote_capture.sh:178`). That others
cannot take `Undone` back before the command reads the answer follows from a footprint of each
step: a script of another run touches nothing of this one (`UndoneStays`). Theorems: `Inductive`, `NeverCutOffHolds`, `StopCanReachHolds`,
`StoppedMeansRestoredHolds`.

The assumptions are the named `ASSUME`s of the modules: bounds are
natural numbers, `None` is not a request, call, item, process or run, `Streaming` is a set of
requests, `Faults` names known faults, the desktop's runs are runs (`LocalRunsAssumption`), and
no run is called like one of the two routes without one (`RouteAssumption`).

*Only model-checked.* The liveness properties: fairness, and the `ENABLED` in it, are outside the
prover's reach. Every safety property that a passing run checks is also a theorem.

## 5. Four disagreements between docs, comments or tests and the code

`bridge_late_turn`: when the generation timer fires while `turn/start` is not yet
acknowledged, `releaseSession` does not know the turn and only unsubscribes the
thread. If the acknowledgement still comes, `drive` interrupts the turn
(`bridge.mjs:114-116`). If instead the RPC's own timer fires first, the promise is
rejected and the later acknowledgement is dropped (`rpc.mjs:222-223`): a turn
that did start is never interrupted. `test/http.test.mjs:228` states "A
timed-out official turn must be interrupted." `NoOrphanTurn` is the weaker
property that does hold: a turn whose start was acknowledged in time is
interrupted or has ended.

`segment_slow`: a client that stops reading makes the callback throw
(`server.mjs:65`). `fail` emits `response.failed` through the same callback in the
same handler, the buffer has not drained, and the second exception is swallowed
(`bridge.mjs:249`). The server then ends the stream with no terminal event, though
the comment at `server.mjs:73` says "The bridge emitted response.failed". What does
hold is `OneStream`: the client sees a prefix, with at most one terminal event, at its
end.

`gateway_denied`: `docs/architecture.md:67` says that Node closes the service and exits
with a non-zero status when the runtime exits, so that Docker restarts it. A client whose
upgrade was denied and that keeps its side of the connection open is neither in
`runtime.webSockets` nor closed by `closeAllConnections`, so `server.close` (`main.mjs:11`)
does not call back and the process stays, for as long as that client likes.
`ShutdownTerminates` is what does hold: shutdown ends when no client keeps a
connection that the gateway has ended.

`capture_overtaken`: `README.md:3` of `scripts/request-capture` says that after a stop the launchers and
the server's Compose route are what they were before the run. A start that was sent waits up to 15 seconds for the
lock (`remote_capture.sh:27`), even if its command has lost the connection or was interrupted. A
stop that comes (`capturectl.py:189`, or the user's) and gets the lock first finds neither an active run nor this
run's directory and answers that it is already stopped and the route restored
(`remote_capture.sh:223-226`); the desktop records `stopped` (`capturectl.py:278`). Then the start
runs and routes the bridge through that run, and another stop on the desktop does not even ask the
server (`capturectl.py:267`). `StoppedMeansRestored` is what does hold: the launchers are restored in any
case, and the server is unless the stop has overtaken its own run's start in this way. Nor is the bridge cut
off by it (`NeverCutOff`), and the run can still be stopped on the server (`StopCanReach`).

## 6. Not modelled, and what the models assume

* *Rust forwarding and relay* (`native-runtime/src`). `Gateway` lets the runtime's process answer,
  end, drop or be silent at any moment, which is all that Node sees of it. Inside, the retry
  after a 401 is a short sequence in one task (`main.rs:334`); the relay's drain after a close
  frame and its bounded channels (`websocket.rs:222`) are the one piece of
  concurrency that deserves a model of its own and has none yet.
* *Capture recording and vault*. One writer under a lock: a record number and a latched
  failure are its state. What matters about it is the encryption and the format.
* *Remote capture, the rest*: `collect`, the sidecar programs, the compose files; and on the desktop
  its own proxies, applications and probes, which are one step that may fail.
* `validateRequest`, header filters, environment and option parsing: pure
  functions of one input with no state behind them.
* Model and configuration checks of `checkContinuation`: they compare a request
  with constants of the session and refuse it; a refused request is modelled
  whatever the reason.
* Wording and payloads: events are numbered, errors are kinds. `Bridge` and `Segment` meet only in
  what a segment shows and whether a delivery threw: an item whose text begins in one response and
  is completed in the next (`protocol.mjs:168`) is in `Bridge` as numbered text
  (`StreamInOrder`), not as the events of two segments.
* Offline analysis, build, login and verification scripts, Windows client
  configuration, container files: no interacting state.
* Bytes, back-pressure and heartbeats of the native routes, and signals that come
  before `main` has its handlers.

Assumptions worth knowing:

* The user runs one command of the capture controller at a time. Nothing in the code sees to
  it: `start` and `stop` read `state.json` without a lock (`capturectl.py:149-150`, `265-267`), so a stop
  beside a start that is still at work would be accepted. `Start` and `Stop` therefore wait until no
  command runs; a command that was interrupted runs no more, the scripts it has sent may.
* ssh delivers a command at any time or never, and once.
* Sidecars do not die by themselves and the server does not reboot during a run.
* A start that is cut off between making its directory (`remote_capture.sh:188`) and setting the
  trap (`:195`) leaves a run that is not active and not restored, which `stop` refuses. Nothing has been
  changed then; it is the first case of `NeedsCare`.
* In the image server an overlong line that arrives in one chunk is only refused, while one in
  pieces ends the input: `InputLinesWhole` allows both and says that no other line is affected.

## 7. What is done and what is left

Done: legacy mode (`Bridge`, `Rpc`, `Segment` with the example client), native mode on the side of
Node (`Gateway`, `Tunnel`, `RawForward`), the image server, and the captures' lifecycle on both machines.
The project keeps to a dozen runs, so a run is one question with several properties.

Left, in this order:

1. `Relay`: the two pumps of `websocket.rs` over bounded channels; messages arrive in order
   on both legs, a close frame reaches the other side, both legs end within the deadline.
2. `Forward`: `send_upstream` with the official recovery as an external component.
3. The composition of `Bridge` with the events of two successive segments.
