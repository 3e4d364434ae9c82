------------------------------ MODULE ImageMcp ------------------------------
(***************************************************************************)
(* The desktop image server (src/scripts/desktop-image-mcp.mjs): requests  *)
(* of an MCP client on standard input, one paid generation per call, and   *)
(* the image saved under a name that the call reserved before it asked.    *)
(*                                                                         *)
(* One server process runs per client session; all of them share the       *)
(* output directory.  A step is a line of input or what follows one await  *)
(* of a call.  Prompts, headers and images are left out; cutting the input *)
(* into lines is in LineReaders.                                           *)
(***************************************************************************)
EXTENDS Naturals, FiniteSets

CONSTANTS
    Servers,   \* server processes
    Calls,     \* tools/call requests
    Ids,       \* the JSON-RPC ids a client uses, again and again
    Paths,     \* output files
    None

ASSUME NoneAssumption == None \notin Calls /\ None \notin Servers

VARIABLES
    server,    \* the processes: up, initialized, input, active
    call,      \* the calls
    file,      \* what is at each path
    sound      \* whether closing and removing a file succeed, in this behaviour

vars == <<server, call, file, sound>>

-----------------------------------------------------------------------------
(* Outcomes a client is told.  Nothing was submitted before the first three. *)
Unsubmitted == {"refused", "profile", "output"}
Outcomes == Unsubmitted \cup
    {"status", "saved",
     "interrupted", "rejected", "uncertain",  \* of the request
     "image",                                 \* the response holds no PNG
     "internal"}                              \* image_tool_failed

Stages == {"unsent", "refusing", "loading", "probing", "placing", "reserved",
           "fetching", "reading", "writing", "syncing", "closing", "unlinking",
           "done", "lost"}

Call == [stage : Stages, server : Servers \cup {None}, id : Ids, path : Paths,
         tool : {"get_status", "generate_image"},
         aborted : BOOLEAN,                  \* controller.signal
         posts : Nat,                        \* submissions to the endpoint
         outcome : Outcomes \cup {None},     \* the value or error under way
         answers : Nat]                      \* responses sent for it

Server == [up : BOOLEAN, initialized : BOOLEAN,
           input : {"open", "ended", "destroyed"},
           active : [Ids -> Calls \cup {None}]]

\* A file is of a call, or of somebody else if by is None.
File == [is : {"none", "empty", "partial", "whole"}, by : Calls \cup {None}]
NoFile == [is |-> "none", by |-> None]

TypeOK ==
    /\ server \in [Servers -> Server]
    /\ call \in [Calls -> Call]
    /\ file \in [Paths -> File]
    /\ sound \in BOOLEAN

Fresh == [up |-> TRUE, initialized |-> FALSE, input |-> "open",
          active |-> [i \in Ids |-> None]]
Down == [Fresh EXCEPT !.up = FALSE]

\* Files of earlier sessions may be there.
Init ==
    /\ server = [s \in Servers |-> Fresh]
    /\ call \in [Calls ->
         {[stage |-> "unsent", server |-> None, id |-> i, path |-> p, tool |-> t,
           aborted |-> FALSE, posts |-> 0, outcome |-> None, answers |-> 0] :
             i \in Ids, p \in Paths, t \in {"get_status", "generate_image"}}]
    /\ file \in [Paths -> {NoFile, [is |-> "whole", by |-> None]}]
    /\ sound \in BOOLEAN

InProgress(c) == call[c].stage \notin {"unsent", "done", "lost"}

-----------------------------------------------------------------------------
(* Lines of input *)

Listening(s) == server[s].up /\ server[s].input = "open"

Initialize(s) ==
    /\ Listening(s) /\ ~server[s].initialized
    /\ server' = [server EXCEPT ![s].initialized = TRUE]
    /\ UNCHANGED <<call, file>>

\* A response at once: nothing has been registered.
RefuseLine(s, c) ==
    /\ call' = [call EXCEPT ![c].stage = "done", ![c].server = s,
                            ![c].outcome = "refused", ![c].answers = @ + 1]
    /\ UNCHANGED <<server, file>>

Accept(s, c, stage) ==
    /\ server' = [server EXCEPT ![s].active[call[c].id] = c]
    /\ call' = [call EXCEPT ![c].stage = stage, ![c].server = s]
    /\ UNCHANGED file

\* Variant: an id in use is taken over.
ToolCallOverwriting(s, c) ==
    /\ Listening(s) /\ call[c].stage = "unsent"
    /\ \/ RefuseLine(s, c)
       \/ server[s].initialized /\ \E stage \in {"refusing", "loading"} : Accept(s, c, stage)

\* handle, a tools/call line: refused at once if it is early, its id is in
\* use, the tool is unknown or get_status has arguments.  Bad arguments of
\* generate_image are refused by generate, whose promise is awaited.
ToolCall(s, c) ==
    /\ Listening(s) /\ call[c].stage = "unsent"
    /\ \/ RefuseLine(s, c)
       \/ /\ server[s].initialized
          /\ server[s].active[call[c].id] = None
          /\ \/ Accept(s, c, "loading")
             \/ call[c].tool = "generate_image" /\ Accept(s, c, "refusing")

\* A notification for an id that is not active is ignored.
Cancel(s, i) ==
    /\ Listening(s) /\ server[s].active[i] # None
    /\ call' = [call EXCEPT ![server[s].active[i]].aborted = TRUE]
    /\ UNCHANGED <<server, file>>

\* input.on('end'): every call is aborted.
InputEnds(s) ==
    /\ Listening(s)
    /\ server' = [server EXCEPT ![s].input = "ended"]
    /\ call' = [c \in Calls |->
         IF \E i \in Ids : server[s].active[i] = c
         THEN [call[c] EXCEPT !.aborted = TRUE] ELSE call[c]]
    /\ UNCHANGED file

\* A line that grows too long: no more input, but calls go on.
InputOverflows(s) ==
    /\ Listening(s)
    /\ server' = [server EXCEPT ![s].input = "destroyed"]
    /\ UNCHANGED <<call, file>>

-----------------------------------------------------------------------------
(* The awaits of a call *)

Live(c, stage) == call[c].stage = stage

\* The response is sent and the id is free.
Answer(c, outcome) ==
    /\ call' = [call EXCEPT ![c].stage = "done", ![c].outcome = outcome,
                            ![c].answers = @ + 1]
    /\ server' = [server EXCEPT ![call[c].server].active[call[c].id] = None]

\* The call goes on, with what it will be answered if that is known.
Goes(c, stage, outcome) ==
    /\ call' = [call EXCEPT ![c].stage = stage, ![c].outcome = outcome]
    /\ UNCHANGED server

Puts(c, content) ==
    file' = [file EXCEPT ![call[c].path] = [is |-> content, by |-> c]]

Refuse(c) == Live(c, "refusing") /\ Answer(c, "refused") /\ UNCHANGED file

LoadConnection(c) ==
    /\ Live(c, "loading")
    /\ \/ Answer(c, "profile")
       \/ Goes(c, IF call[c].tool = "get_status" THEN "probing" ELSE "placing", None)
    /\ UNCHANGED file

\* getStatus: whatever the probe meets, in ten seconds there is a status.
Probe(c) == Live(c, "probing") /\ Answer(c, "status") /\ UNCHANGED file

\* Variant: an existing file is opened, and emptied.
ReserveOutputTruncating(c) ==
    /\ Live(c, "placing")
    /\ \/ \E code \in {"output", "internal"} : Answer(c, code) /\ UNCHANGED file
       \/ Goes(c, "reserved", None) /\ Puts(c, "empty")

\* reserveOutput: the path is refused, the directory cannot be made, or the
\* file is created, if there is none (flag wx).
ReserveOutput(c) ==
    /\ Live(c, "placing")
    /\ \/ \E code \in {"output", "internal"} : Answer(c, code) /\ UNCHANGED file
       \/ /\ file[call[c].path] = NoFile
          /\ Goes(c, "reserved", None) /\ Puts(c, "empty")

\* fetch posts nothing if the signal is aborted already.
Submit(c) ==
    /\ Live(c, "reserved")
    /\ IF call[c].aborted THEN Goes(c, "closing", "interrupted")
       ELSE /\ call' = [call EXCEPT ![c].stage = "fetching", ![c].posts = @ + 1]
            /\ UNCHANGED server
    /\ UNCHANGED file

\* Variant: the fetch has no timeout of its own.
FetchFailsOnAbort(c) ==
    Live(c, "fetching") /\ call[c].aborted /\ Goes(c, "closing", "interrupted") /\ UNCHANGED file

\* The signal, the timeout or the network ends the wait.
FetchFails(c) ==
    Live(c, "fetching") /\ Goes(c, "closing", "interrupted") /\ UNCHANGED file

\* A body that is not wanted is cancelled, which may fail too.
Respond(c) ==
    /\ Live(c, "fetching") /\ ~call[c].aborted
    /\ \/ \E code \in {"rejected", "internal"} : Goes(c, "closing", code)
       \/ Goes(c, "reading", None)
    /\ UNCHANGED file

\* The same signal and timeout hold for the body.
BodyIsCut(c) ==
    Live(c, "reading") /\ Goes(c, "closing", "uncertain") /\ UNCHANGED file

\* The body is too large or no image, or it is decoded and the file written,
\* in pieces.
BodyEnds(c) ==
    /\ Live(c, "reading") /\ ~call[c].aborted
    /\ \/ Goes(c, "closing", "image") /\ UNCHANGED file
       \/ Goes(c, "writing", None) /\ Puts(c, "partial")

\* Variant: the write is not awaited.
WriteFileUnawaited(c) == Live(c, "writing") /\ Goes(c, "syncing", None) /\ UNCHANGED file

WriteFile(c) ==
    /\ Live(c, "writing")
    /\ \/ Goes(c, "closing", "internal") /\ UNCHANGED file
       \/ Goes(c, "syncing", None) /\ Puts(c, "whole")

Sync(c) ==
    /\ Live(c, "syncing")
    /\ \/ Goes(c, "closing", "internal")
       \/ Goes(c, "closing", "saved")
    /\ UNCHANGED file

\* Variant: what was reserved is left behind if the call failed.
CloseKeeping(c) ==
    /\ Live(c, "closing") /\ Answer(c, call[c].outcome) /\ UNCHANGED file

\* finally: an error of close is the answer, and then nothing is removed.
Close(c) ==
    /\ Live(c, "closing")
    /\ \/ ~sound /\ Answer(c, "internal")
       \/ IF call[c].outcome = "saved" THEN Answer(c, "saved")
          ELSE Goes(c, "unlinking", call[c].outcome)
    /\ UNCHANGED file

\* An error of unlink is ignored.
Unlink(c) ==
    /\ Live(c, "unlinking")
    /\ Answer(c, call[c].outcome)
    /\ \/ file' = [file EXCEPT ![call[c].path] = NoFile]
       \/ ~sound /\ UNCHANGED file

-----------------------------------------------------------------------------
(* Processes *)

\* Killed, at any point; its calls are never answered.
Crash(s) ==
    /\ server[s].up
    /\ server' = [server EXCEPT ![s] = Down]
    /\ call' = [c \in Calls |->
         IF InProgress(c) /\ call[c].server = s
         THEN [call[c] EXCEPT !.stage = "lost"] ELSE call[c]]
    /\ UNCHANGED file

\* Nothing keeps the process once its input is over and its calls are.
Exit(s) ==
    /\ server[s].up /\ server[s].input # "open"
    /\ \A i \in Ids : server[s].active[i] = None
    /\ server' = [server EXCEPT ![s] = Down]
    /\ UNCHANGED <<call, file>>

\* The next session of the client.
Restart(s) ==
    /\ ~server[s].up
    /\ server' = [server EXCEPT ![s] = Fresh]
    /\ UNCHANGED <<call, file>>

\* What the process and the disk do of themselves, and what is up to the
\* endpoint.
Step(c) ==
    \/ Refuse(c) \/ LoadConnection(c) \/ Probe(c) \/ ReserveOutput(c) \/ Submit(c)
    \/ FetchFails(c) \/ BodyIsCut(c) \/ WriteFile(c) \/ Sync(c) \/ Close(c) \/ Unlink(c)

Next ==
    /\ \/ \E s \in Servers :
            \/ Initialize(s) \/ InputEnds(s) \/ InputOverflows(s)
            \/ Crash(s) \/ Exit(s) \/ Restart(s)
            \/ \E c \in Calls : ToolCall(s, c)
            \/ \E i \in Ids : Cancel(s, i)
       \/ \E c \in Calls : Step(c) \/ Respond(c) \/ BodyEnds(c)
    /\ UNCHANGED sound

Spec == Init /\ [][Next]_vars

\* Files and timers answer; the endpoint need not.
FairSpec == Spec /\ \A c \in Calls : WF_vars(Step(c) /\ UNCHANGED sound)

-----------------------------------------------------------------------------
(* Safety *)

\* A notification or the end of the input reaches the one call that its client
\* knows by an id, and that call only, for as long as it can still be stopped:
\* the table holds exactly the calls in progress, also when an id is used
\* again or refused (lines 169, 182-192, 208).
Cancellable ==
    \A s \in Servers, c \in Calls :
      (server[s].active[call[c].id] = c) <=> (InProgress(c) /\ call[c].server = s)

\* The test's "overlapping calls reserve the target before submission"
\* (test/desktop-image-mcp.test.mjs): from its one submission on, until it
\* removes it, a call owns the file at its path, so that what was paid for can
\* be saved and no other call, of this process or another, has the name.
SubmissionOwnsFile ==
    \A c \in Calls :
      /\ call[c].posts <= 1
      /\ InProgress(c) /\ call[c].posts > 0 => file[call[c].path].by = c

\* What a client is told is so.  An error of an earlier step means that
\* nothing was submitted and nothing left; "saved" means one submission and
\* a whole file; and there is one response to one request.
AnswersAreHonest ==
    \A c \in Calls : call[c].stage = "done" =>
      /\ call[c].answers = 1
      /\ call[c].outcome \in Unsubmitted =>
           call[c].posts = 0 /\ file[call[c].path].by # c
      /\ call[c].outcome = "saved" =>
           call[c].posts = 1 /\ file[call[c].path] = [is |-> "whole", by |-> c]

\* An output that is there is whole and was announced, or its call still runs
\* or was killed: no failure on the way leaves an empty or cut image behind
\* (lines 150-153), if files can be closed and removed.
NoDebris ==
    sound => \A p \in Paths : LET c == file[p].by IN c # None =>
      \/ InProgress(c) \/ call[c].stage = "lost"
      \/ file[p].is = "whole" /\ call[c].outcome = "saved"

-----------------------------------------------------------------------------
(* Liveness *)

\* Every call in progress comes to an end, though the endpoint never answers
\* and the client neither cancels nor hangs up.
EveryCallEnds == \A c \in Calls : InProgress(c) ~> ~InProgress(c)

=============================================================================
