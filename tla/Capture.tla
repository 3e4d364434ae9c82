------------------------------ MODULE Capture -------------------------------
(***************************************************************************)
(* The desktop's side of a capture (scripts/request-capture/capturectl.py, *)
(* start, stop, patch and restore), which runs RemoteCapture's scripts     *)
(* over ssh and patches two launcher files of its own machine.             *)
(*                                                                         *)
(* A command may fail at each step or be interrupted, give up waiting for  *)
(* a script that goes on or has not begun, and be followed by another      *)
(* stop: state.json is what the next command knows.  Others may run the    *)
(* scripts, and edit the launchers.  The user runs one command at a time;  *)
(* the desktop's own proxies and applications are left out.                *)
(***************************************************************************)
EXTENDS RemoteCapture, Naturals, Sequences

CONSTANT LocalRuns   \* run ids of this desktop; the other runs are somebody's

ASSUME LocalRunsAssumption == LocalRuns \subseteq Runs

Files == <<"launch.ps1", "tunnel.ps1">>   \* in the order in which they are patched

VARIABLES
    state,     \* state.json
    command,   \* what the command that runs is about to do, and what has
               \* become of the script it has called
    file,      \* the launcher files
    begun,     \* data_root/runs: the runs that have a directory here
    sent,      \* runs whose start is on its way or waits for the lock, whether
               \* or not the command that sent it is still there
    overtaken  \* history: this run's stop was told "already stopped" while its
               \* start was in sent

starts == <<begun, sent, overtaken>>
vars == <<remote, state, command, file, starts>>

-----------------------------------------------------------------------------
TypeOK ==
    /\ RemoteTypeOK
    /\ state \in [phase : {"none", "starting", "start_failed", "running", "stopped"},
                  run : LocalRuns \cup {None}, patches : 0 .. Len(Files)]
    /\ command \in
         [at : {"", "call start", "wait start", "patch", "write", "finish",
                "settle", "fail", "call stop", "wait stop", "restore", "rewrite",
                "close"},
          n : 0 .. Len(Files), call : {"", "sent", "runs", "ok", "failed"}]
    /\ file \in [DOMAIN Files -> {"original", "patched", "torn", "edited"}]
    /\ begun \subseteq LocalRuns /\ sent \subseteq LocalRuns
    /\ overtaken \in BOOLEAN

Init ==
    /\ RemoteInit
    /\ state = [phase |-> "none", run |-> None, patches |-> 0]
    /\ command = [at |-> "", n |-> 0, call |-> ""]
    /\ file = [f \in DOMAIN Files |-> "original"]
    /\ begun = {} /\ sent = {} /\ overtaken = FALSE

Is(point) == command.at = point
Then(point, n) == command' = [at |-> point, n |-> n, call |-> ""]

\* remote(): ssh has been started; what becomes of the script it is to run.
Calls(point) == command' = [at |-> point, n |-> 0, call |-> "sent"]
Awaits(point, call) == Is(point) /\ command.call = call
Now(call) == command' = [command EXCEPT !.call = call]

\* An exception in start is caught.
Fails == Then("fail", 0)

-----------------------------------------------------------------------------
(* start *)

\* No command runs: nothing in the code sees to it.
Start(run) ==
    /\ Is("") /\ state.phase \in {"none", "stopped"} /\ run \notin begun
    /\ begun' = begun \cup {run}
    /\ state' = [phase |-> "starting", run |-> run, patches |-> 0]
    /\ overtaken' = FALSE
    /\ Then("call start", 0)
    /\ UNCHANGED <<remote, sent, file>>

CallStart ==
    /\ Is("call start")
    /\ \/ Calls("wait start") /\ sent' = sent \cup {state.run}
       \/ trouble /\ Fails /\ UNCHANGED sent
    /\ UNCHANGED <<remote, state, file, begun, overtaken>>

\* What a start that is sent comes to is told to who still waits for it.
Tells(run, call) ==
    /\ sent' = sent \ {run}
    /\ IF Awaits("wait start", "sent") /\ state.run = run THEN Now(call)
       ELSE UNCHANGED command
    /\ UNCHANGED <<state, file, begun, overtaken>>

StartGetsLock(run) == run \in sent /\ StartBegins(run) /\ Tells(run, "runs")

\* It never arrives, has waited 15 seconds for the lock, or is refused: a run
\* is active, the id is used, a port is taken, or a client is connected.
StartTurnedAway(run) == run \in sent /\ UNCHANGED remote /\ Tells(run, "failed")

\* The answer of the script; or no more waiting for one, after 240 seconds or
\* when the connection is lost, whatever the script does.
StartAnswers ==
    /\ Is("wait start")
    /\ \/ command.call = "ok" /\ Then("patch", 1)
       \/ (command.call = "failed" \/ trouble) /\ Fails
    /\ UNCHANGED <<remote, state, file, starts>>

\* patch: the backup and the record first.
Patch ==
    /\ Is("patch")
    /\ \/ /\ state' = [state EXCEPT !.patches = command.n]
          /\ Then("write", command.n)
       \/ trouble /\ UNCHANGED state /\ Fails
    /\ UNCHANGED <<remote, file, starts>>

\* path.write_bytes empties the file, and fills it.
Write ==
    /\ Is("write")
    /\ file' = [file EXCEPT ![command.n] = "torn"] /\ Then("finish", command.n)
    /\ UNCHANGED <<remote, state, starts>>

Finish ==
    /\ Is("finish")
    /\ file' = [file EXCEPT ![command.n] = "patched"]
    /\ IF command.n < Len(Files) THEN Then("patch", command.n + 1) ELSE Then("settle", 0)
    /\ UNCHANGED <<remote, state, starts>>

\* Proxies, health, probes and applications.
Settle ==
    /\ Is("settle")
    /\ \/ state' = [state EXCEPT !.phase = "running"] /\ Then("", 0)
       \/ trouble /\ UNCHANGED state /\ Fails
    /\ UNCHANGED <<remote, file, starts>>

\* The handler: the state is kept, and stop attempted.
StartFails ==
    /\ Is("fail")
    /\ state' = [state EXCEPT !.phase = "start_failed"] /\ Then("call stop", 0)
    /\ UNCHANGED <<remote, file, starts>>

-----------------------------------------------------------------------------
(* stop *)

\* Again, no command runs: nothing in the code sees to it.
Stop ==
    /\ Is("") /\ state.phase \notin {"none", "stopped"}
    /\ Then("call stop", 0)
    /\ UNCHANGED <<remote, state, file, starts>>

\* Whether stop is a command or the end of a failed start, its exception ends it
\* and leaves the state for another stop.
StopFails == Then("", 0)

CallStop ==
    /\ Is("call stop")
    /\ Calls("wait stop") \/ (trouble /\ StopFails)
    /\ UNCHANGED <<remote, state, file, starts>>

\* Lines 223-226, under the lock: a start that is still on its way is not seen.
StopFindsNone ==
    /\ Awaits("wait stop", "sent") /\ Free /\ AlreadyStopped(state.run)
    /\ Now("ok") /\ overtaken' = (state.run \in sent)
    /\ UNCHANGED <<remote, state, file, begun, sent>>

StopGetsLock ==
    /\ Awaits("wait stop", "sent") /\ StopBegins(state.run) /\ Now("runs")
    /\ overtaken' = FALSE
    /\ UNCHANGED <<state, file, begun, sent>>

\* No lock within 15 seconds, or refused.
StopTurnedAway ==
    /\ Awaits("wait stop", "sent") /\ (~Free \/ MayRefuseStop(state.run))
    /\ Now("failed")
    /\ UNCHANGED <<remote, state, file, starts>>

\* Variant: the desktop is restored though the server has not been.
StopAnswersIgnored ==
    /\ Is("wait stop") /\ Then("restore", state.patches)
    /\ UNCHANGED <<remote, state, file, starts>>

StopAnswers ==
    /\ Is("wait stop")
    /\ \/ command.call = "ok" /\ Then("restore", state.patches)
       \/ (command.call = "failed" \/ trouble) /\ StopFails
    /\ UNCHANGED <<remote, state, file, starts>>

\* Variant: a file must be as it was left, though it may never have been written.
RestoreStrictly ==
    /\ Is("restore") /\ command.n > 0
    /\ \/ /\ file[command.n] = "patched"
          /\ file' = [file EXCEPT ![command.n] = "torn"] /\ Then("rewrite", command.n)
       \/ file[command.n] # "patched" /\ StopFails /\ UNCHANGED file
    /\ UNCHANGED <<remote, state, starts>>

\* restore, from the last patch: a file that is neither the backup nor what
\* was written is refused.
Restore ==
    /\ Is("restore") /\ command.n > 0
    /\ \/ /\ file[command.n] = "original"
          /\ Then("restore", command.n - 1) /\ UNCHANGED file
       \/ /\ file[command.n] = "patched"
          /\ file' = [file EXCEPT ![command.n] = "torn"] /\ Then("rewrite", command.n)
       \/ file[command.n] \in {"torn", "edited"} /\ StopFails /\ UNCHANGED file
    /\ UNCHANGED <<remote, state, starts>>

Rewrite ==
    /\ Is("rewrite")
    /\ file' = [file EXCEPT ![command.n] = "original"] /\ Then("restore", command.n - 1)
    /\ UNCHANGED <<remote, state, starts>>

\* stop_proxies may run out of time; then the launchers run and the run is over.
Close ==
    /\ Is("restore") /\ command.n = 0
    /\ \/ state' = [state EXCEPT !.phase = "stopped"]
       \/ trouble /\ UNCHANGED state
    /\ StopFails
    /\ UNCHANGED <<remote, file, starts>>

-----------------------------------------------------------------------------
\* The command is killed, or its machine is; the script it has sent goes on.
Interrupt ==
    /\ trouble /\ ~Is("") /\ Then("", 0)
    /\ UNCHANGED <<remote, state, file, starts>>

\* The user changes a launcher during the capture.
Edit ==
    /\ trouble /\ state.phase \in {"running", "start_failed"}
    /\ \E f \in DOMAIN Files : file[f] = "patched" /\ file' = [file EXCEPT ![f] = "edited"]
    /\ UNCHANGED <<remote, state, command, starts>>

\* Somebody else captures, or somebody stops a run on the server; the stops
\* whose command has gone are among these.
Others ==
    /\ trouble
    /\ \/ \E run \in Runs \ LocalRuns : StartBegins(run)
       \/ \E run \in Runs : StopBegins(run)
    /\ UNCHANGED <<state, command, file, starts>>

\* The end of a script is told to the command that waits for it.
Server ==
    /\ ScriptStep \/ Kill \/ BaseChanges \/ TroubleEnds
    /\ IF command.call = "runs" /\ Free' THEN Now(script'.ended) ELSE UNCHANGED command
    /\ UNCHANGED <<state, file, starts>>

Queued == \E run \in LocalRuns : StartGetsLock(run) \/ StartTurnedAway(run)

Command ==
    \/ CallStart \/ StartAnswers \/ Patch \/ Write \/ Finish \/ Settle \/ StartFails
    \/ CallStop \/ StopFindsNone \/ StopGetsLock \/ StopTurnedAway \/ StopAnswers
    \/ Restore \/ Rewrite \/ Close

Next ==
    \/ \E run \in LocalRuns : Start(run)
    \/ Stop \/ Command \/ Queued \/ Interrupt \/ Edit \/ Others \/ Server

Spec == Init /\ [][Next]_vars

\* Programs go on, a call that is sent comes to something, and the user tries
\* again to stop a run once all is quiet.
FairSpec ==
    /\ Spec
    /\ WF_vars(Command) /\ WF_vars(Queued) /\ WF_vars(Server /\ ScriptStep)
    /\ WF_vars(Stop)

-----------------------------------------------------------------------------
\* README.md's "stop": whatever failed or was interrupted before, a run that the
\* desktop calls stopped has left nothing: no launcher keeps a patch or half of
\* one, the route is the deployment's own, the run's sidecars are gone, and
\* another run may start.  On the server this is not so if the stop has overtaken
\* the run's own start, whose command had failed or been interrupted while the
\* start was on its way or waited for the lock (StopRestoresRoute).
StoppedMeansRestored ==
    state.phase = "stopped" =>
      /\ \A f \in DOMAIN Files : file[f] = "original"
      /\ ~overtaken =>
           /\ route # state.run /\ active # state.run
           /\ \A x \in dir[state.run].known : alive[x] # state.run

\* README.md:3: after a stop, the Compose route that the server had before the
\* run is back.  It is not, after a stop that has overtaken its run's start.
StopRestoresRoute == state.phase = "stopped" => route # state.run

\* What is left to a person: a start cut off before it was active, another run,
\* a changed deployment, a launcher that is neither the backup nor the patch.
NeedsCare ==
    \/ \E run \in LocalRuns \cap {state.run} :
         \/ active # run /\ dir[run].made /\ ~dir[run].restored
         \/ dir[run].base = "changed"
    \/ active \notin {None, state.run}
    \/ \E f \in DOMAIN Files : file[f] \in {"torn", "edited"}

\* "retain state if external recovery needed" (line 188): whatever a failed or
\* interrupted start or stop has left behind, once nothing fails any more a
\* later stop finishes the job, or a person has to look.
LaterStopFinishes ==
    ~trouble /\ state.phase \notin {"none", "stopped"}
      ~> state.phase = "stopped" \/ NeedsCare

=============================================================================
