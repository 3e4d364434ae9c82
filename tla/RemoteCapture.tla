--------------------------- MODULE RemoteCapture ----------------------------
(***************************************************************************)
(* The lifecycle of a capture on the server                                *)
(* (src/scripts/request-capture/remote_capture.sh): start puts two proxies *)
(* beside the bridge and routes it through them, stop takes both away, and *)
(* a start that fails rolls itself back.  One script runs at a time        *)
(* (flock), any of its steps may fail, and it may be killed between two.   *)
(* What it leaves on disk is all that the next one knows.                  *)
(***************************************************************************)
EXTENDS FiniteSets

CONSTANTS
    Runs,      \* run ids
    None

ASSUME NoneAssumption == None \notin Runs
ASSUME RouteAssumption == Runs \cap {"base", "down"} = {}

Sidecars == {"shim", "mitm"}

VARIABLES
    script,    \* the script that holds the lock: what it does, for which run
    active,    \* active-run
    dir,       \* runs/RUN_ID: what each run has recorded
    alive,     \* of which run a sidecar is, None if it does not run
    route,     \* what the bridge is routed through: "base", a run, or "down"
    trouble    \* whether anything may still fail, or anybody interfere

remote == <<script, active, dir, alive, route, trouble>>

-----------------------------------------------------------------------------
Directory ==
    [made : BOOLEAN,
     base : {"same", "changed"},             \* the deployment since base.sha256
     attempted : BOOLEAN,                    \* route-change-attempted
     restored : BOOLEAN,                     \* base-route-restored
     known : SUBSET Sidecars]                \* *.process.json

Script == [does : {"nothing", "start", "rollback", "stop"}, run : Runs \cup {None},
           at : {"", "prepare", "shim", "mitm", "ready", "verify", "apply", "check",
                 "restore", "quit", "clear"},
           ended : {"", "ok", "failed"}]     \* how the last script ended

RemoteTypeOK ==
    /\ script \in Script
    /\ active \in Runs \cup {None}
    /\ dir \in [Runs -> Directory]
    /\ alive \in [Sidecars -> Runs \cup {None}]
    /\ route \in {"base", "down"} \cup Runs
    /\ trouble \in BOOLEAN

RemoteInit ==
    /\ script = [does |-> "nothing", run |-> None, at |-> "", ended |-> ""]
    /\ active = None
    /\ dir = [r \in Runs |-> [made |-> FALSE, base |-> "same", attempted |-> FALSE,
                              restored |-> FALSE, known |-> {}]]
    /\ alive = [x \in Sidecars |-> None]
    /\ route = "base"
    /\ trouble = TRUE

Free == script.does = "nothing"

\* Where a script is; r is its run.
At(does, point) == script.does = does /\ script.at = point
r == script.run

To(does, point) == script' = [script EXCEPT !.does = does, !.at = point]
Ends(how) == script' = [script EXCEPT !.does = "nothing", !.at = "", !.ended = how]
Began(does, run, point) ==
    script' = [does |-> does, run |-> run, at |-> point, ended |-> ""]

\* A command failed in start after the trap was set.
Traps == trouble /\ To("rollback", "restore")

-----------------------------------------------------------------------------
(* start *)

\* The lock is there, no run is active, the id is new and no port is taken.
StartBegins(run) ==
    /\ Free /\ active = None /\ ~dir[run].made
    /\ \A x \in Sidecars : alive[x] = None
    /\ dir' = [dir EXCEPT ![run].made = TRUE]
    /\ Began("start", run, "prepare")
    /\ UNCHANGED <<active, alive, route, trouble>>

\* The trap is not set yet: a failure leaves a run that is not active.
Prepare ==
    /\ At("start", "prepare")
    /\ \/ active' = r /\ To("start", "shim")
       \/ trouble /\ UNCHANGED active /\ Ends("failed")
    /\ UNCHANGED <<dir, alive, route, trouble>>

Launch(x, next) ==
    /\ At("start", x)
    /\ \/ /\ alive' = [alive EXCEPT ![x] = r]
          /\ dir' = [dir EXCEPT ![r].known = @ \cup {x}]
          /\ To("start", next)
       \/ UNCHANGED <<alive, dir>> /\ Traps
    /\ UNCHANGED <<active, route, trouble>>

ProxyReady ==
    /\ At("start", "ready")
    /\ To("start", "verify") \/ Traps
    /\ UNCHANGED <<active, dir, alive, route, trouble>>

\* base_unchanged, idle
VerifyBase ==
    /\ At("start", "verify")
    /\ \/ /\ dir[r].base = "same"
          /\ dir' = [dir EXCEPT ![r].attempted = TRUE]
          /\ To("start", "apply")
       \/ UNCHANGED dir /\ To("rollback", "restore") /\ (trouble \/ dir[r].base # "same")
    /\ UNCHANGED <<active, alive, route, trouble>>

\* compose yes up: a failure may leave either route, or no bridge.
Apply ==
    /\ At("start", "apply")
    /\ \/ route' = r /\ To("start", "check")
       \/ route' \in {route, r, "down"} /\ Traps
    /\ UNCHANGED <<active, dir, alive, trouble>>

\* health, ready, and the trap is off.
Check ==
    /\ At("start", "check")
    /\ Ends("ok") \/ Traps
    /\ UNCHANGED <<active, dir, alive, route, trouble>>

-----------------------------------------------------------------------------
(* rollback and stop *)

\* A stop that finds no active run answers at once, and changes nothing.
AlreadyStopped(run) == active = None /\ (~dir[run].made \/ dir[run].restored)
MayStop(run) == active = run /\ dir[run].base = "same"

StopBegins(run) ==
    /\ Free /\ MayStop(run)
    /\ Began("stop", run, "restore")
    /\ UNCHANGED <<active, dir, alive, route, trouble>>

\* Inactive and unverified, another run's, changed, or clients are connected.
MayRefuseStop(run) == AlreadyStopped(run) \/ MayStop(run) => trouble

Restoring == script.does \in {"rollback", "stop"} /\ script.at = "restore"

\* stop has checked base_unchanged; rollback does so now.
MayRestore ==
    script.does = "stop" \/ (dir[r].attempted /\ dir[r].base = "same")

Marked(next) ==
    dir' = [dir EXCEPT ![r].restored = TRUE] /\ To(script.does, next)

\* Variant: the script goes on when the route could not be restored.
RestoreRouteUnchecked ==
    /\ Restoring
    /\ \/ MayRestore /\ Marked("quit") /\ route' = "base"
       \/ To(script.does, "quit") /\ route' \in {route, "down"} /\ dir' = dir
    /\ UNCHANGED <<active, alive, trouble>>

\* compose no up, health.  A start that has not touched the route has nothing
\* to restore; rollback leaves a changed deployment alone.
RestoreRoute ==
    /\ Restoring
    /\ \/ script.does = "rollback" /\ ~dir[r].attempted /\ Marked("quit") /\ route' = route
       \/ MayRestore /\ Marked("quit") /\ route' = "base"
       \/ trouble /\ MayRestore /\ Ends("failed") /\ route' \in {route, "base", "down"} /\ dir' = dir
       \/ /\ script.does = "rollback" /\ dir[r].attempted /\ dir[r].base = "changed"
          /\ Ends("failed") /\ UNCHANGED <<route, dir>>
    /\ UNCHANGED <<active, alive, trouble>>

\* Variant: a run whose sidecars would not stop is no longer active.
StopSidecarsClearing ==
    /\ script.does \in {"rollback", "stop"} /\ script.at = "quit"
    /\ \E left \in SUBSET dir[r].known :
         alive' = [x \in Sidecars |->
           IF x \in dir[r].known \ left /\ alive[x] = r THEN None ELSE alive[x]]
    /\ To(script.does, "clear")
    /\ UNCHANGED <<active, dir, route, trouble>>

\* process stop: only what the run has recorded, and some of it may stay.
StopSidecars ==
    /\ script.does \in {"rollback", "stop"} /\ script.at = "quit"
    /\ \E left \in IF trouble THEN SUBSET dir[r].known ELSE {{}} :
         /\ alive' = [x \in Sidecars |->
              IF x \in dir[r].known \ left /\ alive[x] = r THEN None ELSE alive[x]]
         /\ IF \E x \in left : alive[x] = r THEN Ends("failed")
            ELSE To(script.does, "clear")
    /\ UNCHANGED <<active, dir, route, trouble>>

Clear ==
    /\ script.does \in {"rollback", "stop"} /\ script.at = "clear"
    /\ active' = IF active = r THEN None ELSE active
    /\ Ends(IF script.does = "stop" THEN "ok" ELSE "failed")
    /\ UNCHANGED <<dir, alive, route, trouble>>

-----------------------------------------------------------------------------
\* SIGKILL.  A sidecar may have been launched and not recorded.
Kill ==
    /\ trouble /\ ~Free /\ Ends("failed")
    /\ \/ UNCHANGED alive
       \/ \E x \in Sidecars : At("start", x) /\ alive' = [alive EXCEPT ![x] = r]
    /\ UNCHANGED <<active, dir, route, trouble>>

\* Somebody changes the deployment during a run, or changes it back.
BaseChanges ==
    /\ trouble
    /\ \E run \in Runs :
         /\ dir[run].made /\ ~dir[run].restored
         /\ dir' = [dir EXCEPT ![run].base = IF @ = "same" THEN "changed" ELSE "same"]
    /\ UNCHANGED <<script, active, alive, route, trouble>>

TroubleEnds ==
    /\ trouble /\ trouble' = FALSE
    /\ UNCHANGED <<script, active, dir, alive, route>>

ScriptStep ==
    \/ Prepare \/ Launch("shim", "mitm") \/ Launch("mitm", "ready")
    \/ ProxyReady \/ VerifyBase \/ Apply \/ Check
    \/ RestoreRoute \/ StopSidecars \/ Clear

-----------------------------------------------------------------------------
\* "never leave it pointing at a dead proxy" (capturectl.py:273): while the
\* bridge is routed through a capture, both its sidecars run, whatever fails,
\* is killed or is tried again.
NeverCutOff ==
    route \in Runs => \A x \in Sidecars : alive[x] = route

\* What a run has changed, a stop of that run can find: a run whose route or
\* recorded sidecars are there is the active one, so no other can start, and
\* the marker that lets stop say "already stopped" is true.
StopCanReach ==
    /\ route \in Runs => active = route
    /\ \A x \in Sidecars : alive[x] # None /\ x \in dir[alive[x]].known => active = alive[x]
    /\ \A run \in Runs : dir[run].restored => route # run

=============================================================================
