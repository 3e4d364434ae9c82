---------------------------- MODULE CaptureProofs ----------------------------
(***************************************************************************)
(* The safety of RemoteCapture and Capture for any sets of runs.  On the   *)
(* server, the invariant says what a script may take for granted at each   *)
(* of its steps: the run is the active one, its route has been touched or  *)
(* not, its sidecars run.  On the desktop, it follows the patches and what *)
(* the answer of a stop stands for.                                        *)
(***************************************************************************)
EXTENDS Capture, TLAPS

Untouched == {"prepare", "shim", "mitm", "ready", "verify"}

\* A run that has no directory has no markers and is not active.
FreshDirs ==
    \A run \in Runs : ~dir[run].made =>
      ~dir[run].attempted /\ ~dir[run].restored /\ active # run

\* A route through a run is an active one's, marked, with both sidecars.
RouteOK ==
    route \in Runs =>
      /\ active = route /\ dir[route].attempted /\ ~dir[route].restored
      /\ \A x \in Sidecars : alive[x] = route

\* A recorded sidecar is the active run's.
KnownOK == \A x \in Sidecars :
    alive[x] # None /\ x \in dir[alive[x]].known => active = alive[x]

ScriptOK ==
    /\ ~Free => r \in Runs /\ dir[r].made
    /\ ~Free /\ script.at # "prepare" => active = r
    /\ script.does = "start" =>
         /\ script.at \in Untouched \cup {"apply", "check"}
         /\ ~dir[r].restored
         /\ script.at \in Untouched <=> ~dir[r].attempted
         /\ script.at = "prepare" => active = None
         /\ script.at = "mitm" => alive["shim"] = r
         /\ script.at \in {"ready", "verify", "apply", "check"} =>
              \A x \in Sidecars : alive[x] = r
    /\ script.does \in {"rollback", "stop"} => script.at \in {"restore", "quit", "clear"}
    /\ script.does \in {"rollback", "stop"} /\ script.at \in {"quit", "clear"} => dir[r].restored
    /\ script.does \in {"rollback", "stop"} /\ script.at = "clear" =>
         \A x \in dir[r].known : alive[x] # r

RemoteInv == RemoteTypeOK /\ FreshDirs /\ RouteOK /\ KnownOK /\ ScriptOK

\* What a successful stop stands for.
Undone(run) ==
    /\ route # run /\ active # run
    /\ \A x \in dir[run].known : alive[x] # run

-----------------------------------------------------------------------------
(* The server *)

LEMMA RemoteInitInv == RemoteInit => RemoteInv
<1>. SUFFICES ASSUME RemoteInit PROVE RemoteInv
  OBVIOUS
<1>1. RemoteTypeOK
  BY DEF RemoteInit, RemoteTypeOK, Script, Directory, Sidecars
<1>2. FreshDirs /\ ScriptOK
  BY NoneAssumption DEF RemoteInit, FreshDirs, ScriptOK, Free
<1>3. RouteOK /\ KnownOK
  BY RouteAssumption DEF RemoteInit, RouteOK, KnownOK
<1>. QED BY <1>1, <1>2, <1>3 DEF RemoteInv

\* Where no script runs, or the step is only about the script.
LEMMA OnlyScript ==
    ASSUME RemoteInv, UNCHANGED <<active, dir, alive, route>>, trouble' \in BOOLEAN,
           script' \in Script, ScriptOK'
    PROVE  RemoteInv'
BY DEF RemoteInv, RemoteTypeOK, FreshDirs, RouteOK, KnownOK

LEMMA EndsInv ==
    ASSUME RemoteInv, UNCHANGED <<active, dir, alive, route>>, trouble' \in BOOLEAN,
           script' \in Script, script'.does = "nothing"
    PROVE  RemoteInv'
BY OnlyScript DEF ScriptOK, Free

LEMMA ScriptEnds ==
    ASSUME RemoteInv, NEW how \in {"ok", "failed"}, Ends(how)
    PROVE  script' \in Script /\ script'.does = "nothing" /\ script'.run = r /\ script'.ended = how
BY DEF RemoteInv, RemoteTypeOK, Script, Ends, r

LEMMA ScriptGoes ==
    ASSUME RemoteInv, NEW does \in {"start", "rollback", "stop"},
           NEW point \in Untouched \cup {"apply", "check", "restore", "quit", "clear"},
           To(does, point)
    PROVE  /\ script' \in Script /\ script'.does = does
           /\ script'.at = point /\ script'.run = r
BY DEF RemoteInv, RemoteTypeOK, Script, To, r, Untouched

LEMMA ScriptBegins ==
    ASSUME NEW does \in {"start", "stop"}, NEW run \in Runs,
           NEW point \in {"prepare", "restore"}, Began(does, run, point)
    PROVE  /\ script' \in Script /\ script'.does = does
           /\ script'.at = point /\ script'.run = run
BY DEF Script, Began

\* The trap of a failing start.
LEMMA TrapsInv ==
    ASSUME RemoteInv, UNCHANGED <<active, dir, alive, route, trouble>>,
           script.does = "start", script.at # "prepare", To("rollback", "restore")
    PROVE  RemoteInv'
<1>1. script' \in Script /\ script'.does = "rollback" /\ script'.at = "restore" /\ script'.run = r
  BY ScriptGoes
<1>2. ScriptOK'
  BY <1>1 DEF RemoteInv, ScriptOK, Free, r
<1>. QED BY <1>1, <1>2, OnlyScript DEF RemoteInv, RemoteTypeOK

LEMMA StartBeginsInv == ASSUME RemoteInv, NEW run \in Runs, StartBegins(run) PROVE RemoteInv'
<1>1. /\ script' \in Script /\ script'.does = "start" /\ script'.at = "prepare"
      /\ script'.run = run
  BY ScriptBegins DEF StartBegins
<1>2. /\ dir' \in [Runs -> Directory] /\ dir'[run].made
      /\ ~dir'[run].attempted /\ ~dir'[run].restored
      /\ \A q \in Runs : /\ dir'[q].attempted = dir[q].attempted
                         /\ dir'[q].restored = dir[q].restored
                         /\ dir'[q].known = dir[q].known
                         /\ q # run => dir'[q].made = dir[q].made
  BY DEF StartBegins, RemoteInv, RemoteTypeOK, Directory, FreshDirs
<1>3. ScriptOK'
  BY <1>1, <1>2 DEF StartBegins, ScriptOK, Free, r, Untouched
<1>4. RouteOK' /\ KnownOK' /\ FreshDirs'
  BY <1>2 DEF StartBegins, RemoteInv, RemoteTypeOK, RouteOK, KnownOK, FreshDirs
<1>. QED BY <1>1, <1>2, <1>3, <1>4 DEF StartBegins, RemoteInv, RemoteTypeOK

LEMMA StopBeginsInv == ASSUME RemoteInv, NEW run \in Runs, StopBegins(run) PROVE RemoteInv'
<1>1. /\ script' \in Script /\ script'.does = "stop" /\ script'.at = "restore"
      /\ script'.run = run
  BY ScriptBegins DEF StopBegins
<1>2. dir[run].made
  BY DEF StopBegins, MayStop, RemoteInv, FreshDirs
<1>3. ScriptOK'
  BY <1>1, <1>2 DEF StopBegins, MayStop, ScriptOK, Free, r
<1>. QED BY <1>1, <1>3, OnlyScript DEF StopBegins, RemoteInv, RemoteTypeOK

LEMMA PrepareInv == ASSUME RemoteInv, Prepare PROVE RemoteInv'
<1>0. script.does = "start" /\ script.at = "prepare" /\ r \in Runs /\ dir[r].made /\ active = None
  BY DEF Prepare, At, RemoteInv, ScriptOK, Free
<1>1. CASE active' = r /\ To("start", "shim")
  <2>1. /\ script' \in Script /\ script'.does = "start" /\ script'.at = "shim"
        /\ script'.run = r
    BY <1>1, ScriptGoes DEF Untouched
  <2>2. ScriptOK'
    BY <1>0, <1>1, <2>1 DEF Prepare, RemoteInv, ScriptOK, Free, r, Untouched
  <2>3. RouteOK'
    BY <1>0, NoneAssumption DEF Prepare, RemoteInv, RouteOK
  <2>4. KnownOK'
    BY <1>0 DEF Prepare, RemoteInv, KnownOK
  <2>5. FreshDirs' /\ RemoteTypeOK'
    BY <1>0, <1>1, <2>1 DEF Prepare, RemoteInv, FreshDirs, RemoteTypeOK
  <2>. QED BY <2>2, <2>3, <2>4, <2>5 DEF RemoteInv
<1>2. CASE UNCHANGED active /\ Ends("failed")
  <2>1. script' \in Script /\ script'.does = "nothing"
    BY <1>2, ScriptEnds
  <2>. QED BY <1>2, <2>1, EndsInv DEF Prepare, RemoteInv, RemoteTypeOK
<1>. QED BY <1>1, <1>2 DEF Prepare

LEMMA LaunchInv ==
    ASSUME RemoteInv, NEW x \in Sidecars, NEW next \in {"mitm", "ready"},
           x = "shim" <=> next = "mitm", Launch(x, next)
    PROVE  RemoteInv'
<1>0. /\ script.does = "start" /\ script.at = x /\ r \in Runs /\ dir[r].made /\ active = r
      /\ ~dir[r].attempted /\ ~dir[r].restored /\ route \notin Runs
  BY DEF Launch, At, RemoteInv, ScriptOK, Free, Sidecars, Untouched, RouteOK
<1>1. CASE /\ alive' = [alive EXCEPT ![x] = r]
           /\ dir' = [dir EXCEPT ![r].known = @ \cup {x}]
           /\ To("start", next)
  <2>1. /\ script' \in Script /\ script'.does = "start" /\ script'.at = next
        /\ script'.run = r
    BY <1>1, ScriptGoes DEF Untouched
  <2>2. dir[r] \in Directory
    BY <1>0 DEF RemoteInv, RemoteTypeOK
  <2>3. dir' \in [Runs -> Directory]
    BY <1>0, <1>1, <2>2 DEF RemoteInv, RemoteTypeOK, Directory
  <2>4. \A q \in Runs : /\ dir'[q].attempted = dir[q].attempted
                        /\ dir'[q].restored = dir[q].restored
                        /\ dir'[q].made = dir[q].made
                        /\ q # r => dir'[q].known = dir[q].known
    BY <1>0, <1>1, <2>2 DEF RemoteInv, RemoteTypeOK, Directory
  <2>5. /\ alive' \in [Sidecars -> Runs \cup {None}] /\ alive'[x] = r
        /\ \A y \in Sidecars : y # x => alive'[y] = alive[y]
    BY <1>0, <1>1 DEF RemoteInv, RemoteTypeOK
  <2>6. ScriptOK'
    <3>1. script'.at = "mitm" => alive'["shim"] = r
      BY <2>1, <2>5 DEF Sidecars
    <3>2. script'.at = "ready" => \A y \in Sidecars : alive'[y] = r
      BY <1>0, <2>1, <2>5 DEF RemoteInv, ScriptOK, Sidecars
    <3>. QED BY <1>0, <2>1, <2>4, <3>1, <3>2 DEF Launch, ScriptOK, Free, r, Untouched
  <2>7. KnownOK'
    BY <1>0, <2>4, <2>5 DEF Launch, RemoteInv, KnownOK, RemoteTypeOK
  <2>8. RouteOK' /\ FreshDirs'
    BY <1>0, <2>4 DEF Launch, RemoteInv, RouteOK, FreshDirs
  <2>. QED BY <2>1, <2>3, <2>5, <2>6, <2>7, <2>8 DEF Launch, RemoteInv, RemoteTypeOK
<1>2. CASE UNCHANGED <<alive, dir>> /\ Traps
  BY <1>0, <1>2, TrapsInv DEF Launch, Traps, Sidecars
<1>. QED BY <1>1, <1>2 DEF Launch

LEMMA ProxyReadyInv == ASSUME RemoteInv, ProxyReady PROVE RemoteInv'
<1>1. CASE To("start", "verify")
  <2>1. /\ script' \in Script /\ script'.does = "start" /\ script'.at = "verify"
        /\ script'.run = r
    BY <1>1, ScriptGoes DEF Untouched
  <2>2. ScriptOK'
    BY <2>1 DEF ProxyReady, At, RemoteInv, ScriptOK, Free, r, Untouched
  <2>. QED BY <2>1, <2>2, OnlyScript DEF ProxyReady, RemoteInv, RemoteTypeOK
<1>2. CASE Traps
  BY <1>2, TrapsInv DEF ProxyReady, At, Traps
<1>. QED BY <1>1, <1>2 DEF ProxyReady

\* A marker that is set in the directory of the script's run.
LEMMA MarkerSet ==
    ASSUME RemoteInv, r \in Runs,
           \/ dir' = [dir EXCEPT ![r].attempted = TRUE]
           \/ dir' = [dir EXCEPT ![r].restored = TRUE]
    PROVE  /\ dir' \in [Runs -> Directory]
           /\ \A q \in Runs : /\ dir'[q].made = dir[q].made
                              /\ dir'[q].known = dir[q].known
                              /\ q # r => dir'[q].attempted = dir[q].attempted
                              /\ q # r => dir'[q].restored = dir[q].restored
           /\ dir' = [dir EXCEPT ![r].attempted = TRUE] =>
                dir'[r].attempted /\ dir'[r].restored = dir[r].restored
           /\ dir' = [dir EXCEPT ![r].restored = TRUE] =>
                dir'[r].restored /\ dir'[r].attempted = dir[r].attempted
<1>1. dir[r] \in Directory /\ dir \in [Runs -> Directory]
  BY DEF RemoteInv, RemoteTypeOK
<1>2. CASE dir' = [dir EXCEPT ![r].attempted = TRUE]
  BY <1>1, <1>2 DEF Directory
<1>3. CASE dir' = [dir EXCEPT ![r].restored = TRUE]
  BY <1>1, <1>3 DEF Directory
<1>. QED BY <1>2, <1>3

LEMMA VerifyBaseInv == ASSUME RemoteInv, VerifyBase PROVE RemoteInv'
<1>0. /\ script.does = "start" /\ script.at = "verify" /\ r \in Runs /\ dir[r].made /\ active = r
      /\ ~dir[r].attempted /\ ~dir[r].restored /\ route \notin Runs
  BY DEF VerifyBase, At, RemoteInv, ScriptOK, Free, Untouched, RouteOK
<1>1. CASE dir' = [dir EXCEPT ![r].attempted = TRUE] /\ To("start", "apply")
  <2>1. /\ script' \in Script /\ script'.does = "start" /\ script'.at = "apply"
        /\ script'.run = r
    BY <1>1, ScriptGoes
  <2>2. /\ dir' \in [Runs -> Directory] /\ dir'[r].attempted /\ ~dir'[r].restored
        /\ \A q \in Runs : /\ dir'[q].made = dir[q].made
                           /\ dir'[q].known = dir[q].known
                           /\ q # r => dir'[q].attempted = dir[q].attempted
                           /\ q # r => dir'[q].restored = dir[q].restored
    BY <1>0, <1>1, MarkerSet
  <2>3. ScriptOK'
    BY <1>0, <2>1, <2>2 DEF VerifyBase, RemoteInv, ScriptOK, Free, r, Untouched
  <2>4. RouteOK' /\ KnownOK' /\ FreshDirs'
    BY <1>0, <2>2 DEF VerifyBase, RemoteInv, RouteOK, KnownOK, FreshDirs, RemoteTypeOK
  <2>. QED BY <2>1, <2>2, <2>3, <2>4 DEF VerifyBase, RemoteInv, RemoteTypeOK
<1>2. CASE UNCHANGED dir /\ To("rollback", "restore")
  BY <1>0, <1>2, TrapsInv DEF VerifyBase
<1>. QED BY <1>1, <1>2 DEF VerifyBase

LEMMA ApplyInv == ASSUME RemoteInv, Apply PROVE RemoteInv'
<1>0. /\ script.does = "start" /\ script.at = "apply" /\ r \in Runs /\ dir[r].made /\ active = r
      /\ dir[r].attempted /\ ~dir[r].restored /\ \A x \in Sidecars : alive[x] = r
  BY DEF Apply, At, RemoteInv, ScriptOK, Free, Untouched
<1>1. route' \in {route, r, "down"}
  BY DEF Apply
<1>2. RouteOK' /\ KnownOK' /\ FreshDirs'
  BY <1>0, <1>1, RouteAssumption DEF Apply, RemoteInv, RouteOK, KnownOK, FreshDirs
<1>3. route' \in {"base", "down"} \cup Runs
  BY <1>0, <1>1 DEF RemoteInv, RemoteTypeOK
<1>4. ScriptOK' /\ script' \in Script
  <2>1. CASE To("start", "check")
    <3>1. /\ script' \in Script /\ script'.does = "start" /\ script'.at = "check"
          /\ script'.run = r
      BY <2>1, ScriptGoes
    <3>. QED BY <1>0, <3>1 DEF Apply, ScriptOK, Free, r, Untouched
  <2>2. CASE To("rollback", "restore")
    <3>1. /\ script' \in Script /\ script'.does = "rollback" /\ script'.at = "restore"
          /\ script'.run = r
      BY <2>2, ScriptGoes
    <3>. QED BY <1>0, <3>1 DEF Apply, ScriptOK, Free, r
  <2>. QED BY <2>1, <2>2 DEF Apply, Traps
<1>. QED BY <1>2, <1>3, <1>4 DEF Apply, RemoteInv, RemoteTypeOK

LEMMA CheckInv == ASSUME RemoteInv, Check PROVE RemoteInv'
<1>1. CASE Ends("ok")
  <2>1. script' \in Script /\ script'.does = "nothing"
    BY <1>1, ScriptEnds
  <2>. QED BY <2>1, EndsInv DEF Check, RemoteInv, RemoteTypeOK
<1>2. CASE Traps
  BY <1>2, TrapsInv DEF Check, At, Traps
<1>. QED BY <1>1, <1>2 DEF Check

LEMMA RestoreRouteInv == ASSUME RemoteInv, RestoreRoute PROVE RemoteInv'
<1>0. /\ script.does \in {"rollback", "stop"} /\ script.at = "restore" /\ r \in Runs
      /\ dir[r].made /\ active = r
  BY DEF RestoreRoute, Restoring, RemoteInv, ScriptOK, Free
<1>1. ASSUME Marked("quit"), route' = "base" \/ (route' = route /\ ~dir[r].attempted)
      PROVE  RemoteInv'
  <2>1. /\ script' \in Script /\ script'.does \in {"rollback", "stop"} /\ script'.at = "quit"
        /\ script'.run = r
    BY <1>0, <1>1, ScriptGoes DEF Marked
  <2>2. /\ dir' \in [Runs -> Directory] /\ dir'[r].restored
        /\ dir'[r].attempted = dir[r].attempted
        /\ \A q \in Runs : /\ dir'[q].made = dir[q].made
                           /\ dir'[q].known = dir[q].known
                           /\ q # r => dir'[q].attempted = dir[q].attempted
                           /\ q # r => dir'[q].restored = dir[q].restored
    BY <1>0, <1>1, MarkerSet DEF Marked
  <2>3. ScriptOK'
    BY <1>0, <2>1, <2>2 DEF RestoreRoute, ScriptOK, Free, r
  <2>4. route' \notin Runs /\ route' \in {"base", "down"} \cup Runs
    BY <1>0, <1>1, RouteAssumption DEF RemoteInv, RouteOK, RemoteTypeOK
  <2>5. RouteOK' /\ KnownOK' /\ FreshDirs'
    BY <1>0, <2>2, <2>4 DEF RestoreRoute, RemoteInv, RouteOK, KnownOK, FreshDirs, RemoteTypeOK
  <2>. QED BY <2>1, <2>2, <2>3, <2>4, <2>5 DEF RestoreRoute, RemoteInv, RemoteTypeOK
<1>2. ASSUME Ends("failed"), route' \in {route, "base", "down"}, dir' = dir
      PROVE  RemoteInv'
  <2>1. script' \in Script /\ script'.does = "nothing"
    BY <1>2, ScriptEnds
  <2>2. ScriptOK' /\ KnownOK' /\ FreshDirs'
    BY <1>2, <2>1 DEF RestoreRoute, RemoteInv, ScriptOK, KnownOK, FreshDirs, Free
  <2>3. RouteOK' /\ route' \in {"base", "down"} \cup Runs
    BY <1>2, RouteAssumption DEF RestoreRoute, RemoteInv, RouteOK, RemoteTypeOK
  <2>. QED BY <1>2, <2>1, <2>2, <2>3 DEF RestoreRoute, RemoteInv, RemoteTypeOK
<1>. QED BY <1>1, <1>2 DEF RestoreRoute

LEMMA StopSidecarsInv == ASSUME RemoteInv, StopSidecars PROVE RemoteInv'
<1>0. /\ script.does \in {"rollback", "stop"} /\ script.at = "quit" /\ r \in Runs
      /\ dir[r].made /\ dir[r].restored /\ active = r
  BY DEF StopSidecars, RemoteInv, ScriptOK, Free
<1>1. route \notin Runs
  BY <1>0 DEF RemoteInv, RouteOK
<1>2. PICK left \in SUBSET dir[r].known :
        /\ alive' = [x \in Sidecars |->
             IF x \in dir[r].known \ left /\ alive[x] = r THEN None ELSE alive[x]]
        /\ IF \E x \in left : alive[x] = r THEN Ends("failed") ELSE To(script.does, "clear")
  BY DEF StopSidecars
<1>3. /\ alive' \in [Sidecars -> Runs \cup {None}]
      /\ \A x \in Sidecars : alive'[x] \in {alive[x], None}
  BY <1>2 DEF RemoteInv, RemoteTypeOK
<1>4. RouteOK' /\ KnownOK' /\ FreshDirs'
  BY <1>1, <1>3 DEF StopSidecars, RemoteInv, RouteOK, KnownOK, FreshDirs
<1>5. script' \in Script /\ ScriptOK'
  <2>1. CASE Ends("failed")
    <3>1. script' \in Script /\ script'.does = "nothing"
      BY <2>1, ScriptEnds
    <3>. QED BY <3>1 DEF ScriptOK, Free
  <2>2. CASE To(script.does, "clear") /\ ~\E x \in left : alive[x] = r
    <3>1. /\ script' \in Script /\ script'.does \in {"rollback", "stop"} /\ script'.at = "clear"
          /\ script'.run = r
      BY <1>0, <2>2, ScriptGoes
    <3>2. dir[r].known \subseteq Sidecars
      BY <1>0 DEF RemoteInv, RemoteTypeOK, Directory
    <3>3. \A x \in dir[r].known : alive'[x] # r
      BY <1>0, <1>2, <2>2, <3>2, NoneAssumption
    <3>. QED BY <1>0, <3>1, <3>3 DEF StopSidecars, ScriptOK, Free, r
  <2>. QED BY <1>2, <2>1, <2>2
<1>. QED BY <1>3, <1>4, <1>5 DEF StopSidecars, RemoteInv, RemoteTypeOK

LEMMA ClearInv == ASSUME RemoteInv, Clear PROVE RemoteInv'
<1>0. /\ script.does \in {"rollback", "stop"} /\ script.at = "clear" /\ r \in Runs
      /\ dir[r].restored /\ active = r /\ active' = None
      /\ \A x \in dir[r].known : alive[x] # r
  BY DEF Clear, RemoteInv, ScriptOK, Free
<1>1. script' \in Script /\ script'.does = "nothing"
  BY ScriptEnds DEF Clear
<1>2. ScriptOK'
  BY <1>1 DEF ScriptOK, Free
<1>3. RouteOK' /\ KnownOK' /\ FreshDirs'
  BY <1>0, NoneAssumption DEF Clear, RemoteInv, RouteOK, KnownOK, FreshDirs
<1>. QED BY <1>0, <1>1, <1>2, <1>3 DEF Clear, RemoteInv, RemoteTypeOK

LEMMA KillInv == ASSUME RemoteInv, Kill PROVE RemoteInv'
<1>1. script' \in Script /\ script'.does = "nothing"
  BY ScriptEnds DEF Kill
<1>2. CASE UNCHANGED alive
  BY <1>1, <1>2, EndsInv DEF Kill, RemoteInv, RemoteTypeOK
<1>3. CASE \E x \in Sidecars : At("start", x) /\ alive' = [alive EXCEPT ![x] = r]
  <2>1. PICK x \in Sidecars : At("start", x) /\ alive' = [alive EXCEPT ![x] = r]
    BY <1>3
  <2>2. r \in Runs /\ active = r /\ route \notin Runs
    BY <2>1 DEF Kill, At, RemoteInv, ScriptOK, Free, Untouched, Sidecars, RouteOK
  <2>3. /\ alive' \in [Sidecars -> Runs \cup {None}]
        /\ \A y \in Sidecars : alive'[y] \in {alive[y], r}
    BY <2>1, <2>2 DEF RemoteInv, RemoteTypeOK
  <2>4. RouteOK' /\ KnownOK' /\ FreshDirs' /\ ScriptOK'
    BY <1>1, <2>2, <2>3 DEF Kill, RemoteInv, RouteOK, KnownOK, FreshDirs, ScriptOK, Free
  <2>. QED BY <1>1, <2>3, <2>4 DEF Kill, RemoteInv, RemoteTypeOK
<1>. QED BY <1>2, <1>3 DEF Kill

LEMMA BaseChangesInv == ASSUME RemoteInv, BaseChanges PROVE RemoteInv'
<1>1. PICK run \in Runs :
        /\ dir[run].made /\ ~dir[run].restored
        /\ dir' = [dir EXCEPT ![run].base = IF @ = "same" THEN "changed" ELSE "same"]
  BY DEF BaseChanges
<1>2. dir \in [Runs -> Directory] /\ dir[run] \in Directory
  BY DEF RemoteInv, RemoteTypeOK
<1>3. /\ dir' \in [Runs -> Directory]
      /\ \A q \in Runs : /\ dir'[q].made = dir[q].made
                         /\ dir'[q].known = dir[q].known
                         /\ dir'[q].attempted = dir[q].attempted
                         /\ dir'[q].restored = dir[q].restored
  BY <1>1, <1>2 DEF Directory
<1>4. RouteOK' /\ KnownOK' /\ FreshDirs'
  BY <1>3 DEF BaseChanges, RemoteInv, RouteOK, KnownOK, FreshDirs, RemoteTypeOK
<1>5. ScriptOK'
  BY <1>3 DEF BaseChanges, RemoteInv, ScriptOK, Free, r
<1>. QED BY <1>3, <1>4, <1>5 DEF BaseChanges, RemoteInv, RemoteTypeOK

\* Nothing is changed on the server, or only that nothing fails any more.
LEMMA QuietInv ==
    ASSUME RemoteInv, UNCHANGED <<script, active, dir, alive, route>>, trouble' \in BOOLEAN
    PROVE  RemoteInv'
BY DEF RemoteInv, RemoteTypeOK, FreshDirs, RouteOK, KnownOK, ScriptOK, Free, r, Sidecars

LEMMA ScriptStepInv == ASSUME RemoteInv, ScriptStep PROVE RemoteInv'
BY PrepareInv, LaunchInv, ProxyReadyInv, VerifyBaseInv, ApplyInv, CheckInv,
   RestoreRouteInv, StopSidecarsInv, ClearInv DEF ScriptStep, Sidecars

-----------------------------------------------------------------------------
(* What a script may touch *)

\* A script changes its own run's directory, and leads the route, the active
\* run and the sidecars to its own run or away from one.
LEMMA Footprint ==
    ASSUME RemoteInv, ScriptStep \/ Kill
    PROVE  /\ ~Free /\ script'.run = r
           /\ route' \in {route, r, "base", "down"}
           /\ active' \in {active, r, None}
           /\ \A x \in Sidecars : alive'[x] \in {alive[x], r, None}
           /\ \A q \in Runs : q # r => dir'[q] = dir[q]
<1>1. ~Free
  BY DEF ScriptStep, Kill, Prepare, Launch, ProxyReady, VerifyBase, Apply, Check, RestoreRoute,
    Restoring, StopSidecars, Clear, At, Free
<1>2. r \in Runs /\ alive \in [Sidecars -> Runs \cup {None}] /\ dir \in [Runs -> Directory]
  BY <1>1 DEF RemoteInv, RemoteTypeOK, ScriptOK
<1>3. CASE Prepare
  BY <1>1, <1>2, <1>3 DEF Prepare, To, Ends, r, RemoteInv, RemoteTypeOK, Script
<1>4. ASSUME NEW x \in Sidecars, NEW next, Launch(x, next)
      PROVE  /\ script'.run = r /\ route' = route /\ active' = active
             /\ \A y \in Sidecars : alive'[y] \in {alive[y], r, None}
             /\ \A q \in Runs : q # r => dir'[q] = dir[q]
  <2>1. script'.run = r
    BY <1>4 DEF Launch, Traps, To, r, RemoteInv, RemoteTypeOK, Script
  <2>2. \A q \in Runs : q # r => dir'[q] = dir[q]
    BY <1>2, <1>4 DEF Launch
  <2>3. \A y \in Sidecars : alive'[y] \in {alive[y], r}
    BY <1>2, <1>4 DEF Launch
  <2>. QED BY <1>4, <2>1, <2>2, <2>3 DEF Launch
<1>5. CASE ProxyReady \/ Check
  BY <1>1, <1>2, <1>5 DEF ProxyReady, Check, Traps, To, Ends, r, RemoteInv, RemoteTypeOK, Script
<1>6. CASE VerifyBase
  <2>1. script'.run = r
    BY <1>6 DEF VerifyBase, To, r, RemoteInv, RemoteTypeOK, Script
  <2>2. \A q \in Runs : q # r => dir'[q] = dir[q]
    BY <1>2, <1>6 DEF VerifyBase
  <2>. QED BY <1>1, <1>6, <2>1, <2>2 DEF VerifyBase
<1>7. CASE Apply
  BY <1>1, <1>7 DEF Apply, Traps, To, r, RemoteInv, RemoteTypeOK, Script
<1>8. CASE RestoreRoute
  <2>1. script'.run = r
    BY <1>8 DEF RestoreRoute, Marked, To, Ends, r, RemoteInv, RemoteTypeOK, Script
  <2>2. \A q \in Runs : q # r => dir'[q] = dir[q]
    BY <1>2, <1>8 DEF RestoreRoute, Marked
  <2>3. route' \in {route, "base", "down"}
    BY <1>8 DEF RestoreRoute
  <2>. QED BY <1>1, <1>8, <2>1, <2>2, <2>3 DEF RestoreRoute
<1>9. CASE StopSidecars
  <2>1. script'.run = r
    BY <1>9 DEF StopSidecars, To, Ends, r, RemoteInv, RemoteTypeOK, Script
  <2>2. \A x \in Sidecars : alive'[x] \in {alive[x], None}
    BY <1>9 DEF StopSidecars
  <2>. QED BY <1>1, <1>9, <2>1, <2>2 DEF StopSidecars
<1>10. CASE Clear
  BY <1>1, <1>10 DEF Clear, Ends, r, RemoteInv, RemoteTypeOK, Script
<1>11. CASE Kill
  BY <1>1, <1>2, <1>11 DEF Kill, Ends, r, RemoteInv, RemoteTypeOK, Script
<1>. QED BY <1>1, <1>3, <1>4, <1>5, <1>6, <1>7, <1>8, <1>9, <1>10, <1>11 DEF ScriptStep, Sidecars

\* A run that has been undone stays so while it is not started.
LEMMA UndoneStays ==
    ASSUME RemoteInv, NEW run \in Runs, Undone(run), ~Free => r # run,
           \/ ScriptStep \/ Kill \/ BaseChanges \/ TroubleEnds
           \/ \E q \in Runs \ {run} : StartBegins(q)
           \/ \E q \in Runs : StopBegins(q)
    PROVE  Undone(run)' /\ (~Free' => r' # run) /\ dir'[run].made = dir[run].made
<1>0. dir[run].known \subseteq Sidecars
  BY DEF RemoteInv, RemoteTypeOK, Directory
<1>1. CASE ScriptStep \/ Kill
  <2>1. r # run /\ r' # run
    BY <1>1, Footprint DEF r
  <2>2. dir'[run] = dir[run]
    BY <1>1, <2>1, Footprint
  <2>3. route' # run /\ active' # run
    BY <1>1, <2>1, Footprint, NoneAssumption, RouteAssumption DEF Undone
  <2>4. \A x \in dir'[run].known : alive'[x] # run
    BY <1>0, <1>1, <2>1, <2>2, Footprint, NoneAssumption DEF Undone
  <2>. QED BY <2>1, <2>2, <2>3, <2>4 DEF Undone
<1>2. CASE BaseChanges
  <2>1. PICK q \in Runs :
          dir' = [dir EXCEPT ![q].base = IF @ = "same" THEN "changed" ELSE "same"]
    BY <1>2 DEF BaseChanges
  <2>2. dir'[run].known = dir[run].known /\ dir'[run].made = dir[run].made
    BY <2>1 DEF RemoteInv, RemoteTypeOK, Directory
  <2>. QED BY <1>2, <2>2 DEF BaseChanges, Undone, Free, r
<1>3. CASE TroubleEnds
  BY <1>3 DEF TroubleEnds, Undone, Free, r
<1>4. CASE \E q \in Runs \ {run} : StartBegins(q)
  <2>1. PICK q \in Runs \ {run} : StartBegins(q)
    BY <1>4
  <2>2. script'.run = q
    BY <2>1 DEF StartBegins, Began
  <2>3. dir'[run] = dir[run]
    BY <2>1 DEF StartBegins, RemoteInv, RemoteTypeOK
  <2>. QED BY <2>1, <2>2, <2>3 DEF StartBegins, Undone, r
<1>5. CASE \E q \in Runs : StopBegins(q)
  <2>1. PICK q \in Runs : StopBegins(q)
    BY <1>5
  <2>2. script'.run = q /\ q # run
    BY <2>1 DEF StopBegins, MayStop, Began, Undone
  <2>. QED BY <2>1, <2>2 DEF StopBegins, Undone, r
<1>. QED BY <1>1, <1>2, <1>3, <1>4, <1>5

\* A run is undone once its stop has cleared it, or when it is found stopped.
LEMMA ClearUndoes == ASSUME RemoteInv, Clear PROVE Undone(r)'
<1>1. /\ r \in Runs /\ active = r /\ active' = None /\ script'.run = r
      /\ \A x \in dir[r].known : alive[x] # r
  BY ScriptEnds DEF Clear, RemoteInv, ScriptOK, Free
<1>2. route' # r
  BY <1>1 DEF Clear, RemoteInv, RouteOK, ScriptOK
<1>. QED BY <1>1, <1>2, NoneAssumption DEF Clear, Undone, r

LEMMA StoppedIsUndone ==
    ASSUME RemoteInv, NEW run \in Runs, AlreadyStopped(run) PROVE Undone(run)
<1>1. active # run /\ route # run
  BY NoneAssumption DEF AlreadyStopped, RemoteInv, RouteOK
<1>2. \A x \in dir[run].known : alive[x] # run
  BY <1>1, NoneAssumption DEF RemoteInv, RemoteTypeOK, Directory, KnownOK
<1>. QED BY <1>1, <1>2 DEF Undone

-----------------------------------------------------------------------------
(* The desktop *)

Idle == state.phase \in {"none", "stopped"}
Busy == ~Is("")
Calling == Is("call start") \/ Is("wait start")
Patching == Is("patch")
Writing == Is("write") \/ Is("finish")
Undoing == Is("restore") \/ Is("rewrite")
Rewriting == Is("rewrite")

\* Which launchers may hold a patch: those recorded, and of these, during a
\* restore, those it has not come to.
FilesOK ==
    /\ Busy => ~Idle
    /\ Calling => state.patches = 0
    /\ Patching => command.n = state.patches + 1 /\ command.n \in DOMAIN Files
    /\ Writing => command.n = state.patches /\ command.n \in DOMAIN Files
    /\ Undoing => command.n <= state.patches
    /\ Rewriting => command.n \in DOMAIN Files
    /\ \A f \in DOMAIN Files :
         f > state.patches \/ (Undoing /\ f > command.n) \/ Idle => file[f] = "original"

\* A run undone stays so if no start of it is to come: one that is still sent
\* finds its directory made, and is refused.
Over(run) ==
    /\ Undone(run) /\ (~Free => r # run)
    /\ run \in sent => dir[run].made

\* A stop has told the desktop that the run is stopped.
Told == state.phase = "stopped" \/ Undoing \/ Awaits("wait stop", "ok")

\* The answer of a stop stands for a run undone, and stays true, unless the
\* stop has overtaken the run's start; what a stop waits for is its own script.
StopOK ==
    /\ state.phase # "none" => state.run \in LocalRuns /\ state.run \in begun
    /\ sent \subseteq begun
    /\ Told /\ ~overtaken => Over(state.run)
    /\ Awaits("wait stop", "runs") => script.does = "stop" /\ r = state.run

CaptureInv == TypeOK /\ RemoteInv /\ FilesOK /\ StopOK

LEMMA InitInv == Init => CaptureInv
<1>. SUFFICES ASSUME Init PROVE CaptureInv
  OBVIOUS
<1>1. RemoteInv
  BY RemoteInitInv DEF Init
<1>2. TypeOK
  <2>1. Len(Files) = 2 /\ DOMAIN Files = 1 .. 2
    BY DEF Files
  <2>2. file \in [DOMAIN Files -> {"original", "patched", "torn", "edited"}]
    BY DEF Init
  <2>3. state \in [phase : {"none", "starting", "start_failed", "running", "stopped"},
                  run : LocalRuns \cup {None}, patches : 0 .. Len(Files)]
    <3>1. 0 \in 0 .. Len(Files)
      BY <2>1
    <3>2. state = [phase |-> "none", run |-> None, patches |-> 0]
      BY DEF Init
    <3>. QED BY <3>1, <3>2
  <2>. QED BY <1>1, <2>1, <2>2, <2>3 DEF Init, TypeOK, RemoteInv
<1>3. FilesOK /\ StopOK
  BY DEF Init, FilesOK, StopOK, Told, Awaits, Idle, Busy, Calling, Patching, Writing, Undoing,
    Rewriting, Is, Files
<1>. QED BY <1>1, <1>2, <1>3 DEF CaptureInv

\* The server's part of a step.
LEMMA RemoteKept == ASSUME CaptureInv, Next PROVE RemoteInv'
<1>1. CASE UNCHANGED remote
  BY <1>1, QuietInv DEF CaptureInv, RemoteInv, RemoteTypeOK, remote
<1>2. CASE StopGetsLock
  <2>1. state.run \in Runs
    BY <1>2, LocalRunsAssumption
      DEF StopGetsLock, CaptureInv, FilesOK, StopOK, Awaits, Is, Busy, Idle
  <2>. QED BY <1>2, <2>1, StopBeginsInv DEF StopGetsLock, CaptureInv
<1>3. CASE Queued
  BY <1>1, <1>3, LocalRunsAssumption, StartBeginsInv
    DEF Queued, StartGetsLock, StartTurnedAway, CaptureInv
<1>4. CASE Others
  BY <1>4, StartBeginsInv, StopBeginsInv DEF Others, CaptureInv
<1>5. CASE Server
  <2>1. CASE TroubleEnds
    BY <2>1, QuietInv DEF TroubleEnds, CaptureInv
  <2>. QED BY <1>5, <2>1, ScriptStepInv, KillInv, BaseChangesInv DEF Server, CaptureInv
<1>6. Next => UNCHANGED remote \/ StopGetsLock \/ Queued \/ Others \/ Server
  BY DEF Next, Command, Start, Stop, CallStart, StartAnswers, Patch, Write, Finish, Settle,
    StartFails, CallStop, StopFindsNone, StopTurnedAway, StopAnswers, Restore, Rewrite, Close,
    Interrupt, Edit
<1>. QED BY <1>1, <1>2, <1>3, <1>4, <1>5, <1>6

\* A step of the desktop alone leaves the server's predicates.
LEMMA SameRemote ==
    ASSUME UNCHANGED remote, UNCHANGED sent, NEW run
    PROVE  /\ Undone(run)' = Undone(run) /\ Over(run)' = Over(run) /\ Free' = Free /\ r' = r
           /\ script' = script /\ dir' = dir
BY DEF remote, Undone, Over, Free, r

LEMMA Typed ==
    ASSUME CaptureInv
    PROVE  /\ Len(Files) = 2 /\ DOMAIN Files = 1 .. 2
           /\ command.n \in 0 .. 2 /\ state.patches \in 0 .. 2
           /\ file \in [1 .. 2 -> {"original", "patched", "torn", "edited"}]
<1>1. Len(Files) = 2 /\ DOMAIN Files = 1 .. 2
  BY DEF Files
<1>. QED BY <1>1 DEF CaptureInv, TypeOK

LEMMA StartInv ==
    ASSUME CaptureInv, NEW run \in LocalRuns, Start(run)
    PROVE  FilesOK' /\ StopOK'
<1>0. Idle
  BY DEF Start, Idle
<1>1. \A f \in DOMAIN Files : file[f] = "original"
  BY <1>0, Typed DEF CaptureInv, FilesOK
<1>2. /\ state' = [phase |-> "starting", run |-> run, patches |-> 0]
      /\ command' = [at |-> "call start", n |-> 0, call |-> ""]
      /\ file' = file /\ sent' = sent /\ begun' = begun \cup {run}
  BY DEF Start, Then
<1>3. ~Idle' /\ ~Patching' /\ ~Writing' /\ ~Undoing' /\ ~Rewriting' /\ state'.patches = 0
  BY <1>2 DEF Idle, Patching, Writing, Undoing, Rewriting, Is
<1>4. FilesOK'
  BY <1>1, <1>2, <1>3 DEF FilesOK
<1>5. StopOK'
  BY <1>2, <1>3 DEF CaptureInv, StopOK, Told, Awaits, Is
<1>. QED BY <1>4, <1>5

\* A command that has failed, ended or been killed, or begins to stop.
LEMMA LeavesInv ==
    ASSUME CaptureInv, NEW point \in {"", "fail", "call stop"}, Then(point, 0),
           UNCHANGED <<remote, file, starts>>,
           state'.run = state.run, state'.patches = state.patches,
           UNCHANGED state \/ (state'.phase \notin {"none", "stopped"} /\ Busy),
           point # "" => state'.phase \notin {"none", "stopped"}
    PROVE  FilesOK' /\ StopOK'
<1>1. ~Calling' /\ ~Patching' /\ ~Writing' /\ ~Undoing' /\ ~Rewriting' /\ ~(Is("wait stop"))'
  BY DEF Then, Calling, Patching, Writing, Undoing, Rewriting, Is
<1>2. (Busy' => ~Idle') /\ (Idle' => Idle)
  BY DEF Then, Busy, Idle, Is
<1>3. FilesOK'
  BY <1>1, <1>2, Typed DEF CaptureInv, FilesOK
<1>4. StopOK'
  <2>1. state'.phase # "none" => state.run \in LocalRuns /\ state.run \in begun
    BY DEF CaptureInv, FilesOK, StopOK, Idle
  <2>2. Told' => Told
    BY <1>1 DEF Told, Awaits
  <2>3. sent' = sent /\ begun' = begun /\ overtaken' = overtaken
    BY DEF starts
  <2>. QED BY <1>1, <2>1, <2>2, <2>3, SameRemote DEF CaptureInv, StopOK, Awaits
<1>. QED BY <1>3, <1>4

LEMMA FailsInv ==
    ASSUME CaptureInv, Fails \/ StopFails, UNCHANGED <<remote, state, file, starts>>, Busy
    PROVE  FilesOK' /\ StopOK'
<1>1. state.phase \notin {"none", "stopped"}
  BY DEF CaptureInv, FilesOK, Idle
<1>. QED BY <1>1, LeavesInv DEF Fails, StopFails

\* The desktop goes on without touching a launcher.
LEMMA GoesInv ==
    ASSUME CaptureInv, NEW point \in {"patch", "restore"}, NEW n, Then(point, n),
           UNCHANGED <<remote, state, file, starts>>, Busy,
           point = "patch" => n = state.patches + 1 /\ n \in DOMAIN Files,
           point = "restore" =>
             /\ n <= state.patches /\ (~overtaken => Over(state.run))
             /\ \A f \in DOMAIN Files : f > n => file[f] = "original"
    PROVE  FilesOK' /\ StopOK'
<1>0. command'.at = point /\ command'.n = n /\ ~Idle
  BY DEF Then, CaptureInv, FilesOK
<1>1. /\ ~Calling' /\ (Patching' => point = "patch") /\ ~Writing'
      /\ (Undoing' => point = "restore") /\ ~Rewriting' /\ Idle' = Idle /\ ~(Is("wait stop"))'
  BY <1>0 DEF Calling, Patching, Writing, Undoing, Rewriting, Idle, Is
<1>2. FilesOK'
  BY <1>0, <1>1 DEF CaptureInv, FilesOK
<1>3. StopOK'
  <2>1. sent' = sent /\ begun' = begun /\ overtaken' = overtaken /\ state' = state
    BY DEF starts
  <2>2. Told' => point = "restore"
    BY <1>0, <1>1, <2>1 DEF Told, Awaits, Idle
  <2>. QED BY <1>1, <2>1, <2>2, SameRemote DEF CaptureInv, StopOK, Awaits
<1>. QED BY <1>2, <1>3

Points == {"", "call start", "wait start", "patch", "write", "finish", "settle", "fail",
           "call stop", "wait stop", "restore", "rewrite", "close"}
Comings == {"", "sent", "runs", "ok", "failed"}
Commands == [at : Points, n : 0 .. 2, call : Comings]

LEMMA Goes ==
    ASSUME NEW point \in Points, NEW n \in 0 .. 2, Then(point, n)
    PROVE  command' \in Commands
BY DEF Then, Commands, Comings

LEMMA AtPoint == ASSUME NEW point, NEW n, Then(point, n) PROVE command'.at = point
<1>1. command' = [at |-> point, n |-> n, call |-> ""]
  BY DEF Then
<1>. QED BY <1>1

LEMMA Sends ==
    ASSUME NEW point \in Points, Calls(point)
    PROVE  command' \in Commands
<1>1. 0 \in 0 .. 2 /\ "sent" \in Comings
  BY DEF Comings
<1>2. command' = [at |-> point, n |-> 0, call |-> "sent"]
  BY DEF Calls
<1>. QED BY <1>1, <1>2 DEF Commands

LEMMA Learns ==
    ASSUME command \in Commands, NEW call \in Comings, Now(call)
    PROVE  command' \in Commands
BY DEF Now, Commands

LEMMA TypeKept == ASSUME CaptureInv, Next PROVE TypeOK'
<1>0. Len(Files) = 2 /\ DOMAIN Files = 1 .. 2 /\ RemoteTypeOK'
  BY RemoteKept DEF Files, RemoteInv
<1>1. /\ TypeOK
      /\ command \in Commands
      /\ command.n \in 0 .. 2 /\ state.patches \in 0 .. 2
  BY <1>0 DEF CaptureInv, TypeOK, Points, Comings, Commands
<1>2. file' \in [DOMAIN Files -> {"original", "patched", "torn", "edited"}]
  BY <1>1 DEF TypeOK, Next, Command, Queued, Tells, Start, Stop, CallStart, StartGetsLock,
    StartTurnedAway, StartAnswers, Patch, Write, Finish, Settle, StartFails, CallStop,
    StopFindsNone, StopGetsLock, StopTurnedAway, StopAnswers, Restore, Rewrite, Close, Interrupt,
    Edit, Others, Server
<1>3. command' \in Commands
  <2>0. 0 \in 0 .. 2 /\ 1 \in 0 .. 2
    OBVIOUS
  <2>1. ASSUME NEW run \in LocalRuns, Start(run) PROVE Then("call start", 0)
    BY <2>1 DEF Start
  <2>2. CASE \E point \in Points : Then(point, 0) \/ Then(point, 1) \/ Then(point, command.n)
    BY <1>1, <2>0, <2>2, Goes
  <2>3. CASE Finish
    <3>1. command.n < 2 => command.n + 1 \in 0 .. 2
      BY <1>1
    <3>. QED BY <1>0, <2>0, <2>3, <3>1, Goes DEF Finish, Points
  <2>4. CASE Restore \/ Rewrite
    <3>1. command.n > 0
      <4>1. CASE Rewrite
        <5>1. Rewriting
          BY <4>1 DEF Rewrite, Rewriting
        <5>. QED BY <1>0, <5>1 DEF CaptureInv, FilesOK
      <4>2. CASE Restore
        BY <4>2 DEF Restore
      <4>. QED BY <2>4, <4>1, <4>2
    <3>2. command.n - 1 \in 0 .. 2
      BY <1>1, <3>1
    <3>. QED BY <1>1, <2>0, <2>4, <3>2, Goes DEF Restore, Rewrite, Points, StopFails
  <2>5. CASE UNCHANGED command
    BY <1>1, <2>5
  <2>6. CASE Stop \/ CallStart \/ StartAnswers \/ Patch \/ Write \/ Settle \/ StartFails
             \/ CallStop \/ StopAnswers \/ Close \/ Interrupt
    <3>1. CASE Stop \/ Interrupt \/ StartFails \/ Settle \/ Close
      BY <2>2, <3>1 DEF Stop, Interrupt, StartFails, Settle, Close, Fails, StopFails, Points
    <3>2. CASE CallStart \/ CallStop
      <4>1. CASE Calls("wait start") \/ Calls("wait stop")
        BY <4>1, Sends DEF Points
      <4>2. CASE Fails \/ StopFails
        BY <2>2, <4>2 DEF Fails, StopFails, Points
      <4>. QED BY <3>2, <4>1, <4>2 DEF CallStart, CallStop
    <3>3. CASE StartAnswers
      BY <2>2, <3>3 DEF StartAnswers, Fails, Points
    <3>4. CASE StopAnswers
      <4>1. Then("restore", state.patches) \/ Then("", 0)
        BY <3>4 DEF StopAnswers, StopFails
      <4>. QED BY <1>1, <2>0, <4>1, Goes DEF Points
    <3>5. CASE Patch \/ Write
      BY <2>2, <3>5 DEF Patch, Write, Fails, Points
    <3>. QED BY <2>6, <3>1, <3>2, <3>3, <3>4, <3>5
  <2>7. CASE Queued
    <3>1. UNCHANGED command \/ Now("runs") \/ Now("failed")
      BY <2>7 DEF Queued, StartGetsLock, StartTurnedAway, Tells
    <3>. QED BY <1>1, <2>5, <3>1, Learns DEF Comings
  <2>8. CASE StopFindsNone \/ StopGetsLock \/ StopTurnedAway
    <3>1. Now("ok") \/ Now("runs") \/ Now("failed")
      BY <2>8 DEF StopFindsNone, StopGetsLock, StopTurnedAway
    <3>. QED BY <1>1, <3>1, Learns DEF Comings
  <2>9. CASE Server
    <3>1. script'.ended \in Comings
      BY <1>0 DEF RemoteTypeOK, Script, Comings
    <3>2. UNCHANGED command \/ Now(script'.ended)
      BY <2>9 DEF Server
    <3>. QED BY <1>1, <2>5, <3>1, <3>2, Learns
  <2>. QED BY <2>1, <2>2, <2>3, <2>4, <2>5, <2>6, <2>7, <2>8, <2>9 DEF Next, Command, Edit,
         Others, Points
<1>4. state' \in [phase : {"none", "starting", "start_failed", "running", "stopped"},
                  run : LocalRuns \cup {None}, patches : 0 .. 2]
  <2>0. state \in [phase : {"none", "starting", "start_failed", "running", "stopped"},
                  run : LocalRuns \cup {None}, patches : 0 .. 2]
    BY <1>0, <1>1 DEF TypeOK
  <2>2. ASSUME NEW run \in LocalRuns, Start(run)
        PROVE  state' \in [phase : {"none", "starting", "start_failed", "running", "stopped"},
                           run : LocalRuns \cup {None}, patches : 0 .. 2]
    <3>1. state' = [phase |-> "starting", run |-> run, patches |-> 0]
      BY <2>2 DEF Start
    <3>. QED BY <3>1
  <2>3. CASE Patch
    BY <1>1, <2>0, <2>3 DEF Patch
  <2>4. CASE Settle \/ StartFails \/ Close
    BY <2>0, <2>4 DEF Settle, StartFails, Close
  <2>5. CASE UNCHANGED state
    BY <2>0, <2>5
  <2>6. Queued => UNCHANGED state
    BY DEF Queued, StartGetsLock, StartTurnedAway, Tells
  <2>. QED BY <2>2, <2>3, <2>4, <2>5, <2>6 DEF Next, Command, Stop, CallStart, StartAnswers,
         Write, Finish, CallStop, StopFindsNone, StopGetsLock, StopTurnedAway, StopAnswers,
         Restore, Rewrite, Interrupt, Edit, Others, Server
<1>5. begun' \subseteq LocalRuns /\ sent' \subseteq LocalRuns /\ overtaken' \in BOOLEAN
  <2>1. begun \subseteq LocalRuns /\ sent \subseteq LocalRuns /\ overtaken \in BOOLEAN
    BY <1>1 DEF TypeOK
  <2>2. ASSUME NEW run \in LocalRuns, Start(run)
        PROVE  begun' \subseteq LocalRuns /\ sent' \subseteq LocalRuns /\ overtaken' \in BOOLEAN
    BY <2>1, <2>2 DEF Start
  <2>3. CASE CallStart
    <3>1. state.run \in LocalRuns
      BY <2>3 DEF CallStart, CaptureInv, FilesOK, StopOK, Is, Busy, Idle
    <3>. QED BY <2>1, <2>3, <3>1 DEF CallStart
  <2>4. CASE Queued
    BY <2>1, <2>4 DEF Queued, StartGetsLock, StartTurnedAway, Tells
  <2>5. CASE StopFindsNone \/ StopGetsLock
    <3>1. begun' = begun /\ sent' = sent
      BY <2>5 DEF StopFindsNone, StopGetsLock
    <3>2. overtaken' \in BOOLEAN
      <4>1. overtaken' = (state.run \in sent) \/ overtaken' = FALSE
        BY <2>5 DEF StopFindsNone, StopGetsLock
      <4>2. (state.run \in sent) \in BOOLEAN /\ FALSE \in BOOLEAN
        OBVIOUS
      <4>. QED BY <4>1, <4>2, Zenon
    <3>. QED BY <2>1, <3>1, <3>2
  <2>6. CASE UNCHANGED starts
    BY <2>1, <2>6 DEF starts
  <2>. QED BY <2>2, <2>3, <2>4, <2>5, <2>6 DEF Next, Command, Stop, StartAnswers, Patch, Write,
         Finish, Settle, StartFails, CallStop, StopTurnedAway, StopAnswers, Restore, Rewrite,
         Close, Interrupt, Edit, Others, Server
<1>. QED BY <1>0, <1>2, <1>3, <1>4, <1>5 DEF TypeOK, Points, Comings, Commands

\* A script is sent for.
LEMMA CallsInv == ASSUME CaptureInv, CallStart \/ CallStop PROVE FilesOK' /\ StopOK'
<1>0. UNCHANGED <<remote, state, file, begun, overtaken>> /\ Busy /\ ~Idle /\ state.run \in begun
  <2>1. UNCHANGED <<remote, state, file, begun, overtaken>> /\ Busy
    BY DEF CallStart, CallStop, starts, Busy, Is
  <2>. QED BY <2>1 DEF CaptureInv, FilesOK, StopOK, Idle
<1>1. CASE (Fails \/ StopFails) /\ UNCHANGED sent
  BY <1>0, <1>1, FailsInv DEF starts
<1>2. ASSUME NEW point \in {"wait start", "wait stop"}, Calls(point),
             point = "wait start" => state.patches = 0, sent' \subseteq sent \cup {state.run}
      PROVE  FilesOK' /\ StopOK'
  <2>1. command'.at = point /\ command'.call = "sent"
    BY <1>2 DEF Calls
  <2>2. /\ (Calling' => point = "wait start") /\ ~Patching' /\ ~Writing' /\ ~Undoing'
        /\ ~Rewriting' /\ Idle' = Idle
    BY <1>0, <2>1 DEF Calling, Patching, Writing, Undoing, Rewriting, Idle, Is
  <2>3. FilesOK'
    BY <1>0, <1>2, <2>2 DEF CaptureInv, FilesOK
  <2>4. ~Told' /\ ~(Awaits("wait stop", "runs"))'
    BY <1>0, <2>1, <2>2 DEF Told, Awaits, Idle
  <2>. QED BY <1>0, <1>2, <2>3, <2>4 DEF CaptureInv, StopOK, Idle
<1>3. Is("call start") => state.patches = 0
  BY DEF CaptureInv, FilesOK, Calling
<1>. QED BY <1>1, <1>2, <1>3 DEF CallStart, CallStop, starts

\* What a call has come to is read.
LEMMA AnswersInv == ASSUME CaptureInv, StartAnswers \/ StopAnswers PROVE FilesOK' /\ StopOK'
<1>0. UNCHANGED <<remote, state, file, starts>> /\ Busy /\ 1 \in DOMAIN Files
  <2>1. UNCHANGED <<remote, state, file, starts>> /\ Busy
    BY DEF StartAnswers, StopAnswers, Busy, Is
  <2>2. 1 \in DOMAIN Files
    BY Typed
  <2>. QED BY <2>1, <2>2
<1>1. CASE Fails \/ StopFails
  BY <1>0, <1>1, FailsInv
<1>2. CASE StartAnswers /\ Then("patch", 1)
  <2>1. state.patches = 0
    BY <1>2 DEF StartAnswers, CaptureInv, FilesOK, Calling
  <2>2. 1 = state.patches + 1
    BY <2>1
  <2>. QED BY <1>0, <1>2, <2>2, GoesInv
<1>3. CASE StopAnswers /\ Then("restore", state.patches) /\ command.call = "ok"
  <2>1. ~overtaken => Over(state.run)
    BY <1>3 DEF StopAnswers, CaptureInv, StopOK, Told, Awaits
  <2>2. /\ state.patches <= state.patches
        /\ \A f \in DOMAIN Files : f > state.patches => file[f] = "original"
    BY Typed DEF CaptureInv, FilesOK
  <2>. QED BY <1>0, <1>3, <2>1, <2>2, GoesInv
<1>. QED BY <1>1, <1>2, <1>3 DEF StartAnswers, StopAnswers

LEMMA NowIs ==
    ASSUME CaptureInv, NEW call, Now(call)
    PROVE  command'.at = command.at /\ command'.n = command.n /\ command'.call = call
BY DEF Now, CaptureInv, TypeOK

\* The command stays where it is, whatever it learns of its call.
LEMMA SamePoint ==
    ASSUME CaptureInv, UNCHANGED <<state, file>>, command'.at = command.at,
           command'.n = command.n
    PROVE  FilesOK' /\ Busy' = Busy /\ Undoing' = Undoing
BY DEF CaptureInv, FilesOK, Idle, Busy, Calling, Patching, Writing, Undoing, Rewriting, Is

\* A start that is sent gets the lock, or is turned away.
LEMMA QueuedInv ==
    ASSUME CaptureInv, NEW run \in LocalRuns, StartGetsLock(run) \/ StartTurnedAway(run)
    PROVE  FilesOK' /\ StopOK'
<1>1. /\ UNCHANGED <<state, file, begun, overtaken>> /\ sent' = sent \ {run} /\ run \in sent
      /\ StartBegins(run) \/ UNCHANGED remote
  BY DEF StartGetsLock, StartTurnedAway, Tells
<1>2. /\ command'.at = command.at /\ command'.n = command.n
      /\ command'.call = command.call \/ Is("wait start")
  <2>1. UNCHANGED command \/ (Is("wait start") /\ (Now("runs") \/ Now("failed")))
    BY DEF StartGetsLock, StartTurnedAway, Tells, Awaits
  <2>. QED BY <2>1, NowIs
<1>3. FilesOK' /\ Undoing' = Undoing
  BY <1>1, <1>2, SamePoint
<1>4. /\ Told' => Told
      /\ (Awaits("wait stop", "runs"))' => Awaits("wait stop", "runs")
  BY <1>1, <1>2, <1>3 DEF Told, Awaits, Is
<1>5. ASSUME Told, ~overtaken PROVE Over(state.run)'
  <2>1. Over(state.run) /\ state.run \in Runs
    BY <1>5, LocalRunsAssumption DEF CaptureInv, StopOK, FilesOK, Told, Awaits, Undoing, Is,
      Busy, Idle
  <2>2. CASE UNCHANGED remote
    BY <1>1, <2>1, <2>2 DEF remote, Over, Undone, Free, r
  <2>3. CASE StartBegins(run)
    <3>1. run # state.run /\ run \in Runs
      BY <1>1, <2>1, <2>3, LocalRunsAssumption DEF Over, StartBegins
    <3>2. Undone(state.run)' /\ (~Free' => r' # state.run)
          /\ dir'[state.run].made = dir[state.run].made
      BY <1>1, <2>1, <2>3, <3>1, UndoneStays DEF Over, CaptureInv, Undone
    <3>. QED BY <1>1, <2>1, <3>2 DEF Over, Undone
  <2>. QED BY <1>1, <2>2, <2>3
<1>6. ASSUME Awaits("wait stop", "runs") PROVE script'.does = "stop" /\ r' = state.run
  <2>1. script.does = "stop" /\ r = state.run
    BY <1>6 DEF CaptureInv, StopOK
  <2>2. UNCHANGED remote
    BY <1>1, <2>1 DEF StartBegins, Free
  <2>. QED BY <2>1, <2>2 DEF remote, r
<1>7. StopOK'
  BY <1>1, <1>4, <1>5, <1>6 DEF CaptureInv, StopOK, Over, Undone, Free, r
<1>. QED BY <1>3, <1>7

\* A stop that is sent finds nothing to stop, gets the lock, or is turned away.
LEMMA StopCallsInv ==
    ASSUME CaptureInv, StopFindsNone \/ StopGetsLock \/ StopTurnedAway
    PROVE  FilesOK' /\ StopOK'
<1>0. /\ UNCHANGED <<state, file, begun, sent>> /\ Is("wait stop") /\ Busy /\ ~Undoing
      /\ Now("ok") \/ Now("runs") \/ Now("failed")
  BY DEF StopFindsNone, StopGetsLock, StopTurnedAway, starts, Awaits, Busy, Undoing, Is
<1>1. command'.at = command.at /\ command'.n = command.n
  BY <1>0, NowIs
<1>2. FilesOK' /\ ~Undoing'
  <2>1. FilesOK' /\ Undoing' = Undoing
    BY <1>0, <1>1, SamePoint
  <2>. QED BY <1>0, <2>1
<1>3. state.phase \notin {"none", "stopped"} /\ state.run \in LocalRuns /\ state.run \in Runs
      /\ state.run \in begun
  BY <1>0, LocalRunsAssumption DEF CaptureInv, FilesOK, StopOK, Idle
<1>4. CASE StopFindsNone
  <2>1. command'.call = "ok"
    BY <1>4, NowIs DEF StopFindsNone
  <2>2. Undone(state.run) /\ Free /\ UNCHANGED remote /\ overtaken' = (state.run \in sent)
    BY <1>3, <1>4, StoppedIsUndone DEF StopFindsNone, CaptureInv
  <2>3. ~overtaken' => Over(state.run)'
    BY <1>0, <2>2 DEF remote, Over, Undone, Free, r
  <2>. QED BY <1>0, <1>2, <1>3, <2>1, <2>3 DEF CaptureInv, StopOK, Awaits, Over, Undone, Free, r
<1>5. CASE StopGetsLock
  <2>1. command'.call = "runs"
    BY <1>5, NowIs DEF StopGetsLock
  <2>2. script'.does = "stop" /\ r' = state.run
    <3>1. script' = [does |-> "stop", run |-> state.run, at |-> "restore", ended |-> ""]
      BY <1>5 DEF StopGetsLock, StopBegins, Began
    <3>. QED BY <3>1 DEF r
  <2>3. ~Told'
    BY <1>0, <1>2, <1>3, <2>1 DEF Told, Awaits
  <2>. QED BY <1>0, <1>2, <1>3, <2>2, <2>3 DEF CaptureInv, StopOK
<1>6. CASE StopTurnedAway
  <2>1. command'.call = "failed"
    BY <1>6, NowIs DEF StopTurnedAway
  <2>2. ~Told' /\ ~(Awaits("wait stop", "runs"))'
    BY <1>0, <1>2, <1>3, <2>1 DEF Told, Awaits
  <2>. QED BY <1>0, <1>2, <1>3, <2>2 DEF CaptureInv, StopOK
<1>. QED BY <1>4, <1>5, <1>6

\* A step of the desktop alone that leaves the run and the phase.
LEMMA StopKept ==
    ASSUME CaptureInv, UNCHANGED <<remote, starts>>,
           state'.run = state.run, state'.phase = state.phase,
           Undoing' => Undoing, ~(Is("wait stop"))'
    PROVE  StopOK'
<1>1. sent' = sent /\ begun' = begun /\ overtaken' = overtaken
  BY DEF starts
<1>2. Told' => Told
  BY DEF Told, Awaits
<1>. QED BY <1>1, <1>2, SameRemote DEF CaptureInv, StopOK, Awaits

LEMMA PatchesInv ==
    ASSUME CaptureInv, Patch \/ Write \/ Finish
    PROVE  FilesOK' /\ StopOK'
<1>0. UNCHANGED <<remote, starts>> /\ Busy /\ ~Idle /\ state'.run = state.run /\ state'.phase = state.phase
  <2>1. UNCHANGED <<remote, starts>> /\ Busy
    BY DEF Patch, Write, Finish, Busy, Is
  <2>2. state'.run = state.run /\ state'.phase = state.phase
    BY DEF Patch, Write, Finish, CaptureInv, TypeOK
  <2>. QED BY <2>1, <2>2 DEF CaptureInv, FilesOK
<1>1. CASE Patch /\ Then("write", command.n) /\ state' = [state EXCEPT !.patches = command.n]
  <2>1. Patching /\ file' = file
    BY <1>1 DEF Patch, Patching
  <2>2. command'.n = command.n /\ state'.patches = command.n
    BY <1>1 DEF Then, CaptureInv, TypeOK
  <2>3. /\ ~Calling' /\ ~Patching' /\ ~Undoing' /\ ~Rewriting' /\ ~Idle'
        /\ ~(Is("wait stop"))'
    BY <1>0, <1>1 DEF Then, Calling, Patching, Undoing, Rewriting, Idle, Is
  <2>4. command.n = state.patches + 1 /\ command.n \in DOMAIN Files
    BY <2>1 DEF CaptureInv, FilesOK
  <2>5. \A f \in DOMAIN Files : f > state'.patches => f > state.patches
    BY <2>2, <2>4, Typed
  <2>6. FilesOK'
    BY <2>1, <2>2, <2>3, <2>4, <2>5 DEF CaptureInv, FilesOK
  <2>. QED BY <1>0, <2>3, <2>6, StopKept
<1>2. CASE Patch /\ UNCHANGED state /\ Fails
  BY <1>0, <1>2, FailsInv DEF Patch
<1>3. CASE Write
  <2>1. Writing /\ state' = state
    BY <1>3 DEF Write, Writing
  <2>2. command'.n = command.n /\ \A f \in DOMAIN Files : f # command.n => file'[f] = file[f]
    BY <1>3, Typed DEF Write, Then
  <2>3. /\ ~Calling' /\ ~Patching' /\ ~Undoing' /\ ~Rewriting' /\ ~Idle'
        /\ ~(Is("wait stop"))'
    BY <1>0, <1>3 DEF Write, Then, Calling, Patching, Undoing, Rewriting, Idle, Is
  <2>4. /\ command.n = state.patches /\ command.n \in DOMAIN Files
        /\ \A f \in DOMAIN Files : f > state.patches => f # command.n
    BY <2>1, Typed DEF CaptureInv, FilesOK
  <2>5. FilesOK'
    BY <2>1, <2>2, <2>3, <2>4 DEF CaptureInv, FilesOK
  <2>. QED BY <1>0, <2>3, <2>5, StopKept
<1>4. CASE Finish
  <2>1. Writing /\ state' = state
    BY <1>4 DEF Finish, Writing
  <2>2. command.n = state.patches /\ \A f \in DOMAIN Files : f # command.n => file'[f] = file[f]
    BY <1>4, <2>1, Typed DEF Finish, CaptureInv, FilesOK
  <2>3. \A f \in DOMAIN Files : f > state.patches => file'[f] = "original"
    BY <2>2, Typed DEF CaptureInv, FilesOK
  <2>4. /\ ~Calling' /\ ~Writing' /\ ~Undoing' /\ ~Rewriting' /\ ~Idle'
        /\ ~(Is("wait stop"))'
    <3>1. command'.at \in {"patch", "settle"} /\ state'.phase = state.phase
      <4>1. Then("patch", command.n + 1) \/ Then("settle", 0)
        BY <1>4 DEF Finish
      <4>. QED BY <2>1, <4>1, AtPoint
    <3>. QED BY <1>0, <3>1 DEF Calling, Writing, Undoing, Rewriting, Idle, Is
  <2>5. Patching' => command'.n = command.n + 1 /\ command.n < Len(Files)
    <3>1. \/ Then("patch", command.n + 1) /\ command.n < Len(Files)
          \/ Then("settle", 0)
      BY <1>4 DEF Finish
    <3>2. CASE Then("patch", command.n + 1) /\ command.n < Len(Files)
      <4>1. command' = [at |-> "patch", n |-> command.n + 1, call |-> ""]
        BY <3>2 DEF Then
      <4>. QED BY <3>2, <4>1
    <3>3. CASE Then("settle", 0)
      BY <3>3 DEF Then, Patching, Is
    <3>. QED BY <3>1, <3>2, <3>3
  <2>6. Patching' => command'.n = state'.patches + 1 /\ command'.n \in DOMAIN Files
    <3>1. command.n \in DOMAIN Files
      BY <2>1 DEF CaptureInv, FilesOK
    <3>2. state'.patches = state.patches
      BY <2>1
    <3>3. command.n < 2 => command.n + 1 \in 1 .. 2
      BY Typed
    <3>. QED BY <2>2, <2>5, <3>2, <3>3, Typed
  <2>7. FilesOK'
    BY <2>1, <2>3, <2>4, <2>6 DEF FilesOK
  <2>. QED BY <1>0, <2>4, <2>7, StopKept
<1>. QED BY <1>1, <1>2, <1>3, <1>4 DEF Patch

LEMMA RestoresInv ==
    ASSUME CaptureInv, Restore \/ Rewrite \/ Close
    PROVE  FilesOK' /\ StopOK'
<1>0. UNCHANGED <<remote, starts>> /\ Busy /\ ~Idle /\ Undoing
  <2>1. UNCHANGED <<remote, starts>> /\ Busy /\ Undoing
    BY DEF Restore, Rewrite, Close, Busy, Undoing, Is
  <2>. QED BY <2>1 DEF CaptureInv, FilesOK
<1>1. /\ command.n <= state.patches
      /\ \A f \in DOMAIN Files : f > command.n => file[f] = "original"
  BY <1>0 DEF CaptureInv, FilesOK
<1>u. ~overtaken => Over(state.run)
  BY <1>0 DEF CaptureInv, StopOK, Told
<1>2. CASE Restore /\ Then("restore", command.n - 1) /\ file[command.n] = "original"
           /\ UNCHANGED file
  <2>1. UNCHANGED state /\ file[command.n] = "original" /\ command.n > 0
    BY <1>2 DEF Restore
  <2>2. command.n - 1 <= state.patches
    BY <1>1, Typed
  <2>3. \A f \in DOMAIN Files : f > command.n - 1 => file[f] = "original"
    BY <1>1, <2>1, Typed
  <2>4. Then("restore", command.n - 1) /\ UNCHANGED <<remote, state, file, starts>>
    BY <1>0, <1>2, <2>1
  <2>5. "restore" \in {"patch", "restore"} /\ "restore" # "patch"
    OBVIOUS
  <2>. QED BY <1>0, <1>u, <2>2, <2>3, <2>4, <2>5, GoesInv, Zenon
<1>3. CASE Restore /\ Then("rewrite", command.n) /\ file' = [file EXCEPT ![command.n] = "torn"]
  <2>1. UNCHANGED state /\ command'.n = command.n /\ command.n > 0
    BY <1>3 DEF Restore, Then
  <2>2. command.n \in DOMAIN Files
    BY <2>1, Typed
  <2>3. \A f \in DOMAIN Files : f > command.n => file'[f] = file[f]
    <3>1. file' = [file EXCEPT ![command.n] = "torn"]
      BY <1>3
    <3>. QED BY <3>1, Typed
  <2>4. ~Calling' /\ ~Patching' /\ ~Writing' /\ ~Idle' /\ ~(Is("wait stop"))'
    BY <1>0, <1>3 DEF Restore, Then, Calling, Patching, Writing, Idle, Is
  <2>5. \A f \in DOMAIN Files : f > state.patches => f > command.n
    BY <1>1, Typed
  <2>6. FilesOK'
    BY <1>1, <2>1, <2>2, <2>3, <2>4, <2>5 DEF FilesOK
  <2>. QED BY <1>0, <2>1, <2>4, <2>6, StopKept
<1>4. CASE Restore /\ StopFails /\ UNCHANGED file
  BY <1>0, <1>4, FailsInv DEF Restore
<1>5. CASE Rewrite
  <2>1. UNCHANGED state /\ command'.n = command.n - 1
    BY <1>5 DEF Rewrite, Then
  <2>2. \A f \in DOMAIN Files : f > command.n - 1 => file'[f] = "original"
    <3>1. file' = [file EXCEPT ![command.n] = "original"]
      BY <1>5 DEF Rewrite
    <3>. QED BY <1>1, <3>1, Typed
  <2>3. /\ ~Calling' /\ ~Patching' /\ ~Writing' /\ ~Rewriting' /\ ~Idle'
        /\ ~(Is("wait stop"))'
    BY <1>0, <1>5 DEF Rewrite, Then, Calling, Patching, Writing, Rewriting, Idle, Is
  <2>4. \A f \in DOMAIN Files : f > command.n \/ f > state.patches => f > command.n - 1
    BY <1>1, Typed
  <2>5. command'.n <= state'.patches
    BY <1>1, <2>1, Typed
  <2>6. FilesOK'
    BY <2>1, <2>2, <2>3, <2>4, <2>5 DEF FilesOK
  <2>. QED BY <1>0, <2>1, <2>3, <2>6, StopKept
<1>6. CASE Close
  <2>1. /\ file' = file /\ ~Busy' /\ ~Calling' /\ ~Patching' /\ ~Writing' /\ ~Undoing'
        /\ ~Rewriting' /\ ~(Is("wait stop"))'
    BY <1>6 DEF Close, StopFails, Then, Busy, Calling, Patching, Writing, Undoing, Rewriting, Is
  <2>2. state'.run = state.run /\ state.phase # "none"
    BY <1>0, <1>6 DEF Close, Idle, CaptureInv, TypeOK
  <2>3. \A f \in DOMAIN Files : file[f] = "original"
    <3>1. command.n = 0
      BY <1>6 DEF Close
    <3>. QED BY <1>1, <3>1, Typed
  <2>4. FilesOK'
    BY <2>1, <2>3 DEF FilesOK
  <2>5. StopOK'
    BY <1>0, <1>u, <2>1, <2>2, SameRemote DEF CaptureInv, StopOK, Awaits, starts
  <2>. QED BY <2>4, <2>5
<1>. QED BY <1>2, <1>3, <1>4, <1>5, <1>6 DEF Restore

LEMMA EditInv == ASSUME CaptureInv, Edit PROVE FilesOK' /\ StopOK'
<1>1. PICK f \in DOMAIN Files : file[f] = "patched" /\ file' = [file EXCEPT ![f] = "edited"]
  BY DEF Edit
<1>2. \A g \in DOMAIN Files : file[g] = "original" => file'[g] = "original"
  BY <1>1, Typed
<1>3. UNCHANGED <<remote, state, command, starts>>
  BY DEF Edit
<1>4. FilesOK'
  BY <1>2, <1>3 DEF CaptureInv, FilesOK, Idle, Busy, Calling, Patching, Writing, Undoing,
    Rewriting, Is
<1>5. StopOK'
  BY <1>3, SameRemote DEF CaptureInv, StopOK, Told, Awaits, Undoing, Is, starts
<1>. QED BY <1>4, <1>5

\* The script of a stop stays one to its end, which is "ok" only where it has
\* undone the run.
LEMMA StopScript ==
    ASSUME RemoteInv, script.does = "stop", ScriptStep \/ Kill \/ BaseChanges \/ TroubleEnds
    PROVE  /\ r' = r /\ (~Free' => script'.does = "stop")
           /\ Free' /\ script'.ended = "ok" => Undone(r)' /\ dir'[r].made
<1>1. CASE BaseChanges \/ TroubleEnds
  BY <1>1 DEF BaseChanges, TroubleEnds, Free, r
<1>2. CASE Kill
  BY <1>2, ScriptEnds DEF Kill, Free, r
<1>3. CASE RestoreRoute \/ StopSidecars
  <2>1. \/ Ends("failed") \/ To("stop", "quit") \/ To("stop", "clear")
    BY <1>3 DEF RestoreRoute, StopSidecars, Marked
  <2>2. CASE Ends("failed")
    BY <2>2, ScriptEnds DEF Free, r
  <2>3. CASE To("stop", "quit") \/ To("stop", "clear")
    BY <2>3, ScriptGoes DEF Free, r
  <2>. QED BY <2>1, <2>2, <2>3
<1>4. CASE Clear
  <2>1. script'.does = "nothing" /\ script'.run = r
    BY <1>4, ScriptEnds DEF Clear
  <2>2. dir' = dir /\ dir[r].made
    BY <1>4 DEF Clear, RemoteInv, ScriptOK, Free
  <2>. QED BY <1>4, <2>1, <2>2, ClearUndoes DEF Free, r
<1>5. ~(\/ Prepare \/ Launch("shim", "mitm") \/ Launch("mitm", "ready")
        \/ ProxyReady \/ VerifyBase \/ Apply \/ Check)
  BY DEF Prepare, Launch, ProxyReady, VerifyBase, Apply, Check, At
<1>. QED BY <1>1, <1>2, <1>3, <1>4, <1>5 DEF ScriptStep

\* Others' starts are of other runs, and a stop changes nothing of a run that
\* has been undone.
LEMMA ServerInv == ASSUME CaptureInv, Server \/ Others PROVE FilesOK' /\ StopOK'
<1>0. UNCHANGED <<state, file, begun, sent, overtaken>> /\ RemoteInv
  BY DEF Server, Others, CaptureInv, starts
<1>1. command'.at = command.at /\ command'.n = command.n
  BY NowIs DEF Server, Others
<1>2. FilesOK' /\ Undoing' = Undoing
  BY <1>0, <1>1, SamePoint
<1>3. ASSUME Told, ~overtaken PROVE Over(state.run)'
  <2>1. Over(state.run) /\ state.run \in LocalRuns /\ state.run \in Runs
    BY <1>3, LocalRunsAssumption DEF CaptureInv, StopOK, FilesOK, Told, Awaits, Undoing, Is,
      Busy, Idle
  <2>2. \/ ScriptStep \/ Kill \/ BaseChanges \/ TroubleEnds
        \/ \E q \in Runs \ {state.run} : StartBegins(q)
        \/ \E q \in Runs : StopBegins(q)
    BY <2>1 DEF Server, Others
  <2>3. Undone(state.run)' /\ (~Free' => r' # state.run)
        /\ dir'[state.run].made = dir[state.run].made
    BY <1>0, <2>1, <2>2, UndoneStays DEF Over, Undone
  <2>. QED BY <1>0, <2>1, <2>3 DEF Over, Undone
<1>4. CASE UNCHANGED command
  <2>1. Told' => Told
    BY <1>0, <1>2, <1>4 DEF Told, Awaits, Is
  <2>2. ASSUME Awaits("wait stop", "runs") PROVE script'.does = "stop" /\ r' = state.run
    <3>1. script.does = "stop" /\ r = state.run /\ command.call = "runs"
      BY <2>2 DEF CaptureInv, StopOK, Awaits
    <3>2. Server
      BY <3>1 DEF Others, StartBegins, StopBegins, Free
    <3>3. ~Free'
      <4>1. script'.ended # "runs"
        BY RemoteKept, <3>2 DEF Next, RemoteInv, RemoteTypeOK, Script
      <4>2. Free' => command'.call = script'.ended
        BY <3>1, <3>2, NowIs DEF Server
      <4>. QED BY <1>4, <3>1, <4>1, <4>2
    <3>. QED BY <1>0, <3>1, <3>2, <3>3, StopScript DEF Server
  <2>3. (Awaits("wait stop", "runs"))' => Awaits("wait stop", "runs")
    BY <1>4 DEF Awaits, Is
  <2>4. Told' /\ ~overtaken' => Over(state.run)'
    BY <1>0, <1>3, <2>1
  <2>. QED BY <1>0, <1>2, <2>2, <2>3, <2>4 DEF CaptureInv, StopOK
<1>5. CASE Server /\ command.call = "runs" /\ Free' /\ Now(script'.ended)
  <2>1. command'.call = script'.ended
    BY <1>5, NowIs
  <2>2. script'.ended # "runs"
    BY RemoteKept, <1>5 DEF Next, RemoteInv, RemoteTypeOK, Script
  <2>3. ASSUME (Awaits("wait stop", "ok"))' PROVE Over(state.run)'
    <3>1. script.does = "stop" /\ r = state.run
      BY <1>1, <1>5, <2>3 DEF CaptureInv, StopOK, Awaits, Is
    <3>2. script'.ended = "ok"
      BY <2>1, <2>3 DEF Awaits
    <3>3. Undone(r)' /\ dir'[r].made
      BY <1>0, <1>5, <3>1, <3>2, StopScript DEF Server
    <3>. QED BY <1>0, <1>5, <3>1, <3>3, StopScript DEF Server, Over, Undone, Free, r
  <2>4. Told' => Told \/ (Awaits("wait stop", "ok"))'
    BY <1>0, <1>2 DEF Told
  <2>5. ~(Awaits("wait stop", "runs"))'
    BY <2>1, <2>2 DEF Awaits
  <2>6. Told' /\ ~overtaken' => Over(state.run)'
    BY <1>0, <1>3, <2>3, <2>4
  <2>. QED BY <1>0, <1>2, <2>5, <2>6 DEF CaptureInv, StopOK
<1>6. StopOK'
  BY <1>4, <1>5 DEF Server, Others
<1>. QED BY <1>2, <1>6

\* Every step keeps the invariant.
LEMMA NextInv == ASSUME CaptureInv, [Next]_vars PROVE CaptureInv'
<1>1. CASE Next
  <2>2. ASSUME Stop \/ Interrupt \/ Settle \/ StartFails PROVE FilesOK' /\ StopOK'
    <3>1. Busy => state.phase \notin {"none", "stopped"}
      BY DEF CaptureInv, FilesOK, Idle
    <3>2. CASE Stop
      BY <3>2, LeavesInv DEF Stop
    <3>3. CASE Interrupt
      BY <3>3, LeavesInv DEF Interrupt
    <3>4. CASE Settle /\ state' = [state EXCEPT !.phase = "running"] /\ Then("", 0)
      <4>1. /\ state'.run = state.run /\ state'.patches = state.patches
            /\ state'.phase = "running"
        BY <3>4 DEF CaptureInv, TypeOK
      <4>. QED BY <3>4, <4>1, LeavesInv DEF Settle, Busy, Is
    <3>5. CASE Settle /\ UNCHANGED state /\ Fails
      BY <3>5, FailsInv DEF Settle, Busy, Is
    <3>6. CASE StartFails
      <4>1. /\ state'.run = state.run /\ state'.patches = state.patches
            /\ state'.phase = "start_failed"
        BY <3>6 DEF StartFails, CaptureInv, TypeOK
      <4>. QED BY <3>6, <4>1, LeavesInv DEF StartFails, Busy, Is
    <3>. QED BY <2>2, <3>2, <3>3, <3>4, <3>5, <3>6 DEF Settle
  <2>3. FilesOK' /\ StopOK'
    BY <1>1, <2>2, StartInv, CallsInv, AnswersInv, QueuedInv, StopCallsInv, PatchesInv,
      RestoresInv, EditInv, ServerInv DEF Next, Command, Queued
  <2>. QED BY <1>1, <2>3, TypeKept, RemoteKept DEF CaptureInv
<1>2. CASE UNCHANGED vars
  <2>1. UNCHANGED <<remote, state, command, file, begun, sent, overtaken>>
    BY <1>2 DEF vars, starts
  <2>2. RemoteInv'
    BY <2>1, QuietInv DEF remote, CaptureInv, RemoteInv, RemoteTypeOK
  <2>3. TypeOK'
    BY <2>1, <2>2 DEF CaptureInv, TypeOK, RemoteInv
  <2>4. FilesOK'
    BY <2>1 DEF CaptureInv, FilesOK, Idle, Busy, Calling, Patching, Writing, Undoing, Rewriting, Is
  <2>5. StopOK'
    BY <2>1, SameRemote DEF CaptureInv, StopOK, Told, Awaits, Undoing, Is
  <2>. QED BY <2>2, <2>3, <2>4, <2>5 DEF CaptureInv
<1>. QED BY <1>1, <1>2

\* The invariant is inductive, for any sets of runs.
THEOREM Inductive == Spec => []CaptureInv
BY InitInv, NextInv, PTL DEF Spec

\* The bridge is never routed through a capture whose sidecars do not run.
THEOREM NeverCutOffHolds == Spec => []NeverCutOff
<1>1. CaptureInv => NeverCutOff
  BY DEF CaptureInv, RemoteInv, RouteOK, NeverCutOff
<1>. QED BY <1>1, Inductive, PTL

\* What a run has changed on the server, a stop of that run can find.
THEOREM StopCanReachHolds == Spec => []StopCanReach
<1>1. CaptureInv => StopCanReach
  BY DEF CaptureInv, RemoteInv, RouteOK, KnownOK, StopCanReach
<1>. QED BY <1>1, Inductive, PTL

\* A run that the desktop calls stopped has left nothing, here or, unless the
\* stop has overtaken the run's start, there.
THEOREM StoppedMeansRestoredHolds == Spec => []StoppedMeansRestored
<1>1. CaptureInv => StoppedMeansRestored
  BY DEF CaptureInv, FilesOK, StopOK, Told, Over, Undone, Idle, StoppedMeansRestored
<1>. QED BY <1>1, Inductive, PTL

=============================================================================
