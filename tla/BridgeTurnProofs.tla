-------------------------- MODULE BridgeTurnProofs --------------------------
(***************************************************************************)
(* More theorems about Bridge, for every value of its constants: an idle   *)
(* session can be resumed, no call is dropped, a result comes from the     *)
(* request that was offered its call, no turn is left behind, and the      *)
(* clients are shown each turn in its order and without gaps.              *)
(*                                                                         *)
(* All rest on BridgeProofs, and the later ones on the first.  Shape       *)
(* says what a session holds between its segments, and within one at every *)
(* state of its drive, and that the only turn which can run on its thread  *)
(* is the one it is at.  Accounts follows each call from the app-server's  *)
(* request to its answer.  Orphans says who still knows of a turn that is  *)
(* not over: its drive, its session, or nobody once it is interrupted.     *)
(* Stream says that what was shown of a turn is its beginning, and that    *)
(* what the session has still to show goes on exactly there.               *)
(*                                                                         *)
(* Given collects what a step starts from.  For each invariant a first     *)
(* lemma gives the conditions under which a step keeps it (StillShape,     *)
(* AccountsHold, OrphansHold, SameHolds and TurnStream); the lemmas after  *)
(* it take the actions one by one, most of them an instance of those       *)
(* conditions.                                                             *)
(***************************************************************************)
EXTENDS BridgeProofs

\* The drives that have nothing left to ask for.
Later == {"turn", "failed", "done"}

\* The turn that the current session is at, and the turns that are not over.
TheTurn == IF Open(bridge) THEN task[bridge.operation].turn
           ELSE task[Cur(bridge).last].turn
Live(t) == app.turn[t] \in {"sent", "running"}

\* An opened request is at a turn of its session: its own, or the turn of the
\* response it continues, which offered the very call it brings the result of.
TaskOK(r) ==
    /\ task[r].turn \in Opened /\ task[task[r].turn].session = task[r].session
    /\ task[r].tool = None => task[r].turn = r
    /\ task[r].tool # None =>
         /\ task[r].prev \in Opened
         /\ task[task[r].prev].turn = task[r].turn
         /\ bridge.op[task[r].prev] = [offered |-> task[r].tool, outcome |-> "ok"]

TasksOK ==
    /\ \A r \in Opened : TaskOK(r)
    /\ \A r \in Requests : app.turn[r] # "none" =>
         task[r].tool = None /\ task[r].drv \in Later

\* Between two segments the session has a last response, and either waits for
\* the call which that response offered, or holds nothing.
Rest ==
    bridge.session # None /\ ~Open(bridge) =>
      LET s == Cur(bridge)
      IN /\ s.last \in Opened /\ bridge.op[s.last].outcome = "ok"
         /\ task[s.last].session = bridge.session
         /\ IF s.waiting # None THEN bridge.op[s.last].offered = s.waiting
            ELSE s.turnId = None /\ s.pending = <<>> /\ s.buffered = <<>>

\* The drive of r holds no call and no event back.
Clear(r) ==
    task[r].drv \notin {"replay", "failed"} /\ (task[r].drv = "start" => task[r].tool = None)

\* In a segment the session holds a call or an event only until its drive has
\* brought the result and replayed what came before it.
Busy ==
    bridge.session # None /\ Open(bridge) =>
      LET s == Cur(bridge)
          r == bridge.operation
      IN /\ Clear(r) => s.waiting = None /\ s.pending = <<>> /\ s.buffered = <<>>
         /\ task[r].drv = "start" /\ task[r].tool # None => s.waiting = task[r].tool
         /\ task[r].drv = "replay" => s.waiting = None /\ s.buffered = <<>>

\* The events that are still to be consumed.
Coming == Range(loop) \cup Range(Cur(bridge).buffered)

\* Only the session's turn runs on its thread, and between two segments only
\* while a call waits; the events to be consumed are of that turn.
EventOK(e) ==
    /\ e.turn = TheTurn
    /\ e.kind \in {"completed", "failed"} => app.turn[e.turn] = "ended"

Turns ==
    /\ loop # <<>> => \E r \in Requests : task[r].drv = "replay"
    /\ bridge.session # None =>
         /\ \A t \in Requests : Live(t) /\ task[t].session = bridge.session =>
              t = TheTurn /\ (~Open(bridge) => Cur(bridge).waiting # None)
         /\ Cur(bridge).turnId \in {None, TheTurn}
         /\ \A e \in Coming : EventOK(e)

Shape == TasksOK /\ Rest /\ Busy /\ Turns

-----------------------------------------------------------------------------
(* What a step does to the tasks and to the turns *)

\* Drives and turns only move forward, and a turn is sent by the drive of a
\* request with a message.
Forward ==
    \A r \in Requests :
      /\ task[r].drv \in Later => task'[r].drv \in Later
      /\ app.turn[r] = "ended" => app'.turn[r] = "ended"
      /\ app'.turn[r] # "none" =>
           \/ app.turn[r] # "none"
           \/ task'[r].drv \in Later /\ task[r].tool = None /\ r \in Opened

\* Those that make r an opened request.
Opens(r) ==
    \/ RespondOpens(r)
    \/ \E prev \in OptRequest, tool \in OptCall : RespondContinue(r, prev, tool)

\* A step that leaves the progress of the turns alone.
LEMMA ForwardSame ==
  ASSUME app'.turn = app.turn,
         \A r \in Requests : task[r].drv \in Later => task'[r].drv \in Later
  PROVE  Forward
BY DEF Forward

\* A drive that moves to a later state.
LEMMA ForwardMoves ==
  ASSUME IInv, NEW q \in Requests, NEW step, Moves(q, step), step \in Later \cup {"replay"},
         task[q].drv \in Later => step \in Later
  PROVE  /\ \A r \in Requests : task[r].drv \in Later => task'[r].drv \in Later
         /\ Opened' = Opened
<1> DEFINE v == [task[q] EXCEPT !.drv = step, !.reply = "none"]
<1>1. task \in [Requests -> Task] /\ task[q] \in Task
  BY DEF IInv, TypeOK
<1>2. task' = [task EXCEPT ![q] = v] /\ v.drv = step /\ v.pc = task[q].pc
  BY <1>1 DEF Moves, Task
<1> HIDE DEF v
<1>. QED BY <1>1, <1>2 DEF Opened

\* A drive that asks for its thread or its turn.
LEMMA ForwardAsks ==
  ASSUME IInv, NEW q \in Requests, NEW step, Asks(q, step),
         task[q].drv \in Later => step \in Later
  PROVE  /\ \A r \in Requests : task[r].drv \in Later => task'[r].drv \in Later
         /\ Opened' = Opened /\ task'[q].drv = step
<1> DEFINE w == IF bridge.rpc = "up" THEN "pending" ELSE "error"
           v == [task[q] EXCEPT !.drv = step, !.reply = w]
<1>1. task \in [Requests -> Task] /\ task[q] \in Task
  BY DEF IInv, TypeOK
<1>2. task' = [task EXCEPT ![q] = v]
  BY DEF Asks
<1> HIDE DEF w
<1>3. v.drv = step /\ v.pc = task[q].pc
  BY <1>1 DEF Task
<1> HIDE DEF v
<1>. QED BY <1>1, <1>2, <1>3 DEF Opened

\* respond() and the timers.
LEMMA ForwardRespond ==
  ASSUME IInv, NEW q \in Requests, RespondStep(q)
  PROVE  Forward /\ (Opened' = Opened \/ Opens(q))
<1>1. task \in [Requests -> Task] /\ task[q] \in Task
  BY DEF IInv, TypeOK
<1>2. CASE RespondNew(q)
  <2> DEFINE v == [task[q] EXCEPT !.pc = "releasing", !.turn = q,
                                  !.session = bridge.session]
  <2>1. task' = [task EXCEPT ![q] = v] /\ v.drv = task[q].drv /\ v.pc = "releasing"
    BY <1>1, <1>2 DEF RespondNew, Task
  <2>2. task[q].pc = "unsent" /\ app' = app
    BY <1>2 DEF RespondNew, Arrives
  <2> HIDE DEF v
  <2>. QED BY <1>1, <2>1, <2>2, ForwardSame DEF Opened
<1>3. CASE ClientGone(q)
  <2> DEFINE v == [task[q] EXCEPT !.gone = TRUE]
  <2>1. task' = [task EXCEPT ![q] = v] /\ v.drv = task[q].drv /\ v.pc = task[q].pc
    BY <1>1, <1>3 DEF ClientGone, Task
  <2>2. app' = app
    BY <1>3 DEF ClientGone
  <2> HIDE DEF v
  <2>. QED BY <1>1, <2>1, <2>2, ForwardSame DEF Opened
<1>4. CASE RpcTimeout(q)
  <2> DEFINE late == task[q].drv = "turn"
             v == [task[q] EXCEPT !.reply = "error", !.late = late]
  <2>1. task' = [task EXCEPT ![q] = v] /\ app' = app
    BY <1>4 DEF RpcTimeout
  <2> HIDE DEF late
  <2>2. v.drv = task[q].drv /\ v.pc = task[q].pc
    BY <1>1 DEF Task
  <2> HIDE DEF v
  <2>. QED BY <1>1, <2>1, <2>2, ForwardSame DEF Opened
<1>5. ASSUME NEW prev \in OptRequest, NEW tool \in OptCall,
             RespondContinue(q, prev, tool)
      PROVE  Forward /\ Opens(q)
  <2>1. app' = app /\ task[q].pc = "unsent" /\ \E v : task' = [task EXCEPT ![q] = v]
    BY <1>5 DEF RespondContinue, Begin, Arrives
  <2>2. task[q].drv = "none"
    BY <2>1 DEF IInv, CallInv, OpenedFirst, Opened
  <2>. QED BY <1>1, <1>5, <2>1, <2>2, ForwardSame DEF Opens, Later
<1>6. CASE UNCHANGED <<task, app>>
  BY <1>6, ForwardSame DEF Opened
<1>. QED BY <1>2, <1>3, <1>4, <1>5, <1>6
         DEF RespondStep, RespondRejected, RequestTimeout, ReleaseAnswered,
             ReleaseTimesOut, ReleaseNext

\* The continuations.
LEMMA ForwardContinues ==
  ASSUME IInv, Flight, TasksOK, NEW q \in Requests, Continues(q)
  PROVE  Forward /\ (Opened' = Opened \/ Opens(q))
<1>1. task \in [Requests -> Task] /\ task[q] \in Task /\ app \in AppType
  BY DEF IInv, TypeOK, AppType
<1>2. CASE RespondOpens(q)
  <2>1. app' = app /\ task[q].pc = "releasing" /\ \E v : task' = [task EXCEPT ![q] = v]
    BY <1>2 DEF RespondOpens, Begin
  <2>2. task[q].drv = "none"
    BY <2>1 DEF IInv, CallInv, OpenedFirst, Opened
  <2>. QED BY <1>1, <1>2, <2>1, <2>2, ForwardSame DEF Opens, Later
<1>3. CASE RespondReturns(q)
  <2> DEFINE v == [task[q] EXCEPT !.pc = "done", !.gone = FALSE]
  <2>1. task' = [task EXCEPT ![q] = v] /\ v.drv = task[q].drv /\ v.pc = "done"
    BY <1>1, <1>3 DEF RespondReturns, Task
  <2>2. app' = app /\ task[q].pc = "awaiting"
    BY <1>3 DEF RespondReturns
  <2> HIDE DEF v
  <2>. QED BY <1>1, <2>1, <2>2, ForwardSame DEF Opened
<1>4. CASE \E step \in Later \cup {"replay"} :
             /\ Moves(q, step) /\ app' = app
             /\ task[q].drv \in Later => step \in Later
  BY <1>4, ForwardMoves, ForwardSame
<1>5. CASE task' = task /\ app' = app
  BY <1>5, ForwardSame DEF Opened
<1>6. CASE Asks(q, "thread") /\ task[q].drv = "start" /\ app' = app
  BY <1>6, ForwardAsks, ForwardSame DEF Later
<1>7. CASE /\ StartsTurn(q) /\ task[q].tool = None /\ q \in Opened
           /\ app.turn[q] = "none"
  <2>1. /\ \A r \in Requests : task[r].drv \in Later => task'[r].drv \in Later
        /\ Opened' = Opened /\ task'[q].drv = "turn"
    BY <1>7, ForwardAsks DEF StartsTurn, Later
  <2>2. CASE app' = app
    BY <2>1, <2>2, ForwardSame
  <2>3. CASE app' = [app EXCEPT !.turn[q] = "sent"]
    <3>1. app'.turn[q] = "sent" /\ \A r \in Requests : r # q => app'.turn[r] = app.turn[r]
      BY <1>1, <2>3 DEF AppType
    <3>. QED BY <1>7, <2>1, <2>3, <3>1 DEF Forward, Later
  <2>. QED BY <1>7, <2>2, <2>3 DEF StartsTurn
<1>8. task[q].drv \in {"start", "thread"} => q \in Opened /\ app.turn[q] = "none"
  BY DrivenOpened DEF TasksOK, Later
<1>9. task[q].drv = "thread" => task[q].tool = None
  BY DEF Flight, DriveOK, ThreadOK
<1>10. CASE DriveStarts(q) \/ DriveSendsMessage(q) \/ DriveAnswersTool(q)
  <2>1. task[q].drv = "start"
    BY <1>10 DEF DriveStarts, DriveSendsMessage, DriveAnswersTool, Started
  <2>. QED BY <1>4, <1>6, <1>7, <1>8, <1>10, <2>1
           DEF DriveStarts, DriveSendsMessage, DriveAnswersTool, Later
<1>11. CASE DriveReplays(q) \/ DriveFlushes(q)
  BY <1>4, <1>5, <1>11 DEF DriveReplays, DriveFlushes, Later
<1>12. CASE ThreadTooLate(q) \/ ThreadArrives(q)
  BY <1>4, <1>7, <1>8, <1>9, <1>12 DEF ThreadTooLate, ThreadArrives, Resolved, Later
<1>13. CASE TurnTooLate(q) \/ TurnArrives(q) \/ DriveRefused(q) \/ DriveCatches(q)
  BY <1>4, <1>13 DEF TurnTooLate, TurnArrives, DriveRefused, DriveCatches, Later
<1>. QED BY <1>2, <1>3, <1>10, <1>11, <1>12, <1>13 DEF Continues

\* The app-server's lines.
LEMMA ForwardLines ==
  ASSUME IInv, Flight, NEW q \in Requests, AppServerStep(q)
  PROVE  Forward /\ Opened' = Opened
<1>1. task \in [Requests -> Task] /\ task[q] \in Task /\ app \in AppType
  BY DEF IInv, TypeOK, AppType
<1>2. ASSUME NEW result, RpcReply(q, result)
      PROVE  Forward /\ Opened' = Opened
  <2> DEFINE v == [task[q] EXCEPT !.reply = result]
  <2>1. task' = [task EXCEPT ![q] = v] /\ v.drv = task[q].drv /\ v.pc = task[q].pc
    BY <1>1, <1>2 DEF RpcReply, Task
  <2>2. \/ app' = app
        \/ app.turn[q] = "sent" /\ app' = [app EXCEPT !.turn[q] = "ended"]
    BY <1>2 DEF RpcReply
  <2> HIDE DEF v
  <2>3. \A r \in Requests : /\ app.turn[r] = "ended" => app'.turn[r] = "ended"
                            /\ app'.turn[r] # "none" => app.turn[r] # "none"
    BY <1>1, <2>2 DEF AppType
  <2>. QED BY <1>1, <2>1, <2>3 DEF Forward, Opened
<1>3. CASE /\ task' = task
           /\ \/ app'.turn = app.turn
              \/ /\ app.turn[q] = "sent"
                 /\ app'.turn = [app.turn EXCEPT ![q] = "running"]
              \/ /\ app.turn[q] = "running"
                 /\ app'.turn = [app.turn EXCEPT ![q] = "ended"]
  BY <1>1, <1>3 DEF Forward, Opened, AppType
<1>4. ASSUME NEW announced, TurnBegins(q, announced)
      PROVE  /\ task' = task /\ app.turn[q] = "sent"
             /\ app'.turn = [app.turn EXCEPT ![q] = "running"]
  BY <1>1, <1>4 DEF TurnBegins, AppType
<1>5. ASSUME NEW kind, ItemEvent(q, kind)
      PROVE  task' = task /\ app'.turn = app.turn
  BY <1>1, <1>5 DEF ItemEvent, AppType
<1>6. ASSUME NEW kind, TurnEnds(q, kind)
      PROVE  /\ task' = task /\ app.turn[q] = "running"
             /\ app'.turn = [app.turn EXCEPT ![q] = "ended"]
  BY <1>1, <1>6 DEF TurnEnds, AppType
<1>7. ASSUME NEW blocked, FatalNotice(q, blocked) PROVE task' = task /\ app' = app
  BY <1>7 DEF FatalNotice
<1>8. ASSUME NEW c \in Calls, NEW wellFormed, ToolCall(c, q, wellFormed)
      PROVE  task' = task /\ app'.turn = app.turn
  BY <1>1, <1>8 DEF ToolCall, AppType
<1>. QED BY <1>2, <1>3, <1>4, <1>5, <1>6, <1>7, <1>8 DEF AppServerStep

\* Every step.
LEMMA ForwardStep ==
  ASSUME IInv, Flight, TasksOK, [Next]_vars
  PROVE  Forward /\ (Opened' = Opened \/ \E r \in Requests : Opens(r))
<1>1. CASE UNCHANGED <<task, app>>
  BY <1>1 DEF Forward, Opened
<1>2. CASE Exits(bridge) /\ app' = app
  BY <1>2, ExitEffect, ForwardSame DEF Opened
<1>3. CASE \E r \in Requests : RespondStep(r) \/ Continues(r) \/ AppServerStep(r)
  BY <1>3, ForwardRespond, ForwardContinues, ForwardLines
<1>4. ASSUME NEW c \in Calls, ToolCallRepeated(c) PROVE UNCHANGED <<task, app>>
  BY <1>4 DEF ToolCallRepeated
<1>5. SessionExpires \/ RpcStarted \/ PipeBreaks \/ CloseBegins
        => UNCHANGED <<task, app>>
  BY DEF SessionExpires, RpcStarted, PipeBreaks, CloseBegins
<1>6. RpcExits \/ CloseEnds => UNCHANGED <<task, app>> \/ (Exits(bridge) /\ app' = app)
  BY DEF RpcExits, CloseEnds
<1>. QED BY <1>1, <1>2, <1>3, <1>4, <1>5, <1>6 DEF Next, vars

\* What the opened requests are at survives every step.
LEMMA TasksFrame ==
  ASSUME IInv, TasksOK, Kept, Forward, \A r \in Opened' \ Opened : TaskOK(r)'
  PROVE  TasksOK'
<1>1. \A r \in Opened : r \in Opened' /\ r \in Requests
  BY DEF Kept, Opened
<1>2. ASSUME NEW r \in Opened PROVE TaskOK(r)'
  <2>1. TaskOK(r)
    BY DEF TasksOK
  <2>. QED BY <1>1, <2>1 DEF TaskOK, Kept
<1>3. ASSUME NEW r \in Requests, app'.turn[r] # "none"
      PROVE  task'[r].tool = None /\ task'[r].drv \in Later
  <2>1. r \in Opened /\ task[r].tool = None /\ task'[r].drv \in Later
    BY <1>3 DEF Forward, TasksOK, IInv, CallInv, OpenedFirst
  <2>. QED BY <2>1 DEF Kept
<1>. QED BY <1>2, <1>3 DEF TasksOK

\* The request that opens its session is at its own turn.
LEMMA OpensTask ==
  ASSUME IInv, Flight, TasksOK, Kept, NEW r \in Requests, RespondOpens(r)
  PROVE  \A q \in Opened' \ Opened : TaskOK(q)'
<1> DEFINE body == [task[r] EXCEPT !.session = r]
<1>1. task \in [Requests -> Task] /\ task[r] \in Task
  BY DEF IInv, TypeOK
<1>2. task[r].pc = "releasing" /\ r \notin Opened
  BY DEF RespondOpens, Opened
<1>3. task[r].turn = r /\ task[r].tool = None
  BY <1>2 DEF Flight, Fresh
<1>4. PICK step \in {"start", "done"} :
        task' = [task EXCEPT ![r] = [body EXCEPT !.pc = "awaiting", !.drv = step]]
  BY DEF RespondOpens, Begin
<1>5. /\ task'[r].pc = "awaiting" /\ task'[r].turn = r /\ task'[r].tool = None
      /\ \A q \in Requests : q # r => task'[q] = task[q]
  BY <1>1, <1>3, <1>4 DEF Task
<1>. QED BY <1>5 DEF Opened, TaskOK

\* A request that continues the session is at the turn of what it continues.
LEMMA ContinueTask ==
  ASSUME IInv, Flight, TasksOK, Rest, Kept, NEW r \in Requests, NEW prev \in OptRequest,
         NEW tool \in OptCall, RespondContinue(r, prev, tool)
  PROVE  \A q \in Opened' \ Opened : TaskOK(q)'
<1> DEFINE turn == IF tool = None THEN r ELSE task[prev].turn
           body == [task[r] EXCEPT !.session = bridge.session, !.prev = prev,
                                   !.tool = tool, !.turn = turn]
<1>1. /\ task \in [Requests -> Task] /\ task[r] \in Task /\ TypeOK
      /\ task[r].pc = "unsent" /\ r \notin Opened /\ ~bridge.busy
      /\ prev # None /\ bridge.session # None /\ Cur(bridge).last = prev
      /\ tool # None => Cur(bridge).waiting = tool
  BY DEF IInv, TypeOK, RespondContinue, ContinuationOk, Arrives, Opened
<1>2. PICK step \in {"start", "done"} :
        task' = [task EXCEPT ![r] = [body EXCEPT !.pc = "awaiting", !.drv = step]]
  BY DEF RespondContinue, Begin
<1> HIDE DEF turn
<1>3. /\ task'[r].pc = "awaiting" /\ task'[r].turn = turn /\ task'[r].tool = tool
      /\ task'[r].session = bridge.session /\ task'[r].prev = prev
      /\ \A q \in Requests : q # r => task'[q] = task[q]
  BY <1>1, <1>2 DEF Task
<1>4. ~Open(bridge)
  BY <1>1, IdleNoOperation
<1>5. /\ prev \in Opened /\ bridge.op[prev].outcome = "ok"
      /\ task[prev].session = bridge.session
      /\ tool # None => bridge.op[prev].offered = tool
  BY <1>1, <1>4 DEF Rest
<1>6. Opened' = Opened \cup {r}
  BY <1>3 DEF Opened
<1>7. CASE tool = None
  BY <1>3, <1>6, <1>7 DEF TaskOK, turn, Opened
<1>8. CASE tool # None
  <2>1. turn = task[prev].turn /\ prev \in Requests /\ prev # r
    BY <1>1, <1>5, <1>8 DEF turn, Opened
  <2>2. turn \in Opened /\ task[turn].session = bridge.session /\ turn # r
    BY <1>1, <1>5, <2>1 DEF TasksOK, TaskOK
  <2>3. task'[prev].turn = turn /\ task'[turn].session = bridge.session
    BY <1>3, <2>1, <2>2 DEF Opened
  <2>4. bridge'.op[prev] = [offered |-> tool, outcome |-> "ok"]
    <3>1. bridge.op[prev] \in Operation
      BY <2>1 DEF IInv, TypeOK, BridgeState
    <3>2. bridge'.op[prev] = bridge.op[prev]
      BY <1>5, <2>1 DEF Kept
    <3>. QED BY <1>5, <1>8, <3>1, <3>2 DEF Operation
  <2>. QED BY <1>3, <1>5, <1>6, <1>8, <2>2, <2>3, <2>4 DEF TaskOK
<1>. QED BY <1>7, <1>8

\* A step opens at most one request, and that one is at a turn of its session.
LEMMA TasksHold ==
  ASSUME IInv, Flight, TasksOK, Rest, Kept, [Next]_vars
  PROVE  Forward /\ TasksOK'
<1>1. Forward /\ (Opened' = Opened \/ \E r \in Requests : Opens(r))
  BY ForwardStep
<1>2. CASE Opened' = Opened
  <2>1. \A r \in Opened' \ Opened : TaskOK(r)'
    BY <1>2
  <2>. QED BY <1>1, <2>1, TasksFrame
<1>3. ASSUME NEW r \in Requests, RespondOpens(r) PROVE TasksOK'
  <2>1. \A q \in Opened' \ Opened : TaskOK(q)'
    BY <1>3, OpensTask
  <2>. QED BY <1>1, <2>1, TasksFrame
<1>4. ASSUME NEW r \in Requests, NEW prev \in OptRequest, NEW tool \in OptCall,
             RespondContinue(r, prev, tool)
      PROVE  TasksOK'
  <2>1. \A q \in Opened' \ Opened : TaskOK(q)'
    BY <1>4, ContinueTask
  <2>. QED BY <1>1, <2>1, TasksFrame
<1>. QED BY <1>1, <1>2, <1>3, <1>4 DEF Opens

-----------------------------------------------------------------------------
(* When a step keeps Shape *)

\* What is known of a step once its tasks and operations are.
Given == IInv /\ IInv' /\ Flight /\ Flight' /\ Shape /\ Kept /\ Forward /\ TasksOK'

\* The operation that is open belongs to an opened request of the session.
LEMMA OpenFacts ==
  ASSUME IInv, Flight, Open(bridge)
  PROVE  /\ bridge.session # None /\ bridge.operation \in Opened
         /\ bridge.operation \in Requests /\ bridge.operation # None
         /\ task[bridge.operation].session = bridge.session
BY OpenType DEF IInv, TypeOK, Flight, OneFlight, Opened, Open

\* The session stays at its turn through steps of these kinds.
LEMMA TheTurnStays ==
  ASSUME Given, bridge'.session = bridge.session, bridge.session # None,
         \/ Open(bridge) /\ Open(bridge') /\ bridge'.operation = bridge.operation
         \/ ~Open(bridge) /\ ~Open(bridge') /\ Cur(bridge').last = Cur(bridge).last
         \/ Open(bridge) /\ ~Open(bridge') /\ Cur(bridge').last = bridge.operation
  PROVE  TheTurn' = TheTurn /\ TheTurn \in Requests
<1>1. Open(bridge) => bridge.operation \in Opened
  BY OpenFacts DEF Given
<1>2. ~Open(bridge) => Cur(bridge).last \in Opened
  BY DEF Given, Shape, Rest
<1>3. \A r \in Opened : task'[r].turn = task[r].turn /\ task[r].turn \in Requests
  BY DEF Given, Kept, Shape, TasksOK, TaskOK, Opened
<1>4. Open(bridge)' = Open(bridge') /\ Cur(bridge)' = Cur(bridge')
  BY DEF Open, Cur
<1>. QED BY <1>1, <1>2, <1>3, <1>4 DEF TheTurn

\* An event of the session's turn remains one.
LEMMA EventStays ==
  ASSUME Forward, TheTurn' = TheTurn, TheTurn \in Requests, NEW e, EventOK(e)
  PROVE  EventOK(e)'
BY DEF Forward, EventOK

\* The turns, through a step of the same session.
LEMMA TurnsHold ==
  ASSUME Given, bridge'.session = bridge.session, bridge.session # None,
         TheTurn' = TheTurn, TheTurn \in Requests,
         loop' # <<>> => \E r \in Requests : task'[r].drv = "replay",
         \A t \in Requests : Live(t)' /\ task[t].session = bridge.session =>
           t = TheTurn /\ (~Open(bridge') => Cur(bridge').waiting # None),
         Cur(bridge').turnId \in {None, TheTurn},
         \A e \in Coming' : e \in Coming \/ EventOK(e)'
  PROVE  Turns'
<1>1. Open(bridge)' = Open(bridge') /\ Cur(bridge)' = Cur(bridge')
  BY DEF Open, Cur
<1>2. \A e \in Coming' : EventOK(e)'
  BY EventStays DEF Given, Shape, Turns
<1>3. \A t \in Requests : Live(t)' => task'[t].session = task[t].session
  <2>1. \A t \in Requests : app'.turn[t] # "none" => t \in Opened
    BY DEF Given, Forward, IInv, CallInv, OpenedFirst
  <2>. QED BY <2>1 DEF Live, Given, Kept
<1>. QED BY <1>1, <1>2, <1>3 DEF Turns

\* A step that lets go of the session.
LEMMA GoneShape ==
  ASSUME Given, bridge'.session = None, loop' = <<>>
  PROVE  Shape'
BY DEF Given, Shape, Rest, Busy, Turns

\* Without a drive that replays there is nothing to replay.
LEMMA NothingToReplay ==
  ASSUME Given, \A r \in Requests : task[r].drv # "replay"
  PROVE  loop = <<>>
BY DEF Given, Shape, Turns


\* What most steps leave as it was, of the session and of its drive.
SessionStill ==
    bridge.session # None =>
      LET s == Cur(bridge)
          n == Cur(bridge')
      IN /\ n.last = s.last /\ n.waiting = s.waiting
         /\ n.pending = s.pending /\ n.buffered = s.buffered
         /\ \/ n.turnId = s.turnId
            \/ n.turnId = TheTurn /\ (~Open(bridge) => s.waiting # None)

DriveStill ==
    \A r \in Requests : Open(bridge) /\ r = bridge.operation =>
      /\ task'[r].drv \notin {"replay", "failed"} =>
           task'[r].drv = task[r].drv \/ Clear(r)
      /\ task'[r].drv \in {"start", "replay"} => task'[r].drv = task[r].drv

Still ==
    /\ bridge'.session = bridge.session
    /\ Open(bridge') <=> Open(bridge)
    /\ Open(bridge) => bridge'.operation = bridge.operation
    /\ Range(loop') \subseteq Range(loop)
    /\ loop' # <<>> => \E r \in Requests : task'[r].drv = "replay"
    /\ SessionStill /\ DriveStill
    /\ \A t \in Requests : Live(t)' /\ bridge.session # None =>
         Live(t) \/ (Open(bridge) /\ t = TheTurn)

\* A step after which the session holds what it held keeps Shape.
LEMMA StillShape ==
  ASSUME Given, Still
  PROVE  Shape'
<1>1. CASE bridge.session = None
  <2>1. bridge'.session = None
    BY <1>1 DEF Still
  <2>2. Turns'
    BY <2>1 DEF Turns, Still
  <2>. QED BY <2>1, <2>2 DEF Given, Shape, Rest, Busy
<1>2. CASE bridge.session # None
  <2> DEFINE s == Cur(bridge)
             n == Cur(bridge')
  <2>1. /\ bridge'.session = bridge.session
        /\ n.last = s.last /\ n.waiting = s.waiting
        /\ n.pending = s.pending /\ n.buffered = s.buffered
        /\ \/ n.turnId = s.turnId
           \/ n.turnId = TheTurn /\ (~Open(bridge) => s.waiting # None)
        /\ Cur(bridge)' = n /\ Open(bridge)' = Open(bridge')
        /\ Open(bridge') = Open(bridge)
    BY <1>2 DEF Still, SessionStill, Cur, Open
  <2> HIDE DEF s, n
  <2>2. TheTurn' = TheTurn /\ TheTurn \in Requests
    BY <1>2, <2>1, TheTurnStays DEF Still, s, n
  <2>3. Coming' \subseteq Coming
    BY <2>1 DEF Coming, Still, s
  <2>4. Turns'
    <3>1. s.turnId \in {None, TheTurn}
      BY <1>2 DEF Given, Shape, Turns, s
    <3>2. \A t \in Requests : Live(t)' /\ task[t].session = bridge.session =>
            t = TheTurn /\ (~Open(bridge) => s.waiting # None)
      BY <1>2 DEF Given, Shape, Turns, s, Still
    <3>. QED BY <1>2, <2>1, <2>2, <2>3, <3>1, <3>2, TurnsHold DEF Still, n
  <2>5. Rest'
    <3>1. CASE Open(bridge)
      BY <2>1, <3>1 DEF Rest
    <3>2. CASE ~Open(bridge)
      <4>1. /\ s.last \in Opened /\ bridge.op[s.last].outcome = "ok"
            /\ task[s.last].session = bridge.session
            /\ IF s.waiting # None THEN bridge.op[s.last].offered = s.waiting
               ELSE s.turnId = None /\ s.pending = <<>> /\ s.buffered = <<>>
        BY <1>2, <3>2 DEF Given, Shape, Rest, s
      <4>2. /\ n.last \in Opened' /\ bridge'.op[n.last] = bridge.op[n.last]
            /\ task'[n.last].session = bridge.session
        BY <2>1, <4>1 DEF Given, Kept, Opened
      <4>. QED BY <2>1, <3>2, <4>1, <4>2 DEF Rest
    <3>. QED BY <3>1, <3>2
  <2>6. Busy'
    <3>1. CASE ~Open(bridge)
      BY <2>1, <3>1 DEF Busy
    <3>2. CASE Open(bridge)
      <4>0. PICK r \in Requests : r = bridge.operation
        BY <3>2, OpenFacts DEF Given
      <4>1. task'[r].tool = task[r].tool /\ bridge'.operation = r
        BY <3>2, <4>0, OpenFacts DEF Given, Kept, Still
      <4>2. /\ Clear(r) => s.waiting = None /\ s.pending = <<>> /\ s.buffered = <<>>
            /\ task[r].drv = "start" /\ task[r].tool # None => s.waiting = task[r].tool
            /\ task[r].drv = "replay" => s.waiting = None /\ s.buffered = <<>>
        BY <1>2, <3>2, <4>0 DEF Given, Shape, Busy, s
      <4>3. /\ task'[r].drv \notin {"replay", "failed"} => task'[r].drv = task[r].drv \/ Clear(r)
            /\ task'[r].drv \in {"start", "replay"} => task'[r].drv = task[r].drv
        BY <3>2, <4>0 DEF Still, DriveStill
      <4>4. Clear(r)' => Clear(r)
        BY <4>1, <4>3 DEF Clear
      <4>5. /\ Clear(r)' => n.waiting = None /\ n.pending = <<>> /\ n.buffered = <<>>
            /\ task'[r].drv = "start" /\ task'[r].tool # None => n.waiting = task'[r].tool
            /\ task'[r].drv = "replay" => n.waiting = None /\ n.buffered = <<>>
        BY <2>1, <4>1, <4>2, <4>3, <4>4
      <4>. QED BY <2>1, <4>1, <4>5 DEF Busy, Clear
    <3>. QED BY <3>1, <3>2
  <2>. QED BY <2>4, <2>5, <2>6 DEF Given, Shape
<1>. QED BY <1>1, <1>2


-----------------------------------------------------------------------------
(* The steps that leave the session as it is *)

\* The bridge is at the same session and operation.
Place ==
    /\ bridge'.session = bridge.session /\ bridge'.operation = bridge.operation
    /\ bridge'.op = bridge.op

\* A step that no drive takes.
LEMMA SameShape ==
  ASSUME Given, Place, SessionStill, loop' = loop,
         \A r \in Requests : task'[r].drv = task[r].drv,
         \A t \in Requests : Live(t)' => Live(t)
  PROVE  Shape'
<1>1. Open(bridge') <=> Open(bridge)
  BY DEF Place, Open
<1>2. DriveStill
  BY DEF DriveStill
<1>3. loop' # <<>> => \E r \in Requests : task'[r].drv = "replay"
  BY DEF Given, Shape, Turns
<1>. QED BY <1>1, <1>2, <1>3, StillShape DEF Still, Place

\* A drive that moves to its end, and if it may not know its session's calls
\* and events gone, to its catch.
LEMMA MovesShape ==
  ASSUME Given, Place, SessionStill, loop' = loop, app' = app,
         NEW r \in Requests, NEW step \in {"failed", "done"}, Moves(r, step),
         \A q \in Requests : task[q].drv # "replay",
         Open(bridge) /\ bridge.operation = r => step = "failed" \/ Clear(r)
  PROVE  Shape'
<1> DEFINE v == [task[r] EXCEPT !.drv = step, !.reply = "none"]
<1>1. task \in [Requests -> Task] /\ task[r] \in Task
  BY DEF Given, IInv, TypeOK
<1>2. task' = [task EXCEPT ![r] = v] /\ v.drv = step
  BY <1>1 DEF Moves, Task
<1> HIDE DEF v
<1>3. task'[r].drv = step /\ \A q \in Requests : q # r => task'[q].drv = task[q].drv
  BY <1>1, <1>2
<1>4. DriveStill
  BY <1>3 DEF DriveStill
<1>5. Open(bridge') <=> Open(bridge)
  BY DEF Place, Open
<1>6. loop' = <<>>
  BY NothingToReplay
<1>. QED BY <1>4, <1>5, <1>6, StillShape DEF Still, Place, Live

\* A drive that asks for its thread, or for its turn.
LEMMA AsksShape ==
  ASSUME Given, Place, SessionStill, loop' = loop,
         NEW r \in Requests, NEW step \in {"thread", "turn"}, Asks(r, step),
         \A q \in Requests : task[q].drv # "replay",
         Open(bridge), bridge.operation = r, Clear(r),
         app' = app \/ (app' = [app EXCEPT !.turn[r] = "sent"] /\ TheTurn = r)
  PROVE  Shape'
<1> DEFINE w == IF bridge.rpc = "up" THEN "pending" ELSE "error"
           v == [task[r] EXCEPT !.drv = step, !.reply = w]
<1>1. task \in [Requests -> Task] /\ task[r] \in Task /\ app \in AppType
  BY DEF Given, IInv, TypeOK, AppType
<1>2. task' = [task EXCEPT ![r] = v]
  BY DEF Asks
<1> HIDE DEF w
<1>3. v.drv = step
  BY <1>1 DEF Task
<1> HIDE DEF v
<1>4. task'[r].drv = step /\ \A q \in Requests : q # r => task'[q].drv = task[q].drv
  BY <1>1, <1>2, <1>3
<1>5. DriveStill
  BY <1>4 DEF DriveStill
<1>6. Open(bridge') <=> Open(bridge)
  BY DEF Place, Open
<1>7. loop' = <<>>
  BY NothingToReplay
<1>8. \A t \in Requests : Live(t)' => Live(t) \/ t = TheTurn
  BY <1>1 DEF Live, AppType
<1>. QED BY <1>5, <1>6, <1>7, <1>8, StillShape DEF Still, Place

\* respond() that rejects, a timer of the rpc layer, and the answers to what
\* releaseSession asked for.
LEMMA QuietShape ==
  ASSUME Given, NEW r \in Requests,
         \/ RespondRejected(r) \/ RpcTimeout(r)
         \/ ReleaseAnswered(r) \/ ReleaseTimesOut(r)
  PROVE  Shape'
<1>1. CASE RespondRejected(r)
  BY <1>1, SameShape DEF RespondRejected, Place, SessionStill, Live
<1>2. CASE RpcTimeout(r)
  <2> DEFINE late == task[r].drv = "turn"
             v == [task[r] EXCEPT !.reply = "error", !.late = late]
  <2>1. task \in [Requests -> Task] /\ task[r] \in Task
    BY DEF Given, IInv, TypeOK
  <2>2. task' = [task EXCEPT ![r] = v] /\ UNCHANGED <<bridge, loop, app>>
    BY <1>2 DEF RpcTimeout
  <2> HIDE DEF late
  <2>3. v.drv = task[r].drv
    BY <2>1 DEF Task
  <2> HIDE DEF v
  <2>4. \A q \in Requests : task'[q].drv = task[q].drv
    BY <2>1, <2>2, <2>3
  <2>. QED BY <2>2, <2>4, SameShape DEF Place, SessionStill, Live
<1>3. CASE ReleaseNext(r)
  <2>1. /\ bridge'.session = bridge.session /\ bridge'.operation = bridge.operation
        /\ bridge'.op = bridge.op /\ bridge'.sess = bridge.sess
        /\ UNCHANGED <<task, loop, app>>
    BY <1>3 DEF ReleaseNext, Given, IInv, TypeOK, BridgeState
  <2>. QED BY <2>1, SameShape DEF Place, SessionStill, Live, Cur
<1>. QED BY <1>1, <1>2, <1>3 DEF ReleaseAnswered, ReleaseTimesOut

\* The connection comes up, or its pipe breaks.
LEMMA ConnectionShape ==
  ASSUME Given, RpcStarted \/ PipeBreaks PROVE Shape'
<1>1. /\ bridge'.session = bridge.session /\ bridge'.operation = bridge.operation
      /\ bridge'.op = bridge.op /\ bridge'.sess = bridge.sess
      /\ UNCHANGED <<task, loop, app>>
  BY DEF RpcStarted, PipeBreaks, Given, IInv, TypeOK, BridgeState
<1>. QED BY <1>1, SameShape DEF Place, SessionStill, Live, Cur


-----------------------------------------------------------------------------
(* The drive *)

\* What a drive in these states knows of its session.
LEMMA DriveFacts ==
  ASSUME Given, NEW r \in Requests
  PROVE  /\ ~Current(r) => ~(Open(bridge) /\ bridge.operation = r)
         /\ task[r].drv \in {"start", "thread"} /\ Current(r) =>
              Open(bridge) /\ bridge.operation = r
         /\ task[r].drv = "start" /\ Current(r) /\ ~Cur(bridge).thread =>
              task[r].tool = None
         /\ task[r].drv = "thread" => task[r].tool = None
         /\ task[r].drv = "turn" => task[r].tool = None
         /\ task[r].drv \in {"thread", "turn"} => Clear(r)
         /\ Open(bridge) /\ bridge.operation = r /\ task[r].tool = None =>
              TheTurn = r /\ (task[r].drv = "start" => Clear(r))
<1>1. Open(bridge) /\ bridge.operation = r => r \in Opened /\ Current(r)
  BY OpenFacts DEF Given, Current
<1>2. /\ task[r].drv \in {"start", "thread"} /\ Current(r) =>
           Open(bridge) /\ bridge.operation = r
      /\ task[r].drv = "thread" => task[r].tool = None
      /\ task[r].drv = "turn" => task[r].tool = None
  BY DEF Given, Flight, DriveOK, ThreadOK
<1>3. task[r].drv = "start" /\ Current(r) /\ ~Cur(bridge).thread => task[r].tool = None
  <2>1. task[r].drv = "start" => r \in Opened
    BY DrivenOpened DEF Given
  <2>. QED BY <2>1 DEF Given, Flight, ThreadOK
<1>4. r \in Opened /\ task[r].tool = None => task[r].turn = r
  BY DEF Given, Shape, TasksOK, TaskOK
<1>. QED BY <1>1, <1>2, <1>3, <1>4 DEF Clear, TheTurn

\* A bridge that only sent something is at its place.
LEMMA SentPlace ==
  ASSUME bridge \in BridgeState, NEW f,
         \/ bridge' = bridge
         \/ bridge' = [bridge EXCEPT !.unsubscribed = f]
         \/ bridge' = [bridge EXCEPT !.interrupted = f]
         \/ bridge' = [bridge EXCEPT !.answers = f]
         \/ bridge' = [bridge EXCEPT !.heard = f]
  PROVE  Place /\ SessionStill
BY DEF BridgeState, Place, SessionStill, Cur

\* respond() returns.
LEMMA ReturnsShape ==
  ASSUME Given, NEW r \in Requests, RespondReturns(r) PROVE Shape'
<1> DEFINE v == [task[r] EXCEPT !.pc = "done", !.gone = FALSE]
           x == (bridge.session # None) \/ bridge.ttl
<1>1. task \in [Requests -> Task] /\ task[r] \in Task /\ bridge \in BridgeState
  BY DEF Given, IInv, TypeOK
<1>2. task' = [task EXCEPT ![r] = v] /\ v.drv = task[r].drv
  BY <1>1 DEF RespondReturns, Task
<1>3. bridge' = [bridge EXCEPT !.busy = FALSE, !.operation = None, !.ttl = x]
  BY DEF RespondReturns
<1> HIDE DEF v, x
<1>4. \A q \in Requests : task'[q].drv = task[q].drv
  BY <1>1, <1>2
<1>5. /\ bridge'.session = bridge.session /\ bridge'.sess = bridge.sess
      /\ bridge'.operation = None
  BY <1>1, <1>3 DEF BridgeState
<1>6. ~Open(bridge) /\ ~Open(bridge')
  BY <1>5 DEF RespondReturns, Given, Flight, OneFlight, Open
<1>7. SessionStill /\ DriveStill /\ loop' = loop /\ app' = app
  BY <1>5, <1>6 DEF SessionStill, DriveStill, Cur, RespondReturns
<1>8. loop' # <<>> => \E q \in Requests : task'[q].drv = "replay"
  BY <1>4, <1>7 DEF Given, Shape, Turns
<1>. QED BY <1>5, <1>6, <1>7, <1>8, StillShape DEF Still, Live

\* The drive starts, sends its message, and hears of its thread.
LEMMA StartsShape ==
  ASSUME Given, NEW r \in Requests, DriveStarts(r) PROVE Shape'
<1>1. /\ task[r].drv = "start" /\ bridge' = bridge /\ loop' = loop /\ app' = app
      /\ \A q \in Requests : task[q].drv # "replay"
  BY DEF DriveStarts, Started, Micro
<1>2. Place /\ SessionStill
  BY <1>1, SentPlace DEF Given, IInv, TypeOK
<1>3. CASE Moves(r, "failed") \/ (~Current(r) /\ Moves(r, "done"))
  BY <1>1, <1>2, <1>3, DriveFacts, MovesShape
<1>4. CASE Current(r) /\ ~Cur(bridge).thread /\ Asks(r, "thread")
  BY <1>1, <1>2, <1>4, DriveFacts, AsksShape
<1>. QED BY <1>3, <1>4 DEF DriveStarts

\* The message is sent: the turn of r is now the one on its thread.
LEMMA MessageShape ==
  ASSUME Given, NEW r \in Requests, DriveSendsMessage(r) PROVE Shape'
<1>1. /\ task[r].drv = "start" /\ bridge' = bridge /\ loop' = loop
      /\ Current(r) /\ task[r].tool = None
      /\ \A q \in Requests : task[q].drv # "replay"
  BY DEF DriveSendsMessage, Started, Micro
<1>2. Place /\ SessionStill
  BY <1>1, SentPlace DEF Given, IInv, TypeOK
<1>3. Open(bridge) /\ bridge.operation = r /\ TheTurn = r /\ Clear(r)
  BY <1>1, DriveFacts
<1>4. /\ Asks(r, "turn")
      /\ app' = app \/ app' = [app EXCEPT !.turn[r] = "sent"]
  BY DEF DriveSendsMessage, StartsTurn
<1>. QED BY <1>1, <1>2, <1>3, <1>4, AsksShape

\* The thread of a session that is gone is unsubscribed.
LEMMA ThreadLateShape ==
  ASSUME Given, NEW r \in Requests, ThreadTooLate(r) PROVE Shape'
<1>1. /\ Moves(r, "done") /\ ~Current(r) /\ loop' = loop /\ app' = app
      /\ \A q \in Requests : task[q].drv # "replay"
  BY DEF ThreadTooLate, Resolved, Micro
<1>2. Place /\ SessionStill
  BY SentPlace DEF ThreadTooLate, Given, IInv, TypeOK
<1>. QED BY <1>1, <1>2, DriveFacts, MovesShape

\* The thread is known, and the message is sent.
LEMMA ThreadShape ==
  ASSUME Given, NEW r \in Requests, ThreadArrives(r) PROVE Shape'
<1> DEFINE s == [Cur(bridge) EXCEPT !.thread = TRUE]
<1>1. /\ task[r].drv = "thread" /\ loop' = loop /\ Current(r)
      /\ \A q \in Requests : task[q].drv # "replay"
  BY DEF ThreadArrives, Resolved, Micro
<1>2. /\ Open(bridge) /\ bridge.operation = r /\ TheTurn = r /\ Clear(r)
      /\ bridge.session # None /\ bridge \in BridgeState
  BY <1>1, DriveFacts, OpenFacts DEF Given, IInv, TypeOK
<1>3. Cur(bridge) \in Session /\ s \in Session
  BY <1>2, CurType DEF Session
<1>4. bridge' = [bridge EXCEPT !.sess[bridge.session] = s]
  BY <1>2, CurType DEF ThreadArrives, Cur, BridgeState
<1>5. Works(bridge, bridge') /\ Cur(bridge') = s /\ bridge'.op = bridge.op
  BY <1>2, <1>3, <1>4, CurEffect
<1>6. /\ s.last = Cur(bridge).last /\ s.waiting = Cur(bridge).waiting
      /\ s.pending = Cur(bridge).pending /\ s.buffered = Cur(bridge).buffered
      /\ s.turnId = Cur(bridge).turnId
  BY <1>3 DEF Session
<1> HIDE DEF s
<1>7. Place /\ SessionStill
  BY <1>5, <1>6 DEF Works, Place, SessionStill
<1>8. CASE Moves(r, "failed") /\ app' = app
  BY <1>1, <1>2, <1>7, <1>8, MovesShape
<1>9. CASE StartsTurn(r)
  <2>1. /\ Asks(r, "turn")
        /\ app' = app \/ app' = [app EXCEPT !.turn[r] = "sent"]
    BY <1>9 DEF StartsTurn
  <2>. QED BY <1>1, <1>2, <1>7, <2>1, AsksShape
<1>. QED BY <1>8, <1>9 DEF ThreadArrives

\* The turn is acknowledged, in time or too late.
LEMMA TurnLateShape ==
  ASSUME Given, NEW r \in Requests, TurnTooLate(r) PROVE Shape'
<1>1. /\ Moves(r, "done") /\ ~Current(r) /\ loop' = loop /\ app' = app
      /\ \A q \in Requests : task[q].drv # "replay"
  BY DEF TurnTooLate, Resolved, Micro
<1>2. Place /\ SessionStill
  BY SentPlace DEF TurnTooLate, Given, IInv, TypeOK
<1>. QED BY <1>1, <1>2, DriveFacts, MovesShape

\* The turn is acknowledged in time.
LEMMA TurnShape ==
  ASSUME Given, NEW r \in Requests, TurnArrives(r) PROVE Shape'
<1> DEFINE s == [Cur(bridge) EXCEPT !.turnId = r]
<1>1. /\ task[r].drv = "turn" /\ loop' = loop /\ app' = app /\ Moves(r, "done")
      /\ \A q \in Requests : task[q].drv # "replay"
      /\ bridge \in BridgeState
  BY DEF TurnArrives, Resolved, Micro, Given, IInv, TypeOK
<1>2. Place /\ SessionStill
  <2>1. CASE bridge' = bridge
    BY <1>1, <2>1, SentPlace
  <2>2. CASE /\ bridge.operation = r /\ Open(bridge)
             /\ bridge' = [bridge EXCEPT !.sess[bridge.session].turnId = r]
    <3>1. TheTurn = r /\ bridge.session # None
      BY <1>1, <2>2, DriveFacts, OpenFacts DEF Given
    <3>2. Cur(bridge) \in Session /\ s \in Session
      BY <1>1, <3>1, CurType DEF Session, OptRequest
    <3>3. bridge' = [bridge EXCEPT !.sess[bridge.session] = s]
      BY <1>1, <2>2, <3>1, CurType DEF Cur, BridgeState
    <3>4. Works(bridge, bridge') /\ Cur(bridge') = s /\ bridge'.op = bridge.op
      BY <1>1, <3>1, <3>2, <3>3, CurEffect
    <3>5. /\ s.last = Cur(bridge).last /\ s.waiting = Cur(bridge).waiting
          /\ s.pending = Cur(bridge).pending /\ s.buffered = Cur(bridge).buffered
          /\ s.turnId = r
      BY <3>2 DEF Session
    <3> HIDE DEF s
    <3>. QED BY <2>2, <3>1, <3>4, <3>5 DEF Works, Place, SessionStill
  <2>. QED BY <2>1, <2>2 DEF TurnArrives
<1>. QED BY <1>1, <1>2, DriveFacts, MovesShape

\* An RPC of the drive is refused.
LEMMA RefusedShape ==
  ASSUME Given, NEW r \in Requests, DriveRefused(r) PROVE Shape'
<1>1. /\ task[r].drv \in {"thread", "turn"}
      /\ bridge' = bridge /\ loop' = loop /\ app' = app
      /\ \A q \in Requests : task[q].drv # "replay"
      /\ \E step \in {"failed", "done"} : Moves(r, step)
  BY DEF DriveRefused, Resolved, Micro
<1>2. Place /\ SessionStill
  BY <1>1, SentPlace DEF Given, IInv, TypeOK
<1>. QED BY <1>1, <1>2, DriveFacts, MovesShape

\* A drive that failed: its operation fails, or was over.
LEMMA CatchesShape ==
  ASSUME Given, NEW r \in Requests, DriveCatches(r) PROVE Shape'
<1>1. /\ Moves(r, "done") /\ loop' = loop /\ app' = app
      /\ \A q \in Requests : task[q].drv # "replay"
      /\ bridge \in BridgeState
  BY DEF DriveCatches, Micro, Given, IInv, TypeOK
<1>2. CASE bridge.operation = r /\ Open(bridge) /\ bridge' = Fail(bridge, "failed")
  <2>1. bridge'.session = None
    BY <1>1, <1>2, FailEffect DEF Fails, Dropped, Outcomes
  <2>. QED BY <1>1, <2>1, NothingToReplay, GoneShape
<1>3. CASE ~(bridge.operation = r /\ Open(bridge)) /\ bridge' = bridge
  <2>1. Place /\ SessionStill
    BY <1>1, <1>3, SentPlace
  <2>. QED BY <1>1, <1>3, <2>1, MovesShape
<1>. QED BY <1>2, <1>3 DEF DriveCatches


-----------------------------------------------------------------------------
(* The steps that let go of the session *)

\* A step that drops the session leaves nothing to say.
LEMMA EndsShape ==
  ASSUME Given, bridge'.session = None, loop' = loop,
         \A r \in Requests : task[r].drv # "replay"
  PROVE  Shape'
BY NothingToReplay, GoneShape

\* fail leaves no session.
LEMMA FailsShape ==
  ASSUME Given, NEW b, NEW t, Fails(b, bridge', t), loop' = loop,
         \A r \in Requests : task[r].drv # "replay"
  PROVE  Shape'
BY EndsShape DEF Fails, Dropped

\* A new request, the generation timer, a client that goes away, and the
\* session's timer.
LEMMA NewShape ==
  ASSUME Given, NEW r \in Requests, RespondNew(r) PROVE Shape'
<1> DEFINE b == [bridge EXCEPT !.busy = TRUE]
<1>1. /\ bridge' = Release(b) /\ loop' = loop
      /\ \A q \in Requests : task[q].drv # "replay"
  BY MacroQuiet DEF RespondNew, Arrives, Given, IInv
<1>2. b \in BridgeState
  BY DEF Given, IInv, TypeOK, BridgeState
<1> HIDE DEF b
<1>3. bridge'.session = None
  BY <1>1, <1>2, ReleaseEffect DEF Dropped
<1>. QED BY <1>1, <1>3, EndsShape

\* The generation timer fails what it finds.
LEMMA TimeoutShape ==
  ASSUME Given, NEW r \in Requests, RequestTimeout(r) PROVE Shape'
<1>1. /\ bridge' = Fail(bridge, "timeout") /\ loop' = loop /\ bridge \in BridgeState
      /\ \A q \in Requests : task[q].drv # "replay"
  BY MacroQuiet DEF RequestTimeout, Given, IInv, TypeOK
<1>. QED BY <1>1, FailEffect, FailsShape DEF Outcomes

\* A client that goes away fails its own operation at most.
LEMMA ClientShape ==
  ASSUME Given, NEW r \in Requests, ClientGone(r) PROVE Shape'
<1> DEFINE v == [task[r] EXCEPT !.gone = TRUE]
<1>1. /\ task \in [Requests -> Task] /\ task[r] \in Task /\ bridge \in BridgeState
      /\ loop' = loop /\ app' = app /\ task' = [task EXCEPT ![r] = v]
      /\ \A q \in Requests : task[q].drv # "replay"
  BY MacroQuiet DEF ClientGone, Given, IInv, TypeOK
<1>2. v.drv = task[r].drv
  BY <1>1 DEF Task
<1> HIDE DEF v
<1>3. \A q \in Requests : task'[q].drv = task[q].drv
  BY <1>1, <1>2
<1>4. CASE bridge' = bridge
  <2>1. Place /\ SessionStill
    BY <1>1, <1>4, SentPlace
  <2>. QED BY <1>1, <1>3, <2>1, SameShape DEF Live
<1>5. CASE bridge' = Fail(bridge, "failed")
  BY <1>1, <1>5, FailEffect, FailsShape DEF Outcomes
<1>. QED BY <1>4, <1>5 DEF ClientGone

\* The timer of an idle session lets it go.
LEMMA ExpiresShape ==
  ASSUME Given, SessionExpires PROVE Shape'
<1>1. /\ bridge' = Release(bridge) /\ loop' = loop /\ bridge \in BridgeState
      /\ \A q \in Requests : task[q].drv # "replay"
  BY MacroQuiet DEF SessionExpires, Given, IInv, TypeOK
<1>2. bridge'.session = None
  BY <1>1, ReleaseEffect DEF Dropped
<1>. QED BY <1>1, <1>2, EndsShape

\* The connection's end and close().
LEMMA ExitsShape ==
  ASSUME Given, RpcExits \/ CloseBegins \/ CloseEnds PROVE Shape'
<1>1. loop' = loop /\ \A r \in Requests : task[r].drv # "replay"
  BY LineQuiet, MacroQuiet
     DEF Given, IInv, RpcExits, MicroReady, Ready, CloseBegins, CloseEnds, Micro
<1>2. CASE Exits(bridge)
  BY <1>1, <1>2, ExitEffect, FailsShape DEF Given
<1>3. CASE CloseBegins
  BY <1>1, <1>3, CloseEffect, FailsShape DEF Given
<1>4. CASE CloseEnds /\ UNCHANGED <<bridge, task>>
  <2>1. Place /\ SessionStill /\ app' = app
    BY <1>4 DEF CloseEnds, Place, SessionStill
  <2>. QED BY <1>1, <1>4, <2>1, SameShape DEF Live
<1>. QED BY <1>2, <1>3, <1>4 DEF RpcExits, CloseEnds

-----------------------------------------------------------------------------
(* respond() that opens an operation *)

\* A new session comes with the request, or fails with it.
LEMMA OpensEffect ==
  ASSUME IInv, Flight, NEW r \in Requests, RespondOpens(r)
  PROVE  /\ bridge.session = None /\ r \notin Opened /\ task[r].turn = r
         /\ task[r].tool = None /\ loop' = loop /\ app' = app
         /\ \A q \in Requests : task[q].drv # "replay"
         /\ bridge'.operation = r /\ bridge'.rpc = bridge.rpc
         /\ bridge'.heard = bridge.heard /\ bridge'.answers = bridge.answers
         /\ bridge'.interrupted = bridge.interrupted
         /\ \A q \in Requests : q # r => task'[q] = task[q]
         /\ task'[r].turn = r /\ task'[r].tool = None /\ task'[r].session = r
         /\ task'[r].pc = "awaiting" /\ task'[r].reply = task[r].reply
         /\ task'[r].late = task[r].late
         /\ \/ /\ bridge'.session = r /\ Cur(bridge') = NewSession /\ Open(bridge')
               /\ task'[r].drv = "start"
            \/ bridge'.session = None /\ task'[r].drv = "done"
<1> DEFINE b == [bridge EXCEPT !.session = r, !.sess[r] = NewSession]
           body == [task[r] EXCEPT !.session = r]
<1>1. /\ bridge \in BridgeState /\ task[r] \in Task /\ task \in [Requests -> Task]
      /\ task[r].pc = "releasing" /\ r \notin Opened
      /\ \A q \in Requests : task[q].drv # "replay"
      /\ Begin(r, b, body) /\ loop' = loop /\ app' = app
  BY DEF IInv, TypeOK, RespondOpens, Micro, Opened, Begin
<1>2. /\ task[r].tool = None /\ bridge.session = None /\ task[r].turn = r
      /\ bridge.op[r] = [offered |-> None, outcome |-> "none"]
  BY <1>1 DEF Flight, Fresh
<1>3. /\ b \in BridgeState /\ b.session = r /\ Cur(b) = NewSession
      /\ b.op = bridge.op /\ b.rpc = bridge.rpc /\ b.heard = bridge.heard
      /\ b.answers = bridge.answers /\ b.interrupted = bridge.interrupted
  BY <1>1, NewSessionType DEF BridgeState, OptRequest, Cur
<1>4. /\ body.turn = r /\ body.tool = None /\ body.session = r /\ body \in Task
      /\ body.reply = task[r].reply /\ body.late = task[r].late
  BY <1>1, <1>2 DEF Task, OptRequest
<1> HIDE DEF b, body
<1>5. /\ bridge'.operation = r /\ bridge'.rpc = b.rpc /\ bridge'.heard = b.heard
      /\ \/ Begun(r, body, "start") /\ Starts(b)
         \/ Begun(r, body, "done") /\ StartFails(r, b)
  <2>1. b.session # None /\ b.op[r] = [offered |-> None, outcome |-> "none"]
    BY <1>2, <1>3, NoneAssumption
  <2>. QED BY <1>1, <1>3, <2>1, BeginEffect
<1>6. ASSUME NEW step \in {"start", "done"}, Begun(r, body, step)
      PROVE  /\ \A q \in Requests : q # r => task'[q] = task[q]
             /\ task'[r].turn = r /\ task'[r].tool = None /\ task'[r].session = r
             /\ task'[r].pc = "awaiting" /\ task'[r].reply = task[r].reply
             /\ task'[r].late = task[r].late /\ task'[r].drv = step
  <2> DEFINE w == [body EXCEPT !.pc = "awaiting", !.drv = step]
  <2>1. /\ task' = [task EXCEPT ![r] = w]
        /\ w.turn = r /\ w.tool = None /\ w.session = r
        /\ w.pc = "awaiting" /\ w.reply = task[r].reply
        /\ w.late = task[r].late /\ w.drv = step
    BY <1>4, <1>6 DEF Begun, Task
  <2> HIDE DEF w
  <2>. QED BY <1>1, <2>1
<1>7. CASE Begun(r, body, "start") /\ Starts(b)
  <2>1. /\ bridge'.session = r /\ Cur(bridge') = NewSession /\ Open(bridge')
        /\ bridge'.answers = bridge.answers /\ bridge'.interrupted = bridge.interrupted
    BY <1>3, <1>7 DEF Starts, Cur
  <2>. QED BY <1>1, <1>2, <1>3, <1>5, <1>6, <1>7, <2>1
<1>8. CASE Begun(r, body, "done") /\ StartFails(r, b)
  <2>1. Held(NewSession) = {} /\ NewSession.turnId = None
    BY DEF Held, NewSession, Range
  <2>2. Answer(b, {}, "cancelled", None) = b.answers
    BY <1>3 DEF Answer, BridgeState
  <2>3. /\ bridge'.session = None
        /\ bridge'.answers = bridge.answers /\ bridge'.interrupted = bridge.interrupted
    BY <1>3, <1>8, <2>1, <2>2 DEF StartFails
  <2>. QED BY <1>1, <1>2, <1>3, <1>5, <1>6, <1>8, <2>3
<1>. QED BY <1>5, <1>7, <1>8

\* A session that has just been opened holds nothing.
LEMMA OpensShape ==
  ASSUME Given, NEW r \in Requests, RespondOpens(r) PROVE Shape'
<1>1. /\ r \notin Opened /\ loop' = loop /\ app' = app
      /\ \A q \in Requests : task[q].drv # "replay"
      /\ bridge'.operation = r
      /\ task'[r].turn = r /\ task'[r].tool = None
      /\ \/ /\ bridge'.session = r /\ Cur(bridge') = NewSession /\ Open(bridge')
            /\ task'[r].drv = "start"
         \/ bridge'.session = None
  BY OpensEffect DEF Given
<1>2. CASE bridge'.session = None
  BY <1>1, <1>2, EndsShape
<1>3. CASE bridge'.session # None
  <2>1. /\ bridge'.session = r /\ Cur(bridge)' = NewSession /\ Open(bridge)'
        /\ task'[r].drv = "start" /\ loop' = <<>>
    BY <1>1, <1>3, NothingToReplay DEF Cur, Open
  <2>2. Rest'
    BY <2>1 DEF Rest
  <2>3. Busy'
    BY <1>1, <2>1 DEF Busy, NewSession
  <2>4. \A t \in Requests : ~(Live(t)' /\ task'[t].session = r)
    <3>1. ASSUME NEW t \in Requests, Live(t)', task'[t].session = r PROVE FALSE
      <4>1. t \in Opened
        BY <1>1, <3>1 DEF Live, Given, IInv, CallInv, OpenedFirst
      <4>2. task[t].session = r /\ task[t].session \in Opened
        BY <3>1, <4>1 DEF Given, Kept, IInv, CallInv, OpenedFirst
      <4>. QED BY <1>1, <4>2
    <3>. QED BY <3>1
  <2>5. Turns'
    <3>1. Coming' = {}
      BY <2>1 DEF Coming, NewSession, Range
    <3>. QED BY <2>1, <2>4, <3>1 DEF Turns, NewSession
  <2>. QED BY <2>2, <2>3, <2>5 DEF Given, Shape
<1>. QED BY <1>2, <1>3


\* A request that continues the idle session: with a message when nothing is
\* outstanding, with the result of the call that the session waits for, or it
\* fails with the session.
LEMMA ContinueEffect ==
  ASSUME IInv, Flight, Rest, NEW r \in Requests, NEW prev \in OptRequest,
         NEW tool \in OptCall, RespondContinue(r, prev, tool)
  PROVE  LET s == Cur(bridge)
         IN /\ bridge.session # None /\ ~Open(bridge) /\ r \notin Opened
            /\ prev \in Opened /\ s.last = prev /\ s.thread
            /\ IF tool # None THEN s.waiting = tool
               ELSE /\ s.turnId = None /\ s.waiting = None
                    /\ s.pending = <<>> /\ s.buffered = <<>>
            /\ loop' = loop /\ app' = app /\ \A q \in Requests : task[q].drv # "replay"
            /\ bridge'.operation = r /\ bridge'.rpc = bridge.rpc
            /\ bridge'.heard = bridge.heard
            /\ \A q \in Requests : q # r => task'[q] = task[q]
            /\ task'[r].turn = IF tool = None THEN r ELSE task[prev].turn
            /\ task'[r].tool = tool /\ task'[r].session = bridge.session
            /\ task'[r].pc = "awaiting" /\ task'[r].reply = task[r].reply
            /\ task'[r].late = task[r].late
            /\ \/ /\ bridge'.session = bridge.session /\ Cur(bridge') = s
                  /\ Open(bridge') /\ task'[r].drv = "start"
                  /\ bridge'.answers = bridge.answers
                  /\ bridge'.interrupted = bridge.interrupted
               \/ /\ bridge'.session = None /\ task'[r].drv = "done"
                  /\ bridge'.answers = Answer(bridge, Held(s), "cancelled", None)
                  /\ IF bridge.rpc = "up" /\ s.turnId # None
                     THEN bridge'.interrupted = bridge.interrupted \cup {s.turnId}
                     ELSE bridge'.interrupted = bridge.interrupted
<1> DEFINE s == Cur(bridge)
           b == [bridge EXCEPT !.busy = TRUE, !.ttl = FALSE]
           turn == IF tool = None THEN r ELSE task[prev].turn
           body == [task[r] EXCEPT !.session = bridge.session, !.prev = prev,
                                   !.tool = tool, !.turn = turn]
<1>1. /\ bridge \in BridgeState /\ task[r] \in Task /\ TypeOK
      /\ task[r].pc = "unsent" /\ r \notin Opened /\ ~bridge.busy
      /\ prev # None /\ bridge.session # None /\ Macro
      /\ s.last = prev /\ (tool # None => s.waiting = tool)
      /\ (tool = None => s.turnId = None /\ Held(s) = {})
      /\ Begin(r, b, body) /\ task \in [Requests -> Task]
      /\ loop' = loop /\ app' = app
  BY DEF IInv, TypeOK, RespondContinue, ContinuationOk, Arrives, Opened, Begin
<1>2. \A q \in Requests : task[q].drv # "replay"
  BY <1>1, MacroQuiet
<1>3. /\ b \in BridgeState /\ b.session = bridge.session /\ b.sess = bridge.sess
      /\ b.op = bridge.op /\ b.rpc = bridge.rpc /\ b.heard = bridge.heard
      /\ b.answers = bridge.answers /\ b.interrupted = bridge.interrupted
  BY <1>1 DEF BridgeState
<1>4. turn \in OptRequest /\ prev \in Requests
  BY <1>1 DEF Task, OptRequest
<1>5. /\ body.turn = turn /\ body.tool = tool /\ body.session = bridge.session
      /\ body \in Task /\ body.reply = task[r].reply /\ body.late = task[r].late
  <2> HIDE DEF turn
  <2>. QED BY <1>1, <1>4 DEF Task, OptRequest, BridgeState
<1> HIDE DEF b, body, turn
<1>6. ~Open(bridge) /\ bridge.op[r] = [offered |-> None, outcome |-> "none"]
  BY <1>1, IdleNoOperation DEF Flight, Fresh
<1>7. /\ prev \in Opened /\ s.thread
      /\ (tool = None => s.waiting = None /\ s.pending = <<>> /\ s.buffered = <<>>)
  <2>1. tool = None => s.waiting = None
    BY <1>1 DEF Held
  <2>. QED BY <1>1, <1>6, <2>1 DEF Rest, Flight, ThreadOK
<1>8. /\ bridge'.operation = r /\ bridge'.rpc = b.rpc /\ bridge'.heard = b.heard
      /\ \/ Begun(r, body, "start") /\ Starts(b)
         \/ Begun(r, body, "done") /\ StartFails(r, b)
  <2>1. b.session # None /\ b.op[r] = [offered |-> None, outcome |-> "none"]
    BY <1>1, <1>3, <1>6
  <2>. QED BY <1>1, <1>3, <2>1, BeginEffect
<1>9. ASSUME NEW step \in {"start", "done"}, Begun(r, body, step)
      PROVE  /\ \A q \in Requests : q # r => task'[q] = task[q]
             /\ task'[r].turn = turn /\ task'[r].tool = tool
             /\ task'[r].session = bridge.session
             /\ task'[r].pc = "awaiting" /\ task'[r].reply = task[r].reply
             /\ task'[r].late = task[r].late /\ task'[r].drv = step
  <2> DEFINE w == [body EXCEPT !.pc = "awaiting", !.drv = step]
  <2>1. /\ task' = [task EXCEPT ![r] = w]
        /\ w.turn = turn /\ w.tool = tool /\ w.session = bridge.session
        /\ w.pc = "awaiting" /\ w.reply = task[r].reply
        /\ w.late = task[r].late /\ w.drv = step
    BY <1>5, <1>9 DEF Begun, Task
  <2> HIDE DEF w
  <2>. QED BY <1>1, <2>1
<1>10. CASE Begun(r, body, "start") /\ Starts(b)
  <2>1. /\ bridge'.session = bridge.session /\ Cur(bridge') = s /\ Open(bridge')
        /\ bridge'.answers = bridge.answers /\ bridge'.interrupted = bridge.interrupted
    BY <1>3, <1>10 DEF Starts, Cur
  <2>. QED BY <1>1, <1>2, <1>3, <1>6, <1>7, <1>8, <1>9, <1>10, <2>1 DEF turn
<1>11. CASE Begun(r, body, "done") /\ StartFails(r, b)
  <2>1. /\ Cur(b) = s
        /\ Answer(b, Held(s), "cancelled", None)
             = Answer(bridge, Held(s), "cancelled", None)
    BY <1>3 DEF Answer, Cur
  <2>2. /\ bridge'.session = None
        /\ bridge'.answers = Answer(bridge, Held(s), "cancelled", None)
        /\ IF bridge.rpc = "up" /\ s.turnId # None
           THEN bridge'.interrupted = bridge.interrupted \cup {s.turnId}
           ELSE bridge'.interrupted = bridge.interrupted
    BY <1>3, <1>7, <1>11, <2>1 DEF StartFails
  <2>. QED BY <1>1, <1>2, <1>3, <1>6, <1>7, <1>8, <1>9, <1>11, <2>2 DEF turn
<1>. QED BY <1>8, <1>10, <1>11

\* A continuation starts from what its session held at rest.
LEMMA ContinueShape ==
  ASSUME Given, NEW r \in Requests, NEW prev \in OptRequest, NEW tool \in OptCall,
         RespondContinue(r, prev, tool)
  PROVE  Shape'
<1> DEFINE s == Cur(bridge)
<1>1. /\ bridge.session # None /\ ~Open(bridge) /\ r \notin Opened
      /\ prev \in Opened /\ s.last = prev
      /\ IF tool # None THEN s.waiting = tool
         ELSE /\ s.turnId = None /\ s.waiting = None
              /\ s.pending = <<>> /\ s.buffered = <<>>
      /\ loop' = loop /\ app' = app /\ \A q \in Requests : task[q].drv # "replay"
      /\ bridge'.operation = r
      /\ task'[r].turn = IF tool = None THEN r ELSE task[prev].turn
      /\ task'[r].tool = tool
      /\ \/ /\ bridge'.session = bridge.session /\ Cur(bridge') = s
            /\ Open(bridge') /\ task'[r].drv = "start"
         \/ bridge'.session = None
  BY ContinueEffect DEF Given, Shape
<1>2. CASE bridge'.session = None
  BY <1>1, <1>2, EndsShape
<1>3. CASE bridge'.session # None
  <2>1. /\ bridge'.session = bridge.session /\ Cur(bridge)' = s /\ Open(bridge)'
        /\ task'[r].drv = "start" /\ loop = <<>> /\ loop' = <<>>
    BY <1>1, <1>3, NothingToReplay DEF Cur, Open
  <2>2. TheTurn = task[prev].turn /\ TheTurn' = task'[r].turn
    BY <1>1, <2>1 DEF TheTurn
  <2>3. /\ s.turnId \in {None, TheTurn} /\ \A e \in Coming : EventOK(e)
        /\ \A t \in Requests : Live(t) /\ task[t].session = bridge.session =>
             t = TheTurn /\ s.waiting # None
    BY <1>1 DEF Given, Shape, Turns
  <2> HIDE DEF s
  <2>4. Rest'
    BY <2>1 DEF Rest
  <2>5. Busy'
    BY <1>1, <2>1 DEF Busy, Clear
  <2>6. \A t \in Requests : Live(t)' /\ task'[t].session = bridge.session =>
          t = TheTurn' /\ tool # None
    <3>1. ASSUME NEW t \in Requests, Live(t)', task'[t].session = bridge.session
          PROVE  t = TheTurn' /\ tool # None
      <4>1. t \in Opened /\ Live(t)
        BY <1>1, <3>1 DEF Live, Given, IInv, CallInv, OpenedFirst
      <4>2. task[t].session = bridge.session
        BY <3>1, <4>1 DEF Given, Kept
      <4>3. t = TheTurn /\ s.waiting # None
        BY <2>3, <4>1, <4>2
      <4>. QED BY <1>1, <2>2, <4>3
    <3>. QED BY <3>1
  <2>7. Turns'
    <3>1. CASE tool = None
      <4>1. Coming' = {}
        BY <1>1, <2>1, <3>1 DEF Coming, Range
      <4>. QED BY <1>1, <2>1, <2>6, <3>1, <4>1 DEF Turns
    <3>2. CASE tool # None
      <4>1. TheTurn' = TheTurn /\ Coming' = Coming
        BY <1>1, <2>1, <2>2, <3>2 DEF Coming, s
      <4>2. \A e \in Coming' : EventOK(e)'
        BY <1>1, <2>3, <4>1 DEF EventOK
      <4>. QED BY <2>1, <2>3, <2>6, <4>1, <4>2 DEF Turns
    <3>. QED BY <3>1, <3>2
  <2>. QED BY <2>4, <2>5, <2>7 DEF Given, Shape
<1>. QED BY <1>2, <1>3


-----------------------------------------------------------------------------
(* The steps that end a segment well, and the replay *)

\* The segment ends with the call that the session then waits for, or with
\* nothing outstanding and the turn over.
LEMMA CompletesShape ==
  ASSUME Given, NEW c, Works(bridge, bridge'), Completes(bridge, bridge', c),
         IF Cur(bridge').waiting # None THEN c = Cur(bridge').waiting
         ELSE /\ Cur(bridge').turnId = None /\ Cur(bridge').pending = <<>>
              /\ Cur(bridge').buffered = <<>>,
         Cur(bridge').turnId \in {None, TheTurn},
         loop' # <<>> => \E r \in Requests : task'[r].drv = "replay",
         \A e \in Coming' : e \in Coming,
         \A t \in Requests : Live(t)' =>
           Live(t) /\ (Cur(bridge').waiting # None \/ t # TheTurn)
  PROVE  Shape'
<1>1. /\ bridge'.session = bridge.session /\ bridge.session # None
      /\ Open(bridge) /\ ~Open(bridge') /\ Cur(bridge').last = bridge.operation
      /\ bridge'.op[bridge.operation] = [offered |-> c, outcome |-> "ok"]
      /\ Open(bridge)' = Open(bridge') /\ Cur(bridge)' = Cur(bridge')
  BY DEF Works, Completes, Open, Cur
<1>2. TheTurn' = TheTurn /\ TheTurn \in Requests
  BY <1>1, TheTurnStays
<1>3. /\ bridge.operation \in Opened
      /\ task[bridge.operation].session = bridge.session
  BY <1>1, OpenFacts DEF Given
<1>4. Rest'
  <2>1. /\ bridge.operation \in Opened'
        /\ task'[bridge.operation].session = bridge.session
    BY <1>3 DEF Given, Kept, Opened
  <2>. QED BY <1>1, <2>1 DEF Rest
<1>5. Busy'
  BY <1>1 DEF Busy
<1>6. Turns'
  <2>1. \A t \in Requests : Live(t)' /\ task[t].session = bridge.session =>
          t = TheTurn /\ (~Open(bridge') => Cur(bridge').waiting # None)
    BY <1>1 DEF Given, Shape, Turns
  <2>. QED BY <1>1, <1>2, <2>1, TurnsHold
<1>. QED BY <1>4, <1>5, <1>6 DEF Given, Shape

\* A step of the open segment, whose drive has arrived somewhere else.
LEMMA SegmentShape ==
  ASSUME Given, bridge'.session = bridge.session, Open(bridge), Open(bridge'),
         bridge'.operation = bridge.operation,
         Cur(bridge').turnId \in {Cur(bridge).turnId, None},
         NEW r \in Requests, r = bridge.operation,
         \/ task'[r].drv = "failed"
         \/ /\ Cur(bridge').waiting = None /\ Cur(bridge').buffered = <<>>
            /\ \/ task'[r].drv = "replay"
               \/ task'[r].drv = "done" /\ Cur(bridge').pending = <<>>,
         loop' # <<>> => \E q \in Requests : task'[q].drv = "replay",
         Coming' \subseteq Coming, app' = app
  PROVE  Shape'
<1>1. /\ bridge.session # None
      /\ Open(bridge)' = Open(bridge') /\ Cur(bridge)' = Cur(bridge')
  BY OpenFacts DEF Given, Open, Cur
<1>2. TheTurn' = TheTurn /\ TheTurn \in Requests
  BY <1>1, TheTurnStays
<1>3. Rest'
  BY <1>1 DEF Rest
<1>4. Busy'
  BY <1>1 DEF Busy, Clear
<1>5. Turns'
  <2>1. Cur(bridge').turnId \in {None, TheTurn}
    BY <1>1 DEF Given, Shape, Turns
  <2>2. \A t \in Requests : Live(t)' /\ task[t].session = bridge.session => t = TheTurn
    BY <1>1 DEF Given, Shape, Turns, Live
  <2>. QED BY <1>1, <1>2, <2>1, <2>2, TurnsHold
<1>. QED BY <1>3, <1>4, <1>5 DEF Given, Shape

\* The result is brought to the call that the session waits for.
LEMMA AnswersEffect ==
  ASSUME IInv, Flight, NEW r \in Requests, DriveAnswersTool(r)
  PROVE  LET s == Cur(bridge)
             n == Cur(bridge')
         IN /\ bridge.session # None /\ Open(bridge) /\ bridge.operation = r
            /\ task[r].drv = "start" /\ task[r].tool # None /\ app' = app
            /\ \A q \in Requests : task[q].drv # "replay"
            /\ bridge'.session = bridge.session /\ bridge'.operation = r
            /\ bridge'.op = bridge.op /\ bridge'.rpc = bridge.rpc
            /\ bridge'.heard = bridge.heard
            /\ bridge'.interrupted = bridge.interrupted
            /\ n.waiting = None /\ n.pending = s.pending /\ n.last = s.last
            /\ n.turnId = s.turnId
            /\ \/ /\ bridge.rpc = "up" /\ n.buffered = <<>> /\ loop' = s.buffered
                  /\ bridge'.answers = Answer(bridge, {s.waiting}, "result", r)
                  /\ Moves(r, "replay")
               \/ /\ bridge.rpc # "up" /\ n.buffered = s.buffered /\ loop' = loop
                  /\ bridge'.answers = bridge.answers
                  /\ Moves(r, "failed")
<1> DEFINE s == Cur(bridge)
           ans == Answer(bridge, {s.waiting}, "result", r)
           taken == [s EXCEPT !.waiting = None, !.buffered = <<>>]
           lost == [s EXCEPT !.waiting = None]
<1>1. /\ task[r].drv = "start" /\ task[r].tool # None /\ Current(r) /\ app' = app
      /\ \A q \in Requests : task[q].drv # "replay"
      /\ bridge \in BridgeState
  BY DEF DriveAnswersTool, Started, Micro, IInv, TypeOK
<1>2. bridge.operation = r /\ Open(bridge) /\ bridge.session # None
  BY <1>1 DEF Flight, OneFlight, DriveOK
<1>3. /\ bridge.session \in Requests /\ s \in Session
      /\ ans \in [Calls -> Seq(Answers)]
  BY <1>1, <1>2, CurType, AnswerType DEF OptRequest
<1>4. CASE /\ bridge.rpc = "up" /\ loop' = s.buffered
           /\ bridge' = [bridge EXCEPT !.answers = ans,
                                       !.sess[bridge.session] = taken]
           /\ Moves(r, "replay")
  <2>1. /\ taken.waiting = None /\ taken.pending = s.pending /\ taken.last = s.last
        /\ taken.turnId = s.turnId /\ taken.buffered = <<>>
    BY <1>3 DEF Session
  <2> HIDE DEF taken, ans
  <2>2. /\ bridge'.session = bridge.session /\ bridge'.operation = r
        /\ bridge'.op = bridge.op /\ bridge'.rpc = bridge.rpc
        /\ bridge'.heard = bridge.heard /\ bridge'.answers = ans
        /\ bridge'.interrupted = bridge.interrupted
        /\ bridge'.sess = [bridge.sess EXCEPT ![bridge.session] = taken]
    BY <1>1, <1>2, <1>4 DEF BridgeState
  <2>3. Cur(bridge') = taken
    BY <1>1, <1>3, <2>2 DEF BridgeState, Cur
  <2>. QED BY <1>1, <1>2, <1>4, <2>1, <2>2, <2>3 DEF ans
<1>5. CASE /\ bridge.rpc # "up" /\ loop' = loop
           /\ bridge' = [bridge EXCEPT !.sess[bridge.session].waiting = None]
           /\ Moves(r, "failed")
  <2>1. /\ lost \in Session
        /\ lost.waiting = None /\ lost.pending = s.pending /\ lost.last = s.last
        /\ lost.turnId = s.turnId /\ lost.buffered = s.buffered
    BY <1>3 DEF Session, OptCall
  <2>2. bridge' = [bridge EXCEPT !.sess[bridge.session] = lost]
    BY <1>5 DEF Cur
  <2> HIDE DEF lost
  <2>3. /\ Works(bridge, bridge') /\ Cur(bridge') = lost /\ bridge'.op = bridge.op
        /\ bridge'.answers = bridge.answers /\ bridge'.heard = bridge.heard
    BY <1>1, <1>2, <2>1, <2>2, CurEffect
  <2>. QED BY <1>1, <1>2, <1>5, <2>1, <2>3 DEF Works
<1>. QED BY <1>4, <1>5 DEF DriveAnswersTool

\* A drive that moves arrives there, and nobody else moves.
LEMMA MovesEffect ==
  ASSUME IInv, NEW r \in Requests, NEW step, Moves(r, step)
  PROVE  /\ task'[r].drv = step /\ task'[r].reply = "none"
         /\ task'[r].late = task[r].late
         /\ \A q \in Requests : q # r => task'[q] = task[q]
<1> DEFINE v == [task[r] EXCEPT !.drv = step, !.reply = "none"]
<1>1. task \in [Requests -> Task] /\ task[r] \in Task
  BY DEF IInv, TypeOK
<1>2. /\ task' = [task EXCEPT ![r] = v]
      /\ v.drv = step /\ v.reply = "none" /\ v.late = task[r].late
  BY <1>1 DEF Moves, Task
<1> HIDE DEF v
<1>. QED BY <1>1, <1>2

\* The result is brought: the call is gone, its events are to be replayed.
LEMMA AnswersShape ==
  ASSUME Given, NEW r \in Requests, DriveAnswersTool(r) PROVE Shape'
<1> DEFINE s == Cur(bridge)
           n == Cur(bridge')
<1>1. /\ bridge.session # None /\ Open(bridge) /\ bridge.operation = r
      /\ app' = app /\ \A q \in Requests : task[q].drv # "replay"
      /\ bridge'.session = bridge.session /\ bridge'.operation = r
      /\ bridge'.op = bridge.op
      /\ n.waiting = None /\ n.turnId = s.turnId
      /\ \/ n.buffered = <<>> /\ loop' = s.buffered /\ Moves(r, "replay")
         \/ n.buffered = s.buffered /\ loop' = loop /\ Moves(r, "failed")
  BY AnswersEffect DEF Given
<1> HIDE DEF n, s
<1>2. Open(bridge') /\ loop = <<>> /\ Range(<<>>) = {}
  BY <1>1, NothingToReplay DEF Open, Range
<1>3. Coming' \subseteq Coming
  BY <1>1, <1>2 DEF Coming, n, s, Cur
<1>4. CASE n.buffered = <<>> /\ Moves(r, "replay")
  BY <1>1, <1>2, <1>3, <1>4, MovesEffect, SegmentShape DEF n, s, Given
<1>5. CASE loop' = loop /\ Moves(r, "failed")
  BY <1>1, <1>2, <1>3, <1>5, MovesEffect, SegmentShape DEF n, s, Given
<1>. QED BY <1>1, <1>4, <1>5


\* The rest of a sequence has no more in it than the sequence.
LEMMA TailRange ==
  ASSUME NEW S, NEW q \in Seq(S), q # <<>>
  PROVE  /\ Head(q) \in S /\ Head(q) \in Range(q) /\ Tail(q) \in Seq(S)
         /\ Range(Tail(q)) \subseteq Range(q)
<1>1. 1 \in DOMAIN q /\ q[1] = Head(q) /\ Head(q) \in S /\ Tail(q) \in Seq(S)
  OBVIOUS
<1>2. ASSUME NEW i \in DOMAIN Tail(q) PROVE Tail(q)[i] \in Range(q)
  <2>1. i + 1 \in DOMAIN q /\ Tail(q)[i] = q[i + 1]
    OBVIOUS
  <2>. QED BY <2>1 DEF Range
<1>. QED BY <1>1, <1>2 DEF Range

\* Nothing held: no call waits, and none is queued.
LEMMA HeldEmpty ==
  ASSUME NEW s \in Session, Held(s) = {}
  PROVE  s.waiting = None /\ s.pending = <<>>
<1>1. s.pending \in Seq(Calls) /\ Range(s.pending) = {} /\ s.waiting = None
  BY DEF Held, Session
<1>2. s.pending = <<>>
  <2>1. ASSUME s.pending # <<>> PROVE FALSE
    BY <1>1, <2>1, TailRange
  <2>. QED BY <2>1
<1>. QED BY <1>1, <1>2

\* An event that completes the segment ends the turn, and nothing runs on.
LEMMA CompletedShape ==
  ASSUME Given, NEW e \in Events, NEW ok, bridge' = Consume(bridge, e, ok),
         ~Ignores(bridge, e), ~Throws(bridge, e, ok), e.kind = "completed",
         Cur(bridge).buffered = <<>>,
         loop' # <<>> => \E r \in Requests : task'[r].drv = "replay",
         Range(loop') \subseteq Range(loop),
         \A t \in Requests : Live(t)' => Live(t) /\ t # TheTurn
  PROVE  Shape'
<1> DEFINE s == Cur(bridge)
           d == Consume(bridge, e, ok)
<1>1. bridge \in BridgeState /\ Held(s) = {}
  BY DEF Given, IInv, TypeOK, Throws
<1>2. /\ Works(bridge, d)
      /\ Completes(bridge, d, bridge.op[bridge.operation].offered)
      /\ Cur(d) = [s EXCEPT !.turnId = None, !.last = bridge.operation]
  BY <1>1, ConsumeEffect
<1> HIDE DEF d
<1>3. s \in Session
  BY <1>1, <1>2, CurType DEF Works
<1>4. /\ Cur(d).turnId = None /\ Cur(d).waiting = None /\ Cur(d).pending = <<>>
      /\ Cur(d).buffered = s.buffered
  BY <1>1, <1>2, <1>3, HeldEmpty DEF Session
<1>5. /\ Works(bridge, bridge')
      /\ Completes(bridge, bridge', bridge.op[bridge.operation].offered)
      /\ Cur(bridge').turnId = None /\ Cur(bridge').waiting = None
      /\ Cur(bridge').pending = <<>> /\ Cur(bridge').buffered = s.buffered
  BY <1>2, <1>4 DEF d
<1>6. \A x \in Coming' : x \in Coming
  BY <1>5 DEF Coming, Cur
<1>. QED BY <1>5, <1>6, CompletesShape

\* A round of the replay.
LEMMA ReplaysShape ==
  ASSUME Given, NEW r \in Requests, DriveReplays(r) PROVE Shape'
<1> DEFINE e == Head(loop)
           s == Cur(bridge)
<1>1. /\ task[r].drv = "replay" /\ loop \in Seq(Events) /\ loop # <<>>
      /\ bridge \in BridgeState /\ app' = app
  BY DEF DriveReplays, Given, IInv, TypeOK
<1>2. /\ e \in Events /\ e \in Range(loop) /\ Range(Tail(loop)) \subseteq Range(loop)
      /\ Range(<<>>) \subseteq Range(loop)
  BY <1>1, TailRange DEF Range
<1>3. /\ bridge.operation = r /\ bridge.session # None
      /\ Open(bridge) => s.buffered = <<>> /\ s.waiting = None
  BY <1>1, ReplayFacts DEF Given, Shape, Busy
<1>4. EventOK(e)
  BY <1>2, <1>3 DEF Given, Shape, Turns, Coming
<1>5. PICK ok : /\ bridge' = Consume(bridge, e, ok)
                /\ IF Throws(bridge, e, ok)
                   THEN Moves(r, "failed") /\ loop' = <<>>
                   ELSE loop' = Tail(loop) /\ UNCHANGED task
  BY DEF DriveReplays
<1>6. /\ Range(loop') \subseteq Range(loop)
      /\ loop' # <<>> => \E q \in Requests : task'[q].drv = "replay"
  BY <1>1, <1>2, <1>5
<1>7. CASE Throws(bridge, e, ok)
  <2>1. /\ Open(bridge) /\ task'[r].drv = "failed"
    BY <1>5, <1>7, MovesEffect DEF Throws, Ignores, Given
  <2>2. /\ bridge'.session = bridge.session /\ Open(bridge')
        /\ bridge'.operation = bridge.operation
        /\ Cur(bridge').turnId \in {s.turnId, None}
        /\ Cur(bridge').buffered = s.buffered
    <3>1. CASE bridge' = bridge
      BY <2>1, <3>1
    <3>2. CASE /\ Works(bridge, bridge') /\ bridge'.op = bridge.op
               /\ Cur(bridge') = [s EXCEPT !.turnId = None]
      <4>1. s \in Session
        BY <1>1, <1>3, CurType
      <4>. QED BY <2>1, <3>2, <4>1 DEF Works, Open, Session
    <3>. QED BY <1>1, <1>2, <1>5, <1>7, <3>1, <3>2, ConsumeEffect
  <2>3. Coming' \subseteq Coming
    BY <1>6, <2>2 DEF Coming, Cur
  <2>. QED BY <1>1, <1>3, <1>6, <2>1, <2>2, <2>3, SegmentShape
<1>8. CASE ~Throws(bridge, e, ok) /\ ~Ignores(bridge, e) /\ e.kind = "completed"
  <2>1. app.turn[TheTurn] = "ended"
    BY <1>4, <1>8 DEF EventOK
  <2>2. \A t \in Requests : Live(t)' => Live(t) /\ t # TheTurn
    BY <1>1, <2>1 DEF Live
  <2>3. s.buffered = <<>>
    BY <1>3, <1>8 DEF Ignores
  <2>. QED BY <1>2, <1>5, <1>6, <1>8, <2>2, <2>3, CompletedShape
<1>9. CASE ~Throws(bridge, e, ok) /\ (Ignores(bridge, e) \/ e.kind # "completed")
  <2>1. Place /\ SessionStill
    <3>1. CASE bridge' = bridge
      BY <3>1 DEF Place, SessionStill
    <3>2. CASE /\ Works(bridge, bridge') /\ bridge'.sess = bridge.sess
               /\ bridge'.op = bridge.op
      BY <3>2 DEF Place, SessionStill, Works, Cur
    <3>. QED BY <1>1, <1>2, <1>5, <1>9, <3>1, <3>2, ConsumeEffect
  <2>2. DriveStill /\ (Open(bridge') <=> Open(bridge))
    BY <1>5, <1>9, <2>1 DEF DriveStill, Place, Open
  <2>. QED BY <1>1, <1>6, <2>1, <2>2, StillShape DEF Still, Place, Live
<1>. QED BY <1>7, <1>8, <1>9

\* The end of the replay.
LEMMA FlushesShape ==
  ASSUME Given, NEW r \in Requests, DriveFlushes(r) PROVE Shape'
<1> DEFINE s == Cur(bridge)
<1>1. /\ task[r].drv = "replay" /\ loop = <<>> /\ loop' = <<>>
      /\ bridge \in BridgeState /\ app' = app
  BY DEF DriveFlushes, Given, IInv, TypeOK
<1>2. /\ bridge.operation = r /\ bridge.session # None /\ s \in Session
      /\ Open(bridge) => s.buffered = <<>> /\ s.waiting = None
      /\ \A q \in Requests : task[q].drv = "replay" => q = r
  BY <1>1, ReplayFacts, CurType DEF Given, Shape, Busy
<1>3. PICK step \in {"failed", "done"} : Moves(r, step)
  BY DEF DriveFlushes
<1>4. /\ task'[r].drv = step
      /\ \A q \in Requests : q # r => task'[q] = task[q]
  BY <1>3, MovesEffect DEF Given
<1>5. CASE CanFlush(bridge) /\ bridge' = Offer(bridge)
  <2> DEFINE p == s.pending
             d == Offer(bridge)
  <2>1. /\ Works(bridge, d) /\ Completes(bridge, d, Head(p)) /\ Head(p) \in Calls
        /\ Cur(d) = [s EXCEPT !.waiting = Head(p), !.pending = Tail(p),
                              !.last = bridge.operation]
    BY <1>1, <1>5, OfferEffect
  <2> HIDE DEF d
  <2>2. /\ Cur(d).waiting = Head(p) /\ Cur(d).turnId = s.turnId
        /\ Cur(d).buffered = s.buffered /\ Head(p) # None
    BY <1>2, <2>1, NoneAssumption DEF Session
  <2>3. /\ Works(bridge, bridge') /\ Completes(bridge, bridge', Head(p))
        /\ Cur(bridge').waiting = Head(p) /\ Cur(bridge').turnId = s.turnId
        /\ Cur(bridge').buffered = s.buffered /\ Head(p) # None
    BY <1>5, <2>1, <2>2 DEF d
  <2> HIDE DEF s, p
  <2>4. s.turnId \in {None, TheTurn}
    BY <1>2 DEF Given, Shape, Turns, s
  <2>5. Coming' = Coming
    BY <1>1, <2>3 DEF Coming, Cur, s
  <2>. QED BY <1>1, <2>3, <2>4, <2>5, CompletesShape DEF Live
<1>6. CASE CanFlush(bridge) /\ bridge' = Take(bridge) /\ Moves(r, "failed")
  <2> DEFINE d == Take(bridge)
             p == s.pending
  <2>1. /\ Works(bridge, d) /\ Open(d)
        /\ Cur(d) = [s EXCEPT !.waiting = Head(p), !.pending = Tail(p)]
    BY <1>1, <1>6, TakeEffect
  <2> HIDE DEF d
  <2>2. Cur(d).turnId = s.turnId /\ Cur(d).buffered = s.buffered
    BY <1>2, <2>1 DEF Session
  <2>3. /\ bridge'.session = bridge.session /\ Open(bridge') /\ Open(bridge)
        /\ bridge'.operation = bridge.operation
        /\ Cur(bridge').turnId = s.turnId /\ Cur(bridge').buffered = s.buffered
    BY <1>6, <2>1, <2>2 DEF d, CanFlush, Works
  <2>4. Coming' = Coming /\ task'[r].drv = "failed"
    BY <1>1, <1>6, <2>3, MovesEffect DEF Coming, Cur, Given
  <2>. QED BY <1>1, <1>2, <2>3, <2>4, SegmentShape
<1>7. CASE ~CanFlush(bridge) /\ bridge' = bridge /\ Moves(r, "done")
  <2>1. task'[r].drv = "done" /\ Coming' = Coming
    BY <1>1, <1>7, MovesEffect DEF Coming, Given
  <2>2. CASE Open(bridge)
    <3>1. s.pending = <<>>
      BY <1>2, <1>7, <2>2 DEF CanFlush
    <3>. QED BY <1>1, <1>2, <1>7, <2>1, <2>2, <3>1, SegmentShape
  <2>3. CASE ~Open(bridge)
    <3>1. DriveStill /\ SessionStill /\ Place
      BY <1>7, <2>3 DEF DriveStill, SessionStill, Place
    <3>. QED BY <1>1, <1>7, <2>3, <3>1, StillShape DEF Still, Live
  <2>. QED BY <2>2, <2>3
<1>. QED BY <1>5, <1>6, <1>7 DEF DriveFlushes, Flush


-----------------------------------------------------------------------------
(* The app-server's lines *)

\* What a line of a running turn finds, if it names the session's thread.
LEMMA LineFacts ==
  ASSUME Given, Line, NEW t \in Requests, Ours(t), Live(t)
  PROVE  /\ bridge \in BridgeState /\ bridge.session # None
         /\ Cur(bridge) \in Session /\ t = TheTurn /\ loop = <<>>
         /\ Cur(bridge).turnId \in {None, t}
         /\ IF Open(bridge)
            THEN /\ Cur(bridge).waiting = None /\ Cur(bridge).pending = <<>>
                 /\ Cur(bridge).buffered = <<>>
            ELSE Cur(bridge).waiting # None
<1>1. /\ bridge \in BridgeState /\ bridge.session # None
      /\ Cur(bridge) \in Session /\ task[t].session = bridge.session
  BY OursFacts DEF Given, Ours
<1>2. \A r \in Requests : task[r].drv \notin Ready
  BY LineQuiet DEF Given, IInv
<1>3. t = TheTurn /\ (~Open(bridge) => Cur(bridge).waiting # None)
  BY <1>1 DEF Given, Shape, Turns
<1>4. Cur(bridge).turnId \in {None, t} /\ loop = <<>>
  BY <1>1, <1>2, <1>3, NothingToReplay DEF Given, Shape, Turns, Ready
<1>5. Open(bridge) => Clear(bridge.operation)
  BY <1>1, <1>2, OpenType DEF Clear, Ready
<1>. QED BY <1>1, <1>3, <1>4, <1>5 DEF Given, Shape, Busy

\* A line that comes while the session waits for a call.
LEMMA WaitingShape ==
  ASSUME Given, Works(bridge, bridge'), bridge'.op = bridge.op, task' = task, loop' = loop,
         ~Open(bridge), Cur(bridge).waiting # None,
         Cur(bridge').last = Cur(bridge).last,
         Cur(bridge').waiting = Cur(bridge).waiting,
         Cur(bridge').turnId \in {None, TheTurn},
         \A e \in Coming' : e \in Coming \/ EventOK(e)',
         \A t \in Requests : Live(t)' => Live(t)
  PROVE  Shape'
<1> DEFINE s == Cur(bridge)
           n == Cur(bridge')
<1>1. /\ bridge'.session = bridge.session /\ bridge.session # None
      /\ ~Open(bridge') /\ Open(bridge)' = Open(bridge') /\ Cur(bridge)' = n
  BY DEF Works, Open, Cur
<1>2. TheTurn' = TheTurn /\ TheTurn \in Requests
  BY <1>1, TheTurnStays
<1>3. /\ s.last \in Opened /\ bridge.op[s.last].outcome = "ok"
      /\ task[s.last].session = bridge.session
      /\ bridge.op[s.last].offered = s.waiting
  BY <1>1 DEF Given, Shape, Rest
<1>4. Rest'
  <2>1. s.last \in Opened'
    BY <1>3 DEF Given, Kept, Opened
  <2> HIDE DEF s, n
  <2>. QED BY <1>1, <1>3, <2>1 DEF Rest, s, n
<1>5. Busy'
  BY <1>1 DEF Busy
<1>6. loop' # <<>> => \E r \in Requests : task'[r].drv = "replay"
  BY DEF Given, Shape, Turns
<1>7. \A t \in Requests : Live(t)' /\ task[t].session = bridge.session =>
        t = TheTurn /\ (~Open(bridge') => Cur(bridge').waiting # None)
  BY <1>1 DEF Given, Shape, Turns
<1>8. Turns'
  BY <1>1, <1>2, <1>6, <1>7, TurnsHold
<1>. QED BY <1>4, <1>5, <1>8 DEF Given, Shape

\* An answer to an RPC of drive().
LEMMA ReplyShape ==
  ASSUME Given, NEW r \in Requests, NEW result, RpcReply(r, result) PROVE Shape'
<1> DEFINE v == [task[r] EXCEPT !.reply = result]
<1>1. /\ bridge' = bridge /\ loop' = loop /\ task' = [task EXCEPT ![r] = v]
      /\ task \in [Requests -> Task] /\ task[r] \in Task /\ app \in AppType
  BY DEF RpcReply, Given, IInv, TypeOK, AppType
<1>2. v.drv = task[r].drv
  BY <1>1 DEF Task
<1> HIDE DEF v
<1>3. \A q \in Requests : task'[q].drv = task[q].drv
  BY <1>1, <1>2
<1>4. \A t \in Requests : Live(t)' => Live(t)
  BY <1>1 DEF RpcReply, AppType, Live
<1>5. Place /\ SessionStill
  BY <1>1 DEF Place, SessionStill
<1>. QED BY <1>1, <1>3, <1>4, <1>5, SameShape

\* A turn begins: it is the one that the session is at.
LEMMA BeginsShape ==
  ASSUME Given, NEW t \in Requests, NEW announced, TurnBegins(t, announced) PROVE Shape'
<1> DEFINE s == [Cur(bridge) EXCEPT !.turnId = t]
<1>1. /\ Line /\ task' = task /\ loop' = loop /\ app \in AppType /\ Live(t)
      /\ app' = [app EXCEPT !.turn[t] = "running"] /\ bridge \in BridgeState
  BY DEF TurnBegins, Given, IInv, TypeOK, AppType, Live
<1>2. \A x \in Requests : Live(x)' => Live(x)
  BY <1>1 DEF Live, AppType
<1>3. CASE bridge' = bridge
  BY <1>1, <1>2, <1>3, SameShape DEF Place, SessionStill
<1>4. CASE Ours(t) /\ bridge' = [bridge EXCEPT !.sess[bridge.session].turnId = t]
  <2>1. /\ bridge.session # None /\ Cur(bridge) \in Session /\ t = TheTurn
        /\ ~Open(bridge) => Cur(bridge).waiting # None
    BY <1>1, <1>4, LineFacts
  <2>2. /\ s \in Session /\ s.last = Cur(bridge).last /\ s.turnId = t
        /\ s.waiting = Cur(bridge).waiting /\ s.pending = Cur(bridge).pending
        /\ s.buffered = Cur(bridge).buffered
    BY <2>1 DEF Session, OptRequest
  <2>3. bridge' = [bridge EXCEPT !.sess[bridge.session] = s]
    BY <1>4 DEF Cur
  <2> HIDE DEF s
  <2>4. Works(bridge, bridge') /\ Cur(bridge') = s /\ bridge'.op = bridge.op
    BY <1>1, <2>1, <2>2, <2>3, CurEffect
  <2>5. Place /\ SessionStill
    BY <2>1, <2>2, <2>4 DEF Place, SessionStill, Works
  <2>. QED BY <1>1, <1>2, <2>5, SameShape
<1>. QED BY <1>3, <1>4 DEF TurnBegins

\* An event added to a sequence.
LEMMA AppendRange ==
  ASSUME NEW S, NEW q \in Seq(S), NEW e \in S
  PROVE  Append(q, e) \in Seq(S) /\ Range(Append(q, e)) = Range(q) \cup {e}
<1>1. /\ Append(q, e) \in Seq(S) /\ DOMAIN Append(q, e) = DOMAIN q \cup {Len(q) + 1}
      /\ Append(q, e)[Len(q) + 1] = e
      /\ \A i \in DOMAIN q : Append(q, e)[i] = q[i]
  OBVIOUS
<1>. QED BY <1>1 DEF Range

\* An event of the session's turn is held, or consumed, or fails the session.
LEMMA DeliverShape ==
  ASSUME Given, Line, NEW t \in Requests, Ours(t), app.turn[t] = "running",
         NEW e \in Events, NEW ok, bridge' = Deliver(e, ok), task' = task, loop' = loop,
         e.turn = t, e.kind \in {"completed", "failed"} => app'.turn[t] = "ended",
         \A x \in Requests : Live(x)' => Live(x)
  PROVE  Shape'
<1> DEFINE s == Cur(bridge)
           d == Deliver(e, ok)
<1>1. /\ bridge \in BridgeState /\ bridge.session # None
      /\ s \in Session /\ t = TheTurn /\ loop = <<>> /\ s.turnId \in {None, t}
      /\ IF Open(bridge) THEN s.waiting = None /\ s.buffered = <<>>
         ELSE s.waiting # None
  BY LineFacts DEF Live
<1>2. \A r \in Requests : task[r].drv # "replay"
  BY LineQuiet DEF Given, IInv, Ready
<1>3. ASSUME NEW u, Fails(bridge, d, u) PROVE Shape'
  BY <1>2, <1>3, FailsShape
<1>4. CASE /\ ~Open(bridge) /\ Works(bridge, d) /\ d.op = bridge.op
           /\ Cur(d) = [s EXCEPT !.buffered = Append(@, e)]
  <2>1. s.buffered \in Seq(Events)
    BY <1>1 DEF Session
  <2>2. /\ Cur(d).last = s.last /\ Cur(d).waiting = s.waiting
        /\ Cur(d).turnId = s.turnId /\ Cur(d).buffered = Append(s.buffered, e)
    BY <1>1, <1>4 DEF Session
  <2>3. Range(Append(s.buffered, e)) = Range(s.buffered) \cup {e}
    BY <2>1, AppendRange
  <2> HIDE DEF d
  <2>4. /\ Works(bridge, bridge') /\ bridge'.op = bridge.op
        /\ Cur(bridge').last = s.last /\ Cur(bridge').waiting = s.waiting
        /\ Cur(bridge').turnId \in {None, t}
        /\ Range(Cur(bridge').buffered) = Range(s.buffered) \cup {e}
    BY <1>1, <1>4, <2>2, <2>3 DEF d
  <2>5. ~Open(bridge') /\ bridge'.session = bridge.session
    BY <1>4, <2>4 DEF Open, Works
  <2>6. TheTurn' = TheTurn
    BY <1>1, <1>4, <2>4, <2>5, TheTurnStays
  <2>7. \A x \in Coming' : x \in Coming \/ EventOK(x)'
    BY <1>1, <2>4, <2>6 DEF Coming, EventOK, Cur
  <2>. QED BY <1>1, <1>4, <2>4, <2>7, WaitingShape
<1>5. CASE Open(bridge) /\ ~Throws(bridge, e, ok) /\ d = Consume(bridge, e, ok)
  <2>1. ~Ignores(bridge, e)
    BY <1>1, <1>5 DEF Ignores
  <2>2. CASE e.kind = "completed"
    <3>1. \A x \in Requests : Live(x)' => Live(x) /\ x # TheTurn
      BY <1>1, <2>2 DEF Live
    <3>. QED BY <1>1, <1>5, <2>1, <2>2, <3>1, CompletedShape
  <2>3. CASE e.kind # "completed"
    <3>1. Place /\ SessionStill
      <4>1. CASE bridge' = bridge
        BY <4>1 DEF Place, SessionStill
      <4>2. CASE /\ Works(bridge, bridge') /\ bridge'.sess = bridge.sess
                 /\ bridge'.op = bridge.op
        BY <4>2 DEF Place, SessionStill, Works, Cur
      <4>. QED BY <1>1, <1>5, <2>3, <4>1, <4>2, ConsumeEffect
    <3>. QED BY <3>1, SameShape
  <2>. QED BY <2>2, <2>3
<1>. QED BY <1>1, <1>3, <1>4, <1>5, DeliverEffect

\* An event of a turn is of the turn that its session is at.
LEMMA ItemShape ==
  ASSUME Given, NEW t \in Requests, NEW kind \in {"text", "bad"}, ItemEvent(t, kind)
  PROVE  Shape'
<1> DEFINE e == [kind |-> kind, turn |-> t, n |-> app.items[t] + 1]
<1>1. /\ Line /\ task' = task /\ loop' = loop /\ app.turn[t] = "running"
      /\ app'.turn = app.turn
  BY DEF ItemEvent, Given, IInv, TypeOK
<1>2. e \in Events /\ e.turn = t /\ e.kind \notin {"completed", "failed"}
  BY DEF Events, Given, IInv, TypeOK
<1>3. \/ bridge' = bridge
      \/ Ours(t) /\ \E ok \in Delivers(bridge) : bridge' = Deliver(e, ok)
  BY DEF ItemEvent
<1> HIDE DEF e
<1>4. CASE bridge' = bridge
  BY <1>1, <1>4, SameShape DEF Place, SessionStill, Live
<1>5. CASE Ours(t) /\ \E ok \in Delivers(bridge) : bridge' = Deliver(e, ok)
  BY <1>1, <1>2, <1>5, DeliverShape DEF Live
<1>. QED BY <1>3, <1>4, <1>5

\* The end of a turn is an event like the others, and the last.
LEMMA EndsTurnShape ==
  ASSUME Given, NEW t \in Requests, NEW kind \in {"completed", "failed"},
         TurnEnds(t, kind)
  PROVE  Shape'
<1> DEFINE e == [kind |-> kind, turn |-> t, n |-> 0]
<1>1. /\ Line /\ task' = task /\ loop' = loop /\ app.turn[t] = "running"
      /\ app' = [app EXCEPT !.turn[t] = "ended"] /\ app \in AppType
  BY DEF TurnEnds, Given, IInv, TypeOK, AppType
<1>2. e \in Events /\ e.turn = t
  BY DEF Events
<1>3. \/ bridge' = bridge
      \/ Ours(t) /\ \E ok \in Delivers(bridge) : bridge' = Deliver(e, ok)
  BY DEF TurnEnds
<1> HIDE DEF e
<1>4. app'.turn[t] = "ended" /\ \A x \in Requests : Live(x)' => Live(x)
  BY <1>1 DEF Live, AppType
<1>5. CASE bridge' = bridge
  BY <1>1, <1>4, <1>5, SameShape DEF Place, SessionStill
<1>6. CASE Ours(t) /\ \E ok \in Delivers(bridge) : bridge' = Deliver(e, ok)
  BY <1>1, <1>2, <1>4, <1>6, DeliverShape
<1>. QED BY <1>3, <1>5, <1>6

\* A fatal notice fails the session.
LEMMA FatalShape ==
  ASSUME Given, NEW t \in Requests, NEW blocked, FatalNotice(t, blocked) PROVE Shape'
<1>1. /\ Line /\ loop' = loop /\ bridge' = Fail(bridge, "failed")
      /\ bridge \in BridgeState
  BY DEF FatalNotice, Given, IInv, TypeOK
<1>2. \A r \in Requests : task[r].drv # "replay"
  BY <1>1, LineQuiet DEF Given, IInv, Ready
<1>. QED BY <1>1, <1>2, FailEffect, FailsShape DEF Outcomes


\* The session with call c of turn t queued.
Queued(c, t) ==
    LET s == Cur(bridge)
    IN [bridge EXCEPT !.sess[bridge.session] =
          [s EXCEPT !.turnId = t, !.seen = s.seen \cup {c},
                    !.pending = Append(s.pending, c)]]

\* The call waits behind another; or it is offered, and the segment ends; or
\* offering it fails the session, with the call in its hands.
CallWaits(c, t) ==
    LET s == Cur(bridge)
        n == Cur(bridge')
    IN /\ ~Open(bridge) /\ Works(bridge, bridge') /\ bridge'.op = bridge.op
       /\ bridge'.answers = bridge.answers /\ bridge'.heard = bridge.heard
       /\ n.last = s.last /\ n.waiting = s.waiting /\ n.buffered = s.buffered
       /\ n.turnId = t /\ n.pending = Append(s.pending, c)

CallOffered(c, t) ==
    LET s == Cur(bridge)
        n == Cur(bridge')
    IN /\ Open(bridge) /\ Works(bridge, bridge') /\ Completes(bridge, bridge', c)
       /\ bridge'.answers = bridge.answers /\ bridge'.heard = bridge.heard
       /\ n.waiting = c /\ n.buffered = s.buffered /\ n.pending = <<>>
       /\ n.turnId = t

CallFails(c, t, b) ==
    /\ Open(bridge) /\ Works(bridge, b) /\ b.op = bridge.op
    /\ b.answers = bridge.answers /\ b.heard = bridge.heard
    /\ Cur(b).turnId = t /\ Cur(b).thread = Cur(bridge).thread
    /\ Held(Cur(b)) = Held(Cur(bridge)) \cup {c}
    /\ Fails(b, bridge', t)

\* A queued call waits, is offered, or fails the session.
LEMMA QueueCases ==
  ASSUME bridge \in BridgeState, bridge.session # None, NEW c \in Calls,
         NEW t \in Requests, NEW ok,
         IF Open(bridge) THEN Cur(bridge).waiting = None /\ Cur(bridge).pending = <<>>
         ELSE Cur(bridge).waiting # None,
         bridge' = Flush(Queued(c, t), ok)
  PROVE  CallWaits(c, t) \/ CallOffered(c, t) \/ \E b : CallFails(c, t, b)
<1> DEFINE s == Cur(bridge)
           v == [s EXCEPT !.turnId = t, !.seen = s.seen \cup {c},
                          !.pending = Append(s.pending, c)]
           q == Queued(c, t)
<1>1. s \in Session
  BY CurType
<1>2. s.pending \in Seq(Calls) /\ c # None
  BY <1>1, NoneAssumption DEF Session
<1>3. /\ Works(bridge, q) /\ Cur(q) = v /\ v \in Session
      /\ q.op = bridge.op /\ q.answers = bridge.answers /\ q.heard = bridge.heard
  BY QueueEffect DEF Queued
<1>4. /\ v.last = s.last /\ v.waiting = s.waiting /\ v.buffered = s.buffered
      /\ v.turnId = t /\ v.pending = Append(s.pending, c) /\ v.thread = s.thread
  BY <1>1 DEF Session
<1> HIDE DEF v, q
<1>5. Held(v) = Held(s) \cup {c}
  <2>1. Range(Append(s.pending, c)) = Range(s.pending) \cup {c}
    BY <1>2, AppendRange
  <2>. QED BY <1>2, <1>4, <2>1 DEF Held
<1>6. bridge' = Flush(q, ok)
  BY DEF q
<1>7. /\ q \in BridgeState /\ q.session = bridge.session /\ q.operation = bridge.operation
      /\ Open(q) <=> Open(bridge)
  BY <1>3 DEF Works, Open
<1>8. CASE ~Open(bridge)
  <2>1. bridge' = q
    BY <1>6, <1>7, <1>8 DEF Flush, CanFlush
  <2>. QED BY <1>3, <1>4, <1>8, <2>1 DEF CallWaits
<1>9. CASE Open(bridge)
  <2>1. s.waiting = None /\ s.pending = <<>>
    BY <1>9
  <2>2. v.waiting = None /\ v.pending = <<c>> /\ Head(<<c>>) = c /\ Tail(<<c>>) = <<>>
    BY <1>4, <2>1
  <2>3. CanFlush(q)
    BY <1>3, <1>7, <1>9, <2>2 DEF CanFlush
  <2>4. CASE ok
    <3> DEFINE d == Offer(q)
    <3>1. bridge' = d
      BY <1>6, <2>3, <2>4 DEF Flush
    <3>2. /\ Works(q, d) /\ Completes(q, d, Head(v.pending))
          /\ Cur(d) = [v EXCEPT !.waiting = Head(v.pending),
                                !.pending = Tail(v.pending), !.last = q.operation]
          /\ d.answers = q.answers /\ d.heard = q.heard
      BY <1>3, <1>7, <2>3, OfferEffect
    <3> HIDE DEF d
    <3>3. /\ Cur(d).waiting = c /\ Cur(d).buffered = v.buffered
          /\ Cur(d).pending = <<>> /\ Cur(d).turnId = v.turnId
      BY <1>3, <2>2, <3>2 DEF Session
    <3>4. Works(bridge, d) /\ Completes(bridge, d, c)
      BY <1>3, <1>7, <1>9, <2>2, <3>2 DEF Works, Completes
    <3>. QED BY <1>3, <1>4, <1>9, <3>1, <3>2, <3>3, <3>4 DEF CallOffered
  <2>5. CASE ~ok
    <3>1. Fails(q, bridge', t)
      BY <1>3, <1>4, <1>6, <1>7, <2>3, <2>5, FlushEffect
    <3>. QED BY <1>3, <1>4, <1>5, <1>9, <3>1 DEF CallFails
  <2>. QED BY <2>4, <2>5
<1>. QED BY <1>8, <1>9

\* A call is refused, or fails the session, or is queued.
LEMMA RequestShape ==
  ASSUME Given, Line, NEW t \in Requests, app.turn[t] = "running", NEW c \in Calls,
         NEW good, NEW ok, bridge' = ServerRequest(c, t, good, ok),
         task' = task, loop' = loop, app'.turn = app.turn
  PROVE  Shape'
<1>1. /\ bridge \in BridgeState /\ Live(t)
      /\ \A r \in Requests : task[r].drv # "replay"
      /\ \A x \in Requests : Live(x)' => Live(x)
  BY LineQuiet DEF Given, IInv, TypeOK, Ready, Live
<1>2. CASE bridge' = Refuse(c)
  <2>1. /\ bridge'.session = bridge.session /\ bridge'.sess = bridge.sess
        /\ bridge'.operation = bridge.operation /\ bridge'.op = bridge.op
    BY <1>1, <1>2, RefuseEffect
  <2>2. Place /\ SessionStill
    BY <2>1 DEF Place, SessionStill, Cur
  <2>. QED BY <1>1, <2>2, SameShape
<1>3. CASE bridge' = Fail(bridge, "failed")
  BY <1>1, <1>3, FailEffect, FailsShape DEF Outcomes
<1>4. CASE bridge' = Fail(Refuse(c), "failed")
  <2>1. Refuse(c) \in BridgeState
    BY <1>1, RefuseEffect
  <2>. QED BY <1>1, <1>4, <2>1, FailEffect, FailsShape DEF Outcomes
<1>5. CASE Ours(t) /\ bridge' = Flush(Queued(c, t), ok)
  <2> DEFINE s == Cur(bridge)
             n == Cur(bridge')
  <2>1. /\ bridge.session # None /\ t = TheTurn /\ loop = <<>>
        /\ IF Open(bridge) THEN s.waiting = None /\ s.pending = <<>>
           ELSE s.waiting # None
    BY <1>1, <1>5, LineFacts
  <2>2. CallWaits(c, t) \/ CallOffered(c, t) \/ \E b : CallFails(c, t, b)
    BY <1>1, <1>5, <2>1, QueueCases
  <2>3. CASE CallWaits(c, t)
    <3>1. Coming' = Coming
      BY <2>3 DEF Coming, Cur, CallWaits
    <3>. QED BY <1>1, <2>1, <2>3, <3>1, WaitingShape DEF CallWaits
  <2>4. CASE CallOffered(c, t)
    <3>1. Coming' = Coming
      BY <2>4 DEF Coming, Cur, CallOffered
    <3>2. loop' = <<>> /\ n.waiting = c /\ c # None
      BY <2>1, <2>4, NoneAssumption DEF CallOffered
    <3>. QED BY <1>1, <2>1, <2>4, <3>1, <3>2, CompletesShape DEF CallOffered
  <2>5. CASE \E b : CallFails(c, t, b)
    BY <1>1, <2>5, FailsShape DEF CallFails
  <2>. QED BY <2>2, <2>3, <2>4, <2>5
<1>. QED BY <1>2, <1>3, <1>4, <1>5 DEF ServerRequest, Queued

\* A call of the app-server, as RequestShape has it.
LEMMA CallShape ==
  ASSUME Given, NEW t \in Requests, NEW c \in Calls, NEW wellFormed,
         ToolCall(c, t, wellFormed)
  PROVE  Shape'
<1>1. /\ Line /\ app.turn[t] = "running" /\ task' = task /\ loop' = loop
      /\ app'.turn = app.turn
      /\ \E ok : bridge' = ServerRequest(c, t, wellFormed, ok)
  BY DEF ToolCall, Given, IInv, TypeOK
<1>. QED BY <1>1, RequestShape

\* A repeated call likewise.
LEMMA RepeatShape ==
  ASSUME Given, NEW c \in Calls, ToolCallRepeated(c) PROVE Shape'
<1>1. /\ Line /\ app.asked[c] \in Requests /\ app.turn[app.asked[c]] = "running"
      /\ task' = task /\ loop' = loop /\ app' = app
      /\ \E ok : bridge' = ServerRequest(c, app.asked[c], TRUE, ok)
  BY DEF ToolCallRepeated, Given, IInv, TypeOK, OptRequest
<1>. QED BY <1>1, RequestShape

-----------------------------------------------------------------------------
(* The theorem *)

\* Shape holds at first: there is no session.
LEMMA InitialShape == Init => Shape
<1> SUFFICES ASSUME Init PROVE Shape
  OBVIOUS
<1>1. bridge.session = None /\ loop = <<>> /\ Opened = {}
  BY DEF Init, Opened
<1>2. \A r \in Requests : app.turn[r] = "none"
  BY DEF Init
<1>. QED BY <1>1, <1>2 DEF Shape, TasksOK, Rest, Busy, Turns

\* A step of none of the variables keeps Shape.
LEMMA StutterShape ==
  ASSUME Shape, UNCHANGED vars PROVE Shape'
<1>1. UNCHANGED <<bridge, task, loop, app>>
  BY DEF vars
<1>2. Rest' /\ Busy' /\ TasksOK'
  BY <1>1 DEF Shape, Rest, Busy, TasksOK, TaskOK, Opened, Clear, Open, Cur
<1>3. Turns'
  BY <1>1 DEF Shape, Turns, Coming, EventOK, Live, TheTurn, Open, Cur
<1>. QED BY <1>2, <1>3 DEF Shape

\* Every step keeps Shape, and gives what the later lemmas start from.
LEMMA ShapeInductive ==
  ASSUME IInv, IInv', Flight, Flight', Shape, Kept, [Next]_vars
  PROVE  Given /\ Shape'
<1>1. Given
  BY TasksHold DEF Given, Shape
<1>2. CASE UNCHANGED vars
  BY <1>1, <1>2, StutterShape
<1>3. ASSUME NEW r \in Requests, RespondStep(r) PROVE Shape'
  BY <1>1, <1>3, QuietShape, NewShape, ContinueShape, TimeoutShape, ClientShape
     DEF RespondStep
<1>4. ASSUME NEW r \in Requests, Continues(r) PROVE Shape'
  BY <1>1, <1>4, OpensShape, ReturnsShape, StartsShape, MessageShape, AnswersShape,
     ReplaysShape, FlushesShape, ThreadLateShape, ThreadShape, TurnLateShape,
     TurnShape, RefusedShape, CatchesShape DEF Continues
<1>5. ASSUME NEW r \in Requests, AppServerStep(r) PROVE Shape'
  BY <1>1, <1>5, ReplyShape, BeginsShape, ItemShape, EndsTurnShape, FatalShape,
     CallShape DEF AppServerStep
<1>6. ASSUME NEW c \in Calls, ToolCallRepeated(c) PROVE Shape'
  BY <1>1, <1>6, RepeatShape
<1>7. CASE \/ SessionExpires \/ RpcStarted \/ PipeBreaks \/ RpcExits
           \/ CloseBegins \/ CloseEnds
  BY <1>1, <1>7, ExpiresShape, ConnectionShape, ExitsShape
<1>. QED BY <1>1, <1>2, <1>3, <1>4, <1>5, <1>6, <1>7 DEF Next

\* The state of a session between and within its segments.
THEOREM ShapeAlways == Spec => [](IInv /\ Flight /\ Shape)
<1>1. Init => IInv /\ Flight /\ Shape
  BY Initially, InitialFlight, InitialShape
<1>2. IInv /\ Flight /\ Shape /\ [Next]_vars => (IInv /\ Flight /\ Shape)'
  BY Inductive, FlightInductive, ShapeInductive
<1>. QED BY <1>1, <1>2, PTL DEF Spec


\* An idle session can be resumed, and its timer runs exactly while it is idle
\* (lines 38, 76-79, 119-122, 177, 231, 257).
THEOREM AlwaysResumable == Spec => []IdleResumable
<1>1. IInv /\ Flight /\ Shape => IdleResumable
  <2> SUFFICES ASSUME IInv, Flight, Shape PROVE IdleResumable
    OBVIOUS
  <2>1. bridge.ttl <=> Idle
    BY DEF Flight, OneFlight
  <2>2. ASSUME Idle
        PROVE  LET s == Cur(bridge)
               IN /\ s.last # None
                  /\ IF s.waiting # None THEN bridge.op[s.last].offered = s.waiting
                     ELSE s.turnId = None /\ s.pending = <<>>
    <3>1. bridge.session # None /\ ~Open(bridge)
      BY <2>2, IdleNoOperation DEF Idle, IInv
    <3>. QED BY <3>1, NoneAssumption DEF Shape, Rest, Opened
  <2>. QED BY <2>1, <2>2 DEF IdleResumable
<1>. QED BY <1>1, ShapeAlways, PTL

-----------------------------------------------------------------------------
(* The accounts of the calls *)

\* A call that the app-server made is answered, or the session holds it,
\* unless there is no connection to answer on.
Owed ==
    \A c \in Calls :
      app.asked[c] # None /\ bridge.answers[c] = <<>> /\ bridge.rpc = "up" =>
        bridge.session # None /\ c \in Held(Cur(bridge))

\* A result was brought by a request that named the call.
Results ==
    \A c \in Calls : \A i \in DOMAIN bridge.answers[c] :
      LET a == bridge.answers[c][i]
      IN a.kind = "result" => a.by \in Opened /\ task[a.by].tool = c

\* Nothing is sent before the connection is up.
Starting == bridge.rpc = "starting" => \A t \in Requests : app.turn[t] = "none"

Accounts == Owed /\ Results /\ Starting

\* From b to d no call is forgotten and no result is added.
Carries(b, d) ==
    /\ d.rpc \in {"up", "starting"} => b.rpc = d.rpc
    /\ \A c \in Calls :
         /\ \A i \in DOMAIN d.answers[c] :
              d.answers[c][i].kind = "result" =>
                i \in DOMAIN b.answers[c] /\ d.answers[c][i] = b.answers[c][i]
         /\ d.answers[c] = <<>> => b.answers[c] = <<>>
         /\ d.answers[c] = <<>> /\ d.rpc = "up" /\ b.session # None
              /\ c \in Held(Cur(b))
            => d.session # None /\ c \in Held(Cur(d))

\* What two steps in turn carry, both together carry.
LEMMA CarriesOn ==
  ASSUME NEW a, NEW b, NEW d, Carries(a, b), Carries(b, d) PROVE Carries(a, d)
BY DEF Carries

\* Only the calls of C are answered, and only on a live connection.
LEMMA AnswerEach ==
  ASSUME NEW b \in BridgeState, NEW C, NEW kind, NEW r, NEW a,
         a = Answer(b, C, kind, r), NEW c \in Calls
  PROVE  /\ a[c] = <<>> => b.answers[c] = <<>> /\ ~(c \in C /\ b.rpc = "up")
         /\ ~(c \in C /\ b.rpc = "up") => a[c] = b.answers[c]
         /\ \A i \in DOMAIN a[c] :
              \/ i \in DOMAIN b.answers[c] /\ a[c][i] = b.answers[c][i]
              \/ c \in C /\ a[c][i].kind = kind /\ a[c][i].by = r
<1> DEFINE v == [kind |-> kind, by |-> r]
           p == b.answers[c]
<1>1. p \in Seq(Answers) /\ v.kind = kind /\ v.by = r
  BY DEF BridgeState
<1>2. a[c] = IF c \in C /\ b.rpc = "up" THEN Append(p, v) ELSE p
  BY DEF Answer
<1> HIDE DEF v, p
<1>3. /\ Append(p, v) # <<>> /\ DOMAIN Append(p, v) = DOMAIN p \cup {Len(p) + 1}
      /\ Append(p, v)[Len(p) + 1] = v
      /\ \A i \in DOMAIN p : Append(p, v)[i] = p[i]
  BY <1>1
<1>. QED BY <1>1, <1>2, <1>3 DEF p

\* The calls of the session are cancelled.
LEMMA CancelsCarries ==
  ASSUME NEW b \in BridgeState, NEW d, d.rpc = b.rpc,
         d.answers = Answer(b, Held(Cur(b)), "cancelled", None)
  PROVE  Carries(b, d)
<1>1. ASSUME NEW c \in Calls
      PROVE  /\ \A i \in DOMAIN d.answers[c] :
                  d.answers[c][i].kind = "result" =>
                    i \in DOMAIN b.answers[c] /\ d.answers[c][i] = b.answers[c][i]
             /\ d.answers[c] = <<>> =>
                  b.answers[c] = <<>> /\ ~(c \in Held(Cur(b)) /\ b.rpc = "up")
  BY AnswerEach
<1>. QED BY <1>1 DEF Carries

\* The session is dropped.
LEMMA DroppedCarries ==
  ASSUME NEW b \in BridgeState, NEW d, NEW t, Dropped(b, d, t) PROVE Carries(b, d)
<1>1. CASE b.session = None
  BY <1>1 DEF Dropped, Carries
<1>2. CASE b.session # None
  BY <1>2, CancelsCarries DEF Dropped
<1>. QED BY <1>1, <1>2

\* The session goes on, and holds what it held.
LEMMA WorksCarries ==
  ASSUME NEW b, NEW d, Works(b, d), d.answers = b.answers,
         Held(Cur(b)) \subseteq Held(Cur(d))
  PROVE  Carries(b, d)
BY DEF Works, Carries

\* A bridge that keeps its session and its answers.
LEMMA SameCarries ==
  ASSUME NEW b, NEW d, d.session = b.session, d.sess = b.sess, d.answers = b.answers,
         d.rpc \in {b.rpc, "broken", "closed"}
  PROVE  Carries(b, d)
BY DEF Carries, Cur

\* The accounts after a step that carries them on.
LEMMA AccountsHold ==
  ASSUME Given, Accounts, Carries(bridge, bridge'),
         bridge.rpc = "starting" => app'.turn = app.turn,
         \A c \in Calls :
           app'.asked[c] # None /\ bridge'.answers[c] = <<>> /\ bridge'.rpc = "up" =>
             \/ app.asked[c] # None
             \/ bridge'.session # None /\ c \in Held(Cur(bridge'))
  PROVE  Accounts'
<1>1. Held(Cur(bridge))' = Held(Cur(bridge'))
  BY DEF Held, Cur
<1>2. Owed'
  BY <1>1 DEF Accounts, Owed, Carries
<1>3. Results'
  BY DEF Accounts, Results, Carries, Given, Kept, Opened
<1>4. Starting'
  BY DEF Accounts, Starting, Carries
<1>. QED BY <1>2, <1>3, <1>4 DEF Accounts


\* What respond(), its timers and the releases do.
LEMMA RespondCarries ==
  ASSUME Given, NEW r \in Requests,
         \/ RespondRejected(r) \/ RespondNew(r) \/ RequestTimeout(r)
         \/ ClientGone(r) \/ RpcTimeout(r) \/ ReleaseNext(r) \/ RespondReturns(r)
  PROVE  Carries(bridge, bridge') /\ app' = app
<1>0. bridge \in BridgeState
  BY DEF Given, IInv, TypeOK
<1>1. CASE RespondNew(r)
  <2> DEFINE b == [bridge EXCEPT !.busy = TRUE]
  <2>1. /\ b \in BridgeState /\ b.session = bridge.session /\ b.sess = bridge.sess
        /\ b.answers = bridge.answers /\ b.rpc = bridge.rpc
    BY <1>0 DEF BridgeState
  <2>2. bridge' = Release(b) /\ app' = app
    BY <1>1 DEF RespondNew
  <2> HIDE DEF b
  <2>3. Carries(bridge, b)
    BY <2>1, SameCarries
  <2>4. Carries(b, bridge')
    BY <2>1, <2>2, ReleaseEffect, DroppedCarries
  <2>. QED BY <2>2, <2>3, <2>4, CarriesOn
<1>2. CASE bridge' = bridge /\ app' = app
  BY <1>2, SameCarries
<1>3. ASSUME NEW o \in Outcomes \ {"none"}, bridge' = Fail(bridge, o), app' = app
      PROVE  Carries(bridge, bridge') /\ app' = app
  BY <1>0, <1>3, FailEffect, DroppedCarries DEF Fails
<1>4. CASE ReleaseNext(r) \/ RespondReturns(r)
  <2>1. /\ bridge'.session = bridge.session /\ bridge'.sess = bridge.sess
        /\ bridge'.answers = bridge.answers /\ bridge'.rpc = bridge.rpc
        /\ app' = app
    BY <1>0, <1>4 DEF ReleaseNext, RespondReturns, BridgeState
  <2>. QED BY <2>1, SameCarries
<1>. QED BY <1>1, <1>2, <1>3, <1>4
         DEF RespondRejected, RequestTimeout, ClientGone, RpcTimeout, Outcomes

\* A request that opens its operation, or fails with the session.
LEMMA BeginsCarries ==
  ASSUME Given, NEW r \in Requests,
         \/ RespondOpens(r)
         \/ \E prev \in OptRequest, tool \in OptCall : RespondContinue(r, prev, tool)
  PROVE  Carries(bridge, bridge') /\ app' = app
<1>0. bridge \in BridgeState /\ Rest
  BY DEF Given, IInv, TypeOK, Shape
<1>1. CASE RespondOpens(r)
  <2>1. /\ bridge.session = None /\ bridge'.answers = bridge.answers
        /\ bridge'.rpc = bridge.rpc /\ app' = app
    BY <1>1, OpensEffect DEF Given
  <2>. QED BY <2>1 DEF Carries
<1>2. ASSUME NEW prev \in OptRequest, NEW tool \in OptCall,
             RespondContinue(r, prev, tool)
      PROVE  Carries(bridge, bridge') /\ app' = app
  <2> DEFINE s == Cur(bridge)
  <2>1. /\ bridge.session # None /\ bridge'.rpc = bridge.rpc /\ app' = app
        /\ \/ /\ bridge'.session = bridge.session /\ Cur(bridge') = s
              /\ bridge'.answers = bridge.answers
           \/ /\ bridge'.session = None
              /\ bridge'.answers = Answer(bridge, Held(s), "cancelled", None)
    BY <1>0, <1>2, ContinueEffect DEF Given
  <2>. QED BY <1>0, <2>1, CancelsCarries DEF Carries
<1>. QED BY <1>1, <1>2

\* What a drive does before it replays.
LEMMA DriveCarries ==
  ASSUME Given, NEW r \in Requests,
         \/ DriveStarts(r) \/ DriveSendsMessage(r) \/ ThreadTooLate(r)
         \/ ThreadArrives(r) \/ TurnTooLate(r) \/ TurnArrives(r)
         \/ DriveRefused(r) \/ DriveCatches(r)
  PROVE  Carries(bridge, bridge') /\ app'.asked = app.asked
<1>0. bridge \in BridgeState /\ app \in AppType
  BY DEF Given, IInv, TypeOK, AppType
<1>1. app'.asked = app.asked
  BY <1>0 DEF DriveStarts, DriveSendsMessage, ThreadTooLate, ThreadArrives, TurnTooLate,
              TurnArrives, DriveRefused, DriveCatches, StartsTurn, AppType
<1>2. CASE bridge' = bridge
  BY <1>1, <1>2, SameCarries
<1>3. ASSUME NEW f, \/ bridge' = [bridge EXCEPT !.unsubscribed = f]
                    \/ bridge' = [bridge EXCEPT !.interrupted = f]
      PROVE  Carries(bridge, bridge')
  <2>1. /\ bridge'.session = bridge.session /\ bridge'.sess = bridge.sess
        /\ bridge'.answers = bridge.answers /\ bridge'.rpc = bridge.rpc
    BY <1>0, <1>3 DEF BridgeState
  <2>. QED BY <2>1, SameCarries
<1>4. CASE bridge' = Fail(bridge, "failed")
  BY <1>0, <1>1, <1>4, FailEffect, DroppedCarries DEF Fails, Outcomes
<1>5. ASSUME NEW s \in Session, bridge.session # None, Held(s) = Held(Cur(bridge)),
             bridge' = [bridge EXCEPT !.sess[bridge.session] = s]
      PROVE  Carries(bridge, bridge')
  BY <1>0, <1>5, CurEffect, WorksCarries
<1>6. CASE ThreadArrives(r) \/ TurnArrives(r)
  <2> DEFINE s == Cur(bridge)
             u == [s EXCEPT !.thread = TRUE]
             v == [s EXCEPT !.turnId = r]
  <2>0. bridge.session # None
    BY <1>6, DrivenOpened, NoneAssumption
       DEF ThreadArrives, TurnArrives, Resolved, Current, Given
  <2>1. s \in Session
    BY <1>0, <2>0, CurType
  <2>2. u \in Session /\ v \in Session /\ Held(u) = Held(s) /\ Held(v) = Held(s)
    BY <2>1 DEF Session, OptRequest, Held
  <2>3. \/ bridge' = bridge
        \/ bridge' = [bridge EXCEPT !.sess[bridge.session] = u]
        \/ bridge' = [bridge EXCEPT !.sess[bridge.session] = v]
    BY <1>6 DEF ThreadArrives, TurnArrives, Cur
  <2> HIDE DEF u, v
  <2>. QED BY <1>1, <1>2, <1>5, <2>0, <2>2, <2>3
<1>. QED BY <1>1, <1>2, <1>3, <1>4, <1>6
         DEF DriveStarts, DriveSendsMessage, ThreadTooLate, TurnTooLate, DriveRefused,
             DriveCatches

\* Consuming a notification.
LEMMA ConsumeCarries ==
  ASSUME NEW b \in BridgeState, NEW e \in Events, NEW ok
  PROVE  Carries(b, Consume(b, e, ok))
<1> DEFINE d == Consume(b, e, ok)
<1>1. CASE d = b
  BY <1>1, SameCarries
<1>2. CASE Works(b, d) /\ d.sess = b.sess /\ d.answers = b.answers
  BY <1>2, SameCarries DEF Works
<1>3. CASE Works(b, d) /\ d.answers = b.answers /\ Held(Cur(b)) = {}
  BY <1>3, WorksCarries
<1> HIDE DEF d
<1>4. \/ d = b
      \/ Works(b, d) /\ d.sess = b.sess /\ d.answers = b.answers
      \/ Works(b, d) /\ d.answers = b.answers /\ Held(Cur(b)) = {}
  BY ConsumeEffect DEF d
<1>5. Carries(b, d)
  BY <1>1, <1>2, <1>3, <1>4 DEF d
<1>. QED BY <1>5 DEF d

\* The queue is taken from, and offers what it took.
LEMMA TakeHeld ==
  ASSUME NEW s \in Session, NEW n, s.waiting = None, s.pending # <<>>,
         n.waiting = Head(s.pending), n.pending = Tail(s.pending)
  PROVE  Held(s) \subseteq Held(n)
<1>1. s.pending \in Seq(Calls)
  BY DEF Session
<1>2. ASSUME NEW i \in DOMAIN s.pending
      PROVE  s.pending[i] = Head(s.pending) \/ s.pending[i] \in Range(Tail(s.pending))
  <2>1. i = 1 \/ (i - 1 \in DOMAIN Tail(s.pending) /\ Tail(s.pending)[i - 1] = s.pending[i])
    BY <1>1
  <2>. QED BY <1>1, <2>1 DEF Range
<1>3. Head(s.pending) # None
  BY <1>1, NoneAssumption
<1>. QED BY <1>2, <1>3 DEF Held, Range

\* The replay and its end.
LEMMA ReplayCarries ==
  ASSUME Given, NEW r \in Requests, DriveReplays(r) \/ DriveFlushes(r)
  PROVE  Carries(bridge, bridge') /\ app' = app
<1>0. bridge \in BridgeState /\ loop \in Seq(Events)
  BY DEF Given, IInv, TypeOK
<1>1. CASE DriveReplays(r)
  <2>1. Head(loop) \in Events
    BY <1>0, <1>1 DEF DriveReplays
  <2>. QED BY <1>0, <1>1, <2>1, ConsumeCarries DEF DriveReplays
<1>2. CASE bridge' = bridge /\ app' = app
  BY <1>2, SameCarries
<1>3. CASE CanFlush(bridge) /\ (bridge' = Take(bridge) \/ bridge' = Offer(bridge))
  <2> DEFINE s == Cur(bridge)
             p == s.pending
             u == Take(bridge)
             v == Offer(bridge)
  <2>1. /\ Works(bridge, u) /\ u.answers = bridge.answers
        /\ Cur(u) = [s EXCEPT !.waiting = Head(p), !.pending = Tail(p)]
    BY <1>0, <1>3, TakeEffect
  <2>2. /\ Works(bridge, v) /\ v.answers = bridge.answers
        /\ Cur(v) = [s EXCEPT !.waiting = Head(p), !.pending = Tail(p),
                              !.last = bridge.operation]
    BY <1>0, <1>3, OfferEffect
  <2> HIDE DEF u, v
  <2>3. s \in Session /\ s.waiting = None /\ p # <<>>
    BY <1>0, <1>3, CurType DEF CanFlush
  <2>4. /\ Cur(u).waiting = Head(p) /\ Cur(u).pending = Tail(p)
        /\ Cur(v).waiting = Head(p) /\ Cur(v).pending = Tail(p)
    BY <2>1, <2>2, <2>3 DEF Session
  <2>5. Held(s) \subseteq Held(Cur(u)) /\ Held(s) \subseteq Held(Cur(v))
    BY <2>3, <2>4, TakeHeld
  <2>6. Carries(bridge, u) /\ Carries(bridge, v)
    BY <2>1, <2>2, <2>5, WorksCarries
  <2>. QED BY <1>3, <2>6 DEF u, v, DriveFlushes, DriveReplays
<1>. QED BY <1>1, <1>2, <1>3 DEF DriveFlushes, Flush


\* The connection and close().
LEMMA ConnectionCarries ==
  ASSUME Given,
         SessionExpires \/ PipeBreaks \/ RpcExits \/ CloseBegins \/ CloseEnds
  PROVE  Carries(bridge, bridge') /\ app' = app
<1>0. /\ bridge \in BridgeState /\ IInv
      /\ app' = app
  BY DEF Given, IInv, TypeOK, SessionExpires, PipeBreaks, RpcExits, CloseBegins, CloseEnds
<1>1. CASE SessionExpires
  BY <1>0, <1>1, ReleaseEffect, DroppedCarries DEF SessionExpires
<1>2. CASE PipeBreaks
  <2>1. /\ bridge'.session = bridge.session /\ bridge'.sess = bridge.sess
        /\ bridge'.answers = bridge.answers /\ bridge'.rpc = "broken"
    BY <1>0, <1>2 DEF PipeBreaks, BridgeState
  <2>. QED BY <1>0, <2>1, SameCarries
<1>3. ASSUME NEW c, Alike(bridge, c), c.rpc \in {bridge.rpc, "closed"},
             NEW t, Fails(c, bridge', t)
      PROVE  Carries(bridge, bridge') /\ app' = app
  <2>1. Carries(bridge, c)
    BY <1>3, SameCarries DEF Alike
  <2>2. Carries(c, bridge')
    BY <1>3, DroppedCarries DEF Alike, Fails
  <2>. QED BY <1>0, <2>1, <2>2, CarriesOn
<1>4. CASE Exits(bridge)
  BY <1>0, <1>3, <1>4, ExitEffect
<1>5. CASE CloseBegins
  BY <1>0, <1>3, <1>5, CloseEffect
<1>6. CASE CloseEnds /\ bridge' = bridge
  BY <1>0, <1>6, SameCarries
<1>. QED BY <1>1, <1>2, <1>4, <1>5, <1>6 DEF RpcExits, CloseEnds

\* An event that is held or consumed.
LEMMA DeliverCarries ==
  ASSUME bridge \in BridgeState, bridge.session # None, NEW e \in Events, NEW ok
  PROVE  Carries(bridge, Deliver(e, ok))
<1> DEFINE d == Deliver(e, ok)
           s == Cur(bridge)
<1>1. ASSUME NEW t, Fails(bridge, d, t) PROVE Carries(bridge, d)
  BY <1>1, DroppedCarries DEF Fails
<1>2. CASE /\ Works(bridge, d) /\ Cur(d) = [s EXCEPT !.buffered = Append(@, e)]
           /\ d.answers = bridge.answers
  <2>1. s \in Session
    BY CurType
  <2>2. Cur(d).waiting = s.waiting /\ Cur(d).pending = s.pending
    BY <1>2, <2>1 DEF Session
  <2>. QED BY <1>2, <2>2, WorksCarries DEF Held
<1>3. CASE d = Consume(bridge, e, ok)
  BY <1>3, ConsumeCarries
<1> HIDE DEF d
<1>4. \/ \E t : Fails(bridge, d, t)
      \/ /\ Works(bridge, d) /\ Cur(d) = [s EXCEPT !.buffered = Append(@, e)]
         /\ d.answers = bridge.answers
      \/ d = Consume(bridge, e, ok)
  BY DeliverEffect DEF d
<1>5. Carries(bridge, d)
  BY <1>1, <1>2, <1>3, <1>4 DEF d
<1>. QED BY <1>5 DEF d

\* The lines that carry no call.
LEMMA LineCarries ==
  ASSUME Given, NEW t \in Requests,
         \/ \E result : RpcReply(t, result)
         \/ \E announced : TurnBegins(t, announced)
         \/ \E kind \in {"text", "bad"} : ItemEvent(t, kind)
         \/ \E kind \in {"completed", "failed"} : TurnEnds(t, kind)
         \/ \E blocked : FatalNotice(t, blocked)
  PROVE  Carries(bridge, bridge') /\ app'.asked = app.asked
<1>1. bridge \in BridgeState /\ app \in AppType
  BY DEF Given, IInv, TypeOK, AppType
<1>2. app'.asked = app.asked
  BY <1>1 DEF RpcReply, TurnBegins, ItemEvent, TurnEnds, FatalNotice, AppType
<1>3. CASE bridge' = bridge
  BY <1>2, <1>3, SameCarries
<1>4. ASSUME Ours(t), bridge' = [bridge EXCEPT !.sess[bridge.session].turnId = t]
      PROVE  Carries(bridge, bridge') /\ app'.asked = app.asked
  <2> DEFINE v == [Cur(bridge) EXCEPT !.turnId = t]
  <2>1. bridge.session # None /\ Cur(bridge) \in Session
    BY <1>1, <1>4, CurType DEF Ours
  <2>2. v \in Session /\ Held(v) = Held(Cur(bridge))
    BY <2>1 DEF Session, OptRequest, Held
  <2>3. bridge' = [bridge EXCEPT !.sess[bridge.session] = v]
    BY <1>4 DEF Cur
  <2> HIDE DEF v
  <2>4. Works(bridge, bridge') /\ Cur(bridge') = v /\ bridge'.answers = bridge.answers
    BY <1>1, <2>1, <2>2, <2>3, CurEffect
  <2>5. Held(Cur(bridge)) \subseteq Held(Cur(bridge'))
    BY <2>2, <2>4
  <2>. QED BY <1>2, <2>4, <2>5, WorksCarries
<1>5. ASSUME NEW e \in Events, NEW ok, Ours(t), bridge' = Deliver(e, ok)
      PROVE  Carries(bridge, bridge') /\ app'.asked = app.asked
  BY <1>1, <1>2, <1>5, DeliverCarries DEF Ours
<1>6. CASE bridge' = Fail(bridge, "failed")
  BY <1>1, <1>2, <1>6, FailEffect, DroppedCarries DEF Fails, Outcomes
<1>7. ASSUME NEW kind \in {"text", "bad"}, ItemEvent(t, kind)
      PROVE  Carries(bridge, bridge') /\ app'.asked = app.asked
  <2> DEFINE e == [kind |-> kind, turn |-> t, n |-> app.items[t] + 1]
  <2>1. e \in Events
    BY DEF Events, Given, IInv, TypeOK
  <2>2. \/ bridge' = bridge
        \/ Ours(t) /\ \E ok : bridge' = Deliver(e, ok)
    BY <1>7 DEF ItemEvent
  <2> HIDE DEF e
  <2>. QED BY <1>3, <1>5, <2>1, <2>2
<1>8. ASSUME NEW kind \in {"completed", "failed"}, TurnEnds(t, kind)
      PROVE  Carries(bridge, bridge') /\ app'.asked = app.asked
  <2> DEFINE e == [kind |-> kind, turn |-> t, n |-> 0]
  <2>1. e \in Events
    BY DEF Events
  <2>2. \/ bridge' = bridge
        \/ Ours(t) /\ \E ok : bridge' = Deliver(e, ok)
    BY <1>8 DEF TurnEnds
  <2> HIDE DEF e
  <2>. QED BY <1>3, <1>5, <2>1, <2>2
<1>. QED BY <1>3, <1>4, <1>6, <1>7, <1>8 DEF RpcReply, TurnBegins, FatalNotice

\* A call is answered at once, or held from now on.
LEMMA RequestCarries ==
  ASSUME Given, Line, NEW t \in Requests, app.turn[t] = "running", NEW c \in Calls,
         NEW good, NEW ok, bridge' = ServerRequest(c, t, good, ok)
  PROVE  /\ Carries(bridge, bridge')
         /\ app.asked[c] = None /\ bridge'.answers[c] = <<>> /\ bridge'.rpc = "up" =>
              bridge'.session # None /\ c \in Held(Cur(bridge'))
<1> DEFINE Counted ==
             app.asked[c] = None /\ bridge'.answers[c] = <<>> /\ bridge'.rpc = "up" =>
               bridge'.session # None /\ c \in Held(Cur(bridge'))
           b == Refuse(c)
<1>1. bridge \in BridgeState /\ Live(t)
  BY DEF Given, IInv, TypeOK, Live
<1>2. /\ b \in BridgeState /\ b.rpc = bridge.rpc /\ b.session = bridge.session
      /\ b.sess = bridge.sess
      /\ b.answers = IF app.asked[c] = None
                     THEN Answer(bridge, {c}, "error", None) ELSE bridge.answers
  BY <1>1, RefuseEffect
<1> HIDE DEF b
<1>3. app.asked[c] = None /\ b.rpc = "up" => b.answers[c] # <<>>
  <2> SUFFICES ASSUME app.asked[c] = None, b.rpc = "up" PROVE b.answers[c] # <<>>
    OBVIOUS
  <2>1. bridge.rpc = "up" /\ b.answers = Answer(bridge, {c}, "error", None)
    BY <1>2
  <2>. QED BY <1>1, <2>1, AnswerEach
<1>4. Carries(bridge, b)
  <2>1. CASE app.asked[c] # None
    BY <1>2, <2>1, SameCarries
  <2>2. CASE app.asked[c] = None
    <3>1. ASSUME NEW x \in Calls
          PROVE  /\ \A i \in DOMAIN b.answers[x] :
                      b.answers[x][i].kind = "result" =>
                        /\ i \in DOMAIN bridge.answers[x]
                        /\ b.answers[x][i] = bridge.answers[x][i]
                 /\ b.answers[x] = <<>> => bridge.answers[x] = <<>>
      BY <1>1, <1>2, <2>2, AnswerEach
    <3>. QED BY <1>2, <3>1 DEF Carries, Cur
  <2>. QED BY <2>1, <2>2
<1>5. CASE bridge' = b
  BY <1>3, <1>4, <1>5
<1>6. CASE bridge.rpc # "up" /\ bridge' = Fail(bridge, "failed")
  <2>1. Fails(bridge, bridge', Cur(bridge).turnId)
    BY <1>1, <1>6, FailEffect DEF Outcomes
  <2>2. Dropped(bridge, bridge', Cur(bridge).turnId)
    BY <2>1 DEF Fails
  <2>3. bridge'.rpc # "up"
    BY <1>6, <2>2 DEF Dropped
  <2>. QED BY <1>1, <2>2, <2>3, DroppedCarries
<1>7. CASE bridge' = Fail(b, "failed")
  <2>1. Fails(b, bridge', Cur(b).turnId)
    BY <1>2, <1>7, FailEffect DEF Outcomes
  <2>2. Carries(b, bridge')
    BY <1>2, <2>1, DroppedCarries DEF Fails
  <2>3. Carries(bridge, bridge')
    BY <1>4, <2>2, CarriesOn
  <2>4. Counted
    BY <1>3, <2>2 DEF Carries
  <2>. QED BY <2>3, <2>4
<1>8. CASE Ours(t) /\ bridge' = Flush(Queued(c, t), ok)
  <2> DEFINE s == Cur(bridge)
             n == Cur(bridge')
  <2>1. /\ bridge.session # None /\ s \in Session
        /\ IF Open(bridge) THEN s.waiting = None /\ s.pending = <<>>
           ELSE s.waiting # None
    BY <1>1, <1>8, LineFacts
  <2>2. s.pending \in Seq(Calls) /\ c # None
    BY <2>1, NoneAssumption DEF Session
  <2>3. CallWaits(c, t) \/ CallOffered(c, t) \/ \E d : CallFails(c, t, d)
    BY <1>1, <1>8, <2>1, QueueCases
  <2>4. CASE CallWaits(c, t)
    <3>1. Held(n) = Held(s) \cup {c}
      <4>1. Range(Append(s.pending, c)) = Range(s.pending) \cup {c}
        BY <2>2, AppendRange
      <4>. QED BY <2>4, <4>1 DEF CallWaits, Held
    <3>. QED BY <2>4, <3>1, WorksCarries DEF CallWaits, Works
  <2>5. CASE CallOffered(c, t)
    <3>1. Held(s) = {} /\ c \in Held(n)
      BY <2>1, <2>2, <2>5 DEF CallOffered, Held, Range
    <3>. QED BY <2>5, <3>1, WorksCarries DEF CallOffered, Works
  <2>6. ASSUME NEW d, CallFails(c, t, d)
        PROVE  Carries(bridge, bridge') /\ Counted
    <3>1. /\ Works(bridge, d) /\ d.answers = bridge.answers
          /\ Held(Cur(d)) = Held(s) \cup {c}
          /\ Dropped(d, bridge', t) /\ d \in BridgeState
      BY <2>6 DEF CallFails, Fails, Works
    <3>2. Carries(bridge, d) /\ Carries(d, bridge')
      BY <3>1, WorksCarries, DroppedCarries
    <3>3. Carries(bridge, bridge')
      BY <3>2, CarriesOn
    <3>4. d.session # None /\ bridge'.session = None /\ c \in Held(Cur(d))
      BY <3>1 DEF Works, Dropped
    <3>. QED BY <3>2, <3>3, <3>4 DEF Carries
  <2>. QED BY <2>3, <2>4, <2>5, <2>6
<1>. QED BY <1>5, <1>6, <1>7, <1>8 DEF ServerRequest, Queued, b


\* The result of a call is brought by the request that named it.
LEMMA AnswersAccounts ==
  ASSUME Given, Accounts, NEW r \in Requests, DriveAnswersTool(r)
  PROVE  Accounts'
<1> DEFINE s == Cur(bridge)
           n == Cur(bridge')
<1>1. /\ bridge.session # None /\ Open(bridge) /\ bridge.operation = r
      /\ task[r].drv = "start" /\ task[r].tool # None /\ app' = app
      /\ bridge'.session = bridge.session /\ bridge'.rpc = bridge.rpc
      /\ n.waiting = None /\ n.pending = s.pending
      /\ \/ /\ bridge.rpc = "up"
            /\ bridge'.answers = Answer(bridge, {s.waiting}, "result", r)
         \/ /\ bridge.rpc # "up" /\ bridge'.answers = bridge.answers
      /\ bridge \in BridgeState
  BY AnswersEffect DEF Given, IInv, TypeOK
<1>2. s.waiting = task[r].tool /\ r \in Opened
  BY <1>1, OpenFacts DEF Given, Shape, Busy
<1>3. Held(n) = Held(s) \ {s.waiting} \/ s.waiting \in Held(n)
  BY <1>1 DEF Held
<1>4. Starting'
  BY <1>1 DEF Accounts, Starting
<1>5. Owed'
  <2>1. ASSUME NEW c \in Calls, app.asked[c] # None, bridge'.answers[c] = <<>>,
               bridge.rpc = "up"
        PROVE  c \in Held(n)
    <3>1. bridge.answers[c] = <<>> /\ c # s.waiting
      BY <1>1, <2>1, AnswerEach
    <3>2. c \in Held(s)
      BY <2>1, <3>1 DEF Accounts, Owed
    <3>. QED BY <1>1, <3>1, <3>2 DEF Held
  <2>2. Held(Cur(bridge))' = Held(n)
    BY DEF Held, Cur
  <2>. QED BY <1>1, <2>1, <2>2 DEF Owed
<1>6. Results'
  <2>1. ASSUME NEW c \in Calls, NEW i \in DOMAIN bridge'.answers[c],
               bridge'.answers[c][i].kind = "result"
        PROVE  bridge'.answers[c][i].by \in Opened /\ task[bridge'.answers[c][i].by].tool = c
    <3>1. \/ /\ i \in DOMAIN bridge.answers[c]
             /\ bridge'.answers[c][i] = bridge.answers[c][i]
          \/ c = s.waiting /\ bridge'.answers[c][i].by = r
      BY <1>1, AnswerEach
    <3>. QED BY <1>2, <2>1, <3>1 DEF Accounts, Results
  <2>. QED BY <2>1 DEF Results, Given, Kept, Opened
<1>. QED BY <1>4, <1>5, <1>6 DEF Accounts

\* The connection comes up before anything was sent.
LEMMA StartedAccounts ==
  ASSUME Given, Accounts, RpcStarted PROVE Accounts'
<1>1. /\ bridge.rpc = "starting" /\ bridge'.rpc = "up" /\ app' = app
      /\ bridge'.answers = bridge.answers
  BY DEF RpcStarted, Given, IInv, TypeOK, BridgeState
<1>2. \A c \in Calls : app.asked[c] = None
  <2>1. ASSUME NEW c \in Calls, app.asked[c] # None PROVE FALSE
    <3>1. app.asked[c] \in Requests
      BY <2>1 DEF Given, IInv, TypeOK, OptRequest
    <3>. QED BY <1>1, <2>1, <3>1
             DEF Accounts, Starting, Given, IInv, CallInv, CallsSeen
  <2>. QED BY <2>1
<1>3. Owed' /\ Starting'
  BY <1>1, <1>2 DEF Owed, Starting
<1>4. Results'
  BY <1>1 DEF Accounts, Results, Given, Kept, Opened
<1>. QED BY <1>3, <1>4 DEF Accounts

\* Before the connection is up no turn is sent.
LEMMA NothingSent ==
  ASSUME [Next]_vars, bridge.rpc = "starting" PROVE app' = app
<1>1. ASSUME NEW r \in Requests, RespondStep(r) PROVE app' = app
  BY <1>1 DEF RespondStep, RespondRejected, RespondNew, Arrives, RespondContinue, Begin,
              RequestTimeout, ClientGone, RpcTimeout, ReleaseAnswered, ReleaseTimesOut,
              ReleaseNext
<1>2. ASSUME NEW r \in Requests, Continues(r) PROVE app' = app
  BY <1>2 DEF Continues, RespondOpens, Begin, RespondReturns, DriveStarts,
              DriveSendsMessage, DriveAnswersTool, DriveReplays, DriveFlushes,
              ThreadTooLate, ThreadArrives, TurnTooLate, TurnArrives, DriveRefused,
              DriveCatches, StartsTurn
<1>3. ASSUME NEW r \in Requests, AppServerStep(r) PROVE FALSE
  BY <1>3 DEF AppServerStep, RpcReply, TurnBegins, ItemEvent, TurnEnds, FatalNotice,
              ToolCall, Line
<1>4. ASSUME NEW c \in Calls, ToolCallRepeated(c) PROVE FALSE
  BY <1>4 DEF ToolCallRepeated, Line
<1>. QED BY <1>1, <1>2, <1>3, <1>4
         DEF Next, vars, SessionExpires, RpcStarted, PipeBreaks, RpcExits, CloseBegins,
             CloseEnds

\* Every step keeps the accounts.
LEMMA AccountsInductive ==
  ASSUME Given, Accounts, [Next]_vars PROVE Accounts'
<1>1. bridge.rpc = "starting" => app'.turn = app.turn
  BY NothingSent
<1>2. CASE Carries(bridge, bridge') /\ app'.asked = app.asked
  BY <1>1, <1>2, AccountsHold
<1>3. CASE UNCHANGED vars
  BY <1>2, <1>3, SameCarries DEF vars
<1>4. ASSUME NEW r \in Requests, RespondStep(r) PROVE Accounts'
  BY <1>2, <1>4, RespondCarries, BeginsCarries
     DEF RespondStep, ReleaseAnswered, ReleaseTimesOut
<1>5. ASSUME NEW r \in Requests, Continues(r) PROVE Accounts'
  BY <1>2, <1>5, RespondCarries, BeginsCarries, DriveCarries, ReplayCarries,
     AnswersAccounts DEF Continues
<1>6. ASSUME NEW t \in Requests, NEW c \in Calls, NEW wellFormed,
             ToolCall(c, t, wellFormed)
      PROVE  Accounts'
  <2>1. /\ Line /\ app.turn[t] = "running" /\ app.asked[c] = None
        /\ app' = [app EXCEPT !.asked[c] = t] /\ app \in AppType
        /\ \E ok : bridge' = ServerRequest(c, t, wellFormed, ok)
    BY <1>6 DEF ToolCall, Given, IInv, TypeOK, AppType
  <2>2. \A x \in Calls : app'.asked[x] # None => app.asked[x] # None \/ x = c
    BY <2>1 DEF AppType
  <2>3. /\ Carries(bridge, bridge')
        /\ bridge'.answers[c] = <<>> /\ bridge'.rpc = "up" =>
             bridge'.session # None /\ c \in Held(Cur(bridge'))
    BY <2>1, RequestCarries
  <2>. QED BY <1>1, <2>2, <2>3, AccountsHold
<1>7. ASSUME NEW c \in Calls, ToolCallRepeated(c) PROVE Accounts'
  <2>1. /\ Line /\ app.asked[c] \in Requests /\ app.turn[app.asked[c]] = "running"
        /\ app' = app /\ \E ok : bridge' = ServerRequest(c, app.asked[c], TRUE, ok)
    BY <1>7 DEF ToolCallRepeated, Given, IInv, TypeOK, OptRequest
  <2>. QED BY <1>2, <2>1, RequestCarries
<1>8. ASSUME NEW t \in Requests, AppServerStep(t) PROVE Accounts'
  BY <1>2, <1>6, <1>8, LineCarries DEF AppServerStep
<1>9. CASE \/ SessionExpires \/ RpcStarted \/ PipeBreaks \/ RpcExits
           \/ CloseBegins \/ CloseEnds
  BY <1>2, <1>9, ConnectionCarries, StartedAccounts
<1>. QED BY <1>3, <1>4, <1>5, <1>7, <1>8, <1>9 DEF Next

\* The accounts hold at first: there is no call and no turn.
LEMMA InitialAccounts == Init => Accounts
<1> SUFFICES ASSUME Init PROVE Accounts
  OBVIOUS
<1>1. /\ \A c \in Calls : app.asked[c] = None /\ bridge.answers[c] = <<>>
      /\ \A t \in Requests : app.turn[t] = "none"
  BY DEF Init
<1>. QED BY <1>1 DEF Accounts, Owed, Results, Starting

\* Every call that the app-server made is answered or still held, and every
\* result comes from a request that named its call, in every behaviour.
THEOREM AccountsKept == Spec => [](IInv /\ Flight /\ Shape /\ Accounts)
<1>1. Init => IInv /\ Flight /\ Shape /\ Accounts
  BY Initially, InitialFlight, InitialShape, InitialAccounts
<1>2. IInv /\ Flight /\ Shape /\ Accounts /\ [Next]_vars
        => (IInv /\ Flight /\ Shape /\ Accounts)'
  BY Inductive, FlightInductive, ShapeInductive, AccountsInductive
<1>. QED BY <1>1, <1>2, PTL DEF Spec

\* A call is never dropped while it can be answered, however many arrive and
\* whatever fails meanwhile (lines 167-180, 261).
THEOREM CallsNeverDropped == Spec => []NoCallDropped
<1>1. IInv /\ Flight /\ Shape /\ Accounts => NoCallDropped
  BY DEF Accounts, Owed, NoCallDropped, Held
<1>. QED BY <1>1, AccountsKept, PTL

\* A call gets a client's result only from a request that continued the very
\* response that offered that call (lines 104-106, 132, 139).
THEOREM ResultsComeHome == Spec => []ResultFromItsOffer
<1>1. IInv /\ Flight /\ Shape /\ Accounts => ResultFromItsOffer
  <2> SUFFICES ASSUME IInv, Flight, Shape, Accounts, NEW c \in Calls,
                      NEW i \in DOMAIN bridge.answers[c],
                      bridge.answers[c][i].kind = "result"
               PROVE  LET q == bridge.answers[c][i].by
                      IN /\ task[q].tool = c /\ task[q].prev # None
                         /\ bridge.op[task[q].prev] = [offered |-> c, outcome |-> "ok"]
    BY DEF ResultFromItsOffer
  <2>1. PICK q \in Opened : q = bridge.answers[c][i].by /\ task[q].tool = c
    BY DEF Accounts, Results
  <2>2. c # None /\ q \in Requests
    BY NoneAssumption DEF Opened
  <2>. QED BY <2>1, <2>2 DEF Flight, ThreadOK, Shape, TasksOK, TaskOK
<1>. QED BY <1>1, AccountsKept, PTL


-----------------------------------------------------------------------------
(* The turns that are left behind *)

\* The drive of x is over and its turn is not; the drive of x was told that
\* its turn, which is not over, has failed.
Over(x) == task[x].drv \in {"failed", "done"} /\ Live(x) /\ ~task[x].late
Missed(x) ==
    /\ task[x].drv = "turn" /\ task[x].reply \in {"error", "noId"} /\ Live(x)
    /\ ~(task[x].reply = "error" /\ task[x].late)

\* The session knows the turn that runs on its thread, or its operation is the
\* one that has sent it.
Known ==
    bridge.session # None =>
      \A t \in Requests : Live(t) /\ task[t].session = bridge.session =>
        Cur(bridge).turnId = t \/ (Open(bridge) /\ bridge.operation = t)

\* No turn of the current session is interrupted.
Spared ==
    \A t \in bridge.interrupted :
      t \in Opened /\ (bridge.session # None => task[t].session # bridge.session)

\* While the connection is up a drive hears of its turn, and leaves it only
\* interrupted or in the hands of its session.
Reported ==
    bridge.rpc = "up" =>
      \A x \in Requests :
        /\ ~Missed(x)
        /\ Over(x) => \/ x \in bridge.interrupted
                      \/ bridge.session = task[x].session /\ Cur(bridge).turnId = x

\* Only these drives await an RPC.
Awaited == \A x \in Requests : task[x].reply # "none" => task[x].drv \in {"thread", "turn"}

Orphans == Known /\ Spared /\ Reported /\ Awaited

\* What the bridge does with its session's turn, unless that is over now.
SessionGoes ==
    /\ bridge'.rpc = "up" => bridge.rpc = "up"
    /\ bridge.interrupted \subseteq bridge'.interrupted
    /\ \A x \in bridge'.interrupted :
         \/ x \in bridge.interrupted
         \/ x \in Opened /\ (bridge'.session # None => task[x].session # bridge'.session)
    /\ bridge'.session \in {bridge.session, None}
    /\ bridge.session # None /\ Live(TheTurn) /\ app'.turn[TheTurn] # "ended" =>
         LET s == Cur(bridge)
             n == Cur(bridge')
         IN IF bridge'.session = bridge.session
            THEN /\ n.turnId \in {s.turnId, TheTurn}
                 /\ Open(bridge) =>
                      \/ Open(bridge') /\ bridge'.operation = bridge.operation
                      \/ n.turnId = TheTurn
            ELSE s.thread /\ s.turnId = TheTurn /\ bridge'.rpc = "up" =>
                   TheTurn \in bridge'.interrupted

\* What the drives hear of their turns, and how they leave them.
TasksGo ==
    \A x \in Requests :
      /\ task'[x].reply # "none" => task'[x].drv \in {"thread", "turn"}
      /\ Live(x)' => Live(x) \/ (Open(bridge') /\ bridge'.operation = x)
      /\ bridge'.rpc = "up" =>
           /\ Missed(x)' => Missed(x)
           /\ Over(x)' => \/ Over(x)
                          \/ x \in bridge'.interrupted
                          \/ /\ bridge'.session = task[x].session
                             /\ Cur(bridge').turnId = x

\* When the session and the drives do so, a step keeps Orphans.
LEMMA OrphansHold ==
  ASSUME Given, Orphans, SessionGoes, TasksGo PROVE Orphans'
<1> DEFINE s == Cur(bridge)
           n == Cur(bridge')
<1>1. Cur(bridge)' = n /\ Open(bridge)' = Open(bridge')
  BY DEF Cur, Open
<1>2. \A t \in Requests : Live(t)' => t \in Opened /\ task'[t].session = task[t].session
  <2>1. \A t \in Requests : app'.turn[t] # "none" => t \in Opened
    BY DEF Given, Forward, IInv, CallInv, OpenedFirst
  <2>. QED BY <2>1 DEF Live, Given, Kept
<1>3. \A t \in Requests : Live(t) /\ task[t].session = bridge.session =>
        t = TheTurn /\ bridge.session # None /\ s.thread
  <2>1. ASSUME NEW t \in Requests, Live(t), task[t].session = bridge.session
        PROVE  bridge.session # None /\ s.thread
    <3>1. t \in Opened /\ bridge.sess[task[t].session].thread
      BY <2>1 DEF Given, IInv, CallInv, OpenedFirst, Live
    <3>2. task[t].session \in Requests
      BY <3>1 DEF Given, IInv, CallInv, OpenedFirst, Opened
    <3>. QED BY <2>1, <3>1, <3>2, NoneAssumption DEF Cur
  <2>. QED BY <2>1 DEF Given, Shape, Turns
<1>4. Known'
  <2> SUFFICES ASSUME bridge'.session # None, NEW t \in Requests, Live(t)',
                      task'[t].session = bridge'.session
               PROVE  n.turnId = t \/ (Open(bridge') /\ bridge'.operation = t)
    BY <1>1 DEF Known
  <2>1. bridge'.session = bridge.session /\ task[t].session = bridge.session
    BY <1>2 DEF SessionGoes
  <2>2. CASE Live(t)
    <3>1. t = TheTurn /\ bridge.session # None
      BY <1>3, <2>1, <2>2
    <3>2. s.turnId = t \/ (Open(bridge) /\ bridge.operation = t)
      BY <2>1, <2>2, <3>1 DEF Orphans, Known
    <3>3. Live(TheTurn) /\ app'.turn[TheTurn] # "ended"
      BY <2>2, <3>1 DEF Live
    <3>. QED BY <2>1, <3>1, <3>2, <3>3 DEF SessionGoes
  <2>. QED BY <2>2 DEF TasksGo
<1>5. Spared'
  <2>1. \A x \in Opened : x \in Opened' /\ task'[x].session = task[x].session
    BY DEF Given, Kept, Opened
  <2>2. ASSUME NEW x \in bridge'.interrupted
        PROVE  x \in Opened /\ (bridge'.session # None => task[x].session # bridge'.session)
    BY DEF SessionGoes, Orphans, Spared
  <2>. QED BY <2>1, <2>2 DEF Spared
<1>6. Reported'
  <2> SUFFICES ASSUME bridge'.rpc = "up", NEW x \in Requests
               PROVE  /\ ~Missed(x)'
                      /\ Over(x)' => \/ x \in bridge'.interrupted
                                     \/ bridge'.session = task'[x].session /\ n.turnId = x
    BY <1>1 DEF Reported
  <2>1. bridge.rpc = "up"
    BY DEF SessionGoes
  <2>2. ~Missed(x)'
    BY <2>1 DEF TasksGo, Orphans, Reported
  <2>3. ASSUME Over(x)', x \notin bridge'.interrupted
        PROVE  bridge'.session = task'[x].session /\ n.turnId = x
    <3>1. Live(x)' /\ task'[x].session = task[x].session
      BY <1>2, <2>3 DEF Over
    <3>2. CASE bridge'.session = task[x].session /\ n.turnId = x
      BY <3>1, <3>2
    <3>3. CASE Over(x)
      <4>1. x \notin bridge.interrupted
        BY <2>3 DEF SessionGoes
      <4>2. Live(x) /\ bridge.session = task[x].session /\ s.turnId = x
        BY <2>1, <3>3, <4>1 DEF Orphans, Reported, Over
      <4>3. x = TheTurn /\ bridge.session # None /\ s.thread
        BY <1>3, <4>2
      <4>4. app'.turn[TheTurn] # "ended" /\ bridge'.rpc = "up"
        BY <3>1, <4>3 DEF Live
      <4>. QED BY <2>3, <3>1, <4>2, <4>3, <4>4 DEF SessionGoes
    <3>. QED BY <2>3, <3>2, <3>3 DEF TasksGo
  <2>. QED BY <2>2, <2>3
<1>7. Awaited'
  BY DEF Awaited, TasksGo
<1>. QED BY <1>4, <1>5, <1>6, <1>7 DEF Orphans

\* Drives that stay where they are, while turns at most end.
LEMMA EvenGo ==
  ASSUME Orphans,
         \A x \in Requests :
           /\ task'[x].drv = task[x].drv /\ task'[x].reply = task[x].reply
           /\ task'[x].late = task[x].late
           /\ Live(x)' => Live(x)
  PROVE  TasksGo
BY DEF TasksGo, Orphans, Awaited, Missed, Over

\* A drive that moves on to an end or to the replay, without a turn of its own.
LEMMA MovesGo ==
  ASSUME Given, Orphans, NEW r \in Requests, NEW step, Moves(r, step), app' = app,
         app.turn[r] = "none" \/ (task[r].drv = "failed" /\ step = "done"),
         step # "turn"
  PROVE  TasksGo
<1>1. /\ task'[r].drv = step /\ task'[r].reply = "none" /\ task'[r].late = task[r].late
      /\ \A x \in Requests : x # r => task'[x] = task[x]
  BY MovesEffect DEF Given
<1>2. \A x \in Requests : Live(x)' => Live(x)
  BY DEF Live
<1>3. ASSUME NEW x \in Requests, x # r
      PROVE  /\ task'[x].reply # "none" => task'[x].drv \in {"thread", "turn"}
             /\ Missed(x)' => Missed(x)
             /\ Over(x)' => Over(x)
  BY <1>1, <1>2, <1>3 DEF Orphans, Awaited, Missed, Over
<1>4. /\ task'[r].reply = "none" /\ ~Missed(r)'
      /\ Over(r)' => Over(r)
  BY <1>1, <1>2 DEF Missed, Over, Live
<1>. QED BY <1>2, <1>3, <1>4 DEF TasksGo

\* A bridge that keeps its session and its turn.
LEMMA StaysGoes ==
  ASSUME bridge'.session = bridge.session, bridge'.interrupted = bridge.interrupted,
         bridge'.rpc \in {bridge.rpc, "broken", "closed"},
         bridge.session # None => Cur(bridge').turnId = Cur(bridge).turnId,
         Open(bridge) => Open(bridge') /\ bridge'.operation = bridge.operation
  PROVE  SessionGoes
BY DEF SessionGoes

\* A bridge that drops its session after turn t of it was recorded.
LEMMA DropsGoes ==
  ASSUME Given, NEW c, NEW t, Dropped(c, bridge', t),
         c.session = bridge.session, c.interrupted = bridge.interrupted,
         c.rpc \in {bridge.rpc, "closed"}, t \in {None, TheTurn},
         bridge.session # None =>
           /\ Cur(c).thread = Cur(bridge).thread
           /\ app'.turn[TheTurn] # "ended" /\ Cur(bridge).turnId = TheTurn => t = TheTurn
  PROVE  SessionGoes
<1>1. bridge'.session = None /\ bridge'.rpc = c.rpc
  BY DEF Dropped
<1>2. CASE bridge.session = None
  BY <1>1, <1>2 DEF Dropped, SessionGoes
<1>3. CASE bridge.session # None
  <2>1. IF Cur(c).thread /\ c.rpc = "up" /\ t # None
        THEN bridge'.interrupted = bridge.interrupted \cup {t}
        ELSE bridge'.interrupted = bridge.interrupted
    BY <1>3 DEF Dropped
  <2>2. TheTurn \in Opened
    <3>1. CASE Open(bridge)
      BY <3>1, OpenFacts DEF TheTurn, Given, Shape, TasksOK, TaskOK
    <3>2. CASE ~Open(bridge)
      BY <1>3, <3>2 DEF TheTurn, Given, Shape, Rest, TasksOK, TaskOK
    <3>. QED BY <3>1, <3>2
  <2>3. TheTurn # None
    BY <2>2, NoneAssumption DEF Opened
  <2>. QED BY <1>1, <1>3, <2>1, <2>2, <2>3 DEF SessionGoes
<1>. QED BY <1>2, <1>3

\* fail() and releaseSession.
LEMMA FailsGoes ==
  ASSUME Given, NEW o \in Outcomes \ {"none"},
         bridge' = Fail(bridge, o) \/ bridge' = Release(bridge)
  PROVE  SessionGoes
<1>1. bridge \in BridgeState
  BY DEF Given, IInv, TypeOK
<1>2. Dropped(bridge, bridge', Cur(bridge).turnId)
  BY <1>1, FailEffect, ReleaseEffect DEF Fails
<1>3. CASE bridge.session # None
  <2>1. Cur(bridge).turnId \in {None, TheTurn}
    BY <1>3 DEF Given, Shape, Turns
  <2>. QED BY <1>2, <2>1, DropsGoes
<1>4. CASE bridge.session = None
  <2>1. bridge'.session = None /\ bridge'.rpc = bridge.rpc
        /\ bridge'.interrupted = bridge.interrupted
    BY <1>2, <1>4 DEF Dropped
  <2>. QED BY <1>4, <2>1 DEF SessionGoes
<1>. QED BY <1>3, <1>4


\* respond(), its timers and the releases.
LEMMA RespondOrphans ==
  ASSUME Given, Orphans, NEW r \in Requests,
         \/ RespondRejected(r) \/ RespondNew(r) \/ RequestTimeout(r)
         \/ ClientGone(r) \/ ReleaseNext(r) \/ RespondReturns(r)
  PROVE  Orphans'
<1>0. bridge \in BridgeState /\ task \in [Requests -> Task] /\ task[r] \in Task
  BY DEF Given, IInv, TypeOK
<1>1. TasksGo
  <2> DEFINE u == [task[r] EXCEPT !.pc = "releasing", !.turn = r, !.session = bridge.session]
             v == [task[r] EXCEPT !.gone = TRUE]
             w == [task[r] EXCEPT !.pc = "done", !.gone = FALSE]
  <2>1. /\ u.drv = task[r].drv /\ u.reply = task[r].reply /\ u.late = task[r].late
        /\ v.drv = task[r].drv /\ v.reply = task[r].reply /\ v.late = task[r].late
        /\ w.drv = task[r].drv /\ w.reply = task[r].reply /\ w.late = task[r].late
    BY <1>0 DEF Task
  <2>2. /\ app' = app
        /\ \/ task' = task
           \/ task' = [task EXCEPT ![r] = u]
           \/ task' = [task EXCEPT ![r] = v]
           \/ task' = [task EXCEPT ![r] = w]
    BY DEF RespondRejected, RespondNew, RequestTimeout, ClientGone, ReleaseNext,
           RespondReturns
  <2> HIDE DEF u, v, w
  <2>3. \A x \in Requests :
          /\ task'[x].drv = task[x].drv /\ task'[x].reply = task[x].reply
          /\ task'[x].late = task[x].late
    BY <1>0, <2>1, <2>2
  <2>. QED BY <2>2, <2>3, EvenGo DEF Live
<1>2. CASE RespondNew(r)
  <2> DEFINE b == [bridge EXCEPT !.busy = TRUE]
  <2>1. /\ b \in BridgeState /\ b.session = bridge.session /\ b.sess = bridge.sess
        /\ b.interrupted = bridge.interrupted /\ b.rpc = bridge.rpc
    BY <1>0 DEF BridgeState
  <2>2. bridge' = Release(b)
    BY <1>2 DEF RespondNew
  <2> HIDE DEF b
  <2>3. /\ Dropped(b, bridge', Cur(b).turnId) /\ Cur(b) = Cur(bridge)
    BY <2>1, <2>2, ReleaseEffect DEF Cur
  <2>4. SessionGoes
    <3>1. CASE bridge.session # None
      <4>1. Cur(bridge).turnId \in {None, TheTurn}
        BY <3>1 DEF Given, Shape, Turns
      <4>. QED BY <2>1, <2>3, <4>1, DropsGoes
    <3>2. CASE bridge.session = None
      BY <2>1, <2>3, <3>2 DEF SessionGoes, Dropped
    <3>. QED BY <3>1, <3>2
  <2>. QED BY <1>1, <2>4, OrphansHold
<1>3. CASE bridge' = bridge
  BY <1>1, <1>3, StaysGoes, OrphansHold
<1>4. ASSUME NEW o \in Outcomes \ {"none"}, bridge' = Fail(bridge, o) PROVE Orphans'
  BY <1>1, <1>4, FailsGoes, OrphansHold
<1>5. CASE ReleaseNext(r) \/ RespondReturns(r)
  <2>1. /\ bridge'.session = bridge.session /\ bridge'.sess = bridge.sess
        /\ bridge'.interrupted = bridge.interrupted /\ bridge'.rpc = bridge.rpc
        /\ bridge'.op = bridge.op
    BY <1>0, <1>5 DEF ReleaseNext, RespondReturns, BridgeState
  <2>2. ReleaseNext(r) => bridge'.operation = bridge.operation
    BY <1>0 DEF ReleaseNext, BridgeState
  <2>3. RespondReturns(r) => ~Open(bridge)
    BY DEF RespondReturns, Given, Flight, OneFlight, Open
  <2>. QED BY <1>1, <1>5, <2>1, <2>2, <2>3, StaysGoes, OrphansHold DEF Cur, Open
<1>. QED BY <1>2, <1>3, <1>4, <1>5
         DEF RespondRejected, RequestTimeout, ClientGone, Outcomes

\* The rpc layer's timer: the drive does not wait for its turn any more.
LEMMA TimeoutOrphans ==
  ASSUME Given, Orphans, NEW r \in Requests, RpcTimeout(r) PROVE Orphans'
<1> DEFINE late == task[r].drv = "turn"
           v == [task[r] EXCEPT !.reply = "error", !.late = late]
<1>1. task \in [Requests -> Task] /\ task[r] \in Task
  BY DEF Given, IInv, TypeOK
<1>2. /\ task' = [task EXCEPT ![r] = v] /\ UNCHANGED <<bridge, loop, app>>
      /\ task[r].reply = "pending"
  BY DEF RpcTimeout
<1>3. v.drv = task[r].drv /\ v.reply = "error" /\ v.late = late
  BY <1>1 DEF Task
<1> HIDE DEF v
<1>4. /\ task'[r].drv = task[r].drv /\ task'[r].reply = "error"
      /\ task[r].drv = "turn" => task'[r].late
      /\ task[r].drv \in {"thread", "turn"}
      /\ \A x \in Requests : x # r => task'[x] = task[x]
  BY <1>1, <1>2, <1>3 DEF Orphans, Awaited
<1>5. TasksGo
  <2>1. \A x \in Requests : Live(x)' => Live(x)
    BY <1>2 DEF Live
  <2>2. task'[r].drv \in {"thread", "turn"} /\ ~Missed(r)' /\ ~Over(r)'
    BY <1>4 DEF Missed, Over
  <2>3. ASSUME NEW x \in Requests, x # r
        PROVE  /\ task'[x].reply # "none" => task'[x].drv \in {"thread", "turn"}
               /\ Missed(x)' => Missed(x)
               /\ Over(x)' => Over(x)
    BY <1>4, <2>1, <2>3 DEF Orphans, Awaited, Missed, Over
  <2>. QED BY <2>1, <2>2, <2>3 DEF TasksGo
<1>6. SessionGoes
  BY <1>2, StaysGoes
<1>. QED BY <1>5, <1>6, OrphansHold

\* A request that opens its operation has no turn yet.
LEMMA BegunGo ==
  ASSUME Given, Orphans, NEW r \in Requests, r \notin Opened, app' = app,
         task'[r].drv \in {"start", "done"}, task'[r].reply = task[r].reply,
         \A x \in Requests : x # r => task'[x] = task[x]
  PROVE  TasksGo
<1>1. app.turn[r] = "none" /\ task[r].drv = "none"
  BY DEF Given, IInv, CallInv, OpenedFirst
<1>2. task[r].reply = "none"
  BY <1>1 DEF Orphans, Awaited
<1>3. /\ task'[r].reply = "none" /\ ~Missed(r)' /\ ~Over(r)'
      /\ \A x \in Requests : Live(x)' => Live(x)
  BY <1>1, <1>2 DEF Missed, Over, Live
<1>4. ASSUME NEW x \in Requests, x # r
      PROVE  /\ task'[x].reply # "none" => task'[x].drv \in {"thread", "turn"}
             /\ Missed(x)' => Missed(x)
             /\ Over(x)' => Over(x)
  BY <1>3, <1>4 DEF Orphans, Awaited, Missed, Over
<1>. QED BY <1>3, <1>4 DEF TasksGo

\* A new session has no turn yet, and no turn is left to the old one.
LEMMA OpensOrphans ==
  ASSUME Given, Orphans, NEW r \in Requests, RespondOpens(r) PROVE Orphans'
<1>1. /\ bridge.session = None /\ r \notin Opened /\ app' = app
      /\ bridge'.operation = r /\ bridge'.rpc = bridge.rpc
      /\ bridge'.interrupted = bridge.interrupted
      /\ \A x \in Requests : x # r => task'[x] = task[x]
      /\ task'[r].reply = task[r].reply /\ task'[r].drv \in {"start", "done"}
      /\ bridge'.session \in {r, None}
  BY OpensEffect DEF Given
<1>2. TasksGo
  BY <1>1, BegunGo
<1>3. \A x \in Opened : x # r /\ task'[x] = task[x] /\ task[x].session \in Opened \ {r, None}
  <2>1. \A x \in Opened : x \in Requests /\ x # None
    BY NoneAssumption DEF Opened
  <2>. QED BY <1>1, <2>1 DEF Given, IInv, CallInv, OpenedFirst
<1>4. \A x \in Requests : Live(x)' => x \in Opened /\ x # r
  BY <1>1 DEF Live, Given, IInv, CallInv, OpenedFirst
<1>5. Known'
  BY <1>1, <1>3, <1>4 DEF Known
<1>6. Spared'
  <2>1. \A x \in Opened : x \in Opened'
    BY DEF Given, Kept, Opened
  <2>. QED BY <1>1, <1>3, <2>1 DEF Orphans, Spared
<1>7. Reported'
  <2>1. \A x \in Requests : Missed(x)' => Missed(x)
    BY <1>1, <1>4 DEF Missed, Live
  <2>2. \A x \in Requests : Over(x)' => Over(x) /\ x \in Opened
    BY <1>1, <1>4 DEF Over, Live
  <2>. QED BY <1>1, <1>3, <2>1, <2>2 DEF Orphans, Reported
<1>8. Awaited'
  BY <1>2 DEF TasksGo, Awaited
<1>. QED BY <1>5, <1>6, <1>7, <1>8 DEF Orphans

\* A continuation keeps its session, or lets it go with its turn.
LEMMA ContinueOrphans ==
  ASSUME Given, Orphans, NEW r \in Requests, NEW prev \in OptRequest,
         NEW tool \in OptCall, RespondContinue(r, prev, tool)
  PROVE  Orphans'
<1> DEFINE s == Cur(bridge)
<1>1. /\ bridge.session # None /\ ~Open(bridge) /\ r \notin Opened /\ app' = app
      /\ bridge'.rpc = bridge.rpc
      /\ \A x \in Requests : x # r => task'[x] = task[x]
      /\ task'[r].reply = task[r].reply /\ task'[r].drv \in {"start", "done"}
      /\ \/ /\ bridge'.session = bridge.session /\ Cur(bridge') = s
            /\ bridge'.interrupted = bridge.interrupted
         \/ /\ bridge'.session = None
            /\ IF bridge.rpc = "up" /\ s.turnId # None
               THEN bridge'.interrupted = bridge.interrupted \cup {s.turnId}
               ELSE bridge'.interrupted = bridge.interrupted
  BY ContinueEffect DEF Given, Shape
<1>2. TasksGo
  BY <1>1, BegunGo
<1>3. CASE bridge'.session # None
  BY <1>1, <1>2, <1>3, StaysGoes, OrphansHold
<1>4. CASE bridge'.session = None
  <2>1. s.turnId \in {None, TheTurn}
    BY <1>1 DEF Given, Shape, Turns
  <2>2. TheTurn \in Opened
    BY <1>1 DEF TheTurn, Given, Shape, Rest, TasksOK, TaskOK
  <2>3. TheTurn # None
    BY <2>2, NoneAssumption DEF Opened
  <2>4. SessionGoes
    BY <1>1, <1>4, <2>1, <2>2, <2>3 DEF SessionGoes
  <2>. QED BY <1>2, <2>4, OrphansHold
<1>. QED BY <1>3, <1>4

\* The connection and close().
LEMMA ConnectionOrphans ==
  ASSUME Given, Orphans, Accounts,
         \/ SessionExpires \/ RpcStarted \/ PipeBreaks \/ RpcExits
         \/ CloseBegins \/ CloseEnds
  PROVE  Orphans'
<1>0. bridge \in BridgeState /\ IInv /\ app' = app /\ \A x \in Requests : Live(x)' => Live(x)
  BY DEF Given, IInv, TypeOK, SessionExpires, RpcStarted, PipeBreaks, RpcExits,
         CloseBegins, CloseEnds, Live
<1>1. task' = task => TasksGo
  BY <1>0, EvenGo
<1>2. CASE SessionExpires
  BY <1>1, <1>2, FailsGoes, OrphansHold DEF SessionExpires, Outcomes
<1>3. CASE PipeBreaks
  <2>1. /\ bridge'.session = bridge.session /\ bridge'.sess = bridge.sess
        /\ bridge'.interrupted = bridge.interrupted /\ bridge'.rpc = "broken"
        /\ bridge'.operation = bridge.operation /\ bridge'.op = bridge.op
        /\ task' = task
    BY <1>0, <1>3 DEF PipeBreaks, BridgeState
  <2>. QED BY <1>1, <2>1, StaysGoes, OrphansHold DEF Cur, Open
<1>4. CASE RpcStarted
  <2>1. /\ bridge'.session = bridge.session /\ bridge'.interrupted = bridge.interrupted
        /\ bridge.rpc = "starting" /\ task' = task
    BY <1>0, <1>4 DEF RpcStarted, BridgeState
  <2>2. \A x \in Requests : ~Live(x)'
    BY <1>0, <2>1 DEF Accounts, Starting, Live
  <2>3. Known' /\ Reported'
    BY <2>2 DEF Known, Reported, Missed, Over
  <2>4. Spared' /\ Awaited'
    BY <2>1 DEF Orphans, Spared, Awaited, Opened
  <2>. QED BY <2>3, <2>4 DEF Orphans
<1>5. ASSUME NEW c, Alike(bridge, c), c.rpc \in {bridge.rpc, "closed"},
             Fails(c, bridge', Cur(bridge).turnId)
      PROVE  SessionGoes
  <2>1. /\ Dropped(c, bridge', Cur(bridge).turnId) /\ c.session = bridge.session
        /\ c.interrupted = bridge.interrupted /\ Cur(c) = Cur(bridge)
    BY <1>5 DEF Alike, Fails, Cur
  <2>2. CASE bridge.session # None
    <3>1. Cur(bridge).turnId \in {None, TheTurn}
      BY <2>2 DEF Given, Shape, Turns
    <3>. QED BY <1>5, <2>1, <3>1, DropsGoes
  <2>3. CASE bridge.session = None
    BY <1>5, <2>1, <2>3 DEF SessionGoes, Dropped
  <2>. QED BY <2>2, <2>3
<1>6. CASE CloseBegins
  <2>1. task' = task
    BY <1>6 DEF CloseBegins
  <2>. QED BY <1>0, <1>1, <1>5, <1>6, <2>1, CloseEffect, OrphansHold
<1>7. CASE Exits(bridge)
  <2>1. SessionGoes /\ bridge'.rpc = "closed"
    BY <1>0, <1>5, <1>7, ExitEffect DEF Fails, Dropped
  <2>2. \A x \in Requests :
          /\ task'[x].drv = task[x].drv
          /\ task'[x].reply = IF task[x].reply = "pending" THEN "error" ELSE task[x].reply
    BY <1>0, <1>7, ExitEffect
  <2>3. TasksGo
    BY <1>0, <2>1, <2>2 DEF TasksGo, Orphans, Awaited
  <2>. QED BY <2>1, <2>3, OrphansHold
<1>8. CASE CloseEnds /\ UNCHANGED <<bridge, task>>
  BY <1>1, <1>8, StaysGoes, OrphansHold
<1>. QED BY <1>2, <1>3, <1>4, <1>6, <1>7, <1>8 DEF RpcExits, CloseEnds


\* A drive that has not come to its turn has none.
LEMMA NoTurnYet ==
  ASSUME Given, NEW r \in Requests, task[r].drv \in {"start", "thread", "replay"}
  PROVE  app.turn[r] = "none"
BY DEF Given, Shape, TasksOK, Later

\* A drive that asks for its thread or its turn, and awaits the answer.
LEMMA AsksGo ==
  ASSUME Given, Orphans, NEW r \in Requests, NEW step \in {"thread", "turn"},
         Asks(r, step), app.turn[r] = "none", bridge'.rpc = bridge.rpc,
         \/ app' = app
         \/ /\ app' = [app EXCEPT !.turn[r] = "sent"]
            /\ Open(bridge') /\ bridge'.operation = r
  PROVE  TasksGo
<1> DEFINE w == IF bridge.rpc = "up" THEN "pending" ELSE "error"
           v == [task[r] EXCEPT !.drv = step, !.reply = w]
<1>1. task \in [Requests -> Task] /\ task[r] \in Task /\ app \in AppType
  BY DEF Given, IInv, TypeOK, AppType
<1>2. task' = [task EXCEPT ![r] = v]
  BY DEF Asks
<1>3. w \in {"pending", "error"} /\ (bridge.rpc = "up" => w = "pending")
  OBVIOUS
<1> HIDE DEF w
<1>4. v.drv = step /\ v.reply = w
  BY <1>1 DEF Task
<1> HIDE DEF v
<1>5. /\ task'[r].drv = step /\ task'[r].reply = w
      /\ \A x \in Requests : x # r => task'[x] = task[x]
  BY <1>1, <1>2, <1>4
<1>6. \A x \in Requests : Live(x)' => Live(x) \/ (x = r /\ Open(bridge') /\ bridge'.operation = r)
  BY <1>1 DEF Live, AppType
<1>7. ASSUME NEW x \in Requests, x # r
      PROVE  /\ task'[x].reply # "none" => task'[x].drv \in {"thread", "turn"}
             /\ Missed(x)' => Missed(x)
             /\ Over(x)' => Over(x)
  BY <1>5, <1>6, <1>7 DEF Orphans, Awaited, Missed, Over
<1>8. /\ task'[r].drv \in {"thread", "turn"} /\ ~Over(r)'
      /\ bridge'.rpc = "up" => ~Missed(r)'
  BY <1>3, <1>5 DEF Missed, Over
<1>. QED BY <1>6, <1>7, <1>8 DEF TasksGo

\* A drive whose turn was sent leaves it, and knows why it may.
LEMMA LeavesGo ==
  ASSUME Given, Orphans, NEW r \in Requests, NEW step \in {"failed", "done"},
         Moves(r, step), app' = app,
         bridge'.rpc = "up" /\ Live(r) =>
           \/ task[r].late \/ r \in bridge'.interrupted
           \/ bridge'.session = task[r].session /\ Cur(bridge').turnId = r
  PROVE  TasksGo
<1>1. /\ task'[r].drv = step /\ task'[r].reply = "none" /\ task'[r].late = task[r].late
      /\ \A x \in Requests : x # r => task'[x] = task[x]
  BY MovesEffect DEF Given
<1>2. \A x \in Requests : Live(x)' => Live(x)
  BY DEF Live
<1>3. ASSUME NEW x \in Requests, x # r
      PROVE  /\ task'[x].reply # "none" => task'[x].drv \in {"thread", "turn"}
             /\ Missed(x)' => Missed(x)
             /\ Over(x)' => Over(x)
  BY <1>1, <1>2, <1>3 DEF Orphans, Awaited, Missed, Over
<1>4. task'[r].reply = "none" /\ ~Missed(r)'
  BY <1>1 DEF Missed
<1>5. Over(r)' => Live(r) /\ ~task[r].late
  BY <1>1, <1>2 DEF Over
<1>. QED BY <1>2, <1>3, <1>4, <1>5 DEF TasksGo

\* A drive that starts, or brings the result of a call.
LEMMA StartsOrphans ==
  ASSUME Given, Orphans, NEW r \in Requests,
         DriveStarts(r) \/ DriveSendsMessage(r) \/ DriveAnswersTool(r)
  PROVE  Orphans'
<1>1. task[r].drv = "start" /\ app.turn[r] = "none"
  BY NoTurnYet DEF DriveStarts, DriveSendsMessage, DriveAnswersTool, Started
<1>2. CASE bridge' = bridge
  <2>1. SessionGoes
    BY <1>2, StaysGoes
  <2>2. CASE DriveStarts(r)
    <3>1. TasksGo
      BY <1>1, <1>2, <2>2, MovesGo, AsksGo DEF DriveStarts
    <3>. QED BY <2>1, <3>1, OrphansHold
  <2>3. CASE DriveSendsMessage(r)
    <3>1. Open(bridge) /\ bridge.operation = r
      BY <1>1, <2>3, DriveFacts DEF DriveSendsMessage
    <3>2. TasksGo
      BY <1>1, <1>2, <2>3, <3>1, AsksGo DEF DriveSendsMessage, StartsTurn
    <3>. QED BY <2>1, <3>2, OrphansHold
  <2>4. CASE DriveAnswersTool(r)
    <3>1. TasksGo
      BY <1>1, <2>4, MovesGo DEF DriveAnswersTool
    <3>. QED BY <2>1, <3>1, OrphansHold
  <2>. QED BY <2>2, <2>3, <2>4
<1>3. CASE DriveAnswersTool(r)
  <2>1. /\ bridge'.session = bridge.session /\ bridge'.operation = bridge.operation
        /\ bridge'.op = bridge.op /\ bridge'.rpc = bridge.rpc
        /\ bridge'.interrupted = bridge.interrupted
        /\ Cur(bridge').turnId = Cur(bridge).turnId
    BY <1>3, AnswersEffect DEF Given
  <2>2. SessionGoes
    BY <2>1, StaysGoes DEF Open
  <2>3. TasksGo
    BY <1>1, <1>3, MovesGo DEF DriveAnswersTool
  <2>. QED BY <2>2, <2>3, OrphansHold
<1>. QED BY <1>2, <1>3 DEF DriveStarts, DriveSendsMessage

\* The thread is there, in time or too late.
LEMMA ThreadOrphans ==
  ASSUME Given, Orphans, NEW r \in Requests, ThreadTooLate(r) \/ ThreadArrives(r)
  PROVE  Orphans'
<1>1. task[r].drv = "thread" /\ app.turn[r] = "none" /\ bridge \in BridgeState
  BY NoTurnYet DEF ThreadTooLate, ThreadArrives, Resolved, Given, IInv, TypeOK
<1>2. CASE ThreadTooLate(r)
  <2>1. /\ bridge'.session = bridge.session /\ bridge'.operation = bridge.operation
        /\ bridge'.op = bridge.op /\ bridge'.rpc = bridge.rpc
        /\ bridge'.interrupted = bridge.interrupted /\ bridge'.sess = bridge.sess
    BY <1>1, <1>2 DEF ThreadTooLate, BridgeState
  <2>2. SessionGoes
    BY <2>1, StaysGoes DEF Open, Cur
  <2>3. TasksGo
    BY <1>1, <1>2, MovesGo DEF ThreadTooLate
  <2>. QED BY <2>2, <2>3, OrphansHold
<1>3. CASE ThreadArrives(r)
  <2> DEFINE s == [Cur(bridge) EXCEPT !.thread = TRUE]
  <2>1. Open(bridge) /\ bridge.operation = r /\ bridge.session # None
    BY <1>1, <1>3, DriveFacts, OpenFacts DEF ThreadArrives, Given
  <2>2. s \in Session /\ s.turnId = Cur(bridge).turnId
    BY <1>1, <2>1, CurType DEF Session
  <2>3. bridge' = [bridge EXCEPT !.sess[bridge.session] = s]
    BY <1>1, <1>3, <2>1, CurType DEF ThreadArrives, Cur, BridgeState
  <2> HIDE DEF s
  <2>4. Works(bridge, bridge') /\ Cur(bridge') = s /\ bridge'.op = bridge.op
    BY <1>1, <2>1, <2>2, <2>3, CurEffect
  <2>5. Open(bridge') /\ bridge'.operation = r
    BY <2>1, <2>4 DEF Works, Open
  <2>6. SessionGoes
    BY <2>1, <2>2, <2>4, <2>5, StaysGoes DEF Works
  <2>7. TasksGo
    BY <1>1, <1>3, <2>4, <2>5, MovesGo, AsksGo DEF ThreadArrives, StartsTurn, Works
  <2>. QED BY <2>6, <2>7, OrphansHold
<1>. QED BY <1>2, <1>3


\* The turn is acknowledged too late: it is interrupted.
LEMMA TurnLateOrphans ==
  ASSUME Given, Orphans, NEW r \in Requests, TurnTooLate(r) PROVE Orphans'
<1>1. /\ task[r].drv = "turn" /\ task[r].reply \in {"ok", "noId"} /\ ~Current(r)
      /\ Moves(r, "done") /\ app' = app /\ bridge \in BridgeState
      /\ IF task[r].reply = "ok" /\ bridge.rpc = "up"
         THEN bridge' = [bridge EXCEPT !.interrupted = @ \cup {r}]
         ELSE bridge' = bridge
  BY DEF TurnTooLate, Resolved, Given, IInv, TypeOK
<1>2. r \in Opened
  BY <1>1, DrivenOpened DEF Given
<1>3. /\ bridge'.session = bridge.session /\ bridge'.operation = bridge.operation
      /\ bridge'.op = bridge.op /\ bridge'.rpc = bridge.rpc /\ bridge'.sess = bridge.sess
      /\ IF task[r].reply = "ok" /\ bridge.rpc = "up"
         THEN bridge'.interrupted = bridge.interrupted \cup {r}
         ELSE bridge'.interrupted = bridge.interrupted
  BY <1>1 DEF BridgeState
<1>4. SessionGoes
  BY <1>1, <1>2, <1>3 DEF SessionGoes, Current, Open, Cur
<1>5. bridge'.rpc = "up" /\ Live(r) => r \in bridge'.interrupted
  <2>1. bridge.rpc = "up" /\ Live(r) => task[r].reply # "noId"
    BY <1>1 DEF Orphans, Reported, Missed
  <2>. QED BY <1>1, <1>3, <2>1
<1>6. TasksGo
  BY <1>1, <1>5, LeavesGo
<1>. QED BY <1>4, <1>6, OrphansHold

\* The turn is acknowledged: its session knows it, unless it is over.
LEMMA TurnOrphans ==
  ASSUME Given, Orphans, NEW r \in Requests, TurnArrives(r) PROVE Orphans'
<1> DEFINE s == [Cur(bridge) EXCEPT !.turnId = r]
<1>1. /\ task[r].drv = "turn" /\ Current(r) /\ Moves(r, "done") /\ app' = app
      /\ bridge \in BridgeState
  BY DEF TurnArrives, Resolved, Given, IInv, TypeOK
<1>2. /\ bridge.session # None /\ task[r].tool = None
  BY <1>1, DrivenOpened, DriveFacts, NoneAssumption
     DEF Current, Given, IInv, CallInv, OpenedFirst, Opened
<1>3. CASE /\ bridge.operation = r /\ Open(bridge) /\ Cur(bridge).turnId = None
           /\ bridge' = [bridge EXCEPT !.sess[bridge.session].turnId = r]
  <2>1. Cur(bridge) \in Session /\ s \in Session /\ s.turnId = r /\ TheTurn = r
    BY <1>1, <1>2, <1>3, CurType, DriveFacts DEF Session, OptRequest
  <2>2. bridge' = [bridge EXCEPT !.sess[bridge.session] = s]
    BY <1>1, <1>2, <1>3, CurType DEF Cur, BridgeState
  <2> HIDE DEF s
  <2>3. Works(bridge, bridge') /\ Cur(bridge') = s /\ bridge'.op = bridge.op
    BY <1>1, <1>2, <2>1, <2>2, CurEffect
  <2>4. SessionGoes
    BY <1>3, <2>1, <2>3 DEF SessionGoes, Works, Open
  <2>5. TasksGo
    BY <1>1, <2>1, <2>3, LeavesGo DEF Works, Current
  <2>. QED BY <2>4, <2>5, OrphansHold
<1>4. CASE /\ ~(bridge.operation = r /\ Open(bridge) /\ Cur(bridge).turnId = None)
           /\ bridge' = bridge
  <2>1. SessionGoes
    BY <1>4, StaysGoes
  <2>2. Live(r) => Cur(bridge).turnId = r
    <3>1. CASE bridge.operation = r /\ Open(bridge)
      <4>1. TheTurn = r
        BY <1>2, <3>1, DriveFacts
      <4>. QED BY <1>2, <1>4, <3>1, <4>1 DEF Given, Shape, Turns
    <3>2. CASE ~(bridge.operation = r /\ Open(bridge))
      BY <1>1, <1>2, <3>2 DEF Orphans, Known, Current
    <3>. QED BY <3>1, <3>2
  <2>3. TasksGo
    BY <1>1, <1>4, <2>2, LeavesGo DEF Current
  <2>. QED BY <2>1, <2>3, OrphansHold
<1>. QED BY <1>3, <1>4 DEF TurnArrives

\* The drive's RPC is refused, and it catches what it was refused for.
LEMMA RefusedOrphans ==
  ASSUME Given, Orphans, NEW r \in Requests, DriveRefused(r) PROVE Orphans'
<1>1. /\ task[r].drv \in {"thread", "turn"} /\ bridge' = bridge /\ app' = app
      /\ task[r].drv = "turn" => task[r].reply \in {"error", "noId"}
      /\ \E step \in {"failed", "done"} :
           Moves(r, step) /\ (task[r].drv = "thread" => step = "failed")
  BY DEF DriveRefused, Resolved
<1>2. SessionGoes
  BY <1>1, StaysGoes
<1>3. CASE task[r].drv = "thread"
  BY <1>1, <1>2, <1>3, NoTurnYet, MovesGo, OrphansHold
<1>4. CASE task[r].drv = "turn"
  <2>1. bridge.rpc = "up" /\ Live(r) => task[r].late
    BY <1>1, <1>4 DEF Orphans, Reported, Missed
  <2>2. TasksGo
    BY <1>1, <2>1, LeavesGo
  <2>. QED BY <1>2, <2>2, OrphansHold
<1>. QED BY <1>1, <1>3, <1>4

\* A drive that failed ends its own operation at most.
LEMMA CatchesOrphans ==
  ASSUME Given, Orphans, NEW r \in Requests, DriveCatches(r) PROVE Orphans'
<1>1. task[r].drv = "failed" /\ Moves(r, "done") /\ app' = app
  BY DEF DriveCatches
<1>2. TasksGo
  BY <1>1, MovesGo
<1>3. SessionGoes
  BY StaysGoes, FailsGoes DEF DriveCatches, Outcomes
<1>. QED BY <1>2, <1>3, OrphansHold

\* Consuming an event ends the segment only when its turn is over.
LEMMA ConsumeGoes ==
  ASSUME Given, NEW e \in Events, NEW ok, bridge' = Consume(bridge, e, ok),
         e.kind = "completed" /\ ~Ignores(bridge, e) =>
           app'.turn[TheTurn] = "ended"
  PROVE  SessionGoes
<1> DEFINE d == Consume(bridge, e, ok)
<1>1. bridge \in BridgeState
  BY DEF Given, IInv, TypeOK
<1>2. CASE d = bridge
  BY <1>2, StaysGoes
<1>3. CASE Works(bridge, d) /\ d.sess = bridge.sess /\ d.op = bridge.op
  BY <1>3, StaysGoes DEF Works, Open, Cur
<1>4. CASE /\ e.kind = "completed" /\ ~Ignores(bridge, e) /\ Works(bridge, d)
  BY <1>4 DEF SessionGoes, Works
<1> HIDE DEF d
<1>5. \/ d = bridge
      \/ Works(bridge, d) /\ d.sess = bridge.sess /\ d.op = bridge.op
      \/ e.kind = "completed" /\ ~Ignores(bridge, e) /\ Works(bridge, d)
  BY <1>1, ConsumeEffect DEF d
<1>. QED BY <1>2, <1>3, <1>4, <1>5 DEF d

\* The replay and its end.
LEMMA ReplaysOrphans ==
  ASSUME Given, Orphans, NEW r \in Requests, DriveReplays(r) PROVE Orphans'
<1> DEFINE e == Head(loop)
<1>1. /\ task[r].drv = "replay" /\ loop \in Seq(Events) /\ loop # <<>>
      /\ app' = app /\ app.turn[r] = "none"
  BY NoTurnYet DEF DriveReplays, Given, IInv, TypeOK
<1>2. e \in Events /\ e \in Range(loop)
  BY <1>1, TailRange
<1>3. EventOK(e)
  BY <1>1, <1>2, ReplayFacts DEF Given, Shape, Turns, Coming
<1>4. e.kind = "completed" => app.turn[TheTurn] = "ended"
  BY <1>3 DEF EventOK
<1> HIDE DEF e
<1>5. SessionGoes
  BY <1>1, <1>2, <1>4, ConsumeGoes DEF DriveReplays, e
<1>6. TasksGo
  BY <1>1, MovesGo, EvenGo DEF DriveReplays, Live
<1>. QED BY <1>5, <1>6, OrphansHold

\* Offering a queued call needs the turn known, and the session knows it.
LEMMA FlushesOrphans ==
  ASSUME Given, Orphans, NEW r \in Requests, DriveFlushes(r) PROVE Orphans'
<1> DEFINE s == Cur(bridge)
<1>1. /\ task[r].drv = "replay" /\ app.turn[r] = "none" /\ app' = app
      /\ \E step : step # "turn" /\ Moves(r, step)
      /\ bridge \in BridgeState
  BY NoTurnYet DEF DriveFlushes, Given, IInv, TypeOK
<1>2. bridge.operation = r /\ bridge.session # None /\ s \in Session
  BY <1>1, ReplayFacts, CurType DEF Given
<1>3. TasksGo
  BY <1>1, MovesGo
<1>4. CASE bridge' = bridge
  BY <1>3, <1>4, StaysGoes, OrphansHold
<1>5. CASE CanFlush(bridge) /\ (bridge' = Take(bridge) \/ bridge' = Offer(bridge))
  <2> DEFINE p == s.pending
             u == Take(bridge)
             v == Offer(bridge)
  <2>1. /\ Works(bridge, u) /\ Open(u)
        /\ Cur(u) = [s EXCEPT !.waiting = Head(p), !.pending = Tail(p)]
    BY <1>1, <1>5, TakeEffect
  <2>2. /\ Works(bridge, v)
        /\ Cur(v) = [s EXCEPT !.waiting = Head(p), !.pending = Tail(p),
                              !.last = bridge.operation]
    BY <1>1, <1>5, OfferEffect
  <2> HIDE DEF u, v
  <2>3. Cur(u).turnId = s.turnId /\ Cur(v).turnId = s.turnId
    BY <1>2, <2>1, <2>2 DEF Session
  <2>4. Live(TheTurn) => s.turnId = TheTurn
    <3>1. Open(bridge)
      BY <1>5 DEF CanFlush
    <3>2. TheTurn \in Opened /\ task[TheTurn].session = bridge.session
      BY <1>2, <3>1, OpenFacts DEF TheTurn, Given, Shape, TasksOK, TaskOK
    <3>3. Live(TheTurn) => TheTurn # r
      BY <1>1 DEF Live
    <3>. QED BY <1>2, <3>2, <3>3 DEF Orphans, Known, Opened
  <2>5. CASE bridge' = u
    BY <1>2, <2>1, <2>3, <2>5, <1>3, StaysGoes, OrphansHold DEF Works
  <2>6. CASE bridge' = v
    <3>1. SessionGoes
      BY <2>2, <2>3, <2>4, <2>6 DEF SessionGoes, Works
    <3>. QED BY <1>3, <3>1, OrphansHold
  <2>. QED BY <1>5, <2>5, <2>6 DEF u, v
<1>. QED BY <1>4, <1>5 DEF DriveFlushes, Flush


\* A refused turn is over.
LEMMA ReplyOrphans ==
  ASSUME Given, Orphans, NEW r \in Requests, NEW result, RpcReply(r, result)
  PROVE  Orphans'
<1> DEFINE v == [task[r] EXCEPT !.reply = result]
<1>1. /\ task' = [task EXCEPT ![r] = v] /\ bridge' = bridge
      /\ task \in [Requests -> Task] /\ task[r] \in Task /\ app \in AppType
      /\ task[r].drv \in {"thread", "turn"}
  BY DEF RpcReply, Given, IInv, TypeOK, AppType, Orphans, Awaited
<1>2. v.drv = task[r].drv /\ v.reply = result /\ v.late = task[r].late
  BY <1>1 DEF Task
<1> HIDE DEF v
<1>3. /\ task'[r].drv = task[r].drv /\ task'[r].reply = result
      /\ \A x \in Requests : x # r => task'[x] = task[x]
  BY <1>1, <1>2
<1>4. /\ \A x \in Requests : Live(x)' => Live(x)
      /\ task[r].drv = "turn" /\ result # "ok" => ~Live(r)'
  BY <1>1 DEF RpcReply, AppType, Live
<1>5. ASSUME NEW x \in Requests, x # r
      PROVE  /\ task'[x].reply # "none" => task'[x].drv \in {"thread", "turn"}
             /\ Missed(x)' => Missed(x)
             /\ Over(x)' => Over(x)
  BY <1>3, <1>4, <1>5 DEF Orphans, Awaited, Missed, Over
<1>6. task'[r].drv \in {"thread", "turn"} /\ ~Missed(r)' /\ ~Over(r)'
  BY <1>1, <1>3, <1>4 DEF Missed, Over
<1>7. TasksGo
  BY <1>4, <1>5, <1>6 DEF TasksGo
<1>8. SessionGoes
  BY <1>1, StaysGoes
<1>. QED BY <1>7, <1>8, OrphansHold

\* A turn that begins may be made known to its session.
LEMMA BeginsOrphans ==
  ASSUME Given, Orphans, NEW t \in Requests, NEW announced, TurnBegins(t, announced)
  PROVE  Orphans'
<1> DEFINE s == [Cur(bridge) EXCEPT !.turnId = t]
<1>1. /\ Line /\ task' = task /\ app \in AppType /\ Live(t)
      /\ app' = [app EXCEPT !.turn[t] = "running"] /\ bridge \in BridgeState
  BY DEF TurnBegins, Given, IInv, TypeOK, AppType, Live
<1>2. \A x \in Requests : Live(x)' => Live(x)
  BY <1>1 DEF Live, AppType
<1>3. TasksGo
  BY <1>1, <1>2, EvenGo
<1>4. CASE bridge' = bridge
  BY <1>3, <1>4, StaysGoes, OrphansHold
<1>5. CASE Ours(t) /\ bridge' = [bridge EXCEPT !.sess[bridge.session].turnId = t]
  <2>1. /\ bridge.session # None /\ Cur(bridge) \in Session /\ t = TheTurn
    BY <1>1, <1>5, LineFacts
  <2>2. s \in Session /\ s.turnId = t
    BY <2>1 DEF Session, OptRequest
  <2>3. bridge' = [bridge EXCEPT !.sess[bridge.session] = s]
    BY <1>5 DEF Cur
  <2> HIDE DEF s
  <2>4. Works(bridge, bridge') /\ Cur(bridge') = s /\ bridge'.op = bridge.op
    BY <1>1, <2>1, <2>2, <2>3, CurEffect
  <2>5. SessionGoes
    BY <2>1, <2>2, <2>4 DEF SessionGoes, Works, Open
  <2>. QED BY <1>3, <2>5, OrphansHold
<1>. QED BY <1>4, <1>5 DEF TurnBegins

\* An event of the session's turn, which the end of the turn makes over.
LEMMA DeliverGoes ==
  ASSUME Given, Line, NEW t \in Requests, Ours(t), app.turn[t] = "running",
         NEW e \in Events, NEW ok, bridge' = Deliver(e, ok), e.turn = t,
         e.kind = "completed" => app'.turn[t] = "ended"
  PROVE  SessionGoes
<1> DEFINE s == Cur(bridge)
           d == Deliver(e, ok)
<1>1. /\ bridge \in BridgeState /\ bridge.session # None /\ t = TheTurn
      /\ s \in Session /\ s.turnId \in {None, t}
  BY LineFacts DEF Live
<1>2. ASSUME NEW u \in {s.turnId, None}, Fails(bridge, d, u),
             u # s.turnId => e.kind = "completed"
      PROVE  SessionGoes
  <2>1. Dropped(bridge, bridge', u) /\ u \in {None, TheTurn}
    BY <1>1, <1>2 DEF Fails
  <2>2. app'.turn[TheTurn] # "ended" /\ s.turnId = TheTurn => u = TheTurn
    BY <1>1, <1>2
  <2>. QED BY <2>1, <2>2, DropsGoes
<1>3. CASE /\ Works(bridge, d) /\ d.op = bridge.op
           /\ Cur(d) = [s EXCEPT !.buffered = Append(@, e)]
  <2>1. Cur(d).turnId = s.turnId
    BY <1>1, <1>3 DEF Session
  <2>. QED BY <1>3, <2>1, StaysGoes DEF Works, Open
<1>4. CASE d = Consume(bridge, e, ok)
  BY <1>1, <1>4, ConsumeGoes
<1> HIDE DEF d
<1>5. \/ \E u \in {s.turnId, None} :
           Fails(bridge, d, u) /\ (u # s.turnId => e.kind = "completed")
      \/ /\ Works(bridge, d) /\ d.op = bridge.op
         /\ Cur(d) = [s EXCEPT !.buffered = Append(@, e)]
      \/ d = Consume(bridge, e, ok)
  BY <1>1, DeliverEffect DEF d
<1>. QED BY <1>2, <1>3, <1>4, <1>5

\* The events of a turn, its end, and the notice that it failed.
LEMMA EventOrphans ==
  ASSUME Given, Orphans, NEW t \in Requests,
         \/ \E kind \in {"text", "bad"} : ItemEvent(t, kind)
         \/ \E kind \in {"completed", "failed"} : TurnEnds(t, kind)
         \/ \E blocked : FatalNotice(t, blocked)
  PROVE  Orphans'
<1>1. /\ Line /\ task' = task /\ app.turn[t] = "running" /\ app \in AppType
      /\ \A x \in Requests : Live(x)' => Live(x)
  BY DEF ItemEvent, TurnEnds, FatalNotice, Given, IInv, TypeOK, AppType, Live
<1>2. TasksGo
  BY <1>1, EvenGo
<1>3. CASE bridge' = bridge \/ bridge' = Fail(bridge, "failed")
  BY <1>2, <1>3, StaysGoes, FailsGoes, OrphansHold DEF Outcomes
<1>4. ASSUME NEW kind \in {"text", "bad"}, ItemEvent(t, kind) PROVE Orphans'
  <2> DEFINE e == [kind |-> kind, turn |-> t, n |-> app.items[t] + 1]
  <2>1. e \in Events /\ e.turn = t /\ e.kind # "completed"
    BY DEF Events, Given, IInv, TypeOK
  <2>2. \/ bridge' = bridge
        \/ Ours(t) /\ \E ok : bridge' = Deliver(e, ok)
    BY <1>4 DEF ItemEvent
  <2> HIDE DEF e
  <2>. QED BY <1>1, <1>2, <1>3, <2>1, <2>2, DeliverGoes, OrphansHold
<1>5. ASSUME NEW kind \in {"completed", "failed"}, TurnEnds(t, kind) PROVE Orphans'
  <2> DEFINE e == [kind |-> kind, turn |-> t, n |-> 0]
  <2>1. e \in Events /\ e.turn = t /\ app'.turn[t] = "ended"
    BY <1>1, <1>5 DEF Events, TurnEnds, AppType
  <2>2. \/ bridge' = bridge
        \/ Ours(t) /\ \E ok : bridge' = Deliver(e, ok)
    BY <1>5 DEF TurnEnds
  <2> HIDE DEF e
  <2>. QED BY <1>1, <1>2, <1>3, <2>1, <2>2, DeliverGoes, OrphansHold
<1>. QED BY <1>3, <1>4, <1>5 DEF FatalNotice

\* A call makes its turn known, or fails the session with its turn.
LEMMA RequestOrphans ==
  ASSUME Given, Orphans, Line, NEW t \in Requests, app.turn[t] = "running",
         NEW c \in Calls, NEW good, NEW ok, bridge' = ServerRequest(c, t, good, ok),
         task' = task, app'.turn = app.turn
  PROVE  Orphans'
<1>1. bridge \in BridgeState /\ Live(t) /\ \A x \in Requests : Live(x)' => Live(x)
  BY DEF Given, IInv, TypeOK, Live
<1>2. TasksGo
  BY <1>1, EvenGo
<1> DEFINE b == Refuse(c)
<1>3. /\ b \in BridgeState /\ b.rpc = bridge.rpc /\ b.session = bridge.session
      /\ b.sess = bridge.sess /\ b.operation = bridge.operation /\ b.op = bridge.op
      /\ b.interrupted = bridge.interrupted
  BY <1>1, RefuseEffect
<1> HIDE DEF b
<1>4. CASE bridge' = b
  BY <1>2, <1>3, <1>4, StaysGoes, OrphansHold DEF Open, Cur
<1>5. CASE bridge' = Fail(bridge, "failed")
  BY <1>2, <1>5, FailsGoes, OrphansHold DEF Outcomes
<1>6. CASE bridge' = Fail(b, "failed")
  <2>1. Dropped(b, bridge', Cur(b).turnId) /\ Cur(b) = Cur(bridge)
    BY <1>3, <1>6, FailEffect DEF Outcomes, Fails, Cur
  <2>2. CASE bridge.session = None
    BY <1>2, <1>3, <2>1, <2>2, OrphansHold DEF SessionGoes, Dropped
  <2>3. CASE bridge.session # None
    <3>1. Cur(bridge).turnId \in {None, TheTurn}
      BY <2>3 DEF Given, Shape, Turns
    <3>. QED BY <1>2, <1>3, <2>1, <3>1, DropsGoes, OrphansHold
  <2>. QED BY <2>2, <2>3
<1>7. CASE Ours(t) /\ bridge' = Flush(Queued(c, t), ok)
  <2> DEFINE s == Cur(bridge)
             n == Cur(bridge')
  <2>1. /\ bridge.session # None /\ t = TheTurn
        /\ IF Open(bridge) THEN s.waiting = None /\ s.pending = <<>>
           ELSE s.waiting # None
    BY <1>1, <1>7, LineFacts
  <2>2. CallWaits(c, t) \/ CallOffered(c, t) \/ \E d : CallFails(c, t, d)
    BY <1>1, <1>7, <2>1, QueueCases
  <2>3. CASE CallWaits(c, t) \/ CallOffered(c, t)
    <3>1. Works(bridge, bridge') /\ n.turnId = t
      BY <2>3 DEF CallWaits, CallOffered
    <3>2. SessionGoes
      BY <2>1, <3>1 DEF SessionGoes, Works
    <3>. QED BY <1>2, <3>2, OrphansHold
  <2>4. ASSUME NEW d, CallFails(c, t, d) PROVE Orphans'
    <3>1. /\ Works(bridge, d) /\ Dropped(d, bridge', t) /\ Cur(d).thread = s.thread
      BY <2>4 DEF CallFails, Fails
    <3>2. SessionGoes
      BY <2>1, <3>1, DropsGoes DEF Works
    <3>. QED BY <1>2, <3>2, OrphansHold
  <2>. QED BY <2>2, <2>3, <2>4
<1>. QED BY <1>4, <1>5, <1>6, <1>7 DEF ServerRequest, Queued, b

\* A call of the app-server, as RequestOrphans has it.
LEMMA CallOrphans ==
  ASSUME Given, Orphans, NEW t \in Requests, NEW c \in Calls, NEW wellFormed,
         ToolCall(c, t, wellFormed)
  PROVE  Orphans'
<1>1. /\ Line /\ app.turn[t] = "running" /\ task' = task /\ app'.turn = app.turn
      /\ \E ok : bridge' = ServerRequest(c, t, wellFormed, ok)
  BY DEF ToolCall, Given, IInv, TypeOK
<1>. QED BY <1>1, RequestOrphans

\* A repeated call likewise.
LEMMA RepeatOrphans ==
  ASSUME Given, Orphans, NEW c \in Calls, ToolCallRepeated(c) PROVE Orphans'
<1>1. /\ Line /\ app.asked[c] \in Requests /\ app.turn[app.asked[c]] = "running"
      /\ task' = task /\ app' = app
      /\ \E ok : bridge' = ServerRequest(c, app.asked[c], TRUE, ok)
  BY DEF ToolCallRepeated, Given, IInv, TypeOK, OptRequest
<1>. QED BY <1>1, RequestOrphans

\* Every step keeps the turns accounted for.
LEMMA OrphansInductive ==
  ASSUME Given, Accounts, Orphans, [Next]_vars PROVE Orphans'
<1>1. CASE UNCHANGED vars
  <2>1. TasksGo
    BY <1>1, EvenGo DEF vars, Live
  <2>2. SessionGoes
    BY <1>1, StaysGoes DEF vars
  <2>. QED BY <2>1, <2>2, OrphansHold
<1>2. ASSUME NEW r \in Requests, RespondStep(r) PROVE Orphans'
  BY <1>2, RespondOrphans, ContinueOrphans, TimeoutOrphans
     DEF RespondStep, ReleaseAnswered, ReleaseTimesOut
<1>3. ASSUME NEW r \in Requests, Continues(r) PROVE Orphans'
  BY <1>3, RespondOrphans, OpensOrphans, StartsOrphans, ThreadOrphans,
     TurnLateOrphans, TurnOrphans, RefusedOrphans, CatchesOrphans, ReplaysOrphans,
     FlushesOrphans DEF Continues
<1>4. ASSUME NEW t \in Requests, AppServerStep(t) PROVE Orphans'
  BY <1>4, ReplyOrphans, BeginsOrphans, EventOrphans, CallOrphans DEF AppServerStep
<1>5. ASSUME NEW c \in Calls, ToolCallRepeated(c) PROVE Orphans'
  BY <1>5, RepeatOrphans
<1>6. CASE \/ SessionExpires \/ RpcStarted \/ PipeBreaks \/ RpcExits
           \/ CloseBegins \/ CloseEnds
  BY <1>6, ConnectionOrphans
<1>. QED BY <1>1, <1>2, <1>3, <1>4, <1>5, <1>6 DEF Next

\* Orphans holds at first: no turn was sent.
LEMMA InitialOrphans == Init => Orphans
<1> SUFFICES ASSUME Init PROVE Orphans
  OBVIOUS
<1>1. /\ bridge.session = None /\ bridge.interrupted = {}
      /\ \A t \in Requests : /\ app.turn[t] = "none" /\ task[t].drv = "none"
                             /\ task[t].reply = "none"
  BY DEF Init
<1>. QED BY <1>1 DEF Orphans, Known, Spared, Reported, Awaited, Missed, Over, Live

\* Every turn that is not over is known to its session or to its drive, or has
\* been interrupted, in every behaviour.
THEOREM TurnsWatched == Spec => [](IInv /\ Flight /\ Shape /\ Accounts /\ Orphans)
<1>1. Init => IInv /\ Flight /\ Shape /\ Accounts /\ Orphans
  BY Initially, InitialFlight, InitialShape, InitialAccounts, InitialOrphans
<1>2. IInv /\ Flight /\ Shape /\ Accounts /\ Orphans /\ [Next]_vars
        => (IInv /\ Flight /\ Shape /\ Accounts /\ Orphans)'
  BY Inductive, FlightInductive, ShapeInductive, AccountsInductive, OrphansInductive
<1>. QED BY <1>1, <1>2, PTL DEF Spec

\* A turn that a finished drive left behind has been interrupted, unless its
\* turn/start timed out, and what a session still uses is neither interrupted
\* nor unsubscribed (lines 95-97, 114-117, 264-267).
THEOREM NoTurnLeftBehind == Spec => []NoOrphanTurn
<1>1. IInv /\ Flight /\ Shape /\ Accounts /\ Orphans => NoOrphanTurn
  <2> SUFFICES ASSUME IInv, Flight, Orphans PROVE NoOrphanTurn
    OBVIOUS
  <2>1. ASSUME NEW t \in Requests, task[t].drv = "done", app.turn[t] = "running",
               ~task[t].late, task[t].session # bridge.session, bridge.rpc = "up"
        PROVE  t \in bridge.interrupted
    BY <2>1 DEF Orphans, Reported, Over, Live
  <2>2. bridge.session \notin bridge.unsubscribed
    <3>1. bridge.unsubscribed \subseteq Requests
      BY DEF IInv, TypeOK, BridgeState
    <3>. QED BY <3>1 DEF Flight, Fresh
  <2>3. bridge.session # None =>
          \A t \in bridge.interrupted : task[t].session # bridge.session
    BY DEF Orphans, Spared
  <2>. QED BY <2>1, <2>2, <2>3 DEF NoOrphanTurn
<1>. QED BY <1>1, TurnsWatched, PTL

-----------------------------------------------------------------------------
(* What the clients are shown of a turn *)

\* The kinds of event that end a turn.
Ends == {"completed", "failed"}

\* The operation in progress fails as soon as its drive goes on.
Broken == Open(bridge) /\ task[bridge.operation].drv = "failed"

\* The events that the session has still to show, oldest first.
ToGo == IF loop # <<>> THEN loop ELSE Cur(bridge).buffered

\* The events q are those of a turn from its k-th on, which has had n, and what
\* ends the turn comes last.
Follows(q, k, n) ==
    /\ \A i \in 1 .. Len(q) :
         IF q[i].kind \in Ends THEN i = Len(q) /\ q[i].n = 0 ELSE q[i].n = k + i
    /\ n = k + (IF q # <<>> /\ q[Len(q)].kind \in Ends THEN Len(q) - 1 ELSE Len(q))

\* What was shown of a turn is the beginning of it, shown by its responses.
Told ==
    \A t \in Requests :
      /\ t \notin Opened => bridge.heard[t] = <<>> /\ app.items[t] = 0
      /\ \A i \in 1 .. Len(bridge.heard[t]) :
           LET h == bridge.heard[t][i]
           IN h.n = i /\ h.by \in Opened /\ task[h.by].turn = t

\* Of the session's turn the rest is still to be shown, of its other turns
\* nothing.
Coherent ==
    bridge.session # None /\ ~Broken =>
      /\ loop # <<>> => Open(bridge)
      /\ \A t \in Opened : task[t].session = bridge.session /\ t # TheTurn =>
           app.items[t] = Len(bridge.heard[t])
      /\ Follows(ToGo, Len(bridge.heard[TheTurn]), app.items[TheTurn])

Stream == Told /\ Coherent

\* Nothing follows: everything was shown.
LEMMA FollowsNone ==
  ASSUME NEW k \in Nat, NEW n \in Nat
  PROVE  Follows(<<>>, k, n) <=> n = k
BY DEF Follows

\* One more event of a turn that has not ended.
LEMMA FollowsMore ==
  ASSUME NEW q \in Seq(Events), NEW k \in Nat, NEW n \in Nat, Follows(q, k, n),
         \A i \in 1 .. Len(q) : q[i].kind \notin Ends,
         NEW e \in Events,
         IF e.kind \in Ends THEN e.n = 0 ELSE e.n = n + 1
  PROVE  Follows(Append(q, e), k, IF e.kind \in Ends THEN n ELSE n + 1)
<1> DEFINE p == Append(q, e)
<1>1. /\ Len(q) \in Nat /\ p \in Seq(Events) /\ Len(p) = Len(q) + 1
      /\ p[Len(q) + 1] = e /\ p # <<>>
      /\ \A i \in 1 .. Len(q) : p[i] = q[i]
  OBVIOUS
<1> HIDE DEF p
<1>2. n = k + Len(q)
  <2>1. CASE q = <<>>
    BY <2>1 DEF Follows
  <2>2. CASE q # <<>>
    <3>1. Len(q) \in 1 .. Len(q)
      BY <2>2
    <3>. QED BY <3>1 DEF Follows
  <2>. QED BY <2>1, <2>2
<1>3. \A i \in 1 .. Len(p) : i \in 1 .. Len(q) \/ i = Len(q) + 1
  BY <1>1
<1>4. \A i \in 1 .. Len(q) : q[i].n = k + i
  BY DEF Follows
<1>. QED BY <1>1, <1>2, <1>3, <1>4 DEF Follows, p

\* A sequence without elements.
LEMMA NoElements ==
  ASSUME NEW S, NEW q \in Seq(S) PROVE Len(q) = 0 <=> q = <<>>
<1>1. Len(q) = 0 => q = <<>>
  OBVIOUS
<1>2. q = <<>> => Len(q) = 0
  OBVIOUS
<1>. QED BY <1>1, <1>2

\* The first of the events, and the rest of them.
LEMMA FollowsHead ==
  ASSUME NEW q \in Seq(Events), q # <<>>, NEW k \in Nat, NEW n \in Nat, Follows(q, k, n)
  PROVE  IF Head(q).kind \in Ends THEN Tail(q) = <<>> /\ n = k
         ELSE Head(q).n = k + 1 /\ Follows(Tail(q), k + 1, n)
<1> DEFINE p == Tail(q)
           m == Len(q)
<1>1. /\ m \in Nat \ {0} /\ Head(q) = q[1]
      /\ p \in Seq(Events) /\ Len(p) = m - 1
      /\ \A i \in 1 .. Len(p) : p[i] = q[i + 1]
  OBVIOUS
<1>0. Len(p) = 0 <=> p = <<>>
  BY <1>1, NoElements
<1>2. \A i \in 1 .. m :
        IF q[i].kind \in Ends THEN i = m /\ q[i].n = 0 ELSE q[i].n = k + i
  BY DEF Follows
<1>3. n = k + (IF q[m].kind \in Ends THEN m - 1 ELSE m)
  BY DEF Follows
<1> HIDE DEF p, m
<1>4. CASE Head(q).kind \in Ends
  <2>1. m = 1
    BY <1>1, <1>2, <1>4
  <2>. QED BY <1>0, <1>1, <1>3, <1>4, <2>1 DEF p
<1>5. CASE Head(q).kind \notin Ends
  <2>1. Head(q).n = k + 1
    BY <1>1, <1>2, <1>5
  <2>2. ASSUME NEW i \in 1 .. Len(p)
        PROVE  IF p[i].kind \in Ends THEN i = Len(p) /\ p[i].n = 0
               ELSE p[i].n = (k + 1) + i
    <3>1. i + 1 \in 1 .. m /\ p[i] = q[i + 1] /\ i \in Nat
      BY <1>1
    <3>2. IF p[i].kind \in Ends THEN i + 1 = m /\ p[i].n = 0 ELSE p[i].n = k + (i + 1)
      BY <1>2, <3>1
    <3>. QED BY <1>1, <3>1, <3>2
  <2>3. n = (k + 1) + (IF p # <<>> /\ p[Len(p)].kind \in Ends THEN Len(p) - 1 ELSE Len(p))
    <3>1. CASE p = <<>>
      BY <1>0, <1>1, <1>3, <1>5, <3>1
    <3>2. CASE p # <<>>
      <4>1. Len(p) \in 1 .. Len(p) /\ Len(p) + 1 = m
        BY <1>0, <1>1, <3>2
      <4>2. p[Len(p)] = q[m]
        BY <1>1, <4>1
      <4>. QED BY <1>1, <1>3, <3>2, <4>1, <4>2
    <3>. QED BY <3>1, <3>2
  <2>4. Follows(p, k + 1, n)
    BY <2>2, <2>3 DEF Follows
  <2>. QED BY <1>5, <2>1, <2>4 DEF p
<1>. QED BY <1>4, <1>5

\* What was shown stays as it was.
LEMMA ToldSame ==
  ASSUME Given, Told, bridge'.heard = bridge.heard,
         \A t \in Requests \ Opened : app'.items[t] = app.items[t]
  PROVE  Told'
<1>1. \A r \in Opened : r \in Opened' /\ task'[r].turn = task[r].turn
  BY DEF Given, Kept, Opened
<1>2. \A t \in Requests : t \notin Opened' => t \notin Opened
  BY <1>1
<1>. QED BY <1>1, <1>2 DEF Told

\* What most steps leave as it was, of what was shown and of what is to be.
SameStream ==
    /\ bridge'.heard = bridge.heard /\ app'.items = app.items
    /\ bridge'.session # None =>
         /\ bridge'.session = bridge.session /\ loop' = loop
         /\ Cur(bridge').buffered = Cur(bridge).buffered
         /\ \/ Open(bridge) /\ Open(bridge') /\ bridge'.operation = bridge.operation
            \/ ~Open(bridge) /\ ~Open(bridge') /\ Cur(bridge').last = Cur(bridge).last
            \/ /\ Open(bridge) /\ ~Open(bridge') /\ loop = <<>>
               /\ Cur(bridge').last = bridge.operation
         /\ Broken => Broken'

\* Such a step keeps Stream.
LEMMA SameHolds ==
  ASSUME Given, Stream, SameStream PROVE Stream'
<1>1. Told'
  BY ToldSame DEF Stream, SameStream
<1>2. CASE bridge'.session = None
  BY <1>1, <1>2 DEF Stream, Coherent
<1>3. CASE bridge'.session # None
  <2>1. /\ bridge'.session = bridge.session /\ bridge.session # None
        /\ bridge'.heard = bridge.heard /\ app'.items = app.items /\ loop' = loop
        /\ Open(bridge)' = Open(bridge') /\ Cur(bridge)' = Cur(bridge')
        /\ Cur(bridge').buffered = Cur(bridge).buffered
        /\ Broken => Broken'
    BY <1>3 DEF SameStream, Open, Cur
  <2>2. TheTurn' = TheTurn /\ TheTurn \in Requests
    BY <1>3, <2>1, TheTurnStays DEF SameStream
  <2>3. loop # <<>> => (Open(bridge') <=> Open(bridge))
    BY <1>3 DEF SameStream
  <2>4. ToGo' = ToGo
    BY <2>1 DEF ToGo
  <2>5. ASSUME ~Broken', NEW t \in Opened', task'[t].session = bridge'.session, t # TheTurn'
        PROVE  app'.items[t] = Len(bridge'.heard[t])
    <3>1. CASE t \in Opened
      <4>1. task'[t].session = task[t].session
        BY <3>1 DEF Given, Kept
      <4>. QED BY <2>1, <2>2, <2>5, <3>1, <4>1 DEF Stream, Coherent
    <3>2. CASE t \notin Opened
      <4>1. t \in Requests
        BY <2>5 DEF Opened
      <4>. QED BY <2>1, <3>2, <4>1 DEF Stream, Told
    <3>. QED BY <3>1, <3>2
  <2>6. ASSUME ~Broken'
        PROVE  /\ loop' # <<>> => Open(bridge)'
               /\ Follows(ToGo, Len(bridge.heard[TheTurn]), app.items[TheTurn])
    BY <2>1, <2>3, <2>6 DEF Stream, Coherent
  <2>7. Follows(ToGo, Len(bridge.heard[TheTurn]), app.items[TheTurn])' <=>
          Follows(ToGo, Len(bridge.heard[TheTurn]), app.items[TheTurn])
    BY <2>1, <2>2, <2>4 DEF Follows
  <2>8. Coherent'
    BY <2>5, <2>6, <2>7 DEF Coherent
  <2>. QED BY <1>1, <2>8 DEF Stream
<1>. QED BY <1>2, <1>3

\* A step after which there is no session.
LEMMA GoneStream ==
  ASSUME Given, Stream, bridge'.session = None,
         bridge'.heard = bridge.heard, app'.items = app.items
  PROVE  Stream'
BY SameHolds DEF SameStream

\* A step that leaves the session at its place, and its drive unless it fails.
LEMMA PlaceStream ==
  ASSUME Given, Stream, Place, SessionStill, loop' = loop,
         bridge'.heard = bridge.heard, app'.items = app.items,
         \A r \in Requests : task[r].drv = "failed" =>
           task'[r].drv = "failed" \/ ~(Open(bridge) /\ bridge.operation = r)
  PROVE  Stream'
<1>1. Open(bridge') <=> Open(bridge)
  BY DEF Place, Open
<1>2. Broken => Broken'
  <2>1. Open(bridge) => bridge.operation \in Requests
    BY OpenFacts DEF Given
  <2>2. Open(bridge)' = Open(bridge')
    BY DEF Open
  <2>. QED BY <1>1, <2>1, <2>2 DEF Broken, Place
<1>. QED BY <1>1, <1>2, SameHolds DEF SameStream, Place, SessionStill

\* A step that at most drops the session, by fail() or releaseSession.
LEMMA FailStream ==
  ASSUME Given, Stream, NEW b \in BridgeState, b.heard = bridge.heard,
         NEW o \in Outcomes \ {"none"},
         bridge' = Fail(b, o) \/ bridge' = Release(b), app'.items = app.items
  PROVE  Stream'
<1>1. bridge'.session = None /\ bridge'.heard = bridge.heard
  BY FailEffect, ReleaseEffect DEF Fails, Dropped
<1>. QED BY <1>1, GoneStream

\* respond(), its timers and the releases.
LEMMA RespondStream ==
  ASSUME Given, Stream, NEW r \in Requests,
         \/ RespondRejected(r) \/ RespondNew(r) \/ RequestTimeout(r) \/ RpcTimeout(r)
         \/ ClientGone(r) \/ ReleaseNext(r) \/ RespondReturns(r)
  PROVE  Stream'
<1>0. bridge \in BridgeState /\ task \in [Requests -> Task] /\ task[r] \in Task
  BY DEF Given, IInv, TypeOK
<1>1. app' = app /\ loop' = loop
  BY DEF RespondRejected, RespondNew, RequestTimeout, RpcTimeout, ClientGone,
         ReleaseNext, RespondReturns
<1>2. \A q \in Requests : task'[q].drv = task[q].drv
  <2> DEFINE u == [task[r] EXCEPT !.pc = "releasing", !.turn = r, !.session = bridge.session]
             v == [task[r] EXCEPT !.gone = TRUE]
             w == [task[r] EXCEPT !.pc = "done", !.gone = FALSE]
             late == task[r].drv = "turn"
             x == [task[r] EXCEPT !.reply = "error", !.late = late]
  <2>1. /\ u.drv = task[r].drv /\ v.drv = task[r].drv
        /\ w.drv = task[r].drv /\ x.drv = task[r].drv
    BY <1>0 DEF Task
  <2>2. \/ task' = task
        \/ \E y \in {u, v, w, x} : task' = [task EXCEPT ![r] = y]
    BY DEF RespondRejected, RespondNew, RequestTimeout, RpcTimeout, ClientGone,
           ReleaseNext, RespondReturns
  <2> HIDE DEF u, v, w, x
  <2>. QED BY <1>0, <2>1, <2>2
<1>3. CASE bridge' = bridge
  BY <1>1, <1>2, <1>3, PlaceStream DEF Place, SessionStill
<1>4. CASE \E o \in Outcomes \ {"none"} : bridge' = Fail(bridge, o)
  BY <1>0, <1>1, <1>4, FailStream
<1>5. CASE RespondNew(r)
  <2> DEFINE b == [bridge EXCEPT !.busy = TRUE]
  <2>1. b \in BridgeState /\ b.heard = bridge.heard
    BY <1>0 DEF BridgeState
  <2>2. bridge' = Release(b)
    BY <1>5 DEF RespondNew
  <2> HIDE DEF b
  <2>. QED BY <1>1, <2>1, <2>2, FailStream DEF Outcomes
<1>6. CASE ReleaseNext(r)
  <2>1. /\ bridge'.session = bridge.session /\ bridge'.sess = bridge.sess
        /\ bridge'.operation = bridge.operation /\ bridge'.op = bridge.op
        /\ bridge'.heard = bridge.heard
    BY <1>0, <1>6 DEF ReleaseNext, BridgeState
  <2>2. Place /\ SessionStill
    BY <2>1 DEF Place, SessionStill, Cur
  <2>. QED BY <1>1, <1>2, <2>1, <2>2, PlaceStream
<1>7. CASE RespondReturns(r)
  <2>1. /\ bridge'.session = bridge.session /\ bridge'.sess = bridge.sess
        /\ bridge'.operation = None /\ bridge'.heard = bridge.heard
    BY <1>0, <1>7 DEF RespondReturns, BridgeState
  <2>2. ~Open(bridge) /\ ~Open(bridge') /\ Cur(bridge') = Cur(bridge)
    BY <1>7, <2>1 DEF RespondReturns, Given, Flight, OneFlight, Open, Cur
  <2>. QED BY <1>1, <2>1, <2>2, SameHolds DEF SameStream, Broken
<1>. QED BY <1>3, <1>4, <1>5, <1>6, <1>7
         DEF RespondRejected, RequestTimeout, RpcTimeout, ClientGone, Outcomes

\* The connection, close() and the session's timer.
LEMMA ConnectionStream ==
  ASSUME Given, Stream,
         \/ SessionExpires \/ RpcStarted \/ PipeBreaks \/ RpcExits
         \/ CloseBegins \/ CloseEnds
  PROVE  Stream'
<1>0. bridge \in BridgeState /\ IInv
  BY DEF Given, IInv, TypeOK
<1>1. app' = app /\ loop' = loop
  BY DEF SessionExpires, RpcStarted, PipeBreaks, RpcExits, CloseBegins, CloseEnds
<1>2. CASE SessionExpires
  BY <1>0, <1>1, <1>2, FailStream DEF SessionExpires, Outcomes
<1>3. CASE \/ RpcStarted \/ PipeBreaks
           \/ CloseEnds /\ UNCHANGED <<bridge, task>>
  <2>1. /\ bridge'.session = bridge.session /\ bridge'.sess = bridge.sess
        /\ bridge'.operation = bridge.operation /\ bridge'.op = bridge.op
        /\ bridge'.heard = bridge.heard /\ task' = task
    BY <1>0, <1>3 DEF RpcStarted, PipeBreaks, BridgeState
  <2>2. Place /\ SessionStill
    BY <2>1 DEF Place, SessionStill, Cur
  <2>. QED BY <1>1, <2>1, <2>2, PlaceStream
<1>4. CASE CloseBegins \/ Exits(bridge)
  <2>1. bridge'.session = None /\ bridge'.heard = bridge.heard
    BY <1>0, <1>4, CloseEffect, ExitEffect DEF Fails, Dropped, Alike
  <2>. QED BY <1>1, <2>1, GoneStream
<1>. QED BY <1>2, <1>3, <1>4 DEF RpcExits, CloseEnds

\* A drive that was not failing leaves the others' drives alone.
LEMMA MoverStays ==
  ASSUME Given, NEW r \in Requests, task[r].drv # "failed",
         \E v : task' = [task EXCEPT ![r] = v]
  PROVE  \A q \in Requests : task[q].drv = "failed" => task'[q].drv = "failed"
BY DEF Given, IInv, TypeOK

\* A drive that asks for its thread or its turn, or learns of it.
LEMMA DriveStream ==
  ASSUME Given, Stream, NEW r \in Requests,
         \/ DriveStarts(r) \/ DriveSendsMessage(r) \/ ThreadTooLate(r)
         \/ ThreadArrives(r) \/ TurnTooLate(r) \/ TurnArrives(r) \/ DriveRefused(r)
  PROVE  Stream'
<1>0. bridge \in BridgeState /\ app \in AppType
  BY DEF Given, IInv, TypeOK, AppType
<1>1. /\ loop' = loop /\ task[r].drv # "failed"
      /\ \E v : task' = [task EXCEPT ![r] = v]
  BY DEF DriveStarts, DriveSendsMessage, ThreadTooLate, ThreadArrives, TurnTooLate,
         TurnArrives, DriveRefused, Started, Resolved, StartsTurn, Asks, Moves
<1>2. app'.items = app.items
  BY <1>0 DEF DriveStarts, DriveSendsMessage, ThreadTooLate, ThreadArrives, TurnTooLate,
         TurnArrives, DriveRefused, StartsTurn, AppType
<1>3. \A q \in Requests : task[q].drv = "failed" => task'[q].drv = "failed"
  BY <1>1, MoverStays
<1>4. CASE \/ bridge' = bridge
           \/ \E f : bridge' = [bridge EXCEPT !.unsubscribed = f]
           \/ \E f : bridge' = [bridge EXCEPT !.interrupted = f]
  <2>1. Place /\ SessionStill
    BY <1>0, <1>4, SentPlace
  <2>2. bridge'.heard = bridge.heard
    BY <1>0, <1>4 DEF BridgeState
  <2>. QED BY <1>1, <1>2, <1>3, <2>1, <2>2, PlaceStream
<1>5. CASE ThreadArrives(r) \/ TurnArrives(r)
  <2> DEFINE s == [Cur(bridge) EXCEPT !.thread = TRUE]
             u == [Cur(bridge) EXCEPT !.turnId = r]
  <2>1. Current(r) /\ r \in Opened
    BY <1>5, DrivenOpened DEF ThreadArrives, TurnArrives, Resolved, Given
  <2>2. bridge.session # None
    BY <2>1, NoneAssumption DEF Current, Given, IInv, CallInv, OpenedFirst, Opened
  <2>3. Cur(bridge) \in Session
    BY <1>0, <2>2, CurType
  <2>4. /\ s \in Session /\ s.last = Cur(bridge).last /\ s.buffered = Cur(bridge).buffered
        /\ u \in Session /\ u.last = Cur(bridge).last /\ u.buffered = Cur(bridge).buffered
    BY <2>3 DEF Session, OptRequest
  <2>5. \/ bridge' = bridge
        \/ bridge' = [bridge EXCEPT !.sess[bridge.session] = s]
        \/ bridge' = [bridge EXCEPT !.sess[bridge.session] = u]
    BY <1>5 DEF ThreadArrives, TurnArrives, Cur
  <2> HIDE DEF s, u
  <2>6. CASE bridge' # bridge
    <3>1. /\ Works(bridge, bridge') /\ Cur(bridge') \in {s, u} /\ bridge'.op = bridge.op
          /\ bridge'.heard = bridge.heard
      BY <1>0, <2>2, <2>4, <2>5, <2>6, CurEffect
    <3>2. /\ bridge'.session = bridge.session /\ bridge'.operation = bridge.operation
          /\ Cur(bridge').last = Cur(bridge).last
          /\ Cur(bridge').buffered = Cur(bridge).buffered
          /\ Open(bridge') <=> Open(bridge)
      BY <2>4, <3>1 DEF Works, Open
    <3>3. Broken => Broken'
      <4>1. Open(bridge) => bridge.operation \in Requests
        BY OpenFacts DEF Given
      <4>. QED BY <1>3, <3>2, <4>1 DEF Broken, Open
    <3>. QED BY <1>1, <1>2, <3>1, <3>2, <3>3, SameHolds DEF SameStream
  <2>. QED BY <1>4, <2>6
<1>. QED BY <1>4, <1>5 DEF DriveStarts, DriveSendsMessage, ThreadTooLate, TurnTooLate,
                           DriveRefused

\* A drive that failed ends its own operation, and the session with it.
LEMMA CatchesStream ==
  ASSUME Given, Stream, NEW r \in Requests, DriveCatches(r) PROVE Stream'
<1>1. /\ bridge \in BridgeState /\ loop' = loop /\ app' = app /\ Moves(r, "done")
  BY DEF DriveCatches, Given, IInv, TypeOK
<1>2. CASE bridge.operation = r /\ Open(bridge)
  <2>1. bridge' = Fail(bridge, "failed")
    BY <1>2 DEF DriveCatches
  <2>. QED BY <1>1, <2>1, FailStream DEF Outcomes
<1>3. CASE ~(bridge.operation = r /\ Open(bridge))
  <2>1. bridge' = bridge
    BY <1>3 DEF DriveCatches
  <2>2. \A q \in Requests : task[q].drv = "failed" =>
          task'[q].drv = "failed" \/ ~(Open(bridge) /\ bridge.operation = q)
    BY <1>1, <1>3, MovesEffect DEF Given
  <2>. QED BY <1>1, <2>1, <2>2, PlaceStream DEF Place, SessionStill
<1>. QED BY <1>2, <1>3

\* A session that has just been opened has shown nothing, and has nothing to show.
LEMMA OpensStream ==
  ASSUME Given, Stream, NEW r \in Requests, RespondOpens(r) PROVE Stream'
<1>1. /\ r \notin Opened /\ loop' = loop /\ app' = app
      /\ \A q \in Requests : task[q].drv # "replay"
      /\ bridge'.operation = r /\ bridge'.heard = bridge.heard
      /\ task'[r].turn = r
      /\ \A q \in Requests : q # r => task'[q] = task[q]
      /\ \/ bridge'.session = r /\ Cur(bridge') = NewSession /\ Open(bridge')
         \/ bridge'.session = None
  BY OpensEffect DEF Given
<1>2. CASE bridge'.session = None
  BY <1>1, <1>2, GoneStream
<1>3. CASE bridge'.session # None
  <2>1. /\ bridge'.session = r /\ loop' = <<>> /\ TheTurn' = r
        /\ Cur(bridge)' = NewSession
    BY <1>1, <1>3, NothingToReplay DEF TheTurn, Open, Cur
  <2>2. Len(bridge'.heard[r]) = 0 /\ app'.items[r] = 0
    BY <1>1 DEF Stream, Told
  <2>3. ToGo' = <<>>
    BY <2>1 DEF ToGo, NewSession
  <2>4. Follows(ToGo, Len(bridge.heard[TheTurn]), app.items[TheTurn])'
    BY <2>1, <2>2, <2>3 DEF Follows
  <2>5. ASSUME NEW t \in Opened', task'[t].session = r, t # r PROVE FALSE
    <3>1. t \in Opened /\ task[t].session = r
      BY <1>1, <2>5 DEF Opened
    <3>. QED BY <1>1, <3>1 DEF Given, IInv, CallInv, OpenedFirst
  <2>6. Coherent'
    BY <2>1, <2>4, <2>5 DEF Coherent
  <2>7. Told'
    BY <1>1, ToldSame DEF Stream
  <2>. QED BY <2>6, <2>7 DEF Stream
<1>. QED BY <1>2, <1>3

\* A continuation stays at the turn of the session, or starts one when all of the
\* last was shown.
LEMMA ContinueStream ==
  ASSUME Given, Stream, NEW r \in Requests, NEW prev \in OptRequest,
         NEW tool \in OptCall, RespondContinue(r, prev, tool)
  PROVE  Stream'
<1> DEFINE s == Cur(bridge)
<1>1. /\ bridge.session # None /\ ~Open(bridge) /\ r \notin Opened
      /\ prev \in Opened /\ s.last = prev
      /\ tool = None => s.buffered = <<>>
      /\ loop' = loop /\ app' = app /\ \A q \in Requests : task[q].drv # "replay"
      /\ bridge'.operation = r /\ bridge'.heard = bridge.heard
      /\ task'[r].turn = IF tool = None THEN r ELSE task[prev].turn
      /\ \A q \in Requests : q # r => task'[q] = task[q]
      /\ \/ bridge'.session = bridge.session /\ Cur(bridge') = s /\ Open(bridge')
         \/ bridge'.session = None
  BY ContinueEffect DEF Given, Shape
<1>2. CASE bridge'.session = None
  BY <1>1, <1>2, GoneStream
<1>3. CASE bridge'.session # None
  <2>1. /\ bridge'.session = bridge.session /\ Cur(bridge)' = s /\ Open(bridge)'
        /\ loop = <<>> /\ loop' = <<>>
    BY <1>1, <1>3, NothingToReplay DEF Cur, Open
  <2>2. TheTurn = task[prev].turn /\ TheTurn' = task'[r].turn
    BY <1>1, <2>1 DEF TheTurn
  <2>3. ToGo' = s.buffered /\ ToGo = s.buffered
    BY <2>1 DEF ToGo
  <2> HIDE DEF s
  <2>4. /\ \A t \in Opened : task[t].session = bridge.session /\ t # TheTurn =>
             app.items[t] = Len(bridge.heard[t])
        /\ Follows(s.buffered, Len(bridge.heard[TheTurn]), app.items[TheTurn])
    BY <1>1, <2>3 DEF Stream, Coherent, Broken
  <2>5. TheTurn \in Opened
    BY <1>1, <2>2 DEF Given, Shape, TasksOK, TaskOK
  <2>6. bridge'.heard = bridge.heard /\ app'.items = app.items
    BY <1>1
  <2>7. Len(bridge.heard[r]) = 0 /\ app.items[r] = 0
    BY <1>1 DEF Stream, Told
  <2>8. tool = None => app.items[TheTurn] = Len(bridge.heard[TheTurn])
    <3>1. /\ Len(bridge.heard[TheTurn]) \in Nat
          /\ app.items[TheTurn] \in Nat
      BY <2>5 DEF Given, IInv, TypeOK, BridgeState, Opened
    <3>. QED BY <1>1, <2>4, <3>1, FollowsNone
  <2>9. Follows(ToGo, Len(bridge.heard[TheTurn]), app.items[TheTurn])'
    <3>1. CASE tool = None
      <4>1. ToGo' = <<>> /\ TheTurn' = r
        BY <1>1, <2>2, <2>3, <3>1
      <4>. QED BY <2>6, <2>7, <4>1 DEF Follows
    <3>2. CASE tool # None
      <4>1. TheTurn' = TheTurn
        BY <1>1, <2>2, <3>2
      <4>. QED BY <2>3, <2>4, <2>6, <4>1 DEF Follows
    <3>. QED BY <3>1, <3>2
  <2>10. ASSUME NEW t \in Opened', task'[t].session = bridge.session, t # TheTurn'
         PROVE  app'.items[t] = Len(bridge'.heard[t])
    <3>1. CASE t = r
      BY <2>6, <2>7, <3>1
    <3>2. CASE t # r
      <4>1. t \in Opened /\ task[t].session = bridge.session
        BY <1>1, <2>10, <3>2 DEF Opened
      <4>2. t # TheTurn \/ tool = None
        BY <1>1, <2>2, <2>10
      <4>. QED BY <2>4, <2>6, <2>8, <4>1, <4>2
    <3>. QED BY <3>1, <3>2
  <2>11. Coherent'
    BY <2>1, <2>9, <2>10 DEF Coherent
  <2>12. Told'
    BY <2>6, ToldSame DEF Stream
  <2>. QED BY <2>11, <2>12 DEF Stream
<1>. QED BY <1>2, <1>3

\* The turn of the current session.
LEMMA TheTurnOpened ==
  ASSUME Given, bridge.session # None
  PROVE  TheTurn \in Opened /\ TheTurn \in Requests /\ task[TheTurn].session = bridge.session
<1>1. CASE Open(bridge)
  BY <1>1, OpenFacts DEF TheTurn, Given, Shape, TasksOK, TaskOK, Opened
<1>2. CASE ~Open(bridge)
  BY <1>2 DEF TheTurn, Given, Shape, Rest, TasksOK, TaskOK, Opened
<1>. QED BY <1>1, <1>2

\* One more event is shown, by the operation in progress.
LEMMA ToldMore ==
  ASSUME Given, Told, Open(bridge), NEW n, n = Len(bridge.heard[TheTurn]) + 1,
         bridge'.heard = [bridge.heard EXCEPT ![TheTurn] =
                            Append(@, [n |-> n, by |-> bridge.operation])],
         \A t \in Requests \ Opened : app'.items[t] = app.items[t]
  PROVE  /\ Told' /\ Len(bridge'.heard[TheTurn]) = n
         /\ \A t \in Requests : t # TheTurn => bridge'.heard[t] = bridge.heard[t]
<1> DEFINE v == [n |-> n, by |-> bridge.operation]
           q == bridge.heard[TheTurn]
           h == Append(q, v)
<1>1. /\ TheTurn \in Opened /\ TheTurn \in Requests
      /\ bridge.operation \in Opened /\ bridge.operation \in Requests
      /\ task[bridge.operation].turn = TheTurn
  BY OpenFacts, TheTurnOpened DEF Given, TheTurn
<1>2. /\ bridge.heard \in [Requests -> Seq([n : Nat, by : Requests])]
      /\ q \in Seq([n : Nat, by : Requests])
  BY <1>1 DEF Given, IInv, TypeOK, BridgeState
<1>3. n \in Nat /\ v \in [n : Nat, by : Requests] /\ v.n = n /\ v.by = bridge.operation
  BY <1>1, <1>2
<1>4. bridge'.heard = [bridge.heard EXCEPT ![TheTurn] = h]
  OBVIOUS
<1> HIDE DEF v
<1>5. Len(h) = n /\ h[n] = v /\ \A i \in 1 .. Len(q) : h[i] = q[i]
  BY <1>2, <1>3
<1> HIDE DEF h
<1>6. /\ bridge'.heard[TheTurn] = h
      /\ \A t \in Requests : t # TheTurn => bridge'.heard[t] = bridge.heard[t]
  BY <1>1, <1>2, <1>4
<1>7. \A r \in Opened : r \in Opened' /\ task'[r].turn = task[r].turn
  BY DEF Given, Kept, Opened
<1>8. ASSUME NEW t \in Requests, t \notin Opened'
      PROVE  bridge'.heard[t] = <<>> /\ app'.items[t] = 0
  BY <1>1, <1>6, <1>7, <1>8 DEF Told
<1>9. ASSUME NEW t \in Requests, NEW i \in 1 .. Len(bridge'.heard[t])
      PROVE  LET x == bridge'.heard[t][i]
             IN x.n = i /\ x.by \in Opened' /\ task'[x.by].turn = t
  <2>1. CASE t # TheTurn
    BY <1>6, <1>7, <1>9, <2>1 DEF Told
  <2>2. CASE t = TheTurn
    <3>1. i \in 1 .. Len(q) \/ i = n
      BY <1>2, <1>3, <1>5, <1>6, <1>9, <2>2
    <3>2. CASE i \in 1 .. Len(q)
      <4>1. bridge'.heard[t][i] = q[i]
        BY <1>5, <1>6, <2>2, <3>2
      <4>2. q[i].n = i /\ q[i].by \in Opened /\ task[q[i].by].turn = TheTurn
        BY <1>1, <3>2 DEF Told
      <4>. QED BY <1>7, <2>2, <4>1, <4>2
    <3>3. CASE i = n
      BY <1>1, <1>3, <1>5, <1>6, <1>7, <2>2, <3>3
    <3>. QED BY <3>1, <3>2, <3>3
  <2>. QED BY <2>1, <2>2
<1>10. Told'
  BY <1>8, <1>9 DEF Told
<1>. QED BY <1>5, <1>6, <1>10

\* A step of the turn that the session is at.
LEMMA TurnStream ==
  ASSUME Given, Stream, Told', ~Broken, bridge.session # None,
         bridge'.session = bridge.session, TheTurn' = TheTurn,
         loop' # <<>> => Open(bridge'), Opened' = Opened,
         \A t \in Opened : t # TheTurn =>
           bridge'.heard[t] = bridge.heard[t] /\ app'.items[t] = app.items[t],
         Follows(ToGo', Len(bridge'.heard[TheTurn]), app'.items[TheTurn])
  PROVE  Stream'
<1>1. Follows(ToGo, Len(bridge.heard[TheTurn]), app.items[TheTurn])'
  BY DEF Follows
<1>2. ASSUME NEW t \in Opened', task'[t].session = bridge'.session, t # TheTurn'
      PROVE  app'.items[t] = Len(bridge'.heard[t])
  BY <1>2 DEF Stream, Coherent, Given, Kept
<1>3. Open(bridge') = Open(bridge)'
  BY DEF Open
<1>4. Coherent'
  BY <1>1, <1>2, <1>3 DEF Coherent
<1>. QED BY <1>4 DEF Stream

\* Consuming the next event of the turn shows it, or ends the segment.
LEMMA ConsumeStream ==
  ASSUME Given, Stream, Open(bridge), ~Broken, Cur(bridge).buffered = <<>>,
         NEW e \in Events, NEW ok, e.turn = TheTurn, bridge' = Consume(bridge, e, ok),
         ~Ignores(bridge, e), ~Throws(bridge, e, ok), Opened' = Opened,
         \A t \in Requests : t # TheTurn => app'.items[t] = app.items[t],
         NEW k, k = Len(bridge.heard[TheTurn]),
         IF e.kind \in Ends THEN loop' = <<>> /\ app'.items[TheTurn] = k
         ELSE e.n = k + 1 /\ Follows(loop', k + 1, app'.items[TheTurn])
  PROVE  Stream'
<1> DEFINE s == Cur(bridge)
           d == Consume(bridge, e, ok)
           v == [n |-> e.n, by |-> bridge.operation]
<1>1. /\ bridge \in BridgeState /\ bridge.session # None
      /\ TheTurn \in Opened /\ TheTurn \in Requests
  BY OpenFacts, TheTurnOpened DEF Given, IInv, TypeOK
<1>2. s \in Session
  BY <1>1, CurType
<1>3. Told /\ \A t \in Requests \ Opened : app'.items[t] = app.items[t]
  BY <1>1 DEF Stream
<1>4. CASE /\ Works(bridge, d) /\ d.sess = bridge.sess /\ d.op = bridge.op
           /\ e.kind = "text"
           /\ d.heard = [bridge.heard EXCEPT ![e.turn] = Append(@, v)]
  <2>1. /\ bridge'.session = bridge.session /\ bridge'.operation = bridge.operation
        /\ Cur(bridge') = s /\ Open(bridge')
        /\ bridge'.heard = [bridge.heard EXCEPT ![TheTurn] = Append(@, v)]
    BY <1>4 DEF Works, Open, Cur
  <2>2. e.n = k + 1 /\ Follows(loop', k + 1, app'.items[TheTurn])
    BY <1>4 DEF Ends
  <2>3. /\ Told' /\ Len(bridge'.heard[TheTurn]) = k + 1
        /\ \A t \in Requests : t # TheTurn => bridge'.heard[t] = bridge.heard[t]
    BY <1>3, <2>1, <2>2, ToldMore
  <2>4. ToGo' = loop'
    BY <2>1 DEF ToGo, Cur
  <2>5. TheTurn' = TheTurn
    BY <1>1, <2>1, TheTurnStays
  <2>. QED BY <1>1, <2>1, <2>2, <2>3, <2>4, <2>5, TurnStream DEF Opened
<1>5. CASE /\ Works(bridge, d) /\ d.heard = bridge.heard /\ e.kind = "completed"
           /\ Completes(bridge, d, bridge.op[bridge.operation].offered)
           /\ Cur(d) = [s EXCEPT !.turnId = None, !.last = bridge.operation]
  <2>1. Cur(d).buffered = <<>>
    BY <1>2, <1>5 DEF Session
  <2>2. /\ bridge'.session = bridge.session /\ bridge'.heard = bridge.heard
        /\ Cur(bridge').buffered = <<>> /\ Cur(bridge').last = bridge.operation
        /\ ~Open(bridge')
    BY <1>5, <2>1 DEF Works, Completes
  <2>3. loop' = <<>> /\ app'.items[TheTurn] = k
    BY <1>5 DEF Ends
  <2>4. Told'
    BY <1>3, <2>2, ToldSame
  <2>5. ToGo' = <<>>
    BY <2>2, <2>3 DEF ToGo, Cur
  <2>6. TheTurn' = TheTurn
    BY <1>1, <2>2, TheTurnStays
  <2>7. Follows(<<>>, k, k)
    <3>1. k \in Nat
      BY <1>1 DEF BridgeState
    <3>. QED BY <3>1, FollowsNone
  <2>. QED BY <1>1, <2>2, <2>3, <2>4, <2>5, <2>6, <2>7, TurnStream DEF Opened
<1> HIDE DEF d, v
<1>6. \/ /\ Works(bridge, d) /\ d.sess = bridge.sess /\ d.op = bridge.op
         /\ e.kind = "text"
         /\ d.heard = [bridge.heard EXCEPT ![e.turn] = Append(@, v)]
      \/ /\ Works(bridge, d) /\ d.heard = bridge.heard /\ e.kind = "completed"
         /\ Completes(bridge, d, bridge.op[bridge.operation].offered)
         /\ Cur(d) = [s EXCEPT !.turnId = None, !.last = bridge.operation]
  <2>1. CASE e.kind = "text"
    <3>1. /\ Works(bridge, d) /\ d.sess = bridge.sess /\ d.op = bridge.op
      BY <1>1, <2>1, ConsumeEffect DEF d
    <3>2. d.heard = [bridge.heard EXCEPT ![e.turn] = Append(@, v)]
      BY <1>1, <2>1, ConsumeEffect DEF d, v
    <3>. QED BY <2>1, <3>1, <3>2
  <2>2. CASE e.kind # "text"
    <3>1. /\ Works(bridge, d) /\ d.heard = bridge.heard /\ e.kind = "completed"
          /\ Completes(bridge, d, bridge.op[bridge.operation].offered)
      BY <1>1, <2>2, ConsumeEffect DEF d
    <3>2. Cur(d) = [s EXCEPT !.turnId = None, !.last = bridge.operation]
      BY <1>1, <2>2, ConsumeEffect DEF d
    <3>. QED BY <2>2, <3>1, <3>2
  <2>. QED BY <2>1, <2>2
<1>. QED BY <1>4, <1>5, <1>6

\* The result is brought: what was held back is to be replayed.
LEMMA AnswersStream ==
  ASSUME Given, Stream, NEW r \in Requests, DriveAnswersTool(r) PROVE Stream'
<1> DEFINE s == Cur(bridge)
           n == Cur(bridge')
<1>1. /\ bridge.session # None /\ Open(bridge) /\ bridge.operation = r
      /\ task[r].drv = "start"
      /\ app' = app /\ \A q \in Requests : task[q].drv # "replay"
      /\ bridge'.session = bridge.session /\ bridge'.operation = r
      /\ bridge'.op = bridge.op /\ bridge'.heard = bridge.heard
      /\ \/ n.buffered = <<>> /\ loop' = s.buffered /\ Moves(r, "replay")
         \/ n.buffered = s.buffered /\ loop' = loop /\ Moves(r, "failed")
  BY AnswersEffect DEF Given
<1> HIDE DEF n, s
<1>2. /\ Open(bridge') /\ loop = <<>> /\ ~Broken
      /\ Open(bridge)' = Open(bridge') /\ Cur(bridge)' = Cur(bridge')
  BY <1>1, NothingToReplay DEF Open, Broken, Cur
<1>3. TheTurn' = TheTurn /\ TheTurn \in Requests
  BY <1>1, <1>2, TheTurnStays
<1>4. Told' /\ Opened' = Opened
  <2>1. Opened' = Opened
    BY <1>1, ForwardMoves DEF Given, Later
  <2>. QED BY <1>1, <2>1, ToldSame DEF Stream
<1>5. ToGo' = ToGo
  BY <1>1, <1>2 DEF ToGo, n, s
<1>6. Follows(ToGo, Len(bridge.heard[TheTurn]), app.items[TheTurn])
  BY <1>1, <1>2 DEF Stream, Coherent
<1>. QED BY <1>1, <1>2, <1>3, <1>4, <1>5, <1>6, TurnStream

\* A round of the replay shows the next event of the turn.
LEMMA ReplaysStream ==
  ASSUME Given, Stream, NEW r \in Requests, DriveReplays(r) PROVE Stream'
<1> DEFINE e == Head(loop)
           s == Cur(bridge)
           k == Len(bridge.heard[TheTurn])
<1>1. /\ task[r].drv = "replay" /\ loop \in Seq(Events) /\ loop # <<>>
      /\ bridge \in BridgeState /\ app' = app
  BY DEF DriveReplays, Given, IInv, TypeOK
<1>2. e \in Events /\ e \in Range(loop) /\ Tail(loop) \in Seq(Events)
  BY <1>1, TailRange
<1>3. bridge.operation = r /\ bridge.session # None /\ ~Broken
  BY <1>1, ReplayFacts DEF Given, Broken
<1>4. /\ e.turn = TheTurn /\ TheTurn \in Requests /\ s.turnId \in {None, TheTurn}
  BY <1>2, <1>3, TheTurnOpened DEF Given, Shape, Turns, Coming, EventOK
<1>5. Open(bridge) /\ Follows(loop, k, app.items[TheTurn]) /\ s.buffered = <<>>
  <2>1. Open(bridge) /\ Follows(loop, k, app.items[TheTurn])
    BY <1>1, <1>3 DEF Stream, Coherent, ToGo
  <2>. QED BY <1>1, <1>3, <2>1 DEF Given, Shape, Busy
<1>6. k \in Nat /\ app.items[TheTurn] \in Nat
  BY <1>4 DEF Given, IInv, TypeOK, BridgeState
<1>7. IF e.kind \in Ends THEN Tail(loop) = <<>> /\ app.items[TheTurn] = k
      ELSE e.n = k + 1 /\ Follows(Tail(loop), k + 1, app.items[TheTurn])
  BY <1>1, <1>5, <1>6, FollowsHead
<1>8. ~Ignores(bridge, e)
  BY <1>3, <1>4, <1>5 DEF Ignores
<1> HIDE DEF e, k
<1>9. PICK ok \in Delivers(bridge) :
        /\ bridge' = Consume(bridge, e, ok)
        /\ IF Throws(bridge, e, ok) THEN Moves(r, "failed") /\ loop' = <<>>
           ELSE loop' = Tail(loop) /\ task' = task
  BY DEF DriveReplays, e
<1>10. CASE Throws(bridge, e, ok)
  <2>1. /\ bridge'.session = bridge.session /\ bridge'.operation = r
        /\ bridge'.op = bridge.op /\ bridge'.heard = bridge.heard
    <3>1. CASE bridge' = bridge
      BY <1>3, <3>1
    <3>2. CASE Works(bridge, bridge') /\ bridge'.op = bridge.op /\ bridge'.heard = bridge.heard
      BY <1>3, <3>2 DEF Works
    <3>. QED BY <1>1, <1>2, <1>8, <1>9, <1>10, <3>1, <3>2, ConsumeEffect
  <2>2. task'[r].drv = "failed"
    BY <1>9, <1>10, MovesEffect DEF Given
  <2>3. Broken'
    BY <1>3, <1>5, <2>1, <2>2 DEF Broken, Open
  <2>4. Told'
    BY <1>1, <2>1, ToldSame DEF Stream
  <2>. QED BY <2>3, <2>4 DEF Stream, Coherent
<1>11. CASE ~Throws(bridge, e, ok)
  <2>1. loop' = Tail(loop) /\ Opened' = Opened
    BY <1>9, <1>11 DEF Opened
  <2>. QED BY <1>1, <1>2, <1>3, <1>4, <1>5, <1>7, <1>8, <1>9, <1>11, <2>1,
              ConsumeStream DEF k
<1>. QED BY <1>10, <1>11

\* The end of the replay, which may offer the next call.
LEMMA FlushesStream ==
  ASSUME Given, Stream, NEW r \in Requests, DriveFlushes(r) PROVE Stream'
<1> DEFINE s == Cur(bridge)
<1>1. /\ task[r].drv = "replay" /\ loop = <<>> /\ loop' = <<>>
      /\ bridge \in BridgeState /\ app' = app
  BY DEF DriveFlushes, Given, IInv, TypeOK
<1>2. bridge.operation = r /\ bridge.session # None /\ s \in Session /\ ~Broken
  BY <1>1, ReplayFacts, CurType DEF Given, Broken
<1>3. CASE CanFlush(bridge) /\ (bridge' = Take(bridge) \/ bridge' = Offer(bridge))
  <2> DEFINE p == s.pending
             u == Take(bridge)
             v == Offer(bridge)
  <2>1. /\ Works(bridge, u) /\ Open(u) /\ u.heard = bridge.heard
        /\ Cur(u) = [s EXCEPT !.waiting = Head(p), !.pending = Tail(p)]
    BY <1>1, <1>3, TakeEffect
  <2>2. /\ Works(bridge, v) /\ ~Open(v) /\ v.heard = bridge.heard
        /\ Cur(v) = [s EXCEPT !.waiting = Head(p), !.pending = Tail(p),
                              !.last = bridge.operation]
    BY <1>1, <1>3, OfferEffect DEF Completes
  <2> HIDE DEF u, v
  <2>3. /\ Cur(u).buffered = s.buffered /\ Cur(v).buffered = s.buffered
        /\ Cur(v).last = bridge.operation
    BY <1>2, <2>1, <2>2 DEF Session
  <2>4. /\ bridge'.session = bridge.session /\ bridge'.operation = bridge.operation
        /\ bridge'.heard = bridge.heard /\ Cur(bridge').buffered = s.buffered
        /\ Open(bridge) /\ (Open(bridge') \/ Cur(bridge').last = bridge.operation)
    BY <1>3, <2>1, <2>2, <2>3 DEF u, v, CanFlush, Works
  <2>. QED BY <1>1, <1>2, <2>4, SameHolds DEF SameStream
<1>4. CASE bridge' = bridge
  <2>1. \A q \in Requests : task[q].drv = "failed" => task'[q].drv = "failed"
    <3>1. Moves(r, "failed") \/ Moves(r, "done")
      BY DEF DriveFlushes
    <3>2. \A q \in Requests : q # r => task'[q] = task[q]
      BY <3>1, MovesEffect DEF Given
    <3>. QED BY <1>1, <3>2
  <2>. QED BY <1>1, <1>4, <2>1, PlaceStream DEF Place, SessionStill
<1>. QED BY <1>3, <1>4 DEF DriveFlushes, Flush


\* An event of the session's turn is held back, or shown, or ends the session.
LEMMA DeliverStream ==
  ASSUME Given, Stream, Line, NEW t \in Requests, Ours(t), app.turn[t] = "running",
         NEW e \in Events, NEW ok, bridge' = Deliver(e, ok), e.turn = t,
         task' = task, loop' = loop,
         \A x \in Requests : x # t => app'.items[x] = app.items[x],
         app'.items[t] = IF e.kind \in Ends THEN app.items[t] ELSE app.items[t] + 1,
         e.n = IF e.kind \in Ends THEN 0 ELSE app.items[t] + 1
  PROVE  Stream'
<1> DEFINE s == Cur(bridge)
           d == Deliver(e, ok)
           k == Len(bridge.heard[t])
           n == app.items[t]
<1>1. /\ bridge \in BridgeState /\ bridge.session # None /\ t = TheTurn
      /\ s \in Session /\ s.turnId \in {None, t} /\ loop = <<>>
      /\ Open(bridge) => s.buffered = <<>>
  BY LineFacts DEF Live
<1>2. t \in Opened /\ Opened' = Opened /\ k \in Nat /\ n \in Nat
  BY <1>1 DEF Given, IInv, TypeOK, CallInv, OpenedFirst, BridgeState, Opened
<1>3. ~Broken
  BY <1>1, LineQuiet, OpenFacts DEF Given, IInv, Broken, Ready
<1>4. Follows(s.buffered, k, n)
  BY <1>1, <1>3 DEF Stream, Coherent, ToGo
<1>5. Told /\ \A x \in Requests \ Opened : app'.items[x] = app.items[x]
  BY <1>2 DEF Stream
<1>6. ASSUME NEW u, Fails(bridge, bridge', u) PROVE Stream'
  <2>1. bridge'.session = None /\ bridge'.heard = bridge.heard
    BY <1>6 DEF Fails, Dropped
  <2>2. Told'
    BY <1>5, <2>1, ToldSame
  <2>. QED BY <2>1, <2>2 DEF Stream, Coherent
<1> HIDE DEF k, n
<1>7. CASE /\ ~Open(bridge) /\ Works(bridge, d)
           /\ Cur(d) = [s EXCEPT !.buffered = Append(@, e)]
           /\ d.op = bridge.op /\ d.heard = bridge.heard
  <2> DEFINE q == s.buffered
             m == IF e.kind \in Ends THEN n ELSE n + 1
  <2>1. /\ q \in Seq(Events) /\ Cur(d).buffered = Append(q, e) /\ Cur(d).last = s.last
    BY <1>1, <1>7 DEF Session
  <2>2. /\ bridge'.session = bridge.session /\ bridge'.heard = bridge.heard
        /\ Cur(bridge').buffered = Append(q, e) /\ Cur(bridge').last = s.last
        /\ ~Open(bridge')
    BY <1>7, <2>1 DEF Works, Open
  <2>3. \A i \in 1 .. Len(q) : q[i].kind \notin Ends
    <3>1. ASSUME NEW i \in 1 .. Len(q) PROVE q[i] \in Range(q)
      BY <2>1 DEF Range
    <3>2. \A x \in Range(q) : EventOK(x)
      BY <1>1 DEF Given, Shape, Turns, Coming
    <3>. QED BY <1>1, <3>1, <3>2 DEF EventOK, Ends
  <2>4. Follows(Append(q, e), k, m)
    BY <1>2, <1>4, <2>1, <2>3, FollowsMore DEF n
  <2>5. Told'
    BY <1>5, <2>2, ToldSame
  <2>6. TheTurn' = TheTurn
    BY <1>1, <1>7, <2>2, TheTurnStays
  <2>7. ToGo' = Append(q, e) /\ loop' = <<>>
    BY <1>1, <2>2 DEF ToGo, Cur
  <2>8. Follows(ToGo', Len(bridge'.heard[TheTurn]), app'.items[TheTurn])
    BY <1>1, <2>2, <2>4, <2>7 DEF k, n
  <2>9. \A x \in Opened : x # TheTurn =>
          bridge'.heard[x] = bridge.heard[x] /\ app'.items[x] = app.items[x]
    BY <1>1, <2>2 DEF Opened
  <2>. QED BY <1>1, <1>2, <1>3, <2>2, <2>5, <2>6, <2>7, <2>8, <2>9, TurnStream
<1>8. CASE Open(bridge) /\ ~Throws(bridge, e, ok) /\ d = Consume(bridge, e, ok)
  <2>1. s.buffered = <<>> /\ n = k
    BY <1>1, <1>2, <1>4, <1>8, FollowsNone
  <2>2. ~Ignores(bridge, e)
    BY <1>1, <1>8 DEF Ignores
  <2>3. IF e.kind \in Ends THEN loop' = <<>> /\ app'.items[TheTurn] = k
        ELSE e.n = k + 1 /\ Follows(loop', k + 1, app'.items[TheTurn])
    <3>1. Follows(<<>>, k + 1, k + 1)
      BY <1>2, FollowsNone
    <3>. QED BY <1>1, <2>1, <3>1 DEF n
  <2>. QED BY <1>1, <1>2, <1>3, <1>8, <2>1, <2>2, <2>3, ConsumeStream DEF k
<1> HIDE DEF d
<1>9. \/ \E u \in {s.turnId, None} : Fails(bridge, d, u)
      \/ /\ ~Open(bridge) /\ Works(bridge, d)
         /\ Cur(d) = [s EXCEPT !.buffered = Append(@, e)]
         /\ d.op = bridge.op /\ d.heard = bridge.heard
      \/ Open(bridge) /\ ~Throws(bridge, e, ok) /\ d = Consume(bridge, e, ok)
  <2>1. CASE Open(bridge)
    BY <1>1, <2>1, DeliverEffect DEF d
  <2>2. CASE ~Open(bridge)
    <3>1. \/ \E u \in {s.turnId, None} : Fails(bridge, d, u)
          \/ /\ Works(bridge, d) /\ d.op = bridge.op /\ d.heard = bridge.heard
             /\ Cur(d) = [s EXCEPT !.buffered = Append(@, e)]
      BY <1>1, <2>2, DeliverEffect DEF d
    <3>. QED BY <2>2, <3>1
  <2>. QED BY <2>1, <2>2
<1>10. d = bridge'
  BY DEF d
<1>. QED BY <1>6, <1>7, <1>8, <1>9, <1>10

\* An event of a turn that the current session has nothing to do with.
LEMMA ElsewhereStream ==
  ASSUME Given, Stream, NEW t \in Requests, app.turn[t] = "running", ~Ours(t),
         bridge' = bridge, task' = task, loop' = loop,
         \A x \in Requests : x # t => app'.items[x] = app.items[x]
  PROVE  Stream'
<1>1. t \in Opened /\ bridge.sess[task[t].session].thread
  BY DEF Given, IInv, CallInv, OpenedFirst
<1>2. bridge.session # None => task[t].session # bridge.session
  BY <1>1 DEF Ours, Cur
<1>3. Told'
  BY <1>1, ToldSame DEF Stream
<1>4. /\ Opened' = Opened /\ TheTurn' = TheTurn /\ ToGo' = ToGo
      /\ Broken' <=> Broken
      /\ Open(bridge)' <=> Open(bridge)
  <2>1. (Open(bridge)' <=> Open(bridge)) /\ Cur(bridge)' = Cur(bridge)
    BY DEF Open, Cur
  <2>2. Opened' = Opened
    BY DEF Opened
  <2>3. TheTurn' = TheTurn
    BY <2>1 DEF TheTurn
  <2>4. ToGo' = ToGo
    BY <2>1 DEF ToGo
  <2>5. Broken' <=> Broken
    BY <2>1 DEF Broken
  <2>. QED BY <2>1, <2>2, <2>3, <2>4, <2>5
<1>5. CASE bridge.session = None \/ Broken
  BY <1>3, <1>4, <1>5 DEF Stream, Coherent
<1>6. CASE bridge.session # None /\ ~Broken
  <2>1. TheTurn \in Requests /\ TheTurn # t
    BY <1>2, <1>6, TheTurnOpened DEF Opened
  <2>2. Follows(ToGo, Len(bridge.heard[TheTurn]), app.items[TheTurn])'
    BY <1>4, <1>6, <2>1 DEF Stream, Coherent, Follows
  <2>3. ASSUME NEW x \in Opened', task'[x].session = bridge'.session, x # TheTurn'
        PROVE  app'.items[x] = Len(bridge'.heard[x])
    <3>1. x # t /\ x \in Requests /\ x \in Opened
      BY <1>2, <1>4, <1>6, <2>3 DEF Opened
    <3>. QED BY <1>4, <1>6, <2>3, <3>1 DEF Stream, Coherent
  <2>4. Coherent'
    BY <1>4, <1>6, <2>2, <2>3 DEF Stream, Coherent
  <2>. QED BY <1>3, <2>4 DEF Stream
<1>. QED BY <1>5, <1>6


\* A turn's events, its end, and the notice that it failed.
LEMMA EventStream ==
  ASSUME Given, Stream, NEW t \in Requests,
         \/ \E kind \in {"text", "bad"} : ItemEvent(t, kind)
         \/ \E kind \in {"completed", "failed"} : TurnEnds(t, kind)
         \/ \E blocked : FatalNotice(t, blocked)
  PROVE  Stream'
<1>1. /\ Line /\ task' = task /\ loop' = loop /\ app.turn[t] = "running"
      /\ app \in AppType /\ bridge \in BridgeState /\ app.items[t] \in Nat
  BY DEF ItemEvent, TurnEnds, FatalNotice, Given, IInv, TypeOK, AppType
<1>2. ASSUME \E blocked : FatalNotice(t, blocked) PROVE Stream'
  BY <1>1, <1>2, FailStream DEF FatalNotice, Outcomes
<1>3. ASSUME NEW kind \in {"text", "bad"}, ItemEvent(t, kind) PROVE Stream'
  <2> DEFINE e == [kind |-> kind, turn |-> t, n |-> app.items[t] + 1]
  <2>1. /\ e \in Events /\ e.turn = t /\ e.kind \notin Ends /\ e.n = app.items[t] + 1
    BY <1>1 DEF Events, Ends
  <2>2. /\ app'.items[t] = app.items[t] + 1
        /\ \A x \in Requests : x # t => app'.items[x] = app.items[x]
    BY <1>1, <1>3 DEF ItemEvent, AppType
  <2>3. \/ ~Ours(t) /\ bridge' = bridge
        \/ Ours(t) /\ \E ok : bridge' = Deliver(e, ok)
    <3>1. Ours(t) => Cur(bridge).turnId \in {None, t}
      BY <1>1, LineFacts DEF Live
    <3>. QED BY <1>3, <3>1 DEF ItemEvent
  <2> HIDE DEF e
  <2>. QED BY <1>1, <2>1, <2>2, <2>3, DeliverStream, ElsewhereStream
<1>4. ASSUME NEW kind \in {"completed", "failed"}, TurnEnds(t, kind) PROVE Stream'
  <2> DEFINE e == [kind |-> kind, turn |-> t, n |-> 0]
  <2>1. /\ e \in Events /\ e.turn = t /\ e.kind \in Ends /\ e.n = 0
    BY DEF Events, Ends
  <2>2. app'.items = app.items
    BY <1>1, <1>4 DEF TurnEnds, AppType
  <2>3. \/ ~Ours(t) /\ bridge' = bridge
        \/ Ours(t) /\ \E ok : bridge' = Deliver(e, ok)
    BY <1>4 DEF TurnEnds
  <2> HIDE DEF e
  <2>. QED BY <1>1, <2>1, <2>2, <2>3, DeliverStream, ElsewhereStream
<1>. QED BY <1>2, <1>3, <1>4

\* An answer to a drive, and the beginning of a turn.
LEMMA ReplyStream ==
  ASSUME Given, Stream, NEW r \in Requests,
         \/ \E result : RpcReply(r, result)
         \/ \E announced : TurnBegins(r, announced)
  PROVE  Stream'
<1>1. /\ Line /\ loop' = loop /\ bridge \in BridgeState /\ app \in AppType
  BY DEF RpcReply, TurnBegins, Given, IInv, TypeOK, AppType
<1>2. app'.items = app.items
  BY <1>1 DEF RpcReply, TurnBegins, AppType
<1>3. \A q \in Requests : task[q].drv # "failed"
  BY <1>1, LineQuiet DEF Given, IInv, Ready
<1>4. CASE bridge' = bridge
  BY <1>1, <1>2, <1>3, <1>4, PlaceStream DEF Place, SessionStill
<1>5. CASE /\ Live(r) /\ Ours(r)
           /\ bridge' = [bridge EXCEPT !.sess[bridge.session].turnId = r]
  <2> DEFINE s == [Cur(bridge) EXCEPT !.turnId = r]
  <2>1. bridge.session # None /\ Cur(bridge) \in Session
    BY <1>1, <1>5, LineFacts
  <2>2. s \in Session /\ s.last = Cur(bridge).last /\ s.buffered = Cur(bridge).buffered
    BY <2>1 DEF Session, OptRequest
  <2>3. bridge' = [bridge EXCEPT !.sess[bridge.session] = s]
    BY <1>5 DEF Cur
  <2> HIDE DEF s
  <2>4. /\ Works(bridge, bridge') /\ Cur(bridge') = s /\ bridge'.op = bridge.op
        /\ bridge'.heard = bridge.heard
    BY <1>1, <2>1, <2>2, <2>3, CurEffect
  <2>5. /\ bridge'.session = bridge.session /\ bridge'.operation = bridge.operation
        /\ Cur(bridge').last = Cur(bridge).last
        /\ Cur(bridge').buffered = Cur(bridge).buffered
        /\ Open(bridge') <=> Open(bridge)
    BY <2>2, <2>4 DEF Works, Open
  <2>6. ~Broken
    BY <1>3, OpenFacts DEF Broken, Given
  <2>. QED BY <1>1, <1>2, <2>4, <2>5, <2>6, SameHolds DEF SameStream
<1>. QED BY <1>4, <1>5 DEF RpcReply, TurnBegins, Live

\* A call leaves the events as they are, or fails the session.
LEMMA RequestStream ==
  ASSUME Given, Stream, Line, NEW t \in Requests, app.turn[t] = "running",
         NEW c \in Calls, NEW good, NEW ok, bridge' = ServerRequest(c, t, good, ok),
         task' = task, loop' = loop, app'.items = app.items
  PROVE  Stream'
<1> DEFINE b == Refuse(c)
<1>1. bridge \in BridgeState /\ Live(t) /\ \A q \in Requests : task[q].drv # "failed"
  BY LineQuiet DEF Given, IInv, TypeOK, Live, Ready
<1>2. /\ b \in BridgeState /\ b.session = bridge.session /\ b.sess = bridge.sess
      /\ b.operation = bridge.operation /\ b.op = bridge.op /\ b.heard = bridge.heard
  BY <1>1, RefuseEffect
<1> HIDE DEF b
<1>3. CASE bridge' = b
  <2>1. Place /\ SessionStill
    BY <1>2, <1>3 DEF Place, SessionStill, Cur
  <2>. QED BY <1>1, <1>2, <1>3, <2>1, PlaceStream
<1>4. CASE bridge' = Fail(bridge, "failed") \/ bridge' = Fail(b, "failed")
  BY <1>1, <1>2, <1>4, FailStream DEF Outcomes
<1>5. CASE Ours(t) /\ bridge' = Flush(Queued(c, t), ok)
  <2> DEFINE s == Cur(bridge)
             n == Cur(bridge')
  <2>1. /\ bridge.session # None /\ loop = <<>>
        /\ IF Open(bridge) THEN s.waiting = None /\ s.pending = <<>>
           ELSE s.waiting # None
    BY <1>1, <1>5, LineFacts
  <2>2. ~Broken
    BY <1>1, OpenFacts DEF Broken, Given
  <2>3. CASE CallWaits(c, t)
    <3>1. /\ bridge'.session = bridge.session /\ bridge'.heard = bridge.heard
          /\ ~Open(bridge) /\ ~Open(bridge')
          /\ n.last = s.last /\ n.buffered = s.buffered
      BY <2>3 DEF CallWaits, Works, Open
    <3>. QED BY <2>2, <3>1, SameHolds DEF SameStream
  <2>4. CASE CallOffered(c, t)
    <3>1. /\ bridge'.session = bridge.session /\ bridge'.heard = bridge.heard
          /\ Open(bridge) /\ ~Open(bridge')
          /\ n.last = bridge.operation /\ n.buffered = s.buffered
      BY <2>4 DEF CallOffered, Completes, Works
    <3>. QED BY <2>1, <2>2, <3>1, SameHolds DEF SameStream
  <2>5. ASSUME NEW d, CallFails(c, t, d) PROVE Stream'
    <3>1. bridge'.session = None /\ bridge'.heard = bridge.heard
      BY <2>5 DEF CallFails, Fails, Dropped
    <3>. QED BY <3>1, GoneStream
  <2>6. CallWaits(c, t) \/ CallOffered(c, t) \/ \E d : CallFails(c, t, d)
    BY <1>1, <1>5, <2>1, QueueCases
  <2>. QED BY <2>3, <2>4, <2>5, <2>6
<1>. QED BY <1>3, <1>4, <1>5 DEF ServerRequest, Queued, b

\* A call of the app-server, the first time and again.
LEMMA CallStream ==
  ASSUME Given, Stream, NEW c \in Calls,
         \/ \E t \in Requests, wellFormed \in BOOLEAN : ToolCall(c, t, wellFormed)
         \/ ToolCallRepeated(c)
  PROVE  Stream'
<1>1. CASE \E t \in Requests, wellFormed \in BOOLEAN : ToolCall(c, t, wellFormed)
  <2>1. PICK t \in Requests, wellFormed \in BOOLEAN : ToolCall(c, t, wellFormed)
    BY <1>1
  <2>2. /\ Line /\ app.turn[t] = "running" /\ task' = task /\ loop' = loop
        /\ app'.items = app.items
        /\ \E ok : bridge' = ServerRequest(c, t, wellFormed, ok)
    BY <2>1 DEF ToolCall, Given, IInv, TypeOK
  <2>. QED BY <2>2, RequestStream
<1>2. CASE ToolCallRepeated(c)
  <2>1. /\ Line /\ app.asked[c] \in Requests /\ app.turn[app.asked[c]] = "running"
        /\ task' = task /\ loop' = loop /\ app' = app
        /\ \E ok : bridge' = ServerRequest(c, app.asked[c], TRUE, ok)
    BY <1>2 DEF ToolCallRepeated, Given, IInv, TypeOK, OptRequest
  <2>. QED BY <2>1, RequestStream
<1>. QED BY <1>1, <1>2

\* Every step keeps what was shown and what is to be shown in order.
LEMMA StreamInductive ==
  ASSUME Given, Stream, [Next]_vars PROVE Stream'
<1>1. CASE UNCHANGED vars
  BY <1>1, PlaceStream DEF vars, Place, SessionStill
<1>2. ASSUME NEW r \in Requests, RespondStep(r) PROVE Stream'
  BY <1>2, RespondStream, ContinueStream DEF RespondStep, ReleaseAnswered, ReleaseTimesOut
<1>3. ASSUME NEW r \in Requests, Continues(r) PROVE Stream'
  BY <1>3, OpensStream, RespondStream, DriveStream, AnswersStream, ReplaysStream,
     FlushesStream, CatchesStream DEF Continues
<1>4. ASSUME NEW t \in Requests, AppServerStep(t) PROVE Stream'
  BY <1>4, ReplyStream, EventStream, CallStream DEF AppServerStep
<1>5. ASSUME NEW c \in Calls, ToolCallRepeated(c) PROVE Stream'
  BY <1>5, CallStream
<1>6. CASE \/ SessionExpires \/ RpcStarted \/ PipeBreaks \/ RpcExits
           \/ CloseBegins \/ CloseEnds
  BY <1>6, ConnectionStream
<1>. QED BY <1>1, <1>2, <1>3, <1>4, <1>5, <1>6 DEF Next

\* Nothing was shown at first, and nothing said.
LEMMA InitialStream == Init => Stream
<1> SUFFICES ASSUME Init PROVE Stream
  OBVIOUS
<1>1. /\ bridge.session = None
      /\ \A t \in Requests : bridge.heard[t] = <<>> /\ app.items[t] = 0
  BY DEF Init
<1>. QED BY <1>1 DEF Stream, Told, Coherent

\* What the clients were shown, and what the session has still to show, are the
\* turn's events in their order, in every behaviour.
THEOREM StreamKept == Spec => [](IInv /\ Flight /\ Shape /\ Stream)
<1>1. Init => IInv /\ Flight /\ Shape /\ Stream
  BY Initially, InitialFlight, InitialShape, InitialStream
<1>2. IInv /\ Flight /\ Shape /\ Stream /\ [Next]_vars
        => (IInv /\ Flight /\ Shape /\ Stream)'
  BY Inductive, FlightInductive, ShapeInductive, StreamInductive
<1>. QED BY <1>1, <1>2, PTL DEF Spec


\* The numbers of the events that follow the k-th are those from k + 1 on.
LEMMA FollowsSet ==
  ASSUME NEW q \in Seq(Events), NEW k \in Nat, NEW n \in Nat, Follows(q, k, n)
  PROVE  (1 .. k) \cup {q[i].n : i \in {j \in 1 .. Len(q) : q[j].n > 0}} = 1 .. n
<1> DEFINE S == {j \in 1 .. Len(q) : q[j].n > 0}
           m == Len(q)
<1>1. m \in Nat /\ \A i \in 1 .. m : q[i].n \in Nat
  <2>1. m \in Nat /\ \A i \in 1 .. m : q[i] \in Events
    OBVIOUS
  <2>2. \A e \in Events : e.n \in Nat
    BY DEF Events
  <2> HIDE DEF m
  <2>. QED BY <2>1, <2>2
<1>2. \A i \in 1 .. m : IF q[i].kind \in Ends THEN i = m /\ q[i].n = 0 ELSE q[i].n = k + i
  BY DEF Follows
<1>3. n = k + (IF m > 0 /\ q[m].kind \in Ends THEN m - 1 ELSE m)
  <2>1. q # <<>> <=> m > 0
    BY <1>1, NoElements
  <2>. QED BY <2>1 DEF Follows
<1>4. \A i \in S : i \in 1 .. m /\ q[i].n > 0
  OBVIOUS
<1>5. \A i \in 1 .. m : q[i].n > 0 => i \in S
  OBVIOUS
<1> HIDE DEF S, m
<1>6. ASSUME NEW x \in 1 .. n PROVE x \in 1 .. k \/ \E i \in S : x = q[i].n
  <2>1. CASE x > k
    <3>1. PICK i \in 1 .. m : x = k + i
      <4>1. n <= k + m
        BY <1>1, <1>3
      <4>2. x - k \in 1 .. m /\ x = k + (x - k)
        BY <1>1, <2>1, <4>1
      <4>. QED BY <4>2
    <3>2. q[i].kind \notin Ends
      <4>1. ASSUME q[i].kind \in Ends PROVE FALSE
        <5>1. i = m /\ m > 0
          BY <1>2, <4>1
        <5>. QED BY <1>1, <1>3, <3>1, <4>1, <5>1
      <4>. QED BY <4>1
    <3>3. q[i].n = x
      BY <1>2, <3>1, <3>2
    <3>. QED BY <1>5, <2>1, <3>1, <3>3
  <2>. QED BY <2>1
<1>7. ASSUME NEW i \in S PROVE q[i].n \in 1 .. n
  <2>1. i \in 1 .. m /\ q[i].kind \notin Ends /\ q[i].n = k + i
    BY <1>2, <1>4
  <2>2. m > 0 /\ q[m].kind \in Ends => i # m
    BY <2>1
  <2>. QED BY <1>1, <1>3, <2>1, <2>2
<1>8. k <= n
  BY <1>1, <1>3
<1>9. (1 .. k) \cup {q[i].n : i \in S} = 1 .. n
  BY <1>6, <1>7, <1>8
<1>. QED BY <1>9 DEF S

\* The clients are shown each turn in its order and without gaps, in responses of
\* that turn, and what has not been shown is in the buffer or in the hands of the
\* replay (lines 103-108, 196-207).
THEOREM StreamAlwaysInOrder == Spec => []StreamInOrder
<1>1. IInv /\ Flight /\ Shape /\ Stream => StreamInOrder
  <2> SUFFICES ASSUME IInv, Flight, Shape, Stream, NEW t \in Requests
      PROVE  /\ \A i \in DOMAIN bridge.heard[t] :
                  /\ bridge.heard[t][i].n = i
                  /\ task[bridge.heard[t][i].by].turn = t
             /\ /\ bridge.session # None /\ task[t].session = bridge.session
                /\ \A r \in Requests : task[r].drv # "failed"
                => LET kept == loop \o Cur(bridge).buffered
                       at == {i \in DOMAIN kept : kept[i].turn = t /\ kept[i].n > 0}
                   IN {bridge.heard[t][i].n : i \in DOMAIN bridge.heard[t]}
                        \cup {kept[i].n : i \in at} = 1 .. app.items[t]
    BY DEF StreamInOrder
  <2> DEFINE h == bridge.heard[t]
             kept == loop \o Cur(bridge).buffered
             at == {i \in DOMAIN kept : kept[i].turn = t /\ kept[i].n > 0}
             k == Len(h)
  <2>1. /\ bridge \in BridgeState /\ loop \in Seq(Events) /\ app.items[t] \in Nat
        /\ h \in Seq([n : Nat, by : Requests])
    BY DEF IInv, TypeOK, BridgeState
  <2>2. k \in Nat /\ DOMAIN h = 1 .. k
    BY <2>1
  <2> HIDE DEF k
  <2>3. \A i \in DOMAIN h : h[i].n = i /\ task[h[i].by].turn = t
    BY <2>2 DEF Stream, Told, k
  <2> HIDE DEF h
  <2>4. {h[i].n : i \in DOMAIN h} = 1 .. k
    BY <2>2, <2>3
  <2>5. ASSUME bridge.session # None, task[t].session = bridge.session,
               \A r \in Requests : task[r].drv # "failed"
        PROVE  {h[i].n : i \in DOMAIN h} \cup {kept[i].n : i \in at} = 1 .. app.items[t]
    <3> DEFINE s == Cur(bridge)
    <3>1. s \in Session /\ s.buffered \in Seq(Events)
      BY <2>1, <2>5, CurType DEF Session
    <3>2. ~Broken
      BY <2>5, OpenFacts DEF Broken
    <3>3. loop # <<>> => s.buffered = <<>>
      <4>1. ASSUME loop # <<>> PROVE s.buffered = <<>>
        <5>1. Open(bridge)
          BY <2>5, <3>2, <4>1 DEF Stream, Coherent
        <5>2. PICK r \in Requests : task[r].drv = "replay"
          BY <4>1 DEF Shape, Turns
        <5>3. bridge.operation = r
          BY <5>2, ReplayFacts
        <5>. QED BY <2>5, <5>1, <5>2, <5>3 DEF Shape, Busy
      <4>. QED BY <4>1
    <3>4. kept = ToGo /\ kept \in Seq(Events)
      BY <2>1, <3>1, <3>3 DEF ToGo
    <3> HIDE DEF s
    <3>5. TheTurn \in Opened
      BY <2>5, OpenFacts DEF TheTurn, Shape, TasksOK, TaskOK, Rest
    <3>6. \A i \in 1 .. Len(kept) : kept[i].turn = TheTurn
      <4>1. kept \in {loop, s.buffered}
        BY <3>4 DEF ToGo, s
      <4>2. \A e \in Range(loop) \cup Range(s.buffered) : e.turn = TheTurn
        BY <2>5 DEF Shape, Turns, Coming, EventOK, s
      <4>3. ASSUME NEW q \in Seq(Events), NEW i \in 1 .. Len(q) PROVE q[i] \in Range(q)
        BY DEF Range
      <4>. QED BY <2>1, <3>1, <4>1, <4>2, <4>3
    <3>7. DOMAIN kept = 1 .. Len(kept)
      BY <3>4
    <3> HIDE DEF kept
    <3>8. CASE t # TheTurn
      <4>1. at = {}
        BY <3>6, <3>7, <3>8
      <4>2. app.items[t] = k
        <5>1. CASE t \in Opened
          BY <2>5, <3>2, <3>8, <5>1 DEF Stream, Coherent, h, k
        <5>2. CASE t \notin Opened
          BY <5>2 DEF Stream, Told, h, k
        <5>. QED BY <5>1, <5>2
      <4>. QED BY <2>4, <4>1, <4>2
    <3>9. CASE t = TheTurn
      <4>1. Follows(kept, k, app.items[t])
        BY <2>5, <3>2, <3>4, <3>9 DEF Stream, Coherent, h, k
      <4>2. at = {j \in 1 .. Len(kept) : kept[j].n > 0}
        BY <3>6, <3>7, <3>9
      <4>3. (1 .. k) \cup {kept[i].n : i \in {j \in 1 .. Len(kept) : kept[j].n > 0}}
              = 1 .. app.items[t]
        BY <2>1, <2>2, <3>4, <4>1, FollowsSet
      <4> HIDE DEF at
      <4>. QED BY <2>4, <4>2, <4>3
    <3>. QED BY <3>8, <3>9
  <2>. QED BY <2>3, <2>5 DEF h
<1>. QED BY <1>1, StreamKept, PTL

=============================================================================
