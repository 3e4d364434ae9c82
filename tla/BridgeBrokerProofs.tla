------------------------ MODULE BridgeBrokerProofs --------------------------
(***************************************************************************)
(* Bridge implements ToolBroker, for every value of the constants: each    *)
(* step of the bridge is a step of the broker or leaves its queue, its     *)
(* offer and the fates alone.                                              *)
(*                                                                         *)
(* The first part says what the broker sees of one kind of step: the calls *)
(* stay as they are, a session ends with all it holds, a call is turned    *)
(* away.  The second goes through the actions.                             *)
(***************************************************************************)
EXTENDS BridgeTurnProofs, BridgeBroker

\* From b to d the broker sees nothing.
Rests(b, d) ==
    QueueOf(d) = QueueOf(b) /\ (OfferedIn(d) <=> OfferedIn(b)) /\ d.answers = b.answers

\* The session ends: what it holds is cancelled if the link is up, the new
\* calls R are refused, and no other call is touched.
Leaves(up, R) ==
    /\ bridge'.session = None
    /\ \A c \in Calls :
         /\ app'.asked[c] # None <=> app.asked[c] # None \/ c \in R
         /\ IF up /\ c \in Range(Queue) \cup R
            THEN /\ bridge'.answers[c] # <<>>
                 /\ bridge'.answers[c][1].kind =
                      IF c \in R THEN "error" ELSE "cancelled"
            ELSE bridge'.answers[c] = bridge.answers[c]

\* The new call c gets an answer, or none on a dead link; nothing else changes.
Turned(c) ==
    /\ app.asked[c] = None /\ Queue' = Queue /\ (IsOffered' <=> IsOffered)
    /\ \A x \in Calls :
         /\ app'.asked[x] # None <=> app.asked[x] # None \/ x = c
         /\ x # c => bridge'.answers[x] = bridge.answers[x]
    /\ bridge'.answers[c] # <<>> =>
         bridge'.answers[c][1].kind \in {"error", "cancelled"}

-----------------------------------------------------------------------------
(* The queue, the offer and the fates *)

\* The queue holds the calls that the session owes an answer.
LEMMA QueueHolds ==
  ASSUME NEW b \in BridgeState
  PROVE  /\ QueueOf(b) \in Seq(Calls)
         /\ Range(QueueOf(b)) = IF b.session = None THEN {} ELSE Held(Cur(b))
<1>1. CASE b.session = None
  BY <1>1 DEF QueueOf, Range
<1>2. CASE b.session # None
  <2> DEFINE s == Cur(b)
             p == s.pending
  <2>1. p \in Seq(Calls) /\ s.waiting \in OptCall
    BY <1>2, CurType DEF Session
  <2>2. CASE s.waiting = None
    <3>1. QueueOf(b) = <<>> \o p
      BY <1>2, <2>2 DEF QueueOf
    <3>2. QueueOf(b) = p
      BY <2>1, <3>1
    <3>. QED BY <1>2, <2>1, <2>2, <3>2 DEF Held
  <2>3. CASE s.waiting # None
    <3> DEFINE w == s.waiting
               q == <<w>> \o p
    <3>1. QueueOf(b) = q /\ w \in Calls
      BY <1>2, <2>1, <2>3 DEF QueueOf, OptCall
    <3>2. q \in Seq(Calls) /\ Len(q) = Len(p) + 1 /\ q[1] = w
          /\ \A i \in 1 .. Len(p) : q[i + 1] = p[i]
      BY <2>1, <3>1
    <3>3. DOMAIN q = 1 .. Len(p) + 1 /\ DOMAIN p = 1 .. Len(p) /\ Len(p) \in Nat
      BY <2>1, <3>2
    <3> HIDE DEF q
    <3>4. \A i \in DOMAIN q : q[i] = w \/ \E j \in DOMAIN p : q[i] = p[j]
      <4>1. \A i \in DOMAIN q : i = 1 \/ \E j \in DOMAIN p : i = j + 1
        <5>1. ASSUME NEW i \in DOMAIN q, i # 1 PROVE i - 1 \in DOMAIN p /\ i = (i - 1) + 1
          BY <3>3, <5>1
        <5>. QED BY <5>1
      <4>. QED BY <3>2, <3>3, <4>1
    <3>5. 1 \in DOMAIN q /\ \A j \in DOMAIN p : j + 1 \in DOMAIN q
      BY <3>3
    <3>6. Range(q) = {w} \cup Range(p)
      BY <3>2, <3>3, <3>4, <3>5 DEF Range
    <3>. QED BY <1>2, <2>3, <3>1, <3>2, <3>6 DEF Held
  <2>. QED BY <2>2, <2>3
<1>. QED BY <1>1, <1>2

\* What the queue holds was asked for and is unanswered.
LEMMA QueueOwed ==
  ASSUME IInv, NEW c \in Range(Queue)
  PROVE  c \in Calls /\ app.asked[c] # None /\ bridge.answers[c] = <<>>
<1>1. bridge \in BridgeState
  BY DEF IInv, TypeOK
<1>2. bridge.session # None /\ c \in Held(Cur(bridge)) /\ Cur(bridge) \in Session
  BY <1>1, QueueHolds, CurType DEF Queue
<1>. QED BY <1>2, HeldType DEF IInv, CallInv, CallsOK, HoldsOnce

\* Only a call of the queue is offered.
LEMMA OfferedQueue ==
  ASSUME NEW b \in BridgeState, OfferedIn(b) PROVE QueueOf(b) # <<>>
<1>1. b.session # None /\ Cur(b).waiting # None /\ Cur(b).pending \in Seq(Calls)
      /\ Cur(b).waiting \in OptCall
  BY CurType DEF OfferedIn, Session
<1>2. Cur(b).waiting \in Held(Cur(b))
  BY <1>1 DEF Held
<1>3. Range(<<>>) = {}
  BY DEF Range
<1>. QED BY <1>1, <1>2, <1>3, QueueHolds

\* A fresh call is unseen by the broker.
LEMMA FreshUnseen ==
  ASSUME IInv, NEW c \in Calls, app.asked[c] = None
  PROVE  /\ Broker!Unseen(c) /\ Fate[c] = "none" /\ c \notin Range(Queue)
         /\ bridge.answers[c] = <<>>
<1>1. c \notin Range(Queue)
  BY QueueOwed
<1>2. bridge.answers[c] = <<>>
  BY DEF IInv, CallInv, CallsOK
<1>. QED BY <1>1, <1>2 DEF Broker!Unseen, Broker!Range, Range, Fate, FateOf

\* States with one session at the same calls rest.
LEMMA SameRests ==
  ASSUME NEW b, NEW d, d.session = b.session, d.op = b.op, d.answers = b.answers,
         b.session # None =>
           Cur(d).waiting = Cur(b).waiting /\ Cur(d).pending = Cur(b).pending
  PROVE  Rests(b, d)
BY DEF Rests, QueueOf, OfferedIn

\* States without calls rest.
LEMMA EmptyRests ==
  ASSUME NEW b \in BridgeState, NEW d \in BridgeState, d.answers = b.answers,
         b.session # None => Held(Cur(b)) = {}, d.session # None => Held(Cur(d)) = {}
  PROVE  Rests(b, d)
<1>1. ASSUME NEW x \in BridgeState, x.session # None => Held(Cur(x)) = {}
      PROVE  QueueOf(x) = <<>>
  <2>1. CASE x.session # None
    <3>1. Cur(x).waiting = None /\ Cur(x).pending = <<>>
      BY <1>1, <2>1, CurType, HeldEmpty
    <3>. QED BY <2>1, <3>1 DEF QueueOf
  <2>. QED BY <2>1 DEF QueueOf
<1>. QED BY <1>1, OfferedQueue DEF Rests

\* A step at which the bridge rests is none of the broker's.
LEMMA RestStutters ==
  ASSUME Rests(bridge, bridge'), app'.asked = app.asked
  PROVE  UNCHANGED Broker!vars
<1>1. Queue' = Queue
  BY DEF Rests, Queue, QueueOf, Cur
<1>2. IsOffered' = IsOffered
  <2>1. IsOffered' <=> OfferedIn(bridge')
    BY DEF IsOffered, OfferedIn, Cur
  <2>2. IsOffered \in BOOLEAN /\ IsOffered' \in BOOLEAN
    BY DEF IsOffered, OfferedIn
  <2>. QED BY <2>1, <2>2 DEF Rests, IsOffered
<1>3. Fate' = Fate
  <2>1. Fate' = [c \in Calls |->
           IF bridge'.answers[c] # <<>> THEN bridge'.answers[c][1].kind
           ELSE IF app'.asked[c] # None /\ c \notin Range(Queue') THEN "lost"
           ELSE "none"]
    BY DEF Fate, FateOf, Queue
  <2>2. bridge'.answers = bridge.answers
    BY DEF Rests
  <2>. QED BY <1>1, <2>1, <2>2 DEF Fate, FateOf, Queue
<1>. QED BY <1>1, <1>2, <1>3 DEF Broker!vars

\* The fates, call by call, before and after a step.
LEMMA FateEach ==
  ASSUME NEW c \in Calls
  PROVE  /\ Fate[c] = IF bridge.answers[c] # <<>> THEN bridge.answers[c][1].kind
                      ELSE IF app.asked[c] # None /\ c \notin Range(Queue) THEN "lost"
                      ELSE "none"
         /\ Fate'[c] = IF bridge'.answers[c] # <<>> THEN bridge'.answers[c][1].kind
                       ELSE IF app'.asked[c] # None /\ c \notin Range(Queue') THEN "lost"
                       ELSE "none"
BY DEF Fate, FateOf, Queue

\* The fates of a step are a function on the calls.
LEMMA FateIs ==
  ASSUME NEW f, f = [c \in Calls |-> f[c]], \A c \in Calls : Fate'[c] = f[c]
  PROVE  Fate' = f
<1>1. Fate' = [c \in Calls |-> Fate'[c]]
  BY DEF Fate, FateOf
<1>. QED BY <1>1

\* A session that ends takes all its calls along, in one step of the broker.
LEMMA LeavesEnds ==
  ASSUME IInv, NEW up, NEW R \in SUBSET Calls, Leaves(up, R), \A c \in R : app.asked[c] = None
  PROVE  Broker!Next
<1> DEFINE end == IF up THEN "cancelled" ELSE "lost"
           f == [c \in Calls |-> IF c \in Range(Queue) THEN end
                                 ELSE IF c \in R
                                 THEN (IF end = "lost" THEN "lost" ELSE "error")
                                 ELSE Fate[c]]
<1>1. Queue' = <<>> /\ IsOffered' = FALSE
  BY DEF Leaves, Queue, QueueOf, IsOffered, OfferedIn
<1>2. Range(Queue') = {}
  BY <1>1 DEF Range
<1>3. ASSUME NEW c \in Calls PROVE Fate'[c] = f[c]
  <2>1. CASE c \in Range(Queue)
    <3>1. c \notin R /\ app.asked[c] # None /\ bridge.answers[c] = <<>>
      BY <2>1, QueueOwed
    <3>. QED BY <1>2, <2>1, <3>1, FateEach DEF Leaves
  <2>2. CASE c \notin Range(Queue) /\ c \in R
    <3>1. bridge.answers[c] = <<>>
      BY <2>2, FreshUnseen
    <3>. QED BY <1>2, <2>2, <3>1, FateEach DEF Leaves
  <2>3. CASE c \notin Range(Queue) /\ c \notin R
    BY <1>2, <2>3, FateEach DEF Leaves
  <2>. QED BY <2>1, <2>2, <2>3
<1>4. Fate' = f
  BY <1>3, FateIs
<1>5. \A c \in R : Broker!Unseen(c)
  BY FreshUnseen
<1>6. end \in {"cancelled", "lost"}
  OBVIOUS
<1>7. f = [c \in Calls |-> IF c \in Broker!Range(Queue) THEN end
                           ELSE IF c \in R
                           THEN (IF end = "lost" THEN "lost" ELSE "error")
                           ELSE Fate[c]]
  BY DEF Broker!Range, Range
<1> HIDE DEF end, f
<1>8. Broker!EndSession(end, R)
  BY <1>1, <1>4, <1>5, <1>7 DEF Broker!EndSession
<1>. QED BY <1>6, <1>8 DEF Broker!Next

\* A call that is turned away leaves the others alone.
LEMMA TurnsAway ==
  ASSUME IInv, NEW c \in Calls, Turned(c) PROVE Broker!Next
<1> DEFINE end == IF bridge'.answers[c] # <<>> THEN bridge'.answers[c][1].kind ELSE "lost"
           f == [Fate EXCEPT ![c] = end]
<1>1. Broker!Unseen(c) /\ c \notin Range(Queue)
  BY FreshUnseen DEF Turned
<1>2. end \in {"error", "cancelled", "lost"}
  BY DEF Turned
<1>3. Queue' = Queue /\ IsOffered' = IsOffered
  BY DEF Turned, IsOffered, OfferedIn
<1>4. ASSUME NEW x \in Calls PROVE Fate'[x] = IF x = c THEN end ELSE Fate[x]
  BY <1>1, <1>3, <1>4, FateEach DEF Turned
<1>5. Fate' = f
  <2>1. Fate = [x \in Calls |-> Fate[x]]
    BY DEF Fate, FateOf
  <2>2. f = [x \in Calls |-> IF x = c THEN end ELSE Fate[x]]
    BY <2>1
  <2>. QED BY <1>4, <2>2, FateIs
<1> HIDE DEF end
<1>6. Broker!TurnAway(c, end)
  BY <1>1, <1>3, <1>5 DEF Broker!TurnAway
<1>. QED BY <1>2, <1>6 DEF Broker!Next


-----------------------------------------------------------------------------
(* The actions *)

\* What the broker sees of a step.
Seen == Broker!Next \/ UNCHANGED Broker!vars

\* The session of a state b, in which the new calls R have been refused, is let
\* go of.
LEMMA DropsSeen ==
  ASSUME IInv, NEW b \in BridgeState, NEW t, Dropped(b, bridge', t),
         b.session = bridge.session,
         b.session # None => Held(Cur(b)) = Held(Cur(bridge)),
         NEW R \in SUBSET Calls, \A c \in R : app.asked[c] = None,
         \A c \in Calls :
           /\ app'.asked[c] # None <=> app.asked[c] # None \/ c \in R
           /\ IF b.rpc = "up" /\ c \in R
              THEN b.answers[c] # <<>> /\ b.answers[c][1].kind = "error"
              ELSE b.answers[c] = bridge.answers[c]
  PROVE  Seen
<1> DEFINE C == Range(Queue)
<1>1. bridge \in BridgeState /\ bridge'.session = None
  BY DEF IInv, TypeOK, Dropped
<1>2. C = IF b.session = None THEN {} ELSE Held(Cur(b))
  BY <1>1, QueueHolds DEF Queue
<1>3. \A c \in C : c \in Calls /\ c \notin R /\ bridge.answers[c] = <<>>
  BY QueueOwed
<1>4. ASSUME NEW c \in Calls
      PROVE  IF b.rpc = "up" /\ c \in C
             THEN bridge'.answers[c] # <<>> /\ bridge'.answers[c][1].kind = "cancelled"
             ELSE bridge'.answers[c] = b.answers[c]
  <2>1. CASE b.session = None
    BY <1>2, <2>1 DEF Dropped
  <2>2. CASE b.session # None
    <3>1. bridge'.answers = Answer(b, C, "cancelled", None)
      BY <1>2, <2>2 DEF Dropped
    <3>2. bridge'.answers[c] = IF c \in C /\ b.rpc = "up"
                               THEN Append(b.answers[c], [kind |-> "cancelled", by |-> None])
                               ELSE b.answers[c]
      BY <3>1 DEF Answer
    <3>3. c \in C => b.answers[c] = <<>>
      BY <1>3
    <3> DEFINE a == [kind |-> "cancelled", by |-> None]
    <3>4. Append(<<>>, a) # <<>> /\ Append(<<>>, a)[1] = a /\ a.kind = "cancelled"
      OBVIOUS
    <3> HIDE DEF a
    <3>5. CASE b.rpc = "up" /\ c \in C
      <4>1. bridge'.answers[c] = Append(<<>>, a)
        BY <3>2, <3>3, <3>5 DEF a
      <4>. QED BY <3>4, <3>5, <4>1
    <3>6. CASE ~(b.rpc = "up" /\ c \in C)
      BY <3>2, <3>6
    <3>. QED BY <3>5, <3>6
  <2>. QED BY <2>1, <2>2
<1> HIDE DEF C
<1>5. Leaves(b.rpc = "up", R)
  <2>1. ASSUME NEW c \in Calls
        PROVE  IF b.rpc = "up" /\ c \in C \cup R
               THEN /\ bridge'.answers[c] # <<>>
                    /\ bridge'.answers[c][1].kind =
                         IF c \in R THEN "error" ELSE "cancelled"
               ELSE bridge'.answers[c] = bridge.answers[c]
    <3>1. CASE b.rpc = "up" /\ c \in C
      BY <1>3, <1>4, <3>1
    <3>2. CASE ~(b.rpc = "up" /\ c \in C)
      BY <1>4, <3>2
    <3>. QED BY <3>1, <3>2
  <2>. QED BY <1>1, <2>1 DEF Leaves, C
<1>. QED BY <1>5, LeavesEnds DEF Seen

\* A session is let go of, and no call is made.
LEMMA GoesSeen ==
  ASSUME IInv, NEW b \in BridgeState, NEW t, Dropped(b, bridge', t),
         b.session = bridge.session, b.answers = bridge.answers,
         b.session # None => Held(Cur(b)) = Held(Cur(bridge)),
         app'.asked = app.asked
  PROVE  Seen
<1> DEFINE R == {}
<1>1. /\ R \in SUBSET Calls /\ \A c \in R : app.asked[c] = None
      /\ \A c \in Calls : app'.asked[c] # None <=> app.asked[c] # None \/ c \in R
      /\ \A c \in Calls : ~(b.rpc = "up" /\ c \in R)
  OBVIOUS
<1> HIDE DEF R
<1>. QED BY <1>1, DropsSeen

\* The operation fails, and no call is made.
LEMMA FailSeen ==
  ASSUME IInv, NEW o \in Outcomes \ {"none"}, bridge' = Fail(bridge, o),
         app'.asked = app.asked
  PROVE  Seen
<1>1. bridge \in BridgeState
  BY DEF IInv, TypeOK
<1>2. Dropped(bridge, bridge', Cur(bridge).turnId)
  BY <1>1, FailEffect DEF Fails
<1>. QED BY <1>1, <1>2, GoesSeen

\* Nothing that the calls depend on changes.
LEMMA SameSeen ==
  ASSUME bridge'.session = bridge.session, bridge'.op = bridge.op,
         bridge'.answers = bridge.answers, app'.asked = app.asked,
         bridge.session # None =>
           /\ Cur(bridge').waiting = Cur(bridge).waiting
           /\ Cur(bridge').pending = Cur(bridge).pending
  PROVE  Seen
BY SameRests, RestStutters DEF Seen

\* What a request does to the calls.
LEMMA RespondSeen ==
  ASSUME Given, NEW r \in Requests,
         \/ RespondRejected(r) \/ RespondNew(r) \/ RequestTimeout(r)
         \/ ClientGone(r) \/ RpcTimeout(r) \/ ReleaseNext(r) \/ RespondReturns(r)
  PROVE  Seen
<1>0. IInv /\ bridge \in BridgeState
  BY DEF Given, IInv, TypeOK
<1>1. CASE RespondNew(r)
  <2> DEFINE b == [bridge EXCEPT !.busy = TRUE]
  <2>1. /\ b \in BridgeState /\ b.session = bridge.session /\ b.sess = bridge.sess
        /\ b.answers = bridge.answers
    BY <1>0 DEF BridgeState
  <2>2. bridge' = Release(b) /\ app' = app
    BY <1>1 DEF RespondNew
  <2> HIDE DEF b
  <2>3. Dropped(b, bridge', Cur(b).turnId) /\ Cur(b) = Cur(bridge)
    BY <2>1, <2>2, ReleaseEffect DEF Cur
  <2>. QED BY <1>0, <2>1, <2>2, <2>3, GoesSeen
<1>2. CASE bridge' = bridge /\ app' = app
  BY <1>2, SameSeen
<1>3. ASSUME NEW o \in Outcomes \ {"none"}, bridge' = Fail(bridge, o), app' = app
      PROVE  Seen
  BY <1>0, <1>3, FailSeen
<1>4. CASE ReleaseNext(r) \/ RespondReturns(r)
  <2>1. /\ bridge'.session = bridge.session /\ bridge'.sess = bridge.sess
        /\ bridge'.op = bridge.op /\ bridge'.answers = bridge.answers /\ app' = app
    BY <1>0, <1>4 DEF ReleaseNext, RespondReturns, BridgeState
  <2>. QED BY <2>1, SameSeen DEF Cur
<1>. QED BY <1>1, <1>2, <1>3, <1>4
         DEF RespondRejected, RequestTimeout, ClientGone, RpcTimeout, Outcomes

\* A request that opens its operation, or fails with the session.
LEMMA BeginsSeen ==
  ASSUME Given, NEW r \in Requests,
         \/ RespondOpens(r)
         \/ \E prev \in OptRequest, tool \in OptCall : RespondContinue(r, prev, tool)
  PROVE  Seen
<1>0. IInv /\ bridge \in BridgeState /\ Rest
  BY DEF Given, IInv, TypeOK, Shape
<1>1. CASE RespondOpens(r)
  <2>1. /\ bridge.session = None /\ bridge'.answers = bridge.answers /\ app' = app
        /\ bridge'.session # None => Cur(bridge') = NewSession
    BY <1>1, OpensEffect DEF Given
  <2>2. bridge' \in BridgeState /\ Held(NewSession) = {}
    BY DEF Given, IInv, TypeOK, NewSession, Held, Range
  <2>. QED BY <1>0, <2>1, <2>2, EmptyRests, RestStutters DEF Seen
<1>2. ASSUME NEW prev \in OptRequest, NEW tool \in OptCall,
             RespondContinue(r, prev, tool)
      PROVE  Seen
  <2> DEFINE b == [bridge EXCEPT !.busy = TRUE, !.ttl = FALSE, !.operation = r]
  <2>1. /\ b \in BridgeState /\ b.session = bridge.session /\ b.sess = bridge.sess
        /\ b.answers = bridge.answers /\ b.op = bridge.op
    BY <1>0 DEF BridgeState, OptRequest
  <2>2. (bridge' = b \/ bridge' = Fail(b, "failed")) /\ app' = app
    BY <1>2 DEF RespondContinue, Begin
  <2> HIDE DEF b
  <2>3. CASE bridge' = b
    BY <2>1, <2>2, <2>3, SameSeen DEF Cur
  <2>4. CASE bridge' = Fail(b, "failed")
    <3>1. Dropped(b, bridge', Cur(b).turnId) /\ Cur(b) = Cur(bridge)
      BY <2>1, <2>4, FailEffect DEF Fails, Cur, Outcomes
    <3>. QED BY <1>0, <2>1, <2>2, <3>1, GoesSeen
  <2>. QED BY <2>2, <2>3, <2>4
<1>. QED BY <1>1, <1>2

\* What a drive does before it replays, the answer to a call apart.
LEMMA DriveSeen ==
  ASSUME Given, NEW r \in Requests,
         \/ DriveStarts(r) \/ DriveSendsMessage(r) \/ ThreadTooLate(r)
         \/ ThreadArrives(r) \/ TurnTooLate(r) \/ TurnArrives(r)
         \/ DriveRefused(r) \/ DriveCatches(r)
  PROVE  Seen
<1>0. IInv /\ bridge \in BridgeState /\ app'.asked = app.asked
  BY DriveCarries DEF Given, IInv, TypeOK
<1>2. CASE bridge' = bridge
  BY <1>0, <1>2, SameSeen
<1>3. ASSUME NEW f, \/ bridge' = [bridge EXCEPT !.unsubscribed = f]
                    \/ bridge' = [bridge EXCEPT !.interrupted = f]
      PROVE  Seen
  <2>1. /\ bridge'.session = bridge.session /\ bridge'.sess = bridge.sess
        /\ bridge'.op = bridge.op /\ bridge'.answers = bridge.answers
    BY <1>0, <1>3 DEF BridgeState
  <2>. QED BY <1>0, <2>1, SameSeen DEF Cur
<1>4. CASE bridge' = Fail(bridge, "failed")
  BY <1>0, <1>4, FailSeen DEF Outcomes
<1>5. ASSUME NEW s \in Session, bridge.session # None,
             s.waiting = Cur(bridge).waiting, s.pending = Cur(bridge).pending,
             bridge' = [bridge EXCEPT !.sess[bridge.session] = s]
      PROVE  Seen
  <2>1. /\ Works(bridge, bridge') /\ Cur(bridge') = s
        /\ bridge'.op = bridge.op /\ bridge'.answers = bridge.answers
    BY <1>0, <1>5, CurEffect
  <2>. QED BY <1>0, <1>5, <2>1, SameSeen DEF Works
<1>6. CASE ThreadArrives(r) \/ TurnArrives(r)
  <2> DEFINE s == Cur(bridge)
             u == [s EXCEPT !.thread = TRUE]
             v == [s EXCEPT !.turnId = r]
  <2>0. bridge.session # None
    BY <1>6, DrivenOpened, NoneAssumption
       DEF ThreadArrives, TurnArrives, Resolved, Current, Given
  <2>1. s \in Session
    BY <1>0, <2>0, CurType
  <2>2. /\ u \in Session /\ u.waiting = s.waiting /\ u.pending = s.pending
        /\ v \in Session /\ v.waiting = s.waiting /\ v.pending = s.pending
    BY <2>1 DEF Session, OptRequest
  <2>3. \/ bridge' = bridge
        \/ bridge' = [bridge EXCEPT !.sess[bridge.session] = u]
        \/ bridge' = [bridge EXCEPT !.sess[bridge.session] = v]
    BY <1>6 DEF ThreadArrives, TurnArrives, Cur
  <2> HIDE DEF u, v
  <2>. QED BY <1>2, <1>5, <2>0, <2>2, <2>3
<1>. QED BY <1>2, <1>3, <1>4, <1>6
         DEF DriveStarts, DriveSendsMessage, ThreadTooLate, TurnTooLate, DriveRefused,
             DriveCatches

\* Consuming a notification.
LEMMA ConsumeSeen ==
  ASSUME IInv, NEW e \in Events, NEW ok, bridge' = Consume(bridge, e, ok),
         app'.asked = app.asked
  PROVE  Seen
<1>0. bridge \in BridgeState
  BY DEF IInv, TypeOK
<1>1. CASE bridge' = bridge
  BY <1>1, SameSeen
<1>2. CASE /\ Works(bridge, bridge') /\ bridge'.sess = bridge.sess
           /\ bridge'.op = bridge.op /\ bridge'.answers = bridge.answers
  BY <1>2, SameSeen DEF Works, Cur
<1>3. CASE /\ Works(bridge, bridge') /\ bridge'.answers = bridge.answers
           /\ Held(Cur(bridge)) = {} /\ Held(Cur(bridge')) = {}
  BY <1>0, <1>3, EmptyRests, RestStutters DEF Works, Seen
<1>4. CASE /\ Works(bridge, bridge') /\ bridge'.answers = bridge.answers
           /\ Held(Cur(bridge)) = {}
           /\ \/ Cur(bridge') = [Cur(bridge) EXCEPT !.turnId = None]
              \/ Cur(bridge') = [Cur(bridge) EXCEPT !.turnId = None,
                                                    !.last = bridge.operation]
  <2>1. Cur(bridge) \in Session
    BY <1>0, <1>4, CurType DEF Works
  <2>2. Held(Cur(bridge')) = Held(Cur(bridge))
    BY <1>4, <2>1 DEF Session, Held
  <2>. QED BY <1>3, <1>4, <2>2
<1>5. \/ bridge' = bridge
      \/ /\ Works(bridge, bridge') /\ bridge'.sess = bridge.sess
         /\ bridge'.op = bridge.op /\ bridge'.answers = bridge.answers
      \/ /\ Works(bridge, bridge') /\ bridge'.answers = bridge.answers
         /\ Held(Cur(bridge)) = {}
         /\ \/ Cur(bridge') = [Cur(bridge) EXCEPT !.turnId = None]
            \/ Cur(bridge') = [Cur(bridge) EXCEPT !.turnId = None,
                                                  !.last = bridge.operation]
  BY <1>0, ConsumeEffect
<1>. QED BY <1>1, <1>2, <1>4, <1>5

\* A queue is its head and then the others.
LEMMA HeadTail ==
  ASSUME NEW S, NEW p \in Seq(S), p # <<>> PROVE <<Head(p)>> \o Tail(p) = p
OBVIOUS

\* The answer finishes the call that was offered.
LEMMA AnswersSeen ==
  ASSUME Given, NEW r \in Requests, DriveAnswersTool(r) PROVE Seen
<1> DEFINE s == Cur(bridge)
           n == Cur(bridge')
           w == s.waiting
<1>0. IInv /\ bridge \in BridgeState /\ Flight
  BY DEF Given, IInv, TypeOK
<1>1. /\ bridge.session # None /\ Open(bridge) /\ bridge.operation = r
      /\ task[r].drv = "start" /\ task[r].tool # None /\ app' = app
      /\ bridge'.session = bridge.session
      /\ n.waiting = None /\ n.pending = s.pending
      /\ \/ /\ bridge.rpc = "up"
            /\ bridge'.answers = Answer(bridge, {w}, "result", r)
         \/ /\ bridge.rpc # "up" /\ bridge'.answers = bridge.answers
  BY <1>0, AnswersEffect
<1>2. w = task[r].tool /\ r \in Opened
  BY <1>0, <1>1, OpenFacts DEF Given, Shape, Busy
<1>3. s \in Session /\ w \in Calls /\ s.pending \in Seq(Calls)
  BY <1>0, <1>1, <1>2, CurType DEF Session, OptCall
<1>4. Queue = <<w>> \o s.pending /\ Queue' = s.pending
  <2>1. Queue = <<w>> \o s.pending
    BY <1>1, <1>2 DEF Queue, QueueOf
  <2>2. Queue' = <<>> \o s.pending
    BY <1>1 DEF Queue, QueueOf, Cur
  <2>. QED BY <1>3, <2>1, <2>2
<1>5. Head(Queue) = w /\ Tail(Queue) = s.pending /\ Queue # <<>>
  BY <1>3, <1>4
<1>6. IsOffered = TRUE
  <2>1. /\ task[r].prev \in Opened
        /\ bridge.op[task[r].prev] = [offered |-> w, outcome |-> "ok"]
    BY <1>1, <1>2 DEF Given, Shape, TasksOK, TaskOK
  <2>2. task[r].prev \in Requests
    BY <2>1 DEF Opened
  <2>. QED BY <1>1, <1>2, <2>1, <2>2 DEF IsOffered, OfferedIn
<1>7. IsOffered' = FALSE
  BY <1>1 DEF IsOffered, OfferedIn, Cur
<1>8. w \notin Range(s.pending) /\ bridge.answers[w] = <<>> /\ app.asked[w] # None
  <2>1. w \in Held(s)
    BY <1>3, NoneAssumption DEF Held
  <2>. QED BY <1>0, <1>1, <2>1 DEF IInv, CallInv, CallsOK, HoldsOnce
<1>9. Range(Queue) = {w} \cup Range(s.pending)
  <2>1. Range(Queue) = Held(s)
    BY <1>0, <1>1, QueueHolds DEF Queue
  <2>. QED BY <1>3, <2>1, NoneAssumption DEF Held
<1> DEFINE end == IF bridge.rpc = "up" THEN "result" ELSE "lost"
           f == [Fate EXCEPT ![w] = end]
<1>10. ASSUME NEW c \in Calls PROVE Fate'[c] = IF c = w THEN end ELSE Fate[c]
  <2>1. c # w => bridge'.answers[c] = bridge.answers[c]
    BY <1>0, <1>1, AnswerEach
  <2>2. c # w => (c \in Range(Queue') <=> c \in Range(Queue))
    BY <1>4, <1>9
  <2>3. bridge.rpc = "up" => bridge'.answers[w] # <<>> /\ bridge'.answers[w][1].kind = "result"
    <3> SUFFICES ASSUME bridge.rpc = "up"
        PROVE  bridge'.answers[w] # <<>> /\ bridge'.answers[w][1].kind = "result"
      OBVIOUS
    <3> DEFINE a == [kind |-> "result", by |-> r]
    <3>1. Append(<<>>, a) # <<>> /\ Append(<<>>, a)[1] = a /\ a.kind = "result"
      OBVIOUS
    <3>2. bridge'.answers[w] = Append(<<>>, a)
      BY <1>1, <1>3, <1>8 DEF Answer
    <3> HIDE DEF a
    <3>. QED BY <3>1, <3>2
  <2>4. bridge.rpc # "up" => bridge'.answers[w] = <<>>
    BY <1>1, <1>8
  <2>5. w \notin Range(Queue') /\ app'.asked = app.asked
    BY <1>1, <1>4, <1>8
  <2>6. CASE c # w
    BY <2>1, <2>2, <2>5, <2>6, FateEach
  <2>7. CASE c = w
    <3>1. app'.asked[w] # None
      BY <1>8, <2>5
    <3>. QED BY <2>3, <2>4, <2>5, <2>7, <3>1, FateEach
  <2>. QED BY <2>6, <2>7
<1>11. Fate' = f
  <2>1. Fate = [x \in Calls |-> Fate[x]]
    BY DEF Fate, FateOf
  <2>2. f = [x \in Calls |-> IF x = w THEN end ELSE Fate[x]]
    BY <2>1
  <2>. QED BY <1>10, <2>2, FateIs
<1>12. end \in {"result", "lost"}
  OBVIOUS
<1> HIDE DEF end, w
<1>13. Broker!Finish(end)
  BY <1>4, <1>5, <1>6, <1>7, <1>11 DEF Broker!Finish
<1>. QED BY <1>12, <1>13 DEF Broker!Next, Seen

\* The queue gives its first call to the segment, and the client may see it.
LEMMA TakesSeen ==
  ASSUME IInv, CanFlush(bridge), bridge' \in BridgeState,
         bridge'.session = bridge.session, bridge'.answers = bridge.answers,
         Cur(bridge').waiting = Head(Cur(bridge).pending),
         Cur(bridge').pending = Tail(Cur(bridge).pending),
         app'.asked = app.asked
  PROVE  Seen
<1> DEFINE s == Cur(bridge)
           n == Cur(bridge')
           p == s.pending
<1>1. bridge \in BridgeState /\ bridge.session # None /\ s.waiting = None /\ p # <<>>
  BY DEF IInv, TypeOK, CanFlush
<1>2. p \in Seq(Calls)
  BY <1>1, CurType DEF Session
<1>3. Head(p) \in Calls /\ Head(p) # None
  BY <1>1, <1>2, NoneAssumption
<1>4. QueueOf(bridge) = p
  BY <1>1, <1>2 DEF QueueOf
<1>5. QueueOf(bridge') = p
  <2>1. QueueOf(bridge') = <<Head(p)>> \o Tail(p)
    BY <1>1, <1>3 DEF QueueOf
  <2>. QED BY <1>1, <1>2, <2>1, HeadTail
<1>6. ~OfferedIn(bridge)
  BY <1>1 DEF OfferedIn
<1>7. CASE ~OfferedIn(bridge')
  BY <1>4, <1>5, <1>6, <1>7, RestStutters DEF Rests, Seen
<1>8. CASE OfferedIn(bridge')
  <2>1. Queue = p /\ Queue' = p
    BY <1>4, <1>5 DEF Queue, QueueOf, Cur
  <2>2. IsOffered = FALSE /\ IsOffered' = TRUE
    BY <1>6, <1>8 DEF IsOffered, OfferedIn, Cur
  <2>3. \A c \in Calls : Fate'[c] = Fate[c]
    BY <2>1, FateEach
  <2>4. Fate' = Fate
    BY <2>3, FateIs DEF Fate, FateOf
  <2>5. Broker!Offer
    BY <1>1, <2>1, <2>2, <2>4 DEF Broker!Offer
  <2>. QED BY <2>5 DEF Broker!Next, Seen
<1>. QED BY <1>7, <1>8

\* The replay and its end.
LEMMA ReplaySeen ==
  ASSUME Given, NEW r \in Requests, DriveReplays(r) \/ DriveFlushes(r)
  PROVE  Seen
<1>0. IInv /\ bridge \in BridgeState /\ loop \in Seq(Events)
  BY DEF Given, IInv, TypeOK
<1>1. CASE DriveReplays(r)
  <2>1. Head(loop) \in Events
    BY <1>0, <1>1 DEF DriveReplays
  <2>. QED BY <1>0, <1>1, <2>1, ConsumeSeen DEF DriveReplays
<1>2. CASE bridge' = bridge /\ app' = app
  BY <1>2, SameSeen
<1>3. CASE /\ CanFlush(bridge) /\ app' = app
           /\ bridge' = Take(bridge) \/ bridge' = Offer(bridge)
  <2> DEFINE s == Cur(bridge)
             p == s.pending
  <2>1. /\ Works(bridge, bridge') /\ bridge'.answers = bridge.answers
        /\ \/ Cur(bridge') = [s EXCEPT !.waiting = Head(p), !.pending = Tail(p)]
           \/ Cur(bridge') = [s EXCEPT !.waiting = Head(p), !.pending = Tail(p),
                                       !.last = bridge.operation]
    BY <1>0, <1>3, TakeEffect, OfferEffect
  <2>2. s \in Session
    BY <1>0, <1>3, CurType DEF CanFlush
  <2>3. Cur(bridge').waiting = Head(p) /\ Cur(bridge').pending = Tail(p)
    BY <2>1, <2>2 DEF Session
  <2>. QED BY <1>0, <1>3, <2>1, <2>3, TakesSeen DEF Works
<1>. QED BY <1>1, <1>2, <1>3 DEF DriveFlushes, Flush

\* The connection and close().
LEMMA ConnectionSeen ==
  ASSUME Given,
         \/ SessionExpires \/ RpcStarted \/ PipeBreaks \/ RpcExits
         \/ CloseBegins \/ CloseEnds
  PROVE  Seen
<1>0. /\ bridge \in BridgeState /\ IInv
      /\ app' = app
  BY DEF Given, IInv, TypeOK, SessionExpires, RpcStarted, PipeBreaks, RpcExits,
         CloseBegins, CloseEnds
<1>1. CASE SessionExpires
  BY <1>0, <1>1, ReleaseEffect, GoesSeen DEF SessionExpires
<1>2. CASE RpcStarted \/ PipeBreaks
  <2>1. /\ bridge'.session = bridge.session /\ bridge'.sess = bridge.sess
        /\ bridge'.op = bridge.op /\ bridge'.answers = bridge.answers
    BY <1>0, <1>2 DEF RpcStarted, PipeBreaks, BridgeState
  <2>. QED BY <1>0, <2>1, SameSeen DEF Cur
<1>3. ASSUME NEW c, Alike(bridge, c), NEW t, Fails(c, bridge', t) PROVE Seen
  <2>1. /\ c \in BridgeState /\ c.session = bridge.session /\ Cur(c) = Cur(bridge)
        /\ c.answers = bridge.answers /\ Dropped(c, bridge', t)
    BY <1>3 DEF Alike, Fails, Cur
  <2>. QED BY <1>0, <2>1, GoesSeen
<1>4. CASE Exits(bridge)
  BY <1>0, <1>3, <1>4, ExitEffect
<1>5. CASE CloseBegins
  BY <1>0, <1>3, <1>5, CloseEffect
<1>6. CASE CloseEnds /\ bridge' = bridge
  BY <1>0, <1>6, SameSeen
<1>. QED BY <1>1, <1>2, <1>4, <1>5, <1>6 DEF RpcExits, CloseEnds

\* An event that is held or consumed.
LEMMA DeliverSeen ==
  ASSUME IInv, bridge.session # None, NEW e \in Events, NEW ok,
         bridge' = Deliver(e, ok), app'.asked = app.asked
  PROVE  Seen
<1> DEFINE s == Cur(bridge)
<1>0. bridge \in BridgeState /\ s \in Session
  BY CurType DEF IInv, TypeOK
<1>1. ASSUME NEW t, Fails(bridge, bridge', t) PROVE Seen
  BY <1>0, <1>1, GoesSeen DEF Fails
<1>2. CASE /\ Works(bridge, bridge') /\ Cur(bridge') = [s EXCEPT !.buffered = Append(@, e)]
           /\ bridge'.op = bridge.op /\ bridge'.answers = bridge.answers
  <2>1. Cur(bridge').waiting = s.waiting /\ Cur(bridge').pending = s.pending
    BY <1>0, <1>2 DEF Session
  <2>. QED BY <1>2, <2>1, SameSeen DEF Works
<1>3. CASE bridge' = Consume(bridge, e, ok)
  BY <1>3, ConsumeSeen
<1>4. \/ \E t : Fails(bridge, bridge', t)
      \/ /\ Works(bridge, bridge') /\ Cur(bridge') = [s EXCEPT !.buffered = Append(@, e)]
         /\ bridge'.op = bridge.op /\ bridge'.answers = bridge.answers
      \/ bridge' = Consume(bridge, e, ok)
  BY <1>0, DeliverEffect
<1>. QED BY <1>1, <1>2, <1>3, <1>4

\* The lines that carry no call.
LEMMA LineSeen ==
  ASSUME Given, NEW t \in Requests,
         \/ \E result : RpcReply(t, result)
         \/ \E announced : TurnBegins(t, announced)
         \/ \E kind \in {"text", "bad"} : ItemEvent(t, kind)
         \/ \E kind \in {"completed", "failed"} : TurnEnds(t, kind)
         \/ \E blocked : FatalNotice(t, blocked)
  PROVE  Seen
<1>1. IInv /\ bridge \in BridgeState /\ app'.asked = app.asked
  BY LineCarries DEF Given, IInv, TypeOK
<1>3. CASE bridge' = bridge
  BY <1>1, <1>3, SameSeen
<1>4. ASSUME Ours(t), bridge' = [bridge EXCEPT !.sess[bridge.session].turnId = t]
      PROVE  Seen
  <2> DEFINE s == Cur(bridge)
             v == [s EXCEPT !.turnId = t]
  <2>1. bridge.session # None /\ s \in Session
    BY <1>1, <1>4, CurType DEF Ours
  <2>2. v \in Session /\ v.waiting = s.waiting /\ v.pending = s.pending
    BY <2>1 DEF Session, OptRequest
  <2>3. bridge' = [bridge EXCEPT !.sess[bridge.session] = v]
    BY <1>4 DEF Cur
  <2> HIDE DEF v
  <2>4. /\ Works(bridge, bridge') /\ Cur(bridge') = v
        /\ bridge'.op = bridge.op /\ bridge'.answers = bridge.answers
    BY <1>1, <2>1, <2>2, <2>3, CurEffect
  <2>. QED BY <1>1, <2>2, <2>4, SameSeen DEF Works
<1>5. ASSUME NEW e \in Events, NEW ok, Ours(t), bridge' = Deliver(e, ok)
      PROVE  Seen
  BY <1>1, <1>5, DeliverSeen DEF Ours
<1>6. CASE bridge' = Fail(bridge, "failed")
  BY <1>1, <1>6, FailSeen DEF Outcomes
<1>7. ASSUME NEW kind \in {"text", "bad"}, ItemEvent(t, kind) PROVE Seen
  <2> DEFINE e == [kind |-> kind, turn |-> t, n |-> app.items[t] + 1]
  <2>1. e \in Events
    BY DEF Events, Given, IInv, TypeOK
  <2>2. \/ bridge' = bridge
        \/ Ours(t) /\ \E ok : bridge' = Deliver(e, ok)
    BY <1>7 DEF ItemEvent
  <2> HIDE DEF e
  <2>. QED BY <1>3, <1>5, <2>1, <2>2
<1>8. ASSUME NEW kind \in {"completed", "failed"}, TurnEnds(t, kind) PROVE Seen
  <2> DEFINE e == [kind |-> kind, turn |-> t, n |-> 0]
  <2>1. e \in Events
    BY DEF Events
  <2>2. \/ bridge' = bridge
        \/ Ours(t) /\ \E ok : bridge' = Deliver(e, ok)
    BY <1>8 DEF TurnEnds
  <2> HIDE DEF e
  <2>. QED BY <1>3, <1>5, <2>1, <2>2
<1>. QED BY <1>3, <1>4, <1>6, <1>7, <1>8 DEF RpcReply, TurnBegins, FatalNotice

\* The app-server makes the new call c, and no other.
Asked(c) ==
    /\ app.asked[c] = None
    /\ \A x \in Calls : app'.asked[x] # None <=> app.asked[x] # None \/ x = c

\* A call of another session's thread is refused.
LEMMA RefusedSeen ==
  ASSUME IInv, NEW c \in Calls, Asked(c), bridge' = Refuse(c) PROVE Seen
<1>1. bridge \in BridgeState
  BY DEF IInv, TypeOK
<1>2. /\ bridge'.session = bridge.session /\ bridge'.sess = bridge.sess
      /\ bridge'.op = bridge.op
      /\ bridge'.answers = Answer(bridge, {c}, "error", None)
  BY <1>1, RefuseEffect DEF Asked
<1>3. Queue' = Queue /\ (IsOffered' <=> IsOffered)
  BY <1>2 DEF Queue, QueueOf, IsOffered, OfferedIn, Cur
<1>4. \A x \in Calls : x # c => bridge'.answers[x] = bridge.answers[x]
  BY <1>1, <1>2, AnswerEach
<1>5. bridge'.answers[c] # <<>> => bridge'.answers[c][1].kind = "error"
  <2> DEFINE a == [kind |-> "error", by |-> None]
  <2>1. Append(<<>>, a)[1] = a /\ a.kind = "error"
    OBVIOUS
  <2>2. bridge'.answers[c] = IF bridge.rpc = "up" THEN Append(<<>>, a) ELSE <<>>
    BY <1>2, FreshUnseen DEF Answer, Asked
  <2> HIDE DEF a
  <2>. QED BY <2>1, <2>2
<1>. QED BY <1>3, <1>4, <1>5, TurnsAway DEF Turned, Asked, Seen

\* A refused call takes the session along; so does one that no longer can be.
LEMMA RefusalSeen ==
  ASSUME IInv, NEW c \in Calls, Asked(c),
         \/ bridge' = Fail(Refuse(c), "failed")
         \/ bridge.rpc # "up" /\ bridge' = Fail(bridge, "failed")
  PROVE  Seen
<1>1. bridge \in BridgeState /\ bridge.answers[c] = <<>>
  BY FreshUnseen DEF IInv, TypeOK, Asked
<1> DEFINE b == IF bridge' = Fail(Refuse(c), "failed") THEN Refuse(c) ELSE bridge
<1>2. /\ b \in BridgeState /\ b.session = bridge.session /\ b.sess = bridge.sess
      /\ b.rpc = bridge.rpc
      /\ \A x \in Calls : b.answers[x] = IF x = c /\ bridge.rpc = "up"
                                         THEN Append(<<>>, [kind |-> "error", by |-> None])
                                         ELSE bridge.answers[x]
  <2>1. CASE b = bridge /\ bridge.rpc # "up"
    BY <1>1, <2>1
  <2>2. CASE b = Refuse(c)
    <3>1. /\ b \in BridgeState /\ b.session = bridge.session /\ b.sess = bridge.sess
          /\ b.rpc = bridge.rpc /\ b.answers = Answer(bridge, {c}, "error", None)
      BY <1>1, <2>2, RefuseEffect DEF Asked
    <3> HIDE DEF b
    <3>. QED BY <1>1, <3>1 DEF Answer
  <2>. QED BY <2>1, <2>2
<1>3. bridge' = Fail(b, "failed")
  OBVIOUS
<1> HIDE DEF b
<1>4. Dropped(b, bridge', Cur(b).turnId)
  BY <1>2, <1>3, FailEffect DEF Fails, Outcomes
<1> DEFINE a == [kind |-> "error", by |-> None]
           R == {c}
<1>5. Append(<<>>, a) # <<>> /\ Append(<<>>, a)[1] = a /\ a.kind = "error"
  OBVIOUS
<1>6. \A x \in Calls : b.answers[x] = IF x = c /\ bridge.rpc = "up"
                                      THEN Append(<<>>, a) ELSE bridge.answers[x]
  BY <1>2
<1> HIDE DEF a
<1>7. /\ \A x \in R : app.asked[x] = None
      /\ \A x \in Calls :
           /\ app'.asked[x] # None <=> app.asked[x] # None \/ x \in R
           /\ IF b.rpc = "up" /\ x \in R
              THEN b.answers[x] # <<>> /\ b.answers[x][1].kind = "error"
              ELSE b.answers[x] = bridge.answers[x]
      /\ R \in SUBSET Calls
  BY <1>2, <1>5, <1>6 DEF Asked
<1> HIDE DEF R
<1>. QED BY <1>2, <1>4, <1>7, DropsSeen DEF Cur

\* A call of the session's turn joins the queue.
LEMMA JoinsSeen ==
  ASSUME Given, NEW c \in Calls, NEW t, Asked(c), bridge.session # None,
         IF Open(bridge) THEN Cur(bridge).waiting = None /\ Cur(bridge).pending = <<>>
         ELSE Cur(bridge).waiting # None,
         CallWaits(c, t) \/ CallOffered(c, t) \/ \E d : CallFails(c, t, d)
  PROVE  Seen
<1> DEFINE s == Cur(bridge)
           n == Cur(bridge')
<1>0. IInv /\ bridge \in BridgeState /\ s \in Session
  BY CurType DEF Given, IInv, TypeOK
<1>1. /\ s.pending \in Seq(Calls) /\ s.waiting \in OptCall /\ c # None
      /\ Broker!Unseen(c) /\ Fate[c] = "none" /\ bridge.answers[c] = <<>>
  BY <1>0, FreshUnseen, NoneAssumption DEF Session, Asked
<1>2. ASSUME Queue' = Append(Queue, c), bridge'.answers = bridge.answers,
             IsOffered' \in IF Queue = <<>> THEN BOOLEAN ELSE {IsOffered}
      PROVE  Seen
  <2>1. Range(Queue') = Range(Queue) \cup {c}
    BY <1>0, <1>2, QueueHolds, AppendRange DEF Queue
  <2>2. ASSUME NEW x \in Calls PROVE Fate'[x] = Fate[x]
    <3>1. CASE x = c
      BY <1>1, <1>2, <2>1, <3>1, FateEach
    <3>2. CASE x # c
      BY <1>2, <2>1, <3>2, FateEach DEF Asked
    <3>. QED BY <3>1, <3>2
  <2>3. Fate' = Fate
    BY <2>2, FateIs DEF Fate, FateOf
  <2>4. Broker!Arrive(c)
    BY <1>1, <1>2, <2>3 DEF Broker!Arrive
  <2>. QED BY <2>4 DEF Broker!Next, Seen
<1>3. CASE CallWaits(c, t)
  <2>1. /\ bridge'.session = bridge.session /\ bridge'.op = bridge.op
        /\ bridge'.answers = bridge.answers /\ s.waiting # None
        /\ n.waiting = s.waiting /\ n.pending = Append(s.pending, c)
    BY <1>3 DEF CallWaits, Works
  <2> DEFINE w == s.waiting
             p == s.pending
  <2>2. w \in Calls /\ p \in Seq(Calls)
    BY <1>1, <2>1 DEF OptCall
  <2>3. Queue = <<w>> \o p
    BY <2>1 DEF Queue, QueueOf
  <2>4. Queue' = <<w>> \o Append(p, c)
    BY <2>1 DEF Queue, QueueOf, Cur
  <2>5. IsOffered' = IsOffered
    BY <2>1 DEF IsOffered, OfferedIn, Cur
  <2> HIDE DEF w, p
  <2>6. <<w>> \o Append(p, c) = Append(<<w>> \o p, c) /\ <<w>> \o p # <<>>
    BY <2>2
  <2>. QED BY <1>2, <2>1, <2>3, <2>4, <2>5, <2>6
<1>4. CASE CallOffered(c, t)
  <2>1. /\ bridge'.session = bridge.session /\ bridge'.answers = bridge.answers
        /\ s.waiting = None /\ s.pending = <<>>
        /\ n.waiting = c /\ n.pending = <<>>
    BY <1>4 DEF CallOffered, Works
  <2>2. Queue = <<>> \o <<>> /\ Queue' = <<c>> \o <<>>
    BY <1>1, <2>1 DEF Queue, QueueOf, Cur
  <2>3. <<>> \o <<>> = <<>> /\ <<c>> \o <<>> = Append(<<>>, c)
    OBVIOUS
  <2>4. IsOffered' \in BOOLEAN
    BY DEF IsOffered, OfferedIn
  <2>. QED BY <1>2, <2>1, <2>2, <2>3, <2>4
<1>5. ASSUME NEW d, CallFails(c, t, d) PROVE Seen
  <2>1. /\ Works(bridge, d) /\ d.answers = bridge.answers /\ d \in BridgeState
        /\ Held(Cur(d)) = Held(s) \cup {c} /\ Dropped(d, bridge', t)
    BY <1>5 DEF CallFails, Fails, Works
  <2>2. d.session # None /\ bridge'.session = None
    BY <2>1 DEF Works, Dropped
  <2>3. bridge'.answers = Answer(d, Held(Cur(d)), "cancelled", None)
    BY <2>1, <2>2 DEF Dropped
  <2>4. s.waiting = None /\ s.pending = <<>>
    BY <1>5 DEF CallFails
  <2>5. Held(Cur(d)) = {c}
    BY <2>1, <2>4 DEF Held, Range
  <2>6. Queue = <<>> /\ Queue' = <<>>
    BY <2>2, <2>4 DEF Queue, QueueOf
  <2>7. ~IsOffered /\ ~IsOffered'
    BY <2>2, <2>4 DEF IsOffered, OfferedIn
  <2>8. \A x \in Calls : x # c => bridge'.answers[x] = bridge.answers[x]
    BY <2>1, <2>3, <2>5 DEF Answer
  <2>9. bridge'.answers[c] # <<>> => bridge'.answers[c][1].kind = "cancelled"
    <3> DEFINE a == [kind |-> "cancelled", by |-> None]
    <3>1. Append(<<>>, a)[1] = a /\ a.kind = "cancelled"
      OBVIOUS
    <3>2. bridge'.answers[c] = IF d.rpc = "up" THEN Append(<<>>, a) ELSE <<>>
      BY <1>1, <2>1, <2>3, <2>5 DEF Answer
    <3> HIDE DEF a
    <3>. QED BY <3>1, <3>2
  <2>10. Turned(c)
    BY <2>6, <2>7, <2>8, <2>9 DEF Turned, Asked
  <2>. QED BY <1>0, <2>10, TurnsAway DEF Seen
<1>. QED BY <1>3, <1>4, <1>5

\* A call that the app-server makes.
LEMMA CallSeen ==
  ASSUME Given, NEW t \in Requests, NEW c \in Calls, NEW wellFormed,
         ToolCall(c, t, wellFormed)
  PROVE  Seen
<1>1. /\ IInv /\ bridge \in BridgeState /\ Line /\ Live(t)
      /\ app.asked[c] = None /\ app' = [app EXCEPT !.asked[c] = t] /\ app \in AppType
      /\ \E ok : bridge' = ServerRequest(c, t, wellFormed, ok)
  BY DEF ToolCall, Given, IInv, TypeOK, AppType, Live
<1>2. Asked(c)
  BY <1>1, NoneAssumption DEF Asked, AppType
<1>3. CASE bridge' = Refuse(c)
  BY <1>1, <1>2, <1>3, RefusedSeen
<1>4. CASE \/ bridge' = Fail(Refuse(c), "failed")
           \/ bridge.rpc # "up" /\ bridge' = Fail(bridge, "failed")
  BY <1>1, <1>2, <1>4, RefusalSeen
<1>5. ASSUME NEW ok, Ours(t), bridge' = Flush(Queued(c, t), ok) PROVE Seen
  <2>1. /\ bridge.session # None
        /\ IF Open(bridge) THEN Cur(bridge).waiting = None /\ Cur(bridge).pending = <<>>
           ELSE Cur(bridge).waiting # None
    BY <1>1, <1>5, LineFacts
  <2>2. CallWaits(c, t) \/ CallOffered(c, t) \/ \E d : CallFails(c, t, d)
    BY <1>1, <1>5, <2>1, QueueCases
  <2>. QED BY <1>2, <2>1, <2>2, JoinsSeen
<1>. QED BY <1>1, <1>3, <1>4, <1>5 DEF ServerRequest, Queued

\* A call that the app-server repeats ends the session, if it is the session's.
LEMMA RepeatSeen ==
  ASSUME Given, NEW c \in Calls, ToolCallRepeated(c) PROVE Seen
<1> DEFINE t == app.asked[c]
<1>1. /\ IInv /\ bridge \in BridgeState /\ t # None /\ app' = app
      /\ \E ok : bridge' = ServerRequest(c, t, TRUE, ok)
  BY DEF ToolCallRepeated, Given, IInv, TypeOK
<1>2. Refuse(c) = bridge
  BY <1>1 DEF Refuse
<1>3. Ours(t) => c \in Cur(bridge).seen
  BY <1>1 DEF Ours, IInv, CallInv, CallsSeen
<1>4. bridge' = bridge \/ bridge' = Fail(bridge, "failed")
  BY <1>1, <1>2, <1>3 DEF ServerRequest
<1>. QED BY <1>1, <1>4, SameSeen, FailSeen DEF Outcomes

\* Every step of the bridge is one that the broker may take, or none of its own.
LEMMA StepSeen ==
  ASSUME Given, [Next]_vars PROVE [Broker!Next]_(Broker!vars)
<1>0. SUFFICES Seen
  BY DEF Seen
<1>1. CASE UNCHANGED vars
  BY <1>1, SameSeen DEF vars
<1>2. ASSUME NEW r \in Requests, RespondStep(r) PROVE Seen
  BY <1>2, RespondSeen, BeginsSeen DEF RespondStep, ReleaseAnswered, ReleaseTimesOut
<1>3. ASSUME NEW r \in Requests, Continues(r) PROVE Seen
  BY <1>3, RespondSeen, BeginsSeen, DriveSeen, AnswersSeen, ReplaySeen DEF Continues
<1>4. ASSUME NEW t \in Requests, AppServerStep(t) PROVE Seen
  BY <1>4, LineSeen, CallSeen DEF AppServerStep
<1>5. ASSUME NEW c \in Calls, ToolCallRepeated(c) PROVE Seen
  BY <1>5, RepeatSeen
<1>6. CASE \/ SessionExpires \/ RpcStarted \/ PipeBreaks \/ RpcExits
           \/ CloseBegins \/ CloseEnds
  BY <1>6, ConnectionSeen
<1>. QED BY <1>1, <1>2, <1>3, <1>4, <1>5, <1>6 DEF Next

\* At first no call is queued, offered or over.
LEMMA InitialBroker == Init => Broker!Init
<1> SUFFICES ASSUME Init PROVE Broker!Init
  OBVIOUS
<1>1. /\ bridge.session = None
      /\ \A c \in Calls : app.asked[c] = None /\ bridge.answers[c] = <<>>
  BY DEF Init
<1>2. Queue = <<>> /\ IsOffered = FALSE
  BY <1>1 DEF Queue, QueueOf, IsOffered, OfferedIn
<1>3. Fate = [c \in Calls |-> "none"]
  BY <1>1 DEF Fate, FateOf
<1>. QED BY <1>2, <1>3 DEF Broker!Init

\* The bridge implements the broker: whatever sessions, turns, requests,
\* timers and failures do, calls are offered one at a time in the order they
\* arrived, only an offered call gets the client's result, and every call has at
\* most one fate (docs/design.md; lines 96-108, 114-124, 167-180, 244-263).
THEOREM BrokerImplemented == Spec => ImplementsBroker
<1>1. Init => Broker!Init
  BY InitialBroker
<1>2. IInv /\ Flight /\ Shape /\ (IInv /\ Flight /\ Shape)' /\ [Next]_vars
        => [Broker!Next]_(Broker!vars)
  BY FlightInductive, ShapeInductive, StepSeen
<1>. QED BY <1>1, <1>2, ShapeAlways, PTL DEF Spec, ImplementsBroker, Broker!Spec

=============================================================================
