---------------------------- MODULE BridgeProofs ----------------------------
(***************************************************************************)
(* Theorems about Bridge, for every value of its constants: its type       *)
(* invariant; that no tool call is ever answered twice; and one generation *)
(* at a time, a failure that stays with its own request, and a settled     *)
(* operation that nothing reopens.                                         *)
(*                                                                         *)
(* For types and calls, the first part is about the operators on bridge    *)
(* states: each of them yields a bridge state, keeps or drops the current  *)
(* session, and keeps the calls accounted for (Good).  The second is about *)
(* the actions.                                                            *)
(*                                                                         *)
(* SingleFlight is not inductive.  That no second respond() starts depends *)
(* on busy, which depends on where each task is; that a failure finds its  *)
(* own operation depends on which session each drive works for; and that a *)
(* closed bridge keeps no session depends on which of its continuations    *)
(* may still run.  Flight puts these together.  Its proof says what each   *)
(* operator of the class changes; then gives the conditions under which a  *)
(* step keeps Flight (FlightKept), with most handlers an instance of       *)
(* HandlerStep; then takes the actions one by one.                         *)
(***************************************************************************)
EXTENDS Bridge, TLAPS

Outcomes == {"none", "ok", "failed", "timeout"}

\* d differs from b in nothing that the calls depend on.
Same(b, d) ==
    d.session = b.session /\ d.sess = b.sess /\ d.answers = b.answers

\* From b to d the current session stays or goes, and no session forgets its
\* thread or the calls it has seen.
Keeps(b, d) ==
    /\ d.session \in {b.session, None}
    /\ \A x \in Requests : b.sess[x].thread => d.sess[x].thread
    /\ d.session # None => Cur(b).seen \subseteq Cur(d).seen

Good(b, d, asked) ==
    d \in BridgeState /\ Keeps(b, d) /\ CallsOK(d, asked)

-----------------------------------------------------------------------------
(* Updates of a bridge state *)

\* A fresh session object is a session.
LEMMA NewSessionType == NewSession \in Session
BY DEF NewSession, Session, OptRequest, OptCall

\* What a session holds are calls.
LEMMA HeldType ==
  ASSUME NEW s \in Session PROVE Held(s) \subseteq Calls
BY DEF Held, Session, OptCall, Range

\* The current session, if any, is a session of some request.
LEMMA CurType ==
  ASSUME NEW b \in BridgeState, b.session # None
  PROVE  b.session \in Requests /\ Cur(b) \in Session
BY DEF BridgeState, OptRequest, Cur

\* An open segment belongs to the operation of some request.
LEMMA OpenType ==
  ASSUME NEW b \in BridgeState, Open(b) PROVE b.operation \in Requests
BY DEF BridgeState, OptRequest, Open

\* Setting an outcome yields a bridge state and leaves sessions and answers alone.
LEMMA SetOutcome ==
  ASSUME NEW b \in BridgeState, NEW r \in Requests, NEW o \in Outcomes
  PROVE  LET d == [b EXCEPT !.op[r].outcome = o]
         IN d \in BridgeState /\ Same(b, d)
<1> DEFINE d == [b EXCEPT !.op[r].outcome = o]
           e == [b EXCEPT !.op[r] = [b.op[r] EXCEPT !.outcome = o]]
<1>0. b.op[r] \in Operation
  BY DEF BridgeState
<1>1. [b.op[r] EXCEPT !.outcome = o] \in Operation
  BY <1>0 DEF Operation, Outcomes
<1>2. e \in BridgeState
  BY <1>1 DEF BridgeState
<1>3. d = e
  OBVIOUS
<1>4. Same(b, e)
  BY DEF Same, BridgeState
<1>5. d \in BridgeState /\ Same(b, d)
  <2> HIDE DEF d, e
  <2>. QED BY <1>2, <1>3, <1>4
<1>. QED BY <1>5

\* So does setting the call that an operation offers.
LEMMA SetOffered ==
  ASSUME NEW b \in BridgeState, NEW r \in Requests, NEW c \in OptCall
  PROVE  LET d == [b EXCEPT !.op[r].offered = c]
         IN d \in BridgeState /\ Same(b, d)
<1> DEFINE d == [b EXCEPT !.op[r].offered = c]
           e == [b EXCEPT !.op[r] = [b.op[r] EXCEPT !.offered = c]]
<1>0. b.op[r] \in Operation
  BY DEF BridgeState
<1>1. [b.op[r] EXCEPT !.offered = c] \in Operation
  BY <1>0 DEF Operation, Outcomes
<1>2. e \in BridgeState
  BY <1>1 DEF BridgeState
<1>3. d = e
  OBVIOUS
<1>4. Same(b, e)
  BY DEF Same, BridgeState
<1>5. d \in BridgeState /\ Same(b, d)
  <2> HIDE DEF d, e
  <2>. QED BY <1>2, <1>3, <1>4
<1>. QED BY <1>5

\* The current session is replaced by s.
LEMMA SetCur ==
  ASSUME NEW b \in BridgeState, b.session # None, NEW s \in Session
  PROVE  LET d == [b EXCEPT !.sess[b.session] = s]
         IN /\ d \in BridgeState
            /\ d.session = b.session /\ Cur(d) = s
            /\ \A x \in Requests \ {b.session} : d.sess[x] = b.sess[x]
            /\ d.answers = b.answers /\ d.operation = b.operation
            /\ d.op = b.op /\ d.rpc = b.rpc
<1>1. b.session \in Requests
  BY CurType
<1>2. [b EXCEPT !.sess[b.session] = s] \in BridgeState
  BY <1>1 DEF BridgeState
<1>. QED BY <1>1, <1>2 DEF BridgeState, Cur

\* A replacement that keeps the thread, the calls seen and the calls held.
LEMMA SetCurGood ==
  ASSUME NEW b \in BridgeState, b.session # None, NEW s \in Session,
         NEW asked, CallsOK(b, asked),
         Cur(b).thread => s.thread, s.seen = Cur(b).seen,
         s.waiting = Cur(b).waiting, s.pending = Cur(b).pending
  PROVE  LET d == [b EXCEPT !.sess[b.session] = s] IN Good(b, d, asked)
<1> DEFINE d == [b EXCEPT !.sess[b.session] = s]
<1>1. /\ d \in BridgeState /\ d.session = b.session /\ Cur(d) = s
      /\ \A x \in Requests \ {b.session} : d.sess[x] = b.sess[x]
      /\ d.answers = b.answers
  BY SetCur
<1> HIDE DEF d
<1>2. Keeps(b, d)
  BY <1>1 DEF Keeps, Cur
<1>3. CallsOK(d, asked)
  BY <1>1 DEF CallsOK, HoldsOnce, Held
<1>. QED BY <1>1, <1>2, <1>3 DEF Good, d

\* What leaves sessions and answers alone keeps the calls accounted for.
LEMMA SameGood ==
  ASSUME NEW b, NEW d \in BridgeState, NEW asked, CallsOK(b, asked), Same(b, d)
  PROVE  Good(b, d, asked)
<1>1. Keeps(b, d)
  BY DEF Keeps, Same, Cur
<1>2. CallsOK(d, asked)
  BY DEF Same, CallsOK, Cur
<1>. QED BY <1>1, <1>2 DEF Good

\* Two updates that keep the calls accounted for compose to one that does.
LEMMA GoodTrans ==
  ASSUME NEW b, NEW d, NEW e, NEW asked, Good(b, d, asked), Good(d, e, asked)
  PROVE  Good(b, e, asked)
BY DEF Good, Keeps

\* Answering yields well-formed answers.
LEMMA AnswerType ==
  ASSUME NEW b \in BridgeState, NEW C,
         NEW kind \in {"result", "cancelled", "error"}, NEW r \in OptRequest
  PROVE  Answer(b, C, kind, r) \in [Calls -> Seq(Answers)]
<1>1. [kind |-> kind, by |-> r] \in Answers
  BY DEF Answers
<1>2. b.answers \in [Calls -> Seq(Answers)]
  BY DEF BridgeState
<1>3. ASSUME NEW c \in Calls
      PROVE  Append(b.answers[c], [kind |-> kind, by |-> r]) \in Seq(Answers)
  BY <1>1, <1>2
<1>. QED BY <1>2, <1>3 DEF Answer

\* Answering calls of C that have no answer yet leaves every call with at most
\* one, and the others as they were.
LEMMA AnswerOnce ==
  ASSUME NEW b \in BridgeState, NEW C, NEW kind, NEW r, NEW c \in Calls,
         Len(b.answers[c]) <= 1, c \in C => b.answers[c] = <<>>
  PROVE  /\ Len(Answer(b, C, kind, r)[c]) <= 1
         /\ c \notin C => Answer(b, C, kind, r)[c] = b.answers[c]
<1>1. b.answers[c] \in Seq(Answers)
  BY DEF BridgeState
<1>2. Len(Append(<<>>, [kind |-> kind, by |-> r])) = 1
  OBVIOUS
<1>. QED BY <1>1, <1>2 DEF Answer

-----------------------------------------------------------------------------
(* releaseSession, fail, complete *)

\* Releasing the session keeps the calls accounted for, and leaves none.
LEMMA ReleaseGood ==
  ASSUME NEW b \in BridgeState, NEW asked, CallsOK(b, asked)
  PROVE  Good(b, Release(b), asked) /\ Release(b).session = None
<1>1. CASE b.session = None
  <2>1. Release(b) \in BridgeState /\ Same(b, Release(b))
    BY <1>1 DEF Release, BridgeState, Same
  <2>2. Good(b, Release(b), asked)
    BY <2>1, SameGood
  <2>. QED BY <1>1, <2>1, <2>2 DEF Same
<1>2. CASE b.session # None
  <2> DEFINE s == Cur(b)
             ans == Answer(b, Held(s), "cancelled", None)
             next == IF ~s.thread \/ b.rpc # "up" THEN "done"
                     ELSE IF s.turnId # None THEN "interrupt"
                     ELSE "unsubscribe"
             cut == IF next = "interrupt"
                    THEN b.interrupted \cup {s.turnId} ELSE b.interrupted
             off == IF next = "unsubscribe"
                    THEN b.unsubscribed \cup {b.session} ELSE b.unsubscribed
             new == [NewSession EXCEPT !.thread = s.thread]
             d == Release(b)
  <2>1. b.session \in Requests /\ s \in Session
    BY <1>2, CurType
  <2>2. ans \in [Calls -> Seq(Answers)]
    BY AnswerType DEF OptRequest
  <2>3. new \in Session /\ new.thread = s.thread
    BY <2>1, NewSessionType DEF Session, NewSession
  <2>4. next \in {"none", "interrupt", "unsubscribe", "done"}
    OBVIOUS
  <2>5. cut \in SUBSET Requests
    BY <2>1 DEF BridgeState, Session, OptRequest
  <2>6. off \in SUBSET Requests
    BY <2>1 DEF BridgeState
  <2>7. d = [b EXCEPT !.ttl = FALSE, !.session = None, !.sess[b.session] = new,
                      !.answers = ans, !.rel[b.session] = next,
                      !.interrupted = cut, !.unsubscribed = off]
    BY <1>2 DEF Release
  <2> HIDE DEF new, ans, next, cut, off, d
  <2> DEFINE e == [b EXCEPT !.ttl = FALSE, !.session = None,
                            !.sess[b.session] = new]
             f == [e EXCEPT !.answers = ans, !.rel[b.session] = next]
  <2>8. /\ d \in BridgeState /\ d.session = None /\ d.answers = ans
        /\ d.sess = [b.sess EXCEPT ![b.session] = new]
    <3>1. /\ e \in BridgeState /\ e.session = None
          /\ e.sess = [b.sess EXCEPT ![b.session] = new]
      BY <2>1, <2>3 DEF BridgeState, OptRequest
    <3>2. d = [f EXCEPT !.interrupted = cut, !.unsubscribed = off]
      BY <2>7
    <3> HIDE DEF e
    <3>3. /\ f \in BridgeState /\ f.session = None /\ f.answers = ans
          /\ f.sess = e.sess
      BY <2>1, <2>2, <2>4, <3>1 DEF BridgeState
    <3> HIDE DEF f
    <3>. QED BY <2>5, <2>6, <3>1, <3>2, <3>3 DEF BridgeState
  <2>9. Keeps(b, d)
    BY <2>1, <2>3, <2>8 DEF Keeps, Cur, BridgeState
  <2>10. ASSUME NEW c \in Calls
         PROVE  /\ Len(d.answers[c]) <= 1
                /\ asked[c] = None => d.answers[c] = <<>>
    <3>1. /\ Len(b.answers[c]) <= 1
          /\ asked[c] = None => b.answers[c] = <<>>
          /\ c \in Held(s) => b.answers[c] = <<>> /\ asked[c] # None
      BY <1>2 DEF CallsOK, HoldsOnce
    <3>. QED BY <2>8, <3>1, AnswerOnce DEF ans
  <2>. QED BY <2>8, <2>9, <2>10 DEF Good, CallsOK, d
<1>. QED BY <1>1, <1>2

\* Settling the operation touches no call.
LEMMA SettleGood ==
  ASSUME NEW b \in BridgeState, NEW asked, CallsOK(b, asked), NEW o \in Outcomes
  PROVE  Good(b, Settle(b, o), asked)
<1>1. CASE Open(b)
  BY <1>1, OpenType, SetOutcome, SameGood DEF Settle
<1>2. CASE ~Open(b)
  BY <1>2, SameGood DEF Settle, Same
<1>. QED BY <1>1, <1>2

\* fail: settling and releasing keep the calls accounted for, and leave no session.
LEMMA FailGood ==
  ASSUME NEW b \in BridgeState, NEW asked, CallsOK(b, asked), NEW o \in Outcomes
  PROVE  Good(b, Fail(b, o), asked) /\ Fail(b, o).session = None
<1>1. Good(b, Settle(b, o), asked)
  BY SettleGood
<1>2. /\ Good(Settle(b, o), Fail(b, o), asked)
      /\ Fail(b, o).session = None
  BY <1>1, ReleaseGood DEF Fail, Good
<1>. QED BY <1>1, <1>2, GoodTrans

\* complete touches no call of the session.
LEMMA CompleteGood ==
  ASSUME NEW b \in BridgeState, NEW asked, CallsOK(b, asked), b.session # None
  PROVE  Good(b, Complete(b), asked)
<1>1. CASE ~Open(b)
  BY <1>1, SameGood DEF Complete, Same
<1>2. CASE Open(b)
  <2> DEFINE s == [Cur(b) EXCEPT !.last = b.operation]
             d == [b EXCEPT !.sess[b.session] = s]
  <2>1. b.operation \in Requests /\ Cur(b) \in Session
    BY <1>2, OpenType, CurType
  <2>2. /\ s \in Session /\ s.thread = Cur(b).thread /\ s.seen = Cur(b).seen
        /\ s.waiting = Cur(b).waiting /\ s.pending = Cur(b).pending
    BY <2>1 DEF Session, OptRequest
  <2>3. Good(b, d, asked)
    BY <2>2, SetCurGood
  <2>4. Complete(b) = [d EXCEPT !.op[b.operation].outcome = "ok"]
    BY <1>2 DEF Complete, Cur
  <2> HIDE DEF d
  <2>5. Good(d, [d EXCEPT !.op[b.operation].outcome = "ok"], asked)
    BY <2>1, <2>3, SetOutcome, SameGood DEF Good, Outcomes
  <2>. QED BY <2>3, <2>4, <2>5, GoodTrans
<1>. QED BY <1>1, <1>2

-----------------------------------------------------------------------------
(* flushTool, consumeNotification *)

\* Moving the head of the queue to waiting holds the same calls, each once.
LEMMA TakeGood ==
  ASSUME NEW b \in BridgeState, NEW asked, CallsOK(b, asked), CanFlush(b)
  PROVE  /\ Good(b, Take(b), asked)
         /\ Take(b).session = b.session /\ Take(b).operation = b.operation
         /\ Take(b).op = b.op
<1> DEFINE p == Cur(b).pending
           s == [Cur(b) EXCEPT !.waiting = Head(p), !.pending = Tail(p)]
           d == [b EXCEPT !.sess[b.session] = s]
<1>1. b.session # None /\ Cur(b) \in Session
  BY CurType DEF CanFlush
<1>2. p \in Seq(Calls) /\ p # <<>> /\ Cur(b).waiting = None
  BY <1>1 DEF CanFlush, Session
<1>3. Head(p) \in Calls /\ Tail(p) \in Seq(Calls)
  BY <1>2
<1>4. /\ s \in Session /\ s.thread = Cur(b).thread /\ s.seen = Cur(b).seen
      /\ s.waiting = Head(p) /\ s.pending = Tail(p)
  BY <1>1, <1>3 DEF Session, OptCall
<1>5. Take(b) = d
  BY <1>1 DEF Take, Cur
<1>6. /\ d \in BridgeState /\ d.session = b.session /\ Cur(d) = s
      /\ \A x \in Requests \ {b.session} : d.sess[x] = b.sess[x]
      /\ d.answers = b.answers /\ d.operation = b.operation /\ d.op = b.op
  BY <1>1, <1>4, SetCur
<1>7. HoldsOnce(Cur(b), asked, b.answers)
  BY <1>1 DEF CallsOK
<1>8. /\ DOMAIN p = 1 .. Len(p) /\ Len(p) \in Nat \ {0}
      /\ DOMAIN Tail(p) = 1 .. (Len(p) - 1)
      /\ \A i \in DOMAIN Tail(p) : Tail(p)[i] = p[i + 1]
      /\ Head(p) = p[1]
  BY <1>2
<1>9. HoldsOnce(s, asked, b.answers)
  <2> HIDE DEF s, p
  <2>1. Held(s) \subseteq Held(Cur(b))
    BY <1>4, <1>8 DEF Held, Range, p
  <2>2. \A i, j \in DOMAIN p : p[i] = p[j] => i = j
    BY <1>7 DEF HoldsOnce, p
  <2>3. Head(p) \notin Range(Tail(p))
    BY <1>8, <2>2 DEF Range
  <2>4. \A i, j \in DOMAIN Tail(p) : Tail(p)[i] = Tail(p)[j] => i = j
    BY <1>8, <2>2
  <2>. QED BY <1>4, <1>7, <2>1, <2>3, <2>4 DEF HoldsOnce
<1> HIDE DEF d, s
<1>10. Keeps(b, d)
  BY <1>1, <1>4, <1>6, CurType DEF Keeps, Cur
<1>11. CallsOK(d, asked)
  BY <1>6, <1>9 DEF CallsOK
<1>. QED BY <1>5, <1>6, <1>10, <1>11 DEF Good

\* Offering the head of the queue to the client keeps the calls accounted for.
LEMMA OfferGood ==
  ASSUME NEW b \in BridgeState, NEW asked, CallsOK(b, asked), CanFlush(b)
  PROVE  Good(b, Offer(b), asked)
<1> DEFINE t == Take(b)
           u == [t EXCEPT !.op[t.operation].offered = Cur(t).waiting]
<1>1. /\ Good(b, t, asked) /\ t.session = b.session
      /\ t.operation = b.operation
  BY TakeGood
<1> HIDE DEF t
<1>2. t \in BridgeState /\ t.session # None /\ CallsOK(t, asked)
  BY <1>1 DEF Good, CanFlush
<1>3. t.operation \in Requests
  BY <1>1, OpenType DEF CanFlush
<1>4. Cur(t).waiting \in OptCall
  BY <1>2, CurType DEF Session
<1>5. u \in BridgeState /\ Same(t, u)
  BY <1>2, <1>3, <1>4, SetOffered
<1> HIDE DEF u
<1>6. Good(t, u, asked) /\ u.session # None
  BY <1>2, <1>5, SameGood DEF Same
<1>7. Good(u, Complete(u), asked)
  BY <1>6, CompleteGood DEF Good
<1>8. Offer(b) = Complete(u)
  BY DEF Offer, t, u
<1>. QED BY <1>1, <1>6, <1>7, <1>8, GoodTrans

\* flushTool, successful or not, keeps the calls accounted for.
LEMMA FlushGood ==
  ASSUME NEW b \in BridgeState, NEW asked, CallsOK(b, asked), NEW ok
  PROVE  Good(b, Flush(b, ok), asked)
<1>1. CASE ~CanFlush(b)
  BY <1>1, SameGood DEF Flush, Same
<1>2. CASE CanFlush(b) /\ ok
  BY <1>2, OfferGood DEF Flush
<1>3. CASE CanFlush(b) /\ ~ok
  <2>1. Good(b, Take(b), asked)
    BY <1>3, TakeGood
  <2>2. Good(Take(b), Fail(Take(b), "failed"), asked)
    BY <2>1, FailGood DEF Good, Outcomes
  <2>. QED BY <1>3, <2>1, <2>2, GoodTrans DEF Flush
<1>. QED BY <1>1, <1>2, <1>3

\* Consuming a notification keeps the calls accounted for.
LEMMA ConsumeGood ==
  ASSUME NEW b \in BridgeState, NEW asked, CallsOK(b, asked),
         NEW e \in Events, NEW ok
  PROVE  Good(b, Consume(b, e, ok), asked)
<1>1. CASE Ignores(b, e)
  BY <1>1, SameGood DEF Consume, Same
<1>2. CASE ~Ignores(b, e) /\ e.kind = "text" /\ ok
  <2> DEFINE h == [b.heard EXCEPT ![e.turn] =
                     Append(@, [n |-> e.n, by |-> b.operation])]
             d == [b EXCEPT !.heard = h]
  <2>1. b.operation \in Requests
    BY <1>2, OpenType DEF Ignores
  <2>2. h \in [Requests -> Seq([n : Nat, by : Requests])]
    <3> DEFINE T == [n : Nat, by : Requests]
               v == [n |-> e.n, by |-> b.operation]
    <3>1. v \in T /\ e.turn \in Requests
      BY <2>1 DEF Events
    <3>2. b.heard \in [Requests -> Seq(T)]
      BY DEF BridgeState
    <3> HIDE DEF T, v
    <3>3. Append(b.heard[e.turn], v) \in Seq(T)
      BY <3>1, <3>2
    <3>4. h \in [Requests -> Seq(T)]
      BY <3>2, <3>3 DEF v
    <3>. QED BY <3>4 DEF T
  <2>3. d \in BridgeState /\ Same(b, d)
    <3> HIDE DEF h
    <3>. QED BY <2>2 DEF BridgeState, Same
  <2>4. Consume(b, e, ok) = d
    BY <1>2 DEF Consume
  <2>. QED BY <2>3, <2>4, SameGood
<1>3. CASE ~Ignores(b, e) /\ e.kind = "completed" /\ Held(Cur(b)) = {}
  <2> DEFINE s == [Cur(b) EXCEPT !.turnId = None]
             d == [b EXCEPT !.sess[b.session] = s]
  <2>1. b.session # None /\ Cur(b) \in Session
    BY <1>3, CurType DEF Ignores
  <2>2. /\ s \in Session /\ s.thread = Cur(b).thread /\ s.seen = Cur(b).seen
        /\ s.waiting = Cur(b).waiting /\ s.pending = Cur(b).pending
    BY <2>1 DEF Session, OptRequest
  <2>3. Good(b, d, asked)
    BY <2>1, <2>2, SetCurGood
  <2>4. d.session # None
    BY <2>1, <2>2, SetCur
  <2>5. d = [b EXCEPT !.sess[b.session].turnId = None]
    BY DEF Cur
  <2>6. Consume(b, e, ok) = IF ok THEN Complete(d) ELSE d
    BY <1>3, <2>5 DEF Consume
  <2> HIDE DEF d
  <2>7. Good(d, Complete(d), asked)
    BY <2>3, <2>4, CompleteGood DEF Good
  <2>. QED BY <2>3, <2>6, <2>7, GoodTrans
<1>4. CASE /\ ~Ignores(b, e)
           /\ ~(e.kind = "text" /\ ok)
           /\ ~(e.kind = "completed" /\ Held(Cur(b)) = {})
  <2>1. Consume(b, e, ok) = b
    BY <1>4 DEF Consume
  <2>. QED BY <2>1, SameGood DEF Same
<1>. QED BY <1>1, <1>2, <1>3, <1>4

-----------------------------------------------------------------------------
(* What the actions have in common *)

\* The inductive invariant.
IInv == TypeOK /\ CallInv

Drives == {"none", "start", "thread", "turn", "replay", "failed", "done"}
Replies == {"none", "pending", "ok", "noId", "badModel", "error"}

\* No request is opened or starts to be driven, and the opened ones keep
\* their sessions.
TasksKept ==
    \A r \in Requests :
      /\ r \in Opened' <=> r \in Opened
      /\ r \in Opened => task'[r].session = task[r].session
      /\ task'[r].drv # "none" => task[r].drv # "none"

\* A turn is sent only for an opened request whose session has its thread.
TurnsKept ==
    \A t \in Requests :
      /\ app.turn[t] # "none" => app'.turn[t] # "none"
      /\ app'.turn[t] # "none" =>
           \/ app.turn[t] # "none"
           \/ t \in Opened /\ bridge'.sess[task[t].session].thread

\* A call is made only by a turn that was sent; its session comes to know it.
CallsKept ==
    \A c \in Calls :
      \/ app'.asked[c] = app.asked[c]
      \/ LET t == app'.asked[c]
         IN /\ t \in Requests /\ app.turn[t] # "none"
            /\ bridge'.session = task[t].session => c \in Cur(bridge').seen

\* A step that leaves the bridge alone keeps the calls accounted for.
LEMMA SelfGood ==
  ASSUME IInv PROVE Good(bridge, bridge, app.asked)
BY SameGood DEF IInv, TypeOK, CallInv, Same

\* The invariant is kept by a step that keeps each of its parts.
LEMMA Frame ==
  ASSUME IInv, TypeOK', Good(bridge, bridge', app'.asked),
         TasksKept, TurnsKept, CallsKept
  PROVE  IInv'
<1>1. OpenedFirst'
  <2>1. bridge'.session \in Opened' \cup {None}
    BY DEF Good, Keeps, TasksKept, IInv, CallInv, OpenedFirst, Opened
  <2>2. \A r \in Opened' : task'[r].session \in Opened'
    BY DEF TasksKept, IInv, CallInv, OpenedFirst, Opened
  <2>3. \A r \in Requests : task'[r].drv # "none" => r \in Opened'
    BY DEF TasksKept, IInv, CallInv, OpenedFirst
  <2>4. ASSUME NEW t \in Requests, app'.turn[t] # "none"
        PROVE  t \in Opened' /\ bridge'.sess[task'[t].session].thread
    <3>1. CASE app.turn[t] # "none"
      <4>1. t \in Opened /\ bridge.sess[task[t].session].thread
        BY <3>1 DEF IInv, CallInv, OpenedFirst
      <4>2. task[t].session \in Requests
        BY <4>1 DEF IInv, CallInv, OpenedFirst, Opened
      <4>. QED BY <4>1, <4>2 DEF TasksKept, Good, Keeps
    <3>2. CASE t \in Opened /\ bridge'.sess[task[t].session].thread
      BY <3>2 DEF TasksKept
    <3>. QED BY <2>4, <3>1, <3>2 DEF TurnsKept
  <2>. QED BY <2>1, <2>2, <2>3, <2>4 DEF OpenedFirst
<1>2. CallsSeen'
  <2> SUFFICES ASSUME NEW c \in Calls, app'.asked[c] # None
               PROVE  LET t == app'.asked[c]
                      IN /\ app'.turn[t] # "none"
                         /\ bridge'.session = task'[t].session
                              => c \in Cur(bridge').seen
    BY DEF CallsSeen, Cur
  <2> DEFINE t == app'.asked[c]
  <2>1. t \in Requests /\ app.turn[t] # "none"
    BY DEF CallsKept, IInv, TypeOK, CallInv, CallsSeen, OptRequest
  <2>2. t \in Opened /\ task[t].session \in Requests
    BY <2>1 DEF IInv, CallInv, OpenedFirst, Opened
  <2>3. task'[t].session = task[t].session /\ task[t].session # None
    BY <2>1, <2>2, NoneAssumption DEF TasksKept
  <2>4. CASE app'.asked[c] = app.asked[c]
    <3>1. bridge.session = task[t].session => c \in Cur(bridge).seen
      BY <2>4 DEF IInv, CallInv, CallsSeen
    <3>. QED BY <2>1, <2>3, <3>1 DEF TurnsKept, Good, Keeps
  <2>5. CASE bridge'.session = task[t].session => c \in Cur(bridge').seen
    BY <2>1, <2>3, <2>5 DEF TurnsKept
  <2>. QED BY <2>4, <2>5 DEF CallsKept
<1>3. CallsOK(bridge', app'.asked)
  BY DEF Good
<1>. QED BY <1>1, <1>2, <1>3 DEF IInv, CallInv

\* One task changes, but neither its session nor whether it is opened.
LEMMA TaskStep ==
  ASSUME task \in [Requests -> Task], NEW r \in Requests, NEW v \in Task,
         task' = [task EXCEPT ![r] = v], v.session = task[r].session,
         v.pc \in {"awaiting", "done"} <=> task[r].pc \in {"awaiting", "done"},
         v.drv # "none" => task[r].drv # "none"
  PROVE  task' \in [Requests -> Task] /\ TasksKept
BY DEF TasksKept, Opened

\* drive() moving on opens no request and starts no drive.
LEMMA MovesKept ==
  ASSUME task \in [Requests -> Task], NEW r \in Requests,
         NEW step \in Drives, task[r].drv # "none", Moves(r, step)
  PROVE  task' \in [Requests -> Task] /\ TasksKept
<1> DEFINE v == [task[r] EXCEPT !.drv = step, !.reply = "none"]
<1>1. task[r] \in Task
  OBVIOUS
<1>2. /\ v \in Task /\ v.session = task[r].session /\ v.pc = task[r].pc
  BY <1>1 DEF Task, Drives
<1>3. task' = [task EXCEPT ![r] = v]
  BY DEF Moves
<1> HIDE DEF v
<1>. QED BY <1>2, <1>3, TaskStep

\* Nor does drive() awaiting an RPC.
LEMMA AsksKept ==
  ASSUME task \in [Requests -> Task], NEW r \in Requests,
         NEW step \in Drives, task[r].drv # "none", Asks(r, step)
  PROVE  task' \in [Requests -> Task] /\ TasksKept
<1> DEFINE w == IF bridge.rpc = "up" THEN "pending" ELSE "error"
           v == [task[r] EXCEPT !.drv = step, !.reply = w]
<1>1. task[r] \in Task /\ w \in Replies
  BY DEF Replies
<1>2. task' = [task EXCEPT ![r] = v]
  BY DEF Asks
<1> HIDE DEF w
<1>3. /\ v \in Task /\ v.session = task[r].session /\ v.pc = task[r].pc
  BY <1>1 DEF Task, Drives, Replies
<1> HIDE DEF v
<1>. QED BY <1>2, <1>3, TaskStep

\* The steps that change no more than the bridge, or one task as well.
LEMMA QuietStep ==
  ASSUME IInv, Good(bridge, bridge', app.asked), burst' \in BOOLEAN,
         UNCHANGED <<task, loop, close, app>>
  PROVE  IInv'
<1>1. TypeOK'
  BY DEF Good, IInv, TypeOK
<1>2. TasksKept /\ TurnsKept /\ CallsKept
  BY DEF TasksKept, TurnsKept, CallsKept, Opened
<1>. QED BY <1>1, <1>2, Frame

\* A step of the bridge and of tasks that were opened already.
LEMMA TasksStep ==
  ASSUME IInv, Good(bridge, bridge', app.asked), burst' \in BOOLEAN,
         task' \in [Requests -> Task], TasksKept,
         UNCHANGED <<loop, close, app>>
  PROVE  IInv'
<1>1. TypeOK'
  BY DEF Good, IInv, TypeOK
<1>2. TurnsKept /\ CallsKept
  BY DEF TurnsKept, CallsKept
<1>. QED BY <1>1, <1>2, Frame

\* A line leaves burst a Boolean.
LEMMA HandledType == Handled => burst' \in BOOLEAN
BY Zenon DEF Handled, MicroReady

\* So do timers, HTTP events and continuations.
LEMMA MacroType == Macro \/ Micro => burst' \in BOOLEAN
BY DEF Macro, Micro

-----------------------------------------------------------------------------
(* respond() and its timers *)

\* A rejected request keeps the invariant.
LEMMA RejectedKeeps ==
  ASSUME IInv, NEW r \in Requests, RespondRejected(r) PROVE IInv'
BY SelfGood, MacroType, QuietStep DEF RespondRejected, Arrives, Good, Keeps

\* A request without previous_response_id releases the old session.
LEMMA NewKeeps ==
  ASSUME IInv, NEW r \in Requests, RespondNew(r) PROVE IInv'
<1> DEFINE b == [bridge EXCEPT !.busy = TRUE]
           v == [task[r] EXCEPT !.pc = "releasing", !.turn = r,
                                !.session = bridge.session]
<1>1. bridge \in BridgeState /\ task \in [Requests -> Task] /\ task[r] \in Task
  BY DEF IInv, TypeOK
<1>2. b \in BridgeState /\ Same(bridge, b)
  BY <1>1 DEF BridgeState, Same
<1>3. Good(bridge, Release(b), app.asked)
  <2> HIDE DEF b
  <2>1. Good(bridge, b, app.asked)
    BY <1>2, SameGood DEF IInv, CallInv
  <2>2. Good(b, Release(b), app.asked)
    BY <2>1, ReleaseGood DEF Good
  <2>. QED BY <2>1, <2>2, GoodTrans
<1>4. /\ v \in Task /\ v.pc = "releasing" /\ v.drv = task[r].drv
      /\ task[r].pc = "unsent"
  BY <1>1 DEF Task, OptRequest, BridgeState, RespondNew, Arrives
<1>5. task' = [task EXCEPT ![r] = v]
  BY DEF RespondNew
<1> HIDE DEF v
<1>6. task' \in [Requests -> Task] /\ TasksKept
  BY <1>1, <1>4, <1>5 DEF TasksKept, Opened
<1>. QED BY <1>3, <1>6, MacroType, TasksStep DEF RespondNew, Arrives

\* Opening the operation of r on a bridge state b whose session is the one of
\* the new task: the operation stays open, or fails at once.
LEMMA BeginGood ==
  ASSUME NEW r \in Requests, NEW b \in BridgeState, NEW asked,
         CallsOK(b, asked), NEW body, Begin(r, b, body)
  PROVE  Good(b, bridge', asked)
<1> DEFINE o == [b EXCEPT !.operation = r]
<1>1. o \in BridgeState /\ Same(b, o)
  BY DEF BridgeState, OptRequest, Same
<1>2. bridge' = o \/ bridge' = Fail(o, "failed")
  BY DEF Begin
<1> HIDE DEF o
<1>3. Good(b, o, asked)
  BY <1>1, SameGood
<1>4. Good(o, Fail(o, "failed"), asked)
  BY <1>3, FailGood DEF Good, Outcomes
<1>. QED BY <1>2, <1>3, <1>4, GoodTrans

\* The session that a request opens starts without calls.
LEMMA OpensKeeps ==
  ASSUME IInv, NEW r \in Requests, RespondOpens(r) PROVE IInv'
<1> DEFINE b == [bridge EXCEPT !.session = r, !.sess[r] = NewSession]
           body == [task[r] EXCEPT !.session = r]
           w(step) == [body EXCEPT !.pc = "awaiting", !.drv = step]
<1>1. /\ bridge \in BridgeState /\ task \in [Requests -> Task]
      /\ task[r] \in Task /\ r \notin Opened /\ r # None
  BY NoneAssumption DEF IInv, TypeOK, RespondOpens, Opened
<1>2. /\ b \in BridgeState /\ b.session = r /\ b.answers = bridge.answers
      /\ Cur(b) = NewSession
      /\ \A x \in Requests \ {r} : b.sess[x] = bridge.sess[x]
  BY <1>1, NewSessionType DEF BridgeState, OptRequest, Cur
<1>3. CallsOK(b, app.asked)
  <2> HIDE DEF b
  <2>1. HoldsOnce(NewSession, app.asked, b.answers)
    <3>1. /\ NewSession.waiting = None /\ NewSession.pending = <<>>
          /\ NewSession.seen = {}
      BY DEF NewSession
    <3>2. DOMAIN NewSession.pending = {}
      BY <3>1
    <3>. QED BY <3>1, <3>2 DEF HoldsOnce, Held, Range
  <2>. QED BY <1>2, <2>1 DEF CallsOK, IInv, CallInv
<1>4. Begin(r, b, body)
  BY DEF RespondOpens
<1>5. /\ bridge' \in BridgeState /\ CallsOK(bridge', app.asked)
      /\ bridge'.session \in {r, None}
      /\ \A x \in Requests \ {r} :
           bridge.sess[x].thread => bridge'.sess[x].thread
  <2> HIDE DEF b, body
  <2>1. Good(b, bridge', app.asked)
    BY <1>2, <1>3, <1>4, BeginGood
  <2>. QED BY <1>2, <2>1 DEF Good, Keeps
<1>6. PICK step \in {"start", "done"} : task' = [task EXCEPT ![r] = w(step)]
  <2> HIDE DEF b, body
  <2>. QED BY <1>4 DEF Begin
<1>7. /\ w(step) \in Task /\ w(step).session = r
      /\ w(step).pc = "awaiting"
  BY <1>1 DEF Task, OptRequest
<1>8. /\ task' \in [Requests -> Task] /\ Opened' = Opened \cup {r}
      /\ task'[r].session = r
      /\ \A q \in Requests \ {r} : task'[q] = task[q]
  <2> HIDE DEF w
  <2>. QED BY <1>1, <1>6, <1>7 DEF Opened
<1>9. UNCHANGED <<loop, close, app>> /\ burst' = FALSE
  BY DEF RespondOpens, Begin, Micro
<1>10. TypeOK'
  BY <1>5, <1>8, <1>9 DEF IInv, TypeOK
<1> HIDE DEF w, b, body
<1>11. OpenedFirst'
  <2>1. \A q \in Opened' : task'[q].session \in Opened'
    BY <1>8 DEF IInv, CallInv, OpenedFirst, Opened
  <2>2. ASSUME NEW t \in Requests, app'.turn[t] # "none"
        PROVE  t \in Opened' /\ bridge'.sess[task'[t].session].thread
    <3>1. /\ t \in Opened /\ bridge.sess[task[t].session].thread
          /\ task[t].session \in Opened
      BY <1>9, <2>2 DEF IInv, CallInv, OpenedFirst
    <3>2. t # r /\ task[t].session \in Requests \ {r}
      BY <1>1, <3>1 DEF Opened
    <3>. QED BY <1>5, <1>8, <3>1, <3>2
  <2>. QED BY <1>5, <1>8, <2>1, <2>2 DEF IInv, CallInv, OpenedFirst
<1>12. CallsSeen'
  <2> SUFFICES ASSUME NEW c \in Calls, app'.asked[c] # None
               PROVE  LET t == app'.asked[c]
                      IN /\ app'.turn[t] # "none"
                         /\ bridge'.session # task'[t].session
    BY DEF CallsSeen, Cur
  <2> DEFINE t == app.asked[c]
  <2>1. t \in Requests /\ app.turn[t] # "none"
    BY <1>9 DEF IInv, TypeOK, CallInv, CallsSeen, OptRequest
  <2>2. t \in Opened /\ task[t].session \in Opened
    BY <2>1 DEF IInv, CallInv, OpenedFirst
  <2>3. t # r /\ task[t].session \notin {r, None}
    BY <1>1, <2>2, NoneAssumption DEF Opened
  <2>. QED BY <1>5, <1>8, <1>9, <2>1, <2>3
<1>. QED BY <1>5, <1>9, <1>10, <1>11, <1>12 DEF IInv, CallInv

\* A request that continues a session opens no other.
LEMMA ContinueKeeps ==
  ASSUME IInv, NEW r \in Requests, NEW prev \in OptRequest, NEW tool \in OptCall,
         RespondContinue(r, prev, tool)
  PROVE  IInv'
<1> DEFINE b == [bridge EXCEPT !.busy = TRUE, !.ttl = FALSE]
           turn == IF tool = None THEN r ELSE task[prev].turn
           body == [task[r] EXCEPT !.session = bridge.session, !.prev = prev,
                                   !.tool = tool, !.turn = turn]
           w(step) == [body EXCEPT !.pc = "awaiting", !.drv = step]
<1>1. /\ bridge \in BridgeState /\ task \in [Requests -> Task]
      /\ task[r] \in Task /\ r \notin Opened
      /\ prev \in Requests
  BY DEF IInv, TypeOK, RespondContinue, Arrives, Opened, OptRequest
<1>2. bridge.session \in Opened /\ bridge.session \in Requests
  BY DEF RespondContinue, ContinuationOk, IInv, CallInv, OpenedFirst, Opened
<1>3. b \in BridgeState /\ Same(bridge, b)
  BY <1>1 DEF BridgeState, Same
<1>4. Begin(r, b, body)
  BY DEF RespondContinue
<1>5. Good(bridge, bridge', app.asked)
  <2> HIDE DEF b, body
  <2>1. Good(bridge, b, app.asked)
    BY <1>3, SameGood DEF IInv, CallInv
  <2>2. Good(b, bridge', app.asked)
    BY <1>4, <2>1, BeginGood DEF Good
  <2>. QED BY <2>1, <2>2, GoodTrans
<1>6. PICK step \in {"start", "done"} : task' = [task EXCEPT ![r] = w(step)]
  <2> HIDE DEF b, body
  <2>. QED BY <1>4 DEF Begin
<1>7. turn \in OptRequest
  BY <1>1 DEF Task, OptRequest
<1>8. /\ w(step) \in Task /\ w(step).session = bridge.session
      /\ w(step).pc = "awaiting"
  <2> HIDE DEF turn
  <2>. QED BY <1>1, <1>2, <1>7 DEF Task, OptRequest
<1>9. /\ task' \in [Requests -> Task] /\ Opened' = Opened \cup {r}
      /\ task'[r].session = bridge.session
      /\ \A q \in Requests \ {r} : task'[q] = task[q]
  <2> HIDE DEF w
  <2>. QED BY <1>1, <1>6, <1>8 DEF Opened
<1>10. UNCHANGED <<loop, close, app>> /\ burst' = FALSE
  BY DEF RespondContinue, Begin, Arrives, Macro
<1>11. TypeOK'
  BY <1>5, <1>9, <1>10 DEF IInv, TypeOK, Good
<1> HIDE DEF w, b, body, turn
<1>12. OpenedFirst'
  <2>1. \A q \in Opened' : task'[q].session \in Opened'
    BY <1>2, <1>9 DEF IInv, CallInv, OpenedFirst, Opened
  <2>2. ASSUME NEW t \in Requests, app'.turn[t] # "none"
        PROVE  t \in Opened' /\ bridge'.sess[task'[t].session].thread
    <3>1. /\ t \in Opened /\ bridge.sess[task[t].session].thread
          /\ task[t].session \in Requests
      BY <1>10, <2>2 DEF IInv, CallInv, OpenedFirst, Opened
    <3>2. t # r
      BY <1>1, <3>1
    <3>. QED BY <1>5, <1>9, <3>1, <3>2 DEF Good, Keeps
  <2>3. bridge'.session \in Opened' \cup {None}
    BY <1>2, <1>5, <1>9 DEF Good, Keeps
  <2>. QED BY <1>9, <2>1, <2>2, <2>3 DEF IInv, CallInv, OpenedFirst
<1>13. CallsSeen'
  <2> SUFFICES ASSUME NEW c \in Calls, app'.asked[c] # None
               PROVE  LET t == app'.asked[c]
                      IN /\ app'.turn[t] # "none"
                         /\ bridge'.session = task'[t].session
                              => c \in Cur(bridge').seen
    BY DEF CallsSeen, Cur
  <2> DEFINE t == app.asked[c]
  <2>1. /\ t \in Requests /\ app.turn[t] # "none"
        /\ bridge.session = task[t].session => c \in Cur(bridge).seen
    BY <1>10 DEF IInv, TypeOK, CallInv, CallsSeen, OptRequest
  <2>2. t \in Opened /\ task[t].session \in Requests
    BY <2>1 DEF IInv, CallInv, OpenedFirst, Opened
  <2>3. t # r /\ task[t].session # None
    BY <1>1, <2>2, NoneAssumption
  <2>. QED BY <1>5, <1>9, <1>10, <2>1, <2>3 DEF Good, Keeps
<1>. QED BY <1>5, <1>10, <1>11, <1>12, <1>13 DEF IInv, CallInv, Good

\* The finally block of respond() keeps the invariant.
LEMMA ReturnsKeeps ==
  ASSUME IInv, NEW r \in Requests, RespondReturns(r) PROVE IInv'
<1> DEFINE d == [bridge EXCEPT !.busy = FALSE, !.operation = None,
                               !.ttl = (bridge.session # None) \/ @]
           v == [task[r] EXCEPT !.pc = "done", !.gone = FALSE]
<1>1. bridge \in BridgeState /\ task \in [Requests -> Task] /\ task[r] \in Task
  BY DEF IInv, TypeOK
<1>2. d \in BridgeState /\ Same(bridge, d)
  BY <1>1 DEF BridgeState, OptRequest, Same
<1>3. bridge' = d /\ task' = [task EXCEPT ![r] = v]
  BY DEF RespondReturns
<1>4. /\ v \in Task /\ v.session = task[r].session /\ v.drv = task[r].drv
      /\ v.pc = "done" /\ task[r].pc = "awaiting"
  BY <1>1 DEF Task, RespondReturns
<1> HIDE DEF d, v
<1>5. Good(bridge, bridge', app.asked)
  BY <1>2, <1>3, SameGood DEF IInv, CallInv
<1>6. task' \in [Requests -> Task] /\ TasksKept
  BY <1>1, <1>3, <1>4, TaskStep
<1>. QED BY <1>5, <1>6, MacroType, TasksStep DEF RespondReturns

\* The generation timer keeps the invariant.
LEMMA TimeoutKeeps ==
  ASSUME IInv, NEW r \in Requests, RequestTimeout(r) PROVE IInv'
<1>1. Good(bridge, bridge', app.asked)
  BY FailGood DEF RequestTimeout, IInv, TypeOK, CallInv, Outcomes
<1>. QED BY <1>1, MacroType, QuietStep DEF RequestTimeout

\* A client that goes away keeps the invariant.
LEMMA GoneKeeps ==
  ASSUME IInv, NEW r \in Requests, ClientGone(r) PROVE IInv'
<1> DEFINE v == [task[r] EXCEPT !.gone = TRUE]
<1>1. task \in [Requests -> Task] /\ task[r] \in Task
  BY DEF IInv, TypeOK
<1>2. Good(bridge, bridge', app.asked)
  BY FailGood, SelfGood DEF ClientGone, IInv, TypeOK, CallInv, Outcomes
<1>3. task' = [task EXCEPT ![r] = v]
  BY DEF ClientGone
<1>4. /\ v \in Task /\ v.session = task[r].session /\ v.drv = task[r].drv
      /\ v.pc = task[r].pc
  BY <1>1 DEF Task
<1> HIDE DEF v
<1>5. task' \in [Requests -> Task] /\ TasksKept
  BY <1>1, <1>3, <1>4, TaskStep
<1>. QED BY <1>2, <1>5, MacroType, TasksStep DEF ClientGone

\* The session timer keeps the invariant.
LEMMA ExpiresKeeps ==
  ASSUME IInv, SessionExpires PROVE IInv'
<1>1. Good(bridge, bridge', app.asked)
  BY ReleaseGood DEF SessionExpires, IInv, TypeOK, CallInv
<1>. QED BY <1>1, MacroType, QuietStep DEF SessionExpires

-----------------------------------------------------------------------------
(* drive() *)

AppType == [turn : [Requests -> {"none", "sent", "running", "ended"}],
            items : [Requests -> Nat], asked : [Calls -> OptRequest]]

\* A request that is driven is opened, and its session is one.
LEMMA DrivenOpened ==
  ASSUME IInv, NEW r \in Requests, task[r].drv # "none"
  PROVE  /\ r \in Opened /\ task[r].session \in Requests
         /\ task[r].session # None
BY NoneAssumption DEF IInv, CallInv, OpenedFirst, Opened

\* turn/start is sent on the thread of the session.
LEMMA StartsTurnKept ==
  ASSUME IInv, NEW r \in Requests, task[r].drv # "none", StartsTurn(r),
         bridge'.sess[task[r].session].thread
  PROVE  /\ task' \in [Requests -> Task] /\ TasksKept
         /\ app' \in AppType /\ TurnsKept /\ app'.asked = app.asked
<1>1. task' \in [Requests -> Task] /\ TasksKept
  BY AsksKept DEF StartsTurn, IInv, TypeOK, Drives
<1>2. app \in AppType
  BY DEF IInv, TypeOK, AppType
<1>3. CASE app' = app
  BY <1>1, <1>2, <1>3 DEF TurnsKept
<1>4. CASE app' = [app EXCEPT !.turn[r] = "sent"]
  <2>1. /\ app' \in AppType /\ app'.asked = app.asked
        /\ app'.turn[r] = "sent"
        /\ \A t \in Requests \ {r} : app'.turn[t] = app.turn[t]
    BY <1>2, <1>4 DEF AppType
  <2>2. r \in Opened
    BY DrivenOpened
  <2>. QED BY <1>1, <2>1, <2>2 DEF TurnsKept
<1>. QED BY <1>3, <1>4 DEF StartsTurn

\* A step of drive() that may send its turn.
LEMMA TurnSentStep ==
  ASSUME IInv, NEW r \in Requests, task[r].drv # "none", StartsTurn(r),
         bridge'.sess[task[r].session].thread,
         Good(bridge, bridge', app.asked), burst' \in BOOLEAN,
         UNCHANGED <<loop, close>>
  PROVE  IInv'
<1>1. /\ task' \in [Requests -> Task] /\ TasksKept
      /\ app' \in AppType /\ TurnsKept /\ app'.asked = app.asked
  BY StartsTurnKept
<1>2. TypeOK'
  BY <1>1 DEF Good, IInv, TypeOK, AppType
<1>3. CallsKept
  BY <1>1 DEF CallsKept
<1>. QED BY <1>1, <1>2, <1>3, Frame

\* drive() up to thread/start keeps the invariant.
LEMMA StartsKeeps ==
  ASSUME IInv, NEW r \in Requests, DriveStarts(r) PROVE IInv'
<1>1. task \in [Requests -> Task] /\ task[r].drv # "none"
  BY DEF IInv, TypeOK, DriveStarts, Started
<1>2. task' \in [Requests -> Task] /\ TasksKept
  BY <1>1, MovesKept, AsksKept DEF DriveStarts, Drives
<1>3. Good(bridge, bridge', app.asked)
  BY SelfGood DEF DriveStarts
<1>. QED BY <1>2, <1>3, MacroType, TasksStep DEF DriveStarts, Started

\* drive() up to turn/start keeps the invariant.
LEMMA MessageKeeps ==
  ASSUME IInv, NEW r \in Requests, DriveSendsMessage(r) PROVE IInv'
<1>1. task[r].drv # "none"
  BY DEF DriveSendsMessage, Started
<1>2. Good(bridge, bridge', app.asked)
  BY SelfGood DEF DriveSendsMessage
<1>3. bridge'.sess[task[r].session].thread
  BY DEF DriveSendsMessage, Current, Cur
<1>. QED BY <1>1, <1>2, <1>3, MacroType, TurnSentStep
         DEF DriveSendsMessage, Started

\* The waiting call is answered with the result, and no longer held.
LEMMA AnswersGood ==
  ASSUME NEW b \in BridgeState, NEW asked, CallsOK(b, asked),
         b.session # None, NEW s \in Session, NEW ans,
         s.waiting = None, s.pending = Cur(b).pending, s.seen = Cur(b).seen,
         s.thread = Cur(b).thread, ans \in [Calls -> Seq(Answers)],
         \A c \in Calls :
           /\ c # Cur(b).waiting => ans[c] = b.answers[c]
           /\ c = Cur(b).waiting => ans[c] = b.answers[c] \/ Len(ans[c]) = 1
  PROVE  Good(b, [b EXCEPT !.answers = ans, !.sess[b.session] = s], asked)
<1> DEFINE f == [b EXCEPT !.sess[b.session] = s]
           d == [b EXCEPT !.answers = ans, !.sess[b.session] = s]
<1>1. /\ f \in BridgeState
      /\ f.session = b.session /\ Cur(f) = s
      /\ \A x \in Requests \ {b.session} : f.sess[x] = b.sess[x]
  BY SetCur
<1>2. d = [f EXCEPT !.answers = ans]
  BY DEF BridgeState
<1> HIDE DEF f
<1>3. /\ d \in BridgeState /\ d.answers = ans /\ d.session = f.session
      /\ d.sess = f.sess
  BY <1>1, <1>2 DEF BridgeState
<1> HIDE DEF d
<1>4. Cur(d) = s /\ d.session = b.session
  BY <1>1, <1>3 DEF Cur
<1>5. Keeps(b, d)
  BY <1>1, <1>3, <1>4 DEF Keeps, Cur
<1>6. HoldsOnce(Cur(b), asked, b.answers)
  BY DEF CallsOK
<1>7. Cur(b) \in Session
  BY CurType
<1>8. Held(s) \subseteq Held(Cur(b)) \ {Cur(b).waiting}
  BY <1>6 DEF Held, HoldsOnce
<1>9. \A c \in Held(s) : ans[c] = <<>>
  BY <1>6, <1>7, <1>8, HeldType DEF HoldsOnce
<1>10. HoldsOnce(s, asked, ans)
  <2>1. None \notin Range(s.pending)
    BY <1>7, NoneAssumption DEF Range, Session
  <2>. QED BY <1>6, <1>8, <1>9, <2>1 DEF HoldsOnce
<1>11. ASSUME NEW c \in Calls
       PROVE  Len(ans[c]) <= 1 /\ (asked[c] = None => ans[c] = <<>>)
  <2>1. /\ Len(b.answers[c]) <= 1
        /\ asked[c] = None => b.answers[c] = <<>>
    BY DEF CallsOK
  <2>2. c = Cur(b).waiting => asked[c] # None
    BY <1>6, NoneAssumption DEF HoldsOnce, Held
  <2>3. \/ ans[c] = b.answers[c]
        \/ c = Cur(b).waiting /\ Len(ans[c]) = 1
    OBVIOUS
  <2>4. CASE ans[c] = b.answers[c]
    BY <2>1, <2>4, Zenon
  <2>5. CASE c = Cur(b).waiting /\ Len(ans[c]) = 1
    <3>1. Len(ans[c]) <= 1
      BY <2>5
    <3>. QED BY <2>2, <2>5, <3>1, Zenon
  <2>. QED BY <2>3, <2>4, <2>5, Zenon
<1>12. CallsOK(d, asked)
  BY <1>3, <1>4, <1>10, <1>11 DEF CallsOK
<1>. QED BY <1>3, <1>5, <1>12 DEF Good, d

\* drive() answering the waiting call keeps the invariant.
LEMMA AnswersKeeps ==
  ASSUME IInv, NEW r \in Requests, DriveAnswersTool(r) PROVE IInv'
<1> DEFINE b == bridge
           s == Cur(b)
           ans == Answer(b, {s.waiting}, "result", r)
<1>1. /\ b \in BridgeState /\ CallsOK(b, app.asked)
      /\ task \in [Requests -> Task] /\ task[r].drv # "none"
  BY DEF IInv, TypeOK, CallInv, DriveAnswersTool, Started
<1>2. b.session # None /\ b.session \in Requests /\ s \in Session
  BY <1>1, DrivenOpened, CurType DEF DriveAnswersTool, Current
<1>3. HoldsOnce(s, app.asked, b.answers)
  BY <1>1, <1>2 DEF CallsOK
<1>4. CASE b.rpc = "up"
  <2> DEFINE v == [s EXCEPT !.waiting = None, !.buffered = <<>>]
  <2>1. /\ v \in Session /\ v.waiting = None /\ v.pending = s.pending
        /\ v.seen = s.seen /\ v.thread = s.thread
    <3> HIDE DEF s
    <3>1. <<>> \in Seq(Events)
      OBVIOUS
    <3>. QED BY <1>2, <3>1 DEF Session, OptCall
  <2>2. ans \in [Calls -> Seq(Answers)]
    BY <1>1, AnswerType DEF OptRequest
  <2>3. ASSUME NEW c \in Calls
        PROVE  /\ c # s.waiting => ans[c] = b.answers[c]
               /\ c = s.waiting => ans[c] = b.answers[c] \/ Len(ans[c]) = 1
    <3>1. c = s.waiting => b.answers[c] = <<>>
      BY <1>3, NoneAssumption DEF HoldsOnce, Held
    <3>. QED BY <3>1 DEF Answer
  <2>4. /\ bridge' = [b EXCEPT !.answers = ans, !.sess[b.session] = v]
        /\ loop' = s.buffered /\ Moves(r, "replay")
    BY <1>4 DEF DriveAnswersTool
  <2> HIDE DEF v, ans
  <2>5. Good(b, bridge', app.asked)
    BY <1>1, <1>2, <2>1, <2>2, <2>3, <2>4, AnswersGood
  <2>6. loop' \in Seq(Events)
    BY <1>2, <2>4 DEF Session
  <2>7. task' \in [Requests -> Task] /\ TasksKept
    BY <1>1, <2>4, MovesKept DEF Drives
  <2>8. UNCHANGED <<close, app>> /\ burst' \in BOOLEAN
    BY MacroType DEF DriveAnswersTool, Started
  <2>9. TypeOK' /\ TurnsKept /\ CallsKept
    BY <2>5, <2>6, <2>7, <2>8 DEF IInv, TypeOK, Good, TurnsKept, CallsKept
  <2>. QED BY <2>5, <2>7, <2>8, <2>9, Frame
<1>5. CASE b.rpc # "up"
  <2> DEFINE v == [s EXCEPT !.waiting = None]
             d == [b EXCEPT !.sess[b.session] = v]
             e == [b EXCEPT !.answers = b.answers, !.sess[b.session] = v]
  <2>1. /\ v \in Session /\ v.waiting = None /\ v.pending = s.pending
        /\ v.seen = s.seen /\ v.thread = s.thread
    BY <1>2 DEF Session, OptCall
  <2>2. b.answers \in [Calls -> Seq(Answers)]
    BY <1>1 DEF BridgeState
  <2>3. bridge' = d /\ d = e
    BY <1>1, <1>5 DEF DriveAnswersTool, Cur, BridgeState
  <2> HIDE DEF v, d
  <2>4. Good(b, bridge', app.asked)
    BY <1>1, <1>2, <2>1, <2>2, <2>3, AnswersGood
  <2>5. task' \in [Requests -> Task] /\ TasksKept
    BY <1>1, <1>5, MovesKept DEF Drives, DriveAnswersTool
  <2>6. UNCHANGED <<loop, close, app>> /\ burst' \in BOOLEAN
    BY <1>5, MacroType DEF DriveAnswersTool, Started
  <2>. QED BY <2>4, <2>5, <2>6, TasksStep
<1>. QED BY <1>4, <1>5

\* A round of the replay loop keeps the invariant.
LEMMA ReplaysKeeps ==
  ASSUME IInv, NEW r \in Requests, DriveReplays(r) PROVE IInv'
<1>1. /\ bridge \in BridgeState /\ CallsOK(bridge, app.asked)
      /\ task \in [Requests -> Task] /\ task[r].drv # "none"
      /\ loop \in Seq(Events) /\ loop # <<>>
  BY DEF IInv, TypeOK, CallInv, DriveReplays
<1>2. Head(loop) \in Events /\ Tail(loop) \in Seq(Events)
  BY <1>1
<1>3. Good(bridge, bridge', app.asked)
  BY <1>1, <1>2, ConsumeGood DEF DriveReplays
<1>4. task' \in [Requests -> Task] /\ TasksKept /\ loop' \in Seq(Events)
  <2>1. CASE Moves(r, "failed") /\ loop' = <<>>
    BY <1>1, <2>1, MovesKept DEF Drives
  <2>2. CASE loop' = Tail(loop) /\ UNCHANGED task
    BY <1>1, <1>2, <2>2 DEF TasksKept, Opened
  <2>. QED BY <2>1, <2>2 DEF DriveReplays
<1>5. UNCHANGED <<close, app>> /\ burst' = FALSE
  BY DEF DriveReplays
<1>6. TypeOK' /\ TurnsKept /\ CallsKept
  BY <1>3, <1>4, <1>5 DEF IInv, TypeOK, Good, TurnsKept, CallsKept
<1>. QED BY <1>3, <1>4, <1>5, <1>6, Frame

\* drive() offering the next call keeps the invariant.
LEMMA FlushesKeeps ==
  ASSUME IInv, NEW r \in Requests, DriveFlushes(r) PROVE IInv'
<1>1. /\ bridge \in BridgeState /\ CallsOK(bridge, app.asked)
      /\ task \in [Requests -> Task] /\ task[r].drv # "none"
  BY DEF IInv, TypeOK, CallInv, DriveFlushes
<1>2. Good(bridge, bridge', app.asked)
  BY <1>1, FlushGood, TakeGood DEF DriveFlushes
<1>3. task' \in [Requests -> Task] /\ TasksKept
  BY <1>1, MovesKept DEF Drives, DriveFlushes
<1>. QED BY <1>2, <1>3, TasksStep DEF DriveFlushes

\* thread/start answered for a session that is gone.
LEMMA ThreadLateKeeps ==
  ASSUME IInv, NEW r \in Requests, ThreadTooLate(r) PROVE IInv'
<1> DEFINE U == bridge.unsubscribed \cup {task[r].session}
           d == [bridge EXCEPT !.unsubscribed = U]
<1>1. /\ bridge \in BridgeState /\ CallsOK(bridge, app.asked)
      /\ task \in [Requests -> Task] /\ task[r].drv # "none"
  BY DEF IInv, TypeOK, CallInv, ThreadTooLate, Resolved
<1>2. d \in BridgeState /\ Same(bridge, d)
  <2>1. U \in SUBSET Requests
    BY <1>1, DrivenOpened DEF BridgeState
  <2> HIDE DEF U
  <2>. QED BY <1>1, <2>1 DEF BridgeState, Same
<1>3. bridge' = d \/ bridge' = bridge
  BY DEF ThreadTooLate
<1> HIDE DEF d
<1>4. Good(bridge, bridge', app.asked)
  BY <1>1, <1>2, <1>3, SameGood, SelfGood
<1>5. task' \in [Requests -> Task] /\ TasksKept
  BY <1>1, MovesKept DEF Drives, ThreadTooLate
<1>. QED BY <1>4, <1>5, MacroType, TasksStep DEF ThreadTooLate, Resolved

\* thread/start answered for the current session.
LEMMA ThreadKeeps ==
  ASSUME IInv, NEW r \in Requests, ThreadArrives(r) PROVE IInv'
<1> DEFINE s == [Cur(bridge) EXCEPT !.thread = TRUE]
           d == [bridge EXCEPT !.sess[bridge.session] = s]
<1>1. /\ bridge \in BridgeState /\ CallsOK(bridge, app.asked)
      /\ task \in [Requests -> Task] /\ task[r].drv # "none"
  BY DEF IInv, TypeOK, CallInv, ThreadArrives, Resolved
<1>2. /\ bridge.session # None /\ bridge.session = task[r].session
      /\ Cur(bridge) \in Session
  BY <1>1, DrivenOpened, CurType DEF ThreadArrives, Current
<1>3. /\ s \in Session /\ s.thread /\ s.seen = Cur(bridge).seen
      /\ s.waiting = Cur(bridge).waiting /\ s.pending = Cur(bridge).pending
  BY <1>2 DEF Session
<1>4. bridge' = d
  BY <1>1 DEF ThreadArrives, Cur
<1> HIDE DEF s
<1>5. Good(bridge, bridge', app.asked) /\ bridge'.sess[task[r].session].thread
  <2>1. Cur(d) = s /\ d.session = bridge.session
    BY <1>1, <1>2, <1>3, SetCur
  <2>. QED BY <1>1, <1>2, <1>3, <1>4, <2>1, SetCurGood DEF Cur
<1>6. UNCHANGED <<loop, close>> /\ burst' \in BOOLEAN
  BY MacroType DEF ThreadArrives, Resolved
<1>7. CASE StartsTurn(r)
  BY <1>1, <1>5, <1>6, <1>7, TurnSentStep
<1>8. CASE Moves(r, "failed") /\ UNCHANGED app
  <2>1. task' \in [Requests -> Task] /\ TasksKept
    BY <1>1, <1>8, MovesKept DEF Drives
  <2>. QED BY <1>5, <1>6, <1>8, <2>1, TasksStep
<1>. QED BY <1>7, <1>8 DEF ThreadArrives

\* turn/start answered for a session that is gone.
LEMMA TurnLateKeeps ==
  ASSUME IInv, NEW r \in Requests, TurnTooLate(r) PROVE IInv'
<1> DEFINE U == bridge.interrupted \cup {r}
           d == [bridge EXCEPT !.interrupted = U]
<1>1. /\ bridge \in BridgeState /\ CallsOK(bridge, app.asked)
      /\ task \in [Requests -> Task] /\ task[r].drv # "none"
  BY DEF IInv, TypeOK, CallInv, TurnTooLate, Resolved
<1>2. d \in BridgeState /\ Same(bridge, d)
  <2>1. U \in SUBSET Requests
    BY <1>1 DEF BridgeState
  <2> HIDE DEF U
  <2>. QED BY <1>1, <2>1 DEF BridgeState, Same
<1>3. bridge' = d \/ bridge' = bridge
  BY DEF TurnTooLate
<1> HIDE DEF d
<1>4. Good(bridge, bridge', app.asked)
  BY <1>1, <1>2, <1>3, SameGood, SelfGood
<1>5. task' \in [Requests -> Task] /\ TasksKept
  BY <1>1, MovesKept DEF Drives, TurnTooLate
<1>. QED BY <1>4, <1>5, MacroType, TasksStep DEF TurnTooLate, Resolved

\* turn/start answered for the current session.
LEMMA TurnKeeps ==
  ASSUME IInv, NEW r \in Requests, TurnArrives(r) PROVE IInv'
<1> DEFINE s == [Cur(bridge) EXCEPT !.turnId = r]
           d == [bridge EXCEPT !.sess[bridge.session] = s]
<1>1. /\ bridge \in BridgeState /\ CallsOK(bridge, app.asked)
      /\ task \in [Requests -> Task] /\ task[r].drv # "none"
  BY DEF IInv, TypeOK, CallInv, TurnArrives, Resolved
<1>2. bridge.session # None /\ Cur(bridge) \in Session
  BY <1>1, DrivenOpened, CurType DEF TurnArrives, Current
<1>3. /\ s \in Session /\ s.thread = Cur(bridge).thread
      /\ s.seen = Cur(bridge).seen
      /\ s.waiting = Cur(bridge).waiting /\ s.pending = Cur(bridge).pending
  BY <1>2 DEF Session, OptRequest
<1>4. bridge' = d \/ bridge' = bridge
  BY <1>1 DEF TurnArrives, Cur
<1> HIDE DEF s
<1>5. Good(bridge, bridge', app.asked)
  BY <1>1, <1>2, <1>3, <1>4, SetCurGood, SelfGood
<1>6. task' \in [Requests -> Task] /\ TasksKept
  BY <1>1, MovesKept DEF Drives, TurnArrives
<1>. QED BY <1>5, <1>6, MacroType, TasksStep DEF TurnArrives, Resolved

\* A refused RPC of drive() keeps the invariant.
LEMMA RefusedKeeps ==
  ASSUME IInv, NEW r \in Requests, DriveRefused(r) PROVE IInv'
<1>1. task \in [Requests -> Task] /\ task[r].drv # "none"
  BY DEF IInv, TypeOK, DriveRefused, Resolved
<1>2. PICK step \in {"done", "failed"} : Moves(r, step)
  BY DEF DriveRefused
<1>3. task' \in [Requests -> Task] /\ TasksKept
  BY <1>1, <1>2, MovesKept DEF Drives
<1>4. Good(bridge, bridge', app.asked)
  BY SelfGood DEF DriveRefused
<1>. QED BY <1>3, <1>4, MacroType, TasksStep DEF DriveRefused, Resolved

\* The catch of drive() keeps the invariant.
LEMMA CatchesKeeps ==
  ASSUME IInv, NEW r \in Requests, DriveCatches(r) PROVE IInv'
<1>1. task \in [Requests -> Task] /\ task[r].drv # "none"
  BY DEF IInv, TypeOK, DriveCatches
<1>2. task' \in [Requests -> Task] /\ TasksKept
  BY <1>1, MovesKept DEF Drives, DriveCatches
<1>3. Good(bridge, bridge', app.asked)
  BY FailGood, SelfGood DEF DriveCatches, IInv, TypeOK, CallInv, Outcomes
<1>. QED BY <1>2, <1>3, MacroType, TasksStep DEF DriveCatches

-----------------------------------------------------------------------------
(* The connection, and close() *)

\* An RPC that times out keeps the invariant.
LEMMA RpcTimeoutKeeps ==
  ASSUME IInv, NEW r \in Requests, RpcTimeout(r) PROVE IInv'
<1> DEFINE late == task[r].drv = "turn"
           v == [task[r] EXCEPT !.reply = "error", !.late = late]
<1>1. task \in [Requests -> Task] /\ task[r] \in Task /\ late \in BOOLEAN
  BY DEF IInv, TypeOK
<1>2. task' = [task EXCEPT ![r] = v]
  BY DEF RpcTimeout
<1> HIDE DEF late
<1>3. /\ v \in Task /\ v.session = task[r].session /\ v.drv = task[r].drv
      /\ v.pc = task[r].pc
  BY <1>1 DEF Task
<1> HIDE DEF v
<1>4. task' \in [Requests -> Task] /\ TasksKept
  BY <1>1, <1>2, <1>3, TaskStep
<1>5. Good(bridge, bridge', app.asked)
  BY SelfGood DEF RpcTimeout
<1>. QED BY <1>4, <1>5, MacroType, TasksStep DEF RpcTimeout

\* A release that goes on after an await touches no call.
LEMMA ReleaseNextGood ==
  ASSUME IInv, NEW x \in Requests, ReleaseNext(x)
  PROVE  Good(bridge, bridge', app.asked)
<1> DEFINE more == bridge.rel[x] = "interrupt" /\ bridge.rpc = "up"
           U == IF more THEN bridge.unsubscribed \cup {x}
                ELSE bridge.unsubscribed
           next == IF more THEN "unsubscribe" ELSE "done"
           d == [bridge EXCEPT !.rel[x] = next, !.unsubscribed = U]
<1>1. bridge \in BridgeState
  BY DEF IInv, TypeOK
<1>2. /\ U \in SUBSET Requests
      /\ next \in {"none", "interrupt", "unsubscribe", "done"}
  BY <1>1 DEF BridgeState
<1>3. bridge' = d
  BY DEF ReleaseNext
<1> HIDE DEF U, next, more
<1>4. d \in BridgeState /\ Same(bridge, d)
  BY <1>1, <1>2 DEF BridgeState, Same
<1>. QED BY <1>3, <1>4, SameGood DEF IInv, CallInv

\* A release that goes on, or times out, keeps the invariant.
LEMMA ReleaseKeeps ==
  ASSUME IInv, NEW x \in Requests, ReleaseAnswered(x) \/ ReleaseTimesOut(x)
  PROVE  IInv'
<1>1. ReleaseNext(x)
  BY DEF ReleaseAnswered, ReleaseTimesOut
<1>2. Good(bridge, bridge', app.asked)
  BY <1>1, ReleaseNextGood
<1>3. burst' \in BOOLEAN
  BY HandledType, MacroType DEF ReleaseAnswered, ReleaseTimesOut
<1>. QED BY <1>1, <1>2, <1>3, QuietStep DEF ReleaseNext

\* A connection that comes up, or whose pipe breaks, keeps the invariant.
LEMMA ConnectionKeeps ==
  ASSUME IInv, RpcStarted \/ PipeBreaks PROVE IInv'
<1>1. bridge \in BridgeState
  BY DEF IInv, TypeOK
<1>2. PICK state \in {"up", "broken"} : bridge' = [bridge EXCEPT !.rpc = state]
  BY DEF RpcStarted, PipeBreaks
<1>3. bridge' \in BridgeState /\ Same(bridge, bridge')
  BY <1>1, <1>2 DEF BridgeState, Same
<1>4. Good(bridge, bridge', app.asked)
  BY <1>3, SameGood DEF IInv, CallInv
<1>. QED BY <1>4, MacroType, QuietStep DEF RpcStarted, PipeBreaks

\* The exit listener on the current bridge.
LEMMA ExitsKept ==
  ASSUME IInv, Exits(bridge)
  PROVE  /\ Good(bridge, bridge', app.asked)
         /\ task' \in [Requests -> Task] /\ TasksKept
<1> DEFINE rel == [x \in Requests |->
                     IF bridge.rel[x] = "none" THEN "none" ELSE "done"]
           b == [bridge EXCEPT !.rpc = "closed", !.closed = TRUE, !.rel = rel]
           v(r) == [task[r] EXCEPT !.reply = "error"]
<1>1. bridge \in BridgeState /\ task \in [Requests -> Task]
  BY DEF IInv, TypeOK
<1>2. rel \in [Requests -> {"none", "interrupt", "unsubscribe", "done"}]
  OBVIOUS
<1>3. bridge' = Fail(b, "failed")
  BY DEF Exits
<1> HIDE DEF rel
<1>4. b \in BridgeState /\ Same(bridge, b)
  BY <1>1, <1>2 DEF BridgeState, Same
<1> HIDE DEF b
<1>5. Good(bridge, b, app.asked)
  BY <1>4, SameGood DEF IInv, CallInv
<1>6. Good(b, bridge', app.asked)
  BY <1>3, <1>5, FailGood DEF Good, Outcomes
<1>7. ASSUME NEW r \in Requests
      PROVE  /\ v(r) \in Task /\ v(r).session = task[r].session
             /\ v(r).pc = task[r].pc /\ v(r).drv = task[r].drv
  <2>1. task[r] \in Task
    BY <1>1
  <2>. QED BY <2>1 DEF Task
<1>8. task' = [r \in Requests |->
                 IF task[r].reply = "pending" THEN v(r) ELSE task[r]]
  BY DEF Exits
<1> HIDE DEF v
<1>9. task' \in [Requests -> Task] /\ TasksKept
  BY <1>1, <1>7, <1>8 DEF TasksKept, Opened
<1>. QED BY <1>5, <1>6, <1>9, GoodTrans

\* The exit of the app-server keeps the invariant.
LEMMA ExitKeeps ==
  ASSUME IInv, RpcExits PROVE IInv'
BY ExitsKept, TasksStep DEF RpcExits

\* close() up to its await keeps the invariant.
LEMMA CloseBeginsKeeps ==
  ASSUME IInv, CloseBegins PROVE IInv'
<1> DEFINE b == IF Open(bridge) THEN Fail(bridge, "failed") ELSE bridge
           c == [b EXCEPT !.closed = TRUE]
<1>1. Good(bridge, b, app.asked)
  BY FailGood, SelfGood DEF IInv, TypeOK, CallInv, Outcomes
<1>2. bridge' = Release(c) /\ close' = [at |-> "releasing", of |-> b.session]
  BY DEF CloseBegins
<1> HIDE DEF b
<1>3. c \in BridgeState /\ Same(b, c) /\ b.session \in OptRequest
  BY <1>1 DEF Good, BridgeState, Same
<1> HIDE DEF c
<1>4. Good(b, c, app.asked)
  BY <1>1, <1>3, SameGood DEF Good
<1>5. Good(c, bridge', app.asked)
  BY <1>2, <1>4, ReleaseGood DEF Good
<1>6. Good(bridge, bridge', app.asked)
  BY <1>1, <1>4, <1>5, GoodTrans
<1>7. UNCHANGED <<task, loop, app>> /\ burst' \in BOOLEAN
  BY MacroType DEF CloseBegins
<1>8. close' \in [at : {"no", "releasing", "done"}, of : OptRequest]
  BY <1>2, <1>3
<1>9. TypeOK' /\ TasksKept /\ TurnsKept /\ CallsKept
  BY <1>6, <1>7, <1>8
     DEF IInv, TypeOK, Good, TasksKept, TurnsKept, CallsKept, Opened
<1>. QED BY <1>6, <1>7, <1>9, Frame

\* close() after its await keeps the invariant.
LEMMA CloseEndsKeeps ==
  ASSUME IInv, CloseEnds PROVE IInv'
<1>1. /\ Good(bridge, bridge', app.asked)
      /\ task' \in [Requests -> Task] /\ TasksKept
  <2>1. CASE UNCHANGED <<bridge, task>>
    BY <2>1, SelfGood DEF IInv, TypeOK, TasksKept, Opened
  <2>2. CASE Exits(bridge)
    BY <2>2, ExitsKept
  <2>. QED BY <2>1, <2>2 DEF CloseEnds
<1>2. UNCHANGED <<loop, app>> /\ burst' \in BOOLEAN
  BY MacroType DEF CloseEnds
<1>3. close' \in [at : {"no", "releasing", "done"}, of : OptRequest]
  BY DEF CloseEnds, IInv, TypeOK
<1>4. TypeOK' /\ TurnsKept /\ CallsKept
  BY <1>1, <1>2, <1>3 DEF IInv, TypeOK, Good, TurnsKept, CallsKept
<1>. QED BY <1>1, <1>2, <1>4, Frame

-----------------------------------------------------------------------------
(* The app-server's lines *)

\* A line that changes the bridge and the progress of a turn that was sent.
LEMMA TurnStep ==
  ASSUME IInv, Good(bridge, bridge', app.asked), burst' \in BOOLEAN,
         task' \in [Requests -> Task], TasksKept, UNCHANGED <<loop, close>>,
         app' \in AppType, app'.asked = app.asked,
         \A t \in Requests : app'.turn[t] = "none" <=> app.turn[t] = "none"
  PROVE  IInv'
<1>1. TypeOK'
  BY DEF Good, IInv, TypeOK, AppType
<1>2. TurnsKept /\ CallsKept
  BY DEF TurnsKept, CallsKept
<1>. QED BY <1>1, <1>2, Frame

\* An answer to an RPC of drive() keeps the invariant.
LEMMA ReplyKeeps ==
  ASSUME IInv, NEW r \in Requests, NEW result \in Replies, RpcReply(r, result)
  PROVE  IInv'
<1> DEFINE v == [task[r] EXCEPT !.reply = result]
<1>1. task \in [Requests -> Task] /\ task[r] \in Task /\ app \in AppType
  BY DEF IInv, TypeOK, AppType
<1>2. task' = [task EXCEPT ![r] = v]
  BY DEF RpcReply
<1>3. /\ v \in Task /\ v.session = task[r].session /\ v.drv = task[r].drv
      /\ v.pc = task[r].pc
  BY <1>1 DEF Task, Replies
<1> HIDE DEF v
<1>4. task' \in [Requests -> Task] /\ TasksKept
  BY <1>1, <1>2, <1>3, TaskStep
<1>5. /\ app' \in AppType /\ app'.asked = app.asked
      /\ \A t \in Requests : app'.turn[t] = "none" <=> app.turn[t] = "none"
  <2>1. \/ app' = app
        \/ app.turn[r] = "sent" /\ app' = [app EXCEPT !.turn[r] = "ended"]
    BY DEF RpcReply
  <2>. QED BY <1>1, <2>1 DEF AppType
<1>6. Good(bridge, bridge', app.asked)
  BY SelfGood DEF RpcReply
<1>. QED BY <1>4, <1>5, <1>6, HandledType, TurnStep DEF RpcReply

\* A turn that begins keeps the invariant.
LEMMA BeginsKeeps ==
  ASSUME IInv, NEW t \in Requests, NEW announced, TurnBegins(t, announced)
  PROVE  IInv'
<1> DEFINE s == [Cur(bridge) EXCEPT !.turnId = t]
           d == [bridge EXCEPT !.sess[bridge.session] = s]
<1>1. app \in AppType /\ bridge \in BridgeState /\ CallsOK(bridge, app.asked)
  BY DEF IInv, TypeOK, AppType, CallInv
<1>2. /\ app' \in AppType /\ app'.asked = app.asked
      /\ \A u \in Requests : app'.turn[u] = "none" <=> app.turn[u] = "none"
  BY <1>1 DEF AppType, TurnBegins
<1>3. Good(bridge, bridge', app.asked)
  <2>1. CASE bridge' = bridge
    BY <2>1, SelfGood
  <2>2. CASE bridge' # bridge
    <3>1. bridge.session # None /\ Cur(bridge) \in Session
      BY <1>1, <2>2, CurType DEF TurnBegins, Ours
    <3>2. /\ s \in Session /\ s.thread = Cur(bridge).thread
          /\ s.seen = Cur(bridge).seen
          /\ s.waiting = Cur(bridge).waiting
          /\ s.pending = Cur(bridge).pending
      BY <3>1 DEF Session, OptRequest
    <3>3. bridge' = d
      BY <2>2 DEF TurnBegins, Cur
    <3> HIDE DEF s
    <3>. QED BY <1>1, <3>1, <3>2, <3>3, SetCurGood
  <2>. QED BY <2>1, <2>2
<1>4. task' \in [Requests -> Task] /\ TasksKept
  BY DEF TurnBegins, IInv, TypeOK, TasksKept, Opened
<1>. QED BY <1>2, <1>3, <1>4, HandledType, TurnStep DEF TurnBegins

\* Delivering or buffering an event keeps the calls accounted for.
LEMMA DeliverGood ==
  ASSUME IInv, NEW e \in Events, NEW ok, bridge.session # None
  PROVE  Good(bridge, Deliver(e, ok), app.asked)
<1> DEFINE s == [Cur(bridge) EXCEPT !.buffered = Append(@, e)]
           held == [bridge EXCEPT !.sess[bridge.session] = s]
           consumed == Consume(bridge, e, ok)
<1>1. bridge \in BridgeState /\ CallsOK(bridge, app.asked)
  BY DEF IInv, TypeOK, CallInv
<1>2. Cur(bridge) \in Session
  BY <1>1, CurType
<1>3. Append(Cur(bridge).buffered, e) \in Seq(Events)
  <2>1. Cur(bridge).buffered \in Seq(Events)
    BY <1>2 DEF Session
  <2>. QED BY <2>1
<1>4. /\ s \in Session /\ s.thread = Cur(bridge).thread
      /\ s.seen = Cur(bridge).seen
      /\ s.waiting = Cur(bridge).waiting /\ s.pending = Cur(bridge).pending
  BY <1>2, <1>3 DEF Session
<1>5. held = [bridge EXCEPT !.sess[bridge.session].buffered = Append(@, e)]
  BY DEF Cur
<1>6. Good(bridge, consumed, app.asked)
  BY <1>1, ConsumeGood
<1> HIDE DEF s
<1>7. Good(bridge, held, app.asked)
  BY <1>1, <1>4, SetCurGood
<1>8. \/ Deliver(e, ok) \in {consumed, held}
      \/ Deliver(e, ok) = Fail(consumed, "failed")
      \/ Deliver(e, ok) = Fail(held, "failed")
  BY <1>5 DEF Deliver
<1> HIDE DEF consumed, held
<1>9. /\ Good(consumed, Fail(consumed, "failed"), app.asked)
      /\ Good(held, Fail(held, "failed"), app.asked)
  BY <1>6, <1>7, FailGood DEF Good, Outcomes
<1>. QED BY <1>6, <1>7, <1>8, <1>9, GoodTrans

\* An agent-message event keeps the invariant.
LEMMA ItemKeeps ==
  ASSUME IInv, NEW t \in Requests, NEW kind \in {"text", "bad"},
         ItemEvent(t, kind)
  PROVE  IInv'
<1> DEFINE e == [kind |-> kind, turn |-> t, n |-> app.items[t] + 1]
<1>1. app \in AppType
  BY DEF IInv, TypeOK, AppType
<1>2. app.items[t] \in Nat
  BY <1>1 DEF AppType
<1>3. e \in Events
  BY <1>2 DEF Events
<1>4. /\ app' \in AppType /\ app'.asked = app.asked
      /\ \A u \in Requests : app'.turn[u] = "none" <=> app.turn[u] = "none"
  BY <1>1, <1>2 DEF AppType, ItemEvent
<1>5. \/ bridge' = bridge
      \/ Ours(t) /\ \E ok \in Delivers(bridge) : bridge' = Deliver(e, ok)
  BY DEF ItemEvent
<1> HIDE DEF e
<1>6. Good(bridge, bridge', app.asked)
  BY <1>3, <1>5, DeliverGood, SelfGood DEF Ours
<1>7. task' \in [Requests -> Task] /\ TasksKept
  BY DEF ItemEvent, IInv, TypeOK, TasksKept, Opened
<1>. QED BY <1>4, <1>6, <1>7, HandledType, TurnStep DEF ItemEvent

\* turn/completed keeps the invariant.
LEMMA EndsKeeps ==
  ASSUME IInv, NEW t \in Requests, NEW kind \in {"completed", "failed"},
         TurnEnds(t, kind)
  PROVE  IInv'
<1> DEFINE e == [kind |-> kind, turn |-> t, n |-> 0]
<1>1. app \in AppType
  BY DEF IInv, TypeOK, AppType
<1>2. e \in Events
  BY DEF Events
<1>3. /\ app' \in AppType /\ app'.asked = app.asked
      /\ \A u \in Requests : app'.turn[u] = "none" <=> app.turn[u] = "none"
  BY <1>1 DEF AppType, TurnEnds
<1>4. \/ bridge' = bridge
      \/ Ours(t) /\ \E ok \in Delivers(bridge) : bridge' = Deliver(e, ok)
  BY DEF TurnEnds
<1> HIDE DEF e
<1>5. Good(bridge, bridge', app.asked)
  BY <1>2, <1>4, DeliverGood, SelfGood DEF Ours
<1>6. task' \in [Requests -> Task] /\ TasksKept
  BY DEF TurnEnds, IInv, TypeOK, TasksKept, Opened
<1>. QED BY <1>3, <1>5, <1>6, HandledType, TurnStep DEF TurnEnds

\* A fatal notification keeps the invariant.
LEMMA FatalKeeps ==
  ASSUME IInv, NEW t \in Requests, NEW blocked, FatalNotice(t, blocked)
  PROVE  IInv'
<1>1. Good(bridge, bridge', app.asked)
  BY FailGood DEF FatalNotice, IInv, TypeOK, CallInv, Outcomes
<1>. QED BY <1>1, HandledType, QuietStep DEF FatalNotice

\* A new call makes none of the calls already accounted for unaccounted.
LEMMA AskedMore ==
  ASSUME IInv, NEW c \in Calls, NEW t \in Requests
  PROVE  CallsOK(bridge, [app.asked EXCEPT ![c] = t])
BY NoneAssumption, CurType, HeldType
   DEF IInv, TypeOK, CallInv, CallsOK, HoldsOnce, Session

\* Refusing a new call: it is in no session, and has no answer.
LEMMA RefuseGood ==
  ASSUME IInv, NEW c \in Calls, NEW t \in Requests, app.asked[c] = None
  PROVE  LET asked == [app.asked EXCEPT ![c] = t]
         IN Good(bridge, Refuse(c), asked)
<1> DEFINE asked == [app.asked EXCEPT ![c] = t]
           ans == Answer(bridge, {c}, "error", None)
           d == [bridge EXCEPT !.answers = ans]
<1>1. bridge \in BridgeState /\ CallsOK(bridge, app.asked)
  BY DEF IInv, TypeOK, CallInv
<1>2. ans \in [Calls -> Seq(Answers)]
  BY <1>1, AnswerType DEF OptRequest
<1>3. Refuse(c) = d
  BY DEF Refuse
<1>4. CallsOK(bridge, asked)
  BY AskedMore
<1>5. bridge.answers[c] = <<>>
  BY <1>1 DEF CallsOK
<1>6. ASSUME NEW k \in Calls
      PROVE  /\ Len(ans[k]) <= 1
             /\ k # c => ans[k] = bridge.answers[k]
  <2>1. Len(bridge.answers[k]) <= 1 /\ (k \in {c} => bridge.answers[k] = <<>>)
    BY <1>1, <1>5 DEF CallsOK
  <2>. QED BY <1>1, <2>1, AnswerOnce
<1>7. asked[c] # None /\ \A k \in Calls : asked[k] # None \/ k # c
  BY NoneAssumption DEF IInv, TypeOK
<1> HIDE DEF ans
<1>8. /\ d \in BridgeState /\ d.session = bridge.session
      /\ d.sess = bridge.sess /\ d.answers = ans
  BY <1>1, <1>2 DEF BridgeState
<1> HIDE DEF d, asked
<1>9. Keeps(bridge, d)
  BY <1>8 DEF Keeps, Cur
<1>10. ASSUME d.session # None
       PROVE  HoldsOnce(Cur(d), asked, d.answers)
  <2>1. Cur(d) = Cur(bridge) /\ Held(Cur(bridge)) \subseteq Calls
    BY <1>1, <1>8, <1>10, CurType, HeldType DEF Cur
  <2>2. HoldsOnce(Cur(bridge), asked, bridge.answers)
    BY <1>4, <1>8, <1>10 DEF CallsOK
  <2>3. c \notin Held(Cur(bridge))
    BY <1>1, <1>8, <1>10 DEF CallsOK, HoldsOnce
  <2>. QED BY <1>6, <1>8, <2>1, <2>2, <2>3 DEF HoldsOnce
<1>11. CallsOK(d, asked)
  BY <1>4, <1>6, <1>7, <1>8, <1>10 DEF CallsOK
<1>. QED BY <1>3, <1>8, <1>9, <1>11 DEF Good, asked

\* Queueing a new call of the session's turn.
LEMMA QueueGood ==
  ASSUME IInv, NEW c \in Calls, NEW t \in Requests, app.asked[c] = None,
         bridge.session # None
  PROVE  LET asked == [app.asked EXCEPT ![c] = t]
             s == Cur(bridge)
             q == [s EXCEPT !.turnId = t, !.seen = s.seen \cup {c},
                            !.pending = Append(s.pending, c)]
             d == [bridge EXCEPT !.sess[bridge.session] = q]
         IN Good(bridge, d, asked) /\ c \in Cur(d).seen
<1> DEFINE asked == [app.asked EXCEPT ![c] = t]
           s == Cur(bridge)
           p == s.pending
           U == s.seen \cup {c}
           A == Append(p, c)
           q == [s EXCEPT !.turnId = t, !.seen = U, !.pending = A]
           d == [bridge EXCEPT !.sess[bridge.session] = q]
<1>1. bridge \in BridgeState /\ CallsOK(bridge, app.asked)
  BY DEF IInv, TypeOK, CallInv
<1>2. s \in Session /\ p \in Seq(Calls) /\ s.seen \subseteq Calls
  BY <1>1, CurType DEF Session
<1>3. A \in Seq(Calls) /\ U \in SUBSET Calls
  BY <1>2
<1>4. /\ q \in Session /\ q.thread = s.thread /\ q.seen = U
      /\ q.waiting = s.waiting /\ q.pending = A
  <2> HIDE DEF A, U
  <2>. QED BY <1>2, <1>3 DEF Session, OptRequest
<1>5. CallsOK(bridge, asked)
  BY AskedMore
<1>6. bridge.answers[c] = <<>>
  BY <1>1 DEF CallsOK
<1>7. asked[c] # None
  BY NoneAssumption DEF IInv, TypeOK
<1>8. /\ HoldsOnce(s, asked, bridge.answers)
      /\ c \notin s.seen
  BY <1>1, <1>5 DEF CallsOK, HoldsOnce
<1>9. c # None
  BY NoneAssumption
<1>10. /\ DOMAIN p = 1 .. Len(p) /\ Len(p) \in Nat
       /\ DOMAIN A = 1 .. (Len(p) + 1)
       /\ \A i \in DOMAIN p : A[i] = p[i]
       /\ A[Len(p) + 1] = c
  BY <1>2
<1>11. /\ d \in BridgeState /\ d.session = bridge.session /\ Cur(d) = q
       /\ \A x \in Requests \ {bridge.session} : d.sess[x] = bridge.sess[x]
       /\ d.answers = bridge.answers
  <2> HIDE DEF q
  <2>. QED BY <1>1, <1>4, SetCur
<1> HIDE DEF d, q, s, asked, A
<1>12. Range(A) = Range(p) \cup {c}
  BY <1>10 DEF Range
<1>13. Held(q) = Held(s) \cup {c}
  BY <1>4, <1>12 DEF Held, p
<1>14. c \notin Range(p) /\ c # s.waiting
  BY <1>8, <1>9 DEF HoldsOnce, Held, p
<1>15. \A i, j \in DOMAIN A : A[i] = A[j] => i = j
  <2>1. \A i, j \in DOMAIN p : p[i] = p[j] => i = j
    BY <1>8 DEF HoldsOnce, p
  <2>2. \A i \in DOMAIN p : p[i] # c
    BY <1>14 DEF Range
  <2> HIDE DEF p
  <2>3. \A i \in DOMAIN A : i \in DOMAIN p \/ i = Len(p) + 1
    BY <1>10
  <2>. QED BY <1>10, <2>1, <2>2, <2>3
<1>16. HoldsOnce(q, asked, bridge.answers)
  <2>1. q.waiting \notin Range(q.pending)
    BY <1>4, <1>8, <1>12, <1>14 DEF HoldsOnce, p
  <2>2. Held(q) \subseteq q.seen /\ \A k \in Held(q) : bridge.answers[k] = <<>>
    BY <1>4, <1>6, <1>8, <1>13 DEF HoldsOnce
  <2>3. \A k \in q.seen : asked[k] # None
    BY <1>4, <1>7, <1>8 DEF HoldsOnce
  <2>. QED BY <1>4, <1>15, <2>1, <2>2, <2>3 DEF HoldsOnce
<1>17. Keeps(bridge, d)
  BY <1>1, <1>4, <1>11, CurType DEF Keeps, Cur, s
<1>18. CallsOK(d, asked)
  BY <1>5, <1>11, <1>16 DEF CallsOK
<1>. QED BY <1>4, <1>11, <1>17, <1>18 DEF Good, asked, d, q, s, A, p

\* Whatever becomes of a new call of turn t, its session knows it.
LEMMA NewCallGood ==
  ASSUME IInv, NEW c \in Calls, NEW t \in Requests, app.asked[c] = None,
         app.turn[t] # "none", NEW wellFormed, NEW ok,
         bridge' = ServerRequest(c, t, wellFormed, ok)
  PROVE  LET asked == [app.asked EXCEPT ![c] = t]
         IN /\ Good(bridge, bridge', asked)
            /\ bridge'.session = task[t].session => c \in Cur(bridge').seen
<1> DEFINE asked == [app.asked EXCEPT ![c] = t]
           s == Cur(bridge)
           q == [s EXCEPT !.turnId = t, !.seen = s.seen \cup {c},
                          !.pending = Append(s.pending, c)]
           d == [bridge EXCEPT !.sess[bridge.session] = q]
           e == Refuse(c)
<1>1. bridge \in BridgeState /\ CallsOK(bridge, asked)
  BY AskedMore DEF IInv, TypeOK
<1>2. Good(bridge, e, asked)
  BY RefuseGood
<1>3. task[t].session \in Requests /\ bridge.sess[task[t].session].thread
  BY DEF IInv, CallInv, OpenedFirst, Opened
<1>4. task[t].session # None
  BY <1>3, NoneAssumption
<1>5. Ours(t) => bridge.session # None
  BY DEF Ours
<1>6. bridge.session = task[t].session => Ours(t)
  BY <1>3, <1>4 DEF Ours, Cur
<1> HIDE DEF asked, e
<1>7. CASE bridge' = e /\ ~Ours(t)
  <2>1. bridge'.session \in {bridge.session, None}
    BY <1>2, <1>7 DEF Good, Keeps
  <2>. QED BY <1>2, <1>4, <1>6, <1>7, <2>1 DEF asked
<1>8. CASE bridge' = Fail(bridge, "failed")
  BY <1>1, <1>4, <1>8, FailGood DEF Outcomes, asked
<1>9. CASE bridge' = Fail(e, "failed")
  <2>1. Good(e, bridge', asked) /\ bridge'.session = None
    BY <1>2, <1>9, FailGood DEF Good, Outcomes
  <2>. QED BY <1>2, <1>4, <2>1, GoodTrans DEF asked
<1>10. CASE Ours(t) /\ bridge' = Flush(d, ok)
  <2>1. Good(bridge, d, asked) /\ c \in Cur(d).seen
    BY <1>5, <1>10, QueueGood DEF asked
  <2> HIDE DEF d
  <2>2. Good(d, bridge', asked)
    BY <1>10, <2>1, FlushGood DEF Good
  <2>3. bridge'.session # None => c \in Cur(bridge').seen
    BY <2>1, <2>2 DEF Good, Keeps
  <2>. QED BY <1>4, <2>1, <2>2, <2>3, GoodTrans DEF asked
<1>11. \/ bridge' = e /\ ~Ours(t)
       \/ bridge' = Fail(bridge, "failed")
       \/ bridge' = Fail(e, "failed")
       \/ Ours(t) /\ bridge' = Flush(d, ok)
  BY DEF ServerRequest, e
<1>. QED BY <1>7, <1>8, <1>9, <1>10, <1>11 DEF asked

\* A new tool call keeps the invariant.
LEMMA CallKeeps ==
  ASSUME IInv, NEW c \in Calls, NEW t \in Requests, NEW wellFormed,
         ToolCall(c, t, wellFormed)
  PROVE  IInv'
<1>1. /\ app.turn[t] # "none" /\ app.asked[c] = None /\ app \in AppType
      /\ app' = [app EXCEPT !.asked[c] = t]
  BY DEF ToolCall, IInv, TypeOK, AppType
<1>2. /\ app'.asked = [app.asked EXCEPT ![c] = t] /\ app'.turn = app.turn
      /\ app' \in AppType
  BY <1>1 DEF AppType, OptRequest
<1>3. PICK ok \in Delivers(bridge) :
        bridge' = ServerRequest(c, t, wellFormed, ok)
  BY DEF ToolCall
<1>4. /\ Good(bridge, bridge', app'.asked)
      /\ bridge'.session = task[t].session => c \in Cur(bridge').seen
  BY <1>1, <1>2, <1>3, NewCallGood
<1>5. UNCHANGED <<task, loop, close>> /\ burst' \in BOOLEAN
  BY HandledType DEF ToolCall
<1>6. TypeOK'
  BY <1>2, <1>4, <1>5 DEF IInv, TypeOK, Good, AppType
<1>7. CallsKept
  <2>1. app'.asked[c] = t
    BY <1>1, <1>2 DEF AppType
  <2>2. \A k \in Calls \ {c} : app'.asked[k] = app.asked[k]
    BY <1>1, <1>2 DEF AppType
  <2>. QED BY <1>1, <1>4, <2>1, <2>2 DEF CallsKept
<1>8. TasksKept /\ TurnsKept
  BY <1>2, <1>5 DEF TasksKept, TurnsKept, Opened
<1>. QED BY <1>4, <1>6, <1>7, <1>8, Frame

\* A repeated call of the current session is one it has seen.
LEMMA RepeatKeeps ==
  ASSUME IInv, NEW c \in Calls, ToolCallRepeated(c) PROVE IInv'
<1> DEFINE t == app.asked[c]
<1>1. t # None /\ Refuse(c) = bridge
  BY DEF ToolCallRepeated, Refuse
<1>2. Ours(t) => c \in Cur(bridge).seen
  BY <1>1 DEF Ours, IInv, CallInv, CallsSeen
<1>3. PICK ok \in Delivers(bridge) : bridge' = ServerRequest(c, t, TRUE, ok)
  BY DEF ToolCallRepeated
<1>4. bridge' = bridge \/ bridge' = Fail(bridge, "failed")
  BY <1>1, <1>2, <1>3 DEF ServerRequest
<1>5. Good(bridge, bridge', app.asked)
  BY <1>4, SelfGood, FailGood DEF IInv, TypeOK, CallInv, Outcomes
<1>. QED BY <1>5, HandledType, QuietStep DEF ToolCallRepeated

-----------------------------------------------------------------------------
(* The theorems *)

\* The invariant holds initially.
LEMMA Initially == Init => IInv
<1> SUFFICES ASSUME Init PROVE IInv
  OBVIOUS
<1>1. bridge \in BridgeState
  <2>1. [r \in Requests |-> NewSession] \in [Requests -> Session]
    BY NewSessionType
  <2>2. [r \in Requests |-> [offered |-> None, outcome |-> "none"]]
          \in [Requests -> Operation]
    BY DEF Operation, OptCall
  <2>3. [c \in Calls |-> <<>>] \in [Calls -> Seq(Answers)]
    OBVIOUS
  <2>4. [r \in Requests |-> <<>>]
          \in [Requests -> Seq([n : Nat, by : Requests])]
    OBVIOUS
  <2>5. [r \in Requests |-> "none"]
          \in [Requests -> {"none", "interrupt", "unsubscribe", "done"}]
    OBVIOUS
  <2>. QED BY <2>1, <2>2, <2>3, <2>4, <2>5 DEF Init, BridgeState, OptRequest
<1>2. task \in [Requests -> Task]
  BY DEF Init, Task, OptRequest, OptCall
<1>3. TypeOK
  <2>1. app \in [turn : [Requests -> {"none", "sent", "running", "ended"}],
                 items : [Requests -> Nat], asked : [Calls -> OptRequest]]
    BY DEF Init, OptRequest
  <2>2. close \in [at : {"no", "releasing", "done"}, of : OptRequest]
    BY DEF Init, OptRequest
  <2>3. <<>> \in Seq(Events)
    OBVIOUS
  <2>4. loop \in Seq(Events)
    BY <2>3, Zenon DEF Init
  <2>5. burst \in BOOLEAN
    BY Zenon DEF Init
  <2>. QED BY <1>1, <1>2, <2>1, <2>2, <2>4, <2>5, Zenon DEF TypeOK
<1>4. bridge.session = None /\ \A c \in Calls : bridge.answers[c] = <<>>
  BY DEF Init
<1>5. CallInv
  <2>1. OpenedFirst
    BY <1>4 DEF Init, OpenedFirst, Opened
  <2>2. CallsSeen
    BY DEF Init, CallsSeen
  <2>3. CallsOK(bridge, app.asked)
    BY <1>4 DEF CallsOK
  <2>. QED BY <2>1, <2>2, <2>3 DEF CallInv
<1>. QED BY <1>3, <1>5 DEF IInv

\* Every step of the system keeps the invariant.
LEMMA Inductive == IInv /\ [Next]_vars => IInv'
<1> SUFFICES ASSUME IInv, [Next]_vars PROVE IInv'
  OBVIOUS
<1>1. CASE UNCHANGED vars
  BY <1>1, SelfGood, QuietStep DEF vars, IInv, TypeOK
<1>2. ASSUME NEW r \in Requests, RespondStep(r) PROVE IInv'
  <2>1. CASE RespondRejected(r)
    BY <2>1, RejectedKeeps
  <2>2. CASE RespondNew(r)
    BY <2>2, NewKeeps
  <2>3. CASE \E prev \in OptRequest, tool \in OptCall :
               RespondContinue(r, prev, tool)
    BY <2>3, ContinueKeeps
  <2>4. CASE RequestTimeout(r)
    BY <2>4, TimeoutKeeps
  <2>5. CASE ClientGone(r)
    BY <2>5, GoneKeeps
  <2>6. CASE RpcTimeout(r)
    BY <2>6, RpcTimeoutKeeps
  <2>7. CASE ReleaseAnswered(r) \/ ReleaseTimesOut(r)
    BY <2>7, ReleaseKeeps
  <2>. QED BY <1>2, <2>1, <2>2, <2>3, <2>4, <2>5, <2>6, <2>7 DEF RespondStep
<1>3. ASSUME NEW r \in Requests, Continues(r) PROVE IInv'
  <2>1. CASE RespondOpens(r)
    BY <2>1, OpensKeeps
  <2>2. CASE RespondReturns(r)
    BY <2>2, ReturnsKeeps
  <2>3. CASE DriveStarts(r)
    BY <2>3, StartsKeeps
  <2>4. CASE DriveSendsMessage(r)
    BY <2>4, MessageKeeps
  <2>5. CASE DriveAnswersTool(r)
    BY <2>5, AnswersKeeps
  <2>6. CASE DriveReplays(r)
    BY <2>6, ReplaysKeeps
  <2>7. CASE DriveFlushes(r)
    BY <2>7, FlushesKeeps
  <2>8. CASE ThreadTooLate(r)
    BY <2>8, ThreadLateKeeps
  <2>9. CASE ThreadArrives(r)
    BY <2>9, ThreadKeeps
  <2>10. CASE TurnTooLate(r)
    BY <2>10, TurnLateKeeps
  <2>11. CASE TurnArrives(r)
    BY <2>11, TurnKeeps
  <2>12. CASE DriveRefused(r)
    BY <2>12, RefusedKeeps
  <2>13. CASE DriveCatches(r)
    BY <2>13, CatchesKeeps
  <2>. QED BY <1>3, <2>1, <2>2, <2>3, <2>4, <2>5, <2>6, <2>7, <2>8, <2>9,
              <2>10, <2>11, <2>12, <2>13 DEF Continues
<1>4. ASSUME NEW r \in Requests, AppServerStep(r) PROVE IInv'
  <2>1. CASE \E result \in {"ok", "noId", "badModel", "error"} :
               RpcReply(r, result)
    BY <2>1, ReplyKeeps DEF Replies
  <2>2. CASE \E announced \in BOOLEAN : TurnBegins(r, announced)
    BY <2>2, BeginsKeeps
  <2>3. CASE \E kind \in {"text", "bad"} : ItemEvent(r, kind)
    BY <2>3, ItemKeeps
  <2>4. CASE \E kind \in {"completed", "failed"} : TurnEnds(r, kind)
    BY <2>4, EndsKeeps
  <2>5. CASE \E blocked \in BOOLEAN : FatalNotice(r, blocked)
    BY <2>5, FatalKeeps
  <2>6. CASE \E c \in Calls, wellFormed \in BOOLEAN :
               ToolCall(c, r, wellFormed)
    BY <2>6, CallKeeps
  <2>. QED BY <1>4, <2>1, <2>2, <2>3, <2>4, <2>5, <2>6 DEF AppServerStep
<1>5. ASSUME NEW c \in Calls, ToolCallRepeated(c) PROVE IInv'
  BY <1>5, RepeatKeeps
<1>6. CASE SessionExpires
  BY <1>6, ExpiresKeeps
<1>7. CASE RpcStarted \/ PipeBreaks
  BY <1>7, ConnectionKeeps
<1>8. CASE RpcExits
  BY <1>8, ExitKeeps
<1>9. CASE CloseBegins
  BY <1>9, CloseBeginsKeeps
<1>10. CASE CloseEnds
  BY <1>10, CloseEndsKeeps
<1>. QED BY <1>1, <1>2, <1>3, <1>4, <1>5, <1>6, <1>7, <1>8, <1>9, <1>10
         DEF Next

\* In every behaviour, with any requests, calls and faults, the state has the
\* types of BridgeState, Task and the rest, and the calls are accounted for:
\* each one the app-server made is known to its session, and while the
\* session holds it, it is held once and has no answer (lines 145-180).
THEOREM CallsAccounted == Spec => [](TypeOK /\ CallInv)
<1>1. Init => IInv
  BY Initially
<1>2. IInv /\ [Next]_vars => IInv'
  BY Inductive
<1>. QED BY <1>1, <1>2, PTL DEF Spec, IInv

\* The type invariant of the bridge holds for every value of the constants.
THEOREM TypeCorrect == Spec => []TypeOK
BY CallsAccounted, PTL

\* No tool call is ever answered twice, for any number of requests and
\* parallel calls, whatever fails (lines 106, 153, 161, 262).
THEOREM AnsweredOnce == Spec => []CallAnsweredOnce
<1>1. TypeOK /\ CallInv => CallAnsweredOnce
  BY DEF CallInv, CallsOK, CallAnsweredOnce
<1>. QED BY <1>1, CallsAccounted, PTL

-----------------------------------------------------------------------------
(* One generation at a time *)

\* What is left of b after releaseSession: the session is dropped, its calls
\* are cancelled, its turn t is interrupted or its thread unsubscribed.
Dropped(b, d, t) ==
    /\ d \in BridgeState /\ d.session = None /\ ~d.ttl
    /\ d.busy = b.busy /\ d.operation = b.operation /\ d.closed = b.closed
    /\ d.rpc = b.rpc /\ d.heard = b.heard
    /\ \A x \in Requests : /\ d.sess[x].thread = b.sess[x].thread
                           /\ x # b.session => d.rel[x] = b.rel[x]
    /\ IF b.session = None
       THEN /\ d.rel = b.rel /\ d.answers = b.answers
            /\ d.unsubscribed = b.unsubscribed /\ d.interrupted = b.interrupted
       ELSE /\ d.unsubscribed \subseteq b.unsubscribed \cup {b.session}
            /\ d.answers = Answer(b, Held(Cur(b)), "cancelled", None)
            /\ IF Cur(b).thread /\ b.rpc = "up" /\ t # None
               THEN d.interrupted = b.interrupted \cup {t}
               ELSE d.interrupted = b.interrupted

\* Only the operation of b, and only if it is open, settles on the way to d.
Settles(b, d) ==
    \A r \in Requests :
      /\ d.op[r].offered = b.op[r].offered
      /\ ~(Open(b) /\ r = b.operation) => d.op[r] = b.op[r]

\* What is left of b after fail.
Fails(b, d, t) == Dropped(b, d, t) /\ Settles(b, d) /\ ~Open(d)

\* From b to d the current session stays, and no other is touched.
Works(b, d) ==
    /\ d \in BridgeState /\ d.session = b.session /\ b.session # None
    /\ d.ttl = b.ttl /\ d.busy = b.busy /\ d.operation = b.operation
    /\ d.closed = b.closed /\ d.rpc = b.rpc /\ d.rel = b.rel
    /\ d.unsubscribed = b.unsubscribed /\ d.interrupted = b.interrupted
    /\ \A x \in Requests : x # b.session => d.sess[x] = b.sess[x]

\* The operation of b ends well in d, having offered call c.
Completes(b, d, c) ==
    /\ Open(b) /\ ~Open(d) /\ Cur(d).last = b.operation
    /\ d.op[b.operation] = [offered |-> c, outcome |-> "ok"]
    /\ \A r \in Requests : r # b.operation => d.op[r] = b.op[r]

-----------------------------------------------------------------------------
(* The effects of the operators *)

\* releaseSession drops the session and settles nothing.
LEMMA ReleaseEffect ==
  ASSUME NEW b \in BridgeState
  PROVE  Dropped(b, Release(b), Cur(b).turnId) /\ Release(b).op = b.op
<1>1. CASE b.session = None
  <2>1. Release(b) = [b EXCEPT !.ttl = FALSE]
    BY <1>1 DEF Release
  <2>. QED BY <1>1, <2>1 DEF BridgeState, Dropped
<1>2. CASE b.session # None
  <2> DEFINE s == Cur(b)
             ans == Answer(b, Held(s), "cancelled", None)
             next == IF ~s.thread \/ b.rpc # "up" THEN "done"
                     ELSE IF s.turnId # None THEN "interrupt"
                     ELSE "unsubscribe"
             cut == IF next = "interrupt"
                    THEN b.interrupted \cup {s.turnId} ELSE b.interrupted
             off == IF next = "unsubscribe"
                    THEN b.unsubscribed \cup {b.session} ELSE b.unsubscribed
             new == [NewSession EXCEPT !.thread = s.thread]
             d == Release(b)
  <2>1. b.session \in Requests /\ s \in Session /\ s = b.sess[b.session]
    BY <1>2, CurType DEF Cur
  <2>2. ans \in [Calls -> Seq(Answers)]
    BY AnswerType DEF OptRequest
  <2>3. new \in Session /\ new.thread = s.thread
    BY <2>1, NewSessionType DEF Session, NewSession
  <2>4. next \in {"none", "interrupt", "unsubscribe", "done"}
    OBVIOUS
  <2>5. cut \in SUBSET Requests
    BY <2>1 DEF BridgeState, Session, OptRequest
  <2>6. off \in SUBSET Requests
    BY <2>1 DEF BridgeState
  <2>7. d = [b EXCEPT !.ttl = FALSE, !.session = None, !.sess[b.session] = new,
                      !.answers = ans, !.rel[b.session] = next,
                      !.interrupted = cut, !.unsubscribed = off]
    BY <1>2 DEF Release
  <2>8. /\ off \subseteq b.unsubscribed \cup {b.session}
        /\ IF s.thread /\ b.rpc = "up" /\ s.turnId # None
           THEN cut = b.interrupted \cup {s.turnId} ELSE cut = b.interrupted
    OBVIOUS
  <2> HIDE DEF new, ans, next, cut, off, d, s
  <2> DEFINE e == [b EXCEPT !.ttl = FALSE, !.session = None,
                            !.sess[b.session] = new]
             f == [e EXCEPT !.answers = ans, !.rel[b.session] = next]
  <2>9. /\ e \in BridgeState /\ e.session = None /\ e.ttl = FALSE
        /\ e.sess = [b.sess EXCEPT ![b.session] = new]
        /\ e.busy = b.busy /\ e.operation = b.operation /\ e.closed = b.closed
        /\ e.rpc = b.rpc /\ e.heard = b.heard /\ e.op = b.op /\ e.rel = b.rel
    BY <2>1, <2>3 DEF BridgeState, OptRequest
  <2>10. d = [f EXCEPT !.interrupted = cut, !.unsubscribed = off]
    BY <2>7
  <2> HIDE DEF e
  <2>11. /\ f \in BridgeState /\ f.answers = ans
         /\ f.session = e.session /\ f.ttl = e.ttl /\ f.sess = e.sess
         /\ f.rel = [e.rel EXCEPT ![b.session] = next]
         /\ f.busy = e.busy /\ f.operation = e.operation /\ f.closed = e.closed
         /\ f.rpc = e.rpc /\ f.heard = e.heard /\ f.op = e.op
    BY <2>1, <2>2, <2>4, <2>9 DEF BridgeState
  <2> HIDE DEF f
  <2>12. /\ d \in BridgeState /\ d.interrupted = cut /\ d.unsubscribed = off
         /\ d.answers = f.answers /\ d.session = f.session /\ d.ttl = f.ttl
         /\ d.sess = f.sess /\ d.rel = f.rel
         /\ d.busy = f.busy /\ d.operation = f.operation /\ d.closed = f.closed
         /\ d.rpc = f.rpc /\ d.heard = f.heard /\ d.op = f.op
    BY <2>5, <2>6, <2>10, <2>11 DEF BridgeState
  <2>13. \A x \in Requests : /\ d.sess[x].thread = b.sess[x].thread
                             /\ x # b.session => d.rel[x] = b.rel[x]
    BY <2>1, <2>3, <2>9, <2>11, <2>12 DEF BridgeState
  <2>. QED BY <1>2, <2>8, <2>9, <2>11, <2>12, <2>13 DEF Dropped, ans, s, d
<1>. QED BY <1>1, <1>2

\* Settling touches the outcome of the open operation only.
LEMMA SettleEffect ==
  ASSUME NEW b \in BridgeState, NEW o \in Outcomes \ {"none"}
  PROVE  LET d == Settle(b, o)
         IN /\ d \in BridgeState /\ Settles(b, d) /\ ~Open(d)
            /\ d.session = b.session /\ d.sess = b.sess /\ d.ttl = b.ttl
            /\ d.busy = b.busy /\ d.operation = b.operation
            /\ d.closed = b.closed /\ d.rpc = b.rpc /\ d.heard = b.heard
            /\ d.rel = b.rel /\ d.answers = b.answers
            /\ d.unsubscribed = b.unsubscribed /\ d.interrupted = b.interrupted
<1>1. CASE ~Open(b)
  BY <1>1 DEF Settle, Settles
<1>2. CASE Open(b)
  <2> DEFINE p == [b.op EXCEPT ![b.operation] = [@ EXCEPT !.outcome = o]]
             d == [b EXCEPT !.op = p]
  <2>1. b.operation \in Requests /\ b.op \in [Requests -> Operation]
    BY <1>2, OpenType DEF BridgeState
  <2>2. [b.op[b.operation] EXCEPT !.outcome = o] \in Operation
    BY <2>1 DEF Operation, Outcomes
  <2>3. /\ p \in [Requests -> Operation] /\ p[b.operation].outcome = o
        /\ p[b.operation].offered = b.op[b.operation].offered
        /\ \A r \in Requests : r # b.operation => p[r] = b.op[r]
    BY <2>1, <2>2 DEF Operation
  <2>4. Settle(b, o) = d
    BY <1>2 DEF Settle
  <2> HIDE DEF p
  <2>5. /\ d \in BridgeState /\ d.op = p
        /\ d.session = b.session /\ d.sess = b.sess /\ d.ttl = b.ttl
        /\ d.busy = b.busy /\ d.operation = b.operation
        /\ d.closed = b.closed /\ d.rpc = b.rpc /\ d.heard = b.heard
        /\ d.rel = b.rel /\ d.answers = b.answers
        /\ d.unsubscribed = b.unsubscribed /\ d.interrupted = b.interrupted
    BY <2>3 DEF BridgeState
  <2> HIDE DEF d
  <2>6. Settles(b, d) /\ ~Open(d)
    BY <1>2, <2>1, <2>3, <2>5 DEF Settles, Open
  <2>. QED BY <2>4, <2>5, <2>6
<1>. QED BY <1>1, <1>2

\* fail settles the open operation, and drops the session in any case.
LEMMA FailEffect ==
  ASSUME NEW b \in BridgeState, NEW o \in Outcomes \ {"none"}
  PROVE  Fails(b, Fail(b, o), Cur(b).turnId)
<1> DEFINE c == Settle(b, o)
           d == Release(c)
<1>1. /\ c \in BridgeState /\ Settles(b, c) /\ ~Open(c)
      /\ c.session = b.session /\ c.sess = b.sess /\ c.ttl = b.ttl
      /\ c.busy = b.busy /\ c.operation = b.operation
      /\ c.closed = b.closed /\ c.rpc = b.rpc /\ c.heard = b.heard
      /\ c.rel = b.rel /\ c.answers = b.answers
      /\ c.unsubscribed = b.unsubscribed /\ c.interrupted = b.interrupted
  BY SettleEffect
<1> HIDE DEF c
<1>2. Dropped(c, d, Cur(c).turnId) /\ d.op = c.op
  BY <1>1, ReleaseEffect
<1> HIDE DEF d
<1>3. Answer(c, Held(Cur(c)), "cancelled", None)
        = Answer(b, Held(Cur(b)), "cancelled", None)
  BY <1>1 DEF Answer, Cur
<1>4. Dropped(b, d, Cur(b).turnId)
  BY <1>1, <1>2, <1>3 DEF Dropped, Cur
<1>5. Settles(b, d) /\ ~Open(d)
  BY <1>1, <1>2 DEF Settles, Dropped, Open
<1>. QED BY <1>4, <1>5 DEF Fail, Fails, c, d

\* Replacing the current session touches nothing else.
LEMMA CurEffect ==
  ASSUME NEW b \in BridgeState, b.session # None, NEW s \in Session
  PROVE  LET d == [b EXCEPT !.sess[b.session] = s]
         IN /\ Works(b, d) /\ Cur(d) = s
            /\ d.op = b.op /\ d.answers = b.answers /\ d.heard = b.heard
<1>1. b.session \in Requests
  BY CurType
<1>2. [b EXCEPT !.sess[b.session] = s] \in BridgeState
  BY <1>1 DEF BridgeState
<1>. QED BY <1>1, <1>2 DEF BridgeState, Cur, Works

\* complete settles the open operation, and makes it the session's last.
LEMMA CompleteEffect ==
  ASSUME NEW b \in BridgeState, b.session # None, Open(b)
  PROVE  LET d == Complete(b)
         IN /\ Works(b, d) /\ Completes(b, d, b.op[b.operation].offered)
            /\ Cur(d) = [Cur(b) EXCEPT !.last = b.operation]
            /\ d.answers = b.answers /\ d.heard = b.heard
<1> DEFINE s == [Cur(b) EXCEPT !.last = b.operation]
           c == [b EXCEPT !.sess[b.session] = s]
           p == [b.op EXCEPT ![b.operation] = [@ EXCEPT !.outcome = "ok"]]
           d == [c EXCEPT !.op = p]
<1>1. /\ b.operation \in Requests /\ Cur(b) \in Session
      /\ b.op \in [Requests -> Operation]
  BY OpenType, CurType DEF BridgeState
<1>2. s \in Session /\ s.last = b.operation
  BY <1>1 DEF Session, OptRequest
<1>3. Complete(b) = d
  <2>1. s = [b.sess[b.session] EXCEPT !.last = b.operation]
    BY DEF Cur
  <2>. QED BY <2>1, <1>1, CurType DEF Complete, BridgeState, Cur
<1>4. /\ Works(b, c) /\ Cur(c) = s
      /\ c.op = b.op /\ c.answers = b.answers /\ c.heard = b.heard
  BY <1>2, CurEffect
<1> HIDE DEF c
<1>5. [b.op[b.operation] EXCEPT !.outcome = "ok"] \in Operation
  BY <1>1 DEF Operation
<1>6. /\ p \in [Requests -> Operation]
      /\ p[b.operation] = [offered |-> b.op[b.operation].offered, outcome |-> "ok"]
      /\ \A r \in Requests : r # b.operation => p[r] = b.op[r]
  BY <1>1, <1>5 DEF Operation
<1> HIDE DEF p
<1>7. /\ d \in BridgeState /\ d.op = p
      /\ d.session = c.session /\ d.sess = c.sess /\ d.ttl = c.ttl
      /\ d.busy = c.busy /\ d.operation = c.operation
      /\ d.closed = c.closed /\ d.rpc = c.rpc /\ d.heard = c.heard
      /\ d.rel = c.rel /\ d.answers = c.answers
      /\ d.unsubscribed = c.unsubscribed /\ d.interrupted = c.interrupted
  BY <1>4, <1>6 DEF BridgeState, Works
<1> HIDE DEF d
<1>8. Works(b, d) /\ Cur(d) = s
  BY <1>4, <1>7 DEF Works, Cur
<1>9. Completes(b, d, b.op[b.operation].offered)
  <2>1. d.operation = b.operation
    BY <1>8 DEF Works
  <2>2. d.op[b.operation].outcome = "ok"
    BY <1>6, <1>7
  <2>. QED BY <1>2, <1>6, <1>7, <1>8, <2>1, <2>2 DEF Completes, Open
<1> HIDE DEF s
<1>. QED BY <1>3, <1>4, <1>7, <1>8, <1>9 DEF s

\* The head of the queue becomes the waiting call.
LEMMA TakeEffect ==
  ASSUME NEW b \in BridgeState, CanFlush(b)
  PROVE  LET d == Take(b)
             p == Cur(b).pending
         IN /\ Works(b, d) /\ Open(d)
            /\ Cur(d) = [Cur(b) EXCEPT !.waiting = Head(p), !.pending = Tail(p)]
            /\ Cur(d) \in Session /\ Head(p) \in Calls
            /\ d.op = b.op /\ d.answers = b.answers /\ d.heard = b.heard
<1> DEFINE p == Cur(b).pending
           s == [Cur(b) EXCEPT !.waiting = Head(p), !.pending = Tail(p)]
           d == [b EXCEPT !.sess[b.session] = s]
<1>1. b.session # None /\ Cur(b) \in Session /\ Open(b)
  BY CurType DEF CanFlush
<1>2. p \in Seq(Calls) /\ p # <<>>
  BY <1>1 DEF CanFlush, Session
<1>3. Head(p) \in Calls /\ Tail(p) \in Seq(Calls)
  BY <1>2
<1>4. s \in Session
  BY <1>1, <1>3 DEF Session, OptCall
<1>5. Take(b) = d
  BY <1>1 DEF Take, Cur
<1> HIDE DEF s
<1>6. /\ Works(b, d) /\ Cur(d) = s
      /\ d.op = b.op /\ d.answers = b.answers /\ d.heard = b.heard
  BY <1>1, <1>4, CurEffect
<1> HIDE DEF d
<1>7. Open(d)
  BY <1>1, <1>6 DEF Open, Works
<1> HIDE DEF p
<1>. QED BY <1>3, <1>4, <1>5, <1>6, <1>7 DEF s, p

\* flushTool that succeeds: the head of the queue is offered to the client.
LEMMA OfferEffect ==
  ASSUME NEW b \in BridgeState, CanFlush(b)
  PROVE  LET d == Offer(b)
             p == Cur(b).pending
         IN /\ Works(b, d) /\ Completes(b, d, Head(p)) /\ Head(p) \in Calls
            /\ Cur(d) = [Cur(b) EXCEPT !.waiting = Head(p), !.pending = Tail(p),
                                       !.last = b.operation]
            /\ d.answers = b.answers /\ d.heard = b.heard
<1> DEFINE p == Cur(b).pending
           t == Take(b)
           o == [t.op EXCEPT ![t.operation] = [@ EXCEPT !.offered = Cur(t).waiting]]
           u == [t EXCEPT !.op = o]
           d == Complete(u)
<1>1. /\ Works(b, t) /\ Open(t) /\ Cur(t) \in Session /\ Head(p) \in Calls
      /\ Cur(t) = [Cur(b) EXCEPT !.waiting = Head(p), !.pending = Tail(p)]
      /\ t.op = b.op /\ t.answers = b.answers /\ t.heard = b.heard
  BY TakeEffect
<1>2. Cur(b) \in Session /\ Open(b)
  BY CurType DEF CanFlush
<1>3. Cur(t).waiting = Head(p)
  BY <1>1, <1>2 DEF Session
<1>4. Offer(b) = d
  BY DEF Offer
<1> HIDE DEF t, p
<1>5. /\ t \in BridgeState /\ t.session # None /\ t.operation = b.operation
      /\ t.operation \in Requests /\ t.op \in [Requests -> Operation]
  BY <1>1, OpenType DEF Works, BridgeState
<1>6. [t.op[t.operation] EXCEPT !.offered = Cur(t).waiting] \in Operation
  BY <1>1, <1>3, <1>5 DEF Operation, OptCall
<1>7. /\ o \in [Requests -> Operation] /\ o[t.operation].offered = Head(p)
      /\ o[t.operation].outcome = t.op[t.operation].outcome
      /\ \A r \in Requests : r # t.operation => o[r] = t.op[r]
  BY <1>3, <1>5, <1>6 DEF Operation
<1> HIDE DEF o
<1>8. /\ u \in BridgeState /\ u.op = o
      /\ u.session = t.session /\ u.sess = t.sess /\ u.ttl = t.ttl
      /\ u.busy = t.busy /\ u.operation = t.operation
      /\ u.closed = t.closed /\ u.rpc = t.rpc /\ u.heard = t.heard
      /\ u.rel = t.rel /\ u.answers = t.answers
      /\ u.unsubscribed = t.unsubscribed /\ u.interrupted = t.interrupted
  BY <1>5, <1>7 DEF BridgeState
<1> HIDE DEF u
<1>9. Open(u) /\ u.session # None /\ Cur(u) = Cur(t)
  BY <1>1, <1>5, <1>7, <1>8 DEF Open, Cur
<1>10. /\ Works(u, d) /\ Completes(u, d, u.op[u.operation].offered)
       /\ Cur(d) = [Cur(u) EXCEPT !.last = u.operation]
       /\ d.answers = u.answers /\ d.heard = u.heard
  BY <1>8, <1>9, CompleteEffect
<1> HIDE DEF d
<1>11. Works(b, d)
  BY <1>1, <1>8, <1>10 DEF Works
<1>12. Completes(b, d, Head(p))
  BY <1>1, <1>2, <1>5, <1>7, <1>8, <1>10 DEF Completes
<1>13. Cur(d) = [Cur(b) EXCEPT !.waiting = Head(p), !.pending = Tail(p),
                               !.last = b.operation]
  BY <1>1, <1>2, <1>5, <1>8, <1>9, <1>10 DEF Session
<1>. QED BY <1>1, <1>4, <1>8, <1>10, <1>11, <1>12, <1>13 DEF p

\* Consuming a notification does nothing, shows its text to the client, or
\* ends the turn and with it the segment, unless the delivery fails.
LEMMA ConsumeEffect ==
  ASSUME NEW b \in BridgeState, NEW e \in Events, NEW ok
  PROVE  LET d == Consume(b, e, ok)
         IN \/ /\ d = b
               /\ Ignores(b, e) \/ Throws(b, e, ok)
            \/ /\ ~Ignores(b, e) /\ ~Throws(b, e, ok) /\ e.kind = "text"
               /\ Works(b, d) /\ d.sess = b.sess
               /\ d.op = b.op /\ d.answers = b.answers
               /\ d.heard = [b.heard EXCEPT ![e.turn] =
                               Append(@, [n |-> e.n, by |-> b.operation])]
            \/ /\ ~Ignores(b, e) /\ e.kind = "completed" /\ Held(Cur(b)) = {}
               /\ Works(b, d) /\ d.answers = b.answers /\ d.heard = b.heard
               /\ IF Throws(b, e, ok)
                  THEN d.op = b.op /\ Cur(d) = [Cur(b) EXCEPT !.turnId = None]
                  ELSE /\ Completes(b, d, b.op[b.operation].offered)
                       /\ Cur(d) = [Cur(b) EXCEPT !.turnId = None,
                                                  !.last = b.operation]
<1>1. CASE Ignores(b, e)
  BY <1>1 DEF Consume
<1>2. CASE ~Ignores(b, e) /\ e.kind = "text" /\ ok
  <2> DEFINE v == [n |-> e.n, by |-> b.operation]
             h == [b.heard EXCEPT ![e.turn] = Append(@, v)]
             d == [b EXCEPT !.heard = h]
  <2>1. b.operation \in Requests /\ b.session # None
    BY <1>2, OpenType DEF Ignores
  <2>2. h \in [Requests -> Seq([n : Nat, by : Requests])]
    <3> DEFINE T == [n : Nat, by : Requests]
    <3>1. v \in T /\ e.turn \in Requests
      BY <2>1 DEF Events
    <3>2. b.heard \in [Requests -> Seq(T)]
      BY DEF BridgeState
    <3> HIDE DEF T, v
    <3>3. Append(b.heard[e.turn], v) \in Seq(T)
      BY <3>1, <3>2
    <3>4. h \in [Requests -> Seq(T)]
      BY <3>2, <3>3
    <3>. QED BY <3>4 DEF T
  <2>3. /\ d \in BridgeState /\ d.heard = h
        /\ d.session = b.session /\ d.sess = b.sess /\ d.ttl = b.ttl
        /\ d.busy = b.busy /\ d.operation = b.operation
        /\ d.closed = b.closed /\ d.rpc = b.rpc /\ d.op = b.op
        /\ d.rel = b.rel /\ d.answers = b.answers
        /\ d.unsubscribed = b.unsubscribed /\ d.interrupted = b.interrupted
    <3> HIDE DEF h
    <3>. QED BY <2>2 DEF BridgeState
  <2>4. Consume(b, e, ok) = d
    BY <1>2 DEF Consume
  <2>5. ~Throws(b, e, ok)
    BY <1>2 DEF Throws
  <2> HIDE DEF d
  <2>. QED BY <1>2, <2>1, <2>3, <2>4, <2>5 DEF Works
<1>3. CASE ~Ignores(b, e) /\ e.kind = "completed" /\ Held(Cur(b)) = {}
  <2> DEFINE s == [Cur(b) EXCEPT !.turnId = None]
             d == [b EXCEPT !.sess[b.session] = s]
  <2>1. b.session # None /\ Cur(b) \in Session /\ Open(b)
    BY <1>3, CurType DEF Ignores
  <2>2. s \in Session
    BY <2>1 DEF Session, OptRequest
  <2>3. d = [b EXCEPT !.sess[b.session].turnId = None]
    BY DEF Cur
  <2>4. Consume(b, e, ok) = IF ok THEN Complete(d) ELSE d
    BY <1>3, <2>3 DEF Consume
  <2>5. Throws(b, e, ok) <=> ~ok
    BY <1>3 DEF Throws
  <2> HIDE DEF s
  <2>6. /\ Works(b, d) /\ Cur(d) = s
        /\ d.op = b.op /\ d.answers = b.answers /\ d.heard = b.heard
    BY <2>1, <2>2, CurEffect
  <2> HIDE DEF d
  <2>7. CASE ~ok
    BY <1>3, <2>4, <2>5, <2>6, <2>7 DEF s
  <2>8. CASE ok
    <3> DEFINE c == Complete(d)
    <3>1. d \in BridgeState /\ d.session # None /\ Open(d) /\ d.operation = b.operation
      BY <2>1, <2>6 DEF Open, Works
    <3>2. /\ Works(d, c) /\ Completes(d, c, d.op[d.operation].offered)
          /\ Cur(c) = [Cur(d) EXCEPT !.last = d.operation]
          /\ c.answers = d.answers /\ c.heard = d.heard
      BY <3>1, CompleteEffect
    <3> HIDE DEF c
    <3>3. Works(b, c)
      BY <2>6, <3>2 DEF Works
    <3>4. Completes(b, c, b.op[b.operation].offered)
      BY <2>1, <2>6, <3>1, <3>2 DEF Completes
    <3>5. Cur(c) = [Cur(b) EXCEPT !.turnId = None, !.last = b.operation]
      BY <2>1, <2>6, <3>1, <3>2 DEF s, Session
    <3>. QED BY <1>3, <2>4, <2>5, <2>6, <2>8, <3>2, <3>3, <3>4, <3>5 DEF c
  <2>. QED BY <2>7, <2>8
<1>4. CASE /\ ~Ignores(b, e)
           /\ ~(e.kind = "text" /\ ok)
           /\ ~(e.kind = "completed" /\ Held(Cur(b)) = {})
  <2>1. Consume(b, e, ok) = b
    BY <1>4 DEF Consume
  <2>2. e.kind \in {"text", "bad", "completed", "failed"}
    BY DEF Events
  <2>3. Throws(b, e, ok)
    BY <1>4, <2>2 DEF Throws
  <2>. QED BY <2>1, <2>3
<1>. QED BY <1>1, <1>2, <1>3, <1>4

\* A handler that fails after it has changed the calls or the events that the
\* session holds, or its turn, fails what it found.
LEMMA FailAfter ==
  ASSUME NEW b \in BridgeState, NEW c \in BridgeState, NEW o \in Outcomes \ {"none"},
         Works(b, c), c.op = b.op, c.heard = b.heard, c.answers = b.answers,
         Cur(c).thread = Cur(b).thread, Held(Cur(c)) = Held(Cur(b))
  PROVE  Fails(b, Fail(c, o), Cur(c).turnId)
<1> DEFINE d == Fail(c, o)
<1>1. Fails(c, d, Cur(c).turnId)
  BY FailEffect
<1> HIDE DEF d
<1>2. /\ c.session = b.session /\ b.session # None
      /\ c.operation = b.operation /\ c.rpc = b.rpc
      /\ \A x \in Requests : c.sess[x].thread = b.sess[x].thread
  BY CurType DEF Works, Cur
<1>3. Answer(c, Held(Cur(c)), "cancelled", None)
        = Answer(b, Held(Cur(b)), "cancelled", None)
  BY <1>2 DEF Answer
<1>4. Dropped(b, d, Cur(c).turnId)
  BY <1>1, <1>2, <1>3 DEF Fails, Dropped, Works
<1>5. Settles(b, d) /\ ~Open(d)
  BY <1>1, <1>2 DEF Fails, Settles, Open
<1>. QED BY <1>4, <1>5 DEF Fails, d

\* The end of onNotification fails what it found, or holds the event, or has
\* it consumed.
LEMMA DeliverEffect ==
  ASSUME bridge \in BridgeState, NEW e \in Events, NEW ok, bridge.session # None
  PROVE  LET d == Deliver(e, ok)
             b == bridge
         IN \/ \E t \in {Cur(b).turnId, None} :
                 /\ Fails(b, d, t)
                 /\ t # Cur(b).turnId => e.kind = "completed"
            \/ /\ ~Open(b)
               /\ Works(b, d) /\ Cur(d) = [Cur(b) EXCEPT !.buffered = Append(@, e)]
               /\ d.op = b.op /\ d.answers = b.answers /\ d.heard = b.heard
            \/ Open(b) /\ ~Throws(b, e, ok) /\ d = Consume(b, e, ok)
<1> DEFINE s == [Cur(bridge) EXCEPT !.buffered = Append(@, e)]
           held == [bridge EXCEPT !.sess[bridge.session] = s]
           con == Consume(bridge, e, ok)
<1>1. Cur(bridge) \in Session
  BY CurType
<1>2. s \in Session /\ Held(s) = Held(Cur(bridge))
  <2>1. Cur(bridge).buffered \in Seq(Events)
    BY <1>1 DEF Session
  <2>2. Append(Cur(bridge).buffered, e) \in Seq(Events)
    BY <2>1
  <2>. QED BY <1>1, <2>2 DEF Session, Held
<1>3. CASE ~Open(bridge)
  <2>1. /\ Works(bridge, held) /\ Cur(held) = s /\ held.op = bridge.op
        /\ held.answers = bridge.answers /\ held.heard = bridge.heard
    BY <1>2, CurEffect
  <2>2. held = [bridge EXCEPT !.sess[bridge.session].buffered = Append(@, e)]
    BY DEF Cur
  <2>3. Deliver(e, ok) = held \/ Deliver(e, ok) = Fail(held, "failed")
    BY <1>3, <2>2 DEF Deliver
  <2>4. s.thread = Cur(bridge).thread /\ s.turnId = Cur(bridge).turnId
    BY <1>1 DEF Session
  <2> HIDE DEF held
  <2>5. Fails(bridge, Fail(held, "failed"), Cur(bridge).turnId)
    <3> HIDE DEF s
    <3>1. held \in BridgeState
      BY <2>1 DEF Works
    <3>. QED BY <1>2, <2>1, <2>4, <3>1, FailAfter DEF Outcomes
  <2>. QED BY <1>3, <2>1, <2>3, <2>5 DEF s
<1>4. CASE Open(bridge) /\ ~Throws(bridge, e, ok)
  BY <1>4 DEF Deliver
<1>5. CASE Open(bridge) /\ Throws(bridge, e, ok)
  <2>1. Deliver(e, ok) = Fail(con, "failed")
    BY <1>5 DEF Deliver
  <2>2. CASE con = bridge
    <3>1. Fails(bridge, Fail(bridge, "failed"), Cur(bridge).turnId)
      BY FailEffect DEF Outcomes
    <3>. QED BY <2>1, <2>2, <3>1
  <2>3. CASE con # bridge
    <3>1. /\ e.kind = "completed" /\ Works(bridge, con)
          /\ con.answers = bridge.answers /\ con.heard = bridge.heard
          /\ con.op = bridge.op /\ Cur(con) = [Cur(bridge) EXCEPT !.turnId = None]
      BY <1>5, <2>3, ConsumeEffect
    <3>2. /\ Cur(con).thread = Cur(bridge).thread /\ Cur(con).turnId = None
          /\ Held(Cur(con)) = Held(Cur(bridge))
      BY <1>1, <3>1 DEF Session, Held
    <3>3. con \in BridgeState
      BY <3>1 DEF Works
    <3> HIDE DEF con
    <3>4. Fails(bridge, Fail(con, "failed"), None)
      BY <3>1, <3>2, <3>3, FailAfter DEF Outcomes
    <3>. QED BY <2>1, <3>1, <3>4
  <2>. QED BY <2>2, <2>3
<1>. QED BY <1>3, <1>4, <1>5

\* A queued call leaves the rest of the session as it was.
LEMMA QueueEffect ==
  ASSUME bridge \in BridgeState, bridge.session # None, NEW c \in Calls, NEW t \in Requests
  PROVE  LET s == Cur(bridge)
             v == [s EXCEPT !.turnId = t, !.seen = s.seen \cup {c},
                            !.pending = Append(s.pending, c)]
             q == [bridge EXCEPT !.sess[bridge.session] = v]
         IN /\ Works(bridge, q) /\ Cur(q) = v /\ v \in Session
            /\ q.op = bridge.op /\ q.answers = bridge.answers
            /\ q.heard = bridge.heard
<1> DEFINE s == Cur(bridge)
           v == [s EXCEPT !.turnId = t, !.seen = s.seen \cup {c},
                          !.pending = Append(s.pending, c)]
<1>1. s \in Session
  BY CurType
<1>2. Append(s.pending, c) \in Seq(Calls)
  BY <1>1 DEF Session
<1>3. v \in Session
  BY <1>1, <1>2 DEF Session, OptRequest
<1> HIDE DEF v
<1>. QED BY <1>3, CurEffect DEF v

\* flushTool offers the head of the queue, or fails what it found.
LEMMA FlushEffect ==
  ASSUME NEW b \in BridgeState, CanFlush(b), NEW ok
  PROVE  LET d == Flush(b, ok)
         IN IF ok THEN d = Offer(b) ELSE Fails(b, d, Cur(b).turnId)
<1>1. CASE ok
  BY <1>1 DEF Flush
<1>2. CASE ~ok
  <2> DEFINE t == Take(b)
             p == Cur(b).pending
  <2>1. /\ Works(b, t) /\ Cur(t) \in Session
        /\ Cur(t) = [Cur(b) EXCEPT !.waiting = Head(p), !.pending = Tail(p)]
        /\ t.op = b.op /\ t.answers = b.answers /\ t.heard = b.heard
        /\ Head(p) \in Calls
    BY TakeEffect
  <2>2. /\ Cur(b) \in Session /\ Cur(b).waiting = None /\ p # <<>>
        /\ t \in BridgeState
    BY <2>1, CurType DEF CanFlush, Works
  <2>3. p \in Seq(Calls)
    BY <2>2 DEF Session
  <2>4. /\ Cur(t).thread = Cur(b).thread /\ Cur(t).turnId = Cur(b).turnId
        /\ Cur(t).waiting = Head(p) /\ Cur(t).pending = Tail(p)
    BY <2>1, <2>2 DEF Session
  <2>5. Range(p) = {Head(p)} \cup Range(Tail(p))
    <3>1. /\ DOMAIN p = 1 .. Len(p) /\ Len(p) \in Nat \ {0} /\ Head(p) = p[1]
          /\ DOMAIN Tail(p) = 1 .. (Len(p) - 1)
          /\ \A i \in DOMAIN Tail(p) : Tail(p)[i] = p[i + 1]
      BY <2>2, <2>3
    <3>2. ASSUME NEW i \in DOMAIN p PROVE p[i] \in {Head(p)} \cup Range(Tail(p))
      <4>1. CASE i = 1
        BY <3>1, <4>1
      <4>2. CASE i # 1
        <5>1. i - 1 \in DOMAIN Tail(p) /\ Tail(p)[i - 1] = p[i]
          BY <3>1, <4>2
        <5>. QED BY <5>1 DEF Range
      <4>. QED BY <4>1, <4>2
    <3>3. Head(p) \in Range(p)
      BY <3>1 DEF Range
    <3>4. ASSUME NEW i \in DOMAIN Tail(p) PROVE Tail(p)[i] \in Range(p)
      <4>1. i + 1 \in DOMAIN p /\ Tail(p)[i] = p[i + 1]
        BY <3>1
      <4>. QED BY <4>1 DEF Range
    <3>. QED BY <3>2, <3>3, <3>4 DEF Range
  <2>6. Held(Cur(t)) = Held(Cur(b))
    <3>1. Head(p) # None
      BY <2>1, NoneAssumption
    <3>. QED BY <2>2, <2>4, <2>5, <3>1 DEF Held
  <2>7. Flush(b, ok) = Fail(t, "failed")
    BY <1>2 DEF Flush
  <2> HIDE DEF t
  <2>8. Fails(b, Fail(t, "failed"), Cur(b).turnId)
    BY <2>1, <2>2, <2>4, <2>6, FailAfter DEF Outcomes
  <2>. QED BY <1>2, <2>7, <2>8
<1>. QED BY <1>1, <1>2

-----------------------------------------------------------------------------
(* The inductive invariant behind SingleFlight and FailureStaysHome *)

Running == {r \in Requests : task[r].pc \in {"releasing", "awaiting"}}

\* A drive in one of these states has a continuation ready (a starting one as
\* soon as the connection is up).
Ready == {"start", "replay", "failed"}

\* The one respond() in progress, its operation, and the session's timer.
OneFlight ==
    /\ bridge.busy <=> Running # {}
    /\ \A q, r \in Running : q = r
    /\ bridge.operation # None => task[bridge.operation].pc = "awaiting"
    /\ \A r \in Requests : task[r].pc = "awaiting" => bridge.operation = r
    /\ Open(bridge) => /\ bridge.session # None
                       /\ task[bridge.operation].session = bridge.session
    /\ bridge.ttl <=> Idle

\* A request that is not opened has left no trace, and finds no session when
\* its turn comes; a session that is being released is not the current one.
Fresh ==
    /\ \A r \in Requests \ Opened :
         /\ bridge.op[r] = [offered |-> None, outcome |-> "none"]
         /\ bridge.rel[r] = "none" /\ r \notin bridge.unsubscribed
         /\ task[r].tool = None /\ task[r].prev = None
         /\ task[r].pc = "releasing" => bridge.session = None /\ task[r].turn = r
    /\ \A r \in Requests :
         bridge.rel[r] # "none" \/ r \in bridge.unsubscribed => r # bridge.session

\* A drive whose session is current has the operation, until its turn is
\* sent; only a request without previous_response_id awaits a thread; and no
\* further line of a chunk is handled while a drive has something to do.
DriveOK(r) ==
    /\ task[r].drv \in {"start", "thread"} /\ Current(r) =>
         bridge.operation = r /\ Open(bridge)
    /\ task[r].drv = "thread" =>
         task[r].prev = None /\ (Current(r) => ~Cur(bridge).thread)
    /\ task[r].drv = "replay" =>
         Current(r) /\ bridge.operation = r /\ task[r].tool # None
    /\ task[r].drv = "turn" => task[r].tool = None
    /\ burst => task[r].drv \notin Ready

\* A session that can be continued has its thread.
ThreadOK ==
    /\ \A r \in Requests :
         /\ task[r].tool # None => task[r].prev # None
         /\ r \in Opened /\ task[r].prev # None /\ Current(r) =>
              Cur(bridge).thread
    /\ bridge.session # None /\ ~Open(bridge) => Cur(bridge).thread

\* A closed bridge keeps at most a session whose request was caught in the
\* await of line 45; it has no thread and never gets one, for close() ends
\* before another line is handled.
ClosedOK ==
    /\ close.at = "done" => bridge.rpc = "closed"
    /\ bridge.rpc = "closed" => bridge.closed
    /\ bridge.closed /\ bridge.rpc # "closed" =>
         /\ close.at = "releasing"
         /\ IF close.of = None THEN ~burst
            ELSE bridge.session = None /\ Running = {}
    /\ bridge.closed /\ bridge.session # None =>
         /\ Open(bridge) /\ ~Cur(bridge).thread
         /\ task[bridge.operation].drv = "thread" =>
              task[bridge.operation].reply \in {"pending", "error"}

Flight ==
    OneFlight /\ Fresh /\ (\A r \in Requests : DriveOK(r)) /\ ThreadOK /\ ClosedOK

\* What follows from it about the states the theorems are about.
LEMMA FlightSingle == TypeOK /\ Flight => SingleFlight
<1> SUFFICES ASSUME TypeOK, Flight PROVE SingleFlight
  OBVIOUS
<1>1. bridge.closed /\ Running = {} => bridge.session = None
  BY DEF TypeOK, BridgeState, OptRequest, Flight, OneFlight, ClosedOK, Open, Running
<1>2. bridge.operation # None =>
        bridge.operation \in Running /\ task[bridge.operation].pc = "awaiting"
  BY DEF TypeOK, BridgeState, OptRequest, Flight, OneFlight, Running
<1>3. (\E r \in Running : task[r].pc = "awaiting") => bridge.operation # None
  BY NoneAssumption DEF Flight, OneFlight, Running
<1>. QED BY <1>1, <1>2, <1>3 DEF SingleFlight, Flight, OneFlight, Running

-----------------------------------------------------------------------------
(* Scheduling *)

\* A line is handled only while no drive has something to do, and a closed
\* bridge that handles one has no session.
LEMMA LineQuiet ==
  ASSUME TypeOK, Flight, Line
  PROVE  /\ \A r \in Requests : task[r].drv \notin Ready
         /\ bridge.closed => bridge.session = None /\ close.of # None
         /\ bridge.rpc \in {"up", "broken"}
<1>1. \A r \in Requests : task[r].drv \notin Ready
  BY DEF Line, MicroReady, Ready, Flight, DriveOK
<1>2. bridge.closed => bridge.session = None /\ close.of # None
  BY DEF Line, MicroReady, Released, Flight, ClosedOK
<1>. QED BY <1>1, <1>2 DEF Line

\* A timer or an HTTP event finds no continuation ready, so that an operation
\* in progress is open.
LEMMA MacroQuiet ==
  ASSUME TypeOK, Flight, Macro
  PROVE  /\ ~burst'
         /\ \A r \in Requests : /\ task[r].drv \notin {"replay", "failed"}
                                /\ task[r].drv = "start" => bridge.rpc = "starting"
                                /\ task[r].pc = "awaiting" =>
                                     bridge.operation = r /\ Open(bridge)
BY NoneAssumption DEF Macro, MicroReady, Flight, OneFlight, Open

\* Whatever a line does, burst then means that nothing is ready.
LEMMA HandledBurst ==
  ASSUME TypeOK, Flight, Line, Handled,
         \A r \in Requests : task'[r].drv = task[r].drv
  PROVE  burst' => \A r \in Requests : task'[r].drv \notin Ready
BY LineQuiet

-----------------------------------------------------------------------------
(* What most steps may change *)

\* The tasks keep what they were opened with.
TasksStill ==
    \A r \in Requests :
      /\ task'[r].pc = task[r].pc /\ task'[r].session = task[r].session
      /\ task'[r].tool = task[r].tool /\ task'[r].prev = task[r].prev
      /\ task'[r].turn = task[r].turn

\* The bridge stays, or settles its operation, or drops its session, after
\* which no segment is open.
HandlerStep ==
    /\ bridge'.busy = bridge.busy /\ bridge'.closed = bridge.closed
    /\ bridge'.operation = bridge.operation
    /\ bridge'.rpc = "closed" <=> bridge.rpc = "closed"
    /\ bridge'.session \in {bridge.session, None}
    /\ bridge'.ttl <=> bridge.ttl /\ bridge'.session # None
    /\ Open(bridge') => Open(bridge) /\ bridge'.session = bridge.session
    /\ Open(bridge) /\ ~Open(bridge') /\ bridge'.session # None =>
         Cur(bridge).thread /\ task[bridge.operation].drv # "start"
    /\ \A r \in Requests :
         /\ r # bridge.operation => bridge'.op[r] = bridge.op[r]
         /\ bridge.op[r].outcome # "none" => bridge'.op[r] = bridge.op[r]
         /\ bridge.sess[r].thread => bridge'.sess[r].thread
         /\ bridge'.sess[r].thread =>
              \/ bridge.sess[r].thread
              \/ /\ r = bridge.session /\ ~bridge.closed
                 /\ task'[bridge.operation].drv # "thread"
         /\ bridge'.rel[r] # "none" =>
              bridge.rel[r] # "none" \/ (r = bridge.session /\ bridge'.session = None)
         /\ r \in bridge'.unsubscribed =>
              \/ r \in bridge.unsubscribed
              \/ r \in Opened /\ r # bridge'.session

\* A drive that moves arrives where it may be, and awaits no thread with an
\* answer at hand.
DrivesStep ==
    \A r \in Requests :
      /\ task'[r].drv = task[r].drv \/ DriveOK(r)'
      /\ task[r].drv = "replay" /\ task'[r].drv = "replay" =>
           bridge'.session = bridge.session
      /\ bridge.closed /\ bridge.session # None /\ task'[r].drv = "thread" =>
           \/ task'[r].reply \in {"pending", "error"}
           \/ task[r].drv = "thread" /\ task'[r].reply = task[r].reply

\* What no step takes back: an opened request keeps its session, its turn and
\* what it continues, a settled operation its outcome and the call it offered.
Kept ==
    /\ \A r \in Opened :
         /\ task'[r].pc \in {"awaiting", "done"}
         /\ task'[r].session = task[r].session /\ task'[r].turn = task[r].turn
         /\ task'[r].prev = task[r].prev /\ task'[r].tool = task[r].tool
    /\ \A r \in Requests :
         bridge.op[r].outcome # "none" => bridge'.op[r] = bridge.op[r]

\* Nothing follows in a chunk when a drive has something to do, or close() is
\* about to end.
BurstStep ==
    /\ burst' => \A r \in Requests : task'[r].drv \notin Ready
    /\ bridge.closed /\ close.of = None => ~burst'

\* A step of these kinds keeps the invariant.
LEMMA FlightKept ==
  ASSUME TypeOK, OpenedFirst, Flight, TypeOK', TasksStill, HandlerStep, DrivesStep, BurstStep,
         close' = close
  PROVE  Flight' /\ Kept
<1>1. Running' = Running /\ Opened' = Opened
  BY DEF TasksStill, Running, Opened
<1>2. OneFlight'
  <2>1. Open(bridge)' => Open(bridge) /\ bridge'.session = bridge.session
    BY DEF HandlerStep
  <2>2. Idle' <=> Idle /\ bridge'.session # None
    BY DEF HandlerStep, Idle
  <2>3. bridge.operation \in Requests \cup {None}
    BY DEF TypeOK, BridgeState, OptRequest
  <2>. QED BY <1>1, <2>1, <2>2, <2>3
           DEF Flight, OneFlight, TasksStill, HandlerStep, Open
<1>3. Fresh'
  <2>1. ASSUME NEW r \in Requests \ Opened
        PROVE  /\ bridge'.op[r] = [offered |-> None, outcome |-> "none"]
               /\ bridge'.rel[r] = "none" /\ r \notin bridge'.unsubscribed
               /\ task'[r].tool = None /\ task'[r].prev = None
               /\ task'[r].pc = "releasing" =>
                    bridge'.session = None /\ task'[r].turn = r
    <3>1. r # bridge.operation /\ r # bridge.session
      BY NoneAssumption DEF Flight, OneFlight, OpenedFirst, Opened
    <3>. QED BY <3>1 DEF Flight, Fresh, HandlerStep, TasksStill
  <2>2. ASSUME NEW r \in Requests,
               bridge'.rel[r] # "none" \/ r \in bridge'.unsubscribed
        PROVE  r # bridge'.session
    BY <2>2, NoneAssumption DEF Flight, Fresh, HandlerStep
  <2>. QED BY <1>1, <2>1, <2>2 DEF Fresh
<1>4. ThreadOK'
  <2>1. ASSUME NEW r \in Requests, r \in Opened, task[r].prev # None,
               bridge'.session = task[r].session
        PROVE  Cur(bridge').thread
    <3>1. task[r].session \in Requests /\ task[r].session # None
      BY <2>1, NoneAssumption DEF OpenedFirst, Opened
    <3>. QED BY <2>1, <3>1 DEF Flight, ThreadOK, HandlerStep, Current, Cur
  <2>2. ASSUME bridge'.session # None, ~Open(bridge') PROVE Cur(bridge').thread
    <3>1. bridge'.session = bridge.session /\ bridge.session \in Requests
      BY <2>2 DEF HandlerStep, TypeOK, BridgeState, OptRequest
    <3>2. Cur(bridge).thread
      BY <2>2, <3>1 DEF Flight, ThreadOK, HandlerStep
    <3>. QED BY <3>1, <3>2 DEF HandlerStep, Cur
  <2>. QED BY <1>1, <2>1, <2>2 DEF ThreadOK, Flight, TasksStill, Current, Cur
<1>5. ASSUME NEW r \in Requests PROVE DriveOK(r)'
  <2> SUFFICES ASSUME task'[r].drv = task[r].drv PROVE DriveOK(r)'
    BY DEF DrivesStep
  <2>1. CASE task[r].drv \in {"start", "thread"}
    <3>1. task[r].session \in Requests /\ task[r].session # None
      BY <2>1, NoneAssumption DEF OpenedFirst, Opened
    <3> SUFFICES ASSUME Current(r)'
                 PROVE  /\ bridge'.operation = r /\ Open(bridge')
                        /\ task[r].drv = "thread" => ~Cur(bridge').thread
      BY <2>1 DEF DriveOK, BurstStep, Flight, TasksStill
    <3>2. Current(r) /\ bridge'.session = bridge.session /\ bridge.session # None
      BY <3>1 DEF HandlerStep, TasksStill, Current
    <3>3. /\ bridge.operation = r /\ Open(bridge)
          /\ task[r].drv = "thread" => ~Cur(bridge).thread
      BY <2>1, <3>2 DEF Flight, DriveOK
    <3>4. Open(bridge')
      BY <2>1, <3>2, <3>3 DEF HandlerStep
    <3>5. task[r].drv = "thread" => ~Cur(bridge').thread
      BY <3>1, <3>2, <3>3 DEF HandlerStep, Cur, Current
    <3>. QED BY <3>3, <3>4, <3>5 DEF HandlerStep
  <2>2. CASE task[r].drv \notin {"start", "thread"}
    BY <2>2 DEF DriveOK, BurstStep, DrivesStep, Flight, TasksStill, HandlerStep, Current
  <2>. QED BY <2>1, <2>2
<1>6. ClosedOK'
  <2>1. /\ bridge'.closed = bridge.closed
        /\ bridge'.rpc = "closed" <=> bridge.rpc = "closed"
        /\ bridge'.session \in {bridge.session, None}
        /\ bridge'.operation = bridge.operation
    BY DEF HandlerStep
  <2>2. ASSUME bridge.closed, bridge'.session # None
        PROVE  /\ Open(bridge') /\ ~Cur(bridge').thread
               /\ task'[bridge.operation].drv = "thread" =>
                    task'[bridge.operation].reply \in {"pending", "error"}
    <3>1. /\ Open(bridge) /\ ~Cur(bridge).thread
          /\ bridge'.session = bridge.session /\ bridge.session \in Requests
          /\ task[bridge.operation].drv = "thread" =>
               task[bridge.operation].reply \in {"pending", "error"}
      BY <2>1, <2>2 DEF Flight, ClosedOK, TypeOK, BridgeState, OptRequest
    <3>2. bridge.operation \in Requests
      BY <3>1, OpenType DEF TypeOK
    <3>3. Open(bridge') /\ ~Cur(bridge').thread
      BY <2>2, <3>1 DEF HandlerStep, Cur
    <3>. QED BY <2>2, <3>1, <3>2, <3>3 DEF DrivesStep
  <2>. QED BY <1>1, <2>1, <2>2 DEF ClosedOK, Flight, BurstStep
<1>7. Kept
  BY DEF Kept, TasksStill, HandlerStep, Opened
<1>. QED BY <1>2, <1>3, <1>4, <1>5, <1>6, <1>7 DEF Flight

-----------------------------------------------------------------------------
(* The handlers are such steps *)

\* A bridge that stays, but for what these theorems do not read.
LEMMA SameHandler ==
  ASSUME TypeOK, Flight,
         bridge'.busy = bridge.busy, bridge'.closed = bridge.closed,
         bridge'.operation = bridge.operation, bridge'.session = bridge.session,
         bridge'.rpc = "closed" <=> bridge.rpc = "closed",
         bridge'.ttl = bridge.ttl, bridge'.op = bridge.op,
         bridge'.sess = bridge.sess, bridge'.rel = bridge.rel,
         bridge'.unsubscribed = bridge.unsubscribed
  PROVE  HandlerStep
BY DEF HandlerStep, Flight, OneFlight, Idle, Open

\* A handler that works on the session.
LEMMA WorksHandler ==
  ASSUME Works(bridge, bridge'), bridge'.op = bridge.op,
         Cur(bridge').thread = Cur(bridge).thread
  PROVE  HandlerStep
BY DEF HandlerStep, Works, Cur, Open

\* A handler that completes the operation.
LEMMA CompletesHandler ==
  ASSUME NEW c, Works(bridge, bridge'), Completes(bridge, bridge', c),
         Cur(bridge').thread = Cur(bridge).thread,
         Cur(bridge).thread, task[bridge.operation].drv # "start"
  PROVE  HandlerStep
BY DEF HandlerStep, Works, Completes, Cur, Open

\* A handler that fails, after it may have worked on the session.
LEMMA FailsHandler ==
  ASSUME TypeOK, OpenedFirst, Flight, NEW b, NEW t, b = bridge \/ Works(bridge, b),
         b.op = bridge.op,
         bridge.session # None => Cur(b).thread = Cur(bridge).thread,
         Fails(b, bridge', t)
  PROVE  HandlerStep
<1>1. /\ b.session = bridge.session /\ b.busy = bridge.busy
      /\ b.closed = bridge.closed /\ b.operation = bridge.operation
      /\ b.rpc = bridge.rpc /\ b.rel = bridge.rel
      /\ b.unsubscribed = bridge.unsubscribed
      /\ \A x \in Requests : b.sess[x].thread = bridge.sess[x].thread
  BY DEF Works, Cur
<1>2. \A r \in Requests : r # bridge.operation => bridge'.op[r] = bridge.op[r]
  BY <1>1 DEF Fails, Settles
<1>3. bridge.session \in Opened \cup {None}
  BY DEF OpenedFirst
<1>4. /\ bridge'.session = None /\ ~bridge'.ttl /\ ~Open(bridge')
      /\ bridge'.busy = bridge.busy /\ bridge'.closed = bridge.closed
      /\ bridge'.operation = bridge.operation /\ bridge'.rpc = bridge.rpc
      /\ \A x \in Requests :
           /\ bridge'.sess[x].thread = bridge.sess[x].thread
           /\ x # bridge.session => bridge'.rel[x] = bridge.rel[x]
      /\ IF bridge.session = None
         THEN bridge'.rel = bridge.rel /\ bridge'.unsubscribed = bridge.unsubscribed
         ELSE bridge'.unsubscribed \subseteq bridge.unsubscribed \cup {bridge.session}
  BY <1>1 DEF Fails, Dropped
<1>5. \A r \in Requests :
        bridge.op[r].outcome # "none" => bridge'.op[r] = bridge.op[r]
  BY <1>1 DEF Fails, Settles, Open
<1>. QED BY <1>2, <1>3, <1>4, <1>5, NoneAssumption DEF HandlerStep, Opened

\* A release without an open segment.
LEMMA ReleasesHandler ==
  ASSUME TypeOK, OpenedFirst, Flight, NEW t, Dropped(bridge, bridge', t),
         bridge'.op = bridge.op, ~Open(bridge)
  PROVE  HandlerStep
<1>1. Fails(bridge, bridge', t)
  BY DEF Fails, Settles, Dropped, Open
<1>. QED BY <1>1, FailsHandler

-----------------------------------------------------------------------------
(* Steps that leave the tasks alone *)

\* A timer or a continuation that leaves the drives alone.
LEMMA QuietFlight ==
  ASSUME IInv, IInv', Flight, HandlerStep, burst' = FALSE,
         UNCHANGED <<task, close>>, \A r \in Requests : task[r].drv # "replay"
  PROVE  Flight' /\ Kept
BY FlightKept DEF IInv, CallInv, TasksStill, DrivesStep, BurstStep

\* A line that leaves the drives alone.
LEMMA LineFlight ==
  ASSUME IInv, IInv', Flight, Line, Handled, HandlerStep, UNCHANGED <<task, close>>
  PROVE  Flight' /\ Kept
<1>1. burst' => \A r \in Requests : task'[r].drv \notin Ready
  BY HandledBurst DEF IInv
<1>2. /\ \A r \in Requests : task[r].drv \notin Ready
      /\ bridge.closed => close.of # None
  BY LineQuiet DEF IInv
<1>3. BurstStep
  BY <1>1, <1>2 DEF BurstStep
<1>4. DrivesStep
  BY <1>2 DEF DrivesStep, Ready
<1>. QED BY <1>3, <1>4, FlightKept DEF IInv, CallInv, TasksStill

\* A rejected request changes nothing.
LEMMA RejectedFlight ==
  ASSUME IInv, IInv', Flight, NEW r \in Requests, RespondRejected(r) PROVE Flight' /\ Kept
<1>1. /\ Macro /\ UNCHANGED <<bridge, task, close>>
      /\ \A q \in Requests : task[q].drv # "replay"
  BY MacroQuiet DEF RespondRejected, Arrives, IInv
<1>2. HandlerStep
  BY <1>1, SameHandler DEF IInv
<1>. QED BY <1>1, <1>2, QuietFlight DEF Macro

\* The generation timer fails the operation.
LEMMA TimeoutFlight ==
  ASSUME IInv, IInv', Flight, NEW r \in Requests, RequestTimeout(r) PROVE Flight' /\ Kept
<1>1. /\ Macro /\ bridge' = Fail(bridge, "timeout") /\ UNCHANGED <<task, close>>
      /\ \A q \in Requests : task[q].drv # "replay"
      /\ bridge \in BridgeState
  BY MacroQuiet DEF RequestTimeout, IInv, TypeOK
<1>2. Fails(bridge, bridge', Cur(bridge).turnId)
  BY <1>1, FailEffect DEF Outcomes
<1>3. HandlerStep
  BY <1>2, FailsHandler DEF IInv, CallInv
<1>. QED BY <1>1, <1>3, QuietFlight DEF Macro

\* The session timer runs only while no segment is open.
LEMMA ExpiresFlight ==
  ASSUME IInv, IInv', Flight, SessionExpires PROVE Flight' /\ Kept
<1>1. /\ Macro /\ bridge' = Release(bridge) /\ UNCHANGED <<task, close>>
      /\ \A q \in Requests : task[q].drv # "replay"
      /\ bridge \in BridgeState
  BY MacroQuiet DEF SessionExpires, IInv, TypeOK
<1>2. ~Open(bridge)
  BY OpenType DEF SessionExpires, Flight, OneFlight, Idle, Open, Running, IInv, TypeOK
<1>3. HandlerStep
  BY <1>1, <1>2, ReleaseEffect, ReleasesHandler DEF IInv, CallInv
<1>. QED BY <1>1, <1>3, QuietFlight DEF Macro

\* So do the answers that a release awaits.
LEMMA ReleaseFlight ==
  ASSUME IInv, IInv', Flight, NEW x \in Requests,
         ReleaseAnswered(x) \/ ReleaseTimesOut(x)
  PROVE  Flight' /\ Kept
<1>1. HandlerStep
  <2> DEFINE more == bridge.rel[x] = "interrupt" /\ bridge.rpc = "up"
             U == IF more THEN bridge.unsubscribed \cup {x} ELSE bridge.unsubscribed
             next == IF more THEN "unsubscribe" ELSE "done"
             d == [bridge EXCEPT !.rel[x] = next, !.unsubscribed = U]
  <2>1. bridge' = d /\ bridge.rel[x] \in {"interrupt", "unsubscribe"}
    BY DEF ReleaseAnswered, ReleaseTimesOut, ReleaseNext
  <2>2. /\ x \in Opened /\ x # bridge.session
        /\ U \subseteq bridge.unsubscribed \cup {x}
    BY <2>1 DEF Flight, Fresh
  <2> HIDE DEF U, next
  <2>3. /\ d.busy = bridge.busy /\ d.closed = bridge.closed
        /\ d.operation = bridge.operation /\ d.session = bridge.session
        /\ d.rpc = bridge.rpc /\ d.ttl = bridge.ttl /\ d.op = bridge.op
        /\ d.sess = bridge.sess /\ d.unsubscribed = U
        /\ d.rel = [bridge.rel EXCEPT ![x] = next]
        /\ bridge.rel \in [Requests -> {"none", "interrupt", "unsubscribe", "done"}]
    BY DEF IInv, TypeOK, BridgeState
  <2> HIDE DEF d
  <2>. QED BY <2>1, <2>2, <2>3
           DEF HandlerStep, Flight, OneFlight, Idle, Open
<1>2. UNCHANGED <<task, close>>
  BY DEF ReleaseAnswered, ReleaseTimesOut, ReleaseNext
<1>3. CASE ReleaseAnswered(x)
  BY <1>1, <1>2, <1>3, LineFlight DEF ReleaseAnswered
<1>4. CASE ReleaseTimesOut(x)
  <2>1. Macro /\ \A q \in Requests : task[q].drv # "replay"
    BY <1>4, MacroQuiet DEF ReleaseTimesOut, IInv
  <2>. QED BY <1>1, <1>2, <2>1, QuietFlight DEF Macro
<1>. QED BY <1>3, <1>4

\* The connection comes up, or its pipe breaks.
LEMMA ConnectionFlight ==
  ASSUME IInv, IInv', Flight, RpcStarted \/ PipeBreaks PROVE Flight' /\ Kept
<1>1. PICK state \in {"up", "broken"} : bridge' = [bridge EXCEPT !.rpc = state]
  BY DEF RpcStarted, PipeBreaks
<1>2. /\ Macro /\ UNCHANGED <<task, close>> /\ bridge.rpc # "closed"
      /\ \A q \in Requests : task[q].drv # "replay"
  BY MacroQuiet DEF RpcStarted, PipeBreaks, IInv
<1>3. HandlerStep
  BY <1>1, <1>2, SameHandler DEF IInv, TypeOK, BridgeState
<1>. QED BY <1>2, <1>3, QuietFlight DEF Macro

-----------------------------------------------------------------------------
(* drive() *)

\* One drive moves on, and the others wait.
LEMMA DriveFlight ==
  ASSUME IInv, IInv', Flight, HandlerStep, burst' = FALSE, close' = close,
         NEW r \in Requests, NEW v \in Task, task' = [task EXCEPT ![r] = v],
         v.pc = task[r].pc, v.session = task[r].session, v.tool = task[r].tool,
         v.prev = task[r].prev, v.turn = task[r].turn, DriveOK(r)',
         v.drv = "thread" => v.reply \in {"pending", "error"},
         \A q \in Requests : task[q].drv = "replay" => q = r,
         v.drv = "replay" => bridge'.session = bridge.session
  PROVE  Flight' /\ Kept
<1>1. task'[r] = v /\ \A q \in Requests : q # r => task'[q] = task[q]
  BY DEF IInv, TypeOK
<1>2. TasksStill
  BY <1>1 DEF TasksStill
<1>3. DrivesStep
  <2> SUFFICES ASSUME NEW q \in Requests
               PROVE  /\ task'[q].drv = task[q].drv \/ DriveOK(q)'
                      /\ task[q].drv = "replay" /\ task'[q].drv = "replay" =>
                           bridge'.session = bridge.session
                      /\ task'[q].drv = "thread" =>
                           \/ task'[q].reply \in {"pending", "error"}
                           \/ task[q].drv = "thread" /\ task'[q].reply = task[q].reply
    BY DEF DrivesStep
  <2>. QED BY <1>1
<1>4. BurstStep
  BY DEF BurstStep
<1>. QED BY <1>2, <1>3, <1>4, FlightKept DEF IInv, CallInv

\* A drive that is over, or has failed, is where it may be.
LEMMA MovesFlight ==
  ASSUME IInv, IInv', Flight, HandlerStep, burst' = FALSE, close' = close,
         NEW r \in Requests, NEW step \in {"failed", "done"}, Moves(r, step),
         \A q \in Requests : task[q].drv = "replay" => q = r
  PROVE  Flight' /\ Kept
<1> DEFINE v == [task[r] EXCEPT !.drv = step, !.reply = "none"]
<1>1. task \in [Requests -> Task] /\ task[r] \in Task
  BY DEF IInv, TypeOK
<1>2. /\ v \in Task /\ v.pc = task[r].pc /\ v.session = task[r].session
      /\ v.tool = task[r].tool /\ v.prev = task[r].prev /\ v.turn = task[r].turn
      /\ v.drv = step
  BY <1>1 DEF Task
<1>3. task' = [task EXCEPT ![r] = v]
  BY DEF Moves
<1> HIDE DEF v
<1>4. DriveOK(r)'
  <2>1. task'[r].drv = step
    BY <1>1, <1>2, <1>3
  <2>. QED BY <2>1 DEF DriveOK
<1>. QED BY <1>2, <1>3, <1>4, DriveFlight

\* A drive that awaits an RPC.
LEMMA AsksFlight ==
  ASSUME IInv, IInv', Flight, HandlerStep, burst' = FALSE, close' = close,
         NEW r \in Requests, NEW step \in {"thread", "turn"}, Asks(r, step),
         DriveOK(r)', \A q \in Requests : task[q].drv # "replay"
  PROVE  Flight' /\ Kept
<1> DEFINE w == IF bridge.rpc = "up" THEN "pending" ELSE "error"
           v == [task[r] EXCEPT !.drv = step, !.reply = w]
<1>1. task \in [Requests -> Task] /\ task[r] \in Task /\ w \in {"pending", "error"}
  BY DEF IInv, TypeOK
<1>2. task' = [task EXCEPT ![r] = v]
  BY DEF Asks
<1> HIDE DEF w
<1>3. /\ v \in Task /\ v.pc = task[r].pc /\ v.session = task[r].session
      /\ v.tool = task[r].tool /\ v.prev = task[r].prev /\ v.turn = task[r].turn
      /\ v.drv = step /\ v.reply = w
  BY <1>1 DEF Task
<1> HIDE DEF v
<1>. QED BY <1>1, <1>2, <1>3, DriveFlight

\* The thread is asked for only by a request that opened the session.
LEMMA StartsFlight ==
  ASSUME IInv, IInv', Flight, NEW r \in Requests, DriveStarts(r) PROVE Flight' /\ Kept
<1>1. /\ bridge' = bridge /\ close' = close /\ burst' = FALSE
      /\ task[r].drv = "start" /\ task \in [Requests -> Task]
      /\ \A q \in Requests : task[q].drv # "replay"
  BY DEF DriveStarts, Started, Micro, IInv, TypeOK
<1>2. HandlerStep
  BY <1>1, SameHandler DEF IInv
<1>3. CASE Moves(r, "failed") \/ Moves(r, "done")
  BY <1>1, <1>2, <1>3, MovesFlight
<1>4. CASE /\ Current(r) /\ ~Cur(bridge).thread
           /\ Asks(r, "thread")
  <2>1. bridge.operation = r /\ Open(bridge) /\ r \in Opened
    BY <1>1, <1>4 DEF Flight, DriveOK, IInv, CallInv, OpenedFirst
  <2>2. task[r].prev = None
    BY <1>4, <2>1 DEF Flight, ThreadOK
  <2>3. task'[r].drv = "thread" /\ task'[r].prev = None
    BY <1>1, <1>4, <2>2 DEF Asks, Task
  <2>4. DriveOK(r)'
    BY <1>1, <1>4, <2>1, <2>3 DEF DriveOK, Current
  <2>. QED BY <1>1, <1>2, <1>4, <2>4, AsksFlight
<1>. QED BY <1>3, <1>4 DEF DriveStarts

\* A turn is sent by a drive without a tool result.
LEMMA MessageFlight ==
  ASSUME IInv, IInv', Flight, NEW r \in Requests, DriveSendsMessage(r) PROVE Flight' /\ Kept
<1>1. /\ bridge' = bridge /\ close' = close /\ burst' = FALSE
      /\ task[r].tool = None /\ Asks(r, "turn") /\ task \in [Requests -> Task]
      /\ \A q \in Requests : task[q].drv # "replay"
  BY DEF DriveSendsMessage, Started, StartsTurn, Micro, IInv, TypeOK
<1>2. HandlerStep
  BY <1>1, SameHandler DEF IInv
<1>3. task'[r].drv = "turn" /\ task'[r].tool = None
  BY <1>1 DEF Asks, Task
<1>4. DriveOK(r)'
  BY <1>1, <1>3 DEF DriveOK
<1>. QED BY <1>1, <1>2, <1>4, AsksFlight

\* A result goes to the session of the drive that brings it.
LEMMA AnswersFlight ==
  ASSUME IInv, IInv', Flight, NEW r \in Requests, DriveAnswersTool(r) PROVE Flight' /\ Kept
<1> DEFINE s == Cur(bridge)
           ans == Answer(bridge, {s.waiting}, "result", r)
           taken == [s EXCEPT !.waiting = None, !.buffered = <<>>]
           lost == [s EXCEPT !.waiting = None]
<1>1. /\ close' = close /\ burst' = FALSE /\ task[r].drv = "start"
      /\ task[r].tool # None /\ Current(r) /\ task \in [Requests -> Task]
      /\ \A q \in Requests : task[q].drv # "replay"
      /\ bridge \in BridgeState
  BY DEF DriveAnswersTool, Started, Micro, IInv, TypeOK
<1>2. bridge.operation = r /\ Open(bridge) /\ bridge.session # None
  BY <1>1 DEF Flight, OneFlight, DriveOK
<1>3. bridge.session \in Requests /\ s \in Session
  BY <1>1, <1>2, CurType
<1>4. CASE /\ bridge' = [bridge EXCEPT !.answers = ans,
                                       !.sess[bridge.session] = taken]
           /\ Moves(r, "replay")
  <2>1. taken.thread = s.thread
    BY <1>3 DEF Session
  <2> HIDE DEF taken, ans
  <2>2. /\ bridge'.busy = bridge.busy /\ bridge'.closed = bridge.closed
        /\ bridge'.operation = bridge.operation /\ bridge'.session = bridge.session
        /\ bridge'.rpc = bridge.rpc /\ bridge'.ttl = bridge.ttl
        /\ bridge'.op = bridge.op /\ bridge'.rel = bridge.rel
        /\ bridge'.unsubscribed = bridge.unsubscribed
        /\ bridge'.sess = [bridge.sess EXCEPT ![bridge.session] = taken]
    BY <1>1, <1>4 DEF BridgeState
  <2>3. \A x \in Requests : bridge'.sess[x].thread = bridge.sess[x].thread
    BY <1>1, <1>3, <2>1, <2>2 DEF BridgeState, Cur
  <2>4. HandlerStep
    BY <1>2, <2>2, <2>3 DEF HandlerStep, Open, Flight, OneFlight, Idle
  <2> DEFINE v == [task[r] EXCEPT !.drv = "replay", !.reply = "none"]
  <2>5. /\ v \in Task /\ v.pc = task[r].pc /\ v.session = task[r].session
        /\ v.tool = task[r].tool /\ v.prev = task[r].prev /\ v.turn = task[r].turn
        /\ v.drv = "replay"
    BY <1>1 DEF Task
  <2>6. task' = [task EXCEPT ![r] = v]
    BY <1>4 DEF Moves
  <2> HIDE DEF v
  <2>7. DriveOK(r)'
    BY <1>1, <1>2, <2>2, <2>5, <2>6 DEF DriveOK, Current
  <2>. QED BY <1>1, <2>2, <2>4, <2>5, <2>6, <2>7, DriveFlight
<1>5. CASE /\ bridge' = [bridge EXCEPT !.sess[bridge.session].waiting = None]
           /\ Moves(r, "failed")
  <2>1. lost \in Session /\ lost.thread = s.thread
    BY <1>3 DEF Session, OptCall
  <2>2. bridge' = [bridge EXCEPT !.sess[bridge.session] = lost]
    BY <1>5 DEF Cur
  <2> HIDE DEF lost
  <2>3. HandlerStep
    BY <1>1, <1>2, <2>1, <2>2, CurEffect, WorksHandler
  <2>. QED BY <1>1, <1>5, <2>3, MovesFlight
<1>. QED BY <1>4, <1>5 DEF DriveAnswersTool

\* The replay belongs to the operation, whose session has its thread.
LEMMA ReplayFacts ==
  ASSUME IInv, Flight, NEW r \in Requests, task[r].drv = "replay"
  PROVE  /\ Current(r) /\ bridge.operation = r /\ bridge.session # None
         /\ Cur(bridge).thread /\ task[bridge.operation].drv # "start"
         /\ r \in Opened
         /\ \A q \in Requests : task[q].drv = "replay" => q = r
<1>1. /\ Current(r) /\ bridge.operation = r /\ task[r].tool # None
      /\ \A q \in Requests : task[q].drv = "replay" => q = r
  BY DEF Flight, DriveOK
<1>2. r \in Opened /\ bridge.session # None
  BY <1>1, DrivenOpened DEF Current
<1>3. Cur(bridge).thread
  BY <1>1, <1>2 DEF Flight, ThreadOK
<1>. QED BY <1>1, <1>2, <1>3

\* Consuming a notification on a thread that is known.
LEMMA ConsumeHandler ==
  ASSUME IInv, Flight, NEW e \in Events, NEW ok, bridge' = Consume(bridge, e, ok),
         ~Ignores(bridge, e) =>
           Cur(bridge).thread /\ task[bridge.operation].drv # "start"
  PROVE  HandlerStep /\ bridge'.session = bridge.session
<1> DEFINE d == Consume(bridge, e, ok)
<1>1. bridge \in BridgeState /\ TypeOK
  BY DEF IInv, TypeOK
<1>2. CASE d = bridge
  BY <1>1, <1>2, SameHandler
<1>3. CASE /\ ~Ignores(bridge, e)
           /\ Works(bridge, d) /\ d.sess = bridge.sess /\ d.op = bridge.op
  BY <1>3, WorksHandler DEF Cur, Works
<1>4. CASE /\ ~Ignores(bridge, e) /\ Works(bridge, d) /\ d.op = bridge.op
           /\ Cur(d) = [Cur(bridge) EXCEPT !.turnId = None]
  <2>1. Cur(bridge) \in Session
    BY <1>1, <1>4, CurType DEF Works
  <2>2. Cur(d).thread = Cur(bridge).thread
    BY <1>4, <2>1 DEF Session
  <2> HIDE DEF d
  <2>. QED BY <1>4, <2>2, WorksHandler DEF d, Works
<1>5. CASE /\ ~Ignores(bridge, e) /\ Works(bridge, d)
           /\ Completes(bridge, d, bridge.op[bridge.operation].offered)
           /\ Cur(d) = [Cur(bridge) EXCEPT !.turnId = None,
                                           !.last = bridge.operation]
  <2>1. Cur(bridge) \in Session
    BY <1>1, <1>5, CurType DEF Works
  <2>2. Cur(d).thread = Cur(bridge).thread
    BY <1>5, <2>1 DEF Session
  <2> HIDE DEF d
  <2>. QED BY <1>5, <2>2, CompletesHandler DEF d, Works
<1>6. \/ d = bridge
      \/ /\ ~Ignores(bridge, e)
         /\ Works(bridge, d) /\ d.sess = bridge.sess /\ d.op = bridge.op
      \/ /\ ~Ignores(bridge, e) /\ Works(bridge, d) /\ d.op = bridge.op
         /\ Cur(d) = [Cur(bridge) EXCEPT !.turnId = None]
      \/ /\ ~Ignores(bridge, e) /\ Works(bridge, d)
         /\ Completes(bridge, d, bridge.op[bridge.operation].offered)
         /\ Cur(d) = [Cur(bridge) EXCEPT !.turnId = None, !.last = bridge.operation]
  BY <1>1, ConsumeEffect
<1>. QED BY <1>2, <1>3, <1>4, <1>5, <1>6

\* A round of the replay completes its own operation at most.
LEMMA ReplaysFlight ==
  ASSUME IInv, IInv', Flight, NEW r \in Requests, DriveReplays(r) PROVE Flight' /\ Kept
<1>1. /\ close' = close /\ burst' = FALSE /\ task[r].drv = "replay"
      /\ loop \in Seq(Events) /\ loop # <<>>
  BY DEF DriveReplays, IInv, TypeOK
<1>2. Head(loop) \in Events
  BY <1>1
<1>3. HandlerStep /\ bridge'.session = bridge.session
  BY <1>1, <1>2, ReplayFacts, ConsumeHandler DEF DriveReplays
<1>4. CASE Moves(r, "failed")
  BY <1>1, <1>3, <1>4, ReplayFacts, MovesFlight
<1>5. CASE UNCHANGED task
  <2>1. TasksStill /\ BurstStep
    BY <1>1, <1>5 DEF TasksStill, BurstStep
  <2>2. DrivesStep
    BY <1>3, <1>5 DEF DrivesStep
  <2>. QED BY <1>1, <1>3, <2>1, <2>2, FlightKept DEF IInv, CallInv
<1>. QED BY <1>4, <1>5 DEF DriveReplays

\* The next call is offered by the operation of the replay.
LEMMA FlushesFlight ==
  ASSUME IInv, IInv', Flight, NEW r \in Requests, DriveFlushes(r) PROVE Flight' /\ Kept
<1>1. /\ close' = close /\ burst' = FALSE /\ task[r].drv = "replay"
      /\ bridge \in BridgeState
  BY DEF DriveFlushes, IInv, TypeOK
<1>2. /\ Cur(bridge).thread /\ task[bridge.operation].drv # "start"
      /\ bridge.session # None /\ Cur(bridge) \in Session
      /\ \A q \in Requests : task[q].drv = "replay" => q = r
  BY <1>1, ReplayFacts, CurType
<1>3. PICK step \in {"failed", "done"} : Moves(r, step)
  BY DEF DriveFlushes
<1>4. CASE bridge' = bridge
  BY <1>1, <1>2, <1>3, <1>4, SameHandler, MovesFlight DEF IInv
<1>5. CASE CanFlush(bridge) /\ bridge' = Offer(bridge)
  <2> DEFINE p == Cur(bridge).pending
  <2>1. /\ Works(bridge, bridge') /\ Completes(bridge, bridge', Head(p))
        /\ Cur(bridge') = [Cur(bridge) EXCEPT !.waiting = Head(p),
                             !.pending = Tail(p), !.last = bridge.operation]
    BY <1>1, <1>5, OfferEffect
  <2>2. Cur(bridge').thread = Cur(bridge).thread
    BY <1>2, <2>1 DEF Session
  <2>3. HandlerStep
    BY <1>2, <2>1, <2>2, CompletesHandler
  <2>. QED BY <1>1, <1>2, <1>3, <2>3, MovesFlight
<1>6. CASE CanFlush(bridge) /\ bridge' = Take(bridge)
  <2> DEFINE p == Cur(bridge).pending
  <2>1. /\ Works(bridge, bridge') /\ bridge'.op = bridge.op
        /\ Cur(bridge') = [Cur(bridge) EXCEPT !.waiting = Head(p),
                             !.pending = Tail(p)]
    BY <1>1, <1>6, TakeEffect
  <2>2. Cur(bridge').thread = Cur(bridge).thread
    BY <1>2, <2>1 DEF Session
  <2>3. HandlerStep
    BY <1>2, <2>1, <2>2, WorksHandler
  <2>. QED BY <1>1, <1>2, <1>3, <2>3, MovesFlight
<1>. QED BY <1>4, <1>5, <1>6 DEF DriveFlushes, Flush

\* A thread that comes too late belongs to no current session.
LEMMA ThreadLateFlight ==
  ASSUME IInv, IInv', Flight, NEW r \in Requests, ThreadTooLate(r) PROVE Flight' /\ Kept
<1>1. /\ close' = close /\ burst' = FALSE /\ ~Current(r) /\ Moves(r, "done")
      /\ \A q \in Requests : task[q].drv # "replay"
      /\ task[r].session \in Opened
  BY DEF ThreadTooLate, Resolved, Micro, IInv, CallInv, OpenedFirst
<1>2. CASE bridge' = bridge
  BY <1>1, <1>2, SameHandler, MovesFlight DEF IInv
<1>3. CASE bridge' = [bridge EXCEPT !.unsubscribed = @ \cup {task[r].session}]
  <2>1. /\ bridge'.busy = bridge.busy /\ bridge'.closed = bridge.closed
        /\ bridge'.operation = bridge.operation /\ bridge'.session = bridge.session
        /\ bridge'.rpc = bridge.rpc /\ bridge'.ttl = bridge.ttl
        /\ bridge'.op = bridge.op /\ bridge'.sess = bridge.sess
        /\ bridge'.rel = bridge.rel
        /\ bridge'.unsubscribed = bridge.unsubscribed \cup {task[r].session}
    BY <1>3 DEF IInv, TypeOK, BridgeState
  <2>2. HandlerStep
    BY <1>1, <2>1 DEF HandlerStep, Open, Flight, OneFlight, Idle, Current
  <2>. QED BY <1>1, <2>2, MovesFlight
<1>. QED BY <1>2, <1>3 DEF ThreadTooLate

\* A thread that comes in time is the session's, and the bridge is not closed.
LEMMA ThreadFlight ==
  ASSUME IInv, IInv', Flight, NEW r \in Requests, ThreadArrives(r) PROVE Flight' /\ Kept
<1> DEFINE s == [Cur(bridge) EXCEPT !.thread = TRUE]
<1>1. /\ close' = close /\ burst' = FALSE /\ Current(r)
      /\ task[r].drv = "thread" /\ task[r].reply \in {"ok", "badModel"}
      /\ \A q \in Requests : task[q].drv # "replay"
      /\ task \in [Requests -> Task] /\ bridge \in BridgeState
  BY DEF ThreadArrives, Resolved, Micro, IInv, TypeOK
<1>2. /\ bridge.operation = r /\ Open(bridge) /\ bridge.session # None
      /\ task[r].prev = None
  BY <1>1 DEF Flight, DriveOK, OneFlight
<1>3. ~bridge.closed /\ task[r].tool = None
  BY <1>1, <1>2 DEF Flight, ClosedOK, ThreadOK
<1>4. Cur(bridge) \in Session
  BY <1>1, <1>2, CurType
<1>5. s \in Session /\ s.thread = TRUE
  BY <1>4 DEF Session
<1>6. bridge' = [bridge EXCEPT !.sess[bridge.session] = s]
  BY DEF ThreadArrives, Cur
<1> HIDE DEF s
<1>7. Works(bridge, bridge') /\ Cur(bridge') = s /\ bridge'.op = bridge.op
  BY <1>1, <1>2, <1>5, <1>6, CurEffect
<1>8. PICK step \in {"turn", "failed"} : /\ task'[r].drv = step
                                         /\ task'[r].tool = None
  BY <1>1, <1>3 DEF ThreadArrives, StartsTurn, Asks, Moves, Task
<1>9. HandlerStep
  <2>1. bridge.session \in Requests /\ bridge.sess[bridge.session] = Cur(bridge)
    BY <1>1, <1>2, CurType DEF Cur
  <2>2. Open(bridge')
    BY <1>2, <1>7 DEF Works, Open
  <2>3. \A x \in Requests :
          /\ bridge.sess[x].thread => bridge'.sess[x].thread
          /\ bridge'.sess[x].thread => bridge.sess[x].thread \/ x = bridge.session
    BY <1>5, <1>7, <2>1 DEF Works, Cur
  <2>4. task'[bridge.operation].drv # "thread"
    BY <1>2, <1>8
  <2>. QED BY <1>2, <1>3, <1>7, <2>2, <2>3, <2>4 DEF HandlerStep, Works
<1>10. DriveOK(r)'
  BY <1>1, <1>8 DEF DriveOK
<1>11. CASE Moves(r, "failed")
  BY <1>1, <1>9, <1>11, MovesFlight
<1>12. CASE Asks(r, "turn")
  BY <1>1, <1>9, <1>10, <1>12, AsksFlight
<1>. QED BY <1>11, <1>12 DEF ThreadArrives, StartsTurn

\* A turn that comes too late is interrupted.
LEMMA TurnLateFlight ==
  ASSUME IInv, IInv', Flight, NEW r \in Requests, TurnTooLate(r) PROVE Flight' /\ Kept
<1>1. /\ close' = close /\ burst' = FALSE /\ Moves(r, "done")
      /\ \A q \in Requests : task[q].drv # "replay"
  BY DEF TurnTooLate, Resolved, Micro
<1>2. \/ bridge' = bridge
      \/ bridge' = [bridge EXCEPT !.interrupted = @ \cup {r}]
  BY DEF TurnTooLate
<1>3. /\ bridge'.busy = bridge.busy /\ bridge'.closed = bridge.closed
      /\ bridge'.operation = bridge.operation /\ bridge'.session = bridge.session
      /\ bridge'.rpc = bridge.rpc /\ bridge'.ttl = bridge.ttl
      /\ bridge'.op = bridge.op /\ bridge'.sess = bridge.sess
      /\ bridge'.rel = bridge.rel /\ bridge'.unsubscribed = bridge.unsubscribed
  BY <1>2 DEF IInv, TypeOK, BridgeState
<1>4. HandlerStep
  BY <1>3, SameHandler DEF IInv
<1>. QED BY <1>1, <1>4, MovesFlight

\* A turn that comes in time is recorded.
LEMMA TurnFlight ==
  ASSUME IInv, IInv', Flight, NEW r \in Requests, TurnArrives(r) PROVE Flight' /\ Kept
<1> DEFINE s == [Cur(bridge) EXCEPT !.turnId = r]
<1>1. /\ close' = close /\ burst' = FALSE /\ Moves(r, "done") /\ Current(r)
      /\ \A q \in Requests : task[q].drv # "replay"
      /\ bridge \in BridgeState /\ task[r].drv # "none"
  BY DEF TurnArrives, Resolved, Micro, IInv, TypeOK
<1>2. CASE bridge' = bridge
  BY <1>1, <1>2, SameHandler, MovesFlight DEF IInv
<1>3. CASE bridge' = [bridge EXCEPT !.sess[bridge.session].turnId = r]
  <2>1. bridge.session # None
    BY <1>1, DrivenOpened DEF Current
  <2>2. Cur(bridge) \in Session
    BY <1>1, <2>1, CurType
  <2>3. s \in Session /\ s.thread = Cur(bridge).thread
    BY <2>2 DEF Session, OptRequest
  <2>4. bridge' = [bridge EXCEPT !.sess[bridge.session] = s]
    BY <1>3 DEF Cur
  <2> HIDE DEF s
  <2>5. HandlerStep
    BY <1>1, <2>1, <2>3, <2>4, CurEffect, WorksHandler
  <2>. QED BY <1>1, <2>5, MovesFlight
<1>. QED BY <1>2, <1>3 DEF TurnArrives

\* A rejected RPC moves its drive only.
LEMMA RefusedFlight ==
  ASSUME IInv, IInv', Flight, NEW r \in Requests, DriveRefused(r) PROVE Flight' /\ Kept
<1>1. /\ close' = close /\ burst' = FALSE /\ bridge' = bridge
      /\ \A q \in Requests : task[q].drv # "replay"
  BY DEF DriveRefused, Resolved, Micro
<1>2. PICK step \in {"failed", "done"} : Moves(r, step)
  BY DEF DriveRefused
<1>3. HandlerStep
  BY <1>1, SameHandler DEF IInv
<1>. QED BY <1>1, <1>2, <1>3, MovesFlight

\* A failed drive fails its operation.
LEMMA CatchesFlight ==
  ASSUME IInv, IInv', Flight, NEW r \in Requests, DriveCatches(r) PROVE Flight' /\ Kept
<1>1. /\ close' = close /\ burst' = FALSE /\ Moves(r, "done")
      /\ \A q \in Requests : task[q].drv # "replay"
      /\ bridge \in BridgeState
  BY DEF DriveCatches, Micro, IInv, TypeOK
<1>2. CASE bridge' = bridge
  BY <1>1, <1>2, SameHandler, MovesFlight DEF IInv
<1>3. CASE bridge' = Fail(bridge, "failed")
  <2>1. Fails(bridge, bridge', Cur(bridge).turnId)
    BY <1>1, <1>3, FailEffect DEF Outcomes
  <2>2. HandlerStep
    BY <2>1, FailsHandler DEF IInv, CallInv
  <2>. QED BY <1>1, <2>2, MovesFlight
<1>. QED BY <1>2, <1>3 DEF DriveCatches

\* The request timer of the rpc layer answers with an error.
LEMMA RpcTimeoutFlight ==
  ASSUME IInv, IInv', Flight, NEW r \in Requests, RpcTimeout(r) PROVE Flight' /\ Kept
<1> DEFINE late == task[r].drv = "turn"
           v == [task[r] EXCEPT !.reply = "error", !.late = late]
<1>1. /\ Macro /\ burst' = FALSE /\ bridge' = bridge /\ close' = close
      /\ task \in [Requests -> Task] /\ task[r] \in Task /\ late \in BOOLEAN
      /\ \A q \in Requests : task[q].drv # "replay"
  BY MacroQuiet DEF RpcTimeout, Macro, IInv, TypeOK
<1>2. task' = [task EXCEPT ![r] = v]
  BY DEF RpcTimeout
<1> HIDE DEF late
<1>3. /\ v \in Task /\ v.pc = task[r].pc /\ v.session = task[r].session
      /\ v.tool = task[r].tool /\ v.prev = task[r].prev /\ v.turn = task[r].turn
      /\ v.drv = task[r].drv /\ v.reply = "error"
  BY <1>1 DEF Task
<1> HIDE DEF v
<1>4. HandlerStep
  BY <1>1, SameHandler DEF IInv
<1>5. DriveOK(r)'
  <2>1. DriveOK(r)
    BY DEF Flight
  <2>2. task'[r] = v
    BY <1>1, <1>2
  <2>. QED BY <1>1, <1>3, <2>1, <2>2 DEF DriveOK, Current
<1>. QED BY <1>1, <1>2, <1>3, <1>4, <1>5, DriveFlight

-----------------------------------------------------------------------------
(* respond() *)

\* While the bridge is not busy no operation exists.
LEMMA IdleNoOperation ==
  ASSUME TypeOK, Flight, ~bridge.busy
  PROVE  /\ Running = {} /\ bridge.operation = None /\ ~Open(bridge)
         /\ \A q \in Requests :
              task[q].drv \in {"start", "thread"} => ~Current(q)
BY DEF TypeOK, BridgeState, OptRequest, Flight, OneFlight, Running, Open, DriveOK

\* The old session goes before the new one comes.
LEMMA NewFlight ==
  ASSUME IInv, IInv', Flight, NEW r \in Requests, RespondNew(r) PROVE Flight' /\ Kept
<1> DEFINE b == [bridge EXCEPT !.busy = TRUE]
           v == [task[r] EXCEPT !.pc = "releasing", !.turn = r,
                                !.session = bridge.session]
<1>1. /\ bridge \in BridgeState /\ task \in [Requests -> Task] /\ task[r] \in Task
      /\ TypeOK /\ OpenedFirst
  BY DEF IInv, TypeOK, CallInv
<1>2. /\ task[r].pc = "unsent" /\ ~bridge.closed /\ ~bridge.busy /\ Macro
      /\ bridge' = Release(b) /\ task' = [task EXCEPT ![r] = v] /\ close' = close
  BY DEF RespondNew, Arrives
<1>3. /\ b \in BridgeState /\ b.busy = TRUE /\ b.session = bridge.session
      /\ b.closed = bridge.closed /\ b.operation = bridge.operation
      /\ b.rpc = bridge.rpc /\ b.op = bridge.op /\ b.rel = bridge.rel
      /\ b.unsubscribed = bridge.unsubscribed
  BY <1>1 DEF BridgeState
<1> HIDE DEF b
<1>4. /\ bridge'.session = None /\ ~bridge'.ttl /\ bridge'.busy
      /\ bridge'.operation = bridge.operation /\ bridge'.closed = bridge.closed
      /\ bridge'.rpc = bridge.rpc /\ bridge'.op = bridge.op
      /\ \A x \in Requests : x # bridge.session =>
           /\ bridge'.rel[x] = bridge.rel[x]
           /\ x \in bridge'.unsubscribed => x \in bridge.unsubscribed
  BY <1>2, <1>3, ReleaseEffect DEF Dropped
<1>5. /\ v.pc = "releasing" /\ v.turn = r /\ v.drv = task[r].drv
      /\ v.tool = task[r].tool /\ v.prev = task[r].prev
  BY <1>1 DEF Task
<1> HIDE DEF v
<1>6. /\ task'[r] = v /\ \A q \in Requests : q # r => task'[q] = task[q]
      /\ Opened' = Opened /\ r \notin Opened
  BY <1>1, <1>2, <1>5 DEF Opened
<1>7. /\ Running = {} /\ bridge.operation = None /\ ~Open(bridge)
      /\ \A q \in Requests : task[q].drv \in {"start", "thread"} => ~Current(q)
  BY <1>1, <1>2, IdleNoOperation
<1>8. Running' = {r}
  BY <1>5, <1>6, <1>7 DEF Running
<1>9. OneFlight'
  BY <1>4, <1>5, <1>6, <1>7, <1>8, NoneAssumption
     DEF Flight, OneFlight, Open, Idle
<1>10. bridge.session \in Opened \cup {None}
  BY <1>1 DEF OpenedFirst
<1>11. Fresh'
  BY <1>4, <1>5, <1>6, <1>10, NoneAssumption DEF Flight, Fresh, Opened
<1>12. /\ \A q \in Requests : task[q].drv # "none" => q \in Opened
       /\ \A q \in Opened : task[q].session # None
  BY <1>1, NoneAssumption DEF OpenedFirst, Opened
<1>13. ASSUME NEW q \in Requests PROVE DriveOK(q)'
  <2>1. CASE q = r
    <3>1. task'[q].drv = "none"
      BY <1>5, <1>6, <1>12, <2>1
    <3>. QED BY <3>1, <1>2, MacroQuiet, <1>1 DEF DriveOK, Ready
  <2>2. CASE q # r
    <3>1. task'[q] = task[q] /\ task[q].drv # "replay" /\ ~burst'
      BY <1>1, <1>2, <1>6, <2>2, MacroQuiet
    <3>2. task[q].drv # "none" => ~Current(q)'
      BY <1>4, <1>12, <3>1 DEF Current
    <3>. QED BY <3>1, <3>2 DEF DriveOK, Flight
  <2>. QED BY <2>1, <2>2
<1>14. ThreadOK'
  BY <1>4, <1>5, <1>6, <1>12, NoneAssumption DEF ThreadOK, Flight, Current
<1>15. ClosedOK'
  BY <1>2, <1>4 DEF Flight, ClosedOK
<1>16. Kept
  BY <1>4, <1>6 DEF Kept, Opened
<1>. QED BY <1>9, <1>11, <1>13, <1>14, <1>15, <1>16 DEF Flight

\* The task of r has become body, awaiting its operation.
Begun(r, body, step) ==
    task' = [task EXCEPT ![r] = [body EXCEPT !.pc = "awaiting", !.drv = step]]

\* The operation of r has been opened, or has failed at once.
Starts(b) ==
    /\ bridge'.session = b.session /\ bridge'.sess = b.sess
    /\ Open(bridge') /\ bridge'.op = b.op /\ bridge'.ttl = b.ttl
    /\ bridge'.rel = b.rel /\ bridge'.unsubscribed = b.unsubscribed
    /\ bridge'.interrupted = b.interrupted /\ bridge'.answers = b.answers

StartFails(r, b) ==
    /\ bridge'.session = None /\ ~bridge'.ttl /\ ~Open(bridge')
    /\ \A x \in Requests :
         /\ bridge'.sess[x].thread = b.sess[x].thread
         /\ x # r => bridge'.op[x] = b.op[x]
         /\ x # b.session =>
              /\ bridge'.rel[x] = b.rel[x]
              /\ x \in bridge'.unsubscribed => x \in b.unsubscribed
    /\ bridge'.answers = Answer(b, Held(Cur(b)), "cancelled", None)
    /\ IF Cur(b).thread /\ b.rpc = "up" /\ Cur(b).turnId # None
       THEN bridge'.interrupted = b.interrupted \cup {Cur(b).turnId}
       ELSE bridge'.interrupted = b.interrupted

\* Begin opens the operation of r, or fails it at once.
LEMMA BeginEffect ==
  ASSUME NEW r \in Requests, NEW b \in BridgeState, NEW body, Begin(r, b, body),
         b.session # None, b.op[r] = [offered |-> None, outcome |-> "none"]
  PROVE  /\ bridge' \in BridgeState
         /\ bridge'.operation = r /\ bridge'.busy = b.busy
         /\ bridge'.closed = b.closed /\ bridge'.rpc = b.rpc
         /\ bridge'.heard = b.heard
         /\ \/ Begun(r, body, "start") /\ Starts(b)
            \/ Begun(r, body, "done") /\ StartFails(r, b)
<1> DEFINE o == [b EXCEPT !.operation = r]
<1>1. /\ o \in BridgeState /\ o.operation = r
      /\ o.session = b.session /\ o.sess = b.sess /\ o.busy = b.busy
      /\ o.closed = b.closed /\ o.rpc = b.rpc /\ o.op = b.op /\ o.ttl = b.ttl
      /\ o.rel = b.rel /\ o.unsubscribed = b.unsubscribed
      /\ o.interrupted = b.interrupted /\ o.answers = b.answers
      /\ o.heard = b.heard
  BY DEF BridgeState, OptRequest
<1>2. Open(o) /\ Cur(o) = Cur(b)
  BY <1>1, NoneAssumption DEF Open, Cur
<1>3. \/ bridge' = o /\ Begun(r, body, "start")
      \/ bridge' = Fail(o, "failed") /\ Begun(r, body, "done")
  BY DEF Begin, Begun
<1> HIDE DEF o
<1>4. CASE bridge' = o /\ Begun(r, body, "start")
  BY <1>1, <1>2, <1>4 DEF Starts
<1>5. CASE bridge' = Fail(o, "failed") /\ Begun(r, body, "done")
  <2>1. Fails(o, bridge', Cur(b).turnId)
    BY <1>1, <1>2, <1>5, FailEffect DEF Outcomes
  <2>2. Answer(o, Held(Cur(o)), "cancelled", None)
          = Answer(b, Held(Cur(b)), "cancelled", None)
    BY <1>1, <1>2 DEF Answer
  <2>. QED BY <1>1, <1>2, <1>5, <2>1, <2>2 DEF Fails, Dropped, Settles, StartFails
<1>. QED BY <1>3, <1>4, <1>5

\* Opening the operation of the only request in progress, on the session that
\* it has made or continues.
LEMMA BegunFlight ==
  ASSUME IInv, IInv', Flight, NEW r \in Requests \ Opened, NEW b \in BridgeState,
         NEW body \in Task, Begin(r, b, body), burst' = FALSE,
         b.session = r \/ (b.session \in Opened /\ b.session = bridge.session),
         body.session = b.session, body.tool # None => body.prev # None,
         body.prev # None => Cur(b).thread,
         b.op = bridge.op, b.rpc = bridge.rpc, b.closed = bridge.closed,
         b.busy, ~b.ttl, b.rel = bridge.rel, b.unsubscribed = bridge.unsubscribed,
         \A x \in Opened : b.sess[x] = bridge.sess[x],
         Running \subseteq {r},
         bridge.closed => ~Cur(b).thread /\ task[r].pc = "releasing",
         \A q \in Opened : task[q].drv # "replay" /\
           (task[q].drv \in {"start", "thread"} => task[q].session # b.session)
  PROVE  Flight' /\ Kept
<1>1. /\ task \in [Requests -> Task] /\ OpenedFirst /\ bridge \in BridgeState
      /\ close' = close /\ r \notin Opened /\ r # None
  BY NoneAssumption DEF IInv, TypeOK, CallInv, Begin
<1>2. bridge.op[r] = [offered |-> None, outcome |-> "none"] /\ bridge.rel[r] = "none"
      /\ r \notin bridge.unsubscribed
  BY DEF Flight, Fresh
<1> DEFINE done == bridge'.session = None
<1>3. PICK step \in {"start", "done"} :
        /\ Begun(r, body, step)
        /\ bridge'.operation = r /\ bridge'.busy /\ bridge'.closed = bridge.closed
        /\ bridge'.rpc = bridge.rpc /\ ~bridge'.ttl
        /\ IF step = "start"
           THEN /\ Open(bridge') /\ bridge'.session = b.session
                /\ bridge'.sess = b.sess /\ bridge'.op = b.op
                /\ bridge'.rel = bridge.rel
                /\ bridge'.unsubscribed = bridge.unsubscribed
           ELSE /\ ~Open(bridge') /\ bridge'.session = None
                /\ \A q \in Requests : q # r => bridge'.op[q] = bridge.op[q]
                /\ \A q \in Requests : q # b.session =>
                     /\ bridge'.rel[q] = bridge.rel[q]
                     /\ q \in bridge'.unsubscribed => q \in bridge.unsubscribed
  <2>1. b.op[r] = [offered |-> None, outcome |-> "none"] /\ b.session # None
    BY <1>1, <1>2, NoneAssumption DEF Opened
  <2>2. /\ bridge'.operation = r /\ bridge'.busy = b.busy
        /\ bridge'.closed = b.closed /\ bridge'.rpc = b.rpc
        /\ \/ Begun(r, body, "start") /\ Starts(b)
           \/ Begun(r, body, "done") /\ StartFails(r, b)
    BY <2>1, BeginEffect
  <2>3. bridge'.busy
    BY <2>2
  <2> DEFINE P(step) ==
        /\ Begun(r, body, step)
        /\ bridge'.operation = r /\ bridge'.busy /\ bridge'.closed = bridge.closed
        /\ bridge'.rpc = bridge.rpc /\ ~bridge'.ttl
        /\ IF step = "start"
           THEN /\ Open(bridge') /\ bridge'.session = b.session
                /\ bridge'.sess = b.sess /\ bridge'.op = b.op
                /\ bridge'.rel = bridge.rel
                /\ bridge'.unsubscribed = bridge.unsubscribed
           ELSE /\ ~Open(bridge') /\ bridge'.session = None
                /\ \A q \in Requests : q # r => bridge'.op[q] = bridge.op[q]
                /\ \A q \in Requests : q # b.session =>
                     /\ bridge'.rel[q] = bridge.rel[q]
                     /\ q \in bridge'.unsubscribed => q \in bridge.unsubscribed
  <2>4. CASE Begun(r, body, "start") /\ Starts(b)
    <3>1. ~bridge'.ttl
      BY <2>4 DEF Starts
    <3>2. P("start")
      BY <2>2, <2>3, <2>4, <3>1 DEF Starts
    <3>. QED BY <3>2
  <2>5. CASE Begun(r, body, "done") /\ StartFails(r, b)
    <3>1. P("done")
      BY <2>2, <2>3, <2>5 DEF StartFails
    <3>. QED BY <3>1
  <2>. QED BY <2>2, <2>4, <2>5
<1>4. /\ task'[r].pc = "awaiting" /\ task'[r].drv = step
      /\ task'[r].session = b.session /\ task'[r].tool = body.tool
      /\ task'[r].prev = body.prev
      /\ \A q \in Requests : q # r => task'[q] = task[q]
  BY <1>1, <1>3 DEF Begun, Task
<1>5. Running' = {r} /\ Opened' = Opened \cup {r}
  BY <1>4 DEF Running, Opened
<1>6. OneFlight'
  <2>1. \A q \in Requests : task'[q].pc = "awaiting" => q = r
    BY <1>5 DEF Running
  <2>2. b.session # None
    BY <1>1, NoneAssumption DEF Opened
  <2>. QED BY <1>3, <1>4, <1>5, <2>1, <2>2 DEF OneFlight, Idle
<1>7. b.session \in Opened' /\ b.session \in Requests
  BY <1>5 DEF Opened
<1>8. Fresh'
  <2>1. ASSUME NEW q \in Requests \ Opened'
        PROVE  /\ bridge'.op[q] = [offered |-> None, outcome |-> "none"]
               /\ bridge'.rel[q] = "none" /\ q \notin bridge'.unsubscribed
               /\ task'[q].tool = None /\ task'[q].prev = None
               /\ task'[q].pc # "releasing"
    <3>1. q # r /\ q \notin Opened /\ q # b.session /\ task'[q] = task[q]
      BY <1>4, <1>5, <1>7
    <3>2. task[q].pc # "releasing"
      BY <3>1 DEF Running
    <3>. QED BY <1>3, <3>1, <3>2 DEF Flight, Fresh
  <2>2. ASSUME NEW q \in Requests, bridge'.session # None,
               bridge'.rel[q] # "none" \/ q \in bridge'.unsubscribed
        PROVE  q # bridge'.session
    <3>1. bridge.rel[q] # "none" \/ q \in bridge.unsubscribed
      BY <1>3, <2>2
    <3>. QED BY <1>2, <1>3, <2>2, <3>1 DEF Flight, Fresh
  <2>3. \A q \in Requests : q # None
    BY NoneAssumption
  <2>. QED BY <2>1, <2>2, <2>3 DEF Fresh
<1>9. ASSUME NEW q \in Requests PROVE DriveOK(q)'
  <2>1. CASE q = r
    BY <1>3, <1>4, <2>1 DEF DriveOK
  <2>2. CASE q # r
    <3>1. /\ task'[q] = task[q]
          /\ task[q].drv # "none" => q \in Opened /\ task[q].session # None
      BY <1>1, <1>4, <2>2, NoneAssumption DEF OpenedFirst, Opened
    <3>2. task[q].drv \in {"start", "thread"} => ~Current(q)'
      BY <1>3, <3>1 DEF Current
    <3>. QED BY <3>1, <3>2 DEF DriveOK, Flight
  <2>. QED BY <2>1, <2>2
<1>10. ThreadOK'
  <2>1. ASSUME NEW q \in Requests
        PROVE  /\ task'[q].tool # None => task'[q].prev # None
               /\ q \in Opened' /\ task'[q].prev # None /\ Current(q)' =>
                    Cur(bridge').thread
    <3>1. CASE q = r
      <4>1. bridge'.session = b.session => step = "start"
        BY <1>3, <1>7, NoneAssumption
      <4>. QED BY <1>3, <1>4, <3>1, <4>1 DEF Current, Cur
    <3>2. CASE q # r
      <4>1. task'[q] = task[q]
        BY <1>4, <3>2
      <4>2. ASSUME q \in Opened, task[q].prev # None, Current(q)'
            PROVE  Cur(bridge').thread
        <5>1. task[q].session \in Opened /\ task[q].session # None
              /\ bridge'.session = task[q].session
          BY <1>1, <4>1, <4>2, NoneAssumption DEF OpenedFirst, Opened, Current
        <5>2. step = "start" /\ b.session = bridge.session /\ b.session \in Opened
          BY <1>1, <1>3, <5>1
        <5>3. Cur(bridge).thread
          BY <1>3, <4>2, <5>1, <5>2 DEF Flight, ThreadOK, Current
        <5>. QED BY <1>3, <5>2, <5>3 DEF Cur
      <4>. QED BY <1>5, <3>2, <4>1, <4>2 DEF Flight, ThreadOK
    <3>. QED BY <3>1, <3>2
  <2>. QED BY <1>3, <2>1 DEF ThreadOK, Cur
<1>11. ClosedOK'
  <2>1. bridge.closed => r \in Running
    BY DEF Running
  <2>. QED BY <1>1, <1>3, <1>4, <2>1 DEF Flight, ClosedOK, Cur
<1>12. Kept
  <2>1. \A q \in Opened : q \in Requests /\ q # r /\ task'[q] = task[q]
    BY <1>1, <1>4 DEF Opened
  <2>2. \A q \in Requests : q # r => bridge'.op[q] = bridge.op[q]
    BY <1>3
  <2>3. bridge.op[r].outcome = "none"
    BY <1>2
  <2>. QED BY <2>1, <2>2, <2>3 DEF Kept, Opened
<1>. QED BY <1>6, <1>8, <1>9, <1>10, <1>11, <1>12 DEF Flight

\* The request whose release is over opens its session.
LEMMA OpensFlight ==
  ASSUME IInv, IInv', Flight, NEW r \in Requests, RespondOpens(r) PROVE Flight' /\ Kept
<1> DEFINE b == [bridge EXCEPT !.session = r, !.sess[r] = NewSession]
           body == [task[r] EXCEPT !.session = r]
<1>1. /\ bridge \in BridgeState /\ task[r] \in Task /\ OpenedFirst /\ TypeOK
      /\ task[r].pc = "releasing" /\ r \in Running /\ r \notin Opened
      /\ burst' = FALSE /\ \A q \in Requests : task[q].drv # "replay"
      /\ Begin(r, b, body)
  BY DEF IInv, TypeOK, CallInv, RespondOpens, Micro, Running, Opened
<1>2. /\ b \in BridgeState /\ b.session = r /\ Cur(b) = NewSession
      /\ b.op = bridge.op /\ b.rpc = bridge.rpc /\ b.closed = bridge.closed
      /\ b.busy = bridge.busy /\ b.ttl = bridge.ttl /\ b.rel = bridge.rel
      /\ b.unsubscribed = bridge.unsubscribed
      /\ \A x \in Requests \ {r} : b.sess[x] = bridge.sess[x]
  BY <1>1, NewSessionType DEF BridgeState, OptRequest, Cur
<1>3. /\ body \in Task /\ body.session = r /\ body.tool = task[r].tool
      /\ body.prev = task[r].prev
  BY <1>1 DEF Task, OptRequest
<1> HIDE DEF b, body
<1>4. /\ task[r].prev = None /\ task[r].tool = None /\ bridge.session = None
      /\ ~NewSession.thread
  BY <1>1 DEF Flight, Fresh, NewSession
<1>5. bridge.busy /\ ~bridge.ttl /\ Running \subseteq {r}
  BY <1>1, <1>4 DEF Flight, OneFlight, Idle
<1>6. \A q \in Opened : task[q].session # r
  BY <1>1 DEF OpenedFirst
<1>7. r \in Requests \ Opened /\ \A x \in Opened : x \in Requests \ {r}
  BY <1>1 DEF Opened
<1>8. \A x \in Opened : b.sess[x] = bridge.sess[x]
  BY <1>2, <1>7
<1>9. \A q \in Opened : task[q].drv # "replay" /\ task[q].session # b.session
  BY <1>1, <1>2, <1>6, <1>7
<1>10. ~Cur(b).thread
  BY <1>2, <1>4
<1>11. b.busy /\ ~b.ttl /\ body.session = b.session /\ body.prev = None
       /\ body.tool = None
  BY <1>2, <1>3, <1>4, <1>5
<1>12. bridge.closed => ~Cur(b).thread /\ task[r].pc = "releasing"
  BY <1>1, <1>10
<1>13. /\ body.tool # None => body.prev # None
       /\ body.prev # None => Cur(b).thread
       /\ b.session = r \/ (b.session \in Opened /\ b.session = bridge.session)
  BY <1>2, <1>11
<1>14. \A q \in Opened : task[q].drv # "replay" /\
         (task[q].drv \in {"start", "thread"} => task[q].session # b.session)
  BY <1>9
<1>15. b.busy /\ ~b.ttl /\ body.session = b.session
  BY <1>11
<1>. QED BY <1>1, <1>2, <1>3, <1>5, <1>7, <1>8, <1>12, <1>13, <1>14, <1>15,
            BegunFlight

\* A request that continues an idle session finds its thread.
LEMMA ContinueFlight ==
  ASSUME IInv, IInv', Flight, NEW r \in Requests, NEW prev \in OptRequest,
         NEW tool \in OptCall, RespondContinue(r, prev, tool)
  PROVE  Flight' /\ Kept
<1> DEFINE b == [bridge EXCEPT !.busy = TRUE, !.ttl = FALSE]
           turn == IF tool = None THEN r ELSE task[prev].turn
           body == [task[r] EXCEPT !.session = bridge.session, !.prev = prev,
                                   !.tool = tool, !.turn = turn]
<1>1. /\ bridge \in BridgeState /\ task[r] \in Task /\ OpenedFirst /\ TypeOK
      /\ task[r].pc = "unsent" /\ r \notin Opened /\ ~bridge.closed /\ ~bridge.busy
      /\ prev # None /\ bridge.session # None /\ Macro
      /\ Begin(r, b, body) /\ task \in [Requests -> Task]
  BY DEF IInv, TypeOK, CallInv, RespondContinue, ContinuationOk, Arrives, Opened
<1>2. burst' = FALSE /\ \A q \in Requests : task[q].drv # "replay"
  BY <1>1, MacroQuiet DEF Macro
<1>3. /\ b \in BridgeState /\ b.session = bridge.session /\ b.sess = bridge.sess
      /\ b.op = bridge.op /\ b.rpc = bridge.rpc /\ b.closed = bridge.closed
      /\ b.busy /\ ~b.ttl /\ b.rel = bridge.rel
      /\ b.unsubscribed = bridge.unsubscribed
  BY <1>1 DEF BridgeState
<1>4. turn \in OptRequest /\ prev \in Requests
  BY <1>1 DEF Task, OptRequest
<1>5. /\ body \in Task /\ body.session = bridge.session /\ body.tool = tool
      /\ body.prev = prev
  <2> HIDE DEF turn
  <2>. QED BY <1>1, <1>4 DEF Task, OptRequest, BridgeState
<1> HIDE DEF b, body, turn
<1>6. /\ Running = {} /\ ~Open(bridge)
      /\ \A q \in Requests : task[q].drv \in {"start", "thread"} => ~Current(q)
  BY <1>1, IdleNoOperation
<1>7. bridge.session \in Opened /\ Cur(b).thread
  <2>1. Cur(bridge).thread
    BY <1>1, <1>6 DEF Flight, ThreadOK
  <2>. QED BY <1>1, <1>3, <2>1 DEF OpenedFirst, Cur
<1>8. \A q \in Opened : /\ q \in Requests
                        /\ task[q].drv \in {"start", "thread"} =>
                             task[q].session # bridge.session
  BY <1>6 DEF Current, Opened
<1>. QED BY <1>1, <1>2, <1>3, <1>5, <1>6, <1>7, <1>8, BegunFlight

\* The session of a request that is over is idle.
LEMMA ReturnsFlight ==
  ASSUME IInv, IInv', Flight, NEW r \in Requests, RespondReturns(r) PROVE Flight' /\ Kept
<1> DEFINE ttl == (bridge.session # None) \/ bridge.ttl
           v == [task[r] EXCEPT !.pc = "done", !.gone = FALSE]
<1>1. /\ bridge \in BridgeState /\ task \in [Requests -> Task] /\ task[r] \in Task
      /\ OpenedFirst /\ task[r].pc = "awaiting" /\ bridge.op[r].outcome # "none"
      /\ burst' = FALSE /\ \A q \in Requests : task[q].drv # "replay"
      /\ close' = close /\ task' = [task EXCEPT ![r] = v]
      /\ bridge' = [bridge EXCEPT !.busy = FALSE, !.operation = None, !.ttl = ttl]
  BY DEF IInv, TypeOK, CallInv, RespondReturns, Micro
<1>2. /\ bridge'.busy = FALSE /\ bridge'.operation = None /\ bridge'.ttl = ttl
      /\ bridge'.session = bridge.session /\ bridge'.sess = bridge.sess
      /\ bridge'.closed = bridge.closed /\ bridge'.rpc = bridge.rpc
      /\ bridge'.op = bridge.op /\ bridge'.rel = bridge.rel
      /\ bridge'.unsubscribed = bridge.unsubscribed
  BY <1>1 DEF BridgeState
<1>3. /\ v.pc = "done" /\ v.drv = task[r].drv /\ v.session = task[r].session
      /\ v.tool = task[r].tool /\ v.prev = task[r].prev /\ v.turn = task[r].turn
  BY <1>1 DEF Task
<1> HIDE DEF v
<1>4. task'[r] = v /\ \A q \in Requests : q # r => task'[q] = task[q]
  BY <1>1
<1>5. bridge.operation = r /\ ~Open(bridge) /\ r \in Running
  BY <1>1, NoneAssumption DEF Flight, OneFlight, Open, Running
<1>6. Running = {r} /\ Running' = {} /\ Opened' = Opened
  BY <1>1, <1>3, <1>4, <1>5 DEF Flight, OneFlight, Running, Opened
<1>7. ~Open(bridge') /\ ~bridge.ttl
  BY <1>2, <1>5, <1>6 DEF Open, Flight, OneFlight, Idle
<1>8. OneFlight'
  <2>1. \A q \in Requests : task'[q].pc # "awaiting"
    BY <1>6 DEF Running
  <2>. QED BY <1>2, <1>6, <1>7, <2>1 DEF OneFlight, Idle
<1>9. Fresh'
  <2>1. \A q \in Requests \ Opened : task'[q] = task[q]
    BY <1>1, <1>4 DEF Opened
  <2>. QED BY <1>2, <1>6, <2>1 DEF Fresh, Flight
<1>10. ASSUME NEW q \in Requests PROVE DriveOK(q)'
  <2>1. /\ task'[q].drv = task[q].drv /\ task'[q].session = task[q].session
        /\ task'[q].tool = task[q].tool /\ task'[q].prev = task[q].prev
    BY <1>3, <1>4
  <2>2. task[q].drv \in {"start", "thread"} => ~Current(q)
    BY <1>5 DEF Flight, DriveOK
  <2>3. Current(q)' <=> Current(q)
    BY <1>2, <2>1 DEF Current
  <2>. QED BY <1>1, <2>1, <2>2, <2>3 DEF DriveOK, Flight
<1>11. ThreadOK'
  <2>1. ASSUME NEW q \in Requests
        PROVE  /\ task'[q].tool = task[q].tool /\ task'[q].prev = task[q].prev
               /\ Current(q)' <=> Current(q)
    BY <1>2, <1>3, <1>4 DEF Current
  <2>2. Cur(bridge') = Cur(bridge)
    BY <1>2 DEF Cur
  <2>. QED BY <1>2, <1>5, <1>6, <2>1, <2>2 DEF ThreadOK, Flight
<1>12. ClosedOK'
  BY <1>1, <1>2, <1>5, <1>6 DEF ClosedOK, Flight
<1>13. Kept
  BY <1>2, <1>3, <1>4 DEF Kept, Opened
<1>. QED BY <1>8, <1>9, <1>10, <1>11, <1>12, <1>13 DEF Flight

\* A client that goes away fails its operation, if it has one.
LEMMA GoneFlight ==
  ASSUME IInv, IInv', Flight, NEW r \in Requests, ClientGone(r) PROVE Flight' /\ Kept
<1> DEFINE v == [task[r] EXCEPT !.gone = TRUE]
<1>1. /\ bridge \in BridgeState /\ task \in [Requests -> Task] /\ task[r] \in Task
      /\ Macro /\ burst' = FALSE /\ close' = close /\ task' = [task EXCEPT ![r] = v]
      /\ \A q \in Requests : task[q].drv # "replay"
  BY MacroQuiet DEF IInv, TypeOK, ClientGone, Macro
<1>2. /\ v.pc = task[r].pc /\ v.session = task[r].session /\ v.tool = task[r].tool
      /\ v.prev = task[r].prev /\ v.turn = task[r].turn /\ v.drv = task[r].drv
      /\ v.reply = task[r].reply
  BY <1>1 DEF Task
<1> HIDE DEF v
<1>3. task'[r] = v /\ \A q \in Requests : q # r => task'[q] = task[q]
  BY <1>1
<1>4. HandlerStep
  <2>1. CASE bridge' = bridge
    BY <2>1, SameHandler DEF IInv
  <2>2. CASE bridge' = Fail(bridge, "failed")
    BY <1>1, <2>2, FailEffect, FailsHandler DEF Outcomes, IInv, CallInv
  <2>. QED BY <2>1, <2>2 DEF ClientGone
<1>5. TasksStill /\ DrivesStep
  BY <1>1, <1>2, <1>3 DEF TasksStill, DrivesStep
<1>6. BurstStep
  BY <1>1 DEF BurstStep
<1>. QED BY <1>1, <1>4, <1>5, <1>6, FlightKept DEF IInv, CallInv

-----------------------------------------------------------------------------
(* The connection's end, and close() *)

\* c is b, but for the connection and what marks the bridge closed.
Alike(b, c) ==
    /\ c \in BridgeState /\ c.closed
    /\ c.session = b.session /\ c.sess = b.sess /\ c.ttl = b.ttl
    /\ c.busy = b.busy /\ c.operation = b.operation /\ c.op = b.op
    /\ c.answers = b.answers /\ c.heard = b.heard
    /\ c.unsubscribed = b.unsubscribed /\ c.interrupted = b.interrupted

\* The exit closes the bridge and fails what it finds.
LEMMA ExitEffect ==
  ASSUME IInv, Exits(bridge)
  PROVE  /\ \E c : /\ Alike(bridge, c) /\ c.rpc = "closed"
                   /\ \A x \in Requests :
                        c.rel[x] = IF bridge.rel[x] = "none" THEN "none" ELSE "done"
                   /\ Fails(c, bridge', Cur(bridge).turnId)
         /\ \A r \in Requests :
              /\ task'[r].pc = task[r].pc /\ task'[r].drv = task[r].drv
              /\ task'[r].session = task[r].session /\ task'[r].prev = task[r].prev
              /\ task'[r].tool = task[r].tool /\ task'[r].turn = task[r].turn
              /\ task'[r].late = task[r].late
              /\ task'[r].reply =
                   IF task[r].reply = "pending" THEN "error" ELSE task[r].reply
<1> DEFINE rel == [x \in Requests |->
                     IF bridge.rel[x] = "none" THEN "none" ELSE "done"]
           c == [bridge EXCEPT !.rpc = "closed", !.closed = TRUE, !.rel = rel]
           v(r) == [task[r] EXCEPT !.reply = "error"]
<1>1. bridge \in BridgeState /\ task \in [Requests -> Task]
  BY DEF IInv, TypeOK
<1>2. /\ rel \in [Requests -> {"none", "interrupt", "unsubscribe", "done"}]
      /\ \A x \in Requests :
           rel[x] = IF bridge.rel[x] = "none" THEN "none" ELSE "done"
  OBVIOUS
<1>3. bridge' = Fail(c, "failed")
  BY DEF Exits
<1> HIDE DEF rel
<1>4. Alike(bridge, c) /\ c.rpc = "closed" /\ c.rel = rel
  BY <1>1, <1>2 DEF BridgeState, Alike
<1> HIDE DEF c
<1>5. Fails(c, bridge', Cur(c).turnId)
  BY <1>3, <1>4, FailEffect DEF Alike, Outcomes
<1>6. Cur(c) = Cur(bridge)
  BY <1>4 DEF Alike, Cur
<1>7. ASSUME NEW r \in Requests
      PROVE  /\ v(r).pc = task[r].pc /\ v(r).drv = task[r].drv
             /\ v(r).session = task[r].session /\ v(r).prev = task[r].prev
             /\ v(r).tool = task[r].tool /\ v(r).turn = task[r].turn
             /\ v(r).late = task[r].late /\ v(r).reply = "error"
  <2>1. task[r] \in Task
    BY <1>1
  <2>. QED BY <2>1 DEF Task
<1>8. task' = [r \in Requests |->
                 IF task[r].reply = "pending" THEN v(r) ELSE task[r]]
  BY DEF Exits
<1> HIDE DEF v
<1>. QED BY <1>2, <1>4, <1>5, <1>6, <1>7, <1>8

\* close() fails or releases what it finds.
LEMMA CloseEffect ==
  ASSUME IInv, CloseBegins
  PROVE  /\ \E c : /\ Alike(bridge, c) /\ c.rpc = bridge.rpc
                   /\ c.rel = bridge.rel
                   /\ Fails(c, bridge', Cur(bridge).turnId)
         /\ close'.at = "releasing"
         /\ close'.of = IF Open(bridge) THEN None ELSE bridge.session
<1> DEFINE b == IF Open(bridge) THEN Fail(bridge, "failed") ELSE bridge
           c == [bridge EXCEPT !.closed = TRUE]
           d == [b EXCEPT !.closed = TRUE]
           t == Cur(bridge).turnId
<1>1. bridge \in BridgeState
  BY DEF IInv, TypeOK
<1>2. bridge' = Release(d) /\ close' = [at |-> "releasing", of |-> b.session]
  BY DEF CloseBegins
<1>3. Alike(bridge, c) /\ c.rpc = bridge.rpc /\ c.rel = bridge.rel
  BY <1>1 DEF BridgeState, Alike
<1>4. CASE ~Open(bridge)
  <2>1. d = c
    BY <1>4
  <2> HIDE DEF c, d, t
  <2>2. Dropped(c, bridge', Cur(c).turnId) /\ bridge'.op = c.op
    BY <1>2, <1>3, <2>1, ReleaseEffect DEF Alike
  <2>3. Cur(c) = Cur(bridge) /\ ~Open(c)
    BY <1>3, <1>4 DEF Alike, Cur, Open
  <2>4. Fails(c, bridge', Cur(bridge).turnId)
    BY <2>2, <2>3 DEF Fails, Dropped, Settles, Open
  <2>. QED BY <1>2, <1>3, <1>4, <2>4
<1>5. CASE Open(bridge)
  <2>1. b = Fail(bridge, "failed")
    BY <1>5
  <2> HIDE DEF b, c, t
  <2>2. Fails(bridge, b, Cur(bridge).turnId)
    BY <1>1, <2>1, FailEffect DEF Outcomes
  <2>3. /\ d \in BridgeState /\ d.session = None /\ d.closed = TRUE
        /\ d.sess = b.sess /\ d.ttl = b.ttl /\ d.busy = b.busy
        /\ d.operation = b.operation /\ d.op = b.op /\ d.answers = b.answers
        /\ d.heard = b.heard /\ d.unsubscribed = b.unsubscribed
        /\ d.interrupted = b.interrupted /\ d.rpc = b.rpc /\ d.rel = b.rel
    BY <2>2 DEF Fails, Dropped, BridgeState
  <2> HIDE DEF d
  <2>4. Dropped(d, bridge', Cur(d).turnId) /\ bridge'.op = d.op
    BY <1>2, <2>3, ReleaseEffect
  <2>5. /\ bridge'.session = None /\ ~bridge'.ttl /\ bridge'.closed
        /\ bridge' \in BridgeState
        /\ bridge'.busy = b.busy /\ bridge'.operation = b.operation
        /\ bridge'.op = b.op /\ bridge'.answers = b.answers
        /\ bridge'.heard = b.heard /\ bridge'.unsubscribed = b.unsubscribed
        /\ bridge'.interrupted = b.interrupted /\ bridge'.rpc = b.rpc
        /\ bridge'.rel = b.rel
        /\ \A x \in Requests : bridge'.sess[x].thread = b.sess[x].thread
    BY <2>3, <2>4 DEF Dropped
  <2>6. Cur(c) = Cur(bridge)
        /\ Answer(c, Held(Cur(c)), "cancelled", None)
             = Answer(bridge, Held(Cur(bridge)), "cancelled", None)
    BY <1>3 DEF Alike, Cur, Answer
  <2>7. Dropped(c, bridge', t)
    BY <1>3, <2>2, <2>5, <2>6 DEF Alike, Fails, Dropped, t
  <2>8. Settles(c, bridge') /\ ~Open(bridge')
    BY <1>3, <2>2, <2>5 DEF Alike, Fails, Settles, Dropped, Open
  <2>9. b.session = None
    BY <2>2 DEF Fails, Dropped
  <2>. QED BY <1>2, <1>3, <1>5, <2>7, <2>8, <2>9 DEF Fails, t
<1>. QED BY <1>4, <1>5

\* After either of them no session is left.
LEMMA EndsFlight ==
  ASSUME IInv, IInv', Flight, burst' = FALSE, NEW c,
         Alike(bridge, c), Fails(c, bridge', Cur(bridge).turnId),
         \A x \in Requests : c.rel[x] # "none" => bridge.rel[x] # "none",
         \A r \in Requests : task[r].drv # "replay",
         \A r \in Requests :
           /\ task'[r].pc = task[r].pc /\ task'[r].drv = task[r].drv
           /\ task'[r].session = task[r].session /\ task'[r].prev = task[r].prev
           /\ task'[r].tool = task[r].tool /\ task'[r].turn = task[r].turn,
         close'.at = "done" => bridge'.rpc = "closed",
         bridge'.rpc # "closed" =>
           /\ close'.at = "releasing"
           /\ close'.of # None => Running = {}
  PROVE  Flight' /\ Kept
<1>1. /\ bridge'.session = None /\ ~bridge'.ttl /\ ~Open(bridge')
      /\ bridge'.busy = bridge.busy /\ bridge'.operation = bridge.operation
      /\ bridge'.closed
      /\ \A x \in Requests : x # bridge.session =>
           /\ bridge'.rel[x] # "none" => bridge.rel[x] # "none"
           /\ x \in bridge'.unsubscribed => x \in bridge.unsubscribed
      /\ \A x \in Requests : x # bridge.operation => bridge'.op[x] = bridge.op[x]
  BY DEF Alike, Fails, Dropped, Settles
<1>2. /\ TypeOK /\ TypeOK' /\ OpenedFirst /\ OneFlight /\ Fresh
      /\ \A r \in Requests : DriveOK(r)
      /\ Running' = Running /\ Opened' = Opened
      /\ \A r \in Requests : task[r].drv # "none" => task[r].session \in Opened
  BY DEF IInv, CallInv, Flight, Running, Opened, OpenedFirst
<1>3. OneFlight'
  <2>1. bridge.operation \in Requests \cup {None}
    BY <1>2 DEF TypeOK, BridgeState, OptRequest
  <2>. QED BY <1>1, <1>2, <2>1 DEF OneFlight, Idle
<1>4. Fresh'
  <2>1. \A r \in Requests \ Opened :
          r # bridge.session /\ r # bridge.operation /\ r # None
    BY <1>2, NoneAssumption DEF OpenedFirst, OneFlight, Opened
  <2>2. \A r \in Requests \ Opened :
          bridge'.rel[r] = "none" /\ r \notin bridge'.unsubscribed
    BY <1>1, <1>2, <2>1 DEF Fresh
  <2>. QED BY <1>1, <1>2, <2>1, <2>2, NoneAssumption DEF Fresh
<1>5. ASSUME NEW r \in Requests PROVE DriveOK(r)'
  <2>1. task[r].drv # "none" => task[r].session # None
    BY <1>2, NoneAssumption DEF Opened
  <2>2. DriveOK(r)
    BY <1>2
  <2>. QED BY <1>1, <2>1, <2>2 DEF DriveOK, Current
<1>6. ThreadOK'
  <2>1. \A r \in Opened : task[r].session # None
    BY <1>2, NoneAssumption DEF OpenedFirst, Opened
  <2>. QED BY <1>1, <1>2, <2>1 DEF Flight, ThreadOK, Current
<1>7. ClosedOK'
  BY <1>1, <1>2 DEF ClosedOK
<1>8. Kept
  <2>1. \A r \in Requests :
          bridge.op[r].outcome # "none" => bridge'.op[r] = bridge.op[r]
    BY DEF Alike, Fails, Settles, Open
  <2>. QED BY <2>1 DEF Kept, Opened
<1>. QED BY <1>3, <1>4, <1>5, <1>6, <1>7, <1>8 DEF Flight

\* The exit of the app-server.
LEMMA ExitsFlight ==
  ASSUME IInv, IInv', Flight, Exits(bridge), burst' = FALSE,
         \A r \in Requests : task[r].drv # "replay"
  PROVE  Flight' /\ Kept
<1>1. PICK c : /\ Alike(bridge, c) /\ c.rpc = "closed"
               /\ \A x \in Requests :
                    c.rel[x] = IF bridge.rel[x] = "none" THEN "none" ELSE "done"
               /\ Fails(c, bridge', Cur(bridge).turnId)
  BY ExitEffect
<1>2. \A r \in Requests :
        /\ task'[r].pc = task[r].pc /\ task'[r].drv = task[r].drv
        /\ task'[r].session = task[r].session /\ task'[r].prev = task[r].prev
        /\ task'[r].tool = task[r].tool /\ task'[r].turn = task[r].turn
  BY ExitEffect
<1>3. bridge'.rpc = "closed"
  BY <1>1 DEF Fails, Dropped
<1>4. \A x \in Requests : c.rel[x] # "none" => bridge.rel[x] # "none"
  BY <1>1
<1>. QED BY <1>1, <1>2, <1>3, <1>4, EndsFlight

\* The exit that the child reports.
LEMMA RpcExitFlight ==
  ASSUME IInv, IInv', Flight, RpcExits PROVE Flight' /\ Kept
<1>1. \A r \in Requests : task[r].drv # "replay"
  BY LineQuiet DEF RpcExits, MicroReady, IInv, Ready
<1>. QED BY <1>1, ExitsFlight DEF RpcExits

\* close() up to its await: with a session of its own to wait for, no request
\* is in progress.
LEMMA CloseFlight ==
  ASSUME IInv, IInv', Flight, CloseBegins PROVE Flight' /\ Kept
<1>1. PICK c : /\ Alike(bridge, c) /\ c.rpc = bridge.rpc /\ c.rel = bridge.rel
               /\ Fails(c, bridge', Cur(bridge).turnId)
  BY CloseEffect
<1>2. /\ close'.at = "releasing"
      /\ close'.of = IF Open(bridge) THEN None ELSE bridge.session
  BY CloseEffect
<1>3. Macro /\ burst' = FALSE /\ task' = task
  BY DEF CloseBegins, Macro
<1>4. \A r \in Requests : /\ task[r].drv # "replay"
                          /\ task[r].pc = "awaiting" => Open(bridge)
  BY <1>3, MacroQuiet DEF IInv
<1>5. close'.of # None => Running = {}
  BY <1>2, <1>4 DEF Running, Flight, Fresh, Opened
<1>. QED BY <1>1, <1>2, <1>3, <1>4, <1>5, EndsFlight

\* close() after its await.
LEMMA ClosesFlight ==
  ASSUME IInv, IInv', Flight, CloseEnds PROVE Flight' /\ Kept
<1>1. /\ Micro /\ burst' = FALSE /\ \A r \in Requests : task[r].drv # "replay"
  BY DEF CloseEnds, Micro
<1>2. CASE Exits(bridge)
  BY <1>1, <1>2, ExitsFlight
<1>3. CASE bridge.rpc = "closed" /\ UNCHANGED <<bridge, task>>
  <2>1. OneFlight' /\ Fresh' /\ ThreadOK'
    BY <1>3 DEF Flight, OneFlight, Fresh, ThreadOK, Idle, Open, Running, Opened,
                Current, Cur
  <2>2. \A r \in Requests : DriveOK(r)'
    BY <1>1, <1>3 DEF Flight, DriveOK, Current, Open, Cur
  <2>3. ClosedOK'
    BY <1>1, <1>3 DEF Flight, ClosedOK, Open, Cur
  <2>4. Kept
    BY <1>3 DEF Kept, Opened
  <2>. QED BY <2>1, <2>2, <2>3, <2>4 DEF Flight
<1>. QED BY <1>2, <1>3 DEF CloseEnds

-----------------------------------------------------------------------------
(* The app-server's lines *)

\* A line that names the current session's thread finds it known, and its
\* operation under way.
LEMMA OursFacts ==
  ASSUME IInv, Flight, Line, NEW t \in Requests, Ours(t)
  PROVE  /\ bridge \in BridgeState /\ bridge.session # None
         /\ Cur(bridge).thread /\ Cur(bridge) \in Session
         /\ Open(bridge) => task[bridge.operation].drv # "start"
<1>1. bridge \in BridgeState
  BY DEF IInv, TypeOK
<1>2. Open(bridge) => bridge.operation \in Requests
  BY <1>1, OpenType
<1>. QED BY <1>1, <1>2, CurType, LineQuiet DEF Ours, IInv, Ready

\* An answer to an RPC of drive(): a closed bridge waits for none.
LEMMA ReplyFlight ==
  ASSUME IInv, IInv', Flight, NEW r \in Requests, NEW result, RpcReply(r, result)
  PROVE  Flight' /\ Kept
<1> DEFINE v == [task[r] EXCEPT !.reply = result]
<1>1. /\ Line /\ Handled /\ bridge' = bridge /\ close' = close
      /\ task' = [task EXCEPT ![r] = v]
      /\ task \in [Requests -> Task] /\ task[r] \in Task
  BY DEF RpcReply, IInv, TypeOK
<1>2. /\ v.pc = task[r].pc /\ v.session = task[r].session /\ v.tool = task[r].tool
      /\ v.prev = task[r].prev /\ v.turn = task[r].turn /\ v.drv = task[r].drv
  BY <1>1 DEF Task
<1> HIDE DEF v
<1>3. task'[r] = v /\ \A q \in Requests : q # r => task'[q] = task[q]
  BY <1>1
<1>4. HandlerStep
  BY <1>1, SameHandler DEF IInv
<1>5. /\ \A q \in Requests : task[q].drv \notin Ready
      /\ bridge.closed => bridge.session = None /\ close.of # None
  BY <1>1, LineQuiet DEF IInv
<1>6. TasksStill /\ DrivesStep
  BY <1>2, <1>3, <1>5 DEF TasksStill, DrivesStep, Ready
<1>7. \A q \in Requests : task'[q].drv = task[q].drv
  BY <1>2, <1>3
<1>8. BurstStep
  BY <1>1, <1>5, <1>7, HandledBurst DEF BurstStep, IInv
<1>. QED BY <1>1, <1>4, <1>6, <1>8, FlightKept DEF IInv, CallInv

\* A turn that begins changes the turn of its session only.
LEMMA BeginsFlight ==
  ASSUME IInv, IInv', Flight, NEW t \in Requests, NEW announced, TurnBegins(t, announced)
  PROVE  Flight' /\ Kept
<1> DEFINE s == [Cur(bridge) EXCEPT !.turnId = t]
<1>1. /\ Line /\ Handled /\ UNCHANGED <<task, close>>
  BY DEF TurnBegins
<1>2. CASE bridge' = bridge
  BY <1>1, <1>2, SameHandler, LineFlight DEF IInv
<1>3. CASE Ours(t) /\ bridge' = [bridge EXCEPT !.sess[bridge.session].turnId = t]
  <2>1. bridge \in BridgeState /\ bridge.session # None /\ Cur(bridge) \in Session
    BY <1>1, <1>3, OursFacts
  <2>2. s \in Session /\ s.thread = Cur(bridge).thread
    BY <2>1 DEF Session, OptRequest
  <2>3. bridge' = [bridge EXCEPT !.sess[bridge.session] = s]
    BY <1>3 DEF Cur
  <2> HIDE DEF s
  <2>4. HandlerStep
    BY <2>1, <2>2, <2>3, CurEffect, WorksHandler
  <2>. QED BY <1>1, <2>4, LineFlight
<1>. QED BY <1>2, <1>3 DEF TurnBegins

\* An event that is held or consumed.
LEMMA DeliverHandler ==
  ASSUME IInv, Flight, Line, NEW t \in Requests, Ours(t), NEW e \in Events, NEW ok,
         bridge' = Deliver(e, ok)
  PROVE  HandlerStep
<1>1. /\ bridge \in BridgeState /\ bridge.session # None
      /\ Cur(bridge).thread /\ Cur(bridge) \in Session
      /\ Open(bridge) => task[bridge.operation].drv # "start"
  BY OursFacts
<1>2. ASSUME NEW u, Fails(bridge, bridge', u) PROVE HandlerStep
  BY <1>2, FailsHandler DEF IInv, CallInv
<1>3. CASE /\ Works(bridge, bridge') /\ bridge'.op = bridge.op
           /\ Cur(bridge') = [Cur(bridge) EXCEPT !.buffered = Append(@, e)]
  <2>1. Cur(bridge').thread = Cur(bridge).thread
    BY <1>1, <1>3 DEF Session
  <2>. QED BY <1>3, <2>1, WorksHandler
<1>4. CASE bridge' = Consume(bridge, e, ok)
  BY <1>1, <1>4, ConsumeHandler DEF Ignores
<1>. QED BY <1>1, <1>2, <1>3, <1>4, DeliverEffect

\* An agent-message event.
LEMMA ItemFlight ==
  ASSUME IInv, IInv', Flight, NEW t \in Requests, NEW kind \in {"text", "bad"},
         ItemEvent(t, kind)
  PROVE  Flight' /\ Kept
<1> DEFINE e == [kind |-> kind, turn |-> t, n |-> app.items[t] + 1]
<1>1. Line /\ Handled /\ UNCHANGED <<task, close>>
  BY DEF ItemEvent
<1>2. app.items[t] \in Nat
  BY DEF IInv, TypeOK
<1>3. e \in Events
  BY <1>2 DEF Events
<1>4. \/ bridge' = bridge
      \/ Ours(t) /\ \E ok \in Delivers(bridge) : bridge' = Deliver(e, ok)
  BY DEF ItemEvent
<1> HIDE DEF e
<1>5. HandlerStep
  BY <1>1, <1>3, <1>4, SameHandler, DeliverHandler DEF IInv
<1>. QED BY <1>1, <1>5, LineFlight

\* turn/completed.
LEMMA EndsTurnFlight ==
  ASSUME IInv, IInv', Flight, NEW t \in Requests, NEW kind \in {"completed", "failed"},
         TurnEnds(t, kind)
  PROVE  Flight' /\ Kept
<1> DEFINE e == [kind |-> kind, turn |-> t, n |-> 0]
<1>1. Line /\ Handled /\ UNCHANGED <<task, close>>
  BY DEF TurnEnds
<1>2. e \in Events
  BY DEF Events
<1>3. \/ bridge' = bridge
      \/ Ours(t) /\ \E ok \in Delivers(bridge) : bridge' = Deliver(e, ok)
  BY DEF TurnEnds
<1> HIDE DEF e
<1>4. HandlerStep
  BY <1>1, <1>2, <1>3, SameHandler, DeliverHandler DEF IInv
<1>. QED BY <1>1, <1>4, LineFlight

\* A fatal notification.
LEMMA FatalFlight ==
  ASSUME IInv, IInv', Flight, NEW t \in Requests, NEW blocked, FatalNotice(t, blocked)
  PROVE  Flight' /\ Kept
<1>1. /\ Line /\ Handled /\ UNCHANGED <<task, close>>
      /\ bridge' = Fail(bridge, "failed") /\ bridge \in BridgeState
  BY DEF FatalNotice, IInv, TypeOK
<1>2. Fails(bridge, bridge', Cur(bridge).turnId)
  BY <1>1, FailEffect DEF Outcomes
<1>3. HandlerStep
  BY <1>2, FailsHandler DEF IInv, CallInv
<1>. QED BY <1>1, <1>3, LineFlight

\* A refusal is written, and changes nothing else.
LEMMA RefuseEffect ==
  ASSUME bridge \in BridgeState, NEW c \in Calls
  PROVE  LET d == Refuse(c)
         IN /\ d \in BridgeState
            /\ d.session = bridge.session /\ d.sess = bridge.sess
            /\ d.ttl = bridge.ttl /\ d.busy = bridge.busy
            /\ d.operation = bridge.operation /\ d.closed = bridge.closed
            /\ d.rpc = bridge.rpc /\ d.heard = bridge.heard /\ d.op = bridge.op
            /\ d.rel = bridge.rel /\ d.unsubscribed = bridge.unsubscribed
            /\ d.interrupted = bridge.interrupted
            /\ d.answers = IF app.asked[c] = None
                           THEN Answer(bridge, {c}, "error", None)
                           ELSE bridge.answers
<1> DEFINE ans == Answer(bridge, {c}, "error", None)
<1>1. ans \in [Calls -> Seq(Answers)]
  BY AnswerType DEF OptRequest
<1>2. Refuse(c) = IF app.asked[c] = None
                  THEN [bridge EXCEPT !.answers = ans] ELSE bridge
  BY DEF Refuse
<1> HIDE DEF ans
<1>3. /\ [bridge EXCEPT !.answers = ans] \in BridgeState
      /\ [bridge EXCEPT !.answers = ans].answers = ans
  BY <1>1 DEF BridgeState
<1>4. CASE app.asked[c] = None
  BY <1>2, <1>3, <1>4 DEF ans, BridgeState
<1>5. CASE app.asked[c] # None
  BY <1>2, <1>5
<1>. QED BY <1>4, <1>5

\* A call of a turn of the session is queued, and maybe offered.
LEMMA QueueHandler ==
  ASSUME IInv, Flight, Line, NEW t \in Requests, Ours(t), NEW c \in Calls, NEW ok,
         bridge' = Flush([bridge EXCEPT !.sess[bridge.session] =
                            [Cur(bridge) EXCEPT !.turnId = t,
                               !.seen = Cur(bridge).seen \cup {c},
                               !.pending = Append(Cur(bridge).pending, c)]], ok)
  PROVE  HandlerStep
<1> DEFINE v == [Cur(bridge) EXCEPT !.turnId = t,
                   !.seen = Cur(bridge).seen \cup {c},
                   !.pending = Append(Cur(bridge).pending, c)]
           q == [bridge EXCEPT !.sess[bridge.session] = v]
<1>1. /\ bridge \in BridgeState /\ bridge.session # None
      /\ Cur(bridge).thread /\ Cur(bridge) \in Session
      /\ Open(bridge) => task[bridge.operation].drv # "start"
  BY OursFacts
<1>2. bridge' = Flush(q, ok)
  OBVIOUS
<1>3. /\ Works(bridge, q) /\ Cur(q) = v /\ v \in Session
      /\ q.op = bridge.op
  BY <1>1, QueueEffect
<1>4. v.thread = Cur(bridge).thread
  BY <1>1 DEF Session
<1> HIDE DEF v, q
<1>5. CASE bridge' = q
  BY <1>3, <1>4, <1>5, WorksHandler
<1>6. q \in BridgeState
  BY <1>3 DEF Works
<1>7. CASE CanFlush(q) /\ bridge' = Offer(q)
  <2> DEFINE p == Cur(q).pending
  <2>1. /\ Works(q, bridge') /\ Completes(q, bridge', Head(p))
        /\ Cur(bridge') = [Cur(q) EXCEPT !.waiting = Head(p),
                             !.pending = Tail(p), !.last = q.operation]
    BY <1>6, <1>7, OfferEffect
  <2>2. Cur(bridge').thread = Cur(bridge).thread
    BY <1>3, <1>4, <2>1 DEF Session
  <2>3. Works(bridge, bridge')
    BY <1>3, <2>1 DEF Works
  <2>4. Completes(bridge, bridge', Head(p)) /\ Open(bridge)
    BY <1>3, <2>1 DEF Completes, Open, Works
  <2> HIDE DEF p
  <2>. QED BY <1>1, <2>2, <2>3, <2>4, CompletesHandler
<1>8. CASE Fails(q, bridge', Cur(q).turnId)
  BY <1>3, <1>4, <1>8, FailsHandler DEF IInv, CallInv
<1>. QED BY <1>2, <1>5, <1>6, <1>7, <1>8, FlushEffect DEF Flush

\* A call is refused, or fails the session, or is queued.
LEMMA RequestHandler ==
  ASSUME IInv, Flight, Line, NEW t \in Requests, NEW c \in Calls, NEW good, NEW ok,
         bridge' = ServerRequest(c, t, good, ok)
  PROVE  HandlerStep
<1>1. bridge \in BridgeState
  BY DEF IInv, TypeOK
<1>2. CASE bridge' = Refuse(c)
  BY <1>1, <1>2, RefuseEffect, SameHandler DEF IInv
<1>3. CASE bridge' = Fail(bridge, "failed")
  BY <1>1, <1>3, FailEffect, FailsHandler DEF IInv, CallInv, Outcomes
<1>4. CASE Ours(t) /\ bridge' = Fail(Refuse(c), "failed")
  <2> DEFINE b == Refuse(c)
  <2>1. /\ b \in BridgeState /\ b.op = bridge.op
        /\ Works(bridge, b) /\ Cur(b) = Cur(bridge)
    BY <1>1, <1>4, RefuseEffect DEF Works, Cur, Ours
  <2> HIDE DEF b
  <2>2. Fails(b, bridge', Cur(b).turnId)
    BY <1>4, <2>1, FailEffect DEF b, Outcomes
  <2>. QED BY <2>1, <2>2, FailsHandler DEF IInv, CallInv
<1>5. CASE /\ Ours(t)
           /\ bridge' = Flush([bridge EXCEPT !.sess[bridge.session] =
                                 [Cur(bridge) EXCEPT !.turnId = t,
                                    !.seen = Cur(bridge).seen \cup {c},
                                    !.pending = Append(Cur(bridge).pending, c)]], ok)
  BY <1>5, QueueHandler
<1>. QED BY <1>2, <1>3, <1>4, <1>5 DEF ServerRequest

\* A new call.
LEMMA CallFlight ==
  ASSUME IInv, IInv', Flight, NEW t \in Requests, NEW c \in Calls, NEW wellFormed,
         ToolCall(c, t, wellFormed)
  PROVE  Flight' /\ Kept
<1>1. /\ Line /\ Handled /\ UNCHANGED <<task, close>>
      /\ \E ok : bridge' = ServerRequest(c, t, wellFormed, ok)
  BY DEF ToolCall
<1>. QED BY <1>1, RequestHandler, LineFlight

\* A repeated call.
LEMMA RepeatFlight ==
  ASSUME IInv, IInv', Flight, NEW c \in Calls, ToolCallRepeated(c)
  PROVE  Flight' /\ Kept
<1>1. /\ Line /\ Handled /\ UNCHANGED <<task, close>>
      /\ \E ok : bridge' = ServerRequest(c, app.asked[c], TRUE, ok)
  BY DEF ToolCallRepeated
<1>2. app.asked[c] \in Requests
  BY DEF ToolCallRepeated, IInv, TypeOK, OptRequest
<1>. QED BY <1>1, <1>2, RequestHandler, LineFlight

-----------------------------------------------------------------------------
(* The theorems *)

\* Before anything has happened.
LEMMA InitialFlight == Init => Flight
<1> SUFFICES ASSUME Init PROVE Flight
  OBVIOUS
<1>1. PICK up \in {"up", "starting"} :
         bridge = [closed |-> FALSE, busy |-> FALSE, ttl |-> FALSE,
                   session |-> None, operation |-> None,
                   sess |-> [r \in Requests |-> NewSession],
                   op |-> [r \in Requests |->
                             [offered |-> None, outcome |-> "none"]],
                   answers |-> [c \in Calls |-> <<>>],
                   heard |-> [r \in Requests |-> <<>>],
                   interrupted |-> {}, unsubscribed |-> {},
                   rel |-> [r \in Requests |-> "none"], rpc |-> up]
  BY DEF Init
<1>2. /\ ~bridge.busy /\ ~bridge.closed /\ ~bridge.ttl
      /\ bridge.session = None /\ bridge.operation = None
      /\ bridge.rpc # "closed" /\ bridge.unsubscribed = {}
      /\ \A r \in Requests :
           /\ bridge.op[r] = [offered |-> None, outcome |-> "none"]
           /\ bridge.rel[r] = "none"
  BY <1>1
<1>3. /\ close.at = "no" /\ ~burst
      /\ \A r \in Requests :
           /\ task[r].pc = "unsent" /\ task[r].drv = "none"
           /\ task[r].tool = None /\ task[r].prev = None
  BY DEF Init
<1>4. Running = {} /\ Opened = {} /\ ~Open(bridge)
  BY <1>2, <1>3 DEF Running, Opened, Open
<1>5. OneFlight /\ Fresh
  BY <1>2, <1>3, <1>4 DEF OneFlight, Fresh, Idle
<1>6. (\A r \in Requests : DriveOK(r)) /\ ThreadOK /\ ClosedOK
  BY <1>2, <1>3, <1>4 DEF DriveOK, ThreadOK, ClosedOK
<1>. QED BY <1>5, <1>6 DEF Flight

\* Every step keeps the invariant.
LEMMA FlightInductive == IInv /\ Flight /\ [Next]_vars => Flight' /\ Kept
<1> SUFFICES ASSUME IInv, Flight, [Next]_vars PROVE Flight' /\ Kept
  OBVIOUS
<1>0. IInv'
  BY Inductive
<1>1. CASE UNCHANGED vars
  <2>1. UNCHANGED <<bridge, task, close, burst>>
    BY <1>1 DEF vars
  <2>2. OneFlight' /\ Fresh' /\ ThreadOK' /\ ClosedOK'
    BY <2>1 DEF Flight, OneFlight, Fresh, ThreadOK, ClosedOK, Idle, Open,
                Running, Opened, Current, Cur
  <2>3. \A r \in Requests : DriveOK(r)'
    BY <2>1 DEF Flight, DriveOK, Current, Open, Cur
  <2>4. Kept
    BY <2>1 DEF Kept, Opened
  <2>. QED BY <2>2, <2>3, <2>4 DEF Flight
<1>2. ASSUME NEW r \in Requests, RespondStep(r) PROVE Flight' /\ Kept
  <2>1. CASE RespondRejected(r)
    BY <1>0, <2>1, RejectedFlight
  <2>2. CASE RespondNew(r)
    BY <1>0, <2>2, NewFlight
  <2>3. CASE \E prev \in OptRequest, tool \in OptCall :
               RespondContinue(r, prev, tool)
    BY <1>0, <2>3, ContinueFlight
  <2>4. CASE RequestTimeout(r)
    BY <1>0, <2>4, TimeoutFlight
  <2>5. CASE ClientGone(r)
    BY <1>0, <2>5, GoneFlight
  <2>6. CASE RpcTimeout(r)
    BY <1>0, <2>6, RpcTimeoutFlight
  <2>7. CASE ReleaseAnswered(r) \/ ReleaseTimesOut(r)
    BY <1>0, <2>7, ReleaseFlight
  <2>. QED BY <1>2, <2>1, <2>2, <2>3, <2>4, <2>5, <2>6, <2>7 DEF RespondStep
<1>3. ASSUME NEW r \in Requests, Continues(r) PROVE Flight' /\ Kept
  <2>1. CASE RespondOpens(r)
    BY <1>0, <2>1, OpensFlight
  <2>2. CASE RespondReturns(r)
    BY <1>0, <2>2, ReturnsFlight
  <2>3. CASE DriveStarts(r)
    BY <1>0, <2>3, StartsFlight
  <2>4. CASE DriveSendsMessage(r)
    BY <1>0, <2>4, MessageFlight
  <2>5. CASE DriveAnswersTool(r)
    BY <1>0, <2>5, AnswersFlight
  <2>6. CASE DriveReplays(r)
    BY <1>0, <2>6, ReplaysFlight
  <2>7. CASE DriveFlushes(r)
    BY <1>0, <2>7, FlushesFlight
  <2>8. CASE ThreadTooLate(r)
    BY <1>0, <2>8, ThreadLateFlight
  <2>9. CASE ThreadArrives(r)
    BY <1>0, <2>9, ThreadFlight
  <2>10. CASE TurnTooLate(r)
    BY <1>0, <2>10, TurnLateFlight
  <2>11. CASE TurnArrives(r)
    BY <1>0, <2>11, TurnFlight
  <2>12. CASE DriveRefused(r)
    BY <1>0, <2>12, RefusedFlight
  <2>13. CASE DriveCatches(r)
    BY <1>0, <2>13, CatchesFlight
  <2>. QED BY <1>3, <2>1, <2>2, <2>3, <2>4, <2>5, <2>6, <2>7, <2>8, <2>9,
              <2>10, <2>11, <2>12, <2>13 DEF Continues
<1>4. ASSUME NEW r \in Requests, AppServerStep(r) PROVE Flight' /\ Kept
  <2>1. CASE \E result \in {"ok", "noId", "badModel", "error"} :
               RpcReply(r, result)
    BY <1>0, <2>1, ReplyFlight
  <2>2. CASE \E announced \in BOOLEAN : TurnBegins(r, announced)
    BY <1>0, <2>2, BeginsFlight
  <2>3. CASE \E kind \in {"text", "bad"} : ItemEvent(r, kind)
    BY <1>0, <2>3, ItemFlight
  <2>4. CASE \E kind \in {"completed", "failed"} : TurnEnds(r, kind)
    BY <1>0, <2>4, EndsTurnFlight
  <2>5. CASE \E blocked \in BOOLEAN : FatalNotice(r, blocked)
    BY <1>0, <2>5, FatalFlight
  <2>6. CASE \E c \in Calls, wellFormed \in BOOLEAN : ToolCall(c, r, wellFormed)
    BY <1>0, <2>6, CallFlight
  <2>. QED BY <1>4, <2>1, <2>2, <2>3, <2>4, <2>5, <2>6 DEF AppServerStep
<1>5. ASSUME NEW c \in Calls, ToolCallRepeated(c) PROVE Flight' /\ Kept
  BY <1>0, <1>5, RepeatFlight
<1>6. CASE SessionExpires
  BY <1>0, <1>6, ExpiresFlight
<1>7. CASE RpcStarted \/ PipeBreaks
  BY <1>0, <1>7, ConnectionFlight
<1>8. CASE RpcExits
  BY <1>0, <1>8, RpcExitFlight
<1>9. CASE CloseBegins
  BY <1>0, <1>9, CloseFlight
<1>10. CASE CloseEnds
  BY <1>0, <1>10, ClosesFlight
<1>. QED BY <1>1, <1>2, <1>3, <1>4, <1>5, <1>6, <1>7, <1>8, <1>9, <1>10
         DEF Next

\* In every behaviour the parts of Flight hold: one respond() with its
\* operation, no trace of a request not opened yet, each drive where its
\* session and operation allow, a closed bridge that starts nothing more.
THEOREM OneFlightAlways == Spec => [](IInv /\ Flight)
<1>1. Init => IInv /\ Flight
  BY Initially, InitialFlight
<1>2. IInv /\ Flight /\ [Next]_vars => (IInv /\ Flight)'
  BY Inductive, FlightInductive
<1>. QED BY <1>1, <1>2, PTL DEF Spec

\* One generation at a time, and a closed bridge that is done keeps no session,
\* for any number of requests and whatever fails (lines 21-24, 34, 37, 74).
THEOREM OneGeneration == Spec => []SingleFlight
<1>1. IInv /\ Flight => SingleFlight
  BY FlightSingle DEF IInv
<1>. QED BY <1>1, OneFlightAlways, PTL

\* Only the catch of line 65 ends a failed drive.
LEMMA OnlyCatches ==
  ASSUME IInv, NEW r \in Requests, task[r].drv = "failed", task'[r].drv = "done",
         Next
  PROVE  DriveCatches(r)
<1>1. /\ task \in [Requests -> Task] /\ r \in Opened
      /\ \A q \in Requests \ Opened : q # r
  BY DrivenOpened DEF IInv, TypeOK
<1>2. task' # task
  OBVIOUS
<1>3. ASSUME NEW q \in Requests, NEW v, task' = [task EXCEPT ![q] = v]
      PROVE  q = r /\ v.drv = "done"
  BY <1>1, <1>3
<1>4. task[r] \in Task
  BY <1>1
<1>5. ~\E q \in Requests : RespondStep(q)
  <2> SUFFICES ASSUME NEW q \in Requests, RespondStep(q) PROVE FALSE
    OBVIOUS
  <2>1. RespondNew(q) \/ ClientGone(q) \/ RpcTimeout(q)
        \/ \E prev \in OptRequest, tool \in OptCall : RespondContinue(q, prev, tool)
    BY <1>2 DEF RespondStep, RespondRejected, RequestTimeout, ReleaseAnswered,
                ReleaseTimesOut, ReleaseNext
  <2>2. CASE RespondNew(q)
    <3>1. q = r
      BY <1>3, <2>2 DEF RespondNew
    <3>. QED BY <1>1, <2>2, <3>1 DEF RespondNew, Arrives, Opened
  <2>3. CASE ClientGone(q)
    <3>1. q = r
      BY <1>3, <2>3 DEF ClientGone
    <3>2. [task[r] EXCEPT !.gone = TRUE].drv = "failed"
      BY <1>4 DEF Task
    <3>. QED BY <1>3, <2>3, <3>1, <3>2 DEF ClientGone
  <2>4. CASE RpcTimeout(q)
    <3>1. q = r
      BY <1>3, <2>4 DEF RpcTimeout
    <3> DEFINE late == task[r].drv = "turn"
    <3>2. [task[r] EXCEPT !.reply = "error", !.late = late].drv = "failed"
      BY <1>4 DEF Task
    <3>. QED BY <1>3, <2>4, <3>1, <3>2 DEF RpcTimeout
  <2>5. ASSUME NEW prev \in OptRequest, NEW tool \in OptCall,
               RespondContinue(q, prev, tool)
        PROVE  FALSE
    <3>1. q = r
      BY <1>3, <2>5 DEF RespondContinue, Begin
    <3>. QED BY <1>1, <2>5, <3>1 DEF RespondContinue, Arrives, Opened
  <2>. QED BY <2>1, <2>2, <2>3, <2>4, <2>5
<1>6. ASSUME NEW q \in Requests, Continues(q) PROVE DriveCatches(r)
  <2> DEFINE Mine == \A x \in Requests : x # q => task'[x] = task[x]
  <2>1. q = r
    <3>1. \A step : Moves(q, step) \/ Asks(q, step) => Mine
      BY <1>1 DEF Moves, Asks
    <3>2. RespondOpens(q) \/ RespondReturns(q) => Mine
      BY <1>1 DEF RespondOpens, Begin, RespondReturns
    <3> HIDE DEF Mine
    <3>3. Mine \/ task' = task
      BY <1>6, <3>1, <3>2
         DEF Continues, DriveStarts, DriveSendsMessage, DriveAnswersTool,
             DriveReplays, DriveFlushes, ThreadTooLate, ThreadArrives,
             TurnTooLate, TurnArrives, DriveRefused, DriveCatches, StartsTurn
    <3>. QED BY <1>2, <3>3 DEF Mine
  <2>2. ~RespondOpens(r)
    BY <1>1 DEF RespondOpens, Opened
  <2>3. ~RespondReturns(r)
    <3>1. [task[r] EXCEPT !.pc = "done", !.gone = FALSE].drv = "failed"
      BY <1>4 DEF Task
    <3>2. RespondReturns(r) =>
            task' = [task EXCEPT ![r] = [task[r] EXCEPT !.pc = "done", !.gone = FALSE]]
      BY DEF RespondReturns
    <3>. QED BY <1>3, <3>1, <3>2
  <2>. QED BY <1>6, <2>1, <2>2, <2>3
           DEF Continues, DriveStarts, DriveSendsMessage, DriveAnswersTool, Started,
               DriveReplays, DriveFlushes, ThreadTooLate, ThreadArrives,
               TurnTooLate, TurnArrives, DriveRefused, Resolved
<1>7. ~\E q \in Requests : AppServerStep(q)
  <2> SUFFICES ASSUME NEW q \in Requests, AppServerStep(q) PROVE FALSE
    OBVIOUS
  <2>1. PICK result : RpcReply(q, result)
    BY <1>2 DEF AppServerStep, TurnBegins, ItemEvent, TurnEnds, FatalNotice, ToolCall
  <2>2. q = r
    BY <1>3, <2>1 DEF RpcReply
  <2>3. [task[r] EXCEPT !.reply = result].drv = "failed"
    BY <1>4 DEF Task
  <2>. QED BY <1>3, <2>1, <2>2, <2>3 DEF RpcReply
<1>8. ~(RpcExits \/ CloseEnds)
  <2>1. Exits(bridge) => task'[r].drv = task[r].drv
    BY ExitEffect
  <2>. QED BY <1>2, <2>1 DEF RpcExits, CloseEnds
<1>9. /\ ~\E c \in Calls : ToolCallRepeated(c)
      /\ ~(SessionExpires \/ RpcStarted \/ PipeBreaks \/ CloseBegins)
  BY <1>2 DEF ToolCallRepeated, SessionExpires, RpcStarted, PipeBreaks, CloseBegins
<1>. QED BY <1>5, <1>6, <1>7, <1>8, <1>9 DEF Next

\* Nothing is taken back: whatever happens, an opened request keeps its
\* session, its turn and what it continues, and an operation that has settled
\* keeps its outcome and the call that it offered (lines 239, 248).
THEOREM NothingTakenBack == Spec => [][Kept]_vars
<1>1. IInv /\ Flight /\ [Next]_vars => Kept
  BY FlightInductive
<1>. QED BY <1>1, OneFlightAlways, PTL DEF Spec

\* A failed drive settles no operation but its own and drops no session but
\* its own: a late RPC error of an earlier segment is ignored (line 66).
THEOREM FailureContained == Spec => FailureStaysHome
<1> DEFINE A == \A r \in Requests :
                  task[r].drv = "failed" /\ task'[r].drv = "done" =>
                    /\ \A q \in Requests \ {r} : bridge'.op[q] = bridge.op[q]
                    /\ bridge'.session \in {bridge.session, None}
                    /\ bridge.operation # r => bridge'.session = bridge.session
<1>1. IInv /\ [Next]_vars => A
  <2> SUFFICES ASSUME IInv, [Next]_vars, NEW r \in Requests,
                      task[r].drv = "failed", task'[r].drv = "done"
               PROVE  /\ \A q \in Requests \ {r} : bridge'.op[q] = bridge.op[q]
                      /\ bridge'.session \in {bridge.session, None}
                      /\ bridge.operation # r => bridge'.session = bridge.session
    OBVIOUS
  <2>1. DriveCatches(r)
    BY OnlyCatches DEF vars
  <2>2. CASE bridge' = bridge
    BY <2>2
  <2>3. CASE bridge.operation = r /\ bridge' = Fail(bridge, "failed")
    <3>1. Fails(bridge, bridge', Cur(bridge).turnId)
      BY <2>3, FailEffect DEF IInv, TypeOK, Outcomes
    <3>. QED BY <2>3, <3>1 DEF Fails, Dropped, Settles
  <2>. QED BY <2>1, <2>2, <2>3 DEF DriveCatches
<1>2. Spec => []IInv
  BY CallsAccounted DEF IInv
<1>. QED BY <1>1, <1>2, PTL DEF Spec, FailureStaysHome

=============================================================================
