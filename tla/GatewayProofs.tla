---------------------------- MODULE GatewayProofs ---------------------------
(***************************************************************************)
(* Theorems about Gateway, for any set of clients: every safety property   *)
(* that its runs check.                                                    *)
(*                                                                         *)
(* The first part is about one connection: what each handler keeps (Good)  *)
(* and what it may not do (Step).  The second is about the process.        *)
(***************************************************************************)
EXTENDS Gateway, TLAPS

\* What holds of a connection between two handlers.
Good(t) ==
    /\ t \in Connection
    /\ t.peer = "none" <=> t.answered # "upgraded"
    /\ t.heads <= 1
    /\ t.answered # "no" => t.heads = 1
    /\ t.kind = "none" => t.promise = "none" /\ t.heads = 0
    /\ t.promise = "none" => t.request = "none" /\ t.answered = "no" /\ ~t.deadline
    /\ t.promise \in {"pending", "rejected"} /\ t.answered = "no" => t.heads = 0
    /\ t.kind = "upgrade" /\ t.promise = "rejected" => t.answered = "no"
    /\ t.kind = "upgrade" /\ t.promise = "pending" => t.request # "none"
    /\ t.kind = "request" /\ t.promise = "resolved" =>
         t.answered = "response" /\ t.request = "done"
    /\ t.kind = "request" => t.answered # "upgraded" /\ t.promise # "none"
    /\ t.request \in {"open", "response"} => t.promise = "pending"
    /\ t.request \in {"none", "open"} => t.answered = "no"
    /\ t.request = "response" => t.answered = "response"
    /\ t.peer = "open" => t.promise = "pending"
    /\ t.deadline <=> /\ t.promise = "pending" /\ t.answered # "upgraded"
                      /\ ~Reading(t)
    /\ t.client = "none" => t.kind = "none"
    /\ t.client = "http" => t.kind # "upgrade"
    /\ t.client \in {"open", "ended"} => t.kind = "upgrade"
    /\ t.client = "closed" => t.promise # "pending"
    /\ FinalEnd(t) =>
         \/ t.answered = "no" /\ t.heads = 1
         \/ t.answered = "upgraded" /\ t.eof
         \/ t.answered = "response" /\ t.request = "done"

\* A tunnel that close() would have to cut.
Live(t) == t.kind = "upgrade" /\ t.promise = "pending" /\ ~Gone(t)

\* No handler but that of an upgrade makes a tunnel live, and none brings a
\* closed connection back.
Step(t, u) ==
    /\ Good(u)
    /\ Live(u) => Live(t)
    /\ t.client \in {"none", "closed"} => u.client = t.client

\* Where the process is.
Stages ==
    /\ stop # "no" => closed /\ sockets = {}
    /\ stop = "done" => child = "reaped" /\ ~dir
    /\ child = "reaped" => closed
    /\ start = "begin" <=> child = "none"
    /\ start = "begin" => stop = "no"
    /\ start # "ready" => closed /\ server = "none"
    /\ start \in {"poll", "read"} => stop = "no"
    /\ start = "closing" => stop # "no" /\ down = "no"
    /\ start = "failed" => stop = "done" /\ down = "done"
    /\ start \in {"begin", "poll", "read"} => down = "no"
    /\ start = "ready" /\ down = "no" => stop = "no"
    /\ start = "ready" /\ server = "none" => down = "no"
    /\ down = "runtime" => stop # "no"
    /\ down \in {"connections", "done"} => stop = "done"
    /\ down # "no" => server # "listening"
    /\ down = "done" \/ server = "none" =>
         \A c \in Clients : conn[c].client \in {"none", "closed"}

IInv ==
    /\ TypeOK /\ Stages
    /\ \A c \in Clients : Good(conn[c]) /\ (Live(conn[c]) => c \in sockets)

-----------------------------------------------------------------------------
(* What the operators on sockets and promises change of a connection.       *)

SameHandshake(t, u) ==
    /\ u \in Connection
    /\ u.kind = t.kind /\ u.fin = t.fin /\ u.heads = t.heads
    /\ u.answered = t.answered /\ u.eof = t.eof

ClientOnly(t, u) ==
    /\ SameHandshake(t, u) /\ u.request = t.request /\ u.peer = t.peer
    /\ u.promise = t.promise /\ u.deadline = t.deadline

IsDestroyed(t, u) ==
    /\ ClientOnly(t, u)
    /\ t.client \in {"http", "open", "ended"} => u.client = "destroyed"
    /\ t.client \notin {"http", "open", "ended"} => u.client = t.client

IsEnded(t, u) ==
    /\ ClientOnly(t, u)
    /\ t.client # "open" => u.client = t.client
    /\ t.client = "open" => u.client \in {"ended", "destroyed"}

IsDropped(t, u) ==
    /\ SameHandshake(t, u) /\ u.client = t.client
    /\ u.promise = t.promise /\ u.deadline = t.deadline
    /\ t.request \in {"open", "response"} => u.request = "destroyed"
    /\ t.request \notin {"open", "response"} => u.request = t.request
    /\ t.peer = "open" => u.peer = "dead"
    /\ t.peer # "open" => u.peer = t.peer

\* From t, whose promise is pending, to u.
IsSettled(t, u, outcome) ==
    /\ SameHandshake(t, u) /\ u.client = t.client
    /\ u.request = t.request /\ u.peer = t.peer
    /\ u.promise = outcome /\ ~u.deadline

\* socket.destroy() changes nothing but the client's socket.
LEMMA DestroyedFields ==
  ASSUME NEW t \in Connection PROVE IsDestroyed(t, Destroyed(t))
<1>1. CASE t.client \in {"http", "open", "ended"}
  BY <1>1 DEF Destroyed, Connection, IsDestroyed, ClientOnly, SameHandshake
<1>2. CASE ~(t.client \in {"http", "open", "ended"})
  BY <1>2 DEF Destroyed, IsDestroyed, ClientOnly, SameHandshake
<1>. QED BY <1>1, <1>2

\* Neither does socket.end().
LEMMA EndedFields ==
  ASSUME NEW t \in Connection PROVE IsEnded(t, Ended(t))
<1>1. CASE t.client = "open" /\ t.fin
  BY <1>1 DEF Ended, Connection, IsEnded, ClientOnly, SameHandshake
<1>2. CASE t.client = "open" /\ ~t.fin
  BY <1>2 DEF Ended, Connection, IsEnded, ClientOnly, SameHandshake
<1>3. CASE t.client # "open"
  BY <1>3 DEF Ended, IsEnded, ClientOnly, SameHandshake
<1>4. t.fin \in BOOLEAN
  BY DEF Connection
<1>. QED BY <1>1, <1>2, <1>3, <1>4

\* DropUpstream changes the request and the peer.
LEMMA DropFields ==
  ASSUME NEW t \in Connection PROVE IsDropped(t, DropUpstream(t))
<1> DEFINE u == DropUpstream(t)
<1>1. CASE t.request \in {"open", "response"} /\ t.peer = "open"
  <2>1. u = [t EXCEPT !.request = "destroyed", !.peer = "dead"]
    BY <1>1 DEF DropUpstream
  <2>. QED BY <1>1, <2>1 DEF Connection, IsDropped, SameHandshake
<1>2. CASE t.request \in {"open", "response"} /\ t.peer # "open"
  <2>1. u = [t EXCEPT !.request = "destroyed", !.peer = t.peer]
    BY <1>2 DEF DropUpstream
  <2>. QED BY <1>2, <2>1 DEF Connection, IsDropped, SameHandshake
<1>3. CASE ~(t.request \in {"open", "response"}) /\ t.peer = "open"
  <2>1. u = [t EXCEPT !.request = t.request, !.peer = "dead"]
    BY <1>3 DEF DropUpstream
  <2>. QED BY <1>3, <2>1 DEF Connection, IsDropped, SameHandshake
<1>4. CASE ~(t.request \in {"open", "response"}) /\ t.peer # "open"
  <2>1. u = [t EXCEPT !.request = t.request, !.peer = t.peer]
    BY <1>4 DEF DropUpstream
  <2>. QED BY <1>4, <2>1 DEF Connection, IsDropped, SameHandshake
<1>. QED BY <1>1, <1>2, <1>3, <1>4

\* settle changes the promise and the deadline.
LEMMA SettleFields ==
  ASSUME NEW t \in Connection, t.promise = "pending",
         NEW outcome \in {"resolved", "rejected"}
  PROVE  IsSettled(t, Settle(t, outcome), outcome)
BY DEF Settle, Settled, Connection, IsSettled, SameHandshake

-----------------------------------------------------------------------------
(* The handlers of one connection *)

\* An absent connection is good.
LEMMA AbsentGood == Good(Absent)
BY DEF Good, Absent, Connection, Reading, FinalEnd

\* socket.destroy() can come at any time.
LEMMA DestroyedStep ==
  ASSUME NEW t, Good(t) PROVE Step(t, Destroyed(t))
<1> DEFINE u == Destroyed(t)
<1>1. IsDestroyed(t, u)
  BY DestroyedFields DEF Good
<1>2. Step(t, u)
  <2>. HIDE DEF u
  <2>. QED BY <1>1 DEF IsDestroyed, ClientOnly, SameHandshake,
                       Step, Good, Live, Gone, Reading, FinalEnd
<1>. QED BY <1>2

\* fail drops the runtime's side and settles: by rejection while no response
\* has started, else by destroying the client's socket.
LEMMA FailStep ==
  ASSUME NEW t, Good(t), t.kind = "upgrade", t.promise = "pending"
  PROVE  Step(t, Fail(t))
<1> DEFINE d == DropUpstream(t)
<1>1. t \in Connection /\ IsDropped(t, d)
  BY DropFields DEF Good
<1>2. CASE t.answered # "no"
  <2> DEFINE e == Destroyed(d)
             u == Settle(e, "resolved")
  <2>1. IsDestroyed(d, e)
    BY <1>1, DestroyedFields DEF IsDropped, SameHandshake
  <2>2. IsSettled(e, u, "resolved")
    BY <1>1, <2>1, SettleFields DEF IsDropped, IsDestroyed, ClientOnly, SameHandshake
  <2>3. Step(t, u)
    <3>. HIDE DEF d, e, u
    <3>. QED BY <1>1, <1>2, <2>1, <2>2
             DEF IsDropped, IsDestroyed, IsSettled, ClientOnly, SameHandshake,
                 Step, Good, Live, Gone, Reading, FinalEnd
  <2>. QED BY <1>2, <2>3 DEF Fail
<1>3. CASE t.answered = "no"
  <2> DEFINE u == Settle(d, "rejected")
  <2>1. IsSettled(d, u, "rejected")
    BY <1>1, SettleFields DEF IsDropped, SameHandshake
  <2>2. Step(t, u)
    <3>. HIDE DEF d, u
    <3>. QED BY <1>1, <1>3, <2>1
             DEF IsDropped, IsSettled, SameHandshake,
                 Step, Good, Live, Gone, Reading, FinalEnd
  <2>. QED BY <1>3, <2>2 DEF Fail
<1>. QED BY <1>2, <1>3

\* An aborted tunnel, whatever its state.
LEMMA AbortStep ==
  ASSUME NEW t, Good(t), t.kind = "upgrade", t.promise # "none"
  PROVE  Step(t, OnAbort(t))
<1> DEFINE d == DropUpstream(t)
           e == Destroyed(d)
           u == Settle(e, "resolved")
<1>1. t \in Connection /\ IsDropped(t, d)
  BY DropFields DEF Good
<1>2. e \in Connection /\ IsDestroyed(d, e)
  BY <1>1, DestroyedFields DEF IsDropped, SameHandshake, IsDestroyed, ClientOnly
<1>3. CASE t.promise = "pending"
  <2>1. IsSettled(e, u, "resolved")
    BY <1>1, <1>2, <1>3, SettleFields DEF IsDropped, IsDestroyed, ClientOnly
  <2>2. Step(t, u)
    <3>. HIDE DEF d, e, u
    <3>. QED BY <1>1, <1>2, <1>3, <2>1
             DEF IsDropped, IsDestroyed, IsSettled, ClientOnly, SameHandshake,
                 Step, Good, Live, Gone, Reading, FinalEnd
  <2>. QED BY <2>2 DEF OnAbort
<1>4. CASE t.promise # "pending"
  <2>1. Settled(e)
    BY <1>1, <1>2, <1>4 DEF IsDropped, IsDestroyed, ClientOnly, Settled, Connection
  <2>2. u = e
    BY <2>1 DEF Settle
  <2>3. Step(t, u)
    <3>. HIDE DEF d, e, u
    <3>. QED BY <1>1, <1>2, <1>4, <2>2
             DEF IsDropped, IsDestroyed, ClientOnly, SameHandshake,
                 Step, Good, Live, Gone, Reading, FinalEnd
  <2>. QED BY <2>3 DEF OnAbort
<1>. QED BY <1>3, <1>4

\* The close event of a tunnel's client.
LEMMA CloseStep ==
  ASSUME NEW t, Good(t), t.kind = "upgrade", t.client = "destroyed"
  PROVE  Step(t, OnClose(t))
<1> DEFINE k == [t EXCEPT !.client = "closed"]
<1>1. CASE t.promise = "none"
  BY <1>1 DEF OnClose, Step, Good, Live, Gone, Reading, FinalEnd, Connection
<1>2. CASE t.promise # "none"
  <2> DEFINE d == DropUpstream(k)
             e == Destroyed(d)
             u == Settle(e, "resolved")
  <2>1. /\ t \in Connection /\ k \in Connection /\ k.client = "closed"
        /\ k.kind = t.kind /\ k.fin = t.fin /\ k.heads = t.heads
        /\ k.promise = t.promise /\ k.answered = t.answered
        /\ k.request = t.request /\ k.peer = t.peer /\ k.eof = t.eof
        /\ k.deadline = t.deadline
    BY DEF Good, Connection
  <2>2. IsDropped(k, d)
    BY <2>1, DropFields
  <2>3. IsDestroyed(d, e)
    BY <2>2, DestroyedFields DEF IsDropped, SameHandshake
  <2>4. CASE t.promise = "pending"
    <3>1. IsSettled(e, u, "resolved")
      <4>. HIDE DEF k
      <4>. QED BY <2>1, <2>2, <2>3, <2>4, SettleFields
               DEF IsDropped, IsDestroyed, ClientOnly, SameHandshake
    <3>2. Step(t, u)
      <4>. HIDE DEF k, d, e, u
      <4>. QED BY <2>1, <2>2, <2>3, <2>4, <3>1
               DEF IsDropped, IsDestroyed, IsSettled, ClientOnly, SameHandshake,
                   Step, Good, Live, Gone, Reading, FinalEnd
    <3>. QED BY <1>2, <3>2 DEF OnClose, OnAbort
  <2>5. CASE t.promise # "pending"
    <3>1. u = e
      <4>. HIDE DEF k
      <4>. QED BY <1>2, <2>1, <2>2, <2>3, <2>5
               DEF IsDropped, IsDestroyed, ClientOnly, Settle, Settled, Connection
    <3>2. Step(t, u)
      <4>. HIDE DEF k, d, e, u
      <4>. QED BY <2>1, <2>2, <2>3, <2>5, <3>1
               DEF IsDropped, IsDestroyed, ClientOnly, SameHandshake,
                   Step, Good, Live, Gone, Reading, FinalEnd
    <3>. QED BY <1>2, <3>2 DEF OnClose, OnAbort
  <2>. QED BY <2>4, <2>5
<1>. QED BY <1>1, <1>2

\* Handlers compose.
LEMMA StepTwice ==
  ASSUME NEW t, NEW k, NEW u, Step(t, k), Step(k, u) PROVE Step(t, u)
BY DEF Step

\* The upgrade event of the request.
LEMMA UpgradeStep ==
  ASSUME NEW t, Good(t), t.kind = "upgrade", t.request = "open",
         NEW valid \in BOOLEAN
  PROVE  Step(t, OnUpgrade(t, valid))
<1> DEFINE k == [t EXCEPT !.request = "done"]
<1>1. t \in Connection /\ t.promise = "pending" /\ ~Settled(t)
  BY DEF Good, Settled
<1>2. Step(t, k) /\ k.kind = "upgrade" /\ k.promise = "pending"
  BY <1>1 DEF Step, Good, Live, Gone, Reading, FinalEnd, Connection
<1>3. CASE Gone(t)
  BY <1>2, <1>3 DEF OnUpgrade
<1>4. CASE ~Gone(t) /\ ~valid
  <2>1. Step(k, Fail(k))
    <3>. HIDE DEF k
    <3>. QED BY <1>2, FailStep DEF Step
  <2>2. OnUpgrade(t, valid) = Fail(k)
    BY <1>1, <1>4 DEF OnUpgrade
  <2>. QED BY <1>2, <2>1, <2>2, StepTwice
<1>5. CASE ~Gone(t) /\ valid
  <2> DEFINE u == OnUpgrade(t, valid)
  <2>1. t.heads = 0 /\ t.answered = "no" /\ t.client \notin {"none", "http"}
    BY <1>1 DEF Good
  <2>2. u = [t EXCEPT !.request = "done", !.answered = "upgraded",
                      !.deadline = FALSE, !.peer = "open", !.heads = 1]
    BY <1>1, <1>5, <2>1 DEF OnUpgrade
  <2>. HIDE DEF u
  <2>3. u \in Connection
    BY <1>1, <2>2 DEF Connection
  <2>4. /\ u.request = "done" /\ u.answered = "upgraded" /\ ~u.deadline
        /\ u.peer = "open" /\ u.heads = 1
    BY <1>1, <2>2 DEF Connection
  <2>5. /\ u.client = t.client /\ u.kind = t.kind /\ u.fin = t.fin
        /\ u.promise = t.promise /\ u.eof = t.eof
    BY <1>1, <2>2 DEF Connection
  <2>6. Step(t, u)
    BY <1>1, <1>5, <2>1, <2>3, <2>4, <2>5
       DEF Step, Good, Live, Gone, Reading, FinalEnd
  <2>. QED BY <2>6 DEF u
<1>. QED BY <1>3, <1>4, <1>5

\* The response event of the request.
LEMMA ResponseStep ==
  ASSUME NEW t, Good(t), t.kind = "upgrade", t.request = "open"
  PROVE  Step(t, OnResponse(t))
<1>1. t \in Connection /\ t.promise = "pending" /\ ~Settled(t)
  BY DEF Good, Settled
<1>2. CASE Gone(t)
  BY <1>1, <1>2 DEF OnResponse, Step, Good, Live, Gone, Reading, FinalEnd, Connection
<1>3. CASE ~Gone(t)
  <2> DEFINE u == OnResponse(t)
  <2>1. t.heads = 0 /\ t.answered = "no" /\ t.client \notin {"none", "http", "ended"}
    BY <1>1 DEF Good, FinalEnd
  <2>2. u = [t EXCEPT !.request = "response", !.answered = "response",
                      !.heads = 1]
    BY <1>1, <1>3, <2>1 DEF OnResponse
  <2>. HIDE DEF u
  <2>3. u \in Connection
    BY <1>1, <2>2 DEF Connection
  <2>4. /\ u.request = "response" /\ u.answered = "response"
        /\ u.heads = 1
    BY <1>1, <2>2 DEF Connection
  <2>5. /\ u.client = t.client /\ u.kind = t.kind /\ u.fin = t.fin
        /\ u.promise = t.promise /\ u.eof = t.eof
        /\ u.peer = t.peer /\ u.deadline = t.deadline
    BY <1>1, <2>2 DEF Connection
  <2>6. Step(t, u)
    BY <1>1, <1>3, <2>1, <2>3, <2>4, <2>5
       DEF Step, Good, Live, Gone, Reading, FinalEnd
  <2>. QED BY <2>6 DEF u
<1>. QED BY <1>2, <1>3

\* The end of a response that took the place of the upgrade.
LEMMA ResponseEndStep ==
  ASSUME NEW t, Good(t), t.kind = "upgrade", t.request = "response"
  PROVE  Step(t, OnResponseEnd(t))
<1> DEFINE k == [t EXCEPT !.request = "done"]
           u == Ended(k)
<1>1. t \in Connection /\ t.promise = "pending" /\ t.answered = "response"
  BY DEF Good
<1>2. Step(t, k) /\ k.request = "done" /\ k.answered = t.answered /\ k.heads = t.heads
  BY <1>1 DEF Step, Good, Live, Gone, Reading, FinalEnd, Connection
<1>3. IsEnded(k, u)
  BY <1>2, EndedFields DEF Step, Good
<1>4. Step(k, u)
  <2>. HIDE DEF k, u
  <2>. QED BY <1>1, <1>2, <1>3 DEF IsEnded, ClientOnly, SameHandshake,
                Step, Good, Live, Gone, Reading, FinalEnd
<1>. QED BY <1>2, <1>4, StepTwice DEF OnResponseEnd

\* The end event of the upstream socket.
LEMMA PeerEndStep ==
  ASSUME NEW t, Good(t), t.peer = "open" PROVE Step(t, OnPeerEnd(t))
<1> DEFINE k == [t EXCEPT !.eof = TRUE]
           u == Ended(k)
<1>1. t \in Connection /\ t.answered = "upgraded"
  BY DEF Good
<1>2. Step(t, k) /\ k.eof /\ k.answered = "upgraded"
  BY <1>1 DEF Step, Good, Live, Gone, Reading, FinalEnd, Connection
<1>3. IsEnded(k, u)
  BY <1>2, EndedFields DEF Step, Good
<1>4. Step(k, u)
  <2>. HIDE DEF k, u
  <2>. QED BY <1>1, <1>2, <1>3 DEF IsEnded, ClientOnly, SameHandshake,
                Step, Good, Live, Gone, Reading, FinalEnd
<1>. QED BY <1>2, <1>4, StepTwice DEF OnPeerEnd

\* Its error event.
LEMMA PeerErrorStep ==
  ASSUME NEW t, Good(t), t.peer = "open" PROVE Step(t, OnPeerError(t))
<1> DEFINE k == [t EXCEPT !.peer = "dead"]
<1>1. /\ t \in Connection /\ t.answered = "upgraded" /\ t.promise = "pending"
      /\ t.kind = "upgrade"
  BY DEF Good, Connection
<1>2. Step(t, k) /\ k.kind = "upgrade" /\ k.promise = "pending"
  BY <1>1 DEF Step, Good, Live, Gone, Reading, FinalEnd, Connection
<1>3. Step(k, Fail(k))
  <2>. HIDE DEF k
  <2>. QED BY <1>2, FailStep DEF Step
<1>. QED BY <1>2, <1>3, StepTwice DEF OnPeerError

\* Its close event, after an end or without one.
LEMMA PeerCloseStep ==
  ASSUME NEW t, Good(t), t.peer \in {"open", "dead"} PROVE Step(t, OnPeerClose(t))
<1> DEFINE k == [t EXCEPT !.peer = "closed"]
           u == Ended(k)
<1>1. t \in Connection /\ t.answered = "upgraded"
  BY DEF Good
<1>2. Step(t, k) /\ k.eof = t.eof /\ k.answered = "upgraded" /\ k \in Connection
  BY <1>1 DEF Step, Good, Live, Gone, Reading, FinalEnd, Connection
<1>3. CASE t.eof
  <2>1. IsEnded(k, u)
    BY <1>2, EndedFields
  <2>2. Step(k, u)
    <3>. HIDE DEF k, u
    <3>. QED BY <1>1, <1>2, <1>3, <2>1 DEF IsEnded, ClientOnly, SameHandshake,
                  Step, Good, Live, Gone, Reading, FinalEnd
  <2>. QED BY <1>2, <1>3, <2>2, StepTwice DEF OnPeerClose
<1>4. CASE ~t.eof
  <2>1. Step(k, Destroyed(k))
    BY <1>2, DestroyedStep DEF Step
  <2>. QED BY <1>2, <1>4, <2>1, StepTwice DEF OnPeerClose
<1>. QED BY <1>3, <1>4

\* A refused handshake, on a connection that has carried nothing.
LEMMA DenyUnusedStep ==
  ASSUME NEW t, Good(t), t.kind = "none", t.client = "http"
  PROVE  Step(t, Deny([t EXCEPT !.client = "open", !.kind = "upgrade"]))
<1> DEFINE k == [t EXCEPT !.client = "open", !.kind = "upgrade"]
           h == [k EXCEPT !.heads = @ + 1]
           u == Ended(h)
<1>1. t \in Connection /\ t.promise = "none" /\ t.heads = 0
  BY DEF Good
<1>2. k \in Connection /\ k.client = "open" /\ k.kind = "upgrade" /\ k.heads = 0
  BY <1>1 DEF Connection
<1>3. /\ k.promise = t.promise /\ k.answered = t.answered /\ k.request = t.request
      /\ k.peer = t.peer /\ k.deadline = t.deadline
  BY <1>1 DEF Connection
<1>4. /\ h \in Connection /\ h.client = "open" /\ h.kind = "upgrade" /\ h.heads = 1
      /\ h.promise = t.promise /\ h.answered = t.answered /\ h.request = t.request
      /\ h.peer = t.peer /\ h.deadline = t.deadline
  <2>. HIDE DEF k
  <2>. QED BY <1>2, <1>3 DEF Connection
<1>5. IsEnded(h, u)
  BY <1>4, EndedFields
<1>6. Step(t, u)
  <2>. HIDE DEF k, h, u
  <2>. QED BY <1>1, <1>4, <1>5 DEF IsEnded, ClientOnly, SameHandshake,
                Step, Good, Live, Gone, Reading, FinalEnd
<1>7. Deny(k) = u
  BY <1>2 DEF Deny
<1>. QED BY <1>6, <1>7

\* The body of a request starts to be read.
LEMMA ReceivedStep ==
  ASSUME NEW t, Good(t), t.kind = "none", t.client = "http"
  PROVE  Step(t, Received(t))
BY DEF Received, Step, Good, Live, Gone, Reading, FinalEnd, Connection

\* The body has been read.
LEMMA RequestedStep ==
  ASSUME NEW t, Good(t), Reading(t), t.client = "http"
  PROVE  Step(t, Requested(t))
BY DEF Requested, Step, Good, Live, Gone, Reading, FinalEnd, Connection

\* A request is given up.
LEMMA AbandonStep ==
  ASSUME NEW t, Good(t), t.kind = "request", t.promise = "pending"
  PROVE  Step(t, Abandon(t))
<1> DEFINE r == IF t.request \in {"open", "response"} THEN "destroyed" ELSE t.request
           k == [t EXCEPT !.request = IF @ \in {"open", "response"}
                                       THEN "destroyed" ELSE @,
                          !.promise = "rejected", !.deadline = FALSE]
<1>1. t \in Connection
  BY DEF Good
<1>2. k = [t EXCEPT !.request = r, !.promise = "rejected", !.deadline = FALSE]
  BY <1>1 DEF Connection
<1>3. Step(t, k)
  BY <1>1 DEF Step, Good, Live, Gone, Reading, FinalEnd, Connection
<1>4. Step(k, Destroyed(k))
  <2>. HIDE DEF k
  <2>. QED BY <1>3, DestroyedStep DEF Step
<1>. QED BY <1>3, <1>4, StepTwice DEF Abandon

\* The client of a request that is being relayed is gone.
LEMMA AbandonClosedStep ==
  ASSUME NEW t, Good(t), t.kind = "request", t.promise = "pending",
         t.client = "destroyed"
  PROVE  Step(t, Abandon([t EXCEPT !.client = "closed"]))
<1> DEFINE k == [t EXCEPT !.client = "closed"]
           l == [k EXCEPT !.request = IF @ \in {"open", "response"}
                                       THEN "destroyed" ELSE @,
                          !.promise = "rejected", !.deadline = FALSE]
<1>1. /\ t \in Connection /\ k \in Connection /\ k.client = "closed"
      /\ k.kind = t.kind /\ k.heads = t.heads /\ k.answered = t.answered
      /\ k.request = t.request /\ k.peer = t.peer /\ k.eof = t.eof
  BY DEF Good, Connection
<1>2. Step(t, l) /\ l.client = "closed"
  <2>. HIDE DEF k
  <2>. QED BY <1>1 DEF Step, Good, Live, Gone, Reading, FinalEnd, Connection
<1>3. Destroyed(l) = l
  <2>. HIDE DEF l
  <2>. QED BY <1>2 DEF Destroyed
<1>. QED BY <1>2, <1>3 DEF Abandon

\* The runtime has started to answer it.
LEMMA RespondStep ==
  ASSUME NEW t, Good(t), t.kind = "request", t.request = "open"
  PROVE  Step(t, Respond(t))
<1>1. t \in Connection /\ t.heads = 0 /\ t.promise = "pending" /\ t.answered = "no"
  BY DEF Good
<1> DEFINE u == Respond(t)
<1>2. u = [t EXCEPT !.request = "response", !.answered = "response", !.heads = 1]
  BY <1>1 DEF Respond
<1>3. /\ u \in Connection /\ u.request = "response" /\ u.answered = "response"
      /\ u.heads = 1
  <2>. HIDE DEF u
  <2>. QED BY <1>1, <1>2 DEF Connection
<1>4. /\ u.client = t.client /\ u.kind = t.kind /\ u.promise = t.promise
      /\ u.peer = t.peer /\ u.eof = t.eof /\ u.deadline = t.deadline
  <2>. HIDE DEF u
  <2>. QED BY <1>1, <1>2 DEF Connection
<1>5. Step(t, u)
  <2>. HIDE DEF u
  <2>. QED BY <1>1, <1>3, <1>4 DEF Step, Good, Live, Gone, Reading, FinalEnd
<1>. QED BY <1>5

\* Its answer has been relayed.
LEMMA CompleteStep ==
  ASSUME NEW t, Good(t), t.kind = "request", t.request = "response"
  PROVE  Step(t, Complete(t))
<1>1. t \in Connection /\ t.promise = "pending" /\ t.answered = "response"
  BY DEF Good
<1>. QED BY <1>1 DEF Complete, Step, Good, Live, Gone, Reading, FinalEnd, Connection

\* Its promise returns to the server.
LEMMA ReportStep ==
  ASSUME NEW t, Good(t), t.kind = "request", t.promise \in {"resolved", "rejected"}
  PROVE  Step(t, Report(t))
<1> DEFINE k == [t EXCEPT !.promise = "returned"]
<1>1. /\ t \in Connection /\ k \in Connection /\ k.promise = "returned"
      /\ k.client = t.client /\ k.kind = t.kind /\ k.heads = t.heads
      /\ k.answered = t.answered /\ k.request = t.request
      /\ k.peer = t.peer /\ k.eof = t.eof /\ k.deadline = t.deadline
  BY DEF Good, Connection
<1>2. CASE t.promise = "resolved"
  BY <1>1, <1>2 DEF Report, Step, Good, Live, Gone, Reading, FinalEnd
<1>3. CASE t.promise = "rejected" /\ t.answered # "no"
  <2> DEFINE u == Destroyed(k)
  <2>1. IsDestroyed(k, u)
    BY <1>1, DestroyedFields
  <2>2. Step(t, u)
    <3>. HIDE DEF k, u
    <3>. QED BY <1>1, <1>3, <2>1 DEF IsDestroyed, ClientOnly, SameHandshake,
                  Step, Good, Live, Gone, Reading, FinalEnd
  <2>. QED BY <1>3, <2>2 DEF Report
<1>4. CASE t.promise = "rejected" /\ t.answered = "no" /\ Gone(t)
  BY <1>1, <1>4 DEF Report, Step, Good, Live, Gone, Reading, FinalEnd
<1>5. CASE t.promise = "rejected" /\ t.answered = "no" /\ ~Gone(t)
  <2> DEFINE h == [k EXCEPT !.heads = 1]
  <2>1. t.heads = 0 /\ k.heads + 1 = 1
    BY <1>1, <1>5 DEF Good
  <2>2. /\ h \in Connection /\ h.promise = "returned" /\ h.heads = 1
        /\ h.client = t.client /\ h.kind = t.kind /\ h.answered = t.answered
        /\ h.request = t.request /\ h.peer = t.peer /\ h.deadline = t.deadline
    <3>. HIDE DEF k
    <3>. QED BY <1>1 DEF Connection
  <2>3. Step(t, h)
    <3>. HIDE DEF k, h
    <3>. QED BY <1>1, <1>5, <2>1, <2>2 DEF Step, Good, Live, Gone, Reading, FinalEnd
  <2>4. Report(t) = h
    <3>1. Report(t) = [k EXCEPT !.heads = k.heads + 1]
      BY <1>1, <1>5 DEF Report
    <3>. HIDE DEF k
    <3>. QED BY <2>1, <3>1
  <2>. QED BY <2>3, <2>4
<1>. QED BY <1>2, <1>3, <1>4, <1>5

\* The promise of a tunnel returns to the server, which denies the handshake
\* when it was rejected.
LEMMA TunnelReturnStep ==
  ASSUME NEW t, Good(t), t.kind = "upgrade", t.promise \in {"resolved", "rejected"}
  PROVE  LET k == [t EXCEPT !.promise = "returned"]
         IN Step(t, k) /\ (t.promise = "rejected" => Step(t, Deny(k)))
<1> DEFINE k == [t EXCEPT !.promise = "returned"]
           h == [k EXCEPT !.heads = 1]
           u == Ended(h)
<1>1. /\ t \in Connection /\ k \in Connection /\ k.promise = "returned"
      /\ k.client = t.client /\ k.kind = t.kind /\ k.heads = t.heads
      /\ k.answered = t.answered /\ k.request = t.request
      /\ k.peer = t.peer /\ k.eof = t.eof /\ k.deadline = t.deadline
  BY DEF Good, Connection
<1>2. Step(t, k)
  BY <1>1 DEF Step, Good, Live, Gone, Reading, FinalEnd
<1>3. CASE t.promise = "rejected" /\ t.client = "open"
  <2>1. t.answered = "no" /\ t.heads = 0
    BY <1>3 DEF Good
  <2>2. /\ h \in Connection /\ h.promise = "returned" /\ h.heads = 1
        /\ h.client = "open" /\ h.kind = "upgrade" /\ h.answered = "no"
        /\ h.request = t.request /\ h.peer = t.peer /\ h.deadline = t.deadline
    <3>. HIDE DEF k
    <3>. QED BY <1>1, <1>3, <2>1 DEF Connection
  <2>3. IsEnded(h, u)
    BY <2>2, EndedFields
  <2>4. Step(t, u)
    <3>. HIDE DEF k, h, u
    <3>. QED BY <1>1, <1>3, <2>1, <2>2, <2>3 DEF IsEnded, ClientOnly, SameHandshake,
                  Step, Good, Live, Gone, Reading, FinalEnd
  <2>5. Deny(k) = u
    <3>1. k.heads + 1 = 1 /\ k.client = "open"
      BY <1>1, <1>3, <2>1
    <3>. HIDE DEF k
    <3>. QED BY <3>1 DEF Deny
  <2>. QED BY <1>2, <2>4, <2>5
<1>4. CASE t.client # "open"
  BY <1>1, <1>2, <1>4 DEF Deny
<1>. QED BY <1>2, <1>3, <1>4

\* The deadline, or an error of the request or of its response.
LEMMA GiveUpStep ==
  ASSUME NEW t, Good(t), t.promise = "pending" PROVE Step(t, GiveUp(t))
<1>1. t.kind \in {"request", "upgrade"}
  BY DEF Good, Connection
<1>. QED BY <1>1, AbandonStep, FailStep DEF GiveUp

\* A new tunnel is good, but live.
LEMMA BegunGood ==
  ASSUME NEW t, Good(t), t.kind = "none", t.client = "http" PROVE Good(Begun(t))
BY DEF Begun, Good, Gone, Reading, FinalEnd, Connection

-----------------------------------------------------------------------------
(* The process *)

\* IInv holds of the initial states.
LEMMA InitIInv == Init => IInv
<1> SUFFICES ASSUME Init PROVE IInv
  OBVIOUS
<1>1. \A c \in Clients : conn[c] = Absent
  BY DEF Init
<1>2. Absent \in Connection /\ ~Live(Absent)
  BY DEF Absent, Connection, Live
<1>3. TypeOK
  BY <1>1, <1>2 DEF Init, TypeOK, Absent
<1>4. Stages
  BY <1>1 DEF Init, Stages, Absent
<1>. QED BY <1>1, <1>2, <1>3, <1>4, AbsentGood DEF IInv

\* An action of one connection keeps IInv when its handler is a Step, and when
\* it takes only a tunnel that is over out of the runtime's set.
LEMMA HandlerIInv ==
  ASSUME IInv, NEW c \in Clients, NEW t, Step(conn[c], t),
         conn' = [conn EXCEPT ![c] = t],
         sockets' = sockets \/ (sockets' = sockets \ {c} /\ ~Live(conn[c])),
         UNCHANGED <<runtimeVars, mainVars>>
  PROVE  IInv'
<1>1. conn \in [Clients -> Connection]
  BY DEF IInv, TypeOK
<1>2. t \in Connection /\ Good(t) /\ (t.peer = "none" <=> t.answered # "upgraded")
  BY DEF Step, Good
<1>3. \A d \in Clients : conn'[d] = IF d = c THEN t ELSE conn[d]
  BY <1>1
<1>4. TypeOK'
  <2>1. conn' \in [Clients -> Connection]
    BY <1>1, <1>2
  <2>2. \A d \in Clients : conn'[d].peer = "none" <=> conn'[d].answered # "upgraded"
    BY <1>2, <1>3 DEF IInv, TypeOK
  <2>. QED BY <2>1, <2>2 DEF IInv, TypeOK, runtimeVars, mainVars
<1>5. \A d \in Clients :
        conn[d].client \in {"none", "closed"} => conn'[d].client = conn[d].client
  BY <1>3 DEF Step
<1>6. Stages'
  BY <1>5 DEF IInv, Stages, runtimeVars, mainVars
<1>7. \A d \in Clients : Good(conn'[d]) /\ (Live(conn'[d]) => d \in sockets')
  BY <1>2, <1>3 DEF IInv, Step
<1>. QED BY <1>4, <1>6, <1>7 DEF IInv

\* An action of one connection alone keeps IInv when its handler is a Step.
LEMMA BecomesIInv ==
  ASSUME IInv, NEW c \in Clients, NEW t, Becomes(c, t), Step(conn[c], t)
  PROVE  IInv'
BY HandlerIInv DEF Becomes

\* So does an action that leaves the connections alone and keeps the rest.
LEMMA ProcessIInv ==
  ASSUME IInv, UNCHANGED <<conn, sockets>>, Stages',
         child' \in {"none", "running", "dead", "reaped"},
         file' \in {"absent", "good", "bad"},
         start' \in {"begin", "poll", "read", "ready", "closing", "failed"},
         closed' \in BOOLEAN, dir' \in BOOLEAN, stop' \in {"no", "waiting", "done"},
         server' \in {"none", "listening", "closing", "closed"},
         down' \in {"no", "runtime", "connections", "done"}
  PROVE  IInv'
<1>1. TypeOK'
  BY DEF IInv, TypeOK
<1>. QED BY <1>1 DEF IInv

\* Connections of which some are destroyed.
LEMMA CutGood ==
  ASSUME IInv, NEW S, conn' = [c \in Clients |->
                                IF c \in S THEN Destroyed(conn[c]) ELSE conn[c]]
  PROVE  /\ conn' \in [Clients -> Connection]
         /\ \A c \in Clients :
              /\ Step(conn[c], conn'[c])
              /\ c \in S => ~Live(conn'[c])
<1>1. ASSUME NEW c \in Clients
      PROVE  /\ Good(conn[c]) /\ Good(conn'[c]) /\ Step(conn[c], conn'[c])
             /\ c \in S => ~Live(conn'[c])
  <2>1. Good(conn[c]) /\ Step(conn[c], Destroyed(conn[c]))
    BY DestroyedStep DEF IInv
  <2>2. Step(conn[c], conn[c])
    BY <2>1 DEF Step
  <2>3. conn'[c] = IF c \in S THEN Destroyed(conn[c]) ELSE conn[c]
    OBVIOUS
  <2>4. Step(conn[c], conn'[c])
    BY <2>1, <2>2, <2>3
  <2>5. ASSUME c \in S PROVE ~Live(conn'[c])
    <3> DEFINE t == conn[c]
               u == conn'[c]
    <3>1. IsDestroyed(t, u) /\ Good(t)
      BY <2>1, <2>3, <2>5, DestroyedFields DEF Good
    <3>2. ~Live(u)
      <4>. HIDE DEF t, u
      <4>. QED BY <3>1 DEF IsDestroyed, ClientOnly, SameHandshake, Good, Live,
                           Gone, Connection
    <3>. QED BY <3>2
  <2>. QED BY <2>1, <2>4, <2>5 DEF Step
<1>2. \A c \in Clients : conn'[c] \in Connection
  BY <1>1 DEF Good
<1>. QED BY <1>1, <1>2

\* What close() leaves: no live tunnel.
LEMMA CloseBeginsGood ==
  ASSUME IInv, CloseBegins
  PROVE  /\ conn' \in [Clients -> Connection] /\ sockets' = {}
         /\ \A c \in Clients :
              /\ Good(conn'[c]) /\ ~Live(conn'[c])
              /\ conn[c].client \in {"none", "closed"} => conn'[c].client = conn[c].client
         /\ closed' /\ stop' = "waiting"
<1>1. conn' = [c \in Clients |-> IF c \in sockets THEN Destroyed(conn[c]) ELSE conn[c]]
  BY DEF CloseBegins
<1>2. /\ conn' \in [Clients -> Connection]
      /\ \A c \in Clients : Step(conn[c], conn'[c]) /\ (c \in sockets => ~Live(conn'[c]))
  BY <1>1, CutGood
<1>. QED BY <1>2 DEF Step, IInv, CloseBegins

\* An action that begins to close the runtime keeps IInv when it leaves the
\* process where Stages allows.
LEMMA ClosingIInv ==
  ASSUME IInv, CloseBegins,
         child' = child \/ (child = "dead" /\ child' = "reaped"),
         file' = file, dir' = dir,
         \/ start' = start /\ start = "ready" /\ server' = "closing" /\ down' = "runtime"
         \/ start \in {"poll", "read"} /\ start' = "closing" /\ UNCHANGED mainVars
  PROVE  IInv'
<1>1. /\ conn' \in [Clients -> Connection] /\ sockets' = {}
      /\ closed' = TRUE /\ stop' = "waiting"
      /\ \A c \in Clients : Good(conn'[c]) /\ ~Live(conn'[c])
      /\ \A c \in Clients :
           conn[c].client \in {"none", "closed"} => conn'[c].client = conn[c].client
  BY CloseBeginsGood DEF CloseBegins
<1>2. \A c \in Clients : conn'[c].peer = "none" <=> conn'[c].answered # "upgraded"
  BY <1>1 DEF Good
<1>3. TypeOK'
  BY <1>1, <1>2 DEF IInv, TypeOK, mainVars
<1>4. Stages'
  BY <1>1 DEF IInv, Stages, TypeOK, mainVars
<1>. QED BY <1>1, <1>3, <1>4 DEF IInv

\* The actions of the runtime and its child.
LEMMA RuntimeIInv ==
  ASSUME IInv,
         \/ CloseContinues \/ Kills \/ RuntimeStarts \/ ReadsFile \/ BecomesReady
         \/ StartFails \/ StartThrows \/ ChildPublishes \/ ChildDies
  PROVE  IInv'
<1>1. CASE CloseContinues
  BY <1>1, ProcessIInv DEF CloseContinues, IInv, TypeOK, Stages, mainVars
<1>2. CASE Kills
  BY <1>2, ProcessIInv DEF Kills, IInv, TypeOK, Stages, mainVars
<1>3. CASE RuntimeStarts
  BY <1>3, ProcessIInv DEF RuntimeStarts, IInv, TypeOK, Stages, mainVars
<1>4. CASE ReadsFile
  BY <1>4, ProcessIInv DEF ReadsFile, IInv, TypeOK, Stages, mainVars
<1>5. CASE BecomesReady
  BY <1>5, ProcessIInv DEF BecomesReady, IInv, TypeOK, Stages, mainVars
<1>6. CASE StartFails
  BY <1>6, ClosingIInv DEF StartFails, IInv, TypeOK
<1>7. CASE StartThrows
  BY <1>7, ProcessIInv DEF StartThrows, IInv, TypeOK, Stages
<1>8. CASE ChildPublishes
  BY <1>8, ProcessIInv DEF ChildPublishes, IInv, TypeOK, Stages, mainVars
<1>9. CASE ChildDies
  BY <1>9, ProcessIInv DEF ChildDies, IInv, TypeOK, Stages, mainVars
<1>. QED BY <1>1, <1>2, <1>3, <1>4, <1>5, <1>6, <1>7, <1>8, <1>9

\* The actions of main.
LEMMA MainIInv ==
  ASSUME IInv,
         \/ ExitSeen \/ Listens \/ ListenFails \/ Signal
         \/ ShutdownContinues \/ ShutdownEnds
  PROVE  IInv'
<1>1. CASE ExitSeen
  <2>1. CASE server = "listening" /\ down = "no"
    <3>1. start = "ready"
      BY <2>1 DEF IInv, Stages
    <3>. QED BY <1>1, <2>1, <3>1, ClosingIInv DEF ExitSeen, FollowsExit, Shutdown
  <2>2. CASE ~(server = "listening" /\ down = "no")
    <3>1. /\ child = "dead" /\ child' = "reaped" /\ closed' = TRUE
          /\ UNCHANGED <<conn, sockets, stop, server, down, file, start, dir>>
      BY <1>1, <2>2 DEF ExitSeen, FollowsExit
    <3>2. Stages'
      BY <3>1 DEF IInv, Stages
    <3>. QED BY <3>1, <3>2, ProcessIInv DEF IInv, TypeOK
  <2>. QED BY <2>1, <2>2
<1>2. CASE Listens
  <2>1. CASE child = "reaped"
    BY <1>2, <2>1, ClosingIInv DEF Listens, Shutdown, IInv, TypeOK
  <2>2. CASE child # "reaped"
    <3>1. /\ start = "ready" /\ server = "none" /\ server' = "listening"
          /\ UNCHANGED <<conn, sockets, closed, stop, down, child, file, start, dir>>
      BY <1>2, <2>2 DEF Listens
    <3>2. Stages'
      BY <3>1 DEF IInv, Stages
    <3>. QED BY <3>1, <3>2, ProcessIInv DEF IInv, TypeOK
  <2>. QED BY <2>1, <2>2
<1>3. CASE ListenFails
  BY <1>3, ClosingIInv DEF ListenFails, Shutdown, IInv, TypeOK
<1>4. CASE Signal
  <2>1. start = "ready"
    BY <1>4 DEF Signal, IInv, Stages
  <2>. QED BY <1>4, <2>1, ClosingIInv DEF Signal, Shutdown, IInv, TypeOK
<1>5. CASE ShutdownContinues
  <2> DEFINE S == {c \in Clients : conn[c].client = "http"}
  <2>1. conn' = [c \in Clients |-> IF c \in S THEN Destroyed(conn[c]) ELSE conn[c]]
    BY <1>5 DEF ShutdownContinues
  <2>2. /\ conn' \in [Clients -> Connection]
        /\ \A c \in Clients : Step(conn[c], conn'[c])
    <3>. HIDE DEF S
    <3>. QED BY <2>1, CutGood
  <2>3. /\ down = "runtime" /\ stop = "done" /\ down' = "connections"
        /\ UNCHANGED <<sockets, child, file, start, closed, stop, dir, server>>
    BY <1>5 DEF ShutdownContinues, runtimeVars
  <2>4. \A c \in Clients : Good(conn'[c]) /\ (Live(conn'[c]) => c \in sockets')
    BY <2>2, <2>3 DEF Step, IInv
  <2>5. TypeOK'
    <3>1. \A c \in Clients : conn'[c].peer = "none" <=> conn'[c].answered # "upgraded"
      BY <2>4 DEF Good
    <3>. QED BY <2>2, <2>3, <3>1 DEF IInv, TypeOK
  <2>6. \A c \in Clients :
          conn[c].client \in {"none", "closed"} => conn'[c].client = conn[c].client
    BY <2>2 DEF Step
  <2>7. Stages'
    BY <2>3, <2>6 DEF IInv, Stages
  <2>. QED BY <2>4, <2>5, <2>7 DEF IInv
<1>6. CASE ShutdownEnds
  <2>1. /\ down = "connections" /\ down' = "done" /\ server' = "closed"
        /\ \A c \in Clients : conn[c].client \in {"none", "closed"}
        /\ UNCHANGED <<conn, sockets, child, file, start, closed, stop, dir>>
    BY <1>6 DEF ShutdownEnds, runtimeVars
  <2>2. Stages'
    BY <2>1 DEF IInv, TypeOK, Stages
  <2>. QED BY <2>1, <2>2, ProcessIInv DEF IInv, TypeOK
<1>. QED BY <1>1, <1>2, <1>3, <1>4, <1>5, <1>6

-----------------------------------------------------------------------------
(* Connections *)

\* A client connects, which the Step of a handler excludes.
LEMMA ConnectsIInv ==
  ASSUME IInv, NEW c \in Clients, Connects(c) PROVE IInv'
<1> DEFINE t == conn[c]
           u == [t EXCEPT !.client = "http"]
<1>1. /\ Good(t) /\ t.client = "none" /\ server = "listening"
      /\ conn' = [conn EXCEPT ![c] = u] /\ UNCHANGED <<sockets, runtimeVars, mainVars>>
  BY DEF Connects, Becomes, IInv
<1>2. Good(u) /\ ~Live(u)
  BY <1>1 DEF Good, Live, Reading, FinalEnd, Connection
<1>3. conn \in [Clients -> Connection]
      /\ \A d \in Clients : conn'[d] = IF d = c THEN u ELSE conn[d]
  <2>. HIDE DEF u
  <2>. QED BY <1>1 DEF IInv, TypeOK
<1>4. TypeOK'
  <2>. HIDE DEF t, u
  <2>. QED BY <1>1, <1>2, <1>3 DEF Good, IInv, TypeOK, runtimeVars, mainVars
<1>5. Stages'
  <2>. HIDE DEF t, u
  <2>. QED BY <1>1 DEF IInv, Stages, runtimeVars, mainVars
<1>6. \A d \in Clients : Good(conn'[d]) /\ (Live(conn'[d]) => d \in sockets')
  <2>. HIDE DEF t, u
  <2>. QED BY <1>1, <1>2, <1>3 DEF IInv
<1>. QED BY <1>4, <1>5, <1>6 DEF IInv

\* A tunnel begins: it is live, and in the runtime's set.
LEMMA UpgradeForwardedIInv ==
  ASSUME IInv, NEW c \in Clients, UpgradeForwarded(c) PROVE IInv'
<1> DEFINE u == Begun(conn[c])
<1>1. /\ Unused(c) /\ ~closed /\ conn' = [conn EXCEPT ![c] = u]
      /\ sockets' = sockets \cup {c} /\ UNCHANGED <<runtimeVars, mainVars>>
  BY DEF UpgradeForwarded, IInv, TypeOK
<1>2. Good(u)
  BY <1>1, BegunGood DEF Unused, IInv
<1>3. conn \in [Clients -> Connection]
      /\ \A d \in Clients : conn'[d] = IF d = c THEN u ELSE conn[d]
  <2>. HIDE DEF u
  <2>. QED BY <1>1 DEF IInv, TypeOK
<1>4. TypeOK'
  <2>. HIDE DEF u
  <2>. QED BY <1>1, <1>2, <1>3 DEF Good, IInv, TypeOK, runtimeVars, mainVars
<1>5. ~(down = "done" \/ server = "none") /\ stop = "no"
  BY <1>1 DEF Unused, IInv, Stages
<1>6. Stages'
  <2>. HIDE DEF u
  <2>. QED BY <1>1, <1>5 DEF IInv, Stages, runtimeVars, mainVars
<1>7. \A d \in Clients : Good(conn'[d]) /\ (Live(conn'[d]) => d \in sockets')
  <2>. HIDE DEF u
  <2>. QED BY <1>1, <1>2, <1>3 DEF IInv
<1>. QED BY <1>4, <1>6, <1>7 DEF IInv

\* The promise of a request or a tunnel returns.
LEMMA ForwardReturnsIInv ==
  ASSUME IInv, NEW c \in Clients, ForwardReturns(c) PROVE IInv'
<1> DEFINE t == conn[c]
           k == [t EXCEPT !.promise = "returned"]
           u == IF t.kind = "request" THEN Report(t)
                ELSE IF t.promise = "rejected" THEN Deny(k) ELSE k
<1>1. /\ t.promise \in {"resolved", "rejected"} /\ Good(t)
      /\ conn' = [conn EXCEPT ![c] = u] /\ sockets' = sockets \ {c}
      /\ UNCHANGED <<runtimeVars, mainVars>>
  BY DEF ForwardReturns, IInv, TypeOK
<1>2. t.kind \in {"request", "upgrade"}
  BY <1>1 DEF Good, Connection
<1>3. Step(t, u)
  BY <1>1, <1>2, ReportStep, TunnelReturnStep
<1>4. ~Live(t)
  BY <1>1 DEF Live
<1>. HIDE DEF u
<1>. QED BY <1>1, <1>3, <1>4, HandlerIInv

\* The actions of a request, and the refusals.
LEMMA RequestIInv ==
  ASSUME IInv, NEW c \in Clients,
         \/ RequestRefused(c) \/ RequestReceived(c) \/ BodyRead(c)
         \/ BodyFails(c) \/ UpgradeDenied(c)
  PROVE  IInv'
<1> DEFINE t == conn[c]
<1>1. Good(t) /\ (Unused(c) => t.kind = "none" /\ t.client = "http")
  BY DEF IInv, Unused
<1>2. CASE RequestRefused(c)
  <2> DEFINE u == [t EXCEPT !.kind = "request", !.promise = "returned", !.heads = 1]
  <2>1. t \in Connection /\ t.kind = "none" /\ t.client = "http" /\ t.promise = "none"
    BY <1>1, <1>2 DEF RequestRefused, Good
  <2>2. /\ u \in Connection /\ u.kind = "request" /\ u.promise = "returned"
        /\ u.heads = 1 /\ u.client = "http" /\ u.answered = t.answered
        /\ u.request = t.request /\ u.peer = t.peer /\ u.deadline = t.deadline
    <3>. HIDE DEF t
    <3>. QED BY <2>1 DEF Connection
  <2>3. Step(t, u)
    <3>. HIDE DEF t, u
    <3>. QED BY <1>1, <2>1, <2>2 DEF Step, Good, Live, Gone, Reading, FinalEnd
  <2>4. Becomes(c, u)
    BY <1>2 DEF RequestRefused
  <2>. HIDE DEF u
  <2>. QED BY <2>3, <2>4, BecomesIInv
<1>3. CASE RequestReceived(c)
  BY <1>1, <1>3, ReceivedStep, BecomesIInv DEF RequestReceived
<1>4. CASE BodyRead(c)
  <2>1. Reading(t) /\ t.client = "http" /\ t.kind = "request" /\ t.promise = "pending"
    BY <1>4 DEF BodyRead, Reading
  <2>2. Step(t, Requested(t))
    BY <1>1, <2>1, RequestedStep
  <2>. QED BY <1>4, <2>2, BecomesIInv DEF BodyRead
<1>5. CASE BodyFails(c)
  BY <1>1, <1>5, AbandonStep, BecomesIInv DEF BodyFails, Reading
<1>6. CASE UpgradeDenied(c)
  BY <1>1, <1>6, DenyUnusedStep, BecomesIInv DEF UpgradeDenied
<1>. QED BY <1>2, <1>3, <1>4, <1>5, <1>6

\* What happens to the client's socket.
LEMMA ClientIInv ==
  ASSUME IInv, NEW c \in Clients,
         Deadline(c) \/ ClientClosed(c) \/ ClientEnds(c) \/ ClientResets(c)
  PROVE  IInv'
<1> DEFINE t == conn[c]
<1>1. Good(t) /\ t \in Connection
  BY DEF IInv, Good
<1>2. CASE Deadline(c)
  <2>1. t.promise = "pending"
    BY <1>1, <1>2 DEF Deadline, Good
  <2>. QED BY <1>1, <1>2, <2>1, GiveUpStep, BecomesIInv DEF Deadline
<1>3. CASE ClientClosed(c)
  <2> DEFINE k == [t EXCEPT !.client = "closed"]
             u == IF t.kind = "upgrade" THEN OnClose(t)
                  ELSE IF k.promise = "pending" THEN Abandon(k) ELSE k
  <2>1. t.client = "destroyed" /\ Becomes(c, u)
    BY <1>3 DEF ClientClosed
  <2>2. CASE t.kind = "upgrade"
    <3>1. Step(t, OnClose(t))
      BY <1>1, <2>1, <2>2, CloseStep
    <3>. QED BY <2>1, <2>2, <3>1, BecomesIInv
  <2>3. CASE t.kind # "upgrade" /\ t.promise # "pending"
    <3>1. Step(t, k)
      BY <1>1, <2>1, <2>3 DEF Step, Good, Live, Gone, Reading, FinalEnd, Connection
    <3>2. k.promise # "pending"
      BY <1>1, <2>3 DEF Connection
    <3>. QED BY <2>1, <2>3, <3>1, <3>2, BecomesIInv
  <2>4. CASE t.kind # "upgrade" /\ t.promise = "pending"
    <3>1. t.kind = "request" /\ k.promise = "pending"
      BY <1>1, <2>4 DEF Good, Connection
    <3>2. Step(t, Abandon(k))
      BY <1>1, <2>1, <2>4, <3>1, AbandonClosedStep
    <3>. QED BY <2>1, <2>4, <3>1, <3>2, BecomesIInv
  <2>. QED BY <2>2, <2>3, <2>4
<1>4. CASE ClientEnds(c)
  <2> DEFINE k == [t EXCEPT !.fin = TRUE]
  <2>1. /\ k \in Connection /\ k.client = t.client /\ k.kind = t.kind
        /\ k.heads = t.heads /\ k.answered = t.answered /\ k.request = t.request
        /\ k.promise = t.promise /\ k.peer = t.peer /\ k.eof = t.eof
        /\ k.deadline = t.deadline
    BY <1>1 DEF Connection
  <2>2. Step(t, k)
    <3>. HIDE DEF t, k
    <3>. QED BY <1>1, <2>1 DEF Step, Good, Live, Gone, Reading, FinalEnd
  <2>3. Step(t, Destroyed(k))
    <3>. HIDE DEF k
    <3>. QED BY <2>2, DestroyedStep, StepTwice DEF Step
  <2>. QED BY <1>4, <2>2, <2>3, BecomesIInv DEF ClientEnds
<1>5. CASE ClientResets(c)
  <2>1. Step(t, Destroyed(t))
    BY <1>1, DestroyedStep
  <2>2. t.kind = "upgrade" /\ t.promise # "none" => Step(t, OnAbort(t))
    BY <1>1, AbortStep
  <2>. QED BY <1>5, <2>1, <2>2, BecomesIInv DEF ClientResets
<1>. QED BY <1>2, <1>3, <1>4, <1>5

\* What the runtime answers.
LEMMA UpstreamIInv ==
  ASSUME IInv, NEW c \in Clients,
         \/ RuntimeUpgrades(c) \/ RuntimeResponds(c) \/ RequestFails(c)
         \/ ResponseEnds(c) \/ ResponseFails(c)
         \/ PeerEnds(c) \/ PeerFails(c) \/ PeerDrops(c) \/ PeerCloses(c)
  PROVE  IInv'
<1> DEFINE t == conn[c]
<1>1. Good(t) /\ t \in Connection
  BY DEF IInv, Good
<1>2. t.request \in {"open", "response"} => t.promise = "pending"
                                             /\ t.kind \in {"request", "upgrade"}
  BY <1>1 DEF Good, Connection
<1>3. CASE RuntimeUpgrades(c)
  BY <1>1, <1>3, UpgradeStep, BecomesIInv DEF RuntimeUpgrades
<1>4. CASE RuntimeResponds(c)
  BY <1>1, <1>2, <1>4, RespondStep, ResponseStep, BecomesIInv DEF RuntimeResponds
<1>5. CASE RequestFails(c)
  <2> DEFINE k == [t EXCEPT !.request = "destroyed"]
  <2>1. t.request = "open" /\ Becomes(c, IF Settled(k) THEN k ELSE GiveUp(k))
    BY <1>5 DEF RequestFails
  <2>2. Step(t, k) /\ k.promise = "pending"
    BY <1>1, <1>2, <2>1 DEF Step, Good, Live, Gone, Reading, FinalEnd, Connection
  <2>3. ~Settled(k) /\ Step(t, GiveUp(k))
    <3>. HIDE DEF k
    <3>. QED BY <2>2, GiveUpStep, StepTwice DEF Step, Settled
  <2>. HIDE DEF k
  <2>. QED BY <2>1, <2>3, BecomesIInv
<1>6. CASE ResponseEnds(c)
  BY <1>1, <1>2, <1>6, CompleteStep, ResponseEndStep, BecomesIInv DEF ResponseEnds
<1>7. CASE ResponseFails(c)
  BY <1>1, <1>2, <1>7, GiveUpStep, BecomesIInv DEF ResponseFails
<1>8. CASE PeerEnds(c)
  BY <1>1, <1>8, PeerEndStep, BecomesIInv DEF PeerEnds
<1>9. CASE PeerFails(c)
  BY <1>1, <1>9, PeerErrorStep, BecomesIInv DEF PeerFails
<1>10. CASE PeerDrops(c)
  BY <1>1, <1>10, PeerCloseStep, BecomesIInv DEF PeerDrops
<1>11. CASE PeerCloses(c)
  BY <1>1, <1>11, PeerCloseStep, BecomesIInv DEF PeerCloses
<1>. QED BY <1>3, <1>4, <1>5, <1>6, <1>7, <1>8, <1>9, <1>10, <1>11

\* Every step keeps IInv.
LEMMA NextIInv == IInv /\ [Next]_vars => IInv'
<1> SUFFICES ASSUME IInv, [Next]_vars PROVE IInv'
  OBVIOUS
<1>1. CASE UNCHANGED vars
  BY <1>1 DEF vars, IInv, TypeOK, Stages
<1>2. CASE \/ CloseContinues \/ Kills \/ RuntimeStarts \/ ReadsFile \/ BecomesReady
           \/ StartFails \/ StartThrows \/ ChildPublishes \/ ChildDies
  BY <1>2, RuntimeIInv
<1>3. CASE \/ ExitSeen \/ Listens \/ ListenFails \/ Signal
           \/ ShutdownContinues \/ ShutdownEnds
  BY <1>3, MainIInv
<1>4. ASSUME NEW c \in Clients,
        \/ Connects(c) \/ RequestRefused(c) \/ RequestReceived(c) \/ BodyRead(c)
        \/ BodyFails(c) \/ UpgradeDenied(c) \/ UpgradeForwarded(c) \/ ForwardReturns(c)
        \/ Deadline(c) \/ ClientClosed(c) \/ ClientEnds(c) \/ ClientResets(c)
        \/ RuntimeUpgrades(c) \/ RuntimeResponds(c) \/ RequestFails(c)
        \/ ResponseEnds(c) \/ ResponseFails(c)
        \/ PeerEnds(c) \/ PeerFails(c) \/ PeerDrops(c) \/ PeerCloses(c)
      PROVE IInv'
  BY <1>4, ConnectsIInv, UpgradeForwardedIInv, ForwardReturnsIInv, RequestIInv,
     ClientIInv, UpstreamIInv
<1>. QED BY <1>1, <1>2, <1>3, <1>4 DEF Next

\* IInv is an invariant of the gateway.
THEOREM Inductive == Spec => []IInv
<1>1. Init => IInv
  BY InitIInv
<1>2. IInv /\ [Next]_vars => IInv'
  BY NextIInv
<1>. QED BY <1>1, <1>2, PTL DEF Spec

-----------------------------------------------------------------------------
(* The safety properties *)

\* Type correctness.
THEOREM TypeCorrect == Spec => []TypeOK
<1>1. IInv => TypeOK
  BY DEF IInv
<1>. QED BY <1>1, Inductive, PTL

\* A settled promise leaves no request, upstream socket or timer behind, and an
\* upgraded session no timer.
THEOREM SettledHoldsNothingHolds == Spec => []SettledHoldsNothing
<1>1. IInv => SettledHoldsNothing
  BY DEF IInv, Good, SettledHoldsNothing, Settled
<1>. QED BY <1>1, Inductive, PTL

\* A client is sent one response head at most, and a clean end on its side
\* stands for one on the runtime's, or for the gateway's own answer.
THEOREM CleanEndIsRealHolds == Spec => []CleanEndIsReal
<1>1. IInv => CleanEndIsReal
  BY DEF IInv, Good, CleanEndIsReal
<1>. QED BY <1>1, Inductive, PTL

\* From close() on, no tunnel is open and none can be opened: whatever is live
\* is in runtime.webSockets, which close() empties.
THEOREM ClosedCutsTunnelsHolds == Spec => []ClosedCutsTunnels
<1>1. IInv => ClosedCutsTunnels
  BY DEF IInv, Stages, Live, ClosedCutsTunnels
<1>. QED BY <1>1, Inductive, PTL

\* A runtime that is not closed has a process whose exit has not been seen.
THEOREM ReadyMeansAliveHolds == Spec => []ReadyMeansAlive
<1>1. IInv => ReadyMeansAlive
  <2> SUFFICES ASSUME IInv, ~closed PROVE child \in {"running", "dead"}
    BY DEF ReadyMeansAlive
  <2>1. child # "reaped" /\ child # "none"
    BY DEF IInv, Stages
  <2>. QED BY <2>1 DEF IInv, TypeOK
<1>. QED BY <1>1, Inductive, PTL

\* A shutdown that has ended leaves nothing behind.
THEOREM NothingLeftHolds == Spec => []NothingLeft
<1>1. IInv => NothingLeft
  <2> SUFFICES ASSUME IInv, down = "done" PROVE NothingLeft
    BY DEF NothingLeft
  <2>1. stop = "done" /\ child = "reaped" /\ ~dir /\ closed /\ sockets = {}
    BY DEF IInv, Stages
  <2>2. ASSUME NEW c \in Clients
        PROVE  /\ conn[c].client \in {"none", "closed"}
               /\ conn[c].request \notin {"open", "response"}
               /\ conn[c].peer # "open"
    BY DEF IInv, Stages, Good
  <2>. QED BY <2>1, <2>2 DEF NothingLeft
<1>. QED BY <1>1, Inductive, PTL

=============================================================================
