------------------------------ MODULE RpcProofs -----------------------------
(***************************************************************************)
(* Theorems about Rpc, for any number of requests: its safety invariants,  *)
(* and that it implements RpcLink.                                         *)
(***************************************************************************)
EXTENDS Rpc, TLAPS

\* #start runs only on an open connection that has no child yet, and every
\* child of a connection that is closed is being stopped.
StartInv ==
    /\ start = "none" => /\ child = "none"
                         /\ out[Initialize].kind = "none"
                         /\ \A m \in wire : m.req # Initialize
    /\ out[Initialize].kind # "notStarted"
    /\ started => start = "up"
    /\ stop = "none" <=> ~closed
    /\ stop \in {"kill", "done"} /\ child \in {"running", "exited"} => killed

\* A request in the map has not settled, and one that has was not forgotten.
Inv ==
    /\ TypeOK /\ IdsUnique /\ AnswersMatch /\ NoneForgotten
    /\ ExitOnce /\ StartHonest /\ StartInv

-----------------------------------------------------------------------------
\* Nothing has been sent or started at first.
LEMMA Initially == Init => Inv
<1> SUFFICES ASSUME Init PROVE Inv
  OBVIOUS
<1>1. /\ out \in [All -> Outcomes]
      /\ \A r \in All : out[r].kind = "none"
  BY DEF Init, Outcomes, Settled
<1>2. TypeOK
  <2>1. /\ started \in BOOLEAN /\ closed \in BOOLEAN
        /\ writable \in BOOLEAN /\ killed \in BOOLEAN
    BY Zenon DEF Init
  <2>2. nextId \in Nat \ {0} /\ exits \in Nat
    BY DEF Init
  <2>3. wire = {} /\ pending = {} /\ error = None
    BY Zenon DEF Init
  <2>4. start = "none" /\ stop = "none" /\ closing = "no" /\ child = "none"
    BY Zenon DEF Init
  <2>. QED BY <1>1, <2>1, <2>2, <2>3, <2>4 DEF TypeOK
<1>3. IdsUnique /\ AnswersMatch /\ NoneForgotten
  BY <1>1 DEF Init, IdsUnique, AnswersMatch, NoneForgotten
<1>4. ExitOnce /\ StartHonest
  BY DEF Init, ExitOnce, StartHonest
<1>5. StartInv
  BY <1>1 DEF Init, StartInv, All
<1>. QED BY <1>2, <1>3, <1>4, <1>5 DEF Inv

\* The promises of the pending requests are rejected with e, the others stay.
LEMMA FailOutcomes ==
  ASSUME Inv, NEW e \in Errors, NEW alive \in BOOLEAN, Fail(e, alive)
  PROVE  /\ out' \in [All -> Outcomes]
         /\ \A r \in All : out[r].kind # "none" => out'[r] = out[r]
         /\ \A r \in All : out'[r].kind \in {"result", "notStarted"}
                              => out'[r] = out[r]
         /\ \A m \in wire : out'[m.req].kind = "none" <=> m \in pending'
         /\ closed' => pending' = {}
         /\ pending' \subseteq pending
<1>1. /\ out \in [All -> Outcomes] /\ pending \subseteq wire
      /\ \A m \in wire : m.req \in All
      /\ \A m \in wire : out[m.req].kind = "none" <=> m \in pending
      /\ closed => pending = {}
  BY DEF Inv, TypeOK, NoneForgotten
<1>2. CASE closed
  BY <1>1, <1>2 DEF Fail, link
<1>3. CASE ~closed
  <2>1. /\ pending' = {}
        /\ out' = [r \in All |-> IF \E m \in pending : m.req = r
                                 THEN Settled(e) ELSE out[r]]
    BY <1>3 DEF Fail
  <2>2. /\ Settled(e) \in Outcomes /\ Settled(e).kind = e
        /\ e \notin {"none", "result", "notStarted"}
    BY DEF Settled, Outcomes, Errors
  <2> HIDE DEF Settled
  <2>. QED BY <1>1, <2>1, <2>2
<1>. QED BY <1>2, <1>3

\* A failure of a child that may be alive is one of a child that is or is not.
LEMMA FailAlive ==
  ASSUME NEW e, Fail(e, Alive)
  PROVE  \E alive \in BOOLEAN :
           Fail(e, alive) /\ (child \in {"running", "exited"} => alive)
<1>1. CASE child \in {"running", "exited"}
  <2>1. Fail(e, TRUE)
    BY <1>1 DEF Fail, Alive
  <2>. QED BY <2>1
<1>2. CASE child \notin {"running", "exited"}
  <2>1. Fail(e, FALSE)
    BY <1>2 DEF Fail, Alive
  <2>. QED BY <1>2, <2>1
<1>. QED BY <1>1, <1>2

\* The invariant is kept by a failure, and by steps like it.
LEMMA FailKeeps ==
  ASSUME Inv, NEW e \in Errors, NEW alive \in BOOLEAN, Fail(e, alive),
         UNCHANGED <<nextId, wire>>,
         start' \in {"none", "waiting", "stopping", "up", "rejected"},
         start' = "none" => start = "none",
         start = "up" => start' = "up",
         start' \in {"stopping", "rejected"} => closed',
         start' = "up" => start = "up",
         closing' \in {"no", "waiting", "returned"},
         child' \in {"none", "running", "exited", "closed"},
         child' \in {"running", "exited"} => alive,
         child' \in {"running", "exited"} => child \in {"running", "exited"},
         child' # "none" => child # "none",
         UNCHANGED killed
  PROVE  Inv'
<1>1. /\ out' \in [All -> Outcomes]
      /\ \A r \in All : out[r].kind # "none" => out'[r] = out[r]
      /\ \A r \in All : out'[r].kind \in {"result", "notStarted"}
                           => out'[r] = out[r]
      /\ \A m \in wire : out'[m.req].kind = "none" <=> m \in pending'
      /\ closed' => pending' = {}
      /\ pending' \subseteq pending
  BY FailOutcomes
<1>2. /\ closed' \in BOOLEAN /\ started' \in BOOLEAN /\ writable' \in BOOLEAN
      /\ error' \in Errors \cup {None} /\ exits' \in Nat
      /\ stop' \in {"none", "term", "kill", "done"}
  <2>1. CASE closed
    BY <2>1 DEF Fail, Inv, TypeOK, link
  <2>2. CASE ~closed
    <3>1. closed' \in BOOLEAN /\ started' \in BOOLEAN /\ writable' \in BOOLEAN
      BY <2>2, Zenon DEF Fail
    <3>2. error' \in Errors \cup {None} /\ exits' \in Nat
      BY <2>2 DEF Fail, Inv, TypeOK
    <3>3. stop' \in {"none", "term", "kill", "done"}
      BY <2>2 DEF Fail
    <3>. QED BY <3>1, <3>2, <3>3
  <2>. QED BY <2>1, <2>2
<1>3. TypeOK'
  BY <1>1, <1>2 DEF Inv, TypeOK
<1>4. IdsUnique'
  BY DEF Inv, IdsUnique
<1>5. AnswersMatch' /\ NoneForgotten'
  BY <1>1 DEF Inv, AnswersMatch, NoneForgotten
<1>6. ExitOnce' /\ StartHonest'
  BY DEF Inv, ExitOnce, StartHonest, Fail, link
<1>7. StartInv'
  <2>1. start' = "none" => /\ child' = "none" /\ out'[Initialize].kind = "none"
                           /\ \A m \in wire' : m.req # Initialize
    <3>1. start' = "none" => \A m \in pending : m.req # Initialize
      BY DEF Inv, TypeOK, StartInv
    <3>2. start' = "none" => out'[Initialize] = out[Initialize]
      BY <3>1 DEF Fail, All, link, Inv, TypeOK
    <3>. QED BY <3>2 DEF Inv, StartInv
  <2>2. stop' = "none" <=> ~closed'
    BY DEF Inv, StartInv, Fail, link
  <2>3. stop' \in {"kill", "done"} /\ child' \in {"running", "exited"} => killed'
    BY DEF Inv, StartInv, Fail, link
  <2>4. out'[Initialize].kind # "notStarted"
    BY <1>1 DEF Inv, StartInv, All
  <2>5. started' => start' = "up"
    BY DEF Inv, StartInv, StartHonest, Fail, link
  <2>. QED BY <2>1, <2>2, <2>3, <2>4, <2>5 DEF StartInv
<1>. QED BY <1>3, <1>4, <1>5, <1>6, <1>7 DEF Inv

\* Writing a request, or failing to: a name not used before gets a new id.
LEMMA SendsKeeps ==
  ASSUME Inv, NEW r \in All, Unsent(r), ~closed,
         NEW canWrite \in BOOLEAN, Sends(r, canWrite)
  PROVE  /\ nextId' \in Nat \ {0} /\ out' \in [All -> Outcomes]
         /\ wire' \subseteq [id : 1 .. (nextId' - 1), req : All]
         /\ pending' \subseteq wire'
         /\ IdsUnique' /\ AnswersMatch'
         /\ \A m \in wire' : out'[m.req].kind = "none" <=> m \in pending'
         /\ \A q \in All \ {r} : out'[q] = out[q]
         /\ \A m \in wire' : m \in wire \/ m.req = r
<1> DEFINE n == [id |-> nextId, req |-> r]
<1>1. /\ nextId \in Nat \ {0} /\ out \in [All -> Outcomes]
      /\ wire \subseteq [id : 1 .. (nextId - 1), req : All]
      /\ pending \subseteq wire
      /\ \A m \in wire : out[m.req].kind = "none" <=> m \in pending
      /\ out[r].kind = "none" /\ \A m \in wire : m.req # r
  BY DEF Inv, TypeOK, NoneForgotten, Unsent
<1>2. /\ nextId' = nextId + 1 /\ nextId' \in Nat \ {0}
      /\ wire \subseteq [id : 1 .. (nextId' - 1), req : All]
      /\ n \in [id : 1 .. (nextId' - 1), req : All]
      /\ \A m \in wire : m.id # nextId
  BY <1>1 DEF Sends
<1>3. CASE canWrite
  <2>1. /\ pending' = pending \cup {n} /\ wire' = wire \cup {n} /\ out' = out
    BY <1>3 DEF Sends, FreshId
  <2>2. n.id = nextId /\ n.req = r
    OBVIOUS
  <2> HIDE DEF n
  <2>3. IdsUnique'
    BY <1>1, <1>2, <2>1, <2>2 DEF Inv, IdsUnique
  <2>4. AnswersMatch'
    BY <2>1 DEF Inv, AnswersMatch
  <2>. QED BY <1>1, <1>2, <2>1, <2>2, <2>3, <2>4
<1>4. CASE ~canWrite
  <2>1. UNCHANGED <<pending, wire>> /\ out' = [out EXCEPT ![r] = Settled("closed")]
    BY <1>4 DEF Sends
  <2>2. Settled("closed") \in Outcomes /\ Settled("closed").kind = "closed"
    BY DEF Settled, Outcomes, Errors
  <2>3. IdsUnique'
    BY <2>1 DEF Inv, IdsUnique
  <2>4. AnswersMatch'
    BY <1>1, <2>1, <2>2 DEF Inv, AnswersMatch
  <2> HIDE DEF Settled
  <2>. QED BY <1>1, <1>2, <2>1, <2>2, <2>3, <2>4
<1>. QED BY <1>3, <1>4

-----------------------------------------------------------------------------
\* start() on an open connection.
LEMMA StartCalledKeeps == Inv /\ StartCalled => Inv'
<1> SUFFICES ASSUME Inv, StartCalled PROVE Inv'
  OBVIOUS
<1>1. Unsent(Initialize) /\ ~closed /\ Sends(Initialize, TRUE)
  BY DEF Inv, StartInv, StartCalled, Unsent
<1>2. /\ nextId' \in Nat \ {0} /\ out' \in [All -> Outcomes]
      /\ wire' \subseteq [id : 1 .. (nextId' - 1), req : All]
      /\ pending' \subseteq wire'
      /\ IdsUnique' /\ AnswersMatch'
      /\ \A m \in wire' : out'[m.req].kind = "none" <=> m \in pending'
  BY <1>1, SendsKeeps DEF All
<1>3. UNCHANGED <<started, closed, error, exits, stop, closing, killed>>
  BY DEF StartCalled
<1>4. TypeOK'
  BY <1>2, <1>3 DEF Inv, TypeOK, StartCalled
<1>5. NoneForgotten' /\ ExitOnce'
  BY <1>1, <1>2, <1>3 DEF Inv, NoneForgotten, ExitOnce
<1>6. StartHonest' /\ StartInv'
  BY <1>1, <1>3 DEF Inv, StartHonest, StartInv, StartCalled, Sends
<1>. QED BY <1>2, <1>4, <1>5, <1>6 DEF Inv

\* request().
LEMMA RequestKeeps == ASSUME Inv, NEW r \in Requests, Request(r) PROVE Inv'
<1>1. r \in All /\ r # Initialize /\ Unsent(r)
  BY NamesAssumption DEF All, Request
<1>2. UNCHANGED <<started, closed, error, exits, stop, writable, start,
                  closing, child, killed>>
  BY DEF Request, link
<1>3. CASE ~started \/ closed
  <2> DEFINE k == IF error = None THEN "notStarted" ELSE error
  <2>1. /\ UNCHANGED <<nextId, pending, wire>>
        /\ out' = [out EXCEPT ![r] = Settled(k)]
    BY <1>3 DEF Request
  <2>2. /\ Settled(k) \in Outcomes /\ Settled(k).kind = k
        /\ k \notin {"none", "result"}
    BY DEF Inv, TypeOK, Settled, Outcomes, Errors
  <2> HIDE DEF k, Settled
  <2>3. TypeOK'
    <3>1. out' \in [All -> Outcomes]
      BY <2>1, <2>2 DEF Inv, TypeOK
    <3>. QED BY <1>2, <2>1, <3>1 DEF Inv, TypeOK
  <2>4. IdsUnique' /\ AnswersMatch'
    BY <1>1, <2>1, <2>2 DEF Inv, TypeOK, IdsUnique, AnswersMatch
  <2>5. NoneForgotten' /\ ExitOnce'
    BY <1>1, <1>2, <2>1 DEF Inv, NoneForgotten, ExitOnce, Unsent, TypeOK
  <2>6. StartHonest' /\ StartInv'
    BY <1>1, <1>2, <2>1 DEF Inv, StartHonest, StartInv, TypeOK
  <2>. QED BY <2>3, <2>4, <2>5, <2>6 DEF Inv
<1>4. CASE started /\ ~closed
  <2>1. Sends(r, writable) /\ writable \in BOOLEAN
    BY <1>4 DEF Request, Inv, TypeOK
  <2>2. /\ nextId' \in Nat \ {0} /\ out' \in [All -> Outcomes]
        /\ wire' \subseteq [id : 1 .. (nextId' - 1), req : All]
        /\ pending' \subseteq wire'
        /\ IdsUnique' /\ AnswersMatch'
        /\ \A m \in wire' : out'[m.req].kind = "none" <=> m \in pending'
        /\ \A q \in All \ {r} : out'[q] = out[q]
        /\ \A m \in wire' : m \in wire \/ m.req = r
    BY <1>1, <1>4, <2>1, SendsKeeps
  <2>3. TypeOK'
    BY <1>2, <2>2 DEF Inv, TypeOK
  <2>4. NoneForgotten' /\ ExitOnce' /\ StartHonest'
    BY <1>2, <1>4, <2>2 DEF Inv, NoneForgotten, ExitOnce, StartHonest
  <2>5. StartInv'
    BY <1>1, <1>2, <2>2 DEF Inv, StartInv, All
  <2>. QED BY <2>2, <2>3, <2>4, <2>5 DEF Inv
<1>. QED BY <1>3, <1>4

\* A request of the map settles, by its timer or by an answer.
LEMMA SettlesKeeps ==
  ASSUME Inv, NEW p \in pending, NEW v \in Outcomes, v.kind \notin {"none", "notStarted"},
         v.kind = "result" => v.of = p.req,
         pending' = pending \ {p}, out' = [out EXCEPT ![p.req] = v],
         UNCHANGED <<link, nextId, wire, start, closing, child, killed>>
  PROVE  Inv'
<1>1. /\ p \in wire /\ p.req \in All /\ out \in [All -> Outcomes]
      /\ start # "none" \/ p.req # Initialize
  BY DEF Inv, TypeOK, StartInv
<1>2. UNCHANGED <<started, closed, error, exits, stop, writable>>
  BY DEF link
<1>3. TypeOK'
  BY <1>1, <1>2 DEF Inv, TypeOK
<1>4. IdsUnique' /\ AnswersMatch'
  BY <1>1 DEF Inv, IdsUnique, AnswersMatch
<1>5. NoneForgotten'
  <2>1. \A m \in wire : m.req = p.req => m = p
    BY <1>1 DEF Inv, IdsUnique
  <2>2. \A m \in wire : m.req \in All /\ (out[m.req].kind = "none" <=> m \in pending)
    BY DEF Inv, TypeOK, NoneForgotten
  <2>3. closed' => pending' = {}
    BY <1>2 DEF Inv, NoneForgotten
  <2>. QED BY <1>1, <2>1, <2>2, <2>3 DEF NoneForgotten
<1>6. ExitOnce' /\ StartHonest' /\ StartInv'
  BY <1>1, <1>2 DEF Inv, ExitOnce, StartHonest, StartInv
<1>. QED BY <1>3, <1>4, <1>5, <1>6 DEF Inv

\* The timer of a pending request.
LEMMA TimesOutKeeps == ASSUME Inv, NEW m \in pending, TimesOut(m) PROVE Inv'
<1>1. /\ Settled("timeout") \in Outcomes
      /\ Settled("timeout").kind \notin {"none", "result", "notStarted"}
  BY DEF Settled, Outcomes, Errors
<1>. QED BY <1>1, SettlesKeeps DEF TimesOut

\* What an answer does: it settles the request it answers, and no other.
LEMMA AnswerSettles ==
  ASSUME Inv, NEW m \in wire, NEW kind, Answered(m, kind)
  PROVE  /\ m \in pending /\ pending' = pending \ {m}
         /\ out' = [out EXCEPT ![m.req] = [kind |-> kind, of |-> m.req]]
<1> DEFINE of == {p \in pending : p.id = m.id}
<1>1. /\ of # {} /\ pending' = pending \ of
      /\ out' = [r \in All |-> IF \E p \in of : p.req = r
                               THEN [kind |-> kind, of |-> m.req] ELSE out[r]]
  BY DEF Answered
<1>2. \A p \in of : p = m
  BY DEF Inv, TypeOK, IdsUnique
<1>3. of = {m}
  BY <1>1, <1>2
<1> HIDE DEF of
<1>4. m \in pending /\ m.req \in All /\ out \in [All -> Outcomes]
  BY <1>3 DEF of, Inv, TypeOK
<1>. QED BY <1>1, <1>3, <1>4

LEMMA AnsweredKeeps ==
  ASSUME Inv, NEW m \in wire, NEW kind \in {"result", "remote"},
         Answered(m, kind)
  PROVE  Inv'
<1> DEFINE v == [kind |-> kind, of |-> m.req]
<1>1. v \in Outcomes /\ v.kind \notin {"none", "notStarted"} /\ v.of = m.req
  BY DEF Outcomes, Errors, Inv, TypeOK
<1>2. m \in pending /\ pending' = pending \ {m} /\ out' = [out EXCEPT ![m.req] = v]
  BY AnswerSettles
<1> HIDE DEF v
<1>. QED BY <1>1, <1>2, SettlesKeeps DEF Answered

\* The steps that settle nothing and close nothing.
LEMMA QuietKeeps ==
  ASSUME Inv, UNCHANGED <<calls, closed, error, exits>>,
         started' \in BOOLEAN, writable' \in BOOLEAN,
         start' \in {"none", "waiting", "stopping", "up", "rejected"},
         closing' \in {"no", "waiting", "returned"},
         stop' \in {"none", "term", "kill", "done"},
         child' \in {"none", "running", "exited", "closed"},
         killed' \in BOOLEAN, StartHonest', started' => start' = "up",
         stop' = "none" <=> stop = "none",
         start' = "none" => start = "none" /\ child' = "none",
         stop' \in {"kill", "done"} /\ child' \in {"running", "exited"} => killed'
  PROVE  Inv'
<1>1. TypeOK'
  BY DEF Inv, TypeOK, calls
<1>2. IdsUnique' /\ AnswersMatch' /\ NoneForgotten' /\ ExitOnce'
  BY DEF Inv, IdsUnique, AnswersMatch, NoneForgotten, ExitOnce, calls
<1>3. StartInv'
  BY DEF Inv, StartInv, calls
<1>. QED BY <1>1, <1>2, <1>3 DEF Inv

-----------------------------------------------------------------------------
\* Every step of the connection keeps the invariant.
LEMMA Inductive == Inv /\ [Next]_vars => Inv'
<1> SUFFICES ASSUME Inv, [Next]_vars PROVE Inv'
  OBVIOUS
<1>1. CASE UNCHANGED vars
  BY <1>1, QuietKeeps DEF vars, link, Inv, TypeOK, StartInv, StartHonest
<1>2. CASE Starting
  <2>1. CASE StartCalled
    BY <2>1, StartCalledKeeps
  <2>2. CASE StartRefused
    BY <2>2, QuietKeeps DEF StartRefused, link, Inv, TypeOK, StartInv, StartHonest
  <2>. QED BY <1>2, <2>1, <2>2 DEF Starting
<1>3. CASE Continuation
  <2>1. CASE StartSucceeds
    BY <2>1, QuietKeeps DEF StartSucceeds, Inv, TypeOK, StartInv, StartHonest
  <2>2. CASE StartCatches
    <3> DEFINE k == out[Initialize].kind
               e == IF k = "result" THEN "closed" ELSE k
    <3>1. k \in {"result"} \cup Errors
      BY <2>2 DEF StartCatches, Inv, TypeOK, StartInv, Outcomes, All
    <3>2. e \in Errors
      BY <3>1 DEF Errors
    <3>3. Fail(e, Alive) /\ closed'
      BY <2>2 DEF StartCatches, Fail, link
    <3>5. PICK alive \in BOOLEAN :
            Fail(e, alive) /\ (child \in {"running", "exited"} => alive)
      BY <3>3, FailAlive
    <3>4. /\ start = "waiting" /\ start' = "stopping"
          /\ UNCHANGED <<nextId, wire, closing, child, killed>>
      BY <2>2 DEF StartCatches
    <3> HIDE DEF e
    <3>. QED BY <3>2, <3>3, <3>4, <3>5, FailKeeps DEF Inv, TypeOK
  <2>3. CASE StartRejects
    BY <2>3, QuietKeeps DEF StartRejects, link, Inv, TypeOK, StartInv, StartHonest
  <2>4. CASE CloseReturns
    BY <2>4, QuietKeeps DEF CloseReturns, link, Inv, TypeOK, StartInv, StartHonest
  <2>. QED BY <1>3, <2>1, <2>2, <2>3, <2>4 DEF Continuation
<1>4. CASE StopContinues
  BY <1>4, QuietKeeps DEF StopContinues, Inv, TypeOK, StartInv, StartHonest
<1>5. CASE CloseCalled
  <2>1. PICK alive \in BOOLEAN :
          Fail("closed", alive) /\ (child \in {"running", "exited"} => alive)
    BY <1>5, FailAlive DEF CloseCalled
  <2>2. closed'
    BY <2>1 DEF Fail, link
  <2>. QED BY <1>5, <2>1, <2>2, FailKeeps DEF CloseCalled, Errors, Inv, TypeOK
<1>6. CASE \E r \in Requests : Request(r)
  BY <1>6, RequestKeeps
<1>7. CASE \E m \in pending : TimesOut(m)
  BY <1>7, TimesOutKeeps
<1>8. CASE \E m \in wire, kind \in {"result", "remote"} : Answered(m, kind)
  BY <1>8, AnsweredKeeps
<1>9. CASE \E e \in {"process", "io", "protocol"} : LinkFails(e)
  BY <1>9, FailKeeps DEF LinkFails, Alive, Errors, Inv, TypeOK, StartHonest
<1>10. CASE PipeBreaks
  BY <1>10, QuietKeeps DEF PipeBreaks, Inv, TypeOK, StartInv, StartHonest
<1>11. CASE ChildExits
  BY <1>11, QuietKeeps DEF ChildExits, link, Inv, TypeOK, StartInv, StartHonest
<1>12. CASE ChildCloses
  <2>1. Fail("exit", FALSE) /\ closed'
    BY <1>12 DEF ChildCloses, Fail, link
  <2>. QED BY <1>12, <2>1, FailKeeps DEF ChildCloses, Errors, Inv, TypeOK
<1>. QED BY <1>1, <1>2, <1>3, <1>4, <1>5, <1>6, <1>7, <1>8, <1>9, <1>10,
            <1>11, <1>12 DEF Next

\* The steps that reject, resolve or time out a request take it from those
\* that have not settled, and the connection stays closed once it is.
LEMMA FinalStep ==
  Inv /\ [Next]_vars =>
    /\ closed => closed' /\ error' = error
    /\ \A r \in All : out[r].kind # "none" => out'[r] = out[r]
<1> SUFFICES ASSUME Inv, [Next]_vars
             PROVE  /\ closed => closed' /\ error' = error
                    /\ \A r \in All : out[r].kind # "none" => out'[r] = out[r]
  OBVIOUS
<1> DEFINE Final == /\ closed => closed' /\ error' = error
                    /\ \A r \in All : out[r].kind # "none" => out'[r] = out[r]
<1>1. CASE UNCHANGED vars
  BY <1>1 DEF vars, link, calls
<1>2. ASSUME NEW e \in Errors, NEW alive \in BOOLEAN, Fail(e, alive)
      PROVE  Final
  <2>1. closed => closed' /\ error' = error
    BY <1>2 DEF Fail, link
  <2>. QED BY <1>2, <2>1, FailOutcomes
<1>3. ASSUME NEW r \in All, Unsent(r), NEW canWrite, Sends(r, canWrite)
      PROVE  \A q \in All : out[q].kind # "none" => out'[q] = out[q]
  BY <1>3 DEF Sends, Unsent, Inv, TypeOK
<1>4. CASE Starting
  <2>1. CASE StartCalled
    <3>1. Unsent(Initialize) /\ Initialize \in All
      BY <2>1 DEF StartCalled, Inv, StartInv, Unsent, All
    <3>. QED BY <1>3, <2>1, <3>1 DEF StartCalled
  <2>2. CASE StartRefused
    BY <2>2 DEF StartRefused, link, calls
  <2>. QED BY <1>4, <2>1, <2>2 DEF Starting
<1>5. CASE Continuation
  <2>1. CASE StartCatches
    <3> DEFINE k == out[Initialize].kind
               e == IF k = "result" THEN "closed" ELSE k
    <3>1. k \in {"result"} \cup Errors
      BY <2>1 DEF StartCatches, Inv, TypeOK, StartInv, Outcomes, All
    <3>2. e \in Errors /\ Fail(e, Alive)
      BY <2>1, <3>1 DEF Errors, StartCatches
    <3> HIDE DEF e
    <3>. QED BY <1>2, <3>2, FailAlive
  <2>2. CASE StartSucceeds \/ StartRejects \/ CloseReturns
    BY <2>2 DEF StartSucceeds, StartRejects, CloseReturns, link, calls
  <2>. QED BY <1>5, <2>1, <2>2 DEF Continuation
<1>6. CASE StopContinues \/ PipeBreaks \/ ChildExits
  BY <1>6 DEF StopContinues, PipeBreaks, ChildExits, link, calls
<1>7. CASE CloseCalled
  BY <1>2, <1>7, FailAlive DEF CloseCalled, Errors
<1>8. CASE \E r \in Requests : Request(r)
  <2>1. PICK r \in Requests : Request(r)
    BY <1>8
  <2>2. r \in All /\ Unsent(r) /\ UNCHANGED <<closed, error>>
    BY <2>1 DEF Request, All, link
  <2>. QED BY <1>3, <2>1, <2>2 DEF Request, Unsent, Inv, TypeOK
<1>9. CASE \E m \in pending : TimesOut(m)
  BY <1>9 DEF TimesOut, link, Inv, TypeOK, NoneForgotten
<1>10. CASE \E m \in wire, kind \in {"result", "remote"} : Answered(m, kind)
  <2>1. PICK m \in wire, kind \in {"result", "remote"} : Answered(m, kind)
    BY <1>10
  <2>2. /\ m \in pending
        /\ out' = [out EXCEPT ![m.req] = [kind |-> kind, of |-> m.req]]
    BY <2>1, AnswerSettles
  <2>. QED BY <2>1, <2>2 DEF Answered, link, Inv, TypeOK, NoneForgotten
<1>11. CASE \E e \in {"process", "io", "protocol"} : LinkFails(e)
  BY <1>2, <1>11 DEF LinkFails, Errors
<1>12. CASE ChildCloses
  BY <1>2, <1>12 DEF ChildCloses, Errors
<1>. QED BY <1>1, <1>4, <1>5, <1>6, <1>7, <1>8, <1>9, <1>10, <1>11, <1>12
         DEF Next

-----------------------------------------------------------------------------
(* The theorems *)

\* The inductive invariant holds of every behaviour.
LEMMA Invariance == Spec => []Inv
<1>1. Init => Inv
  BY Initially
<1>2. Inv /\ [Next]_vars => Inv'
  BY Inductive
<1>. QED BY <1>1, <1>2, PTL DEF Spec

\* The type invariant: in particular every id in use is below #nextId, and
\* only written requests are in the map (lines 113-121).
THEOREM TypeCorrect == Spec => []TypeOK
<1>1. Inv => TypeOK
  BY DEF Inv
<1>. QED BY <1>1, Invariance, PTL

\* No request is settled by the answer to another one (lines 221-225).
THEOREM OwnAnswers == Spec => []AnswersMatch
<1>1. Inv => AnswersMatch
  BY DEF Inv
<1>. QED BY <1>1, Invariance, PTL

\* Every request that was written is in the map until it settles, and a closed
\* connection has settled them all (lines 114-126, 239-243).
THEOREM NothingForgotten == Spec => []NoneForgotten
<1>1. Inv => NoneForgotten
  BY DEF Inv
<1>. QED BY <1>1, Invariance, PTL

\* A connection that was closed, whenever that was, stops its child: no child
\* is left running without SIGKILL once shutdown is over (lines 248-265).
THEOREM ChildStopped == Spec => []NoOrphanChild
<1>1. Inv => NoOrphanChild
  BY DEF Inv, StartInv, NoOrphanChild
<1>. QED BY <1>1, Invariance, PTL

\* The first failure and the first outcome of a request are final.
THEOREM FirstIsFinal == Spec => FirstFailureFinal
<1>1. Inv /\ Inv' /\ [Next]_vars =>
        [/\ closed => closed' /\ error' = error /\ exits' = exits
         /\ \A r \in All : out[r].kind # "none" => out'[r] = out[r]]_vars
  BY FinalStep DEF Inv, ExitOnce
<1>. QED BY <1>1, Invariance, PTL DEF Spec, FirstFailureFinal

-----------------------------------------------------------------------------
(* Refinement of RpcLink *)

\* Reply spelled out.
LEMMA Replies ==
  ASSUME Inv, NEW r \in Requests
  PROVE  /\ out[r].kind = "result" => Reply[r] = "ok"
         /\ out[r].kind \notin {"none", "result"} => Reply[r] = "error"
         /\ out[r].kind = "none" =>
              Reply[r] = IF \E m \in pending : m.req = r THEN "pending" ELSE "none"
BY DEF Reply, Unsent, Inv, NoneForgotten, TypeOK

\* A step that changes the reply of one request only.
LEMMA OneReply ==
  ASSUME NEW r \in Requests, NEW w, Reply'[r] = w,
         \A q \in Requests \ {r} : Reply'[q] = Reply[q]
  PROVE  Reply' = [Reply EXCEPT ![r] = w]
<1>1. /\ Reply = [q \in Requests |-> Reply[q]]
      /\ Reply' = [q \in Requests |-> Reply'[q]]
  BY DEF Reply
<1> HIDE DEF Reply
<1>. QED BY <1>1

\* A failure ends the link, or changes nothing.
LEMMA FailEnds ==
  ASSUME Inv, Inv', NEW e \in Errors, NEW alive \in BOOLEAN, Fail(e, alive),
         wire' = wire
  PROVE  Link!End \/ UNCHANGED <<TheLink, Reply>>
<1>1. CASE closed
  BY <1>1 DEF Fail, link, TheLink, Reply, Unsent
<1>2. CASE ~closed
  <2>1. TheLink # "closed" /\ TheLink' = "closed"
    BY <1>2 DEF Fail, TheLink
  <2>2. ASSUME NEW r \in Requests
        PROVE  Reply'[r] = IF Reply[r] = "pending" THEN "error" ELSE Reply[r]
    <3>1. r \in All
      BY DEF All
    <3>2. CASE \E m \in pending : m.req = r
      <4>1. out[r].kind = "none" /\ out'[r] = Settled(e)
        BY <1>2, <3>1, <3>2 DEF Fail, Inv, TypeOK, NoneForgotten
      <4>2. out'[r].kind \notin {"none", "result"}
        BY <4>1 DEF Settled, Errors
      <4>. QED BY <3>2, <4>1, <4>2, Replies DEF Reply
    <3>3. CASE ~\E m \in pending : m.req = r
      <4>1. out'[r] = out[r]
        BY <1>2, <3>1, <3>3 DEF Fail
      <4>2. Reply'[r] = Reply[r]
        BY <4>1 DEF Reply, Unsent
      <4>. QED BY <3>3, <4>2, Replies DEF Reply
    <3>. QED BY <3>2, <3>3
  <2>3. Reply' = [r \in Requests |->
                    IF Reply[r] = "pending" THEN "error" ELSE Reply[r]]
    BY <2>2 DEF Reply
  <2>. QED BY <2>1, <2>3 DEF Link!End
<1>. QED BY <1>1, <1>2

\* The request of a message in the map settles as v tells.
LEMMA SettlesOne ==
  ASSUME Inv, NEW p \in pending, NEW v, v.kind # "none",
         out' = [out EXCEPT ![p.req] = v], wire' = wire,
         UNCHANGED <<closed, started, writable>>
  PROVE  \/ UNCHANGED <<TheLink, Reply>>
         \/ \E r \in Requests, result \in {"ok", "error"} : Link!Settle(r, result)
<1>1. p.req \in All /\ p \in wire /\ out \in [All -> Outcomes] /\ ~closed
  BY DEF Inv, TypeOK, NoneForgotten
<1>2. TheLink' = TheLink /\ TheLink # "closed"
  BY <1>1 DEF TheLink
<1>3. CASE p.req \notin Requests
  <2>1. \A r \in Requests : out'[r] = out[r]
    BY <1>1, <1>3
  <2>. QED BY <1>2, <2>1 DEF Reply, Unsent
<1>4. CASE p.req \in Requests
  <2> DEFINE w == IF v.kind = "result" THEN "ok" ELSE "error"
  <2>1. Reply[p.req] = "pending"
    BY <1>1, <1>4, Replies DEF Inv, NoneForgotten
  <2>2. out'[p.req] = v /\ \A r \in Requests \ {p.req} : out'[r] = out[r]
    BY <1>1
  <2>3. Reply' = [Reply EXCEPT ![p.req] = w]
    <3>1. Reply'[p.req] = w
      BY <1>4, <2>2 DEF Reply
    <3>2. \A r \in Requests \ {p.req} : Reply'[r] = Reply[r]
      BY <2>2 DEF Reply, Unsent
    <3> HIDE DEF w
    <3>. QED BY <1>4, <3>1, <3>2, OneReply
  <2>. QED BY <1>2, <1>4, <2>1, <2>3 DEF Link!Settle
<1>. QED BY <1>3, <1>4

\* request() asks the link.
LEMMA RequestAsks ==
  ASSUME Inv, NEW r \in Requests, Request(r)
  PROVE  Link!Ask(r)
<1>1. /\ out[r].kind = "none" /\ r \in All /\ out \in [All -> Outcomes]
      /\ \A m \in wire : m.req # r
      /\ UNCHANGED <<closed, started, writable>>
  BY DEF Request, Unsent, All, Inv, TypeOK, link
<1>2. Reply[r] = "none" /\ TheLink' = TheLink
  BY <1>1 DEF Reply, Unsent, TheLink
<1>3. CASE TheLink = "up"
  <2>1. started /\ ~closed /\ writable
    BY <1>3 DEF TheLink
  <2>2. out' = out /\ wire' = wire \cup {[id |-> FreshId, req |-> r]}
    BY <2>1 DEF Request, Sends
  <2>3. Reply' = [Reply EXCEPT ![r] = "pending"]
    <3>1. Reply'[r] = "pending"
      <4> DEFINE n == [id |-> FreshId, req |-> r]
      <4>1. n.req = r /\ n \in wire'
        BY <2>2
      <4> HIDE DEF n
      <4>2. \E m \in wire' : m.req = r
        BY <4>1
      <4>. QED BY <1>1, <2>2, <4>2 DEF Reply, Unsent
    <3>2. \A q \in Requests \ {r} : Reply'[q] = Reply[q]
      BY <2>2 DEF Reply, Unsent
    <3>. QED BY <3>1, <3>2, OneReply
  <2>. QED BY <1>2, <1>3, <2>3 DEF Link!Ask
<1>4. CASE TheLink # "up"
  <2>1. ~started \/ closed \/ ~writable
    BY <1>4 DEF TheLink
  <2>2. PICK k \in {"notStarted"} \cup Errors :
          out' = [out EXCEPT ![r] = Settled(k)] /\ wire' = wire
    BY <2>1 DEF Request, Sends, Inv, TypeOK, Errors
  <2>3. out'[r].kind \notin {"none", "result"}
    BY <1>1, <2>2 DEF Settled, Errors
  <2>4. \A q \in Requests \ {r} : out'[q] = out[q]
    BY <2>2
  <2>5. Reply' = [Reply EXCEPT ![r] = "error"]
    <3>1. Reply'[r] = "error"
      BY <2>3 DEF Reply
    <3>2. \A q \in Requests \ {r} : Reply'[q] = Reply[q]
      BY <2>2, <2>4 DEF Reply, Unsent
    <3>. QED BY <3>1, <3>2, OneReply
  <2>. QED BY <1>2, <1>4, <2>5 DEF Link!Ask
<1>. QED BY <1>3, <1>4

\* Every step of the connection is a step of the link, or none.
LEMMA StepRefines ==
  ASSUME Inv, Inv', [Next]_vars
  PROVE  [Link!Next]_(Link!vars)
<1> DEFINE Goal == Link!Next \/ UNCHANGED <<TheLink, Reply>>
<1> SUFFICES Goal
  BY DEF Link!vars
<1>1. Link!End => Link!Next
  BY DEF Link!Next
<1>2. ASSUME NEW e \in Errors, Fail(e, Alive) \/ Fail(e, TRUE) \/ Fail(e, FALSE),
             wire' = wire
      PROVE  Goal
  BY <1>1, <1>2, FailAlive, FailEnds
<1>3. ASSUME UNCHANGED <<out, wire, closed, started>>, closed \/ ~started \/ writable' = writable
      PROVE  UNCHANGED <<TheLink, Reply>>
  BY <1>3 DEF TheLink, Reply, Unsent
<1>4. CASE UNCHANGED vars
  BY <1>3, <1>4 DEF vars, link, calls
<1>5. CASE StartCalled
  <2>1. /\ out' = out /\ wire' = wire \cup {[id |-> FreshId, req |-> Initialize]}
        /\ UNCHANGED <<closed, started>> /\ ~started
    BY <1>5 DEF StartCalled, Sends, Inv, StartInv
  <2>2. UNCHANGED <<TheLink, Reply>>
    BY <2>1, NamesAssumption DEF TheLink, Reply, Unsent
  <2>. QED BY <2>2
<1>6. CASE StartSucceeds
  <2>1. ~started /\ ~closed /\ started' /\ writable /\ UNCHANGED <<closed, writable, out, wire>>
    BY <1>6 DEF StartSucceeds, Inv, StartInv, calls
  <2>2. Link!Connect
    BY <2>1 DEF Link!Connect, TheLink, Reply, Unsent
  <2>. QED BY <2>2 DEF Link!Next
<1>7. CASE StartCatches
  <2> DEFINE k == out[Initialize].kind
             e == IF k = "result" THEN "closed" ELSE k
  <2>1. k \in {"result"} \cup Errors
    BY <1>7 DEF StartCatches, Inv, TypeOK, StartInv, Outcomes, All
  <2>2. e \in Errors /\ Fail(e, Alive) /\ wire' = wire
    BY <1>7, <2>1 DEF Errors, StartCatches
  <2> HIDE DEF e
  <2>. QED BY <1>2, <2>2
<1>8. CASE StartRefused \/ StartRejects \/ CloseReturns \/ StopContinues \/ ChildExits
  BY <1>3, <1>8
     DEF StartRefused, StartRejects, CloseReturns, StopContinues, ChildExits,
         link, calls
<1>9. CASE CloseCalled
  BY <1>2, <1>9 DEF CloseCalled, Errors
<1>10. CASE \E r \in Requests : Request(r)
  BY <1>10, RequestAsks DEF Link!Next
<1>11. CASE \E m \in pending : TimesOut(m)
  <2>1. PICK m \in pending : TimesOut(m)
    BY <1>11
  <2>2. Settled("timeout").kind # "none"
    BY DEF Settled
  <2>. QED BY <2>1, <2>2, SettlesOne DEF TimesOut, link, Link!Next
<1>12. CASE \E m \in wire, kind \in {"result", "remote"} : Answered(m, kind)
  <2>1. PICK m \in wire, kind \in {"result", "remote"} : Answered(m, kind)
    BY <1>12
  <2> DEFINE v == [kind |-> kind, of |-> m.req]
  <2>2. m \in pending /\ out' = [out EXCEPT ![m.req] = v]
    BY <2>1, AnswerSettles
  <2>3. v.kind # "none"
    OBVIOUS
  <2> HIDE DEF v
  <2>. QED BY <2>1, <2>2, <2>3, SettlesOne DEF Answered, link, Link!Next
<1>13. CASE \E e \in {"process", "io", "protocol"} : LinkFails(e)
  BY <1>2, <1>13 DEF LinkFails, Errors
<1>14. CASE PipeBreaks
  <2>1. UNCHANGED <<out, wire, closed, started>> /\ writable /\ ~writable'
    BY <1>14 DEF PipeBreaks, calls
  <2>2. CASE closed \/ ~started
    BY <1>3, <2>1, <2>2
  <2>3. CASE ~closed /\ started
    <3>1. Link!Break
      BY <2>1, <2>3 DEF Link!Break, TheLink, Reply, Unsent
    <3>. QED BY <3>1 DEF Link!Next
  <2>. QED BY <2>2, <2>3
<1>15. CASE ChildCloses
  BY <1>2, <1>15 DEF ChildCloses, Errors
<1>. QED BY <1>4, <1>5, <1>6, <1>7, <1>8, <1>9, <1>10, <1>11, <1>12, <1>13,
            <1>14, <1>15 DEF Next, Starting, Continuation

\* CodexRpc implements the link that CodexBridge relies on: it comes up once
\* and ends once, and settles each request exactly once.
THEOREM LinkImplemented == Spec => ImplementsLink
<1>1. Init => Link!Init
  BY DEF Init, Link!Init, TheLink, Reply, Unsent, Settled, All
<1>2. Inv /\ Inv' /\ [Next]_vars => [Link!Next]_(Link!vars)
  BY StepRefines
<1>. QED BY <1>1, <1>2, Invariance, PTL DEF Spec, ImplementsLink, Link!Spec

=============================================================================
