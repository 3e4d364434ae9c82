---------------------------- MODULE StreamProofs -----------------------------
(***************************************************************************)
(* Theorems about the event stream of a response, for every value of the   *)
(* constants: what a client receives is in order, numbered and complete,   *)
(* and it agrees with the server on how the response ended (Segment and    *)
(* StreamClient); and the three readers that cut chunks of bytes into      *)
(* lines read the same lines however the bytes are cut (LineReaders).      *)
(*                                                                         *)
(* Nothing of this is inductive alone: that an item's next event is the    *)
(* right one depends on its state, and its text on the deltas sent so far. *)
(* ItemOK relates an item to the events about it, Fit the counter to the   *)
(* events written, and Good is both, for a segment between two methods.    *)
(* Within a method one item at a time is AtWork.  SegInv says what is left *)
(* of Good once the operation is settled.  Nor do a reader's lines say     *)
(* where in the bytes it is: Reads says it of drain, Through of the loop   *)
(* of #onData, and InputLinesWhole of the data listener itself.            *)
(*                                                                         *)
(* The first part is about the folds of the model.  A fold over a sequence *)
(* is a recursive function on the sets of its indices; FoldSets shows that *)
(* there is one, by induction on the largest index, so that DispatchedRuns,*)
(* DeltasRun and AllClosedKeeps can follow a fold element by element, and  *)
(* RunsSets and RunsMore any fold over a sequence.                         *)
(***************************************************************************)
EXTENDS StreamClient, LineReaders, WellFoundedInduction, TLAPS

-----------------------------------------------------------------------------
(* Folds *)

\* A set of natural numbers has a least one.
LEMMA NatMin ==
  ASSUME NEW T, T \subseteq Nat, T # {}
  PROVE  \E x \in T : \A y \in T : x <= y
<1> DEFINE R == OpToRel(<, Nat)
<1>1. IsWellFoundedOn(R, Nat)
  BY NatLessThanWellFounded
<1>2. \A x, y \in Nat : <<y, x>> \in R <=> y < x
  BY DEF OpToRel
<1> HIDE DEF R
<1>3. PICK x \in T : \A y \in T : ~ (<<y, x>> \in R)
  BY <1>1, WFMin
<1>4. ASSUME NEW y \in T PROVE x <= y
  <2>1. x \in Nat /\ y \in Nat
    OBVIOUS
  <2>2. ~ (y < x)
    BY <1>2, <1>3, <2>1
  <2>. QED BY <2>1, <2>2
<1>. QED BY <1>4

\* Induction over the natural numbers, for a set.
LEMMA NatInd ==
  ASSUME NEW S, 0 \in S, \A n \in Nat : n \in S => n + 1 \in S
  PROVE  Nat \subseteq S
<1> DEFINE T == Nat \ S
<1>1. CASE T # {}
  <2>1. PICK x \in T : \A y \in T : x <= y
    BY <1>1, NatMin
  <2>2. x # 0 /\ x \in Nat
    OBVIOUS
  <2>3. x - 1 \in Nat /\ x - 1 \notin T
    BY <2>1, <2>2
  <2>. QED BY <2>2, <2>3
<1>. QED BY <1>1

\* The largest of the numbers up to n + 1 is n + 1, if it is among them.
LEMMA MaxUpTo ==
  ASSUME NEW n \in Nat, NEW s \in SUBSET (1 .. n + 1), n + 1 \in s
  PROVE  Max(s) = n + 1
<1>1. n + 1 >= n + 1 /\ \A y \in s : y \in Nat /\ n + 1 >= y
  OBVIOUS
<1>2. \A x \in s : (\A y \in s : x >= y) => x = n + 1
  BY <1>1
<1>. QED BY <1>1, <1>2 DEF Max

\* Max of a set of numbers up to n is its largest element.
LEMMA MaxIn ==
  ASSUME NEW n \in Nat, NEW s \in SUBSET (1 .. n), s # {}
  PROVE  Max(s) \in s /\ \A z \in s : z <= Max(s)
<1> DEFINE T == {n - x : x \in s}
<1>1. T \subseteq Nat /\ T # {}
  <2>1. \A x \in s : n - x \in Nat
    OBVIOUS
  <2>. QED BY <2>1
<1>2. PICK y \in T : \A z \in T : y <= z
  BY <1>1, NatMin
<1>3. PICK x \in s : y = n - x
  OBVIOUS
<1>4. ASSUME NEW z \in s PROVE x >= z
  <2>1. n - z \in T
    OBVIOUS
  <2>2. n - x <= n - z
    BY <1>2, <1>3, <2>1
  <2>3. x \in 1 .. n /\ z \in 1 .. n
    OBVIOUS
  <2>. QED BY <2>2, <2>3
<1>5. \A x1 \in s : (\A z \in s : x1 >= z) => \A z \in s : z <= x1
  OBVIOUS
<1>. QED BY <1>4, <1>5 DEF Max

\* h is the fold of F from b over each set of numbers up to N, largest last.
Folds(h, b, N, F) ==
    \A s \in SUBSET (1 .. N) :
      h[s] = IF s = {} THEN b ELSE F[h[s \ {Max(s)}], Max(s)]

\* Such a function exists, for any operation F on T and the numbers up to N.
LEMMA FoldSets ==
  ASSUME NEW T, NEW b \in T, NEW N \in Nat, NEW F \in [T \X (1 .. N) -> T]
  PROVE  \E h \in [SUBSET (1 .. N) -> T] : Folds(h, b, N, F)
<1> DEFINE Is(n, h) == \A s \in SUBSET (1 .. n) :
                         h[s] = IF s = {} THEN b ELSE F[h[s \ {Max(s)}], Max(s)]
           Has(n) == \E h \in [SUBSET (1 .. n) -> T] : Is(n, h)
           S == {n \in Nat : n <= N => Has(n)}
<1>1. Has(0)
  <2>1. Is(0, [s \in SUBSET (1 .. 0) |-> b])
    <3>1. 1 .. 0 = {}
      OBVIOUS
    <3>. QED BY <3>1
  <2>. QED BY <2>1
<1>2. ASSUME NEW n \in 0 .. N - 1, Has(n) PROVE Has(n + 1)
  <2>1. PICK h \in [SUBSET (1 .. n) -> T] : Is(n, h)
    BY <1>2
  <2> DEFINE k == [s \in SUBSET (1 .. n + 1) |->
                     IF n + 1 \in s THEN F[h[s \ {n + 1}], n + 1] ELSE h[s]]
  <2>2. \A s \in SUBSET (1 .. n + 1) : s \ {n + 1} \in SUBSET (1 .. n)
    OBVIOUS
  <2>3. k \in [SUBSET (1 .. n + 1) -> T]
    <3>0. n + 1 \in 1 .. N
      OBVIOUS
    <3>1. ASSUME NEW s \in SUBSET (1 .. n + 1)
          PROVE  (IF n + 1 \in s THEN F[h[s \ {n + 1}], n + 1] ELSE h[s]) \in T
      <4>1. CASE n + 1 \in s
        <5>1. h[s \ {n + 1}] \in T
          BY <2>2
        <5>2. F[h[s \ {n + 1}], n + 1] \in T
          BY <5>1, <3>0
        <5>. QED BY <4>1, <5>2
      <4>2. CASE n + 1 \notin s
        <5>1. s \in SUBSET (1 .. n)
          BY <4>2, <2>2
        <5>. QED BY <4>2, <5>1
      <4>. QED BY <4>1, <4>2
    <3>. QED BY <3>1
  <2>4. ASSUME NEW s \in SUBSET (1 .. n + 1)
        PROVE  k[s] = IF s = {} THEN b ELSE F[k[s \ {Max(s)}], Max(s)]
    <3>1. CASE n + 1 \in s
      <4>1. Max(s) = n + 1
        BY <3>1, MaxUpTo
      <4>2. k[s \ {n + 1}] = h[s \ {n + 1}]
        BY <2>2
      <4>. QED BY <3>1, <4>1, <4>2
    <3>2. CASE n + 1 \notin s
      <4>1. s \in SUBSET (1 .. n)
        BY <3>2, <2>2
      <4>2. s \ {Max(s)} \in SUBSET (1 .. n)
        BY <4>1
      <4>3. k[s] = h[s] /\ k[s \ {Max(s)}] = h[s \ {Max(s)}]
        <5>1. n + 1 \notin s \ {Max(s)} /\ s \ {Max(s)} \in SUBSET (1 .. n + 1)
          BY <3>2
        <5>. QED BY <3>2, <5>1
      <4>4. h[s] = IF s = {} THEN b ELSE F[h[s \ {Max(s)}], Max(s)]
        BY <2>1, <4>1
      <4>. QED BY <4>3, <4>4
    <3>. QED BY <3>1, <3>2
  <2>5. Is(n + 1, k)
    BY <2>4
  <2>. QED BY <2>3, <2>5
<1>3. N \in S
  <2> HIDE DEF Has
  <2>1. 0 \in S /\ \A n \in Nat : n \in S => n + 1 \in S
    BY <1>1, <1>2
  <2> HIDE DEF S
  <2>2. Nat \subseteq S
    BY <2>1, NatInd
  <2>. QED BY <2>2
<1>4. Has(N)
  <2> HIDE DEF Has
  <2>. QED BY <1>3
<1>. QED BY <1>4 DEF Folds

\* The parts of a fold over 1 .. k.
LEMMA Parts ==
  ASSUME NEW k \in Nat, k # 0
  PROVE  /\ 1 .. k # {} /\ Max(1 .. k) = k /\ (1 .. k) \ {k} = 1 .. k - 1
         /\ \A n \in Nat : k <= n => 1 .. k \in SUBSET (1 .. n)
<1>1. k - 1 \in Nat /\ (k - 1) + 1 = k /\ k \in 1 .. k
  OBVIOUS
<1>2. Max(1 .. k) = k
  BY <1>1, MaxUpTo
<1>. QED BY <1>1, <1>2

\* Induction up to N.
LEMMA UpTo ==
  ASSUME NEW N \in Nat, NEW S, 0 \in S, \A k \in 0 .. N - 1 : k \in S => k + 1 \in S
  PROVE  \A k \in 0 .. N : k \in S
<1> DEFINE T == {k \in Nat : k <= N => k \in S}
<1>1. 0 \in T /\ \A k \in Nat : k \in T => k + 1 \in T
  OBVIOUS
<1> HIDE DEF T
<1>2. Nat \subseteq T
  BY <1>1, NatInd
<1>. QED BY <1>2 DEF T

-----------------------------------------------------------------------------
Item == [of : Items \cup {None}, text : Seq(Letters), done : BOOLEAN]
Types == Range(MessageEvents) \cup Range(CallEvents)
           \cup {"created", "in_progress", "completed", "failed"}
Event == [type : Types, number : Nat, index : Nat, text : Seq(Letters),
          output : Seq(Item)]
Result == [failed : BOOLEAN, completed : Seq(Seq(Item))]
NoResult == [failed |-> FALSE, completed |-> <<>>]

\* The client takes a stream event by event: g is what it has after each.
LEMMA DispatchedRuns ==
  ASSUME NEW q \in Seq(Event)
  PROVE  \E g \in [0 .. Len(q) -> Result] :
           /\ g[0] = NoResult /\ Dispatched(q) = g[Len(q)]
           /\ \A k \in 1 .. Len(q) : g[k] = Dispatch(g[k - 1], q[k])
<1> DEFINE N == Len(q)
           Of(it) == [x \in SUBSET DOMAIN q |->
                        IF x = {} THEN NoResult ELSE Dispatch(it[x \ {Max(x)}], q[Max(x)])]
           F == [p \in Result \X (1 .. N) |-> Dispatch(p[1], q[p[2]])]
           it == CHOOSE x : x = Of(x)
<1>1. N \in Nat /\ DOMAIN q = 1 .. N /\ NoResult \in Result
  BY DEF NoResult, Result
<1>2. ASSUME NEW r \in Result, NEW k \in 1 .. N PROVE Dispatch(r, q[k]) \in Result
  <2>1. q[k] \in Event
    OBVIOUS
  <2>2. q[k].output \in Seq(Item)
    BY <2>1 DEF Event
  <2>3. <<q[k].output>> \in Seq(Seq(Item))
    BY <2>2
  <2>. QED BY <2>3 DEF Dispatch, Result
<1>3. F \in [Result \X (1 .. N) -> Result]
  BY <1>2
<1> HIDE DEF F
<1>4. PICK h \in [SUBSET (1 .. N) -> Result] : Folds(h, NoResult, N, F)
  BY <1>1, <1>3, FoldSets
<1>5. h = Of(h)
  <2>1. ASSUME NEW x \in SUBSET (1 .. N), x # {}
        PROVE  F[h[x \ {Max(x)}], Max(x)] = Dispatch(h[x \ {Max(x)}], q[Max(x)])
    <3>1. Max(x) \in 1 .. N
      BY <1>1, <2>1, MaxIn
    <3>2. h[x \ {Max(x)}] \in Result
      OBVIOUS
    <3>. QED BY <3>1, <3>2 DEF F
  <2>. QED BY <1>1, <1>4, <2>1 DEF Folds
<1>6. it = Of(it)
  BY <1>5
<1>7. Dispatched(q) = it[DOMAIN q]
  BY DEF Dispatched, FoldLeft, MapThenFoldSet, NoResult
<1> HIDE DEF it
<1>8. it[{}] = NoResult
  BY <1>6
<1>9. ASSUME NEW k \in 1 .. N PROVE it[1 .. k] = Dispatch(it[1 .. k - 1], q[k])
  <2>1. /\ 1 .. k # {} /\ Max(1 .. k) = k /\ (1 .. k) \ {k} = 1 .. k - 1
        /\ 1 .. k \in SUBSET DOMAIN q
    BY <1>1, Parts
  <2>. QED BY <1>6, <2>1
<1> DEFINE g == [k \in 0 .. N |-> it[1 .. k]]
           S == {k \in 0 .. N : it[1 .. k] \in Result}
<1>10. \A k \in 0 .. N : k \in S
  <2>1. 0 \in S
    <3>1. 1 .. 0 = {}
      OBVIOUS
    <3>. QED BY <1>1, <1>8, <3>1
  <2>2. ASSUME NEW k \in 0 .. N - 1, k \in S PROVE k + 1 \in S
    <3>1. k + 1 \in 1 .. N /\ (k + 1) - 1 = k
      BY <1>1
    <3>. QED BY <3>1, <1>2, <1>9, <2>2
  <2> HIDE DEF S
  <2>. QED BY <1>1, <2>1, <2>2, UpTo
<1>11. g \in [0 .. N -> Result]
  BY <1>10
<1>12. g[0] = NoResult /\ Dispatched(q) = g[N]
  <2>1. 1 .. 0 = {}
    OBVIOUS
  <2>. QED BY <1>1, <1>7, <1>8, <2>1
<1>13. \A k \in 1 .. N : g[k] = Dispatch(g[k - 1], q[k])
  BY <1>1, <1>9
<1>. QED BY <1>11, <1>12, <1>13

\* The deltas of item i are put together event by event.
Collects(g, q, i) ==
    /\ g[0] = <<>> /\ Deltas(q, i) = g[Len(q)]
    /\ \A k \in 1 .. Len(q) :
         g[k] = IF q[k].index = i /\ q[k].type = "delta" THEN g[k - 1] \o q[k].text
                ELSE g[k - 1]

\* There is such a g, and it has texts as its values.
LEMMA DeltasRun ==
  ASSUME NEW q \in Seq(Event), NEW i
  PROVE  \E g \in [0 .. Len(q) -> Seq(Letters)] : Collects(g, q, i)
<1> DEFINE N == Len(q)
           T == Seq(Letters)
           More(t, k) == IF q[k].index = i /\ q[k].type = "delta" THEN t \o q[k].text ELSE t
           Of(it) == [x \in SUBSET DOMAIN q |->
                        IF x = {} THEN <<>> ELSE More(it[x \ {Max(x)}], Max(x))]
           F == [p \in T \X (1 .. N) |-> More(p[1], p[2])]
           it == CHOOSE x : x = Of(x)
<1>1. N \in Nat /\ DOMAIN q = 1 .. N /\ <<>> \in T
  OBVIOUS
<1>2. ASSUME NEW t \in T, NEW k \in 1 .. N PROVE More(t, k) \in T
  <2>1. q[k] \in Event
    OBVIOUS
  <2>2. q[k].text \in Seq(Letters)
    BY <2>1 DEF Event
  <2>. QED BY <2>2
<1> HIDE DEF More, T
<1>3. F \in [T \X (1 .. N) -> T]
  BY <1>2
<1> HIDE DEF F
<1>4. PICK h \in [SUBSET (1 .. N) -> T] : Folds(h, <<>>, N, F)
  BY <1>1, <1>3, FoldSets
<1>5. h = Of(h)
  <2>1. ASSUME NEW x \in SUBSET (1 .. N), x # {}
        PROVE  F[h[x \ {Max(x)}], Max(x)] = More(h[x \ {Max(x)}], Max(x))
    <3>1. Max(x) \in 1 .. N
      BY <1>1, <2>1, MaxIn
    <3>2. h[x \ {Max(x)}] \in T
      OBVIOUS
    <3>. QED BY <3>1, <3>2 DEF F
  <2>. QED BY <1>1, <1>4, <2>1 DEF Folds
<1>6. it = Of(it)
  BY <1>5
<1>7. Deltas(q, i) = it[DOMAIN q]
  BY DEF Deltas, FoldLeft, MapThenFoldSet, More
<1> HIDE DEF it
<1>8. it[{}] = <<>>
  BY <1>6
<1>9. ASSUME NEW k \in 1 .. N PROVE it[1 .. k] = More(it[1 .. k - 1], k)
  <2>1. /\ 1 .. k # {} /\ Max(1 .. k) = k /\ (1 .. k) \ {k} = 1 .. k - 1
        /\ 1 .. k \in SUBSET DOMAIN q
    BY <1>1, Parts
  <2>. QED BY <1>6, <2>1
<1> DEFINE g == [k \in 0 .. N |-> it[1 .. k]]
           S == {k \in 0 .. N : it[1 .. k] \in T}
<1>10. \A k \in 0 .. N : k \in S
  <2>1. 0 \in S
    <3>1. 1 .. 0 = {}
      OBVIOUS
    <3>. QED BY <1>1, <1>8, <3>1
  <2>2. ASSUME NEW k \in 0 .. N - 1, k \in S PROVE k + 1 \in S
    <3>1. k + 1 \in 1 .. N /\ (k + 1) - 1 = k
      BY <1>1
    <3>. QED BY <3>1, <1>2, <1>9, <2>2
  <2> HIDE DEF S
  <2>. QED BY <1>1, <2>1, <2>2, UpTo
<1>11. g \in [0 .. N -> T]
  BY <1>10
<1>12. g[0] = <<>> /\ Deltas(q, i) = g[N]
  <2>1. 1 .. 0 = {}
    OBVIOUS
  <2>. QED BY <1>1, <1>7, <1>8, <2>1
<1>13. \A k \in 1 .. N : g[k] = More(g[k - 1], k)
  BY <1>1, <1>9
<1> HIDE DEF g
<1>. QED BY <1>11, <1>12, <1>13 DEF More, T, Collects

\* The deltas of an item, put together, are a text.
LEMMA DeltasTyped ==
  ASSUME NEW q \in Seq(Event), NEW i
  PROVE  Deltas(q, i) \in Seq(Letters)
<1>1. Len(q) \in 0 .. Len(q)
  OBVIOUS
<1>. QED BY <1>1, DeltasRun DEF Collects

\* One event more.
LEMMA DeltasMore ==
  ASSUME NEW q \in Seq(Event), NEW e \in Event, NEW i
  PROVE  Deltas(Append(q, e), i) =
           IF e.index = i /\ e.type = "delta" THEN Deltas(q, i) \o e.text ELSE Deltas(q, i)
<1> DEFINE p == Append(q, e)
           N == Len(q)
<1>1. p \in Seq(Event) /\ N \in Nat /\ Len(p) = N + 1 /\ p[N + 1] = e
      /\ \A k \in 1 .. N : p[k] = q[k]
  OBVIOUS
<1> HIDE DEF p
<1>2. PICK g \in [0 .. Len(q) -> Seq(Letters)] : Collects(g, q, i)
  BY DeltasRun
<1>3. PICK h \in [0 .. Len(p) -> Seq(Letters)] : Collects(h, p, i)
  BY <1>1, DeltasRun
<1> DEFINE S == {k \in 0 .. N : g[k] = h[k]}
<1>4. 0 \in S
  BY <1>1, <1>2, <1>3 DEF Collects
<1>5. ASSUME NEW k \in 0 .. N - 1, k \in S PROVE k + 1 \in S
  <2>1. k + 1 \in 1 .. N /\ k + 1 \in 1 .. N + 1 /\ (k + 1) - 1 = k /\ p[k + 1] = q[k + 1]
    BY <1>1
  <2>2. g[k + 1] = IF q[k + 1].index = i /\ q[k + 1].type = "delta"
                   THEN g[k] \o q[k + 1].text ELSE g[k]
    BY <1>2, <2>1 DEF Collects
  <2>3. h[k + 1] = IF p[k + 1].index = i /\ p[k + 1].type = "delta"
                   THEN h[k] \o p[k + 1].text ELSE h[k]
    BY <1>1, <1>3, <2>1 DEF Collects
  <2>. QED BY <1>5, <2>1, <2>2, <2>3
<1>6. \A k \in 0 .. N : k \in S
  <2> HIDE DEF S
  <2>. QED BY <1>1, <1>4, <1>5, UpTo
<1>7. N \in 0 .. N /\ N + 1 \in 1 .. N + 1 /\ (N + 1) - 1 = N
  BY <1>1
<1>8. g[N] = h[N]
  BY <1>6, <1>7
<1>. QED BY <1>1, <1>2, <1>3, <1>7, <1>8 DEF p, Collects

\* An item that no event is about has no deltas.
LEMMA DeltasNone ==
  ASSUME NEW q \in Seq(Event), NEW i, \A n \in DOMAIN q : q[n].index # i
  PROVE  Deltas(q, i) = <<>>
<1> DEFINE N == Len(q)
<1>1. PICK g \in [0 .. Len(q) -> Seq(Letters)] : Collects(g, q, i)
  BY DeltasRun
<1>2. N \in Nat /\ DOMAIN q = 1 .. N /\ N \in 0 .. N
  OBVIOUS
<1> DEFINE S == {k \in 0 .. N : g[k] = <<>>}
<1>3. 0 \in S
  BY <1>1, <1>2 DEF Collects
<1>4. ASSUME NEW k \in 0 .. N - 1, k \in S PROVE k + 1 \in S
  <2>1. k + 1 \in 1 .. N /\ (k + 1) - 1 = k
    BY <1>2
  <2>. QED BY <1>1, <1>2, <1>4, <2>1 DEF Collects
<1>5. \A k \in 0 .. N : k \in S
  <2> HIDE DEF S
  <2>. QED BY <1>2, <1>3, <1>4, UpTo
<1>. QED BY <1>1, <1>2, <1>5 DEF Collects

-----------------------------------------------------------------------------
(* What was sent of an item *)

Stage == [output : Seq(Item), finished : BOOLEAN, sequence : Nat,
          status : {"in_progress", "completed", "failed"}]
State == [seg : Stage, sent : Seq(Event), room : Nat, threw : BOOLEAN]

Numbered(q) == \A n \in DOMAIN q : q[n].number = n - 1
Quiet(q) == \A n \in DOMAIN q : ~ Terminal(q[n])

Absent(q, i) == \A n \in DOMAIN q : q[n].index # i
Had(q, i, type) == \E n \in DOMAIN q : q[n].index = i /\ q[n].type = type
Latest(q, i, type) ==
    \E n \in DOMAIN q : /\ q[n].index = i /\ q[n].type = type
                        /\ \A m \in n + 1 .. Len(q) : q[m].index # i

\* What may follow what in the life of an item of output o.
Follows(o, i, a, b) ==
    IF o[i].of # None
    THEN \/ a = "added" /\ b = "part.added"
         \/ a \in {"part.added", "delta"} /\ b \in {"delta", "text.done"}
         \/ a = "text.done" /\ b = "part.done"
         \/ a = "part.done" /\ b = "done"
    ELSE \/ a = "added" /\ b = "args.delta"
         \/ a = "args.delta" /\ b = "args.done"
         \/ a = "args.done" /\ b = "done"

\* WellNested, from each event to the next of its item.
Orderly(o, q) ==
    \A n \in DOMAIN q : q[n].index # 0 =>
      /\ q[n].index \in DOMAIN o
      /\ \/ q[n].type = "added" /\ \A m \in 1 .. n - 1 : q[m].index # q[n].index
         \/ \E m \in 1 .. n - 1 :
              /\ q[m].index = q[n].index
              /\ \A k \in m + 1 .. n - 1 : q[k].index # q[n].index
              /\ Follows(o, q[n].index, q[m].type, q[n].type)

\* An event of this type may come next for item i.
Comes(o, q, i, type) ==
    \/ type = "added" /\ Absent(q, i)
    \/ \E a \in Types : Latest(q, i, a) /\ Follows(o, i, a, type)

\* p is q and one event more.
Adds(q, p, i, type, text) ==
    \E e \in Event : e.index = i /\ e.type = type /\ e.text = text /\ p = Append(q, e)

\* Items are added, stay what they are, and stay done.
Grows(o, p) ==
    /\ Len(o) <= Len(p)
    /\ \A i \in DOMAIN o : p[i].of = o[i].of /\ (o[i].done => p[i].done)

\* Growing is transitive.
LEMMA GrowsOn ==
  ASSUME NEW o \in Seq(Item), NEW p \in Seq(Item), NEW r \in Seq(Item),
         Grows(o, p), Grows(p, r)
  PROVE  Grows(o, r)
BY DEF Grows

\* What was in order stays so when the output grows.
LEMMA OrderlyOn ==
  ASSUME NEW o \in Seq(Item), NEW p \in Seq(Item), Grows(o, p), NEW q, Orderly(o, q)
  PROVE  Orderly(p, q)
<1>1. DOMAIN o \subseteq DOMAIN p
  BY DEF Grows
<1>2. \A i \in DOMAIN o : \A a, b : Follows(o, i, a, b) => Follows(p, i, a, b)
  BY DEF Grows, Follows
<1>. QED BY <1>1, <1>2 DEF Orderly

\* A stream in order stays so with an event that may come next.
LEMMA OrderlyMore ==
  ASSUME NEW o \in Seq(Item), NEW q \in Seq(Event), NEW e \in Event, Orderly(o, q),
         e.index # 0 => e.index \in DOMAIN o /\ Comes(o, q, e.index, e.type)
  PROVE  Orderly(o, Append(q, e))
<1> DEFINE p == Append(q, e)
           N == Len(q)
<1>1. p \in Seq(Event) /\ N \in Nat /\ Len(p) = N + 1 /\ p[N + 1] = e
      /\ DOMAIN p = 1 .. N + 1 /\ DOMAIN q = 1 .. N
      /\ \A k \in 1 .. N : p[k] = q[k]
  OBVIOUS
<1> DEFINE Fits(u, n) ==
             /\ u[n].index \in DOMAIN o
             /\ \/ u[n].type = "added" /\ \A m \in 1 .. n - 1 : u[m].index # u[n].index
                \/ \E m \in 1 .. n - 1 :
                     /\ u[m].index = u[n].index
                     /\ \A k \in m + 1 .. n - 1 : u[k].index # u[n].index
                     /\ Follows(o, u[n].index, u[m].type, u[n].type)
<1> HIDE DEF p, N
<1>2. ASSUME NEW n \in 1 .. N, q[n].index # 0 PROVE Fits(p, n)
  <2>1. Fits(q, n)
    BY <1>1, <1>2 DEF Orderly
  <2>2. p[n] = q[n] /\ \A k \in 1 .. n - 1 : p[k] = q[k]
    BY <1>1
  <2>. QED BY <1>1, <2>1, <2>2
<1>3. ASSUME e.index # 0 PROVE Fits(p, N + 1)
  <2>1. p[N + 1] = e /\ (N + 1) - 1 = N /\ \A k \in 1 .. N : p[k] = q[k]
    BY <1>1
  <2>2. CASE e.type = "added" /\ Absent(q, e.index)
    BY <1>1, <1>3, <2>1, <2>2 DEF Absent
  <2>3. ASSUME NEW a \in Types, Latest(q, e.index, a), Follows(o, e.index, a, e.type)
        PROVE  Fits(p, N + 1)
    <3>1. PICK m \in 1 .. N : /\ q[m].index = e.index /\ q[m].type = a
                              /\ \A k \in m + 1 .. N : q[k].index # e.index
      BY <1>1, <2>3 DEF Latest, N
    <3>2. m \in 1 .. (N + 1) - 1 /\ p[m] = q[m]
      BY <2>1, <3>1
    <3>3. \A k \in m + 1 .. (N + 1) - 1 : p[k].index # e.index
      <4>1. \A k \in m + 1 .. (N + 1) - 1 : k \in m + 1 .. N /\ k \in 1 .. N
        BY <1>1, <3>1
      <4>. QED BY <2>1, <3>1, <4>1
    <3>. QED BY <1>3, <2>1, <2>3, <3>1, <3>2, <3>3
  <2>. QED BY <1>3, <2>2, <2>3 DEF Comes
<1>4. ASSUME NEW n \in DOMAIN p, p[n].index # 0 PROVE Fits(p, n)
  <2> HIDE DEF Fits
  <2>1. n \in 1 .. N => p[n] = q[n]
    BY <1>1
  <2>2. n \in 1 .. N \/ n = N + 1
    BY <1>1
  <2>. QED BY <1>1, <1>2, <1>3, <1>4, <2>1, <2>2
<1>. QED BY <1>4 DEF Orderly, p

\* What one event more tells.
Tells(q, p, i, type, text) ==
    /\ p \in Seq(Event) /\ Latest(p, i, type) /\ Had(p, i, type)
    /\ \A j, a : Had(q, j, a) => Had(p, j, a)
    /\ \A j, a : j # i /\ Latest(q, j, a) => Latest(p, j, a)
    /\ \A j : Deltas(p, j) = IF j = i /\ type = "delta" THEN Deltas(q, j) \o text
                             ELSE Deltas(q, j)

\* What one event more tells, of its own item and of the others.
LEMMA AddsTell ==
  ASSUME NEW q \in Seq(Event), NEW p, NEW i \in Nat, NEW type, NEW text,
         Adds(q, p, i, type, text)
  PROVE  Tells(q, p, i, type, text)
<1>1. PICK e \in Event : e.index = i /\ e.type = type /\ e.text = text /\ p = Append(q, e)
  BY DEF Adds
<1> DEFINE N == Len(q)
<1>2. p \in Seq(Event) /\ N \in Nat /\ Len(p) = N + 1 /\ p[N + 1] = e
      /\ DOMAIN p = 1 .. N + 1 /\ DOMAIN q = 1 .. N
      /\ \A k \in 1 .. N : p[k] = q[k]
  BY <1>1
<1> HIDE DEF N
<1>3. Latest(p, i, type) /\ Had(p, i, type)
  BY <1>1, <1>2 DEF Latest, Had
<1>4. \A j, a : Had(q, j, a) => Had(p, j, a)
  BY <1>2 DEF Had
<1>5. ASSUME NEW j, NEW a, j # i, Latest(q, j, a) PROVE Latest(p, j, a)
  <2>1. PICK n \in 1 .. N : /\ q[n].index = j /\ q[n].type = a
                            /\ \A m \in n + 1 .. N : q[m].index # j
    BY <1>2, <1>5 DEF Latest, N
  <2>2. \A m \in n + 1 .. N + 1 : p[m].index # j
    BY <1>1, <1>2, <1>5, <2>1
  <2>. QED BY <1>2, <2>1, <2>2 DEF Latest
<1>6. \A j : Deltas(p, j) = IF j = i /\ type = "delta" THEN Deltas(q, j) \o text
                            ELSE Deltas(q, j)
  BY <1>1, DeltasMore
<1>. QED BY <1>2, <1>3, <1>4, <1>5, <1>6 DEF Tells

\* The places of the events are their order.
LEMMA Places ==
  ASSUME NEW n
  PROVE  /\ \A k \in 1 .. 6 : MessageEvents[n] = MessageEvents[k] /\ n \in 1 .. 6 => n = k
         /\ \A k \in 1 .. 4 : CallEvents[n] = CallEvents[k] /\ n \in 1 .. 4 => n = k
BY DEF MessageEvents, CallEvents

\* The place of an event in the life of a message.
LEMMA PlaceOfMessage ==
  ASSUME NEW e, seg.output[e.index].of # None, NEW k \in 1 .. 6, e.type = MessageEvents[k]
  PROVE  Place(e) = k
BY Places DEF Place

\* The place of an event in the life of a function call.
LEMMA PlaceOfCall ==
  ASSUME NEW e, seg.output[e.index].of = None, NEW k \in 1 .. 4, e.type = CallEvents[k]
  PROVE  Place(e) = k
<1>1. e.type \notin Range(MessageEvents) \ Range(CallEvents)
  BY DEF Range, CallEvents
<1>. QED BY <1>1, Places DEF Place

\* A stream in order is well nested.
LEMMA OrderlyNested == sent \in Seq(Event) /\ Orderly(seg.output, sent) => WellNested
<1> SUFFICES ASSUME sent \in Seq(Event), Orderly(seg.output, sent),
                    NEW n \in DOMAIN sent, sent[n].index # 0
             PROVE  LET before == {m \in 1 .. n - 1 : sent[m].index = sent[n].index}
                        last == sent[Max(before)]
                    IN IF before = {} THEN Place(sent[n]) = 1
                       ELSE \/ Place(sent[n]) = Place(last) + 1
                            \/ Place(sent[n]) = Place(last) /\ last.type = "delta"
                            \/ last.type = "part.added" /\ sent[n].type = "text.done"
  BY DEF WellNested
<1> DEFINE i == sent[n].index
           before == {m \in 1 .. n - 1 : sent[m].index = i}
<1>1. n \in 1 .. Len(sent) /\ n \in Nat /\ before \in SUBSET (1 .. n)
  OBVIOUS
<1>2. CASE sent[n].type = "added" /\ \A m \in 1 .. n - 1 : sent[m].index # i
  <2>1. MessageEvents[1] = "added" /\ CallEvents[1] = "added"
    BY DEF MessageEvents, CallEvents
  <2>2. Place(sent[n]) = 1
    BY <1>2, <2>1, PlaceOfMessage, PlaceOfCall
  <2>. QED BY <1>2, <2>2
<1>3. ASSUME NEW m \in 1 .. n - 1, sent[m].index = i,
             \A k \in m + 1 .. n - 1 : sent[k].index # i,
             Follows(seg.output, i, sent[m].type, sent[n].type)
      PROVE  /\ before # {} /\ Max(before) = m
             /\ \/ Place(sent[n]) = Place(sent[m]) + 1
                \/ Place(sent[n]) = Place(sent[m]) /\ sent[m].type = "delta"
                \/ sent[m].type = "part.added" /\ sent[n].type = "text.done"
  <2>1. m \in before /\ \A k \in before : k <= m
    BY <1>1, <1>3
  <2>2. Max(before) \in before /\ \A k \in before : k <= Max(before)
    <3> HIDE DEF before
    <3>1. before # {}
      BY <2>1
    <3>. QED BY <1>1, <3>1, MaxIn
  <2>3. Max(before) = m
    <3> HIDE DEF before
    <3>1. Max(before) <= m /\ m <= Max(before)
      BY <2>1, <2>2
    <3>2. Max(before) \in 1 .. n /\ m \in 1 .. n
      BY <1>1, <2>1, <2>2
    <3>. QED BY <3>1, <3>2
  <2>4. CASE seg.output[i].of # None
    <3>1. \A k \in 1 .. 6 : /\ sent[m].type = MessageEvents[k] => Place(sent[m]) = k
                            /\ sent[n].type = MessageEvents[k] => Place(sent[n]) = k
      BY <1>3, <2>4, PlaceOfMessage
    <3>. QED BY <1>3, <2>1, <2>3, <2>4, <3>1 DEF Follows, MessageEvents
  <2>5. CASE seg.output[i].of = None
    <3>1. \A k \in 1 .. 4 : /\ sent[m].type = CallEvents[k] => Place(sent[m]) = k
                            /\ sent[n].type = CallEvents[k] => Place(sent[n]) = k
      BY <1>3, <2>5, PlaceOfCall
    <3>. QED BY <1>3, <2>1, <2>3, <2>5, <3>1 DEF Follows, CallEvents
  <2>. QED BY <2>4, <2>5
<1>. QED BY <1>2, <1>3 DEF Orderly

-----------------------------------------------------------------------------
(* One event *)

\* What using up a number changes.
LEMMA CountedIs ==
  ASSUME NEW s \in State
  PROVE  /\ Counted(s) \in State /\ Counted(s).seg = [s.seg EXCEPT !.sequence = @ + 1]
         /\ Counted(s).sent = s.sent /\ Counted(s).room = s.room
         /\ Counted(s).threw = s.threw
<1>1. s.seg \in Stage /\ [s.seg EXCEPT !.sequence = @ + 1] \in Stage
  BY DEF State, Stage
<1>. QED BY <1>1 DEF Counted, State

\* What emit does: the number is used up, and the event is written or emit throws.
LEMMA EmitIs ==
  ASSUME NEW s \in State, NEW i \in Nat, NEW type \in Types, NEW text \in Seq(Letters)
  PROVE  LET t == Emit(s, type, i, text)
         IN /\ t \in State
            /\ s.threw => t = s
            /\ ~ s.threw =>
                 t.seg = [s.seg EXCEPT !.sequence = @ + 1]
            /\ ~ s.threw /\ s.room = 0 => t.threw /\ t.room = 0 /\ t.sent = s.sent
            /\ ~ s.threw /\ s.room # 0 =>
                 /\ ~ t.threw /\ t.sent = Append(s.sent, Written(s, type, i, text))
                 /\ Written(s, type, i, text) \in Event
<1> DEFINE t == Emit(s, type, i, text)
           c == Counted(s)
           e == Written(s, type, i, text)
<1>1. t = IF s.threw THEN s
          ELSE IF s.room = 0 THEN [c EXCEPT !.threw = TRUE]
          ELSE [c EXCEPT !.room = @ - 1, !.sent = Append(@, e)]
  BY DEF Emit, Step, Threw
<1>2. e \in Event
  BY DEF Written, Event, State, Stage
<1>3. /\ c \in State /\ c.seg = [s.seg EXCEPT !.sequence = @ + 1] /\ c.sent = s.sent
      /\ c.room = s.room /\ c.threw = s.threw
  BY CountedIs
<1> HIDE DEF t, c, e
<1>4. CASE s.threw
  BY <1>1, <1>4 DEF t
<1>5. CASE ~ s.threw /\ s.room = 0
  BY <1>1, <1>3, <1>5 DEF t, State
<1>6. CASE ~ s.threw /\ s.room # 0
  <2>1. t = [c EXCEPT !.room = c.room - 1, !.sent = Append(c.sent, e)]
    BY <1>1, <1>6
  <2>2. c.room \in Nat /\ c.room # 0 /\ c.room - 1 \in Nat /\ Append(c.sent, e) \in Seq(Event)
    BY <1>2, <1>3, <1>6 DEF State
  <2>3. t \in State /\ t.seg = c.seg /\ t.sent = Append(c.sent, e) /\ t.threw = c.threw
    BY <1>3, <2>1, <2>2 DEF State
  <2>. QED BY <1>2, <1>3, <1>6, <2>3 DEF t, e
<1>. QED BY <1>4, <1>5, <1>6

\* What holds of a segment and its stream while its operation is open.
Fit(s) ==
    /\ s \in State /\ Numbered(s.sent) /\ Quiet(s.sent)
    /\ Orderly(s.seg.output, s.sent)
    /\ s.seg.sequence = Len(s.sent) \/ (s.threw /\ s.room = 0)

\* t is s after an event that was written or not.
Wrote(s, t, i, type, text) ==
    /\ Fit(t) /\ t.seg.output = s.seg.output
    /\ ~ t.threw => ~ s.threw /\ Adds(s.sent, t.sent, i, type, text)

\* Numbers go on, and only a terminal event ends the quiet.
LEMMA NumberedMore ==
  ASSUME NEW q \in Seq(Event), NEW e \in Event, Numbered(q), e.number = Len(q)
  PROVE  /\ Numbered(Append(q, e)) /\ Append(q, e) \in Seq(Event)
         /\ Len(Append(q, e)) = Len(q) + 1
         /\ Quiet(q) /\ ~ Terminal(e) => Quiet(Append(q, e))
<1> DEFINE p == Append(q, e)
           N == Len(q)
<1>1. p \in Seq(Event) /\ N \in Nat /\ Len(p) = N + 1 /\ p[N + 1] = e
      /\ DOMAIN p = 1 .. N + 1 /\ DOMAIN q = 1 .. N
      /\ \A k \in 1 .. N : p[k] = q[k]
  OBVIOUS
<1> HIDE DEF p
<1>2. ASSUME NEW n \in 1 .. N + 1
      PROVE  /\ p[n].number = n - 1
             /\ Quiet(q) /\ ~ Terminal(e) => ~ Terminal(p[n])
  <2>1. CASE n = N + 1
    BY <1>1, <2>1
  <2>2. CASE n \in 1 .. N
    BY <1>1, <2>2 DEF Numbered, Quiet
  <2>. QED BY <1>1, <2>1, <2>2
<1>3. Numbered(p) /\ (Quiet(q) /\ ~ Terminal(e) => Quiet(p))
  BY <1>1, <1>2 DEF Numbered, Quiet
<1>. QED BY <1>1, <1>3 DEF p

\* An event that may come next keeps the segment fit, written or not.
LEMMA EmitWrites ==
  ASSUME NEW s, Fit(s), NEW i \in Nat, NEW type \in Types \ {"completed", "failed"},
         NEW text \in Seq(Letters),
         ~ s.threw /\ i # 0 => i \in DOMAIN s.seg.output /\ Comes(s.seg.output, s.sent, i, type)
  PROVE  Wrote(s, Emit(s, type, i, text), i, type, text)
<1> DEFINE t == Emit(s, type, i, text)
           e == Written(s, type, i, text)
<1>1. s \in State /\ s.seg \in Stage /\ s.sent \in Seq(Event) /\ s.room \in Nat
  BY DEF Fit, State
<1>2. /\ t \in State /\ (s.threw => t = s)
      /\ ~ s.threw => t.seg = [s.seg EXCEPT !.sequence = @ + 1]
      /\ ~ s.threw /\ s.room = 0 => t.threw /\ t.room = 0 /\ t.sent = s.sent
      /\ ~ s.threw /\ s.room # 0 => ~ t.threw /\ t.sent = Append(s.sent, e) /\ e \in Event
  BY <1>1, EmitIs
<1>3. /\ e.number = s.seg.sequence /\ e.index = i /\ e.type = type /\ e.text = text
      /\ ~ Terminal(e)
  BY DEF Written, Terminal
<1> SUFFICES Wrote(s, t, i, type, text)
  OBVIOUS
<1> HIDE DEF t, e
<1>4. CASE s.threw
  BY <1>2, <1>4 DEF Wrote
<1>5. CASE ~ s.threw /\ s.room = 0
  <2>1. t.seg.output = s.seg.output
    BY <1>1, <1>2, <1>5 DEF Stage
  <2>. QED BY <1>2, <1>5, <2>1 DEF Wrote, Fit
<1>6. CASE ~ s.threw /\ s.room # 0
  <2>1. t.seg.output = s.seg.output /\ t.seg.sequence = s.seg.sequence + 1
    BY <1>1, <1>2, <1>6 DEF Stage
  <2>2. s.seg.sequence = Len(s.sent)
    BY <1>6 DEF Fit
  <2>3. Numbered(t.sent) /\ Quiet(t.sent) /\ t.seg.sequence = Len(t.sent)
    <3>1. Numbered(s.sent) /\ Quiet(s.sent) /\ e \in Event /\ e.number = Len(s.sent)
      BY <1>2, <1>3, <1>6, <2>2 DEF Fit
    <3>. QED BY <1>1, <1>2, <1>3, <1>6, <2>1, <2>2, <3>1, NumberedMore
  <2>4. Orderly(s.seg.output, t.sent)
    <3>1. s.seg.output \in Seq(Item)
      BY <1>1 DEF Stage
    <3>. QED BY <1>1, <1>2, <1>3, <1>6, <3>1, OrderlyMore DEF Fit
  <2>5. Adds(s.sent, t.sent, i, type, text)
    BY <1>2, <1>3, <1>6 DEF Adds
  <2>. QED BY <1>2, <1>6, <2>1, <2>3, <2>4, <2>5 DEF Wrote, Fit
<1>. QED BY <1>1, <1>4, <1>5, <1>6

-----------------------------------------------------------------------------
(* The methods *)

\* An item of output o, of which q tells all there is so far.
ItemOK(o, q, i) ==
    /\ Had(q, i, "added") /\ o[i].text = Deltas(q, i)
    /\ IF o[i].done THEN Latest(q, i, "done")
       ELSE o[i].of # None /\ (Latest(q, i, "part.added") \/ Latest(q, i, "delta"))

\* A segment between two methods.
Good(s) ==
    /\ Fit(s)
    /\ ~ s.threw => \A i \in DOMAIN s.seg.output : ItemOK(s.seg.output, s.sent, i)

Kept(s, t) == Good(t) /\ Grows(s.seg.output, t.seg.output)

\* Other items are left alone.
LEMMA OthersKept ==
  ASSUME NEW o, NEW p, NEW q \in Seq(Event), NEW r, NEW i \in Nat, NEW j, NEW type, NEW text,
         i # j, p[j] = o[j], Adds(q, r, i, type, text), ItemOK(o, q, j)
  PROVE  ItemOK(p, r, j)
<1>1. Tells(q, r, i, type, text)
  BY AddsTell
<1>. QED BY <1>1 DEF ItemOK, Tells

\* Output o is replaced, with the same kinds of items.
LEMMA Fitted ==
  ASSUME NEW s, Fit(s), NEW t, t \in State, t.sent = s.sent, t.room = s.room,
         t.threw = s.threw, t.seg.sequence = s.seg.sequence,
         Grows(s.seg.output, t.seg.output)
  PROVE  Fit(t)
<1>1. s.seg.output \in Seq(Item) /\ t.seg.output \in Seq(Item)
  BY DEF Fit, State, Stage
<1>. QED BY <1>1, OrderlyOn DEF Fit

\* A throw leaves the segment as it is.
LEMMA ThrowsGood ==
  ASSUME NEW s, Good(s)
  PROVE  Good(Threw(s)) /\ Threw(s).seg = s.seg /\ Threw(s).threw
<1>1. Threw(s) = [s EXCEPT !.threw = TRUE] /\ s \in State
  BY DEF Threw, Good, Fit
<1>2. /\ Threw(s) \in State /\ Threw(s).seg = s.seg /\ Threw(s).threw
      /\ Threw(s).sent = s.sent /\ Threw(s).room = s.room
  BY <1>1 DEF State
<1>. QED BY <1>2 DEF Good, Fit

\* Where an item is in the output.
LEMMA PositionIs ==
  ASSUME NEW s, s.seg.output \in Seq(Item), NEW id
  PROVE  IF Position(s, id) = 0 THEN \A i \in DOMAIN s.seg.output : s.seg.output[i].of # id
         ELSE /\ Position(s, id) \in DOMAIN s.seg.output
              /\ s.seg.output[Position(s, id)].of = id
<1> DEFINE at == {i \in DOMAIN s.seg.output : s.seg.output[i].of = id}
<1>1. Position(s, id) = IF at = {} THEN 0 ELSE CHOOSE i \in at : TRUE
  BY DEF Position
<1>2. CASE at = {}
  BY <1>1, <1>2
<1>3. CASE at # {}
  <2>1. Position(s, id) \in at
    BY <1>1, <1>3
  <2>. QED BY <2>1
<1>. QED BY <1>2, <1>3

\* A new item in the output, which no event has been about.
LEMMA PushedIs ==
  ASSUME NEW s, Fit(s), NEW id \in Items \cup {None}
  PROVE  LET p == Pushed(s, id)
             n == Len(s.seg.output) + 1
         IN /\ Fit(p) /\ p.threw = s.threw /\ p.sent = s.sent /\ p.room = s.room
            /\ Grows(s.seg.output, p.seg.output) /\ Absent(p.sent, n)
            /\ Len(p.seg.output) = n /\ n \in DOMAIN p.seg.output /\ n \in Nat \ {0}
            /\ p.seg.output[n] = [of |-> id, text |-> <<>>, done |-> FALSE]
            /\ \A i \in DOMAIN s.seg.output : p.seg.output[i] = s.seg.output[i] /\ i # n
            /\ DOMAIN p.seg.output = DOMAIN s.seg.output \cup {n}
<1> DEFINE p == Pushed(s, id)
           o == s.seg.output
           item == [of |-> id, text |-> <<>>, done |-> FALSE]
           n == Len(o) + 1
<1>1. s \in State /\ s.seg \in Stage /\ o \in Seq(Item) /\ s.sent \in Seq(Event)
  BY DEF Fit, State, Stage
<1>2. item \in Item
  BY DEF Item
<1>3. p = [s EXCEPT !.seg.output = Append(o, item)]
  BY DEF Pushed
<1> HIDE DEF item
<1>4. [s.seg EXCEPT !.output = Append(o, item)] \in Stage
  <2>1. Append(o, item) \in Seq(Item)
    BY <1>1, <1>2
  <2>. QED BY <1>1, <2>1 DEF Stage
<1>5. p.seg = [s.seg EXCEPT !.output = Append(o, item)] /\ p.sent = s.sent
      /\ p.room = s.room /\ p.threw = s.threw /\ p \in State
  BY <1>1, <1>3, <1>4 DEF State
<1> HIDE DEF p
<1>6. p.seg.output = Append(o, item) /\ p.seg.sequence = s.seg.sequence
  BY <1>1, <1>5 DEF Stage
<1>7. /\ Len(p.seg.output) = n /\ n \in DOMAIN p.seg.output /\ n \in Nat \ {0}
      /\ p.seg.output[n] = item
      /\ \A i \in DOMAIN o : p.seg.output[i] = o[i] /\ i # n
      /\ DOMAIN p.seg.output = DOMAIN o \cup {n}
  <2>1. Len(o) \in Nat /\ DOMAIN o = 1 .. Len(o)
    BY <1>1
  <2> HIDE DEF o
  <2>2. /\ Len(Append(o, item)) = Len(o) + 1
        /\ DOMAIN Append(o, item) = 1 .. Len(o) + 1
        /\ Append(o, item)[Len(o) + 1] = item
        /\ \A i \in 1 .. Len(o) : Append(o, item)[i] = o[i]
    BY <1>1, <1>2
  <2>. QED BY <1>6, <2>1, <2>2
<1>8. Grows(o, p.seg.output)
  <2>1. Len(o) \in Nat
    BY <1>1
  <2>2. Len(o) <= Len(p.seg.output)
    <3> HIDE DEF o
    <3>. QED BY <1>7, <2>1
  <2>. QED BY <1>7, <2>2 DEF Grows
<1>9. Fit(p)
  BY <1>5, <1>6, <1>8, Fitted
<1>10. Absent(p.sent, n)
  BY <1>1, <1>5, <1>7 DEF Fit, Orderly, Absent
<1>. QED BY <1>5, <1>7, <1>8, <1>9, <1>10 DEF p, item

\* An item is marked done, or given another text.
Changed(s, i, item) == [s EXCEPT !.seg.output = [s.seg.output EXCEPT ![i] = item]]
IsChanged(s, t, i, item) ==
    /\ Fit(t) /\ t.threw = s.threw /\ t.sent = s.sent /\ t.room = s.room
    /\ Grows(s.seg.output, t.seg.output)
    /\ DOMAIN t.seg.output = DOMAIN s.seg.output /\ t.seg.output[i] = item
    /\ Len(t.seg.output) = Len(s.seg.output)
    /\ \A j \in DOMAIN s.seg.output : j # i => t.seg.output[j] = s.seg.output[j]

\* An item of the same kind may take the place of another, unless that was done.
LEMMA ItemChanged ==
  ASSUME NEW s, Fit(s), NEW i \in DOMAIN s.seg.output, NEW item \in Item,
         item.of = s.seg.output[i].of, s.seg.output[i].done => item.done
  PROVE  IsChanged(s, Changed(s, i, item), i, item)
<1> DEFINE t == Changed(s, i, item)
           o == s.seg.output
           p == [o EXCEPT ![i] = item]
<1>1. s \in State /\ s.seg \in Stage /\ o \in Seq(Item) /\ i \in DOMAIN o
  BY DEF Fit, State, Stage
<1>2. /\ p \in Seq(Item) /\ Len(p) = Len(o) /\ DOMAIN p = DOMAIN o /\ p[i] = item
      /\ \A j \in DOMAIN o : j # i => p[j] = o[j]
  BY <1>1
<1> HIDE DEF p
<1>3. t = [s EXCEPT !.seg = [s.seg EXCEPT !.output = p]]
  BY DEF p, Changed
<1> HIDE DEF t
<1>4. [s.seg EXCEPT !.output = p] \in Stage
  BY <1>1, <1>2 DEF Stage
<1>5. t.seg = [s.seg EXCEPT !.output = p] /\ t.sent = s.sent
      /\ t.room = s.room /\ t.threw = s.threw /\ t \in State
  BY <1>1, <1>3, <1>4 DEF State
<1>6. t.seg.output = p /\ t.seg.sequence = s.seg.sequence
  BY <1>1, <1>5 DEF Stage
<1>7. Grows(o, p)
  BY <1>1, <1>2 DEF Grows
<1>8. Fit(t)
  BY <1>5, <1>6, <1>7, Fitted
<1>. QED BY <1>2, <1>5, <1>6, <1>7, <1>8 DEF IsChanged, t

\* Item i of s is being worked on; its last event had this type.
AtWork(s, i, type) ==
    /\ Fit(s) /\ i \in DOMAIN s.seg.output
    /\ ~ s.threw =>
         /\ Latest(s.sent, i, type) /\ Had(s.sent, i, "added")
         /\ s.seg.output[i].text = Deltas(s.sent, i)
         /\ \A j \in DOMAIN s.seg.output : j # i => ItemOK(s.seg.output, s.sent, j)

\* The item in work goes on with an event that may follow its last one.
LEMMA WorkGoesOn ==
  ASSUME NEW s, NEW i, NEW a \in Types, AtWork(s, i, a),
         NEW type \in Types \ {"completed", "failed", "delta"}, NEW text \in Seq(Letters),
         Follows(s.seg.output, i, a, type)
  PROVE  /\ AtWork(Emit(s, type, i, text), i, type)
         /\ Emit(s, type, i, text).seg.output = s.seg.output
<1> DEFINE t == Emit(s, type, i, text)
<1>1. s \in State /\ s.sent \in Seq(Event) /\ s.seg.output \in Seq(Item)
  BY DEF AtWork, Fit, State, Stage
<1>2. i \in Nat /\ i \in DOMAIN s.seg.output
  BY <1>1 DEF AtWork
<1>3. ~ s.threw => Comes(s.seg.output, s.sent, i, type)
  BY DEF AtWork, Comes
<1>4. Wrote(s, t, i, type, text)
  BY <1>2, <1>3, EmitWrites DEF AtWork
<1> HIDE DEF t
<1>5. ASSUME ~ t.threw
      PROVE  /\ Latest(t.sent, i, type) /\ Had(t.sent, i, "added")
             /\ s.seg.output[i].text = Deltas(t.sent, i)
             /\ \A j \in DOMAIN s.seg.output : j # i => ItemOK(s.seg.output, t.sent, j)
  <2>1. ~ s.threw /\ Adds(s.sent, t.sent, i, type, text)
    BY <1>4, <1>5 DEF Wrote
  <2>2. Tells(s.sent, t.sent, i, type, text)
    BY <1>1, <1>2, <2>1, AddsTell
  <2>3. \A j \in DOMAIN s.seg.output : j # i => ItemOK(s.seg.output, t.sent, j)
    BY <1>1, <1>2, <2>1, OthersKept DEF AtWork
  <2>. QED BY <2>1, <2>2, <2>3 DEF AtWork, Tells
<1>6. AtWork(t, i, type) /\ t.seg.output = s.seg.output
  BY <1>2, <1>4, <1>5 DEF AtWork, Wrote
<1>. QED BY <1>6 DEF t

\* The work on an item ends when its events say what the item is.
LEMMA WorkEnds ==
  ASSUME NEW s, NEW i, NEW type, AtWork(s, i, type),
         IF s.seg.output[i].done THEN type = "done"
         ELSE type \in {"part.added", "delta"} /\ s.seg.output[i].of # None
  PROVE  Good(s)
BY DEF AtWork, Good, ItemOK

\* Work on an item that is not done can go on.
LEMMA WorkResumes ==
  ASSUME NEW s, Good(s), NEW i \in DOMAIN s.seg.output, ~ s.threw,
         ~ s.seg.output[i].done
  PROVE  s.seg.output[i].of # None /\ \E a \in {"part.added", "delta"} : AtWork(s, i, a)
BY DEF AtWork, Good, ItemOK

\* A new item, and its first event.
LEMMA WorkBegins ==
  ASSUME NEW s, Good(s), NEW id \in Items \cup {None},
         NEW p, p = Pushed(s, id), NEW i, i = Len(p.seg.output),
         NEW t, t = Emit(p, "added", i, <<>>)
  PROVE  /\ AtWork(t, i, "added") /\ t.seg.output = p.seg.output
         /\ Grows(s.seg.output, t.seg.output)
         /\ t.seg.output[i].of = id /\ ~ t.seg.output[i].done
<1>0. Fit(s) /\ s \in State /\ s.seg.output \in Seq(Item)
  BY DEF Good, Fit, State, Stage
<1>1. /\ Fit(p) /\ p.threw = s.threw /\ p.sent = s.sent /\ p.room = s.room
      /\ Grows(s.seg.output, p.seg.output) /\ Absent(p.sent, i)
      /\ i \in DOMAIN p.seg.output /\ i \in Nat \ {0}
      /\ p.seg.output[i] = [of |-> id, text |-> <<>>, done |-> FALSE]
      /\ \A j \in DOMAIN s.seg.output : p.seg.output[j] = s.seg.output[j] /\ j # i
      /\ DOMAIN p.seg.output = DOMAIN s.seg.output \cup {i}
  BY <1>0, PushedIs
<1>2. p.sent \in Seq(Event)
  BY <1>1 DEF Fit, State
<1>3. "added" \in Types \ {"completed", "failed"} /\ <<>> \in Seq(Letters)
  BY DEF Types, Range, MessageEvents
<1>4. Wrote(p, t, i, "added", <<>>)
  BY <1>1, <1>3, EmitWrites DEF Comes
<1>5. ASSUME ~ t.threw
      PROVE  /\ Latest(t.sent, i, "added") /\ Had(t.sent, i, "added")
             /\ p.seg.output[i].text = Deltas(t.sent, i)
             /\ \A j \in DOMAIN p.seg.output : j # i => ItemOK(p.seg.output, t.sent, j)
  <2>1. ~ s.threw /\ Adds(p.sent, t.sent, i, "added", <<>>)
    BY <1>1, <1>4, <1>5 DEF Wrote
  <2>2. Tells(p.sent, t.sent, i, "added", <<>>)
    BY <1>1, <1>2, <2>1, AddsTell
  <2>3. ASSUME NEW j \in DOMAIN s.seg.output PROVE ItemOK(p.seg.output, t.sent, j)
    <3>1. ItemOK(s.seg.output, p.sent, j)
      BY <1>1, <2>1 DEF Good
    <3>. QED BY <1>1, <1>2, <2>1, <3>1, OthersKept
  <2>4. Deltas(p.sent, i) = <<>>
    BY <1>1, <1>2, DeltasNone DEF Absent
  <2>. QED BY <1>1, <2>2, <2>3, <2>4 DEF Tells
<1>. QED BY <1>1, <1>4, <1>5 DEF AtWork, Wrote

\* A message is in the output after message(), once however often it is asked for.
LEMMA MessageKeeps ==
  ASSUME NEW s, Good(s), NEW id \in Items
  PROVE  LET m == Message(s, id)
             i == Position(m, id)
         IN /\ Kept(s, m) /\ i # 0 /\ i \in DOMAIN m.seg.output /\ m.seg.output[i].of = id
            /\ Message(m, id) = m
<1> DEFINE m == Message(s, id)
           p == Pushed(s, id)
           n == Len(p.seg.output)
           t == Emit(p, "added", n, <<>>)
           w == <<>>
           u == Emit(t, "part.added", n, w)
<1>1. s.seg.output \in Seq(Item)
  BY DEF Good, Fit, State, Stage
<1>2. CASE Position(s, id) # 0
  <2>1. m = s
    BY <1>2 DEF Message
  <2>2. Kept(s, s)
    BY <1>1 DEF Kept, Grows
  <2>. QED BY <1>1, <1>2, <2>1, <2>2, PositionIs
<1>3. CASE Position(s, id) = 0
  <2>1. m = u
    BY <1>3 DEF Message
  <2>2. /\ AtWork(t, n, "added") /\ t.seg.output = p.seg.output
        /\ Grows(s.seg.output, t.seg.output)
        /\ t.seg.output[n].of = id /\ ~ t.seg.output[n].done
    BY WorkBegins
  <2>3. id # None
    BY NoneAssumption
  <2>4. /\ "added" \in Types /\ w \in Seq(Letters)
        /\ "part.added" \in Types \ {"completed", "failed", "delta"}
    BY DEF Types, Range, MessageEvents
  <2>5. Follows(t.seg.output, n, "added", "part.added")
    BY <2>2, <2>3 DEF Follows
  <2> HIDE DEF t, n, p, w
  <2>6. AtWork(u, n, "part.added") /\ u.seg.output = t.seg.output
    BY <2>2, <2>4, <2>5, WorkGoesOn
  <2>7. Good(u)
    BY <2>2, <2>3, <2>6, WorkEnds
  <2>8. u.seg.output \in Seq(Item) /\ n \in DOMAIN u.seg.output
    BY <2>6 DEF AtWork, Fit, State, Stage
  <2> HIDE DEF u, m
  <2>9. LET i == Position(m, id) IN i # 0 /\ i \in DOMAIN m.seg.output /\ m.seg.output[i].of = id
    BY <2>1, <2>2, <2>6, <2>8, PositionIs
  <2>10. Message(m, id) = m
    BY <2>9 DEF Message
  <2>. QED BY <2>1, <2>2, <2>6, <2>7, <2>9, <2>10 DEF Kept, m
<1>. QED BY <1>2, <1>3

\* textDelta() leaves the segment good, whether its event was written or not.
LEMMA TextDeltaKeeps ==
  ASSUME NEW s, Good(s), NEW id \in Items, NEW delta \in Seq(Letters)
  PROVE  Kept(s, TextDelta(s, id, delta))
<1> DEFINE m == Message(s, id)
           i == Position(m, id)
           item == [m.seg.output[i] EXCEPT !.text = @ \o delta]
           v == [m EXCEPT !.seg.output[i].text = @ \o delta]
           t == Emit(v, "delta", i, delta)
<1>1. /\ Kept(s, m) /\ i # 0 /\ i \in DOMAIN m.seg.output /\ m.seg.output[i].of = id
  BY MessageKeeps
<1>2. CASE delta = <<>>
  <2>1. TextDelta(s, id, delta) = s
    BY <1>2 DEF TextDelta
  <2>2. s.seg.output \in Seq(Item)
    BY DEF Good, Fit, State, Stage
  <2>. QED BY <2>1, <2>2 DEF Kept, Grows
<1>3. CASE delta # <<>> /\ m.threw
  <2>1. TextDelta(s, id, delta) = m
    BY <1>3 DEF TextDelta, Step
  <2>. QED BY <1>1, <2>1
<1>4. CASE delta # <<>> /\ ~ m.threw /\ m.seg.output[i].done
  <2>1. TextDelta(s, id, delta) = Threw(m)
    BY <1>4 DEF TextDelta, Step
  <2>. QED BY <1>1, <2>1, ThrowsGood DEF Kept
<1>5. CASE delta # <<>> /\ ~ m.threw /\ ~ m.seg.output[i].done
  <2>1. TextDelta(s, id, delta) = t
    BY <1>5 DEF TextDelta, Step
  <2>2. v = Changed(m, i, item)
    BY DEF Changed
  <2>3. /\ Good(m) /\ Fit(m) /\ m \in State /\ m.seg.output \in Seq(Item)
        /\ m.sent \in Seq(Event) /\ m.seg.output[i] \in Item
    BY <1>1 DEF Kept, Good, Fit, State, Stage
  <2> HIDE DEF v, m, i
  <2>4. /\ item \in Item /\ item.of = m.seg.output[i].of
        /\ item.done = m.seg.output[i].done /\ item.text = m.seg.output[i].text \o delta
    <3>1. m.seg.output[i].text \o delta \in Seq(Letters)
      BY <2>3 DEF Item
    <3>. QED BY <2>3, <3>1 DEF Item
  <2>5. PICK a \in {"part.added", "delta"} : AtWork(m, i, a) /\ m.seg.output[i].of # None
    BY <1>1, <1>5, <2>3, WorkResumes
  <2> HIDE DEF item
  <2>6. /\ Fit(v) /\ v.threw = m.threw /\ v.sent = m.sent /\ v.room = m.room
        /\ Grows(m.seg.output, v.seg.output)
        /\ DOMAIN v.seg.output = DOMAIN m.seg.output /\ v.seg.output[i] = item
        /\ \A j \in DOMAIN m.seg.output : j # i => v.seg.output[j] = m.seg.output[j]
    <3>1. IsChanged(m, v, i, item)
      BY <1>1, <2>2, <2>3, <2>4, ItemChanged
    <3>. QED BY <3>1 DEF IsChanged
  <2>7. i \in Nat /\ i \in DOMAIN v.seg.output
    BY <1>1, <2>3, <2>6
  <2>8. "delta" \in Types \ {"completed", "failed"} /\ a \in Types
    BY DEF Types, Range, MessageEvents
  <2>9. Comes(v.seg.output, v.sent, i, "delta")
    BY <1>5, <2>4, <2>5, <2>6, <2>8 DEF AtWork, Comes, Follows
  <2>10. Wrote(v, t, i, "delta", delta)
    BY <2>6, <2>7, <2>8, <2>9, EmitWrites
  <2> HIDE DEF t
  <2>11. ASSUME ~ t.threw, NEW j \in DOMAIN v.seg.output
         PROVE  ItemOK(v.seg.output, t.sent, j)
    <3>1. Adds(m.sent, t.sent, i, "delta", delta)
      BY <2>6, <2>10, <2>11 DEF Wrote
    <3>2. Tells(m.sent, t.sent, i, "delta", delta)
      BY <2>3, <2>7, <3>1, AddsTell
    <3>3. ItemOK(m.seg.output, m.sent, j)
      BY <1>5, <2>3, <2>6 DEF Good
    <3>4. CASE j # i
      BY <2>3, <2>6, <2>7, <3>1, <3>3, <3>4, OthersKept
    <3>5. CASE j = i
      BY <1>5, <2>4, <2>5, <2>6, <3>2, <3>3, <3>5 DEF ItemOK, Tells
    <3>. QED BY <3>4, <3>5
  <2>12. Kept(m, t)
    BY <2>6, <2>10, <2>11 DEF Kept, Good, Wrote
  <2>13. s.seg.output \in Seq(Item) /\ t.seg.output \in Seq(Item)
    BY <2>12 DEF Kept, Good, Fit, State, Stage
  <2>. QED BY <1>1, <2>1, <2>3, <2>12, <2>13, GrowsOn DEF Kept
<1>. QED BY <1>2, <1>3, <1>4, <1>5

\* The types of events, one by one.
LEMMA EventTypes ==
  /\ Types \ {"completed", "failed", "delta"} =
       {"added", "part.added", "text.done", "part.done", "done", "args.delta", "args.done",
        "created", "in_progress"}
  /\ "completed" \in Types /\ "failed" \in Types /\ "delta" \in Types
<1>1. Range(MessageEvents) = {"added", "part.added", "delta", "text.done", "part.done", "done"}
  BY DEF Range, MessageEvents
<1>2. Range(CallEvents) = {"added", "args.delta", "args.done", "done"}
  BY DEF Range, CallEvents
<1>. QED BY <1>1, <1>2 DEF Types

\* The item in work is done.
IsDone(s, d, i) ==
    /\ Fit(d) /\ i \in DOMAIN d.seg.output
    /\ d.seg.output[i].done /\ d.threw = s.threw
    /\ d.seg.output[i].of = s.seg.output[i].of
    /\ Grows(s.seg.output, d.seg.output) /\ Len(d.seg.output) = Len(s.seg.output)

Done(s, i) == [s EXCEPT !.seg.output[i].done = TRUE]

\* The item in work may be marked done.
LEMMA WorkDone ==
  ASSUME NEW s, NEW i, NEW a, AtWork(s, i, a)
  PROVE  AtWork(Done(s, i), i, a) /\ IsDone(s, Done(s, i), i)
<1> DEFINE d == Done(s, i)
<1> SUFFICES /\ AtWork(d, i, a) /\ d.seg.output[i].done /\ d.threw = s.threw
         /\ d.seg.output[i].of = s.seg.output[i].of
         /\ Grows(s.seg.output, d.seg.output) /\ Len(d.seg.output) = Len(s.seg.output)
  BY DEF IsDone, AtWork
<1> DEFINE item == [s.seg.output[i] EXCEPT !.done = TRUE]
<1>1. Fit(s) /\ i \in DOMAIN s.seg.output /\ s.seg.output \in Seq(Item)
      /\ s.seg.output[i] \in Item
  BY DEF AtWork, Fit, State, Stage
<1>2. item \in Item /\ item.of = s.seg.output[i].of /\ item.done
      /\ item.text = s.seg.output[i].text
  BY <1>1 DEF Item
<1>3. d = Changed(s, i, item)
  BY DEF Changed, Done
<1> HIDE DEF item, d
<1>4. IsChanged(s, d, i, item)
  BY <1>1, <1>2, <1>3, ItemChanged
<1>5. ASSUME ~ d.threw, NEW j \in DOMAIN d.seg.output, j # i
      PROVE  ItemOK(d.seg.output, d.sent, j)
  BY <1>4, <1>5 DEF IsChanged, AtWork, ItemOK
<1>6. AtWork(d, i, a)
  BY <1>1, <1>2, <1>4, <1>5 DEF IsChanged, AtWork
<1>. QED BY <1>2, <1>4, <1>6 DEF IsChanged

\* finishMessage() closes a message, or throws.
LEMMA FinishMessageKeeps ==
  ASSUME NEW s, Good(s), NEW i \in DOMAIN s.seg.output, s.seg.output[i].of # None,
         NEW t, t = FinishMessage(s, i)
  PROVE  /\ Kept(s, t) /\ Len(t.seg.output) = Len(s.seg.output)
         /\ ~ t.threw => t.seg.output[i].done
<1>1. s.seg.output \in Seq(Item) /\ s.seg.output[i] \in Item /\ Grows(s.seg.output, s.seg.output)
  BY DEF Good, Fit, State, Stage, Grows
<1>2. CASE s.threw \/ s.seg.output[i].done
  <2>1. t = s
    BY <1>2 DEF FinishMessage, Step
  <2>. QED BY <1>1, <1>2, <2>1 DEF Kept
<1>3. CASE ~ s.threw /\ ~ s.seg.output[i].done
  <2> DEFINE d == Done(s, i)
             text == s.seg.output[i].text
             t1 == Emit(d, "text.done", i, text)
             t2 == Emit(t1, "part.done", i, text)
             t3 == Emit(t2, "done", i, text)
  <2>1. t = t3
    BY <1>3 DEF FinishMessage, Step, Closing, Done
  <2>2. PICK a \in {"part.added", "delta"} : AtWork(s, i, a)
    BY <1>3, WorkResumes
  <2>3. text \in Seq(Letters)
    BY <1>1 DEF Item
  <2>4. /\ AtWork(d, i, a) /\ d.seg.output[i].done
        /\ d.seg.output[i].of # None
        /\ Grows(s.seg.output, d.seg.output) /\ Len(d.seg.output) = Len(s.seg.output)
    BY <2>2, <1>3, WorkResumes, WorkDone DEF IsDone
  <2> HIDE DEF d, text, t3
  <2>5. /\ Follows(d.seg.output, i, a, "text.done")
        /\ Follows(d.seg.output, i, "text.done", "part.done")
        /\ Follows(d.seg.output, i, "part.done", "done")
    BY <2>4 DEF Follows
  <2>5a. /\ a \in Types /\ {"text.done", "part.done", "done"} \subseteq Types
         /\ {"text.done", "part.done", "done"} \subseteq Types \ {"completed", "failed", "delta"}
    BY EventTypes
  <2>6. AtWork(t1, i, "text.done") /\ t1.seg.output = d.seg.output
    BY <2>3, <2>4, <2>5, <2>5a, WorkGoesOn
  <2> HIDE DEF t1
  <2>7. AtWork(t2, i, "part.done") /\ t2.seg.output = d.seg.output
    BY <2>3, <2>5, <2>5a, <2>6, WorkGoesOn
  <2> HIDE DEF t2
  <2>8. AtWork(t3, i, "done") /\ t3.seg.output = d.seg.output
    BY <2>3, <2>5, <2>5a, <2>7, WorkGoesOn DEF t3
  <2>9. Good(t3)
    BY <2>4, <2>8, WorkEnds
  <2>. QED BY <2>1, <2>4, <2>8, <2>9 DEF Kept
<1>. QED BY <1>2, <1>3

\* completeMessage() leaves the segment good, also when it throws.
LEMMA CompleteMessageKeeps ==
  ASSUME NEW s, Good(s), NEW id \in Items, NEW raw \in Seq(Letters)
  PROVE  Kept(s, CompleteMessage(s, id, raw))
<1> DEFINE m == Message(s, id)
           i == Position(m, id)
           shown == m.seg.output[i].text
           rest == SubSeq(raw, Len(shown) + 1, Len(raw))
           t == TextDelta(m, id, rest)
           c == CompleteMessage(s, id, raw)
<1>1. Kept(s, m) /\ i \in DOMAIN m.seg.output /\ m.seg.output[i].of = id
  BY MessageKeeps
<1>2. c = IF m.threw \/ m.seg.output[i].done THEN m
          ELSE IF ~ IsPrefix(shown, raw) THEN Threw(m) ELSE FinishMessage(t, i)
  BY DEF CompleteMessage, Step
<1>3. m.seg.output \in Seq(Item) /\ s.seg.output \in Seq(Item)
  BY <1>1 DEF Kept, Good, Fit, State, Stage
<1> HIDE DEF c, m, i, t
<1>4. rest \in Seq(Letters)
  <2>0. m.seg.output[i] \in Item
    BY <1>1, <1>3
  <2>1. shown \in Seq(Letters)
    BY <2>0 DEF Item
  <2> HIDE DEF shown
  <2>2. Len(shown) \in Nat
    BY <2>1
  <2>. QED BY <2>2
<1> HIDE DEF shown, rest
<1>5. Kept(m, t)
  BY <1>1, <1>4, TextDeltaKeeps DEF Kept, t
<1>6. t.seg.output \in Seq(Item)
  BY <1>5 DEF Kept, Good, Fit, State, Stage
<1> HIDE DEF t
<1>7. i \in DOMAIN t.seg.output /\ t.seg.output[i].of # None
  BY <1>1, <1>3, <1>5, <1>6, NoneAssumption DEF Kept, Grows
<1>8. Kept(m, c)
  <2>1. Kept(m, m)
    BY <1>1, <1>3 DEF Kept, Grows
  <2>2. Kept(m, Threw(m))
    BY <1>1, <2>1, ThrowsGood DEF Kept
  <2>3. Kept(t, FinishMessage(t, i))
    BY <1>5, <1>7, FinishMessageKeeps DEF Kept
  <2>4. FinishMessage(t, i).seg.output \in Seq(Item)
    BY <2>3 DEF Kept, Good, Fit, State, Stage
  <2>5. Kept(m, FinishMessage(t, i))
    BY <1>3, <1>5, <1>6, <2>3, <2>4, GrowsOn DEF Kept
  <2>. QED BY <1>2, <2>1, <2>2, <2>5
<1>9. c.seg.output \in Seq(Item)
  BY <1>8 DEF Kept, Good, Fit, State, Stage
<1>. QED BY <1>1, <1>3, <1>8, <1>9, GrowsOn DEF Kept, c

\* toolCall() adds a function call that is done, or throws.
LEMMA ToolCallKeeps ==
  ASSUME NEW s, Good(s)
  PROVE  Kept(s, ToolCall(s))
<1> DEFINE p == Pushed(s, None)
           n == Len(p.seg.output)
           w == <<>>
           t1 == Emit(p, "added", n, w)
           t2 == Emit(t1, "args.delta", n, w)
           e == Emit(t2, "args.done", n, w)
           d == Done(e, n)
           t3 == Emit(d, "done", n, w)
           c == ToolCall(s)
<1>1. c = IF e.threw THEN e ELSE t3
  BY DEF ToolCall, Step, Done
<1>2. /\ AtWork(t1, n, "added") /\ t1.seg.output = p.seg.output
      /\ Grows(s.seg.output, t1.seg.output)
      /\ t1.seg.output[n].of = None
  BY WorkBegins
<1>3. w \in Seq(Letters)
  OBVIOUS
<1> HIDE DEF c, p, n, w, t1, t2, e, d, t3
<1>3a. /\ {"added", "args.delta", "args.done"} \subseteq Types
       /\ {"args.delta", "args.done", "done"} \subseteq Types \ {"completed", "failed", "delta"}
  BY EventTypes
<1>4. /\ Follows(t1.seg.output, n, "added", "args.delta")
      /\ Follows(t1.seg.output, n, "args.delta", "args.done")
  BY <1>2 DEF Follows
<1>5. AtWork(t2, n, "args.delta") /\ t2.seg.output = t1.seg.output
  BY <1>2, <1>3, <1>3a, <1>4, WorkGoesOn DEF t2
<1>6. AtWork(e, n, "args.done") /\ e.seg.output = t1.seg.output
  BY <1>3, <1>3a, <1>4, <1>5, WorkGoesOn DEF e
<1>7. s.seg.output \in Seq(Item) /\ e.seg.output \in Seq(Item)
  BY <1>6 DEF AtWork, Good, Fit, State, Stage
<1>8. CASE e.threw
  BY <1>1, <1>2, <1>6, <1>8 DEF Kept, Good, AtWork, c
<1>9. CASE ~ e.threw
  <2>1. /\ AtWork(d, n, "args.done") /\ d.seg.output[n].done
        /\ d.seg.output[n].of = e.seg.output[n].of
        /\ Grows(e.seg.output, d.seg.output)
    BY <1>6, WorkDone DEF d, IsDone
  <2>2. Follows(d.seg.output, n, "args.done", "done")
    BY <1>2, <1>6, <2>1 DEF Follows
  <2>3. AtWork(t3, n, "done") /\ t3.seg.output = d.seg.output
    BY <1>3, <1>3a, <2>1, <2>2, WorkGoesOn DEF t3
  <2>4. Good(t3)
    BY <2>1, <2>3, WorkEnds
  <2>5. d.seg.output \in Seq(Item)
    BY <2>1 DEF AtWork, Fit, State, Stage
  <2>6. Grows(s.seg.output, t3.seg.output)
    BY <1>2, <1>6, <1>7, <2>1, <2>3, <2>5, GrowsOn
  <2>. QED BY <1>1, <1>9, <2>4, <2>6 DEF Kept, c
<1>. QED BY <1>8, <1>9

\* Events about no item.
LEMMA PlainKeeps ==
  ASSUME NEW s, Good(s), NEW type \in {"created", "in_progress"},
         NEW w \in Seq(Letters)
  PROVE  Kept(s, Emit(s, type, 0, w))
<1> DEFINE t == Emit(s, type, 0, w)
<1>1. Fit(s) /\ s.sent \in Seq(Event) /\ s.seg.output \in Seq(Item)
  BY DEF Good, Fit, State, Stage
<1>2. type \in Types \ {"completed", "failed"}
  BY EventTypes
<1>3. Wrote(s, t, 0, type, w)
  BY <1>1, <1>2, EmitWrites
<1> HIDE DEF t
<1>4. ASSUME ~ t.threw, NEW j \in DOMAIN s.seg.output
      PROVE  ItemOK(s.seg.output, t.sent, j)
  <2>1. ~ s.threw /\ Adds(s.sent, t.sent, 0, type, w)
    BY <1>3, <1>4 DEF Wrote
  <2>2. ItemOK(s.seg.output, s.sent, j) /\ j # 0
    BY <1>1, <2>1 DEF Good
  <2>. QED BY <1>1, <2>1, <2>2, OthersKept
<1>. QED BY <1>1, <1>3, <1>4 DEF Kept, Good, Grows, Wrote, t

-----------------------------------------------------------------------------
(* The end of a response *)

\* One message closed, as Finish does it.
Closes(t, i) == IF t.seg.output[i].of = None THEN t ELSE FinishMessage(t, i)
AllClosed(s) == FoldLeftDomain(LAMBDA t, i : IF t.seg.output[i].of = None THEN t
                                             ELSE FinishMessage(t, i),
                               s, s.seg.output)

\* One message closed keeps the segment good.
LEMMA ClosesKeeps ==
  ASSUME NEW s, Good(s), NEW i \in DOMAIN s.seg.output
  PROVE  /\ Kept(s, Closes(s, i)) /\ Len(Closes(s, i).seg.output) = Len(s.seg.output)
         /\ ~ Closes(s, i).threw => ~ s.threw /\ Closes(s, i).seg.output[i].done
<1> DEFINE t == FinishMessage(s, i)
<1>1. CASE s.seg.output[i].of = None
  <2>1. Closes(s, i) = s
    BY <1>1 DEF Closes
  <2>2. Kept(s, s)
    BY DEF Kept, Good, Fit, State, Stage, Grows
  <2>. QED BY <1>1, <2>1, <2>2 DEF Good, ItemOK
<1>2. CASE s.seg.output[i].of # None
  <2>1. Closes(s, i) = t
    BY <1>2 DEF Closes
  <2>2. s.threw => t = s
    BY DEF FinishMessage, Step
  <2>3. /\ Kept(s, t) /\ Len(t.seg.output) = Len(s.seg.output)
        /\ ~ t.threw => t.seg.output[i].done
    BY <1>2, FinishMessageKeeps
  <2> HIDE DEF t
  <2>. QED BY <2>1, <2>2, <2>3
<1>. QED BY <1>1, <1>2

\* t is s with the first k items done, unless delivery failed.
ClosedUpTo(s, t, k) ==
    /\ Kept(s, t) /\ Len(t.seg.output) = Len(s.seg.output)
    /\ ~ t.threw => ~ s.threw /\ \A i \in 1 .. k : t.seg.output[i].done

\* With the first k items done, one more is.
LEMMA ClosedMore ==
  ASSUME NEW s, s.seg.output \in Seq(Item), NEW t, NEW k \in 0 .. Len(s.seg.output) - 1,
         ClosedUpTo(s, t, k)
  PROVE  ClosedUpTo(s, Closes(t, k + 1), k + 1)
<1> DEFINE u == Closes(t, k + 1)
<1>1. Good(t) /\ t.seg.output \in Seq(Item) /\ k + 1 \in DOMAIN t.seg.output
      /\ \A i \in 1 .. k : i \in DOMAIN t.seg.output
  BY DEF ClosedUpTo, Kept, Good, Fit, State, Stage
<1>2. /\ Kept(t, u) /\ Len(u.seg.output) = Len(t.seg.output)
      /\ ~ u.threw => ~ t.threw /\ u.seg.output[k + 1].done
  BY <1>1, ClosesKeeps
<1> HIDE DEF u
<1>3. u.seg.output \in Seq(Item)
  BY <1>2 DEF Kept, Good, Fit, State, Stage
<1>4. Kept(s, u)
  BY <1>1, <1>2, <1>3, GrowsOn DEF ClosedUpTo, Kept
<1>5. ASSUME ~ u.threw, NEW i \in 1 .. k + 1 PROVE u.seg.output[i].done
  <2>1. CASE i = k + 1
    BY <1>2, <1>5, <2>1
  <2>2. CASE i \in 1 .. k
    BY <1>1, <1>2, <1>5, <2>2 DEF ClosedUpTo, Kept, Grows
  <2>. QED BY <2>1, <2>2
<1>. QED BY <1>2, <1>4, <1>5 DEF ClosedUpTo, u

\* The loop of finish() leaves every item done, unless it throws.
LEMMA AllClosedKeeps ==
  ASSUME NEW s, Good(s)
  PROVE  ClosedUpTo(s, AllClosed(s), Len(s.seg.output))
<1> DEFINE o == s.seg.output
           q == [i \in DOMAIN o |-> i]
           N == Len(o)
           T == {t \in State : ClosedUpTo(s, t, 0)}
           Of(it) == [x \in SUBSET DOMAIN q |->
                        IF x = {} THEN s ELSE Closes(it[x \ {Max(x)}], q[Max(x)])]
           F == [p \in T \X (1 .. N) |-> Closes(p[1], p[2])]
           it == CHOOSE x : x = Of(x)
<1>1. N \in Nat /\ DOMAIN o = 1 .. N /\ DOMAIN q = 1 .. N /\ o \in Seq(Item)
      /\ \A k \in 1 .. N : q[k] = k
  BY DEF Good, Fit, State, Stage
<1>1a. s \in T
  BY <1>1 DEF ClosedUpTo, Kept, Grows, Good, Fit
<1>2. ASSUME NEW t \in T, NEW k \in 1 .. N PROVE Closes(t, k) \in T
  <2>1. Good(t) /\ k \in DOMAIN t.seg.output /\ t.seg.output \in Seq(Item)
    BY <1>1 DEF ClosedUpTo, Kept, Good, Fit, State, Stage
  <2>2. /\ Kept(t, Closes(t, k)) /\ Len(Closes(t, k).seg.output) = Len(t.seg.output)
        /\ ~ Closes(t, k).threw => ~ t.threw
    BY <2>1, ClosesKeeps
  <2>3. Closes(t, k).seg.output \in Seq(Item) /\ Closes(t, k) \in State
    BY <2>2 DEF Kept, Good, Fit, State, Stage
  <2>4. Kept(s, Closes(t, k))
    BY <1>1, <2>1, <2>2, <2>3, GrowsOn DEF ClosedUpTo, Kept
  <2>. QED BY <2>2, <2>3, <2>4 DEF ClosedUpTo
<1>7. AllClosed(s) = it[DOMAIN q]
  BY DEF AllClosed, FoldLeftDomain, FoldLeft, MapThenFoldSet, Closes
<1> HIDE DEF T
<1>3. F \in [T \X (1 .. N) -> T]
  BY <1>2
<1> HIDE DEF F, q
<1>4. PICK h \in [SUBSET (1 .. N) -> T] : Folds(h, s, N, F)
  BY <1>1, <1>1a, <1>3, FoldSets
<1>5. h = Of(h)
  <2>1. ASSUME NEW x \in SUBSET (1 .. N), x # {}
        PROVE  F[h[x \ {Max(x)}], Max(x)] = Closes(h[x \ {Max(x)}], q[Max(x)])
    <3>1. Max(x) \in 1 .. N
      BY <1>1, <2>1, MaxIn
    <3>2. h[x \ {Max(x)}] \in T
      OBVIOUS
    <3>3. q[Max(x)] = Max(x)
      BY <1>1, <3>1
    <3>. QED BY <3>1, <3>2, <3>3 DEF F
  <2>. QED BY <1>1, <1>4, <2>1 DEF Folds
<1>6. it = Of(it)
  BY <1>5
<1> HIDE DEF it
<1>8. it[{}] = s
  BY <1>6
<1>9. ASSUME NEW k \in 1 .. N PROVE it[1 .. k] = Closes(it[1 .. k - 1], k)
  <2>1. /\ 1 .. k # {} /\ Max(1 .. k) = k /\ (1 .. k) \ {k} = 1 .. k - 1
        /\ 1 .. k \in SUBSET DOMAIN q
    BY <1>1, Parts
  <2>2. q[k] = k
    BY <1>1
  <2>. QED BY <1>6, <2>1, <2>2
<1> DEFINE S == {k \in 0 .. N : ClosedUpTo(s, it[1 .. k], k)}
<1>10. \A k \in 0 .. N : k \in S
  <2>1. 0 \in S
    <3>1. 1 .. 0 = {}
      OBVIOUS
    <3>. QED BY <1>1, <1>1a, <1>8, <3>1 DEF T
  <2>2. ASSUME NEW k \in 0 .. N - 1, k \in S PROVE k + 1 \in S
    <3>1. k + 1 \in 1 .. N /\ (k + 1) - 1 = k
      BY <1>1
    <3>2. it[1 .. k + 1] = Closes(it[1 .. k], k + 1)
      BY <1>9, <3>1
    <3>3. ClosedUpTo(s, Closes(it[1 .. k], k + 1), k + 1)
      BY <1>1, <2>2, ClosedMore
    <3>. QED BY <1>1, <3>1, <3>2, <3>3
  <2> HIDE DEF S
  <2>. QED BY <1>1, <2>1, <2>2, UpTo
<1>. QED BY <1>1, <1>7, <1>10

\* A stream that completed: its last event carries the whole output.
Succeeded(s) ==
    /\ s \in State /\ Numbered(s.sent) /\ Orderly(s.seg.output, s.sent)
    /\ s.sent # <<>>
    /\ s.sent[Len(s.sent)].type = "completed"
    /\ s.sent[Len(s.sent)].output = s.seg.output
    /\ \A n \in 1 .. Len(s.sent) - 1 : ~ Terminal(s.sent[n])
    /\ \A i \in DOMAIN s.seg.output :
         s.seg.output[i].done /\ ItemOK(s.seg.output, s.sent, i)

\* A stream that failed: its last event may say so.
Broken(s) ==
    /\ s \in State /\ Numbered(s.sent) /\ Orderly(s.seg.output, s.sent)
    /\ \A n \in DOMAIN s.sent : Terminal(s.sent[n]) => n = Len(s.sent) /\ s.sent[n].type = "failed"

\* The segment as Finish and fail leave it before their event.
Marked(s, status) == [s EXCEPT !.threw = FALSE, !.seg.finished = TRUE, !.seg.status = status]

\* What marking a segment as ended changes.
LEMMA MarkedIs ==
  ASSUME NEW s \in State, NEW status \in {"in_progress", "completed", "failed"}
  PROVE  LET t == Marked(s, status)
         IN /\ t \in State /\ t.seg.output = s.seg.output /\ t.sent = s.sent
            /\ t.room = s.room /\ ~ t.threw /\ t.seg.sequence = s.seg.sequence
<1> DEFINE g == [s.seg EXCEPT !.finished = TRUE, !.status = status]
<1>1. g \in Stage /\ g.output = s.seg.output /\ g.sequence = s.seg.sequence
  BY DEF State, Stage
<1>2. Marked(s, status) = [s EXCEPT !.threw = FALSE, !.seg = g]
  BY DEF Marked, State, Stage
<1> HIDE DEF g
<1>. QED BY <1>1, <1>2 DEF State

\* The terminal event, if it can be written.
Concludes(s, u, type) ==
    /\ u \in State /\ u.seg.output = s.seg.output
    /\ u.threw => u.room = 0 /\ u.sent = s.sent
    /\ ~ u.threw => \E e \in Event :
         /\ e.type = type /\ e.output = s.seg.output /\ e.index = 0
         /\ u.sent = Append(s.sent, e) /\ Numbered(u.sent)

\* The terminal event has the next number and the whole output, or emit throws.
LEMMA TerminalIs ==
  ASSUME NEW s, Fit(s), NEW status \in {"completed", "failed"}, NEW w \in Seq(Letters)
  PROVE  Concludes(s, Emit(Marked(s, status), status, 0, w), status)
<1> DEFINE t == Marked(s, status)
           z == 0
           u == Emit(t, status, z, w)
           e == Written(t, status, z, w)
<1>1. s \in State /\ s.sent \in Seq(Event)
  BY DEF Fit, State
<1>2. /\ t \in State /\ t.seg.output = s.seg.output /\ t.sent = s.sent
      /\ t.room = s.room /\ ~ t.threw /\ t.seg.sequence = s.seg.sequence
  BY <1>1, MarkedIs
<1>3. e.type = status /\ e.output = t.seg.output /\ e.index = 0 /\ e.number = t.seg.sequence
  BY DEF Written
<1>4. status \in Types /\ z \in Nat
  BY EventTypes
<1>5. /\ u \in State /\ u.seg = [t.seg EXCEPT !.sequence = @ + 1]
      /\ t.room = 0 => u.threw /\ u.room = 0 /\ u.sent = t.sent
      /\ t.room # 0 => ~ u.threw /\ u.sent = Append(t.sent, e) /\ e \in Event
  <2> HIDE DEF t, z
  <2>1. t \in State /\ ~ t.threw
    BY <1>2
  <2>. QED BY <1>4, <2>1, EmitIs
<1> HIDE DEF t
<1>6. u.seg.output = s.seg.output
  BY <1>2, <1>5 DEF State, Stage
<1> HIDE DEF u, e
<1>7. ASSUME t.room # 0 PROVE Numbered(u.sent)
  <2>1. s.seg.sequence = Len(s.sent) /\ Numbered(s.sent)
    BY <1>2, <1>7 DEF Fit
  <2>2. e \in Event /\ e.number = Len(s.sent) /\ u.sent = Append(s.sent, e)
    BY <1>2, <1>3, <1>5, <1>7, <2>1
  <2>. QED BY <1>1, <2>1, <2>2, NumberedMore
<1>. QED BY <1>2, <1>3, <1>5, <1>6, <1>7 DEF Concludes, u, t

\* finish() completes the stream, or throws with the segment still good.
LEMMA FinishEnds ==
  ASSUME NEW s, Good(s)
  PROVE  IF Finish(s).threw THEN Good(Finish(s)) ELSE Succeeded(Finish(s))
<1> DEFINE f == AllClosed(s)
           w == <<>>
           u == Emit(Marked(f, "completed"), "completed", 0, w)
           c == Finish(s)
<1>1. ClosedUpTo(s, f, Len(s.seg.output))
  BY AllClosedKeeps
<1>2. c = IF f.threw THEN f
          ELSE Emit([f EXCEPT !.seg.finished = TRUE, !.seg.status = "completed"],
                    "completed", 0, w)
  BY DEF Finish, AllClosed, Step
<1> HIDE DEF c, f
<1>3. /\ Good(f) /\ Fit(f) /\ f \in State /\ f.sent \in Seq(Event) /\ f.seg.output \in Seq(Item)
      /\ Len(f.seg.output) = Len(s.seg.output)
      /\ ~ f.threw => \A i \in DOMAIN f.seg.output : f.seg.output[i].done
  BY <1>1 DEF ClosedUpTo, Kept, Good, Fit, State, Stage
<1>4. CASE f.threw
  BY <1>2, <1>3, <1>4 DEF c
<1>5. CASE ~ f.threw
  <2>1. [f EXCEPT !.seg.finished = TRUE, !.seg.status = "completed"] = Marked(f, "completed")
    BY <1>3, <1>5 DEF Marked, State
  <2>2. c = u
    BY <1>2, <1>5, <2>1
  <2>3. Concludes(f, u, "completed")
    <3>1. w \in Seq(Letters)
      OBVIOUS
    <3> HIDE DEF w
    <3>. QED BY <1>3, <3>1, TerminalIs
  <2> HIDE DEF u
  <2>4. CASE u.threw
    BY <1>3, <2>2, <2>3, <2>4 DEF Concludes, Good, Fit, c
  <2>5. CASE ~ u.threw
    <3>1. PICK e \in Event :
            /\ e.type = "completed" /\ e.output = f.seg.output /\ e.index = 0
            /\ u.sent = Append(f.sent, e) /\ Numbered(u.sent)
      BY <2>3, <2>5 DEF Concludes
    <3>2. u \in State /\ u.seg.output = f.seg.output
      BY <2>3 DEF Concludes
    <3>3. Orderly(u.seg.output, u.sent)
      BY <1>3, <3>1, <3>2, OrderlyMore DEF Fit
    <3>4. /\ u.sent # <<>> /\ u.sent[Len(u.sent)] = e
          /\ \A n \in 1 .. Len(u.sent) - 1 : n \in DOMAIN f.sent /\ u.sent[n] = f.sent[n]
      BY <1>3, <3>1
    <3>5. \A n \in 1 .. Len(u.sent) - 1 : ~ Terminal(u.sent[n])
      BY <1>3, <3>4 DEF Fit, Quiet
    <3>6. ASSUME NEW i \in DOMAIN f.seg.output PROVE ItemOK(f.seg.output, u.sent, i)
      <4>1. ItemOK(f.seg.output, f.sent, i) /\ i # 0
        BY <1>3, <1>5 DEF Good
      <4>2. Adds(f.sent, u.sent, 0, "completed", e.text)
        BY <3>1 DEF Adds
      <4>. QED BY <1>3, <4>1, <4>2, OthersKept
    <3>7. Succeeded(u)
      BY <1>3, <1>5, <3>1, <3>2, <3>3, <3>4, <3>5, <3>6 DEF Succeeded
    <3>. QED BY <2>2, <2>5, <3>7 DEF c
  <2>. QED BY <2>4, <2>5
<1>. QED BY <1>4, <1>5

\* fail() leaves a stream that did not complete.
LEMMA FailEnds ==
  ASSUME NEW s, Good(s)
  PROVE  Broken(FailSegment(s))
<1> DEFINE w == <<>>
           u == Emit(Marked(s, "failed"), "failed", 0, w)
           c == FailSegment(s)
<1>1. Fit(s) /\ s \in State /\ s.sent \in Seq(Event) /\ s.seg.output \in Seq(Item)
  BY DEF Good, Fit, State, Stage
<1>2. Broken(s)
  BY <1>1 DEF Broken, Fit, Quiet
<1>3. c = IF s.seg.finished THEN s ELSE u
  BY DEF FailSegment, Marked
<1>4. Concludes(s, u, "failed")
  <2>1. w \in Seq(Letters)
    OBVIOUS
  <2> HIDE DEF w
  <2>. QED BY <1>1, <2>1, TerminalIs
<1> HIDE DEF u, c
<1>5. CASE u.threw
  <2>1. Broken(u)
    BY <1>2, <1>4, <1>5 DEF Broken, Concludes
  <2>. QED BY <1>2, <1>3, <2>1 DEF c
<1>6. CASE ~ u.threw
  <2>1. PICK e \in Event :
          /\ e.type = "failed" /\ e.output = s.seg.output /\ e.index = 0
          /\ u.sent = Append(s.sent, e) /\ Numbered(u.sent)
    BY <1>4, <1>6 DEF Concludes
  <2>2. u \in State /\ u.seg.output = s.seg.output
    BY <1>4 DEF Concludes
  <2>3. Orderly(u.seg.output, u.sent)
    BY <1>1, <2>1, <2>2, OrderlyMore DEF Fit
  <2>4. \A n \in DOMAIN u.sent : (n = Len(u.sent) /\ u.sent[n] = e)
                                 \/ (n \in DOMAIN s.sent /\ u.sent[n] = s.sent[n])
    BY <1>1, <2>1
  <2>5. Broken(u)
    BY <1>1, <2>1, <2>2, <2>3, <2>4 DEF Broken, Fit, Quiet
  <2>. QED BY <1>2, <1>3, <2>5 DEF c
<1>. QED BY <1>5, <1>6

-----------------------------------------------------------------------------
(* The inductive invariant *)

\* A handler finds the segment and the stream as the last one left them.
Rest(g, q, room) == [seg |-> g, sent |-> q, room |-> room, threw |-> FALSE]

SegInv ==
    /\ settled \in {"no", "ok", "failed"} /\ response \in {"open", "ended", "destroyed"}
    /\ settled = "no" => Good(Rest(seg, sent, 0)) /\ response # "ended"
    /\ settled = "ok" => Succeeded(Rest(seg, sent, 0))
    /\ settled = "failed" => Broken(Rest(seg, sent, 0))

\* What holds after a method holds of what the next handler finds.
LEMMA Rests ==
  ASSUME NEW s, NEW room \in Nat
  PROVE  /\ Good(s) /\ ~ s.threw => Good(Rest(s.seg, s.sent, room))
         /\ Succeeded(s) => Succeeded(Rest(s.seg, s.sent, room))
         /\ Broken(s) => Broken(Rest(s.seg, s.sent, room))
<1> DEFINE r == Rest(s.seg, s.sent, room)
<1>1. r.seg = s.seg /\ r.sent = s.sent /\ r.room = room /\ ~ r.threw
      /\ (s \in State => r \in State)
  BY DEF Rest, State
<1> HIDE DEF r
<1>2. ASSUME Good(s), ~ s.threw PROVE Good(r)
  BY <1>1, <1>2 DEF Good, Fit
<1>3. ASSUME Succeeded(s) PROVE Succeeded(r)
  BY <1>1, <1>3 DEF Succeeded
<1>4. ASSUME Broken(s) PROVE Broken(r)
  BY <1>1, <1>4 DEF Broken
<1>. QED BY <1>2, <1>3, <1>4 DEF r

\* A handler keeps the invariant if its methods keep the segment good.
LEMMA HandlesKeep ==
  ASSUME NEW s, NEW last \in BOOLEAN, Handles(s, last),
         response \in {"open", "ended", "destroyed"}, response # "ended",
         s.threw => Good(s),
         ~ s.threw => IF last THEN Succeeded(s) ELSE Good(s)
  PROVE  SegInv'
<1>1. response' = response
  BY DEF Handles
<1>2. CASE s.threw
  <2>1. settled' = "failed" /\ seg' = FailSegment(s).seg /\ sent' = FailSegment(s).sent
    BY <1>2 DEF Handles
  <2>2. Broken(FailSegment(s))
    BY <1>2, FailEnds
  <2>3. Broken(Rest(seg', sent', 0))
    BY <2>1, <2>2, Rests
  <2>. QED BY <1>1, <2>1, <2>3 DEF SegInv
<1>3. CASE ~ s.threw /\ last
  <2>1. settled' = "ok" /\ seg' = s.seg /\ sent' = s.sent
    BY <1>3 DEF Handles
  <2>2. Succeeded(Rest(seg', sent', 0))
    BY <1>3, <2>1, Rests
  <2>. QED BY <1>1, <2>1, <2>2 DEF SegInv
<1>4. CASE ~ s.threw /\ ~ last
  <2>1. settled' = "no" /\ seg' = s.seg /\ sent' = s.sent
    BY <1>4 DEF Handles
  <2>2. Good(Rest(seg', sent', 0))
    BY <1>4, <2>1, Rests
  <2>. QED BY <1>1, <2>1, <2>2 DEF SegInv
<1>. QED BY <1>2, <1>3, <1>4

\* The invariant holds before the first handler.
LEMMA InitSeg == Init => SegInv
<1> SUFFICES ASSUME Init PROVE SegInv
  OBVIOUS
<1> DEFINE r == Rest(seg, sent, 0)
           z == <<>>
<1>1. r.seg.output = z /\ r.sent = z /\ r.seg.sequence = 0 /\ r.room = 0 /\ ~ r.threw
  BY DEF Init, Rest, NewSegment
<1>2. r \in State
  BY DEF Init, Rest, NewSegment, State, Stage
<1>3. z \in Seq(Item) /\ z \in Seq(Event) /\ Len(z) = 0 /\ DOMAIN z = {}
  OBVIOUS
<1> HIDE DEF r, z
<1>4. Good(r)
  BY <1>1, <1>2, <1>3 DEF Good, Fit, Numbered, Quiet, Orderly
<1>. QED BY <1>4 DEF Init, SegInv, r

\* The first two events leave the segment good.
LEMMA StartKeeps ==
  ASSUME NEW s, Good(s)
  PROVE  Good(Start(s))
<1> DEFINE w == <<>>
           t == Emit(s, "created", 0, w)
           u == Emit(t, "in_progress", 0, w)
<1>1. Start(s) = u
  BY DEF Start
<1>2. w \in Seq(Letters)
  OBVIOUS
<1> HIDE DEF w
<1>3. Good(t)
  BY <1>2, PlainKeeps DEF Kept
<1> HIDE DEF t
<1>4. Good(u)
  BY <1>2, <1>3, PlainKeeps DEF Kept
<1>. QED BY <1>1, <1>4

\* The texts of the model are sequences of letters.
LEMMA TextsAre == \A text \in Texts : text \in Seq(Letters)
BY DEF Texts

\* Every step of the segment keeps the invariant.
LEMMA NextSeg == SegInv /\ [Next]_vars => SegInv'
<1> SUFFICES ASSUME SegInv, [Next]_vars PROVE SegInv'
  OBVIOUS
<1>1. ASSUME NEW room \in Nat, settled = "no"
      PROVE  Good(Now(room)) /\ ~ Now(room).threw
             /\ response \in {"open", "ended", "destroyed"} /\ response # "ended"
  <2>1. Good(Rest(seg, sent, 0)) /\ ~ Rest(seg, sent, 0).threw
        /\ Rest(seg, sent, 0).seg = seg /\ Rest(seg, sent, 0).sent = sent
    BY <1>1 DEF SegInv, Rest
  <2>2. Good(Rest(seg, sent, room))
    BY <2>1, Rests
  <2>3. Now(room) = Rest(seg, sent, room)
    BY DEF Now, Rest
  <2>. QED BY <1>1, <2>2, <2>3 DEF SegInv, Rest
<1>2. Room \subseteq Nat /\ MaxRoom \in Nat /\ 0 \in Nat
  BY BoundsAssumption DEF Room
<1>3. CASE Starts
  <2>1. PICK room \in Nat : settled = "no" /\ Handles(Start(Now(room)), FALSE)
    BY <1>2, <1>3 DEF Starts
  <2>2. Good(Start(Now(room)))
    BY <1>1, <2>1, StartKeeps
  <2>. QED BY <1>1, <2>1, <2>2, HandlesKeep
<1>4. CASE ToolIsOffered
  <2> DEFINE t(room) == ToolCall(Now(room))
             u(room) == Step(t(room), Finish(t(room)))
  <2>1. PICK room \in Nat : settled = "no" /\ Handles(u(room), TRUE)
    BY <1>2, <1>4 DEF ToolIsOffered, Open
  <2>2. Good(t(room))
    BY <1>1, <2>1, ToolCallKeeps DEF Kept
  <2> HIDE DEF t
  <2>3. u(room) = IF t(room).threw THEN t(room) ELSE Finish(t(room))
    BY DEF Step
  <2>4. IF Finish(t(room)).threw THEN Good(Finish(t(room))) ELSE Succeeded(Finish(t(room)))
    BY <2>2, FinishEnds
  <2> HIDE DEF u
  <2>5. IF u(room).threw THEN Good(u(room)) ELSE Succeeded(u(room))
    BY <2>2, <2>3, <2>4
  <2>. QED BY <1>1, <2>1, <2>5, HandlesKeep
<1>5. CASE TurnCompletes
  <2>1. PICK room \in Nat : settled = "no" /\ Handles(Finish(Now(room)), TRUE)
    BY <1>2, <1>5 DEF TurnCompletes, Open
  <2>2. IF Finish(Now(room)).threw THEN Good(Finish(Now(room)))
        ELSE Succeeded(Finish(Now(room)))
    BY <1>1, <2>1, FinishEnds
  <2>. QED BY <1>1, <2>1, <2>2, HandlesKeep
<1>6. CASE Fails
  <2>1. PICK room \in Nat : settled = "no" /\ Handles(Threw(Now(room)), FALSE)
    BY <1>2, <1>6 DEF Fails, Open
  <2>2. Good(Threw(Now(room))) /\ Threw(Now(room)).threw
    BY <1>1, <2>1, ThrowsGood
  <2>. QED BY <1>1, <2>1, <2>2, HandlesKeep
<1>7. CASE Disconnects
  BY <1>7 DEF Disconnects, SegInv
<1>8. CASE Ends
  BY <1>8 DEF Ends, SegInv
<1>9. ASSUME NEW id \in Items, NEW text \in Texts, TextArrives(id, text) PROVE SegInv'
  <2>1. PICK room \in Nat : settled = "no" /\ Handles(TextDelta(Now(room), id, text), FALSE)
    BY <1>2, <1>9 DEF TextArrives, Open
  <2>2. Good(TextDelta(Now(room), id, text))
    BY <1>1, <2>1, TextsAre, TextDeltaKeeps DEF Kept
  <2>. QED BY <1>1, <2>1, <2>2, HandlesKeep
<1>10. ASSUME NEW id \in Items, NEW text \in Texts, MessageCompletes(id, text) PROVE SegInv'
  <2>1. PICK room \in Nat :
          settled = "no" /\ Handles(CompleteMessage(Now(room), id, text), FALSE)
    BY <1>2, <1>10 DEF MessageCompletes, Open
  <2>2. Good(CompleteMessage(Now(room), id, text))
    BY <1>1, <2>1, TextsAre, CompleteMessageKeeps DEF Kept
  <2>. QED BY <1>1, <2>1, <2>2, HandlesKeep
<1>11. CASE UNCHANGED vars
  BY <1>11 DEF vars, SegInv
<1>. QED BY <1>3, <1>4, <1>5, <1>6, <1>7, <1>8, <1>9, <1>10, <1>11 DEF Next

\* The inductive invariant: while the operation is open the segment is good; when
\* it is settled, the stream is complete or broken as the operation is.
THEOREM AlwaysSeg == Spec => []SegInv
BY InitSeg, NextSeg, PTL DEF Spec

-----------------------------------------------------------------------------
(* What the invariant says of the stream *)

\* The facts about the stream that SegInv gives in every state.
LEMMA StreamIs ==
  ASSUME SegInv
  PROVE  /\ sent \in Seq(Event) /\ seg.output \in Seq(Item)
         /\ Numbered(sent) /\ Orderly(seg.output, sent)
         /\ settled = "no" => Quiet(sent)
         /\ settled = "failed" => \A n \in DOMAIN sent :
              Terminal(sent[n]) => n = Len(sent) /\ sent[n].type = "failed"
         /\ settled = "ok" =>
              /\ sent # <<>> /\ sent[Len(sent)].type = "completed"
              /\ sent[Len(sent)].output = seg.output
              /\ \A n \in 1 .. Len(sent) - 1 : ~ Terminal(sent[n])
              /\ \A i \in DOMAIN seg.output :
                   seg.output[i].done /\ ItemOK(seg.output, sent, i)
<1> DEFINE r == Rest(seg, sent, 0)
<1>1. r.seg = seg /\ r.sent = sent /\ ~ r.threw
  BY DEF Rest
<1> HIDE DEF r
<1>2. r \in State /\ Numbered(sent) /\ Orderly(seg.output, sent)
  BY <1>1 DEF SegInv, Good, Fit, Succeeded, Broken, r
<1>3. sent \in Seq(Event) /\ seg.output \in Seq(Item)
  BY <1>1, <1>2 DEF State, Stage
<1>4. CASE settled = "no"
  <2>1. Good(r)
    BY <1>4 DEF SegInv, r
  <2>. QED BY <1>1, <1>2, <1>3, <1>4, <2>1 DEF Good, Fit
<1>5. CASE settled = "ok"
  <2>1. Succeeded(r)
    BY <1>5 DEF SegInv, r
  <2>. QED BY <1>1, <1>2, <1>3, <1>5, <2>1 DEF Succeeded
<1>6. CASE settled = "failed"
  <2>1. Broken(r)
    BY <1>6 DEF SegInv, r
  <2>. QED BY <1>1, <1>2, <1>3, <1>6, <2>1 DEF Broken
<1>. QED BY <1>4, <1>5, <1>6 DEF SegInv

\* The invariant implies WellNested.
LEMMA SegWellNested == SegInv => WellNested
BY StreamIs, OrderlyNested

\* The invariant implies OneStream.
LEMMA SegOneStream == SegInv => OneStream
<1> SUFFICES ASSUME SegInv PROVE OneStream
  OBVIOUS
<1>1. sent \in Seq(Event) /\ Numbered(sent) /\ DOMAIN sent = 1 .. Len(sent) /\ Len(sent) \in Nat
  BY StreamIs
<1>2. CASE settled = "no"
  <2>1. Quiet(sent)
    BY <1>2, StreamIs
  <2>. QED BY <1>1, <1>2, <2>1 DEF OneStream, Quiet, Numbered, Terminal
<1>3. CASE settled = "failed"
  <2>1. \A n \in DOMAIN sent : Terminal(sent[n]) => n = Len(sent) /\ sent[n].type = "failed"
    BY <1>3, StreamIs
  <2>. QED BY <1>1, <1>3, <2>1 DEF OneStream, Numbered, Terminal
<1>4. CASE settled = "ok"
  <2>1. /\ sent # <<>> /\ sent[Len(sent)].type = "completed"
        /\ \A n \in 1 .. Len(sent) - 1 : ~ Terminal(sent[n])
    BY <1>4, StreamIs
  <2>2. Len(sent) \in DOMAIN sent
    BY <1>1, <2>1
  <2>3. \A n \in DOMAIN sent : Terminal(sent[n]) => n = Len(sent)
    <3>1. \A l \in Nat : \A n \in 1 .. l : n = l \/ n \in 1 .. l - 1
      OBVIOUS
    <3>. QED BY <1>1, <2>1, <3>1
  <2>. QED BY <1>1, <1>4, <2>1, <2>2, <2>3 DEF OneStream, Numbered
<1>. QED BY <1>2, <1>3, <1>4 DEF SegInv

\* The invariant implies CompletedIsWhole.
LEMMA SegWhole == SegInv => CompletedIsWhole
<1> SUFFICES ASSUME SegInv, NEW n \in DOMAIN sent, sent[n].type = "completed",
                    NEW i \in DOMAIN sent[n].output
             PROVE  /\ \A type \in {"added", "done"} :
                         \E m \in DOMAIN sent : sent[m].index = i /\ sent[m].type = type
                    /\ sent[n].output[i].done
                    /\ sent[n].output[i].text = Deltas(sent, i)
  BY DEF CompletedIsWhole
<1>1. settled = "ok" /\ n = Len(sent)
  BY SegOneStream DEF OneStream, Terminal
<1>2. sent[n].output = seg.output
  BY <1>1, StreamIs
<1>3. seg.output[i].done /\ ItemOK(seg.output, sent, i)
  BY <1>1, <1>2, StreamIs
<1>. QED BY <1>2, <1>3 DEF ItemOK, Had, Latest

\* WellNested: the events of each item come in the protocol's order and each once,
\* for any letters, items and lengths of text, however delivery fails in between.
THEOREM StreamWellNested == Spec => []WellNested
BY AlwaysSeg, SegWellNested, PTL

\* OneStream: a client receives events numbered without a gap, at most one of them
\* terminal, the last; and it is response.completed exactly if the operation succeeded.
THEOREM StreamOne == Spec => []OneStream
BY AlwaysSeg, SegOneStream, PTL

\* CompletedIsWhole: response.completed carries every item, done, with the text that
\* its deltas put together give.
THEOREM StreamWhole == Spec => []CompletedIsWhole
BY AlwaysSeg, SegWhole, PTL

-----------------------------------------------------------------------------
(* The client *)

\* A client reports a failure only if it has read one.
LEMMA DispatchedFails ==
  ASSUME NEW q \in Seq(Event), \A n \in DOMAIN q : q[n].type # "failed"
  PROVE  ~ Dispatched(q).failed
<1> DEFINE N == Len(q)
<1>1. PICK g \in [0 .. Len(q) -> Result] :
           /\ g[0] = NoResult /\ Dispatched(q) = g[Len(q)]
           /\ \A k \in 1 .. Len(q) : g[k] = Dispatch(g[k - 1], q[k])
  BY DispatchedRuns
<1>2. N \in Nat /\ DOMAIN q = 1 .. N /\ N \in 0 .. N
  OBVIOUS
<1> DEFINE S == {k \in 0 .. N : ~ g[k].failed}
<1>3. 0 \in S
  BY <1>1, <1>2 DEF NoResult
<1>4. ASSUME NEW k \in 0 .. N - 1, k \in S PROVE k + 1 \in S
  <2>1. k + 1 \in 1 .. N /\ (k + 1) - 1 = k /\ k + 1 \in 0 .. N
    <3> HIDE DEF N
    <3>. QED BY <1>2
  <2>2. g[k + 1] = Dispatch(g[k], q[k + 1]) /\ q[k + 1].type # "failed"
        /\ ~ g[k].failed /\ g[k] \in Result
    BY <1>1, <1>2, <1>4, <2>1
  <2>3. ~ g[k + 1].failed
    BY <2>2 DEF Dispatch, Result
  <2>. QED BY <2>1, <2>3
<1>5. \A k \in 0 .. N : k \in S
  <2> HIDE DEF S
  <2>. QED BY <1>2, <1>3, <1>4, UpTo
<1>. QED BY <1>1, <1>2, <1>5

\* A response that has completed.
LEMMA CompletedWith ==
  ASSUME NEW f, NEW d, NEW c
  PROVE  [[failed |-> f, completed |-> d] EXCEPT !.completed = c]
           = [failed |-> f, completed |-> c]
OBVIOUS

\* What a client has of q when no event but the last may complete it.
LEMMA DispatchedCompletes ==
  ASSUME NEW q \in Seq(Event),
         \A n \in 1 .. Len(q) - 1 : q[n].type \notin {"completed", "failed"}
  PROVE  /\ (q = <<>> \/ q[Len(q)].type # "completed") => Dispatched(q).completed = <<>>
         /\ q # <<>> /\ q[Len(q)].type = "completed" =>
              Dispatched(q) = [failed |-> FALSE, completed |-> <<q[Len(q)].output>>]
<1> DEFINE N == Len(q)
           P == N - 1
<1>1. PICK g \in [0 .. Len(q) -> Result] :
           /\ g[0] = NoResult /\ Dispatched(q) = g[Len(q)]
           /\ \A k \in 1 .. Len(q) : g[k] = Dispatch(g[k - 1], q[k])
  BY DispatchedRuns
<1>2. N \in Nat /\ DOMAIN q = 1 .. N /\ N \in 0 .. N
  OBVIOUS
<1>3. CASE q = <<>>
  BY <1>1, <1>3 DEF NoResult
<1>4. CASE q # <<>>
  <2>1. P \in Nat /\ N \in 1 .. N /\ P \in 0 .. P
    BY <1>2, <1>4
  <2> DEFINE S == {k \in 0 .. P : g[k] = NoResult}
  <2>2. 0 \in S
    BY <1>1, <2>1
  <2>3. ASSUME NEW k \in 0 .. P - 1, k \in S PROVE k + 1 \in S
    <3>1. k + 1 \in 1 .. N /\ (k + 1) - 1 = k /\ k + 1 \in 0 .. P /\ k + 1 \in 1 .. N - 1
      BY <1>2, <2>1
    <3>2. g[k + 1] = Dispatch(g[k], q[k + 1]) /\ g[k] = NoResult
          /\ q[k + 1].type \notin {"completed", "failed"}
      BY <1>1, <2>3, <3>1
    <3>3. g[k + 1] = NoResult
      BY <3>2 DEF Dispatch, NoResult
    <3>. QED BY <3>1, <3>3
  <2>4. \A k \in 0 .. P : k \in S
    <3> HIDE DEF S, P
    <3>. QED BY <2>1, <2>2, <2>3, UpTo
  <2>5. Dispatched(q) = Dispatch(NoResult, q[N])
    BY <1>1, <2>1, <2>4
  <2>6. q[N].type # "completed" => Dispatched(q).completed = <<>>
    <3>1. NoResult.completed = <<>> /\ NoResult.failed = FALSE
      BY DEF NoResult
    <3>2. [NoResult EXCEPT !.failed = TRUE].completed = <<>>
      BY DEF NoResult
    <3>. QED BY <2>5, <3>1, <3>2 DEF Dispatch
  <2>7. q[N].type = "completed" =>
          Dispatched(q) = [failed |-> FALSE, completed |-> <<q[N].output>>]
    <3>1. NoResult.failed = FALSE
      BY DEF NoResult
    <3> DEFINE c == <<q[N].output>>
    <3>2. q[N].type = "completed" => Dispatched(q) = [NoResult EXCEPT !.completed = c]
      BY <2>5, <3>1 DEF Dispatch
    <3> HIDE DEF c
    <3>3. [NoResult EXCEPT !.completed = c] = [failed |-> FALSE, completed |-> c]
      BY CompletedWith DEF NoResult
    <3>. QED BY <3>2, <3>3 DEF c
  <2>. QED BY <1>4, <2>6, <2>7
<1>. QED BY <1>3, <1>4

\* What the client does never takes part in what the segment does.
THEOREM ClientKeepsSegment == BothSpec => Spec
<1>1. ClientInit => Init
  BY DEF ClientInit
<1>2. [BothNext]_both => [Next]_vars
  BY DEF BothNext, ServerNext, ReadsEnd, ReadsFailure, LosesConnection, Next, both
<1>. QED BY <1>1, <1>2, PTL DEF BothSpec, Spec

\* Every step of the two ends together keeps EndsAgree.
LEMMA NextEndsAgree == SegInv /\ EndsAgree /\ [BothNext]_both => EndsAgree'
<1> SUFFICES ASSUME SegInv, EndsAgree, [BothNext]_both PROVE EndsAgree'
  OBVIOUS
<1>1. CASE ServerNext
  <2>1. UNCHANGED <<client, taken>>
    BY <1>1 DEF ServerNext, clientVars
  <2>2. settled = "no" \/ UNCHANGED <<seg, settled>>
    BY <1>1 DEF ServerNext, Starts, ToolIsOffered, TurnCompletes, Fails, Ends, TextArrives,
                MessageCompletes, Open
  <2>. QED BY <2>1, <2>2 DEF EndsAgree
<1>2. CASE ReadsEnd
  <2> DEFINE r == Dispatched(sent)
  <2>1. /\ UNCHANGED <<seg, settled>> /\ response = "ended" /\ client' = AtEnd(r)
        /\ taken' = IF AtEnd(r) = "returned" /\ r.completed # <<>>
                    THEN Last(r.completed) ELSE <<>>
    BY <1>2 DEF ReadsEnd, vars
  <2>2. sent \in Seq(Event) /\ settled \in {"ok", "failed"}
    BY <2>1, StreamIs DEF SegInv
  <2>3. CASE settled = "ok"
    <3>1. /\ sent # <<>> /\ sent[Len(sent)].type = "completed"
          /\ sent[Len(sent)].output = seg.output
          /\ \A n \in 1 .. Len(sent) - 1 : ~ Terminal(sent[n])
      BY <2>3, StreamIs
    <3>2. r = [failed |-> FALSE, completed |-> <<seg.output>>]
      BY <2>2, <3>1, DispatchedCompletes DEF Terminal
    <3> HIDE DEF r
    <3>3. /\ ~ r.failed /\ r.completed = <<seg.output>>
      BY <3>2
    <3>4. AtEnd(r) = "returned" /\ r.completed # <<>>
      BY <3>3 DEF AtEnd
    <3>5. Last(r.completed) = seg.output
      BY <3>3 DEF Last
    <3>. QED BY <2>1, <2>3, <3>4, <3>5 DEF EndsAgree
  <2>4. CASE settled = "failed"
    <3>1. \A n \in DOMAIN sent :
            Terminal(sent[n]) => n = Len(sent) /\ sent[n].type = "failed"
      BY <2>4, StreamIs
    <3>2. /\ \A n \in 1 .. Len(sent) - 1 : n \in DOMAIN sent /\ n # Len(sent)
          /\ sent # <<>> => Len(sent) \in DOMAIN sent
      BY <2>2
    <3>3. r.completed = <<>>
      BY <2>2, <3>1, <3>2, DispatchedCompletes DEF Terminal
    <3> HIDE DEF r
    <3>4. AtEnd(r) = "failed"
      BY <3>3 DEF AtEnd
    <3>. QED BY <2>1, <2>4, <3>4 DEF EndsAgree
  <2>. QED BY <2>2, <2>3, <2>4
<1>3. CASE ReadsFailure
  <2>1. /\ client' = "failed" /\ UNCHANGED <<seg, settled>> /\ Dispatched(sent).failed
    BY <1>3 DEF ReadsFailure, Disconnects
  <2>2. sent \in Seq(Event) /\ settled \in {"no", "ok", "failed"}
    BY StreamIs DEF SegInv
  <2>3. PICK n \in DOMAIN sent : sent[n].type = "failed"
    BY <2>1, <2>2, DispatchedFails
  <2>4. Terminal(sent[n])
    BY <2>3 DEF Terminal
  <2>5. settled # "no"
    BY <2>4, StreamIs DEF Quiet
  <2>6. settled # "ok"
    <3>1. ASSUME settled = "ok" PROVE FALSE
      <4>1. OneStream /\ sent[Len(sent)].type = "completed"
        BY <3>1, StreamIs, SegOneStream
      <4>2. n = Len(sent)
        BY <2>4, <4>1 DEF OneStream
      <4>. QED BY <2>3, <4>1, <4>2
    <3>. QED BY <3>1
  <2>. QED BY <2>1, <2>2, <2>5, <2>6 DEF EndsAgree
<1>4. CASE LosesConnection
  BY <1>4 DEF LosesConnection, EndsAgree
<1>5. CASE UNCHANGED both
  BY <1>5 DEF both, vars, clientVars, EndsAgree
<1>. QED BY <1>1, <1>2, <1>3, <1>4, <1>5 DEF BothNext

\* EndsAgree: the example client has a result exactly if the operation succeeded,
\* and it is the whole output; it reports a failure only of one that failed.
THEOREM EndsAlwaysAgree == BothSpec => []EndsAgree
<1>1. ClientInit => EndsAgree
  BY DEF ClientInit, EndsAgree
<1>2. BothSpec => []SegInv
  BY ClientKeepsSegment, AlwaysSeg
<1>. QED BY <1>1, <1>2, NextEndsAgree, PTL DEF BothSpec

-----------------------------------------------------------------------------
(* Folds over a sequence *)

\* What a set holds that has <<>> and grows by one element, every sequence is.
LEMMA SeqInd ==
  ASSUME NEW A, NEW S, <<>> \in S,
         \A q \in Seq(A) : q \in S => \A e \in A : Append(q, e) \in S
  PROVE  Seq(A) \subseteq S
<1> DEFINE T == {n \in Nat : \A q \in Seq(A) : Len(q) = n => q \in S}
<1>1. 0 \in T
  <2>1. \A q \in Seq(A) : Len(q) = 0 => q = <<>>
    OBVIOUS
  <2>. QED BY <2>1
<1>2. ASSUME NEW n \in Nat, n \in T PROVE n + 1 \in T
  <2>1. ASSUME NEW q \in Seq(A), Len(q) = n + 1 PROVE q \in S
    <3> DEFINE f == SubSeq(q, 1, n)
               e == q[n + 1]
    <3>1. f \in Seq(A) /\ Len(f) = n /\ e \in A /\ q = Append(f, e)
      BY <2>1
    <3>2. f \in S
      BY <1>2, <3>1
    <3> HIDE DEF f, e
    <3>. QED BY <3>1, <3>2
  <2>. QED BY <2>1
<1> HIDE DEF T
<1>3. Nat \subseteq T
  BY <1>1, <1>2, NatInd
<1>. QED BY <1>3 DEF T

\* v is the fold of F from b over q.
Run(g, F, b, q) ==
    g[0] = b /\ \A k \in 1 .. Len(q) : g[k] = F[<<g[k - 1], q[k]>>]
Runs(T, F, b, q, v) == \E g \in [0 .. Len(q) -> T] : Run(g, F, b, q) /\ v = g[Len(q)]

\* A fold over nothing.
LEMMA RunsNone ==
  ASSUME NEW T, NEW F, NEW b, NEW A, NEW q \in Seq(A), NEW v, Len(q) = 0, Runs(T, F, b, q, v)
  PROVE  v = b
BY DEF Runs, Run

\* A fold has its values in T.
LEMMA RunsIn ==
  ASSUME NEW T, NEW F, NEW b, NEW A, NEW q \in Seq(A), NEW v, Runs(T, F, b, q, v)
  PROVE  v \in T
<1>1. PICK g \in [0 .. Len(q) -> T] : Run(g, F, b, q) /\ v = g[Len(q)]
  BY DEF Runs
<1>2. Len(q) \in 0 .. Len(q)
  OBVIOUS
<1>. QED BY <1>1, <1>2

\* One element more is one more application of F.
LEMMA RunsMore ==
  ASSUME NEW T, NEW F, NEW b, NEW A, NEW q \in Seq(A), NEW e \in A, NEW v, NEW w,
         Runs(T, F, b, q, v), Runs(T, F, b, Append(q, e), w)
  PROVE  v \in T /\ w = F[<<v, e>>]
<1> DEFINE N == Len(q)
           r == Append(q, e)
<1>1. N \in Nat /\ Len(r) = N + 1 /\ r[N + 1] = e /\ \A k \in 1 .. N : r[k] = q[k]
  OBVIOUS
<1>2. PICK g \in [0 .. N -> T] : Run(g, F, b, q) /\ v = g[N]
  BY DEF Runs
<1> HIDE DEF r
<1>3. PICK h \in [0 .. Len(r) -> T] : Run(h, F, b, r) /\ w = h[Len(r)]
  BY DEF Runs, r
<1> HIDE DEF N
<1> DEFINE S == {k \in 0 .. N : h[k] = g[k]}
<1>4. 0 \in S
  BY <1>1, <1>2, <1>3 DEF Run
<1>5. ASSUME NEW k \in 0 .. N - 1, k \in S PROVE k + 1 \in S
  <2>1. k + 1 \in 1 .. N /\ k + 1 \in 1 .. N + 1 /\ (k + 1) - 1 = k
    BY <1>1
  <2>2. g[k + 1] = F[<<g[k], q[k + 1]>>]
    BY <1>2, <2>1 DEF Run, N
  <2>3. h[k + 1] = F[<<h[k], r[k + 1]>>]
    BY <1>1, <1>3, <2>1 DEF Run
  <2>4. h[k] = g[k]
    BY <1>5
  <2>5. h[k + 1] = g[k + 1]
    BY <1>1, <2>1, <2>2, <2>3, <2>4
  <2>6. k + 1 \in 0 .. N
    BY <1>1
  <2>. QED BY <2>5, <2>6
<1>6. h[N] = g[N]
  <2> HIDE DEF S
  <2>1. \A k \in 0 .. N : k \in S
    BY <1>1, <1>4, <1>5, UpTo
  <2>2. N \in 0 .. N
    BY <1>1
  <2>. QED BY <2>1, <2>2 DEF S
<1>7. h[N + 1] = F[<<h[N], r[N + 1]>>]
  <2>1. N + 1 \in 1 .. N + 1 /\ (N + 1) - 1 = N
    BY <1>1
  <2>. QED BY <1>1, <1>3, <2>1 DEF Run
<1>8. g[N] \in T
  BY <1>1, <1>2
<1>. QED BY <1>1, <1>2, <1>3, <1>6, <1>7, <1>8

\* it folds F from b over the sets of indices of q, as far as its values are in T.
Sets(it, T, F, b, q) ==
    /\ it[{}] = b
    /\ \A x \in SUBSET DOMAIN q : x # {} /\ it[x \ {Max(x)}] \in T
         => it[x] = F[<<it[x \ {Max(x)}], q[Max(x)]>>]

\* A fold over sets of indices is one over the sequence.
LEMMA RunsSets ==
  ASSUME NEW T, NEW A, NEW F \in [T \X A -> T], NEW b \in T, NEW q \in Seq(A), NEW it,
         Sets(it, T, F, b, q)
  PROVE  Runs(T, F, b, q, it[DOMAIN q])
<1> DEFINE N == Len(q)
           g == [k \in 0 .. N |-> it[1 .. k]]
           S == {k \in 0 .. N : it[1 .. k] \in T}
<1>1. N \in Nat /\ DOMAIN q = 1 .. N
  OBVIOUS
<1>2. ASSUME NEW k \in 1 .. N, it[1 .. k - 1] \in T
      PROVE  it[1 .. k] = F[<<it[1 .. k - 1], q[k]>>] /\ it[1 .. k] \in T
  <2>1. /\ 1 .. k # {} /\ Max(1 .. k) = k /\ (1 .. k) \ {k} = 1 .. k - 1
        /\ 1 .. k \in SUBSET DOMAIN q
    BY <1>1, Parts
  <2>2. it[1 .. k] = F[<<it[1 .. k - 1], q[k]>>]
    BY <1>2, <2>1 DEF Sets
  <2>3. <<it[1 .. k - 1], q[k]>> \in T \X A
    BY <1>2
  <2>. QED BY <2>2, <2>3
<1>3. 1 .. 0 = {} /\ it[1 .. 0] = b
  BY DEF Sets
<1>4. \A k \in 0 .. N : k \in S
  <2>1. 0 \in S
    BY <1>1, <1>3
  <2>2. ASSUME NEW k \in 0 .. N - 1, k \in S PROVE k + 1 \in S
    <3>1. k + 1 \in 1 .. N /\ (k + 1) - 1 = k
      BY <1>1
    <3>2. it[1 .. k] \in T
      BY <2>2
    <3>3. it[1 .. (k + 1) - 1] \in T
      BY <3>1, <3>2
    <3> HIDE DEF g
    <3>4. it[1 .. k + 1] \in T
      BY <1>2, <3>1, <3>3
    <3>. QED BY <3>1, <3>4
  <2> HIDE DEF S
  <2>. QED BY <1>1, <2>1, <2>2, UpTo
<1>5. g \in [0 .. N -> T]
  BY <1>4
<1>6. Run(g, F, b, q)
  <2>1. g[0] = b
    BY <1>1, <1>3
  <2>2. ASSUME NEW k \in 1 .. N PROVE g[k] = F[<<g[k - 1], q[k]>>]
    <3>1. k \in 0 .. N /\ k - 1 \in 0 .. N
      BY <1>1
    <3>. QED BY <1>2, <1>4, <3>1
  <2>. QED BY <2>1, <2>2 DEF Run
<1>7. it[DOMAIN q] = g[N]
  BY <1>1
<1>. QED BY <1>5, <1>6, <1>7 DEF Runs

\* The largest of some indices is an index.
LEMMA MaxAt ==
  ASSUME NEW A, NEW q \in Seq(A), NEW x \in SUBSET DOMAIN q, x # {}
  PROVE  Max(x) \in DOMAIN q
<1>1. Len(q) \in Nat /\ DOMAIN q = 1 .. Len(q)
  OBVIOUS
<1>. QED BY <1>1, MaxIn

\* Such a function exists.
Solves(h, T, F, b, q) ==
    /\ h \in [SUBSET DOMAIN q -> T]
    /\ \A x \in SUBSET DOMAIN q :
         h[x] = IF x = {} THEN b ELSE F[<<h[x \ {Max(x)}], q[Max(x)]>>]

\* There is such a function, by FoldSets.
LEMMA SetsExist ==
  ASSUME NEW T, NEW A, NEW F \in [T \X A -> T], NEW b \in T, NEW q \in Seq(A)
  PROVE  \E h : Solves(h, T, F, b, q)
<1> DEFINE N == Len(q)
           G == [p \in T \X (1 .. N) |-> F[<<p[1], q[p[2]]>>]]
<1>1. N \in Nat /\ DOMAIN q = 1 .. N
  OBVIOUS
<1>2. ASSUME NEW t \in T, NEW k \in 1 .. N PROVE F[<<t, q[k]>>] \in T
  <2>1. q[k] \in A
    BY <1>1
  <2>. QED BY <2>1
<1>3. G \in [T \X (1 .. N) -> T]
  BY <1>2
<1> HIDE DEF G
<1>4. PICK h \in [SUBSET (1 .. N) -> T] : Folds(h, b, N, G)
  BY <1>1, <1>3, FoldSets
<1>5. ASSUME NEW x \in SUBSET (1 .. N), x # {}
      PROVE  h[x] = F[<<h[x \ {Max(x)}], q[Max(x)]>>]
  <2>1. Max(x) \in 1 .. N
    BY <1>1, <1>5, MaxIn
  <2>2. h[x \ {Max(x)}] \in T
    OBVIOUS
  <2>3. h[x] = G[h[x \ {Max(x)}], Max(x)]
    BY <1>4, <1>5 DEF Folds
  <2>. QED BY <2>1, <2>2, <2>3 DEF G
<1>6. h[{}] = b
  BY <1>4 DEF Folds
<1>. QED BY <1>1, <1>5, <1>6 DEF Solves
-----------------------------------------------------------------------------
(* Lines *)

Cuts == [lines : Seq(Seq(Bytes)), rest : Seq(Bytes)]
NoLines == [lines |-> <<>>, rest |-> <<>>]

\* Cut keeps the types.
LEMMA CutIn ==
  ASSUME NEW q \in Cuts, NEW byte \in Bytes PROVE Cut(q, byte) \in Cuts
BY DEF Cut, Cuts

\* Split is a fold of Cut over the bytes.
LEMMA SplitRuns ==
  \E F : /\ F = [p \in Cuts \X Bytes |-> Cut(p[1], p[2])]
         /\ \A s \in Seq(Bytes) : Runs(Cuts, F, NoLines, s, Split(s))
<1> DEFINE F == [p \in Cuts \X Bytes |-> Cut(p[1], p[2])]
<1>1. F \in [Cuts \X Bytes -> Cuts] /\ NoLines \in Cuts
  BY CutIn DEF Cuts, NoLines
<1>2. ASSUME NEW s \in Seq(Bytes) PROVE Runs(Cuts, F, NoLines, s, Split(s))
  <2> DEFINE Of(it) == [x \in SUBSET DOMAIN s |->
                          IF x = {} THEN NoLines ELSE Cut(it[x \ {Max(x)}], s[Max(x)])]
             it == CHOOSE x : x = Of(x)
  <2>1. Split(s) = it[DOMAIN s]
    BY DEF Split, FoldLeft, MapThenFoldSet, NoLines
  <2>2. ASSUME NEW x \in SUBSET DOMAIN s, x # {}, NEW t \in Cuts
        PROVE  F[<<t, s[Max(x)]>>] = Cut(t, s[Max(x)])
    <3>1. Max(x) \in DOMAIN s
      BY <2>2, MaxAt
    <3>. QED BY <3>1
  <2> HIDE DEF F
  <2>3. PICK h : Solves(h, Cuts, F, NoLines, s)
    BY <1>1, SetsExist
  <2>4. h = Of(h)
    BY <2>2, <2>3 DEF Solves
  <2>5. it = Of(it)
    BY <2>4
  <2> HIDE DEF it
  <2>6. Sets(it, Cuts, F, NoLines, s)
    BY <2>2, <2>5 DEF Sets
  <2>7. Runs(Cuts, F, NoLines, s, it[DOMAIN s])
    BY <1>1, <2>6, RunsSets
  <2>. QED BY <2>1, <2>7
<1>. QED BY <1>2

\* What Split does, byte by byte.
LEMMA SplitIs ==
  /\ Split(<<>>) = NoLines
  /\ \A s \in Seq(Bytes) :
       /\ Split(s) \in Cuts
       /\ \A byte \in Bytes : Split(Append(s, byte)) = Cut(Split(s), byte)
<1>1. PICK F : /\ F = [p \in Cuts \X Bytes |-> Cut(p[1], p[2])]
               /\ \A s \in Seq(Bytes) : Runs(Cuts, F, NoLines, s, Split(s))
  BY SplitRuns
<1>2. Split(<<>>) = NoLines
  <2> DEFINE s == <<>>
  <2>1. s \in Seq(Bytes) /\ Len(s) = 0
    OBVIOUS
  <2> HIDE DEF s
  <2>2. Split(s) = NoLines
    BY <1>1, <2>1, RunsNone
  <2>. QED BY <2>2 DEF s
<1>3. ASSUME NEW s \in Seq(Bytes) PROVE Split(s) \in Cuts
  BY <1>1, RunsIn
<1>4. ASSUME NEW s \in Seq(Bytes), NEW byte \in Bytes
      PROVE  Split(Append(s, byte)) = Cut(Split(s), byte)
  <2>1. Append(s, byte) \in Seq(Bytes)
    OBVIOUS
  <2>2. /\ Runs(Cuts, F, NoLines, s, Split(s))
        /\ Runs(Cuts, F, NoLines, Append(s, byte), Split(Append(s, byte)))
    BY <1>1, <2>1
  <2>3. Split(s) \in Cuts /\ Split(Append(s, byte)) = F[<<Split(s), byte>>]
    BY <2>2, RunsMore
  <2>. QED BY <1>1, <2>3
<1>. QED BY <1>2, <1>3, <1>4

\* A line without its white space is one of bytes, and invalid as before.
LEMMA TrimmedIs ==
  ASSUME NEW line \in Seq(Bytes)
  PROVE  /\ Trimmed(line) \in Seq(Bytes)
         /\ "bad" \in ToSet(Trimmed(line)) <=> "bad" \in ToSet(line)
<1> DEFINE ink == {i \in DOMAIN line : line[i] # "cr"}
           N == Len(line)
<1>1. N \in Nat /\ DOMAIN line = 1 .. N
  OBVIOUS
<1>2. CASE ink = {}
  <2>1. Trimmed(line) = <<>>
    BY <1>2 DEF Trimmed
  <2>2. "bad" \notin ToSet(line)
    BY <1>2 DEF ToSet
  <2>3. "bad" \notin ToSet(<<>>)
    BY DEF ToSet
  <2>. QED BY <2>1, <2>2, <2>3
<1>3. CASE ink # {}
  <2>0. ink \in SUBSET (1 .. N)
    BY <1>1
  <2> DEFINE lo == Min(ink)
             hi == Max(ink)
             t == SubSeq(line, lo, hi)
  <2>1. Trimmed(line) = t
    BY <1>3 DEF Trimmed
  <2>2. hi \in ink /\ \A z \in ink : z <= hi
    <3> HIDE DEF ink, N
    <3>. QED BY <1>1, <1>3, <2>0, MaxIn
  <2>3. lo \in ink /\ \A z \in ink : lo <= z
    <3>1. ink \subseteq Nat
      BY <2>0
    <3> HIDE DEF ink
    <3>2. PICK x \in ink : \A z \in ink : x <= z
      BY <1>3, <3>1, NatMin
    <3>. QED BY <3>2 DEF Min
  <2>4. lo \in 1 .. N /\ hi \in 1 .. N /\ lo <= hi
    BY <1>1, <2>2, <2>3
  <2> HIDE DEF lo, hi
  <2>5. t \in Seq(Bytes) /\ Len(t) = hi - lo + 1 /\ \A i \in 1 .. Len(t) : t[i] = line[lo + i - 1]
    BY <1>1, <2>4
  <2>6. ASSUME NEW i \in DOMAIN line, line[i] = "bad" PROVE "bad" \in ToSet(t)
    <3>1. i \in ink
      BY <2>6
    <3>2. lo <= i /\ i <= hi
      BY <2>2, <2>3, <3>1
    <3>3. i - lo + 1 \in 1 .. Len(t) /\ lo + (i - lo + 1) - 1 = i
      BY <1>1, <2>4, <2>5, <3>2
    <3>4. t[i - lo + 1] = line[i] /\ i - lo + 1 \in DOMAIN t
      BY <2>5, <3>3
    <3>. QED BY <2>6, <3>4 DEF ToSet
  <2>7. ASSUME NEW i \in DOMAIN t, t[i] = "bad" PROVE "bad" \in ToSet(line)
    <3>1. i \in 1 .. Len(t)
      BY <2>5
    <3>2. lo + i - 1 \in DOMAIN line /\ t[i] = line[lo + i - 1]
      BY <1>1, <2>4, <2>5, <3>1
    <3>. QED BY <2>7, <3>2 DEF ToSet
  <2>8. "bad" \in ToSet(t) <=> "bad" \in ToSet(line)
    BY <2>6, <2>7 DEF ToSet
  <2>. QED BY <2>1, <2>5, <2>8
<1>. QED BY <1>2, <1>3

-----------------------------------------------------------------------------
(* CodexRpc's lines *)

Passed == [buffer : Seq(Bytes), lines : Seq(Seq(Bytes)), closed : BOOLEAN, part : Seq(Bytes)]
Lines == Seq(Seq(Bytes))

\* WithMessage keeps the types.
LEMMA WithMessageIn ==
  ASSUME NEW m \in Lines, NEW line \in Seq(Bytes) PROVE WithMessage(m, line) \in Lines
BY TrimmedIs DEF WithMessage, Lines

\* Messages is a fold over lines.
LEMMA MessagesRuns ==
  \E F : /\ F = [p \in Lines \X Seq(Bytes) |-> WithMessage(p[1], p[2])]
         /\ \A ls \in Seq(Seq(Bytes)) : Runs(Lines, F, <<>>, ls, Messages(ls))
<1> DEFINE F == [p \in Lines \X Seq(Bytes) |-> WithMessage(p[1], p[2])]
<1>1. F \in [Lines \X Seq(Bytes) -> Lines] /\ <<>> \in Lines
  BY WithMessageIn DEF Lines
<1>2. ASSUME NEW ls \in Seq(Seq(Bytes)) PROVE Runs(Lines, F, <<>>, ls, Messages(ls))
  <2> DEFINE Of(it) == [x \in SUBSET DOMAIN ls |->
                          IF x = {} THEN <<>> ELSE WithMessage(it[x \ {Max(x)}], ls[Max(x)])]
             it == CHOOSE x : x = Of(x)
  <2>1. Messages(ls) = it[DOMAIN ls]
    BY DEF Messages, FoldLeft, MapThenFoldSet
  <2>2. ASSUME NEW x \in SUBSET DOMAIN ls, x # {}, NEW t \in Lines
        PROVE  F[<<t, ls[Max(x)]>>] = WithMessage(t, ls[Max(x)])
    <3>1. Max(x) \in DOMAIN ls
      BY <2>2, MaxAt
    <3>. QED BY <3>1
  <2> HIDE DEF F
  <2>3. PICK h : Solves(h, Lines, F, <<>>, ls)
    BY <1>1, SetsExist
  <2>4. h = Of(h)
    BY <2>2, <2>3 DEF Solves
  <2>5. it = Of(it)
    BY <2>4
  <2> HIDE DEF it
  <2>6. Sets(it, Lines, F, <<>>, ls)
    BY <2>2, <2>5 DEF Sets
  <2>7. Runs(Lines, F, <<>>, ls, it[DOMAIN ls])
    BY <1>1, <2>6, RunsSets
  <2>. QED BY <2>1, <2>7
<1>. QED BY <1>2

\* What it does, line by line.
LEMMA MessagesIs ==
  /\ Messages(<<>>) = <<>>
  /\ \A ls \in Seq(Seq(Bytes)) :
       /\ Messages(ls) \in Lines
       /\ \A line \in Seq(Bytes) : Messages(Append(ls, line)) = WithMessage(Messages(ls), line)
<1>1. PICK F : /\ F = [p \in Lines \X Seq(Bytes) |-> WithMessage(p[1], p[2])]
               /\ \A ls \in Seq(Seq(Bytes)) : Runs(Lines, F, <<>>, ls, Messages(ls))
  BY MessagesRuns
<1>2. Messages(<<>>) = <<>>
  <2> DEFINE ls == <<>>
  <2>1. ls \in Seq(Seq(Bytes)) /\ Len(ls) = 0
    OBVIOUS
  <2> HIDE DEF ls
  <2>2. Messages(ls) = <<>>
    BY <1>1, <2>1, RunsNone
  <2>. QED BY <2>2 DEF ls
<1>3. ASSUME NEW ls \in Seq(Seq(Bytes)) PROVE Messages(ls) \in Lines
  BY <1>1, RunsIn
<1>4. ASSUME NEW ls \in Seq(Seq(Bytes)), NEW line \in Seq(Bytes)
      PROVE  Messages(Append(ls, line)) = WithMessage(Messages(ls), line)
  <2>1. Append(ls, line) \in Seq(Seq(Bytes))
    OBVIOUS
  <2>2. /\ Runs(Lines, F, <<>>, ls, Messages(ls))
        /\ Runs(Lines, F, <<>>, Append(ls, line), Messages(Append(ls, line)))
    BY <1>1, <2>1
  <2>3. Messages(ls) \in Lines /\ Messages(Append(ls, line)) = F[<<Messages(ls), line>>]
    BY <2>2, RunsMore
  <2>. QED BY <1>1, <2>3
<1>. QED BY <1>2, <1>3, <1>4

\* What the lines of s are.
LEMMA LinesAre ==
  ASSUME NEW s \in Seq(Bytes)
  PROVE  /\ Split(s).lines \in Seq(Seq(Bytes)) /\ Split(s).rest \in Seq(Bytes)
         /\ Len(Split(s).lines) \in Nat
         /\ \A k \in 1 .. Len(Split(s).lines) : Line(s, k) = Split(s).lines[k]
         /\ Line(s, Len(Split(s).lines) + 1) = Split(s).rest
         /\ \A k \in 1 .. Len(Split(s).lines) + 1 : Line(s, k) \in Seq(Bytes)
<1>1. Split(s).lines \in Seq(Seq(Bytes)) /\ Split(s).rest \in Seq(Bytes)
  BY SplitIs DEF Cuts
<1> DEFINE o == Split(s).lines
           r == Split(s).rest
<1>2. \A k : Line(s, k) = Append(o, r)[k]
  BY DEF Line
<1>3. o \in Seq(Seq(Bytes)) /\ r \in Seq(Bytes)
  BY <1>1
<1> HIDE DEF o, r
<1>4. /\ Len(o) \in Nat
      /\ \A k \in 1 .. Len(o) : Append(o, r)[k] = o[k] /\ o[k] \in Seq(Bytes)
      /\ Append(o, r)[Len(o) + 1] = r
  BY <1>3
<1>5. \A k \in 1 .. Len(o) + 1 : k \in 1 .. Len(o) \/ k = Len(o) + 1
  BY <1>4
<1>. QED BY <1>2, <1>3, <1>4, <1>5 DEF o, r

\* How the lines of s grow by a byte: the complete ones stay, and the last is
\* complete or longer.
LEMMA LinesMore ==
  ASSUME NEW s \in Seq(Bytes), NEW byte \in Bytes
  PROVE  LET t == Append(s, byte)
             o == Split(s).lines
         IN /\ t \in Seq(Bytes)
            /\ Split(t).lines = (IF byte = "lf" THEN Append(o, Split(s).rest) ELSE o)
            /\ Split(t).rest = (IF byte = "lf" THEN <<>> ELSE Append(Split(s).rest, byte))
            /\ \A k \in 1 .. Len(o) : Line(t, k) = Line(s, k) /\ k \in 1 .. Len(Split(t).lines)
            /\ \A k \in 1 .. Len(o) + 1 : /\ Len(Line(t, k)) >= Len(Line(s, k))
                                          /\ k \in 1 .. Len(Split(t).lines) + 1
            /\ byte = "lf" => Line(t, Len(o) + 1) = Split(s).rest
                              /\ Len(Split(t).lines) = Len(o) + 1
            /\ \A k \in 1 .. Len(o) + 1 :
                 SubSeq(Split(t).lines, 1, k - 1) = SubSeq(o, 1, k - 1)
<1> DEFINE t == Append(s, byte)
           o == Split(s).lines
           r == Split(s).rest
           o2 == Split(t).lines
           r2 == Split(t).rest
<1>1. t \in Seq(Bytes) /\ Split(t) = Cut(Split(s), byte) /\ Split(s) \in Cuts
  BY SplitIs
<1>2. /\ o2 = IF byte = "lf" THEN Append(o, r) ELSE o
      /\ r2 = IF byte = "lf" THEN <<>> ELSE Append(r, byte)
  BY <1>1 DEF Cut, Cuts
<1>3. /\ o \in Seq(Seq(Bytes)) /\ r \in Seq(Bytes) /\ Len(o) \in Nat
      /\ \A k \in 1 .. Len(o) : Line(s, k) = o[k]
      /\ Line(s, Len(o) + 1) = r
      /\ \A k \in 1 .. Len(o) + 1 : Line(s, k) \in Seq(Bytes)
  BY LinesAre
<1>4. /\ \A k \in 1 .. Len(o2) : Line(t, k) = o2[k]
      /\ Line(t, Len(o2) + 1) = r2
  BY <1>1, LinesAre
<1> HIDE DEF t, o, r, o2, r2
<1> SUFFICES /\ \A k \in 1 .. Len(o) : Line(t, k) = Line(s, k) /\ k \in 1 .. Len(o2)
             /\ \A k \in 1 .. Len(o) + 1 : /\ Len(Line(t, k)) >= Len(Line(s, k))
                                           /\ k \in 1 .. Len(o2) + 1
             /\ byte = "lf" => Line(t, Len(o) + 1) = r /\ Len(o2) = Len(o) + 1
             /\ \A k \in 1 .. Len(o) + 1 : SubSeq(o2, 1, k - 1) = SubSeq(o, 1, k - 1)
  BY <1>1, <1>2 DEF t, o, r, o2, r2
<1>5. CASE byte = "lf"
  <2>1. o2 = Append(o, r)
    BY <1>2, <1>5
  <2>2. /\ Len(o2) = Len(o) + 1 /\ o2[Len(o) + 1] = r
        /\ \A k \in 1 .. Len(o) : o2[k] = o[k]
    BY <1>3, <2>1
  <2>3. \A k \in 1 .. Len(o) + 1 : k \in 1 .. Len(o) \/ k = Len(o) + 1
    BY <1>3
  <2>4. \A k \in 1 .. Len(o) + 1 : Line(t, k) = Line(s, k) /\ k \in 1 .. Len(o2)
    BY <1>3, <1>4, <2>2, <2>3
  <2>5. ASSUME NEW k \in 1 .. Len(o) + 1
        PROVE  SubSeq(o2, 1, k - 1) = SubSeq(o, 1, k - 1)
    <3> DEFINE n == k - 1
    <3>1. n \in 0 .. Len(o)
      BY <1>3
    <3> HIDE DEF n
    <3>2. SubSeq(Append(o, r), 1, n) = SubSeq(o, 1, n)
      BY <1>3, <3>1
    <3>. QED BY <2>1, <3>2 DEF n
  <2>6. \A k \in 1 .. Len(o) + 1 : Len(Line(s, k)) \in Nat
    BY <1>3
  <2>7. Line(t, Len(o) + 1) = r
    BY <1>3, <2>4
  <2>8. \A k \in 1 .. Len(o2) : k \in 1 .. Len(o2) + 1
    BY <1>3, <2>2
  <2>9. \A k \in 1 .. Len(o) : k \in 1 .. Len(o) + 1
    BY <1>3
  <2>10. \A k \in 1 .. Len(o) + 1 : Len(Line(t, k)) >= Len(Line(s, k))
    BY <2>4, <2>6
  <2>. QED BY <2>2, <2>4, <2>5, <2>7, <2>8, <2>9, <2>10
<1>6. CASE byte # "lf"
  <2>1. o2 = o /\ r2 = Append(r, byte)
    BY <1>2, <1>6
  <2>2. Len(r2) = Len(r) + 1 /\ Len(r) \in Nat
    BY <1>3, <2>1
  <2>3. \A k \in 1 .. Len(o) + 1 : k \in 1 .. Len(o) \/ k = Len(o) + 1
    BY <1>3
  <2>4. \A k \in 1 .. Len(o) : Line(t, k) = Line(s, k) /\ Len(Line(s, k)) \in Nat
    <3>1. \A k \in 1 .. Len(o) : o[k] \in Seq(Bytes) /\ Len(o[k]) \in Nat
      BY <1>3
    <3>2. \A k \in 1 .. Len(o) : Line(t, k) = o[k]
      BY <1>4, <2>1
    <3>3. \A k \in 1 .. Len(o) : Line(s, k) = o[k]
      BY <1>3
    <3>. QED BY <3>1, <3>2, <3>3
  <2>5. Line(t, Len(o) + 1) = r2 /\ Line(s, Len(o) + 1) = r
    BY <1>3, <1>4, <2>1
  <2>6. Len(r2) >= Len(r)
    BY <2>2
  <2>7. \A k \in 1 .. Len(o) : Len(Line(t, k)) >= Len(Line(s, k))
    BY <2>4
  <2>8. \A k \in 1 .. Len(o) + 1 : Len(Line(t, k)) >= Len(Line(s, k))
    BY <2>3, <2>5, <2>6, <2>7
  <2>. QED BY <1>6, <2>1, <2>4, <2>8
<1>. QED BY <1>5, <1>6

\* Of the complete lines it stays as it was which are fatal.
LEMMA FatalMore ==
  ASSUME NEW s \in Seq(Bytes), NEW byte \in Bytes, NEW k \in 1 .. Len(Split(s).lines)
  PROVE  Fatal(Append(s, byte), k) <=> Fatal(s, k)
<1>1. Line(Append(s, byte), k) = Line(s, k) /\ k \in 1 .. Len(Split(Append(s, byte)).lines)
  BY LinesMore
<1>2. k <= Len(Split(s).lines) /\ k <= Len(Split(Append(s, byte)).lines)
  BY <1>1
<1>. QED BY <1>1, <1>2 DEF Fatal

\* Line k is the first fatal one.
First(s, k) == Fatal(s, k) /\ \A n \in 1 .. k - 1 : ~Fatal(s, n)

\* q is the loop of #onData when it has passed s.
Through(q, s) ==
    IF q.closed
    THEN \E k \in 1 .. Len(Split(s).lines) :
           /\ First(s, k) /\ q.buffer = <<>>
           /\ q.lines = Messages(SubSeq(Split(s).lines, 1, k - 1))
    ELSE /\ \A k \in 1 .. Len(Split(s).lines) : ~Fatal(s, k)
         /\ q.lines = Messages(Split(s).lines)
         /\ q.buffer \o q.part = Split(s).rest

Loop(b, l, c, p) == [buffer |-> b, lines |-> l, closed |-> c, part |-> p]

\* What setting fields of the loop's state makes of it.
LEMMA FieldsSet ==
  ASSUME NEW q \in Passed, NEW x \in Seq(Bytes), NEW y \in Seq(Seq(Bytes))
  PROVE  /\ [q EXCEPT !.buffer = x] = Loop(x, q.lines, q.closed, q.part)
         /\ [q EXCEPT !.lines = y] = Loop(q.buffer, y, q.closed, q.part)
         /\ [q EXCEPT !.part = x] = Loop(q.buffer, q.lines, q.closed, x)
         /\ [q EXCEPT !.closed = TRUE, !.buffer = x] = Loop(x, q.lines, TRUE, q.part)
<1> DEFINE A == Seq(Bytes)
           B == Seq(Seq(Bytes))
<1>0. x \in A /\ y \in B /\ q \in [buffer : A, lines : B, closed : BOOLEAN, part : A]
  BY DEF Passed
<1> HIDE DEF A, B
<1>1. [q EXCEPT !.buffer = x] = Loop(x, q.lines, q.closed, q.part)
  BY <1>0 DEF Loop
<1>2. [q EXCEPT !.lines = y] = Loop(q.buffer, y, q.closed, q.part)
  BY <1>0 DEF Loop
<1>3. [q EXCEPT !.part = x] = Loop(q.buffer, q.lines, q.closed, x)
  BY <1>0 DEF Loop
<1>4. [q EXCEPT !.closed = TRUE, !.buffer = x] = Loop(x, q.lines, TRUE, q.part)
  <2> DEFINE yes == TRUE
             C == BOOLEAN
             c == [q EXCEPT !.closed = yes]
             d == [q EXCEPT !.closed = yes, !.buffer = x]
  <2>0. yes \in C /\ q \in [buffer : A, lines : B, closed : C, part : A]
    BY <1>0
  <2> HIDE DEF yes, C
  <2>1. c = Loop(q.buffer, q.lines, yes, q.part)
    BY <2>0 DEF Loop
  <2>2. d = [c EXCEPT !.buffer = x]
    OBVIOUS
  <2> HIDE DEF c, d
  <2>3. [c EXCEPT !.buffer = x] = Loop(x, q.lines, yes, q.part)
    BY <2>1 DEF Loop
  <2>4. d = Loop(x, q.lines, yes, q.part)
    BY <2>2, <2>3
  <2>. QED BY <2>4 DEF d, yes
<1>. QED BY <1>1, <1>2, <1>3, <1>4

\* What a turn of the loop makes of the line so far.
LEMMA PassesIs ==
  ASSUME NEW q \in Passed, NEW byte \in Bytes
  PROVE  LET line == q.buffer \o q.part
             n == Passes(q, byte)
         IN /\ q.closed => n = q
            /\ ~q.closed /\ byte # "lf"
                 => n = Loop(q.buffer, q.lines, FALSE, Append(q.part, byte))
            /\ ~q.closed /\ byte = "lf" /\ Len(line) > MaxLine
                 => n = Loop(<<>>, q.lines, TRUE, q.part)
            /\ ~q.closed /\ byte = "lf" /\ ~(Len(line) > MaxLine) /\ "bad" \in ToSet(line)
                 => n = Loop(<<>>, q.lines, TRUE, <<>>)
            /\ ~q.closed /\ byte = "lf" /\ ~(Len(line) > MaxLine) /\ "bad" \notin ToSet(line)
                 => n = Loop(<<>>, WithMessage(q.lines, line), FALSE, <<>>)
<1> DEFINE line == q.buffer \o q.part
           n == Passes(q, byte)
<1>1. q.buffer \in Seq(Bytes) /\ q.part \in Seq(Bytes) /\ q.lines \in Seq(Seq(Bytes)) /\ q.closed \in BOOLEAN
  BY DEF Passed
<1>2. /\ line \in Seq(Bytes) /\ Append(q.part, byte) \in Seq(Bytes) /\ <<>> \in Seq(Bytes)
      /\ Len(q.buffer) + Len(q.part) = Len(line)
  BY <1>1
<1> HIDE DEF line
<1>3. q = Loop(q.buffer, q.lines, q.closed, q.part)
  BY DEF Passed, Loop
<1>5. q.closed => n = q
  BY DEF Passes
<1>6. ASSUME ~q.closed, byte # "lf" PROVE n = Loop(q.buffer, q.lines, FALSE, Append(q.part, byte))
  <2>1. n = [q EXCEPT !.part = Append(q.part, byte)]
    BY <1>6 DEF Passes
  <2>2. q.closed = FALSE
    BY <1>1, <1>6
  <2> HIDE DEF n
  <2>3. n = Loop(q.buffer, q.lines, q.closed, Append(q.part, byte))
    BY <1>1, <1>2, FieldsSet, <2>1
  <2>. QED BY <2>2, <2>3
<1>7. ASSUME ~q.closed, byte = "lf", Len(line) > MaxLine
      PROVE  n = Loop(<<>>, q.lines, TRUE, q.part)
  <2> DEFINE a == Appended(q, q.part)
  <2>1. a = [q EXCEPT !.closed = TRUE, !.buffer = <<>>]
    BY <1>2, <1>7 DEF Appended, Failed
  <2> HIDE DEF a
  <2>2. a = Loop(<<>>, q.lines, TRUE, q.part)
    <3> DEFINE none == <<>>
    <3>1. none \in Seq(Bytes) /\ a = [q EXCEPT !.closed = TRUE, !.buffer = none]
      BY <2>1
    <3> HIDE DEF none
    <3>2. a = Loop(none, q.lines, TRUE, q.part)
      BY <1>1, FieldsSet, <3>1
    <3>. QED BY <3>2 DEF none
  <2>3. a.closed
    BY <2>2 DEF Loop
  <2>. QED BY <1>7, <2>2, <2>3 DEF Passes, a
<1>8. ASSUME ~q.closed, byte = "lf", ~(Len(line) > MaxLine)
      PROVE  /\ "bad" \in ToSet(line) => n = Loop(<<>>, q.lines, TRUE, <<>>)
             /\ "bad" \notin ToSet(line) => n = Loop(<<>>, WithMessage(q.lines, line), FALSE, <<>>)
  <2> DEFINE none == <<>>
             a == Appended(q, q.part)
             b == [a EXCEPT !.part = none]
             c == [b EXCEPT !.buffer = none]
             m == Trimmed(line)
  <2>0. q.closed = FALSE /\ none \in Seq(Bytes)
    BY <1>1, <1>8
  <2>1. a = [q EXCEPT !.buffer = line]
    BY <1>2, <1>8 DEF Appended, line
  <2>2. n = IF a.closed THEN a ELSE OnLine(b)
    BY <1>8 DEF Passes
  <2> HIDE DEF a, none, m
  <2>3. a = Loop(line, q.lines, FALSE, q.part)
    <3>1. a = Loop(line, q.lines, q.closed, q.part)
      BY <1>1, <1>2, FieldsSet, <2>1
    <3>. QED BY <2>0, <3>1
  <2>4. a \in Passed /\ ~a.closed
    BY <1>1, <1>2, <2>3 DEF Passed, Loop
  <2>5. b = Loop(line, q.lines, FALSE, none)
    <3>1. b = Loop(a.buffer, a.lines, a.closed, none)
      BY <1>1, FieldsSet, <2>0, <2>4
    <3>. QED BY <2>3, <3>1 DEF Loop
  <2>6. n = OnLine(b)
    BY <2>2, <2>4
  <2>7. b \in Passed
    BY <1>1, <1>2, <2>0, <2>5 DEF Passed, Loop
  <2> HIDE DEF b
  <2>8. c = Loop(none, q.lines, FALSE, none)
    <3>1. c = Loop(none, b.lines, b.closed, b.part)
      BY <1>1, FieldsSet, <2>0, <2>7
    <3>. QED BY <2>5, <3>1 DEF Loop
  <2>9. c \in Passed
    BY <1>1, <2>0, <2>8 DEF Passed, Loop
  <2>10. /\ m = none => n = c
         /\ m # none /\ "bad" \in ToSet(m) => n = Failed(c)
         /\ m # none /\ "bad" \notin ToSet(m) => n = [c EXCEPT !.lines = Append(q.lines, m)]
    <3>1. b.buffer = line /\ b.lines = q.lines
      BY <2>5 DEF Loop
    <3>. QED BY <2>6, <3>1 DEF OnLine, none, m
  <2> HIDE DEF c
  <2>11. m \in Seq(Bytes) /\ ("bad" \in ToSet(m) <=> "bad" \in ToSet(line))
    BY <1>2, TrimmedIs DEF m
  <2>12. Failed(c) = Loop(none, q.lines, TRUE, none)
    <3>1. Failed(c) = [c EXCEPT !.closed = TRUE, !.buffer = none]
      BY DEF Failed, none
    <3>2. Failed(c) = Loop(none, c.lines, TRUE, c.part)
      BY <1>1, FieldsSet, <2>0, <2>9, <3>1
    <3>. QED BY <2>8, <3>2 DEF Loop
  <2>13. [c EXCEPT !.lines = Append(q.lines, m)] = Loop(none, Append(q.lines, m), FALSE, none)
    <3>1. Append(q.lines, m) \in Seq(Seq(Bytes))
      BY <1>1, <2>11
    <3>2. [c EXCEPT !.lines = Append(q.lines, m)] = Loop(c.buffer, Append(q.lines, m), c.closed, c.part)
      BY FieldsSet, <1>2, <2>9, <3>1
    <3>. QED BY <2>8, <3>2 DEF Loop
  <2>14. m = none => "bad" \notin ToSet(m)
    BY DEF ToSet, none
  <2>15. WithMessage(q.lines, line) = IF m = none THEN q.lines ELSE Append(q.lines, m)
    BY DEF WithMessage, m, none
  <2>. QED BY <2>8, <2>10, <2>11, <2>12, <2>13, <2>14, <2>15 DEF none
<1>. QED BY <1>5, <1>6, <1>7, <1>8 DEF line

\* A turn of the loop keeps the types.
LEMMA PassesIn ==
  ASSUME NEW q \in Passed, NEW byte \in Bytes PROVE Passes(q, byte) \in Passed
<1> DEFINE n == Passes(q, byte)
           line == q.buffer \o q.part
<1>1. q.buffer \in Seq(Bytes) /\ q.part \in Seq(Bytes) /\ q.lines \in Seq(Seq(Bytes))
  BY DEF Passed
<1>2. /\ line \in Seq(Bytes) /\ Append(q.part, byte) \in Seq(Bytes) /\ <<>> \in Seq(Bytes)
  BY <1>1
<1>3. WithMessage(q.lines, line) \in Seq(Seq(Bytes))
  BY <1>1, <1>2, WithMessageIn DEF Lines
<1>4. n = q \/ \E b \in Seq(Bytes), l \in Seq(Seq(Bytes)), c \in BOOLEAN, p \in Seq(Bytes) :
                  n = Loop(b, l, c, p)
  <2>1. n = q \/ (~q.closed /\ byte # "lf") \/ (~q.closed /\ byte = "lf")
    BY PassesIs
  <2> HIDE DEF line, n
  <2>. QED BY <1>1, <1>2, <1>3, <2>1, PassesIs DEF line, n
<1>. QED BY <1>4 DEF Passed, Loop

\* Concatenation and an element more.
LEMMA ConcatAppend ==
  ASSUME NEW A, NEW s \in Seq(A), NEW c \in Seq(A), NEW e \in A
  PROVE  s \o Append(c, e) = Append(s \o c, e)
OBVIOUS

\* A turn of the loop goes on through the bytes.
LEMMA ThroughMore ==
  ASSUME NEW q \in Passed, NEW s \in Seq(Bytes), NEW byte \in Bytes, Through(q, s)
  PROVE  Through(Passes(q, byte), Append(s, byte))
<1> DEFINE t == Append(s, byte)
           n == Passes(q, byte)
           o == Split(s).lines
           r == Split(s).rest
           line == q.buffer \o q.part
<1>1. /\ t \in Seq(Bytes) /\ o \in Seq(Seq(Bytes)) /\ r \in Seq(Bytes) /\ Len(o) \in Nat
      /\ Split(t).lines = (IF byte = "lf" THEN Append(o, r) ELSE o)
      /\ Split(t).rest = (IF byte = "lf" THEN <<>> ELSE Append(r, byte))
      /\ \A k \in 1 .. Len(o) : k \in 1 .. Len(Split(t).lines)
      /\ byte = "lf" => Line(t, Len(o) + 1) = r /\ Len(Split(t).lines) = Len(o) + 1
      /\ \A k \in 1 .. Len(o) + 1 : SubSeq(Split(t).lines, 1, k - 1) = SubSeq(o, 1, k - 1)
  BY LinesMore, LinesAre
<1>2. \A k \in 1 .. Len(o) : Fatal(t, k) <=> Fatal(s, k)
  BY FatalMore
<1>3. q.buffer \in Seq(Bytes) /\ q.part \in Seq(Bytes) /\ q.lines \in Seq(Seq(Bytes)) /\ q.closed \in BOOLEAN
  BY DEF Passed
<1> HIDE DEF t, n, o, r
<1>4. CASE q.closed
  <2>1. n = q
    BY <1>4, PassesIs DEF n
  <2>2. PICK k \in 1 .. Len(o) : /\ First(s, k) /\ q.buffer = <<>>
                                 /\ q.lines = Messages(SubSeq(o, 1, k - 1))
    BY <1>4 DEF Through, o
  <2>3. \A j \in 1 .. k - 1 : j \in 1 .. Len(o)
    BY <1>1
  <2>4. First(t, k)
    BY <1>2, <2>2, <2>3 DEF First
  <2>5. k \in 1 .. Len(o) + 1
    BY <1>1
  <2>6. k \in 1 .. Len(Split(t).lines) /\ SubSeq(Split(t).lines, 1, k - 1) = SubSeq(o, 1, k - 1)
    BY <1>1, <2>5
  <2>7. Through(n, t)
    BY <1>4, <2>1, <2>2, <2>4, <2>6 DEF Through
  <2>. QED BY <2>7 DEF n, t
<1>5. ASSUME ~q.closed
      PROVE  /\ \A k \in 1 .. Len(o) : ~Fatal(t, k)
             /\ q.lines = Messages(o) /\ line = r
  BY <1>2, <1>5 DEF Through, o, r
<1>6. CASE ~q.closed /\ byte # "lf"
  <2>1. n = Loop(q.buffer, q.lines, FALSE, Append(q.part, byte))
    BY <1>6, PassesIs DEF n
  <2>2. ~n.closed /\ n.lines = q.lines /\ n.buffer = q.buffer /\ n.part = Append(q.part, byte)
    BY <2>1 DEF Loop
  <2>3. q.buffer \o Append(q.part, byte) = Append(line, byte)
    <3> DEFINE b == q.buffer
               c == q.part
    <3>1. b \in Seq(Bytes) /\ c \in Seq(Bytes)
      BY <1>3
    <3> HIDE DEF b, c
    <3>2. b \o Append(c, byte) = Append(b \o c, byte)
      BY <3>1, ConcatAppend
    <3>. QED BY <3>2 DEF b, c
  <2>4. Split(t).lines = o /\ Split(t).rest = Append(r, byte)
    BY <1>1, <1>6
  <2>5. Through(n, t)
    BY <1>5, <1>6, <2>2, <2>3, <2>4 DEF Through
  <2>. QED BY <2>5 DEF n, t
<1>7. CASE ~q.closed /\ byte = "lf"
  <2> DEFINE N == Len(o) + 1
  <2>1. /\ Split(t).lines = Append(o, r) /\ Split(t).rest = <<>> /\ Line(t, N) = r
        /\ Len(Split(t).lines) = N /\ N \in 1 .. N
        /\ \A k \in 1 .. N : k \in 1 .. Len(o) \/ k = N
        /\ SubSeq(Split(t).lines, 1, N - 1) = o
    <3>1. SubSeq(o, 1, Len(o)) = o /\ N - 1 = Len(o) /\ N \in 1 .. N
      BY <1>1
    <3>2. \A k \in 1 .. N : k \in 1 .. Len(o) \/ k = N
      BY <1>1
    <3>3. SubSeq(Split(t).lines, 1, N - 1) = SubSeq(o, 1, N - 1)
      BY <1>1, <3>1
    <3>. QED BY <1>1, <1>7, <3>1, <3>2, <3>3
  <2>2. Fatal(t, N) <=> Len(r) > MaxLine \/ "bad" \in ToSet(r)
    <3>1. N <= Len(Split(t).lines)
      BY <1>1, <2>1
    <3> HIDE DEF N
    <3>. QED BY <2>1, <3>1 DEF Fatal
  <2>3. \A k \in 1 .. N - 1 : ~Fatal(t, k)
    <3>1. N - 1 = Len(o)
      BY <1>1
    <3>. QED BY <1>5, <1>7, <3>1
  <2>4. line = r /\ q.lines = Messages(o)
    BY <1>5, <1>7
  <2> HIDE DEF N, line
  <2>5. ASSUME Len(r) > MaxLine \/ "bad" \in ToSet(r) PROVE Through(n, t)
    <3>1. n.closed /\ n.lines = q.lines /\ n.buffer = <<>>
      <4>1. \E p : n = Loop(<<>>, q.lines, TRUE, p)
        BY <1>7, <2>4, <2>5, PassesIs DEF n, line
      <4>. QED BY <4>1 DEF Loop
    <3>2. First(t, N)
      BY <2>2, <2>3, <2>5 DEF First
    <3>3. N \in 1 .. Len(Split(t).lines) /\ n.lines = Messages(SubSeq(Split(t).lines, 1, N - 1))
      BY <2>1, <2>4, <3>1
    <3>. QED BY <3>1, <3>2, <3>3 DEF Through
  <2>6. ASSUME ~(Len(r) > MaxLine), "bad" \notin ToSet(r) PROVE Through(n, t)
    <3>1. n = Loop(<<>>, WithMessage(q.lines, r), FALSE, <<>>)
      BY <1>7, <2>4, <2>6, PassesIs DEF n, line
    <3>2. ~n.closed /\ n.lines = WithMessage(q.lines, r) /\ n.buffer = <<>> /\ n.part = <<>>
      BY <3>1 DEF Loop
    <3>3. n.buffer \o n.part = <<>>
      BY <3>2
    <3>4. n.lines = Messages(Append(o, r))
      BY <1>1, <2>4, <3>2, MessagesIs
    <3>5. \A k \in 1 .. Len(Split(t).lines) : ~Fatal(t, k)
      BY <1>5, <1>7, <2>1, <2>2, <2>6
    <3>. QED BY <2>1, <3>2, <3>3, <3>4, <3>5 DEF Through
  <2>7. Through(n, t)
    BY <2>5, <2>6
  <2>. QED BY <2>7 DEF n, t
<1>. QED BY <1>4, <1>6, <1>7

\* The loop of #onData is a fold of Passes over the chunk, from any state.
LEMMA ParsedLinesRuns ==
  ASSUME NEW p \in Passed
  PROVE  \E F :
         /\ F = [w \in Passed \X Bytes |-> Passes(w[1], w[2])]
         /\ \A chunk \in Seq(Bytes) : Runs(Passed, F, p, chunk, ParsedLines(p, chunk))
<1> DEFINE F == [w \in Passed \X Bytes |-> Passes(w[1], w[2])]
<1>1. F \in [Passed \X Bytes -> Passed] /\ p \in Passed
  BY PassesIn 
<1>2. ASSUME NEW chunk \in Seq(Bytes) PROVE Runs(Passed, F, p, chunk, ParsedLines(p, chunk))
  <2> DEFINE Of(it) == [x \in SUBSET DOMAIN chunk |->
                          IF x = {} THEN p ELSE Passes(it[x \ {Max(x)}], chunk[Max(x)])]
             it == CHOOSE x : x = Of(x)
  <2>1. ParsedLines(p, chunk) = it[DOMAIN chunk]
    BY DEF ParsedLines, FoldLeft, MapThenFoldSet
  <2>2. ASSUME NEW x \in SUBSET DOMAIN chunk, x # {}, NEW t \in Passed
        PROVE  F[<<t, chunk[Max(x)]>>] = Passes(t, chunk[Max(x)])
    <3>1. Max(x) \in DOMAIN chunk
      BY <2>2, MaxAt
    <3>. QED BY <3>1
  <2> HIDE DEF F
  <2>3. PICK h : Solves(h, Passed, F, p, chunk)
    BY <1>1, SetsExist
  <2>4. h = Of(h)
    BY <2>2, <2>3 DEF Solves
  <2>5. it = Of(it)
    BY <2>4
  <2> HIDE DEF it
  <2>6. Sets(it, Passed, F, p, chunk)
    BY <2>2, <2>5 DEF Sets
  <2>7. Runs(Passed, F, p, chunk, it[DOMAIN chunk])
    BY <1>1, <2>6, RunsSets
  <2>. QED BY <2>1, <2>7
<1>. QED BY <1>2

\* What the loop does, byte by byte.
LEMMA ParsedLinesIs ==
  ASSUME NEW p \in Passed
  PROVE
  /\ ParsedLines(p, <<>>) = p
  /\ \A chunk \in Seq(Bytes) :
       /\ ParsedLines(p, chunk) \in Passed
       /\ \A byte \in Bytes : ParsedLines(p, Append(chunk, byte)) = Passes(ParsedLines(p, chunk), byte)
<1>1. PICK F : /\ F = [w \in Passed \X Bytes |-> Passes(w[1], w[2])]
               /\ \A chunk \in Seq(Bytes) : Runs(Passed, F, p, chunk, ParsedLines(p, chunk))
  BY ParsedLinesRuns
<1>2. ParsedLines(p, <<>>) = p
  <2> DEFINE chunk == <<>>
  <2>1. chunk \in Seq(Bytes) /\ Len(chunk) = 0
    OBVIOUS
  <2> HIDE DEF chunk
  <2>2. ParsedLines(p, chunk) = p
    BY <1>1, <2>1, RunsNone
  <2>. QED BY <2>2 DEF chunk
<1>3. ASSUME NEW chunk \in Seq(Bytes) PROVE ParsedLines(p, chunk) \in Passed
  BY <1>1, RunsIn
<1>4. ASSUME NEW chunk \in Seq(Bytes), NEW byte \in Bytes
      PROVE  ParsedLines(p, Append(chunk, byte)) = Passes(ParsedLines(p, chunk), byte)
  <2>1. Append(chunk, byte) \in Seq(Bytes)
    OBVIOUS
  <2>2. /\ Runs(Passed, F, p, chunk, ParsedLines(p, chunk))
        /\ Runs(Passed, F, p, Append(chunk, byte), ParsedLines(p, Append(chunk, byte)))
    BY <1>1, <2>1
  <2>3. ParsedLines(p, chunk) \in Passed /\ ParsedLines(p, Append(chunk, byte)) = F[<<ParsedLines(p, chunk), byte>>]
    BY <2>2, RunsMore
  <2>. QED BY <1>1, <2>3
<1>. QED BY <1>2, <1>3, <1>4

\* The loop goes through the whole chunk.
LEMMA ThroughChunk ==
  ASSUME NEW p \in Passed, NEW s \in Seq(Bytes), NEW chunk \in Seq(Bytes), Through(p, s)
  PROVE  ParsedLines(p, chunk) \in Passed /\ Through(ParsedLines(p, chunk), s \o chunk)
<1> DEFINE Fits(c) == Through(ParsedLines(p, c), s \o c)
           S == {c \in Seq(Bytes) : Fits(c)}
<1>1. <<>> \in S
  <2>1. ParsedLines(p, <<>>) = p /\ s \o <<>> = s /\ <<>> \in Seq(Bytes)
    BY ParsedLinesIs
  <2>. QED BY <2>1
<1>2. ASSUME NEW c \in Seq(Bytes), c \in S, NEW byte \in Bytes PROVE Append(c, byte) \in S
  <2>1. /\ ParsedLines(p, c) \in Passed
        /\ ParsedLines(p, Append(c, byte)) = Passes(ParsedLines(p, c), byte)
    BY ParsedLinesIs
  <2>2. /\ s \o Append(c, byte) = Append(s \o c, byte)
        /\ s \o c \in Seq(Bytes) /\ Append(c, byte) \in Seq(Bytes)
    OBVIOUS
  <2>3. Through(ParsedLines(p, c), s \o c)
    BY <1>2
  <2>4. Through(Passes(ParsedLines(p, c), byte), Append(s \o c, byte))
    BY <2>1, <2>2, <2>3, ThroughMore
  <2>. QED BY <2>1, <2>2, <2>4
<1> HIDE DEF S
<1>3. Seq(Bytes) \subseteq S
  BY <1>1, <1>2, SeqInd
<1>. QED BY <1>3, ParsedLinesIs DEF S

-----------------------------------------------------------------------------
(* CodexRpc's lines in every behaviour *)

\* The invariant of the framing: what the types of the variables are, and what
\* the messages and the unfinished line are, of everything read.
FramingInv ==
    /\ read \in Seq(Bytes) /\ buffer \in Seq(Bytes) /\ lines \in Seq(Seq(Bytes))
    /\ closed \in BOOLEAN
    /\ ChunksDoNotMatter

\* Chunks are sequences of bytes.
LEMMA ChunksAre ==
  ASSUME NEW chunk \in Chunks PROVE chunk \in Seq(Bytes)
<1>1. PICK n \in 1 .. MaxBytes : chunk \in [1 .. n -> Bytes]
  BY DEF Chunks
<1>2. MaxBytes \in Nat
  BY LimitsAssumption
<1>3. n \in Nat
  BY <1>2
<1>. QED BY <1>1, <1>3

\* The invariant of the framing holds at first.
LEMMA FramingStarts == FramingInit => FramingInv
<1> SUFFICES ASSUME FramingInit PROVE FramingInv
  OBVIOUS
<1>1. /\ read = <<>> /\ buffer = <<>> /\ lines = <<>> /\ closed = FALSE
      /\ read \in Seq(Bytes)
  BY DEF FramingInit
<1>2. Split(read).lines = <<>> /\ Split(read).rest = <<>>
  BY <1>1, SplitIs DEF NoLines
<1>3. Messages(Split(read).lines) = <<>>
  BY <1>2, MessagesIs
<1>4. \A k \in 1 .. Len(Split(read).lines) + 1 : ~Fatal(read, k)
  <2>0. Len(Split(read).lines) = 0 /\ 0 + 1 = 1 /\ Len(<<>>) = 0
    BY <1>2
  <2>1. Len(Split(read).lines) = 0 /\ Line(read, 1) = <<>> /\ Len(<<>>) = 0
    <3>1. read \in Seq(Bytes)
      BY <1>1
    <3>2. Line(read, Len(Split(read).lines) + 1) = Split(read).rest
      BY <3>1, LinesAre
    <3>. QED BY <1>2, <2>0, <3>2
  <2>2. ~Fatal(read, 1)
    BY <2>1, LimitsAssumption DEF Fatal
  <2>3. 1 .. 0 + 1 = {1}
    OBVIOUS
  <2>. QED BY <2>1, <2>2, <2>3
<1>5. ChunksDoNotMatter
  BY <1>1, <1>2, <1>3, <1>4 DEF ChunksDoNotMatter
<1>6. buffer \in Seq(Bytes) /\ lines \in Seq(Seq(Bytes))
  BY <1>1
<1>7. closed \in BOOLEAN
  BY <1>1
<1>. QED BY <1>1, <1>5, <1>6, <1>7 DEF FramingInv

\* #onData keeps it: the chunk is passed byte by byte, and what follows its last
\* newline is added to the buffer.
LEMMA OnDataKeeps ==
  ASSUME FramingInv, NEW chunk \in Chunks, OnData(chunk)
  PROVE  FramingInv'
<1> DEFINE p == [buffer |-> buffer, lines |-> lines, closed |-> closed, part |-> <<>>]
           last == ParsedLines(p, chunk)
           s == read \o chunk
           o == Split(s).lines
           r == Split(s).rest
<1>1. chunk \in Seq(Bytes)
  BY ChunksAre
<1>2. p \in Passed
  BY DEF FramingInv, Passed
<1>3. Through(p, read)
  <2>1. ~p.closed /\ p.lines = lines /\ p.buffer = buffer /\ p.part = <<>> /\ ~closed
    BY DEF OnData
  <2>2. /\ {k \in 1 .. Len(Split(read).lines) + 1 : Fatal(read, k)} = {}
        /\ lines = Messages(Split(read).lines) /\ buffer = Split(read).rest
    BY <2>1 DEF FramingInv, ChunksDoNotMatter
  <2>3. Len(Split(read).lines) \in Nat
    BY LinesAre DEF FramingInv
  <2>4. \A k \in 1 .. Len(Split(read).lines) : ~Fatal(read, k)
    BY <2>2, <2>3
  <2>5. buffer \o <<>> = buffer
    BY DEF FramingInv
  <2> HIDE DEF p
  <2>. QED BY <2>1, <2>2, <2>4, <2>5 DEF Through
<1>4. last \in Passed /\ Through(last, s) /\ s \in Seq(Bytes)
  BY <1>1, <1>2, <1>3, ThroughChunk DEF FramingInv
<1>5. /\ buffer' = (Parsed(p, chunk)).buffer /\ lines' = (Parsed(p, chunk)).lines
      /\ closed' = (Parsed(p, chunk)).closed /\ read' = s
  BY DEF OnData
<1> HIDE DEF p
<1>6. Parsed(p, chunk) = IF last.closed THEN last ELSE Appended(last, last.part)
  BY DEF Parsed
<1> HIDE DEF last, s
<1>7. /\ last.buffer \in Seq(Bytes) /\ last.part \in Seq(Bytes) /\ last.lines \in Seq(Seq(Bytes))
      /\ last.closed \in BOOLEAN
  BY <1>4 DEF Passed
<1>8. /\ o \in Seq(Seq(Bytes)) /\ r \in Seq(Bytes) /\ Len(o) \in Nat
      /\ Line(s, Len(o) + 1) = r
  BY <1>4, LinesAre
<1> HIDE DEF o, r
<1>9. Fatal(s, Len(o) + 1) <=> Len(r) > MaxLine
  <2>1. ~(Len(o) + 1 <= Len(o))
    BY <1>8
  <2>. QED BY <1>8, <2>1 DEF Fatal, o
<1> DEFINE Whole(b, l, c) == IF c
             THEN \E k \in {k \in 1 .. Len(o) + 1 : Fatal(s, k)} :
                    /\ \A n \in {n \in 1 .. Len(o) + 1 : Fatal(s, n)} : k <= n
                    /\ l = Messages(SubSeq(o, 1, k - 1))
                    /\ b = <<>>
             ELSE /\ {k \in 1 .. Len(o) + 1 : Fatal(s, k)} = {}
                  /\ l = Messages(o) /\ b = r
<1>10. Whole(buffer', lines', closed') => ChunksDoNotMatter'
  BY <1>5 DEF ChunksDoNotMatter, o, r
<1>11. CASE last.closed
  <2>1. buffer' = last.buffer /\ lines' = last.lines /\ closed' = TRUE
    BY <1>5, <1>6, <1>7, <1>11
  <2>2. PICK k \in 1 .. Len(o) : /\ First(s, k) /\ last.buffer = <<>>
                                 /\ last.lines = Messages(SubSeq(o, 1, k - 1))
    BY <1>4, <1>11 DEF Through, o
  <2>3. k \in {j \in 1 .. Len(o) + 1 : Fatal(s, j)}
    BY <1>8, <2>2 DEF First
  <2>4. ASSUME NEW n \in {j \in 1 .. Len(o) + 1 : Fatal(s, j)} PROVE k <= n
    <3>1. n \notin 1 .. k - 1 /\ n \in 1 .. Len(o) + 1
      BY <2>2 DEF First
    <3>. QED BY <1>8, <3>1
  <2>5. Whole(buffer', lines', closed')
    BY <2>1, <2>2, <2>3, <2>4
  <2> HIDE DEF Whole
  <2>. QED BY <1>4, <1>5, <1>7, <1>10, <2>1, <2>5 DEF FramingInv
<1>12. CASE ~last.closed
  <2> DEFINE N == Len(o) + 1
             line == last.buffer \o last.part
  <2>1. /\ \A k \in 1 .. Len(o) : ~Fatal(s, k)
        /\ last.lines = Messages(o) /\ line = r
    BY <1>4, <1>12 DEF Through, o, r
  <2>2. Len(last.buffer) + Len(last.part) = Len(r)
    <3>1. Len(line) = Len(last.buffer) + Len(last.part)
      BY <1>7
    <3>. QED BY <2>1, <3>1
  <2>3. /\ N \in 1 .. N /\ N - 1 = Len(o) /\ SubSeq(o, 1, N - 1) = o
        /\ \A k \in 1 .. N : k \in 1 .. Len(o) \/ k = N
    <3>1. N - 1 = Len(o) /\ SubSeq(o, 1, Len(o)) = o
      BY <1>8
    <3>. QED BY <1>8, <3>1
  <2>4. CASE Len(r) > MaxLine
    <3>1. Parsed(p, chunk) = [last EXCEPT !.closed = TRUE, !.buffer = <<>>]
      BY <1>6, <1>12, <2>2, <2>4 DEF Appended, Failed
    <3>2. buffer' = <<>> /\ lines' = last.lines /\ closed' = TRUE
      BY <1>4, <1>5, <3>1 DEF Passed
    <3>3. N \in {k \in 1 .. Len(o) + 1 : Fatal(s, k)}
      BY <1>9, <2>3, <2>4
    <3>4. \A n \in {k \in 1 .. Len(o) + 1 : Fatal(s, k)} : n = N
      BY <2>1, <2>3
    <3>5. N <= N
      BY <1>8
    <3>6. lines' = Messages(SubSeq(o, 1, N - 1))
      BY <2>1, <2>3, <3>2
    <3> HIDE DEF N
    <3>7. Whole(buffer', lines', closed')
      BY <3>2, <3>3, <3>4, <3>5, <3>6
    <3> HIDE DEF Whole
    <3>8. read' \in Seq(Bytes) /\ lines' \in Seq(Seq(Bytes))
      BY <1>4, <1>5, <1>7, <3>2
    <3>9. buffer' \in Seq(Bytes)
      BY <3>2
    <3>10. closed' \in BOOLEAN
      BY <3>2
    <3>. QED BY <1>10, <3>7, <3>8, <3>9, <3>10 DEF FramingInv
  <2>5. CASE ~(Len(r) > MaxLine)
    <3>1. Parsed(p, chunk) = [last EXCEPT !.buffer = line]
      BY <1>6, <1>12, <2>2, <2>5 DEF Appended
    <3>2. buffer' = r /\ lines' = last.lines /\ closed' = FALSE
      <4>1. last.closed = FALSE
        BY <1>7, <1>12
      <4>. QED BY <1>4, <1>5, <2>1, <3>1, <4>1 DEF Passed
    <3>3. {k \in 1 .. Len(o) + 1 : Fatal(s, k)} = {}
      BY <1>9, <2>1, <2>3, <2>5
    <3>4. Whole(buffer', lines', closed')
      BY <2>1, <3>2, <3>3
    <3> HIDE DEF Whole
    <3>. QED BY <1>4, <1>5, <1>7, <1>8, <1>10, <3>2, <3>4 DEF FramingInv
  <2>. QED BY <2>4, <2>5
<1>. QED BY <1>11, <1>12

-----------------------------------------------------------------------------
(* The image server's lines *)

Reply == Seq(Bytes \cup {"too long", "parse error"})
Replies == Seq(Reply)

\* A sequence of one element.
LEMMA OneIn ==
  ASSUME NEW A, NEW a \in A PROVE <<a>> \in Seq(A)
OBVIOUS

\* The kinds of replies are replies.
LEMMA ReplyIs ==
  /\ TooLong \in Reply /\ <<"parse error">> \in Reply
  /\ \A line \in Seq(Bytes) : line \in Reply
<1> DEFINE T == Bytes \cup {"too long", "parse error"}
<1>1. "too long" \in T /\ "parse error" \in T /\ Bytes \subseteq T
  OBVIOUS
<1> HIDE DEF T
<1>2. <<"too long">> \in Seq(T)
  BY <1>1, OneIn
<1>3. <<"parse error">> \in Seq(T)
  BY <1>1, OneIn
<1>4. ASSUME NEW line \in Seq(Bytes) PROVE line \in Seq(T)
  <2>1. Len(line) \in Nat /\ line \in [1 .. Len(line) -> Bytes]
    OBVIOUS
  <2>2. line \in [1 .. Len(line) -> T]
    BY <1>1, <2>1
  <2>. QED BY <2>1, <2>2
<1>. QED BY <1>2, <1>3, <1>4 DEF Reply, T, TooLong

\* What becomes of a line is a sequence of replies, of one at most.
LEMMA OutcomeIn ==
  ASSUME NEW line \in Seq(Bytes) PROVE Outcome(line) \in Replies
<1> DEFINE m == Trimmed(line)
           e == <<"parse error">>
<1>1. m \in Reply /\ TooLong \in Reply /\ e \in Reply
  BY TrimmedIs, ReplyIs
<1>2. \/ Outcome(line) = <<>> \/ Outcome(line) = <<TooLong>>
      \/ Outcome(line) = <<e>> \/ Outcome(line) = <<m>>
  <2> DEFINE long == Len(line) > MaxLine
             invalid == Len(line) <= MaxLine /\ ("bad" \in ToSet(line) \/ Trimmed(line) = <<>>)
             none == line = <<>>
             a == <<TooLong>>
             b == <<e>>
             c == <<m>>
             d == <<>>
  <2>1. none \/ long \/ invalid \/ ~(none \/ long \/ invalid)
    OBVIOUS
  <2>2. Outcome(line) = CASE none -> d [] long -> a [] invalid -> b [] OTHER -> c
    BY DEF Outcome
  <2> HIDE DEF none, long, invalid, a, b, c, d
  <2>3. Outcome(line) = d \/ Outcome(line) = a \/ Outcome(line) = b \/ Outcome(line) = c
    BY <2>1, <2>2
  <2>. QED BY <2>3 DEF a, b, c, d
<1> HIDE DEF m, e
<1>3. <<TooLong>> \in Seq(Reply) /\ <<e>> \in Seq(Reply) /\ <<m>> \in Seq(Reply)
  BY <1>1
<1>4. <<>> \in Seq(Reply)
  OBVIOUS
<1>. QED BY <1>2, <1>3, <1>4 DEF Replies

\* Sequences put together are a sequence, and <<>> adds nothing.
LEMMA ConcatIn ==
  ASSUME NEW A, NEW x \in Seq(A), NEW y \in Seq(A)
  PROVE  x \o y \in Seq(A) /\ x \o <<>> = x
OBVIOUS

\* WithOutcome keeps the types.
LEMMA WithOutcomeIn ==
  ASSUME NEW m \in Replies, NEW line \in Seq(Bytes) PROVE WithOutcome(m, line) \in Replies
<1> DEFINE z == Outcome(line)
<1>1. m \in Seq(Reply) /\ z \in Seq(Reply)
  BY OutcomeIn DEF Replies
<1> HIDE DEF z
<1>2. m \o z \in Seq(Reply)
  BY <1>1, ConcatIn
<1>. QED BY <1>2 DEF WithOutcome, Replies, z

\* No replies are replies too.
LEMMA NoReplies == <<>> \in Replies
BY DEF Replies

\* Outcomes is a fold over lines.
LEMMA OutcomesRuns ==
  \E F : /\ F = [p \in Replies \X Seq(Bytes) |-> WithOutcome(p[1], p[2])]
         /\ \A ls \in Seq(Seq(Bytes)) : Runs(Replies, F, <<>>, ls, Outcomes(ls))
<1> DEFINE F == [p \in Replies \X Seq(Bytes) |-> WithOutcome(p[1], p[2])]
<1>1. F \in [Replies \X Seq(Bytes) -> Replies] /\ <<>> \in Replies
  BY WithOutcomeIn, NoReplies
<1>2. ASSUME NEW ls \in Seq(Seq(Bytes)) PROVE Runs(Replies, F, <<>>, ls, Outcomes(ls))
  <2> DEFINE Of(it) == [x \in SUBSET DOMAIN ls |->
                          IF x = {} THEN <<>> ELSE WithOutcome(it[x \ {Max(x)}], ls[Max(x)])]
             it == CHOOSE x : x = Of(x)
  <2>1. Outcomes(ls) = it[DOMAIN ls]
    BY DEF Outcomes, FoldLeft, MapThenFoldSet
  <2>2. ASSUME NEW x \in SUBSET DOMAIN ls, x # {}, NEW t \in Replies
        PROVE  F[<<t, ls[Max(x)]>>] = WithOutcome(t, ls[Max(x)])
    <3>1. Max(x) \in DOMAIN ls
      BY <2>2, MaxAt
    <3>. QED BY <3>1
  <2> HIDE DEF F
  <2>3. PICK h : Solves(h, Replies, F, <<>>, ls)
    BY <1>1, SetsExist
  <2>4. h = Of(h)
    BY <2>2, <2>3 DEF Solves
  <2>5. it = Of(it)
    BY <2>4
  <2> HIDE DEF it
  <2>6. Sets(it, Replies, F, <<>>, ls)
    BY <2>2, <2>5 DEF Sets
  <2>7. Runs(Replies, F, <<>>, ls, it[DOMAIN ls])
    BY <1>1, <2>6, RunsSets
  <2>. QED BY <2>1, <2>7
<1>. QED BY <1>2

\* What it does, line by line.
LEMMA OutcomesIs ==
  /\ Outcomes(<<>>) = <<>>
  /\ \A ls \in Seq(Seq(Bytes)) :
       /\ Outcomes(ls) \in Replies
       /\ \A line \in Seq(Bytes) : Outcomes(Append(ls, line)) = WithOutcome(Outcomes(ls), line)
<1>1. PICK F : /\ F = [p \in Replies \X Seq(Bytes) |-> WithOutcome(p[1], p[2])]
               /\ \A ls \in Seq(Seq(Bytes)) : Runs(Replies, F, <<>>, ls, Outcomes(ls))
  BY OutcomesRuns
<1>2. Outcomes(<<>>) = <<>>
  <2> DEFINE ls == <<>>
  <2>1. ls \in Seq(Seq(Bytes)) /\ Len(ls) = 0
    OBVIOUS
  <2> HIDE DEF ls
  <2>2. Outcomes(ls) = <<>>
    BY <1>1, <2>1, RunsNone
  <2>. QED BY <2>2 DEF ls
<1>3. ASSUME NEW ls \in Seq(Seq(Bytes)) PROVE Outcomes(ls) \in Replies
  BY <1>1, RunsIn
<1>4. ASSUME NEW ls \in Seq(Seq(Bytes)), NEW line \in Seq(Bytes)
      PROVE  Outcomes(Append(ls, line)) = WithOutcome(Outcomes(ls), line)
  <2>1. Append(ls, line) \in Seq(Seq(Bytes))
    OBVIOUS
  <2>2. /\ Runs(Replies, F, <<>>, ls, Outcomes(ls))
        /\ Runs(Replies, F, <<>>, Append(ls, line), Outcomes(Append(ls, line)))
    BY <1>1, <2>1
  <2>3. Outcomes(ls) \in Replies /\ Outcomes(Append(ls, line)) = F[<<Outcomes(ls), line>>]
    BY <2>2, RunsMore
  <2>. QED BY <1>1, <2>3
<1>. QED BY <1>2, <1>3, <1>4

\* What becomes of lines, and then of more lines.
LEMMA OutcomesJoin ==
  ASSUME NEW ls \in Seq(Seq(Bytes)), NEW ms \in Seq(Seq(Bytes))
  PROVE  Outcomes(ls \o ms) = Outcomes(ls) \o Outcomes(ms)
<1> DEFINE S == {m \in Seq(Seq(Bytes)) : Outcomes(ls \o m) = Outcomes(ls) \o Outcomes(m)}
<1>1. <<>> \in S
  <2> DEFINE r == Outcomes(ls)
  <2>1. r \in Replies /\ Outcomes(<<>>) = <<>>
    BY OutcomesIs
  <2> HIDE DEF r
  <2>2. r \o <<>> = r
    <3>1. r \in Seq(Reply)
      BY <2>1 DEF Replies
    <3>. QED BY <3>1, ConcatIn
  <2>3. ls \o <<>> = ls
    OBVIOUS
  <2>4. Outcomes(ls \o <<>>) = r \o Outcomes(<<>>)
    BY <2>1, <2>2, <2>3 DEF r
  <2>. QED BY <2>4 DEF r
<1>2. ASSUME NEW m \in Seq(Seq(Bytes)), m \in S, NEW line \in Seq(Bytes)
      PROVE  Append(m, line) \in S
  <2> DEFINE x == Outcomes(ls)
             y == Outcomes(m)
             z == Outcome(line)
  <2>1. /\ Append(m, line) \in Seq(Seq(Bytes)) /\ ls \o m \in Seq(Seq(Bytes))
        /\ ls \o Append(m, line) = Append(ls \o m, line)
    OBVIOUS
  <2>2. Outcomes(ls \o m) = x \o y
    BY <1>2
  <2>3. Outcomes(Append(ls \o m, line)) = (x \o y) \o z
    BY <2>1, <2>2, OutcomesIs DEF WithOutcome
  <2>4. Outcomes(Append(m, line)) = y \o z
    BY OutcomesIs DEF WithOutcome
  <2>5. x \in Replies /\ y \in Replies /\ z \in Replies
    BY OutcomesIs, OutcomeIn
  <2> HIDE DEF x, y, z
  <2>6. (x \o y) \o z = x \o (y \o z)
    <3>1. x \in Seq(Reply) /\ y \in Seq(Reply) /\ z \in Seq(Reply)
      BY <2>5 DEF Replies
    <3>. QED BY <3>1
  <2>7. Outcomes(ls \o Append(m, line)) = x \o Outcomes(Append(m, line))
    BY <2>1, <2>3, <2>4, <2>6
  <2>. QED BY <2>1, <2>7 DEF x
<1> HIDE DEF S
<1>3. Seq(Seq(Bytes)) \subseteq S
  BY <1>1, <1>2, SeqInd
<1>. QED BY <1>3 DEF S

\* What follows the last newline holds no newline.
LEMMA SplitRest ==
  ASSUME NEW s \in Seq(Bytes)
  PROVE  Split(Split(s).rest) = [lines |-> <<>>, rest |-> Split(s).rest]
<1> DEFINE Bare(r) == Split(r) = [lines |-> <<>>, rest |-> r]
           S == {q \in Seq(Bytes) : Bare(Split(q).rest)}
<1>1. Bare(<<>>)
  BY SplitIs DEF NoLines
<1>2. <<>> \in S
  <2>1. Split(<<>>).rest = <<>> /\ <<>> \in Seq(Bytes)
    BY SplitIs DEF NoLines
  <2> HIDE DEF Bare
  <2>. QED BY <1>1, <2>1
<1>3. ASSUME NEW q \in Seq(Bytes), q \in S, NEW byte \in Bytes PROVE Append(q, byte) \in S
  <2> DEFINE r == Split(q).rest
             t == Append(q, byte)
  <2>1. t \in Seq(Bytes) /\ r \in Seq(Bytes) /\ Split(t) = Cut(Split(q), byte) /\ Bare(r)
    BY <1>3, SplitIs DEF Cuts
  <2>2. Split(t).rest = IF byte = "lf" THEN <<>> ELSE Append(r, byte)
    BY LinesMore
  <2>3. CASE byte = "lf"
    <3>1. Split(t).rest = <<>>
      BY <2>2, <2>3
    <3> HIDE DEF Bare, t
    <3>. QED BY <1>1, <2>1, <3>1 DEF t
  <2>4. CASE byte # "lf"
    <3>1. Split(t).rest = Append(r, byte)
      BY <2>2, <2>4
    <3> HIDE DEF r
    <3>2. Split(Append(r, byte)) = Cut([lines |-> <<>>, rest |-> r], byte)
      BY <2>1, SplitIs
    <3>3. Bare(Append(r, byte))
      BY <2>4, <3>2 DEF Cut
    <3> HIDE DEF Bare, t
    <3>. QED BY <2>1, <3>1, <3>3 DEF t
  <2>. QED BY <2>3, <2>4
<1> HIDE DEF S, Bare
<1>4. Seq(Bytes) \subseteq S
  BY <1>2, <1>3, SeqInd
<1>. QED BY <1>4 DEF S, Bare

\* The lines of s and then those of what was unfinished, continued by t.
LEMMA SplitJoin ==
  ASSUME NEW s \in Seq(Bytes), NEW t \in Seq(Bytes)
  PROVE  LET more == Split(Split(s).rest \o t)
         IN /\ Split(s \o t).lines = Split(s).lines \o more.lines
            /\ Split(s \o t).rest = more.rest
<1> DEFINE o == Split(s).lines
           r == Split(s).rest
           S == {q \in Seq(Bytes) : /\ Split(s \o q).lines = o \o Split(r \o q).lines
                                    /\ Split(s \o q).rest = Split(r \o q).rest}
<1>1. o \in Seq(Seq(Bytes)) /\ r \in Seq(Bytes) /\ Split(r) = [lines |-> <<>>, rest |-> r]
  BY SplitIs, SplitRest DEF Cuts
<1>2. <<>> \in S
  <2>1. <<>> \in Seq(Bytes) /\ s \o <<>> = s
    OBVIOUS
  <2> HIDE DEF o, r
  <2>2. r \o <<>> = r /\ o \o <<>> = o
    BY <1>1
  <2>3. Split(s \o <<>>).lines = o /\ Split(s \o <<>>).rest = r
    BY <2>1 DEF o, r
  <2>4. Split(r \o <<>>).lines = <<>> /\ Split(r \o <<>>).rest = r
    BY <1>1, <2>2
  <2>. QED BY <2>1, <2>2, <2>3, <2>4
<1>3. ASSUME NEW q \in Seq(Bytes), q \in S, NEW byte \in Bytes PROVE Append(q, byte) \in S
  <2> DEFINE x == s \o q
             y == r \o q
             t2 == Append(q, byte)
  <2> HIDE DEF o, r
  <2>1. /\ x \in Seq(Bytes) /\ y \in Seq(Bytes) /\ t2 \in Seq(Bytes)
        /\ s \o t2 = Append(x, byte) /\ r \o t2 = Append(y, byte)
    <3>1. s \o t2 = Append(x, byte)
      BY ConcatAppend
    <3>2. r \in Seq(Bytes)
      BY <1>1
    <3>3. r \o t2 = Append(y, byte)
      BY <3>2, ConcatAppend
    <3>. QED BY <3>1, <3>2, <3>3
  <2>2. Split(x).lines = o \o Split(y).lines /\ Split(x).rest = Split(y).rest
    BY <1>3
  <2> HIDE DEF x, y, t2
  <2>3. /\ Split(y).lines \in Seq(Seq(Bytes)) /\ Split(y).rest \in Seq(Bytes)
    BY <2>1, SplitIs DEF Cuts
  <2>4. /\ Split(Append(x, byte)).lines = (IF byte = "lf" THEN Append(Split(x).lines, Split(x).rest) ELSE Split(x).lines)
        /\ Split(Append(x, byte)).rest = (IF byte = "lf" THEN <<>> ELSE Append(Split(x).rest, byte))
        /\ Split(Append(y, byte)).lines = (IF byte = "lf" THEN Append(Split(y).lines, Split(y).rest) ELSE Split(y).lines)
        /\ Split(Append(y, byte)).rest = (IF byte = "lf" THEN <<>> ELSE Append(Split(y).rest, byte))
    BY <2>1, LinesMore
  <2> DEFINE ly == Split(y).lines
             ry == Split(y).rest
  <2>5. ly \in Seq(Seq(Bytes)) /\ ry \in Seq(Bytes)
    BY <2>3
  <2> HIDE DEF ly, ry
  <2>6. o \o Append(ly, ry) = Append(o \o ly, ry)
    <3> DEFINE A == Seq(Bytes)
    <3>1. o \in Seq(A) /\ ly \in Seq(A) /\ ry \in A
      BY <1>1, <2>5
    <3> HIDE DEF A
    <3>. QED BY <3>1, ConcatAppend
  <2>7. Split(s \o t2).rest = Split(r \o t2).rest
    BY <2>1, <2>2, <2>4
  <2>8. Split(s \o t2).lines = o \o Split(r \o t2).lines
    BY <2>1, <2>2, <2>4, <2>6 DEF ly, ry
  <2>. QED BY <2>1, <2>7, <2>8 DEF t2
<1>4. t \in S
  <2> HIDE DEF S
  <2>1. Seq(Bytes) \subseteq S
    BY <1>2, <1>3, SeqInd
  <2>. QED BY <2>1
<1>. QED BY <1>4

\* More bytes leave a line that is too long so, and those before it as they are.
Outgrown(s, t) ==
    \A k \in 1 .. Len(Split(s).lines) + 1 :
      /\ k \in 1 .. Len(Split(t).lines) + 1
      /\ Len(Line(t, k)) >= Len(Line(s, k))
      /\ SubSeq(Split(t).lines, 1, k - 1) = SubSeq(Split(s).lines, 1, k - 1)

\* The complete lines of s stay the first lines of whatever it grows to.
LEMMA LinesKept ==
  ASSUME NEW s \in Seq(Bytes), NEW t \in Seq(Bytes)
  PROVE  Outgrown(s, s \o t)
<1> DEFINE S == {q \in Seq(Bytes) : Outgrown(s, s \o q)}
<1>0. ASSUME NEW x \in Seq(Bytes)
      PROVE  \A k \in 1 .. Len(Split(x).lines) + 1 : Len(Line(x, k)) \in Nat
  BY LinesAre
<1>1. <<>> \in S
  <2>1. <<>> \in Seq(Bytes) /\ s \o <<>> = s
    OBVIOUS
  <2>2. Outgrown(s, s)
    BY <1>0 DEF Outgrown
  <2>. QED BY <2>1, <2>2
<1>2. ASSUME NEW q \in Seq(Bytes), q \in S, NEW byte \in Bytes PROVE Append(q, byte) \in S
  <2> DEFINE x == s \o q
             t2 == Append(q, byte)
             y == Append(x, byte)
  <2>1. x \in Seq(Bytes) /\ t2 \in Seq(Bytes) /\ s \o t2 = y /\ y \in Seq(Bytes) /\ Outgrown(s, x)
    BY <1>2
  <2> HIDE DEF x
  <2>2. \A k \in 1 .. Len(Split(x).lines) + 1 :
          /\ Len(Line(y, k)) >= Len(Line(x, k)) /\ k \in 1 .. Len(Split(y).lines) + 1
          /\ SubSeq(Split(y).lines, 1, k - 1) = SubSeq(Split(x).lines, 1, k - 1)
    BY <2>1, LinesMore
  <2> HIDE DEF y, t2
  <2>3. ASSUME NEW k \in 1 .. Len(Split(s).lines) + 1
        PROVE  /\ k \in 1 .. Len(Split(y).lines) + 1
               /\ Len(Line(y, k)) >= Len(Line(s, k))
               /\ SubSeq(Split(y).lines, 1, k - 1) = SubSeq(Split(s).lines, 1, k - 1)
    <3>1. /\ k \in 1 .. Len(Split(x).lines) + 1
          /\ Len(Line(x, k)) >= Len(Line(s, k))
          /\ SubSeq(Split(x).lines, 1, k - 1) = SubSeq(Split(s).lines, 1, k - 1)
      BY <2>1 DEF Outgrown
    <3>2. /\ k \in 1 .. Len(Split(y).lines) + 1
          /\ Len(Line(y, k)) >= Len(Line(x, k))
          /\ SubSeq(Split(y).lines, 1, k - 1) = SubSeq(Split(x).lines, 1, k - 1)
      BY <2>2, <3>1
    <3>3. Len(Line(s, k)) \in Nat /\ Len(Line(x, k)) \in Nat /\ Len(Line(y, k)) \in Nat
      BY <1>0, <2>1, <3>1, <3>2
    <3>. QED BY <3>1, <3>2, <3>3
  <2>4. Outgrown(s, y)
    BY <2>3 DEF Outgrown
  <2>. QED BY <2>1, <2>4 DEF t2
<1> HIDE DEF S
<1>3. Seq(Bytes) \subseteq S
  BY <1>1, <1>2, SeqInd
<1>. QED BY <1>3 DEF S

\* The invariant of the input: the types, and what the outcomes and the
\* unfinished line are, of everything that has arrived.
InputInv ==
    /\ wire \in Seq(Bytes)
    /\ mcp \in [pending : Seq(Bytes), outcomes : Replies, destroyed : BOOLEAN]
    /\ InputLinesWhole

\* The invariant of the input holds at first.
LEMMA InputStarts == ReadersInit => InputInv
<1> SUFFICES ASSUME ReadersInit PROVE InputInv
  OBVIOUS
<1>1. /\ wire = <<>> /\ wire \in Seq(Bytes)
      /\ mcp = [pending |-> <<>>, outcomes |-> <<>>, destroyed |-> FALSE]
  BY DEF ReadersInit
<1>2. Split(wire).lines = <<>> /\ Split(wire).rest = <<>> /\ Len(<<>>) = 0
  BY <1>1, SplitIs DEF NoLines
<1>3. Outcomes(<<>>) = <<>>
  BY OutcomesIs
<1>4. InputLinesWhole
  BY <1>1, <1>2, <1>3, LimitsAssumption DEF InputLinesWhole
<1>5. mcp \in [pending : Seq(Bytes), outcomes : Replies, destroyed : BOOLEAN]
  <2>. QED BY <1>1, NoReplies
<1>. QED BY <1>1, <1>4, <1>5 DEF InputInv

\* The data listener keeps it: what was pending and the chunk have the lines that
\* the chunk adds to the input.
LEMMA InputKeeps ==
  ASSUME InputInv, NEW chunk \in Chunks, Arrives(chunk)
  PROVE  InputInv'
<1> DEFINE w == wire \o chunk
           o == Split(w).lines
           r == Split(w).rest
           Input == [pending : Seq(Bytes), outcomes : Replies, destroyed : BOOLEAN]
<1>1. chunk \in Seq(Bytes) /\ wire \in Seq(Bytes) /\ w \in Seq(Bytes) /\ mcp \in Input
  BY ChunksAre DEF InputInv
<1>2. wire' = w /\ mcp' = IF mcp.destroyed THEN mcp ELSE OnInput(mcp, chunk)
  BY DEF Arrives
<1>3. o \in Seq(Seq(Bytes)) /\ r \in Seq(Bytes) /\ Line(w, Len(o) + 1) = r /\ Len(o) \in Nat
  BY <1>1, LinesAre
<1>4. mcp.pending \in Seq(Bytes) /\ mcp.outcomes \in Replies /\ mcp.destroyed \in BOOLEAN
  BY <1>1
<1>5. TooLong \in Reply
  BY ReplyIs
<1>6. CASE mcp.destroyed
  <2>1. PICK k \in 1 .. Len(Split(wire).lines) + 1 :
           /\ Len(Line(wire, k)) > MaxLine
           /\ mcp.outcomes = Append(Outcomes(SubSeq(Split(wire).lines, 1, k - 1)), TooLong)
    BY <1>6 DEF InputInv, InputLinesWhole
  <2>2. /\ k \in 1 .. Len(o) + 1 /\ Len(Line(w, k)) >= Len(Line(wire, k))
        /\ SubSeq(o, 1, k - 1) = SubSeq(Split(wire).lines, 1, k - 1)
    BY <1>1, LinesKept DEF Outgrown
  <2>3. Len(Line(w, k)) \in Nat /\ Len(Line(wire, k)) \in Nat /\ MaxLine \in Nat
    BY <1>1, <2>2, LinesAre, LimitsAssumption
  <2> HIDE DEF w
  <2>4. Len(Line(w, k)) > MaxLine
    BY <2>1, <2>2, <2>3
  <2>5. mcp' = mcp
    BY <1>2, <1>6
  <2>6. InputLinesWhole'
    BY <1>2, <1>6, <2>1, <2>2, <2>4, <2>5 DEF InputLinesWhole
  <2>. QED BY <1>1, <1>2, <2>5, <2>6 DEF InputInv
<1>7. CASE ~mcp.destroyed
  <2> DEFINE bytes == mcp.pending \o chunk
             o0 == Split(wire).lines
             o1 == Split(bytes).lines
             q == [mcp EXCEPT !.outcomes = mcp.outcomes \o Outcomes(o1)]
  <2>1. mcp.outcomes = Outcomes(o0) /\ mcp.pending = Split(wire).rest
    BY <1>7 DEF InputInv, InputLinesWhole
  <2>2. o = o0 \o o1 /\ r = Split(bytes).rest
    BY <1>1, <2>1, SplitJoin
  <2>3. bytes \in Seq(Bytes)
    BY <1>1, <1>4
  <2>4. o0 \in Seq(Seq(Bytes)) /\ o1 \in Seq(Seq(Bytes))
    BY <1>1, <2>3, LinesAre
  <2>5. mcp' = IF Len(r) > MaxLine
               THEN [q EXCEPT !.pending = <<>>, !.destroyed = TRUE,
                              !.outcomes = Append(q.outcomes, TooLong)]
               ELSE [q EXCEPT !.pending = r]
    <3> HIDE DEF o, r
    <3>. QED BY <1>2, <1>7, <2>2 DEF OnInput, Overlong
  <2> HIDE DEF bytes, o0, o1
  <2>6. mcp.outcomes \o Outcomes(o1) = Outcomes(o)
    BY <2>1, <2>2, <2>4, OutcomesJoin
  <2> HIDE DEF o, r, w
  <2>7. Outcomes(o) \in Replies
    BY <1>3, OutcomesIs
  <2>8. q \in Input /\ q.outcomes = Outcomes(o) /\ q.pending = mcp.pending /\ q.destroyed = FALSE
    BY <1>1, <1>7, <2>6, <2>7
  <2> HIDE DEF q
  <2>9. CASE Len(r) > MaxLine
    <3> DEFINE m == Append(Outcomes(o), TooLong)
    <3>1. m \in Replies
      <4> DEFINE x == Outcomes(o)
      <4>1. x \in Seq(Reply)
        BY <2>7 DEF Replies
      <4> HIDE DEF x
      <4>2. Append(x, TooLong) \in Seq(Reply)
        BY <1>5, <4>1
      <4>. QED BY <4>2 DEF x, Replies
    <3>2. mcp' = [q EXCEPT !.pending = <<>>, !.destroyed = TRUE, !.outcomes = m]
      BY <2>5, <2>8, <2>9
    <3>3. mcp'.outcomes = m /\ mcp'.destroyed /\ mcp'.pending = <<>>
      BY <2>8, <3>2
    <3>4. mcp' = [pending |-> <<>>, outcomes |-> m, destroyed |-> TRUE]
      BY <2>8, <3>2
    <3>5. mcp' \in Input
      BY <3>1, <3>4
    <3> DEFINE N == Len(o) + 1
    <3>6. N \in 1 .. N /\ SubSeq(o, 1, N - 1) = o
      <4>1. SubSeq(o, 1, Len(o)) = o /\ N - 1 = Len(o)
        BY <1>3
      <4>. QED BY <1>3, <4>1
    <3>7. Line(w, N) = r
      BY <1>3
    <3> HIDE DEF N
    <3>8. InputLinesWhole'
      <4>1. \E k \in 1 .. N : /\ Len(Line(w, k)) > MaxLine
                              /\ mcp'.outcomes = Append(Outcomes(SubSeq(o, 1, k - 1)), TooLong)
        BY <2>9, <3>3, <3>6, <3>7
      <4>. QED BY <1>2, <3>3, <4>1 DEF InputLinesWhole, N, o
    <3>. QED BY <1>1, <1>2, <3>5, <3>8 DEF InputInv
  <2>10. CASE ~(Len(r) > MaxLine)
    <3>1. mcp' = [q EXCEPT !.pending = r]
      BY <2>5, <2>10
    <3>2. mcp' \in Input /\ mcp'.outcomes = Outcomes(o) /\ mcp'.pending = r /\ ~mcp'.destroyed
      BY <1>3, <2>8, <3>1
    <3>3. Len(r) <= MaxLine
      <4>1. Len(r) \in Nat /\ MaxLine \in Nat
        BY <1>3, LimitsAssumption
      <4>. QED BY <2>10, <4>1
    <3>4. InputLinesWhole'
      BY <1>2, <3>2, <3>3 DEF InputLinesWhole, o, r
    <3>. QED BY <1>1, <1>2, <3>2, <3>4 DEF InputInv
  <2>. QED BY <2>9, <2>10
<1>. QED BY <1>6, <1>7

-----------------------------------------------------------------------------
(* The lines of an event stream *)

SseCuts == [lines : Seq(Seq(Bytes)), rest : Seq(Bytes), cr : BOOLEAN]
NoSse == [lines |-> <<>>, rest |-> <<>>, cr |-> FALSE]

\* SseCut byte by byte, and that it keeps the types.
LEMMA SseCutIn ==
  ASSUME NEW q \in SseCuts, NEW byte \in Bytes
  PROVE  /\ SseCut(q, byte) \in SseCuts
         /\ byte = "lf" /\ q.cr => SseCut(q, byte) = [lines |-> q.lines, rest |-> q.rest, cr |-> FALSE]
         /\ byte = "lf" /\ ~q.cr
              => SseCut(q, byte) = [lines |-> Append(q.lines, q.rest), rest |-> <<>>, cr |-> FALSE]
         /\ byte = "cr"
              => SseCut(q, byte) = [lines |-> Append(q.lines, q.rest), rest |-> <<>>, cr |-> TRUE]
         /\ byte \notin LineEnds
              => SseCut(q, byte) = [lines |-> q.lines, rest |-> Append(q.rest, byte), cr |-> FALSE]
<1> DEFINE n == SseCut(q, byte)
<1>1. q.lines \in Seq(Seq(Bytes)) /\ q.rest \in Seq(Bytes) /\ q.cr \in BOOLEAN
  BY DEF SseCuts
<1>2. Append(q.lines, q.rest) \in Seq(Seq(Bytes)) /\ Append(q.rest, byte) \in Seq(Bytes)
  BY <1>1
<1>3. byte = "lf" /\ q.cr => n = [lines |-> q.lines, rest |-> q.rest, cr |-> FALSE]
  <2>1. q = [lines |-> q.lines, rest |-> q.rest, cr |-> q.cr]
    BY DEF SseCuts
  <2> SUFFICES ASSUME byte = "lf", q.cr PROVE n = [lines |-> q.lines, rest |-> q.rest, cr |-> FALSE]
    OBVIOUS
  <2> DEFINE A == Seq(Bytes)
             B == Seq(A)
             C == BOOLEAN
             no == FALSE
  <2>2. q \in [lines : B, rest : A, cr : C] /\ no \in C
    BY DEF SseCuts
  <2>3. n = [q EXCEPT !.cr = no]
    BY DEF SseCut
  <2> HIDE DEF A, B, C, no
  <2>4. [q EXCEPT !.cr = no] = [lines |-> q.lines, rest |-> q.rest, cr |-> no]
    BY <2>2
  <2>. QED BY <2>3, <2>4 DEF no
<1>4. byte = "lf" /\ ~q.cr
        => n = [lines |-> Append(q.lines, q.rest), rest |-> <<>>, cr |-> FALSE]
  BY DEF SseCut, LineEnds
<1>5. byte = "cr" => n = [lines |-> Append(q.lines, q.rest), rest |-> <<>>, cr |-> TRUE]
  BY DEF SseCut, LineEnds
<1>6. byte \notin LineEnds
        => n = [lines |-> q.lines, rest |-> Append(q.rest, byte), cr |-> FALSE]
  BY DEF SseCut, LineEnds
<1> HIDE DEF n
<1>7. n \in SseCuts
  <2>1. (byte = "lf" /\ q.cr) \/ (byte = "lf" /\ ~q.cr) \/ byte = "cr" \/ byte \notin LineEnds
    BY DEF LineEnds
  <2>2. <<>> \in Seq(Bytes)
    OBVIOUS
  <2>3. \A a \in Seq(Seq(Bytes)), b \in Seq(Bytes), c \in BOOLEAN :
          [lines |-> a, rest |-> b, cr |-> c] \in SseCuts
    BY DEF SseCuts
  <2>. QED BY <1>1, <1>2, <1>3, <1>4, <1>5, <1>6, <2>1, <2>2, <2>3
<1>. QED BY <1>3, <1>4, <1>5, <1>6, <1>7 DEF n

\* The reference of an event stream is a fold over the bytes.
LEMMA SseSplitRuns ==
  \E F : /\ F = [p \in SseCuts \X Bytes |-> SseCut(p[1], p[2])]
         /\ \A s \in Seq(Bytes) : Runs(SseCuts, F, NoSse, s, SseSplit(s))
<1> DEFINE F == [p \in SseCuts \X Bytes |-> SseCut(p[1], p[2])]
<1>1. F \in [SseCuts \X Bytes -> SseCuts] /\ NoSse \in SseCuts
  BY SseCutIn DEF SseCuts, NoSse
<1>2. ASSUME NEW s \in Seq(Bytes) PROVE Runs(SseCuts, F, NoSse, s, SseSplit(s))
  <2> DEFINE Of(it) == [x \in SUBSET DOMAIN s |->
                          IF x = {} THEN NoSse ELSE SseCut(it[x \ {Max(x)}], s[Max(x)])]
             it == CHOOSE x : x = Of(x)
  <2>1. SseSplit(s) = it[DOMAIN s]
    BY DEF SseSplit, FoldLeft, MapThenFoldSet, NoSse
  <2>2. ASSUME NEW x \in SUBSET DOMAIN s, x # {}, NEW t \in SseCuts
        PROVE  F[<<t, s[Max(x)]>>] = SseCut(t, s[Max(x)])
    <3>1. Max(x) \in DOMAIN s
      BY <2>2, MaxAt
    <3>. QED BY <3>1
  <2> HIDE DEF F
  <2>3. PICK h : Solves(h, SseCuts, F, NoSse, s)
    BY <1>1, SetsExist
  <2>4. h = Of(h)
    BY <2>2, <2>3 DEF Solves
  <2>5. it = Of(it)
    BY <2>4
  <2> HIDE DEF it
  <2>6. Sets(it, SseCuts, F, NoSse, s)
    BY <2>2, <2>5 DEF Sets
  <2>7. Runs(SseCuts, F, NoSse, s, it[DOMAIN s])
    BY <1>1, <2>6, RunsSets
  <2>. QED BY <2>1, <2>7
<1>. QED BY <1>2

\* What it does, byte by byte.
LEMMA SseSplitIs ==
  /\ SseSplit(<<>>) = NoSse
  /\ \A s \in Seq(Bytes) :
       /\ SseSplit(s) \in SseCuts
       /\ \A byte \in Bytes : SseSplit(Append(s, byte)) = SseCut(SseSplit(s), byte)
<1>1. PICK F : /\ F = [p \in SseCuts \X Bytes |-> SseCut(p[1], p[2])]
               /\ \A s \in Seq(Bytes) : Runs(SseCuts, F, NoSse, s, SseSplit(s))
  BY SseSplitRuns
<1>2. SseSplit(<<>>) = NoSse
  <2> DEFINE s == <<>>
  <2>1. s \in Seq(Bytes) /\ Len(s) = 0
    OBVIOUS
  <2> HIDE DEF s
  <2>2. SseSplit(s) = NoSse
    BY <1>1, <2>1, RunsNone
  <2>. QED BY <2>2 DEF s
<1>3. ASSUME NEW s \in Seq(Bytes) PROVE SseSplit(s) \in SseCuts
  BY <1>1, RunsIn
<1>4. ASSUME NEW s \in Seq(Bytes), NEW byte \in Bytes
      PROVE  SseSplit(Append(s, byte)) = SseCut(SseSplit(s), byte)
  <2>1. Append(s, byte) \in Seq(Bytes)
    OBVIOUS
  <2>2. /\ Runs(SseCuts, F, NoSse, s, SseSplit(s))
        /\ Runs(SseCuts, F, NoSse, Append(s, byte), SseSplit(Append(s, byte)))
    BY <1>1, <2>1
  <2>3. SseSplit(s) \in SseCuts /\ SseSplit(Append(s, byte)) = F[<<SseSplit(s), byte>>]
    BY <2>2, RunsMore
  <2>. QED BY <1>1, <2>3
<1>. QED BY <1>2, <1>3, <1>4

\* The types of what SseSplit gives.
LEMMA SseIs ==
  ASSUME NEW s \in Seq(Bytes)
  PROVE  /\ SseSplit(s).lines \in Seq(Seq(Bytes)) /\ SseSplit(s).rest \in Seq(Bytes)
         /\ SseSplit(s).cr \in BOOLEAN
BY SseSplitIs DEF SseCuts

\* l holds no separator.
Bare(l) == \A i \in 1 .. Len(l) : l[i] \notin LineEnds

\* Bytes without a separator only prolong the unfinished line.
LEMMA SseBare ==
  ASSUME NEW x \in Seq(Bytes), NEW l \in Seq(Bytes), Bare(l)
  PROVE  /\ SseSplit(x \o l).lines = SseSplit(x).lines
         /\ SseSplit(x \o l).rest = SseSplit(x).rest \o l
         /\ SseSplit(x \o l).cr <=> SseSplit(x).cr /\ l = <<>>
<1> DEFINE Prolongs(m) == /\ SseSplit(x \o m).lines = SseSplit(x).lines
                          /\ SseSplit(x \o m).rest = SseSplit(x).rest \o m
                          /\ SseSplit(x \o m).cr <=> SseSplit(x).cr /\ m = <<>>
           S == {m \in Seq(Bytes) : Bare(m) => Prolongs(m)}
<1>1. <<>> \in S
  <2>1. <<>> \in Seq(Bytes) /\ x \o <<>> = x
    OBVIOUS
  <2> DEFINE r == SseSplit(x).rest
  <2>2. r \in Seq(Bytes)
    BY SseIs
  <2> HIDE DEF r
  <2>3. r \o <<>> = r
    BY <2>2
  <2>4. Prolongs(<<>>)
    BY <2>1, <2>3 DEF r
  <2>. QED BY <2>1, <2>4
<1>2. ASSUME NEW m \in Seq(Bytes), m \in S, NEW byte \in Bytes PROVE Append(m, byte) \in S
  <2> DEFINE t == Append(m, byte)
             y == x \o m
             r == SseSplit(x).rest
  <2>1. t \in Seq(Bytes) /\ y \in Seq(Bytes) /\ x \o t = Append(y, byte)
        /\ Len(t) = Len(m) + 1 /\ t[Len(t)] = byte /\ t # <<>>
        /\ \A i \in 1 .. Len(m) : t[i] = m[i] /\ i \in 1 .. Len(t)
    BY ConcatAppend
  <2> SUFFICES ASSUME Bare(t) PROVE Prolongs(t)
    BY <2>1
  <2>2. Bare(m)
    BY <2>1 DEF Bare
  <2>3. byte \notin LineEnds
    <3>1. Len(t) \in 1 .. Len(t)
      BY <2>1
    <3>. QED BY <2>1, <3>1 DEF Bare
  <2>4. /\ SseSplit(y).lines = SseSplit(x).lines /\ SseSplit(y).rest = r \o m
    BY <1>2, <2>2
  <2>5. SseSplit(y) \in SseCuts /\ SseSplit(Append(y, byte)) = SseCut(SseSplit(y), byte)
    BY <2>1, SseSplitIs
  <2>6. SseSplit(Append(y, byte))
          = [lines |-> SseSplit(y).lines, rest |-> Append(SseSplit(y).rest, byte), cr |-> FALSE]
    BY <2>3, <2>5, SseCutIn
  <2>7. r \in Seq(Bytes)
    BY SseIs
  <2> HIDE DEF r, y
  <2>8. r \o Append(m, byte) = Append(r \o m, byte)
    BY <2>7, ConcatAppend
  <2>9. /\ SseSplit(x \o t).lines = SseSplit(x).lines
        /\ SseSplit(x \o t).rest = r \o t
        /\ SseSplit(x \o t).cr = FALSE
    BY <2>1, <2>4, <2>6, <2>8
  <2>. QED BY <2>1, <2>9 DEF r
<1> HIDE DEF S, Prolongs
<1>3. Seq(Bytes) \subseteq S
  BY <1>1, <1>2, SeqInd
<1>4. Prolongs(l)
  BY <1>3 DEF S
<1>. QED BY <1>4 DEF Prolongs

\* A separator ends the line so far.
LEMMA SseEnds ==
  ASSUME NEW x \in Seq(Bytes), NEW byte \in LineEnds, ~(byte = "lf" /\ SseSplit(x).cr)
  PROVE  /\ SseSplit(Append(x, byte)).lines = Append(SseSplit(x).lines, SseSplit(x).rest)
         /\ SseSplit(Append(x, byte)).rest = <<>>
         /\ SseSplit(Append(x, byte)).cr <=> byte = "cr"
<1>1. byte \in Bytes
  BY DEF LineEnds, Bytes
<1>2. SseSplit(x) \in SseCuts /\ SseSplit(Append(x, byte)) = SseCut(SseSplit(x), byte)
  BY <1>1, SseSplitIs
<1>3. CASE byte = "lf"
  BY <1>1, <1>2, <1>3, SseCutIn
<1>4. CASE byte = "cr"
  BY <1>1, <1>2, <1>4, SseCutIn
<1>. QED BY <1>3, <1>4 DEF LineEnds

\* The LF of a CRLF ends no line of its own.
LEMMA SseLf ==
  ASSUME NEW x \in Seq(Bytes), SseSplit(x).cr
  PROVE  /\ SseSplit(Append(x, "lf")).lines = SseSplit(x).lines
         /\ SseSplit(Append(x, "lf")).rest = SseSplit(x).rest
         /\ SseSplit(Append(x, "lf")).cr = FALSE
<1> DEFINE lf == "lf"
<1>1. lf \in Bytes /\ lf = "lf"
  BY DEF Bytes
<1> HIDE DEF lf
<1>2. SseSplit(x) \in SseCuts /\ SseSplit(Append(x, lf)) = SseCut(SseSplit(x), lf)
  BY <1>1, SseSplitIs
<1>3. SseCut(SseSplit(x), lf) = [lines |-> SseSplit(x).lines, rest |-> SseSplit(x).rest, cr |-> FALSE]
  BY <1>1, <1>2, SseCutIn
<1>. QED BY <1>2, <1>3 DEF lf

-----------------------------------------------------------------------------
(* The example client's lines *)

\* y after x, cut after its m-th byte.
CutOf(x, y, m) ==
    LET head == SubSeq(y, 1, m)
        tail == SubSeq(y, m + 1, Len(y))
        l == SubSeq(y, 1, m - 1)
    IN /\ head \in Seq(Bytes) /\ tail \in Seq(Bytes) /\ l \in Seq(Bytes)
       /\ y[m] \in Bytes /\ head = Append(l, y[m])
       /\ x \o y = (x \o head) \o tail
       /\ x \o head = Append(x \o l, y[m]) /\ x \o head \in Seq(Bytes) /\ x \o l \in Seq(Bytes)
       /\ Len(tail) = Len(y) - m /\ (m < Len(y) => tail # <<>> /\ tail[1] = y[m + 1])
       /\ Len(l) = m - 1 /\ \A i \in 1 .. Len(l) : l[i] = y[i]

\* What x and the first m bytes of y are.
LEMMA CutAt ==
  ASSUME NEW x \in Seq(Bytes), NEW y \in Seq(Bytes), NEW m \in 1 .. Len(y)
  PROVE  CutOf(x, y, m)
<1> DEFINE N == Len(y)
           head == SubSeq(y, 1, m)
           tail == SubSeq(y, m + 1, N)
           l == SubSeq(y, 1, m - 1)
<1>1. N \in Nat /\ m \in Nat /\ m <= N /\ 1 <= m
  OBVIOUS
<1>2. head \in Seq(Bytes) /\ Len(head) = m /\ \A i \in 1 .. m : head[i] = y[i]
  BY <1>1
<1>3. tail \in Seq(Bytes) /\ Len(tail) = N - m /\ \A i \in 1 .. N - m : tail[i] = y[m + i]
  BY <1>1
<1>4. l \in Seq(Bytes) /\ Len(l) = m - 1 /\ \A i \in 1 .. m - 1 : l[i] = y[i]
  BY <1>1
<1>5. y[m] \in Bytes
  OBVIOUS
<1> HIDE DEF head, tail, l, N
<1>6. head = Append(l, y[m])
  <2> DEFINE b == Append(l, y[m])
  <2>1. b \in Seq(Bytes) /\ Len(b) = m /\ \A i \in 1 .. m : b[i] = y[i]
    BY <1>1, <1>4, <1>5
  <2> HIDE DEF b
  <2>2. b = head
    BY <1>1, <1>2, <2>1
  <2>. QED BY <2>2 DEF b
<1>7. head \o tail = y
  <2> DEFINE b == head \o tail
  <2>1. b \in Seq(Bytes) /\ Len(b) = m + (N - m)
    <3>0. head \in Seq(Bytes) /\ tail \in Seq(Bytes)
      BY <1>2, <1>3
    <3>1. b \in Seq(Bytes) /\ Len(b) = Len(head) + Len(tail)
      BY <3>0
    <3> HIDE DEF b
    <3>. QED BY <1>2, <1>3, <3>1
  <2>2. m + (N - m) = N
    BY <1>1
  <2>3. ASSUME NEW i \in 1 .. N PROVE b[i] = y[i]
    <3>1. CASE i <= m
      <4>1. i \in 1 .. Len(head)
        BY <1>1, <1>2, <3>1
      <4>2. b[i] = head[i]
        BY <1>2, <1>3, <4>1
      <4>. QED BY <1>2, <4>1, <4>2
    <3>2. CASE ~(i <= m)
      <4>1. i - m \in 1 .. N - m /\ m + (i - m) = i
        BY <1>1, <3>2
      <4>2. b[i] = tail[i - m]
        BY <1>1, <1>2, <1>3, <3>2, <4>1
      <4>. QED BY <1>3, <4>1, <4>2
    <3>. QED BY <3>1, <3>2
  <2> HIDE DEF b
  <2>4. b = y
    BY <2>1, <2>2, <2>3 DEF N
  <2>. QED BY <2>4 DEF b
<1>8. x \o y = (x \o head) \o tail
  <2>1. (x \o head) \o tail = x \o (head \o tail)
    BY <1>2, <1>3
  <2>. QED BY <1>7, <2>1
<1>9. x \o head = Append(x \o l, y[m])
  BY <1>4, <1>5, <1>6
<1>10. m < N => tail # <<>> /\ tail[1] = y[m + 1]
  <2> SUFFICES ASSUME m < N PROVE tail # <<>> /\ tail[1] = y[m + 1]
    OBVIOUS
  <2>1. 1 \in 1 .. N - m /\ N - m # 0
    BY <1>1
  <2>2. Len(<<>>) = 0
    OBVIOUS
  <2>. QED BY <1>3, <2>1, <2>2
<1>11. x \o head \in Seq(Bytes) /\ x \o l \in Seq(Bytes)
  BY <1>2, <1>4
<1>12. \A i \in 1 .. Len(l) : l[i] = y[i]
  BY <1>1, <1>4
<1>. QED BY <1>2, <1>3, <1>4, <1>5, <1>6, <1>8, <1>9, <1>10, <1>11, <1>12 DEF head, tail, l, N, CutOf

\* Where the first separator is.
LEMMA SeparatorIs ==
  ASSUME NEW s \in Seq(Bytes)
  PROVE  LET n == Separator(s)
         IN \/ n = 0 /\ Bare(s)
            \/ n \in 1 .. Len(s) /\ s[n] \in LineEnds /\ \A i \in 1 .. n - 1 : s[i] \notin LineEnds
<1> DEFINE at == {i \in DOMAIN s : s[i] \in LineEnds}
           n == Separator(s)
<1>1. DOMAIN s = 1 .. Len(s) /\ Len(s) \in Nat
  OBVIOUS
<1>2. CASE at = {}
  BY <1>1, <1>2 DEF Separator, Bare
<1>3. CASE at # {}
  <2>1. at \subseteq Nat
    BY <1>1
  <2>2. n = Min(at)
    BY <1>3 DEF Separator
  <2> HIDE DEF at, n
  <2>3. PICK k \in at : \A z \in at : k <= z
    BY <1>3, <2>1, NatMin
  <2>4. n \in at /\ \A z \in at : n <= z
    BY <2>2, <2>3 DEF Min
  <2>5. n \in 1 .. Len(s) /\ s[n] \in LineEnds
    BY <1>1, <2>4 DEF at
  <2>6. ASSUME NEW i \in 1 .. n - 1 PROVE s[i] \notin LineEnds
    <3>1. i \in 1 .. Len(s) /\ ~(n <= i)
      BY <1>1, <2>5
    <3>. QED BY <1>1, <2>4, <3>1 DEF at
  <2>. QED BY <2>5, <2>6 DEF n
<1>. QED BY <1>2, <1>3

Streams == [buffer : Seq(Bytes), lines : Seq(Seq(Bytes)), ended : BOOLEAN]

\* q has handed on the lines of w up to its buffer, which does not begin with
\* the LF of a CRLF.
Reads(q, w) ==
    \E x \in Seq(Bytes) :
      /\ w = x \o q.buffer
      /\ SseSplit(x).lines = q.lines /\ SseSplit(x).rest = <<>>
      /\ SseSplit(x).cr => IF q.buffer = <<>> THEN q.ended ELSE q.buffer[1] # "lf"

\* drain's loop has nothing more to do.
Stuck(q) == Separator(q.buffer) = 0 \/ Waits(q, Separator(q.buffer))

\* A turn of the loop takes a line of the stream and leaves less in the buffer.
LEMMA CutsKeeps ==
  ASSUME NEW q \in Streams, NEW w, Reads(q, w), ~Stuck(q)
  PROVE  /\ CutsLine(q) \in Streams /\ Reads(CutsLine(q), w)
         /\ Len(CutsLine(q).buffer) < Len(q.buffer)
         /\ CutsLine(q).ended = q.ended
<1> DEFINE y == q.buffer
           n == Separator(y)
           l == SubSeq(y, 1, n - 1)
           m == n + Width(y, n) - 1
           tail == SubSeq(y, m + 1, Len(y))
           p == [buffer |-> tail, lines |-> Append(q.lines, l), ended |-> q.ended]
           next == CutsLine(q)
<1>1. y \in Seq(Bytes) /\ q.lines \in Seq(Seq(Bytes)) /\ q.ended \in BOOLEAN /\ Len(y) \in Nat
  BY DEF Streams
<1>2. n \in 1 .. Len(y) /\ y[n] \in LineEnds /\ ~Waits(q, n) /\ \A i \in 1 .. n - 1 : y[i] \notin LineEnds
  <2>1. n # 0 /\ ~Waits(q, n)
    BY DEF Stuck
  <2> HIDE DEF y, n
  <2>2. n = 0 \/ (n \in 1 .. Len(y) /\ y[n] \in LineEnds /\ \A i \in 1 .. n - 1 : y[i] \notin LineEnds)
    BY <1>1, SeparatorIs DEF n
  <2>. QED BY <2>1, <2>2
<1> DEFINE crlf == n < Len(y) /\ y[n] = "cr" /\ y[n + 1] = "lf"
<1>3. Width(y, n) = (IF crlf THEN 2 ELSE 1)
  BY DEF Width
<1>4. next = [q EXCEPT !.lines = Append(q.lines, l), !.buffer = From(y, n + Width(y, n))]
  <2>1. n # 0
    BY <1>1, <1>2
  <2>. QED BY <1>2, <2>1 DEF CutsLine
<1>5. PICK x \in Seq(Bytes) :
        /\ w = x \o y
        /\ SseSplit(x).lines = q.lines /\ SseSplit(x).rest = <<>>
        /\ SseSplit(x).cr => IF y = <<>> THEN q.ended ELSE y[1] # "lf"
  BY DEF Reads
<1> HIDE DEF y, n, crlf
<1>6. m \in 1 .. Len(y) /\ (m = IF crlf THEN n + 1 ELSE n) /\ n + Width(y, n) = m + 1
  BY <1>1, <1>2, <1>3 DEF crlf
<1> HIDE DEF m
<1> DEFINE h == x \o SubSeq(y, 1, n)
<1>7. /\ l \in Seq(Bytes) /\ Len(l) = n - 1 /\ \A i \in 1 .. Len(l) : l[i] = y[i]
      /\ h = Append(x \o l, y[n]) /\ x \o l \in Seq(Bytes) /\ h \in Seq(Bytes)
  <2>1. CutOf(x, y, n)
    BY <1>1, <1>2, CutAt
  <2>. QED BY <2>1 DEF CutOf
<1>8. tail \in Seq(Bytes) /\ Len(tail) = Len(y) - m /\ (m < Len(y) => tail # <<>> /\ tail[1] = y[m + 1])
      /\ w = (x \o SubSeq(y, 1, m)) \o tail
  <2>1. w = x \o y
    BY <1>5
  <2>2. CutOf(x, y, m)
    BY <1>1, <1>6, CutAt
  <2>. QED BY <2>1, <2>2 DEF CutOf
<1> HIDE DEF l, tail, h
<1>9. next = p
  <2>1. next = [q EXCEPT !.lines = Append(q.lines, l), !.buffer = tail]
    BY <1>4, <1>6 DEF From, tail
  <2> DEFINE A == Seq(Bytes)
             B == Seq(A)
             C == BOOLEAN
             ls == Append(q.lines, l)
  <2>2. q \in [buffer : A, lines : B, ended : C]
    BY DEF Streams
  <2> HIDE DEF A, B, C, ls, next
  <2> DEFINE d == [q EXCEPT !.lines = ls]
  <2>3. d = [buffer |-> q.buffer, lines |-> ls, ended |-> q.ended]
    BY <2>2
  <2>4. next = [d EXCEPT !.buffer = tail]
    BY <2>1 DEF ls
  <2> HIDE DEF d
  <2>5. next = [buffer |-> tail, lines |-> ls, ended |-> q.ended]
    BY <2>3, <2>4
  <2>. QED BY <2>5 DEF ls
<1> HIDE DEF next
<1>10. Append(q.lines, l) \in Seq(Seq(Bytes))
  BY <1>1, <1>7
<1>11. p \in Streams
  BY <1>1, <1>8, <1>10 DEF Streams
<1>12. Bare(l)
  <2>1. \A i \in 1 .. Len(l) : i \in 1 .. n - 1
    BY <1>7
  <2>. QED BY <1>2, <1>7, <2>1 DEF Bare
<1>13. /\ SseSplit(x \o l).lines = q.lines /\ SseSplit(x \o l).rest = l
       /\ SseSplit(x \o l).cr <=> SseSplit(x).cr /\ l = <<>>
  <2>1. <<>> \o l = l
    BY <1>7
  <2>2. /\ SseSplit(x \o l).lines = SseSplit(x).lines
        /\ SseSplit(x \o l).rest = SseSplit(x).rest \o l
        /\ SseSplit(x \o l).cr <=> SseSplit(x).cr /\ l = <<>>
    BY <1>7, <1>12, SseBare
  <2>. QED BY <1>5, <2>1, <2>2
<1>14. ~(y[n] = "lf" /\ SseSplit(x \o l).cr)
  <2> SUFFICES ASSUME y[n] = "lf", SseSplit(x).cr, l = <<>> PROVE FALSE
    BY <1>13
  <2>1. n = 1
    <3>1. Len(l) = 0
      OBVIOUS
    <3>. QED BY <1>1, <1>2, <1>7, <3>1
  <2>2. y # <<>>
    BY <1>1, <1>2
  <2>. QED BY <1>5, <2>1, <2>2
<1>16. /\ SseSplit(h).lines = Append(q.lines, l) /\ SseSplit(h).rest = <<>>
       /\ SseSplit(h).cr <=> y[n] = "cr"
  <2> DEFINE z == x \o l
             c == y[n]
  <2>1. z \in Seq(Bytes) /\ c \in LineEnds /\ ~(c = "lf" /\ SseSplit(z).cr) /\ h = Append(z, c)
    BY <1>2, <1>7, <1>14
  <2>2. SseSplit(z).lines = q.lines /\ SseSplit(z).rest = l
    BY <1>13
  <2> HIDE DEF z, c
  <2>3. /\ SseSplit(h).lines = Append(q.lines, l) /\ SseSplit(h).rest = <<>>
        /\ SseSplit(h).cr <=> c = "cr"
    BY <2>1, <2>2, SseEnds
  <2>. QED BY <2>3 DEF c
<1>17. Reads(p, w)
  <2>1. p.buffer = tail /\ p.lines = Append(q.lines, l) /\ p.ended = q.ended
    OBVIOUS
  <2> HIDE DEF p
  <2>2. CASE crlf
    <3> DEFINE g == x \o SubSeq(y, 1, m)
    <3>1. m = n + 1 /\ y[m] = "lf" /\ y[n] = "cr"
      BY <1>6, <2>2 DEF crlf
    <3>2. g = Append(h, "lf") /\ g \in Seq(Bytes)
      <4>1. CutOf(x, y, m)
        BY <1>1, <1>6, CutAt
      <4>2. m - 1 = n
        BY <1>1, <1>2, <3>1
      <4>3. g \in Seq(Bytes) /\ g = Append(x \o SubSeq(y, 1, n), y[m])
        BY <4>1, <4>2 DEF CutOf
      <4>. QED BY <3>1, <4>3 DEF h
    <3>3. /\ SseSplit(g).lines = Append(q.lines, l) /\ SseSplit(g).rest = <<>>
          /\ SseSplit(g).cr = FALSE
      BY <1>7, <1>16, <3>1, <3>2, SseLf
    <3>4. w = g \o tail
      BY <1>8
    <3> HIDE DEF g
    <3>. QED BY <2>1, <3>2, <3>3, <3>4 DEF Reads
  <2>3. CASE ~crlf
    <3>1. m = n
      BY <1>6, <2>3
    <3>2. w = h \o tail
      BY <1>8, <3>1 DEF h
    <3>3. SseSplit(h).cr => IF tail = <<>> THEN q.ended ELSE tail[1] # "lf"
      <4> SUFFICES ASSUME y[n] = "cr" PROVE IF tail = <<>> THEN q.ended ELSE tail[1] # "lf"
        BY <1>16
      <4>1. CASE n < Len(y)
        <5>1. y[n + 1] # "lf"
          BY <2>3, <4>1 DEF crlf
        <5>2. tail # <<>> /\ tail[1] = y[n + 1]
          BY <1>8, <3>1, <4>1
        <5>. QED BY <5>1, <5>2
      <4>2. CASE ~(n < Len(y))
        <5>1. n = Len(y)
          BY <1>1, <1>2, <4>2
        <5>2. q.ended
          BY <1>2, <5>1 DEF Waits, y
        <5>3. Len(tail) = 0
          BY <1>1, <1>8, <3>1, <5>1
        <5>4. tail = <<>>
          BY <1>8, <5>3
        <5>. QED BY <5>2, <5>4
      <4>. QED BY <4>1, <4>2
    <3>. QED BY <1>7, <1>16, <2>1, <3>2, <3>3 DEF Reads
  <2>. QED BY <2>2, <2>3
<1>18. Len(tail) < Len(y)
  BY <1>1, <1>6, <1>8
<1>. QED BY <1>9, <1>11, <1>17, <1>18 DEF next, y

\* A turn of drain keeps the types.
LEMMA CutsIn ==
  ASSUME NEW q \in Streams PROVE CutsLine(q) \in Streams
<1> DEFINE y == q.buffer
           n == Separator(y)
           m == n + Width(y, n)
           l == SubSeq(y, 1, n - 1)
           tail == SubSeq(y, m, Len(y))
<1>1. y \in Seq(Bytes) /\ q.lines \in Seq(Seq(Bytes)) /\ q.ended \in BOOLEAN /\ Len(y) \in Nat
  BY DEF Streams
<1>2. n = 0 \/ n \in 1 .. Len(y)
  <2> HIDE DEF y
  <2>. QED BY <1>1, SeparatorIs
<1>3. \/ CutsLine(q) = q
      \/ /\ n \in 1 .. Len(y)
         /\ CutsLine(q) = [q EXCEPT !.lines = Append(q.lines, l), !.buffer = tail]
  <2>1. CASE n = 0
    BY <2>1 DEF CutsLine
  <2>2. CASE Waits(q, n)
    BY <2>2 DEF CutsLine
  <2>3. CASE n # 0 /\ ~Waits(q, n)
    <3>1. CutsLine(q) = [q EXCEPT !.lines = Append(q.lines, l), !.buffer = tail]
      BY <2>3 DEF CutsLine, From
    <3> HIDE DEF n, l, tail
    <3>. QED BY <1>2, <2>3, <3>1
  <2> HIDE DEF n
  <2>. QED BY <2>1, <2>2, <2>3
<1>4. ASSUME n \in 1 .. Len(y) PROVE Append(q.lines, l) \in Seq(Seq(Bytes)) /\ tail \in Seq(Bytes)
  <2>1. Width(y, n) \in {1, 2}
    BY DEF Width
  <2> HIDE DEF y, n
  <2>2. m \in Nat /\ 1 <= m
    BY <1>1, <1>4, <2>1
  <2> HIDE DEF m
  <2>3. l \in Seq(Bytes)
    BY <1>1, <1>4
  <2>4. tail \in Seq(Bytes)
    BY <1>1, <2>2
  <2>. QED BY <1>1, <2>3, <2>4
<1> HIDE DEF l, tail
<1>. QED BY <1>3, <1>4 DEF Streams

\* drain's loop is a fold of its turns.
LEMMA DrainRuns ==
  ASSUME NEW p \in Streams
  PROVE  \E F : /\ F = [v \in Streams \X Bytes |-> CutsLine(v[1])]
                /\ Runs(Streams, F, p, p.buffer, Drain(p))
<1> DEFINE F == [v \in Streams \X Bytes |-> CutsLine(v[1])]
           s == p.buffer
           Of(it) == [x \in SUBSET DOMAIN s |->
                        IF x = {} THEN p ELSE CutsLine(it[x \ {Max(x)}])]
           it == CHOOSE x : x = Of(x)
<1>1. F \in [Streams \X Bytes -> Streams]
  BY CutsIn
<1>2. s \in Seq(Bytes)
  BY DEF Streams
<1>3. Drain(p) = it[DOMAIN s]
  BY DEF Drain, FoldLeft, MapThenFoldSet
<1> HIDE DEF s
<1>4. ASSUME NEW x \in SUBSET DOMAIN s, x # {}, NEW t \in Streams
      PROVE  F[<<t, s[Max(x)]>>] = CutsLine(t)
  <2>1. Max(x) \in DOMAIN s
    BY <1>2, <1>4, MaxAt
  <2>2. s[Max(x)] \in Bytes
    BY <1>2, <2>1
  <2>. QED BY <2>2
<1> HIDE DEF F
<1>5. PICK h : Solves(h, Streams, F, p, s)
  BY <1>1, <1>2, SetsExist
<1>6. h = Of(h)
  BY <1>4, <1>5 DEF Solves
<1>7. it = Of(it)
  BY <1>6
<1> HIDE DEF it
<1>8. Sets(it, Streams, F, p, s)
  BY <1>4, <1>7 DEF Sets
<1>9. Runs(Streams, F, p, s, it[DOMAIN s])
  BY <1>1, <1>2, <1>8, RunsSets
<1>. QED BY <1>3, <1>9 DEF F, s

\* drain hands on lines of the stream until it has nothing more to do: a turn
\* takes a byte, and there are as many turns as bytes.
LEMMA DrainKeeps ==
  ASSUME NEW p \in Streams, NEW w, Reads(p, w)
  PROVE  /\ Drain(p) \in Streams /\ Reads(Drain(p), w) /\ Stuck(Drain(p))
         /\ Drain(p).ended = p.ended
<1> DEFINE s == p.buffer
           N == Len(s)
<1>0. s \in Seq(Bytes) /\ N \in Nat
  BY DEF Streams
<1>1. PICK F : /\ F = [v \in Streams \X Bytes |-> CutsLine(v[1])]
               /\ Runs(Streams, F, p, s, Drain(p))
  BY DrainRuns
<1>2. PICK g \in [0 .. N -> Streams] : Run(g, F, p, s) /\ Drain(p) = g[N]
  BY <1>1 DEF Runs
<1> DEFINE Going(k) == /\ Reads(g[k], w) /\ g[k].ended = p.ended
                       /\ Stuck(g[k]) \/ Len(g[k].buffer) + k <= N
           S == {k \in 0 .. N : Going(k)}
<1>3. 0 \in S
  <2>1. g[0] = p
    BY <1>2 DEF Run
  <2>2. N + 0 <= N /\ 0 \in 0 .. N
    BY <1>0
  <2>. QED BY <2>1, <2>2
<1>4. ASSUME NEW k \in 0 .. N - 1, k \in S PROVE k + 1 \in S
  <2> DEFINE j == k + 1
             a == g[k]
             b == g[j]
  <2>1. j \in 1 .. N /\ j \in 0 .. N /\ j - 1 = k /\ k \in 0 .. N
    BY <1>0
  <2>2. b = CutsLine(a)
    <3>1. b = F[<<g[j - 1], s[j]>>]
      BY <1>2, <2>1 DEF Run
    <3>2. a \in Streams /\ s[j] \in Bytes
      BY <1>0, <1>2, <2>1
    <3> HIDE DEF j, b
    <3>3. b = F[<<a, s[j]>>]
      BY <2>1, <3>1
    <3> HIDE DEF a
    <3>. QED BY <1>1, <3>2, <3>3
  <2>3. a \in Streams /\ Reads(a, w) /\ a.ended = p.ended
    BY <1>4, <1>2, <2>1
  <2>4. Stuck(a) \/ Len(a.buffer) + k <= N
    BY <1>4
  <2> HIDE DEF a, b
  <2>5. CASE Stuck(a)
    <3>1. b = a
      BY <2>2, <2>5 DEF Stuck, CutsLine
    <3>2. Going(j)
      BY <2>3, <2>5, <3>1 DEF b
    <3>. QED BY <2>1, <3>2
  <2>6. CASE ~Stuck(a)
    <3>1. /\ b \in Streams /\ Reads(b, w) /\ Len(b.buffer) < Len(a.buffer) /\ b.ended = a.ended
      BY <2>2, <2>3, <2>6, CutsKeeps
    <3>2. Len(b.buffer) \in Nat /\ Len(a.buffer) \in Nat
      BY <2>3, <3>1 DEF Streams
    <3>3. Len(b.buffer) + (k + 1) <= N
      <4> DEFINE la == Len(a.buffer)
                 lb == Len(b.buffer)
      <4>1. la \in Nat /\ lb \in Nat /\ lb < la /\ la + k <= N
        BY <2>4, <2>6, <3>1, <3>2
      <4>2. k \in Nat
        BY <1>0, <2>1
      <4> HIDE DEF la, lb, N
      <4>3. lb + (k + 1) <= N
        BY <1>0, <4>1, <4>2
      <4>. QED BY <4>3 DEF la, lb
    <3>4. Going(j)
      BY <2>3, <3>1, <3>3 DEF b
    <3>. QED BY <2>1, <3>4
  <2>. QED BY <2>5, <2>6
<1>5. N \in S
  <2> HIDE DEF S, N
  <2>1. \A k \in 0 .. N : k \in S
    BY <1>0, <1>3, <1>4, UpTo
  <2>2. N \in 0 .. N
    BY <1>0
  <2>. QED BY <2>1, <2>2
<1> DEFINE z == g[N]
<1>6. z \in Streams
  BY <1>0, <1>2
<1>7. Reads(z, w) /\ z.ended = p.ended /\ (Stuck(z) \/ Len(z.buffer) + N <= N)
  BY <1>5
<1> HIDE DEF z, N
<1>8. Stuck(z)
  <2> SUFFICES ASSUME Len(z.buffer) + N <= N PROVE Stuck(z)
    BY <1>7
  <2>1. z.buffer \in Seq(Bytes)
    BY <1>6 DEF Streams
  <2>2. Len(z.buffer) = 0
    BY <1>0, <2>1
  <2>3. ~(Separator(z.buffer) \in 1 .. Len(z.buffer))
    BY <2>2
  <2>4. Separator(z.buffer) = 0
    BY <2>1, <2>3, SeparatorIs
  <2>. QED BY <2>4 DEF Stuck
<1>. QED BY <1>2, <1>6, <1>7, <1>8 DEF z

\* What the reference says where drain has stopped: the buffer is the
\* unfinished line, or it is one that a CR at its end holds back.
LEMMA StuckIs ==
  ASSUME NEW q \in Streams, NEW w, Reads(q, w), Stuck(q)
  PROVE  \/ /\ SseSplit(w).lines = q.lines /\ SseSplit(w).rest = q.buffer
            /\ ~q.ended => ~SseSplit(w).cr
         \/ /\ ~q.ended /\ SseSplit(w).cr /\ SseSplit(w).rest = <<>>
            /\ \E l \in Seq(Bytes) : SseSplit(w).lines = Append(q.lines, l)
<1> DEFINE y == q.buffer
           n == Separator(y)
<1>1. y \in Seq(Bytes) /\ q.lines \in Seq(Seq(Bytes)) /\ q.ended \in BOOLEAN /\ Len(y) \in Nat
  BY DEF Streams
<1>2. PICK x \in Seq(Bytes) :
        /\ w = x \o y
        /\ SseSplit(x).lines = q.lines /\ SseSplit(x).rest = <<>>
        /\ SseSplit(x).cr => IF y = <<>> THEN q.ended ELSE y[1] # "lf"
  BY DEF Reads
<1>3. n = 0 \/ Waits(q, n)
  BY DEF Stuck
<1>4. Waits(q, n) => ~q.ended /\ y[n] = "cr" /\ n = Len(y)
  BY DEF Waits
<1> HIDE DEF y, n
<1>5. \/ n = 0 /\ Bare(y)
      \/ n \in 1 .. Len(y) /\ y[n] \in LineEnds /\ \A i \in 1 .. n - 1 : y[i] \notin LineEnds
  BY <1>1, SeparatorIs DEF n
<1>6. CASE n = 0
  <2>1. Bare(y)
    BY <1>1, <1>5, <1>6
  <2>2. /\ SseSplit(w).lines = q.lines /\ SseSplit(w).rest = <<>> \o y
        /\ SseSplit(w).cr <=> SseSplit(x).cr /\ y = <<>>
    BY <1>1, <1>2, <2>1, SseBare
  <2>3. <<>> \o y = y
    BY <1>1
  <2>4. ~q.ended => ~SseSplit(w).cr
    BY <1>2, <2>2
  <2>. QED BY <2>2, <2>3, <2>4 DEF y
<1>7. CASE n # 0
  <2> DEFINE l == SubSeq(y, 1, n - 1)
             z == x \o l
             c == "cr"
  <2>1. ~q.ended /\ y[n] = "cr" /\ n = Len(y) /\ n \in 1 .. Len(y)
    BY <1>3, <1>4, <1>5, <1>7
  <2>2. CutOf(x, y, n)
    BY <1>1, <2>1, CutAt
  <2>3. /\ l \in Seq(Bytes) /\ Len(l) = n - 1 /\ \A i \in 1 .. Len(l) : l[i] = y[i]
        /\ x \o SubSeq(y, 1, n) = Append(z, "cr") /\ z \in Seq(Bytes)
    BY <2>1, <2>2 DEF CutOf
  <2>4. w = Append(z, "cr")
    <3>1. SubSeq(y, 1, n) = y
      BY <1>1, <2>1
    <3>. QED BY <1>2, <2>3, <3>1
  <2> HIDE DEF l
  <2>5. Bare(l)
    <3>1. \A i \in 1 .. Len(l) : i \in 1 .. n - 1
      BY <2>3
    <3>. QED BY <1>5, <1>7, <2>3, <3>1 DEF Bare
  <2>6. /\ SseSplit(z).lines = q.lines /\ SseSplit(z).rest = <<>> \o l
    <3>1. SseSplit(x \o l).lines = SseSplit(x).lines /\ SseSplit(x \o l).rest = SseSplit(x).rest \o l
      BY <1>2, <2>3, <2>5, SseBare
    <3>. QED BY <1>2, <3>1
  <2>7. <<>> \o l = l
    BY <2>3
  <2> HIDE DEF z
  <2>8. c \in LineEnds /\ ~(c = "lf" /\ SseSplit(z).cr) /\ c = "cr"
    BY DEF LineEnds
  <2> HIDE DEF c
  <2>9. /\ SseSplit(Append(z, c)).lines = Append(SseSplit(z).lines, SseSplit(z).rest)
        /\ SseSplit(Append(z, c)).rest = <<>>
        /\ SseSplit(Append(z, c)).cr <=> c = "cr"
    BY <2>3, <2>8, SseEnds
  <2>10. /\ SseSplit(w).lines = Append(q.lines, l) /\ SseSplit(w).rest = <<>> /\ SseSplit(w).cr
    BY <2>4, <2>6, <2>7, <2>8, <2>9
  <2>. QED BY <2>1, <2>3, <2>10
<1>. QED BY <1>6, <1>7

\* The invariant of the event stream: the types, what the lines are, and, while
\* the stream goes on, where in it the buffer begins.
StreamInv ==
    /\ wire \in Seq(Bytes) /\ sse \in Streams
    /\ SseLinesWhole
    /\ ~sse.ended => Reads(sse, wire)

\* The invariant of the stream holds at first.
LEMMA StreamStarts == ReadersInit => StreamInv
<1> SUFFICES ASSUME ReadersInit PROVE StreamInv
  OBVIOUS
<1>1. /\ wire = <<>> /\ wire \in Seq(Bytes)
      /\ sse = [buffer |-> <<>>, lines |-> <<>>, ended |-> FALSE]
  BY DEF ReadersInit
<1>2. sse.buffer = <<>> /\ sse.lines = <<>> /\ ~sse.ended
  BY <1>1
<1>3. SseSplit(wire).lines = <<>> /\ SseSplit(wire).rest = <<>> /\ ~SseSplit(wire).cr
  BY <1>1, SseSplitIs DEF NoSse
<1>4. wire = wire \o sse.buffer
  BY <1>1, <1>2
<1>5. Reads(sse, wire)
  BY <1>1, <1>2, <1>3, <1>4 DEF Reads
<1>6. SseLinesWhole
  BY <1>2, <1>3 DEF SseLinesWhole
<1>7. sse \in Streams
  BY <1>1 DEF Streams
<1>. QED BY <1>1, <1>5, <1>6, <1>7 DEF StreamInv

\* A chunk keeps it: drain takes every line of it that is complete.
LEMMA StreamKeeps ==
  ASSUME StreamInv, NEW chunk \in Chunks, Arrives(chunk)
  PROVE  StreamInv'
<1> DEFINE w == wire \o chunk
           y == sse.buffer
           p == [sse EXCEPT !.buffer = y \o chunk]
           z == Drain(p)
<1>1. /\ chunk \in Seq(Bytes) /\ wire \in Seq(Bytes) /\ w \in Seq(Bytes) /\ sse \in Streams
      /\ y \in Seq(Bytes)
  BY ChunksAre DEF StreamInv, Streams
<1>2. wire' = w /\ sse' = z /\ ~sse.ended
  BY DEF Arrives
<1>3. PICK x \in Seq(Bytes) :
        /\ wire = x \o y
        /\ SseSplit(x).lines = sse.lines /\ SseSplit(x).rest = <<>>
        /\ SseSplit(x).cr => IF y = <<>> THEN sse.ended ELSE y[1] # "lf"
  BY <1>2 DEF StreamInv, Reads
<1> HIDE DEF y, w
<1>4. y \o chunk \in Seq(Bytes)
  BY <1>1
<1>5. p \in Streams /\ p.buffer = y \o chunk /\ p.lines = sse.lines /\ p.ended = sse.ended
  BY <1>1, <1>4 DEF Streams
<1> HIDE DEF p
<1>6. Reads(p, w)
  <2>1. w = x \o (y \o chunk)
    <3>1. (x \o y) \o chunk = x \o (y \o chunk)
      BY <1>1
    <3>. QED BY <1>3, <3>1 DEF w
  <2>2. y # <<>> => y \o chunk # <<>> /\ (y \o chunk)[1] = y[1]
    <3> SUFFICES ASSUME y # <<>> PROVE y \o chunk # <<>> /\ (y \o chunk)[1] = y[1]
      OBVIOUS
    <3>1. Len(y) \in Nat /\ Len(y) # 0
      BY <1>1
    <3>2. 1 \in 1 .. Len(y) /\ Len(y \o chunk) = Len(y) + Len(chunk) /\ Len(chunk) \in Nat
      BY <1>1, <3>1
    <3>3. Len(y \o chunk) # 0
      BY <3>1, <3>2
    <3>4. (y \o chunk)[1] = y[1]
      BY <1>1, <3>2
    <3>. QED BY <3>3, <3>4
  <2>3. SseSplit(x).cr => IF p.buffer = <<>> THEN p.ended ELSE p.buffer[1] # "lf"
    BY <1>2, <1>3, <1>5, <2>2
  <2>. QED BY <1>3, <1>5, <2>1, <2>3 DEF Reads
<1>7. z \in Streams /\ Reads(z, w) /\ Stuck(z) /\ ~z.ended
  BY <1>2, <1>5, <1>6, DrainKeeps
<1> HIDE DEF z
<1>8. \/ SseSplit(w).lines = z.lines /\ ~SseSplit(w).cr
      \/ SseSplit(w).cr /\ \E l \in Seq(Bytes) : SseSplit(w).lines = Append(z.lines, l)
  BY <1>7, StuckIs
<1>9. ASSUME NEW l \in Seq(Bytes) PROVE Front(Append(z.lines, l)) = z.lines
  <2> DEFINE o == z.lines
  <2>1. o \in Seq(Seq(Bytes))
    BY <1>7 DEF Streams
  <2> HIDE DEF o
  <2>2. Len(Append(o, l)) - 1 = Len(o) /\ Len(o) \in Nat
    BY <2>1
  <2>3. SubSeq(Append(o, l), 1, Len(o)) = o
    BY <2>1
  <2>. QED BY <2>2, <2>3 DEF Front, o
<1>10. z.lines = IF SseSplit(w).cr THEN Front(SseSplit(w).lines) ELSE SseSplit(w).lines
  BY <1>8, <1>9
<1>11. SseLinesWhole'
  BY <1>2, <1>7, <1>10 DEF SseLinesWhole
<1>. QED BY <1>1, <1>2, <1>7, <1>11 DEF StreamInv

\* The end of the stream keeps it: drain takes what a CR held back, and the rest.
LEMMA StreamEndsKeeps ==
  ASSUME StreamInv, StreamEnds
  PROVE  StreamInv'
<1> DEFINE p == [sse EXCEPT !.ended = TRUE]
           z == Drain(p)
<1>1. wire \in Seq(Bytes) /\ sse \in Streams /\ Reads(sse, wire) /\ wire' = wire /\ ~sse.ended
  BY DEF StreamInv, StreamEnds
<1>2. p \in Streams /\ p.buffer = sse.buffer /\ p.lines = sse.lines /\ p.ended
  <2> DEFINE A == Seq(Bytes)
             B == Seq(A)
             C == BOOLEAN
             yes == TRUE
             q == [sse EXCEPT !.ended = yes]
  <2>1. sse \in [buffer : A, lines : B, ended : C] /\ yes \in C
    BY <1>1 DEF Streams
  <2> HIDE DEF A, B, C, yes
  <2>2. q \in [buffer : A, lines : B, ended : C] /\ q.buffer = sse.buffer
        /\ q.lines = sse.lines /\ q.ended = yes
    BY <2>1
  <2>. QED BY <2>2 DEF A, B, C, yes, Streams
<1>3. sse' = IF z.buffer = <<>> THEN z
             ELSE [z EXCEPT !.lines = Append(z.lines, z.buffer), !.buffer = <<>>]
  BY DEF StreamEnds, DrainAtEnd
<1> HIDE DEF p
<1>4. Reads(p, wire)
  <2>1. PICK x \in Seq(Bytes) :
          /\ wire = x \o sse.buffer
          /\ SseSplit(x).lines = sse.lines /\ SseSplit(x).rest = <<>>
          /\ SseSplit(x).cr => IF sse.buffer = <<>> THEN sse.ended ELSE sse.buffer[1] # "lf"
    BY <1>1 DEF Reads
  <2>. QED BY <1>2, <2>1 DEF Reads
<1>5. z \in Streams /\ Reads(z, wire) /\ Stuck(z) /\ z.ended
  BY <1>2, <1>4, DrainKeeps
<1> HIDE DEF z
<1>6. SseSplit(wire).lines = z.lines /\ SseSplit(wire).rest = z.buffer
  BY <1>5, StuckIs
<1>7. z.buffer \in Seq(Bytes) /\ z.lines \in Seq(Seq(Bytes))
  BY <1>5 DEF Streams
<1>8. CASE z.buffer = <<>>
  <2>1. sse' = z
    BY <1>3, <1>8
  <2>2. SseLinesWhole'
    BY <1>1, <1>5, <1>6, <1>8, <2>1 DEF SseLinesWhole
  <2>. QED BY <1>1, <1>5, <2>1, <2>2 DEF StreamInv
<1>9. CASE z.buffer # <<>>
  <2> DEFINE ls == Append(z.lines, z.buffer)
             none == <<>>
  <2>1. ls \in Seq(Seq(Bytes)) /\ none \in Seq(Bytes)
    BY <1>7
  <2>2. sse' = [z EXCEPT !.lines = ls, !.buffer = none]
    BY <1>3, <1>9
  <2> HIDE DEF ls, none
  <2>3. sse' \in Streams /\ sse'.lines = ls /\ sse'.ended
    BY <1>5, <2>1, <2>2 DEF Streams
  <2>4. SseLinesWhole'
    BY <1>1, <1>6, <1>9, <2>3 DEF SseLinesWhole, ls
  <2>. QED BY <1>1, <2>3, <2>4 DEF StreamInv
<1>. QED BY <1>8, <1>9

-----------------------------------------------------------------------------
(* The three readers in every behaviour *)

ReadersInv == FramingInv /\ StreamInv /\ InputInv

\* Every step of the three readers keeps the invariant.
LEMMA NextReaders == ReadersInv /\ [ReadersNext]_readers => ReadersInv'
<1> SUFFICES ASSUME ReadersInv, [ReadersNext]_readers PROVE ReadersInv'
  OBVIOUS
<1>1. FramingInv /\ StreamInv /\ InputInv
  BY DEF ReadersInv
<1>2. ASSUME UNCHANGED framing PROVE FramingInv'
  BY <1>1, <1>2 DEF framing, FramingInv, ChunksDoNotMatter
<1>3. ASSUME UNCHANGED <<wire, mcp>> PROVE InputInv'
  BY <1>1, <1>3 DEF InputInv, InputLinesWhole
<1>4. CASE StreamEnds
  <2>1. StreamInv'
    BY <1>1, <1>4, StreamEndsKeeps
  <2>2. UNCHANGED framing /\ UNCHANGED <<wire, mcp>>
    BY <1>4 DEF StreamEnds
  <2>. QED BY <1>2, <1>3, <2>1, <2>2 DEF ReadersInv
<1>5. ASSUME NEW chunk \in Chunks, Arrives(chunk) PROVE ReadersInv'
  <2>1. StreamInv' /\ InputInv'
    BY <1>1, <1>5, StreamKeeps, InputKeeps
  <2>2. UNCHANGED framing \/ OnData(chunk)
    BY <1>5 DEF Arrives
  <2>3. FramingInv'
    BY <1>1, <1>2, <2>2, OnDataKeeps
  <2>. QED BY <2>1, <2>3 DEF ReadersInv
<1>6. CASE UNCHANGED readers
  <2>1. StreamInv'
    BY <1>1, <1>6 DEF readers, StreamInv, SseLinesWhole
  <2>2. UNCHANGED framing /\ UNCHANGED <<wire, mcp>>
    BY <1>6 DEF readers
  <2>. QED BY <1>2, <1>3, <2>1, <2>2 DEF ReadersInv
<1>. QED BY <1>4, <1>5, <1>6 DEF ReadersNext

\* However bytes are cut into chunks, the state of the three readers is what
\* the bytes so far say: their lines, messages and outcomes, what is left in
\* each buffer, and whether the connection or the input has been given up.
THEOREM AlwaysReaders == ReadersSpec => []ReadersInv
<1>1. ReadersInit => ReadersInv
  BY FramingStarts, StreamStarts, InputStarts DEF ReadersInit, ReadersInv
<1>. QED BY <1>1, NextReaders, PTL DEF ReadersSpec

\* CodexRpc reads the same messages, and fails at the same line, however the
\* child's output is cut, for any limit of a line (src/src/rpc.mjs 162-199).
THEOREM ChunksNeverMatter == ReadersSpec => []ChunksDoNotMatter
<1>1. ReadersInv => ChunksDoNotMatter
  BY DEF ReadersInv, FramingInv
<1>. QED BY <1>1, AlwaysReaders, PTL

\* The example client sees each line of an event stream once, with CRLF, CR
\* and LF ending lines wherever chunks are cut (src/examples/tool-client.mjs
\* 104-119).
THEOREM SseAlwaysWhole == ReadersSpec => []SseLinesWhole
<1>1. ReadersInv => SseLinesWhole
  BY DEF ReadersInv, StreamInv
<1>. QED BY <1>1, AlwaysReaders, PTL

\* The image server answers every line of its input in order, until one that is
\* too long ends it, however the input is cut (src/scripts/desktop-image-mcp.mjs
\* 194-207).
THEOREM InputAlwaysWhole == ReadersSpec => []InputLinesWhole
<1>1. ReadersInv => InputLinesWhole
  BY DEF ReadersInv, InputInv
<1>. QED BY <1>1, AlwaysReaders, PTL

=============================================================================
