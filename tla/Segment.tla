------------------------------ MODULE Segment -------------------------------
(***************************************************************************)
(* ResponseSegment (src/src/protocol.mjs) writing one event stream through *)
(* the server's callback (src/src/server.mjs, onEvent), as CodexBridge     *)
(* drives it: one response of an HTTP request with stream: true.           *)
(*                                                                         *)
(* The callback throws when the response is destroyed or its buffer is     *)
(* full, at any event.  A method then stops where it is and the bridge     *)
(* calls fail() in the same handler.  Each method is an operator on        *)
(* [seg, sent, room, threw]: room is how many more events the callback     *)
(* accepts before the handler returns and the buffer can drain.            *)
(***************************************************************************)
EXTENDS Naturals, Sequences, SequencesExt

CONSTANTS
    Items,     \* the app-server's message items
    Letters,   \* what their text is made of
    MaxText,   \* bound: letters of an item
    MaxRoom    \* bound: events accepted in one handler

ASSUME BoundsAssumption == MaxText \in Nat /\ MaxRoom \in Nat

VARIABLES
    seg,       \* the ResponseSegment
    sent,      \* the events written to the client
    settled,   \* the operation: "no", "ok" or "failed"
    response   \* the HTTP response: "open", "ended" or "destroyed"

vars == <<seg, sent, settled, response>>

-----------------------------------------------------------------------------
Texts == UNION {[1 .. n -> Letters] : n \in 0 .. MaxText}

\* An item of response.output has of (the app-server's item, None for a
\* function call), text and done.
None == "call"

ASSUME NoneAssumption == None \notin Items

MessageEvents == <<"added", "part.added", "delta", "text.done", "part.done", "done">>
CallEvents == <<"added", "args.delta", "args.done", "done">>

\* An event has a type (one of these, "created", "in_progress", "completed" or
\* "failed"), its number, the index of its item (0 if none), text, which is a
\* delta or the text of a finished item, and output, which a terminal one carries.
NewSegment ==
    [output |-> <<>>, finished |-> FALSE, sequence |-> 0, status |-> "in_progress"]

-----------------------------------------------------------------------------
(* The methods.  A step that follows a throw is not taken.                  *)

Step(s, next) == IF s.threw THEN s ELSE next
Threw(s) == [s EXCEPT !.threw = TRUE]

\* The event that emit would write, and the segment with its number used up.
Written(s, type, index, text) ==
    [type |-> type, number |-> s.seg.sequence, index |-> index, text |-> text,
     output |-> IF index = 0 THEN s.seg.output ELSE <<>>]

Counted(s) == [s EXCEPT !.seg.sequence = @ + 1]

\* Variant: an event that cannot be written is skipped.
EmitSkipping(s, type, index, text) ==
    IF s.room = 0 THEN Counted(s)
    ELSE [Counted(s) EXCEPT !.room = @ - 1,
            !.sent = Append(@, Written(s, type, index, text))]

\* emit: the number is used up even if the callback throws.
Emit(s, type, index, text) ==
    Step(s, IF s.room = 0 THEN Threw(Counted(s))
            ELSE [Counted(s) EXCEPT !.room = @ - 1,
                    !.sent = Append(@, Written(s, type, index, text))])

Start(s) == Emit(Emit(s, "created", 0, <<>>), "in_progress", 0, <<>>)

\* messages: where an item is in the output, 0 if it is not.
Position(s, id) ==
    LET at == {i \in DOMAIN s.seg.output : s.seg.output[i].of = id}
    IN IF at = {} THEN 0 ELSE CHOOSE i \in at : TRUE

Pushed(s, id) ==
    [s EXCEPT !.seg.output = Append(@, [of |-> id, text |-> <<>>, done |-> FALSE])]

Message(s, id) ==
    IF Position(s, id) # 0 THEN s
    ELSE LET p == Pushed(s, id)
             i == Len(p.seg.output)
         IN Emit(Emit(p, "added", i, <<>>), "part.added", i, <<>>)

TextDelta(s, id, delta) ==
    IF delta = <<>> THEN s
    ELSE LET m == Message(s, id)
             i == Position(m, id)
         IN Step(m, IF m.seg.output[i].done THEN Threw(m)
                    ELSE Emit([m EXCEPT !.seg.output[i].text = @ \o delta],
                              "delta", i, delta))

\* The events that close a message.
Closing(s, i) ==
    LET text == s.seg.output[i].text
    IN Emit(Emit(Emit([s EXCEPT !.seg.output[i].done = TRUE],
                      "text.done", i, text), "part.done", i, text), "done", i, text)

\* Variant: a finished message is finished again.
FinishMessageAgain(s, i) == Step(s, Closing(s, i))

FinishMessage(s, i) == Step(s, IF s.seg.output[i].done THEN s ELSE Closing(s, i))

\* Variant: the final text is taken as it comes.
CompleteMessageUnchecked(s, id, raw) ==
    LET m == Message(s, id)
        i == Position(m, id)
    IN Step(m, IF m.seg.output[i].done THEN m
               ELSE FinishMessage([m EXCEPT !.seg.output[i].text = raw], i))

CompleteMessage(s, id, raw) ==
    LET m == Message(s, id)
        i == Position(m, id)
        shown == m.seg.output[i].text
    IN Step(m,
         IF m.seg.output[i].done THEN m
         ELSE IF ~IsPrefix(shown, raw) THEN Threw(m)
         ELSE FinishMessage(
                TextDelta(m, id, SubSeq(raw, Len(shown) + 1, Len(raw))), i))

ToolCall(s) ==
    LET p == Pushed(s, None)
        i == Len(p.seg.output)
        e == Emit(Emit(Emit(p, "added", i, <<>>), "args.delta", i, <<>>),
                  "args.done", i, <<>>)
    IN Step(e, Emit([e EXCEPT !.seg.output[i].done = TRUE], "done", i, <<>>))

Finish(s) ==
    LET f == FoldLeftDomain(
               LAMBDA t, i : IF t.seg.output[i].of = None THEN t ELSE FinishMessage(t, i),
               s, s.seg.output)
    IN Step(f, Emit([f EXCEPT !.seg.finished = TRUE, !.seg.status = "completed"],
                    "completed", 0, <<>>))

\* fail catches what its own event throws (bridge.mjs:249).
FailSegment(s) ==
    IF s.seg.finished THEN s
    ELSE Emit([s EXCEPT !.threw = FALSE, !.seg.finished = TRUE, !.seg.status = "failed"],
              "failed", 0, <<>>)

-----------------------------------------------------------------------------
(* The handlers of CodexBridge around them.                                 *)

Init ==
    /\ seg = NewSegment /\ sent = <<>>
    /\ settled = "no" /\ response = "open"

\* What the callback accepts in this handler (server.mjs:58, 65).
Room == IF response = "open" THEN 0 .. MaxRoom ELSE {0}

Now(room) == [seg |-> seg, sent |-> sent, room |-> room, threw |-> FALSE]

\* A method that threw is followed by fail(); the operation is settled then,
\* or by complete() if the method is the last one.
Handles(s, last) ==
    LET end == IF s.threw THEN FailSegment(s) ELSE s
    IN /\ seg' = end.seg /\ sent' = end.sent
       /\ settled' = IF s.threw THEN "failed" ELSE IF last THEN "ok" ELSE "no"
       /\ UNCHANGED response

Started == seg.sequence > 0
Open == settled = "no" /\ Started

\* The first events find an empty buffer.
Starts ==
    /\ settled = "no" /\ ~Started
    /\ Handles(Start(Now(IF response = "open" THEN MaxRoom ELSE 0)), FALSE)

Streamed(id) ==
    LET i == Position(Now(0), id) IN IF i = 0 THEN 0 ELSE Len(seg.output[i].text)

TextArrives(id, delta) ==
    /\ Open /\ Streamed(id) + Len(delta) <= MaxText
    /\ \E room \in Room : Handles(TextDelta(Now(room), id, delta), FALSE)

MessageCompletes(id, raw) ==
    Open /\ \E room \in Room : Handles(CompleteMessage(Now(room), id, raw), FALSE)

ToolIsOffered ==
    /\ Open
    /\ \E room \in Room :
         LET t == ToolCall(Now(room)) IN Handles(Step(t, Finish(t)), TRUE)

TurnCompletes == Open /\ \E room \in Room : Handles(Finish(Now(room)), TRUE)

\* A timer, a disconnect, an exit or a failed turn.
Fails ==
    /\ Open
    /\ \E room \in Room : Handles(Threw(Now(room)), FALSE)

Disconnects ==
    /\ response = "open" /\ response' = "destroyed"
    /\ UNCHANGED <<seg, sent, settled>>

\* The server ends the stream once respond() has returned or thrown.
Ends ==
    /\ settled # "no" /\ response = "open"
    /\ response' = "ended"
    /\ UNCHANGED <<seg, sent, settled>>

Next ==
    \/ Starts \/ ToolIsOffered \/ TurnCompletes \/ Fails \/ Disconnects \/ Ends
    \/ \E id \in Items, text \in Texts : TextArrives(id, text) \/ MessageCompletes(id, text)

Spec == Init /\ [][Next]_vars

-----------------------------------------------------------------------------
(* Safety *)

Terminal(event) == event.type \in {"completed", "failed"}

\* Place of an event in the life of its item.
Place(event) ==
    IF event.type \in Range(MessageEvents) \ Range(CallEvents)
       \/ seg.output[event.index].of # None
    THEN CHOOSE n \in 1 .. 6 : MessageEvents[n] = event.type
    ELSE CHOOSE n \in 1 .. 4 : CallEvents[n] = event.type

\* The events of one item come in the order of the protocol and each once,
\* but for text deltas, which may be none or many, whatever mixture of deltas,
\* completions, tool calls and failed deliveries drives the segment.
WellNested ==
    \A n \in DOMAIN sent : sent[n].index # 0 =>
      LET before == {m \in 1 .. n - 1 : sent[m].index = sent[n].index}
          last == sent[Max(before)]
      IN IF before = {} THEN Place(sent[n]) = 1
         ELSE \/ Place(sent[n]) = Place(last) + 1
              \/ Place(sent[n]) = Place(last) /\ last.type = "delta"
              \/ last.type = "part.added" /\ sent[n].type = "text.done"

\* What a client has received is numbered without a gap: after an event that
\* could not be written nothing else is, not even response.failed.  Only the
\* last event is terminal, and response.completed is what the operation's
\* success means, no more and no less.
OneStream ==
    /\ \A n \in DOMAIN sent : sent[n].number = n - 1
    /\ \A n \in DOMAIN sent : Terminal(sent[n]) => n = Len(sent)
    /\ settled = "ok" <=> \E n \in DOMAIN sent : sent[n].type = "completed"

\* The deltas of item i put together.
Deltas(events, i) ==
    FoldLeft(LAMBDA text, e : IF e.index = i /\ e.type = "delta" THEN text \o e.text
                              ELSE text,
             <<>>, events)

\* A client that put the deltas together has what response.completed carries:
\* every item, finished, with its whole text.
CompletedIsWhole ==
    \A n \in DOMAIN sent : sent[n].type = "completed" =>
      \A i \in DOMAIN sent[n].output :
        /\ \A type \in {"added", "done"} :
             \E m \in DOMAIN sent : sent[m].index = i /\ sent[m].type = type
        /\ sent[n].output[i].done
        /\ sent[n].output[i].text = Deltas(sent, i)

\* server.mjs:73: "The bridge emitted response.failed; never write a second
\* JSON envelope."  A stream the server ends has had its terminal event.
StreamEndsExplicitly ==
    response = "ended" => sent # <<>> /\ Terminal(Last(sent))

=============================================================================
