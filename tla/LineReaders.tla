---------------------------- MODULE LineReaders -----------------------------
(***************************************************************************)
(* The program cuts chunks of bytes into lines in three places, each in    *)
(* its own way: CodexRpc the child's output (RpcFraming), the example      *)
(* client an event stream (src/examples/tool-client.mjs, readSse), and the *)
(* image server its input (src/scripts/desktop-image-mcp.mjs, serveStdio). *)
(* Here the same chunks reach all three.                                   *)
(***************************************************************************)
EXTENDS RpcFraming

VARIABLES
    wire,    \* every byte that has arrived
    sse,     \* drain: buffer, the lines handed on, and whether the stream has ended
    mcp      \* serveStdio: pending, what became of each line, input destroyed

readers == <<framing, wire, sse, mcp>>

From(s, n) == SubSeq(s, n, Len(s))

-----------------------------------------------------------------------------
(* readSse: LF, CRLF and CR end a line *)

LineEnds == {"lf", "cr"}

\* The first separator of s, 0 if there is none.
Separator(s) ==
    LET at == {i \in DOMAIN s : s[i] \in LineEnds} IN IF at = {} THEN 0 ELSE Min(at)

\* Variant: a CR ends a line, though the LF of it may be on its way.
WaitsNever(q, n) == FALSE

\* A CR that is the last byte so far waits for what follows it.
Waits(q, n) == ~q.ended /\ q.buffer[n] = "cr" /\ n = Len(q.buffer)

Width(s, n) == IF n < Len(s) /\ s[n] = "cr" /\ s[n + 1] = "lf" THEN 2 ELSE 1

\* One turn of drain's loop, which stops where it changes nothing.
CutsLine(q) ==
    LET n == Separator(q.buffer)
    IN IF n = 0 THEN q ELSE IF Waits(q, n) THEN q
       ELSE [q EXCEPT !.lines = Append(q.lines, SubSeq(q.buffer, 1, n - 1)),
                      !.buffer = From(q.buffer, n + Width(q.buffer, n))]

\* drain(): a turn takes at least one byte, so that there are no more turns
\* than bytes.
Drain(p) == FoldLeft(LAMBDA q, byte : CutsLine(q), p, p.buffer)

\* drain(true): what is left is a line too.
DrainAtEnd(p) ==
    LET q == Drain([p EXCEPT !.ended = TRUE])
    IN IF q.buffer = <<>> THEN q
       ELSE [q EXCEPT !.lines = Append(q.lines, q.buffer), !.buffer = <<>>]

-----------------------------------------------------------------------------
(* serveStdio: LF ends a line *)

\* What becomes of a line: nothing if it is empty, a refusal, or its message.
\* A CR alone is not empty, and no JSON.
TooLong == <<"too long">>
Outcome(line) ==
    CASE line = <<>> -> <<>>
      [] Len(line) > MaxLine -> <<TooLong>>
      [] Len(line) <= MaxLine /\ ("bad" \in ToSet(line) \/ Trimmed(line) = <<>>)
           -> <<<<"parse error">>>>
      [] OTHER -> <<Trimmed(line)>>

WithOutcome(outcomes, line) == outcomes \o Outcome(line)

Outcomes(ls) == FoldLeft(WithOutcome, <<>>, ls)

\* Variant: the limit holds for what has arrived, before it is cut.
OverlongAtOnce(bytes) == Len(bytes) > MaxLine

\* Only the unfinished line is measured.
Overlong(bytes) == Len(Split(bytes).rest) > MaxLine

\* The data listener.
OnInput(p, chunk) ==
    LET bytes == p.pending \o chunk
        q == [p EXCEPT !.outcomes = p.outcomes \o Outcomes(Split(bytes).lines)]
    IN IF Overlong(bytes)
       THEN [q EXCEPT !.pending = <<>>, !.destroyed = TRUE, !.outcomes = Append(q.outcomes, TooLong)]
       ELSE [q EXCEPT !.pending = Split(bytes).rest]

-----------------------------------------------------------------------------
ReadersInit ==
    /\ FramingInit /\ wire = <<>>
    /\ sse = [buffer |-> <<>>, lines |-> <<>>, ended |-> FALSE]
    /\ mcp = [pending |-> <<>>, outcomes |-> <<>>, destroyed |-> FALSE]

Arrives(chunk) ==
    /\ ~sse.ended /\ Len(wire) + Len(chunk) <= MaxBytes
    /\ wire' = wire \o chunk
    /\ IF closed THEN UNCHANGED framing ELSE OnData(chunk)
    /\ sse' = Drain([sse EXCEPT !.buffer = sse.buffer \o chunk])
    /\ mcp' = IF mcp.destroyed THEN mcp ELSE OnInput(mcp, chunk)

StreamEnds ==
    /\ ~sse.ended /\ sse' = DrainAtEnd(sse)
    /\ UNCHANGED <<framing, wire, mcp>>

ReadersNext == StreamEnds \/ \E chunk \in Chunks : Arrives(chunk)

ReadersSpec == ReadersInit /\ [][ReadersNext]_readers

-----------------------------------------------------------------------------
(* The references *)

\* The lines of an event stream, byte by byte: an LF right after a CR ends no
\* line of its own.
SseCut(q, byte) ==
    IF byte = "lf" /\ q.cr THEN [q EXCEPT !.cr = FALSE]
    ELSE IF byte \in LineEnds
    THEN [lines |-> Append(q.lines, q.rest), rest |-> <<>>, cr |-> byte = "cr"]
    ELSE [lines |-> q.lines, rest |-> Append(q.rest, byte), cr |-> FALSE]

SseSplit(s) == FoldLeft(SseCut, [lines |-> <<>>, rest |-> <<>>, cr |-> FALSE], s)

\* "Accept LF, CRLF and CR, including a CRLF split across network chunks"
\* (line 105): the client sees each line of the stream once, none that is not
\* there, and misses none once the stream has ended.  Before that, a CR that
\* came last holds back its line.
SseLinesWhole ==
    LET every == SseSplit(wire).lines
        rest == SseSplit(wire).rest
    IN sse.lines =
         IF ~sse.ended THEN IF SseSplit(wire).cr THEN Front(every) ELSE every
         ELSE IF rest = <<>> THEN every ELSE Append(every, rest)

\* The image server answers the lines of its input in order and each for
\* itself, a refused one included, however they are cut, until one ends the
\* input: one that is too long, which is refused as well, and never another.
InputLinesWhole ==
    LET whole == Split(wire).lines
        rest == Split(wire).rest
    IN IF mcp.destroyed
       THEN \E k \in 1 .. Len(whole) + 1 :
              /\ Len(Line(wire, k)) > MaxLine
              /\ mcp.outcomes = Append(Outcomes(SubSeq(whole, 1, k - 1)), TooLong)
       ELSE mcp.outcomes = Outcomes(whole) /\ mcp.pending = rest /\ Len(rest) <= MaxLine

=============================================================================
