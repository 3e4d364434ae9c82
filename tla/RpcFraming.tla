----------------------------- MODULE RpcFraming -----------------------------
(***************************************************************************)
(* CodexRpc's framing of the child's output (src/src/rpc.mjs, #onData,     *)
(* #append and the head of #onLine): chunks of any size become lines.      *)
(*                                                                         *)
(* Bytes are "x" (of a message), "bad" (a line that holds it is no JSON),  *)
(* "cr" (white space) and "lf".                                            *)
(***************************************************************************)
EXTENDS Naturals, Sequences, SequencesExt, FiniteSetsExt

CONSTANTS
    MaxLine,   \* maxLineBytes
    MaxBytes   \* bound: bytes the child emits

ASSUME LimitsAssumption == MaxLine \in Nat \ {0} /\ MaxBytes \in Nat

Bytes == {"x", "bad", "cr", "lf"}

VARIABLES
    read,    \* everything the child has emitted
    buffer,  \* #buffer
    lines,   \* the messages handed on, trimmed
    closed

framing == <<read, buffer, lines, closed>>

FramingInit == read = <<>> /\ buffer = <<>> /\ lines = <<>> /\ closed = FALSE

-----------------------------------------------------------------------------
Failed(p) == [p EXCEPT !.closed = TRUE, !.buffer = <<>>]

\* #append: the line so far may not exceed maxLineBytes.
Appended(p, part) ==
    IF Len(p.buffer) + Len(part) > MaxLine THEN Failed(p)
    ELSE [p EXCEPT !.buffer = p.buffer \o part]

Trimmed(line) ==
    LET ink == {i \in DOMAIN line : line[i] # "cr"}
    IN IF ink = {} THEN <<>> ELSE SubSeq(line, Min(ink), Max(ink))

\* The head of #onLine: a blank line is nothing, an invalid one is fatal.
OnLine(p) ==
    LET line == Trimmed(p.buffer)
        q == [p EXCEPT !.buffer = <<>>]
    IN IF line = <<>> THEN q
       ELSE IF "bad" \in ToSet(line) THEN Failed(q)
       ELSE [q EXCEPT !.lines = Append(p.lines, line)]

\* One turn of #onData's loop; part is what lies between start and index.
Passes(q, byte) ==
    IF q.closed THEN q
    ELSE IF byte # "lf" THEN [q EXCEPT !.part = Append(q.part, byte)]
    ELSE LET a == Appended(q, q.part)
         IN IF a.closed THEN a ELSE OnLine([a EXCEPT !.part = <<>>])

\* The loop.  As a variant of Parsed it loses what follows the last newline.
ParsedLines(p, chunk) == FoldLeft(Passes, p, chunk)

\* What follows the last newline stays in the buffer.
Parsed(p, chunk) ==
    LET last == ParsedLines(p, chunk)
    IN IF last.closed THEN last ELSE Appended(last, last.part)

\* #onData: nothing is read once the connection has closed.
OnData(chunk) ==
    /\ ~closed
    /\ Len(read) + Len(chunk) <= MaxBytes
    /\ LET p == Parsed([buffer |-> buffer, lines |-> lines, closed |-> closed,
                        part |-> <<>>], chunk)
       IN buffer' = p.buffer /\ lines' = p.lines /\ closed' = p.closed
    /\ read' = read \o chunk

Chunks == UNION {[1 .. n -> Bytes] : n \in 1 .. MaxBytes}

-----------------------------------------------------------------------------
(* The reference: the lines of everything read, whatever the chunks were *)

Cut(q, byte) ==
    IF byte = "lf" THEN [lines |-> Append(q.lines, q.rest), rest |-> <<>>]
    ELSE [q EXCEPT !.rest = Append(q.rest, byte)]

\* The lines of a sequence of bytes, and what follows its last newline.
Split(s) == FoldLeft(Cut, [lines |-> <<>>, rest |-> <<>>], s)

Line(s, k) == Append(Split(s).lines, Split(s).rest)[k]

Fatal(s, k) ==
    \/ Len(Line(s, k)) > MaxLine
    \/ k <= Len(Split(s).lines) /\ "bad" \in ToSet(Line(s, k))

\* The messages of lines: blank ones have none.
WithMessage(messages, line) ==
    IF Trimmed(line) = <<>> THEN messages ELSE Append(messages, Trimmed(line))

Messages(ls) == FoldLeft(WithMessage, <<>>, ls)

\* How the child cuts its output makes no difference: the messages are the
\* complete, non-blank lines before the first that is too long or invalid,
\* and exactly such a line closes the connection, after which nothing is kept
\* (lines 162-195, 238).  This fixes every variable, its type included.
ChunksDoNotMatter ==
    LET whole == Split(read).lines
        fatal == {k \in 1 .. Len(whole) + 1 : Fatal(read, k)}
    IN IF closed
       THEN \E k \in fatal : /\ \A n \in fatal : k <= n
                             /\ lines = Messages(SubSeq(whole, 1, k - 1))
                             /\ buffer = <<>>
       ELSE fatal = {} /\ lines = Messages(whole) /\ buffer = Split(read).rest

=============================================================================
