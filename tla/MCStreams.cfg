\* A handler emits at most 11 events: a tool call, two open messages, the end.
\* Lines of up to two bytes, in every cut of every input of up to six.
SPECIFICATION StreamsSpec
CHECK_DEADLOCK FALSE
CONSTANTS
    Items = {m1, m2}
    Letters = {a, b}
    MaxText = 2
    MaxRoom = 11
    MaxLine = 2
    MaxBytes = 6
INVARIANTS
    EndsAgree
    WellNested
    OneStream
    CompletedIsWhole
    ChunksDoNotMatter
    SseLinesWhole
    InputLinesWhole
