SPECIFICATION FairSpec
CHECK_DEADLOCK FALSE
CONSTANTS
    None = None
    Servers = {s1}
    Calls = {k1, k2}
    Ids = {i1, i2}
    Paths = {p1}
INVARIANTS
    Cancellable
    SubmissionOwnsFile
    AnswersAreHonest
    NoDebris
PROPERTIES
    EveryCallEnds
