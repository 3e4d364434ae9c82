\* No symmetry: liveness is checked.
SPECIFICATION FairSpec
CONSTANTS
    r1 = r1
    r2 = r2
    c1 = c1
    None = None
    Requests = {r1, r2}
    Calls = {c1}
    Streaming = {}
    MaxItems = 0
    BufferLimit = 1
    Faults = {"timeout", "gone", "rpcTimeout", "expire", "malformed"}
CHECK_DEADLOCK FALSE
INVARIANTS
    NoOrphanTurn
PROPERTIES
    FailureStaysHome
    EverySettles
    NothingHeldForever
