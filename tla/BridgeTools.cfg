SPECIFICATION Spec
CONSTANTS
    r1 = r1
    r2 = r2
    r3 = r3
    c1 = c1
    c2 = c2
    None = None
    Requests = {r1, r2, r3}
    Calls = {c1, c2}
    Streaming = {r1, r2, r3}
    MaxItems = 0
    BufferLimit = 2
    Faults = {"exit"}
SYMMETRY Symmetry
CHECK_DEADLOCK FALSE
INVARIANTS
    ResultFromItsOffer
    IdleResumable
    CallAnsweredOnce
    SingleFlight
