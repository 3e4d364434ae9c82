SPECIFICATION Spec
CONSTANTS
    r1 = r1
    r2 = r2
    c1 = c1
    c2 = c2
    c3 = c3
    None = None
    Requests = {r1, r2}
    Calls = {c1, c2, c3}
    Streaming = {}
    MaxItems = 2
    BufferLimit = 2
    Faults = {"early", "pipe", "exit", "close"}
SYMMETRY Symmetry
CHECK_DEADLOCK FALSE
INVARIANTS
    NoCallDropped
    StreamInOrder
PROPERTIES
    ImplementsBroker
