SPECIFICATION Spec
CONSTANTS
    r1 = r1
    c1 = c1
    None = None
    Requests = {r1}
    Calls = {c1}
    Streaming = {}
    MaxItems = 0
    BufferLimit = 1
    Faults = {"timeout", "rpcTimeout"}
CHECK_DEADLOCK FALSE
INVARIANTS
    TimedOutTurnInterrupted
