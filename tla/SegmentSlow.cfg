SPECIFICATION Spec
CHECK_DEADLOCK FALSE
CONSTANTS
    Items = {m1}
    Letters = {a}
    MaxText = 1
    MaxRoom = 11
INVARIANT
    StreamEndsExplicitly
