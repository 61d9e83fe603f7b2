CONSTANTS
    Calls = {c1}
    Ids = {i1}
    None = none
    Capacity = 1
    MaxFrames = 2
    ReuseIds = FALSE
SPECIFICATION Spec
INVARIANTS NoStreamHangs
CHECK_DEADLOCK FALSE
