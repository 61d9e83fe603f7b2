CONSTANTS
    Requests = {r1, r2}
    NoRequest = none
    Capacity = 1
    ReplyCapacity = 1
    MaxItems = 1
    Panics = {}
    Swallowed = {}
SPECIFICATION Spec
INVARIANTS DroppedCancelIsHarmless
CHECK_DEADLOCK FALSE
