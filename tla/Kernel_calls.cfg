SPECIFICATION Spec
CONSTANTS
    Callee <- CallOnward
    a = a
    b = b
    r1 = r1
    r2 = r2
    None = None
    Subsystems = {a, b}
    Dispatched = {a}
    Requests = {r1, r2}
    Calls = {r2}
    InboundCapacity = 1
    PipeCapacity = 1
    MaxItems = 1
    MaxCancels = 0
    Mortal = {}
    MayAbort = FALSE
INVARIANTS SettledCallsAreAnswered
CHECK_DEADLOCK FALSE
