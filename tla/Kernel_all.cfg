SPECIFICATION FairSpec
CONSTANTS
    Callee <- SelfCall
    a = a
    b = b
    r1 = r1
    r2 = r2
    None = None
    Subsystems = {a, b}
    Dispatched = {a}
    Requests = {r1, r2}
    Calls = {r2}
    InboundCapacity = 1
    PipeCapacity = 1
    MaxItems = 1
    MaxCancels = 1
    Mortal = {a, b}
    MayAbort = TRUE
INVARIANTS TypeOK NoRequestForgotten ResponsesConserved StopsSettled
PROPERTIES AnswersArrive ShutdownCompletes
CHECK_DEADLOCK FALSE
