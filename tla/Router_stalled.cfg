CONSTANTS
    Requests = {r1}
    NoRequest = none
    Subsystems = {sys}
    Hooked = {sys}
    Owners = {}
    Names = {}
    NoOwner = nobody
    NumSubscribers = 1
    InboundCapacity = 2
    QueueCapacity = 1
    Capacity = 1
    MaxResponses = 3
    MaxCancels = 1
    MaxChanges = 0
    MaxStrays = 0
    Mortal = {}
SPECIFICATION Spec
INVARIANTS StalledStreamIsCancelled
CHECK_DEADLOCK FALSE
