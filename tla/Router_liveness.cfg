CONSTANTS
    Requests = {r1, r2}
    NoRequest = none
    Subsystems = {}
    Hooked = {}
    Owners = {owner}
    Names = {name}
    NoOwner = nobody
    NumSubscribers = 1
    InboundCapacity = 2
    QueueCapacity = 1
    Capacity = 1
    MaxResponses = 1
    MaxCancels = 1
    MaxChanges = 1
    MaxStrays = 1
    Mortal = {owner, 1}
SPECIFICATION FairSpec
INVARIANTS SettledMeansTold MapsAgree
PROPERTIES RequestsAreHandled CancelUnblocks
CHECK_DEADLOCK FALSE
