CONSTANTS
    Requests = {r1, r2}
    NoRequest = none
    Subsystems = {sys}
    Hooked = {sys}
    Owners = {}
    Names = {}
    NoOwner = nobody
    NumSubscribers = 2
    InboundCapacity = 2
    QueueCapacity = 1
    Capacity = 1
    MaxResponses = 3
    MaxCancels = 1
    MaxChanges = 0
    MaxStrays = 0
    Mortal = {}
SYMMETRY RequestSymmetry
SPECIFICATION Spec
INVARIANTS TypeOK SettledMeansTold MapsAgree CancelFollowsRequest HookedMeansCancelled
PROPERTIES ChannelsAsPromised
CHECK_DEADLOCK FALSE
