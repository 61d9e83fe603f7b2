CONSTANTS
    Requests = {r1, r2}
    NoRequest = none
    Capacity = 1
    ReplyCapacity = 1
    MaxItems = 1
    Panics = {r2}
    Swallowed = {r2}
SPECIFICATION FairSpec
INVARIANTS TypeOK TokensMatchTasks OneTerminalFrame
PROPERTIES CancelReachesHandler RequestsAreStarted
CHECK_DEADLOCK FALSE
