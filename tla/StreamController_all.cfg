CONSTANTS
    Streams = {s1}
    Untracked = untracked
    Capacity = 2
    HighWatermark = 2
    LowWatermark = 0
    MaxItems = 4
    MaxUntracked = 1
    AckedStreams = {s1}
SPECIFICATION FairSpec
INVARIANTS TypeOK CountUpper CountLower TrackingReclaimed
PROPERTIES ImplementsDeliveryChannel SendReturns EndedStreamForgotten
CHECK_DEADLOCK FALSE
