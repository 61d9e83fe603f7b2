CONSTANTS
    Calls = {c1, c2}
    Ids = {i1, i2}
    None = none
    Capacity = 1
    MaxFrames = 3
    ReuseIds = FALSE
SPECIFICATION FairSpec
INVARIANTS TypeOK FramesFindTheirCall OnlyAbandonedLeak
PROPERTIES StreamsWakeUp
CHECK_DEADLOCK FALSE
