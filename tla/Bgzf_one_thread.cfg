SPECIFICATION FairSpec
CONSTANTS
    NumBlocks = 6
    MemberEnds = {0, 1, 2, 3, 4, 5}
    Window = 1
    InputFaults <- OneBadCrc
    Workers = {w1}
    ChannelBound = 2
    CapEnabled = TRUE
    InflightMax = 16
    SinkCapacity = 1
PROPERTY BgzfTerminates
CHECK_DEADLOCK FALSE
