SPECIFICATION FairSpec
CONSTANTS
    NumBlocks = 4
    MemberEnds = {0, 1, 2, 3}
    Window = 1
    InputFaults <- SingleFaults
    Workers = {w1, w2}
    ChannelBound = 2
    CapEnabled = TRUE
    InflightMax = 2
    SinkCapacity = 1
INVARIANT BgzfInflightBounded
PROPERTY BgzfKeepsPromise
PROPERTY BgzfTerminates
