SPECIFICATION Spec
CONSTANTS
    NumBlocks = 3
    MemberEnds = {0, 2}
    Window = 2
    InputFaults <- HealthyInputs
    Workers = {w1, w2}
    Resolvers = {r1}
    ChunkBits = 2
    Believable <- AnyStarts
    WorkBound = 1
    ChannelBound = 1
    InflightCap = 2
    SinkCapacity = 1
    ReadsMayFail = FALSE
INVARIANT HealthyNeverFails
