SPECIFICATION Spec
CONSTANTS
    NumBlocks = 4
    MemberEnds = {1, 3}
    Window = 2
    InputFaults <- HealthyInputs
    Workers = {w1, w2}
    Resolvers = {r1, r2}
    ChannelBound = 2
    Configs <- CappedConfigs
    InflightFloor = 3
    SinkCapacity = 1
SYMMETRY Symmetry
INVARIANT TypeOK
INVARIANT ChainInvariant
INVARIANT InflightBounded
INVARIANT NoChunkLost
INVARIANT RedecodeHasCause
