SPECIFICATION FairSpec
CONSTANTS
    NumBlocks = 5
    MemberEnds = {1, 4}
    Window = 2
    InputFaults <- OneDamage
    Workers = {w1, w2}
    Resolvers = {r1}
    ChunkBits = 2
    Believable <- TrueStarts
    WorkBound = 1
    ChannelBound = 1
    InflightCap = 4
    SinkCapacity = 1
    ReadsMayFail = TRUE
INVARIANT TokensConserved
PROPERTY StreamKeepsPromise
PROPERTY StreamTerminates
