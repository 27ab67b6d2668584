SPECIFICATION FairSpec
CONSTANTS
    NumBlocks = 3
    MemberEnds = {0, 2}
    Window = 2
    InputFaults <- AllInputs
    Workers = {w1, w2}
    Resolvers = {r1, r2}
    ChannelBound = 1
    Configs <- AllConfigs
    InflightFloor = 2
    SinkCapacity = 1
INVARIANT DeliveredIsTrueOutput
INVARIANT OkMeansComplete
PROPERTY Terminates
PROPERTY HealthySucceeds
PROPERTY KeepsPromise
