SPECIFICATION Spec
CONSTANTS
    NumBlocks = 6
    MemberEnds <- MCMemberEnds
    StoredBlocks <- MCStoredBlocks
    BlockBits <- MCBlockBits
    BlockOut <- MCBlockOut
    EobBits <- MCEobBits
    HeaderLen = 18
    Window = 2
    IsizeModulus = 4
    ReadMax = 6
    ChunkTarget = 1
    Hints <- MCHints
    Room = 1
    Setups <- MCSetups
    Inputs <- MCInputs
INVARIANTS
    ReadGzTypeOK
    BufferBounded
    OutputBounded
    FoldedOnce
PROPERTIES
    KeepsReadPromise
    ReturnsUnlessStuck
CHECK_DEADLOCK FALSE
