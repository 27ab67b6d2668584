SPECIFICATION Spec
CONSTANTS
    NumBytes = 9
    ByteBits = 4
    WordBytes = 4
    MaxAsk = 12
    NEEDED = 10
    LIT_GUARD = 4
INVARIANTS
    ReaderTypeOK
    BufferFaithful
PROPERTY
    IsBitStream
CHECK_DEADLOCK FALSE
