SPECIFICATION Spec
CONSTANTS
    Window = 2
    FlushAt = 5
    HandoffAt = 4
    MaxLen = 3
    MaxOut = 9
    Text <- MCText
    History <- MCHistory
INVARIANTS
    TypeOK
    ResolvedIsDirect
    TableAgrees
    WindowBounded
CHECK_DEADLOCK FALSE
