SPECIFICATION Spec
CONSTANTS
    MAX_CODE_LEN = 3
    LUT_BITS = 2
    RevHalf = 2
    MaxSymbols = 7
    LitSizes = {2, 4, 5}
    DistSizes = {1, 2, 4}
    MaxLit = 4
    MaxDist = 3
    EndOfBlock = 1
    RunBase <- MCRunBase
    ExtraMax = 1
    TrialSymbols = 2
    PreCodes <- MCPreCodes
    EarlierCodes <- MCEarlierCodes
INVARIANTS
    HeaderTypeOK
    TablesCanonical
    SafeAgrees
    VerifiedIsParsed
    RefusesOnlyIncomplete
CHECK_DEADLOCK FALSE
