SPECIFICATION Spec
CONSTANTS
    TotalBits = 26
    DataSet <- MCDataSet
INVARIANT
    FindsNextBlock
CHECK_DEADLOCK FALSE
