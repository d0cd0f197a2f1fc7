SPECIFICATION Spec
CONSTANTS
    KERNEL_DIM = 8
    ACT_PER_BUS = 2
    W_PER_BUS = 4
    Devices <- GemDevice
    RowCounts <- MCFiveRows
    MaxTests = 1
INVARIANT
    ResultsMatchBaseline
CHECK_DEADLOCK FALSE
