SPECIFICATION FairSpec
CONSTANTS
    KERNEL_DIM = 8
    ACT_PER_BUS = 2
    W_PER_BUS = 4
    Devices <- SoftwareDevice
    RowCounts <- MCRowCounts
    MaxTests = 2
INVARIANT
    ResultsMatchBaseline
PROPERTY
    TestsFinish
CHECK_DEADLOCK FALSE
