SPECIFICATION FairSpec
CONSTANTS
    KERNEL_DIM = 4
    ACT_PER_BUS = 4
    W_PER_BUS = 4
    ACTIVATION_FP = FALSE
    Models <- MCModels
    MaxRuns = 2
INVARIANTS
    FinishedHeads
    OutputExact
PROPERTY
    AllRunsFinish
CHECK_DEADLOCK FALSE
