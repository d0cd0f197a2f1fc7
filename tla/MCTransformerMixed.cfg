SPECIFICATION Spec
CONSTANTS
    KERNEL_DIM = 4
    ACT_PER_BUS = 1
    W_PER_BUS = 4
    ACTIVATION_FP = TRUE
    Models <- MCOneHead
    MaxRuns = 1
INVARIANT
    OutputExact
CHECK_DEADLOCK FALSE
