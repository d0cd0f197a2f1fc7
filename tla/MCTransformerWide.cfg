SPECIFICATION Spec
CONSTANTS
    KERNEL_DIM = 4
    ACT_PER_BUS = 1
    W_PER_BUS = 1
    ACTIVATION_FP = FALSE
    Models <- MCTwoHeads
    MaxRuns = 1
INVARIANT
    FinishedHeads
CHECK_DEADLOCK FALSE
