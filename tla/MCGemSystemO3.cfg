SPECIFICATION Spec
CONSTANTS
    BootCpus = {"DerivO3CPU"}
    RestoreCpus = {"MinorCPU", "DerivO3CPU"}
    AfterCheckpoint = {"exit"}
    Products = 1
    Iterations <- MCIterations
    NumCpus = 2
    RobSize = 5
    MaxUpsets = 0
    MaxRestores = 0
INVARIANT
    DeviceSeesProgram
CHECK_DEADLOCK FALSE
