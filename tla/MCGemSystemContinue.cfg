SPECIFICATION Spec
CONSTANTS
    BootCpus = {"MinorCPU"}
    RestoreCpus = {"MinorCPU", "DerivO3CPU"}
    AfterCheckpoint = {"continue"}
    Products = 2
    Iterations <- MCIterations
    NumCpus = 2
    RobSize = 5
    MaxUpsets = 0
    MaxRestores = 0
INVARIANT
    DeviceSeesProgram
CHECK_DEADLOCK FALSE
