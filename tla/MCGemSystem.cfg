SPECIFICATION FairSpec
CONSTANTS
    BootCpus = {"AtomicSimpleCPU", "MinorCPU", "DerivO3CPU"}
    RestoreCpus = {"MinorCPU", "DerivO3CPU"}
    AfterCheckpoint = {"exit", "continue"}
    Products = 3
    Iterations <- MCIterations
    NumCpus = 2
    RobSize = 4
    MaxUpsets = 1
    MaxRestores = 2
INVARIANTS
    InOrderDeviceSeesProgram
    CheckpointBehindProduct
PROPERTY
    SimulationAdvances
CHECK_DEADLOCK FALSE
