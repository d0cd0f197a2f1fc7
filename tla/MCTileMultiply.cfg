SPECIFICATION SwFairSpec
CONSTANTS
    KERNEL_DIM = 4
    ACT_PER_BUS = 1
    W_PER_BUS = 2
    RowTiles = 2
    ColTiles = 2
    SeqLens <- MCSeqLens4
INVARIANTS
    TypeOK
    PipelineInv
    CleanBetweenTiles
    PointersInBlocks
    ProductCorrect
    DevelopAgrees
PROPERTIES
    ImplementsMatMul
    Completes
