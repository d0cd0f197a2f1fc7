SPECIFICATION FairSpec
CONSTANTS
    KERNEL_DIM = 2
    ACT_PER_BUS = 2
    W_PER_BUS = 2
    RowTiles = 5
    ColTiles = 2
    TileKinds <- MCTileKinds
    WORD_BITS = 2
INVARIANTS
    AllCalled
    LinesDelimited
    AllConsumed
    BlocksInStep
PROPERTIES
    ImplementsSchedule
