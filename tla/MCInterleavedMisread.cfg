SPECIFICATION FairSpec
CONSTANTS
    KERNEL_DIM = 2
    ACT_PER_BUS = 1
    W_PER_BUS = 1
    RowTiles = 3
    ColTiles = 2
    TileKinds <- MCTileKinds
    WORD_BITS = 4
INVARIANTS
    CallsFaithful
