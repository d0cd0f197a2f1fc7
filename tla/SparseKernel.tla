---------------------------- MODULE SparseKernel ----------------------------
(***************************************************************************)
(* The weight matrix as the sparse formats see it: RowTiles x ColTiles     *)
(* tiles stored one after the other, column by column, TileWords words     *)
(* each.  What the encoders and decoders tell apart is whether a word is   *)
(* zero and whether it is the hidden key; any other word is a number that  *)
(* names its place in the matrix.                                          *)
(***************************************************************************)
EXTENDS TicSatConfig, Sequences

CONSTANTS
    RowTiles,   \* row_in_w: n_row / SA_SIZE for the encoders
    ColTiles,   \* col_in_w: n_col / MAX_W_COL for the encoders
    TileKinds,  \* the kinds of tiles a matrix is made of, see Word
    WORD_BITS   \* bits of a word of flags or metadata, 32 in the code

ASSUME KernelAssumption ==
    /\ RowTiles \in Nat \ {0}
    /\ ColTiles \in Nat \ {0}
    /\ TileKinds \subseteq {"zero", "full", "last", "key"}
    /\ WORD_BITS \in Nat \ {0}

TileWords == KERNEL_DIM * MAX_W_COL
TileCount == RowTiles * ColTiles

Kernels == [0 .. TileCount - 1 -> TileKinds]

HIDDEN_KEY == -1    \* hidden_flag = 0xAAAAAAAA

(* Word w of tile n: a tile of zeros; a tile without zeros; one whose last *)
(* word only is not zero; one that happens to start with the hidden key.   *)
Word(kernel, n, w) ==
    CASE kernel[n] = "zero" -> 0
      [] kernel[n] = "full" -> n * TileWords + w + 1
      [] kernel[n] = "last" -> IF w = TileWords - 1 THEN n * TileWords + w + 1 ELSE 0
      [] kernel[n] = "key"  -> IF w = 0 THEN HIDDEN_KEY ELSE n * TileWords + w + 1

TileAt(kernel, n) == [w \in 1 .. TileWords |-> Word(kernel, n, w - 1)]

(* The scan for a word that is not zero, the same in every encoder. *)
all_zeros(kernel, n) == \A w \in 0 .. TileWords - 1 : Word(kernel, n, w) = 0

(* tile_index / TileWords of the tile in row r and column c. *)
TileIndex(r, c) == c * RowTiles + r

NonZeroTiles(kernel) ==
    { t \in (0 .. RowTiles - 1) \X (0 .. ColTiles - 1) :
        ~ all_zeros(kernel, TileIndex(t[1], t[2])) }

(* The words a call of processMultiplication reads at address p of an      *)
(* array that was allocated with zeros and holds buf.                      *)
ReadTile(buf, p) ==
    [w \in 1 .. TileWords |-> IF p + w <= Len(buf) THEN buf[p + w] ELSE 0]
=============================================================================
