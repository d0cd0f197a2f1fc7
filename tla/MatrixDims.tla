----------------------------- MODULE MatrixDims -----------------------------
(***************************************************************************)
(* The sizes of a matrix product: the weight matrix in tiles, the lengths  *)
(* of the sequences.                                                       *)
(***************************************************************************)
EXTENDS TicSatConfig

CONSTANTS
    RowTiles,   \* row_in_w = input_size_ / KERNEL_DIM
    ColTiles,   \* col_in_w = output_size_ / KERNEL_DIM
    SeqLens     \* sequence lengths the multiplier is constructed with

ASSUME DimsAssumption ==
    /\ RowTiles \in Nat \ {0}
    /\ ColTiles \in Nat \ {0}
    /\ SeqLens \subseteq Nat \ {0}

Tiles == (0 .. RowTiles - 1) \X (0 .. ColTiles - 1)
=============================================================================
