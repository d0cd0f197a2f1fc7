------------------------------- MODULE MatMul -------------------------------
(***************************************************************************)
(* What a SparseMatrixMultiplier promises: the product of an activation    *)
(* matrix by a weight matrix, tile by tile, added to the output buffer.    *)
(*                                                                         *)
(* The weight matrix is RowTiles x ColTiles tiles; a set of them, the ones *)
(* the sparse format keeps, is multiplied.  Tile <<r, c>> contributes to   *)
(* every row i of the sequence, and to every word j of that row in the     *)
(* column block c of the output.  Each contribution is added exactly once, *)
(* in any order.                                                           *)
(***************************************************************************)
EXTENDS MatrixDims

VARIABLES
    seq_len,    \* rows of the activation matrix
    kept,       \* the tiles that are multiplied
    output,     \* the output buffer: a word per address
    pending     \* contributions <<r, c, i, j>> not added yet

vars == <<seq_len, kept, output, pending>>

(***************************************************************************)
(* Both matrices are stored block by block: column block b of row i starts *)
(* at word (b * seq_len + i) * MAX_ACT_COL.                                *)
(***************************************************************************)
WordAddr(b, i, j) == (b * seq_len + i) * MAX_ACT_COL + j

OutputAddrs == 0 .. ColTiles * seq_len * MAX_ACT_COL - 1

(* Input element k of row i in block r is named by its element address; an *)
(* element of tile <<r, c>> by its position in the tile, row by row.       *)
InputSymbol(r, i, k) == (r * seq_len + i) * KERNEL_DIM + k

WeightSymbol(r, c, k, cc) == <<r, c, k * KERNEL_DIM + cc>>

(* Row i of the input block r times column cc of the tile <<r, c>>. *)
DotProduct(r, c, i, cc) ==
    { <<InputSymbol(r, i, k), WeightSymbol(r, c, k, cc)>> : k \in Index }

Contribution(r, c, i, j) ==
    [l \in ActLane |-> DotProduct(r, c, i, j * ACT_PER_BUS + l)]

ContributionsOf(tiles) ==
    { <<t[1], t[2], i, j>> : t \in tiles, i \in 0 .. seq_len - 1,
                             j \in 0 .. MAX_ACT_COL - 1 }

-----------------------------------------------------------------------------
Init ==
    /\ seq_len \in SeqLens
    /\ kept \in SUBSET Tiles
    /\ output = [a \in OutputAddrs |-> ZeroAct]
    /\ pending = ContributionsOf(kept)

Accumulate(r, c, i, j) ==
    /\ <<r, c, i, j>> \in pending
    /\ output' = [output EXCEPT ![WordAddr(c, i, j)] =
                     addActIn32(@, Contribution(r, c, i, j))]
    /\ pending' = pending \ { <<r, c, i, j>> }
    /\ UNCHANGED <<seq_len, kept>>

Next == \E p \in pending : Accumulate(p[1], p[2], p[3], p[4])

Spec == Init /\ [][Next]_vars

FairSpec == Spec /\ WF_vars(Next)

-----------------------------------------------------------------------------
(* The tiles of column c whose contribution to word j of row i is added. *)
Added(c, i, j) ==
    { r \in 0 .. RowTiles - 1 : <<r, c>> \in kept /\ <<r, c, i, j>> \notin pending }

(***************************************************************************)
(* Every lane of the output is the sum of the contributions that have been *)
(* added to it, each of them once.                                         *)
(***************************************************************************)
SumOfContributions ==
    \A c \in 0 .. ColTiles - 1, i \in 0 .. seq_len - 1,
       j \in 0 .. MAX_ACT_COL - 1, l \in ActLane :
        output[WordAddr(c, i, j)][l] =
            UNION { DotProduct(r, c, i, j * ACT_PER_BUS + l) : r \in Added(c, i, j) }
=============================================================================
