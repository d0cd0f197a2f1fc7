--------------------------- MODULE MCTileMultiply ---------------------------
(***************************************************************************)
(* An array of four rows, an activation to a word, on both devices.  It    *)
(* takes 2 * KERNEL_DIM - 1 rows of input before the first result: the     *)
(* sequences are shorter than that, and long enough for the whole pipeline *)
(* to fill before the input ends.                                          *)
(***************************************************************************)
EXTENDS SoftwareMultiply

(* For KERNEL_DIM = 4: outputs while draining only, and while feeding. *)
MCSeqLens4 == {1, 3, 8}
=============================================================================
