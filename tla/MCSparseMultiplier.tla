------------------------- MODULE MCSparseMultiplier -------------------------
(***************************************************************************)
(* Every matrix of a few tiles in every format.  With 5 x 2 tiles and      *)
(* words of two bits a column needs three metadata words and does not fill *)
(* the last one, words of flags end inside a column and across two, lines  *)
(* without tiles are at the start, at the end and next to each other.      *)
(* With 3 x 2 tiles and words of four bits INTERLEAVED looks at bits the   *)
(* encoder did not write.                                                  *)
(***************************************************************************)
EXTENDS SparseMultiplier

MCTileKinds == {"zero", "last"}
=============================================================================
