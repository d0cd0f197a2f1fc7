---------------------------- MODULE MCInterleaved ---------------------------
(***************************************************************************)
(* INTERLEAVED with fewer tiles in a column than bits in a metadata word.  *)
(***************************************************************************)
EXTENDS InterleavedFormat

MCTileKinds == {"zero", "last"}
=============================================================================
