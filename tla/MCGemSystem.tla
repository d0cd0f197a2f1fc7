----------------------------- MODULE MCGemSystem ----------------------------
(* Products with a checkpoint between each two of them.  There are two     *)
(* iterations of the loop over the input, so that a word that is late can  *)
(* be overtaken by the next one.                                           *)
EXTENDS GemSystem

MCIterations == <<1, 2, 1>>
=============================================================================
