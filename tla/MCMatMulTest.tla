---------------------------- MODULE MCMatMulTest ----------------------------
(***************************************************************************)
(* The test program, on an 8 x 8 array with four words to a row.  It has   *)
(* one test, of five rows; the ones it has commented out are longer than   *)
(* the array is deep for some sizes, as 17 rows are here.                  *)
(***************************************************************************)
EXTENDS MatMulTest

SoftwareDevice == {"software"}
GemDevice      == {"gem5"}

MCRowCounts == {1, 5, 17}
MCFiveRows  == {5}
=============================================================================
