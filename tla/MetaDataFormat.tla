--------------------------- MODULE MetaDataFormat ---------------------------
(***************************************************************************)
(* Format META_DATA: dense2metaData and computeMetaData.  m1 has a flag    *)
(* for each column of tiles; m2 a flag for each tile of the columns that   *)
(* are not all zeros, and no place for the others: the encoder writes the  *)
(* flags of such a column where those of the next one will be.             *)
(***************************************************************************)
EXTENDS SparseKernel

VARIABLES
    kernel,
    pc,         \* "encode", "decode" or "done"
    i, j,       \* i: row, j: column of the encoder; the reverse in the decoder
    buf,        \* new_kernel: the words of the tiles that are not zero
    m1, m2,
    m2StartIndex,
    columnAllZeros,
    m1Ptr, m2Ptr, values,   \* m1, m2 and values as the decoder moves them
    calls       \* calls of processMultiplication

encoderVars == <<buf, m1, m2, m2StartIndex, columnAllZeros>>
decoderVars == <<m1Ptr, m2Ptr, values, calls>>

vars == <<kernel, pc, i, j, encoderVars, decoderVars>>

Init ==
    /\ kernel \in Kernels
    /\ pc = "encode"
    /\ i = 0 /\ j = 0
    /\ buf = << >>
    /\ m1 = [c \in 0 .. ColTiles - 1 |-> FALSE]
    /\ m2 = [n \in 0 .. TileCount - 1 |-> FALSE]
    /\ m2StartIndex = 0 /\ columnAllZeros = TRUE
    /\ m1Ptr = 0 /\ m2Ptr = 0 /\ values = 0
    /\ calls = << >>

EncodeTile ==
    /\ pc = "encode" /\ j < ColTiles /\ i < RowTiles
    /\ LET tileAllZeros == all_zeros(kernel, TileIndex(i, j))
       IN  /\ m2' = [m2 EXCEPT ![m2StartIndex + i] = ~ tileAllZeros]
           /\ IF tileAllZeros
                THEN UNCHANGED <<buf, columnAllZeros>>
                ELSE /\ buf' = buf \o TileAt(kernel, TileIndex(i, j))
                     /\ columnAllZeros' = FALSE
    /\ i' = i + 1
    /\ UNCHANGED <<kernel, pc, j, m1, m2StartIndex, decoderVars>>

(* Mutant of EncodeColumn: m2 has a place for an all-zero column too. *)
EncodeColumn_always ==
    /\ pc = "encode" /\ j < ColTiles /\ i = RowTiles
    /\ m1' = [m1 EXCEPT ![j] = ~ columnAllZeros]
    /\ m2StartIndex' = m2StartIndex + RowTiles
    /\ j' = j + 1 /\ i' = 0
    /\ columnAllZeros' = TRUE
    /\ UNCHANGED <<kernel, pc, buf, m2, decoderVars>>

EncodeColumn ==
    /\ pc = "encode" /\ j < ColTiles /\ i = RowTiles
    /\ m1' = [m1 EXCEPT ![j] = ~ columnAllZeros]
    /\ m2StartIndex' = IF columnAllZeros THEN m2StartIndex
                                         ELSE m2StartIndex + RowTiles
    /\ j' = j + 1 /\ i' = 0
    /\ columnAllZeros' = TRUE
    /\ UNCHANGED <<kernel, pc, buf, m2, decoderVars>>

EncodeReturn ==
    /\ pc = "encode" /\ j = ColTiles
    /\ pc' = "decode"
    /\ i' = 0 /\ j' = 0
    /\ UNCHANGED <<kernel, encoderVars, decoderVars>>

(* Mutant of SkipColumn: the flags of the column are skipped too. *)
SkipColumn_flags ==
    /\ pc = "decode" /\ i < ColTiles /\ j = 0
    /\ ~ m1[m1Ptr]
    /\ m1Ptr' = m1Ptr + 1
    /\ m2Ptr' = m2Ptr + RowTiles
    /\ i' = i + 1
    /\ UNCHANGED <<kernel, pc, j, encoderVars, values, calls>>

(* A column whose flag in m1 is clear is skipped, and nothing of m2. *)
SkipColumn ==
    /\ pc = "decode" /\ i < ColTiles /\ j = 0
    /\ ~ m1[m1Ptr]
    /\ m1Ptr' = m1Ptr + 1
    /\ i' = i + 1
    /\ UNCHANGED <<kernel, pc, j, encoderVars, m2Ptr, values, calls>>

(* The loop over the rows of a column whose flag is set; m1Ptr is moved as *)
(* the column is entered, here with its last tile.                         *)
DecodeTile ==
    /\ pc = "decode" /\ i < ColTiles
    /\ m1[m1Ptr]
    /\ m2Ptr' = m2Ptr + 1
    /\ IF m2[m2Ptr]
         THEN /\ calls' = Append(calls, <<j, i, ReadTile(buf, values)>>)
              /\ values' = values + TileWords
         ELSE UNCHANGED <<calls, values>>
    /\ IF j = RowTiles - 1
         THEN i' = i + 1 /\ j' = 0 /\ m1Ptr' = m1Ptr + 1
         ELSE j' = j + 1 /\ UNCHANGED <<i, m1Ptr>>
    /\ UNCHANGED <<kernel, pc, encoderVars>>

DecodeReturn ==
    /\ pc = "decode" /\ i = ColTiles
    /\ pc' = "done"
    /\ UNCHANGED <<kernel, i, j, encoderVars, decoderVars>>

Finished == pc = "done" /\ UNCHANGED vars

Next == \/ EncodeTile \/ EncodeColumn \/ EncodeReturn
        \/ SkipColumn \/ DecodeTile \/ DecodeReturn
        \/ Finished

-----------------------------------------------------------------------------
(* Properties. *)

(* When the decoder returns it has consumed exactly what was encoded. *)
AllConsumed ==
    pc = "done" => /\ values = Len(buf)
                   /\ m2Ptr = m2StartIndex
                   /\ m1Ptr = ColTiles
=============================================================================
