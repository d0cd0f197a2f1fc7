---------------------------- MODULE StreamFormat ----------------------------
(***************************************************************************)
(* The formats that are one array of words read tile by tile:              *)
(*   NON_PRUNED  the dense matrix, every tile multiplied;                  *)
(*   DYNAMIC     the dense matrix, the decoder looks for zero tiles;       *)
(*   WITH_FLAG   remove_zero_tiles, and a bit per tile beside the array,   *)
(*               set for the tiles that were removed (read from a file);   *)
(*   HIDDEN_KEY  interleave_hidden_flag_zero_free: a zero tile is replaced *)
(*               by one word, the key.                                     *)
(* The encoders take the matrix for n_row / SA_SIZE lines of               *)
(* n_col / MAX_W_COL tiles, the decoders for columns of tiles.             *)
(***************************************************************************)
EXTENDS SparseKernel

VARIABLES
    format,
    kernel,
    pc,             \* "encode", "decode" or "done"
    i, j,           \* loop variables of the encoder, then of the decoder
    buf,            \* the array of words
    values,         \* the decoder's pointer into it
    flag, counter,  \* the decoder's word of flags and bit in it
    calls           \* calls of processMultiplication

vars == <<format, kernel, pc, i, j, buf, values, flag, counter, calls>>

(* The words of the dense matrix. *)
Dense == [n \in 1 .. TileCount * TileWords |->
             Word(kernel, (n - 1) \div TileWords, (n - 1) % TileWords)]

(* The flags of the file: bit b of word f, the first bit first, is set     *)
(* when tile f * WORD_BITS + b of the matrix was removed.                  *)
FlagWord(f) ==
    { b \in 0 .. WORD_BITS - 1 : /\ f * WORD_BITS + b < TileCount
                                 /\ all_zeros(kernel, f * WORD_BITS + b) }

(* What the hidden key supposes of the matrix: no tile of it that is not   *)
(* zero starts with the key.  Nothing in the code sees to it.              *)
KeyFree(m) == \A n \in DOMAIN m : m[n] # "key"

Init ==
    /\ format \in {"NON_PRUNED", "DYNAMIC", "WITH_FLAG", "HIDDEN_KEY"}
    /\ kernel \in Kernels
    /\ format = "HIDDEN_KEY" => KeyFree(kernel)
    /\ pc = IF format \in {"WITH_FLAG", "HIDDEN_KEY"} THEN "encode" ELSE "decode"
    /\ i = 0 /\ j = 0
    /\ buf = IF format \in {"WITH_FLAG", "HIDDEN_KEY"} THEN << >> ELSE Dense
    /\ values = 0 /\ flag = 0 /\ counter = 0
    /\ calls = << >>

(* The next place of a loop over lines of the given length. *)
NextPlace(length) ==
    IF j = length - 1 THEN i' = i + 1 /\ j' = 0
                      ELSE j' = j + 1 /\ UNCHANGED i

(* One tile of remove_zero_tiles or interleave_hidden_flag_zero_free. *)
EncodeTile ==
    /\ pc = "encode" /\ i < RowTiles
    /\ LET tile_index == i * ColTiles + j
       IN  buf' = IF ~ all_zeros(kernel, tile_index)
                    THEN buf \o TileAt(kernel, tile_index)
                  ELSE IF format = "HIDDEN_KEY" THEN Append(buf, HIDDEN_KEY)
                  ELSE buf
    /\ NextPlace(ColTiles)
    /\ UNCHANGED <<format, kernel, pc, values, flag, counter, calls>>

EncodeReturn ==
    /\ pc = "encode" /\ i = RowTiles
    /\ pc' = "decode"
    /\ i' = 0
    /\ UNCHANGED <<format, kernel, j, buf, values, flag, counter, calls>>

Call == calls' = Append(calls, <<j, i, ReadTile(buf, values)>>)

(* One tile of computeNonPruned. *)
NonPruned ==
    /\ format = "NON_PRUNED"
    /\ Call
    /\ values' = values + TileWords
    /\ UNCHANGED <<flag, counter>>

(* Mutant of Dynamic: the scan stops at the first word. *)
Dynamic_firstWord ==
    /\ format = "DYNAMIC"
    /\ IF buf[values + 1] = 0 THEN UNCHANGED calls ELSE Call
    /\ values' = values + TileWords
    /\ UNCHANGED <<flag, counter>>

(* One tile of computeDynamic: the words of the tile are looked at first. *)
Dynamic ==
    /\ format = "DYNAMIC"
    /\ IF \A w \in 1 .. TileWords : buf[values + w] = 0 THEN UNCHANGED calls
                                                        ELSE Call
    /\ values' = values + TileWords
    /\ UNCHANGED <<flag, counter>>

(* Mutant of WithFlag: the bits start again, the word stays. *)
WithFlag_sameWord ==
    /\ format = "WITH_FLAG"
    /\ counter' = IF counter = WORD_BITS THEN 1 ELSE counter + 1
    /\ IF counter' - 1 \in FlagWord(flag)
         THEN UNCHANGED <<calls, values>>
         ELSE Call /\ values' = values + TileWords
    /\ UNCHANGED flag

(* One tile of computeWithFlag: the word of flags is advanced when its     *)
(* bits are used up, also in the middle of a column.                       *)
WithFlag ==
    /\ format = "WITH_FLAG"
    /\ flag' = IF counter = WORD_BITS THEN flag + 1 ELSE flag
    /\ counter' = IF counter = WORD_BITS THEN 1 ELSE counter + 1
    /\ IF counter' - 1 \in FlagWord(flag')
         THEN UNCHANGED <<calls, values>>
         ELSE Call /\ values' = values + TileWords

(* Mutant of HiddenKey: the pointer stays on the key. *)
HiddenKey_stays ==
    /\ format = "HIDDEN_KEY"
    /\ IF values < Len(buf) /\ buf[values + 1] = HIDDEN_KEY
         THEN UNCHANGED <<calls, values>>
         ELSE Call /\ values' = values + TileWords
    /\ UNCHANGED <<flag, counter>>

(* One tile of computeHiddenKey. *)
HiddenKey ==
    /\ format = "HIDDEN_KEY"
    /\ IF values < Len(buf) /\ buf[values + 1] = HIDDEN_KEY
         THEN values' = values + 1 /\ UNCHANGED calls
         ELSE Call /\ values' = values + TileWords
    /\ UNCHANGED <<flag, counter>>

DecodeTile ==
    /\ pc = "decode" /\ i < ColTiles
    /\ NonPruned \/ Dynamic \/ WithFlag \/ HiddenKey
    /\ NextPlace(RowTiles)
    /\ UNCHANGED <<format, kernel, pc, buf>>

DecodeReturn ==
    /\ pc = "decode" /\ i = ColTiles
    /\ pc' = "done"
    /\ UNCHANGED <<format, kernel, i, j, buf, values, flag, counter, calls>>

Finished == pc = "done" /\ UNCHANGED vars

Next == \/ EncodeTile \/ EncodeReturn
        \/ DecodeTile \/ DecodeReturn
        \/ Finished

-----------------------------------------------------------------------------
(* Properties. *)

(* A decoder that has returned has read the whole array and nothing behind *)
(* it.                                                                     *)
AllConsumed == pc = "done" => values = Len(buf)
=============================================================================
