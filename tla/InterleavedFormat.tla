-------------------------- MODULE InterleavedFormat -------------------------
(***************************************************************************)
(* Format INTERLEAVED: dense2interleavedMetaData, the one encoder that     *)
(* inference() calls, and computeInterleavedMetaData.  A column of tiles   *)
(* is a block: a word with the offset of the next block, the words of the  *)
(* metadata with a bit for each tile, the tiles that are not zero.         *)
(*                                                                         *)
(* Words of the array: an offset is a number, a metadata word the set of   *)
(* its bits, a word of a tile a number.  The array is written in place.    *)
(***************************************************************************)
EXTENDS SparseKernel, FiniteSets

VARIABLES
    kernel,
    pc,             \* "encode", "enter", "decode", "overrun" or "done"
    i, j,           \* i: row, j: column of the encoder; i: column of the decoder
    buf,            \* new_kernel, as far as it is written
    offset_to_next_block,
    metadata,       \* pointer to the current metadata word
    counter32,      \* the bit in it
    values, next_block, row,
    values_start,   \* address of the first tile of the decoder's block
    calls           \* calls of processMultiplication

encoderVars == <<j, buf, offset_to_next_block>>

vars == <<kernel, pc, i, encoderVars, metadata, counter32, values, next_block,
          row, values_start, calls>>

metadata_block_size == CEILING_DIV(RowTiles, WORD_BITS)

(* First bit the decoder looks at in the metadata of a block. *)
metadata_offset == WORD_BITS - IF RowTiles < WORD_BITS THEN RowTiles ELSE WORD_BITS

BlockHeader == <<0>> \o [n \in 1 .. metadata_block_size |-> {}]

Init ==
    /\ kernel \in Kernels
    /\ pc = "encode"
    /\ i = 0 /\ j = 0
    /\ buf = BlockHeader
    /\ offset_to_next_block = 0 /\ metadata = 1 /\ counter32 = 0
    /\ values = 0 /\ next_block = 0 /\ row = 0 /\ values_start = 0
    /\ calls = << >>

(* Mutant of EncodeTile: a full metadata word is used again. *)
EncodeTile_sameWord ==
    /\ pc = "encode" /\ j < ColTiles /\ i < RowTiles
    /\ LET tile_index == TileIndex(i, j)
       IN  buf' = IF all_zeros(kernel, tile_index) THEN buf
                  ELSE [buf EXCEPT ![metadata + 1] = @ \cup {counter32}]
                         \o TileAt(kernel, tile_index)
    /\ counter32' = (counter32 + 1) % WORD_BITS
    /\ i' = i + 1
    /\ UNCHANGED <<kernel, pc, j, offset_to_next_block, metadata, values,
                   next_block, row, values_start, calls>>

(* A tile that is not zero is copied and its bit is set; the next metadata *)
(* word is cleared when it is one (the tiles start right behind the last). *)
EncodeTile ==
    /\ pc = "encode" /\ j < ColTiles /\ i < RowTiles
    /\ LET tile_index == TileIndex(i, j)
       IN  buf' = IF all_zeros(kernel, tile_index) THEN buf
                  ELSE [buf EXCEPT ![metadata + 1] = @ \cup {counter32}]
                         \o TileAt(kernel, tile_index)
    /\ IF counter32 + 1 = WORD_BITS
         THEN metadata' = metadata + 1 /\ counter32' = 0
         ELSE counter32' = counter32 + 1 /\ UNCHANGED metadata
    /\ i' = i + 1
    /\ UNCHANGED <<kernel, pc, j, offset_to_next_block, values, next_block,
                   row, values_start, calls>>

(* Mutant of EncodeBlock: the offset is counted from behind its own word. *)
EncodeBlock_short ==
    /\ pc = "encode" /\ j < ColTiles /\ i = RowTiles
    /\ LET closed == [buf EXCEPT ![offset_to_next_block + 1] =
                                    Len(buf) - offset_to_next_block - 1]
       IN  IF j + 1 < ColTiles
             THEN /\ buf' = closed \o BlockHeader
                  /\ offset_to_next_block' = Len(buf)
                  /\ metadata' = Len(buf) + 1
                  /\ counter32' = 0
             ELSE /\ buf' = closed
                  /\ UNCHANGED <<offset_to_next_block, metadata, counter32>>
    /\ j' = j + 1 /\ i' = 0
    /\ UNCHANGED <<kernel, pc, values, next_block, row, values_start, calls>>

(* The offset of the block is stored and the header of the next one made. *)
EncodeBlock ==
    /\ pc = "encode" /\ j < ColTiles /\ i = RowTiles
    /\ LET closed == [buf EXCEPT ![offset_to_next_block + 1] =
                                    Len(buf) - offset_to_next_block]
       IN  IF j + 1 < ColTiles
             THEN /\ buf' = closed \o BlockHeader
                  /\ offset_to_next_block' = Len(buf)
                  /\ metadata' = Len(buf) + 1
                  /\ counter32' = 0
             ELSE /\ buf' = closed
                  /\ UNCHANGED <<offset_to_next_block, metadata, counter32>>
    /\ j' = j + 1 /\ i' = 0
    /\ UNCHANGED <<kernel, pc, values, next_block, row, values_start, calls>>

EncodeReturn ==
    /\ pc = "encode" /\ j = ColTiles
    /\ pc' = "enter"
    /\ i' = 0
    /\ UNCHANGED <<kernel, encoderVars, metadata, counter32, values, next_block,
                   row, values_start, calls>>

(* The decoder reads the header of block i. *)
EnterBlock ==
    /\ pc = "enter" /\ i < ColTiles
    /\ next_block' = values + buf[values + 1]
    /\ metadata' = values + 1
    /\ values' = values + 1 + metadata_block_size
    /\ values_start' = values + 1 + metadata_block_size
    /\ counter32' = metadata_offset
    /\ row' = 0
    /\ pc' = "decode"
    /\ UNCHANGED <<kernel, i, encoderVars, calls>>

(* The metadata word and the bit the loop looks at next. *)
WordAndBit == IF counter32 = WORD_BITS THEN <<metadata + 1, 0>>
                                       ELSE <<metadata, counter32>>

(* Mutant of DecodeTile: the pointer moves by a word per row of the tile. *)
DecodeTile_narrow ==
    /\ pc = "decode" /\ values < next_block
    /\ WordAndBit[1] < values_start
    /\ metadata' = WordAndBit[1]
    /\ counter32' = WordAndBit[2] + 1
    /\ IF WordAndBit[2] \in buf[WordAndBit[1] + 1]
         THEN /\ calls' = Append(calls, <<row, i, ReadTile(buf, values)>>)
              /\ values' = values + KERNEL_DIM
         ELSE UNCHANGED <<calls, values>>
    /\ row' = row + 1
    /\ UNCHANGED <<kernel, pc, i, encoderVars, next_block, values_start>>

(* An iteration of the loop over the tiles of the block. *)
DecodeTile ==
    /\ pc = "decode" /\ values < next_block
    /\ WordAndBit[1] < values_start
    /\ metadata' = WordAndBit[1]
    /\ counter32' = WordAndBit[2] + 1
    /\ IF WordAndBit[2] \in buf[WordAndBit[1] + 1]
         THEN /\ calls' = Append(calls, <<row, i, ReadTile(buf, values)>>)
              /\ values' = values + TileWords
         ELSE UNCHANGED <<calls, values>>
    /\ row' = row + 1
    /\ UNCHANGED <<kernel, pc, i, encoderVars, next_block, values_start>>

(* The loop takes words of tiles for metadata: what follows depends on the *)
(* weights, and the model stops here.                                      *)
DecodeOverrun ==
    /\ pc = "decode" /\ values < next_block
    /\ WordAndBit[1] >= values_start
    /\ pc' = "overrun"
    /\ UNCHANGED <<kernel, i, encoderVars, metadata, counter32, values,
                   next_block, row, values_start, calls>>

DecodeBlock ==
    /\ pc = "decode" /\ values >= next_block
    /\ pc' = "enter"
    /\ i' = i + 1
    /\ UNCHANGED <<kernel, encoderVars, metadata, counter32, values, next_block,
                   row, values_start, calls>>

DecodeReturn ==
    /\ pc = "enter" /\ i = ColTiles
    /\ pc' = "done"
    /\ UNCHANGED <<kernel, i, encoderVars, metadata, counter32, values,
                   next_block, row, values_start, calls>>

Finished == pc \in {"done", "overrun"} /\ UNCHANGED vars

Next == \/ EncodeTile \/ EncodeBlock \/ EncodeReturn
        \/ EnterBlock \/ DecodeTile \/ DecodeOverrun \/ DecodeBlock \/ DecodeReturn
        \/ Finished

Spec == Init /\ [][Next]_vars

(* One sequential thread: it keeps executing. *)
FairSpec == Spec /\ WF_vars(Next)

-----------------------------------------------------------------------------
(* Properties. *)

kept == NonZeroTiles(kernel)

(* Every call the decoder makes is for a tile that is not zero, with the   *)
(* weights of its own place in the matrix: the decoder reads the bits      *)
(* where the encoder wrote them.                                           *)
CallsFaithful ==
    \A n \in 1 .. Len(calls) :
        LET r == calls[n][1]
            c == calls[n][2]
        IN  /\ <<r, c>> \in kept
            /\ calls[n][3] = TileAt(kernel, TileIndex(r, c))

(* The calls of a column take the weights of its tiles that are not zero   *)
(* in their order, whatever rows the decoder gives them.                   *)
WeightsInOrder ==
    \A n \in 1 .. Len(calls) :
        LET c == calls[n][2]
            m == Cardinality({ q \in 1 .. n : calls[q][2] = c })
        IN  \E r \in 0 .. RowTiles - 1 :
              /\ <<r, c>> \in kept
              /\ Cardinality({ q \in 0 .. r : <<q, c>> \in kept }) = m
              /\ calls[n][3] = TileAt(kernel, TileIndex(r, c))

(* Between two blocks the decoder is at the header the encoder wrote, and  *)
(* it never takes a word of a tile for metadata.                           *)
BlocksInStep ==
    /\ pc # "overrun"
    /\ pc = "enter" /\ i > 0 => values = next_block
    /\ pc \in {"enter", "done"} /\ i = ColTiles => values = Len(buf)
=============================================================================
