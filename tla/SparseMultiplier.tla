-------------------------- MODULE SparseMultiplier --------------------------
(***************************************************************************)
(* The sparse formats together: a matrix is encoded in one of the eight    *)
(* formats, and SparseMatrixMultiplier::compute, which switches on the     *)
(* format, decodes it tile by tile.  The formats share the matrix, the     *)
(* loop variables, the array of words, the pointer into it and the calls   *)
(* they make; what a format has for itself is idle under the others.       *)
(***************************************************************************)
EXTENDS SparseKernel

VARIABLES
    format, kernel, pc, i, j, buf, values, calls,
    ptr, ind, pointers,                                     \* CSR and CSC
    m1, m2, m2StartIndex, columnAllZeros, m1Ptr, m2Ptr,     \* META_DATA
    offset_to_next_block, metadata, counter32,              \* INTERLEAVED
    next_block, row, values_start,
    flag, counter                                           \* WITH_FLAG

compressedVars  == <<ptr, ind, pointers>>
metaDataVars    == <<m1, m2, m2StartIndex, columnAllZeros, m1Ptr, m2Ptr>>
interleavedVars == <<offset_to_next_block, metadata, counter32, next_block, row,
                     values_start>>
streamVars      == <<flag, counter>>
bufferVars      == <<buf, values>>

vars == <<format, kernel, pc, i, j, calls, bufferVars, compressedVars,
          metaDataVars, interleavedVars, streamVars>>

Compressed  == INSTANCE CompressedFormat WITH values <- pointers
MetaData    == INSTANCE MetaDataFormat
Interleaved == INSTANCE InterleavedFormat
Stream      == INSTANCE StreamFormat

NoBuffer == buf = << >> /\ values = 0

NoCompressed == ptr = << >> /\ ind = << >> /\ pointers = << >>

NoMetaData ==
    /\ m1 = << >> /\ m2 = << >> /\ m2StartIndex = 0 /\ columnAllZeros = TRUE
    /\ m1Ptr = 0 /\ m2Ptr = 0

NoInterleaved ==
    /\ offset_to_next_block = 0 /\ metadata = 0 /\ counter32 = 0
    /\ next_block = 0 /\ row = 0 /\ values_start = 0

NoStream == flag = 0 /\ counter = 0

Init ==
    \/ /\ Compressed!Init
       /\ NoBuffer /\ NoMetaData /\ NoInterleaved /\ NoStream
    \/ /\ format = "META_DATA" /\ MetaData!Init
       /\ NoCompressed /\ NoInterleaved /\ NoStream
    \/ /\ format = "INTERLEAVED" /\ Interleaved!Init
       /\ NoCompressed /\ NoMetaData /\ NoStream
    \/ /\ Stream!Init
       /\ NoCompressed /\ NoMetaData /\ NoInterleaved

(* compute of the formats with pointers to tiles. *)
computeCompressed ==
    /\ format \in {"CSR", "CSC"}
    /\ Compressed!Next
    /\ UNCHANGED <<bufferVars, metaDataVars, interleavedVars, streamVars>>

computeMetaData ==
    /\ format = "META_DATA"
    /\ MetaData!Next
    /\ UNCHANGED <<format, compressedVars, interleavedVars, streamVars>>

computeInterleavedMetaData ==
    /\ format = "INTERLEAVED"
    /\ Interleaved!Next
    /\ UNCHANGED <<format, compressedVars, metaDataVars, streamVars>>

computeStream ==
    /\ format \in {"NON_PRUNED", "DYNAMIC", "WITH_FLAG", "HIDDEN_KEY"}
    /\ Stream!Next
    /\ UNCHANGED <<compressedVars, metaDataVars, interleavedVars>>

Next == \/ computeCompressed
        \/ computeMetaData
        \/ computeInterleavedMetaData
        \/ computeStream

Spec == Init /\ [][Next]_vars

(* One sequential thread: it keeps executing. *)
FairSpec == Spec /\ WF_vars(Next)

-----------------------------------------------------------------------------
(* Properties. *)

kept == IF format = "NON_PRUNED" THEN (0 .. RowTiles - 1) \X (0 .. ColTiles - 1)
                                 ELSE NonZeroTiles(kernel)

TS == INSTANCE TileSchedule

(***************************************************************************)
(* Whatever the format, encoding the matrix and decoding it with compute   *)
(* calls processMultiplication once for every tile that is not zero, at    *)
(* its own row and column and with its own weights, and ends: pointers,    *)
(* flags, offsets and packed tiles stay in step across lines, words and    *)
(* blocks, although encoders and decoders walk the matrix differently.     *)
(***************************************************************************)
ImplementsSchedule == TS!FairSpec

(* When compute returns, processMultiplication has been called for every   *)
(* tile that must be multiplied and for no other one: no decoder leaves a  *)
(* line, a word of flags or a block early.                                 *)
AllCalled == pc = "done" => TS!Called = kept

(* CSR and CSC: the pointers of the lines never decrease and end at nnz,   *)
(* so that no line of dense2csr or dense2csc takes an entry of another.    *)
LinesDelimited == format \in {"CSR", "CSC"} => Compressed!LinesDelimited

(* A decoder that has returned has read exactly what the encoder wrote:    *)
(* the packed tiles and, for META_DATA, both arrays of flags.              *)
AllConsumed ==
    /\ format = "META_DATA" => MetaData!AllConsumed
    /\ format \in {"NON_PRUNED", "DYNAMIC", "WITH_FLAG", "HIDDEN_KEY"} => Stream!AllConsumed

(* INTERLEAVED, when a column fills a metadata word: between two blocks    *)
(* the decoder is at the header the encoder wrote, and it never takes a    *)
(* word of a tile for metadata.                                            *)
BlocksInStep == format = "INTERLEAVED" => Interleaved!BlocksInStep

(* INTERLEAVED, whatever the width of a metadata word: the calls of a      *)
(* column take the weights of its tiles that are not zero in their order,  *)
(* also when the decoder misreads their rows.                              *)
WeightsInOrder == format = "INTERLEAVED" => Interleaved!WeightsInOrder
=============================================================================
