-------------------------- MODULE CompressedFormat --------------------------
(***************************************************************************)
(* Formats CSR and CSC: dense2csr and computeCSR, dense2csc and computeCSC.*)
(* They are the same program with the rows and the columns exchanged: the  *)
(* outer loop runs over the lines (rows for CSR, columns for CSC), ptr     *)
(* delimits the entries of a line, ind has the place of each entry in its  *)
(* line.  The values are pointers into the dense matrix, which is kept.    *)
(***************************************************************************)
EXTENDS SparseKernel

VARIABLES
    format,
    kernel,
    pc,         \* "encode", "decode" or "done"
    i, j,       \* loop variables of the encoder, then of the decoder
    ptr,        \* row_ptr of CSR, col_ptr of CSC
    ind,        \* col_ind of CSR, row_ind of CSC
    values,     \* pointers to tiles, as tile numbers
    calls       \* calls of processMultiplication

vars == <<format, kernel, pc, i, j, ptr, ind, values, calls>>

Lines      == IF format = "CSR" THEN RowTiles ELSE ColTiles
LineLength == IF format = "CSR" THEN ColTiles ELSE RowTiles

(* Row and column of place m in line n. *)
Place(n, m) == IF format = "CSR" THEN <<n, m>> ELSE <<m, n>>

tile_index == TileIndex(Place(i, j)[1], Place(i, j)[2])

Init ==
    /\ format \in {"CSR", "CSC"}
    /\ kernel \in Kernels
    /\ pc = "encode"
    /\ i = 0 /\ j = 0
    /\ ptr = <<0>>
    /\ ind = << >> /\ values = << >> /\ calls = << >>

(* One tile of a line: an entry, nnz being the length of ind. *)
EncodeTile ==
    /\ pc = "encode" /\ i < Lines /\ j < LineLength
    /\ IF all_zeros(kernel, tile_index)
         THEN UNCHANGED <<ind, values>>
         ELSE /\ ind' = Append(ind, j)
              /\ values' = Append(values, tile_index)
    /\ j' = j + 1
    /\ UNCHANGED <<format, kernel, pc, i, ptr, calls>>

(* Mutant of EncodeLine: ptr has the entries of the line, not the total. *)
EncodeLine_perLine ==
    /\ pc = "encode" /\ i < Lines /\ j = LineLength
    /\ ptr' = Append(ptr, Len(ind) - ptr[i + 1])
    /\ i' = i + 1 /\ j' = 0
    /\ UNCHANGED <<format, kernel, pc, ind, values, calls>>

(* ptr[i + 1] = nnz *)
EncodeLine ==
    /\ pc = "encode" /\ i < Lines /\ j = LineLength
    /\ ptr' = Append(ptr, Len(ind))
    /\ i' = i + 1 /\ j' = 0
    /\ UNCHANGED <<format, kernel, pc, ind, values, calls>>

(* The encoder returns; the decoder starts with j = ptr[0]. *)
EncodeReturn ==
    /\ pc = "encode" /\ i = Lines
    /\ pc' = "decode"
    /\ i' = 0 /\ j' = ptr[1]
    /\ UNCHANGED <<format, kernel, ptr, ind, values, calls>>

(* Mutant of DecodeEntry: row and column exchanged. *)
DecodeEntry_transposed ==
    /\ pc = "decode" /\ i < Lines /\ j < ptr[i + 2]
    /\ LET place == Place(i, ind[j + 1])
       IN  calls' = Append(calls, <<place[2], place[1],
                                    TileAt(kernel, values[j + 1])>>)
    /\ j' = j + 1
    /\ UNCHANGED <<format, kernel, pc, i, ptr, ind, values>>

DecodeEntry ==
    /\ pc = "decode" /\ i < Lines /\ j < ptr[i + 2]
    /\ LET place == Place(i, ind[j + 1])
       IN  calls' = Append(calls, <<place[1], place[2],
                                    TileAt(kernel, values[j + 1])>>)
    /\ j' = j + 1
    /\ UNCHANGED <<format, kernel, pc, i, ptr, ind, values>>

(* The next line starts with j = ptr[i]. *)
DecodeLine ==
    /\ pc = "decode" /\ i < Lines /\ j >= ptr[i + 2]
    /\ i' = i + 1
    /\ IF i + 1 < Lines THEN j' = ptr[i + 2] ELSE UNCHANGED j
    /\ UNCHANGED <<format, kernel, pc, ptr, ind, values, calls>>

DecodeReturn ==
    /\ pc = "decode" /\ i = Lines
    /\ pc' = "done"
    /\ UNCHANGED <<format, kernel, i, j, ptr, ind, values, calls>>

Finished == pc = "done" /\ UNCHANGED vars

Next == \/ EncodeTile \/ EncodeLine \/ EncodeReturn
        \/ DecodeEntry \/ DecodeLine \/ DecodeReturn
        \/ Finished

-----------------------------------------------------------------------------
(* Properties. *)

(* The pointers of the lines never decrease and end at nnz: no line takes  *)
(* an entry of another one.                                                *)
LinesDelimited ==
    /\ \A n \in 1 .. Len(ptr) - 1 : ptr[n] <= ptr[n + 1]
    /\ pc = "decode" => ptr[Lines + 1] = Len(ind)
    /\ pc = "decode" => \A n \in 0 .. Lines - 1, m \in 1 .. Len(ind) :
          ptr[n + 1] < m /\ m <= ptr[n + 2] =>
            values[m] = TileIndex(Place(n, ind[m])[1], Place(n, ind[m])[2])
=============================================================================
