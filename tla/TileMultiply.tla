---------------------------- MODULE TileMultiply ----------------------------
(***************************************************************************)
(* SparseMatrixMultiplier::processMultiplication driving the tile of the   *)
(* gem5 device, one custom instruction at a time.                          *)
(*                                                                         *)
(* A compute function of a sparse format calls processMultiplication once  *)
(* for each tile it keeps, in the order of the format (by rows for CSR, by *)
(* columns for the others).  Here the kept tiles and their order are any.  *)
(* The device is never reset between two calls: its weights are            *)
(* overwritten while the waiting memories still hold the previous tile.    *)
(***************************************************************************)
EXTENDS SystolicTile, MatrixDims

VARIABLES
    seq_len,    \* field of the multiplier
    kept,       \* tiles the sparse format keeps
    todo,       \* tiles the compute function has still to process
    tile,       \* tile 0 of the device (the driver passes tid 0 everywhere)
    output,     \* the output buffer
    pc,         \* where processMultiplication is
    row, col,   \* its arguments
    k,          \* next word of weights to load
    i, j,       \* input row, word in the row: the linear index of the code is
                \* i * MAX_ACT_COL + j in the drain loop too
    inPtr, outPtr

vars == <<seq_len, kept, todo, tile, output, pc, row, col, k, i, j, inPtr,
          outPtr>>

InputWords  == RowTiles * seq_len * MAX_ACT_COL    \* sizes of the buffers
OutputWords == ColTiles * seq_len * MAX_ACT_COL

(* Symbolic contents of the buffers: each element names itself. *)
InputWord(a) == [l \in ActLane |-> { a * ACT_PER_BUS + l }]

WeightWord(r, c, n) == [l \in WLane |-> { <<r, c, n * W_PER_BUS + l>> }]

-----------------------------------------------------------------------------
Init ==
    /\ seq_len \in SeqLens
    /\ kept \in SUBSET Tiles
    /\ todo = kept
    /\ tile = SATile
    /\ output = [a \in 0 .. OutputWords - 1 |-> ZeroAct]
    /\ pc = "idle"
    /\ row = 0 /\ col = 0
    /\ k = 0 /\ i = 0 /\ j = 0
    /\ inPtr = 0 /\ outPtr = 0

(* A compute function calls processMultiplication(input, output, r, c, ..) *)
Call(r, c) ==
    /\ pc = "idle"
    /\ <<r, c>> \in todo
    /\ todo' = todo \ { <<r, c>> }
    /\ pc' = "load"
    /\ row' = r /\ col' = c
    /\ k' = 0
    /\ UNCHANGED <<seq_len, kept, tile, output, i, j, inPtr, outPtr>>

(* Mutant of ParamWrite: the loop has no bound. *)
ParamWrite_unbounded ==
    /\ pc = "load"
    /\ tile' = loadWeights(tile, k * W_PER_BUS, WeightWord(row, col, k))
    /\ k' = k + 1
    /\ UNCHANGED <<seq_len, kept, todo, output, pc, row, col, i, j, inPtr,
                   outPtr>>

(* Mutant of ParamWrite: the loop does not advance. *)
ParamWrite_stuck ==
    /\ pc = "load"
    /\ k < KERNEL_DIM * MAX_W_COL
    /\ tile' = loadWeights(tile, k * W_PER_BUS, WeightWord(row, col, k))
    /\ UNCHANGED <<seq_len, kept, todo, output, pc, row, col, k, i, j, inPtr,
                   outPtr>>

(* smmParamWrite(k * W_PER_BUS, values[k], 0) *)
ParamWrite ==
    /\ pc = "load"
    /\ k < KERNEL_DIM * MAX_W_COL
    /\ tile' = loadWeights(tile, k * W_PER_BUS, WeightWord(row, col, k))
    /\ k' = k + 1
    /\ UNCHANGED <<seq_len, kept, todo, output, pc, row, col, i, j, inPtr,
                   outPtr>>

(* Mutant of BeginMultiply: outPtr goes on where the last call left it. *)
BeginMultiply_stale ==
    /\ pc = "load"
    /\ k = KERNEL_DIM * MAX_W_COL
    /\ inPtr' = row * MAX_ACT_COL * seq_len
    /\ i' = 0 /\ j' = 0
    /\ pc' = "multiply"
    /\ UNCHANGED <<seq_len, kept, todo, tile, output, row, col, k, outPtr>>

(* The weights are loaded: the pointers are set to the blocks of the tile. *)
BeginMultiply ==
    /\ pc = "load"
    /\ k = KERNEL_DIM * MAX_W_COL
    /\ inPtr' = row * MAX_ACT_COL * seq_len
    /\ outPtr' = col * MAX_ACT_COL * seq_len
    /\ i' = 0 /\ j' = 0
    /\ pc' = "multiply"
    /\ UNCHANGED <<seq_len, kept, todo, tile, output, row, col, k>>

(* Mutant of OutputValid: the first valid word is missed. *)
OutputValid_late ==
    i * MAX_ACT_COL + j >= MAX_ACT_COL * (2 * KERNEL_DIM - 1)

(* The word the device returns is added to the output once the pipeline is *)
(* full, at the next place of the output block.                            *)
OutputValid ==
    i * MAX_ACT_COL + j >= MAX_ACT_COL * (2 * KERNEL_DIM - 1) - 1

Collect(mult) ==
    IF OutputValid
      THEN /\ output' = [output EXCEPT ![outPtr] = addActIn32(@, mult)]
           /\ outPtr' = outPtr + 1
      ELSE UNCHANGED <<output, outPtr>>

(* smmQueue for the words of a row but the last. *)
Queue(word) ==
    /\ j # MAX_ACT_COL - 1
    /\ tile' = inputQueue(tile, j, word)
    /\ Collect(inputQueueResult(tile', j))
    /\ j' = j + 1
    /\ UNCHANGED i

(* smmStream for the last word of a row. *)
Stream(word) ==
    /\ j = MAX_ACT_COL - 1
    /\ tile' = streamInOut(tile, word)
    /\ Collect(streamInOutResult(tile'))
    /\ i' = i + 1
    /\ j' = 0

Transfer(word) ==
    /\ Queue(word) \/ Stream(word)
    /\ UNCHANGED <<seq_len, kept, todo, pc, row, col, k>>

(* First loop: the rows of the input block. *)
Feed ==
    /\ pc = "multiply"
    /\ i < seq_len
    /\ Transfer(InputWord(inPtr))
    /\ inPtr' = inPtr + 1

(* Mutant of DrainEnd: one row of zeros too few. *)
DrainEnd_short == MAX_ACT_COL * (seq_len + 2 * KERNEL_DIM - 2) - 1

(* Second loop: zeros push the last rows out of the array. *)
DrainEnd == MAX_ACT_COL * (seq_len + 2 * KERNEL_DIM - 1) - 1

Drain ==
    /\ pc = "multiply"
    /\ i >= seq_len
    /\ i * MAX_ACT_COL + j < DrainEnd
    /\ Transfer(ZeroAct)
    /\ UNCHANGED inPtr

AtReturn == i >= seq_len /\ i * MAX_ACT_COL + j >= DrainEnd

Return ==
    /\ pc = "multiply"
    /\ AtReturn
    /\ pc' = "idle"
    /\ UNCHANGED <<seq_len, kept, todo, tile, output, row, col, k, i, j,
                   inPtr, outPtr>>

(* The compute function has processed its last tile. *)
Finished ==
    /\ pc = "idle"
    /\ todo = {}
    /\ UNCHANGED vars

CallAny == \E t \in todo : Call(t[1], t[2])

Next == \/ CallAny
        \/ ParamWrite
        \/ BeginMultiply
        \/ Feed
        \/ Drain
        \/ Return
        \/ Finished

Spec == Init /\ [][Next]_vars

(* The program is one sequential thread: it keeps executing. *)
FairSpec == Spec /\ WF_vars(Next)

-----------------------------------------------------------------------------
(***************************************************************************)
(* The multiplier implements the abstract matrix product.  A contribution  *)
(* of the current tile is pending until its word of the output block has   *)
(* been written.                                                           *)
(***************************************************************************)
WordsLeft ==
    { <<row, col, ii, jj>> : ii \in 0 .. seq_len - 1, jj \in 0 .. MAX_ACT_COL - 1 }

pendingWords ==
    { <<t[1], t[2], ii, jj>> : t \in todo, ii \in 0 .. seq_len - 1,
                               jj \in 0 .. MAX_ACT_COL - 1 }
    \cup CASE pc = "idle" -> {}
           [] pc = "load" -> WordsLeft
           [] pc = "multiply" ->
                { p \in WordsLeft :
                    (col * seq_len + p[3]) * MAX_ACT_COL + p[4] >= outPtr }

MM == INSTANCE MatMul WITH pending <- pendingWords

-----------------------------------------------------------------------------
(* Properties. *)

(* Inputs, weights and sums of products: a product added twice (Again) is  *)
(* in none of them.                                                        *)
Inputs  == SUBSET Nat
Weights == SUBSET (Nat \X Nat \X Nat)
Sums    == SUBSET (Nat \X (Nat \X Nat \X Nat))

TileType ==
    [weights       : [Index -> [Index -> Weights]],
     inputMemory   : [Index -> [Index -> Inputs]],
     outputMemory  : [0 .. KERNEL_DIM -> [Index -> Sums]],
     inWaiting     : [Index -> [Index -> Inputs]],
     outWaiting    : [Index -> [Index -> Sums]],
     non_zero_tile : BOOLEAN]

(* Types of the driver's variables and of the cells of the device; the     *)
(* type of a partial sum rules out a product accumulated twice by the MACs.*)
TypeOK ==
    /\ seq_len \in SeqLens
    /\ kept \subseteq Tiles
    /\ todo \subseteq kept
    /\ tile \in TileType
    /\ pc \in {"idle", "load", "multiply"}
    /\ row \in 0 .. RowTiles - 1
    /\ col \in 0 .. ColTiles - 1
    /\ k \in 0 .. KERNEL_DIM * MAX_W_COL
    /\ i \in Nat
    /\ j \in 0 .. MAX_ACT_COL - 1
    /\ inPtr \in Nat
    /\ outPtr \in Nat

(***************************************************************************)
(* What the live cells of a tile hold after n rows of input and q words of *)
(* the next row, in the call for tile <<b, d>> with s rows.  The cell of   *)
(* row r and column c of the array works on row n - r - c of the input.    *)
(* The other cells (the left of the waiting memory, column 0 of the        *)
(* inputs, the last row of the sums, the lower triangle of the output      *)
(* waiting memory) hold values nobody reads.                               *)
(***************************************************************************)

(* Element e of row m of input block b; the rows before the first one and  *)
(* after the last one are zeros.                                           *)
RowElement(s, b, m, e) ==
    IF m \in 0 .. s - 1 THEN { (b * s + m) * KERNEL_DIM + e } ELSE Zero

TileWeight(b, d, r, c) == { <<b, d, r * KERNEL_DIM + c>> }

(* The first h products of row m with column c of the tile. *)
PartialDot(s, b, d, m, h, c) ==
    IF m \in 0 .. s - 1
      THEN { <<(b * s + m) * KERNEL_DIM + e,
               <<b, d, e * KERNEL_DIM + c>>>> : e \in 0 .. h - 1 }
      ELSE Zero

InWaitingAt(t, s, b, n) ==
    \A r, c \in Index : c > KERNEL_DIM - 1 - r =>
        t.inWaiting[r][c] = RowElement(s, b, n - c + KERNEL_DIM - 1 - r, r)

QueuedAt(t, s, b, n, q) ==
    \A r \in Index : r < q * ACT_PER_BUS =>
        t.inWaiting[r][KERNEL_DIM - 1 - r] = RowElement(s, b, n, r)

InputAt(t, s, b, n) ==
    \A r, c \in Index : c > 0 =>
        t.inputMemory[r][c] = RowElement(s, b, n - r - c, r)

OutputAt(t, s, b, d, n) ==
    \A r, c \in Index :
        t.outputMemory[r][c] = PartialDot(s, b, d, n - r - c, r, c)

OutWaitingAt(t, s, b, d, n) ==
    \A r, c \in Index :
        \/ r + c < KERNEL_DIM - 1
        \/ r + c = KERNEL_DIM - 1 /\ n > 0
        => t.outWaiting[r][c] =
             PartialDot(s, b, d, n - KERNEL_DIM - r - c, KERNEL_DIM, c)

PipelineAt(t, s, b, d, n, q) ==
    /\ InWaitingAt(t, s, b, n)
    /\ QueuedAt(t, s, b, n, q)
    /\ InputAt(t, s, b, n)
    /\ OutputAt(t, s, b, d, n)
    /\ OutWaitingAt(t, s, b, d, n)

(* The word q of row n of input block b. *)
IsRowWord(val, s, b, n, q) ==
    \A l \in ActLane : val[l] = RowElement(s, b, n, q * ACT_PER_BUS + l)

HasWeights(t, b, d) ==
    \A r, c \in Index : t.weights[r][c] = TileWeight(b, d, r, c)

(* At every instruction the live cells hold the rows of the current call   *)
(* they should, and zeros before its first row.                            *)
PipelineInv ==
    IF pc = "multiply" THEN PipelineAt(tile, seq_len, row, col, i, j)
                       ELSE PipelineAt(tile, seq_len, row, col, 0, 0)

(* The weights of the call's tile are in place before its first row.       *)
WeightsInv ==
    /\ pc = "load" => \A r, c \in Index : r * KERNEL_DIM + c < k * W_PER_BUS =>
           tile.weights[r][c] = TileWeight(row, col, r, c)
    /\ pc = "multiply" => HasWeights(tile, row, col)

(* The device is never reset, yet between two tiles nothing of the last    *)
(* one is left where the next one would multiply or return it: no input in *)
(* the array or waiting, no partial sum, no result above the diagonal.     *)
CleanTile(t) ==
    \A r, c \in Index :
        /\ c > KERNEL_DIM - 1 - r => t.inWaiting[r][c] = Zero
        /\ c > 0 => t.inputMemory[r][c] = Zero
        /\ t.outputMemory[r][c] = Zero
        /\ r + c < KERNEL_DIM - 1 => t.outWaiting[r][c] = Zero

CleanBetweenTiles == pc # "multiply" => CleanTile(tile)

(* Position of the pointers in the loops: the input pointer walks the      *)
(* block of the tile's row once; the output pointer lags by the latency of *)
(* the array.                                                              *)
Latency == MAX_ACT_COL * (2 * KERNEL_DIM - 1) - 1

PointerInv ==
    pc = "multiply" =>
      /\ i * MAX_ACT_COL + j <= DrainEnd
      /\ i < seq_len =>
            inPtr = (row * seq_len + i) * MAX_ACT_COL + j
      /\ i >= seq_len => inPtr = (row * seq_len + seq_len) * MAX_ACT_COL
      /\ OutputValid => outPtr = col * seq_len * MAX_ACT_COL
                                   + (i * MAX_ACT_COL + j - Latency)
      /\ ~ OutputValid => outPtr = col * seq_len * MAX_ACT_COL

(* processMultiplication stays in its buffers: it reads words of block row *)
(* and writes words of block col only, and returns when each of them has   *)
(* been written (the drain loop stops in the middle of a row).             *)
PointersInBlocks ==
    pc = "multiply" =>
      /\ i < seq_len => /\ row * seq_len * MAX_ACT_COL <= inPtr
                        /\ inPtr < (row + 1) * seq_len * MAX_ACT_COL
      /\ AtReturn => outPtr = (col + 1) * seq_len * MAX_ACT_COL
      /\ OutputValid /\ ~ AtReturn =>
                         /\ col * seq_len * MAX_ACT_COL <= outPtr
                         /\ outPtr < (col + 1) * seq_len * MAX_ACT_COL

(* Every output word is the sum of the rows of the tiles processed so far  *)
(* that reach it, no product missing, doubled or misplaced.                *)
ProductCorrect == MM!SumOfContributions

(* Every instruction either adds the next pending word of the current tile *)
(* to its place in the output or changes nothing that can be seen.         *)
ImplementsMatMul == MM!Spec

(* The loops of processMultiplication end for every kept tile, and with    *)
(* the last one nothing is left to be added to the output.                 *)
Completes == <>[](pc = "idle" /\ pendingWords = {})
=============================================================================
