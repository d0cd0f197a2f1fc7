----------------------------- MODULE MatMulTest -----------------------------
(***************************************************************************)
(* The test program mat_mult_test.cpp: systolic_array_matrix_multiply, a   *)
(* second driver of the array, with loops of its own over element indices, *)
(* on the software model of the device or on the gem5 device.              *)
(*                                                                         *)
(* A test multiplies M rows by one tile; the device is not reset from one  *)
(* test to the next.                                                       *)
(***************************************************************************)
EXTENDS SoftwareTile

CONSTANTS
    Devices,    \* the devices the program is linked with
    RowCounts,  \* RES_NUM_ROWS of the tests
    MaxTests    \* tests main carries out

ASSUME TestAssumption ==
    /\ Devices \subseteq {"software", "gem5"}
    /\ RowCounts \subseteq Nat \ {0}
    /\ MaxTests \in Nat

VARIABLES
    device,
    tile,           \* the device's tile 0
    tests,          \* tests started
    pc, M,
    i,              \* next word of weights
    idx,            \* element index, in the second loop too
    num_streams,    \* num_streams_to_systolic_array
    outPtr, out

vars == <<device, tile, tests, pc, M, i, idx, num_streams, outPtr, out>>

SA_SIZE == KERNEL_DIM

(* Rows are packed one after the other (row_compress_matrix); the symbols  *)
(* of a test are its own.                                                  *)
LhsElement(e) == { <<tests, "lhs", e>> }
RhsElement(e) == { <<tests, "rhs", e>> }

LhsWord(a) == [l \in ActLane |-> LhsElement(a * ACT_PER_BUS + l)]
RhsWord(a) == [l \in WLane |-> RhsElement(a * W_PER_BUS + l)]

(* matrix_multiply_int, element e of the product. *)
Baseline(e) ==
    UNION { Product(LhsElement((e \div SA_SIZE) * SA_SIZE + k),
                    RhsElement(k * SA_SIZE + (e % SA_SIZE))) : k \in Index }

compressed_result(a) == [l \in ActLane |-> Baseline(a * ACT_PER_BUS + l)]

lastOut == CEILING_DIV(M * SA_SIZE, ACT_PER_BUS)
weight_array_len == CEILING_DIV(SA_SIZE * SA_SIZE, W_PER_BUS)

(* Bound on idx, beyond all the elements a test pushes through the array. *)
MaxIdx == (M + 2 * SA_SIZE) * SA_SIZE

-----------------------------------------------------------------------------
(* The instructions. *)

(***************************************************************************)
(* The gem5 device stores the lanes of word col at flat positions of the   *)
(* waiting memory; one behind its end is other memory of the simulator,    *)
(* and the outcome that leaves the tile alone is followed.                 *)
(***************************************************************************)
gemInputQueue(t, col, val) ==
    LET Flat(l) == (col * ACT_PER_BUS + l) * KERNEL_DIM
                      + KERNEL_DIM - (col * ACT_PER_BUS + l) - 1
    IN [t EXCEPT !.inWaiting =
          [r \in Index |-> [c \in Index |->
              IF \E l \in ActLane : Flat(l) = r * KERNEL_DIM + c
              THEN val[CHOOSE l \in ActLane : Flat(l) = r * KERNEL_DIM + c]
              ELSE @[r][c]]]]

(* The tile after the instruction, and the word it returns. *)
smmQueue(x, val) ==
    IF device = "software"
    THEN LET t == swInputQueue(tile, x, val) IN <<t, retrieveOutput(t, x)>>
    ELSE LET t == gemInputQueue(tile, x, val) IN <<t, inputQueueResult(t, x)>>

smmStream(x, val) ==
    IF device = "software"
    THEN LET t == swStreamInOut(tile, x, val) IN <<t, retrieveOutput(t, x)>>
    ELSE LET t == streamInOut(tile, val) IN <<t, streamInOutResult(t)>>

-----------------------------------------------------------------------------
Init ==
    /\ device \in Devices
    /\ tile = SATile
    /\ tests = 0 /\ pc = "idle" /\ M = 0
    /\ i = 0 /\ idx = 0 /\ num_streams = 0
    /\ outPtr = 0 /\ out = << >>

(* The next test starts, with new matrices and an array of zeros. *)
test_systolic_array_matrix_multiply(rows) ==
    /\ pc = "idle" /\ tests < MaxTests
    /\ tests' = tests + 1
    /\ M' = rows
    /\ out' = [a \in 0 .. lastOut' - 1 |-> ZeroAct]
    /\ pc' = "load" /\ i' = 0
    /\ UNCHANGED <<device, tile, idx, num_streams, outPtr>>

LoadWeights ==
    /\ pc = "load" /\ i < weight_array_len
    /\ tile' = loadWeights(tile, i * W_PER_BUS, RhsWord(i))
    /\ i' = i + 1
    /\ UNCHANGED <<device, tests, pc, M, idx, num_streams, outPtr, out>>

BeginStreaming ==
    /\ pc = "load" /\ i = weight_array_len
    /\ pc' = "stream"
    /\ idx' = 0 /\ num_streams' = 0 /\ outPtr' = 0
    /\ UNCHANGED <<device, tile, tests, M, i, out>>

(* Whether the word at idx has the last element of a row. *)
should_stream_systolic_array(x) ==
    \E delta \in ActLane : (x + delta) % SA_SIZE = SA_SIZE - 1

(* Mutant of CountStream: the rows of zeros are not counted. *)
CountStream_rows == IF idx < M * SA_SIZE THEN num_streams + 1 ELSE num_streams

CountStream == num_streams + 1

isOutputValid == num_streams' >= 2 * SA_SIZE - 1

(* The body of both loops: a word goes in, and what comes out is kept once *)
(* the first row has reached the end of the array.                         *)
Transfer(inputWord) ==
    LET stream == should_stream_systolic_array(idx)
        res == IF stream THEN smmStream(idx % SA_SIZE, inputWord)
                         ELSE smmQueue(idx % SA_SIZE, inputWord)
    IN /\ tile' = res[1]
       /\ num_streams' = IF stream THEN CountStream ELSE num_streams
       /\ IF isOutputValid
          THEN out' = [out EXCEPT ![outPtr] = res[2]] /\ outPtr' = outPtr + 1
          ELSE UNCHANGED <<out, outPtr>>
       /\ idx' = idx + ACT_PER_BUS
       /\ UNCHANGED <<device, tests, pc, M, i>>

StreamIn ==
    /\ pc = "stream" /\ idx < M * SA_SIZE
    /\ Transfer(LhsWord(idx \div ACT_PER_BUS))

StreamOut ==
    /\ pc = "stream" /\ idx >= M * SA_SIZE
    /\ outPtr < lastOut /\ idx < MaxIdx
    /\ Transfer(ZeroAct)

Return ==
    /\ pc = "stream" /\ idx >= M * SA_SIZE
    /\ outPtr >= lastOut
    /\ pc' = "idle"
    /\ UNCHANGED <<device, tile, tests, M, i, idx, num_streams, outPtr, out>>

Next ==
    \/ \E rows \in RowCounts : test_systolic_array_matrix_multiply(rows)
    \/ LoadWeights
    \/ BeginStreaming
    \/ StreamIn
    \/ StreamOut
    \/ Return

Spec == Init /\ [][Next]_vars

(* One thread runs the tests to their end. *)
FairSpec == Spec /\ WF_vars(Next)

-----------------------------------------------------------------------------
(* Properties. *)

(***************************************************************************)
(* resultMatchesBaseline, at every moment: the words stored so far are     *)
(* those of the product of this test's matrices, in their places, with     *)
(* nothing of an earlier test, and no more than there is room for (the     *)
(* assertion outPtr < lastOut before each store).                          *)
(***************************************************************************)
ResultsMatchBaseline ==
    pc = "stream" =>
        /\ outPtr <= lastOut
        /\ \A a \in 0 .. outPtr - 1 : out[a] = compressed_result(a)

(* The second loop stops by itself: it ends only when all results are out. *)
TestsFinish == <>(pc = "idle" /\ tests = MaxTests)
=============================================================================
