---------------------------- MODULE SystolicTile ----------------------------
(***************************************************************************)
(* One systolic array tile of the gem5 device (dev/arm/systolic_m2m.cc):   *)
(* what each of the custom instructions does to an SATile, as operators on *)
(* the tile's record.                                                      *)
(*                                                                         *)
(*   inWaiting    skews a row of inputs: element r waits r streams;        *)
(*   inputMemory  the inputs inside the array, moving right;               *)
(*   outputMemory partial sums, moving down; row KERNEL_DIM is the result; *)
(*   outWaiting   deskews the results: a whole row is on the anti-diagonal.*)
(***************************************************************************)
EXTENDS TicSatConfig

SATile ==
    [weights       |-> [r \in Index |-> [c \in Index |-> Zero]],
     inputMemory   |-> [r \in Index |-> [c \in Index |-> Zero]],
     outputMemory  |-> [r \in 0 .. KERNEL_DIM |-> [c \in Index |-> Zero]],
     inWaiting     |-> [r \in Index |-> [c \in Index |-> Zero]],
     outWaiting    |-> [r \in Index |-> [c \in Index |-> Zero]],
     non_zero_tile |-> FALSE]

(***************************************************************************)
(* loadWeights (instruction CMPARAMWRITE): the weights of the word val are *)
(* written from element idx on, the tile being stored row by row.          *)
(***************************************************************************)
storeWeights(m, idx, val) ==
    [r \in Index |-> [c \in Index |->
        LET e == r * KERNEL_DIM + c
        IN  IF e - idx \in WLane THEN val[e - idx] ELSE m[r][c]]]

loadWeights(t, idx, val) ==
    [weights       |-> storeWeights(t.weights, idx, val),
     inputMemory   |-> t.inputMemory,
     outputMemory  |-> t.outputMemory,
     inWaiting     |-> t.inWaiting,
     outWaiting    |-> t.outWaiting,
     non_zero_tile |-> t.non_zero_tile \/ val # ZeroW]

(* Word number col of the current input row goes to the anti-diagonal of   *)
(* the waiting memory.                                                     *)
storeInput(m, col, val) ==
    [r \in Index |-> [c \in Index |->
        LET i == r - col * ACT_PER_BUS
        IN  IF i \in ActLane /\ c = KERNEL_DIM - r - 1 THEN val[i] ELSE m[r][c]]]

(* Word number col of the anti-diagonal of the output waiting memory. *)
outputWord(t, col) ==
    [i \in ActLane |->
        LET result_idx == col * ACT_PER_BUS + i
        IN  t.outWaiting[KERNEL_DIM - result_idx - 1][result_idx]]

(***************************************************************************)
(* inputQueue (instruction CMQUEUE): stores word col of the input row and  *)
(* returns the next word of the output row.                                *)
(***************************************************************************)
inputQueue(t, col, val) ==
    [weights       |-> t.weights,
     inputMemory   |-> t.inputMemory,
     outputMemory  |-> t.outputMemory,
     inWaiting     |-> storeInput(t.inWaiting, col, val),
     outWaiting    |-> t.outWaiting,
     non_zero_tile |-> t.non_zero_tile]


(* Mutant of inputQueueResult: the word of this queue, not of the next. *)
inputQueueResult_same(t, col) == outputWord(t, col)

inputQueueResult(t, col) == outputWord(t, (col + 1) % MAX_ACT_COL)

(***************************************************************************)
(* streamInOut (instruction CMPROCESS): stores the last word of the input  *)
(* row and advances the array by one step.  The loops of the code run      *)
(* towards lower indices, so every cell takes the value its neighbour had  *)
(* before the step; column 0 keeps what it held.                           *)
(***************************************************************************)

(* Mutant of shiftRight: a loop towards higher indices moves column 0 into *)
(* every column.                                                           *)
shiftRight_ascending(m) == [r \in Index |-> [c \in Index |-> m[r][0]]]

shiftRight(m) ==
    [r \in Index |-> [c \in Index |-> IF c = 0 THEN m[r][c] ELSE m[r][c - 1]]]

(* The last column of the waiting memory enters the array at column 0. *)
enterArray(m, waiting) ==
    [r \in Index |-> [c \in Index |->
        IF c = 0 THEN waiting[r][KERNEL_DIM - 1] ELSE m[r][c]]]

(* Cell <<r, c>> adds its product to the sum from above and hands it to    *)
(* row r + 1; row 0 is never written.                                      *)
multiplyAccumulate(sums, inputs, weights) ==
    [r \in 0 .. KERNEL_DIM |-> [c \in Index |->
        IF r = 0 THEN sums[r][c]
        ELSE Plus(sums[r - 1][c], Product(inputs[r - 1][c], weights[r - 1][c]))]]

shiftDown(m, results) ==
    [r \in Index |-> [c \in Index |-> IF r = 0 THEN results[c] ELSE m[r - 1][c]]]

streamInOut(t, val) ==
    LET waiting == storeInput(t.inWaiting, MAX_ACT_COL - 1, val)
        inputs  == enterArray(t.inputMemory, waiting)
        sums    == multiplyAccumulate(t.outputMemory, inputs, t.weights)
    IN  [weights       |-> t.weights,
         inputMemory   |-> shiftRight(inputs),
         outputMemory  |-> sums,
         inWaiting     |-> shiftRight(waiting),
         outWaiting    |-> shiftDown(t.outWaiting, sums[KERNEL_DIM]),
         non_zero_tile |-> FALSE]

streamInOutResult(t) == outputWord(t, 0)
=============================================================================
