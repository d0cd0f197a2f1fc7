---------------------------- MODULE SoftwareTile ----------------------------
(***************************************************************************)
(* The software model of the device that the DEVELOP build links in        *)
(* (accelerator/systolic_m2m.cc).  Its array is the one of SystolicTile;   *)
(* what differs is how a word is addressed: by the index of its first      *)
(* element in the row, wrapping around, where the gem5 device takes the    *)
(* number of the word.                                                     *)
(***************************************************************************)
EXTENDS SystolicTile

(* Mutant of swStoreInput: the index is taken for the number of a word. *)
swStoreInput_word(m, idx, val) == storeInput(m, idx, val)

(* Element idx + l of the row goes to the anti-diagonal. *)
swStoreInput(m, idx, val) ==
    [r \in Index |-> [c \in Index |->
        LET l == (r - idx) % KERNEL_DIM
        IN  IF /\ l \in ActLane
               /\ c = (KERNEL_DIM - (idx + l) - 1 + KERNEL_DIM) % KERNEL_DIM
            THEN val[l] ELSE m[r][c]]]

(* Mutant of retrieveOutput: the word at idx, not the one behind it. *)
retrieveOutput_same(t, idx) ==
    [l \in ActLane |->
        t.outWaiting[(KERNEL_DIM - idx - l - 1 + KERNEL_DIM) % KERNEL_DIM]
                    [(idx + l) % KERNEL_DIM]]

(* The word behind the one at idx, which is the first one when idx is in   *)
(* the last word of the row.                                               *)
retrieveOutput(t, idx) ==
    LET result_idx == (idx + ACT_PER_BUS) % KERNEL_DIM
    IN [l \in ActLane |->
          t.outWaiting[(KERNEL_DIM - result_idx - l - 1 + KERNEL_DIM) % KERNEL_DIM]
                      [(result_idx + l) % KERNEL_DIM]]

swInputQueue(t, idx, val) ==
    [t EXCEPT !.inWaiting = swStoreInput(@, idx, val)]

swStreamInOut(t, idx, val) ==
    LET waiting == swStoreInput(t.inWaiting, idx, val)
        inputs  == enterArray(t.inputMemory, waiting)
        sums    == multiplyAccumulate(t.outputMemory, inputs, t.weights)
    IN  [t EXCEPT !.inputMemory = shiftRight(inputs),
                  !.outputMemory = sums,
                  !.inWaiting = shiftRight(waiting),
                  !.outWaiting = shiftDown(@, sums[KERNEL_DIM]),
                  !.non_zero_tile = FALSE]
=============================================================================
