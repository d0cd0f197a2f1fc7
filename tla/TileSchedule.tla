---------------------------- MODULE TileSchedule ----------------------------
(***************************************************************************)
(* What a sparse format promises the multiplier: processMultiplication is  *)
(* called once for each tile that is not zero, with the row, the column    *)
(* and the weights it has in the dense matrix, in any order.               *)
(***************************************************************************)
EXTENDS SparseKernel

VARIABLES
    kernel,     \* the dense matrix
    kept,       \* tiles to multiply: all those that are not zero, at least
    calls       \* calls <<row, col, weights>> of processMultiplication

vars == <<kernel, kept, calls>>

Called == { <<calls[n][1], calls[n][2]>> : n \in 1 .. Len(calls) }

Init ==
    /\ kernel \in Kernels
    /\ kept \in SUBSET ((0 .. RowTiles - 1) \X (0 .. ColTiles - 1))
    /\ NonZeroTiles(kernel) \subseteq kept
    /\ calls = << >>

processMultiplication(r, c) ==
    /\ <<r, c>> \in kept \ Called
    /\ calls' = Append(calls, <<r, c, TileAt(kernel, TileIndex(r, c))>>)
    /\ UNCHANGED <<kernel, kept>>

Next == \E t \in kept : processMultiplication(t[1], t[2])

Spec == Init /\ [][Next]_vars

(* Every kept tile is multiplied in the end. *)
FairSpec == Spec /\ WF_vars(Next)
=============================================================================
