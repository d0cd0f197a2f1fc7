-------------------------- MODULE SoftwareMultiply --------------------------
(***************************************************************************)
(* processMultiplication in the DEVELOP build: the same driver on the      *)
(* software model of the device, in step with the driver on the gem5       *)
(* device (TileMultiply).  The driver passes the number of a word in its   *)
(* row; the software model takes it for the index of an element.           *)
(***************************************************************************)
EXTENDS TileMultiply, SoftwareTile

VARIABLES
    swTile,     \* smmList[0]
    swOutput    \* the output buffer of the DEVELOP build

swVars == <<vars, swTile, swOutput>>

SwInit ==
    /\ Init
    /\ swTile = SATile
    /\ swOutput = output

SwParamWrite ==
    /\ ParamWrite
    /\ swTile' = loadWeights(swTile, k * W_PER_BUS, WeightWord(row, col, k))
    /\ UNCHANGED swOutput

(* smmQueue, and smmStream with the index as a parameter. *)
SwTransfer(word) ==
    /\ swTile' = IF j # MAX_ACT_COL - 1 THEN swInputQueue(swTile, j, word)
                                        ELSE swStreamInOut(swTile, j, word)
    /\ swOutput' = IF OutputValid
                     THEN [swOutput EXCEPT ![outPtr] =
                             addActIn32(@, retrieveOutput(swTile', j))]
                     ELSE swOutput

SwFeed == Feed /\ SwTransfer(InputWord(inPtr))

SwDrain == Drain /\ SwTransfer(ZeroAct)

(* The steps that do not touch the device. *)
SwControl ==
    /\ CallAny \/ BeginMultiply \/ Return \/ Finished
    /\ UNCHANGED <<swTile, swOutput>>

SwNext == \/ SwParamWrite
          \/ SwFeed
          \/ SwDrain
          \/ SwControl

SwSpec == SwInit /\ [][SwNext]_swVars

(* One sequential thread, as in TileMultiply. *)
SwFairSpec == SwSpec /\ WF_swVars(SwNext)

-----------------------------------------------------------------------------
(* Properties. *)

(* The builds in which the number of a word is the index of its first      *)
(* element: one activation to a word, or one word to a row.                *)
SameIndex == ACT_PER_BUS = 1 \/ MAX_ACT_COL = 1

(* In those builds the software model and the gem5 device return the same  *)
(* word at every instruction that counts: storeInput and retrieveOutput,   *)
(* which address the waiting memories modulo SA_SIZE, never lose a word or *)
(* return one of another row, over any sequence of tiles.                  *)
DevelopAgrees == SameIndex => swOutput = output
=============================================================================
