---------------------------- MODULE TicSatConfig ----------------------------
(***************************************************************************)
(* The build parameters of TiC-SAT (transformer_layers/util.h) and the     *)
(* values that travel over its 32-bit bus.                                 *)
(*                                                                         *)
(* Activations and weights are kept symbolic.  A value is a formal sum: a  *)
(* set of monomials, {} being zero.  An element of a matrix that has not   *)
(* been multiplied yet is a singleton, its product with another one is a   *)
(* pair of symbols, and a result is right when it is exactly the expected  *)
(* set of products.  What is computed for generic symbols is computed for  *)
(* every value of them, in any ring: in the integers, and modulo the       *)
(* 2^ACTIVATION_BITS the waiting memories and the words keep.              *)
(***************************************************************************)
EXTENDS Integers

CONSTANTS
    KERNEL_DIM,     \* dimension of the systolic array tile (SA_SIZE)
    ACT_PER_BUS,    \* activations in a bus word: BUS_WIDTH / ACTIVATION_BITS
    W_PER_BUS       \* weights in a bus word: BUS_WIDTH / WEIGHT_BITS

CEILING_DIV(x, y) == (x + y - 1) \div y

(* Words that hold the activations, and the weights, of one row of a tile. *)
MAX_ACT_COL == CEILING_DIV(KERNEL_DIM, ACT_PER_BUS)
MAX_W_COL   == CEILING_DIV(KERNEL_DIM, W_PER_BUS)

(* The configurations that can be built: a row of a tile fills its words   *)
(* (asserted by retrieveOutput of the software model of the device).       *)
ASSUME ConfigAssumption ==
    /\ KERNEL_DIM \in Nat \ {0}
    /\ ACT_PER_BUS \in Nat \ {0}
    /\ W_PER_BUS \in Nat \ {0}
    /\ MAX_ACT_COL * ACT_PER_BUS = KERNEL_DIM
    /\ MAX_W_COL * W_PER_BUS = KERNEL_DIM

Index   == 0 .. KERNEL_DIM - 1     \* rows and columns of a tile
ActLane == 0 .. ACT_PER_BUS - 1    \* activations of a word, first one first
WLane   == 0 .. W_PER_BUS - 1      \* weights of a word

-----------------------------------------------------------------------------
(* Formal sums. *)

Zero == {}

Product(x, w) == { <<a, b>> : a \in x, b \in w }

(* A sum is a set, so a monomial that is added a second time is kept apart *)
(* (it would be a coefficient 2): nothing is absorbed silently.            *)
Again(m) == <<m, "again">>

Plus(x, y) == x \cup y \cup { Again(m) : m \in x \cap y }

ZeroAct == [l \in ActLane |-> Zero]
ZeroW   == [l \in WLane |-> Zero]

(* addActIn32: lane by lane, no carry from one lane into the next. *)
addActIn32(memory, systolicResult) ==
    [l \in ActLane |-> Plus(memory[l], systolicResult[l])]
=============================================================================
