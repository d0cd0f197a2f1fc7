-------------------------- MODULE TransformerBlock --------------------------
(***************************************************************************)
(* A run of the program: the buffers inference allocates, the layers of a  *)
(* TransformerBlock in the order it calls them, and where each of them     *)
(* reads and writes.                                                       *)
(*                                                                         *)
(* A matrix product is one step here: that processMultiplication computes  *)
(* it is what TileMultiply shows, and that the formats call it for the     *)
(* right tiles what the format modules show.  The arithmetic of softmax    *)
(* and of the normalisation is left out; the elements they combine are     *)
(* not.                                                                    *)
(*                                                                         *)
(* A buffer is a function from element addresses, ACT_PER_BUS of them to a *)
(* word.  The value of an element is a formal sum of names: <<layer, head, *)
(* row, column>> stands for what the network defines that element of that  *)
(* layer to be, Wrong for anything else.                                   *)
(***************************************************************************)
EXTENDS TicSatConfig

CONSTANTS
    ACTIVATION_FP,  \* whether activations are floating-point numbers
    Models,     \* NUM_HEAD and, in tiles, D_SEQ, D_Q, D_MODEL and D_FF
    MaxRuns     \* numRuns of main

ASSUME ModelsAssumption ==
    /\ \A m \in Models : \A d \in {"heads", "seq", "q", "model", "ff"} : m[d] \in Nat \ {0}
    /\ MaxRuns \in Nat
    /\ ACTIVATION_FP \in BOOLEAN

VARIABLES
    model,      \* the shape the program was built for
    run,        \* runs finished
    stage,      \* the call that is next
    head,       \* n of TransformerBlock::compute
    selfatten,  \* the buffers of each SingleHeadSelfAttn
    buf         \* the buffers of inference

vars == <<model, run, stage, head, selfatten, buf>>

K == KERNEL_DIM

D_SEQ   == model.seq * K
D_Q     == model.q * K
D_MODEL == model.model * K
D_FF    == model.ff * K

Heads == 0 .. model.heads - 1
Rows  == 0 .. D_SEQ - 1

Name(layer, n, i, c) == { <<layer, n, i, c>> }
Wrong == { <<"wrong", 0, 0, 0>> }

Result(exact, name) == IF exact THEN name ELSE Wrong

-----------------------------------------------------------------------------
(* Memory. *)

(* new uint32_t [elements / ACT_PER_BUS](). *)
NewBuffer(elements) ==
    [a \in 0 .. (elements \div ACT_PER_BUS) * ACT_PER_BUS - 1 |-> Zero]

Load(b, a) == IF a \in DOMAIN b THEN b[a] ELSE Wrong

(* Element k of row i: column blocks of KERNEL_DIM elements, D_SEQ rows    *)
(* each, and the position of an address in that layout.                    *)
Addr(i, k) == ((k \div K) * D_SEQ + i) * K + (k % K)
RowOf(a)   == (a \div K) % D_SEQ
ColOf(a)   == (a \div (D_SEQ * K)) * K + (a % K)

(* Write(i, c) to the matrix of cols columns at address base. *)
Store(b, base, cols, Write(_, _)) ==
    [a \in DOMAIN b |->
        IF a \in base .. base + D_SEQ * cols - 1
        THEN Write(RowOf(a - base), ColOf(a - base))
        ELSE b[a]]

(* The row and the column of a weight matrix of rows rows that computeNon- *)
(* Pruned takes from the words of an activation buffer.  The device cuts a *)
(* word into W_PER_BUS weights.                                            *)
LoadWeight(b, rows, k, c) ==
    LET tile == (c \div K) * (rows \div K) + (k \div K)
        word == (tile * K + (k % K)) * MAX_W_COL + ((c % K) \div W_PER_BUS)
    IN IF ACT_PER_BUS = W_PER_BUS
       THEN Load(b, word * ACT_PER_BUS + (c % W_PER_BUS))
       ELSE Wrong

(* dot[i][c] is added to what the output buffer holds. *)
Multiply(b, base, cols, dot) ==
    Store(b, base, cols, LAMBDA i, c : Plus(b[base + Addr(i, c)], dot[i][c]))

-----------------------------------------------------------------------------
(* inference: the kernels in weightVec, and the ones that head n and the   *)
(* block build their Dense layers with.                                    *)

weightVec(x) ==
    IF x < 3 * model.heads
    THEN << <<"query", "key", "value">>[(x % 3) + 1], x \div 3 >>
    ELSE << <<"condense", "ff0", "ff1">>[x - 3 * model.heads + 1], 0 >>

HeadKernel(n, x) == weightVec(3 * n + x)
BlockKernel(x)   == weightVec(3 * model.heads + x)

(* All buffers are new, and zero, in every run. *)
NewAttention ==
    LET act == NewBuffer(D_SEQ * D_Q)
    IN [ query_layer_out |-> act, key_layer_out |-> act,
         key_transposed_layer_out |-> act, value_layer_out |-> act,
         attention_scores |-> NewBuffer(D_SEQ * D_SEQ) ]

(* Mutant of NewTensors: multihead_out is not cleared, and is given the    *)
(* memory it had in the run before.                                        *)
NewTensors_uncleared ==
    [ tensor_in      |-> [a \in 0 .. D_SEQ * D_MODEL - 1 |->
                             Name("input", 0, RowOf(a), ColOf(a))],
      out            |-> NewBuffer(D_SEQ * D_MODEL),
      multihead_out  |-> [a \in 0 .. D_SEQ * model.heads * D_Q - 1 |->
                             IF run = 0 THEN Zero
                             ELSE Name("head", ColOf(a) \div D_Q, RowOf(a), ColOf(a) % D_Q)],
      condense_out   |-> NewBuffer(D_SEQ * D_MODEL),
      intermediateFF |-> NewBuffer(D_SEQ * D_FF) ]

NewTensors ==
    [ tensor_in      |-> [a \in 0 .. D_SEQ * D_MODEL - 1 |->
                             Name("input", 0, RowOf(a), ColOf(a))],
      out            |-> NewBuffer(D_SEQ * D_MODEL),
      multihead_out  |-> NewBuffer(D_SEQ * model.heads * D_Q),
      condense_out   |-> NewBuffer(D_SEQ * D_MODEL),
      intermediateFF |-> NewBuffer(D_SEQ * D_FF) ]

Init ==
    /\ model \in Models
    /\ run = 0 /\ stage = "start" /\ head = 0
    /\ selfatten = << >> /\ buf = << >>

MoreRuns == run < MaxRuns

inference ==
    /\ stage = "start" /\ MoreRuns
    /\ selfatten' = [n \in Heads |-> NewAttention]
    /\ buf' = NewTensors
    /\ stage' = "query" /\ head' = 0
    /\ UNCHANGED <<model, run>>

(* The block has returned: the next run starts from new buffers. *)
delete ==
    /\ stage = "done"
    /\ selfatten' = << >> /\ buf' = << >>
    /\ run' = run + 1
    /\ stage' = "start"
    /\ UNCHANGED <<model, head>>

-----------------------------------------------------------------------------
(* SingleHeadSelfAttn::compute, for head n. *)

Step(from, to) == stage = from /\ stage' = to

(* Element k of row i of what a layer takes: the input, the result of a    *)
(* layer of the block, or the concatenated heads.                          *)
Operand(layer, i, k) ==
    IF layer = "head" THEN Name("head", k \div D_Q, i, k % D_Q)
                      ELSE Name(layer, 0, i, k)

(* Dense::compute, without a bias: the rows of input, which are to be      *)
(* those of operand, times the columns of its kernel.                      *)
DenseCompute(layer, n, kernel, input, operand, size, cols) ==
    LET Exact(i) == /\ kernel = <<layer, n>>
                    /\ \A k \in 0 .. size - 1 : Load(input, Addr(i, k)) = Operand(operand, i, k)
    IN [i \in Rows |-> [c \in 0 .. cols - 1 |-> Result(Exact(i), Name(layer, n, i, c))]]

QueryKeyValue(layer, x, next, out) ==
    /\ Step(layer, next)
    /\ selfatten' = [selfatten EXCEPT ![head][out] =
          Multiply(@, 0, D_Q, DenseCompute(layer, head, HeadKernel(head, x),
                                           buf.tensor_in, "input", D_MODEL, D_Q))]
    /\ UNCHANGED <<model, run, head, buf>>

query_layer == QueryKeyValue("query", 0, "key", "query_layer_out")
key_layer   == QueryKeyValue("key", 1, "value", "key_layer_out")
value_layer == QueryKeyValue("value", 2, "transpose", "value_layer_out")

(* Mutant of Transposed: tiles are transposed where they are. *)
Transposed_inPlace(input) ==
    [ o \in DOMAIN input |->
        LET tile == o \div (K * K)
            a == (o \div K) % K
            b == o % K
        IN input[(tile * K + b) * K + a] ]

(* transpose_rearranged of a tensor of width D_Q and height D_SEQ: element *)
(* a of row b of tile <<i, j>> goes to row a.                              *)
Transposed(input) ==
    LET tileRow == D_SEQ \div K
        tileCol == D_Q \div K
    IN [ o \in DOMAIN input |->
           LET tile == o \div (K * K)
               i == tile \div tileCol
               j == tile % tileCol
               a == (o \div K) % K
               b == o % K
           IN input[((j * tileRow + i) * K + b) * K + a] ]

transpose_rearranged ==
    /\ Step("transpose", "QKT")
    /\ selfatten' = [selfatten EXCEPT ![head].key_transposed_layer_out =
                         Transposed(selfatten[head].key_layer_out)]
    /\ UNCHANGED <<model, run, head, buf>>

QKT ==
    LET s == selfatten[head]
        score == [i \in Rows |-> [c \in 0 .. D_SEQ - 1 |->
            Result(\A k \in 0 .. D_Q - 1 :
                      /\ Load(s.query_layer_out, Addr(i, k)) = Name("query", head, i, k)
                      /\ LoadWeight(s.key_transposed_layer_out, D_Q, k, c)
                            = Name("key", head, c, k),
                   Name("score", head, i, c))]]
    IN /\ Step("QKT", "softmax")
       /\ selfatten' = [selfatten EXCEPT ![head].attention_scores = Multiply(@, 0, D_SEQ, score)]
       /\ UNCHANGED <<model, run, head, buf>>

(* computeRearranged: row i is D_SEQ / KERNEL_DIM runs of KERNEL_DIM       *)
(* elements, D_SEQ * KERNEL_DIM apart.  The code walks the elements of a   *)
(* word in the order of their bytes in memory, whatever their lanes: the   *)
(* elements of a run are the same.                                         *)
RowAddr(i, k) == i * K + (k \div K) * (D_SEQ * K) + (k % K)

softmax ==
    LET scores == selfatten[head].attention_scores
        Exact(i) == \A k \in 0 .. D_SEQ - 1 :
                        Load(scores, RowAddr(i, k)) = Name("score", head, i, k)
        Weight(i, c) == Result(Exact(i), Name("softmax", head, i, c))
    IN /\ Step("softmax", "att_v")
       /\ selfatten' = [selfatten EXCEPT ![head].attention_scores = Store(@, 0, D_SEQ, Weight)]
       /\ UNCHANGED <<model, run, head, buf>>

(* multihead_out + n * (seq_len * head_hidden_size_ >> 2), in words. *)
HeadOffset(n) == n * ((D_SEQ * D_Q) \div 4) * ACT_PER_BUS

att_v ==
    LET s == selfatten[head]
        attended == [i \in Rows |-> [c \in 0 .. D_Q - 1 |->
            Result(\A k \in 0 .. D_SEQ - 1 :
                      /\ Load(s.attention_scores, Addr(i, k)) = Name("softmax", head, i, k)
                      /\ LoadWeight(s.value_layer_out, D_SEQ, k, c) = Name("value", head, k, c),
                   Name("attended", head, i, c))]]
    IN /\ Step("att_v", "post_softmax")
       /\ buf' = [buf EXCEPT !.multihead_out = Multiply(@, HeadOffset(head), D_Q, attended)]
       /\ UNCHANGED <<model, run, head, selfatten>>

(***************************************************************************)
(* Every element is divided by 64.  The floating-point variant assigns the *)
(* 32 bits of the element, an integer, to a float: it divides their value  *)
(* as an integer, which is not the number they stand for.                  *)
(***************************************************************************)
Divided(v, i, c) ==
    Result(~ ACTIVATION_FP /\ v = Name("attended", head, i, c), Name("head", head, i, c))

(* Mutant of NextHead: the head that has finished is computed again. *)
NextHead_same ==
    IF head + 1 < model.heads
    THEN stage' = "query" /\ head' = head
    ELSE stage' = "condense" /\ UNCHANGED head

NextHead ==
    IF head + 1 < model.heads
    THEN stage' = "query" /\ head' = head + 1
    ELSE stage' = "condense" /\ UNCHANGED head

post_softmax ==
    LET base == HeadOffset(head)
        Scaled(i, c) == Divided(buf.multihead_out[base + Addr(i, c)], i, c)
    IN /\ stage = "post_softmax"
       /\ buf' = [buf EXCEPT !.multihead_out = Store(@, base, D_Q, Scaled)]
       /\ NextHead
       /\ UNCHANGED <<model, run, selfatten>>

-----------------------------------------------------------------------------
(* TransformerBlock::compute, after the heads. *)

condense ==
    /\ Step("condense", "addNorm0")
    /\ buf' = [buf EXCEPT !.condense_out =
          Multiply(@, 0, D_MODEL, DenseCompute("condense", 0, BlockKernel(0), buf.multihead_out,
                                               "head", model.heads * D_Q, D_MODEL))]
    /\ UNCHANGED <<model, run, head, selfatten>>

(* AddNormalize::computeRearranged: the elements of input are added to     *)
(* those of output one by one, then each row of output is normalised.      *)
AddElements(input, output) ==
    [a \in 0 .. D_SEQ * D_MODEL - 1 |-> Plus(Load(output, a), Load(input, a))]

AddNormalize(layer, input, residual, output, result) ==
    LET added == AddElements(input, output)
        Exact(i) == \A k \in 0 .. D_MODEL - 1 :
            added[RowAddr(i, k)] = Plus(Operand(result, i, k), Operand(residual, i, k))
    IN Store(output, 0, D_MODEL, LAMBDA i, c : Result(Exact(i), Name(layer, 0, i, c)))

addNorm0 ==
    /\ Step("addNorm0", "ff0")
    /\ buf' = [buf EXCEPT !.condense_out =
                   AddNormalize("norm0", buf.tensor_in, "input", @, "condense")]
    /\ UNCHANGED <<model, run, head, selfatten>>

feedForward0 ==
    /\ Step("ff0", "ff1")
    /\ buf' = [buf EXCEPT !.intermediateFF =
          Multiply(@, 0, D_FF, DenseCompute("ff0", 0, BlockKernel(1), buf.condense_out,
                                            "norm0", D_MODEL, D_FF))]
    /\ UNCHANGED <<model, run, head, selfatten>>

feedForward1 ==
    /\ Step("ff1", "addNorm1")
    /\ buf' = [buf EXCEPT !.out =
          Multiply(@, 0, D_MODEL, DenseCompute("ff1", 0, BlockKernel(2), buf.intermediateFF,
                                               "ff0", D_FF, D_MODEL))]
    /\ UNCHANGED <<model, run, head, selfatten>>

addNorm1 ==
    /\ Step("addNorm1", "done")
    /\ buf' = [buf EXCEPT !.out = AddNormalize("norm1", buf.condense_out, "norm0", @, "ff1")]
    /\ UNCHANGED <<model, run, head, selfatten>>

-----------------------------------------------------------------------------
Next ==
    \/ inference
    \/ query_layer \/ key_layer \/ value_layer \/ transpose_rearranged
    \/ QKT \/ softmax \/ att_v \/ post_softmax
    \/ condense \/ addNorm0 \/ feedForward0 \/ feedForward1 \/ addNorm1
    \/ delete

Spec == Init /\ [][Next]_vars

(* One thread runs the program: the next call of a run is made. *)
FairSpec == Spec /\ WF_vars(Next)

-----------------------------------------------------------------------------
(* Properties. *)

HeadFinished(n) ==
    CASE stage = "start" -> FALSE
      [] stage \in {"query", "key", "value", "transpose", "QKT", "softmax", "att_v",
                    "post_softmax"} -> n < head
      [] OTHER -> TRUE

(***************************************************************************)
(* What a head has left in multihead_out stays there, at the columns       *)
(* condense takes for that head, while the other heads and the layers      *)
(* after them work (TransformerBlock::compute).                            *)
(***************************************************************************)
FinishedHeads ==
    \A n \in Heads : HeadFinished(n) =>
        \A i \in Rows, c \in 0 .. D_Q - 1 :
            Load(buf.multihead_out, Addr(i, n * D_Q + c)) = Name("head", n, i, c)

(***************************************************************************)
(* Every run of the program ends with an output tensor all of whose        *)
(* elements are those of the network: each layer of TransformerBlock and   *)
(* of SingleHeadSelfAttn has taken its operands, whole, from the right     *)
(* places, and has added its result to zeros.                              *)
(***************************************************************************)
OutputExact ==
    stage = "done" =>
        \A i \in Rows, c \in 0 .. D_MODEL - 1 :
            Load(buf.out, Addr(i, c)) = Name("norm1", 0, i, c)

(* All the runs main is asked for are carried out. *)
AllRunsFinish == <>(stage = "start" /\ run = MaxRuns)
=============================================================================
