-------------------------- MODULE MatMulTestProofs --------------------------
(***************************************************************************)
(* The test program on the software model of the device, for every size of *)
(* the array, packing, number of rows and number of tests.                 *)
(*                                                                         *)
(* The program counts elements where processMultiplication counts rows and *)
(* words; the pipeline of the array is described in rows and words again,  *)
(* with the symbols of the test under way.                                 *)
(***************************************************************************)
EXTENDS MatMulTest, ConfigProofs, TLAPS

-----------------------------------------------------------------------------
(* Instructions addressed by the index of an element. *)

(* The fields of the device's tile, whatever they hold. *)
IsTile(t) ==
    t = [weights       |-> t.weights,
         inputMemory   |-> t.inputMemory,
         outputMemory  |-> t.outputMemory,
         inWaiting     |-> t.inWaiting,
         outWaiting    |-> t.outWaiting,
         non_zero_tile |-> t.non_zero_tile]

(* Remainders of what lies within one length of the range. *)
LEMMA WrapAround ==
    ASSUME NEW n \in Nat, n > 0
    PROVE  /\ \A x \in 0 .. n - 1 : x % n = x /\ (x + n) % n = x
           /\ \A x \in (0 - n) .. -1 : x % n = x + n
  OBVIOUS

(* The first element of a word of a row, and of the next one. *)
LEMMA WordStart ==
    ASSUME NEW w \in 0 .. MAX_ACT_COL - 1
    PROVE  /\ w * ACT_PER_BUS \in 0 .. KERNEL_DIM - ACT_PER_BUS
           /\ w # MAX_ACT_COL - 1 =>
                w * ACT_PER_BUS + ACT_PER_BUS \in 0 .. KERNEL_DIM - ACT_PER_BUS
           /\ w = MAX_ACT_COL - 1 =>
                w * ACT_PER_BUS + ACT_PER_BUS = KERNEL_DIM
           /\ (w + 1) * ACT_PER_BUS = w * ACT_PER_BUS + ACT_PER_BUS
<1> DEFINE a == w * ACT_PER_BUS
<1>0. /\ ACT_PER_BUS \in Nat /\ ACT_PER_BUS > 0 /\ KERNEL_DIM \in Nat
      /\ MAX_ACT_COL \in Nat /\ w \in Nat /\ w < MAX_ACT_COL
  BY ConfigFacts
<1>1. /\ a \in Nat /\ (w + 1) * ACT_PER_BUS = a + ACT_PER_BUS
      /\ a + ACT_PER_BUS <= MAX_ACT_COL * ACT_PER_BUS
  BY <1>0, Multiples
<1>2. w # MAX_ACT_COL - 1 =>
        (w + 1) * ACT_PER_BUS + ACT_PER_BUS <= MAX_ACT_COL * ACT_PER_BUS
  BY <1>0, Multiples
<1>3. w = MAX_ACT_COL - 1 => (w + 1) * ACT_PER_BUS = MAX_ACT_COL * ACT_PER_BUS
  BY <1>0
<1>4. MAX_ACT_COL * ACT_PER_BUS = KERNEL_DIM
  BY ConfigFacts
<1> HIDE DEF a
<1> QED
  BY <1>0, <1>1, <1>2, <1>3, <1>4 DEF a

(* The word goes where the gem5 device puts the word of that number. *)
LEMMA StoreAtElement ==
    ASSUME NEW w \in 0 .. MAX_ACT_COL - 1, NEW m, NEW val
    PROVE  swStoreInput(m, w * ACT_PER_BUS, val) = storeInput(m, w, val)
<1> DEFINE K == KERNEL_DIM
           a == w * ACT_PER_BUS
<1>0. /\ K \in Nat /\ K > 0 /\ ACT_PER_BUS \in Nat /\ ACT_PER_BUS > 0
      /\ a \in 0 .. K - ACT_PER_BUS
  BY ConfigFacts, WordStart
<1> SUFFICES ASSUME NEW r \in Index, NEW c \in Index
             PROVE  LET l == (r - a) % K
                        q == r - a
                    IN  /\ (l \in ActLane /\ c = (K - (a + l) - 1 + K) % K)
                             <=> (q \in ActLane /\ c = K - r - 1)
                        /\ q \in ActLane => l = q
  BY DEF swStoreInput, storeInput
<1> HIDE DEF a
<1>1. r \in 0 .. K - 1 /\ c \in 0 .. K - 1
  BY DEF Index
<1>2. CASE r >= a
  <2>1. r - a \in 0 .. K - 1
    BY <1>0, <1>1, <1>2
  <2>2. (r - a) % K = r - a
    BY <1>0, <2>1, WrapAround
  <2>3. (K - r - 1) \in 0 .. K - 1
        /\ K - (a + (r - a)) - 1 + K = (K - r - 1) + K
    BY <1>0, <1>1
  <2>4. (K - (a + (r - a)) - 1 + K) % K = K - r - 1
    BY <1>0, <2>3, WrapAround
  <2> QED
    BY <2>2, <2>4
<1>3. CASE r < a
  <2>1. r - a \in (0 - K) .. -1
    BY <1>0, <1>1, <1>3
  <2>2. (r - a) % K = r - a + K
    BY <1>0, <2>1, WrapAround
  <2>3. r - a \notin ActLane /\ r - a + K \notin ActLane
    BY <1>0, <1>1, <1>3 DEF ActLane
  <2> QED
    BY <2>2, <2>3
<1> QED
  BY <1>0, <1>1, <1>2, <1>3

(* And the word behind it is returned. *)
LEMMA RetrieveAtElement ==
    ASSUME NEW w \in 0 .. MAX_ACT_COL - 1, NEW t
    PROVE  retrieveOutput(t, w * ACT_PER_BUS) =
             outputWord(t, IF w = MAX_ACT_COL - 1 THEN 0 ELSE w + 1)
<1> DEFINE K == KERNEL_DIM
           a == w * ACT_PER_BUS
           v == IF w = MAX_ACT_COL - 1 THEN 0 ELSE w + 1
           x == (a + ACT_PER_BUS) % K
           y == v * ACT_PER_BUS
<1>0. /\ K \in Nat /\ K > 0 /\ ACT_PER_BUS \in Nat /\ ACT_PER_BUS > 0
      /\ a \in 0 .. K - ACT_PER_BUS
  BY ConfigFacts, WordStart
<1>1. x = y /\ x \in 0 .. K - ACT_PER_BUS
  <2>1. CASE w = MAX_ACT_COL - 1
    <3>1. a + ACT_PER_BUS = K /\ y = 0
      BY <1>0, <2>1, WordStart, Multiples
    <3>2. K % K = 0
      BY <1>0
    <3> QED
      BY <1>0, <3>1, <3>2
  <2>2. CASE w # MAX_ACT_COL - 1
    <3>1. y = a + ACT_PER_BUS /\ a + ACT_PER_BUS \in 0 .. K - ACT_PER_BUS
      BY <2>2, WordStart
    <3> HIDE DEF a, y
    <3>2. a + ACT_PER_BUS \in 0 .. K - 1
      BY <1>0, <3>1
    <3>3. (a + ACT_PER_BUS) % K = a + ACT_PER_BUS
      BY <1>0, <3>2, WrapAround
    <3> QED
      BY <3>1, <3>3
  <2> QED
    BY <2>1, <2>2
<1> HIDE DEF x, y
<1> SUFFICES ASSUME NEW l \in ActLane
             PROVE  /\ (K - x - l - 1 + K) % K = K - (y + l) - 1
                    /\ (x + l) % K = y + l
  BY DEF retrieveOutput, outputWord, x, y
<1>2. l \in Nat /\ x + l \in 0 .. K - 1
  BY <1>0, <1>1 DEF ActLane
<1>3. (x + l) % K = x + l
  BY <1>0, <1>2, WrapAround
<1>4. K - (x + l) - 1 \in 0 .. K - 1 /\ K - x - l - 1 + K = (K - (x + l) - 1) + K
  BY <1>0, <1>1, <1>2
<1>5. ((K - (x + l) - 1) + K) % K = K - (x + l) - 1
  BY <1>0, <1>4, WrapAround
<1> QED
  BY <1>1, <1>3, <1>4, <1>5

(* The queue and stream instructions are those of the gem5 device. *)
LEMMA InstructionsSame ==
    ASSUME NEW w \in 0 .. MAX_ACT_COL - 1, NEW t, IsTile(t), NEW val
    PROVE  /\ swInputQueue(t, w * ACT_PER_BUS, val) = inputQueue(t, w, val)
           /\ w = MAX_ACT_COL - 1 =>
                swStreamInOut(t, w * ACT_PER_BUS, val) = streamInOut(t, val)
<1> DEFINE a == w * ACT_PER_BUS
<1>1. swInputQueue(t, a, val) = inputQueue(t, w, val)
  <2> DEFINE waiting == storeInput(t.inWaiting, w, val)
  <2>1. swInputQueue(t, a, val) = [t EXCEPT !.inWaiting = waiting]
    BY StoreAtElement DEF swInputQueue
  <2>2. inputQueue(t, w, val) =
          [weights |-> t.weights, inputMemory |-> t.inputMemory,
           outputMemory |-> t.outputMemory, inWaiting |-> waiting,
           outWaiting |-> t.outWaiting, non_zero_tile |-> t.non_zero_tile]
    BY DEF inputQueue
  <2> HIDE DEF waiting
  <2> QED
    BY <2>1, <2>2 DEF IsTile
<1>2. ASSUME w = MAX_ACT_COL - 1
      PROVE  swStreamInOut(t, a, val) = streamInOut(t, val)
  <2> DEFINE waiting == storeInput(t.inWaiting, MAX_ACT_COL - 1, val)
             inputs  == enterArray(t.inputMemory, waiting)
             sums    == multiplyAccumulate(t.outputMemory, inputs, t.weights)
             right   == shiftRight(inputs)
             wright  == shiftRight(waiting)
             down    == shiftDown(t.outWaiting, sums[KERNEL_DIM])
  <2>1. swStoreInput(t.inWaiting, a, val) = waiting
    BY <1>2, StoreAtElement
  <2>2. swStreamInOut(t, a, val) =
          [t EXCEPT !.inputMemory = right, !.outputMemory = sums,
                    !.inWaiting = wright, !.outWaiting = down,
                    !.non_zero_tile = FALSE]
    BY <2>1 DEF swStreamInOut
  <2>3. streamInOut(t, val) =
          [weights |-> t.weights, inputMemory |-> right, outputMemory |-> sums,
           inWaiting |-> wright, outWaiting |-> down, non_zero_tile |-> FALSE]
    BY DEF streamInOut
  <2> HIDE DEF waiting, inputs, sums, right, wright, down
  <2> QED
    BY <2>2, <2>3 DEF IsTile
<1> QED
  BY <1>1, <1>2

LEMMA TilesStay ==
    ASSUME NEW t, IsTile(t), NEW n, NEW val
    PROVE  /\ IsTile(loadWeights(t, n, val))
           /\ IsTile(inputQueue(t, n, val))
           /\ IsTile(streamInOut(t, val))
  BY DEF IsTile, loadWeights, inputQueue, streamInOut

-----------------------------------------------------------------------------
(***************************************************************************)
(* What the live cells hold after n rows of input and q words of the next  *)
(* row, in test T with s rows.  The cell of row r and column c of the      *)
(* array works on row n - r - c.                                           *)
(***************************************************************************)

RowElement(T, s, m, e) ==
    IF m \in 0 .. s - 1 THEN { <<T, "lhs", m * KERNEL_DIM + e>> } ELSE Zero

TileWeight(T, r, c) == { <<T, "rhs", r * KERNEL_DIM + c>> }

PartialDot(T, s, m, h, c) ==
    IF m \in 0 .. s - 1
      THEN { << <<T, "lhs", m * KERNEL_DIM + e>>,
                <<T, "rhs", e * KERNEL_DIM + c>> >> : e \in 0 .. h - 1 }
      ELSE Zero

InWaitingAt(t, T, s, n) ==
    \A r, c \in Index : c > KERNEL_DIM - 1 - r =>
        t.inWaiting[r][c] = RowElement(T, s, n - c + KERNEL_DIM - 1 - r, r)

QueuedAt(t, T, s, n, q) ==
    \A r \in Index : r < q * ACT_PER_BUS =>
        t.inWaiting[r][KERNEL_DIM - 1 - r] = RowElement(T, s, n, r)

InputAt(t, T, s, n) ==
    \A r, c \in Index : c > 0 =>
        t.inputMemory[r][c] = RowElement(T, s, n - r - c, r)

OutputAt(t, T, s, n) ==
    \A r, c \in Index :
        t.outputMemory[r][c] = PartialDot(T, s, n - r - c, r, c)

OutWaitingAt(t, T, s, n) ==
    \A r, c \in Index :
        \/ r + c < KERNEL_DIM - 1
        \/ r + c = KERNEL_DIM - 1 /\ n > 0
        => t.outWaiting[r][c] =
             PartialDot(T, s, n - KERNEL_DIM - r - c, KERNEL_DIM, c)

PipelineAt(t, T, s, n, q) ==
    /\ InWaitingAt(t, T, s, n)
    /\ QueuedAt(t, T, s, n, q)
    /\ InputAt(t, T, s, n)
    /\ OutputAt(t, T, s, n)
    /\ OutWaitingAt(t, T, s, n)

CleanTile(t) ==
    \A r, c \in Index :
        /\ c > KERNEL_DIM - 1 - r => t.inWaiting[r][c] = Zero
        /\ c > 0 => t.inputMemory[r][c] = Zero
        /\ t.outputMemory[r][c] = Zero
        /\ r + c < KERNEL_DIM - 1 => t.outWaiting[r][c] = Zero

(* The first n weights of the test are in place. *)
HasWeights(t, T, n) ==
    \A r, c \in Index : r * KERNEL_DIM + c < n =>
        t.weights[r][c] = TileWeight(T, r, c)

-----------------------------------------------------------------------------
(* Formal sums. *)

LEMMA PartialDotZero ==
    ASSUME NEW s \in Nat, NEW T, NEW m \in Int, NEW c
    PROVE  PartialDot(T, s, m, 0, c) = Zero
  BY DEF PartialDot, Zero

(* Pairs of names differ when the elements they name do. *)
LEMMA PartialDotStep ==
    ASSUME NEW T, NEW s \in Nat, NEW m \in Int, NEW h \in Nat, NEW c \in Nat
    PROVE  Plus(PartialDot(T, s, m, h, c),
                Product(RowElement(T, s, m, h), TileWeight(T, h, c)))
             = PartialDot(T, s, m, h + 1, c)
<1>1. CASE m \notin 0 .. s - 1
  BY <1>1 DEF PartialDot, RowElement, Plus, Product, Zero
<1>2. CASE m \in 0 .. s - 1
  <2> DEFINE B == m * KERNEL_DIM
             P(e) == << <<T, "lhs", B + e>>, <<T, "rhs", e * KERNEL_DIM + c>> >>
  <2>1. B \in Int
    BY <1>2, ConfigFacts
  <2>2. Product(RowElement(T, s, m, h), TileWeight(T, h, c)) = { P(h) }
    BY <1>2 DEF Product, RowElement, TileWeight
  <2>3. PartialDot(T, s, m, h, c) = { P(e) : e \in 0 .. h - 1 }
    BY <1>2 DEF PartialDot
  <2>4. PartialDot(T, s, m, h + 1, c) = { P(e) : e \in 0 .. h }
    BY <1>2 DEF PartialDot
  <2>5. P(h) \notin { P(e) : e \in 0 .. h - 1 }
    <3> SUFFICES ASSUME NEW e \in 0 .. h - 1, P(h) = P(e) PROVE FALSE
      OBVIOUS
    <3>1. B + h = B + e
      OBVIOUS
    <3> HIDE DEF B
    <3> QED
      BY <3>1, <2>1
  <2>6. { P(e) : e \in 0 .. h } = { P(e) : e \in 0 .. h - 1 } \cup { P(h) }
    <3> HIDE DEF P
    <3> QED
      OBVIOUS
  <2> HIDE DEF P
  <2> QED
    BY <2>2, <2>3, <2>4, <2>5, <2>6 DEF Plus
<1> QED
  BY <1>1, <1>2

LEMMA CellStep ==
    ASSUME NEW s \in Nat, NEW T, NEW n \in Nat,
           NEW r \in Index, NEW c \in Index
    PROVE  Plus(PartialDot(T, s, n - r - c, r, c),
                Product(RowElement(T, s, n - r - c, r), TileWeight(T, r, c)))
             = PartialDot(T, s, n - r - c, r + 1, c)
<1>1. r \in Nat /\ c \in Nat /\ n - r - c \in Int
  BY ConfigFacts DEF Index
<1> QED
  BY <1>1, PartialDotStep

-----------------------------------------------------------------------------
(* The instructions move the pipeline. *)

IsRowWord(val, T, s, n, q) ==
    \A l \in ActLane : val[l] = RowElement(T, s, n, q * ACT_PER_BUS + l)

LEMMA AllWeights ==
    ASSUME NEW t, NEW T, HasWeights(t, T, KERNEL_DIM * KERNEL_DIM),
           NEW r \in Index, NEW c \in Index
    PROVE  t.weights[r][c] = TileWeight(T, r, c)
<1>1. r \in Nat /\ r < KERNEL_DIM /\ c \in Nat /\ c < KERNEL_DIM /\ KERNEL_DIM \in Nat
  BY ConfigFacts DEF Index
<1>2. r * KERNEL_DIM + KERNEL_DIM <= KERNEL_DIM * KERNEL_DIM /\ r * KERNEL_DIM \in Nat
  BY <1>1, Multiples
<1>3. r * KERNEL_DIM + c < KERNEL_DIM * KERNEL_DIM
  <2> DEFINE a == r * KERNEL_DIM
             b == KERNEL_DIM * KERNEL_DIM
  <2>1. b \in Nat /\ a \in Nat /\ a + KERNEL_DIM <= b
    BY <1>1, <1>2
  <2> HIDE DEF a, b
  <2> QED
    BY <1>1, <2>1 DEF a, b
<1> QED
  BY <1>3 DEF HasWeights

LEMMA QueuePipeline ==
    ASSUME NEW t, NEW s \in Nat, NEW T,
           NEW n \in Nat, NEW q \in 0 .. MAX_ACT_COL - 1,
           NEW val,
           IsRowWord(val, T, s, n, q),
           PipelineAt(t, T, s, n, q)
    PROVE  PipelineAt(inputQueue(t, q, val), T, s, n, q + 1)
<1> DEFINE u == inputQueue(t, q, val)
<1>1. /\ u.inputMemory = t.inputMemory
      /\ u.outputMemory = t.outputMemory
      /\ u.outWaiting = t.outWaiting
      /\ u.inWaiting = storeInput(t.inWaiting, q, val)
  BY DEF inputQueue
<1>2. \A r, c \in Index : u.inWaiting[r][c] =
          IF r - q * ACT_PER_BUS \in ActLane /\ c = KERNEL_DIM - r - 1
            THEN val[r - q * ACT_PER_BUS] ELSE t.inWaiting[r][c]
  BY <1>1 DEF storeInput
<1> HIDE DEF u
<1>3. InputAt(u, T, s, n) /\ OutputAt(u, T, s, n) /\ OutWaitingAt(u, T, s, n)
  BY <1>1 DEF PipelineAt, InputAt, OutputAt, OutWaitingAt
<1>4. InWaitingAt(u, T, s, n)
  BY <1>2, ConfigFacts DEF PipelineAt, InWaitingAt, Index
<1>5. QueuedAt(u, T, s, n, q + 1)
  <2> SUFFICES ASSUME NEW r \in Index, r < (q + 1) * ACT_PER_BUS
               PROVE  u.inWaiting[r][KERNEL_DIM - 1 - r] = RowElement(T, s, n, r)
    BY DEF QueuedAt
  <2> DEFINE Q == q * ACT_PER_BUS
  <2>1. Q \in Int /\ r \in Int /\ r < Q + ACT_PER_BUS /\ KERNEL_DIM - 1 - r \in Index
    BY ConfigFacts DEF Index
  <2>2. CASE r < Q
    <3>1. r - Q \notin ActLane
      BY <2>1, <2>2 DEF ActLane
    <3> QED
      BY <1>2, <2>1, <2>2, <3>1 DEF PipelineAt, QueuedAt
  <2>3. CASE r >= Q
    <3> HIDE DEF Q
    <3>1. r - Q \in ActLane /\ Q + (r - Q) = r /\ KERNEL_DIM - 1 - r = KERNEL_DIM - r - 1
      BY <2>1, <2>3, ConfigFacts DEF ActLane
    <3> USE DEF Q
    <3> QED
      BY <1>2, <2>1, <3>1 DEF IsRowWord
  <2> QED
    BY <2>1, <2>2, <2>3
<1> QED
  BY <1>3, <1>4, <1>5 DEF PipelineAt, u

LEMMA StreamPipeline ==
    ASSUME NEW t, NEW s \in Nat, NEW T,
           NEW n \in Nat, NEW q, q = MAX_ACT_COL - 1,
           NEW val,
           IsRowWord(val, T, s, n, q),
           HasWeights(t, T, KERNEL_DIM * KERNEL_DIM),
           PipelineAt(t, T, s, n, q)
    PROVE  PipelineAt(streamInOut(t, val), T, s, n + 1, 0)
<1> DEFINE waiting == storeInput(t.inWaiting, MAX_ACT_COL - 1, val)
           inputs  == enterArray(t.inputMemory, waiting)
           sums    == multiplyAccumulate(t.outputMemory, inputs, t.weights)
           u       == streamInOut(t, val)
           K       == KERNEL_DIM
           Q       == q * ACT_PER_BUS
<1>0. /\ q \in Nat /\ K \in Nat /\ K > 0
      /\ ACT_PER_BUS \in Nat /\ ACT_PER_BUS > 0 /\ ACT_PER_BUS <= K
      /\ Q = K - ACT_PER_BUS /\ Q \in Int
  <2>1. q * ACT_PER_BUS = MAX_ACT_COL * ACT_PER_BUS - ACT_PER_BUS
    BY ConfigFacts
  <2>2. q * ACT_PER_BUS >= 0
    BY ConfigFacts
  <2> QED
    BY <2>1, <2>2, ConfigFacts
<1>1. \A r \in Index : waiting[r][K - 1 - r] = RowElement(T, s, n, r)
  <2> SUFFICES ASSUME NEW r \in Index
               PROVE  waiting[r][K - 1 - r] = RowElement(T, s, n, r)
    OBVIOUS
  <2>1. r \in Int /\ r >= 0 /\ r < K /\ K - 1 - r \in Index
        /\ K - 1 - r = K - r - 1
    BY <1>0 DEF Index
  <2>2. waiting[r][K - 1 - r] =
          IF r - Q \in ActLane THEN val[r - Q] ELSE t.inWaiting[r][K - 1 - r]
    BY <2>1 DEF storeInput
  <2>3. CASE r < Q
    <3>1. r - Q \notin ActLane
      BY <1>0, <2>1, <2>3 DEF ActLane
    <3> QED
      BY <2>2, <2>3, <3>1 DEF PipelineAt, QueuedAt
  <2>4. CASE r >= Q
    <3> HIDE DEF Q
    <3>1. r - Q \in ActLane /\ Q + (r - Q) = r
      BY <1>0, <2>1, <2>4 DEF ActLane
    <3> USE DEF Q
    <3> QED
      BY <2>2, <3>1 DEF IsRowWord
  <2> QED
    BY <1>0, <2>1, <2>3, <2>4
<1>2. \A r, c \in Index : c > K - 1 - r =>
          waiting[r][c] = RowElement(T, s, n - c + K - 1 - r, r)
  <2> SUFFICES ASSUME NEW r \in Index, NEW c \in Index, c > K - 1 - r
               PROVE  waiting[r][c] = RowElement(T, s, n - c + K - 1 - r, r)
    OBVIOUS
  <2>1. c # K - r - 1
    BY <1>0 DEF Index
  <2>2. waiting[r][c] = t.inWaiting[r][c]
    BY <2>1 DEF storeInput
  <2> QED
    BY <2>2 DEF PipelineAt, InWaitingAt
<1> HIDE DEF waiting
<1>3. \A r, c \in Index : inputs[r][c] = RowElement(T, s, n - r - c, r)
  <2> SUFFICES ASSUME NEW r \in Index, NEW c \in Index
               PROVE  inputs[r][c] = RowElement(T, s, n - r - c, r)
    OBVIOUS
  <2>0. inputs[r][c] = IF c = 0 THEN waiting[r][K - 1] ELSE t.inputMemory[r][c]
    BY DEF enterArray
  <2>1. CASE c # 0
    <3>1. c > 0
      BY <1>0, <2>1 DEF Index
    <3> QED
      BY <2>0, <2>1, <3>1 DEF PipelineAt, InputAt
  <2>2. CASE c = 0 /\ r = 0
    <3>1. K - 1 = K - 1 - r /\ n = n - r - c
      BY <1>0, <2>2
    <3> QED
      BY <1>1, <2>0, <2>2, <3>1
  <2>3. CASE c = 0 /\ r # 0
    <3>1. K - 1 \in Index /\ K - 1 > K - 1 - r /\ n - (K - 1) + K - 1 - r = n - r - c
      BY <1>0, <2>3 DEF Index
    <3> QED
      BY <1>2, <2>0, <2>3, <3>1
  <2> QED
    BY <2>1, <2>2, <2>3
<1> HIDE DEF inputs
<1>4. \A r, c \in Index :
         Plus(t.outputMemory[r][c], Product(inputs[r][c], t.weights[r][c]))
           = PartialDot(T, s, n - r - c, r + 1, c)
  <2> SUFFICES ASSUME NEW r \in Index, NEW c \in Index
               PROVE  Plus(t.outputMemory[r][c],
                           Product(inputs[r][c], t.weights[r][c]))
                        = PartialDot(T, s, n - r - c, r + 1, c)
    OBVIOUS
  <2>1. /\ t.outputMemory[r][c] = PartialDot(T, s, n - r - c, r, c)
        /\ inputs[r][c] = RowElement(T, s, n - r - c, r)
        /\ t.weights[r][c] = TileWeight(T, r, c)
    BY <1>3, AllWeights DEF PipelineAt, OutputAt
  <2>2. Plus(PartialDot(T, s, n - r - c, r, c),
             Product(RowElement(T, s, n - r - c, r), TileWeight(T, r, c)))
          = PartialDot(T, s, n - r - c, r + 1, c)
    BY CellStep
  <2> QED
    BY <2>1, <2>2
<1>6. u = [weights       |-> t.weights,
           inputMemory   |-> shiftRight(inputs),
           outputMemory  |-> sums,
           inWaiting     |-> shiftRight(waiting),
           outWaiting    |-> shiftDown(t.outWaiting, sums[KERNEL_DIM]),
           non_zero_tile |-> FALSE]
  BY DEF streamInOut, waiting, inputs
<1>7. \A r \in 0 .. K, c \in Index : r > 0 =>
         sums[r][c] = PartialDot(T, s, n + 1 - r - c, r, c)
  <2> SUFFICES ASSUME NEW r \in 0 .. K, NEW c \in Index, r > 0
               PROVE  sums[r][c] = PartialDot(T, s, n + 1 - r - c, r, c)
    OBVIOUS
  <2>1. /\ r - 1 \in Index /\ (r - 1) + 1 = r
        /\ n - (r - 1) - c = n + 1 - r - c
    BY <1>0 DEF Index
  <2>2. sums[r][c] = Plus(t.outputMemory[r - 1][c],
                          Product(inputs[r - 1][c], t.weights[r - 1][c]))
    BY <1>0 DEF multiplyAccumulate
  <2> QED
    BY <1>4, <2>1, <2>2
<1>8. \A c \in Index : sums[0][c] = Zero
  <2>1. \A c \in Index : sums[0][c] = t.outputMemory[0][c]
    BY <1>0 DEF multiplyAccumulate
  <2>2. SUFFICES ASSUME NEW c \in Index PROVE t.outputMemory[0][c] = Zero
    BY <2>1
  <2>3. 0 \in Index /\ n - 0 - c \in Int
    BY <1>0 DEF Index
  <2> QED
    BY <2>3, PartialDotZero DEF PipelineAt, OutputAt
<1> HIDE DEF sums, u
<1>9. InWaitingAt(u, T, s, n + 1)
  <2> SUFFICES ASSUME NEW r \in Index, NEW c \in Index, c > K - 1 - r
               PROVE  u.inWaiting[r][c] = RowElement(T, s, n + 1 - c + K - 1 - r, r)
    BY <1>0 DEF InWaitingAt, Index
  <2>1. /\ c # 0 /\ c - 1 \in Index
        /\ n + 1 - c + K - 1 - r = n - (c - 1) + K - 1 - r
    BY <1>0 DEF Index
  <2>2. u.inWaiting[r][c] = waiting[r][c - 1]
    BY <1>6, <2>1 DEF shiftRight
  <2>3. CASE c - 1 = K - 1 - r
    <3>1. n + 1 - c + K - 1 - r = n
      BY <1>0, <2>3 DEF Index
    <3> QED
      BY <1>1, <2>2, <2>3, <3>1
  <2>4. CASE c - 1 > K - 1 - r
    BY <1>2, <2>1, <2>2, <2>4
  <2>5. c - 1 = K - 1 - r \/ c - 1 > K - 1 - r
    BY <1>0 DEF Index
  <2> QED
    BY <2>3, <2>4, <2>5
<1>10. QueuedAt(u, T, s, n + 1, 0)
  <2>1. 0 * ACT_PER_BUS = 0
    BY <1>0
  <2> QED
    BY <1>0, <2>1 DEF QueuedAt, Index
<1>11. InputAt(u, T, s, n + 1)
  <2> SUFFICES ASSUME NEW r \in Index, NEW c \in Index, c > 0
               PROVE  u.inputMemory[r][c] = RowElement(T, s, n + 1 - r - c, r)
    BY <1>0 DEF InputAt, Index
  <2>1. c # 0 /\ c - 1 \in Index /\ n - r - (c - 1) = n + 1 - r - c
    BY <1>0 DEF Index
  <2>2. u.inputMemory[r][c] = inputs[r][c - 1]
    BY <1>6, <2>1 DEF shiftRight
  <2> QED
    BY <1>3, <2>1, <2>2
<1>12. OutputAt(u, T, s, n + 1)
  <2> SUFFICES ASSUME NEW r \in Index, NEW c \in Index
               PROVE  u.outputMemory[r][c] = PartialDot(T, s, n + 1 - r - c, r, c)
    BY <1>0 DEF OutputAt, Index
  <2>0. u.outputMemory = sums
    BY <1>6
  <2>1. CASE r = 0
    <3>1. n + 1 - r - c \in Int
      BY <1>0 DEF Index
    <3> QED
      BY <1>8, <2>0, <2>1, <3>1, PartialDotZero
  <2>2. CASE r # 0
    <3>1. r \in 0 .. K /\ r > 0
      BY <1>0, <2>2 DEF Index
    <3> QED
      BY <1>7, <2>0, <3>1
  <2> QED
    BY <2>1, <2>2
<1>13. OutWaitingAt(u, T, s, n + 1)
  <2> SUFFICES ASSUME NEW r \in Index, NEW c \in Index, r + c <= K - 1
               PROVE  u.outWaiting[r][c] =
                        PartialDot(T, s, n + 1 - K - r - c, K, c)
    BY <1>0 DEF OutWaitingAt, Index
  <2>1. u.outWaiting[r][c] = IF r = 0 THEN sums[K][c] ELSE t.outWaiting[r - 1][c]
    BY <1>6 DEF shiftDown
  <2>2. CASE r = 0
    <3>1. K \in 0 .. K /\ K > 0 /\ n + 1 - K - r - c = n + 1 - K - c
      BY <1>0, <2>2 DEF Index
    <3> QED
      BY <1>7, <2>1, <2>2, <3>1
  <2>3. CASE r # 0
    <3>1. /\ r - 1 \in Index /\ (r - 1) + c < K - 1
          /\ n - K - (r - 1) - c = n + 1 - K - r - c
      BY <1>0, <2>3 DEF Index
    <3> QED
      BY <2>1, <2>3, <3>1 DEF PipelineAt, OutWaitingAt
  <2> QED
    BY <2>2, <2>3
<1> QED
  BY <1>9, <1>10, <1>11, <1>12, <1>13 DEF PipelineAt, u

LEMMA ZeroOutside ==
    ASSUME NEW s \in Nat, NEW T, NEW m \in Int, m < 0 \/ m >= s,
           NEW h, NEW c
    PROVE  RowElement(T, s, m, h) = Zero /\ PartialDot(T, s, m, h, c) = Zero
  BY DEF RowElement, PartialDot

LEMMA CleanStarts ==
    ASSUME NEW t, CleanTile(t), NEW s \in Nat, NEW T
    PROVE  PipelineAt(t, T, s, 0, 0)
<1> DEFINE K == KERNEL_DIM
<1>1. K \in Nat /\ 0 * ACT_PER_BUS = 0
  BY ConfigFacts
<1>2. InWaitingAt(t, T, s, 0)
  <2> SUFFICES ASSUME NEW r \in Index, NEW c \in Index, c > K - 1 - r
               PROVE  t.inWaiting[r][c] = RowElement(T, s, 0 - c + K - 1 - r, r)
    BY <1>1 DEF InWaitingAt, Index
  <2>1. 0 - c + K - 1 - r \in Int /\ 0 - c + K - 1 - r < 0
    BY <1>1 DEF Index
  <2> QED
    BY <2>1, ZeroOutside DEF CleanTile
<1>3. QueuedAt(t, T, s, 0, 0)
  BY <1>1 DEF QueuedAt, Index
<1>4. InputAt(t, T, s, 0)
  <2> SUFFICES ASSUME NEW r \in Index, NEW c \in Index, c > 0
               PROVE  t.inputMemory[r][c] = RowElement(T, s, 0 - r - c, r)
    BY <1>1 DEF InputAt, Index
  <2>1. 0 - r - c \in Int /\ 0 - r - c < 0
    BY <1>1 DEF Index
  <2> QED
    BY <2>1, ZeroOutside DEF CleanTile
<1>5. OutputAt(t, T, s, 0)
  <2> SUFFICES ASSUME NEW r \in Index, NEW c \in Index
               PROVE  t.outputMemory[r][c] = PartialDot(T, s, 0 - r - c, r, c)
    BY <1>1 DEF OutputAt, Index
  <2>0. t.outputMemory[r][c] = Zero
    BY DEF CleanTile
  <2>1. CASE r = 0
    <3>1. 0 - r - c \in Int
      BY <1>1 DEF Index
    <3> QED
      BY <2>0, <2>1, <3>1, PartialDotZero
  <2>2. CASE r # 0
    <3>1. 0 - r - c \in Int /\ 0 - r - c < 0
      BY <1>1, <2>2 DEF Index
    <3> QED
      BY <2>0, <3>1, ZeroOutside
  <2> QED
    BY <2>1, <2>2
<1>6. OutWaitingAt(t, T, s, 0)
  <2> SUFFICES ASSUME NEW r \in Index, NEW c \in Index, r + c < K - 1
               PROVE  t.outWaiting[r][c] =
                        PartialDot(T, s, 0 - K - r - c, K, c)
    BY <1>1 DEF OutWaitingAt, Index
  <2>1. 0 - K - r - c \in Int /\ 0 - K - r - c < 0
    BY ConfigFacts DEF Index
  <2> QED
    BY <2>1, ZeroOutside DEF CleanTile
<1> QED
  BY <1>2, <1>3, <1>4, <1>5, <1>6 DEF PipelineAt

(* A clean tile at either end of a call: before the first row, and from    *)
(* row s + 2 * KERNEL_DIM - 2 on.                                          *)
LEMMA CleanEnds ==
    ASSUME NEW t, NEW s \in Nat, NEW T,
           NEW n \in Nat, NEW q, PipelineAt(t, T, s, n, q),
           n = 0 \/ n >= s + 2 * KERNEL_DIM - 2
    PROVE  CleanTile(t)
<1> DEFINE K == KERNEL_DIM
<1> SUFFICES ASSUME NEW r \in Index, NEW c \in Index
             PROVE  /\ c > K - 1 - r => t.inWaiting[r][c] = Zero
                    /\ c > 0 => t.inputMemory[r][c] = Zero
                    /\ t.outputMemory[r][c] = Zero
                    /\ r + c < K - 1 => t.outWaiting[r][c] = Zero
  BY DEF CleanTile
<1>0. K \in Nat /\ K > 0 /\ r \in 0 .. K - 1 /\ c \in 0 .. K - 1
  BY ConfigFacts DEF Index
<1>1. c > K - 1 - r => t.inWaiting[r][c] = Zero
  <2>1. c > K - 1 - r => LET m == n - c + K - 1 - r
                         IN  m \in Int /\ (m < 0 \/ m >= s)
    BY <1>0
  <2> QED
    BY <2>1, ZeroOutside DEF PipelineAt, InWaitingAt
<1>2. c > 0 => t.inputMemory[r][c] = Zero
  <2>1. c > 0 => LET m == n - r - c IN m \in Int /\ (m < 0 \/ m >= s)
    BY <1>0
  <2> QED
    BY <2>1, ZeroOutside DEF PipelineAt, InputAt
<1>3. t.outputMemory[r][c] = Zero
  <2>0. t.outputMemory[r][c] = PartialDot(T, s, n - r - c, r, c)
    BY DEF PipelineAt, OutputAt
  <2>1. CASE r = 0
    <3>1. n - r - c \in Int
      BY <1>0
    <3> QED
      BY <2>0, <2>1, <3>1, PartialDotZero
  <2>2. CASE r # 0
    <3>1. LET m == n - r - c IN m \in Int /\ (m < 0 \/ m >= s)
      BY <1>0, <2>2
    <3> QED
      BY <2>0, <3>1, ZeroOutside
  <2> QED
    BY <2>1, <2>2
<1>4. r + c < K - 1 => t.outWaiting[r][c] = Zero
  <2>1. r + c < K - 1 => LET m == n - K - r - c
                         IN  m \in Int /\ (m < 0 \/ m >= s)
    BY <1>0
  <2> QED
    BY <2>1, ZeroOutside DEF PipelineAt, OutWaitingAt
<1> QED
  BY <1>1, <1>2, <1>3, <1>4

-----------------------------------------------------------------------------
(* The element index, in rows and words. *)

(* Words pushed before word w of row n. *)
Words(n, w) == n * MAX_ACT_COL + w

(* The position after it. *)
NextRow(n, w) == IF w = MAX_ACT_COL - 1 THEN n + 1 ELSE n
NextWord(w)   == IF w = MAX_ACT_COL - 1 THEN 0 ELSE w + 1

(* The word with which the first result comes out. *)
Latency == (2 * KERNEL_DIM - 1) * MAX_ACT_COL - 1

LEMMA Advance ==
    ASSUME NEW n \in Nat, NEW w \in 0 .. MAX_ACT_COL - 1
    PROVE  /\ NextRow(n, w) \in Nat /\ NextWord(w) \in 0 .. MAX_ACT_COL - 1
           /\ Words(n, w) \in Nat
           /\ Words(NextRow(n, w), NextWord(w)) = Words(n, w) + 1
           /\ NextRow(n, w) * KERNEL_DIM + NextWord(w) * ACT_PER_BUS
                = n * KERNEL_DIM + w * ACT_PER_BUS + ACT_PER_BUS
<1>0. /\ MAX_ACT_COL \in Nat /\ MAX_ACT_COL > 0 /\ w \in Nat
      /\ KERNEL_DIM \in Nat /\ ACT_PER_BUS \in Nat
  BY ConfigFacts
<1>1. /\ n * MAX_ACT_COL \in Nat /\ (n + 1) * MAX_ACT_COL = n * MAX_ACT_COL + MAX_ACT_COL
      /\ n * KERNEL_DIM \in Nat /\ (n + 1) * KERNEL_DIM = n * KERNEL_DIM + KERNEL_DIM
      /\ w * ACT_PER_BUS \in Nat /\ 0 * ACT_PER_BUS = 0
  BY <1>0, Multiples
<1>2. CASE w = MAX_ACT_COL - 1
  <2>1. w * ACT_PER_BUS + ACT_PER_BUS = KERNEL_DIM
    BY <1>2, WordStart
  <2>2. NextRow(n, w) = n + 1 /\ NextWord(w) = 0
    BY <1>2 DEF NextRow, NextWord
  <2> DEFINE a == n * MAX_ACT_COL
             b == n * KERNEL_DIM
             c == w * ACT_PER_BUS
  <2>3. /\ (n + 1) * MAX_ACT_COL = a + MAX_ACT_COL /\ a \in Nat
        /\ (n + 1) * KERNEL_DIM = b + KERNEL_DIM /\ b \in Nat
        /\ c \in Nat /\ c + ACT_PER_BUS = KERNEL_DIM
    BY <1>1, <2>1
  <2> HIDE DEF a, b, c
  <2>4. Words(n, w) = a + w /\ Words(n + 1, 0) = a + MAX_ACT_COL
    BY <1>0, <2>3 DEF Words, a
  <2>5. (n + 1) * KERNEL_DIM + 0 * ACT_PER_BUS = b + c + ACT_PER_BUS
    BY <1>0, <1>1, <2>3
  <2> QED
    BY <1>0, <1>2, <2>2, <2>3, <2>4, <2>5 DEF b, c
<1>3. CASE w # MAX_ACT_COL - 1
  <2>1. NextRow(n, w) = n /\ NextWord(w) = w + 1
    BY <1>3 DEF NextRow, NextWord
  <2>2. (w + 1) * ACT_PER_BUS = w * ACT_PER_BUS + ACT_PER_BUS
    BY WordStart
  <2>3. Words(n, w) \in Nat /\ Words(n, w + 1) = Words(n, w) + 1
    <3> DEFINE a == n * MAX_ACT_COL
    <3>1. a \in Nat
      BY <1>1
    <3> HIDE DEF a
    <3>2. Words(n, w) = a + w /\ Words(n, w + 1) = a + (w + 1)
      BY DEF Words, a
    <3> QED
      BY <1>0, <3>1, <3>2
  <2> QED
    BY <1>0, <1>1, <1>3, <2>1, <2>2, <2>3
<1> QED
  BY <1>2, <1>3

LEMMA RowBound ==
    ASSUME NEW a \in Int, NEW v \in 0 .. MAX_ACT_COL - 1, NEW s \in Int
    PROVE  /\ Words(a, v) \in Int /\ s * MAX_ACT_COL \in Int
           /\ Words(a, v) < s * MAX_ACT_COL <=> a < s
<1>1. MAX_ACT_COL \in Nat /\ MAX_ACT_COL > 0 /\ 0 \in 0 .. MAX_ACT_COL - 1 /\ v \in Nat
  BY ConfigFacts
<1>2. s * MAX_ACT_COL + 0 <= a * MAX_ACT_COL + v <=> s < a \/ (s = a /\ 0 <= v)
  BY <1>1, LexOrder
<1>3. s * MAX_ACT_COL \in Int /\ a * MAX_ACT_COL \in Int
  BY <1>1
<1> DEFINE x == s * MAX_ACT_COL
           y == a * MAX_ACT_COL
<1> HIDE DEF x, y
<1>4. x \in Int /\ y \in Int /\ (x + 0 <= y + v <=> s < a \/ s = a) /\ Words(a, v) = y + v
  BY <1>1, <1>2, <1>3 DEF x, y, Words
<1> QED
  BY <1>1, <1>4 DEF x

(* A result comes out 2 * KERNEL_DIM - 1 rows after its row went in. *)
LEMMA Delay ==
    ASSUME NEW n \in Nat, NEW v \in 0 .. MAX_ACT_COL - 1
    PROVE  /\ Latency \in Nat
           /\ Words(n, v) > Latency <=> n >= 2 * KERNEL_DIM - 1
           /\ Words(n, v) - Latency - 1 = Words(n - (2 * KERNEL_DIM - 1), v)
<1> DEFINE d == 2 * KERNEL_DIM - 1
<1>0. d \in Nat /\ d > 0 /\ MAX_ACT_COL \in Nat /\ MAX_ACT_COL > 0 /\ v \in Nat
  BY ConfigFacts
<1> HIDE DEF d
<1>1. Latency = d * MAX_ACT_COL - 1
  BY DEF Latency, d
<1>2. d * MAX_ACT_COL \in Nat /\ 0 * MAX_ACT_COL + MAX_ACT_COL <= d * MAX_ACT_COL
  BY <1>0, Multiples
<1>3. Words(n, v) < d * MAX_ACT_COL <=> n < d
  BY <1>0, RowBound
<1>4. Words(n, v) \in Int
  BY RowBound
<1>5. Words(n - d, v) = n * MAX_ACT_COL - d * MAX_ACT_COL + v
  BY <1>0 DEF Words
<1>6. n * MAX_ACT_COL \in Int
  BY <1>0
<1> DEFINE x == d * MAX_ACT_COL
           y == n * MAX_ACT_COL
<1> HIDE DEF x, y
<1>7. /\ Latency = x - 1 /\ x \in Nat /\ x >= MAX_ACT_COL /\ y \in Int
      /\ Words(n, v) = y + v /\ Words(n - d, v) = y - x + v
      /\ (Words(n, v) < x <=> n < d)
  BY <1>0, <1>1, <1>2, <1>3, <1>5, <1>6 DEF x, y, Words
<1>8. Words(n, v) - Latency - 1 = Words(n - d, v)
  BY <1>0, <1>7
<1>9. Latency \in Nat /\ (Words(n, v) > Latency <=> n >= d)
  BY <1>0, <1>7
<1> QED
  BY <1>8, <1>9 DEF d

(* What the program computes from the index of the first element of a word. *)
LEMMA ElementIndex ==
    ASSUME NEW n \in Nat, NEW w \in 0 .. MAX_ACT_COL - 1, NEW x,
           x = n * KERNEL_DIM + w * ACT_PER_BUS
    PROVE  /\ x \in Nat
           /\ x % SA_SIZE = w * ACT_PER_BUS
           /\ x \div ACT_PER_BUS = Words(n, w)
           /\ should_stream_systolic_array(x) <=> w = MAX_ACT_COL - 1
           /\ \A s \in Nat : x < s * SA_SIZE <=> n < s
<1> DEFINE K == KERNEL_DIM
           a == w * ACT_PER_BUS
<1>0. /\ K \in Nat /\ K > 0 /\ ACT_PER_BUS \in Nat /\ ACT_PER_BUS > 0
      /\ MAX_ACT_COL \in Nat /\ w \in Nat
      /\ a \in 0 .. K - ACT_PER_BUS /\ n * K \in Nat
      /\ w # MAX_ACT_COL - 1 => a + ACT_PER_BUS \in 0 .. K - ACT_PER_BUS
      /\ w = MAX_ACT_COL - 1 => a + ACT_PER_BUS = K
  BY ConfigFacts, WordStart, Multiples
<1>1. x = Words(n, w) * ACT_PER_BUS + 0
  <2>1. n * (MAX_ACT_COL * ACT_PER_BUS) = (n * MAX_ACT_COL) * ACT_PER_BUS
    BY <1>0
  <2>2. (n * MAX_ACT_COL + w) * ACT_PER_BUS = (n * MAX_ACT_COL) * ACT_PER_BUS + w * ACT_PER_BUS
    BY <1>0
  <2>3. MAX_ACT_COL * ACT_PER_BUS = K /\ (n * MAX_ACT_COL + w) * ACT_PER_BUS \in Nat
    BY <1>0, ConfigFacts
  <2> QED
    BY <2>1, <2>2, <2>3 DEF Words
<1>2. Words(n, w) \in Nat
  BY Advance
<1>3. x \div ACT_PER_BUS = Words(n, w)
  <2>1. 0 \in 0 .. ACT_PER_BUS - 1
    BY <1>0
  <2> QED
    BY <1>0, <1>1, <1>2, <2>1, DivMod
<1> HIDE DEF a
<1>4. \A e \in 0 .. K - 1 : (n * K + e) % K = e
  BY <1>0, DivMod
<1>5. x = n * K + a
  BY DEF a
<1> DEFINE b == n * K
<1> HIDE DEF b
<1>6. \A e \in 0 .. K - 1 : (b + e) % K = e
  BY <1>4 DEF b
<1>7. b \in Nat /\ x = b + a
  BY <1>0, <1>5 DEF b
<1>8. x \in Nat /\ x % K = a
  <2>1. a \in 0 .. K - 1 /\ x \in Nat
    BY <1>0, <1>7
  <2>2. (b + a) % K = a
    BY <1>6, <2>1
  <2> QED
    BY <1>7, <2>1, <2>2
<1>9. \A delta \in ActLane : (x + delta) % K = a + delta
  <2> SUFFICES ASSUME NEW delta \in ActLane
               PROVE  (x + delta) % K = a + delta
    OBVIOUS
  <2>1. a + delta \in 0 .. K - 1 /\ x + delta = b + (a + delta)
    BY <1>0, <1>7 DEF ActLane
  <2> QED
    BY <1>6, <2>1
<1>10. should_stream_systolic_array(x) <=> \E delta \in ActLane : a + delta = K - 1
  BY <1>9 DEF should_stream_systolic_array, SA_SIZE
<1>11. (\E delta \in ActLane : a + delta = K - 1) <=> w = MAX_ACT_COL - 1
  <2>1. CASE w = MAX_ACT_COL - 1
    <3>1. ACT_PER_BUS - 1 \in ActLane /\ a + (ACT_PER_BUS - 1) = K - 1
      BY <1>0, <2>1 DEF ActLane
    <3> QED
      BY <2>1, <3>1
  <2>2. CASE w # MAX_ACT_COL - 1
    BY <1>0, <2>2 DEF ActLane
  <2> QED
    BY <2>1, <2>2
<1>12. ASSUME NEW s \in Nat
       PROVE  x < s * K <=> n < s
  <2>1. a \in 0 .. K - 1 /\ 0 \in 0 .. K - 1
    BY <1>0
  <2>2. n * K + a < s * K + 0 <=> n < s \/ (n = s /\ a < 0)
    BY <1>0, <2>1, LineOrder
  <2>3. s * K \in Nat
    BY <1>0, Multiples
  <2>4. s * K + 0 = s * K /\ ~ (a < 0)
    BY <2>1, <2>3
  <2> QED
    BY <1>5, <2>2, <2>4
<1> QED
  BY <1>3, <1>8, <1>10, <1>11, <1>12 DEF a, SA_SIZE

(* The sizes of the arrays, in words. *)
LEMMA Sizes ==
    /\ M \in Nat => lastOut = M * MAX_ACT_COL
    /\ weight_array_len \in Nat
    /\ weight_array_len * W_PER_BUS = KERNEL_DIM * KERNEL_DIM
<1>0. /\ KERNEL_DIM \in Nat /\ ACT_PER_BUS \in Nat /\ ACT_PER_BUS > 0
      /\ W_PER_BUS \in Nat /\ W_PER_BUS > 0 /\ MAX_ACT_COL \in Nat /\ MAX_W_COL \in Nat
      /\ MAX_ACT_COL * ACT_PER_BUS = KERNEL_DIM /\ MAX_W_COL * W_PER_BUS = KERNEL_DIM
  BY ConfigFacts
<1>1. ASSUME NEW a \in Nat, NEW n \in Nat, n > 0
      PROVE  CEILING_DIV(a * n, n) = a
  <2>1. n - 1 \in 0 .. n - 1 /\ a * n \in Nat
    BY <1>1, Multiples
  <2>2. (a * n + (n - 1)) \div n = a
    BY <1>1, <2>1, DivMod
  <2> DEFINE b == a * n
  <2> HIDE DEF b
  <2>3. b + n - 1 = b + (n - 1)
    BY <2>1 DEF b
  <2>4. (b + n - 1) \div n = a
    BY <2>2, <2>3 DEF b
  <2> QED
    BY <2>4 DEF CEILING_DIV, b
<1>2. ASSUME M \in Nat
      PROVE  lastOut = M * MAX_ACT_COL
  <2>1. M * MAX_ACT_COL \in Nat
    BY <1>0, <1>2, Multiples
  <2>2. M * (MAX_ACT_COL * ACT_PER_BUS) = (M * MAX_ACT_COL) * ACT_PER_BUS
    BY <1>0, <1>2
  <2>3. CEILING_DIV((M * MAX_ACT_COL) * ACT_PER_BUS, ACT_PER_BUS) = M * MAX_ACT_COL
    BY <1>0, <1>1, <2>1
  <2> QED
    BY <1>0, <2>2, <2>3 DEF lastOut, SA_SIZE
<1>3. KERNEL_DIM * MAX_W_COL \in Nat
  BY <1>0, Multiples
<1>4. KERNEL_DIM * (MAX_W_COL * W_PER_BUS) = (KERNEL_DIM * MAX_W_COL) * W_PER_BUS
  BY <1>0
<1>5. CEILING_DIV((KERNEL_DIM * MAX_W_COL) * W_PER_BUS, W_PER_BUS) = KERNEL_DIM * MAX_W_COL
  BY <1>0, <1>1, <1>3
<1>6. weight_array_len = KERNEL_DIM * MAX_W_COL
  BY <1>0, <1>4, <1>5 DEF weight_array_len, SA_SIZE
<1> QED
  BY <1>0, <1>2, <1>3, <1>4, <1>6

-----------------------------------------------------------------------------
(* Words that go in, and words that come out. *)

(* Word v of row m of the product. *)
ResultWord(T, s, m, v) ==
    [l \in ActLane |-> PartialDot(T, s, m, KERNEL_DIM, v * ACT_PER_BUS + l)]

(* The lanes of a word, as elements of the matrix. *)
LEMMA Lanes ==
    ASSUME NEW m \in Nat, NEW v \in 0 .. MAX_ACT_COL - 1, NEW l \in ActLane
    PROVE  /\ v * ACT_PER_BUS + l \in Index
           /\ Words(m, v) * ACT_PER_BUS + l
                = m * KERNEL_DIM + (v * ACT_PER_BUS + l)
<1>0. /\ ACT_PER_BUS \in Nat /\ ACT_PER_BUS > 0 /\ KERNEL_DIM \in Nat
      /\ MAX_ACT_COL \in Nat /\ v \in Nat /\ l \in 0 .. ACT_PER_BUS - 1
  BY ConfigFacts DEF ActLane
<1> DEFINE a == v * ACT_PER_BUS
           b == m * KERNEL_DIM
<1>1. a \in 0 .. KERNEL_DIM - ACT_PER_BUS /\ b \in Nat
  BY <1>0, WordStart, Multiples
<1>2. Words(m, v) * ACT_PER_BUS = b + a
  <2>1. m * (MAX_ACT_COL * ACT_PER_BUS) = (m * MAX_ACT_COL) * ACT_PER_BUS
    BY <1>0
  <2>2. (m * MAX_ACT_COL + v) * ACT_PER_BUS = (m * MAX_ACT_COL) * ACT_PER_BUS + a
    BY <1>0
  <2>3. MAX_ACT_COL * ACT_PER_BUS = KERNEL_DIM
    BY ConfigFacts
  <2> QED
    BY <2>1, <2>2, <2>3 DEF Words
<1> HIDE DEF a, b
<1>3. a + l \in Index /\ (b + a) + l = b + (a + l)
  BY <1>0, <1>1 DEF Index
<1> QED
  BY <1>2, <1>3 DEF a, b

LEMMA RowWordGoesIn ==
    ASSUME M \in Nat, NEW n \in Nat, NEW w \in 0 .. MAX_ACT_COL - 1
    PROVE  /\ n < M => IsRowWord(LhsWord(Words(n, w)), tests, M, n, w)
           /\ ~ (n < M) => IsRowWord(ZeroAct, tests, M, n, w)
<1>1. ASSUME n < M, NEW l \in ActLane
      PROVE  LhsWord(Words(n, w))[l] = RowElement(tests, M, n, w * ACT_PER_BUS + l)
  <2>1. n \in 0 .. M - 1
    BY <1>1
  <2>2. Words(n, w) * ACT_PER_BUS + l = n * KERNEL_DIM + (w * ACT_PER_BUS + l)
    BY Lanes
  <2> QED
    BY <2>1, <2>2 DEF LhsWord, LhsElement, RowElement
<1>2. ASSUME ~ (n < M), NEW l \in ActLane
      PROVE  ZeroAct[l] = RowElement(tests, M, n, w * ACT_PER_BUS + l)
  BY <1>2 DEF ZeroAct, RowElement
<1> QED
  BY <1>1, <1>2 DEF IsRowWord

LEMMA ResultComesOut ==
    ASSUME NEW t, NEW T, NEW s \in Nat, NEW n \in Nat, n > 0, NEW q,
           NEW v \in 0 .. MAX_ACT_COL - 1, PipelineAt(t, T, s, n, q)
    PROVE  outputWord(t, v) = ResultWord(T, s, n - (2 * KERNEL_DIM - 1), v)
<1> SUFFICES ASSUME NEW l \in ActLane
             PROVE  LET c == v * ACT_PER_BUS + l
                    IN  t.outWaiting[KERNEL_DIM - c - 1][c] =
                          PartialDot(T, s, n - (2 * KERNEL_DIM - 1), KERNEL_DIM, c)
  BY DEF outputWord, ResultWord
<1> DEFINE c == v * ACT_PER_BUS + l
           r == KERNEL_DIM - c - 1
<1>1. c \in Index
  BY Lanes
<1> HIDE DEF c
<1>2. KERNEL_DIM \in Nat /\ r \in Index /\ r + c = KERNEL_DIM - 1
      /\ n - KERNEL_DIM - r - c = n - (2 * KERNEL_DIM - 1)
  BY <1>1, ConfigFacts DEF Index
<1> HIDE DEF r
<1>3. t.outWaiting[r][c] = PartialDot(T, s, n - KERNEL_DIM - r - c, KERNEL_DIM, c)
  BY <1>1, <1>2 DEF PipelineAt, OutWaitingAt
<1> QED
  BY <1>2, <1>3 DEF r, c

(* The word of a position is the one of the reference product. *)
LEMMA ResultIsBaseline ==
    ASSUME M \in Nat, NEW m \in 0 .. M - 1, NEW v \in 0 .. MAX_ACT_COL - 1
    PROVE  compressed_result(Words(m, v)) = ResultWord(tests, M, m, v)
<1> SUFFICES ASSUME NEW l \in ActLane
             PROVE  Baseline(Words(m, v) * ACT_PER_BUS + l) =
                      PartialDot(tests, M, m, KERNEL_DIM, v * ACT_PER_BUS + l)
  BY DEF compressed_result, ResultWord
<1> DEFINE c == v * ACT_PER_BUS + l
           e == Words(m, v) * ACT_PER_BUS + l
<1>0. m \in Nat /\ KERNEL_DIM \in Nat
  BY ConfigFacts
<1>1. c \in 0 .. KERNEL_DIM - 1 /\ e = m * KERNEL_DIM + c
  BY <1>0, Lanes DEF Index
<1> HIDE DEF c, e
<1>2. e \div KERNEL_DIM = m /\ e % KERNEL_DIM = c
  BY <1>0, <1>1, DivMod
<1> DEFINE P(k) == << <<tests, "lhs", m * KERNEL_DIM + k>>,
                      <<tests, "rhs", k * KERNEL_DIM + c>> >>
<1>3. Baseline(e) = UNION { Product({ <<tests, "lhs", m * KERNEL_DIM + k>> },
                                    { <<tests, "rhs", k * KERNEL_DIM + c>> })
                            : k \in 0 .. KERNEL_DIM - 1 }
  BY <1>2 DEF Baseline, LhsElement, RhsElement, SA_SIZE, Index
<1>4. \A k : Product({ <<tests, "lhs", m * KERNEL_DIM + k>> },
                     { <<tests, "rhs", k * KERNEL_DIM + c>> }) = { P(k) }
  BY DEF Product
<1>5. PartialDot(tests, M, m, KERNEL_DIM, c) = { P(k) : k \in 0 .. KERNEL_DIM - 1 }
  BY DEF PartialDot
<1>6. Baseline(e) = UNION { { P(k) } : k \in 0 .. KERNEL_DIM - 1 }
  BY <1>3, <1>4
<1> HIDE DEF P
<1> QED
  BY <1>5, <1>6 DEF c, e

-----------------------------------------------------------------------------
(***************************************************************************)
(* The inductive invariant.  Between two tests the array is clean; while   *)
(* words are pushed, the element index, the count of streams and the       *)
(* number of words stored belong to one position of the pipeline, and      *)
(* every word stored is the one of its place.                              *)
(***************************************************************************)

Position(w) ==
    /\ idx = num_streams * KERNEL_DIM + w * ACT_PER_BUS
    /\ PipelineAt(tile, tests, M, num_streams, w)
    /\ outPtr = IF Words(num_streams, w) >= Latency
                  THEN Words(num_streams, w) - Latency ELSE 0

Stored ==
    \A m \in 0 .. M - 1, v \in 0 .. MAX_ACT_COL - 1 :
        Words(m, v) < outPtr => out[Words(m, v)] = ResultWord(tests, M, m, v)

Loading ==
    /\ i \in 0 .. weight_array_len
    /\ HasWeights(tile, tests, i * W_PER_BUS)

Streaming ==
    /\ HasWeights(tile, tests, KERNEL_DIM * KERNEL_DIM)
    /\ num_streams \in Nat
    /\ \E w \in 0 .. MAX_ACT_COL - 1 : Position(w)
    /\ outPtr <= M * MAX_ACT_COL
    /\ Stored

TestInv ==
    device = "software" =>
        /\ IsTile(tile)
        /\ pc \in {"idle", "load", "stream"}
        /\ pc # "stream" => CleanTile(tile)
        /\ pc # "idle" => M \in Nat \ {0} /\ DOMAIN out = 0 .. lastOut - 1
        /\ pc = "load" => Loading
        /\ pc = "stream" => Streaming

LEMMA InitTestInv == Init => TestInv
<1> SUFFICES ASSUME Init PROVE TestInv
  OBVIOUS
<1>1. tile = SATile /\ pc = "idle"
  BY DEF Init
<1>2. IsTile(SATile)
  BY DEF IsTile, SATile
<1>3. CleanTile(SATile)
  <2> SUFFICES ASSUME NEW r \in Index, NEW c \in Index
               PROVE  /\ SATile.inWaiting[r][c] = Zero
                      /\ SATile.inputMemory[r][c] = Zero
                      /\ SATile.outputMemory[r][c] = Zero
                      /\ SATile.outWaiting[r][c] = Zero
    BY DEF CleanTile
  <2>1. r \in 0 .. KERNEL_DIM
    BY ConfigFacts DEF Index
  <2> QED
    BY <2>1 DEF SATile
<1> QED
  BY <1>1, <1>2, <1>3 DEF TestInv

(***************************************************************************)
(* The body of both loops: one word in, and after Latency words one out.   *)
(***************************************************************************)
LEMMA TransferKeeps ==
    ASSUME device = "software", IsTile(tile), M \in Nat \ {0},
           DOMAIN out = 0 .. lastOut - 1, Streaming,
           NEW w \in 0 .. MAX_ACT_COL - 1, Position(w),
           NEW word, IsRowWord(word, tests, M, num_streams, w),
           Words(num_streams, w) < Latency + M * MAX_ACT_COL,
           Transfer(word)
    PROVE  /\ IsTile(tile)' /\ Streaming'
           /\ M' = M /\ DOMAIN out' = 0 .. lastOut' - 1
<1> DEFINE n == num_streams
           K == KERNEL_DIM
           last == w = MAX_ACT_COL - 1
           p == NextRow(n, w)
           v == NextWord(w)
<1>0. /\ n \in Nat /\ M \in Nat /\ M > 0 /\ K \in Nat /\ K > 0
      /\ MAX_ACT_COL \in Nat /\ MAX_ACT_COL > 0 /\ ACT_PER_BUS \in Nat
      /\ idx = n * K + w * ACT_PER_BUS /\ PipelineAt(tile, tests, M, n, w)
      /\ HasWeights(tile, tests, K * K) /\ Stored
  BY ConfigFacts DEF Streaming, Position
<1>1. /\ idx % SA_SIZE = w * ACT_PER_BUS
      /\ should_stream_systolic_array(idx) <=> last
  BY <1>0, ElementIndex
<1>2. /\ p \in Nat /\ v \in 0 .. MAX_ACT_COL - 1 /\ Words(n, w) \in Nat
      /\ Words(p, v) = Words(n, w) + 1
      /\ p * K + v * ACT_PER_BUS = n * K + w * ACT_PER_BUS + ACT_PER_BUS
  BY <1>0, Advance
<1> DEFINE res == IF last THEN smmStream(w * ACT_PER_BUS, word)
                          ELSE smmQueue(w * ACT_PER_BUS, word)
<1>3. /\ tile' = res[1]
      /\ num_streams' = p
      /\ IF isOutputValid
         THEN out' = [out EXCEPT ![outPtr] = res[2]] /\ outPtr' = outPtr + 1
         ELSE UNCHANGED <<out, outPtr>>
      /\ idx' = idx + ACT_PER_BUS
      /\ UNCHANGED <<device, tests, pc, M, i>>
  BY <1>1 DEF Transfer, CountStream, NextRow
<1>4. /\ IsTile(res[1]) /\ res[1].weights = tile.weights
      /\ PipelineAt(res[1], tests, M, p, v)
      /\ res[2] = outputWord(res[1], v)
  <2>1. CASE last
    <3>1. p = n + 1 /\ v = 0
      BY <2>1 DEF NextRow, NextWord
    <3>2. swStreamInOut(tile, w * ACT_PER_BUS, word) = streamInOut(tile, word)
      BY <2>1, InstructionsSame
    <3>3. res = << streamInOut(tile, word),
                   retrieveOutput(streamInOut(tile, word), w * ACT_PER_BUS) >>
      BY <2>1, <3>2 DEF smmStream
    <3> DEFINE u == streamInOut(tile, word)
    <3>4. IsTile(u)
      BY TilesStay
    <3>5. u.weights = tile.weights
      BY DEF streamInOut
    <3>6. PipelineAt(u, tests, M, n + 1, 0)
      BY <1>0, <2>1, StreamPipeline
    <3>7. retrieveOutput(u, w * ACT_PER_BUS) = outputWord(u, v)
      BY RetrieveAtElement DEF NextWord
    <3> HIDE DEF u
    <3>8. res[1] = u /\ res[2] = outputWord(u, v)
      BY <3>3, <3>7 DEF u
    <3> QED
      BY <3>1, <3>4, <3>5, <3>6, <3>8
  <2>2. CASE ~ last
    <3>1. p = n /\ v = w + 1
      BY <2>2 DEF NextRow, NextWord
    <3>2. swInputQueue(tile, w * ACT_PER_BUS, word) = inputQueue(tile, w, word)
      BY InstructionsSame
    <3>3. res = << inputQueue(tile, w, word),
                   retrieveOutput(inputQueue(tile, w, word), w * ACT_PER_BUS) >>
      BY <2>2, <3>2 DEF smmQueue
    <3> DEFINE u == inputQueue(tile, w, word)
    <3>4. IsTile(u)
      BY TilesStay
    <3>5. u.weights = tile.weights
      BY DEF inputQueue
    <3>6. PipelineAt(u, tests, M, n, w + 1)
      BY <1>0, QueuePipeline
    <3>7. retrieveOutput(u, w * ACT_PER_BUS) = outputWord(u, v)
      BY RetrieveAtElement DEF NextWord
    <3> HIDE DEF u
    <3>8. res[1] = u /\ res[2] = outputWord(u, v)
      BY <3>3, <3>7 DEF u
    <3> QED
      BY <3>1, <3>4, <3>5, <3>6, <3>8
  <2> QED
    BY <2>1, <2>2
<1> HIDE DEF res, p, v
<1>5. /\ Latency \in Nat
      /\ Words(p, v) > Latency <=> p >= 2 * K - 1
      /\ Words(p, v) - Latency - 1 = Words(p - (2 * K - 1), v)
  BY <1>2, Delay
<1> DEFINE N == Words(n, w)
<1>6. N \in Nat /\ Words(p, v) = N + 1 /\ N < Latency + M * MAX_ACT_COL
      /\ M * MAX_ACT_COL \in Nat
      /\ outPtr = IF N >= Latency THEN N - Latency ELSE 0
  <2>1. M * MAX_ACT_COL \in Nat
    BY <1>0, Multiples
  <2> QED
    BY <1>2, <2>1 DEF Position
<1> HIDE DEF N
<1>7. isOutputValid <=> N >= Latency
  <2>1. isOutputValid <=> p >= 2 * K - 1
    BY <1>3 DEF isOutputValid, SA_SIZE
  <2> QED
    BY <1>5, <1>6, <2>1
<1>8. outPtr' = IF Words(p, v) >= Latency THEN Words(p, v) - Latency ELSE 0
  <2>1. CASE N >= Latency
    BY <1>3, <1>5, <1>6, <1>7, <2>1
  <2>2. CASE N < Latency
    BY <1>3, <1>5, <1>6, <1>7, <2>2
  <2> QED
    BY <1>5, <1>6, <2>1, <2>2
<1>9. Position(v)'
  <2>1. idx' = num_streams' * KERNEL_DIM + v * ACT_PER_BUS
    BY <1>0, <1>2, <1>3
  <2>2. PipelineAt(tile', tests', M', num_streams', v)
    BY <1>3, <1>4
  <2> QED
    BY <1>3, <1>8, <2>1, <2>2 DEF Position
<1>10. lastOut = M * MAX_ACT_COL /\ lastOut' = lastOut
  BY <1>0, <1>3, Sizes DEF lastOut
<1>11. outPtr' <= M * MAX_ACT_COL /\ outPtr \in Nat
  BY <1>5, <1>6, <1>8
<1>12. DOMAIN out' = 0 .. lastOut' - 1
  BY <1>3, <1>10
<1>13. Stored'
  <2> SUFFICES ASSUME NEW m \in 0 .. M - 1, NEW x \in 0 .. MAX_ACT_COL - 1,
                      Words(m, x) < outPtr'
               PROVE  out'[Words(m, x)] = ResultWord(tests, M, m, x)
    BY <1>3 DEF Stored
  <2>0. Words(m, x) \in Nat /\ m \in Nat
    BY <1>0, Advance
  <2>1. CASE ~ isOutputValid
    BY <1>0, <1>3, <2>1 DEF Stored
  <2>2. CASE isOutputValid
    <3>1. /\ outPtr = N - Latency
          /\ out' = [out EXCEPT ![outPtr] = res[2]] /\ outPtr' = outPtr + 1
      BY <1>3, <1>6, <1>7, <2>2
    <3>2. outPtr = Words(p - (2 * K - 1), v)
      BY <1>5, <1>6, <3>1
    <3>3. CASE Words(m, x) < outPtr
      BY <1>0, <3>1, <3>3, <2>0, <1>11 DEF Stored
    <3>4. CASE Words(m, x) = outPtr
      <4>1. Words(m, x) \in DOMAIN out
        <5>1. outPtr < M * MAX_ACT_COL
          BY <1>5, <1>6, <1>7, <2>2
        <5> QED
          BY <1>6, <1>10, <2>0, <3>4, <5>1
      <4>2. out'[Words(m, x)] = res[2]
        BY <3>1, <3>4, <4>1
      <4>3. m = p - (2 * K - 1) /\ x = v
        <5>1. p - (2 * K - 1) \in Int
          BY <1>0, <1>2
        <5> QED
          BY <1>2, <2>0, <3>2, <3>4, <5>1, LexEqual DEF Words
      <4>4. p > 0
        BY <1>0, <1>2, <2>0, <4>3
      <4>5. res[2] = ResultWord(tests, M, p - (2 * K - 1), v)
        BY <1>0, <1>2, <1>4, <4>4, ResultComesOut
      <4> QED
        BY <4>2, <4>3, <4>5
    <3> QED
      BY <1>11, <2>0, <3>1, <3>3, <3>4
  <2> QED
    BY <2>1, <2>2
<1>14. HasWeights(tile', tests', K * K)
  BY <1>0, <1>3, <1>4 DEF HasWeights
<1>15. Streaming'
  <2>1. num_streams' \in Nat /\ M' = M
    BY <1>2, <1>3
  <2>2. \E x \in 0 .. MAX_ACT_COL - 1 : Position(x)'
    BY <1>2, <1>9
  <2> QED
    BY <1>11, <1>13, <1>14, <2>1, <2>2 DEF Streaming
<1> QED
  BY <1>3, <1>4, <1>12, <1>15 DEF IsTile

(* The loop that loads the weights leaves the rest of the tile alone. *)
LEMMA LoadKeeps ==
    ASSUME IsTile(tile), CleanTile(tile), Loading, LoadWeights
    PROVE  IsTile(tile)' /\ CleanTile(tile)' /\ Loading'
<1> DEFINE u == loadWeights(tile, i * W_PER_BUS, RhsWord(i))
<1>0. /\ i \in Nat /\ i < weight_array_len /\ weight_array_len \in Nat
      /\ tile' = u /\ i' = i + 1 /\ tests' = tests
      /\ W_PER_BUS \in Nat /\ W_PER_BUS > 0 /\ KERNEL_DIM \in Nat
  BY Sizes, ConfigFacts DEF LoadWeights, Loading
<1>1. IsTile(u)
  BY TilesStay
<1>2. CleanTile(u)
  BY DEF CleanTile, loadWeights
<1>3. HasWeights(u, tests, (i + 1) * W_PER_BUS)
  <2> SUFFICES ASSUME NEW r \in Index, NEW c \in Index,
                      r * KERNEL_DIM + c < (i + 1) * W_PER_BUS
               PROVE  u.weights[r][c] = TileWeight(tests, r, c)
    BY DEF HasWeights
  <2> DEFINE e == r * KERNEL_DIM + c
             b == i * W_PER_BUS
  <2>1. e \in Nat /\ b \in Nat /\ e < b + W_PER_BUS
    BY <1>0, Multiples DEF Index
  <2>2. u.weights[r][c] = IF e - b \in WLane THEN RhsWord(i)[e - b] ELSE tile.weights[r][c]
    BY DEF loadWeights, storeWeights
  <2>3. HasWeights(tile, tests, b)
    BY DEF Loading
  <2>4. e < b => tile.weights[r][c] = TileWeight(tests, r, c)
    BY <2>3 DEF HasWeights
  <2>5. \A l \in WLane : RhsWord(i)[l] = { <<tests, "rhs", b + l>> }
    BY DEF RhsWord, RhsElement
  <2>6. TileWeight(tests, r, c) = { <<tests, "rhs", e>> }
    BY DEF TileWeight
  <2> HIDE DEF e, b
  <2>7. CASE e < b
    <3>1. e - b \notin WLane
      BY <1>0, <2>1, <2>7 DEF WLane
    <3> QED
      BY <2>2, <2>4, <2>7, <3>1
  <2>8. CASE e >= b
    <3>1. e - b \in WLane /\ b + (e - b) = e
      BY <1>0, <2>1, <2>8 DEF WLane
    <3> QED
      BY <2>2, <2>5, <2>6, <3>1
  <2> QED
    BY <2>1, <2>7, <2>8
<1>4. weight_array_len' = weight_array_len /\ i' \in 0 .. weight_array_len
  BY <1>0 DEF weight_array_len
<1> HIDE DEF u
<1> QED
  BY <1>0, <1>1, <1>2, <1>3, <1>4 DEF Loading, IsTile, CleanTile

(* The first position of a test, in a clean array. *)
LEMMA StreamingBegins ==
    ASSUME M \in Nat \ {0}, CleanTile(tile), Loading, BeginStreaming
    PROVE  Streaming'
<1>0. /\ tile' = tile /\ tests' = tests /\ M' = M /\ out' = out
      /\ idx' = 0 /\ num_streams' = 0 /\ outPtr' = 0 /\ i = weight_array_len
  BY DEF BeginStreaming
<1>1. HasWeights(tile, tests, KERNEL_DIM * KERNEL_DIM)
  BY <1>0, Sizes DEF Loading
<1>2. /\ 0 \in 0 .. MAX_ACT_COL - 1 /\ KERNEL_DIM \in Nat /\ ACT_PER_BUS \in Nat
      /\ MAX_ACT_COL \in Nat /\ M * MAX_ACT_COL \in Nat
  BY ConfigFacts, Multiples
<1>3. PipelineAt(tile, tests, M, 0, 0)
  BY CleanStarts
<1>4. Words(0, 0) = 0 /\ Latency \in Nat /\ 0 * KERNEL_DIM + 0 * ACT_PER_BUS = 0
  BY <1>2, Delay DEF Words
<1>5. Position(0)'
  BY <1>0, <1>3, <1>4 DEF Position
<1>6. Stored'
  <2> SUFFICES ASSUME NEW m \in 0 .. M - 1, NEW v \in 0 .. MAX_ACT_COL - 1
               PROVE  ~ (Words(m, v) < 0)
    BY <1>0 DEF Stored
  <2>1. m \in Nat
    OBVIOUS
  <2>2. Words(m, v) \in Nat
    BY <2>1, Advance
  <2> QED
    BY <2>2
<1> QED
  BY <1>0, <1>1, <1>2, <1>5, <1>6 DEF Streaming

(* When all words are stored the last row has left the array. *)
LEMMA CleanAtReturn ==
    ASSUME M \in Nat \ {0}, Streaming, outPtr >= lastOut
    PROVE  CleanTile(tile)
<1> DEFINE n == num_streams
           d == M + 2 * KERNEL_DIM - 2
<1>0. PICK w \in 0 .. MAX_ACT_COL - 1 : Position(w)
  BY DEF Streaming
<1>1. /\ n \in Nat /\ M \in Nat /\ M > 0 /\ KERNEL_DIM \in Nat /\ KERNEL_DIM > 0
      /\ MAX_ACT_COL \in Nat /\ MAX_ACT_COL > 0 /\ d \in Nat
      /\ MAX_ACT_COL - 1 \in 0 .. MAX_ACT_COL - 1
  BY ConfigFacts DEF Streaming
<1>2. /\ Words(n, w) \in Nat /\ Latency \in Nat
      /\ 0 * MAX_ACT_COL + MAX_ACT_COL <= M * MAX_ACT_COL /\ M * MAX_ACT_COL \in Nat
      /\ 0 * MAX_ACT_COL = 0
  BY <1>0, <1>1, Advance, Delay, Multiples
<1>3. outPtr = M * MAX_ACT_COL
      /\ outPtr = IF Words(n, w) >= Latency THEN Words(n, w) - Latency ELSE 0
  <2>1. lastOut = M * MAX_ACT_COL
    BY <1>1, Sizes
  <2>2. outPtr = IF Words(n, w) >= Latency THEN Words(n, w) - Latency ELSE 0
    BY <1>0 DEF Position
  <2>3. outPtr \in Int /\ outPtr <= M * MAX_ACT_COL
    BY <1>2, <2>2 DEF Streaming
  <2> QED
    BY <1>2, <2>1, <2>2, <2>3
<1>4. Words(n, w) = M * MAX_ACT_COL + Latency
  BY <1>1, <1>2, <1>3
<1>5. Words(d, MAX_ACT_COL - 1) = M * MAX_ACT_COL + Latency
  BY <1>1 DEF Words, Latency
<1>6. n = d
  <2> HIDE DEF d
  <2> QED
    BY <1>0, <1>1, <1>4, <1>5, LexEqual DEF Words
<1>7. PipelineAt(tile, tests, M, n, w)
  BY <1>0 DEF Position
<1> QED
  BY <1>1, <1>6, <1>7, CleanEnds

LEMMA StepTestInv == TestInv /\ [Next]_vars => TestInv'
<1> SUFFICES ASSUME TestInv, [Next]_vars, device' = "software"
             PROVE  /\ IsTile(tile)'
                    /\ pc' \in {"idle", "load", "stream"}
                    /\ pc' # "stream" => CleanTile(tile)'
                    /\ pc' # "idle" => M' \in Nat \ {0} /\ DOMAIN out' = 0 .. lastOut' - 1
                    /\ pc' = "load" => Loading'
                    /\ pc' = "stream" => Streaming'
  BY DEF TestInv
<1>0. device = "software"
  BY DEF Next, vars, test_systolic_array_matrix_multiply, LoadWeights, BeginStreaming,
         StreamIn, StreamOut, Transfer, Return
<1>a. /\ IsTile(tile)
      /\ pc \in {"idle", "load", "stream"}
      /\ pc # "stream" => CleanTile(tile)
      /\ pc # "idle" => M \in Nat \ {0} /\ DOMAIN out = 0 .. lastOut - 1
      /\ pc = "load" => Loading
      /\ pc = "stream" => Streaming
  BY <1>0 DEF TestInv
<1>1. ASSUME NEW rows \in RowCounts, test_systolic_array_matrix_multiply(rows)
      PROVE  TestInv'
  <2>0. /\ pc = "idle" /\ M' = rows /\ pc' = "load" /\ i' = 0 /\ tile' = tile
        /\ out' = [a \in 0 .. lastOut' - 1 |-> ZeroAct]
    BY <1>1 DEF test_systolic_array_matrix_multiply
  <2>1. M' \in Nat \ {0} /\ DOMAIN out' = 0 .. lastOut' - 1
    BY <2>0, TestAssumption
  <2>2. Loading'
    <3>1. weight_array_len' = weight_array_len /\ weight_array_len \in Nat
      BY Sizes DEF weight_array_len
    <3>2. \A r, c \in Index : ~ (r * KERNEL_DIM + c < 0 * W_PER_BUS)
      BY ConfigFacts, Multiples DEF Index
    <3> QED
      BY <2>0, <3>1, <3>2 DEF Loading, HasWeights
  <2> QED
    BY <1>a, <2>0, <2>1, <2>2 DEF TestInv, IsTile, CleanTile
<1>2. CASE LoadWeights
  <2>1. pc = "load" /\ UNCHANGED <<pc, M, out>>
    BY <1>2 DEF LoadWeights
  <2>2. lastOut' = lastOut
    BY <2>1 DEF lastOut
  <2> QED
    BY <1>a, <1>2, <2>1, <2>2, LoadKeeps
<1>3. CASE BeginStreaming
  <2>1. pc = "load" /\ pc' = "stream" /\ UNCHANGED <<tile, M, out>>
    BY <1>3 DEF BeginStreaming
  <2>2. lastOut' = lastOut
    BY <2>1 DEF lastOut
  <2> QED
    BY <1>a, <1>3, <2>1, <2>2, StreamingBegins DEF IsTile
<1>4. CASE StreamIn
  <2>0. /\ pc = "stream" /\ idx < M * SA_SIZE /\ pc' = pc
        /\ Transfer(LhsWord(idx \div ACT_PER_BUS))
    BY <1>4 DEF StreamIn, Transfer
  <2>1. PICK w \in 0 .. MAX_ACT_COL - 1 : Position(w)
    BY <1>a, <2>0 DEF Streaming
  <2>2. num_streams \in Nat /\ M \in Nat
        /\ idx = num_streams * KERNEL_DIM + w * ACT_PER_BUS
    BY <1>a, <2>0, <2>1 DEF Streaming, Position
  <2>3. num_streams < M /\ idx \div ACT_PER_BUS = Words(num_streams, w)
    BY <2>0, <2>2, ElementIndex
  <2>4. IsRowWord(LhsWord(idx \div ACT_PER_BUS), tests, M, num_streams, w)
    BY <2>2, <2>3, RowWordGoesIn
  <2>5. Words(num_streams, w) < Latency + M * MAX_ACT_COL
    <3>1. /\ Words(num_streams, w) \in Int /\ M * MAX_ACT_COL \in Int
          /\ Words(num_streams, w) < M * MAX_ACT_COL
      BY <2>2, <2>3, RowBound
    <3>2. Latency \in Nat
      BY <2>2, Delay
    <3> QED
      BY <3>1, <3>2
  <2> QED
    BY <1>0, <1>a, <2>0, <2>1, <2>4, <2>5, TransferKeeps
<1>5. CASE StreamOut
  <2>0. /\ pc = "stream" /\ idx >= M * SA_SIZE /\ outPtr < lastOut /\ pc' = pc
        /\ Transfer(ZeroAct)
    BY <1>5 DEF StreamOut, Transfer
  <2>1. PICK w \in 0 .. MAX_ACT_COL - 1 : Position(w)
    BY <1>a, <2>0 DEF Streaming
  <2>2. num_streams \in Nat /\ M \in Nat
        /\ idx = num_streams * KERNEL_DIM + w * ACT_PER_BUS
    BY <1>a, <2>0, <2>1 DEF Streaming, Position
  <2>3. ~ (num_streams < M)
    <3>1. idx \in Nat /\ (idx < M * SA_SIZE <=> num_streams < M)
      BY <2>2, ElementIndex
    <3>2. M * SA_SIZE \in Nat
      BY <2>2, ConfigFacts, Multiples DEF SA_SIZE
    <3> QED
      BY <2>0, <3>1, <3>2
  <2>4. IsRowWord(ZeroAct, tests, M, num_streams, w)
    BY <2>2, <2>3, RowWordGoesIn
  <2>5. Words(num_streams, w) < Latency + M * MAX_ACT_COL
    <3>1. /\ Words(num_streams, w) \in Int /\ M * MAX_ACT_COL \in Int
      BY <2>2, RowBound
    <3>2. Latency \in Nat /\ lastOut = M * MAX_ACT_COL /\ M * MAX_ACT_COL >= 0
      BY <2>2, Delay, Sizes, ConfigFacts, Multiples
    <3>3. outPtr = IF Words(num_streams, w) >= Latency
                     THEN Words(num_streams, w) - Latency ELSE 0
      BY <2>1 DEF Position
    <3> QED
      BY <2>0, <3>1, <3>2, <3>3
  <2> QED
    BY <1>0, <1>a, <2>0, <2>1, <2>4, <2>5, TransferKeeps
<1>6. CASE Return
  <2>1. pc = "stream" /\ pc' = "idle" /\ tile' = tile /\ outPtr >= lastOut
    BY <1>6 DEF Return
  <2>2. CleanTile(tile)
    BY <1>a, <2>1, CleanAtReturn
  <2> QED
    BY <1>a, <2>1, <2>2 DEF IsTile, CleanTile
<1>7. CASE UNCHANGED vars
  <2>1. UNCHANGED <<tile, tests, pc, M, i, idx, num_streams, outPtr, out>>
    BY <1>7 DEF vars
  <2>2. lastOut' = lastOut /\ weight_array_len' = weight_array_len
    BY <2>1 DEF lastOut, weight_array_len
  <2>3. Loading' = Loading
    BY <2>1, <2>2 DEF Loading
  <2>4. Streaming' = Streaming
    BY <2>1 DEF Streaming, Position, Stored
  <2> QED
    BY <1>a, <2>1, <2>2, <2>3, <2>4 DEF IsTile, CleanTile
<1> QED
  <2>1. TestInv' =>
          /\ IsTile(tile)'
          /\ pc' \in {"idle", "load", "stream"}
          /\ pc' # "stream" => CleanTile(tile)'
          /\ pc' # "idle" => M' \in Nat \ {0} /\ DOMAIN out' = 0 .. lastOut' - 1
          /\ pc' = "load" => Loading'
          /\ pc' = "stream" => Streaming'
    BY DEF TestInv
  <2> QED
    BY <1>1, <1>2, <1>3, <1>4, <1>5, <1>6, <1>7, <2>1 DEF Next

(***************************************************************************)
(* Every word systolic_array_matrix_multiply has stored is the word of     *)
(* matrix_multiply_int at that place, of this test and no other, and none  *)
(* is stored behind the end of the array: on the software model of the     *)
(* device, for every size of the array, packing of the words, number of    *)
(* rows and sequence of tests, although nothing resets the device between  *)
(* two of them.                                                            *)
(***************************************************************************)
THEOREM ResultsCorrect ==
    Spec => [](device = "software" => ResultsMatchBaseline)
<1>1. TestInv => (device = "software" => ResultsMatchBaseline)
  <2> SUFFICES ASSUME TestInv, device = "software", pc = "stream"
               PROVE  /\ outPtr <= lastOut
                      /\ \A a \in 0 .. outPtr - 1 : out[a] = compressed_result(a)
    BY DEF ResultsMatchBaseline
  <2>0. M \in Nat /\ M > 0 /\ Streaming /\ MAX_ACT_COL \in Nat /\ MAX_ACT_COL > 0
        /\ lastOut = M * MAX_ACT_COL
    BY ConfigFacts, Sizes DEF TestInv
  <2>1. outPtr <= M * MAX_ACT_COL /\ outPtr \in Int /\ M * MAX_ACT_COL \in Int
    <3>1. PICK w \in 0 .. MAX_ACT_COL - 1 : Position(w)
      BY <2>0 DEF Streaming
    <3>2. num_streams \in Nat /\ outPtr <= M * MAX_ACT_COL
      BY <2>0 DEF Streaming
    <3>3. Words(num_streams, w) \in Nat /\ Latency \in Nat
      BY <3>2, Advance, Delay
    <3>4. outPtr = IF Words(num_streams, w) >= Latency
                     THEN Words(num_streams, w) - Latency ELSE 0
      BY <3>1 DEF Position
    <3>5. outPtr \in Int
      BY <3>3, <3>4
    <3>6. M * MAX_ACT_COL \in Int
      BY <2>0
    <3> QED
      BY <3>2, <3>5, <3>6
  <2>2. ASSUME NEW a \in 0 .. outPtr - 1
        PROVE  out[a] = compressed_result(a)
    <3>1. a \in Nat /\ a < outPtr /\ a < M * MAX_ACT_COL
      BY <2>1, <2>2
    <3>2. PICK m \in Nat, v \in 0 .. MAX_ACT_COL - 1 : a = m * MAX_ACT_COL + v
      BY <2>0, <3>1, HasPlace
    <3>3. a = Words(m, v)
      BY <3>2 DEF Words
    <3>4. m \in 0 .. M - 1
      <4>1. m < M
        BY <2>0, <3>1, <3>3, RowBound
      <4> QED
        BY <2>0, <4>1
    <3>5. out[a] = ResultWord(tests, M, m, v)
      BY <2>0, <3>1, <3>3, <3>4 DEF Streaming, Stored
    <3> QED
      BY <2>0, <3>3, <3>4, <3>5, ResultIsBaseline
  <2> QED
    BY <2>0, <2>1, <2>2
<1> QED
  BY <1>1, InitTestInv, StepTestInv, PTL DEF Spec

(***************************************************************************)
(* MaxIdx restrains nothing: while a word is missing, the index of the     *)
(* second loop of systolic_array_matrix_multiply is below it.  The loop    *)
(* ends by its own condition outPtr < lastOut, after at most               *)
(* (M + 2 * SA_SIZE) * SA_SIZE elements.                                   *)
(***************************************************************************)
THEOREM DrainIsBounded ==
    Spec => [](device = "software" /\ pc = "stream" /\ outPtr < lastOut => idx < MaxIdx)
<1>1. TestInv => (device = "software" /\ pc = "stream" /\ outPtr < lastOut => idx < MaxIdx)
  <2> SUFFICES ASSUME TestInv, device = "software", pc = "stream", outPtr < lastOut
               PROVE  idx < MaxIdx
    OBVIOUS
  <2> DEFINE n == num_streams
             s == M + 2 * KERNEL_DIM
  <2>1. /\ M \in Nat /\ Streaming /\ n \in Nat /\ KERNEL_DIM \in Nat /\ KERNEL_DIM > 0
        /\ MAX_ACT_COL \in Nat /\ s \in Nat /\ lastOut = M * MAX_ACT_COL
    BY ConfigFacts, Sizes DEF TestInv, Streaming
  <2>2. PICK w \in 0 .. MAX_ACT_COL - 1 : Position(w)
    BY <2>1 DEF Streaming
  <2>3. /\ Words(n, w) \in Nat /\ Latency \in Nat
        /\ M * MAX_ACT_COL \in Nat /\ w \in Nat
        /\ outPtr = IF Words(n, w) >= Latency THEN Words(n, w) - Latency ELSE 0
    BY <2>1, <2>2, Advance, Delay, Multiples DEF Position
  <2>4. Words(n, w) < M * MAX_ACT_COL + Latency
    BY <2>1, <2>3
  <2>5. s * MAX_ACT_COL = M * MAX_ACT_COL + Latency + 1 + MAX_ACT_COL
    BY <2>1 DEF Latency
  <2> HIDE DEF s
  <2>6. Words(n, w) < s * MAX_ACT_COL
    BY <2>1, <2>3, <2>4, <2>5
  <2>7. n < s
    BY <2>1, <2>6, RowBound
  <2>8. idx < s * SA_SIZE
    BY <2>1, <2>2, <2>7, ElementIndex DEF Position
  <2> QED
    BY <2>8 DEF MaxIdx, SA_SIZE, s
<1> QED
  BY <1>1, InitTestInv, StepTestInv, PTL DEF Spec
=============================================================================
