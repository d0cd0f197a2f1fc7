------------------------- MODULE TileMultiplyProofs -------------------------
EXTENDS TileMultiply, ConfigProofs, TLAPS

-----------------------------------------------------------------------------
(* The device's operators, cell by cell. *)

LEMMA LoadWeightsType ==
    ASSUME NEW t \in TileType, NEW idx \in Nat, NEW val \in [WLane -> Weights]
    PROVE  loadWeights(t, idx, val) \in TileType
<1>1. storeWeights(t.weights, idx, val) \in [Index -> [Index -> Weights]]
  BY ConfigFacts DEF storeWeights, TileType, Index, WLane
<1>2. (t.non_zero_tile \/ val # ZeroW) \in BOOLEAN
  OBVIOUS
<1> QED
  BY <1>1, <1>2 DEF loadWeights, TileType

LEMMA StoreInputType ==
    ASSUME NEW m \in [Index -> [Index -> Inputs]], NEW w \in Nat,
           NEW val \in [ActLane -> Inputs]
    PROVE  storeInput(m, w, val) \in [Index -> [Index -> Inputs]]
  BY ConfigFacts DEF storeInput, Index, ActLane

LEMMA InputQueueType ==
    ASSUME NEW t \in TileType, NEW w \in Nat, NEW val \in [ActLane -> Inputs]
    PROVE  inputQueue(t, w, val) \in TileType
  BY StoreInputType DEF inputQueue, TileType

LEMMA StreamType ==
    ASSUME NEW t \in TileType, NEW val \in [ActLane -> Inputs],
           NEW waiting, NEW inputs,
           waiting = storeInput(t.inWaiting, MAX_ACT_COL - 1, val),
           inputs  = enterArray(t.inputMemory, waiting),
           \A r, c \in Index :
              Plus(t.outputMemory[r][c], Product(inputs[r][c], t.weights[r][c]))
                \in Sums
    PROVE  streamInOut(t, val) \in TileType
<1>a. MAX_ACT_COL - 1 \in Nat /\ t.inWaiting \in [Index -> [Index -> Inputs]]
  BY ConfigFacts DEF TileType
<1>0. waiting \in [Index -> [Index -> Inputs]]
  BY <1>a, StoreInputType
<1>1. inputs \in [Index -> [Index -> Inputs]]
  BY <1>0, ConfigFacts DEF enterArray, TileType, Index
<1> DEFINE sums == multiplyAccumulate(t.outputMemory, inputs, t.weights)
<1>2. sums \in [0 .. KERNEL_DIM -> [Index -> Sums]]
  <2> SUFFICES ASSUME NEW r \in 0 .. KERNEL_DIM, NEW c \in Index
               PROVE  IF r = 0 THEN t.outputMemory[r][c] \in Sums
                      ELSE Plus(t.outputMemory[r - 1][c],
                               Product(inputs[r - 1][c], t.weights[r - 1][c]))
                             \in Sums
    BY DEF multiplyAccumulate
  <2>1. CASE r = 0
    BY <2>1, ConfigFacts DEF TileType, Index
  <2>2. CASE r # 0
    <3>1. r - 1 \in Index
      BY <2>2, ConfigFacts DEF Index
    <3> QED
      BY <2>2, <3>1
  <2> QED
    BY <2>1, <2>2
<1>3. shiftRight(inputs) \in [Index -> [Index -> Inputs]]
  BY <1>1, ConfigFacts DEF shiftRight, Index
<1>4. shiftRight(waiting) \in [Index -> [Index -> Inputs]]
  BY <1>0, ConfigFacts DEF shiftRight, Index
<1>5. shiftDown(t.outWaiting, sums[KERNEL_DIM]) \in [Index -> [Index -> Sums]]
  BY <1>2, ConfigFacts DEF shiftDown, Index, TileType
<1>6. t.weights \in [Index -> [Index -> Weights]]
  BY DEF TileType
<1>7. streamInOut(t, val) = 
        [weights       |-> t.weights,
         inputMemory   |-> shiftRight(inputs),
         outputMemory  |-> sums,
         inWaiting     |-> shiftRight(waiting),
         outWaiting    |-> shiftDown(t.outWaiting, sums[KERNEL_DIM]),
         non_zero_tile |-> FALSE]
  BY DEF streamInOut
<1> HIDE DEF sums
<1> QED
  BY <1>2, <1>3, <1>4, <1>5, <1>6, <1>7 DEF TileType

-----------------------------------------------------------------------------
(* Formal sums. *)

LEMMA PartialDotZero ==
    ASSUME NEW s \in Nat, NEW b, NEW d, NEW m \in Int, NEW c
    PROVE  PartialDot(s, b, d, m, 0, c) = Zero
  BY DEF PartialDot, Zero

LEMMA PartialDotStep ==
    \A s, b, d, h, c \in Nat, m \in Int :
        Plus(PartialDot(s, b, d, m, h, c),
             Product(RowElement(s, b, m, h), TileWeight(b, d, h, c)))
          = PartialDot(s, b, d, m, h + 1, c)
<1> SUFFICES ASSUME NEW s \in Nat, NEW b \in Nat, NEW d \in Nat,
                    NEW h \in Nat, NEW c \in Nat, NEW m \in Int
             PROVE  Plus(PartialDot(s, b, d, m, h, c),
                         Product(RowElement(s, b, m, h), TileWeight(b, d, h, c)))
                      = PartialDot(s, b, d, m, h + 1, c)
  OBVIOUS
<1>1. CASE m \notin 0 .. s - 1
  BY <1>1 DEF PartialDot, RowElement, Plus, Product, Zero
<1>2. CASE m \in 0 .. s - 1
  <2> DEFINE B == (b * s + m) * KERNEL_DIM
             T(e) == <<B + e, <<b, d, e * KERNEL_DIM + c>>>>
  <2>1. B \in Int
    BY <1>2, ConfigFacts
  <2>2. Product(RowElement(s, b, m, h), TileWeight(b, d, h, c)) = { T(h) }
    BY <1>2 DEF Product, RowElement, TileWeight
  <2>3. PartialDot(s, b, d, m, h, c) = { T(e) : e \in 0 .. h - 1 }
    BY <1>2 DEF PartialDot
  <2>4. PartialDot(s, b, d, m, h + 1, c) = { T(e) : e \in 0 .. h }
    BY <1>2 DEF PartialDot
  <2>5. T(h) \notin { T(e) : e \in 0 .. h - 1 }
    <3> SUFFICES ASSUME NEW e \in 0 .. h - 1, T(h) = T(e) PROVE FALSE
      OBVIOUS
    <3>1. B + h = B + e
      OBVIOUS
    <3> HIDE DEF B
    <3> QED
      BY <3>1, <2>1
  <2>6. { T(e) : e \in 0 .. h } = { T(e) : e \in 0 .. h - 1 } \cup { T(h) }
    <3> HIDE DEF T
    <3> QED
      OBVIOUS
  <2> HIDE DEF T
  <2> QED
    BY <2>2, <2>3, <2>4, <2>5, <2>6 DEF Plus
<1> QED
  BY <1>1, <1>2

LEMMA CellStep ==
    ASSUME NEW s \in Nat, NEW b \in Nat, NEW d \in Nat, NEW n \in Nat,
           NEW r \in Index, NEW c \in Index
    PROVE  Plus(PartialDot(s, b, d, n - r - c, r, c),
                Product(RowElement(s, b, n - r - c, r), TileWeight(b, d, r, c)))
             = PartialDot(s, b, d, n - r - c, r + 1, c)
<1>1. r \in Nat /\ c \in Nat /\ n - r - c \in Int
  BY ConfigFacts DEF Index
<1> QED
  BY <1>1, PartialDotStep

LEMMA PartialDotType ==
    ASSUME NEW s \in Nat, NEW b \in Nat, NEW d \in Nat, NEW m \in Int,
           NEW h \in Nat, NEW c \in Nat
    PROVE  PartialDot(s, b, d, m, h, c) \in Sums
<1>1. CASE m \notin 0 .. s - 1
  BY <1>1 DEF PartialDot, Sums, Zero
<1>2. CASE m \in 0 .. s - 1
  <2> SUFFICES ASSUME NEW e \in 0 .. h - 1
               PROVE  <<(b * s + m) * KERNEL_DIM + e,
                        <<b, d, e * KERNEL_DIM + c>>>>
                        \in Nat \X (Nat \X Nat \X Nat)
    BY <1>2 DEF PartialDot, Sums
  <2>1. b * s + m \in Nat /\ e \in Nat
    BY <1>2
  <2>2. (b * s + m) * KERNEL_DIM + e \in Nat
    <3>1. \A x \in Nat : x * KERNEL_DIM \in Nat
      BY ConfigFacts
    <3> QED
      BY <2>1, <3>1
  <2>3. e * KERNEL_DIM + c \in Nat
    BY <2>1, ConfigFacts
  <2> QED
    BY <2>2, <2>3
<1> QED
  BY <1>1, <1>2

-----------------------------------------------------------------------------
(* The instructions move the pipeline. *)

LEMMA QueuePipeline ==
    ASSUME NEW t \in TileType, NEW s \in Nat, NEW b \in Nat, NEW d \in Nat,
           NEW n \in Nat, NEW q \in 0 .. MAX_ACT_COL - 1,
           NEW val \in [ActLane -> Inputs],
           IsRowWord(val, s, b, n, q),
           PipelineAt(t, s, b, d, n, q)
    PROVE  PipelineAt(inputQueue(t, q, val), s, b, d, n, q + 1)
<1> DEFINE u == inputQueue(t, q, val)
<1>1. /\ u.inputMemory = t.inputMemory
      /\ u.outputMemory = t.outputMemory
      /\ u.outWaiting = t.outWaiting
      /\ u.inWaiting = storeInput(t.inWaiting, q, val)
  BY DEF inputQueue
<1>2. \A r, c \in Index : u.inWaiting[r][c] =
          IF r - q * ACT_PER_BUS \in ActLane /\ c = KERNEL_DIM - r - 1
            THEN val[r - q * ACT_PER_BUS] ELSE t.inWaiting[r][c]
  BY <1>1 DEF storeInput
<1> HIDE DEF u
<1>3. InputAt(u, s, b, n) /\ OutputAt(u, s, b, d, n) /\ OutWaitingAt(u, s, b, d, n)
  BY <1>1 DEF PipelineAt, InputAt, OutputAt, OutWaitingAt
<1>4. InWaitingAt(u, s, b, n)
  BY <1>2, ConfigFacts DEF PipelineAt, InWaitingAt, Index
<1>5. QueuedAt(u, s, b, n, q + 1)
  <2> SUFFICES ASSUME NEW r \in Index, r < (q + 1) * ACT_PER_BUS
               PROVE  u.inWaiting[r][KERNEL_DIM - 1 - r] = RowElement(s, b, n, r)
    BY DEF QueuedAt
  <2> DEFINE Q == q * ACT_PER_BUS
  <2>1. Q \in Int /\ r \in Int /\ r < Q + ACT_PER_BUS /\ KERNEL_DIM - 1 - r \in Index
    BY ConfigFacts DEF Index
  <2>2. CASE r < Q
    <3>1. r - Q \notin ActLane
      BY <2>1, <2>2 DEF ActLane
    <3> QED
      BY <1>2, <2>1, <2>2, <3>1 DEF PipelineAt, QueuedAt
  <2>3. CASE r >= Q
    <3> HIDE DEF Q
    <3>1. r - Q \in ActLane /\ Q + (r - Q) = r /\ KERNEL_DIM - 1 - r = KERNEL_DIM - r - 1
      BY <2>1, <2>3, ConfigFacts DEF ActLane
    <3> USE DEF Q
    <3> QED
      BY <1>2, <2>1, <3>1 DEF IsRowWord
  <2> QED
    BY <2>1, <2>2, <2>3
<1> QED
  BY <1>3, <1>4, <1>5 DEF PipelineAt, u

LEMMA StreamPipeline ==
    ASSUME NEW t \in TileType, NEW s \in Nat, NEW b \in Nat, NEW d \in Nat,
           NEW n \in Nat, NEW q, q = MAX_ACT_COL - 1,
           NEW val \in [ActLane -> Inputs],
           IsRowWord(val, s, b, n, q),
           HasWeights(t, b, d),
           PipelineAt(t, s, b, d, n, q)
    PROVE  /\ streamInOut(t, val) \in TileType
           /\ PipelineAt(streamInOut(t, val), s, b, d, n + 1, 0)
<1> DEFINE waiting == storeInput(t.inWaiting, MAX_ACT_COL - 1, val)
           inputs  == enterArray(t.inputMemory, waiting)
           sums    == multiplyAccumulate(t.outputMemory, inputs, t.weights)
           u       == streamInOut(t, val)
           K       == KERNEL_DIM
           Q       == q * ACT_PER_BUS
<1>0. /\ q \in Nat /\ K \in Nat /\ K > 0
      /\ ACT_PER_BUS \in Nat /\ ACT_PER_BUS > 0 /\ ACT_PER_BUS <= K
      /\ Q = K - ACT_PER_BUS /\ Q \in Int
  <2>1. q * ACT_PER_BUS = MAX_ACT_COL * ACT_PER_BUS - ACT_PER_BUS
    BY ConfigFacts
  <2>2. q * ACT_PER_BUS >= 0
    BY ConfigFacts
  <2> QED
    BY <2>1, <2>2, ConfigFacts
<1>1. \A r \in Index : waiting[r][K - 1 - r] = RowElement(s, b, n, r)
  <2> SUFFICES ASSUME NEW r \in Index
               PROVE  waiting[r][K - 1 - r] = RowElement(s, b, n, r)
    OBVIOUS
  <2>1. r \in Int /\ r >= 0 /\ r < K /\ K - 1 - r \in Index
        /\ K - 1 - r = K - r - 1
    BY <1>0 DEF Index
  <2>2. waiting[r][K - 1 - r] =
          IF r - Q \in ActLane THEN val[r - Q] ELSE t.inWaiting[r][K - 1 - r]
    BY <2>1 DEF storeInput
  <2>3. CASE r < Q
    <3>1. r - Q \notin ActLane
      BY <1>0, <2>1, <2>3 DEF ActLane
    <3> QED
      BY <2>2, <2>3, <3>1 DEF PipelineAt, QueuedAt
  <2>4. CASE r >= Q
    <3> HIDE DEF Q
    <3>1. r - Q \in ActLane /\ Q + (r - Q) = r
      BY <1>0, <2>1, <2>4 DEF ActLane
    <3> USE DEF Q
    <3> QED
      BY <2>2, <3>1 DEF IsRowWord
  <2> QED
    BY <1>0, <2>1, <2>3, <2>4
<1>2. \A r, c \in Index : c > K - 1 - r =>
          waiting[r][c] = RowElement(s, b, n - c + K - 1 - r, r)
  <2> SUFFICES ASSUME NEW r \in Index, NEW c \in Index, c > K - 1 - r
               PROVE  waiting[r][c] = RowElement(s, b, n - c + K - 1 - r, r)
    OBVIOUS
  <2>1. c # K - r - 1
    BY <1>0 DEF Index
  <2>2. waiting[r][c] = t.inWaiting[r][c]
    BY <2>1 DEF storeInput
  <2> QED
    BY <2>2 DEF PipelineAt, InWaitingAt
<1> HIDE DEF waiting
<1>3. \A r, c \in Index : inputs[r][c] = RowElement(s, b, n - r - c, r)
  <2> SUFFICES ASSUME NEW r \in Index, NEW c \in Index
               PROVE  inputs[r][c] = RowElement(s, b, n - r - c, r)
    OBVIOUS
  <2>0. inputs[r][c] = IF c = 0 THEN waiting[r][K - 1] ELSE t.inputMemory[r][c]
    BY DEF enterArray
  <2>1. CASE c # 0
    <3>1. c > 0
      BY <1>0, <2>1 DEF Index
    <3> QED
      BY <2>0, <2>1, <3>1 DEF PipelineAt, InputAt
  <2>2. CASE c = 0 /\ r = 0
    <3>1. K - 1 = K - 1 - r /\ n = n - r - c
      BY <1>0, <2>2
    <3> QED
      BY <1>1, <2>0, <2>2, <3>1
  <2>3. CASE c = 0 /\ r # 0
    <3>1. K - 1 \in Index /\ K - 1 > K - 1 - r /\ n - (K - 1) + K - 1 - r = n - r - c
      BY <1>0, <2>3 DEF Index
    <3> QED
      BY <1>2, <2>0, <2>3, <3>1
  <2> QED
    BY <2>1, <2>2, <2>3
<1> HIDE DEF inputs
<1>4. \A r, c \in Index :
         Plus(t.outputMemory[r][c], Product(inputs[r][c], t.weights[r][c]))
           = PartialDot(s, b, d, n - r - c, r + 1, c)
  <2> SUFFICES ASSUME NEW r \in Index, NEW c \in Index
               PROVE  Plus(t.outputMemory[r][c],
                           Product(inputs[r][c], t.weights[r][c]))
                        = PartialDot(s, b, d, n - r - c, r + 1, c)
    OBVIOUS
  <2>1. /\ t.outputMemory[r][c] = PartialDot(s, b, d, n - r - c, r, c)
        /\ inputs[r][c] = RowElement(s, b, n - r - c, r)
        /\ t.weights[r][c] = TileWeight(b, d, r, c)
    BY <1>3 DEF PipelineAt, OutputAt, HasWeights
  <2>2. Plus(PartialDot(s, b, d, n - r - c, r, c),
             Product(RowElement(s, b, n - r - c, r), TileWeight(b, d, r, c)))
          = PartialDot(s, b, d, n - r - c, r + 1, c)
    BY CellStep
  <2> QED
    BY <2>1, <2>2
<1>5. u \in TileType
  <2>1. \A r, c \in Index :
         Plus(t.outputMemory[r][c], Product(inputs[r][c], t.weights[r][c])) \in Sums
    <3> SUFFICES ASSUME NEW r \in Index, NEW c \in Index
                 PROVE  PartialDot(s, b, d, n - r - c, r + 1, c) \in Sums
      BY <1>4
    <3>1. n - r - c \in Int /\ r + 1 \in Nat /\ c \in Nat
      BY <1>0 DEF Index
    <3> QED
      BY <3>1, PartialDotType
  <2> QED
    BY <2>1, StreamType DEF waiting, inputs
<1>6. u = [weights       |-> t.weights,
           inputMemory   |-> shiftRight(inputs),
           outputMemory  |-> sums,
           inWaiting     |-> shiftRight(waiting),
           outWaiting    |-> shiftDown(t.outWaiting, sums[KERNEL_DIM]),
           non_zero_tile |-> FALSE]
  BY DEF streamInOut, waiting, inputs
<1>7. \A r \in 0 .. K, c \in Index : r > 0 =>
         sums[r][c] = PartialDot(s, b, d, n + 1 - r - c, r, c)
  <2> SUFFICES ASSUME NEW r \in 0 .. K, NEW c \in Index, r > 0
               PROVE  sums[r][c] = PartialDot(s, b, d, n + 1 - r - c, r, c)
    OBVIOUS
  <2>1. /\ r - 1 \in Index /\ (r - 1) + 1 = r
        /\ n - (r - 1) - c = n + 1 - r - c
    BY <1>0 DEF Index
  <2>2. sums[r][c] = Plus(t.outputMemory[r - 1][c],
                          Product(inputs[r - 1][c], t.weights[r - 1][c]))
    BY <1>0 DEF multiplyAccumulate
  <2> QED
    BY <1>4, <2>1, <2>2
<1>8. \A c \in Index : sums[0][c] = Zero
  <2>1. \A c \in Index : sums[0][c] = t.outputMemory[0][c]
    BY <1>0 DEF multiplyAccumulate
  <2>2. SUFFICES ASSUME NEW c \in Index PROVE t.outputMemory[0][c] = Zero
    BY <2>1
  <2>3. 0 \in Index /\ n - 0 - c \in Int
    BY <1>0 DEF Index
  <2> QED
    BY <2>3, PartialDotZero DEF PipelineAt, OutputAt
<1> HIDE DEF sums, u
<1>9. InWaitingAt(u, s, b, n + 1)
  <2> SUFFICES ASSUME NEW r \in Index, NEW c \in Index, c > K - 1 - r
               PROVE  u.inWaiting[r][c] = RowElement(s, b, n + 1 - c + K - 1 - r, r)
    BY <1>0 DEF InWaitingAt, Index
  <2>1. /\ c # 0 /\ c - 1 \in Index
        /\ n + 1 - c + K - 1 - r = n - (c - 1) + K - 1 - r
    BY <1>0 DEF Index
  <2>2. u.inWaiting[r][c] = waiting[r][c - 1]
    BY <1>6, <2>1 DEF shiftRight
  <2>3. CASE c - 1 = K - 1 - r
    <3>1. n + 1 - c + K - 1 - r = n
      BY <1>0, <2>3 DEF Index
    <3> QED
      BY <1>1, <2>2, <2>3, <3>1
  <2>4. CASE c - 1 > K - 1 - r
    BY <1>2, <2>1, <2>2, <2>4
  <2>5. c - 1 = K - 1 - r \/ c - 1 > K - 1 - r
    BY <1>0 DEF Index
  <2> QED
    BY <2>3, <2>4, <2>5
<1>10. QueuedAt(u, s, b, n + 1, 0)
  <2>1. 0 * ACT_PER_BUS = 0
    BY <1>0
  <2> QED
    BY <1>0, <2>1 DEF QueuedAt, Index
<1>11. InputAt(u, s, b, n + 1)
  <2> SUFFICES ASSUME NEW r \in Index, NEW c \in Index, c > 0
               PROVE  u.inputMemory[r][c] = RowElement(s, b, n + 1 - r - c, r)
    BY <1>0 DEF InputAt, Index
  <2>1. c # 0 /\ c - 1 \in Index /\ n - r - (c - 1) = n + 1 - r - c
    BY <1>0 DEF Index
  <2>2. u.inputMemory[r][c] = inputs[r][c - 1]
    BY <1>6, <2>1 DEF shiftRight
  <2> QED
    BY <1>3, <2>1, <2>2
<1>12. OutputAt(u, s, b, d, n + 1)
  <2> SUFFICES ASSUME NEW r \in Index, NEW c \in Index
               PROVE  u.outputMemory[r][c] = PartialDot(s, b, d, n + 1 - r - c, r, c)
    BY <1>0 DEF OutputAt, Index
  <2>0. u.outputMemory = sums
    BY <1>6
  <2>1. CASE r = 0
    <3>1. n + 1 - r - c \in Int
      BY <1>0 DEF Index
    <3> QED
      BY <1>8, <2>0, <2>1, <3>1, PartialDotZero
  <2>2. CASE r # 0
    <3>1. r \in 0 .. K /\ r > 0
      BY <1>0, <2>2 DEF Index
    <3> QED
      BY <1>7, <2>0, <3>1
  <2> QED
    BY <2>1, <2>2
<1>13. OutWaitingAt(u, s, b, d, n + 1)
  <2> SUFFICES ASSUME NEW r \in Index, NEW c \in Index, r + c <= K - 1
               PROVE  u.outWaiting[r][c] =
                        PartialDot(s, b, d, n + 1 - K - r - c, K, c)
    BY <1>0 DEF OutWaitingAt, Index
  <2>1. u.outWaiting[r][c] = IF r = 0 THEN sums[K][c] ELSE t.outWaiting[r - 1][c]
    BY <1>6 DEF shiftDown
  <2>2. CASE r = 0
    <3>1. K \in 0 .. K /\ K > 0 /\ n + 1 - K - r - c = n + 1 - K - c
      BY <1>0, <2>2 DEF Index
    <3> QED
      BY <1>7, <2>1, <2>2, <3>1
  <2>3. CASE r # 0
    <3>1. /\ r - 1 \in Index /\ (r - 1) + c < K - 1
          /\ n - K - (r - 1) - c = n + 1 - K - r - c
      BY <1>0, <2>3 DEF Index
    <3> QED
      BY <2>1, <2>3, <3>1 DEF PipelineAt, OutWaitingAt
  <2> QED
    BY <2>2, <2>3
<1> QED
  BY <1>5, <1>9, <1>10, <1>11, <1>12, <1>13 DEF PipelineAt, u

-----------------------------------------------------------------------------
(* A call leaves a clean pipeline, and starts from one. *)

LEMMA ZeroOutside ==
    ASSUME NEW s \in Nat, NEW b, NEW d, NEW m \in Int, m < 0 \/ m >= s,
           NEW h, NEW c
    PROVE  RowElement(s, b, m, h) = Zero /\ PartialDot(s, b, d, m, h, c) = Zero
  BY DEF RowElement, PartialDot

LEMMA CleanStarts ==
    ASSUME NEW t, CleanTile(t), NEW s \in Nat, NEW b \in Nat, NEW d \in Nat
    PROVE  PipelineAt(t, s, b, d, 0, 0)
<1> DEFINE K == KERNEL_DIM
<1>1. K \in Nat /\ 0 * ACT_PER_BUS = 0
  BY ConfigFacts
<1>2. InWaitingAt(t, s, b, 0)
  <2> SUFFICES ASSUME NEW r \in Index, NEW c \in Index, c > K - 1 - r
               PROVE  t.inWaiting[r][c] = RowElement(s, b, 0 - c + K - 1 - r, r)
    BY <1>1 DEF InWaitingAt, Index
  <2>1. 0 - c + K - 1 - r \in Int /\ 0 - c + K - 1 - r < 0
    BY <1>1 DEF Index
  <2> QED
    BY <2>1, ZeroOutside DEF CleanTile
<1>3. QueuedAt(t, s, b, 0, 0)
  BY <1>1 DEF QueuedAt, Index
<1>4. InputAt(t, s, b, 0)
  <2> SUFFICES ASSUME NEW r \in Index, NEW c \in Index, c > 0
               PROVE  t.inputMemory[r][c] = RowElement(s, b, 0 - r - c, r)
    BY <1>1 DEF InputAt, Index
  <2>1. 0 - r - c \in Int /\ 0 - r - c < 0
    BY <1>1 DEF Index
  <2> QED
    BY <2>1, ZeroOutside DEF CleanTile
<1>5. OutputAt(t, s, b, d, 0)
  <2> SUFFICES ASSUME NEW r \in Index, NEW c \in Index
               PROVE  t.outputMemory[r][c] = PartialDot(s, b, d, 0 - r - c, r, c)
    BY <1>1 DEF OutputAt, Index
  <2>0. t.outputMemory[r][c] = Zero
    BY DEF CleanTile
  <2>1. CASE r = 0
    <3>1. 0 - r - c \in Int
      BY <1>1 DEF Index
    <3> QED
      BY <2>0, <2>1, <3>1, PartialDotZero
  <2>2. CASE r # 0
    <3>1. 0 - r - c \in Int /\ 0 - r - c < 0
      BY <1>1, <2>2 DEF Index
    <3> QED
      BY <2>0, <3>1, ZeroOutside
  <2> QED
    BY <2>1, <2>2
<1>6. OutWaitingAt(t, s, b, d, 0)
  <2> SUFFICES ASSUME NEW r \in Index, NEW c \in Index, r + c < K - 1
               PROVE  t.outWaiting[r][c] =
                        PartialDot(s, b, d, 0 - K - r - c, K, c)
    BY <1>1 DEF OutWaitingAt, Index
  <2>1. 0 - K - r - c \in Int /\ 0 - K - r - c < 0
    BY ConfigFacts DEF Index
  <2> QED
    BY <2>1, ZeroOutside DEF CleanTile
<1> QED
  BY <1>2, <1>3, <1>4, <1>5, <1>6 DEF PipelineAt

(* A clean tile at either end of a call: before the first row, and from    *)
(* row s + 2 * KERNEL_DIM - 2 on.                                          *)
LEMMA CleanEnds ==
    ASSUME NEW t, NEW s \in Nat, NEW b \in Nat, NEW d \in Nat,
           NEW n \in Nat, NEW q, PipelineAt(t, s, b, d, n, q),
           n = 0 \/ n >= s + 2 * KERNEL_DIM - 2
    PROVE  CleanTile(t)
<1> DEFINE K == KERNEL_DIM
<1> SUFFICES ASSUME NEW r \in Index, NEW c \in Index
             PROVE  /\ c > K - 1 - r => t.inWaiting[r][c] = Zero
                    /\ c > 0 => t.inputMemory[r][c] = Zero
                    /\ t.outputMemory[r][c] = Zero
                    /\ r + c < K - 1 => t.outWaiting[r][c] = Zero
  BY DEF CleanTile
<1>0. K \in Nat /\ K > 0 /\ r \in 0 .. K - 1 /\ c \in 0 .. K - 1
  BY ConfigFacts DEF Index
<1>1. c > K - 1 - r => t.inWaiting[r][c] = Zero
  <2>1. c > K - 1 - r => LET m == n - c + K - 1 - r
                         IN  m \in Int /\ (m < 0 \/ m >= s)
    BY <1>0
  <2> QED
    BY <2>1, ZeroOutside DEF PipelineAt, InWaitingAt
<1>2. c > 0 => t.inputMemory[r][c] = Zero
  <2>1. c > 0 => LET m == n - r - c IN m \in Int /\ (m < 0 \/ m >= s)
    BY <1>0
  <2> QED
    BY <2>1, ZeroOutside DEF PipelineAt, InputAt
<1>3. t.outputMemory[r][c] = Zero
  <2>0. t.outputMemory[r][c] = PartialDot(s, b, d, n - r - c, r, c)
    BY DEF PipelineAt, OutputAt
  <2>1. CASE r = 0
    <3>1. n - r - c \in Int
      BY <1>0
    <3> QED
      BY <2>0, <2>1, <3>1, PartialDotZero
  <2>2. CASE r # 0
    <3>1. LET m == n - r - c IN m \in Int /\ (m < 0 \/ m >= s)
      BY <1>0, <2>2
    <3> QED
      BY <2>0, <3>1, ZeroOutside
  <2> QED
    BY <2>1, <2>2
<1>4. r + c < K - 1 => t.outWaiting[r][c] = Zero
  <2>1. r + c < K - 1 => LET m == n - K - r - c
                         IN  m \in Int /\ (m < 0 \/ m >= s)
    BY <1>0
  <2> QED
    BY <2>1, ZeroOutside DEF PipelineAt, OutWaitingAt
<1> QED
  BY <1>1, <1>2, <1>3, <1>4

-----------------------------------------------------------------------------
(* The loop counters: rows and words in lexicographic order. *)

(* The driver's variables are integers. *)
LEMMA TypeFacts ==
    ASSUME TypeOK
    PROVE  /\ seq_len \in Nat /\ seq_len > 0
           /\ row \in Nat /\ col \in Nat
           /\ i \in Nat /\ j \in Nat /\ j < MAX_ACT_COL
           /\ k \in Nat /\ inPtr \in Nat /\ outPtr \in Nat
           /\ tile \in TileType
<1>1. RowTiles \in Nat /\ ColTiles \in Nat /\ SeqLens \subseteq Nat \ {0}
  BY DimsAssumption
<1>2. KERNEL_DIM * MAX_W_COL \in Nat
  BY ConfigFacts
<1> QED
  BY <1>1, <1>2, ConfigFacts DEF TypeOK

(* The guards of the loops, in rows and words. *)
LEMMA Guards ==
    ASSUME TypeOK
    PROVE  /\ OutputValid <=> \/ i >= 2 * KERNEL_DIM - 1
                              \/ i = 2 * KERNEL_DIM - 2 /\ j = MAX_ACT_COL - 1
           /\ i * MAX_ACT_COL + j >= DrainEnd
                <=> \/ i > seq_len + 2 * KERNEL_DIM - 2
                    \/ i = seq_len + 2 * KERNEL_DIM - 2 /\ j = MAX_ACT_COL - 1
           /\ i * MAX_ACT_COL + j <= DrainEnd
                <=> i <= seq_len + 2 * KERNEL_DIM - 2
           /\ Latency = (2 * KERNEL_DIM - 2) * MAX_ACT_COL + (MAX_ACT_COL - 1)
           /\ DrainEnd = (seq_len + 2 * KERNEL_DIM - 2) * MAX_ACT_COL
                          + (MAX_ACT_COL - 1)
           /\ OutputValid <=> i * MAX_ACT_COL + j >= Latency
<1> DEFINE M == MAX_ACT_COL
<1>0. /\ i \in Int /\ i >= 0 /\ seq_len \in Int /\ seq_len > 0
      /\ KERNEL_DIM \in Int /\ KERNEL_DIM > 0
      /\ M \in Int /\ M > 0 /\ j \in 0 .. M - 1 /\ M - 1 \in 0 .. M - 1
  BY ConfigFacts, TypeFacts
<1>1. Latency = (2 * KERNEL_DIM - 2) * M + (M - 1)
  BY <1>0 DEF Latency
<1>2. DrainEnd = (seq_len + 2 * KERNEL_DIM - 2) * M + (M - 1)
  BY <1>0 DEF DrainEnd
<1>3. OutputValid <=> i * M + j >= Latency
  BY DEF OutputValid, Latency
<1> DEFINE L == 2 * KERNEL_DIM - 2
           D == seq_len + 2 * KERNEL_DIM - 2
<1>4. L \in Int /\ D \in Int /\ i * M + j \in Int
      /\ L * M + (M - 1) \in Int /\ D * M + (M - 1) \in Int
  BY <1>0
<1>5. L * M + (M - 1) <= i * M + j <=> L < i \/ (L = i /\ M - 1 <= j)
  BY <1>0, <1>4, LexOrder
<1>6. D * M + (M - 1) <= i * M + j <=> D < i \/ (D = i /\ M - 1 <= j)
  BY <1>0, <1>4, LexOrder
<1>7. i * M + j <= D * M + (M - 1) <=> i < D \/ (i = D /\ j <= M - 1)
  BY <1>0, <1>4, LexOrder
<1>8. /\ L < i <=> i >= 2 * KERNEL_DIM - 1
      /\ M - 1 <= j <=> j = M - 1
      /\ j <= M - 1
  BY <1>0
<1> HIDE DEF M
<1> QED
  BY <1>0, <1>1, <1>2, <1>3, <1>4, <1>5, <1>6, <1>7, <1>8 DEF M

-----------------------------------------------------------------------------
(* The inductive invariant. *)

IInv == TypeOK /\ PipelineInv /\ WeightsInv /\ PointerInv

LEMMA InitIInv == Init => IInv
<1> SUFFICES ASSUME Init PROVE IInv
  OBVIOUS
<1> USE DEF Init
<1>1. seq_len \in Nat /\ 0 \in 0 .. RowTiles - 1 /\ 0 \in 0 .. ColTiles - 1
  BY DimsAssumption
<1>2. KERNEL_DIM \in Nat /\ KERNEL_DIM * MAX_W_COL \in Nat
      /\ 0 \in 0 .. MAX_ACT_COL - 1
  BY ConfigFacts
<1>3. SATile \in TileType
  <2>1. Zero \in Inputs /\ Zero \in Weights /\ Zero \in Sums
    BY DEF Zero, Inputs, Weights, Sums
  <2> QED
    BY <2>1 DEF SATile, TileType
<1>4. TypeOK
  BY <1>1, <1>2, <1>3 DEF TypeOK
<1>5. CleanTile(SATile)
  <2> SUFFICES ASSUME NEW r \in Index, NEW c \in Index
               PROVE  /\ SATile.inWaiting[r][c] = Zero
                      /\ SATile.inputMemory[r][c] = Zero
                      /\ SATile.outputMemory[r][c] = Zero
                      /\ SATile.outWaiting[r][c] = Zero
    BY DEF CleanTile
  <2>1. r \in 0 .. KERNEL_DIM
    BY <1>2 DEF Index
  <2> QED
    BY <2>1 DEF SATile
<1>6. PipelineInv
  BY <1>1, <1>5, CleanStarts DEF PipelineInv
<1> QED
  BY <1>4, <1>6 DEF IInv, WeightsInv, PointerInv

(* The words the driver hands to the device are the words of the rows. *)
LEMMA FeedWord ==
    ASSUME TypeOK, PointerInv, pc = "multiply", i < seq_len
    PROVE  /\ InputWord(inPtr) \in [ActLane -> Inputs]
           /\ IsRowWord(InputWord(inPtr), seq_len, row, i, j)
<1>0. /\ i \in Nat /\ j \in Nat /\ row \in Nat /\ seq_len \in Nat /\ inPtr \in Nat
      /\ ACT_PER_BUS \in Nat /\ KERNEL_DIM \in Nat /\ MAX_ACT_COL \in Nat
      /\ MAX_ACT_COL * ACT_PER_BUS = KERNEL_DIM
  BY TypeFacts, ConfigFacts
<1>1. inPtr * ACT_PER_BUS = (row * seq_len + i) * KERNEL_DIM + j * ACT_PER_BUS
  <2> DEFINE B == row * seq_len + i
  <2>1. inPtr = B * MAX_ACT_COL + j
    BY DEF PointerInv
  <2>2. B \in Nat
    BY <1>0
  <2> HIDE DEF B
  <2>3. (B * MAX_ACT_COL + j) * ACT_PER_BUS
          = B * (MAX_ACT_COL * ACT_PER_BUS) + j * ACT_PER_BUS
    BY <1>0, <2>2
  <2> QED
    BY <1>0, <2>1, <2>3 DEF B
<1>2. InputWord(inPtr) \in [ActLane -> Inputs]
  <2> SUFFICES ASSUME NEW l \in ActLane PROVE inPtr * ACT_PER_BUS + l \in Nat
    BY DEF InputWord, Inputs
  <2>1. inPtr * ACT_PER_BUS \in Nat
    BY <1>0
  <2> QED
    BY <1>0, <2>1 DEF ActLane
<1>3. IsRowWord(InputWord(inPtr), seq_len, row, i, j)
  <2> SUFFICES ASSUME NEW l \in ActLane
               PROVE  InputWord(inPtr)[l] =
                        RowElement(seq_len, row, i, j * ACT_PER_BUS + l)
    BY DEF IsRowWord
  <2>1. i \in 0 .. seq_len - 1
    BY <1>0
  <2>2. InputWord(inPtr)[l] = { inPtr * ACT_PER_BUS + l }
    BY DEF InputWord
  <2>3. inPtr * ACT_PER_BUS + l
          = (row * seq_len + i) * KERNEL_DIM + (j * ACT_PER_BUS + l)
    <3> DEFINE x == (row * seq_len + i) * KERNEL_DIM
               y == j * ACT_PER_BUS
    <3>1. x \in Int /\ y \in Int /\ l \in Int
      BY <1>0 DEF ActLane
    <3> HIDE DEF x, y
    <3>2. x + y + l = x + (y + l)
      BY <3>1
    <3> QED
      BY <1>1, <3>2 DEF x, y
  <2> QED
    BY <2>1, <2>2, <2>3 DEF RowElement
<1> QED
  BY <1>2, <1>3

LEMMA DrainWord ==
    ASSUME TypeOK, i >= seq_len
    PROVE  /\ ZeroAct \in [ActLane -> Inputs]
           /\ IsRowWord(ZeroAct, seq_len, row, i, j)
<1>1. i \in Nat /\ seq_len \in Nat
  BY TypeFacts
<1>2. ZeroAct \in [ActLane -> Inputs]
  BY DEF ZeroAct, Zero, Inputs
<1>3. i \notin 0 .. seq_len - 1
  BY <1>1
<1> QED
  BY <1>2, <1>3 DEF IsRowWord, RowElement, ZeroAct

(* One word of a row, in either loop: the tile. *)
LEMMA TransferTile ==
    ASSUME IInv, pc = "multiply", NEW word \in [ActLane -> Inputs],
           IsRowWord(word, seq_len, row, i, j), Transfer(word)
    PROVE  /\ tile' \in TileType
           /\ PipelineInv'
           /\ WeightsInv'
<1>0. /\ tile \in TileType /\ seq_len \in Nat /\ row \in Nat /\ col \in Nat
      /\ i \in Nat /\ j \in 0 .. MAX_ACT_COL - 1
  BY TypeFacts DEF IInv, TypeOK
<1>1. PipelineAt(tile, seq_len, row, col, i, j) /\ HasWeights(tile, row, col)
  BY DEF IInv, PipelineInv, WeightsInv
<1>2. UNCHANGED <<seq_len, row, col, pc>>
  BY DEF Transfer
<1>3. CASE Queue(word)
  <2>1. /\ tile' = inputQueue(tile, j, word) /\ i' = i /\ j' = j + 1
    BY <1>3 DEF Queue
  <2>2. j \in Nat
    BY <1>0, ConfigFacts
  <2>3. tile' \in TileType
    BY <1>0, <2>1, <2>2, InputQueueType
  <2>4. PipelineAt(tile', seq_len, row, col, i, j + 1)
    BY <1>0, <1>1, <2>1, QueuePipeline
  <2>5. tile'.weights = tile.weights
    BY <2>1 DEF inputQueue
  <2>6. HasWeights(tile', row, col)
    BY <1>1, <2>5 DEF HasWeights
  <2> QED
    BY <1>2, <2>1, <2>3, <2>4, <2>6 DEF PipelineInv, WeightsInv
<1>4. CASE Stream(word)
  <2>1. /\ tile' = streamInOut(tile, word) /\ i' = i + 1 /\ j' = 0
        /\ j = MAX_ACT_COL - 1
    BY <1>4 DEF Stream
  <2>2. tile' \in TileType /\ PipelineAt(tile', seq_len, row, col, i + 1, 0)
    BY <1>0, <1>1, <2>1, StreamPipeline
  <2>3. tile'.weights = tile.weights
    BY <2>1 DEF streamInOut
  <2>4. HasWeights(tile', row, col)
    BY <1>1, <2>3 DEF HasWeights
  <2> QED
    BY <1>2, <2>1, <2>2, <2>4 DEF PipelineInv, WeightsInv
<1> QED
  BY <1>3, <1>4 DEF Transfer

(* One word of a row, in either loop: the counters and the output pointer. *)
LEMMA TransferCounters ==
    ASSUME TypeOK, PointerInv, pc = "multiply", NEW word, Transfer(word),
           i * MAX_ACT_COL + j < DrainEnd
    PROVE  /\ i' \in Nat /\ j' \in 0 .. MAX_ACT_COL - 1 /\ outPtr' \in Nat
           /\ i' * MAX_ACT_COL + j' = i * MAX_ACT_COL + j + 1
           /\ (i * MAX_ACT_COL + j <= DrainEnd)'
           /\ OutputValid' => outPtr' = col * seq_len * MAX_ACT_COL
                                + (i' * MAX_ACT_COL + j' - Latency)
           /\ ~ OutputValid' => outPtr' = col * seq_len * MAX_ACT_COL
           /\ \/ i' = i /\ j' = j + 1
              \/ i' = i + 1 /\ j' = 0 /\ j = MAX_ACT_COL - 1
<1> DEFINE N == i * MAX_ACT_COL + j
           base == col * seq_len * MAX_ACT_COL
<1>0. /\ i \in Nat /\ j \in Nat /\ j < MAX_ACT_COL /\ MAX_ACT_COL \in Nat
      /\ outPtr \in Nat /\ seq_len \in Nat /\ col \in Nat
  BY TypeFacts, ConfigFacts
<1>1. N \in Int /\ base \in Int /\ Latency \in Int /\ DrainEnd \in Int
  <2>1. N \in Int
    BY <1>0
  <2>2. base \in Int
    BY <1>0
  <2>3. Latency \in Int
    BY <1>0, ConfigFacts DEF Latency
  <2>4. DrainEnd \in Int
    BY <1>0, ConfigFacts DEF DrainEnd
  <2> QED
    BY <2>1, <2>2, <2>3, <2>4
<1>2. UNCHANGED <<seq_len, row, col, pc>>
  BY DEF Transfer
<1>3. \/ i' = i /\ j' = j + 1 /\ j # MAX_ACT_COL - 1
      \/ i' = i + 1 /\ j' = 0 /\ j = MAX_ACT_COL - 1
  BY DEF Transfer, Queue, Stream
<1>4. i' \in Nat /\ j' \in 0 .. MAX_ACT_COL - 1
  BY <1>0, <1>3
<1>5. i' * MAX_ACT_COL + j' = N + 1
  <2>1. CASE i' = i /\ j' = j + 1
    BY <1>0, <2>1
  <2>2. CASE i' = i + 1 /\ j' = 0 /\ j = MAX_ACT_COL - 1
    BY <1>0, <2>2
  <2> QED
    BY <1>3, <2>1, <2>2
<1>6. DrainEnd' = DrainEnd /\ Latency' = Latency
  BY <1>2 DEF DrainEnd, Latency
<1>7. /\ OutputValid <=> N >= Latency
      /\ OutputValid' <=> N + 1 >= Latency
  <2>1. OutputValid <=> N >= Latency
    BY DEF OutputValid, Latency
  <2>2. OutputValid' <=> i' * MAX_ACT_COL + j' >= Latency
    BY DEF OutputValid, Latency
  <2> QED
    BY <1>5, <2>1, <2>2
<1>8. IF OutputValid THEN outPtr' = outPtr + 1 ELSE outPtr' = outPtr
  BY DEF Transfer, Queue, Stream, Collect
<1>9. /\ OutputValid => outPtr = base + (N - Latency)
      /\ ~ OutputValid => outPtr = base
  BY <1>0, <1>1 DEF PointerInv
<1> HIDE DEF N, base
<1>10. /\ OutputValid' => outPtr' = base + (N + 1 - Latency)
       /\ ~ OutputValid' => outPtr' = base
  <2>1. CASE N >= Latency
    BY <1>0, <1>1, <1>7, <1>8, <1>9, <2>1
  <2>2. CASE N < Latency
    BY <1>0, <1>1, <1>7, <1>8, <1>9, <2>2
  <2> QED
    BY <1>1, <2>1, <2>2
<1>11. outPtr' \in Nat
  BY <1>0, <1>8
<1>12. N < DrainEnd
  BY DEF N
<1>13. (i * MAX_ACT_COL + j <= DrainEnd)'
  <2>1. N + 1 <= DrainEnd
    BY <1>1, <1>12
  <2> QED
    BY <1>5, <1>6, <2>1
<1>14. i' * MAX_ACT_COL + j' = i * MAX_ACT_COL + j + 1
  BY <1>0, <1>4, <1>5 DEF N
<1>15. /\ OutputValid' => outPtr' = col * seq_len * MAX_ACT_COL
                             + (i' * MAX_ACT_COL + j' - Latency)
       /\ ~ OutputValid' => outPtr' = col * seq_len * MAX_ACT_COL
  <2>1. i' * MAX_ACT_COL + j' - Latency = N + 1 - Latency
    <3>1. i' * MAX_ACT_COL \in Int /\ j' \in Int
      BY <1>0, <1>4
    <3> QED
      BY <1>1, <1>5, <3>1
  <2>2. /\ OutputValid' => outPtr' = base + (i' * MAX_ACT_COL + j' - Latency)
        /\ ~ OutputValid' => outPtr' = base
    BY <1>10, <2>1
  <2> QED
    BY <2>2 DEF base
<1> QED
  BY <1>3, <1>4, <1>11, <1>13, <1>14, <1>15

-----------------------------------------------------------------------------
(* One step per action. *)

LEMMA CallIInv ==
    ASSUME IInv, NEW t \in todo, Call(t[1], t[2])
    PROVE  IInv'
<1>1. t \in Tiles
  BY DEF IInv, TypeOK
<1>2. t = <<t[1], t[2]>> /\ t[1] \in 0 .. RowTiles - 1 /\ t[2] \in 0 .. ColTiles - 1
  BY <1>1 DEF Tiles
<1>3. t[1] \in Nat /\ t[2] \in Nat /\ seq_len \in Nat /\ row \in Nat /\ col \in Nat
  BY <1>2, DimsAssumption, TypeFacts DEF IInv
<1>4. TypeOK'
  <2>1. 0 \in 0 .. KERNEL_DIM * MAX_W_COL
    <3>1. KERNEL_DIM * MAX_W_COL \in Nat
      BY ConfigFacts
    <3> QED
      BY <3>1
  <2> QED
    BY <1>2, <2>1 DEF Call, IInv, TypeOK
<1>5. CleanTile(tile)
  BY <1>3, CleanEnds DEF Call, IInv, PipelineInv
<1>6. PipelineInv'
  BY <1>3, <1>5, CleanStarts DEF Call, PipelineInv
<1>7. WeightsInv'
  <2>1. pc' = "load" /\ k' = 0 /\ 0 * W_PER_BUS = 0
    BY ConfigFacts DEF Call
  <2>2. \A r, c \in Index : ~ (r * KERNEL_DIM + c < 0)
    <3> SUFFICES ASSUME NEW r \in Index, NEW c \in Index
                 PROVE  ~ (r * KERNEL_DIM + c < 0)
      OBVIOUS
    <3>1. r \in Nat /\ c \in Nat /\ r * KERNEL_DIM \in Nat
      BY ConfigFacts DEF Index
    <3> QED
      BY <3>1
  <2> QED
    BY <2>1, <2>2 DEF WeightsInv
<1>8. PointerInv'
  BY DEF Call, PointerInv
<1> QED
  BY <1>4, <1>6, <1>7, <1>8 DEF IInv

LEMMA ParamWriteIInv ==
    ASSUME IInv, ParamWrite
    PROVE  IInv'
<1>0. /\ tile \in TileType /\ row \in Nat /\ col \in Nat /\ k \in Nat
      /\ W_PER_BUS \in Nat /\ KERNEL_DIM \in Nat
  BY TypeFacts, ConfigFacts DEF IInv
<1> DEFINE idx == k * W_PER_BUS
           val == WeightWord(row, col, k)
<1>1. idx \in Nat
  BY <1>0
<1>2. val \in [WLane -> Weights]
  <2> SUFFICES ASSUME NEW l \in WLane PROVE k * W_PER_BUS + l \in Nat
    BY <1>0 DEF WeightWord, Weights
  <2> QED
    BY <1>0, <1>1 DEF WLane
<1>3. /\ tile' = loadWeights(tile, idx, val) /\ k' = k + 1
      /\ UNCHANGED <<seq_len, kept, todo, output, pc, row, col, i, j, inPtr, outPtr>>
      /\ pc = "load" /\ k < KERNEL_DIM * MAX_W_COL
  BY DEF ParamWrite
<1> HIDE DEF idx, val
<1>4. TypeOK'
  <2>1. tile' \in TileType
    BY <1>0, <1>1, <1>2, <1>3, LoadWeightsType
  <2>2. KERNEL_DIM * MAX_W_COL \in Nat
    BY ConfigFacts
  <2>3. k' \in 0 .. KERNEL_DIM * MAX_W_COL
    BY <1>0, <1>3, <2>2
  <2> QED
    BY <1>3, <2>1, <2>3 DEF IInv, TypeOK
<1>5. PipelineInv'
  <2>1. /\ tile'.inputMemory = tile.inputMemory
        /\ tile'.outputMemory = tile.outputMemory
        /\ tile'.inWaiting = tile.inWaiting
        /\ tile'.outWaiting = tile.outWaiting
    BY <1>3 DEF loadWeights
  <2>2. PipelineAt(tile, seq_len, row, col, 0, 0)
    BY <1>3 DEF IInv, PipelineInv
  <2>3. PipelineAt(tile', seq_len, row, col, 0, 0)
    BY <2>1, <2>2 DEF PipelineAt, InWaitingAt, QueuedAt, InputAt, OutputAt, OutWaitingAt
  <2> QED
    BY <1>3, <2>3 DEF PipelineInv
<1>6. WeightsInv'
  <2> SUFFICES ASSUME NEW r \in Index, NEW c \in Index,
                      r * KERNEL_DIM + c < k' * W_PER_BUS
               PROVE  tile'.weights[r][c] = TileWeight(row, col, r, c)
    BY <1>3 DEF WeightsInv
  <2> DEFINE e == r * KERNEL_DIM + c
  <2>1. tile'.weights[r][c] =
          IF e - idx \in WLane THEN val[e - idx] ELSE tile.weights[r][c]
    BY <1>3 DEF loadWeights, storeWeights
  <2>2. e \in Int /\ idx \in Int /\ e < idx + W_PER_BUS
    BY <1>0, <1>3 DEF idx, Index
  <2>3. CASE e < idx
    <3>1. tile.weights[r][c] = TileWeight(row, col, r, c)
      BY <1>3, <2>3 DEF IInv, WeightsInv, idx
    <3>2. e - idx \notin WLane
      <4> HIDE DEF e
      <4> QED
        BY <2>2, <2>3 DEF WLane
    <3> QED
      BY <2>1, <3>1, <3>2
  <2>4. CASE e >= idx
    <3>1. e - idx \in WLane /\ idx + (e - idx) = e
      <4> HIDE DEF e
      <4> QED
        BY <1>0, <2>2, <2>4 DEF WLane
    <3>2. val[e - idx] = { <<row, col, idx + (e - idx)>> }
      BY <3>1 DEF val, WeightWord, idx
    <3> QED
      BY <2>1, <3>1, <3>2 DEF TileWeight
  <2> QED
    BY <2>2, <2>3, <2>4
<1>7. PointerInv'
  BY <1>3 DEF PointerInv
<1> QED
  BY <1>4, <1>5, <1>6, <1>7 DEF IInv

LEMMA BeginMultiplyIInv ==
    ASSUME IInv, BeginMultiply
    PROVE  IInv'
<1>0. /\ row \in Nat /\ col \in Nat /\ seq_len \in Nat /\ seq_len > 0
      /\ W_PER_BUS \in Nat /\ KERNEL_DIM \in Nat /\ KERNEL_DIM > 0
      /\ MAX_ACT_COL \in Nat /\ MAX_ACT_COL > 0 /\ MAX_W_COL \in Nat
      /\ MAX_W_COL * W_PER_BUS = KERNEL_DIM
  BY TypeFacts, ConfigFacts DEF IInv
<1>1. /\ pc = "load" /\ pc' = "multiply" /\ i' = 0 /\ j' = 0
      /\ k = KERNEL_DIM * MAX_W_COL
      /\ inPtr' = row * MAX_ACT_COL * seq_len
      /\ outPtr' = col * MAX_ACT_COL * seq_len
      /\ UNCHANGED <<seq_len, kept, todo, tile, output, row, col, k>>
  BY DEF BeginMultiply
<1>2. TypeOK'
  <2>1. inPtr' \in Nat /\ outPtr' \in Nat
    BY <1>0, <1>1
  <2>2. i' \in Nat /\ j' \in 0 .. MAX_ACT_COL - 1
    BY <1>0, <1>1
  <2> QED
    BY <1>1, <2>1, <2>2 DEF IInv, TypeOK
<1>3. PipelineInv'
  BY <1>1 DEF IInv, PipelineInv
<1>4. WeightsInv'
  <2>1. k * W_PER_BUS = KERNEL_DIM * KERNEL_DIM
    BY <1>0, <1>1
  <2> SUFFICES ASSUME NEW r \in Index, NEW c \in Index
               PROVE  tile.weights[r][c] = TileWeight(row, col, r, c)
    BY <1>1 DEF WeightsInv, HasWeights
  <2>2. r * KERNEL_DIM + c < KERNEL_DIM * KERNEL_DIM
    <3>1. r \in Int /\ c \in Int /\ r <= KERNEL_DIM - 1 /\ c < KERNEL_DIM
      BY <1>0 DEF Index
    <3>2. r * KERNEL_DIM <= (KERNEL_DIM - 1) * KERNEL_DIM
      BY <1>0, <3>1
    <3>3. (KERNEL_DIM - 1) * KERNEL_DIM = KERNEL_DIM * KERNEL_DIM - KERNEL_DIM
      BY <1>0
    <3> QED
      BY <1>0, <3>1, <3>2, <3>3
  <2> QED
    BY <1>1, <2>1, <2>2 DEF IInv, WeightsInv
<1>5. PointerInv'
  <2>1. TypeOK' /\ i' = 0 /\ j' = 0
    BY <1>1, <1>2
  <2>2. inPtr' = (row * seq_len + 0) * MAX_ACT_COL + 0
    BY <1>0, <1>1
  <2>3. outPtr' = col * seq_len * MAX_ACT_COL
    BY <1>0, <1>1
  <2>4. i' * MAX_ACT_COL + j' = 0
    BY <1>0, <1>1
  <2>5. DrainEnd' >= 0
    <3>1. DrainEnd = (seq_len + 2 * KERNEL_DIM - 2) * MAX_ACT_COL + (MAX_ACT_COL - 1)
      BY Guards DEF IInv
    <3>2. DrainEnd' = DrainEnd
      BY <1>1 DEF DrainEnd
    <3>3. (seq_len + 2 * KERNEL_DIM - 2) * MAX_ACT_COL >= 0
      <4>1. seq_len + 2 * KERNEL_DIM - 2 \in Nat
        BY <1>0
      <4> QED
        BY <1>0, <4>1
    <3>4. (seq_len + 2 * KERNEL_DIM - 2) * MAX_ACT_COL \in Int
      BY <1>0
    <3> QED
      BY <1>0, <3>1, <3>2, <3>3, <3>4
  <2>6. Latency' = Latency /\ Latency >= 0 /\ Latency \in Int
    <3>1. Latency = (2 * KERNEL_DIM - 2) * MAX_ACT_COL + (MAX_ACT_COL - 1)
      BY Guards DEF IInv
    <3>2. (2 * KERNEL_DIM - 2) * MAX_ACT_COL \in Nat
      <4>1. 2 * KERNEL_DIM - 2 \in Nat
        BY <1>0
      <4> QED
        BY <1>0, <4>1
    <3>3. Latency' = Latency
      BY DEF Latency
    <3> QED
      BY <1>0, <3>1, <3>2, <3>3
  <2>7. OutputValid' => Latency = 0
    <3>1. OutputValid' <=> i' * MAX_ACT_COL + j' >= Latency
      BY DEF OutputValid, Latency
    <3> QED
      BY <2>4, <2>6, <3>1
  <2> QED
    BY <1>0, <1>1, <2>2, <2>3, <2>4, <2>5, <2>6, <2>7 DEF PointerInv
<1> QED
  BY <1>2, <1>3, <1>4, <1>5 DEF IInv

LEMMA TransferIInv ==
    ASSUME IInv, pc = "multiply", NEW word \in [ActLane -> Inputs],
           IsRowWord(word, seq_len, row, i, j), Transfer(word),
           i * MAX_ACT_COL + j < DrainEnd,
           inPtr' \in Nat,
           (i < seq_len => inPtr = (row * seq_len + i) * MAX_ACT_COL + j)',
           (i >= seq_len => inPtr = (row * seq_len + seq_len) * MAX_ACT_COL)'
    PROVE  IInv'
<1>1. tile' \in TileType /\ PipelineInv' /\ WeightsInv'
  BY TransferTile
<1>2. UNCHANGED <<seq_len, kept, todo, pc, row, col, k>>
  BY DEF Transfer
<1>3. /\ i' \in Nat /\ j' \in 0 .. MAX_ACT_COL - 1 /\ outPtr' \in Nat
      /\ (i * MAX_ACT_COL + j <= DrainEnd)'
      /\ OutputValid' => outPtr' = col * seq_len * MAX_ACT_COL
                           + (i' * MAX_ACT_COL + j' - Latency)
      /\ ~ OutputValid' => outPtr' = col * seq_len * MAX_ACT_COL
  BY TransferCounters DEF IInv
<1>4. TypeOK'
  BY <1>1, <1>2, <1>3 DEF IInv, TypeOK
<1>5. PointerInv'
  <2>1. Latency' = Latency
    BY DEF Latency
  <2> QED
    BY <1>2, <1>3, <2>1 DEF PointerInv
<1> QED
  BY <1>1, <1>4, <1>5 DEF IInv

LEMMA FeedIInv ==
    ASSUME IInv, Feed
    PROVE  IInv'
<1> DEFINE M == MAX_ACT_COL
           B == row * seq_len
<1>0. /\ i \in Nat /\ j \in Nat /\ seq_len \in Nat /\ inPtr \in Nat
      /\ M \in Nat /\ B \in Nat /\ KERNEL_DIM \in Nat /\ KERNEL_DIM > 0
  BY TypeFacts, ConfigFacts DEF IInv
<1>1. /\ pc = "multiply" /\ i < seq_len /\ Transfer(InputWord(inPtr))
      /\ inPtr' = inPtr + 1
  BY DEF Feed
<1>2. /\ InputWord(inPtr) \in [ActLane -> Inputs]
      /\ IsRowWord(InputWord(inPtr), seq_len, row, i, j)
  BY <1>1, FeedWord DEF IInv
<1>3. i * M + j < DrainEnd
  <2>1. ~ (i * M + j >= DrainEnd)
    BY <1>0, <1>1, Guards DEF IInv
  <2>2. i * M + j \in Int
    BY <1>0
  <2>3. DrainEnd \in Int
    BY <1>0 DEF DrainEnd
  <2> QED
    BY <2>1, <2>2, <2>3
<1>4. /\ i' \in Nat /\ j' \in 0 .. MAX_ACT_COL - 1
      /\ \/ i' = i /\ j' = j + 1
         \/ i' = i + 1 /\ j' = 0 /\ j = MAX_ACT_COL - 1
  BY <1>1, <1>3, TransferCounters DEF IInv
<1>5. inPtr = (B + i) * M + j
  BY <1>1 DEF IInv, PointerInv
<1>6. UNCHANGED <<seq_len, row>>
  BY <1>1 DEF Transfer
<1>7. inPtr' = (B + i') * M + j'
  <2>1. CASE i' = i /\ j' = j + 1
    <3>1. (B + i) * M \in Int
      BY <1>0
    <3> QED
      BY <1>0, <1>1, <1>5, <2>1, <3>1
  <2>2. CASE i' = i + 1 /\ j' = 0 /\ j = MAX_ACT_COL - 1
    <3>1. (B + (i + 1)) * M = (B + i) * M + M
      <4> HIDE DEF B, M
      <4> QED
        BY <1>0
    <3>2. (B + i) * M \in Int
      BY <1>0
    <3> QED
      BY <1>0, <1>1, <1>5, <2>2, <3>1, <3>2
  <2> QED
    BY <1>4, <2>1, <2>2
<1>8. (i < seq_len => inPtr = (row * seq_len + i) * MAX_ACT_COL + j)'
  BY <1>6, <1>7
<1>9. (i >= seq_len => inPtr = (row * seq_len + seq_len) * MAX_ACT_COL)'
  <2> SUFFICES ASSUME i' >= seq_len
               PROVE  inPtr' = (row * seq_len + seq_len) * MAX_ACT_COL
    BY <1>6
  <2>1. i' = seq_len /\ j' = 0
    BY <1>0, <1>1, <1>4
  <2>2. (B + seq_len) * M \in Int
    BY <1>0
  <2> QED
    BY <1>7, <2>1, <2>2
<1>10. inPtr' \in Nat
  BY <1>0, <1>1
<1> QED
  BY <1>1, <1>2, <1>3, <1>8, <1>9, <1>10, TransferIInv

LEMMA DrainIInv ==
    ASSUME IInv, Drain
    PROVE  IInv'
<1>0. i \in Nat /\ seq_len \in Nat /\ inPtr \in Nat
  BY TypeFacts DEF IInv
<1>1. /\ pc = "multiply" /\ i >= seq_len /\ Transfer(ZeroAct)
      /\ i * MAX_ACT_COL + j < DrainEnd /\ inPtr' = inPtr
  BY DEF Drain
<1>2. ZeroAct \in [ActLane -> Inputs] /\ IsRowWord(ZeroAct, seq_len, row, i, j)
  BY <1>1, DrainWord DEF IInv
<1>3. /\ i' \in Nat
      /\ i' = i \/ i' = i + 1
  BY <1>1, TransferCounters DEF IInv
<1>4. UNCHANGED <<seq_len, row>>
  BY <1>1 DEF Transfer
<1>5. inPtr = (row * seq_len + seq_len) * MAX_ACT_COL
  BY <1>1 DEF IInv, PointerInv
<1>6. ~ (i' < seq_len)
  BY <1>0, <1>1, <1>3
<1>7. (i < seq_len => inPtr = (row * seq_len + i) * MAX_ACT_COL + j)'
  BY <1>4, <1>6
<1>8. (i >= seq_len => inPtr = (row * seq_len + seq_len) * MAX_ACT_COL)'
  BY <1>1, <1>4, <1>5
<1> QED
  BY <1>0, <1>1, <1>2, <1>7, <1>8, TransferIInv

LEMMA ReturnIInv ==
    ASSUME IInv, Return
    PROVE  IInv'
<1>0. /\ row \in Nat /\ col \in Nat /\ seq_len \in Nat /\ i \in Nat
  BY TypeFacts DEF IInv
<1>1. /\ pc = "multiply" /\ pc' = "idle"
      /\ i * MAX_ACT_COL + j >= DrainEnd
      /\ UNCHANGED <<seq_len, kept, todo, tile, output, row, col, k, i, j, inPtr, outPtr>>
  BY DEF Return, AtReturn
<1>2. i >= seq_len + 2 * KERNEL_DIM - 2
  BY <1>0, <1>1, Guards, ConfigFacts DEF IInv
<1>3. CleanTile(tile)
  BY <1>0, <1>1, <1>2, CleanEnds DEF IInv, PipelineInv
<1>4. PipelineInv'
  BY <1>0, <1>1, <1>3, CleanStarts DEF PipelineInv
<1>5. TypeOK'
  BY <1>1 DEF IInv, TypeOK
<1> QED
  BY <1>1, <1>4, <1>5 DEF IInv, WeightsInv, PointerInv

LEMMA StepIInv == IInv /\ [Next]_vars => IInv'
<1> SUFFICES ASSUME IInv, [Next]_vars PROVE IInv'
  OBVIOUS
<1>1. CASE CallAny
  BY <1>1, CallIInv DEF CallAny
<1>2. CASE ParamWrite
  BY <1>2, ParamWriteIInv
<1>3. CASE BeginMultiply
  BY <1>3, BeginMultiplyIInv
<1>4. CASE Feed
  BY <1>4, FeedIInv
<1>5. CASE Drain
  BY <1>5, DrainIInv
<1>6. CASE Return
  BY <1>6, ReturnIInv
<1>7. CASE UNCHANGED vars
  BY <1>7 DEF vars, IInv, TypeOK, PipelineInv, WeightsInv, PointerInv,
              OutputValid, DrainEnd, Latency
<1> QED
  BY <1>1, <1>2, <1>3, <1>4, <1>5, <1>6, <1>7 DEF Next, Finished

(***************************************************************************)
(* Type correctness: at every instruction of every call the counters and   *)
(* pointers are in range and no cell of the device has ever accumulated    *)
(* the same product twice.                                                 *)
(***************************************************************************)
THEOREM TypeCorrect == Spec => []TypeOK
<1>1. IInv => TypeOK
  BY DEF IInv
<1> QED
  BY <1>1, InitIInv, StepIInv, PTL DEF Spec

(***************************************************************************)
(* After n rows every live cell of the device holds exactly the element,   *)
(* partial sum or result that the skewed dataflow of streamInOut calls     *)
(* for, whatever the tile dimension and the widths of the data.            *)
(***************************************************************************)
THEOREM PipelineCorrect == Spec => []PipelineInv
<1>1. IInv => PipelineInv
  BY DEF IInv
<1> QED
  BY <1>1, InitIInv, StepIInv, PTL DEF Spec

(***************************************************************************)
(* The drain loop of processMultiplication is long enough: when the        *)
(* weights are replaced no input, partial sum or unread result of the      *)
(* previous tile is left in the device.                                    *)
(***************************************************************************)
THEOREM CleanCorrect == Spec => []CleanBetweenTiles
<1>1. IInv => CleanBetweenTiles
  <2> SUFFICES ASSUME IInv, pc # "multiply" PROVE CleanTile(tile)
    BY DEF CleanBetweenTiles
  <2>1. PipelineAt(tile, seq_len, row, col, 0, 0)
    BY DEF IInv, PipelineInv
  <2>2. seq_len \in Nat /\ row \in Nat /\ col \in Nat
    BY TypeFacts DEF IInv
  <2> QED
    BY <2>1, <2>2, CleanEnds
<1> QED
  BY <1>1, InitIInv, StepIInv, PTL DEF Spec

LEMMA IInvPointers == IInv => PointersInBlocks
<1> SUFFICES ASSUME IInv, pc = "multiply" PROVE PointersInBlocks
  BY DEF PointersInBlocks
<1> DEFINE M == MAX_ACT_COL
           S == seq_len * M
           N == i * M + j
<1>0. /\ i \in Nat /\ j \in Nat /\ j < M /\ M \in Nat /\ M > 0 /\ seq_len \in Nat
      /\ row \in Nat /\ col \in Nat /\ inPtr \in Nat /\ outPtr \in Nat
      /\ KERNEL_DIM \in Nat
  BY TypeFacts, ConfigFacts DEF IInv
<1>1. S \in Nat /\ N \in Nat /\ col * S \in Nat /\ row * S \in Nat
  BY <1>0
<1>2. /\ \A b \in Nat : b * seq_len * M = b * S
      /\ \A b \in Nat : (b + 1) * seq_len * M = b * S + S
  BY <1>0
<1>3. DrainEnd = Latency + S /\ Latency \in Int
  <2>1. DrainEnd = (seq_len + 2 * KERNEL_DIM - 2) * M + (M - 1)
    BY Guards DEF IInv
  <2>2. Latency = (2 * KERNEL_DIM - 2) * M + (M - 1)
    BY Guards DEF IInv
  <2> QED
    BY <1>0, <2>1, <2>2
<1>4. N <= DrainEnd
  BY DEF IInv, PointerInv
<1>5. i < seq_len => row * S <= inPtr /\ inPtr < row * S + S
  <2> SUFFICES ASSUME i < seq_len
               PROVE  row * S <= inPtr /\ inPtr < row * S + S
    OBVIOUS
  <2>1. inPtr = (row * seq_len + i) * M + j
    BY DEF IInv, PointerInv
  <2>2. (row * seq_len + i) * M = row * S + i * M
    BY <1>0
  <2>3. i * M + M <= S
    <3>1. (seq_len - 1 - i) * M >= 0
      <4>1. seq_len - 1 - i \in Nat
        BY <1>0
      <4> QED
        BY <1>0, <4>1
    <3>2. (seq_len - 1 - i) * M = S - M - i * M
      BY <1>0
    <3>3. i * M \in Nat
      BY <1>0
    <3> QED
      BY <1>0, <1>1, <3>1, <3>2, <3>3
  <2>4. i * M \in Nat
    BY <1>0
  <2> HIDE DEF S
  <2> QED
    BY <1>0, <1>1, <2>1, <2>2, <2>3, <2>4
<1>6. OutputValid <=> N >= Latency
  BY Guards DEF IInv
<1>7. OutputValid => outPtr = col * S + (N - Latency)
  <2>1. OutputValid => outPtr = col * seq_len * M + (N - Latency)
    BY <1>0, <1>1, <1>3 DEF IInv, PointerInv
  <2>2. col * seq_len * M = col * S
    BY <1>0
  <2> QED
    BY <2>1, <2>2
<1>8. AtReturn => N = DrainEnd
  <2>1. AtReturn => N >= DrainEnd
    BY DEF AtReturn
  <2> QED
    BY <1>1, <1>3, <1>4, <2>1
<1>9. OutputValid /\ ~ AtReturn => N < DrainEnd
  <2>1. ~ AtReturn => i < seq_len \/ ~ (N >= DrainEnd)
    BY <1>0 DEF AtReturn
  <2>2. i < seq_len => ~ (N >= DrainEnd)
    BY <1>0, Guards, ConfigFacts DEF IInv
  <2> QED
    BY <1>1, <1>3, <2>1, <2>2
<1> HIDE DEF N, S
<1>10. AtReturn => outPtr = col * S + S
  BY <1>1, <1>3, <1>6, <1>7, <1>8
<1>11. OutputValid /\ ~ AtReturn => col * S <= outPtr /\ outPtr < col * S + S
  BY <1>1, <1>3, <1>6, <1>7, <1>9
<1>12. /\ row * seq_len * M = row * S /\ (row + 1) * seq_len * M = row * S + S
       /\ col * seq_len * M = col * S /\ (col + 1) * seq_len * M = col * S + S
  BY <1>0, <1>2
<1> HIDE DEF M
<1> QED
  BY <1>5, <1>10, <1>11, <1>12 DEF PointersInBlocks, M

(***************************************************************************)
(* processMultiplication reads only the input block of its tile row and    *)
(* writes only the output block of its tile column, and has written every  *)
(* word of it when it returns, for every seq_len (shorter than the         *)
(* pipeline or not), tile dimension and data width.                        *)
(***************************************************************************)
THEOREM PointersCorrect == Spec => []PointersInBlocks
  BY IInvPointers, InitIInv, StepIInv, PTL DEF Spec
=============================================================================
