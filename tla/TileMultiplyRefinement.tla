----------------------- MODULE TileMultiplyRefinement -----------------------
(***************************************************************************)
(* processMultiplication on the device implements the abstract matrix      *)
(* product: every step adds one contribution of the current tile to its    *)
(* place in the output, or is invisible.                                   *)
(*                                                                         *)
(* In the builds of SameIndex the software model of the device does the    *)
(* same: its tile is, instruction by instruction, that of the gem5 device. *)
(***************************************************************************)
EXTENDS SoftwareMultiply, TileMultiplyProofs

(* The tile being processed is a kept one, not to be processed again. *)
CurrentInv == pc # "idle" => <<row, col>> \in kept /\ <<row, col>> \notin todo

RInv == IInv /\ CurrentInv

LEMMA InitRInv == Init => RInv
  BY InitIInv DEF RInv, CurrentInv, Init

LEMMA StepRInv == RInv /\ [Next]_vars => RInv'
<1> SUFFICES ASSUME RInv, [Next]_vars PROVE CurrentInv'
  BY StepIInv DEF RInv
<1>1. CASE CallAny
  <2>1. PICK t \in todo : Call(t[1], t[2])
    BY <1>1 DEF CallAny
  <2>2. t = <<t[1], t[2]>> /\ t \in kept
    BY DEF RInv, IInv, TypeOK, Tiles
  <2> QED
    BY <2>1, <2>2 DEF Call, CurrentInv
<1>2. CASE ParamWrite
  BY <1>2 DEF ParamWrite, RInv, CurrentInv
<1>3. CASE BeginMultiply
  BY <1>3 DEF BeginMultiply, RInv, CurrentInv
<1>4. CASE Feed
  BY <1>4 DEF Feed, Transfer, RInv, CurrentInv
<1>5. CASE Drain
  BY <1>5 DEF Drain, Transfer, RInv, CurrentInv
<1>6. CASE Return
  BY <1>6 DEF Return, CurrentInv
<1>7. CASE UNCHANGED vars
  BY <1>7 DEF vars, RInv, CurrentInv
<1> QED
  BY <1>1, <1>2, <1>3, <1>4, <1>5, <1>6, <1>7 DEF Next, Finished

-----------------------------------------------------------------------------
(* The set of pending contributions, one case per place of the driver. *)

TodoWords == { <<t[1], t[2], ii, jj>> : t \in todo, ii \in 0 .. seq_len - 1,
                                        jj \in 0 .. MAX_ACT_COL - 1 }

LEMMA PendingCases ==
    /\ pc = "idle" => pendingWords = TodoWords
    /\ pc = "load" => pendingWords = TodoWords \cup WordsLeft
    /\ pc = "multiply" => pendingWords = TodoWords \cup
          { p \in WordsLeft : (col * seq_len + p[3]) * MAX_ACT_COL + p[4] >= outPtr }
<1>1. /\ "idle" # "load" /\ "idle" # "multiply" /\ "load" # "multiply"
  OBVIOUS
<1> QED
  BY <1>1 DEF pendingWords, TodoWords

LEMMA WordsOfCall ==
    ASSUME NEW p \in WordsLeft
    PROVE  /\ p = <<row, col, p[3], p[4]>>
           /\ p[3] \in 0 .. seq_len - 1 /\ p[4] \in 0 .. MAX_ACT_COL - 1
  BY DEF WordsLeft

(* The word the device returns once the pipeline is full. *)
LEMMA OutputWordCorrect ==
    ASSUME NEW t, NEW s \in Nat, NEW b \in Nat, NEW d \in Nat,
           NEW n \in Nat, n >= 2 * KERNEL_DIM - 1, n - (2 * KERNEL_DIM - 1) < s,
           NEW w \in 0 .. MAX_ACT_COL - 1,
           OutWaitingAt(t, s, b, d, n)
    PROVE  outputWord(t, w) = [l \in ActLane |->
               PartialDot(s, b, d, n - (2 * KERNEL_DIM - 1), KERNEL_DIM,
                          w * ACT_PER_BUS + l)]
<1> SUFFICES ASSUME NEW l \in ActLane
             PROVE  LET e == w * ACT_PER_BUS + l
                    IN  t.outWaiting[KERNEL_DIM - e - 1][e] =
                          PartialDot(s, b, d, n - (2 * KERNEL_DIM - 1), KERNEL_DIM, e)
  BY DEF outputWord
<1> DEFINE e == w * ACT_PER_BUS + l
           K == KERNEL_DIM
<1>0. /\ K \in Nat /\ K > 0 /\ ACT_PER_BUS \in Nat /\ ACT_PER_BUS > 0
      /\ w \in Nat /\ MAX_ACT_COL \in Nat /\ MAX_ACT_COL * ACT_PER_BUS = K
      /\ l \in Nat /\ l < ACT_PER_BUS /\ w <= MAX_ACT_COL - 1
  BY ConfigFacts DEF ActLane
<1>1. e \in Nat /\ e < K
  <2>1. (MAX_ACT_COL - 1 - w) * ACT_PER_BUS >= 0
    <3>1. MAX_ACT_COL - 1 - w \in Nat
      BY <1>0
    <3> QED
      BY <1>0, <3>1
  <2>2. (MAX_ACT_COL - 1 - w) * ACT_PER_BUS
          = MAX_ACT_COL * ACT_PER_BUS - ACT_PER_BUS - w * ACT_PER_BUS
    BY <1>0
  <2>3. w * ACT_PER_BUS \in Nat
    BY <1>0
  <2> QED
    BY <1>0, <2>1, <2>2, <2>3
<1> HIDE DEF e
<1>2. /\ K - e - 1 \in Index /\ e \in Index
      /\ (K - e - 1) + e = K - 1 /\ n > 0
      /\ n - K - (K - e - 1) - e = n - (2 * K - 1)
  BY <1>0, <1>1 DEF Index
<1>3. t.outWaiting[K - e - 1][e] = PartialDot(s, b, d, n - K - (K - e - 1) - e, K, e)
  BY <1>2 DEF OutWaitingAt
<1> QED
  BY <1>2, <1>3 DEF e

-----------------------------------------------------------------------------
(* The abstract operators, in the words of the device. *)

LEMMA ConfigSame ==
    /\ MM!MAX_ACT_COL = MAX_ACT_COL
    /\ MM!ActLane = ActLane
    /\ MM!Index = Index
    /\ MM!ZeroAct = ZeroAct
    /\ MM!Tiles = Tiles
    /\ \A x, y : MM!addActIn32(x, y) = addActIn32(x, y)
<1>1. MM!MAX_ACT_COL = MAX_ACT_COL /\ MM!ActLane = ActLane /\ MM!Index = Index
  BY DEF MM!MAX_ACT_COL, MAX_ACT_COL, MM!CEILING_DIV, CEILING_DIV,
         MM!ActLane, ActLane, MM!Index, Index
<1>2. MM!ZeroAct = ZeroAct
  BY <1>1 DEF MM!ZeroAct, ZeroAct, MM!Zero, Zero
<1>3. \A x, y : MM!Plus(x, y) = Plus(x, y)
  BY DEF MM!Plus, Plus, MM!Again, Again
<1>4. \A x, y : MM!addActIn32(x, y) = addActIn32(x, y)
  BY <1>1, <1>3 DEF MM!addActIn32, addActIn32
<1> QED
  BY <1>1, <1>2, <1>4 DEF MM!Tiles, Tiles

LEMMA ContributionSame ==
    ASSUME NEW b, NEW d, NEW m \in 0 .. seq_len - 1, NEW w
    PROVE  MM!Contribution(b, d, m, w) = [l \in ActLane |->
               PartialDot(seq_len, b, d, m, KERNEL_DIM, w * ACT_PER_BUS + l)]
<1> SUFFICES ASSUME NEW c
             PROVE  MM!DotProduct(b, d, m, c) =
                      PartialDot(seq_len, b, d, m, KERNEL_DIM, c)
  BY ConfigSame DEF MM!Contribution
<1> QED
  BY DEF MM!DotProduct, PartialDot, MM!InputSymbol, MM!WeightSymbol, MM!Index

(***************************************************************************)
(* A transfer with a full pipeline adds one contribution of the tile.      *)
(***************************************************************************)
Draining == i * MAX_ACT_COL + j < DrainEnd

LEMMA TransferAdds ==
    ASSUME IInv, pc = "multiply", NEW word \in [ActLane -> Inputs],
           IsRowWord(word, seq_len, row, i, j), Transfer(word),
           Draining, OutputValid
    PROVE  \E ii \in 0 .. seq_len - 1, jj \in 0 .. MAX_ACT_COL - 1 :
             /\ outPtr = (col * seq_len + ii) * MAX_ACT_COL + jj
             /\ outPtr' = outPtr + 1
             /\ output' = [output EXCEPT ![outPtr] =
                             addActIn32(@, MM!Contribution(row, col, ii, jj))]
<1> DEFINE M == MAX_ACT_COL
           K == KERNEL_DIM
           ii == i' - (2 * K - 1)
           jj == j'
<1>0. /\ i \in Nat /\ j \in Nat /\ j < M /\ M \in Nat /\ M > 0 /\ K \in Nat /\ K > 0
      /\ seq_len \in Nat /\ row \in Nat /\ col \in Nat /\ outPtr \in Nat
  BY TypeFacts, ConfigFacts DEF IInv
<1>1. /\ i' \in Nat /\ j' \in 0 .. M - 1 /\ j' \in Nat
      /\ \/ i' = i /\ j' = j + 1
         \/ i' = i + 1 /\ j' = 0 /\ j = M - 1
  BY TransferCounters DEF IInv, Draining
<1>a. i' * M + j' = i * M + j + 1
  BY TransferCounters DEF IInv, Draining
<1>2. UNCHANGED <<seq_len, kept, todo, pc, row, col, k>>
  BY DEF Transfer
<1>3. OutWaitingAt(tile', seq_len, row, col, i')
  <2>1. PipelineInv'
    BY TransferTile
  <2> QED
    BY <2>1, <1>2 DEF PipelineInv, PipelineAt
<1>4. i' >= 2 * K - 1 /\ i' - (2 * K - 1) < seq_len
  <2>1. OutputValid <=> \/ i >= 2 * K - 1
                        \/ i = 2 * K - 2 /\ j = M - 1
    BY Guards DEF IInv
  <2>2. i * M + j >= DrainEnd
                <=> \/ i > seq_len + 2 * K - 2
                    \/ i = seq_len + 2 * K - 2 /\ j = M - 1
    BY Guards DEF IInv
  <2>3. i * M + j \in Int /\ DrainEnd \in Int
    BY <1>0 DEF DrainEnd
  <2>4. ~ (i * M + j >= DrainEnd)
    BY <2>3 DEF Draining
  <2>5. i < seq_len + 2 * K - 2 \/ (i = seq_len + 2 * K - 2 /\ j # M - 1)
    <3>1. ~ (i > seq_len + 2 * K - 2) /\ ~ (i = seq_len + 2 * K - 2 /\ j = M - 1)
      BY <2>2, <2>4
    <3> QED
      BY <3>1, <1>0
  <2>6. CASE i' = i /\ j' = j + 1
    <3>1. j # M - 1
      BY <2>6, <1>0, <1>1
    <3> QED
      BY <2>1, <2>5, <2>6, <3>1, <1>0
  <2>7. CASE i' = i + 1 /\ j' = 0 /\ j = M - 1
    BY <2>1, <2>5, <2>7, <1>0
  <2> QED
    BY <2>6, <2>7, <1>1
<1>5. ii \in 0 .. seq_len - 1
  <2>1. i' \in Nat /\ K \in Nat /\ seq_len \in Nat
    BY <1>0, <1>1
  <2>2. \A n, m \in Nat, x \in Nat : n >= 2 * m - 1 /\ n - (2 * m - 1) < x
                                      => n - (2 * m - 1) \in 0 .. x - 1
    OBVIOUS
  <2> QED
    BY <2>1, <2>2, <1>4
<1>6. outPtr = (col * seq_len + ii) * M + jj
  <2>1. outPtr = col * seq_len * M + (i * M + j - Latency)
    BY DEF IInv, PointerInv
  <2>2. outPtr = col * seq_len * M + (i' * M + j' - M * (2 * K - 1))
    <3> DEFINE X == i' * M + j'
               Y == i * M + j
               Z == M * (2 * K - 1)
               C == col * seq_len * M
    <3>1. X \in Int /\ Y \in Int /\ Z \in Int /\ C \in Int
      BY <1>0, <1>1
    <3>2. X = Y + 1 /\ outPtr = C + (Y - (Z - 1))
      <4>1. X = Y + 1
        BY <1>a, Zenon
      <4>2. outPtr = C + (i * M + j - (Z - 1))
        BY <2>1, Zenon DEF Latency
      <4> QED
        BY <4>1, <4>2, <3>1, <1>0
    <3> HIDE DEF X, Y, Z, C
    <3>3. outPtr = C + (X - Z)
      BY <3>1, <3>2
    <3> QED
      BY <1>0, <1>1, <3>3 DEF X, Z, C
  <2> DEFINE C == col * seq_len
  <2>3. C \in Int /\ ii \in Int /\ j' \in Int /\ i' \in Int
    BY <1>0, <1>1, <1>5
  <2>4. i' * M - M * (2 * K - 1) = ii * M
    BY <1>0, <1>1
  <2>5. (C + ii) * M = C * M + ii * M
    BY <1>0, <2>3
  <2>6. C * M \in Int /\ ii * M \in Int /\ i' * M \in Int /\ M * (2 * K - 1) \in Int
    BY <1>0, <2>3
  <2> HIDE DEF C, ii
  <2>7. outPtr = C * M + (i' * M + j' - M * (2 * K - 1))
    BY <2>2 DEF C
  <2>8. outPtr = (C + ii) * M + j'
    BY <2>3, <2>4, <2>5, <2>6, <2>7
  <2> QED
    BY <2>8 DEF C
<1>7. outputWord(tile', jj) = MM!Contribution(row, col, ii, jj)
  <2>1. outputWord(tile', jj) = [l \in ActLane |->
               PartialDot(seq_len, row, col, i' - (2 * K - 1), K,
                          jj * ACT_PER_BUS + l)]
    <3>1. i' \in Nat /\ j' \in 0 .. M - 1 /\ seq_len \in Nat /\ row \in Nat /\ col \in Nat
      BY <1>0, <1>1
    <3> QED
      BY <3>1, <1>3, <1>4, OutputWordCorrect
  <2> QED
    BY <2>1, <1>5, ContributionSame
<1>8. Collect(outputWord(tile', jj))
  <2>1. CASE Queue(word)
    <3>1. j # M - 1 /\ Collect(inputQueueResult(tile', j)) /\ j' = j + 1
      BY <2>1 DEF Queue
    <3>2. (j + 1) % M = j + 1
      BY <3>1, <1>0
    <3> QED
      BY <3>1, <3>2 DEF inputQueueResult
  <2>2. CASE Stream(word)
    BY <2>2 DEF Stream, streamInOutResult
  <2> QED
    BY <2>1, <2>2 DEF Transfer
<1>9. /\ outPtr' = outPtr + 1
      /\ output' = [output EXCEPT ![outPtr] =
                      addActIn32(@, MM!Contribution(row, col, ii, jj))]
  BY <1>7, <1>8 DEF Collect
<1> HIDE DEF ii, jj
<1>10. jj \in 0 .. M - 1
  BY <1>1 DEF jj
<1> QED
  BY <1>5, <1>6, <1>9, <1>10

(* Writing the word at the output pointer makes it, and no other, no longer *)
(* pending.                                                                *)
LEMMA TransferPending ==
    ASSUME RInv, pc = "multiply", UNCHANGED <<seq_len, todo, pc, row, col>>,
           NEW ii \in 0 .. seq_len - 1, NEW jj \in 0 .. MAX_ACT_COL - 1,
           outPtr = (col * seq_len + ii) * MAX_ACT_COL + jj,
           outPtr' = outPtr + 1
    PROVE  /\ <<row, col, ii, jj>> \in pendingWords
           /\ pendingWords' = pendingWords \ { <<row, col, ii, jj>> }
<1> DEFINE M == MAX_ACT_COL
           Addr(p) == (col * seq_len + p[3]) * M + p[4]
           x == <<row, col, ii, jj>>
<1>0. /\ M \in Nat /\ seq_len \in Nat /\ row \in Nat /\ col \in Nat /\ outPtr \in Nat
      /\ ii \in Int /\ jj \in Int /\ col * seq_len \in Int
  BY TypeFacts, ConfigFacts DEF RInv, IInv
<1>1. pendingWords = TodoWords \cup { p \in WordsLeft : Addr(p) >= outPtr }
  BY PendingCases
<1>2. pendingWords' = TodoWords \cup { p \in WordsLeft : Addr(p) >= outPtr + 1 }
  BY DEF pendingWords, TodoWords, WordsLeft
<1>3. x \in WordsLeft /\ Addr(x) = outPtr
  BY DEF WordsLeft
<1>4. x \notin TodoWords
  <2>1. <<row, col>> \notin todo
    BY DEF RInv, CurrentInv
  <2>2. ASSUME NEW t \in todo, NEW a, NEW b, x = <<t[1], t[2], a, b>>
        PROVE  FALSE
    <3>1. t = <<t[1], t[2]>>
      BY DEF RInv, IInv, TypeOK, Tiles
    <3>2. t[1] = row /\ t[2] = col
      BY <2>2
    <3> QED
      BY <3>1, <3>2, <2>1
  <2> QED
    BY <2>2 DEF TodoWords
<1>5. ASSUME NEW p \in WordsLeft
      PROVE  Addr(p) >= outPtr + 1 <=> Addr(p) >= outPtr /\ p # x
  <2>1. /\ p = <<row, col, p[3], p[4]>>
        /\ p[3] \in 0 .. seq_len - 1 /\ p[4] \in 0 .. M - 1
    BY WordsOfCall
  <2>2. col * seq_len + p[3] \in Int /\ col * seq_len + ii \in Int
        /\ p[3] \in Int /\ p[4] \in Int
    BY <1>0, <2>1
  <2>3. Addr(p) \in Int
    BY <1>0, <2>2
  <2>4. Addr(p) = outPtr <=> p = x
    <3>1. ASSUME Addr(p) = outPtr PROVE p = x
      <4>1. col * seq_len + p[3] = col * seq_len + ii /\ p[4] = jj
        BY <3>1, <2>1, <2>2, LexEqual
      <4>2. p[3] = ii
        BY <4>1, <2>2, <1>0
      <4> QED
        BY <4>1, <4>2, <2>1
    <3> QED
      BY <3>1, <1>3
  <2> QED
    BY <2>3, <2>4, <1>0
<1> HIDE DEF Addr, x
<1>6. x \in pendingWords
  BY <1>0, <1>1, <1>3
<1>7. pendingWords' = pendingWords \ {x}
  BY <1>1, <1>2, <1>4, <1>5
<1> QED
  BY <1>6, <1>7 DEF x

-----------------------------------------------------------------------------
(* The simulation, one step per action. *)

LEMMA InitSimulates == Init => MM!Init
<1> SUFFICES ASSUME Init PROVE MM!Init
  OBVIOUS
<1>1. pendingWords = MM!ContributionsOf(kept)
  BY PendingCases, ConfigSame DEF Init, TodoWords, MM!ContributionsOf
<1>2. output = [a \in MM!OutputAddrs |-> MM!ZeroAct]
  BY ConfigSame DEF Init, MM!OutputAddrs, OutputWords
<1> QED
  BY <1>1, <1>2, ConfigSame DEF Init, MM!Init

(* A call makes its own words pending in place of the tile. *)
LEMMA CallSimulates ==
    ASSUME RInv, NEW t \in todo, Call(t[1], t[2])
    PROVE  UNCHANGED MM!vars
<1>0. t = <<t[1], t[2]>>
  BY DEF RInv, IInv, TypeOK, Tiles
<1>1. /\ pc = "idle" /\ pc' = "load" /\ todo' = todo \ {t}
      /\ row' = t[1] /\ col' = t[2] /\ UNCHANGED <<seq_len, kept, output>>
  BY <1>0 DEF Call
<1>2. pendingWords = TodoWords
  BY <1>1, PendingCases
<1>3. pendingWords' = TodoWords' \cup WordsLeft'
  <2>1. "load" # "idle"
    OBVIOUS
  <2> QED
    BY <1>1, <2>1 DEF pendingWords, TodoWords, WordsLeft
<1>4. TodoWords = TodoWords' \cup WordsLeft'
  BY <1>1 DEF TodoWords, WordsLeft
<1> QED
  BY <1>1, <1>2, <1>3, <1>4 DEF MM!vars

LEMMA ParamWriteSimulates ==
    ASSUME RInv, ParamWrite
    PROVE  UNCHANGED MM!vars
  BY DEF ParamWrite, MM!vars, pendingWords, WordsLeft

(* Before the first word every word of the block is ahead of the pointer. *)
LEMMA BeginSimulates ==
    ASSUME RInv, BeginMultiply
    PROVE  UNCHANGED MM!vars
<1>0. /\ row \in Nat /\ col \in Nat /\ seq_len \in Nat /\ MAX_ACT_COL \in Nat
      /\ MAX_ACT_COL > 0
  BY TypeFacts, ConfigFacts DEF RInv, IInv
<1>1. /\ pc = "load" /\ pc' = "multiply" /\ outPtr' = col * MAX_ACT_COL * seq_len
      /\ UNCHANGED <<seq_len, kept, todo, output, row, col>>
  BY DEF BeginMultiply
<1>2. ASSUME NEW p \in WordsLeft
      PROVE  (col * seq_len + p[3]) * MAX_ACT_COL + p[4] >= col * MAX_ACT_COL * seq_len
  <2>1. p[3] \in Nat /\ p[4] \in Nat
    BY <1>0, <1>2, WordsOfCall
  <2>2. (col * seq_len + p[3]) * MAX_ACT_COL
          = col * MAX_ACT_COL * seq_len + p[3] * MAX_ACT_COL
    BY <1>0, <2>1
  <2>3. p[3] * MAX_ACT_COL \in Nat /\ col * MAX_ACT_COL * seq_len \in Nat
    BY <1>0, <2>1
  <2> QED
    BY <2>1, <2>2, <2>3
<1>3. pendingWords = TodoWords \cup WordsLeft
  BY <1>1, PendingCases
<1>4. pendingWords' = TodoWords \cup
         { p \in WordsLeft : (col * seq_len + p[3]) * MAX_ACT_COL + p[4]
                               >= col * MAX_ACT_COL * seq_len }
  <2>1. "multiply" # "load" /\ "multiply" # "idle"
    OBVIOUS
  <2> QED
    BY <1>1, <2>1 DEF pendingWords, TodoWords, WordsLeft
<1>5. pendingWords' = pendingWords
  BY <1>2, <1>3, <1>4
<1> QED
  BY <1>1, <1>5 DEF MM!vars

LEMMA TransferSimulates ==
    ASSUME RInv, pc = "multiply", NEW word \in [ActLane -> Inputs],
           IsRowWord(word, seq_len, row, i, j), Transfer(word), Draining
    PROVE  MM!Next \/ UNCHANGED MM!vars
<1>0. UNCHANGED <<seq_len, kept, todo, pc, row, col>>
  BY DEF Transfer
<1>1. CASE OutputValid
  <2>1. PICK ii \in 0 .. seq_len - 1, jj \in 0 .. MAX_ACT_COL - 1 :
             /\ outPtr = (col * seq_len + ii) * MAX_ACT_COL + jj
             /\ outPtr' = outPtr + 1
             /\ output' = [output EXCEPT ![outPtr] =
                             addActIn32(@, MM!Contribution(row, col, ii, jj))]
    BY <1>1, TransferAdds DEF RInv
  <2>2. /\ <<row, col, ii, jj>> \in pendingWords
        /\ pendingWords' = pendingWords \ { <<row, col, ii, jj>> }
    BY <1>0, <2>1, TransferPending
  <2>3. outPtr = MM!WordAddr(col, ii, jj)
    BY <2>1, ConfigSame DEF MM!WordAddr
  <2>4. MM!Accumulate(row, col, ii, jj)
    BY <1>0, <2>1, <2>2, <2>3, ConfigSame DEF MM!Accumulate
  <2> QED
    BY <2>2, <2>4 DEF MM!Next
<1>2. CASE ~ OutputValid
  <2>1. UNCHANGED <<output, outPtr>>
    BY <1>2 DEF Transfer, Queue, Stream, Collect
  <2> QED
    BY <1>0, <2>1 DEF MM!vars, pendingWords, WordsLeft
<1> QED
  BY <1>1, <1>2

(* On return the output pointer is at the end of the block. *)
LEMMA ReturnSimulates ==
    ASSUME RInv, Return
    PROVE  UNCHANGED MM!vars
<1>0. /\ col \in Nat /\ seq_len \in Nat /\ MAX_ACT_COL \in Nat /\ MAX_ACT_COL > 0
  BY TypeFacts, ConfigFacts DEF RInv, IInv
<1>1. /\ pc = "multiply" /\ pc' = "idle" /\ AtReturn
      /\ UNCHANGED <<seq_len, kept, todo, output, row, col, outPtr>>
  BY DEF Return
<1>2. outPtr = (col + 1) * seq_len * MAX_ACT_COL
  BY <1>1, IInvPointers DEF RInv, PointersInBlocks
<1>3. ASSUME NEW p \in WordsLeft
      PROVE  ~ ((col * seq_len + p[3]) * MAX_ACT_COL + p[4] >= outPtr)
  <2> DEFINE M == MAX_ACT_COL
             C == col * seq_len
             q == p[3]
  <2>1. q \in Nat /\ q <= seq_len - 1 /\ p[4] \in Nat /\ p[4] < M
    BY <1>0, <1>3, WordsOfCall
  <2>2. C \in Nat /\ (col + 1) * seq_len = C + seq_len
    BY <1>0
  <2>3. (seq_len - 1 - q) * M >= 0
    <3>1. seq_len - 1 - q \in Nat
      BY <1>0, <2>1
    <3> QED
      BY <1>0, <3>1
  <2> HIDE DEF C, q
  <2>4. (seq_len - 1 - q) * M = seq_len * M - M - q * M
    BY <1>0, <2>1
  <2>5. (C + q) * M = C * M + q * M /\ (C + seq_len) * M = C * M + seq_len * M
    BY <1>0, <2>1, <2>2
  <2>6. C * M \in Int /\ q * M \in Int /\ seq_len * M \in Int /\ (C + q) * M \in Int
    BY <1>0, <2>1, <2>2
  <2>7. outPtr = C * M + seq_len * M
    BY <1>2, <2>2, <2>5
  <2>8. (C + q) * M + p[4] < outPtr
    BY <1>0, <2>1, <2>3, <2>4, <2>5, <2>6, <2>7
  <2>9. ~ ((C + q) * M + p[4] >= outPtr)
    BY <2>1, <2>6, <2>7, <2>8
  <2> QED
    BY <2>9 DEF C, q
<1>4. pendingWords = TodoWords
  BY <1>1, <1>3, PendingCases
<1>5. pendingWords' = TodoWords
  BY <1>1 DEF pendingWords, TodoWords
<1> QED
  BY <1>1, <1>4, <1>5 DEF MM!vars

LEMMA StepSimulates ==
    RInv /\ [Next]_vars => [MM!Next]_(MM!vars)
<1> SUFFICES ASSUME RInv, [Next]_vars PROVE MM!Next \/ UNCHANGED MM!vars
  OBVIOUS
<1>1. CASE CallAny
  BY <1>1, CallSimulates DEF CallAny
<1>2. CASE ParamWrite
  BY <1>2, ParamWriteSimulates
<1>3. CASE BeginMultiply
  BY <1>3, BeginSimulates
<1>4. CASE Feed
  <2>1. pc = "multiply" /\ i < seq_len /\ Transfer(InputWord(inPtr))
    BY <1>4 DEF Feed
  <2>2. /\ InputWord(inPtr) \in [ActLane -> Inputs]
        /\ IsRowWord(InputWord(inPtr), seq_len, row, i, j)
    BY <2>1, FeedWord DEF RInv, IInv
  <2>3. Draining
    <3>1. /\ i \in Nat /\ j \in Nat /\ seq_len \in Nat /\ KERNEL_DIM \in Nat
          /\ KERNEL_DIM > 0 /\ MAX_ACT_COL \in Nat
      BY TypeFacts, ConfigFacts DEF RInv, IInv
    <3>2. ~ (i * MAX_ACT_COL + j >= DrainEnd)
      BY <2>1, <3>1, Guards DEF RInv, IInv
    <3>3. i * MAX_ACT_COL + j \in Int /\ DrainEnd \in Int
      BY <3>1 DEF DrainEnd
    <3> QED
      BY <3>2, <3>3 DEF Draining
  <2> QED
    BY <2>1, <2>2, <2>3, TransferSimulates
<1>5. CASE Drain
  <2>1. pc = "multiply" /\ i >= seq_len /\ Transfer(ZeroAct) /\ Draining
    BY <1>5 DEF Drain, Draining
  <2>2. ZeroAct \in [ActLane -> Inputs] /\ IsRowWord(ZeroAct, seq_len, row, i, j)
    BY <2>1, DrainWord DEF RInv, IInv
  <2> QED
    BY <2>1, <2>2, TransferSimulates
<1>6. CASE Return
  BY <1>6, ReturnSimulates
<1>7. CASE UNCHANGED vars
  BY <1>7 DEF vars, MM!vars, pendingWords, WordsLeft
<1> QED
  BY <1>1, <1>2, <1>3, <1>4, <1>5, <1>6, <1>7 DEF Next, Finished

(***************************************************************************)
(* processMultiplication, instruction by instruction on the device that is *)
(* never reset, implements the abstract matrix product: for every          *)
(* dimension, every set of kept tiles and every order of them, each step   *)
(* adds one pending contribution to its own word of the output or changes  *)
(* nothing that can be seen.                                               *)
(***************************************************************************)
THEOREM RefinesMatMul == Spec => ImplementsMatMul
<1>1. Spec => []RInv
  BY InitRInv, StepRInv, PTL DEF Spec
<1> QED
  BY <1>1, InitSimulates, StepSimulates, PTL DEF Spec, ImplementsMatMul, MM!Spec

MP == INSTANCE MatMulProofs WITH pending <- pendingWords

(***************************************************************************)
(* After every instruction, every lane of every output word is the sum of  *)
(* the contributions of the tiles that have reached it, no product         *)
(* missing, doubled or misplaced.                                          *)
(***************************************************************************)
THEOREM ProductIsCorrect == Spec => []ProductCorrect
<1>1. MP!Spec => []MP!SumOfContributions
  <2>1. MP!DimsAssumption
    BY DimsAssumption DEF MP!DimsAssumption
  <2>2. MP!ConfigAssumption
    BY ConfigAssumption
    DEF MP!ConfigAssumption, MP!MAX_ACT_COL, MAX_ACT_COL, MP!MAX_W_COL, MAX_W_COL,
        MP!CEILING_DIV, CEILING_DIV
  <2> QED
    BY <2>1, <2>2, MP!SumCorrect
<1>2. /\ MP!MAX_ACT_COL = MM!MAX_ACT_COL /\ MP!ActLane = MM!ActLane
      /\ MP!Index = MM!Index /\ MP!Tiles = MM!Tiles /\ MP!ZeroAct = MM!ZeroAct
      /\ MP!OutputAddrs = MM!OutputAddrs
  BY DEF MP!MAX_ACT_COL, MM!MAX_ACT_COL, MP!CEILING_DIV, MM!CEILING_DIV,
         MP!ActLane, MM!ActLane, MP!Index, MM!Index, MP!Tiles, MM!Tiles,
         MP!ZeroAct, MM!ZeroAct, MP!Zero, MM!Zero, MP!OutputAddrs, MM!OutputAddrs
<1>3. \A b, m, w : MP!WordAddr(b, m, w) = MM!WordAddr(b, m, w)
  BY <1>2 DEF MP!WordAddr, MM!WordAddr
<1>4. \A b, d, m, c : MP!DotProduct(b, d, m, c) = MM!DotProduct(b, d, m, c)
  BY <1>2 DEF MP!DotProduct, MM!DotProduct, MP!InputSymbol, MM!InputSymbol,
              MP!WeightSymbol, MM!WeightSymbol
<1>5. \A b, d, m, w : MP!Contribution(b, d, m, w) = MM!Contribution(b, d, m, w)
  BY <1>2, <1>4 DEF MP!Contribution, MM!Contribution
<1>6. \A x, y : MP!addActIn32(x, y) = MM!addActIn32(x, y)
  BY <1>2 DEF MP!addActIn32, MM!addActIn32, MP!Plus, MM!Plus, MP!Again, MM!Again
<1>7. MM!Init => MP!Init
  BY <1>2 DEF MM!Init, MP!Init, MP!ContributionsOf, MM!ContributionsOf
<1>8. [MM!Next]_(MM!vars) => [MP!Next]_(MP!vars)
  <2>1. \A b, d, m, w : MM!Accumulate(b, d, m, w) => MP!Accumulate(b, d, m, w)
    BY <1>3, <1>5, <1>6 DEF MP!Accumulate, MM!Accumulate
  <2>2. MP!vars = MM!vars /\ MP!vars' = MM!vars'
    BY DEF MP!vars, MM!vars
  <2> QED
    BY <2>1, <2>2 DEF MP!Next, MM!Next
<1>9. MP!SumOfContributions => ProductCorrect
  BY <1>2, <1>3, <1>4
  DEF MP!SumOfContributions, ProductCorrect, MM!SumOfContributions, MP!Added, MM!Added
<1> QED
  BY <1>1, <1>7, <1>8, <1>9, RefinesMatMul, PTL
  DEF ImplementsMatMul, MM!Spec, MP!Spec

-----------------------------------------------------------------------------
(* Remainders: what wraps around in storeInput and retrieveOutput. *)

LEMMA ModSmall ==
    ASSUME NEW n \in Nat, n > 0, NEW x \in 0 .. n - 1
    PROVE  /\ x % n = x
           /\ (x + n) % n = x
  OBVIOUS

LEMMA ModBelow ==
    ASSUME NEW n \in Nat, n > 0, NEW x \in Int, 0 - n <= x, x < 0
    PROVE  x % n = x + n
  OBVIOUS

(* The two shapes of a build in which the indices agree. *)
LEMMA SameIndexCases ==
    ASSUME SameIndex
    PROVE  \/ ACT_PER_BUS = 1 /\ MAX_ACT_COL = KERNEL_DIM
           \/ MAX_ACT_COL = 1 /\ ACT_PER_BUS = KERNEL_DIM
  BY ConfigFacts DEF SameIndex

(* Both devices put the word into the same cells. *)
LEMMA StoreInputSame ==
    ASSUME SameIndex, NEW w \in 0 .. MAX_ACT_COL - 1, NEW m, NEW val
    PROVE  swStoreInput(m, w, val) = storeInput(m, w, val)
<1> DEFINE K == KERNEL_DIM
<1>0. K \in Nat /\ K > 0
  BY ConfigFacts
<1> SUFFICES ASSUME NEW r \in Index, NEW c \in Index
             PROVE  LET l == (r - w) % K
                        q == r - w * ACT_PER_BUS
                    IN  /\ (l \in ActLane /\ c = (K - (w + l) - 1 + K) % K)
                             <=> (q \in ActLane /\ c = K - r - 1)
                        /\ q \in ActLane => l = q
  BY DEF swStoreInput, storeInput
<1>1. r \in 0 .. K - 1 /\ c \in 0 .. K - 1
  BY DEF Index
<1>2. CASE ACT_PER_BUS = 1 /\ MAX_ACT_COL = K
  <2>1. ActLane = {0} /\ w \in 0 .. K - 1 /\ r - w * ACT_PER_BUS = r - w
    BY <1>0, <1>1, <1>2 DEF ActLane
  <2>2. (r - w) % K = IF r < w THEN r - w + K ELSE r - w
    <3>1. CASE r < w
      BY <1>0, <1>1, <2>1, <3>1, ModBelow
    <3>2. CASE r >= w
      <4>1. r - w \in 0 .. K - 1 /\ ~ (r < w)
        BY <1>0, <1>1, <2>1, <3>2
      <4>2. (r - w) % K = r - w
        BY <1>0, <4>1, ModSmall
      <4> QED
        BY <4>1, <4>2
    <3> QED
      BY <1>0, <1>1, <2>1, <3>1, <3>2
  <2>3. (K - (w + 0) - 1 + K) % K = K - w - 1
    <3>1. K - w - 1 \in 0 .. K - 1 /\ K - (w + 0) - 1 + K = (K - w - 1) + K
      BY <1>0, <2>1
    <3> QED
      BY <1>0, <3>1, ModSmall
  <2> QED
    BY <1>0, <1>1, <2>1, <2>2, <2>3
<1>3. CASE MAX_ACT_COL = 1 /\ ACT_PER_BUS = K
  <2>1. ActLane = 0 .. K - 1 /\ w = 0 /\ r - w * ACT_PER_BUS = r
    BY <1>0, <1>1, <1>3 DEF ActLane
  <2>2. (r - w) % K = r
    BY <1>0, <1>1, <2>1, ModSmall
  <2>3. (K - (w + r) - 1 + K) % K = K - r - 1
    <3>1. K - r - 1 \in 0 .. K - 1 /\ K - (w + r) - 1 + K = (K - r - 1) + K
      BY <1>0, <1>1, <2>1
    <3> QED
      BY <1>0, <3>1, ModSmall
  <2> QED
    BY <1>1, <2>1, <2>2, <2>3
<1> QED
  BY <1>2, <1>3, SameIndexCases

(* Both devices return the word behind the current one. *)
LEMMA RetrieveSame ==
    ASSUME SameIndex, NEW w \in 0 .. MAX_ACT_COL - 1, NEW t
    PROVE  retrieveOutput(t, w) = outputWord(t, (w + 1) % MAX_ACT_COL)
<1> DEFINE K == KERNEL_DIM
           x == (w + ACT_PER_BUS) % K
           y == ((w + 1) % MAX_ACT_COL) * ACT_PER_BUS
<1>0. K \in Nat /\ K > 0 /\ ACT_PER_BUS \in Nat /\ ACT_PER_BUS > 0
  BY ConfigFacts
<1>1. x = y /\ x \in Nat /\ \A l \in ActLane : x + l \in 0 .. K - 1
  <2>1. CASE ACT_PER_BUS = 1 /\ MAX_ACT_COL = K
    <3>1. ActLane = {0} /\ (w + 1) % K \in 0 .. K - 1
      BY <1>0, <2>1 DEF ActLane
    <3> QED
      BY <1>0, <2>1, <3>1
  <2>2. CASE MAX_ACT_COL = 1 /\ ACT_PER_BUS = K
    <3>1. w = 0 /\ ActLane = 0 .. K - 1
      BY <1>0, <2>2 DEF ActLane
    <3>2. K % K = 0 /\ 1 % 1 = 0
      BY <1>0
    <3> QED
      BY <1>0, <2>2, <3>1, <3>2
  <2> QED
    BY <2>1, <2>2, SameIndexCases
<1> HIDE DEF x, y
<1> SUFFICES ASSUME NEW l \in ActLane
             PROVE  /\ (K - x - l - 1 + K) % K = K - (y + l) - 1
                    /\ (x + l) % K = y + l
  BY DEF retrieveOutput, outputWord, x, y
<1>2. l \in Nat
  BY <1>0 DEF ActLane
<1>3. (x + l) % K = x + l
  BY <1>0, <1>1, ModSmall
<1>4. K - (x + l) - 1 \in 0 .. K - 1 /\ K - x - l - 1 + K = (K - (x + l) - 1) + K
  BY <1>0, <1>1, <1>2
<1> QED
  BY <1>0, <1>1, <1>3, <1>4, ModSmall

(* The queue and stream instructions of the two devices. *)
LEMMA DeviceSame ==
    ASSUME SameIndex, NEW w \in 0 .. MAX_ACT_COL - 1, NEW t \in TileType, NEW val
    PROVE  /\ swInputQueue(t, w, val) = inputQueue(t, w, val)
           /\ w = MAX_ACT_COL - 1 => swStreamInOut(t, w, val) = streamInOut(t, val)
<1>1. swInputQueue(t, w, val) = inputQueue(t, w, val)
  <2> DEFINE waiting == storeInput(t.inWaiting, w, val)
  <2>1. swInputQueue(t, w, val) = [t EXCEPT !.inWaiting = waiting]
    BY StoreInputSame DEF swInputQueue
  <2>2. inputQueue(t, w, val) =
          [weights |-> t.weights, inputMemory |-> t.inputMemory,
           outputMemory |-> t.outputMemory, inWaiting |-> waiting,
           outWaiting |-> t.outWaiting, non_zero_tile |-> t.non_zero_tile]
    BY DEF inputQueue
  <2> HIDE DEF waiting
  <2> QED
    BY <2>1, <2>2 DEF TileType
<1>2. ASSUME w = MAX_ACT_COL - 1
      PROVE  swStreamInOut(t, w, val) = streamInOut(t, val)
  <2> DEFINE waiting == storeInput(t.inWaiting, MAX_ACT_COL - 1, val)
             inputs  == enterArray(t.inputMemory, waiting)
             sums    == multiplyAccumulate(t.outputMemory, inputs, t.weights)
             right   == shiftRight(inputs)
             wright  == shiftRight(waiting)
             down    == shiftDown(t.outWaiting, sums[KERNEL_DIM])
  <2>1. swStoreInput(t.inWaiting, w, val) = waiting
    BY <1>2, StoreInputSame
  <2>2. swStreamInOut(t, w, val) =
          [t EXCEPT !.inputMemory = right, !.outputMemory = sums,
                    !.inWaiting = wright, !.outWaiting = down,
                    !.non_zero_tile = FALSE]
    BY <2>1 DEF swStreamInOut
  <2>3. streamInOut(t, val) =
          [weights |-> t.weights, inputMemory |-> right, outputMemory |-> sums,
           inWaiting |-> wright, outWaiting |-> down, non_zero_tile |-> FALSE]
    BY DEF streamInOut
  <2> HIDE DEF waiting, inputs, sums, right, wright, down
  <2> QED
    BY <2>2, <2>3 DEF TileType
<1> QED
  BY <1>1, <1>2

-----------------------------------------------------------------------------
(* The inductive invariant: the devices and the buffers are equal. *)

InStep == SameIndex => swTile = tile /\ swOutput = output

SwIInv == IInv /\ InStep

LEMMA SwStepIsStep == [SwNext]_swVars => [Next]_vars
  BY DEF SwNext, swVars, SwParamWrite, SwFeed, SwDrain, SwControl, Next

LEMMA InitSwIInv == SwInit => SwIInv
  BY InitIInv DEF SwInit, SwIInv, InStep, Init

LEMMA TransferInStep ==
    ASSUME IInv, InStep, SameIndex, NEW word, Transfer(word), SwTransfer(word)
    PROVE  swTile' = tile' /\ swOutput' = output'
<1>0. /\ tile \in TileType /\ j \in 0 .. MAX_ACT_COL - 1
      /\ swTile = tile /\ swOutput = output
      /\ MAX_ACT_COL \in Nat /\ MAX_ACT_COL > 0
  BY ConfigFacts DEF IInv, TypeOK, InStep
<1>1. CASE Queue(word)
  <2>1. j # MAX_ACT_COL - 1 /\ tile' = inputQueue(tile, j, word)
        /\ Collect(inputQueueResult(tile', j))
    BY <1>1 DEF Queue
  <2>2. swTile' = tile'
    BY <1>0, <2>1, DeviceSame DEF SwTransfer
  <2>3. retrieveOutput(swTile', j) = inputQueueResult(tile', j)
    BY <1>0, <2>2, RetrieveSame DEF inputQueueResult
  <2> QED
    BY <1>0, <2>1, <2>2, <2>3 DEF SwTransfer, Collect
<1>2. CASE Stream(word)
  <2>1. j = MAX_ACT_COL - 1 /\ tile' = streamInOut(tile, word)
        /\ Collect(streamInOutResult(tile'))
    BY <1>2 DEF Stream
  <2>2. swTile' = tile'
    BY <1>0, <2>1, DeviceSame DEF SwTransfer
  <2>3. (j + 1) % MAX_ACT_COL = 0
    BY <1>0, <2>1
  <2>4. retrieveOutput(swTile', j) = streamInOutResult(tile')
    BY <1>0, <2>2, <2>3, RetrieveSame DEF streamInOutResult
  <2> QED
    BY <1>0, <2>1, <2>2, <2>4 DEF SwTransfer, Collect
<1> QED
  BY <1>1, <1>2 DEF Transfer

LEMMA StepSwIInv == SwIInv /\ [SwNext]_swVars => SwIInv'
<1> SUFFICES ASSUME SwIInv, [SwNext]_swVars, SameIndex
             PROVE  swTile' = tile' /\ swOutput' = output'
  BY StepIInv, SwStepIsStep DEF SwIInv, InStep, SameIndex
<1>0. IInv /\ InStep /\ swTile = tile /\ swOutput = output
  BY DEF SwIInv, InStep
<1>1. CASE SwParamWrite
  BY <1>0, <1>1 DEF SwParamWrite, ParamWrite
<1>2. CASE SwFeed
  BY <1>0, <1>2, TransferInStep DEF SwFeed, Feed
<1>3. CASE SwDrain
  BY <1>0, <1>3, TransferInStep DEF SwDrain, Drain
<1>4. CASE SwControl
  BY <1>0, <1>4 DEF SwControl, CallAny, Call, BeginMultiply, Return, Finished, vars
<1>5. CASE UNCHANGED swVars
  BY <1>0, <1>5 DEF swVars, vars
<1> QED
  BY <1>1, <1>2, <1>3, <1>4, <1>5 DEF SwNext

(***************************************************************************)
(* DEVELOP and gem5 builds fill the same output buffer, word for word at   *)
(* every instruction, for every tile size, sequence length and set of kept *)
(* tiles, when a word has one activation or a row one word: although       *)
(* processMultiplication passes a word number where storeInput and         *)
(* retrieveOutput of the software model take the index of an element.      *)
(***************************************************************************)
THEOREM DevelopCorrect == SwSpec => []DevelopAgrees
<1>1. SwIInv => DevelopAgrees
  BY DEF SwIInv, InStep, DevelopAgrees
<1> QED
  BY <1>1, InitSwIInv, StepSwIInv, PTL DEF SwSpec

(***************************************************************************)
(* The two builds in step are a run of the gem5 build: the software model  *)
(* never restrains the driver, so what is proved of processMultiplication  *)
(* holds of its DEVELOP build too.                                         *)
(***************************************************************************)
THEOREM DevelopRunsDriver == SwSpec => Spec
<1>1. SwInit => Init
  BY DEF SwInit
<1> QED
  BY <1>1, SwStepIsStep, PTL DEF SwSpec, Spec
=============================================================================
