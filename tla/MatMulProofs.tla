---------------------------- MODULE MatMulProofs ----------------------------
(***************************************************************************)
(* The abstract matrix product keeps its promise: the output is the sum of *)
(* the contributions added so far, each of them once.                      *)
(***************************************************************************)
EXTENDS MatMul, ConfigProofs

(* The inductive invariant. *)
MInv ==
    /\ seq_len \in Nat \ {0}
    /\ kept \subseteq Tiles
    /\ DOMAIN output = OutputAddrs
    /\ pending \subseteq ContributionsOf(kept)
    /\ SumOfContributions

(* Words of the output buffer are in it, and are told apart by their       *)
(* block, row and position.                                                *)
LEMMA WordAddrInBuffer ==
    ASSUME seq_len \in Nat \ {0},
           NEW c \in 0 .. ColTiles - 1, NEW i \in 0 .. seq_len - 1,
           NEW j \in 0 .. MAX_ACT_COL - 1
    PROVE  WordAddr(c, i, j) \in OutputAddrs
<1> DEFINE M == MAX_ACT_COL
           R == c * seq_len + i
           E == ColTiles * seq_len
<1>0. M \in Nat /\ M > 0 /\ c \in Nat /\ i \in Nat /\ j \in Nat /\ seq_len \in Nat
      /\ ColTiles \in Nat
  BY ConfigFacts, DimsAssumption
<1>1. R \in Nat /\ E \in Nat
  BY <1>0
<1>2. R + 1 <= E
  <2>1. (ColTiles - 1 - c) * seq_len >= 0
    <3>1. ColTiles - 1 - c \in Nat
      BY <1>0
    <3> QED
      BY <1>0, <3>1
  <2>2. (ColTiles - 1 - c) * seq_len = E - seq_len - c * seq_len
    BY <1>0
  <2>3. c * seq_len \in Int
    BY <1>0
  <2> QED
    BY <1>0, <1>1, <2>1, <2>2, <2>3
<1> HIDE DEF R, E
<1>3. R * M + M <= E * M
  <2>1. (E - R - 1) * M >= 0
    <3>1. E - R - 1 \in Nat
      BY <1>1, <1>2
    <3> QED
      BY <1>0, <3>1
  <2>2. (E - R - 1) * M = E * M - R * M - M
    BY <1>0, <1>1
  <2>3. E * M \in Int /\ R * M \in Int
    BY <1>0, <1>1
  <2> QED
    BY <1>0, <2>1, <2>2, <2>3
<1>4. R * M \in Nat /\ E * M \in Nat
  BY <1>0, <1>1
<1>5. R * M + j \in 0 .. E * M - 1
  BY <1>0, <1>3, <1>4
<1> QED
  BY <1>5 DEF WordAddr, OutputAddrs, R, E

LEMMA WordAddrInjective ==
    ASSUME seq_len \in Nat \ {0},
           NEW c1 \in 0 .. ColTiles - 1, NEW i1 \in 0 .. seq_len - 1,
           NEW j1 \in 0 .. MAX_ACT_COL - 1,
           NEW c2 \in 0 .. ColTiles - 1, NEW i2 \in 0 .. seq_len - 1,
           NEW j2 \in 0 .. MAX_ACT_COL - 1,
           WordAddr(c1, i1, j1) = WordAddr(c2, i2, j2)
    PROVE  c1 = c2 /\ i1 = i2 /\ j1 = j2
<1>0. /\ c1 \in Int /\ c2 \in Int /\ i1 \in Int /\ i2 \in Int
      /\ seq_len \in Int /\ seq_len > 0
      /\ 0 <= i1 /\ i1 < seq_len /\ 0 <= i2 /\ i2 < seq_len
  BY DimsAssumption
<1> DEFINE R1 == c1 * seq_len + i1
           R2 == c2 * seq_len + i2
<1>1. R1 \in Int /\ R2 \in Int
  BY <1>0
<1>2. R1 * MAX_ACT_COL + j1 = R2 * MAX_ACT_COL + j2
  BY DEF WordAddr
<1>3. R1 = R2 /\ j1 = j2
  <2> HIDE DEF R1, R2
  <2> QED
    BY <1>1, <1>2, LexEqual
<1>4. \A e, f \in Int : e < f => e * seq_len + seq_len <= f * seq_len
  <2> SUFFICES ASSUME NEW e \in Int, NEW f \in Int, e < f
               PROVE  e * seq_len + seq_len <= f * seq_len
    OBVIOUS
  <2>1. (f - e - 1) * seq_len >= 0
    BY <1>0
  <2>2. (f - e - 1) * seq_len = f * seq_len - e * seq_len - seq_len
    BY <1>0
  <2>3. f * seq_len \in Int /\ e * seq_len \in Int
    BY <1>0
  <2> QED
    BY <1>0, <2>1, <2>2, <2>3
<1>5. c1 * seq_len \in Int /\ c2 * seq_len \in Int
  BY <1>0
<1>6. ~ (c1 < c2) /\ ~ (c2 < c1)
  BY <1>0, <1>3, <1>4, <1>5
<1>7. c1 = c2
  BY <1>0, <1>6
<1> QED
  BY <1>0, <1>3, <1>5, <1>7

LEMMA InitMInv == Init => MInv
<1> SUFFICES ASSUME Init PROVE MInv
  OBVIOUS
<1>1. \A c, i, j : \A r \in 0 .. RowTiles - 1 :
         i \in 0 .. seq_len - 1 /\ j \in 0 .. MAX_ACT_COL - 1 /\ <<r, c>> \in kept
           => <<r, c, i, j>> \in pending
  <2> SUFFICES ASSUME NEW c, NEW i \in 0 .. seq_len - 1,
                      NEW j \in 0 .. MAX_ACT_COL - 1,
                      NEW r \in 0 .. RowTiles - 1, <<r, c>> \in kept
               PROVE  <<r, c, i, j>> \in pending
    OBVIOUS
  <2>1. <<r, c>>[1] = r /\ <<r, c>>[2] = c
    OBVIOUS
  <2> QED
    BY <2>1 DEF Init, ContributionsOf
<1>2. \A c, i, j : i \in 0 .. seq_len - 1 /\ j \in 0 .. MAX_ACT_COL - 1
         => Added(c, i, j) = {}
  BY <1>1 DEF Added
<1>3. SumOfContributions
  <2> SUFFICES ASSUME NEW c \in 0 .. ColTiles - 1, NEW i \in 0 .. seq_len - 1,
                      NEW j \in 0 .. MAX_ACT_COL - 1, NEW l \in ActLane
               PROVE  output[WordAddr(c, i, j)][l] = {}
    BY <1>2 DEF SumOfContributions
  <2>1. WordAddr(c, i, j) \in OutputAddrs
    BY WordAddrInBuffer, DimsAssumption DEF Init
  <2> QED
    BY <2>1 DEF Init, ZeroAct, Zero
<1> QED
  BY <1>3, DimsAssumption DEF Init, MInv

(* A contribution shares no product with those of other tiles. *)
LEMMA ContributionsDisjoint ==
    ASSUME NEW r, NEW q, r # q, NEW c, NEW i, NEW cc
    PROVE  DotProduct(r, c, i, cc) \cap DotProduct(q, c, i, cc) = {}
<1> SUFFICES ASSUME NEW m \in DotProduct(r, c, i, cc), m \in DotProduct(q, c, i, cc)
             PROVE  FALSE
  OBVIOUS
<1>1. m[2][1] = r
  BY DEF DotProduct, WeightSymbol
<1>2. m[2][1] = q
  BY DEF DotProduct, WeightSymbol
<1> QED
  BY <1>1, <1>2

LEMMA StepMInv == MInv /\ [Next]_vars => MInv'
<1> SUFFICES ASSUME MInv, [Next]_vars PROVE MInv'
  OBVIOUS
<1>1. CASE UNCHANGED vars
  <2>1. seq_len' = seq_len /\ kept' = kept /\ output' = output /\ pending' = pending
    BY <1>1 DEF vars
  <2>2. SumOfContributions'
    <3>1. \A c, i, j : Added(c, i, j)' = Added(c, i, j)
      BY <2>1 DEF Added
    <3>2. \A c, i, j : WordAddr(c, i, j)' = WordAddr(c, i, j)
      BY <2>1 DEF WordAddr
    <3>3. \A r, c, i, cc : DotProduct(r, c, i, cc)' = DotProduct(r, c, i, cc)
      BY <2>1 DEF DotProduct, InputSymbol
    <3> QED
      BY <2>1, <3>1, <3>2, <3>3 DEF MInv, SumOfContributions
  <2>3. (DOMAIN output = OutputAddrs /\ pending \subseteq ContributionsOf(kept))'
    BY <2>1 DEF MInv, OutputAddrs, ContributionsOf
  <2> QED
    BY <2>1, <2>2, <2>3 DEF MInv
<1>2. ASSUME NEW p \in pending, Accumulate(p[1], p[2], p[3], p[4])
      PROVE  MInv'
  <2> DEFINE r == p[1]
             c == p[2]
             i == p[3]
             j == p[4]
             a == WordAddr(c, i, j)
  <2>1. /\ p = <<r, c, i, j>> /\ <<r, c>> \in kept
        /\ r \in 0 .. RowTiles - 1 /\ c \in 0 .. ColTiles - 1
        /\ i \in 0 .. seq_len - 1 /\ j \in 0 .. MAX_ACT_COL - 1
    <3>1. PICK t \in kept, ii \in 0 .. seq_len - 1, jj \in 0 .. MAX_ACT_COL - 1 :
             p = <<t[1], t[2], ii, jj>>
      BY DEF MInv, ContributionsOf
    <3>2. t = <<t[1], t[2]>> /\ t[1] \in 0 .. RowTiles - 1 /\ t[2] \in 0 .. ColTiles - 1
      BY DEF MInv, Tiles
    <3> QED
      BY <3>1, <3>2
  <2>2. /\ output' = [output EXCEPT ![a] = addActIn32(output[a], Contribution(r, c, i, j))]
        /\ pending' = pending \ { p }
        /\ seq_len' = seq_len /\ kept' = kept
    BY <1>2, <2>1 DEF Accumulate
  <2> HIDE DEF r, c, i, j
  <2>3. seq_len \in Nat \ {0}
    BY DEF MInv
  <2>4. a \in OutputAddrs
    BY <2>1, <2>3, WordAddrInBuffer
  <2> HIDE DEF a
  <2>5. SumOfContributions'
    <3> SUFFICES ASSUME NEW d \in 0 .. ColTiles - 1, NEW m \in 0 .. seq_len - 1,
                        NEW n \in 0 .. MAX_ACT_COL - 1, NEW l \in ActLane
                 PROVE  output'[WordAddr(d, m, n)][l] =
                          UNION { DotProduct(q, d, m, n * ACT_PER_BUS + l) :
                                    q \in Added(d, m, n)' }
      BY <2>2 DEF SumOfContributions, WordAddr, DotProduct, InputSymbol
    <3>1. output[WordAddr(d, m, n)][l] =
            UNION { DotProduct(q, d, m, n * ACT_PER_BUS + l) : q \in Added(d, m, n) }
      BY DEF MInv, SumOfContributions
    <3>2. CASE d = c /\ m = i /\ n = j
      <4>1. WordAddr(d, m, n) = a
        BY <3>2 DEF a
      <4>2. output'[a][l] = Plus(output[a][l], DotProduct(r, c, i, j * ACT_PER_BUS + l))
        BY <2>2, <2>4 DEF MInv, addActIn32, Contribution
      <4>3. r \notin Added(c, i, j)
        BY <2>1 DEF Added
      <4>4. Added(c, i, j)' = Added(c, i, j) \cup { r }
        BY <2>1, <2>2 DEF Added
      <4> DEFINE D(q) == DotProduct(q, c, i, j * ACT_PER_BUS + l)
                 S    == Added(c, i, j)
      <4>5. \A q \in S : D(q) \cap D(r) = {}
        BY <4>3, ContributionsDisjoint
      <4>6. output[a][l] = UNION { D(q) : q \in S }
        BY <3>1, <3>2, <4>1
      <4> HIDE DEF D, S
      <4>7. Plus(UNION { D(q) : q \in S }, D(r)) = UNION { D(q) : q \in S \cup { r } }
        BY <4>5 DEF Plus
      <4> QED
        BY <3>2, <4>1, <4>2, <4>4, <4>6, <4>7 DEF D, S
    <3>3. CASE ~ (d = c /\ m = i /\ n = j)
      <4>1. WordAddr(d, m, n) # a
        BY <2>1, <2>3, <3>3, WordAddrInjective DEF a
      <4>2. output'[WordAddr(d, m, n)] = output[WordAddr(d, m, n)]
        <5>1. WordAddr(d, m, n) \in OutputAddrs
          BY <2>3, WordAddrInBuffer
        <5> QED
          BY <2>2, <4>1, <5>1 DEF MInv
      <4>3. Added(d, m, n)' = Added(d, m, n)
        <5>1. \A q : <<q, d, m, n>> # p
          BY <2>1, <3>3
        <5> QED
          BY <2>2, <5>1 DEF Added
      <4> QED
        BY <3>1, <4>2, <4>3
    <3> QED
      BY <3>2, <3>3
  <2>6. (DOMAIN output = OutputAddrs)'
    BY <2>2 DEF MInv, OutputAddrs
  <2>7. (pending \subseteq ContributionsOf(kept))'
    BY <2>2 DEF MInv, ContributionsOf
  <2> QED
    BY <2>2, <2>5, <2>6, <2>7 DEF MInv, Tiles
<1> QED
  BY <1>1, <1>2 DEF Next

(***************************************************************************)
(* Whatever tiles are kept and in whatever order the contributions come,   *)
(* the output of the abstract product is their sum, no product missing,    *)
(* doubled or misplaced.                                                   *)
(***************************************************************************)
THEOREM SumCorrect == Spec => []SumOfContributions
<1>1. MInv => SumOfContributions
  BY DEF MInv
<1> QED
  BY <1>1, InitMInv, StepMInv, PTL DEF Spec
=============================================================================
