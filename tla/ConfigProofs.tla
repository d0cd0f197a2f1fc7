---------------------------- MODULE ConfigProofs ----------------------------
(***************************************************************************)
(* Arithmetic facts about the build parameters and about linear indices,   *)
(* used by the other proof modules.                                        *)
(***************************************************************************)
EXTENDS TicSatConfig, TLAPS

(* The parameters are positive numbers: a row of a tile fills its words.   *)
LEMMA ConfigFacts ==
    /\ KERNEL_DIM \in Nat /\ KERNEL_DIM > 0
    /\ ACT_PER_BUS \in Nat /\ ACT_PER_BUS > 0
    /\ W_PER_BUS \in Nat /\ W_PER_BUS > 0
    /\ MAX_ACT_COL \in Nat /\ MAX_ACT_COL > 0
    /\ MAX_W_COL \in Nat /\ MAX_W_COL > 0
    /\ MAX_ACT_COL * ACT_PER_BUS = KERNEL_DIM
    /\ MAX_W_COL * W_PER_BUS = KERNEL_DIM
<1>1. MAX_ACT_COL \in Int /\ MAX_W_COL \in Int
  BY ConfigAssumption DEF MAX_ACT_COL, MAX_W_COL, CEILING_DIV
<1>2. \A a, b, n \in Int : a * b = n /\ n > 0 /\ b > 0 => a > 0
  OBVIOUS
<1> QED
  BY <1>1, <1>2, ConfigAssumption

(* Rows and words of a row are ordered as the linear index of the code's   *)
(* loops orders them: row * MAX_ACT_COL + word.                            *)
LEMMA LexOrder ==
    ASSUME NEW a \in Int, NEW b \in Int,
           NEW x \in 0 .. MAX_ACT_COL - 1, NEW y \in 0 .. MAX_ACT_COL - 1
    PROVE  a * MAX_ACT_COL + x <= b * MAX_ACT_COL + y
             <=> a < b \/ (a = b /\ x <= y)
<1> DEFINE M == MAX_ACT_COL
<1>0. M \in Nat /\ M > 0 /\ x \in Int /\ y \in Int
      /\ 0 <= x /\ x < M /\ 0 <= y /\ y < M
  BY ConfigFacts
<1>1. \A e, f \in Int : e < f => e * M + M <= f * M
  <2> SUFFICES ASSUME NEW e \in Int, NEW f \in Int, e < f
               PROVE  e * M + M <= f * M
    OBVIOUS
  <2>1. (f - e - 1) * M >= 0
    BY <1>0
  <2>2. (f - e - 1) * M = f * M - e * M - M
    BY <1>0
  <2> QED
    BY <1>0, <2>1, <2>2
<1>2. \A e \in Int : e * M \in Int
  BY <1>0
<1> HIDE DEF M
<1>3. CASE a < b
  BY <1>0, <1>1, <1>2, <1>3 DEF M
<1>4. CASE b < a
  BY <1>0, <1>1, <1>2, <1>4 DEF M
<1>5. CASE a = b
  BY <1>0, <1>2, <1>5 DEF M
<1> QED
  BY <1>3, <1>4, <1>5

(* Two words of a buffer at the same linear index are the same word. *)
LEMMA LexEqual ==
    ASSUME NEW a \in Int, NEW b \in Int,
           NEW x \in 0 .. MAX_ACT_COL - 1, NEW y \in 0 .. MAX_ACT_COL - 1,
           a * MAX_ACT_COL + x = b * MAX_ACT_COL + y
    PROVE  a = b /\ x = y
<1>0. x \in Int /\ y \in Int /\ a * MAX_ACT_COL + x \in Int
  BY ConfigFacts
<1>1. a < b \/ (a = b /\ x <= y)
  BY <1>0, LexOrder
<1>2. b < a \/ (b = a /\ y <= x)
  BY <1>0, LexOrder
<1> QED
  BY <1>0, <1>1, <1>2

(* Multiples of a number. *)
LEMMA Multiples ==
    ASSUME NEW n \in Nat, NEW a \in Nat, NEW b \in Nat
    PROVE  /\ a * n \in Nat
           /\ (a + 1) * n = a * n + n
           /\ 0 * n = 0
           /\ a <= b => a * n <= b * n
           /\ a < b => a * n + n <= b * n
<1>1. a * n \in Nat /\ b * n \in Nat /\ (a + 1) * n = a * n + n /\ 0 * n = 0
  OBVIOUS
<1>2. ASSUME a <= b
      PROVE  a * n <= b * n
  <2>1. b - a \in Nat
    BY <1>2
  <2>2. (b - a) * n \in Nat
    BY <2>1
  <2>3. (b - a) * n = b * n - a * n
    OBVIOUS
  <2> QED
    BY <1>1, <2>2, <2>3
<1>3. ASSUME a < b
      PROVE  a * n + n <= b * n
  <2>1. b - a - 1 \in Nat
    BY <1>3
  <2>2. (b - a - 1) * n \in Nat
    BY <2>1
  <2>3. (b - a - 1) * n = b * n - a * n - n
    OBVIOUS
  <2> QED
    BY <1>1, <2>2, <2>3
<1> QED
  BY <1>1, <1>2, <1>3

(* Places in lines of length n are ordered as their linear index is. *)
LEMMA LineOrder ==
    ASSUME NEW n \in Nat, NEW a \in Nat, NEW b \in Nat,
           NEW x \in 0 .. n - 1, NEW y \in 0 .. n - 1
    PROVE  /\ a * n + x < b * n + y <=> a < b \/ (a = b /\ x < y)
           /\ a * n + x = b * n + y <=> a = b /\ x = y
<1>1. a * n \in Nat /\ b * n \in Nat /\ x \in Nat /\ y \in Nat /\ x < n /\ y < n
  BY Multiples
<1>2. CASE a < b
  <2>1. a * n + n <= b * n
    BY <1>2, Multiples
  <2> QED
    BY <1>1, <1>2, <2>1
<1>3. CASE b < a
  <2>1. b * n + n <= a * n
    BY <1>3, Multiples
  <2> QED
    BY <1>1, <1>3, <2>1
<1>4. CASE a = b
  BY <1>1, <1>4
<1> QED
  BY <1>2, <1>3, <1>4

(* Quotient and remainder of a linear index. *)
LEMMA DivMod ==
    ASSUME NEW n \in Nat, NEW a \in Nat, NEW x \in 0 .. n - 1
    PROVE  (a * n + x) \div n = a /\ (a * n + x) % n = x
<1> DEFINE s == a * n + x
           q == s \div n
           m == s % n
<1>1. n > 0 /\ x \in Nat /\ x < n /\ a * n \in Nat /\ s \in Nat
  BY Multiples
<1>2. q \in Nat /\ m \in 0 .. n - 1 /\ s = q * n + m
  <2> HIDE DEF s
  <2>1. q \in Int /\ m \in 0 .. n - 1 /\ s = q * n + m
    BY <1>1
  <2>2. q >= 0
    BY <1>1
  <2> QED
    BY <2>1, <2>2
<1> HIDE DEF q, m
<1>3. a * n + x = q * n + m
  BY <1>2
<1>4. a = q /\ x = m
  BY <1>2, <1>3, LineOrder
<1> QED
  BY <1>4 DEF q, m

(* Every number has one. *)
LEMMA HasPlace ==
    ASSUME NEW n \in Nat, n > 0, NEW s \in Nat
    PROVE  \E a \in Nat, x \in 0 .. n - 1 : s = a * n + x
<1>1. s \div n \in Nat /\ s % n \in 0 .. n - 1 /\ s = (s \div n) * n + (s % n)
  <2>1. s \div n \in Int /\ s % n \in 0 .. n - 1 /\ s = (s \div n) * n + (s % n)
    OBVIOUS
  <2>2. s \div n >= 0
    OBVIOUS
  <2> QED
    BY <2>1, <2>2
<1> QED
  BY <1>1
=============================================================================
