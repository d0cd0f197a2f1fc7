----------------------- MODULE TransformerBlockProofs -----------------------
(***************************************************************************)
(* The layers of a block, for every shape of the model, every tile size    *)
(* and every number of runs.                                               *)
(*                                                                         *)
(* The program has one thread and its buffers are new in each run, so what *)
(* they hold is a function of the shape, the next call and the head it is  *)
(* for.  The invariant gives that function; the work is in the layout: the *)
(* address of an element in column blocks determines its row and column,   *)
(* and the addresses the layers compute, each with a formula of its own,   *)
(* are addresses of that layout.                                           *)
(***************************************************************************)
EXTENDS TransformerBlock, ConfigProofs

-----------------------------------------------------------------------------
(* The layout of a matrix of s rows. *)

Pos(s, i, k) == ((k \div K) * s + i) * K + (k % K)
Row(s, a)    == (a \div K) % s
Col(s, a)    == (a \div (s * K)) * K + (a % K)

(* The dimensions: whole tiles. *)
Dims == { t * K : t \in Nat \ {0} }

LEMMA DimFacts ==
    ASSUME NEW w \in Dims
    PROVE  w \in Nat /\ w > 0
<1>1. PICK t \in Nat \ {0} : w = t * K
  BY DEF Dims
<1>2. K \in Nat /\ K > 0
  BY ConfigFacts DEF K
<1>3. \A a, b \in Nat : a > 0 /\ b > 0 => a * b \in Nat /\ a * b > 0
  OBVIOUS
<1> QED
  BY <1>1, <1>2, <1>3

(* A column in its block. *)
LEMMA BlockFacts ==
    ASSUME NEW t \in Nat, NEW c \in 0 .. t * K - 1
    PROVE  /\ c \in Nat /\ c \div K \in 0 .. t - 1 /\ c % K \in 0 .. K - 1
           /\ c = (c \div K) * K + (c % K)
<1>1. K \in Nat /\ K > 0 /\ t * K \in Nat
  BY ConfigFacts, Multiples DEF K
<1>2. c \in Nat /\ c < t * K
  BY <1>1
<1>3. PICK u \in Nat, x \in 0 .. K - 1 : c = u * K + x
  BY <1>1, <1>2, HasPlace
<1>4. c \div K = u /\ c % K = x
  BY <1>1, <1>3, DivMod
<1>5. u < t
  <2>1. SUFFICES ASSUME t <= u PROVE FALSE
    BY <1>3
  <2>2. t * K <= u * K
    BY <1>1, <2>1, Multiples
  <2> QED
    BY <1>1, <1>2, <1>3, <2>2, Multiples
<1> QED
  BY <1>2, <1>3, <1>4, <1>5

(* An address determines the row and the column it was computed from. *)
LEMMA PosFacts ==
    ASSUME NEW s \in Nat, s > 0, NEW w \in Dims,
           NEW i \in 0 .. s - 1, NEW c \in 0 .. w - 1
    PROVE  /\ Pos(s, i, c) \in 0 .. s * w - 1
           /\ Row(s, Pos(s, i, c)) = i
           /\ Col(s, Pos(s, i, c)) = c
<1>0. PICK t \in Nat \ {0} : w = t * K
  BY DEF Dims
<1> DEFINE u == c \div K
           x == c % K
<1>1. K \in Nat /\ K > 0 /\ i \in Nat /\ i < s
  BY ConfigFacts DEF K
<1>2. u \in 0 .. t - 1 /\ x \in 0 .. K - 1 /\ c = u * K + x /\ u \in Nat /\ x \in Nat
  BY <1>0, <1>1, BlockFacts
<1> HIDE DEF u, x
<1>3. u * s \in Nat /\ u * s + i \in Nat /\ s * K \in Nat /\ i * K \in Nat
  BY <1>1, <1>2, Multiples
<1>4. Pos(s, i, c) = (u * s + i) * K + x
  BY DEF Pos, u, x
<1>5. Pos(s, i, c) \div K = u * s + i /\ Pos(s, i, c) % K = x
  <2>1. ((u * s + i) * K + x) \div K = u * s + i /\ ((u * s + i) * K + x) % K = x
    <3>1. \A v \in Nat : (v * K + x) \div K = v /\ (v * K + x) % K = x
      BY <1>1, <1>2, DivMod
    <3> QED
      BY <1>3, <3>1
  <2> QED
    BY <1>4, <2>1
<1>6. (u * s + i) % s = i
  BY <1>2, DivMod
<1>7. i * K + K <= s * K
  BY <1>1, Multiples
<1>8. i * K + x \in 0 .. s * K - 1
  BY <1>1, <1>2, <1>3, <1>7
<1>9. (u * s + i) * K + x = u * (s * K) + (i * K + x)
  BY <1>1, <1>2, <1>3
<1>10. Pos(s, i, c) \div (s * K) = u
  <2> HIDE DEF Pos
  <2>1. \A n \in Nat : \A y \in 0 .. n - 1 : (u * n + y) \div n = u
    BY <1>2, DivMod
  <2>2. (u * (s * K) + (i * K + x)) \div (s * K) = u
    <3> DEFINE n == s * K
               y == i * K + x
    <3>1. n \in Nat /\ y \in 0 .. n - 1
      BY <1>3, <1>8
    <3> HIDE DEF n, y
    <3>2. (u * n + y) \div n = u
      BY <2>1, <3>1
    <3> QED
      BY <3>2 DEF n, y
  <2> QED
    BY <1>4, <1>9, <2>2
<1>11. Pos(s, i, c) \in 0 .. s * w - 1
  <2>1. u * (s * K) + s * K <= t * (s * K)
    BY <1>2, <1>3, Multiples
  <2>2. t * (s * K) = s * (t * K) /\ s * (t * K) \in Nat
    BY <1>1
  <2>3. u * (s * K) \in Nat
    BY <1>2, <1>3, Multiples
  <2> HIDE DEF Pos
  <2> QED
    BY <1>0, <1>3, <1>4, <1>8, <1>9, <2>1, <2>2, <2>3
<1> QED
  BY <1>2, <1>5, <1>6, <1>10, <1>11 DEF Row, Col

(* Every address of a matrix is that of its row and column. *)
LEMMA AddressFacts ==
    ASSUME NEW s \in Nat, s > 0, NEW w \in Dims, NEW a \in 0 .. s * w - 1
    PROVE  /\ Row(s, a) \in 0 .. s - 1
           /\ Col(s, a) \in 0 .. w - 1
           /\ Pos(s, Row(s, a), Col(s, a)) = a
<1>0. PICK t \in Nat \ {0} : w = t * K
  BY DEF Dims
<1>1. K \in Nat /\ K > 0 /\ t * K \in Nat /\ s * (t * K) \in Nat /\ s * K \in Nat
  BY ConfigFacts, Multiples DEF K
<1>2. a \in Nat /\ a < s * (t * K)
  BY <1>0, <1>1
<1>3. PICK v \in Nat, x \in 0 .. K - 1 : a = v * K + x
  BY <1>1, <1>2, HasPlace
<1>4. PICK u \in Nat, i \in 0 .. s - 1 : v = u * s + i
  BY <1>3, HasPlace
<1>5. x \in Nat /\ x < K /\ i \in Nat /\ i < s
  BY <1>1, <1>3, <1>4
<1>6. u * (s * K) \in Nat /\ i * K \in Nat /\ t * (s * K) \in Nat /\ t * (s * K) = s * (t * K)
  BY <1>1, <1>4, <1>5, Multiples
<1>7. a = u * (s * K) + (i * K + x)
  BY <1>1, <1>3, <1>4, <1>5
<1>8. u < t
  <2>1. SUFFICES ASSUME t <= u PROVE FALSE
    BY <1>4
  <2>2. t * (s * K) <= u * (s * K)
    BY <1>1, <1>4, <2>1, Multiples
  <2> QED
    BY <1>2, <1>5, <1>6, <1>7, <2>2
<1>9. u * K + x \in 0 .. t * K - 1
  <2>1. u * K + K <= t * K /\ u * K \in Nat
    BY <1>1, <1>4, <1>8, Multiples
  <2> QED
    BY <1>1, <1>5, <2>1
<1>10. (u * K + x) \div K = u /\ (u * K + x) % K = x
  BY <1>1, <1>3, <1>4, DivMod
<1>11. Pos(s, i, u * K + x) = a
  BY <1>3, <1>4, <1>10 DEF Pos
<1> QED
  BY <1>0, <1>4, <1>9, <1>11, PosFacts

(* The columns of head n in a matrix of heads of q columns each are one    *)
(* block of addresses, laid out like a matrix of its own.                  *)
InColumns(s, q, n, i, c) ==
    /\ (n * q + c) \div q = n
    /\ (n * q + c) % q = c
    /\ Pos(s, i, n * q + c) = n * (s * q) + Pos(s, i, c)

LEMMA HeadColumns ==
    ASSUME NEW s \in Nat, s > 0, NEW q \in Dims, NEW n \in Nat,
           NEW i \in 0 .. s - 1, NEW c \in 0 .. q - 1
    PROVE  InColumns(s, q, n, i, c)
<1> DEFINE u == c \div K
           x == c % K
<1>0. PICK t \in Nat \ {0} : q = t * K
  BY DEF Dims
<1>1. K \in Nat /\ K > 0 /\ i \in Nat /\ q \in Nat
  BY ConfigFacts, DimFacts DEF K
<1>2. u \in Nat /\ x \in 0 .. K - 1 /\ x \in Nat /\ c = u * K + x
  BY <1>0, <1>1, BlockFacts
<1>3. (n * q + c) \div q = n /\ (n * q + c) % q = c
  BY <1>1, DivMod
<1>4. (n * q + c) \div K = n * t + u /\ (n * q + c) % K = x
  <2> HIDE DEF u, x
  <2>1. n * t + u \in Nat
    BY <1>2, Multiples
  <2>2. n * q + c = (n * t + u) * K + x
    BY <1>0, <1>1, <1>2
  <2>3. \A v \in Nat : (v * K + x) \div K = v /\ (v * K + x) % K = x
    BY <1>1, <1>2, DivMod
  <2> QED
    BY <2>1, <2>2, <2>3
<1>5. Pos(s, i, n * q + c) = ((n * t + u) * s + i) * K + x
  BY <1>4 DEF Pos
<1>6. Pos(s, i, c) = (u * s + i) * K + x
  BY DEF Pos
<1> HIDE DEF u, x
<1>7. ((n * t + u) * s + i) * K + x = n * (s * (t * K)) + ((u * s + i) * K + x)
  BY <1>1, <1>2
<1> QED
  BY <1>0, <1>3, <1>5, <1>6, <1>7 DEF InColumns

(* So it is the columns that tell whose an address is. *)
InBlock(s, q, n, a) ==
    LET base == n * (s * q)
    IN /\ a \in base .. base + s * q - 1 <=> Col(s, a) \div q = n
       /\ a \in base .. base + s * q - 1 =>
             /\ Row(s, a - base) = Row(s, a)
             /\ Col(s, a - base) = Col(s, a) % q
             /\ Row(s, a) \in 0 .. s - 1
             /\ Col(s, a) % q \in 0 .. q - 1
             /\ base + Pos(s, Row(s, a), Col(s, a) % q) = a

LEMMA HeadBlock ==
    ASSUME NEW s \in Nat, s > 0, NEW q \in Dims, NEW h \in Nat,
           NEW w \in Dims, w = h * q, NEW n \in 0 .. h - 1, NEW a \in 0 .. s * w - 1
    PROVE  InBlock(s, q, n, a)
<1> DEFINE base == n * (s * q)
           z == s * q
           i == Row(s, a)
           k == Col(s, a)
<1>1. q \in Nat /\ q > 0 /\ z \in Nat /\ n \in Nat /\ base \in Nat
      /\ w \in Nat /\ s * w \in Nat
  BY DimFacts, Multiples
<1>2. a \in Nat
  BY <1>1
<1>3. i \in 0 .. s - 1 /\ k \in 0 .. w - 1 /\ Pos(s, i, k) = a
  BY AddressFacts
<1>6. ASSUME NEW j \in 0 .. s - 1, NEW c \in 0 .. q - 1
      PROVE  /\ (n * q + c) \div q = n /\ (n * q + c) % q = c
             /\ Pos(s, j, n * q + c) = base + Pos(s, j, c)
  <2>1. n \in Nat
    BY <1>1
  <2>2. InColumns(s, q, n, j, c)
    BY <2>1, HeadColumns
  <2> QED
    BY <2>2 DEF InColumns
<1>4. ASSUME a \in base .. base + z - 1
      PROVE  /\ k \div q = n
             /\ Row(s, a - base) = i
             /\ Col(s, a - base) = k % q
             /\ k % q \in 0 .. q - 1
             /\ base + Pos(s, i, k % q) = a
  <2> DEFINE d == a - base
             j == Row(s, d)
             c == Col(s, d)
  <2>1. d \in 0 .. z - 1
    BY <1>1, <1>2, <1>4
  <2>2. j \in 0 .. s - 1 /\ c \in 0 .. q - 1 /\ Pos(s, j, c) = d
    BY <2>1, AddressFacts
  <2> HIDE DEF d, j, c
  <2>3. Pos(s, j, n * q + c) = base + Pos(s, j, c)
        /\ (n * q + c) \div q = n /\ (n * q + c) % q = c
    BY <1>6, <2>2
  <2>4. Pos(s, j, n * q + c) = a
    BY <1>1, <1>2, <2>2, <2>3 DEF d
  <2>5. n * q + c \in 0 .. w - 1
    <3>1. n * q + q <= h * q /\ n * q \in Nat
      BY <1>1, Multiples
    <3> QED
      BY <1>1, <2>2, <3>1
  <2>6. Row(s, a) = j /\ Col(s, a) = n * q + c
    BY <2>2, <2>4, <2>5, PosFacts
  <2>7. base + d = a
    BY <1>1, <1>2 DEF d
  <2> QED
    BY <2>2, <2>3, <2>6, <2>7 DEF d, j, c
<1>5. ASSUME k \div q = n
      PROVE  a \in base .. base + z - 1
  <2> HIDE DEF i, k
  <2>1. k % q \in 0 .. q - 1 /\ k = (k \div q) * q + (k % q)
    BY <1>1, <1>3
  <2>2. k = n * q + (k % q)
    BY <1>5, <2>1
  <2>3. Pos(s, i, n * q + (k % q)) = base + Pos(s, i, k % q)
    BY <1>3, <1>6, <2>1
  <2>4. Pos(s, i, k % q) \in 0 .. z - 1
    BY <1>3, <2>1, PosFacts
  <2> QED
    BY <1>1, <1>3, <2>2, <2>3, <2>4
<1> QED
  BY <1>3, <1>4, <1>5 DEF InBlock

-----------------------------------------------------------------------------
(* The addresses the layers compute. *)

(* Quotients and remainders of a number of two digits in base K. *)
LEMMA TileDigits ==
    ASSUME NEW m \in Nat, NEW y \in 0 .. K - 1, NEW x \in 0 .. K - 1
    PROVE  LET a == (m * K + y) * K + x
           IN /\ a \div K = m * K + y /\ a % K = x
              /\ a \div (K * K) = m /\ (a \div K) % K = y
<1> DEFINE a == (m * K + y) * K + x
<1>1. K \in Nat /\ K > 0 /\ K * K \in Nat /\ m * K \in Nat /\ y * K \in Nat
      /\ x \in Nat /\ y \in Nat
  BY ConfigFacts, Multiples DEF K
<1>2. a \div K = m * K + y /\ a % K = x
  <2>1. \A v \in Nat : (v * K + x) \div K = v /\ (v * K + x) % K = x
    BY <1>1, DivMod
  <2> QED
    BY <1>1, <2>1
<1>3. (m * K + y) % K = y
  BY <1>1, DivMod
<1>4. a = m * (K * K) + (y * K + x)
  BY <1>1
<1>5. y * K + x \in 0 .. K * K - 1
  <2>1. y * K + K <= K * K
    BY <1>1, Multiples
  <2> QED
    BY <1>1, <2>1
<1>6. a \div (K * K) = m
  <2> DEFINE n == K * K
             z == y * K + x
  <2>1. n \in Nat /\ z \in 0 .. n - 1 /\ a = m * n + z
    BY <1>1, <1>4, <1>5
  <2> HIDE DEF n, z, a
  <2>2. a \div n = m
    BY <2>1, DivMod
  <2> QED
    BY <2>2 DEF n
<1> QED
  BY <1>2, <1>3, <1>6

(* computeNonPruned takes the weight of row k and column c from the place  *)
(* of that element in a matrix of as many rows.                            *)
LEMMA LoadWeightFacts ==
    ASSUME ACT_PER_BUS = W_PER_BUS, NEW b, NEW rows \in Dims, NEW w \in Dims,
           NEW k \in 0 .. rows - 1, NEW c \in 0 .. w - 1
    PROVE  LoadWeight(b, rows, k, c) = Load(b, Pos(rows, k, c))
<1> DEFINE W == W_PER_BUS
           M == MAX_W_COL
           v == k \div K
           y == k % K
           u == c \div K
           x == c % K
           xd == x \div W
           xm == x % W
<1>1. K \in Nat /\ K > 0 /\ W \in Nat /\ W > 0 /\ M \in Nat /\ M * W = K
  BY ConfigFacts DEF K
<1>2. PICK t \in Nat \ {0} : rows = t * K
  BY DEF Dims
<1>3. PICK z \in Nat \ {0} : w = z * K
  BY DEF Dims
<1>4. v \in Nat /\ y \in Nat /\ k = v * K + y
  BY <1>1, <1>2, BlockFacts
<1>5. u \in Nat /\ x \in Nat /\ c = u * K + x
  BY <1>1, <1>3, BlockFacts
<1>6. xd \in Nat /\ xm \in 0 .. W - 1 /\ xm \in Nat /\ x = xd * W + xm
  <2> HIDE DEF x, W
  <2>1. PICK d \in Nat, r \in 0 .. W - 1 : x = d * W + r
    BY <1>1, <1>5, HasPlace
  <2>2. x \div W = d /\ x % W = r
    BY <1>1, <2>1, DivMod
  <2> QED
    BY <1>1, <2>1, <2>2
<1> HIDE DEF v, y, u, x, xd, xm, W, M
<1>7. c % W = xm
  <2>1. u * M + xd \in Nat
    BY <1>1, <1>5, <1>6, Multiples
  <2>2. c = (u * M + xd) * W + xm
    BY <1>1, <1>5, <1>6
  <2>3. \A d \in Nat : (d * W + xm) % W = xm
    BY <1>1, <1>6, DivMod
  <2> QED
    BY <2>1, <2>2, <2>3
<1>8. rows \div K = t
  <2>1. 0 \in 0 .. K - 1 /\ rows = t * K + 0
    BY <1>1, <1>2
  <2> QED
    BY <1>1, <1>2, <2>1, DivMod
<1>9. ((((u * t) + v) * K + y) * M + xd) * W + xm = (u * rows + k) * K + x
  <2> DEFINE e == u * t + v
             f == e * K + y
  <2>1. e \in Nat /\ f \in Nat
    BY <1>1, <1>2, <1>4, <1>5, Multiples
  <2>2. f = u * rows + k
    BY <1>1, <1>2, <1>4, <1>5
  <2> HIDE DEF e, f
  <2>3. (f * M + xd) * W + xm = f * (M * W) + (xd * W + xm)
    BY <1>1, <1>6, <2>1
  <2>4. (f * M + xd) * W + xm = f * K + x
    BY <1>1, <1>6, <2>3
  <2> QED
    BY <2>2, <2>4 DEF e, f
<1>10. LoadWeight(b, rows, k, c) = Load(b, ((((u * t) + v) * K + y) * M + xd) * W + xm)
  BY <1>7, <1>8 DEF LoadWeight, u, v, x, y, xd, W, M
<1> QED
  BY <1>9, <1>10 DEF Pos, u, x

(* The formulas of the softmax and of the normalisation are that of the    *)
(* layout, multiplied out.                                                 *)
LEMMA RowAddrFacts ==
    ASSUME model \in Models, NEW w \in Dims, NEW i \in Rows, NEW k \in 0 .. w - 1
    PROVE  RowAddr(i, k) = Addr(i, k) /\ Addr(i, k) = Pos(D_SEQ, i, k)
<1>1. D_SEQ \in Nat /\ K \in Nat
  BY ModelsAssumption, ConfigFacts, Multiples DEF D_SEQ, K
<1>2. PICK t \in Nat \ {0} : w = t * K
  BY DEF Dims
<1>3. k \div K \in Nat /\ k % K \in Nat /\ i \in Nat
  BY <1>1, <1>2, BlockFacts DEF Rows
<1>4. i * K + (k \div K) * (D_SEQ * K) = ((k \div K) * D_SEQ + i) * K
  <2> DEFINE d == k \div K
  <2>1. d \in Nat
    BY <1>3
  <2> HIDE DEF d
  <2>2. i * K + d * (D_SEQ * K) = (d * D_SEQ + i) * K
    BY <1>1, <1>3, <2>1
  <2> QED
    BY <2>2 DEF d
<1> QED
  BY <1>4 DEF RowAddr, Addr, Pos

-----------------------------------------------------------------------------
(* What a buffer may hold: nothing, or the result of a layer. *)

Blank(size) == [a \in 0 .. size - 1 |-> Zero]

Tensor(layer, n, s, cols) ==
    [a \in 0 .. s * cols - 1 |-> Name(layer, n, Row(s, a), Col(s, a))]

LEMMA ShapeFacts ==
    ASSUME model \in Models
    PROVE  /\ D_SEQ \in Dims /\ D_SEQ \in Nat /\ D_SEQ > 0
           /\ D_Q \in Dims /\ D_Q \in Nat /\ D_Q > 0
           /\ D_MODEL \in Dims /\ D_MODEL \in Nat
           /\ D_FF \in Dims /\ D_FF \in Nat
           /\ model.heads \in Nat /\ model.heads > 0
           /\ model.heads * D_Q \in Dims
           /\ D_SEQ * model.heads * D_Q = D_SEQ * (model.heads * D_Q)
<1>1. \A d \in {"heads", "seq", "q", "model", "ff"} : model[d] \in Nat \ {0}
  BY ModelsAssumption
<1>2. /\ model.heads \in Nat \ {0} /\ model.seq \in Nat \ {0} /\ model.q \in Nat \ {0}
      /\ model.model \in Nat \ {0} /\ model.ff \in Nat \ {0}
  BY <1>1
<1>3. D_SEQ \in Dims /\ D_Q \in Dims /\ D_MODEL \in Dims /\ D_FF \in Dims
  BY <1>2 DEF Dims, D_SEQ, D_Q, D_MODEL, D_FF
<1>4. /\ D_SEQ \in Nat /\ D_SEQ > 0 /\ D_Q \in Nat /\ D_Q > 0
      /\ D_MODEL \in Nat /\ D_FF \in Nat
  BY <1>3, DimFacts
<1>5. K \in Nat
  BY ConfigFacts DEF K
<1>6. model.heads * D_Q \in Dims
  <2>1. \A a, b \in Nat \ {0} : a * b \in Nat \ {0} /\ (a * b) * K = a * (b * K)
    BY <1>5
  <2>2. model.heads * model.q \in Nat \ {0}
    BY <1>2, <2>1
  <2>3. model.heads * D_Q = (model.heads * model.q) * K
    BY <1>2, <2>1 DEF D_Q
  <2> QED
    BY <2>2, <2>3 DEF Dims
<1>7. D_SEQ * model.heads * D_Q = D_SEQ * (model.heads * D_Q)
  BY <1>2, <1>4
<1> QED
  BY <1>2, <1>3, <1>4, <1>6, <1>7

(* A matrix fills its words. *)
LEMMA NewBufferFacts ==
    ASSUME NEW s \in Nat, NEW w \in Dims
    PROVE  NewBuffer(s * w) = Blank(s * w)
<1> DEFINE A == ACT_PER_BUS
           M == MAX_ACT_COL
<1>1. K \in Nat /\ A \in Nat /\ A > 0 /\ M \in Nat /\ M * A = K
  BY ConfigFacts DEF K
<1>2. PICK t \in Nat \ {0} : w = t * K
  BY DEF Dims
<1> HIDE DEF A, M
<1>3. s * (t * M) \in Nat
  BY <1>1, <1>2, Multiples
<1>4. s * w = (s * (t * M)) * A
  BY <1>1, <1>2
<1>5. (s * w) \div A = s * (t * M)
  <2> DEFINE r == s * (t * M)
  <2>1. r \in Nat /\ 0 \in 0 .. A - 1 /\ s * w = r * A + 0
    BY <1>1, <1>3, <1>4
  <2> HIDE DEF r
  <2>2. (r * A + 0) \div A = r
    BY <1>1, <2>1, DivMod
  <2> QED
    BY <2>1, <2>2 DEF r
<1> QED
  BY <1>4, <1>5 DEF NewBuffer, Blank, A

(* A product that is added to a blank buffer is all that is in it. *)
LEMMA MultiplyFacts ==
    ASSUME model \in Models, NEW w \in Dims, NEW layer, NEW n, NEW dot,
           \A i \in Rows, c \in 0 .. w - 1 : dot[i][c] = Name(layer, n, i, c)
    PROVE  Multiply(Blank(D_SEQ * w), 0, w, dot) = Tensor(layer, n, D_SEQ, w)
<1> DEFINE s == D_SEQ
           size == s * w
<1>1. s \in Nat /\ s > 0 /\ w \in Nat /\ size \in Nat
  BY ShapeFacts, DimFacts, Multiples
<1>2. ASSUME NEW a \in 0 .. size - 1
      PROVE  /\ a \in 0 .. 0 + size - 1 /\ a - 0 = a
             /\ RowOf(a) \in Rows /\ ColOf(a) \in 0 .. w - 1
             /\ RowOf(a) = Row(s, a) /\ ColOf(a) = Col(s, a)
             /\ Plus(Blank(size)[0 + Addr(RowOf(a), ColOf(a))], dot[RowOf(a)][ColOf(a)])
                  = Name(layer, n, Row(s, a), Col(s, a))
  <2>1. RowOf(a) = Row(s, a) /\ ColOf(a) = Col(s, a)
    BY DEF RowOf, ColOf, Row, Col
  <2>2. Row(s, a) \in 0 .. s - 1 /\ Col(s, a) \in 0 .. w - 1 /\ Pos(s, Row(s, a), Col(s, a)) = a
    BY <1>1, AddressFacts
  <2>3. Addr(RowOf(a), ColOf(a)) = a
    BY <2>1, <2>2 DEF Addr, Pos
  <2>7. a \in Int /\ 0 + a = a /\ a - 0 = a /\ a \in 0 .. 0 + size - 1
    BY <1>1
  <2> HIDE DEF size
  <2>4. Blank(size)[0 + Addr(RowOf(a), ColOf(a))] = Zero
    <3>1. 0 + Addr(RowOf(a), ColOf(a)) = a
      BY <2>3, <2>7
    <3> QED
      BY <3>1 DEF Blank
  <2>5. dot[RowOf(a)][ColOf(a)] = Name(layer, n, Row(s, a), Col(s, a))
    BY <2>1, <2>2 DEF Rows
  <2>6. \A v : Plus(Zero, v) = v
    BY DEF Plus, Zero
  <2> QED
    BY <2>1, <2>2, <2>4, <2>5, <2>6, <2>7 DEF Rows
<1>3. DOMAIN Blank(size) = 0 .. size - 1
  BY DEF Blank
<1>4. Multiply(Blank(size), 0, w, dot) =
        [a \in 0 .. size - 1 |->
            Plus(Blank(size)[0 + Addr(RowOf(a - 0), ColOf(a - 0))], dot[RowOf(a - 0)][ColOf(a - 0)])]
  BY <1>1, <1>2, <1>3 DEF Multiply, Store
<1> QED
  BY <1>2, <1>4 DEF Tensor

(* Element c of row i of a result is at its place. *)
LEMMA TensorFacts ==
    ASSUME NEW s \in Nat, s > 0, NEW w \in Dims, NEW layer, NEW n,
           NEW i \in 0 .. s - 1, NEW c \in 0 .. w - 1
    PROVE  Load(Tensor(layer, n, s, w), Pos(s, i, c)) = Name(layer, n, i, c)
<1> DEFINE a == Pos(s, i, c)
<1>1. a \in 0 .. s * w - 1 /\ Row(s, a) = i /\ Col(s, a) = c
  BY PosFacts
<1> HIDE DEF a
<1>2. Load(Tensor(layer, n, s, w), a) = Name(layer, n, i, c)
  BY <1>1 DEF Load, Tensor
<1> QED
  BY <1>2 DEF a

(* Dense::compute with its own kernel and its own operands. *)
LEMMA DenseFacts ==
    ASSUME NEW layer, NEW n, NEW input, NEW operand, NEW size, NEW cols,
           \A i \in Rows : \A k \in 0 .. size - 1 :
               Load(input, Addr(i, k)) = Operand(operand, i, k)
    PROVE  \A i \in Rows, c \in 0 .. cols - 1 :
               DenseCompute(layer, n, <<layer, n>>, input, operand, size, cols)[i][c]
                   = Name(layer, n, i, c)
  BY DEF DenseCompute, Result

(* The operands of a layer, when they are a result other than the heads'.  *)
LEMMA OperandFacts ==
    ASSUME model \in Models, NEW w \in Dims, NEW layer, layer # "head"
    PROVE  \A i \in Rows : \A k \in 0 .. w - 1 :
               Load(Tensor(layer, 0, D_SEQ, w), Addr(i, k)) = Operand(layer, i, k)
<1> SUFFICES ASSUME NEW i \in Rows, NEW k \in 0 .. w - 1
             PROVE  Load(Tensor(layer, 0, D_SEQ, w), Addr(i, k)) = Operand(layer, i, k)
  OBVIOUS
<1>1. Addr(i, k) = Pos(D_SEQ, i, k)
  BY RowAddrFacts
<1>2. Load(Tensor(layer, 0, D_SEQ, w), Pos(D_SEQ, i, k)) = Name(layer, 0, i, k)
  BY ShapeFacts, TensorFacts DEF Rows
<1> QED
  BY <1>1, <1>2 DEF Operand

(* inference puts the kernels where the layers look for them. *)
LEMMA KernelFacts ==
    ASSUME model \in Models
    PROVE  /\ \A n \in Heads : /\ HeadKernel(n, 0) = <<"query", n>>
                               /\ HeadKernel(n, 1) = <<"key", n>>
                               /\ HeadKernel(n, 2) = <<"value", n>>
           /\ BlockKernel(0) = <<"condense", 0>>
           /\ BlockKernel(1) = <<"ff0", 0>>
           /\ BlockKernel(2) = <<"ff1", 0>>
<1>1. model.heads \in Nat
  BY ShapeFacts
<1>2. ASSUME NEW n \in Heads, NEW x \in 0 .. 2
      PROVE  HeadKernel(n, x) = << <<"query", "key", "value">>[x + 1], n >>
  <2>1. 3 * n + x < 3 * model.heads /\ (3 * n + x) % 3 = x /\ (3 * n + x) \div 3 = n
    BY <1>1 DEF Heads
  <2> QED
    BY <2>1 DEF HeadKernel, weightVec
<1>3. ASSUME NEW x \in 0 .. 2
      PROVE  BlockKernel(x) = << <<"condense", "ff0", "ff1">>[x + 1], 0 >>
  <2> DEFINE y == 3 * model.heads + x
  <2>1. ~ (y < 3 * model.heads) /\ y - 3 * model.heads + 1 = x + 1
    BY <1>1
  <2> HIDE DEF y
  <2>2. weightVec(y) = << <<"condense", "ff0", "ff1">>[x + 1], 0 >>
    BY <2>1 DEF weightVec
  <2> QED
    BY <2>2 DEF BlockKernel, y
<1> QED
  BY <1>2, <1>3

(* transpose_rearranged: the transposed keys, laid out with D_Q rows. *)
Swapped(n, s, q) ==
    [a \in 0 .. s * q - 1 |-> Name("key", n, Col(q, a), Row(q, a))]

LEMMA TransposedFacts ==
    ASSUME model \in Models, NEW n
    PROVE  Transposed(Tensor("key", n, D_SEQ, D_Q)) = Swapped(n, D_SEQ, D_Q)
<1> DEFINE s == D_SEQ
           q == D_Q
           input == Tensor("key", n, s, q)
<1>1. /\ K \in Nat /\ K > 0 /\ s \in Dims /\ s \in Nat /\ s > 0
      /\ q \in Dims /\ q \in Nat /\ q > 0 /\ s * q = q * s
  BY ConfigFacts, ShapeFacts DEF K
<1>2. PICK tr \in Nat \ {0} : s = tr * K
  BY <1>1 DEF Dims
<1>3. PICK tc \in Nat \ {0} : q = tc * K
  BY <1>1 DEF Dims
<1>4. s \div K = tr /\ q \div K = tc
  <2>1. 0 \in 0 .. K - 1 /\ s = tr * K + 0 /\ q = tc * K + 0
    BY <1>1, <1>2, <1>3
  <2>2. (tr * K + 0) \div K = tr /\ (tc * K + 0) \div K = tc
    BY <1>1, <1>2, <1>3, <2>1, DivMod
  <2> QED
    BY <2>1, <2>2
<1>5. DOMAIN input = 0 .. s * q - 1
  BY DEF Tensor
<1>6. ASSUME NEW o \in 0 .. s * q - 1
      PROVE  LET tile == o \div (K * K)
                 i == tile \div tc
                 j == tile % tc
                 a == (o \div K) % K
                 b == o % K
             IN input[((j * tr + i) * K + b) * K + a] = Name("key", n, Col(q, o), Row(q, o))
  <2> DEFINE c == Col(q, o)
             k == Row(q, o)
             cd == c \div K
             cm == c % K
             kd == k \div K
             km == k % K
  <2>1. k \in 0 .. q - 1 /\ c \in 0 .. s - 1 /\ Pos(q, k, c) = o
    BY <1>1, AddressFacts
  <2>2. /\ cd \in Nat /\ cm \in 0 .. K - 1 /\ cm \in Nat /\ c = cd * K + cm
        /\ kd \in 0 .. tc - 1 /\ kd \in Nat /\ km \in 0 .. K - 1 /\ km \in Nat /\ k = kd * K + km
    <3> HIDE DEF c, k
    <3>1. cd \in Nat /\ cm \in 0 .. K - 1 /\ c = cd * K + cm
      BY <1>2, <2>1, BlockFacts
    <3>2. kd \in 0 .. tc - 1 /\ km \in 0 .. K - 1 /\ k = kd * K + km
      BY <1>3, <2>1, BlockFacts
    <3> HIDE DEF cd, cm, kd, km
    <3> QED
      BY <1>1, <1>3, <3>1, <3>2
  <2>3. o = (cd * q + k) * K + cm
    BY <2>1 DEF Pos
  <2>4. Pos(s, c, k) = (kd * s + c) * K + km
    BY DEF Pos
  <2> HIDE DEF cd, cm, kd, km, c, k
  <2>5. cd * tc + kd \in Nat /\ cd * q + k = (cd * tc + kd) * K + km
    BY <1>1, <1>3, <2>2, Multiples
  <2>6. o = ((cd * tc + kd) * K + km) * K + cm
    BY <2>3, <2>5
  <2>7. o \div (K * K) = cd * tc + kd /\ (o \div K) % K = km /\ o % K = cm
    <3>1. \A m \in Nat : LET a == (m * K + km) * K + cm
                         IN a \div (K * K) = m /\ (a \div K) % K = km /\ a % K = cm
      BY <2>2, TileDigits
    <3> QED
      BY <2>5, <2>6, <3>1
  <2>8. (cd * tc + kd) \div tc = cd /\ (cd * tc + kd) % tc = kd
    BY <1>3, <2>2, DivMod
  <2>9. ((kd * tr + cd) * K + cm) * K + km = (kd * s + c) * K + km
    <3>1. (kd * tr + cd) * K + cm = kd * s + c
      BY <1>1, <1>2, <2>2
    <3> QED
      BY <3>1
  <2>10. input[Pos(s, c, k)] = Name("key", n, c, k)
    <3>1. Pos(s, c, k) \in 0 .. s * q - 1 /\ Row(s, Pos(s, c, k)) = c /\ Col(s, Pos(s, c, k)) = k
      BY <1>1, <2>1, PosFacts
    <3> QED
      BY <3>1 DEF Tensor
  <2> QED
    BY <2>4, <2>7, <2>8, <2>9, <2>10 DEF c, k
<1> HIDE DEF s, q, input
<1>7. Transposed(input) = [o \in 0 .. s * q - 1 |-> Name("key", n, Col(q, o), Row(q, o))]
  BY <1>4, <1>5, <1>6 DEF Transposed, s, q
<1> QED
  BY <1>7 DEF Swapped, s, q, input

(* Queries and transposed keys are where QKT loads them from. *)
LEMMA QKTFacts ==
    ASSUME ACT_PER_BUS = W_PER_BUS, model \in Models, NEW n,
           NEW i \in Rows, NEW c \in 0 .. D_SEQ - 1, NEW k \in 0 .. D_Q - 1
    PROVE  /\ Load(Tensor("query", n, D_SEQ, D_Q), Addr(i, k)) = Name("query", n, i, k)
           /\ LoadWeight(Swapped(n, D_SEQ, D_Q), D_Q, k, c) = Name("key", n, c, k)
<1>1. /\ D_SEQ \in Dims /\ D_SEQ \in Nat /\ D_SEQ > 0
      /\ D_Q \in Dims /\ D_Q \in Nat /\ D_Q > 0 /\ D_SEQ * D_Q = D_Q * D_SEQ
  BY ShapeFacts
<1>2. Load(Tensor("query", n, D_SEQ, D_Q), Addr(i, k)) = Name("query", n, i, k)
  BY <1>1, RowAddrFacts, TensorFacts DEF Rows
<1>3. LoadWeight(Swapped(n, D_SEQ, D_Q), D_Q, k, c) = Load(Swapped(n, D_SEQ, D_Q), Pos(D_Q, k, c))
  BY <1>1, LoadWeightFacts
<1>4. /\ Pos(D_Q, k, c) \in 0 .. D_SEQ * D_Q - 1
      /\ Row(D_Q, Pos(D_Q, k, c)) = k /\ Col(D_Q, Pos(D_Q, k, c)) = c
  BY <1>1, PosFacts
<1>5. Load(Swapped(n, D_SEQ, D_Q), Pos(D_Q, k, c)) = Name("key", n, c, k)
  BY <1>4 DEF Load, Swapped
<1> QED
  BY <1>2, <1>3, <1>5

(* Weights of the attention and values are where att_v loads them from. *)
LEMMA AttVFacts ==
    ASSUME ACT_PER_BUS = W_PER_BUS, model \in Models, NEW n,
           NEW i \in Rows, NEW c \in 0 .. D_Q - 1, NEW k \in 0 .. D_SEQ - 1
    PROVE  /\ Load(Tensor("softmax", n, D_SEQ, D_SEQ), Addr(i, k)) = Name("softmax", n, i, k)
           /\ LoadWeight(Tensor("value", n, D_SEQ, D_Q), D_SEQ, k, c) = Name("value", n, k, c)
<1>1. D_SEQ \in Dims /\ D_SEQ \in Nat /\ D_SEQ > 0 /\ D_Q \in Dims
  BY ShapeFacts
<1>2. Load(Tensor("softmax", n, D_SEQ, D_SEQ), Addr(i, k)) = Name("softmax", n, i, k)
  BY <1>1, RowAddrFacts, TensorFacts DEF Rows
<1>3. LoadWeight(Tensor("value", n, D_SEQ, D_Q), D_SEQ, k, c)
        = Load(Tensor("value", n, D_SEQ, D_Q), Pos(D_SEQ, k, c))
  BY <1>1, LoadWeightFacts
<1>4. Load(Tensor("value", n, D_SEQ, D_Q), Pos(D_SEQ, k, c)) = Name("value", n, k, c)
  BY <1>1, TensorFacts
<1> QED
  BY <1>2, <1>3, <1>4

(* The address of an element of a whole matrix, as Store computes it. *)
LEMMA WholeFacts ==
    ASSUME model \in Models, NEW w \in Dims, NEW a \in 0 .. D_SEQ * w - 1
    PROVE  /\ a \in 0 .. 0 + D_SEQ * w - 1 /\ a - 0 = a
           /\ RowOf(a) = Row(D_SEQ, a) /\ ColOf(a) = Col(D_SEQ, a)
           /\ Row(D_SEQ, a) \in Rows /\ Col(D_SEQ, a) \in 0 .. w - 1
           /\ Pos(D_SEQ, Row(D_SEQ, a), Col(D_SEQ, a)) = a
<1>1. D_SEQ \in Nat /\ D_SEQ > 0 /\ w \in Nat /\ D_SEQ * w \in Nat
  BY ShapeFacts, DimFacts, Multiples
<1>2. /\ Row(D_SEQ, a) \in Rows /\ Col(D_SEQ, a) \in 0 .. w - 1
      /\ Pos(D_SEQ, Row(D_SEQ, a), Col(D_SEQ, a)) = a
  BY <1>1, AddressFacts DEF Rows
<1>3. a \in 0 .. 0 + D_SEQ * w - 1 /\ a - 0 = a
  BY <1>1
<1> QED
  BY <1>2, <1>3 DEF RowOf, ColOf, Row, Col

LEMMA SoftmaxFacts ==
    ASSUME model \in Models, NEW n, NEW scores, scores = Tensor("score", n, D_SEQ, D_SEQ)
    PROVE  Store(scores, 0, D_SEQ,
                 LAMBDA i, c : Result(\A k \in 0 .. D_SEQ - 1 :
                                         Load(scores, RowAddr(i, k)) = Name("score", n, i, k),
                                      Name("softmax", n, i, c)))
             = Tensor("softmax", n, D_SEQ, D_SEQ)
<1>1. D_SEQ \in Dims /\ D_SEQ \in Nat /\ D_SEQ > 0
  BY ShapeFacts
<1>2. \A i \in Rows : \A k \in 0 .. D_SEQ - 1 :
         Load(scores, RowAddr(i, k)) = Name("score", n, i, k)
  <2> SUFFICES ASSUME NEW i \in Rows, NEW k \in 0 .. D_SEQ - 1
               PROVE  Load(scores, RowAddr(i, k)) = Name("score", n, i, k)
    OBVIOUS
  <2>1. RowAddr(i, k) = Pos(D_SEQ, i, k)
    BY <1>1, RowAddrFacts
  <2> QED
    BY <1>1, <2>1, TensorFacts DEF Rows
<1>3. DOMAIN scores = 0 .. D_SEQ * D_SEQ - 1
  BY DEF Tensor
<1>4. \A a \in 0 .. D_SEQ * D_SEQ - 1 :
         /\ a \in 0 .. 0 + D_SEQ * D_SEQ - 1 /\ a - 0 = a
         /\ RowOf(a) = Row(D_SEQ, a) /\ ColOf(a) = Col(D_SEQ, a) /\ Row(D_SEQ, a) \in Rows
  BY <1>1, WholeFacts
<1> QED
  BY <1>2, <1>3, <1>4 DEF Store, Result, Tensor

LEMMA AddNormalizeFacts ==
    ASSUME model \in Models, NEW layer, NEW residual, NEW result,
           residual # "head", result # "head"
    PROVE  AddNormalize(layer, Tensor(residual, 0, D_SEQ, D_MODEL), residual,
                        Tensor(result, 0, D_SEQ, D_MODEL), result)
             = Tensor(layer, 0, D_SEQ, D_MODEL)
<1> DEFINE input == Tensor(residual, 0, D_SEQ, D_MODEL)
           output == Tensor(result, 0, D_SEQ, D_MODEL)
           size == D_SEQ * D_MODEL
<1>1. D_SEQ \in Nat /\ D_SEQ > 0 /\ D_MODEL \in Dims
  BY ShapeFacts
<1>2. \A i \in Rows : \A k \in 0 .. D_MODEL - 1 :
         AddElements(input, output)[RowAddr(i, k)]
            = Plus(Operand(result, i, k), Operand(residual, i, k))
  <2> SUFFICES ASSUME NEW i \in Rows, NEW k \in 0 .. D_MODEL - 1
               PROVE  AddElements(input, output)[RowAddr(i, k)]
                         = Plus(Operand(result, i, k), Operand(residual, i, k))
    OBVIOUS
  <2>1. RowAddr(i, k) = Addr(i, k) /\ Addr(i, k) = Pos(D_SEQ, i, k)
    BY <1>1, RowAddrFacts
  <2>2. Pos(D_SEQ, i, k) \in 0 .. size - 1
    BY <1>1, PosFacts DEF Rows
  <2>3. /\ Load(input, Addr(i, k)) = Operand(residual, i, k)
        /\ Load(output, Addr(i, k)) = Operand(result, i, k)
    BY <1>1, OperandFacts
  <2> HIDE DEF input, output
  <2> QED
    BY <2>1, <2>2, <2>3 DEF AddElements
<1>3. DOMAIN output = 0 .. size - 1
  BY DEF Tensor
<1>4. \A a \in 0 .. size - 1 :
         /\ a \in 0 .. 0 + size - 1 /\ a - 0 = a
         /\ RowOf(a) = Row(D_SEQ, a) /\ ColOf(a) = Col(D_SEQ, a) /\ Row(D_SEQ, a) \in Rows
  BY <1>1, WholeFacts
<1> HIDE DEF input, output
<1>5. AddNormalize(layer, input, residual, output, result) = Tensor(layer, 0, D_SEQ, D_MODEL)
  BY <1>2, <1>3, <1>4 DEF AddNormalize, Store, Result, Tensor
<1> QED
  BY <1>5 DEF input, output

-----------------------------------------------------------------------------
(* multihead_out.  The heads below done have finished, those below         *)
(* attended have added their product.                                      *)

Concatenated(s, q, h, done, attended) ==
    [a \in 0 .. s * (h * q) - 1 |->
        LET n == Col(s, a) \div q
            c == Col(s, a) % q
        IN IF n < done THEN Name("head", n, Row(s, a), c)
           ELSE IF n < attended THEN Name("attended", n, Row(s, a), c)
           ELSE Zero]

(***************************************************************************)
(* The data types for which the layers fit together: integers, as many of  *)
(* them in a word of activations as in a word of weights, and four of them *)
(* or only one head.  (What happens otherwise is the subject of the runs   *)
(* transformer_wide and transformer_mixed.)                                *)
(***************************************************************************)
Uniform ==
    /\ ~ ACTIVATION_FP
    /\ ACT_PER_BUS = W_PER_BUS
    /\ ACT_PER_BUS = 4 \/ \A m \in Models : m.heads = 1

(* The offset of a head is the size of the heads before it. *)
LEMMA OffsetFacts ==
    ASSUME Uniform, model \in Models, NEW n \in Heads
    PROVE  HeadOffset(n) = n * (D_SEQ * D_Q)
<1>1. D_SEQ \in Nat /\ D_Q \in Nat /\ D_Q \in Dims /\ model.heads \in Nat /\ D_SEQ * D_Q \in Nat
  BY ShapeFacts, Multiples
<1>2. CASE ACT_PER_BUS = 4
  <2>1. PICK t \in Nat \ {0} : D_Q = t * K
    BY <1>1 DEF Dims
  <2>2. MAX_ACT_COL \in Nat /\ MAX_ACT_COL * 4 = K
    BY <1>2, ConfigFacts DEF K
  <2> DEFINE r == D_SEQ * (t * MAX_ACT_COL)
  <2>3. r \in Nat
    BY <1>1, <2>1, <2>2, Multiples
  <2>4. D_SEQ * D_Q = r * 4
    BY <1>1, <2>1, <2>2
  <2>5. n \in Nat
    BY <1>1 DEF Heads
  <2> HIDE DEF r
  <2>6. (r * 4) \div 4 = r
    BY <2>3
  <2>7. n * r * 4 = n * (r * 4)
    BY <2>3, <2>5
  <2> QED
    BY <1>2, <2>4, <2>6, <2>7 DEF HeadOffset
<1>3. CASE \A m \in Models : m.heads = 1
  <2>1. n = 0
    BY <1>3 DEF Heads
  <2>2. (D_SEQ * D_Q) \div 4 \in Int /\ ACT_PER_BUS \in Int
    BY <1>1, ConfigFacts
  <2>3. HeadOffset(0) = 0
    BY <2>2 DEF HeadOffset
  <2>4. 0 * (D_SEQ * D_Q) = 0
    BY <1>1
  <2> QED
    BY <2>1, <2>3, <2>4
<1> QED
  BY <1>2, <1>3 DEF Uniform

(* What a finished head has left is at the columns condense takes for it.  *)
LEMMA ConcatenatedFacts ==
    ASSUME model \in Models, NEW done \in Nat, NEW attended \in Nat, NEW n \in Heads, n < done,
           NEW i \in Rows, NEW c \in 0 .. D_Q - 1
    PROVE  Load(Concatenated(D_SEQ, D_Q, model.heads, done, attended), Addr(i, n * D_Q + c))
             = Name("head", n, i, c)
<1> DEFINE k == n * D_Q + c
           h == model.heads
           a == Pos(D_SEQ, i, k)
<1>1. /\ D_SEQ \in Nat /\ D_SEQ > 0 /\ D_Q \in Dims /\ D_Q \in Nat /\ h \in Nat
      /\ h * D_Q \in Dims /\ n \in Nat /\ n < h
  BY ShapeFacts DEF Heads
<1>2. k \div D_Q = n /\ k % D_Q = c
  BY <1>1, DivMod
<1>3. k \in 0 .. h * D_Q - 1
  <2>1. n * D_Q + D_Q <= h * D_Q /\ n * D_Q \in Nat
    BY <1>1, Multiples
  <2> QED
    BY <1>1, <2>1
<1> HIDE DEF k, h
<1>4. a \in 0 .. D_SEQ * (h * D_Q) - 1 /\ Row(D_SEQ, a) = i /\ Col(D_SEQ, a) = k
  BY <1>1, <1>3, PosFacts DEF Rows
<1>5. Addr(i, k) = a
  BY <1>1, <1>3, RowAddrFacts
<1> HIDE DEF a
<1>6. Load(Concatenated(D_SEQ, D_Q, h, done, attended), a) = Name("head", n, i, c)
  BY <1>2, <1>4 DEF Load, Concatenated
<1> QED
  BY <1>5, <1>6 DEF k, h

(* When all have finished, condense takes the heads it is to take. *)
LEMMA CondenseFacts ==
    ASSUME model \in Models, NEW done \in Nat, NEW attended \in Nat, model.heads <= done
    PROVE  \A i \in Rows : \A k \in 0 .. model.heads * D_Q - 1 :
              Load(Concatenated(D_SEQ, D_Q, model.heads, done, attended), Addr(i, k))
                = Operand("head", i, k)
<1> SUFFICES ASSUME NEW i \in Rows, NEW k \in 0 .. model.heads * D_Q - 1
             PROVE  Load(Concatenated(D_SEQ, D_Q, model.heads, done, attended), Addr(i, k))
                      = Operand("head", i, k)
  OBVIOUS
<1>1. D_Q \in Nat /\ D_Q > 0 /\ model.heads \in Nat /\ model.heads * D_Q \in Nat
  BY ShapeFacts, Multiples
<1>2. k \in Nat /\ k < model.heads * D_Q
  BY <1>1
<1>3. PICK n \in Nat, c \in 0 .. D_Q - 1 : k = n * D_Q + c
  BY <1>1, <1>2, HasPlace
<1>4. k \div D_Q = n /\ k % D_Q = c
  BY <1>1, <1>3, DivMod
<1>5. n < model.heads
  <2>1. SUFFICES ASSUME model.heads <= n PROVE FALSE
    BY <1>1, <1>3
  <2>2. model.heads * D_Q <= n * D_Q /\ n * D_Q \in Nat
    BY <1>1, <1>3, <2>1, Multiples
  <2> QED
    BY <1>1, <1>2, <1>3, <2>2
<1>6. n \in Heads /\ n < done
  BY <1>1, <1>3, <1>5 DEF Heads
<1>7. Load(Concatenated(D_SEQ, D_Q, model.heads, done, attended), Addr(i, n * D_Q + c))
        = Name("head", n, i, c)
  BY <1>3, <1>6, ConcatenatedFacts
<1> QED
  BY <1>3, <1>4, <1>7 DEF Operand

(* Store computes the row and the column of head n from an address in its  *)
(* block, and leaves the other blocks alone.                               *)
LEMMA BlockOfHead ==
    ASSUME Uniform, model \in Models, NEW n \in Heads,
           NEW a \in 0 .. D_SEQ * (model.heads * D_Q) - 1
    PROVE  LET base == HeadOffset(n)
           IN /\ Col(D_SEQ, a) \div D_Q \in Nat
              /\ a \in base .. base + D_SEQ * D_Q - 1 <=> Col(D_SEQ, a) \div D_Q = n
              /\ a \in base .. base + D_SEQ * D_Q - 1 =>
                    /\ RowOf(a - base) = Row(D_SEQ, a)
                    /\ ColOf(a - base) = Col(D_SEQ, a) % D_Q
                    /\ Row(D_SEQ, a) \in Rows
                    /\ Col(D_SEQ, a) % D_Q \in 0 .. D_Q - 1
                    /\ base + Addr(Row(D_SEQ, a), Col(D_SEQ, a) % D_Q) = a
<1> DEFINE base == HeadOffset(n)
           k == Col(D_SEQ, a)
<1>1. /\ D_SEQ \in Nat /\ D_SEQ > 0 /\ D_Q \in Dims /\ D_Q \in Nat /\ D_Q > 0
      /\ model.heads \in Nat /\ model.heads * D_Q \in Dims /\ model.heads * D_Q \in Nat
  BY ShapeFacts, DimFacts
<1>2. base = n * (D_SEQ * D_Q) /\ n \in 0 .. model.heads - 1
  BY OffsetFacts DEF Heads
<1>3. k \div D_Q \in Nat
  <2>1. k \in 0 .. model.heads * D_Q - 1
    BY <1>1, AddressFacts
  <2> HIDE DEF k
  <2>2. k \in Nat
    BY <1>1, <2>1
  <2>3. PICK m \in Nat, c \in 0 .. D_Q - 1 : k = m * D_Q + c
    BY <1>1, <2>2, HasPlace
  <2> QED
    BY <1>1, <2>3, DivMod
<1>4. /\ a \in base .. base + D_SEQ * D_Q - 1 <=> k \div D_Q = n
      /\ a \in base .. base + D_SEQ * D_Q - 1 =>
            /\ Row(D_SEQ, a - base) = Row(D_SEQ, a)
            /\ Col(D_SEQ, a - base) = k % D_Q
            /\ Row(D_SEQ, a) \in 0 .. D_SEQ - 1
            /\ k % D_Q \in 0 .. D_Q - 1
            /\ base + Pos(D_SEQ, Row(D_SEQ, a), k % D_Q) = a
  <2> DEFINE w == model.heads * D_Q
             h == model.heads
  <2>1. /\ D_SEQ \in Nat /\ D_SEQ > 0 /\ D_Q \in Dims /\ h \in Nat /\ w \in Dims /\ w = h * D_Q
        /\ n \in 0 .. h - 1 /\ a \in 0 .. D_SEQ * w - 1
    BY <1>1, <1>2
  <2> HIDE DEF w, h
  <2>2. InBlock(D_SEQ, D_Q, n, a)
    BY <2>1, HeadBlock
  <2> QED
    BY <1>2, <2>2 DEF InBlock
<1> HIDE DEF base, k
<1>5. \A d : RowOf(d) = Row(D_SEQ, d) /\ ColOf(d) = Col(D_SEQ, d)
  BY DEF RowOf, ColOf, Row, Col
<1>6. \A i, c : Addr(i, c) = Pos(D_SEQ, i, c)
  BY DEF Addr, Pos
<1> QED
  BY <1>3, <1>4, <1>5, <1>6 DEF Rows, base, k

(* att_v adds the product of head n to a block that is blank. *)
LEMMA AttendedFacts ==
    ASSUME Uniform, model \in Models, NEW n \in Heads, NEW dot,
           \A i \in Rows, c \in 0 .. D_Q - 1 : dot[i][c] = Name("attended", n, i, c)
    PROVE  Multiply(Concatenated(D_SEQ, D_Q, model.heads, n, n), HeadOffset(n), D_Q, dot)
             = Concatenated(D_SEQ, D_Q, model.heads, n, n + 1)
<1> DEFINE s == D_SEQ
           q == D_Q
           h == model.heads
           size == s * (h * q)
           base == HeadOffset(n)
           old == Concatenated(s, q, h, n, n)
           new == Concatenated(s, q, h, n, n + 1)
<1>1. n \in Nat
  BY ShapeFacts DEF Heads
<1>2. DOMAIN old = 0 .. size - 1
  BY DEF Concatenated
<1>3. ASSUME NEW a \in 0 .. size - 1
      PROVE  new[a] = IF a \in base .. base + s * q - 1
                      THEN Plus(old[base + Addr(RowOf(a - base), ColOf(a - base))],
                                dot[RowOf(a - base)][ColOf(a - base)])
                      ELSE old[a]
  <2> DEFINE m == Col(s, a) \div q
             c == Col(s, a) % q
             i == Row(s, a)
  <2>1. /\ m \in Nat /\ (a \in base .. base + s * q - 1 <=> m = n)
        /\ a \in base .. base + s * q - 1 =>
              /\ RowOf(a - base) = i /\ ColOf(a - base) = c /\ i \in Rows /\ c \in 0 .. q - 1
              /\ base + Addr(i, c) = a
    BY BlockOfHead
  <2>2. /\ old[a] = IF m < n THEN Name("head", m, i, c)
                    ELSE IF m < n THEN Name("attended", m, i, c) ELSE Zero
        /\ new[a] = IF m < n THEN Name("head", m, i, c)
                    ELSE IF m < n + 1 THEN Name("attended", m, i, c) ELSE Zero
    BY DEF Concatenated
  <2> HIDE DEF m, c, i, base, old, new
  <2>3. CASE m = n
    <3>1. old[a] = Zero /\ new[a] = Name("attended", n, i, c)
      BY <1>1, <2>2, <2>3
    <3>2. dot[i][c] = Name("attended", n, i, c)
      BY <2>1, <2>3
    <3>3. Plus(Zero, dot[i][c]) = dot[i][c]
      BY DEF Plus, Zero
    <3> QED
      BY <2>1, <2>3, <3>1, <3>2, <3>3
  <2>4. CASE m # n
    <3>1. m < n + 1 <=> m < n
      BY <1>1, <2>1, <2>4
    <3>2. old[a] = new[a]
      BY <2>2, <3>1
    <3> QED
      BY <2>1, <2>4, <3>2
  <2> QED
    BY <2>3, <2>4
<1>4. new = [a \in 0 .. size - 1 |-> new[a]]
  BY DEF Concatenated
<1> HIDE DEF base, old, new, size
<1>5. Multiply(old, base, q, dot) = new
  BY <1>2, <1>3, <1>4 DEF Multiply, Store
<1> QED
  BY <1>5 DEF base, old, new

(* post_softmax turns it into the result of head n. *)
LEMMA ScaledFacts ==
    ASSUME Uniform, model \in Models, NEW old,
           head \in Heads, old = Concatenated(D_SEQ, D_Q, model.heads, head, head + 1)
    PROVE  Store(old, HeadOffset(head), D_Q,
                 LAMBDA i, c : Divided(old[HeadOffset(head) + Addr(i, c)], i, c))
             = Concatenated(D_SEQ, D_Q, model.heads, head + 1, head + 1)
<1> DEFINE s == D_SEQ
           q == D_Q
           h == model.heads
           n == head
           size == s * (h * q)
           base == HeadOffset(n)
           new == Concatenated(s, q, h, n + 1, n + 1)
<1>1. n \in Nat
  BY ShapeFacts DEF Heads
<1>2. DOMAIN old = 0 .. size - 1
  BY DEF Concatenated
<1>3. ASSUME NEW a \in 0 .. size - 1
      PROVE  new[a] = IF a \in base .. base + s * q - 1
                      THEN Divided(old[base + Addr(RowOf(a - base), ColOf(a - base))],
                                   RowOf(a - base), ColOf(a - base))
                      ELSE old[a]
  <2> DEFINE m == Col(s, a) \div q
             c == Col(s, a) % q
             i == Row(s, a)
  <2>1. /\ m \in Nat /\ (a \in base .. base + s * q - 1 <=> m = n)
        /\ a \in base .. base + s * q - 1 =>
              /\ RowOf(a - base) = i /\ ColOf(a - base) = c
              /\ base + Addr(i, c) = a
    BY BlockOfHead
  <2>2. /\ old[a] = IF m < n THEN Name("head", m, i, c)
                    ELSE IF m < n + 1 THEN Name("attended", m, i, c) ELSE Zero
        /\ new[a] = IF m < n + 1 THEN Name("head", m, i, c)
                    ELSE IF m < n + 1 THEN Name("attended", m, i, c) ELSE Zero
    BY DEF Concatenated
  <2> HIDE DEF m, c, i, base, new
  <2>3. CASE m = n
    <3>1. old[a] = Name("attended", n, i, c) /\ new[a] = Name("head", n, i, c)
      BY <1>1, <2>2, <2>3
    <3>2. Divided(old[a], i, c) = Name("head", n, i, c)
      BY <3>1 DEF Divided, Result, Uniform
    <3> QED
      BY <2>1, <2>3, <3>1, <3>2
  <2>4. CASE m # n
    <3>1. m < n + 1 <=> m < n
      BY <1>1, <2>1, <2>4
    <3>2. old[a] = new[a]
      BY <2>2, <3>1
    <3> QED
      BY <2>1, <2>4, <3>2
  <2> QED
    BY <2>3, <2>4
<1>4. new = [a \in 0 .. size - 1 |-> new[a]]
  BY DEF Concatenated
<1> HIDE DEF base, new, size
<1>5. Store(old, base, q, LAMBDA i, c : Divided(old[base + Addr(i, c)], i, c)) = new
  BY <1>2, <1>3, <1>4 DEF Store
<1> QED
  BY <1>5 DEF base, new

(* A blank buffer is the concatenation of no heads. *)
LEMMA NoHeads ==
    ASSUME model \in Models
    PROVE  Blank(D_SEQ * (model.heads * D_Q)) = Concatenated(D_SEQ, D_Q, model.heads, 0, 0)
<1>1. /\ D_SEQ \in Nat /\ D_SEQ > 0 /\ D_Q \in Nat /\ D_Q > 0 /\ model.heads * D_Q \in Dims
      /\ model.heads * D_Q \in Nat
  BY ShapeFacts, DimFacts
<1>2. ASSUME NEW a \in 0 .. D_SEQ * (model.heads * D_Q) - 1
      PROVE  ~ (Col(D_SEQ, a) \div D_Q < 0)
  <2> DEFINE k == Col(D_SEQ, a)
  <2>1. k \in 0 .. model.heads * D_Q - 1
    BY <1>1, AddressFacts
  <2> HIDE DEF k
  <2>2. k \in Nat
    BY <1>1, <2>1
  <2>3. PICK m \in Nat, c \in 0 .. D_Q - 1 : k = m * D_Q + c
    BY <1>1, <2>2, HasPlace
  <2>4. k \div D_Q = m
    BY <1>1, <2>3, DivMod
  <2> QED
    BY <2>3, <2>4 DEF k
<1> QED
  BY <1>2 DEF Blank, Concatenated

-----------------------------------------------------------------------------
(***************************************************************************)
(* The invariant: what every buffer holds, given the call st that is next  *)
(* and the head h it is for.  The heads below h have been through all of   *)
(* SingleHeadSelfAttn::compute, the ones above h have not begun.           *)
(***************************************************************************)

AfterSoftmax   == {"att_v", "post_softmax"}
AfterQKT       == {"softmax"} \cup AfterSoftmax
AfterTranspose == {"QKT"} \cup AfterQKT
AfterValue     == {"transpose"} \cup AfterTranspose
AfterKey       == {"value"} \cup AfterValue
AfterQuery     == {"key"} \cup AfterKey
HeadStages     == {"query"} \cup AfterQuery

AfterNorm1    == {"done"}
AfterFF1      == {"addNorm1"} \cup AfterNorm1
AfterFF0      == {"ff1"} \cup AfterFF1
AfterNorm0    == {"ff0"} \cup AfterFF0
AfterCondense == {"addNorm0"} \cup AfterNorm0
BlockStages   == {"condense"} \cup AfterCondense

(* Head n has made the call that is followed by the ones in after. *)
Past(after, n, st, h) == n < h \/ st \in BlockStages \/ (n = h /\ st \in after)

Layer(past, layer, n, s, cols) ==
    IF past THEN Tensor(layer, n, s, cols) ELSE Blank(s * cols)

Attention(n, s, q, st, h) ==
    [ query_layer_out |-> Layer(Past(AfterQuery, n, st, h), "query", n, s, q),
      key_layer_out   |-> Layer(Past(AfterKey, n, st, h), "key", n, s, q),
      value_layer_out |-> Layer(Past(AfterValue, n, st, h), "value", n, s, q),
      key_transposed_layer_out |->
          IF Past(AfterTranspose, n, st, h) THEN Swapped(n, s, q) ELSE Blank(s * q),
      attention_scores |->
          IF Past(AfterSoftmax, n, st, h) THEN Tensor("softmax", n, s, s)
          ELSE Layer(Past(AfterQKT, n, st, h), "score", n, s, s) ]

FinishedBelow(heads, st, h) == IF st \in HeadStages THEN h ELSE heads

AttendedBelow(heads, st, h) == IF st = "post_softmax" THEN h + 1 ELSE FinishedBelow(heads, st, h)

Tensors(s, q, heads, d, f, st, h) ==
    [ tensor_in      |-> Tensor("input", 0, s, d),
      out            |-> IF st \in AfterNorm1 THEN Tensor("norm1", 0, s, d)
                         ELSE Layer(st \in AfterFF1, "ff1", 0, s, d),
      multihead_out  |-> Concatenated(s, q, heads, FinishedBelow(heads, st, h),
                                      AttendedBelow(heads, st, h)),
      condense_out   |-> IF st \in AfterNorm0 THEN Tensor("norm0", 0, s, d)
                         ELSE Layer(st \in AfterCondense, "condense", 0, s, d),
      intermediateFF |-> Layer(st \in AfterFF0, "ff0", 0, s, f) ]

BlockInv ==
    /\ model \in Models /\ head \in Heads
    /\ stage \in {"start"} \cup HeadStages \cup BlockStages
    /\ stage # "start" =>
          /\ selfatten = [n \in Heads |-> Attention(n, D_SEQ, D_Q, stage, head)]
          /\ buf = Tensors(D_SEQ, D_Q, model.heads, D_MODEL, D_FF, stage, head)

(* A call of head h leaves the other heads alone. *)
LEMMA OtherHeads ==
    ASSUME NEW n \in Nat, NEW h \in Nat, n # h, NEW s, NEW q,
           NEW st \in HeadStages, NEW next \in HeadStages
    PROVE  Attention(n, s, q, st, h) = Attention(n, s, q, next, h)
<1>1. st \notin BlockStages /\ next \notin BlockStages
  BY DEF HeadStages, AfterQuery, AfterKey, AfterValue, AfterTranspose, AfterQKT, AfterSoftmax,
         BlockStages, AfterCondense, AfterNorm0, AfterFF0, AfterFF1, AfterNorm1
<1>2. \A after : Past(after, n, st, h) <=> Past(after, n, next, h)
  BY <1>1 DEF Past
<1> QED
  BY <1>2 DEF Attention, Layer

(* When a head has finished, the next one has not begun. *)
LEMMA HeadAfterHead ==
    ASSUME NEW n \in Nat, NEW h \in Nat, NEW s, NEW q
    PROVE  /\ Attention(n, s, q, "post_softmax", h) = Attention(n, s, q, "query", h + 1)
           /\ n <= h => Attention(n, s, q, "post_softmax", h) = Attention(n, s, q, "condense", h)
<1> DEFINE Afters == {AfterQuery, AfterKey, AfterValue, AfterTranspose, AfterQKT, AfterSoftmax}
<1>1. \A after \in Afters : "post_softmax" \in after /\ "query" \notin after
  BY DEF AfterQuery, AfterKey, AfterValue, AfterTranspose, AfterQKT, AfterSoftmax
<1>2. "query" \notin BlockStages /\ "post_softmax" \notin BlockStages /\ "condense" \in BlockStages
  BY DEF BlockStages, AfterCondense, AfterNorm0, AfterFF0, AfterFF1, AfterNorm1
<1>3. n < h + 1 <=> n < h \/ n = h
  OBVIOUS
<1>4. n <= h <=> n < h \/ n = h
  OBVIOUS
<1>5. \A after \in Afters :
         /\ Past(after, n, "post_softmax", h) <=> Past(after, n, "query", h + 1)
         /\ n <= h => (Past(after, n, "post_softmax", h) <=> Past(after, n, "condense", h))
  BY <1>1, <1>2, <1>3, <1>4 DEF Past
<1> QED
  BY <1>5 DEF Attention, Layer

(* The buffers of a head, call by call. *)
LEMMA HeadBuffers ==
    ASSUME NEW h \in Nat, NEW s, NEW q, NEW st \in HeadStages
    PROVE  Attention(h, s, q, st, h) =
             [ query_layer_out |-> Layer(st \in AfterQuery, "query", h, s, q),
               key_layer_out   |-> Layer(st \in AfterKey, "key", h, s, q),
               value_layer_out |-> Layer(st \in AfterValue, "value", h, s, q),
               key_transposed_layer_out |->
                   IF st \in AfterTranspose THEN Swapped(h, s, q) ELSE Blank(s * q),
               attention_scores |->
                   IF st \in AfterSoftmax THEN Tensor("softmax", h, s, s)
                   ELSE Layer(st \in AfterQKT, "score", h, s, s) ]
<1>1. st \notin BlockStages
  BY DEF HeadStages, AfterQuery, AfterKey, AfterValue, AfterTranspose, AfterQKT, AfterSoftmax,
         BlockStages, AfterCondense, AfterNorm0, AfterFF0, AfterFF1, AfterNorm1
<1>2. \A after : Past(after, h, st, h) <=> st \in after
  BY <1>1 DEF Past
<1> QED
  BY <1>2 DEF Attention, Layer

-----------------------------------------------------------------------------
(* The steps. *)

LEMMA SameShape ==
    ASSUME model' = model
    PROVE  /\ D_SEQ' = D_SEQ /\ D_Q' = D_Q /\ D_MODEL' = D_MODEL /\ D_FF' = D_FF
           /\ Heads' = Heads
  BY DEF D_SEQ, D_Q, D_MODEL, D_FF, Heads

LEMMA InitInv == Init => BlockInv
<1> SUFFICES ASSUME Init PROVE BlockInv
  OBVIOUS
<1>1. model.heads \in Nat /\ model.heads > 0
  BY ShapeFacts DEF Init
<1>2. head \in Heads
  BY <1>1 DEF Init, Heads
<1> QED
  BY <1>2 DEF Init, BlockInv

(* The buffers of inference, before the block. *)
LEMMA TensorsOfHeads ==
    ASSUME NEW s, NEW q, NEW heads, NEW d, NEW f, NEW h, NEW st \in HeadStages
    PROVE  Tensors(s, q, heads, d, f, st, h) =
             [ tensor_in      |-> Tensor("input", 0, s, d),
               out            |-> Blank(s * d),
               multihead_out  |-> Concatenated(s, q, heads, h,
                                               IF st = "post_softmax" THEN h + 1 ELSE h),
               condense_out   |-> Blank(s * d),
               intermediateFF |-> Blank(s * f) ]
<1>1. /\ st \notin AfterNorm1 /\ st \notin AfterFF1 /\ st \notin AfterNorm0
      /\ st \notin AfterCondense /\ st \notin AfterFF0
  BY DEF HeadStages, AfterQuery, AfterKey, AfterValue, AfterTranspose, AfterQKT, AfterSoftmax,
         AfterCondense, AfterNorm0, AfterFF0, AfterFF1, AfterNorm1
<1> QED
  BY <1>1 DEF Tensors, Layer, FinishedBelow, AttendedBelow

LEMMA InferenceStep == BlockInv /\ inference => BlockInv'
<1> SUFFICES ASSUME BlockInv, inference PROVE BlockInv'
  OBVIOUS
<1>1. model \in Models /\ model' = model /\ stage' = "query" /\ head' = 0
  BY DEF BlockInv, inference
<1>2. /\ D_SEQ \in Nat /\ D_SEQ \in Dims /\ D_Q \in Dims /\ D_MODEL \in Dims /\ D_FF \in Dims
      /\ model.heads \in Nat /\ model.heads > 0 /\ model.heads * D_Q \in Dims
      /\ D_SEQ * model.heads * D_Q = D_SEQ * (model.heads * D_Q)
  BY <1>1, ShapeFacts
<1>3. ASSUME NEW n \in Heads
      PROVE  NewAttention = Attention(n, D_SEQ, D_Q, "query", 0)
  <2>1. n \in Nat /\ ~ (n < 0)
    BY <1>2 DEF Heads
  <2>2. "query" \notin BlockStages /\ "query" \notin AfterQuery
    BY DEF BlockStages, AfterCondense, AfterNorm0, AfterFF0, AfterFF1, AfterNorm1,
           AfterQuery, AfterKey, AfterValue, AfterTranspose, AfterQKT, AfterSoftmax
  <2>3. /\ ~ Past(AfterQuery, n, "query", 0) /\ ~ Past(AfterKey, n, "query", 0)
        /\ ~ Past(AfterValue, n, "query", 0) /\ ~ Past(AfterTranspose, n, "query", 0)
        /\ ~ Past(AfterQKT, n, "query", 0) /\ ~ Past(AfterSoftmax, n, "query", 0)
    BY <2>1, <2>2 DEF Past, AfterQuery, AfterKey, AfterValue, AfterTranspose, AfterQKT
  <2>4. /\ NewBuffer(D_SEQ * D_Q) = Blank(D_SEQ * D_Q)
        /\ NewBuffer(D_SEQ * D_SEQ) = Blank(D_SEQ * D_SEQ)
    BY <1>2, NewBufferFacts
  <2> QED
    BY <2>3, <2>4 DEF NewAttention, Attention, Layer
<1>4. NewTensors = Tensors(D_SEQ, D_Q, model.heads, D_MODEL, D_FF, "query", 0)
  <2>1. /\ NewBuffer(D_SEQ * D_MODEL) = Blank(D_SEQ * D_MODEL)
        /\ NewBuffer(D_SEQ * D_FF) = Blank(D_SEQ * D_FF)
    BY <1>2, NewBufferFacts
  <2>2. NewBuffer(D_SEQ * model.heads * D_Q) = Concatenated(D_SEQ, D_Q, model.heads, 0, 0)
    <3> DEFINE w == model.heads * D_Q
    <3>1. w \in Dims
      BY <1>2
    <3> HIDE DEF w
    <3>2. NewBuffer(D_SEQ * w) = Blank(D_SEQ * w)
      BY <1>2, <3>1, NewBufferFacts
    <3> QED
      BY <1>1, <1>2, <3>2, NoHeads DEF w
  <2>3. [a \in 0 .. D_SEQ * D_MODEL - 1 |-> Name("input", 0, RowOf(a), ColOf(a))]
          = Tensor("input", 0, D_SEQ, D_MODEL)
    BY DEF Tensor, RowOf, ColOf, Row, Col
  <2>4. "query" \in HeadStages
    BY DEF HeadStages
  <2>5. Tensors(D_SEQ, D_Q, model.heads, D_MODEL, D_FF, "query", 0) =
          [ tensor_in      |-> Tensor("input", 0, D_SEQ, D_MODEL),
            out            |-> Blank(D_SEQ * D_MODEL),
            multihead_out  |-> Concatenated(D_SEQ, D_Q, model.heads, 0, 0),
            condense_out   |-> Blank(D_SEQ * D_MODEL),
            intermediateFF |-> Blank(D_SEQ * D_FF) ]
    BY <2>4, TensorsOfHeads
  <2> QED
    BY <2>1, <2>2, <2>3, <2>5 DEF NewTensors
<1>5. selfatten' = [n \in Heads |-> Attention(n, D_SEQ, D_Q, "query", 0)]
  BY <1>3 DEF inference
<1>6. buf' = Tensors(D_SEQ, D_Q, model.heads, D_MODEL, D_FF, "query", 0)
  BY <1>4 DEF inference
<1>7. 0 \in Heads /\ "query" \in HeadStages
  BY <1>2 DEF Heads, HeadStages
<1> QED
  BY <1>1, <1>5, <1>6, <1>7, SameShape DEF BlockInv

LEMMA DeleteStep == BlockInv /\ delete => BlockInv'
  BY SameShape DEF BlockInv, delete

(* A call of SingleHeadSelfAttn::compute that only changes the buffers of  *)
(* its head.                                                               *)
LEMMA HeadCall ==
    ASSUME BlockInv, stage \in HeadStages, stage # "post_softmax",
           stage' \in HeadStages, stage' # "post_softmax",
           selfatten' = [selfatten EXCEPT ![head] = Attention(head, D_SEQ, D_Q, stage', head)],
           model' = model, head' = head, buf' = buf
    PROVE  BlockInv'
<1> DEFINE next == stage'
<1>1. /\ model \in Models /\ head \in Heads /\ stage # "start"
      /\ selfatten = [n \in Heads |-> Attention(n, D_SEQ, D_Q, stage, head)]
      /\ buf = Tensors(D_SEQ, D_Q, model.heads, D_MODEL, D_FF, stage, head)
  BY DEF BlockInv, HeadStages, AfterQuery, AfterKey, AfterValue, AfterTranspose, AfterQKT,
         AfterSoftmax
<1>2. Heads \subseteq Nat
  BY <1>1, ShapeFacts DEF Heads
<1>3. ASSUME NEW n \in Heads
      PROVE  selfatten'[n] = Attention(n, D_SEQ, D_Q, next, head)
  <2>1. CASE n = head
    BY <1>1, <2>1
  <2>2. CASE n # head
    <3>1. Attention(n, D_SEQ, D_Q, stage, head) = Attention(n, D_SEQ, D_Q, next, head)
      BY <1>1, <1>2, <2>2, OtherHeads
    <3> QED
      BY <1>1, <2>2, <3>1
  <2> QED
    BY <2>1, <2>2
<1>4. selfatten' = [n \in Heads |-> Attention(n, D_SEQ, D_Q, next, head)]
  <2>1. selfatten' = [n \in Heads |-> selfatten'[n]]
    BY <1>1
  <2> QED
    BY <1>3, <2>1
<1>5. buf' = Tensors(D_SEQ, D_Q, model.heads, D_MODEL, D_FF, next, head)
  BY <1>1, TensorsOfHeads
<1> QED
  BY <1>1, <1>4, <1>5, SameShape DEF BlockInv

LEMMA StagesOfHead ==
    /\ "query" \in HeadStages /\ "key" \in HeadStages /\ "value" \in HeadStages
    /\ "transpose" \in HeadStages /\ "QKT" \in HeadStages /\ "softmax" \in HeadStages
    /\ "att_v" \in HeadStages /\ "post_softmax" \in HeadStages /\ "start" \notin HeadStages
  BY DEF HeadStages, AfterQuery, AfterKey, AfterValue, AfterTranspose, AfterQKT, AfterSoftmax

(* What the layers of a head find. *)
LEMMA HeadState ==
    ASSUME BlockInv, stage \in HeadStages
    PROVE  /\ model \in Models /\ head \in Heads /\ head \in Nat
           /\ DOMAIN selfatten = Heads
           /\ selfatten[head] = Attention(head, D_SEQ, D_Q, stage, head)
           /\ buf = Tensors(D_SEQ, D_Q, model.heads, D_MODEL, D_FF, stage, head)
           /\ buf.tensor_in = Tensor("input", 0, D_SEQ, D_MODEL)
<1>1. /\ model \in Models /\ head \in Heads
      /\ selfatten = [n \in Heads |-> Attention(n, D_SEQ, D_Q, stage, head)]
      /\ buf = Tensors(D_SEQ, D_Q, model.heads, D_MODEL, D_FF, stage, head)
  BY StagesOfHead DEF BlockInv
<1>2. head \in Nat
  BY <1>1, ShapeFacts DEF Heads
<1>3. buf.tensor_in = Tensor("input", 0, D_SEQ, D_MODEL)
  BY <1>1, TensorsOfHeads
<1> QED
  BY <1>1, <1>2, <1>3

(* Queries, keys and values: the product of the input with the kernel of   *)
(* the layer.                                                              *)
LEMMA QueryKeyValueProduct ==
    ASSUME BlockInv, stage \in HeadStages, NEW layer, NEW x,
           HeadKernel(head, x) = <<layer, head>>
    PROVE  Multiply(Blank(D_SEQ * D_Q), 0, D_Q,
                    DenseCompute(layer, head, HeadKernel(head, x), buf.tensor_in, "input",
                                 D_MODEL, D_Q))
             = Tensor(layer, head, D_SEQ, D_Q)
<1> DEFINE dot == DenseCompute(layer, head, HeadKernel(head, x), buf.tensor_in, "input",
                               D_MODEL, D_Q)
<1>1. model \in Models /\ buf.tensor_in = Tensor("input", 0, D_SEQ, D_MODEL)
  BY HeadState
<1>2. D_MODEL \in Dims /\ D_Q \in Dims
  BY <1>1, ShapeFacts
<1>3. \A i \in Rows : \A k \in 0 .. D_MODEL - 1 :
         Load(buf.tensor_in, Addr(i, k)) = Operand("input", i, k)
  BY <1>1, <1>2, OperandFacts
<1>4. \A i \in Rows, c \in 0 .. D_Q - 1 : dot[i][c] = Name(layer, head, i, c)
  BY <1>3, DenseFacts
<1> HIDE DEF dot
<1>5. Multiply(Blank(D_SEQ * D_Q), 0, D_Q, dot) = Tensor(layer, head, D_SEQ, D_Q)
  BY <1>1, <1>2, <1>4, MultiplyFacts
<1> QED
  BY <1>5 DEF dot

LEMMA QueryStep == BlockInv /\ query_layer => BlockInv'
<1> SUFFICES ASSUME BlockInv, query_layer PROVE BlockInv'
  OBVIOUS
<1>1. stage = "query" /\ stage' = "key" /\ UNCHANGED <<model, run, head, buf>>
  BY DEF query_layer, QueryKeyValue, Step
<1>2. /\ model \in Models /\ head \in Heads /\ head \in Nat /\ DOMAIN selfatten = Heads
      /\ selfatten[head] = Attention(head, D_SEQ, D_Q, "query", head)
  BY <1>1, HeadState, StagesOfHead
<1>3. Multiply(Blank(D_SEQ * D_Q), 0, D_Q,
               DenseCompute("query", head, HeadKernel(head, 0), buf.tensor_in, "input",
                            D_MODEL, D_Q))
        = Tensor("query", head, D_SEQ, D_Q)
  BY <1>1, <1>2, KernelFacts, QueryKeyValueProduct, StagesOfHead
<1>4. selfatten[head].query_layer_out = Blank(D_SEQ * D_Q)
  BY <1>2, HeadBuffers, StagesOfHead
     DEF Layer, AfterQuery, AfterKey, AfterValue, AfterTranspose, AfterQKT, AfterSoftmax
<1>5. selfatten' = [selfatten EXCEPT ![head] =
                       [@ EXCEPT !.query_layer_out = Tensor("query", head, D_SEQ, D_Q)]]
  BY <1>2, <1>3, <1>4 DEF query_layer, QueryKeyValue
<1>6. [Attention(head, D_SEQ, D_Q, "query", head) EXCEPT
          !.query_layer_out = Tensor("query", head, D_SEQ, D_Q)]
        = Attention(head, D_SEQ, D_Q, "key", head)
  BY <1>2, HeadBuffers, StagesOfHead
     DEF Layer, AfterQuery, AfterKey, AfterValue, AfterTranspose, AfterQKT, AfterSoftmax
<1>7. selfatten' = [selfatten EXCEPT ![head] = Attention(head, D_SEQ, D_Q, "key", head)]
  BY <1>2, <1>5, <1>6
<1>8. stage' \in HeadStages /\ stage \in HeadStages
  BY <1>1, StagesOfHead
<1> QED
  BY <1>1, <1>7, <1>8, HeadCall

LEMMA KeyStep == BlockInv /\ key_layer => BlockInv'
<1> SUFFICES ASSUME BlockInv, key_layer PROVE BlockInv'
  OBVIOUS
<1>1. stage = "key" /\ stage' = "value" /\ UNCHANGED <<model, run, head, buf>>
  BY DEF key_layer, QueryKeyValue, Step
<1>2. /\ model \in Models /\ head \in Heads /\ head \in Nat /\ DOMAIN selfatten = Heads
      /\ selfatten[head] = Attention(head, D_SEQ, D_Q, "key", head)
  BY <1>1, HeadState, StagesOfHead
<1>3. Multiply(Blank(D_SEQ * D_Q), 0, D_Q,
               DenseCompute("key", head, HeadKernel(head, 1), buf.tensor_in, "input",
                            D_MODEL, D_Q))
        = Tensor("key", head, D_SEQ, D_Q)
  BY <1>1, <1>2, KernelFacts, QueryKeyValueProduct, StagesOfHead
<1>4. selfatten[head].key_layer_out = Blank(D_SEQ * D_Q)
  BY <1>2, HeadBuffers, StagesOfHead
     DEF Layer, AfterQuery, AfterKey, AfterValue, AfterTranspose, AfterQKT, AfterSoftmax
<1>5. selfatten' = [selfatten EXCEPT ![head] =
                       [@ EXCEPT !.key_layer_out = Tensor("key", head, D_SEQ, D_Q)]]
  BY <1>2, <1>3, <1>4 DEF key_layer, QueryKeyValue
<1>6. [Attention(head, D_SEQ, D_Q, "key", head) EXCEPT
          !.key_layer_out = Tensor("key", head, D_SEQ, D_Q)]
        = Attention(head, D_SEQ, D_Q, "value", head)
  BY <1>2, HeadBuffers, StagesOfHead
     DEF Layer, AfterQuery, AfterKey, AfterValue, AfterTranspose, AfterQKT, AfterSoftmax
<1>7. selfatten' = [selfatten EXCEPT ![head] = Attention(head, D_SEQ, D_Q, "value", head)]
  BY <1>2, <1>5, <1>6
<1>8. stage' \in HeadStages /\ stage \in HeadStages
  BY <1>1, StagesOfHead
<1> QED
  BY <1>1, <1>7, <1>8, HeadCall

LEMMA ValueStep == BlockInv /\ value_layer => BlockInv'
<1> SUFFICES ASSUME BlockInv, value_layer PROVE BlockInv'
  OBVIOUS
<1>1. stage = "value" /\ stage' = "transpose" /\ UNCHANGED <<model, run, head, buf>>
  BY DEF value_layer, QueryKeyValue, Step
<1>2. /\ model \in Models /\ head \in Heads /\ head \in Nat /\ DOMAIN selfatten = Heads
      /\ selfatten[head] = Attention(head, D_SEQ, D_Q, "value", head)
  BY <1>1, HeadState, StagesOfHead
<1>3. Multiply(Blank(D_SEQ * D_Q), 0, D_Q,
               DenseCompute("value", head, HeadKernel(head, 2), buf.tensor_in, "input",
                            D_MODEL, D_Q))
        = Tensor("value", head, D_SEQ, D_Q)
  BY <1>1, <1>2, KernelFacts, QueryKeyValueProduct, StagesOfHead
<1>4. selfatten[head].value_layer_out = Blank(D_SEQ * D_Q)
  BY <1>2, HeadBuffers, StagesOfHead
     DEF Layer, AfterQuery, AfterKey, AfterValue, AfterTranspose, AfterQKT, AfterSoftmax
<1>5. selfatten' = [selfatten EXCEPT ![head] =
                       [@ EXCEPT !.value_layer_out = Tensor("value", head, D_SEQ, D_Q)]]
  BY <1>2, <1>3, <1>4 DEF value_layer, QueryKeyValue
<1>6. [Attention(head, D_SEQ, D_Q, "value", head) EXCEPT
          !.value_layer_out = Tensor("value", head, D_SEQ, D_Q)]
        = Attention(head, D_SEQ, D_Q, "transpose", head)
  BY <1>2, HeadBuffers, StagesOfHead
     DEF Layer, AfterQuery, AfterKey, AfterValue, AfterTranspose, AfterQKT, AfterSoftmax
<1>7. selfatten' = [selfatten EXCEPT ![head] = Attention(head, D_SEQ, D_Q, "transpose", head)]
  BY <1>2, <1>5, <1>6
<1>8. stage' \in HeadStages /\ stage \in HeadStages
  BY <1>1, StagesOfHead
<1> QED
  BY <1>1, <1>7, <1>8, HeadCall

LEMMA TransposeStep == BlockInv /\ transpose_rearranged => BlockInv'
<1> SUFFICES ASSUME BlockInv, transpose_rearranged PROVE BlockInv'
  OBVIOUS
<1>1. stage = "transpose" /\ stage' = "QKT" /\ UNCHANGED <<model, run, head, buf>>
  BY DEF transpose_rearranged, Step
<1>2. /\ model \in Models /\ head \in Heads /\ head \in Nat /\ DOMAIN selfatten = Heads
      /\ selfatten[head] = Attention(head, D_SEQ, D_Q, "transpose", head)
  BY <1>1, HeadState, StagesOfHead
<1>3. selfatten[head].key_layer_out = Tensor("key", head, D_SEQ, D_Q)
  BY <1>2, HeadBuffers, StagesOfHead
     DEF Layer, AfterQuery, AfterKey, AfterValue, AfterTranspose, AfterQKT, AfterSoftmax
<1>4. Transposed(selfatten[head].key_layer_out) = Swapped(head, D_SEQ, D_Q)
  BY <1>2, <1>3, TransposedFacts
<1>5. selfatten' = [selfatten EXCEPT ![head] =
                       [@ EXCEPT !.key_transposed_layer_out = Swapped(head, D_SEQ, D_Q)]]
  BY <1>2, <1>4 DEF transpose_rearranged
<1>6. [Attention(head, D_SEQ, D_Q, "transpose", head) EXCEPT
          !.key_transposed_layer_out = Swapped(head, D_SEQ, D_Q)]
        = Attention(head, D_SEQ, D_Q, "QKT", head)
  BY <1>2, HeadBuffers, StagesOfHead
     DEF Layer, AfterQuery, AfterKey, AfterValue, AfterTranspose, AfterQKT, AfterSoftmax
<1>7. selfatten' = [selfatten EXCEPT ![head] = Attention(head, D_SEQ, D_Q, "QKT", head)]
  BY <1>2, <1>5, <1>6
<1>8. stage' \in HeadStages /\ stage \in HeadStages
  BY <1>1, StagesOfHead
<1> QED
  BY <1>1, <1>7, <1>8, HeadCall

LEMMA QKTStep == Uniform /\ BlockInv /\ QKT => BlockInv'
<1> SUFFICES ASSUME Uniform, BlockInv, QKT PROVE BlockInv'
  OBVIOUS
<1> DEFINE s == selfatten[head]
           score == [i \in Rows |-> [c \in 0 .. D_SEQ - 1 |->
               Result(\A k \in 0 .. D_Q - 1 :
                         /\ Load(s.query_layer_out, Addr(i, k)) = Name("query", head, i, k)
                         /\ LoadWeight(s.key_transposed_layer_out, D_Q, k, c)
                               = Name("key", head, c, k),
                      Name("score", head, i, c))]]
<1>1. stage = "QKT" /\ stage' = "softmax" /\ UNCHANGED <<model, run, head, buf>>
  BY DEF QKT, Step
<1>2. /\ model \in Models /\ head \in Heads /\ head \in Nat /\ DOMAIN selfatten = Heads
      /\ s = Attention(head, D_SEQ, D_Q, "QKT", head)
  BY <1>1, HeadState, StagesOfHead
<1>3. /\ s.query_layer_out = Tensor("query", head, D_SEQ, D_Q)
      /\ s.key_transposed_layer_out = Swapped(head, D_SEQ, D_Q)
      /\ s.attention_scores = Blank(D_SEQ * D_SEQ)
  BY <1>2, HeadBuffers, StagesOfHead
     DEF Layer, AfterQuery, AfterKey, AfterValue, AfterTranspose, AfterQKT, AfterSoftmax
<1>4. \A i \in Rows, c \in 0 .. D_SEQ - 1 : score[i][c] = Name("score", head, i, c)
  <2> SUFFICES ASSUME NEW i \in Rows, NEW c \in 0 .. D_SEQ - 1
               PROVE  score[i][c] = Name("score", head, i, c)
    OBVIOUS
  <2>1. \A k \in 0 .. D_Q - 1 :
           /\ Load(s.query_layer_out, Addr(i, k)) = Name("query", head, i, k)
           /\ LoadWeight(s.key_transposed_layer_out, D_Q, k, c) = Name("key", head, c, k)
    BY <1>2, <1>3, QKTFacts DEF Uniform
  <2> HIDE DEF s
  <2> QED
    BY <2>1 DEF Result
<1>5. selfatten' = [selfatten EXCEPT ![head].attention_scores = Multiply(@, 0, D_SEQ, score)]
  BY DEF QKT
<1> HIDE DEF score
<1>6. Multiply(Blank(D_SEQ * D_SEQ), 0, D_SEQ, score) = Tensor("score", head, D_SEQ, D_SEQ)
  BY <1>2, <1>4, MultiplyFacts, ShapeFacts
<1>7. selfatten' = [selfatten EXCEPT ![head] =
                       [@ EXCEPT !.attention_scores = Tensor("score", head, D_SEQ, D_SEQ)]]
  BY <1>2, <1>3, <1>5, <1>6
<1>8. [Attention(head, D_SEQ, D_Q, "QKT", head) EXCEPT
          !.attention_scores = Tensor("score", head, D_SEQ, D_SEQ)]
        = Attention(head, D_SEQ, D_Q, "softmax", head)
  BY <1>2, HeadBuffers, StagesOfHead
     DEF Layer, AfterQuery, AfterKey, AfterValue, AfterTranspose, AfterQKT, AfterSoftmax
<1>9. selfatten' = [selfatten EXCEPT ![head] = Attention(head, D_SEQ, D_Q, "softmax", head)]
  BY <1>2, <1>7, <1>8
<1>10. stage' \in HeadStages /\ stage \in HeadStages
  BY <1>1, StagesOfHead
<1> QED
  BY <1>1, <1>9, <1>10, HeadCall

LEMMA SoftmaxStep == BlockInv /\ softmax => BlockInv'
<1> SUFFICES ASSUME BlockInv, softmax PROVE BlockInv'
  OBVIOUS
<1> DEFINE scores == selfatten[head].attention_scores
           Weight(i, c) == Result(\A k \in 0 .. D_SEQ - 1 :
                                     Load(scores, RowAddr(i, k)) = Name("score", head, i, k),
                                  Name("softmax", head, i, c))
<1>1. stage = "softmax" /\ stage' = "att_v" /\ UNCHANGED <<model, run, head, buf>>
  BY DEF softmax, Step
<1>2. /\ model \in Models /\ head \in Heads /\ head \in Nat /\ DOMAIN selfatten = Heads
      /\ selfatten[head] = Attention(head, D_SEQ, D_Q, "softmax", head)
  BY <1>1, HeadState, StagesOfHead
<1>3. scores = Tensor("score", head, D_SEQ, D_SEQ)
  BY <1>2, HeadBuffers, StagesOfHead
     DEF Layer, AfterQuery, AfterKey, AfterValue, AfterTranspose, AfterQKT, AfterSoftmax
<1>4. Store(scores, 0, D_SEQ, Weight) = Tensor("softmax", head, D_SEQ, D_SEQ)
  BY <1>2, <1>3, SoftmaxFacts DEF Store
<1>5. selfatten' = [selfatten EXCEPT ![head] =
                       [@ EXCEPT !.attention_scores = Tensor("softmax", head, D_SEQ, D_SEQ)]]
  BY <1>2, <1>4 DEF softmax
<1>6. [Attention(head, D_SEQ, D_Q, "softmax", head) EXCEPT
          !.attention_scores = Tensor("softmax", head, D_SEQ, D_SEQ)]
        = Attention(head, D_SEQ, D_Q, "att_v", head)
  BY <1>2, HeadBuffers, StagesOfHead
     DEF Layer, AfterQuery, AfterKey, AfterValue, AfterTranspose, AfterQKT, AfterSoftmax
<1>7. selfatten' = [selfatten EXCEPT ![head] = Attention(head, D_SEQ, D_Q, "att_v", head)]
  BY <1>2, <1>5, <1>6
<1>8. stage' \in HeadStages /\ stage \in HeadStages
  BY <1>1, StagesOfHead
<1> QED
  BY <1>1, <1>7, <1>8, HeadCall

LEMMA AttVStep == Uniform /\ BlockInv /\ att_v => BlockInv'
<1> SUFFICES ASSUME Uniform, BlockInv, att_v PROVE BlockInv'
  OBVIOUS
<1> DEFINE s == selfatten[head]
           h == model.heads
           attended == [i \in Rows |-> [c \in 0 .. D_Q - 1 |->
               Result(\A k \in 0 .. D_SEQ - 1 :
                         /\ Load(s.attention_scores, Addr(i, k)) = Name("softmax", head, i, k)
                         /\ LoadWeight(s.value_layer_out, D_SEQ, k, c)
                               = Name("value", head, k, c),
                      Name("attended", head, i, c))]]
<1>1. stage = "att_v" /\ stage' = "post_softmax" /\ UNCHANGED <<model, run, head, selfatten>>
  BY DEF att_v, Step
<1>2. /\ model \in Models /\ head \in Heads /\ head \in Nat
      /\ s = Attention(head, D_SEQ, D_Q, "att_v", head)
      /\ buf = Tensors(D_SEQ, D_Q, h, D_MODEL, D_FF, "att_v", head)
  BY <1>1, HeadState, StagesOfHead
<1>3. /\ s.value_layer_out = Tensor("value", head, D_SEQ, D_Q)
      /\ s.attention_scores = Tensor("softmax", head, D_SEQ, D_SEQ)
  BY <1>2, HeadBuffers, StagesOfHead
     DEF Layer, AfterQuery, AfterKey, AfterValue, AfterTranspose, AfterQKT, AfterSoftmax
<1>4. \A i \in Rows, c \in 0 .. D_Q - 1 : attended[i][c] = Name("attended", head, i, c)
  <2> SUFFICES ASSUME NEW i \in Rows, NEW c \in 0 .. D_Q - 1
               PROVE  attended[i][c] = Name("attended", head, i, c)
    OBVIOUS
  <2>1. \A k \in 0 .. D_SEQ - 1 :
           /\ Load(s.attention_scores, Addr(i, k)) = Name("softmax", head, i, k)
           /\ LoadWeight(s.value_layer_out, D_SEQ, k, c) = Name("value", head, k, c)
    BY <1>2, <1>3, AttVFacts DEF Uniform
  <2> HIDE DEF s
  <2> QED
    BY <2>1 DEF Result
<1>5. buf' = [buf EXCEPT !.multihead_out = Multiply(@, HeadOffset(head), D_Q, attended)]
  BY DEF att_v
<1> HIDE DEF attended
<1>6. Multiply(Concatenated(D_SEQ, D_Q, h, head, head), HeadOffset(head), D_Q, attended)
        = Concatenated(D_SEQ, D_Q, h, head, head + 1)
  BY <1>2, <1>4, AttendedFacts
<1>7. buf' = Tensors(D_SEQ, D_Q, h, D_MODEL, D_FF, "post_softmax", head)
  <2>1. "att_v" \in HeadStages /\ "post_softmax" \in HeadStages
    BY StagesOfHead
  <2>2. buf.multihead_out = Concatenated(D_SEQ, D_Q, h, head, head)
    BY <1>2, <2>1, TensorsOfHeads
  <2>3. buf' = [buf EXCEPT !.multihead_out = Concatenated(D_SEQ, D_Q, h, head, head + 1)]
    BY <1>5, <1>6, <2>2
  <2> QED
    BY <1>2, <2>1, <2>3, TensorsOfHeads
<1>8. ASSUME NEW n \in Heads
      PROVE  Attention(n, D_SEQ, D_Q, "att_v", head) = Attention(n, D_SEQ, D_Q, "post_softmax", head)
  <2>1. n \in Nat
    BY <1>2, ShapeFacts DEF Heads
  <2>2. CASE n = head
    BY <1>2, <2>2, HeadBuffers, StagesOfHead
       DEF AfterQuery, AfterKey, AfterValue, AfterTranspose, AfterQKT, AfterSoftmax
  <2>3. CASE n # head
    BY <1>2, <2>1, <2>3, OtherHeads, StagesOfHead
  <2> QED
    BY <2>2, <2>3
<1>9. selfatten' = [n \in Heads |-> Attention(n, D_SEQ, D_Q, "post_softmax", head)]
  <2>1. selfatten = [n \in Heads |-> Attention(n, D_SEQ, D_Q, "att_v", head)]
    BY <1>1 DEF BlockInv
  <2> QED
    BY <1>1, <1>8, <2>1
<1> QED
  BY <1>1, <1>2, <1>7, <1>9, SameShape, StagesOfHead DEF BlockInv

LEMMA PostSoftmaxStep == Uniform /\ BlockInv /\ post_softmax => BlockInv'
<1> SUFFICES ASSUME Uniform, BlockInv, post_softmax PROVE BlockInv'
  OBVIOUS
<1> DEFINE h == model.heads
           old == buf.multihead_out
           base == HeadOffset(head)
           Scaled(i, c) == Divided(old[base + Addr(i, c)], i, c)
           new == Concatenated(D_SEQ, D_Q, h, head + 1, head + 1)
<1>1. stage = "post_softmax" /\ model' = model /\ selfatten' = selfatten /\ NextHead
  BY DEF post_softmax
<1>2. /\ model \in Models /\ head \in Heads /\ head \in Nat
      /\ buf = Tensors(D_SEQ, D_Q, h, D_MODEL, D_FF, "post_softmax", head)
      /\ h \in Nat /\ head < h /\ "post_softmax" \in HeadStages
  BY <1>1, HeadState, StagesOfHead, ShapeFacts DEF Heads
<1>3. buf = [ tensor_in      |-> Tensor("input", 0, D_SEQ, D_MODEL),
              out            |-> Blank(D_SEQ * D_MODEL),
              multihead_out  |-> Concatenated(D_SEQ, D_Q, h, head, head + 1),
              condense_out   |-> Blank(D_SEQ * D_MODEL),
              intermediateFF |-> Blank(D_SEQ * D_FF) ]
  BY <1>2, TensorsOfHeads
<1>4. old = Concatenated(D_SEQ, D_Q, h, head, head + 1)
  BY <1>3
<1>5. Store(old, base, D_Q, Scaled) = new
  <2> HIDE DEF old
  <2> QED
    BY <1>2, <1>4, ScaledFacts DEF Store
<1>6. buf' = [buf EXCEPT !.multihead_out = new]
  BY <1>5 DEF post_softmax
<1>7. buf' = [ tensor_in      |-> Tensor("input", 0, D_SEQ, D_MODEL),
               out            |-> Blank(D_SEQ * D_MODEL),
               multihead_out  |-> new,
               condense_out   |-> Blank(D_SEQ * D_MODEL),
               intermediateFF |-> Blank(D_SEQ * D_FF) ]
  <2> HIDE DEF new
  <2> QED
    BY <1>3, <1>6
<1>8. selfatten = [n \in Heads |-> Attention(n, D_SEQ, D_Q, "post_softmax", head)]
  BY <1>1 DEF BlockInv
<1>9. CASE head + 1 < h
  <2>1. stage' = "query" /\ head' = head + 1
    BY <1>1, <1>9 DEF NextHead
  <2>2. head + 1 \in Heads
    BY <1>2, <1>9 DEF Heads
  <2>3. buf' = Tensors(D_SEQ, D_Q, h, D_MODEL, D_FF, "query", head + 1)
    BY <1>7, TensorsOfHeads, StagesOfHead
  <2>4. selfatten' = [n \in Heads |-> Attention(n, D_SEQ, D_Q, "query", head + 1)]
    <3>1. \A n \in Heads : Attention(n, D_SEQ, D_Q, "post_softmax", head)
                             = Attention(n, D_SEQ, D_Q, "query", head + 1)
      BY <1>2, HeadAfterHead DEF Heads
    <3> QED
      BY <1>1, <1>8, <3>1
  <2> QED
    BY <1>1, <1>2, <2>1, <2>2, <2>3, <2>4, SameShape, StagesOfHead DEF BlockInv
<1>10. CASE ~ (head + 1 < h)
  <2>1. stage' = "condense" /\ head' = head
    BY <1>1, <1>10 DEF NextHead
  <2>2. h = head + 1
    BY <1>2, <1>10
  <2>3. buf' = Tensors(D_SEQ, D_Q, h, D_MODEL, D_FF, "condense", head)
    <3>1. "condense" \notin HeadStages
      BY DEF HeadStages, AfterQuery, AfterKey, AfterValue, AfterTranspose, AfterQKT, AfterSoftmax
    <3>2. FinishedBelow(h, "condense", head) = h /\ AttendedBelow(h, "condense", head) = h
      BY <3>1 DEF FinishedBelow, AttendedBelow
    <3> QED
      BY <1>7, <2>2, <3>2
         DEF Tensors, Layer, AfterCondense, AfterNorm0, AfterFF0, AfterFF1, AfterNorm1
  <2>4. selfatten' = [n \in Heads |-> Attention(n, D_SEQ, D_Q, "condense", head)]
    <3>1. \A n \in Heads : n \in Nat /\ n <= head
      BY <1>2, <2>2 DEF Heads
    <3>2. \A n \in Heads : Attention(n, D_SEQ, D_Q, "post_softmax", head)
                             = Attention(n, D_SEQ, D_Q, "condense", head)
      BY <1>2, <3>1, HeadAfterHead
    <3> QED
      BY <1>1, <1>8, <3>2
  <2>5. "condense" \in BlockStages
    BY DEF BlockStages
  <2> QED
    BY <1>1, <1>2, <2>1, <2>3, <2>4, <2>5, SameShape DEF BlockInv
<1> QED
  BY <1>9, <1>10

(* A call of TransformerBlock::compute after the heads. *)
LEMMA StagesOfBlock ==
    /\ "condense" \in BlockStages /\ "addNorm0" \in BlockStages /\ "ff0" \in BlockStages
    /\ "ff1" \in BlockStages /\ "addNorm1" \in BlockStages /\ "done" \in BlockStages
    /\ "start" \notin BlockStages
  BY DEF BlockStages, AfterCondense, AfterNorm0, AfterFF0, AfterFF1, AfterNorm1

LEMMA TensorsOfBlock ==
    ASSUME NEW s, NEW q, NEW heads, NEW d, NEW f, NEW h, NEW st \in BlockStages
    PROVE  Tensors(s, q, heads, d, f, st, h) =
             [ tensor_in      |-> Tensor("input", 0, s, d),
               out            |-> IF st \in AfterNorm1 THEN Tensor("norm1", 0, s, d)
                                  ELSE Layer(st \in AfterFF1, "ff1", 0, s, d),
               multihead_out  |-> Concatenated(s, q, heads, heads, heads),
               condense_out   |-> IF st \in AfterNorm0 THEN Tensor("norm0", 0, s, d)
                                  ELSE Layer(st \in AfterCondense, "condense", 0, s, d),
               intermediateFF |-> Layer(st \in AfterFF0, "ff0", 0, s, f) ]
<1>1. st \notin HeadStages /\ st # "post_softmax"
  BY DEF HeadStages, AfterQuery, AfterKey, AfterValue, AfterTranspose, AfterQKT, AfterSoftmax,
         BlockStages, AfterCondense, AfterNorm0, AfterFF0, AfterFF1, AfterNorm1
<1>2. FinishedBelow(heads, st, h) = heads /\ AttendedBelow(heads, st, h) = heads
  BY <1>1 DEF FinishedBelow, AttendedBelow
<1> QED
  BY <1>2 DEF Tensors

LEMMA BlockState ==
    ASSUME BlockInv, stage \in BlockStages
    PROVE  /\ model \in Models /\ head \in Heads
           /\ buf = Tensors(D_SEQ, D_Q, model.heads, D_MODEL, D_FF, stage, head)
           /\ selfatten = [n \in Heads |-> Attention(n, D_SEQ, D_Q, stage, head)]
  BY StagesOfBlock DEF BlockInv

LEMMA BlockCall ==
    ASSUME BlockInv, stage \in BlockStages, stage' \in BlockStages,
           buf' = Tensors(D_SEQ, D_Q, model.heads, D_MODEL, D_FF, stage', head),
           model' = model, head' = head, selfatten' = selfatten
    PROVE  BlockInv'
<1>1. /\ model \in Models /\ head \in Heads
      /\ selfatten = [n \in Heads |-> Attention(n, D_SEQ, D_Q, stage, head)]
  BY BlockState
<1>2. \A n : Attention(n, D_SEQ, D_Q, stage, head) = Attention(n, D_SEQ, D_Q, stage', head)
  BY DEF Attention, Past
<1>3. selfatten' = [n \in Heads |-> Attention(n, D_SEQ, D_Q, stage', head)]
  BY <1>1, <1>2
<1> QED
  BY <1>1, <1>3, SameShape DEF BlockInv

(* A Dense layer of the block, into a blank buffer. *)
LEMMA BlockProduct ==
    ASSUME model \in Models, NEW layer, NEW input, NEW operand, NEW size, NEW cols \in Dims,
           \A i \in Rows : \A k \in 0 .. size - 1 :
               Load(input, Addr(i, k)) = Operand(operand, i, k)
    PROVE  Multiply(Blank(D_SEQ * cols), 0, cols,
                    DenseCompute(layer, 0, <<layer, 0>>, input, operand, size, cols))
             = Tensor(layer, 0, D_SEQ, cols)
<1> DEFINE dot == DenseCompute(layer, 0, <<layer, 0>>, input, operand, size, cols)
<1>1. \A i \in Rows, c \in 0 .. cols - 1 : dot[i][c] = Name(layer, 0, i, c)
  BY DenseFacts
<1> HIDE DEF dot
<1>2. Multiply(Blank(D_SEQ * cols), 0, cols, dot) = Tensor(layer, 0, D_SEQ, cols)
  BY <1>1, MultiplyFacts
<1> QED
  BY <1>2 DEF dot

LEMMA CondenseStep == BlockInv /\ condense => BlockInv'
<1> SUFFICES ASSUME BlockInv, condense PROVE BlockInv'
  OBVIOUS
<1>1. /\ stage = "condense" /\ stage' = "addNorm0"
      /\ model' = model /\ head' = head /\ selfatten' = selfatten
  BY DEF condense, Step
<1>2. /\ model \in Models
      /\ buf = Tensors(D_SEQ, D_Q, model.heads, D_MODEL, D_FF, "condense", head)
  BY <1>1, BlockState, StagesOfBlock
<1>3. /\ buf.multihead_out = Concatenated(D_SEQ, D_Q, model.heads, model.heads, model.heads)
      /\ buf.condense_out = Blank(D_SEQ * D_MODEL)
  BY <1>2, StagesOfBlock, TensorsOfBlock
     DEF Layer, AfterCondense, AfterNorm0, AfterFF0, AfterFF1, AfterNorm1
<1>4. model.heads \in Nat /\ D_MODEL \in Dims /\ model.heads <= model.heads
  BY <1>2, ShapeFacts
<1>5. \A i \in Rows : \A k \in 0 .. model.heads * D_Q - 1 :
         Load(buf.multihead_out, Addr(i, k)) = Operand("head", i, k)
  BY <1>2, <1>3, <1>4, CondenseFacts
<1>6. Multiply(Blank(D_SEQ * D_MODEL), 0, D_MODEL,
               DenseCompute("condense", 0, BlockKernel(0), buf.multihead_out, "head",
                            model.heads * D_Q, D_MODEL))
        = Tensor("condense", 0, D_SEQ, D_MODEL)
  BY <1>2, <1>4, <1>5, BlockProduct, KernelFacts
<1>7. buf' = [buf EXCEPT !.condense_out = Tensor("condense", 0, D_SEQ, D_MODEL)]
  BY <1>3, <1>6 DEF condense
<1>8. buf' = Tensors(D_SEQ, D_Q, model.heads, D_MODEL, D_FF, "addNorm0", head)
  BY <1>2, <1>7, StagesOfBlock, TensorsOfBlock
     DEF Layer, AfterCondense, AfterNorm0, AfterFF0, AfterFF1, AfterNorm1
<1> QED
  BY <1>1, <1>8, BlockCall, StagesOfBlock

LEMMA AddNorm0Step == BlockInv /\ addNorm0 => BlockInv'
<1> SUFFICES ASSUME BlockInv, addNorm0 PROVE BlockInv'
  OBVIOUS
<1>1. /\ stage = "addNorm0" /\ stage' = "ff0"
      /\ model' = model /\ head' = head /\ selfatten' = selfatten
  BY DEF addNorm0, Step
<1>2. /\ model \in Models
      /\ buf = Tensors(D_SEQ, D_Q, model.heads, D_MODEL, D_FF, "addNorm0", head)
  BY <1>1, BlockState, StagesOfBlock
<1>3. /\ buf.tensor_in = Tensor("input", 0, D_SEQ, D_MODEL)
      /\ buf.condense_out = Tensor("condense", 0, D_SEQ, D_MODEL)
  BY <1>2, StagesOfBlock, TensorsOfBlock
     DEF Layer, AfterCondense, AfterNorm0, AfterFF0, AfterFF1, AfterNorm1
<1>4. AddNormalize("norm0", buf.tensor_in, "input", buf.condense_out, "condense")
        = Tensor("norm0", 0, D_SEQ, D_MODEL)
  BY <1>2, <1>3, AddNormalizeFacts
<1>5. buf' = [buf EXCEPT !.condense_out = Tensor("norm0", 0, D_SEQ, D_MODEL)]
  BY <1>4 DEF addNorm0
<1>6. buf' = Tensors(D_SEQ, D_Q, model.heads, D_MODEL, D_FF, "ff0", head)
  BY <1>2, <1>5, StagesOfBlock, TensorsOfBlock
     DEF Layer, AfterCondense, AfterNorm0, AfterFF0, AfterFF1, AfterNorm1
<1> QED
  BY <1>1, <1>6, BlockCall, StagesOfBlock

LEMMA FeedForward0Step == BlockInv /\ feedForward0 => BlockInv'
<1> SUFFICES ASSUME BlockInv, feedForward0 PROVE BlockInv'
  OBVIOUS
<1>1. /\ stage = "ff0" /\ stage' = "ff1"
      /\ model' = model /\ head' = head /\ selfatten' = selfatten
  BY DEF feedForward0, Step
<1>2. /\ model \in Models
      /\ buf = Tensors(D_SEQ, D_Q, model.heads, D_MODEL, D_FF, "ff0", head)
  BY <1>1, BlockState, StagesOfBlock
<1>3. /\ buf.condense_out = Tensor("norm0", 0, D_SEQ, D_MODEL)
      /\ buf.intermediateFF = Blank(D_SEQ * D_FF)
  BY <1>2, StagesOfBlock, TensorsOfBlock
     DEF Layer, AfterCondense, AfterNorm0, AfterFF0, AfterFF1, AfterNorm1
<1>4. D_MODEL \in Dims /\ D_FF \in Dims
  BY <1>2, ShapeFacts
<1>5. \A i \in Rows : \A k \in 0 .. D_MODEL - 1 :
         Load(buf.condense_out, Addr(i, k)) = Operand("norm0", i, k)
  BY <1>2, <1>3, <1>4, OperandFacts
<1>6. Multiply(Blank(D_SEQ * D_FF), 0, D_FF,
               DenseCompute("ff0", 0, BlockKernel(1), buf.condense_out, "norm0", D_MODEL, D_FF))
        = Tensor("ff0", 0, D_SEQ, D_FF)
  BY <1>2, <1>4, <1>5, BlockProduct, KernelFacts
<1>7. buf' = [buf EXCEPT !.intermediateFF = Tensor("ff0", 0, D_SEQ, D_FF)]
  BY <1>3, <1>6 DEF feedForward0
<1>8. buf' = Tensors(D_SEQ, D_Q, model.heads, D_MODEL, D_FF, "ff1", head)
  BY <1>2, <1>7, StagesOfBlock, TensorsOfBlock
     DEF Layer, AfterCondense, AfterNorm0, AfterFF0, AfterFF1, AfterNorm1
<1> QED
  BY <1>1, <1>8, BlockCall, StagesOfBlock

LEMMA FeedForward1Step == BlockInv /\ feedForward1 => BlockInv'
<1> SUFFICES ASSUME BlockInv, feedForward1 PROVE BlockInv'
  OBVIOUS
<1>1. /\ stage = "ff1" /\ stage' = "addNorm1"
      /\ model' = model /\ head' = head /\ selfatten' = selfatten
  BY DEF feedForward1, Step
<1>2. /\ model \in Models
      /\ buf = Tensors(D_SEQ, D_Q, model.heads, D_MODEL, D_FF, "ff1", head)
  BY <1>1, BlockState, StagesOfBlock
<1>3. /\ buf.intermediateFF = Tensor("ff0", 0, D_SEQ, D_FF)
      /\ buf.out = Blank(D_SEQ * D_MODEL)
  BY <1>2, StagesOfBlock, TensorsOfBlock
     DEF Layer, AfterCondense, AfterNorm0, AfterFF0, AfterFF1, AfterNorm1
<1>4. D_MODEL \in Dims /\ D_FF \in Dims
  BY <1>2, ShapeFacts
<1>5. \A i \in Rows : \A k \in 0 .. D_FF - 1 :
         Load(buf.intermediateFF, Addr(i, k)) = Operand("ff0", i, k)
  BY <1>2, <1>3, <1>4, OperandFacts
<1>6. Multiply(Blank(D_SEQ * D_MODEL), 0, D_MODEL,
               DenseCompute("ff1", 0, BlockKernel(2), buf.intermediateFF, "ff0", D_FF, D_MODEL))
        = Tensor("ff1", 0, D_SEQ, D_MODEL)
  BY <1>2, <1>4, <1>5, BlockProduct, KernelFacts
<1>7. buf' = [buf EXCEPT !.out = Tensor("ff1", 0, D_SEQ, D_MODEL)]
  BY <1>3, <1>6 DEF feedForward1
<1>8. buf' = Tensors(D_SEQ, D_Q, model.heads, D_MODEL, D_FF, "addNorm1", head)
  BY <1>2, <1>7, StagesOfBlock, TensorsOfBlock
     DEF Layer, AfterCondense, AfterNorm0, AfterFF0, AfterFF1, AfterNorm1
<1> QED
  BY <1>1, <1>8, BlockCall, StagesOfBlock

LEMMA AddNorm1Step == BlockInv /\ addNorm1 => BlockInv'
<1> SUFFICES ASSUME BlockInv, addNorm1 PROVE BlockInv'
  OBVIOUS
<1>1. /\ stage = "addNorm1" /\ stage' = "done"
      /\ model' = model /\ head' = head /\ selfatten' = selfatten
  BY DEF addNorm1, Step
<1>2. /\ model \in Models
      /\ buf = Tensors(D_SEQ, D_Q, model.heads, D_MODEL, D_FF, "addNorm1", head)
  BY <1>1, BlockState, StagesOfBlock
<1>3. /\ buf.condense_out = Tensor("norm0", 0, D_SEQ, D_MODEL)
      /\ buf.out = Tensor("ff1", 0, D_SEQ, D_MODEL)
  BY <1>2, StagesOfBlock, TensorsOfBlock
     DEF Layer, AfterCondense, AfterNorm0, AfterFF0, AfterFF1, AfterNorm1
<1>4. AddNormalize("norm1", buf.condense_out, "norm0", buf.out, "ff1")
        = Tensor("norm1", 0, D_SEQ, D_MODEL)
  BY <1>2, <1>3, AddNormalizeFacts
<1>5. buf' = [buf EXCEPT !.out = Tensor("norm1", 0, D_SEQ, D_MODEL)]
  BY <1>4 DEF addNorm1
<1>6. buf' = Tensors(D_SEQ, D_Q, model.heads, D_MODEL, D_FF, "done", head)
  BY <1>2, <1>5, StagesOfBlock, TensorsOfBlock
     DEF Layer, AfterCondense, AfterNorm0, AfterFF0, AfterFF1, AfterNorm1
<1> QED
  BY <1>1, <1>6, BlockCall, StagesOfBlock

LEMMA BlockStep == ASSUME Uniform PROVE BlockInv /\ [Next]_vars => BlockInv'
<1> SUFFICES ASSUME BlockInv, [Next]_vars PROVE BlockInv'
  OBVIOUS
<1>1. CASE UNCHANGED vars
  BY <1>1, SameShape DEF BlockInv, vars
<1>2. CASE inference \/ delete
  BY <1>2, InferenceStep, DeleteStep
<1>3. CASE query_layer \/ key_layer \/ value_layer
  BY <1>3, QueryStep, KeyStep, ValueStep
<1>4. CASE transpose_rearranged \/ QKT \/ softmax
  BY <1>4, TransposeStep, QKTStep, SoftmaxStep
<1>5. CASE att_v \/ post_softmax
  BY <1>5, AttVStep, PostSoftmaxStep
<1>6. CASE condense \/ addNorm0 \/ feedForward0 \/ feedForward1 \/ addNorm1
  BY <1>6, CondenseStep, AddNorm0Step, FeedForward0Step, FeedForward1Step, AddNorm1Step
<1> QED
  BY <1>1, <1>2, <1>3, <1>4, <1>5, <1>6 DEF Next

(* The buffers always hold what the shape and the next call determine. *)
LEMMA BlockInvariant == ASSUME Uniform PROVE Spec => []BlockInv
  BY InitInv, BlockStep, PTL DEF Spec

(***************************************************************************)
(* For every shape, tile size and number of runs, with data types that fit *)
(* together: what TransformerBlock::compute has left in multihead_out for  *)
(* a head is never touched by another head or a later layer.               *)
(***************************************************************************)
THEOREM HeadsCorrect ==
    ASSUME Uniform
    PROVE  Spec => []FinishedHeads
<1>1. BlockInv => FinishedHeads
  <2> SUFFICES ASSUME BlockInv, NEW n \in Heads, HeadFinished(n),
                      NEW i \in Rows, NEW c \in 0 .. D_Q - 1
               PROVE  Load(buf.multihead_out, Addr(i, n * D_Q + c)) = Name("head", n, i, c)
    BY DEF FinishedHeads
  <2>1. stage # "start" /\ stage \in HeadStages \cup BlockStages
    BY DEF HeadFinished, BlockInv
  <2>2. /\ model \in Models /\ model.heads \in Nat /\ head \in Nat /\ n \in Nat /\ n < model.heads
        /\ buf = Tensors(D_SEQ, D_Q, model.heads, D_MODEL, D_FF, stage, head)
    BY <2>1, ShapeFacts DEF BlockInv, Heads
  <2> DEFINE done == FinishedBelow(model.heads, stage, head)
             attended == AttendedBelow(model.heads, stage, head)
  <2>3. done \in Nat /\ attended \in Nat
    BY <2>2 DEF FinishedBelow, AttendedBelow
  <2>4. n < done
    BY <2>1, <2>2 DEF FinishedBelow, HeadFinished, HeadStages, AfterQuery, AfterKey, AfterValue,
                      AfterTranspose, AfterQKT, AfterSoftmax
  <2>5. buf.multihead_out = Concatenated(D_SEQ, D_Q, model.heads, done, attended)
    BY <2>2 DEF Tensors
  <2> HIDE DEF done, attended
  <2> QED
    BY <2>2, <2>3, <2>4, <2>5, ConcatenatedFacts
<1> QED
  BY <1>1, BlockInvariant, PTL

(***************************************************************************)
(* Likewise, every run of inference ends with the output tensor of the     *)
(* network: through all layers, each operand was taken whole and from its  *)
(* own place, and nothing of an earlier run is in it.                      *)
(***************************************************************************)
THEOREM OutputCorrect ==
    ASSUME Uniform
    PROVE  Spec => []OutputExact
<1>1. BlockInv => OutputExact
  <2> SUFFICES ASSUME BlockInv, stage = "done", NEW i \in Rows, NEW c \in 0 .. D_MODEL - 1
               PROVE  Load(buf.out, Addr(i, c)) = Name("norm1", 0, i, c)
    BY DEF OutputExact
  <2>1. /\ model \in Models
        /\ buf = Tensors(D_SEQ, D_Q, model.heads, D_MODEL, D_FF, "done", head)
    BY BlockState, StagesOfBlock
  <2>2. buf.out = Tensor("norm1", 0, D_SEQ, D_MODEL)
    BY <2>1, StagesOfBlock, TensorsOfBlock DEF AfterNorm1
  <2>3. Load(buf.out, Addr(i, c)) = Operand("norm1", i, c)
    BY <2>1, <2>2, OperandFacts, ShapeFacts
  <2> QED
    BY <2>3 DEF Operand
<1> QED
  BY <1>1, BlockInvariant, PTL
=============================================================================
