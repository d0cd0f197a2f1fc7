----------------------- MODULE SparseMultiplierProofs -----------------------
(***************************************************************************)
(* The sparse formats, for every matrix, every number of tiles and every   *)
(* width of the words of flags.                                            *)
(*                                                                         *)
(* The argument is the same for all formats: the tiles have an order, the  *)
(* one both the encoder and the decoder go through, and what is stored for *)
(* the first n tiles ends at an address that depends on how many of them   *)
(* are not zero, and on nothing else.  The encoder is at that address      *)
(* after n tiles, and so is the decoder.                                   *)
(***************************************************************************)
EXTENDS SparseMultiplier, ConfigProofs, FiniteSetTheorems, SequenceTheorems,
        WellFoundedInduction

-----------------------------------------------------------------------------
(* Arithmetic. *)
LEMMA KernelFacts ==
    /\ RowTiles \in Nat /\ RowTiles > 0 /\ ColTiles \in Nat /\ ColTiles > 0
    /\ WORD_BITS \in Nat /\ WORD_BITS > 0
    /\ TileWords \in Nat /\ TileWords > 0
    /\ TileCount \in Nat /\ TileCount = RowTiles * ColTiles
<1>1. \A a, b \in Nat : a > 0 /\ b > 0 => a * b \in Nat /\ a * b > 0
  OBVIOUS
<1> QED
  BY <1>1, ConfigFacts, KernelAssumption DEF TileWords, TileCount

-----------------------------------------------------------------------------
(* Counting the members of a set of tiles, or of columns, below n. *)

Count(S, n) == Cardinality(S \cap (0 .. n - 1))

LEMMA CountFacts ==
    ASSUME NEW S, NEW n \in Nat
    PROVE  /\ Count(S, n) \in Nat /\ Count(S, n) <= n
           /\ Count(S, n + 1) = IF n \in S THEN Count(S, n) + 1 ELSE Count(S, n)
           /\ Count(S, 0) = 0
<1> DEFINE T == S \cap (0 .. n - 1)
<1>1. IsFiniteSet(0 .. n - 1) /\ Cardinality(0 .. n - 1) = n
  BY FS_Interval
<1>2. IsFiniteSet(T) /\ Cardinality(T) <= n /\ Cardinality(T) \in Nat
  BY <1>1, FS_Subset, FS_CardinalityType
<1>3. n \in S => S \cap (0 .. (n + 1) - 1) = T \cup {n}
  OBVIOUS
<1>4. n \notin S => S \cap (0 .. (n + 1) - 1) = T
  OBVIOUS
<1>5. Cardinality(T \cup {n}) = Cardinality(T) + 1
  BY <1>2, FS_AddElement
<1>6. S \cap (0 .. 0 - 1) = {}
  OBVIOUS
<1> QED
  BY <1>2, <1>3, <1>4, <1>5, <1>6, FS_EmptySet DEF Count

LEMMA CountMonotonic ==
    ASSUME NEW S, NEW a \in Nat, NEW b \in Nat, a <= b
    PROVE  Count(S, a) <= Count(S, b)
<1>1. IsFiniteSet(0 .. b - 1)
  BY FS_Interval
<1>2. IsFiniteSet(S \cap (0 .. b - 1))
  BY <1>1, FS_Subset
<1>3. S \cap (0 .. a - 1) \in SUBSET (S \cap (0 .. b - 1))
  OBVIOUS
<1> QED
  BY <1>2, <1>3, FS_Subset DEF Count

(* Nothing is counted where the set has nothing. *)
LEMMA CountSame ==
    ASSUME NEW S, NEW a \in Nat, NEW b \in Nat, a <= b,
           \A k \in a .. b - 1 : k \notin S
    PROVE  Count(S, a) = Count(S, b)
<1>1. S \cap (0 .. a - 1) = S \cap (0 .. b - 1)
  OBVIOUS
<1> QED
  BY <1>1 DEF Count

-----------------------------------------------------------------------------
(* The tiles of the matrix, in the order of their numbers. *)

AllTiles == 0 .. TileCount - 1

TileSet(m) == { n \in AllTiles : ~ all_zeros(m, n) }

LEMMA TileNumber ==
    ASSUME NEW r \in 0 .. RowTiles - 1, NEW c \in 0 .. ColTiles - 1
    PROVE  /\ TileIndex(r, c) \in AllTiles /\ TileIndex(r, c) \in Nat
           /\ TileIndex(r, c) = c * RowTiles + r
<1>1. c * RowTiles \in Nat /\ ColTiles * RowTiles = TileCount /\ ColTiles * RowTiles \in Nat
  BY KernelFacts, Multiples
<1>2. c * RowTiles + RowTiles <= ColTiles * RowTiles
  BY KernelFacts, Multiples
<1> QED
  BY <1>1, <1>2, KernelFacts DEF TileIndex, AllTiles

(* Words of a tile. *)
LEMMA WordFacts ==
    ASSUME NEW m \in Kernels, NEW n \in AllTiles, NEW w \in 0 .. TileWords - 1
    PROVE  /\ Word(m, n, w) \in Int
           /\ m[n] # "key" => Word(m, n, w) # HIDDEN_KEY
<1>1. m[n] \in {"zero", "full", "last", "key"}
  BY KernelAssumption DEF Kernels, AllTiles
<1>2. n * TileWords \in Nat /\ w \in Nat
  BY KernelFacts, Multiples DEF AllTiles
<1> QED
  BY <1>1, <1>2 DEF Word, HIDDEN_KEY

LEMMA TileAtFacts ==
    ASSUME NEW m \in Kernels, NEW n \in AllTiles
    PROVE  /\ TileAt(m, n) \in [1 .. TileWords -> Int]
           /\ TileAt(m, n) \in Seq(Int) /\ Len(TileAt(m, n)) = TileWords
           /\ \A w \in 1 .. TileWords : TileAt(m, n)[w] = Word(m, n, w - 1)
<1>1. TileWords \in Nat
  BY KernelFacts
<1>2. \A w \in 1 .. TileWords : w - 1 \in 0 .. TileWords - 1
  BY <1>1
<1>3. TileAt(m, n) \in [1 .. TileWords -> Int]
  BY <1>2, WordFacts DEF TileAt
<1>4. TileAt(m, n) \in Seq(Int)
  BY <1>1, <1>3, SeqDef
<1>5. Len(TileAt(m, n)) = TileWords
  BY <1>1, <1>3, <1>4, LenProperties
<1> QED
  BY <1>3, <1>4, <1>5 DEF TileAt

-----------------------------------------------------------------------------
(* Calls of processMultiplication, as the schedule sees them. *)

CallSet == (0 .. RowTiles - 1) \X (0 .. ColTiles - 1) \X [1 .. TileWords -> Int]

(* Only tiles before number n have been multiplied. *)
CallsBefore(cs, n) ==
    /\ cs \in Seq(CallSet)
    /\ \A q \in 1 .. Len(cs) : TileIndex(cs[q][1], cs[q][2]) < n

(* Tiles that are multiplied, in the order of their numbers. *)
Copied(f, m) == IF f \in {"NON_PRUNED", "DYNAMIC"} THEN AllTiles ELSE TileSet(m)

(* Tiles that must be multiplied. *)
Due(f, m) == IF f = "NON_PRUNED" THEN AllTiles ELSE TileSet(m)

LEMMA KernelSame ==
    /\ TS!TileWords = TileWords /\ TS!TileCount = TileCount
    /\ TS!Kernels = Kernels
    /\ \A m, n, w : TS!Word(m, n, w) = Word(m, n, w)
    /\ \A m, n : TS!TileAt(m, n) = TileAt(m, n)
    /\ \A r, c : TS!TileIndex(r, c) = TileIndex(r, c)
    /\ \A m : TS!NonZeroTiles(m) = NonZeroTiles(m)
<1>1. /\ TS!TileWords = TileWords /\ TS!TileCount = TileCount
      /\ TS!HIDDEN_KEY = HIDDEN_KEY
      /\ \A r, c : TS!TileIndex(r, c) = TileIndex(r, c)
  BY DEF TS!TileWords, TileWords, TS!TileCount, TileCount, TS!MAX_W_COL, MAX_W_COL,
         TS!CEILING_DIV, CEILING_DIV, TS!TileIndex, TileIndex, TS!HIDDEN_KEY, HIDDEN_KEY
<1>2. \A m, n, w : TS!Word(m, n, w) = Word(m, n, w)
  BY <1>1 DEF TS!Word, Word
<1>3. \A m, n : TS!TileAt(m, n) = TileAt(m, n)
  BY <1>1, <1>2 DEF TS!TileAt, TileAt
<1>4. \A m, n : TS!all_zeros(m, n) <=> all_zeros(m, n)
  BY <1>1, <1>2 DEF TS!all_zeros, all_zeros
<1>5. \A m : TS!NonZeroTiles(m) = NonZeroTiles(m)
  BY <1>1, <1>4 DEF TS!NonZeroTiles, NonZeroTiles
<1>6. TS!Kernels = Kernels
  BY <1>1 DEF TS!Kernels, Kernels
<1> QED
  BY <1>1, <1>2, <1>3, <1>5, <1>6

(* A step that makes no call. *)
LEMMA NoCall ==
    ASSUME kernel' = kernel, format' = format, calls' = calls
    PROVE  UNCHANGED TS!vars
<1>1. kept' = kept
  BY DEF kept, NonZeroTiles, all_zeros, Word, TileIndex, TileWords, HIDDEN_KEY,
         MAX_W_COL, CEILING_DIV
<1> QED
  BY <1>1 DEF TS!vars

(* A step that multiplies a tile whose turn it is. *)
LEMMA CallNext ==
    ASSUME NEW r \in 0 .. RowTiles - 1, NEW c \in 0 .. ColTiles - 1,
           kernel \in Kernels, calls \in Seq(CallSet),
           <<r, c>> \in kept,
           \A q \in 1 .. Len(calls) : <<calls[q][1], calls[q][2]>> # <<r, c>>,
           calls' = Append(calls, <<r, c, TileAt(kernel, TileIndex(r, c))>>),
           kernel' = kernel, format' = format
    PROVE  TS!Next
<1>1. kept' = kept
  BY DEF kept, NonZeroTiles, all_zeros, Word, TileIndex, TileWords, HIDDEN_KEY,
         MAX_W_COL, CEILING_DIV
<1>2. <<r, c>> \notin TS!Called
  BY DEF TS!Called
<1>3. TS!processMultiplication(r, c)
  BY <1>1, <1>2, KernelSame DEF TS!processMultiplication
<1>4. <<r, c>>[1] = r /\ <<r, c>>[2] = c
  OBVIOUS
<1>5. TS!processMultiplication(<<r, c>>[1], <<r, c>>[2])
  BY <1>3, <1>4
<1> QED
  BY <1>5 DEF TS!Next

LEMMA CallAppended ==
    ASSUME NEW r \in 0 .. RowTiles - 1, NEW c \in 0 .. ColTiles - 1,
           kernel \in Kernels, CallsBefore(calls, TileIndex(r, c)),
           TileIndex(r, c) \in Copied(format, kernel),
           format \in {"NON_PRUNED", "DYNAMIC", "WITH_FLAG", "HIDDEN_KEY", "META_DATA",
                       "INTERLEAVED"},
           format = "DYNAMIC" => ~ all_zeros(kernel, TileIndex(r, c)),
           calls' = Append(calls, <<r, c, TileAt(kernel, TileIndex(r, c))>>),
           kernel' = kernel, format' = format
    PROVE  TS!Next /\ CallsBefore(calls', TileIndex(r, c) + 1)
<1> DEFINE x == <<r, c, TileAt(kernel, TileIndex(r, c))>>
<1>1. TileIndex(r, c) \in AllTiles /\ TileIndex(r, c) \in Int
  BY TileNumber, KernelFacts DEF AllTiles
<1>2. <<r, c>> \in kept
  BY <1>1 DEF kept, Copied, TileSet, NonZeroTiles
<1>3. calls \in Seq(CallSet)
  BY DEF CallsBefore
<1>4. \A q \in 1 .. Len(calls) : <<calls[q][1], calls[q][2]>> # <<r, c>>
  BY <1>1 DEF CallsBefore
<1>5. TS!Next
  BY <1>2, <1>3, <1>4, CallNext
<1>6. x \in CallSet /\ x[1] = r /\ x[2] = c
  BY <1>1, TileAtFacts DEF CallSet
<1> HIDE DEF x
<1>7. calls' = Append(calls, x)
  BY DEF x
<1>8. /\ calls' \in Seq(CallSet) /\ Len(calls') = Len(calls) + 1 /\ Len(calls) \in Nat
      /\ \A q \in 1 .. Len(calls) : calls'[q] = calls[q]
      /\ calls'[Len(calls) + 1] = x
  <2> DEFINE new == Append(calls, x)
  <2>1. /\ new \in Seq(CallSet) /\ Len(new) = Len(calls) + 1 /\ Len(calls) \in Nat
        /\ \A q \in 1 .. Len(calls) : new[q] = calls[q]
        /\ new[Len(calls) + 1] = x
    BY <1>3, <1>6, AppendProperties, LenProperties
  <2>2. calls' = new
    BY <1>7
  <2> HIDE DEF new
  <2> QED
    BY <2>1, <2>2
<1>9. ASSUME NEW q \in 1 .. Len(calls')
      PROVE  TileIndex(calls'[q][1], calls'[q][2]) < TileIndex(r, c) + 1
  <2>1. CASE q = Len(calls) + 1
    BY <1>1, <1>6, <1>8, <2>1
  <2>2. CASE q # Len(calls) + 1
    <3>1. q \in 1 .. Len(calls)
      BY <1>8, <2>2
    <3>2. TileIndex(calls[q][1], calls[q][2]) < TileIndex(r, c) /\ calls'[q] = calls[q]
      BY <1>8, <3>1 DEF CallsBefore
    <3>3. calls[q] \in CallSet
      BY <1>3, <3>1, ElementOfSeq
    <3>4. calls[q][1] \in 0 .. RowTiles - 1 /\ calls[q][2] \in 0 .. ColTiles - 1
      BY <3>3 DEF CallSet
    <3>5. TileIndex(calls[q][1], calls[q][2]) \in Nat
      BY <3>4, TileNumber, Zenon
    <3> QED
      BY <1>1, <3>2, <3>5
  <2> QED
    BY <2>1, <2>2
<1> QED
  BY <1>5, <1>8, <1>9 DEF CallsBefore

(* A tile is passed without a call. *)
LEMMA CallsKept ==
    ASSUME NEW a \in Nat, NEW b \in Nat, a <= b, CallsBefore(calls, a)
    PROVE  CallsBefore(calls, b)
<1>1. ASSUME NEW q \in 1 .. Len(calls)
      PROVE  TileIndex(calls[q][1], calls[q][2]) < b
  <2>1. calls[q] \in CallSet
    BY ElementOfSeq DEF CallsBefore
  <2>2. calls[q][1] \in 0 .. RowTiles - 1 /\ calls[q][2] \in 0 .. ColTiles - 1
    BY <2>1 DEF CallSet
  <2>3. TileIndex(calls[q][1], calls[q][2]) \in Nat
    BY <2>2, TileNumber, Zenon
  <2>4. TileIndex(calls[q][1], calls[q][2]) < a
    BY DEF CallsBefore
  <2> QED
    BY <2>3, <2>4
<1> QED
  BY <1>1 DEF CallsBefore

-----------------------------------------------------------------------------
(* Packed tiles: where the words stored for tile n start in format f, how  *)
(* many there are and what they are.                                       *)

Offset(f, m, n) ==
    Count(Copied(f, m), n) * TileWords
      + (IF f = "HIDDEN_KEY" THEN Count(AllTiles \ TileSet(m), n) ELSE 0)

Size(f, m, n) ==
    IF n \in Copied(f, m) THEN TileWords ELSE IF f = "HIDDEN_KEY" THEN 1 ELSE 0

Item(f, m, n, w) == IF n \in Copied(f, m) THEN Word(m, n, w - 1) ELSE HIDDEN_KEY

(* Array b has the first n tiles. *)
Packed(f, m, b, n) ==
    /\ b \in Seq(Int) /\ Len(b) = Offset(f, m, n)
    /\ \A k \in 0 .. n - 1 :
          /\ Offset(f, m, k) + Size(f, m, k) <= Len(b)
          /\ \A w \in 1 .. Size(f, m, k) : b[Offset(f, m, k) + w] = Item(f, m, k, w)

LEMMA OffsetFacts ==
    ASSUME NEW f, NEW m, NEW n \in Nat
    PROVE  /\ Offset(f, m, n) \in Nat /\ Size(f, m, n) \in Nat
           /\ Offset(f, m, 0) = 0
           /\ n \in AllTiles => Offset(f, m, n + 1) = Offset(f, m, n) + Size(f, m, n)
<1> DEFINE C(k) == Count(Copied(f, m), k)
           Z(k) == Count(AllTiles \ TileSet(m), k)
<1>1. /\ C(n) \in Nat /\ C(0) = 0
      /\ C(n + 1) = IF n \in Copied(f, m) THEN C(n) + 1 ELSE C(n)
  BY CountFacts
<1>2. /\ Z(n) \in Nat /\ Z(0) = 0
      /\ Z(n + 1) = IF n \in AllTiles \ TileSet(m) THEN Z(n) + 1 ELSE Z(n)
  BY CountFacts
<1> HIDE DEF C, Z
<1>3. /\ C(n) * TileWords \in Nat /\ (C(n) + 1) * TileWords = C(n) * TileWords + TileWords
      /\ 0 * TileWords = 0 /\ TileWords \in Nat
  BY <1>1, KernelFacts, Multiples
<1>4. f = "HIDDEN_KEY" => Copied(f, m) = TileSet(m)
  BY DEF Copied
<1>5. \A k : Offset(f, m, k) = C(k) * TileWords + (IF f = "HIDDEN_KEY" THEN Z(k) ELSE 0)
  BY DEF Offset, C, Z
<1> QED
  BY <1>1, <1>2, <1>3, <1>4, <1>5 DEF Size

LEMMA PackedNothing ==
    ASSUME NEW f, NEW m
    PROVE  Packed(f, m, << >>, 0)
  BY OffsetFacts, EmptySeq DEF Packed

(* One more tile. *)
LEMMA PackedStep ==
    ASSUME NEW f, NEW m, NEW n \in AllTiles, NEW b, NEW chunk \in Seq(Int),
           Packed(f, m, b, n), Len(chunk) = Size(f, m, n),
           \A w \in 1 .. Size(f, m, n) : chunk[w] = Item(f, m, n, w)
    PROVE  Packed(f, m, b \o chunk, n + 1)
<1> DEFINE new == b \o chunk
<1>1. n \in Nat
  BY KernelFacts DEF AllTiles
<1>2. b \in Seq(Int) /\ Len(b) = Offset(f, m, n) /\ Len(b) \in Nat
  BY LenProperties DEF Packed
<1>3. /\ new \in Seq(Int) /\ Len(new) = Len(b) + Len(chunk)
      /\ \A q \in 1 .. Len(b) + Len(chunk) :
            new[q] = IF q <= Len(b) THEN b[q] ELSE chunk[q - Len(b)]
  BY <1>2, ConcatProperties
<1> HIDE DEF new
<1>4. Len(new) = Offset(f, m, n + 1) /\ Size(f, m, n) \in Nat
  BY <1>1, <1>2, <1>3, OffsetFacts
<1>5. ASSUME NEW k \in 0 .. n
      PROVE  /\ Offset(f, m, k) + Size(f, m, k) <= Len(new)
             /\ \A w \in 1 .. Size(f, m, k) : new[Offset(f, m, k) + w] = Item(f, m, k, w)
  <2>1. k \in Nat /\ Offset(f, m, k) \in Nat /\ Size(f, m, k) \in Nat
    BY <1>1, OffsetFacts
  <2>2. CASE k = n
    <3>1. ASSUME NEW w \in 1 .. Size(f, m, n)
          PROVE  new[Offset(f, m, n) + w] = chunk[w]
      <4>1. /\ Offset(f, m, n) + w \in 1 .. Len(b) + Len(chunk)
            /\ ~ (Offset(f, m, n) + w <= Len(b))
            /\ (Offset(f, m, n) + w) - Len(b) = w
        BY <1>2, <1>4
      <4> QED
        BY <1>3, <4>1
    <3> QED
      BY <1>2, <1>3, <1>4, <2>1, <2>2, <3>1
  <2>3. CASE k # n
    <3>1. k \in 0 .. n - 1
      BY <1>1, <2>3
    <3>2. /\ Offset(f, m, k) + Size(f, m, k) <= Len(b)
          /\ \A w \in 1 .. Size(f, m, k) : b[Offset(f, m, k) + w] = Item(f, m, k, w)
      BY <3>1 DEF Packed
    <3> QED
      BY <1>2, <1>3, <1>4, <2>1, <3>2
  <2> QED
    BY <2>2, <2>3
<1>6. 0 .. (n + 1) - 1 = 0 .. n
  BY <1>1
<1>7. Packed(f, m, new, n + 1)
  BY <1>3, <1>4, <1>5, <1>6 DEF Packed
<1> QED
  BY <1>7 DEF new

(* A tile with nothing stored for it. *)
LEMMA PackedSkip ==
    ASSUME NEW f, NEW m, NEW n \in AllTiles, NEW b, Packed(f, m, b, n), Size(f, m, n) = 0
    PROVE  Packed(f, m, b, n + 1)
<1>1. n \in Nat
  BY KernelFacts DEF AllTiles
<1>2. Offset(f, m, n + 1) = Offset(f, m, n) /\ Offset(f, m, n) \in Nat
  BY <1>1, OffsetFacts
<1>3. \A k \in 0 .. n : k = n \/ k \in 0 .. n - 1
  BY <1>1
<1> QED
  BY <1>1, <1>2, <1>3 DEF Packed

(* What the decoder reads at the address of a tile. *)
LEMMA ReadPacked ==
    ASSUME NEW f, NEW m \in Kernels, NEW b, NEW n \in AllTiles,
           Packed(f, m, b, TileCount), n \in Copied(f, m)
    PROVE  ReadTile(b, Offset(f, m, n)) = TileAt(m, n)
<1>1. n \in 0 .. TileCount - 1 /\ n \in Nat
  BY KernelFacts DEF AllTiles
<1>2. Size(f, m, n) = TileWords /\ Offset(f, m, n) \in Nat /\ TileWords \in Nat
  BY <1>1, OffsetFacts, KernelFacts DEF Size
<1>3. /\ Offset(f, m, n) + TileWords <= Len(b)
      /\ \A w \in 1 .. TileWords : b[Offset(f, m, n) + w] = Word(m, n, w - 1)
  BY <1>1, <1>2 DEF Packed, Item
<1>4. Len(b) \in Nat
  BY LenProperties DEF Packed
<1>5. \A w \in 1 .. TileWords : Offset(f, m, n) + w <= Len(b)
  BY <1>2, <1>3, <1>4
<1> QED
  BY <1>3, <1>5 DEF ReadTile, TileAt

-----------------------------------------------------------------------------
(* Loops. *)
LEMMA LoopBounds ==
    /\ RowTiles * ColTiles = TileCount
    /\ ColTiles * RowTiles = TileCount
    /\ 0 * RowTiles + 0 = 0 /\ 0 * ColTiles + 0 = 0
    /\ ColTiles * RowTiles + 0 = TileCount /\ RowTiles * ColTiles + 0 = TileCount
<1>1. RowTiles * ColTiles = ColTiles * RowTiles /\ RowTiles * ColTiles \in Nat
  BY KernelFacts, Multiples
<1> QED
  BY <1>1, KernelFacts

(* The next place of a loop over lines of ColTiles tiles. *)
LEMMA LinePlace ==
    ASSUME NEW a \in 0 .. RowTiles - 1, NEW x \in 0 .. ColTiles - 1, NEW a2, NEW x2,
           IF x = ColTiles - 1 THEN a2 = a + 1 /\ x2 = 0 ELSE x2 = x + 1 /\ a2 = a
    PROVE  /\ a * ColTiles + x \in AllTiles /\ a * ColTiles + x \in Nat
           /\ a2 \in 0 .. RowTiles /\ x2 \in 0 .. ColTiles - 1
           /\ a2 = RowTiles => x2 = 0
           /\ a2 * ColTiles + x2 = (a * ColTiles + x) + 1
<1>0. RowTiles \in Nat /\ ColTiles \in Nat /\ RowTiles * ColTiles = TileCount
  BY KernelFacts, LoopBounds
<1>1. /\ a * ColTiles \in Nat /\ (a + 1) * ColTiles = a * ColTiles + ColTiles /\ a * ColTiles + ColTiles <= RowTiles * ColTiles
  BY <1>0, Multiples
<1>2. a * ColTiles + x \in AllTiles /\ a * ColTiles + x \in Nat
  BY <1>0, <1>1 DEF AllTiles
<1>3. CASE x = ColTiles - 1
  BY <1>0, <1>1, <1>2, <1>3
<1>4. CASE x # ColTiles - 1
  BY <1>0, <1>1, <1>2, <1>4
<1> QED
  BY <1>3, <1>4

(* The next place of a loop over columns of RowTiles tiles. *)
LEMMA ColumnPlace ==
    ASSUME NEW a \in 0 .. ColTiles - 1, NEW x \in 0 .. RowTiles - 1, NEW a2, NEW x2,
           IF x = RowTiles - 1 THEN a2 = a + 1 /\ x2 = 0 ELSE x2 = x + 1 /\ a2 = a
    PROVE  /\ a * RowTiles + x \in AllTiles /\ a * RowTiles + x \in Nat
           /\ a2 \in 0 .. ColTiles /\ x2 \in 0 .. RowTiles - 1
           /\ a2 = ColTiles => x2 = 0
           /\ a2 * RowTiles + x2 = (a * RowTiles + x) + 1
<1>0. ColTiles \in Nat /\ RowTiles \in Nat /\ ColTiles * RowTiles = TileCount
  BY KernelFacts, LoopBounds
<1>1. /\ a * RowTiles \in Nat /\ (a + 1) * RowTiles = a * RowTiles + RowTiles /\ a * RowTiles + RowTiles <= ColTiles * RowTiles
  BY <1>0, Multiples
<1>2. a * RowTiles + x \in AllTiles /\ a * RowTiles + x \in Nat
  BY <1>0, <1>1 DEF AllTiles
<1>3. CASE x = RowTiles - 1
  BY <1>0, <1>1, <1>2, <1>3
<1>4. CASE x # RowTiles - 1
  BY <1>0, <1>1, <1>2, <1>4
<1> QED
  BY <1>3, <1>4

-----------------------------------------------------------------------------
(* One array of words: NON_PRUNED, DYNAMIC, WITH_FLAG and HIDDEN_KEY. *)

StreamFormats == {"NON_PRUNED", "DYNAMIC", "WITH_FLAG", "HIDDEN_KEY"}

StreamEncoding ==
    pc = "encode" =>
        /\ format \in {"WITH_FLAG", "HIDDEN_KEY"}
        /\ i \in 0 .. RowTiles /\ j \in 0 .. ColTiles - 1 /\ (i = RowTiles => j = 0)
        /\ Packed(format, kernel, buf, i * ColTiles + j)
        /\ values = 0 /\ flag = 0 /\ counter = 0 /\ calls = << >>

StreamDecoding ==
    pc \in {"decode", "done"} =>
        /\ i \in 0 .. ColTiles /\ j \in 0 .. RowTiles - 1 /\ (i = ColTiles => j = 0)
        /\ Packed(format, kernel, buf, TileCount)
        /\ values = Offset(format, kernel, i * RowTiles + j)
        /\ format = "WITH_FLAG" =>
              /\ flag \in Nat /\ counter \in 0 .. WORD_BITS
              /\ flag * WORD_BITS + counter = i * RowTiles + j
        /\ CallsBefore(calls, i * RowTiles + j)

StreamInv ==
    format \in StreamFormats =>
        /\ kernel \in Kernels
        /\ format = "HIDDEN_KEY" => \A n \in AllTiles : kernel[n] # "key"
        /\ pc \in {"encode", "decode", "done"}
        /\ StreamEncoding /\ StreamDecoding
        /\ pc = "done" => i = ColTiles

LEMMA StreamSame ==
    /\ Stream!TileWords = TileWords /\ Stream!TileCount = TileCount
    /\ Stream!Kernels = Kernels /\ Stream!HIDDEN_KEY = HIDDEN_KEY
    /\ \A m, n, w : Stream!Word(m, n, w) = Word(m, n, w)
    /\ \A m, n : Stream!TileAt(m, n) = TileAt(m, n)
    /\ \A m, n : Stream!all_zeros(m, n) <=> all_zeros(m, n)
    /\ \A b, q : Stream!ReadTile(b, q) = ReadTile(b, q)
<1>1. /\ Stream!TileWords = TileWords /\ Stream!TileCount = TileCount
      /\ Stream!HIDDEN_KEY = HIDDEN_KEY
  BY DEF Stream!TileWords, TileWords, Stream!TileCount, TileCount, Stream!MAX_W_COL, MAX_W_COL,
         Stream!CEILING_DIV, CEILING_DIV, Stream!HIDDEN_KEY, HIDDEN_KEY
<1>2. \A m, n, w : Stream!Word(m, n, w) = Word(m, n, w)
  BY <1>1 DEF Stream!Word, Word
<1>3. \A m, n : Stream!TileAt(m, n) = TileAt(m, n)
  BY <1>1, <1>2 DEF Stream!TileAt, TileAt
<1>4. \A m, n : Stream!all_zeros(m, n) <=> all_zeros(m, n)
  BY <1>1, <1>2 DEF Stream!all_zeros, all_zeros
<1>5. \A b, q : Stream!ReadTile(b, q) = ReadTile(b, q)
  BY <1>1 DEF Stream!ReadTile, ReadTile
<1>6. Stream!Kernels = Kernels
  BY <1>1 DEF Stream!Kernels, Kernels
<1> QED
  BY <1>1, <1>2, <1>3, <1>4, <1>5, <1>6

(* The dense matrix has every tile at its place. *)
LEMMA DensePacked ==
    ASSUME NEW f \in {"NON_PRUNED", "DYNAMIC"}, kernel \in Kernels
    PROVE  Packed(f, kernel, Stream!Dense, TileCount)
<1> DEFINE T == TileCount * TileWords
           b == Stream!Dense
<1>0. TileCount \in Nat /\ TileWords \in Nat /\ TileWords > 0 /\ T \in Nat
  BY KernelFacts, Multiples
<1>1. b = [n \in 1 .. T |-> Word(kernel, (n - 1) \div TileWords, (n - 1) % TileWords)]
  BY StreamSame DEF Stream!Dense
<1>2. ASSUME NEW k \in AllTiles, NEW w \in 0 .. TileWords - 1
      PROVE  /\ (k * TileWords + w) + 1 \in 1 .. T
             /\ b[(k * TileWords + w) + 1] = Word(kernel, k, w)
             /\ k * TileWords + TileWords <= T
  <2>1. k \in Nat /\ k < TileCount /\ w \in Nat /\ w < TileWords
    BY <1>0 DEF AllTiles
  <2>2. k * TileWords \in Nat /\ k * TileWords + TileWords <= T
    BY <1>0, <2>1, Multiples
  <2>3. (k * TileWords + w) + 1 \in 1 .. T /\ ((k * TileWords + w) + 1) - 1 = k * TileWords + w
    BY <1>0, <2>1, <2>2
  <2>4. (k * TileWords + w) \div TileWords = k /\ (k * TileWords + w) % TileWords = w
    BY <1>0, <2>1, DivMod
  <2> QED
    BY <1>1, <2>2, <2>3, <2>4
<1>3. b \in Seq(Int) /\ Len(b) = T
  <2>1. ASSUME NEW n \in 1 .. T
        PROVE  b[n] \in Int
    <3>1. n - 1 \in Nat
      BY <1>0
    <3>2. PICK k \in Nat, w \in 0 .. TileWords - 1 : n - 1 = k * TileWords + w
      BY <1>0, <3>1, HasPlace
    <3>3. k \in AllTiles
      <4>1. CASE k >= TileCount
        <5>1. TileCount * TileWords <= k * TileWords
          BY <1>0, <4>1, Multiples
        <5> QED
          BY <1>0, <3>2, <5>1
      <4>2. CASE k < TileCount
        BY <1>0, <4>2 DEF AllTiles
      <4> QED
        BY <1>0, <4>1, <4>2
    <3>4. n = (k * TileWords + w) + 1
      BY <1>0, <3>2
    <3> QED
      BY <1>2, <3>3, <3>4, WordFacts
  <2>2. b \in [1 .. T -> Int]
    BY <1>1, <2>1
  <2>3. b \in Seq(Int)
    BY <1>0, <2>2, SeqDef
  <2> QED
    BY <1>0, <2>2, <2>3, LenProperties
<1> HIDE DEF b, T
<1>4. Copied(f, kernel) = AllTiles
  BY DEF Copied
<1>5. \A k \in 0 .. TileCount : Offset(f, kernel, k) = k * TileWords
  <2> SUFFICES ASSUME NEW k \in 0 .. TileCount
               PROVE  Count(AllTiles, k) * TileWords + 0 = k * TileWords
    BY <1>4 DEF Offset
  <2>1. AllTiles \cap (0 .. k - 1) = 0 .. k - 1
    BY <1>0 DEF AllTiles
  <2>2. Cardinality(0 .. k - 1) = k
    BY <1>0, FS_Interval
  <2>3. k * TileWords \in Nat
    BY <1>0, Multiples
  <2>4. Count(AllTiles, k) = k
    BY <2>1, <2>2 DEF Count
  <2> QED
    BY <2>3, <2>4
<1>6. Len(b) = Offset(f, kernel, TileCount)
  BY <1>0, <1>3, <1>5 DEF T
<1>7. ASSUME NEW k \in 0 .. TileCount - 1
      PROVE  /\ Offset(f, kernel, k) + Size(f, kernel, k) <= Len(b)
             /\ \A w \in 1 .. Size(f, kernel, k) :
                   b[Offset(f, kernel, k) + w] = Item(f, kernel, k, w)
  <2>1. k \in AllTiles /\ k \in 0 .. TileCount /\ Size(f, kernel, k) = TileWords
    BY <1>0, <1>4 DEF AllTiles, Size
  <2>2. Offset(f, kernel, k) = k * TileWords /\ k * TileWords \in Nat
    BY <1>0, <1>5, <2>1, Multiples
  <2>3. k * TileWords + TileWords <= Len(b)
    <3>1. 0 \in 0 .. TileWords - 1
      BY <1>0
    <3> QED
      BY <1>2, <1>3, <2>1, <3>1
  <2>4. ASSUME NEW w \in 1 .. TileWords
        PROVE  b[k * TileWords + w] = Word(kernel, k, w - 1)
    <3>1. w - 1 \in 0 .. TileWords - 1 /\ (k * TileWords + (w - 1)) + 1 = k * TileWords + w
      BY <1>0, <2>2
    <3> QED
      BY <1>2, <2>1, <3>1
  <2> QED
    BY <1>4, <2>1, <2>2, <2>3, <2>4 DEF Item
<1> QED
  BY <1>3, <1>6, <1>7 DEF Packed, b

LEMMA StreamInit ==
    ASSUME Stream!Init
    PROVE  StreamInv /\ calls = << >> /\ kernel \in Kernels
<1>1. /\ format \in StreamFormats /\ kernel \in Kernels
      /\ format = "HIDDEN_KEY" => \A n \in AllTiles : kernel[n] # "key"
      /\ pc = IF format \in {"WITH_FLAG", "HIDDEN_KEY"} THEN "encode" ELSE "decode"
      /\ i = 0 /\ j = 0
      /\ buf = IF format \in {"WITH_FLAG", "HIDDEN_KEY"} THEN << >> ELSE Stream!Dense
      /\ values = 0 /\ flag = 0 /\ counter = 0 /\ calls = << >>
  BY StreamSame DEF Stream!Init, Stream!KeyFree, StreamFormats, Kernels, AllTiles
<1>2. /\ i \in 0 .. RowTiles /\ j \in 0 .. ColTiles - 1 /\ i # RowTiles
      /\ i \in 0 .. ColTiles /\ j \in 0 .. RowTiles - 1 /\ i # ColTiles
      /\ i * ColTiles + j = 0 /\ i * RowTiles + j = 0
  BY <1>1, KernelFacts, LoopBounds
<1>3. CASE format \in {"WITH_FLAG", "HIDDEN_KEY"}
  <2>1. StreamEncoding
    BY <1>1, <1>2, <1>3, PackedNothing DEF StreamEncoding
  <2> QED
    BY <1>1, <1>3, <2>1 DEF StreamInv, StreamDecoding
<1>4. CASE format \in {"NON_PRUNED", "DYNAMIC"}
  <2>1. Packed(format, kernel, buf, TileCount)
    BY <1>1, <1>4, DensePacked
  <2>2. Offset(format, kernel, 0) = 0 /\ CallsBefore(calls, 0)
    BY <1>1, OffsetFacts, EmptySeq DEF CallsBefore
  <2>3. StreamDecoding
    BY <1>1, <1>2, <1>4, <2>1, <2>2 DEF StreamDecoding
  <2> QED
    BY <1>1, <1>4, <2>3 DEF StreamInv, StreamEncoding
<1> QED
  BY <1>1, <1>3, <1>4 DEF StreamFormats

(* Priming the parts of the invariant. *)
LEMMA StreamPrimed ==
    /\ Packed(format, kernel, buf, i * ColTiles + j)'
         <=> Packed(format', kernel', buf', i' * ColTiles + j')
    /\ Packed(format, kernel, buf, TileCount)' <=> Packed(format', kernel', buf', TileCount)
    /\ Offset(format, kernel, i * RowTiles + j)' = Offset(format', kernel', i' * RowTiles + j')
    /\ CallsBefore(calls, i * RowTiles + j)' <=> CallsBefore(calls', i' * RowTiles + j')
  BY DEF Packed, Offset, Size, Item, Copied, Count, AllTiles, TileSet, CallsBefore, CallSet

LEMMA StreamEncodeStep ==
    ASSUME StreamInv, format \in StreamFormats, Stream!EncodeTile
    PROVE  StreamInv' /\ UNCHANGED TS!vars
<1> DEFINE n == i * ColTiles + j
<1>1. /\ pc = "encode" /\ i < RowTiles
      /\ buf' = IF ~ all_zeros(kernel, n) THEN buf \o TileAt(kernel, n)
                ELSE IF format = "HIDDEN_KEY" THEN Append(buf, HIDDEN_KEY)
                ELSE buf
      /\ IF j = ColTiles - 1 THEN i' = i + 1 /\ j' = 0 ELSE j' = j + 1 /\ i' = i
      /\ UNCHANGED <<format, kernel, pc, values, flag, counter, calls>>
  BY StreamSame DEF Stream!EncodeTile, Stream!NextPlace
<1>2. /\ kernel \in Kernels /\ format \in {"WITH_FLAG", "HIDDEN_KEY"}
      /\ i \in 0 .. RowTiles - 1 /\ j \in 0 .. ColTiles - 1
      /\ Packed(format, kernel, buf, n)
      /\ values = 0 /\ flag = 0 /\ counter = 0 /\ calls = << >>
  BY <1>1, KernelFacts DEF StreamInv, StreamEncoding
<1>3. /\ n \in AllTiles /\ n \in Nat
      /\ i' \in 0 .. RowTiles /\ j' \in 0 .. ColTiles - 1
      /\ i' = RowTiles => j' = 0
      /\ i' * ColTiles + j' = n + 1
  BY <1>1, <1>2, LinePlace
<1> HIDE DEF n
<1>4. n \in AllTiles
  BY <1>3
<1>5. n \in Copied(format, kernel) <=> ~ all_zeros(kernel, n)
  BY <1>2, <1>4 DEF Copied, TileSet
<1>6. Packed(format, kernel, buf', n + 1)
  <2>1. CASE ~ all_zeros(kernel, n)
    <3>1. Size(format, kernel, n) = TileWords
      BY <1>5, <2>1 DEF Size
    <3>2. /\ TileAt(kernel, n) \in Seq(Int) /\ Len(TileAt(kernel, n)) = TileWords
          /\ \A w \in 1 .. TileWords : TileAt(kernel, n)[w] = Item(format, kernel, n, w)
      BY <1>2, <1>4, <1>5, <2>1, TileAtFacts DEF Item
    <3>3. Packed(format, kernel, buf \o TileAt(kernel, n), n + 1)
      BY <1>2, <1>4, <3>1, <3>2, PackedStep
    <3> QED
      BY <1>1, <2>1, <3>3
  <2>2. CASE all_zeros(kernel, n) /\ format = "HIDDEN_KEY"
    <3>1. Size(format, kernel, n) = 1 /\ HIDDEN_KEY \in Int
      BY <1>5, <2>2 DEF Size, HIDDEN_KEY
    <3>2. /\ <<HIDDEN_KEY>> \in Seq(Int) /\ Len(<<HIDDEN_KEY>>) = 1
          /\ \A w \in 1 .. 1 : <<HIDDEN_KEY>>[w] = Item(format, kernel, n, w)
      BY <1>5, <2>2, <3>1 DEF Item
    <3>3. Packed(format, kernel, buf \o <<HIDDEN_KEY>>, n + 1)
      BY <1>2, <1>4, <3>1, <3>2, PackedStep
    <3>4. buf \in Seq(Int)
      BY <1>2 DEF Packed
    <3>5. Append(buf, HIDDEN_KEY) = buf \o <<HIDDEN_KEY>>
      BY <3>1, <3>4, AppendIsConcat
    <3> QED
      BY <1>1, <2>2, <3>3, <3>5
  <2>3. CASE all_zeros(kernel, n) /\ format # "HIDDEN_KEY"
    <3>1. Size(format, kernel, n) = 0
      BY <1>5, <2>3 DEF Size
    <3> QED
      BY <1>1, <1>2, <1>4, <2>3, <3>1, PackedSkip
  <2> QED
    BY <2>1, <2>2, <2>3
<1>7. /\ format' = format /\ kernel' = kernel /\ pc' = "encode" /\ calls' = calls
      /\ values' = 0 /\ flag' = 0 /\ counter' = 0 /\ calls' = << >>
  BY <1>1, <1>2
<1>8. StreamEncoding'
  BY <1>2, <1>3, <1>6, <1>7, StreamPrimed DEF StreamEncoding
<1>9. StreamInv'
  BY <1>7, <1>8 DEF StreamInv, StreamDecoding
<1> QED
  BY <1>7, <1>9, NoCall

LEMMA StreamEncodeReturnStep ==
    ASSUME StreamInv, format \in StreamFormats, Stream!EncodeReturn
    PROVE  StreamInv' /\ UNCHANGED TS!vars
<1>1. /\ pc = "encode" /\ i = RowTiles /\ pc' = "decode" /\ i' = 0
      /\ UNCHANGED <<format, kernel, j, buf, values, flag, counter, calls>>
  BY DEF Stream!EncodeReturn
<1>2. /\ kernel \in Kernels
      /\ format = "HIDDEN_KEY" => \A n \in AllTiles : kernel[n] # "key"
      /\ j = 0 /\ Packed(format, kernel, buf, i * ColTiles + j)
      /\ values = 0 /\ flag = 0 /\ counter = 0 /\ calls = << >>
  BY <1>1 DEF StreamInv, StreamEncoding
<1>3. Packed(format', kernel', buf', TileCount)
  BY <1>1, <1>2, LoopBounds
<1>4. /\ i' * RowTiles + j' = 0 /\ i' \in 0 .. ColTiles /\ j' \in 0 .. RowTiles - 1
      /\ j' = 0 /\ 0 * WORD_BITS + 0 = 0 /\ 0 \in 0 .. WORD_BITS
  BY <1>1, <1>2, LoopBounds, KernelFacts
<1>5. Offset(format', kernel', 0) = 0 /\ CallsBefore(calls', 0)
  BY <1>1, <1>2, OffsetFacts, EmptySeq DEF CallsBefore
<1>6. StreamDecoding'
  <2>1. /\ format' = format /\ kernel' = kernel /\ flag' = 0 /\ counter' = 0 /\ values' = 0
    BY <1>1, <1>2
  <2> QED
    BY <1>3, <1>4, <1>5, <2>1, StreamPrimed DEF StreamDecoding
<1>7. StreamInv'
  BY <1>1, <1>2, <1>6 DEF StreamInv, StreamEncoding
<1> QED
  BY <1>1, <1>7, NoCall

(* A tile is passed: what an iteration of a decoder amounts to. *)
LEMMA StreamPassed ==
    ASSUME StreamInv, format \in StreamFormats, pc = "decode", i < ColTiles,
           IF j = RowTiles - 1 THEN i' = i + 1 /\ j' = 0 ELSE j' = j + 1 /\ i' = i,
           UNCHANGED <<format, kernel, pc, buf>>,
           values' = values + Size(format, kernel, TileIndex(j, i)),
           format = "WITH_FLAG" =>
              /\ flag' \in Nat /\ counter' \in 0 .. WORD_BITS
              /\ flag' * WORD_BITS + counter' = TileIndex(j, i) + 1,
           \/ calls' = calls
           \/ /\ TileIndex(j, i) \in Copied(format, kernel)
              /\ format = "DYNAMIC" => ~ all_zeros(kernel, TileIndex(j, i))
              /\ calls' = Append(calls, <<j, i, ReadTile(buf, values)>>)
    PROVE  StreamInv' /\ [TS!Next]_(TS!vars)
<1> DEFINE n == TileIndex(j, i)
<1>1. /\ kernel \in Kernels
      /\ format = "HIDDEN_KEY" => \A k \in AllTiles : kernel[k] # "key"
      /\ i \in 0 .. ColTiles - 1 /\ j \in 0 .. RowTiles - 1
      /\ Packed(format, kernel, buf, TileCount)
      /\ values = Offset(format, kernel, i * RowTiles + j)
      /\ CallsBefore(calls, i * RowTiles + j)
  BY KernelFacts DEF StreamInv, StreamDecoding
<1>2. /\ n \in AllTiles /\ n \in Nat /\ n = i * RowTiles + j
      /\ i' \in 0 .. ColTiles /\ j' \in 0 .. RowTiles - 1
      /\ i' = ColTiles => j' = 0
      /\ i' * RowTiles + j' = n + 1
  BY <1>1, ColumnPlace, TileNumber
<1> HIDE DEF n
<1>3. Offset(format, kernel, n + 1) = values'
  BY <1>1, <1>2, OffsetFacts DEF n
<1>4. CallsBefore(calls', n + 1) /\ [TS!Next]_(TS!vars)
  <2>1. CASE calls' = calls
    <3>1. CallsBefore(calls, n + 1)
      BY <1>1, <1>2, CallsKept
    <3> QED
      BY <2>1, <3>1, NoCall
  <2>2. CASE /\ n \in Copied(format, kernel)
             /\ format = "DYNAMIC" => ~ all_zeros(kernel, n)
             /\ calls' = Append(calls, <<j, i, ReadTile(buf, values)>>)
    <3>1. ReadTile(buf, values) = TileAt(kernel, n)
      BY <1>1, <1>2, <2>2, ReadPacked
    <3>2. CallsBefore(calls, TileIndex(j, i))
      BY <1>1, <1>2 DEF n
    <3>3. calls' = Append(calls, <<j, i, TileAt(kernel, TileIndex(j, i))>>)
      BY <2>2, <3>1 DEF n
    <3>4. format \in {"NON_PRUNED", "DYNAMIC", "WITH_FLAG", "HIDDEN_KEY", "META_DATA",
                      "INTERLEAVED"}
      BY DEF StreamFormats
    <3>5. TS!Next /\ CallsBefore(calls', TileIndex(j, i) + 1)
      BY <1>1, <2>2, <3>2, <3>3, <3>4, CallAppended DEF n
    <3> QED
      BY <3>5 DEF n
  <2> QED
    BY <2>1, <2>2 DEF n
<1>5. StreamDecoding'
  <2>1. format = "WITH_FLAG" =>
          /\ flag' \in Nat /\ counter' \in 0 .. WORD_BITS
          /\ flag' * WORD_BITS + counter' = n + 1
    BY DEF n
  <2> QED
    BY <1>1, <1>2, <1>3, <1>4, <2>1, StreamPrimed DEF StreamDecoding
<1>6. StreamInv'
  BY <1>1, <1>5 DEF StreamInv, StreamEncoding
<1> QED
  BY <1>4, <1>6

LEMMA StreamDecodeStep ==
    ASSUME StreamInv, format \in StreamFormats, Stream!DecodeTile
    PROVE  /\ StreamInv' /\ [TS!Next]_(TS!vars)
           /\ TileIndex(j, i) \in Due(format, kernel) =>
                calls' = Append(calls, <<j, i, ReadTile(buf, values)>>)
<1> DEFINE n == TileIndex(j, i)
<1>1. /\ pc = "decode" /\ i < ColTiles
      /\ IF j = RowTiles - 1 THEN i' = i + 1 /\ j' = 0 ELSE j' = j + 1 /\ i' = i
      /\ UNCHANGED <<format, kernel, pc, buf>>
  BY DEF Stream!DecodeTile, Stream!NextPlace
<1>2. /\ kernel \in Kernels
      /\ format = "HIDDEN_KEY" => \A k \in AllTiles : kernel[k] # "key"
      /\ i \in 0 .. ColTiles - 1 /\ j \in 0 .. RowTiles - 1
      /\ Packed(format, kernel, buf, TileCount)
      /\ values = Offset(format, kernel, i * RowTiles + j)
  BY <1>1, KernelFacts DEF StreamInv, StreamDecoding
<1>3. n \in AllTiles /\ n \in Nat /\ n = i * RowTiles + j
  BY <1>2, TileNumber
<1>4. Stream!Call <=> calls' = Append(calls, <<j, i, ReadTile(buf, values)>>)
  BY StreamSame DEF Stream!Call
<1>5. /\ values + Size(format, kernel, n) <= Len(buf) /\ values \in Nat
      /\ \A w \in 1 .. Size(format, kernel, n) : buf[values + w] = Item(format, kernel, n, w)
  BY <1>2, <1>3, OffsetFacts DEF Packed, AllTiles
<1> HIDE DEF n
<1>6. CASE Stream!NonPruned
  <2>1. format = "NON_PRUNED" /\ Stream!Call /\ values' = values + TileWords
    BY <1>6, StreamSame DEF Stream!NonPruned
  <2>2. n \in Copied(format, kernel)
    BY <1>3, <2>1 DEF Copied
  <2>3. values' = values + Size(format, kernel, n)
    BY <2>1, <2>2 DEF Size
  <2> QED
    BY <1>1, <1>4, <2>1, <2>2, <2>3, StreamPassed DEF n
<1>7. CASE Stream!Dynamic
  <2>1. /\ format = "DYNAMIC" /\ values' = values + TileWords
        /\ IF \A w \in 1 .. TileWords : buf[values + w] = 0 THEN calls' = calls ELSE Stream!Call
    BY <1>7, StreamSame DEF Stream!Dynamic
  <2>2. n \in Copied(format, kernel) /\ Size(format, kernel, n) = TileWords
    BY <1>3, <2>1 DEF Copied, Size
  <2>3. \A w \in 1 .. TileWords : buf[values + w] = Word(kernel, n, w - 1)
    BY <1>5, <2>2 DEF Item
  <2>4. all_zeros(kernel, n) => \A w \in 1 .. TileWords : buf[values + w] = 0
    BY <2>3, KernelFacts DEF all_zeros
  <2>5. values' = values + Size(format, kernel, n)
    BY <2>1, <2>2
  <2>6. calls' = calls \/ (Stream!Call /\ ~ all_zeros(kernel, n))
    BY <2>1, <2>4
  <2>7. n \in Due(format, kernel) => Stream!Call
    <3>1. ~ all_zeros(kernel, n) => ~ \A w \in 1 .. TileWords : buf[values + w] = 0
      <4>1. \A w \in 0 .. TileWords - 1 : w + 1 \in 1 .. TileWords /\ (w + 1) - 1 = w
        BY KernelFacts
      <4>2. \A w \in 0 .. TileWords - 1 : buf[values + (w + 1)] = Word(kernel, n, w)
        BY <2>3, <4>1
      <4> QED
        BY <4>1, <4>2 DEF all_zeros
    <3> QED
      BY <2>1, <3>1 DEF Due, TileSet
  <2> QED
    BY <1>1, <1>4, <2>1, <2>2, <2>5, <2>6, <2>7, StreamPassed DEF n
<1>8. CASE Stream!WithFlag
  <2>1. /\ format = "WITH_FLAG"
        /\ flag' = IF counter = WORD_BITS THEN flag + 1 ELSE flag
        /\ counter' = IF counter = WORD_BITS THEN 1 ELSE counter + 1
        /\ IF counter' - 1 \in Stream!FlagWord(flag')
             THEN calls' = calls /\ values' = values
             ELSE Stream!Call /\ values' = values + TileWords
    BY <1>8, StreamSame DEF Stream!WithFlag
  <2>2. /\ flag \in Nat /\ counter \in 0 .. WORD_BITS /\ flag * WORD_BITS + counter = n
        /\ WORD_BITS \in Nat /\ WORD_BITS > 0
    BY <1>1, <1>3, <2>1, KernelFacts DEF StreamInv, StreamDecoding
  <2>3. /\ flag' \in Nat /\ counter' \in 0 .. WORD_BITS /\ counter' - 1 \in 0 .. WORD_BITS - 1
        /\ flag' * WORD_BITS + counter' = n + 1
        /\ flag' * WORD_BITS + (counter' - 1) = n
    <3>1. flag * WORD_BITS \in Nat /\ (flag + 1) * WORD_BITS = flag * WORD_BITS + WORD_BITS
      BY <2>2, Multiples
    <3>2. CASE counter = WORD_BITS
      BY <1>3, <2>1, <2>2, <3>1, <3>2
    <3>3. CASE counter # WORD_BITS
      BY <1>3, <2>1, <2>2, <3>1, <3>3
    <3> QED
      BY <3>2, <3>3
  <2>4. counter' - 1 \in Stream!FlagWord(flag') <=> all_zeros(kernel, n)
    <3> DEFINE F == flag'
               B == counter' - 1
    <3>1. B \in 0 .. WORD_BITS - 1 /\ F * WORD_BITS + B = n
      BY <2>3
    <3>2. n < TileCount
      BY <1>3, KernelFacts DEF AllTiles
    <3> HIDE DEF F, B
    <3>3. Stream!FlagWord(F) =
            { b \in 0 .. WORD_BITS - 1 : /\ F * WORD_BITS + b < TileCount
                                         /\ all_zeros(kernel, F * WORD_BITS + b) }
      BY StreamSame DEF Stream!FlagWord
    <3>4. B \in Stream!FlagWord(F) <=> all_zeros(kernel, n)
      BY <3>1, <3>2, <3>3
    <3> QED
      BY <3>4 DEF F, B
  <2>5. n \in Copied(format, kernel) <=> ~ all_zeros(kernel, n)
    BY <1>3, <2>1 DEF Copied, TileSet
  <2>6. values' = values + Size(format, kernel, n)
    BY <1>5, <2>1, <2>4, <2>5 DEF Size
  <2>7. calls' = calls \/ (Stream!Call /\ n \in Copied(format, kernel))
    BY <2>1, <2>4, <2>5
  <2>8. n \in Due(format, kernel) => Stream!Call
    BY <2>1, <2>4, <2>5 DEF Due, Copied, TileSet
  <2> QED
    BY <1>1, <1>4, <2>1, <2>3, <2>6, <2>7, <2>8, StreamPassed DEF n
<1>9. CASE Stream!HiddenKey
  <2>1. /\ format = "HIDDEN_KEY"
        /\ IF values < Len(buf) /\ buf[values + 1] = HIDDEN_KEY
             THEN values' = values + 1 /\ calls' = calls
             ELSE Stream!Call /\ values' = values + TileWords
    BY <1>9, StreamSame DEF Stream!HiddenKey
  <2>2. n \in Copied(format, kernel) <=> ~ all_zeros(kernel, n)
    BY <1>3, <2>1 DEF Copied, TileSet
  <2>3. 1 \in 1 .. Size(format, kernel, n) /\ Size(format, kernel, n) \in Nat
    BY <2>1, KernelFacts DEF Size
  <2>4. values < Len(buf) /\ buf[values + 1] = Item(format, kernel, n, 1)
    <3>1. Len(buf) \in Nat
      BY <1>2, LenProperties DEF Packed
    <3> QED
      BY <1>5, <2>3, <3>1
  <2>5. buf[values + 1] = HIDDEN_KEY <=> n \notin Copied(format, kernel)
    <3>1. Word(kernel, n, 0) # HIDDEN_KEY
      <4>1. 0 \in 0 .. TileWords - 1
        BY KernelFacts
      <4> QED
        BY <1>2, <1>3, <2>1, <4>1, WordFacts
    <3>2. 1 - 1 = 0
      OBVIOUS
    <3> QED
      BY <2>4, <3>1, <3>2 DEF Item
  <2>6. values' = values + Size(format, kernel, n)
    BY <2>1, <2>4, <2>5 DEF Size
  <2>7. calls' = calls \/ (Stream!Call /\ n \in Copied(format, kernel))
    BY <2>1, <2>4, <2>5
  <2>8. n \in Due(format, kernel) => Stream!Call
    BY <2>1, <2>4, <2>5 DEF Due, Copied, TileSet
  <2> QED
    BY <1>1, <1>4, <2>1, <2>6, <2>7, <2>8, StreamPassed DEF n
<1> QED
  BY <1>6, <1>7, <1>8, <1>9 DEF Stream!DecodeTile

LEMMA StreamStep ==
    ASSUME StreamInv, format \in StreamFormats, Stream!Next
    PROVE  StreamInv' /\ [TS!Next]_(TS!vars)
<1>1. CASE Stream!DecodeReturn \/ Stream!Finished
  <2>1. /\ pc \in {"decode", "done"} /\ pc' = "done" /\ i = ColTiles
        /\ UNCHANGED <<format, kernel, i, j, buf, values, flag, counter, calls>>
    BY <1>1 DEF Stream!DecodeReturn, Stream!Finished, Stream!vars, StreamInv
  <2>2. StreamInv'
    BY <2>1, StreamPrimed DEF StreamInv, StreamEncoding, StreamDecoding
  <2> QED
    BY <2>1, <2>2, NoCall
<1> QED
  BY <1>1, StreamEncodeStep, StreamEncodeReturnStep, StreamDecodeStep DEF Stream!Next

-----------------------------------------------------------------------------
(* META_DATA: a flag for each column and, for a column that is not all     *)
(* zeros, flags for its tiles.  Such a column is the Count'th that has     *)
(* flags for tiles, and they start at RowTiles times that number.          *)

Used(m) ==
    { c \in 0 .. ColTiles - 1 : \E r \in 0 .. RowTiles - 1 : ~ all_zeros(m, TileIndex(r, c)) }

(* The flags of the first n columns. *)
Flags(m, a1, a2, n) ==
    /\ a1 \in [0 .. ColTiles - 1 -> BOOLEAN] /\ a2 \in [AllTiles -> BOOLEAN]
    /\ \A c \in 0 .. n - 1 :
          /\ a1[c] <=> c \in Used(m)
          /\ c \in Used(m) =>
                \A r \in 0 .. RowTiles - 1 :
                    a2[Count(Used(m), c) * RowTiles + r] <=> ~ all_zeros(m, TileIndex(r, c))

(* The flags of the first n tiles of column c. *)
ColumnFlags(m, a2, c, n) ==
    \A r \in 0 .. n - 1 :
        a2[Count(Used(m), c) * RowTiles + r] <=> ~ all_zeros(m, TileIndex(r, c))

ZeroSoFar(m, c, n) == \A r \in 0 .. n - 1 : all_zeros(m, TileIndex(r, c))

MetaEncoding ==
    pc = "encode" =>
        /\ i \in 0 .. RowTiles /\ j \in 0 .. ColTiles /\ (j = ColTiles => i = 0)
        /\ Packed("META_DATA", kernel, buf, j * RowTiles + i)
        /\ Flags(kernel, m1, m2, j)
        /\ m2StartIndex = Count(Used(kernel), j) * RowTiles
        /\ columnAllZeros \in BOOLEAN /\ (columnAllZeros <=> ZeroSoFar(kernel, j, i))
        /\ ColumnFlags(kernel, m2, j, i)
        /\ m1Ptr = 0 /\ m2Ptr = 0 /\ values = 0 /\ calls = << >>

MetaDecoding ==
    pc \in {"decode", "done"} =>
        /\ i \in 0 .. ColTiles /\ j \in 0 .. RowTiles - 1
        /\ i \notin Used(kernel) => j = 0
        /\ Packed("META_DATA", kernel, buf, TileCount)
        /\ Flags(kernel, m1, m2, ColTiles)
        /\ m2StartIndex = Count(Used(kernel), ColTiles) * RowTiles
        /\ m1Ptr = i
        /\ m2Ptr = Count(Used(kernel), i) * RowTiles + j
        /\ values = Offset("META_DATA", kernel, i * RowTiles + j)
        /\ CallsBefore(calls, i * RowTiles + j)

MetaInv ==
    format = "META_DATA" =>
        /\ kernel \in Kernels
        /\ pc \in {"encode", "decode", "done"}
        /\ MetaEncoding /\ MetaDecoding
        /\ pc = "done" => i = ColTiles

LEMMA MetaSame ==
    /\ MetaData!TileWords = TileWords /\ MetaData!TileCount = TileCount
    /\ MetaData!Kernels = Kernels
    /\ \A r, c : MetaData!TileIndex(r, c) = TileIndex(r, c)
    /\ \A m, n : MetaData!TileAt(m, n) = TileAt(m, n)
    /\ \A m, n : MetaData!all_zeros(m, n) <=> all_zeros(m, n)
    /\ \A b, q : MetaData!ReadTile(b, q) = ReadTile(b, q)
<1>1. /\ MetaData!TileWords = TileWords /\ MetaData!TileCount = TileCount
      /\ MetaData!HIDDEN_KEY = HIDDEN_KEY
      /\ \A r, c : MetaData!TileIndex(r, c) = TileIndex(r, c)
  BY DEF MetaData!TileWords, TileWords, MetaData!TileCount, TileCount, MetaData!MAX_W_COL,
         MAX_W_COL, MetaData!CEILING_DIV, CEILING_DIV, MetaData!HIDDEN_KEY, HIDDEN_KEY,
         MetaData!TileIndex, TileIndex
<1>2. \A m, n, w : MetaData!Word(m, n, w) = Word(m, n, w)
  BY <1>1 DEF MetaData!Word, Word
<1>3. \A m, n : MetaData!TileAt(m, n) = TileAt(m, n)
  BY <1>1, <1>2 DEF MetaData!TileAt, TileAt
<1>4. \A m, n : MetaData!all_zeros(m, n) <=> all_zeros(m, n)
  BY <1>1, <1>2 DEF MetaData!all_zeros, all_zeros
<1>5. \A b, q : MetaData!ReadTile(b, q) = ReadTile(b, q)
  BY <1>1 DEF MetaData!ReadTile, ReadTile
<1>6. MetaData!Kernels = Kernels
  BY <1>1 DEF MetaData!Kernels, Kernels
<1> QED
  BY <1>1, <1>3, <1>4, <1>5, <1>6

(* Where the flags of column c are, and that no other column has them. *)
LEMMA FlagPlace ==
    ASSUME NEW m, NEW c \in 0 .. ColTiles - 1, NEW r \in 0 .. RowTiles - 1
    PROVE  /\ Count(Used(m), c) * RowTiles + r \in AllTiles
           /\ Count(Used(m), c) * RowTiles \in Nat
           /\ \A d \in 0 .. c - 1, x \in 0 .. RowTiles - 1 :
                 d \in Used(m) =>
                   Count(Used(m), d) * RowTiles + x # Count(Used(m), c) * RowTiles + r
<1>1. /\ Count(Used(m), c) \in Nat /\ Count(Used(m), c) <= c /\ c \in Nat /\ c < ColTiles
      /\ RowTiles \in Nat /\ ColTiles \in Nat /\ ColTiles * RowTiles = TileCount
  BY CountFacts, KernelFacts, LoopBounds
<1>2. Count(Used(m), c) * RowTiles \in Nat
      /\ Count(Used(m), c) * RowTiles + RowTiles <= ColTiles * RowTiles
  <2>1. Count(Used(m), c) < ColTiles
    BY <1>1
  <2> QED
    BY <1>1, <2>1, Multiples
<1>3. ASSUME NEW d \in 0 .. c - 1, NEW x \in 0 .. RowTiles - 1, d \in Used(m)
      PROVE  Count(Used(m), d) * RowTiles + x # Count(Used(m), c) * RowTiles + r
  <2>1. d \in Nat /\ d + 1 \in Nat /\ d + 1 <= c
    BY <1>1
  <2>2. Count(Used(m), d) \in Nat /\ Count(Used(m), d + 1) = Count(Used(m), d) + 1
    BY <1>3, <2>1, CountFacts
  <2>3. Count(Used(m), d + 1) <= Count(Used(m), c)
    BY <1>1, <2>1, CountMonotonic
  <2>4. Count(Used(m), d) # Count(Used(m), c)
    BY <1>1, <2>2, <2>3
  <2> DEFINE a == Count(Used(m), d)
             b == Count(Used(m), c)
  <2>5. a \in Nat /\ b \in Nat /\ a # b /\ RowTiles \in Nat
    BY <1>1, <2>2, <2>4
  <2> HIDE DEF a, b
  <2>6. a * RowTiles + x = b * RowTiles + r <=> a = b /\ x = r
    BY <2>5, LineOrder
  <2> QED
    BY <2>5, <2>6 DEF a, b
<1> QED
  BY <1>1, <1>2, <1>3 DEF AllTiles

LEMMA MetaInit ==
    ASSUME format = "META_DATA", MetaData!Init
    PROVE  MetaInv /\ calls = << >> /\ kernel \in Kernels
<1>1. /\ kernel \in Kernels /\ pc = "encode" /\ i = 0 /\ j = 0 /\ buf = << >>
      /\ m1 = [c \in 0 .. ColTiles - 1 |-> FALSE] /\ m2 = [n \in AllTiles |-> FALSE]
      /\ m2StartIndex = 0 /\ columnAllZeros = TRUE
      /\ m1Ptr = 0 /\ m2Ptr = 0 /\ values = 0 /\ calls = << >>
  BY MetaSame DEF MetaData!Init, AllTiles
<1>2. /\ i \in 0 .. RowTiles /\ j \in 0 .. ColTiles /\ j # ColTiles
      /\ j * RowTiles + i = 0
  BY <1>1, KernelFacts, LoopBounds
<1>3. Flags(kernel, m1, m2, j)
  BY <1>1 DEF Flags
<1>4. Count(Used(kernel), j) * RowTiles = 0
  BY <1>1, CountFacts, KernelFacts, Multiples
<1>5. ZeroSoFar(kernel, j, i) /\ ColumnFlags(kernel, m2, j, i)
  BY <1>1 DEF ZeroSoFar, ColumnFlags
<1>6. MetaEncoding
  BY <1>1, <1>2, <1>3, <1>4, <1>5, PackedNothing DEF MetaEncoding
<1> QED
  BY <1>1, <1>6 DEF MetaInv, MetaDecoding

(* Priming the parts of the invariant. *)
LEMMA MetaPrimed ==
    /\ Packed("META_DATA", kernel, buf, j * RowTiles + i)'
         <=> Packed("META_DATA", kernel', buf', j' * RowTiles + i')
    /\ Packed("META_DATA", kernel, buf, TileCount)' <=> Packed("META_DATA", kernel', buf', TileCount)
    /\ Flags(kernel, m1, m2, j)' <=> Flags(kernel', m1', m2', j')
    /\ Flags(kernel, m1, m2, ColTiles)' <=> Flags(kernel', m1', m2', ColTiles)
    /\ (Count(Used(kernel), j) * RowTiles)' = Count(Used(kernel'), j') * RowTiles
    /\ (Count(Used(kernel), ColTiles) * RowTiles)' = Count(Used(kernel'), ColTiles) * RowTiles
    /\ (Count(Used(kernel), i) * RowTiles + j)' = Count(Used(kernel'), i') * RowTiles + j'
    /\ ZeroSoFar(kernel, j, i)' <=> ZeroSoFar(kernel', j', i')
    /\ ColumnFlags(kernel, m2, j, i)' <=> ColumnFlags(kernel', m2', j', i')
    /\ Offset("META_DATA", kernel, i * RowTiles + j)'
         = Offset("META_DATA", kernel', i' * RowTiles + j')
    /\ CallsBefore(calls, i * RowTiles + j)' <=> CallsBefore(calls', i' * RowTiles + j')
    /\ Used(kernel)' = Used(kernel')
  BY DEF Packed, Offset, Size, Item, Copied, Count, AllTiles, TileSet, Flags, Used, ZeroSoFar,
         ColumnFlags, CallsBefore, CallSet

LEMMA MetaEncodeTileStep ==
    ASSUME MetaInv, format = "META_DATA", format' = format, MetaData!EncodeTile
    PROVE  MetaInv' /\ UNCHANGED TS!vars
<1> DEFINE n == TileIndex(i, j)
           place == m2StartIndex + i
<1>1. /\ pc = "encode" /\ j < ColTiles /\ i < RowTiles
      /\ m2' = [m2 EXCEPT ![m2StartIndex + i] = ~ all_zeros(kernel, n)]
      /\ IF all_zeros(kernel, n) THEN buf' = buf /\ columnAllZeros' = columnAllZeros
           ELSE buf' = buf \o TileAt(kernel, n) /\ columnAllZeros' = FALSE
      /\ i' = i + 1
      /\ UNCHANGED <<kernel, pc, j, m1, m2StartIndex, m1Ptr, m2Ptr, values, calls>>
  BY MetaSame DEF MetaData!EncodeTile, MetaData!decoderVars
<1>2. /\ kernel \in Kernels /\ i \in 0 .. RowTiles - 1 /\ j \in 0 .. ColTiles - 1
      /\ Packed("META_DATA", kernel, buf, j * RowTiles + i)
      /\ Flags(kernel, m1, m2, j)
      /\ m2StartIndex = Count(Used(kernel), j) * RowTiles
      /\ columnAllZeros \in BOOLEAN /\ (columnAllZeros <=> ZeroSoFar(kernel, j, i))
      /\ ColumnFlags(kernel, m2, j, i)
      /\ m1Ptr = 0 /\ m2Ptr = 0 /\ values = 0 /\ calls = << >>
  BY <1>1, KernelFacts DEF MetaInv, MetaEncoding
<1>3. n \in AllTiles /\ n \in Nat /\ n = j * RowTiles + i
  BY <1>2, TileNumber
<1>4. /\ i' \in 0 .. RowTiles /\ j' \in 0 .. ColTiles /\ j' # ColTiles
      /\ j' * RowTiles + i' = n + 1
  <2>1. j * RowTiles \in Nat
    BY <1>2, KernelFacts, Multiples
  <2> QED
    BY <1>1, <1>2, <1>3, <2>1, KernelFacts
<1> HIDE DEF n
<1>5. Packed("META_DATA", kernel, buf', n + 1)
  <2>1. n \in Copied("META_DATA", kernel) <=> ~ all_zeros(kernel, n)
    BY <1>3 DEF Copied, TileSet
  <2>2. CASE all_zeros(kernel, n)
    <3>1. Size("META_DATA", kernel, n) = 0
      BY <2>1, <2>2 DEF Size
    <3> QED
      BY <1>1, <1>2, <1>3, <2>2, <3>1, PackedSkip
  <2>3. CASE ~ all_zeros(kernel, n)
    <3>1. Size("META_DATA", kernel, n) = TileWords
      BY <2>1, <2>3 DEF Size
    <3>2. /\ TileAt(kernel, n) \in Seq(Int) /\ Len(TileAt(kernel, n)) = TileWords
          /\ \A w \in 1 .. TileWords : TileAt(kernel, n)[w] = Item("META_DATA", kernel, n, w)
      BY <1>2, <1>3, <2>1, <2>3, TileAtFacts DEF Item
    <3>3. Packed("META_DATA", kernel, buf \o TileAt(kernel, n), n + 1)
      BY <1>2, <1>3, <3>1, <3>2, PackedStep
    <3> QED
      BY <1>1, <2>3, <3>3
  <2> QED
    BY <2>2, <2>3
<1>6. /\ place \in AllTiles
      /\ \A d \in 0 .. j - 1, x \in 0 .. RowTiles - 1 :
            d \in Used(kernel) => Count(Used(kernel), d) * RowTiles + x # place
      /\ m2 \in [AllTiles -> BOOLEAN] /\ m2StartIndex \in Nat
  BY <1>2, FlagPlace DEF Flags
<1>7. /\ m2' \in [AllTiles -> BOOLEAN] /\ (m2'[place] <=> ~ all_zeros(kernel, n))
      /\ \A q \in AllTiles : q # place => m2'[q] = m2[q]
  BY <1>1, <1>6
<1> HIDE DEF place
<1>8. Flags(kernel, m1, m2', j)
  <2>1. ASSUME NEW c \in 0 .. j - 1, NEW r \in 0 .. RowTiles - 1, c \in Used(kernel)
        PROVE  m2'[Count(Used(kernel), c) * RowTiles + r] <=> ~ all_zeros(kernel, TileIndex(r, c))
    <3>1. c \in 0 .. ColTiles - 1
      BY <1>2, KernelFacts
    <3>2. Count(Used(kernel), c) * RowTiles + r \in AllTiles
      BY <3>1, FlagPlace
    <3>3. m2'[Count(Used(kernel), c) * RowTiles + r] = m2[Count(Used(kernel), c) * RowTiles + r]
      BY <1>6, <1>7, <2>1, <3>2
    <3>4. m2[Count(Used(kernel), c) * RowTiles + r] <=> ~ all_zeros(kernel, TileIndex(r, c))
      BY <1>2, <2>1 DEF Flags
    <3> QED
      BY <3>3, <3>4
  <2> QED
    BY <1>2, <1>7, <2>1 DEF Flags
<1>9. ColumnFlags(kernel, m2', j, i + 1)
  <2> SUFFICES ASSUME NEW r \in 0 .. i
               PROVE  m2'[m2StartIndex + r] <=> ~ all_zeros(kernel, TileIndex(r, j))
    <3>1. 0 .. (i + 1) - 1 = 0 .. i
      BY <1>2
    <3> QED
      BY <1>2, <3>1 DEF ColumnFlags
  <2>1. CASE r = i
    BY <1>7, <2>1 DEF place, n
  <2>2. CASE r # i
    <3>1. r \in 0 .. i - 1 /\ r \in 0 .. RowTiles - 1 /\ m2StartIndex + r # place
      BY <1>2, <1>6, <2>2, KernelFacts DEF place
    <3>2. m2StartIndex + r \in AllTiles
      BY <1>2, <3>1, FlagPlace
    <3>3. m2'[m2StartIndex + r] = m2[m2StartIndex + r]
      BY <1>7, <3>1, <3>2
    <3>4. m2[m2StartIndex + r] <=> ~ all_zeros(kernel, TileIndex(r, j))
      BY <1>2, <3>1 DEF ColumnFlags
    <3> QED
      BY <3>3, <3>4
  <2> QED
    BY <2>1, <2>2
<1>10. columnAllZeros' \in BOOLEAN /\ (columnAllZeros' <=> ZeroSoFar(kernel, j, i + 1))
  <2>1. ZeroSoFar(kernel, j, i + 1) <=> ZeroSoFar(kernel, j, i) /\ all_zeros(kernel, n)
    <3>1. 0 .. (i + 1) - 1 = (0 .. i - 1) \cup {i}
      BY <1>2, KernelFacts
    <3> QED
      BY <3>1 DEF ZeroSoFar, n
  <2> QED
    BY <1>1, <1>2, <2>1
<1>11. MetaEncoding'
  BY <1>1, <1>2, <1>4, <1>5, <1>8, <1>9, <1>10, MetaPrimed DEF MetaEncoding
<1>12. MetaInv'
  BY <1>1, <1>2, <1>11 DEF MetaInv, MetaDecoding
<1> QED
  BY <1>1, <1>12, NoCall

LEMMA MetaEncodeColumnStep ==
    ASSUME MetaInv, format = "META_DATA", format' = format, MetaData!EncodeColumn
    PROVE  MetaInv' /\ UNCHANGED TS!vars
<1>1. /\ pc = "encode" /\ j < ColTiles /\ i = RowTiles
      /\ m1' = [m1 EXCEPT ![j] = ~ columnAllZeros]
      /\ m2StartIndex' = IF columnAllZeros THEN m2StartIndex ELSE m2StartIndex + RowTiles
      /\ j' = j + 1 /\ i' = 0 /\ columnAllZeros' = TRUE
      /\ UNCHANGED <<kernel, pc, buf, m2, m1Ptr, m2Ptr, values, calls>>
  BY DEF MetaData!EncodeColumn, MetaData!decoderVars
<1>2. /\ kernel \in Kernels /\ j \in 0 .. ColTiles - 1
      /\ Packed("META_DATA", kernel, buf, j * RowTiles + i)
      /\ Flags(kernel, m1, m2, j)
      /\ m2StartIndex = Count(Used(kernel), j) * RowTiles
      /\ columnAllZeros \in BOOLEAN /\ (columnAllZeros <=> ZeroSoFar(kernel, j, RowTiles))
      /\ ColumnFlags(kernel, m2, j, RowTiles)
      /\ m1Ptr = 0 /\ m2Ptr = 0 /\ values = 0 /\ calls = << >>
  BY <1>1, KernelFacts DEF MetaInv, MetaEncoding
<1>3. ~ columnAllZeros <=> j \in Used(kernel)
  BY <1>2 DEF ZeroSoFar, Used
<1>4. /\ j' \in 0 .. ColTiles /\ i' \in 0 .. RowTiles
      /\ j' * RowTiles + i' = j * RowTiles + i
  <2>1. (j + 1) * RowTiles = j * RowTiles + RowTiles /\ j * RowTiles \in Nat
    BY <1>2, KernelFacts, Multiples
  <2> QED
    BY <1>1, <1>2, <2>1, KernelFacts
<1>5. m2StartIndex' = Count(Used(kernel), j + 1) * RowTiles
  <2> DEFINE a == Count(Used(kernel), j)
             b == Count(Used(kernel), j + 1)
  <2>1. a \in Nat /\ b = IF j \in Used(kernel) THEN a + 1 ELSE a
    BY <1>2, CountFacts
  <2>2. m2StartIndex = a * RowTiles
    BY <1>2
  <2> HIDE DEF a, b
  <2>3. (a + 1) * RowTiles = a * RowTiles + RowTiles
    BY <2>1, KernelFacts, Multiples
  <2>4. m2StartIndex' = b * RowTiles
    BY <1>1, <1>2, <1>3, <2>1, <2>2, <2>3
  <2> QED
    BY <2>4 DEF b
<1>6. Flags(kernel, m1', m2, j + 1)
  <2>1. /\ m1 \in [0 .. ColTiles - 1 -> BOOLEAN] /\ m2 \in [AllTiles -> BOOLEAN]
        /\ \A c \in 0 .. j - 1 : m1[c] <=> c \in Used(kernel)
    BY <1>2 DEF Flags
  <2>2. m1' \in [0 .. ColTiles - 1 -> BOOLEAN] /\ m1'[j] = ~ columnAllZeros
        /\ \A c \in 0 .. ColTiles - 1 : c # j => m1'[c] = m1[c]
    BY <1>1, <1>2, <2>1
  <2>3. ASSUME NEW c \in 0 .. (j + 1) - 1
        PROVE  /\ m1'[c] <=> c \in Used(kernel)
               /\ c \in Used(kernel) =>
                     \A r \in 0 .. RowTiles - 1 :
                       m2[Count(Used(kernel), c) * RowTiles + r]
                         <=> ~ all_zeros(kernel, TileIndex(r, c))
    <3>1. CASE c = j
      BY <1>2, <1>3, <2>2, <3>1 DEF ColumnFlags
    <3>2. CASE c # j
      <4>1. c \in 0 .. j - 1 /\ c \in 0 .. ColTiles - 1
        BY <1>2, <3>2, KernelFacts
      <4>2. m1'[c] = m1[c]
        BY <2>2, <3>2, <4>1
      <4> QED
        BY <1>2, <4>1, <4>2 DEF Flags
    <3> QED
      BY <3>1, <3>2
  <2> QED
    BY <2>1, <2>2, <2>3 DEF Flags
<1>7. ZeroSoFar(kernel, j + 1, 0) /\ ColumnFlags(kernel, m2, j + 1, 0)
  BY DEF ZeroSoFar, ColumnFlags
<1>8. MetaEncoding'
  <2>1. Packed("META_DATA", kernel', buf', j' * RowTiles + i')
    BY <1>1, <1>2, <1>4
  <2> QED
    BY <1>1, <1>2, <1>4, <1>5, <1>6, <1>7, <2>1, MetaPrimed DEF MetaEncoding
<1>9. MetaInv'
  BY <1>1, <1>2, <1>8 DEF MetaInv, MetaDecoding
<1> QED
  BY <1>1, <1>9, NoCall

LEMMA MetaEncodeReturnStep ==
    ASSUME MetaInv, format = "META_DATA", format' = format, MetaData!EncodeReturn
    PROVE  MetaInv' /\ UNCHANGED TS!vars
<1>1. /\ pc = "encode" /\ j = ColTiles /\ pc' = "decode" /\ i' = 0 /\ j' = 0
      /\ UNCHANGED <<kernel, buf, m1, m2, m2StartIndex, m1Ptr, m2Ptr, values, calls>>
  BY DEF MetaData!EncodeReturn, MetaData!encoderVars, MetaData!decoderVars
<1>2. /\ kernel \in Kernels /\ Packed("META_DATA", kernel, buf, TileCount)
      /\ Flags(kernel, m1, m2, ColTiles)
      /\ m2StartIndex = Count(Used(kernel), ColTiles) * RowTiles
      /\ m1Ptr = 0 /\ m2Ptr = 0 /\ values = 0 /\ calls = << >>
  BY <1>1, LoopBounds DEF MetaInv, MetaEncoding
<1>3. /\ i' \in 0 .. ColTiles /\ j' \in 0 .. RowTiles - 1 /\ i' * RowTiles + j' = 0
      /\ Count(Used(kernel), 0) * RowTiles + 0 = 0
  BY <1>1, LoopBounds, KernelFacts, CountFacts
<1>4. Offset("META_DATA", kernel', 0) = 0 /\ CallsBefore(calls', 0)
  BY <1>1, <1>2, OffsetFacts, EmptySeq DEF CallsBefore
<1>5. MetaDecoding'
  BY <1>1, <1>2, <1>3, <1>4, MetaPrimed DEF MetaDecoding
<1>6. MetaInv'
  BY <1>1, <1>2, <1>5 DEF MetaInv, MetaEncoding
<1> QED
  BY <1>1, <1>6, NoCall

(* The decoder's state after a step, from its parts. *)
LEMMA MetaPassed ==
    ASSUME MetaInv, format = "META_DATA", format' = format, pc = "decode",
           UNCHANGED <<kernel, pc, buf, m1, m2, m2StartIndex>>,
           i' \in 0 .. ColTiles, j' \in 0 .. RowTiles - 1, i' \notin Used(kernel) => j' = 0,
           m1Ptr' = i', m2Ptr' = Count(Used(kernel), i') * RowTiles + j',
           values' = Offset("META_DATA", kernel, i' * RowTiles + j'),
           CallsBefore(calls', i' * RowTiles + j')
    PROVE  MetaInv'
<1>1. MetaDecoding'
  <2>1. /\ Packed("META_DATA", kernel, buf, TileCount) /\ Flags(kernel, m1, m2, ColTiles)
        /\ m2StartIndex = Count(Used(kernel), ColTiles) * RowTiles
    BY DEF MetaInv, MetaDecoding
  <2> QED
    BY <2>1, MetaPrimed DEF MetaDecoding
<1> QED
  BY <1>1 DEF MetaInv, MetaEncoding

LEMMA MetaSkipColumnStep ==
    ASSUME MetaInv, format = "META_DATA", format' = format, MetaData!SkipColumn
    PROVE  /\ MetaInv' /\ UNCHANGED TS!vars
           /\ \A k \in i * RowTiles .. (i + 1) * RowTiles - 1 : k \notin TileSet(kernel)
<1>1. /\ pc = "decode" /\ i < ColTiles /\ j = 0 /\ ~ m1[m1Ptr]
      /\ m1Ptr' = m1Ptr + 1 /\ i' = i + 1
      /\ UNCHANGED <<kernel, pc, j, buf, m1, m2, m2StartIndex, m2Ptr, values, calls>>
  BY DEF MetaData!SkipColumn, MetaData!encoderVars
<1>2. /\ kernel \in Kernels /\ i \in 0 .. ColTiles - 1
      /\ Flags(kernel, m1, m2, ColTiles)
      /\ m1Ptr = i /\ m2Ptr = Count(Used(kernel), i) * RowTiles + j
      /\ values = Offset("META_DATA", kernel, i * RowTiles + j)
      /\ CallsBefore(calls, i * RowTiles + j)
  BY <1>1, KernelFacts DEF MetaInv, MetaDecoding
<1>3. i \notin Used(kernel)
  BY <1>1, <1>2 DEF Flags
<1>4. Count(Used(kernel), i + 1) = Count(Used(kernel), i)
  BY <1>2, <1>3, CountFacts
<1> DEFINE a == i * RowTiles
           b == (i + 1) * RowTiles
<1>5. a \in Nat /\ b \in Nat /\ b = a + RowTiles /\ RowTiles \in Nat /\ RowTiles > 0
  BY <1>2, KernelFacts, Multiples
<1>6. ASSUME NEW k \in a .. b - 1
      PROVE  k \notin TileSet(kernel)
  <2>1. k - a \in 0 .. RowTiles - 1
    BY <1>5
  <2>2. all_zeros(kernel, TileIndex(k - a, i))
    BY <1>2, <1>3, <2>1 DEF Used
  <2>3. TileIndex(k - a, i) = k
    BY <1>2, <1>5, <2>1, TileNumber
  <2> QED
    BY <2>2, <2>3 DEF TileSet
<1> HIDE DEF a, b
<1>7. Count(TileSet(kernel), a) = Count(TileSet(kernel), b)
  BY <1>5, <1>6, CountSame
<1>8. a = i * RowTiles /\ b = (i + 1) * RowTiles
  BY DEF a, b
<1>9. i * RowTiles + j = a /\ i' * RowTiles + j' = b
  BY <1>1, <1>5, <1>8
<1>10. Offset("META_DATA", kernel, a) = Offset("META_DATA", kernel, b)
  BY <1>7 DEF Offset, Copied
<1>11. i' \in 0 .. ColTiles /\ j' = 0 /\ j' \in 0 .. RowTiles - 1 /\ m1Ptr' = i'
  BY <1>1, <1>2, <1>5, KernelFacts
<1>12. m2Ptr' = Count(Used(kernel), i') * RowTiles + j'
  BY <1>1, <1>2, <1>4
<1>13. values' = Offset("META_DATA", kernel, i' * RowTiles + j')
  BY <1>1, <1>2, <1>9, <1>10
<1>14. CallsBefore(calls', i' * RowTiles + j')
  <2>1. a <= b /\ CallsBefore(calls, a)
    BY <1>2, <1>5, <1>9
  <2>2. CallsBefore(calls, b)
    BY <1>5, <2>1, CallsKept
  <2> QED
    BY <1>1, <1>9, <2>2
<1>15. MetaInv'
  BY <1>1, <1>11, <1>12, <1>13, <1>14, MetaPassed
<1> QED
  BY <1>1, <1>6, <1>8, <1>15, NoCall

LEMMA MetaDecodeTileStep ==
    ASSUME MetaInv, format = "META_DATA", format' = format, MetaData!DecodeTile
    PROVE  /\ MetaInv' /\ [TS!Next]_(TS!vars)
           /\ TileIndex(j, i) \in Due(format, kernel) =>
                calls' = Append(calls, <<j, i, ReadTile(buf, values)>>)
<1> DEFINE n == TileIndex(j, i)
<1>1. /\ pc = "decode" /\ i < ColTiles /\ m1[m1Ptr] /\ m2Ptr' = m2Ptr + 1
      /\ IF m2[m2Ptr] THEN /\ calls' = Append(calls, <<j, i, ReadTile(buf, values)>>)
                           /\ values' = values + TileWords
                      ELSE calls' = calls /\ values' = values
      /\ IF j = RowTiles - 1 THEN i' = i + 1 /\ j' = 0 /\ m1Ptr' = m1Ptr + 1
                             ELSE j' = j + 1 /\ i' = i /\ m1Ptr' = m1Ptr
      /\ UNCHANGED <<kernel, pc, buf, m1, m2, m2StartIndex>>
  BY MetaSame DEF MetaData!DecodeTile, MetaData!encoderVars
<1>2. /\ kernel \in Kernels /\ i \in 0 .. ColTiles - 1 /\ j \in 0 .. RowTiles - 1
      /\ Packed("META_DATA", kernel, buf, TileCount)
      /\ Flags(kernel, m1, m2, ColTiles)
      /\ m1Ptr = i /\ m2Ptr = Count(Used(kernel), i) * RowTiles + j
      /\ values = Offset("META_DATA", kernel, i * RowTiles + j)
      /\ CallsBefore(calls, i * RowTiles + j)
  BY <1>1, KernelFacts DEF MetaInv, MetaDecoding
<1>3. i \in Used(kernel)
  BY <1>1, <1>2 DEF Flags
<1>4. m2[m2Ptr] <=> ~ all_zeros(kernel, n)
  BY <1>2, <1>3 DEF Flags
<1>5. /\ n \in AllTiles /\ n \in Nat /\ n = i * RowTiles + j
      /\ i' \in 0 .. ColTiles /\ j' \in 0 .. RowTiles - 1
      /\ i' * RowTiles + j' = n + 1
  <2>1. IF j = RowTiles - 1 THEN i' = i + 1 /\ j' = 0 ELSE j' = j + 1 /\ i' = i
    BY <1>1
  <2> QED
    BY <1>2, <2>1, ColumnPlace, TileNumber
<1> HIDE DEF n
<1>6. n \in Copied("META_DATA", kernel) <=> ~ all_zeros(kernel, n)
  BY <1>5 DEF Copied, TileSet
<1>7. m2Ptr' = Count(Used(kernel), i') * RowTiles + j'
  <2> DEFINE a == Count(Used(kernel), i)
             b == Count(Used(kernel), i + 1)
  <2>1. a \in Nat /\ b = a + 1
    BY <1>2, <1>3, CountFacts
  <2>2. m2Ptr = a * RowTiles + j
    BY <1>2
  <2> HIDE DEF a, b
  <2>3. b * RowTiles = a * RowTiles + RowTiles /\ a * RowTiles \in Nat
        /\ RowTiles \in Nat
    BY <2>1, KernelFacts, Multiples
  <2>4. CASE j = RowTiles - 1
    <3>1. m2Ptr' = b * RowTiles + 0
      BY <1>1, <1>2, <2>2, <2>3, <2>4
    <3> QED
      BY <1>1, <2>4, <3>1 DEF b
  <2>5. CASE j # RowTiles - 1
    <3>1. m2Ptr' = a * RowTiles + j'
      BY <1>1, <1>2, <2>2, <2>3, <2>5
    <3> QED
      BY <1>1, <2>5, <3>1 DEF a
  <2> QED
    BY <2>4, <2>5
<1>8. values' = Offset("META_DATA", kernel, n + 1)
  <2>1. Offset("META_DATA", kernel, n + 1) = values + Size("META_DATA", kernel, n)
        /\ values \in Nat
    BY <1>2, <1>5, OffsetFacts
  <2> QED
    BY <1>1, <1>4, <1>6, <2>1 DEF Size
<1>9. CallsBefore(calls', n + 1) /\ [TS!Next]_(TS!vars)
  <2>1. CASE all_zeros(kernel, n)
    <3>1. n <= n + 1 /\ n + 1 \in Nat /\ CallsBefore(calls, n) /\ calls' = calls
      BY <1>1, <1>2, <1>4, <1>5, <2>1
    <3>2. CallsBefore(calls, n + 1)
      BY <1>5, <3>1, CallsKept
    <3> QED
      BY <1>1, <3>1, <3>2, NoCall
  <2>2. CASE ~ all_zeros(kernel, n)
    <3>1. ReadTile(buf, values) = TileAt(kernel, n)
      BY <1>2, <1>5, <1>6, <2>2, ReadPacked
    <3>2. /\ CallsBefore(calls, TileIndex(j, i))
          /\ TileIndex(j, i) \in Copied(format, kernel)
      BY <1>2, <1>5, <1>6, <2>2 DEF n
    <3>3. calls' = Append(calls, <<j, i, TileAt(kernel, TileIndex(j, i))>>)
      BY <1>1, <1>4, <2>2, <3>1 DEF n
    <3>4. /\ format \in {"NON_PRUNED", "DYNAMIC", "WITH_FLAG", "HIDDEN_KEY", "META_DATA",
                         "INTERLEAVED"}
          /\ format # "DYNAMIC" /\ kernel' = kernel
      BY <1>1
    <3>5. TS!Next /\ CallsBefore(calls', TileIndex(j, i) + 1)
      BY <1>2, <3>2, <3>3, <3>4, CallAppended
    <3> QED
      BY <3>5 DEF n
  <2> QED
    BY <2>1, <2>2
<1>10. /\ m1Ptr' = i' /\ (i' \notin Used(kernel) => j' = 0)
       /\ values' = Offset("META_DATA", kernel, i' * RowTiles + j')
       /\ CallsBefore(calls', i' * RowTiles + j')
  BY <1>1, <1>2, <1>3, <1>5, <1>8, <1>9
<1>11. MetaInv'
  BY <1>1, <1>5, <1>7, <1>10, MetaPassed
<1>12. n \in Due(format, kernel) => calls' = Append(calls, <<j, i, ReadTile(buf, values)>>)
  BY <1>1, <1>4 DEF Due, TileSet
<1> QED
  BY <1>9, <1>11, <1>12 DEF n

LEMMA MetaStep ==
    ASSUME MetaInv, format = "META_DATA", format' = format, MetaData!Next
    PROVE  MetaInv' /\ [TS!Next]_(TS!vars)
<1>1. CASE MetaData!DecodeReturn \/ MetaData!Finished
  <2>1. /\ pc \in {"decode", "done"} /\ pc' = "done" /\ i = ColTiles
        /\ UNCHANGED <<kernel, i, j, buf, m1, m2, m2StartIndex, m1Ptr, m2Ptr, values, calls>>
    BY <1>1 DEF MetaData!DecodeReturn, MetaData!Finished, MetaData!vars, MetaData!encoderVars,
                MetaData!decoderVars, MetaInv
  <2>2. MetaInv'
    BY <2>1, MetaPrimed DEF MetaInv, MetaEncoding, MetaDecoding
  <2> QED
    BY <2>1, <2>2, NoCall
<1> QED
  BY <1>1, MetaEncodeTileStep, MetaEncodeColumnStep, MetaEncodeReturnStep, MetaSkipColumnStep,
     MetaDecodeTileStep DEF MetaData!Next

-----------------------------------------------------------------------------
(* CSR and CSC: the decoder makes the call of entry q as its q'th call, so *)
(* that no tile is multiplied twice because no tile has two entries.       *)

CompressedFormats == {"CSR", "CSC"}

LinesOf(f) == IF f = "CSR" THEN RowTiles ELSE ColTiles
LengthOf(f) == IF f = "CSR" THEN ColTiles ELSE RowTiles

(* Number of the tile at place x of line n. *)
LineTile(f, n, x) == IF f = "CSR" THEN TileIndex(n, x) ELSE TileIndex(x, n)

(* The entries d, v and the lines delimited so far by p. *)
Entries(f, m, p, d, v) ==
    /\ p \in Seq(Nat) /\ d \in Seq(Nat) /\ v \in Seq(TileSet(m))
    /\ Len(d) = Len(v) /\ Len(p) >= 1 /\ p[1] = 0
    /\ \A n \in 1 .. Len(p) - 1 : p[n] <= p[n + 1]
    /\ \A n \in 1 .. Len(p) : p[n] <= Len(d)
    /\ \A n \in 0 .. Len(p) - 2, q \in 1 .. Len(d) :
          p[n + 1] < q /\ q <= p[n + 2] =>
            d[q] \in 0 .. LengthOf(f) - 1 /\ v[q] = LineTile(f, n, d[q])
    /\ \A q1, q2 \in 1 .. Len(v) : v[q1] = v[q2] => q1 = q2

(* The entries of line n, which is not closed. *)
OpenLine(f, p, d, v, n) ==
    \A q \in 1 .. Len(d) :
        p[n + 1] < q => d[q] \in 0 .. LengthOf(f) - 1 /\ v[q] = LineTile(f, n, d[q])

(* There are entries only of tiles before place x of line n. *)
Passed(f, v, n, x) ==
    \A q \in 1 .. Len(v) :
        \E a \in 0 .. LinesOf(f) - 1, y \in 0 .. LengthOf(f) - 1 :
            v[q] = LineTile(f, a, y) /\ (a < n \/ (a = n /\ y < x))

(* The calls are those of the first entries. *)
CallsOf(cs, v) ==
    /\ cs \in Seq(CallSet) /\ Len(cs) <= Len(v)
    /\ \A q \in 1 .. Len(cs) : TileIndex(cs[q][1], cs[q][2]) = v[q]

CompressedEncoding ==
    pc = "encode" =>
        /\ i \in 0 .. LinesOf(format) /\ j \in 0 .. LengthOf(format)
        /\ i = LinesOf(format) => j = 0 /\ ptr[i + 1] = Len(ind)
        /\ Len(ptr) = i + 1
        /\ OpenLine(format, ptr, ind, pointers, i)
        /\ Passed(format, pointers, i, j)
        /\ calls = << >>

CompressedDecoding ==
    pc \in {"decode", "done"} =>
        /\ Len(ptr) = LinesOf(format) + 1
        /\ ptr[LinesOf(format) + 1] = Len(ind)
        /\ i \in 0 .. LinesOf(format) /\ j \in Nat
        /\ i < LinesOf(format) => ptr[i + 1] <= j /\ j <= ptr[i + 2]
        /\ i = LinesOf(format) => j = Len(ind)
        /\ CallsOf(calls, pointers) /\ Len(calls) = j

CompressedInv ==
    format \in CompressedFormats =>
        /\ kernel \in Kernels
        /\ pc \in {"encode", "decode", "done"}
        /\ Entries(format, kernel, ptr, ind, pointers)
        /\ CompressedEncoding /\ CompressedDecoding

LEMMA CompressedSame ==
    /\ Compressed!TileWords = TileWords /\ Compressed!Kernels = Kernels
    /\ Compressed!Lines = LinesOf(format) /\ Compressed!LineLength = LengthOf(format)
    /\ \A r, c : Compressed!TileIndex(r, c) = TileIndex(r, c)
    /\ \A m, n : Compressed!TileAt(m, n) = TileAt(m, n)
    /\ \A m, n : Compressed!all_zeros(m, n) <=> all_zeros(m, n)
    /\ \A n, x : Compressed!Place(n, x) = IF format = "CSR" THEN <<n, x>> ELSE <<x, n>>
    /\ \A n, x : Compressed!TileIndex(Compressed!Place(n, x)[1], Compressed!Place(n, x)[2])
                   = LineTile(format, n, x)
    /\ Compressed!tile_index = LineTile(format, i, j)
<1>1. /\ Compressed!TileWords = TileWords /\ Compressed!TileCount = TileCount
      /\ Compressed!HIDDEN_KEY = HIDDEN_KEY
      /\ \A r, c : Compressed!TileIndex(r, c) = TileIndex(r, c)
  BY DEF Compressed!TileWords, TileWords, Compressed!TileCount, TileCount, Compressed!MAX_W_COL,
         MAX_W_COL, Compressed!CEILING_DIV, CEILING_DIV, Compressed!HIDDEN_KEY, HIDDEN_KEY,
         Compressed!TileIndex, TileIndex
<1>2. \A m, n, w : Compressed!Word(m, n, w) = Word(m, n, w)
  BY <1>1 DEF Compressed!Word, Word
<1>3. \A m, n : Compressed!TileAt(m, n) = TileAt(m, n)
  BY <1>1, <1>2 DEF Compressed!TileAt, TileAt
<1>4. \A m, n : Compressed!all_zeros(m, n) <=> all_zeros(m, n)
  BY <1>1, <1>2 DEF Compressed!all_zeros, all_zeros
<1>5. Compressed!Kernels = Kernels
  BY <1>1 DEF Compressed!Kernels, Kernels
<1>6. Compressed!Lines = LinesOf(format) /\ Compressed!LineLength = LengthOf(format)
  BY DEF Compressed!Lines, LinesOf, Compressed!LineLength, LengthOf
<1>7. \A n, x : Compressed!Place(n, x) = IF format = "CSR" THEN <<n, x>> ELSE <<x, n>>
  BY DEF Compressed!Place
<1>8. \A n, x : Compressed!TileIndex(Compressed!Place(n, x)[1], Compressed!Place(n, x)[2])
                  = LineTile(format, n, x)
  BY <1>1, <1>7 DEF LineTile
<1>9. Compressed!tile_index = LineTile(format, i, j)
  BY <1>8 DEF Compressed!tile_index
<1> QED
  BY <1>1, <1>3, <1>4, <1>5, <1>6, <1>7, <1>8, <1>9

LEMMA LineBounds ==
    ASSUME NEW f
    PROVE  /\ LinesOf(f) \in Nat /\ LinesOf(f) > 0
           /\ LengthOf(f) \in Nat /\ LengthOf(f) > 0
  BY KernelFacts DEF LinesOf, LengthOf

(* Two places of the matrix have two numbers. *)
LEMMA LineTileFacts ==
    ASSUME NEW f, NEW a \in 0 .. LinesOf(f) - 1, NEW b \in 0 .. LinesOf(f) - 1,
           NEW x \in 0 .. LengthOf(f) - 1, NEW y \in 0 .. LengthOf(f) - 1
    PROVE  /\ LineTile(f, a, x) \in AllTiles
           /\ LineTile(f, a, x) = LineTile(f, b, y) => a = b /\ x = y
<1>1. CASE f = "CSR"
  <2>1. /\ a \in 0 .. RowTiles - 1 /\ b \in 0 .. RowTiles - 1
        /\ x \in 0 .. ColTiles - 1 /\ y \in 0 .. ColTiles - 1
    BY <1>1 DEF LinesOf, LengthOf
  <2>2. x \in Nat /\ y \in Nat /\ RowTiles \in Nat
    BY <2>1, KernelFacts
  <2>3. x * RowTiles + a = y * RowTiles + b => x = y /\ a = b
    BY <2>1, <2>2, LineOrder
  <2> QED
    BY <1>1, <2>1, <2>3, TileNumber DEF LineTile
<1>2. CASE f # "CSR"
  <2>1. /\ a \in 0 .. ColTiles - 1 /\ b \in 0 .. ColTiles - 1
        /\ x \in 0 .. RowTiles - 1 /\ y \in 0 .. RowTiles - 1
    BY <1>2 DEF LinesOf, LengthOf
  <2>2. a \in Nat /\ b \in Nat /\ RowTiles \in Nat
    BY <2>1, KernelFacts
  <2>3. a * RowTiles + x = b * RowTiles + y => a = b /\ x = y
    BY <2>1, <2>2, LineOrder
  <2> QED
    BY <1>2, <2>1, <2>3, TileNumber DEF LineTile
<1> QED
  BY <1>1, <1>2

(* One more entry. *)
LEMMA EntryAdded ==
    ASSUME NEW f, NEW m, NEW p, NEW d, NEW v,
           NEW a \in 0 .. LinesOf(f) - 1, NEW x \in 0 .. LengthOf(f) - 1,
           Entries(f, m, p, d, v), OpenLine(f, p, d, v, a), Passed(f, v, a, x), Len(p) = a + 1,
           ~ all_zeros(m, LineTile(f, a, x))
    PROVE  LET d2 == Append(d, x)
               v2 == Append(v, LineTile(f, a, x))
           IN  /\ Entries(f, m, p, d2, v2) /\ OpenLine(f, p, d2, v2, a)
               /\ Passed(f, v2, a, x + 1)
<1> DEFINE t == LineTile(f, a, x)
           d2 == Append(d, x)
           v2 == Append(v, t)
           N == Len(d)
<1>1. t \in TileSet(m) /\ x \in Nat
  BY LineTileFacts, LineBounds DEF TileSet
<1>2. /\ p \in Seq(Nat) /\ d \in Seq(Nat) /\ v \in Seq(TileSet(m))
      /\ Len(d) = N /\ Len(v) = N /\ Len(p) >= 1 /\ p[1] = 0 /\ N \in Nat /\ Len(p) \in Nat
      /\ \A n \in 1 .. Len(p) : p[n] \in Nat
  BY LenProperties, ElementOfSeq DEF Entries
<1>3. /\ d2 \in Seq(Nat) /\ Len(d2) = N + 1 /\ d2[N + 1] = x
      /\ \A q \in 1 .. N : d2[q] = d[q]
  BY <1>1, <1>2, AppendProperties
<1> HIDE DEF t
<1>4. /\ v2 \in Seq(TileSet(m)) /\ Len(v2) = N + 1 /\ v2[N + 1] = t
      /\ \A q \in 1 .. N : v2[q] = v[q]
  BY <1>1, <1>2, AppendProperties
<1> HIDE DEF d2, v2, N
<1>5. ASSUME NEW q \in 1 .. N
      PROVE  v[q] # t
  <2>1. PICK b \in 0 .. LinesOf(f) - 1, y \in 0 .. LengthOf(f) - 1 :
          v[q] = LineTile(f, b, y) /\ (b < a \/ (b = a /\ y < x))
    BY <1>2 DEF Passed
  <2>2. b # a \/ y # x
    BY <2>1, LineBounds
  <2>3. LineTile(f, a, x) = LineTile(f, b, y) => a = b /\ x = y
    BY LineTileFacts
  <2> QED
    BY <2>1, <2>2, <2>3 DEF t
<1>6. \A q \in 1 .. N + 1 : q = N + 1 \/ q \in 1 .. N
  BY <1>2
<1>7. ASSUME NEW q1 \in 1 .. Len(v2), NEW q2 \in 1 .. Len(v2), v2[q1] = v2[q2]
      PROVE  q1 = q2
  <2>1. \A r1, r2 \in 1 .. N : v[r1] = v[r2] => r1 = r2
    BY <1>2 DEF Entries
  <2> QED
    BY <1>4, <1>5, <1>6, <1>7, <2>1
<1>8. ASSUME NEW n \in 0 .. Len(p) - 2, NEW q \in 1 .. Len(d2), p[n + 1] < q, q <= p[n + 2]
      PROVE  d2[q] \in 0 .. LengthOf(f) - 1 /\ v2[q] = LineTile(f, n, d2[q])
  <2>1. n + 2 \in 1 .. Len(p)
    BY <1>2
  <2>2. p[n + 2] <= N /\ p[n + 2] \in Nat
    BY <1>2, <2>1 DEF Entries
  <2>3. q \in 1 .. N
    BY <1>2, <1>3, <1>8, <2>2
  <2>4. d[q] \in 0 .. LengthOf(f) - 1 /\ v[q] = LineTile(f, n, d[q])
    BY <1>2, <1>8, <2>3 DEF Entries
  <2> QED
    BY <1>3, <1>4, <2>3, <2>4
<1>9. \A n \in 1 .. Len(p) : p[n] <= Len(d2)
  <2> SUFFICES ASSUME NEW n \in 1 .. Len(p)
               PROVE  p[n] <= Len(d2)
    OBVIOUS
  <2>1. p[n] <= N /\ p[n] \in Nat
    BY <1>2 DEF Entries
  <2> QED
    BY <1>2, <1>3, <2>1
<1>10. Entries(f, m, p, d2, v2)
  <2>1. \A n \in 1 .. Len(p) - 1 : p[n] <= p[n + 1]
    BY DEF Entries
  <2> QED
    BY <1>2, <1>3, <1>4, <1>7, <1>8, <1>9, <2>1 DEF Entries
<1>11. OpenLine(f, p, d2, v2, a)
  <2> SUFFICES ASSUME NEW q \in 1 .. N + 1, p[a + 1] < q
               PROVE  d2[q] \in 0 .. LengthOf(f) - 1 /\ v2[q] = LineTile(f, a, d2[q])
    BY <1>3 DEF OpenLine
  <2>1. CASE q = N + 1
    BY <1>3, <1>4, <2>1 DEF t
  <2>2. CASE q \in 1 .. N
    BY <1>2, <1>3, <1>4, <2>2 DEF OpenLine
  <2> QED
    BY <1>6, <2>1, <2>2
<1>12. Passed(f, v2, a, x + 1)
  <2> SUFFICES ASSUME NEW q \in 1 .. N + 1
               PROVE  \E b \in 0 .. LinesOf(f) - 1, y \in 0 .. LengthOf(f) - 1 :
                         v2[q] = LineTile(f, b, y) /\ (b < a \/ (b = a /\ y < x + 1))
    BY <1>4 DEF Passed
  <2>1. CASE q = N + 1
    <3>1. v2[q] = LineTile(f, a, x) /\ x < x + 1
      BY <1>1, <1>4, <2>1 DEF t
    <3> QED
      BY <3>1
  <2>2. CASE q \in 1 .. N
    <3>1. PICK b \in 0 .. LinesOf(f) - 1, y \in 0 .. LengthOf(f) - 1 :
            v[q] = LineTile(f, b, y) /\ (b < a \/ (b = a /\ y < x))
      BY <1>2, <2>2 DEF Passed
    <3>2. v2[q] = LineTile(f, b, y) /\ (b < a \/ (b = a /\ y < x + 1))
      BY <1>1, <1>4, <2>2, <3>1, LineBounds
    <3> QED
      BY <3>2
  <2> QED
    BY <1>6, <2>1, <2>2
<1> QED
  BY <1>10, <1>11, <1>12 DEF d2, v2, t

(* A line is closed. *)
LEMMA LineClosed ==
    ASSUME NEW f, NEW m, NEW p, NEW d, NEW v, NEW a \in 0 .. LinesOf(f) - 1,
           Entries(f, m, p, d, v), OpenLine(f, p, d, v, a), Len(p) = a + 1
    PROVE  LET p2 == Append(p, Len(d))
           IN  /\ Entries(f, m, p2, d, v) /\ OpenLine(f, p2, d, v, a + 1)
               /\ Len(p2) = a + 2 /\ p2[a + 2] = Len(d)
<1> DEFINE N == Len(d)
           p2 == Append(p, N)
<1>1. /\ p \in Seq(Nat) /\ d \in Seq(Nat) /\ v \in Seq(TileSet(m))
      /\ Len(d) = N /\ Len(v) = N /\ p[1] = 0 /\ N \in Nat /\ Len(p) = a + 1 /\ a \in Nat
  BY LenProperties, LineBounds DEF Entries
<1> HIDE DEF N
<1>2. /\ p2 \in Seq(Nat) /\ Len(p2) = a + 2 /\ p2[a + 2] = N
      /\ \A n \in 1 .. a + 1 : p2[n] = p[n]
  <2>1. /\ p2 \in Seq(Nat) /\ Len(p2) = Len(p) + 1 /\ p2[Len(p) + 1] = N
        /\ \A n \in 1 .. Len(p) : p2[n] = p[n]
    BY <1>1, AppendProperties
  <2>2. Len(p) + 1 = a + 2
    BY <1>1
  <2> QED
    BY <1>1, <2>1, <2>2
<1> HIDE DEF p2
<1>3. \A n \in 1 .. a + 1 : p[n] <= N
  BY <1>1 DEF Entries
<1>4. ASSUME NEW n \in 1 .. Len(p2) - 1
      PROVE  p2[n] <= p2[n + 1]
  <2>1. n \in 1 .. a + 1
    BY <1>1, <1>2
  <2>2. CASE n = a + 1
    <3>1. n + 1 = a + 2
      BY <1>1, <2>2
    <3> QED
      BY <1>2, <1>3, <2>1, <3>1
  <2>3. CASE n # a + 1
    <3>1. n \in 1 .. Len(p) - 1 /\ n + 1 \in 1 .. a + 1
      BY <1>1, <2>1, <2>3
    <3>2. p[n] <= p[n + 1]
      BY <3>1 DEF Entries
    <3> QED
      BY <1>2, <2>1, <3>1, <3>2
  <2> QED
    BY <2>2, <2>3
<1>5. ASSUME NEW n \in 1 .. Len(p2)
      PROVE  p2[n] <= N
  <2>1. n = a + 2 \/ n \in 1 .. a + 1
    BY <1>1, <1>2
  <2> QED
    BY <1>1, <1>2, <1>3, <2>1
<1>6. ASSUME NEW n \in 0 .. Len(p2) - 2, NEW q \in 1 .. N, p2[n + 1] < q, q <= p2[n + 2]
      PROVE  d[q] \in 0 .. LengthOf(f) - 1 /\ v[q] = LineTile(f, n, d[q])
  <2>1. n \in 0 .. a /\ n + 1 \in 1 .. a + 1
    BY <1>1, <1>2
  <2>2. CASE n = a
    BY <1>1, <1>2, <1>6, <2>1, <2>2 DEF OpenLine
  <2>3. CASE n # a
    <3>1. n \in 0 .. Len(p) - 2 /\ n + 2 \in 1 .. a + 1
      BY <1>1, <2>1, <2>3
    <3>2. p[n + 1] < q /\ q <= p[n + 2]
      BY <1>2, <1>6, <2>1, <3>1
    <3> QED
      BY <1>1, <3>1, <3>2 DEF Entries
  <2> QED
    BY <2>2, <2>3
<1>7. Entries(f, m, p2, d, v)
  <2>1. 1 \in 1 .. a + 1 /\ a + 2 >= 1
    BY <1>1
  <2>2. p2[1] = 0
    BY <1>1, <1>2, <2>1
  <2>3. \A q1, q2 \in 1 .. Len(v) : v[q1] = v[q2] => q1 = q2
    BY DEF Entries
  <2> QED
    BY <1>1, <1>2, <1>4, <1>5, <1>6, <2>1, <2>2, <2>3 DEF Entries
<1>8. OpenLine(f, p2, d, v, a + 1)
  <2>1. (a + 1) + 1 = a + 2 /\ \A q \in 1 .. N : ~ (N < q)
    BY <1>1
  <2> QED
    BY <1>1, <1>2, <2>1 DEF OpenLine
<1> QED
  BY <1>2, <1>7, <1>8 DEF p2, N

LEMMA CompressedInit ==
    ASSUME Compressed!Init
    PROVE  CompressedInv /\ calls = << >> /\ kernel \in Kernels
<1>1. /\ format \in {"CSR", "CSC"} /\ kernel \in Kernels /\ pc = "encode" /\ i = 0 /\ j = 0
      /\ ptr = <<0>> /\ ind = << >> /\ pointers = << >> /\ calls = << >>
  BY CompressedSame DEF Compressed!Init
<1>2. /\ ptr \in Seq(Nat) /\ Len(ptr) = 1 /\ ptr[1] = 0
      /\ ind \in Seq(Nat) /\ pointers \in Seq(TileSet(kernel))
      /\ Len(ind) = 0 /\ Len(pointers) = 0
  <2>1. 0 \in Nat
    OBVIOUS
  <2> QED
    BY <1>1, <2>1
<1>3. Entries(format, kernel, ptr, ind, pointers)
  BY <1>2 DEF Entries
<1>4. OpenLine(format, ptr, ind, pointers, i) /\ Passed(format, pointers, i, j)
  BY <1>2 DEF OpenLine, Passed
<1>5. CompressedEncoding
  BY <1>1, <1>2, <1>4, LineBounds DEF CompressedEncoding
<1> QED
  BY <1>1, <1>3, <1>5 DEF CompressedInv, CompressedDecoding

(* Priming the parts of the invariant. *)
LEMMA CompressedPrimed ==
    /\ Entries(format, kernel, ptr, ind, pointers)'
         <=> Entries(format', kernel', ptr', ind', pointers')
    /\ OpenLine(format, ptr, ind, pointers, i)'
         <=> OpenLine(format', ptr', ind', pointers', i')
    /\ Passed(format, pointers, i, j)' <=> Passed(format', pointers', i', j')
    /\ LinesOf(format)' = LinesOf(format') /\ LengthOf(format)' = LengthOf(format')
    /\ CallsOf(calls, pointers)' <=> CallsOf(calls', pointers')
  BY DEF Entries, OpenLine, Passed, LinesOf, LengthOf, LineTile, TileSet, AllTiles, CallsOf, CallSet

LEMMA CompressedEncodeTileStep ==
    ASSUME CompressedInv, format \in CompressedFormats, Compressed!EncodeTile
    PROVE  CompressedInv' /\ UNCHANGED TS!vars
<1> DEFINE t == LineTile(format, i, j)
<1>1. /\ pc = "encode" /\ i < LinesOf(format) /\ j < LengthOf(format)
      /\ IF all_zeros(kernel, t) THEN ind' = ind /\ pointers' = pointers
           ELSE ind' = Append(ind, j) /\ pointers' = Append(pointers, t)
      /\ j' = j + 1
      /\ UNCHANGED <<format, kernel, pc, i, ptr, calls>>
  BY CompressedSame DEF Compressed!EncodeTile
<1>2. /\ kernel \in Kernels /\ Entries(format, kernel, ptr, ind, pointers)
      /\ i \in 0 .. LinesOf(format) - 1 /\ j \in 0 .. LengthOf(format) - 1
      /\ Len(ptr) = i + 1
      /\ OpenLine(format, ptr, ind, pointers, i) /\ Passed(format, pointers, i, j)
      /\ calls = << >>
  BY <1>1, LineBounds DEF CompressedInv, CompressedEncoding
<1>3. /\ Entries(format, kernel, ptr, ind', pointers')
      /\ OpenLine(format, ptr, ind', pointers', i) /\ Passed(format, pointers', i, j + 1)
  <2>1. CASE all_zeros(kernel, t)
    <3>1. Passed(format, pointers, i, j + 1)
      <4> SUFFICES ASSUME NEW q \in 1 .. Len(pointers)
                   PROVE  \E a \in 0 .. LinesOf(format) - 1, y \in 0 .. LengthOf(format) - 1 :
                             /\ pointers[q] = LineTile(format, a, y)
                             /\ a < i \/ (a = i /\ y < j + 1)
        BY DEF Passed
      <4>1. PICK a \in 0 .. LinesOf(format) - 1, y \in 0 .. LengthOf(format) - 1 :
              pointers[q] = LineTile(format, a, y) /\ (a < i \/ (a = i /\ y < j))
        BY <1>2 DEF Passed
      <4>2. a < i \/ (a = i /\ y < j + 1)
        BY <1>2, <4>1, LineBounds
      <4> QED
        BY <4>1, <4>2
    <3> QED
      BY <1>1, <1>2, <2>1, <3>1
  <2>2. CASE ~ all_zeros(kernel, t)
    <3> DEFINE d2 == Append(ind, j)
               v2 == Append(pointers, t)
    <3>1. /\ Entries(format, kernel, ptr, d2, v2) /\ OpenLine(format, ptr, d2, v2, i)
          /\ Passed(format, v2, i, j + 1)
      BY <1>2, <2>2, EntryAdded
    <3>2. ind' = d2 /\ pointers' = v2
      BY <1>1, <2>2
    <3> HIDE DEF d2, v2
    <3> QED
      BY <3>1, <3>2
  <2> QED
    BY <2>1, <2>2
<1>4. j' \in 0 .. LengthOf(format)
  BY <1>1, <1>2, LineBounds
<1>5. CompressedEncoding'
  BY <1>1, <1>2, <1>3, <1>4, CompressedPrimed, LineBounds DEF CompressedEncoding
<1>6. CompressedInv'
  BY <1>1, <1>2, <1>3, <1>5, CompressedPrimed DEF CompressedInv, CompressedDecoding
<1> QED
  BY <1>1, <1>6, NoCall

LEMMA CompressedEncodeLineStep ==
    ASSUME CompressedInv, format \in CompressedFormats, Compressed!EncodeLine
    PROVE  CompressedInv' /\ UNCHANGED TS!vars
<1>1. /\ pc = "encode" /\ i < LinesOf(format)
      /\ ptr' = Append(ptr, Len(ind)) /\ i' = i + 1 /\ j' = 0
      /\ UNCHANGED <<format, kernel, pc, ind, pointers, calls>>
  BY CompressedSame DEF Compressed!EncodeLine
<1>2. /\ kernel \in Kernels /\ Entries(format, kernel, ptr, ind, pointers)
      /\ i \in 0 .. LinesOf(format) - 1 /\ j \in 0 .. LengthOf(format)
      /\ Len(ptr) = i + 1
      /\ OpenLine(format, ptr, ind, pointers, i) /\ Passed(format, pointers, i, j)
      /\ calls = << >>
  BY <1>1, LineBounds DEF CompressedInv, CompressedEncoding
<1>3. /\ Entries(format, kernel, ptr', ind, pointers)
      /\ OpenLine(format, ptr', ind, pointers, i + 1)
      /\ Len(ptr') = (i + 1) + 1 /\ ptr'[(i + 1) + 1] = Len(ind)
  <2> DEFINE p2 == Append(ptr, Len(ind))
  <2>1. /\ Entries(format, kernel, p2, ind, pointers) /\ OpenLine(format, p2, ind, pointers, i + 1)
        /\ Len(p2) = i + 2 /\ p2[i + 2] = Len(ind)
    BY <1>2, LineClosed
  <2>2. ptr' = p2 /\ (i + 1) + 1 = i + 2
    BY <1>1, <1>2, LineBounds
  <2> HIDE DEF p2
  <2> QED
    BY <2>1, <2>2
<1>4. Passed(format, pointers, i + 1, 0)
  <2> SUFFICES ASSUME NEW q \in 1 .. Len(pointers)
               PROVE  \E a \in 0 .. LinesOf(format) - 1, y \in 0 .. LengthOf(format) - 1 :
                         /\ pointers[q] = LineTile(format, a, y)
                         /\ a < i + 1 \/ (a = i + 1 /\ y < 0)
    BY DEF Passed
  <2>1. PICK a \in 0 .. LinesOf(format) - 1, y \in 0 .. LengthOf(format) - 1 :
          pointers[q] = LineTile(format, a, y) /\ (a < i \/ (a = i /\ y < j))
    BY <1>2 DEF Passed
  <2>2. a < i + 1
    BY <1>2, <2>1, LineBounds
  <2> QED
    BY <2>1, <2>2
<1>5. i' \in 0 .. LinesOf(format) /\ j' \in 0 .. LengthOf(format)
  BY <1>1, <1>2, LineBounds
<1>6. CompressedEncoding'
  BY <1>1, <1>2, <1>3, <1>4, <1>5, CompressedPrimed DEF CompressedEncoding
<1>7. CompressedInv'
  BY <1>1, <1>2, <1>3, <1>6, CompressedPrimed DEF CompressedInv, CompressedDecoding
<1> QED
  BY <1>1, <1>7, NoCall

LEMMA CompressedEncodeReturnStep ==
    ASSUME CompressedInv, format \in CompressedFormats, Compressed!EncodeReturn
    PROVE  CompressedInv' /\ UNCHANGED TS!vars
<1>1. /\ pc = "encode" /\ i = LinesOf(format) /\ pc' = "decode" /\ i' = 0 /\ j' = ptr[1]
      /\ UNCHANGED <<format, kernel, ptr, ind, pointers, calls>>
  BY CompressedSame DEF Compressed!EncodeReturn
<1>2. /\ kernel \in Kernels /\ Entries(format, kernel, ptr, ind, pointers)
      /\ Len(ptr) = LinesOf(format) + 1 /\ ptr[LinesOf(format) + 1] = Len(ind)
      /\ calls = << >>
  BY <1>1 DEF CompressedInv, CompressedEncoding
<1>3. LinesOf(format) \in Nat /\ LinesOf(format) > 0
  BY LineBounds
<1>4. j' = 0 /\ ptr[0 + 1] <= 0 /\ 0 <= ptr[0 + 2]
  <2>1. ptr[1] = 0 /\ ptr \in Seq(Nat)
    BY <1>2 DEF Entries
  <2>2. 2 \in 1 .. Len(ptr)
    BY <1>2, <1>3
  <2>3. ptr[2] \in Nat
    BY <2>1, <2>2, ElementOfSeq
  <2> QED
    BY <1>1, <2>1, <2>3
<1>5. CallsOf(calls, pointers) /\ Len(calls) = 0
  <2>1. Len(pointers) \in Nat
    BY <1>2, LenProperties DEF Entries
  <2> QED
    BY <1>2, <2>1, EmptySeq DEF CallsOf
<1>6. CompressedDecoding'
  BY <1>1, <1>2, <1>3, <1>4, <1>5, CompressedPrimed DEF CompressedDecoding
<1>7. CompressedInv'
  BY <1>1, <1>2, <1>6, CompressedPrimed DEF CompressedInv, CompressedEncoding
<1> QED
  BY <1>1, <1>7, NoCall

LEMMA CompressedDecodeLineStep ==
    ASSUME CompressedInv, format \in CompressedFormats, Compressed!DecodeLine
    PROVE  CompressedInv' /\ UNCHANGED TS!vars
<1> DEFINE L == LinesOf(format)
<1>1. /\ pc = "decode" /\ i < L /\ j >= ptr[i + 2] /\ i' = i + 1
      /\ IF i + 1 < L THEN j' = ptr[i + 2] ELSE j' = j
      /\ UNCHANGED <<format, kernel, pc, ptr, ind, pointers, calls>>
  BY CompressedSame DEF Compressed!DecodeLine
<1>2. /\ kernel \in Kernels /\ Entries(format, kernel, ptr, ind, pointers)
      /\ Len(ptr) = L + 1 /\ ptr[L + 1] = Len(ind)
      /\ i \in 0 .. L /\ j \in Nat /\ i < L
      /\ ptr[i + 1] <= j /\ j <= ptr[i + 2]
      /\ CallsOf(calls, pointers) /\ Len(calls) = j
  BY <1>1 DEF CompressedInv, CompressedDecoding
<1>3. L \in Nat /\ L > 0
  BY LineBounds
<1> HIDE DEF L
<1>4. ptr \in Seq(Nat) /\ i + 2 \in 1 .. Len(ptr) /\ i \in Nat
  BY <1>2, <1>3 DEF Entries
<1>5. ptr[i + 2] \in Nat
  BY <1>4, ElementOfSeq
<1>6. j' = j /\ j = ptr[i + 2]
  BY <1>1, <1>2, <1>5
<1>7. i' \in 0 .. L /\ i' + 1 = i + 2 /\ (i' = L => i + 2 = L + 1)
  BY <1>1, <1>2, <1>3
<1>8. i' < L => ptr[i' + 1] <= j /\ j <= ptr[i' + 2]
  <2> SUFFICES ASSUME i' < L
               PROVE  ptr[i' + 1] <= j /\ j <= ptr[i' + 2]
    OBVIOUS
  <2>1. i + 2 \in 1 .. Len(ptr) - 1 /\ i' + 2 = (i + 2) + 1
    BY <1>1, <1>2, <1>3, <1>4
  <2>2. ptr[i + 2] <= ptr[(i + 2) + 1]
    BY <1>2, <2>1 DEF Entries
  <2> QED
    BY <1>2, <1>6, <1>7, <2>1, <2>2
<1>9. CompressedDecoding'
  BY <1>1, <1>2, <1>6, <1>7, <1>8, CompressedPrimed DEF CompressedDecoding, L
<1>10. CompressedInv'
  BY <1>1, <1>2, <1>9, CompressedPrimed DEF CompressedInv, CompressedEncoding
<1> QED
  BY <1>1, <1>10, NoCall

LEMMA CompressedDecodeEntryStep ==
    ASSUME CompressedInv, format \in CompressedFormats, Compressed!DecodeEntry
    PROVE  CompressedInv' /\ TS!Next
<1> DEFINE L == LinesOf(format)
           x == ind[j + 1]
           r == IF format = "CSR" THEN i ELSE x
           c == IF format = "CSR" THEN x ELSE i
<1>1. /\ pc = "decode" /\ i < L /\ j < ptr[i + 2] /\ j' = j + 1
      /\ calls' = Append(calls, <<r, c, TileAt(kernel, pointers[j + 1])>>)
      /\ UNCHANGED <<format, kernel, pc, i, ptr, ind, pointers>>
  BY CompressedSame DEF Compressed!DecodeEntry
<1>2. /\ kernel \in Kernels /\ Entries(format, kernel, ptr, ind, pointers)
      /\ Len(ptr) = L + 1 /\ ptr[L + 1] = Len(ind)
      /\ i \in 0 .. L /\ j \in Nat /\ i < L
      /\ ptr[i + 1] <= j /\ j <= ptr[i + 2]
      /\ CallsOf(calls, pointers) /\ Len(calls) = j
  BY <1>1 DEF CompressedInv, CompressedDecoding
<1>3. L \in Nat /\ L > 0
  BY LineBounds
<1>4. /\ ptr \in Seq(Nat) /\ i + 2 \in 1 .. Len(ptr) /\ i + 1 \in 1 .. Len(ptr)
      /\ Len(pointers) = Len(ind) /\ Len(ind) \in Nat /\ pointers \in Seq(TileSet(kernel))
  BY <1>2, <1>3, LenProperties DEF Entries
<1>5. ptr[i + 2] \in Nat /\ ptr[i + 1] \in Nat /\ ptr[i + 2] <= Len(ind)
  BY <1>2, <1>4, ElementOfSeq DEF Entries
<1>6. /\ j + 1 \in 1 .. Len(ind) /\ ptr[i + 1] < j + 1 /\ j + 1 <= ptr[i + 2]
      /\ i \in 0 .. Len(ptr) - 2 /\ i \in 0 .. L - 1
  <2> HIDE DEF L
  <2>1. i \in 0 .. L - 1 /\ i \in 0 .. Len(ptr) - 2
    BY <1>2, <1>3
  <2> QED
    BY <1>1, <1>2, <1>4, <1>5, <2>1
<1>7. /\ x \in 0 .. LengthOf(format) - 1 /\ pointers[j + 1] = LineTile(format, i, x)
      /\ pointers[j + 1] \in TileSet(kernel)
  BY <1>2, <1>4, <1>6, ElementOfSeq DEF Entries
<1> HIDE DEF x
<1>8. /\ r \in 0 .. RowTiles - 1 /\ c \in 0 .. ColTiles - 1
      /\ TileIndex(r, c) = pointers[j + 1]
  BY <1>6, <1>7 DEF L, LinesOf, LengthOf, LineTile
<1> HIDE DEF r, c, L
<1>9. <<r, c>> \in kept
  <2>1. ~ all_zeros(kernel, TileIndex(r, c)) /\ format # "NON_PRUNED"
    BY <1>7, <1>8 DEF TileSet, CompressedFormats
  <2> QED
    BY <1>8, <2>1 DEF kept, NonZeroTiles
<1>10. ASSUME NEW q \in 1 .. Len(calls)
       PROVE  <<calls[q][1], calls[q][2]>> # <<r, c>>
  <2>1. TileIndex(calls[q][1], calls[q][2]) = pointers[q]
    BY <1>2 DEF CallsOf
  <2>2. q \in 1 .. Len(pointers) /\ j + 1 \in 1 .. Len(pointers) /\ q # j + 1
    BY <1>2, <1>4, <1>6
  <2>3. pointers[q] # pointers[j + 1]
    BY <1>2, <2>2 DEF Entries
  <2>4. TileIndex(calls[q][1], calls[q][2]) # TileIndex(r, c)
    BY <1>8, <2>1, <2>3
  <2>5. ASSUME <<calls[q][1], calls[q][2]>> = <<r, c>>
        PROVE  FALSE
    <3>1. calls[q][1] = r /\ calls[q][2] = c
      BY <2>5
    <3> QED
      BY <2>4, <3>1
  <2> QED
    BY <2>5
<1>11. calls \in Seq(CallSet)
  BY <1>2 DEF CallsOf
<1>12. TS!Next
  BY <1>1, <1>2, <1>8, <1>9, <1>10, <1>11, CallNext
<1>13. CallsOf(calls', pointers) /\ Len(calls') = j + 1
  <2> DEFINE e == <<r, c, TileAt(kernel, pointers[j + 1])>>
             new == Append(calls, e)
  <2>1. e \in CallSet /\ e[1] = r /\ e[2] = c
    <3>1. pointers[j + 1] \in AllTiles
      BY <1>7 DEF TileSet
    <3>2. TileAt(kernel, pointers[j + 1]) \in [1 .. TileWords -> Int]
      BY <1>2, <3>1, TileAtFacts
    <3> QED
      BY <1>8, <3>2 DEF CallSet
  <2> HIDE DEF e
  <2>2. /\ new \in Seq(CallSet) /\ Len(new) = j + 1 /\ new[j + 1] = e
        /\ \A q \in 1 .. j : new[q] = calls[q]
    BY <1>2, <1>11, <2>1, AppendProperties
  <2>3. calls' = new
    BY <1>1 DEF e
  <2> HIDE DEF new
  <2>4. ASSUME NEW q \in 1 .. j + 1
        PROVE  TileIndex(new[q][1], new[q][2]) = pointers[q]
    <3>1. CASE q = j + 1
      BY <1>8, <2>1, <2>2, <3>1
    <3>2. CASE q # j + 1
      <4>1. q \in 1 .. j
        BY <1>2, <3>2
      <4> QED
        BY <1>2, <2>2, <4>1 DEF CallsOf
    <3> QED
      BY <3>1, <3>2
  <2>5. j + 1 <= Len(pointers)
    BY <1>2, <1>4, <1>6
  <2> QED
    BY <2>2, <2>3, <2>4, <2>5 DEF CallsOf
<1>14. CompressedDecoding'
  <2>1. j' \in Nat /\ i < L /\ i # L /\ ptr[i + 1] <= j' /\ j' <= ptr[i + 2]
    BY <1>1, <1>2, <1>3, <1>5, <1>6
  <2> QED
    BY <1>1, <1>2, <1>13, <2>1, CompressedPrimed DEF CompressedDecoding, L
<1>15. CompressedInv'
  BY <1>1, <1>2, <1>14, CompressedPrimed DEF CompressedInv, CompressedEncoding
<1> QED
  BY <1>12, <1>15

LEMMA CompressedStep ==
    ASSUME CompressedInv, format \in CompressedFormats, Compressed!Next
    PROVE  CompressedInv' /\ [TS!Next]_(TS!vars) /\ format' = format
<1>1. CASE Compressed!DecodeReturn \/ Compressed!Finished
  <2>1. /\ pc \in {"decode", "done"} /\ pc' = "done"
        /\ UNCHANGED <<format, kernel, i, j, ptr, ind, pointers, calls>>
    BY <1>1 DEF Compressed!DecodeReturn, Compressed!Finished, Compressed!vars
  <2>2. CompressedInv'
    BY <2>1, CompressedPrimed DEF CompressedInv, CompressedEncoding, CompressedDecoding
  <2> QED
    BY <2>1, <2>2, NoCall
<1>2. Compressed!Next => format' = format
  BY DEF Compressed!Next, Compressed!EncodeTile, Compressed!EncodeLine, Compressed!EncodeReturn,
         Compressed!DecodeEntry, Compressed!DecodeLine, Compressed!DecodeReturn,
         Compressed!Finished, Compressed!vars
<1> QED
  BY <1>1, <1>2, CompressedEncodeTileStep, CompressedEncodeLineStep, CompressedEncodeReturnStep,
     CompressedDecodeEntryStep, CompressedDecodeLineStep DEF Compressed!Next

-----------------------------------------------------------------------------
(* INTERLEAVED: block c of the array starts at Base(m, c) with its header, *)
(* and the words of its tile in row r, when that is not zero, start at     *)
(* Address(m, c, r).                                                       *)

MetaWords == CEILING_DIV(RowTiles, WORD_BITS)
HeaderWords == 1 + MetaWords
Base(m, c) == c * HeaderWords + Count(TileSet(m), c * RowTiles) * TileWords
Address(m, c, r) == (c + 1) * HeaderWords + Count(TileSet(m), c * RowTiles + r) * TileWords

(* A word of the array: a number or the set bits of a metadata word. *)
BlockWords == Int \cup SUBSET (0 .. WORD_BITS - 1)

(* The metadata and the tiles of the first r rows of block c. *)
Block(m, b, c, r) ==
    /\ \A k \in 0 .. MetaWords - 1 :
          /\ b[Base(m, c) + k + 2] \in SUBSET (0 .. WORD_BITS - 1)
          /\ \A x \in 0 .. WORD_BITS - 1 :
                x \in b[Base(m, c) + k + 2] <=>
                    /\ k * WORD_BITS + x < r
                    /\ ~ all_zeros(m, TileIndex(k * WORD_BITS + x, c))
    /\ \A q \in 0 .. r - 1 :
          ~ all_zeros(m, TileIndex(q, c)) =>
              \A w \in 1 .. TileWords : b[Address(m, c, q) + w] = Word(m, TileIndex(q, c), w - 1)

(* The first n blocks, with their offsets. *)
Blocks(m, b, n) ==
    \A c \in 0 .. n - 1 :
        b[Base(m, c) + 1] = Base(m, c + 1) - Base(m, c) /\ Block(m, b, c, RowTiles)

InterleavedEncoding ==
    pc = "encode" =>
        /\ i \in 0 .. RowTiles /\ j \in 0 .. ColTiles /\ (j = ColTiles => i = 0)
        /\ Len(buf) = IF j = ColTiles THEN Base(kernel, j) ELSE Address(kernel, j, i)
        /\ Blocks(kernel, buf, j)
        /\ j < ColTiles =>
              /\ Block(kernel, buf, j, i)
              /\ offset_to_next_block = Base(kernel, j)
              /\ metadata - Base(kernel, j) - 1 \in Nat /\ counter32 \in 0 .. WORD_BITS - 1
              /\ metadata \in Int
              /\ (metadata - Base(kernel, j) - 1) * WORD_BITS + counter32 = i
        /\ values = 0 /\ calls = << >>

InterleavedDecoding ==
    pc \in {"enter", "decode", "done"} =>
        /\ Len(buf) = Base(kernel, ColTiles) /\ Blocks(kernel, buf, ColTiles)
        /\ i \in 0 .. ColTiles
        /\ pc \in {"enter", "done"} =>
              /\ values = Base(kernel, i)
              /\ i > 0 => values = next_block
              /\ CallsBefore(calls, i * RowTiles)
        /\ pc = "done" => i = ColTiles
        /\ pc = "decode" =>
              /\ i < ColTiles /\ row \in 0 .. RowTiles
              /\ next_block = Base(kernel, i + 1)
              /\ values_start = Base(kernel, i) + HeaderWords
              /\ values = Address(kernel, i, row)
              /\ metadata - Base(kernel, i) - 1 \in Nat /\ counter32 \in 0 .. WORD_BITS
              /\ metadata \in Int
              /\ (metadata - Base(kernel, i) - 1) * WORD_BITS + counter32 = row
              /\ CallsBefore(calls, i * RowTiles + row)

InterleavedInv ==
    format = "INTERLEAVED" =>
        /\ kernel \in Kernels
        /\ pc \in {"encode", "enter", "decode", "done"}
        /\ buf \in Seq(BlockWords)
        /\ InterleavedEncoding /\ InterleavedDecoding

LEMMA InterleavedSame ==
    /\ Interleaved!TileWords = TileWords /\ Interleaved!Kernels = Kernels
    /\ Interleaved!metadata_block_size = MetaWords
    /\ \A r, c : Interleaved!TileIndex(r, c) = TileIndex(r, c)
    /\ \A m, n : Interleaved!TileAt(m, n) = TileAt(m, n)
    /\ \A m, n : Interleaved!all_zeros(m, n) <=> all_zeros(m, n)
    /\ \A b, q : Interleaved!ReadTile(b, q) = ReadTile(b, q)
<1>1. /\ Interleaved!TileWords = TileWords /\ Interleaved!TileCount = TileCount
      /\ Interleaved!HIDDEN_KEY = HIDDEN_KEY
      /\ \A r, c : Interleaved!TileIndex(r, c) = TileIndex(r, c)
  BY DEF Interleaved!TileWords, TileWords, Interleaved!TileCount, TileCount,
         Interleaved!MAX_W_COL, MAX_W_COL, Interleaved!CEILING_DIV, CEILING_DIV,
         Interleaved!HIDDEN_KEY, HIDDEN_KEY, Interleaved!TileIndex, TileIndex
<1>2. \A m, n, w : Interleaved!Word(m, n, w) = Word(m, n, w)
  BY <1>1 DEF Interleaved!Word, Word
<1>3. \A m, n : Interleaved!TileAt(m, n) = TileAt(m, n)
  BY <1>1, <1>2 DEF Interleaved!TileAt, TileAt
<1>4. \A m, n : Interleaved!all_zeros(m, n) <=> all_zeros(m, n)
  BY <1>1, <1>2 DEF Interleaved!all_zeros, all_zeros
<1>5. \A b, q : Interleaved!ReadTile(b, q) = ReadTile(b, q)
  BY <1>1 DEF Interleaved!ReadTile, ReadTile
<1>6. Interleaved!Kernels = Kernels
  BY <1>1 DEF Interleaved!Kernels, Kernels
<1>7. Interleaved!metadata_block_size = MetaWords
  BY DEF Interleaved!metadata_block_size, MetaWords, Interleaved!CEILING_DIV, CEILING_DIV
<1> QED
  BY <1>1, <1>3, <1>4, <1>5, <1>6, <1>7

(* The metadata words of a block have a bit for every row. *)
LEMMA HeaderFacts ==
    /\ MetaWords \in Nat /\ MetaWords > 0
    /\ HeaderWords \in Nat /\ HeaderWords = MetaWords + 1
    /\ RowTiles <= MetaWords * WORD_BITS
<1> DEFINE W == WORD_BITS
           s == RowTiles + W - 1
<1>1. W \in Nat /\ W > 0 /\ RowTiles \in Nat /\ RowTiles > 0 /\ s \in Nat /\ s >= W
  BY KernelFacts
<1>2. MetaWords = s \div W
  BY DEF MetaWords, CEILING_DIV
<1>3. PICK a \in Nat, x \in 0 .. W - 1 : s = a * W + x
  BY <1>1, HasPlace
<1>4. s \div W = a
  BY <1>1, <1>3, DivMod
<1>5. a * W \in Nat /\ RowTiles <= a * W
  BY <1>1, <1>3, Multiples
<1>6. a > 0
  <2>1. CASE a = 0
    <3>1. a * W = 0
      BY <1>1, <2>1, Multiples
    <3> QED
      BY <1>1, <1>5, <3>1
  <2> QED
    BY <1>3, <2>1
<1> QED
  BY <1>2, <1>3, <1>4, <1>5, <1>6 DEF HeaderWords

(* A place in the metadata that stands for a row is in its words. *)
LEMMA MetaPlace ==
    ASSUME NEW k \in Nat, NEW x \in Nat, k * WORD_BITS + x < RowTiles
    PROVE  k \in 0 .. MetaWords - 1
<1>1. CASE k >= MetaWords
  <2>1. MetaWords * WORD_BITS <= k * WORD_BITS /\ k * WORD_BITS \in Nat
        /\ MetaWords * WORD_BITS \in Nat
    BY <1>1, HeaderFacts, KernelFacts, Multiples
  <2> QED
    BY <2>1, HeaderFacts, KernelFacts
<1> QED
  BY <1>1, HeaderFacts

LEMMA AddressFacts ==
    ASSUME NEW m, NEW c \in 0 .. ColTiles - 1, NEW r \in 0 .. RowTiles
    PROVE  /\ Base(m, c) \in Nat /\ Base(m, c + 1) \in Nat /\ Address(m, c, r) \in Nat
           /\ Address(m, c, 0) = Base(m, c) + HeaderWords
           /\ Address(m, c, RowTiles) = Base(m, c + 1)
           /\ r < RowTiles =>
                Address(m, c, r + 1) = Address(m, c, r)
                  + (IF all_zeros(m, TileIndex(r, c)) THEN 0 ELSE TileWords)
<1> DEFINE K(n) == Count(TileSet(m), n)
<1>1. /\ c \in Nat /\ c + 1 \in Nat /\ r \in Nat /\ RowTiles \in Nat /\ c * RowTiles \in Nat
      /\ (c + 1) * RowTiles = c * RowTiles + RowTiles
      /\ TileWords \in Nat /\ HeaderWords \in Nat
  BY KernelFacts, HeaderFacts, Multiples
<1>2. /\ K(c * RowTiles) \in Nat /\ K((c + 1) * RowTiles) \in Nat
      /\ c * RowTiles + r \in Nat /\ K(c * RowTiles + r) \in Nat
  BY <1>1, CountFacts
<1>3. /\ Base(m, c) = c * HeaderWords + K(c * RowTiles) * TileWords
      /\ Base(m, c + 1) = (c + 1) * HeaderWords + K((c + 1) * RowTiles) * TileWords
      /\ \A q : Address(m, c, q) = (c + 1) * HeaderWords + K(c * RowTiles + q) * TileWords
  BY DEF Base, Address
<1>4. r < RowTiles => K(c * RowTiles + (r + 1)) =
          IF all_zeros(m, TileIndex(r, c)) THEN K(c * RowTiles + r) ELSE K(c * RowTiles + r) + 1
  <2> SUFFICES ASSUME r < RowTiles
               PROVE  K(c * RowTiles + (r + 1)) =
          IF all_zeros(m, TileIndex(r, c)) THEN K(c * RowTiles + r) ELSE K(c * RowTiles + r) + 1
    OBVIOUS
  <2>1. r \in 0 .. RowTiles - 1 /\ c * RowTiles + (r + 1) = (c * RowTiles + r) + 1
    BY <1>1
  <2>2. TileIndex(r, c) = c * RowTiles + r /\ TileIndex(r, c) \in AllTiles
    BY <2>1, TileNumber
  <2>3. c * RowTiles + r \in TileSet(m) <=> ~ all_zeros(m, TileIndex(r, c))
    BY <2>2 DEF TileSet
  <2>4. K((c * RowTiles + r) + 1) = IF c * RowTiles + r \in TileSet(m)
          THEN K(c * RowTiles + r) + 1 ELSE K(c * RowTiles + r)
    BY <1>2, CountFacts
  <2> QED
    BY <2>1, <2>3, <2>4
<1> HIDE DEF K
<1>5. /\ c * HeaderWords \in Nat /\ (c + 1) * HeaderWords = c * HeaderWords + HeaderWords
      /\ \A n \in Nat : n * TileWords \in Nat /\ (n + 1) * TileWords = n * TileWords + TileWords
  BY <1>1, Multiples
<1>6. K(c * RowTiles + 0) = K(c * RowTiles) /\ K(c * RowTiles + RowTiles) = K((c + 1) * RowTiles)
  BY <1>1
<1> QED
  BY <1>1, <1>2, <1>3, <1>4, <1>5, <1>6

LEMMA AddressMonotonic ==
    ASSUME NEW m, NEW c \in 0 .. ColTiles - 1, NEW q \in 0 .. RowTiles, NEW r \in 0 .. RowTiles,
           q <= r
    PROVE  Address(m, c, q) <= Address(m, c, r)
<1> DEFINE a == Count(TileSet(m), c * RowTiles + q)
           b == Count(TileSet(m), c * RowTiles + r)
<1>1. c \in Nat /\ c + 1 \in Nat /\ c * RowTiles \in Nat /\ TileWords \in Nat
      /\ RowTiles \in Nat
      /\ HeaderWords \in Nat /\ (c + 1) * HeaderWords \in Nat
  BY KernelFacts, HeaderFacts, Multiples
<1>2. c * RowTiles + q \in Nat /\ c * RowTiles + r \in Nat /\ c * RowTiles + q <= c * RowTiles + r
  BY <1>1
<1>3. a \in Nat /\ b \in Nat /\ a <= b
  BY <1>2, CountFacts, CountMonotonic
<1> HIDE DEF a, b
<1>4. a * TileWords \in Nat /\ b * TileWords \in Nat /\ a * TileWords <= b * TileWords
  BY <1>1, <1>3, Multiples
<1>5. /\ Address(m, c, q) = (c + 1) * HeaderWords + a * TileWords
      /\ Address(m, c, r) = (c + 1) * HeaderWords + b * TileWords
  BY DEF Address, a, b
<1> QED
  BY <1>1, <1>4, <1>5

LEMMA BaseMonotonic ==
    ASSUME NEW m, NEW c \in Nat, NEW d \in Nat, c <= d
    PROVE  Base(m, c) <= Base(m, d) /\ Base(m, c) \in Nat /\ Base(m, 0) = 0
<1> DEFINE K(n) == Count(TileSet(m), n * RowTiles)
<1>1. /\ c * RowTiles \in Nat /\ d * RowTiles \in Nat /\ c * RowTiles <= d * RowTiles
      /\ c * HeaderWords \in Nat /\ d * HeaderWords \in Nat /\ c * HeaderWords <= d * HeaderWords
      /\ TileWords \in Nat /\ 0 * RowTiles = 0 /\ 0 * HeaderWords = 0
  BY KernelFacts, HeaderFacts, Multiples
<1>2. K(c) \in Nat /\ K(d) \in Nat /\ K(c) <= K(d) /\ K(0) = 0
  BY <1>1, CountFacts, CountMonotonic
<1>3. \A n : Base(m, n) = n * HeaderWords + K(n) * TileWords
  BY DEF Base
<1> HIDE DEF K
<1>4. K(c) * TileWords \in Nat /\ K(d) * TileWords \in Nat /\ K(c) * TileWords <= K(d) * TileWords
      /\ 0 * TileWords = 0
  BY <1>1, <1>2, Multiples
<1> QED
  BY <1>1, <1>2, <1>3, <1>4

(* The words of block c are those from its start to the end of its tiles. *)
LEMMA BlockFrame ==
    ASSUME NEW m, NEW b, NEW b2, NEW c \in 0 .. ColTiles - 1, NEW r \in 0 .. RowTiles,
           Block(m, b, c, r),
           \A q \in Base(m, c) + 2 .. Address(m, c, r) : b2[q] = b[q]
    PROVE  Block(m, b2, c, r)
<1>1. /\ Base(m, c) \in Nat /\ Address(m, c, r) \in Nat
      /\ Base(m, c) + HeaderWords <= Address(m, c, r)
      /\ RowTiles \in Nat /\ TileWords \in Nat
  <2>1. 0 \in 0 .. RowTiles /\ 0 <= r
    BY KernelFacts
  <2>2. Address(m, c, 0) <= Address(m, c, r)
    BY <2>1, AddressMonotonic
  <2> QED
    BY <2>1, <2>2, AddressFacts, KernelFacts
<1>2. ASSUME NEW k \in 0 .. MetaWords - 1
      PROVE  b2[Base(m, c) + k + 2] = b[Base(m, c) + k + 2]
  <2>1. Base(m, c) + k + 2 \in Base(m, c) + 2 .. Address(m, c, r)
    BY <1>1, HeaderFacts
  <2> QED
    BY <2>1
<1>3. ASSUME NEW q \in 0 .. r - 1, ~ all_zeros(m, TileIndex(q, c)), NEW w \in 1 .. TileWords
      PROVE  b2[Address(m, c, q) + w] = b[Address(m, c, q) + w]
  <2>1. q \in 0 .. RowTiles /\ q + 1 \in 0 .. RowTiles /\ q < RowTiles /\ q + 1 <= r
        /\ 0 \in 0 .. RowTiles /\ 0 <= q
    BY <1>1
  <2>2. /\ Address(m, c, q) \in Nat
        /\ Address(m, c, q + 1) = Address(m, c, q) + TileWords
    BY <1>3, <2>1, AddressFacts
  <2>3. Address(m, c, q + 1) <= Address(m, c, r) /\ Address(m, c, 0) <= Address(m, c, q)
    BY <2>1, AddressMonotonic
  <2>4. Address(m, c, 0) = Base(m, c) + HeaderWords
    BY <2>1, AddressFacts
  <2>5. Address(m, c, q) + w \in Base(m, c) + 2 .. Address(m, c, r)
    BY <1>1, <2>2, <2>3, <2>4, HeaderFacts
  <2> QED
    BY <2>5
<1> QED
  BY <1>2, <1>3 DEF Block

LEMMA BlocksFrame ==
    ASSUME NEW m, NEW b, NEW b2, NEW n \in 0 .. ColTiles, Blocks(m, b, n),
           \A q \in 1 .. Base(m, n) : b2[q] = b[q]
    PROVE  Blocks(m, b2, n)
<1> SUFFICES ASSUME NEW c \in 0 .. n - 1
             PROVE  b2[Base(m, c) + 1] = Base(m, c + 1) - Base(m, c) /\ Block(m, b2, c, RowTiles)
  BY DEF Blocks
<1>1. /\ c \in 0 .. ColTiles - 1 /\ c + 1 \in Nat /\ n \in Nat /\ c + 1 <= n
      /\ RowTiles \in 0 .. RowTiles /\ 0 \in 0 .. RowTiles /\ 0 <= RowTiles
  BY KernelFacts
<1>2. /\ Base(m, c) \in Nat /\ Base(m, c + 1) \in Nat /\ Address(m, c, RowTiles) = Base(m, c + 1)
      /\ Address(m, c, 0) = Base(m, c) + HeaderWords
  BY <1>1, AddressFacts
<1>3. Base(m, c + 1) <= Base(m, n) /\ Base(m, n) \in Nat
  BY <1>1, BaseMonotonic
<1>4. Address(m, c, 0) <= Address(m, c, RowTiles)
  BY <1>1, AddressMonotonic
<1>5. Base(m, c) + 1 \in 1 .. Base(m, n)
  BY <1>2, <1>3, <1>4, HeaderFacts
<1>6. \A q \in Base(m, c) + 2 .. Address(m, c, RowTiles) : b2[q] = b[q]
  <2>1. \A q \in Base(m, c) + 2 .. Address(m, c, RowTiles) : q \in 1 .. Base(m, n)
    BY <1>2, <1>3
  <2> QED
    BY <2>1
<1>7. b[Base(m, c) + 1] = Base(m, c + 1) - Base(m, c) /\ Block(m, b, c, RowTiles)
  BY DEF Blocks
<1>8. Block(m, b2, c, RowTiles)
  BY <1>1, <1>6, <1>7, BlockFrame
<1> QED
  BY <1>5, <1>7, <1>8

(* A tile of zeros leaves the array as it is. *)
LEMMA BlockSkip ==
    ASSUME NEW m, NEW b, NEW c \in 0 .. ColTiles - 1, NEW r \in 0 .. RowTiles - 1,
           Block(m, b, c, r), all_zeros(m, TileIndex(r, c))
    PROVE  Block(m, b, c, r + 1) /\ Address(m, c, r + 1) = Address(m, c, r)
<1>1. r \in Nat /\ r \in 0 .. RowTiles /\ r < RowTiles /\ WORD_BITS \in Nat /\ MetaWords \in Nat
  BY KernelFacts, HeaderFacts
<1>2. ASSUME NEW k \in 0 .. MetaWords - 1, NEW x \in 0 .. WORD_BITS - 1
      PROVE  x \in b[Base(m, c) + k + 2] <=>
               k * WORD_BITS + x < r + 1 /\ ~ all_zeros(m, TileIndex(k * WORD_BITS + x, c))
  <2> DEFINE s == k * WORD_BITS + x
  <2>1. s \in Nat
    BY <1>1, Multiples
  <2>2. x \in b[Base(m, c) + k + 2] <=> s < r /\ ~ all_zeros(m, TileIndex(s, c))
    BY DEF Block
  <2> HIDE DEF s
  <2>3. s < r + 1 <=> s < r \/ s = r
    BY <1>1, <2>1
  <2>4. x \in b[Base(m, c) + k + 2] <=> s < r + 1 /\ ~ all_zeros(m, TileIndex(s, c))
    BY <2>2, <2>3
  <2> QED
    BY <2>4 DEF s
<1>3. \A q \in 0 .. (r + 1) - 1 : q = r \/ q \in 0 .. r - 1
  BY <1>1
<1>4. Block(m, b, c, r + 1)
  BY <1>2, <1>3 DEF Block
<1>5. Address(m, c, r + 1) = Address(m, c, r) + 0 /\ Address(m, c, r) \in Nat
  BY <1>1, AddressFacts
<1> QED
  BY <1>4, <1>5

(* A tile that is not zero: its bit is set, its words are appended. *)
LEMMA BlockAdd ==
    ASSUME NEW m \in Kernels, NEW b \in Seq(BlockWords), NEW c \in 0 .. ColTiles - 1,
           NEW r \in 0 .. RowTiles - 1, NEW k0 \in Nat, NEW x0 \in 0 .. WORD_BITS - 1,
           k0 * WORD_BITS + x0 = r, Len(b) = Address(m, c, r),
           Block(m, b, c, r), ~ all_zeros(m, TileIndex(r, c))
    PROVE  LET b2 == [b EXCEPT ![Base(m, c) + k0 + 2] = @ \cup {x0}] \o TileAt(m, TileIndex(r, c))
           IN  /\ b2 \in Seq(BlockWords) /\ Len(b2) = Address(m, c, r + 1)
               /\ Block(m, b2, c, r + 1)
               /\ \A q \in 1 .. Base(m, c) : b2[q] = b[q]
<1> DEFINE p0 == Base(m, c) + k0 + 2
           t == TileIndex(r, c)
           b1 == [b EXCEPT ![p0] = b[p0] \cup {x0}]
           b2 == b1 \o TileAt(m, t)
<1>1. /\ r \in Nat /\ r \in 0 .. RowTiles /\ r < RowTiles /\ WORD_BITS \in Nat /\ MetaWords \in Nat
      /\ TileWords \in Nat /\ TileWords > 0 /\ 0 \in 0 .. RowTiles /\ 0 <= r /\ x0 \in Nat
      /\ RowTiles \in Nat
  BY KernelFacts, HeaderFacts
<1>2. k0 \in 0 .. MetaWords - 1
  BY <1>1, MetaPlace
<1>3. /\ Base(m, c) \in Nat /\ Address(m, c, r) \in Nat
      /\ Address(m, c, 0) = Base(m, c) + HeaderWords
      /\ Address(m, c, r + 1) = Address(m, c, r) + TileWords
      /\ Address(m, c, 0) <= Address(m, c, r)
  BY <1>1, AddressFacts, AddressMonotonic
<1>4. p0 \in 1 .. Len(b) /\ p0 <= Base(m, c) + HeaderWords /\ p0 > Base(m, c)
  BY <1>2, <1>3, HeaderFacts
<1>5. b[p0] \cup {x0} \in SUBSET (0 .. WORD_BITS - 1)
  BY <1>2 DEF Block
<1> HIDE DEF p0
<1>6. /\ b1 \in Seq(BlockWords) /\ Len(b1) = Len(b)
      /\ \A q \in 1 .. Len(b) : b1[q] = IF q = p0 THEN b[p0] \cup {x0} ELSE b[q]
  <2>1. b[p0] \cup {x0} \in BlockWords
    BY <1>5 DEF BlockWords
  <2> QED
    BY <1>4, <2>1, ExceptSeq
<1> HIDE DEF b1
<1>7. t \in AllTiles
  BY TileNumber
<1> HIDE DEF t
<1>8. /\ TileAt(m, t) \in Seq(BlockWords) /\ Len(TileAt(m, t)) = TileWords
      /\ \A w \in 1 .. TileWords : TileAt(m, t)[w] = Word(m, t, w - 1)
  <2>1. /\ TileAt(m, t) \in [1 .. TileWords -> Int] /\ Len(TileAt(m, t)) = TileWords
        /\ \A w \in 1 .. TileWords : TileAt(m, t)[w] = Word(m, t, w - 1)
    BY <1>7, TileAtFacts
  <2>2. TileAt(m, t) \in [1 .. TileWords -> BlockWords]
    BY <2>1 DEF BlockWords
  <2>3. TileAt(m, t) \in Seq(BlockWords)
    BY <1>1, <2>2, SeqDef
  <2> QED
    BY <2>1, <2>3
<1>9. /\ b2 \in Seq(BlockWords) /\ Len(b2) = Len(b) + TileWords /\ Len(b) \in Nat
      /\ \A q \in 1 .. Len(b) + TileWords :
            b2[q] = IF q <= Len(b) THEN b1[q] ELSE TileAt(m, t)[q - Len(b)]
  <2> DEFINE u == TileAt(m, t)
             v == b1 \o u
  <2>1. u \in Seq(BlockWords) /\ Len(u) = TileWords
    BY <1>8
  <2> HIDE DEF u
  <2>2. /\ v \in Seq(BlockWords) /\ Len(v) = Len(b1) + Len(u)
        /\ \A q \in 1 .. Len(b1) + Len(u) : v[q] = IF q <= Len(b1) THEN b1[q] ELSE u[q - Len(b1)]
    BY <1>6, <2>1, ConcatProperties
  <2>3. Len(b) \in Nat
    BY LenProperties
  <2> HIDE DEF v
  <2>4. /\ v \in Seq(BlockWords) /\ Len(v) = Len(b) + TileWords
        /\ \A q \in 1 .. Len(b) + TileWords : v[q] = IF q <= Len(b) THEN b1[q] ELSE u[q - Len(b)]
    BY <1>6, <2>1, <2>2
  <2>5. b2 = v
    BY DEF v, u
  <2> QED
    BY <2>3, <2>4, <2>5 DEF u
<1> HIDE DEF b2
<1>10. /\ b2[p0] = b[p0] \cup {x0}
       /\ \A q \in 1 .. Len(b) : q # p0 => b2[q] = b[q]
       /\ \A w \in 1 .. TileWords : b2[Len(b) + w] = Word(m, t, w - 1)
  <2>1. \A q \in 1 .. Len(b) : q \in 1 .. Len(b) + TileWords /\ q <= Len(b)
    BY <1>1, <1>9
  <2>2. \A w \in 1 .. TileWords : /\ Len(b) + w \in 1 .. Len(b) + TileWords
                                  /\ ~ (Len(b) + w <= Len(b)) /\ (Len(b) + w) - Len(b) = w
    BY <1>1, <1>9
  <2>3. \A q \in 1 .. Len(b) : b2[q] = b1[q]
    BY <1>9, <2>1
  <2>4. \A w \in 1 .. TileWords : b2[Len(b) + w] = TileAt(m, t)[w]
    BY <1>9, <2>2
  <2> QED
    BY <1>4, <1>6, <1>8, <2>3, <2>4
<1>11. ASSUME NEW k \in 0 .. MetaWords - 1
       PROVE  /\ b2[Base(m, c) + k + 2] \in SUBSET (0 .. WORD_BITS - 1)
              /\ \A x \in 0 .. WORD_BITS - 1 :
                    x \in b2[Base(m, c) + k + 2] <=>
                      k * WORD_BITS + x < r + 1 /\ ~ all_zeros(m, TileIndex(k * WORD_BITS + x, c))
  <2> DEFINE p == Base(m, c) + k + 2
  <2>1. p \in 1 .. Len(b) /\ (p = p0 <=> k = k0)
    BY <1>1, <1>2, <1>3, HeaderFacts DEF p0
  <2>2. b[p] \in SUBSET (0 .. WORD_BITS - 1)
    BY DEF Block
  <2>3. \A x \in 0 .. WORD_BITS - 1 :
          x \in b[p] <=> k * WORD_BITS + x < r /\ ~ all_zeros(m, TileIndex(k * WORD_BITS + x, c))
    BY DEF Block
  <2> HIDE DEF p
  <2>4. \A x : x \in b2[p] <=> x \in b[p] \/ (k = k0 /\ x = x0)
    BY <1>10, <2>1
  <2>5. b2[p] \in SUBSET (0 .. WORD_BITS - 1)
    BY <1>5, <1>10, <2>1, <2>2
  <2>6. ASSUME NEW x \in 0 .. WORD_BITS - 1
        PROVE  x \in b2[p] <=>
                 k * WORD_BITS + x < r + 1 /\ ~ all_zeros(m, TileIndex(k * WORD_BITS + x, c))
    <3> DEFINE s == k * WORD_BITS + x
    <3>1. s \in Nat /\ k \in Nat
      BY <1>1, Multiples
    <3>2. s = r <=> k = k0 /\ x = x0
      <4>1. k * WORD_BITS + x = k0 * WORD_BITS + x0 <=> k = k0 /\ x = x0
        BY <1>1, <3>1, LineOrder
      <4> QED
        BY <4>1
    <3>3. x \in b[p] <=> s < r /\ ~ all_zeros(m, TileIndex(s, c))
      BY <2>3
    <3> HIDE DEF s
    <3>4. s < r + 1 <=> s < r \/ s = r
      BY <1>1, <3>1
    <3>5. x \in b2[p] <=> s < r + 1 /\ ~ all_zeros(m, TileIndex(s, c))
      BY <2>4, <3>2, <3>3, <3>4
    <3> QED
      BY <3>5 DEF s
  <2> QED
    BY <2>5, <2>6 DEF p
<1>12. ASSUME NEW q \in 0 .. (r + 1) - 1, ~ all_zeros(m, TileIndex(q, c)), NEW w \in 1 .. TileWords
       PROVE  b2[Address(m, c, q) + w] = Word(m, TileIndex(q, c), w - 1)
  <2>1. CASE q = r
    BY <1>10, <2>1 DEF t
  <2>2. CASE q # r
    <3>1. q \in 0 .. r - 1 /\ q \in 0 .. RowTiles /\ q < RowTiles /\ q + 1 \in 0 .. RowTiles
          /\ q + 1 <= r /\ 0 <= q
      BY <1>1, <2>2
    <3>2. b[Address(m, c, q) + w] = Word(m, TileIndex(q, c), w - 1)
      BY <1>12, <3>1 DEF Block
    <3>3. /\ Address(m, c, q) \in Nat /\ Address(m, c, q + 1) = Address(m, c, q) + TileWords
      BY <1>12, <3>1, AddressFacts
    <3>4. Address(m, c, q + 1) <= Address(m, c, r) /\ Address(m, c, 0) <= Address(m, c, q)
      BY <1>1, <3>1, AddressMonotonic
    <3>5. Address(m, c, q) + w \in 1 .. Len(b) /\ Address(m, c, q) + w # p0
      BY <1>1, <1>3, <1>4, <3>3, <3>4, HeaderFacts
    <3> QED
      BY <1>10, <3>2, <3>5
  <2> QED
    BY <2>1, <2>2
<1>13. Block(m, b2, c, r + 1)
  BY <1>11, <1>12 DEF Block
<1>14. \A q \in 1 .. Base(m, c) : b2[q] = b[q]
  <2>1. \A q \in 1 .. Base(m, c) : q \in 1 .. Len(b) /\ q # p0
    BY <1>3, <1>4, HeaderFacts DEF p0
  <2> QED
    BY <1>10, <2>1
<1> QED
  BY <1>3, <1>9, <1>13, <1>14 DEF b2, b1, t, p0

(* The offset of a full block is stored. *)
LEMMA BlockClose ==
    ASSUME NEW m, NEW b \in Seq(BlockWords), NEW c \in 0 .. ColTiles - 1,
           Len(b) = Base(m, c + 1), Blocks(m, b, c), Block(m, b, c, RowTiles)
    PROVE  LET b2 == [b EXCEPT ![Base(m, c) + 1] = Len(b) - Base(m, c)]
           IN  b2 \in Seq(BlockWords) /\ Len(b2) = Len(b) /\ Blocks(m, b2, c + 1)
<1> DEFINE p0 == Base(m, c) + 1
           e == Len(b) - Base(m, c)
           b2 == [b EXCEPT ![p0] = e]
<1>1. /\ c \in Nat /\ c \in 0 .. ColTiles /\ RowTiles \in 0 .. RowTiles /\ 0 \in 0 .. RowTiles
      /\ 0 <= RowTiles
  BY KernelFacts
<1>2. /\ Base(m, c) \in Nat /\ Base(m, c + 1) \in Nat
      /\ Address(m, c, 0) = Base(m, c) + HeaderWords /\ Address(m, c, RowTiles) = Base(m, c + 1)
      /\ Address(m, c, 0) <= Address(m, c, RowTiles)
  BY <1>1, AddressFacts, AddressMonotonic
<1>3. p0 \in 1 .. Len(b) /\ e \in BlockWords
  BY <1>2, HeaderFacts DEF BlockWords
<1> HIDE DEF p0, e
<1>4. /\ b2 \in Seq(BlockWords) /\ Len(b2) = Len(b)
      /\ \A q \in 1 .. Len(b) : b2[q] = IF q = p0 THEN e ELSE b[q]
  BY <1>3, ExceptSeq
<1> HIDE DEF b2
<1>5. \A q \in 1 .. Base(m, c) : b2[q] = b[q]
  <2>1. \A q \in 1 .. Base(m, c) : q \in 1 .. Len(b) /\ q # p0
    BY <1>2, HeaderFacts DEF p0
  <2> QED
    BY <1>4, <2>1
<1>6. Blocks(m, b2, c)
  BY <1>1, <1>5, BlocksFrame
<1>7. Block(m, b2, c, RowTiles)
  <2>1. \A q \in Base(m, c) + 2 .. Address(m, c, RowTiles) : q \in 1 .. Len(b) /\ q # p0
    BY <1>2 DEF p0
  <2>2. \A q \in Base(m, c) + 2 .. Address(m, c, RowTiles) : b2[q] = b[q]
    BY <1>4, <2>1
  <2> QED
    BY <1>1, <2>2, BlockFrame
<1>8. b2[Base(m, c) + 1] = Base(m, c + 1) - Base(m, c)
  BY <1>3, <1>4 DEF p0, e
<1>9. \A d \in 0 .. (c + 1) - 1 : d = c \/ d \in 0 .. c - 1
  BY <1>1
<1>10. Blocks(m, b2, c + 1)
  BY <1>6, <1>7, <1>8, <1>9 DEF Blocks
<1> QED
  BY <1>4, <1>10 DEF b2, p0, e

(* The header of a block. *)
LEMMA HeaderMade ==
    /\ Interleaved!BlockHeader \in Seq(BlockWords)
    /\ Len(Interleaved!BlockHeader) = HeaderWords
    /\ \A k \in 0 .. MetaWords - 1 : Interleaved!BlockHeader[k + 2] = {}
<1> DEFINE s == [n \in 1 .. MetaWords |-> {}]
           z == <<0>>
           h == z \o s
<1>1. Interleaved!BlockHeader = h
  BY InterleavedSame DEF Interleaved!BlockHeader
<1>2. MetaWords \in Nat /\ HeaderWords = MetaWords + 1
  BY HeaderFacts
<1>3. s \in Seq(BlockWords) /\ Len(s) = MetaWords
  <2>1. {} \in BlockWords
    BY DEF BlockWords
  <2>2. s \in [1 .. MetaWords -> BlockWords]
    BY <2>1
  <2>3. s \in Seq(BlockWords)
    BY <1>2, <2>2, SeqDef
  <2> QED
    BY <1>2, <2>2, <2>3, LenProperties
<1>4. z \in Seq(BlockWords) /\ Len(z) = 1
  <2>1. 0 \in BlockWords
    BY DEF BlockWords
  <2> QED
    BY <2>1
<1>5. \A n \in 1 .. MetaWords : s[n] = {}
  OBVIOUS
<1> HIDE DEF s, z
<1>6. /\ h \in Seq(BlockWords) /\ Len(h) = 1 + MetaWords
      /\ \A q \in 1 .. 1 + MetaWords : h[q] = IF q <= 1 THEN z[q] ELSE s[q - 1]
  <2>1. /\ h \in Seq(BlockWords) /\ Len(h) = Len(z) + Len(s)
        /\ \A q \in 1 .. Len(z) + Len(s) : h[q] = IF q <= Len(z) THEN z[q] ELSE s[q - Len(z)]
    BY <1>3, <1>4, ConcatProperties
  <2> HIDE DEF h
  <2> QED
    BY <1>3, <1>4, <2>1
<1> HIDE DEF h
<1>7. ASSUME NEW k \in 0 .. MetaWords - 1
      PROVE  h[k + 2] = {}
  <2>1. k + 2 \in 1 .. 1 + MetaWords /\ ~ (k + 2 <= 1) /\ (k + 2) - 1 = k + 1
        /\ k + 1 \in 1 .. MetaWords
    BY <1>2
  <2> QED
    BY <1>5, <1>6, <2>1
<1> QED
  BY <1>1, <1>2, <1>6, <1>7

(* A block starts with an empty header. *)
LEMMA BlockOpen ==
    ASSUME NEW m, NEW b \in Seq(BlockWords), NEW c \in 0 .. ColTiles - 1,
           Len(b) = Base(m, c), Blocks(m, b, c)
    PROVE  LET b2 == b \o Interleaved!BlockHeader
           IN  /\ b2 \in Seq(BlockWords) /\ Len(b2) = Address(m, c, 0)
               /\ Blocks(m, b2, c) /\ Block(m, b2, c, 0)
<1> DEFINE h == Interleaved!BlockHeader
           b2 == b \o h
<1>1. /\ c \in Nat /\ c \in 0 .. ColTiles /\ 0 \in 0 .. RowTiles
      /\ MetaWords \in Nat /\ HeaderWords \in Nat /\ HeaderWords = MetaWords + 1 /\ WORD_BITS \in Nat
  BY KernelFacts, HeaderFacts
<1>2. Base(m, c) \in Nat /\ Address(m, c, 0) = Base(m, c) + HeaderWords
  BY <1>1, AddressFacts
<1>3. /\ h \in Seq(BlockWords) /\ Len(h) = HeaderWords
      /\ \A k \in 0 .. MetaWords - 1 : h[k + 2] = {}
  BY HeaderMade
<1> HIDE DEF h
<1>4. /\ b2 \in Seq(BlockWords) /\ Len(b2) = Len(b) + HeaderWords
      /\ \A q \in 1 .. Len(b) + HeaderWords : b2[q] = IF q <= Len(b) THEN b[q] ELSE h[q - Len(b)]
  BY <1>3, ConcatProperties
<1> HIDE DEF b2
<1>5. \A q \in 1 .. Base(m, c) : b2[q] = b[q]
  <2>1. \A q \in 1 .. Base(m, c) : q \in 1 .. Len(b) + HeaderWords /\ q <= Len(b)
    BY <1>1, <1>2
  <2> QED
    BY <1>4, <2>1
<1>6. Blocks(m, b2, c)
  BY <1>1, <1>5, BlocksFrame
<1>7. ASSUME NEW k \in 0 .. MetaWords - 1
      PROVE  b2[Base(m, c) + k + 2] = {}
  <2> DEFINE q == Base(m, c) + k + 2
  <2>1. q \in 1 .. Len(b) + HeaderWords /\ ~ (q <= Len(b)) /\ q - Len(b) = k + 2
    BY <1>1, <1>2
  <2> HIDE DEF q
  <2>2. b2[q] = h[k + 2]
    BY <1>4, <2>1
  <2> QED
    BY <1>3, <2>2 DEF q
<1>8. Block(m, b2, c, 0)
  <2>1. \A k \in 0 .. MetaWords - 1, x \in 0 .. WORD_BITS - 1 : ~ (k * WORD_BITS + x < 0)
    <3> SUFFICES ASSUME NEW k \in 0 .. MetaWords - 1, NEW x \in 0 .. WORD_BITS - 1
                 PROVE  ~ (k * WORD_BITS + x < 0)
      OBVIOUS
    <3>1. k * WORD_BITS \in Nat
      BY <1>1, Multiples
    <3> QED
      BY <1>1, <3>1
  <2> QED
    BY <1>7, <2>1 DEF Block
<1> QED
  BY <1>2, <1>4, <1>6, <1>8 DEF b2, h

(* Priming the parts of the invariant. *)
LEMMA InterleavedPrimed ==
    /\ Block(kernel, buf, j, i)' <=> Block(kernel', buf', j', i')
    /\ Blocks(kernel, buf, j)' <=> Blocks(kernel', buf', j')
    /\ Blocks(kernel, buf, ColTiles)' <=> Blocks(kernel', buf', ColTiles)
    /\ Base(kernel, j)' = Base(kernel', j') /\ Base(kernel, i)' = Base(kernel', i')
    /\ Base(kernel, i + 1)' = Base(kernel', i' + 1)
    /\ Base(kernel, ColTiles)' = Base(kernel', ColTiles)
    /\ Address(kernel, j, i)' = Address(kernel', j', i')
    /\ Address(kernel, i, row)' = Address(kernel', i', row')
    /\ CallsBefore(calls, i * RowTiles)' <=> CallsBefore(calls', i' * RowTiles)
    /\ CallsBefore(calls, i * RowTiles + row)' <=> CallsBefore(calls', i' * RowTiles + row')
  BY DEF Block, Blocks, Base, Address, Count, TileSet, AllTiles, CallsBefore, CallSet

LEMMA InterleavedInit ==
    ASSUME format = "INTERLEAVED", Interleaved!Init
    PROVE  InterleavedInv /\ calls = << >> /\ kernel \in Kernels
<1>1. /\ kernel \in Kernels /\ pc = "encode" /\ i = 0 /\ j = 0
      /\ buf = Interleaved!BlockHeader /\ offset_to_next_block = 0 /\ metadata = 1
      /\ counter32 = 0 /\ values = 0 /\ calls = << >>
  BY InterleavedSame DEF Interleaved!Init
<1> DEFINE b == << >>
<1>2. /\ 0 \in 0 .. ColTiles - 1 /\ 0 \in 0 .. RowTiles /\ 0 \in 0 .. ColTiles /\ 0 # ColTiles
      /\ 0 < ColTiles /\ 0 \in 0 .. WORD_BITS - 1 /\ 0 * WORD_BITS + 0 = 0
  BY KernelFacts, Multiples
<1>3. Base(kernel, 0) = 0
  BY BaseMonotonic
<1>4. b \in Seq(BlockWords) /\ Len(b) = 0 /\ Blocks(kernel, b, 0)
  BY EmptySeq DEF Blocks
<1>5. LET b2 == b \o Interleaved!BlockHeader
      IN  /\ b2 \in Seq(BlockWords) /\ Len(b2) = Address(kernel, 0, 0)
          /\ Blocks(kernel, b2, 0) /\ Block(kernel, b2, 0, 0)
  BY <1>2, <1>3, <1>4, BlockOpen
<1>6. b \o Interleaved!BlockHeader = Interleaved!BlockHeader
  BY HeaderMade, ConcatEmptySeq
<1>7. /\ buf \in Seq(BlockWords) /\ Len(buf) = Address(kernel, 0, 0)
      /\ Blocks(kernel, buf, 0) /\ Block(kernel, buf, 0, 0)
  BY <1>1, <1>5, <1>6
<1>8. InterleavedEncoding
  <2>1. metadata - Base(kernel, 0) - 1 = 0 /\ metadata \in Int
    BY <1>1, <1>3
  <2> QED
    BY <1>1, <1>2, <1>3, <1>7, <2>1 DEF InterleavedEncoding
<1> QED
  BY <1>1, <1>7, <1>8 DEF InterleavedInv, InterleavedDecoding

LEMMA InterleavedEncodeTileStep ==
    ASSUME InterleavedInv, format = "INTERLEAVED", format' = format, Interleaved!EncodeTile
    PROVE  InterleavedInv' /\ UNCHANGED TS!vars
<1> DEFINE t == TileIndex(i, j)
           B == Base(kernel, j)
           k0 == metadata - B - 1
<1>1. /\ pc = "encode" /\ j < ColTiles /\ i < RowTiles
      /\ buf' = IF all_zeros(kernel, t) THEN buf
                ELSE [buf EXCEPT ![metadata + 1] = @ \cup {counter32}] \o TileAt(kernel, t)
      /\ IF counter32 + 1 = WORD_BITS THEN metadata' = metadata + 1 /\ counter32' = 0
                                      ELSE counter32' = counter32 + 1 /\ metadata' = metadata
      /\ i' = i + 1
      /\ UNCHANGED <<kernel, pc, j, offset_to_next_block, values, calls>>
  BY InterleavedSame DEF Interleaved!EncodeTile
<1>2. /\ kernel \in Kernels /\ buf \in Seq(BlockWords)
      /\ i \in 0 .. RowTiles - 1 /\ j \in 0 .. ColTiles - 1
      /\ Len(buf) = Address(kernel, j, i)
      /\ Blocks(kernel, buf, j) /\ Block(kernel, buf, j, i)
      /\ offset_to_next_block = B
      /\ k0 \in Nat /\ counter32 \in 0 .. WORD_BITS - 1 /\ metadata \in Int
      /\ k0 * WORD_BITS + counter32 = i
      /\ values = 0 /\ calls = << >>
  <2>1. InterleavedEncoding /\ kernel \in Kernels /\ buf \in Seq(BlockWords)
    BY DEF InterleavedInv
  <2>2. i \in 0 .. RowTiles /\ j \in 0 .. ColTiles
    BY <1>1, <2>1 DEF InterleavedEncoding
  <2>3. i \in 0 .. RowTiles - 1 /\ j \in 0 .. ColTiles - 1 /\ j # ColTiles
    BY <1>1, <2>2, KernelFacts
  <2> QED
    BY <1>1, <2>1, <2>3 DEF InterleavedEncoding
<1>3. i \in Nat /\ i \in 0 .. RowTiles /\ j \in 0 .. ColTiles /\ RowTiles \in Nat /\ ColTiles \in Nat
  BY <1>2, KernelFacts
<1>4. B \in Nat
  BY <1>2, <1>3, AddressFacts
<1>5. /\ buf' \in Seq(BlockWords) /\ Len(buf') = Address(kernel, j, i + 1)
      /\ Block(kernel, buf', j, i + 1) /\ Blocks(kernel, buf', j)
  <2>1. CASE all_zeros(kernel, t)
    BY <1>1, <1>2, <2>1, BlockSkip
  <2>2. CASE ~ all_zeros(kernel, t)
    <3> DEFINE b2 == [buf EXCEPT ![Base(kernel, j) + k0 + 2] = @ \cup {counter32}]
                       \o TileAt(kernel, TileIndex(i, j))
    <3> HIDE DEF k0
    <3>1. /\ b2 \in Seq(BlockWords) /\ Len(b2) = Address(kernel, j, i + 1)
          /\ Block(kernel, b2, j, i + 1) /\ \A q \in 1 .. B : b2[q] = buf[q]
      BY <1>2, <2>2, BlockAdd
    <3>2. Base(kernel, j) + k0 + 2 = metadata + 1
      BY <1>2, <1>4 DEF k0
    <3>3. buf' = b2
      BY <1>1, <2>2, <3>2
    <3> HIDE DEF b2
    <3>4. Blocks(kernel, b2, j)
      BY <1>2, <1>3, <3>1, BlocksFrame
    <3> QED
      BY <3>1, <3>3, <3>4
  <2> QED
    BY <2>1, <2>2
<1>6. /\ metadata' - B - 1 \in Nat /\ counter32' \in 0 .. WORD_BITS - 1 /\ metadata' \in Int
      /\ (metadata' - B - 1) * WORD_BITS + counter32' = i + 1
  <2>1. WORD_BITS \in Nat /\ WORD_BITS > 0 /\ k0 * WORD_BITS \in Nat
        /\ (k0 + 1) * WORD_BITS = k0 * WORD_BITS + WORD_BITS
    BY <1>2, KernelFacts, Multiples
  <2>2. CASE counter32 + 1 = WORD_BITS
    <3>1. metadata' - B - 1 = k0 + 1
      BY <1>1, <1>2, <1>4, <2>2
    <3>2. metadata' \in Int /\ counter32' = 0
      BY <1>1, <1>2, <2>2
    <3> HIDE DEF k0
    <3>3. (k0 + 1) * WORD_BITS + 0 = i + 1 /\ k0 + 1 \in Nat /\ 0 \in 0 .. WORD_BITS - 1
      BY <1>2, <2>1, <2>2
    <3> QED
      BY <3>1, <3>2, <3>3
  <2>3. CASE counter32 + 1 # WORD_BITS
    <3>1. metadata' - B - 1 = k0 /\ counter32' = counter32 + 1 /\ metadata' \in Int
      BY <1>1, <1>2, <2>3
    <3> HIDE DEF k0
    <3>2. k0 * WORD_BITS + (counter32 + 1) = i + 1 /\ counter32 + 1 \in 0 .. WORD_BITS - 1
      BY <1>2, <2>1, <2>3
    <3> QED
      BY <1>2, <3>1, <3>2
  <2> QED
    BY <2>2, <2>3
<1> HIDE DEF k0
<1>7. i' \in 0 .. RowTiles /\ j' \in 0 .. ColTiles /\ j' # ColTiles
  BY <1>1, <1>2, <1>3
<1>8. InterleavedEncoding'
  BY <1>1, <1>2, <1>5, <1>6, <1>7, InterleavedPrimed DEF InterleavedEncoding, B
<1>9. InterleavedInv'
  BY <1>1, <1>2, <1>5, <1>8 DEF InterleavedInv, InterleavedDecoding
<1> QED
  BY <1>1, <1>9, NoCall

LEMMA InterleavedEncodeBlockStep ==
    ASSUME InterleavedInv, format = "INTERLEAVED", format' = format, Interleaved!EncodeBlock
    PROVE  InterleavedInv' /\ UNCHANGED TS!vars
<1> DEFINE B == Base(kernel, j)
           closed == [buf EXCEPT ![B + 1] = Len(buf) - B]
<1>1. /\ pc = "encode" /\ j < ColTiles /\ i = RowTiles
      /\ kernel \in Kernels /\ buf \in Seq(BlockWords) /\ j \in 0 .. ColTiles - 1
      /\ Len(buf) = Address(kernel, j, RowTiles)
      /\ Blocks(kernel, buf, j) /\ Block(kernel, buf, j, RowTiles)
      /\ offset_to_next_block = B /\ values = 0 /\ calls = << >>
  BY KernelFacts DEF InterleavedInv, InterleavedEncoding, Interleaved!EncodeBlock
<1>2. /\ IF j + 1 < ColTiles
           THEN /\ buf' = closed \o Interleaved!BlockHeader
                /\ offset_to_next_block' = Len(buf) /\ metadata' = Len(buf) + 1 /\ counter32' = 0
           ELSE buf' = closed
      /\ j' = j + 1 /\ i' = 0
      /\ UNCHANGED <<kernel, pc, values, calls>>
  BY <1>1 DEF Interleaved!EncodeBlock
<1>3. /\ j \in Nat /\ j + 1 \in 0 .. ColTiles /\ RowTiles \in 0 .. RowTiles /\ ColTiles \in Nat
      /\ 0 \in 0 .. RowTiles /\ WORD_BITS \in Nat /\ 0 \in 0 .. WORD_BITS - 1
      /\ 0 * WORD_BITS + 0 = 0
  BY <1>1, KernelFacts, Multiples
<1>4. Len(buf) = Base(kernel, j + 1) /\ Base(kernel, j + 1) \in Nat
  BY <1>1, <1>3, AddressFacts
<1>5. closed \in Seq(BlockWords) /\ Len(closed) = Len(buf) /\ Blocks(kernel, closed, j + 1)
  BY <1>1, <1>4, BlockClose
<1> HIDE DEF closed
<1>6. /\ buf' \in Seq(BlockWords)
      /\ Len(buf') = IF j + 1 = ColTiles THEN Base(kernel, j + 1) ELSE Address(kernel, j + 1, 0)
      /\ Blocks(kernel, buf', j + 1)
      /\ j + 1 < ColTiles => Block(kernel, buf', j + 1, 0)
  <2>1. CASE j + 1 < ColTiles
    <3> DEFINE b2 == closed \o Interleaved!BlockHeader
    <3>1. j + 1 \in 0 .. ColTiles - 1 /\ j + 1 # ColTiles
      BY <1>3, <2>1
    <3>2. /\ b2 \in Seq(BlockWords) /\ Len(b2) = Address(kernel, j + 1, 0)
          /\ Blocks(kernel, b2, j + 1) /\ Block(kernel, b2, j + 1, 0)
      BY <1>4, <1>5, <3>1, BlockOpen
    <3>3. buf' = b2
      BY <1>2, <2>1
    <3> HIDE DEF b2
    <3> QED
      BY <3>1, <3>2, <3>3
  <2>2. CASE ~ (j + 1 < ColTiles)
    BY <1>2, <1>3, <1>4, <1>5, <2>2
  <2> QED
    BY <2>1, <2>2
<1>7. j + 1 < ColTiles =>
        /\ offset_to_next_block' = Base(kernel, j + 1)
        /\ metadata' - Base(kernel, j + 1) - 1 = 0 /\ metadata' \in Int /\ counter32' = 0
  BY <1>2, <1>4
<1>8. InterleavedEncoding'
  <2>1. /\ i' \in 0 .. RowTiles /\ j' \in 0 .. ColTiles /\ (j' = ColTiles => i' = 0)
        /\ Len(buf') = IF j' = ColTiles THEN Base(kernel', j') ELSE Address(kernel', j', i')
        /\ Blocks(kernel', buf', j') /\ values' = 0 /\ calls' = << >>
    BY <1>1, <1>2, <1>3, <1>6
  <2>2. j' < ColTiles =>
          /\ Block(kernel', buf', j', i')
          /\ offset_to_next_block' = Base(kernel', j')
          /\ metadata' - Base(kernel', j') - 1 \in Nat /\ counter32' \in 0 .. WORD_BITS - 1
          /\ metadata' \in Int
          /\ (metadata' - Base(kernel', j') - 1) * WORD_BITS + counter32' = i'
    <3> DEFINE k == metadata' - Base(kernel', j') - 1
    <3>1. j' < ColTiles => k = 0 /\ Block(kernel', buf', j', i')
                           /\ offset_to_next_block' = Base(kernel', j')
                           /\ counter32' = 0 /\ metadata' \in Int
      BY <1>2, <1>6, <1>7
    <3> HIDE DEF k
    <3>2. j' < ColTiles => k \in Nat /\ k * WORD_BITS + counter32' = i'
                           /\ counter32' \in 0 .. WORD_BITS - 1
      BY <1>2, <1>3, <3>1
    <3> QED
      BY <3>1, <3>2 DEF k
  <2> QED
    BY <2>1, <2>2, InterleavedPrimed DEF InterleavedEncoding
<1>9. InterleavedInv'
  BY <1>1, <1>2, <1>6, <1>8 DEF InterleavedInv, InterleavedDecoding
<1> QED
  BY <1>2, <1>9, NoCall

LEMMA InterleavedEncodeReturnStep ==
    ASSUME InterleavedInv, format = "INTERLEAVED", format' = format, Interleaved!EncodeReturn
    PROVE  InterleavedInv' /\ UNCHANGED TS!vars
<1>1. /\ pc = "encode" /\ j = ColTiles /\ pc' = "enter" /\ i' = 0
      /\ UNCHANGED <<kernel, buf, values, calls>>
  BY DEF Interleaved!EncodeReturn, Interleaved!encoderVars
<1>2. /\ kernel \in Kernels /\ buf \in Seq(BlockWords)
      /\ Len(buf) = Base(kernel, ColTiles) /\ Blocks(kernel, buf, ColTiles)
      /\ values = 0 /\ calls = << >>
  BY <1>1 DEF InterleavedInv, InterleavedEncoding
<1>3. 0 \in 0 .. ColTiles /\ 0 * RowTiles = 0 /\ Base(kernel, 0) = 0 /\ ~ (0 > 0)
  BY KernelFacts, Multiples, BaseMonotonic
<1>4. CallsBefore(calls, 0)
  BY <1>2, EmptySeq DEF CallsBefore
<1>5. InterleavedDecoding'
  BY <1>1, <1>2, <1>3, <1>4, InterleavedPrimed DEF InterleavedDecoding
<1>6. InterleavedInv'
  BY <1>1, <1>2, <1>5 DEF InterleavedInv, InterleavedEncoding
<1> QED
  BY <1>1, <1>6, NoCall

(* What the decoder reads at the address of a tile of a full block. *)
LEMMA ReadBlock ==
    ASSUME NEW m \in Kernels, NEW b \in Seq(BlockWords), NEW c \in 0 .. ColTiles - 1,
           NEW r \in 0 .. RowTiles - 1, Blocks(m, b, ColTiles), Len(b) = Base(m, ColTiles),
           ~ all_zeros(m, TileIndex(r, c))
    PROVE  ReadTile(b, Address(m, c, r)) = TileAt(m, TileIndex(r, c))
<1>1. /\ r \in Nat /\ r \in 0 .. RowTiles /\ r + 1 \in 0 .. RowTiles /\ r < RowTiles /\ r + 1 <= RowTiles
      /\ RowTiles \in 0 .. RowTiles /\ TileWords \in Nat /\ c + 1 \in Nat /\ c + 1 <= ColTiles
      /\ ColTiles \in Nat
  BY KernelFacts
<1>2. /\ Address(m, c, r) \in Nat /\ Address(m, c, r + 1) = Address(m, c, r) + TileWords
      /\ Address(m, c, RowTiles) = Base(m, c + 1)
  BY <1>1, AddressFacts
<1>3. Address(m, c, r + 1) <= Address(m, c, RowTiles)
  BY <1>1, AddressMonotonic
<1>4. Base(m, c + 1) <= Base(m, ColTiles) /\ Base(m, c + 1) \in Nat /\ Base(m, ColTiles) \in Nat
  BY <1>1, BaseMonotonic
<1>5. \A w \in 1 .. TileWords : Address(m, c, r) + w <= Len(b)
  BY <1>1, <1>2, <1>3, <1>4
<1>6. \A w \in 1 .. TileWords : b[Address(m, c, r) + w] = Word(m, TileIndex(r, c), w - 1)
  <2>1. Block(m, b, c, RowTiles)
    BY DEF Blocks
  <2> QED
    BY <2>1 DEF Block
<1> QED
  BY <1>5, <1>6 DEF ReadTile, TileAt

LEMMA InterleavedEnterStep ==
    ASSUME InterleavedInv, format = "INTERLEAVED", format' = format, WORD_BITS <= RowTiles,
           Interleaved!EnterBlock
    PROVE  InterleavedInv' /\ UNCHANGED TS!vars
<1> DEFINE B == Base(kernel, i)
<1>1. /\ pc = "enter" /\ i < ColTiles
      /\ next_block' = values + buf[values + 1] /\ metadata' = values + 1
      /\ values' = values + 1 + MetaWords /\ values_start' = values + 1 + MetaWords
      /\ counter32' = Interleaved!metadata_offset /\ row' = 0 /\ pc' = "decode"
      /\ UNCHANGED <<kernel, i, buf, calls>>
  BY InterleavedSame DEF Interleaved!EnterBlock, Interleaved!encoderVars
<1>2. /\ kernel \in Kernels /\ buf \in Seq(BlockWords)
      /\ Len(buf) = Base(kernel, ColTiles) /\ Blocks(kernel, buf, ColTiles)
      /\ i \in 0 .. ColTiles - 1 /\ values = B /\ CallsBefore(calls, i * RowTiles)
  <2>1. InterleavedDecoding /\ kernel \in Kernels /\ buf \in Seq(BlockWords)
    BY DEF InterleavedInv
  <2>2. i \in 0 .. ColTiles - 1
    BY <1>1, <2>1, KernelFacts DEF InterleavedDecoding
  <2> QED
    BY <1>1, <2>1, <2>2 DEF InterleavedDecoding
<1>3. /\ B \in Nat /\ Base(kernel, i + 1) \in Nat /\ Address(kernel, i, 0) = B + HeaderWords
      /\ 0 \in 0 .. RowTiles
  BY <1>2, KernelFacts, AddressFacts
<1>4. counter32' = 0
  BY <1>1, KernelFacts DEF Interleaved!metadata_offset
<1>5. next_block' = Base(kernel, i + 1)
  <2>1. buf[B + 1] = Base(kernel, i + 1) - B
    BY <1>2 DEF Blocks
  <2> QED
    BY <1>1, <1>2, <1>3, <2>1
<1>6. /\ values' = Address(kernel, i, 0) /\ values_start' = B + HeaderWords
      /\ metadata' \in Int /\ metadata' - B - 1 = 0
  BY <1>1, <1>2, <1>3, HeaderFacts
<1>7. /\ 0 * WORD_BITS + 0 = 0 /\ 0 \in 0 .. WORD_BITS
      /\ i * RowTiles + 0 = i * RowTiles /\ 0 \in Nat
  BY <1>2, KernelFacts, Multiples
<1>8. InterleavedDecoding'
  <2>1. /\ Len(buf') = Base(kernel', ColTiles) /\ Blocks(kernel', buf', ColTiles)
        /\ i' \in 0 .. ColTiles /\ pc' = "decode"
    BY <1>1, <1>2, KernelFacts
  <2>2. /\ i' < ColTiles /\ row' \in 0 .. RowTiles
        /\ next_block' = Base(kernel', i' + 1)
        /\ values_start' = Base(kernel', i') + HeaderWords
        /\ values' = Address(kernel', i', row')
        /\ CallsBefore(calls', i' * RowTiles + row')
    BY <1>1, <1>2, <1>3, <1>5, <1>6, <1>7
  <2>3. /\ metadata' - Base(kernel', i') - 1 \in Nat /\ counter32' \in 0 .. WORD_BITS
        /\ metadata' \in Int
        /\ (metadata' - Base(kernel', i') - 1) * WORD_BITS + counter32' = row'
    <3>1. metadata' - Base(kernel', i') - 1 = 0
      BY <1>1, <1>6
    <3> QED
      BY <1>1, <1>4, <1>6, <1>7, <3>1
  <2> QED
    BY <2>1, <2>2, <2>3, InterleavedPrimed DEF InterleavedDecoding
<1>9. InterleavedInv'
  BY <1>1, <1>2, <1>8 DEF InterleavedInv, InterleavedEncoding
<1> QED
  BY <1>1, <1>9, NoCall

(* In the middle of a block: there is a row left, and its bit is in the    *)
(* metadata of the block.                                                  *)
LEMMA InterleavedRow ==
    ASSUME InterleavedInv, format = "INTERLEAVED", pc = "decode", values < next_block
    PROVE  /\ row \in 0 .. RowTiles - 1 /\ i \in 0 .. ColTiles - 1
           /\ Interleaved!WordAndBit[1] < values_start
           /\ Interleaved!WordAndBit[1] \in Int /\ Interleaved!WordAndBit[2] \in 0 .. WORD_BITS - 1
           /\ Interleaved!WordAndBit[1] - Base(kernel, i) - 1 \in 0 .. MetaWords - 1
           /\ (Interleaved!WordAndBit[1] - Base(kernel, i) - 1) * WORD_BITS
                + Interleaved!WordAndBit[2] = row
<1> DEFINE B == Base(kernel, i)
           k0 == metadata - B - 1
           W == Interleaved!WordAndBit[1]
           x == Interleaved!WordAndBit[2]
           k == W - B - 1
<1>1. /\ i \in 0 .. ColTiles /\ i < ColTiles /\ row \in 0 .. RowTiles
      /\ next_block = Base(kernel, i + 1) /\ values_start = B + HeaderWords
      /\ values = Address(kernel, i, row)
      /\ k0 \in Nat /\ counter32 \in 0 .. WORD_BITS /\ metadata \in Int
      /\ k0 * WORD_BITS + counter32 = row
  BY DEF InterleavedInv, InterleavedDecoding
<1>2. i \in 0 .. ColTiles - 1 /\ RowTiles \in Nat /\ RowTiles \in 0 .. RowTiles
  BY <1>1, KernelFacts
<1>3. B \in Nat /\ Address(kernel, i, RowTiles) = Base(kernel, i + 1) /\ Base(kernel, i + 1) \in Nat
  BY <1>2, AddressFacts
<1>4. row \in 0 .. RowTiles - 1
  <2>1. row # RowTiles
    BY <1>1, <1>3
  <2> QED
    BY <1>1, <1>2, <2>1
<1>5. WORD_BITS \in Nat /\ WORD_BITS > 0 /\ k0 * WORD_BITS \in Nat
      /\ (k0 + 1) * WORD_BITS = k0 * WORD_BITS + WORD_BITS
  BY <1>1, KernelFacts, Multiples
<1>6. W \in Int /\ x \in 0 .. WORD_BITS - 1 /\ k \in Nat /\ k * WORD_BITS + x = row
  <2>1. CASE counter32 = WORD_BITS
    <3>1. W = metadata + 1 /\ x = 0
      BY <2>1 DEF Interleaved!WordAndBit
    <3> HIDE DEF W, x
    <3>2. k = k0 + 1
      BY <1>1, <1>3, <3>1
    <3> HIDE DEF k, k0
    <3>3. (k0 + 1) * WORD_BITS + 0 = row /\ k0 + 1 \in Nat
      BY <1>1, <1>5, <2>1
    <3> QED
      BY <1>1, <1>5, <3>1, <3>2, <3>3
  <2>2. CASE counter32 # WORD_BITS
    <3>1. W = metadata /\ x = counter32
      BY <2>2 DEF Interleaved!WordAndBit
    <3> HIDE DEF W, x
    <3>2. k = k0
      BY <3>1
    <3> HIDE DEF k, k0
    <3> QED
      BY <1>1, <1>5, <2>2, <3>1, <3>2
  <2> QED
    BY <2>1, <2>2
<1> HIDE DEF W, x
<1>7. k \in 0 .. MetaWords - 1
  <2> HIDE DEF k
  <2>1. x \in Nat /\ k * WORD_BITS + x < RowTiles
    BY <1>2, <1>4, <1>5, <1>6
  <2> QED
    BY <1>6, <2>1, MetaPlace
<1>8. W < values_start
  BY <1>1, <1>3, <1>6, <1>7, HeaderFacts
<1> QED
  BY <1>2, <1>4, <1>6, <1>7, <1>8 DEF W, x

LEMMA InterleavedDecodeTileStep ==
    ASSUME InterleavedInv, format = "INTERLEAVED", format' = format, Interleaved!DecodeTile
    PROVE  /\ InterleavedInv' /\ [TS!Next]_(TS!vars)
           /\ TileIndex(row, i) \in Due(format, kernel) =>
                calls' = Append(calls, <<row, i, ReadTile(buf, values)>>)
<1> DEFINE B == Base(kernel, i)
           W == Interleaved!WordAndBit[1]
           x == Interleaved!WordAndBit[2]
           k == W - B - 1
           n == TileIndex(row, i)
<1>1. /\ pc = "decode" /\ values < next_block
      /\ metadata' = W /\ counter32' = x + 1
      /\ IF x \in buf[W + 1]
           THEN /\ calls' = Append(calls, <<row, i, ReadTile(buf, values)>>)
                /\ values' = values + TileWords
           ELSE calls' = calls /\ values' = values
      /\ row' = row + 1
      /\ UNCHANGED <<kernel, pc, i, buf, next_block, values_start>>
  BY InterleavedSame DEF Interleaved!DecodeTile, Interleaved!encoderVars
<1>2. /\ kernel \in Kernels /\ buf \in Seq(BlockWords)
      /\ Len(buf) = Base(kernel, ColTiles) /\ Blocks(kernel, buf, ColTiles)
      /\ next_block = Base(kernel, i + 1) /\ values_start = B + HeaderWords
      /\ values = Address(kernel, i, row) /\ CallsBefore(calls, i * RowTiles + row)
  BY <1>1 DEF InterleavedInv, InterleavedDecoding
<1>3. /\ row \in 0 .. RowTiles - 1 /\ i \in 0 .. ColTiles - 1
      /\ W \in Int /\ x \in 0 .. WORD_BITS - 1 /\ k \in 0 .. MetaWords - 1
      /\ k * WORD_BITS + x = row
  BY <1>1, InterleavedRow
<1>4. /\ row \in Nat /\ row \in 0 .. RowTiles /\ row < RowTiles /\ row + 1 \in 0 .. RowTiles
      /\ RowTiles \in Nat /\ WORD_BITS \in Nat
      /\ ColTiles \in Nat /\ i \in 0 .. ColTiles /\ i < ColTiles
  BY <1>3, KernelFacts
<1>5. /\ B \in Nat /\ Address(kernel, i, row) \in Nat
      /\ Address(kernel, i, row + 1) = Address(kernel, i, row)
           + (IF all_zeros(kernel, n) THEN 0 ELSE TileWords)
  BY <1>3, <1>4, AddressFacts
<1>6. n \in AllTiles /\ n \in Nat /\ n = i * RowTiles + row
  BY <1>3, TileNumber
<1> HIDE DEF W, x, n
<1>7. x \in buf[W + 1] <=> ~ all_zeros(kernel, n)
  <2>1. Block(kernel, buf, i, RowTiles)
    BY <1>2, <1>3 DEF Blocks
  <2>2. B + k + 2 = W + 1
    BY <1>3, <1>5
  <2> HIDE DEF k
  <2>3. x \in buf[B + k + 2] <=> k * WORD_BITS + x < RowTiles
                                 /\ ~ all_zeros(kernel, TileIndex(k * WORD_BITS + x, i))
    BY <1>3, <2>1 DEF Block
  <2> QED
    BY <1>3, <1>4, <2>2, <2>3 DEF n
<1>8. values' = Address(kernel, i, row + 1)
  BY <1>1, <1>2, <1>5, <1>7, KernelFacts
<1>9. CallsBefore(calls', n + 1) /\ [TS!Next]_(TS!vars)
  <2>1. CASE all_zeros(kernel, n)
    <3>1. n <= n + 1 /\ n + 1 \in Nat /\ CallsBefore(calls, n) /\ calls' = calls
      BY <1>1, <1>2, <1>6, <1>7, <2>1
    <3>2. CallsBefore(calls, n + 1)
      BY <1>6, <3>1, CallsKept
    <3> QED
      BY <1>1, <3>1, <3>2, NoCall
  <2>2. CASE ~ all_zeros(kernel, n)
    <3>1. ReadTile(buf, values) = TileAt(kernel, n)
      BY <1>2, <1>3, <2>2, ReadBlock DEF n
    <3>2. /\ CallsBefore(calls, TileIndex(row, i))
          /\ TileIndex(row, i) \in Copied(format, kernel)
      BY <1>2, <1>6, <2>2 DEF n, Copied, TileSet
    <3>3. calls' = Append(calls, <<row, i, TileAt(kernel, TileIndex(row, i))>>)
      BY <1>1, <1>7, <2>2, <3>1 DEF n
    <3>4. /\ format \in {"NON_PRUNED", "DYNAMIC", "WITH_FLAG", "HIDDEN_KEY", "META_DATA",
                         "INTERLEAVED"}
          /\ format # "DYNAMIC" /\ kernel' = kernel
      BY <1>1
    <3>5. TS!Next /\ CallsBefore(calls', TileIndex(row, i) + 1)
      BY <1>2, <1>3, <3>2, <3>3, <3>4, CallAppended
    <3> QED
      BY <3>5 DEF n
  <2> QED
    BY <2>1, <2>2
<1>10. InterleavedDecoding'
  <2>1. /\ Len(buf') = Base(kernel', ColTiles) /\ Blocks(kernel', buf', ColTiles)
        /\ i' \in 0 .. ColTiles /\ pc' = "decode"
    BY <1>1, <1>2, <1>4
  <2>2. i * RowTiles + (row + 1) = n + 1
    BY <1>3, <1>4, <1>6, Multiples
  <2>3. /\ i' < ColTiles /\ row' \in 0 .. RowTiles
        /\ next_block' = Base(kernel', i' + 1)
        /\ values_start' = Base(kernel', i') + HeaderWords
        /\ values' = Address(kernel', i', row')
        /\ CallsBefore(calls', i' * RowTiles + row')
    BY <1>1, <1>2, <1>4, <1>8, <1>9, <2>2
  <2>4. /\ metadata' - Base(kernel', i') - 1 \in Nat /\ counter32' \in 0 .. WORD_BITS
        /\ metadata' \in Int
        /\ (metadata' - Base(kernel', i') - 1) * WORD_BITS + counter32' = row'
    <3>1. metadata' - Base(kernel', i') - 1 = k /\ metadata' \in Int /\ counter32' = x + 1
      BY <1>1, <1>3
    <3> HIDE DEF k
    <3>2. k \in Nat /\ k * WORD_BITS \in Nat
      BY <1>3, <1>4, HeaderFacts, Multiples
    <3>3. k * WORD_BITS + (x + 1) = row + 1 /\ x + 1 \in 0 .. WORD_BITS
      BY <1>3, <1>4, <3>2
    <3> QED
      BY <1>1, <3>1, <3>2, <3>3
  <2> QED
    BY <2>1, <2>3, <2>4, InterleavedPrimed DEF InterleavedDecoding
<1>11. InterleavedInv'
  BY <1>1, <1>2, <1>10 DEF InterleavedInv, InterleavedEncoding
<1>12. n \in Due(format, kernel) => calls' = Append(calls, <<row, i, ReadTile(buf, values)>>)
  BY <1>1, <1>7 DEF Due, TileSet
<1> QED
  BY <1>9, <1>11, <1>12 DEF n

LEMMA InterleavedDecodeBlockStep ==
    ASSUME InterleavedInv, format = "INTERLEAVED", format' = format, Interleaved!DecodeBlock
    PROVE  InterleavedInv' /\ UNCHANGED TS!vars
<1>1. /\ pc = "decode" /\ values >= next_block /\ pc' = "enter" /\ i' = i + 1
      /\ UNCHANGED <<kernel, buf, values, next_block, calls>>
  BY DEF Interleaved!DecodeBlock, Interleaved!encoderVars
<1>2. /\ kernel \in Kernels /\ buf \in Seq(BlockWords)
      /\ Len(buf) = Base(kernel, ColTiles) /\ Blocks(kernel, buf, ColTiles)
      /\ i \in 0 .. ColTiles /\ i < ColTiles /\ row \in 0 .. RowTiles
      /\ next_block = Base(kernel, i + 1)
      /\ values = Address(kernel, i, row) /\ CallsBefore(calls, i * RowTiles + row)
  BY <1>1 DEF InterleavedInv, InterleavedDecoding
<1>3. /\ i \in 0 .. ColTiles - 1 /\ RowTiles \in Nat /\ RowTiles \in 0 .. RowTiles /\ row <= RowTiles
      /\ i + 1 \in 0 .. ColTiles /\ row \in Nat /\ i \in Nat
  BY <1>2, KernelFacts
<1>4. /\ Address(kernel, i, RowTiles) = Base(kernel, i + 1) /\ Base(kernel, i + 1) \in Nat
      /\ Address(kernel, i, row) \in Nat
  BY <1>2, <1>3, AddressFacts
<1>5. Address(kernel, i, row) <= Address(kernel, i, RowTiles)
  BY <1>2, <1>3, AddressMonotonic
<1>6. values = Base(kernel, i + 1) /\ values = next_block
  BY <1>1, <1>2, <1>4, <1>5
<1>7. CallsBefore(calls, (i + 1) * RowTiles)
  <2>1. i * RowTiles \in Nat /\ (i + 1) * RowTiles = i * RowTiles + RowTiles
    BY <1>3, Multiples
  <2>2. /\ i * RowTiles + row \in Nat /\ (i + 1) * RowTiles \in Nat
        /\ i * RowTiles + row <= (i + 1) * RowTiles
    BY <1>3, <2>1
  <2> QED
    BY <1>2, <2>2, CallsKept
<1>8. InterleavedDecoding'
  BY <1>1, <1>2, <1>3, <1>6, <1>7, InterleavedPrimed DEF InterleavedDecoding
<1>9. InterleavedInv'
  BY <1>1, <1>2, <1>8 DEF InterleavedInv, InterleavedEncoding
<1> QED
  BY <1>1, <1>9, NoCall

LEMMA InterleavedStep ==
    ASSUME InterleavedInv, format = "INTERLEAVED", format' = format, WORD_BITS <= RowTiles,
           Interleaved!Next
    PROVE  InterleavedInv' /\ [TS!Next]_(TS!vars)
<1>1. CASE Interleaved!DecodeReturn \/ Interleaved!Finished
  <2>1. /\ pc \in {"enter", "done"} /\ pc' = "done" /\ i = ColTiles
        /\ UNCHANGED <<kernel, i, j, buf, values, next_block, calls>>
    BY <1>1 DEF Interleaved!DecodeReturn, Interleaved!Finished, Interleaved!vars,
                Interleaved!encoderVars, InterleavedInv, InterleavedDecoding
  <2>2. InterleavedInv'
    BY <2>1, InterleavedPrimed DEF InterleavedInv, InterleavedEncoding, InterleavedDecoding
  <2> QED
    BY <2>1, <2>2, NoCall
<1>2. ~ Interleaved!DecodeOverrun
  <2> SUFFICES ASSUME Interleaved!DecodeOverrun
               PROVE  FALSE
    OBVIOUS
  <2>1. /\ pc = "decode" /\ values < next_block /\ Interleaved!WordAndBit[1] >= values_start
    BY DEF Interleaved!DecodeOverrun
  <2>2. /\ Interleaved!WordAndBit[1] < values_start /\ Interleaved!WordAndBit[1] \in Int
        /\ i \in 0 .. ColTiles - 1
    BY <2>1, InterleavedRow
  <2>3. values_start \in Int
    <3>1. values_start = Base(kernel, i) + HeaderWords
      BY <2>1 DEF InterleavedInv, InterleavedDecoding
    <3>2. Base(kernel, i) \in Nat /\ HeaderWords \in Nat
      BY <2>2, BaseMonotonic, HeaderFacts
    <3> QED
      BY <3>1, <3>2
  <2> QED
    BY <2>1, <2>2, <2>3
<1> QED
  BY <1>1, <1>2, InterleavedEncodeTileStep, InterleavedEncodeBlockStep,
     InterleavedEncodeReturnStep, InterleavedEnterStep, InterleavedDecodeTileStep,
     InterleavedDecodeBlockStep DEF Interleaved!Next
-----------------------------------------------------------------------------
(* The formats together. *)

(* The inductive invariant.  A column of tiles that does not fill a word   *)
(* of metadata is misread by computeInterleavedMetaData, which is why the  *)
(* last part supposes that it does.                                        *)
SparseInv ==
    /\ kernel \in Kernels
    /\ CompressedInv /\ MetaInv /\ StreamInv
    /\ WORD_BITS <= RowTiles => InterleavedInv

LEMMA SparseInit ==
    ASSUME Init
    PROVE  SparseInv /\ TS!Init
<1>1. SparseInv /\ kernel \in Kernels /\ calls = << >>
  <2>1. CASE Compressed!Init
    <3>1. format \in {"CSR", "CSC"}
      BY <2>1 DEF Compressed!Init
    <3> QED
      BY <2>1, <3>1, CompressedInit DEF SparseInv, MetaInv, StreamInv, StreamFormats, InterleavedInv
  <2>2. CASE format = "META_DATA" /\ MetaData!Init
    BY <2>2, MetaInit DEF SparseInv, CompressedInv, CompressedFormats, StreamInv, StreamFormats,
                          InterleavedInv
  <2>3. CASE format = "INTERLEAVED" /\ Interleaved!Init
    BY <2>3, InterleavedInit DEF SparseInv, CompressedInv, CompressedFormats, MetaInv, StreamInv,
                                 StreamFormats
  <2>4. CASE Stream!Init
    <3>1. format \in {"NON_PRUNED", "DYNAMIC", "WITH_FLAG", "HIDDEN_KEY"}
      BY <2>4 DEF Stream!Init
    <3> QED
      BY <2>4, <3>1, StreamInit DEF SparseInv, CompressedInv, CompressedFormats, MetaInv,
                                    InterleavedInv
  <2> QED
    BY <2>1, <2>2, <2>3, <2>4 DEF Init
<1>2. /\ kept \in SUBSET ((0 .. RowTiles - 1) \X (0 .. ColTiles - 1))
      /\ NonZeroTiles(kernel) \subseteq kept
  BY DEF kept, NonZeroTiles
<1> QED
  BY <1>1, <1>2, KernelSame DEF TS!Init

(* Nothing of the invariant changes when nothing does. *)
LEMMA SparseStutter ==
    ASSUME SparseInv, UNCHANGED vars
    PROVE  SparseInv' /\ UNCHANGED TS!vars
<1>1. /\ UNCHANGED <<format, kernel, pc, i, j, calls, buf, values>>
      /\ UNCHANGED <<ptr, ind, pointers>>
      /\ UNCHANGED <<m1, m2, m2StartIndex, columnAllZeros, m1Ptr, m2Ptr>>
      /\ UNCHANGED <<offset_to_next_block, metadata, counter32, next_block, row, values_start>>
      /\ UNCHANGED <<flag, counter>>
  BY DEF vars, bufferVars, compressedVars, metaDataVars, interleavedVars, streamVars
<1>2. CompressedInv'
  BY <1>1, CompressedPrimed DEF SparseInv, CompressedInv, CompressedEncoding, CompressedDecoding
<1>3. MetaInv'
  BY <1>1, MetaPrimed DEF SparseInv, MetaInv, MetaEncoding, MetaDecoding
<1>4. StreamInv'
  BY <1>1, StreamPrimed DEF SparseInv, StreamInv, StreamEncoding, StreamDecoding
<1>5. InterleavedInv => InterleavedInv'
  BY <1>1, InterleavedPrimed DEF InterleavedInv, InterleavedEncoding, InterleavedDecoding
<1> QED
  BY <1>1, <1>2, <1>3, <1>4, <1>5, NoCall DEF SparseInv

LEMMA SparseStep ==
    ASSUME SparseInv, [Next]_vars
    PROVE  /\ SparseInv' /\ format' = format
           /\ WORD_BITS <= RowTiles \/ format # "INTERLEAVED" => [TS!Next]_(TS!vars)
<1>1. CASE computeCompressed
  <2>1. format \in CompressedFormats /\ Compressed!Next
    BY <1>1 DEF computeCompressed, CompressedFormats
  <2>2. CompressedInv' /\ [TS!Next]_(TS!vars) /\ format' = format
    BY <2>1, CompressedStep DEF SparseInv
  <2>3. kernel' \in Kernels
    BY <2>1, <2>2 DEF CompressedInv
  <2> QED
    BY <2>1, <2>2, <2>3 DEF SparseInv, CompressedFormats, MetaInv, StreamInv, StreamFormats,
                            InterleavedInv
<1>2. CASE computeMetaData
  <2>1. format = "META_DATA" /\ MetaData!Next /\ format' = format
    BY <1>2 DEF computeMetaData
  <2>2. MetaInv' /\ [TS!Next]_(TS!vars)
    BY <2>1, MetaStep DEF SparseInv
  <2>3. kernel' \in Kernels
    BY <2>1, <2>2 DEF MetaInv
  <2> QED
    BY <2>1, <2>2, <2>3 DEF SparseInv, CompressedInv, CompressedFormats, StreamInv, StreamFormats,
                            InterleavedInv
<1>3. CASE computeInterleavedMetaData
  <2>1. format = "INTERLEAVED" /\ Interleaved!Next /\ format' = format
    BY <1>3 DEF computeInterleavedMetaData
  <2>2. WORD_BITS <= RowTiles => InterleavedInv' /\ [TS!Next]_(TS!vars)
    BY <2>1, InterleavedStep DEF SparseInv
  <2>3. kernel' = kernel
    BY <2>1 DEF Interleaved!Next, Interleaved!EncodeTile, Interleaved!EncodeBlock,
       Interleaved!EncodeReturn, Interleaved!EnterBlock, Interleaved!DecodeTile,
       Interleaved!DecodeOverrun, Interleaved!DecodeBlock, Interleaved!DecodeReturn,
       Interleaved!Finished, Interleaved!vars
  <2> QED
    BY <2>1, <2>2, <2>3 DEF SparseInv, CompressedInv, CompressedFormats, StreamInv, StreamFormats,
                            MetaInv
<1>4. CASE computeStream
  <2>1. format \in StreamFormats /\ Stream!Next
    BY <1>4 DEF computeStream, StreamFormats
  <2>2. StreamInv' /\ [TS!Next]_(TS!vars)
    BY <2>1, StreamStep DEF SparseInv
  <2>3. format' = format
    BY <2>1 DEF Stream!Next, Stream!EncodeTile, Stream!EncodeReturn, Stream!DecodeTile,
       Stream!DecodeReturn, Stream!Finished, Stream!vars
  <2>4. kernel' \in Kernels
    BY <2>1, <2>2, <2>3 DEF StreamInv
  <2> QED
    BY <2>1, <2>2, <2>3, <2>4 DEF SparseInv, CompressedInv, CompressedFormats, StreamFormats,
                                  MetaInv, InterleavedInv
<1>5. CASE UNCHANGED vars
  BY <1>5, SparseStutter DEF vars
<1> QED
  BY <1>1, <1>2, <1>3, <1>4, <1>5 DEF Next

LEMMA SparseInvariant == Spec => []SparseInv
<1>1. Init => SparseInv
  BY SparseInit
<1>2. SparseInv /\ [Next]_vars => SparseInv'
  BY SparseStep
<1> QED
  BY <1>1, <1>2, PTL DEF Spec

(***************************************************************************)
(* CSR and CSC: whatever the matrix, the pointers of the lines that        *)
(* dense2csr and dense2csc make never decrease, end at the number of       *)
(* entries and delimit each line's own entries, as computeCSR and          *)
(* computeCSC take them.                                                   *)
(***************************************************************************)
THEOREM LinesCorrect == Spec => []LinesDelimited
<1>1. SparseInv => LinesDelimited
  <2> SUFFICES ASSUME SparseInv, format \in {"CSR", "CSC"}
               PROVE  Compressed!LinesDelimited
    BY DEF LinesDelimited
  <2>1. /\ Entries(format, kernel, ptr, ind, pointers) /\ CompressedDecoding
    BY DEF SparseInv, CompressedInv, CompressedFormats
  <2>2. \A n \in 1 .. Len(ptr) - 1 : ptr[n] <= ptr[n + 1]
    BY <2>1 DEF Entries
  <2>3. ASSUME pc = "decode"
        PROVE  /\ ptr[LinesOf(format) + 1] = Len(ind)
               /\ \A n \in 0 .. LinesOf(format) - 1, m \in 1 .. Len(ind) :
                     ptr[n + 1] < m /\ m <= ptr[n + 2] =>
                       pointers[m] = LineTile(format, n, ind[m])
    <3>1. Len(ptr) = LinesOf(format) + 1 /\ ptr[LinesOf(format) + 1] = Len(ind)
      BY <2>1, <2>3 DEF CompressedDecoding
    <3>2. 0 .. LinesOf(format) - 1 = 0 .. Len(ptr) - 2
      BY <3>1, LineBounds
    <3> QED
      BY <2>1, <3>1, <3>2 DEF Entries
  <2> QED
    BY <2>2, <2>3, CompressedSame DEF Compressed!LinesDelimited
<1> QED
  BY <1>1, SparseInvariant, PTL

(***************************************************************************)
(* META_DATA and the formats with one array: the decoder that returns has  *)
(* read exactly what the encoder wrote, the packed tiles and, for          *)
(* META_DATA, the flags of the columns and of their tiles.                 *)
(***************************************************************************)
THEOREM ConsumptionCorrect == Spec => []AllConsumed
<1>1. SparseInv => AllConsumed
  <2> SUFFICES ASSUME SparseInv, pc = "done"
               PROVE  /\ format = "META_DATA" =>
                            values = Len(buf) /\ m2Ptr = m2StartIndex /\ m1Ptr = ColTiles
                      /\ format \in {"NON_PRUNED", "DYNAMIC", "WITH_FLAG", "HIDDEN_KEY"} =>
                            values = Len(buf)
    BY DEF AllConsumed, MetaData!AllConsumed, Stream!AllConsumed
  <2>1. ASSUME format = "META_DATA"
        PROVE  values = Len(buf) /\ m2Ptr = m2StartIndex /\ m1Ptr = ColTiles
    <3>1. /\ i = ColTiles /\ (i \notin Used(kernel) => j = 0) /\ m1Ptr = i
          /\ Packed("META_DATA", kernel, buf, TileCount)
          /\ m2StartIndex = Count(Used(kernel), ColTiles) * RowTiles
          /\ m2Ptr = Count(Used(kernel), i) * RowTiles + j
          /\ values = Offset("META_DATA", kernel, i * RowTiles + j)
      BY <2>1 DEF SparseInv, MetaInv, MetaDecoding
    <3>2. j = 0
      BY <3>1, KernelFacts DEF Used
    <3>3. i * RowTiles + j = TileCount
      BY <3>1, <3>2, LoopBounds
    <3>4. Count(Used(kernel), ColTiles) * RowTiles + 0 = Count(Used(kernel), ColTiles) * RowTiles
      BY KernelFacts, CountFacts, Multiples
    <3> QED
      BY <3>1, <3>2, <3>3, <3>4 DEF Packed
  <2>2. ASSUME format \in {"NON_PRUNED", "DYNAMIC", "WITH_FLAG", "HIDDEN_KEY"}
        PROVE  values = Len(buf)
    <3>1. /\ i = ColTiles /\ j = 0 /\ Packed(format, kernel, buf, TileCount)
          /\ values = Offset(format, kernel, i * RowTiles + j)
      BY <2>2 DEF SparseInv, StreamInv, StreamDecoding, StreamFormats
    <3>2. i * RowTiles + j = TileCount
      BY <3>1, LoopBounds
    <3> QED
      BY <3>1, <3>2 DEF Packed
  <2> QED
    BY <2>1, <2>2
<1> QED
  BY <1>1, SparseInvariant, PTL

(***************************************************************************)
(* INTERLEAVED, when a column fills a metadata word: at the end of a block *)
(* computeInterleavedMetaData is at the header dense2interleavedMetaData   *)
(* wrote, at the end of the last one at the end of the array, and it never *)
(* takes a word of a tile for metadata.                                    *)
(***************************************************************************)
THEOREM BlocksCorrect ==
    ASSUME WORD_BITS <= RowTiles
    PROVE  Spec => []BlocksInStep
<1>1. SparseInv => BlocksInStep
  <2> SUFFICES ASSUME SparseInv, format = "INTERLEAVED"
               PROVE  Interleaved!BlocksInStep
    BY DEF BlocksInStep
  <2>1. /\ pc \in {"encode", "enter", "decode", "done"} /\ InterleavedDecoding
    BY DEF SparseInv, InterleavedInv
  <2> QED
    BY <2>1 DEF Interleaved!BlocksInStep, InterleavedDecoding
<1> QED
  BY <1>1, SparseInvariant, PTL

(***************************************************************************)
(* Whatever the format, encoding a matrix and decoding it makes only calls *)
(* of processMultiplication that the schedule allows: of a tile that is to *)
(* be multiplied, not before, at its own row and column and with its own   *)
(* weights.  INTERLEAVED needs a column to fill a metadata word.           *)
(***************************************************************************)
THEOREM ScheduleCorrect ==
    Spec /\ (WORD_BITS <= RowTiles \/ format # "INTERLEAVED") => TS!Spec
<1> DEFINE Fits == WORD_BITS <= RowTiles \/ format # "INTERLEAVED"
<1>1. Init => TS!Init
  BY SparseInit
<1>2. SparseInv /\ Fits /\ [Next]_vars => Fits' /\ [TS!Next]_(TS!vars)
  BY SparseStep
<1> QED
  BY <1>1, <1>2, SparseInvariant, PTL DEF Spec, TS!Spec
-----------------------------------------------------------------------------
(* INTERLEAVED, whatever the metadata says: the m-th call of a column      *)
(* reads the m-th of the tiles packed in its block.                        *)

(* The least-number principle. *)
LEMMA LeastNumber ==
    ASSUME NEW T \in SUBSET Nat, T # {}
    PROVE  \E x \in T : \A y \in T : x <= y
<1> DEFINE R == { p \in Nat \X Nat : p[1] < p[2] }
<1>1. IsWellFoundedOn(R, Nat)
  BY NatLessThanWellFounded DEF OpToRel
<1>2. \E x \in T : \A y \in T : ~ (<<y, x>> \in R)
  <2> HIDE DEF R
  <2> QED
    BY <1>1, WFMin
<1>3. PICK x \in T : \A y \in T : ~ (<<y, x>> \in R)
  BY <1>2
<1>4. \A y \in T : ~ (y < x)
  <2>1. \A y \in T : y < x => <<y, x>> \in R
    OBVIOUS
  <2> QED
    BY <1>3, <2>1
<1> QED
  BY <1>4

(* The tiles of the first r rows of column c that are not zero. *)
ColumnTiles(m, c, r) == { q \in 0 .. r - 1 : <<q, c>> \in NonZeroTiles(m) }

(* They are counted as the encoder counts them, tile after tile. *)
LEMMA ColumnCount ==
    ASSUME NEW m, NEW c \in 0 .. ColTiles - 1, NEW r \in 0 .. RowTiles
    PROVE  /\ IsFiniteSet(ColumnTiles(m, c, r))
           /\ Count(TileSet(m), c * RowTiles + r)
                = Count(TileSet(m), c * RowTiles) + Cardinality(ColumnTiles(m, c, r))
<1> DEFINE K(n) == Count(TileSet(m), c * RowTiles + n)
           A(n) == Cardinality(ColumnTiles(m, c, n))
           Right(n) == K(n) = K(0) + A(n)
           Wrong == { n \in Nat : n <= RowTiles /\ ~ Right(n) }
<1>1. c \in Nat /\ c * RowTiles \in Nat /\ c * RowTiles + 0 = c * RowTiles /\ RowTiles \in Nat
  BY KernelFacts, Multiples
<1>2. ASSUME NEW n \in Nat
      PROVE  /\ IsFiniteSet(ColumnTiles(m, c, n)) /\ A(n) \in Nat /\ K(n) \in Nat
             /\ n < RowTiles => K(n + 1) = IF <<n, c>> \in NonZeroTiles(m) THEN K(n) + 1 ELSE K(n)
             /\ A(n + 1) = IF <<n, c>> \in NonZeroTiles(m) THEN A(n) + 1 ELSE A(n)
  <2>1. IsFiniteSet(0 .. n - 1)
    BY FS_Interval
  <2>2. IsFiniteSet(ColumnTiles(m, c, n)) /\ A(n) \in Nat
    BY <2>1, FS_Subset, FS_CardinalityType DEF ColumnTiles
  <2>3. c * RowTiles + n \in Nat /\ (c * RowTiles + n) + 1 = c * RowTiles + (n + 1)
    BY <1>1
  <2>4. K(n) \in Nat /\ K(n + 1) = IF c * RowTiles + n \in TileSet(m) THEN K(n) + 1 ELSE K(n)
    BY <2>3, CountFacts
  <2>5. ASSUME n < RowTiles
        PROVE  c * RowTiles + n \in TileSet(m) <=> <<n, c>> \in NonZeroTiles(m)
    <3>1. n \in 0 .. RowTiles - 1
      BY <1>1, <2>5
    <3>2. TileIndex(n, c) = c * RowTiles + n /\ TileIndex(n, c) \in AllTiles
      BY <3>1, TileNumber
    <3> QED
      BY <3>1, <3>2 DEF TileSet, NonZeroTiles
  <2>6. CASE <<n, c>> \in NonZeroTiles(m)
    <3>1. ColumnTiles(m, c, n + 1) = ColumnTiles(m, c, n) \cup {n} /\ n \notin ColumnTiles(m, c, n)
      BY <2>6 DEF ColumnTiles
    <3> QED
      BY <2>2, <2>4, <2>5, <2>6, <3>1, FS_AddElement
  <2>7. CASE <<n, c>> \notin NonZeroTiles(m)
    <3>1. ColumnTiles(m, c, n + 1) = ColumnTiles(m, c, n)
      BY <2>7 DEF ColumnTiles
    <3> QED
      BY <2>2, <2>4, <2>5, <2>7, <3>1
  <2> QED
    BY <2>6, <2>7
<1>3. A(0) = 0
  <2>1. ColumnTiles(m, c, 0) = {}
    BY DEF ColumnTiles
  <2> QED
    BY <2>1, FS_EmptySet
<1> HIDE DEF K, A
<1>4. Right(0)
  <2>1. K(0) \in Nat
    BY <1>2
  <2> QED
    BY <1>3, <2>1
<1>5. ASSUME NEW n \in Nat, n < RowTiles, Right(n)
      PROVE  Right(n + 1)
  <2>1. K(0) \in Nat
    BY <1>2
  <2>2. /\ A(n) \in Nat /\ K(n) \in Nat
        /\ K(n + 1) = IF <<n, c>> \in NonZeroTiles(m) THEN K(n) + 1 ELSE K(n)
        /\ A(n + 1) = IF <<n, c>> \in NonZeroTiles(m) THEN A(n) + 1 ELSE A(n)
    BY <1>2, <1>5
  <2> QED
    BY <1>5, <2>1, <2>2
<1> HIDE DEF Right
<1>6. Wrong = {}
  <2> SUFFICES ASSUME Wrong # {}
               PROVE  FALSE
    OBVIOUS
  <2>1. PICK x \in Wrong : \A y \in Wrong : x <= y
    BY LeastNumber
  <2>2. x \in Nat /\ x # 0 /\ x <= RowTiles /\ ~ Right(x)
    BY <1>4
  <2>3. x - 1 \in Nat /\ x - 1 < RowTiles /\ x - 1 <= RowTiles /\ (x - 1) + 1 = x
    BY <1>1, <2>2
  <2>4. ~ Right(x - 1)
    BY <1>5, <2>2, <2>3
  <2>5. x - 1 \in Wrong
    BY <2>3, <2>4
  <2> QED
    BY <2>1, <2>2, <2>3, <2>5
<1>7. r \in Nat /\ r <= RowTiles
  BY <1>1
<1>8. Right(r)
  BY <1>6, <1>7
<1> QED
  BY <1>1, <1>2, <1>7, <1>8 DEF Right, K, A

(* Inside a block, after n of its packed tiles, there is another one: the  *)
(* tile of some row, with n tiles that are not zero above it.              *)
LEMMA PackedTile ==
    ASSUME NEW m, NEW c \in 0 .. ColTiles - 1, NEW n \in Nat,
           Address(m, c, 0) + n * TileWords < Base(m, c + 1)
    PROVE  \E r \in 0 .. RowTiles - 1 :
              /\ <<r, c>> \in NonZeroTiles(m) /\ ~ all_zeros(m, TileIndex(r, c))
              /\ Address(m, c, r) = Address(m, c, 0) + n * TileWords
              /\ Address(m, c, 0) + (n + 1) * TileWords <= Base(m, c + 1)
              /\ Cardinality({ q \in 0 .. r : <<q, c>> \in NonZeroTiles(m) }) = n + 1
<1> DEFINE A(r) == Cardinality(ColumnTiles(m, c, r))
           K0 == Count(TileSet(m), c * RowTiles)
           H == (c + 1) * HeaderWords
           Past == { r \in Nat : r <= RowTiles /\ A(r) > n }
<1>1. /\ c \in Nat /\ c * RowTiles \in Nat /\ RowTiles \in Nat /\ TileWords \in Nat /\ TileWords > 0
      /\ H \in Nat
  BY KernelFacts, HeaderFacts, Multiples
<1>2. K0 \in Nat
  BY <1>1, CountFacts
<1>3. ASSUME NEW r \in 0 .. RowTiles
      PROVE  A(r) \in Nat /\ Count(TileSet(m), c * RowTiles + r) = K0 + A(r)
  BY ColumnCount, FS_CardinalityType
<1>4. ASSUME NEW r \in 0 .. RowTiles
      PROVE  Address(m, c, r) = H + (K0 + A(r)) * TileWords
  BY <1>3 DEF Address
<1>5. ASSUME NEW r \in Nat
      PROVE  A(r + 1) = Cardinality({ q \in 0 .. r : <<q, c>> \in NonZeroTiles(m) })
  <2>1. ColumnTiles(m, c, r + 1) = { q \in 0 .. r : <<q, c>> \in NonZeroTiles(m) }
    BY DEF ColumnTiles
  <2> QED
    BY <2>1
<1>6. A(0) = 0
  <2>1. ColumnTiles(m, c, 0) = {}
    BY DEF ColumnTiles
  <2> QED
    BY <2>1, FS_EmptySet
<1>7. ASSUME NEW r \in 0 .. RowTiles - 1
      PROVE  /\ <<r, c>> \in NonZeroTiles(m) <=> ~ all_zeros(m, TileIndex(r, c))
             /\ A(r + 1) = IF <<r, c>> \in NonZeroTiles(m) THEN A(r) + 1 ELSE A(r)
  <2>1. r \in 0 .. RowTiles /\ r + 1 \in 0 .. RowTiles /\ r \in Nat
    BY <1>1
  <2>2. IsFiniteSet(ColumnTiles(m, c, r))
    BY <2>1, ColumnCount
  <2>3. CASE <<r, c>> \in NonZeroTiles(m)
    <3>1. ColumnTiles(m, c, r + 1) = ColumnTiles(m, c, r) \cup {r} /\ r \notin ColumnTiles(m, c, r)
      BY <2>1, <2>3 DEF ColumnTiles
    <3> QED
      BY <2>2, <2>3, <3>1, FS_AddElement DEF NonZeroTiles
  <2>4. CASE <<r, c>> \notin NonZeroTiles(m)
    <3>1. ColumnTiles(m, c, r + 1) = ColumnTiles(m, c, r)
      BY <2>1, <2>4 DEF ColumnTiles
    <3> QED
      BY <2>4, <3>1 DEF NonZeroTiles
  <2> QED
    BY <2>3, <2>4
<1>8. /\ Address(m, c, RowTiles) = Base(m, c + 1)
      /\ 0 \in 0 .. RowTiles /\ RowTiles \in 0 .. RowTiles
  BY <1>1, AddressFacts
<1> HIDE DEF A, K0, H
<1>9. ASSUME NEW a \in Nat
      PROVE  /\ a * TileWords \in Nat /\ (K0 + a) * TileWords = K0 * TileWords + a * TileWords
             /\ K0 * TileWords \in Nat
             /\ \A b \in Nat : a <= b => a * TileWords <= b * TileWords
  BY <1>1, <1>2, Multiples
<1>10. /\ Address(m, c, 0) = H + K0 * TileWords
       /\ \A r \in 0 .. RowTiles : Address(m, c, r) = Address(m, c, 0) + A(r) * TileWords
  <2>1. ASSUME NEW r \in 0 .. RowTiles
        PROVE  Address(m, c, r) = H + K0 * TileWords + A(r) * TileWords
    <3>1. A(r) \in Nat
      BY <1>3
    <3>2. (K0 + A(r)) * TileWords = K0 * TileWords + A(r) * TileWords
      BY <1>9, <3>1
    <3>3. /\ A(r) * TileWords \in Nat /\ K0 * TileWords \in Nat
      BY <1>9, <3>1
    <3> QED
      BY <1>1, <1>4, <3>2, <3>3
  <2>2. 0 * TileWords = 0 /\ K0 * TileWords \in Nat
    BY <1>1, <1>9, Multiples
  <2>3. Address(m, c, 0) = H + K0 * TileWords
    BY <1>1, <1>6, <1>8, <2>1, <2>2
  <2> QED
    BY <2>1, <2>3
<1>11. Address(m, c, 0) \in Nat
  BY <1>1, <1>9, <1>10
<1>12. A(RowTiles) > n
  <2>1. A(RowTiles) \in Nat /\ Base(m, c + 1) = Address(m, c, 0) + A(RowTiles) * TileWords
    BY <1>3, <1>8, <1>10
  <2>2. A(RowTiles) <= n => A(RowTiles) * TileWords <= n * TileWords
    BY <1>9, <2>1
  <2>3. A(RowTiles) * TileWords \in Nat /\ n * TileWords \in Nat
    BY <1>9, <2>1
  <2> QED
    BY <1>11, <2>1, <2>2, <2>3
<1>13. PICK x \in Past : \A y \in Past : x <= y
  <2>1. Past \in SUBSET Nat /\ RowTiles \in Past
    BY <1>1, <1>12
  <2> QED
    BY <2>1, LeastNumber
<1>14. x # 0 /\ x \in Nat /\ x <= RowTiles /\ A(x) > n
  BY <1>6
<1> DEFINE r == x - 1
<1>15. r \in 0 .. RowTiles - 1 /\ r \in 0 .. RowTiles /\ r \in Nat /\ r + 1 = x /\ r < x
  BY <1>1, <1>14
<1>16. A(r) <= n /\ A(r) \in Nat
  BY <1>3, <1>13, <1>15
<1>17. <<r, c>> \in NonZeroTiles(m) /\ A(r) = n /\ A(x) = n + 1
  <2>1. A(x) = IF <<r, c>> \in NonZeroTiles(m) THEN A(r) + 1 ELSE A(r)
    BY <1>7, <1>15
  <2> QED
    BY <1>14, <1>16, <2>1
<1>18. Address(m, c, r) = Address(m, c, 0) + n * TileWords
  BY <1>10, <1>15, <1>17
<1>19. Address(m, c, 0) + (n + 1) * TileWords <= Base(m, c + 1)
  <2>1. A(RowTiles) \in Nat /\ n + 1 \in Nat /\ n + 1 <= A(RowTiles)
    BY <1>3, <1>8, <1>12
  <2>2. (n + 1) * TileWords <= A(RowTiles) * TileWords
    BY <1>9, <2>1
  <2>3. (n + 1) * TileWords \in Nat /\ A(RowTiles) * TileWords \in Nat
    BY <1>9, <2>1
  <2>4. Base(m, c + 1) = Address(m, c, 0) + A(RowTiles) * TileWords
    BY <1>8, <1>10
  <2> QED
    BY <1>11, <2>2, <2>3, <2>4
<1>20. Cardinality({ q \in 0 .. r : <<q, c>> \in NonZeroTiles(m) }) = n + 1
  BY <1>5, <1>15, <1>17
<1>21. ~ all_zeros(m, TileIndex(r, c))
  BY <1>7, <1>15, <1>17
<1> QED
  BY <1>15, <1>17, <1>18, <1>19, <1>20, <1>21

(* The calls of column c among the first n. *)
ColumnCalls(cs, c, n) == { q \in 1 .. n : cs[q][2] = c }

(* The weights of the first n calls, as WeightsInOrder wants them. *)
InOrder(m, cs, n) ==
    \E r \in 0 .. RowTiles - 1 :
        /\ <<r, cs[n][2]>> \in NonZeroTiles(m)
        /\ Cardinality({ q \in 0 .. r : <<q, cs[n][2]>> \in NonZeroTiles(m) })
             = Cardinality(ColumnCalls(cs, cs[n][2], n))
        /\ cs[n][3] = TileAt(m, TileIndex(r, cs[n][2]))

(* A call with weights of the matrix, in a column up to c. *)
PlacedCalls(c) == Nat \X (0 .. c) \X [1 .. TileWords -> Int]

(* The pointer to the tiles of a block moves with the calls, and stays     *)
(* between the start of the tiles and the end of the block.                *)
PackedDecoding ==
    pc # "encode" =>
        /\ Len(buf) = Base(kernel, ColTiles) /\ Blocks(kernel, buf, ColTiles)
        /\ i \in 0 .. ColTiles
        /\ pc \in {"enter", "done"} =>
              values = Base(kernel, i) /\ calls \in Seq(PlacedCalls(i - 1))
        /\ pc \in {"decode", "overrun"} =>
              /\ i < ColTiles /\ row \in Nat
              /\ next_block = Base(kernel, i + 1)
              /\ values = Address(kernel, i, 0)
                            + Cardinality(ColumnCalls(calls, i, Len(calls))) * TileWords
              /\ values <= next_block
              /\ calls \in Seq(PlacedCalls(i))
        /\ \A n \in 1 .. Len(calls) : InOrder(kernel, calls, n)

PackedInv ==
    format = "INTERLEAVED" =>
        /\ kernel \in Kernels
        /\ pc \in {"encode", "enter", "decode", "overrun", "done"}
        /\ buf \in Seq(BlockWords)
        /\ InterleavedEncoding /\ PackedDecoding

LEMMA PackedPrimed ==
    /\ Blocks(kernel, buf, ColTiles)' <=> Blocks(kernel', buf', ColTiles)
    /\ Base(kernel, i)' = Base(kernel', i')
    /\ Base(kernel, i + 1)' = Base(kernel', i' + 1)
    /\ Base(kernel, ColTiles)' = Base(kernel', ColTiles)
    /\ Address(kernel, i, 0)' = Address(kernel', i', 0)
    /\ ColumnCalls(calls, i, Len(calls))' = ColumnCalls(calls', i', Len(calls'))
    /\ PlacedCalls(i - 1)' = PlacedCalls(i' - 1) /\ PlacedCalls(i)' = PlacedCalls(i')
    /\ (\A n \in 1 .. Len(calls) : InOrder(kernel, calls, n))'
         <=> \A n \in 1 .. Len(calls') : InOrder(kernel', calls', n)
  BY DEF Block, Blocks, Base, Address, Count, TileSet, AllTiles, ColumnCalls, PlacedCalls, InOrder

(* As long as the encoder runs, and when it returns, nothing is new. *)
LEMMA PackedEncode ==
    ASSUME PackedInv, format = "INTERLEAVED", format' = format,
           Interleaved!EncodeTile \/ Interleaved!EncodeBlock \/ Interleaved!EncodeReturn
    PROVE  PackedInv'
<1>1. pc = "encode" /\ pc' \in {"encode", "enter"} /\ calls' = calls
  BY DEF Interleaved!EncodeTile, Interleaved!EncodeBlock, Interleaved!EncodeReturn,
         PackedInv
<1>2. InterleavedInv
  BY <1>1 DEF PackedInv, InterleavedInv, InterleavedDecoding
<1>3. InterleavedInv'
  BY <1>2, InterleavedEncodeTileStep, InterleavedEncodeBlockStep, InterleavedEncodeReturnStep
<1>4. calls' = << >>
  BY <1>1 DEF PackedInv, InterleavedEncoding
<1>5. /\ calls' \in Seq(PlacedCalls(i' - 1)) /\ Len(calls') = 0
      /\ \A n \in 1 .. Len(calls') : InOrder(kernel', calls', n)
  BY <1>4, EmptySeq
<1>6. PackedDecoding'
  <2>1. CASE pc' = "enter"
    <3>1. /\ Len(buf') = Base(kernel', ColTiles) /\ Blocks(kernel', buf', ColTiles)
          /\ i' \in 0 .. ColTiles /\ values' = Base(kernel', i')
      BY <1>3, <2>1, InterleavedPrimed DEF InterleavedInv, InterleavedDecoding
    <3> QED
      BY <1>5, <2>1, <3>1, PackedPrimed DEF PackedDecoding
  <2> QED
    BY <1>1, <2>1 DEF PackedDecoding
<1> QED
  BY <1>1, <1>3, <1>6 DEF PackedInv, InterleavedInv

LEMMA PackedEnter ==
    ASSUME PackedInv, format = "INTERLEAVED", format' = format, Interleaved!EnterBlock
    PROVE  PackedInv'
<1> DEFINE B == Base(kernel, i)
           n == Cardinality(ColumnCalls(calls, i, Len(calls)))
<1>1. /\ pc = "enter" /\ i < ColTiles
      /\ next_block' = values + buf[values + 1]
      /\ values' = values + 1 + MetaWords
      /\ row' = 0 /\ pc' = "decode"
      /\ UNCHANGED <<kernel, i, buf, calls>>
  BY InterleavedSame DEF Interleaved!EnterBlock, Interleaved!encoderVars
<1>2. /\ kernel \in Kernels /\ buf \in Seq(BlockWords)
      /\ Len(buf) = Base(kernel, ColTiles) /\ Blocks(kernel, buf, ColTiles)
      /\ i \in 0 .. ColTiles /\ values = B /\ calls \in Seq(PlacedCalls(i - 1))
      /\ \A q \in 1 .. Len(calls) : InOrder(kernel, calls, q)
  BY <1>1 DEF PackedInv, PackedDecoding
<1>3. /\ i \in 0 .. ColTiles - 1 /\ i \in Nat /\ 0 \in 0 .. RowTiles /\ RowTiles \in 0 .. RowTiles
      /\ 0 <= RowTiles
  BY <1>1, <1>2, KernelFacts
<1>4. /\ B \in Nat /\ Base(kernel, i + 1) \in Nat /\ Address(kernel, i, 0) = B + HeaderWords
      /\ Address(kernel, i, RowTiles) = Base(kernel, i + 1)
      /\ Address(kernel, i, 0) <= Address(kernel, i, RowTiles)
  BY <1>3, AddressFacts, AddressMonotonic
<1>5. next_block' = Base(kernel, i + 1)
  <2>1. buf[B + 1] = Base(kernel, i + 1) - B
    BY <1>2, <1>3 DEF Blocks
  <2> QED
    BY <1>1, <1>2, <1>4, <2>1
<1>6. ColumnCalls(calls, i, Len(calls)) = {}
  <2>1. ASSUME NEW q \in 1 .. Len(calls)
        PROVE  calls[q][2] # i
    <3>1. calls[q] \in PlacedCalls(i - 1)
      BY <1>2, ElementOfSeq
    <3>2. calls[q][2] \in 0 .. i - 1
      BY <3>1 DEF PlacedCalls
    <3> QED
      BY <1>3, <3>2
  <2> QED
    BY <2>1 DEF ColumnCalls
<1>7. n = 0 /\ 0 * TileWords = 0
  BY <1>6, FS_EmptySet, KernelFacts, Multiples
<1>8. values' = Address(kernel, i, 0) + n * TileWords /\ values' <= next_block'
  <2>1. values' = Address(kernel, i, 0)
    BY <1>1, <1>2, <1>4, HeaderFacts
  <2> QED
    BY <1>4, <1>5, <1>7, <2>1, HeaderFacts
<1>9. calls \in Seq(PlacedCalls(i))
  <2>1. PlacedCalls(i - 1) \subseteq PlacedCalls(i)
    BY <1>3 DEF PlacedCalls
  <2> QED
    BY <1>2, <2>1, SeqMonotonic
<1>10. PackedDecoding'
  <2>1. /\ Len(buf') = Base(kernel', ColTiles) /\ Blocks(kernel', buf', ColTiles)
        /\ i' \in 0 .. ColTiles /\ pc' = "decode" /\ i' < ColTiles /\ row' \in Nat
        /\ next_block' = Base(kernel', i' + 1)
        /\ values' = Address(kernel', i', 0)
                       + Cardinality(ColumnCalls(calls', i', Len(calls'))) * TileWords
        /\ values' <= next_block' /\ calls' \in Seq(PlacedCalls(i'))
        /\ \A q \in 1 .. Len(calls') : InOrder(kernel', calls', q)
    BY <1>1, <1>2, <1>5, <1>8, <1>9
  <2> QED
    BY <2>1, PackedPrimed DEF PackedDecoding
<1> QED
  BY <1>1, <1>2, <1>10 DEF PackedInv, InterleavedEncoding

(* The call that DecodeTile makes takes the next packed tile. *)
LEMMA PackedCall ==
    ASSUME PackedInv, format = "INTERLEAVED", pc = "decode", values < next_block,
           calls' = Append(calls, <<row, i, ReadTile(buf, values)>>),
           UNCHANGED <<kernel, i>>
    PROVE  /\ calls' \in Seq(PlacedCalls(i))
           /\ values + TileWords = Address(kernel, i, 0)
                + Cardinality(ColumnCalls(calls', i, Len(calls'))) * TileWords
           /\ values + TileWords <= next_block
           /\ \A n \in 1 .. Len(calls') : InOrder(kernel, calls', n)
<1> DEFINE L == Len(calls)
           n == Cardinality(ColumnCalls(calls, i, L))
           e == <<row, i, ReadTile(buf, values)>>
<1>1. /\ kernel \in Kernels /\ buf \in Seq(BlockWords)
      /\ Len(buf) = Base(kernel, ColTiles) /\ Blocks(kernel, buf, ColTiles)
      /\ i \in 0 .. ColTiles /\ i < ColTiles /\ row \in Nat /\ next_block = Base(kernel, i + 1)
      /\ values = Address(kernel, i, 0) + n * TileWords
      /\ calls \in Seq(PlacedCalls(i))
      /\ \A q \in 1 .. L : InOrder(kernel, calls, q)
  BY DEF PackedInv, PackedDecoding
<1>2. i \in 0 .. ColTiles - 1 /\ i \in 0 .. i /\ TileWords \in Nat
  BY <1>1, KernelFacts
<1>3. L \in Nat
  BY <1>1, LenProperties
<1>4. IsFiniteSet(ColumnCalls(calls, i, L)) /\ n \in Nat
  <2>1. IsFiniteSet(1 .. L)
    BY <1>3, FS_Interval
  <2> QED
    BY <2>1, FS_Subset, FS_CardinalityType DEF ColumnCalls
<1> HIDE DEF n
<1>5. PICK r \in 0 .. RowTiles - 1 :
        /\ <<r, i>> \in NonZeroTiles(kernel) /\ ~ all_zeros(kernel, TileIndex(r, i))
        /\ Address(kernel, i, r) = Address(kernel, i, 0) + n * TileWords
        /\ Address(kernel, i, 0) + (n + 1) * TileWords <= Base(kernel, i + 1)
        /\ Cardinality({ q \in 0 .. r : <<q, i>> \in NonZeroTiles(kernel) }) = n + 1
  BY <1>1, <1>2, <1>4, PackedTile
<1>6. ReadTile(buf, values) = TileAt(kernel, TileIndex(r, i))
  BY <1>1, <1>2, <1>5, ReadBlock
<1>7. e \in PlacedCalls(i)
  <2>1. TileIndex(r, i) \in AllTiles
    BY <1>2, TileNumber
  <2>2. TileAt(kernel, TileIndex(r, i)) \in [1 .. TileWords -> Int]
    BY <1>1, <2>1, TileAtFacts
  <2> QED
    BY <1>1, <1>2, <1>6, <2>2 DEF PlacedCalls
<1> HIDE DEF e
<1>8. /\ calls' \in Seq(PlacedCalls(i)) /\ Len(calls') = L + 1
      /\ calls'[L + 1] = e /\ \A q \in 1 .. L : calls'[q] = calls[q]
  <2> DEFINE cs == Append(calls, e)
  <2>1. /\ cs \in Seq(PlacedCalls(i)) /\ Len(cs) = Len(calls) + 1
        /\ cs[Len(calls) + 1] = e /\ \A q \in 1 .. Len(calls) : cs[q] = calls[q]
    BY <1>1, <1>7, AppendProperties
  <2>2. calls' = cs
    BY DEF e
  <2> HIDE DEF cs
  <2> QED
    BY <2>1, <2>2
<1>9. \A c : \A q \in 1 .. L : ColumnCalls(calls', c, q) = ColumnCalls(calls, c, q)
  <2> SUFFICES ASSUME NEW c, NEW q \in 1 .. L
               PROVE  ColumnCalls(calls', c, q) = ColumnCalls(calls, c, q)
    OBVIOUS
  <2>1. \A p \in 1 .. q : calls'[p] = calls[p]
    BY <1>3, <1>8
  <2> QED
    BY <2>1 DEF ColumnCalls
<1>10. Cardinality(ColumnCalls(calls', i, L + 1)) = n + 1
  <2>1. e[2] = i
    BY DEF e
  <2>2. L + 1 \notin ColumnCalls(calls, i, L)
    BY <1>3 DEF ColumnCalls
  <2>3. ColumnCalls(calls', i, L + 1) = ColumnCalls(calls, i, L) \cup {L + 1}
    <3>1. \A q \in 1 .. L + 1 : q = L + 1 \/ q \in 1 .. L
      BY <1>3
    <3>2. \A q \in 1 .. L : q \in 1 .. L + 1
      BY <1>3
    <3>3. L + 1 \in 1 .. L + 1
      BY <1>3
    <3> QED
      BY <1>8, <2>1, <3>1, <3>2, <3>3 DEF ColumnCalls
  <2> QED
    BY <1>4, <2>2, <2>3, FS_AddElement DEF n
<1>11. ASSUME NEW q \in 1 .. Len(calls')
       PROVE  InOrder(kernel, calls', q)
  <2>1. CASE q = L + 1
    <3>1. calls'[q][2] = i /\ calls'[q][3] = TileAt(kernel, TileIndex(r, i))
      BY <1>6, <1>8, <2>1 DEF e
    <3> QED
      BY <1>5, <1>10, <2>1, <3>1 DEF InOrder
  <2>2. CASE q # L + 1
    <3>1. q \in 1 .. L
      BY <1>3, <1>8, <2>2
    <3>2. InOrder(kernel, calls, q) /\ calls'[q] = calls[q]
      BY <1>1, <1>8, <3>1
    <3>3. ColumnCalls(calls', calls[q][2], q) = ColumnCalls(calls, calls[q][2], q)
      BY <1>9, <3>1
    <3> QED
      BY <3>2, <3>3 DEF InOrder
  <2> QED
    BY <2>1, <2>2
<1>12. /\ (n + 1) * TileWords = n * TileWords + TileWords /\ n * TileWords \in Nat
       /\ Address(kernel, i, 0) \in Nat
  BY <1>2, <1>4, KernelFacts, Multiples, AddressFacts
<1>13. values + TileWords = Address(kernel, i, 0) + (n + 1) * TileWords
  BY <1>1, <1>2, <1>12
<1> QED
  BY <1>1, <1>5, <1>8, <1>10, <1>11, <1>13

LEMMA PackedDecodeTile ==
    ASSUME PackedInv, format = "INTERLEAVED", format' = format, Interleaved!DecodeTile
    PROVE  PackedInv'
<1>1. /\ pc = "decode" /\ values < next_block /\ row' = row + 1
      /\ \/ /\ calls' = Append(calls, <<row, i, ReadTile(buf, values)>>)
            /\ values' = values + TileWords
         \/ calls' = calls /\ values' = values
      /\ UNCHANGED <<kernel, pc, i, buf, next_block>>
  BY InterleavedSame DEF Interleaved!DecodeTile, Interleaved!encoderVars
<1>2. /\ kernel \in Kernels /\ buf \in Seq(BlockWords)
      /\ Len(buf) = Base(kernel, ColTiles) /\ Blocks(kernel, buf, ColTiles)
      /\ i \in 0 .. ColTiles /\ i < ColTiles /\ row \in Nat
      /\ next_block = Base(kernel, i + 1)
  BY <1>1 DEF PackedInv, PackedDecoding
<1>3. /\ calls' \in Seq(PlacedCalls(i))
      /\ values' = Address(kernel, i, 0)
           + Cardinality(ColumnCalls(calls', i, Len(calls'))) * TileWords
      /\ values' <= next_block
      /\ \A n \in 1 .. Len(calls') : InOrder(kernel, calls', n)
  <2>1. CASE calls' = calls /\ values' = values
    BY <1>1, <2>1 DEF PackedInv, PackedDecoding
  <2>2. CASE /\ calls' = Append(calls, <<row, i, ReadTile(buf, values)>>)
             /\ values' = values + TileWords
    BY <1>1, <2>2, PackedCall
  <2> QED
    BY <1>1, <2>1, <2>2
<1>4. PackedDecoding'
  <2>1. row' \in Nat /\ pc' = "decode"
    BY <1>1, <1>2
  <2> QED
    BY <1>1, <1>2, <1>3, <2>1, PackedPrimed DEF PackedDecoding
<1> QED
  BY <1>1, <1>2, <1>4 DEF PackedInv, InterleavedEncoding

LEMMA PackedDecodeBlock ==
    ASSUME PackedInv, format = "INTERLEAVED", format' = format, Interleaved!DecodeBlock
    PROVE  PackedInv'
<1>1. /\ pc = "decode" /\ values >= next_block /\ pc' = "enter" /\ i' = i + 1
      /\ UNCHANGED <<kernel, buf, values, next_block, calls>>
  BY DEF Interleaved!DecodeBlock, Interleaved!encoderVars
<1>2. /\ kernel \in Kernels /\ buf \in Seq(BlockWords)
      /\ Len(buf) = Base(kernel, ColTiles) /\ Blocks(kernel, buf, ColTiles)
      /\ i \in 0 .. ColTiles /\ i < ColTiles /\ next_block = Base(kernel, i + 1)
      /\ values = Address(kernel, i, 0)
           + Cardinality(ColumnCalls(calls, i, Len(calls))) * TileWords
      /\ values <= next_block /\ calls \in Seq(PlacedCalls(i))
      /\ \A n \in 1 .. Len(calls) : InOrder(kernel, calls, n)
  BY <1>1 DEF PackedInv, PackedDecoding
<1>3. i + 1 \in 0 .. ColTiles /\ i + 1 - 1 = i /\ i \in 0 .. ColTiles - 1
  BY <1>2, KernelFacts
<1>4. values \in Int /\ next_block \in Int
  <2> DEFINE n == Cardinality(ColumnCalls(calls, i, Len(calls)))
  <2>1. Len(calls) \in Nat
    BY <1>2, LenProperties
  <2>2. IsFiniteSet(1 .. Len(calls))
    BY <2>1, FS_Interval
  <2>3. n \in Nat
    BY <2>2, FS_Subset, FS_CardinalityType DEF ColumnCalls
  <2> HIDE DEF n
  <2>4. n * TileWords \in Nat
    BY <2>3, KernelFacts, Multiples
  <2>5. 0 \in 0 .. RowTiles
    BY KernelFacts
  <2>6. Address(kernel, i, 0) \in Nat /\ Base(kernel, i + 1) \in Nat
    BY <1>3, <2>5, AddressFacts
  <2> QED
    BY <1>2, <2>4, <2>6 DEF n
<1>5. values = Base(kernel, i + 1)
  BY <1>1, <1>2, <1>4
<1>6. PackedDecoding'
  BY <1>1, <1>2, <1>3, <1>5, PackedPrimed DEF PackedDecoding
<1> QED
  BY <1>1, <1>2, <1>6 DEF PackedInv, InterleavedEncoding

LEMMA PackedNext ==
    ASSUME PackedInv, format = "INTERLEAVED", format' = format, Interleaved!Next
    PROVE  PackedInv'
<1>1. CASE Interleaved!DecodeOverrun
  <2>1. /\ pc = "decode" /\ pc' = "overrun"
        /\ UNCHANGED <<kernel, i, buf, values, next_block, row, calls>>
    BY <1>1 DEF Interleaved!DecodeOverrun, Interleaved!encoderVars
  <2>2. PackedDecoding'
    BY <2>1, PackedPrimed DEF PackedInv, PackedDecoding
  <2> QED
    BY <2>1, <2>2 DEF PackedInv, InterleavedEncoding
<1>2. CASE Interleaved!DecodeReturn
  <2>1. /\ pc = "enter" /\ pc' = "done"
        /\ UNCHANGED <<kernel, i, buf, values, next_block, row, calls>>
    BY <1>2 DEF Interleaved!DecodeReturn, Interleaved!encoderVars
  <2>2. PackedDecoding'
    BY <2>1, PackedPrimed DEF PackedInv, PackedDecoding
  <2> QED
    BY <2>1, <2>2 DEF PackedInv, InterleavedEncoding
<1>3. CASE Interleaved!Finished
  <2>1. /\ pc \in {"done", "overrun"} /\ pc' = pc
        /\ UNCHANGED <<kernel, i, buf, values, next_block, row, calls>>
    BY <1>3 DEF Interleaved!Finished, Interleaved!vars, Interleaved!encoderVars
  <2>2. PackedDecoding'
    BY <2>1, PackedPrimed DEF PackedInv, PackedDecoding
  <2> QED
    BY <2>1, <2>2 DEF PackedInv, InterleavedEncoding
<1> QED
  BY <1>1, <1>2, <1>3, PackedEncode, PackedEnter, PackedDecodeTile, PackedDecodeBlock
     DEF Interleaved!Next

LEMMA PackedInvariant == Spec => []PackedInv
<1>1. Init => PackedInv
  <2> SUFFICES ASSUME Init, format = "INTERLEAVED"
               PROVE  PackedInv
    BY DEF PackedInv
  <2>1. Interleaved!Init
    BY DEF Init, Compressed!Init, Stream!Init
  <2>2. InterleavedInv /\ pc = "encode"
    BY <2>1, InterleavedInit DEF Interleaved!Init
  <2> QED
    BY <2>2 DEF InterleavedInv, PackedInv, PackedDecoding
<1>2. SparseInv /\ PackedInv /\ [Next]_vars => PackedInv'
  <2> SUFFICES ASSUME SparseInv, PackedInv, [Next]_vars
               PROVE  PackedInv'
    OBVIOUS
  <2>1. format' = format
    BY SparseStep
  <2>2. CASE format # "INTERLEAVED"
    BY <2>1, <2>2 DEF PackedInv
  <2> SUFFICES ASSUME format = "INTERLEAVED"
               PROVE  PackedInv'
    BY <2>2
  <2>3. CASE computeInterleavedMetaData
    <3>1. Interleaved!Next
      BY <2>3 DEF computeInterleavedMetaData
    <3> QED
      BY <2>1, <3>1, PackedNext
  <2>4. CASE UNCHANGED vars
    <3>1. UNCHANGED <<kernel, pc, i, j, buf, offset_to_next_block, metadata, counter32, values,
                      next_block, row, calls>>
      BY <2>4 DEF vars, bufferVars, interleavedVars
    <3>2. InterleavedEncoding'
      BY <3>1, InterleavedPrimed DEF PackedInv, InterleavedEncoding
    <3>3. PackedDecoding'
      BY <3>1, PackedPrimed DEF PackedInv, PackedDecoding
    <3> QED
      BY <2>1, <3>1, <3>2, <3>3 DEF PackedInv
  <2> QED
    BY <2>3, <2>4 DEF Next, computeCompressed, computeMetaData, computeStream
<1> QED
  BY <1>1, <1>2, SparseInvariant, PTL DEF Spec

(***************************************************************************)
(* INTERLEAVED, for every number of rows and every width of the metadata,  *)
(* the matrices included whose bits computeInterleavedMetaData misreads:   *)
(* the calls of a column take the weights of its tiles that are not zero   *)
(* in their order, a tile for a call.  What a misread bit changes is the   *)
(* row, never the weights.                                                 *)
(***************************************************************************)
THEOREM WeightsCorrect == Spec => []WeightsInOrder
<1>1. PackedInv => WeightsInOrder
  <2> SUFFICES ASSUME PackedInv, format = "INTERLEAVED", NEW n \in 1 .. Len(calls)
               PROVE  \E r \in 0 .. RowTiles - 1 :
                        /\ <<r, calls[n][2]>> \in NonZeroTiles(kernel)
                        /\ Cardinality({ q \in 0 .. r : <<q, calls[n][2]>> \in NonZeroTiles(kernel) })
                             = Cardinality({ q \in 1 .. n : calls[q][2] = calls[n][2] })
                        /\ calls[n][3] = TileAt(kernel, TileIndex(r, calls[n][2]))
    <3>1. Interleaved!kept = NonZeroTiles(kernel)
      BY InterleavedSame DEF Interleaved!kept, Interleaved!NonZeroTiles, NonZeroTiles
    <3>2. \A S : Interleaved!Cardinality(S) = Cardinality(S)
      BY DEF Interleaved!Cardinality, Cardinality
    <3>3. Interleaved!WeightsInOrder <=>
            \A n \in 1 .. Len(calls) :
              \E r \in 0 .. RowTiles - 1 :
                /\ <<r, calls[n][2]>> \in Interleaved!kept
                /\ Cardinality({ q \in 0 .. r : <<q, calls[n][2]>> \in Interleaved!kept })
                     = Cardinality({ q \in 1 .. n : calls[q][2] = calls[n][2] })
                /\ calls[n][3] = TileAt(kernel, TileIndex(r, calls[n][2]))
      BY <3>2, InterleavedSame DEF Interleaved!WeightsInOrder
    <3> QED
      BY <3>1, <3>3 DEF WeightsInOrder
  <2>1. CASE pc = "encode"
    <3>1. calls = << >>
      BY <2>1 DEF PackedInv, InterleavedEncoding
    <3> QED
      BY <3>1
  <2>2. CASE pc # "encode"
    <3>1. InOrder(kernel, calls, n)
      BY <2>2 DEF PackedInv, PackedDecoding
    <3> QED
      BY <3>1 DEF InOrder, ColumnCalls
  <2> QED
    BY <2>1, <2>2
<1> QED
  BY <1>1, PackedInvariant, PTL

-----------------------------------------------------------------------------
(* No tile is forgotten. *)

(* Every tile before number n that must be multiplied has been. *)
NoneMissing(f, m, cs, n) ==
    \A t \in Due(f, m) :
        t < n => \E q \in 1 .. Len(cs) : TileIndex(cs[q][1], cs[q][2]) = t

(* Every tile before place x of line n that is not zero has an entry. *)
Recorded(f, m, v, n, x) ==
    \A a \in 0 .. LinesOf(f) - 1, y \in 0 .. LengthOf(f) - 1 :
        (a < n \/ (a = n /\ y < x)) /\ LineTile(f, a, y) \in TileSet(m) =>
            \E q \in 1 .. Len(v) : v[q] = LineTile(f, a, y)

InOrderComplete ==
    format \in StreamFormats \cup {"META_DATA"} /\ pc \in {"decode", "done"} =>
        NoneMissing(format, kernel, calls, i * RowTiles + j)

BlocksComplete ==
    format = "INTERLEAVED" /\ WORD_BITS <= RowTiles =>
        /\ pc \in {"enter", "done"} => NoneMissing(format, kernel, calls, i * RowTiles)
        /\ pc = "decode" => NoneMissing(format, kernel, calls, i * RowTiles + row)

LinesComplete ==
    format \in CompressedFormats =>
        /\ pc = "encode" => Recorded(format, kernel, pointers, i, j)
        /\ pc \in {"decode", "done"} => Recorded(format, kernel, pointers, LinesOf(format), 0)
        /\ pc = "done" => i = LinesOf(format)

LEMMA CompletePrimed ==
    /\ NoneMissing(format, kernel, calls, i * RowTiles + j)'
         <=> NoneMissing(format', kernel', calls', i' * RowTiles + j')
    /\ NoneMissing(format, kernel, calls, i * RowTiles)'
         <=> NoneMissing(format', kernel', calls', i' * RowTiles)
    /\ NoneMissing(format, kernel, calls, i * RowTiles + row)'
         <=> NoneMissing(format', kernel', calls', i' * RowTiles + row')
    /\ Recorded(format, kernel, pointers, i, j)'
         <=> Recorded(format', kernel', pointers', i', j')
    /\ Recorded(format, kernel, pointers, LinesOf(format), 0)'
         <=> Recorded(format', kernel', pointers', LinesOf(format'), 0)
    /\ LinesOf(format)' = LinesOf(format')
  BY DEF NoneMissing, Due, TileSet, AllTiles, Recorded, LinesOf, LengthOf, LineTile

(* A call leaves the earlier ones as they are. *)
LEMMA CallsGrow ==
    ASSUME calls \in Seq(CallSet), [TS!Next]_(TS!vars)
    PROVE  \A q \in 1 .. Len(calls) : q \in 1 .. Len(calls') /\ calls'[q] = calls[q]
<1>1. CASE UNCHANGED TS!vars
  BY <1>1 DEF TS!vars
<1>2. ASSUME NEW e, calls' = Append(calls, e)
      PROVE  \A q \in 1 .. Len(calls) : q \in 1 .. Len(calls') /\ calls'[q] = calls[q]
  BY <1>2
<1>3. CASE TS!Next
  <2>1. PICK t \in kept : TS!processMultiplication(t[1], t[2])
    BY <1>3 DEF TS!Next
  <2>2. calls' = Append(calls, <<t[1], t[2], TS!TileAt(kernel, TS!TileIndex(t[1], t[2]))>>)
    BY <2>1 DEF TS!processMultiplication
  <2> QED
    BY <2>2, <1>2
<1> QED
  BY <1>1, <1>3

(* The decoder passes a tile. *)
LEMMA TilePassed ==
    ASSUME NEW f, NEW m, NEW n \in Nat, NEW r, NEW c, NEW x,
           calls \in Seq(CallSet), NoneMissing(f, m, calls, n), TileIndex(r, c) = n,
           [TS!Next]_(TS!vars), n \in Due(f, m) => calls' = Append(calls, <<r, c, x>>)
    PROVE  NoneMissing(f, m, calls', n + 1)
<1> SUFFICES ASSUME NEW t \in Due(f, m), t < n + 1
             PROVE  \E q \in 1 .. Len(calls') : TileIndex(calls'[q][1], calls'[q][2]) = t
  BY DEF NoneMissing
<1>1. t \in Nat
  BY KernelFacts DEF Due, AllTiles, TileSet
<1>2. CASE t < n
  <2>1. PICK q \in 1 .. Len(calls) : TileIndex(calls[q][1], calls[q][2]) = t
    BY <1>2 DEF NoneMissing
  <2>2. q \in 1 .. Len(calls') /\ calls'[q] = calls[q]
    BY CallsGrow
  <2> QED
    BY <2>1, <2>2
<1>3. CASE t = n
  <2> DEFINE e == <<r, c, x>>
  <2>1. calls' = Append(calls, e) /\ e[1] = r /\ e[2] = c
    BY <1>3
  <2> HIDE DEF e
  <2>2. Len(calls) + 1 \in 1 .. Len(calls') /\ calls'[Len(calls) + 1] = e
    BY <2>1
  <2> QED
    BY <1>3, <2>1, <2>2
<1> QED
  BY <1>1, <1>2, <1>3

(* It passes tiles that are zero. *)
LEMMA ZerosPassed ==
    ASSUME NEW f, NEW m, NEW cs, NEW a \in Nat, NEW b \in Nat, f # "NON_PRUNED",
           NoneMissing(f, m, cs, a), \A k \in a .. b - 1 : k \notin TileSet(m)
    PROVE  NoneMissing(f, m, cs, b)
<1> SUFFICES ASSUME NEW t \in Due(f, m), t < b
             PROVE  t < a
  BY DEF NoneMissing
<1>1. t \in Nat /\ t \in TileSet(m)
  BY KernelFacts DEF Due, AllTiles, TileSet
<1> QED
  BY <1>1

(* There is none before the first one. *)
LEMMA NothingYet ==
    ASSUME NEW f, NEW m, NEW cs
    PROVE  NoneMissing(f, m, cs, 0)
<1>1. \A t \in Due(f, m) : t \in Nat
  BY KernelFacts DEF Due, AllTiles, TileSet
<1> QED
  BY <1>1 DEF NoneMissing

(* Two numbers with as many tiles before them have none between them. *)
LEMMA NoneBetween ==
    ASSUME NEW S, NEW a \in Nat, NEW b \in Nat, Count(S, a) = Count(S, b), NEW k \in a .. b - 1
    PROVE  k \notin S
<1>1. k \in Nat /\ a <= k /\ k + 1 <= b /\ k + 1 \in Nat
  OBVIOUS
<1>2. Count(S, a) <= Count(S, k) /\ Count(S, k + 1) <= Count(S, b)
  BY <1>1, CountMonotonic
<1>3. /\ Count(S, a) \in Nat /\ Count(S, k) \in Nat
      /\ k \in S => Count(S, k + 1) = Count(S, k) + 1
  BY <1>1, CountFacts
<1> QED
  BY <1>2, <1>3

LEMMA StreamComplete ==
    ASSUME StreamInv, InOrderComplete, format \in StreamFormats, Stream!Next
    PROVE  InOrderComplete'
<1>1. CASE Stream!EncodeTile
  BY <1>1 DEF Stream!EncodeTile, InOrderComplete
<1>2. CASE Stream!EncodeReturn
  <2>1. i' * RowTiles + j' = 0
    BY <1>2, LoopBounds DEF Stream!EncodeReturn, StreamInv, StreamEncoding
  <2> QED
    BY <2>1, NothingYet, CompletePrimed DEF InOrderComplete
<1>3. CASE Stream!DecodeTile
  <2>1. /\ pc = "decode" /\ i < ColTiles /\ format' = format /\ kernel' = kernel
        /\ IF j = RowTiles - 1 THEN i' = i + 1 /\ j' = 0 ELSE j' = j + 1 /\ i' = i
    BY <1>3 DEF Stream!DecodeTile, Stream!NextPlace
  <2>2. /\ i \in 0 .. ColTiles - 1 /\ j \in 0 .. RowTiles - 1
        /\ calls \in Seq(CallSet) /\ NoneMissing(format, kernel, calls, i * RowTiles + j)
    BY <2>1, KernelFacts DEF StreamInv, StreamDecoding, CallsBefore, InOrderComplete
  <2>3. /\ TileIndex(j, i) = i * RowTiles + j /\ i * RowTiles + j \in Nat
        /\ i' * RowTiles + j' = (i * RowTiles + j) + 1
    BY <2>1, <2>2, ColumnPlace, TileNumber
  <2>4. /\ [TS!Next]_(TS!vars)
        /\ TileIndex(j, i) \in Due(format, kernel) =>
             calls' = Append(calls, <<j, i, ReadTile(buf, values)>>)
    BY <1>3, StreamDecodeStep
  <2>5. NoneMissing(format, kernel, calls', (i * RowTiles + j) + 1)
    <3> DEFINE n == i * RowTiles + j
               x == ReadTile(buf, values)
    <3>1. /\ n \in Nat /\ TileIndex(j, i) = n /\ NoneMissing(format, kernel, calls, n)
          /\ n \in Due(format, kernel) => calls' = Append(calls, <<j, i, x>>)
      BY <2>2, <2>3, <2>4
    <3> HIDE DEF n, x
    <3>2. NoneMissing(format, kernel, calls', n + 1)
      BY <2>2, <2>4, <3>1, TilePassed
    <3> QED
      BY <3>2 DEF n
  <2> QED
    BY <2>1, <2>3, <2>5, CompletePrimed DEF InOrderComplete
<1>4. CASE Stream!DecodeReturn \/ Stream!Finished
  <2>1. /\ pc \in {"decode", "done"} /\ UNCHANGED <<format, kernel, i, j, calls>>
    BY <1>4 DEF Stream!DecodeReturn, Stream!Finished, Stream!vars
  <2> QED
    BY <2>1, CompletePrimed DEF InOrderComplete
<1> QED
  BY <1>1, <1>2, <1>3, <1>4 DEF Stream!Next

LEMMA MetaComplete ==
    ASSUME MetaInv, InOrderComplete, format = "META_DATA", format' = format, MetaData!Next
    PROVE  InOrderComplete'
<1>1. CASE MetaData!EncodeTile \/ MetaData!EncodeColumn
  BY <1>1 DEF MetaData!EncodeTile, MetaData!EncodeColumn, InOrderComplete
<1>2. CASE MetaData!EncodeReturn
  <2>1. i' * RowTiles + j' = 0
    BY <1>2, LoopBounds DEF MetaData!EncodeReturn
  <2> QED
    BY <2>1, NothingYet, CompletePrimed DEF InOrderComplete
<1>3. CASE MetaData!SkipColumn
  <2>1. /\ pc = "decode" /\ i < ColTiles /\ j = 0 /\ i' = i + 1
        /\ UNCHANGED <<kernel, j, calls>>
    BY <1>3 DEF MetaData!SkipColumn
  <2>2. i \in Nat /\ NoneMissing(format, kernel, calls, i * RowTiles + j)
    BY <2>1 DEF MetaInv, MetaDecoding, InOrderComplete
  <2> DEFINE a == i * RowTiles
             b == (i + 1) * RowTiles
  <2>3. a \in Nat /\ b \in Nat /\ i * RowTiles + j = a /\ i' * RowTiles + j' = b
    <3>1. a \in Nat /\ b \in Nat /\ i' * RowTiles = b
      BY <2>1, <2>2, KernelFacts, Multiples
    <3> HIDE DEF b
    <3> QED
      BY <2>1, <3>1
  <2>4. \A k \in a .. b - 1 : k \notin TileSet(kernel)
    BY <1>3, MetaSkipColumnStep
  <2> HIDE DEF a, b
  <2>5. NoneMissing(format, kernel, calls, b)
    BY <2>2, <2>3, <2>4, ZerosPassed
  <2> QED
    BY <2>1, <2>3, <2>5, CompletePrimed DEF InOrderComplete
<1>4. CASE MetaData!DecodeTile
  <2>1. /\ pc = "decode" /\ i < ColTiles /\ kernel' = kernel
        /\ IF j = RowTiles - 1 THEN i' = i + 1 /\ j' = 0 ELSE j' = j + 1 /\ i' = i
    BY <1>4 DEF MetaData!DecodeTile
  <2>2. /\ i \in 0 .. ColTiles - 1 /\ j \in 0 .. RowTiles - 1
        /\ calls \in Seq(CallSet) /\ NoneMissing(format, kernel, calls, i * RowTiles + j)
    BY <2>1, KernelFacts DEF MetaInv, MetaDecoding, CallsBefore, InOrderComplete
  <2>3. /\ TileIndex(j, i) = i * RowTiles + j /\ i * RowTiles + j \in Nat
        /\ i' * RowTiles + j' = (i * RowTiles + j) + 1
    BY <2>1, <2>2, ColumnPlace, TileNumber
  <2>4. /\ [TS!Next]_(TS!vars)
        /\ TileIndex(j, i) \in Due(format, kernel) =>
             calls' = Append(calls, <<j, i, ReadTile(buf, values)>>)
    BY <1>4, MetaDecodeTileStep
  <2>5. NoneMissing(format, kernel, calls', (i * RowTiles + j) + 1)
    <3> DEFINE n == i * RowTiles + j
               x == ReadTile(buf, values)
    <3>1. /\ n \in Nat /\ TileIndex(j, i) = n /\ NoneMissing(format, kernel, calls, n)
          /\ n \in Due(format, kernel) => calls' = Append(calls, <<j, i, x>>)
      BY <2>2, <2>3, <2>4
    <3> HIDE DEF n, x
    <3>2. NoneMissing(format, kernel, calls', n + 1)
      BY <2>2, <2>4, <3>1, TilePassed
    <3> QED
      BY <3>2 DEF n
  <2> QED
    BY <2>1, <2>3, <2>5, CompletePrimed DEF InOrderComplete
<1>5. CASE MetaData!DecodeReturn \/ MetaData!Finished
  <2>1. /\ pc \in {"decode", "done"} /\ UNCHANGED <<kernel, i, j, calls>>
    BY <1>5 DEF MetaData!DecodeReturn, MetaData!Finished, MetaData!vars, MetaData!decoderVars
  <2> QED
    BY <2>1, CompletePrimed DEF InOrderComplete
<1> QED
  BY <1>1, <1>2, <1>3, <1>4, <1>5 DEF MetaData!Next

(* At the end of a block no tile is left that is not zero. *)
LEMMA BlockComplete ==
    ASSUME InterleavedInv, BlocksComplete, format = "INTERLEAVED", format' = format,
           WORD_BITS <= RowTiles, Interleaved!DecodeBlock
    PROVE  BlocksComplete'
<1> DEFINE a == i * RowTiles + row
           b == i * RowTiles + RowTiles
           A == Count(TileSet(kernel), a)
           B == Count(TileSet(kernel), b)
           H == (i + 1) * HeaderWords
<1>1. /\ pc = "decode" /\ values >= next_block /\ pc' = "enter" /\ i' = i + 1
      /\ UNCHANGED <<kernel, calls>>
  BY DEF Interleaved!DecodeBlock, Interleaved!encoderVars
<1>2. /\ i \in 0 .. ColTiles - 1 /\ row \in 0 .. RowTiles
      /\ next_block = Base(kernel, i + 1) /\ values = Address(kernel, i, row)
      /\ NoneMissing(format, kernel, calls, a)
  <2>1. InterleavedDecoding
    BY DEF InterleavedInv
  <2>2. /\ i \in 0 .. ColTiles /\ i < ColTiles /\ row \in 0 .. RowTiles
        /\ next_block = Base(kernel, i + 1) /\ values = Address(kernel, i, row)
    BY <1>1, <2>1 DEF InterleavedDecoding
  <2> QED
    BY <1>1, <2>2, KernelFacts DEF BlocksComplete
<1>3. /\ i \in Nat /\ RowTiles \in Nat /\ RowTiles > 0 /\ row <= RowTiles /\ row \in Nat
      /\ RowTiles \in 0 .. RowTiles /\ TileWords \in Nat /\ TileWords > 0
  BY <1>2, KernelFacts
<1>4. /\ a \in Nat /\ b \in Nat /\ a <= b /\ (i + 1) * RowTiles = b
  <2>1. i * RowTiles \in Nat /\ (i + 1) * RowTiles = i * RowTiles + RowTiles
    BY <1>3, Multiples
  <2> QED
    BY <1>3, <2>1
<1>5. A \in Nat /\ B \in Nat /\ A <= B
  BY <1>4, CountFacts, CountMonotonic
<1>6. A = B
  <2>1. /\ Address(kernel, i, RowTiles) = Base(kernel, i + 1)
        /\ Address(kernel, i, row) = H + A * TileWords
        /\ Address(kernel, i, RowTiles) = H + B * TileWords
    BY <1>2, <1>3, AddressFacts DEF Address
  <2>2. H \in Nat
    BY <1>3, HeaderFacts, Multiples
  <2> HIDE DEF A, B, H
  <2>3. A < B => A * TileWords + TileWords <= B * TileWords
    BY <1>3, <1>5, Multiples
  <2>4. A * TileWords \in Nat /\ B * TileWords \in Nat
    BY <1>3, <1>5, Multiples
  <2>5. H + A * TileWords >= H + B * TileWords
    BY <1>1, <1>2, <2>1
  <2> QED
    BY <1>3, <1>5, <2>2, <2>3, <2>4, <2>5
<1> HIDE DEF a, b
<1>7. \A k \in a .. b - 1 : k \notin TileSet(kernel)
  BY <1>4, <1>6, NoneBetween
<1>8. NoneMissing(format, kernel, calls, b)
  BY <1>2, <1>4, <1>7, ZerosPassed
<1>9. NoneMissing(format', kernel', calls', i' * RowTiles)
  BY <1>1, <1>4, <1>8
<1> QED
  BY <1>1, <1>9, CompletePrimed DEF BlocksComplete

LEMMA InterleavedComplete ==
    ASSUME InterleavedInv, BlocksComplete, format = "INTERLEAVED", format' = format,
           WORD_BITS <= RowTiles, Interleaved!Next
    PROVE  BlocksComplete'
<1>1. CASE Interleaved!EncodeTile \/ Interleaved!EncodeBlock \/ Interleaved!DecodeOverrun
  BY <1>1 DEF Interleaved!EncodeTile, Interleaved!EncodeBlock, Interleaved!DecodeOverrun,
              BlocksComplete
<1>2. CASE Interleaved!EncodeReturn
  <2>1. i' * RowTiles = 0 /\ pc' = "enter"
    BY <1>2, KernelFacts DEF Interleaved!EncodeReturn
  <2> QED
    BY <2>1, NothingYet, CompletePrimed DEF BlocksComplete
<1>3. CASE Interleaved!EnterBlock
  <2>1. /\ pc = "enter" /\ pc' = "decode" /\ row' = 0 /\ UNCHANGED <<kernel, i, calls>>
    BY <1>3 DEF Interleaved!EnterBlock
  <2>2. i \in Nat /\ NoneMissing(format, kernel, calls, i * RowTiles)
    BY <2>1 DEF InterleavedInv, InterleavedDecoding, BlocksComplete
  <2>3. i' * RowTiles + row' = i * RowTiles
    BY <2>1, <2>2, KernelFacts, Multiples
  <2> QED
    BY <2>1, <2>2, <2>3, CompletePrimed DEF BlocksComplete
<1>4. CASE Interleaved!DecodeTile
  <2>1. /\ pc = "decode" /\ values < next_block /\ row' = row + 1
        /\ UNCHANGED <<kernel, pc, i>>
    BY <1>4 DEF Interleaved!DecodeTile
  <2>2. /\ i \in 0 .. ColTiles - 1 /\ row \in 0 .. RowTiles - 1
        /\ calls \in Seq(CallSet) /\ NoneMissing(format, kernel, calls, i * RowTiles + row)
    BY <2>1, InterleavedRow DEF InterleavedInv, InterleavedDecoding, CallsBefore, BlocksComplete
  <2> DEFINE n == i * RowTiles + row
             x == ReadTile(buf, values)
  <2>3. TileIndex(row, i) = n /\ n \in Nat /\ i' * RowTiles + row' = n + 1
    <3>1. i * RowTiles \in Nat /\ row \in Nat
      BY <2>2, KernelFacts, Multiples
    <3> QED
      BY <2>1, <2>2, <3>1, TileNumber
  <2>4. /\ [TS!Next]_(TS!vars)
        /\ n \in Due(format, kernel) => calls' = Append(calls, <<row, i, x>>)
    BY <1>4, <2>3, InterleavedDecodeTileStep
  <2> HIDE DEF n, x
  <2>5. NoneMissing(format, kernel, calls, n)
    BY <2>2 DEF n
  <2>6. NoneMissing(format, kernel, calls', n + 1)
    BY <2>2, <2>3, <2>4, <2>5, TilePassed
  <2> QED
    BY <2>1, <2>3, <2>6, CompletePrimed DEF BlocksComplete
<1>5. CASE Interleaved!DecodeBlock
  BY <1>5, BlockComplete
<1>6. CASE Interleaved!DecodeReturn \/ Interleaved!Finished
  <2>1. /\ pc \in {"enter", "done"} /\ pc' = "done" /\ UNCHANGED <<kernel, i, calls>>
    BY <1>6 DEF Interleaved!DecodeReturn, Interleaved!Finished, Interleaved!vars, InterleavedInv
  <2> QED
    BY <2>1, CompletePrimed DEF BlocksComplete
<1> QED
  BY <1>1, <1>2, <1>3, <1>4, <1>5, <1>6 DEF Interleaved!Next

LEMMA CompressedComplete ==
    ASSUME CompressedInv, LinesComplete, format \in CompressedFormats, Compressed!Next
    PROVE  LinesComplete'
<1> DEFINE L == LinesOf(format)
           M == LengthOf(format)
<1>0. L \in Nat /\ L > 0 /\ M \in Nat /\ M > 0
  BY LineBounds
<1>1. CASE Compressed!EncodeTile
  <2> DEFINE t == LineTile(format, i, j)
  <2>1. /\ pc = "encode" /\ i < L /\ j < M /\ j' = j + 1
        /\ IF all_zeros(kernel, t) THEN pointers' = pointers
                                   ELSE pointers' = Append(pointers, t)
        /\ UNCHANGED <<format, kernel, pc, i>>
    BY <1>1, CompressedSame DEF Compressed!EncodeTile
  <2>2. /\ i \in Nat /\ j \in Nat /\ pointers \in Seq(TileSet(kernel))
        /\ Recorded(format, kernel, pointers, i, j)
    BY <2>1 DEF CompressedInv, CompressedEncoding, Entries, LinesComplete
  <2>3. \A q \in 1 .. Len(pointers) : q \in 1 .. Len(pointers') /\ pointers'[q] = pointers[q]
    <3> HIDE DEF t
    <3> QED
      BY <2>1, <2>2
  <2>4. t \in TileSet(kernel) =>
          Len(pointers) + 1 \in 1 .. Len(pointers') /\ pointers'[Len(pointers) + 1] = t
    <3>1. t \in TileSet(kernel) => pointers' = Append(pointers, t)
      BY <2>1 DEF TileSet
    <3> HIDE DEF t
    <3> QED
      BY <2>2, <3>1
  <2>5. Recorded(format, kernel, pointers', i, j + 1)
    <3> SUFFICES ASSUME NEW a \in 0 .. L - 1, NEW y \in 0 .. M - 1,
                        a < i \/ (a = i /\ y < j + 1),
                        LineTile(format, a, y) \in TileSet(kernel)
                 PROVE  \E q \in 1 .. Len(pointers') : pointers'[q] = LineTile(format, a, y)
      BY DEF Recorded
    <3>1. CASE a < i \/ (a = i /\ y < j)
      <4>1. PICK q \in 1 .. Len(pointers) : pointers[q] = LineTile(format, a, y)
        BY <2>2, <3>1 DEF Recorded
      <4> QED
        BY <2>3, <4>1
    <3>2. CASE a = i /\ y = j
      BY <2>4, <3>2
    <3>3. y \in Nat
      BY <1>0
    <3> QED
      BY <2>2, <3>1, <3>2, <3>3
  <2> QED
    BY <2>1, <2>5, CompletePrimed DEF LinesComplete
<1>2. CASE Compressed!EncodeLine
  <2>1. /\ pc = "encode" /\ i < L /\ j = M /\ i' = i + 1 /\ j' = 0
        /\ UNCHANGED <<format, kernel, pc, pointers>>
    BY <1>2, CompressedSame DEF Compressed!EncodeLine
  <2>2. i \in Nat /\ Recorded(format, kernel, pointers, i, j)
    BY <2>1 DEF CompressedInv, CompressedEncoding, LinesComplete
  <2>3. Recorded(format, kernel, pointers, i + 1, 0)
    <3> SUFFICES ASSUME NEW a \in 0 .. L - 1, NEW y \in 0 .. M - 1,
                        a < i + 1 \/ (a = i + 1 /\ y < 0)
                 PROVE  a < i \/ (a = i /\ y < j)
      BY <2>2 DEF Recorded
    <3> QED
      BY <1>0, <2>1, <2>2
  <2> QED
    BY <2>1, <2>3, CompletePrimed DEF LinesComplete
<1>3. CASE Compressed!EncodeReturn
  <2>1. /\ pc = "encode" /\ i = L /\ pc' = "decode"
        /\ UNCHANGED <<format, kernel, pointers>>
    BY <1>3, CompressedSame DEF Compressed!EncodeReturn
  <2>2. j = 0 /\ Recorded(format, kernel, pointers, i, j)
    BY <2>1 DEF CompressedInv, CompressedEncoding, LinesComplete
  <2> QED
    BY <2>1, <2>2, CompletePrimed DEF LinesComplete
<1>4. CASE Compressed!DecodeEntry \/ Compressed!DecodeLine
  <2>1. pc = "decode" /\ UNCHANGED <<format, kernel, pc, pointers>>
    BY <1>4 DEF Compressed!DecodeEntry, Compressed!DecodeLine
  <2> QED
    BY <2>1, CompletePrimed DEF LinesComplete
<1>5. CASE Compressed!DecodeReturn \/ Compressed!Finished
  <2>1. /\ pc \in {"decode", "done"} /\ pc' = "done" /\ (pc = "decode" => i = L)
        /\ UNCHANGED <<format, kernel, i, pointers>>
    BY <1>5, CompressedSame DEF Compressed!DecodeReturn, Compressed!Finished, Compressed!vars
  <2> QED
    BY <2>1, CompletePrimed DEF LinesComplete
<1> QED
  BY <1>1, <1>2, <1>3, <1>4, <1>5 DEF Compressed!Next

(* The inductive invariant of the calls, on top of that of the formats. *)
AllFormats == CompressedFormats \cup {"META_DATA", "INTERLEAVED"} \cup StreamFormats

Fits == WORD_BITS <= RowTiles \/ format # "INTERLEAVED"

CompleteInv ==
    /\ SparseInv /\ format \in AllFormats
    /\ InOrderComplete /\ BlocksComplete /\ LinesComplete
    /\ Fits => TS!Called \subseteq kept

LEMMA CompleteInit ==
    ASSUME Init
    PROVE  CompleteInv
<1>1. SparseInv /\ calls = << >>
  BY SparseInit DEF TS!Init
<1>2. TS!Called \subseteq kept
  BY <1>1 DEF TS!Called
<1>3. format \in AllFormats
  BY DEF Init, Compressed!Init, Stream!Init, AllFormats, CompressedFormats, StreamFormats
<1>4. format \in CompressedFormats => pc = "encode" /\ i = 0 /\ j = 0
  BY DEF Init, Compressed!Init, Stream!Init, CompressedFormats
<1>5. Recorded(format, kernel, pointers, 0, 0)
  BY LineBounds DEF Recorded
<1>6. LinesComplete
  BY <1>4, <1>5 DEF LinesComplete
<1>7. BlocksComplete
  <2>1. format = "INTERLEAVED" => pc = "encode"
    BY DEF Init, Compressed!Init, Stream!Init, Interleaved!Init
  <2> QED
    BY <2>1 DEF BlocksComplete
<1>8. InOrderComplete
  <2> SUFFICES ASSUME format \in StreamFormats \cup {"META_DATA"}
               PROVE  i * RowTiles + j = 0
    BY NothingYet DEF InOrderComplete
  <2>1. i = 0 /\ j = 0
    BY DEF Init, Compressed!Init, Stream!Init, MetaData!Init, StreamFormats
  <2> QED
    BY <2>1, LoopBounds
<1> QED
  BY <1>1, <1>2, <1>3, <1>6, <1>7, <1>8 DEF CompleteInv

(* Calls are made of tiles that are to be multiplied. *)
LEMMA OnlyKept ==
    ASSUME SparseInv, format \in AllFormats, Fits, TS!Called \subseteq kept, [TS!Next]_(TS!vars)
    PROVE  (TS!Called \subseteq kept)'
<1>1. CASE UNCHANGED TS!vars
  BY <1>1 DEF TS!vars, TS!Called
<1>2. CASE TS!Next
  <2>1. PICK t \in kept : TS!processMultiplication(t[1], t[2])
    BY <1>2 DEF TS!Next
  <2> DEFINE e == <<t[1], t[2], TS!TileAt(kernel, TS!TileIndex(t[1], t[2]))>>
  <2>2. calls' = Append(calls, e) /\ kept' = kept
    BY <2>1 DEF TS!processMultiplication
  <2>3. t[1] = e[1] /\ t[2] = e[2] /\ <<t[1], t[2]>> \in kept
    BY <2>1 DEF TS!processMultiplication
  <2>4. calls \in Seq(CallSet)
    <3>1. << >> \in Seq(CallSet)
      BY EmptySeq
    <3>2. CASE format \in CompressedFormats
      BY <3>1, <3>2 DEF SparseInv, CompressedInv, CompressedEncoding, CompressedDecoding, CallsOf
    <3>3. CASE format = "META_DATA"
      BY <3>1, <3>3 DEF SparseInv, MetaInv, MetaEncoding, MetaDecoding, CallsBefore
    <3>4. CASE format = "INTERLEAVED"
      BY <3>1, <3>4 DEF SparseInv, Fits, InterleavedInv, InterleavedEncoding,
                        InterleavedDecoding, CallsBefore
    <3>5. CASE format \in StreamFormats
      BY <3>1, <3>5 DEF SparseInv, StreamInv, StreamEncoding, StreamDecoding, CallsBefore
    <3> QED
      BY <3>2, <3>3, <3>4, <3>5 DEF AllFormats
  <2> HIDE DEF e
  <2>5. ASSUME NEW q \in 1 .. Len(calls')
        PROVE  <<calls'[q][1], calls'[q][2]>> \in kept
    <3>1. CASE q \in 1 .. Len(calls)
      <4>1. calls'[q] = calls[q]
        BY <2>2, <2>4, <3>1
      <4>2. <<calls[q][1], calls[q][2]>> \in TS!Called
        BY <3>1 DEF TS!Called
      <4> QED
        BY <4>1, <4>2
    <3>2. CASE q = Len(calls) + 1
      <4>1. calls'[q] = e
        BY <2>2, <2>4, <3>2
      <4> QED
        BY <2>3, <4>1
    <3>3. Len(calls) \in Nat /\ Len(calls') = Len(calls) + 1
      BY <2>2, <2>4
    <3>4. q \in 1 .. Len(calls) \/ q = Len(calls) + 1
      BY <3>3
    <3> QED
      BY <3>1, <3>2, <3>4
  <2> QED
    BY <2>2, <2>5 DEF TS!Called
<1> QED
  BY <1>1, <1>2

LEMMA CompleteStep ==
    ASSUME CompleteInv, [Next]_vars
    PROVE  CompleteInv'
<1>1. /\ SparseInv' /\ format' = format
      /\ Fits => [TS!Next]_(TS!vars)
  BY SparseStep DEF CompleteInv, Fits
<1>2. (Fits => TS!Called \subseteq kept)'
  BY <1>1, OnlyKept DEF CompleteInv, Fits
<1>3. (format \in AllFormats)'
  BY <1>1 DEF CompleteInv, AllFormats, CompressedFormats, StreamFormats
<1>4. InOrderComplete' /\ BlocksComplete' /\ LinesComplete'
  <2>1. CASE computeCompressed
    <3>1. format \in CompressedFormats /\ Compressed!Next
      BY <2>1 DEF computeCompressed, CompressedFormats
    <3>2. LinesComplete'
      BY <3>1, CompressedComplete DEF CompleteInv, SparseInv
    <3> QED
      BY <1>1, <3>1, <3>2 DEF CompressedFormats, StreamFormats, InOrderComplete, BlocksComplete
  <2>2. CASE computeMetaData
    <3>1. InOrderComplete' /\ format = "META_DATA"
      BY <1>1, <2>2, MetaComplete DEF computeMetaData, CompleteInv, SparseInv
    <3> QED
      BY <1>1, <3>1 DEF CompressedFormats, LinesComplete, BlocksComplete
  <2>3. CASE computeInterleavedMetaData
    <3>1. format = "INTERLEAVED" /\ (WORD_BITS <= RowTiles => BlocksComplete')
      BY <1>1, <2>3, InterleavedComplete DEF computeInterleavedMetaData, CompleteInv, SparseInv
    <3> QED
      BY <1>1, <3>1 DEF CompressedFormats, StreamFormats, LinesComplete, InOrderComplete,
                        BlocksComplete
  <2>4. CASE computeStream
    <3>1. format \in StreamFormats /\ Stream!Next
      BY <2>4 DEF computeStream, StreamFormats
    <3>2. InOrderComplete'
      BY <3>1, StreamComplete DEF CompleteInv, SparseInv
    <3> QED
      BY <1>1, <3>1, <3>2 DEF CompressedFormats, StreamFormats, LinesComplete, BlocksComplete
  <2>5. CASE UNCHANGED vars
    <3>1. UNCHANGED <<format, kernel, pc, i, j, calls, row, pointers>>
      BY <2>5 DEF vars, bufferVars, compressedVars, metaDataVars, interleavedVars, streamVars
    <3> QED
      BY <3>1, CompletePrimed DEF CompleteInv, InOrderComplete, BlocksComplete, LinesComplete
  <2> QED
    BY <2>1, <2>2, <2>3, <2>4, <2>5 DEF Next
<1> QED
  BY <1>1, <1>2, <1>3, <1>4 DEF CompleteInv

(* What the invariant says when the decoder has returned. *)
LEMMA CompleteDone ==
    ASSUME CompleteInv, Fits, pc = "done"
    PROVE  TS!Called = kept
<1> SUFFICES ASSUME NEW t \in kept
             PROVE  t \in TS!Called
  BY DEF CompleteInv
<1> DEFINE r == t[1]
           c == t[2]
           n == TileIndex(r, c)
<1>1. t = <<r, c>> /\ r \in 0 .. RowTiles - 1 /\ c \in 0 .. ColTiles - 1
  BY DEF kept, NonZeroTiles
<1>2. n \in AllTiles /\ n \in Due(format, kernel) /\ n < TileCount
  <2>1. n \in AllTiles
    BY <1>1, TileNumber
  <2>2. format # "NON_PRUNED" => ~ all_zeros(kernel, n)
    BY DEF kept, NonZeroTiles
  <2> QED
    BY <2>1, <2>2, KernelFacts DEF Due, TileSet, AllTiles
<1>3. ASSUME NEW q \in 1 .. Len(calls), TileIndex(calls[q][1], calls[q][2]) = n,
             calls \in Seq(CallSet)
      PROVE  t \in TS!Called
  <2>1. calls[q] \in CallSet
    BY <1>3, ElementOfSeq
  <2>2. calls[q][1] \in 0 .. RowTiles - 1 /\ calls[q][2] \in 0 .. ColTiles - 1
    BY <2>1 DEF CallSet
  <2>3. /\ LineTile("CSR", calls[q][1], calls[q][2]) = LineTile("CSR", r, c)
        /\ LinesOf("CSR") = RowTiles /\ LengthOf("CSR") = ColTiles
    BY <1>3 DEF LineTile, LinesOf, LengthOf
  <2>4. calls[q][1] = r /\ calls[q][2] = c
    <3> HIDE DEF r, c
    <3> QED
      BY <1>1, <2>2, <2>3, LineTileFacts
  <2> QED
    BY <1>1, <2>4 DEF TS!Called
<1> HIDE DEF r, c, n
<1>4. CASE format \in StreamFormats \cup {"META_DATA"}
  <2>1. i = ColTiles /\ j = 0
    <3>1. ColTiles \notin Used(kernel)
      BY KernelFacts DEF Used
    <3>2. CASE format = "META_DATA"
      BY <3>1, <3>2 DEF CompleteInv, SparseInv, MetaInv, MetaDecoding
    <3>3. CASE format \in StreamFormats
      BY <3>3 DEF CompleteInv, SparseInv, StreamInv, StreamDecoding
    <3> QED
      BY <1>4, <3>2, <3>3
  <2>2. calls \in Seq(CallSet)
    BY <1>4 DEF CompleteInv, SparseInv, StreamInv, StreamDecoding, MetaInv, MetaDecoding,
                CallsBefore
  <2>3. NoneMissing(format, kernel, calls, TileCount)
    BY <1>4, <2>1, LoopBounds DEF CompleteInv, InOrderComplete
  <2> QED
    BY <1>2, <1>3, <2>2, <2>3 DEF NoneMissing
<1>5. CASE format = "INTERLEAVED"
  <2>1. i = ColTiles /\ calls \in Seq(CallSet)
    BY <1>5 DEF CompleteInv, SparseInv, Fits, InterleavedInv, InterleavedDecoding, CallsBefore
  <2>2. NoneMissing(format, kernel, calls, TileCount)
    BY <1>5, <2>1, LoopBounds DEF CompleteInv, Fits, BlocksComplete
  <2> QED
    BY <1>2, <1>3, <2>1, <2>2 DEF NoneMissing
<1>6. CASE format \in CompressedFormats
  <2>1. /\ i = LinesOf(format) /\ Recorded(format, kernel, pointers, LinesOf(format), 0)
        /\ CallsOf(calls, pointers) /\ Len(calls) = Len(pointers)
    BY <1>6 DEF CompleteInv, SparseInv, LinesComplete, CompressedInv, CompressedDecoding, Entries
  <2>2. \E q \in 1 .. Len(pointers) : pointers[q] = n
    <3> DEFINE a == IF format = "CSR" THEN r ELSE c
               y == IF format = "CSR" THEN c ELSE r
    <3>1. a \in 0 .. LinesOf(format) - 1 /\ y \in 0 .. LengthOf(format) - 1
          /\ LineTile(format, a, y) = n
      BY <1>1 DEF LinesOf, LengthOf, LineTile, n
    <3>2. n \in TileSet(kernel)
      BY <1>2, <1>6 DEF Due, CompressedFormats
    <3> HIDE DEF a, y
    <3>3. a < LinesOf(format)
      BY <3>1, LineBounds
    <3> QED
      BY <2>1, <3>1, <3>2, <3>3 DEF Recorded
  <2>3. PICK q \in 1 .. Len(calls) : pointers[q] = n
    BY <2>1, <2>2
  <2>4. TileIndex(calls[q][1], calls[q][2]) = n /\ calls \in Seq(CallSet)
    BY <2>1, <2>3 DEF CallsOf
  <2> QED
    BY <1>3, <2>4
<1> QED
  BY <1>4, <1>5, <1>6 DEF CompleteInv, AllFormats

(***************************************************************************)
(* A compute that has returned has called processMultiplication for every  *)
(* tile of the matrix that must be multiplied and for no other one, in all *)
(* eight formats, for every matrix and every width of the words of flags.  *)
(* INTERLEAVED needs a column to fill a metadata word, as above.           *)
(***************************************************************************)
THEOREM CallsComplete ==
    Spec => [](WORD_BITS <= RowTiles \/ format # "INTERLEAVED" => AllCalled)
<1>1. Init => CompleteInv
  BY CompleteInit
<1>2. CompleteInv /\ [Next]_vars => CompleteInv'
  BY CompleteStep
<1>3. CompleteInv => (WORD_BITS <= RowTiles \/ format # "INTERLEAVED" => AllCalled)
  BY CompleteDone DEF AllCalled, Fits
<1> QED
  BY <1>1, <1>2, <1>3, PTL DEF Spec
=============================================================================
