--------------------------- MODULE GemSystemProofs --------------------------
(***************************************************************************)
(* What reaches the tile, for every program size, number of instructions   *)
(* in flight, number of traps, wrong predictions, checkpoints and          *)
(* restores.  The argument follows the architectural program counter: the  *)
(* oldest instruction in flight, or the one to be fetched.  It walks the   *)
(* program whatever is predicted behind it, an in-order CPU executes there *)
(* and only there, and DerivO3CPU has executed what it has passed.         *)
(***************************************************************************)
EXTENDS GemSystem, SequenceTheorems, TLAPS

-----------------------------------------------------------------------------
(* Addresses, also those of a path that was predicted wrongly. *)

Parts == {"load", "op", "branch", "m5checkpoint", "svc", "end"}

Address ==
    { a \in [p : 1 .. Products, l : 1 .. 4, n : Nat, part : Parts] :
        /\ a.l < 4 <=> a.part \in {"load", "op", "branch"}
        /\ a.l = 3 => a.part # "load"
        /\ a.l = 4 => a.n = 0
        /\ a.part \in {"m5checkpoint", "svc"} => a.p < Products
        /\ a.part = "end" => a.p = Products }

(* An address the program comes to. *)
OnPath(a) == a.l < 4 => a.n < Iterations[a.l]

Entries == [pc : Address, next : Address, done : BOOLEAN]

Ops == (1 .. Products) \X (1 .. 3) \X Nat

TileRecords == [live : BOOLEAN, log : Seq(Ops) \cup { <<Undefined>> }]

TypeInv ==
    /\ cpu \in CpuModels
    /\ fetchPc \in Address
    /\ rob \in Seq(Entries)
    /\ tiles \in Seq(TileRecords) /\ Len(tiles) > 0
    /\ tiles[1].live => tiles[1].log \in Seq(Ops)
    /\ sim \in {"running", "draining", "checkpointed"}
    /\ disk = NoCheckpoint \/ (disk \in Address /\ disk.part = "svc")

-----------------------------------------------------------------------------
(* The instructions in flight. *)

Oldest == IF rob = << >> THEN fetchPc ELSE rob[1].pc

(* Where fetch went after the instruction of an entry, and was redirected  *)
(* to if it is a branch that is done.                                      *)
Follows(e) == IF e.done THEN Target(e.pc) ELSE e.next

ChainInv ==
    /\ OnPath(Oldest)
    /\ \A n \in 1 .. Len(rob) :
          /\ rob[n].pc.part # "end"
          /\ rob[n].pc.part # "branch" => rob[n].next = Target(rob[n].pc)
          /\ (IF n = Len(rob) THEN fetchPc ELSE rob[n + 1].pc) = Follows(rob[n])

-----------------------------------------------------------------------------
(* The log of the tile. *)

Log == tiles[1].log
Known == Log # <<Undefined>>

(* The custom instruction at a or, if there is none, the next one. *)
Upcoming(a) ==
    IF a.l = 4 THEN <<a.p + 1, 1, 0>>
    ELSE IF a.part = "branch" THEN NextOp(<<a.p, a.l, a.n>>)
    ELSE <<a.p, a.l, a.n>>

InOrderInv ==
    InOrder /\ Known =>
        /\ \A n \in 1 .. Len(rob) : rob[n].done => rob[n].pc.part = "load"
        /\ ProgramRun(Log)
        /\ IF Log = << >> THEN \E p \in 1 .. Products : Upcoming(Oldest) = <<p, 1, 0>>
                          ELSE Upcoming(Oldest) = NextOp(Log[Len(Log)])

Has(log, op) == \E k \in DOMAIN log : log[k] = op

(* Op <<l, n>> of its product is before a. *)
Before(l, n, a) ==
    \/ l < a.l
    \/ l = a.l /\ (n < a.n \/ (n = a.n /\ a.part = "branch"))

BehindInv ==
    Known =>
        /\ \A n \in 1 .. Len(rob) :
              rob[n].done /\ rob[n].pc.part = "op" =>
                  Has(Log, <<rob[n].pc.p, rob[n].pc.l, rob[n].pc.n>>)
        /\ Oldest.part # "svc" \/ sim # "running" =>
              \A l \in 1 .. 3 : \A n \in 0 .. Iterations[l] - 1 :
                  Before(l, n, Oldest) => Has(Log, <<Oldest.p, l, n>>)

DrainInv ==
    /\ sim = "draining" =>
          IF OutOfOrder
            THEN rob # << >> /\ rob[1].pc.part = "m5checkpoint" /\ rob[1].done
            ELSE Oldest.part = "svc"
    /\ sim = "checkpointed" => rob = << >> /\ fetchPc = disk /\ disk # NoCheckpoint

GemInv == TypeInv /\ ChainInv /\ InOrderInv /\ BehindInv /\ DrainInv

-----------------------------------------------------------------------------
(* The program. *)

LEMMA IterationFacts ==
    /\ \A l \in 1 .. 3 : Iterations[l] \in Nat /\ Iterations[l] > 0
    /\ Products \in Nat /\ Products > 0
  BY GemAssumption

LEMMA AtFields ==
    \A p, l, n, part : /\ At(p, l, n, part).p = p
                       /\ At(p, l, n, part).l = l
                       /\ At(p, l, n, part).n = n
                       /\ At(p, l, n, part).part = part
  BY DEF At

LEMMA AddressFields ==
    ASSUME NEW a \in Address
    PROVE  /\ a.p \in Nat /\ a.p >= 1 /\ a.p <= Products
           /\ a.l \in Nat /\ a.l >= 1 /\ a.l <= 4
           /\ a.n \in Nat
           /\ a.part \in Parts
           /\ a.l < 4 <=> a.part \in {"load", "op", "branch"}
           /\ a.l = 3 => a.part # "load"
           /\ a.l = 4 => a.n = 0
           /\ a.part \in {"m5checkpoint", "svc"} => a.p < Products
           /\ a.part = "end" => a.p = Products
           /\ a = At(a.p, a.l, a.n, a.part)
<1>1. Products \in Nat
  BY IterationFacts
<1> QED
  BY <1>1 DEF Address, At

LEMMA IsAddress ==
    ASSUME NEW p \in Nat, NEW l \in Nat, NEW n \in Nat, NEW part \in Parts,
           1 <= p, p <= Products, 1 <= l, l <= 4,
           l < 4 <=> part \in {"load", "op", "branch"},
           l = 3 => part # "load",
           l = 4 => n = 0,
           part \in {"m5checkpoint", "svc"} => p < Products,
           part = "end" => p = Products
    PROVE  At(p, l, n, part) \in Address
<1>1. Products \in Nat
  BY IterationFacts
<1>2. At(p, l, n, part) \in [p : 1 .. Products, l : 1 .. 4, n : Nat, part : Parts]
  BY <1>1 DEF At
<1> QED
  BY <1>2 DEF Address, At

LEMMA StartAddress ==
    ASSUME NEW p \in 1 .. Products, NEW l \in 1 .. 3, NEW n \in Nat
    PROVE  /\ IterationStart(p, l, n) \in Address
           /\ IterationStart(p, l, n).p = p
           /\ IterationStart(p, l, n).l = l
           /\ IterationStart(p, l, n).n = n
           /\ IterationStart(p, l, n).part \in {"load", "op"}
<1>1. Products \in Nat
  BY IterationFacts
<1>2. p \in Nat /\ 1 <= p /\ p <= Products /\ l \in Nat /\ 1 <= l /\ l < 4
  BY <1>1
<1>3. CASE l = 3
  <2>1. IterationStart(p, l, n) = At(p, l, n, "op")
    BY <1>3 DEF IterationStart
  <2>2. At(p, l, n, "op") \in Address
    BY <1>2, IsAddress DEF Parts
  <2> QED
    BY <2>1, <2>2, AtFields, <1>3
<1>4. CASE l # 3
  <2>1. IterationStart(p, l, n) = At(p, l, n, "load")
    BY <1>4 DEF IterationStart
  <2>2. At(p, l, n, "load") \in Address
    BY <1>2, <1>4, IsAddress DEF Parts
  <2> QED
    BY <2>1, <2>2, AtFields
<1> QED
  BY <1>3, <1>4

(* What follows an instruction, field by field. *)
LEMMA AfterLoopAddress ==
    ASSUME NEW p \in 1 .. Products, NEW l \in 1 .. 3
    PROVE  /\ AfterLoop(p, l) \in Address
           /\ AfterLoop(p, l).p = p
           /\ AfterLoop(p, l).l = l + 1
           /\ AfterLoop(p, l).n = 0
           /\ AfterLoop(p, l).part \notin {"branch", "svc"}
<1>1. Products \in Nat /\ p \in Nat /\ 1 <= p /\ p <= Products
  BY IterationFacts
<1>2. CASE l < 3
  <2>1. l + 1 \in 1 .. 3 /\ AfterLoop(p, l) = IterationStart(p, l + 1, 0)
    BY <1>2 DEF AfterLoop
  <2> QED
    BY <2>1, StartAddress
<1>3. CASE l = 3 /\ p < Products
  <2>1. AfterLoop(p, l) = At(p, 4, 0, "m5checkpoint")
    BY <1>3 DEF AfterLoop
  <2>2. At(p, 4, 0, "m5checkpoint") \in Address
    BY <1>1, <1>3, IsAddress DEF Parts
  <2> QED
    BY <2>1, <2>2, AtFields, <1>3
<1>4. CASE l = 3 /\ p = Products
  <2>1. AfterLoop(p, l) = At(p, 4, 0, "end")
    BY <1>1, <1>4 DEF AfterLoop, End
  <2>2. At(p, 4, 0, "end") \in Address
    BY <1>1, <1>4, IsAddress DEF Parts
  <2> QED
    BY <2>1, <2>2, AtFields, <1>4
<1> QED
  BY <1>1, <1>2, <1>3, <1>4

LEMMA TargetCases ==
    ASSUME NEW a \in Address
    PROVE  /\ a.part = "load" => Target(a) = At(a.p, a.l, a.n, "op")
           /\ a.part = "op" => Target(a) = At(a.p, a.l, a.n, "branch")
           /\ a.part = "branch" => Target(a) =
                 IF a.n + 1 < Iterations[a.l] THEN IterationStart(a.p, a.l, a.n + 1)
                                              ELSE AfterLoop(a.p, a.l)
           /\ a.part = "m5checkpoint" => Target(a) = At(a.p, 4, 0, "svc")
           /\ a.part = "svc" => Target(a) = IterationStart(a.p + 1, 1, 0)
  BY DEF Target, LoopBack

LEMMA TargetFields ==
    ASSUME NEW a \in Address, a.part # "end", NEW t, t = Target(a)
    PROVE  /\ t \in Address
           /\ a.part \in {"load", "op", "m5checkpoint"} =>
                 t.p = a.p /\ t.l = a.l /\ t.n = a.n
           /\ a.part = "load" => t.part = "op"
           /\ a.part = "op" => t.part = "branch"
           /\ a.part = "branch" /\ a.n + 1 < Iterations[a.l] =>
                 t.p = a.p /\ t.l = a.l /\ t.n = a.n + 1 /\ t.part \in {"load", "op"}
           /\ a.part = "branch" /\ ~ (a.n + 1 < Iterations[a.l]) =>
                 t.p = a.p /\ t.l = a.l + 1 /\ t.n = 0 /\ t.part \notin {"branch", "svc"}
           /\ a.part = "m5checkpoint" => t.part = "svc"
           /\ a.part = "svc" =>
                 t.p = a.p + 1 /\ t.l = 1 /\ t.n = 0 /\ t.part \in {"load", "op"}
<1>0. /\ a.p \in 1 .. Products /\ a.n \in Nat /\ a.l \in Nat /\ a.p \in Nat
      /\ 1 <= a.p /\ a.p <= Products /\ 1 <= a.l /\ a.l <= 4
      /\ a.l < 4 => a.l \in 1 .. 3
      /\ Products \in Nat
  BY AddressFields, IterationFacts
<1>1. CASE a.part \in {"load", "op"}
  <2>1. a.l < 4 /\ (a.l = 3 => a.part # "load")
    BY <1>1, AddressFields
  <2>2. At(a.p, a.l, a.n, "op") \in Address /\ At(a.p, a.l, a.n, "branch") \in Address
    BY <1>0, <2>1, IsAddress DEF Parts
  <2> QED
    BY <1>1, <2>2, TargetCases, AtFields
<1>2. CASE a.part = "branch"
  <2>1. a.l \in 1 .. 3
    BY <1>0, <1>2, AddressFields
  <2>2. CASE a.n + 1 < Iterations[a.l]
    <3>1. t = IterationStart(a.p, a.l, a.n + 1) /\ a.n + 1 \in Nat
      BY <1>0, <1>2, <2>2, TargetCases
    <3> QED
      BY <1>0, <1>2, <2>1, <2>2, <3>1, StartAddress
  <2>3. CASE ~ (a.n + 1 < Iterations[a.l])
    <3>1. t = AfterLoop(a.p, a.l)
      BY <1>2, <2>3, TargetCases
    <3> QED
      BY <1>0, <1>2, <2>1, <2>3, <3>1, AfterLoopAddress
  <2> QED
    BY <2>2, <2>3
<1>3. CASE a.part = "m5checkpoint"
  <2>1. a.p < Products /\ a.l = 4 /\ a.n = 0
    BY <1>0, <1>3, AddressFields
  <2>2. At(a.p, 4, 0, "svc") \in Address
    BY <1>0, <2>1, IsAddress DEF Parts
  <2> QED
    BY <1>3, <2>1, <2>2, TargetCases, AtFields
<1>4. CASE a.part = "svc"
  <2>1. a.p + 1 \in 1 .. Products
    BY <1>0, <1>4, AddressFields
  <2>2. t = IterationStart(a.p + 1, 1, 0)
    BY <1>4, TargetCases
  <2> QED
    BY <1>4, <2>1, <2>2, StartAddress
<1> QED
  BY <1>1, <1>2, <1>3, <1>4, AddressFields DEF Parts

(* The program stays on its path. *)
LEMMA TargetOnPath ==
    ASSUME NEW a \in Address, a.part # "end", OnPath(a)
    PROVE  Target(a) \in Address /\ OnPath(Target(a))
<1> DEFINE t == Target(a)
<1>0. /\ \A l \in 1 .. 3 : Iterations[l] \in Nat /\ Iterations[l] > 0
      /\ a.l \in Nat /\ a.n \in Nat /\ 1 <= a.l
      /\ a.l < 4 <=> a.part \in {"load", "op", "branch"}
  BY IterationFacts, AddressFields
<1>1. t \in Address
  BY TargetFields
<1>2. t.l < 4 => t.n < Iterations[t.l]
  <2> HIDE DEF t
  <2>1. t.l < 4 => t.l \in 1 .. 3
    BY <1>1, AddressFields
  <2>2. CASE a.part \in {"load", "op", "m5checkpoint"}
    BY <1>0, <2>2, TargetFields DEF t, OnPath
  <2>3. CASE a.part = "branch" /\ a.n + 1 < Iterations[a.l]
    BY <1>0, <2>3, TargetFields DEF t
  <2>4. CASE a.part = "branch" /\ ~ (a.n + 1 < Iterations[a.l])
    <3>1. t.n = 0
      BY <2>4, TargetFields DEF t
    <3> QED
      BY <1>0, <2>1, <3>1
  <2>5. CASE a.part = "svc"
    <3>1. t.n = 0
      BY <2>5, TargetFields DEF t
    <3> QED
      BY <1>0, <2>1, <3>1
  <2> QED
    BY <2>2, <2>3, <2>4, <2>5, AddressFields DEF Parts
<1> QED
  BY <1>1, <1>2 DEF OnPath

(* The next custom instruction of the program changes when one has been    *)
(* passed, and only then.                                                  *)
LEMMA UpcomingStep ==
    ASSUME NEW a \in Address, a.part # "end", OnPath(a)
    PROVE  Upcoming(Target(a)) = IF a.part = "op" THEN NextOp(<<a.p, a.l, a.n>>)
                                                  ELSE Upcoming(a)
<1> DEFINE t == Target(a)
<1>0. /\ a.l \in Nat /\ a.n \in Nat /\ 1 <= a.l /\ a.l <= 4 /\ a.p \in Nat
      /\ a.l < 4 <=> a.part \in {"load", "op", "branch"}
  BY AddressFields
<1>1. CASE a.part \in {"load", "op"}
  BY <1>0, <1>1, TargetFields DEF Upcoming
<1>2. CASE a.part = "branch" /\ a.n + 1 < Iterations[a.l]
  <2>1. t.p = a.p /\ t.l = a.l /\ t.n = a.n + 1 /\ t.part \in {"load", "op"}
    BY <1>2, TargetFields
  <2>2. NextOp(<<a.p, a.l, a.n>>) = <<a.p, a.l, a.n + 1>>
    BY <1>2 DEF NextOp
  <2> HIDE DEF t
  <2>3. Upcoming(t) = <<a.p, a.l, a.n + 1>> /\ Upcoming(a) = NextOp(<<a.p, a.l, a.n>>)
    BY <1>0, <1>2, <2>1 DEF Upcoming
  <2> QED
    BY <1>2, <2>2, <2>3 DEF t
<1>3. CASE a.part = "branch" /\ ~ (a.n + 1 < Iterations[a.l])
  <2>1. t.p = a.p /\ t.l = a.l + 1 /\ t.n = 0 /\ t.part \notin {"branch", "svc"}
    BY <1>3, TargetFields
  <2>2. NextOp(<<a.p, a.l, a.n>>) =
          IF a.l < 3 THEN <<a.p, a.l + 1, 0>> ELSE <<a.p + 1, 1, 0>>
    BY <1>3 DEF NextOp
  <2> HIDE DEF t
  <2>3. Upcoming(t) = IF a.l < 3 THEN <<a.p, a.l + 1, 0>> ELSE <<a.p + 1, 1, 0>>
    BY <1>0, <1>3, <2>1 DEF Upcoming
  <2>4. Upcoming(a) = NextOp(<<a.p, a.l, a.n>>)
    BY <1>0, <1>3 DEF Upcoming
  <2> QED
    BY <1>3, <2>2, <2>3, <2>4 DEF t
<1>4. CASE a.part \in {"m5checkpoint", "svc"}
  <2>1. /\ a.l = 4
        /\ \/ t.p = a.p /\ t.l = 4
           \/ t.p = a.p + 1 /\ t.l = 1 /\ t.n = 0 /\ t.part # "branch"
    BY <1>0, <1>4, TargetFields
  <2> HIDE DEF t
  <2>2. Upcoming(t) = <<a.p + 1, 1, 0>>
    BY <2>1 DEF Upcoming
  <2> QED
    BY <1>4, <2>1, <2>2 DEF t, Upcoming
<1> QED
  BY <1>1, <1>2, <1>3, <1>4, AddressFields DEF Parts

(* What is before the next instruction: what was before this one, and this *)
(* one; nothing of the next product.                                       *)
LEMMA BeforeStep ==
    ASSUME NEW a \in Address, a.part # "end", OnPath(a),
           NEW l \in 1 .. 3, NEW n \in 0 .. Iterations[l] - 1,
           Before(l, n, Target(a))
    PROVE  /\ a.part # "svc" /\ Target(a).p = a.p
           /\ Before(l, n, a) \/ (a.part = "op" /\ l = a.l /\ n = a.n)
<1> DEFINE t == Target(a)
<1>0. /\ a.l \in Nat /\ a.n \in Nat /\ 1 <= a.l /\ a.l <= 4 /\ a.p \in Nat
      /\ a.l < 4 <=> a.part \in {"load", "op", "branch"}
      /\ Iterations[l] \in Nat /\ n \in Nat /\ l \in Nat
  BY AddressFields, IterationFacts
<1>1. CASE a.part \in {"load", "op", "m5checkpoint"}
  <2>1. /\ t.p = a.p /\ t.l = a.l /\ t.n = a.n
        /\ t.part = "branch" => a.part = "op"
    BY <1>1, TargetFields
  <2> QED
    BY <1>0, <1>1, <2>1 DEF Before
<1>2. CASE a.part = "branch" /\ a.n + 1 < Iterations[a.l]
  <2>1. t.p = a.p /\ t.l = a.l /\ t.n = a.n + 1 /\ t.part \in {"load", "op"}
    BY <1>2, TargetFields
  <2> HIDE DEF t
  <2>2. Before(l, n, t)
    BY DEF t
  <2>3. l < a.l \/ (l = a.l /\ n <= a.n)
    BY <1>0, <2>1, <2>2 DEF Before
  <2> QED
    BY <1>0, <1>2, <2>1, <2>3 DEF Before, t
<1>3. CASE a.part = "branch" /\ ~ (a.n + 1 < Iterations[a.l])
  <2>1. t.p = a.p /\ t.l = a.l + 1 /\ t.n = 0 /\ t.part \notin {"branch", "svc"}
    BY <1>3, TargetFields
  <2> HIDE DEF t
  <2>2. Before(l, n, t)
    BY DEF t
  <2>3. l <= a.l
    BY <1>0, <2>1, <2>2 DEF Before
  <2>4. l = a.l => n <= a.n
    BY <1>0, <1>3
  <2> QED
    BY <1>0, <1>3, <2>1, <2>3, <2>4 DEF Before, t
<1>4. CASE a.part = "svc"
  <2>1. t.l = 1 /\ t.n = 0 /\ t.part \in {"load", "op"}
    BY <1>4, TargetFields
  <2> HIDE DEF t
  <2>2. Before(l, n, t)
    BY DEF t
  <2> QED
    BY <1>0, <2>1, <2>2 DEF Before
<1> QED
  BY <1>1, <1>2, <1>3, <1>4, AddressFields DEF Parts

-----------------------------------------------------------------------------
(* The instructions in flight. *)

WithDone(s, n) == [s EXCEPT ![n].done = TRUE]

LEMMA SetDone ==
    ASSUME NEW s \in Seq(Entries), NEW n \in 1 .. Len(s)
    PROVE  /\ WithDone(s, n) \in Seq(Entries) /\ Len(WithDone(s, n)) = Len(s)
           /\ \A m \in 1 .. Len(s) : /\ WithDone(s, n)[m].pc = s[m].pc
                                     /\ WithDone(s, n)[m].next = s[m].next
                                     /\ WithDone(s, n)[m].done = IF m = n THEN TRUE ELSE s[m].done
<1> DEFINE r == WithDone(s, n)
<1>1. s \in [1 .. Len(s) -> Entries] /\ Len(s) \in Nat
  BY LenProperties
<1>2. /\ r \in [1 .. Len(s) -> Entries]
      /\ \A m \in 1 .. Len(s) : r[m] = IF m = n THEN [s[n] EXCEPT !.done = TRUE] ELSE s[m]
  BY <1>1 DEF Entries, WithDone
<1> HIDE DEF r
<1>3. r \in Seq(Entries)
  BY <1>1, <1>2, SeqDef
<1>4. Len(r) = Len(s)
  BY <1>1, <1>2, <1>3, LenProperties
<1>5. \A m \in 1 .. Len(s) : s[m] \in Entries
  BY <1>1
<1>6. \A m \in 1 .. Len(s) : /\ r[m].pc = s[m].pc
                             /\ r[m].next = s[m].next
                             /\ r[m].done = IF m = n THEN TRUE ELSE s[m].done
  BY <1>2, <1>5 DEF Entries
<1> QED
  BY <1>3, <1>4, <1>6 DEF r

LEMMA EntryFacts ==
    ASSUME TypeInv
    PROVE  /\ Len(rob) \in Nat /\ DOMAIN rob = 1 .. Len(rob)
           /\ rob = << >> <=> Len(rob) = 0
           /\ \A n \in 1 .. Len(rob) : /\ rob[n].pc \in Address
                                       /\ rob[n].next \in Address
                                       /\ rob[n].done \in BOOLEAN
           /\ Oldest \in Address
<1>1. rob \in Seq(Entries) /\ fetchPc \in Address
  BY DEF TypeInv
<1>2. /\ Len(rob) \in Nat /\ DOMAIN rob = 1 .. Len(rob)
      /\ rob = << >> <=> Len(rob) = 0
  BY <1>1, EmptySeq, LenProperties
<1>3. \A n \in 1 .. Len(rob) : rob[n] \in Entries
  BY <1>1, ElementOfSeq
<1>4. \A n \in 1 .. Len(rob) : /\ rob[n].pc \in Address
                               /\ rob[n].next \in Address
                               /\ rob[n].done \in BOOLEAN
  BY <1>3 DEF Entries
<1> QED
  BY <1>1, <1>2, <1>4 DEF Oldest

(* The log of the first tile. *)
LEMMA LogFacts ==
    ASSUME TypeInv
    PROVE  /\ tiles[1] \in TileRecords /\ 1 \in DOMAIN tiles
           /\ Known => Log \in Seq(Ops)
<1>1. tiles \in Seq(TileRecords) /\ Len(tiles) > 0
  BY DEF TypeInv
<1>2. 1 \in 1 .. Len(tiles) /\ DOMAIN tiles = 1 .. Len(tiles)
  BY <1>1, LenProperties
<1>3. tiles[1] \in TileRecords
  BY <1>1, <1>2, ElementOfSeq
<1> QED
  BY <1>2, <1>3 DEF TileRecords, Known, Log

LEMMA ExecuteFacts ==
    ASSUME TypeInv, NEW a \in Address, a.part = "op", Execute(a)
    PROVE  /\ tiles' \in Seq(TileRecords) /\ Len(tiles') > 0
           /\ tiles'[1].live => tiles'[1].log \in Seq(Ops)
           /\ Known' => Known /\ Log' = Append(Log, <<a.p, a.l, a.n>>)
<1> DEFINE op == <<a.p, a.l, a.n>>
<1>0. /\ tiles \in Seq(TileRecords) /\ Len(tiles) > 0 /\ 1 \in 1 .. Len(tiles)
      /\ tiles[1] \in TileRecords
      /\ tiles[1].live => tiles[1].log \in Seq(Ops)
  BY LogFacts, LenProperties DEF TypeInv
<1>1. op \in Ops
  <2>1. a.p \in 1 .. Products /\ a.l \in 1 .. 3 /\ a.n \in Nat
    BY AddressFields, IterationFacts
  <2> QED
    BY <2>1 DEF Ops
<1> HIDE DEF op
<1>2. ASSUME NEW t \in TileRecords, tiles' = [tiles EXCEPT ![1] = t]
      PROVE  tiles' \in Seq(TileRecords) /\ Len(tiles') > 0 /\ tiles'[1] = t
  BY <1>0, <1>2, ExceptSeq
<1>3. CASE Log # <<Undefined>> /\ tiles' = [tiles EXCEPT ![1].log = Append(@, op)]
  <2> DEFINE t == [tiles[1] EXCEPT !.log = Append(@, op)]
  <2>1. Log \in Seq(Ops)
    BY <1>3, LogFacts DEF Known
  <2>2. Append(Log, op) \in Seq(Ops)
    BY <1>1, <2>1, AppendProperties
  <2>3. t \in TileRecords /\ t.log = Append(Log, op)
    BY <1>0, <2>2 DEF TileRecords, Log
  <2>4. tiles' = [tiles EXCEPT ![1] = t]
    BY <1>3
  <2> HIDE DEF t
  <2> QED
    BY <1>2, <1>3, <2>2, <2>3, <2>4 DEF Known, Log, op
<1>4. CASE ~ tiles[1].live /\ tiles' = [tiles EXCEPT ![1].log = <<Undefined>>]
  <2> DEFINE t == [tiles[1] EXCEPT !.log = <<Undefined>>]
  <2>3. t \in TileRecords /\ t.log = <<Undefined>> /\ t.live = tiles[1].live
    BY <1>0 DEF TileRecords
  <2>4. tiles' = [tiles EXCEPT ![1] = t]
    BY <1>4
  <2> HIDE DEF t
  <2> QED
    BY <1>2, <1>4, <2>3, <2>4 DEF Known, Log
<1> QED
  BY <1>3, <1>4 DEF Execute, Log, op

-----------------------------------------------------------------------------
(* How the instructions in flight change. *)

(* A CPU that has nothing in flight goes on at fetchPc. *)
LEMMA Emptied ==
    ASSUME rob' = << >>, fetchPc' \in Address, OnPath(fetchPc')
    PROVE  /\ rob' \in Seq(Entries) /\ Len(rob') = 0
           /\ Oldest' = fetchPc'
           /\ ChainInv'
<1>1. rob' \in Seq(Entries) /\ Len(rob') = 0
  BY EmptySeq
<1>2. Oldest' = fetchPc'
  BY DEF Oldest
<1>3. OnPath(Oldest)'
  BY <1>2 DEF OnPath
<1> QED
  BY <1>1, <1>2, <1>3 DEF ChainInv

(* Instruction n is done; what was fetched behind it stays. *)
LEMMA MarkedDone ==
    ASSUME TypeInv, ChainInv, NEW n \in 1 .. Len(rob),
           rob[n].next = Target(rob[n].pc),
           rob' = WithDone(rob, n), fetchPc' = fetchPc
    PROVE  /\ rob' \in Seq(Entries) /\ Len(rob') = Len(rob)
           /\ \A m \in 1 .. Len(rob) : /\ rob'[m].pc = rob[m].pc
                                       /\ rob'[m].next = rob[m].next
                                       /\ rob'[m].done = IF m = n THEN TRUE ELSE rob[m].done
           /\ Oldest' = Oldest
           /\ ChainInv'
<1>1. /\ rob' \in Seq(Entries) /\ Len(rob') = Len(rob)
      /\ \A m \in 1 .. Len(rob) : /\ rob'[m].pc = rob[m].pc
                                  /\ rob'[m].next = rob[m].next
                                  /\ rob'[m].done = IF m = n THEN TRUE ELSE rob[m].done
  <2>1. rob \in Seq(Entries)
    BY DEF TypeInv
  <2> QED
    BY <2>1, SetDone
<1>2. Len(rob) \in Nat /\ (rob = << >> <=> Len(rob) = 0) /\ (rob' = << >> <=> Len(rob') = 0)
  BY <1>1, EntryFacts, EmptySeq
<1>3. Oldest' = Oldest
  <2>1. 1 \in 1 .. Len(rob) /\ rob # << >> /\ rob' # << >>
    BY <1>1, <1>2
  <2>2. rob'[1].pc = rob[1].pc
    BY <1>1, <2>1
  <2> QED
    BY <2>1, <2>2 DEF Oldest
<1>4. OnPath(Oldest)'
  BY <1>3 DEF ChainInv, OnPath
<1>5. ASSUME NEW m \in 1 .. Len(rob)
      PROVE  /\ rob'[m].pc.part # "end"
             /\ rob'[m].pc.part # "branch" => rob'[m].next = Target(rob'[m].pc)
             /\ (IF m = Len(rob) THEN fetchPc' ELSE rob'[m + 1].pc) = Follows(rob'[m])
  <2>1. /\ rob[m].pc.part # "end"
        /\ rob[m].pc.part # "branch" => rob[m].next = Target(rob[m].pc)
        /\ (IF m = Len(rob) THEN fetchPc ELSE rob[m + 1].pc) = Follows(rob[m])
    BY DEF ChainInv
  <2>2. m # Len(rob) => m + 1 \in 1 .. Len(rob)
    BY <1>2
  <2>3. Follows(rob'[m]) = Follows(rob[m])
    BY <1>1 DEF Follows
  <2> QED
    BY <1>1, <2>1, <2>2, <2>3
<1>6. Len(rob') = Len(rob)
  BY <1>1
<1>7. ChainInv'
  BY <1>4, <1>5, <1>6 DEF ChainInv, Follows, Target, LoopBack, AfterLoop, IterationStart, At, End
<1> QED
  BY <1>1, <1>3, <1>7

LEMMA HeadFacts ==
    ASSUME TypeInv, ChainInv, rob # << >>
    PROVE  /\ 1 \in 1 .. Len(rob) /\ Oldest = rob[1].pc
           /\ Oldest \in Address /\ Oldest.part # "end" /\ OnPath(Oldest)
<1>1. 1 \in 1 .. Len(rob)
  <2>1. Len(rob) \in Nat /\ Len(rob) # 0
    BY EntryFacts
  <2> QED
    BY <2>1
<1>2. Oldest = rob[1].pc /\ Oldest \in Address
  BY EntryFacts DEF Oldest
<1> QED
  BY <1>1, <1>2 DEF ChainInv

(* The oldest instruction leaves, and what was fetched behind it stays. *)
LEMMA Retired ==
    ASSUME TypeInv, ChainInv, rob # << >>, Follows(rob[1]) = Target(rob[1].pc),
           rob' = Tail(rob), fetchPc' = fetchPc
    PROVE  /\ rob' \in Seq(Entries) /\ Len(rob') = Len(rob) - 1
           /\ \A m \in 1 .. Len(rob') : m + 1 \in 1 .. Len(rob) /\ rob'[m] = rob[m + 1]
           /\ Oldest' = Target(Oldest)
           /\ ChainInv'
<1>1. /\ rob' \in Seq(Entries) /\ Len(rob') = Len(rob) - 1
      /\ \A m \in 1 .. Len(rob') : rob'[m] = rob[m + 1]
  BY HeadTailProperties DEF TypeInv
<1>2. Len(rob) \in Nat /\ Len(rob) # 0 /\ (rob' = << >> <=> Len(rob') = 0)
  BY <1>1, EntryFacts, EmptySeq
<1>3. \A m \in 1 .. Len(rob') : m + 1 \in 1 .. Len(rob) /\ rob'[m] = rob[m + 1]
  BY <1>1, <1>2
<1>4. \A m \in 1 .. Len(rob) :
          /\ rob[m].pc.part # "end"
          /\ rob[m].pc.part # "branch" => rob[m].next = Target(rob[m].pc)
          /\ (IF m = Len(rob) THEN fetchPc ELSE rob[m + 1].pc) = Follows(rob[m])
  BY DEF ChainInv
<1>5. Oldest' = Target(Oldest)
  <2>1. 1 \in 1 .. Len(rob)
    BY <1>2
  <2>2. (IF 1 = Len(rob) THEN fetchPc ELSE rob[1 + 1].pc) = Target(rob[1].pc)
    BY <1>4, <2>1
  <2> QED
    BY <1>1, <1>2, <1>3, <2>2 DEF Oldest
<1>6. OnPath(Oldest)'
  <2>1. Oldest \in Address /\ OnPath(Oldest) /\ Oldest.part # "end"
    <3>1. 1 \in 1 .. Len(rob)
      BY <1>2
    <3> QED
      BY <1>4, <3>1, EntryFacts DEF ChainInv, Oldest
  <2> QED
    BY <1>5, <2>1, TargetOnPath DEF OnPath
<1>7. ASSUME NEW m \in 1 .. Len(rob')
      PROVE  /\ rob'[m].pc.part # "end"
             /\ rob'[m].pc.part # "branch" => rob'[m].next = Target(rob'[m].pc)
             /\ (IF m = Len(rob') THEN fetchPc' ELSE rob'[m + 1].pc) = Follows(rob'[m])
  <2>1. m + 1 \in 1 .. Len(rob) /\ rob'[m] = rob[m + 1]
    BY <1>3
  <2>2. m # Len(rob') => rob'[m + 1] = rob[(m + 1) + 1]
    <3>1. m # Len(rob') => m + 1 \in 1 .. Len(rob')
      <4>1. Len(rob') \in Nat
        BY <1>1, <1>2
      <4> QED
        BY <4>1
    <3> QED
      BY <1>3, <3>1
  <2>3. m = Len(rob') <=> m + 1 = Len(rob)
    BY <1>1, <1>2
  <2>4. (IF m + 1 = Len(rob) THEN fetchPc ELSE rob[(m + 1) + 1].pc) = Follows(rob[m + 1])
    BY <1>4, <2>1
  <2>5. /\ rob[m + 1].pc.part # "end"
        /\ rob[m + 1].pc.part # "branch" => rob[m + 1].next = Target(rob[m + 1].pc)
    BY <1>4, <2>1
  <2> QED
    BY <2>1, <2>2, <2>3, <2>4, <2>5
<1> QED
  BY <1>1, <1>3, <1>5, <1>6, <1>7 DEF ChainInv, Follows, Target, LoopBack, AfterLoop, IterationStart, At, End

-----------------------------------------------------------------------------
(* How the log follows the oldest instruction. *)

(* The oldest instruction and the log stay.  Quiet says that what is newly *)
(* done in flight is not a custom instruction.                             *)
Quiet ==
    /\ InOrder => \A n \in 1 .. Len(rob') : rob'[n].done => rob'[n].pc.part = "load"
    /\ \A n \in 1 .. Len(rob') :
          rob'[n].done /\ rob'[n].pc.part = "op" =>
              \E m \in 1 .. Len(rob) : rob[m].done /\ rob[m].pc = rob'[n].pc

LEMMA QuietStep ==
    ASSUME InOrderInv, BehindInv, cpu' = cpu, Oldest' = Oldest, Log' = Log,
           Known => Quiet,
           sim' # "running" => Oldest.part # "svc" \/ sim # "running"
    PROVE  InOrderInv' /\ BehindInv'
<1>1. Known' = Known /\ InOrder' = InOrder
  BY DEF Known, InOrder
<1>2. Upcoming(Oldest)' = Upcoming(Oldest) /\ ProgramRun(Log)' = ProgramRun(Log)
  BY DEF Upcoming, NextOp, ProgramRun
<1>3. InOrderInv'
  BY <1>1, <1>2 DEF InOrderInv, Quiet
<1>4. ASSUME Known
      PROVE  \A n \in 1 .. Len(rob') :
                rob'[n].done /\ rob'[n].pc.part = "op" =>
                    Has(Log', <<rob'[n].pc.p, rob'[n].pc.l, rob'[n].pc.n>>)
  BY <1>4 DEF Quiet, BehindInv
<1>5. ASSUME Known, Oldest'.part # "svc" \/ sim' # "running",
             NEW l \in 1 .. 3, NEW n \in 0 .. Iterations[l] - 1, Before(l, n, Oldest')
      PROVE  Has(Log', <<Oldest'.p, l, n>>)
  BY <1>5 DEF BehindInv
<1>6. BehindInv'
  BY <1>1, <1>4, <1>5 DEF BehindInv, Before, Has
<1> QED
  BY <1>3, <1>6

(* A longer log has what the log had, and what was appended. *)
LEMMA HasAppended ==
    ASSUME NEW log \in Seq(Ops), NEW op \in Ops
    PROVE  /\ Has(Append(log, op), op)
           /\ \A o : Has(log, o) => Has(Append(log, op), o)
<1> DEFINE new == Append(log, op)
<1>1. /\ new \in Seq(Ops) /\ Len(log) \in Nat /\ Len(new) = Len(log) + 1
      /\ \A k \in 1 .. Len(log) : new[k] = log[k]
      /\ new[Len(log) + 1] = op
      /\ DOMAIN log = 1 .. Len(log)
  BY AppendProperties, LenProperties
<1> HIDE DEF new
<1>2. DOMAIN new = 1 .. Len(log) + 1
  BY <1>1, LenProperties
<1>3. Has(new, op)
  <2>1. Len(log) + 1 \in DOMAIN new
    BY <1>1, <1>2
  <2> QED
    BY <1>1, <2>1 DEF Has
<1>4. ASSUME NEW o, Has(log, o)
      PROVE  Has(new, o)
  <2>1. PICK k \in 1 .. Len(log) : log[k] = o
    BY <1>1, <1>4 DEF Has
  <2>2. k \in DOMAIN new /\ new[k] = o
    BY <1>1, <1>2, <2>1
  <2> QED
    BY <2>2 DEF Has
<1> QED
  BY <1>3, <1>4 DEF new

LEMMA AppendedRun ==
    ASSUME NEW log \in Seq(Ops), NEW op \in Ops, ProgramRun(log),
           IF log = << >> THEN \E p \in 1 .. Products : op = <<p, 1, 0>>
                          ELSE op = NextOp(log[Len(log)])
    PROVE  ProgramRun(Append(log, op))
<1> DEFINE new == Append(log, op)
<1>1. /\ Len(log) \in Nat /\ Len(new) = Len(log) + 1
      /\ \A k \in 1 .. Len(log) : new[k] = log[k]
      /\ new[Len(log) + 1] = op
      /\ log = << >> <=> Len(log) = 0
  BY AppendProperties, LenProperties, EmptySeq
<1> HIDE DEF new
<1>2. \E p \in 1 .. Products : new[1] = <<p, 1, 0>>
  <2>1. CASE log = << >>
    BY <1>1, <2>1
  <2>2. CASE log # << >>
    <3>1. 1 \in 1 .. Len(log)
      BY <1>1, <2>2
    <3> QED
      BY <1>1, <2>2, <3>1 DEF ProgramRun
  <2> QED
    BY <2>1, <2>2
<1>3. ASSUME NEW k \in 1 .. Len(new) - 1
      PROVE  new[k + 1] = NextOp(new[k])
  <2>1. k \in 1 .. Len(log) /\ log # << >> /\ new[k] = log[k]
    BY <1>1
  <2>2. CASE k = Len(log)
    <3>1. new[k + 1] = op
      BY <1>1, <2>2
    <3> QED
      BY <2>1, <2>2, <3>1
  <2>3. CASE k # Len(log)
    <3>1. k \in 1 .. Len(log) - 1 /\ k + 1 \in 1 .. Len(log)
      BY <1>1, <2>1, <2>3
    <3>2. new[k + 1] = log[k + 1]
      BY <1>1, <3>1
    <3> QED
      BY <2>1, <3>1, <3>2 DEF ProgramRun
  <2> QED
    BY <2>2, <2>3
<1> QED
  BY <1>2, <1>3 DEF ProgramRun, new

(* The oldest instruction leaves and the program goes on behind it.  In    *)
(* order, a custom instruction is executed with that; out of order, it has *)
(* been.                                                                   *)
LEMMA AdvanceStep ==
    ASSUME TypeInv, ChainInv, InOrderInv, BehindInv, cpu' = cpu,
           Oldest.part # "end", Oldest' = Target(Oldest),
           Known' => Known /\ Quiet,
           Known' /\ InOrder /\ Oldest.part = "op" =>
               Log' = Append(Log, <<Oldest.p, Oldest.l, Oldest.n>>),
           Known' /\ ~ (InOrder /\ Oldest.part = "op") => Log' = Log,
           Known /\ ~ InOrder /\ Oldest.part = "op" =>
               Has(Log, <<Oldest.p, Oldest.l, Oldest.n>>)
    PROVE  InOrderInv' /\ BehindInv'
<1> DEFINE op == <<Oldest.p, Oldest.l, Oldest.n>>
<1>0. Oldest \in Address /\ OnPath(Oldest)
  BY EntryFacts DEF ChainInv
<1>1. /\ InOrder' = InOrder
      /\ Oldest.part = "op" => op \in Ops /\ Oldest.l # 4
  <2>1. Oldest.part = "op" =>
          Oldest.p \in 1 .. Products /\ Oldest.l \in 1 .. 3 /\ Oldest.n \in Nat
    BY <1>0, AddressFields, IterationFacts
  <2> QED
    BY <2>1 DEF InOrder, Ops
<1>2. Upcoming(Oldest)' = IF Oldest.part = "op" THEN NextOp(op) ELSE Upcoming(Oldest)
  <2>1. Upcoming(Oldest)' = Upcoming(Target(Oldest))
    BY DEF Upcoming, NextOp
  <2> QED
    BY <1>0, <2>1, UpcomingStep
<1>3. ASSUME Known', InOrder
      PROVE  /\ ProgramRun(Log')
             /\ IF Log' = << >> THEN \E p \in 1 .. Products : Upcoming(Oldest)' = <<p, 1, 0>>
                                ELSE Upcoming(Oldest)' = NextOp(Log'[Len(Log')])
  <2>1. /\ ProgramRun(Log)
        /\ IF Log = << >> THEN \E p \in 1 .. Products : Upcoming(Oldest) = <<p, 1, 0>>
                          ELSE Upcoming(Oldest) = NextOp(Log[Len(Log)])
    BY <1>3 DEF InOrderInv
  <2>2. CASE Oldest.part # "op"
    <3>1. Log' = Log /\ Upcoming(Oldest)' = Upcoming(Oldest)
      BY <1>2, <1>3, <2>2
    <3> QED
      BY <2>1, <3>1
  <2>3. CASE Oldest.part = "op"
    <3>1. op \in Ops /\ Upcoming(Oldest) = op
      BY <1>1, <2>3 DEF Upcoming
    <3>2. Log \in Seq(Ops) /\ Log' = Append(Log, op)
      BY <1>3, <2>3, LogFacts
    <3> HIDE DEF op
    <3>3. ProgramRun(Append(Log, op))
      BY <2>1, <3>1, <3>2, AppendedRun
    <3>4. /\ Append(Log, op) # << >>
          /\ Append(Log, op)[Len(Append(Log, op))] = op
      BY <3>1, <3>2, AppendProperties, LenProperties
    <3> QED
      BY <1>2, <2>3, <3>2, <3>3, <3>4
  <2> QED
    BY <2>2, <2>3
<1>4. InOrderInv'
  <2>1. InOrder /\ Known' =>
          \A n \in 1 .. Len(rob') : rob'[n].done => rob'[n].pc.part = "load"
    BY DEF Quiet
  <2>2. ProgramRun(Log)' = ProgramRun(Log')
    BY DEF ProgramRun, NextOp
  <2>3. NextOp(Log[Len(Log)])' = NextOp(Log'[Len(Log')])
    BY DEF NextOp
  <2> QED
    BY <1>1, <1>3, <2>1, <2>2, <2>3 DEF InOrderInv
<1>5. ASSUME Known', NEW o, Has(Log, o)
      PROVE  Has(Log', o)
  <2>1. CASE Log' = Log
    BY <1>5, <2>1 DEF Has
  <2>2. CASE InOrder /\ Oldest.part = "op"
    <3>1. Log \in Seq(Ops) /\ Log' = Append(Log, op)
      BY <1>5, <2>2, LogFacts
    <3> QED
      BY <1>1, <1>5, <2>2, <3>1, HasAppended
  <2> QED
    BY <1>5, <2>1, <2>2
<1>6. ASSUME Known', Oldest.part = "op"
      PROVE  Has(Log', op)
  <2>1. CASE InOrder
    <3>1. Log \in Seq(Ops) /\ Log' = Append(Log, op)
      BY <1>6, <2>1, LogFacts
    <3> QED
      BY <1>1, <1>6, <3>1, HasAppended
  <2>2. CASE ~ InOrder
    BY <1>5, <1>6, <2>2
  <2> QED
    BY <2>1, <2>2
<1>7. ASSUME Known', NEW l \in 1 .. 3, NEW n \in 0 .. Iterations[l] - 1, Before(l, n, Oldest')
      PROVE  Has(Log', <<Oldest'.p, l, n>>)
  <2>1. /\ Oldest.part # "svc" /\ Oldest'.p = Oldest.p
        /\ Before(l, n, Oldest) \/ (Oldest.part = "op" /\ l = Oldest.l /\ n = Oldest.n)
    BY <1>0, <1>7, BeforeStep
  <2>2. CASE Before(l, n, Oldest)
    <3>1. Has(Log, <<Oldest.p, l, n>>)
      BY <1>7, <2>1, <2>2 DEF BehindInv
    <3> QED
      BY <1>5, <1>7, <2>1, <3>1
  <2>3. CASE Oldest.part = "op" /\ l = Oldest.l /\ n = Oldest.n
    BY <1>6, <1>7, <2>1, <2>3
  <2> QED
    BY <2>1, <2>2, <2>3
<1>8. ASSUME Known'
      PROVE  \A n \in 1 .. Len(rob') :
                rob'[n].done /\ rob'[n].pc.part = "op" =>
                    Has(Log', <<rob'[n].pc.p, rob'[n].pc.l, rob'[n].pc.n>>)
  BY <1>5, <1>8 DEF Quiet, BehindInv
<1>9. BehindInv'
  BY <1>7, <1>8 DEF BehindInv, Before, Has
<1> QED
  BY <1>4, <1>9

-----------------------------------------------------------------------------
(* The steps. *)

LEMMA PredictedAddress ==
    ASSUME NEW a \in Address, a.part # "end", NEW next \in Predictions(a)
    PROVE  next \in Address /\ (a.part # "branch" => next = Target(a))
<1>1. CASE next = Target(a)
  BY <1>1, TargetFields
<1>2. CASE a.part = "branch" /\ next \in {LoopBack(a), AfterLoop(a.p, a.l)}
  <2>1. a.p \in 1 .. Products /\ a.l \in 1 .. 3 /\ a.n + 1 \in Nat
    BY <1>2, AddressFields, IterationFacts
  <2> QED
    BY <1>2, <2>1, StartAddress, AfterLoopAddress DEF LoopBack
<1> QED
  BY <1>1, <1>2 DEF Predictions

LEMMA FetchStep ==
    ASSUME GemInv, Fetch
    PROVE  GemInv'
<1>0. TypeInv /\ ChainInv /\ InOrderInv /\ BehindInv /\ DrainInv
  BY DEF GemInv
<1>1. PICK next \in Predictions(fetchPc) :
        /\ rob' = Append(rob, [pc |-> fetchPc, next |-> next, done |-> FALSE])
        /\ fetchPc' = next
  BY DEF Fetch
<1>2. fetchPc \in Address /\ fetchPc.part # "end"
  <2>1. fetchPc \in Address /\ fetchPc # End
    BY <1>0 DEF TypeInv, Fetch
  <2>2. fetchPc.part = "end" => fetchPc.l = 4 /\ fetchPc.n = 0 /\ fetchPc.p = Products
    BY <2>1, AddressFields
  <2>3. fetchPc = At(fetchPc.p, fetchPc.l, fetchPc.n, fetchPc.part)
    BY <2>1, AddressFields
  <2> QED
    BY <2>1, <2>2, <2>3 DEF End
<1>3. next \in Address /\ (fetchPc.part # "branch" => next = Target(fetchPc))
  BY <1>2, PredictedAddress
<1> DEFINE e == [pc |-> fetchPc, next |-> next, done |-> FALSE]
<1>4. e \in Entries /\ e.pc = fetchPc /\ e.next = next /\ e.done = FALSE
  BY <1>2, <1>3 DEF Entries
<1> HIDE DEF e
<1>5. rob \in Seq(Entries) /\ rob' = Append(rob, e)
  BY <1>0, <1>1 DEF TypeInv, e
<1>6. /\ rob' \in Seq(Entries) /\ rob' # << >> /\ Len(rob') = Len(rob) + 1
      /\ \A m \in 1 .. Len(rob) : rob'[m] = rob[m]
      /\ rob'[Len(rob) + 1] = e
      /\ Len(rob) \in Nat /\ (rob = << >> <=> Len(rob) = 0)
  BY <1>4, <1>5, AppendProperties, LenProperties, EmptySeq
<1>7. Oldest' = Oldest
  <2>1. CASE rob = << >>
    BY <1>4, <1>6, <2>1 DEF Oldest
  <2>2. CASE rob # << >>
    <3>1. 1 \in 1 .. Len(rob)
      BY <1>6, <2>2
    <3> QED
      BY <1>6, <2>2, <3>1 DEF Oldest
  <2> QED
    BY <2>1, <2>2
<1>8. cpu' = cpu /\ tiles' = tiles /\ sim' = sim /\ disk' = disk /\ Active
  BY DEF Fetch
<1>9. TypeInv'
  BY <1>0, <1>1, <1>3, <1>6, <1>8 DEF TypeInv
<1>10. ChainInv'
  <2>1. ASSUME NEW m \in 1 .. Len(rob')
        PROVE  /\ rob'[m].pc.part # "end"
               /\ rob'[m].pc.part # "branch" => rob'[m].next = Target(rob'[m].pc)
               /\ (IF m = Len(rob') THEN fetchPc' ELSE rob'[m + 1].pc) = Follows(rob'[m])
    <3>1. CASE m = Len(rob')
      <4>1. rob'[m] = e
        BY <1>6, <3>1
      <4> QED
        BY <1>1, <1>2, <1>3, <1>4, <3>1, <4>1 DEF Follows
    <3>2. CASE m # Len(rob')
      <4>1. m \in 1 .. Len(rob)
        BY <1>6, <3>2
      <4>2. rob'[m] = rob[m]
        BY <1>6, <4>1
      <4>3. /\ rob[m].pc.part # "end"
            /\ rob[m].pc.part # "branch" => rob[m].next = Target(rob[m].pc)
            /\ (IF m = Len(rob) THEN fetchPc ELSE rob[m + 1].pc) = Follows(rob[m])
        BY <1>0, <4>1 DEF ChainInv
      <4>4. m = Len(rob) => rob'[m + 1].pc = fetchPc
        BY <1>4, <1>6
      <4>5. m # Len(rob) => rob'[m + 1] = rob[m + 1]
        BY <1>6, <4>1
      <4> QED
        BY <3>2, <4>2, <4>3, <4>4, <4>5
    <3> QED
      BY <3>1, <3>2
  <2>2. OnPath(Oldest)'
    BY <1>0, <1>7 DEF ChainInv, OnPath
  <2> QED
    BY <2>1, <2>2 DEF ChainInv, Follows, Target, LoopBack, AfterLoop, IterationStart, At, End
<1>11. InOrderInv' /\ BehindInv'
  <2>1. \A m \in 1 .. Len(rob') : rob'[m].done => m \in 1 .. Len(rob) /\ rob'[m] = rob[m]
    <3>1. ASSUME NEW m \in 1 .. Len(rob'), rob'[m].done
          PROVE  m \in 1 .. Len(rob)
      <4>1. m # Len(rob) + 1
        BY <1>4, <1>6, <3>1
      <4> QED
        BY <1>6, <4>1
    <3> QED
      BY <1>6, <3>1
  <2>2. Known => Quiet
    BY <1>0, <2>1 DEF Quiet, InOrderInv
  <2>3. Log' = Log
    BY <1>8 DEF Log
  <2> QED
    BY <1>0, <1>7, <1>8, <2>2, <2>3, QuietStep
<1>12. DrainInv'
  <2>1. rob # << >> => rob'[1] = rob[1]
    BY <1>6
  <2> QED
    BY <1>0, <1>6, <1>7, <1>8, <2>1 DEF DrainInv, OutOfOrder, Active
<1> QED
  BY <1>9, <1>10, <1>11, <1>12 DEF GemInv

(* An instruction that is not a custom one is done: its log entry is not   *)
(* due.                                                                    *)
LEMMA DoneStep ==
    ASSUME GemInv, NEW n \in 1 .. Len(rob), rob[n].next = Target(rob[n].pc),
           rob' = WithDone(rob, n), fetchPc' = fetchPc,
           rob[n].pc.part # "op", InOrder => rob[n].pc.part = "load",
           cpu' = cpu, tiles' = tiles, disk' = disk,
           \/ sim' = sim /\ Active
           \/ sim' = "draining" /\ OutOfOrder /\ n = 1 /\ rob[1].pc.part = "m5checkpoint"
    PROVE  GemInv'
<1>0. TypeInv /\ ChainInv /\ InOrderInv /\ BehindInv /\ DrainInv
  BY DEF GemInv
<1>1. /\ rob' \in Seq(Entries) /\ Len(rob') = Len(rob)
      /\ \A m \in 1 .. Len(rob) : /\ rob'[m].pc = rob[m].pc
                                  /\ rob'[m].next = rob[m].next
                                  /\ rob'[m].done = IF m = n THEN TRUE ELSE rob[m].done
      /\ Oldest' = Oldest
      /\ ChainInv'
  BY <1>0, MarkedDone
<1>2. TypeInv'
  BY <1>0, <1>1 DEF TypeInv
<1>3. InOrderInv' /\ BehindInv'
  <2>1. \A m \in 1 .. Len(rob') : rob'[m].done => m = n \/ rob[m].done
    BY <1>1
  <2>2. Known => Quiet
    BY <1>0, <1>1, <2>1 DEF Quiet, InOrderInv
  <2>3. Log' = Log
    BY DEF Log
  <2>4. sim' # "running" => Oldest.part # "svc" \/ sim # "running"
    <3>1. n = 1 => rob # << >>
      BY <1>0, EntryFacts
    <3> QED
      BY <3>1 DEF Oldest
  <2> QED
    BY <1>0, <1>1, <2>2, <2>3, <2>4, QuietStep
<1>4. DrainInv'
  <2>1. 1 \in 1 .. Len(rob) /\ rob # << >> /\ rob' # << >>
    BY <1>0, <1>1, EntryFacts, EmptySeq
  <2>2. /\ rob'[1].pc = rob[1].pc
        /\ rob'[1].done = IF 1 = n THEN TRUE ELSE rob[1].done
    BY <1>1, <2>1
  <2> QED
    BY <1>0, <1>1, <2>1, <2>2 DEF DrainInv, OutOfOrder, Active
<1> QED
  BY <1>1, <1>2, <1>3, <1>4 DEF GemInv

LEMMA LoadDataStep ==
    ASSUME GemInv, NEW n \in DOMAIN rob, LoadData(n)
    PROVE  GemInv'
<1>1. n \in 1 .. Len(rob) /\ ChainInv
  BY EntryFacts DEF GemInv
<1>2. rob[n].pc.part = "load" /\ rob[n].next = Target(rob[n].pc)
  BY <1>1 DEF LoadData, ChainInv
<1>3. rob' = WithDone(rob, n)
  BY DEF LoadData, WithDone
<1> QED
  BY <1>1, <1>2, <1>3, DoneStep DEF LoadData

LEMMA ExecuteNonSpecStep ==
    ASSUME GemInv, NEW n \in DOMAIN rob, ExecuteNonSpec(n)
    PROVE  GemInv'
<1>1. n \in 1 .. Len(rob) /\ ChainInv
  BY EntryFacts DEF GemInv
<1>2. rob[n].pc.part \in {"m5checkpoint", "svc"} /\ rob[n].next = Target(rob[n].pc)
  BY <1>1 DEF ExecuteNonSpec, ChainInv
<1>3. rob' = WithDone(rob, n)
  BY DEF ExecuteNonSpec, WithDone
<1>4. OutOfOrder /\ ~ InOrder /\ n = 1 /\ Active
  BY DEF ExecuteNonSpec, OutOfOrder, InOrder, Active
<1>5. \/ sim' = sim /\ Active
      \/ sim' = "draining" /\ OutOfOrder /\ n = 1 /\ rob[1].pc.part = "m5checkpoint"
  BY <1>4 DEF ExecuteNonSpec
<1>6. fetchPc' = fetchPc /\ cpu' = cpu /\ tiles' = tiles /\ disk' = disk
  BY DEF ExecuteNonSpec
<1> QED
  BY <1>1, <1>2, <1>3, <1>4, <1>5, <1>6, DoneStep

LEMMA ResolveBranchStep ==
    ASSUME GemInv, NEW n \in DOMAIN rob, ResolveBranch(n)
    PROVE  GemInv'
<1>0. TypeInv /\ ChainInv /\ InOrderInv /\ BehindInv /\ DrainInv
  BY DEF GemInv
<1>1. /\ n \in 1 .. Len(rob) /\ Len(rob) \in Nat /\ rob \in Seq(Entries)
      /\ rob # << >>
  BY <1>0, EntryFacts DEF TypeInv
<1>2. /\ Active /\ OutOfOrder /\ ~ InOrder
      /\ rob[n].pc.part = "branch"
      /\ cpu' = cpu /\ tiles' = tiles /\ sim' = sim /\ disk' = disk
  BY DEF ResolveBranch, OutOfOrder, InOrder
<1>3. CASE rob[n].next = Target(rob[n].pc)
  <2>1. rob' = WithDone(SubSeq(rob, 1, Len(rob)), n) /\ fetchPc' = fetchPc
    BY <1>3 DEF ResolveBranch, WithDone
  <2>2. SubSeq(rob, 1, Len(rob)) = rob
    BY <1>1, SubSeqFull
  <2> QED
    BY <1>1, <1>2, <1>3, <2>1, <2>2, DoneStep
<1>4. CASE rob[n].next # Target(rob[n].pc)
  <2> DEFINE s == SubSeq(rob, 1, n)
  <2>1. rob' = WithDone(s, n) /\ fetchPc' = Target(rob[n].pc)
    BY <1>4 DEF ResolveBranch, WithDone
  <2>2. s \in Seq(Entries) /\ Len(s) = n /\ \A m \in 1 .. n : s[m] = rob[m]
    <3>1. \A m \in 1 .. n : rob[m] \in Entries /\ 1 + m - 1 = m
      BY <1>1, ElementOfSeq
    <3>2. /\ s \in Seq(Entries)
          /\ Len(s) = IF 1 <= n THEN n - 1 + 1 ELSE 0
          /\ \A m \in 1 .. n - 1 + 1 : s[m] = rob[1 + m - 1]
      BY <1>1, <3>1, SubSeqProperties
    <3> QED
      BY <1>1, <3>1, <3>2
  <2> HIDE DEF s
  <2>3. /\ rob' \in Seq(Entries) /\ Len(rob') = n
        /\ \A m \in 1 .. n : /\ rob'[m].pc = rob[m].pc
                             /\ rob'[m].next = rob[m].next
                             /\ rob'[m].done = IF m = n THEN TRUE ELSE rob[m].done
    <3>1. n \in 1 .. Len(s)
      BY <1>1, <2>2
    <3>2. /\ rob' \in Seq(Entries) /\ Len(rob') = Len(s)
          /\ \A m \in 1 .. Len(s) : /\ rob'[m].pc = s[m].pc
                                    /\ rob'[m].next = s[m].next
                                    /\ rob'[m].done = IF m = n THEN TRUE ELSE s[m].done
      BY <2>1, <2>2, <3>1, SetDone
    <3> QED
      BY <2>2, <3>2
  <2>4. 1 \in 1 .. n /\ rob' # << >> /\ \A m \in 1 .. n : m \in 1 .. Len(rob)
    BY <1>1, <2>3, EmptySeq
  <2>5. \A m \in 1 .. Len(rob) :
          /\ rob[m].pc.part # "end"
          /\ rob[m].pc.part # "branch" => rob[m].next = Target(rob[m].pc)
          /\ (IF m = Len(rob) THEN fetchPc ELSE rob[m + 1].pc) = Follows(rob[m])
    BY <1>0 DEF ChainInv
  <2>6. rob'[1].pc = rob[1].pc /\ Oldest' = Oldest
    BY <1>1, <2>3, <2>4 DEF Oldest
  <2>7. TypeInv'
    <3>1. rob[n].pc \in Address /\ rob[n].pc.part # "end"
      BY <1>0, <1>1, <1>2, EntryFacts
    <3>2. fetchPc' \in Address
      BY <2>1, <3>1, TargetFields
    <3> QED
      BY <1>0, <1>2, <2>3, <3>2 DEF TypeInv
  <2>8. ChainInv'
    <3>1. ASSUME NEW m \in 1 .. n
          PROVE  /\ rob'[m].pc.part # "end"
                 /\ rob'[m].pc.part # "branch" => rob'[m].next = Target(rob'[m].pc)
                 /\ (IF m = n THEN fetchPc' ELSE rob'[m + 1].pc) = Follows(rob'[m])
      <4>1. m # n => m + 1 \in 1 .. n /\ m # Len(rob)
        BY <1>1
      <4>2. m # n => Follows(rob'[m]) = Follows(rob[m])
        BY <2>3 DEF Follows
      <4>3. m = n => Follows(rob'[m]) = Target(rob[m].pc)
        BY <2>3 DEF Follows
      <4> QED
        BY <2>1, <2>3, <2>4, <2>5, <4>1, <4>2, <4>3
    <3>2. OnPath(Oldest)'
      BY <1>0, <2>6 DEF ChainInv, OnPath
    <3>3. Len(rob') = n
      BY <2>3
    <3> QED
      BY <3>1, <3>2, <3>3
      DEF ChainInv, Follows, Target, LoopBack, AfterLoop, IterationStart, At, End
  <2>9. InOrderInv' /\ BehindInv'
    <3>1. \A m \in 1 .. Len(rob') : rob'[m].done /\ rob'[m].pc.part = "op" =>
            m \in 1 .. Len(rob) /\ rob[m].done /\ rob[m].pc = rob'[m].pc
      BY <1>2, <2>3, <2>4
    <3>2. Known => Quiet
      BY <1>2, <3>1 DEF Quiet
    <3>3. Log' = Log
      BY <1>2 DEF Log
    <3> QED
      BY <1>0, <1>2, <2>6, <3>2, <3>3, QuietStep
  <2>10. DrainInv'
    <3>1. sim = "draining" => rob[1].pc.part = "m5checkpoint" /\ rob[1].done /\ n # 1
      BY <1>0, <1>2 DEF DrainInv
    <3>2. n # 1 => rob'[1].done = rob[1].done
      BY <2>3, <2>4
    <3> QED
      BY <1>2, <2>4, <2>6, <3>1, <3>2 DEF DrainInv, Active, OutOfOrder
  <2> QED
    BY <2>7, <2>8, <2>9, <2>10 DEF GemInv
<1> QED
  BY <1>3, <1>4

(* DerivO3CPU executes a custom instruction, maybe out of order: what is   *)
(* done is logged.                                                         *)
LEMMA ExecuteInstStep ==
    ASSUME GemInv, NEW n \in DOMAIN rob, ExecuteInst(n)
    PROVE  GemInv'
<1>0. TypeInv /\ ChainInv /\ InOrderInv /\ BehindInv /\ DrainInv
  BY DEF GemInv
<1>1. /\ n \in 1 .. Len(rob) /\ rob[n].pc \in Address
      /\ rob # << >> /\ Len(rob) \in Nat
  BY <1>0, EntryFacts
<1>2. /\ Active /\ OutOfOrder /\ ~ InOrder
      /\ rob[n].pc.part = "op" /\ Execute(rob[n].pc)
      /\ rob' = WithDone(rob, n)
      /\ cpu' = cpu /\ fetchPc' = fetchPc /\ sim' = sim /\ disk' = disk
  BY DEF ExecuteInst, ReadyToIssue, OutOfOrder, InOrder, WithDone
<1> DEFINE a == rob[n].pc
<1>3. /\ tiles' \in Seq(TileRecords) /\ Len(tiles') > 0
      /\ tiles'[1].live => tiles'[1].log \in Seq(Ops)
      /\ Known' => Known /\ Log' = Append(Log, <<a.p, a.l, a.n>>)
  BY <1>0, <1>1, <1>2, ExecuteFacts
<1>4. /\ rob' \in Seq(Entries) /\ Len(rob') = Len(rob)
      /\ \A m \in 1 .. Len(rob) : /\ rob'[m].pc = rob[m].pc
                                  /\ rob'[m].next = rob[m].next
                                  /\ rob'[m].done = IF m = n THEN TRUE ELSE rob[m].done
      /\ Oldest' = Oldest
      /\ ChainInv'
  <2>1. rob[n].next = Target(rob[n].pc)
    BY <1>0, <1>1, <1>2 DEF ChainInv
  <2> QED
    BY <1>0, <1>1, <1>2, <2>1, MarkedDone
<1>5. TypeInv'
  BY <1>0, <1>2, <1>3, <1>4 DEF TypeInv
<1>6. InOrderInv'
  BY <1>2 DEF InOrderInv, InOrder
<1>7. ASSUME Known'
      PROVE  /\ Has(Log', <<a.p, a.l, a.n>>)
             /\ \A o : Has(Log, o) => Has(Log', o)
  <2>1. Log \in Seq(Ops) /\ Log' = Append(Log, <<a.p, a.l, a.n>>)
    BY <1>0, <1>3, <1>7, LogFacts
  <2>2. a.p \in 1 .. Products /\ a.l \in 1 .. 3 /\ a.n \in Nat
    BY <1>1, <1>2, AddressFields, IterationFacts
  <2>3. <<a.p, a.l, a.n>> \in Ops
    BY <2>2 DEF Ops
  <2> QED
    BY <2>1, <2>3, HasAppended
<1>8. BehindInv'
  <2>1. ASSUME Known', NEW m \in 1 .. Len(rob'), rob'[m].done, rob'[m].pc.part = "op"
        PROVE  Has(Log', <<rob'[m].pc.p, rob'[m].pc.l, rob'[m].pc.n>>)
    <3>1. m \in 1 .. Len(rob) /\ rob'[m].pc = rob[m].pc /\ (m = n \/ rob[m].done)
      BY <1>4, <2>1
    <3>2. CASE m = n
      BY <1>7, <2>1, <3>1, <3>2
    <3>3. CASE rob[m].done
      BY <1>0, <1>3, <1>7, <2>1, <3>1, <3>3 DEF BehindInv
    <3> QED
      BY <3>1, <3>2, <3>3
  <2>2. ASSUME Known', Oldest'.part # "svc" \/ sim' # "running",
               NEW l \in 1 .. 3, NEW k \in 0 .. Iterations[l] - 1, Before(l, k, Oldest')
        PROVE  Has(Log', <<Oldest'.p, l, k>>)
    BY <1>0, <1>2, <1>3, <1>4, <1>7, <2>2 DEF BehindInv
  <2> QED
    BY <2>1, <2>2 DEF BehindInv, Before, Has
<1>9. DrainInv'
  <2>1. 1 \in 1 .. Len(rob) /\ rob' # << >>
    BY <1>1, <1>4, EmptySeq
  <2>2. rob'[1].pc = rob[1].pc /\ rob'[1].done = IF 1 = n THEN TRUE ELSE rob[1].done
    BY <1>4, <2>1
  <2> QED
    BY <1>0, <1>2, <2>1, <2>2 DEF DrainInv, OutOfOrder, Active
<1> QED
  BY <1>4, <1>5, <1>6, <1>8, <1>9 DEF GemInv

LEMMA TrapStep ==
    ASSUME GemInv, Trap
    PROVE  GemInv'
<1>0. TypeInv /\ ChainInv /\ InOrderInv /\ BehindInv /\ DrainInv
  BY DEF GemInv
<1>1. /\ rob' = << >> /\ fetchPc' = Oldest
      /\ cpu' = cpu /\ tiles' = tiles /\ sim' = sim /\ disk' = disk /\ sim = "running"
  BY DEF Trap, Oldest
<1>2. fetchPc' \in Address /\ OnPath(fetchPc')
  BY <1>0, <1>1, EntryFacts DEF ChainInv
<1>3. rob' \in Seq(Entries) /\ Len(rob') = 0 /\ Oldest' = Oldest /\ ChainInv'
  BY <1>1, <1>2, Emptied
<1>4. TypeInv'
  BY <1>0, <1>1, <1>2, <1>3 DEF TypeInv
<1>5. InOrderInv' /\ BehindInv'
  <2>1. Quiet
    BY <1>3 DEF Quiet
  <2>2. Log' = Log
    BY <1>1 DEF Log
  <2> QED
    BY <1>0, <1>1, <1>3, <2>1, <2>2, QuietStep
<1>6. DrainInv'
  BY <1>1 DEF DrainInv
<1> QED
  BY <1>3, <1>4, <1>5, <1>6 DEF GemInv

(* In order: the oldest instruction is executed and leaves. *)
LEMMA CommitInstStep ==
    ASSUME GemInv, CommitInst
    PROVE  GemInv'
<1>0. TypeInv /\ ChainInv /\ InOrderInv /\ BehindInv /\ DrainInv
  BY DEF GemInv
<1> DEFINE a == rob[1].pc
           right == rob[1].next = Target(a)
<1>1. /\ sim = "running" /\ InOrder /\ rob # << >>
      /\ rob' = IF right THEN Tail(rob) ELSE << >>
      /\ fetchPc' = IF right THEN fetchPc ELSE Target(a)
      /\ IF a.part = "op" THEN Execute(a) ELSE UNCHANGED tiles
      /\ sim' = IF a.part = "m5checkpoint" THEN "draining" ELSE sim
      /\ cpu' = cpu /\ disk' = disk
  BY DEF CommitInst
<1>2. /\ 1 \in 1 .. Len(rob) /\ a \in Address /\ a.part # "end" /\ OnPath(a)
      /\ Oldest = a
  BY <1>0, <1>1, HeadFacts
<1>3. Target(a) \in Address /\ OnPath(Target(a))
  BY <1>2, TargetOnPath
<1>4. /\ tiles' \in Seq(TileRecords) /\ Len(tiles') > 0
      /\ tiles'[1].live => tiles'[1].log \in Seq(Ops)
      /\ Known' => Known
      /\ Known' /\ a.part = "op" => Log' = Append(Log, <<a.p, a.l, a.n>>)
      /\ a.part # "op" => Log' = Log
  <2>1. CASE a.part = "op"
    BY <1>0, <1>1, <1>2, <2>1, ExecuteFacts
  <2>2. CASE a.part # "op"
    BY <1>0, <1>1, <2>2 DEF TypeInv, Known, Log
  <2> QED
    BY <2>1, <2>2
<1>5. /\ rob' \in Seq(Entries) /\ fetchPc' \in Address
      /\ Oldest' = Target(Oldest) /\ ChainInv'
      /\ \A m \in 1 .. Len(rob') : m + 1 \in 1 .. Len(rob) /\ rob'[m] = rob[m + 1]
  <2>1. CASE right
    <3>1. Follows(rob[1]) = Target(rob[1].pc)
      BY <2>1 DEF Follows
    <3>2. fetchPc' \in Address
      BY <1>0, <1>1, <2>1 DEF TypeInv
    <3> QED
      BY <1>0, <1>1, <2>1, <3>1, <3>2, Retired
  <2>2. CASE ~ right
    <3>1. rob' = << >> /\ fetchPc' = Target(a)
      BY <1>1, <2>2
    <3>2. rob' \in Seq(Entries) /\ Len(rob') = 0 /\ Oldest' = fetchPc' /\ ChainInv'
      BY <1>3, <3>1, Emptied
    <3> QED
      BY <1>2, <1>3, <3>1, <3>2
  <2> QED
    BY <2>1, <2>2
<1>6. TypeInv'
  BY <1>0, <1>1, <1>4, <1>5 DEF TypeInv
<1>7. InOrderInv' /\ BehindInv'
  <2>1. Known => Quiet
    BY <1>0, <1>1, <1>5 DEF Quiet, InOrderInv
  <2> QED
    BY <1>0, <1>1, <1>2, <1>4, <1>5, <2>1, AdvanceStep
<1>8. DrainInv'
  <2>1. a.part = "m5checkpoint" => Target(a).part = "svc"
    BY <1>2, TargetFields
  <2> QED
    BY <1>1, <1>2, <1>5, <2>1 DEF DrainInv, InOrder, OutOfOrder
<1> QED
  BY <1>5, <1>6, <1>7, <1>8 DEF GemInv

(* DerivO3CPU: a done instruction leaves the head. *)
LEMMA CommitHeadStep ==
    ASSUME GemInv, CommitHead
    PROVE  GemInv'
<1>0. TypeInv /\ ChainInv /\ InOrderInv /\ BehindInv /\ DrainInv
  BY DEF GemInv
<1>1. /\ sim = "running" /\ ~ InOrder /\ rob # << >> /\ rob[1].done
      /\ rob' = Tail(rob)
      /\ cpu' = cpu /\ fetchPc' = fetchPc /\ tiles' = tiles /\ sim' = sim /\ disk' = disk
  BY DEF CommitHead, OutOfOrder, InOrder
<1>2. /\ 1 \in 1 .. Len(rob) /\ Oldest = rob[1].pc /\ Oldest.part # "end"
  BY <1>0, <1>1, HeadFacts
<1>3. /\ rob' \in Seq(Entries)
      /\ Oldest' = Target(Oldest) /\ ChainInv'
      /\ \A m \in 1 .. Len(rob') : m + 1 \in 1 .. Len(rob) /\ rob'[m] = rob[m + 1]
  <2>1. Follows(rob[1]) = Target(rob[1].pc)
    BY <1>1 DEF Follows
  <2> QED
    BY <1>0, <1>1, <2>1, Retired
<1>4. TypeInv'
  BY <1>0, <1>1, <1>3 DEF TypeInv
<1>5. InOrderInv' /\ BehindInv'
  <2>1. Quiet
    BY <1>1, <1>3 DEF Quiet
  <2>2. Log' = Log /\ (Known' => Known)
    BY <1>1 DEF Log, Known
  <2>3. Known /\ Oldest.part = "op" => Has(Log, <<Oldest.p, Oldest.l, Oldest.n>>)
    BY <1>0, <1>1, <1>2 DEF BehindInv
  <2> QED
    BY <1>0, <1>1, <1>2, <1>3, <2>1, <2>2, <2>3, AdvanceStep
<1>6. DrainInv'
  BY <1>1 DEF DrainInv
<1> QED
  BY <1>3, <1>4, <1>5, <1>6 DEF GemInv

(* The tiles of a drained machine are deleted. *)
LEMMA SerializeFacts ==
    ASSUME TypeInv, tiles' = serialize
    PROVE  /\ tiles' \in Seq(TileRecords) /\ Len(tiles') > 0
           /\ ~ tiles'[1].live /\ Log' = Log
<1>1. tiles \in [1 .. Len(tiles) -> TileRecords] /\ Len(tiles) \in Nat
      /\ DOMAIN tiles = 1 .. Len(tiles) /\ 1 \in 1 .. Len(tiles)
  BY LenProperties, LogFacts DEF TypeInv
<1>2. /\ tiles' \in [1 .. Len(tiles) -> TileRecords]
      /\ tiles'[1] = [tiles[1] EXCEPT !.live = FALSE]
  BY <1>1 DEF serialize, TileRecords
<1>3. tiles' \in Seq(TileRecords)
  BY <1>1, <1>2, SeqDef
<1>4. Len(tiles') = Len(tiles)
  BY <1>1, <1>2, <1>3, LenProperties
<1>5. ~ tiles'[1].live /\ tiles'[1].log = tiles[1].log
  <2>1. tiles[1] \in TileRecords
    BY <1>1
  <2> QED
    BY <1>2, <2>1 DEF TileRecords
<1> QED
  BY <1>1, <1>3, <1>4, <1>5 DEF Log

LEMMA CheckpointStep ==
    ASSUME GemInv, Checkpoint
    PROVE  GemInv'
<1>0. TypeInv /\ ChainInv /\ InOrderInv /\ BehindInv /\ DrainInv
  BY DEF GemInv
<1>1. /\ sim = "draining" /\ sim' = "checkpointed"
      /\ rob' = << >> /\ fetchPc' = disk' /\ tiles' = serialize /\ cpu' = cpu
  BY DEF Checkpoint
<1>2. /\ tiles' \in Seq(TileRecords) /\ Len(tiles') > 0
      /\ ~ tiles'[1].live /\ Log' = Log
  BY <1>0, <1>1, SerializeFacts
<1>3. Oldest \in Address /\ OnPath(Oldest)
  BY <1>0, EntryFacts DEF ChainInv
<1>4. ASSUME InOrder
      PROVE  /\ rob' \in Seq(Entries) /\ ChainInv' /\ InOrderInv' /\ BehindInv'
             /\ fetchPc' \in Address /\ fetchPc'.part = "svc"
  <2>1. fetchPc' = Oldest /\ Oldest.part = "svc"
    BY <1>0, <1>1, <1>4 DEF Checkpoint, Oldest, DrainInv, InOrder, OutOfOrder
  <2>2. rob' \in Seq(Entries) /\ Len(rob') = 0 /\ Oldest' = Oldest /\ ChainInv'
    BY <1>1, <1>3, <2>1, Emptied
  <2>3. Quiet
    BY <2>2 DEF Quiet
  <2>4. InOrderInv' /\ BehindInv'
    BY <1>0, <1>1, <1>2, <2>2, <2>3, QuietStep
  <2> QED
    BY <1>3, <2>1, <2>2, <2>4
<1>5. ASSUME ~ InOrder
      PROVE  /\ rob' \in Seq(Entries) /\ ChainInv' /\ InOrderInv' /\ BehindInv'
             /\ fetchPc' \in Address /\ fetchPc'.part = "svc"
  <2>1. /\ rob # << >> /\ rob[1].pc.part = "m5checkpoint" /\ fetchPc' = Target(rob[1].pc)
    BY <1>0, <1>1, <1>5 DEF Checkpoint, DrainInv, InOrder, OutOfOrder
  <2>2. Oldest = rob[1].pc
    BY <2>1 DEF Oldest
  <2>3. Target(Oldest) \in Address /\ OnPath(Target(Oldest)) /\ Target(Oldest).part = "svc"
    BY <1>3, <2>1, <2>2, TargetOnPath, TargetFields
  <2>4. rob' \in Seq(Entries) /\ Len(rob') = 0 /\ Oldest' = Target(Oldest) /\ ChainInv'
    BY <1>1, <2>1, <2>2, <2>3, Emptied
  <2>5. Quiet
    BY <2>4 DEF Quiet
  <2>6. Known' => Known
    BY <1>2 DEF Known
  <2>7. InOrderInv' /\ BehindInv'
    BY <1>0, <1>1, <1>2, <2>1, <2>2, <2>4, <2>5, <2>6, AdvanceStep
  <2> QED
    BY <2>1, <2>2, <2>3, <2>4, <2>7
<1>6. /\ rob' \in Seq(Entries) /\ ChainInv' /\ InOrderInv' /\ BehindInv'
      /\ fetchPc' \in Address /\ fetchPc'.part = "svc"
  BY <1>4, <1>5
<1>7. TypeInv'
  BY <1>0, <1>1, <1>2, <1>6 DEF TypeInv
<1>8. DrainInv'
  <2>1. disk' # NoCheckpoint
    BY <1>1, <1>6, AtFields DEF NoCheckpoint
  <2> QED
    BY <1>1, <2>1 DEF DrainInv, NoCheckpoint, At
<1> QED
  BY <1>6, <1>7, <1>8 DEF GemInv

LEMMA ContinueStep ==
    ASSUME GemInv, Continue
    PROVE  GemInv'
<1>0. TypeInv /\ ChainInv /\ InOrderInv /\ BehindInv /\ DrainInv
  BY DEF GemInv
<1>1. /\ cpu' = cpu /\ fetchPc' = fetchPc /\ rob' = rob /\ tiles' = tiles /\ disk' = disk
      /\ sim' = "running" /\ rob = << >>
  BY <1>0 DEF Continue, cpuVars, DrainInv
<1>2. TypeInv'
  BY <1>0, <1>1 DEF TypeInv
<1>3. Oldest' = Oldest
  BY <1>1 DEF Oldest
<1>4. fetchPc' \in Address /\ OnPath(fetchPc')
  BY <1>0, <1>1 DEF TypeInv, ChainInv, Oldest
<1>5. Len(rob') = 0 /\ ChainInv'
  BY <1>1, <1>4, Emptied
<1>6. InOrderInv' /\ BehindInv'
  <2>1. Quiet
    BY <1>5 DEF Quiet
  <2>2. Log' = Log
    BY <1>1 DEF Log
  <2> QED
    BY <1>0, <1>1, <1>3, <2>1, <2>2, QuietStep
<1>7. DrainInv'
  BY <1>1 DEF DrainInv
<1> QED
  BY <1>2, <1>5, <1>6, <1>7 DEF GemInv

LEMMA NewTilesFacts ==
    /\ NewTiles \in Seq(TileRecords) /\ Len(NewTiles) = NumCpus
    /\ NewTiles[1].live /\ NewTiles[1].log = << >>
<1>1. NewTile \in TileRecords /\ NumCpus \in Nat /\ 1 \in 1 .. NumCpus
  <2>1. << >> \in Seq(Ops)
    BY EmptySeq
  <2> QED
    BY <2>1, GemAssumption DEF NewTile, TileRecords
<1>2. NewTiles \in [1 .. NumCpus -> TileRecords] /\ NewTiles[1] = NewTile
  BY <1>1 DEF NewTiles
<1>3. NewTiles \in Seq(TileRecords)
  BY <1>1, <1>2, SeqDef
<1>4. Len(NewTiles) = NumCpus
  BY <1>1, <1>2, <1>3, LenProperties
<1> QED
  BY <1>2, <1>3, <1>4 DEF NewTile

(* A tile that has executed nothing, at the beginning of a product. *)
LEMMA RestoreStep ==
    ASSUME GemInv, Restore
    PROVE  GemInv'
<1>0. TypeInv /\ ChainInv /\ InOrderInv /\ BehindInv /\ DrainInv
  BY DEF GemInv
<1>1. /\ cpu' \in CpuModels /\ fetchPc' = disk /\ rob' = << >> /\ sim' = "running"
      /\ tiles' = NewTiles \o NewTiles /\ disk' = disk
      /\ disk \in Address /\ disk.part = "svc"
  BY <1>0, GemAssumption DEF Restore, unserialize, TypeInv
<1>2. /\ disk.l = 4 /\ disk.p + 1 \in 1 .. Products
  <2>1. disk.p \in Nat /\ disk.p < Products /\ disk.l = 4 /\ Products \in Nat
    BY <1>1, AddressFields, IterationFacts
  <2> QED
    BY <2>1
<1>3. /\ rob' \in Seq(Entries) /\ Len(rob') = 0 /\ Oldest' = disk /\ ChainInv'
  <2>1. OnPath(disk)
    BY <1>2 DEF OnPath
  <2> QED
    BY <1>1, <2>1, Emptied
<1>4. /\ tiles' \in Seq(TileRecords) /\ Len(tiles') > 0
      /\ tiles'[1] = NewTiles[1] /\ Log' = << >>
  <2>1. /\ NewTiles \o NewTiles \in Seq(TileRecords)
        /\ Len(NewTiles \o NewTiles) = NumCpus + NumCpus
        /\ \A i \in 1 .. NumCpus + NumCpus : (NewTiles \o NewTiles)[i] =
              IF i <= NumCpus THEN NewTiles[i] ELSE NewTiles[i - NumCpus]
    BY NewTilesFacts, ConcatProperties
  <2>2. NumCpus \in Nat /\ NumCpus > 0 /\ 1 \in 1 .. NumCpus + NumCpus
    BY GemAssumption
  <2>3. (NewTiles \o NewTiles)[1] = NewTiles[1]
    BY <2>1, <2>2
  <2> QED
    BY <1>1, <2>1, <2>2, <2>3, NewTilesFacts DEF Log
<1>5. TypeInv'
  <2>1. << >> \in Seq(Ops)
    BY EmptySeq
  <2> QED
    BY <1>0, <1>1, <1>3, <1>4, <2>1 DEF TypeInv, Log
<1>6. InOrderInv'
  <2>1. ProgramRun(Log)'
    BY <1>4 DEF ProgramRun
  <2>2. Upcoming(Oldest)' = <<disk.p + 1, 1, 0>>
    BY <1>2, <1>3 DEF Upcoming
  <2> QED
    BY <1>2, <1>3, <1>4, <2>1, <2>2 DEF InOrderInv
<1>7. BehindInv'
  BY <1>1, <1>3 DEF BehindInv
<1>8. DrainInv'
  BY <1>1 DEF DrainInv
<1> QED
  BY <1>3, <1>5, <1>6, <1>7, <1>8 DEF GemInv

LEMMA InitGemInv == Init => GemInv
<1> SUFFICES ASSUME Init PROVE GemInv
  OBVIOUS
<1>1. /\ cpu \in CpuModels /\ fetchPc = IterationStart(1, 1, 0) /\ rob = << >>
      /\ tiles = NewTiles /\ sim = "running" /\ disk = NoCheckpoint
  BY GemAssumption DEF Init
<1>2. 1 \in 1 .. Products /\ Iterations[1] > 0 /\ Iterations[1] \in Nat
  BY IterationFacts
<1>3. /\ fetchPc \in Address /\ fetchPc.p = 1 /\ fetchPc.l = 1 /\ fetchPc.n = 0
      /\ fetchPc.part \in {"load", "op"}
  BY <1>1, <1>2, StartAddress
<1>4. Oldest = fetchPc /\ rob \in Seq(Entries) /\ Len(rob) = 0
  BY <1>1, EmptySeq DEF Oldest
<1>5. Log = << >> /\ Log \in Seq(Ops)
  BY <1>1, NewTilesFacts, EmptySeq DEF Log
<1>6. TypeInv
  <2>1. NumCpus > 0
    BY GemAssumption
  <2> QED
    BY <1>1, <1>3, <1>4, <1>5, <2>1, NewTilesFacts DEF TypeInv, Log
<1>7. ChainInv
  BY <1>2, <1>3, <1>4 DEF ChainInv, OnPath
<1>8. InOrderInv
  <2>1. Upcoming(Oldest) = <<1, 1, 0>>
    BY <1>3, <1>4 DEF Upcoming
  <2> QED
    BY <1>2, <1>4, <1>5, <2>1 DEF InOrderInv, ProgramRun
<1>9. BehindInv
  BY <1>3, <1>4, IterationFacts DEF BehindInv, Before
<1>10. DrainInv
  BY <1>1 DEF DrainInv
<1> QED
  BY <1>6, <1>7, <1>8, <1>9, <1>10 DEF GemInv

LEMMA StutterGemInv ==
    ASSUME GemInv, UNCHANGED vars
    PROVE  GemInv'
<1>1. /\ cpu' = cpu /\ fetchPc' = fetchPc /\ rob' = rob /\ tiles' = tiles
      /\ sim' = sim /\ disk' = disk
  BY DEF vars, cpuVars
<1>2. Oldest' = Oldest /\ Log' = Log /\ Known' = Known
  BY <1>1 DEF Oldest, Log, Known
<1>3. TypeInv' /\ DrainInv'
  BY <1>1, <1>2 DEF GemInv, TypeInv, DrainInv, OutOfOrder
<1>4. ChainInv'
  BY <1>1, <1>2
  DEF GemInv, ChainInv, OnPath, Follows, Target, LoopBack, AfterLoop, IterationStart, At, End
<1>5. InOrderInv' /\ BehindInv'
  BY <1>1, <1>2
  DEF GemInv, InOrderInv, BehindInv, InOrder, ProgramRun, NextOp, Upcoming, Before, Has
<1> QED
  BY <1>3, <1>4, <1>5 DEF GemInv

LEMMA StepGemInv == GemInv /\ [Next]_vars => GemInv'
<1> SUFFICES ASSUME GemInv, [Next]_vars PROVE GemInv'
  OBVIOUS
<1>1. CASE Pipeline
  BY <1>1, FetchStep, LoadDataStep, ExecuteInstStep, ResolveBranchStep, ExecuteNonSpecStep,
     CommitInstStep, CommitHeadStep, CheckpointStep DEF Pipeline
<1> QED
  BY <1>1, TrapStep, ContinueStep, RestoreStep, StutterGemInv DEF Next

(* In every state, whatever has been predicted wrongly, has trapped, was   *)
(* checkpointed or restored.                                               *)
LEMMA GemInvariant == Spec => []GemInv
<1> QED
  BY InitGemInv, StepGemInv, PTL DEF Spec

(***************************************************************************)
(* AtomicSimpleCPU and MinorCPU hand the tile the custom instructions of   *)
(* the program in their order, each one once and from the beginning of a   *)
(* product: with any number of instructions in flight, products, wrong     *)
(* predictions, traps, checkpoints and restores.                           *)
(***************************************************************************)
THEOREM InOrderCorrect == Spec => []InOrderDeviceSeesProgram
<1>1. GemInv => InOrderDeviceSeesProgram
  <2> SUFFICES ASSUME GemInv, InOrder, tiles[1].live
               PROVE  ProgramRun(tiles[1].log)
    BY DEF InOrderDeviceSeesProgram, DeviceSeesProgram
  <2>1. tiles[1].log \in Seq(Ops)
    BY DEF GemInv, TypeInv
  <2>2. Known
    <3>1. ASSUME tiles[1].log = <<Undefined>>
          PROVE  FALSE
      <4>1. Len(<<Undefined>>) = 1 /\ <<Undefined>>[1] = Undefined
        OBVIOUS
      <4>2. Undefined \in Ops
        BY <2>1, <3>1, <4>1, ElementOfSeq
      <4> QED
        BY <4>2 DEF Undefined, Ops
    <3> QED
      BY <3>1 DEF Known, Log
  <2> QED
    BY <2>2 DEF GemInv, InOrderInv, Log
<1> QED
  BY <1>1, GemInvariant, PTL

(***************************************************************************)
(* Every CPU, DerivO3CPU too, has executed each custom instruction of a    *)
(* product when the checkpoint behind it is written, and goes on outside a *)
(* product: serialize, which writes nothing of the tiles, loses nothing.   *)
(***************************************************************************)
THEOREM CheckpointCorrect == Spec => []CheckpointBehindProduct
<1>1. GemInv => CheckpointBehindProduct
  <2> SUFFICES ASSUME GemInv, sim = "checkpointed"
               PROVE  /\ disk.l = 4
                      /\ Known => \A l \in 1 .. 3 : \A n \in 0 .. Iterations[l] - 1 :
                                      Has(Log, <<disk.p, l, n>>)
    BY DEF CheckpointBehindProduct, Known, Log, Has
  <2>1. rob = << >> /\ Oldest = disk /\ disk \in Address /\ disk.part = "svc"
    BY DEF GemInv, DrainInv, TypeInv, Oldest
  <2>2. disk.l = 4
    BY <2>1, AddressFields
  <2>3. ASSUME Known, NEW l \in 1 .. 3, NEW n \in 0 .. Iterations[l] - 1
        PROVE  Has(Log, <<disk.p, l, n>>)
    <3>1. Before(l, n, Oldest)
      BY <2>1, <2>2 DEF Before
    <3> QED
      BY <2>1, <2>3, <3>1 DEF GemInv, BehindInv
  <2> QED
    BY <2>2, <2>3
<1> QED
  BY <1>1, GemInvariant, PTL
=============================================================================
