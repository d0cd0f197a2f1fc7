------------------------------ MODULE GemSystem ------------------------------
(***************************************************************************)
(* The simulated machine around the device: a CPU model of gem5 that runs  *)
(* the custom instructions of processMultiplication, and the life cycle of *)
(* the device, from its construction over checkpoints to a restore.        *)
(*                                                                         *)
(* TileMultiply takes for granted that the tile sees the instructions of   *)
(* the program in their order, each one once.  That is up to the CPU: an   *)
(* instruction changes the tile when it is executed, and the CPUs differ   *)
(* in when that is.  The simple CPU and MinorCPU execute an instruction    *)
(* when it is the oldest one and can no longer be discarded; DerivO3CPU    *)
(* executes it when its operands are there, unless it is declared          *)
(* IsNonSpeculative: m5checkpoint is, the custom instructions are not.     *)
(*                                                                         *)
(* The program is one product after the other, with the m5 tool writing a  *)
(* checkpoint between two of them: m5checkpoint, then the system call the  *)
(* tool ends with.  A product is three loops (weights, rows of the input,  *)
(* drain); an iteration loads a word (not so in the drain loop), hands it  *)
(* to a custom instruction and branches.                                   *)
(***************************************************************************)
EXTENDS Integers, Sequences

CONSTANTS
    BootCpus,           \* CPU models the simulation may start with
    RestoreCpus,        \* CPU models for restoring from a checkpoint
    AfterCheckpoint,    \* what follows a checkpoint: "exit", "continue"
    Products,           \* products the program computes
    Iterations,         \* iterations of the three loops of a product
    NumCpus,            \* CPUs of the system, each with a tile
    RobSize,            \* instructions in flight, of a pipelined CPU
    MaxUpsets,           \* bounds page faults of loads and wrong predictions
    MaxRestores         \* bounds the restores

CpuModels == {"AtomicSimpleCPU", "MinorCPU", "DerivO3CPU"}

ASSUME GemAssumption ==
    /\ BootCpus \subseteq CpuModels
    /\ RestoreCpus \subseteq CpuModels
    /\ AfterCheckpoint \subseteq {"exit", "continue"}
    /\ Products \in Nat \ {0}
    /\ Iterations \in [1 .. 3 -> Nat \ {0}]
    /\ NumCpus \in Nat \ {0}
    /\ RobSize \in Nat \ {0}
    /\ MaxUpsets \in Nat
    /\ MaxRestores \in Nat

VARIABLES
    cpu,        \* the CPU model of this simulation
    fetchPc,    \* the instruction to be fetched next
    rob,        \* instructions in flight, oldest first
    tiles,      \* the device: a tile is live or freed, and has a log of the
                \* custom instructions it has executed
    sim,        \* "running"; "draining" after m5checkpoint; "checkpointed"
                \* when one has just been written
    disk,       \* the last checkpoint: where the program was, or NoCheckpoint
    upsets, restores

cpuVars == <<fetchPc, rob>>
boundVars == <<upsets, restores>>

vars == <<cpu, cpuVars, tiles, sim, disk, boundVars>>

-----------------------------------------------------------------------------
(* The program.  An address is a product p, a loop l of it, the iteration  *)
(* n and the part of the iteration.                                        *)

At(p, l, n, part) == [p |-> p, l |-> l, n |-> n, part |-> part]

End == At(Products, 4, 0, "end")

NoCheckpoint == At(0, 0, 0, "none")

(* First instruction of iteration n of a loop; only the drain loop has no  *)
(* word to load.                                                           *)
IterationStart(p, l, n) == At(p, l, n, IF l = 3 THEN "op" ELSE "load")

(* What follows loop l: the next loop, the checkpoint, or the end. *)
AfterLoop(p, l) ==
    IF l < 3 THEN IterationStart(p, l + 1, 0)
    ELSE IF p < Products THEN At(p, 4, 0, "m5checkpoint")
    ELSE End

LoopBack(a) == IterationStart(a.p, a.l, a.n + 1)

(* Where the program goes after the instruction at a. *)
Target(a) ==
    CASE a.part = "load" -> At(a.p, a.l, a.n, "op")
      [] a.part = "op" -> At(a.p, a.l, a.n, "branch")
      [] a.part = "branch" -> IF a.n + 1 < Iterations[a.l] THEN LoopBack(a)
                                                           ELSE AfterLoop(a.p, a.l)
      [] a.part = "m5checkpoint" -> At(a.p, 4, 0, "svc")
      [] a.part = "svc" -> IterationStart(a.p + 1, 1, 0)

(* Where fetch may go on: a pipelined CPU predicts branches. *)
Predictions(a) ==
    IF a.part = "branch" /\ cpu # "AtomicSimpleCPU"
      THEN {LoopBack(a), AfterLoop(a.p, a.l)}
      ELSE {Target(a)}

-----------------------------------------------------------------------------
(* The device.  Every smm function of the driver passes tid 0. *)

NewTile == [live |-> TRUE, log |-> << >>]

(* A tile for each CPU. *)
NewTiles == [t \in 1 .. NumCpus |-> NewTile]

(* serialize writes nothing and deletes the tiles. *)
serialize == [t \in DOMAIN tiles |-> [tiles[t] EXCEPT !.live = FALSE]]

(* unserialize reads nothing and adds a tile for each CPU to those of the  *)
(* constructor.                                                            *)
unserialize(constructed) == constructed \o NewTiles

Undefined == <<"undefined">>

(* The custom instruction at a is executed.  A tile that was deleted may   *)
(* still be as it was, or its memory may have been given to someone else:  *)
(* nothing is known of it from then on.                                    *)
Execute(a) ==
    \/ /\ tiles[1].log # <<Undefined>>
       /\ tiles' = [tiles EXCEPT ![1].log = Append(@, <<a.p, a.l, a.n>>)]
    \/ /\ ~ tiles[1].live
       /\ tiles' = [tiles EXCEPT ![1].log = <<Undefined>>]

-----------------------------------------------------------------------------
Init ==
    /\ cpu \in BootCpus
    /\ fetchPc = IterationStart(1, 1, 0)
    /\ rob = << >>
    /\ tiles = NewTiles
    /\ sim = "running"
    /\ disk = NoCheckpoint
    /\ upsets = 0 /\ restores = 0

Capacity == IF cpu = "AtomicSimpleCPU" THEN 1 ELSE RobSize

Active == sim \in {"running", "draining"}

(* An instruction is fetched, on the path the predictor chooses, renamed   *)
(* and put into the reorder buffer.  svc is serializing: nothing follows   *)
(* it while it is in flight.                                               *)
Fetch ==
    /\ Active
    /\ fetchPc # End
    /\ Len(rob) < Capacity
    /\ \A n \in DOMAIN rob : rob[n].pc.part # "svc"
    /\ \E next \in Predictions(fetchPc) :
         /\ rob' = Append(rob, [pc |-> fetchPc, next |-> next, done |-> FALSE])
         /\ fetchPc' = next
         /\ IF next = Target(fetchPc)
              THEN UNCHANGED upsets
              ELSE upsets < MaxUpsets /\ upsets' = upsets + 1
    /\ UNCHANGED <<cpu, tiles, sim, disk, restores>>

(* The data of load n arrive: after the latency of a cache or of memory.   *)
LoadData(n) ==
    /\ Active
    /\ rob[n].pc.part = "load" /\ ~ rob[n].done
    /\ rob' = [rob EXCEPT ![n].done = TRUE]
    /\ UNCHANGED <<cpu, fetchPc, tiles, sim, disk, boundVars>>

(* The oldest load has a page fault: everything in flight is squashed, and *)
(* the program goes on with the load when the kernel has handled it.       *)
Trap ==
    /\ sim = "running" /\ upsets < MaxUpsets
    /\ rob # << >> /\ rob[1].pc.part = "load" /\ ~ rob[1].done
    /\ rob' = << >>
    /\ fetchPc' = rob[1].pc
    /\ upsets' = upsets + 1
    /\ UNCHANGED <<cpu, tiles, sim, disk, restores>>

-----------------------------------------------------------------------------
(* In order: the simple CPU and MinorCPU. *)

InOrder == cpu # "DerivO3CPU"

(* Mutant of CommitInst: what follows a wrong prediction stays. *)
CommitInst_noDiscard ==
    /\ sim = "running" /\ InOrder /\ rob # << >>
    /\ LET head == rob[1].pc
           right == rob[1].next = Target(head)
       IN  /\ head.part = "load" => rob[1].done
           /\ rob' = Tail(rob)
           /\ fetchPc' = IF right THEN fetchPc ELSE Target(head)
           /\ IF head.part = "op" THEN Execute(head) ELSE UNCHANGED tiles
           /\ sim' = IF head.part = "m5checkpoint" THEN "draining" ELSE sim
    /\ UNCHANGED <<cpu, disk, boundVars>>

(* The oldest instruction is executed and leaves, as one step.  A branch   *)
(* that was predicted wrongly discards what follows it and redirects       *)
(* fetch; m5checkpoint ends the simulation loop, and the script asks for a *)
(* drain.                                                                  *)
CommitInst ==
    /\ sim = "running" /\ InOrder /\ rob # << >>
    /\ LET head == rob[1].pc
           right == rob[1].next = Target(head)
       IN  /\ head.part = "load" => rob[1].done
           /\ rob' = IF right THEN Tail(rob) ELSE << >>
           /\ fetchPc' = IF right THEN fetchPc ELSE Target(head)
           /\ IF head.part = "op" THEN Execute(head) ELSE UNCHANGED tiles
           /\ sim' = IF head.part = "m5checkpoint" THEN "draining" ELSE sim
    /\ UNCHANGED <<cpu, disk, boundVars>>

-----------------------------------------------------------------------------
(* Out of order: DerivO3CPU. *)

OutOfOrder == cpu = "DerivO3CPU"

(* Mutant of OperandsReady: an instruction whose load has left before it   *)
(* was fetched waits for it for ever.                                      *)
OperandsReady_lostWakeup(n) == rob[n].pc.l < 3 => IF n = 1 THEN FALSE ELSE rob[n - 1].done

(* The word a custom instruction takes comes from the load before it,      *)
(* which is done or has left already; the drain loop passes a constant.    *)
OperandsReady(n) == IF n = 1 THEN TRUE ELSE rob[n].pc.l < 3 => rob[n - 1].done

ReadyToIssue(n) == rob[n].pc.part = "op" /\ ~ rob[n].done /\ OperandsReady(n)

(* Of the custom instructions that are ready, the oldest one is executed;  *)
(* older ones may still be waiting, and older branches be unresolved.      *)
ExecuteInst(n) ==
    /\ Active /\ OutOfOrder
    /\ ReadyToIssue(n)
    /\ \A m \in 1 .. n - 1 : ~ ReadyToIssue(m)
    /\ Execute(rob[n].pc)
    /\ rob' = [rob EXCEPT ![n].done = TRUE]
    /\ UNCHANGED <<cpu, fetchPc, sim, disk, boundVars>>

(* A branch is computed, in any order: if the prediction was wrong the     *)
(* younger instructions are squashed and fetch is redirected.              *)
ResolveBranch(n) ==
    /\ Active /\ OutOfOrder
    /\ rob[n].pc.part = "branch" /\ ~ rob[n].done
    /\ LET right == rob[n].next = Target(rob[n].pc)
       IN  /\ rob' = [SubSeq(rob, 1, IF right THEN Len(rob) ELSE n) EXCEPT ![n].done = TRUE]
           /\ fetchPc' = IF right THEN fetchPc ELSE Target(rob[n].pc)
    /\ UNCHANGED <<cpu, tiles, sim, disk, boundVars>>

(* Mutant of ExecuteNonSpec: it is executed before it is at the head. *)
ExecuteNonSpec_early(n) ==
    /\ sim = "running" /\ OutOfOrder
    /\ rob[n].pc.part \in {"m5checkpoint", "svc"} /\ ~ rob[n].done
    /\ rob' = [rob EXCEPT ![n].done = TRUE]
    /\ sim' = IF rob[n].pc.part = "m5checkpoint" THEN "draining" ELSE sim
    /\ UNCHANGED <<cpu, fetchPc, tiles, disk, boundVars>>

(* A non-speculative instruction is executed when it is at the head. *)
ExecuteNonSpec(n) ==
    /\ sim = "running" /\ OutOfOrder
    /\ rob[n].pc.part \in {"m5checkpoint", "svc"} /\ ~ rob[n].done
    /\ n = 1
    /\ rob' = [rob EXCEPT ![n].done = TRUE]
    /\ sim' = IF rob[n].pc.part = "m5checkpoint" THEN "draining" ELSE sim
    /\ UNCHANGED <<cpu, fetchPc, tiles, disk, boundVars>>

CommitHead ==
    /\ sim = "running" /\ OutOfOrder
    /\ rob # << >> /\ rob[1].done
    /\ rob' = Tail(rob)
    /\ UNCHANGED <<cpu, fetchPc, tiles, sim, disk, boundVars>>

-----------------------------------------------------------------------------
(* A CPU that executes in order drains at once, DerivO3CPU with the next   *)
(* instruction it commits; both drop what is in flight.  Then the machine  *)
(* is serialized.                                                          *)
Checkpoint ==
    /\ sim = "draining"
    /\ OutOfOrder => rob # << >> /\ rob[1].done
    /\ LET resume == IF OutOfOrder THEN Target(rob[1].pc)
                     ELSE IF rob = << >> THEN fetchPc
                     ELSE rob[1].pc
       IN  fetchPc' = resume /\ disk' = resume
    /\ rob' = << >>
    /\ tiles' = serialize
    /\ sim' = "checkpointed"
    /\ UNCHANGED <<cpu, boundVars>>

(* The simulation goes on after a checkpoint. *)
Continue ==
    /\ sim = "checkpointed" /\ "continue" \in AfterCheckpoint
    /\ sim' = "running"
    /\ UNCHANGED <<cpu, cpuVars, tiles, disk, boundVars>>

(* The simulation ends and another one is started from the checkpoint: the *)
(* device is constructed, then unserialized.                               *)
Restore ==
    /\ disk # NoCheckpoint /\ "exit" \in AfterCheckpoint
    /\ restores < MaxRestores
    /\ restores' = restores + 1
    /\ cpu' \in RestoreCpus
    /\ fetchPc' = disk
    /\ rob' = << >>
    /\ tiles' = unserialize(NewTiles)
    /\ sim' = "running"
    /\ UNCHANGED <<disk, upsets>>

Pipeline ==
    \/ Fetch
    \/ \E n \in DOMAIN rob : \/ LoadData(n)
                             \/ ExecuteInst(n)
                             \/ ResolveBranch(n)
                             \/ ExecuteNonSpec(n)
    \/ CommitInst
    \/ CommitHead
    \/ Checkpoint

Next == Pipeline \/ Trap \/ Continue \/ Restore

Spec == Init /\ [][Next]_vars

(* The simulated CPU keeps running; nobody has to go on after a checkpoint *)
(* or to restore one.                                                      *)
FairSpec == Spec /\ WF_vars(Pipeline)

-----------------------------------------------------------------------------
(* Properties. *)

(* The custom instruction that follows op in the program. *)
NextOp(op) ==
    IF op[3] + 1 < Iterations[op[2]] THEN <<op[1], op[2], op[3] + 1>>
    ELSE IF op[2] < 3 THEN <<op[1], op[2] + 1, 0>>
    ELSE <<op[1] + 1, 1, 0>>

ProgramRun(log) ==
    log # << >> =>
        /\ \E p \in 1 .. Products : log[1] = <<p, 1, 0>>
        /\ \A k \in 1 .. Len(log) - 1 : log[k + 1] = NextOp(log[k])

(***************************************************************************)
(* The tile the driver uses sees the custom instructions of the program,   *)
(* from the beginning of a product, in their order and each one once: what *)
(* smmParamWrite, smmQueue and smmStream assume of the CPU, whatever it    *)
(* predicts wrongly, however late its loads are and wherever it traps, and *)
(* across a checkpoint.                                                    *)
(***************************************************************************)
DeviceSeesProgram == ProgramRun(tiles[1].log)

(* The CPUs that execute in order keep to it as long as the tile is there: *)
(* what they predicted wrongly or had in flight at a trap or a drain never *)
(* reaches the tile, and the first tile of a restored device starts with a *)
(* product.                                                                *)
InOrderDeviceSeesProgram == InOrder /\ tiles[1].live => DeviceSeesProgram

(* A checkpoint is only written behind a whole product: m5checkpoint, even *)
(* on DerivO3CPU, finds every custom instruction of the product before it  *)
(* executed, and the program goes on outside a product; so what serialize  *)
(* does not write is not needed.  (Of a tile that an earlier checkpoint    *)
(* has deleted nothing may be known any more.)                             *)
CheckpointBehindProduct ==
    sim = "checkpointed" =>
        /\ disk.l = 4
        /\ tiles[1].log # <<Undefined>> =>
              \A l \in 1 .. 3 : \A n \in 0 .. Iterations[l] - 1 :
                  \E k \in DOMAIN tiles[1].log :
                      tiles[1].log[k] = <<disk.p, l, n>>

(* A running simulation reaches the next checkpoint or the end of the      *)
(* program: no sequence of wrong predictions, late loads and traps makes a *)
(* CPU lose its way.                                                       *)
Finished == fetchPc = End /\ rob = << >>

SimulationAdvances == sim = "running" ~> (sim = "checkpointed" \/ Finished)
=============================================================================
