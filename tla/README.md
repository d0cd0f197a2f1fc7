# TiC-SAT in TLA+

A verification project for TiC-SAT, a tightly coupled systolic array for
transformer inference: a device in the gem5-X simulator, the custom ARM
instructions that reach it, and a C++ transformer that drives it with dense or
sparse weights. The modules model the path of a matrix product from the sparse
encodings down to the cells of the array, the layers that ask for the products,
the test program that drives the array by itself, and the simulated machine
between the program and the device: CPU models, checkpoints and restores. TLC
checks them on small instances; TLAPS proves every safety property of the
passing runs for every size.

Paths below are relative to the root of the repository.

## The system

| Part | Source | State | Operations |
|---|---|---|---|
| Device | `gem5-X-TiC-SAT/src/dev/arm/systolic_m2m.{cc,hh}` | one `SATile` per CPU: weights, input, output and two waiting memories | `loadWeights`, `inputQueue`, `streamInOut`, `readFlag`, `serialize`, `unserialize` |
| Instructions | `gem5-X-TiC-SAT/src/arch/arm/isa`, `accelerator/smm_gem.cc` | none | `smmParamWrite`, `smmQueue`, `smmStream`, `smmReadFlag`; `addActIn32` |
| Software model of the device | `accelerator/systolic_m2m.cc` | the same memories, `DEVELOP` build | the same, with element indices |
| Driver | `accelerator/sparseMatrixMultiplication.cpp` | sizes, sequence length, format | `processMultiplication`, one `compute...` per format |
| Encoders | `transformer_layers/sparse_rep.cc` | arrays of a format | `dense2csr`, `dense2csc`, `dense2metaData`, `dense2interleavedMetaData`, `remove_zero_tiles`, `interleave_hidden_flag_zero_free` |
| Layers | `dense.cc`, `selfattention.cc`, `transformerBlock.cc`, `transpose.cc`, `softmax.cc`, `addNorm.cc` in `transformer_layers` | intermediate buffers | `compute...` |
| Entry point | `transformer.cc` | all buffers and weights | `inference` |
| CPU models | `gem5-X-TiC-SAT/src/cpu/{simple,minor,o3}` | instructions in flight, fetch address | fetch, execute, squash, commit, drain |
| Simulation | `gem5-X-TiC-SAT/src/python/m5/simulate.py`, `configs/common/Simulation.py` | running, or a checkpoint on disk | `checkpoint`, `simulate`, `instantiate` |
| Test driver | `mat_mult_test.cpp` | none | `systolic_array_matrix_multiply` |

How they interact. `inference` loads the weights, encodes them (it accepts
`NON_PRUNED` and `INTERLEAVED`; the other formats are reached through the
library and the tests of the encoders) and runs a block. A layer calls
`SparseMatrixMultiplier::compute`; the compute function of the format walks the
encoded weights and calls `processMultiplication` for each tile it keeps; that
loads the tile with `smmParamWrite` and pushes the rows of the activations
through the array with `smmQueue` and `smmStream`, each of which also returns a
word of results that were pushed in earlier. Results are added to the output
buffer.

What is hard:

* Time in the array. A result comes out 2K-1 rows after its input, in pieces
  returned by different instructions, and the device is never reset. The driver
  counts words to know which of them are results.
* Encoders and decoders are separate functions with their own loops, counters
  and words of flags; nothing but their agreement says what a word means.
* Instructions with a side effect. The device changes when a custom instruction
  is *executed*, and a pipelined CPU executes instructions early, on paths the
  program never takes, and again after a squash.
* Checkpoints. The device writes nothing into a checkpoint and takes its tiles
  apart while doing so.
* The program itself has one thread. Apart from the CPU, the interleaving that
  matters is that of two unsynchronised walks over the same memory: driver and
  pipeline, encoder and decoder.

What makes each part correct: the device delays each value by exactly its
distance; the driver collects exactly the right words; a format multiplies each
non-zero tile once, with its own weights, at its own place; the whole is a
matrix product; and the CPU hands the device the instructions of the program in
their order, each one once, in a simulation that is checkpointed and restored.

## Modules

| Module | Models | Role |
|---|---|---|
| `TicSatConfig` | `util.h`, `addActIn32` | constants, formal sums |
| `MatrixDims` | sizes of a product | constants |
| `SystolicTile` | the device's operations on an `SATile` | operators on a record |
| `TileMultiply` | `processMultiplication` on the device | state machine, inductive invariant, refinement mapping |
| `MatMul` | what the multiplier promises | abstract specification |
| `SparseKernel` | the weight matrix, zero scan, addresses of tiles | operators |
| `TileSchedule` | what a sparse format promises | abstract specification |
| `CompressedFormat` | CSR and CSC | state machine |
| `MetaDataFormat` | META_DATA | state machine |
| `InterleavedFormat` | INTERLEAVED | state machine |
| `StreamFormat` | NON_PRUNED, DYNAMIC, WITH_FLAG, HIDDEN_KEY | state machine |
| `SparseMultiplier` | `Dense::multiplyweight` and `SparseMatrixMultiplier::compute`: the eight formats together | composition of the four format modules, refinement |
| `TransformerBlock` | `inference` and the layers: `Dense`, `SingleHeadSelfAttn`, `TransformerBlock`, transpose, softmax, add-and-normalise | state machine |
| `SoftwareTile` | the software model of the device | operators on the same record |
| `SoftwareMultiply` | `processMultiplication` in the `DEVELOP` build | `TileMultiply` and `SoftwareTile` in step |
| `GemSystem` | CPU models, custom instructions, life cycle of the device | state machine |
| `MatMulTest` | `mat_mult_test.cpp` on either device | state machine |
| `ConfigProofs`, `MatMulProofs`, `TileMultiplyProofs`, `TileMultiplyRefinement`, `MatMulTestProofs`, `SparseMultiplierProofs`, `TransformerBlockProofs`, `GemSystemProofs` | | proofs |
| `MC...` | | instances for TLC |

The two halves meet at a call of `processMultiplication`. `TileMultiply` takes
any set of kept tiles in any order; a format module produces such a sequence
and `TileSchedule` says which. `TileMultiply` takes for granted that the tile
sees one instruction after the other as the program has them; `GemSystem` shows
on which CPUs and in which simulations that is so.

### Values

The array computes with symbols (`TicSatConfig`). An element of the input or of
a tile is its own name; a value is a set of products of names, and a product
added a second time is kept as a different one (`Again`), so that nothing
missing, doubled or misplaced goes unnoticed. What is computed for generic
symbols holds for every value in a ring: for integers of any width, as all
operations wrap, and lane by lane for packed words, as `addActIn32` has no carry
between lanes. For floating-point activations it says which products are
summed, not how the sum is rounded: the order in which the code adds them is
fixed, but floating-point addition is not associative.

The formats only tell zero words, the hidden key and other words apart
(`SparseKernel!Word`); any other word names its place. With floating-point
weights the encoders compare as floats and so take -0.0 for zero; here, too,
that is a zero word.

### `SystolicTile` and `TileMultiply`

An `SATile` is a record of the five memories and `non_zero_tile`; each operator
is the state after one instruction, and `...Result` the word it returns. Loops
that shift in place run towards lower indices in the code, so each cell takes
the old value of its neighbour.

| Action | Code (`sparseMatrixMultiplication.cpp`) |
|---|---|
| `Call` | entry, 101-106, for the next tile of the caller |
| `ParamWrite` | an iteration of the loop 108-112 |
| `BeginMultiply` | 115-119 |
| `Feed` | an iteration of 120-138 |
| `Drain` | an iteration of 139-152 |
| `Return` | 154 |

`Feed` and `Drain` contain the whole iteration: the instruction, the test for a
valid result and the addition. `i` and `j` keep the row and the word in both
loops; the linear index of the second loop is `i * MAX_ACT_COL + j`.

`SoftwareMultiply` runs the `DEVELOP` build in step: the same driver, so the same
control variables, with a tile and an output buffer of its own. `SwTransfer`
passes `j`, the number of a word, where the software model expects the index of
an element. The two are the same with one activation per word (the flags in
`CMakeLists.txt`) or one word per row (8 bits, 4x4), and `DevelopAgrees` is about
those builds; in the others the software model overwrites part of a row.

### Formats

Each format module is one program, first the encoder and then the decoder, one
action per iteration of their loops. Arrays that are written in order are
sequences; the words behind the end are the zeros of the allocation. Bits of a
flag word are a set of positions, and the width of such words is a constant
(`WORD_BITS`, 32 in the code) so that small instances cross word
boundaries. The flags of WITH_FLAG are read from a file the repository does not
write: `FlagWord` is external, the bits `computeWithFlag` expects. When the
interleaved decoder would take words of tiles for metadata its behaviour depends
on the weights; `DecodeOverrun` ends the model there. HIDDEN_KEY is modelled for
matrices in which no tile that is not zero starts with the key (`KeyFree`):
nothing in the code sees to that, and the format is ambiguous without it.
`SparseMultiplier` has the variables of all four modules; `compute` is one action
per format module, and what belongs to the other formats is idle.

### CPU and life cycle

`GemSystem` keeps of a product what decides the order of its instructions: three
loops (weights, rows, drain), each iteration a load (none in the drain loop), a
custom instruction that needs the loaded word, and a branch. The tile is a log of
the custom instructions it has executed, live or deleted.

| Action | Code |
|---|---|
| `Fetch` | fetch with a prediction, rename; nothing is renamed behind a serializing `svc` |
| `LoadData` | the answer of the memory, in any order |
| `Trap` | a page fault of the oldest load: `squashFromTrap`, or the fault path of `Execute::commitInst` |
| `CommitInst` | simple CPU and MinorCPU: the oldest instruction is executed and leaves; a wrong prediction discards what follows |
| `ExecuteInst` | DerivO3CPU, `scheduleReadyInsts`: the oldest custom instruction *that is ready* |
| `ResolveBranch` | DerivO3CPU, `squashDueToBranch` |
| `ExecuteNonSpec` | DerivO3CPU, `scheduleNonSpec`: `m5checkpoint` and `svc`, at the head of the reorder buffer |
| `CommitHead` | DerivO3CPU, `commitInsts` |
| `Checkpoint` | the drain and `m5.checkpoint`: what is in flight is dropped, the device serialized |
| `Continue` | `benchCheckpoints` calls `m5.simulate` again |
| `Restore` | `instantiate` from a checkpoint: the device is constructed, then unserialized, which leaves two tiles per CPU, the first of them the driver's |

The m5 tool issues `m5checkpoint` and ends with a system call, so the model has
one between the checkpoint and the next product. Memory that was deleted may
still hold the tile or belong to someone else: `Execute` chooses.

### Layers

`TransformerBlock` is one level up: a product is one step, because
`TileMultiply` and the format modules show what it does, and a buffer is a
function from element addresses. An element is a set of names; `<<"key", n, i, c>>` is
what the network defines element (i, c) of the keys of head n to be. A layer
gives its result the right name only when every operand it loads, from the
address the code computes, is exactly the one the definition of the network
asks for; anything else is `Wrong`, and a result that is added to something is a
set of two names. There is an action for each call of
`SingleHeadSelfAttn::compute` and `TransformerBlock::compute`, and two for the
beginning and the end of `inference`. Activations that are used as weights (the
transposed keys and the values) go through `LoadWeight`, which follows the
address computation of `computeNonPruned` and is `Wrong` when a word has
different numbers of activations and weights. The INTERLEAVED format of the dense
layers is taken for right here.

### Test program

`MatMulTest` has the loops of `systolic_array_matrix_multiply`, over element
indices. `smmQueue` and `smmStream` are those of the software model or of the
gem5 device. Symbols carry the number of the test, so that a value left in the
device by an earlier test shows. `accelerator/smm_gem.cc` includes
`systolic_m2m.hh` in the `DEVELOP` build while the file is `systolic_m2m.h`; the model
takes the two for the same.

## Runs

| Run | Instance | Shows |
|---|---|---|
| `tile_multiply` | 4x4 tiles, 1 activation and 2 weights per word, 2x2 grid of tiles, every kept set, every order, both devices | `PipelineInv`, `CleanBetweenTiles`, `PointersInBlocks`, `ProductCorrect`, `DevelopAgrees`, `ImplementsMatMul`, `Completes`, `TypeOK` |
| `formats` | all eight formats, 5x2 tiles, every pattern of zero tiles, 2 bits per word of flags or metadata | `AllCalled`, `LinesDelimited`, `AllConsumed`, `BlocksInStep`, `ImplementsSchedule` |
| `interleaved_narrow` | all eight formats, 3x2 tiles, 4 bits | `WeightsInOrder` |
| `interleaved_misread` | 3x2 tiles, 4 bits | `CallsFaithful` is violated |
| `transformer` | 18 shapes, 1 to 3 heads, four values per word, two runs of the program | `FinishedHeads`, `OutputExact`, `AllRunsFinish` |
| `transformer_wide` | two heads, one activation per word | `FinishedHeads` is violated |
| `transformer_mixed` | FP32 activations and INT8 weights (one and four per word), one head | `OutputExact` is violated |
| `test_driver` | software model, 8x8, four words per row, two tests of 1, 5 or 17 rows | `ResultsMatchBaseline`, `TestsFinish` |
| `test_driver_gem` | gem5 device, 8x8 | `ResultsMatchBaseline` is violated |
| `gem_system` | three CPUs, three products with checkpoints between them, four instructions in flight, a wrong prediction or a page fault, two restores | `InOrderDeviceSeesProgram`, `CheckpointBehindProduct`, `SimulationAdvances` |
| `out_of_order` | DerivO3CPU, one product, nothing goes wrong | `DeviceSeesProgram` is violated |
| `checkpoint_continue` | MinorCPU, a product after a checkpoint | `DeviceSeesProgram` is violated |

Bounds. Tiles of 4x4 with a value per word have queued and streamed words,
four words per row and an array deeper than it takes to confuse rows and
columns; sequences of one row are shorter than the pipeline (all results come
out in the drain loop) and longer ones get results in the first loop. Two tiles
in a row and in a column give accumulation into the same words and consecutive
calls with different blocks; several activations per word are the business of
`test_driver` and of the proofs, which are for every packing. The grid of the
formats is not square, so that
exchanging rows and columns shows, and has zero lines first, last and between.
Words of two bits end in the middle of columns, and a column does not fill its
last one. The shapes of the block have
sequence, head, model and inner dimensions of one to three tiles in different
proportions, as the layout of a transposed or concatenated tensor is only
distinguishable then; two runs show what a buffer that is not cleared would do.
`MaxIdx` bounds the element index of the test program above everything a test
pushes through the array, so a loop that would not end stops there and fails
`TestsFinish`. Three products have a product whose checkpoint finds a tile that
an earlier checkpoint had deleted. Four instructions in flight (`RobSize`) are
an iteration and the first instruction of the next one; `out_of_order` has five,
the least in which one word can overtake another. `MaxUpsets` bounds wrong predictions and page faults together,
`MaxRestores` the restores; the second restore is of a checkpoint that has been
restored before.

Fairness. The program is a single thread that runs until it returns; every
specification of it has weak fairness of its whole next-state relation and no
more. `GemSystem` has weak fairness of what the CPU and a drain it has begun do
(`Pipeline`): a simulated CPU ticks as long as the simulation runs. Nobody has to
fault, to continue after a checkpoint or to restore one.
Liveness properties are that the loops end (`Completes`, `AllRunsFinish`,
`TestsFinish`), that a simulation reaches its checkpoint or its end
(`SimulationAdvances`), and the fairness part of `TileSchedule!FairSpec` in
`ImplementsSchedule`.

### What the violations show

`computeInterleavedMetaData` starts reading a block's metadata at bit
`32 - min(32, row_in_w)`; `dense2interleavedMetaData` writes from bit 0. With 32
or more row tiles the two agree (`formats`); with fewer, a tile is
multiplied at a wrong row or the decoder runs behind the metadata
(`interleaved_misread`). `test_model` with 4x4 tiles has 16 row tiles. The order
of the weights within a column is still right (`interleaved_narrow`).

Two runs take `TransformerBlock` to data types other than the 8-bit integers of
the earlier version. With 32-bit activations the offset of a
head, computed with `>> 2`, makes heads overlap (`transformer_wide`; one head is
right). With FP32 activations and INT8 weights, the README's example, the
products inside attention cut activations into weights, and `post_softmax`
converts the bits of an element as an integer (`transformer_mixed`; either alone
is enough).

The test program gives the gem5 device the index of an element where it expects
the number of a word (`test_driver_gem`). It does not show when a row has one or
two words: the last word of a row is streamed, and the first has index 0 either
way.

The custom instructions are declared without `IsNonSpeculative`, unlike
`m5checkpoint`. On DerivO3CPU, one of the two CPUs the manual offers, a custom
instruction whose word is there is executed before an older one whose word is
late (`out_of_order`); with wrong predictions it is also executed on a path the
program does not take, and after a squash a second time. On the in-order CPUs
none of this happens (`gem_system`).

`serialize` deletes the tiles of a device that goes on running
(`checkpoint_continue`). What it leaves out of the checkpoint does no harm as
long as checkpoints are taken by `m5checkpoint`: the instruction waits for
everything before it, on every CPU (`CheckpointBehindProduct`), and a restored
device starts with clean tiles as the driver needs them.

## Proofs

Assumptions, all of them checked by TLC on every run: `ConfigAssumption` (tile
size and packing are positive and a row of a tile fills its words, as the
software model of the device asserts), `DimsAssumption` and `KernelAssumption`
(at least one tile each way, positive sequence lengths and word widths),
`ModelsAssumption` (positive dimensions), `TestAssumption` (tests of one row or
more) and `GemAssumption` (at least one product,
iteration and instruction in flight). Where a result needs more than that, the
theorem says so. `ConfigProofs` has the arithmetic they share: linear indices,
their order, quotients and remainders.

**Product.** `MatMulProofs!SumCorrect`: the abstract product always holds in every
output lane the sum of the contributions that are no longer pending
(`SumOfContributions`; TLC checks the same for the implementation as
`ProductCorrect`). The strengthening adds that contributions of different tiles
have no product in common, which is what makes `Plus` a plain union.

**Driver and device.** `TileMultiplyProofs!TypeCorrect`, `PipelineCorrect`,
`CleanCorrect`, `PointersCorrect`: the inductive invariant is
`TypeOK /\ PipelineInv /\ WeightsInv /\ PointerInv`. `PipelineInv` says what each live
cell holds as a function of the row counter: cell (r, c) works on row n - r - c,
and rows outside the sequence are zero. Lemmas show that each instruction takes
this description from n, q to the next position. At the end of the drain loop the
counter is past the last row for every live cell, so the description for "after
the last row of this tile" is the one for "before the first row of the next" (all
zeros): this is why a device that is never reset is clean, and it is the step
that would fail with a shorter drain loop. The types of partial sums exclude
`Again`: no product is accumulated twice. `CleanCorrect` and `PointersCorrect` follow.

`TileMultiplyRefinement!RefinesMatMul`: under the mapping `pendingWords`, a
contribution is pending until its word of the output block has been written. The
word the device returns at a valid position is, by `PipelineInv`, the contribution
`MatMul` adds; every other instruction is a stuttering step.
`TileMultiplyRefinement!ProductIsCorrect`: the output buffer is always right, by the
two previous results.

`TileMultiplyRefinement!DevelopCorrect`: the software model of the device returns
the words of the gem5 device (`DevelopAgrees`). The invariant `InStep` is stronger:
in the builds where the number of a word is the index of its first element, the
two tiles are equal after every instruction. Its addresses modulo `SA_SIZE` are
shown to be those of the gem5 device in the two shapes of such a build.
`DevelopRunsDriver`: the specification with both devices implies that of the driver
with one, so all results about the driver hold in run `tile_multiply`.

**Test program.** `MatMulTestProofs!ResultsCorrect` (`ResultsMatchBaseline` on the
software model), for every tile size, packing, number of rows and tests in a row.
The test program counts elements where `processMultiplication` counts words; with
element w * `ACT_PER_BUS` the software model does what the gem5 device does with
word w (`StoreAtElement`, `RetrieveAtElement`, `InstructionsSame`), which is also why
the same program fails on the gem5 device (`test_driver_gem`). The
invariant `TestInv` says that the array is clean between two tests, and within one
that the index, the row counter and the output pointer belong to the same
position of the pipeline, whose cells `PipelineAt` describes with the symbols of
that test, and that the words stored so far are right. When the drain loop ends
the position is past the last row for every cell, so the array is clean again.
`DrainIsBounded`: the loop ends by its own condition before the index reaches
`MaxIdx`; the bound of the model cuts nothing off.

**Formats.** `SparseMultiplierProofs`, for every matrix, every number of tiles and
every width of a flag word. All formats rest on one idea: encoder and decoder go
through the tiles in the same order, and what is stored for the first n of them
ends at an address that depends only on how many of them are not zero
(`Count`, `Offset`). The inductive invariant `SparseInv` has a part for each format
module; each says what the arrays hold after n tiles while they are written
(`Packed` for packed tiles, `Flags` for flag words, `Entries` for CSR and CSC,
`Blocks` for interleaved headers and tiles), that the decoder is at the address of
its tile, and which calls it has made.

* `LinesCorrect` (`LinesDelimited`): in CSR and CSC two neighbouring pointers
  delimit the entries of one line.
* `ConsumptionCorrect` (`AllConsumed`): a decoder ends exactly where the encoder did.
* `BlocksCorrect` (`BlocksInStep`): the interleaved decoder meets each header of the
  encoder and takes no weights for metadata, when `WORD_BITS <= RowTiles`. The
  hypothesis is needed: `interleaved_misread` is the counterexample without it.
* `ScheduleCorrect`: every step of every format is a step of `TileSchedule` or
  stutters, so only calls the schedule allows are made, each once, at its place
  and with its own weights (for INTERLEAVED under the same hypothesis). This is the
  safety half of `ImplementsSchedule`.
* `CallsComplete` (`AllCalled`): a decoder that has returned has called exactly the
  tiles that must be multiplied (for INTERLEAVED under the same hypothesis).
  `CompleteInv` adds to `SparseInv` that no tile before the decoder's place is missing
  among the calls (`NoneMissing`) and, for CSR and CSC, that every tile the encoder
  has passed has an entry (`Recorded`). The step that needs an argument is the end of
  an interleaved block: the loop ends by the pointer and not by a row, and the
  counts of tiles before and after are then equal, so only zero tiles are left
  (`NoneBetween`). That a decoder does return is a liveness property and stays with TLC.
* `WeightsCorrect` (`WeightsInOrder`), for every width of a metadata word, wider than a
  column too: the m-th call of a column takes the weights of its m-th tile that is
  not zero, whatever row it is given. `PackedInv` says nothing of the bits; it says
  that the pointer is at the start of the tiles of the block plus a tile for every
  call of the column, and never past the next block. That the address of the m-th
  packed tile is that of the m-th tile of the column (`ColumnCount`, `PackedTile`) is
  an induction over rows, written with a least counterexample (`LeastNumber`).

**Layers.** `TransformerBlockProofs!HeadsCorrect` (`FinishedHeads`) and
`OutputCorrect` (`OutputExact`), for every shape, tile size and number of runs. One
thread and new buffers in each run make the contents of all buffers a function of
the shape, the call that is next and the head it is for; the invariant `BlockInv`
is that function (`Attention`, `Tensors`). The work is in the addresses: a matrix of s rows is
laid out by `Pos`, which `Row` and `Col` invert (`PosFacts`, `AddressFacts`), and the
formulas of the weight loads, the transposition, the row walks of softmax and
normalisation and the offset of a head are shown to be addresses of that layout.
The hypothesis `Uniform` names the data types for which this holds: integers, as
many activations as weights in a word, and four of them in a word or only one
head. `transformer_wide` and `transformer_mixed` are the counterexamples without it.

**Machine.** `GemSystemProofs`, for every number of products, iterations,
instructions in flight, wrong predictions, faults and restores. `GemInv` says that
what is in flight is a chain of instructions in which each one follows the one
before it, in the program or by a prediction (`ChainInv`), and relates the logs of
the tiles to the architectural program counter, the address of the oldest
instruction (`Oldest`): a step either leaves that address and the log alone, or
moves both by one instruction.

* `InOrderCorrect` (`InOrderDeviceSeesProgram`): on the in-order CPUs the log of a
  live tile is a run of the program.
* `CheckpointCorrect` (`CheckpointBehindProduct`): on every CPU, also out of order, a
  checkpoint falls between two products. Proving it showed that the property had
  been stated for two products only: with three, a tile that an earlier
  checkpoint deleted may hold anything when the next one is taken. It now says
  so, and the run has three products.

Model-checked only: liveness and everything about fairness (the prover handles
neither `ENABLED` nor weak fairness), that is `Completes`, `AllRunsFinish`,
`TestsFinish`, `SimulationAdvances` and the fairness half of `ImplementsSchedule`.

## Not modelled

`conventionalCompute` (the `SW_MULT` build), the numbers inside softmax and the
normalisation, rounding, the size of the interleaved array, printing and file
input; of the machine, timing, interrupts, and checkpoints taken by the clock,
which may fall inside a product and lose it. Two programs that use the device at
the same time would share tile 0, which the driver passes everywhere; the
repository has no such program. `PROJECT.json` gives the reason for each, and
lists with their lines the hazards no property covers.

Nearly all of the repository is the vendored simulator with its own test
frameworks, SystemC, McPAT and instruction sets; the project models what the
accelerator, its driver and its layers use of it, and no more.

## Plan

Done, in the order of importance: device and driver with their proofs, abstract
product, formats and their composition, layers, test program, software model
under both drivers, CPU models and life cycle of the device; then the proofs of
the software model, the test program, the formats, the layers and the machine. Left:

1. Proofs: formats and driver composed, so that a sparse product is the product
   of `MatMul`.
2. `conventionalCompute` against `MatMul`; the size of the array
   `dense2interleavedMetaData` allocates; checkpoints by the clock.
