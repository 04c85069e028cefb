# SSLA-RT in TLA+

SSLA-RT runs an event-camera detector live. Events pass through two cheap
stages on CPU threads and the expensive ones in a persistent CUDA kernel, and
everything between them is hand-written concurrency: lock-free rings,
overlapping spatial shards, per-cell counters that decide which event goes on.
These modules model that machinery, the older schemes it grew out of, and of the
numeric kernels which cells, weights and array elements they combine. What the
floating-point operations yield is left out.

Paths below are relative to `src/`, the repository.

## 1. The system

```
 camera or synth thread --SPSC ring per shard--> N shard workers (stage 0, stage 1)
      --MPSC pinned ring per GPU block--> persistent kernel (stage 2, stage 3, head)
      --predictions, version--> display and summary (Python)
```

| Component | State | Operations | Interacts by |
|---|---|---|---|
| SPSC shard ring, `include/spsc.h` | slots, `head_`, `tail_` | `push`, `try_push`, `try_pop`, `size` | one dispatcher, one worker; any thread for `size` |
| CPU shards, `src/lib_stage01_to_gpu.cpp` | a pipeline per shard (hidden states, last times, tdrop counters), counters, `synth_running` | init, attach, submit, synth start/stop, worker loop, snapshot, reset, shutdown | shard rings; GPU rings |
| GPU block ring, same file and `orin/kernels/ssla_s2_s3_head_celled.cuh` | records with `seq_done`, `ring_head`, tail, `events_done`, `stop_flag` | claim, fill, stamp; probe, copy, finish a batch | pinned memory |
| Grid topology, `orin/orin/multi_block.py` | none (pure) | splits, owned and processing ranges, s3 ranges, buffers | read by the push loop and the kernel |
| Celled kernel, same `.cuh` | hidden states, tdrop counters, predictions, versions | per batch: tdrop, two layers, pool, tdrop, two layers, head | nine warps, shared memory, `__syncthreads` |
| Runners, `orin/hybrid_runner_multi.py`, `orin/hybrid_runner.py`, `orin/legacy/live_stage0*_bench.py` | flags, threads, the library's handle | launch, reset, start a source, statistics, SIGINT, join, stop flag, shutdown | all of the above |
| CPU-only libraries, `src/lib_stage0*_capi.cpp` | as CPU shards | as CPU shards, no GPU | the benches in Python |
| Layers, `src/ssla_kernels.cpp`, `include/ssla_fused_layers.h`, `include/ssla_neon_*.h` | hidden states, weights | a layer at an event: generic, border, fused, tiled, state-only, masked, locked | called by every program |
| Single-threaded programs, `src/legacy/schemes/s1_reference.cpp`, `s2_decomp_st.cpp`, `s_stage0_only.cpp` | one pipeline, predictions | the event loop, checkpoints | the reference of all others |
| Schemes S2 to S8, multicore stage 0, `src/legacy/schemes/` | rings, markers, locks, replicas, per-shard progress | a producer, shards, stage or merger threads | rings and atomics |
| Multicore bench, `src/multicore_bench.cpp` | a model and a slice for each worker | warm-up, start barrier, report | three atomics |
| Python ring and camera producer, `orin/orin/ring.py` | head, tail, thread | batch push, batch pop, start, stop | old tests only |

What is hard here, and what makes each part correct:

- **Rings.** Loads are stale, counters wrap, several producers finish out of
  order. Correct: nothing lost, repeated, torn or reordered; a full ring blocks
  and then drains. The GPU ring has no test for room at all, so its correctness
  is conditional on the load, and what happens beyond is a question of its own.
- **Shards.** A spatial convolution is cut into strips. Correct: an owned event
  finds in its patch what one thread would have put there, in that order, and
  is dropped exactly when one thread would drop it.
- **Blocks.** The same cut, on a second grid, in two dimensions, with
  extents that do not divide. Correct: one owner per cell, complete patches, a
  prediction for each event that earns one, in a place of its own.
- **Shutdown.** Threads that spin on rings, stopped by flags and an eof message.
  Correct: it ends, and nothing accepted is left behind.
- **Sources.** A camera thread, a thread of the library or the main thread submits,
  statistics are taken and reset while all runs, signals and time-outs end it.
  Correct: who submits has stopped before the library shuts down, and the
  numbers that are reported are those of the events.
- **Schemes.** Eight ways to spread one recurrent network over threads. Correct:
  what one thread computes, or as much of it as the scheme promises: the same
  events dropped, each cell updated once and in order, drains that wait for what
  they claim to wait for, and an end.
- **Layers.** Ten hand-unrolled forms of one definition. Correct: the same cells
  and the same weights for each, at the border too.
- **The inside of a batch.** Nine warps work on eight events with a residue
  partition of the cells instead of locks. Correct: as if one event at a time.

`PROJECT.json` lists the hazards with their lines.

## 2. Modules

| Module | Models | Relation |
|---|---|---|
| `BoundedFifo` | what a shard ring promises | abstract |
| `SpscRing` | `include/spsc.h` | implements `BoundedFifo` |
| `SpscRing_proof` | | theorems about `SpscRing` |
| `TicketQueue` | what a block's ring promises under any load | abstract |
| `GpuRing` | worker push and kernel batch loop on one ring | implements `TicketQueue` |
| `GpuRing_proof` | | theorems about `GpuRing` |
| `GridTopology` | `multi_block.py`, the s3 arithmetic of the head | operators |
| `BlockRouting` | push loop, blocks, prediction cells | extends `GridTopology` |
| `MCBlockRouting` | the grids for TLC | extends `BlockRouting` |
| `BlockRouting_proof` | | theorems about `GridTopology` and `BlockRouting` |
| `CpuShards` | dispatcher, shard workers, start and shutdown | uses a bounded queue where the code uses the ring |
| `CpuShards_proof` | | theorems about `CpuShards` |
| `InductionFacts` | | induction, recursion, sums and division for the proofs below it |
| `SequentialKernel` | stages 2 and 3 one event at a time: the oracle of `orin/bench_s2_s3_head_celled.py` | reference definitions |
| `CelledKernel` | a batch in `ssla_s2_s3_head_celled.cuh`, `persistent_multi` | extends `SequentialKernel`, compared with it by invariants |
| `MCCelledKernel` | grids and strips for TLC | extends `CelledKernel` |
| `CelledKernel_proof` | | theorems about `CelledKernel` |
| `HybridRun`, `MCHybridRun` | the programs around the libraries, five for TLC | uses a bounded queue where the code uses the ring; `CpuShards` and `GpuRing` are what it leaves free |
| `HybridRun_proof` | | theorems about `HybridRun` |
| `PatchChannels` | one cell of a layer: the elements of weights and inputs each routine multiplies | operators |
| `LayerPatch` | the cells a layer visits, and which routine a stage takes | extends `PatchChannels` |
| `SinglePipeline` | the single-threaded programs | extends `LayerPatch` |
| `Strips` | the strips of columns of all legacy schemes | operators |
| `OracleRun` | the producer of S2 to S8 with its checkpoints, and the decisions of one thread | extends `Strips` |
| `StagePipeline`, `ShardSums`, `OwnerShards`, `StageShards`, `Stage0Shards` | S2, S3, S4, S8, multicore stage 0 | extend `OracleRun` |
| `CommitShards` | the shard loop of S5, S6 and S7, with committed_seq | extends `OracleRun` |
| `PatchLocks` | a layer under the locks of its cells | extends `CommitShards` |
| `MergedShards`, `FullShards`, `Replicas` | S5, S6 (extend `PatchLocks`), S7 (extends `CommitShards`) | |
| `MulticoreBench` | `multicore_bench.cpp` | |
| `Legacy_proof` | | theorems about `PatchChannels`, `LayerPatch`, `SinglePipeline` and `FullShards` |
| `MCLegacy` | all of these on small inputs, one behaviour for each scheme | `INSTANCE` of each |

**SpscRing.** The steps are the accesses of the C++ text: `CheckRoom` (load of
`tail_`, full test), `WriteSlot`, `PublishHead`; `CheckEmpty`, `ReadSlot`,
`ReleaseSlot`. `push` is the loop of `CheckRoom` on itself. Each thread loads
its own counter exactly, and for the other's any value from the last seen to the
current one: that is coherence, and weaker than any machine. The release/acquire
pairs are what allows slot contents to be read from the current `buf`; without
them the model would not be justified. Counters are kept modulo
`Capacity * Laps`, which stands for 2^64.

**GpuRing.** A record is two words, coordinates and features, stored in any
order and copied by different threads of the block, so torn records are visible.
A claim never looks at the tail. `overrun` is a history variable: from the
moment the head runs more than a ring ahead, the delivery properties promise
nothing, and only `LagNonNegative`, `TicketSpec` and `StallsForGood` remain.
The work on a batch is one step here (`FinishBatch`).

**BlockRouting.** Rings are unbounded queues (their own protocol is `GpuRing`)
and a tdrop passes or fails freely, which covers every counter state.

**CpuShards.** Strips cut columns only, so an event is its column. A shard's
hidden state is a function of the sequence of events it processed, and that
sequence stands for it. Stage 0 is a single-cell layer and a 3x3 layer, which
gives the radius 2 in `S0Exact`. The thread that dispatches is the synthetic
one; `s01g_submit_batch` routes by the same lines. The order of the tdrop test
and the forward pass inside a message, and the state-only variant, do not
change which cells are updated, so `Handle` is one step: nothing but its own
queue is shared.

**CelledKernel.** Loads and stores of shared cells (counter, hidden state,
prediction, version) are separate steps of nine warps that walk over the batch at
their own pace; the barrier that ends a phase is one step, and takes in what each
warp does to its own event around it. A hidden state is the sequence of updates it
has had, each with its event and the layer that fed it, so an update lost, repeated,
overtaken or made from the wrong features shows. `SequentialKernel` defines the
same sequences from the stream of events alone, without a state. The ring is left
to `GpuRing`, and the live kernel's two heads differ in arithmetic only.
The partition of the hidden states is by the cell's coordinates plus one modulo 3,
because the offset is centred by the final `- 1` of lines 553 and 554. The comment
above them and `docs/PIPELINE_DESIGN.md:118` say the cell's own coordinates, which
is the partition of the counters. Each of the two is a partition, and no counter is
a hidden state, so nothing depends on their being equal.

**HybridRun.** The main thread of each program is one walk: launch, init, reset, start,
loop, (row,) join, final statistics, stop flag, synchronize, eof, join the workers, drop
the handle. `reset_stats`, `snapshot_stats` and the pushes of eof go shard by shard, load
by load, between the steps of the others. `source` is whoever submits. The five programs
differ in which source they have, what they do at a signal, and whether they take rows.
A SIGINT of the multi-block runner without a display stops the kernel at once; main and
source go on until the duration is over (`Signal`). Where two threads would push to one
ring, or use the freed handle, the code has no defined behaviour, and the model stops
(`Clash`): only after a join that timed out.

**PatchChannels, LayerPatch.** A product `W[row][i] * x[i]` is the record of where its
weight lies, which input it takes and which row it adds to. A routine is the set of the
products of its matrix steps, and the triple (query, value, gate) of each channel. `Reference` has one
layout, the fused routines walk vectors of four lanes, pairs of rows and tiles of a
transposed matrix, and the equality of the sets says that they compute the same sums up to
the order of the additions. `LayerPatch` has the visits (cell, position) of the clipped
loop, the unrolled form, the arrays of the fused routines and the owner mask.

**SinglePipeline.** One step for each stage of an event. A hidden state is the sequence of
the events it took, each with the position of its weights; a row of predictions is the last event
written to it.

**The schemes.** Stages cut columns only, so an event is a number and a column; rows,
features and times are left out. `OracleRun` writes the producer as a list of instructions
(push, publish, wait for a marker, record, done), taken one at a time between the steps of
the threads. A thread step is one access to what is shared: a pop, a push, a load or a
store of a counter, an update of a cell of a patch with its lock held. What the code does
locally between two of them is in the step. Sequences in `log` say what was applied to each
cell and which events each stage took, and are what the properties compare with `Reference`.

## 3. Runs

| Run | Checks | Bounds and why they are enough |
|---|---|---|
| `spsc_ring` | type, race freedom, bound, inductive invariant, refinement, liveness | capacity 2, counters wrap after 2 laps: full, empty and both wraps meet. Three values tell order from repetition |
| `gpu_ring` | delivery, disturbance, lag, order, refinement, stall, liveness | two workers, capacity 2, batch 2, 4 claims: out-of-order stamps, both words torn, two laps of overrun |
| `gpu_ring_overrun` | violation: published events pile up in the ring | as above, 5 claims |
| `block_routing` | one owner, patches, destinations, predictions on even grids | two events from one worker on five grids: 6x5 with four blocks, where all halos overlap; 4x4 and 4x5; and 14x5 and 14x9 with eight blocks, where both columns are far from the middle and only the rows' halos meet. Together they have strips with and without a remainder, even and odd, and the uniform split of a short axis. `OneOwner` proves the split for all extents |
| `routing_prediction_in_buffer` | violation: predictions stay in the buffer | production grid |
| `routing_s3_patch` | violation: the halo covers the s3 patch | production grid, two events |
| `cpu_shards` | stage 0, tdrop, drain, termination | 11 columns, two strips of 6 and 5, three events, queue of one so that pushes block |
| `celled_kernel` | residue partition, inductive invariant, agreement with the oracle, batches end | a 4x2 grid (2x1 at stage 3) whose left half is the strip; three events on a cell of the strip and a cell of the halo, whose patches are the same at stage 3, in batches of one and two; window 2, so events pass and are dropped at both stages. The second event of a batch can overtake the first in every phase, and a batch can follow one that left flags and contributions behind |
| `celled_kernel_versions` | violation: a version counts the predictions on its cell | a 2x2 grid, one stage-3 cell, three events in one batch of which two predict |
| `hybrid_run` | sources first, statistics add up, every program ends | 3 columns in 2 shards with a halo of 1, rings of one place, batches of up to two events, two events in a run: a push that waits while eof is due, an event out of bounds, an event in both shards, a row of statistics taken across handling, a join that times out inside submit_batch |
| `legacy` | decisions, drains, updates, order and end of all schemes and single-threaded programs | one small input for each scheme (in `MCLegacy`): two shards, rings of one or two places, so that every push can wait; events in columns on both sides of a boundary, one outside the sensor, two in one pooled cell with a window of 2, a warm-up and checkpoints inside the input. `s4full` is the input on which two producers meet in one ring |
| `legacy_ends` | the schemes end | the same inputs, S4 and S8 left out: their ends are excused too often to say anything |

Every property of a passing run has a mutant: an operator in front of the one it stands for,
whose comment says what it gets wrong.

### What the violations say

1. The GPU ring overwrites events when the kernel falls a ring behind. The archive
   admits it (`docs/archive/STATUS.md:1445-1452`) and elsewhere says that events
   pile up and degrade gracefully. `StallsForGood` is the other half: once the
   slot at the tail carries a later stamp, nothing is processed again.
2. On the production grid the strips are 5, 3, 3 and 5 rows. Halving `[5,8)` gives two s3
   rows to a buffer of one. Halving `[0,5)` loses row 4, and its events predict nothing:
   `PredictionsOnEvenGrids` has both halves, and holds where all boundaries are even.
3. A halo of two s2 cells does not cover the s3 patch. In the same way a stage-0 halo does
   not cover the stage-1 patch of a shard, whose hidden state only owners update; the
   comment in `src/lib_stage01_capi.cpp:119-121` says that it does.
4. The head takes a warp per event, not per cell. Two events of a batch that pass at
   stage 3 on one cell write one prediction and increment one version with plain
   loads and stores. With the window of 4 and batches of 8 it takes a batch full of
   events on the four s2 cells under one s3 cell; a smaller window makes it likely.

`SpscRing::size()` subtracts two counters loaded at different times, and wraps when the
tail has passed the head it loaded; the statistics add such numbers. It is a hazard
without a run.

### What the passing runs of the schemes leave out

The properties of the schemes say what holds; these are the conditions in them, each of
them a thing the code does.

- S2: a stage that finds its ring empty and then reads `done` leaves although Eof is in its
  ring (`EofMissed`); the threads behind it then wait for ever.
- S4: a contribution ring has the shards of both sides as producers (`raced`); a
  contribution may overtake the sender's backlog, so order at a boundary is not claimed. S4
  and S5: the merger looks at a shard's ring, then at its progress, and may emit a later
  event first; a last marker may stay in a ring. Order behind the merger is not claimed.
- S5, S6, S7: a shard that found its queue empty commits up to what was pushed since
  (`overtaken`), so a drain may end with an event still queued.
- S7: a shard that does not own an event applies layer 0 to its columns twice, and its
  predictions are those of shard 0; claimed are layer 1 and the decisions on owned events.
- S8: a marker counts at its first copy, committed_seq can go back, Eof in slot 0 can stop a
  shard before its other sources, and predictions are read from a pipe that no shard of
  the last stage writes. Claimed are the decisions and the order at stage 0.
- Multicore stage 0: a sleep of 50 ms is all that keeps the reset behind the last event of the
  warm-up; it is modelled as long enough.
- Multicore bench: a worker that throws while it loads is waited for (`Stranded`); the loop
  that would "Surface any worker errors" (`src/multicore_bench.cpp:274`) is not reached.
- The benches print "STOP - draining shard rings..." and take the statistics at once; what
  they print may be less than the totals after shutdown (`StatsAddUp` speaks of those).

Two limits are assumptions here and no runs. The tdrop counter is 8 bits wide, so a
window that does not divide 256 is not periodic (`CpuShards!TdropAsReference`
fails with a counter of 4 values and a window of 3; the default window is 4). And
the s2 extents are even in `SequentialKernelAssumption`: with an odd one, the s3
coordinate of the last row is `H3`, and nothing in the kernel keeps the event off
the counter and the predictions of that row.

## 4. Fairness

`SpscRing!FairSpec`: both threads run (weak fairness of their steps), and a load
that is repeated for ever eventually returns the current value (strong fairness of
a fresh load): C++ asks that stores become visible in finite time. No push need
ever start. `GpuRing!FairSpec`: a worker that claimed a slot fills it, the kernel
block is resident and runs; claims and the stop flag are free. `CpuShards!FairSpec`:
dispatcher, workers and the main thread's shutdown go on once begun; generating
and stopping are free. `CelledKernel!FairSpec`: a block that can take a step takes
one. That is one weak fairness condition for the nine warps and the barriers
together, less than one for each warp: a warp never waits except at a barrier and
each phase is a finite walk. Loading a batch is free.

`HybridRun!Fairness`: main, workers, kernel and a source inside submit run on, and the duration
ends (strong fairness of `Leave`, which a bench can only take between batches); that a
camera returns is assumed of the benches only, so a reader may hang in its camera for ever.
`MCLegacy!Spec`: one weak fairness condition for the producer and for each thread; a
spinning thread is scheduled, and no lock is assumed to be fair.

Deadlock is checked in `spsc_ring`, `cpu_shards` and `hybrid_run` (`Ended` is the finished
program). It is off for `GpuRing`, `BlockRouting` and `CelledKernel`, where the bound on
claims or events ends the run, and for `MCLegacy`, whose finished schemes have no step;
that no warp is stuck at a barrier is `BatchesEnd`, that no scheme is stuck `RunEnds`.

## 5. Proofs

All for every value of the constants, under the named assumptions `RingAssumption`,
`GpuRingAssumption`, `GridsAssumption`, `ShardAssumption`, `RunAssumption`,
`SequentialKernelAssumption` and `CelledKernelAssumption`. Where a theorem needs more it
says so in its own hypotheses: `S0ExactCorrect` a halo of two columns, `TdropCorrect` a
counter that wraps at a multiple of the window (256 does for every window that is a power
of two), `TdropWholeCorrect` strips of a multiple of four columns as well.

**`SpscRing_proof`**: `TypeCorrect`, `RaceFree`, `Bounded`, `Inductive`,
`Refinement` (`Spec => FifoSpec`). The invariant `IndInv` says that around the wrap
the counters lie in the order seenTail, tail, seenHead, head within one capacity
(`CountersOrdered`); that a thread past its test still has room or a value
(`ChecksHold`); and that slots hold what was put there (`SlotsHold`). Neither race
freedom nor the bound is inductive: each rests on what a thread remembers of the
other's counter. The arithmetic of distances modulo 2^n is in lemmas of its own
(`DistMoves`, `DistAdds`, `SlotsDiffer`), the last of which needs that the capacity
divides the modulus.

**`GpuRing_proof`**: `TypeCorrect`, `OrderCorrect`, `LagTheorem`, `StallTheorem`,
`Inductive`, `Delivered`, `Undisturbed`, `Refinement` (`Spec => TicketSpec`). The
invariant has two halves. `OrderInv` holds under any load: an unfinished slot
number has one worker, a stamp is a finished slot, what the kernel counted ready
was pushed. `DataInv` holds while there is no overrun: all slots between tail and
head are distinct cells, so what is written is still there when it is copied.

**`BlockRouting_proof`**, first of the operators: `OneOwner`, for 2, 4 and 8 blocks and any
extents: each cell is owned by one block. `Boundaries` shows that the boundaries of an axis
never go back and end at the extent, whichever way the remainder falls; `OneStrip` that a
coordinate is then in one strip; `BlockOfStrips` that blocks and pairs of strips
correspond. `HaloReaches`: the owner of a cell processes all events within `HALO`.
`OnePredictor`, `OwnPlace`, `EvenBlock` are the same for the prediction cells and their
places. Then of the behaviour, for every set of grids and every number of workers and
events: `TypeCorrect`, `OwnedOnceCorrect`, `PatchCoveredCorrect`, `OwnDestinationCorrect`,
`PredictionsOnEvenGridsCorrect`. None of these is inductive, since all speak of what a
block has processed and nothing of what waits in its ring. `RoutingInv` takes both as one
line for each block: it holds exactly the events that concern the block, save those the
push loop has not yet brought to it (`Sent`), those of one worker in order (`InOrder`);
what was written is the owner's and at its place (`WrittenInBlock`, `ProducedByOwner`).

**`CpuShards_proof`**: `TypeCorrect`, `S0ExactCorrect`, `TdropCorrect`, `DrainedCorrect`,
`WholeCells`, `TdropWholeCorrect`. The argument has two layers. `FlowInv` is about messages:
what a shard has processed and then what waits in its queue is one line in the order of
generation, it holds exactly the events that reach the shard and that the loop over dk has
brought to it (`Lines`, `Sent`), owner flags are right (`AllFlags`), eof is last and
comes only when the dispatcher has exited (`AllEnds`, `Control`). Exactness follows without
a further induction: a neighbour of an owned event reaches the owner (`NearReaches`), and
in a line whatever is earlier was processed earlier (`EarlierDone`). `ShardInv` adds the
counters. `Stage` says of one tdrop which of the events it has seen it let through and that
its counters hold the number seen of each cell modulo `CounterSize`; it is stated for any
set of events and any assignment of cells, so that one lemma (`StageCounts`) serves both
tdrops, the second with the survivors of the first. That the reduced counter decides as
the number does is `RemainderOfRemainder`, and it fails if the window does not
divide `CounterSize`.

**`HybridRun_proof`**: `SourcesFirstCorrect` and `StatsCorrect`, for the five programs and
all others that the parameters allow. `ControlInv` says where the threads can be relative to each
other (`Control`), that a source has in hand an event and the rings left for it, each once
(`Submitting`), and that an eof is the last entry of its ring and was sent (`Rings`).
`StatsInv` adds `Counts`, that a snapshot taken load by load never exceeds what the loaded counters
hold now, and `Books`: the events admitted are those counted, those in the rings and the
one in hand, for owners and halos apart, summed over shards and columns. The sums are
`SumFunctionOnSet` of the community modules, and the facts about it come from
`InductionFacts`.

**`CelledKernel_proof`**: `PatchPartition` (the nine targets of an event are nine
cells, one for each warp, in both grids and at their borders), `Inductive` and
`WarpsDisjoint` (`Spec => []OneWarpPerCell`). `OneWarpPerCell` is not inductive: a
warp holds a cell of an event it came to earlier. `IndInv` adds that a warp in the
middle of a tdrop step is at an event of its own residue (`Holding`) and that
coordinates are pooled before they index stage 3 (`Pooled`); then two cells in hand
have residues that differ. On top of it stand the three that say the batch computes what
one event at a time does. `StateCorrect`: `StateInv` relates every counter and hidden state, in
the middle of a phase too, to the prefix of the stream that the warp in charge of the cell
has come to (`Behind`), a loaded value to the state it was loaded from, and the pass flags
and features of the batch to those of the oracle; because one warp is in charge of a cell, what
it has behind it is the whole history of that cell. `SumsCorrect` adds `SumsInv`, that each
contribution is the cell as its event left it, and `PredictionsCorrect` `PredsInv`, the same
for boxes, classes and versions on the cells where no two events of a batch meet.

**`InductionFacts`**: `SetInduction`, `FiniteSetInduction` and `Recursion` state induction with
a set where the library has an operator, which the provers cannot instantiate: a property is
the set of the numbers, or finite sets, that have it. With them `History` of
`SequentialKernel`, a recursive function of the stream, satisfies its equations, and the sums
over finite sets can be split and compared (`SumOfSplit`, `SumOfUpdate`, `SumOfLeq`). The last
section has quotients and remainders by a variable, of which the solver knows little.

**`Legacy_proof`** has three parts. The constants of the modules it speaks of are given values
per scheme in `MCLegacy`, so the assumptions of the last two parts are definitions that the
theorems take as hypotheses; all the instances `MCLegacy` makes of these modules satisfy them.

*The layers.* For every grid `InteriorAsClipped` (fused and clipped visits are the
same), `VisitsInGrid` (also for a coordinate one past the grid, as odd extents give),
`EachCellOnce`, `MaskSelects`; for every size that is a multiple of four `WaysAsReference`,
and at the sizes of the network `FusedAsReference`, `FusedAsForward` and
`StateOnlyKeepsState`. `AllOffsets` lists the nine offsets; `CellInArray` and `RowsDisjoint`
carry the arithmetic of `y * w + x`. For the matrices the products of a vector, a pair or a
tile are shown to be those of the row they belong to, by dividing the row and column
numbers by the width of the vector (`SplitChannel`, `Division`, `TransposedPlace`). They
are statements about operators, so they need no invariant; `S1L0Interior`,
`S1L1Interior` and their untiled routines, which no stage calls, are covered by them only.

*The single-threaded programs* (`PipelineAssumption`: extents that are multiples of eight, so that
the cells of all stages are whole; a window that divides 256; a warm-up inside the input, which is
where the code clamps it). `PipelineApplies`, `PipelineRoutines`, `PipelineTimes`, `PipelinePredictions` and
`PipelineCounts` state for any sensor and input what the run `legacy` checks of S1, SHARD and STAGE0
in `AppliedOnce`, `RoutinesAgree`, `DtOfPixel`, `PredictionsLatest` and `EndsClean`. None of these is inductive: what an
event may touch depends on how far it gets, and this on the tdrop counters, of which no property
speaks. `PipelineInv` adds where the thread can be (`Place`: an event at a stage reaches that stage) and
that each counter is the number of events that came to it (`TdropAt`); then a tdrop decides as `Ends`
does, the recursive function of the input that the properties compare with. `EndFacts` gives its equations
by `Recursion`. The counters at the end are cardinalities of the events behind the thread; the
theorem covers the input that is all warm-up, where the run has ended only once the counters are reset.

*The locked scheme s6* (`LockedAssumption`: at least one shard and one column in the last stage, any queue,
columns in or out of the sensor, a warm-up inside the input). `LockedApplies`, `LockedDrains` and `LockedEnds`
state for any number of shards and stages and every interleaving what the run `legacy` checks of S6 in
`AppliedOnce`, `DrainsComplete` and `EndsClean`. The invariant `LockedInv`:

- `OrderInv`: what is in hand, in the queues and in the producer's program is in order: an
  event is at its owner and comes once (`After`), behind a published number no smaller event is left to push,
  and behind eof nothing. Without it a shard that takes a marker could not know what came before.
- `PlaceInv`: an event of the sensor is to come, in the hand of a shard or through stage 0; one to come has been
  through no stage, one in hand through exactly the stages before the one it is in.
- `LockInv`: of two shards that have loaded in one layer the cells differ, and what was loaded is what
  the cell still holds. This is why a store loses nothing; no property says it.
- `CellsInv`: a cell of a layer holds an event if and only if the event has it in its patch and has come
  to it (`Reached`), in the middle of a layer too.
- `CommitInv`: below the mark of a shard, and below what the producer has waited for, all
  events of the shard are done, unless one was overtaken. The step at which it would fail is the
  catch-up on an empty queue, and the model marks just that one.

That the producer's program satisfies `OrderInv` at the start is an argument of its own: the program is
a flattened sequence of sequences, one for each event, drain and record. `FlattenBuilds` is the induction
over it, and a block of instructions (`EventBlock`, `DrainBlock`, `MeasuredBlock`) moves the number below which
all has been pushed from where it begins to where it ends, up to `MainFacts`. TLC checked `LockedInv`, on a small
input completely and on larger ones in part, before it was proved.

Model-checked only:

- Liveness (`PushReturns`, `RingDrains`, `EveryClaimProcessed`, `ShutdownEnds`, `BatchesEnd`, `RunEnds`), which
  needs `ENABLED` and fairness.
- The properties of `MCLegacy` as they are written. Each is a conjunction over all schemes of an instance with
  fixed constants; the theorems above state the conjuncts of S1, SHARD, STAGE0 and S6, not of the others.
- The decisions and orders of the other schemes (S2 to S5, S7, S8, multicore stage 0, the bench). They compare
  sequences filtered with `SelectSeq` by an operator, and the producers sort shards with `SetToSortSeq`:
  operators that take operators, which the provers cannot instantiate. Of S5, which shares `PatchLocks` with S6,
  the cell updates are the same actions, but the hand-over to its merger is not proved.

## 6. Not modelled

- What floating-point operations yield: normalisation, activations, rounding and the order
  of additions. TLC has no such numbers and the code promises no bit-equality.
- The Python ring: tests and old benches import it, the runners do not.
- Legacy, prototype and profiling CUDA kernels: one event at a time, without sharing. The
  drain, oracle and timing variants of the celled kernel.
- Vendored code, weight loading, CUDA allocation and compilation, drawing, percentiles and
  histograms, comparison of oracle files.
- In `CpuShards`: latency samples, a dispatcher that is started twice. In `HybridRun`: the display.
- In `BlockRouting`: attaching rings after traffic has begun. The runs have one worker; for several, the order
  between events of different workers is not promised, and `PatchCovered` does not speak of it.
- In `CelledKernel`: arithmetic, weights and their offsets in the patch; timing slots.
- In the schemes: rows, features and times; timestamps of the latency records.
- Weak memory beyond stale counters in `SpscRing` and reordered plain stores in
  `GpuRing`. The rings of the schemes are bounded queues, which is what `SpscRing` shows
  of a ring with one producer.

## 7. Plan

1. Of the schemes, S5 is next: `LockInv` and `CellsInv` of `Legacy_proof` carry over, and the order of its
   merger is the new part. Then the decisions of `OwnerShards`, for which `Stage` of `CpuShards_proof` is
   the pattern, with the filtered sequences restated as sets of events.
2. The odd extents as a question to the routing model; the kernel's drain variant.
3. The Python ring with its overrun policy.
