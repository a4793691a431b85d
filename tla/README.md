# TLA+ model of neuro_cache

This directory holds a formal model of the parts of the repository that decide
its results: from the solver's mapping of a layer to its loop nest and tiles
(`src/src/mip_solver`, `src/src/util.py`, `src/src/nocsim/schedule`), the weight
reads the accelerators make of a tile (`src/src/archmodels`) and their assembly
into a trace (`src/src/tracegen.py`), the shared-cache replay
(`src/src/cachesim`), the generator of the transactions a mapped layer causes on
the network on chip (`src/src/nocsim`), the event-driven simulator that times
them (`src/src/nocsim/eventsim`), and the three programs that run these parts in
worker processes and keep their results in files.  TLC
checks the modules on small instances, TLAPS proves the theorems listed below
for every instance.

File names without a directory are relative to `src/src/cachesim` for the cache,
to `src/src/nocsim` for the generator and to `src/src/nocsim/eventsim` for the
latency simulator; others are relative to `src/src`, and `scripts/` and
`profiling/` to `src`.

## 1. The system

A layer of a spiking network is mapped onto a grid of processing elements.  Two
questions are asked of the mapping: how often do weight reads hit a cache, and
how long does the layer take.

```
 parsers ──► mip_solver ──► schedule (json)
                               │
              ┌────────────────┴─────────────────┐
              ▼                                  ▼
   archmodels + tracegen               nocsim: schedule/ + combine.py
   weight trace: tick ─► core ─► tags  transactions and dependencies (tc.csv)
              │                                  │
              ▼                                  ▼
   cachesim: L1s + shared L2           nocsim/eventsim: simulate()
   hits, accesses                      cycles
```

### 1.1 Inventory

| component | state | operations | what makes it correct |
|---|---|---|---|
| **LRU policy, cache geometry** `policy.h` `cache.h` `config.h` | per set: `order_` (recency list), `map_` (tag → iterator, stamp), `clock_` | `contains`, `stamp_if_present`, `insert_or_touch`, `choose_victim`; `num_sets_and_ways`, `set_index` | `order_` and `map_` hold the same lines; recency order is stamp order; a set never outgrows its ways; a pinned line goes only when all are pinned, and then the one least recent before the tick |
| **Two-level hierarchy** `hierarchy.h`, `main_hierarchical.cpp` | one L1 per core, the L2, `pins`, `pending_fills`, four counters | `run_tick`: lookup phase, fill phase; `prefetch_target` | all lookups of a tick see L2 as it was when the tick began; a prefetch stays inside the layer and the cin block; L2 accesses are L1 misses |
| **Latency simulator** `EventSim.h` `NoC.h` `Transaction.h` `main.cpp` | `remaining_deps`, `ready`, `completions`, actor and link free times, counters | input checks, dispatch, completion, cycle detection | no actor or link is used twice at a time; everything that can run does; a cycle is reported; the makespan is the latest finish |
| **Line layout** `layout.h` `dims.h`, `packed_tags` of `main_hierarchical.cpp` | none | tag of an element, `TagPacker`, `hybrid_cout_lines`, reads → line tags | packing is injective, neighbours in cout are neighbours in tag, a read asks for its lines once each |
| Replay and sweep drivers `main.cpp` `main_hierarchical_sweep.cpp` `native_bridge.py` `config.py` `stats.py` | result tables | wire format, subprocess calls, validation | cores sorted per tick (modelled); every configuration sees the same trace |
| **Transaction generator** `combine.py`, `core/`, `transactions/` | the list and its cost counters; per DRAM step the histories of weights, MACs, psum and vmem stores, two rings, the chain tails; across DRAM steps the last DRAM stores | one pass of two nested loops: load, compute, pass on along chains, store, on two memory levels, each with its dependencies | dependencies point backwards; every output fires once; no PE computes with old weights; a result displaced before it is needed again is stored and loaded again; a single node uses no buffer |
| **Loop nest positions** `schedule/steps.py` | none | mixed-radix decoding, first and last positions, traffic-free flags, `weight_changes` | agree with each other for every nest (used by the generator) |
| **PE placement** `schedule/buf_spatial.py` | none | addresses, groups, K-chains, T-chains | chains run along columns and rows and meet where results are handed over |
| **MIP solver** `mip_solver/` | the placement of every prime factor | constraints on residency, spreading, buffers and loop order; the search itself is Gurobi's | a mode's mapping keeps off DRAM what its objective does not charge |
| **Schedule decoding and tiling** `util.py` `schedule/decode.py` `schedule/tiles.py` | strategy file | mapping → strategy → nest; nest → tiles of each step and core | the file describes the mapping; the tiles partition the layer; a tile is as wide as the solver made it; the last visit of an output is marked |
| **Front end** `sim.py` | `tc.csv` | run generator and simulator, report | what is written is accepted, and priced alike |
| **Accelerator models** `archmodels/` | per tile: reads with their cycles, `mac_cycles` | spikes of a tile → reads, one rule per accelerator | every weight is read as often as the spikes call for; no cycle is empty or overfull |
| **Trace pipeline** `tracegen.py`, `scripts/generate_weight_traces.py`, `scripts/solve_schedules.py` | schedules and traces on disk, temporary files, pools of workers | solve and cache; chunks, two passes, save through a temporary file, skip existing; merge cores by tick | a trace is whole or absent, made from the schedule on disk; a rerun makes what is missing; the merge loses no read |
| **Multinode solver sweep** `scripts/tmp/sweep_multinode_arch_sweep.py` | `summary.csv`, schedules on disk, pool of one-task workers | reconcile, open (append or anew), solve, append rows, flush | one true row per combo; rows survive; resuming completes |
| **Cache replay sweep** `profiling/0803_l1_l2_cache/run_sweep.py` | two result files per unit, the merged file | replay a unit, rename both files, merge | a summary stands for both files; only complete sweeps are merged |
| Parsers, other scripts, profiling, `dump/`, survey output | – | – | not part of the model |

### 1.2 How the parts interact

* The solver's variables reach the programs by two ways: the simulation decodes
  them directly (`decode`), trace generation from the strategy file
  (`load_schedule`).  Both number their steps by `dram_i` and `noc_i`, and what
  one says of a step is joined with what the other says of it.
* `iter_node_tiles` describes each tile by widths and offsets; an accelerator's
  binary gets a batch of tiles and samples and returns reads by tile, sample and
  cycle; `assemble_layer_traces` groups them by step and `merge_cores_by_tick`
  puts the cores of a step together.
* Stage 1 and stage 2 of the pipeline, and invocations of the same program, share
  nothing but the file system.  No file is locked; whether something is done
  already is decided by whether its file is there.
* `tracegen` writes a trace of ticks; each tick lists cores, each core a list of
  line tags.  `native_bridge.py` sorts the cores of a tick and
  `main_hierarchical.cpp` feeds the ticks to `TwoLevelHierarchy::run_tick` one
  by one.  `run_tick` refuses a core list that is not strictly ascending.
* `run_tick` calls `Cache::access` on the L1s and asks the L2 with
  `contains`/`stamp_if_present`; only after the last lookup does it call
  `access_pinned` on the L2, once per pending fill, in order.  The pin set it
  hands down is what `choose_victim` consults.
* `combine()` asks `StepInfo` at each pair of step numbers what is first, last,
  changed or traffic-free, and `BufSpatial` once for groups and chains; it calls
  the builders in `transactions/`, which append to `TC_Generator` and return the
  ids that later calls are told to wait for.
* `sim.py` writes the list to `tc.csv`; `eventsim/main.cpp` reads it into the
  vector that `simulate()` schedules.  Transactions refer to one another by
  `tc_id`.

### 1.3 What is hard

* **Simulated concurrency.**  The cores of a tick are concurrent by definition
  but are replayed one after the other on shared state.
* **Deferred updates.**  Fills run after all lookups and meet a cache that
  earlier fills of the same tick have already changed: a line may be owed
  twice, be evicted although it was read as a hit, or be prefetched into the
  place of the line it was prefetched with.
* **Full sets.**  Pins may cover a whole set (always, in a direct-mapped L2).
* **Order of events.**  `simulate()` pops completions one at a time while start
  times come from resource free times, so the loop's order is not time order.
* **Dependencies by bookkeeping.**  Nothing derives the generated graph from the
  data that flows: histories with gaps, rings that count other steps, and flags
  computed from the nest must together order what depends on what, across two
  loop levels and a reset between them.
* **Malformed input.**  Unsorted cores, duplicate ids, unknown or repeated
  dependencies, cycles.
* **The same nest twice.**  Factors are fused, reversed, written, read, reversed
  and split again; the solver demands an order by inequalities and the simulator
  looks for one by scanning loops.
* **Crashes and reruns.**  Workers and parents are killed between any two
  accesses to a file, pools lose their tasks in two different ways, and the next
  run has only the names of the files to go by.
* **Hidden order in the accelerators.**  GustavSNN's waves of different lengths,
  PTB's merging of neighbours and Prosperity's reuse of an earlier pixel are
  argued in comments only.

The list with source lines is `hazards` in `PROJECT.json`.

## 2. Modules

| module | models | role |
|---|---|---|
| `LruPolicy` | `policy.h`, `cache.h` | operators on one set and on the geometry |
| `TwoLevelHierarchy` | `hierarchy.h` | state machine of the replay |
| `TwoLevelHierarchyProps` | – | its properties |
| `L2Contract` | – | abstract specification of the shared L2 |
| `MCTwoLevelHierarchy` | – | small cache shapes for TLC |
| `NestLemmas` | – | lemmas: minima and maxima, sums and products, mixed radix, walks through a nest, groups and chains of PEs |
| `TwoLevelHierarchyProofs` | – | lemmas and theorems, those of `Layout` included |
| `EventSim` | `EventSim.h`, `NoC.h`, `Transaction.h` | state machine of `simulate()` |
| `EventSimProps` | – | its properties |
| `ListSchedule` | – | abstract specification: a list schedule |
| `MCEventSim` | – | transaction lists for TLC |
| `EventSimProofs` | – | lemmas and theorems |
| `LoopNest` | `schedule/steps.py` | operators on nests and step numbers |
| `BufSpatial` | `schedule/buf_spatial.py` | operators on PE numbers |
| `Combine` | `combine.py`, `core/`, `transactions/` | state machine of `combine()` |
| `CombineProps` | – | its properties |
| `MCCombine` | – | small layers for TLC |
| `LayerLatency` | `sim.py` | generator, file and simulator in sequence |
| `CombineProofs` | – | lemmas and theorems on `Combine` and `LayerLatency` |
| `MCLayerLatency` | – | layers on a mesh of two by two |
| `Mapping` | `mip_solver/constraints/`, `mip_solver/modes.py`, `util.py`, `schedule/decode.py` | state machine solve, write, read |
| `NodeTiles` | `schedule/tiles.py` | state machine of `iter_node_tiles`, after `Mapping`, on `BufSpatial` |
| `MappingProps`, `NodeTilesProps` | – | their properties |
| `SmallMappings`, `MCNodeTiles` | – | small layers, machines like those of `configs/` |
| `NodeTilesProofs` | – | lemmas and theorems on `Mapping` and `NodeTiles` |
| `WeightEvents` | `archmodels/*/*Gen.h`, `tick_output.h`, `tracegen.py`, `cachesim/native_bridge.py` | state machine of a binary's main loop and of the assembly; the five accelerators as operators |
| `WeightEventsProps`, `MCWeightEvents` | – | its properties; tiles made by instances of `NodeTiles` |
| `Layout` | `cachesim/layout.h`, `main_hierarchical.cpp` | operators: lines, tags, packing, the tags of a list of reads |
| `AtomicFiles` | – | abstract specification: files that appear whole |
| `TracePipeline` | `scripts/solve_schedules.py`, `scripts/generate_weight_traces.py`, `tracegen.py` | processes and files of the pipeline |
| `TracePipelineProps`, `MCTracePipeline` | – | its properties |
| `TracePipelineProofs` | – | lemmas and theorems |
| `SolveSweep` | `scripts/tmp/sweep_multinode_arch_sweep.py` | processes and files of the sweep |
| `SolveSweepProps`, `MCSolveSweep` | – | its properties |
| `SolveSweepProofs` | – | lemmas and theorems |
| `CacheSweep` | `profiling/0803_l1_l2_cache/run_sweep.py` | processes and files of the sweep |
| `CacheSweepProps`, `MCCacheSweep` | – | its properties |
| `CacheSweepProofs` | – | lemmas and theorems |

Definitions introduced by the comment `Deviation:` are not the code.  Each is a
mistake the code could plausibly contain, and each property is known to fail
when the definition named beside it under `mutants` in `PROJECT.json` is
replaced by its deviation.

### 2.1 `LruPolicy` and `TwoLevelHierarchy`

A set is the sequence `order_`, most recent first.  The stamps of `map_` are one
function `stamp` from tags to numbers, 0 meaning "not in `map_`"; the per-set
clock is incremented before it is read, so 0 is never a real stamp.  Pins are
represented the same way.  The three cache types are a number of sets and a
number of ways, as in `num_sets_and_ways`.

| code | action |
|---|---|
| `run_tick` entered, core list checked, `pins` and `pending_fills` fresh | `BeginTick`, `RejectTick` |
| one access that hits its L1 | `LookupL1Hit` |
| one access that misses L1 and is resident in L2 | `LookupL2Hit` |
| one access that misses both, with its prefetch | `LookupL2Miss` |
| the loop over one core's requests ends | `NextCore` |
| one `access_pinned` of the fill loop, with the eviction, the insert and the new stamp | `Fill` |
| `run_tick` returns | `EndTick` |
| the replay loop of `main_hierarchical.cpp` ends | `Finished` |

A trace is not a constant: the core list of a tick is picked when the tick
begins and each request when it is read, so TLC explores every trace within the
bounds.  L1s never see pins (`NoPins`).  `snapshot`, `demanded` and `lastTouch`
are history variables that no action reads.  L1 stamps are left out: nothing
reads an L1 stamp.

### 2.2 `EventSim`

One action is one iteration of one loop.  `Load` and `RejectList` are the input
checks; `Dispatch` pops the top of `ready`, computes start, finish and the
statistics and occupies the actor and every link of the route; `Complete` pops
the earliest completion and releases its dependents; `Return` is the test after
the loop.  `RejectTransaction` is the throw for a mesh message without a
destination.  `actor_free_time` and `link_free_time` have disjoint keys and are
one map `freeAt`.  `placed` is a history variable with the start and finish of
everything dispatched.

`Hops` is computed from XY routing on port numbers as in `NoC.h`.  The DRAM port
has no coordinates in the code and is never routed to: a transaction that
touches it occupies its actor alone.

### 2.3 `LoopNest`, `BufSpatial` and `Combine`

A nest is a sequence of loops, inner to outer; `Index` is `_decode_dim`.
`BufSpatial` reads a PE number with the same operator, through the nest
`PeLoops`, since PE numbers and step numbers are decoded by the same loop.

`combine()` is sequential, so `pc` names the builder called next and one action
is one call, or for the chains one group:

| code | action |
|---|---|
| 5a `load_from_dram` | `LoadFromDram(v)` |
| 5b, fresh histories and rings | `ResetHistories` |
| steps 1, 2, 3 | `LoadWeight`, `LoadPsum`, `MacCount` |
| steps 4 and 8, one group | `Chain(v)` |
| `_chain_tails` and its fallback | `ChainsDone(v)` |
| step 5 and `if not is_last_K: continue` | `StorePsum` |
| steps 6, 7, 9 | `LoadVmem`, `LifCount`, `StoreVmem` |
| 5d `store_to_dram` and the next DRAM step | `StoreToDram(v)` |

A `tc_id` is a position in `tcs`.  `Optional[int]` and the values of a result
dict are both lists of ids.  A transaction carries the builder and the steps it
was emitted at, which the code writes into its label; the properties speak of
those.  `job` holds the arguments of `combine()`: the two nests, the mesh with
its groups and chains, sizes, widths, and what the cycle model answers, which
may differ from tile to tile on a single node.  `prev_tchain_tails` and
`last_tchain_tails` are always equal and are one variable.  `lif_hist` is never
read and left out.

`LayerLatency` runs `Combine`, copies its list to the file with the columns the
simulator reads (`format_csv`), and then runs `EventSim` (`INSTANCE`) on it.

### 2.4 `Mapping` and `NodeTiles`

Every prime factor of a dimension is a record; a solution says which factors are
in the node and gives the permutations of the mesh and of DRAM as sequences,
inner to outer, each slot in space or in time.  `Solve` returns *any* point that
satisfies the constraints of the chosen traffic mode, since the objective decides
only which of them is taken.  The sums of logarithms in the solver are products
here, and buffer sizes are in elements.  `WriteStrategy` is `build_strategy`,
`ReadStrategy` is `schedule_from_strategy`; `Decode` is `decode`, the way without
a file.  Before `Solve` the variables hold an empty solution that no property
looks at.

`YieldTile` is one iteration of the three nested loops of `iter_node_tiles`.  A
tile is its two step numbers, its core, its widths, the offsets of the dimensions
that have an entry in `tile_offset`, and `is_last_K`.  The digits of a core are
read by `SpatialIndex` of `BufSpatial`: `decode_core_id` and the placement of PEs
use the same order.

### 2.5 `WeightEvents`

A sample is the set of its spikes.  `Reconstruct` is one iteration of the main
loop of an accelerator's binary (every sample of a tile, then the next tile):
it applies the accelerator's `reconstruct_sample` and groups the reads by tick.
`Assemble` is `assemble_layer_traces`; `TickData` is what `_write_tick_data`
hands to the cache replay.  The operators follow the order in which the code goes
through the kernel, since addresses and cycles depend on it.  The constants of
the headers (`PE_COUNT_MAX`, `TW_SIZE`, the array of PTB) are CONSTANTS.

`Layout` takes the reads of one core at one tick to the list of line tags that
`TwoLevelHierarchy` gets for it (`PackedTags`, which is `packed_tags` of the
replay's binary).  Under `layout=hybrid` a line holds a block of input channels
times a block of output channels of one kernel position; `Pack` numbers the lines
in mixed radix with the counts of blocks, rounded up, as radices.
`WeightEventsProps` applies it to the traces of `WeightEvents`; `CoutLines` and
`Tags` of `TwoLevelHierarchy` stand for `HybridCoutLines` and the packed
`CacheLines` of a layer.

### 2.6 `TracePipeline`, `SolveSweep` and `CacheSweep`

One action is one access to the file system or one step of a pool.  A file is
missing, partial or complete.  In `TracePipeline` a complete schedule is the
number of the solve that made it and a complete trace the number of the schedule
it was made from, so that a mixture shows.

| code | `TracePipeline` |
|---|---|
| `solve_schedules.main`, per layer | `SkipSchedule`, `SolveFails`, `OpenSchedule`, `CloseSchedule`, `WriteScheduleFails`, `SolverReturns` |
| `run_all_layers`, its two passes | `StartAll`, `EndPass` |
| `run_layer`, one process or `Pool.map` | `StartOne`, `LoadInParent`, `EndOne` |
| `_process_chunk` | `TakeTask`, `LoadSchedule`, `Reconstruct`, `ReconstructFails` |
| `save_weight_trace` | `MakeTemp`, `WriteTemp`, `Replace`, `SaveFails` |
| a killed process | `KillSolver`, `KillRun`, `KillWorker` |
| what the library does with a dead worker | `BreakPool`, `Terminate` (executor), `LoseChunk` (`Pool.map`) |
| the time limit of the job | `TimeLimit` |

When a worker of a `ProcessPoolExecutor` dies, every future that is not done is
failed at once, while the other workers are terminated a moment later and may
still complete a rename; hence `BreakPool` and `Terminate` are two actions.  A
worker of `multiprocessing.Pool` that dies takes its chunk with it and `map`
never returns; only the time limit ends such a run.  `SolveSweep` has the latter
kind of pool, with one task per process, and `CacheSweep` the former.

`SolveSweep` tells what is written to `summary.csv` from what is flushed:
`sweep.buffer` is lost with the parent.  `CacheSweep` has the two renames of a
unit as two steps, so that a process may die between them.

### 2.7 Abstract specifications

* `L2Contract` has no recency, stamps, L1s or order of fills.  It says: lookups
  are answered from the lines held when the tick began; only lines asked for or
  their prefetch neighbours come in; a fill displaces at most one line, of its
  own set, only if the set is full, and one that was read this tick only if all
  lines of its set were; a tick ends with nothing owed.
* `ListSchedule` has no queues, counters or maps.  A job may be placed once the
  jobs it depends on are placed, and starts at the earliest time all its
  resources are free of the jobs placed before it; when nothing more can be
  placed, the schedule is complete or a cycle is reported.
* `AtomicFiles` has no processes and no temporary files: a file is absent or
  complete and never goes away.  Both `TracePipeline` and `CacheSweep` implement
  it.

The refinement mappings are `Contract` in `TwoLevelHierarchyProps`, `Schedule` in
`EventSimProps`, `Files` in `TracePipelineProps` and `Cache` in
`CacheSweepProps`.

## 3. Runs

| run | question | instance |
|---|---|---|
| `HierarchyFull` | recency, pins, overflow, statistics, exact LRU | 2 cores, 3 tags, one-line L1s, fully associative L2 of 2 lines, 3 ticks, 3 accesses per core; both switches free; core lists up to length 2, sorted or not |
| `HierarchySets` | set placement, prefetch boundary, L2 contract | 2 cin blocks of 3 cout blocks, direct-mapped L1s of 2 sets, 2-set 2-way L2, 2 ticks, 2 accesses per core |
| `EventSimLists` | exclusive resources, makespan bounds, list schedule with its cycle reports, termination | every dependency relation (self-loops aside) on 3 transactions of 5 kinds, and 5 odd lists |
| `EventSimEarlyStart` | documented claim, refuted | two chains of two transactions |
| `CombineJobs` | what every finished list must satisfy | two-step loops over CIN, T, HO and COUT: every NoC nest and DRAM nest of up to two loops on one PE with a buffer, every DRAM nest of up to three on a single node; nests of up to two loops over CIN (2) and T (3) inside HO on three meshes of up to eight PEs |
| `LayerLatency` | generated lists are accepted, simulated and priced alike | CIN and T unrolled on a mesh of two by two, NoC nests of up to two and DRAM nests of up to one loop over CIN and T |
| `Tiles` | the file describes the mapping, the modes spare DRAM, the tiles divide the layer | every mapping of two layers of five prime factors (besides the kernel's 3x3) on five machines in twelve traffic modes, each run through to its last tile |
| `Traces` | reads, cycles, their assembly and the lines they ask for | nine tiled layers of at most eight input points, all five accelerators, every set of spikes as one sample and its complement as another; lines of two input by three output channels |
| `PipelineRaces` | traces are atomic and made from the schedule on disk | stage 1 solving twice next to two single-process invocations of stage 2 on one layer, with and without `--force`; one kill |
| `PipelineLive` | what a pool loses, reports and leaves behind; the first pass first; reruns complete | one invocation with two workers in both modes, two samples of which one in the first pass, one exception, one kill, rerun whenever it has ended |
| `SweepRecord` | the record through kills and resumes | three combos, two infeasible, two workers, one forced run, one exception, two kills |
| `CacheSweepFiles` | commit record, atomic results, reruns merge | two overlapping jobs of two workers on two units, one exception or kill |

**Why these bounds.**  In `HierarchyFull` the L2 is smaller than the set of
tags, so fills evict; two lines suffice for one pinned and one free line, for
both pinned, and for a prefetch to take the place of the line it came with;
three ticks are one to fill the L2, one to pin and overflow it, and one to see
the consequences.  `HierarchySets` is needed because a single set hides every
error in the set index, and its six tags because the tag after a cin block's
last cout block belongs to another cin block.  Three transactions are enough for
chains, forks, joins and cycles of length two and three; the five kinds share
an actor, a link, both or nothing, and the ids are in no order of the rows.
`MaxTicks` and `MaxAccesses` are the only bounds in guards.

The four dimensions of `CombineJobs` are one of each kind `combine()` tells
apart: reduced (CIN), in time (T), of the result only (HO), of weights and result
(COUT).  With two loops per level every order of two kinds occurs inside, outside
and across the levels, a dimension may be split over two loops of a level and
over both levels, and three NoC steps or more are reached, so that the
dependencies two steps back exist; T with three steps separates the dependency
two steps back from the one `T_noc_steps` back.  The meshes have chains of one,
two and four PEs in either direction and weights shared by several PEs.  A
single node has no NoC nest because the solver forbids one.  Nothing in
`Combine` is bounded by a guard: the nests are finite.

The first layer of `Tiles` has two factors in CIN, so that the factors of one
dimension can be split over node, mesh and DRAM and be separated by others; the
second has a CIN of six, so that the factors of one dimension differ and their
order in the file matters.  Between them the five machines (of four `dataflow/`
files) keep dimensions in the node as a whole, up to a cap, spread over PEs, or
not at all; one is a single node, one has buffers that bind.  `Traces` shrinks
the constants of the headers (`PE_COUNT_MAX` to 2, PTB's array to one by two and
its window to 2) so that GustavSNN has several and incomplete waves and PTB
several lines to merge; a kernel of 3x3 over such small layers reaches into the
padding on all sides.  With blocks of two and three channels, layers of one, two
and three input and two or four output channels have full, incomplete and single
blocks, and the channels of a core lie within a block or across two.  `Tiles` and `Traces` run with deadlock checking off: the
programs return when they are through.

In the runs with processes, two workers suffice for one to go on while the other
is killed, two invocations for a race on a file, two samples for a chunk that is
partly done (what is left over when the samples do not divide evenly is cut correctly
for every set of up to seven, `ChunksAssumption`, and for all in `WorkCorrect`), three combos for a killed run to leave one without a row, one with a
schedule and one with both.  `MaxSolves`, `MaxErrors`, `MaxKills`, `MaxForces` and
`MaxFaults` bound how often something goes wrong; `TempIds` bounds the random part
of temporary names and has more names than can be in use at a time plus be left
over by kills.  Deadlock checking is on: in these runs there is always something
left that can be started.

**Fairness.**  The caches and the generators are finite loops in one thread and are
given no fairness.  `EventSimLists` uses weak fairness of `Next`: one
thread that never waits.  In the runs with processes, the steps of every process
are weakly fair (the operating system schedules it, and no step waits for a
lock), and so is `TimeLimit`, the job's wall-clock limit, which alone ends a run
whose `Pool.map` waits for a dead worker.  That somebody starts the program again
when it has ended is an assumption about its users, which the skip-existing
checks and the READMEs invite to ("Rerunning the same job resumes missing
units").  `CacheSweepFiles` needs strong fairness there, because starts of single
units and of the merge compete for the same job.  Kills and exceptions are
bounded, so that each liveness property says: once they stop.

### 3.1 Properties

* `RecencyIsStampOrder` – `policy.h:53` says "recency order IS stamp order"; the
  overflow fallback is right only because of it.
* `PinsCarryTheSnapshot` – a pin's stamp is the one the line had when the tick
  began, whichever core pinned it and whatever has been filled since.
* `OverflowTakesPreTickLru` – an evicted pinned line had only pinned lines beside
  it and was nearest to LRU before the tick.
* `SetsAreWellFormed` – capacity, uniqueness, placement, in every L1 and the L2.
* `L2IsAnLruCache` – L2 accesses are L1 misses; with prefetching off, misses
  include the compulsory ones; with pinning off, the two-phase replay is LRU over the fill stream.
* `KeepsL2Contract`, `ComputesAListSchedule` – the refinements.  The second
  includes that exactly the transactions not behind a cycle are dispatched, and
  an error is raised exactly if there is a cycle.
* `Terminates` – liveness: the loop ends on every list, cycles included.
* `ResourcesAreExclusive` – no two transactions that share an actor or a link
  overlap.
* `MakespanIsBetweenMaxAndAdded` – between the load of the busiest resource and
  the sum of all durations.
* `DependenciesPointBack` – the generated graph has no cycle.
* `EachOutputFiresOnce` – of the steps that add to an output tile exactly the
  last one fires it, wherever the reduction loops stand.
* `NoStaleWeights` – the weights sent to a PE last before a MAC are the MAC's.
* `ReloadsMatchStores` – between two visits of the same tile with another one in
  between there are a store and a load, on both levels, and there is no load
  without its store.  What "the same tile" is comes from the nest alone, not from
  the flags the code decides by.
* `VmemStepsAreOrdered` – LIF steps of a DRAM step wait for all earlier ones and
  the chains between.
* `TrafficFollowsTheMachine` – a single node has no buffer traffic, and with a
  buffer DRAM talks to it alone; K-chains climb a column, T-chains run along a
  row and through exactly the PEs where K-chains end.
* `GraphIsAccepted`, `CostsAgree` – across the two programs: no generated list
  is malformed, and DRAM and multicast cycles equal the generator's counters
  (unicasts between PEs are counted by the simulator only).

* `SameNest` – the nest read from the strategy file and the one decoded from the
  solver's variables have the same index of every dimension at every step.
* `ModeSparesDram` – a mode that does not charge a tensor's DRAM loops admits no
  mapping for which the simulator takes that tensor to DRAM and back.
* `LayerIsDivided` – the tiles of all steps and cores partition the layer, and a
  core keeps to one slice of what is spread over the cores.
* `TilesAreDescribed` – a tile is as wide as the solver's residency, fits the
  buffers, and has an offset for a pixel dimension that is not in the node.
* `LastKEndsOutputs` – `is_last_K` is set at exactly the last visit of an output.
* `ReadsMatchTheSpikes` – every row of weights of a tile is read as often as the
  accelerator's rule says for the spikes the kernel meets, and nothing else is.
* `CyclesAccountForReads` – no cycle has more reads than PEs, none passes without
  one; PTB's cycles are those of the fewest groups its lines can form.
* `ReplayGetsEveryRead` – the cache replay gets one tick per cycle at which some
  core reads, in order, with each core's own reads in ascending order of cores.
* `RequestsNameTheLines` – a read asks for the lines that hold its weights, once
  each, by their number among all lines of the layer: the same for every tile,
  core and sample, and none beyond the layer.
* `TracesAreAtomic` – the traces implement `AtomicFiles`.
* `OneScheduleByLayer` – all traces of a layer are made from the schedule on
  disk, unless it was solved again under `--force`.
* `WorkIsAccountedFor` – what a run reports is there; two workers never have the
  same sample; temporary files are left by kills only, at most one per worker.
* `MilestoneFirst` – the first pass is complete before the second begins.
* `RerunsComplete`, `ResumesComplete`, `RerunsMerge` – liveness of the reruns.
* `RecordIsTrue` – one row per combo, and OK only for a schedule on disk or one
  that was cut short; `RowsSurvive` – rows are never taken back but by `--force`.
* `SummaryIsTheCommit`, `MergedIsComplete`, `CachedAtomically` – the summary of a
  unit is there only over its per-core file, a merge has every unit, and the
  results implement `AtomicFiles`.

The type invariants are theorems (section 4) and not run again.  `L2IsAnLruCache` and the
other properties joined from several are conjunctions of named parts, each with a
comment of its own.

### 3.2 Where code and documentation disagree

* **`StartsAfterItsDependencies`.**  `EventSim.h:15` says a transaction
  dispatches once its dependencies have finished and its resources are free.  It
  is *dispatched* after the completions were popped, but its *start time* is the
  maximum of resource free times alone.  On an idle actor it starts at 0, before
  what it depends on has finished; the makespan can be below the critical path.

`EventSimEarlyStart` is the run for it.  The statements below are defined in the
property modules, too; TLC refutes each when it is added to the configuration
named.

* **`TiesGoToTheSmallestId`** (`EventSimEarlyStart`).  `EventSim.h:17` promises ties by ascending
  `tc_id`.  The loop pops one completion at a time and dispatches what it made
  ready before looking at the next, even at the same time, so the order of the
  predecessors decides.
* **`OverflowOnlyWhenL2AllPinned`** (`HierarchySets` with `MaxAccesses = 3`).  The plan
  (`src/log/2026-08-03-l1-l2-cache-policy-plan.md:72`) lets protection degrade
  "if every resident line in L2 is pinned".  The code decides set by set.
* **`MacWaitsForItsWeights`** (`CombineJobs`).  `src/dump/NOC_DEPS.md:114` lists the weight load
  of its step as a dependency of every MAC: "Weights must have arrived at each
  PE".  When the load is skipped because the weights are still there, the entry
  is empty; the MAC at step 1 then has no dependency at all and may be started
  before the load of step 0 has arrived.
* **`LoadsFollowTheirStores`** (`CombineJobs`).  `src/dump/NOC_DEPS.md:184`: what is loaded "must
  already be committed by its producer".  Across DRAM steps only the stores of
  the last NoC step are waited for; tiles stored at earlier NoC steps may be
  loaded before they were stored.
* **`FailureStaysInItsLayer`** (`PipelineLive` with `LayerList <- TwoLayers` and
  `Modes = {"all"}`).  `scripts/generate_weight_traces.py:236`: "a real
  compute-node failure for one layer shouldn't sink the rest".  A dead worker
  breaks the executor, and every layer that is not finished fails with it.
* **`OnlySuccessPersists`** (`SweepRecord`).
  `scripts/tmp/sweep_multinode_arch_sweep.py:174`: only a successful solve
  persists a schedule.  A kill or an exception while the file is written leaves a
  truncated one, which the next run records as solved.
* **`RecordOfEveryAttempt`** (`SweepRecord`).  The same file, lines 43 and 248:
  `summary.csv` is the record of every combo ever attempted and never truncated.
  `--force` truncates it.
* **`ResumeSkipsAttempted`** (`SweepRecord`).  The same file, line 50: a resume
  only pays for combos not yet attempted.  A forced run killed before its header
  is flushed leaves an empty file, the next one appends rows without a header,
  and what these say is not found by name.
* **`ModeSparesDram`** in the mode `both_dram_ootk` (`Tiles` with that mode).  Its
  objective charges vmem no DRAM loops; its order puts the reduction inside T in
  DRAM, and `combine.py` looks for a T with nothing inside, so it stores and loads
  vmem there.  The run leaves this mode out.

One observation is not a statement of any document: the accelerators get no
offsets in KH and KW, and three of their bridges read `tile_offset[HO]` and
`[WO]` without a default.  All workloads `trace.py` captures have kernels that
fit the node and images of more than a pixel, for which both are right.

## 4. Proofs

All theorems are for arbitrary constants that satisfy the assumption of their
module, each no more than the code guarantees:

* `HierarchyAssumption` – cores and tags are numbers, and there are finitely many
  cores; the tag after a tag is in the layer unless a cin block ends there
  (`NextBlockIsNextTag` is this for `Layout`); capacities and ways are positive.
* `EventSimAssumption` – the input is a sequence of transaction records; the mesh
  has a column.
* `CombineAssumption` – nests have positive factors; groups and chains are nonempty
  lists of PEs, every PE is in some weight group (`buf_spatial.py` goes through all
  PEs) and there is a chain of each kind; a single node is one PE with one weight
  group; sizes and cycles are numbers, and a cycle count is given for every tile
  (`cycle_models` answers each); nothing is said of which PEs form a chain.
  `PlacementIsAssumed` shows that the groups and chains of `BufSpatial` meet it,
  for any spread of the dimensions over PEs.
* `FlagsAssumption` – the mesh that `sim.py` hands to the simulator has a column; that
  it is the generator's is in `LayerInit`, as in the code.
* `MappingAssumption` – a layer's factors are positive; a machine's three kinds of
  constraints (`full`, `cap`, `split`) are on different dimensions, and its numbers
  are positive.  Nothing is said of how large a layer is, or that its factors are
  prime.
* `CacheSweepAssumption` – there are finitely many units, at least one, and a
  worker.
* `PipelineAssumption` – a layer is listed once (`valid_layer_names` takes them from
  the keys of a dictionary); samples and workers are finitely many, and there is a
  worker and a temporary name.
* `SweepAssumption` – a combo is listed once, and the words of the header are not
  those of a combo.
* `LayoutAssumption` – blocks are positive.

The bounds on kills, errors, ticks and accesses are constants about which at most
is said that they are numbers.

| theorem | argument |
|---|---|
| `TypeCorrect` | `TypeOK` is inductive: every lookup changes the L1s alike (`AccessType`), a fill is `FillType`; the prefetched tag stays in `Tags` by the assumption on `CoutLines` |
| `RecencyCorrect` | `RecencyIsStampOrder` is not inductive: a fill erases the stamp of the victim it finds in one set, which harms another set if a line could sit in two.  `RecencyInv` adds that a line sits in the set its tag selects.  `FillKeepsRecency` follows where each line of the new order comes from (`InsertOrTouchElements`) and what stamp it has |
| `PinsCorrect` | `PinsCarryTheSnapshot` is inductive: its second conjunct (during lookups the L2 equals the snapshot) makes a late pin read the right stamp, and only a new tick changes the snapshot |
| `OverflowCorrect` | an action property.  The line that leaves a set during a fill is the victim (`LeavingLineIsTheVictim`); a pinned victim means all lines are pinned and its pin is least (`PinnedVictim`); pins are snapshot stamps by `PinsCorrect` |
| `ExclusiveCorrect` | `ExclusiveInv` adds to exclusivity that no resource is free before the finish of everything dispatched on it (`FreeAfterItsUsers`).  A dispatch starts at the maximum of the free times it needs (`StartIsLateEnough`, which needs routes to be finite, `RouteIsFinite`), hence after all rivals |
| `GeneratorTypeCorrect`, `PointBackCorrect` | neither is inductive alone: an id kept in a history must be that of an emitted transaction (`TypeOK`) for the dependencies of the next one to point back, and the list must grow by exactly the batch for kept ids to stay valid (`Emitted`, `Kept`).  `Held` joins the two; each builder's batch is shown to be `Ready`, its dependencies being histories, rings or tails, or the link before |
| `FiresCorrect` | `FiredInv`: the steps that have fired are, up to where the two loops stand, exactly those that the flags call last of their reduction.  That these are the last visits of their outputs is about the nest: a visit that is not last by the digits has a later one (`NotTheLastVisit`), a last one has none |
| `VmemOrderCorrect` | `OrderInv`: in any ancestry of the list, what a LIF transaction depends on, however indirectly, includes the LIF steps and chain links of its DRAM step before it, and the next one will wait for the ends of the chains, or for the last LIF step where no PE passes anything on (`Tip`), behind which all of them are |
| `ReloadsCorrect` | `TransferInv`: the steps with a load or a store of a result are, up to where the builders have come, those that the flags ask for (`MovesAt`).  The flags are then compared with the nest by `BufferRevisits`, `NodeRevisits` and their converses: a result is kept exactly if nothing comes between two visits of its tile |
| `TrafficCorrect` | `RoutesInv`: every transaction sends along one of the machine's ways or computes on a PE.  For the chains, `BufSpatial` is taken at its word: a K-chain holds the PEs that share an address, in the order of what is left of it, and two such PEs lie in the same column with no other between (`PlacementFollowsTheMesh`).  Its hypothesis is that groups and chains are those of `BufSpatial` |
| `AcceptanceCorrect` | `LayerInv`: the file has the rows of the list, which by `Held` and `RoutesInv` are numbered by their places, wait only for earlier rows and have somewhere to go; the simulator is where `EventSimProofs` says, so it rejects no row, and of what it has not dispatched the first row waits for nothing (`NoneIsStuck`): it never reports a cycle |
| `CostsAgreeCorrect` | `CostsInv` and `BucketInv`: each counter of either program is the sum over its own transactions of what it takes for one.  A row belongs to the same counter on both sides and takes the same there (`KindsAre`, `SimTimes`); the sums over DRAM and multicasts are therefore equal, and the generator's unicasts are some of the simulator's |
| `SameNestCorrect` | `MapInv` says what mapping, file and nest are at each stage.  Nests are `Alike` when they go through the same indices in the same steps and have the same order of nesting.  Fusing two neighbours keeps a nest alike to itself (`FuseIs`), and so does splitting a size into its prime factors (`ExpandIs`); what is reversed twice is as it was |
| `SparesDramCorrect` | for the twelve modes whose constraints order the loops (`OrderedModes`).  In DRAM the mode's tensor is either not looped over or no other loop comes inside its own (`SparedBy`), which goes over to the nest that is read back, being alike; then its first and last visits are as `IsFirstInDram` and `KeptInBuffer` compute them |
| `DividedCorrect` | `TilesInv` joins `MapInv` with `WalkInv`: the tiles are those of the rounds the three loops have been through.  Every factor of a dimension is in the node, on the mesh or in DRAM (`SolutionIs`), so a dimension is its width times its cores, times the totals of its loops (`NodeBoundIs`, an account over sets of factors).  Where a tile starts in a dimension is a number with three digits, those of DRAM, of the mesh and of the core (`PlacedTiles`, `SameThreeDigits`); two tiles with equal digits in every dimension are one (`SameStep`), so others are disjoint; none reaches outside; and they are as many, each of the same volume, as to fill the layer |
| `DescribedCorrect` | the width of a tile is what the solver put in the node (`NodeBoundIs`); the buffer's tiles have the sizes the solver reckoned with, because the loops outside divide the layer's size by what they multiply to (`SizesFit`); a pixel dimension that is not in the node as a whole has a loop or cores, hence an offset |
| `LastKCorrect` | `is_last_K` compares the index with the totals of the reduced loops on both levels; a tile that fails it has a later one over the same output (`StepAtTheEnd`), and a tile that passes is after all that share its output, since their other indices agree |
| `SetsCorrect` | inductive with `TypeOK`: a fill puts the tag into the set it selects (`InsertOrTouchElements`), at its front and nowhere else, and takes a victim away if the set was full |
| `ContractCorrect` | every action is a step of `L2Contract` or leaves its variables alone.  Lookups answer from the snapshot because the L2 does not change before the fills; a fill's victim is one line of the tag's own set, and a line that was read has a pin, so it leaves only if all lines of the set have one |
| `LruCorrect` | three inductive invariants.  `L2TrafficIsL1Misses` as it stands.  `MissInv`: what is in an L1 was asked for by its core and, with prefetching off, what is in the L2 or owed to it was asked for by some core, so the first request of a line misses both.  `TouchInv`: the last touch of a resident line is its stamp and none is ahead of its set's clock; with pinning off nothing is ever pinned, so a fill displaces the line touched longest ago |
| `ScheduleCorrect` | the refinement of `ListSchedule`.  `LoopInv` relates the counters, buckets and heap of the loop to `placed`: the counter of a transaction is the number of its dependencies whose completion has not been popped, those with none left are in `ready` or dispatched and never both, and the heap holds completions of dispatched ones.  When both are empty, what is not placed waits for something not placed, which is the abstract cycle.  `ExclusiveInv` gives the earliest start |
| `MakespanCorrect` | `WorkInv`: for every resource the durations of what was placed on it add up to at most its free time, that is at most the makespan, and the makespan is at most the sum of the statistics' counters.  A dispatch adds its duration to its resources and to one counter (`DispatchKeepsWork`); sums over `placed` grow by `SumInsert` and `SumUpdate` of `NestLemmas` |
| `WeightsCorrect` | `WeightsInv`: between the load of a step and that of the next every PE has been sent last what the step works on (`Holding`).  A load that happens reaches every PE (by the assumption on the groups); one that is skipped leaves the weights of the step before, whose indices in the weight's dimensions are the same (`WeightsArrive`); step 0 of a DRAM step always loads.  Every builder's batch bears the step it was emitted at (`StepAppends`), and what is emitted later does not change what a MAC has been sent before (`PastIsKept`) |
| `TracePipelineProofs!TypeCorrect`, `ScheduleCorrect`, `WorkCorrect`, `MilestoneCorrect`, `TracesCorrect` | one inductive invariant, `PipelineInv`.  `EmployedOK` ties a busy worker to a run that is at work on its layer; `TempsOK` gives a temporary file one owner, who finds in it what he wrote, until he has renamed it; hence a rename installs a complete trace, a step of `AtomicFiles`.  `SchedulesOK` extends `OneScheduleByLayer` to the versions held by parents and workers.  `CoverageOK` says that every sample a parent has set out to make is there, in a task, with a worker or with a layer known to have failed, which yields what is reported and the first pass |
| `SolveSweepProofs!TypeCorrect`, `RecordCorrect`, `RowsCorrect` | one inductive invariant, `SweepInv`.  `EachOnce`: a combo is in the queue, with one worker or in one result; `NoRowYet`: and has no row then, if the header is there for the resume to find the rows by; `HeaderOK`: the header is the first line, still in the buffer or lost with it; `FilesOK`: a schedule cut short is being written by one worker or is among those left so.  `RowsCorrect` follows because only `OpenSummary` under `--force` shortens the file |
| `CacheSweepProofs!TypeCorrect`, `SummaryCommits`, `MergesCompleteSweeps`, `ResultsAreAtomicFiles` | for any number of jobs, workers, units and faults.  That the summary is the commit record is not inductive: a process about to rename the summary must be known to have renamed its per-core file, and before that to have both complete under its own temporary names (`Renames`, and the last conjunct but one of `TypeOK`), which nobody can take away since a temporary name belongs to one process.  `Merges` says that a job about to write the merged file has seen every summary whole.  `IInv` joins them; an action other than the renames leaves `result` alone (`NoRename`), and a rename writes a complete file, which is a step of `AtomicFiles` |
| `WeightsLieInLines`, `PackIsInjective`, `TagsAreBelowTheLineCount`, `NextBlockIsNextTag` | for any layer and blocks of any size.  A number has one way to be written with a last digit below the radix (`DigitsAreUnique`), applied once per digit from the innermost; rounding up counts every block (`BlocksCoverTheBound`); a digit before another makes a number below the product (`TwoDigits`).  The last theorem is what `HierarchyAssumption` says of `Tags` and `CoutLines` |

The facts about one set (what `insert_or_touch` leaves, in which order, and that it
never exceeds the ways) are the first lemmas of `TwoLevelHierarchyProofs`.
`NestLemmas` has what several of the proofs need: that `CHOOSE`n minima and maxima
exist, the digits of numbers, and that the recursive sum of the community modules
over a finite set is a sum, that is, does not depend on the order in which it takes
the elements and grows by an element's value when the element is added (`SumInsert`).
The last is an induction on finite sets without the library's theorem for it: a
smallest set for which the claim fails (`SmallestSet`) is shown not to exist.

On these rests what it says of nests of any depth and on both levels.  The digits of
a step in mixed radix are those of exactly one step (`Radices`, `IsDigits`), and of
two steps the one whose outermost different digit is less comes first (`LexBefore`,
`ValueLex`).  A nest is therefore a walk through rows of digits (`NestWalk`, `PairWalk`
for a nest inside another), and what `is_first`, `is_last` and the traffic-free flags
compute can be compared with when a tile is in fact visited: whether a visit has an
earlier or a later one, which one is next, and whether another tile comes between
(`NodeRevisits`, `NodeLastVisit`, `BufferRevisits`, `BufferLastVisit`).  `Index`, `Total`
and the products are folds in the model; that they are what one thinks is shown by
following a fold element by element, the induction over its length being done by a
smallest counterexample, as for sums.

**Only model-checked.**  `Terminates`, `RerunsComplete`, `ResumesComplete` and
`RerunsMerge` stay with TLC: liveness under fairness needs `ENABLED`, which the provers do not handle.  The four properties of
`WeightEventsProps` (`ReadsMatchTheSpikes`, `CyclesAccountForReads`,
`ReplayGetsEveryRead`, `RequestsNameTheLines`) are checked on `Traces`: each says what
nested folds over a kernel, a window or a list of reads compute for one tile, for five
accelerators, so that every proof is an induction over data of its own, not one over
the steps of the machine; of what they rest on, the numbering of lines is proved
(`PackIsInjective` and the three theorems beside it).  `ModeSparesDram` is not claimed
of the mode `both_dram_ootk` (section 3.2).

## 5. Not modelled

* **Wire and file formats, argument parsing, reports** – no state; a model would
  restate them.
* **`capacity_lines`** – the division of bytes by line size is abstracted to the
  capacity it yields.
* **Widths** – tags, stamps and times are 64-bit in the code and would need more
  accesses or cycles to overflow than a run can make; the model uses naturals.
* **The solver's objective and the choice among the modes** – real-valued
  optimisation by an external program; any feasible point may come back.  The
  NodeLevel part of the strategy file and the synthetic level numbers, which
  nothing reads, are left out.
* **Factors of one pixel** – a layer of width one in HO or WO has a factor 1 that
  may be placed in space; no workload has one, and `Tiles` has none.
* **Accelerators** – the closed formulas of `dense.py` and the capture and the
  checks of the spikes in `trace.py`.  Kernels have stride one and are kept in
  the node.
* **Processes** – stage 2 started while a broken pool is being submitted to; a
  row of `summary.csv` flushed in part; two solver sweeps at once; equal process
  ids on two machines that share a file system (temporary names of the cache
  sweep).
* **`layout=inner_dim`** – the layout of the single-level `main.cpp`, which packs
  with the maxima a sample happens to show; the hierarchical replay refuses it.
* **Parsers, other scripts, profiling, archived reference, survey, data files of
  the profiling artifacts** – input checks and tooling around the parts above.

## 6. Plan

Done: `LruPolicy`, `TwoLevelHierarchy`, `L2Contract`; `EventSim`, `ListSchedule`;
`LoopNest`, `BufSpatial`, `Combine`, `LayerLatency`; `Mapping`, `NodeTiles`;
`WeightEvents`, `Layout`; `AtomicFiles`, `TracePipeline`, `SolveSweep`, `CacheSweep`; the
theorems of section 4.  Left, in order of weight:

1. Proofs: the reads of one accelerator (SpinalFlow first), by following its
   folds as `NestLemmas` follows those of a nest; then `ReplayGetsEveryRead`, which is
   about lists only.
2. `Layout`: the layout of the single-level replay, and an instance of
   `TwoLevelHierarchy` fed with the requests of `WeightEvents`.
