---------------------------- MODULE WeightEvents ----------------------------
(***************************************************************************)
(* Weight traces: which weights every core reads at which cycle.  One run  *)
(* of an accelerator's generator (archmodels/*/) turns every tile of a     *)
(* mapped layer and every sample into a list of reads with cycle numbers;  *)
(* assemble_layer_traces (tracegen.py) puts the cores of a step together,  *)
(* cycle by cycle; _write_tick_data (cachesim/native_bridge.py) hands the  *)
(* cycles to the replay one after the other.                               *)
(*                                                                         *)
(* A sample is the set of its spikes <<t, cin, hin, win>>.                 *)
(***************************************************************************)
EXTENDS LoopNest

CONSTANTS
  Jobs,          \* [arch, layer, tiles]: what load_schedule returns
  Rasters(_),    \* layer -> samples a layer may be given
  SampleIndices, \* the samples asked for, in order
  PeCountMax,    \* PE_COUNT_MAX of GustavGen.h
  TwSize, PeRowsMax, PeColsMax \* the constants of PTBGen.h

Archs == {"spinalflow", "loas", "ptb", "gustavsnn", "prosperity"}

(* NodeTileSpec, without is_last_K. *)
TileSpecs ==
  [dram : Nat, noc : Nat, core : Nat, bound : [Dims -> Nat \ {0}], offset : [Dims -> Nat]]

ASSUME WeightEventsAssumption ==
  /\ \A job \in Jobs : job.arch \in Archs /\ job.tiles \in Seq(TileSpecs)
  /\ IsInjective(SampleIndices)
  /\ {PeCountMax, TwSize, PeRowsMax, PeColsMax} \subseteq Nat \ {0}

VARIABLES
  job,     \* the tiles to go through, and the accelerator
  raster,  \* sample -> its spikes
  results, \* the generator's output file
  traces   \* LayerWeightTraces

vars == <<job, raster, results, traces>>

-----------------------------------------------------------------------------
(* A finite set in the order of a strict total order on it. *)
SortedBy(S, Less(_, _)) ==
  [k \in 1 .. Cardinality(S) |-> CHOOSE x \in S : Cardinality({y \in S : Less(y, x)}) = k - 1]

Sorted(S) == SortedBy(S, LAMBDA a, b : a < b)

(* What a tile covers. *)

Span(tile, dim) == tile.offset[dim] .. tile.offset[dim] + tile.bound[dim] - 1

(* The kernel's rows, kh outermost and cin innermost.  The offsets in KH   *)
(* and KW are not passed on: a kernel is kept in the node as a whole.      *)
Kernel(tile) ==
  LET kw == tile.bound["KW"]  cin == tile.bound["CIN"]
  IN  [i \in 1 .. tile.bound["KH"] * kw * cin |->
         [kh  |-> (i - 1) \div (kw * cin),
          kw  |-> ((i - 1) \div cin) % kw,
          cin |-> tile.offset["CIN"] + ((i - 1) % cin)]]

(* "same" padding: a pixel outside the input is in no sample's spikes.     *)
Meets(spikes, tile, row, t, ho, wo) ==
  <<t, row.cin, ho + row.kh - (tile.bound["KH"] - 1) \div 2,
                wo + row.kw - (tile.bound["KW"] - 1) \div 2>> \in spikes

(* The one output pixel of a tile of LoAS, PTB and SpinalFlow, the one     *)
(* time step of GustavSNN and Prosperity.                                  *)
Ho(tile) == tile.offset["HO"]
Wo(tile) == tile.offset["WO"]
At(tile) == tile.offset["T"]

-----------------------------------------------------------------------------
(* reconstruct_sample of every accelerator: rows of the kernel with their  *)
(* cycles, and the cycles the tile takes (mac_cycles).                     *)

OneByOne(rows) == [i \in DOMAIN rows |-> [row |-> rows[i], tick |-> i - 1]]

(* A read for every spike, t outermost. *)
SpinalFlowSample(spikes, tile) ==
  LET rows == FlattenSeq([i \in 1 .. tile.bound["T"] |->
                SelectSeq(Kernel(tile), LAMBDA row :
                  Meets(spikes, tile, row, At(tile) + i - 1, Ho(tile), Wo(tile)))])
  IN  [mac |-> Len(rows), reads |-> OneByOne(rows)]

(* The time steps at which a row of the kernel meets a spike. *)
Firing(spikes, tile, row) ==
  {t \in Span(tile, "T") : Meets(spikes, tile, row, t, Ho(tile), Wo(tile))}

(* Silence removal: the rows that fire at all. *)
Lines(spikes, tile) ==
  SelectSeq(Kernel(tile), LAMBDA row : Firing(spikes, tile, row) # {})

LoASSample(spikes, tile) ==
  LET rows == Lines(spikes, tile) IN [mac |-> Len(rows), reads |-> OneByOne(rows)]

(* Pass 2: a line is merged with the next one if they never fire together. *)
Groups(spikes, tile) ==
  LET lines == Lines(spikes, tile)
      Merge(i) == /\ i < Len(lines)
                  /\ Firing(spikes, tile, lines[i]) \cap Firing(spikes, tile, lines[i + 1]) = {}
  IN  FoldLeft(LAMBDA walk, i :
                 IF i < walk.next THEN walk
                 ELSE [ln |-> walk.ln + 1, next |-> i + IF Merge(i) THEN 2 ELSE 1],
               [ln |-> 0, next |-> 1], [i \in DOMAIN lines |-> i]).ln

ComputeCycleCount(ln, tile) ==
  LET timesteps == tile.bound["T"]
      rows == Min({tile.bound["COUT"], PeRowsMax})
      cols == Min({(timesteps + TwSize - 1) \div TwSize, PeColsMax})
      lastColTimesteps == timesteps - TwSize * (cols - 1)
  IN  Max({ln + rows + timesteps, ln + rows + cols + lastColTimesteps})

PTBSample(spikes, tile) ==
  LET rows == Lines(spikes, tile)
  IN  [mac   |-> Max({Len(rows), ComputeCycleCount(Groups(spikes, tile), tile)}),
       reads |-> OneByOne(rows)]

(* reconstruct_tile: the rows an output row needs for any of its pixels. *)
Submatrices(spikes, tile) ==
  [piece \in 1 .. tile.bound["HO"] |->
     SelectSeq(Kernel(tile), LAMBDA row :
       \E wo \in Span(tile, "WO") :
         Meets(spikes, tile, row, At(tile), Ho(tile) + piece - 1, wo))]

(* Deviation: one piece too many in a wave. *)
WaveOfOneMore(piece) == (piece - 1) \div (PeCountMax + 1)

WaveOf(piece) == (piece - 1) \div PeCountMax

(* The cycles of the waves before a given one: a wave takes as long as its *)
(* longest piece.                                                          *)
CyclesBefore(pieces, wave) ==
  MapThenSumSet(LAMBDA w :
      Max({Len(pieces[p]) : p \in {q \in DOMAIN pieces : WaveOf(q) = w}}),
    0 .. wave - 1)

(* addresses_and_ticks *)
GustavSNNSample(spikes, tile) ==
  LET pieces == Submatrices(spikes, tile)
  IN  [mac   |-> CyclesBefore(pieces, WaveOf(Len(pieces)) + 1),
       reads |-> FlattenSeq([p \in DOMAIN pieces |->
                   [j \in DOMAIN pieces[p] |->
                      [row |-> pieces[p][j],
                       tick |-> CyclesBefore(pieces, WaveOf(p)) + j - 1]]])]

(* The rows of the kernel that meet a spike, for every output pixel in row *)
(* major order (row_bits).                                                 *)
RowBits(spikes, tile) ==
  LET wos == tile.bound["WO"]
  IN  [pixel \in 0 .. tile.bound["HO"] * wos - 1 |->
         {row \in ToSet(Kernel(tile)) :
            Meets(spikes, tile, row, At(tile),
                  Ho(tile) + (pixel \div wos), Wo(tile) + (pixel % wos))}]

(* The stable sort by the number of bits. *)
Processing(bits) ==
  SortedBy(DOMAIN bits, LAMBDA a, b :
    \/ Cardinality(bits[a]) < Cardinality(bits[b])
    \/ Cardinality(bits[a]) = Cardinality(bits[b]) /\ a < b)

(* Deviation: the scan begins with the pixel processed first. *)
FirstSubset(bits, order, step) ==
  LET subsets == {s \in 1 .. step - 1 : bits[order[s]] \subseteq bits[order[step]]}
  IN  IF subsets = {} THEN {} ELSE bits[order[Min(subsets)]]

(* The most recent pixel whose bits are among this one's; its result is    *)
(* reused.                                                                 *)
Prefix(bits, order, step) ==
  LET subsets == {s \in 1 .. step - 1 : bits[order[s]] \subseteq bits[order[step]]}
  IN  IF subsets = {} THEN {} ELSE bits[order[Max(subsets)]]

ProsperitySample(spikes, tile) ==
  LET bits  == RowBits(spikes, tile)
      order == Processing(bits)
      rows  == FlattenSeq([step \in DOMAIN order |->
                 SelectSeq(Kernel(tile), LAMBDA row :
                   (row \in bits[order[step]]) # (row \in Prefix(bits, order, step)))])
  IN  [mac |-> Len(rows), reads |-> OneByOne(rows)]

ReconstructSample(arch, spikes, tile) ==
  CASE arch = "spinalflow" -> SpinalFlowSample(spikes, tile)
    [] arch = "loas"       -> LoASSample(spikes, tile)
    [] arch = "ptb"        -> PTBSample(spikes, tile)
    [] arch = "gustavsnn"  -> GustavSNNSample(spikes, tile)
    [] arch = "prosperity" -> ProsperitySample(spikes, tile)

(* An address has a row of the kernel and a range of output channels. *)
Address(row, tile) ==
  [kh |-> row.kh, kw |-> row.kw, cin |-> row.cin,
   coutStart |-> tile.offset["COUT"], coutEnd |-> tile.offset["COUT"] + tile.bound["COUT"]]

(* write_tick_grouped *)
TickGrouped(reads, tile) ==
  LET ticks == Sorted({reads[i].tick : i \in DOMAIN reads})
  IN  [k \in DOMAIN ticks |->
         LET here == SelectSeq(reads, LAMBDA read : read.tick = ticks[k])
         IN  [tick |-> ticks[k],
              addresses |-> [i \in DOMAIN here |-> Address(here[i].row, tile)]]]

-----------------------------------------------------------------------------
(* assemble_layer_traces *)

(* Deviation: the steps on the mesh share a group. *)
StepOfDram(tile) == <<tile.dram, 0>>

StepOf(tile) == <<tile.dram, tile.noc>>

TileOf(result) == job.tiles[result.tile]

(* groups[local_idx][key], in the order the results came. *)
CoresOf(local, key) ==
  SelectSeq(results, LAMBDA result : result.local = local /\ StepOf(TileOf(result)) = key)

(* merge_cores_by_tick: a core without a read at a tick is not listed. *)
MergeCoresByTick(cores) ==
  LET TicksOf(result) == {result.ticks[k].tick : k \in DOMAIN result.ticks}
      ticks == Sorted(UNION {TicksOf(cores[c]) : c \in DOMAIN cores})
      AddressesAt(result, tick) ==
        SelectSeq(result.ticks, LAMBDA entry : entry.tick = tick)[1].addresses
  IN  [k \in DOMAIN ticks |->
         LET here == SelectSeq(cores, LAMBDA result : ticks[k] \in TicksOf(result))
         IN  [tick  |-> ticks[k],
              cores |-> [c \in DOMAIN here |->
                           [core |-> TileOf(here[c]).core,
                            addresses |-> AddressesAt(here[c], ticks[k])]]]]

SortedKeys(keys) ==
  SortedBy(keys, LAMBDA a, b : a[1] < b[1] \/ (a[1] = b[1] /\ a[2] < b[2]))

LayerWeightTrace(local) ==
  LET keys == SortedKeys({StepOf(job.tiles[i]) : i \in DOMAIN job.tiles})
  IN  [sample |-> SampleIndices[local],
       tiles  |-> [k \in DOMAIN keys |->
          LET cores == CoresOf(local, keys[k])
          IN  [dram |-> keys[k][1], noc |-> keys[k][2],
               mac  |-> Max({cores[c].mac : c \in DOMAIN cores}),
               ticks |-> MergeCoresByTick(cores)]]]

(* _write_tick_data: a sample as the replay gets it, tiles left out. *)
TickData(trace) ==
  LET ticks == FlattenSeq([k \in DOMAIN trace.tiles |-> trace.tiles[k].ticks])
  IN  [k \in DOMAIN ticks |->
         SortSeq(ticks[k].cores, LAMBDA a, b : a.core < b.core)]

-----------------------------------------------------------------------------
Init ==
  /\ job \in Jobs
  /\ \E samples \in Rasters(job.layer) : raster = samples
  /\ results = <<>> /\ traces = <<>>

Local(n) == ((n - 1) % Len(SampleIndices)) + 1

(* The binary's main: every sample of a tile, then the next tile. *)
Reconstruct ==
  LET n     == Len(results) + 1
      index == (n - 1) \div Len(SampleIndices) + 1
  IN  /\ index \in DOMAIN job.tiles
      /\ LET tile   == job.tiles[index]
             result == ReconstructSample(job.arch, raster[SampleIndices[Local(n)]], tile)
         IN  results' = Append(results, [tile |-> index, local |-> Local(n),
                                         mac |-> result.mac,
                                         ticks |-> TickGrouped(result.reads, tile)])
      /\ UNCHANGED <<job, raster, traces>>

Assemble ==
  /\ Len(results) = Len(job.tiles) * Len(SampleIndices) /\ traces = <<>>
  /\ traces' = [local \in DOMAIN SampleIndices |-> LayerWeightTrace(local)]
  /\ UNCHANGED <<job, raster, results>>

Next == Reconstruct \/ Assemble

Spec == Init /\ [][Next]_vars
=============================================================================
