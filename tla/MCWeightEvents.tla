--------------------------- MODULE MCWeightEvents ---------------------------
(***************************************************************************)
(* Small layers with every accelerator, tiled by iter_node_tiles itself.   *)
(* Each has eight input points at most, and every set of spikes on them is *)
(* tried.                                                                  *)
(***************************************************************************)
EXTENDS WeightEventsProps, SmallMappings

Tiling(layer, schedule) ==
  INSTANCE NodeTiles WITH
    Layers <- {}, Machines <- {}, Modes <- {}, machine <- 0, mode <- 0, stage <- "read",
    solution <- 0, strategy <- 0, dramI <- 0, nocI <- 0, coreId <- 0, tiles <- {}

(* offset.get(dim, 0) *)
Tile(layer, schedule, d, n, core) ==
  LET tile == Tiling(layer, schedule)!Tile(d, n, core)
  IN  [dram |-> d, noc |-> n, core |-> core, bound |-> tile.bound,
       offset |-> [dim \in Dims |-> IF dim \in DOMAIN tile.offset THEN tile.offset[dim] ELSE 0]]

TilesOf(layer, schedule) ==
  FlattenSeq([d \in 1 .. Steps(schedule.dram) |->
    FlattenSeq([n \in 1 .. Steps(schedule.noc) |->
      [core \in 1 .. Cardinality(Tiling(layer, schedule)!Cores) |->
         Tile(layer, schedule, d - 1, n - 1, core - 1)]])])

Job(arch, layer, schedule) == [arch |-> arch, layer |-> layer, tiles |-> TilesOf(layer, schedule)]

Nest(dram, noc, spread) ==
  [dram |-> dram, noc |-> noc,
   space |-> [dim \in Dims |-> IF dim \in DOMAIN spread THEN spread[dim] ELSE 1]]

Loop(dim) == [dim |-> dim, factor |-> 2]

(* A dimension of width one that is not kept in the node has a loop too.   *)
Once(dim) == [dim |-> dim, factor |-> 1]

Spread(dim) == [d \in {dim} |-> 2]

(* CIN, COUT, HO, WO and T. *)
TwoChannels == Layer(<<2>>, <<2, 2>>, <<2>>, <<1>>, <<2>>)
FourSteps   == Layer(<<1>>, <<2>>, <<2>>, <<1>>, <<2, 2>>)
Tall        == Layer(<<1>>, <<2>>, <<2, 2>>, <<2>>, <<1>>)
Wide        == Layer(<<1>>, <<2>>, <<2>>, <<2>>, <<2>>)
ThreeChannels == Layer(<<3>>, <<2, 2>>, <<2>>, <<1>>, <<1>>)
Flat        == Layer(<<2>>, <<2>>, <<1>>, <<2, 2>>, <<1>>)

SmallJobs ==
  {Job("spinalflow", ThreeChannels,
       Nest(<<Loop("HO"), Once("WO")>>, <<Loop("COUT")>>, Spread("COUT"))),
   Job("spinalflow", TwoChannels, Nest(<<Loop("HO"), Once("WO")>>, <<>>, Spread("COUT"))),
   Job("loas",       TwoChannels, Nest(<<Loop("COUT"), Once("WO")>>, <<>>, Spread("HO"))),
   Job("ptb",        TwoChannels, Nest(<<Once("WO")>>, <<Loop("HO"), Loop("COUT")>>, Spread("COUT"))),
   Job("ptb",        FourSteps,   Nest(<<Once("WO"), Loop("HO")>>, <<>>, [d \in {} |-> 1])),
   Job("gustavsnn",  Tall,        Nest(<<>>, <<>>, Spread("COUT"))),
   Job("gustavsnn",  Wide,        Nest(<<Loop("T")>>, <<Loop("COUT")>>, Spread("HO"))),
   Job("prosperity", Flat,        Nest(<<Loop("CIN")>>, <<>>, Spread("COUT"))),
   Job("prosperity", Wide,        Nest(<<>>, <<Loop("T")>>, Spread("COUT")))}

Inputs(layer) ==
  LET Extent(dim) == 0 .. FoldLeft(LAMBDA a, b : a * b, 1, layer[dim]) - 1
  IN  Extent("T") \X Extent("CIN") \X Extent("HO") \X Extent("WO")

(* The second sample spikes where the first does not. *)
Opposites(layer) ==
  {[sample \in {1, 3} |-> IF sample = 3 THEN spikes ELSE Inputs(layer) \ spikes] :
     spikes \in SUBSET Inputs(layer)}

TwoSamples == <<3, 1>>
=============================================================================
