----------------------------- MODULE NodeTiles -----------------------------
(***************************************************************************)
(* The tiles of a mapped layer (nocsim/schedule/tiles.py): what a node     *)
(* works on at one step of the DRAM loops, one step of the mesh's loops,   *)
(* and on one core.  A tile is a box in the layer's iteration space; its   *)
(* size is what remains of a dimension once every loop is divided out, its *)
(* place is put together from three mixed-radix numbers.                   *)
(***************************************************************************)
EXTENDS Mapping, BufSpatial

VARIABLES
  dramI, nocI, coreId, \* the loops of iter_node_tiles
  tiles                \* the tiles yielded so far

tileVars == <<dramI, nocI, coreId, tiles>>

vars == <<mappingVars, tileVars>>

Loopwise(dim) == Total(schedule.dram, dim) * Total(schedule.noc, dim)

(* Deviation: the cores are not divided out, as on a single node. *)
BoundOfAllCores(dim) == Max({Bound(layer, dim) \div Loopwise(dim), 1})

NodeBound(dim) ==
  Max({Bound(layer, dim) \div (Loopwise(dim) * schedule.space[dim]), 1})

OffsetDims ==
  {dim \in Dims : Has(schedule.dram \o schedule.noc, {dim}) \/ schedule.space[dim] > 1}

(* Deviation: a core and its neighbour have the same index. *)
HalvedIndex(core, dim) == SpatialIndex(schedule.space, core \div 2, dim)

(* decode_core_id: the order of the dimensions is that of the PEs. *)
CoreIndex(core, dim) == SpatialIndex(schedule.space, core, dim)

Cores == Pes(schedule.space)

(* The digit of the DRAM loops is the lowest, then comes the mesh's, then  *)
(* the core's, so that a core has one slice of the dimension to itself.    *)
TileOffset(d, n, core) ==
  [dim \in OffsetDims |->
     NodeBound(dim) * (Index(d, schedule.dram, dim)
                         + Total(schedule.dram, dim) * Index(n, schedule.noc, dim)
                         + Loopwise(dim) * CoreIndex(core, dim))]

(* Deviation: the position over the DRAM loops alone. *)
LastOfDram(d, n) == IsLastInDram(schedule, d, ReductionDims)

IsLastK(d, n) == IsLast(schedule, d, n, ReductionDims)

Tile(d, n, core) ==
  [dram   |-> d, noc |-> n, core |-> core,
   bound  |-> [dim \in Dims |-> NodeBound(dim)],
   offset |-> TileOffset(d, n, core),
   isLastK |-> IsLastK(d, n)]

Generated == stage = "read" /\ dramI = Steps(schedule.dram)

(* yield, and on to the next core, NoC step and DRAM step. *)
YieldTile ==
  /\ stage = "read" /\ ~Generated
  /\ tiles' = tiles \cup {Tile(dramI, nocI, coreId)}
  /\ LET lastCore == coreId + 1 \notin Cores
         lastNoc  == nocI + 1 = Steps(schedule.noc)
     IN  /\ coreId' = IF lastCore THEN 0 ELSE coreId + 1
         /\ nocI'   = IF ~lastCore THEN nocI ELSE IF lastNoc THEN 0 ELSE nocI + 1
         /\ dramI'  = IF lastCore /\ lastNoc THEN dramI + 1 ELSE dramI
  /\ UNCHANGED mappingVars

TilesInit == Init /\ dramI = 0 /\ nocI = 0 /\ coreId = 0 /\ tiles = {}

Next ==
  \/ MapLayer /\ UNCHANGED tileVars
  \/ YieldTile

Spec == TilesInit /\ [][Next]_vars
=============================================================================
