--------------------------- MODULE NodeTilesProps ---------------------------
(***************************************************************************)
(* What trace generation and the cycle models rely on when they are given  *)
(* a tile.                                                                 *)
(***************************************************************************)
EXTENDS NodeTiles, MappingProps

Start(tile, dim) == IF dim \in DOMAIN tile.offset THEN tile.offset[dim] ELSE 0

Disjoint(t, u) ==
  \E dim \in Dims : \/ Start(t, dim) + t.bound[dim] <= Start(u, dim)
                    \/ Start(u, dim) + u.bound[dim] <= Start(t, dim)

Volume == ProductOver(LAMBDA dim : NodeBound(dim), Dims)

(* The tiles cut the layer up: none reaches outside it, no two have a      *)
(* point in common, and together they have as many points as the layer.    *)
(* So every multiplication is in one tile, on one core, at one step:       *)
(* iter_node_tiles (tiles.py:97) neither repeats work nor leaves any out,  *)
(* whatever mix of DRAM loops, mesh loops and cores a dimension has.       *)
TilesPartitionLayer ==
  /\ \A t \in tiles, dim \in Dims : Start(t, dim) + t.bound[dim] <= Bound(layer, dim)
  /\ \A t, u \in tiles : t = u \/ Disjoint(t, u)
  /\ Generated =>
       Cardinality(tiles) * Volume = ProductOver(LAMBDA dim : Bound(layer, dim), Dims)

(* A dimension spread over the cores is cut into one slice per core, in    *)
(* the order of the cores' indices: whatever its loops over time, a core   *)
(* never leaves its slice (tile_offset's "spatial slice offset (which core *)
(* owns this dim's slice)", tiles.py:109).                                 *)
CoresKeepToTheirSlice ==
  \A t \in tiles, dim \in Dims :
    LET slice == Bound(layer, dim) \div schedule.space[dim]
    IN  Start(t, dim) \div slice = CoreIndex(t.core, dim)

(* The cores and the steps divide the layer among them. *)
LayerIsDivided == TilesPartitionLayer /\ CoresKeepToTheirSlice

(* The width of a tile is what the solver kept in the node, no more and no *)
(* less: a dimension that may not be in the node has width one there, on   *)
(* which the "one output pixel" of LoAS, PTB and SpinalFlow rests          *)
(* (tiles.py computes it by division, far from node_capacity.py).          *)
BoundIsResidency ==
  stage = "read" =>
    \A dim \in Dims : NodeBound(dim) = Times({f \in solution.node : f.dim = dim})

Barred(dim) == dim \notin machine.full \cup DOMAIN machine.cap \cup DOMAIN machine.split

(* The cycle models look up where a tile's pixel is,                       *)
(* tile.tile_offset[DIM_HO] (loas, ptb and spinalflow/native_bridge.py:34),*)
(* without a default: a pixel dimension that is not kept in the node has   *)
(* its entry in every tile, be it looped over in DRAM, on the mesh or      *)
(* spread over the cores.                                                  *)
PixelsAreAddressed ==
  \A t \in tiles, dim \in {"HO", "WO"} :
    Barred(dim) /\ Bound(layer, dim) > 1 => dim \in DOMAIN t.offset

(* What a cycle model is told of its tile, how wide it is and where, is    *)
(* what the solver decided and its buffers hold.                           *)
TilesAreDescribed == BoundIsResidency /\ TilesFitBuffers /\ PixelsAreAddressed

SameOutputs(t, u) == \A dim \in PsumDims : Start(t, dim) = Start(u, dim)

Before(t, u) == t.dram < u.dram \/ (t.dram = u.dram /\ t.noc < u.noc)

(* is_last_K ends an output: after a tile that has it nothing is added to  *)
(* that tile's outputs, and in the end every output had such a tile.       *)
(* tiles.py:146-150 warns of the flag taken over the DRAM loops alone.     *)
LastKEndsOutputs ==
  /\ \A t, u \in tiles : t.isLastK /\ Before(t, u) => ~SameOutputs(t, u)
  /\ Generated => \A t \in tiles : \E u \in tiles : u.isLastK /\ SameOutputs(t, u)
=============================================================================
