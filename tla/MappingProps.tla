---------------------------- MODULE MappingProps ----------------------------
(***************************************************************************)
(* What the programs after the solver rely on.                             *)
(***************************************************************************)
EXTENDS Mapping

SameIndices(loops, others) ==
  /\ Steps(loops) = Steps(others)
  /\ \A step \in 0 .. Steps(loops) - 1, dim \in Dims :
       Index(step, loops, dim) = Index(step, others, dim)

(* A schedule read from the strategy file is the schedule the solver's     *)
(* variables describe, although factors were fused, reversed and split     *)
(* again: the same steps, at every one of them the same index of every     *)
(* dimension, the same spread and tile sizes, and the same tensors kept.   *)
(* The traces are generated with the one (tracegen.py:145), the layer is   *)
(* simulated with the other (sim.py:102), and both count by dram_i.        *)
SameNest ==
  stage = "read" =>
    LET direct == Decode(solution) IN
    /\ SameIndices(schedule.noc, direct.noc)
    /\ SameIndices(schedule.dram, direct.dram)
    /\ schedule.space = direct.space
    /\ schedule.dataSize = direct.dataSize
    /\ \A dims \in {ReductionDims, Time} :
         /\ KeptInNode(schedule, dims) = KeptInNode(direct, dims)
         /\ KeptInBuffer(schedule, dims) = KeptInBuffer(direct, dims)

CarriedOver(v) == IF v = "psum" THEN ReductionDims ELSE Time

(* A DRAM step at which combine() fetches what an earlier one wrote back.  *)
FetchedFromDram(v) ==
  \E d \in 0 .. Steps(schedule.dram) - 1 :
    /\ ~machine.single
    /\ ~IsFirstInDram(schedule, d, CarriedOver(v))
    /\ ~KeptInBuffer(schedule, CarriedOver(v))
    /\ v = "vmem" => IsLastInDram(schedule, d, ReductionDims)

(* A mode whose objective leaves the DRAM loops of a tensor out            *)
(* (mip_solver/modes.py) only admits mappings whose simulation, read from  *)
(* the strategy file, never takes that tensor to DRAM and back             *)
(* (combine.py): the order demanded of the factors survives the strategy   *)
(* and is the one the simulator looks for.                                 *)
ModeSparesDram ==
  stage = "read" => \A v \in Spared(mode) : ~FetchedFromDram(v)

(* What the simulator sends and what a node holds fit the buffers the      *)
(* solver was given: the tile of the buffer by the schedule's own sizes,   *)
(* that of the node by what the loops leave of every dimension.            *)
TilesFitBuffers ==
  stage = "read" =>
    \A v \in Tensors :
      /\ "noc" \in DOMAIN machine.limits => schedule.dataSize[v] <= machine.limits["noc"][v]
      /\ "node" \in DOMAIN machine.limits =>
           ProductOver(LAMBDA dim : Bound(layer, dim), DimsOf(v))
             <= machine.limits["node"][v]
                  * ProductOver(LAMBDA dim : schedule.space[dim] * Total(schedule.noc, dim)
                                               * Total(schedule.dram, dim), DimsOf(v))
=============================================================================
