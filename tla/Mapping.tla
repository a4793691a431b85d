------------------------------ MODULE Mapping ------------------------------
(***************************************************************************)
(* From a solved mapping to the loop nest that is run.  The MIP of         *)
(* mip_solver/ gives every prime factor of a layer's dimensions a place:   *)
(* resident in the node, or one slot of the mesh's or of DRAM's            *)
(* permutation, in space or in time.  The places taken are written down as *)
(* a strategy (util.py) and read back by another program                   *)
(* (nocsim/schedule/decode.py).                                            *)
(*                                                                         *)
(* Any solution of the constraints may come back: the objective is left    *)
(* out.  A region has as many slots as there are factors, so its slots are *)
(* the sequence of the factors in it, inner to outer; sums of logarithms   *)
(* are products.                                                           *)
(***************************************************************************)
EXTENDS LoopNest

CONSTANTS
  Layers,   \* prob_factors: the prime factors of every dimension
  Machines, \* SNNDataflow and SNNArch, see below
  Modes     \* TrafficMode

Tensors == {"weight", "psum", "vmem"}

DimsOf(v) == CASE v = "weight" -> WeightDims [] v = "psum" -> PsumDims [] v = "vmem" -> VmemDims

(* node_dim_capacity: the dimensions kept in the node as a whole, up to a  *)
(* cap, or spread over its PEs; the others may not be in it.  fanout is    *)
(* S[1].  limits has the sizes of the buffers there are, in elements.      *)
ASSUME MappingAssumption ==
  /\ Layers \subseteq [Dims -> Seq(Nat \ {0})]
  /\ \A m \in Machines :
       /\ m.full \subseteq Dims
       /\ \E D \in SUBSET (Dims \ m.full) : m.cap \in [D -> Nat \ {0}]
       /\ \E D \in SUBSET (Dims \ (m.full \cup DOMAIN m.cap)) : m.split \in [D -> Nat \ {0}]
       /\ m.fanout \in Nat \ {0}
       /\ m.single \in BOOLEAN
       /\ \E R \in SUBSET {"node", "noc"} : m.limits \in [R -> [Tensors -> Nat \ {0}]]

VARIABLES layer, machine, mode,
  stage,    \* what was done last
  solution, \* the factors in the node, and those of either permutation
  strategy, \* the solver's output file
  schedule  \* schedule_from_strategy

mappingVars == <<layer, machine, mode, stage, solution, strategy, schedule>>

-----------------------------------------------------------------------------
(* Where the constraints let a factor be. *)

ProductOver(size(_), S) ==
  MapThenFoldSet(LAMBDA a, b : a * b, 1, size, LAMBDA T : CHOOSE x \in T : TRUE, S)

Times(factors) == ProductOver(LAMBDA f : f.factor, factors)

FactorsOf(l, dim) ==
  {[dim |-> dim, n |-> n, factor |-> l[dim][n]] : n \in DOMAIN l[dim]}

Factors(l) == UNION {FactorsOf(l, dim) : dim \in Dims}

Bound(l, dim) == Times(FactorsOf(l, dim))

MaxProductLeq(factors, cap) ==
  Max({Times(S) : S \in SUBSET factors} \cap 1 .. cap)

LargestDivisorLeq(bound, cap) == Max({d \in 1 .. Min({bound, cap}) : bound % d = 0})

(* add_node_capacity_constraints and add_pe_spatial_split_constraints:     *)
(* the factors of a dimension that is spread over the PEs are in the node  *)
(* in space, those of any other in time.                                   *)
NodeIsFilled(l, m, node) ==
  \A dim \in Dims :
    LET factors  == FactorsOf(l, dim)
        resident == factors \cap node
    IN  CASE dim \in DOMAIN m.split ->
               Times(resident) = LargestDivisorLeq(Bound(l, dim), m.split[dim])
          [] dim \in m.full         -> resident = factors
          [] dim \in DOMAIN m.cap   -> Times(resident) = MaxProductLeq(factors, m.cap[dim])
          [] OTHER                  -> resident = {}

(* add_spatial_constraints: in DRAM nothing is in space; parsing has seen  *)
(* to the node's share.                                                    *)
Places == {<<"noc", "space">>, <<"noc", "time">>, <<"dram", "time">>}

InSpace(place) == {f \in DOMAIN place : place[f][2] = "space"}

InMesh(place) == {f \in DOMAIN place : place[f][1] = "noc"}

SpreadIsLegal(m, place) ==
  Times(InSpace(place)) <= m.fanout /\ (m.fanout = 1 => InSpace(place) = {})

(* add_no_noc_level_constraints *)
NoMeshInSingleNode(m, place) == m.single => InMesh(place) = {}

Inside(node, place) ==
  [region \in {"node", "noc"} |-> node \cup (IF region = "node" THEN {} ELSE InMesh(place))]

(* add_utilization_capacity_constraints *)
TilesFit(m, inside) ==
  \A region \in DOMAIN m.limits : \A v \in Tensors :
    Times({f \in inside[region] : f.dim \in DimsOf(v)}) <= m.limits[region][v]

-----------------------------------------------------------------------------
(* What the traffic modes ask of the loops over time, in the buffer's      *)
(* permutation gb and in DRAM's (constraints/temporal_order.py).           *)

OutputDims == {"COUT", "HO", "WO"}
Time       == {"T"}

Has(loops, dims) == \E i \in DOMAIN loops : loops[i].dim \in dims

(* _above_all_k, _above_all_t, _t_above_all_o. *)
Above(loops, outer, inner) ==
  \A i, j \in DOMAIN loops : loops[i].dim \in outer /\ loops[j].dim \in inner => j < i

AddOotkGb(gb, dram) ==
  /\ Has(gb, ReductionDims) /\ Has(gb, Time)
  /\ Above(gb, OutputDims \cup Time, ReductionDims)
  /\ Above(gb, OutputDims, Time)
  /\ ~Has(dram, ReductionDims \cup Time)

AddOotkDram(gb, dram) ==
  /\ Has(dram, ReductionDims) /\ Has(dram, Time)
  /\ Above(dram, OutputDims \cup Time, ReductionDims)
  /\ Above(dram, OutputDims, Time)

AddOtokDram(gb, dram) ==
  /\ Has(dram, ReductionDims) /\ Has(dram, Time) /\ Has(dram, OutputDims)
  /\ Above(dram, OutputDims \cup Time, ReductionDims)
  /\ Above(dram, Time, OutputDims)

AddOtokGb(gb, dram) ==
  /\ ~Has(dram, ReductionDims)
  /\ Has(gb, ReductionDims) /\ Has(gb, OutputDims)
  /\ Above(gb, OutputDims \cup Time, ReductionDims)
  /\ Above(gb, Time, OutputDims)

(* Deviation: only the outputs are put above T, not the reduction. *)
XxxtDramOutputsOnly(gb, dram) ==
  /\ Has(dram, Time) /\ Has(dram, ReductionDims)
  /\ Above(dram, OutputDims, Time)

AddXxxtDram(gb, dram) ==
  /\ Has(dram, Time) /\ Has(dram, ReductionDims)
  /\ Above(dram, OutputDims \cup ReductionDims, Time)

AddXxxtGb(gb, dram) ==
  /\ Has(gb, Time) /\ Has(gb \o dram, ReductionDims)
  /\ Above(gb, OutputDims \cup ReductionDims, Time)
  /\ ~Has(dram, Time)

AddOoooDram(gb, dram) == ~Has(dram, ReductionDims \cup Time) /\ Has(gb, ReductionDims)

AddOoooGb(gb, dram) == ~Has(gb \o dram, ReductionDims \cup Time)

AddOootGb(gb, dram) ==
  /\ ~Has(gb \o dram, ReductionDims) /\ ~Has(dram, Time)
  /\ Has(gb, Time) /\ Above(gb, OutputDims, Time)

AddOootDram(gb, dram) ==
  ~Has(dram, ReductionDims) /\ Has(dram, Time) /\ Above(dram, OutputDims, Time)

AddOookGb(gb, dram) ==
  /\ ~Has(gb \o dram, Time) /\ ~Has(dram, ReductionDims)
  /\ Has(gb, ReductionDims) /\ Above(gb, OutputDims, ReductionDims)

AddOookDram(gb, dram) ==
  /\ ~Has(gb \o dram, Time)
  /\ Has(dram, ReductionDims) /\ Above(dram, OutputDims, ReductionDims)

Ordered(md, gb, dram) ==
  CASE md = "base"           -> TRUE
    [] md = "psum_dram_otok" -> AddOtokDram(gb, dram)
    [] md = "psum_gb_otok"   -> AddOtokGb(gb, dram)
    [] md = "vmem_dram_xxxt" -> AddXxxtDram(gb, dram)
    [] md = "vmem_gb_xxxt"   -> AddXxxtGb(gb, dram)
    [] md = "dram_oooo"      -> AddOoooDram(gb, dram)
    [] md = "dram_ooot"      -> AddOootDram(gb, dram)
    [] md = "dram_oook"      -> AddOookDram(gb, dram)
    [] md = "both_dram_ootk" -> AddOotkDram(gb, dram)
    [] md = "gb_oooo"        -> AddOoooGb(gb, dram)
    [] md = "gb_ooot"        -> AddOootGb(gb, dram)
    [] md = "gb_oook"        -> AddOookGb(gb, dram)
    [] md = "gb_ootk"        -> AddOotkGb(gb, dram)

(* zero_vars and gb_only_vars: the tensors whose DRAM loops cost nothing.  *)
Spared(md) ==
  CASE md = "base" -> {}
    [] md \in {"psum_dram_otok", "psum_gb_otok"} -> {"psum"}
    [] md \in {"vmem_dram_xxxt", "vmem_gb_xxxt"} -> {"vmem"}
    [] OTHER -> {"psum", "vmem"}

-----------------------------------------------------------------------------
(* The solution, written and read. *)

Over(slots, kind) ==
  FoldLeft(LAMBDA chosen, f : IF f.kind = kind THEN Append(chosen, f) ELSE chosen, <<>>, slots)

OverTime(slots)  == Over(slots, "time")
OverSpace(slots) == Over(slots, "space")

(* The ways to fill the slots of a region. *)
Slots(place, region) ==
  SetToSeqs({[dim |-> f.dim, factor |-> f.factor, n |-> f.n, kind |-> place[f][2]] :
               f \in {g \in DOMAIN place : place[g][1] = region}})

Segment(f) == [dim |-> f.dim, size |-> f.factor]

Scaled(segments, k, factor) == [segments EXCEPT ![k].size = @ * factor]

(* _fuse_same_dim_kind *)
FuseSameDim(slots) ==
  FoldLeft(LAMBDA segments, f :
             LET same == {k \in DOMAIN segments : segments[k].dim = f.dim}
             IN  IF same = {} THEN Append(segments, Segment(f))
                 ELSE Scaled(segments, Max(same), f.factor),
           <<>>, slots)

(* _fuse_kind: the neighbours of one dimension become one segment. *)
Fuse(slots) ==
  FoldLeft(LAMBDA segments, f :
             IF segments # <<>> /\ Last(segments).dim = f.dim
             THEN Scaled(segments, Len(segments), f.factor)
             ELSE Append(segments, Segment(f)),
           <<>>, slots)

(* build_strategy: the loops over time are listed outer to inner.  The     *)
(* node's share is not read back.                                          *)
BuildStrategy(sol) ==
  [noc   |-> Reverse(Fuse(OverTime(sol.noc))),
   space |-> FuseSameDim(OverSpace(sol.noc)),
   dram  |-> Reverse(Fuse(OverTime(sol.dram)))]

(* _get_prime_factors: ascending, and 1 of one.  *)
PrimeFactors(size) ==
  LET f[m \in 1 .. size] ==
        IF m = 1 THEN <<>>
        ELSE LET p == Min({d \in 2 .. m : m % d = 0}) IN <<p>> \o f[m \div p]
  IN  IF size = 1 THEN <<1>> ELSE f[size]

(* _expand_loops *)
ExpandLoops(entries) ==
  FoldLeft(LAMBDA loops, entry :
             LET primes == PrimeFactors(entry.size)
             IN  loops \o [k \in DOMAIN primes |-> [dim |-> entry.dim, factor |-> primes[k]]],
           <<>>, entries)

SpaceIn(entries) ==
  [dim \in Dims |-> FoldLeft(LAMBDA n, entry : IF entry.dim = dim THEN n * entry.size ELSE n,
                             1, entries)]

ScheduleFromStrategy(strat, l) ==
  LET dram == ExpandLoops(Reverse(strat.dram))
  IN  [noc      |-> ExpandLoops(Reverse(strat.noc)),
       dram     |-> dram,
       space    |-> SpaceIn(strat.space),
       dataSize |-> [v \in Tensors |->
          ProductOver(LAMBDA dim : Bound(l, dim) \div Total(dram, dim), DimsOf(v))]]

Loop(slots) ==
  [k \in DOMAIN slots |-> [dim |-> slots[k].dim, factor |-> slots[k].factor]]

(* decode: the same from the solver's variables, without a file. *)
Decode(sol) ==
  [noc      |-> Loop(OverTime(sol.noc)),
   dram     |-> Loop(OverTime(sol.dram)),
   space    |-> [dim \in Dims |-> Total(OverSpace(sol.noc), dim)],
   dataSize |-> [v \in Tensors |->
      Times({f \in sol.node \cup ToSet(sol.noc) : f.dim \in DimsOf(v)})]]

-----------------------------------------------------------------------------
Init ==
  /\ layer \in Layers /\ machine \in Machines /\ mode \in Modes
  /\ stage = "stated"
  /\ solution = [node |-> {}, noc |-> <<>>, dram |-> <<>>]
  /\ strategy = BuildStrategy(solution)
  /\ schedule = Decode(solution)

(* Model.optimize: any point that satisfies what solve_schedule added. *)
Solve ==
  /\ stage = "stated" /\ stage' = "solved"
  /\ \E node \in SUBSET Factors(layer) :
       /\ NodeIsFilled(layer, machine, node)
       /\ \E place \in [Factors(layer) \ node -> Places] :
            /\ SpreadIsLegal(machine, place)
            /\ NoMeshInSingleNode(machine, place)
            /\ TilesFit(machine, Inside(node, place))
            /\ \E noc \in Slots(place, "noc"), dram \in Slots(place, "dram") :
                 /\ Ordered(mode, OverTime(noc), OverTime(dram))
                 /\ solution' = [node |-> node, noc |-> noc, dram |-> dram]
  /\ UNCHANGED <<layer, machine, mode, strategy, schedule>>

WriteStrategy ==
  /\ stage = "solved" /\ stage' = "written"
  /\ strategy' = BuildStrategy(solution)
  /\ UNCHANGED <<layer, machine, mode, solution, schedule>>

ReadStrategy ==
  /\ stage = "written" /\ stage' = "read"
  /\ schedule' = ScheduleFromStrategy(strategy, layer)
  /\ UNCHANGED <<layer, machine, mode, solution, strategy>>

MapLayer == Solve \/ WriteStrategy \/ ReadStrategy

MappingSpec == Init /\ [][MapLayer]_mappingVars
=============================================================================
