------------------------------ MODULE Combine ------------------------------
(***************************************************************************)
(* The transaction generator (nocsim/combine.py, transactions/ and core/): *)
(* combine() walks the loop nest of a mapped layer and emits every message *)
(* and every computation as a transaction with the transactions it waits   *)
(* for.  One action is one call of a builder, or one iteration of a loop.  *)
(*                                                                         *)
(* A transaction is named by its tc_id, which is its position in tcs less  *)
(* one.  A list of tc_ids that may be empty stands for an Optional[int],   *)
(* and for the values of a result dict in their order.                     *)
(***************************************************************************)
EXTENDS LoopNest

CONSTANTS
  Jobs,          \* the arguments combine() may be called with, see below
  DramLatency

Tensors == {"weight", "psum", "vmem"}

PesOf(j) == 0 .. j.columns * j.rows - 1

(* Lists of groups of PEs; a group without a PE has no address. *)
Groups(j) == Seq(Seq(PesOf(j)) \ {<<>>})

(* The loops of the schedule; the mesh; BufSpatial's groups, in one of     *)
(* which every PE is, and chains, at least one of each kind as there is a  *)
(* PE; arch.single_node, which is one PE; data_size; the bit widths; the   *)
(* cycle model's answers, one per DRAM step (single node) or one for all.  *)
ASSUME CombineAssumption ==
  /\ DramLatency \in Nat
  /\ \A job \in Jobs :
       /\ job.noc \in Loops /\ job.dram \in Loops
       /\ job.columns \in Nat \ {0} /\ job.rows \in Nat \ {0}
       /\ job.weightGroups \in Groups(job)
       /\ PesOf(job) \subseteq UNION {ToSet(g) : g \in ToSet(job.weightGroups)}
       /\ job.chains \in [{"psum", "vmem"} -> Groups(job) \ {<<>>}]
       /\ job.single \in BOOLEAN
       /\ job.single => job.columns * job.rows = 1 /\ job.weightGroups = << <<0>> >>
       /\ job.elements \in [Tensors -> Nat] /\ job.bits \in [Tensors -> Nat]
       /\ job.cycles \in Seq([mac : Nat, lif : Nat])
       /\ Len(job.cycles) >= IF job.single THEN Steps(job.dram) ELSE 1

VARIABLES
  job,
  pc,          \* <<operation, tensor>>: the builder to call next
  dramI, nocI, \* dram_i and noc_i
  group,       \* k_chain and t_chain: the group whose links come next
  tcs,         \* TC_Generator.tcs
  costs,       \* unicast_hops, multicast_hops, dram_cost
  tileLoad,    \* dram_w_id, dram_p_id, dram_v_id
  prevStore,   \* prev_dram_psum_store, prev_dram_vmem_store
  hist,        \* w_hist, mac_hist, ps_hist, vs_hist
  loaded,      \* pl_tcs, then vl_tcs
  ends,        \* _chain_tails so far
  tails,       \* last_kchain_tails, last_tchain_tails = prev_tchain_tails
  vmemRing,    \* vmem_store_ring
  lifRing      \* lif_ring

dependencyState == <<tileLoad, prevStore, hist, loaded, ends, tails, vmemRing, lifRing>>
vars  == <<job, pc, dramI, nocI, group, tcs, costs, dependencyState>>

-----------------------------------------------------------------------------
(* Ports and what a message costs (core/noc.py, core/generator.py).        *)

NumPes == job.columns * job.rows

GbPort == NumPes

NumPorts(j) == 5 * j.columns * j.rows - 2 * j.rows * (j.columns - 1)
                                      - 2 * j.columns * (j.rows - 1)

DramPortOf(j) == NumPorts(j) - (j.columns + j.rows)

DramPort == DramPortOf(job)

(* src_port and dest_port: a single node has no global buffer. *)
OuterPort == IF job.single THEN DramPort ELSE GbPort

Distance(a, b) == IF a < b THEN b - a ELSE a - b

Hops(src, dest) ==
  Distance(src % job.columns, dest % job.columns)
    + Distance(src \div job.columns, dest \div job.columns)

PacketSize     == 256
FlitsPerPacket == 4

Packets(v, share) == (((job.elements[v] \div share) * job.bits[v]) - 1) \div PacketSize + 1

CostKinds == {"unicast", "multicast", "dram"}

(* The counter a transaction is charged to, if any. *)
CostKind(tc) ==
  CASE tc.op = "unicast" /\ DramPort \in {tc.actor, tc.dests[1]} -> "dram"
    [] tc.op # "count" /\ tc.actor = GbPort /\ tc.dests # <<DramPort>> -> tc.op
    [] OTHER -> "none"

(* Deviation: a multicast is charged for its nearest receiver. *)
CostToNearest(tc) ==
  IF CostKind(tc) = "dram" THEN tc.size * DramLatency
  ELSE Min({Hops(tc.actor, dest) : dest \in ToSet(tc.dests)}) + tc.size * FlitsPerPacket

Cost(tc) ==
  IF CostKind(tc) = "dram" THEN tc.size * DramLatency
  ELSE Max({Hops(tc.actor, dest) : dest \in ToSet(tc.dests)}) + tc.size * FlitsPerPacket

Charged(batch, kind, v) ==
  MapThenSumSet(LAMBDA k : Cost(batch[k]),
    {k \in DOMAIN batch : batch[k].label[2] = v /\ CostKind(batch[k]) = kind})

-----------------------------------------------------------------------------
(* Transactions.  The label is the builder and the tensor; with the step   *)
(* it is what the label string encodes.                                    *)

Message(src, dests, packets, deps) ==
  [label |-> pc, dram |-> dramI, noc |-> nocI, actor |-> src,
   op |-> IF Len(dests) = 1 THEN "unicast" ELSE "multicast",
   dests |-> dests, size |-> packets, deps |-> deps]

(* mac_count and lif_count: one COUNT per PE. *)
Counts(cycles, deps) ==
  [k \in 1 .. NumPes |->
     [label |-> pc, dram |-> dramI, noc |-> nocI, actor |-> k - 1, op |-> "count",
      dests |-> <<>>, size |-> cycles, deps |-> deps]]

Emit(batch) ==
  /\ tcs' = tcs \o batch
  /\ costs' = [kind \in CostKinds |->
                 [v \in Tensors |-> costs[kind][v] + Charged(batch, kind, v)]]

NewIds(batch) == [k \in DOMAIN batch |-> Len(tcs) + k - 1]

(* dict.get(n, {}): nothing is kept under a negative step. *)
Entry(dict, n) == IF n \in DOMAIN dict THEN dict[n] ELSE <<>>

With(dict, n, ids) == [m \in DOMAIN dict \cup {n} |-> IF m = n THEN ids ELSE dict[m]]

(* deque(maxlen=2) *)
Pushed(ring, ids) == IF Len(ring) < 2 THEN Append(ring, ids) ELSE <<ring[2], ids>>

LatestBut(ring, k) == IF Len(ring) > k THEN ring[Len(ring) - k] ELSE <<>>

(* What a tensor carries over: psums over the reduction, vmems over time.  *)
CarriedOver(v) == IF v = "psum" THEN ReductionDims ELSE {"T"}

AtFirst(v) == IsFirst(job, dramI, nocI, CarriedOver(v))
AtLast(v) == IsLast(job, dramI, nocI, CarriedOver(v))

Cycles == job.cycles[IF job.single THEN dramI + 1 ELSE 1]

-----------------------------------------------------------------------------
Init ==
  /\ job \in Jobs
  /\ pc = <<"load_from_dram", "weight">>
  /\ dramI = 0 /\ nocI = 0 /\ group = 1
  /\ tcs = <<>>
  /\ costs = [kind \in CostKinds |-> [v \in Tensors |-> 0]]
  /\ tileLoad = [v \in Tensors |-> <<>>]
  /\ prevStore = [v \in Tensors |-> <<>>]
  /\ hist = [v \in {"weight", "mac", "psum", "vmem"} |-> [n \in {} |-> <<>>]]
  /\ loaded = <<>> /\ ends = <<>>
  /\ tails = [v \in {"psum", "vmem"} |-> <<>>]
  /\ vmemRing = <<>> /\ lifRing = <<>>

SkipTileLoad(v) ==
  \/ job.single
  \/ /\ v # "weight"
     /\ \/ IsFirstInDram(job, dramI, CarriedOver(v))
        \/ KeptInBuffer(job, CarriedOver(v))
        \/ v = "vmem" /\ ~IsLastInDram(job, dramI, ReductionDims)

(* 5a: DRAM to global buffer. *)
LoadFromDram(v) ==
  /\ pc = <<"load_from_dram", v>>
  /\ LET batch == IF SkipTileLoad(v) THEN <<>>
                  ELSE <<Message(DramPort, <<GbPort>>, Packets(v, 1), prevStore[v])>>
     IN  /\ Emit(batch)
         /\ tileLoad' = [tileLoad EXCEPT ![v] = NewIds(batch)]
  /\ pc' = CASE v = "weight" -> <<"load_from_dram", "psum">>
             [] v = "psum"   -> <<"load_from_dram", "vmem">>
             [] v = "vmem"   -> <<"reset", "histories">>
  /\ UNCHANGED <<job, dramI, nocI, group, prevStore, hist, loaded, ends, tails,
                 vmemRing, lifRing>>

(* 5b *)
ResetHistories ==
  /\ pc = <<"reset", "histories">>
  /\ hist' = [v \in DOMAIN hist |-> [n \in {} |-> <<>>]]
  /\ tails' = [v \in DOMAIN tails |-> <<>>]
  /\ vmemRing' = <<>> /\ lifRing' = <<>>
  /\ pc' = <<"load", "weight">>
  /\ UNCHANGED <<job, dramI, nocI, group, tcs, costs, tileLoad, prevStore,
                 loaded, ends>>

(* Step 1 *)
LoadWeight ==
  /\ pc = <<"load", "weight">>
  /\ LET deps  == (IF nocI = 0 THEN tileLoad["weight"] ELSE Entry(hist["weight"], nocI - 1))
                    \o Entry(hist["mac"], nocI - 2)
         batch == IF ~WeightChanges(job, nocI) THEN <<>>
                  ELSE [g \in DOMAIN job.weightGroups |->
                          Message(OuterPort, job.weightGroups[g],
                                  Packets("weight", Len(job.weightGroups)), deps)]
     IN  /\ Emit(batch)
         /\ hist' = [hist EXCEPT !["weight"] = With(@, nocI, NewIds(batch))]
  /\ pc' = <<"load", "psum">>
  /\ UNCHANGED <<job, dramI, nocI, group, tileLoad, prevStore, loaded, ends, tails,
                 vmemRing, lifRing>>
(* The PE a carried-over result comes back to: K_max, or T_min. *)
Entrance(v, chain) == IF v = "psum" THEN Last(chain) ELSE chain[1]

SkipLoad(v) == AtFirst(v) \/ KeptInNode(job, CarriedOver(v))

SkipStore(v) == AtLast(v) \/ KeptInNode(job, CarriedOver(v))

(* (d): without a buffer the last DRAM step's store is waited for here. *)
DramStore(v) == IF job.single THEN prevStore[v] ELSE <<>>

(* Steps 2 and 6: from the buffer to one PE of every chain. *)
Loads(v, deps) ==
  IF SkipLoad(v) THEN <<>>
  ELSE [g \in DOMAIN job.chains[v] |->
          Message(OuterPort, <<Entrance(v, job.chains[v][g])>>,
                  Packets(v, Len(job.chains[v])), deps)]

LoadPsum ==
  /\ pc = <<"load", "psum">>
  /\ LET deps  == Entry(hist["psum"], nocI - 2)
                    \o Entry(hist["psum"], nocI - Total(job.noc, "T"))
                    \o tileLoad["psum"] \o DramStore("psum")
         batch == Loads("psum", deps)
     IN  /\ Emit(batch)
         /\ loaded' = NewIds(batch)
  /\ pc' = <<"count", "mac">>
  /\ UNCHANGED <<job, dramI, nocI, group, tileLoad, prevStore, hist, ends, tails,
                 vmemRing, lifRing>>

(* Step 3 *)
MacCount ==
  /\ pc = <<"count", "mac">>
  /\ LET deps  == Entry(hist["weight"], nocI) \o loaded \o Entry(hist["mac"], nocI - 2)
         batch == Counts(Cycles.mac, deps)
     IN  /\ Emit(batch)
         /\ hist' = [hist EXCEPT !["mac"] = With(@, nocI, NewIds(batch))]
  /\ pc' = <<"chain", "psum">>
  /\ UNCHANGED <<job, dramI, nocI, group, tileLoad, prevStore, loaded, ends, tails,
                 vmemRing, lifRing>>

(* The computation whose results travel along the chains. *)
Computed(v) ==
  IF v = "psum" THEN Entry(hist["mac"], nocI) ELSE LatestBut(lifRing, 0)

(* Deviation: the id of the link itself, not of the one before. *)
LinkWaitsForItself(v, i) == IF i = 1 THEN Computed(v) ELSE <<Len(tcs) + i - 1>>

LinkDependencies(v, i) == IF i = 1 THEN Computed(v) ELSE <<Len(tcs) + i - 2>>

(* Steps 4 and 8, one group: each PE hands on to the next, the first once  *)
(* all PEs have computed.                                                  *)
Chain(v) ==
  /\ pc = <<"chain", v>>
  /\ group <= Len(job.chains[v])
  /\ LET chain == job.chains[v][group]
         links == [i \in 1 .. Len(chain) - 1 |->
                     Message(chain[i], <<chain[i + 1]>>, Packets(v, Len(job.chains[v])),
                             LinkDependencies(v, i))]
     IN  /\ Emit(links)
         /\ ends' = IF links = <<>> THEN ends ELSE Append(ends, Len(tcs) + Len(links) - 1)
  /\ group' = group + 1
  /\ UNCHANGED <<job, pc, dramI, nocI, tileLoad, prevStore, hist, loaded, tails,
                 vmemRing, lifRing>>

(* _chain_tails; the computation itself where no chain has a link. *)
ChainsDone(v) ==
  /\ pc = <<"chain", v>>
  /\ group > Len(job.chains[v])
  /\ tails' = [tails EXCEPT ![v] = IF ends = <<>> THEN Computed(v) ELSE ends]
  /\ ends' = <<>> /\ group' = 1
  /\ pc' = <<"store", v>>
  /\ UNCHANGED <<job, dramI, nocI, tcs, costs, tileLoad, prevStore, hist, loaded,
                 vmemRing, lifRing>>

(* Steps 5 and 9: from the end of every chain to the buffer. *)
Stores(v) ==
  IF SkipStore(v) THEN <<>>
  ELSE [g \in DOMAIN job.chains[v] |->
          Message(Last(job.chains[v][g]), <<OuterPort>>,
                  Packets(v, Len(job.chains[v])), tails[v])]

(* The next NoC step, or out of the NoC loop with nocI = last_noc. *)
NextStep ==
  IF nocI + 1 < Steps(job.noc)
  THEN nocI' = nocI + 1 /\ pc' = <<"load", "weight">>
  ELSE nocI' = nocI /\ pc' = <<"store_to_dram", "psum">>

StorePsum ==
  /\ pc = <<"store", "psum">>
  /\ Emit(Stores("psum"))
  /\ hist' = [hist EXCEPT !["psum"] = With(@, nocI, NewIds(Stores("psum")))]
  /\ IF IsLast(job, dramI, nocI, ReductionDims)
     THEN pc' = <<"load", "vmem">> /\ nocI' = nocI
     ELSE NextStep
  /\ UNCHANGED <<job, dramI, group, tileLoad, prevStore, loaded, ends, tails,
                 vmemRing, lifRing>>

LoadVmem ==
  /\ pc = <<"load", "vmem">>
  /\ LET deps  == LatestBut(vmemRing, 1) \o LatestBut(vmemRing, 0)
                    \o tileLoad["vmem"] \o DramStore("vmem")
         batch == Loads("vmem", deps)
     IN  /\ Emit(batch)
         /\ loaded' = NewIds(batch)
  /\ pc' = <<"count", "lif">>
  /\ UNCHANGED <<job, dramI, nocI, group, tileLoad, prevStore, hist, ends, tails,
                 vmemRing, lifRing>>

(* Deviation: no edge from the last LIF step's chains. *)
LifWithoutCarry == tails["psum"] \o loaded \o LatestBut(lifRing, 1)

(* Step 7.  tails["vmem"] are still those of the last LIF step. *)
LifDependencies == tails["psum"] \o loaded \o tails["vmem"] \o LatestBut(lifRing, 1)

LifCount ==
  /\ pc = <<"count", "lif">>
  /\ LET batch == Counts(Cycles.lif, LifDependencies)
     IN  /\ Emit(batch)
         /\ lifRing' = Pushed(lifRing, NewIds(batch))
  /\ pc' = <<"chain", "vmem">>
  /\ UNCHANGED <<job, dramI, nocI, group, tileLoad, prevStore, hist, loaded, ends,
                 tails, vmemRing>>

StoreVmem ==
  /\ pc = <<"store", "vmem">>
  /\ Emit(Stores("vmem"))
  /\ hist' = [hist EXCEPT !["vmem"] = With(@, nocI, NewIds(Stores("vmem")))]
  /\ vmemRing' = Pushed(vmemRing, NewIds(Stores("vmem")))
  /\ NextStep
  /\ UNCHANGED <<job, dramI, group, tileLoad, prevStore, loaded, ends, tails, lifRing>>

-----------------------------------------------------------------------------
SkipTileStore(v) ==
  \/ job.single
  \/ IsLastInDram(job, dramI, CarriedOver(v))
  \/ KeptInBuffer(job, CarriedOver(v))
  \/ v = "vmem" /\ ~IsLastInDram(job, dramI, ReductionDims)

NextDramStep ==
  IF dramI + 1 < Steps(job.dram)
  THEN dramI' = dramI + 1 /\ nocI' = 0 /\ pc' = <<"load_from_dram", "weight">>
  ELSE UNCHANGED <<dramI, nocI>> /\ pc' = <<"return", "gen">>

FirstOf(ids) == IF ids = <<>> THEN <<>> ELSE <<ids[1]>>

(* 5d: global buffer to DRAM, after the last NoC step's stores or, if it   *)
(* had none, after the end of the chains.                                  *)
StoreToDram(v) ==
  /\ pc = <<"store_to_dram", v>>
  /\ LET stores == Entry(hist[v], nocI)
         deps   == IF stores = <<>> THEN tails[v] ELSE stores
         batch  == IF SkipTileStore(v) THEN <<>>
                   ELSE <<Message(GbPort, <<DramPort>>, Packets(v, 1), deps)>>
     IN  /\ Emit(batch)
         /\ prevStore' = [prevStore EXCEPT ![v] =
                            IF job.single THEN FirstOf(stores) ELSE NewIds(batch)]
  /\ IF v = "psum"
     THEN pc' = <<"store_to_dram", "vmem">> /\ UNCHANGED <<dramI, nocI>>
     ELSE NextDramStep
  /\ UNCHANGED <<job, group, tileLoad, hist, loaded, ends, tails, vmemRing, lifRing>>

Returned == pc = <<"return", "gen">> /\ UNCHANGED vars

Next ==
  \/ \E v \in Tensors : LoadFromDram(v)
  \/ ResetHistories
  \/ LoadWeight \/ LoadPsum \/ MacCount \/ StorePsum
  \/ LoadVmem \/ LifCount \/ StoreVmem
  \/ \E v \in {"psum", "vmem"} : Chain(v) \/ ChainsDone(v) \/ StoreToDram(v)
  \/ Returned

Spec == Init /\ [][Next]_vars
=============================================================================
