---------------------------- MODULE LayerLatency ----------------------------
(***************************************************************************)
(* From a mapped layer to its latency (nocsim/sim.py): the generator of    *)
(* Combine writes the transactions to tc.csv, and then the simulator of    *)
(* EventSim reads them from there.                                         *)
(***************************************************************************)
EXTENDS Combine

CONSTANTS MeshColumns, MeshDramPort   \* the simulator's flags

ASSUME FlagsAssumption == MeshColumns \in Nat \ {0} /\ MeshDramPort \in Nat

VARIABLES
  file,        \* the rows of tc.csv
  simPc, remaining, ready, completions, freeAt, dispatched, totalCycles,
  cycles, placed

simVars == <<simPc, remaining, ready, completions, freeAt, dispatched,
             totalCycles, cycles, placed>>

(* There is no file to start with. *)
Sim == INSTANCE EventSim WITH
         TcLists <- {<<>>}, X <- MeshColumns, DramPort <- MeshDramPort,
         tcs <- file, pc <- simPc

layerVars == <<vars, file, simVars>>

(* sim.py takes the flags from the layer. *)
LayerInit ==
  /\ Init /\ Sim!Init
  /\ job.columns = MeshColumns /\ DramPort = MeshDramPort

(* combine() *)
Generate == pc # <<"return", "gen">> /\ Next /\ UNCHANGED <<file, simVars>>

(* Deviation: tc_ids are written counting from one. *)
RowsFromOne ==
  [i \in DOMAIN tcs |->
     [tc_id |-> i, actor |-> tcs[i].actor, op |-> tcs[i].op, size |-> tcs[i].size,
      dests |-> tcs[i].dests, deps |-> tcs[i].deps]]

FileRows ==
  [i \in DOMAIN tcs |->
     [tc_id |-> i - 1, actor |-> tcs[i].actor, op |-> tcs[i].op, size |-> tcs[i].size,
      dests |-> tcs[i].dests, deps |-> tcs[i].deps]]

(* gen.to_file() *)
WriteFile ==
  /\ pc = <<"return", "gen">> /\ file = <<>>
  /\ file' = FileRows
  /\ UNCHANGED <<vars, simVars>>

(* run_eventsim() *)
Simulate == file # <<>> /\ Sim!Next /\ UNCHANGED vars

LayerNext == Generate \/ WriteFile \/ Simulate

LayerSpec == LayerInit /\ [][LayerNext]_layerVars

-----------------------------------------------------------------------------
(* What the generator emits the simulator accepts: tc_ids are distinct,    *)
(* every dependency exists, every message has a receiver, and no           *)
(* dependencies form a cycle (the errors of EventSim.h:57-71,125-134,177). *)
GraphIsAccepted == simPc \notin {"rejected", "cycle"}

(* The two programs price the same traffic: "dram_cycles == 1088 exactly   *)
(* matches dram_cost" (dump/PLAN_eventsim_latency.md:137-142), so do the   *)
(* multicasts, and the simulator's unicasts contain all of the generator's *)
(* and those between PEs.                                                  *)
CostsAgree ==
  simPc = "done" =>
    /\ cycles["dram"] = SumFunction(costs["dram"])
    /\ cycles["multicast"] = SumFunction(costs["multicast"])
    /\ cycles["unicast"] >= SumFunction(costs["unicast"])

=============================================================================
