---------------------------- MODULE SmallMappings ----------------------------
(***************************************************************************)
(* Small layers, and machines like those of configs/, for the model        *)
(* checker.                                                                *)
(***************************************************************************)
EXTENDS LoopNest

(* A layer with kernels of 3x3, each other dimension given by its primes.  *)
Layer(cin, cout, ho, wo, t) ==
  [dim \in Dims |->
     CASE dim \in {"KH", "KW"} -> <<3>> [] dim = "CIN" -> cin [] dim = "COUT" -> cout
       [] dim = "HO" -> ho [] dim = "WO" -> wo [] dim = "T" -> t]

Caps(D, cap) == [dim \in D |-> cap]

Unlimited == [region \in {} |-> [v \in {} |-> 1]]

Buffers(node, noc) ==
  [region \in {"node", "noc"} |-> IF region = "node" THEN node ELSE noc]

(* dataflow/prosperity.yaml *)
Prosperity(width, fanout, single, limits) ==
  [full |-> {}, cap |-> Caps({"KH", "KW", "HO", "WO"}, 4), split |-> [COUT |-> width],
   fanout |-> fanout, single |-> single, limits |-> limits]

(* dataflow/spinalflow.yaml *)
SpinalFlow(width, fanout, single, limits) ==
  [full |-> {"T", "CIN"}, cap |-> Caps({"KH", "KW"}, 4), split |-> [COUT |-> width],
   fanout |-> fanout, single |-> single, limits |-> limits]

(* dataflow/gustavsnn.yaml *)
GustavSNN(width, rows, fanout, single, limits) ==
  [full |-> ReductionDims, cap |-> Caps({"WO"}, 4),
   split |-> [dim \in {"COUT", "HO"} |-> IF dim = "COUT" THEN width ELSE rows],
   fanout |-> fanout, single |-> single, limits |-> limits]

(* dataflow/loas.yaml *)
LoAS(width, fanout, single, limits) ==
  [full |-> {"KH", "KW", "CIN", "T"}, cap |-> Caps({}, 1), split |-> [COUT |-> width],
   fanout |-> fanout, single |-> single, limits |-> limits]
=============================================================================
