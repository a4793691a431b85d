--------------------------- MODULE MCLayerLatency ---------------------------
(***************************************************************************)
(* Layers on a mesh of two rows and two columns.                           *)
(***************************************************************************)
EXTENDS LayerLatency, MCCombine

GridJobs ==
  {Job(noc, dram, Grid, FALSE) :
     noc \in Nests(Twos({"CIN", "T"}), 2), dram \in Nests(Twos({"CIN", "T"}), 1)}
=============================================================================
