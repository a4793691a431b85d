----------------------------- MODULE MCCombine -----------------------------
(***************************************************************************)
(* Small layers for TLC.                                                   *)
(***************************************************************************)
EXTENDS CombineProps, BufSpatial

Loop(dim, factor) == [dim |-> dim, factor |-> factor]

Spread(dims) == [dim \in Dims |-> IF dim \in dims THEN 2 ELSE 1]

(* A layer with one element per PE and step in every tile. *)
Job(noc, dram, spatial, single) ==
  LET Elements(dims) == Product(noc, dims) * Product(PeLoops(spatial), dims)
  IN  [noc |-> noc, dram |-> dram,
       columns |-> Columns(spatial), rows |-> Rows(spatial),
       weightGroups |-> WeightGroups(spatial),
       chains |-> [psum |-> KChains(spatial), vmem |-> TChains(spatial)],
       single |-> single,
       elements |-> [weight |-> Elements(WeightDims), psum |-> Elements(PsumDims),
                     vmem |-> Elements(VmemDims)],
       bits |-> [weight |-> 100, psum |-> 200, vmem |-> 300],
       cycles |-> [d \in 1 .. Steps(dram) |-> [mac |-> d, lif |-> 2]]]

Nests(loops, n) == UNION {[1 .. k -> loops] : k \in 0 .. n}

Twos(dims) == {Loop(dim, 2) : dim \in dims}

(* Two rows and two columns.                                               *)
Grid == Spread({"CIN", "T"})

(* Every pair of nests of up to two loops on one PE behind a buffer, and,  *)
(* as DRAM loops of up to three, on a single node; smaller ones on grids.  *)
SmallJobs ==
  {Job(noc, dram, Spread({}), FALSE) :
     noc \in Nests(Twos({"CIN", "T", "HO", "COUT"}), 2),
     dram \in Nests(Twos({"CIN", "T", "HO", "COUT"}), 2)}
  \cup {Job(<<>>, dram, Spread({}), TRUE) :
     dram \in Nests(Twos({"CIN", "T", "HO", "COUT"}), 3)}
  \cup {Job(noc, dram, spatial, FALSE) :
     noc \in Nests({Loop("CIN", 2), Loop("T", 3)}, 2), dram \in Nests(Twos({"HO"}), 1),
     spatial \in {Grid, Spread({"CIN", "KH", "COUT"}), Spread({"T", "WO", "COUT"})}}
=============================================================================
