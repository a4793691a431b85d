----------------------------- MODULE BufSpatial -----------------------------
(***************************************************************************)
(* Where the PEs of a spatially unrolled layer sit on the mesh             *)
(* (nocsim/schedule/buf_spatial.py): the PEs that share a tile, and the    *)
(* chains along which partial results travel.  spatial maps a dimension to *)
(* the number of PEs it is spread over.                                    *)
(***************************************************************************)
EXTENDS LoopNest

(* The number of a PE is read like a step of this nest. *)
Way2Order == <<"T", "WO", "HO", "CIN", "KW", "KH", "COUT">>

PeLoops(spatial) ==
  [i \in DOMAIN Way2Order |-> [dim |-> Way2Order[i], factor |-> spatial[Way2Order[i]]]]

Pes(spatial) == 0 .. Steps(PeLoops(spatial)) - 1

SpatialIndex(spatial, pe, dim) == Index(pe, PeLoops(spatial), dim)

(* X = T*WO*HO columns and Y = CIN*KW*KH*COUT rows. *)
Columns(spatial) == Steps(SubSeq(PeLoops(spatial), 1, 3))
Rows(spatial)    == Steps(SubSeq(PeLoops(spatial), 4, 7))

(* The address of the tile a PE holds: its indices, those in no dimension  *)
(* of the tensor set to zero, as one number in the order of the tuples.    *)
TupleOrder == <<"KH", "KW", "CIN", "COUT", "HO", "WO", "T">>

Address(spatial, pe, dims) ==
  FoldLeft(LAMBDA a, dim :
             a * spatial[dim] + IF dim \in dims THEN SpatialIndex(spatial, pe, dim) ELSE 0,
           0, TupleOrder)

(* sorted() on a set of numbers. *)
Ascending(S) ==
  [k \in 1 .. Cardinality(S) |-> CHOOSE x \in S : Cardinality({y \in S : y < x}) = k - 1]

(* sorted(addr_groups(...).items()): the PEs of each address in order. *)
AddressGroups(spatial, pes, dims) ==
  LET addresses == Ascending({Address(spatial, pe, dims) : pe \in pes})
  IN  [g \in DOMAIN addresses |->
         Ascending({pe \in pes : Address(spatial, pe, dims) = addresses[g]})]

WeightGroups(spatial) == AddressGroups(spatial, Pes(spatial), WeightDims)

(* k_chain_groups: from K = 0 up to K_max. *)
KChains(spatial) == AddressGroups(spatial, Pes(spatial), PsumDims)

KMaxPes(spatial) ==
  {pe \in Pes(spatial) : \A dim \in ReductionDims :
     SpatialIndex(spatial, pe, dim) = spatial[dim] - 1}

(* Deviation: the chains over time are not restricted to the K_max row. *)
TChainsInEveryRow(spatial) == AddressGroups(spatial, Pes(spatial), VmemDims)

(* t_chain_groups, sorted by T, which is by number: T varies fastest.  *)
TChains(spatial) == AddressGroups(spatial, KMaxPes(spatial), VmemDims)
=============================================================================
