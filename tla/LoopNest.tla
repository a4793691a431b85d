------------------------------ MODULE LoopNest ------------------------------
(***************************************************************************)
(* The temporal loops of a mapped layer (nocsim/schedule/steps.py).  A     *)
(* nest is a sequence of loops, inner to outer, and a flat step number is  *)
(* read as a mixed-radix number with one digit per loop.  A schedule s has *)
(* the loops s.noc that run on the mesh and, around them, s.dram.          *)
(***************************************************************************)
EXTENDS Integers, SequencesExt

Dims == {"KH", "KW", "CIN", "COUT", "HO", "WO", "T"}

ReductionDims == {"KH", "KW", "CIN"}

(* The dimensions a tensor is indexed by, the columns of the matrix _A.    *)
WeightDims == ReductionDims \cup {"COUT"}
VmemDims   == {"COUT", "HO", "WO"}
PsumDims   == VmemDims \cup {"T"}

Loops == Seq([dim : Dims, factor : Nat \ {0}])

Product(loops, dims) ==
  FoldLeft(LAMBDA n, loop : n * (IF loop.dim \in dims THEN loop.factor ELSE 1), 1, loops)

(* noc_num_steps, dram_num_steps. *)
Steps(loops) == Product(loops, Dims)

(* _compute_totals *)
Total(loops, dim) == Product(loops, {dim})

InsideOf(loops, i) == SubSeq(loops, 1, i - 1)

Digit(step, loops, i) == (step \div Steps(InsideOf(loops, i))) % loops[i].factor

(* Deviation: every loop over a dimension counts from base 1. *)
IndexWithoutBase(step, loops, dim) ==
  MapThenSumSet(LAMBDA i : Digit(step, loops, i),
                {i \in DOMAIN loops : loops[i].dim = dim})

(* _decode_dim: a dimension may be split over several loops; the inner     *)
(* ones are its low digits.                                                *)
Index(step, loops, dim) ==
  MapThenSumSet(LAMBDA i : Digit(step, loops, i) * Total(InsideOf(loops, i), dim),
                {i \in DOMAIN loops : loops[i].dim = dim})

-----------------------------------------------------------------------------
(* Positions over both levels (_combined_position) and at the DRAM level   *)
(* alone (_level_position).                                                *)

CombinedIndex(s, d, n, dim) ==
  Index(n, s.noc, dim) + Total(s.noc, dim) * Index(d, s.dram, dim)

IsFirst(s, d, n, dims) == \A dim \in dims : CombinedIndex(s, d, n, dim) = 0

IsLast(s, d, n, dims) ==
  \A dim \in dims :
    CombinedIndex(s, d, n, dim) = Total(s.noc, dim) * Total(s.dram, dim) - 1

IsFirstInDram(s, d, dims) == \A dim \in dims : Index(d, s.dram, dim) = 0

IsLastInDram(s, d, dims) ==
  \A dim \in dims : Index(d, s.dram, dim) = Total(s.dram, dim) - 1

(* Deviation: only the innermost loop is looked at. *)
StartsWith(loops, dims) == loops # <<>> => loops[1].dim \in dims

(* _is_dims_innermost: no other loop is inside one over dims. *)
Innermost(loops, dims) ==
  \A i, j \in DOMAIN loops :
    i < j /\ loops[j].dim \in dims => loops[i].dim \in dims

(* is_psum_gb_free and is_vmem_gb_free: the node keeps its result while    *)
(* the loops over dims run.                                                *)
KeptInNode(s, dims) == Innermost(s.noc \o s.dram, dims)

(* is_psum_dram_free and is_vmem_dram_free: the global buffer keeps it.    *)
KeptInBuffer(s, dims) == Innermost(s.dram, dims)

(* Deviation: an output channel is not seen to select other weights. *)
WeightChangesInReduction(s, n) ==
  n = 0 \/ \E dim \in ReductionDims : Index(n, s.noc, dim) # Index(n - 1, s.noc, dim)

WeightChanges(s, n) ==
  n = 0 \/ \E dim \in WeightDims : Index(n, s.noc, dim) # Index(n - 1, s.noc, dim)
=============================================================================
