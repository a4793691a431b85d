------------------------ MODULE MCTwoLevelHierarchy ------------------------
(* Small shapes of the two levels for TLC. *)
EXTENDS TwoLevelHierarchyProps

FullyAssociative(n) ==
  [type |-> "fully_associative", capacity |-> n, associativity |-> 1]

DirectMapped(n) ==
  [type |-> "direct_mapped", capacity |-> n, associativity |-> 1]

SetAssociative(n, ways) ==
  [type |-> "set_associative", capacity |-> n, associativity |-> ways]

OneLine  == FullyAssociative(1)
TwoLines == FullyAssociative(2)
TwoSets  == DirectMapped(2)
TwoByTwo == SetAssociative(4, 2)

TwoCoreLists == BoundedSeq(Cores, 2)
=============================================================================
