-------------------------------- MODULE Layout --------------------------------
(***************************************************************************)
(* Where weights lie in memory (layout.h, layout=hybrid): a line holds the *)
(* weights of a block of input channels and a block of output channels of  *)
(* one kernel position, and its tag is a number in mixed radix.  One read  *)
(* of a trace becomes the lines it touches.                                *)
(***************************************************************************)
EXTENDS Naturals, SequencesExt

CONSTANTS CinBlock, CoutBlock \* CIN_BLOCK and COUT_BLOCK

ASSUME LayoutAssumption == CinBlock \in Nat \ {0} /\ CoutBlock \in Nat \ {0}

(* The bounds of a layer, from the workload_dims of a sample.              *)
Shapes == [kh : Nat \ {0}, kw : Nat \ {0}, cin : Nat \ {0}, cout : Nat \ {0}]

Elements(shape) ==
  [kh : 0 .. shape.kh - 1, kw : 0 .. shape.kw - 1,
   cin : 0 .. shape.cin - 1, cout : 0 .. shape.cout - 1]

HybridCinLines(shape) == (shape.cin + CinBlock - 1) \div CinBlock

(* Deviation: a last block that is not full is not counted. *)
CoutLinesRoundedDown(shape) == shape.cout \div CoutBlock

HybridCoutLines(shape) == (shape.cout + CoutBlock - 1) \div CoutBlock

(* The tags of a layer: one for every line its weights take up.            *)
CacheLines(shape) ==
  [kh : 0 .. shape.kh - 1, kw : 0 .. shape.kw - 1,
   cin : 0 .. HybridCinLines(shape) - 1, cout : 0 .. HybridCoutLines(shape) - 1]

TagForElement(e) ==
  [kh |-> e.kh, kw |-> e.kw, cin |-> e.cin \div CinBlock, cout |-> e.cout \div CoutBlock]

(* TagPacker::pack with hybrid_packer's radices. *)
Pack(shape, tag) ==
  ((tag.kh * shape.kw + tag.kw) * HybridCinLines(shape) + tag.cin)
    * HybridCoutLines(shape) + tag.cout

(* for_each_element: the range of an address is one of output channels.    *)
ElementsOf(a) ==
  [i \in 1 .. a.coutEnd - a.coutStart |->
     [kh |-> a.kh, kw |-> a.kw, cin |-> a.cin, cout |-> a.coutStart + i - 1]]

WithoutRepeats(tags) ==
  FoldLeft(LAMBDA kept, tag : IF kept # <<>> /\ Last(kept) = tag THEN kept ELSE Append(kept, tag),
           <<>>, tags)

ElementTags(shape, a) ==
  LET elements == ElementsOf(a)
  IN  [i \in DOMAIN elements |-> Pack(shape, TagForElement(elements[i]))]

(* packed_tags: one access per line and read, repeats within a read only   *)
(* being left out.                                                         *)
PackedTags(shape, addresses) ==
  FlattenSeq([i \in DOMAIN addresses |-> WithoutRepeats(ElementTags(shape, addresses[i]))])
=============================================================================
