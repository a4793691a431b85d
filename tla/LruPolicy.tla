------------------------------ MODULE LruPolicy ------------------------------
(***************************************************************************)
(* One cache set under LRU replacement (policy.h) and the arithmetic that  *)
(* cuts a cache into sets (cache.h).                                       *)
(*                                                                         *)
(* order_ is a sequence of tags, front (index 1) most recently used.  The  *)
(* other half of map_, the recency stamp of every line, is a function from *)
(* tags to numbers in which 0 stands for "not in map_": the per-set clock  *)
(* is incremented before it is read, so a real stamp is never 0.  A pin    *)
(* set is such a function too, 0 standing for "not pinned".                *)
(*                                                                         *)
(* A definition introduced as a deviation is not the code: it is a mistake *)
(* the code could contain, kept to show that a property would notice it.   *)
(***************************************************************************)
EXTENDS Integers, SequencesExt

-----------------------------------------------------------------------------
(* cache.h: the three cache types are all (number of sets, ways).          *)

CacheTypes == {"fully_associative", "direct_mapped", "set_associative"}

CacheConfigs ==
  [type : CacheTypes, capacity : Nat \ {0}, associativity : Nat \ {0}]

NumSets(cfg) ==
  CASE cfg.type = "fully_associative" -> 1
    [] cfg.type = "direct_mapped"     -> cfg.capacity
    [] cfg.type = "set_associative"   ->
         IF cfg.capacity < cfg.associativity
         THEN 1 ELSE cfg.capacity \div cfg.associativity

Ways(cfg) ==
  CASE cfg.type = "fully_associative" -> cfg.capacity
    [] cfg.type = "direct_mapped"     -> 1
    [] cfg.type = "set_associative"   -> cfg.associativity

SetIndices(cfg) == 0 .. NumSets(cfg) - 1

SetIndex(cfg, tag) == tag % NumSets(cfg)

-----------------------------------------------------------------------------
(* policy.h: choose_victim and insert_or_touch.                            *)

(* Deviation: the overflow fallback takes the current LRU end. *)
VictimOverflowAtLruEnd(order, pins) ==
  LET free == {i \in DOMAIN order : pins[order[i]] = 0}
  IN  IF free # {} THEN Max(free) ELSE Len(order)

(***************************************************************************)
(* The position choose_victim evicts: the LRU-most line that is not        *)
(* pinned; when every line of the set is pinned, the one whose pin carries *)
(* the smallest stamp.  With no pins at all that is the back of order_.    *)
(***************************************************************************)
Victim(order, pins) ==
  LET free == {i \in DOMAIN order : pins[order[i]] = 0}
  IN  IF free # {}
      THEN Max(free)
      ELSE CHOOSE i \in DOMAIN order :
             \A j \in DOMAIN order : pins[order[i]] <= pins[order[j]]

PositionOf(order, tag) == CHOOSE i \in DOMAIN order : order[i] = tag

(* Deviation: room is tested with > instead of >=. *)
FreedPositionOffByOne(order, ways, tag, pins) ==
  CASE Contains(order, tag)  -> PositionOf(order, tag)
    [] /\ ~Contains(order, tag)
       /\ Len(order) > ways  -> Victim(order, pins)
    [] OTHER                 -> 0

(***************************************************************************)
(* The position insert_or_touch frees before it pushes the tag to the      *)
(* front: the tag's own on a hit, the victim's on a miss in a full set,    *)
(* none (0) on a miss in a set with room.                                  *)
(***************************************************************************)
FreedPosition(order, ways, tag, pins) ==
  CASE Contains(order, tag)  -> PositionOf(order, tag)
    [] /\ ~Contains(order, tag)
       /\ Len(order) >= ways -> Victim(order, pins)
    [] OTHER                 -> 0

(* Deviation: a hit leaves the line where it is (FIFO, not LRU). *)
InsertWithoutTouch(order, ways, tag, pins) ==
  LET freed == FreedPosition(order, ways, tag, pins)
  IN  IF Contains(order, tag) THEN order
      ELSE Cons(tag, IF freed = 0 THEN order ELSE RemoveAt(order, freed))

(* order_ after insert_or_touch. *)
InsertOrTouch(order, ways, tag, pins) ==
  LET freed == FreedPosition(order, ways, tag, pins)
  IN  Cons(tag, IF freed = 0 THEN order ELSE RemoveAt(order, freed))

(* The stamps of map_ after insert_or_touch: the tag gets the incremented  *)
(* clock, and a line that is erased loses its entry.                       *)
Restamp(stamp, order, ways, tag, pins, clock) ==
  LET freed == FreedPosition(order, ways, tag, pins)
  IN  [t \in DOMAIN stamp |->
         CASE t = tag -> clock + 1
           [] t # tag /\ freed # 0 /\ t = order[freed] -> 0
           [] OTHER -> stamp[t]]
=============================================================================
