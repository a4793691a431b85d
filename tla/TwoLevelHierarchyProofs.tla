---------------------- MODULE TwoLevelHierarchyProofs ----------------------
(***************************************************************************)
(* Proofs about the two-level replay, for every trace, every number of     *)
(* cores and every shape of the two levels; and about the tags it is asked *)
(* for, for every shape of layer and every size of block: the lines of a   *)
(* layer and their tags correspond one to one, every weight lies in a line *)
(* of the layer, and the tag of the next block of output channels, which   *)
(* L2 prefetches, is the next number.                                      *)
(***************************************************************************)
EXTENDS TwoLevelHierarchyProps, Layout, SequenceTheorems, NestLemmas

-----------------------------------------------------------------------------
(* One LRU set, and the cutting of a cache into sets.                      *)

(* Every cache has at least one set, and every set at least one way.       *)
LEMMA ShapeType ==
  ASSUME NEW cfg \in CacheConfigs
  PROVE  /\ NumSets(cfg) \in Nat \ {0}
         /\ Ways(cfg) \in Nat \ {0}
<1>1. CASE cfg.type = "fully_associative"
  BY <1>1 DEF CacheConfigs, NumSets, Ways
<1>2. CASE cfg.type = "direct_mapped"
  BY <1>2 DEF CacheConfigs, NumSets, Ways
<1>3. CASE cfg.type = "set_associative"
  <2>1. \A n, m \in Nat \ {0} : ~(n < m) => n \div m \in Nat \ {0}
    OBVIOUS
  <2> QED BY <1>3, <2>1 DEF CacheConfigs, NumSets, Ways
<1> QED BY <1>1, <1>2, <1>3 DEF CacheConfigs, CacheTypes

(* Every tag belongs to one of the sets.                                   *)
LEMMA SetIndexType ==
  ASSUME NEW cfg \in CacheConfigs, NEW tag \in Nat
  PROVE  SetIndex(cfg, tag) \in SetIndices(cfg)
<1>1. \A n \in Nat \ {0} : tag % n \in 0 .. n - 1
  OBVIOUS
<1> QED BY <1>1, ShapeType DEF SetIndex, SetIndices

(* choose_victim always finds a line of a set that has one.                *)
LEMMA VictimIsAPosition ==
  ASSUME NEW T, NEW order \in Seq(T), order # <<>>,
         NEW pinOf \in [T -> Nat]
  PROVE  Victim(order, pinOf) \in DOMAIN order
<1> DEFINE free == {i \in DOMAIN order : pinOf[order[i]] = 0}
<1>1. DOMAIN order = 1 .. Len(order) /\ Len(order) \in Nat \ {0}
  OBVIOUS
<1>2. CASE free # {}
  <2>1. Max(free) \in free
    BY <1>1, <1>2, GreatestExists
  <2> QED BY <1>2, <2>1 DEF Victim
<1>3. CASE free = {}
  <2> DEFINE S == {pinOf[order[i]] : i \in DOMAIN order}
  <2>1. S \subseteq Nat /\ S # {}
    BY <1>1
  <2>2. PICK x \in S : \A y \in S : x <= y
    <3> HIDE DEF S
    <3> QED BY <2>1, LeastExists
  <2>3. \E i \in DOMAIN order : \A j \in DOMAIN order :
          pinOf[order[i]] <= pinOf[order[j]]
    BY <2>2
  <2> QED BY <1>3, <2>3 DEF Victim
<1> QED BY <1>2, <1>3

(* The position insert_or_touch frees, if it frees one, is the tag's own   *)
(* when the tag is resident; in a full set it always frees one.            *)
LEMMA FreedPositionType ==
  ASSUME NEW T, NEW order \in Seq(T), NEW ways \in Nat \ {0},
         NEW tag \in T, NEW pinOf \in [T -> Nat]
  PROVE  LET freed == FreedPosition(order, ways, tag, pinOf)
         IN
         /\ freed \in 0 .. Len(order)
         /\ Contains(order, tag) => freed # 0 /\ order[freed] = tag
         /\ Len(order) >= ways => freed # 0
<1>1. DOMAIN order = 1 .. Len(order) /\ Len(order) \in Nat
  OBVIOUS
<1>2. CASE Contains(order, tag)
  <2>1. PositionOf(order, tag) \in DOMAIN order
        /\ order[PositionOf(order, tag)] = tag
    BY <1>1, <1>2 DEF Contains, PositionOf
  <2> QED BY <1>1, <1>2, <2>1 DEF FreedPosition
<1>3. CASE ~Contains(order, tag) /\ Len(order) >= ways
  <2>1. order # <<>>
    BY <1>3
  <2>2. Victim(order, pinOf) \in DOMAIN order
    BY <2>1, VictimIsAPosition
  <2> QED BY <1>1, <1>3, <2>2 DEF FreedPosition
<1>4. CASE ~Contains(order, tag) /\ ~(Len(order) >= ways)
  BY <1>1, <1>4 DEF FreedPosition
<1> QED BY <1>2, <1>3, <1>4

(* What RemoveAt leaves: one element less, the others in their order.      *)
LEMMA RemoveAtElements ==
  ASSUME NEW T, NEW s \in Seq(T), NEW p \in 1 .. Len(s)
  PROVE  /\ RemoveAt(s, p) \in Seq(T)
         /\ Len(RemoveAt(s, p)) = Len(s) - 1
         /\ \A i \in 1 .. Len(s) - 1 :
              RemoveAt(s, p)[i] = IF i < p THEN s[i] ELSE s[i + 1]
<1> DEFINE a == SubSeq(s, 1, p - 1)
           b == SubSeq(s, p + 1, Len(s))
<1>1. a \in Seq(T) /\ Len(a) = p - 1 /\ \A i \in 1 .. p - 1 : a[i] = s[i]
  OBVIOUS
<1>2. b \in Seq(T) /\ Len(b) = Len(s) - p
      /\ \A i \in 1 .. Len(s) - p : b[i] = s[p + i]
  OBVIOUS
<1>3. RemoveAt(s, p) = a \o b
  BY DEF RemoveAt
<1> HIDE DEF a, b
<1>4. RemoveAt(s, p) \in Seq(T) /\ Len(RemoveAt(s, p)) = Len(s) - 1
  BY <1>1, <1>2, <1>3
<1>5. ASSUME NEW i \in 1 .. Len(s) - 1
      PROVE  RemoveAt(s, p)[i] = IF i < p THEN s[i] ELSE s[i + 1]
  <2>1. CASE i < p
    <3>1. (a \o b)[i] = a[i]
      BY <1>1, <1>2, <2>1
    <3> QED BY <1>1, <1>3, <2>1, <3>1
  <2>2. CASE ~(i < p)
    <3>0. i \in 1 .. Len(a) + Len(b) /\ ~(i <= Len(a))
      BY <1>1, <1>2, <2>2
    <3>1. (a \o b)[i] = b[i - (p - 1)]
      BY <1>1, <1>2, <3>0, ConcatProperties
    <3>2. i - (p - 1) \in 1 .. Len(s) - p /\ p + (i - (p - 1)) = i + 1
      BY <2>2
    <3> QED BY <1>2, <1>3, <2>2, <3>1, <3>2
  <2> QED BY <2>1, <2>2
<1> QED BY <1>4, <1>5

(***************************************************************************)
(* insert_or_touch puts the tag in front and leaves the other lines in     *)
(* their order, less the freed one; a set never outgrows its ways.         *)
(***************************************************************************)
LEMMA InsertOrTouchElements ==
  ASSUME NEW T, NEW order \in Seq(T), NEW ways \in Nat \ {0},
         NEW tag \in T, NEW pinOf \in [T -> Nat]
  PROVE  LET freed == FreedPosition(order, ways, tag, pinOf)
             new   == InsertOrTouch(order, ways, tag, pinOf)
         IN
         /\ new \in Seq(T)
         /\ Len(order) <= ways => Len(new) <= ways
         /\ Len(new) = IF freed = 0 THEN Len(order) + 1 ELSE Len(order)
         /\ new[1] = tag
         /\ \A i \in 2 .. Len(new) :
              new[i] = IF freed = 0 \/ i - 1 < freed
                       THEN order[i - 1] ELSE order[i]
<1> DEFINE freed == FreedPosition(order, ways, tag, pinOf)
           new == InsertOrTouch(order, ways, tag, pinOf)
           rest == IF freed = 0 THEN order ELSE RemoveAt(order, freed)
<1>1. freed \in 0 .. Len(order) /\ (Len(order) >= ways => freed # 0)
  BY FreedPositionType
<1> HIDE DEF freed
<1>2. /\ rest \in Seq(T)
      /\ Len(rest) = IF freed = 0 THEN Len(order) ELSE Len(order) - 1
      /\ \A i \in 1 .. Len(rest) :
           rest[i] = IF freed = 0 \/ i < freed THEN order[i] ELSE order[i + 1]
  <2>1. CASE freed = 0
    BY <2>1
  <2>2. CASE freed # 0
    <3>1. freed \in 1 .. Len(order)
      BY <1>1, <2>2
    <3> QED BY <2>2, <3>1, RemoveAtElements
  <2> QED BY <2>1, <2>2
<1>3. new = <<tag>> \o rest
  BY DEF InsertOrTouch, Cons, freed
<1> HIDE DEF rest, new
<1>4. new \in Seq(T) /\ Len(new) = Len(rest) + 1
  BY <1>2, <1>3
<1>5. new[1] = tag /\ \A i \in 2 .. Len(new) : new[i] = rest[i - 1]
  BY <1>2, <1>3
<1>6. \A i \in 2 .. Len(new) :
        new[i] = IF freed = 0 \/ i - 1 < freed
                 THEN order[i - 1] ELSE order[i]
  <2> TAKE i \in 2 .. Len(new)
  <2>1. i - 1 \in 1 .. Len(rest) /\ (i - 1) + 1 = i
    BY <1>2, <1>4
  <2>2. rest[i - 1] = IF freed = 0 \/ i - 1 < freed
                      THEN order[i - 1] ELSE order[(i - 1) + 1]
    BY <1>2, <2>1
  <2> QED BY <1>5, <2>1, <2>2
<1> QED BY <1>1, <1>2, <1>4, <1>5, <1>6 DEF freed, new

(***************************************************************************)
(* The lines of the set after insert_or_touch: the tag, and every line     *)
(* that was there before at another position than the freed one.           *)
(***************************************************************************)
LEMMA InsertOrTouchContains ==
  ASSUME NEW T, NEW order \in Seq(T), NEW ways \in Nat \ {0},
         NEW tag \in T, NEW pinOf \in [T -> Nat],
         NEW u
  PROVE  Contains(InsertOrTouch(order, ways, tag, pinOf), u) <=>
           \/ u = tag
           \/ \E j \in 1 .. Len(order) :
                j # FreedPosition(order, ways, tag, pinOf) /\ order[j] = u
<1> DEFINE freed == FreedPosition(order, ways, tag, pinOf)
           new == InsertOrTouch(order, ways, tag, pinOf)
<1>1. freed \in 0 .. Len(order)
  BY FreedPositionType
<1>2. /\ Len(new) = IF freed = 0 THEN Len(order) + 1 ELSE Len(order)
      /\ new[1] = tag
      /\ \A i \in 2 .. Len(new) :
           new[i] = IF freed = 0 \/ i - 1 < freed
                    THEN order[i - 1] ELSE order[i]
  BY InsertOrTouchElements
<1> HIDE DEF freed, new
<1>3. Len(order) \in Nat
  OBVIOUS
<1>4. ASSUME NEW i \in 1 .. Len(new), new[i] = u, u # tag
      PROVE  \E j \in 1 .. Len(order) : j # freed /\ order[j] = u
  <2>1. i \in 2 .. Len(new)
    BY <1>2, <1>3, <1>4
  <2>2. CASE freed = 0 \/ i - 1 < freed
    <3>1. i - 1 \in 1 .. Len(order) /\ i - 1 # freed
      BY <1>1, <1>2, <1>3, <2>1, <2>2
    <3>2. order[i - 1] = u
      BY <1>2, <1>4, <2>1, <2>2
    <3> QED BY <3>1, <3>2
  <2>3. CASE ~(freed = 0 \/ i - 1 < freed)
    <3>1. i \in 1 .. Len(order) /\ i # freed
      BY <1>1, <1>2, <1>3, <2>1, <2>3
    <3>2. order[i] = u
      BY <1>2, <1>4, <2>1, <2>3
    <3> QED BY <3>1, <3>2
  <2> QED BY <2>2, <2>3
<1>5. ASSUME NEW j \in 1 .. Len(order), j # freed, order[j] = u
      PROVE  \E i \in 1 .. Len(new) : new[i] = u
  <2>1. CASE freed = 0 \/ j < freed
    <3>1. j + 1 \in 2 .. Len(new) /\ (j + 1) - 1 = j
      BY <1>1, <1>2, <1>3, <2>1
    <3>2. new[j + 1] = order[j]
      BY <1>2, <2>1, <3>1
    <3> QED BY <1>5, <3>1, <3>2
  <2>2. CASE ~(freed = 0 \/ j < freed)
    <3>1. j \in 2 .. Len(new) /\ ~(j - 1 < freed) /\ freed # 0
      BY <1>1, <1>2, <1>3, <1>5, <2>2
    <3>2. new[j] = order[j]
      BY <1>2, <3>1
    <3> QED BY <1>5, <3>1, <3>2
  <2> QED BY <2>1, <2>2
<1>6. 1 \in 1 .. Len(new)
  BY <1>1, <1>2, <1>3
<1> QED BY <1>2, <1>4, <1>5, <1>6 DEF Contains, freed, new

-----------------------------------------------------------------------------
(* The two levels.                                                         *)

(* Both levels have at least one set and one way, and every tag a set.     *)
LEMMA CachesHaveSets ==
  /\ NumSets(L1Config) \in Nat \ {0} /\ Ways(L1Config) \in Nat \ {0}
  /\ NumSets(L2Config) \in Nat \ {0} /\ Ways(L2Config) \in Nat \ {0}
  /\ \A t \in Tags : SetIndex(L1Config, t) \in SetIndices(L1Config)
  /\ \A t \in Tags : SetIndex(L2Config, t) \in SetIndices(L2Config)
  BY HierarchyAssumption, ShapeType, SetIndexType

(* The empty pin set is a pin set.                                         *)
LEMMA NoPinsType == NoPins \in [Tags -> Nat]
  BY DEF NoPins

(* insert_or_touch leaves a sequence of tags.                              *)
LEMMA InsertOrTouchType ==
  ASSUME NEW order \in Seq(Tags), NEW ways \in Nat \ {0}, NEW t \in Tags,
         NEW p \in [Tags -> Nat]
  PROVE  InsertOrTouch(order, ways, t, p) \in Seq(Tags)
  BY InsertOrTouchElements

(* Stamps stay natural numbers when a line is inserted or touched.         *)
LEMMA RestampType ==
  ASSUME NEW st \in [Tags -> Nat], NEW order, NEW ways, NEW t, NEW p,
         NEW n \in Nat
  PROVE  Restamp(st, order, ways, t, p, n) \in [Tags -> Nat]
  BY DEF Restamp

(* What one fill does to L2's state, whatever the rest of the system.      *)
LEMMA FillType ==
  ASSUME TypeOK, Fill
  PROVE  /\ Head(pendingFills) \in Tags
         /\ l2' \in [SetIndices(L2Config) -> Seq(Tags)]
         /\ stamp' \in [Tags -> Nat]
         /\ clock' \in [SetIndices(L2Config) -> Nat]
         /\ lastTouch' \in [Tags -> Nat]
         /\ pendingFills' \in Seq(Tags)
<1> DEFINE t == Head(pendingFills)
           s == SetIndex(L2Config, t)
<1>1. t \in Tags /\ pendingFills' \in Seq(Tags)
  BY DEF TypeOK, Fill
<1>2. s \in SetIndices(L2Config) /\ Ways(L2Config) \in Nat \ {0}
  BY <1>1, CachesHaveSets
<1> HIDE DEF t, s
<1>3. l2[s] \in Seq(Tags) /\ clock[s] \in Nat
  BY <1>2 DEF TypeOK
<1>4. InsertOrTouch(l2[s], Ways(L2Config), t, pins) \in Seq(Tags)
  BY <1>1, <1>2, <1>3, InsertOrTouchType DEF TypeOK
<1>5. l2' = [l2 EXCEPT ![s] = InsertOrTouch(l2[s], Ways(L2Config), t, pins)]
  BY DEF Fill, s, t
<1>6. l2' \in [SetIndices(L2Config) -> Seq(Tags)]
  BY <1>2, <1>4, <1>5 DEF TypeOK
<1>7. stamp' = Restamp(stamp, l2[s], Ways(L2Config), t, pins, clock[s])
      /\ clock' = [clock EXCEPT ![s] = clock[s] + 1]
      /\ lastTouch' = [lastTouch EXCEPT ![t] = clock[s] + 1]
  BY DEF Fill, s, t
<1>8. stamp' \in [Tags -> Nat]
  BY <1>3, <1>7, RestampType DEF TypeOK
<1>9. clock' \in [SetIndices(L2Config) -> Nat] /\ lastTouch' \in [Tags -> Nat]
  BY <1>1, <1>2, <1>3, <1>7 DEF TypeOK, t
<1> QED BY <1>1, <1>6, <1>8, <1>9 DEF t

(* The empty caches are within their types.                                *)
LEMMA InitType == Init => TypeOK
<1> SUFFICES ASSUME Init PROVE TypeOK
  OBVIOUS
<1>1. \A c \in Cores : l1[c] = [s \in SetIndices(L1Config) |-> <<>>]
  BY DEF Init
<1>2. l1 \in [Cores -> [SetIndices(L1Config) -> Seq(Tags)]]
  BY DEF Init
<1> QED BY <1>2, NoPinsType DEF Init, TypeOK

(* What every access does to the types, hit or miss.                       *)
LEMMA AccessType ==
  ASSUME TypeOK, NEW c \in Cores, NEW t \in Tags, AccessL1(c, t)
  PROVE  /\ l1' \in [Cores -> [SetIndices(L1Config) -> Seq(Tags)]]
         /\ l1Accesses' \in [Cores -> Nat]
         /\ demanded' \in [Cores -> SUBSET Tags]
<1> DEFINE s == SetIndex(L1Config, t)
<1>1. s \in SetIndices(L1Config) /\ Ways(L1Config) \in Nat \ {0}
  BY CachesHaveSets
<1> HIDE DEF s
<1>2. l1[c][s] \in Seq(Tags)
  BY <1>1 DEF TypeOK
<1>3. InsertOrTouch(l1[c][s], Ways(L1Config), t, NoPins) \in Seq(Tags)
  BY <1>1, <1>2, InsertOrTouchType, NoPinsType
<1>4. l1' = [l1 EXCEPT ![c][s] =
               InsertOrTouch(l1[c][s], Ways(L1Config), t, NoPins)]
  BY DEF AccessL1, s
<1>5. l1' \in [Cores -> [SetIndices(L1Config) -> Seq(Tags)]]
  BY <1>1, <1>3, <1>4 DEF TypeOK
<1>6. l1Accesses' \in [Cores -> Nat] /\ demanded' \in [Cores -> SUBSET Tags]
  BY DEF AccessL1, TypeOK
<1> QED BY <1>5, <1>6

(* What no access changes.                                                 *)
LEMMA AccessFrame ==
  ASSUME NEW c \in Cores, NEW t \in Tags, AccessL1(c, t)
  PROVE  InLookup /\ UNCHANGED <<switches, phase, cores, tick, snapshot>>
  BY DEF AccessL1

(* Every step of the replay keeps the types.                               *)
LEMMA NextType == TypeOK /\ [Next]_vars => TypeOK'
<1> SUFFICES ASSUME TypeOK, [Next]_vars PROVE TypeOK'
  OBVIOUS
<1>1. ASSUME NEW ids \in CoreLists, BeginTick(ids) PROVE TypeOK'
  BY <1>1, NoPinsType, HierarchyAssumption
     DEF BeginTick, TypeOK, switches, l2vars, stats
<1>2. ASSUME NEW ids \in CoreLists, RejectTick(ids) PROVE TypeOK'
  BY <1>2 DEF RejectTick, TypeOK, switches, l2vars, stats
<1>3. ASSUME NEW c \in Cores, NEW t \in Tags, LookupL1Hit(c, t) PROVE TypeOK'
  <2>1. AccessL1(c, t) /\ l1Hits' \in [Cores -> Nat]
    BY <1>3 DEF LookupL1Hit, TypeOK
  <2> QED BY <1>3, <2>1, AccessType
          DEF LookupL1Hit, AccessL1, TypeOK, switches, l2vars
<1>4. ASSUME NEW c \in Cores, NEW t \in Tags, LookupL2Hit(c, t) PROVE TypeOK'
  <2>1. AccessL1(c, t) /\ pins' \in [Tags -> Nat]
        /\ pendingFills' \in Seq(Tags)
    BY <1>4 DEF LookupL2Hit, TypeOK, PinStamp
  <2>2. l2Accesses' \in Nat /\ l2Hits' \in Nat
        /\ UNCHANGED <<l2vars, l1Hits>>
    BY <1>4 DEF LookupL2Hit, TypeOK
  <2> QED BY <2>1, <2>2, AccessType, AccessFrame DEF TypeOK, switches, l2vars
<1>5. ASSUME NEW c \in Cores, NEW t \in Tags, LookupL2Miss(c, t) PROVE TypeOK'
  <2>1. PrefetchTarget(t) >= 0 => PrefetchTarget(t) \in Tags
    BY HierarchyAssumption DEF PrefetchTarget
  <2>2. AccessL1(c, t) /\ pendingFills' \in Seq(Tags)
    <3>1. FillsOwed(t) \in Seq(Tags)
      BY <2>1 DEF FillsOwed
    <3> QED BY <1>5, <3>1 DEF LookupL2Miss, TypeOK
  <2>3. l2Accesses' \in Nat /\ UNCHANGED <<l2vars, pins, l1Hits, l2Hits>>
    BY <1>5 DEF LookupL2Miss, TypeOK
  <2> QED BY <2>2, <2>3, AccessType, AccessFrame DEF TypeOK, switches, l2vars
<1>6. CASE NextCore
  BY <1>6 DEF NextCore, InLookup, TypeOK, switches, l2vars, stats
<1>7. CASE Fill
  BY <1>7, FillType DEF Fill, TypeOK, switches, stats
<1>8. CASE EndTick
  BY <1>8 DEF EndTick, TypeOK, switches, l2vars, stats
<1>9. CASE UNCHANGED vars
  BY <1>9 DEF vars, TypeOK, switches, l2vars, stats
<1> QED BY <1>1, <1>2, <1>3, <1>4, <1>5, <1>6, <1>7, <1>8, <1>9
        DEF Next, Lookup, Finished

(* Every reachable state of the replay is within its types: the prefetch   *)
(* never leaves the layer's tags, and stamps, pins and clocks stay         *)
(* natural numbers.                                                        *)
THEOREM TypeCorrect == Spec => []TypeOK
  BY InitType, NextType, PTL DEF Spec

-----------------------------------------------------------------------------
(* Only a fill changes L2.                                                 *)
LEMMA OnlyFillChangesL2 ==
  [Next]_vars => Fill \/ UNCHANGED l2vars
  BY DEF Next, vars, BeginTick, RejectTick, Lookup, LookupL1Hit, LookupL2Hit,
         LookupL2Miss, NextCore, EndTick, Finished, l2vars

(* RecencyIsStampOrder is inductive together with the fact that a line     *)
(* sits in the set its tag selects: a stamp is compared within one set.    *)
L2Partitioned ==
  \A s \in SetIndices(L2Config) : \A i \in DOMAIN l2[s] :
    SetIndex(L2Config, l2[s][i]) = s

RecencyInv == RecencyIsStampOrder /\ L2Partitioned

(* The empty caches are ordered by stamp.                                  *)
LEMMA RecencyInit == Init => RecencyInv
<1> SUFFICES ASSUME Init PROVE RecencyInv
  OBVIOUS
<1>1. \A s \in SetIndices(L2Config) : l2[s] = <<>> /\ DOMAIN l2[s] = {}
  BY DEF Init
<1>2. \A t \in Tags : ~Resident(t) /\ stamp[t] = 0
  BY <1>1, CachesHaveSets DEF Resident, Contains, Init, NoPins
<1> QED BY <1>1, <1>2
        DEF RecencyInv, RecencyIsStampOrder, L2Partitioned

(***************************************************************************)
(* The heart of the argument: after a fill of t the tag is in front with   *)
(* the newest stamp of its set, the other lines keep their stamps and      *)
(* their order, and the only stamp erased is that of the line that left.   *)
(***************************************************************************)
LEMMA FillKeepsRecency ==
  ASSUME TypeOK, RecencyInv, Fill
  PROVE  RecencyInv'
<1> DEFINE t == Head(pendingFills)
           s == SetIndex(L2Config, t)
           order == l2[s]
           ways == Ways(L2Config)
           freed == FreedPosition(order, ways, t, pins)
           new == InsertOrTouch(order, ways, t, pins)
           Src(i) == IF freed = 0 \/ i - 1 < freed THEN i - 1 ELSE i
<1>1. /\ t \in Tags /\ s \in SetIndices(L2Config) /\ ways \in Nat \ {0}
      /\ order \in Seq(Tags) /\ pins \in [Tags -> Nat]
      /\ clock[s] \in Nat /\ stamp \in [Tags -> Nat]
  <2>1. t \in Tags
    BY FillType
  <2> QED BY <2>1, CachesHaveSets DEF TypeOK
<1>2. /\ l2' = [l2 EXCEPT ![s] = new]
      /\ clock' = [clock EXCEPT ![s] = clock[s] + 1]
      /\ stamp' = Restamp(stamp, order, ways, t, pins, clock[s])
  BY DEF Fill
<1> HIDE DEF t, s, order, ways
<1>3. /\ freed \in 0 .. Len(order)
      /\ Contains(order, t) => freed # 0 /\ order[freed] = t
  BY <1>1, FreedPositionType
<1>4. /\ new \in Seq(Tags)
      /\ Len(new) = IF freed = 0 THEN Len(order) + 1 ELSE Len(order)
      /\ new[1] = t
      /\ \A i \in 2 .. Len(new) :
           new[i] = IF freed = 0 \/ i - 1 < freed
                    THEN order[i - 1] ELSE order[i]
  BY <1>1, InsertOrTouchElements
<1>5. \A u \in Tags :
        stamp'[u] = CASE u = t -> clock[s] + 1
                      [] u # t /\ freed # 0 /\ u = order[freed] -> 0
                      [] OTHER -> stamp[u]
  BY <1>1, <1>2 DEF Restamp
<1>6. \A u \in Tags : Contains(new, u) <=>
         \/ u = t
         \/ \E j \in 1 .. Len(order) : j # freed /\ order[j] = u
  <2> SUFFICES ASSUME NEW u \in Tags
               PROVE  Contains(new, u) <=>
                        \/ u = t
                        \/ \E j \in 1 .. Len(order) : j # freed /\ order[j] = u
    OBVIOUS
  <2>1. order \in Seq(Tags) /\ ways \in Nat \ {0} /\ t \in Tags /\ pins \in [Tags -> Nat]
    BY <1>1
  <2> QED BY ONLY <2>1, InsertOrTouchContains
<1> HIDE DEF freed, new
<1>7. /\ \A i, j \in 1 .. Len(order) :
           i < j => stamp[order[i]] > stamp[order[j]]
      /\ \A i \in 1 .. Len(order) : stamp[order[i]] \in 1 .. clock[s]
      /\ \A i \in 1 .. Len(order) : SetIndex(L2Config, order[i]) = s
      /\ \A u \in Tags : SetIndex(L2Config, u) = s =>
           (stamp[u] # 0 <=> Contains(order, u))
  <2>1. DOMAIN order = 1 .. Len(order) /\ order = l2[s]
    BY <1>1 DEF order
  <2>2. ASSUME NEW u \in Tags, SetIndex(L2Config, u) = s
        PROVE  stamp[u] # 0 <=> Contains(order, u)
    <3>1. Resident(u) <=> Contains(order, u)
      BY <2>1, <2>2 DEF Resident
    <3> QED BY <3>1 DEF RecencyInv, RecencyIsStampOrder
  <2>3. /\ \A i, j \in DOMAIN order :
             i < j => stamp[order[i]] > stamp[order[j]]
        /\ \A i \in DOMAIN order : stamp[order[i]] \in 1 .. clock[s]
    BY <1>1, <2>1 DEF RecencyInv, RecencyIsStampOrder
  <2>4. \A i \in DOMAIN order : SetIndex(L2Config, order[i]) = s
    BY <1>1, <2>1 DEF RecencyInv, L2Partitioned
  <2> QED BY <2>1, <2>2, <2>3, <2>4
<1>8. /\ \A r \in SetIndices(L2Config) \ {s} :
           l2'[r] = l2[r] /\ clock'[r] = clock[r]
      /\ l2'[s] = new /\ clock'[s] = clock[s] + 1
  BY <1>1, <1>2 DEF TypeOK
<1>9. \A i, j \in 1 .. Len(order) : order[i] = order[j] => i = j
  <2> SUFFICES ASSUME NEW i \in 1 .. Len(order), NEW j \in 1 .. Len(order),
                      order[i] = order[j], i < j
               PROVE  FALSE
    BY <1>1
  <2>1. stamp[order[i]] > stamp[order[j]] /\ stamp[order[i]] \in Int
    BY <1>7, <1>1
  <2> QED BY <2>1
(* Where the lines behind the front come from, and what stamp they have.   *)
<1>10. ASSUME NEW i \in 2 .. Len(new)
       PROVE  /\ Src(i) \in 1 .. Len(order) /\ Src(i) # freed
              /\ new[i] = order[Src(i)]
              /\ new[i] \in Tags
              /\ stamp'[new[i]] = stamp[order[Src(i)]]
  <2>1. Len(order) \in Nat
    BY <1>1
  <2>2. Src(i) \in 1 .. Len(order) /\ Src(i) # freed
    BY <1>3, <1>4, <2>1
  <2>3. new[i] = order[Src(i)] /\ order[Src(i)] \in Tags
    <3>1. order[Src(i)] \in Tags
      BY <1>1, <2>2
    <3>2. new[i] = order[Src(i)]
      BY <1>4
    <3> QED BY <3>1, <3>2
  <2>4. order[Src(i)] # t
    BY <1>3, <1>9, <2>1, <2>2 DEF Contains
  <2>5. freed # 0 => order[Src(i)] # order[freed]
    BY <1>3, <1>9, <2>1, <2>2
  <2> QED BY <1>5, <2>2, <2>3, <2>4, <2>5
<1>11. ASSUME NEW i \in 2 .. Len(new), NEW j \in 2 .. Len(new), i < j
       PROVE  Src(i) < Src(j)
  <2>1. freed \in Nat /\ Len(order) \in Nat /\ i \in Nat /\ j \in Nat
    BY <1>1, <1>3
  <2> QED BY <1>11, <2>1
<1>12. stamp'[t] = clock[s] + 1
  BY <1>1, <1>5
<1> HIDE DEF Src
(* Within the set.                                                         *)
<1>13. \A i, j \in DOMAIN l2'[s] : i < j => stamp'[l2'[s][i]] > stamp'[l2'[s][j]]
  <2> SUFFICES ASSUME NEW i \in 1 .. Len(new), NEW j \in 1 .. Len(new), i < j
               PROVE  stamp'[new[i]] > stamp'[new[j]]
    BY <1>4, <1>8
  <2>1. j \in 2 .. Len(new)
    BY <1>4
  <2>2. stamp'[new[j]] = stamp[order[Src(j)]]
        /\ stamp[order[Src(j)]] \in 1 .. clock[s]
    BY <1>7, <1>10, <2>1
  <2>3. CASE i = 1
    <3>1. new[i] = t /\ stamp'[new[i]] = clock[s] + 1
      BY <1>4, <1>12, <2>3
    <3> QED BY <1>1, <2>2, <3>1
  <2>4. CASE i # 1
    <3>1. i \in 2 .. Len(new)
      BY <1>4, <2>4
    <3>2. stamp'[new[i]] = stamp[order[Src(i)]]
      BY <1>10, <3>1
    <3>3. stamp[order[Src(i)]] > stamp[order[Src(j)]]
      BY <1>7, <1>10, <1>11, <2>1, <3>1
    <3> QED BY <2>2, <3>2, <3>3
  <2> QED BY <2>3, <2>4
<1>14. \A i \in DOMAIN l2'[s] : /\ stamp'[l2'[s][i]] \in 1 .. clock'[s]
                               /\ SetIndex(L2Config, l2'[s][i]) = s
  <2> SUFFICES ASSUME NEW i \in 1 .. Len(new)
               PROVE  /\ stamp'[new[i]] \in 1 .. clock[s] + 1
                      /\ SetIndex(L2Config, new[i]) = s
    BY <1>4, <1>8
  <2>1. CASE i = 1
    <3>1. new[i] = t /\ stamp'[new[i]] = clock[s] + 1
      BY <1>4, <1>12, <2>1
    <3>2. SetIndex(L2Config, t) = s
      BY DEF s
    <3>3. clock[s] + 1 \in 1 .. clock[s] + 1
      BY <1>1
    <3> QED BY <3>1, <3>2, <3>3
  <2>2. CASE i # 1
    <3>1. i \in 2 .. Len(new)
      BY <1>4, <2>2
    <3>2. stamp'[new[i]] \in 1 .. clock[s]
      BY <1>7, <1>10, <3>1
    <3>3. SetIndex(L2Config, new[i]) = s
      BY <1>7, <1>10, <3>1
    <3> QED BY <1>1, <3>2, <3>3
  <2> QED BY <2>1, <2>2
(* The other sets: their lines are neither the tag nor the freed line.     *)
<1>15. ASSUME NEW u \in Tags, SetIndex(L2Config, u) # s
       PROVE  stamp'[u] = stamp[u]
  <2>1. u # t
    BY <1>15 DEF s
  <2>2. freed # 0 => u # order[freed]
    BY <1>3, <1>7, <1>15
  <2> QED BY <1>5, <2>1, <2>2
<1>16. ASSUME NEW r \in SetIndices(L2Config), r # s
       PROVE  /\ l2'[r] = l2[r] /\ clock'[r] = clock[r]
              /\ \A i \in DOMAIN l2[r] :
                   stamp'[l2[r][i]] = stamp[l2[r][i]]
  <2>1. l2[r] \in Seq(Tags)
    BY DEF TypeOK
  <2>2. ASSUME NEW i \in DOMAIN l2[r]
        PROVE  l2[r][i] \in Tags /\ SetIndex(L2Config, l2[r][i]) = r
    BY <2>1 DEF RecencyInv, L2Partitioned
  <2> QED BY <1>8, <1>15, <1>16, <2>2
(* A tag has a stamp exactly while it is resident.                         *)
<1>17. ASSUME NEW u \in Tags
       PROVE  stamp'[u] # 0 <=> Contains(l2'[SetIndex(L2Config, u)], u)
  <2>1. CASE SetIndex(L2Config, u) = s
    <3>1. CASE u = t
      BY <1>1, <1>6, <1>8, <1>12, <2>1, <3>1
    <3>2. CASE u # t /\ freed # 0 /\ u = order[freed]
      <4>1. stamp'[u] = 0
        BY <1>5, <3>2
      <4>2. ~ \E j \in 1 .. Len(order) : j # freed /\ order[j] = u
        BY <1>3, <1>9, <3>2
      <4> QED BY <1>6, <1>8, <2>1, <3>2, <4>1, <4>2
    <3>3. CASE u # t /\ ~(freed # 0 /\ u = order[freed])
      <4>1. stamp'[u] = stamp[u]
        BY <1>5, <3>3
      <4>2. Contains(new, u) <=> Contains(order, u)
        <5>1. Contains(order, u) <=> \E j \in 1 .. Len(order) : order[j] = u
          BY <1>1 DEF Contains
        <5>2. \A j \in 1 .. Len(order) : order[j] = u => j # freed
          BY <1>3, <3>3
        <5> QED BY <1>6, <3>3, <5>1, <5>2
      <4> QED BY <1>7, <1>8, <2>1, <4>1, <4>2
    <3> QED BY <3>1, <3>2, <3>3
  <2>2. CASE SetIndex(L2Config, u) # s
    <3>1. stamp'[u] = stamp[u]
      BY <1>15, <2>2
    <3>2. l2'[SetIndex(L2Config, u)] = l2[SetIndex(L2Config, u)]
      BY <1>8, <2>2, CachesHaveSets
    <3> QED BY <3>1, <3>2 DEF RecencyInv, RecencyIsStampOrder, Resident
  <2> QED BY <2>1, <2>2
<1>18. RecencyIsStampOrder'
  <2>1. \A r \in SetIndices(L2Config) :
           /\ \A i, j \in DOMAIN l2'[r] :
                i < j => stamp'[l2'[r][i]] > stamp'[l2'[r][j]]
           /\ \A i \in DOMAIN l2'[r] : stamp'[l2'[r][i]] \in 1 .. clock'[r]
    <3> SUFFICES ASSUME NEW r \in SetIndices(L2Config), r # s
                 PROVE  /\ \A i, j \in DOMAIN l2'[r] :
                             i < j => stamp'[l2'[r][i]] > stamp'[l2'[r][j]]
                        /\ \A i \in DOMAIN l2'[r] :
                             stamp'[l2'[r][i]] \in 1 .. clock'[r]
      BY <1>13, <1>14
    <3> QED BY <1>16 DEF RecencyInv, RecencyIsStampOrder
  <2> QED BY <1>17, <2>1 DEF RecencyIsStampOrder, Resident
<1>19. L2Partitioned'
  BY <1>14, <1>16 DEF RecencyInv, L2Partitioned
<1> QED BY <1>18, <1>19 DEF RecencyInv

(* A fill keeps the order of stamps, and nothing else touches L2.          *)
LEMMA RecencyStep == TypeOK /\ RecencyInv /\ [Next]_vars => RecencyInv'
<1> SUFFICES ASSUME TypeOK, RecencyInv, [Next]_vars PROVE RecencyInv'
  OBVIOUS
<1>1. CASE Fill
  BY <1>1, FillKeepsRecency
<1>2. CASE UNCHANGED l2vars
  BY <1>2 DEF l2vars, RecencyInv, RecencyIsStampOrder, L2Partitioned, Resident
<1> QED BY <1>1, <1>2, OnlyFillChangesL2

(* In every reachable state each L2 set is ordered by strictly falling     *)
(* stamps, all at most the set's clock, and order_ and map_ agree on what  *)
(* is resident: the claim of policy.h:53 for every trace and every shape.  *)
THEOREM RecencyCorrect == Spec => []RecencyIsStampOrder
<1>1. RecencyInv => RecencyIsStampOrder
  BY DEF RecencyInv
<1> QED BY <1>1, RecencyInit, RecencyStep, TypeCorrect, PTL DEF Spec

-----------------------------------------------------------------------------
(* PinsCarryTheSnapshot is inductive by itself: during the lookups L2 is   *)
(* not written, so the stamp a late pin reads is still the snapshot's.     *)
LEMMA PinsStep == TypeOK /\ PinsCarryTheSnapshot /\ [Next]_vars
                    => PinsCarryTheSnapshot'
<1> SUFFICES ASSUME TypeOK, PinsCarryTheSnapshot, [Next]_vars
             PROVE  PinsCarryTheSnapshot'
  OBVIOUS
<1> USE DEF PinsCarryTheSnapshot, Pinned
<1>1. ASSUME NEW ids \in CoreLists, BeginTick(ids) PROVE PinsCarryTheSnapshot'
  BY <1>1 DEF BeginTick, NoPins, l2vars
<1>2. ASSUME NEW ids \in CoreLists, RejectTick(ids) PROVE PinsCarryTheSnapshot'
  BY <1>2 DEF RejectTick, InLookup
<1>3. ASSUME NEW c \in Cores, NEW t \in Tags, LookupL1Hit(c, t)
      PROVE  PinsCarryTheSnapshot'
  BY <1>3, AccessFrame DEF LookupL1Hit, InLookup, l2vars, switches
<1>4. ASSUME NEW c \in Cores, NEW t \in Tags, LookupL2Hit(c, t)
      PROVE  PinsCarryTheSnapshot'
  <2>1. /\ InLookup /\ UNCHANGED <<switches, phase, cores, snapshot, stamp>>
        /\ pins' = IF sameTickPinning /\ pins[t] = 0
                   THEN [pins EXCEPT ![t] = stamp[t]]
                   ELSE pins
    BY <1>4, AccessFrame DEF LookupL2Hit, l2vars, PinStamp
  <2> QED BY <2>1 DEF InLookup, switches, TypeOK
<1>5. ASSUME NEW c \in Cores, NEW t \in Tags, LookupL2Miss(c, t)
      PROVE  PinsCarryTheSnapshot'
  BY <1>5, AccessFrame DEF LookupL2Miss, InLookup, l2vars, switches
<1>6. CASE NextCore
  BY <1>6 DEF NextCore, InLookup, l2vars, switches
<1>7. CASE Fill
  BY <1>7 DEF Fill, InFill, InLookup, switches
<1>8. CASE EndTick
  BY <1>8 DEF EndTick, InLookup
<1>9. CASE UNCHANGED vars
  BY <1>9 DEF vars, l2vars, InLookup, switches
<1> QED BY <1>1, <1>2, <1>3, <1>4, <1>5, <1>6, <1>7, <1>8, <1>9
        DEF Next, Lookup, Finished

(* In every reachable state a pin carries the stamp its line had when the  *)
(* tick began, whichever core pinned it first and whatever the fills have  *)
(* moved since.                                                            *)
THEOREM PinsCorrect == Spec => []PinsCarryTheSnapshot
<1>1. Init => PinsCarryTheSnapshot
  BY DEF Init, PinsCarryTheSnapshot, InLookup
<1> QED BY <1>1, PinsStep, TypeCorrect, PTL DEF Spec

-----------------------------------------------------------------------------
(* The line of a set that a fill removes is the victim of choose_victim.   *)
LEMMA LeavingLineIsTheVictim ==
  ASSUME TypeOK, RecencyInv, Fill, NEW v \in Tags, Resident(v), ~Resident(v)'
  PROVE  LET s == SetIndex(L2Config, v)
         IN  /\ s \in SetIndices(L2Config)
             /\ l2[s] \in Seq(Tags) /\ l2[s] # <<>>
             /\ v = l2[s][Victim(l2[s], pins)]
<1> DEFINE t == Head(pendingFills)
           s == SetIndex(L2Config, t)
           order == l2[s]
           ways == Ways(L2Config)
           freed == FreedPosition(order, ways, t, pins)
           new == InsertOrTouch(order, ways, t, pins)
<1>1. t \in Tags
  BY FillType
<1>2. /\ s \in SetIndices(L2Config) /\ SetIndex(L2Config, v) \in SetIndices(L2Config)
      /\ ways \in Nat \ {0} /\ order \in Seq(Tags) /\ pins \in [Tags -> Nat]
  BY <1>1, CachesHaveSets DEF TypeOK
<1>3. l2' = [l2 EXCEPT ![s] = new]
  BY DEF Fill
<1>4. freed = CASE Contains(order, t)  -> PositionOf(order, t)
                [] /\ ~Contains(order, t)
                   /\ Len(order) >= ways -> Victim(order, pins)
                [] OTHER                 -> 0
  BY DEF FreedPosition
<1> HIDE DEF t, s, order, ways
<1>5. SetIndex(L2Config, v) = s
  <2> SUFFICES ASSUME SetIndex(L2Config, v) # s PROVE FALSE
    OBVIOUS
  <2>1. l2'[SetIndex(L2Config, v)] = l2[SetIndex(L2Config, v)]
    BY <1>2, <1>3 DEF TypeOK
  <2> QED BY <2>1 DEF Resident
<1>6. /\ freed \in 0 .. Len(order)
      /\ Contains(order, t) => freed # 0 /\ order[freed] = t
  BY <1>1, <1>2, FreedPositionType
<1>7. Contains(new, v) <=>
        \/ v = t
        \/ \E j \in 1 .. Len(order) : j # freed /\ order[j] = v
  BY <1>1, <1>2, InsertOrTouchContains
<1> HIDE DEF freed, new
<1>8. Contains(order, v) /\ ~Contains(new, v)
  <2>1. l2'[s] = new
    BY <1>2, <1>3 DEF TypeOK
  <2> QED BY <1>5, <2>1 DEF Resident, order
<1>9. PICK j \in 1 .. Len(order) : order[j] = v
  BY <1>2, <1>8 DEF Contains
<1>10. freed = j /\ v # t
  BY <1>7, <1>8, <1>9
<1>11. ~Contains(order, t)
  BY <1>6, <1>9, <1>10
<1>12. Len(order) \in Nat /\ Len(order) # 0 /\ freed # 0
  BY <1>2, <1>9, <1>10
<1>13. freed = Victim(order, pins)
  BY <1>4, <1>11, <1>12
<1>14. order # <<>>
  BY <1>2, <1>12
<1> QED BY <1>2, <1>5, <1>9, <1>10, <1>13, <1>14 DEF order

(* If the line choose_victim names is pinned then every line of the set is *)
(* pinned, and its pin carries the smallest stamp of them.                 *)
LEMMA PinnedVictim ==
  ASSUME NEW T, NEW order \in Seq(T), order # <<>>, NEW p \in [T -> Nat],
         p[order[Victim(order, p)]] # 0
  PROVE  \A i \in DOMAIN order :
           p[order[i]] # 0 /\ p[order[Victim(order, p)]] <= p[order[i]]
<1> DEFINE free == {i \in DOMAIN order : p[order[i]] = 0}
<1>0. /\ Len(order) \in Nat \ {0}
      /\ DOMAIN order = 1 .. Len(order)
      /\ \A i \in 1 .. Len(order) : order[i] \in T
  OBVIOUS
<1>1. free = {}
  <2> SUFFICES ASSUME free # {} PROVE FALSE
    OBVIOUS
  <2>1. Victim(order, p) = Max(free)
    BY DEF Victim
  <2>2. Max(free) \in free
    BY <1>0, GreatestExists DEF Max
  <2> QED BY <2>1, <2>2
<1> DEFINE IsLeast(i) == \A j \in DOMAIN order : p[order[i]] <= p[order[j]]
<1>2. Victim(order, p) = CHOOSE i \in DOMAIN order : IsLeast(i)
  BY <1>1 DEF Victim
<1>3. \E i \in DOMAIN order : IsLeast(i)
  <2> DEFINE S == {p[order[i]] : i \in DOMAIN order}
  <2>1. S \subseteq Nat /\ S # {}
    BY <1>0
  <2>2. PICK x \in S : \A y \in S : x <= y
    <3> HIDE DEF S
    <3> QED BY <2>1, LeastExists
  <2> QED BY <2>2
<1>4. IsLeast(Victim(order, p))
  BY <1>2, <1>3
<1> QED BY <1>1, <1>4

(* Whenever a fill evicts a pinned line, every line of its set was pinned  *)
(* and none was closer to LRU when the tick began.                         *)
THEOREM OverflowCorrect == Spec => OverflowTakesPreTickLru
<1> DEFINE Step ==
      \A t \in Tags :
        Pinned(t) /\ InFill /\ Resident(t) /\ ~Resident(t)' =>
          LET order == l2[SetIndex(L2Config, t)]
          IN  \A i \in DOMAIN order :
                Pinned(order[i]) /\ snapshot[t] <= snapshot[order[i]]
<1>1. TypeOK /\ RecencyInv /\ PinsCarryTheSnapshot /\ [Next]_vars => [Step]_vars
  <2> SUFFICES ASSUME TypeOK, RecencyInv, PinsCarryTheSnapshot, [Next]_vars,
                      NEW v \in Tags,
                      Pinned(v), InFill, Resident(v), ~Resident(v)',
                      NEW i \in DOMAIN l2[SetIndex(L2Config, v)]
               PROVE  LET u == l2[SetIndex(L2Config, v)][i]
                      IN  Pinned(u) /\ snapshot[v] <= snapshot[u]
    OBVIOUS
  <2> DEFINE order == l2[SetIndex(L2Config, v)]
             u == order[i]
  <2>1. Fill
    BY OnlyFillChangesL2 DEF Resident, l2vars
  <2>2. order \in Seq(Tags) /\ order # <<>> /\ v = order[Victim(order, pins)]
    BY <2>1, LeavingLineIsTheVictim
  <2>3. pins \in [Tags -> Nat] /\ pins[v] # 0 /\ u \in Tags
    BY <2>2 DEF TypeOK, Pinned
  <2>4. pins[u] # 0 /\ pins[v] <= pins[u]
    BY <2>2, <2>3, PinnedVictim
  <2>5. pins[v] = snapshot[v] /\ pins[u] = snapshot[u]
    BY <2>3, <2>4 DEF PinsCarryTheSnapshot, InFill, Pinned
  <2> QED BY <2>4, <2>5 DEF Pinned
<1>2. TypeOK /\ RecencyInv /\ [Next]_vars => RecencyInv'
  BY RecencyStep
<1> QED BY <1>1, <1>2, RecencyInit, TypeCorrect, PinsCorrect, PTL
        DEF Spec, OverflowTakesPreTickLru

-----------------------------------------------------------------------------
(* A set into which a line of its own is inserted stays well formed.       *)
LEMMA GoodSetKept ==
  ASSUME NEW cfg \in CacheConfigs, NEW order \in Seq(Tags), NEW t \in Tags,
         NEW p \in [Tags -> Nat], NEW s, SetIndex(cfg, t) = s, GoodSet(order, cfg, s)
  PROVE  GoodSet(InsertOrTouch(order, Ways(cfg), t, p), cfg, s)
<1>1. PICK ways \in Nat \ {0} : ways = Ways(cfg)
  BY ShapeType
<1> DEFINE freed == FreedPosition(order, ways, t, p)
           new == InsertOrTouch(order, ways, t, p)
           Src(i) == IF freed = 0 \/ i - 1 < freed THEN i - 1 ELSE i
<1>2. /\ freed \in 0 .. Len(order)
      /\ Contains(order, t) => freed # 0 /\ order[freed] = t
  BY FreedPositionType
<1>3. /\ new \in Seq(Tags)
      /\ Len(order) <= ways => Len(new) <= ways
      /\ Len(new) = IF freed = 0 THEN Len(order) + 1 ELSE Len(order)
      /\ new[1] = t
      /\ \A i \in 2 .. Len(new) :
           new[i] = IF freed = 0 \/ i - 1 < freed THEN order[i - 1] ELSE order[i]
  BY InsertOrTouchElements
<1>4. /\ DOMAIN order = 1 .. Len(order) /\ Len(order) \in Nat
      /\ DOMAIN new = 1 .. Len(new) /\ Len(new) \in Nat
  BY <1>3
<1>5. /\ Len(order) <= ways
      /\ \A i, j \in 1 .. Len(order) : order[i] = order[j] => i = j
      /\ \A i \in 1 .. Len(order) : SetIndex(cfg, order[i]) = s
  BY <1>1, <1>4 DEF GoodSet
<1> HIDE DEF freed, new
<1>6. ASSUME NEW i \in 2 .. Len(new)
      PROVE  /\ Src(i) \in 1 .. Len(order) /\ Src(i) # freed
             /\ new[i] = order[Src(i)]
             /\ new[i] # t
  <2>1. Src(i) \in 1 .. Len(order) /\ Src(i) # freed
    <3>1. freed \in 0 .. Len(order) /\ Len(order) \in Nat /\ i \in 2 .. Len(new)
          /\ Len(new) = IF freed = 0 THEN Len(order) + 1 ELSE Len(order)
      BY <1>2, <1>3, <1>4
    <3> QED BY ONLY <3>1
  <2>2. new[i] = order[Src(i)]
    BY <1>3
  <2> HIDE DEF Src
  <2>3. order[Src(i)] # t
    <3> SUFFICES ASSUME order[Src(i)] = t PROVE FALSE
      OBVIOUS
    <3>1. Contains(order, t)
      BY <1>4, <2>1 DEF Contains
    <3>2. freed # 0 /\ order[freed] = t /\ freed \in 0 .. Len(order)
      BY <1>2, <3>1
    <3>3. freed \in 1 .. Len(order)
      BY ONLY <1>4, <3>2
    <3> QED BY ONLY <1>5, <2>1, <3>2, <3>3, order[Src(i)] = t
  <2> QED BY <2>1, <2>2, <2>3
<1>7. ASSUME NEW i \in 2 .. Len(new), NEW j \in 2 .. Len(new), Src(i) = Src(j)
      PROVE  i = j
  BY <1>2, <1>4, <1>7
<1> HIDE DEF Src
<1>8. \A i, j \in 1 .. Len(new) : new[i] = new[j] => i = j
  <2> SUFFICES ASSUME NEW i \in 1 .. Len(new), NEW j \in 1 .. Len(new), new[i] = new[j]
               PROVE  i = j
    OBVIOUS
  <2>1. CASE i = 1 \/ j = 1
    <3>1. (i = 1 \/ i \in 2 .. Len(new)) /\ (j = 1 \/ j \in 2 .. Len(new))
      BY <1>4
    <3> QED BY <1>3, <1>6, <2>1, <3>1
  <2>2. CASE i # 1 /\ j # 1
    <3>1. i \in 2 .. Len(new) /\ j \in 2 .. Len(new)
      BY <1>4, <2>2
    <3>2. Src(i) = Src(j)
      BY <1>5, <1>6, <3>1
    <3> QED BY <1>7, <3>1, <3>2
  <2> QED BY <2>1, <2>2
<1>9. \A i \in 1 .. Len(new) : SetIndex(cfg, new[i]) = s
  <2> TAKE i \in 1 .. Len(new)
  <2>1. CASE i = 1
    BY <1>3, <2>1
  <2>2. CASE i # 1
    <3>1. i \in 2 .. Len(new)
      BY <1>4, <2>2
    <3> QED BY <1>5, <1>6, <3>1
  <2> QED BY <2>1, <2>2
<1> QED BY <1>1, <1>3, <1>4, <1>5, <1>8, <1>9 DEF GoodSet, new

(* An access changes one set of one L1, a fill one set of L2, and both     *)
(* insert a line into the set its tag selects.                             *)
LEMMA SetsStep == TypeOK /\ SetsAreWellFormed /\ [Next]_vars => SetsAreWellFormed'
<1> SUFFICES ASSUME TypeOK, SetsAreWellFormed, [Next]_vars PROVE SetsAreWellFormed'
  OBVIOUS
<1> DEFINE L1Good == \A c \in Cores : \A s \in SetIndices(L1Config) :
                       GoodSet(l1'[c][s], L1Config, s)
           L2Good == \A s \in SetIndices(L2Config) : GoodSet(l2'[s], L2Config, s)
<1>1. ASSUME NEW c \in Cores, NEW t \in Tags, AccessL1(c, t) PROVE L1Good
  <2> DEFINE s == SetIndex(L1Config, t)
  <2>1. s \in SetIndices(L1Config) /\ L1Config \in CacheConfigs
    BY CachesHaveSets, HierarchyAssumption
  <2>2. l1[c][s] \in Seq(Tags) /\ GoodSet(l1[c][s], L1Config, s)
    BY <2>1 DEF TypeOK, SetsAreWellFormed
  <2>3. GoodSet(InsertOrTouch(l1[c][s], Ways(L1Config), t, NoPins), L1Config, s)
    BY <2>1, <2>2, NoPinsType, GoodSetKept
  <2>4. l1' = [l1 EXCEPT ![c][s] = InsertOrTouch(l1[c][s], Ways(L1Config), t, NoPins)]
    BY <1>1 DEF AccessL1
  <2> HIDE DEF s
  <2>5. /\ l1'[c][s] = InsertOrTouch(l1[c][s], Ways(L1Config), t, NoPins)
        /\ \A r \in SetIndices(L1Config) \ {s} : l1'[c][r] = l1[c][r]
        /\ \A b \in Cores \ {c} : l1'[b] = l1[b]
    BY <2>1, <2>4 DEF TypeOK
  <2> SUFFICES ASSUME NEW b \in Cores, NEW r \in SetIndices(L1Config)
               PROVE  GoodSet(l1'[b][r], L1Config, r)
    OBVIOUS
  <2>6. CASE b = c /\ r = s
    BY <2>3, <2>5, <2>6
  <2>7. CASE ~(b = c /\ r = s)
    <3>1. l1'[b][r] = l1[b][r]
      BY <2>5, <2>7
    <3> QED BY <3>1 DEF SetsAreWellFormed
  <2> QED BY <2>6, <2>7
<1>2. ASSUME Fill PROVE L2Good
  <2>1. PICK t \in Tags : t = Head(pendingFills)
    BY <1>2, FillType
  <2>2. PICK s \in SetIndices(L2Config) : s = SetIndex(L2Config, t)
    BY CachesHaveSets
  <2>3. l2[s] \in Seq(Tags) /\ GoodSet(l2[s], L2Config, s) /\ pins \in [Tags -> Nat]
    BY DEF TypeOK, SetsAreWellFormed
  <2>4. GoodSet(InsertOrTouch(l2[s], Ways(L2Config), t, pins), L2Config, s)
    BY <2>2, <2>3, HierarchyAssumption, GoodSetKept
  <2>5. l2' = [l2 EXCEPT ![s] = InsertOrTouch(l2[s], Ways(L2Config), t, pins)]
    BY <1>2, <2>1, <2>2 DEF Fill
  <2>6. /\ l2'[s] = InsertOrTouch(l2[s], Ways(L2Config), t, pins)
        /\ \A r \in SetIndices(L2Config) \ {s} : l2'[r] = l2[r]
    BY <2>5 DEF TypeOK
  <2> QED BY <2>4, <2>6 DEF SetsAreWellFormed
<1>3. l2' = l2 => L2Good
  BY DEF SetsAreWellFormed
<1>4. l1' = l1 => L1Good
  BY DEF SetsAreWellFormed
<1>5. L1Good /\ L2Good => SetsAreWellFormed'
  BY DEF SetsAreWellFormed
<1>6. ASSUME NEW c \in Cores, NEW t \in Tags, Lookup(c, t) PROVE AccessL1(c, t) /\ l2' = l2
  BY <1>6 DEF Lookup, LookupL1Hit, LookupL2Hit, LookupL2Miss, l2vars
<1>7. Fill => l1' = l1
  BY DEF Fill
<1> HIDE DEF L1Good, L2Good
<1>8. CASE \E c \in Cores, t \in Tags : Lookup(c, t)
  BY <1>1, <1>3, <1>5, <1>6, <1>8
<1>9. CASE Fill
  BY <1>2, <1>4, <1>5, <1>7, <1>9
<1>10. CASE \/ \E ids \in CoreLists : BeginTick(ids) \/ RejectTick(ids)
            \/ NextCore \/ EndTick \/ UNCHANGED vars
  <2>1. l1' = l1 /\ l2' = l2
    BY <1>10 DEF BeginTick, RejectTick, NextCore, EndTick, vars, l2vars
  <2> QED BY <1>3, <1>4, <1>5, <2>1
<1> QED BY <1>8, <1>9, <1>10 DEF Next, Finished

(* For every trace and every shape of the two levels, no set of L2 or of   *)
(* an L1 ever has more lines than ways, the same line twice, or a line     *)
(* whose tag selects another set.                                          *)
THEOREM SetsCorrect == Spec => []SetsAreWellFormed
<1>1. Init => SetsAreWellFormed
  <2> SUFFICES ASSUME Init PROVE SetsAreWellFormed
    OBVIOUS
  <2>1. \A cfg \in CacheConfigs : \A s : GoodSet(<<>>, cfg, s)
    BY ShapeType DEF GoodSet
  <2>2. /\ \A s \in SetIndices(L2Config) : l2[s] = <<>>
        /\ \A c \in Cores : \A s \in SetIndices(L1Config) : l1[c][s] = <<>>
    BY DEF Init
  <2> QED BY <2>1, <2>2, HierarchyAssumption DEF SetsAreWellFormed
<1> QED BY <1>1, SetsStep, TypeCorrect, PTL DEF Spec

-----------------------------------------------------------------------------
(* The refinement: the contract's view of the state.                       *)

Lines == {t \in Tags : Resident(t)}
Protected == IF phase = "tick" THEN {t \in Tags : Pinned(t)} ELSE {}
Owed == IF phase = "tick" THEN ToSet(pendingFills) ELSE {}
SetOfTag == [t \in Tags |-> SetIndex(L2Config, t)]
NeighboursOf == [t \in Tags |-> IF (t + 1) % CoutLines = 0 THEN {} ELSE {t + 1}]

(* What the contract's variables are, and which of them L2 itself moves.   *)
LEMMA ContractView ==
  /\ UNCHANGED <<switches, phase, cores, l2, pins, pendingFills, l2Hits, l2Accesses>>
       => UNCHANGED Contract!contractVars
  /\ UNCHANGED l2 => Lines' = Lines
<1>1. UNCHANGED l2 => Lines' = Lines
  BY DEF Lines, Resident
<1> QED BY <1>1 DEF Contract!contractVars, InFill, Lines, Resident, Pinned, switches

(* What two lists joined hold.                                             *)
LEMMA ElementsJoined ==
  ASSUME NEW S, NEW s \in Seq(S), NEW t \in Seq(S)
  PROVE  ToSet(s \o t) = ToSet(s) \cup ToSet(t)
<1>0. /\ \A u \in Seq(S) : \A x : x \in ToSet(u) <=> \E i \in 1 .. Len(u) : x = u[i]
      /\ Len(s) \in Nat
  BY DEF ToSet
<1>1. /\ s \o t \in Seq(S) /\ Len(s \o t) = Len(s) + Len(t) /\ Len(t) \in Nat
      /\ \A i \in 1 .. Len(s) : (s \o t)[i] = s[i]
      /\ \A i \in 1 .. Len(t) : (s \o t)[Len(s) + i] = t[i]
  OBVIOUS
<1>2. ASSUME NEW i \in 1 .. Len(s \o t) PROVE (s \o t)[i] \in ToSet(s) \cup ToSet(t)
  <2>1. CASE i \in 1 .. Len(s)
    BY <1>0, <1>1, <2>1
  <2>2. CASE i \notin 1 .. Len(s)
    <3>1. i - Len(s) \in 1 .. Len(t) /\ i = Len(s) + (i - Len(s))
      BY <1>0, <1>1, <2>2
    <3> QED BY <1>0, <1>1, <3>1
  <2> QED BY <2>1, <2>2
<1>3. ASSUME NEW x \in ToSet(s \o t) PROVE x \in ToSet(s) \cup ToSet(t)
  <2>1. PICK i \in 1 .. Len(s \o t) : x = (s \o t)[i]
    <3>1. PICK u \in Seq(S) : u = s \o t
      BY <1>1
    <3>2. \E i \in 1 .. Len(u) : x = u[i]
      BY <1>0, <3>1
    <3> QED BY <3>1, <3>2
  <2> QED BY <1>2, <2>1
<1>4. ASSUME NEW x \in ToSet(s) PROVE x \in ToSet(s \o t)
  <2>1. PICK i \in 1 .. Len(s) : x = s[i]
    BY <1>0
  <2>2. i \in 1 .. Len(s \o t) /\ x = (s \o t)[i]
    BY <1>0, <1>1, <2>1
  <2> QED BY <1>0, <1>1, <2>2
<1>5. ASSUME NEW x \in ToSet(t) PROVE x \in ToSet(s \o t)
  <2>1. PICK i \in 1 .. Len(t) : x = t[i]
    BY <1>0
  <2>2. Len(s) + i \in 1 .. Len(s \o t) /\ x = (s \o t)[Len(s) + i]
    BY <1>0, <1>1, <2>1
  <2> QED BY <1>0, <1>1, <2>2
<1> QED BY <1>3, <1>4, <1>5

(* The elements of a list that grows or shrinks at an end.                 *)
LEMMA ListElements ==
  ASSUME NEW S, NEW s \in Seq(S)
  PROVE  /\ \A e \in S : ToSet(Append(s, e)) = ToSet(s) \cup {e}
         /\ \A e, f \in S : ToSet(s \o <<e, f>>) = ToSet(s) \cup {e, f}
         /\ \A e \in S : ToSet(s \o <<e>>) = ToSet(s) \cup {e}
         /\ s # <<>> => /\ Head(s) \in ToSet(s)
                        /\ ToSet(Tail(s)) \in {ToSet(s), ToSet(s) \ {Head(s)}}
         /\ s = <<>> <=> ToSet(s) = {}
         /\ ToSet(s) \subseteq S
<1>1. /\ \A t \in Seq(S) : \A x : x \in ToSet(t) <=> \E i \in 1 .. Len(t) : x = t[i]
      /\ Len(s) \in Nat
  BY DEF ToSet
<1>2. ASSUME NEW t \in Seq(S) PROVE ToSet(s \o t) = ToSet(s) \cup ToSet(t)
  BY ElementsJoined
<1>3. ASSUME NEW e \in S, NEW f \in S
      PROVE  ToSet(<<e>>) = {e} /\ ToSet(<<e, f>>) = {e, f}
             /\ <<e>> \in Seq(S) /\ <<e, f>> \in Seq(S) /\ Append(s, e) = s \o <<e>>
  BY DEF ToSet
<1>4. s = <<>> <=> ToSet(s) = {}
  <2>1. s = <<>> <=> Len(s) = 0
    OBVIOUS
  <2>2. Len(s) # 0 => 1 \in 1 .. Len(s)
    BY <1>1
  <2>3. ToSet(s) = {} <=> ~ \E i \in 1 .. Len(s) : TRUE
    BY <1>1
  <2> QED BY <1>1, <2>1, <2>2, <2>3
<1>5. ToSet(s) \subseteq S
  BY <1>1
<1>6. ASSUME s # <<>>
      PROVE  /\ Head(s) \in ToSet(s)
             /\ ToSet(Tail(s)) \in {ToSet(s), ToSet(s) \ {Head(s)}}
  <2>1. /\ Tail(s) \in Seq(S) /\ Head(s) = s[1] /\ Len(Tail(s)) = Len(s) - 1 /\ 1 \in 1 .. Len(s)
        /\ \A i \in 1 .. Len(s) - 1 : Tail(s)[i] = s[i + 1]
    BY <1>6
  <2>2. ASSUME NEW x \in ToSet(Tail(s)) PROVE x \in ToSet(s)
    <3>1. PICK i \in 1 .. Len(Tail(s)) : x = Tail(s)[i]
      <4>1. PICK u \in Seq(S) : u = Tail(s)
        BY <2>1
      <4>2. \E i \in 1 .. Len(u) : x = u[i]
        BY <1>1, <4>1
      <4> QED BY <4>1, <4>2
    <3>2. i + 1 \in 1 .. Len(s) /\ x = s[i + 1]
      BY <1>1, <2>1, <3>1
    <3> QED BY <1>1, <3>2
  <2>3. ASSUME NEW i \in 1 .. Len(s), s[i] # Head(s) PROVE s[i] \in ToSet(Tail(s))
    <3>1. i - 1 \in 1 .. Len(s) - 1 /\ (i - 1) + 1 = i
      BY <1>1, <2>1, <2>3
    <3>2. Tail(s)[i - 1] = s[i]
      BY <2>1, <3>1
    <3> QED BY <1>1, <2>1, <3>1, <3>2
  <2>4. ToSet(s) \ {Head(s)} \subseteq ToSet(Tail(s))
    BY <1>1, <2>3
  <2> QED BY <1>1, <2>1, <2>2, <2>4
<1> QED BY <1>2, <1>3, <1>4, <1>5, <1>6

(* A miss owes the neighbours of the line as well.                         *)
LEMMA PrefetchesNeighbour ==
  ASSUME NEW t \in Tags
  PROVE  ToSet(FillsOwed(t)) = {t} \cup (IF l2Prefetch THEN NeighboursOf[t] ELSE {})
         /\ FillsOwed(t) \in Seq(Tags)
<1>1. PICK n \in Nat \ {0}, m \in Nat : n = CoutLines /\ m = t
  BY HierarchyAssumption
<1>2. (m % n) + 1 < n <=> (m + 1) % n # 0
  <2>1. m % n \in 0 .. n - 1 /\ m \div n \in Nat /\ m = n * (m \div n) + (m % n)
    BY <1>1
  <2>2. PICK r \in 0 .. n - 1, q \in Nat : r = m % n /\ q = m \div n
    BY <2>1
  <2>3. q * n = n * q /\ (q + 1) * n = q * n + n /\ q * n \in Nat
    BY <1>1
  <2>4. m = q * n + r
    BY <2>1, <2>2, <2>3
  <2>5. CASE r + 1 < n
    <3>1. r + 1 \in 0 .. n - 1
      BY <2>2, <2>5
    <3>2. (q * n + (r + 1)) % n = r + 1
      BY <3>1, LastDigit
    <3>3. m + 1 = q * n + (r + 1)
      BY <2>2, <2>3, <2>4
    <3> QED BY <2>2, <2>5, <3>2, <3>3
  <2>6. CASE ~(r + 1 < n)
    <3>1. r + 1 = n
      BY <1>1, <2>2, <2>6
    <3>2. ((q + 1) * n + 0) % n = 0
      <4>1. q + 1 \in Nat /\ 0 \in 0 .. n - 1
        BY <1>1
      <4> QED BY <4>1, LastDigit
    <3>3. m + 1 = (q + 1) * n + 0
      BY <2>2, <2>3, <2>4, <3>1
    <3> QED BY <2>2, <2>6, <3>2, <3>3
  <2> QED BY <2>5, <2>6
<1>3. (t % CoutLines) + 1 < CoutLines <=> (t + 1) % CoutLines # 0
  BY <1>1, <1>2
<1>4. t \in Nat /\ ~ (-1 >= 0) /\ t + 1 >= 0
  BY HierarchyAssumption
<1>5. PrefetchTarget(t) >= 0 <=> (t + 1) % CoutLines # 0
  BY <1>3, <1>4 DEF PrefetchTarget
<1>6. PrefetchTarget(t) >= 0 => PrefetchTarget(t) = t + 1 /\ t + 1 \in Tags
  BY <1>4, HierarchyAssumption DEF PrefetchTarget
<1>7. \A u \in Tags : ToSet(<<t, u>>) = {t, u} /\ ToSet(<<t>>) = {t}
                      /\ <<t, u>> \in Seq(Tags) /\ <<t>> \in Seq(Tags)
  BY DEF ToSet
<1>8. CASE l2Prefetch /\ PrefetchTarget(t) >= 0
  <2>1. FillsOwed(t) = <<t, t + 1>>
    BY <1>6, <1>8 DEF FillsOwed
  <2>2. NeighboursOf[t] = {t + 1}
    BY <1>5, <1>8 DEF NeighboursOf
  <2> QED BY <1>6, <1>7, <1>8, <2>1, <2>2
<1>9. CASE ~(l2Prefetch /\ PrefetchTarget(t) >= 0)
  <2>1. FillsOwed(t) = <<t>>
    BY <1>9 DEF FillsOwed
  <2>2. l2Prefetch => NeighboursOf[t] = {}
    BY <1>5, <1>9 DEF NeighboursOf
  <2> QED BY <1>7, <1>9, <2>1, <2>2
<1> QED BY <1>8, <1>9

(* The lines of a well-formed set are as many as its sequence is long.     *)
LEMMA LinesOfASet ==
  ASSUME TypeOK, SetsAreWellFormed, NEW s \in SetIndices(L2Config)
  PROVE  LET held == {t \in Lines : SetOfTag[t] = s}
         IN  /\ held = ToSet(l2[s])
             /\ IsFiniteSet(held) /\ Cardinality(held) = Len(l2[s])
<1> DEFINE order == l2[s]   held == {t \in Lines : SetOfTag[t] = s}
<1>1. /\ order \in Seq(Tags) /\ DOMAIN order = 1 .. Len(order) /\ Len(order) \in Nat
      /\ \A i, j \in DOMAIN order : order[i] = order[j] => i = j
      /\ \A i \in DOMAIN order : order[i] \in Tags /\ SetIndex(L2Config, order[i]) = s
  BY DEF TypeOK, SetsAreWellFormed, GoodSet
<1>2. held = {order[i] : i \in DOMAIN order}
  BY <1>1 DEF Lines, SetOfTag, Resident, Contains
<1> HIDE DEF order, held
<1>3. order \in Bijection(DOMAIN order, held)
  BY <1>1, <1>2 DEF Bijection, Injection, IsInjective, Surjection
<1>4. IsFiniteSet(DOMAIN order) /\ Cardinality(DOMAIN order) = Len(order)
  <2>1. \A n \in Nat : IsFiniteSet(1 .. n) /\ Cardinality(1 .. n) = n
    BY FS_Interval
  <2> QED BY <1>1, <2>1
<1>5. ExistsBijection(DOMAIN order, held)
  BY <1>3 DEF ExistsBijection
<1>6. IsFiniteSet(held) /\ Cardinality(held) = Len(order)
  BY <1>4, <1>5, FS_Bijection
<1> QED BY <1>2, <1>6 DEF held, order, ToSet

(* What a fill makes of the resident lines: it adds the line, and takes    *)
(* away at most the victim of the set, if the line was not there and the   *)
(* set is full.                                                            *)
LEMMA FillLines ==
  ASSUME TypeOK, SetsAreWellFormed, Fill
  PROVE  LET t     == Head(pendingFills)
             s     == SetIndex(L2Config, t)
             v     == l2[s][Victim(l2[s], pins)]
         IN  /\ t \in Tags /\ s \in SetIndices(L2Config)
             /\ Resident(t) => Lines' = Lines
             /\ ~Resident(t) /\ Len(l2[s]) < Ways(L2Config) => Lines' = Lines \cup {t}
             /\ ~Resident(t) /\ ~(Len(l2[s]) < Ways(L2Config)) =>
                  /\ Len(l2[s]) = Ways(L2Config) /\ v \in ToSet(l2[s]) /\ l2[s] # <<>>
                  /\ Lines' = (Lines \ {v}) \cup {t}
<1>1. PICK t \in Tags : t = Head(pendingFills)
  BY FillType
<1>2. PICK s \in SetIndices(L2Config) : s = SetIndex(L2Config, t)
  BY CachesHaveSets
<1>3. PICK ways \in Nat \ {0} : ways = Ways(L2Config)
  BY CachesHaveSets
<1>4. PICK order \in Seq(Tags) : order = l2[s]
  BY DEF TypeOK
<1> DEFINE freed == FreedPosition(order, ways, t, pins)
           new == InsertOrTouch(order, ways, t, pins)
<1>5. /\ Len(order) \in Nat /\ Len(order) <= ways /\ DOMAIN order = 1 .. Len(order)
      /\ \A i, j \in 1 .. Len(order) : order[i] = order[j] => i = j
      /\ \A i \in 1 .. Len(order) : SetIndex(L2Config, order[i]) = s /\ order[i] \in Tags
  <2>1. GoodSet(order, L2Config, s)
    BY <1>4 DEF SetsAreWellFormed
  <2>2. DOMAIN order = 1 .. Len(order) /\ Len(order) \in Nat
        /\ \A i \in 1 .. Len(order) : order[i] \in Tags
    OBVIOUS
  <2> QED BY <1>3, <2>1, <2>2 DEF GoodSet
<1>p. pins \in [Tags -> Nat]
  BY DEF TypeOK
<1>6. l2' = [l2 EXCEPT ![s] = new]
  BY <1>1, <1>2, <1>3, <1>4 DEF Fill
<1>7. ASSUME NEW u \in Tags
      PROVE  Contains(new, u) <=> \/ u = t
                                  \/ \E j \in 1 .. Len(order) : j # freed /\ order[j] = u
  BY <1>p, InsertOrTouchContains
<1> HIDE DEF new
<1>8. ASSUME NEW u \in Tags
      PROVE  u \in Lines' <=> IF SetIndex(L2Config, u) = s THEN Contains(new, u) ELSE u \in Lines
  <2>1. SetIndex(L2Config, u) \in SetIndices(L2Config)
    BY CachesHaveSets
  <2> QED BY <1>6, <2>1 DEF Lines, Resident, TypeOK
<1>9. ASSUME NEW u \in Tags, SetIndex(L2Config, u) = s
      PROVE  u \in Lines <=> \E j \in 1 .. Len(order) : order[j] = u
  BY <1>4, <1>9 DEF Lines, Resident, Contains
<1>10. Contains(order, t) <=> Resident(t)
  BY <1>2, <1>4 DEF Resident
<1>11. Lines \subseteq Tags /\ Lines' \subseteq Tags
  BY DEF Lines
<1>12. CASE Resident(t)
  <2>1. freed = PositionOf(order, t)
    BY <1>10, <1>12 DEF FreedPosition
  <2>2. freed \in 1 .. Len(order) /\ order[freed] = t
    BY <1>10, <1>12, <2>1 DEF Contains, PositionOf
  <2>3. ASSUME NEW u \in Tags PROVE u \in Lines' <=> u \in Lines
    <3>1. CASE u = t
      BY <1>2, <1>7, <1>8, <1>12, <3>1 DEF Lines
    <3>2. CASE u # t
      BY <1>7, <1>8, <1>9, <2>2, <3>2
    <3> QED BY <3>1, <3>2
  <2> QED BY <1>1, <1>2, <1>11, <1>12, <2>3
<1>13. CASE ~Resident(t) /\ Len(order) < ways
  <2>1. freed = 0
    BY <1>5, <1>10, <1>13 DEF FreedPosition
  <2>2. ASSUME NEW u \in Tags PROVE u \in Lines' <=> u \in Lines \cup {t}
    BY <1>2, <1>5, <1>7, <1>8, <1>9, <2>1
  <2> QED BY <1>1, <1>2, <1>3, <1>4, <1>11, <1>13, <2>2
<1>14. CASE ~Resident(t) /\ ~(Len(order) < ways)
  <2>1. Len(order) = ways /\ order # <<>>
    <3>1. Len(order) = ways
      BY <1>3, <1>5, <1>14
    <3>2. Len(order) # 0
      BY <1>3, <3>1
    <3> QED BY <3>1, <3>2
  <2>2. freed = Victim(order, pins)
    BY <1>10, <1>14, <2>1 DEF FreedPosition
  <2>3. freed \in 1 .. Len(order)
    BY <1>p, <1>5, <2>1, <2>2, VictimIsAPosition
  <2>4. PICK v \in Tags : v = order[freed]
    BY <1>5, <2>3
  <2>5. SetIndex(L2Config, v) = s /\ v # t /\ v \in ToSet(order)
    BY <1>5, <1>10, <1>14, <2>3, <2>4 DEF Contains, ToSet
  <2>6. ASSUME NEW u \in Tags PROVE u \in Lines' <=> u \in (Lines \ {v}) \cup {t}
    <3>1. CASE SetIndex(L2Config, u) = s
      BY <1>5, <1>7, <1>8, <1>9, <2>3, <2>4, <3>1
    <3>2. CASE SetIndex(L2Config, u) # s
      BY <1>2, <1>8, <2>5, <3>2
    <3> QED BY <3>1, <3>2
  <2>7. Lines' = (Lines \ {v}) \cup {t}
    BY <1>11, <2>6
  <2> QED BY <1>1, <1>2, <1>3, <1>4, <1>14, <2>1, <2>2, <2>4, <2>5, <2>7
<1> QED BY <1>1, <1>2, <1>3, <1>4, <1>12, <1>13, <1>14

(* A fill is a fill of the contract: it displaces what the contract lets   *)
(* go, because the victim of a full set is pinned only if the set is.      *)
LEMMA FillImplementsContract ==
  ASSUME TypeOK, SetsAreWellFormed, Fill
  PROVE  Contract!ContractNext
<1>1. PICK t \in Tags : t = Head(pendingFills)
  BY FillType
<1>2. PICK s \in SetIndices(L2Config) : s = SetIndex(L2Config, t)
  BY CachesHaveSets
<1>3. /\ phase = "tick" /\ cores = <<>> /\ pendingFills # <<>>
      /\ pendingFills' = Tail(pendingFills)
      /\ UNCHANGED <<switches, phase, cores, pins, l2Hits, l2Accesses>>
  BY DEF Fill, InFill, stats
<1>4. InFill /\ InFill' = InFill
  BY <1>3 DEF InFill
<1>5. t \in Owed /\ Owed' \in {Owed, Owed \ {t}}
  <2>1. pendingFills \in Seq(Tags)
    BY DEF TypeOK
  <2>2. t \in ToSet(pendingFills)
        /\ ToSet(Tail(pendingFills)) \in {ToSet(pendingFills), ToSet(pendingFills) \ {t}}
    BY <1>1, <1>3, <2>1, ListElements
  <2> QED BY <1>3, <2>2 DEF Owed
<1>6. Protected' = Protected /\ Protected = {u \in Tags : Pinned(u)}
  BY <1>3 DEF Protected, Pinned
<1>7. SetOfTag[t] = s
  BY <1>2 DEF SetOfTag
<1> DEFINE held == {u \in Lines : SetOfTag[u] = s}
<1>8. held = ToSet(l2[s]) /\ Cardinality(held) = Len(l2[s])
  BY LinesOfASet
<1>9. \/ t \in Lines /\ Lines' = Lines
      \/ /\ t \notin Lines
         /\ Cardinality(held) < Ways(L2Config)
         /\ Lines' = Lines \cup {t}
      \/ /\ t \notin Lines
         /\ Cardinality(held) = Ways(L2Config)
         /\ \E v \in held : /\ v \in Protected => held \subseteq Protected
                            /\ SetOfTag[v] = s
                            /\ Lines' = (Lines \ {v}) \cup {t}
  <2>1. t \in Lines <=> Resident(t)
    BY DEF Lines
  <2>2. CASE Resident(t)
    BY <1>1, <2>1, <2>2, FillLines
  <2>3. CASE ~Resident(t) /\ Len(l2[s]) < Ways(L2Config)
    <3>1. Lines' = Lines \cup {t}
      BY <1>1, <1>2, <2>3, FillLines
    <3> QED BY <1>8, <2>1, <2>3, <3>1
  <2>4. CASE ~Resident(t) /\ ~(Len(l2[s]) < Ways(L2Config))
    <3>1. PICK v : v = l2[s][Victim(l2[s], pins)]
      OBVIOUS
    <3>2. /\ Len(l2[s]) = Ways(L2Config) /\ v \in held /\ l2[s] # <<>>
          /\ Lines' = (Lines \ {v}) \cup {t}
      BY <1>1, <1>2, <1>8, <2>4, <3>1, FillLines
    <3>3. ASSUME v \in Protected PROVE held \subseteq Protected
      <4>1. l2[s] \in Seq(Tags) /\ pins \in [Tags -> Nat]
        BY DEF TypeOK
      <4>2. pins[v] # 0
        BY <1>6, <3>3 DEF Pinned
      <4>3. \A i \in DOMAIN l2[s] : pins[l2[s][i]] # 0
        BY <3>1, <3>2, <4>1, <4>2, PinnedVictim
      <4>4. held \subseteq Tags
        BY DEF Lines
      <4> QED BY <1>6, <1>8, <4>3, <4>4 DEF ToSet, Pinned
    <3> QED BY <1>8, <2>1, <2>4, <3>2, <3>3
  <2> QED BY <2>2, <2>3, <2>4
<1>10. Contract!LinesOf(s) = held
  BY DEF Contract!LinesOf, Lines, SetOfTag
<1>11. \A v \in held : Contract!MayGo(v) <=> (v \in Protected => held \subseteq Protected)
  <2> TAKE v \in held
  <2>1. SetOfTag[v] = s
    OBVIOUS
  <2>2. Contract!MayGo(v) <=> (v \in Protected => Contract!LinesOf(SetOfTag[v]) \subseteq Protected)
    BY DEF Contract!MayGo, Protected, SetOfTag
  <2> QED BY <1>10, <2>1, <2>2
<1> HIDE DEF held
<1>12. Contract!FillOne(t)
  <2>1. \/ t \in Lines /\ Lines' = Lines
        \/ /\ t \notin Lines
           /\ Contract!Cardinality(Contract!LinesOf(SetOfTag[t])) < Ways(L2Config)
           /\ Lines' = Lines \cup {t}
        \/ /\ t \notin Lines
           /\ Contract!Cardinality(Contract!LinesOf(SetOfTag[t])) = Ways(L2Config)
           /\ \E v \in Contract!LinesOf(SetOfTag[t]) :
                Contract!MayGo(v) /\ Lines' = (Lines \ {v}) \cup {t}
    <3>1. Contract!Cardinality(held) = Cardinality(held)
      BY DEF Contract!Cardinality, Cardinality
    <3> QED BY <1>7, <1>9, <1>10, <1>11, <3>1
  <2>2. UNCHANGED <<sameTickPinning, l2Prefetch, InFill, Protected, l2Hits, l2Accesses>>
    BY <1>3, <1>4, <1>6 DEF switches
  <2> QED BY <1>4, <1>5, <2>1, <2>2
          DEF Contract!FillOne, Lines, Owed, Protected, SetOfTag
<1> QED BY <1>12 DEF Contract!ContractNext

(* Every lookup that reaches L2 is answered from what L2 held when the     *)
(* tick began, and owes what the contract says.                            *)
LEMMA LookupImplementsContract ==
  ASSUME TypeOK, RecencyInv, NEW c \in Cores, NEW t \in Tags, Lookup(c, t)
  PROVE  [Contract!ContractNext]_(Contract!contractVars)
<1>1. /\ phase = "tick" /\ cores # <<>>
      /\ UNCHANGED <<switches, phase, cores, l2>>
  <2>1. AccessL1(c, t) /\ UNCHANGED l2vars
    BY DEF Lookup, LookupL1Hit, LookupL2Hit, LookupL2Miss
  <2> QED BY <2>1, AccessFrame DEF InLookup, l2vars
<1>2. ~InFill /\ InFill' = InFill /\ Lines' = Lines
  BY <1>1 DEF InFill, Lines, Resident
<1>3. Owed = ToSet(pendingFills) /\ Owed' = ToSet(pendingFills')
      /\ Protected = {u \in Tags : Pinned(u)} /\ Protected' = {u \in Tags : Pinned(u)'}
  BY <1>1 DEF Owed, Protected
<1>4. pendingFills \in Seq(Tags) /\ pins \in [Tags -> Nat]
  BY DEF TypeOK
<1>5. CASE LookupL1Hit(c, t)
  BY <1>1, <1>5, ContractView DEF LookupL1Hit
<1>6. CASE LookupL2Hit(c, t)
  <2>1. /\ Resident(t) /\ l2Accesses' = l2Accesses + 1 /\ l2Hits' = l2Hits + 1
        /\ pendingFills' = Append(pendingFills, t)
        /\ pins' = IF sameTickPinning /\ ~Pinned(t) THEN [pins EXCEPT ![t] = stamp[t]] ELSE pins
    BY <1>6 DEF LookupL2Hit, PinStamp
  <2>2. Owed' = Owed \cup {t}
    BY <1>3, <1>4, <2>1, ListElements
  <2>3. stamp[t] # 0
    BY <2>1 DEF RecencyInv, RecencyIsStampOrder
  <2>4. Protected' = IF sameTickPinning THEN Protected \cup {t} ELSE Protected
    BY <1>3, <1>4, <2>1, <2>3 DEF Pinned
  <2>5. t \in Lines
    BY <2>1 DEF Lines
  <2>6. Contract!AskHit(t)
    BY <1>1, <1>2, <2>1, <2>2, <2>4, <2>5
       DEF Contract!AskHit, Lines, Owed, Protected, switches
  <2> QED BY <2>6 DEF Contract!ContractNext
<1>7. CASE LookupL2Miss(c, t)
  <2>1. /\ ~Resident(t) /\ l2Accesses' = l2Accesses + 1
        /\ pendingFills' = pendingFills \o FillsOwed(t)
        /\ UNCHANGED <<pins, l2Hits>>
    BY <1>7 DEF LookupL2Miss
  <2>2. Owed' = Owed \cup {t} \cup (IF l2Prefetch THEN NeighboursOf[t] ELSE {})
    <3>1. ToSet(pendingFills \o FillsOwed(t)) = ToSet(pendingFills) \cup ToSet(FillsOwed(t))
      BY <1>4, PrefetchesNeighbour, ElementsJoined
    <3> QED BY <1>3, <2>1, <3>1, PrefetchesNeighbour
  <2>3. Protected' = Protected /\ t \notin Lines
    BY <1>3, <2>1 DEF Lines, Pinned
  <2>4. Contract!AskMiss(t)
    BY <1>1, <1>2, <2>1, <2>2, <2>3
       DEF Contract!AskMiss, Lines, Owed, Protected, NeighboursOf, switches
  <2> QED BY <2>4 DEF Contract!ContractNext
<1> QED BY <1>5, <1>6, <1>7 DEF Lookup

(* Ticks begin and end, and the last lookup makes way for the fills.       *)
LEMMA TickImplementsContract ==
  ASSUME TypeOK, \/ \E ids \in CoreLists : BeginTick(ids) \/ RejectTick(ids)
                 \/ NextCore \/ EndTick \/ UNCHANGED vars
  PROVE  [Contract!ContractNext]_(Contract!contractVars)
<1>1. UNCHANGED <<switches, l2, l2Hits, l2Accesses>>
  BY DEF BeginTick, RejectTick, NextCore, EndTick, vars, l2vars, stats
<1>2. Lines' = Lines
  BY <1>1, ContractView
<1>3. CASE (\E ids \in CoreLists : RejectTick(ids)) \/ UNCHANGED vars
  BY <1>1, <1>2, <1>3
     DEF RejectTick, vars, Contract!contractVars, InFill, Lines, Resident, Pinned, switches
<1>4. CASE NextCore
  <2>1. /\ phase = "tick" /\ cores # <<>> /\ cores' = Tail(cores)
        /\ UNCHANGED <<phase, pins, pendingFills>>
    BY <1>4 DEF NextCore, InLookup
  <2>2. Protected' = Protected /\ Owed' = Owed /\ ~InFill /\ InFill' = (cores' = <<>>)
    BY <2>1 DEF Protected, Owed, Pinned, InFill
  <2>3. CASE cores' = <<>>
    <3>1. Contract!BeginFills
      BY <1>1, <1>2, <2>2, <2>3 DEF Contract!BeginFills, Lines, Owed, Protected, switches
    <3> QED BY <3>1 DEF Contract!ContractNext
  <2>4. CASE cores' # <<>>
    <3>1. InFill = FALSE /\ InFill' = FALSE
      BY <2>1, <2>4 DEF InFill
    <3> QED BY <1>1, <1>2, <2>2, <3>1 DEF Contract!contractVars, Lines, Owed, Protected, switches
  <2> QED BY <2>3, <2>4
<1>5. CASE EndTick
  <2>1. /\ InFill /\ pendingFills = <<>> /\ phase = "tick" /\ phase' = "idle"
    BY <1>5 DEF EndTick, InFill
  <2>2. Owed = {} /\ Owed' = {} /\ Protected' = {} /\ ~InFill'
    BY <2>1 DEF Owed, Protected, InFill, ToSet
  <2>3. Contract!EndFills
    BY <1>1, <1>2, <2>1, <2>2 DEF Contract!EndFills, Lines, Owed, Protected, switches
  <2> QED BY <2>3 DEF Contract!ContractNext
<1>6. ASSUME NEW ids \in CoreLists, BeginTick(ids)
      PROVE  [Contract!ContractNext]_(Contract!contractVars)
  <2>1. /\ phase = "idle" /\ phase' = "tick" /\ cores' = ids
        /\ pendingFills' = <<>> /\ pins' = NoPins
    BY <1>6 DEF BeginTick
  <2>2. Owed = {} /\ Owed' = {} /\ Protected = {} /\ Protected' = {}
        /\ ~InFill /\ InFill' = (ids = <<>>)
    BY <2>1 DEF Owed, Protected, InFill, ToSet, Pinned, NoPins
  <2>3. CASE ids = <<>>
    <3>1. Contract!BeginFills
      BY <1>1, <1>2, <2>2, <2>3 DEF Contract!BeginFills, Lines, Owed, Protected, switches
    <3> QED BY <3>1 DEF Contract!ContractNext
  <2>4. CASE ids # <<>>
    <3>1. InFill = FALSE /\ InFill' = FALSE
      BY <2>1, <2>4 DEF InFill
    <3> QED BY <1>1, <1>2, <2>2, <3>1 DEF Contract!contractVars, Lines, Owed, Protected, switches
  <2> QED BY <2>3, <2>4
<1> QED BY <1>3, <1>4, <1>5, <1>6

(* The two-level replay, with its recency order, stamps, pins and deferred *)
(* fills, implements the contract: within a tick all lookups see the same  *)
(* L2, only what was asked for or is next to a miss comes in, and a line   *)
(* read as a hit is displaced only if its whole set was.                   *)
THEOREM ContractCorrect == Spec => KeepsL2Contract
<1>1. Init => Contract!ContractInit
  <2> SUFFICES ASSUME Init PROVE Contract!ContractInit
    OBVIOUS
  <2>1. Lines = {}
    <3>1. \A s \in SetIndices(L2Config) : l2[s] = <<>>
      BY DEF Init
    <3> QED BY <3>1, CachesHaveSets DEF Lines, Resident, Contains
  <2>2. Protected = {} /\ Owed = {} /\ ~InFill
    BY DEF Init, Protected, Owed, InFill
  <2> QED BY <2>1, <2>2 DEF Init, Contract!ContractInit, Lines, Protected, Owed
<1>2. TypeOK /\ RecencyInv /\ SetsAreWellFormed /\ [Next]_vars
        => [Contract!ContractNext]_(Contract!contractVars)
  <2> SUFFICES ASSUME TypeOK, RecencyInv, SetsAreWellFormed, [Next]_vars
               PROVE  [Contract!ContractNext]_(Contract!contractVars)
    OBVIOUS
  <2>1. CASE Fill
    BY <2>1, FillImplementsContract
  <2>2. CASE \E c \in Cores, t \in Tags : Lookup(c, t)
    BY <2>2, LookupImplementsContract
  <2>3. CASE \/ \E ids \in CoreLists : BeginTick(ids) \/ RejectTick(ids)
             \/ NextCore \/ EndTick \/ UNCHANGED vars
    BY <2>3, TickImplementsContract
  <2> QED BY <2>1, <2>2, <2>3 DEF Next, Finished
<1>3. TypeOK /\ RecencyInv /\ [Next]_vars => RecencyInv'
  BY RecencyStep
<1> QED BY <1>1, <1>2, <1>3, RecencyInit, TypeCorrect, SetsCorrect, PTL
        DEF Spec, KeepsL2Contract, Contract!ContractSpec

-----------------------------------------------------------------------------
(* The statistics.  Every access is counted at both levels or was a hit.   *)

(* What the compulsory misses rest on: an L1 holds only what its core has  *)
(* accessed, and without prefetching L2 holds, and is owed, only what some *)
(* core has accessed; a line new to all cores is thus in neither.          *)
AllDemanded == UNION {demanded[c] : c \in Cores}

MissInv ==
  /\ \A c \in Cores : \A s \in SetIndices(L1Config) : \A i \in DOMAIN l1[c][s] :
       l1[c][s][i] \in demanded[c]
  /\ ~l2Prefetch => \A t \in Tags : Resident(t) => t \in AllDemanded
  /\ ~l2Prefetch => \A i \in DOMAIN pendingFills : pendingFills[i] \in AllDemanded
  /\ IsFiniteSet(AllDemanded)
  /\ CompulsoryMisses

(* What exact LRU rests on: the last touch of a resident line is its       *)
(* stamp, no touch is ahead of the clock of its set, and without pinning   *)
(* nothing is ever pinned.                                                 *)
TouchInv ==
  /\ \A t \in Tags : lastTouch[t] <= clock[SetIndex(L2Config, t)]
  /\ \A t \in Tags : Resident(t) => lastTouch[t] = stamp[t]
  /\ ~sameTickPinning => pins = NoPins
  /\ ExactLru

(* Both counters of the L1s are functions with a sum.                      *)
LEMMA CountersAddUp ==
  ASSUME NEW f \in [Cores -> Nat], NEW c \in Cores
  PROVE  /\ SumFunction(f) \in Nat
         /\ SumFunction([f EXCEPT ![c] = f[c] + 1]) = SumFunction(f) + 1
<1>1. IsFiniteSet(Cores)
  BY HierarchyAssumption
<1>2. SumFunction(f) = SumFunctionOnSet(f, Cores)
  BY DEF SumFunction
<1>3. SumFunctionOnSet(f, Cores) \in Nat
  BY <1>1, SumType
<1> DEFINE g == [f EXCEPT ![c] = f[c] + 1]
<1>4. SumFunctionOnSet(g, Cores) = SumFunctionOnSet(f, Cores) + 1
  <2>1. f \in [Cores -> Int] /\ 1 \in Int
    OBVIOUS
  <2> QED BY <1>1, <2>1, SumUpdate
<1>5. DOMAIN g = Cores
  OBVIOUS
<1> HIDE DEF g
<1>6. SumFunction(g) = SumFunctionOnSet(g, Cores)
  BY <1>5 DEF SumFunction
<1> QED BY <1>2, <1>3, <1>4, <1>6 DEF g

(* An access counts at its L1; it then is a hit there, or counts at L2.    *)
LEMMA TrafficStep == TypeOK /\ L2TrafficIsL1Misses /\ [Next]_vars => L2TrafficIsL1Misses'
<1> SUFFICES ASSUME TypeOK, L2TrafficIsL1Misses, [Next]_vars PROVE L2TrafficIsL1Misses'
  OBVIOUS
<1>1. CASE UNCHANGED stats
  BY <1>1 DEF stats, L2TrafficIsL1Misses
<1>2. CASE \E c \in Cores, t \in Tags : Lookup(c, t)
  <2>1. PICK c \in Cores, t \in Tags : Lookup(c, t)
    BY <1>2
  <2>2. l1Accesses \in [Cores -> Nat] /\ l1Hits \in [Cores -> Nat]
        /\ l2Accesses \in Nat /\ l2Hits \in Nat
    BY DEF TypeOK
  <2>3. l1Accesses' = [l1Accesses EXCEPT ![c] = l1Accesses[c] + 1]
    BY <2>1 DEF Lookup, LookupL1Hit, LookupL2Hit, LookupL2Miss, AccessL1
  <2>4. SumFunction(l1Accesses') = SumFunction(l1Accesses) + 1
        /\ SumFunction(l1Accesses) \in Nat /\ SumFunction(l1Hits) \in Nat
    BY <2>2, <2>3, CountersAddUp
  <2>5. l2Accesses = SumFunction(l1Accesses) - SumFunction(l1Hits) /\ l2Hits <= l2Accesses
        /\ \A d \in Cores : l1Hits[d] <= l1Accesses[d]
    BY DEF L2TrafficIsL1Misses
  <2>6. CASE LookupL1Hit(c, t)
    <3>1. l1Hits' = [l1Hits EXCEPT ![c] = l1Hits[c] + 1]
          /\ UNCHANGED <<l2Accesses, l2Hits>>
      BY <2>6 DEF LookupL1Hit
    <3>2. SumFunction(l1Hits') = SumFunction(l1Hits) + 1
      BY <2>2, <3>1, CountersAddUp
    <3>3. \A d \in Cores : l1Hits'[d] <= l1Accesses'[d]
      BY <2>2, <2>3, <2>5, <3>1
    <3> QED BY <2>2, <2>4, <2>5, <3>1, <3>2, <3>3 DEF L2TrafficIsL1Misses
  <2>7. CASE LookupL2Hit(c, t) \/ LookupL2Miss(c, t)
    <3>1. l1Hits' = l1Hits /\ l2Accesses' = l2Accesses + 1
          /\ (l2Hits' = l2Hits + 1 \/ l2Hits' = l2Hits)
      BY <2>7 DEF LookupL2Hit, LookupL2Miss
    <3>2. \A d \in Cores : l1Hits'[d] <= l1Accesses'[d]
      BY <2>2, <2>3, <2>5, <3>1
    <3> QED BY <2>2, <2>4, <2>5, <3>1, <3>2 DEF L2TrafficIsL1Misses
  <2> QED BY <2>1, <2>6, <2>7 DEF Lookup
<1> QED BY <1>1, <1>2 DEF Next, vars, BeginTick, RejectTick, NextCore, Fill, EndTick, Finished

(* An access adds its line to the lines demanded, and to its L1.           *)
LEMMA AccessDemands ==
  ASSUME TypeOK, MissInv, NEW c \in Cores, NEW t \in Tags, AccessL1(c, t)
  PROVE  /\ AllDemanded' = AllDemanded \cup {t}
         /\ \A d \in Cores : \A s \in SetIndices(L1Config) : \A i \in DOMAIN l1'[d][s] :
              l1'[d][s][i] \in demanded'[d]
<1>1. demanded' = [demanded EXCEPT ![c] = demanded[c] \cup {t}]
      /\ demanded \in [Cores -> SUBSET Tags]
  BY DEF AccessL1, TypeOK
<1>2. AllDemanded' = AllDemanded \cup {t}
  BY <1>1 DEF AllDemanded
<1>3. PICK s0 \in SetIndices(L1Config) : s0 = SetIndex(L1Config, t)
  BY CachesHaveSets
<1>4. PICK ways \in Nat \ {0} : ways = Ways(L1Config)
  BY CachesHaveSets
<1>5. PICK order \in Seq(Tags) : order = l1[c][s0]
  BY DEF TypeOK
<1> DEFINE new == InsertOrTouch(order, ways, t, NoPins)
<1>6. l1' = [l1 EXCEPT ![c][s0] = new]
  BY <1>3, <1>4, <1>5 DEF AccessL1
<1>7. \A u : Contains(new, u) => u = t \/ \E j \in 1 .. Len(order) : order[j] = u
  <2> SUFFICES ASSUME NEW u, Contains(new, u)
               PROVE  u = t \/ \E j \in 1 .. Len(order) : order[j] = u
    OBVIOUS
  <2> QED BY NoPinsType, InsertOrTouchContains
<1> HIDE DEF new
<1>8. l1 \in [Cores -> [SetIndices(L1Config) -> Seq(Tags)]]
  BY DEF TypeOK
<1>9. ASSUME NEW d \in Cores, NEW s \in SetIndices(L1Config), NEW i \in DOMAIN l1'[d][s]
      PROVE  l1'[d][s][i] \in demanded'[d]
  <2>1. CASE d = c /\ s = s0
    <3>1. l1'[d][s] = new
      BY <1>6, <1>8, <2>1
    <3>2. Contains(new, new[i]) /\ i \in DOMAIN new
      BY <1>9, <3>1 DEF Contains
    <3>3. new[i] = t \/ \E j \in 1 .. Len(order) : order[j] = new[i]
      BY <1>7, <3>2
    <3>4. \A j \in 1 .. Len(order) : order[j] \in demanded[c]
      BY <1>5 DEF MissInv
    <3> QED BY <1>1, <2>1, <3>1, <3>3, <3>4
  <2>2. CASE ~(d = c /\ s = s0)
    <3>1. l1'[d][s] = l1[d][s]
      BY <1>6, <1>8, <2>2
    <3>2. l1[d][s][i] \in demanded[d]
      BY <1>9, <3>1 DEF MissInv
    <3>3. demanded[d] \subseteq demanded'[d]
      BY <1>1
    <3> QED BY <3>1, <3>2, <3>3
  <2> QED BY <2>1, <2>2
<1> QED BY <1>2, <1>9

(* Only what is in front of the lines demanded may change without harm.    *)
LEMMA MissStep ==
  TypeOK /\ SetsAreWellFormed /\ L2TrafficIsL1Misses /\ MissInv /\ [Next]_vars => MissInv'
<1> SUFFICES ASSUME TypeOK, SetsAreWellFormed, L2TrafficIsL1Misses, MissInv, [Next]_vars
             PROVE  MissInv'
  OBVIOUS
<1> DEFINE L1Part == UNCHANGED <<l1, demanded>>
           Counts == UNCHANGED <<l2Accesses, l2Hits, l2Prefetch>>
<1>1. ASSUME UNCHANGED demanded PROVE AllDemanded' = AllDemanded
  BY <1>1 DEF AllDemanded
<1>2. ASSUME L1Part, Counts,
             ~l2Prefetch => \A t \in Tags : Resident(t)' => t \in AllDemanded,
             ~l2Prefetch => \A i \in DOMAIN pendingFills' : pendingFills'[i] \in AllDemanded
      PROVE  MissInv'
  BY <1>1, <1>2 DEF MissInv, CompulsoryMisses, AllDemanded
<1>3. ASSUME L1Part, Counts, UNCHANGED l2, pendingFills' \in {<<>>, pendingFills}
      PROVE  MissInv'
  <2>1. ~l2Prefetch => \A t \in Tags : Resident(t)' => t \in AllDemanded
    BY <1>3 DEF MissInv, Resident
  <2>2. ~l2Prefetch => \A i \in DOMAIN pendingFills' : pendingFills'[i] \in AllDemanded
    BY <1>3 DEF MissInv
  <2> QED BY <1>2, <1>3, <2>1, <2>2
<1>4. CASE NextCore \/ EndTick \/ Finished \/ UNCHANGED vars
           \/ \E ids \in CoreLists : BeginTick(ids) \/ RejectTick(ids)
  <2>1. L1Part /\ Counts /\ UNCHANGED l2 /\ pendingFills' \in {<<>>, pendingFills}
    BY <1>4 DEF NextCore, EndTick, Finished, vars, BeginTick, RejectTick, switches, stats, l2vars
  <2> QED BY <1>3, <2>1
<1>5. CASE Fill
  <2>1. L1Part /\ Counts /\ pendingFills # <<>> /\ pendingFills' = Tail(pendingFills)
    BY <1>5 DEF Fill, stats, switches
  <2>2. PICK t \in Tags : t = Head(pendingFills)
    BY <1>5, FillType
  <2>3. Lines' \subseteq Lines \cup {t}
    <3> DEFINE s == SetIndex(L2Config, t)   v == l2[s][Victim(l2[s], pins)]
    <3>1. /\ Resident(t) => Lines' = Lines
          /\ ~Resident(t) /\ Len(l2[s]) < Ways(L2Config) => Lines' = Lines \cup {t}
          /\ ~Resident(t) /\ ~(Len(l2[s]) < Ways(L2Config)) => Lines' = (Lines \ {v}) \cup {t}
      BY <1>5, <2>2, FillLines
    <3> HIDE DEF s, v
    <3> QED BY <3>1
  <2>4. pendingFills \in Seq(Tags)
    BY DEF TypeOK
  <2>5. ~l2Prefetch => t \in AllDemanded
    BY <2>1, <2>2, <2>4 DEF MissInv
  <2>6. ~l2Prefetch => \A u \in Tags : Resident(u)' => u \in AllDemanded
    BY <2>3, <2>5 DEF MissInv, Lines
  <2>7. ~l2Prefetch => \A i \in DOMAIN pendingFills' : pendingFills'[i] \in AllDemanded
    <3>1. \A i \in DOMAIN Tail(pendingFills) :
            i + 1 \in DOMAIN pendingFills /\ Tail(pendingFills)[i] = pendingFills[i + 1]
      BY <2>1, <2>4
    <3> QED BY <2>1, <3>1 DEF MissInv
  <2> QED BY <1>2, <2>1, <2>6, <2>7
<1>6. ASSUME NEW c \in Cores, NEW t \in Tags, Lookup(c, t) PROVE MissInv'
  <2>1. AccessL1(c, t) /\ UNCHANGED <<l2, l2Prefetch>>
    BY <1>6 DEF Lookup, LookupL1Hit, LookupL2Hit, LookupL2Miss, l2vars, AccessL1, switches
  <2>2. /\ AllDemanded' = AllDemanded \cup {t}
        /\ \A d \in Cores : \A s \in SetIndices(L1Config) : \A i \in DOMAIN l1'[d][s] :
             l1'[d][s][i] \in demanded'[d]
    BY <2>1, AccessDemands
  <2>3. IsFiniteSet(AllDemanded)
    BY DEF MissInv
  <2>4. IsFiniteSet(AllDemanded')
    BY <2>2, <2>3, FS_AddElement
  <2>5. ~l2Prefetch => \A u \in Tags : Resident(u)' => u \in AllDemanded'
    BY <2>1, <2>2 DEF MissInv, Resident
  <2>6. ~l2Prefetch => \A i \in DOMAIN pendingFills' : pendingFills'[i] \in AllDemanded'
    <3>1. pendingFills \in Seq(Tags)
      BY DEF TypeOK
    <3>2. CASE UNCHANGED pendingFills
      BY <2>2, <3>2 DEF MissInv
    <3>3. CASE ~l2Prefetch /\ (pendingFills' = Append(pendingFills, t)
                               \/ pendingFills' = pendingFills \o <<t>>)
      <4>1. \A i \in DOMAIN pendingFills' :
              pendingFills'[i] = t \/ (i \in DOMAIN pendingFills
                                       /\ pendingFills'[i] = pendingFills[i])
        BY <3>1, <3>3
      <4> QED BY <2>2, <3>3, <4>1 DEF MissInv
    <3> QED BY <1>6, <3>2, <3>3 DEF Lookup, LookupL1Hit, LookupL2Hit, LookupL2Miss, FillsOwed
  <2>7. CompulsoryMisses'
    <3> SUFFICES ASSUME ~l2Prefetch
                 PROVE  l2Accesses' - l2Hits' >= Cardinality(AllDemanded')
      BY <2>1 DEF CompulsoryMisses, AllDemanded
    <3>1. l2Accesses \in Nat /\ l2Hits \in Nat
          /\ l2Accesses - l2Hits >= Cardinality(AllDemanded)
          /\ Cardinality(AllDemanded) \in Nat
      BY <2>3, FS_CardinalityType DEF TypeOK, MissInv, CompulsoryMisses, AllDemanded
    <3>2. CASE t \in AllDemanded
      <4>1. AllDemanded' = AllDemanded
        BY <2>2, <3>2
      <4>2. \/ UNCHANGED <<l2Accesses, l2Hits>>
            \/ l2Accesses' = l2Accesses + 1 /\ (l2Hits' = l2Hits + 1 \/ l2Hits' = l2Hits)
        BY <1>6 DEF Lookup, LookupL1Hit, LookupL2Hit, LookupL2Miss
      <4> QED BY <3>1, <4>1, <4>2
    <3>3. CASE t \notin AllDemanded
      <4>1. ~Resident(t)
        BY <3>3 DEF MissInv
      <4>2. ~Contains(L1Set(c, t), t)
        <5>1. SetIndex(L1Config, t) \in SetIndices(L1Config) /\ t \notin demanded[c]
          BY <3>3, CachesHaveSets DEF AllDemanded
        <5> QED BY <5>1 DEF MissInv, L1Set, Contains
      <4>3. l2Accesses' = l2Accesses + 1 /\ l2Hits' = l2Hits
        BY <1>6, <4>1, <4>2 DEF Lookup, LookupL1Hit, LookupL2Hit, LookupL2Miss
      <4>4. Cardinality(AllDemanded') = Cardinality(AllDemanded) + 1
        BY <2>2, <2>3, <3>3, FS_AddElement
      <4> QED BY <3>1, <4>3, <4>4
    <3> QED BY <3>2, <3>3
  <2> QED BY <2>1, <2>2, <2>4, <2>5, <2>6, <2>7 DEF MissInv
<1> QED BY <1>4, <1>5, <1>6 DEF Next

(* With no pins the victim is the back of order_.                          *)
LEMMA VictimIsTheLast ==
  ASSUME NEW order \in Seq(Tags), order # <<>>
  PROVE  Victim(order, NoPins) = Len(order)
<1>1. PICK n \in Nat \ {0} : n = Len(order) /\ DOMAIN order = 1 .. n
  OBVIOUS
<1>2. {i \in DOMAIN order : NoPins[order[i]] = 0} = 1 .. n
  BY <1>1 DEF NoPins
<1>3. Victim(order, NoPins) = Max(1 .. n)
  <2>1. 1 .. n # {}
    <3>1. 1 \in 1 .. n
      BY <1>1
    <3> QED BY <3>1
  <2> DEFINE free == {i \in DOMAIN order : NoPins[order[i]] = 0}
  <2>2. Victim(order, NoPins) = IF free # {} THEN Max(free)
          ELSE CHOOSE i \in DOMAIN order :
                 \A j \in DOMAIN order : NoPins[order[i]] <= NoPins[order[j]]
    BY DEF Victim
  <2>3. free = 1 .. n
    BY <1>2
  <2> HIDE DEF free
  <2> QED BY <2>1, <2>2, <2>3
<1>4. Max(1 .. n) = n
  <2>1. n \in 1 .. n /\ \A y \in 1 .. n : n >= y
    BY <1>1
  <2>2. \A x \in 1 .. n : (\A y \in 1 .. n : x >= y) => x = n
    BY <1>1
  <2> QED BY <2>1, <2>2 DEF Max
<1> QED BY <1>1, <1>3, <1>4

(* A fill touches one line, with the newest stamp of its set; the line it  *)
(* takes away was touched before all that stay.                            *)
LEMMA FillKeepsTouches ==
  ASSUME TypeOK, RecencyInv, RecencyInv', SetsAreWellFormed, TouchInv, Fill
  PROVE  TouchInv'
<1>1. PICK t \in Tags : t = Head(pendingFills)
  BY FillType
<1>2. PICK s \in SetIndices(L2Config) : s = SetIndex(L2Config, t)
  BY CachesHaveSets
<1>3. PICK order \in Seq(Tags) : order = l2[s]
  BY DEF TypeOK
<1>4. PICK ways \in Nat \ {0} : ways = Ways(L2Config)
  BY CachesHaveSets
<1>5. PICK now \in Nat : now = clock[s]
  BY DEF TypeOK
<1>6. /\ l2' = [l2 EXCEPT ![s] = InsertOrTouch(order, ways, t, pins)]
      /\ stamp' = Restamp(stamp, order, ways, t, pins, now)
      /\ clock' = [clock EXCEPT ![s] = now + 1]
      /\ lastTouch' = [lastTouch EXCEPT ![t] = now + 1]
      /\ UNCHANGED <<sameTickPinning, pins>>
  BY <1>1, <1>2, <1>3, <1>4, <1>5 DEF Fill, switches
<1>7. /\ l2 \in [SetIndices(L2Config) -> Seq(Tags)]
      /\ clock \in [SetIndices(L2Config) -> Nat]
      /\ stamp \in [Tags -> Nat] /\ lastTouch \in [Tags -> Nat] /\ pins \in [Tags -> Nat]
  BY DEF TypeOK
<1>8. /\ \A u \in Tags : lastTouch[u] <= clock[SetIndex(L2Config, u)]
      /\ \A u \in Tags : Resident(u) => lastTouch[u] = stamp[u]
      /\ \A u \in Tags : SetIndex(L2Config, u) \in SetIndices(L2Config)
  BY CachesHaveSets DEF TouchInv
<1>9. \A u \in Tags : lastTouch'[u] <= clock'[SetIndex(L2Config, u)]
  <2> SUFFICES ASSUME NEW u \in Tags
               PROVE  lastTouch'[u] <= clock'[SetIndex(L2Config, u)]
    OBVIOUS
  <2>1. PICK r \in SetIndices(L2Config) : r = SetIndex(L2Config, u)
    BY <1>8
  <2>2. lastTouch[u] \in Nat /\ clock[r] \in Nat /\ lastTouch[u] <= clock[r]
    BY <1>7, <1>8, <2>1
  <2>3. u = t => r = s
    BY <1>2, <2>1
  <2> QED BY <1>5, <1>6, <1>7, <2>1, <2>2, <2>3
<1>10. \A u \in Tags : Resident(u)' => lastTouch'[u] = stamp'[u]
  <2> SUFFICES ASSUME NEW u \in Tags, Resident(u)' PROVE lastTouch'[u] = stamp'[u]
    OBVIOUS
  <2>1. stamp'[u] # 0 /\ (stamp[u] # 0 => Resident(u))
    BY DEF RecencyInv, RecencyIsStampOrder
  <2>2. IF u = t THEN stamp'[u] = now + 1 ELSE stamp'[u] \in {0, stamp[u]}
    BY <1>6, <1>7 DEF Restamp
  <2> QED BY <1>6, <1>7, <1>8, <2>1, <2>2
<1>11. ~sameTickPinning' => pins' = NoPins
  BY <1>6 DEF TouchInv
<1>12. ASSUME ~sameTickPinning, NEW u \in Tags, lastTouch'[u] # 0, ~Resident(u)'
       PROVE  LET r == SetIndex(L2Config, u)
              IN  /\ Len(l2'[r]) = ways
                  /\ \A i \in DOMAIN l2'[r] : lastTouch'[l2'[r][i]] > lastTouch'[u]
  <2>1. PICK v : v = l2[s][Victim(l2[s], pins)]
    OBVIOUS
  <2>2. /\ Resident(t) => Lines' = Lines
        /\ ~Resident(t) /\ Len(order) < ways => Lines' = Lines \cup {t}
        /\ ~Resident(t) /\ ~(Len(order) < ways) =>
             /\ Len(order) = ways /\ order # <<>> /\ Lines' = (Lines \ {v}) \cup {t}
    BY <1>1, <1>2, <1>3, <1>4, <2>1, FillLines
  <2>3. /\ u \notin Lines' /\ t \in Lines'
        /\ \A w \in Tags : w \in Lines <=> Resident(w)
        /\ \A w \in Tags : w \in Lines' <=> Resident(w)'
    BY <1>12, <2>2 DEF Lines
  <2>4. u # t /\ lastTouch'[u] = lastTouch[u] /\ lastTouch[u] # 0
    BY <1>6, <1>7, <1>12, <2>3
  <2>5. ~Resident(u) => LET old == l2[SetIndex(L2Config, u)]
                        IN  /\ Len(old) = ways
                            /\ \A i \in DOMAIN old : lastTouch[old[i]] > lastTouch[u]
    BY <1>4, <1>12, <2>4 DEF TouchInv, ExactLru
  <2>6. CASE SetIndex(L2Config, u) # s
    <3>1. PICK r \in SetIndices(L2Config) : r = SetIndex(L2Config, u)
      BY <1>8
    <3>2. l2'[r] = l2[r] /\ r # s
      BY <1>6, <1>7, <2>6, <3>1
    <3>3. ~Resident(u)
      BY <1>12, <3>1, <3>2 DEF Resident
    <3>4. \A i \in DOMAIN l2[r] : l2[r][i] \in Tags /\ l2[r][i] # t
      BY <1>2, <1>7, <3>1, <3>2 DEF RecencyInv, L2Partitioned
    <3>5. \A i \in DOMAIN l2[r] : lastTouch'[l2[r][i]] = lastTouch[l2[r][i]]
      BY <1>6, <1>7, <3>4
    <3> QED BY <2>4, <2>5, <3>1, <3>2, <3>3, <3>5
  <2>7. CASE SetIndex(L2Config, u) = s
    <3>1. pins = NoPins
      BY <1>12 DEF TouchInv
    <3>2. ASSUME Resident(u)
          PROVE  /\ Len(order) = ways /\ order # <<>> /\ u = order[Len(order)]
      <4>1. ~Resident(t) /\ ~(Len(order) < ways) /\ u = v
        BY <2>2, <2>3, <3>2
      <4> QED BY <1>3, <2>1, <2>2, <3>1, <4>1, VictimIsTheLast
    <3>3. Len(order) = ways
      BY <1>3, <2>5, <2>7, <3>2
    <3>4. l2'[s] = InsertOrTouch(order, ways, t, pins) /\ l2'[s] \in Seq(Tags)
      BY <1>6, <1>7, InsertOrTouchElements
    <3>5. Len(l2'[s]) = ways
      <4>1. FreedPosition(order, ways, t, pins) # 0
        <5>1. Len(order) >= ways
          BY <3>3
        <5> QED BY <1>7, <5>1, FreedPositionType
      <4>2. Len(InsertOrTouch(order, ways, t, pins)) = Len(order)
        BY <1>7, <4>1, InsertOrTouchElements
      <4> QED BY <3>3, <3>4, <4>2
    <3>6. ASSUME NEW i \in DOMAIN l2'[s] PROVE lastTouch'[l2'[s][i]] > lastTouch'[u]
      <4>1. PICK w \in Tags : w = l2'[s][i]
        BY <3>4
      <4>2. Resident(w)' /\ SetIndex(L2Config, w) = s
        <5>1. SetIndex(L2Config, w) = s
          BY <4>1 DEF RecencyInv, L2Partitioned
        <5> QED BY <4>1, <5>1 DEF Resident, Contains
      <4>3. lastTouch[u] \in Nat /\ lastTouch[u] <= now
        BY <1>5, <1>7, <1>8, <2>7
      <4>4. CASE w = t
        BY <1>6, <1>7, <2>4, <4>1, <4>3, <4>4
      <4>5. CASE w # t
        <5>1. Resident(w) /\ w # u
          BY <2>2, <2>3, <4>2, <4>5
        <5>2. PICK j \in DOMAIN order : order[j] = w
          BY <1>3, <4>2, <5>1 DEF Resident, Contains
        <5>3. lastTouch'[w] = lastTouch[w]
          BY <1>6, <1>7, <4>5
        <5>4. CASE ~Resident(u)
          BY <1>3, <2>4, <2>5, <2>7, <4>1, <5>2, <5>3, <5>4
        <5>5. CASE Resident(u)
          <6>1. u = order[Len(order)] /\ j < Len(order) /\ Len(order) \in DOMAIN order
            BY <3>2, <5>1, <5>2, <5>5
          <6>2. stamp[w] > stamp[u]
            BY <1>3, <5>2, <6>1 DEF RecencyInv, RecencyIsStampOrder
          <6> QED BY <1>8, <2>4, <4>1, <5>1, <5>3, <5>5, <6>2
        <5> QED BY <5>4, <5>5
      <4> QED BY <4>4, <4>5
    <3> QED BY <2>7, <3>5, <3>6
  <2> QED BY <2>6, <2>7
<1>13. ExactLru'
  BY <1>4, <1>6, <1>12 DEF ExactLru
<1> QED BY <1>9, <1>10, <1>11, <1>13 DEF TouchInv

(* Only a fill touches L2; a pin is only ever set with the option on.      *)
LEMMA TouchStep ==
  TypeOK /\ RecencyInv /\ RecencyInv' /\ SetsAreWellFormed /\ TouchInv /\ [Next]_vars
    => TouchInv'
<1> SUFFICES ASSUME TypeOK, RecencyInv, RecencyInv', SetsAreWellFormed, TouchInv, [Next]_vars
             PROVE  TouchInv'
  OBVIOUS
<1>1. CASE Fill
  BY <1>1, FillKeepsTouches
<1>2. CASE UNCHANGED l2vars
  <2>1. UNCHANGED sameTickPinning
    BY DEF Next, vars, switches, BeginTick, RejectTick, Lookup, LookupL1Hit, LookupL2Hit,
           LookupL2Miss, AccessL1, NextCore, Fill, EndTick, Finished
  <2>2. ~sameTickPinning => pins' \in {pins, NoPins}
    BY DEF Next, vars, switches, BeginTick, RejectTick, Lookup, LookupL1Hit, LookupL2Hit,
           LookupL2Miss, AccessL1, NextCore, Fill, EndTick, Finished
  <2>3. UNCHANGED <<l2, stamp, clock, lastTouch>> /\ \A t : Resident(t)' = Resident(t)
    BY <1>2 DEF l2vars, Resident
  <2> QED BY <2>1, <2>2, <2>3 DEF TouchInv, ExactLru
<1> QED BY <1>1, <1>2, OnlyFillChangesL2

(* With any number of cores, whatever they access: L2 counts exactly what  *)
(* missed the L1s, reports a miss for every line at least, and without     *)
(* pinning evicts the line touched longest ago.                            *)
THEOREM LruCorrect == Spec => []L2IsAnLruCache
<1>1. Init => L2TrafficIsL1Misses
  <2> SUFFICES ASSUME Init PROVE L2TrafficIsL1Misses
    OBVIOUS
  <2> DEFINE zero == [c \in Cores |-> 0]
  <2>1. l1Accesses = zero /\ l1Hits = zero /\ l2Accesses = 0 /\ l2Hits = 0
    BY DEF Init
  <2>2. SumFunction(zero) \in Nat
    <3>1. \A c \in Cores : zero[c] \in Nat
      OBVIOUS
    <3>2. DOMAIN zero = Cores /\ IsFiniteSet(Cores)
      BY HierarchyAssumption
    <3> HIDE DEF zero
    <3> QED BY <3>1, <3>2, SumType DEF SumFunction
  <2>3. \A c \in Cores : zero[c] <= zero[c]
    OBVIOUS
  <2> HIDE DEF zero
  <2> QED BY <2>1, <2>2, <2>3 DEF L2TrafficIsL1Misses
<1>2. Init => MissInv
  <2> SUFFICES ASSUME Init PROVE MissInv
    OBVIOUS
  <2>1. AllDemanded = {}
    BY DEF Init, AllDemanded
  <2>2. /\ \A c \in Cores : \A s \in SetIndices(L1Config) : l1[c][s] = <<>>
        /\ \A t \in Tags : ~Resident(t)
        /\ pendingFills = <<>> /\ l2Accesses = 0 /\ l2Hits = 0
    BY CachesHaveSets DEF Init, Resident, Contains
  <2>3. IsFiniteSet({}) /\ Cardinality({}) = 0
    BY FS_EmptySet
  <2>4. CompulsoryMisses
    <3>1. Cardinality(AllDemanded) = 0
      BY <2>1, <2>3
    <3>2. l2Accesses - l2Hits >= Cardinality(AllDemanded)
      BY <2>2, <3>1
    <3> QED BY <3>2 DEF CompulsoryMisses, AllDemanded
  <2>5. DOMAIN <<>> = {}
    OBVIOUS
  <2>6. \A c \in Cores : \A s \in SetIndices(L1Config) : DOMAIN l1[c][s] = {}
    BY <2>2, <2>5
  <2>7. DOMAIN pendingFills = {}
    BY <2>2, <2>5
  <2> QED BY <2>1, <2>2, <2>3, <2>4, <2>6, <2>7 DEF MissInv
<1>3. Init => TouchInv
  <2> SUFFICES ASSUME Init PROVE TouchInv
    OBVIOUS
  <2>1. \A t \in Tags : ~Resident(t) /\ lastTouch[t] = 0
                        /\ clock[SetIndex(L2Config, t)] = 0
    BY CachesHaveSets DEF Init, Resident, Contains, NoPins
  <2>2. pins = NoPins
    BY DEF Init
  <2> QED BY <2>1, <2>2 DEF TouchInv, ExactLru
<1>4. Spec => [](TypeOK /\ RecencyInv /\ SetsAreWellFormed)
  BY RecencyInit, RecencyStep, TypeCorrect, SetsCorrect, PTL DEF Spec
<1>5. L2TrafficIsL1Misses /\ MissInv /\ TouchInv => L2IsAnLruCache
  BY DEF MissInv, TouchInv, L2IsAnLruCache
<1> QED BY <1>1, <1>2, <1>3, <1>4, <1>5, TrafficStep, MissStep, TouchStep, PTL DEF Spec

-----------------------------------------------------------------------------
(* The numbering of the lines of a layer.                                  *)


(* The radices of a layer are positive. *)
LEMMA RadicesArePositive ==
  ASSUME NEW shape \in Shapes
  PROVE  /\ shape.kh \in Nat \ {0} /\ shape.kw \in Nat \ {0}
         /\ HybridCinLines(shape) \in Nat \ {0} /\ HybridCoutLines(shape) \in Nat \ {0}
<1>1. /\ shape.kh \in Nat \ {0} /\ shape.kw \in Nat \ {0}
      /\ shape.cin \in Nat \ {0} /\ shape.cout \in Nat \ {0}
  BY DEF Shapes
<1> QED BY <1>1, BlocksCoverTheBound, LayoutAssumption DEF HybridCinLines, HybridCoutLines

(* Every weight of a layer lies in one of the lines counted, a block that  *)
(* is not full being counted too (layout.h:58, 113).                       *)
THEOREM WeightsLieInLines ==
  ASSUME NEW shape \in Shapes, NEW e \in Elements(shape)
  PROVE  TagForElement(e) \in CacheLines(shape)
<1>1. /\ e.kh \in 0 .. shape.kh - 1 /\ e.kw \in 0 .. shape.kw - 1
      /\ e.cin \in 0 .. shape.cin - 1 /\ e.cout \in 0 .. shape.cout - 1
  BY DEF Elements
<1>2. shape.cin \in Nat \ {0} /\ shape.cout \in Nat \ {0}
  BY DEF Shapes
<1>3. e.cin \div CinBlock \in 0 .. HybridCinLines(shape) - 1
  BY <1>1, <1>2, BlocksCoverTheBound, LayoutAssumption DEF HybridCinLines
<1>4. e.cout \div CoutBlock \in 0 .. HybridCoutLines(shape) - 1
  BY <1>1, <1>2, BlocksCoverTheBound, LayoutAssumption DEF HybridCoutLines
<1> QED BY <1>1, <1>3, <1>4 DEF TagForElement, CacheLines

-----------------------------------------------------------------------------
(* A tag read from its digits, outermost first: with the block of output   *)
(* channels left off it numbers the rows of lines.                         *)
KernelDigits(shape, tag) == tag.kh * shape.kw + tag.kw

RowDigits(shape, tag) == KernelDigits(shape, tag) * HybridCinLines(shape) + tag.cin

(* Each part of a tag is a number below the product of its radices.        *)
LEMMA DigitsAreInRange ==
  ASSUME NEW shape \in Shapes, NEW tag \in CacheLines(shape)
  PROVE  /\ KernelDigits(shape, tag) \in 0 .. shape.kh * shape.kw - 1
         /\ RowDigits(shape, tag) \in 0 .. shape.kh * shape.kw * HybridCinLines(shape) - 1
         /\ tag.kw \in 0 .. shape.kw - 1
         /\ tag.cin \in 0 .. HybridCinLines(shape) - 1
         /\ tag.cout \in 0 .. HybridCoutLines(shape) - 1
         /\ Pack(shape, tag) = RowDigits(shape, tag) * HybridCoutLines(shape) + tag.cout
<1>1. /\ tag.kh \in 0 .. shape.kh - 1 /\ tag.kw \in 0 .. shape.kw - 1
      /\ tag.cin \in 0 .. HybridCinLines(shape) - 1
      /\ tag.cout \in 0 .. HybridCoutLines(shape) - 1
  BY DEF CacheLines
<1>2. KernelDigits(shape, tag) \in 0 .. shape.kh * shape.kw - 1
  BY <1>1, TwoDigits, RadicesArePositive DEF KernelDigits
<1>3. RowDigits(shape, tag) \in 0 .. shape.kh * shape.kw * HybridCinLines(shape) - 1
  <2>1. PICK limit \in Nat : limit = shape.kh * shape.kw
    BY RadicesArePositive
  <2>2. KernelDigits(shape, tag) \in 0 .. limit - 1
    BY <1>2, <2>1
  <2>3. RowDigits(shape, tag) \in 0 .. limit * HybridCinLines(shape) - 1
    BY <1>1, <2>2, TwoDigits, RadicesArePositive DEF RowDigits
  <2> QED BY <2>1, <2>3
<1> QED BY <1>1, <1>2, <1>3 DEF Pack, KernelDigits, RowDigits

(* The tags of a layer are numbers below the number of its lines, so that  *)
(* set indices spread over the lines there are (layout.h:101, 124).        *)
THEOREM TagsAreBelowTheLineCount ==
  ASSUME NEW shape \in Shapes, NEW tag \in CacheLines(shape)
  PROVE  Pack(shape, tag) \in
           0 .. shape.kh * shape.kw * HybridCinLines(shape) * HybridCoutLines(shape) - 1
<1>1. PICK limit \in Nat : limit = shape.kh * shape.kw * HybridCinLines(shape)
  BY RadicesArePositive
<1>2. RowDigits(shape, tag) \in 0 .. limit - 1
  BY <1>1, DigitsAreInRange
<1>3. RowDigits(shape, tag) * HybridCoutLines(shape) + tag.cout \in
        0 .. limit * HybridCoutLines(shape) - 1
  BY <1>2, DigitsAreInRange, TwoDigits, RadicesArePositive
<1> QED BY <1>1, <1>3, DigitsAreInRange

(* Two lines of a layer never share a tag: the caches, which see nothing   *)
(* but the packed number, take no line for another (layout.h:101).         *)
THEOREM PackIsInjective ==
  ASSUME NEW shape \in Shapes, NEW a \in CacheLines(shape), NEW b \in CacheLines(shape),
         Pack(shape, a) = Pack(shape, b)
  PROVE  a = b
<1>1. RowDigits(shape, a) = RowDigits(shape, b) /\ a.cout = b.cout
  <2>1. /\ RowDigits(shape, a) \in Nat /\ RowDigits(shape, b) \in Nat
        /\ HybridCoutLines(shape) \in Nat
    BY DigitsAreInRange, RadicesArePositive
  <2> QED BY <2>1, DigitsAreInRange, DigitsAreUnique
<1>2. KernelDigits(shape, a) = KernelDigits(shape, b) /\ a.cin = b.cin
  <2>1. /\ KernelDigits(shape, a) \in Nat /\ KernelDigits(shape, b) \in Nat
        /\ HybridCinLines(shape) \in Nat
    BY DigitsAreInRange, RadicesArePositive
  <2> QED BY <1>1, <2>1, DigitsAreInRange, DigitsAreUnique DEF RowDigits
<1>3. a.kh = b.kh /\ a.kw = b.kw
  <2>1. /\ a.kh \in Nat /\ b.kh \in Nat /\ shape.kw \in Nat
        /\ a.kw \in 0 .. shape.kw - 1 /\ b.kw \in 0 .. shape.kw - 1
    BY RadicesArePositive DEF CacheLines
  <2>2. a.kh * shape.kw + a.kw = b.kh * shape.kw + b.kw
    BY <1>2 DEF KernelDigits
  <2> QED BY ONLY <2>1, <2>2, DigitsAreUnique
<1> QED BY <1>1, <1>2, <1>3 DEF CacheLines

(* The last digit of a tag is its block of output channels, and where that *)
(* is not the last, the tag plus one is the tag of the next block of the   *)
(* same row: the next line L2 prefetches (hierarchy.h:194) and what        *)
(* HierarchyAssumption takes for granted of Tags.                          *)
THEOREM NextBlockIsNextTag ==
  ASSUME NEW shape \in Shapes, NEW tag \in CacheLines(shape)
  PROVE  /\ Pack(shape, tag) % HybridCoutLines(shape) = tag.cout
         /\ (Pack(shape, tag) % HybridCoutLines(shape)) + 1 < HybridCoutLines(shape) =>
              /\ [tag EXCEPT !.cout = tag.cout + 1] \in CacheLines(shape)
              /\ Pack(shape, [tag EXCEPT !.cout = tag.cout + 1]) = Pack(shape, tag) + 1
<1> DEFINE next == [tag EXCEPT !.cout = tag.cout + 1]
<1>1. Pack(shape, tag) % HybridCoutLines(shape) = tag.cout
  <2>1. /\ RowDigits(shape, tag) \in Nat /\ HybridCoutLines(shape) \in Nat \ {0}
        /\ tag.cout \in 0 .. HybridCoutLines(shape) - 1
    BY DigitsAreInRange, RadicesArePositive
  <2>2. (RowDigits(shape, tag) * HybridCoutLines(shape) + tag.cout) % HybridCoutLines(shape)
          = tag.cout
    BY ONLY <2>1, LastDigit
  <2> QED BY <2>2, DigitsAreInRange, Zenon
<1>2. ASSUME tag.cout + 1 < HybridCoutLines(shape)
      PROVE  next \in CacheLines(shape) /\ Pack(shape, next) = Pack(shape, tag) + 1
  <2>1. tag.cout + 1 \in 0 .. HybridCoutLines(shape) - 1
    BY <1>2, DigitsAreInRange, RadicesArePositive
  <2>2. next \in CacheLines(shape)
    BY <2>1 DEF CacheLines
  <2>3. RowDigits(shape, next) = RowDigits(shape, tag) /\ next.cout = tag.cout + 1
    BY DEF CacheLines, RowDigits, KernelDigits
  <2>4. /\ Pack(shape, tag) = RowDigits(shape, tag) * HybridCoutLines(shape) + tag.cout
        /\ Pack(shape, next) = RowDigits(shape, next) * HybridCoutLines(shape) + next.cout
    BY <2>2, DigitsAreInRange
  <2>5. RowDigits(shape, tag) * HybridCoutLines(shape) \in Int /\ tag.cout \in Int
    BY DigitsAreInRange, RadicesArePositive
  <2> HIDE DEF next
  <2> QED BY <2>2, <2>3, <2>4, <2>5
<1> QED BY <1>1, <1>2
=============================================================================
