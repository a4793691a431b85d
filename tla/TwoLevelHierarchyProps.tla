----------------------- MODULE TwoLevelHierarchyProps -----------------------
(***************************************************************************)
(* What the two-level replay must and must not do.                         *)
(***************************************************************************)
EXTENDS TwoLevelHierarchy

(* The state stays within its types; stamps and pins are 0 or a clock      *)
(* value.                                                                  *)
TypeOK ==
  /\ l2Prefetch \in BOOLEAN /\ sameTickPinning \in BOOLEAN
  /\ phase \in {"idle", "tick", "failed"}
  /\ cores \in Seq(Cores)
  /\ l1 \in [Cores -> [SetIndices(L1Config) -> Seq(Tags)]]
  /\ l2 \in [SetIndices(L2Config) -> Seq(Tags)]
  /\ stamp \in [Tags -> Nat]
  /\ clock \in [SetIndices(L2Config) -> Nat]
  /\ pendingFills \in Seq(Tags)
  /\ pins \in [Tags -> Nat]
  /\ l1Accesses \in [Cores -> Nat] /\ l1Hits \in [Cores -> Nat]
  /\ l2Accesses \in Nat /\ l2Hits \in Nat
  /\ tick \in Nat
  /\ snapshot \in [Tags -> Nat]
  /\ demanded \in [Cores -> SUBSET Tags]
  /\ lastTouch \in [Tags -> Nat]

(* "Recency order IS stamp order" (policy.h:53), the fact choose_victim's  *)
(* overflow fallback rests on: walking a set from MRU to LRU the stamps    *)
(* strictly fall, none is ahead of the set's clock, and order_ and map_    *)
(* hold the same lines.                                                    *)
RecencyIsStampOrder ==
  /\ \A s \in SetIndices(L2Config) :
       /\ \A i, j \in DOMAIN l2[s] : i < j => stamp[l2[s][i]] > stamp[l2[s][j]]
       /\ \A i \in DOMAIN l2[s] : stamp[l2[s][i]] \in 1 .. clock[s]
  /\ \A t \in Tags : stamp[t] # 0 <=> Resident(t)

(* No set of any cache ever holds more lines than it has ways, a line      *)
(* twice, or a line of another set.                                        *)
GoodSet(order, cfg, s) ==
  /\ Len(order) <= Ways(cfg)
  /\ \A i, j \in DOMAIN order : order[i] = order[j] => i = j
  /\ \A i \in DOMAIN order : SetIndex(cfg, order[i]) = s

SetsAreWellFormed ==
  /\ \A s \in SetIndices(L2Config) : GoodSet(l2[s], L2Config, s)
  /\ \A c \in Cores : \A s \in SetIndices(L1Config) :
       GoodSet(l1[c][s], L1Config, s)

(* A pin carries the recency its line had when the tick began, however     *)
(* many cores hit the line and whatever the fills have done since          *)
(* (hierarchy.h:100-104, policy.h:49-51).                                  *)
PinsCarryTheSnapshot ==
  /\ phase = "tick" =>
       \A t \in Tags : Pinned(t) => sameTickPinning /\ pins[t] = snapshot[t]
  /\ InLookup => snapshot = stamp

(* L2 sees exactly the accesses that missed an L1 (stats.py:30), and the   *)
(* hit rate is never above 1 at either level.                              *)
L2TrafficIsL1Misses ==
  /\ l2Accesses = SumFunction(l1Accesses) - SumFunction(l1Hits)
  /\ l2Hits <= l2Accesses
  /\ \A c \in Cores : l1Hits[c] <= l1Accesses[c]

(* Without prefetching the first access to a line anywhere is an L2 miss,  *)
(* and so is every first access to it by another core in the same tick: L2 *)
(* never reports fewer misses than distinct lines.                         *)
CompulsoryMisses ==
  ~l2Prefetch =>
     l2Accesses - l2Hits >= Cardinality(UNION {demanded[c] : c \in Cores})

(* Without pinning L2 is exact LRU over its fill stream: the lines of a    *)
(* set are the ones filled last, and none is missing while there is room.  *)
ExactLru ==
  ~sameTickPinning =>
    \A t \in Tags : lastTouch[t] # 0 /\ ~Resident(t) =>
      LET order == l2[SetIndex(L2Config, t)]
      IN  /\ Len(order) = Ways(L2Config)
          /\ \A i \in DOMAIN order : lastTouch[order[i]] > lastTouch[t]

(* The statistics of the replay are those of two levels of cache: with the *)
(* one option off no hit is made up, with the other off none is lost.      *)
L2IsAnLruCache == L2TrafficIsL1Misses /\ CompulsoryMisses /\ ExactLru

(* A pinned line that a fill evicts was, of all the lines then in its set, *)
(* the one closest to LRU before this tick's touches, and every line of    *)
(* the set was pinned (log/2026-08-03-l1-l2-cache-policy-plan.md:69-75).   *)
OverflowTakesPreTickLru ==
  [][\A t \in Tags :
       Pinned(t) /\ InFill /\ Resident(t) /\ ~Resident(t)' =>
         LET order == l2[SetIndex(L2Config, t)]
         IN  \A i \in DOMAIN order :
               Pinned(order[i]) /\ snapshot[t] <= snapshot[order[i]]]_vars

(* The same sentence read for the whole of L2, as the plan words it: "if   *)
(* every resident line in L2 is pinned this tick".                         *)
OverflowOnlyWhenL2AllPinned ==
  [][\A t \in Tags :
       Pinned(t) /\ InFill /\ Resident(t) /\ ~Resident(t)' =>
         \A u \in Tags : Resident(u) => Pinned(u)]_vars

(* The shared L2 keeps the contract of module L2Contract.                  *)
Contract ==
  INSTANCE L2Contract WITH
    SetOf       <- [t \in Tags |-> SetIndex(L2Config, t)],
    Neighbours  <- [t \in Tags |->
                      IF (t + 1) % CoutLines = 0 THEN {} ELSE {t + 1}],
    Capacity    <- Ways(L2Config),
    protecting  <- sameTickPinning,
    prefetching <- l2Prefetch,
    filling     <- InFill,
    lines       <- {t \in Tags : Resident(t)},
    protected   <- IF phase = "tick" THEN {t \in Tags : Pinned(t)} ELSE {},
    owed        <- IF phase = "tick" THEN ToSet(pendingFills) ELSE {},
    hits        <- l2Hits,
    accesses    <- l2Accesses

KeepsL2Contract == Contract!ContractSpec
=============================================================================
