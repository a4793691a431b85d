-------------------------- MODULE TwoLevelHierarchy --------------------------
(***************************************************************************)
(* The two-level cache replay (hierarchy.h): one private L1 per core and   *)
(* one shared L2, driven one tick at a time.  run_tick has two phases.  In *)
(* the lookup phase every access of every core is resolved, L1s are filled *)
(* in place, and L2 is only asked whether a line is resident.  In the fill *)
(* phase the L2 updates collected on the way are replayed in order.        *)
(*                                                                         *)
(* One action is one iteration of one of run_tick's loops.  A tick's       *)
(* requests are inputs: the list of core ids is chosen when the tick       *)
(* begins, each next tag of the current core when it is read.              *)
(***************************************************************************)
EXTENDS LruPolicy

CONSTANTS
  Cores,        \* the core ids a trace may name
  CoreLists,    \* the core id lists a tick may carry, sorted or not
  Tags,         \* the packed line tags of the layer
  CoutLines,    \* hybrid_cout_lines: innermost radix of a packed tag
  L1Config, L2Config,
  MaxTicks,     \* bound: ticks in the trace
  MaxAccesses   \* bound: accesses per core over the whole trace

ASSUME HierarchyAssumption ==
  /\ Cores \subseteq Nat
  /\ IsFiniteSet(Cores)
  /\ CoreLists \subseteq Seq(Cores)
  /\ CoutLines \in Nat \ {0}
  /\ Tags \subseteq Nat
  /\ \A t \in Tags : (t % CoutLines) + 1 < CoutLines => t + 1 \in Tags
  /\ L1Config \in CacheConfigs
  /\ L2Config \in CacheConfigs

VARIABLES
  l2Prefetch, sameTickPinning,  \* the two switches of the constructor
  phase,        \* "idle" between ticks, "tick" inside run_tick, "failed"
  cores,        \* the core ids of this tick still to be looked up
  l1,           \* core -> set index -> order_ of that set
  l2,           \* set index -> order_ of that set
  stamp,        \* L2: tag -> recency stamp in map_, 0 when not resident
  clock,        \* L2: set index -> clock_
  pendingFills, \* L2 updates this tick still owes, in order
  pins,         \* tag -> stamp it was pinned with, 0 when not pinned
  l1Accesses, l1Hits, l2Accesses, l2Hits,
  tick,         \* ticks begun (the bound MaxTicks)
  snapshot,     \* history: the L2 stamps when the tick began
  demanded,     \* history: core -> tags it has accessed
  lastTouch     \* history: tag -> stamp of its last L2 insert or touch

switches == <<l2Prefetch, sameTickPinning>>
l2vars   == <<l2, stamp, clock, lastTouch>>
stats    == <<l1Accesses, l1Hits, l2Accesses, l2Hits>>
vars     == <<switches, phase, cores, l1, l2vars, pendingFills, pins, stats,
              tick, snapshot, demanded>>

NoPins == [t \in Tags |-> 0]

Resident(t) == Contains(l2[SetIndex(L2Config, t)], t)

Pinned(t) == pins[t] # 0

-----------------------------------------------------------------------------
Init ==
  /\ l2Prefetch \in BOOLEAN /\ sameTickPinning \in BOOLEAN
  /\ phase = "idle" /\ cores = <<>>
  /\ l1 = [c \in Cores |-> [s \in SetIndices(L1Config) |-> <<>>]]
  /\ l2 = [s \in SetIndices(L2Config) |-> <<>>]
  /\ stamp = NoPins
  /\ clock = [s \in SetIndices(L2Config) |-> 0]
  /\ pendingFills = <<>> /\ pins = NoPins
  /\ l1Accesses = [c \in Cores |-> 0] /\ l1Hits = [c \in Cores |-> 0]
  /\ l2Accesses = 0 /\ l2Hits = 0
  /\ tick = 0
  /\ snapshot = NoPins
  /\ demanded = [c \in Cores |-> {}]
  /\ lastTouch = NoPins

StrictlyAscending(ids) ==
  \A i \in DOMAIN ids : i > 1 => ids[i-1] < ids[i]

(* run_tick accepts a sorted core list and clears last tick's leftovers.   *)
BeginTick(ids) ==
  /\ phase = "idle" /\ tick < MaxTicks
  /\ StrictlyAscending(ids)
  /\ phase' = "tick" /\ cores' = ids
  /\ pendingFills' = <<>> /\ pins' = NoPins
  /\ tick' = tick + 1
  /\ snapshot' = stamp
  /\ UNCHANGED <<switches, l1, l2vars, stats, demanded>>

(* run_tick throws on an unsorted core list, before it has changed         *)
(* anything; the replay ends.                                              *)
RejectTick(ids) ==
  /\ phase = "idle" /\ tick < MaxTicks
  /\ ~StrictlyAscending(ids)
  /\ phase' = "failed"
  /\ UNCHANGED <<switches, cores, l1, l2vars, pendingFills, pins, stats, tick,
                 snapshot, demanded>>

-----------------------------------------------------------------------------
(* Lookup phase.                                                           *)

InLookup == phase = "tick" /\ cores # <<>>

L1Set(c, t) == l1[c][SetIndex(L1Config, t)]

PrefetchTarget(t) == IF (t % CoutLines) + 1 < CoutLines THEN t + 1 ELSE -1

(* What every access does, hit or miss: core c's L1 counts it, and inserts *)
(* the line or moves it to the front.                                      *)
AccessL1(c, t) ==
  /\ InLookup /\ c = Head(cores)
  /\ l1Accesses[c] < MaxAccesses
  /\ l1Accesses' = [l1Accesses EXCEPT ![c] = @ + 1]
  /\ l1' = [l1 EXCEPT ![c][SetIndex(L1Config, t)] =
              InsertOrTouch(@, Ways(L1Config), t, NoPins)]
  /\ demanded' = [demanded EXCEPT ![c] = @ \cup {t}]
  /\ UNCHANGED <<switches, phase, cores, tick, snapshot>>

(* An L1 hit goes no further. *)
LookupL1Hit(c, t) ==
  /\ AccessL1(c, t)
  /\ Contains(L1Set(c, t), t)
  /\ l1Hits' = [l1Hits EXCEPT ![c] = @ + 1]
  /\ UNCHANGED <<l2vars, pendingFills, pins, l2Accesses, l2Hits>>

(* Deviation: the pin carries the clock of the set, not the line's stamp. *)
ClockStamp(t) == clock[SetIndex(L2Config, t)]

(* stamp_if_present of a resident line. *)
PinStamp(t) == stamp[t]

(* An L1 miss that finds its line in L2: the line is pinned with the stamp *)
(* it has now, unless an earlier lookup of this tick already pinned it.    *)
LookupL2Hit(c, t) ==
  /\ AccessL1(c, t)
  /\ ~Contains(L1Set(c, t), t)
  /\ Resident(t)
  /\ l2Accesses' = l2Accesses + 1
  /\ l2Hits' = l2Hits + 1
  /\ pendingFills' = Append(pendingFills, t)
  /\ pins' = IF sameTickPinning /\ ~Pinned(t)
             THEN [pins EXCEPT ![t] = PinStamp(t)]
             ELSE pins
  /\ UNCHANGED <<l2vars, l1Hits>>

(* Deviation: the miss is filled at once, in the middle of the lookups. *)
LookupL2MissFillsAtOnce(c, t) ==
  LET s == SetIndex(L2Config, t)
  IN  /\ AccessL1(c, t)
      /\ ~Contains(L1Set(c, t), t)
      /\ ~Resident(t)
      /\ l2Accesses' = l2Accesses + 1
      /\ l2' = [l2 EXCEPT ![s] = InsertOrTouch(@, Ways(L2Config), t, pins)]
      /\ stamp' = Restamp(stamp, l2[s], Ways(L2Config), t, pins, clock[s])
      /\ clock' = [clock EXCEPT ![s] = @ + 1]
      /\ UNCHANGED <<lastTouch, pendingFills, pins, l1Hits, l2Hits>>

(* Deviation: the prefetch ignores its switch. *)
FillsWhateverTheSwitch(t) ==
  IF PrefetchTarget(t) >= 0 THEN <<t, PrefetchTarget(t)>> ELSE <<t>>

(* The missed line, and right behind it the line prefetched with it.       *)
FillsOwed(t) ==
  IF l2Prefetch /\ PrefetchTarget(t) >= 0
  THEN <<t, PrefetchTarget(t)>> ELSE <<t>>

(* An L1 miss that L2 misses too: the line is owed to L2, and with         *)
(* prefetching on so is its cout neighbour, right behind it.               *)
LookupL2Miss(c, t) ==
  /\ AccessL1(c, t)
  /\ ~Contains(L1Set(c, t), t)
  /\ ~Resident(t)
  /\ l2Accesses' = l2Accesses + 1
  /\ pendingFills' = pendingFills \o FillsOwed(t)
  /\ UNCHANGED <<l2vars, pins, l1Hits, l2Hits>>

(* The requests of the current core are exhausted. *)
NextCore ==
  /\ InLookup
  /\ cores' = Tail(cores)
  /\ UNCHANGED <<switches, phase, l1, l2vars, pendingFills, pins, stats, tick,
                 snapshot, demanded>>

-----------------------------------------------------------------------------
(* Fill phase.                                                             *)

InFill == phase = "tick" /\ cores = <<>>

(* One access_pinned of the replay. *)
Fill ==
  /\ InFill /\ pendingFills # <<>>
  /\ LET t == Head(pendingFills)
         s == SetIndex(L2Config, t)
     IN  /\ l2' = [l2 EXCEPT ![s] = InsertOrTouch(@, Ways(L2Config), t, pins)]
         /\ stamp' = Restamp(stamp, l2[s], Ways(L2Config), t, pins, clock[s])
         /\ clock' = [clock EXCEPT ![s] = @ + 1]
         /\ lastTouch' = [lastTouch EXCEPT ![t] = clock[s] + 1]
  /\ pendingFills' = Tail(pendingFills)
  /\ UNCHANGED <<switches, phase, cores, l1, pins, stats, tick, snapshot,
                 demanded>>

EndTick ==
  /\ InFill /\ pendingFills = <<>>
  /\ phase' = "idle"
  /\ UNCHANGED <<switches, cores, l1, l2vars, pendingFills, pins, stats, tick,
                 snapshot, demanded>>

-----------------------------------------------------------------------------
Lookup(c, t) == LookupL1Hit(c, t) \/ LookupL2Hit(c, t) \/ LookupL2Miss(c, t)

(* The trace ends after MaxTicks ticks, or at a rejected one. *)
Finished ==
  /\ phase = "failed" \/ (phase = "idle" /\ tick = MaxTicks)
  /\ UNCHANGED vars

Next ==
  \/ \E ids \in CoreLists : BeginTick(ids) \/ RejectTick(ids)
  \/ \E c \in Cores, t \in Tags : Lookup(c, t)
  \/ NextCore
  \/ Fill
  \/ EndTick
  \/ Finished

Spec == Init /\ [][Next]_vars
=============================================================================
