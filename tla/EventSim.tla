------------------------------ MODULE EventSim ------------------------------
(***************************************************************************)
(* The discrete-event latency simulator (nocsim/eventsim): simulate() of   *)
(* EventSim.h on the routes of NoC.h.  It reads a list of transactions,    *)
(* each naming its actor, what it does and the transactions it depends on, *)
(* and computes when each runs and how long all of them take together.     *)
(*                                                                         *)
(* One action is one iteration of a loop of simulate(); a transaction is   *)
(* named by its position in the list, as in the code.                      *)
(***************************************************************************)
EXTENDS Integers, SequencesExt

CONSTANTS
  TcLists,      \* the transaction lists a tc.csv may hold
  X,            \* columns of the mesh
  DramPort, DramLatency

FlitsPerPacket == 4

Ops == {"unicast", "multicast", "count"}

Transactions ==
  [tc_id : Nat, actor : Nat, op : Ops, size : Nat,
   dests : Seq(Nat), deps : Seq(Nat)]

ASSUME EventSimAssumption ==
  /\ TcLists \subseteq Seq(Transactions)
  /\ X \in Nat \ {0}
  /\ DramPort \in Nat /\ DramLatency \in Nat

VARIABLES
  tcs,         \* the input
  pc,          \* "load", "run", then "done", "cycle" or "rejected"
  remaining,   \* remaining_deps
  ready,       \* the ready queue, popped in the order of tc_id
  completions, \* the pairs <<finish time, index>> not yet popped
  freeAt,      \* actor_free_time and link_free_time, see Needs
  dispatched,
  totalCycles,
  cycles,      \* unicast_, multicast_, count_ and dram_cycles
  placed       \* history: index -> [start, finish] of what was dispatched

vars == <<tcs, pc, remaining, ready, completions, freeAt, dispatched,
          totalCycles, cycles, placed>>

Buckets == {"unicast", "multicast", "count", "dram"}

-----------------------------------------------------------------------------
(* NoC.h: a port sits at column id % X of row id / X, and a message goes   *)
(* along its row first and then along the column of its destination.  A    *)
(* link is <<x0, y0, x1, y1>>.                                             *)

Col(id) == id % X
Row(id) == id \div X

Gap(a, b) == IF a < b THEN b - a ELSE a - b

Manhattan(src, dest) == Gap(Col(src), Col(dest)) + Gap(Row(src), Row(dest))

HopsSingle(src, dest) ==
  LET sx == Col(src)   sy == Row(src)
      dx == Col(dest)  dy == Row(dest)
  IN  {<<x, sy, x + 1, sy>> : x \in sx .. dx - 1}
        \cup {<<x + 1, sy, x, sy>> : x \in dx .. sx - 1}
        \cup {<<dx, y, dx, y + 1>> : y \in sy .. dy - 1}
        \cup {<<dx, y + 1, dx, y>> : y \in dy .. sy - 1}

-----------------------------------------------------------------------------
(* What a transaction occupies and for how long.                           *)

TouchesDram(tc) == tc.actor = DramPort \/ Contains(tc.dests, DramPort)

IsDram(tc) == tc.op # "count" /\ TouchesDram(tc)

OnMesh(tc) == tc.op # "count" /\ ~TouchesDram(tc)

Sendable(tc) == OnMesh(tc) => tc.dests # <<>>

(* max_element: the first of the farthest destinations. *)
Farthest(tc) ==
  LET Dist(i) == Manhattan(tc.actor, tc.dests[i])
  IN  CHOOSE i \in DOMAIN tc.dests :
        \A j \in DOMAIN tc.dests :
          Dist(j) <= Dist(i) /\ (j < i => Dist(j) < Dist(i))

Destination(tc) == tc.dests[IF tc.op = "unicast" THEN 1 ELSE Farthest(tc)]

Hops(tc) == IF OnMesh(tc) THEN HopsSingle(tc.actor, Destination(tc)) ELSE {}

(* The keys a transaction has in actor_free_time, <<actor>>, and in        *)
(* link_free_time, <<x0, y0, x1, y1>>; here they share one map, freeAt.    *)
Needs(tc) == {<<tc.actor>>} \cup Hops(tc)

Duration(tc) ==
  CASE tc.op = "count" -> tc.size
    [] IsDram(tc)      -> tc.size * DramLatency
    [] OnMesh(tc)      -> Cardinality(Hops(tc)) + tc.size * FlitsPerPacket

Bucket(tc) == IF IsDram(tc) THEN "dram" ELSE tc.op

(* get_actor_free and get_link_free: a key not in the map is free at 0. *)
FreeAt(r) == IF r \in DOMAIN freeAt THEN freeAt[r] ELSE 0

(* Deviation: only the actor is waited for. *)
StartWhenActorIsFree(tc) == FreeAt(<<tc.actor>>)

Start(tc) == Max({FreeAt(r) : r \in Needs(tc)})

-----------------------------------------------------------------------------
Init ==
  /\ tcs \in TcLists
  /\ pc = "load"
  /\ remaining = [i \in DOMAIN tcs |-> 0]
  /\ ready = {} /\ completions = {}
  /\ freeAt = [r \in {} |-> 0]
  /\ dispatched = 0 /\ totalCycles = 0
  /\ cycles = [b \in Buckets |-> 0]
  /\ placed = [i \in {} |-> 0]

TcIds == {tcs[i].tc_id : i \in DOMAIN tcs}

(* id_to_idx must be a map, and every dependency one of its keys. *)
WellFormed ==
  /\ Cardinality(TcIds) = Len(tcs)
  /\ UNION {ToSet(tcs[i].deps) : i \in DOMAIN tcs} \subseteq TcIds

DependencyCount(i) == Len(tcs[i].deps)

Load ==
  /\ pc = "load" /\ WellFormed
  /\ pc' = "run"
  /\ remaining' = [i \in DOMAIN tcs |-> DependencyCount(i)]
  /\ ready' = {i \in DOMAIN tcs : tcs[i].deps = <<>>}
  /\ UNCHANGED <<tcs, completions, freeAt, dispatched, totalCycles, cycles,
                 placed>>

RejectList ==
  /\ pc = "load" /\ ~WellFormed
  /\ pc' = "rejected"
  /\ UNCHANGED <<tcs, remaining, ready, completions, freeAt, dispatched,
                 totalCycles, cycles, placed>>

IsTop(i) ==
  i \in ready /\ \A j \in ready : tcs[i].tc_id <= tcs[j].tc_id

(* Deviation: the makespan is the finish time of the last dispatch. *)
LastFinish(finish) == finish

LatestFinish(finish) == Max({totalCycles, finish})

(* The inner loop: the ready transaction with the smallest id takes its    *)
(* actor and its links from the moment all of them are free.               *)
Dispatch(i) ==
  /\ pc = "run"
  /\ IsTop(i)
  /\ Sendable(tcs[i])
  /\ LET tc     == tcs[i]
         start  == Start(tc)
         finish == start + Duration(tc)
     IN  /\ freeAt' = [r \in DOMAIN freeAt \cup Needs(tc) |->
                         IF r \in Needs(tc) THEN finish ELSE freeAt[r]]
         /\ cycles' = [cycles EXCEPT ![Bucket(tc)] = @ + Duration(tc)]
         /\ totalCycles' = LatestFinish(finish)
         /\ completions' = completions \cup {<<finish, i>>}
         /\ placed' = [k \in DOMAIN placed \cup {i} |->
                         IF k = i THEN [start |-> start, finish |-> finish]
                         ELSE placed[k]]
  /\ ready' = ready \ {i}
  /\ dispatched' = dispatched + 1
  /\ UNCHANGED <<tcs, pc, remaining>>

(* A message on the mesh that names no destination is an error. *)
RejectTransaction(i) ==
  /\ pc = "run"
  /\ IsTop(i)
  /\ ~Sendable(tcs[i])
  /\ pc' = "rejected"
  /\ UNCHANGED <<tcs, remaining, ready, completions, freeAt, dispatched,
                 totalCycles, cycles, placed>>

EndsFirst(e) ==
  /\ e \in completions
  /\ \A f \in completions : e[1] < f[1] \/ (e[1] = f[1] /\ e[2] <= f[2])

(* How often i stands in dependents[j]: once per mention in i's list. *)
Mentions(i, j) ==
  Cardinality({k \in DOMAIN tcs[i].deps : tcs[i].deps[k] = tcs[j].tc_id})

(* Deviation: a dependent is ready as soon as one dependency is done. *)
ReadyAfterAny(j, left) ==
  {i \in DOMAIN tcs : Mentions(i, j) > 0 /\ i \notin DOMAIN placed}

ReadyAfter(j, left) == {i \in DOMAIN tcs : Mentions(i, j) > 0 /\ left[i] = 0}

(* Deviation: a completion nobody waits for is left in the queue. *)
QueueKeepingUnawaited(e) ==
  IF \A i \in DOMAIN tcs : Mentions(i, e[2]) = 0
  THEN completions ELSE completions \ {e}

QueueWithout(e) == completions \ {e}

(* The outer loop: with nothing ready the earliest completion is popped,   *)
(* and every transaction whose last dependency it was becomes ready.       *)
Complete(e) ==
  /\ pc = "run" /\ ready = {}
  /\ EndsFirst(e)
  /\ completions' = QueueWithout(e)
  /\ remaining' = [i \in DOMAIN tcs |-> remaining[i] - Mentions(i, e[2])]
  /\ ready' = ReadyAfter(e[2], remaining')
  /\ UNCHANGED <<tcs, pc, freeAt, dispatched, totalCycles, cycles, placed>>

(* Both queues are empty: what was never dispatched waits on a cycle. *)
Return ==
  /\ pc = "run" /\ ready = {} /\ completions = {}
  /\ pc' = IF dispatched = Len(tcs) THEN "done" ELSE "cycle"
  /\ UNCHANGED <<tcs, remaining, ready, completions, freeAt, dispatched,
                 totalCycles, cycles, placed>>

(* The process exits, with the result or with an error. *)
Exited == pc \in {"done", "cycle", "rejected"} /\ UNCHANGED vars

Next ==
  \/ Load \/ RejectList
  \/ \E i \in DOMAIN tcs : Dispatch(i) \/ RejectTransaction(i)
  \/ \E e \in completions : Complete(e)
  \/ Return
  \/ Exited

Spec == Init /\ [][Next]_vars

(* One thread, no waiting: a step that can be taken is taken. *)
FairSpec == Spec /\ WF_vars(Next)
=============================================================================
