---------------------------- MODULE CombineProps ----------------------------
(***************************************************************************)
(* What the transactions emitted for a layer must satisfy.                 *)
(***************************************************************************)
EXTENDS Combine

(* tc_ids of transactions already emitted. *)
KnownIds == 0 .. Len(tcs) - 1

(* Where the program can be. *)
Calls ==
  ({"load_from_dram", "load"} \X Tensors)
    \cup ({"chain", "store", "store_to_dram"} \X {"psum", "vmem"})
    \cup {<<"count", "mac">>, <<"count", "lif">>,
          <<"reset", "histories">>, <<"return", "gen">>}

(* The control state is one of the program's, and every tc_id it holds in  *)
(* a dictionary, a ring or a local is that of an emitted transaction.      *)
TypeOK ==
  /\ pc \in Calls
  /\ dramI \in Nat /\ nocI \in Nat /\ group \in Nat \ {0}
  /\ tileLoad \in [Tensors -> Seq(KnownIds)]
  /\ prevStore \in [Tensors -> Seq(KnownIds)]
  /\ DOMAIN hist = {"weight", "mac", "psum", "vmem"}
  /\ \A v \in DOMAIN hist : \A n \in DOMAIN hist[v] : hist[v][n] \in Seq(KnownIds)
  /\ loaded \in Seq(KnownIds) /\ ends \in Seq(KnownIds)
  /\ tails \in [{"psum", "vmem"} -> Seq(KnownIds)]
  /\ vmemRing \in Seq(Seq(KnownIds)) /\ lifRing \in Seq(Seq(KnownIds))

(* The list is a dependency graph without cycles: a transaction waits only *)
(* for transactions with a smaller tc_id, which is what lets simulate()    *)
(* dispatch all of them (EventSim.h:175-181).                              *)
DependenciesPointBack ==
  \A i \in DOMAIN tcs : \A k \in DOMAIN tcs[i].deps : tcs[i].deps[k] \in 0 .. i - 2

-----------------------------------------------------------------------------
(* The finished list.                                                      *)

Finished == pc = <<"return", "gen">>

AllSteps == (0 .. Steps(job.dram) - 1) \X (0 .. Steps(job.noc) - 1)

StepOf(tc) == <<tc.dram, tc.noc>>

Precedes(s, t) == s[1] < t[1] \/ (s[1] = t[1] /\ s[2] < t[2])

Labelled(op, v) == {i \in DOMAIN tcs : tcs[i].label = <<op, v>>}

StepsWith(op, v) == {StepOf(tcs[i]) : i \in Labelled(op, v)}

(* Which part of a tensor indexed by dims a step works on. *)
Tile(s, dims) == [dim \in dims |-> CombinedIndex(job, s[1], s[2], dim)]

DimsOf(v) == CASE v = "weight" -> WeightDims
               [] v = "psum"   -> PsumDims
               [] v = "vmem"   -> VmemDims

(* The transactions each transaction waits for, directly or not. *)
Ancestry ==
  FoldLeft(LAMBDA known, tc :
             Append(known, UNION {known[id + 1] \cup {id + 1} : id \in ToSet(tc.deps)}),
           <<>>, tcs)

(* "is_last_K -> fire LIF + T-chain (all reduction done)" (steps.py:11):   *)
(* every output tile fires exactly once, at the last of the steps that add *)
(* to it.                                                                  *)
EachOutputFiresOnce ==
  Finished =>
    LET fired == StepsWith("count", "lif")
    IN  \A s \in AllSteps :
          LET visits == {t \in AllSteps : Tile(t, PsumDims) = Tile(s, PsumDims)}
          IN  \A t \in visits :
                t \in fired <=> \A u \in visits : u = t \/ Precedes(u, t)

(* The weights sent to i's PE last before i. *)
LatestWeights(i) ==
  Max({j \in Labelled("load", "weight") :
         j < i /\ Contains(tcs[j].dests, tcs[i].actor)})

(* A PE never computes with the weights of another step, however many      *)
(* steps reuse a tile and whichever level moved on (steps.py:127-144).     *)
NoStaleWeights ==
  Finished =>
    \A i \in Labelled("count", "mac") :
      Tile(StepOf(tcs[LatestWeights(i)]), WeightDims) = Tile(StepOf(tcs[i]), WeightDims)

(* The steps that work on v's tiles, and those between two of them. *)
Visits(v) == IF v = "psum" THEN AllSteps ELSE StepsWith("count", "lif")

SuccessiveVisits(v) ==
  {p \in Visits(v) \X Visits(v) :
     /\ Precedes(p[1], p[2])
     /\ Tile(p[1], DimsOf(v)) = Tile(p[2], DimsOf(v))
     /\ \A t \in Visits(v) :
          Precedes(p[1], t) /\ Precedes(t, p[2]) => Tile(t, DimsOf(v)) # Tile(p[1], DimsOf(v))}

Interrupted(p, v) == \E t \in Visits(v) : Precedes(p[1], t) /\ Precedes(t, p[2])

(* The same for the global buffer, which holds one tile per DRAM step. *)
DramVisits(v) == {s[1] : s \in Visits(v)}

DramTile(d, v) == [dim \in DimsOf(v) |-> Index(d, job.dram, dim)]

SuccessiveDramVisits(v) ==
  {p \in DramVisits(v) \X DramVisits(v) :
     /\ p[1] < p[2] /\ DramTile(p[1], v) = DramTile(p[2], v)
     /\ \A d \in p[1] + 1 .. p[2] - 1 :
          d \in DramVisits(v) => DramTile(d, v) # DramTile(p[1], v)}

DramInterrupted(p, v) == \E d \in p[1] + 1 .. p[2] - 1 : d \in DramVisits(v)

(* What must make room for another tile before it is needed again is       *)
(* stored and loaded again, from the PE to the buffer and from the buffer  *)
(* to DRAM.                                                                *)
CarriedOverWhenInterrupted ==
  Finished =>
    \A v \in {"psum", "vmem"} :
      /\ \A p \in SuccessiveVisits(v) :
           Interrupted(p, v) =>
             p[1] \in StepsWith("store", v) /\ p[2] \in StepsWith("load", v)
      /\ ~job.single =>
           \A p \in SuccessiveDramVisits(v) :
             DramInterrupted(p, v) =>
               /\ p[1] \in {s[1] : s \in StepsWith("store_to_dram", v)}
               /\ p[2] \in {s[1] : s \in StepsWith("load_from_dram", v)}

(* Nothing is loaded that was not stored at the last visit of the same     *)
(* tile.                                                                   *)
OnlyStoredResultsAreLoaded ==
  Finished =>
    \A v \in {"psum", "vmem"} :
      /\ \A t \in StepsWith("load", v) :
           \E p \in SuccessiveVisits(v) : p[2] = t /\ p[1] \in StepsWith("store", v)
      /\ \A t \in StepsWith("load_from_dram", v) :
           \E p \in SuccessiveDramVisits(v) :
             p[2] = t[1] /\ p[1] \in {s[1] : s \in StepsWith("store_to_dram", v)}

(* A partial sum or a membrane potential is stored and loaded again when,  *)
(* and loaded only if, it had to make room: the traffic-free flags and the *)
(* first and last positions, computed apart, never suppress one of the two *)
(* (combine.py:54-63).                                                     *)
ReloadsMatchStores == CarriedOverWhenInterrupted /\ OnlyStoredResultsAreLoaded

(* "LIF(T=t+1) always waits for t_chain(T=t)" (combine.py, comment at      *)
(* prev_tchain_tails): within a DRAM step every LIF computation waits for  *)
(* all those of earlier steps and for the chains between them.             *)
VmemStepsAreOrdered ==
  Finished =>
    LET before == Ancestry
    IN  \A i \in Labelled("count", "lif") :
          \A j \in Labelled("count", "lif") \cup Labelled("chain", "vmem") :
            tcs[j].dram = tcs[i].dram /\ tcs[j].noc < tcs[i].noc => j \in before[i]

(* Without a global buffer nothing passes through its port; with one, DRAM *)
(* talks to nothing else (combine.py, arch.single_node).                   *)
SingleNodeBypassesTheBuffer ==
  \A i \in DOMAIN tcs :
    LET ports == {tcs[i].actor} \cup ToSet(tcs[i].dests)
    IN  IF job.single THEN GbPort \notin ports
                      ELSE DramPort \in ports => ports = {DramPort, GbPort}

(* Psums travel up one column and arrive where, row by row, the chains of  *)
(* the membrane potentials run; both reach every PE they should            *)
(* (buf_spatial.py:30-40).                                                 *)
ChainsFollowTheMesh ==
  LET kChains == ToSet(job.chains["psum"])
      tChains == ToSet(job.chains["vmem"])
  IN  /\ UNION {ToSet(c) : c \in kChains} = 0 .. NumPes - 1
      /\ {Last(c) : c \in kChains} = UNION {ToSet(c) : c \in tChains}
      /\ \A c, d \in kChains : c # d => ToSet(c) \cap ToSet(d) = {}
      /\ \A c \in kChains : \A k \in 2 .. Len(c) :
           c[k] % job.columns = c[k - 1] % job.columns /\ c[k] > c[k - 1]
      /\ \A c \in tChains : \A k \in 2 .. Len(c) :
           c[k] \div job.columns = c[k - 1] \div job.columns /\ c[k] > c[k - 1]

(* Every transfer goes where the machine has a way for it. *)
TrafficFollowsTheMachine == SingleNodeBypassesTheBuffer /\ ChainsFollowTheMesh

-----------------------------------------------------------------------------
(* "Weights must have arrived at each PE" (dump/NOC_DEPS.md:114).          *)
MacWaitsForItsWeights ==
  Finished =>
    LET before == Ancestry
    IN  \A i \in Labelled("count", "mac") : LatestWeights(i) \in before[i]

(* "The specific data being loaded must already be committed by its        *)
(* producer" (dump/NOC_DEPS.md:184).                                       *)
LoadsFollowTheirStores ==
  Finished =>
    LET before == Ancestry
    IN  \A v \in {"psum", "vmem"} : \A i \in Labelled("load", v) :
          \E j \in Labelled("store", v) :
            /\ <<StepOf(tcs[j]), StepOf(tcs[i])>> \in SuccessiveVisits(v)
            /\ j \in before[i]
=============================================================================
