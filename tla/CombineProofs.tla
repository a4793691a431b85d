--------------------------- MODULE CombineProofs ---------------------------
(***************************************************************************)
(* Proofs about the transaction generator, and about the generator, its    *)
(* file and the simulator together, for every layer that may be given, and *)
(* every DRAM latency.  Of the list: its tc_ids are those of emitted       *)
(* transactions and no transaction waits for a later one; no PE computes   *)
(* with old weights; every output fires once; what is displaced is stored  *)
(* and loaded again; the steps of a membrane potential wait for each       *)
(* other; and everything has a way to go.  Of the two programs: the        *)
(* simulator rejects none of it, runs to the end and charges what the      *)
(* generator does.                                                         *)
(***************************************************************************)
EXTENDS CombineProps, LayerLatency, NestLemmas

HistNames == {"weight", "mac", "psum", "vmem"}
Results   == {"psum", "vmem"}

(* The lists of tc_ids below n. *)
IdsBelow(n) == Seq(0 .. n - 1)

IsSequence(s) == s \in Seq({s[k] : k \in DOMAIN s})

(* What may be emitted: the k-th transaction waits for the ones there are, *)
(* or for one before it in the batch.                                      *)
Ready(batch) ==
  /\ IsSequence(batch)
  /\ \A k \in 1 .. Len(batch) : batch[k].deps \in IdsBelow(Len(tcs) + k - 1)

(* The inductive invariant: TypeOK, and the lists of dependencies within   *)
(* the bound that DependenciesPointBack states of each of their members.   *)
Held ==
  /\ job \in Jobs
  /\ TypeOK
  /\ IsSequence(tcs)
  /\ \A i \in 1 .. Len(tcs) : tcs[i].deps \in IdsBelow(i - 1)

-----------------------------------------------------------------------------
(* Lists.                                                                  *)

(* A list written element by element is a sequence of its length.          *)
LEMMA ListIsSequence ==
  ASSUME NEW n \in Nat, NEW s, s = [k \in 1 .. n |-> s[k]]
  PROVE  IsSequence(s) /\ Len(s) = n /\ DOMAIN s = 1 .. n
<1>1. DOMAIN s = 1 .. n
  OBVIOUS
<1>2. s \in [1 .. n -> {s[k] : k \in DOMAIN s}]
  BY <1>1
<1>3. s \in Seq({s[k] : k \in DOMAIN s})
  BY <1>2
<1> QED BY <1>1, <1>3 DEF IsSequence

(* A longer list of transactions has all the tc_ids of a shorter one.      *)
LEMMA IdsGrow ==
  ASSUME NEW m \in Nat, NEW n \in Nat, m <= n
  PROVE  /\ IdsBelow(m) \subseteq IdsBelow(n)
         /\ Seq(IdsBelow(m)) \subseteq Seq(IdsBelow(n))
<1>1. 0 .. m - 1 \subseteq 0 .. n - 1
  OBVIOUS
<1>2. \A S, T : S \subseteq T => Seq(S) \subseteq Seq(T)
  OBVIOUS
<1>3. IdsBelow(m) \subseteq IdsBelow(n)
  BY <1>1, <1>2 DEF IdsBelow
<1> QED BY <1>2, <1>3

(* Concatenation stays below the bound.                                    *)
LEMMA IdsConcat ==
  ASSUME NEW S, NEW a \in Seq(S), NEW b \in Seq(S)
  PROVE  a \o b \in Seq(S)
OBVIOUS

(* Sequences joined end to end.                                            *)
LEMMA Joined ==
  ASSUME NEW s, IsSequence(s), NEW t, IsSequence(t)
  PROVE  /\ IsSequence(s \o t)
         /\ Len(s) \in Nat /\ Len(t) \in Nat
         /\ Len(s \o t) = Len(s) + Len(t)
         /\ \A i \in 1 .. Len(s) : (s \o t)[i] = s[i]
         /\ \A k \in 1 .. Len(t) : (s \o t)[Len(s) + k] = t[k]
<1> DEFINE S == {s[k] : k \in DOMAIN s} \cup {t[k] : k \in DOMAIN t}
<1>1. s \in Seq(S) /\ t \in Seq(S)
  <2>1. \A A, B : Seq(A) \subseteq Seq(A \cup B)
    OBVIOUS
  <2>2. \A A, B : Seq(B) \subseteq Seq(A \cup B)
    OBVIOUS
  <2> QED BY <2>1, <2>2 DEF IsSequence
<1> HIDE DEF S
<1>2. /\ Len(s) \in Nat /\ Len(t) \in Nat
      /\ Len(s \o t) = Len(s) + Len(t)
      /\ \A i \in 1 .. Len(s) : (s \o t)[i] = s[i]
      /\ \A k \in 1 .. Len(t) : (s \o t)[Len(s) + k] = t[k]
  BY <1>1
<1>3. s \o t \in Seq(S)
  BY <1>1
<1>4. s \o t = [k \in 1 .. Len(s \o t) |-> (s \o t)[k]]
  <2>1. ASSUME NEW u \in Seq(S)
        PROVE  u = [k \in 1 .. Len(u) |-> u[k]]
    OBVIOUS
  <2> QED BY <1>3, <2>1
<1>5. IsSequence(s \o t)
  <2>1. Len(s \o t) \in Nat
    BY <1>2
  <2> QED BY <1>4, <2>1, ListIsSequence
<1> QED BY <1>2, <1>5

(* dict.get and With keep to the lists that are in the dictionary.         *)
LEMMA DictionaryOK ==
  ASSUME NEW S, NEW dict, \A n \in DOMAIN dict : dict[n] \in Seq(S)
  PROVE  /\ \A n : Entry(dict, n) \in Seq(S)
         /\ \A n : \A ids \in Seq(S) :
              \A m \in DOMAIN With(dict, n, ids) : With(dict, n, ids)[m] \in Seq(S)
<1>1. <<>> \in Seq(S)
  OBVIOUS
<1> QED BY <1>1 DEF Entry, With

(* A ring holds lists of the same kind after a push, and yields them.      *)
LEMMA RingOK ==
  ASSUME NEW S, NEW ring \in Seq(S), NEW ids \in S
  PROVE  Pushed(ring, ids) \in Seq(S)
<1>1. CASE Len(ring) < 2
  BY <1>1 DEF Pushed
<1>2. CASE ~(Len(ring) < 2)
  <2>1. ring[2] \in S
    BY <1>2
  <2> QED BY <1>2, <2>1 DEF Pushed
<1> QED BY <1>1, <1>2

(* The entry k before the newest of a ring is a list of the same kind.     *)
LEMMA LatestOK ==
  ASSUME NEW S, NEW ring \in Seq(Seq(S)), NEW k \in Nat
  PROVE  LatestBut(ring, k) \in Seq(S)
<1>1. CASE Len(ring) > k
  <2>1. Len(ring) - k \in 1 .. Len(ring)
    BY <1>1
  <2>2. ring[Len(ring) - k] \in Seq(S)
    BY <2>1
  <2> QED BY <1>1, <2>2 DEF LatestBut
<1>2. CASE ~(Len(ring) > k)
  BY <1>2 DEF LatestBut
<1> QED BY <1>1, <1>2

-----------------------------------------------------------------------------
(* Emitting.                                                               *)

(* A batch of n transactions that each wait for emitted ones or for        *)
(* earlier ones of the batch may be emitted.                               *)
LEMMA ReadyWhen ==
  ASSUME NEW n \in Nat, NEW batch, batch = [k \in 1 .. n |-> batch[k]],
         \A k \in 1 .. n : batch[k].deps \in IdsBelow(Len(tcs) + k - 1)
  PROVE  Ready(batch)
BY ListIsSequence DEF Ready

(* No transaction at all may always be emitted.                            *)
LEMMA NothingIsReady == Ready(<<>>)
<1>1. <<>> = [k \in 1 .. 0 |-> <<>>[k]]
  OBVIOUS
<1>2. \A k \in 1 .. 0 : <<>>[k].deps \in IdsBelow(Len(tcs) + k - 1)
  OBVIOUS
<1> QED BY <1>1, <1>2, ReadyWhen

(* Lists of emitted tc_ids may be waited for anywhere in a batch.          *)
LEMMA KnownIdsBelow ==
  ASSUME Held, NEW k \in Nat \ {0}, NEW deps \in Seq(KnownIds)
  PROVE  deps \in IdsBelow(Len(tcs) + k - 1)
<1>1. Len(tcs) \in Nat
  BY DEF Held, IsSequence
<1>2. deps \in IdsBelow(Len(tcs))
  BY DEF IdsBelow, KnownIds
<1>3. Len(tcs) + k - 1 \in Nat /\ Len(tcs) <= Len(tcs) + k - 1
  BY <1>1
<1> QED BY <1>1, <1>2, <1>3, IdsGrow

(* What Emit does to the list.                                             *)
LEMMA Emitted ==
  ASSUME Held, NEW batch, Ready(batch), Emit(batch)
  PROVE  /\ Len(tcs) \in Nat /\ Len(batch) \in Nat
         /\ Len(tcs') = Len(tcs) + Len(batch)
         /\ IsSequence(tcs')
         /\ \A i \in 1 .. Len(tcs') : tcs'[i].deps \in IdsBelow(i - 1)
         /\ NewIds(batch) \in Seq(KnownIds')
<1>1. tcs' = tcs \o batch
  BY DEF Emit
<1>2. IsSequence(tcs) /\ IsSequence(batch)
  BY DEF Held, Ready
<1>3. /\ IsSequence(tcs')
      /\ Len(tcs) \in Nat /\ Len(batch) \in Nat
      /\ Len(tcs') = Len(tcs) + Len(batch)
      /\ \A i \in 1 .. Len(tcs) : tcs'[i] = tcs[i]
      /\ \A k \in 1 .. Len(batch) : tcs'[Len(tcs) + k] = batch[k]
  BY <1>1, <1>2, Joined
<1>4. ASSUME NEW i \in 1 .. Len(tcs')
      PROVE  tcs'[i].deps \in IdsBelow(i - 1)
  <2>1. CASE i <= Len(tcs)
    <3>1. i \in 1 .. Len(tcs)
      BY <1>3, <2>1
    <3> QED BY <1>3, <3>1 DEF Held
  <2>2. CASE i > Len(tcs)
    <3>1. PICK k \in 1 .. Len(batch) : i = Len(tcs) + k
      <4>1. i - Len(tcs) \in 1 .. Len(batch) /\ i = Len(tcs) + (i - Len(tcs))
        BY <1>3, <2>2
      <4> QED BY <4>1
    <3>2. batch[k].deps \in IdsBelow(Len(tcs) + k - 1)
      BY DEF Ready
    <3> QED BY <1>3, <3>1, <3>2
  <2> QED BY <1>3, <2>1, <2>2
<1>5. NewIds(batch) \in Seq(KnownIds')
  <2>1. DOMAIN batch = 1 .. Len(batch)
    BY <1>2 DEF IsSequence
  <2>2. \A k \in 1 .. Len(batch) : Len(tcs) + k - 1 \in 0 .. Len(tcs') - 1
    BY <1>3
  <2> QED BY <1>3, <2>1, <2>2 DEF NewIds, KnownIds
<1> QED BY <1>3, <1>4, <1>5

(* What is kept while the list grows stays known.                          *)
LEMMA Kept ==
  ASSUME TypeOK, Len(tcs) \in Nat, Len(tcs') \in Nat, Len(tcs) <= Len(tcs')
  PROVE  /\ Seq(KnownIds) \subseteq Seq(KnownIds')
         /\ tileLoad' = tileLoad => tileLoad' \in [Tensors -> Seq(KnownIds')]
         /\ prevStore' = prevStore => prevStore' \in [Tensors -> Seq(KnownIds')]
         /\ \A v \in HistNames : \A n \in DOMAIN hist[v] : hist[v][n] \in Seq(KnownIds')
         /\ loaded' = loaded => loaded' \in Seq(KnownIds')
         /\ ends' = ends => ends' \in Seq(KnownIds')
         /\ tails' = tails => tails' \in [Results -> Seq(KnownIds')]
         /\ vmemRing \in Seq(Seq(KnownIds')) /\ lifRing \in Seq(Seq(KnownIds'))
<1>1. Seq(KnownIds) \subseteq Seq(KnownIds')
  BY IdsGrow DEF IdsBelow, KnownIds
<1>2. Seq(Seq(KnownIds)) \subseteq Seq(Seq(KnownIds'))
  BY IdsGrow DEF IdsBelow, KnownIds
<1>3. ASSUME NEW S, NEW f \in [S -> Seq(KnownIds)]
      PROVE  f \in [S -> Seq(KnownIds')]
  BY <1>1
<1> QED BY <1>1, <1>2, <1>3 DEF TypeOK, HistNames, Results

-----------------------------------------------------------------------------
(* The batches the builders emit.                                          *)

(* A group is a list of PEs, and not empty.                                *)
LEMMA GroupsAre ==
  ASSUME NEW j \in Jobs
  PROVE  /\ j.columns * j.rows \in Nat \ {0}
         /\ Groups(j) \subseteq Seq(Seq(Nat))
         /\ \A gs \in Groups(j) : \A g \in DOMAIN gs :
              gs[g] \in Seq(PesOf(j)) /\ gs[g] # <<>>
<1>1. j.columns \in Nat \ {0} /\ j.rows \in Nat \ {0}
  BY CombineAssumption
<1>2. \A a, b \in Nat \ {0} : a * b \in Nat \ {0}
  OBVIOUS
<1>3. j.columns * j.rows \in Nat \ {0}
  BY <1>1, <1>2
<1>4. PesOf(j) \subseteq Nat
  BY <1>3 DEF PesOf
<1> DEFINE P == PesOf(j)
<1>5. \A S, T : S \subseteq T => Seq(S) \subseteq Seq(T)
  OBVIOUS
<1>6. Seq(P) \ {<<>>} \subseteq Seq(Nat)
  BY <1>4, <1>5
<1>7. Groups(j) \subseteq Seq(Seq(Nat))
  BY <1>5, <1>6 DEF Groups
<1>8. \A S : \A s \in Seq(S) : \A k \in DOMAIN s : s[k] \in S
  OBVIOUS
<1>9. \A gs \in Groups(j) : \A g \in DOMAIN gs : gs[g] \in Seq(P) \ {<<>>}
  BY <1>8 DEF Groups
<1> QED BY <1>3, <1>7, <1>9

(* The types of what the builders read of the job.                         *)
LEMMA JobOK ==
  ASSUME Held
  PROVE  /\ NumPes \in Nat
         /\ Len(job.weightGroups) \in Nat
         /\ DOMAIN job.weightGroups = 1 .. Len(job.weightGroups)
         /\ \A v \in Results :
              /\ job.chains[v] \in Seq(Seq(Nat))
              /\ Len(job.chains[v]) \in Nat
              /\ DOMAIN job.chains[v] = 1 .. Len(job.chains[v])
<1>1. /\ job.columns \in Nat /\ job.rows \in Nat
      /\ job.weightGroups \in Seq(Seq(Nat))
      /\ job.chains \in [{"psum", "vmem"} -> Seq(Seq(Nat))]
  <2>1. Groups(job) \subseteq Seq(Seq(Nat))
    BY GroupsAre DEF Held
  <2>2. /\ job.weightGroups \in Groups(job)
        /\ job.chains \in [{"psum", "vmem"} -> Groups(job) \ {<<>>}]
        /\ job.columns \in Nat /\ job.rows \in Nat
    BY CombineAssumption DEF Held
  <2> QED BY <2>1, <2>2
<1>2. \A a, b \in Nat : a * b \in Nat
  OBVIOUS
<1>3. NumPes \in Nat
  BY <1>1, <1>2 DEF NumPes
<1>4. \A v \in Results : job.chains[v] \in Seq(Seq(Nat))
  BY <1>1 DEF Results
<1>5. \A s \in Seq(Seq(Nat)) : Len(s) \in Nat /\ DOMAIN s = 1 .. Len(s)
  OBVIOUS
<1> QED BY <1>1, <1>3, <1>4, <1>5

(* A batch all of whose transactions wait for the same known ones.         *)
LEMMA AlikeReady ==
  ASSUME Held, NEW n \in Nat, NEW batch, batch = [k \in 1 .. n |-> batch[k]],
         NEW deps \in Seq(KnownIds), \A k \in 1 .. n : batch[k].deps = deps
  PROVE  Ready(batch)
<1>1. ASSUME NEW k \in 1 .. n
      PROVE  batch[k].deps \in IdsBelow(Len(tcs) + k - 1)
  <2>1. k \in Nat \ {0}
    OBVIOUS
  <2> QED BY <2>1, KnownIdsBelow
<1> QED BY <1>1, ReadyWhen

(* A single message that waits for known transactions may be emitted.      *)
LEMMA MessageReady ==
  ASSUME Held, NEW src, NEW dests, NEW packets, NEW deps \in Seq(KnownIds)
  PROVE  Ready(<<Message(src, dests, packets, deps)>>)
<1> DEFINE batch == <<Message(src, dests, packets, deps)>>
<1>1. batch[1].deps = deps
  BY DEF Message
<1>2. batch = [k \in 1 .. 1 |-> batch[k]]
  OBVIOUS
<1>3. \A k \in 1 .. 1 : batch[k].deps = deps
  BY <1>1
<1> HIDE DEF batch
<1>4. Ready(batch)
  BY <1>2, <1>3, AlikeReady
<1> QED BY <1>4 DEF batch

(* So may the counts of all PEs, if they wait for known transactions.      *)
LEMMA CountsReady ==
  ASSUME Held, NEW amount, NEW deps \in Seq(KnownIds)
  PROVE  Ready(Counts(amount, deps))
<1> DEFINE batch == Counts(amount, deps)
<1>1. batch = [k \in 1 .. NumPes |-> batch[k]]
  BY DEF Counts
<1>2. \A k \in 1 .. NumPes : batch[k].deps = deps
  BY DEF Counts
<1> HIDE DEF batch
<1>3. Ready(batch)
  BY <1>1, <1>2, AlikeReady, JobOK
<1> QED BY <1>3 DEF batch

(* So may the loads of all chains, or none when they are skipped.          *)
LEMMA LoadsReady ==
  ASSUME Held, NEW v \in Results, NEW deps \in Seq(KnownIds)
  PROVE  Ready(Loads(v, deps))
<1> DEFINE batch == Loads(v, deps)
           n == Len(job.chains[v])
<1>1. CASE SkipLoad(v)
  BY <1>1, NothingIsReady DEF Loads
<1>2. CASE ~SkipLoad(v)
  <2>1. n \in Nat /\ DOMAIN job.chains[v] = 1 .. n
    BY JobOK
  <2>2. batch = [k \in 1 .. n |-> batch[k]]
    BY <1>2, <2>1 DEF Loads
  <2>3. \A k \in 1 .. n : batch[k].deps = deps
    BY <1>2, <2>1 DEF Loads, Message
  <2> HIDE DEF batch, n
  <2>4. Ready(batch)
    BY <2>1, <2>2, <2>3, AlikeReady
  <2> QED BY <2>4 DEF batch
<1> QED BY <1>1, <1>2

(* So may the stores of all chains, which wait for the tails of the chains.*)
LEMMA StoresReady ==
  ASSUME Held, NEW v \in Results
  PROVE  Ready(Stores(v))
<1> DEFINE batch == Stores(v)
           n == Len(job.chains[v])
<1>1. CASE SkipStore(v)
  BY <1>1, NothingIsReady DEF Stores
<1>2. CASE ~SkipStore(v)
  <2>1. n \in Nat /\ DOMAIN job.chains[v] = 1 .. n
    BY JobOK
  <2>2. batch = [k \in 1 .. n |-> batch[k]]
    BY <1>2, <2>1 DEF Stores
  <2>3. \A k \in 1 .. n : batch[k].deps = tails[v]
    BY <1>2, <2>1 DEF Stores, Message
  <2>4. tails[v] \in Seq(KnownIds)
    BY DEF Held, TypeOK, Results
  <2> HIDE DEF batch, n
  <2>5. Ready(batch)
    BY <2>1, <2>2, <2>3, <2>4, AlikeReady
  <2> QED BY <2>5 DEF batch
<1> QED BY <1>1, <1>2

-----------------------------------------------------------------------------
(* What the builders read.                                                 *)

(* An entry of a history is a list of known transactions.                  *)
LEMMA EntryKnown ==
  ASSUME Held, NEW v \in HistNames, NEW n
  PROVE  Entry(hist[v], n) \in Seq(KnownIds)
<1>1. \A m \in DOMAIN hist[v] : hist[v][m] \in Seq(KnownIds)
  BY DEF Held, TypeOK, HistNames
<1> QED BY <1>1, DictionaryOK

(* Every other list the builders wait for is one as well.                  *)
LEMMA ReadsKnown ==
  ASSUME Held
  PROVE  /\ \A v \in Tensors : tileLoad[v] \in Seq(KnownIds) /\ prevStore[v] \in Seq(KnownIds)
         /\ \A v \in Results : tails[v] \in Seq(KnownIds) /\ DramStore(v) \in Seq(KnownIds)
         /\ loaded \in Seq(KnownIds) /\ ends \in Seq(KnownIds)
         /\ \A k \in {0, 1} : /\ LatestBut(vmemRing, k) \in Seq(KnownIds)
                            /\ LatestBut(lifRing, k) \in Seq(KnownIds)
<1>1. \A k \in {0, 1} : /\ LatestBut(vmemRing, k) \in Seq(KnownIds)
                      /\ LatestBut(lifRing, k) \in Seq(KnownIds)
  <2>1. vmemRing \in Seq(Seq(KnownIds)) /\ lifRing \in Seq(Seq(KnownIds))
    BY DEF Held, TypeOK
  <2> QED BY <2>1, LatestOK
<1>2. \A v \in Tensors : tileLoad[v] \in Seq(KnownIds) /\ prevStore[v] \in Seq(KnownIds)
  BY DEF Held, TypeOK
<1>3. \A v \in Results : tails[v] \in Seq(KnownIds)
  BY DEF Held, TypeOK, Results
<1>4. \A v \in Results : DramStore(v) \in Seq(KnownIds)
  <2>1. <<>> \in Seq(KnownIds)
    OBVIOUS
  <2> QED BY <1>2, <2>1 DEF DramStore, Tensors, Results
<1>5. loaded \in Seq(KnownIds) /\ ends \in Seq(KnownIds)
  BY DEF Held, TypeOK
<1> QED BY <1>1, <1>2, <1>3, <1>4, <1>5

(* The computation a result waits for is known.                            *)
LEMMA ComputedKnown ==
  ASSUME Held, NEW v \in Results
  PROVE  Computed(v) \in Seq(KnownIds)
BY EntryKnown, ReadsKnown DEF Computed, HistNames

(* A history with one more entry.                                          *)
LEMMA HistoryExtended ==
  ASSUME Held, NEW S, NEW v \in HistNames, NEW ids \in Seq(S),
         \A w \in HistNames : \A n \in DOMAIN hist[w] : hist[w][n] \in Seq(S),
         hist' = [hist EXCEPT ![v] = With(@, nocI, ids)]
  PROVE  /\ DOMAIN hist' = HistNames
         /\ \A w \in HistNames : \A n \in DOMAIN hist'[w] : hist'[w][n] \in Seq(S)
<1>1. DOMAIN hist = HistNames
  BY DEF Held, TypeOK, HistNames
<1>2. DOMAIN hist' = HistNames
  BY <1>1
<1>3. ASSUME NEW w \in HistNames
      PROVE  \A n \in DOMAIN hist'[w] : hist'[w][n] \in Seq(S)
  <2>1. CASE w = v
    <3>1. hist'[w] = With(hist[v], nocI, ids)
      BY <1>1, <2>1
    <3>2. \A m \in DOMAIN With(hist[v], nocI, ids) : With(hist[v], nocI, ids)[m] \in Seq(S)
      BY DictionaryOK
    <3> QED BY <3>1, <3>2
  <2>2. CASE w # v
    <3>1. hist'[w] = hist[w]
      BY <1>1, <2>2
    <3> QED BY <3>1
  <2> QED BY <2>1, <2>2
<1> QED BY <1>2, <1>3

-----------------------------------------------------------------------------
(* The steps.                                                              *)

(* A step that emits a batch keeps the invariant if it keeps the types.    *)
LEMMA EmitKeepsHeld ==
  ASSUME Held, NEW batch, Ready(batch), Emit(batch), job' = job, TypeOK'
  PROVE  Held'
BY Emitted DEF Held

(* What every emitting step starts from: the ids of the batch are known,   *)
(* and so is what is kept.                                                 *)
LEMMA Growth ==
  ASSUME Held, NEW batch, Ready(batch), Emit(batch)
  PROVE  /\ Len(tcs) \in Nat /\ Len(tcs') \in Nat /\ Len(tcs) <= Len(tcs')
         /\ NewIds(batch) \in Seq(KnownIds')
         /\ <<>> \in Seq(KnownIds')
BY Emitted

(* Nothing is emitted yet.                                                 *)
LEMMA InitHeld == Init => Held
<1> SUFFICES ASSUME Init PROVE Held
  OBVIOUS
<1>1. <<>> \in Seq(KnownIds) /\ <<>> \in Seq(Seq(KnownIds))
  OBVIOUS
<1>2. pc \in Calls
  BY DEF Init, Calls, Tensors
<1>3. TypeOK
  BY <1>1, <1>2 DEF Init, TypeOK
<1>4. IsSequence(tcs) /\ \A i \in 1 .. Len(tcs) : tcs[i].deps \in IdsBelow(i - 1)
  BY DEF Init, IsSequence
<1> QED BY <1>3, <1>4 DEF Init, Held

(* The step LoadFromDram keeps to known transactions.                      *)
LEMMA LoadFromDramHeld ==
  ASSUME Held, NEW v \in Tensors, LoadFromDram(v)
  PROVE  Held'
<1> DEFINE batch == IF SkipTileLoad(v) THEN <<>>
                    ELSE <<Message(DramPort, <<GbPort>>, Packets(v, 1), prevStore[v])>>
<1>1. Emit(batch) /\ tileLoad' = [tileLoad EXCEPT ![v] = NewIds(batch)]
  BY DEF LoadFromDram
<1>2. Ready(batch)
  BY NothingIsReady, MessageReady, ReadsKnown
<1> HIDE DEF batch
<1>3. Len(tcs) \in Nat /\ Len(tcs') \in Nat /\ Len(tcs) <= Len(tcs')
  BY <1>1, <1>2, Growth
<1>4. TypeOK
  BY DEF Held
<1>5. pc' \in Calls
  BY DEF LoadFromDram, Calls, Tensors
<1>6. tileLoad' \in [Tensors -> Seq(KnownIds')]
  <2>1. NewIds(batch) \in Seq(KnownIds')
    BY <1>1, <1>2, Growth
  <2>2. Seq(KnownIds) \subseteq Seq(KnownIds')
    BY <1>3, <1>4, Kept
  <2>3. tileLoad \in [Tensors -> Seq(KnownIds')]
    BY <1>4, <2>2 DEF TypeOK
  <2> QED BY <1>1, <2>1, <2>3
<1>7. TypeOK'
  BY <1>3, <1>4, <1>5, <1>6, Kept DEF TypeOK, LoadFromDram, HistNames, Results
<1> QED BY <1>1, <1>2, <1>7, EmitKeepsHeld DEF LoadFromDram

(* The step ResetHistories keeps to known transactions.                    *)
LEMMA ResetHistoriesHeld ==
  ASSUME Held, ResetHistories
  PROVE  Held'
<1>1. KnownIds' = KnownIds
  BY DEF ResetHistories, KnownIds
<1>2. <<>> \in Seq(KnownIds) /\ <<>> \in Seq(Seq(KnownIds))
  OBVIOUS
<1>3. pc' \in Calls
  BY DEF ResetHistories, Calls, Tensors
<1>4. hist' = [v \in HistNames |-> [n \in {} |-> <<>>]]
  BY DEF ResetHistories, Held, TypeOK, HistNames
<1>5. tails' \in [Results -> Seq(KnownIds)]
  BY <1>2 DEF ResetHistories, Held, TypeOK, Results
<1>6. TypeOK'
  BY <1>1, <1>2, <1>3, <1>4, <1>5 DEF Held, TypeOK, ResetHistories, HistNames, Results
<1> QED BY <1>6 DEF Held, ResetHistories, IsSequence

(* The step LoadWeight keeps to known transactions.                        *)
LEMMA LoadWeightHeld ==
  ASSUME Held, LoadWeight
  PROVE  Held'
<1> DEFINE deps  == (IF nocI = 0 THEN tileLoad["weight"] ELSE Entry(hist["weight"], nocI - 1))
                      \o Entry(hist["mac"], nocI - 2)
           batch == IF ~WeightChanges(job, nocI) THEN <<>>
                    ELSE [g \in DOMAIN job.weightGroups |->
                            Message(OuterPort, job.weightGroups[g],
                                    Packets("weight", Len(job.weightGroups)), deps)]
<1>1. Emit(batch) /\ hist' = [hist EXCEPT !["weight"] = With(@, nocI, NewIds(batch))]
  BY DEF LoadWeight
<1>2. Ready(batch)
  <2>1. deps \in Seq(KnownIds)
    <3>1. /\ tileLoad["weight"] \in Seq(KnownIds)
          /\ Entry(hist["weight"], nocI - 1) \in Seq(KnownIds)
          /\ Entry(hist["mac"], nocI - 2) \in Seq(KnownIds)
      BY ReadsKnown, EntryKnown DEF Tensors, HistNames
    <3> QED BY <3>1, IdsConcat
  <2> HIDE DEF deps
  <2>2. CASE ~WeightChanges(job, nocI)
    BY <2>2, NothingIsReady
  <2>3. CASE WeightChanges(job, nocI)
    <3> DEFINE n == Len(job.weightGroups)
    <3>1. n \in Nat /\ DOMAIN job.weightGroups = 1 .. n
      BY JobOK
    <3>2. batch = [k \in 1 .. n |-> batch[k]]
      BY <2>3, <3>1
    <3>3. \A k \in 1 .. n : batch[k].deps = deps
      BY <2>3, <3>1 DEF Message
    <3> HIDE DEF batch, n
    <3> QED BY <2>1, <3>1, <3>2, <3>3, AlikeReady
  <2> QED BY <2>2, <2>3
<1> HIDE DEF deps, batch
<1>3. Len(tcs) \in Nat /\ Len(tcs') \in Nat /\ Len(tcs) <= Len(tcs')
  BY <1>1, <1>2, Growth
<1>4. TypeOK
  BY DEF Held
<1>5. NewIds(batch) \in Seq(KnownIds')
  BY <1>1, <1>2, Growth
<1>6. /\ DOMAIN hist' = HistNames
      /\ \A w \in HistNames : \A n \in DOMAIN hist'[w] : hist'[w][n] \in Seq(KnownIds')
  <2>1. \A w \in HistNames : \A n \in DOMAIN hist[w] : hist[w][n] \in Seq(KnownIds')
    BY <1>3, <1>4, Kept
  <2>2. "weight" \in HistNames
    BY DEF HistNames
  <2> QED BY <1>1, <1>5, <2>1, <2>2, HistoryExtended
<1>7. pc' \in Calls
  BY DEF LoadWeight, Calls, Tensors
<1>8. UNCHANGED <<job, dramI, nocI, group, tileLoad, prevStore, loaded, ends, tails,
                  vmemRing, lifRing>>
  BY DEF LoadWeight
<1>9. TypeOK'
  BY <1>3, <1>4, <1>6, <1>7, <1>8, Kept DEF TypeOK, HistNames, Results
<1> QED BY <1>1, <1>2, <1>8, <1>9, EmitKeepsHeld

(* The step LoadPsum keeps to known transactions.                          *)
LEMMA LoadPsumHeld ==
  ASSUME Held, LoadPsum
  PROVE  Held'
<1> DEFINE deps  == Entry(hist["psum"], nocI - 2)
                      \o Entry(hist["psum"], nocI - Total(job.noc, "T"))
                      \o tileLoad["psum"] \o DramStore("psum")
           batch == Loads("psum", deps)
<1>1. Emit(batch) /\ loaded' = NewIds(batch)
  BY DEF LoadPsum
<1>2. Ready(batch)
  <2>1. /\ Entry(hist["psum"], nocI - 2) \in Seq(KnownIds)
        /\ Entry(hist["psum"], nocI - Total(job.noc, "T")) \in Seq(KnownIds)
        /\ tileLoad["psum"] \in Seq(KnownIds) /\ DramStore("psum") \in Seq(KnownIds)
    BY ReadsKnown, EntryKnown DEF Tensors, HistNames, Results
  <2>2. deps \in Seq(KnownIds)
    BY <2>1, IdsConcat
  <2> HIDE DEF deps
  <2> QED BY <2>2, LoadsReady DEF Results
<1> HIDE DEF deps, batch
<1>3. Len(tcs) \in Nat /\ Len(tcs') \in Nat /\ Len(tcs) <= Len(tcs')
  BY <1>1, <1>2, Growth
<1>4. TypeOK
  BY DEF Held
<1>5. NewIds(batch) \in Seq(KnownIds')
  BY <1>1, <1>2, Growth
<1>6. pc' \in Calls
  BY DEF LoadPsum, Calls
<1>7. TypeOK'
  BY <1>1, <1>3, <1>4, <1>5, <1>6, Kept DEF TypeOK, LoadPsum, HistNames, Results
<1> QED BY <1>1, <1>2, <1>7, EmitKeepsHeld DEF LoadPsum

(* The step MacCount keeps to known transactions.                          *)
LEMMA MacCountHeld ==
  ASSUME Held, MacCount
  PROVE  Held'
<1> DEFINE deps  == Entry(hist["weight"], nocI) \o loaded \o Entry(hist["mac"], nocI - 2)
           batch == Counts(Cycles.mac, deps)
<1>1. Emit(batch) /\ hist' = [hist EXCEPT !["mac"] = With(@, nocI, NewIds(batch))]
  BY DEF MacCount
<1>2. Ready(batch)
  <2>1. /\ Entry(hist["weight"], nocI) \in Seq(KnownIds)
        /\ loaded \in Seq(KnownIds)
        /\ Entry(hist["mac"], nocI - 2) \in Seq(KnownIds)
    BY ReadsKnown, EntryKnown DEF HistNames
  <2>2. deps \in Seq(KnownIds)
    BY <2>1, IdsConcat
  <2> HIDE DEF deps
  <2> QED BY <2>2, CountsReady
<1> HIDE DEF deps, batch
<1>3. Len(tcs) \in Nat /\ Len(tcs') \in Nat /\ Len(tcs) <= Len(tcs')
  BY <1>1, <1>2, Growth
<1>4. TypeOK
  BY DEF Held
<1>5. NewIds(batch) \in Seq(KnownIds')
  BY <1>1, <1>2, Growth
<1>6. /\ DOMAIN hist' = HistNames
      /\ \A w \in HistNames : \A n \in DOMAIN hist'[w] : hist'[w][n] \in Seq(KnownIds')
  <2>1. \A w \in HistNames : \A n \in DOMAIN hist[w] : hist[w][n] \in Seq(KnownIds')
    BY <1>3, <1>4, Kept
  <2>2. "mac" \in HistNames
    BY DEF HistNames
  <2> QED BY <1>1, <1>5, <2>1, <2>2, HistoryExtended
<1>7. pc' \in Calls
  BY DEF MacCount, Calls
<1>8. TypeOK'
  BY <1>3, <1>4, <1>6, <1>7, Kept DEF TypeOK, MacCount, HistNames, Results
<1> QED BY <1>1, <1>2, <1>8, EmitKeepsHeld DEF MacCount

(* The step Chain keeps to known transactions.                             *)
LEMMA ChainHeld ==
  ASSUME Held, NEW v \in Results, Chain(v)
  PROVE  Held'
<1> DEFINE chain == job.chains[v][group]
           links == [i \in 1 .. Len(chain) - 1 |->
                       Message(chain[i], <<chain[i + 1]>>, Packets(v, Len(job.chains[v])),
                               LinkDependencies(v, i))]
<1>1. /\ Emit(links)
      /\ ends' = IF links = <<>> THEN ends ELSE Append(ends, Len(tcs) + Len(links) - 1)
  BY DEF Chain
<1>2. Len(chain) \in Nat
  <2>1. /\ job.chains[v] \in Seq(Seq(Nat))
        /\ DOMAIN job.chains[v] = 1 .. Len(job.chains[v])
        /\ Len(job.chains[v]) \in Nat
    BY JobOK
  <2>2. group \in 1 .. Len(job.chains[v])
    BY <2>1 DEF Held, TypeOK, Chain
  <2>3. chain \in Seq(Nat)
    BY <2>1, <2>2
  <2> HIDE DEF chain
  <2> QED BY <2>3
<1> HIDE DEF chain
<1> DEFINE n == IF Len(chain) = 0 THEN 0 ELSE Len(chain) - 1
<1>3. n \in Nat /\ 1 .. Len(chain) - 1 = 1 .. n
  BY <1>2
<1> HIDE DEF n
<1>4. links = [k \in 1 .. n |-> links[k]]
  BY <1>3
<1>5. ASSUME NEW k \in 1 .. n
      PROVE  links[k].deps \in IdsBelow(Len(tcs) + k - 1)
  <2>1. links[k].deps = LinkDependencies(v, k)
    BY <1>3 DEF Message
  <2>2. CASE k = 1
    <3>1. LinkDependencies(v, k) \in Seq(KnownIds)
      BY <2>2, ComputedKnown DEF LinkDependencies
    <3> HIDE DEF links
    <3> QED BY <2>1, <2>2, <3>1, KnownIdsBelow
  <2>3. CASE k # 1
    <3>1. Len(tcs) \in Nat
      BY DEF Held, IsSequence
    <3>2. Len(tcs) + k - 2 \in 0 .. Len(tcs) + k - 1 - 1
      BY <1>3, <2>3, <3>1
    <3>3. LinkDependencies(v, k) = <<Len(tcs) + k - 2>>
      BY <2>3 DEF LinkDependencies
    <3>4. <<Len(tcs) + k - 2>> \in Seq(0 .. Len(tcs) + k - 1 - 1)
      BY <3>2
    <3> HIDE DEF links
    <3> QED BY <2>1, <3>3, <3>4 DEF IdsBelow
  <2> QED BY <2>2, <2>3
<1>6. Ready(links) /\ Len(links) = n
  <2> HIDE DEF links
  <2> QED BY <1>3, <1>4, <1>5, ReadyWhen, ListIsSequence
<1> HIDE DEF links
<1>7. Len(tcs) \in Nat /\ Len(tcs') \in Nat /\ Len(tcs) <= Len(tcs')
  BY <1>1, <1>6, Growth
<1>8. TypeOK
  BY DEF Held
<1>9. ends' \in Seq(KnownIds')
  <2>1. ends \in Seq(KnownIds')
    <3>1. Seq(KnownIds) \subseteq Seq(KnownIds')
      BY <1>7, <1>8, Kept
    <3> QED BY <1>8, <3>1 DEF TypeOK
  <2>2. CASE links = <<>>
    BY <1>1, <2>1, <2>2
  <2>3. CASE links # <<>>
    <3>1. n # 0
      <4>1. ASSUME n = 0 PROVE FALSE
        <5>1. links = [k \in 1 .. 0 |-> links[k]]
          BY <1>4, <4>1
        <5>2. links = <<>>
          BY <5>1
        <5> QED BY <2>3, <5>2
      <4> QED BY <4>1
    <3>2. Len(tcs') = Len(tcs) + n
      BY <1>1, <1>6, Emitted
    <3>3. Len(tcs) + Len(links) - 1 \in KnownIds'
      BY <1>3, <1>6, <1>7, <3>1, <3>2 DEF KnownIds
    <3> QED BY <1>1, <2>1, <2>3, <3>3
  <2> QED BY <2>2, <2>3
<1>10. group' \in Nat \ {0}
  BY <1>8 DEF TypeOK, Chain
<1>11. TypeOK'
  BY <1>7, <1>8, <1>9, <1>10, Kept DEF TypeOK, Chain, HistNames, Results
<1> QED BY <1>1, <1>6, <1>11, EmitKeepsHeld DEF Chain

(* The step ChainsDone keeps to known transactions.                        *)
LEMMA ChainsDoneHeld ==
  ASSUME Held, NEW v \in Results, ChainsDone(v)
  PROVE  Held'
<1>1. KnownIds' = KnownIds
  BY DEF ChainsDone, KnownIds
<1>2. <<>> \in Seq(KnownIds)
  OBVIOUS
<1>3. pc' \in Calls
  BY DEF ChainsDone, Calls, Results
<1>4. tails' \in [Results -> Seq(KnownIds)]
  <2>1. (IF ends = <<>> THEN Computed(v) ELSE ends) \in Seq(KnownIds)
    BY ComputedKnown, ReadsKnown
  <2>2. tails \in [Results -> Seq(KnownIds)]
    BY DEF Held, TypeOK, Results
  <2> QED BY <2>1, <2>2 DEF ChainsDone
<1>5. TypeOK'
  BY <1>1, <1>2, <1>3, <1>4 DEF Held, TypeOK, ChainsDone, Results
<1> QED BY <1>5 DEF Held, ChainsDone, IsSequence

(* Where the NoC loop continues. *)
LEMMA NextStepOK ==
  ASSUME nocI \in Nat, NextStep
  PROVE  nocI' \in Nat /\ pc' \in Calls
<1>1. nocI + 1 \in Nat
  OBVIOUS
<1>2. <<"load", "weight">> \in Calls /\ <<"store_to_dram", "psum">> \in Calls
  BY DEF Calls, Tensors
<1> QED BY <1>1, <1>2 DEF NextStep

(* The step StorePsum keeps to known transactions.                         *)
LEMMA StorePsumHeld ==
  ASSUME Held, StorePsum
  PROVE  Held'
<1> DEFINE batch == Stores("psum")
<1>1. Emit(batch) /\ hist' = [hist EXCEPT !["psum"] = With(@, nocI, NewIds(batch))]
  BY DEF StorePsum
<1>2. Ready(batch)
  BY StoresReady DEF Results
<1> HIDE DEF batch
<1>3. Len(tcs) \in Nat /\ Len(tcs') \in Nat /\ Len(tcs) <= Len(tcs')
  BY <1>1, <1>2, Growth
<1>4. TypeOK
  BY DEF Held
<1>5. NewIds(batch) \in Seq(KnownIds')
  BY <1>1, <1>2, Growth
<1>6. /\ DOMAIN hist' = HistNames
      /\ \A w \in HistNames : \A n \in DOMAIN hist'[w] : hist'[w][n] \in Seq(KnownIds')
  <2>1. \A w \in HistNames : \A n \in DOMAIN hist[w] : hist[w][n] \in Seq(KnownIds')
    BY <1>3, <1>4, Kept
  <2>2. "psum" \in HistNames
    BY DEF HistNames
  <2> QED BY <1>1, <1>5, <2>1, <2>2, HistoryExtended
<1>7. pc' \in Calls /\ nocI' \in Nat
  <2>1. CASE IsLast(job, dramI, nocI, ReductionDims)
    BY <1>4, <2>1 DEF StorePsum, TypeOK, Calls, Tensors
  <2>2. CASE ~IsLast(job, dramI, nocI, ReductionDims)
    BY <1>4, <2>2, NextStepOK DEF StorePsum, TypeOK
  <2> QED BY <2>1, <2>2
<1>8. UNCHANGED <<job, dramI, group, tileLoad, prevStore, loaded, ends, tails,
                  vmemRing, lifRing>>
  BY DEF StorePsum
<1>9. TypeOK'
  BY <1>3, <1>4, <1>6, <1>7, <1>8, Kept DEF TypeOK, HistNames, Results
<1> QED BY <1>1, <1>2, <1>8, <1>9, EmitKeepsHeld

(* The step LoadVmem keeps to known transactions.                          *)
LEMMA LoadVmemHeld ==
  ASSUME Held, LoadVmem
  PROVE  Held'
<1> DEFINE deps  == LatestBut(vmemRing, 1) \o LatestBut(vmemRing, 0)
                      \o tileLoad["vmem"] \o DramStore("vmem")
           batch == Loads("vmem", deps)
<1>1. Emit(batch) /\ loaded' = NewIds(batch)
  BY DEF LoadVmem
<1>2. Ready(batch)
  <2>1. /\ LatestBut(vmemRing, 1) \in Seq(KnownIds)
        /\ LatestBut(vmemRing, 0) \in Seq(KnownIds)
        /\ tileLoad["vmem"] \in Seq(KnownIds) /\ DramStore("vmem") \in Seq(KnownIds)
    BY ReadsKnown DEF Tensors, Results
  <2>2. deps \in Seq(KnownIds)
    BY <2>1, IdsConcat
  <2> HIDE DEF deps
  <2> QED BY <2>2, LoadsReady DEF Results
<1> HIDE DEF deps, batch
<1>3. Len(tcs) \in Nat /\ Len(tcs') \in Nat /\ Len(tcs) <= Len(tcs')
  BY <1>1, <1>2, Growth
<1>4. TypeOK
  BY DEF Held
<1>5. NewIds(batch) \in Seq(KnownIds')
  BY <1>1, <1>2, Growth
<1>6. pc' \in Calls
  BY DEF LoadVmem, Calls
<1>7. TypeOK'
  BY <1>1, <1>3, <1>4, <1>5, <1>6, Kept DEF TypeOK, LoadVmem, HistNames, Results
<1> QED BY <1>1, <1>2, <1>7, EmitKeepsHeld DEF LoadVmem

(* The step LifCount keeps to known transactions.                          *)
LEMMA LifCountHeld ==
  ASSUME Held, LifCount
  PROVE  Held'
<1> DEFINE batch == Counts(Cycles.lif, LifDependencies)
<1>1. Emit(batch) /\ lifRing' = Pushed(lifRing, NewIds(batch))
  BY DEF LifCount
<1>2. Ready(batch)
  <2>1. LifDependencies \in Seq(KnownIds)
    <3>1. /\ tails["psum"] \in Seq(KnownIds) /\ loaded \in Seq(KnownIds)
          /\ tails["vmem"] \in Seq(KnownIds) /\ LatestBut(lifRing, 1) \in Seq(KnownIds)
      BY ReadsKnown DEF Results
    <3> QED BY <3>1, IdsConcat DEF LifDependencies
  <2> QED BY <2>1, CountsReady
<1> HIDE DEF batch
<1>3. Len(tcs) \in Nat /\ Len(tcs') \in Nat /\ Len(tcs) <= Len(tcs')
  BY <1>1, <1>2, Growth
<1>4. TypeOK
  BY DEF Held
<1>5. NewIds(batch) \in Seq(KnownIds')
  BY <1>1, <1>2, Growth
<1>6. lifRing' \in Seq(Seq(KnownIds'))
  <2>1. lifRing \in Seq(Seq(KnownIds'))
    BY <1>3, <1>4, Kept
  <2> QED BY <1>1, <1>5, <2>1, RingOK
<1>7. pc' \in Calls
  BY DEF LifCount, Calls
<1>8. TypeOK'
  BY <1>3, <1>4, <1>6, <1>7, Kept DEF TypeOK, LifCount, HistNames, Results
<1> QED BY <1>1, <1>2, <1>8, EmitKeepsHeld DEF LifCount

(* The step StoreVmem keeps to known transactions.                         *)
LEMMA StoreVmemHeld ==
  ASSUME Held, StoreVmem
  PROVE  Held'
<1> DEFINE batch == Stores("vmem")
<1>1. /\ Emit(batch) /\ hist' = [hist EXCEPT !["vmem"] = With(@, nocI, NewIds(batch))]
      /\ vmemRing' = Pushed(vmemRing, NewIds(batch))
  BY DEF StoreVmem
<1>2. Ready(batch)
  BY StoresReady DEF Results
<1> HIDE DEF batch
<1>3. Len(tcs) \in Nat /\ Len(tcs') \in Nat /\ Len(tcs) <= Len(tcs')
  BY <1>1, <1>2, Growth
<1>4. TypeOK
  BY DEF Held
<1>5. NewIds(batch) \in Seq(KnownIds')
  BY <1>1, <1>2, Growth
<1>6. /\ DOMAIN hist' = HistNames
      /\ \A w \in HistNames : \A n \in DOMAIN hist'[w] : hist'[w][n] \in Seq(KnownIds')
  <2>1. \A w \in HistNames : \A n \in DOMAIN hist[w] : hist[w][n] \in Seq(KnownIds')
    BY <1>3, <1>4, Kept
  <2>2. "vmem" \in HistNames
    BY DEF HistNames
  <2> QED BY <1>1, <1>5, <2>1, <2>2, HistoryExtended
<1>7. vmemRing' \in Seq(Seq(KnownIds'))
  <2>1. vmemRing \in Seq(Seq(KnownIds'))
    BY <1>3, <1>4, Kept
  <2> QED BY <1>1, <1>5, <2>1, RingOK
<1>8. pc' \in Calls /\ nocI' \in Nat
  BY <1>4, NextStepOK DEF StoreVmem, TypeOK
<1>9. UNCHANGED <<job, dramI, group, tileLoad, prevStore, loaded, ends, tails, lifRing>>
  BY DEF StoreVmem
<1>10. TypeOK'
  BY <1>3, <1>4, <1>6, <1>7, <1>8, <1>9, Kept DEF TypeOK, HistNames, Results
<1> QED BY <1>1, <1>2, <1>9, <1>10, EmitKeepsHeld

(* Where the DRAM loop continues. *)
LEMMA NextDramStepOK ==
  ASSUME dramI \in Nat, nocI \in Nat, NextDramStep
  PROVE  dramI' \in Nat /\ nocI' \in Nat /\ pc' \in Calls
<1>1. dramI + 1 \in Nat
  OBVIOUS
<1>2. <<"load_from_dram", "weight">> \in Calls /\ <<"return", "gen">> \in Calls
  BY DEF Calls, Tensors
<1> QED BY <1>1, <1>2 DEF NextDramStep

(* The step StoreToDram keeps to known transactions.                       *)
LEMMA StoreToDramHeld ==
  ASSUME Held, NEW v \in Results, StoreToDram(v)
  PROVE  Held'
<1> DEFINE stores == Entry(hist[v], nocI)
           deps   == IF stores = <<>> THEN tails[v] ELSE stores
           batch  == IF SkipTileStore(v) THEN <<>>
                     ELSE <<Message(GbPort, <<DramPort>>, Packets(v, 1), deps)>>
<1>1. /\ Emit(batch)
      /\ prevStore' = [prevStore EXCEPT ![v] =
                         IF job.single THEN FirstOf(stores) ELSE NewIds(batch)]
  BY DEF StoreToDram
<1>2. stores \in Seq(KnownIds)
  BY EntryKnown DEF HistNames, Results
<1>3. Ready(batch)
  <2>1. deps \in Seq(KnownIds)
    BY <1>2, ReadsKnown
  <2> HIDE DEF deps
  <2> QED BY <2>1, NothingIsReady, MessageReady
<1> HIDE DEF stores, deps, batch
<1>4. Len(tcs) \in Nat /\ Len(tcs') \in Nat /\ Len(tcs) <= Len(tcs')
  BY <1>1, <1>3, Growth
<1>5. TypeOK
  BY DEF Held
<1>6. prevStore' \in [Tensors -> Seq(KnownIds')]
  <2>1. NewIds(batch) \in Seq(KnownIds')
    BY <1>1, <1>3, Growth
  <2>2. Seq(KnownIds) \subseteq Seq(KnownIds')
    BY <1>4, <1>5, Kept
  <2>3. FirstOf(stores) \in Seq(KnownIds')
    <3>1. FirstOf(stores) \in Seq(KnownIds)
      BY <1>2 DEF FirstOf
    <3> QED BY <2>2, <3>1
  <2>4. prevStore \in [Tensors -> Seq(KnownIds')]
    BY <1>5, <2>2 DEF TypeOK
  <2> QED BY <1>1, <2>1, <2>3, <2>4
<1>7. pc' \in Calls /\ dramI' \in Nat /\ nocI' \in Nat
  <2>1. CASE v = "psum"
    BY <1>5, <2>1 DEF StoreToDram, TypeOK, Calls
  <2>2. CASE v # "psum"
    BY <1>5, <2>2, NextDramStepOK DEF StoreToDram, TypeOK
  <2> QED BY <2>1, <2>2
<1>8. UNCHANGED <<job, group, tileLoad, hist, loaded, ends, tails, vmemRing, lifRing>>
  BY DEF StoreToDram
<1>9. TypeOK'
  BY <1>4, <1>5, <1>6, <1>7, <1>8, Kept DEF TypeOK, HistNames, Results
<1> QED BY <1>1, <1>3, <1>8, <1>9, EmitKeepsHeld

-----------------------------------------------------------------------------
(* The theorems.                                                           *)

(* No step breaks the invariant.                                           *)
LEMMA StepHeld == Held /\ [Next]_vars => Held'
<1> SUFFICES ASSUME Held, [Next]_vars PROVE Held'
  OBVIOUS
<1>1. ASSUME NEW v \in Tensors, LoadFromDram(v) PROVE Held'
  BY <1>1, LoadFromDramHeld
<1>2. CASE ResetHistories
  BY <1>2, ResetHistoriesHeld
<1>3. CASE LoadWeight
  BY <1>3, LoadWeightHeld
<1>4. CASE LoadPsum
  BY <1>4, LoadPsumHeld
<1>5. CASE MacCount
  BY <1>5, MacCountHeld
<1>6. CASE StorePsum
  BY <1>6, StorePsumHeld
<1>7. CASE LoadVmem
  BY <1>7, LoadVmemHeld
<1>8. CASE LifCount
  BY <1>8, LifCountHeld
<1>9. CASE StoreVmem
  BY <1>9, StoreVmemHeld
<1>10. ASSUME NEW v \in Results, Chain(v) PROVE Held'
  BY <1>10, ChainHeld
<1>11. ASSUME NEW v \in Results, ChainsDone(v) PROVE Held'
  BY <1>11, ChainsDoneHeld
<1>12. ASSUME NEW v \in Results, StoreToDram(v) PROVE Held'
  BY <1>12, StoreToDramHeld
<1>13. CASE UNCHANGED vars
  BY <1>13 DEF vars, dependencyState, Held, TypeOK, KnownIds, IsSequence
<1> QED BY <1>1, <1>2, <1>3, <1>4, <1>5, <1>6, <1>7, <1>8, <1>9, <1>10, <1>11,
           <1>12, <1>13 DEF Next, Returned, Results

(* It holds of every reachable state.                                      *)
LEMMA HeldInvariant == Spec => []Held
<1>1. Init => Held
  BY InitHeld
<1>2. Held /\ [Next]_vars => Held'
  BY StepHeld
<1> QED BY <1>1, <1>2, PTL DEF Spec

(* For every layer the generator stays within its types: whatever it keeps *)
(* to wait for later is the tc_id of a transaction already in the list.    *)
THEOREM GeneratorTypeCorrect == Spec => []TypeOK
<1>1. Held => TypeOK
  BY DEF Held
<1> QED BY <1>1, HeldInvariant, PTL

(* For every layer the transactions depend on earlier ones only, so that   *)
(* the list has no cycle (EventSim.h:175-181).                             *)
THEOREM PointBackCorrect == Spec => []DependenciesPointBack
<1>1. Held => DependenciesPointBack
  <2> SUFFICES ASSUME Held, NEW i \in DOMAIN tcs, NEW k \in DOMAIN tcs[i].deps
               PROVE  tcs[i].deps[k] \in 0 .. i - 2
    BY DEF DependenciesPointBack
  <2>1. i \in 1 .. Len(tcs)
    BY DEF Held, IsSequence
  <2>2. tcs[i].deps \in Seq(0 .. (i - 1) - 1)
    BY <2>1 DEF Held, IdsBelow
  <2>3. (i - 1) - 1 = i - 2
    BY <2>1
  <2> QED BY <2>2, <2>3
<1> QED BY <1>1, HeldInvariant, PTL

-----------------------------------------------------------------------------
(* What a step emits.                                                      *)

(* Emitted by the builder that pc names, in the current step.              *)
Stamped(batch) ==
  /\ IsSequence(batch)
  /\ \A k \in 1 .. Len(batch) :
       batch[k].label = pc /\ batch[k].dram = dramI /\ batch[k].noc = nocI

(* A list written element by element is stamped if its elements are.       *)
LEMMA StampedWhen ==
  ASSUME NEW n \in Nat, NEW batch, batch = [k \in 1 .. n |-> batch[k]],
         \A k \in 1 .. n : batch[k].label = pc /\ batch[k].dram = dramI /\ batch[k].noc = nocI
  PROVE  Stamped(batch)
BY ListIsSequence DEF Stamped

(* No transaction, one message and a list of counts are.                   *)
LEMMA StampedBatches ==
  ASSUME Held
  PROVE  /\ Stamped(<<>>)
         /\ \A src, dests, packets, deps : Stamped(<<Message(src, dests, packets, deps)>>)
         /\ \A busy, deps : Stamped(Counts(busy, deps))
<1>1. Stamped(<<>>)
  <2>1. <<>> = [k \in 1 .. 0 |-> <<>>[k]]
    OBVIOUS
  <2>2. \A k \in 1 .. 0 : /\ <<>>[k].label = pc /\ <<>>[k].dram = dramI
                          /\ <<>>[k].noc = nocI
    OBVIOUS
  <2> QED BY <2>1, <2>2, StampedWhen
<1>2. ASSUME NEW src, NEW dests, NEW packets, NEW deps
      PROVE  Stamped(<<Message(src, dests, packets, deps)>>)
  <2>1. PICK tc : tc = Message(src, dests, packets, deps)
    OBVIOUS
  <2>2. tc.label = pc /\ tc.dram = dramI /\ tc.noc = nocI
    BY <2>1 DEF Message
  <2>3. PICK batch : batch = <<tc>>
    OBVIOUS
  <2>4. batch = [k \in 1 .. 1 |-> batch[k]] /\ \A k \in 1 .. 1 : batch[k] = tc
    BY <2>3
  <2>5. Stamped(batch)
    BY <2>2, <2>4, StampedWhen
  <2> QED BY <2>1, <2>3, <2>5
<1>3. ASSUME NEW busy, NEW deps PROVE Stamped(Counts(busy, deps))
  <2>1. PICK batch : batch = Counts(busy, deps)
    OBVIOUS
  <2>2. NumPes \in Nat
    BY JobOK
  <2>3. batch = [k \in 1 .. NumPes |-> batch[k]]
    BY <2>1 DEF Counts
  <2>4. \A k \in 1 .. NumPes : /\ batch[k].label = pc /\ batch[k].dram = dramI
                               /\ batch[k].noc = nocI
    BY <2>1 DEF Counts
  <2> QED BY <2>1, <2>2, <2>3, <2>4, StampedWhen
<1> QED BY <1>1, <1>2, <1>3

(* So is a list of messages.                                               *)
LEMMA StampedMessages ==
  ASSUME NEW n \in Nat, NEW batch, batch = [k \in 1 .. n |-> batch[k]],
         \A k \in 1 .. n : \E src, dests, packets, deps :
           batch[k] = Message(src, dests, packets, deps)
  PROVE  Stamped(batch)
<1>1. \A src, dests, packets, deps :
        LET tc == Message(src, dests, packets, deps)
        IN  tc.label = pc /\ tc.dram = dramI /\ tc.noc = nocI
  BY DEF Message
<1>2. ASSUME NEW k \in 1 .. n
      PROVE  batch[k].label = pc /\ batch[k].dram = dramI /\ batch[k].noc = nocI
  <2>1. PICK src, dests, packets, deps : batch[k] = Message(src, dests, packets, deps)
    OBVIOUS
  <2> QED BY <1>1, <2>1
<1> QED BY <1>2, StampedWhen

(* The lists of the loads and the stores of a result, and the links of a   *)
(* chain.                                                                  *)
LEMMA StampedResults ==
  ASSUME Held, NEW v \in Results
  PROVE  /\ \A deps : Stamped(Loads(v, deps))
         /\ Stamped(Stores(v))
         /\ group \in DOMAIN job.chains[v] =>
              LET chain == job.chains[v][group]
              IN  Stamped([i \in 1 .. Len(chain) - 1 |->
                             Message(chain[i], <<chain[i + 1]>>,
                                     Packets(v, Len(job.chains[v])),
                                     LinkDependencies(v, i))])
<1>1. PICK n \in Nat : n = Len(job.chains[v]) /\ DOMAIN job.chains[v] = 1 .. n
  BY JobOK
<1>2. ASSUME NEW deps PROVE Stamped(Loads(v, deps))
  <2>1. PICK batch : batch = Loads(v, deps)
    OBVIOUS
  <2>2. CASE SkipLoad(v)
    BY <2>1, <2>2, StampedBatches DEF Loads
  <2>3. CASE ~SkipLoad(v)
    <3>1. batch = [g \in 1 .. n |-> Message(OuterPort, <<Entrance(v, job.chains[v][g])>>,
                                            Packets(v, Len(job.chains[v])), deps)]
      BY <1>1, <2>1, <2>3 DEF Loads
    <3>2. batch = [k \in 1 .. n |-> batch[k]]
      BY <3>1
    <3>3. \A k \in 1 .. n : \E src, dests, packets, d : batch[k] = Message(src, dests, packets, d)
      BY <3>1
    <3> QED BY <2>1, <3>2, <3>3, StampedMessages
  <2> QED BY <2>2, <2>3
<1>3. Stamped(Stores(v))
  <2>1. PICK batch : batch = Stores(v)
    OBVIOUS
  <2>2. CASE SkipStore(v)
    BY <2>1, <2>2, StampedBatches DEF Stores
  <2>3. CASE ~SkipStore(v)
    <3>1. batch = [g \in 1 .. n |-> Message(Last(job.chains[v][g]), <<OuterPort>>,
                                            Packets(v, Len(job.chains[v])), tails[v])]
      BY <1>1, <2>1, <2>3 DEF Stores
    <3>2. batch = [k \in 1 .. n |-> batch[k]]
      BY <3>1
    <3>3. \A k \in 1 .. n : \E src, dests, packets, d : batch[k] = Message(src, dests, packets, d)
      BY <3>1
    <3> QED BY <2>1, <3>2, <3>3, StampedMessages
  <2> QED BY <2>2, <2>3
<1>4. ASSUME group \in DOMAIN job.chains[v]
      PROVE  LET chain == job.chains[v][group]
             IN  Stamped([i \in 1 .. Len(chain) - 1 |->
                            Message(chain[i], <<chain[i + 1]>>,
                                    Packets(v, Len(job.chains[v])),
                                    LinkDependencies(v, i))])
  <2>1. PICK chain \in Seq(Nat) : chain = job.chains[v][group]
    BY <1>4, JobOK
  <2>2. PICK m \in Nat : m = Len(chain)
    OBVIOUS
  <2>3. PICK batch : batch = [i \in 1 .. m - 1 |->
                                Message(chain[i], <<chain[i + 1]>>,
                                        Packets(v, Len(job.chains[v])),
                                        LinkDependencies(v, i))]
    OBVIOUS
  <2>4. batch = [k \in 1 .. m - 1 |-> batch[k]]
    BY <2>3
  <2>5. \A k \in 1 .. m - 1 : \E src, dests, packets, d :
          batch[k] = Message(src, dests, packets, d)
    BY <2>3
  <2>6. CASE m = 0
    <3>1. 1 .. m - 1 = 1 .. 0
      BY <2>6
    <3>2. 0 \in Nat
      OBVIOUS
    <3>3. Stamped(batch)
      BY <2>4, <2>5, <3>1, <3>2, StampedMessages
    <3> QED BY <2>1, <2>2, <2>3, <3>3
  <2>7. CASE m # 0
    <3>1. m - 1 \in Nat
      BY <2>7
    <3>2. Stamped(batch)
      BY <2>4, <2>5, <3>1, StampedMessages
    <3> QED BY <2>1, <2>2, <2>3, <3>2
  <2> QED BY <2>6, <2>7
<1> QED BY <1>2, <1>3, <1>4

(* Every step adds to the list what the builder it calls emits.            *)
LEMMA StepAppends ==
  ASSUME Held, Next
  PROVE  job' = job /\ \E batch : Stamped(batch) /\ tcs' = tcs \o batch
<1>1. \A batch : Emit(batch) => tcs' = tcs \o batch
  BY DEF Emit
<1>2. tcs = tcs \o <<>>
  BY DEF Held, IsSequence
<1>3. Stamped(<<>>)
  BY StampedBatches
<1>4. ASSUME NEW v \in Tensors, LoadFromDram(v)
      PROVE  job' = job /\ \E batch : Stamped(batch) /\ tcs' = tcs \o batch
  <2>1. PICK tc : tc = Message(DramPort, <<GbPort>>, Packets(v, 1), prevStore[v])
    OBVIOUS
  <2>2. Stamped(<<tc>>)
    BY <2>1, StampedBatches
  <2>3. Emit(IF SkipTileLoad(v) THEN <<>> ELSE <<tc>>)
    BY <1>4, <2>1 DEF LoadFromDram
  <2>4. job' = job
    BY <1>4 DEF LoadFromDram
  <2>5. CASE SkipTileLoad(v)
    <3>1. tcs' = tcs \o <<>>
      BY <1>1, <2>3, <2>5
    <3> QED BY <1>3, <2>4, <3>1
  <2>6. CASE ~SkipTileLoad(v)
    <3>1. tcs' = tcs \o <<tc>>
      BY <1>1, <2>3, <2>6
    <3> QED BY <2>2, <2>4, <3>1
  <2> QED BY <2>5, <2>6
<1>5. CASE ResetHistories
  BY <1>2, <1>3, <1>5 DEF ResetHistories
<1>6. CASE LoadWeight
  <2>1. PICK deps, batch :
          /\ batch = IF ~WeightChanges(job, nocI) THEN <<>>
                     ELSE [g \in DOMAIN job.weightGroups |->
                             Message(OuterPort, job.weightGroups[g],
                                     Packets("weight", Len(job.weightGroups)), deps)]
          /\ Emit(batch)
    BY <1>6 DEF LoadWeight
  <2>2. job' = job
    BY <1>6 DEF LoadWeight
  <2>3. Stamped(batch)
    <3>1. CASE ~WeightChanges(job, nocI)
      BY <1>3, <2>1, <3>1
    <3>2. CASE WeightChanges(job, nocI)
      <4>1. PICK n \in Nat : DOMAIN job.weightGroups = 1 .. n
        BY JobOK
      <4>2. batch = [g \in 1 .. n |->
                       Message(OuterPort, job.weightGroups[g],
                               Packets("weight", Len(job.weightGroups)), deps)]
        BY <2>1, <3>2, <4>1
      <4>3. batch = [k \in 1 .. n |-> batch[k]]
        BY <4>2
      <4>4. \A k \in 1 .. n : \E src, dests, packets, d :
              batch[k] = Message(src, dests, packets, d)
        BY <4>2
      <4> QED BY <4>3, <4>4, StampedMessages
    <3> QED BY <3>1, <3>2
  <2> QED BY <1>1, <2>1, <2>2, <2>3
<1>7. CASE LoadPsum
  <2>1. PICK deps : Emit(Loads("psum", deps))
    BY <1>7 DEF LoadPsum
  <2>2. Stamped(Loads("psum", deps))
    BY StampedResults DEF Results
  <2> QED BY <1>1, <1>7, <2>1, <2>2 DEF LoadPsum
<1>8. CASE MacCount
  <2>1. PICK deps : Emit(Counts(Cycles.mac, deps))
    BY <1>8 DEF MacCount
  <2>2. Stamped(Counts(Cycles.mac, deps))
    BY StampedBatches
  <2> QED BY <1>1, <1>8, <2>1, <2>2 DEF MacCount
<1>9. CASE StorePsum
  <2>1. Emit(Stores("psum")) /\ job' = job
    BY <1>9 DEF StorePsum
  <2>2. Stamped(Stores("psum"))
    BY StampedResults DEF Results
  <2> QED BY <1>1, <2>1, <2>2
<1>10. CASE LoadVmem
  <2>1. PICK deps : Emit(Loads("vmem", deps))
    BY <1>10 DEF LoadVmem
  <2>2. Stamped(Loads("vmem", deps))
    BY StampedResults DEF Results
  <2> QED BY <1>1, <1>10, <2>1, <2>2 DEF LoadVmem
<1>11. CASE LifCount
  <2>1. PICK deps : Emit(Counts(Cycles.lif, deps))
    BY <1>11 DEF LifCount
  <2>2. Stamped(Counts(Cycles.lif, deps))
    BY StampedBatches
  <2> QED BY <1>1, <1>11, <2>1, <2>2 DEF LifCount
<1>12. CASE StoreVmem
  <2>1. Emit(Stores("vmem")) /\ job' = job
    BY <1>12 DEF StoreVmem
  <2>2. Stamped(Stores("vmem"))
    BY StampedResults DEF Results
  <2> QED BY <1>1, <2>1, <2>2
<1>13. ASSUME NEW v \in Results, Chain(v)
       PROVE  job' = job /\ \E batch : Stamped(batch) /\ tcs' = tcs \o batch
  <2>1. PICK links :
          /\ links = LET chain == job.chains[v][group]
                     IN  [i \in 1 .. Len(chain) - 1 |->
                            Message(chain[i], <<chain[i + 1]>>,
                                    Packets(v, Len(job.chains[v])),
                                    LinkDependencies(v, i))]
          /\ Emit(links)
    BY <1>13 DEF Chain
  <2>2. group \in DOMAIN job.chains[v]
    <3>1. group \in Nat \ {0} /\ group <= Len(job.chains[v])
      BY <1>13 DEF Chain, Held, TypeOK
    <3> QED BY <3>1, JobOK
  <2>3. Stamped(links)
    BY <2>1, <2>2, StampedResults
  <2>4. job' = job
    BY <1>13 DEF Chain
  <2> QED BY <1>1, <2>1, <2>3, <2>4
<1>14. ASSUME NEW v \in Results, ChainsDone(v)
       PROVE  job' = job /\ \E batch : Stamped(batch) /\ tcs' = tcs \o batch
  BY <1>2, <1>3, <1>14 DEF ChainsDone
<1>15. ASSUME NEW v \in Results, StoreToDram(v)
       PROVE  job' = job /\ \E batch : Stamped(batch) /\ tcs' = tcs \o batch
  <2>1. PICK deps : Emit(IF SkipTileStore(v) THEN <<>>
                         ELSE <<Message(GbPort, <<DramPort>>, Packets(v, 1), deps)>>)
    BY <1>15 DEF StoreToDram
  <2>2. PICK tc : tc = Message(GbPort, <<DramPort>>, Packets(v, 1), deps)
    OBVIOUS
  <2>3. Stamped(<<tc>>)
    BY <2>2, StampedBatches
  <2>4. job' = job
    BY <1>15 DEF StoreToDram
  <2>5. CASE SkipTileStore(v)
    <3>1. tcs' = tcs \o <<>>
      BY <1>1, <2>1, <2>5
    <3> QED BY <1>3, <2>4, <3>1
  <2>6. CASE ~SkipTileStore(v)
    <3>1. tcs' = tcs \o <<tc>>
      BY <1>1, <2>1, <2>2, <2>6
    <3> QED BY <2>3, <2>4, <3>1
  <2> QED BY <2>5, <2>6
<1>16. CASE Returned
  BY <1>2, <1>3, <1>16 DEF Returned, vars
<1> QED BY <1>4, <1>5, <1>6, <1>7, <1>8, <1>9, <1>10, <1>11, <1>12, <1>13, <1>14,
           <1>15, <1>16 DEF Next, Results

(* The list keeps what it has, and what is new names the builder and step. *)
LEMMA StepGrows ==
  ASSUME Held, Next
  PROVE  /\ job' = job
         /\ Len(tcs) \in Nat /\ DOMAIN tcs = 1 .. Len(tcs)
         /\ Len(tcs') \in Nat /\ DOMAIN tcs' = 1 .. Len(tcs')
         /\ Len(tcs) <= Len(tcs')
         /\ \A i \in 1 .. Len(tcs) : tcs'[i] = tcs[i]
         /\ \A i \in 1 .. Len(tcs') : i > Len(tcs) =>
              tcs'[i].label = pc /\ tcs'[i].dram = dramI /\ tcs'[i].noc = nocI
<1>1. PICK batch : Stamped(batch) /\ tcs' = tcs \o batch
  BY StepAppends
<1>2. /\ Len(tcs) \in Nat /\ Len(batch) \in Nat
      /\ Len(tcs') = Len(tcs) + Len(batch)
      /\ \A i \in 1 .. Len(tcs) : tcs'[i] = tcs[i]
      /\ \A k \in 1 .. Len(batch) : tcs'[Len(tcs) + k] = batch[k]
      /\ IsSequence(tcs) /\ IsSequence(tcs')
  BY <1>1, Joined DEF Held, Stamped
<1>3. ASSUME NEW i \in 1 .. Len(tcs'), i > Len(tcs)
      PROVE  tcs'[i].label = pc /\ tcs'[i].dram = dramI /\ tcs'[i].noc = nocI
  <2>1. i - Len(tcs) \in 1 .. Len(batch) /\ i = Len(tcs) + (i - Len(tcs))
    BY <1>2, <1>3
  <2> QED BY <1>1, <1>2, <2>1 DEF Stamped
<1>4. DOMAIN tcs = 1 .. Len(tcs) /\ DOMAIN tcs' = 1 .. Len(tcs')
  BY <1>2 DEF IsSequence
<1>5. job' = job
  BY StepAppends
<1>6. Len(tcs') \in Nat /\ Len(tcs) <= Len(tcs')
  BY <1>2
<1> QED BY <1>2, <1>3, <1>4, <1>5, <1>6

(* Each kind of transaction is at the steps where it was, and at the one   *)
(* in which it is emitted.                                                 *)
LEMMA StepsGrow ==
  ASSUME Held, Next, NEW op, NEW v
  PROVE  /\ \A s \in StepsWith(op, v) : s \in StepsWith(op, v)'
         /\ \A s \in StepsWith(op, v)' :
              \/ s \in StepsWith(op, v)
              \/ pc = <<op, v>> /\ s = <<dramI, nocI>> /\ tcs' # tcs
<1>1. /\ Len(tcs) \in Nat /\ DOMAIN tcs = 1 .. Len(tcs)
      /\ Len(tcs') \in Nat /\ DOMAIN tcs' = 1 .. Len(tcs')
      /\ Len(tcs) <= Len(tcs')
  BY StepGrows
<1>2. ASSUME NEW s \in StepsWith(op, v) PROVE s \in StepsWith(op, v)'
  <2>1. PICK i \in 1 .. Len(tcs) : tcs[i].label = <<op, v>> /\ s = StepOf(tcs[i])
    BY <1>1 DEF StepsWith, Labelled
  <2>2. i \in DOMAIN tcs' /\ tcs'[i] = tcs[i]
    BY <1>1, <2>1, StepGrows
  <2> QED BY <2>1, <2>2 DEF StepsWith, Labelled, StepOf
<1>3. ASSUME NEW s \in StepsWith(op, v)'
      PROVE  \/ s \in StepsWith(op, v)
             \/ pc = <<op, v>> /\ s = <<dramI, nocI>> /\ tcs' # tcs
  <2>1. PICK i \in 1 .. Len(tcs') : /\ tcs'[i].label = <<op, v>>
                                    /\ s = <<tcs'[i].dram, tcs'[i].noc>>
    BY <1>1, <1>3 DEF StepsWith, Labelled, StepOf
  <2>2. CASE i <= Len(tcs)
    <3>1. i \in DOMAIN tcs /\ tcs'[i] = tcs[i]
      BY <1>1, <2>1, <2>2, StepGrows
    <3> QED BY <2>1, <3>1 DEF StepsWith, Labelled, StepOf
  <2>3. CASE ~(i <= Len(tcs))
    <3>1. i > Len(tcs) /\ tcs' # tcs
      BY <1>1, <2>1, <2>3
    <3> QED BY <2>1, <3>1, StepGrows
  <2> QED BY <2>2, <2>3
<1> QED BY <1>2, <1>3

(* What is emitted in a step is at it.                                     *)
LEMMA EmittedInStep ==
  ASSUME Held, Next, NEW op, NEW v, pc = <<op, v>>, tcs' # tcs
  PROVE  <<dramI, nocI>> \in StepsWith(op, v)'
<1>1. PICK batch : Stamped(batch) /\ tcs' = tcs \o batch
  BY StepAppends
<1>2. /\ Len(tcs) \in Nat /\ Len(batch) \in Nat /\ Len(tcs') = Len(tcs) + Len(batch)
      /\ IsSequence(tcs) /\ IsSequence(tcs') /\ IsSequence(batch)
      /\ \A i \in 1 .. Len(tcs) : tcs'[i] = tcs[i]
  BY <1>1, Joined DEF Held, Stamped
<1>3. Len(batch) # 0
  <2> SUFFICES ASSUME Len(batch) = 0 PROVE tcs' = tcs
    OBVIOUS
  <2>1. batch = <<>>
    BY <1>2 DEF IsSequence
  <2>2. tcs \o <<>> = tcs
    BY <1>2 DEF IsSequence
  <2> QED BY <1>1, <2>1, <2>2
<1>4. PICK i : i = Len(tcs')
  OBVIOUS
<1>5. i \in DOMAIN tcs' /\ i \in 1 .. Len(tcs') /\ i > Len(tcs)
  BY <1>2, <1>3, <1>4, StepGrows
<1>6. tcs'[i].label = <<op, v>> /\ tcs'[i].dram = dramI /\ tcs'[i].noc = nocI
  BY <1>5, StepGrows
<1> QED BY <1>5, <1>6 DEF StepsWith, Labelled, StepOf

(* Something is emitted unless the batch is empty.                         *)
LEMMA BatchChanges ==
  ASSUME Held, NEW batch, Emit(batch)
  PROVE  /\ batch = <<>> => tcs' = tcs
         /\ IsSequence(batch) /\ Len(batch) # 0 => tcs' # tcs
<1>1. tcs' = tcs \o batch
  BY DEF Emit
<1>2. batch = <<>> => tcs' = tcs
  BY <1>1 DEF Held, IsSequence
<1>3. ASSUME IsSequence(batch), Len(batch) # 0 PROVE tcs' # tcs
  <2>1. Len(tcs) \in Nat /\ Len(batch) \in Nat /\ Len(tcs') = Len(tcs) + Len(batch)
    BY <1>1, <1>3, Joined DEF Held
  <2> QED BY <1>3, <2>1
<1> QED BY <1>2, <1>3

-----------------------------------------------------------------------------
(* Weights.  Between the load of a step and that of the next every PE has  *)
(* the weights of the step: those sent to it last are of the same tile.    *)

SentTo(pe) ==
  {j \in DOMAIN tcs : tcs[j].label = <<"load", "weight">> /\ Contains(tcs[j].dests, pe)}

SentBefore(i) ==
  {j \in Labelled("load", "weight") :
     j < i /\ Contains(tcs[j].dests, tcs[i].actor)}

Holding(n) ==
  \A pe \in 0 .. NumPes - 1 :
    /\ SentTo(pe) # {}
    /\ Tile(StepOf(tcs[Max(SentTo(pe))]), WeightDims) = Tile(<<dramI, n>>, WeightDims)

BeforeNocLoop == pc[1] \in {"load_from_dram", "reset"}
InNocStep     == pc[1] \in {"load", "count", "chain", "store"}

WeightsInv ==
  /\ BeforeNocLoop => nocI = 0
  /\ pc = <<"load", "weight">> /\ nocI > 0 => Holding(nocI - 1)
  /\ InNocStep /\ pc # <<"load", "weight">> => Holding(nocI)
  /\ \A i \in Labelled("count", "mac") :
       /\ SentBefore(i) # {}
       /\ Tile(StepOf(tcs[Max(SentBefore(i))]), WeightDims) = Tile(StepOf(tcs[i]), WeightDims)

(* A step that loads no weights sends none to any PE.                      *)
LEMMA NothingIsSent ==
  ASSUME Held, Next, pc # <<"load", "weight">>, NEW pe
  PROVE  SentTo(pe)' = SentTo(pe)
<1>1. ASSUME NEW j \in SentTo(pe) PROVE j \in SentTo(pe)'
  BY StepGrows DEF SentTo
<1>2. ASSUME NEW j \in SentTo(pe)' PROVE j \in SentTo(pe)
  <2>1. /\ j \in 1 .. Len(tcs') /\ tcs'[j].label = <<"load", "weight">>
        /\ Contains(tcs'[j].dests, pe)
    BY StepGrows DEF SentTo
  <2>2. j \in 1 .. Len(tcs)
    <3>1. Len(tcs) \in Nat /\ Len(tcs') \in Nat
      BY StepGrows
    <3>2. ~(j > Len(tcs))
      BY <2>1, StepGrows
    <3> QED BY <2>1, <3>1, <3>2
  <2>3. tcs'[j] = tcs[j]
    BY <2>2, StepGrows
  <2> QED BY <2>1, <2>2, <2>3, StepGrows DEF SentTo
<1> QED BY <1>1, <1>2

(* What a PE has been sent last is a transaction of the list.              *)
LEMMA LatestIsSent ==
  ASSUME Held, NEW pe, SentTo(pe) # {}
  PROVE  /\ Max(SentTo(pe)) \in 1 .. Len(tcs)
         /\ \A j \in SentTo(pe) : Max(SentTo(pe)) >= j
<1>1. Len(tcs) \in Nat /\ DOMAIN tcs = 1 .. Len(tcs)
  BY DEF Held, IsSequence
<1>2. SentTo(pe) \subseteq 1 .. Len(tcs)
  BY <1>1 DEF SentTo
<1> QED BY <1>1, <1>2, GreatestExists

(* The weights a PE was sent last are those of a transaction in the list.  *)
LEMMA LatestIsBefore ==
  ASSUME Held, NEW i, SentBefore(i) # {}
  PROVE  Max(SentBefore(i)) \in 1 .. Len(tcs)
<1>1. Len(tcs) \in Nat /\ DOMAIN tcs = 1 .. Len(tcs)
  BY DEF Held, IsSequence
<1>2. SentBefore(i) \subseteq 1 .. Len(tcs)
  BY <1>1 DEF SentBefore, Labelled
<1> QED BY <1>1, <1>2, GreatestExists

(* The tiles of a step are those of the job.                               *)
LEMMA TilesAreKept ==
  ASSUME job' = job, NEW s, NEW dims
  PROVE  Tile(s, dims)' = Tile(s, dims)
BY DEF Tile

(* The weights of a step stay until the next are loaded.                   *)
LEMMA WeightsStay ==
  ASSUME Held, Next, pc # <<"load", "weight">>, dramI' = dramI,
         NEW n \in Nat, Holding(n)
  PROVE  Holding(n)'
<1>1. job' = job
  BY StepGrows
<1>2. NumPes' = NumPes
  BY <1>1 DEF NumPes
<1>3. ASSUME NEW pe \in 0 .. NumPes - 1
      PROVE  /\ SentTo(pe)' # {}
             /\ Tile(StepOf(tcs[Max(SentTo(pe))]), WeightDims)'
                  = Tile(<<dramI, n>>, WeightDims)'
  <2>1. SentTo(pe) # {} /\ SentTo(pe)' = SentTo(pe)
    BY NothingIsSent DEF Holding
  <2>2. PICK m \in 1 .. Len(tcs) : m = Max(SentTo(pe))
    BY <2>1, LatestIsSent
  <2>3. m = Max(SentTo(pe))'
    BY <2>1, <2>2
  <2>4. tcs'[m] = tcs[m]
    BY <2>2, StepGrows
  <2>5. Tile(StepOf(tcs[m]), WeightDims) = Tile(<<dramI, n>>, WeightDims)
    BY <2>2 DEF Holding
  <2>6. Tile(StepOf(tcs[m]), WeightDims)' = Tile(<<dramI, n>>, WeightDims)'
    BY <1>1, <2>4, <2>5 DEF Tile, StepOf
  <2> QED BY <2>1, <2>3, <2>6
<1> QED BY <1>2, <1>3 DEF Holding

(* Nor does it matter to a computation in the list what comes after it.    *)
LEMMA PastIsKept ==
  ASSUME Held, Next, NEW i \in Labelled("count", "mac"),
         SentBefore(i) # {},
         Tile(StepOf(tcs[Max(SentBefore(i))]), WeightDims)
           = Tile(StepOf(tcs[i]), WeightDims)
  PROVE  /\ SentBefore(i)' # {}
         /\ Tile(StepOf(tcs[Max(SentBefore(i))]), WeightDims)'
              = Tile(StepOf(tcs[i]), WeightDims)'
<1>1. i \in 1 .. Len(tcs)
  BY StepGrows DEF Labelled
<1>2. tcs'[i] = tcs[i]
  BY <1>1, StepGrows
<1>3. SentBefore(i)' = SentBefore(i)
  <2>1. ASSUME NEW j \in SentBefore(i) PROVE j \in SentBefore(i)'
    <3>1. j \in 1 .. Len(tcs) /\ tcs'[j] = tcs[j]
      BY StepGrows DEF SentBefore, Labelled
    <3> QED BY <1>2, <3>1, StepGrows DEF SentBefore, Labelled
  <2>2. ASSUME NEW j \in SentBefore(i)' PROVE j \in SentBefore(i)
    <3>1. j \in 1 .. Len(tcs') /\ j < i
      BY StepGrows DEF SentBefore, Labelled
    <3>2. j \in 1 .. Len(tcs)
      <4>1. Len(tcs) \in Nat /\ Len(tcs') \in Nat
        BY StepGrows
      <4> QED BY <1>1, <3>1, <4>1
    <3>3. tcs'[j] = tcs[j]
      BY <3>2, StepGrows
    <3> QED BY <1>2, <3>2, <3>3, StepGrows DEF SentBefore, Labelled
  <2> QED BY <2>1, <2>2
<1>4. PICK m \in 1 .. Len(tcs) : m = Max(SentBefore(i))
  BY LatestIsBefore
<1>5. m = Max(SentBefore(i))'
  BY <1>3, <1>4
<1>6. tcs'[m] = tcs[m] /\ job' = job
  BY <1>4, StepGrows
<1>7. Tile(StepOf(tcs[m]), WeightDims)' = Tile(StepOf(tcs[i]), WeightDims)'
  BY <1>2, <1>4, <1>6 DEF Tile, StepOf
<1> QED BY <1>3, <1>5, <1>7

(* After the load of a step every PE has its weights.                      *)
LEMMA WeightsArrive ==
  ASSUME Held, LoadWeight, nocI > 0 => Holding(nocI - 1)
  PROVE  Holding(nocI)'
<1>1. pc = <<"load", "weight">> /\ dramI' = dramI /\ nocI' = nocI /\ Next
  BY DEF LoadWeight, Next
<1>2. job' = job
  BY <1>1, StepGrows
<1>3. NumPes' = NumPes
  BY <1>2 DEF NumPes
<1>4. dramI \in Nat /\ nocI \in Nat
  BY DEF Held, TypeOK
<1>5. PICK deps, batch :
        /\ batch = IF ~WeightChanges(job, nocI) THEN <<>>
                   ELSE [g \in DOMAIN job.weightGroups |->
                           Message(OuterPort, job.weightGroups[g],
                                   Packets("weight", Len(job.weightGroups)), deps)]
        /\ tcs' = tcs \o batch
  BY DEF LoadWeight, Emit
<1>6. CASE WeightChanges(job, nocI)
  <2>1. PICK n \in Nat : DOMAIN job.weightGroups = 1 .. n
    BY JobOK
  <2>2. batch = [g \in 1 .. n |->
                   Message(OuterPort, job.weightGroups[g],
                           Packets("weight", Len(job.weightGroups)), deps)]
    BY <1>5, <1>6, <2>1
  <2>3. batch = [k \in 1 .. n |-> batch[k]]
    BY <2>2
  <2>4. IsSequence(batch) /\ Len(batch) = n
    BY <2>3, ListIsSequence
  <2>5. /\ Len(tcs') = Len(tcs) + n
        /\ \A k \in 1 .. n : tcs'[Len(tcs) + k] = batch[k]
    <3>1. IsSequence(tcs) /\ IsSequence(batch)
      BY <2>4 DEF Held
    <3>2. tcs' = tcs \o batch
      BY <1>5
    <3>3. /\ Len(tcs') = Len(tcs) + Len(batch)
          /\ \A k \in 1 .. Len(batch) : tcs'[Len(tcs) + k] = batch[k]
      BY ONLY <3>1, <3>2, Joined
    <3> QED BY <2>4, <3>3
  <2>6. ASSUME NEW pe \in 0 .. NumPes - 1
        PROVE  /\ SentTo(pe)' # {}
               /\ Tile(StepOf(tcs[Max(SentTo(pe))]), WeightDims)'
                    = Tile(<<dramI, nocI>>, WeightDims)'
    <3>1. PICK g \in 1 .. n : Contains(job.weightGroups[g], pe)
      <4>1. /\ job.weightGroups \in Seq(Seq(Nat))
            /\ pe \in UNION {ToSet(g) : g \in ToSet(job.weightGroups)}
        <5>1. /\ job.weightGroups \in Groups(job)
              /\ PesOf(job) \subseteq UNION {ToSet(g) : g \in ToSet(job.weightGroups)}
          BY CombineAssumption DEF Held
        <5>2. Groups(job) \subseteq Seq(Seq(Nat))
          BY GroupsAre DEF Held
        <5> QED BY <5>1, <5>2 DEF PesOf, NumPes
      <4>2. PICK members \in ToSet(job.weightGroups) : pe \in ToSet(members)
        BY <4>1
      <4>3. PICK g \in 1 .. n : members = job.weightGroups[g]
        BY <2>1, <4>2 DEF ToSet
      <4>4. job.weightGroups[g] \in Seq(Nat)
        BY <2>1, <4>1
      <4>5. pe \in ToSet(job.weightGroups[g])
        BY <4>2, <4>3
      <4> QED BY ONLY <4>4, <4>5, g \in 1 .. n DEF ToSet, Contains
    <3>2. PICK j : j = Len(tcs) + g
      OBVIOUS
    <3>3. j \in 1 .. Len(tcs') /\ j > Len(tcs)
      BY <1>1, <2>5, <3>1, <3>2, StepGrows
    <3>4. tcs'[j].dests = job.weightGroups[g]
      <4>1. tcs'[j] = batch[g]
        BY <2>5, <3>1, <3>2
      <4> QED BY <2>2, <4>1 DEF Message
    <3>5. j \in SentTo(pe)'
      BY <1>1, <3>1, <3>3, <3>4, StepGrows DEF SentTo
    <3>6. PICK m : m = Max(SentTo(pe))'
      OBVIOUS
    <3>7. m \in 1 .. Len(tcs') /\ m >= j
      <4>1. SentTo(pe)' \subseteq 1 .. Len(tcs') /\ Len(tcs') \in Nat
        BY <1>1, StepGrows DEF SentTo
      <4>2. Max(SentTo(pe)') \in SentTo(pe)' /\ \A i \in SentTo(pe)' : Max(SentTo(pe)') >= i
        BY <3>5, <4>1, GreatestExists
      <4> QED BY <3>5, <3>6, <4>1, <4>2
    <3>8. m > Len(tcs)
      BY <1>1, <3>3, <3>7, StepGrows
    <3>9. tcs'[m].dram = dramI /\ tcs'[m].noc = nocI
      BY <1>1, <3>7, <3>8, StepGrows
    <3>10. StepOf(tcs'[m]) = <<dramI', nocI'>>
      BY <1>1, <3>9 DEF StepOf
    <3> QED BY <3>5, <3>6, <3>10
  <2> QED BY <1>3, <2>6 DEF Holding
<1>7. CASE ~WeightChanges(job, nocI)
  <2>1. tcs' = tcs
    BY <1>5, <1>7 DEF Held, IsSequence
  <2>2. /\ nocI # 0
        /\ \A dim \in WeightDims : Index(nocI, job.noc, dim) = Index(nocI - 1, job.noc, dim)
    BY <1>7 DEF WeightChanges
  <2>3. Holding(nocI - 1)
    BY <1>4, <2>2
  <2>4. Tile(<<dramI, nocI>>, WeightDims) = Tile(<<dramI, nocI - 1>>, WeightDims)
    BY <2>2 DEF Tile, CombinedIndex
  <2>5. Holding(nocI)
    BY <2>3, <2>4 DEF Holding
  <2> QED BY <1>1, <1>2, <1>3, <2>1, <2>5 DEF Holding, SentTo, Tile, StepOf
<1> QED BY <1>6, <1>7

(* Every computation, old or just emitted, has had the weights of its step.*)
LEMMA CountsHaveWeights ==
  ASSUME Held, WeightsInv, Next, NEW i \in Labelled("count", "mac")'
  PROVE  /\ SentBefore(i)' # {}
         /\ Tile(StepOf(tcs[Max(SentBefore(i))]), WeightDims)'
              = Tile(StepOf(tcs[i]), WeightDims)'
<1>1. i \in 1 .. Len(tcs') /\ tcs'[i].label = <<"count", "mac">>
  BY StepGrows DEF Labelled
<1>2. CASE i <= Len(tcs)
  <2>1. i \in 1 .. Len(tcs)
    <3>1. Len(tcs) \in Nat /\ Len(tcs') \in Nat
      BY StepGrows
    <3> QED BY <1>1, <1>2, <3>1
  <2>2. i \in Labelled("count", "mac")
    BY <1>1, <2>1, StepGrows DEF Labelled
  <2> QED BY <2>2, PastIsKept DEF WeightsInv
<1>3. CASE ~(i <= Len(tcs))
  <2>1. i > Len(tcs)
    <3>1. Len(tcs) \in Nat /\ Len(tcs') \in Nat
      BY StepGrows
    <3> QED BY <1>1, <1>3, <3>1
  <2>2. pc = <<"count", "mac">> /\ tcs'[i].dram = dramI /\ tcs'[i].noc = nocI
    BY <1>1, <2>1, StepGrows
  <2>3. MacCount
    BY <2>2 DEF Next, LoadFromDram, ResetHistories, LoadWeight, LoadPsum, StorePsum,
                LoadVmem, LifCount, StoreVmem, Chain, ChainsDone, StoreToDram, Returned
  <2>4. PICK pe \in 0 .. NumPes - 1 : tcs'[i].actor = pe
    <3>1. PICK busy, deps, batch : batch = Counts(busy, deps) /\ tcs' = tcs \o batch
      BY <2>3 DEF MacCount, Emit
    <3>2. NumPes \in Nat
      BY JobOK
    <3>3. batch = [k \in 1 .. NumPes |-> batch[k]] /\ \A k \in 1 .. NumPes : batch[k].actor = k - 1
      BY <3>1 DEF Counts
    <3>4. IsSequence(batch) /\ Len(batch) = NumPes
      BY <3>2, <3>3, ListIsSequence
    <3>5. IsSequence(tcs) /\ IsSequence(batch)
      BY <3>4 DEF Held
    <3>6. tcs' = tcs \o batch
      BY <3>1
    <3>7. /\ Len(tcs) \in Nat /\ Len(tcs') = Len(tcs) + Len(batch)
          /\ \A k \in 1 .. Len(batch) : tcs'[Len(tcs) + k] = batch[k]
      BY ONLY <3>5, <3>6, Joined
    <3>8. PICK k \in 1 .. NumPes : i = Len(tcs) + k
      <4>1. i - Len(tcs) \in 1 .. NumPes /\ i = Len(tcs) + (i - Len(tcs))
        BY <1>1, <2>1, <3>2, <3>4, <3>7
      <4> QED BY <4>1
    <3>9. tcs'[i].actor = k - 1
      BY <3>3, <3>4, <3>7, <3>8
    <3>10. k - 1 \in 0 .. NumPes - 1
      BY <3>2
    <3> QED BY <3>9, <3>10
  <2>5. SentTo(pe) # {} /\ Holding(nocI)
    BY <2>2 DEF WeightsInv, InNocStep, Holding
  <2>6. SentTo(pe)' = SentTo(pe)
    BY <2>2, NothingIsSent
  <2>7. SentBefore(i)' = SentTo(pe)'
    <3>1. ASSUME NEW j \in SentTo(pe)' PROVE j < i
      <4>1. j \in 1 .. Len(tcs) /\ Len(tcs) \in Nat
        BY <2>6, StepGrows DEF SentTo
      <4> QED BY <1>1, <2>1, <4>1
    <3> QED BY <2>4, <3>1 DEF SentBefore, SentTo, Labelled
  <2>8. PICK m \in 1 .. Len(tcs) : m = Max(SentTo(pe))
    BY <2>5, LatestIsSent
  <2>9. m = Max(SentBefore(i))'
    BY <2>6, <2>7, <2>8
  <2>10. tcs'[m] = tcs[m] /\ job' = job
    BY <2>8, StepGrows
  <2>11. Tile(StepOf(tcs[m]), WeightDims) = Tile(<<dramI, nocI>>, WeightDims)
    BY <2>5, <2>8 DEF Holding
  <2>12. StepOf(tcs'[i]) = <<dramI, nocI>>
    BY <2>2 DEF StepOf
  <2>13. Tile(StepOf(tcs[m]), WeightDims)' = Tile(StepOf(tcs[i]), WeightDims)'
    BY <2>10, <2>11, <2>12 DEF Tile, StepOf
  <2> QED BY <2>5, <2>6, <2>7, <2>9, <2>13
<1> QED BY <1>2, <1>3

(* What a step must show of the control state.                             *)
WeightsControl ==
  /\ BeforeNocLoop => nocI = 0
  /\ pc = <<"load", "weight">> /\ nocI > 0 => Holding(nocI - 1)
  /\ InNocStep /\ pc # <<"load", "weight">> => Holding(nocI)

(* Within a step the weights stay.                                         *)
LEMMA WithinTheStep ==
  ASSUME Held, WeightsInv, Next,
         pc[1] \in {"load", "count", "chain", "store"}, pc # <<"load", "weight">>,
         dramI' = dramI, nocI' = nocI,
         pc' # <<"load", "weight">>, ~BeforeNocLoop'
  PROVE  WeightsControl'
<1>1. Holding(nocI)
  BY DEF WeightsInv, InNocStep
<1>2. nocI \in Nat
  BY DEF Held, TypeOK
<1>3. PICK n \in Nat : n = nocI
  BY <1>2
<1>4. Holding(n)'
  BY <1>1, <1>3, WeightsStay
<1> QED BY <1>3, <1>4 DEF WeightsControl

(* From one step to the next they are those of the last.                   *)
LEMMA OverTheStep ==
  ASSUME Held, WeightsInv, Next,
         pc[1] \in {"load", "count", "chain", "store"}, pc # <<"load", "weight">>,
         dramI' = dramI, NextStep
  PROVE  WeightsControl'
<1>1. CASE nocI' = nocI /\ pc' = <<"store_to_dram", "psum">>
  BY <1>1, WithinTheStep DEF BeforeNocLoop
<1>2. CASE nocI' = nocI + 1 /\ pc' = <<"load", "weight">>
  <2>1. Holding(nocI)
    BY DEF WeightsInv, InNocStep
  <2>2. PICK n \in Nat : n = nocI
    BY DEF Held, TypeOK
  <2>3. Holding(n)'
    BY <2>1, <2>2, WeightsStay
  <2>4. nocI' - 1 = n
    BY <1>2, <2>2
  <2> QED BY <1>2, <2>3, <2>4 DEF WeightsControl, BeforeNocLoop
<1> QED BY <1>1, <1>2 DEF NextStep

(* No step breaks the invariant.                                           *)
LEMMA StepWeights ==
  ASSUME Held, WeightsInv, [Next]_vars
  PROVE  WeightsInv'
<1>1. CASE UNCHANGED vars
  <2>1. tcs' = tcs /\ job' = job /\ pc' = pc /\ dramI' = dramI /\ nocI' = nocI
    BY <1>1 DEF vars
  <2>2. \A pe : SentTo(pe)' = SentTo(pe)
    BY <2>1 DEF SentTo
  <2>3. \A i : SentBefore(i)' = SentBefore(i)
    BY <2>1 DEF SentBefore, Labelled
  <2>4. \A s, dims : Tile(s, dims)' = Tile(s, dims)
    BY <2>1 DEF Tile
  <2>5. NumPes' = NumPes
    BY <2>1 DEF NumPes
  <2>6. \A n : Holding(n)' = Holding(n)
    BY <2>1, <2>2, <2>4, <2>5 DEF Holding, StepOf
  <2> QED BY <2>1, <2>3, <2>4, <2>6 DEF WeightsInv, BeforeNocLoop, InNocStep, Labelled, StepOf
<1>2. CASE Next
  <2>1. ASSUME WeightsControl' PROVE WeightsInv'
    BY <1>2, <2>1, CountsHaveWeights DEF WeightsInv, WeightsControl
  <2>2. ASSUME NEW v \in Tensors, LoadFromDram(v) PROVE WeightsInv'
    <3>1. nocI' = nocI /\ pc[1] = "load_from_dram"
      BY <2>2 DEF LoadFromDram
    <3>2. nocI = 0
      BY <3>1 DEF WeightsInv, BeforeNocLoop
    <3>3. pc'[1] \in {"load_from_dram", "reset"}
      BY <2>2 DEF LoadFromDram, Tensors
    <3> QED BY <2>1, <3>1, <3>2, <3>3 DEF WeightsControl, InNocStep
  <2>3. CASE ResetHistories
    <3>1. nocI' = nocI /\ pc[1] = "reset" /\ pc' = <<"load", "weight">>
      BY <2>3 DEF ResetHistories
    <3>2. nocI = 0
      BY <3>1 DEF WeightsInv, BeforeNocLoop
    <3> QED BY <2>1, <3>1, <3>2 DEF WeightsControl, BeforeNocLoop
  <2>4. CASE LoadWeight
    <3>1. nocI > 0 => Holding(nocI - 1)
      BY <2>4 DEF WeightsInv, LoadWeight
    <3>2. Holding(nocI)'
      BY <2>4, <3>1, WeightsArrive
    <3>3. nocI' = nocI /\ pc' = <<"load", "psum">>
      BY <2>4 DEF LoadWeight
    <3> QED BY <2>1, <3>2, <3>3 DEF WeightsControl, BeforeNocLoop
  <2>5. CASE LoadPsum
    BY <1>2, <2>1, <2>5, WithinTheStep DEF LoadPsum, BeforeNocLoop
  <2>6. CASE MacCount
    BY <1>2, <2>1, <2>6, WithinTheStep DEF MacCount, BeforeNocLoop
  <2>7. CASE StorePsum
    <3>1. pc = <<"store", "psum">> /\ dramI' = dramI
      BY <2>7 DEF StorePsum
    <3>2. (pc' = <<"load", "vmem">> /\ nocI' = nocI) \/ NextStep
      BY <2>7 DEF StorePsum
    <3> QED BY <1>2, <2>1, <3>1, <3>2, WithinTheStep, OverTheStep DEF BeforeNocLoop
  <2>8. CASE LoadVmem
    BY <1>2, <2>1, <2>8, WithinTheStep DEF LoadVmem, BeforeNocLoop
  <2>9. CASE LifCount
    BY <1>2, <2>1, <2>9, WithinTheStep DEF LifCount, BeforeNocLoop
  <2>10. CASE StoreVmem
    <3>1. pc = <<"store", "vmem">> /\ dramI' = dramI /\ NextStep
      BY <2>10 DEF StoreVmem
    <3> QED BY <1>2, <2>1, <3>1, OverTheStep
  <2>11. ASSUME NEW v \in Results, Chain(v) PROVE WeightsInv'
    <3>1. pc = <<"chain", v>> /\ pc' = pc /\ dramI' = dramI /\ nocI' = nocI
      BY <2>11 DEF Chain
    <3> QED BY <1>2, <2>1, <3>1, WithinTheStep DEF BeforeNocLoop
  <2>12. ASSUME NEW v \in Results, ChainsDone(v) PROVE WeightsInv'
    <3>1. pc = <<"chain", v>> /\ pc' = <<"store", v>> /\ dramI' = dramI /\ nocI' = nocI
      BY <2>12 DEF ChainsDone
    <3> QED BY <1>2, <2>1, <3>1, WithinTheStep DEF BeforeNocLoop
  <2>13. ASSUME NEW v \in Results, StoreToDram(v) PROVE WeightsInv'
    <3>1. \/ pc' = <<"store_to_dram", "vmem">> \/ pc' = <<"return", "gen">>
          \/ pc' = <<"load_from_dram", "weight">> /\ nocI' = 0
      BY <2>13 DEF StoreToDram, NextDramStep
    <3> QED BY <2>1, <3>1 DEF WeightsControl, BeforeNocLoop, InNocStep
  <2>14. CASE Returned
    BY <1>1, <2>14 DEF Returned
  <2> QED BY <1>2, <2>2, <2>3, <2>4, <2>5, <2>6, <2>7, <2>8, <2>9, <2>10, <2>11, <2>12,
             <2>13, <2>14 DEF Next, Results
<1> QED BY <1>1, <1>2

(* For every layer and placement of its loops, every PE computes with the  *)
(* weights of the step, however they were reused (steps.py:127-144).       *)
THEOREM WeightsCorrect == Spec => []NoStaleWeights
<1>1. Init => WeightsInv
  BY DEF Init, WeightsInv, BeforeNocLoop, InNocStep, Labelled
<1>2. Held /\ WeightsInv /\ [Next]_vars => WeightsInv'
  BY StepWeights
<1>3. WeightsInv => NoStaleWeights
  <2>1. \A i : LatestWeights(i) = Max(SentBefore(i))
    BY DEF LatestWeights, SentBefore
  <2> QED BY <2>1 DEF WeightsInv, NoStaleWeights
<1> QED BY <1>1, <1>2, <1>3, HeldInvariant, PTL DEF Spec

-----------------------------------------------------------------------------
(* Outputs.  The steps at which neurons fire are, up to where the loops    *)
(* have come, those at which the reduction is done.                        *)

LifCalls == {<<"load", "vmem">>, <<"count", "lif">>, <<"chain", "vmem">>, <<"store", "vmem">>}

ReducedAt(s) == IsLast(job, s[1], s[2], ReductionDims)

Over ==
  \/ pc \in {<<"chain", "vmem">>, <<"store", "vmem">>}
  \/ pc[1] \in {"store_to_dram", "return"}

Past(s) == Precedes(s, <<dramI, nocI>>) \/ (s = <<dramI, nocI>> /\ Over)

FiredControl ==
  /\ dramI \in 0 .. Steps(job.dram) - 1 /\ nocI \in 0 .. Steps(job.noc) - 1
  /\ BeforeNocLoop => nocI = 0
  /\ pc \in LifCalls => ReducedAt(<<dramI, nocI>>)
  /\ pc[1] \in {"store_to_dram", "return"} => nocI = Steps(job.noc) - 1
  /\ pc[1] = "return" => dramI = Steps(job.dram) - 1

FiredInv ==
  /\ FiredControl
  /\ \A s \in StepsWith("count", "lif") : s \in AllSteps /\ ReducedAt(s)
  /\ \A s \in AllSteps : ReducedAt(s) /\ Past(s) => s \in StepsWith("count", "lif")

(* The nests of the job have steps, and the loops stand at one of them.    *)
LEMMA StepsAreNumbers ==
  ASSUME Held
  PROVE  /\ job.noc \in Loops /\ job.dram \in Loops
         /\ Steps(job.noc) \in Nat \ {0} /\ Steps(job.dram) \in Nat \ {0}
         /\ dramI \in Nat /\ nocI \in Nat
<1>1. job.noc \in Loops /\ job.dram \in Loops
  BY CombineAssumption DEF Held
<1>2. Steps(job.noc) \in Nat \ {0} /\ Steps(job.dram) \in Nat \ {0}
  BY <1>1, StepsAre
<1> QED BY <1>1, <1>2 DEF Held, TypeOK

(* The computation of the membrane potentials fires the neurons.           *)
LEMMA NeuronsFire ==
  ASSUME Held, LifCount
  PROVE  <<dramI, nocI>> \in StepsWith("count", "lif")'
<1>1. pc = <<"count", "lif">> /\ Next
  BY DEF LifCount, Next
<1>2. PICK batch : batch = Counts(Cycles.lif, LifDependencies) /\ tcs' = tcs \o batch
  BY DEF LifCount, Emit
<1>3. NumPes \in Nat \ {0}
  BY CombineAssumption DEF Held, NumPes
<1>4. batch = [k \in 1 .. NumPes |-> batch[k]]
  BY <1>2 DEF Counts
<1>5. IsSequence(batch) /\ Len(batch) = NumPes
  BY <1>3, <1>4, ListIsSequence
<1>6. tcs' # tcs
  <2>1. Emit(batch)
    BY <1>2 DEF LifCount
  <2> QED BY <1>3, <1>5, <2>1, BatchChanges
<1> QED BY <1>1, <1>6, EmittedInStep

(* Any step but that computation: nothing new is past.                     *)
LEMMA NothingFires ==
  ASSUME Held, FiredInv, Next, pc # <<"count", "lif">>, FiredControl',
         \A s \in AllSteps : ReducedAt(s) /\ Past(s)' => Past(s)
  PROVE  FiredInv'
<1>1. job' = job
  BY StepGrows
<1>2. AllSteps' = AllSteps /\ \A s : ReducedAt(s)' = ReducedAt(s)
  BY <1>1 DEF AllSteps, ReducedAt
<1>3. StepsWith("count", "lif")' = StepsWith("count", "lif")
  BY StepsGrow
<1> QED BY <1>2, <1>3 DEF FiredInv

(* Going on within a step, unless it is to fire and has not.               *)
LEMMA FiredWithin ==
  ASSUME Held, FiredInv, Next, pc # <<"count", "lif">>, dramI' = dramI, nocI' = nocI,
         FiredControl', Over' => Over \/ ~ReducedAt(<<dramI, nocI>>)
  PROVE  FiredInv'
<1>1. \A s : Past(s)' /\ ReducedAt(s) => Past(s)
  BY DEF Past, Precedes
<1> QED BY <1>1, NothingFires

(* Going on to the next step, or out of the NoC loop.                      *)
LEMMA FiredNext ==
  ASSUME Held, FiredInv, Next, pc # <<"count", "lif">>, dramI' = dramI, NextStep,
         Over \/ ~ReducedAt(<<dramI, nocI>>)
  PROVE  FiredInv'
<1>1. job' = job
  BY StepGrows
<1>2. /\ Steps(job.noc) \in Nat \ {0} /\ dramI \in Nat /\ nocI \in Nat
      /\ dramI \in 0 .. Steps(job.dram) - 1 /\ nocI \in 0 .. Steps(job.noc) - 1
  BY StepsAreNumbers DEF FiredInv, FiredControl
<1>3. CASE nocI + 1 < Steps(job.noc)
  <2>1. nocI' = nocI + 1 /\ pc' = <<"load", "weight">>
    BY <1>3 DEF NextStep
  <2>2. FiredControl'
    BY <1>1, <1>2, <1>3, <2>1 DEF FiredControl, BeforeNocLoop, LifCalls
  <2>3. ASSUME NEW s \in AllSteps, ReducedAt(s), Past(s)' PROVE Past(s)
    <3>1. PICK a \in Nat, b \in Nat : s = <<a, b>>
      <4>1. Steps(job.dram) \in Nat
        BY StepsAreNumbers
      <4> QED BY <1>2, <4>1 DEF AllSteps
    <3>2. ~Over'
      BY <2>1 DEF Over
    <3>3. a < dramI \/ (a = dramI /\ b < nocI + 1)
      BY <2>1, <2>3, <3>1, <3>2 DEF Past, Precedes
    <3>4. a < dramI \/ (a = dramI /\ b < nocI) \/ (a = dramI /\ b = nocI)
      BY <1>2, <3>3
    <3>5. CASE a = dramI /\ b = nocI
      BY <2>3, <3>1, <3>5 DEF Past
    <3>6. CASE a < dramI \/ (a = dramI /\ b < nocI)
      BY <3>1, <3>6 DEF Past, Precedes
    <3> QED BY <3>4, <3>5, <3>6
  <2> QED BY <2>2, <2>3, NothingFires
<1>4. CASE ~(nocI + 1 < Steps(job.noc))
  <2>1. nocI' = nocI /\ pc' = <<"store_to_dram", "psum">>
    BY <1>4 DEF NextStep
  <2>2. nocI = Steps(job.noc) - 1
    BY <1>2, <1>4
  <2>3. FiredControl'
    BY <1>1, <1>2, <2>1, <2>2 DEF FiredControl, BeforeNocLoop, LifCalls
  <2> QED BY <2>1, <2>3, FiredWithin
<1> QED BY <1>3, <1>4

(* No step breaks the invariant.                                           *)
LEMMA StepFired ==
  ASSUME Held, FiredInv, [Next]_vars
  PROVE  FiredInv'
<1>1. CASE UNCHANGED vars
  <2>1. tcs' = tcs /\ job' = job /\ pc' = pc /\ dramI' = dramI /\ nocI' = nocI
    BY <1>1 DEF vars
  <2>2. StepsWith("count", "lif")' = StepsWith("count", "lif") /\ AllSteps' = AllSteps
    BY <2>1 DEF StepsWith, Labelled, StepOf, AllSteps
  <2>3. /\ \A s : ReducedAt(s)' = ReducedAt(s) /\ Past(s)' = Past(s)
        /\ FiredControl' = FiredControl
    BY <2>1 DEF ReducedAt, Past, Over, FiredControl, BeforeNocLoop
  <2> QED BY <2>2, <2>3 DEF FiredInv
<1>2. CASE Next
  <2> USE <1>2
  <2>1. job' = job
    BY StepGrows
  <2>2. /\ Steps(job.noc) \in Nat \ {0} /\ dramI \in Nat /\ nocI \in Nat
        /\ Steps(job.dram) \in Nat \ {0}
        /\ dramI \in 0 .. Steps(job.dram) - 1 /\ nocI \in 0 .. Steps(job.noc) - 1
    BY StepsAreNumbers DEF FiredInv, FiredControl
  <2>3. ReducedAt(<<dramI, nocI>>) <=> IsLast(job, dramI, nocI, ReductionDims)
    BY DEF ReducedAt
  <2>4. ASSUME dramI' = dramI, nocI' = nocI PROVE ReducedAt(<<dramI, nocI>>)' = ReducedAt(<<dramI, nocI>>)
    BY <2>1, <2>4 DEF ReducedAt
  <2>5. ASSUME NEW v \in Tensors, LoadFromDram(v) PROVE FiredInv'
    <3>1. /\ pc = <<"load_from_dram", v>> /\ dramI' = dramI /\ nocI' = nocI
          /\ pc'[1] \in {"load_from_dram", "reset"}
      BY <2>5 DEF LoadFromDram, Tensors
    <3>2. nocI = 0
      BY <3>1 DEF FiredInv, FiredControl, BeforeNocLoop
    <3>3. FiredControl'
      BY <2>1, <2>2, <3>1, <3>2 DEF FiredControl, BeforeNocLoop, LifCalls
    <3>4. ~Over'
      BY <3>1 DEF Over
    <3> QED BY <3>1, <3>3, <3>4, FiredWithin
  <2>6. CASE ResetHistories
    <3>1. /\ pc = <<"reset", "histories">> /\ dramI' = dramI /\ nocI' = nocI
          /\ pc' = <<"load", "weight">>
      BY <2>6 DEF ResetHistories
    <3>2. FiredControl' /\ ~Over'
      BY <2>1, <2>2, <3>1 DEF FiredControl, BeforeNocLoop, LifCalls, Over
    <3> QED BY <3>1, <3>2, FiredWithin
  <2>7. CASE LoadWeight \/ LoadPsum \/ MacCount
    <3>1. /\ pc # <<"count", "lif">> /\ dramI' = dramI /\ nocI' = nocI
          /\ pc' \in {<<"load", "psum">>, <<"count", "mac">>, <<"chain", "psum">>}
      BY <2>7 DEF LoadWeight, LoadPsum, MacCount
    <3>2. FiredControl' /\ ~Over'
      BY <2>1, <2>2, <3>1 DEF FiredControl, BeforeNocLoop, LifCalls, Over
    <3> QED BY <3>1, <3>2, FiredWithin
  <2>8. CASE StorePsum
    <3>1. pc = <<"store", "psum">> /\ dramI' = dramI
      BY <2>8 DEF StorePsum
    <3>2. CASE ReducedAt(<<dramI, nocI>>)
      <4>1. pc' = <<"load", "vmem">> /\ nocI' = nocI
        BY <2>3, <2>8, <3>2 DEF StorePsum
      <4>2. ReducedAt(<<dramI, nocI>>)'
        BY <2>4, <3>1, <3>2, <4>1
      <4>3. FiredControl' /\ ~Over'
        BY <2>1, <2>2, <3>1, <4>1, <4>2 DEF FiredControl, BeforeNocLoop, Over
      <4> QED BY <3>1, <4>1, <4>3, FiredWithin
    <3>3. CASE ~ReducedAt(<<dramI, nocI>>)
      <4>1. NextStep
        BY <2>3, <2>8, <3>3 DEF StorePsum
      <4> QED BY <3>1, <3>3, <4>1, FiredNext
    <3> QED BY <3>2, <3>3
  <2>9. CASE LoadVmem
    <3>1. /\ pc = <<"load", "vmem">> /\ dramI' = dramI /\ nocI' = nocI
          /\ pc' = <<"count", "lif">>
      BY <2>9 DEF LoadVmem
    <3>2. ReducedAt(<<dramI, nocI>>)'
      BY <2>4, <3>1 DEF FiredInv, FiredControl, LifCalls
    <3>3. FiredControl' /\ ~Over'
      BY <2>1, <2>2, <3>1, <3>2 DEF FiredControl, BeforeNocLoop, Over
    <3> QED BY <3>1, <3>3, FiredWithin
  <2>10. CASE LifCount
    <3>1. /\ pc = <<"count", "lif">> /\ dramI' = dramI /\ nocI' = nocI
          /\ pc' = <<"chain", "vmem">>
      BY <2>10 DEF LifCount
    <3>2. ReducedAt(<<dramI, nocI>>) /\ ReducedAt(<<dramI, nocI>>)'
      BY <2>4, <3>1 DEF FiredInv, FiredControl, LifCalls
    <3>3. FiredControl'
      BY <2>1, <2>2, <3>1, <3>2 DEF FiredControl, BeforeNocLoop
    <3>4. AllSteps' = AllSteps /\ \A s : ReducedAt(s)' = ReducedAt(s)
      BY <2>1 DEF AllSteps, ReducedAt
    <3>5. <<dramI, nocI>> \in AllSteps
      BY <2>2 DEF AllSteps
    <3>6. \A s \in StepsWith("count", "lif")' : s \in AllSteps' /\ ReducedAt(s)'
      BY <3>2, <3>4, <3>5, StepsGrow DEF FiredInv
    <3>7. ASSUME NEW s \in AllSteps', ReducedAt(s)', Past(s)'
          PROVE  s \in StepsWith("count", "lif")'
      <4>1. Past(s) \/ s = <<dramI, nocI>>
        BY <3>1, <3>7 DEF Past, Precedes
      <4>2. CASE Past(s)
        BY <3>4, <3>7, <4>2, StepsGrow DEF FiredInv
      <4>3. CASE s = <<dramI, nocI>>
        BY <2>10, <4>3, NeuronsFire
      <4> QED BY <4>1, <4>2, <4>3
    <3> QED BY <3>3, <3>6, <3>7 DEF FiredInv
  <2>11. CASE StoreVmem
    <3>1. pc = <<"store", "vmem">> /\ dramI' = dramI /\ NextStep
      BY <2>11 DEF StoreVmem
    <3>2. Over
      BY <3>1 DEF Over
    <3> QED BY <3>1, <3>2, FiredNext
  <2>12. ASSUME NEW v \in Results, Chain(v) \/ ChainsDone(v) PROVE FiredInv'
    <3>1. /\ pc = <<"chain", v>> /\ dramI' = dramI /\ nocI' = nocI
          /\ pc' \in {<<"chain", v>>, <<"store", v>>}
      BY <2>12 DEF Chain, ChainsDone
    <3>2. v = "psum" \/ v = "vmem"
      BY DEF Results
    <3>3. CASE v = "psum"
      <4>1. FiredControl' /\ ~Over'
        BY <2>1, <2>2, <3>1, <3>3 DEF FiredControl, BeforeNocLoop, LifCalls, Over
      <4> QED BY <3>1, <4>1, FiredWithin
    <3>4. CASE v = "vmem"
      <4>1. ReducedAt(<<dramI, nocI>>)'
        BY <2>4, <3>1, <3>4 DEF FiredInv, FiredControl, LifCalls
      <4>2. FiredControl' /\ Over
        BY <2>1, <2>2, <3>1, <3>4, <4>1 DEF FiredControl, BeforeNocLoop, Over
      <4> QED BY <3>1, <4>2, FiredWithin
    <3> QED BY <3>2, <3>3, <3>4
  <2>13. ASSUME NEW v \in Results, StoreToDram(v) PROVE FiredInv'
    <3>1. pc = <<"store_to_dram", v>> /\ nocI = Steps(job.noc) - 1
      BY <2>13 DEF StoreToDram, FiredInv, FiredControl
    <3>2. Over
      BY <3>1 DEF Over
    <3>3. CASE v = "psum"
      <4>1. pc' = <<"store_to_dram", "vmem">> /\ dramI' = dramI /\ nocI' = nocI
        BY <2>13, <3>3 DEF StoreToDram
      <4>2. FiredControl'
        BY <2>1, <2>2, <3>1, <4>1 DEF FiredControl, BeforeNocLoop, LifCalls
      <4> QED BY <3>1, <3>2, <4>1, <4>2, FiredWithin
    <3>4. CASE v # "psum" /\ dramI + 1 < Steps(job.dram)
      <4>1. pc' = <<"load_from_dram", "weight">> /\ dramI' = dramI + 1 /\ nocI' = 0
        BY <2>13, <3>4 DEF StoreToDram, NextDramStep
      <4>2. FiredControl' /\ ~Over'
        BY <2>1, <2>2, <3>4, <4>1 DEF FiredControl, BeforeNocLoop, LifCalls, Over
      <4>3. ASSUME NEW s \in AllSteps, ReducedAt(s), Past(s)' PROVE Past(s)
        <5>1. PICK a \in Nat, b \in 0 .. Steps(job.noc) - 1 : s = <<a, b>>
          BY <2>2 DEF AllSteps
        <5>2. a < dramI + 1 \/ (a = dramI + 1 /\ b < 0)
          BY <4>1, <4>2, <4>3, <5>1 DEF Past, Precedes
        <5>3. a < dramI \/ (a = dramI /\ b < nocI) \/ (a = dramI /\ b = nocI)
          BY <2>2, <3>1, <5>2
        <5> QED BY <3>2, <5>1, <5>3 DEF Past, Precedes
      <4> QED BY <3>1, <4>2, <4>3, NothingFires
    <3>5. CASE v # "psum" /\ ~(dramI + 1 < Steps(job.dram))
      <4>1. pc' = <<"return", "gen">> /\ dramI' = dramI /\ nocI' = nocI
        BY <2>13, <3>5 DEF StoreToDram, NextDramStep
      <4>2. FiredControl'
        BY <2>1, <2>2, <3>1, <3>5, <4>1 DEF FiredControl, BeforeNocLoop, LifCalls
      <4> QED BY <3>1, <3>2, <4>1, <4>2, FiredWithin
    <3> QED BY <3>3, <3>4, <3>5
  <2>14. CASE Returned
    BY <1>1, <2>14 DEF Returned
  <2> QED BY <2>5, <2>6, <2>7, <2>8, <2>9, <2>10, <2>11, <2>12, <2>13, <2>14
          DEF Next, Results
<1> QED BY <1>1, <1>2

(* The steps at which neurons have fired, in every reachable state.        *)
LEMMA FiredInvariant == Spec => []FiredInv
<1>1. Held /\ Init => FiredInv
  <2> SUFFICES ASSUME Held, Init PROVE FiredInv
    OBVIOUS
  <2>1. FiredControl
    BY StepsAreNumbers DEF Init, FiredControl, BeforeNocLoop, LifCalls
  <2>2. StepsWith("count", "lif") = {}
    BY DEF Init, StepsWith, Labelled
  <2>3. ASSUME NEW s \in AllSteps PROVE ~Past(s)
    <3>1. PICK a \in Nat, b \in Nat : s = <<a, b>>
      <4>1. Steps(job.noc) \in Nat /\ Steps(job.dram) \in Nat
        BY StepsAreNumbers
      <4> QED BY <4>1 DEF AllSteps
    <3> QED BY <3>1 DEF Init, Past, Precedes, Over
  <2> QED BY <2>1, <2>2, <2>3 DEF FiredInv
<1>2. Held /\ FiredInv /\ [Next]_vars => FiredInv'
  BY StepFired
<1> QED BY <1>1, <1>2, HeldInvariant, PTL DEF Spec

(* In the end the neurons have fired where the reduction is done.          *)
LEMMA FiredAtTheEnd ==
  ASSUME Held, FiredInv, Finished
  PROVE  StepsWith("count", "lif") = {s \in AllSteps : ReducedAt(s)}
<1>1. /\ Steps(job.noc) \in Nat \ {0} /\ Steps(job.dram) \in Nat \ {0}
      /\ dramI = Steps(job.dram) - 1 /\ nocI = Steps(job.noc) - 1
  BY StepsAreNumbers DEF FiredInv, FiredControl, Finished
<1>2. \A u \in AllSteps : Past(u)
  <2>1. Over
    BY DEF Over, Finished
  <2> SUFFICES ASSUME NEW a \in 0 .. Steps(job.dram) - 1, NEW b \in 0 .. Steps(job.noc) - 1
               PROVE  Past(<<a, b>>)
    BY DEF AllSteps
  <2>2. a < dramI \/ (a = dramI /\ b < nocI) \/ (a = dramI /\ b = nocI)
    BY <1>1
  <2> QED BY <2>1, <2>2 DEF Past, Precedes
<1> QED BY <1>2 DEF FiredInv

(* For every layer, every output tile fires exactly once, at the last of   *)
(* the steps that add to it, however its reduction is split over the two   *)
(* levels and in whatever order the loops are (steps.py:11).               *)
THEOREM FiresCorrect == Spec => []EachOutputFiresOnce
<1>1. Held /\ FiredInv => EachOutputFiresOnce
  <2> SUFFICES ASSUME Held, FiredInv, Finished, NEW s \in AllSteps,
                      NEW t \in AllSteps, Tile(t, PsumDims) = Tile(s, PsumDims)
               PROVE  t \in StepsWith("count", "lif")
                        <=> \A u \in AllSteps :
                              Tile(u, PsumDims) = Tile(s, PsumDims) => u = t \/ Precedes(u, t)
    BY DEF EachOutputFiresOnce
  <2>1. /\ job.noc \in Loops /\ job.dram \in Loops
        /\ Steps(job.noc) \in Nat \ {0} /\ Steps(job.dram) \in Nat \ {0}
        /\ dramI = Steps(job.dram) - 1 /\ nocI = Steps(job.noc) - 1
    BY StepsAreNumbers DEF FiredInv, FiredControl, Finished
  <2>3. t \in StepsWith("count", "lif") <=> ReducedAt(t)
    BY FiredAtTheEnd
  <2>4. PICK d \in 0 .. Steps(job.dram) - 1, n \in 0 .. Steps(job.noc) - 1 : t = <<d, n>>
    BY DEF AllSteps
  <2>5. Dims \ ReductionDims = PsumDims
    BY DEF Dims, ReductionDims, PsumDims, VmemDims
  <2>6. \A e, m : Tile(<<e, m>>, PsumDims) = Tile(s, PsumDims)
          <=> \A dim \in Dims \ ReductionDims :
                CombinedIndex(job, e, m, dim) = CombinedIndex(job, d, n, dim)
    <3>1. Tile(s, PsumDims) = [dim \in PsumDims |-> CombinedIndex(job, d, n, dim)]
      BY <2>4 DEF Tile
    <3>2. ASSUME NEW e, NEW m
          PROVE  Tile(<<e, m>>, PsumDims) = Tile(s, PsumDims)
                   <=> \A dim \in PsumDims :
                         CombinedIndex(job, e, m, dim) = CombinedIndex(job, d, n, dim)
      <4>1. PICK f : f = [dim \in PsumDims |-> CombinedIndex(job, d, n, dim)]
        OBVIOUS
      <4>2. PICK g : g = [dim \in PsumDims |-> CombinedIndex(job, e, m, dim)]
        OBVIOUS
      <4>3. f = g <=> \A dim \in PsumDims : f[dim] = g[dim]
        BY <4>1, <4>2
      <4>4. Tile(<<e, m>>, PsumDims) = g
        BY <4>2 DEF Tile
      <4> QED BY <3>1, <4>1, <4>2, <4>3, <4>4
    <3> QED BY <2>5, <3>2
  <2>7. ReducedAt(t) <=> IsLast(job, d, n, ReductionDims)
    BY <2>4 DEF ReducedAt
  <2>8. ASSUME IsLast(job, d, n, ReductionDims),
               NEW u \in AllSteps, Tile(u, PsumDims) = Tile(s, PsumDims)
        PROVE  u = t \/ Precedes(u, t)
    <3>1. PICK e \in 0 .. Steps(job.dram) - 1, m \in 0 .. Steps(job.noc) - 1 : u = <<e, m>>
      BY DEF AllSteps
    <3>2. e < d \/ (e = d /\ m <= n)
      BY <2>1, <2>6, <2>8, <3>1, LastVisit
    <3>3. e < d \/ (e = d /\ m < n) \/ (e = d /\ m = n)
      BY <2>1, <3>2
    <3> QED BY <2>4, <3>1, <3>3 DEF Precedes
  <2>9. ASSUME ~IsLast(job, d, n, ReductionDims)
        PROVE  \E u \in AllSteps :
                 Tile(u, PsumDims) = Tile(s, PsumDims) /\ u # t /\ ~Precedes(u, t)
    <3>1. PICK e \in 0 .. Steps(job.dram) - 1, m \in 0 .. Steps(job.noc) - 1 :
            /\ \A dim \in Dims \ ReductionDims :
                 CombinedIndex(job, e, m, dim) = CombinedIndex(job, d, n, dim)
            /\ d < e \/ (d = e /\ n < m)
      BY <2>1, <2>9, NotTheLastVisit
    <3>2. <<e, m>> \in AllSteps /\ Tile(<<e, m>>, PsumDims) = Tile(s, PsumDims)
      BY <2>6, <3>1 DEF AllSteps
    <3>3. ~(e < d \/ (e = d /\ m < n)) /\ <<e, m>> # <<d, n>>
      BY <2>1, <3>1
    <3>4. <<e, m>> # t /\ ~Precedes(<<e, m>>, t)
      BY <2>4, <3>3 DEF Precedes
    <3> QED BY <3>2, <3>4
  <2> QED BY <2>3, <2>7, <2>8, <2>9
<1> QED BY <1>1, HeldInvariant, FiredInvariant, PTL

-----------------------------------------------------------------------------
(* Ancestry.  The fold is the one sequence in which every transaction has  *)
(* what it waits for and what those wait for.                              *)

Behind(ids, A) == UNION {A[id + 1] \cup {id + 1} : id \in ToSet(ids)}

IsAncestry(A) == \A i \in 1 .. Len(tcs) : A[i] = Behind(tcs[i].deps, A)

(* A table of ancestries, by the set of transactions folded.               *)
Ancestries(it, n) ==
  it = [s \in SUBSET (1 .. n) |->
          IF s = {} THEN <<>>
          ELSE Append(it[s \ {Max(s)}], Behind(tcs[Max(s)].deps, it[s \ {Max(s)}]))]

(* Ancestors can be counted up to any transaction.                         *)
LEMMA AncestriesExist ==
  ASSUME NEW n \in Nat
  PROVE  \E it : Ancestries(it, n)
<1> DEFINE F == {k \in 0 .. n : ~ \E it : Ancestries(it, k)}
<1> SUFFICES ASSUME F # {} PROVE FALSE
  <2>1. n \notin F => \E it : Ancestries(it, n)
    OBVIOUS
  <2> QED BY <2>1
<1>1. PICK k \in F : \A j \in F : k <= j
  <2>1. F \subseteq Nat
    OBVIOUS
  <2> HIDE DEF F
  <2> QED BY <2>1, LeastExists
<1>2. k \in 0 .. n
  OBVIOUS
<1>3. CASE k = 0
  <2>1. SUBSET (1 .. 0) = {{}}
    OBVIOUS
  <2>2. Ancestries([s \in SUBSET (1 .. 0) |-> <<>>], 0)
    BY <2>1 DEF Ancestries
  <2> QED BY <1>3, <2>2
<1>4. CASE k # 0
  <2>1. k - 1 \in 0 .. n /\ k - 1 \notin F /\ k \in 1 .. n
    BY <1>1, <1>2, <1>4
  <2>2. PICK h : Ancestries(h, k - 1)
    BY <2>1
  <2>3. PICK G : G = [r \in SUBSET (1 .. k - 1) |-> Append(h[r], Behind(tcs[k].deps, h[r]))]
    OBVIOUS
  <2> DEFINE it == [s \in SUBSET (1 .. k) |->
                      IF s = {} THEN <<>> ELSE IF k \in s THEN G[s \ {k}] ELSE h[s]]
  <2>4. h[{}] = <<>>
    <3>1. {} \in SUBSET (1 .. k - 1)
      OBVIOUS
    <3> QED BY <2>2, <3>1 DEF Ancestries
  <2>5. ASSUME NEW s \in SUBSET (1 .. k), s # {}
        PROVE  it[s] = Append(it[s \ {Max(s)}], Behind(tcs[Max(s)].deps, it[s \ {Max(s)}]))
    <3>1. k \in Nat /\ k - 1 \in Nat
      BY <2>1
    <3>2. Max(s) \in s /\ \A i \in s : Max(s) >= i
      BY <2>5, <3>1, GreatestExists
    <3>3. PICK m \in s : m = Max(s)
      BY <3>2
    <3>4. PICK r : r = s \ {m}
      OBVIOUS
    <3>5. CASE k \in s
      <4>1. m = k
        BY <3>1, <3>2, <3>3, <3>5
      <4>2. r \in SUBSET (1 .. k - 1) /\ r \in SUBSET (1 .. k) /\ k \notin r
        BY <3>1, <3>4, <4>1
      <4>3. it[r] = h[r]
        BY <2>4, <4>2
      <4>4. it[s] = G[r]
        BY <2>5, <3>4, <3>5, <4>1
      <4>5. G[r] = Append(h[r], Behind(tcs[k].deps, h[r]))
        BY <2>3, <4>2
      <4> HIDE DEF it
      <4> QED BY <3>3, <3>4, <4>1, <4>3, <4>4, <4>5
    <3>6. CASE k \notin s
      <4>1. s \in SUBSET (1 .. k - 1) /\ r \in SUBSET (1 .. k) /\ k \notin r
        BY <3>1, <3>4, <3>6
      <4>2. h[s] = Append(h[r], Behind(tcs[m].deps, h[r]))
        BY <2>2, <2>5, <3>3, <3>4, <4>1 DEF Ancestries
      <4>3. it[s] = h[s]
        BY <2>5, <3>6
      <4>4. it[r] = h[r]
        BY <2>4, <4>1
      <4> HIDE DEF it
      <4> QED BY <3>3, <3>4, <4>2, <4>3, <4>4
    <3> QED BY <3>5, <3>6
  <2>6. it[{}] = <<>> /\ it = [s \in SUBSET (1 .. k) |-> it[s]]
    OBVIOUS
  <2>7. Ancestries(it, k)
    <3> HIDE DEF it
    <3>1. \A s \in SUBSET (1 .. k) :
            it[s] = IF s = {} THEN <<>>
                    ELSE Append(it[s \ {Max(s)}], Behind(tcs[Max(s)].deps, it[s \ {Max(s)}]))
      BY <2>5, <2>6
    <3> QED BY <2>6, <3>1 DEF Ancestries
  <2> QED BY <2>7
<1> QED BY <1>3, <1>4

(* The ancestors the property speaks of are an ancestry.                   *)
LEMMA AncestryIs ==
  ASSUME Held
  PROVE  IsAncestry(Ancestry)
<1>1. PICK n \in Nat : n = Len(tcs) /\ DOMAIN tcs = 1 .. n
  BY DEF Held, IsSequence
<1> DEFINE c == CHOOSE h : Ancestries(h, n)
<1>2. Ancestries(c, n)
  <2>1. \E h : Ancestries(h, n)
    BY AncestriesExist
  <2> QED BY <2>1
<1>3. Ancestry = c[1 .. n]
  BY <1>1 DEF Ancestry, FoldLeft, MapThenFoldSet, Ancestries, Behind
<1> HIDE DEF c
<1>4. c[1 .. 0] = <<>>
  <2>1. {} \in SUBSET (1 .. n) /\ 1 .. 0 = {}
    OBVIOUS
  <2> QED BY <1>2, <2>1 DEF Ancestries
<1>5. ASSUME NEW k \in 1 .. n
      PROVE  c[1 .. k] = Append(c[1 .. k - 1], Behind(tcs[k].deps, c[1 .. k - 1]))
  <2>1. 1 .. k \in SUBSET (1 .. n) /\ 1 .. k # {} /\ k \in Nat
    OBVIOUS
  <2>2. Max(1 .. k) \in 1 .. k /\ \A i \in 1 .. k : Max(1 .. k) >= i
    BY <2>1, GreatestExists
  <2>3. PICK m \in 1 .. k : m = Max(1 .. k) /\ m >= k
    <3>1. k \in 1 .. k
      BY <2>1
    <3> QED BY <2>2, <3>1
  <2>4. Max(1 .. k) = k /\ (1 .. k) \ {k} = 1 .. k - 1
    BY <2>1, <2>3
  <2> QED BY <1>2, <2>1, <2>4 DEF Ancestries
<1>6. \A k \in 1 .. n : \A id \in ToSet(tcs[k].deps) : id \in 0 .. k - 2
  BY <1>1 DEF Held, IdsBelow, ToSet
<1> DEFINE S == SUBSET Nat
           Good(k) == /\ c[1 .. k] \in Seq(S) /\ Len(c[1 .. k]) = k
                      /\ \A i \in 1 .. k : c[1 .. k][i] = Behind(tcs[i].deps, c[1 .. k])
<1>7. \A k \in 0 .. n : Good(k)
  <2> DEFINE F == {k \in 0 .. n : ~Good(k)}
  <2> SUFFICES ASSUME F # {} PROVE FALSE
    OBVIOUS
  <2>1. PICK k \in F : \A j \in F : k <= j
    <3>1. F \subseteq Nat
      OBVIOUS
    <3> HIDE DEF F
    <3> QED BY <3>1, LeastExists
  <2>2. Good(0)
    BY <1>4
  <2>3. k \in 1 .. n /\ k - 1 \in 0 .. n /\ k - 1 \notin F
    BY <2>1, <2>2
  <2>4. PICK p \in Seq(S) : p = c[1 .. k - 1] /\ Len(p) = k - 1
    BY <2>3
  <2>5. \A i \in 1 .. k - 1 : p[i] = Behind(tcs[i].deps, p)
    BY <2>3, <2>4
  <2>6. PICK new : new = Behind(tcs[k].deps, p)
    OBVIOUS
  <2>7. new \in S
    <3>1. ASSUME NEW id \in ToSet(tcs[k].deps) PROVE p[id + 1] \cup {id + 1} \subseteq Nat
      <4>1. id + 1 \in 1 .. k - 1
        <5>1. id \in 0 .. k - 2
          BY <1>6, <2>3
        <5> QED BY <2>3, <5>1
      <4>2. p[id + 1] \in S
        <5> HIDE DEF S
        <5> QED BY <2>4, <4>1
      <4> QED BY <4>1, <4>2
    <3> QED BY <2>6, <3>1 DEF Behind
  <2>8. PICK q : q = c[1 .. k] /\ q = Append(p, new)
    BY <1>5, <2>3, <2>4, <2>6
  <2>9. q \in Seq(S) /\ Len(q) = k /\ q[k] = new /\ \A i \in 1 .. k - 1 : q[i] = p[i]
    <3> HIDE DEF S
    <3> QED BY <2>3, <2>4, <2>7, <2>8
  <2>10. ASSUME NEW i \in 1 .. k PROVE Behind(tcs[i].deps, q) = Behind(tcs[i].deps, p)
    <3>1. \A id \in ToSet(tcs[i].deps) : id + 1 \in 1 .. k - 1
      <4>1. i \in 1 .. n /\ \A id \in 0 .. i - 2 : id + 1 \in 1 .. k - 1
        BY <2>3
      <4> QED BY <1>6, <4>1
    <3>2. \A id \in ToSet(tcs[i].deps) : q[id + 1] = p[id + 1]
      BY <2>9, <3>1
    <3> QED BY <3>2 DEF Behind
  <2>11. \A i \in 1 .. k : q[i] = Behind(tcs[i].deps, q)
    <3> SUFFICES ASSUME NEW i \in 1 .. k PROVE q[i] = Behind(tcs[i].deps, p)
      BY <2>10
    <3>1. CASE i = k
      BY <2>6, <2>9, <3>1
    <3>2. CASE i # k
      <4>1. i \in 1 .. k - 1
        BY <2>3, <3>2
      <4> QED BY <2>5, <2>9, <4>1
    <3> QED BY <3>1, <3>2
  <2>12. Good(k)
    <3> HIDE DEF S
    <3> QED BY <2>8, <2>9, <2>11
  <2> HIDE DEF Good
  <2> QED BY <2>1, <2>12
<1>8. n \in 0 .. n
  OBVIOUS
<1> QED BY <1>1, <1>3, <1>7, <1>8 DEF IsAncestry

-----------------------------------------------------------------------------
(* Membrane potentials.  What has been done for them in the current DRAM   *)
(* step is behind the transactions the next step of them will wait for.    *)

VmemTcs == Labelled("count", "lif") \cup Labelled("chain", "vmem")

VmemOf(d) == {j \in VmemTcs : tcs[j].dram = d}

Tip == IF pc # <<"chain", "vmem">> THEN tails["vmem"]
       ELSE IF ends = <<>> THEN Computed("vmem") ELSE ends

Positions ==
  \A j \in DOMAIN tcs :
    /\ tcs[j].dram \in Nat /\ tcs[j].noc \in Nat
    /\ tcs[j].dram < dramI \/ (tcs[j].dram = dramI /\ tcs[j].noc <= nocI)

OrderControl ==
  /\ Positions
  /\ pc[1] # "chain" => ends = <<>>
  /\ BeforeNocLoop => VmemOf(dramI) = {}

Ordered(A) ==
  \A i \in Labelled("count", "lif") : \A j \in VmemTcs :
    tcs[j].dram = tcs[i].dram /\ tcs[j].noc < tcs[i].noc => j \in A[i]

OrderInv ==
  /\ OrderControl
  /\ \A A : IsAncestry(A) => Ordered(A) /\ VmemOf(dramI) \subseteq Behind(Tip, A)

(* The list only grows, so what is an ancestry after a step was one before.*)
LEMMA AncestryBefore ==
  ASSUME Held, Next, NEW A, IsAncestry(A)'
  PROVE  /\ IsAncestry(A)
         /\ \A i \in 1 .. Len(tcs') : A[i] = Behind(tcs'[i].deps, A)
<1>1. Len(tcs) \in Nat /\ Len(tcs') \in Nat /\ Len(tcs) <= Len(tcs')
  BY StepGrows
<1>2. \A i \in 1 .. Len(tcs') : A[i] = Behind(tcs'[i].deps, A)
  BY DEF IsAncestry, Behind
<1>3. \A i \in 1 .. Len(tcs) : i \in 1 .. Len(tcs') /\ tcs'[i] = tcs[i]
  BY <1>1, StepGrows
<1> QED BY <1>2, <1>3 DEF IsAncestry

(* Transactions about membrane potentials come from two calls only.        *)
LEMMA VmemGrows ==
  ASSUME Held, Next
  PROVE  /\ \A j \in VmemTcs : /\ j \in VmemTcs' /\ j \in 1 .. Len(tcs)
                               /\ tcs'[j] = tcs[j]
         /\ \A i \in Labelled("count", "lif") : i \in VmemTcs
         /\ \A j \in VmemTcs' :
              \/ j \in VmemTcs
              \/ /\ pc = <<"count", "lif">> \/ pc = <<"chain", "vmem">>
                 /\ j \in 1 .. Len(tcs') /\ j > Len(tcs)
                 /\ tcs'[j].dram = dramI /\ tcs'[j].noc = nocI
         /\ \A i \in Labelled("count", "lif")' :
              \/ i \in Labelled("count", "lif")
              \/ /\ pc = <<"count", "lif">>
                 /\ i \in 1 .. Len(tcs') /\ i > Len(tcs)
                 /\ tcs'[i].dram = dramI /\ tcs'[i].noc = nocI
<1>1. /\ Len(tcs) \in Nat /\ DOMAIN tcs = 1 .. Len(tcs)
      /\ Len(tcs') \in Nat /\ DOMAIN tcs' = 1 .. Len(tcs')
      /\ Len(tcs) <= Len(tcs')
  BY StepGrows
<1>2. ASSUME NEW op, NEW v, NEW j \in Labelled(op, v)
      PROVE  j \in Labelled(op, v)' /\ j \in 1 .. Len(tcs) /\ tcs'[j] = tcs[j]
  <2>1. j \in 1 .. Len(tcs) /\ tcs[j].label = <<op, v>>
    BY <1>1 DEF Labelled
  <2>2. tcs'[j] = tcs[j] /\ j \in 1 .. Len(tcs')
    BY <1>1, <2>1, StepGrows
  <2> QED BY <1>1, <2>1, <2>2 DEF Labelled
<1>3. ASSUME NEW op, NEW v, NEW j \in Labelled(op, v)', j \notin Labelled(op, v)
      PROVE  /\ pc = <<op, v>> /\ j \in 1 .. Len(tcs') /\ j > Len(tcs)
             /\ tcs'[j].dram = dramI /\ tcs'[j].noc = nocI
  <2>1. j \in 1 .. Len(tcs') /\ tcs'[j].label = <<op, v>>
    BY <1>1 DEF Labelled
  <2>2. j > Len(tcs)
    <3> SUFFICES ASSUME ~(j > Len(tcs)) PROVE FALSE
      OBVIOUS
    <3>1. j \in 1 .. Len(tcs)
      BY <1>1, <2>1
    <3>2. tcs'[j] = tcs[j]
      BY <3>1, StepGrows
    <3> QED BY <1>1, <1>3, <2>1, <3>1, <3>2 DEF Labelled
  <2> QED BY <2>1, <2>2, StepGrows
<1>4. VmemTcs = Labelled("count", "lif") \cup Labelled("chain", "vmem")
  BY DEF VmemTcs
<1>5. VmemTcs' = Labelled("count", "lif")' \cup Labelled("chain", "vmem")'
  BY DEF VmemTcs
<1>6. ASSUME NEW j \in VmemTcs PROVE j \in VmemTcs' /\ j \in 1 .. Len(tcs) /\ tcs'[j] = tcs[j]
  BY <1>2, <1>4, <1>5
<1>7. ASSUME NEW j \in VmemTcs', j \notin VmemTcs
      PROVE  /\ pc = <<"count", "lif">> \/ pc = <<"chain", "vmem">>
             /\ j \in 1 .. Len(tcs') /\ j > Len(tcs)
             /\ tcs'[j].dram = dramI /\ tcs'[j].noc = nocI
  BY <1>3, <1>4, <1>5, <1>7
<1> QED BY <1>3, <1>4, <1>6, <1>7

(* Every step stays where it is or goes on in the two loops.               *)
LEMMA PositionsKept ==
  ASSUME Held, OrderInv, Next,
         \/ dramI' = dramI /\ nocI' \in {nocI, nocI + 1}
         \/ dramI' = dramI + 1
  PROVE  Positions'
<1>1. /\ Len(tcs) \in Nat /\ DOMAIN tcs = 1 .. Len(tcs)
      /\ Len(tcs') \in Nat /\ DOMAIN tcs' = 1 .. Len(tcs')
      /\ dramI \in Nat /\ nocI \in Nat
  BY StepGrows, StepsAreNumbers
<1>2. ASSUME NEW j \in 1 .. Len(tcs')
      PROVE  /\ tcs'[j].dram \in Nat /\ tcs'[j].noc \in Nat
             /\ tcs'[j].dram < dramI \/ (tcs'[j].dram = dramI /\ tcs'[j].noc <= nocI)
  <2>1. CASE j > Len(tcs)
    BY <1>1, <2>1, StepGrows
  <2>2. CASE ~(j > Len(tcs))
    <3>1. j \in 1 .. Len(tcs)
      BY <1>1, <2>2
    <3>2. tcs'[j] = tcs[j]
      BY <3>1, StepGrows
    <3> QED BY <1>1, <3>1, <3>2 DEF OrderInv, OrderControl, Positions
  <2> QED BY <2>1, <2>2
<1>3. ASSUME NEW j \in 1 .. Len(tcs')
      PROVE  tcs'[j].dram < dramI' \/ (tcs'[j].dram = dramI' /\ tcs'[j].noc <= nocI')
  <2>1. PICK a \in Nat : a = tcs'[j].dram
    BY <1>2
  <2>2. PICK b \in Nat : b = tcs'[j].noc
    BY <1>2
  <2>3. a < dramI \/ (a = dramI /\ b <= nocI)
    BY <1>2, <2>1, <2>2
  <2>4. a < dramI' \/ (a = dramI' /\ b <= nocI')
    BY <1>1, <2>3
  <2> QED BY <2>1, <2>2, <2>4
<1> QED BY <1>1, <1>2, <1>3 DEF Positions

(* Where nothing is done for the membrane potentials the order stands.     *)
LEMMA OrderStays ==
  ASSUME Held, OrderInv, Next, OrderControl', VmemTcs' = VmemTcs,
         VmemOf(dramI)' # {} => dramI' = dramI /\ Tip' = Tip
  PROVE  OrderInv'
<1>1. \A j \in VmemTcs : tcs'[j] = tcs[j]
  BY VmemGrows
<1>2. \A i \in Labelled("count", "lif")' : i \in Labelled("count", "lif") /\ i \in VmemTcs
  <2> SUFFICES ASSUME NEW i \in Labelled("count", "lif")'
               PROVE  i \in Labelled("count", "lif") /\ i \in VmemTcs
    OBVIOUS
  <2>1. i \in VmemTcs
    <3>1. i \in VmemTcs'
      BY DEF VmemTcs
    <3> QED BY <3>1
  <2>2. i \in 1 .. Len(tcs) /\ tcs'[i] = tcs[i]
    BY <2>1, VmemGrows
  <2> QED BY <2>1, <2>2, StepGrows DEF Labelled
<1>3. ASSUME NEW A, IsAncestry(A)'
      PROVE  Ordered(A)' /\ VmemOf(dramI)' \subseteq Behind(Tip, A)'
  <2>1. Ordered(A) /\ VmemOf(dramI) \subseteq Behind(Tip, A)
    BY <1>3, AncestryBefore DEF OrderInv
  <2>2. Ordered(A)'
    BY <1>1, <1>2, <2>1 DEF Ordered
  <2>3. CASE VmemOf(dramI)' = {}
    BY <2>2, <2>3
  <2>4. CASE VmemOf(dramI)' # {}
    <3>1. dramI' = dramI /\ Tip' = Tip
      BY <2>4
    <3>2. VmemOf(dramI)' = VmemOf(dramI)
      BY <1>1, <3>1 DEF VmemOf
    <3>3. Behind(Tip, A)' = Behind(Tip, A)
      BY <3>1 DEF Behind
    <3> QED BY <2>1, <2>2, <3>2, <3>3
  <2> QED BY <2>3, <2>4
<1> QED BY <1>3 DEF OrderInv

(* New transactions of this step, each behind what there was, keep the     *)
(* order.                                                                  *)
LEMMA OrderGrows ==
  ASSUME Held, OrderInv, Next, dramI' = dramI, NEW A, IsAncestry(A)',
         \A i \in Labelled("count", "lif")' :
           i > Len(tcs) => VmemOf(dramI) \subseteq A[i]
  PROVE  Ordered(A)'
<1>1. Len(tcs) \in Nat /\ Ordered(A)
  BY AncestryBefore, StepGrows DEF OrderInv
<1>2. ASSUME NEW j \in VmemTcs
      PROVE  /\ tcs'[j] = tcs[j] /\ j \in 1 .. Len(tcs)
             /\ tcs[j].dram \in Nat /\ tcs[j].noc \in Nat
             /\ tcs[j].dram < dramI \/ (tcs[j].dram = dramI /\ tcs[j].noc <= nocI)
  BY VmemGrows, StepGrows DEF OrderInv, OrderControl, Positions
<1>3. dramI \in Nat /\ nocI \in Nat
  BY StepsAreNumbers
<1> SUFFICES ASSUME NEW i \in Labelled("count", "lif")', NEW j \in VmemTcs',
                    tcs'[j].dram = tcs'[i].dram, tcs'[j].noc < tcs'[i].noc
             PROVE  j \in A[i]
  BY DEF Ordered
<1>4. CASE i \in Labelled("count", "lif")
  <2>1. i \in VmemTcs
    BY <1>4 DEF VmemTcs
  <2>2. j \in VmemTcs
    <3> SUFFICES ASSUME j \notin VmemTcs PROVE FALSE
      OBVIOUS
    <3>1. tcs'[j].dram = dramI /\ tcs'[j].noc = nocI
      BY VmemGrows
    <3>2. tcs[i].dram = dramI /\ nocI < tcs[i].noc
      BY <1>2, <2>1, <3>1
    <3> QED BY <1>2, <1>3, <2>1, <3>2
  <2> QED BY <1>1, <1>2, <1>4, <2>1, <2>2 DEF Ordered
<1>5. CASE i \notin Labelled("count", "lif")
  <2>1. i > Len(tcs) /\ tcs'[i].dram = dramI /\ tcs'[i].noc = nocI
    BY <1>5, VmemGrows
  <2>2. j \in VmemTcs
    <3> SUFFICES ASSUME j \notin VmemTcs PROVE FALSE
      OBVIOUS
    <3>1. tcs'[j].dram = dramI /\ tcs'[j].noc = nocI
      BY VmemGrows
    <3> QED BY <1>3, <2>1, <3>1
  <2>3. j \in VmemOf(dramI)
    BY <1>2, <2>1, <2>2 DEF VmemOf
  <2> QED BY <2>1, <2>3
<1> QED BY <1>4, <1>5

(* What is done for the membrane potentials in this DRAM step, once a step *)
(* has added to it.                                                        *)
LEMMA VmemOfGrows ==
  ASSUME Held, Next, dramI' = dramI
  PROVE  \A j \in VmemOf(dramI)' :
           \/ j \in VmemOf(dramI)
           \/ j \in 1 .. Len(tcs') /\ j > Len(tcs)
<1> SUFFICES ASSUME NEW j \in VmemOf(dramI)'
             PROVE  j \in VmemOf(dramI) \/ (j \in 1 .. Len(tcs') /\ j > Len(tcs))
  OBVIOUS
<1>1. j \in VmemTcs' /\ tcs'[j].dram = dramI
  BY DEF VmemOf
<1> QED BY <1>1, VmemGrows DEF VmemOf

(* A firing waits for the ends of the chains before it.                    *)
LEMMA VmemCounted ==
  ASSUME Held, OrderInv, LifCount
  PROVE  OrderInv'
<1>1. /\ pc = <<"count", "lif">> /\ Next /\ pc' = <<"chain", "vmem">>
      /\ dramI' = dramI /\ nocI' = nocI /\ ends' = ends
  BY DEF LifCount, Next
<1>2. ends = <<>>
  BY <1>1 DEF OrderInv, OrderControl
<1>3. OrderControl'
  BY <1>1, PositionsKept DEF OrderControl, BeforeNocLoop
<1>4. PICK batch : /\ batch = Counts(Cycles.lif, LifDependencies) /\ tcs' = tcs \o batch
                   /\ lifRing' = Pushed(lifRing, NewIds(batch))
  BY DEF LifCount, Emit
<1>5. PICK pes : pes \in Nat \ {0} /\ pes = NumPes
  BY CombineAssumption DEF Held, NumPes
<1>6. /\ batch = [k \in 1 .. pes |-> batch[k]]
      /\ \A k \in 1 .. pes : batch[k].deps = LifDependencies
  BY <1>4, <1>5 DEF Counts
<1>7. IsSequence(batch) /\ Len(batch) = pes /\ DOMAIN batch = 1 .. pes
  BY <1>5, <1>6, ListIsSequence
<1>8. /\ Len(tcs) \in Nat /\ Len(tcs') = Len(tcs) + pes
      /\ \A k \in 1 .. pes : tcs'[Len(tcs) + k] = batch[k]
  <2>1. IsSequence(tcs) /\ IsSequence(batch) /\ tcs' = tcs \o batch
    BY <1>4, <1>7 DEF Held
  <2>2. /\ Len(tcs) \in Nat /\ Len(tcs') = Len(tcs) + Len(batch)
        /\ \A k \in 1 .. Len(batch) : tcs'[Len(tcs) + k] = batch[k]
    BY ONLY <2>1, Joined
  <2> QED BY <1>7, <2>2
<1>9. ToSet(tails["vmem"]) \subseteq ToSet(LifDependencies)
  <2>1. /\ tails["psum"] \in Seq(KnownIds) /\ tails["vmem"] \in Seq(KnownIds)
        /\ loaded \in Seq(KnownIds) /\ lifRing \in Seq(Seq(KnownIds))
    BY DEF Held, TypeOK
  <2>2. LatestBut(lifRing, 1) \in Seq(KnownIds)
    <3>1. PICK S : S = Seq(KnownIds)
      OBVIOUS
    <3>2. \A i \in 1 .. Len(lifRing) : lifRing[i] \in S
      BY <2>1, <3>1
    <3>3. Len(lifRing) \in Nat /\ <<>> \in S
      BY <2>1, <3>1
    <3>4. Len(lifRing) > 1 => Len(lifRing) - 1 \in 1 .. Len(lifRing)
      BY <3>3
    <3> QED BY <3>1, <3>2, <3>3, <3>4 DEF LatestBut
  <2>3. ASSUME NEW S, NEW a \in Seq(S), NEW b \in Seq(S), NEW c \in Seq(S), NEW d \in Seq(S)
        PROVE  ToSet(c) \subseteq ToSet(a \o b \o c \o d)
    <3>1. ASSUME NEW x \in Seq(S), NEW y \in Seq(S)
          PROVE  /\ x \o y \in Seq(S) /\ ToSet(x) \subseteq ToSet(x \o y)
                 /\ ToSet(y) \subseteq ToSet(x \o y)
      <4>1. /\ x \o y \in Seq(S) /\ Len(x \o y) = Len(x) + Len(y)
            /\ Len(x) \in Nat /\ Len(y) \in Nat
            /\ \A i \in 1 .. Len(x) : (x \o y)[i] = x[i]
            /\ \A i \in 1 .. Len(y) : (x \o y)[Len(x) + i] = y[i]
        OBVIOUS
      <4>2. \A i \in 1 .. Len(x) : i \in 1 .. Len(x \o y)
        BY <4>1
      <4>3. \A i \in 1 .. Len(y) : Len(x) + i \in 1 .. Len(x \o y)
        BY <4>1
      <4>4. /\ DOMAIN x = 1 .. Len(x) /\ DOMAIN y = 1 .. Len(y)
            /\ DOMAIN (x \o y) = 1 .. Len(x \o y)
        BY <4>1
      <4> QED BY <4>1, <4>2, <4>3, <4>4 DEF ToSet
    <3>2. a \o b \in Seq(S) /\ (a \o b) \o c \in Seq(S)
      BY <3>1
    <3>3. ToSet(c) \subseteq ToSet((a \o b) \o c)
      BY <3>1, <3>2
    <3>4. ToSet((a \o b) \o c) \subseteq ToSet(((a \o b) \o c) \o d)
      BY <3>1, <3>2
    <3> QED BY <3>3, <3>4
  <2> QED BY <2>1, <2>2, <2>3 DEF LifDependencies
<1>10. ASSUME NEW A, IsAncestry(A)', NEW i \in 1 .. Len(tcs'), i > Len(tcs)
       PROVE  VmemOf(dramI) \subseteq A[i]
  <2>1. i - Len(tcs) \in 1 .. pes /\ i = Len(tcs) + (i - Len(tcs))
    BY <1>5, <1>8, <1>10
  <2>2. tcs'[i].deps = LifDependencies
    BY <1>6, <1>8, <2>1
  <2>3. A[i] = Behind(LifDependencies, A)
    BY <1>1, <1>10, <2>2, AncestryBefore
  <2>4. VmemOf(dramI) \subseteq Behind(tails["vmem"], A)
    BY <1>1, <1>10, AncestryBefore DEF OrderInv, Tip
  <2> QED BY <1>9, <2>3, <2>4 DEF Behind
<1>11. Tip' = NewIds(batch)
  <2>1. Tip' = LatestBut(lifRing', 0)
    BY <1>1, <1>2 DEF Tip, Computed
  <2>2. PICK ids : ids = NewIds(batch)
    OBVIOUS
  <2> DEFINE n == Len(lifRing)
  <2>3. n \in Nat /\ \E R : lifRing \in Seq(R)
    BY DEF Held, TypeOK
  <2>4. LatestBut(Pushed(lifRing, ids), 0) = ids
    <3>1. CASE n < 2
      <4>1. Pushed(lifRing, ids) = Append(lifRing, ids)
        BY <2>3, <3>1 DEF Pushed
      <4>2. /\ Len(Append(lifRing, ids)) = n + 1
            /\ Append(lifRing, ids)[n + 1] = ids
        BY <2>3
      <4>3. (n + 1) - 0 = n + 1 /\ n + 1 > 0
        BY <2>3
      <4> QED BY <4>1, <4>2, <4>3 DEF LatestBut
    <3>2. CASE ~(n < 2)
      <4>1. Pushed(lifRing, ids) = <<lifRing[2], ids>>
        BY <2>3, <3>2 DEF Pushed
      <4> QED BY <4>1 DEF LatestBut
    <3> QED BY <3>1, <3>2
  <2> QED BY <1>4, <2>1, <2>2, <2>4
<1>12. ASSUME NEW A, IsAncestry(A)'
       PROVE  VmemOf(dramI)' \subseteq Behind(Tip, A)'
  <2>1. Behind(Tip, A)' = Behind(NewIds(batch), A)
    BY <1>11 DEF Behind
  <2>2. ASSUME NEW i \in 1 .. Len(tcs'), i > Len(tcs)
        PROVE  i \in Behind(NewIds(batch), A) /\ A[i] \subseteq Behind(NewIds(batch), A)
    <3>1. PICK k : k \in 1 .. pes /\ i = Len(tcs) + k
      <4>1. i - Len(tcs) \in 1 .. pes /\ i = Len(tcs) + (i - Len(tcs))
        BY <1>5, <1>8, <2>2
      <4> QED BY <4>1
    <3>2. NewIds(batch)[k] = i - 1 /\ DOMAIN NewIds(batch) = 1 .. pes
      BY <1>5, <1>7, <1>8, <3>1 DEF NewIds
    <3>3. i - 1 \in ToSet(NewIds(batch))
      BY <3>1, <3>2 DEF ToSet
    <3>4. (i - 1) + 1 = i
      BY <1>8, <2>2
    <3> QED BY <3>3, <3>4 DEF Behind
  <2>3. Len(tcs) + 1 \in 1 .. Len(tcs') /\ Len(tcs) + 1 > Len(tcs)
    BY <1>5, <1>8
  <2>4. VmemOf(dramI) \subseteq Behind(NewIds(batch), A)
    BY <1>10, <1>12, <2>2, <2>3
  <2>5. ASSUME NEW j \in VmemOf(dramI)' PROVE j \in Behind(NewIds(batch), A)
    BY <1>1, <2>2, <2>4, VmemOfGrows
  <2> QED BY <2>1, <2>5
<1>13. ASSUME NEW A, IsAncestry(A)' PROVE Ordered(A)'
  <2>1. \A i \in Labelled("count", "lif")' : i \in 1 .. Len(tcs')
    BY <1>1, StepGrows DEF Labelled
  <2> QED BY <1>1, <1>10, <1>13, <2>1, OrderGrows
<1> QED BY <1>3, <1>12, <1>13 DEF OrderInv

(* The links of one chain: one after the other, the first after what was   *)
(* computed.                                                               *)
LEMMA LinksAre ==
  ASSUME Held, NEW v \in Results, Chain(v)
  PROVE  \E n \in Nat :
           /\ Len(tcs') = Len(tcs) + n
           /\ \A k \in 1 .. n : tcs'[Len(tcs) + k].deps = LinkDependencies(v, k)
           /\ n = 0 => ends' = ends
           /\ n # 0 => ends' = Append(ends, Len(tcs) + n - 1)
<1> DEFINE chain == job.chains[v][group]
           links == [i \in 1 .. Len(chain) - 1 |->
                       Message(chain[i], <<chain[i + 1]>>, Packets(v, Len(job.chains[v])),
                               LinkDependencies(v, i))]
<1>1. /\ tcs' = tcs \o links
      /\ ends' = IF links = <<>> THEN ends ELSE Append(ends, Len(tcs) + Len(links) - 1)
  BY DEF Chain, Emit
<1>2. Len(chain) \in Nat
  <2>1. /\ job.chains[v] \in Seq(Seq(Nat))
        /\ DOMAIN job.chains[v] = 1 .. Len(job.chains[v])
        /\ Len(job.chains[v]) \in Nat
    BY JobOK
  <2>2. group \in 1 .. Len(job.chains[v])
    BY <2>1 DEF Held, TypeOK, Chain
  <2>3. chain \in Seq(Nat)
    BY <2>1, <2>2
  <2> HIDE DEF chain
  <2> QED BY <2>3
<1> HIDE DEF chain
<1>3. PICK n \in Nat : 1 .. Len(chain) - 1 = 1 .. n
  <2>1. CASE Len(chain) = 0
    <3>1. 1 .. Len(chain) - 1 = 1 .. 0
      BY <2>1
    <3> QED BY <3>1
  <2>2. CASE Len(chain) # 0
    <3>1. Len(chain) - 1 \in Nat
      BY <1>2, <2>2
    <3> QED BY <3>1
  <2> QED BY <2>1, <2>2
<1>4. links = [k \in 1 .. n |-> links[k]]
  BY <1>3
<1>5. \A k \in 1 .. n : links[k].deps = LinkDependencies(v, k)
  BY <1>3 DEF Message
<1> HIDE DEF links
<1>6. IsSequence(links) /\ Len(links) = n /\ DOMAIN links = 1 .. n
  BY <1>4, ListIsSequence
<1>7. /\ Len(tcs) \in Nat /\ Len(tcs') = Len(tcs) + n
      /\ \A k \in 1 .. n : tcs'[Len(tcs) + k] = links[k]
  <2>1. PICK batch : batch = links
    OBVIOUS
  <2>2. IsSequence(tcs) /\ IsSequence(batch) /\ tcs' = tcs \o batch
    BY <1>1, <1>6, <2>1 DEF Held
  <2>3. /\ Len(tcs) \in Nat /\ Len(tcs') = Len(tcs) + Len(batch)
        /\ \A k \in 1 .. Len(batch) : tcs'[Len(tcs) + k] = batch[k]
    BY ONLY <2>2, Joined
  <2> QED BY <1>6, <2>1, <2>3
<1>8. links = <<>> <=> n = 0
  <2>1. n = 0 => DOMAIN links = {}
    BY <1>6
  <2>2. DOMAIN links = {} => links = <<>>
    BY <1>6 DEF IsSequence
  <2>3. links = <<>> => Len(links) = 0
    OBVIOUS
  <2> QED BY <1>6, <2>1, <2>2, <2>3
<1>9. n # 0 => ends' = Append(ends, Len(tcs) + n - 1)
  BY <1>1, <1>6, <1>8
<1>10. n = 0 => ends' = ends
  BY <1>1, <1>8
<1> QED BY <1>5, <1>7, <1>9, <1>10

(* Each link of a chain is behind the whole of it.                         *)
LEMMA LinksBehind ==
  ASSUME Held, NEW v \in Results, Chain(v), NEW A, IsAncestry(A)',
         NEW n \in Nat, Len(tcs') = Len(tcs) + n,
         \A k \in 1 .. n : tcs'[Len(tcs) + k].deps = LinkDependencies(v, k)
  PROVE  \A k \in 1 .. n :
           /\ Behind(Computed(v), A) \subseteq A[Len(tcs) + k]
           /\ \A l \in 1 .. k - 1 : Len(tcs) + l \in A[Len(tcs) + k]
<1> DEFINE Good(k) == /\ Behind(Computed(v), A) \subseteq A[Len(tcs) + k]
                      /\ \A l \in 1 .. k - 1 : Len(tcs) + l \in A[Len(tcs) + k]
           Bad == {k \in 1 .. n : ~Good(k)}
<1>1. Len(tcs) \in Nat /\ Next
  BY StepGrows DEF Next, Results
<1>2. ASSUME NEW k \in 1 .. n PROVE A[Len(tcs) + k] = Behind(LinkDependencies(v, k), A)
  <2>1. Len(tcs) + k \in 1 .. Len(tcs')
    BY <1>1
  <2> QED BY <1>1, <2>1, AncestryBefore
<1>3. 1 \in 1 .. n => Good(1)
  <2>1. ASSUME 1 \in 1 .. n PROVE A[Len(tcs) + 1] = Behind(Computed(v), A)
    BY <1>2, <2>1 DEF LinkDependencies
  <2>2. 1 .. 1 - 1 = {}
    OBVIOUS
  <2> QED BY <2>1, <2>2
<1>4. ASSUME NEW k \in 2 .. n, Good(k - 1) PROVE Good(k)
  <2>1. k \in 1 .. n /\ k # 1 /\ k \in Nat /\ k - 1 \in 1 .. n
    OBVIOUS
  <2>2. LinkDependencies(v, k) = <<Len(tcs) + k - 2>>
    BY <2>1 DEF LinkDependencies
  <2>3. ToSet(<<Len(tcs) + k - 2>>) = {Len(tcs) + k - 2}
    BY DEF ToSet
  <2>4. (Len(tcs) + k - 2) + 1 = Len(tcs) + (k - 1)
    BY <1>1, <2>1
  <2>5. A[Len(tcs) + k] = A[Len(tcs) + (k - 1)] \cup {Len(tcs) + (k - 1)}
    <3>1. A[Len(tcs) + k] = Behind(<<Len(tcs) + k - 2>>, A)
      BY <1>2, <2>1, <2>2
    <3>2. Behind(<<Len(tcs) + k - 2>>, A)
            = UNION {A[id + 1] \cup {id + 1} : id \in {Len(tcs) + k - 2}}
      BY <2>3 DEF Behind
    <3>3. UNION {A[id + 1] \cup {id + 1} : id \in {Len(tcs) + k - 2}}
            = A[(Len(tcs) + k - 2) + 1] \cup {(Len(tcs) + k - 2) + 1}
      OBVIOUS
    <3> QED BY <2>4, <3>1, <3>2, <3>3
  <2>6. \A l \in 1 .. k - 1 : l \in 1 .. (k - 1) - 1 \/ l = k - 1
    BY <2>1
  <2> QED BY <1>4, <2>5, <2>6
<1> HIDE DEF Good
<1>5. Bad = {}
  <2> SUFFICES ASSUME Bad # {} PROVE FALSE
    OBVIOUS
  <2>1. PICK k \in Bad : \A m \in Bad : k <= m
    <3>1. Bad \subseteq Nat
      OBVIOUS
    <3> HIDE DEF Bad
    <3> QED BY <3>1, LeastExists
  <2>2. k # 1
    BY <1>3
  <2>3. k \in 2 .. n /\ k - 1 \in 1 .. n
    BY <2>2
  <2>4. ~(k <= k - 1)
    BY <2>3
  <2>5. Good(k - 1)
    BY <2>1, <2>3, <2>4
  <2> QED BY <1>4, <2>3, <2>5
<1>6. \A k \in 1 .. n : Good(k)
  BY <1>5
<1> QED BY <1>6 DEF Good

(* A chain waits for the firing, and its ends stand for all of it.         *)
LEMMA VmemChained ==
  ASSUME Held, OrderInv, Chain("vmem")
  PROVE  OrderInv'
<1>1. /\ pc = <<"chain", "vmem">> /\ Next /\ pc' = pc /\ "vmem" \in Results
      /\ dramI' = dramI /\ nocI' = nocI
      /\ lifRing' = lifRing
  BY DEF Chain, Next, Results
<1>2. OrderControl'
  BY <1>1, PositionsKept DEF OrderControl, BeforeNocLoop
<1>3. PICK n \in Nat : /\ Len(tcs') = Len(tcs) + n
                       /\ \A k \in 1 .. n : tcs'[Len(tcs) + k].deps = LinkDependencies("vmem", k)
                       /\ n = 0 => ends' = ends
                       /\ n # 0 => ends' = Append(ends, Len(tcs) + n - 1)
  BY <1>1, LinksAre
<1>4. PICK K : K = Computed("vmem") /\ K = Computed("vmem")'
  BY <1>1 DEF Computed
<1>5. Len(tcs) \in Nat /\ ends \in Seq(KnownIds)
  BY DEF Held, TypeOK, IsSequence
<1>6. ASSUME NEW A, IsAncestry(A)'
      PROVE  Ordered(A)'
  <2>1. ASSUME NEW i \in Labelled("count", "lif")' PROVE ~(i > Len(tcs))
    <3>1. i \in 1 .. Len(tcs') /\ tcs'[i].label = <<"count", "lif">>
      BY <1>1, StepGrows DEF Labelled
    <3> QED BY <1>1, <3>1, StepGrows
  <2> QED BY <1>1, <1>6, <2>1, OrderGrows
<1>7. ASSUME NEW A, IsAncestry(A)'
      PROVE  VmemOf(dramI)' \subseteq Behind(Tip, A)'
  <2>1. VmemOf(dramI) \subseteq Behind(IF ends = <<>> THEN K ELSE ends, A)
    BY <1>1, <1>4, <1>7, AncestryBefore DEF OrderInv, Tip
  <2>2. Behind(Tip, A)' = Behind(IF ends' = <<>> THEN K ELSE ends', A)
    BY <1>1, <1>4 DEF Behind, Tip
  <2>3. \A j \in VmemOf(dramI)' : j \in VmemOf(dramI) \/ (j \in 1 .. Len(tcs') /\ j > Len(tcs))
    BY <1>1, VmemOfGrows
  <2>4. CASE n = 0
    <3>1. ~(\E j \in 1 .. Len(tcs') : j > Len(tcs))
      BY <1>3, <1>5, <2>4
    <3> QED BY <1>3, <2>1, <2>2, <2>3, <2>4, <3>1
  <2>5. CASE n # 0
    <3>1. ends' = Append(ends, Len(tcs) + n - 1)
      BY <1>3, <2>5
    <3>2. /\ Len(tcs) + n - 1 \in ToSet(ends') /\ ToSet(ends) \subseteq ToSet(ends')
          /\ ends' # <<>>
      <4>1. PICK e : e = Len(tcs) + n - 1
        OBVIOUS
      <4>2. PICK f : f = ends /\ f \in Seq(KnownIds)
        BY <1>5
      <4>3. /\ DOMAIN Append(f, e) = 1 .. Len(f) + 1 /\ Len(f) \in Nat
            /\ DOMAIN f = 1 .. Len(f)
            /\ Append(f, e)[Len(f) + 1] = e
            /\ \A i \in 1 .. Len(f) : Append(f, e)[i] = f[i]
        BY <4>2
      <4>4. /\ Len(f) + 1 \in 1 .. Len(f) + 1
            /\ \A i \in 1 .. Len(f) : i \in 1 .. Len(f) + 1
        BY <4>3
      <4>5. e \in ToSet(Append(f, e)) /\ ToSet(f) \subseteq ToSet(Append(f, e))
        BY <4>3, <4>4 DEF ToSet
      <4>6. Append(f, e) # <<>>
        <5>1. DOMAIN Append(f, e) # {}
          BY <4>3, <4>4
        <5> QED BY <5>1
      <4> QED BY <3>1, <4>1, <4>2, <4>5, <4>6
    <3>3. (Len(tcs) + n - 1) + 1 = Len(tcs) + n
      BY <1>5
    <3>4. A[Len(tcs) + n] \cup {Len(tcs) + n} \subseteq Behind(ends', A)
      BY <3>2, <3>3 DEF Behind
    <3>5. n \in 1 .. n
      BY <2>5
    <3>6. /\ Behind(K, A) \subseteq A[Len(tcs) + n]
          /\ \A l \in 1 .. n - 1 : Len(tcs) + l \in A[Len(tcs) + n]
      BY <1>1, <1>3, <1>4, <1>7, <3>5, LinksBehind
    <3>7. VmemOf(dramI) \subseteq Behind(ends', A)
      <4>1. CASE ends = <<>>
        BY <2>1, <3>4, <3>6, <4>1
      <4>2. CASE ends # <<>>
        BY <2>1, <3>2, <4>2 DEF Behind
      <4> QED BY <4>1, <4>2
    <3>8. ASSUME NEW j \in 1 .. Len(tcs'), j > Len(tcs) PROVE j \in Behind(ends', A)
      <4>1. PICK l : l = j - Len(tcs) /\ l \in 1 .. n /\ j = Len(tcs) + l
        BY <1>3, <1>5, <3>8
      <4>2. l = n \/ l \in 1 .. n - 1
        BY <4>1
      <4> QED BY <3>4, <3>6, <4>1, <4>2
    <3> QED BY <2>2, <2>3, <3>2, <3>7, <3>8
  <2> QED BY <2>4, <2>5
<1> QED BY <1>2, <1>6, <1>7 DEF OrderInv

(* Any step but the computation and its chains: nothing is done for the    *)
(* membrane potentials, and no longer for those of this DRAM step once it  *)
(* is over.                                                                *)
LEMMA NothingForVmem ==
  ASSUME Held, OrderInv, Next, pc # <<"count", "lif">>, pc # <<"chain", "vmem">>,
         pc'[1] # "chain" => ends' = <<>>,
         \/ /\ dramI' = dramI /\ nocI' \in {nocI, nocI + 1}
            /\ BeforeNocLoop' => BeforeNocLoop
            /\ BeforeNocLoop \/ Tip' = Tip
         \/ dramI' = dramI + 1
  PROVE  OrderInv'
<1>1. Positions'
  BY PositionsKept
<1>2. VmemTcs' = VmemTcs /\ \A j \in VmemTcs : tcs'[j] = tcs[j]
  BY VmemGrows
<1>3. CASE dramI' = dramI
  <2>1. VmemOf(dramI)' = VmemOf(dramI)
    BY <1>2, <1>3 DEF VmemOf
  <2>2. BeforeNocLoop' => BeforeNocLoop
    BY <1>3, StepsAreNumbers
  <2>3. BeforeNocLoop \/ Tip' = Tip
    BY <1>3, StepsAreNumbers
  <2>4. BeforeNocLoop => VmemOf(dramI) = {}
    BY DEF OrderInv, OrderControl
  <2>5. OrderControl'
    BY <1>1, <2>1, <2>2, <2>4 DEF OrderControl
  <2> QED BY <1>2, <1>3, <2>1, <2>3, <2>4, <2>5, OrderStays
<1>4. CASE dramI' = dramI + 1
  <2>1. VmemOf(dramI)' = {}
    <3> SUFFICES ASSUME NEW j \in VmemOf(dramI)' PROVE FALSE
      OBVIOUS
    <3>1. j \in VmemTcs /\ tcs[j].dram = dramI + 1
      BY <1>2, <1>4 DEF VmemOf
    <3>2. j \in DOMAIN tcs
      BY <3>1, VmemGrows, StepGrows
    <3>3. /\ tcs[j].dram \in Nat /\ dramI \in Nat
          /\ tcs[j].dram < dramI \/ tcs[j].dram = dramI
      BY <3>2, StepsAreNumbers DEF OrderInv, OrderControl, Positions
    <3> QED BY <3>1, <3>3
  <2>2. OrderControl'
    BY <1>1, <2>1 DEF OrderControl
  <2> QED BY <1>2, <2>1, <2>2, OrderStays
<1> QED BY <1>3, <1>4

(* No step breaks the order.                                               *)
LEMMA StepOrdered ==
  ASSUME Held, OrderInv, [Next]_vars
  PROVE  OrderInv'
<1>1. CASE UNCHANGED vars
  <2>1. /\ tcs' = tcs /\ job' = job /\ pc' = pc /\ dramI' = dramI /\ nocI' = nocI
        /\ ends' = ends /\ tails' = tails /\ lifRing' = lifRing /\ hist' = hist
    BY <1>1 DEF vars, dependencyState
  <2>2. VmemTcs' = VmemTcs /\ \A d : VmemOf(d)' = VmemOf(d)
    BY <2>1 DEF VmemTcs, VmemOf, Labelled
  <2>3. Tip' = Tip
    BY <2>1 DEF Tip, Computed
  <2>4. OrderControl' = OrderControl
    BY <2>1, <2>2 DEF OrderControl, Positions, BeforeNocLoop
  <2>5. ASSUME NEW A PROVE /\ IsAncestry(A)' = IsAncestry(A) /\ Ordered(A)' = Ordered(A)
                           /\ Behind(Tip, A)' = Behind(Tip, A)
    BY <2>1, <2>2, <2>3 DEF IsAncestry, Ordered, Labelled, Behind
  <2>6. VmemOf(dramI)' = VmemOf(dramI)
    BY <2>1, <2>2
  <2> QED BY <2>4, <2>5, <2>6 DEF OrderInv
<1>2. CASE Next
  <2> USE <1>2
  <2>1. tails \in [{"psum", "vmem"} -> Seq(KnownIds)]
    BY DEF Held, TypeOK
  <2>2. pc[1] # "chain" => ends = <<>>
    BY DEF OrderInv, OrderControl
  <2>3. ASSUME NEW v \in Tensors, LoadFromDram(v) PROVE OrderInv'
    <3>1. /\ pc = <<"load_from_dram", v>> /\ dramI' = dramI /\ nocI' = nocI /\ ends' = ends
      BY <2>3 DEF LoadFromDram
    <3>2. BeforeNocLoop /\ ends' = <<>>
      BY <2>2, <3>1 DEF BeforeNocLoop
    <3> QED BY <3>1, <3>2, NothingForVmem
  <2>4. CASE ResetHistories
    <3>1. pc = <<"reset", "histories">> /\ dramI' = dramI /\ nocI' = nocI /\ ends' = ends
      BY <2>4 DEF ResetHistories
    <3>2. BeforeNocLoop /\ ends' = <<>>
      BY <2>2, <3>1 DEF BeforeNocLoop
    <3> QED BY <3>1, <3>2, NothingForVmem
  <2>5. CASE LoadWeight \/ LoadPsum \/ MacCount \/ LoadVmem
    <3>1. /\ pc[1] \in {"load", "count"} /\ pc # <<"count", "lif">>
          /\ dramI' = dramI /\ nocI' = nocI /\ ends' = ends /\ tails' = tails
          /\ pc' \in {<<"load", "psum">>, <<"count", "mac">>, <<"chain", "psum">>,
                      <<"count", "lif">>}
      BY <2>5 DEF LoadWeight, LoadPsum, MacCount, LoadVmem
    <3>2. ends' = <<>> /\ pc # <<"chain", "vmem">> /\ ~BeforeNocLoop'
      BY <2>2, <3>1 DEF BeforeNocLoop
    <3>3. Tip' = Tip
      BY <3>1, <3>2 DEF Tip
    <3> QED BY <3>1, <3>2, <3>3, NothingForVmem
  <2>6. CASE StorePsum \/ StoreVmem
    <3>1. /\ pc[1] = "store" /\ dramI' = dramI /\ ends' = ends /\ tails' = tails
          /\ nocI' \in {nocI, nocI + 1}
          /\ pc' \in {<<"load", "vmem">>, <<"load", "weight">>, <<"store_to_dram", "psum">>}
      BY <2>6 DEF StorePsum, StoreVmem, NextStep
    <3>2. /\ ends' = <<>> /\ pc # <<"chain", "vmem">> /\ pc # <<"count", "lif">>
          /\ ~BeforeNocLoop'
      BY <2>2, <3>1 DEF BeforeNocLoop
    <3>3. Tip' = Tip
      BY <3>1, <3>2 DEF Tip
    <3> QED BY <3>1, <3>2, <3>3, NothingForVmem
  <2>7. CASE LifCount
    BY <2>7, VmemCounted
  <2>8. ASSUME NEW v \in Results, Chain(v) PROVE OrderInv'
    <3>1. CASE v = "vmem"
      BY <2>8, <3>1, VmemChained
    <3>2. CASE v # "vmem"
      <4>1. /\ pc = <<"chain", "psum">> /\ pc' = pc /\ dramI' = dramI /\ nocI' = nocI
            /\ tails' = tails
        BY <2>8, <3>2 DEF Chain, Results
      <4>2. Tip' = Tip /\ ~BeforeNocLoop'
        BY <4>1 DEF Tip, BeforeNocLoop
      <4> QED BY <4>1, <4>2, NothingForVmem
    <3> QED BY <3>1, <3>2
  <2>9. ASSUME NEW v \in Results, ChainsDone(v) PROVE OrderInv'
    <3>1. /\ pc = <<"chain", v>> /\ pc' = <<"store", v>> /\ dramI' = dramI /\ nocI' = nocI
          /\ ends' = <<>> /\ tcs' = tcs
          /\ tails' = [tails EXCEPT ![v] = IF ends = <<>> THEN Computed(v) ELSE ends]
      BY <2>9 DEF ChainsDone
    <3>2. Tip' = tails'["vmem"] /\ ~BeforeNocLoop'
      BY <3>1 DEF Tip, BeforeNocLoop
    <3>3. CASE v = "vmem"
      <4>1. Tip' = Tip
        BY <2>1, <3>1, <3>2, <3>3 DEF Tip
      <4>2. VmemTcs' = VmemTcs
        BY <3>1 DEF VmemTcs, Labelled
      <4>3. OrderControl'
        BY <3>1, <3>2, PositionsKept DEF OrderControl
      <4> QED BY <3>1, <4>1, <4>2, <4>3, OrderStays
    <3>4. CASE v # "vmem"
      <4>1. v = "psum"
        BY <3>4 DEF Results
      <4>2. Tip = tails["vmem"]
        BY <3>1, <4>1 DEF Tip
      <4>3. Tip' = Tip
        BY <2>1, <3>1, <3>2, <4>1, <4>2
      <4> QED BY <3>1, <3>2, <4>1, <4>3, NothingForVmem
    <3> QED BY <3>3, <3>4
  <2>10. ASSUME NEW v \in Results, StoreToDram(v) PROVE OrderInv'
    <3>1. /\ pc = <<"store_to_dram", v>> /\ ends' = ends /\ tails' = tails
      BY <2>10 DEF StoreToDram
    <3>2. /\ ends' = <<>> /\ pc # <<"chain", "vmem">> /\ pc # <<"count", "lif">>
      BY <2>2, <3>1
    <3>3. \/ dramI' = dramI + 1
          \/ /\ dramI' = dramI /\ nocI' = nocI
             /\ pc' \in {<<"store_to_dram", "vmem">>, <<"return", "gen">>}
      BY <2>10 DEF StoreToDram, NextDramStep
    <3>4. CASE dramI' = dramI + 1
      BY <3>2, <3>4, NothingForVmem
    <3>5. CASE dramI' = dramI /\ nocI' = nocI
               /\ pc' \in {<<"store_to_dram", "vmem">>, <<"return", "gen">>}
      <4>1. Tip' = Tip /\ ~BeforeNocLoop'
        BY <3>1, <3>2, <3>5 DEF Tip, BeforeNocLoop
      <4> QED BY <3>2, <3>5, <4>1, NothingForVmem
    <3> QED BY <3>3, <3>4, <3>5
  <2>11. CASE Returned
    BY <1>1, <2>11 DEF Returned
  <2> QED BY <2>3, <2>4, <2>5, <2>6, <2>7, <2>8, <2>9, <2>10, <2>11 DEF Next, Results
<1> QED BY <1>1, <1>2

(* For every layer and every chaining of the PEs, within a DRAM step a     *)
(* neuron's computation waits for those of the earlier steps and for the   *)
(* chains between them (combine.py, comment at prev_tchain_tails).         *)
THEOREM VmemOrderCorrect == Spec => []VmemStepsAreOrdered
<1>1. Held /\ Init => OrderInv
  <2> SUFFICES ASSUME Held, Init PROVE OrderInv
    OBVIOUS
  <2>1. tcs = <<>> /\ ends = <<>>
    BY DEF Init
  <2>2. VmemTcs = {} /\ Labelled("count", "lif") = {}
    BY <2>1 DEF VmemTcs, Labelled
  <2>3. \A d : VmemOf(d) = {}
    BY <2>2 DEF VmemOf
  <2>4. OrderControl
    BY <2>1, <2>3 DEF OrderControl, Positions
  <2> QED BY <2>2, <2>3, <2>4 DEF OrderInv, Ordered
<1>2. Held /\ OrderInv /\ [Next]_vars => OrderInv'
  BY StepOrdered
<1>3. Held /\ OrderInv => VmemStepsAreOrdered
  <2> SUFFICES ASSUME Held, OrderInv PROVE VmemStepsAreOrdered
    OBVIOUS
  <2>1. PICK A : A = Ancestry /\ IsAncestry(A)
    BY AncestryIs
  <2>2. Ordered(A)
    BY <2>1 DEF OrderInv
  <2> QED BY <2>1, <2>2 DEF VmemStepsAreOrdered, Ordered, VmemTcs
<1> QED BY <1>1, <1>2, <1>3, HeldInvariant, PTL DEF Spec

-----------------------------------------------------------------------------
(* Transfers.  The steps at which partial sums and membrane potentials are *)
(* moved are, up to where the builders have come, those at which they have *)
(* to be.                                                                  *)

TransferOps == {"load_from_dram", "load", "store", "store_to_dram"}

(* Where the loads, stores and counts of a step come in it.                *)
Rank(call) ==
  CASE call = <<"load_from_dram", "weight">> -> 1
    [] call = <<"load_from_dram", "psum">>   -> 2
    [] call = <<"load_from_dram", "vmem">>   -> 3
    [] call = <<"reset", "histories">>       -> 4
    [] call = <<"load", "weight">>           -> 5
    [] call = <<"load", "psum">>             -> 6
    [] call = <<"count", "mac">>             -> 7
    [] call = <<"chain", "psum">>            -> 8
    [] call = <<"store", "psum">>            -> 9
    [] call = <<"load", "vmem">>             -> 10
    [] call = <<"count", "lif">>             -> 11
    [] call = <<"chain", "vmem">>            -> 12
    [] call = <<"store", "vmem">>            -> 13
    [] call = <<"store_to_dram", "psum">>    -> 14
    [] call = <<"store_to_dram", "vmem">>    -> 15
    [] call = <<"return", "gen">>            -> 16

(* What has to be moved to or from a node, and to or from the buffer.      *)
MovesAtNode(op, v, s) ==
  /\ op \in {"load", "store"}
  /\ v = "vmem" => ReducedAt(s)
  /\ ~KeptInNode(job, CarriedOver(v))
  /\ op = "load" => ~IsFirst(job, s[1], s[2], CarriedOver(v))
  /\ op = "store" => ~IsLast(job, s[1], s[2], CarriedOver(v))

MovesAtBuffer(op, v, d) ==
  /\ op \in {"load_from_dram", "store_to_dram"}
  /\ ~job.single
  /\ v = "vmem" => IsLastInDram(job, d, ReductionDims)
  /\ ~KeptInBuffer(job, CarriedOver(v))
  /\ op = "load_from_dram" => ~IsFirstInDram(job, d, CarriedOver(v))
  /\ op = "store_to_dram" => ~IsLastInDram(job, d, CarriedOver(v))

(* A tile is loaded before the first step on the mesh and stored after the *)
(* last.                                                                   *)
MovesAt(op, v, s) ==
  \/ MovesAtNode(op, v, s)
  \/ /\ MovesAtBuffer(op, v, s[1])
     /\ op = "load_from_dram" => s[2] = 0
     /\ op = "store_to_dram" => s[2] = Steps(job.noc) - 1

Called(op, v, s) ==
  \/ Precedes(s, <<dramI, nocI>>)
  \/ s = <<dramI, nocI>> /\ Rank(<<op, v>>) < Rank(pc)

TransferInv ==
  \A op \in TransferOps, v \in Results :
    /\ \A s \in StepsWith(op, v) : s \in AllSteps /\ MovesAt(op, v, s)
    /\ \A s \in AllSteps : MovesAt(op, v, s) /\ Called(op, v, s) => s \in StepsWith(op, v)

(* Every builder runs when pc names it.                                    *)
LEMMA Guards ==
  /\ \A v : LoadFromDram(v) => pc = <<"load_from_dram", v>>
  /\ ResetHistories => pc = <<"reset", "histories">>
  /\ LoadWeight => pc = <<"load", "weight">>
  /\ LoadPsum => pc = <<"load", "psum">>
  /\ MacCount => pc = <<"count", "mac">>
  /\ StorePsum => pc = <<"store", "psum">>
  /\ LoadVmem => pc = <<"load", "vmem">>
  /\ LifCount => pc = <<"count", "lif">>
  /\ StoreVmem => pc = <<"store", "vmem">>
  /\ \A v : Chain(v) => pc = <<"chain", v>>
  /\ \A v : ChainsDone(v) => pc = <<"chain", v>>
  /\ \A v : StoreToDram(v) => pc = <<"store_to_dram", v>>
  /\ Returned => pc = <<"return", "gen">>
<1>1. \A v : LoadFromDram(v) => pc = <<"load_from_dram", v>>
  BY DEF LoadFromDram
<1>2. /\ ResetHistories => pc = <<"reset", "histories">>
      /\ Returned => pc = <<"return", "gen">>
  BY DEF ResetHistories, Returned
<1>3. /\ LoadWeight => pc = <<"load", "weight">>
      /\ LoadPsum => pc = <<"load", "psum">>
      /\ LoadVmem => pc = <<"load", "vmem">>
  BY DEF LoadWeight, LoadPsum, LoadVmem
<1>4. /\ MacCount => pc = <<"count", "mac">>
      /\ LifCount => pc = <<"count", "lif">>
  BY DEF MacCount, LifCount
<1>5. /\ StorePsum => pc = <<"store", "psum">>
      /\ StoreVmem => pc = <<"store", "vmem">>
  BY DEF StorePsum, StoreVmem
<1>6. \A v : (Chain(v) => pc = <<"chain", v>>) /\ (ChainsDone(v) => pc = <<"chain", v>>)
  BY DEF Chain, ChainsDone
<1>7. \A v : StoreToDram(v) => pc = <<"store_to_dram", v>>
  BY DEF StoreToDram
<1> QED BY <1>1, <1>2, <1>3, <1>4, <1>5, <1>6, <1>7

(* What each call that moves a result does.                                *)
LEMMA Transferring ==
  ASSUME Next, NEW v \in Results
  PROVE  /\ pc = <<"load_from_dram", v>> => LoadFromDram(v)
         /\ pc = <<"load", v>> => \E deps : Emit(Loads(v, deps))
         /\ pc = <<"store", v>> => Emit(Stores(v))
         /\ pc = <<"store_to_dram", v>> => StoreToDram(v)
<1>1. /\ pc = <<"load_from_dram", v>> => LoadFromDram(v)
      /\ pc = <<"store_to_dram", v>> => StoreToDram(v)
  BY Guards DEF Next
<1>2. /\ pc = <<"load", "psum">> => LoadPsum
      /\ pc = <<"load", "vmem">> => LoadVmem
  BY Guards DEF Next, Tensors
<1>3. /\ pc = <<"store", "psum">> => StorePsum
      /\ pc = <<"store", "vmem">> => StoreVmem
  BY Guards DEF Next, Tensors
<1>4. (LoadPsum => \E deps : Emit(Loads("psum", deps))) /\ (StorePsum => Emit(Stores("psum")))
  BY DEF LoadPsum, StorePsum
<1>5. (LoadVmem => \E deps : Emit(Loads("vmem", deps))) /\ (StoreVmem => Emit(Stores("vmem")))
  BY DEF LoadVmem, StoreVmem
<1> QED BY <1>1, <1>2, <1>3, <1>4, <1>5 DEF Results

(* The order of the calls in a pass through both loops.                    *)
LEMMA RanksAre ==
  /\ Rank(<<"load_from_dram", "weight">>) = 1
  /\ Rank(<<"load_from_dram", "psum">>) = 2
  /\ Rank(<<"load_from_dram", "vmem">>) = 3
  /\ Rank(<<"reset", "histories">>) = 4
  /\ Rank(<<"load", "weight">>) = 5
  /\ Rank(<<"load", "psum">>) = 6
  /\ Rank(<<"count", "mac">>) = 7
  /\ Rank(<<"chain", "psum">>) = 8
  /\ Rank(<<"store", "psum">>) = 9
  /\ Rank(<<"load", "vmem">>) = 10
  /\ Rank(<<"count", "lif">>) = 11
  /\ Rank(<<"chain", "vmem">>) = 12
  /\ Rank(<<"store", "vmem">>) = 13
  /\ Rank(<<"store_to_dram", "psum">>) = 14
  /\ Rank(<<"store_to_dram", "vmem">>) = 15
  /\ Rank(<<"return", "gen">>) = 16
BY DEF Rank

(* No two calls come at the same place.                                    *)
LEMMA RanksDiffer ==
  ASSUME NEW call \in Calls, NEW op \in TransferOps, NEW v \in Results,
         Rank(call) = Rank(<<op, v>>)
  PROVE  call = <<op, v>>
<1>1. \/ call \in {<<"load_from_dram", "weight">>, <<"load_from_dram", "psum">>,
                  <<"load_from_dram", "vmem">>, <<"reset", "histories">>}
      \/ call \in {<<"load", "weight">>, <<"load", "psum">>, <<"load", "vmem">>,
                  <<"count", "mac">>, <<"count", "lif">>}
      \/ call \in {<<"chain", "psum">>, <<"chain", "vmem">>, <<"store", "psum">>,
                  <<"store", "vmem">>}
      \/ call \in {<<"store_to_dram", "psum">>, <<"store_to_dram", "vmem">>,
                  <<"return", "gen">>}
  BY DEF Calls, Tensors
<1>2. CASE op = "load_from_dram"
  BY <1>1, <1>2, RanksAre DEF Results
<1>3. CASE op = "load"
  BY <1>1, <1>3, RanksAre DEF Results
<1>4. CASE op = "store"
  BY <1>1, <1>4, RanksAre DEF Results
<1>5. CASE op = "store_to_dram"
  BY <1>1, <1>5, RanksAre DEF Results
<1> QED BY <1>2, <1>3, <1>4, <1>5 DEF TransferOps

(* Every call has its place in that order.                                 *)
LEMMA RanksAreNumbers == \A call \in Calls : Rank(call) \in 1 .. 16
<1> SUFFICES ASSUME NEW call \in Calls PROVE Rank(call) \in 1 .. 16
  OBVIOUS
<1>1. \/ call \in {<<"load_from_dram", "weight">>, <<"load_from_dram", "psum">>,
                  <<"load_from_dram", "vmem">>, <<"reset", "histories">>}
      \/ call \in {<<"load", "weight">>, <<"load", "psum">>, <<"load", "vmem">>,
                  <<"count", "mac">>, <<"count", "lif">>}
      \/ call \in {<<"chain", "psum">>, <<"chain", "vmem">>, <<"store", "psum">>,
                  <<"store", "vmem">>}
      \/ call \in {<<"store_to_dram", "psum">>, <<"store_to_dram", "vmem">>,
                  <<"return", "gen">>}
  BY DEF Calls, Tensors
<1> QED BY <1>1, RanksAre

(* How the builders follow one another.                                    *)
LEMMA ControlMoves ==
  ASSUME Held, FiredInv, Next
  PROVE  \/ dramI' = dramI /\ nocI' = nocI /\ Rank(pc') <= Rank(pc) + 1
         \/ /\ pc = <<"store", "psum">> /\ ~ReducedAt(<<dramI, nocI>>)
            /\ dramI' = dramI /\ nocI' = nocI /\ pc' = <<"store_to_dram", "psum">>
         \/ /\ \/ pc = <<"store", "vmem">>
               \/ pc = <<"store", "psum">> /\ ~ReducedAt(<<dramI, nocI>>)
            /\ dramI' = dramI /\ nocI' = nocI + 1 /\ nocI + 1 < Steps(job.noc)
            /\ pc' = <<"load", "weight">>
         \/ /\ pc = <<"store_to_dram", "vmem">>
            /\ dramI' = dramI + 1 /\ nocI' = 0 /\ pc' = <<"load_from_dram", "weight">>
<1>1. Rank(pc) \in 1 .. 16
  BY RanksAreNumbers DEF Held, TypeOK
<1>2. ASSUME NEW v \in Tensors, LoadFromDram(v)
      PROVE  dramI' = dramI /\ nocI' = nocI /\ Rank(pc') <= Rank(pc) + 1
  <2>1. /\ dramI' = dramI /\ nocI' = nocI /\ pc = <<"load_from_dram", v>>
        /\ v = "weight" => pc' = <<"load_from_dram", "psum">>
        /\ v = "psum" => pc' = <<"load_from_dram", "vmem">>
        /\ v = "vmem" => pc' = <<"reset", "histories">>
    BY <1>2 DEF LoadFromDram
  <2> QED BY <2>1, RanksAre DEF Tensors
<1>3. CASE ResetHistories
  <2>1. /\ dramI' = dramI /\ nocI' = nocI
        /\ pc = <<"reset", "histories">> /\ pc' = <<"load", "weight">>
    BY <1>3 DEF ResetHistories
  <2> QED BY <2>1, RanksAre
<1>4. CASE LoadWeight
  <2>1. /\ dramI' = dramI /\ nocI' = nocI
        /\ pc = <<"load", "weight">> /\ pc' = <<"load", "psum">>
    BY <1>4 DEF LoadWeight
  <2> QED BY <2>1, RanksAre
<1>5. CASE LoadPsum
  <2>1. /\ dramI' = dramI /\ nocI' = nocI
        /\ pc = <<"load", "psum">> /\ pc' = <<"count", "mac">>
    BY <1>5 DEF LoadPsum
  <2> QED BY <2>1, RanksAre
<1>6. CASE MacCount
  <2>1. /\ dramI' = dramI /\ nocI' = nocI
        /\ pc = <<"count", "mac">> /\ pc' = <<"chain", "psum">>
    BY <1>6 DEF MacCount
  <2> QED BY <2>1, RanksAre
<1>7. CASE LoadVmem
  <2>1. /\ dramI' = dramI /\ nocI' = nocI
        /\ pc = <<"load", "vmem">> /\ pc' = <<"count", "lif">>
    BY <1>7 DEF LoadVmem
  <2> QED BY <2>1, RanksAre
<1>8. CASE LifCount
  <2>1. /\ dramI' = dramI /\ nocI' = nocI
        /\ pc = <<"count", "lif">> /\ pc' = <<"chain", "vmem">>
    BY <1>8 DEF LifCount
  <2> QED BY <2>1, RanksAre
<1>9. CASE StorePsum
  <2>1. /\ pc = <<"store", "psum">> /\ dramI' = dramI
        /\ ReducedAt(<<dramI, nocI>>) => pc' = <<"load", "vmem">> /\ nocI' = nocI
        /\ ~ReducedAt(<<dramI, nocI>>) => NextStep
    BY <1>9 DEF StorePsum, ReducedAt
  <2> QED BY <2>1, RanksAre DEF NextStep
<1>10. CASE StoreVmem
  <2>1. pc = <<"store", "vmem">> /\ dramI' = dramI /\ NextStep
    BY <1>10 DEF StoreVmem
  <2> QED BY <2>1, RanksAre DEF NextStep
<1>11. ASSUME NEW v \in Results, Chain(v) \/ ChainsDone(v)
       PROVE  dramI' = dramI /\ nocI' = nocI /\ Rank(pc') <= Rank(pc) + 1
  <2>1. /\ dramI' = dramI /\ nocI' = nocI /\ pc = <<"chain", v>>
        /\ pc' \in {<<"chain", v>>, <<"store", v>>}
    BY <1>11 DEF Chain, ChainsDone
  <2> QED BY <2>1, RanksAre DEF Results
<1>12. ASSUME NEW v \in Results, StoreToDram(v)
       PROVE  \/ dramI' = dramI /\ nocI' = nocI /\ Rank(pc') <= Rank(pc) + 1
              \/ /\ pc = <<"store_to_dram", "vmem">>
                 /\ dramI' = dramI + 1 /\ nocI' = 0 /\ pc' = <<"load_from_dram", "weight">>
  <2>1. /\ pc = <<"store_to_dram", v>>
        /\ v = "psum" => pc' = <<"store_to_dram", "vmem">> /\ dramI' = dramI /\ nocI' = nocI
        /\ v = "vmem" => NextDramStep
    BY <1>12 DEF StoreToDram
  <2> QED BY <2>1, RanksAre DEF NextDramStep, Results
<1>13. CASE Returned
  <2>1. pc' = pc /\ dramI' = dramI /\ nocI' = nocI
    BY <1>13 DEF Returned, vars
  <2> QED BY <1>1, <2>1
<1> QED BY <1>2, <1>3, <1>4, <1>5, <1>6, <1>7, <1>8, <1>9, <1>10, <1>11, <1>12, <1>13
        DEF Next, Results

(* A result has at least one chain.                                        *)
LEMMA ChainsExist ==
  ASSUME Held, NEW v \in Results
  PROVE  /\ Len(job.chains[v]) \in Nat \ {0}
         /\ DOMAIN job.chains[v] = 1 .. Len(job.chains[v])
<1>1. job.chains[v] \in Seq(Seq(Nat)) /\ job.chains[v] # <<>>
  <2>1. job.chains \in [{"psum", "vmem"} -> Groups(job) \ {<<>>}]
    BY CombineAssumption DEF Held
  <2>2. Groups(job) \subseteq Seq(Seq(Nat))
    BY GroupsAre DEF Held
  <2> QED BY <2>1, <2>2 DEF Results
<1>2. \A s \in Seq(Seq(Nat)) : s # <<>> => Len(s) \in Nat \ {0} /\ DOMAIN s = 1 .. Len(s)
  OBVIOUS
<1> QED BY <1>1, <1>2

(* Every builder emits in the steps in which there is something to move.   *)
LEMMA TransfersEmit ==
  ASSUME Held, FiredInv, Next, NEW op \in TransferOps, NEW v \in Results, pc = <<op, v>>
  PROVE  tcs' # tcs <=> MovesAt(op, v, <<dramI, nocI>>)
<1>1. PICK n \in Nat \ {0} : n = Len(job.chains[v]) /\ DOMAIN job.chains[v] = 1 .. n
  BY ChainsExist
<1>2. CASE op = "load"
  <2>1. PICK deps : Emit(Loads(v, deps))
    BY <1>2, Transferring
  <2>2. v = "vmem" => ReducedAt(<<dramI, nocI>>)
    BY <1>2 DEF FiredInv, FiredControl, LifCalls
  <2>3. MovesAt(op, v, <<dramI, nocI>>) <=> ~SkipLoad(v)
    BY <1>2, <2>2 DEF MovesAt, MovesAtNode, MovesAtBuffer, SkipLoad, AtFirst
  <2>4. CASE SkipLoad(v)
    BY <2>1, <2>3, <2>4, BatchChanges DEF Loads
  <2>5. CASE ~SkipLoad(v)
    <3>1. PICK batch : batch = Loads(v, deps)
      OBVIOUS
    <3>2. batch = [g \in 1 .. n |-> Message(OuterPort, <<Entrance(v, job.chains[v][g])>>,
                                            Packets(v, Len(job.chains[v])), deps)]
      BY <1>1, <2>5, <3>1 DEF Loads
    <3>3. batch = [g \in 1 .. n |-> batch[g]]
      BY <3>2
    <3>4. IsSequence(batch) /\ Len(batch) = n
      BY <3>3, ListIsSequence
    <3> QED BY <2>1, <2>3, <2>5, <3>1, <3>4, BatchChanges
  <2> QED BY <2>4, <2>5
<1>3. CASE op = "store"
  <2>1. Emit(Stores(v))
    BY <1>3, Transferring
  <2>2. v = "vmem" => ReducedAt(<<dramI, nocI>>)
    BY <1>3 DEF FiredInv, FiredControl, LifCalls
  <2>3. MovesAt(op, v, <<dramI, nocI>>) <=> ~SkipStore(v)
    BY <1>3, <2>2 DEF MovesAt, MovesAtNode, MovesAtBuffer, SkipStore, AtLast
  <2>4. CASE SkipStore(v)
    BY <2>1, <2>3, <2>4, BatchChanges DEF Stores
  <2>5. CASE ~SkipStore(v)
    <3>1. PICK batch : batch = Stores(v)
      OBVIOUS
    <3>2. batch = [g \in 1 .. n |-> Message(Last(job.chains[v][g]), <<OuterPort>>,
                                            Packets(v, Len(job.chains[v])), tails[v])]
      BY <1>1, <2>5, <3>1 DEF Stores
    <3>3. batch = [g \in 1 .. n |-> batch[g]]
      BY <3>2
    <3>4. IsSequence(batch) /\ Len(batch) = n
      BY <3>3, ListIsSequence
    <3> QED BY <2>1, <2>3, <2>5, <3>1, <3>4, BatchChanges
  <2> QED BY <2>4, <2>5
<1>4. \A tc : IsSequence(<<tc>>) /\ Len(<<tc>>) # 0
  <2> SUFFICES ASSUME NEW tc, NEW s, s = <<tc>> PROVE IsSequence(s) /\ Len(s) # 0
    OBVIOUS
  <2>1. s = [k \in 1 .. 1 |-> s[k]]
    OBVIOUS
  <2>2. 1 \in Nat
    OBVIOUS
  <2>3. IsSequence(s) /\ Len(s) = 1
    BY ONLY <2>1, <2>2, ListIsSequence
  <2> QED BY <2>3
<1>5. CASE op = "load_from_dram"
  <2>1. PICK tc : Emit(IF SkipTileLoad(v) THEN <<>> ELSE <<tc>>)
    <3>1. PICK tc : tc = Message(DramPort, <<GbPort>>, Packets(v, 1), prevStore[v])
      OBVIOUS
    <3>2. LoadFromDram(v)
      BY <1>5, Transferring
    <3>3. Emit(IF SkipTileLoad(v) THEN <<>> ELSE <<tc>>)
      BY <3>1, <3>2 DEF LoadFromDram
    <3> QED BY <3>3
  <2>2. nocI = 0
    BY <1>5 DEF FiredInv, FiredControl, BeforeNocLoop
  <2>3. MovesAt(op, v, <<dramI, nocI>>) <=> ~SkipTileLoad(v)
    BY <1>5, <2>2 DEF MovesAt, MovesAtNode, MovesAtBuffer, SkipTileLoad, Results
  <2>4. CASE SkipTileLoad(v)
    BY <2>1, <2>3, <2>4, BatchChanges
  <2>5. CASE ~SkipTileLoad(v)
    BY <1>4, <2>1, <2>3, <2>5, BatchChanges
  <2> QED BY <2>4, <2>5
<1>6. CASE op = "store_to_dram"
  <2>1. PICK tc : Emit(IF SkipTileStore(v) THEN <<>> ELSE <<tc>>)
    <3>1. StoreToDram(v)
      BY <1>6, Transferring
    <3>2. PICK deps : Emit(IF SkipTileStore(v) THEN <<>>
                           ELSE <<Message(GbPort, <<DramPort>>, Packets(v, 1), deps)>>)
      BY <3>1 DEF StoreToDram
    <3>3. PICK tc : tc = Message(GbPort, <<DramPort>>, Packets(v, 1), deps)
      OBVIOUS
    <3> QED BY <3>2, <3>3
  <2>2. nocI = Steps(job.noc) - 1
    BY <1>6 DEF FiredInv, FiredControl
  <2>3. MovesAt(op, v, <<dramI, nocI>>) <=> ~SkipTileStore(v)
    BY <1>6, <2>2 DEF MovesAt, MovesAtNode, MovesAtBuffer, SkipTileStore
  <2>4. CASE SkipTileStore(v)
    BY <2>1, <2>3, <2>4, BatchChanges
  <2>5. CASE ~SkipTileStore(v)
    BY <1>4, <2>1, <2>3, <2>5, BatchChanges
  <2> QED BY <2>4, <2>5
<1> QED BY <1>2, <1>3, <1>5, <1>6 DEF TransferOps

(* No builder is passed over where it has something to move.               *)
LEMMA NoneIsMissed ==
  ASSUME Held, FiredInv, Next, NEW op \in TransferOps, NEW v \in Results, NEW s \in AllSteps,
         MovesAt(op, v, s), Called(op, v, s)'
  PROVE  Called(op, v, s) \/ (pc = <<op, v>> /\ s = <<dramI, nocI>>)
<1>1. PICK r, p : r = Rank(<<op, v>>) /\ p = Rank(pc)
  OBVIOUS
<1>2. pc \in Calls /\ p \in 1 .. 16
  BY <1>1, RanksAreNumbers DEF Held, TypeOK
<1>3. r \in 1 .. 16 /\ (r = p => pc = <<op, v>>)
  BY <1>1, <1>2, RanksAre, RanksDiffer DEF TransferOps, Results
<1>4. /\ Steps(job.noc) \in Nat \ {0} /\ dramI \in Nat /\ nocI \in 0 .. Steps(job.noc) - 1
      /\ pc = <<"store_to_dram", "vmem">> => nocI = Steps(job.noc) - 1
  BY StepsAreNumbers DEF FiredInv, FiredControl
<1>5. PICK a \in Nat, b \in 0 .. Steps(job.noc) - 1 : s = <<a, b>>
  <2>1. Steps(job.dram) \in Nat
    BY StepsAreNumbers
  <2> QED BY <2>1 DEF AllSteps
<1>6. (a < dramI \/ (a = dramI /\ b < nocI)) => Called(op, v, s)
  BY <1>5 DEF Called, Precedes
<1>7. a = dramI /\ b = nocI /\ r <= p => Called(op, v, s) \/ (pc = <<op, v>> /\ s = <<dramI, nocI>>)
  BY <1>1, <1>2, <1>3, <1>5 DEF Called
<1>8. \/ a < dramI' \/ (a = dramI' /\ b < nocI')
      \/ a = dramI' /\ b = nocI' /\ r < Rank(pc')
  BY <1>1, <1>5 DEF Called, Precedes
<1>9. CASE dramI' = dramI /\ nocI' = nocI /\ Rank(pc') <= Rank(pc) + 1
  <2>1. Rank(pc') \in Int
    <3>1. pc' \in Calls
      BY StepHeld DEF Held, TypeOK
    <3> QED BY <3>1, RanksAreNumbers
  <2>2. r < Rank(pc') => r <= p
    BY <1>1, <1>2, <1>3, <1>9, <2>1
  <2> QED BY <1>6, <1>7, <1>8, <1>9, <2>2
<1>10. v = "vmem" /\ op \in {"load", "store"} => ReducedAt(s)
  BY DEF MovesAt, MovesAtNode, MovesAtBuffer
<1>11. /\ op = "load_from_dram" => b = 0
       /\ op = "store_to_dram" => b = Steps(job.noc) - 1
  BY <1>5 DEF MovesAt, MovesAtNode
<1>12. /\ op = "load_from_dram" => r < 5
       /\ op \in {"load", "store"} /\ v = "psum" => r <= 9
       /\ op \in {"load", "store"} => r <= 13
       /\ op = "store_to_dram" => r >= 14
  BY <1>1, RanksAre DEF Results
<1>13. CASE /\ pc = <<"store", "psum">> /\ ~ReducedAt(<<dramI, nocI>>)
            /\ dramI' = dramI /\ nocI' = nocI /\ pc' = <<"store_to_dram", "psum">>
  <2>1. p = 9 /\ Rank(pc') = 14
    BY <1>1, <1>13, RanksAre
  <2>2. a = dramI /\ b = nocI /\ r < 14 => r <= 9
    <3> SUFFICES ASSUME a = dramI, b = nocI, r < 14 PROVE r <= 9
      OBVIOUS
    <3>1. ~(op \in {"load", "store"} /\ v = "vmem")
      BY <1>5, <1>10, <1>13
    <3>2. op # "store_to_dram"
      BY <1>3, <1>12
    <3> QED BY <1>3, <1>12, <3>1, <3>2 DEF TransferOps, Results
  <2> QED BY <1>6, <1>7, <1>8, <1>13, <2>1, <2>2
<1>14. CASE /\ \/ pc = <<"store", "vmem">>
               \/ pc = <<"store", "psum">> /\ ~ReducedAt(<<dramI, nocI>>)
            /\ dramI' = dramI /\ nocI' = nocI + 1 /\ nocI + 1 < Steps(job.noc)
            /\ pc' = <<"load", "weight">>
  <2>1. p \in {9, 13} /\ Rank(pc') = 5 /\ (p = 9 => ~ReducedAt(<<dramI, nocI>>))
    BY <1>1, <1>14, RanksAre
  <2>2. a < dramI \/ (a = dramI /\ b < nocI) \/ (a = dramI /\ b = nocI)
    <3>1. a = dramI /\ b = nocI + 1 => ~(r < 5)
      <4> SUFFICES ASSUME b = nocI + 1, r < 5 PROVE FALSE
        OBVIOUS
      <4>1. op = "load_from_dram"
        <5>1. op \in {"load", "store"} => r > 5
          BY <1>1, RanksAre DEF Results
        <5> QED BY <1>3, <1>12, <5>1 DEF TransferOps
      <4> QED BY <1>4, <1>11, <4>1
    <3>2. a < dramI \/ (a = dramI /\ b < nocI + 1)
      BY <1>8, <1>14, <2>1, <3>1
    <3> QED BY <1>4, <3>2
  <2>3. a = dramI /\ b = nocI => r <= p
    <3> SUFFICES ASSUME a = dramI, b = nocI PROVE r <= p
      OBVIOUS
    <3>1. op # "store_to_dram"
      BY <1>4, <1>11, <1>14
    <3>2. p = 9 => ~(op \in {"load", "store"} /\ v = "vmem")
      BY <1>5, <1>10, <2>1
    <3> QED BY <1>3, <1>12, <2>1, <3>1, <3>2 DEF TransferOps, Results
  <2> QED BY <1>6, <1>7, <2>2, <2>3
<1>15. CASE /\ pc = <<"store_to_dram", "vmem">>
            /\ dramI' = dramI + 1 /\ nocI' = 0 /\ pc' = <<"load_from_dram", "weight">>
  <2>1. p = 15 /\ Rank(pc') = 1
    BY <1>1, <1>15, RanksAre
  <2>2. a < dramI + 1 \/ (a = dramI + 1 /\ b < 0)
    BY <1>3, <1>8, <1>15, <2>1
  <2>3. a < dramI \/ (a = dramI /\ b < nocI) \/ (a = dramI /\ b = nocI)
    BY <1>4, <1>15, <2>2
  <2>4. r <= 15
    BY <1>1, RanksAre DEF TransferOps, Results
  <2> QED BY <1>6, <1>7, <2>1, <2>3, <2>4
<1> QED BY <1>9, <1>13, <1>14, <1>15, ControlMoves

(* No step breaks the invariant.                                           *)
LEMMA StepTransfers ==
  ASSUME Held, FiredInv, TransferInv, [Next]_vars
  PROVE  TransferInv'
<1>1. CASE UNCHANGED vars
  <2>1. tcs' = tcs /\ job' = job /\ pc' = pc /\ dramI' = dramI /\ nocI' = nocI
    BY <1>1 DEF vars
  <2>2. /\ AllSteps' = AllSteps
        /\ \A op, v : StepsWith(op, v)' = StepsWith(op, v)
        /\ \A op, v, s : MovesAt(op, v, s)' = MovesAt(op, v, s)
        /\ \A op, v, s : Called(op, v, s)' = Called(op, v, s)
    <3>1. AllSteps' = AllSteps /\ \A op, v : StepsWith(op, v)' = StepsWith(op, v)
      BY <2>1 DEF StepsWith, Labelled, StepOf, AllSteps
    <3>2. \A op, v, s : MovesAt(op, v, s)' = MovesAt(op, v, s)
      BY <2>1 DEF MovesAt, MovesAtNode, MovesAtBuffer, ReducedAt
    <3>3. \A op, v, s : Called(op, v, s)' = Called(op, v, s)
      BY <2>1 DEF Called
    <3> QED BY <3>1, <3>2, <3>3
  <2> QED BY <2>2 DEF TransferInv
<1>2. CASE Next
  <2> SUFFICES ASSUME NEW op \in TransferOps, NEW v \in Results
               PROVE  /\ \A s \in StepsWith(op, v)' : s \in AllSteps' /\ MovesAt(op, v, s)'
                      /\ \A s \in AllSteps' :
                           MovesAt(op, v, s)' /\ Called(op, v, s)' => s \in StepsWith(op, v)'
    BY DEF TransferInv
  <2>1. job' = job
    BY <1>2, StepGrows
  <2>2. AllSteps' = AllSteps /\ \A s : MovesAt(op, v, s)' = MovesAt(op, v, s)
    <3>1. AllSteps' = AllSteps
      BY <2>1 DEF AllSteps
    <3>2. \A s : MovesAt(op, v, s)' = MovesAt(op, v, s)
      BY <2>1 DEF MovesAt, MovesAtNode, MovesAtBuffer, ReducedAt
    <3> QED BY <3>1, <3>2
  <2>3. <<dramI, nocI>> \in AllSteps
    BY DEF FiredInv, FiredControl, AllSteps
  <2>4. ASSUME NEW s \in StepsWith(op, v)' PROVE s \in AllSteps /\ MovesAt(op, v, s)
    <3>1. CASE s \in StepsWith(op, v)
      BY <3>1 DEF TransferInv
    <3>2. CASE s \notin StepsWith(op, v)
      <4>1. pc = <<op, v>> /\ s = <<dramI, nocI>> /\ tcs' # tcs
        BY <1>2, <2>4, <3>2, StepsGrow
      <4> QED BY <1>2, <2>3, <4>1, TransfersEmit
    <3> QED BY <3>1, <3>2
  <2>5. ASSUME NEW s \in AllSteps, MovesAt(op, v, s), Called(op, v, s)'
        PROVE  s \in StepsWith(op, v)'
    <3>1. CASE Called(op, v, s)
      <4>1. s \in StepsWith(op, v)
        BY <2>5, <3>1 DEF TransferInv
      <4> QED BY <1>2, <4>1, StepsGrow
    <3>2. CASE ~Called(op, v, s)
      <4>1. pc = <<op, v>> /\ s = <<dramI, nocI>>
        BY <1>2, <2>5, <3>2, NoneIsMissed
      <4>2. tcs' # tcs
        BY <1>2, <2>5, <4>1, TransfersEmit
      <4> QED BY <1>2, <4>1, <4>2, EmittedInStep
    <3> QED BY <3>1, <3>2
  <2> QED BY <2>2, <2>4, <2>5
<1> QED BY <1>1, <1>2

(* The transfers up to now, in every reachable state.                      *)
LEMMA TransferInvariant == Spec => []TransferInv
<1>1. Held /\ FiredInv /\ Init => TransferInv
  <2> SUFFICES ASSUME Held, FiredInv, Init, NEW op \in TransferOps, NEW v \in Results
               PROVE  /\ StepsWith(op, v) = {}
                      /\ \A s \in AllSteps : ~Called(op, v, s) \/ ~MovesAt(op, v, s)
    BY DEF TransferInv
  <2>1. StepsWith(op, v) = {}
    BY DEF Init, StepsWith, Labelled
  <2>2. ASSUME NEW s \in AllSteps PROVE ~Called(op, v, s)
    <3>1. PICK a \in Nat, b \in Nat : s = <<a, b>>
      <4>1. Steps(job.noc) \in Nat /\ Steps(job.dram) \in Nat
        BY StepsAreNumbers
      <4> QED BY <4>1 DEF AllSteps
    <3>2. ~(a < 0 \/ (a = 0 /\ b < 0))
      OBVIOUS
    <3>3. ~(Rank(<<op, v>>) < Rank(<<"load_from_dram", "weight">>))
      BY RanksAre DEF TransferOps, Results
    <3> QED BY <3>1, <3>2, <3>3 DEF Init, Called, Precedes
  <2> QED BY <2>1, <2>2
<1>2. Held /\ FiredInv /\ TransferInv /\ [Next]_vars => TransferInv'
  BY StepTransfers
<1> QED BY <1>1, <1>2, HeldInvariant, FiredInvariant, PTL DEF Spec

(* In the end everything has been moved where it has to be.                *)
LEMMA MovedAtTheEnd ==
  ASSUME Held, FiredInv, TransferInv, Finished, NEW op \in TransferOps, NEW v \in Results
  PROVE  StepsWith(op, v) = {s \in AllSteps : MovesAt(op, v, s)}
<1>1. /\ Steps(job.noc) \in Nat \ {0} /\ Steps(job.dram) \in Nat \ {0}
      /\ dramI = Steps(job.dram) - 1 /\ nocI = Steps(job.noc) - 1
  BY StepsAreNumbers DEF FiredInv, FiredControl, Finished
<1>2. \A s \in AllSteps : Called(op, v, s)
  <2>1. Rank(<<op, v>>) < Rank(pc)
    BY RanksAre DEF Finished, TransferOps, Results
  <2> SUFFICES ASSUME NEW a \in 0 .. Steps(job.dram) - 1, NEW b \in 0 .. Steps(job.noc) - 1
               PROVE  Called(op, v, <<a, b>>)
    BY DEF AllSteps
  <2>2. a < dramI \/ (a = dramI /\ b < nocI) \/ (a = dramI /\ b = nocI)
    BY <1>1
  <2> QED BY <2>1, <2>2 DEF Called, Precedes
<1> QED BY <1>2 DEF TransferInv

(* Two steps are at the same tile when its indices agree.                  *)
LEMMA SameTileOf ==
  ASSUME NEW dims, NEW t, NEW u
  PROVE  Tile(t, dims) = Tile(u, dims)
           <=> \A dim \in dims :
                 CombinedIndex(job, t[1], t[2], dim) = CombinedIndex(job, u[1], u[2], dim)
<1>1. PICK f, g : f = Tile(t, dims) /\ g = Tile(u, dims)
  OBVIOUS
<1>2. /\ f = [dim \in dims |-> CombinedIndex(job, t[1], t[2], dim)]
      /\ g = [dim \in dims |-> CombinedIndex(job, u[1], u[2], dim)]
  BY <1>1 DEF Tile
<1>3. f = g <=> \A dim \in dims : f[dim] = g[dim]
  BY <1>2
<1> QED BY <1>1, <1>2, <1>3

(* And so for tiles of the buffer and the loops in DRAM.                   *)
LEMMA SameDramTileOf ==
  ASSUME NEW v \in Results, NEW d, NEW e
  PROVE  DramTile(d, v) = DramTile(e, v)
           <=> \A dim \in DimsOf(v) : Index(d, job.dram, dim) = Index(e, job.dram, dim)
<1>1. PICK f, g : f = DramTile(d, v) /\ g = DramTile(e, v)
  OBVIOUS
<1>2. /\ f = [dim \in DimsOf(v) |-> Index(d, job.dram, dim)]
      /\ g = [dim \in DimsOf(v) |-> Index(e, job.dram, dim)]
  BY <1>1 DEF DramTile
<1>3. f = g <=> \A dim \in DimsOf(v) : f[dim] = g[dim]
  BY <1>2
<1> QED BY <1>1, <1>2, <1>3

(* What a tensor is not indexed by is what it carries over, and for the    *)
(* membrane potentials what has been reduced.                              *)
LEMMA DimsNotCarried ==
  /\ Dims \ CarriedOver("psum") = DimsOf("psum")
  /\ Dims \ CarriedOver("vmem") = DimsOf("vmem") \cup ReductionDims
BY DEF Dims, CarriedOver, DimsOf, ReductionDims, PsumDims, VmemDims

VisitedAt(v, s) == v = "vmem" => ReducedAt(s)

(* When all is generated, a tile is visited where the nest says.           *)
LEMMA VisitsAre ==
  ASSUME Held, FiredInv, Finished, NEW v \in Results
  PROVE  Visits(v) = {s \in AllSteps : VisitedAt(v, s)}
BY FiredAtTheEnd DEF Visits, VisitedAt, Results

(* The other visits of a tile are at the steps that differ in the carried  *)
(* dimensions alone.                                                       *)
LEMMA VisitsOfATile ==
  ASSUME NEW v \in Results, NEW t, NEW u, VisitedAt(v, t)
  PROVE  VisitedAt(v, u) /\ Tile(t, DimsOf(v)) = Tile(u, DimsOf(v))
           <=> SamePairTile(job, CarriedOver(v), t, u)
<1>1. CASE v = "psum"
  BY <1>1, DimsNotCarried, SameTileOf DEF SamePairTile, VisitedAt
<1>2. CASE v = "vmem"
  <2>1. \A dim \in ReductionDims :
          CombinedIndex(job, t[1], t[2], dim) = Total(job.noc, dim) * Total(job.dram, dim) - 1
    BY <1>2 DEF VisitedAt, ReducedAt, IsLast
  <2>2. ReducedAt(u) <=> \A dim \in ReductionDims :
          CombinedIndex(job, u[1], u[2], dim) = Total(job.noc, dim) * Total(job.dram, dim) - 1
    BY DEF ReducedAt, IsLast
  <2>3. ReducedAt(u) <=> \A dim \in ReductionDims :
          CombinedIndex(job, t[1], t[2], dim) = CombinedIndex(job, u[1], u[2], dim)
    BY ONLY <2>1, <2>2
  <2>4. Tile(t, DimsOf(v)) = Tile(u, DimsOf(v))
          <=> \A dim \in DimsOf(v) :
                CombinedIndex(job, t[1], t[2], dim) = CombinedIndex(job, u[1], u[2], dim)
    BY SameTileOf
  <2>5. SamePairTile(job, CarriedOver(v), t, u)
          <=> \A dim \in DimsOf(v) \cup ReductionDims :
                CombinedIndex(job, t[1], t[2], dim) = CombinedIndex(job, u[1], u[2], dim)
    BY <1>2, DimsNotCarried DEF SamePairTile
  <2> QED BY <1>2, <2>3, <2>4, <2>5 DEF VisitedAt
<1> QED BY <1>1, <1>2 DEF Results

(* The nodes.                                                              *)
LEMMA NodeTransfers ==
  ASSUME Held, FiredInv, TransferInv, Finished, NEW v \in Results
  PROVE  /\ \A p \in SuccessiveVisits(v) :
              Interrupted(p, v) => p[1] \in StepsWith("store", v) /\ p[2] \in StepsWith("load", v)
         /\ \A t \in StepsWith("load", v) :
              \E p \in SuccessiveVisits(v) : p[2] = t /\ p[1] \in StepsWith("store", v)
<1> DEFINE C == CarriedOver(v)
<1>1. job.noc \in Loops /\ job.dram \in Loops
  BY StepsAreNumbers
<1>2. /\ AllSteps = StepPairs(job) /\ \A x, y : Precedes(x, y) <=> Sooner(x, y)
      /\ Visits(v) = {s \in AllSteps : VisitedAt(v, s)}
  BY VisitsAre DEF AllSteps, StepPairs, Precedes, Sooner
<1>3. /\ StepsWith("load", v) = {s \in AllSteps :
           VisitedAt(v, s) /\ ~KeptInNode(job, C) /\ ~IsFirst(job, s[1], s[2], C)}
      /\ StepsWith("store", v) = {s \in AllSteps :
           VisitedAt(v, s) /\ ~KeptInNode(job, C) /\ ~IsLast(job, s[1], s[2], C)}
  <2>1. /\ \A s : MovesAt("load", v, s) <=>
             VisitedAt(v, s) /\ ~KeptInNode(job, C) /\ ~IsFirst(job, s[1], s[2], C)
        /\ \A s : MovesAt("store", v, s) <=>
             VisitedAt(v, s) /\ ~KeptInNode(job, C) /\ ~IsLast(job, s[1], s[2], C)
    BY DEF MovesAt, MovesAtNode, MovesAtBuffer, VisitedAt
  <2>2. /\ StepsWith("load", v) = {s \in AllSteps : MovesAt("load", v, s)}
        /\ StepsWith("store", v) = {s \in AllSteps : MovesAt("store", v, s)}
    BY MovedAtTheEnd DEF TransferOps
  <2> HIDE DEF C
  <2> QED BY <2>1, <2>2
<1>4. ASSUME NEW p \in SuccessiveVisits(v), Interrupted(p, v)
      PROVE  p[1] \in StepsWith("store", v) /\ p[2] \in StepsWith("load", v)
  <2>1. PICK x \in Visits(v), y \in Visits(v) :
          /\ x = p[1] /\ y = p[2] /\ Precedes(x, y) /\ Tile(x, DimsOf(v)) = Tile(y, DimsOf(v))
          /\ \A t \in Visits(v) :
               Precedes(x, t) /\ Precedes(t, y) => Tile(t, DimsOf(v)) # Tile(x, DimsOf(v))
    BY DEF SuccessiveVisits
  <2>2. PICK t \in Visits(v) : Precedes(x, t) /\ Precedes(t, y)
    BY <1>4, <2>1 DEF Interrupted
  <2>3. /\ x \in StepPairs(job) /\ y \in StepPairs(job) /\ t \in StepPairs(job)
        /\ VisitedAt(v, x) /\ VisitedAt(v, y) /\ Sooner(x, y)
    BY <1>2, <2>1
  <2>4. SamePairTile(job, C, x, y) /\ ~SamePairTile(job, C, x, t)
    BY <2>1, <2>2, <2>3, VisitsOfATile
  <2>5. /\ ~IsLast(job, x[1], x[2], C) /\ ~IsFirst(job, y[1], y[2], C)
        /\ KeptInNode(job, C) =>
             \A z \in StepPairs(job) : Sooner(x, z) /\ Sooner(z, y) => SamePairTile(job, C, x, z)
    <3> HIDE DEF C
    <3> QED BY <1>1, <2>3, <2>4, NodeRevisits
  <2> QED BY <1>2, <1>3, <2>1, <2>2, <2>3, <2>4, <2>5
<1>5. ASSUME NEW y \in StepsWith("load", v)
      PROVE  \E p \in SuccessiveVisits(v) : p[2] = y /\ p[1] \in StepsWith("store", v)
  <2>1. /\ y \in StepPairs(job) /\ VisitedAt(v, y) /\ ~KeptInNode(job, C)
        /\ ~IsFirst(job, y[1], y[2], C)
    BY <1>2, <1>3
  <2>2. PICK x \in StepPairs(job) :
          /\ Sooner(x, y) /\ SamePairTile(job, C, x, y)
          /\ \A t \in StepPairs(job) : Sooner(x, t) /\ Sooner(t, y) => ~SamePairTile(job, C, t, y)
    <3> HIDE DEF C
    <3> QED BY <1>1, <2>1, NodeLastVisit
  <2>3. ~IsLast(job, x[1], x[2], C)
    <3> HIDE DEF C
    <3> QED BY <1>1, <2>1, <2>2, NodeRevisits
  <2>4. SamePairTile(job, C, y, x)
    BY <2>2 DEF SamePairTile
  <2>5. VisitedAt(v, x) /\ Tile(x, DimsOf(v)) = Tile(y, DimsOf(v))
    BY <2>1, <2>4, VisitsOfATile
  <2>6. ASSUME NEW t \in Visits(v), Precedes(x, t), Precedes(t, y)
        PROVE  Tile(t, DimsOf(v)) # Tile(x, DimsOf(v))
    <3>1. t \in StepPairs(job) /\ VisitedAt(v, t) /\ ~SamePairTile(job, C, t, y)
      BY <1>2, <2>2, <2>6
    <3>2. Tile(t, DimsOf(v)) # Tile(y, DimsOf(v))
      BY <2>1, <3>1, VisitsOfATile
    <3> QED BY <2>5, <3>2
  <2>7. x \in Visits(v) /\ y \in Visits(v) /\ Precedes(x, y)
    BY <1>2, <2>1, <2>2, <2>5
  <2>8. <<x, y>> \in SuccessiveVisits(v)
    BY <2>5, <2>6, <2>7 DEF SuccessiveVisits
  <2>9. x \in StepsWith("store", v)
    BY <1>2, <1>3, <2>1, <2>3, <2>5
  <2>10. <<x, y>>[1] = x /\ <<x, y>>[2] = y
    OBVIOUS
  <2> QED BY <2>8, <2>9, <2>10
<1> QED BY <1>4, <1>5

(* The buffer.                                                             *)
VisitedInDram(v, d) == v = "vmem" => IsLastInDram(job, d, ReductionDims)

(* The same of the buffer's tiles.                                         *)
LEMMA DramVisitsAre ==
  ASSUME Held, FiredInv, Finished, NEW v \in Results
  PROVE  DramVisits(v) = {d \in 0 .. Steps(job.dram) - 1 : VisitedInDram(v, d)}
<1>1. /\ job.noc \in Loops /\ job.dram \in Loops
      /\ Steps(job.noc) \in Nat \ {0} /\ Steps(job.dram) \in Nat \ {0}
  BY StepsAreNumbers
<1>2. Visits(v) = {s \in AllSteps : VisitedAt(v, s)}
  BY VisitsAre
<1>3. ASSUME NEW d \in 0 .. Steps(job.dram) - 1, NEW n \in 0 .. Steps(job.noc) - 1
      PROVE  ReducedAt(<<d, n>>)
               <=> /\ IsLastInDram(job, d, ReductionDims)
                   /\ \A dim \in ReductionDims : Index(n, job.noc, dim) = Total(job.noc, dim) - 1
  <2>1. d \in Nat /\ n \in Nat
    BY <1>1
  <2>2. \A dim : CombinedIndex(job, d, n, dim) = Total(job.noc, dim) * Total(job.dram, dim) - 1
           <=> /\ Index(n, job.noc, dim) = Total(job.noc, dim) - 1
               /\ Index(d, job.dram, dim) = Total(job.dram, dim) - 1
    BY <1>1, <2>1, CombinedIndexIs
  <2> QED BY <2>2 DEF ReducedAt, IsLast, IsLastInDram
<1>4. ASSUME NEW s \in Visits(v)
      PROVE  s[1] \in 0 .. Steps(job.dram) - 1 /\ VisitedInDram(v, s[1])
  <2>1. PICK d \in 0 .. Steps(job.dram) - 1, n \in 0 .. Steps(job.noc) - 1 : s = <<d, n>>
    BY <1>2 DEF AllSteps
  <2> QED BY <1>2, <1>3, <2>1 DEF VisitedAt, VisitedInDram
<1>5. ASSUME NEW d \in 0 .. Steps(job.dram) - 1, VisitedInDram(v, d)
      PROVE  \E s \in Visits(v) : s[1] = d
  <2>1. PICK n \in 0 .. Steps(job.noc) - 1 :
          \A dim : Index(n, job.noc, dim) = Total(job.noc, dim) - 1
    BY <1>1, LastStepExists
  <2>2. VisitedAt(v, <<d, n>>)
    BY <1>3, <1>5, <2>1 DEF VisitedAt, VisitedInDram
  <2>3. <<d, n>> \in Visits(v) /\ <<d, n>>[1] = d
    BY <1>2, <2>2 DEF AllSteps
  <2> QED BY <2>3
<1> QED BY <1>4, <1>5 DEF DramVisits

(* The same of the buffer's tiles.                                         *)
LEMMA DramVisitsOfATile ==
  ASSUME NEW v \in Results, NEW d, NEW e, VisitedInDram(v, d)
  PROVE  VisitedInDram(v, e) /\ DramTile(d, v) = DramTile(e, v)
           <=> SameTile(job.dram, CarriedOver(v), d, e)
<1>1. CASE v = "psum"
  BY <1>1, DimsNotCarried, SameDramTileOf DEF SameTile, VisitedInDram
<1>2. CASE v = "vmem"
  <2>1. \A dim \in ReductionDims : Index(d, job.dram, dim) = Total(job.dram, dim) - 1
    BY <1>2 DEF VisitedInDram, IsLastInDram
  <2>2. IsLastInDram(job, e, ReductionDims)
          <=> \A dim \in ReductionDims : Index(e, job.dram, dim) = Total(job.dram, dim) - 1
    BY DEF IsLastInDram
  <2>3. IsLastInDram(job, e, ReductionDims)
          <=> \A dim \in ReductionDims : Index(d, job.dram, dim) = Index(e, job.dram, dim)
    BY ONLY <2>1, <2>2
  <2>4. DramTile(d, v) = DramTile(e, v)
          <=> \A dim \in DimsOf(v) : Index(d, job.dram, dim) = Index(e, job.dram, dim)
    BY SameDramTileOf
  <2>5. SameTile(job.dram, CarriedOver(v), d, e)
          <=> \A dim \in DimsOf(v) \cup ReductionDims :
                Index(d, job.dram, dim) = Index(e, job.dram, dim)
    BY <1>2, DimsNotCarried DEF SameTile
  <2> QED BY <1>2, <2>3, <2>4, <2>5 DEF VisitedInDram
<1> QED BY <1>1, <1>2 DEF Results

(* A buffer's tile displaced between two visits is stored and loaded       *)
(* again, and no other is loaded.                                          *)
LEMMA BufferTransfers ==
  ASSUME Held, FiredInv, TransferInv, Finished, NEW v \in Results
  PROVE  /\ ~job.single =>
              \A p \in SuccessiveDramVisits(v) :
                DramInterrupted(p, v) =>
                  /\ p[1] \in {s[1] : s \in StepsWith("store_to_dram", v)}
                  /\ p[2] \in {s[1] : s \in StepsWith("load_from_dram", v)}
         /\ \A t \in StepsWith("load_from_dram", v) :
              \E p \in SuccessiveDramVisits(v) :
                p[2] = t[1] /\ p[1] \in {s[1] : s \in StepsWith("store_to_dram", v)}
<1> DEFINE C == CarriedOver(v)
           S == 0 .. Steps(job.dram) - 1
<1>1. /\ job.noc \in Loops /\ job.dram \in Loops
      /\ Steps(job.noc) \in Nat \ {0} /\ Steps(job.dram) \in Nat \ {0}
  BY StepsAreNumbers
<1>2. DramVisits(v) = {d \in S : VisitedInDram(v, d)}
  BY DramVisitsAre
<1>3. /\ \A s : MovesAt("load_from_dram", v, s) <=>
           /\ s[2] = 0 /\ ~job.single /\ VisitedInDram(v, s[1])
           /\ ~KeptInBuffer(job, C) /\ ~IsFirstInDram(job, s[1], C)
      /\ \A s : MovesAt("store_to_dram", v, s) <=>
           /\ s[2] = Steps(job.noc) - 1 /\ ~job.single /\ VisitedInDram(v, s[1])
           /\ ~KeptInBuffer(job, C) /\ ~IsLastInDram(job, s[1], C)
  BY DEF MovesAt, MovesAtNode, MovesAtBuffer, VisitedInDram
<1>4. /\ StepsWith("load_from_dram", v) = {s \in AllSteps : MovesAt("load_from_dram", v, s)}
      /\ StepsWith("store_to_dram", v) = {s \in AllSteps : MovesAt("store_to_dram", v, s)}
  BY MovedAtTheEnd DEF TransferOps
<1>5. ASSUME NEW d \in S, VisitedInDram(v, d), ~job.single, ~KeptInBuffer(job, C)
      PROVE  /\ ~IsFirstInDram(job, d, C) => d \in {s[1] : s \in StepsWith("load_from_dram", v)}
             /\ ~IsLastInDram(job, d, C) => d \in {s[1] : s \in StepsWith("store_to_dram", v)}
  <2>1. PICK x, y : x = <<d, 0>> /\ y = <<d, Steps(job.noc) - 1>>
    OBVIOUS
  <2>2. /\ x \in AllSteps /\ x[1] = d /\ x[2] = 0
        /\ y \in AllSteps /\ y[1] = d /\ y[2] = Steps(job.noc) - 1
    BY <1>1, <2>1 DEF AllSteps
  <2>3. ~IsFirstInDram(job, d, C) => x \in StepsWith("load_from_dram", v)
    <3> HIDE DEF C
    <3> QED BY <1>3, <1>4, <1>5, <2>2
  <2>4. ~IsLastInDram(job, d, C) => y \in StepsWith("store_to_dram", v)
    <3> HIDE DEF C
    <3> QED BY <1>3, <1>4, <1>5, <2>2
  <2> QED BY <2>2, <2>3, <2>4
<1>6. ASSUME ~job.single, NEW p \in SuccessiveDramVisits(v), DramInterrupted(p, v)
      PROVE  /\ p[1] \in {s[1] : s \in StepsWith("store_to_dram", v)}
             /\ p[2] \in {s[1] : s \in StepsWith("load_from_dram", v)}
  <2>1. PICK a \in DramVisits(v), b \in DramVisits(v) :
          /\ a = p[1] /\ b = p[2] /\ a < b /\ DramTile(a, v) = DramTile(b, v)
          /\ \A d \in a + 1 .. b - 1 :
               d \in DramVisits(v) => DramTile(d, v) # DramTile(a, v)
    BY DEF SuccessiveDramVisits
  <2>2. PICK d \in a + 1 .. b - 1 : d \in DramVisits(v)
    BY <1>6, <2>1 DEF DramInterrupted
  <2>3. /\ a \in S /\ b \in S /\ d \in S /\ a < d /\ d < b
        /\ VisitedInDram(v, a) /\ VisitedInDram(v, b) /\ VisitedInDram(v, d)
    <3>1. /\ a \in S /\ b \in S /\ d \in S
          /\ VisitedInDram(v, a) /\ VisitedInDram(v, b) /\ VisitedInDram(v, d)
      BY <1>2, <2>1, <2>2
    <3> QED BY <1>1, <2>2, <3>1
  <2>4. SameTile(job.dram, C, a, b) /\ ~SameTile(job.dram, C, a, d)
    BY <2>1, <2>2, <2>3, DramVisitsOfATile
  <2>5. /\ ~IsLastInDram(job, a, C) /\ ~IsFirstInDram(job, b, C)
        /\ KeptInBuffer(job, C) => \A t \in S : a < t /\ t < b => SameTile(job.dram, C, a, t)
    <3> HIDE DEF C
    <3> QED BY <1>1, <2>1, <2>3, <2>4, BufferRevisits
  <2>6. ~KeptInBuffer(job, C)
    BY <2>3, <2>4, <2>5
  <2> QED BY <1>5, <1>6, <2>1, <2>3, <2>5, <2>6
<1>7. ASSUME NEW t \in StepsWith("load_from_dram", v)
      PROVE  \E p \in SuccessiveDramVisits(v) :
               p[2] = t[1] /\ p[1] \in {s[1] : s \in StepsWith("store_to_dram", v)}
  <2>1. PICK b : b = t[1]
    OBVIOUS
  <2>2. /\ b \in S /\ VisitedInDram(v, b) /\ ~job.single /\ ~KeptInBuffer(job, C)
        /\ ~IsFirstInDram(job, b, C)
    <3>1. t \in AllSteps /\ MovesAt("load_from_dram", v, t)
      BY <1>4, <1>7
    <3>2. b \in S
      BY <2>1, <3>1 DEF AllSteps
    <3> HIDE DEF C, S
    <3> QED BY <1>3, <2>1, <3>1, <3>2
  <2>3. PICK a \in S :
          /\ a < b /\ SameTile(job.dram, C, a, b)
          /\ \A d \in S : a < d /\ d < b => ~SameTile(job.dram, C, d, b)
    <3> HIDE DEF C
    <3> QED BY <1>1, <2>2, BufferLastVisit
  <2>4. ~IsLastInDram(job, a, C)
    <3> HIDE DEF C
    <3> QED BY <1>1, <2>2, <2>3, BufferRevisits
  <2>5. VisitedInDram(v, a) /\ DramTile(a, v) = DramTile(b, v)
    <3>1. SameTile(job.dram, C, b, a)
      BY <2>3 DEF SameTile
    <3> QED BY <2>2, <3>1, DramVisitsOfATile
  <2>6. ASSUME NEW d \in a + 1 .. b - 1, d \in DramVisits(v)
        PROVE  DramTile(d, v) # DramTile(a, v)
    <3>1. d \in S /\ VisitedInDram(v, d)
      BY <1>2, <2>6
    <3>2. a < d /\ d < b
      BY <1>1, <2>2, <2>3, <2>6
    <3>3. ~SameTile(job.dram, C, d, b)
      BY <2>3, <3>1, <3>2
    <3>4. DramTile(d, v) # DramTile(b, v)
      BY <2>2, <3>1, <3>3, DramVisitsOfATile
    <3> QED BY <2>5, <3>4
  <2>7. PICK p : p = <<a, b>>
    OBVIOUS
  <2>8. p[1] = a /\ p[2] = b /\ p \in DramVisits(v) \X DramVisits(v)
    BY <1>2, <2>2, <2>3, <2>5, <2>7
  <2>9. p \in SuccessiveDramVisits(v)
    BY <2>3, <2>5, <2>6, <2>8 DEF SuccessiveDramVisits
  <2>10. a \in {s[1] : s \in StepsWith("store_to_dram", v)}
    BY <1>5, <2>2, <2>3, <2>4, <2>5
  <2> QED BY <2>1, <2>8, <2>9, <2>10
<1> QED BY <1>6, <1>7

(* For every layer and every order of its loops over the two levels, the   *)
(* traffic-free flags and the first and last positions suppress a store    *)
(* and the load of it together, and never one that makes room for another  *)
(* tile (combine.py:54-63).                                                *)
THEOREM ReloadsCorrect == Spec => []ReloadsMatchStores
<1>1. Held /\ FiredInv /\ TransferInv => ReloadsMatchStores
  <2> SUFFICES ASSUME Held, FiredInv, TransferInv PROVE ReloadsMatchStores
    OBVIOUS
  <2>1. CarriedOverWhenInterrupted
    BY NodeTransfers, BufferTransfers DEF CarriedOverWhenInterrupted, Results
  <2>2. OnlyStoredResultsAreLoaded
    BY NodeTransfers, BufferTransfers DEF OnlyStoredResultsAreLoaded, Results
  <2> QED BY <2>1, <2>2 DEF ReloadsMatchStores
<1> QED BY <1>1, HeldInvariant, FiredInvariant, TransferInvariant, PTL

-----------------------------------------------------------------------------
(* Ports.  Every message goes one of the ways the machine has.             *)

PeNumbers == 0 .. NumPes - 1

(* From the buffer, or DRAM without one, to PEs; along a chain; back; and  *)
(* between DRAM and the buffer.                                            *)
HasRoute(src, dests) ==
  \/ /\ src = OuterPort /\ dests \in Seq(PeNumbers) \ {<<>>}
     /\ job.single => Len(dests) = 1
  \/ src \in PeNumbers /\ \E pe \in PeNumbers : dests = <<pe>>
  \/ src \in PeNumbers /\ dests = <<OuterPort>>
  \/ ~job.single /\ src = DramPort /\ dests = <<GbPort>>
  \/ ~job.single /\ src = GbPort /\ dests = <<DramPort>>

Sends(tc) ==
  /\ tc.op = IF Len(tc.dests) = 1 THEN "unicast" ELSE "multicast"
  /\ tc.label[2] \in Tensors /\ tc.size \in Nat
  /\ HasRoute(tc.actor, tc.dests)

Computes(tc) ==
  /\ tc.op = "count" /\ tc.dests = <<>>
  /\ tc.label[2] \notin Tensors /\ tc.size \in Nat
  /\ tc.actor \in PeNumbers

Wellformed(tc) == Sends(tc) \/ Computes(tc)

RoutesInv == \A i \in DOMAIN tcs : Wellformed(tcs[i])

Proper(batch) == \A k \in 1 .. Len(batch) : Wellformed(batch[k])

(* A tensor is a number of packets.                                        *)
LEMMA PacketsAre ==
  ASSUME Held, NEW v \in Tensors, NEW share \in Nat \ {0}
  PROVE  Packets(v, share) \in Nat
<1>1. job.elements[v] \in Nat /\ job.bits[v] \in Nat
  BY CombineAssumption DEF Held
<1>2. PICK x \in Nat : x = job.elements[v] \div share
  <2>1. \A a \in Nat : \A b \in Nat \ {0} : a \div b \in Nat
    OBVIOUS
  <2> QED BY <1>1, <2>1
<1>3. PICK y \in Nat : y = x * job.bits[v]
  <2>1. \A a, b \in Nat : a * b \in Nat
    OBVIOUS
  <2> QED BY <1>1, <2>1
<1>4. (y - 1) \div 256 + 1 \in Nat
  OBVIOUS
<1> QED BY <1>2, <1>3, <1>4 DEF Packets, PacketSize

(* A message that has a route is sent.                                     *)
LEMMA MessageSends ==
  ASSUME Held, pc[2] \in Tensors, NEW src, NEW dests, HasRoute(src, dests),
         NEW v \in Tensors, NEW share \in Nat \ {0}, NEW deps
  PROVE  Wellformed(Message(src, dests, Packets(v, share), deps))
<1>1. PICK packets \in Nat : packets = Packets(v, share)
  BY PacketsAre
<1>2. Wellformed(Message(src, dests, packets, deps))
  BY DEF Wellformed, Sends, Message
<1> QED BY <1>1, <1>2

(* The PEs of groups and chains.                                           *)
LEMMA GroupMembers ==
  ASSUME Held
  PROVE  /\ NumPes \in Nat \ {0} /\ PeNumbers = PesOf(job)
         /\ Len(job.weightGroups) \in Nat \ {0}
         /\ DOMAIN job.weightGroups = 1 .. Len(job.weightGroups)
         /\ \A g \in DOMAIN job.weightGroups :
              /\ job.weightGroups[g] \in Seq(PeNumbers) \ {<<>>}
              /\ job.single => Len(job.weightGroups[g]) = 1
         /\ \A v \in Results : \A g \in DOMAIN job.chains[v] :
              /\ job.chains[v][g] \in Seq(PeNumbers) \ {<<>>}
              /\ job.chains[v][g][1] \in PeNumbers
              /\ Last(job.chains[v][g]) \in PeNumbers
<1>1. NumPes \in Nat \ {0} /\ PeNumbers = PesOf(job)
  BY GroupsAre DEF Held, NumPes, PeNumbers, PesOf
<1>2. /\ job.weightGroups \in Groups(job)
      /\ job.chains \in [{"psum", "vmem"} -> Groups(job) \ {<<>>}]
      /\ PesOf(job) \subseteq UNION {ToSet(g) : g \in ToSet(job.weightGroups)}
      /\ job.single => job.weightGroups = << <<0>> >>
  BY CombineAssumption DEF Held
<1>3. job.weightGroups \in Seq(Seq(Nat))
  BY <1>2, GroupsAre DEF Held
<1>4. Len(job.weightGroups) \in Nat \ {0} /\ DOMAIN job.weightGroups = 1 .. Len(job.weightGroups)
  <2>1. 0 \in PesOf(job)
    BY <1>1 DEF PesOf, NumPes, PeNumbers
  <2>2. job.weightGroups # <<>>
    BY <1>2, <2>1 DEF ToSet
  <2> QED BY <1>3, <2>2
<1>5. ASSUME NEW g \in DOMAIN job.weightGroups
      PROVE  /\ job.weightGroups[g] \in Seq(PeNumbers) \ {<<>>}
             /\ job.single => Len(job.weightGroups[g]) = 1
  <2>1. job.weightGroups[g] \in Seq(PeNumbers) \ {<<>>}
    BY <1>1, <1>2, GroupsAre DEF Held
  <2>2. ASSUME job.single PROVE Len(job.weightGroups[g]) = 1
    <3>1. job.weightGroups = << <<0>> >>
      BY <1>2, <2>2
    <3>2. g = 1
      BY <3>1
    <3> QED BY <3>1, <3>2
  <2> QED BY <2>1, <2>2
<1>6. ASSUME NEW v \in Results, NEW g \in DOMAIN job.chains[v]
      PROVE  /\ job.chains[v][g] \in Seq(PeNumbers) \ {<<>>}
             /\ job.chains[v][g][1] \in PeNumbers
             /\ Last(job.chains[v][g]) \in PeNumbers
  <2>1. job.chains[v] \in Groups(job)
    BY <1>2 DEF Results
  <2>2. job.chains[v][g] \in Seq(PeNumbers) /\ job.chains[v][g] # <<>>
    BY <1>1, <2>1, GroupsAre DEF Held
  <2>3. \A S : \A s \in Seq(S) : s # <<>> => s[1] \in S /\ s[Len(s)] \in S
    OBVIOUS
  <2> QED BY <2>2, <2>3 DEF Last
<1> QED BY <1>1, <1>4, <1>5, <1>6

(* What is sent from a list of messages.                                   *)
LEMMA ProperWhen ==
  ASSUME NEW n \in Nat, NEW batch, batch = [k \in 1 .. n |-> batch[k]],
         \A k \in 1 .. n : Wellformed(batch[k])
  PROVE  Proper(batch)
BY ListIsSequence DEF Proper

(* The transfers of results have a way to go.                              *)
LEMMA ProperResults ==
  ASSUME Held, NEW v \in Results, pc[2] = v
  PROVE  /\ \A deps : Proper(Loads(v, deps))
         /\ Proper(Stores(v))
         /\ group \in DOMAIN job.chains[v] =>
              LET chain == job.chains[v][group]
              IN  Proper([i \in 1 .. Len(chain) - 1 |->
                            Message(chain[i], <<chain[i + 1]>>,
                                    Packets(v, Len(job.chains[v])),
                                    LinkDependencies(v, i))])
<1>1. PICK n \in Nat \ {0} : n = Len(job.chains[v]) /\ DOMAIN job.chains[v] = 1 .. n
  BY ChainsExist
<1>2. v \in Tensors
  BY DEF Results, Tensors
<1>3. Proper(<<>>)
  BY DEF Proper
<1>4. ASSUME NEW deps PROVE Proper(Loads(v, deps))
  <2>1. CASE SkipLoad(v)
    BY <1>3, <2>1 DEF Loads
  <2>2. CASE ~SkipLoad(v)
    <3>1. PICK batch : batch = Loads(v, deps)
      OBVIOUS
    <3>2. batch = [g \in 1 .. n |-> Message(OuterPort, <<Entrance(v, job.chains[v][g])>>,
                                            Packets(v, n), deps)]
      BY <1>1, <2>2, <3>1 DEF Loads
    <3>3. ASSUME NEW g \in 1 .. n PROVE Wellformed(batch[g])
      <4>1. PICK pe \in PeNumbers : pe = Entrance(v, job.chains[v][g])
        BY <1>1, GroupMembers DEF Entrance
      <4>2. HasRoute(OuterPort, <<pe>>)
        BY DEF HasRoute
      <4>3. batch[g] = Message(OuterPort, <<pe>>, Packets(v, n), deps)
        BY <3>2, <4>1
      <4> QED BY <1>2, <4>2, <4>3, MessageSends
    <3>4. batch = [k \in 1 .. n |-> batch[k]]
      BY <3>2
    <3> QED BY <3>1, <3>3, <3>4, ProperWhen
  <2> QED BY <2>1, <2>2
<1>5. Proper(Stores(v))
  <2>1. CASE SkipStore(v)
    BY <1>3, <2>1 DEF Stores
  <2>2. CASE ~SkipStore(v)
    <3>1. PICK batch : batch = Stores(v)
      OBVIOUS
    <3>2. batch = [g \in 1 .. n |-> Message(Last(job.chains[v][g]), <<OuterPort>>,
                                            Packets(v, n), tails[v])]
      BY <1>1, <2>2, <3>1 DEF Stores
    <3>3. ASSUME NEW g \in 1 .. n PROVE Wellformed(batch[g])
      <4>1. PICK pe \in PeNumbers : pe = Last(job.chains[v][g])
        BY <1>1, GroupMembers
      <4>2. HasRoute(pe, <<OuterPort>>)
        BY DEF HasRoute
      <4>3. batch[g] = Message(pe, <<OuterPort>>, Packets(v, n), tails[v])
        BY <3>2, <4>1
      <4> QED BY <1>2, <4>2, <4>3, MessageSends
    <3>4. batch = [k \in 1 .. n |-> batch[k]]
      BY <3>2
    <3> QED BY <3>1, <3>3, <3>4, ProperWhen
  <2> QED BY <2>1, <2>2
<1>6. ASSUME group \in DOMAIN job.chains[v]
      PROVE  LET chain == job.chains[v][group]
             IN  Proper([i \in 1 .. Len(chain) - 1 |->
                           Message(chain[i], <<chain[i + 1]>>,
                                   Packets(v, Len(job.chains[v])),
                                   LinkDependencies(v, i))])
  <2>1. PICK chain : chain = job.chains[v][group] /\ chain \in Seq(PeNumbers) /\ chain # <<>>
    BY <1>6, GroupMembers
  <2>2. PICK m \in Nat : m = Len(chain) - 1
    <3>1. \A S : \A s \in Seq(S) : s # <<>> => Len(s) - 1 \in Nat
      OBVIOUS
    <3> QED BY <2>1, <3>1
  <2>3. PICK batch : batch = [i \in 1 .. m |->
                                Message(chain[i], <<chain[i + 1]>>, Packets(v, n),
                                        LinkDependencies(v, i))]
    OBVIOUS
  <2>4. ASSUME NEW i \in 1 .. m PROVE Wellformed(batch[i])
    <3>1. chain[i] \in PeNumbers /\ chain[i + 1] \in PeNumbers
      BY <2>1, <2>2
    <3>2. HasRoute(chain[i], <<chain[i + 1]>>)
      BY <3>1 DEF HasRoute
    <3>3. batch[i] = Message(chain[i], <<chain[i + 1]>>, Packets(v, n), LinkDependencies(v, i))
      BY <2>3
    <3> QED BY <1>2, <3>2, <3>3, MessageSends
  <2>5. batch = [k \in 1 .. m |-> batch[k]]
    BY <2>3
  <2>6. Proper(batch)
    BY <2>4, <2>5, ProperWhen
  <2> QED BY <1>1, <2>1, <2>2, <2>3, <2>6
<1> QED BY <1>4, <1>5, <1>6

(* So are the computations.                                                *)
LEMMA ProperCounts ==
  ASSUME Held, pc[2] \notin Tensors, NEW busy \in Nat, NEW deps
  PROVE  Proper(Counts(busy, deps))
<1>1. PICK batch : batch = Counts(busy, deps)
  OBVIOUS
<1>2. PICK n \in Nat : n = NumPes
  BY GroupMembers
<1>3. batch = [k \in 1 .. n |-> batch[k]]
  BY <1>1, <1>2 DEF Counts
<1>4. ASSUME NEW k \in 1 .. n PROVE Wellformed(batch[k])
  <2>1. k - 1 \in PeNumbers
    BY <1>2 DEF PeNumbers
  <2>2. /\ batch[k].label = pc /\ batch[k].op = "count" /\ batch[k].dests = <<>>
        /\ batch[k].size = busy /\ batch[k].actor = k - 1
    BY <1>1, <1>2 DEF Counts
  <2> QED BY <2>1, <2>2 DEF Wellformed, Computes
<1> QED BY <1>1, <1>3, <1>4, ProperWhen

(* There is a cycle count for the tile at work.                            *)
LEMMA CyclesAre ==
  ASSUME Held, FiredInv
  PROVE  Cycles.mac \in Nat /\ Cycles.lif \in Nat
<1>1. PICK k : k = IF job.single THEN dramI + 1 ELSE 1
  OBVIOUS
<1>2. /\ job.cycles \in Seq([mac : Nat, lif : Nat])
      /\ Len(job.cycles) >= IF job.single THEN Steps(job.dram) ELSE 1
  BY CombineAssumption DEF Held
<1>3. Steps(job.dram) \in Nat \ {0} /\ dramI \in 0 .. Steps(job.dram) - 1
  BY StepsAreNumbers DEF FiredInv, FiredControl
<1>4. k \in 1 .. Len(job.cycles)
  BY <1>1, <1>2, <1>3
<1>5. job.cycles[k] \in [mac : Nat, lif : Nat]
  <2>1. \A S : \A s \in Seq(S) : \A j \in 1 .. Len(s) : s[j] \in S
    OBVIOUS
  <2> QED BY <1>2, <1>4, <2>1
<1> QED BY <1>1, <1>5 DEF Cycles

(* Every step emits proper transactions, at their cost.                    *)
LEMMA StepEmits ==
  ASSUME Held, FiredInv, Next
  PROVE  \E batch : /\ Stamped(batch) /\ Proper(batch)
                    /\ \/ Emit(batch)
                       \/ batch = <<>> /\ UNCHANGED <<tcs, costs>>
<1> DEFINE Good(batch) == Stamped(batch) /\ Proper(batch)
           Goal == \E batch : Good(batch) /\ (Emit(batch) \/ (batch = <<>> /\ UNCHANGED <<tcs, costs>>))
<1> SUFFICES Goal
  OBVIOUS
<1>1. Good(<<>>)
  BY StampedBatches DEF Proper
<1>2. ASSUME NEW batch, Good(batch), Emit(batch) PROVE Goal
  BY <1>2
<1>3. (UNCHANGED <<tcs, costs>>) => Goal
  BY <1>1
<1>4. ASSUME NEW src, NEW dests, NEW v \in Tensors, NEW deps, pc[2] \in Tensors,
             HasRoute(src, dests)
      PROVE  Good(<<Message(src, dests, Packets(v, 1), deps)>>)
  <2>1. PICK tc : tc = Message(src, dests, Packets(v, 1), deps)
    OBVIOUS
  <2>2. Wellformed(tc)
    BY <1>4, <2>1, MessageSends
  <2>3. Stamped(<<tc>>)
    BY <2>1, StampedBatches
  <2>4. Proper(<<tc>>)
    BY <2>2 DEF Proper
  <2> QED BY <2>1, <2>3, <2>4
<1> HIDE DEF Goal, Good
<1>5. ASSUME NEW v \in Tensors, LoadFromDram(v) PROVE Goal
  <2>1. pc = <<"load_from_dram", v>>
        /\ Emit(IF SkipTileLoad(v) THEN <<>>
                ELSE <<Message(DramPort, <<GbPort>>, Packets(v, 1), prevStore[v])>>)
    BY <1>5 DEF LoadFromDram
  <2>2. CASE SkipTileLoad(v)
    BY <1>1, <1>2, <2>1, <2>2
  <2>3. CASE ~SkipTileLoad(v)
    <3>1. HasRoute(DramPort, <<GbPort>>)
      BY <2>3 DEF SkipTileLoad, HasRoute
    <3> QED BY <1>2, <1>4, <2>1, <2>3, <3>1
  <2> QED BY <2>2, <2>3
<1>6. ASSUME NEW v \in Results, StoreToDram(v) PROVE Goal
  <2>1. PICK deps : Emit(IF SkipTileStore(v) THEN <<>>
                         ELSE <<Message(GbPort, <<DramPort>>, Packets(v, 1), deps)>>)
    BY <1>6 DEF StoreToDram
  <2>2. pc = <<"store_to_dram", v>> /\ v \in Tensors
    BY <1>6 DEF StoreToDram, Results, Tensors
  <2>3. CASE SkipTileStore(v)
    BY <1>1, <1>2, <2>1, <2>3
  <2>4. CASE ~SkipTileStore(v)
    <3>1. HasRoute(GbPort, <<DramPort>>)
      BY <2>4 DEF SkipTileStore, HasRoute
    <3> QED BY <1>2, <1>4, <2>1, <2>2, <2>4, <3>1
  <2> QED BY <2>3, <2>4
<1>7. CASE LoadWeight
  <2>1. PICK deps, batch :
          /\ batch = IF ~WeightChanges(job, nocI) THEN <<>>
                     ELSE [g \in DOMAIN job.weightGroups |->
                             Message(OuterPort, job.weightGroups[g],
                                     Packets("weight", Len(job.weightGroups)), deps)]
          /\ Emit(batch)
    BY <1>7 DEF LoadWeight
  <2>2. pc[2] = "weight" /\ "weight" \in Tensors
    BY <1>7 DEF LoadWeight, Tensors
  <2>3. CASE ~WeightChanges(job, nocI)
    BY <1>1, <1>2, <2>1, <2>3
  <2>4. CASE WeightChanges(job, nocI)
    <3>1. PICK n \in Nat \ {0} : n = Len(job.weightGroups) /\ DOMAIN job.weightGroups = 1 .. n
      BY GroupMembers
    <3>2. batch = [g \in 1 .. n |-> Message(OuterPort, job.weightGroups[g],
                                            Packets("weight", n), deps)]
      BY <2>1, <2>4, <3>1
    <3>3. batch = [k \in 1 .. n |-> batch[k]]
      BY <3>2
    <3>4. \A k \in 1 .. n : \E src, dests, packets, d :
            batch[k] = Message(src, dests, packets, d)
      BY <3>2
    <3>5. Stamped(batch)
      BY <3>3, <3>4, StampedMessages
    <3>6. ASSUME NEW g \in 1 .. n PROVE Wellformed(batch[g])
      <4>1. HasRoute(OuterPort, job.weightGroups[g])
        BY <3>1, GroupMembers DEF HasRoute
      <4> QED BY <2>2, <3>2, <4>1, MessageSends
    <3>7. Proper(batch)
      BY <3>3, <3>6, ProperWhen
    <3> QED BY <1>2, <2>1, <3>5, <3>7 DEF Good
  <2> QED BY <2>3, <2>4
<1>8. ASSUME NEW v \in Results, NEW deps, pc[2] = v, Emit(Loads(v, deps)) PROVE Goal
  BY <1>2, <1>8, StampedResults, ProperResults DEF Good
<1>9. ASSUME NEW v \in Results, pc[2] = v, Emit(Stores(v)) PROVE Goal
  BY <1>2, <1>9, StampedResults, ProperResults DEF Good
<1>10. ASSUME NEW busy \in Nat, NEW deps, pc[2] \notin Tensors, Emit(Counts(busy, deps))
       PROVE  Goal
  BY <1>2, <1>10, StampedBatches, ProperCounts DEF Good
<1>11. CASE LoadPsum
  <2>1. PICK deps : Emit(Loads("psum", deps))
    BY <1>11 DEF LoadPsum
  <2>2. pc[2] = "psum" /\ "psum" \in Results
    BY <1>11 DEF LoadPsum, Results
  <2> QED BY <1>8, <2>1, <2>2
<1>12. CASE LoadVmem
  <2>1. PICK deps : Emit(Loads("vmem", deps))
    BY <1>12 DEF LoadVmem
  <2>2. pc[2] = "vmem" /\ "vmem" \in Results
    BY <1>12 DEF LoadVmem, Results
  <2> QED BY <1>8, <2>1, <2>2
<1>13. CASE MacCount
  <2>1. PICK deps : Emit(Counts(Cycles.mac, deps))
    BY <1>13 DEF MacCount
  <2>2. pc[2] \notin Tensors
    BY <1>13 DEF MacCount, Tensors
  <2> QED BY <1>10, <2>1, <2>2, CyclesAre
<1>14. CASE LifCount
  <2>1. PICK deps : Emit(Counts(Cycles.lif, deps))
    BY <1>14 DEF LifCount
  <2>2. pc[2] \notin Tensors
    BY <1>14 DEF LifCount, Tensors
  <2> QED BY <1>10, <2>1, <2>2, CyclesAre
<1>15. CASE StorePsum
  <2>1. Emit(Stores("psum")) /\ pc[2] = "psum" /\ "psum" \in Results
    BY <1>15 DEF StorePsum, Results
  <2> QED BY <1>9, <2>1
<1>16. CASE StoreVmem
  <2>1. Emit(Stores("vmem")) /\ pc[2] = "vmem" /\ "vmem" \in Results
    BY <1>16 DEF StoreVmem, Results
  <2> QED BY <1>9, <2>1
<1>17. ASSUME NEW v \in Results, Chain(v) PROVE Goal
  <2>1. PICK links :
          /\ links = LET chain == job.chains[v][group]
                     IN  [i \in 1 .. Len(chain) - 1 |->
                            Message(chain[i], <<chain[i + 1]>>,
                                    Packets(v, Len(job.chains[v])),
                                    LinkDependencies(v, i))]
          /\ Emit(links)
    BY <1>17 DEF Chain
  <2>2. group \in DOMAIN job.chains[v] /\ pc[2] = v
    <3>1. group \in Nat \ {0} /\ group <= Len(job.chains[v]) /\ pc[2] = v
      BY <1>17 DEF Chain, Held, TypeOK
    <3> QED BY <3>1, JobOK
  <2>3. Stamped(links) /\ Proper(links)
    BY <2>1, <2>2, StampedResults, ProperResults
  <2> QED BY <1>2, <2>1, <2>3 DEF Good
<1>18. ASSUME NEW v \in Results, ChainsDone(v) PROVE Goal
  BY <1>3, <1>18 DEF ChainsDone
<1>19. ResetHistories \/ Returned => Goal
  BY <1>3 DEF ResetHistories, Returned, vars
<1> QED BY <1>5, <1>6, <1>7, <1>11, <1>12, <1>13, <1>14, <1>15, <1>16, <1>17, <1>18,
           <1>19 DEF Next, Results

(* No step breaks the invariant.                                           *)
LEMMA StepRoutes ==
  ASSUME Held, FiredInv, RoutesInv, [Next]_vars
  PROVE  RoutesInv'
<1>1. CASE UNCHANGED vars
  <2>1. tcs' = tcs /\ job' = job
    BY <1>1 DEF vars
  <2> QED BY <2>1 DEF RoutesInv, Wellformed, Sends, Computes, HasRoute, OuterPort, GbPort,
                      DramPort, PeNumbers, NumPes
<1>2. CASE Next
  <2>1. PICK batch : Stamped(batch) /\ Proper(batch) /\ (Emit(batch) \/ tcs' = tcs)
    BY <1>2, StepEmits
  <2>2. job' = job
    BY <1>2, StepGrows
  <2>3. \A tc : Wellformed(tc)' = Wellformed(tc)
    BY <2>2 DEF Wellformed, Sends, Computes, HasRoute, OuterPort, GbPort, DramPort,
                PeNumbers, NumPes
  <2>4. CASE tcs' = tcs
    BY <2>3, <2>4 DEF RoutesInv
  <2>5. CASE Emit(batch)
    <3>1. tcs' = tcs \o batch
      BY <2>5 DEF Emit
    <3>2. /\ Len(tcs) \in Nat /\ Len(batch) \in Nat
          /\ Len(tcs') = Len(tcs) + Len(batch)
          /\ \A i \in 1 .. Len(tcs) : tcs'[i] = tcs[i]
          /\ \A k \in 1 .. Len(batch) : tcs'[Len(tcs) + k] = batch[k]
      <4>1. IsSequence(tcs) /\ IsSequence(batch)
        BY <2>1 DEF Held, Stamped
      <4> QED BY <3>1, <4>1, Joined
    <3>3. DOMAIN tcs' = 1 .. Len(tcs') /\ DOMAIN tcs = 1 .. Len(tcs)
      BY <1>2, StepGrows
    <3>4. ASSUME NEW i \in DOMAIN tcs' PROVE Wellformed(tcs'[i])
      <4>1. CASE i <= Len(tcs)
        BY <3>2, <3>3, <4>1 DEF RoutesInv
      <4>2. CASE ~(i <= Len(tcs))
        <5>1. i - Len(tcs) \in 1 .. Len(batch) /\ i = Len(tcs) + (i - Len(tcs))
          BY <3>2, <3>3, <4>2
        <5> QED BY <2>1, <3>2, <5>1 DEF Proper
      <4> QED BY <4>1, <4>2
    <3> QED BY <2>2, <3>4 DEF RoutesInv, Wellformed, Sends, Computes, HasRoute, OuterPort,
                              GbPort, DramPort, PeNumbers, NumPes
  <2> QED BY <2>1, <2>4, <2>5
<1> QED BY <1>1, <1>2

(* In every reachable state.                                               *)
LEMMA RoutesInvariant == Spec => []RoutesInv
<1>1. Init => RoutesInv
  BY DEF Init, RoutesInv
<1>2. Held /\ FiredInv /\ RoutesInv /\ [Next]_vars => RoutesInv'
  BY StepRoutes
<1> QED BY <1>1, <1>2, HeldInvariant, FiredInvariant, PTL DEF Spec

-----------------------------------------------------------------------------
(* The simulator accepts what the generator emits.  SimP is Sim with what  *)
(* is proved of the simulator.                                             *)

SimP == INSTANCE EventSimProofs WITH
          TcLists <- {<<>>}, X <- MeshColumns, DramPort <- MeshDramPort,
          tcs <- file, pc <- simPc

(* The flags are as the simulator assumes.                                 *)
LEMMA FlagsAreAssumed == SimP!EventSimAssumption
<1>1. <<>> \in Seq(SimP!Transactions)
  OBVIOUS
<1> QED BY <1>1, FlagsAssumption, CombineAssumption DEF SimP!EventSimAssumption

(* The two are the same program.                                           *)
LEMMA SimIsSimP == Sim!Next => SimP!Next
<1>1. \A S : Sim!Cardinality(S) = SimP!Cardinality(S) /\ Sim!Max(S) = SimP!Max(S)
  BY DEF Sim!Cardinality, SimP!Cardinality, Sim!Max, SimP!Max
<1>2. \A tc : /\ Sim!OnMesh(tc) <=> SimP!OnMesh(tc)
              /\ Sim!IsDram(tc) <=> SimP!IsDram(tc)
              /\ Sim!Sendable(tc) <=> SimP!Sendable(tc)
              /\ Sim!Bucket(tc) = SimP!Bucket(tc)
  BY DEF Sim!OnMesh, SimP!OnMesh, Sim!TouchesDram, SimP!TouchesDram, Sim!Contains,
         SimP!Contains, Sim!IsDram, SimP!IsDram, Sim!Sendable, SimP!Sendable, Sim!Bucket,
         SimP!Bucket
<1>3. \A a, b : /\ Sim!Manhattan(a, b) = SimP!Manhattan(a, b)
                /\ Sim!HopsSingle(a, b) = SimP!HopsSingle(a, b)
  BY DEF Sim!Manhattan, SimP!Manhattan, Sim!Gap, SimP!Gap, Sim!Col, SimP!Col, Sim!Row,
         SimP!Row, Sim!HopsSingle, SimP!HopsSingle
<1>4. \A tc : Sim!Destination(tc) = SimP!Destination(tc)
  BY DEF Sim!Destination, SimP!Destination, Sim!Farthest, SimP!Farthest, Sim!Manhattan,
         SimP!Manhattan, Sim!Gap, SimP!Gap, Sim!Col, SimP!Col, Sim!Row, SimP!Row
<1>5. \A tc : Sim!Hops(tc) = SimP!Hops(tc) /\ Sim!Needs(tc) = SimP!Needs(tc)
  BY <1>2, <1>3, <1>4 DEF Sim!Hops, SimP!Hops, Sim!Needs, SimP!Needs
<1>6. \A tc : Sim!Duration(tc) = SimP!Duration(tc)
  BY <1>1, <1>2, <1>5 DEF Sim!Duration, SimP!Duration, Sim!FlitsPerPacket,
                          SimP!FlitsPerPacket
<1>7. \A tc : Sim!Start(tc) = SimP!Start(tc)
  BY <1>1, <1>5 DEF Sim!Start, SimP!Start, Sim!FreeAt, SimP!FreeAt
<1>8. \A finish : Sim!LatestFinish(finish) = SimP!LatestFinish(finish)
  BY <1>1 DEF Sim!LatestFinish, SimP!LatestFinish
<1>9. Sim!WellFormed <=> SimP!WellFormed
  BY <1>1 DEF Sim!WellFormed, SimP!WellFormed, Sim!TcIds, SimP!TcIds, Sim!ToSet, SimP!ToSet
<1>10. \A i : Sim!IsTop(i) <=> SimP!IsTop(i)
  BY DEF Sim!IsTop, SimP!IsTop
<1>11. \A i, j : Sim!Mentions(i, j) = SimP!Mentions(i, j)
  BY <1>1 DEF Sim!Mentions, SimP!Mentions
<1>12. Sim!Load => SimP!Load
  BY <1>9 DEF Sim!Load, SimP!Load, Sim!DependencyCount, SimP!DependencyCount
<1>13. Sim!RejectList => SimP!RejectList
  BY <1>9 DEF Sim!RejectList, SimP!RejectList
<1>14. ASSUME NEW i, Sim!Dispatch(i) PROVE SimP!Dispatch(i)
  BY <1>2, <1>5, <1>6, <1>7, <1>8, <1>10, <1>14 DEF Sim!Dispatch, SimP!Dispatch
<1>15. ASSUME NEW i, Sim!RejectTransaction(i) PROVE SimP!RejectTransaction(i)
  BY <1>2, <1>10, <1>15 DEF Sim!RejectTransaction, SimP!RejectTransaction
<1>16. ASSUME NEW e, Sim!Complete(e) PROVE SimP!Complete(e)
  BY <1>11, <1>16 DEF Sim!Complete, SimP!Complete, Sim!EndsFirst, SimP!EndsFirst,
                      Sim!QueueWithout, SimP!QueueWithout, Sim!ReadyAfter, SimP!ReadyAfter
<1>17. (Sim!Return => SimP!Return) /\ (Sim!Exited => SimP!Exited)
  BY DEF Sim!Return, SimP!Return, Sim!Exited, SimP!Exited, Sim!vars, SimP!vars
<1> QED BY <1>12, <1>13, <1>14, <1>15, <1>16, <1>17 DEF Sim!Next, SimP!Next

(* So what is proved of the simulator holds here.                          *)
LEMMA SimSteps ==
  /\ SimP!ExclusiveInv /\ SimP!LoopInv /\ [SimP!Next]_(SimP!vars)
       => SimP!ExclusiveInv' /\ SimP!LoopInv'
  /\ /\ SimP!ExclusiveInv /\ SimP!LoopInv /\ SimP!DependenciesStandEarlier
     /\ simPc = "run" /\ ready = {} /\ completions = {}
     => dispatched = Len(file)
<1>1. /\ {<<>>} \subseteq Seq(SimP!Transactions)
      /\ MeshColumns \in Nat \ {0}
      /\ MeshDramPort \in Nat /\ DramLatency \in Nat
  BY FlagsAreAssumed DEF SimP!EventSimAssumption
<1>2. SimP!ExclusiveInv /\ [SimP!Next]_(SimP!vars) => SimP!ExclusiveInv'
  BY <1>1, SimP!ExclusiveStep
<1>3. SimP!ExclusiveInv /\ SimP!LoopInv /\ [SimP!Next]_(SimP!vars) => SimP!LoopInv'
  BY <1>1, SimP!LoopStep
<1>4. /\ SimP!ExclusiveInv /\ SimP!LoopInv /\ SimP!DependenciesStandEarlier
      /\ simPc = "run" /\ ready = {} /\ completions = {}
      => dispatched = Len(file)
  BY <1>1, SimP!NoneIsStuck
<1> QED BY <1>2, <1>3, <1>4

(* The simulator's counters, for the file as its list.                     *)
LEMMA SimBuckets ==
  SimP!ExclusiveInv /\ SimP!LoopInv /\ SimP!BucketInv /\ [SimP!Next]_(SimP!vars)
    => SimP!BucketInv'
<1>1. /\ {<<>>} \subseteq Seq(SimP!Transactions)
      /\ MeshColumns \in Nat \ {0}
      /\ MeshDramPort \in Nat /\ DramLatency \in Nat
  BY FlagsAreAssumed DEF SimP!EventSimAssumption
<1> QED BY <1>1, SimP!BucketStep

(* How long the simulator takes for a row of the file.                     *)
LEMMA SimTimes ==
  \A tc \in SimP!Transactions :
    /\ SimP!Sendable(tc) => SimP!Duration(tc) \in Nat
    /\ SimP!OnMesh(tc) /\ tc.dests # <<>> =>
         \E i \in DOMAIN tc.dests :
           /\ SimP!Duration(tc)
                = SimP!Manhattan(tc.actor, tc.dests[i]) + tc.size * SimP!FlitsPerPacket
           /\ tc.op # "unicast" =>
                \A j \in DOMAIN tc.dests :
                  SimP!Manhattan(tc.actor, tc.dests[j])
                    <= SimP!Manhattan(tc.actor, tc.dests[i])
           /\ tc.op = "unicast" => i = 1
<1>1. /\ {<<>>} \subseteq Seq(SimP!Transactions)
      /\ MeshColumns \in Nat \ {0}
      /\ MeshDramPort \in Nat /\ DramLatency \in Nat
  BY FlagsAreAssumed DEF SimP!EventSimAssumption
<1>2. \A tc \in SimP!Transactions : SimP!Sendable(tc) => SimP!Duration(tc) \in Nat
  BY <1>1, SimP!DurationType
<1>3. \A tc \in SimP!Transactions :
        SimP!OnMesh(tc) /\ tc.dests # <<>> =>
          \E i \in DOMAIN tc.dests :
            /\ SimP!Duration(tc)
                 = SimP!Manhattan(tc.actor, tc.dests[i]) + tc.size * SimP!FlitsPerPacket
            /\ tc.op # "unicast" =>
                 \A j \in DOMAIN tc.dests :
                   SimP!Manhattan(tc.actor, tc.dests[j])
                     <= SimP!Manhattan(tc.actor, tc.dests[i])
            /\ tc.op = "unicast" => i = 1
  BY <1>1, SimP!SendingTime
<1> QED BY <1>2, <1>3

(* What the simulator needs of the rows: they name themselves by their     *)
(* place and those they wait for by an earlier one, and each has somewhere *)
(* to go.                                                                  *)
RowsAreOrderly(rows) ==
  /\ rows \in Seq(SimP!Transactions)
  /\ \A i \in 1 .. Len(rows) :
       /\ rows[i].tc_id = i - 1
       /\ rows[i].deps \in IdsBelow(i - 1)
       /\ SimP!Sendable(rows[i])

(* The layer that the flags are taken from.                                *)
FlagsOK == job.columns = MeshColumns /\ DramPort = MeshDramPort

(* The buffer comes after the PEs, and DRAM after the buffer.              *)
LEMMA PortsAreNumbers ==
  ASSUME Held
  PROVE  /\ PeNumbers \subseteq Nat /\ GbPort \in Nat /\ DramPort \in Nat /\ OuterPort \in Nat
         /\ NumPes = GbPort /\ GbPort < DramPort
<1>1. NumPes \in Nat \ {0}
  BY GroupMembers
<1>2. PICK c \in Nat \ {0}, r \in Nat \ {0} : c = job.columns /\ r = job.rows
  BY CombineAssumption DEF Held
<1>3. PICK p \in Nat \ {0} : p = c * r
  BY <1>1, <1>2 DEF NumPes
<1>4. /\ 5 * c * r = 5 * p
      /\ 2 * r * (c - 1) = 2 * p - 2 * r
      /\ 2 * c * (r - 1) = 2 * p - 2 * c
  BY <1>3
<1>5. DramPort = (5 * p - (2 * p - 2 * r) - (2 * p - 2 * c)) - (c + r)
  BY <1>2, <1>4 DEF DramPort, DramPortOf, NumPorts
<1>6. DramPort = p + c + r /\ NumPes = p
  BY <1>2, <1>3, <1>5 DEF NumPes
<1> QED BY <1>1, <1>6 DEF PeNumbers, GbPort, OuterPort

(* A message has a receiver.                                               *)
LEMMA RoutesHaveEnds ==
  ASSUME Held, NEW src, NEW dests, HasRoute(src, dests)
  PROVE  src \in Nat /\ dests \in Seq(Nat) \ {<<>>}
<1>1. PeNumbers \subseteq Nat /\ GbPort \in Nat /\ DramPort \in Nat /\ OuterPort \in Nat
  BY PortsAreNumbers
<1>2. \A n \in Nat : <<n>> \in Seq(Nat) \ {<<>>}
  OBVIOUS
<1>3. \A q \in Seq(PeNumbers) : q \in Seq(Nat)
  <2>1. \A S, T : S \subseteq T => Seq(S) \subseteq Seq(T)
    OBVIOUS
  <2> QED BY <1>1, <2>1
<1> QED BY <1>1, <1>2, <1>3 DEF HasRoute

(* What the generator writes is orderly.                                   *)
LEMMA FileIsOrderly ==
  ASSUME Held, FlagsOK, RoutesInv
  PROVE  /\ RowsAreOrderly(FileRows) /\ Len(FileRows) = Len(tcs)
         /\ \A i \in 1 .. Len(tcs) :
              FileRows[i] = [tc_id |-> i - 1, actor |-> tcs[i].actor, op |-> tcs[i].op,
                             size |-> tcs[i].size, dests |-> tcs[i].dests,
                             deps |-> tcs[i].deps]
<1> DEFINE rows == FileRows
           n == Len(tcs)
<1>1. n \in Nat /\ DOMAIN tcs = 1 .. n
  BY DEF Held, IsSequence
<1>2. /\ DOMAIN rows = 1 .. n
      /\ \A i \in 1 .. n :
           rows[i] = [tc_id |-> i - 1, actor |-> tcs[i].actor, op |-> tcs[i].op,
                      size |-> tcs[i].size, dests |-> tcs[i].dests, deps |-> tcs[i].deps]
  BY <1>1 DEF FileRows
<1>3. rows = [i \in 1 .. n |-> rows[i]]
  BY <1>1 DEF FileRows
<1>4. ASSUME NEW i \in 1 .. n
      PROVE  /\ rows[i] \in SimP!Transactions
             /\ rows[i].tc_id = i - 1
             /\ rows[i].deps \in IdsBelow(i - 1)
             /\ SimP!Sendable(rows[i])
  <2>1. rows[i] = [tc_id |-> i - 1, actor |-> tcs[i].actor, op |-> tcs[i].op,
                   size |-> tcs[i].size, dests |-> tcs[i].dests, deps |-> tcs[i].deps]
    BY <1>2
  <2>2. tcs[i].deps \in IdsBelow(i - 1)
    BY DEF Held
  <2>3. tcs[i].deps \in Seq(Nat)
    <3>1. 0 .. (i - 1) - 1 \subseteq Nat
      OBVIOUS
    <3> QED BY <2>2, <3>1 DEF IdsBelow
  <2>4. /\ tcs[i].actor \in Nat /\ tcs[i].size \in Nat /\ tcs[i].dests \in Seq(Nat)
        /\ tcs[i].op \in {"unicast", "multicast", "count"}
        /\ tcs[i].op # "count" => tcs[i].dests # <<>>
    <3>1. Wellformed(tcs[i])
      BY <1>1 DEF RoutesInv
    <3>2. CASE Sends(tcs[i])
      BY <3>2, RoutesHaveEnds DEF Sends
    <3>3. CASE Computes(tcs[i])
      BY <3>3, PortsAreNumbers DEF Computes
    <3> QED BY <3>1, <3>2, <3>3 DEF Wellformed
  <2>5. i - 1 \in Nat
    BY <1>1
  <2>6. rows[i] \in SimP!Transactions
    BY <2>1, <2>3, <2>4, <2>5 DEF SimP!Transactions, SimP!Ops
  <2>7. SimP!Sendable(rows[i])
    BY <2>1, <2>4 DEF SimP!Sendable, SimP!OnMesh
  <2> QED BY <2>1, <2>2, <2>6, <2>7
<1> HIDE DEF rows
<1>5. rows \in Seq(SimP!Transactions) /\ Len(rows) = n
  <2>1. IsSequence(rows) /\ Len(rows) = n /\ DOMAIN rows = 1 .. n
    BY <1>1, <1>3, ListIsSequence
  <2>2. \A S : \A s \in Seq(S) : (\A k \in 1 .. Len(s) : s[k] \in SimP!Transactions) => s \in Seq(SimP!Transactions)
    OBVIOUS
  <2> QED BY <1>4, <2>1, <2>2 DEF IsSequence
<1>6. RowsAreOrderly(rows) /\ Len(rows) = Len(tcs)
  BY <1>4, <1>5 DEF RowsAreOrderly
<1> QED BY <1>2, <1>6 DEF rows

(* A simulator that is given orderly rows rejects none of them and reports *)
(* no cycle.                                                               *)
LEMMA OrderlyIsAccepted ==
  ASSUME RowsAreOrderly(file)
  PROVE  /\ SimP!WellFormed /\ SimP!DependenciesStandEarlier
         /\ \A i \in DOMAIN file : SimP!Sendable(file[i])
<1>1. PICK n \in Nat : n = Len(file) /\ DOMAIN file = 1 .. n
  BY DEF RowsAreOrderly
<1>2. \A i \in 1 .. n : /\ file[i].tc_id = i - 1 /\ file[i].deps \in IdsBelow(i - 1)
                        /\ SimP!Sendable(file[i])
  BY <1>1 DEF RowsAreOrderly
<1>3. SimP!TcIds = 0 .. n - 1
  <2>1. ASSUME NEW x \in 0 .. n - 1 PROVE x \in SimP!TcIds
    <3>1. x + 1 \in 1 .. n /\ (x + 1) - 1 = x
      BY <1>1
    <3>2. file[x + 1].tc_id = x
      BY <1>2, <3>1
    <3> QED BY <1>1, <3>1, <3>2 DEF SimP!TcIds
  <2>2. \A i \in 1 .. n : file[i].tc_id \in 0 .. n - 1
    BY <1>1, <1>2
  <2> QED BY <1>1, <2>1, <2>2 DEF SimP!TcIds
<1>4. Cardinality(0 .. n - 1) = n
  <2>1. \A b \in Int : Cardinality(0 .. b) = IF 0 > b THEN 0 ELSE b - 0 + 1
    BY FS_Interval
  <2>2. n - 1 \in Int
    BY <1>1
  <2>3. Cardinality(0 .. n - 1) = IF 0 > n - 1 THEN 0 ELSE (n - 1) - 0 + 1
    BY <2>1, <2>2
  <2>4. (IF 0 > n - 1 THEN 0 ELSE (n - 1) - 0 + 1) = n
    BY <1>1
  <2> QED BY <2>3, <2>4
<1>5. SimP!Cardinality(0 .. n - 1) = n
  BY <1>4 DEF SimP!Cardinality, Cardinality
<1>6. ASSUME NEW i \in 1 .. n, NEW k \in DOMAIN file[i].deps
      PROVE  file[i].deps[k] \in 0 .. i - 2
  <2>1. file[i].deps \in Seq(0 .. (i - 1) - 1)
    BY <1>2 DEF IdsBelow
  <2>2. (i - 1) - 1 = i - 2
    BY <1>1
  <2> QED BY <2>1, <2>2
<1>7. SimP!WellFormed
  <2>1. \A i \in 1 .. n : SimP!ToSet(file[i].deps) \subseteq 0 .. n - 1
    <3> SUFFICES ASSUME NEW i \in 1 .. n, NEW k \in DOMAIN file[i].deps
                 PROVE  file[i].deps[k] \in 0 .. n - 1
      BY DEF SimP!ToSet
    <3>1. file[i].deps[k] \in 0 .. i - 2
      BY <1>6
    <3> QED BY <1>1, <3>1
  <2> QED BY <1>1, <1>3, <1>5, <2>1 DEF SimP!WellFormed
<1>8. SimP!DependenciesStandEarlier
  <2> SUFFICES ASSUME NEW i \in DOMAIN file, NEW j \in SimP!Dependencies(i) PROVE j < i
    BY DEF SimP!DependenciesStandEarlier
  <2>1. /\ i \in 1 .. n /\ j \in 1 .. n
        /\ \E k \in 1 .. Len(file[i].deps) : file[i].deps[k] = file[j].tc_id
    BY <1>1 DEF SimP!Dependencies, SimP!Contains
  <2>2. DOMAIN file[i].deps = 1 .. Len(file[i].deps)
    BY <1>2, <2>1 DEF IdsBelow
  <2>3. file[j].tc_id \in 0 .. i - 2 /\ file[j].tc_id = j - 1
    BY <1>2, <1>6, <2>1, <2>2
  <2> QED BY <2>1, <2>3
<1> QED BY <1>1, <1>2, <1>7, <1>8

(* From a layer to its latency: the file holds nothing or what was         *)
(* generated, and the simulator is as EventSimProofs says, without an      *)
(* error.                                                                  *)
LayerInv ==
  /\ FlagsOK
  /\ file = <<>> \/ (file = FileRows /\ pc = <<"return", "gen">>)
  /\ file = <<>> => simPc = "load"
  /\ RowsAreOrderly(file)
  /\ SimP!ExclusiveInv /\ SimP!LoopInv
  /\ GraphIsAccepted

(* The generator is the one of Combine.                                    *)
LEMMA LayerGenerates == LayerSpec => Spec
<1>1. LayerInit => Init
  BY DEF LayerInit
<1>2. [LayerNext]_layerVars => [Next]_vars
  BY DEF LayerNext, Generate, WriteFile, Simulate, layerVars
<1> QED BY <1>1, <1>2, PTL DEF LayerSpec, Spec

(* Before anything is generated there is nothing to reject.                *)
LEMMA LayerStarts == LayerInit => LayerInv
<1> SUFFICES ASSUME LayerInit PROVE LayerInv
  OBVIOUS
<1>1. /\ file = <<>> /\ simPc = "load" /\ DOMAIN placed = {} /\ DOMAIN freeAt = {}
      /\ completions = {} /\ ready = {} /\ dispatched = 0
      /\ freeAt = [r \in {} |-> 0] /\ placed = [i \in {} |-> 0]
  BY DEF LayerInit, Sim!Init
<1>2. FlagsOK
  BY DEF LayerInit, FlagsOK
<1>3. RowsAreOrderly(file)
  BY <1>1 DEF RowsAreOrderly
<1>4. SimP!ExclusiveInv
  BY <1>1, <1>3 DEF RowsAreOrderly, SimP!ExclusiveInv, SimP!ShapeOK, SimP!FreeAfterItsUsers,
                    SimP!ResourcesAreExclusive
<1>5. SimP!LoopInv
  BY <1>1 DEF SimP!LoopInv, SimP!FreeAfterTheLast, SimP!Untouched
<1> QED BY <1>1, <1>2, <1>3, <1>4, <1>5 DEF LayerInv, GraphIsAccepted

(* Writing the file is all that changes before the simulator starts.       *)
LEMMA WriteKeepsLayer ==
  ASSUME Held, RoutesInv, LayerInv, WriteFile
  PROVE  LayerInv'
<1>1. /\ pc = <<"return", "gen">> /\ file = <<>> /\ file' = FileRows
      /\ UNCHANGED <<job, tcs, pc>> /\ UNCHANGED simVars
  BY DEF WriteFile, vars
<1>2. FlagsOK' /\ FileRows' = FileRows
  BY <1>1 DEF LayerInv, FlagsOK, DramPort, FileRows
<1>3. RowsAreOrderly(FileRows)
  BY FileIsOrderly DEF LayerInv
<1>4. /\ simPc = "load" /\ SimP!Untouched
  BY <1>1 DEF LayerInv, SimP!LoopInv
<1>5. UNCHANGED <<simPc, ready, completions, freeAt, dispatched, placed>>
  BY <1>1 DEF simVars
<1>6. RowsAreOrderly(file)'
  BY <1>1, <1>3 DEF RowsAreOrderly, SimP!Sendable, SimP!OnMesh, SimP!TouchesDram
<1>7. /\ DOMAIN placed = {} /\ DOMAIN freeAt = {} /\ completions = {} /\ ready = {}
      /\ freeAt = [r \in DOMAIN freeAt |-> freeAt[r]]
      /\ placed = [i \in DOMAIN placed |-> placed[i]]
  BY <1>4 DEF SimP!Untouched, LayerInv, SimP!ExclusiveInv, SimP!ShapeOK
<1>8. SimP!ExclusiveInv'
  BY <1>5, <1>6, <1>7 DEF RowsAreOrderly, SimP!ExclusiveInv, SimP!ShapeOK,
                          SimP!FreeAfterItsUsers, SimP!ResourcesAreExclusive
<1>9. SimP!LoopInv'
  BY <1>4, <1>5, <1>7 DEF SimP!LoopInv, SimP!FreeAfterTheLast, SimP!Untouched
<1> QED BY <1>1, <1>2, <1>4, <1>5, <1>6, <1>8, <1>9 DEF LayerInv, GraphIsAccepted

(* The simulator's steps stay within what EventSimProofs says of them, and *)
(* what it is given leaves it no way to an error.                          *)
LEMMA SimulateKeepsLayer ==
  ASSUME LayerInv, Simulate
  PROVE  LayerInv'
<1>1. /\ file # <<>> /\ SimP!Next /\ UNCHANGED <<job, tcs, pc>>
  BY SimIsSimP DEF Simulate, vars
<1>2. /\ SimP!WellFormed /\ SimP!DependenciesStandEarlier
      /\ \A i \in DOMAIN file : SimP!Sendable(file[i])
  BY OrderlyIsAccepted DEF LayerInv
<1>3. SimP!ExclusiveInv' /\ SimP!LoopInv'
  BY <1>1, SimSteps DEF LayerInv
<1>4. file' = file
  BY <1>1 DEF SimP!Next, SimP!Load, SimP!RejectList, SimP!Dispatch, SimP!RejectTransaction,
              SimP!Complete, SimP!Return, SimP!Exited, SimP!vars
<1>5. FlagsOK' /\ FileRows' = FileRows
  BY <1>1 DEF LayerInv, FlagsOK, DramPort, FileRows
<1>6. RowsAreOrderly(file)'
  BY <1>4 DEF LayerInv, RowsAreOrderly, SimP!Sendable, SimP!OnMesh, SimP!TouchesDram
<1>7. simPc' \notin {"rejected", "cycle"}
  <2>1. simPc \notin {"rejected", "cycle"}
    BY DEF LayerInv, GraphIsAccepted
  <2>2. CASE SimP!Load
    BY <2>2 DEF SimP!Load
  <2>3. CASE SimP!RejectList
    BY <1>2, <2>3 DEF SimP!RejectList
  <2>4. CASE \E i \in DOMAIN file : SimP!Dispatch(i)
    BY <2>1, <2>4 DEF SimP!Dispatch
  <2>5. CASE \E i \in DOMAIN file : SimP!RejectTransaction(i)
    BY <1>2, <2>5 DEF SimP!RejectTransaction
  <2>6. CASE \E e \in completions : SimP!Complete(e)
    BY <2>1, <2>6 DEF SimP!Complete
  <2>7. CASE SimP!Return
    <3>1. simPc = "run" /\ ready = {} /\ completions = {}
          /\ simPc' = IF dispatched = Len(file) THEN "done" ELSE "cycle"
      BY <2>7 DEF SimP!Return
    <3>2. dispatched = Len(file)
      BY <1>2, <3>1, SimSteps DEF LayerInv
    <3> QED BY <3>1, <3>2
  <2>8. CASE SimP!Exited
    BY <2>1, <2>8 DEF SimP!Exited, SimP!vars
  <2> QED BY <1>1, <2>2, <2>3, <2>4, <2>5, <2>6, <2>7, <2>8 DEF SimP!Next
<1> QED BY <1>1, <1>3, <1>4, <1>5, <1>6, <1>7 DEF LayerInv, GraphIsAccepted

(* The generator leaves the file alone.                                    *)
LEMMA LayerStep ==
  ASSUME Held, RoutesInv, LayerInv, [LayerNext]_layerVars
  PROVE  LayerInv'
<1>1. ASSUME Generate \/ UNCHANGED layerVars PROVE LayerInv'
  <2>1. /\ job' = job /\ UNCHANGED file /\ UNCHANGED simVars
        /\ file = <<>> \/ UNCHANGED <<tcs, pc>>
    <3>1. CASE Generate
      BY <3>1, StepGrows DEF Generate, LayerInv
    <3>2. CASE UNCHANGED layerVars
      BY <3>2 DEF layerVars, vars
    <3> QED BY <1>1, <3>1, <3>2
  <2>2. FlagsOK' /\ (UNCHANGED tcs => FileRows' = FileRows)
    BY <2>1 DEF LayerInv, FlagsOK, DramPort, FileRows
  <2>3. RowsAreOrderly(file)'
    BY <2>1 DEF LayerInv, RowsAreOrderly, SimP!Sendable, SimP!OnMesh, SimP!TouchesDram
  <2>4. UNCHANGED SimP!vars
    BY <2>1 DEF simVars, SimP!vars
  <2>5. SimP!ExclusiveInv' /\ SimP!LoopInv'
    BY <2>4, SimSteps DEF LayerInv
  <2>6. simPc' = simPc
    BY <2>1 DEF simVars
  <2> QED BY <2>1, <2>2, <2>3, <2>5, <2>6 DEF LayerInv, GraphIsAccepted
<1>2. ASSUME WriteFile PROVE LayerInv'
  BY <1>2, WriteKeepsLayer
<1>3. ASSUME Simulate PROVE LayerInv'
  BY <1>3, SimulateKeepsLayer
<1> QED BY <1>1, <1>2, <1>3 DEF LayerNext

(* In every reachable state of the two together.                           *)
LEMMA LayerInvariant == LayerSpec => [](Held /\ RoutesInv /\ LayerInv)
<1>1. Held /\ RoutesInv /\ LayerInv /\ [LayerNext]_layerVars => LayerInv'
  BY LayerStep
<1> QED BY <1>1, LayerStarts, LayerGenerates, HeldInvariant, RoutesInvariant, PTL
        DEF LayerSpec

(* The simulator accepts the transactions of every layer: it rejects none  *)
(* of them and never reports that they wait for each other in a circle.    *)
THEOREM AcceptanceCorrect == LayerSpec => []GraphIsAccepted
<1>1. LayerInv => GraphIsAccepted
  BY DEF LayerInv
<1> QED BY <1>1, LayerInvariant, PTL

-----------------------------------------------------------------------------
(* Costs.  Each counter holds what the transactions emitted so far were    *)
(* charged, tensor by tensor.                                              *)

CostOf == [i \in DOMAIN tcs |-> Cost(tcs[i])]

Paid(kind, v) ==
  {i \in DOMAIN tcs : tcs[i].label[2] = v /\ CostKind(tcs[i]) = kind}

CostsInv ==
  /\ costs \in [CostKinds -> [Tensors -> Int]]
  /\ \A kind \in CostKinds : \A v \in Tensors :
       costs[kind][v] = SumFunctionOnSet(CostOf, Paid(kind, v))

(* A transaction that touches DRAM is charged as such, as is every         *)
(* multicast, and of the unicasts only those of the buffer.                *)
LEMMA KindsAre ==
  ASSUME Held, NEW tc, Wellformed(tc)
  PROVE  /\ CostKind(tc) = "dram" <=>
              /\ tc.op # "count"
              /\ tc.actor = DramPort \/ \E k \in 1 .. Len(tc.dests) : tc.dests[k] = DramPort
         /\ CostKind(tc) = "multicast" <=> tc.op = "multicast"
         /\ CostKind(tc) = "unicast" => tc.op = "unicast"
         /\ CostKind(tc) \in CostKinds => Sends(tc)
<1>1. /\ GbPort \notin PeNumbers /\ DramPort \notin PeNumbers /\ GbPort # DramPort
  BY PortsAreNumbers DEF PeNumbers
<1>2. CASE Computes(tc)
  <2>1. tc.op = "count"
    BY <1>2 DEF Computes
  <2>2. CostKind(tc) = "none"
    BY <2>1 DEF CostKind
  <2> QED BY <2>1, <2>2 DEF CostKinds
<1>3. CASE Sends(tc)
  <2>1. /\ tc.op = IF Len(tc.dests) = 1 THEN "unicast" ELSE "multicast"
        /\ HasRoute(tc.actor, tc.dests)
    BY <1>3 DEF Sends
  <2>2. ASSUME NEW n, tc.dests = <<n>>
        PROVE  Len(tc.dests) = 1 /\ tc.dests[1] = n
    BY <2>2
  <2>3. CASE tc.actor = OuterPort /\ tc.dests \in Seq(PeNumbers) \ {<<>>}
             /\ (job.single => Len(tc.dests) = 1)
    <3>1. \A k \in 1 .. Len(tc.dests) : tc.dests[k] \in PeNumbers
      BY <2>3
    <3>2. tc.dests[1] \in PeNumbers
      BY <2>3
    <3>3. tc.dests # <<DramPort>>
      BY <1>1, <3>2
    <3>4. CASE job.single
      <4>1. tc.actor = DramPort /\ tc.op = "unicast" /\ tc.actor # GbPort
        BY <1>1, <2>1, <2>3, <3>4 DEF OuterPort
      <4>2. CostKind(tc) = "dram"
        BY <4>1 DEF CostKind
      <4> QED BY <1>3, <4>1, <4>2
    <3>5. CASE ~job.single
      <4>1. tc.actor = GbPort
        BY <2>3, <3>5 DEF OuterPort
      <4>2. DramPort \notin {tc.actor, tc.dests[1]}
        BY <1>1, <3>2, <4>1
      <4>3. CostKind(tc) = tc.op /\ tc.op \in {"unicast", "multicast"}
        BY <2>1, <3>3, <4>1, <4>2 DEF CostKind
      <4> QED BY <1>1, <1>3, <3>1, <4>1, <4>3
    <3> QED BY <3>4, <3>5
  <2>4. CASE tc.actor \in PeNumbers /\ \E pe \in PeNumbers : tc.dests = <<pe>>
    <3>1. tc.op = "unicast" /\ Len(tc.dests) = 1 /\ tc.dests[1] \in PeNumbers
      BY <2>1, <2>4
    <3>2. CostKind(tc) = "none"
      BY <1>1, <2>4, <3>1 DEF CostKind
    <3> QED BY <1>1, <2>4, <3>1, <3>2 DEF CostKinds
  <2>5. CASE tc.actor \in PeNumbers /\ tc.dests = <<OuterPort>>
    <3>1. tc.op = "unicast" /\ Len(tc.dests) = 1 /\ tc.dests[1] = OuterPort
      BY <2>1, <2>5
    <3>2. CASE job.single
      <4>1. DramPort \in {tc.actor, tc.dests[1]} /\ tc.actor # GbPort
        BY <1>1, <2>5, <3>1, <3>2 DEF OuterPort
      <4>2. CostKind(tc) = "dram"
        BY <3>1, <4>1 DEF CostKind
      <4> QED BY <1>3, <3>1, <3>2, <4>2 DEF OuterPort
    <3>3. CASE ~job.single
      <4>1. CostKind(tc) = "none"
        BY <1>1, <2>5, <3>1, <3>3 DEF CostKind, OuterPort
      <4> QED BY <1>1, <2>5, <3>1, <3>3, <4>1 DEF OuterPort, CostKinds
    <3> QED BY <3>2, <3>3
  <2>6. CASE \/ tc.actor = DramPort /\ tc.dests = <<GbPort>>
             \/ tc.actor = GbPort /\ tc.dests = <<DramPort>>
    <3>1. tc.op = "unicast" /\ Len(tc.dests) = 1 /\ DramPort \in {tc.actor, tc.dests[1]}
      BY <2>1, <2>6
    <3>2. ~ (tc.actor = GbPort /\ tc.dests # <<DramPort>>)
      BY <1>1, <2>6
    <3>3. CostKind(tc) = "dram"
      BY <3>1, <3>2 DEF CostKind
    <3> QED BY <1>3, <3>1, <3>3
  <2> QED BY <2>1, <2>3, <2>4, <2>5, <2>6 DEF HasRoute
<1> QED BY <1>2, <1>3 DEF Wellformed

(* A distance is a number.                                                 *)
LEMMA HopsType ==
  ASSUME Held, NEW a \in Nat, NEW b \in Nat
  PROVE  Hops(a, b) \in Nat
<1>1. PICK c \in Nat \ {0} : c = job.columns
  BY CombineAssumption DEF Held
<1>2. \A x \in Nat : x % c \in Nat /\ x \div c \in Nat
  OBVIOUS
<1>3. \A x, y \in Nat : Distance(x, y) \in Nat
  BY DEF Distance
<1>4. Distance(a % c, b % c) \in Nat /\ Distance(a \div c, b \div c) \in Nat
  BY <1>2, <1>3
<1> QED BY <1>1, <1>4 DEF Hops

(* What is charged is the way to the farthest receiver and the flits.      *)
LEMMA CostIs ==
  ASSUME Held, NEW tc, Wellformed(tc), CostKind(tc) \in CostKinds
  PROVE  /\ Cost(tc) \in Nat
         /\ CostKind(tc) = "dram" => Cost(tc) = tc.size * DramLatency
         /\ CostKind(tc) # "dram" =>
              \E i \in DOMAIN tc.dests :
                /\ Cost(tc) = Hops(tc.actor, tc.dests[i]) + tc.size * FlitsPerPacket
                /\ \A j \in DOMAIN tc.dests :
                     Hops(tc.actor, tc.dests[j]) <= Hops(tc.actor, tc.dests[i])
<1>1. Sends(tc)
  BY KindsAre
<1>2. tc.size \in Nat /\ tc.actor \in Nat /\ tc.dests \in Seq(Nat) \ {<<>>}
  BY <1>1, RoutesHaveEnds DEF Sends
<1>3. CASE CostKind(tc) = "dram"
  <2>1. Cost(tc) = tc.size * DramLatency
    BY <1>3 DEF Cost
  <2>2. DramLatency \in Nat
    BY CombineAssumption
  <2>3. \A a, b \in Nat : a * b \in Nat
    OBVIOUS
  <2> QED BY <1>2, <1>3, <2>1, <2>2, <2>3
<1>4. CASE CostKind(tc) # "dram"
  <2> DEFINE P == DOMAIN tc.dests
             D(i) == Hops(tc.actor, tc.dests[i])
             S == {Hops(tc.actor, dest) : dest \in ToSet(tc.dests)}
             f == [i \in P |-> D(i)]
  <2>1. P = 1 .. Len(tc.dests) /\ Len(tc.dests) \in Nat /\ 1 \in P
    BY <1>2
  <2>2. \A i \in P : D(i) \in Nat
    <3>1. \A i \in P : tc.dests[i] \in Nat
      BY <1>2
    <3> QED BY <1>2, <3>1, HopsType
  <2>3. S = {D(i) : i \in P}
    BY DEF ToSet
  <2>4. S \subseteq Nat /\ S # {}
    BY <2>1, <2>2, <2>3
  <2>5. IsFiniteSet(S)
    <3>1. IsFiniteSet(P)
      BY <2>1, FS_Interval
    <3>2. f \in Surjection(P, S)
      BY <2>3 DEF Surjection
    <3> HIDE DEF f, P, S
    <3> QED BY <3>1, <3>2, FS_Surjection
  <2>6. Cost(tc) = Max(S) + tc.size * FlitsPerPacket
    BY <1>4 DEF Cost
  <2>7. Max(S) \in S /\ \A x \in S : Max(S) >= x
    <3> HIDE DEF S
    <3> QED BY <2>4, <2>5, MaxExists
  <2> HIDE DEF S
  <2>8. PICK i \in P : Max(S) = D(i)
    BY <2>3, <2>7
  <2>9. \A j \in P : D(j) <= D(i)
    <3> SUFFICES ASSUME NEW j \in P PROVE D(j) <= D(i)
      OBVIOUS
    <3>1. D(j) \in S
      BY <2>3
    <3>2. D(i) >= D(j)
      BY <2>7, <2>8, <3>1
    <3>3. D(i) \in Nat /\ D(j) \in Nat
      BY <2>2
    <3> HIDE DEF D
    <3> QED BY <3>2, <3>3
  <2>10. Cost(tc) \in Nat
    <3>1. D(i) \in Nat
      BY <2>2
    <3> HIDE DEF D
    <3> QED BY <1>2, <2>6, <2>8, <3>1 DEF FlitsPerPacket
  <2> QED BY <1>4, <2>6, <2>8, <2>9, <2>10
<1> QED BY <1>3, <1>4

(* What a batch is charged, as a sum over its places.                      *)
LEMMA ChargedIs ==
  ASSUME NEW batch, NEW S, IsFiniteSet(S), S \subseteq DOMAIN batch
  PROVE  MapThenSumSet(LAMBDA k : Cost(batch[k]), S)
           = SumFunctionOnSet([k \in DOMAIN batch |-> Cost(batch[k])], S)
<1> DEFINE f == [k \in DOMAIN batch |-> Cost(batch[k])]
           T(h) == h = [s \in SUBSET S |-> IF s = {} THEN 0
                          ELSE Cost(batch[Chosen(s)]) + h[s \ {Chosen(s)}]]
           c == CHOOSE h : T(h)
<1>1. PICK it : Sums(it, f, S)
  BY SumsExist
<1>2. \A h : T(h) <=> Sums(h, f, S)
  <2>1. \A s \in SUBSET S : s # {} => f[Chosen(s)] = Cost(batch[Chosen(s)])
    BY ChosenIsIn
  <2> HIDE DEF f
  <2>2. \A h : [s \in SUBSET S |-> IF s = {} THEN 0
                  ELSE Cost(batch[Chosen(s)]) + h[s \ {Chosen(s)}]]
             = [s \in SUBSET S |-> IF s = {} THEN 0
                  ELSE f[Chosen(s)] + h[s \ {Chosen(s)}]]
    BY <2>1
  <2> QED BY <2>2 DEF Sums
<1> HIDE DEF f
<1>3. T(it)
  BY <1>1, <1>2
<1>4. T(c)
  BY <1>3
<1>5. Sums(c, f, S)
  BY <1>2, <1>4
<1>6. c[S] = SumFunctionOnSet(f, S)
  BY <1>5, SumIsTheTotal
<1>7. MapThenSumSet(LAMBDA k : Cost(batch[k]), S) = c[S]
  BY DEF MapThenSumSet, MapThenFoldSet, Chosen
<1> QED BY <1>6, <1>7 DEF f

(* What a batch adds to a counter is what its transactions are charged at  *)
(* their places in the list.                                               *)
LEMMA EmitKeepsCosts ==
  ASSUME Held, RoutesInv, CostsInv, NEW batch, IsSequence(batch), Proper(batch), Emit(batch),
         job' = job
  PROVE  CostsInv'
<1> DEFINE n == Len(tcs)
           m == Len(batch)
           f == [k \in DOMAIN batch |-> Cost(batch[k])]
<1>1. /\ n \in Nat /\ DOMAIN tcs = 1 .. n /\ m \in Nat /\ DOMAIN batch = 1 .. m
      /\ DOMAIN tcs' = 1 .. n + m
      /\ \A i \in 1 .. n : tcs'[i] = tcs[i]
      /\ \A k \in 1 .. m : tcs'[n + k] = batch[k]
  <2>1. IsSequence(tcs)
    BY DEF Held
  <2>2. /\ Len(tcs') = n + m /\ IsSequence(tcs')
        /\ \A i \in 1 .. n : tcs'[i] = tcs[i]
        /\ \A k \in 1 .. m : tcs'[n + k] = batch[k]
    BY <2>1, Joined DEF Emit
  <2> QED BY <2>1, <2>2 DEF IsSequence
<1>2. \A tc : Cost(tc)' = Cost(tc) /\ CostKind(tc)' = CostKind(tc)
  BY DEF Cost, CostKind, Hops, DramPort, GbPort, NumPes
<1>3. DOMAIN CostOf = 1 .. n /\ DOMAIN CostOf' = 1 .. n + m
  BY <1>1 DEF CostOf
<1>4. \A i \in 1 .. n : CostOf'[i] = CostOf[i]
  BY <1>1, <1>2 DEF CostOf
<1>5. \A k \in 1 .. m : CostOf'[n + k] = f[k]
  BY <1>1, <1>2 DEF CostOf
<1>6. costs' = [kind \in CostKinds |->
                  [v \in Tensors |-> costs[kind][v] + Charged(batch, kind, v)]]
  BY DEF Emit
<1>7. ASSUME NEW kind \in CostKinds, NEW v \in Tensors
      PROVE  /\ costs[kind][v] + Charged(batch, kind, v)
                  = SumFunctionOnSet(CostOf', Paid(kind, v)')
             /\ costs[kind][v] + Charged(batch, kind, v) \in Int
  <2> DEFINE P == Paid(kind, v)
             S == {k \in DOMAIN batch : batch[k].label[2] = v /\ CostKind(batch[k]) = kind}
             Q == {n + k : k \in S}
  <2>1. IsFiniteSet(P) /\ P \subseteq 1 .. n
    <3>1. IsFiniteSet(1 .. n) /\ P \in SUBSET (1 .. n)
      BY <1>1, FS_Interval DEF Paid
    <3> QED BY <3>1, FS_Subset
  <2>2. IsFiniteSet(S) /\ S \in SUBSET Nat /\ S \subseteq 1 .. m /\ S \subseteq DOMAIN batch
    <3>1. IsFiniteSet(1 .. m) /\ S \in SUBSET (1 .. m)
      BY <1>1, FS_Interval
    <3> QED BY <1>1, <3>1, FS_Subset
  <2>3. \A i \in P : CostOf[i] \in Nat /\ CostOf'[i] = CostOf[i]
    <3>1. \A i \in P : Wellformed(tcs[i]) /\ CostKind(tcs[i]) = kind /\ i \in 1 .. n
      BY <1>1 DEF RoutesInv, Paid
    <3>2. \A i \in P : Cost(tcs[i]) \in Nat
      BY <3>1, CostIs
    <3> QED BY <1>1, <1>4, <3>1, <3>2 DEF CostOf
  <2>4. \A k \in S : f[k] \in Nat /\ CostOf'[n + k] = f[k]
    <3>1. \A k \in S : Wellformed(batch[k]) /\ CostKind(batch[k]) = kind /\ k \in 1 .. m
      BY <1>1 DEF Proper
    <3>2. \A k \in S : Cost(batch[k]) \in Nat
      BY <3>1, CostIs
    <3> QED BY <1>1, <1>5, <3>1, <3>2
  <2>5. Paid(kind, v)' = P \cup Q
    <3>1. ASSUME NEW i \in Paid(kind, v)' PROVE i \in P \cup Q
      <4>1. i \in 1 .. n + m /\ tcs'[i].label[2] = v /\ CostKind(tcs'[i]) = kind
        BY <1>1, <1>2 DEF Paid
      <4>2. CASE i <= n
        BY <1>1, <4>1, <4>2 DEF Paid
      <4>3. CASE ~ (i <= n)
        <5> DEFINE k == i - n
        <5>1. k \in 1 .. m /\ i = n + k
          BY <1>1, <4>1, <4>3
        <5>2. tcs'[i] = batch[k]
          BY <1>1, <5>1
        <5> HIDE DEF k
        <5>3. k \in S
          BY <1>1, <4>1, <5>1, <5>2
        <5> QED BY <5>1, <5>3
      <4> QED BY <4>2, <4>3
    <3>2. ASSUME NEW i \in P PROVE i \in Paid(kind, v)'
      <4>1. i \in 1 .. n /\ tcs'[i] = tcs[i] /\ i \in 1 .. n + m
        BY <1>1, <2>1
      <4> QED BY <1>1, <1>2, <4>1 DEF Paid
    <3>3. ASSUME NEW k \in S PROVE n + k \in Paid(kind, v)'
      <4>1. k \in 1 .. m /\ n + k \in 1 .. n + m /\ tcs'[n + k] = batch[k]
        BY <1>1
      <4> QED BY <1>1, <1>2, <4>1 DEF Paid
    <3> QED BY <3>1, <3>2, <3>3
  <2>6. P \cap Q = {}
    <3> SUFFICES ASSUME NEW k \in S, n + k \in P PROVE FALSE
      OBVIOUS
    <3>1. k \in 1 .. m /\ n + k \in 1 .. n
      BY <2>1, <2>2
    <3> QED BY <1>1, <3>1
  <2>7. Charged(batch, kind, v) = SumFunctionOnSet(f, S)
    <3>1. Charged(batch, kind, v) = MapThenSumSet(LAMBDA k : Cost(batch[k]), S)
      BY DEF Charged
    <3> HIDE DEF S
    <3> QED BY <2>2, <3>1, ChargedIs
  <2>8. costs[kind][v] = SumFunctionOnSet(CostOf, P)
    BY DEF CostsInv
  <2> HIDE DEF S, f, P
  <2>9. IsFiniteSet(Q) /\ SumFunctionOnSet(CostOf', Q) = SumFunctionOnSet(f, S)
    <3> DEFINE g == CostOf'
    <3>1. n \in Nat /\ \A k \in S : f[k] \in Int /\ g[n + k] = f[k]
      BY <1>1, <2>4
    <3> HIDE DEF g, n
    <3>2. /\ SumFunctionOnSet(g, {n + k : k \in S}) = SumFunctionOnSet(f, S)
          /\ IsFiniteSet({n + k : k \in S})
      BY <2>2, <3>1, SumShift
    <3> QED BY <3>2 DEF g
  <2>10. SumFunctionOnSet(CostOf', P) = SumFunctionOnSet(CostOf, P)
    BY <2>1, <2>3, SumEqual
  <2>11. \A i \in P \cup Q : CostOf'[i] \in Int
    BY <2>3, <2>4
  <2> HIDE DEF Q
  <2>12. SumFunctionOnSet(CostOf', P \cup Q)
           = SumFunctionOnSet(CostOf', P) + SumFunctionOnSet(CostOf', Q)
    BY <2>1, <2>6, <2>9, <2>11, SumUnion
  <2>13. SumFunctionOnSet(CostOf', P) \in Int /\ SumFunctionOnSet(CostOf', Q) \in Int
    BY <2>1, <2>9, <2>11, SumType
  <2> QED BY <2>5, <2>7, <2>8, <2>9, <2>10, <2>12, <2>13
<1> HIDE DEF f, n, m
<1>8. \A kind \in CostKinds : \A v \in Tensors :
        costs'[kind][v] = costs[kind][v] + Charged(batch, kind, v)
  BY <1>6
<1>9. costs' \in [CostKinds -> [Tensors -> Int]]
  BY <1>6, <1>7
<1> QED BY <1>7, <1>8, <1>9 DEF CostsInv

(* Every step charges what it emits.                                       *)
LEMMA StepCharges ==
  ASSUME Held, FiredInv, RoutesInv, CostsInv, [Next]_vars
  PROVE  CostsInv'
<1>1. ASSUME UNCHANGED <<tcs, costs>>, job' = job PROVE CostsInv'
  <2>1. \A tc : Cost(tc)' = Cost(tc) /\ CostKind(tc)' = CostKind(tc)
    BY <1>1 DEF Cost, CostKind, Hops, DramPort, GbPort, NumPes
  <2>2. CostOf' = CostOf
    BY <1>1, <2>1 DEF CostOf
  <2>3. \A kind, v : Paid(kind, v)' = Paid(kind, v)
    BY <1>1, <2>1 DEF Paid
  <2> QED BY <1>1, <2>2, <2>3 DEF CostsInv
<1>2. CASE UNCHANGED vars
  BY <1>1, <1>2 DEF vars
<1>3. CASE Next
  <2>1. PICK batch : /\ Stamped(batch) /\ Proper(batch)
                     /\ Emit(batch) \/ UNCHANGED <<tcs, costs>>
    BY <1>3, StepEmits
  <2>2. job' = job
    BY <1>3, StepGrows
  <2> QED BY <1>1, <2>1, <2>2, EmitKeepsCosts DEF Stamped
<1> QED BY <1>2, <1>3

(* In every reachable state.                                               *)
LEMMA CostsInvariant == Spec => []CostsInv
<1>1. Init => CostsInv
  <2> SUFFICES ASSUME Init PROVE CostsInv
    OBVIOUS
  <2>1. tcs = <<>> /\ costs = [kind \in CostKinds |-> [v \in Tensors |-> 0]]
    BY DEF Init
  <2>2. \A kind, v : Paid(kind, v) = {}
    BY <2>1 DEF Paid
  <2>3. SumFunctionOnSet(CostOf, {}) = 0
    BY SumStep, FS_EmptySet
  <2> QED BY <2>1, <2>2, <2>3 DEF CostsInv
<1>2. Held /\ FiredInv /\ RoutesInv /\ CostsInv /\ [Next]_vars => CostsInv'
  BY StepCharges
<1> QED BY <1>1, <1>2, HeldInvariant, FiredInvariant, RoutesInvariant, PTL DEF Spec

(* The simulator's times are the generator's costs, where both count.      *)
LEMMA TimeIsCost ==
  ASSUME Held, FlagsOK, RoutesInv, NEW i \in 1 .. Len(tcs)
  PROVE  /\ SimP!Duration(FileRows[i]) \in Nat
         /\ SimP!Bucket(FileRows[i]) = "dram" <=> CostKind(tcs[i]) = "dram"
         /\ SimP!Bucket(FileRows[i]) = "multicast" <=> CostKind(tcs[i]) = "multicast"
         /\ CostKind(tcs[i]) \in CostKinds =>
              /\ SimP!Bucket(FileRows[i]) = CostKind(tcs[i])
              /\ SimP!Duration(FileRows[i]) = Cost(tcs[i])
<1> DEFINE tc == tcs[i]
           row == FileRows[i]
<1>1. /\ row = [tc_id |-> i - 1, actor |-> tc.actor, op |-> tc.op,
                size |-> tc.size, dests |-> tc.dests, deps |-> tc.deps]
      /\ row \in SimP!Transactions /\ SimP!Sendable(row)
  BY FileIsOrderly DEF RowsAreOrderly
<1>2. /\ row.actor = tc.actor /\ row.op = tc.op /\ row.size = tc.size
      /\ row.dests = tc.dests
  BY <1>1
<1>3. Wellformed(tc) /\ tc.op \in {"unicast", "multicast", "count"}
  BY <1>1, <1>2 DEF RoutesInv, Held, IsSequence, SimP!Transactions, SimP!Ops
<1> HIDE DEF tc, row
<1>4. /\ CostKind(tc) = "dram" <=> tc.op # "count" /\ (tc.actor = DramPort
           \/ \E k \in 1 .. Len(tc.dests) : tc.dests[k] = DramPort)
      /\ CostKind(tc) = "multicast" <=> tc.op = "multicast"
      /\ CostKind(tc) = "unicast" => tc.op = "unicast"
      /\ CostKind(tc) \in CostKinds => Sends(tc)
  BY <1>3, KindsAre
<1>5. SimP!IsDram(row) <=> CostKind(tc) = "dram"
  BY <1>2, <1>4 DEF SimP!IsDram, SimP!TouchesDram, SimP!Contains, FlagsOK
<1>6. /\ SimP!Bucket(row) = "dram" <=> CostKind(tc) = "dram"
      /\ SimP!Bucket(row) = "multicast" <=> CostKind(tc) = "multicast"
      /\ CostKind(tc) \in CostKinds => SimP!Bucket(row) = CostKind(tc)
  BY <1>2, <1>3, <1>4, <1>5 DEF SimP!Bucket, CostKinds
<1>7. SimP!Duration(row) \in Nat
  BY <1>1, SimTimes
<1>8. ASSUME CostKind(tc) = "dram" PROVE SimP!Duration(row) = Cost(tc)
  <2>1. Cost(tc) = tc.size * DramLatency
    BY <1>3, <1>8, CostIs DEF CostKinds
  <2>2. row.op # "count" /\ SimP!IsDram(row) /\ ~SimP!OnMesh(row)
    BY <1>2, <1>4, <1>5, <1>8 DEF SimP!IsDram, SimP!OnMesh
  <2>3. SimP!Duration(row) = row.size * DramLatency
    BY <2>2 DEF SimP!Duration
  <2> QED BY <1>2, <2>1, <2>3
<1>9. ASSUME CostKind(tc) \in CostKinds, CostKind(tc) # "dram"
      PROVE  SimP!Duration(row) = Cost(tc)
  <2>1. Sends(tc) /\ tc.op # "count"
    BY <1>3, <1>4, <1>9 DEF CostKinds
  <2>2. tc.size \in Nat /\ tc.actor \in Nat /\ tc.dests \in Seq(Nat) \ {<<>>}
    BY <2>1, RoutesHaveEnds DEF Sends
  <2>3. PICK a \in DOMAIN tc.dests :
          /\ Cost(tc) = Hops(tc.actor, tc.dests[a]) + tc.size * FlitsPerPacket
          /\ \A j \in DOMAIN tc.dests :
               Hops(tc.actor, tc.dests[j]) <= Hops(tc.actor, tc.dests[a])
    BY <1>3, <1>9, CostIs
  <2>4. SimP!OnMesh(row)
    BY <1>2, <1>5, <1>9, <2>1 DEF SimP!OnMesh, SimP!IsDram
  <2>5. PICK b \in DOMAIN tc.dests :
          /\ SimP!Duration(row)
               = SimP!Manhattan(tc.actor, tc.dests[b]) + tc.size * SimP!FlitsPerPacket
          /\ tc.op # "unicast" =>
               \A j \in DOMAIN tc.dests :
                 SimP!Manhattan(tc.actor, tc.dests[j])
                   <= SimP!Manhattan(tc.actor, tc.dests[b])
          /\ tc.op = "unicast" => b = 1
    BY <1>1, <1>2, <2>2, <2>4, SimTimes
  <2>6. \A x, y : SimP!Manhattan(x, y) = Hops(x, y)
    BY DEF SimP!Manhattan, SimP!Gap, SimP!Col, SimP!Row, Hops, Distance, FlagsOK
  <2>7. Hops(tc.actor, tc.dests[a]) = Hops(tc.actor, tc.dests[b])
    <3>1. CASE tc.op = "unicast"
      <4>1. Len(tc.dests) = 1
        BY <2>1, <3>1 DEF Sends
      <4>2. a = b
        BY <2>2, <2>3, <2>5, <3>1, <4>1
      <4> QED BY <4>2
    <3>2. CASE tc.op # "unicast"
      <4> DEFINE p == Hops(tc.actor, tc.dests[a])
                 q == Hops(tc.actor, tc.dests[b])
      <4>1. p <= q /\ q <= p
        BY <2>3, <2>5, <2>6, <3>2
      <4>2. p \in Nat /\ q \in Nat
        <5>1. tc.dests[a] \in Nat /\ tc.dests[b] \in Nat
          BY <2>2, <2>3, <2>5
        <5> QED BY <2>2, <5>1, HopsType
      <4> HIDE DEF p, q
      <4>3. p = q
        BY <4>1, <4>2
      <4> QED BY <4>3 DEF p, q
    <3> QED BY <3>1, <3>2
  <2> QED BY <2>3, <2>5, <2>6, <2>7 DEF FlitsPerPacket, SimP!FlitsPerPacket
<1> QED BY <1>6, <1>7, <1>8, <1>9 DEF tc, row

(* Both modules sum alike.                                                 *)
LEMMA SumsAreSums ==
  \A f, S : SimP!SumFunctionOnSet(f, S) = SumFunctionOnSet(f, S)
  BY DEF SumFunctionOnSet, SimP!SumFunctionOnSet, FoldFunctionOnSet, SimP!FoldFunctionOnSet,
         MapThenFoldSet, SimP!MapThenFoldSet

(* A counter of the generator, all tensors together.                       *)
LEMMA AllTensors ==
  ASSUME Held, RoutesInv, CostsInv, NEW kind \in CostKinds
  PROVE  LET S == {i \in DOMAIN tcs : CostKind(tcs[i]) = kind}
         IN  /\ IsFiniteSet(S) /\ \A i \in S : CostOf[i] \in Nat
             /\ SumFunction(costs[kind]) = SumFunctionOnSet(CostOf, S)
<1> DEFINE S == {i \in DOMAIN tcs : CostKind(tcs[i]) = kind}
           W == Paid(kind, "weight")
           P == Paid(kind, "psum")
           V == Paid(kind, "vmem")
           g == costs[kind]
<1>1. IsFiniteSet(S)
  <2>1. DOMAIN tcs = 1 .. Len(tcs) /\ Len(tcs) \in Nat
    BY DEF Held, IsSequence
  <2>2. IsFiniteSet(DOMAIN tcs)
    BY <2>1, FS_Interval
  <2>3. S \in SUBSET DOMAIN tcs
    OBVIOUS
  <2> QED BY <2>2, <2>3, FS_Subset
<1>2. \A i \in S : CostOf[i] \in Nat
  BY CostIs DEF RoutesInv, CostOf
<1>3. S = W \cup (P \cup V) /\ W \cap (P \cup V) = {} /\ P \cap V = {}
  <2>1. ASSUME NEW i \in S PROVE tcs[i].label[2] \in Tensors
    <3>1. Wellformed(tcs[i]) /\ CostKind(tcs[i]) \in CostKinds
      BY DEF RoutesInv
    <3> QED BY <3>1, KindsAre DEF Sends
  <2> QED BY <2>1 DEF Paid, Tensors
<1>4. /\ g \in [Tensors -> Int]
      /\ g["weight"] = SumFunctionOnSet(CostOf, W)
      /\ g["psum"] = SumFunctionOnSet(CostOf, P)
      /\ g["vmem"] = SumFunctionOnSet(CostOf, V)
  BY DEF CostsInv, Tensors
<1>5. SumFunction(g) = SumFunctionOnSet(g, Tensors)
  BY <1>4 DEF SumFunction
<1> HIDE DEF S, W, P, V, g
<1>6. SumFunctionOnSet(g, Tensors) = g["weight"] + (g["psum"] + (g["vmem"] + 0))
  <2>1. SumFunctionOnSet(g, {}) = 0
    BY SumStep, FS_EmptySet
  <2>2. SumFunctionOnSet(g, {} \cup {"vmem"}) = g["vmem"] + 0
    <3>1. IsFiniteSet({}) /\ "vmem" \notin {}
      BY FS_EmptySet
    <3>2. \A y \in {} \cup {"vmem"} : g[y] \in Int
      BY <1>4 DEF Tensors
    <3>3. SumFunctionOnSet(g, {} \cup {"vmem"}) = g["vmem"] + SumFunctionOnSet(g, {})
      BY <3>1, <3>2, SumAdd
    <3> QED BY <2>1, <3>3
  <2>3. SumFunctionOnSet(g, {"vmem"} \cup {"psum"})
          = g["psum"] + SumFunctionOnSet(g, {"vmem"})
    <3>1. IsFiniteSet({"vmem"}) /\ "psum" \notin {"vmem"}
      BY FS_Singleton
    <3>2. \A y \in {"vmem"} \cup {"psum"} : g[y] \in Int
      BY <1>4 DEF Tensors
    <3> QED BY <3>1, <3>2, SumAdd
  <2>4. SumFunctionOnSet(g, {"vmem", "psum"} \cup {"weight"})
          = g["weight"] + SumFunctionOnSet(g, {"vmem", "psum"})
    <3>1. IsFiniteSet({"vmem", "psum"}) /\ "weight" \notin {"vmem", "psum"}
      <4>1. IsFiniteSet({"vmem"}) /\ IsFiniteSet({"psum"})
        BY FS_Singleton
      <4>2. IsFiniteSet({"vmem"} \cup {"psum"})
        BY <4>1, FS_Union
      <4>3. {"vmem"} \cup {"psum"} = {"vmem", "psum"}
        OBVIOUS
      <4> QED BY <4>2, <4>3
    <3>2. \A y \in {"vmem", "psum"} \cup {"weight"} : g[y] \in Int
      BY <1>4 DEF Tensors
    <3> QED BY <3>1, <3>2, SumAdd
  <2>5. /\ {} \cup {"vmem"} = {"vmem"} /\ {"vmem"} \cup {"psum"} = {"vmem", "psum"}
        /\ {"vmem", "psum"} \cup {"weight"} = Tensors
    BY DEF Tensors
  <2> QED BY <2>2, <2>3, <2>4, <2>5
<1>7. /\ IsFiniteSet(W) /\ IsFiniteSet(P) /\ IsFiniteSet(V) /\ IsFiniteSet(P \cup V)
      /\ \A i \in W \cup (P \cup V) : CostOf[i] \in Int
  <2>1. W \in SUBSET S /\ P \in SUBSET S /\ V \in SUBSET S /\ (P \cup V) \in SUBSET S
    BY <1>3
  <2> QED BY <1>1, <1>2, <1>3, <2>1, FS_Subset
<1>8. SumFunctionOnSet(CostOf, P \cup V)
        = SumFunctionOnSet(CostOf, P) + SumFunctionOnSet(CostOf, V)
  <2>1. \A i \in P \cup V : CostOf[i] \in Int
    BY <1>7
  <2> QED BY <1>3, <1>7, <2>1, SumUnion
<1>9. SumFunctionOnSet(CostOf, W \cup (P \cup V))
        = SumFunctionOnSet(CostOf, W) + SumFunctionOnSet(CostOf, P \cup V)
  BY <1>3, <1>7, SumUnion
<1>10. g["weight"] \in Int /\ g["psum"] \in Int /\ g["vmem"] \in Int
  BY <1>4 DEF Tensors
<1>11. SumFunction(g) = SumFunctionOnSet(CostOf, S)
  BY <1>3, <1>4, <1>5, <1>6, <1>8, <1>9, <1>10
<1> QED BY <1>1, <1>2, <1>11 DEF S, g

(* The simulator's counters are sums of its times throughout.              *)
LEMMA BucketsStart == LayerInit => SimP!BucketInv
<1> SUFFICES ASSUME LayerInit PROVE SimP!BucketInv
  OBVIOUS
<1>1. /\ simPc = "load" /\ DOMAIN placed = {}
      /\ cycles = [b \in SimP!Buckets |-> 0]
  BY DEF LayerInit, Sim!Init, Sim!Buckets, SimP!Buckets
<1>2. \A b : SimP!InBucket(b) = {}
  BY <1>1 DEF SimP!InBucket
<1>3. SimP!SumFunctionOnSet(SimP!Durations, {}) = 0
  BY SumsAreSums, SumStep, FS_EmptySet
<1> QED BY <1>1, <1>2, <1>3 DEF SimP!BucketInv

(* Writing the file comes before anything is counted.                      *)
LEMMA WriteKeepsBuckets ==
  ASSUME LayerInv, SimP!BucketInv, WriteFile
  PROVE  SimP!BucketInv'
<1>1. /\ simPc = "load" /\ DOMAIN placed = {}
      /\ simPc' = simPc /\ placed' = placed /\ cycles' = cycles
  BY DEF WriteFile, LayerInv, simVars, SimP!LoopInv, SimP!Untouched
<1>2. \A b : SimP!InBucket(b) = {} /\ SimP!InBucket(b)' = {}
  BY <1>1 DEF SimP!InBucket
<1>3. \A f : SimP!SumFunctionOnSet(f, {}) = 0
  BY SumsAreSums, SumStep, FS_EmptySet
<1>4. \A b \in SimP!Buckets : cycles[b] = 0 /\ cycles'[b] = 0
  BY <1>1, <1>2, <1>3 DEF SimP!BucketInv
<1>5. \A b \in SimP!Buckets :
        cycles'[b] = SimP!SumFunctionOnSet(SimP!Durations', SimP!InBucket(b)')
  BY <1>2, <1>3, <1>4
<1>6. cycles' \in [SimP!Buckets -> Nat]
  BY <1>1 DEF SimP!BucketInv
<1> QED BY <1>1, <1>5, <1>6 DEF SimP!BucketInv

(* The simulator counts what it dispatches, and nothing else touches its   *)
(* counters.                                                               *)
LEMMA BucketsFollow ==
  ASSUME LayerInv, SimP!BucketInv, [LayerNext]_layerVars
  PROVE  SimP!BucketInv'
<1>1. CASE WriteFile
  BY <1>1, WriteKeepsBuckets
<1>2. CASE Generate \/ Simulate \/ UNCHANGED layerVars
  <2>1. [SimP!Next]_(SimP!vars)
    BY <1>2, SimIsSimP DEF Generate, Simulate, layerVars, simVars, SimP!vars
  <2> QED BY <2>1, SimBuckets DEF LayerInv
<1> QED BY <1>1, <1>2 DEF LayerNext

(* All that the costs rest on, together.                                   *)
LEMMA CountersInvariant ==
  LayerSpec => [](Held /\ FlagsOK /\ RoutesInv /\ CostsInv /\ LayerInv /\ SimP!BucketInv)
<1>1. LayerInv /\ SimP!BucketInv /\ [LayerNext]_layerVars => SimP!BucketInv'
  BY BucketsFollow
<1>2. LayerInv => FlagsOK
  BY DEF LayerInv
<1> QED BY <1>1, <1>2, BucketsStart, LayerGenerates, LayerInvariant, CostsInvariant, PTL
        DEF LayerSpec

(* When all has been sent, the counters of both programs sum over the same *)
(* transactions.                                                           *)
LEMMA CountersMeet ==
  ASSUME Held, RoutesInv, CostsInv, LayerInv, SimP!BucketInv, simPc = "done",
         NEW kind \in CostKinds
  PROVE  /\ cycles[kind] >= SumFunction(costs[kind])
         /\ kind # "unicast" => cycles[kind] = SumFunction(costs[kind])
<1> DEFINE S == {i \in DOMAIN tcs : CostKind(tcs[i]) = kind}
           T == SimP!InBucket(kind)
           D == SimP!Durations
<1>1. /\ FlagsOK /\ file = FileRows
      /\ DOMAIN tcs = 1 .. Len(tcs) /\ Len(tcs) \in Nat
  BY DEF LayerInv, Held, IsSequence
<1>2. DOMAIN file = DOMAIN tcs /\ DOMAIN placed = DOMAIN tcs
  BY <1>1 DEF FileRows, SimP!BucketInv
<1>3. \A i \in DOMAIN tcs :
        /\ D[i] = SimP!Duration(FileRows[i])
        /\ i \in T <=> SimP!Bucket(FileRows[i]) = kind
  BY <1>1, <1>2 DEF SimP!Durations, SimP!InBucket
<1>4. \A i \in DOMAIN tcs :
        /\ D[i] \in Nat
        /\ i \in S => i \in T /\ D[i] = CostOf[i]
        /\ kind # "unicast" => (i \in T <=> i \in S)
  <2> SUFFICES ASSUME NEW i \in DOMAIN tcs
               PROVE  /\ D[i] \in Nat
                      /\ i \in S => i \in T /\ D[i] = CostOf[i]
                      /\ kind # "unicast" => (i \in T <=> i \in S)
    OBVIOUS
  <2>1. CostOf[i] = Cost(tcs[i])
    BY DEF CostOf
  <2>2. /\ SimP!Duration(FileRows[i]) \in Nat
        /\ SimP!Bucket(FileRows[i]) = "dram" <=> CostKind(tcs[i]) = "dram"
        /\ SimP!Bucket(FileRows[i]) = "multicast" <=> CostKind(tcs[i]) = "multicast"
        /\ CostKind(tcs[i]) \in CostKinds =>
             /\ SimP!Bucket(FileRows[i]) = CostKind(tcs[i])
             /\ SimP!Duration(FileRows[i]) = Cost(tcs[i])
    BY <1>1, TimeIsCost
  <2>3. kind # "unicast" => kind \in {"dram", "multicast"}
    BY DEF CostKinds
  <2>4. D[i] = SimP!Duration(FileRows[i]) /\ (i \in T <=> SimP!Bucket(FileRows[i]) = kind)
    BY <1>3
  <2>5. i \in S <=> CostKind(tcs[i]) = kind
    OBVIOUS
  <2> HIDE DEF S, T, D
  <2> QED BY <2>1, <2>2, <2>3, <2>4, <2>5
<1>5. T \subseteq DOMAIN tcs
  BY <1>2 DEF SimP!InBucket
<1>6. cycles[kind] = SumFunctionOnSet(D, T)
  <2>1. kind \in SimP!Buckets
    BY DEF CostKinds, SimP!Buckets
  <2> QED BY <2>1, SumsAreSums DEF SimP!BucketInv
<1>7. SumFunction(costs[kind]) = SumFunctionOnSet(CostOf, S) /\ IsFiniteSet(S)
  BY AllTensors
<1> HIDE DEF S, T, D
<1>8. IsFiniteSet(T)
  <2>1. IsFiniteSet(DOMAIN tcs)
    BY <1>1, FS_Interval
  <2> QED BY <1>5, <2>1, FS_Subset
<1>9. S \in SUBSET T /\ \A i \in S : D[i] = CostOf[i]
  BY <1>4 DEF S
<1>10. SumFunctionOnSet(D, S) = SumFunctionOnSet(CostOf, S)
  BY <1>7, <1>9, SumEqual
<1>11. SumFunctionOnSet(D, S) <= SumFunctionOnSet(D, T)
  <2>1. \A i \in T : D[i] \in Nat
    BY <1>4, <1>5
  <2> QED BY <1>8, <1>9, <2>1, SumOfPart
<1>12. kind # "unicast" => S = T
  BY <1>4, <1>5, <1>9
<1>13. SumFunctionOnSet(D, S) \in Int /\ SumFunctionOnSet(D, T) \in Int
  <2>1. (\A i \in T : D[i] \in Int) /\ (\A i \in S : D[i] \in Int)
    BY <1>4, <1>5, <1>9
  <2> QED BY <1>7, <1>8, <2>1, SumType
<1> QED BY <1>6, <1>7, <1>10, <1>11, <1>12, <1>13

(* The two programs price the same traffic, whatever the layer: the        *)
(* simulator's DRAM and multicast cycles are the generator's costs, and    *)
(* its unicast cycles are at least the generator's.                        *)
THEOREM CostsAgreeCorrect == LayerSpec => []CostsAgree
<1>1. Held /\ FlagsOK /\ RoutesInv /\ CostsInv /\ LayerInv /\ SimP!BucketInv => CostsAgree
  BY CountersMeet DEF CostsAgree, CostKinds
<1> QED BY <1>1, CountersInvariant, PTL

-----------------------------------------------------------------------------
(* The layer's tensors lie on the mesh as BufSpatial places them.          *)

PlacedBy(j, sp) ==
  /\ j.columns = Columns(sp) /\ j.rows = Rows(sp)
  /\ j.weightGroups = WeightGroups(sp)
  /\ j.chains["psum"] = KChains(sp) /\ j.chains["vmem"] = TChains(sp)

(* Any placement has the groups and chains that CombineAssumption asks     *)
(* for: lists of PEs, weights that reach every PE, a chain of each kind.   *)
LEMMA PlacementIsAssumed ==
  ASSUME NEW j, NEW sp \in Spatials, PlacedBy(j, sp)
  PROVE  /\ j.weightGroups \in Groups(j)
         /\ PesOf(j) \subseteq UNION {ToSet(g) : g \in ToSet(j.weightGroups)}
         /\ \A v \in Results : j.chains[v] \in Groups(j) \ {<<>>}
<1>1. PesOf(j) = Pes(sp)
  BY MeshIs DEF PlacedBy, PesOf
<1>2. WeightDims \in SUBSET Dims /\ PsumDims \in SUBSET Dims /\ VmemDims \in SUBSET Dims
  BY DEF WeightDims, PsumDims, VmemDims, ReductionDims, Dims
<1>3. Pes(sp) \in SUBSET Nat /\ IsFiniteSet(Pes(sp)) /\ 0 \in Pes(sp)
  <2>1. Steps(PeLoops(sp)) \in Nat \ {0}
    BY PeLoopsAre, StepsAre
  <2>2. 0 \in Int /\ Steps(PeLoops(sp)) - 1 \in Int
    BY <2>1
  <2>3. IsFiniteSet(0 .. Steps(PeLoops(sp)) - 1)
    BY <2>2, FS_Interval
  <2> QED BY <2>1, <2>3 DEF Pes
<1>4. KMaxPes(sp) \in SUBSET Pes(sp)
  BY DEF KMaxPes
<1>5. KMaxPes(sp) \in SUBSET Nat /\ IsFiniteSet(KMaxPes(sp))
  BY <1>3, <1>4, FS_Subset
<1>6. /\ WeightGroups(sp) = AddressGroups(sp, Pes(sp), WeightDims)
      /\ KChains(sp) = AddressGroups(sp, Pes(sp), PsumDims)
      /\ TChains(sp) = AddressGroups(sp, KMaxPes(sp), VmemDims)
  BY DEF WeightGroups, KChains, TChains
<1> DEFINE P == Pes(sp)
           top == KMaxPes(sp)
           W == WeightGroups(sp)
           K == KChains(sp)
           T == TChains(sp)
<1> HIDE DEF P, top, W, K, T
<1>7. W \in Seq(Seq(P) \ {<<>>}) /\ Splits(W, P)
  BY <1>2, <1>3, <1>6, GroupsSplit DEF P, W
<1>8. K \in Seq(Seq(P) \ {<<>>}) /\ Splits(K, P)
  BY <1>2, <1>3, <1>6, GroupsSplit DEF P, K
<1>9. T \in Seq(Seq(P) \ {<<>>})
  <2>1. T \in Seq(Seq(top) \ {<<>>})
    BY <1>2, <1>5, <1>6, GroupsSplit DEF top, T
  <2>2. top \subseteq P
    BY <1>4 DEF P, top
  <2>3. Seq(top) \ {<<>>} \subseteq Seq(P) \ {<<>>}
    BY <2>2
  <2>4. \A A, B : A \subseteq B => Seq(A) \subseteq Seq(B)
    OBVIOUS
  <2> QED BY <2>1, <2>3, <2>4
<1>10. K # <<>>
  <2>1. PICK c \in ToSet(K) : 0 \in ToSet(c)
    BY <1>3, <1>8 DEF Splits, P
  <2> QED BY <2>1 DEF ToSet
<1>11. T # <<>>
  <2>1. PICK c : c \in ToSet(K)
    BY <1>3, <1>8 DEF Splits, P
  <2>2. {Last(d) : d \in ToSet(K)} = UNION {ToSet(d) : d \in ToSet(T)}
    BY PlacementFollowsTheMesh DEF K, T
  <2>3. Last(c) \in UNION {ToSet(d) : d \in ToSet(T)}
    BY <2>1, <2>2
  <2>4. PICK d : d \in ToSet(T)
    BY <2>3
  <2> QED BY <2>4 DEF ToSet
<1>12. /\ Groups(j) = Seq(Seq(P) \ {<<>>}) /\ PesOf(j) = P
       /\ j.weightGroups = W /\ j.chains["psum"] = K /\ j.chains["vmem"] = T
  BY <1>1 DEF PlacedBy, Groups, P, W, K, T
<1>13. P \subseteq UNION {ToSet(g) : g \in ToSet(W)}
  BY <1>7 DEF Splits
<1> QED BY <1>7, <1>8, <1>9, <1>10, <1>11, <1>12, <1>13 DEF Results

(* No message goes where there is no way for it.                           *)
LEMMA RoutesBypass ==
  ASSUME Held, RoutesInv
  PROVE  SingleNodeBypassesTheBuffer
<1>1. PeNumbers \subseteq Nat /\ GbPort \in Nat /\ DramPort \in Nat
  BY PortsAreNumbers
<1>2. GbPort \notin PeNumbers /\ DramPort \notin PeNumbers /\ GbPort # DramPort
  BY <1>1, PortsAreNumbers DEF PeNumbers
<1> SUFFICES ASSUME NEW i \in DOMAIN tcs
             PROVE  LET ports == {tcs[i].actor} \cup ToSet(tcs[i].dests)
                    IN  IF job.single THEN GbPort \notin ports
                                      ELSE DramPort \in ports => ports = {DramPort, GbPort}
  BY DEF SingleNodeBypassesTheBuffer
<1> DEFINE src == tcs[i].actor
           dests == tcs[i].dests
<1>3. \A port : ToSet(<<port>>) = {port}
  BY DEF ToSet
<1>4. ToSet(<<>>) = {}
  BY DEF ToSet
<1>5. \A q \in Seq(PeNumbers) : ToSet(q) \subseteq PeNumbers
  BY DEF ToSet
<1>6. /\ Wellformed(tcs[i])
      /\ OuterPort = IF job.single THEN DramPort ELSE GbPort
  BY DEF RoutesInv, OuterPort
<1> HIDE DEF src, dests
<1>7. CASE src = OuterPort /\ dests \in Seq(PeNumbers)
  BY <1>2, <1>5, <1>6, <1>7 DEF src, dests
<1>8. CASE src \in PeNumbers /\ \E pe \in PeNumbers : dests = <<pe>>
  <2>1. PICK pe \in PeNumbers : dests = <<pe>>
    BY <1>8
  <2>2. ToSet(dests) = {pe}
    BY <1>3, <2>1
  <2> QED BY <1>2, <1>8, <2>1, <2>2 DEF src, dests
<1>9. CASE src \in PeNumbers /\ dests = <<OuterPort>>
  BY <1>2, <1>3, <1>6, <1>9 DEF src, dests
<1>10. CASE ~job.single /\ src = DramPort /\ dests = <<GbPort>>
  BY <1>3, <1>10 DEF src, dests
<1>11. CASE ~job.single /\ src = GbPort /\ dests = <<DramPort>>
  BY <1>3, <1>11 DEF src, dests
<1>12. CASE src \in PeNumbers /\ dests = <<>>
  BY <1>2, <1>4, <1>12 DEF src, dests
<1>13. \/ HasRoute(src, dests)
       \/ src \in PeNumbers /\ dests = <<>>
  BY <1>6 DEF Wellformed, Sends, Computes, src, dests
<1>14. \/ src = OuterPort /\ dests \in Seq(PeNumbers)
       \/ src \in PeNumbers /\ \E pe \in PeNumbers : dests = <<pe>>
       \/ src \in PeNumbers /\ dests = <<OuterPort>>
       \/ ~job.single /\ src = DramPort /\ dests = <<GbPort>>
       \/ ~job.single /\ src = GbPort /\ dests = <<DramPort>>
       \/ src \in PeNumbers /\ dests = <<>>
  BY <1>13 DEF HasRoute
<1> QED BY <1>7, <1>8, <1>9, <1>10, <1>11, <1>12, <1>14

(* So the chains of a layer placed as BufSpatial does follow its mesh.     *)
LEMMA PlacedOnTheMesh ==
  ASSUME NEW sp \in Spatials, PlacedBy(job, sp)
  PROVE  ChainsFollowTheMesh
<1>1. /\ job.columns = Columns(sp) /\ job.rows = Rows(sp)
      /\ job.chains["psum"] = KChains(sp) /\ job.chains["vmem"] = TChains(sp)
  BY DEF PlacedBy
<1>2. NumPes = Columns(sp) * Rows(sp)
  BY <1>1 DEF NumPes
<1> QED BY <1>1, <1>2, PlacementFollowsTheMesh DEF ChainsFollowTheMesh

(* For every layer that is placed on the mesh as BufSpatial does, over     *)
(* whatever number of PEs each dimension is spread, no transfer needs a    *)
(* way that the machine does not have.                                     *)
THEOREM TrafficCorrect ==
  ASSUME \A j \in Jobs : \E sp \in Spatials : PlacedBy(j, sp)
  PROVE  Spec => []TrafficFollowsTheMachine
<1>1. Held /\ RoutesInv => TrafficFollowsTheMachine
  <2> SUFFICES ASSUME Held, RoutesInv PROVE TrafficFollowsTheMachine
    OBVIOUS
  <2>1. PICK sp \in Spatials : PlacedBy(job, sp)
    BY DEF Held
  <2> QED BY <2>1, RoutesBypass, PlacedOnTheMesh DEF TrafficFollowsTheMachine
<1> QED BY <1>1, HeldInvariant, RoutesInvariant, PTL
=============================================================================
