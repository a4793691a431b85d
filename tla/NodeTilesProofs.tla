-------------------------- MODULE NodeTilesProofs --------------------------
(***************************************************************************)
(* Proofs about the mapping and the tiles made of it, for every layer, any *)
(* machine and every mapping its constraints admit: the nest that is       *)
(* written to the strategy file and read back goes through the same        *)
(* indices as the one the solver decided on, in the same order; in all     *)
(* modes but one it spares DRAM what the mode asks to be spared; and its   *)
(* tiles divide the layer, are as wide as the solver made them and mark    *)
(* the last visit of an output.                                            *)
(***************************************************************************)
EXTENDS NodeTilesProps, NestLemmas

-----------------------------------------------------------------------------
(* What a fold over a sequence has after each of its elements.             *)

LEMMA UpTo ==
  ASSUME NEW n \in Nat, NEW S, 0 \in S, \A k \in 1 .. n : k - 1 \in S => k \in S
  PROVE  \A k \in 0 .. n : k \in S
<1> DEFINE F == (0 .. n) \ S
<1> SUFFICES ASSUME F # {} PROVE FALSE
  OBVIOUS
<1>1. PICK k \in F : \A j \in F : k <= j
  <2>1. F \subseteq Nat
    OBVIOUS
  <2> HIDE DEF F
  <2> QED BY <2>1, LeastExists
<1>2. k \in 1 .. n /\ k - 1 \in 0 .. n /\ ~(k <= k - 1)
  OBVIOUS
<1>3. k - 1 \in S
  BY <1>1, <1>2
<1> QED BY <1>2, <1>3

(* The numbers up to k have k as their last.                               *)
LEMMA PrefixMax ==
  ASSUME NEW n \in Nat, NEW k \in 1 .. n
  PROVE  /\ 1 .. k \in SUBSET (1 .. n) /\ 1 .. k # {}
         /\ Max(1 .. k) = k /\ (1 .. k) \ {k} = 1 .. k - 1
<1>1. 1 .. k \in SUBSET (1 .. n) /\ k \in Nat /\ k \in 1 .. k /\ (1 .. k) \ {k} = 1 .. k - 1
  OBVIOUS
<1>2. Max(1 .. k) \in 1 .. k /\ \A i \in 1 .. k : Max(1 .. k) >= i
  BY <1>1, GreatestExists
<1>3. PICK m \in 1 .. k : m = Max(1 .. k) /\ m >= k
  BY <1>1, <1>2
<1> QED BY <1>1, <1>3

(* The table a fold is looked up in, for a step F on pairs of a result so  *)
(* far and a position.                                                     *)
IsFold(it, F, b, n) ==
  it = [s \in SUBSET (1 .. n) |-> IF s = {} THEN b ELSE F[<<it[s \ {Max(s)}], Max(s)>>]]

(* A fold over the numbers up to n exists.                                 *)
LEMMA FoldExists ==
  ASSUME NEW n \in Nat, NEW A, NEW b \in A, NEW F, \A a \in A, i \in 1 .. n : F[<<a, i>>] \in A
  PROVE  \E it \in [SUBSET (1 .. n) -> A] : IsFold(it, F, b, n)
<1> DEFINE G == {k \in Nat : k <= n => \E it \in [SUBSET (1 .. k) -> A] : IsFold(it, F, b, k)}
<1>1. 0 \in G
  <2>1. SUBSET (1 .. 0) = {{}}
    OBVIOUS
  <2>2. IsFold([s \in SUBSET (1 .. 0) |-> b], F, b, 0)
    BY <2>1 DEF IsFold
  <2> QED BY <2>2
<1>2. ASSUME NEW k \in 1 .. n, k - 1 \in G PROVE k \in G
  <2>1. k \in Nat /\ k - 1 \in Nat /\ k - 1 <= n
    BY <1>2
  <2>2. PICK h \in [SUBSET (1 .. k - 1) -> A] : IsFold(h, F, b, k - 1)
    BY <1>2, <2>1
  <2> DEFINE it == [s \in SUBSET (1 .. k) |->
                      IF s = {} THEN b
                      ELSE IF k \in s THEN F[<<h[s \ {k}], k>>] ELSE h[s]]
  <2>3. h[{}] = b /\ \A s \in SUBSET (1 .. k - 1) :
          s # {} => h[s] = F[<<h[s \ {Max(s)}], Max(s)>>]
    BY <2>2 DEF IsFold
  <2>4. ASSUME NEW s \in SUBSET (1 .. k), s # {}
        PROVE  it[s] \in A /\ it[s] = F[<<it[s \ {Max(s)}], Max(s)>>]
    <3>1. Max(s) \in s /\ \A i \in s : Max(s) >= i
      BY <2>1, <2>4, GreatestExists
    <3>2. CASE k \in s
      <4>1. Max(s) = k
        <5>1. Max(s) >= k /\ Max(s) \in 1 .. k
          BY <3>1, <3>2
        <5> QED BY <2>1, <5>1
      <4>2. s \ {k} \in SUBSET (1 .. k - 1) /\ s \ {k} \in SUBSET (1 .. k) /\ k \notin s \ {k}
        BY <2>1
      <4>3. h[s \ {k}] = it[s \ {k}] /\ h[s \ {k}] \in A
        BY <2>3, <4>2
      <4>4. it[s] = F[<<h[s \ {k}], k>>]
        BY <2>4, <3>2
      <4>5. F[<<h[s \ {k}], k>>] \in A
        BY <4>3
      <4> QED BY <4>1, <4>3, <4>4, <4>5
    <3>3. CASE k \notin s
      <4>1. s \in SUBSET (1 .. k - 1)
        BY <2>1, <3>3
      <4>2. h[s] = F[<<h[s \ {Max(s)}], Max(s)>>]
        BY <2>3, <2>4, <4>1
      <4>3. it[s] = h[s] /\ h[s] \in A
        BY <2>4, <3>3, <4>1
      <4> DEFINE r == s \ {Max(s)}
      <4>4. r \in SUBSET (1 .. k) /\ r \in SUBSET (1 .. k - 1) /\ k \notin r
        BY <3>3, <4>1
      <4>5. it[r] = h[r]
        <5> HIDE DEF r
        <5> QED BY <2>3, <4>4
      <4> QED BY <4>2, <4>3, <4>5
    <3> QED BY <3>2, <3>3
  <2>5. it[{}] = b /\ it = [s \in SUBSET (1 .. k) |-> it[s]]
    OBVIOUS
  <2>6. it \in [SUBSET (1 .. k) -> A] /\ IsFold(it, F, b, k)
    <3> HIDE DEF it
    <3>1. \A s \in SUBSET (1 .. k) :
            it[s] \in A /\ it[s] = IF s = {} THEN b ELSE F[<<it[s \ {Max(s)}], Max(s)>>]
      BY <2>4, <2>5
    <3> QED BY <2>5, <3>1 DEF IsFold
  <2> QED BY <2>1, <2>6
<1>3. n \in 0 .. n /\ \A k \in 0 .. n : k \in G
  <2> HIDE DEF G
  <2> QED BY <1>1, <1>2, UpTo
<1>4. n \in G
  <2> HIDE DEF G
  <2> QED BY <1>3
<1>5. n <= n
  OBVIOUS
<1> QED BY ONLY <1>4, <1>5

(* acc has the results of the fold, from the first b on.                   *)
Accumulates(acc, A, F, b, n) ==
  /\ acc \in [0 .. n -> A] /\ acc[0] = b
  /\ \A k \in 1 .. n : acc[k] = F[<<acc[k - 1], k>>]

(* They are in any table c that steps like F where the result so far is    *)
(* in A.                                                                   *)
LEMMA FoldSteps ==
  ASSUME NEW n \in Nat, NEW A, NEW b \in A, NEW F, \A a \in A, i \in 1 .. n : F[<<a, i>>] \in A,
         NEW c, c[{}] = b,
         \A s \in SUBSET (1 .. n) :
           s # {} /\ c[s \ {Max(s)}] \in A => c[s] = F[<<c[s \ {Max(s)}], Max(s)>>]
  PROVE  Accumulates([k \in 0 .. n |-> c[1 .. k]], A, F, b, n)
<1> DEFINE G == {k \in Nat : c[1 .. k] \in A}
<1>1. c[1 .. 0] = b
  <2>1. 1 .. 0 = {}
    OBVIOUS
  <2> QED BY <2>1
<1>2. ASSUME NEW k \in 1 .. n, c[1 .. k - 1] \in A
      PROVE  c[1 .. k] = F[<<c[1 .. k - 1], k>>]
  <2>1. /\ 1 .. k \in SUBSET (1 .. n) /\ 1 .. k # {}
        /\ Max(1 .. k) = k /\ (1 .. k) \ {k} = 1 .. k - 1
    BY PrefixMax
  <2> QED BY <1>2, <2>1
<1>3. \A k \in 0 .. n : k \in G
  <2>1. 0 \in G
    BY <1>1
  <2>2. ASSUME NEW k \in 1 .. n, k - 1 \in G PROVE k \in G
    <3>1. PICK a \in A : a = c[1 .. k - 1]
      BY <2>2
    <3>2. c[1 .. k] = F[<<a, k>>] /\ F[<<a, k>>] \in A
      BY <1>2, <3>1
    <3> QED BY <3>2
  <2> HIDE DEF G
  <2> QED BY <2>1, <2>2, UpTo
<1>4. \A k \in 1 .. n : k - 1 \in 0 .. n /\ k \in 0 .. n
  OBVIOUS
<1>5. 0 \in 0 .. n
  OBVIOUS
<1> QED BY <1>1, <1>2, <1>3, <1>4, <1>5 DEF Accumulates

-----------------------------------------------------------------------------
(* The folds that a mapping is written and read with.                      *)

Slot    == [dim : Dims, factor : Nat \ {0}, n : Nat, kind : {"space", "time"}]
Segments == Seq([dim : Dims, size : Nat \ {0}])

ChosenSlots(slots, kind) ==
  [z \in Seq(Slot) \X DOMAIN slots |->
     IF slots[z[2]].kind = kind THEN Append(z[1], slots[z[2]]) ELSE z[1]]

(* The slots of a kind, as they are picked out one by one.                 *)
LEMMA OverIs ==
  ASSUME NEW slots \in Seq(Slot), NEW kind
  PROVE  \E acc : /\ Accumulates(acc, Seq(Slot), ChosenSlots(slots, kind), <<>>, Len(slots))
                  /\ acc[Len(slots)] = Over(slots, kind)
<1> DEFINE n == Len(slots)
           F == ChosenSlots(slots, kind)
           A == Seq(Slot)
           T(h) == h = [s \in SUBSET (DOMAIN slots) |->
                          IF s = {} THEN <<>>
                          ELSE IF slots[Max(s)].kind = kind
                               THEN Append(h[s \ {Max(s)}], slots[Max(s)])
                               ELSE h[s \ {Max(s)}]]
           c == CHOOSE h : T(h)
<1>1. n \in Nat /\ DOMAIN slots = 1 .. n /\ \A i \in 1 .. n : slots[i] \in Slot
  <2> HIDE DEF A
  <2> QED OBVIOUS
<1>2. ASSUME NEW a \in A, NEW i \in 1 .. n
      PROVE  /\ F[<<a, i>>] \in A
             /\ F[<<a, i>>] = IF slots[i].kind = kind THEN Append(a, slots[i]) ELSE a
  <2>1. <<a, i>> \in Seq(Slot) \X DOMAIN slots
    BY <1>1
  <2>2. F[<<a, i>>] = IF slots[i].kind = kind THEN Append(a, slots[i]) ELSE a
    BY <2>1 DEF ChosenSlots
  <2>3. slots[i] \in Slot
    BY <1>1
  <2>4. Append(a, slots[i]) \in A
    BY ONLY <2>3, a \in A
  <2> QED BY <2>2, <2>4
<1>3. <<>> \in A
  OBVIOUS
<1>4. \A s \in SUBSET (1 .. n) : s # {} => Max(s) \in 1 .. n
  BY <1>1, GreatestExists
<1> HIDE DEF A, n, F
<1>5. PICK it \in [SUBSET (1 .. n) -> A] : IsFold(it, F, <<>>, n)
  BY <1>1, <1>2, <1>3, FoldExists
<1>6. T(it)
  <2>1. ASSUME NEW s \in SUBSET (1 .. n), s # {}
        PROVE  it[s] = IF slots[Max(s)].kind = kind
                       THEN Append(it[s \ {Max(s)}], slots[Max(s)]) ELSE it[s \ {Max(s)}]
    <3>1. it[s \ {Max(s)}] \in A
      OBVIOUS
    <3>2. it[s] = F[<<it[s \ {Max(s)}], Max(s)>>]
      BY <1>5, <2>1 DEF IsFold
    <3> QED BY <1>2, <1>4, <2>1, <3>1, <3>2
  <2>2. it[{}] = <<>>
    BY <1>5 DEF IsFold
  <2> QED BY <1>1, <2>1, <2>2
<1>7. T(c)
  BY <1>6
<1>8. c[{}] = <<>> /\ \A s \in SUBSET (1 .. n) :
        s # {} => c[s] = IF slots[Max(s)].kind = kind
                         THEN Append(c[s \ {Max(s)}], slots[Max(s)]) ELSE c[s \ {Max(s)}]
  BY <1>1, <1>7
<1>9. Over(slots, kind) = c[1 .. n]
  BY <1>1 DEF Over, FoldLeft, MapThenFoldSet
<1> HIDE DEF c, T
<1>10. \A s \in SUBSET (1 .. n) :
         s # {} /\ c[s \ {Max(s)}] \in A => c[s] = F[<<c[s \ {Max(s)}], Max(s)>>]
  BY <1>2, <1>4, <1>8
<1>11. Accumulates([k \in 0 .. n |-> c[1 .. k]], A, F, <<>>, n)
  <2>1. \A a \in A, i \in 1 .. n : F[<<a, i>>] \in A
    BY <1>2
  <2>2. n \in Nat /\ c[{}] = <<>>
    BY <1>1, <1>8
  <2> QED BY ONLY <1>3, <1>10, <2>1, <2>2, FoldSteps
<1> QED BY <1>1, <1>9, <1>11 DEF A, n, F

-----------------------------------------------------------------------------
(* One more loop around a nest.                                            *)

LoopType == [dim : Dims, factor : Nat \ {0}]

(* A nest with one more loop around it.                                    *)
LEMMA WithLoop ==
  ASSUME NEW loops \in Loops, NEW e \in LoopType
  PROVE  /\ Append(loops, e) \in Loops /\ Len(Append(loops, e)) = Len(loops) + 1
         /\ DOMAIN loops = 1 .. Len(loops) /\ Len(loops) \in Nat
         /\ DOMAIN Append(loops, e) = 1 .. Len(loops) + 1
         /\ Append(loops, e)[Len(loops) + 1] = e
         /\ \A i \in 1 .. Len(loops) : Append(loops, e)[i] = loops[i]
         /\ \A i \in 1 .. Len(loops) + 1 : InsideOf(Append(loops, e), i) = InsideOf(loops, i)
         /\ InsideOf(loops, Len(loops) + 1) = loops
<1>1. loops \in Seq(LoopType)
  BY DEF Loops, LoopType
<1>2. /\ Append(loops, e) \in Seq(LoopType) /\ Len(Append(loops, e)) = Len(loops) + 1
      /\ DOMAIN loops = 1 .. Len(loops) /\ Len(loops) \in Nat
      /\ DOMAIN Append(loops, e) = 1 .. Len(loops) + 1
      /\ Append(loops, e)[Len(loops) + 1] = e
      /\ \A i \in 1 .. Len(loops) : Append(loops, e)[i] = loops[i]
  BY <1>1
<1>3. ASSUME NEW i \in 1 .. Len(loops) + 1
      PROVE  InsideOf(Append(loops, e), i) = InsideOf(loops, i)
  BY <1>1, <1>2 DEF InsideOf
<1>4. InsideOf(loops, Len(loops) + 1) = loops
  <2>1. Len(loops) + 1 - 1 = Len(loops)
    BY <1>2
  <2>2. SubSeq(loops, 1, Len(loops)) = loops
    BY <1>1
  <2> QED BY <2>1, <2>2 DEF InsideOf
<1> QED BY <1>2, <1>3, <1>4 DEF Loops, LoopType

(* Its product has one more factor if the loop counts.                     *)
LEMMA ProductWithLoop ==
  ASSUME NEW loops \in Loops, NEW e \in LoopType, NEW D
  PROVE  Product(Append(loops, e), D) = Product(loops, D) * (IF e.dim \in D THEN e.factor ELSE 1)
<1> DEFINE m == Append(loops, e)
           n == Len(loops)
           f == FactorsOver(m, D)
           P == Weights(m, D)
<1>1. /\ m \in Loops /\ Len(m) = n + 1 /\ n \in Nat /\ DOMAIN m = 1 .. n + 1
      /\ m[n + 1] = e /\ InsideOf(m, n + 1) = loops
  <2>1. n \in Nat /\ n + 1 \in 1 .. n + 1
    BY WithLoop
  <2> QED BY <2>1, WithLoop
<1>2. f[n + 1] = IF e.dim \in D THEN e.factor ELSE 1
  BY <1>1 DEF FactorsOver
<1> HIDE DEF m, n
<1>3. /\ Radices(f, P, n + 1) /\ P[n + 1] = Product(m, D)
      /\ \A i \in DOMAIN m : P[i - 1] = Product(InsideOf(m, i), D)
  BY <1>1, WeightsAre
<1> HIDE DEF f, P
<1>4. n + 1 \in 1 .. n + 1 /\ n + 1 - 1 = n
  BY <1>1
<1>5. P[n] = Product(loops, D)
  BY <1>1, <1>3, <1>4
<1>6. P[n + 1] = P[n] * f[n + 1]
  <2>1. PICK k \in 1 .. n + 1 : k = n + 1 /\ k - 1 = n
    <3>1. n \in Nat
      BY <1>1
    <3>2. n + 1 \in 1 .. n + 1 /\ (n + 1) - 1 = n
      BY ONLY <3>1
    <3> QED BY ONLY <3>2
  <2>2. P[k] = P[k - 1] * f[k]
    BY <1>3, <2>1 DEF Radices
  <2> QED BY ONLY <2>1, <2>2
<1> QED BY <1>2, <1>3, <1>5, <1>6 DEF m

(* Its digits are those from before, and one more.                         *)
LEMMA DigitWithLoop ==
  ASSUME NEW loops \in Loops, NEW e \in LoopType, NEW step
  PROVE  /\ \A i \in DOMAIN loops : Digit(step, Append(loops, e), i) = Digit(step, loops, i)
         /\ Digit(step, Append(loops, e), Len(loops) + 1) = (step \div Steps(loops)) % e.factor
<1>1. /\ DOMAIN loops = 1 .. Len(loops) /\ Len(loops) \in Nat
      /\ Append(loops, e)[Len(loops) + 1] = e
      /\ \A i \in 1 .. Len(loops) : Append(loops, e)[i] = loops[i]
      /\ \A i \in 1 .. Len(loops) + 1 : InsideOf(Append(loops, e), i) = InsideOf(loops, i)
      /\ InsideOf(loops, Len(loops) + 1) = loops
  BY WithLoop
<1>2. /\ \A i \in 1 .. Len(loops) : i \in 1 .. Len(loops) + 1
      /\ Len(loops) + 1 \in 1 .. Len(loops) + 1
  BY <1>1
<1> QED BY <1>1, <1>2 DEF Digit

(* Its index has one more term if the loop is over the dimension.          *)
LEMMA IndexWithLoop ==
  ASSUME NEW loops \in Loops, NEW e \in LoopType, NEW step \in Nat, NEW dim
  PROVE  Index(step, Append(loops, e), dim)
           = Index(step, loops, dim)
               + IF e.dim = dim THEN ((step \div Steps(loops)) % e.factor) * Total(loops, dim)
                 ELSE 0
<1> DEFINE m == Append(loops, e)
           n == Len(loops)
           d == DigitsOver(step, m, dim)
           g == DigitsOver(step, loops, dim)
           P == Weights(m, {dim})
           Q == Weights(loops, {dim})
<1>1. /\ m \in Loops /\ Len(m) = n + 1 /\ n \in Nat /\ DOMAIN m = 1 .. n + 1
      /\ DOMAIN loops = 1 .. n
      /\ m[n + 1] = e /\ InsideOf(m, n + 1) = loops
      /\ \A i \in 1 .. n : m[i] = loops[i] /\ InsideOf(m, i) = InsideOf(loops, i)
  <2>1. n \in Nat /\ n + 1 \in 1 .. n + 1 /\ \A i \in 1 .. n : i \in 1 .. n + 1
    BY WithLoop
  <2> QED BY <2>1, WithLoop
<1>2. PICK V : ValueOf(V, d, P, n + 1) /\ V[n + 1] = Index(step, m, dim)
  <2> HIDE DEF m, d, P
  <2>1. \E V : /\ ValueOf(V, DigitsOver(step, m, dim), Weights(m, {dim}), Len(m))
               /\ V[Len(m)] = Index(step, m, dim)
    BY <1>1, IndexIs
  <2> QED BY <1>1, <2>1 DEF d, P
<1>3. PICK W : ValueOf(W, g, Q, n) /\ W[n] = Index(step, loops, dim)
  BY IndexIs
<1>4. \A i \in 1 .. n : P[i - 1] = Q[i - 1]
  <2>1. \A i \in DOMAIN m : P[i - 1] = Product(InsideOf(m, i), {dim})
    BY <1>1, WeightsAre
  <2>2. \A i \in DOMAIN loops : Q[i - 1] = Product(InsideOf(loops, i), {dim})
    BY WeightsAre
  <2>3. \A i \in 1 .. n : i \in DOMAIN m /\ i \in DOMAIN loops
    BY <1>1
  <2> HIDE DEF P, Q, m, n
  <2> QED BY <1>1, <2>1, <2>2, <2>3
<1>5. P[n] = Total(loops, dim)
  <2>1. \A i \in DOMAIN m : P[i - 1] = Product(InsideOf(m, i), {dim})
    BY <1>1, WeightsAre
  <2>2. PICK k \in DOMAIN m : k = n + 1 /\ k - 1 = n
    BY <1>1
  <2> HIDE DEF P, m, n
  <2>3. P[k - 1] = Product(InsideOf(m, k), {dim})
    BY <2>1, <2>2
  <2>4. P[n] = Product(InsideOf(m, n + 1), {dim})
    BY ONLY <2>2, <2>3
  <2> QED BY <1>1, <2>4 DEF Total
<1>6. /\ \A i \in 1 .. n : d[i] = g[i]
      /\ d[n + 1] = IF e.dim = dim THEN (step \div Steps(loops)) % e.factor ELSE 0
  <2>1. /\ \A i \in DOMAIN loops : Digit(step, m, i) = Digit(step, loops, i)
        /\ Digit(step, m, n + 1) = (step \div Steps(loops)) % e.factor
    BY DigitWithLoop
  <2>2. \A i \in 1 .. n : i \in DOMAIN m /\ i \in DOMAIN loops
    BY <1>1
  <2>3. n + 1 \in DOMAIN m
    BY <1>1
  <2>4. \A i \in DOMAIN m : d[i] = IF m[i].dim = dim THEN Digit(step, m, i) ELSE 0
    BY DEF DigitsOver
  <2>5. \A i \in DOMAIN loops : g[i] = IF loops[i].dim = dim THEN Digit(step, loops, i) ELSE 0
    BY DEF DigitsOver
  <2> HIDE DEF d, g, m, n
  <2> QED BY <1>1, <2>1, <2>2, <2>3, <2>4, <2>5
<1> HIDE DEF m, n, d, g, P, Q
<1> DEFINE G == {k \in Nat : V[k] = W[k]}
<1>7. \A k \in 0 .. n : k \in G
  <2>1. 0 \in G
    BY <1>2, <1>3 DEF ValueOf
  <2>2. ASSUME NEW k \in 1 .. n, k - 1 \in G PROVE k \in G
    <3>1. k \in 1 .. n + 1 /\ k \in Nat
      BY <1>1
    <3>2. V[k] = V[k - 1] + d[k] * P[k - 1] /\ W[k] = W[k - 1] + g[k] * Q[k - 1]
      BY <1>2, <1>3, <3>1 DEF ValueOf
    <3> QED BY <1>4, <1>6, <2>2, <3>1, <3>2
  <2> HIDE DEF G
  <2> QED BY <1>1, <2>1, <2>2, UpTo
<1>8. V[n] = Index(step, loops, dim)
  <2>1. n \in 0 .. n
    BY <1>1
  <2> QED BY <1>3, <1>7, <2>1
<1>9. V[n + 1] = V[n] + d[n + 1] * P[n]
  <2>1. PICK k \in 1 .. n + 1 : k = n + 1 /\ k - 1 = n
    BY <1>1
  <2>2. V[k] = V[k - 1] + d[k] * P[k - 1]
    BY <1>2, <2>1 DEF ValueOf
  <2> QED BY ONLY <2>1, <2>2
<1>10. CASE e.dim = dim
  BY <1>2, <1>5, <1>6, <1>8, <1>9, <1>10 DEF m
<1>11. CASE e.dim # dim
  <2>1. P[n] \in Nat
    BY <1>5, IndexRange
  <2>2. V[n] \in Nat
    BY <1>8, IndexRange
  <2>3. V[n] + 0 * P[n] = V[n] + 0
    BY <2>1, <2>2
  <2> QED BY <1>2, <1>6, <1>8, <1>9, <1>11, <2>3 DEF m
<1> QED BY <1>10, <1>11

(* A nest is made of its loops one by one.                                 *)
LEMMA PrefixWithLoop ==
  ASSUME NEW loops \in Loops, NEW k \in 1 .. Len(loops)
  PROVE  /\ loops[k] \in LoopType /\ SubSeq(loops, 1, k - 1) \in Loops
         /\ SubSeq(loops, 1, k) = Append(SubSeq(loops, 1, k - 1), loops[k])
<1>1. loops \in Seq(LoopType)
  BY DEF Loops, LoopType
<1>2. Len(loops) \in Nat /\ k - 1 \in 0 .. Len(loops) /\ k \in 1 .. Len(loops) /\ k \in 0 .. Len(loops)
  BY <1>1
<1>3. loops[k] \in LoopType
  BY <1>1
<1>4. /\ SubSeq(loops, 1, k - 1) \in Seq(LoopType) /\ Len(SubSeq(loops, 1, k - 1)) = k - 1
      /\ SubSeq(loops, 1, k) \in Seq(LoopType) /\ Len(SubSeq(loops, 1, k)) = k
      /\ \A i \in 1 .. k : SubSeq(loops, 1, k)[i] = loops[i]
      /\ \A i \in 1 .. k - 1 : SubSeq(loops, 1, k - 1)[i] = loops[i]
  BY <1>1, <1>2
<1>5. SubSeq(loops, 1, k) = Append(SubSeq(loops, 1, k - 1), loops[k])
  <2> DEFINE s == SubSeq(loops, 1, k - 1)
             t == SubSeq(loops, 1, k)
             u == Append(s, loops[k])
  <2>1. u \in Seq(LoopType) /\ Len(u) = k /\ u[k] = loops[k] /\ \A i \in 1 .. k - 1 : u[i] = loops[i]
    BY <1>2, <1>3, <1>4
  <2>2. \A i \in 1 .. k : i = k \/ i \in 1 .. k - 1
    BY <1>2
  <2>3. \A i \in 1 .. k : u[i] = t[i]
    BY <1>4, <2>1, <2>2
  <2> HIDE DEF s, t, u
  <2>4. t \in Seq(LoopType) /\ Len(t) = k
    BY <1>4 DEF t
  <2>5. t = [i \in 1 .. k |-> t[i]] /\ u = [i \in 1 .. k |-> u[i]]
    BY <2>1, <2>4
  <2>6. t = u
    BY <2>3, <2>5
  <2> QED BY <2>6 DEF t, u
<1> QED BY <1>3, <1>4, <1>5 DEF Loops, LoopType

-----------------------------------------------------------------------------
(* Nests that go through the same indices in the same steps, whatever      *)
(* loops they do it with.                                                  *)

LoopOver(dim, size) == [dim |-> dim, factor |-> size]

Nested(loops, x, y) ==
  \E i, j \in DOMAIN loops : i < j /\ loops[i].dim = x /\ loops[j].dim = y

SameWalk(a, b) ==
  /\ Steps(a) = Steps(b)
  /\ \A dim \in Dims :
       /\ Total(a, dim) = Total(b, dim)
       /\ \A step \in Nat : Index(step, a, dim) = Index(step, b, dim)

SameOrder(a, b) ==
  \A x \in Dims :
    /\ Has(a, {x}) <=> Has(b, {x})
    /\ \A y \in Dims : y # x => (Nested(a, x, y) <=> Nested(b, x, y))

Alike(a, b) == a \in Loops /\ b \in Loops /\ SameWalk(a, b) /\ SameOrder(a, b)

(* A nest is like itself,                                                  *)
LEMMA AlikeSelf ==
  ASSUME NEW a \in Loops
  PROVE  Alike(a, a)
  BY DEF Alike, SameWalk, SameOrder

(* it is like those that are like it,                                      *)
LEMMA AlikeTurned ==
  ASSUME NEW a, NEW b, Alike(a, b)
  PROVE  Alike(b, a)
  BY DEF Alike, SameWalk, SameOrder

(* and like those that are like these.                                     *)
LEMMA AlikeThrough ==
  ASSUME NEW a, NEW b, NEW c, Alike(a, b), Alike(b, c)
  PROVE  Alike(a, c)
<1>1. SameWalk(a, c)
  BY DEF Alike, SameWalk
<1>2. SameOrder(a, c)
  BY DEF Alike, SameOrder
<1> QED BY <1>1, <1>2 DEF Alike

(* What the loop is nested around.                                         *)
LEMMA OrderWithLoop ==
  ASSUME NEW loops \in Loops, NEW e \in LoopType, NEW x, NEW y
  PROVE  /\ Has(Append(loops, e), {x}) <=> Has(loops, {x}) \/ e.dim = x
         /\ Nested(Append(loops, e), x, y)
              <=> Nested(loops, x, y) \/ (Has(loops, {x}) /\ e.dim = y)
<1> DEFINE m == Append(loops, e)
           n == Len(loops)
<1>1. /\ n \in Nat /\ DOMAIN loops = 1 .. n /\ DOMAIN m = 1 .. n + 1 /\ m[n + 1] = e
      /\ \A i \in 1 .. n : m[i] = loops[i]
  BY WithLoop
<1>2. /\ \A i \in 1 .. n : i \in 1 .. n + 1 /\ i < n + 1
      /\ n + 1 \in 1 .. n + 1 /\ n + 1 \notin 1 .. n
      /\ \A i \in 1 .. n + 1 : i \in 1 .. n \/ i = n + 1
      /\ \A i, j \in 1 .. n + 1 : i < j => i \in 1 .. n
  BY <1>1
<1> HIDE DEF m, n
<1>3. Has(m, {x}) <=> Has(loops, {x}) \/ e.dim = x
  BY <1>1, <1>2 DEF Has
<1>4. Has(loops, {x}) <=> \E i \in 1 .. n : loops[i].dim = x
  BY <1>1 DEF Has
<1>5. ASSUME Nested(m, x, y) PROVE Nested(loops, x, y) \/ (Has(loops, {x}) /\ e.dim = y)
  <2>1. PICK i \in 1 .. n + 1, j \in 1 .. n + 1 : i < j /\ m[i].dim = x /\ m[j].dim = y
    BY <1>1, <1>5 DEF Nested
  <2>2. i \in 1 .. n /\ loops[i].dim = x
    BY <1>1, <1>2, <2>1
  <2>3. CASE j = n + 1
    BY <1>1, <1>4, <2>1, <2>2, <2>3
  <2>4. CASE j \in 1 .. n
    BY <1>1, <2>1, <2>2, <2>4 DEF Nested
  <2> QED BY <1>2, <2>3, <2>4
<1>6. ASSUME Nested(loops, x, y) PROVE Nested(m, x, y)
  BY <1>1, <1>2, <1>6 DEF Nested
<1>7. ASSUME Has(loops, {x}), e.dim = y PROVE Nested(m, x, y)
  <2>1. PICK i \in 1 .. n : loops[i].dim = x
    BY <1>4, <1>7
  <2>2. i \in 1 .. n + 1 /\ n + 1 \in 1 .. n + 1 /\ i < n + 1 /\ m[i].dim = x /\ m[n + 1].dim = y
    BY <1>1, <1>2, <1>7, <2>1
  <2> QED BY <1>1, <2>2 DEF Nested
<1> QED BY <1>3, <1>5, <1>6, <1>7 DEF m

(* The same loop around nests that are alike leaves them alike.            *)
LEMMA AlikeWithLoop ==
  ASSUME NEW a, NEW b, Alike(a, b), NEW e \in LoopType
  PROVE  Alike(Append(a, e), Append(b, e))
<1>1. /\ a \in Loops /\ b \in Loops /\ SameOrder(a, b)
      /\ Steps(a) = Steps(b)
      /\ \A dim \in Dims : Total(a, dim) = Total(b, dim)
      /\ \A dim \in Dims, step \in Nat : Index(step, a, dim) = Index(step, b, dim)
  BY DEF Alike, SameWalk
<1>2. Append(a, e) \in Loops /\ Append(b, e) \in Loops
  BY <1>1, WithLoop
<1>3. Steps(Append(a, e)) = Steps(Append(b, e))
  BY <1>1, ProductWithLoop DEF Steps
<1>4. ASSUME NEW dim \in Dims PROVE Total(Append(a, e), dim) = Total(Append(b, e), dim)
  <2>1. Total(a, dim) = Total(b, dim)
    BY <1>1
  <2> QED BY <1>1, <2>1, ProductWithLoop DEF Total
<1>5. ASSUME NEW dim \in Dims, NEW step \in Nat
      PROVE  Index(step, Append(a, e), dim) = Index(step, Append(b, e), dim)
  <2>1. Total(a, dim) = Total(b, dim) /\ Index(step, a, dim) = Index(step, b, dim)
    BY <1>1
  <2> QED BY <1>1, <2>1, IndexWithLoop
<1>6. SameOrder(Append(a, e), Append(b, e))
  <2> SUFFICES ASSUME NEW x \in Dims
               PROVE  /\ Has(Append(a, e), {x}) <=> Has(Append(b, e), {x})
                      /\ \A y \in Dims : y # x =>
                           (Nested(Append(a, e), x, y) <=> Nested(Append(b, e), x, y))
    BY DEF SameOrder
  <2>1. Has(a, {x}) <=> Has(b, {x})
    BY <1>1 DEF SameOrder
  <2>2. \A y \in Dims : y # x => (Nested(a, x, y) <=> Nested(b, x, y))
    BY <1>1 DEF SameOrder
  <2> QED BY <1>1, <2>1, <2>2, OrderWithLoop
<1> QED BY <1>2, <1>3, <1>4, <1>5, <1>6 DEF Alike, SameWalk

(* Dividing by one number and then another.                                *)
LEMMA DivideTwice ==
  ASSUME NEW s \in Nat, NEW a \in Nat \ {0}, NEW x \in Nat \ {0}
  PROVE  a * x \in Nat \ {0} /\ s \div (a * x) = (s \div a) \div x
<1> DEFINE q == s \div a
           r == s % a
           p == q \div x
           d == q % x
<1>1. q \in Nat /\ r \in 0 .. a - 1 /\ s = q * a + r
  OBVIOUS
<1>2. p \in Nat /\ d \in 0 .. x - 1 /\ q = p * x + d
  <2>1. \A y \in Nat : y \div x \in Nat /\ y % x \in 0 .. x - 1 /\ y = (y \div x) * x + (y % x)
    OBVIOUS
  <2> HIDE DEF q
  <2> QED BY <1>1, <2>1
<1> HIDE DEF q, r, p, d
<1>3. PICK n \in Nat \ {0} : n = a * x
  <2>1. a * x \in Nat \ {0}
    OBVIOUS
  <2> QED BY <2>1
<1>4. d * a + r \in 0 .. x * a - 1
  BY <1>1, <1>2, TwoDigits
<1>5. d * a + r \in 0 .. n - 1
  <2>1. x * a = n
    BY <1>3
  <2> QED BY <1>4, <2>1
<1>6. s = p * n + (d * a + r)
  <2>1. q * a = (p * x) * a + d * a
    BY <1>2
  <2>2. (p * x) * a = p * (a * x)
    BY <1>2
  <2>3. (p * x) * a \in Nat /\ d * a \in Nat
    BY <1>2
  <2> QED BY <1>1, <1>2, <1>3, <2>1, <2>2, <2>3
<1>7. PICK m \in 0 .. n - 1 : m = d * a + r
  BY <1>5
<1>8. s = p * n + m
  BY <1>6, <1>7
<1>9. s \div n = p
  BY <1>2, <1>8, LastDigit
<1> QED BY <1>3, <1>9 DEF p, q

(* Two loops over one dimension, one right around the other, do what a     *)
(* single one does.                                                        *)
LEMMA AlikeMerged ==
  ASSUME NEW loops \in Loops, NEW dim \in Dims, NEW x \in Nat \ {0}, NEW y \in Nat \ {0}
  PROVE  Alike(Append(Append(loops, LoopOver(dim, x)), LoopOver(dim, y)),
               Append(loops, LoopOver(dim, x * y)))
<1>1. PICK z \in Nat \ {0} : z = x * y
  <2>1. x * y \in Nat \ {0}
    OBVIOUS
  <2> QED BY <2>1
<1>2. PICK e \in LoopType, g \in LoopType, h \in LoopType :
        /\ e = LoopOver(dim, x) /\ g = LoopOver(dim, y) /\ h = LoopOver(dim, z)
        /\ e.dim = dim /\ e.factor = x /\ g.dim = dim /\ g.factor = y
        /\ h.dim = dim /\ h.factor = z
  <2>1. ASSUME NEW w \in Nat \ {0}
        PROVE  /\ LoopOver(dim, w) \in LoopType
               /\ LoopOver(dim, w).dim = dim /\ LoopOver(dim, w).factor = w
    BY DEF LoopOver, LoopType
  <2> QED BY <1>1, <2>1
<1>3. PICK m \in Loops : m = Append(loops, e)
  BY WithLoop
<1>4. Append(m, g) \in Loops /\ Append(loops, h) \in Loops
  BY WithLoop
<1>5. ASSUME NEW D PROVE Product(Append(m, g), D) = Product(Append(loops, h), D)
  <2>1. PICK w \in Nat : w = Product(loops, D)
    <3>1. \E w \in Nat : w = Weights(loops, D)[Len(loops)]
      <4>1. Len(loops) \in 0 .. Len(loops) /\ Radices(FactorsOver(loops, D), Weights(loops, D), Len(loops))
        BY NestIs, WeightsAre
      <4> QED BY <4>1 DEF Radices
    <3> QED BY <3>1, WeightsAre
  <2>2. CASE dim \in D
    <3>1. (w * x) * y = w * z
      BY <1>1
    <3> QED BY <1>2, <1>3, <2>1, <2>2, <3>1, ProductWithLoop
  <2>3. CASE dim \notin D
    <3>1. (w * 1) * 1 = w * 1
      OBVIOUS
    <3> QED BY <1>2, <1>3, <2>1, <2>3, <3>1, ProductWithLoop
  <2> QED BY <2>2, <2>3
<1>6. ASSUME NEW other \in Dims, NEW step \in Nat
      PROVE  Index(step, Append(m, g), other) = Index(step, Append(loops, h), other)
  <2>1. PICK i \in Nat, t \in Nat \ {0}, s \in Nat \ {0} :
          i = Index(step, loops, other) /\ t = Total(loops, other) /\ s = Steps(loops)
    <3>1. Total(loops, other) \in Nat \ {0} /\ Steps(loops) \in Nat \ {0}
      BY IndexRange, StepsAre
    <3>2. Index(step, loops, other) \in 0 .. Total(loops, other) - 1
      BY IndexRange
    <3> QED BY <3>1, <3>2
  <2>2. CASE other = dim
    <3> DEFINE q == step \div s
    <3>1. q \in Nat
      OBVIOUS
    <3>2. PICK a \in Nat, b \in Nat : a = q % x /\ b = (q \div x) % y
      <4>1. \A v \in Nat : v % x \in Nat /\ v \div x \in Nat
        OBVIOUS
      <4>2. \A v \in Nat : v % y \in Nat
        OBVIOUS
      <4> HIDE DEF q
      <4> QED BY <3>1, <4>1, <4>2
    <3>3. q % z = a + b * x
      <4> HIDE DEF q
      <4> QED BY <1>1, <3>1, <3>2, SplitNumber
    <3>4. step \div (s * x) = q \div x
      BY <2>1, DivideTwice
    <3>5. Steps(m) = s * x
      <4>1. \A D : Product(m, D) = Product(loops, D) * (IF e.dim \in D THEN e.factor ELSE 1)
        BY <1>3, ProductWithLoop
      <4> QED BY <1>2, <2>1, <4>1 DEF Steps
    <3>6. Total(m, other) = t * x
      <4>1. \A D : Product(m, D) = Product(loops, D) * (IF e.dim \in D THEN e.factor ELSE 1)
        BY <1>3, ProductWithLoop
      <4> QED BY <1>2, <2>1, <2>2, <4>1 DEF Total
    <3>7. Index(step, m, other) = i + a * t
      <4>1. Index(step, m, other) = i + (q % x) * t
        BY <1>2, <1>3, <2>1, <2>2, IndexWithLoop
      <4> QED BY <3>2, <4>1
    <3>8. Index(step, Append(m, g), other) = (i + a * t) + b * (t * x)
      <4>1. Index(step, Append(m, g), other)
              = Index(step, m, other) + ((step \div Steps(m)) % y) * Total(m, other)
        BY <1>2, <2>2, IndexWithLoop
      <4> HIDE DEF q
      <4> QED BY <3>2, <3>4, <3>5, <3>6, <3>7, <4>1
    <3>9. Index(step, Append(loops, h), other) = i + (a + b * x) * t
      <4>1. Index(step, Append(loops, h), other) = i + (q % z) * t
        BY <1>2, <2>1, <2>2, IndexWithLoop
      <4> QED BY <3>3, <4>1
    <3>10. (i + a * t) + b * (t * x) = i + (a + b * x) * t
      <4>1. (a + b * x) * t = a * t + b * (t * x) /\ a * t \in Nat /\ b * (t * x) \in Nat
        OBVIOUS
      <4> QED BY ONLY <4>1, i \in Nat
    <3> QED BY <3>8, <3>9, <3>10
  <2>3. CASE other # dim
    <3>1. Index(step, m, other) = i + 0 /\ Index(step, Append(loops, h), other) = i + 0
      BY <1>2, <1>3, <2>1, <2>3, IndexWithLoop
    <3>2. Index(step, Append(m, g), other) = Index(step, m, other) + 0
      BY <1>2, <2>3, IndexWithLoop
    <3> QED BY <2>1, <3>1, <3>2
  <2> QED BY <2>2, <2>3
<1>7. SameOrder(Append(m, g), Append(loops, h))
  <2> SUFFICES ASSUME NEW p \in Dims
               PROVE  /\ Has(Append(m, g), {p}) <=> Has(Append(loops, h), {p})
                      /\ \A r \in Dims : r # p =>
                           (Nested(Append(m, g), p, r) <=> Nested(Append(loops, h), p, r))
    BY DEF SameOrder
  <2>1. /\ Has(m, {p}) <=> Has(loops, {p}) \/ p = dim
        /\ \A r : Nested(m, p, r) <=> Nested(loops, p, r) \/ (Has(loops, {p}) /\ r = dim)
    BY <1>2, <1>3, OrderWithLoop
  <2>2. /\ Has(Append(m, g), {p}) <=> Has(m, {p}) \/ p = dim
        /\ \A r : Nested(Append(m, g), p, r) <=> Nested(m, p, r) \/ (Has(m, {p}) /\ r = dim)
    BY <1>2, OrderWithLoop
  <2>3. /\ Has(Append(loops, h), {p}) <=> Has(loops, {p}) \/ p = dim
        /\ \A r : Nested(Append(loops, h), p, r)
                    <=> Nested(loops, p, r) \/ (Has(loops, {p}) /\ r = dim)
    BY <1>2, OrderWithLoop
  <2> QED BY ONLY <2>1, <2>2, <2>3
<1>8. Alike(Append(m, g), Append(loops, h))
  BY <1>4, <1>5, <1>6, <1>7 DEF Alike, SameWalk, Steps, Total
<1> QED BY <1>1, <1>2, <1>3, <1>8

-----------------------------------------------------------------------------
(* Segments.                                                               *)

SegmentType == [dim : Dims, size : Nat \ {0}]

AsLoops(segments) ==
  [k \in DOMAIN segments |-> LoopOver(segments[k].dim, segments[k].size)]

(* A loop is given by its dimension and its factor.                        *)
LEMMA LoopOverIs ==
  ASSUME NEW dim \in Dims, NEW size \in Nat \ {0}
  PROVE  /\ LoopOver(dim, size) \in LoopType
         /\ LoopOver(dim, size).dim = dim /\ LoopOver(dim, size).factor = size
  BY DEF LoopOver, LoopType

(* What a list of segments is, and its nest.                               *)
LEMMA SegmentsAre ==
  ASSUME NEW segments \in Segments
  PROVE  /\ segments \in Seq(SegmentType) /\ Len(segments) \in Nat
         /\ DOMAIN segments = 1 .. Len(segments)
         /\ segments = [k \in 1 .. Len(segments) |-> segments[k]]
         /\ \A k \in 1 .. Len(segments) :
              segments[k] \in SegmentType /\ segments[k].dim \in Dims /\ segments[k].size \in Nat \ {0}
         /\ AsLoops(segments) \in Loops /\ Len(AsLoops(segments)) = Len(segments)
         /\ DOMAIN AsLoops(segments) = 1 .. Len(segments)
         /\ \A k \in 1 .. Len(segments) :
              AsLoops(segments)[k] = LoopOver(segments[k].dim, segments[k].size)
<1>1. segments \in Seq(SegmentType)
  BY DEF Segments, SegmentType
<1>2. /\ Len(segments) \in Nat /\ DOMAIN segments = 1 .. Len(segments)
      /\ segments = [k \in 1 .. Len(segments) |-> segments[k]]
      /\ \A k \in 1 .. Len(segments) : segments[k] \in SegmentType
  BY <1>1
<1>3. \A k \in 1 .. Len(segments) : segments[k].dim \in Dims /\ segments[k].size \in Nat \ {0}
  BY <1>2 DEF SegmentType
<1>4. /\ DOMAIN AsLoops(segments) = 1 .. Len(segments)
      /\ \A k \in 1 .. Len(segments) :
           AsLoops(segments)[k] = LoopOver(segments[k].dim, segments[k].size)
  BY <1>2 DEF AsLoops
<1>5. \A k \in 1 .. Len(segments) : AsLoops(segments)[k] \in LoopType
  BY <1>3, <1>4, LoopOverIs
<1>6. AsLoops(segments) = [k \in 1 .. Len(segments) |-> AsLoops(segments)[k]]
  BY <1>2 DEF AsLoops
<1>7. AsLoops(segments) \in Seq(LoopType) /\ Len(AsLoops(segments)) = Len(segments)
  <2> DEFINE s == AsLoops(segments)
             n == Len(segments)
  <2>1. n \in Nat /\ s = [k \in 1 .. n |-> s[k]] /\ \A k \in 1 .. n : s[k] \in LoopType
    BY <1>2, <1>5, <1>6
  <2> HIDE DEF s, n
  <2>2. s \in [1 .. n -> LoopType]
    BY <2>1
  <2>3. s \in Seq(LoopType) /\ Len(s) = n
    BY <2>1, <2>2
  <2> QED BY <2>3 DEF s, n
<1> QED BY <1>1, <1>2, <1>3, <1>4, <1>7 DEF Loops, LoopType

(* Two sequences are equal where their elements are.                       *)
LEMMA SameElements ==
  ASSUME NEW R, NEW s \in Seq(R), NEW t \in Seq(R), Len(s) = Len(t),
         \A k \in 1 .. Len(s) : s[k] = t[k]
  PROVE  s = t
<1>1. s = [k \in 1 .. Len(s) |-> s[k]] /\ t = [k \in 1 .. Len(t) |-> t[k]]
  OBVIOUS
<1>2. [k \in 1 .. Len(s) |-> s[k]] = [k \in 1 .. Len(s) |-> t[k]]
  OBVIOUS
<1> QED BY <1>1, <1>2

(* One more segment is one more loop.                                      *)
LEMMA WithSegment ==
  ASSUME NEW segments \in Segments, NEW dim \in Dims, NEW size \in Nat \ {0}, NEW new,
         new = [dim |-> dim, size |-> size]
  PROVE  /\ Append(segments, new) \in Segments
         /\ AsLoops(Append(segments, new)) = Append(AsLoops(segments), LoopOver(dim, size))
<1>1. new \in SegmentType /\ new.dim = dim /\ new.size = size
  BY DEF SegmentType
<1>2. segments \in Seq(SegmentType) /\ Len(segments) \in Nat
  BY SegmentsAre
<1>3. PICK m \in Segments : m = Append(segments, new)
  <2>1. Append(segments, new) \in Seq(SegmentType)
    BY <1>1, <1>2
  <2> QED BY <2>1 DEF Segments, SegmentType
<1>4. /\ Len(m) = Len(segments) + 1 /\ m[Len(segments) + 1] = new
      /\ \A k \in 1 .. Len(segments) : m[k] = segments[k]
  BY <1>1, <1>2, <1>3
<1>5. PICK e \in LoopType : e = LoopOver(dim, size)
  BY LoopOverIs
<1>6. PICK s \in Loops : s = AsLoops(segments)
  BY SegmentsAre
<1>7. /\ Append(s, e) \in Loops /\ Len(Append(s, e)) = Len(segments) + 1
      /\ Append(s, e)[Len(segments) + 1] = e
      /\ \A k \in 1 .. Len(segments) : Append(s, e)[k] = s[k]
  <2>1. Len(s) = Len(segments)
    BY <1>6, SegmentsAre
  <2> QED BY <2>1, WithLoop
<1>8. PICK t \in Loops : t = AsLoops(m)
  BY <1>3, SegmentsAre
<1>9. /\ Len(t) = Len(segments) + 1
      /\ \A k \in 1 .. Len(segments) + 1 : t[k] = LoopOver(m[k].dim, m[k].size)
  BY <1>3, <1>4, <1>8, SegmentsAre
<1>10. \A k \in 1 .. Len(segments) : s[k] = LoopOver(segments[k].dim, segments[k].size)
  BY <1>6, SegmentsAre
<1>11. \A k \in 1 .. Len(segments) + 1 : k = Len(segments) + 1 \/ k \in 1 .. Len(segments)
  BY <1>2
<1>12. \A k \in 1 .. Len(segments) + 1 : t[k] = Append(s, e)[k]
  BY <1>1, <1>4, <1>5, <1>7, <1>9, <1>10, <1>11
<1>13. t = Append(s, e)
  <2>1. t \in Seq(LoopType) /\ Append(s, e) \in Seq(LoopType) /\ Len(t) = Len(Append(s, e))
    BY <1>7, <1>9 DEF Loops, LoopType
  <2>2. \A k \in 1 .. Len(t) : t[k] = Append(s, e)[k]
    BY <1>9, <1>12
  <2> QED BY ONLY <2>1, <2>2, SameElements
<1> QED BY <1>3, <1>5, <1>6, <1>8, <1>13

(* A segment grown by a factor, the others as they were.                   *)
LEMMA ScaledIs ==
  ASSUME NEW segments \in Segments, NEW k \in DOMAIN segments, NEW factor \in Nat \ {0}
  PROVE  /\ Scaled(segments, k, factor) \in Segments
         /\ Len(Scaled(segments, k, factor)) = Len(segments)
         /\ Scaled(segments, k, factor)[k]
              = [dim |-> segments[k].dim, size |-> segments[k].size * factor]
         /\ \A i \in DOMAIN segments : i # k => Scaled(segments, k, factor)[i] = segments[i]
<1> DEFINE m == Scaled(segments, k, factor)
           n == Len(segments)
<1>1. /\ segments \in Seq(SegmentType) /\ n \in Nat /\ DOMAIN segments = 1 .. n
      /\ segments \in [1 .. n -> SegmentType]
  BY SegmentsAre
<1>2. \A i \in 1 .. n : segments[i].dim \in Dims /\ segments[i].size \in Nat \ {0}
  BY SegmentsAre
<1>3. DOMAIN m = 1 .. n /\ m = [i \in 1 .. n |-> m[i]]
      /\ \A i \in 1 .. n : i # k => m[i] = segments[i]
  BY <1>1 DEF Scaled
<1>4. m[k] = [segments[k] EXCEPT !.size = segments[k].size * factor]
  BY <1>1 DEF Scaled
<1>5. m[k] = [dim |-> segments[k].dim, size |-> segments[k].size * factor]
  <2>1. segments[k] \in SegmentType
    BY <1>1
  <2> QED BY <1>4, <2>1 DEF SegmentType
<1>6. m[k] \in SegmentType
  <2>1. segments[k].size * factor \in Nat \ {0}
    BY <1>1, <1>2
  <2> QED BY <1>1, <1>2, <1>5, <2>1 DEF SegmentType
<1>7. \A i \in 1 .. n : m[i] \in SegmentType
  BY <1>1, <1>3, <1>6
<1> HIDE DEF m, n
<1>8. m \in Seq(SegmentType) /\ Len(m) = n
  <2>1. m \in [1 .. n -> SegmentType]
    BY <1>3, <1>7
  <2> QED BY ONLY <1>1, <2>1
<1>9. \A i \in DOMAIN segments : i # k => m[i] = segments[i]
  BY <1>1, <1>3
<1>10. m \in Segments
  BY <1>8 DEF Segments, SegmentType
<1> QED BY <1>5, <1>8, <1>9, <1>10 DEF m, n

(* Fusing a factor into the last segment, or starting another, is to put   *)
(* one more loop around the nest.                                          *)
FusedWith(segments, f) ==
  IF segments # <<>> /\ Last(segments).dim = f.dim
  THEN Scaled(segments, Len(segments), f.factor)
  ELSE Append(segments, Segment(f))

(* Fusing one factor adds its loop.                                        *)
LEMMA FusedWithIs ==
  ASSUME NEW segments \in Segments, NEW f \in Slot
  PROVE  /\ FusedWith(segments, f) \in Segments
         /\ Alike(AsLoops(FusedWith(segments, f)),
                  Append(AsLoops(segments), LoopOver(f.dim, f.factor)))
<1>1. f.dim \in Dims /\ f.factor \in Nat \ {0}
  BY DEF Slot
<1>2. PICK s \in Loops : s = AsLoops(segments)
  BY SegmentsAre
<1>3. PICK e \in LoopType : e = LoopOver(f.dim, f.factor)
  BY <1>1, LoopOverIs
<1>4. CASE ~(segments # <<>> /\ Last(segments).dim = f.dim)
  <2>1. FusedWith(segments, f) = Append(segments, Segment(f))
    BY <1>4 DEF FusedWith
  <2>2. Segment(f) = [dim |-> f.dim, size |-> f.factor]
    BY DEF Segment
  <2>3. /\ Append(segments, Segment(f)) \in Segments
        /\ AsLoops(Append(segments, Segment(f))) = Append(s, e)
    BY <1>1, <1>2, <1>3, <2>2, WithSegment
  <2>4. Alike(Append(s, e), Append(s, e))
    BY WithLoop, AlikeSelf
  <2> QED BY <1>2, <1>3, <2>1, <2>3, <2>4
<1>5. CASE segments # <<>> /\ Last(segments).dim = f.dim
  <2> DEFINE n == Len(segments)
  <2>1. PICK m : m = Scaled(segments, n, f.factor) /\ m = FusedWith(segments, f)
    BY <1>5 DEF FusedWith
  <2>2. /\ n \in Nat /\ DOMAIN segments = 1 .. n /\ n \in 1 .. n
        /\ segments[n].dim \in Dims /\ segments[n].size \in Nat \ {0}
    <3>1. segments \in Seq(SegmentType)
      BY SegmentsAre
    <3>2. n \in 1 .. n
      BY <1>5, <3>1
    <3> QED BY <3>2, SegmentsAre
  <2>3. segments[n].dim = f.dim
    BY <1>5 DEF Last
  <2>4. /\ m \in Segments /\ Len(m) = n
        /\ m[n] = [dim |-> f.dim, size |-> segments[n].size * f.factor]
        /\ \A i \in 1 .. n : i # n => m[i] = segments[i]
    <3> HIDE DEF n
    <3>1. /\ Scaled(segments, n, f.factor) \in Segments
          /\ Scaled(segments, n, f.factor)[n]
               = [dim |-> segments[n].dim, size |-> segments[n].size * f.factor]
          /\ \A i \in DOMAIN segments : i # n => Scaled(segments, n, f.factor)[i] = segments[i]
      BY <1>1, <2>2, ScaledIs
    <3>2. Len(Scaled(segments, n, f.factor)) = Len(segments)
      BY <1>1, <2>2, ScaledIs
    <3> QED BY <2>1, <2>2, <2>3, <3>1, <3>2 DEF n
  <2>5. PICK t \in Loops : t = AsLoops(m)
    BY <2>4, SegmentsAre
  <2>6. PICK size \in Nat \ {0}, dim \in Dims, factor \in Nat \ {0} :
          size = segments[n].size /\ dim = f.dim /\ factor = f.factor
    BY <1>1, <2>2
  <2>7. /\ Len(s) = n /\ Len(t) = n
        /\ \A i \in 1 .. n : s[i] = LoopOver(segments[i].dim, segments[i].size)
        /\ \A i \in 1 .. n : t[i] = LoopOver(m[i].dim, m[i].size)
    BY <1>2, <2>4, <2>5, SegmentsAre
  <2>8. /\ s[n] = LoopOver(dim, size) /\ t[n] = LoopOver(dim, size * factor)
        /\ \A i \in 1 .. n : i # n => s[i] = t[i]
    <3> HIDE DEF n
    <3>1. m[n].dim = dim /\ m[n].size = size * factor
      BY <2>4, <2>6
    <3>2. s[n] = LoopOver(dim, size) /\ t[n] = LoopOver(dim, size * factor)
      BY <2>2, <2>3, <2>6, <2>7, <3>1
    <3>3. ASSUME NEW i \in 1 .. n, i # n PROVE s[i] = t[i]
      <4>1. m[i] = segments[i]
        BY <2>4, <3>3
      <4> QED BY <2>7, <4>1
    <3> QED BY <3>2, <3>3
  <2> HIDE DEF n
  <2>9. /\ SubSeq(s, 1, n - 1) \in Loops
        /\ SubSeq(s, 1, n) = Append(SubSeq(s, 1, n - 1), s[n])
        /\ SubSeq(t, 1, n) = Append(SubSeq(t, 1, n - 1), t[n])
    BY <2>2, <2>7, PrefixWithLoop
  <2>10. SubSeq(s, 1, n) = s /\ SubSeq(t, 1, n) = t
    <3>1. s \in Seq(LoopType) /\ t \in Seq(LoopType)
      BY DEF Loops, LoopType
    <3> QED BY ONLY <2>7, <3>1
  <2>11. SubSeq(s, 1, n - 1) = SubSeq(t, 1, n - 1)
    <3>1. n - 1 \in 0 .. n /\ n - 1 \in Nat
      BY <2>2
    <3>2. /\ SubSeq(s, 1, n - 1) \in Loops /\ Len(SubSeq(s, 1, n - 1)) = n - 1
          /\ SubSeq(t, 1, n - 1) \in Loops /\ Len(SubSeq(t, 1, n - 1)) = n - 1
          /\ \A i \in 1 .. n - 1 : SubSeq(s, 1, n - 1)[i] = s[i] /\ SubSeq(t, 1, n - 1)[i] = t[i]
      BY <2>7, <3>1, PrefixIs
    <3>3. \A i \in 1 .. n - 1 : i \in 1 .. n /\ i # n
      BY <2>2
    <3>4. \A i \in 1 .. n - 1 : SubSeq(s, 1, n - 1)[i] = SubSeq(t, 1, n - 1)[i]
      BY <2>8, <3>2, <3>3
    <3>5. SubSeq(s, 1, n - 1) \in Seq(LoopType) /\ SubSeq(t, 1, n - 1) \in Seq(LoopType)
      BY <3>2 DEF Loops, LoopType
    <3> QED BY ONLY <3>2, <3>4, <3>5, SameElements
  <2>12. PICK front \in Loops : /\ front = SubSeq(s, 1, n - 1)
                               /\ s = Append(front, LoopOver(dim, size))
                               /\ t = Append(front, LoopOver(dim, size * factor))
    BY <2>8, <2>9, <2>10, <2>11
  <2>13. Alike(Append(s, LoopOver(dim, factor)), t)
    BY <2>6, <2>12, AlikeMerged
  <2>14. Alike(t, Append(s, LoopOver(dim, factor)))
    BY <2>13, AlikeTurned
  <2> QED BY <1>2, <2>1, <2>4, <2>5, <2>6, <2>14
<1> QED BY <1>4, <1>5

-----------------------------------------------------------------------------
(* Fuse makes the nest of the slots out of fewer loops.                    *)

FusedSlots(slots) ==
  [z \in Segments \X DOMAIN slots |-> FusedWith(z[1], slots[z[2]])]

(* Fuse goes through the slots one by one.                                 *)
LEMMA FuseSteps ==
  ASSUME NEW slots \in Seq(Slot)
  PROVE  \E acc : /\ Accumulates(acc, Segments, FusedSlots(slots), <<>>, Len(slots))
                  /\ acc[Len(slots)] = Fuse(slots)
<1> DEFINE n == Len(slots)
           F == FusedSlots(slots)
           A == Segments
           T(h) == h = [s \in SUBSET (DOMAIN slots) |->
                          IF s = {} THEN <<>>
                          ELSE FusedWith(h[s \ {Max(s)}], slots[Max(s)])]
           c == CHOOSE h : T(h)
<1>1. n \in Nat /\ DOMAIN slots = 1 .. n /\ \A i \in 1 .. n : slots[i] \in Slot
  <2> HIDE DEF A
  <2> QED OBVIOUS
<1>2. ASSUME NEW a \in A, NEW i \in 1 .. n
      PROVE  F[<<a, i>>] \in A /\ F[<<a, i>>] = FusedWith(a, slots[i])
  <2>1. <<a, i>> \in Segments \X DOMAIN slots
    BY <1>1
  <2>2. F[<<a, i>>] = FusedWith(a, slots[i])
    BY <2>1 DEF FusedSlots
  <2>3. slots[i] \in Slot
    BY <1>1
  <2>4. FusedWith(a, slots[i]) \in A
    BY <2>3, FusedWithIs
  <2> QED BY <2>2, <2>4
<1>3. <<>> \in A
  BY DEF Segments
<1>4. \A s \in SUBSET (1 .. n) : s # {} => Max(s) \in 1 .. n
  BY <1>1, GreatestExists
<1> HIDE DEF A, n, F
<1>5. PICK it \in [SUBSET (1 .. n) -> A] : IsFold(it, F, <<>>, n)
  BY <1>1, <1>2, <1>3, FoldExists
<1>6. T(it)
  <2>1. ASSUME NEW s \in SUBSET (1 .. n), s # {}
        PROVE  it[s] = FusedWith(it[s \ {Max(s)}], slots[Max(s)])
    <3>1. it[s \ {Max(s)}] \in A
      OBVIOUS
    <3>2. it[s] = F[<<it[s \ {Max(s)}], Max(s)>>]
      BY <1>5, <2>1 DEF IsFold
    <3> QED BY <1>2, <1>4, <2>1, <3>1, <3>2
  <2>2. it[{}] = <<>>
    BY <1>5 DEF IsFold
  <2> QED BY <1>1, <2>1, <2>2
<1>7. T(c)
  BY <1>6
<1>8. c[{}] = <<>> /\ \A s \in SUBSET (1 .. n) :
        s # {} => c[s] = FusedWith(c[s \ {Max(s)}], slots[Max(s)])
  BY <1>1, <1>7
<1>9. Fuse(slots) = c[1 .. n]
  BY <1>1 DEF Fuse, FoldLeft, MapThenFoldSet, FusedWith
<1> HIDE DEF c, T
<1>10. \A s \in SUBSET (1 .. n) :
         s # {} /\ c[s \ {Max(s)}] \in A => c[s] = F[<<c[s \ {Max(s)}], Max(s)>>]
  BY <1>2, <1>4, <1>8
<1>11. Accumulates([k \in 0 .. n |-> c[1 .. k]], A, F, <<>>, n)
  <2>1. \A a \in A, i \in 1 .. n : F[<<a, i>>] \in A
    BY <1>2
  <2>2. n \in Nat /\ c[{}] = <<>>
    BY <1>1, <1>8
  <2> QED BY ONLY <1>3, <1>10, <2>1, <2>2, FoldSteps
<1> QED BY <1>1, <1>9, <1>11 DEF A, n, F

(* The nest of a list of slots.                                            *)
LEMMA LoopIs ==
  ASSUME NEW slots \in Seq(Slot)
  PROVE  /\ Loop(slots) \in Loops /\ Len(Loop(slots)) = Len(slots) /\ Len(slots) \in Nat
         /\ DOMAIN slots = 1 .. Len(slots) /\ DOMAIN Loop(slots) = 1 .. Len(slots)
         /\ \A k \in 1 .. Len(slots) :
              /\ slots[k] \in Slot /\ slots[k].dim \in Dims /\ slots[k].factor \in Nat \ {0}
              /\ Loop(slots)[k] = LoopOver(slots[k].dim, slots[k].factor)
<1> DEFINE n == Len(slots)
           s == Loop(slots)
<1>1. n \in Nat /\ DOMAIN slots = 1 .. n /\ \A k \in 1 .. n : slots[k] \in Slot
  OBVIOUS
<1>2. \A k \in 1 .. n : slots[k].dim \in Dims /\ slots[k].factor \in Nat \ {0}
  BY <1>1 DEF Slot
<1>3. /\ DOMAIN s = 1 .. n /\ s = [k \in 1 .. n |-> s[k]]
      /\ \A k \in 1 .. n : s[k] = LoopOver(slots[k].dim, slots[k].factor)
  BY <1>1 DEF Loop, LoopOver
<1>4. \A k \in 1 .. n : s[k] \in LoopType
  BY <1>2, <1>3, LoopOverIs
<1> HIDE DEF n, s
<1>5. s \in Seq(LoopType) /\ Len(s) = n
  <2>1. s \in [1 .. n -> LoopType]
    BY <1>3, <1>4
  <2> QED BY ONLY <1>1, <2>1
<1>6. s \in Loops
  BY <1>5 DEF Loops, LoopType
<1> QED BY <1>1, <1>2, <1>3, <1>5, <1>6 DEF n, s

(* What is written to the file is a nest like the slots'.                  *)
LEMMA FuseIs ==
  ASSUME NEW slots \in Seq(Slot)
  PROVE  Fuse(slots) \in Segments /\ Alike(AsLoops(Fuse(slots)), Loop(slots))
<1> DEFINE n == Len(slots)
           L == Loop(slots)
<1>1. PICK acc : /\ Accumulates(acc, Segments, FusedSlots(slots), <<>>, n)
                 /\ acc[n] = Fuse(slots)
  BY FuseSteps
<1>2. /\ n \in Nat /\ DOMAIN slots = 1 .. n /\ L \in Loops /\ Len(L) = n
      /\ \A k \in 1 .. n : slots[k] \in Slot /\ L[k] = LoopOver(slots[k].dim, slots[k].factor)
  BY LoopIs
<1> HIDE DEF n, L
<1>3. /\ acc[0] = <<>> /\ \A k \in 0 .. n : acc[k] \in Segments
      /\ \A k \in 1 .. n : acc[k] = FusedSlots(slots)[<<acc[k - 1], k>>]
  BY <1>1 DEF Accumulates
<1>4. ASSUME NEW k \in 1 .. n
      PROVE  /\ acc[k - 1] \in Segments /\ acc[k] = FusedWith(acc[k - 1], slots[k])
  <2>1. k - 1 \in 0 .. n
    BY <1>2
  <2>2. <<acc[k - 1], k>> \in Segments \X DOMAIN slots
    BY <1>2, <1>3, <2>1
  <2> QED BY <1>3, <2>1, <2>2 DEF FusedSlots
<1> DEFINE G == {k \in Nat : Alike(AsLoops(acc[k]), SubSeq(L, 1, k))}
<1>5. \A k \in 0 .. n : k \in G
  <2>1. 0 \in G
    <3>1. AsLoops(<<>>) = <<>>
      BY DEF AsLoops
    <3>2. SubSeq(L, 1, 0) = <<>>
      <4>1. L \in Seq(LoopType)
        BY <1>2 DEF Loops, LoopType
      <4> QED BY <4>1
    <3>3. <<>> \in Loops
      BY DEF Loops
    <3> QED BY <1>3, <3>1, <3>2, <3>3, AlikeSelf
  <2>2. ASSUME NEW k \in 1 .. n, k - 1 \in G PROVE k \in G
    <3>1. PICK s \in Segments, t \in Segments : s = acc[k - 1] /\ t = acc[k] /\ t = FusedWith(s, slots[k])
      <4>1. k - 1 \in 0 .. n /\ k \in 0 .. n
        BY <1>2
      <4> QED BY <1>3, <1>4, <4>1
    <3>2. PICK e \in LoopType : e = LoopOver(slots[k].dim, slots[k].factor) /\ e = L[k]
      <4>1. k \in 1 .. Len(L)
        BY <1>2
      <4> QED BY <1>2, <4>1, PrefixWithLoop
    <3>3. Alike(AsLoops(t), Append(AsLoops(s), e))
      BY <1>2, <3>1, <3>2, FusedWithIs
    <3>4. Alike(Append(AsLoops(s), e), Append(SubSeq(L, 1, k - 1), e))
      <4>1. Alike(AsLoops(s), SubSeq(L, 1, k - 1))
        BY <2>2, <3>1
      <4> QED BY <4>1, AlikeWithLoop
    <3>5. SubSeq(L, 1, k) = Append(SubSeq(L, 1, k - 1), e)
      <4>1. k \in 1 .. Len(L)
        BY <1>2
      <4> QED BY <1>2, <3>2, <4>1, PrefixWithLoop
    <3>6. Alike(AsLoops(acc[k]), SubSeq(L, 1, k))
      BY <3>1, <3>3, <3>4, <3>5, AlikeThrough
    <3> QED BY <3>6
  <2> HIDE DEF G
  <2> QED BY <1>2, <2>1, <2>2, UpTo
<1>6. n \in 0 .. n
  BY <1>2
<1>7. Alike(AsLoops(acc[n]), SubSeq(L, 1, n))
  BY <1>5, <1>6
<1>8. SubSeq(L, 1, n) = L
  <2>1. L \in Seq(LoopType)
    BY <1>2 DEF Loops, LoopType
  <2> QED BY <1>2, <2>1
<1> QED BY <1>1, <1>3, <1>6, <1>7, <1>8 DEF L

-----------------------------------------------------------------------------
(* FuseSameDim keeps the product of every dimension.                       *)

LEMMA ProductIsNat ==
  ASSUME NEW loops \in Loops, NEW D
  PROVE  Product(loops, D) \in Nat \ {0}
<1>1. /\ Radices(FactorsOver(loops, D), Weights(loops, D), Len(loops))
      /\ Weights(loops, D)[Len(loops)] = Product(loops, D)
  BY WeightsAre
<1>2. Len(loops) \in 0 .. Len(loops)
  BY NestIs
<1> QED BY <1>1, <1>2 DEF Radices

(* A loop grown by a factor multiplies the product by it.                  *)
LEMMA ProductScaled ==
  ASSUME NEW s \in Loops, NEW t \in Loops, Len(s) = Len(t), NEW k \in 1 .. Len(s),
         NEW x \in Nat \ {0}, t[k].dim = s[k].dim, t[k].factor = s[k].factor * x,
         \A i \in 1 .. Len(s) : i # k => t[i] = s[i], NEW D
  PROVE  Product(t, D) = Product(s, D) * (IF s[k].dim \in D THEN x ELSE 1)
<1> DEFINE n == Len(s)
           f == FactorsOver(s, D)
           g == FactorsOver(t, D)
           P == Weights(s, D)
           Q == Weights(t, D)
<1>1. n \in Nat /\ DOMAIN s = 1 .. n /\ DOMAIN t = 1 .. n /\ k \in 1 .. n
  BY NestIs
<1>2. Radices(f, P, n) /\ P[n] = Product(s, D) /\ Radices(g, Q, n) /\ Q[n] = Product(t, D)
  BY WeightsAre
<1>3. PICK y \in Nat \ {0} : y = IF s[k].dim \in D THEN x ELSE 1
  OBVIOUS
<1>4. /\ \A i \in 1 .. n : i # k => g[i] = f[i]
      /\ g[k] = f[k] * y
  <2>1. \A i \in 1 .. n : /\ f[i] = IF s[i].dim \in D THEN s[i].factor ELSE 1
                          /\ g[i] = IF t[i].dim \in D THEN t[i].factor ELSE 1
    BY <1>1 DEF FactorsOver
  <2>2. \A i \in 1 .. n : i # k => t[i] = s[i]
    OBVIOUS
  <2>3. s[k].factor \in Nat \ {0}
    BY <1>1, NestIs
  <2> HIDE DEF f, g, n
  <2>4. ASSUME NEW i \in 1 .. n, i # k PROVE g[i] = f[i]
    <3>1. t[i] = s[i]
      BY <2>2, <2>4
    <3> QED BY <2>1, <3>1
  <2>5. g[k] = f[k] * y
    <3>1. CASE s[k].dim \in D
      BY <1>1, <1>3, <2>1, <3>1
    <3>2. CASE s[k].dim \notin D
      <4>1. f[k] = 1 /\ g[k] = 1 /\ y = 1
        BY <1>1, <1>3, <2>1, <3>2
      <4> QED BY <4>1
    <3> QED BY <3>1, <3>2
  <2> QED BY <2>4, <2>5
<1> HIDE DEF f, g, P, Q, n
<1>5. /\ P[0] = 1 /\ Q[0] = 1
      /\ \A j \in 0 .. n : P[j] \in Nat \ {0} /\ Q[j] \in Nat \ {0}
      /\ \A j \in 1 .. n : P[j] = P[j - 1] * f[j] /\ Q[j] = Q[j - 1] * g[j]
      /\ \A j \in 1 .. n : f[j] \in Nat \ {0}
  BY <1>2 DEF Radices
<1> DEFINE G == {j \in Nat : Q[j] = IF k <= j THEN P[j] * y ELSE P[j]}
<1>6. \A j \in 0 .. n : j \in G
  <2>1. 0 \in G
    BY <1>1, <1>5
  <2>2. ASSUME NEW j \in 1 .. n, j - 1 \in G PROVE j \in G
    <3>1. PICK a \in Nat \ {0}, b \in Nat \ {0}, c \in Nat \ {0} :
            a = P[j - 1] /\ b = f[j] /\ c = Q[j - 1]
      <4>1. j - 1 \in 0 .. n
        BY <1>1
      <4> QED BY <1>5, <4>1
    <3>2. P[j] = a * b /\ Q[j] = c * g[j]
      BY <1>5, <3>1
    <3>3. c = IF k <= j - 1 THEN a * y ELSE a
      BY <2>2, <3>1
    <3>4. CASE j = k
      <4>1. c = a /\ g[j] = b * y /\ k <= j
        BY <1>1, <1>4, <3>1, <3>3, <3>4
      <4>2. a * (b * y) = (a * b) * y
        OBVIOUS
      <4> QED BY <3>2, <4>1, <4>2
    <3>5. CASE j # k
      <4>1. g[j] = b /\ (k <= j <=> k <= j - 1)
        BY <1>1, <1>4, <3>1, <3>5
      <4>2. (a * y) * b = (a * b) * y
        OBVIOUS
      <4> QED BY <3>2, <3>3, <4>1, <4>2
    <3> QED BY <3>4, <3>5
  <2> HIDE DEF G
  <2> QED BY <1>1, <2>1, <2>2, UpTo
<1>7. n \in 0 .. n /\ k <= n
  BY <1>1
<1>8. Q[n] = P[n] * y
  BY <1>6, <1>7
<1> QED BY <1>2, <1>3, <1>8

GroupedWith(segments, f) ==
  LET same == {k \in DOMAIN segments : segments[k].dim = f.dim}
  IN  IF same = {} THEN Append(segments, Segment(f)) ELSE Scaled(segments, Max(same), f.factor)

(* Grouping one factor multiplies its dimension by it.                     *)
LEMMA GroupedWithIs ==
  ASSUME NEW segments \in Segments, NEW f \in Slot
  PROVE  /\ GroupedWith(segments, f) \in Segments
         /\ \A dim : Total(AsLoops(GroupedWith(segments, f)), dim)
                       = Total(AsLoops(segments), dim) * (IF f.dim = dim THEN f.factor ELSE 1)
<1> DEFINE same == {k \in DOMAIN segments : segments[k].dim = f.dim}
<1>1. f.dim \in Dims /\ f.factor \in Nat \ {0}
  BY DEF Slot
<1>2. PICK s \in Loops : s = AsLoops(segments)
  BY SegmentsAre
<1>3. CASE same = {}
  <2>1. PICK m : m = Append(segments, Segment(f)) /\ m = GroupedWith(segments, f)
    BY <1>3 DEF GroupedWith
  <2>2. PICK e \in LoopType : /\ e = LoopOver(f.dim, f.factor)
                              /\ e.dim = f.dim /\ e.factor = f.factor
    BY <1>1, LoopOverIs
  <2>3. Segment(f) = [dim |-> f.dim, size |-> f.factor]
    BY DEF Segment
  <2>4. m \in Segments /\ AsLoops(m) = Append(s, e)
    <3>1. /\ Append(segments, Segment(f)) \in Segments
          /\ AsLoops(Append(segments, Segment(f)))
               = Append(AsLoops(segments), LoopOver(f.dim, f.factor))
      BY <1>1, <2>3, WithSegment
    <3> QED BY <1>2, <2>1, <2>2, <3>1
  <2>5. \A dim : Total(Append(s, e), dim) = Total(s, dim) * (IF f.dim = dim THEN f.factor ELSE 1)
    BY <2>2, ProductWithLoop DEF Total
  <2> QED BY <1>2, <2>1, <2>4, <2>5
<1>4. CASE same # {}
  <2> DEFINE n == Len(segments)
             k == Max(same)
  <2>1. PICK m : m = Scaled(segments, k, f.factor) /\ m = GroupedWith(segments, f)
    BY <1>4 DEF GroupedWith
  <2>2. n \in Nat /\ DOMAIN segments = 1 .. n
    BY SegmentsAre
  <2>3. k \in 1 .. n /\ segments[k].dim = f.dim
    <3>1. same \subseteq 1 .. n
      BY <2>2
    <3>2. k \in same
      <4> HIDE DEF same, n
      <4> QED BY <1>4, <2>2, <3>1, GreatestExists
    <3> QED BY <2>2, <3>2
  <2> HIDE DEF k, same
  <2>4. /\ m \in Segments /\ Len(m) = n
        /\ m[k] = [dim |-> f.dim, size |-> segments[k].size * f.factor]
        /\ \A i \in 1 .. n : i # k => m[i] = segments[i]
    <3>1. k \in DOMAIN segments
      BY <2>2, <2>3
    <3>2. /\ Scaled(segments, k, f.factor) \in Segments
          /\ Scaled(segments, k, f.factor)[k]
               = [dim |-> segments[k].dim, size |-> segments[k].size * f.factor]
          /\ \A i \in DOMAIN segments : i # k => Scaled(segments, k, f.factor)[i] = segments[i]
      BY <1>1, <3>1, ScaledIs
    <3>3. Len(Scaled(segments, k, f.factor)) = Len(segments)
      BY <1>1, <3>1, ScaledIs
    <3> QED BY <2>1, <2>2, <2>3, <3>2, <3>3
  <2>5. PICK t \in Loops : t = AsLoops(m)
    BY <2>4, SegmentsAre
  <2>6. /\ Len(s) = n /\ Len(t) = n
        /\ \A i \in 1 .. n : s[i] = LoopOver(segments[i].dim, segments[i].size)
        /\ \A i \in 1 .. n : t[i] = LoopOver(m[i].dim, m[i].size)
        /\ \A i \in 1 .. n : segments[i].dim \in Dims /\ segments[i].size \in Nat \ {0}
    BY <1>2, <2>4, <2>5, SegmentsAre
  <2> HIDE DEF n
  <2>7. /\ s[k].dim = f.dim /\ t[k].dim = f.dim /\ t[k].factor = s[k].factor * f.factor
    <3>1. PICK size \in Nat \ {0} : size = segments[k].size
      BY <2>3, <2>6
    <3>2. PICK big \in Nat \ {0} : big = size * f.factor
      <4>1. size * f.factor \in Nat \ {0}
        BY <1>1
      <4> QED BY <4>1
    <3>3. s[k] = LoopOver(f.dim, size) /\ t[k] = LoopOver(f.dim, big)
      <4>1. m[k].dim = f.dim /\ m[k].size = big
        BY <2>4, <3>1, <3>2
      <4> QED BY <2>3, <2>6, <3>1, <4>1
    <3> QED BY <1>1, <3>2, <3>3, LoopOverIs
  <2>8. \A i \in 1 .. n : i # k => t[i] = s[i]
    <3> SUFFICES ASSUME NEW i \in 1 .. n, i # k PROVE t[i] = s[i]
      OBVIOUS
    <3>1. m[i] = segments[i]
      BY <2>4
    <3> QED BY <2>6, <3>1
  <2>9. \A D : Product(t, D) = Product(s, D) * (IF f.dim \in D THEN f.factor ELSE 1)
    <3> SUFFICES ASSUME NEW D
                 PROVE  Product(t, D) = Product(s, D) * (IF f.dim \in D THEN f.factor ELSE 1)
      OBVIOUS
    <3>1. Product(t, D) = Product(s, D) * (IF s[k].dim \in D THEN f.factor ELSE 1)
      BY <1>1, <2>3, <2>6, <2>7, <2>8, ProductScaled
    <3> QED BY <2>7, <3>1
  <2> QED BY <1>2, <2>1, <2>4, <2>5, <2>9 DEF Total
<1> QED BY <1>3, <1>4

GroupedSlots(slots) ==
  [z \in Segments \X DOMAIN slots |-> GroupedWith(z[1], slots[z[2]])]

(* FuseSameDim goes through the slots one by one.                          *)
LEMMA GroupSteps ==
  ASSUME NEW slots \in Seq(Slot)
  PROVE  \E acc : /\ Accumulates(acc, Segments, GroupedSlots(slots), <<>>, Len(slots))
                  /\ acc[Len(slots)] = FuseSameDim(slots)
<1> DEFINE n == Len(slots)
           F == GroupedSlots(slots)
           A == Segments
           T(h) == h = [s \in SUBSET (DOMAIN slots) |->
                          IF s = {} THEN <<>>
                          ELSE GroupedWith(h[s \ {Max(s)}], slots[Max(s)])]
           c == CHOOSE h : T(h)
<1>1. n \in Nat /\ DOMAIN slots = 1 .. n /\ \A i \in 1 .. n : slots[i] \in Slot
  <2> HIDE DEF A
  <2> QED OBVIOUS
<1>2. ASSUME NEW a \in A, NEW i \in 1 .. n
      PROVE  F[<<a, i>>] \in A /\ F[<<a, i>>] = GroupedWith(a, slots[i])
  <2>1. <<a, i>> \in Segments \X DOMAIN slots
    BY <1>1
  <2>2. F[<<a, i>>] = GroupedWith(a, slots[i])
    BY <2>1 DEF GroupedSlots
  <2>3. slots[i] \in Slot
    BY <1>1
  <2>4. GroupedWith(a, slots[i]) \in A
    BY <2>3, GroupedWithIs
  <2> QED BY <2>2, <2>4
<1>3. <<>> \in A
  BY DEF Segments
<1>4. \A s \in SUBSET (1 .. n) : s # {} => Max(s) \in 1 .. n
  BY <1>1, GreatestExists
<1> HIDE DEF A, n, F
<1>5. PICK it \in [SUBSET (1 .. n) -> A] : IsFold(it, F, <<>>, n)
  BY <1>1, <1>2, <1>3, FoldExists
<1>6. T(it)
  <2>1. ASSUME NEW s \in SUBSET (1 .. n), s # {}
        PROVE  it[s] = GroupedWith(it[s \ {Max(s)}], slots[Max(s)])
    <3>1. it[s \ {Max(s)}] \in A
      OBVIOUS
    <3>2. it[s] = F[<<it[s \ {Max(s)}], Max(s)>>]
      BY <1>5, <2>1 DEF IsFold
    <3> QED BY <1>2, <1>4, <2>1, <3>1, <3>2
  <2>2. it[{}] = <<>>
    BY <1>5 DEF IsFold
  <2> QED BY <1>1, <2>1, <2>2
<1>7. T(c)
  BY <1>6
<1>8. c[{}] = <<>> /\ \A s \in SUBSET (1 .. n) :
        s # {} => c[s] = GroupedWith(c[s \ {Max(s)}], slots[Max(s)])
  BY <1>1, <1>7
<1>9. FuseSameDim(slots) = c[1 .. n]
  BY <1>1 DEF FuseSameDim, FoldLeft, MapThenFoldSet, GroupedWith
<1> HIDE DEF c, T
<1>10. \A s \in SUBSET (1 .. n) :
         s # {} /\ c[s \ {Max(s)}] \in A => c[s] = F[<<c[s \ {Max(s)}], Max(s)>>]
  BY <1>2, <1>4, <1>8
<1>11. Accumulates([k \in 0 .. n |-> c[1 .. k]], A, F, <<>>, n)
  <2>1. \A a \in A, i \in 1 .. n : F[<<a, i>>] \in A
    BY <1>2
  <2>2. n \in Nat /\ c[{}] = <<>>
    BY <1>1, <1>8
  <2> QED BY ONLY <1>3, <1>10, <2>1, <2>2, FoldSteps
<1> QED BY <1>1, <1>9, <1>11 DEF A, n, F

(* Every dimension keeps its product.                                      *)
LEMMA GroupIs ==
  ASSUME NEW slots \in Seq(Slot)
  PROVE  /\ FuseSameDim(slots) \in Segments
         /\ \A dim : Total(AsLoops(FuseSameDim(slots)), dim) = Total(Loop(slots), dim)
<1> DEFINE n == Len(slots)
           L == Loop(slots)
<1>1. PICK acc : /\ Accumulates(acc, Segments, GroupedSlots(slots), <<>>, n)
                 /\ acc[n] = FuseSameDim(slots)
  BY GroupSteps
<1>2. /\ n \in Nat /\ DOMAIN slots = 1 .. n /\ L \in Loops /\ Len(L) = n
      /\ \A k \in 1 .. n : slots[k] \in Slot /\ L[k] = LoopOver(slots[k].dim, slots[k].factor)
      /\ \A k \in 1 .. n : slots[k].dim \in Dims /\ slots[k].factor \in Nat \ {0}
  BY LoopIs
<1> HIDE DEF n, L
<1>3. /\ acc[0] = <<>> /\ \A k \in 0 .. n : acc[k] \in Segments
      /\ \A k \in 1 .. n : acc[k] = GroupedSlots(slots)[<<acc[k - 1], k>>]
  BY <1>1 DEF Accumulates
<1>4. ASSUME NEW k \in 1 .. n
      PROVE  /\ acc[k - 1] \in Segments /\ acc[k] = GroupedWith(acc[k - 1], slots[k])
  <2>1. k - 1 \in 0 .. n
    BY <1>2
  <2>2. <<acc[k - 1], k>> \in Segments \X DOMAIN slots
    BY <1>2, <1>3, <2>1
  <2> QED BY <1>3, <2>1, <2>2 DEF GroupedSlots
<1>5. L \in Seq(LoopType)
  BY <1>2 DEF Loops, LoopType
<1> SUFFICES ASSUME NEW dim
             PROVE  FuseSameDim(slots) \in Segments /\ Total(AsLoops(acc[n]), dim) = Total(L, dim)
  BY <1>1 DEF L
<1> DEFINE G == {k \in Nat : Total(AsLoops(acc[k]), dim) = Total(SubSeq(L, 1, k), dim)}
<1>6. \A k \in 0 .. n : k \in G
  <2>1. 0 \in G
    <3>1. AsLoops(<<>>) = <<>>
      BY DEF AsLoops
    <3>2. SubSeq(L, 1, 0) = <<>>
      BY <1>5
    <3> QED BY <1>3, <3>1, <3>2
  <2>2. ASSUME NEW k \in 1 .. n, k - 1 \in G PROVE k \in G
    <3>1. PICK s \in Segments, t \in Segments :
            s = acc[k - 1] /\ t = acc[k] /\ t = GroupedWith(s, slots[k])
      <4>1. k - 1 \in 0 .. n /\ k \in 0 .. n
        BY <1>2
      <4> QED BY <1>3, <1>4, <4>1
    <3>2. PICK e \in LoopType : /\ e = L[k] /\ e.dim = slots[k].dim /\ e.factor = slots[k].factor
      <4>1. k \in 1 .. Len(L)
        BY <1>2
      <4>2. L[k] \in LoopType
        BY <1>2, <4>1, PrefixWithLoop
      <4>3. L[k].dim = slots[k].dim /\ L[k].factor = slots[k].factor
        BY <1>2, LoopOverIs
      <4> QED BY <4>2, <4>3
    <3>3. Total(AsLoops(t), dim)
            = Total(AsLoops(s), dim) * (IF slots[k].dim = dim THEN slots[k].factor ELSE 1)
      BY <1>2, <3>1, GroupedWithIs
    <3>4. /\ SubSeq(L, 1, k) = Append(SubSeq(L, 1, k - 1), e)
          /\ SubSeq(L, 1, k - 1) \in Loops
      <4>1. k \in 1 .. Len(L)
        BY <1>2
      <4> QED BY <1>2, <3>2, <4>1, PrefixWithLoop
    <3>5. Total(SubSeq(L, 1, k), dim)
            = Total(SubSeq(L, 1, k - 1), dim) * (IF e.dim = dim THEN e.factor ELSE 1)
      <4>1. PICK m \in Loops : m = SubSeq(L, 1, k - 1)
        BY <3>4
      <4>2. Product(Append(m, e), {dim})
              = Product(m, {dim}) * (IF e.dim \in {dim} THEN e.factor ELSE 1)
        BY <3>2, ProductWithLoop
      <4> QED BY <3>4, <4>1, <4>2 DEF Total
    <3>6. Total(AsLoops(s), dim) = Total(SubSeq(L, 1, k - 1), dim)
      BY <2>2, <3>1
    <3>7. Total(AsLoops(acc[k]), dim) = Total(SubSeq(L, 1, k), dim)
      BY <3>1, <3>2, <3>3, <3>5, <3>6
    <3> QED BY <3>7
  <2> HIDE DEF G
  <2> QED BY <1>2, <2>1, <2>2, UpTo
<1>7. n \in 0 .. n
  BY <1>2
<1>8. Total(AsLoops(acc[n]), dim) = Total(SubSeq(L, 1, n), dim)
  BY <1>6, <1>7
<1>9. SubSeq(L, 1, n) = L
  BY <1>2, <1>5
<1> QED BY <1>1, <1>3, <1>7, <1>8, <1>9

(* The product over the slots is that over their loops.                    *)
LEMMA ProductOfSlots ==
  ASSUME NEW slots \in Seq(Slot), NEW D
  PROVE  Product(slots, D) = Product(Loop(slots), D)
<1> DEFINE n == Len(slots)
           f == FactorsOver(Loop(slots), D)
           T(h) == h = [s \in SUBSET (DOMAIN slots) |->
                          IF s = {} THEN 1
                          ELSE h[s \ {Max(s)}]
                                 * (IF slots[Max(s)].dim \in D THEN slots[Max(s)].factor ELSE 1)]
           c == CHOOSE h : T(h)
<1>1. /\ n \in Nat /\ DOMAIN slots = 1 .. n /\ Loop(slots) \in Loops /\ Len(Loop(slots)) = n
      /\ DOMAIN Loop(slots) = 1 .. n
      /\ \A k \in 1 .. n : slots[k].dim \in Dims /\ slots[k].factor \in Nat \ {0}
      /\ \A k \in 1 .. n : Loop(slots)[k] = LoopOver(slots[k].dim, slots[k].factor)
  BY LoopIs
<1>2. \A s \in SUBSET (1 .. n) :
        s # {} => f[Max(s)] = IF slots[Max(s)].dim \in D THEN slots[Max(s)].factor ELSE 1
  <2> SUFFICES ASSUME NEW s \in SUBSET (1 .. n), s # {}
               PROVE  f[Max(s)] = IF slots[Max(s)].dim \in D THEN slots[Max(s)].factor ELSE 1
    OBVIOUS
  <2>1. PICK k \in 1 .. n : k = Max(s)
    BY <1>1, GreatestExists
  <2>2. Loop(slots)[k].dim = slots[k].dim /\ Loop(slots)[k].factor = slots[k].factor
    BY <1>1, LoopOverIs
  <2>3. f[k] = IF Loop(slots)[k].dim \in D THEN Loop(slots)[k].factor ELSE 1
    BY <1>1 DEF FactorsOver
  <2> QED BY <2>1, <2>2, <2>3
<1>3. \A h : T(h) <=> Products(h, f, n)
  <2> HIDE DEF f
  <2> QED BY <1>1, <1>2 DEF Products
<1>4. PICK it : Products(it, f, n)
  <2> HIDE DEF f
  <2> QED BY <1>1, ProductsExist
<1>5. T(c)
  <2>1. T(it)
    BY <1>3, <1>4
  <2> QED BY <2>1
<1>6. Products(c, f, n)
  BY <1>3, <1>5
<1>7. Product(slots, D) = c[1 .. n]
  BY <1>1 DEF Product, FoldLeft, MapThenFoldSet
<1>8. Product(Loop(slots), D) = c[1 .. n]
  <2> HIDE DEF c, T
  <2> QED BY <1>1, <1>6, ProductIs
<1> QED BY <1>7, <1>8

-----------------------------------------------------------------------------
(* The spread that is read back.                                           *)

LEMMA ProductOfNone ==
  ASSUME NEW D
  PROVE  Product(<<>>, D) = 1
<1>1. <<>> \in Loops /\ Len(<<>>) = 0
  BY DEF Loops
<1>2. PICK it : Products(it, FactorsOver(<<>>, D), 0)
  <2> DEFINE f == FactorsOver(<<>>, D)
  <2>1. 0 \in Nat
    OBVIOUS
  <2> HIDE DEF f
  <2> QED BY <2>1, ProductsExist DEF f
<1>3. Product(<<>>, D) = it[1 .. 0]
  <2>1. Products(it, FactorsOver(<<>>, D), Len(<<>>))
    BY <1>1, <1>2
  <2>2. Product(<<>>, D) = it[1 .. Len(<<>>)]
    BY <1>1, <2>1, ProductIs
  <2> QED BY <1>1, <2>2
<1>4. it[1 .. 0] = 1
  <2>1. {} \in SUBSET (1 .. 0) /\ 1 .. 0 = {}
    OBVIOUS
  <2> QED BY <1>2, <2>1 DEF Products
<1> QED BY <1>3, <1>4

Counted(dim, n, entry) == IF entry.dim = dim THEN n * entry.size ELSE n

CountedEntries(entries, dim) ==
  [z \in (Nat \ {0}) \X DOMAIN entries |-> Counted(dim, z[1], entries[z[2]])]

(* An entry of the file multiplies its own dimension only.                 *)
LEMMA CountedIs ==
  ASSUME NEW dim, NEW n \in Nat \ {0}, NEW entry \in SegmentType
  PROVE  Counted(dim, n, entry) \in Nat \ {0}
<1>1. entry.size \in Nat \ {0}
  BY DEF SegmentType
<1>2. n * entry.size \in Nat \ {0}
  BY <1>1
<1> QED BY <1>2 DEF Counted

(* The spread goes through the entries one by one.                         *)
LEMMA CountSteps ==
  ASSUME NEW entries \in Segments, NEW dim \in Dims
  PROVE  \E acc : /\ Accumulates(acc, (Nat \ {0}), CountedEntries(entries, dim), 1, Len(entries))
                  /\ acc[Len(entries)] = SpaceIn(entries)[dim]
<1> DEFINE n == Len(entries)
           F == CountedEntries(entries, dim)
           A == (Nat \ {0})
           T(h) == h = [s \in SUBSET (DOMAIN entries) |->
                          IF s = {} THEN 1
                          ELSE Counted(dim, h[s \ {Max(s)}], entries[Max(s)])]
           c == CHOOSE h : T(h)
<1>1. n \in Nat /\ DOMAIN entries = 1 .. n /\ \A i \in 1 .. n : entries[i] \in SegmentType
  <2> HIDE DEF A
  <2> QED BY SegmentsAre
<1>2. ASSUME NEW a \in A, NEW i \in 1 .. n
      PROVE  F[<<a, i>>] \in A /\ F[<<a, i>>] = Counted(dim, a, entries[i])
  <2>1. <<a, i>> \in (Nat \ {0}) \X DOMAIN entries
    BY <1>1
  <2>2. F[<<a, i>>] = Counted(dim, a, entries[i])
    BY <2>1 DEF CountedEntries
  <2>3. entries[i] \in SegmentType
    BY <1>1
  <2>4. Counted(dim, a, entries[i]) \in A
    BY <2>3, CountedIs
  <2> QED BY <2>2, <2>4
<1>3. 1 \in A
  OBVIOUS
<1>4. \A s \in SUBSET (1 .. n) : s # {} => Max(s) \in 1 .. n
  BY <1>1, GreatestExists
<1> HIDE DEF A, n, F
<1>5. PICK it \in [SUBSET (1 .. n) -> A] : IsFold(it, F, 1, n)
  BY <1>1, <1>2, <1>3, FoldExists
<1>6. T(it)
  <2>1. ASSUME NEW s \in SUBSET (1 .. n), s # {}
        PROVE  it[s] = Counted(dim, it[s \ {Max(s)}], entries[Max(s)])
    <3>1. it[s \ {Max(s)}] \in A
      OBVIOUS
    <3>2. it[s] = F[<<it[s \ {Max(s)}], Max(s)>>]
      BY <1>5, <2>1 DEF IsFold
    <3> QED BY <1>2, <1>4, <2>1, <3>1, <3>2
  <2>2. it[{}] = 1
    BY <1>5 DEF IsFold
  <2> QED BY <1>1, <2>1, <2>2
<1>7. T(c)
  BY <1>6
<1>8. c[{}] = 1 /\ \A s \in SUBSET (1 .. n) :
        s # {} => c[s] = Counted(dim, c[s \ {Max(s)}], entries[Max(s)])
  BY <1>1, <1>7
<1>9. SpaceIn(entries)[dim] = c[1 .. n]
  BY <1>1 DEF SpaceIn, FoldLeft, MapThenFoldSet, Counted
<1> HIDE DEF c, T
<1>10. \A s \in SUBSET (1 .. n) :
         s # {} /\ c[s \ {Max(s)}] \in A => c[s] = F[<<c[s \ {Max(s)}], Max(s)>>]
  BY <1>2, <1>4, <1>8
<1>11. Accumulates([k \in 0 .. n |-> c[1 .. k]], A, F, 1, n)
  <2>1. \A a \in A, i \in 1 .. n : F[<<a, i>>] \in A
    BY <1>2
  <2>2. n \in Nat /\ c[{}] = 1
    BY <1>1, <1>8
  <2> QED BY ONLY <1>3, <1>10, <2>1, <2>2, FoldSteps
<1> QED BY <1>1, <1>9, <1>11 DEF A, n, F

(* It is the product of the dimension's entries.                           *)
LEMMA SpaceIs ==
  ASSUME NEW entries \in Segments, NEW dim \in Dims
  PROVE  SpaceIn(entries)[dim] = Total(AsLoops(entries), dim)
<1> DEFINE n == Len(entries)
           L == AsLoops(entries)
<1>1. PICK acc : /\ Accumulates(acc, Nat \ {0}, CountedEntries(entries, dim), 1, n)
                 /\ acc[n] = SpaceIn(entries)[dim]
  BY CountSteps
<1>2. /\ n \in Nat /\ DOMAIN entries = 1 .. n /\ L \in Loops /\ Len(L) = n
      /\ \A k \in 1 .. n : L[k] = LoopOver(entries[k].dim, entries[k].size)
      /\ \A k \in 1 .. n : entries[k].dim \in Dims /\ entries[k].size \in Nat \ {0}
  BY SegmentsAre
<1> HIDE DEF n, L
<1>3. /\ acc[0] = 1 /\ \A k \in 0 .. n : acc[k] \in Nat \ {0}
      /\ \A k \in 1 .. n : acc[k] = CountedEntries(entries, dim)[<<acc[k - 1], k>>]
  BY <1>1 DEF Accumulates
<1>4. ASSUME NEW k \in 1 .. n
      PROVE  /\ acc[k - 1] \in Nat \ {0} /\ acc[k] = Counted(dim, acc[k - 1], entries[k])
  <2>1. k - 1 \in 0 .. n
    BY <1>2
  <2>2. <<acc[k - 1], k>> \in (Nat \ {0}) \X DOMAIN entries
    BY <1>2, <1>3, <2>1
  <2> QED BY <1>3, <2>1, <2>2 DEF CountedEntries
<1>5. L \in Seq(LoopType)
  BY <1>2 DEF Loops, LoopType
<1> DEFINE G == {k \in Nat : acc[k] = Product(SubSeq(L, 1, k), {dim})}
<1>6. \A k \in 0 .. n : k \in G
  <2>1. 0 \in G
    <3>1. SubSeq(L, 1, 0) = <<>>
      BY <1>5
    <3>2. Product(<<>>, {dim}) = 1
      BY ProductOfNone
    <3> QED BY <1>3, <3>1, <3>2
  <2>2. ASSUME NEW k \in 1 .. n, k - 1 \in G PROVE k \in G
    <3>1. PICK e \in LoopType : /\ e = L[k] /\ e.dim = entries[k].dim /\ e.factor = entries[k].size
      <4>1. k \in 1 .. Len(L)
        BY <1>2
      <4>2. L[k] \in LoopType
        BY <1>2, <4>1, PrefixWithLoop
      <4>3. L[k].dim = entries[k].dim /\ L[k].factor = entries[k].size
        BY <1>2, LoopOverIs
      <4> QED BY <4>2, <4>3
    <3>2. PICK m \in Loops : m = SubSeq(L, 1, k - 1) /\ SubSeq(L, 1, k) = Append(m, e)
      <4>1. k \in 1 .. Len(L)
        BY <1>2
      <4> QED BY <1>2, <3>1, <4>1, PrefixWithLoop
    <3>3. Product(Append(m, e), {dim})
            = Product(m, {dim}) * (IF e.dim \in {dim} THEN e.factor ELSE 1)
      BY <3>1, ProductWithLoop
    <3>4. PICK w \in Nat \ {0} : w = acc[k - 1] /\ w = Product(m, {dim})
      BY <1>4, <2>2, <3>2
    <3>5. acc[k] = IF e.dim = dim THEN w * e.factor ELSE w
      BY <1>4, <3>1, <3>4 DEF Counted
    <3>6. acc[k] = Product(SubSeq(L, 1, k), {dim})
      <4>1. w * 1 = w
        OBVIOUS
      <4> QED BY <3>2, <3>3, <3>4, <3>5, <4>1
    <3> QED BY <3>6
  <2> HIDE DEF G
  <2> QED BY <1>2, <2>1, <2>2, UpTo
<1>7. n \in 0 .. n
  BY <1>2
<1>8. acc[n] = Product(SubSeq(L, 1, n), {dim})
  BY <1>6, <1>7
<1>9. SubSeq(L, 1, n) = L
  BY <1>2, <1>5
<1> QED BY <1>1, <1>8, <1>9 DEF L, Total

-----------------------------------------------------------------------------
(* A size is read back as the loops over its prime factors.                *)

LeastDivisor(m) == Min({d \in 2 .. m : m % d = 0})

(* The least divisor divides, and leaves less.                             *)
LEMMA LeastDivisorIs ==
  ASSUME NEW m \in Nat, m > 1
  PROVE  /\ LeastDivisor(m) \in 2 .. m
         /\ m \div LeastDivisor(m) \in 1 .. m - 1
         /\ LeastDivisor(m) * (m \div LeastDivisor(m)) = m
<1> DEFINE S == {d \in 2 .. m : m % d = 0}
<1>1. m \in S
  <2>1. m % m = 0
    OBVIOUS
  <2> QED BY <2>1
<1>2. PICK x \in S : \A y \in S : x <= y
  <2>1. S \subseteq Nat /\ S # {}
    BY <1>1
  <2> HIDE DEF S
  <2> QED BY <2>1, LeastExists
<1>3. Min(S) \in S
  <2> HIDE DEF S
  <2> QED BY <1>2 DEF Min
<1>4. PICK p \in 2 .. m : p = LeastDivisor(m) /\ m % p = 0
  BY <1>3 DEF LeastDivisor
<1>5. PICK q \in Nat : q = m \div p
  OBVIOUS
<1>6. m = p * q
  <2>1. m = p * (m \div p) + (m % p)
    OBVIOUS
  <2> QED BY <1>4, <1>5, <2>1
<1>7. q # 0
  BY <1>6
<1>8. PICK r \in Nat : q = r + 1
  <2>1. q - 1 \in Nat /\ q = (q - 1) + 1
    BY <1>7
  <2> QED BY <2>1
<1>9. PICK o \in Nat : p = o + 2
  <2>1. p - 2 \in Nat /\ p = (p - 2) + 2
    OBVIOUS
  <2> QED BY <2>1
<1>10. m = (o * q + q) + q /\ o * q \in Nat
  BY <1>6, <1>9
<1>11. q \in 1 .. m - 1
  BY <1>8, <1>10
<1> QED BY <1>4, <1>5, <1>6, <1>11

PrimeTable(f, n) ==
  f = [m \in 1 .. n |-> IF m = 1 THEN <<>> ELSE <<LeastDivisor(m)>> \o f[m \div LeastDivisor(m)]]

(* A table of prime factors exists.                                        *)
LEMMA PrimesExist ==
  ASSUME NEW n \in Nat
  PROVE  \E f : PrimeTable(f, n)
<1> DEFINE G == {k \in Nat : \E f : PrimeTable(f, k)}
<1>1. 0 \in G
  <2>1. PrimeTable([m \in 1 .. 0 |-> <<>>], 0)
    BY DEF PrimeTable
  <2> QED BY <2>1
<1>2. ASSUME NEW k \in 1 .. n, k - 1 \in G PROVE k \in G
  <2>1. PICK h : PrimeTable(h, k - 1)
    BY <1>2
  <2> DEFINE p == LeastDivisor(k)
             f == [m \in 1 .. k |-> IF m < k THEN h[m]
                                    ELSE IF k = 1 THEN <<>> ELSE <<p>> \o h[k \div p]]
  <2>2. ASSUME NEW m \in 1 .. k
        PROVE  f[m] = IF m = 1 THEN <<>> ELSE <<LeastDivisor(m)>> \o f[m \div LeastDivisor(m)]
    <3>1. m # 1 => m \div LeastDivisor(m) \in 1 .. m - 1
      BY LeastDivisorIs
    <3>2. CASE m < k
      <4>1. m \in 1 .. k - 1 /\ f[m] = h[m]
        BY <3>2
      <4>2. h[m] = IF m = 1 THEN <<>> ELSE <<LeastDivisor(m)>> \o h[m \div LeastDivisor(m)]
        BY <2>1, <4>1 DEF PrimeTable
      <4>3. m # 1 => h[m \div LeastDivisor(m)] = f[m \div LeastDivisor(m)]
        <5> SUFFICES ASSUME m # 1 PROVE h[m \div LeastDivisor(m)] = f[m \div LeastDivisor(m)]
          OBVIOUS
        <5>1. PICK q \in 1 .. k : q = m \div LeastDivisor(m) /\ q < k
          BY <3>1, <3>2
        <5> QED BY <5>1
      <4> QED BY <4>1, <4>2, <4>3
    <3>3. CASE m = k
      <4>1. f[m] = IF k = 1 THEN <<>> ELSE <<p>> \o h[k \div p]
        BY <3>3
      <4>2. m # 1 => h[k \div p] = f[m \div LeastDivisor(m)]
        <5> SUFFICES ASSUME m # 1 PROVE h[k \div p] = f[m \div LeastDivisor(m)]
          OBVIOUS
        <5>1. PICK q \in 1 .. k : q = m \div LeastDivisor(m) /\ q < k
          BY <3>1, <3>3
        <5> QED BY <3>3, <5>1
      <4> QED BY <3>3, <4>1, <4>2
    <3>4. m < k \/ m = k
      OBVIOUS
    <3> QED BY <3>2, <3>3, <3>4
  <2>3. f = [m \in 1 .. k |-> f[m]]
    OBVIOUS
  <2>4. PrimeTable(f, k)
    <3> HIDE DEF f
    <3> QED BY <2>2, <2>3 DEF PrimeTable
  <2>5. k \in Nat
    OBVIOUS
  <2> HIDE DEF f
  <2> QED BY <2>4, <2>5
<1>3. \A k \in 0 .. n : k \in G
  <2> HIDE DEF G
  <2> QED BY <1>1, <1>2, UpTo
<1>4. n \in G
  <2>1. n \in 0 .. n
    OBVIOUS
  <2> HIDE DEF G
  <2> QED BY <1>3, <2>1
<1> QED BY <1>4

(* What is looked up in it are the prime factors of a size.                *)
LEMMA PrimeFactorsAre ==
  ASSUME NEW size \in Nat \ {0}
  PROVE  \E f : PrimeTable(f, size) /\ PrimeFactors(size) = IF size = 1 THEN <<1>> ELSE f[size]
<1> DEFINE T(h) == h = [m \in 1 .. size |->
                          IF m = 1 THEN <<>>
                          ELSE <<Min({d \in 2 .. m : m % d = 0})>>
                                 \o h[m \div Min({d \in 2 .. m : m % d = 0})]]
           c == CHOOSE h : T(h)
<1>1. \A h : T(h) <=> PrimeTable(h, size)
  BY DEF PrimeTable, LeastDivisor
<1>2. T(c)
  <2>1. PICK f : PrimeTable(f, size)
    BY PrimesExist
  <2>2. T(f)
    BY <1>1, <2>1
  <2> QED BY <2>2
<1>3. PrimeFactors(size) = IF size = 1 THEN <<1>> ELSE c[size]
  BY DEF PrimeFactors
<1> HIDE DEF c, T
<1> QED BY <1>1, <1>2, <1>3

PrimeLoops(dim, primes) == [k \in DOMAIN primes |-> LoopOver(dim, primes[k])]

(* The loops over the prime factors of a size.                             *)
LEMMA PrimeLoopsAre ==
  ASSUME NEW dim \in Dims, NEW primes \in Seq(Nat \ {0})
  PROVE  /\ PrimeLoops(dim, primes) \in Seq(LoopType)
         /\ Len(PrimeLoops(dim, primes)) = Len(primes) /\ Len(primes) \in Nat
         /\ \A k \in 1 .. Len(primes) :
              primes[k] \in Nat \ {0} /\ PrimeLoops(dim, primes)[k] = LoopOver(dim, primes[k])
<1> DEFINE s == PrimeLoops(dim, primes)
           n == Len(primes)
<1>1. n \in Nat /\ DOMAIN primes = 1 .. n /\ \A k \in 1 .. n : primes[k] \in Nat \ {0}
  OBVIOUS
<1>2. s = [k \in 1 .. n |-> s[k]] /\ \A k \in 1 .. n : s[k] = LoopOver(dim, primes[k])
  BY <1>1 DEF PrimeLoops
<1>3. \A k \in 1 .. n : s[k] \in LoopType
  BY <1>1, <1>2, LoopOverIs
<1> HIDE DEF s, n
<1>4. s \in Seq(LoopType) /\ Len(s) = n
  <2>1. s \in [1 .. n -> LoopType]
    BY <1>2, <1>3
  <2> QED BY ONLY <1>1, <2>1
<1> QED BY <1>1, <1>2, <1>4 DEF s, n

(* The first of them goes around the nest first.                           *)
LEMMA FirstPrime ==
  ASSUME NEW loops \in Loops, NEW dim \in Dims, NEW p \in Nat \ {0}, NEW rest \in Seq(Nat \ {0})
  PROVE  /\ <<p>> \o rest \in Seq(Nat \ {0})
         /\ loops \o PrimeLoops(dim, <<p>> \o rest) \in Loops
         /\ loops \o PrimeLoops(dim, <<p>> \o rest)
              = Append(loops, LoopOver(dim, p)) \o PrimeLoops(dim, rest)
<1>1. PICK all \in Seq(Nat \ {0}) :
        /\ all = <<p>> \o rest /\ Len(all) = Len(rest) + 1 /\ all[1] = p
        /\ \A k \in 1 .. Len(rest) : all[k + 1] = rest[k]
  <2>1. <<p>> \o rest \in Seq(Nat \ {0}) /\ Len(<<p>> \o rest) = Len(rest) + 1
    OBVIOUS
  <2>2. (<<p>> \o rest)[1] = p /\ \A k \in 1 .. Len(rest) : (<<p>> \o rest)[k + 1] = rest[k]
    OBVIOUS
  <2> QED BY <2>1, <2>2
<1>2. PICK e \in LoopType : e = LoopOver(dim, p)
  BY LoopOverIs
<1>3. PICK s \in Seq(LoopType) : /\ s = PrimeLoops(dim, all) /\ Len(s) = Len(rest) + 1
                                 /\ \A k \in 1 .. Len(rest) + 1 : s[k] = LoopOver(dim, all[k])
  <2>1. /\ PrimeLoops(dim, all) \in Seq(LoopType)
        /\ Len(PrimeLoops(dim, all)) = Len(all)
        /\ \A k \in 1 .. Len(all) : PrimeLoops(dim, all)[k] = LoopOver(dim, all[k])
    BY <1>1, PrimeLoopsAre
  <2>2. Len(all) = Len(rest) + 1
    BY <1>1
  <2> QED BY ONLY <2>1, <2>2
<1>4. PICK t \in Seq(LoopType) : /\ t = PrimeLoops(dim, rest) /\ Len(t) = Len(rest)
                                 /\ \A k \in 1 .. Len(rest) : t[k] = LoopOver(dim, rest[k])
  BY PrimeLoopsAre
<1>5. loops \in Seq(LoopType)
  BY DEF Loops, LoopType
<1>6. PICK u \in Seq(LoopType) :
        /\ u = Append(loops, e) /\ Len(u) = Len(loops) + 1 /\ u[Len(loops) + 1] = e
        /\ \A k \in 1 .. Len(loops) : u[k] = loops[k]
  <2>1. Append(loops, e) \in Seq(LoopType)
    BY WithLoop DEF Loops, LoopType
  <2> QED BY <2>1, WithLoop
<1>7. PICK a \in Seq(LoopType) :
        /\ a = loops \o s /\ Len(a) = Len(loops) + Len(s)
        /\ \A k \in 1 .. Len(loops) : a[k] = loops[k]
        /\ \A k \in 1 .. Len(s) : a[Len(loops) + k] = s[k]
  <2>1. s \in Seq(LoopType)
    BY <1>3
  <2>2. /\ loops \o s \in Seq(LoopType) /\ Len(loops \o s) = Len(loops) + Len(s)
        /\ \A k \in 1 .. Len(loops) : (loops \o s)[k] = loops[k]
        /\ \A k \in 1 .. Len(s) : (loops \o s)[Len(loops) + k] = s[k]
    BY ONLY <1>5, <2>1
  <2> QED BY ONLY <2>2, Zenon
<1>8. PICK b \in Seq(LoopType) :
        /\ b = u \o t /\ Len(b) = Len(u) + Len(t)
        /\ \A k \in 1 .. Len(u) : b[k] = u[k]
        /\ \A k \in 1 .. Len(t) : b[Len(u) + k] = t[k]
  <2>1. u \in Seq(LoopType) /\ t \in Seq(LoopType)
    BY <1>4, <1>6
  <2>2. /\ u \o t \in Seq(LoopType) /\ Len(u \o t) = Len(u) + Len(t)
        /\ \A k \in 1 .. Len(u) : (u \o t)[k] = u[k]
        /\ \A k \in 1 .. Len(t) : (u \o t)[Len(u) + k] = t[k]
    BY ONLY <2>1
  <2> QED BY ONLY <2>2, Zenon
<1>9. PICK n \in Nat, m \in Nat : n = Len(loops) /\ m = Len(rest)
  BY <1>5
<1>10. Len(a) = n + (m + 1) /\ Len(b) = n + (m + 1)
  <2>1. Len(a) = n + (m + 1) /\ Len(b) = (n + 1) + m
    BY <1>3, <1>4, <1>6, <1>7, <1>8, <1>9
  <2> QED BY <1>9, <2>1
<1>11. ASSUME NEW k \in 1 .. n + (m + 1) PROVE a[k] = b[k]
  <2>1. CASE k <= n
    <3>1. k \in 1 .. n /\ k \in 1 .. n + 1
      BY <1>9, <2>1
    <3> QED BY <1>6, <1>7, <1>8, <1>9, <3>1
  <2>2. CASE k = n + 1
    <3>1. 1 \in 1 .. m + 1 /\ n + 1 \in 1 .. n + 1
      BY <1>9
    <3>2. a[n + 1] = s[1] /\ s[1] = LoopOver(dim, all[1])
      BY <1>3, <1>7, <1>9, <3>1
    <3>3. b[n + 1] = u[n + 1]
      BY <1>6, <1>8, <1>9, <3>1
    <3> QED BY <1>1, <1>2, <1>6, <1>9, <2>2, <3>2, <3>3
  <2>3. CASE k > n + 1
    <3>1. PICK j \in 1 .. m : k = n + (j + 1) /\ k = (n + 1) + j
      <4>1. k - (n + 1) \in 1 .. m
        BY <1>9, <2>3
      <4>2. k = n + ((k - (n + 1)) + 1) /\ k = (n + 1) + (k - (n + 1))
        BY <1>9
      <4> QED BY <4>1, <4>2
    <3>2. j + 1 \in 1 .. m + 1
      BY <1>9, <3>1
    <3>3. a[n + (j + 1)] = s[j + 1] /\ s[j + 1] = LoopOver(dim, all[j + 1])
      BY <1>3, <1>7, <1>9, <3>2
    <3>4. all[j + 1] = rest[j]
      BY <1>1, <1>9, <3>1
    <3>5. b[(n + 1) + j] = t[j] /\ t[j] = LoopOver(dim, rest[j])
      BY <1>4, <1>6, <1>8, <1>9, <3>1
    <3> QED BY <3>1, <3>3, <3>4, <3>5
  <2> QED BY <1>9, <2>1, <2>2, <2>3
<1>12. a = b
  <2>1. Len(a) = Len(b) /\ \A k \in 1 .. Len(a) : a[k] = b[k]
    BY <1>10, <1>11
  <2>2. a \in Seq(LoopType) /\ b \in Seq(LoopType)
    BY <1>7, <1>8
  <2> QED BY ONLY <2>1, <2>2, SameElements
<1>13. a \in Loops
  BY <1>7 DEF Loops, LoopType
<1> QED BY <1>1, <1>2, <1>3, <1>4, <1>6, <1>7, <1>8, <1>12, <1>13

(* Together they do what one loop over the size does.                      *)
LEMMA PrimesAreAlike ==
  ASSUME NEW n \in Nat, NEW f, PrimeTable(f, n)
  PROVE  \A m \in 1 .. n :
           /\ f[m] \in Seq(Nat \ {0})
           /\ m # 1 => \A loops \in Loops, dim \in Dims :
                Alike(loops \o PrimeLoops(dim, f[m]), Append(loops, LoopOver(dim, m)))
<1> DEFINE H(m) == /\ f[m] \in Seq(Nat \ {0})
                   /\ m # 1 => \A loops \in Loops, dim \in Dims :
                        Alike(loops \o PrimeLoops(dim, f[m]), Append(loops, LoopOver(dim, m)))
           G == {k \in Nat : \A m \in 1 .. k : H(m)}
<1>1. 0 \in G
  OBVIOUS
<1>2. ASSUME NEW k \in 1 .. n, k - 1 \in G PROVE k \in G
  <2>1. \A m \in 1 .. k - 1 : H(m)
    BY <1>2
  <2>2. f[k] = IF k = 1 THEN <<>> ELSE <<LeastDivisor(k)>> \o f[k \div LeastDivisor(k)]
    BY DEF PrimeTable
  <2>3. CASE k = 1
    <3>1. f[k] \in Seq(Nat \ {0})
      BY <2>2, <2>3
    <3>2. \A m \in 1 .. k : m = 1
      BY <2>3
    <3> QED BY <2>3, <3>1, <3>2
  <2>4. CASE k # 1
    <3>1. PICK p \in Nat \ {0}, q \in 1 .. k - 1 :
            p = LeastDivisor(k) /\ q = k \div p /\ p * q = k
      <4>1. k \in Nat /\ k > 1
        BY <2>4
      <4>2. /\ LeastDivisor(k) \in 2 .. k /\ k \div LeastDivisor(k) \in 1 .. k - 1
            /\ LeastDivisor(k) * (k \div LeastDivisor(k)) = k
        BY <4>1, LeastDivisorIs
      <4>3. LeastDivisor(k) \in Nat \ {0}
        BY <4>2
      <4> QED BY <4>2, <4>3
    <3>2. PICK rest \in Seq(Nat \ {0}) : rest = f[q] /\ f[k] = <<p>> \o rest
      BY <2>1, <2>2, <2>4, <3>1
    <3>3. f[k] \in Seq(Nat \ {0})
      BY <3>1, <3>2, FirstPrime
    <3>4. ASSUME NEW loops \in Loops, NEW dim \in Dims
          PROVE  Alike(loops \o PrimeLoops(dim, f[k]), Append(loops, LoopOver(dim, k)))
      <4>1. PICK m \in Loops : m = Append(loops, LoopOver(dim, p))
        BY <3>1, LoopOverIs, WithLoop
      <4>2. loops \o PrimeLoops(dim, f[k]) = m \o PrimeLoops(dim, rest)
        <5>1. loops \o PrimeLoops(dim, <<p>> \o rest)
                = Append(loops, LoopOver(dim, p)) \o PrimeLoops(dim, rest)
          BY <3>1, <3>2, FirstPrime
        <5> QED BY <3>2, <4>1, <5>1
      <4>3. CASE q = 1
        <5>1. rest = <<>>
          <6>1. f[q] = <<>>
            BY <2>1, <4>3 DEF PrimeTable
          <6> QED BY <3>2, <6>1
        <5>2. PrimeLoops(dim, rest) = <<>>
          BY <5>1 DEF PrimeLoops
        <5>3. m \o <<>> = m
          <6>1. m \in Seq(LoopType)
            BY DEF Loops, LoopType
          <6> QED BY <6>1
        <5>4. p = k
          BY <3>1, <4>3
        <5> QED BY <4>1, <4>2, <5>2, <5>3, <5>4, AlikeSelf
      <4>4. CASE q # 1
        <5>1. Alike(m \o PrimeLoops(dim, rest), Append(m, LoopOver(dim, q)))
          BY <2>1, <3>1, <3>2, <4>4
        <5>2. Alike(Append(m, LoopOver(dim, q)), Append(loops, LoopOver(dim, p * q)))
          <6>1. q \in Nat \ {0}
            BY <3>1
          <6> QED BY <3>1, <4>1, <6>1, AlikeMerged
        <5> QED BY <3>1, <4>2, <5>1, <5>2, AlikeThrough
      <4> QED BY <4>3, <4>4
    <3>5. H(k)
      BY <3>3, <3>4
    <3>6. \A m \in 1 .. k : m \in 1 .. k - 1 \/ m = k
      OBVIOUS
    <3> HIDE DEF H
    <3>7. \A m \in 1 .. k : H(m)
      BY <2>1, <3>5, <3>6
    <3> QED BY <3>7
  <2> QED BY <2>3, <2>4
<1>3. \A k \in 0 .. n : k \in G
  <2> HIDE DEF G
  <2> QED BY <1>1, <1>2, UpTo
<1>4. n \in G
  <2>1. n \in 0 .. n
    OBVIOUS
  <2> HIDE DEF G
  <2> QED BY <1>3, <2>1
<1> QED BY <1>4

-----------------------------------------------------------------------------
(* The nest that is read back.                                             *)

ExpandedWith(loops, entry) ==
  LET primes == PrimeFactors(entry.size)
  IN  loops \o [k \in DOMAIN primes |-> [dim |-> entry.dim, factor |-> primes[k]]]

(* Expanding one entry adds loops that do what its own does.               *)
LEMMA ExpandedWithIs ==
  ASSUME NEW loops \in Loops, NEW entry \in SegmentType
  PROVE  /\ ExpandedWith(loops, entry) \in Loops
         /\ Alike(ExpandedWith(loops, entry), Append(loops, LoopOver(entry.dim, entry.size)))
<1>1. PICK dim \in Dims, size \in Nat \ {0} : dim = entry.dim /\ size = entry.size
  BY DEF SegmentType
<1>2. ExpandedWith(loops, entry) = loops \o PrimeLoops(dim, PrimeFactors(size))
  BY <1>1 DEF ExpandedWith, PrimeLoops, LoopOver
<1>3. PICK f : PrimeTable(f, size) /\ PrimeFactors(size) = IF size = 1 THEN <<1>> ELSE f[size]
  BY PrimeFactorsAre
<1>4. Alike(loops \o PrimeLoops(dim, PrimeFactors(size)), Append(loops, LoopOver(dim, size)))
  <2>1. CASE size = 1
    <3>1. PICK m \in Loops : m = Append(loops, LoopOver(dim, size))
      BY LoopOverIs, WithLoop
    <3>2. PrimeLoops(dim, <<1>>) = <<LoopOver(dim, 1)>>
      BY DEF PrimeLoops
    <3>3. loops \o <<LoopOver(dim, 1)>> = Append(loops, LoopOver(dim, 1))
      <4>1. loops \in Seq(LoopType) /\ LoopOver(dim, 1) \in LoopType
        BY <2>1, LoopOverIs DEF Loops, LoopType
      <4> QED BY <4>1
    <3>4. PrimeFactors(size) = <<1>>
      BY <1>3, <2>1
    <3> QED BY <2>1, <3>1, <3>2, <3>3, <3>4, AlikeSelf
  <2>2. CASE size # 1
    <3>1. size \in 1 .. size
      OBVIOUS
    <3> QED BY <1>3, <2>2, <3>1, PrimesAreAlike
  <2> QED BY <2>1, <2>2
<1> QED BY <1>1, <1>2, <1>4 DEF Alike

ExpandedEntries(entries) ==
  [z \in Loops \X DOMAIN entries |-> ExpandedWith(z[1], entries[z[2]])]

(* ExpandLoops goes through the entries one by one.                        *)
LEMMA ExpandSteps ==
  ASSUME NEW entries \in Segments
  PROVE  \E acc : /\ Accumulates(acc, Loops, ExpandedEntries(entries), <<>>, Len(entries))
                  /\ acc[Len(entries)] = ExpandLoops(entries)
<1> DEFINE n == Len(entries)
           F == ExpandedEntries(entries)
           A == Loops
           T(h) == h = [s \in SUBSET (DOMAIN entries) |->
                          IF s = {} THEN <<>>
                          ELSE ExpandedWith(h[s \ {Max(s)}], entries[Max(s)])]
           c == CHOOSE h : T(h)
<1>1. n \in Nat /\ DOMAIN entries = 1 .. n /\ \A i \in 1 .. n : entries[i] \in SegmentType
  <2> HIDE DEF A
  <2> QED BY SegmentsAre
<1>2. ASSUME NEW a \in A, NEW i \in 1 .. n
      PROVE  F[<<a, i>>] \in A /\ F[<<a, i>>] = ExpandedWith(a, entries[i])
  <2>1. <<a, i>> \in Loops \X DOMAIN entries
    BY <1>1
  <2>2. F[<<a, i>>] = ExpandedWith(a, entries[i])
    BY <2>1 DEF ExpandedEntries
  <2>3. entries[i] \in SegmentType
    BY <1>1
  <2>4. ExpandedWith(a, entries[i]) \in A
    BY <2>3, ExpandedWithIs
  <2> QED BY <2>2, <2>4
<1>3. <<>> \in A
  BY DEF Loops
<1>4. \A s \in SUBSET (1 .. n) : s # {} => Max(s) \in 1 .. n
  BY <1>1, GreatestExists
<1> HIDE DEF A, n, F
<1>5. PICK it \in [SUBSET (1 .. n) -> A] : IsFold(it, F, <<>>, n)
  BY <1>1, <1>2, <1>3, FoldExists
<1>6. T(it)
  <2>1. ASSUME NEW s \in SUBSET (1 .. n), s # {}
        PROVE  it[s] = ExpandedWith(it[s \ {Max(s)}], entries[Max(s)])
    <3>1. it[s \ {Max(s)}] \in A
      OBVIOUS
    <3>2. it[s] = F[<<it[s \ {Max(s)}], Max(s)>>]
      BY <1>5, <2>1 DEF IsFold
    <3> QED BY <1>2, <1>4, <2>1, <3>1, <3>2
  <2>2. it[{}] = <<>>
    BY <1>5 DEF IsFold
  <2> QED BY <1>1, <2>1, <2>2
<1>7. T(c)
  BY <1>6
<1>8. c[{}] = <<>> /\ \A s \in SUBSET (1 .. n) :
        s # {} => c[s] = ExpandedWith(c[s \ {Max(s)}], entries[Max(s)])
  BY <1>1, <1>7
<1>9. ExpandLoops(entries) = c[1 .. n]
  BY <1>1 DEF ExpandLoops, FoldLeft, MapThenFoldSet, ExpandedWith
<1> HIDE DEF c, T
<1>10. \A s \in SUBSET (1 .. n) :
         s # {} /\ c[s \ {Max(s)}] \in A => c[s] = F[<<c[s \ {Max(s)}], Max(s)>>]
  BY <1>2, <1>4, <1>8
<1>11. Accumulates([k \in 0 .. n |-> c[1 .. k]], A, F, <<>>, n)
  <2>1. \A a \in A, i \in 1 .. n : F[<<a, i>>] \in A
    BY <1>2
  <2>2. n \in Nat /\ c[{}] = <<>>
    BY <1>1, <1>8
  <2> QED BY ONLY <1>3, <1>10, <2>1, <2>2, FoldSteps
<1> QED BY <1>1, <1>9, <1>11 DEF A, n, F

(* The nest read from the file is like the nest written.                   *)
LEMMA ExpandIs ==
  ASSUME NEW entries \in Segments
  PROVE  Alike(ExpandLoops(entries), AsLoops(entries))
<1> DEFINE n == Len(entries)
           L == AsLoops(entries)
<1>1. PICK acc : /\ Accumulates(acc, Loops, ExpandedEntries(entries), <<>>, n)
                 /\ acc[n] = ExpandLoops(entries)
  BY ExpandSteps
<1>2. /\ n \in Nat /\ DOMAIN entries = 1 .. n /\ L \in Loops /\ Len(L) = n
      /\ \A k \in 1 .. n : /\ entries[k] \in SegmentType
                           /\ L[k] = LoopOver(entries[k].dim, entries[k].size)
  BY SegmentsAre
<1> HIDE DEF n, L
<1>3. /\ acc[0] = <<>> /\ \A k \in 0 .. n : acc[k] \in Loops
      /\ \A k \in 1 .. n : acc[k] = ExpandedEntries(entries)[<<acc[k - 1], k>>]
  BY <1>1 DEF Accumulates
<1>4. ASSUME NEW k \in 1 .. n
      PROVE  /\ acc[k - 1] \in Loops /\ acc[k] = ExpandedWith(acc[k - 1], entries[k])
  <2>1. k - 1 \in 0 .. n
    BY <1>2
  <2>2. <<acc[k - 1], k>> \in Loops \X DOMAIN entries
    BY <1>2, <1>3, <2>1
  <2> QED BY <1>3, <2>1, <2>2 DEF ExpandedEntries
<1>5. L \in Seq(LoopType)
  BY <1>2 DEF Loops, LoopType
<1> DEFINE G == {k \in Nat : Alike(acc[k], SubSeq(L, 1, k))}
<1>6. \A k \in 0 .. n : k \in G
  <2>1. 0 \in G
    <3>1. SubSeq(L, 1, 0) = <<>>
      BY <1>5
    <3>2. <<>> \in Loops
      BY DEF Loops
    <3> QED BY <1>3, <3>1, <3>2, AlikeSelf
  <2>2. ASSUME NEW k \in 1 .. n, k - 1 \in G PROVE k \in G
    <3>1. PICK s \in Loops, t \in Loops :
            s = acc[k - 1] /\ t = acc[k] /\ t = ExpandedWith(s, entries[k])
      <4>1. k - 1 \in 0 .. n /\ k \in 0 .. n
        BY <1>2
      <4> QED BY <1>3, <1>4, <4>1
    <3>2. PICK e \in LoopType : e = LoopOver(entries[k].dim, entries[k].size) /\ e = L[k]
      <4>1. k \in 1 .. Len(L)
        BY <1>2
      <4> QED BY <1>2, <4>1, PrefixWithLoop
    <3>3. Alike(t, Append(s, e))
      BY <1>2, <3>1, <3>2, ExpandedWithIs
    <3>4. Alike(Append(s, e), Append(SubSeq(L, 1, k - 1), e))
      <4>1. Alike(s, SubSeq(L, 1, k - 1))
        BY <2>2, <3>1
      <4> QED BY <4>1, AlikeWithLoop
    <3>5. SubSeq(L, 1, k) = Append(SubSeq(L, 1, k - 1), e)
      <4>1. k \in 1 .. Len(L)
        BY <1>2
      <4> QED BY <1>2, <3>2, <4>1, PrefixWithLoop
    <3>6. Alike(acc[k], SubSeq(L, 1, k))
      BY <3>1, <3>3, <3>4, <3>5, AlikeThrough
    <3> QED BY <3>6
  <2> HIDE DEF G
  <2> QED BY <1>2, <2>1, <2>2, UpTo
<1>7. n \in 0 .. n
  BY <1>2
<1>8. Alike(acc[n], SubSeq(L, 1, n))
  BY <1>6, <1>7
<1>9. SubSeq(L, 1, n) = L
  BY <1>2, <1>5
<1> QED BY <1>1, <1>8, <1>9 DEF L

(* What is reversed twice is as it was.                                    *)
LEMMA ReverseTwice ==
  ASSUME NEW R, NEW s \in Seq(R)
  PROVE  Reverse(Reverse(s)) = s
<1> DEFINE n == Len(s)
           r == Reverse(s)
<1>1. n \in Nat /\ s = [k \in 1 .. n |-> s[k]]
  OBVIOUS
<1>2. r = [k \in 1 .. n |-> s[(n - k) + 1]]
  BY DEF Reverse
<1>3. Len(r) = n /\ \A k \in 1 .. n : r[k] = s[(n - k) + 1]
  <2>1. \A k \in 1 .. n : (n - k) + 1 \in 1 .. n
    BY <1>1
  <2>2. \A k \in 1 .. n : s[k] \in R
    OBVIOUS
  <2>3. r \in [1 .. n -> R]
    <3> HIDE DEF n, r
    <3> QED BY <1>1, <1>2, <2>1, <2>2
  <2> HIDE DEF n, r
  <2>4. Len(r) = n
    BY ONLY <1>1, <2>3
  <2> QED BY <1>2, <2>4
<1>4. Reverse(r) = [k \in 1 .. n |-> r[(n - k) + 1]]
  <2> HIDE DEF r, n
  <2> QED BY <1>3 DEF Reverse
<1>5. ASSUME NEW k \in 1 .. n PROVE r[(n - k) + 1] = s[k]
  <2>1. (n - k) + 1 \in 1 .. n /\ (n - ((n - k) + 1)) + 1 = k
    BY <1>1
  <2> HIDE DEF n, r
  <2> QED BY <1>3, <2>1
<1>6. Reverse(r) = [k \in 1 .. n |-> s[k]]
  <2> HIDE DEF n, r
  <2> QED BY <1>4, <1>5
<1> QED BY <1>1, <1>6

(* The slots of a kind are slots.                                          *)
LEMMA OverSlots ==
  ASSUME NEW slots \in Seq(Slot), NEW kind
  PROVE  Over(slots, kind) \in Seq(Slot)
<1>1. PICK acc : /\ Accumulates(acc, Seq(Slot), ChosenSlots(slots, kind), <<>>, Len(slots))
                 /\ acc[Len(slots)] = Over(slots, kind)
  BY OverIs
<1>2. Len(slots) \in 0 .. Len(slots)
  OBVIOUS
<1> QED BY <1>1, <1>2 DEF Accumulates

(* Written and read, a solution's schedule has loops like those of its own *)
(* slots and the same spread.                                              *)
LEMMA ScheduleIs ==
  ASSUME NEW sol, sol.noc \in Seq(Slot), sol.dram \in Seq(Slot), NEW l, NEW s,
         s = ScheduleFromStrategy(BuildStrategy(sol), l)
  PROVE  /\ Alike(s.noc, Loop(OverTime(sol.noc)))
         /\ Alike(s.dram, Loop(OverTime(sol.dram)))
         /\ s.space = [dim \in Dims |-> Total(OverSpace(sol.noc), dim)]
         /\ s.space \in Spatials
         /\ \A dim \in Dims : s.space[dim] = Total(Loop(OverSpace(sol.noc)), dim)
<1>1. ASSUME NEW slots \in Seq(Slot)
      PROVE  Alike(ExpandLoops(Reverse(Reverse(Fuse(OverTime(slots))))), Loop(OverTime(slots)))
  <2>1. PICK chosen \in Seq(Slot) : chosen = OverTime(slots)
    BY OverSlots DEF OverTime
  <2>2. PICK segments \in Segments :
          segments = Fuse(chosen) /\ Alike(AsLoops(segments), Loop(chosen))
    BY FuseIs
  <2>3. Reverse(Reverse(segments)) = segments
    BY SegmentsAre, ReverseTwice
  <2>4. Alike(ExpandLoops(segments), AsLoops(segments))
    BY ExpandIs
  <2>5. Alike(ExpandLoops(segments), Loop(chosen))
    BY <2>2, <2>4, AlikeThrough
  <2> QED BY <2>1, <2>2, <2>3, <2>5
<1>2. /\ s.noc = ExpandLoops(Reverse(Reverse(Fuse(OverTime(sol.noc)))))
      /\ s.dram = ExpandLoops(Reverse(Reverse(Fuse(OverTime(sol.dram)))))
      /\ s.space = SpaceIn(FuseSameDim(OverSpace(sol.noc)))
  BY DEF ScheduleFromStrategy, BuildStrategy
<1>3. PICK chosen \in Seq(Slot) : chosen = OverSpace(sol.noc)
  BY OverSlots DEF OverSpace
<1>4. PICK segments \in Segments :
        /\ segments = FuseSameDim(chosen)
        /\ \A dim : Total(AsLoops(segments), dim) = Total(Loop(chosen), dim)
  BY GroupIs
<1>5. \A dim \in Dims : SpaceIn(segments)[dim] = Total(Loop(chosen), dim)
  BY <1>4, SpaceIs
<1>6. \A dim : Total(Loop(chosen), dim) \in Nat \ {0} /\ Total(Loop(chosen), dim) = Total(chosen, dim)
  BY LoopIs, ProductIsNat, ProductOfSlots DEF Total
<1>7. SpaceIn(segments) = [dim \in Dims |-> SpaceIn(segments)[dim]]
  BY DEF SpaceIn
<1>8. SpaceIn(segments) = [dim \in Dims |-> Total(chosen, dim)]
  BY <1>5, <1>6, <1>7
<1>9. SpaceIn(segments) \in Spatials
  BY <1>5, <1>6, <1>7 DEF Spatials
<1> QED BY <1>1, <1>2, <1>3, <1>4, <1>5, <1>8, <1>9

-----------------------------------------------------------------------------
(* What the mapping and the tiles are at every stage.                      *)

(* The solution is one that Solve may come to.                             *)
Solved ==
  \E node \in SUBSET Factors(layer) :
    /\ NodeIsFilled(layer, machine, node)
    /\ \E place \in [Factors(layer) \ node -> Places] :
         /\ SpreadIsLegal(machine, place)
         /\ NoMeshInSingleNode(machine, place)
         /\ TilesFit(machine, Inside(node, place))
         /\ \E noc \in Slots(place, "noc"), dram \in Slots(place, "dram") :
              /\ Ordered(mode, OverTime(noc), OverTime(dram))
              /\ solution = [node |-> node, noc |-> noc, dram |-> dram]

MapInv ==
  /\ layer \in Layers /\ machine \in Machines /\ mode \in Modes
  /\ stage \in {"stated", "solved", "written", "read"}
  /\ stage # "stated" => Solved
  /\ stage \in {"written", "read"} => strategy = BuildStrategy(solution)
  /\ stage = "read" => schedule = ScheduleFromStrategy(strategy, layer)

(* The mapping is carried from one stage to the next.                      *)
LEMMA MapStep ==
  ASSUME MapInv, MapLayer
  PROVE  MapInv'
<1>1. CASE Solve
  <2>1. layer' = layer /\ machine' = machine /\ mode' = mode /\ stage' = "solved" /\ stage = "stated"
    BY <1>1 DEF Solve
  <2>2. Solved'
    BY <1>1, <2>1 DEF Solve, Solved
  <2> QED BY <2>1, <2>2 DEF MapInv
<1>2. CASE WriteStrategy
  <2>1. /\ layer' = layer /\ machine' = machine /\ mode' = mode /\ solution' = solution
        /\ stage' = "written" /\ stage = "solved" /\ strategy' = BuildStrategy(solution)
    BY <1>2 DEF WriteStrategy
  <2>2. Solved'
    BY <2>1 DEF MapInv, Solved
  <2> QED BY <2>1, <2>2 DEF MapInv
<1>3. CASE ReadStrategy
  <2>1. /\ layer' = layer /\ machine' = machine /\ mode' = mode /\ solution' = solution
        /\ strategy' = strategy /\ stage' = "read" /\ stage = "written"
        /\ schedule' = ScheduleFromStrategy(strategy, layer)
    BY <1>3 DEF ReadStrategy
  <2>2. Solved'
    BY <2>1 DEF MapInv, Solved
  <2> QED BY <2>1, <2>2 DEF MapInv
<1> QED BY <1>1, <1>2, <1>3 DEF MapLayer

(* Nothing else touches it.                                                *)
LEMMA MapUnchanged ==
  ASSUME MapInv, UNCHANGED mappingVars
  PROVE  MapInv'
<1>1. Solved' = Solved
  BY DEF mappingVars, Solved
<1> QED BY <1>1 DEF MapInv, mappingVars

(* It is stated to begin with.                                             *)
LEMMA MapStarts ==
  ASSUME Init
  PROVE  MapInv
  BY DEF Init, MapInv

(* What a prime factor of a layer is.                                      *)
LEMMA FactorsAre ==
  ASSUME NEW l \in Layers, NEW f \in Factors(l)
  PROVE  /\ f.dim \in Dims /\ f.n \in DOMAIN l[f.dim] /\ f.n \in Nat
         /\ f.factor = l[f.dim][f.n] /\ f.factor \in Nat \ {0}
         /\ f = [dim |-> f.dim, n |-> f.n, factor |-> f.factor]
<1>1. PICK dim \in Dims : f \in FactorsOf(l, dim)
  BY DEF Factors
<1>2. PICK n \in DOMAIN l[dim] : f = [dim |-> dim, n |-> n, factor |-> l[dim][n]]
  BY <1>1 DEF FactorsOf
<1>3. l[dim] \in Seq(Nat \ {0})
  BY MappingAssumption
<1>4. n \in Nat /\ l[dim][n] \in Nat \ {0}
  BY <1>3
<1> QED BY <1>2, <1>4

(* A finite set has finitely many images.                                  *)
LEMMA ImageIsFinite ==
  ASSUME NEW g, NEW A, IsFiniteSet(A)
  PROVE  IsFiniteSet({g[x] : x \in A})
<1> DEFINE T == {g[x] : x \in A}
           h == [x \in A |-> g[x]]
<1>1. h \in Surjection(A, T)
  BY DEF Surjection
<1> QED BY <1>1, FS_Surjection

(* A layer has finitely many prime factors.                                *)
LEMMA FactorsAreFinite ==
  ASSUME NEW l \in Layers
  PROVE  IsFiniteSet(Factors(l)) /\ \A dim \in Dims : IsFiniteSet(FactorsOf(l, dim))
<1>1. ASSUME NEW dim \in Dims PROVE IsFiniteSet(FactorsOf(l, dim))
  <2>1. l[dim] \in Seq(Nat \ {0})
    BY MappingAssumption
  <2>2. Len(l[dim]) \in Nat /\ DOMAIN l[dim] = 1 .. Len(l[dim])
    BY <2>1
  <2> DEFINE g == [n \in DOMAIN l[dim] |-> [dim |-> dim, n |-> n, factor |-> l[dim][n]]]
  <2>3. IsFiniteSet(DOMAIN l[dim])
    BY <2>2, FS_Interval
  <2>4. IsFiniteSet({g[n] : n \in DOMAIN l[dim]})
    <3> HIDE DEF g
    <3> QED BY <2>3, ImageIsFinite
  <2>5. FactorsOf(l, dim) = {g[n] : n \in DOMAIN l[dim]}
    BY DEF FactorsOf
  <2> QED BY <2>4, <2>5
<1>2. IsFiniteSet(Dims)
  <2>1. IsFiniteSet({"KH"})
    BY FS_Singleton
  <2>2. IsFiniteSet({"KH"} \cup {"KW"})
    BY <2>1, FS_AddElement
  <2>3. IsFiniteSet({"KH"} \cup {"KW"} \cup {"CIN"})
    BY <2>2, FS_AddElement
  <2>4. IsFiniteSet({"KH"} \cup {"KW"} \cup {"CIN"} \cup {"COUT"})
    BY <2>3, FS_AddElement
  <2>5. IsFiniteSet({"KH"} \cup {"KW"} \cup {"CIN"} \cup {"COUT"} \cup {"HO"})
    BY <2>4, FS_AddElement
  <2>6. IsFiniteSet({"KH"} \cup {"KW"} \cup {"CIN"} \cup {"COUT"} \cup {"HO"} \cup {"WO"})
    BY <2>5, FS_AddElement
  <2>7. IsFiniteSet({"KH"} \cup {"KW"} \cup {"CIN"} \cup {"COUT"} \cup {"HO"} \cup {"WO"}
                      \cup {"T"})
    BY <2>6, FS_AddElement
  <2>8. Dims = {"KH"} \cup {"KW"} \cup {"CIN"} \cup {"COUT"} \cup {"HO"} \cup {"WO"} \cup {"T"}
    BY DEF Dims
  <2> QED BY <2>7, <2>8
<1>3. IsFiniteSet(Factors(l))
  <2> DEFINE g == [dim \in Dims |-> FactorsOf(l, dim)]
             S == {g[dim] : dim \in Dims}
  <2>1. IsFiniteSet(S)
    <3> HIDE DEF g
    <3> QED BY <1>2, ImageIsFinite
  <2>2. \A T \in S : IsFiniteSet(T)
    BY <1>1
  <2>3. Factors(l) = UNION S
    BY DEF Factors
  <2> HIDE DEF S
  <2> QED BY <2>1, <2>2, <2>3, FS_UNION
<1> QED BY <1>1, <1>3

(* The slot a placed factor takes, and the factors placed in a region.     *)
SlotOf(place, f) == [dim |-> f.dim, factor |-> f.factor, n |-> f.n, kind |-> place[f][2]]

In(place, region) == {g \in DOMAIN place : place[g][1] = region}

IsPlacement(l, place) == \E A \in SUBSET Factors(l) : place \in [A -> Places]

(* A region's slots are its factors', one each.                            *)
LEMMA SlotsAre ==
  ASSUME NEW l \in Layers, NEW place, IsPlacement(l, place),
         NEW region, NEW slots \in Slots(place, region)
  PROVE  /\ slots \in Seq(Slot)
         /\ \A k \in DOMAIN slots : \E f \in In(place, region) : slots[k] = SlotOf(place, f)
         /\ \A f \in In(place, region) : \E k \in DOMAIN slots : slots[k] = SlotOf(place, f)
         /\ \A i, j \in DOMAIN slots : slots[i] = slots[j] => i = j
         /\ IsFiniteSet(In(place, region)) /\ In(place, region) \subseteq Factors(l)
<1> DEFINE R == In(place, region)
           g == [f \in R |-> SlotOf(place, f)]
           S == {g[f] : f \in R}
           D == 1 .. Cardinality(S)
<1>1. R \subseteq Factors(l) /\ IsFiniteSet(R)
  <2>1. R \subseteq Factors(l)
    BY DEF In, IsPlacement
  <2> HIDE DEF R
  <2> QED BY <2>1, FactorsAreFinite, FS_Subset
<1>2. IsFiniteSet(S)
  <2> HIDE DEF g, R
  <2> QED BY <1>1, ImageIsFinite
<1>3. S = {[dim |-> f.dim, factor |-> f.factor, n |-> f.n, kind |-> place[f][2]] :
             f \in {h \in DOMAIN place : place[h][1] = region}}
  BY DEF In, SlotOf
<1>4. slots \in {f \in [D -> S] : \A i, j \in D : i # j => f[i] # f[j]}
  <2> HIDE DEF S
  <2> QED BY <1>3 DEF Slots, SetToSeqs
<1>5. ASSUME NEW f \in R PROVE g[f] \in Slot
  <2>1. f \in Factors(l) /\ place[f] \in Places
    BY DEF In, IsPlacement
  <2>2. place[f][2] \in {"space", "time"}
    BY <2>1 DEF Places
  <2>3. f.dim \in Dims /\ f.n \in Nat /\ f.factor \in Nat \ {0}
    BY <2>1, FactorsAre
  <2> QED BY <2>2, <2>3 DEF SlotOf, Slot
<1>6. S \subseteq Slot
  BY <1>5
<1>7. Cardinality(S) \in Nat
  <2> HIDE DEF S
  <2> QED BY <1>2, FS_CardinalityType
<1>8. \A s \in S : \E f \in R : s = SlotOf(place, f)
  OBVIOUS
<1>9. \A f \in R : SlotOf(place, f) \in S
  OBVIOUS
<1> HIDE DEF S, g
<1>10. /\ slots \in [D -> S] /\ \A i, j \in D : i # j => slots[i] # slots[j]
       /\ slots \in Injection(D, S)
  <2>1. slots \in [D -> S] /\ \A i, j \in D : i # j => slots[i] # slots[j]
    BY <1>4
  <2> QED BY <2>1 DEF Injection, IsInjective
<1>11. slots \in Surjection(D, S)
  <2>1. IsFiniteSet(D) /\ Cardinality(D) = Cardinality(S)
    BY <1>7, FS_Interval
  <2> QED BY <1>2, <1>10, <2>1, FS_Injection
<1>12. \A s \in S : \E k \in D : slots[k] = s
  BY <1>11 DEF Surjection
<1>13. slots \in Seq(Slot) /\ DOMAIN slots = D
  BY <1>6, <1>7, <1>10
<1>14. \A k \in D : slots[k] \in S
  BY <1>10
<1> QED BY <1>1, <1>8, <1>9, <1>10, <1>12, <1>13, <1>14

-----------------------------------------------------------------------------
(* The walk over the steps and the cores.                                  *)

(* The rounds of three loops that come before a given one.                 *)
Walked(D, N, C, d, n, c) ==
  {z \in (0 .. D - 1) \X (0 .. N - 1) \X (0 .. C - 1) :
     \/ z[1] < d
     \/ z[1] = d /\ z[2] < n
     \/ z[1] = d /\ z[2] = n /\ z[3] < c}

(* No round comes before the first.                                        *)
LEMMA WalkStarts ==
  ASSUME NEW D \in Nat, NEW N \in Nat, NEW C \in Nat
  PROVE  Walked(D, N, C, 0, 0, 0) = {}
<1>1. ASSUME NEW z \in (0 .. D - 1) \X (0 .. N - 1) \X (0 .. C - 1)
      PROVE  z[1] >= 0 /\ z[2] >= 0 /\ z[3] >= 0
  OBVIOUS
<1> QED BY <1>1 DEF Walked

(* One round on: the innermost loop first.                                 *)
GoesOn(D, N, C, d, n, c, d1, n1, c1) ==
  /\ c1 = IF c + 1 = C THEN 0 ELSE c + 1
  /\ n1 = IF c + 1 # C THEN n ELSE IF n + 1 = N THEN 0 ELSE n + 1
  /\ d1 = IF c + 1 = C /\ n + 1 = N THEN d + 1 ELSE d

(* One round on, one round more has been.                                  *)
LEMMA WalkGoesOn ==
  ASSUME NEW D \in Nat \ {0}, NEW N \in Nat \ {0}, NEW C \in Nat \ {0},
         NEW d \in 0 .. D - 1, NEW n \in 0 .. N - 1, NEW c \in 0 .. C - 1,
         NEW d1, NEW n1, NEW c1, GoesOn(D, N, C, d, n, c, d1, n1, c1)
  PROVE  /\ Walked(D, N, C, d1, n1, c1) = Walked(D, N, C, d, n, c) \cup {<<d, n, c>>}
         /\ d1 \in 0 .. D /\ n1 \in 0 .. N - 1 /\ c1 \in 0 .. C - 1
         /\ d1 = D => n1 = 0 /\ c1 = 0
<1>1. d1 \in 0 .. D /\ n1 \in 0 .. N - 1 /\ c1 \in 0 .. C - 1
  BY DEF GoesOn
<1>2. d1 = D => n1 = 0 /\ c1 = 0
  BY DEF GoesOn
<1>3. ASSUME NEW x \in 0 .. D - 1, NEW y \in 0 .. N - 1, NEW w \in 0 .. C - 1
      PROVE  (x < d1 \/ (x = d1 /\ y < n1) \/ (x = d1 /\ y = n1 /\ w < c1))
               <=> \/ x < d \/ (x = d /\ y < n) \/ (x = d /\ y = n /\ w < c)
                   \/ (x = d /\ y = n /\ w = c)
  <2>1. CASE c + 1 # C
    <3>1. c1 = c + 1 /\ n1 = n /\ d1 = d
      BY <2>1 DEF GoesOn
    <3> QED BY <3>1
  <2>2. CASE c + 1 = C /\ n + 1 # N
    <3>1. c1 = 0 /\ n1 = n + 1 /\ d1 = d
      BY <2>2 DEF GoesOn
    <3> QED BY <2>2, <3>1
  <2>3. CASE c + 1 = C /\ n + 1 = N
    <3>1. c1 = 0 /\ n1 = 0 /\ d1 = d + 1
      BY <2>3 DEF GoesOn
    <3> QED BY <2>3, <3>1
  <2> QED BY <2>1, <2>2, <2>3
<1>4. ASSUME NEW z \in (0 .. D - 1) \X (0 .. N - 1) \X (0 .. C - 1)
      PROVE  /\ z[1] \in 0 .. D - 1 /\ z[2] \in 0 .. N - 1 /\ z[3] \in 0 .. C - 1
             /\ z = <<d, n, c>> <=> z[1] = d /\ z[2] = n /\ z[3] = c
  OBVIOUS
<1>5. <<d, n, c>> \in (0 .. D - 1) \X (0 .. N - 1) \X (0 .. C - 1)
  OBVIOUS
<1>6. ASSUME NEW z \in (0 .. D - 1) \X (0 .. N - 1) \X (0 .. C - 1)
      PROVE  (z[1] < d1 \/ (z[1] = d1 /\ z[2] < n1) \/ (z[1] = d1 /\ z[2] = n1 /\ z[3] < c1))
               <=> \/ z[1] < d \/ (z[1] = d /\ z[2] < n)
                   \/ (z[1] = d /\ z[2] = n /\ z[3] < c)
                   \/ z = <<d, n, c>>
  BY ONLY <1>3, <1>4, <1>6
<1>7. Walked(D, N, C, d1, n1, c1) = Walked(D, N, C, d, n, c) \cup {<<d, n, c>>}
  BY ONLY <1>5, <1>6 DEF Walked
<1> QED BY <1>1, <1>2, <1>7

(* All rounds have come before the end.                                    *)
LEMMA WalkEnds ==
  ASSUME NEW D \in Nat, NEW N \in Nat, NEW C \in Nat
  PROVE  Walked(D, N, C, D, 0, 0) = (0 .. D - 1) \X (0 .. N - 1) \X (0 .. C - 1)
<1>1. ASSUME NEW z \in (0 .. D - 1) \X (0 .. N - 1) \X (0 .. C - 1)
      PROVE  z[1] < D
  OBVIOUS
<1> QED BY <1>1 DEF Walked

-----------------------------------------------------------------------------
(* What a schedule is once it is read, and the tiles yielded by then.      *)

IsRead(sol, s, l) ==
  /\ sol.noc \in Seq(Slot) /\ sol.dram \in Seq(Slot)
  /\ s = ScheduleFromStrategy(BuildStrategy(sol), l)
  /\ s.noc \in Loops /\ s.dram \in Loops /\ s.space \in Spatials

(* What is read is a nest on either level and a spread.                    *)
LEMMA ScheduleIsRead ==
  ASSUME MapInv, stage = "read"
  PROVE  IsRead(solution, schedule, layer)
<1>1. Solved /\ layer \in Layers /\ schedule = ScheduleFromStrategy(BuildStrategy(solution), layer)
  BY DEF MapInv
<1>2. PICK node \in SUBSET Factors(layer) :
        \E place \in [Factors(layer) \ node -> Places] :
          \E noc \in Slots(place, "noc"), dram \in Slots(place, "dram") :
            solution = [node |-> node, noc |-> noc, dram |-> dram]
  BY <1>1 DEF Solved
<1>3. PICK place \in [Factors(layer) \ node -> Places] :
        \E noc \in Slots(place, "noc"), dram \in Slots(place, "dram") :
          solution = [node |-> node, noc |-> noc, dram |-> dram]
  BY <1>2
<1>4. solution.noc \in Slots(place, "noc") /\ solution.dram \in Slots(place, "dram")
  BY <1>3
<1>5. solution.noc \in Seq(Slot) /\ solution.dram \in Seq(Slot)
  <2>1. IsPlacement(layer, place)
    BY <1>3 DEF IsPlacement
  <2> QED BY <1>1, <1>4, <2>1, SlotsAre
<1>6. PICK s : s = schedule /\ s = ScheduleFromStrategy(BuildStrategy(solution), layer)
  BY <1>1
<1>7. s.noc \in Loops /\ s.dram \in Loops /\ s.space \in Spatials
  BY <1>5, <1>6, ScheduleIs DEF Alike
<1> QED BY <1>5, <1>6, <1>7 DEF IsRead

CoresOf(s) == Steps(PeLoops(s.space))

WalkInv ==
  /\ stage # "read" => dramI = 0 /\ nocI = 0 /\ coreId = 0 /\ tiles = {}
  /\ stage = "read" =>
       /\ dramI \in 0 .. Steps(schedule.dram) /\ nocI \in 0 .. Steps(schedule.noc) - 1
       /\ coreId \in 0 .. CoresOf(schedule) - 1
       /\ dramI = Steps(schedule.dram) => nocI = 0 /\ coreId = 0
       /\ tiles = {Tile(z[1], z[2], z[3]) :
                     z \in Walked(Steps(schedule.dram), Steps(schedule.noc), CoresOf(schedule),
                                  dramI, nocI, coreId)}

TilesInv == MapInv /\ WalkInv

(* There is at least one step on either level and one core.                *)
LEMMA StepsArePositive ==
  ASSUME NEW sol, NEW s, NEW l, IsRead(sol, s, l)
  PROVE  /\ Steps(s.dram) \in Nat \ {0} /\ Steps(s.noc) \in Nat \ {0}
         /\ CoresOf(s) \in Nat \ {0}
  BY StepsAre, PeLoopsAre DEF IsRead, CoresOf

(* A tile is given by the schedule, which stays.                           *)
LEMMA TileUnchanged ==
  ASSUME UNCHANGED <<layer, schedule>>, NEW CONSTANT d, NEW CONSTANT n, NEW CONSTANT c
  PROVE  Tile(d, n, c)' = Tile(d, n, c)
<1>1. layer' = layer /\ schedule' = schedule
  OBVIOUS
<1> QED BY <1>1 DEF Tile, TileOffset, NodeBound, Loopwise, OffsetDims, CoreIndex, IsLastK

(* Every step walks one round on or leaves the tiles alone.                *)
LEMMA WalkStep ==
  ASSUME TilesInv, Next
  PROVE  TilesInv'
<1>1. CASE MapLayer /\ UNCHANGED tileVars
  <2>1. MapInv'
    BY <1>1, MapStep DEF TilesInv
  <2>2. dramI = 0 /\ nocI = 0 /\ coreId = 0 /\ tiles = {}
    BY <1>1 DEF MapLayer, Solve, WriteStrategy, ReadStrategy, TilesInv, WalkInv
  <2>3. dramI' = 0 /\ nocI' = 0 /\ coreId' = 0 /\ tiles' = {}
    BY <1>1, <2>2 DEF tileVars
  <2>4. ASSUME stage' = "read"
        PROVE  /\ Steps(schedule'.dram) \in Nat \ {0} /\ Steps(schedule'.noc) \in Nat \ {0}
               /\ CoresOf(schedule') \in Nat \ {0}
    <3>1. (stage = "read" => IsRead(solution, schedule, layer))'
      BY <2>1, ScheduleIsRead, PTL
    <3>2. IsRead(solution', schedule', layer')
      BY <2>4, <3>1
    <3> QED BY <3>2, StepsArePositive
  <2>5. ASSUME stage' = "read"
        PROVE  Walked(Steps(schedule'.dram), Steps(schedule'.noc), CoresOf(schedule'), 0, 0, 0) = {}
    BY <2>4, <2>5, WalkStarts
  <2>6. WalkInv'
    BY <2>3, <2>4, <2>5 DEF WalkInv
  <2> QED BY <2>1, <2>6 DEF TilesInv
<1>2. CASE YieldTile
  <2> DEFINE D == Steps(schedule.dram)
             N == Steps(schedule.noc)
             C == CoresOf(schedule)
  <2>1. stage = "read" /\ UNCHANGED mappingVars /\ dramI # D
    BY <1>2 DEF YieldTile, Generated
  <2>2. MapInv'
    BY <2>1, MapUnchanged DEF TilesInv
  <2>3. D \in Nat \ {0} /\ N \in Nat \ {0} /\ C \in Nat \ {0}
    BY <2>1, ScheduleIsRead, StepsArePositive DEF TilesInv
  <2>4. /\ schedule' = schedule /\ layer' = layer /\ stage' = "read"
    BY <2>1 DEF mappingVars
  <2>5. /\ dramI \in 0 .. D - 1 /\ nocI \in 0 .. N - 1 /\ coreId \in 0 .. C - 1
        /\ tiles = {Tile(z[1], z[2], z[3]) : z \in Walked(D, N, C, dramI, nocI, coreId)}
    <3>1. dramI \in 0 .. D
      BY <2>1 DEF TilesInv, WalkInv
    <3> HIDE DEF D
    <3>2. dramI \in 0 .. D - 1
      BY <2>1, <2>3, <3>1
    <3> USE DEF D
    <3> QED BY <2>1, <3>2 DEF TilesInv, WalkInv
  <2>6. coreId + 1 \notin Cores <=> coreId + 1 = C
    <3>1. Cores = 0 .. C - 1
      BY DEF Cores, Pes, CoresOf
    <3> HIDE DEF C
    <3> QED BY <2>3, <2>5, <3>1
  <2>7. /\ tiles' = tiles \cup {Tile(dramI, nocI, coreId)}
        /\ coreId' = IF coreId + 1 \notin Cores THEN 0 ELSE coreId + 1
        /\ nocI' = IF ~(coreId + 1 \notin Cores) THEN nocI
                   ELSE IF nocI + 1 = N THEN 0 ELSE nocI + 1
        /\ dramI' = IF coreId + 1 \notin Cores /\ nocI + 1 = N THEN dramI + 1 ELSE dramI
    BY <1>2 DEF YieldTile
  <2>8. /\ coreId' = IF coreId + 1 = C THEN 0 ELSE coreId + 1
        /\ nocI' = IF coreId + 1 # C THEN nocI ELSE IF nocI + 1 = N THEN 0 ELSE nocI + 1
        /\ dramI' = IF coreId + 1 = C /\ nocI + 1 = N THEN dramI + 1 ELSE dramI
    BY <2>6, <2>7
  <2>9. PICK d, n, c, d1, n1, c1 : /\ d = dramI /\ n = nocI /\ c = coreId
                                   /\ d1 = dramI' /\ n1 = nocI' /\ c1 = coreId'
    OBVIOUS
  <2>10. /\ Walked(D, N, C, d1, n1, c1) = Walked(D, N, C, d, n, c) \cup {<<d, n, c>>}
         /\ d1 \in 0 .. D /\ n1 \in 0 .. N - 1 /\ c1 \in 0 .. C - 1
         /\ d1 = D => n1 = 0 /\ c1 = 0
    <3>1. d \in 0 .. D - 1 /\ n \in 0 .. N - 1 /\ c \in 0 .. C - 1
      BY <2>5, <2>9
    <3>2. GoesOn(D, N, C, d, n, c, d1, n1, c1)
      BY <2>8, <2>9 DEF GoesOn
    <3> HIDE DEF D, N, C
    <3> QED BY <2>3, <3>1, <3>2, WalkGoesOn
  <2>11. tiles' = {Tile(z[1], z[2], z[3]) : z \in Walked(D, N, C, d1, n1, c1)}
    <3>1. tiles = {Tile(z[1], z[2], z[3]) : z \in Walked(D, N, C, d, n, c)}
      BY <2>5, <2>9
    <3>2. tiles' = tiles \cup {Tile(d, n, c)}
      BY <2>7, <2>9
    <3>3. <<d, n, c>>[1] = d /\ <<d, n, c>>[2] = n /\ <<d, n, c>>[3] = c
      OBVIOUS
    <3> HIDE DEF D, N, C
    <3> QED BY ONLY <2>10, <3>1, <3>2, <3>3
  <2>12. \A z \in Walked(D, N, C, d1, n1, c1) :
           Tile(z[1], z[2], z[3])' = Tile(z[1], z[2], z[3])
    BY <2>4, TileUnchanged
  <2>13. tiles' = {Tile(z[1], z[2], z[3])' : z \in Walked(D, N, C, d1, n1, c1)}
    BY <2>11, <2>12
  <2>14. WalkInv'
    BY <2>4, <2>9, <2>10, <2>13 DEF WalkInv
  <2> QED BY <2>2, <2>14 DEF TilesInv
<1> QED BY <1>1, <1>2 DEF Next

(* The invariant, in every reachable state.                                *)
LEMMA TilesInvHolds == Spec => []TilesInv
<1>1. TilesInit => TilesInv
  BY MapStarts DEF TilesInit, TilesInv, WalkInv, Init
<1>2. TilesInv /\ [Next]_vars => TilesInv'
  <2>1. ASSUME TilesInv, UNCHANGED vars PROVE TilesInv'
    <3>1. UNCHANGED mappingVars /\ UNCHANGED tileVars
      BY <2>1 DEF vars
    <3>2. MapInv'
      BY <2>1, <3>1, MapUnchanged DEF TilesInv
    <3>3. \A d, n, c : Tile(d, n, c)' = Tile(d, n, c)
      BY <3>1, TileUnchanged DEF mappingVars
    <3>4. WalkInv'
      BY <2>1, <3>1, <3>3 DEF TilesInv, WalkInv, mappingVars, tileVars
    <3> QED BY <3>2, <3>4 DEF TilesInv
  <2> QED BY <2>1, WalkStep
<1> QED BY <1>1, <1>2, PTL DEF Spec

-----------------------------------------------------------------------------
(* Products over finite sets, evaluated as the sums are.                   *)

(* it maps every subset of S to the product of f over it.                  *)
Multiplied(it, f, S) ==
  it = [s \in SUBSET S |->
          IF s = {} THEN 1 ELSE f[Chosen(s)] * it[s \ {Chosen(s)}]]

ProductOn(f, S) == (CHOOSE it : Multiplied(it, f, S))[S]

(* There is one table of products.                                         *)
LEMMA TablesAreUnique ==
  ASSUME NEW f, NEW g, NEW h, NEW S, IsFiniteSet(S), NEW T \in SUBSET S,
         Multiplied(g, f, S), Multiplied(h, f, T)
  PROVE  \A s \in SUBSET T : g[s] = h[s]
<1> DEFINE F == {s \in SUBSET T : g[s] # h[s]}
<1> SUFFICES ASSUME F # {} PROVE FALSE
  OBVIOUS
<1>1. \A s \in F : IsFiniteSet(s)
  BY FS_Subset
<1>2. PICK s \in F : \A r \in F : ~ (r \subseteq s /\ r # s)
  <2> HIDE DEF F
  <2> QED BY <1>1, SmallestSet
<1>3. g[s] = IF s = {} THEN 1 ELSE f[Chosen(s)] * g[s \ {Chosen(s)}]
  BY DEF Multiplied
<1>4. h[s] = IF s = {} THEN 1 ELSE f[Chosen(s)] * h[s \ {Chosen(s)}]
  BY DEF Multiplied
<1>5. s # {}
  BY <1>3, <1>4
<1>6. g[s \ {Chosen(s)}] = h[s \ {Chosen(s)}]
  BY <1>2, <1>5, ChosenIsIn
<1> QED BY <1>3, <1>4, <1>6

(* There is a table of products.                                           *)
LEMMA TablesExist ==
  ASSUME NEW f, NEW S, IsFiniteSet(S)
  PROVE  \E it : Multiplied(it, f, S)
<1> DEFINE F == {s \in SUBSET S : ~ \E it : Multiplied(it, f, s)}
<1> SUFFICES ASSUME F # {} PROVE FALSE
  OBVIOUS
<1>1. \A s \in F : IsFiniteSet(s)
  BY FS_Subset
<1>2. PICK T \in F : \A r \in F : ~ (r \subseteq T /\ r # T)
  <2> HIDE DEF F
  <2> QED BY <1>1, SmallestSet
<1> DEFINE G(s) == CHOOSE it : Multiplied(it, f, s)
           g == [s \in SUBSET T |->
                   IF s = {} THEN 1
                   ELSE f[Chosen(s)] * G(s \ {Chosen(s)})[s \ {Chosen(s)}]]
<1>3. ASSUME NEW s \in SUBSET T, s # T PROVE Multiplied(G(s), f, s)
  <2>1. \E it : Multiplied(it, f, s)
    BY <1>2, <1>3
  <2> QED BY <2>1
<1> HIDE DEF G
<1>4. ASSUME NEW u \in SUBSET T, u # T PROVE g[u] = G(u)[u]
  <2>1. Multiplied(G(u), f, u)
    BY <1>3, <1>4
  <2>2. G(u)[u] = IF u = {} THEN 1 ELSE f[Chosen(u)] * G(u)[u \ {Chosen(u)}]
    BY <2>1 DEF Multiplied
  <2>3. CASE u = {}
    BY <2>2, <2>3
  <2>4. CASE u # {}
    <3> DEFINE w == u \ {Chosen(u)}
    <3>1. w \in SUBSET T /\ w # T /\ w \in SUBSET u
      BY <2>4, ChosenIsIn
    <3>2. Multiplied(G(w), f, w)
      BY <1>3, <3>1
    <3>3. IsFiniteSet(u)
      <4>1. u \in SUBSET S
        OBVIOUS
      <4> QED BY <4>1, FS_Subset
    <3>4. G(u)[w] = G(w)[w]
      BY <2>1, <3>1, <3>2, <3>3, TablesAreUnique
    <3>5. g[u] = f[Chosen(u)] * G(w)[w]
      BY <2>4
    <3> QED BY <2>2, <2>4, <3>4, <3>5
  <2> QED BY <2>3, <2>4
<1>5. Multiplied(g, f, T)
  <2>1. ASSUME NEW s \in SUBSET T, s # {}
        PROVE  g[s] = f[Chosen(s)] * g[s \ {Chosen(s)}]
    <3>1. s \ {Chosen(s)} \in SUBSET T /\ s \ {Chosen(s)} # T
      BY <2>1, ChosenIsIn
    <3>2. g[s \ {Chosen(s)}] = G(s \ {Chosen(s)})[s \ {Chosen(s)}]
      BY <1>4, <3>1
    <3> QED BY <2>1, <3>2
  <2>2. {} \in SUBSET T /\ g[{}] = 1
    OBVIOUS
  <2>3. g = [s \in SUBSET T |-> g[s]]
    OBVIOUS
  <2> HIDE DEF g
  <2>4. \A s \in SUBSET T : g[s] = IF s = {} THEN 1 ELSE f[Chosen(s)] * g[s \ {Chosen(s)}]
    BY <2>1, <2>2
  <2> QED BY <2>3, <2>4 DEF Multiplied
<1> QED BY <1>2, <1>5

(* The product over a set is found in any table.                           *)
LEMMA ProductIsTheTotal ==
  ASSUME NEW f, NEW S, IsFiniteSet(S), NEW it, Multiplied(it, f, S)
  PROVE  ProductOn(f, S) = it[S]
<1> DEFINE c == CHOOSE h : Multiplied(h, f, S)
<1>1. Multiplied(c, f, S)
  OBVIOUS
<1> HIDE DEF c
<1>2. c[S] = it[S]
  BY <1>1, TablesAreUnique
<1>3. ProductOn(f, S) = c[S]
  BY DEF ProductOn, c
<1> QED BY <1>2, <1>3

(* It is one factor times the product of the rest.                         *)
LEMMA ProductOnStep ==
  ASSUME NEW f, NEW S, IsFiniteSet(S)
  PROVE  ProductOn(f, S)
           = IF S = {} THEN 1
             ELSE f[Chosen(S)] * ProductOn(f, S \ {Chosen(S)})
<1>1. PICK it : Multiplied(it, f, S)
  BY TablesExist
<1>2. ProductOn(f, S) = it[S]
  BY <1>1, ProductIsTheTotal
<1>3. it[S] = IF S = {} THEN 1 ELSE f[Chosen(S)] * it[S \ {Chosen(S)}]
  BY <1>1 DEF Multiplied
<1> DEFINE R == S \ {Chosen(S)}
<1>4. IsFiniteSet(R) /\ R \in SUBSET S
  BY FS_Subset
<1> HIDE DEF R
<1>5. PICK h : Multiplied(h, f, R)
  BY <1>4, TablesExist
<1>6. ProductOn(f, R) = h[R]
  BY <1>4, <1>5, ProductIsTheTotal
<1>7. h[R] = it[R]
  BY <1>1, <1>4, <1>5, TablesAreUnique
<1> QED BY <1>2, <1>3, <1>6, <1>7 DEF R

(* A product of positive numbers is one.                                   *)
LEMMA ProductOnType ==
  ASSUME NEW f, NEW S, IsFiniteSet(S), \A x \in S : f[x] \in Nat \ {0}
  PROVE  ProductOn(f, S) \in Nat \ {0}
<1> DEFINE F == {s \in SUBSET S : ProductOn(f, s) \notin Nat \ {0}}
<1> SUFFICES ASSUME F # {} PROVE FALSE
  OBVIOUS
<1>1. \A s \in F : IsFiniteSet(s)
  BY FS_Subset
<1> HIDE DEF F
<1>2. PICK s \in F : \A r \in F : ~ (r \subseteq s /\ r # s)
  BY <1>1, SmallestSet
<1>3. s \in SUBSET S /\ IsFiniteSet(s) /\ ProductOn(f, s) \notin Nat \ {0}
  BY <1>1, <1>2 DEF F
<1>4. ProductOn(f, s)
        = IF s = {} THEN 1
          ELSE f[Chosen(s)] * ProductOn(f, s \ {Chosen(s)})
  BY <1>3, ProductOnStep
<1>5. s # {}
  BY <1>3, <1>4
<1>6. Chosen(s) \in s
  BY <1>5, ChosenIsIn
<1>7. ProductOn(f, s \ {Chosen(s)}) \in Nat \ {0}
  <2>1. s \ {Chosen(s)} \notin F
    BY <1>2, <1>6
  <2> QED BY <1>3, <2>1 DEF F
<1>8. f[Chosen(s)] \in Nat \ {0}
  BY <1>3, <1>6
<1> DEFINE a == f[Chosen(s)]
           b == ProductOn(f, s \ {Chosen(s)})
<1>9. a \in Nat \ {0} /\ b \in Nat \ {0} => a * b \in Nat \ {0}
  <2> HIDE DEF a, b
  <2> QED OBVIOUS
<1> QED BY <1>3, <1>4, <1>5, <1>7, <1>8, <1>9

(* In whatever order it is computed, a member can be taken out.            *)
LEMMA ProductOnInsert ==
  ASSUME NEW f, NEW S, IsFiniteSet(S), NEW x \in S, \A y \in S : f[y] \in Nat \ {0}
  PROVE  ProductOn(f, S) = f[x] * ProductOn(f, S \ {x})
<1> DEFINE F == {s \in SUBSET S : \E y \in s :
                   ProductOn(f, s)
                     # f[y] * ProductOn(f, s \ {y})}
<1> SUFFICES ASSUME F # {} PROVE FALSE
  OBVIOUS
<1>1. \A s \in SUBSET S : IsFiniteSet(s)
  BY FS_Subset
<1>a. \A s \in F : IsFiniteSet(s)
  BY <1>1
<1> HIDE DEF F
<1>2. PICK s \in F : \A r \in F : ~ (r \subseteq s /\ r # s)
  BY <1>a, SmallestSet
<1>3. PICK y \in s : ProductOn(f, s) # f[y] * ProductOn(f, s \ {y})
  BY <1>2 DEF F
<1>4. s \in SUBSET S /\ IsFiniteSet(s) /\ s # {}
  BY <1>1, <1>2, <1>3 DEF F
<1> DEFINE c == Chosen(s)
           r == (s \ {c}) \ {y}
<1>5. c \in s
  BY <1>4, ChosenIsIn
<1>6. ProductOn(f, s) = f[c] * ProductOn(f, s \ {c})
  BY <1>4, ProductOnStep
<1> HIDE DEF c
<1>7. y # c
  BY <1>3, <1>6
<1>8. \A z \in S : \A t \in SUBSET s : t # s /\ z \in t =>
        ProductOn(f, t) = f[z] * ProductOn(f, t \ {z})
  BY <1>2, <1>4 DEF F
<1>9. ProductOn(f, s \ {c}) = f[y] * ProductOn(f, r)
  BY <1>4, <1>5, <1>7, <1>8
<1>10. ProductOn(f, s \ {y}) = f[c] * ProductOn(f, r)
  <2>1. r = (s \ {y}) \ {c}
    OBVIOUS
  <2> QED BY <1>4, <1>5, <1>7, <1>8, <2>1
<1>11. f[c] \in Nat \ {0} /\ f[y] \in Nat \ {0} /\ ProductOn(f, r) \in Nat \ {0}
  <2>1. r \in SUBSET S /\ IsFiniteSet(r)
    BY <1>1, <1>4
  <2>2. \A z \in r : f[z] \in Nat \ {0}
    BY <2>1
  <2> HIDE DEF r
  <2> QED BY <1>4, <1>5, <2>1, <2>2, ProductOnType
<1> DEFINE R == ProductOn(f, r)
           A == f[c]
           B == f[y]
<1>12. A * (B * R) = B * (A * R)
  <2>1. A \in Nat \ {0} /\ B \in Nat \ {0} /\ R \in Nat \ {0}
    BY <1>11
  <2> HIDE DEF A, B, R
  <2> QED BY <2>1
<1> QED BY <1>3, <1>6, <1>9, <1>10, <1>12

(* Equal factors have equal products.                                      *)
LEMMA ProductOnEqual ==
  ASSUME NEW f, NEW g, NEW S, IsFiniteSet(S), \A x \in S : f[x] = g[x]
  PROVE  ProductOn(f, S) = ProductOn(g, S)
<1> DEFINE F == {s \in SUBSET S : ProductOn(f, s) # ProductOn(g, s)}
<1> SUFFICES ASSUME F # {} PROVE FALSE
  OBVIOUS
<1>1. \A s \in F : IsFiniteSet(s)
  BY FS_Subset
<1> HIDE DEF F
<1>2. PICK s \in F : \A r \in F : ~ (r \subseteq s /\ r # s)
  BY <1>1, SmallestSet
<1>3. s \in SUBSET S /\ IsFiniteSet(s)
      /\ ProductOn(f, s) # ProductOn(g, s)
  BY <1>1, <1>2 DEF F
<1>4. /\ ProductOn(f, s)
           = IF s = {} THEN 1
             ELSE f[Chosen(s)] * ProductOn(f, s \ {Chosen(s)})
      /\ ProductOn(g, s)
           = IF s = {} THEN 1
             ELSE g[Chosen(s)] * ProductOn(g, s \ {Chosen(s)})
  BY <1>3, ProductOnStep
<1>5. s # {}
  BY <1>3, <1>4
<1>6. Chosen(s) \in s
  BY <1>5, ChosenIsIn
<1>7. ProductOn(f, s \ {Chosen(s)}) = ProductOn(g, s \ {Chosen(s)})
  <2>1. s \ {Chosen(s)} \notin F
    BY <1>2, <1>6
  <2> QED BY <1>3, <2>1 DEF F
<1> QED BY <1>3, <1>4, <1>5, <1>6, <1>7

(* A new member multiplies the product by its factor.                      *)
LEMMA ProductOnAdd ==
  ASSUME NEW f, NEW S, IsFiniteSet(S), NEW x, x \notin S,
         \A y \in S \cup {x} : f[y] \in Nat \ {0}
  PROVE  ProductOn(f, S \cup {x}) = f[x] * ProductOn(f, S)
<1> DEFINE T == S \cup {x}
<1>1. IsFiniteSet(T) /\ x \in T /\ S = T \ {x} /\ \A y \in T : f[y] \in Nat \ {0}
  BY FS_AddElement
<1> HIDE DEF T
<1>2. ProductOn(f, T) = f[x] * ProductOn(f, T \ {x})
  BY <1>1, ProductOnInsert
<1> QED BY <1>1, <1>2 DEF T

(* The products over two sets that share nothing multiply.                 *)
LEMMA ProductOnUnion ==
  ASSUME NEW f, NEW S, NEW T, IsFiniteSet(S), IsFiniteSet(T), S \cap T = {},
         \A x \in S \cup T : f[x] \in Nat \ {0}
  PROVE  ProductOn(f, S \cup T) = ProductOn(f, S) * ProductOn(f, T)
<1> DEFINE F == {t \in SUBSET T : ProductOn(f, S \cup t)
                                    # ProductOn(f, S) * ProductOn(f, t)}
<1> SUFFICES ASSUME F # {} PROVE FALSE
  OBVIOUS
<1>1. \A t \in SUBSET T : IsFiniteSet(t)
  BY FS_Subset
<1>2. \A t \in F : IsFiniteSet(t)
  BY <1>1
<1> HIDE DEF F
<1>3. PICK t \in F : \A r \in F : ~ (r \subseteq t /\ r # t)
  BY <1>2, SmallestSet
<1>4. t \in SUBSET T
      /\ ProductOn(f, S \cup t) # ProductOn(f, S) * ProductOn(f, t)
  BY <1>3 DEF F
<1>5. ProductOn(f, S) \in Nat \ {0}
  BY ProductOnType
<1>6. t # {}
  <2>1. ProductOn(f, {}) = 1
    BY ProductOnStep, FS_EmptySet
  <2>2. S \cup {} = S
    OBVIOUS
  <2>3. ProductOn(f, S) = ProductOn(f, S) * 1
    BY <1>5
  <2> QED BY <1>4, <2>1, <2>2, <2>3
<1>7. PICK x \in t : TRUE
  BY <1>6
<1> DEFINE r == t \ {x}
           U == S \cup r
<1>8. /\ r \in SUBSET T /\ r # t /\ r \subseteq t /\ x \notin r /\ x \notin U
      /\ t = r \cup {x} /\ S \cup t = U \cup {x}
  BY <1>4, <1>7
<1>9. IsFiniteSet(r) /\ IsFiniteSet(U)
  BY <1>1, <1>8, FS_Union
<1>10. ProductOn(f, U) = ProductOn(f, S) * ProductOn(f, r)
  BY <1>3, <1>8 DEF F
<1>11. (\A y \in r \cup {x} : f[y] \in Nat \ {0}) /\ (\A y \in U \cup {x} : f[y] \in Nat \ {0})
  BY <1>4, <1>8
<1>12. ProductOn(f, r) \in Nat \ {0} /\ f[x] \in Nat \ {0}
  BY <1>9, <1>11, ProductOnType
<1> HIDE DEF r, U
<1>13. ProductOn(f, t) = f[x] * ProductOn(f, r)
  BY <1>8, <1>9, <1>11, ProductOnAdd
<1>14. ProductOn(f, S \cup t) = f[x] * ProductOn(f, U)
  BY <1>8, <1>9, <1>11, ProductOnAdd
<1>15. \A a, b, c \in Nat \ {0} : a * (b * c) = b * (a * c)
  OBVIOUS
<1> QED BY <1>4, <1>5, <1>10, <1>12, <1>13, <1>14, <1>15

-----------------------------------------------------------------------------
(* The factors of a set multiplied.                                        *)

(* A number taken from the table of any function with the set's values.    *)
LEMMA TimesIs ==
  ASSUME NEW S, IsFiniteSet(S), NEW f, \A x \in S : f[x] = x.factor
  PROVE  Times(S) = ProductOn(f, S)
<1> DEFINE T(h) == h = [s \in SUBSET S |->
                          IF s = {} THEN 1
                          ELSE Chosen(s).factor * h[s \ {Chosen(s)}]]
           c == CHOOSE h : T(h)
<1>1. \A s \in SUBSET S : s # {} => f[Chosen(s)] = Chosen(s).factor
  BY ChosenIsIn
<1>2. PICK it : Multiplied(it, f, S)
  BY TablesExist
<1>3. T(it)
  BY <1>1, <1>2 DEF Multiplied
<1>4. T(c)
  BY <1>3
<1>5. Multiplied(c, f, S)
  BY <1>1, <1>4 DEF Multiplied
<1>6. Times(S) = c[S]
  BY DEF Times, ProductOver, MapThenFoldSet, Chosen
<1> HIDE DEF c, T
<1> QED BY <1>5, <1>6, ProductIsTheTotal

(* A product of factors is a positive number.                              *)
LEMMA TimesType ==
  ASSUME NEW S, IsFiniteSet(S), \A x \in S : x.factor \in Nat \ {0}
  PROVE  Times(S) \in Nat \ {0}
<1> DEFINE f == [x \in S |-> x.factor]
<1>1. \A x \in S : f[x] = x.factor /\ f[x] \in Nat \ {0}
  OBVIOUS
<1> HIDE DEF f
<1> QED BY <1>1, TimesIs, ProductOnType

(* No factors have the product one.                                        *)
LEMMA TimesOfNone == Times({}) = 1
<1> DEFINE f == [x \in {} |-> 1]
<1>1. Times({}) = ProductOn(f, {})
  BY TimesIs, FS_EmptySet
<1>2. ProductOn(f, {}) = 1
  BY ProductOnStep, FS_EmptySet
<1> QED BY <1>1, <1>2

(* Two sets of factors that share none multiply.                           *)
LEMMA TimesUnion ==
  ASSUME NEW S, NEW T, IsFiniteSet(S), IsFiniteSet(T), S \cap T = {},
         \A x \in S \cup T : x.factor \in Nat \ {0}
  PROVE  Times(S \cup T) = Times(S) * Times(T) /\ IsFiniteSet(S \cup T)
<1> DEFINE f == [x \in S \cup T |-> x.factor]
<1>1. \A x \in S \cup T : f[x] = x.factor /\ f[x] \in Nat \ {0}
  OBVIOUS
<1>2. IsFiniteSet(S \cup T)
  BY FS_Union
<1> HIDE DEF f
<1>3. Times(S \cup T) = ProductOn(f, S \cup T)
  BY <1>1, <1>2, TimesIs
<1>4. Times(S) = ProductOn(f, S) /\ Times(T) = ProductOn(f, T)
  BY <1>1, TimesIs
<1> QED BY <1>1, <1>2, <1>3, <1>4, ProductOnUnion

(* One more factor multiplies the product.                                 *)
LEMMA TimesAdd ==
  ASSUME NEW S, IsFiniteSet(S), NEW x, x \notin S,
         \A y \in S \cup {x} : y.factor \in Nat \ {0}
  PROVE  Times(S \cup {x}) = x.factor * Times(S) /\ IsFiniteSet(S \cup {x})
<1> DEFINE T == S \cup {x}
           f == [y \in T |-> y.factor]
<1>1. /\ IsFiniteSet(T) /\ \A y \in T : f[y] = y.factor /\ f[y] \in Nat \ {0}
      /\ \A y \in S : f[y] = y.factor
      /\ f[x] = x.factor
  BY FS_AddElement
<1> HIDE DEF f
<1>2. Times(T) = ProductOn(f, T)
  BY <1>1, TimesIs
<1>3. Times(S) = ProductOn(f, S)
  BY <1>1, TimesIs
<1>4. ProductOn(f, S \cup {x}) = f[x] * ProductOn(f, S)
  BY <1>1, ProductOnAdd
<1> QED BY <1>1, <1>2, <1>3, <1>4

(* The members of one set have the factors of the other's, one for one.    *)
LEMMA TimesOfImage ==
  ASSUME NEW S, IsFiniteSet(S), NEW g, \A x \in S : g[x].factor = x.factor,
         \A x \in S : x.factor \in Nat \ {0}, \A x, y \in S : g[x] = g[y] => x = y
  PROVE  Times({g[x] : x \in S}) = Times(S) /\ IsFiniteSet({g[x] : x \in S})
<1> DEFINE M(s) == {g[x] : x \in s}
           F == {s \in SUBSET S : Times(M(s)) # Times(s)}
<1>1. ASSUME NEW s \in SUBSET S PROVE IsFiniteSet(s) /\ IsFiniteSet(M(s))
  <2>1. IsFiniteSet(s)
    BY FS_Subset
  <2> QED BY <2>1, ImageIsFinite
<1>2. \A s \in F : IsFiniteSet(s)
  BY <1>1
<1>3. F = {}
  <2> SUFFICES ASSUME F # {} PROVE FALSE
    OBVIOUS
  <2> HIDE DEF F
  <2>1. PICK s \in F : \A r \in F : ~ (r \subseteq s /\ r # s)
    BY <1>2, SmallestSet
  <2>2. s \in SUBSET S /\ Times(M(s)) # Times(s)
    BY <2>1 DEF F
  <2>3. s # {}
    <3>1. M({}) = {}
      OBVIOUS
    <3> HIDE DEF M
    <3> QED BY <2>2, <3>1
  <2>4. PICK x \in s : TRUE
    BY <2>3
  <2> DEFINE r == s \ {x}
             R == M(r)
  <2>5. r \in SUBSET S /\ r # s /\ r \subseteq s /\ x \notin r /\ s = r \cup {x}
    BY <2>2, <2>4
  <2>6. M(s) = R \cup {g[x]}
    BY <2>5
  <2>7. g[x] \notin R
    <3> SUFFICES ASSUME NEW k \in r, g[x] = g[k] PROVE FALSE
      OBVIOUS
    <3>1. k \in S /\ x \in S
      BY <2>2, <2>4
    <3> QED BY <2>5, <3>1
  <2>8. IsFiniteSet(r) /\ IsFiniteSet(R)
    BY <1>1, <2>5
  <2>9. Times(R) = Times(r)
    BY <2>1, <2>5 DEF F
  <2>10. \A y \in r \cup {x} : y.factor \in Nat \ {0}
    BY <2>2, <2>4
  <2>11. \A y \in R \cup {g[x]} : y.factor \in Nat \ {0}
    BY <2>2, <2>4
  <2>12. g[x].factor = x.factor
    BY <2>2, <2>4
  <2> HIDE DEF r, R, M
  <2>13. Times(s) = x.factor * Times(r)
    BY <2>5, <2>8, <2>10, TimesAdd
  <2>14. Times(R \cup {g[x]}) = g[x].factor * Times(R)
    BY <2>7, <2>8, <2>11, TimesAdd
  <2> QED BY <2>2, <2>6, <2>9, <2>12, <2>13, <2>14
<1>4. S \in SUBSET S
  OBVIOUS
<1> QED BY <1>1, <1>3, <1>4

(* Taken dimension by dimension.                                           *)
LEMMA TimesByDimension ==
  ASSUME NEW S, IsFiniteSet(S), \A x \in S : x.factor \in Nat \ {0}, NEW D, IsFiniteSet(D),
         NEW f, \A dim \in D : f[dim] = Times({x \in S : x.dim = dim})
  PROVE  Times({x \in S : x.dim \in D}) = ProductOn(f, D)
<1> DEFINE M(E) == {x \in S : x.dim \in E}
           F == {E \in SUBSET D : Times(M(E)) # ProductOn(f, E)}
<1>1. \A E : IsFiniteSet(M(E))
  BY FS_Subset
<1>2. \A E \in SUBSET D : IsFiniteSet(E)
  BY FS_Subset
<1>3. F = {}
  <2> SUFFICES ASSUME F # {} PROVE FALSE
    OBVIOUS
  <2>a. \A E \in F : IsFiniteSet(E)
    BY <1>2
  <2> HIDE DEF F
  <2>1. PICK E \in F : \A G \in F : ~ (G \subseteq E /\ G # E)
    BY <2>a, SmallestSet
  <2>2. E \in SUBSET D /\ Times(M(E)) # ProductOn(f, E)
    BY <2>1 DEF F
  <2>3. E # {}
    <3>1. M({}) = {}
      OBVIOUS
    <3>2. ProductOn(f, {}) = 1
      BY ProductOnStep, FS_EmptySet
    <3> HIDE DEF M
    <3> QED BY <2>2, <3>1, <3>2, TimesOfNone
  <2>4. PICK dim \in E : TRUE
    BY <2>3
  <2> DEFINE G == E \ {dim}
             X == {x \in S : x.dim = dim}
             Y == M(G)
  <2>5. G \in SUBSET D /\ G # E /\ G \subseteq E /\ dim \notin G /\ E = G \cup {dim} /\ dim \in D
    BY <2>2, <2>4
  <2>6. M(E) = X \cup Y /\ X \cap Y = {}
    BY <2>4
  <2>7. IsFiniteSet(X) /\ IsFiniteSet(Y) /\ IsFiniteSet(G)
    BY <1>1, <1>2, <2>5, FS_Subset
  <2>8. Times(Y) = ProductOn(f, G)
    BY <2>1, <2>5 DEF F
  <2>9. \A x \in X \cup Y : x.factor \in Nat \ {0}
    OBVIOUS
  <2>10. Times(X) = f[dim]
    BY <2>5
  <2>11. ASSUME NEW e \in D PROVE f[e] \in Nat \ {0}
    <3>1. IsFiniteSet({x \in S : x.dim = e})
      BY FS_Subset
    <3>2. \A x \in {x \in S : x.dim = e} : x.factor \in Nat \ {0}
      OBVIOUS
    <3> QED BY <3>1, <3>2, TimesType
  <2>12. \A e \in G \cup {dim} : f[e] \in Nat \ {0}
    BY <2>5, <2>11
  <2> HIDE DEF G, X, Y, M
  <2>13. Times(M(E)) = Times(X) * Times(Y)
    BY <2>6, <2>7, <2>9, TimesUnion
  <2>14. ProductOn(f, E) = f[dim] * ProductOn(f, G)
    BY <2>5, <2>7, <2>12, ProductOnAdd
  <2> QED BY <2>2, <2>8, <2>10, <2>13, <2>14
<1>4. D \in SUBSET D
  OBVIOUS
<1> QED BY <1>3, <1>4

(* A product of products.                                                  *)
LEMMA ProductOnTimes ==
  ASSUME NEW S, IsFiniteSet(S), NEW f, NEW g, NEW h,
         \A x \in S : f[x] \in Nat \ {0} /\ g[x] \in Nat \ {0} /\ h[x] = f[x] * g[x]
  PROVE  ProductOn(h, S) = ProductOn(f, S) * ProductOn(g, S)
<1> DEFINE F == {s \in SUBSET S : ProductOn(h, s) # ProductOn(f, s) * ProductOn(g, s)}
<1>1. \A s \in SUBSET S : IsFiniteSet(s)
  BY FS_Subset
<1>2. F = {}
  <2> SUFFICES ASSUME F # {} PROVE FALSE
    OBVIOUS
  <2>a. \A s \in F : IsFiniteSet(s)
    BY <1>1
  <2> HIDE DEF F
  <2>1. PICK s \in F : \A r \in F : ~ (r \subseteq s /\ r # s)
    BY <2>a, SmallestSet
  <2>2. s \in SUBSET S /\ ProductOn(h, s) # ProductOn(f, s) * ProductOn(g, s)
    BY <2>1 DEF F
  <2>3. s # {}
    <3>1. ProductOn(f, {}) = 1 /\ ProductOn(g, {}) = 1 /\ ProductOn(h, {}) = 1
      BY ProductOnStep, FS_EmptySet
    <3>2. 1 = 1 * 1
      OBVIOUS
    <3> QED BY <2>2, <3>1, <3>2
  <2>4. PICK x \in s : TRUE
    BY <2>3
  <2> DEFINE r == s \ {x}
  <2>5. /\ r \in SUBSET S /\ r # s /\ r \subseteq s /\ x \notin r /\ s = r \cup {x}
        /\ IsFiniteSet(r)
    BY <1>1, <2>2, <2>4
  <2>6. \A y \in r \cup {x} : f[y] \in Nat \ {0} /\ g[y] \in Nat \ {0} /\ h[y] \in Nat \ {0}
    <3>1. \A y \in r \cup {x} : f[y] \in Nat \ {0} /\ g[y] \in Nat \ {0} /\ h[y] = f[y] * g[y]
      BY <2>2, <2>4
    <3>2. \A a, b \in Nat \ {0} : a * b \in Nat \ {0}
      OBVIOUS
    <3> QED BY <3>1, <3>2
  <2>7. ProductOn(h, r) = ProductOn(f, r) * ProductOn(g, r)
    BY <2>1, <2>5 DEF F
  <2> HIDE DEF r
  <2>8. /\ ProductOn(f, s) = f[x] * ProductOn(f, r)
        /\ ProductOn(g, s) = g[x] * ProductOn(g, r)
        /\ ProductOn(h, s) = h[x] * ProductOn(h, r)
    BY <2>5, <2>6, ProductOnAdd
  <2>9. ProductOn(f, r) \in Nat /\ ProductOn(g, r) \in Nat /\ f[x] \in Nat /\ g[x] \in Nat
    BY <2>5, <2>6, ProductOnType
  <2>10. h[x] = f[x] * g[x]
    BY <2>2, <2>4
  <2>11. \A a, b, p, q \in Nat : (a * b) * (p * q) = (a * p) * (b * q)
    OBVIOUS
  <2> QED BY <2>2, <2>7, <2>8, <2>9, <2>10, <2>11
<1>3. S \in SUBSET S
  OBVIOUS
<1> QED BY <1>2, <1>3

-----------------------------------------------------------------------------
(* What the loops have of the factors.                                     *)

LEMMA LoopWithSlot ==
  ASSUME NEW slots \in Seq(Slot), NEW t \in Slot
  PROVE  Loop(Append(slots, t)) = Append(Loop(slots), LoopOver(t.dim, t.factor))
<1> DEFINE n == Len(slots)
           s == Append(slots, t)
           e == LoopOver(t.dim, t.factor)
           a == Loop(s)
           b == Append(Loop(slots), e)
<1>1. s \in Seq(Slot) /\ Len(s) = n + 1 /\ n \in Nat /\ s[n + 1] = t
      /\ \A k \in 1 .. n : s[k] = slots[k]
  OBVIOUS
<1>2. e \in LoopType
  BY DEF LoopOver, LoopType, Slot
<1>3. /\ Loop(slots) \in Loops /\ Len(Loop(slots)) = n
      /\ \A k \in 1 .. n : Loop(slots)[k] = LoopOver(slots[k].dim, slots[k].factor)
  BY LoopIs
<1>4. /\ a \in Loops /\ DOMAIN a = 1 .. n + 1
      /\ \A k \in 1 .. n + 1 : a[k] = LoopOver(s[k].dim, s[k].factor)
  <2> HIDE DEF s
  <2> QED BY <1>1, LoopIs
<1>5. /\ b \in Loops /\ DOMAIN b = 1 .. n + 1 /\ b[n + 1] = e
      /\ \A k \in 1 .. n : b[k] = Loop(slots)[k]
  <2> HIDE DEF e
  <2> QED BY <1>2, <1>3, WithLoop
<1> HIDE DEF n, s, a, b
<1>6. ASSUME NEW k \in 1 .. n + 1 PROVE a[k] = b[k]
  <2>1. CASE k = n + 1
    BY <1>1, <1>4, <1>5, <2>1 DEF e
  <2>2. CASE k # n + 1
    <3>1. k \in 1 .. n
      BY <1>1, <2>2
    <3> QED BY <1>1, <1>3, <1>4, <1>5, <3>1
  <2> QED BY <2>1, <2>2
<1>7. a \in Seq(LoopType) /\ b \in Seq(LoopType)
  BY <1>4, <1>5 DEF Loops, LoopType
<1>8. a = [k \in 1 .. n + 1 |-> a[k]] /\ b = [k \in 1 .. n + 1 |-> b[k]]
  BY <1>4, <1>5, <1>7
<1> QED BY <1>6, <1>8 DEF a, b, s, e

(* The first slots of a kind over a dimension.                             *)
Taken(slots, k, kind, dim) ==
  {slots[i] : i \in {j \in 1 .. k : slots[j].dim = dim /\ slots[j].kind = kind}}

(* The loops over a dimension multiply to the factors that the slots took. *)
LEMMA OverMultiplies ==
  ASSUME NEW slots \in Seq(Slot), \A i, j \in DOMAIN slots : slots[i] = slots[j] => i = j,
         NEW kind, NEW dim
  PROVE  /\ Total(Loop(Over(slots, kind)), dim) = Times(Taken(slots, Len(slots), kind, dim))
         /\ IsFiniteSet(Taken(slots, Len(slots), kind, dim))
<1> DEFINE n == Len(slots)
           U(k) == Taken(slots, k, kind, dim)
<1>1. PICK acc : /\ Accumulates(acc, Seq(Slot), ChosenSlots(slots, kind), <<>>, n)
                 /\ acc[n] = Over(slots, kind)
  BY OverIs
<1>2. n \in Nat /\ DOMAIN slots = 1 .. n /\ \A k \in 1 .. n : slots[k] \in Slot
  OBVIOUS
<1> HIDE DEF n
<1>3. /\ acc[0] = <<>> /\ \A k \in 0 .. n : acc[k] \in Seq(Slot)
      /\ \A k \in 1 .. n : acc[k] = ChosenSlots(slots, kind)[<<acc[k - 1], k>>]
  BY <1>1 DEF Accumulates
<1>4. ASSUME NEW k \in 1 .. n
      PROVE  /\ acc[k - 1] \in Seq(Slot)
             /\ acc[k] = IF slots[k].kind = kind THEN Append(acc[k - 1], slots[k]) ELSE acc[k - 1]
  <2>1. k - 1 \in 0 .. n
    BY <1>2
  <2>2. <<acc[k - 1], k>> \in Seq(Slot) \X DOMAIN slots
    BY <1>2, <1>3, <2>1
  <2> QED BY <1>3, <2>1, <2>2 DEF ChosenSlots
<1> DEFINE G == {k \in Nat : Total(Loop(acc[k]), dim) = Times(U(k)) /\ IsFiniteSet(U(k))}
<1>5. \A k \in 0 .. n : k \in G
  <2>1. 0 \in G
    <3>1. U(0) = {}
      BY DEF Taken
    <3>2. Loop(<<>>) = <<>>
      BY DEF Loop
    <3> HIDE DEF U
    <3> QED BY <1>3, <3>1, <3>2, ProductOfNone, TimesOfNone, FS_EmptySet DEF Total
  <2>2. ASSUME NEW k \in 1 .. n, k - 1 \in G PROVE k \in G
    <3>1. PICK a \in Seq(Slot) : a = acc[k - 1]
      BY <1>4
    <3>2. PICK t \in Slot : t = slots[k]
      BY <1>2
    <3>3. Total(Loop(a), dim) = Times(U(k - 1)) /\ IsFiniteSet(U(k - 1))
      BY <2>2, <3>1
    <3>4. LoopOver(t.dim, t.factor) \in LoopType /\ t.factor \in Nat \ {0}
      BY DEF LoopOver, LoopType, Slot
    <3>5. Loop(a) \in Loops
      BY LoopIs
    <3>6. \A x \in U(k) : x.factor \in Nat \ {0}
      <4>1. \A i \in 1 .. k : i \in 1 .. n
        BY <1>2
      <4>2. \A i \in 1 .. k : slots[i].factor \in Nat \ {0}
        BY <1>2, <4>1 DEF Slot
      <4> QED BY <4>2 DEF Taken
    <3>7. /\ k \in 1 .. k /\ \A i \in 1 .. k - 1 : i \in 1 .. k /\ i \in 1 .. n /\ i # k
          /\ \A i \in 1 .. k : i \in 1 .. k - 1 \/ i = k
      BY <1>2
    <3>8. CASE t.kind # kind
      <4>1. acc[k] = a
        BY <1>4, <3>1, <3>2, <3>8
      <4>2. U(k) = U(k - 1)
        BY <3>2, <3>7, <3>8 DEF Taken
      <4> HIDE DEF U
      <4> QED BY <1>2, <3>3, <4>1, <4>2
    <3>9. CASE t.kind = kind /\ t.dim # dim
      <4>1. acc[k] = Append(a, t)
        BY <1>4, <3>1, <3>2, <3>9
      <4>2. U(k) = U(k - 1)
        BY <3>2, <3>7, <3>9 DEF Taken
      <4>3. Loop(acc[k]) = Append(Loop(a), LoopOver(t.dim, t.factor))
        BY <4>1, LoopWithSlot
      <4>4. Total(Loop(acc[k]), dim) = Total(Loop(a), dim) * 1
        BY <3>4, <3>5, <3>9, <4>3, ProductWithLoop DEF Total, LoopOver
      <4>5. Total(Loop(a), dim) \in Nat
        BY <3>5, ProductIsNat DEF Total
      <4>6. Total(Loop(acc[k]), dim) = Total(Loop(a), dim)
        BY <4>4, <4>5
      <4> HIDE DEF U
      <4> QED BY <1>2, <3>3, <4>2, <4>6
    <3>10. CASE t.kind = kind /\ t.dim = dim
      <4>1. acc[k] = Append(a, t)
        BY <1>4, <3>1, <3>2, <3>10
      <4>2. U(k) = U(k - 1) \cup {t}
        BY <3>2, <3>7, <3>10 DEF Taken
      <4>3. t \notin U(k - 1)
        <5> SUFFICES ASSUME t \in U(k - 1) PROVE FALSE
          OBVIOUS
        <5>1. PICK i \in 1 .. k - 1 : slots[i] = t
          BY DEF Taken
        <5> QED BY <1>2, <3>2, <3>7, <5>1
      <4>4. Loop(acc[k]) = Append(Loop(a), LoopOver(t.dim, t.factor))
        BY <4>1, LoopWithSlot
      <4>5. Total(Loop(acc[k]), dim) = Total(Loop(a), dim) * t.factor
        BY <3>4, <3>5, <3>10, <4>4, ProductWithLoop DEF Total, LoopOver
      <4>6. Total(Loop(a), dim) \in Nat
        BY <3>5, ProductIsNat DEF Total
      <4> HIDE DEF U
      <4>7. Times(U(k)) = t.factor * Times(U(k - 1)) /\ IsFiniteSet(U(k))
        BY <3>3, <3>6, <4>2, <4>3, TimesAdd
      <4>8. Total(Loop(acc[k]), dim) = Times(U(k))
        <5>1. \A x, y \in Nat : x * y = y * x
          OBVIOUS
        <5> QED BY <3>3, <3>4, <4>5, <4>6, <4>7, <5>1
      <4> QED BY <1>2, <4>7, <4>8
    <3> QED BY <3>8, <3>9, <3>10
  <2> HIDE DEF G
  <2> QED BY <1>2, <2>1, <2>2, UpTo
<1>6. n \in 0 .. n
  BY <1>2
<1>7. n \in G
  BY <1>5, <1>6
<1> QED BY <1>1, <1>7 DEF n

-----------------------------------------------------------------------------
(* Every factor of a dimension is in the node or has its slot.             *)

Of(S, dim) == {f \in S : f.dim = dim}

(* The factors of one dimension among all.                                 *)
LEMMA FactorsOfDimension ==
  ASSUME NEW l \in Layers, NEW dim \in Dims
  PROVE  FactorsOf(l, dim) = Of(Factors(l), dim)
<1>1. ASSUME NEW f \in FactorsOf(l, dim) PROVE f \in Of(Factors(l), dim)
  BY DEF FactorsOf, Factors, Of
<1>2. ASSUME NEW f \in Of(Factors(l), dim) PROVE f \in FactorsOf(l, dim)
  BY FactorsAre DEF FactorsOf, Of
<1> QED BY <1>1, <1>2

(* Any set of a layer's factors has a product.                             *)
LEMMA SetOfFactors ==
  ASSUME NEW l \in Layers, NEW S \in SUBSET Factors(l)
  PROVE  /\ IsFiniteSet(S) /\ Times(S) \in Nat \ {0}
         /\ \A x \in S : x.factor \in Nat \ {0} /\ x.dim \in Dims
<1>1. IsFiniteSet(S)
  BY FactorsAreFinite, FS_Subset
<1>2. \A x \in S : x.factor \in Nat \ {0} /\ x.dim \in Dims
  BY FactorsAre
<1> QED BY <1>1, <1>2, TimesType

(* The factors of a dimension and kind that are in a region.               *)
Put(place, region, kind, dim) ==
  {f \in In(place, region) : f.dim = dim /\ place[f][2] = kind}

(* The loops of a region have the factors that were placed there.          *)
LEMMA SlotsMultiply ==
  ASSUME NEW l \in Layers, NEW place, IsPlacement(l, place),
         NEW region, NEW slots \in Slots(place, region), NEW kind, NEW dim
  PROVE  /\ Total(Loop(Over(slots, kind)), dim) = Times(Put(place, region, kind, dim))
         /\ Times(Taken(slots, Len(slots), kind, dim)) = Times(Put(place, region, kind, dim))
         /\ IsFiniteSet(Taken(slots, Len(slots), kind, dim))
<1> DEFINE R == Put(place, region, kind, dim)
           g == [f \in R |-> SlotOf(place, f)]
           S == {g[f] : f \in R}
           n == Len(slots)
<1>1. /\ slots \in Seq(Slot) /\ \A i, j \in DOMAIN slots : slots[i] = slots[j] => i = j
      /\ \A k \in DOMAIN slots : \E f \in In(place, region) : slots[k] = SlotOf(place, f)
      /\ \A f \in In(place, region) : \E k \in DOMAIN slots : slots[k] = SlotOf(place, f)
      /\ In(place, region) \subseteq Factors(l)
  BY SlotsAre
<1>2. R \in SUBSET Factors(l)
  BY <1>1 DEF Put
<1>3. IsFiniteSet(R) /\ \A x \in R : x.factor \in Nat \ {0}
  BY <1>2, SetOfFactors
<1>4. n \in Nat /\ DOMAIN slots = 1 .. n
  BY <1>1
<1>5. Taken(slots, n, kind, dim) = S
  <2>1. ASSUME NEW i \in 1 .. n, slots[i].dim = dim, slots[i].kind = kind PROVE slots[i] \in S
    <3>1. PICK f \in In(place, region) : slots[i] = SlotOf(place, f)
      BY <1>1, <1>4
    <3>2. f \in R
      BY <2>1, <3>1 DEF Put, SlotOf
    <3> QED BY <3>1, <3>2
  <2>2. ASSUME NEW f \in R
        PROVE  \E i \in 1 .. n : slots[i] = g[f] /\ slots[i].dim = dim /\ slots[i].kind = kind
    <3>1. f \in In(place, region) /\ f.dim = dim /\ place[f][2] = kind
      BY DEF Put
    <3>2. PICK i \in 1 .. n : slots[i] = SlotOf(place, f)
      BY <1>1, <1>4, <3>1
    <3> QED BY <3>1, <3>2 DEF SlotOf
  <2> HIDE DEF R, g, n
  <2> QED BY <2>1, <2>2 DEF Taken
<1>6. \A x \in R : g[x].factor = x.factor
  BY DEF SlotOf
<1>7. ASSUME NEW x \in R, NEW y \in R, g[x] = g[y] PROVE x = y
  <2>1. /\ x = [dim |-> x.dim, n |-> x.n, factor |-> x.factor]
        /\ y = [dim |-> y.dim, n |-> y.n, factor |-> y.factor]
    BY <1>2, FactorsAre
  <2>2. SlotOf(place, x) = SlotOf(place, y)
    BY <1>7
  <2>3. x.dim = y.dim /\ x.n = y.n /\ x.factor = y.factor
    BY <2>2 DEF SlotOf
  <2> QED BY <2>1, <2>3
<1> HIDE DEF R, g
<1>8. Times(S) = Times(R) /\ IsFiniteSet(S)
  BY <1>3, <1>6, <1>7, TimesOfImage
<1>9. Total(Loop(Over(slots, kind)), dim) = Times(Taken(slots, n, kind, dim))
  BY <1>1, OverMultiplies
<1> QED BY <1>5, <1>8, <1>9 DEF R, n

(* A factor is on the mesh, in space or in time, or in DRAM, in time.      *)
LEMMA PlacesAre ==
  ASSUME NEW A, NEW place \in [A -> Places]
  PROVE  /\ \A f \in A : \/ f \in In(place, "noc") /\ place[f][2] \in {"space", "time"}
                         \/ f \in In(place, "dram") /\ place[f][2] = "time"
         /\ In(place, "noc") \cap In(place, "dram") = {}
         /\ In(place, "noc") \subseteq A /\ In(place, "dram") \subseteq A
         /\ \A f \in In(place, "dram") : place[f][2] = "time"
<1>1. ASSUME NEW f \in A
      PROVE  \/ place[f][1] = "noc" /\ place[f][2] \in {"space", "time"}
             \/ place[f][1] = "dram" /\ place[f][2] = "time"
  BY DEF Places
<1> QED BY <1>1 DEF In

(* What a dimension's loops, cores and node make up is the dimension.      *)
LEMMA Accounting ==
  ASSUME NEW l \in Layers, NEW node \in SUBSET Factors(l),
         NEW place \in [Factors(l) \ node -> Places],
         NEW noc \in Slots(place, "noc"), NEW dram \in Slots(place, "dram"), NEW dim \in Dims
  PROVE  /\ Bound(l, dim) = (Times(Of(node, dim)) * Times(Of(In(place, "noc"), dim)))
                              * Total(Loop(OverTime(dram)), dim)
         /\ Times(Of(In(place, "noc"), dim))
              = Total(Loop(OverSpace(noc)), dim) * Total(Loop(OverTime(noc)), dim)
<1> DEFINE A == Of(node, dim)
           B == Of(In(place, "noc"), dim)
           C == Of(In(place, "dram"), dim)
           X == Put(place, "noc", "space", dim)
           Y == Put(place, "noc", "time", dim)
<1>a. IsPlacement(l, place)
  BY DEF IsPlacement
<1>1. /\ \A f \in Factors(l) \ node :
           \/ f \in In(place, "noc") /\ place[f][2] \in {"space", "time"}
           \/ f \in In(place, "dram") /\ place[f][2] = "time"
      /\ In(place, "noc") \cap In(place, "dram") = {}
      /\ In(place, "noc") \subseteq Factors(l) \ node
      /\ In(place, "dram") \subseteq Factors(l) \ node
      /\ \A f \in In(place, "dram") : place[f][2] = "time"
  BY PlacesAre
<1>2. /\ A \in SUBSET Factors(l) /\ B \in SUBSET Factors(l) /\ C \in SUBSET Factors(l)
      /\ X \in SUBSET Factors(l) /\ Y \in SUBSET Factors(l)
  BY <1>1 DEF Of, Put
<1>3. B = X \cup Y /\ X \cap Y = {}
  BY <1>1 DEF Of, Put
<1>4. C = Put(place, "dram", "time", dim)
  BY <1>1 DEF Of, Put
<1>5. /\ FactorsOf(l, dim) = (A \cup B) \cup C /\ A \cap B = {} /\ (A \cup B) \cap C = {}
  <2>1. Of(Factors(l), dim) = (A \cup B) \cup C /\ A \cap B = {} /\ (A \cup B) \cap C = {}
    BY <1>1 DEF Of
  <2> QED BY <2>1, FactorsOfDimension
<1> HIDE DEF A, B, C, X, Y
<1>6. /\ IsFiniteSet(A) /\ IsFiniteSet(B) /\ IsFiniteSet(C) /\ IsFiniteSet(X) /\ IsFiniteSet(Y)
      /\ \A x \in (A \cup B) \cup C : x.factor \in Nat \ {0}
      /\ \A x \in X \cup Y : x.factor \in Nat \ {0}
  <2>1. /\ IsFiniteSet(A) /\ \A x \in A : x.factor \in Nat \ {0}
    BY <1>2, SetOfFactors
  <2>2. /\ IsFiniteSet(B) /\ \A x \in B : x.factor \in Nat \ {0}
    BY <1>2, SetOfFactors
  <2>3. /\ IsFiniteSet(C) /\ \A x \in C : x.factor \in Nat \ {0}
    BY <1>2, SetOfFactors
  <2>4. IsFiniteSet(X) /\ IsFiniteSet(Y)
    BY <1>2, SetOfFactors
  <2> QED BY <1>3, <2>1, <2>2, <2>3, <2>4
<1>7. Times(A \cup B) = Times(A) * Times(B) /\ IsFiniteSet(A \cup B)
  <2>1. \A x \in A \cup B : x.factor \in Nat \ {0}
    BY <1>6
  <2> QED BY <1>5, <1>6, <2>1, TimesUnion
<1>8. Times((A \cup B) \cup C) = Times(A \cup B) * Times(C)
  BY <1>5, <1>6, <1>7, TimesUnion
<1>9. Times(X \cup Y) = Times(X) * Times(Y)
  BY <1>3, <1>6, TimesUnion
<1>10. Times(C) = Total(Loop(OverTime(dram)), dim)
  <2>1. Total(Loop(Over(dram, "time")), dim) = Times(Put(place, "dram", "time", dim))
    BY <1>a, SlotsMultiply
  <2> QED BY <1>4, <2>1 DEF OverTime
<1>11. /\ Times(X) = Total(Loop(OverSpace(noc)), dim)
       /\ Times(Y) = Total(Loop(OverTime(noc)), dim)
  <2>1. Total(Loop(Over(noc, "time")), dim) = Times(Put(place, "noc", "time", dim))
    BY <1>a, SlotsMultiply
  <2>2. Total(Loop(Over(noc, "space")), dim) = Times(Put(place, "noc", "space", dim))
    BY <1>a, SlotsMultiply
  <2> QED BY <2>1, <2>2 DEF OverTime, OverSpace, X, Y
<1>12. Bound(l, dim) = (Times(A) * Times(B)) * Times(C)
  BY <1>5, <1>7, <1>8 DEF Bound
<1>13. Times(B) = Times(X) * Times(Y)
  BY <1>3, <1>9
<1> QED BY <1>10, <1>11, <1>12, <1>13 DEF A, B

-----------------------------------------------------------------------------
(* The solution behind a schedule that is read.                            *)

IsSolution(l, m, md, sol, place) ==
  /\ sol.node \in SUBSET Factors(l) /\ place \in [Factors(l) \ sol.node -> Places]
  /\ NodeIsFilled(l, m, sol.node)
  /\ TilesFit(m, Inside(sol.node, place))
  /\ sol.noc \in Slots(place, "noc") /\ sol.dram \in Slots(place, "dram")
  /\ Ordered(md, OverTime(sol.noc), OverTime(sol.dram))

(* What is read goes back to a placement of the factors.                   *)
LEMMA SolutionIs ==
  ASSUME MapInv, stage = "read"
  PROVE  \E place : IsSolution(layer, machine, mode, solution, place)
<1>1. Solved
  BY DEF MapInv
<1>2. PICK node \in SUBSET Factors(layer) :
        /\ NodeIsFilled(layer, machine, node)
        /\ \E place \in [Factors(layer) \ node -> Places] :
             /\ TilesFit(machine, Inside(node, place))
             /\ \E noc \in Slots(place, "noc"), dram \in Slots(place, "dram") :
                  /\ Ordered(mode, OverTime(noc), OverTime(dram))
                  /\ solution = [node |-> node, noc |-> noc, dram |-> dram]
  BY <1>1 DEF Solved
<1>3. PICK place \in [Factors(layer) \ node -> Places] :
        /\ TilesFit(machine, Inside(node, place))
        /\ \E noc \in Slots(place, "noc"), dram \in Slots(place, "dram") :
             /\ Ordered(mode, OverTime(noc), OverTime(dram))
             /\ solution = [node |-> node, noc |-> noc, dram |-> dram]
  BY <1>2
<1>4. PICK noc \in Slots(place, "noc"), dram \in Slots(place, "dram") :
        /\ Ordered(mode, OverTime(noc), OverTime(dram))
        /\ solution = [node |-> node, noc |-> noc, dram |-> dram]
  BY <1>3
<1>5. solution.node = node /\ solution.noc = noc /\ solution.dram = dram
  BY <1>4
<1> QED BY <1>2, <1>3, <1>4, <1>5 DEF IsSolution

(* A dimension is its share of the node, over the cores, over the mesh's   *)
(* loops and over DRAM's.                                                  *)
LEMMA ScheduleAccounts ==
  ASSUME NEW l \in Layers, NEW m, NEW md, NEW sol, NEW place, IsSolution(l, m, md, sol, place),
         NEW s, IsRead(sol, s, l), NEW dim \in Dims
  PROVE  /\ Bound(l, dim) = (Times(Of(sol.node, dim)) * (s.space[dim] * Total(s.noc, dim)))
                              * Total(s.dram, dim)
         /\ Times(Of(In(place, "noc"), dim)) = s.space[dim] * Total(s.noc, dim)
         /\ Times(Of(sol.node, dim)) \in Nat \ {0} /\ s.space[dim] \in Nat \ {0}
         /\ Total(s.noc, dim) \in Nat \ {0} /\ Total(s.dram, dim) \in Nat \ {0}
         /\ Bound(l, dim) \in Nat \ {0}
<1>1. /\ sol.noc \in Seq(Slot) /\ sol.dram \in Seq(Slot)
      /\ s = ScheduleFromStrategy(BuildStrategy(sol), l)
      /\ s.noc \in Loops /\ s.dram \in Loops /\ s.space \in Spatials
  BY DEF IsRead
<1>2. /\ Alike(s.noc, Loop(OverTime(sol.noc))) /\ Alike(s.dram, Loop(OverTime(sol.dram)))
      /\ s.space[dim] = Total(Loop(OverSpace(sol.noc)), dim)
  BY <1>1, ScheduleIs
<1>3. /\ Total(s.noc, dim) = Total(Loop(OverTime(sol.noc)), dim)
      /\ Total(s.dram, dim) = Total(Loop(OverTime(sol.dram)), dim)
  BY <1>2 DEF Alike, SameWalk
<1>4. /\ sol.node \in SUBSET Factors(l) /\ place \in [Factors(l) \ sol.node -> Places]
      /\ sol.noc \in Slots(place, "noc") /\ sol.dram \in Slots(place, "dram")
  BY DEF IsSolution
<1>5. PICK node \in SUBSET Factors(l) : node = sol.node
  BY <1>4
<1>6. PICK noc \in Slots(place, "noc"), dram \in Slots(place, "dram") :
        noc = sol.noc /\ dram = sol.dram
  BY <1>4
<1>7. place \in [Factors(l) \ node -> Places]
  BY <1>4, <1>5
<1>8. /\ Bound(l, dim) = (Times(Of(node, dim)) * Times(Of(In(place, "noc"), dim)))
                           * Total(Loop(OverTime(dram)), dim)
      /\ Times(Of(In(place, "noc"), dim))
           = Total(Loop(OverSpace(noc)), dim) * Total(Loop(OverTime(noc)), dim)
  BY <1>5, <1>6, <1>7, Accounting
<1>9. Total(s.noc, dim) \in Nat \ {0} /\ Total(s.dram, dim) \in Nat \ {0}
  BY <1>1, ProductIsNat DEF Total
<1>10. s.space[dim] \in Nat \ {0}
  BY <1>1 DEF Spatials
<1>11. Times(Of(node, dim)) \in Nat \ {0}
  <2>1. Of(node, dim) \in SUBSET Factors(l)
    BY <1>5 DEF Of
  <2> QED BY <2>1, SetOfFactors
<1>12. Bound(l, dim) \in Nat \ {0}
  <2>1. FactorsOf(l, dim) \in SUBSET Factors(l)
    BY DEF Factors
  <2> QED BY <2>1, SetOfFactors DEF Bound
<1> QED BY <1>2, <1>3, <1>5, <1>6, <1>8, <1>9, <1>10, <1>11, <1>12

(* A product divided by what it is made of.                                *)
LEMMA DividedAgain ==
  ASSUME NEW a \in Nat \ {0}, NEW p \in Nat \ {0}, NEW t \in Nat \ {0}, NEW u \in Nat \ {0}
  PROVE  /\ ((a * (p * t)) * u) \div ((u * t) * p) = a
         /\ ((a * (p * t)) * u) \div u = a * (p * t)
         /\ ((a * (p * t)) * u) \div p = a * (u * t)
<1> DEFINE q == (u * t) * p
           r == a * (p * t)
           w == a * (u * t)
<1>1. q \in Nat \ {0} /\ r \in Nat \ {0} /\ w \in Nat \ {0}
  <2>1. \A x, y \in Nat \ {0} : x * y \in Nat \ {0}
    OBVIOUS
  <2>2. u * t \in Nat \ {0} /\ p * t \in Nat \ {0}
    BY <2>1
  <2> QED BY <2>1, <2>2
<1>2. r * u = a * q /\ r * u = w * p
  OBVIOUS
<1> HIDE DEF q, r, w
<1>3. \A x, y \in Nat \ {0} : (x * y) \div y = x
  <2> TAKE x, y \in Nat \ {0}
  <2>1. x * y = x * y + 0 /\ 0 \in 0 .. y - 1
    OBVIOUS
  <2>2. x * y \in Nat /\ (x * y) \div y \in Nat /\ (x * y) % y \in 0 .. y - 1
        /\ x * y = ((x * y) \div y) * y + ((x * y) % y)
    OBVIOUS
  <2> QED BY <2>1, <2>2, DigitsAreUnique
<1>4. (a * q) \div q = a /\ (r * u) \div u = r /\ (w * p) \div p = w
  BY <1>1, <1>3
<1> QED BY <1>2, <1>4 DEF q, r, w

(* The width of a tile is what the solver left in the node.                *)
LEMMA NodeBoundIs ==
  ASSUME MapInv, stage = "read", NEW dim \in Dims
  PROVE  NodeBound(dim) = Times(Of(solution.node, dim))
<1>1. PICK place : IsSolution(layer, machine, mode, solution, place)
  BY SolutionIs
<1>2. IsRead(solution, schedule, layer) /\ layer \in Layers
  BY ScheduleIsRead DEF MapInv
<1>3. PICK a \in Nat \ {0}, p \in Nat \ {0}, t \in Nat \ {0}, u \in Nat \ {0} :
        /\ a = Times(Of(solution.node, dim)) /\ p = schedule.space[dim]
        /\ t = Total(schedule.noc, dim) /\ u = Total(schedule.dram, dim)
        /\ Bound(layer, dim) = (a * (p * t)) * u
  BY <1>1, <1>2, ScheduleAccounts
<1>4. Bound(layer, dim) \div (Loopwise(dim) * schedule.space[dim]) = a
  BY <1>3, DividedAgain DEF Loopwise
<1>5. Max({a, 1}) = a
  <2>1. {a, 1} \subseteq Nat /\ {a, 1} # {} /\ IsFiniteSet({a, 1})
    <3>1. IsFiniteSet({a} \cup {1})
      BY FS_Singleton, FS_AddElement
    <3>2. {a, 1} = {a} \cup {1}
      OBVIOUS
    <3> QED BY <3>1, <3>2
  <2>2. Max({a, 1}) \in {a, 1} /\ \A y \in {a, 1} : Max({a, 1}) >= y
    BY <2>1, MaxExists
  <2>3. PICK x : x = Max({a, 1}) /\ x \in {a, 1} /\ x >= a
    BY <2>2
  <2> QED BY <2>3
<1> QED BY <1>3, <1>4, <1>5 DEF NodeBound

-----------------------------------------------------------------------------
(* Where a tile begins.                                                    *)

LEMMA NoLoop ==
  ASSUME NEW loops \in Loops, NEW dim, ~Has(loops, {dim})
  PROVE  Total(loops, dim) = 1 /\ \A step \in Nat : Index(step, loops, dim) = 0
<1>1. \A i \in DOMAIN loops : loops[i].dim # dim
  BY DEF Has
<1>2. \A step \in Nat : Index(step, loops, dim) = 0
  BY <1>1, FirstIndex
<1>3. Index(0, loops, dim) = Total(loops, dim) - 1
  BY <1>1, LastIndex
<1>4. Total(loops, dim) \in Nat \ {0}
  BY IndexRange
<1> QED BY <1>2, <1>3, <1>4

(* A step is given by its indices.                                         *)
LEMMA SameStep ==
  ASSUME NEW loops \in Loops, NEW s \in 0 .. Steps(loops) - 1, NEW t \in 0 .. Steps(loops) - 1,
         \A dim \in Dims : Index(s, loops, dim) = Index(t, loops, dim)
  PROVE  s = t
<1>1. s \in Nat /\ t \in Nat
  BY StepsAre
<1>2. \A i \in DOMAIN loops : loops[i].dim \in Dims
  BY NestIs
<1>3. \A i \in DOMAIN loops : Digit(s, loops, i) = Digit(t, loops, i)
  BY <1>1, <1>2, SameIndex
<1>4. \A i \in DOMAIN loops : Digit(s, loops, i) \in Nat
  BY <1>1, DigitsOverAre
<1>5. s <= t
  <2>1. \A i \in DOMAIN loops : Digit(s, loops, i) <= Digit(t, loops, i)
    BY <1>3, <1>4
  <2> QED BY <2>1, StepsAre
<1>6. t <= s
  <2>1. \A i \in DOMAIN loops : Digit(t, loops, i) <= Digit(s, loops, i)
    BY <1>3, <1>4
  <2> QED BY <2>1, StepsAre
<1> QED BY <1>1, <1>5, <1>6

(* From s to t the loops over D run to their end, the others stay.         *)
RunsOut(loops, D, s, t) ==
  /\ \A dim \in D : Index(t, loops, dim) = Total(loops, dim) - 1
  /\ \A dim \in Dims \ D : Index(t, loops, dim) = Index(s, loops, dim)

(* There is a step at which some dimensions are at their end and the       *)
(* others stay.                                                            *)
LEMMA StepAtTheEnd ==
  ASSUME NEW loops \in Loops, NEW s \in 0 .. Steps(loops) - 1, NEW D
  PROVE  \E t \in 0 .. Steps(loops) - 1 : RunsOut(loops, D, s, t)
<1> DEFINE n == Len(loops)
           f == FactorsOver(loops, Dims)
<1>1. s \in Nat /\ Steps(loops) \in Nat
  BY StepsAre
<1>3. \A k \in DOMAIN loops :
        Digit(s, loops, k) \in Nat /\ Digit(s, loops, k) <= loops[k].factor - 1
  BY <1>1, DigitsOverAre
<1>4. \A k \in DOMAIN loops : f[k] = loops[k].factor /\ loops[k].factor \in Nat \ {0}
  BY NestIs DEF FactorsOver
<1>5. n \in Nat /\ DOMAIN loops = 1 .. n
  BY NestIs
<1> DEFINE d == [k \in 1 .. n |-> IF loops[k].dim \in D THEN loops[k].factor - 1
                                  ELSE Digit(s, loops, k)]
<1>6. IsDigits(d, f, n)
  <2>1. ASSUME NEW k \in 1 .. n PROVE d[k] \in Nat /\ d[k] <= f[k] - 1
    <3>1. k \in DOMAIN loops
      BY <1>5
    <3>2. /\ Digit(s, loops, k) \in Nat /\ Digit(s, loops, k) <= loops[k].factor - 1
          /\ f[k] = loops[k].factor /\ loops[k].factor \in Nat \ {0}
      BY <1>3, <1>4, <3>1
    <3> QED BY <3>2
  <2>2. d = [k \in 1 .. n |-> d[k]]
    OBVIOUS
  <2> HIDE DEF d, f, n
  <2> QED BY <2>1, <2>2 DEF IsDigits
<1>7. PICK t \in 0 .. Steps(loops) - 1 : Digits(t, loops) = d
  <2> HIDE DEF d
  <2> QED BY <1>6, StepsAre
<1>8. t \in Nat
  BY <1>1
<1>9. \A k \in DOMAIN loops : Digit(t, loops, k) = d[k]
  BY <1>7 DEF Digits
<1>10. \A k \in DOMAIN loops :
         /\ loops[k].dim \in D => Digit(t, loops, k) = loops[k].factor - 1
         /\ loops[k].dim \notin D => Digit(t, loops, k) = Digit(s, loops, k)
  BY <1>5, <1>9
<1>11. ASSUME NEW dim \in D PROVE Index(t, loops, dim) = Total(loops, dim) - 1
  BY <1>8, <1>10, LastIndex
<1>12. ASSUME NEW dim \in Dims \ D PROVE Index(t, loops, dim) = Index(s, loops, dim)
  BY <1>1, <1>8, <1>10, SameIndex
<1> QED BY <1>7, <1>11, <1>12 DEF RunsOut

(* A digit of each of three radices.                                       *)
LEMMA ThreeDigits ==
  ASSUME NEW u \in Nat \ {0}, NEW t \in Nat \ {0}, NEW p \in Nat \ {0},
         NEW i \in 0 .. u - 1, NEW j \in 0 .. t - 1, NEW c \in 0 .. p - 1
  PROVE  /\ i + u * j + (u * t) * c = (c * t + j) * u + i
         /\ (c * t + j) * u + i \in 0 .. (p * t) * u - 1
         /\ c * t + j \in Nat
<1>1. c * t + j \in 0 .. p * t - 1
  BY TwoDigits
<1>2. p * t \in Nat /\ c * t + j \in Nat /\ c * t \in Nat
  <2>1. \A x, y \in Nat : x * y \in Nat /\ x + y \in Nat
    OBVIOUS
  <2> QED BY <2>1
<1>3. (c * t + j) * u + i \in 0 .. (p * t) * u - 1
  BY <1>1, <1>2, TwoDigits
<1>4. i + u * j + (u * t) * c = (c * t + j) * u + i
  OBVIOUS
<1> QED BY <1>2, <1>3, <1>4

(* The three digits are given by the number.                               *)
LEMMA SameThreeDigits ==
  ASSUME NEW u \in Nat \ {0}, NEW t \in Nat \ {0}, NEW p \in Nat \ {0},
         NEW i \in 0 .. u - 1, NEW j \in 0 .. t - 1, NEW c \in 0 .. p - 1,
         NEW k \in 0 .. u - 1, NEW l \in 0 .. t - 1, NEW e \in 0 .. p - 1,
         i + u * j + (u * t) * c = k + u * l + (u * t) * e
  PROVE  i = k /\ j = l /\ c = e
<1>1. (c * t + j) * u + i = (e * t + l) * u + k
  BY ThreeDigits
<1>2. c * t + j \in Nat /\ e * t + l \in Nat
  BY ThreeDigits
<1>3. c * t + j = e * t + l /\ i = k
  BY <1>1, <1>2, DigitsAreUnique
<1> QED BY <1>3, DigitsAreUnique

(* The tiles of a dimension that lie before a tile's.                      *)
TilesBefore(s, d, n, c, dim) ==
  Index(d, s.dram, dim) + Total(s.dram, dim) * Index(n, s.noc, dim)
    + (Total(s.dram, dim) * Total(s.noc, dim)) * SpatialIndex(s.space, c, dim)

(* The indices of a step and of a core are below their totals.             *)
LEMMA IndicesAre ==
  ASSUME NEW sol, NEW s, NEW l, IsRead(sol, s, l), NEW dim \in Dims
  PROVE  /\ \A d \in 0 .. Steps(s.dram) - 1 :
              d \in Nat /\ Index(d, s.dram, dim) \in 0 .. Total(s.dram, dim) - 1
         /\ \A n \in 0 .. Steps(s.noc) - 1 :
              n \in Nat /\ Index(n, s.noc, dim) \in 0 .. Total(s.noc, dim) - 1
         /\ \A c \in 0 .. CoresOf(s) - 1 :
              c \in Nat /\ SpatialIndex(s.space, c, dim) \in 0 .. s.space[dim] - 1
<1>1. s.noc \in Loops /\ s.dram \in Loops /\ s.space \in Spatials
  BY DEF IsRead
<1>2. ASSUME NEW d \in 0 .. Steps(s.dram) - 1
      PROVE  d \in Nat /\ Index(d, s.dram, dim) \in 0 .. Total(s.dram, dim) - 1
  <2>1. d \in Nat
    BY <1>1, StepsAre
  <2> QED BY <1>1, <2>1, IndexRange
<1>3. ASSUME NEW n \in 0 .. Steps(s.noc) - 1
      PROVE  n \in Nat /\ Index(n, s.noc, dim) \in 0 .. Total(s.noc, dim) - 1
  <2>1. n \in Nat
    BY <1>1, StepsAre
  <2> QED BY <1>1, <2>1, IndexRange
<1>4. ASSUME NEW c \in 0 .. CoresOf(s) - 1
      PROVE  c \in Nat /\ SpatialIndex(s.space, c, dim) \in 0 .. s.space[dim] - 1
  <2>1. c \in Nat
    BY StepsArePositive
  <2> QED BY <1>1, <2>1, SpatialTotals
<1> QED BY <1>2, <1>3, <1>4

(* A dimension without an offset has one tile.                             *)
LEMMA StartIs ==
  ASSUME MapInv, stage = "read", NEW d \in 0 .. Steps(schedule.dram) - 1,
         NEW n \in 0 .. Steps(schedule.noc) - 1, NEW c \in 0 .. CoresOf(schedule) - 1,
         NEW dim \in Dims
  PROVE  Start(Tile(d, n, c), dim) = NodeBound(dim) * TilesBefore(schedule, d, n, c, dim)
<1> DEFINE t == Tile(d, n, c)
<1>1. IsRead(solution, schedule, layer)
  BY ScheduleIsRead
<1>2. DOMAIN t.offset = OffsetDims
  BY DEF Tile, TileOffset
<1>3. ASSUME dim \in OffsetDims
      PROVE  t.offset[dim] = NodeBound(dim) * TilesBefore(schedule, d, n, c, dim)
  BY <1>3 DEF Tile, TileOffset, TilesBefore, Loopwise, CoreIndex
<1>4. ASSUME dim \notin OffsetDims
      PROVE  NodeBound(dim) * TilesBefore(schedule, d, n, c, dim) = 0
  <2>1. ~Has(schedule.dram \o schedule.noc, {dim}) /\ ~(schedule.space[dim] > 1)
    BY <1>4 DEF OffsetDims
  <2>2. schedule.noc \in Loops /\ schedule.dram \in Loops /\ schedule.space \in Spatials
    BY <1>1 DEF IsRead
  <2>3. ~Has(schedule.dram, {dim}) /\ ~Has(schedule.noc, {dim})
    <3>1. PICK a \in Loops, b \in Loops : a = schedule.dram /\ b = schedule.noc
      BY <2>2
    <3>2. /\ Len(a) \in Nat /\ Len(b) \in Nat
          /\ DOMAIN a = 1 .. Len(a) /\ DOMAIN b = 1 .. Len(b)
          /\ DOMAIN (a \o b) = 1 .. Len(a) + Len(b)
          /\ \A i \in 1 .. Len(a) : (a \o b)[i] = a[i]
          /\ \A i \in 1 .. Len(b) : (a \o b)[Len(a) + i] = b[i]
      BY NestsJoined
    <3>3. /\ \A i \in 1 .. Len(a) : i \in 1 .. Len(a) + Len(b)
          /\ \A i \in 1 .. Len(b) : Len(a) + i \in 1 .. Len(a) + Len(b)
      BY <3>2
    <3>4. ~Has(a \o b, {dim})
      BY <2>1, <3>1
    <3> QED BY <3>1, <3>2, <3>3, <3>4 DEF Has
  <2>4. d \in Nat /\ n \in Nat /\ c \in Nat
        /\ SpatialIndex(schedule.space, c, dim) \in 0 .. schedule.space[dim] - 1
    BY <1>1, IndicesAre
  <2>5. Index(d, schedule.dram, dim) = 0 /\ Index(n, schedule.noc, dim) = 0
        /\ Total(schedule.dram, dim) = 1 /\ Total(schedule.noc, dim) = 1
    BY <2>2, <2>3, <2>4, NoLoop
  <2>6. schedule.space[dim] \in Nat \ {0}
    BY <2>2 DEF Spatials
  <2>7. SpatialIndex(schedule.space, c, dim) = 0
    BY <2>1, <2>4, <2>6
  <2>8. TilesBefore(schedule, d, n, c, dim) = 0
    BY <2>5, <2>7 DEF TilesBefore
  <2>9. PICK place : IsSolution(layer, machine, mode, solution, place)
    BY SolutionIs
  <2>10. NodeBound(dim) \in Nat
    BY <1>1, <2>9, NodeBoundIs, ScheduleAccounts DEF MapInv
  <2> QED BY <2>8, <2>10
<1> QED BY <1>2, <1>3, <1>4 DEF Start

-----------------------------------------------------------------------------
(* What the tiles have in common.                                          *)

Round(s) == (0 .. Steps(s.dram) - 1) \X (0 .. Steps(s.noc) - 1) \X (0 .. CoresOf(s) - 1)

(* Every tile is that of a round, and in the end every round has its tile. *)
LEMMA TilesAre ==
  ASSUME TilesInv
  PROVE  /\ \A t \in tiles : stage = "read" /\ \E z \in Round(schedule) : t = Tile(z[1], z[2], z[3])
         /\ Generated => tiles = {Tile(z[1], z[2], z[3]) : z \in Round(schedule)}
<1>1. ASSUME NEW t \in tiles
      PROVE  stage = "read" /\ \E z \in Round(schedule) : t = Tile(z[1], z[2], z[3])
  <2>1. stage = "read"
    BY DEF TilesInv, WalkInv
  <2>2. PICK z \in Walked(Steps(schedule.dram), Steps(schedule.noc), CoresOf(schedule),
                          dramI, nocI, coreId) : t = Tile(z[1], z[2], z[3])
    BY <2>1 DEF TilesInv, WalkInv
  <2>3. z \in Round(schedule)
    BY <2>2 DEF Walked, Round
  <2> QED BY <2>1, <2>2, <2>3
<1>2. ASSUME Generated PROVE tiles = {Tile(z[1], z[2], z[3]) : z \in Round(schedule)}
  <2>1. stage = "read" /\ dramI = Steps(schedule.dram)
    BY <1>2 DEF Generated
  <2>2. /\ nocI = 0 /\ coreId = 0
        /\ tiles = {Tile(z[1], z[2], z[3]) :
                      z \in Walked(Steps(schedule.dram), Steps(schedule.noc), CoresOf(schedule),
                                   Steps(schedule.dram), 0, 0)}
    BY <2>1 DEF TilesInv, WalkInv
  <2>3. /\ Steps(schedule.dram) \in Nat \ {0} /\ Steps(schedule.noc) \in Nat \ {0}
        /\ CoresOf(schedule) \in Nat \ {0}
    BY <2>1, ScheduleIsRead, StepsArePositive DEF TilesInv
  <2>4. Walked(Steps(schedule.dram), Steps(schedule.noc), CoresOf(schedule),
               Steps(schedule.dram), 0, 0) = Round(schedule)
    BY <2>3, WalkEnds DEF Round
  <2> QED BY <2>2, <2>4
<1> QED BY <1>1, <1>2

(* Two tiles begin at the same place in a dimension exactly if the loops   *)
(* and the core are at the same index of it.                               *)
LEMMA SameStart ==
  ASSUME MapInv, stage = "read", NEW y \in Round(schedule), NEW z \in Round(schedule),
         NEW dim \in Dims
  PROVE  Start(Tile(y[1], y[2], y[3]), dim) = Start(Tile(z[1], z[2], z[3]), dim)
           <=> /\ Index(y[1], schedule.dram, dim) = Index(z[1], schedule.dram, dim)
               /\ Index(y[2], schedule.noc, dim) = Index(z[2], schedule.noc, dim)
               /\ SpatialIndex(schedule.space, y[3], dim) = SpatialIndex(schedule.space, z[3], dim)
<1>1. /\ y[1] \in 0 .. Steps(schedule.dram) - 1 /\ y[2] \in 0 .. Steps(schedule.noc) - 1
      /\ y[3] \in 0 .. CoresOf(schedule) - 1
      /\ z[1] \in 0 .. Steps(schedule.dram) - 1 /\ z[2] \in 0 .. Steps(schedule.noc) - 1
      /\ z[3] \in 0 .. CoresOf(schedule) - 1
  BY DEF Round
<1>2. IsRead(solution, schedule, layer) /\ layer \in Layers
  BY ScheduleIsRead DEF MapInv
<1>3. PICK place : IsSolution(layer, machine, mode, solution, place)
  BY SolutionIs
<1>4. PICK a \in Nat \ {0}, p \in Nat \ {0}, t \in Nat \ {0}, u \in Nat \ {0} :
        /\ a = NodeBound(dim) /\ p = schedule.space[dim]
        /\ t = Total(schedule.noc, dim) /\ u = Total(schedule.dram, dim)
  BY <1>2, <1>3, NodeBoundIs, ScheduleAccounts
<1>5. PICK i, k \in 0 .. u - 1 : /\ i = Index(y[1], schedule.dram, dim)
                                 /\ k = Index(z[1], schedule.dram, dim)
  BY <1>1, <1>2, <1>4, IndicesAre
<1>6. PICK j, l \in 0 .. t - 1 : /\ j = Index(y[2], schedule.noc, dim)
                                 /\ l = Index(z[2], schedule.noc, dim)
  BY <1>1, <1>2, <1>4, IndicesAre
<1>7. PICK c, e \in 0 .. p - 1 : /\ c = SpatialIndex(schedule.space, y[3], dim)
                                 /\ e = SpatialIndex(schedule.space, z[3], dim)
  BY <1>1, <1>2, <1>4, IndicesAre
<1>8. /\ TilesBefore(schedule, y[1], y[2], y[3], dim) = i + u * j + (u * t) * c
      /\ TilesBefore(schedule, z[1], z[2], z[3], dim) = k + u * l + (u * t) * e
  BY <1>4, <1>5, <1>6, <1>7 DEF TilesBefore
<1>9. /\ Start(Tile(y[1], y[2], y[3]), dim) = a * TilesBefore(schedule, y[1], y[2], y[3], dim)
      /\ Start(Tile(z[1], z[2], z[3]), dim) = a * TilesBefore(schedule, z[1], z[2], z[3], dim)
  BY <1>1, <1>4, StartIs
<1>10. i + u * j + (u * t) * c \in Nat /\ k + u * l + (u * t) * e \in Nat
  <2>1. \A v, w \in Nat : v * w \in Nat /\ v + w \in Nat
    OBVIOUS
  <2>2. i \in Nat /\ j \in Nat /\ c \in Nat /\ k \in Nat /\ l \in Nat /\ e \in Nat
    OBVIOUS
  <2> QED BY <2>1, <2>2
<1>11. \A v, w \in Nat : a * v = a * w <=> v = w
  OBVIOUS
<1>12. i + u * j + (u * t) * c = k + u * l + (u * t) * e <=> i = k /\ j = l /\ c = e
  BY SameThreeDigits
<1> QED BY <1>5, <1>6, <1>7, <1>8, <1>9, <1>10, <1>11, <1>12

(* Outputs have the dimensions that are not summed over.                   *)
LEMMA DimensionsSplit == Dims \ ReductionDims = PsumDims /\ PsumDims \subseteq Dims
  BY DEF Dims, ReductionDims, PsumDims, VmemDims

(* The tile said to be the last of an output is, and no other.             *)
LEMMA OutputsEnd ==
  ASSUME TilesInv
  PROVE  LastKEndsOutputs
<1>1. ASSUME NEW t \in tiles, NEW u \in tiles, t.isLastK, Before(t, u), SameOutputs(t, u)
      PROVE  FALSE
  <2>1. stage = "read" /\ MapInv
    BY <1>1, TilesAre DEF TilesInv
  <2>2. PICK y \in Round(schedule) : t = Tile(y[1], y[2], y[3])
    BY <1>1, TilesAre
  <2>3. PICK z \in Round(schedule) : u = Tile(z[1], z[2], z[3])
    BY <1>1, TilesAre
  <2>4. /\ y[1] \in 0 .. Steps(schedule.dram) - 1 /\ y[2] \in 0 .. Steps(schedule.noc) - 1
        /\ z[1] \in 0 .. Steps(schedule.dram) - 1 /\ z[2] \in 0 .. Steps(schedule.noc) - 1
    BY DEF Round
  <2>5. \A dim \in PsumDims : /\ Index(y[1], schedule.dram, dim) = Index(z[1], schedule.dram, dim)
                              /\ Index(y[2], schedule.noc, dim) = Index(z[2], schedule.noc, dim)
    BY <1>1, <2>1, <2>2, <2>3, SameStart, DimensionsSplit DEF SameOutputs
  <2>6. schedule.noc \in Loops /\ schedule.dram \in Loops
    BY <2>1, ScheduleIsRead DEF IsRead
  <2>7. PICK s : s = schedule /\ s.noc \in Loops /\ s.dram \in Loops
    BY <2>6
  <2>8. y[1] \in Nat /\ y[2] \in Nat /\ z[1] \in Nat /\ z[2] \in Nat
    BY <2>4, <2>6, StepsAre
  <2>9. \A dim \in Dims \ ReductionDims :
          CombinedIndex(s, z[1], z[2], dim) = CombinedIndex(s, y[1], y[2], dim)
    BY <2>5, <2>7, <2>8, CombinedIndexIs, DimensionsSplit
  <2>10. IsLast(s, y[1], y[2], ReductionDims)
    BY <1>1, <2>2, <2>7 DEF Tile, IsLastK
  <2>11. z[1] < y[1] \/ (z[1] = y[1] /\ z[2] <= y[2])
    BY <2>4, <2>7, <2>9, <2>10, LastVisit
  <2>12. y[1] < z[1] \/ (y[1] = z[1] /\ y[2] < z[2])
    BY <1>1, <2>2, <2>3 DEF Before, Tile
  <2> QED BY <2>8, <2>11, <2>12
<1>2. ASSUME Generated, NEW t \in tiles
      PROVE  \E u \in tiles : u.isLastK /\ SameOutputs(t, u)
  <2>1. stage = "read" /\ MapInv
    BY <1>2, TilesAre DEF TilesInv
  <2>2. PICK y \in Round(schedule) : t = Tile(y[1], y[2], y[3])
    BY <1>2, TilesAre
  <2>3. /\ y[1] \in 0 .. Steps(schedule.dram) - 1 /\ y[2] \in 0 .. Steps(schedule.noc) - 1
        /\ y[3] \in 0 .. CoresOf(schedule) - 1
    BY DEF Round
  <2>4. schedule.noc \in Loops /\ schedule.dram \in Loops
    BY <2>1, ScheduleIsRead DEF IsRead
  <2>5. PICK d \in 0 .. Steps(schedule.dram) - 1 :
          /\ \A dim \in ReductionDims : Index(d, schedule.dram, dim) = Total(schedule.dram, dim) - 1
          /\ \A dim \in Dims \ ReductionDims :
               Index(d, schedule.dram, dim) = Index(y[1], schedule.dram, dim)
    <3>1. PICK d \in 0 .. Steps(schedule.dram) - 1 :
            RunsOut(schedule.dram, ReductionDims, y[1], d)
      BY <2>3, <2>4, StepAtTheEnd
    <3> QED BY <3>1 DEF RunsOut
  <2>6. PICK n \in 0 .. Steps(schedule.noc) - 1 :
          /\ \A dim \in ReductionDims : Index(n, schedule.noc, dim) = Total(schedule.noc, dim) - 1
          /\ \A dim \in Dims \ ReductionDims :
               Index(n, schedule.noc, dim) = Index(y[2], schedule.noc, dim)
    <3>1. PICK n \in 0 .. Steps(schedule.noc) - 1 :
            RunsOut(schedule.noc, ReductionDims, y[2], n)
      BY <2>3, <2>4, StepAtTheEnd
    <3> QED BY <3>1 DEF RunsOut
  <2>7. PICK z \in Round(schedule) : z[1] = d /\ z[2] = n /\ z[3] = y[3]
    <3>1. <<d, n, y[3]>> \in Round(schedule)
      BY <2>3, <2>5, <2>6 DEF Round
    <3> QED BY <3>1
  <2> DEFINE u == Tile(z[1], z[2], z[3])
  <2>8. u \in tiles
    BY <1>2, <2>7, TilesAre
  <2>9. SameOutputs(t, u)
    BY <2>1, <2>2, <2>5, <2>6, <2>7, SameStart, DimensionsSplit DEF SameOutputs
  <2>10. d \in Nat /\ n \in Nat
    BY <2>4, <2>5, <2>6, StepsAre
  <2>11. PICK s : s = schedule /\ s.noc \in Loops /\ s.dram \in Loops
    BY <2>4
  <2>12. IsLast(s, d, n, ReductionDims)
    BY <2>5, <2>6, <2>10, <2>11, CombinedIndexIs DEF IsLast
  <2>13. u.isLastK
    BY <2>7, <2>11, <2>12 DEF Tile, IsLastK
  <2> QED BY <2>8, <2>9, <2>13
<1> QED BY <1>1, <1>2 DEF LastKEndsOutputs

(* After the tile with the last step of its reduction an output is not     *)
(* added to any more, and every output comes to have such a tile, for any  *)
(* solution of any layer.                                                  *)
THEOREM LastKCorrect == Spec => []LastKEndsOutputs
<1>1. TilesInv => LastKEndsOutputs
  BY OutputsEnd
<1> QED BY <1>1, TilesInvHolds, PTL

-----------------------------------------------------------------------------
(* The sizes of the buffers' tiles.                                        *)

(* What the layer has of some dimensions, and what the loops in DRAM leave *)
(* of them.                                                                *)
WholeOf(l, D) == ProductOver(LAMBDA dim : Bound(l, dim), D)

LeftByDram(l, dram, D) == ProductOver(LAMBDA dim : Bound(l, dim) \div Total(dram, dim), D)

(* How many tiles of the node they are cut into.                           *)
CutsOf(s, D) ==
  ProductOver(LAMBDA dim : s.space[dim] * Total(s.noc, dim) * Total(s.dram, dim), D)

(* As a product, of the layer,                                             *)
LEMMA WholeIs ==
  ASSUME NEW l, NEW S, IsFiniteSet(S), NEW f, \A x \in S : f[x] = Bound(l, x)
  PROVE  WholeOf(l, S) = ProductOn(f, S)
<1> DEFINE T(h) == h = [s \in SUBSET S |->
                          IF s = {} THEN 1
                          ELSE Bound(l, Chosen(s)) * h[s \ {Chosen(s)}]]
           c == CHOOSE h : T(h)
<1>1. \A s \in SUBSET S : s # {} => f[Chosen(s)] = Bound(l, Chosen(s))
  BY ChosenIsIn
<1>2. PICK it : Multiplied(it, f, S)
  BY TablesExist
<1>3. T(it)
  BY <1>1, <1>2 DEF Multiplied
<1>4. T(c)
  BY <1>3
<1>5. Multiplied(c, f, S)
  BY <1>1, <1>4 DEF Multiplied
<1>6. WholeOf(l, S) = c[S]
  BY DEF WholeOf, ProductOver, MapThenFoldSet, Chosen
<1> HIDE DEF c, T
<1> QED BY <1>5, <1>6, ProductIsTheTotal

(* of what is left of it,                                                  *)
LEMMA LeftIs ==
  ASSUME NEW l, NEW dram, NEW S, IsFiniteSet(S),
         NEW f, \A x \in S : f[x] = Bound(l, x) \div Total(dram, x)
  PROVE  LeftByDram(l, dram, S) = ProductOn(f, S)
<1> DEFINE T(h) == h = [s \in SUBSET S |->
                          IF s = {} THEN 1
                          ELSE (Bound(l, Chosen(s)) \div Total(dram, Chosen(s)))
                                 * h[s \ {Chosen(s)}]]
           c == CHOOSE h : T(h)
<1>1. \A s \in SUBSET S : s # {} => f[Chosen(s)] = Bound(l, Chosen(s)) \div Total(dram, Chosen(s))
  BY ChosenIsIn
<1>2. PICK it : Multiplied(it, f, S)
  BY TablesExist
<1>3. T(it)
  BY <1>1, <1>2 DEF Multiplied
<1>4. T(c)
  BY <1>3
<1>5. Multiplied(c, f, S)
  BY <1>1, <1>4 DEF Multiplied
<1>6. LeftByDram(l, dram, S) = c[S]
  BY DEF LeftByDram, ProductOver, MapThenFoldSet, Chosen
<1> HIDE DEF c, T
<1> QED BY <1>5, <1>6, ProductIsTheTotal

(* and of its tiles.                                                       *)
LEMMA CutsAre ==
  ASSUME NEW t, NEW S, IsFiniteSet(S),
         NEW f, \A x \in S : f[x] = t.space[x] * Total(t.noc, x) * Total(t.dram, x)
  PROVE  CutsOf(t, S) = ProductOn(f, S)
<1> DEFINE T(h) == h = [s \in SUBSET S |->
                          IF s = {} THEN 1
                          ELSE (t.space[Chosen(s)] * Total(t.noc, Chosen(s))
                                  * Total(t.dram, Chosen(s)))
                                 * h[s \ {Chosen(s)}]]
           c == CHOOSE h : T(h)
<1>1. \A s \in SUBSET S : s # {} =>
        f[Chosen(s)] = t.space[Chosen(s)] * Total(t.noc, Chosen(s)) * Total(t.dram, Chosen(s))
  BY ChosenIsIn
<1>2. PICK it : Multiplied(it, f, S)
  BY TablesExist
<1>3. T(it)
  BY <1>1, <1>2 DEF Multiplied
<1>4. T(c)
  BY <1>3
<1>5. Multiplied(c, f, S)
  BY <1>1, <1>4 DEF Multiplied
<1>6. CutsOf(t, S) = c[S]
  BY DEF CutsOf, ProductOver, MapThenFoldSet, Chosen
<1> HIDE DEF c, T
<1> QED BY <1>5, <1>6, ProductIsTheTotal

(* There are finitely many dimensions.                                     *)
LEMMA DimsAreFinite ==
  IsFiniteSet(Dims) /\ \A v \in Tensors : DimsOf(v) \subseteq Dims /\ IsFiniteSet(DimsOf(v))
<1>1. IsFiniteSet({"KH"})
  BY FS_Singleton
<1>2. IsFiniteSet(Dims)
  <2>1. IsFiniteSet({"KH"} \cup {"KW"})
    BY <1>1, FS_AddElement
  <2>2. IsFiniteSet({"KH"} \cup {"KW"} \cup {"CIN"})
    BY <2>1, FS_AddElement
  <2>3. IsFiniteSet({"KH"} \cup {"KW"} \cup {"CIN"} \cup {"COUT"})
    BY <2>2, FS_AddElement
  <2>4. IsFiniteSet({"KH"} \cup {"KW"} \cup {"CIN"} \cup {"COUT"} \cup {"HO"})
    BY <2>3, FS_AddElement
  <2>5. IsFiniteSet({"KH"} \cup {"KW"} \cup {"CIN"} \cup {"COUT"} \cup {"HO"} \cup {"WO"})
    BY <2>4, FS_AddElement
  <2>6. IsFiniteSet({"KH"} \cup {"KW"} \cup {"CIN"} \cup {"COUT"} \cup {"HO"} \cup {"WO"} \cup {"T"})
    BY <2>5, FS_AddElement
  <2>7. Dims = {"KH"} \cup {"KW"} \cup {"CIN"} \cup {"COUT"} \cup {"HO"} \cup {"WO"} \cup {"T"}
    BY DEF Dims
  <2> QED BY <2>6, <2>7
<1>4. \A v \in Tensors : DimsOf(v) \subseteq Dims
  BY DEF Tensors, DimsOf, WeightDims, PsumDims, VmemDims, ReductionDims, Dims
<1> QED BY <1>2, <1>4, FS_Subset

(* The tile of the buffer is what is resident in the node or on the mesh,  *)
(* that of the node what is resident there.                                *)
LEMMA SizesAre ==
  ASSUME MapInv, stage = "read", NEW place, IsSolution(layer, machine, mode, solution, place),
         NEW v \in Tensors
  PROVE  /\ schedule.dataSize[v]
              = Times({x \in solution.node \cup In(place, "noc") : x.dim \in DimsOf(v)})
         /\ WholeOf(layer, DimsOf(v))
              = Times({x \in solution.node : x.dim \in DimsOf(v)}) * CutsOf(schedule, DimsOf(v))
         /\ Times({x \in solution.node : x.dim \in DimsOf(v)}) \in Nat
         /\ CutsOf(schedule, DimsOf(v)) \in Nat
<1>1. IsRead(solution, schedule, layer) /\ layer \in Layers /\ machine \in Machines
  BY ScheduleIsRead DEF MapInv
<1>3a. PICK l \in Layers : l = layer
  BY <1>1
<1>3b. PICK D : D = DimsOf(v)
  OBVIOUS
<1>3. l \in Layers /\ l = layer /\ D = DimsOf(v)
  BY <1>3a, <1>3b
<1>4. PICK s : s = schedule /\ IsRead(solution, s, l) /\ IsSolution(l, machine, mode, solution, place)
  BY <1>1, <1>3
<1>5. D \subseteq Dims /\ IsFiniteSet(D)
  BY <1>3, DimsAreFinite
<1>6. PICK node, mesh : node = solution.node /\ mesh = In(place, "noc")
  OBVIOUS
<1>7. /\ node \in SUBSET Factors(l) /\ mesh \in SUBSET Factors(l) /\ node \cap mesh = {}
  <2>1. /\ solution.node \in SUBSET Factors(l)
        /\ place \in [Factors(l) \ solution.node -> Places]
    BY <1>4 DEF IsSolution
  <2> QED BY <1>6, <2>1 DEF In
<1> DEFINE a == [dim \in D |-> Times(Of(node, dim))]
           b == [dim \in D |-> Times(Of(mesh, dim))]
           k == [dim \in D |-> s.space[dim] * Total(s.noc, dim) * Total(s.dram, dim)]
           w == [dim \in D |-> Bound(l, dim)]
           r == [dim \in D |-> Bound(l, dim) \div Total(s.dram, dim)]
<1>8. ASSUME NEW dim \in D
      PROVE  /\ a[dim] \in Nat \ {0} /\ b[dim] \in Nat \ {0} /\ k[dim] \in Nat \ {0}
             /\ w[dim] = a[dim] * k[dim] /\ r[dim] = a[dim] * b[dim]
             /\ b[dim] = s.space[dim] * Total(s.noc, dim)
  <2>1. dim \in Dims
    BY <1>5
  <2>2. PICK x \in Nat \ {0}, p \in Nat \ {0}, t \in Nat \ {0}, u \in Nat \ {0} :
          /\ x = Times(Of(node, dim)) /\ p = s.space[dim]
          /\ t = Total(s.noc, dim) /\ u = Total(s.dram, dim)
          /\ Bound(l, dim) = (x * (p * t)) * u /\ Times(Of(mesh, dim)) = p * t
    BY <1>4, <1>6, <2>1, ScheduleAccounts
  <2>3. a[dim] = x /\ b[dim] = p * t /\ k[dim] = p * t * u /\ w[dim] = (x * (p * t)) * u
    BY <2>2
  <2>4. r[dim] = x * (p * t)
    BY <2>2, DividedAgain
  <2>5. \A y, z \in Nat \ {0} : y * z \in Nat \ {0}
    OBVIOUS
  <2>6. p * t \in Nat \ {0} /\ p * t * u \in Nat \ {0}
    BY <2>5
  <2>7. (x * (p * t)) * u = x * (p * t * u)
    OBVIOUS
  <2> HIDE DEF a, b, k, w, r
  <2> QED BY <2>2, <2>3, <2>4, <2>6, <2>7
<1>9. /\ \A dim \in D : a[dim] = Times({x \in node : x.dim = dim})
      /\ \A dim \in D : k[dim] = s.space[dim] * Total(s.noc, dim) * Total(s.dram, dim)
      /\ \A dim \in D : w[dim] = Bound(l, dim)
      /\ \A dim \in D : r[dim] = Bound(l, dim) \div Total(s.dram, dim)
      /\ \A dim \in D : b[dim] = Times(Of(mesh, dim))
  BY DEF Of
<1> HIDE DEF a, b, k, w, r
<1>10. IsFiniteSet(node) /\ IsFiniteSet(mesh)
       /\ (\A x \in node : x.factor \in Nat \ {0}) /\ (\A x \in mesh : x.factor \in Nat \ {0})
  <2>1. IsFiniteSet(node) /\ \A x \in node : x.factor \in Nat \ {0}
    BY <1>7, SetOfFactors
  <2>2. IsFiniteSet(mesh) /\ \A x \in mesh : x.factor \in Nat \ {0}
    BY <1>7, SetOfFactors
  <2> QED BY <2>1, <2>2
<1>11. Times({x \in node : x.dim \in D}) = ProductOn(a, D)
  BY <1>5, <1>9, <1>10, TimesByDimension
<1>12. Times({x \in node \cup mesh : x.dim \in D}) = ProductOn(r, D)
  <2> DEFINE S == node \cup mesh
  <2>1. IsFiniteSet(S) /\ \A x \in S : x.factor \in Nat \ {0}
    BY <1>10, FS_Union
  <2>2. ASSUME NEW dim \in D PROVE r[dim] = Times({x \in S : x.dim = dim})
    <3>1. {x \in S : x.dim = dim} = Of(node, dim) \cup Of(mesh, dim)
      BY DEF Of
    <3>2. Of(node, dim) \in SUBSET Factors(l) /\ Of(mesh, dim) \in SUBSET Factors(l)
          /\ Of(node, dim) \cap Of(mesh, dim) = {}
      BY <1>7 DEF Of
    <3>3. IsFiniteSet(Of(node, dim)) /\ \A x \in Of(node, dim) : x.factor \in Nat \ {0}
      BY <3>2, SetOfFactors
    <3>4. IsFiniteSet(Of(mesh, dim)) /\ \A x \in Of(mesh, dim) : x.factor \in Nat \ {0}
      BY <3>2, SetOfFactors
    <3>5. Times(Of(node, dim) \cup Of(mesh, dim)) = Times(Of(node, dim)) * Times(Of(mesh, dim))
      <4>1. \A x \in Of(node, dim) \cup Of(mesh, dim) : x.factor \in Nat \ {0}
        BY <3>3, <3>4
      <4> QED BY <3>2, <3>3, <3>4, <4>1, TimesUnion
    <3>6. a[dim] = Times(Of(node, dim))
      BY <1>9 DEF Of
    <3> QED BY <1>8, <1>9, <3>1, <3>5, <3>6
  <2> HIDE DEF S
  <2>3. Times({x \in S : x.dim \in D}) = ProductOn(r, D)
    BY <1>5, <2>1, <2>2, TimesByDimension
  <2> QED BY <2>3 DEF S
<1>13. ProductOn(w, D) = ProductOn(a, D) * ProductOn(k, D)
  BY <1>5, <1>8, ProductOnTimes
<1>14. /\ WholeOf(l, D) = ProductOn(w, D) /\ CutsOf(s, D) = ProductOn(k, D)
       /\ LeftByDram(l, s.dram, D) = ProductOn(r, D)
  BY <1>5, <1>9, WholeIs, CutsAre, LeftIs
<1>15. schedule.dataSize[v] = LeftByDram(l, s.dram, D)
  <2>1. schedule = ScheduleFromStrategy(BuildStrategy(solution), layer)
    BY <1>1 DEF IsRead
  <2>2. /\ schedule.dram = ExpandLoops(Reverse(BuildStrategy(solution).dram))
        /\ schedule.dataSize = [t \in Tensors |->
              LeftByDram(layer, ExpandLoops(Reverse(BuildStrategy(solution).dram)), DimsOf(t))]
    BY <2>1 DEF ScheduleFromStrategy, LeftByDram
  <2>3. schedule.dataSize[v]
          = LeftByDram(layer, ExpandLoops(Reverse(BuildStrategy(solution).dram)), DimsOf(v))
    BY <2>2
  <2> QED BY <1>3, <1>4, <2>2, <2>3
<1>16. ProductOn(a, D) \in Nat /\ ProductOn(k, D) \in Nat
  BY <1>5, <1>8, ProductOnType
<1>17. schedule.dataSize[v]
         = Times({x \in solution.node \cup In(place, "noc") : x.dim \in DimsOf(v)})
  <2>1. schedule.dataSize[v] = Times({x \in node \cup mesh : x.dim \in D})
    BY <1>12, <1>14, <1>15
  <2> QED BY <1>3, <1>6, <2>1
<1>18. WholeOf(l, D) = Times({x \in node : x.dim \in D}) * CutsOf(s, D)
       /\ Times({x \in node : x.dim \in D}) \in Nat /\ CutsOf(s, D) \in Nat
  BY <1>11, <1>13, <1>14, <1>16
<1> QED BY <1>3, <1>4, <1>6, <1>17, <1>18

(* What the solver reckoned for the buffers is what the tiles need.        *)
LEMMA SizesFit ==
  ASSUME MapInv
  PROVE  TilesFitBuffers
<1> SUFFICES ASSUME stage = "read", NEW v \in Tensors
             PROVE  /\ "noc" \in DOMAIN machine.limits =>
                         schedule.dataSize[v] <= machine.limits["noc"][v]
                    /\ "node" \in DOMAIN machine.limits =>
                         WholeOf(layer, DimsOf(v))
                           <= machine.limits["node"][v] * CutsOf(schedule, DimsOf(v))
  BY DEF TilesFitBuffers, WholeOf, CutsOf
<1>1. machine \in Machines
  BY DEF MapInv
<1>2. PICK place : IsSolution(layer, machine, mode, solution, place)
  BY SolutionIs
<1>3. PICK inNode \in Nat, cuts \in Nat :
        /\ inNode = Times({x \in solution.node : x.dim \in DimsOf(v)})
        /\ cuts = CutsOf(schedule, DimsOf(v)) /\ WholeOf(layer, DimsOf(v)) = inNode * cuts
  BY <1>2, SizesAre
<1>4. schedule.dataSize[v]
        = Times({x \in solution.node \cup In(place, "noc") : x.dim \in DimsOf(v)})
  BY <1>2, SizesAre
<1>5. TilesFit(machine, Inside(solution.node, place))
  BY <1>2 DEF IsSolution
<1>6. ASSUME "noc" \in DOMAIN machine.limits
      PROVE  schedule.dataSize[v] <= machine.limits["noc"][v]
  <2>1. Inside(solution.node, place)["noc"] = solution.node \cup In(place, "noc")
    BY DEF Inside, In, InMesh
  <2> QED BY <1>4, <1>5, <1>6, <2>1 DEF TilesFit
<1>7. ASSUME "node" \in DOMAIN machine.limits
      PROVE  WholeOf(layer, DimsOf(v)) <= machine.limits["node"][v] * CutsOf(schedule, DimsOf(v))
  <2>1. Inside(solution.node, place)["node"] = solution.node
    BY DEF Inside
  <2>2. inNode <= machine.limits["node"][v]
    BY <1>3, <1>5, <1>7, <2>1 DEF TilesFit
  <2>3. machine.limits["node"][v] \in Nat
    <3>1. \E R \in SUBSET {"node", "noc"} : machine.limits \in [R -> [Tensors -> Nat \ {0}]]
      BY <1>1, MappingAssumption
    <3> QED BY <1>7, <3>1
  <2>4. \A x, y, z \in Nat : x <= y => x * z <= y * z
    OBVIOUS
  <2> QED BY <1>3, <2>2, <2>3, <2>4
<1> QED BY <1>6, <1>7

-----------------------------------------------------------------------------
(* What a cycle model is told of its tile.                                 *)

LEMMA WidthsAreResident ==
  ASSUME MapInv
  PROVE  BoundIsResidency
BY NodeBoundIs DEF BoundIsResidency, Of

(* The elements of two sequences in a row are those of either. *)
LEMMA Joined ==
  ASSUME NEW R, NEW a \in Seq(R), NEW b \in Seq(R)
  PROVE  /\ a \o b \in Seq(R) /\ Len(a) \in Nat /\ Len(b) \in Nat
         /\ DOMAIN a = 1 .. Len(a) /\ DOMAIN b = 1 .. Len(b)
         /\ DOMAIN (a \o b) = 1 .. Len(a) + Len(b)
         /\ \A i \in 1 .. Len(a) : (a \o b)[i] = a[i]
         /\ \A i \in 1 .. Len(b) : (a \o b)[Len(a) + i] = b[i]
<1>1. a \o b \in Seq(R) /\ Len(a \o b) = Len(a) + Len(b)
  OBVIOUS
<1>2. \A i \in 1 .. Len(b) : (a \o b)[Len(a) + i] = b[i]
  OBVIOUS
<1> QED BY <1>1, <1>2

(* Loops of two nests, one around the other.                               *)
LEMMA HasJoined ==
  ASSUME NEW R, NEW a \in Seq(R), NEW b \in Seq(R), NEW D
  PROVE  Has(a \o b, D) <=> Has(a, D) \/ Has(b, D)
<1>1. PICK k \in Nat, m \in Nat : k = Len(a) /\ m = Len(b)
  BY Joined
<1>2. PICK c : c = a \o b
  OBVIOUS
<1>3. /\ DOMAIN a = 1 .. k /\ DOMAIN b = 1 .. m /\ DOMAIN c = 1 .. k + m
      /\ \A i \in 1 .. k : c[i] = a[i]
      /\ \A i \in 1 .. m : c[k + i] = b[i]
  BY <1>1, <1>2, Joined
<1>4. ASSUME NEW i \in DOMAIN c, c[i].dim \in D PROVE Has(a, D) \/ Has(b, D)
  <2>1. i \in 1 .. k \/ (i - k \in 1 .. m /\ k + (i - k) = i)
    BY <1>1, <1>3
  <2> QED BY <1>1, <1>3, <1>4, <2>1 DEF Has
<1>5. ASSUME NEW i \in DOMAIN a, a[i].dim \in D PROVE Has(c, D)
  <2>1. i \in 1 .. k + m
    BY <1>1, <1>3
  <2> QED BY <1>3, <1>5, <2>1 DEF Has
<1>6. ASSUME NEW i \in DOMAIN b, b[i].dim \in D PROVE Has(c, D)
  <2>1. k + i \in 1 .. k + m
    BY <1>1, <1>3
  <2> QED BY <1>3, <1>6, <2>1 DEF Has
<1>7. Has(c, D) <=> Has(a, D) \/ Has(b, D)
  BY <1>4, <1>5, <1>6 DEF Has
<1> QED BY <1>2, <1>7

(* A pixel dimension that is not in the node is looped over or spread, if  *)
(* there is anything of it.                                                *)
LEMMA PixelsHaveOffsets ==
  ASSUME MapInv, stage = "read", NEW dim \in {"HO", "WO"}, Barred(dim), Bound(layer, dim) > 1
  PROVE  dim \in OffsetDims
<1>1. IsRead(solution, schedule, layer) /\ layer \in Layers
  BY ScheduleIsRead DEF MapInv
<1>2. PICK place : IsSolution(layer, machine, mode, solution, place)
  BY SolutionIs
<1>3. dim \in Dims
  BY DEF Dims
<1>4. Times(Of(solution.node, dim)) = 1
  <2>1. NodeIsFilled(layer, machine, solution.node) /\ solution.node \subseteq Factors(layer)
    BY <1>2 DEF IsSolution
  <2>2. FactorsOf(layer, dim) \cap solution.node = {}
    BY <1>3, <2>1 DEF NodeIsFilled, Barred
  <2>3. Of(solution.node, dim) = {}
    BY <1>1, <1>3, <2>1, <2>2, FactorsOfDimension DEF Of
  <2> QED BY <2>3, TimesOfNone
<1>5. SUFFICES ASSUME dim \notin OffsetDims PROVE FALSE
  OBVIOUS
<1>6. PICK a \in Nat \ {0}, p \in Nat \ {0}, t \in Nat \ {0}, u \in Nat \ {0} :
        /\ a = Times(Of(solution.node, dim)) /\ p = schedule.space[dim]
        /\ t = Total(schedule.noc, dim) /\ u = Total(schedule.dram, dim)
        /\ Bound(layer, dim) = (a * (p * t)) * u
  BY <1>1, <1>2, <1>3, ScheduleAccounts
<1>7. ~Has(schedule.dram \o schedule.noc, {dim}) /\ ~(p > 1)
  BY <1>3, <1>5, <1>6 DEF OffsetDims
<1>8. ~Has(schedule.dram, {dim}) /\ ~Has(schedule.noc, {dim})
  <2>1. schedule.dram \in Loops /\ schedule.noc \in Loops
    BY <1>1 DEF IsRead
  <2> QED BY <1>7, <2>1, HasJoined DEF Loops
<1>9. u = 1 /\ t = 1
  BY <1>1, <1>6, <1>8, NoLoop DEF IsRead
<1>10. Bound(layer, dim) = (1 * (1 * 1)) * 1
  BY <1>4, <1>6, <1>7, <1>9
<1> QED BY <1>10

(* A cycle model finds the offsets that it looks up.                       *)
LEMMA PixelsAre ==
  ASSUME TilesInv
  PROVE  PixelsAreAddressed
<1> SUFFICES ASSUME NEW t \in tiles, NEW dim \in {"HO", "WO"}, Barred(dim), Bound(layer, dim) > 1
             PROVE  dim \in DOMAIN t.offset
  BY DEF PixelsAreAddressed
<1>1. stage = "read"
  BY TilesAre
<1>2. PICK z \in Round(schedule) : t = Tile(z[1], z[2], z[3])
  BY TilesAre
<1>3. DOMAIN t.offset = OffsetDims
  BY <1>2 DEF Tile, TileOffset
<1> QED BY <1>1, <1>3, PixelsHaveOffsets DEF TilesInv

(* The width and the place a cycle model is told of its tile are what the  *)
(* solver decided: a tile is as wide as what is resident in the node, the  *)
(* tiles fit the buffers the solver was given, and a pixel dimension that  *)
(* is not in the node has its entry in every tile's offset.                *)
THEOREM DescribedCorrect == Spec => []TilesAreDescribed
<1>1. TilesInv => TilesAreDescribed
  BY WidthsAreResident, SizesFit, PixelsAre DEF TilesAreDescribed, TilesInv
<1> QED BY <1>1, TilesInvHolds, PTL

-----------------------------------------------------------------------------
(* What is read is what the solver's variables describe.                   *)

(* A kept result is one that no other dimension's loop comes inside of.    *)
LEMMA InnermostIs ==
  ASSUME NEW loops \in Loops, NEW D \in SUBSET Dims
  PROVE  Innermost(loops, D) <=> \A x, y \in Dims : x \notin D /\ y \in D => ~Nested(loops, x, y)
<1>1. \A i \in DOMAIN loops : loops[i].dim \in Dims
  <2>1. PICK R : loops \in Seq(R) /\ R = LoopType
    BY DEF Loops, LoopType
  <2>2. \A i \in DOMAIN loops : loops[i] \in R
    BY <2>1
  <2> QED BY <2>1, <2>2 DEF LoopType
<1> QED BY <1>1 DEF Innermost, Nested

(* What is nested in what, in two nests, one around the other.             *)
LEMMA NestedJoined ==
  ASSUME NEW a \in Loops, NEW b \in Loops, NEW x, NEW y
  PROVE  Nested(a \o b, x, y)
           <=> Nested(a, x, y) \/ Nested(b, x, y) \/ (Has(a, {x}) /\ Has(b, {y}))
<1>1. PICK k \in Nat, m \in Nat : k = Len(a) /\ m = Len(b)
  BY NestsJoined
<1>2. PICK c : c = a \o b
  OBVIOUS
<1>3. /\ DOMAIN a = 1 .. k /\ DOMAIN b = 1 .. m /\ DOMAIN c = 1 .. k + m
      /\ \A i \in 1 .. k : c[i] = a[i]
      /\ \A i \in 1 .. m : c[k + i] = b[i]
  BY <1>1, <1>2, NestsJoined
<1>4. \A i \in 1 .. m : k + i \in 1 .. k + m
  BY <1>1
<1>5. ASSUME NEW i \in DOMAIN c, NEW j \in DOMAIN c, i < j, c[i].dim = x, c[j].dim = y
      PROVE  Nested(a, x, y) \/ Nested(b, x, y) \/ (Has(a, {x}) /\ Has(b, {y}))
  <2>1. CASE j \in 1 .. k
    <3>1. i \in 1 .. k
      BY <1>1, <1>3, <1>5, <2>1
    <3> QED BY <1>3, <1>5, <2>1, <3>1 DEF Nested
  <2>2. CASE i \in 1 .. k /\ j \notin 1 .. k
    <3>1. j - k \in 1 .. m /\ k + (j - k) = j
      BY <1>1, <1>3, <2>2
    <3> QED BY <1>3, <1>5, <2>2, <3>1 DEF Has
  <2>3. CASE i \notin 1 .. k /\ j \notin 1 .. k
    <3>1. /\ j - k \in 1 .. m /\ k + (j - k) = j
          /\ i - k \in 1 .. m /\ k + (i - k) = i /\ i - k < j - k
      BY <1>1, <1>3, <1>5, <2>3
    <3> QED BY <1>3, <1>5, <3>1 DEF Nested
  <2> QED BY <2>1, <2>2, <2>3
<1>6. ASSUME NEW i \in DOMAIN a, NEW j \in DOMAIN a, i < j, a[i].dim = x, a[j].dim = y
      PROVE  Nested(c, x, y)
  <2>1. i \in 1 .. k + m /\ j \in 1 .. k + m
    BY <1>1, <1>3
  <2> QED BY <1>3, <1>6, <2>1 DEF Nested
<1>7. ASSUME NEW i \in DOMAIN b, NEW j \in DOMAIN b, i < j, b[i].dim = x, b[j].dim = y
      PROVE  Nested(c, x, y)
  <2>1. k + i \in 1 .. k + m /\ k + j \in 1 .. k + m /\ k + i < k + j
    BY <1>1, <1>3, <1>7
  <2> QED BY <1>3, <1>7, <2>1 DEF Nested
<1>8. ASSUME NEW i \in DOMAIN a, NEW j \in DOMAIN b, a[i].dim = x, b[j].dim = y
      PROVE  Nested(c, x, y)
  <2>1. i \in 1 .. k + m /\ k + j \in 1 .. k + m /\ i < k + j
    BY <1>1, <1>3
  <2> QED BY <1>3, <1>8, <2>1 DEF Nested
<1>9. Nested(c, x, y) => Nested(a, x, y) \/ Nested(b, x, y) \/ (Has(a, {x}) /\ Has(b, {y}))
  BY <1>5 DEF Nested
<1>10. Nested(a, x, y) => Nested(c, x, y)
  BY <1>6 DEF Nested
<1>11. Nested(b, x, y) => Nested(c, x, y)
  BY <1>7 DEF Nested
<1>12. Has(a, {x}) /\ Has(b, {y}) => Nested(c, x, y)
  BY <1>8 DEF Has
<1> QED BY <1>2, <1>9, <1>10, <1>11, <1>12

(* Nests that are walked alike keep the same. *)
LEMMA KeptAlike ==
  ASSUME NEW a, NEW b, Alike(a, b), NEW c, NEW e, Alike(c, e), NEW D \in SUBSET Dims
  PROVE  /\ Innermost(a, D) <=> Innermost(b, D)
         /\ Innermost(a \o c, D) <=> Innermost(b \o e, D)
<1>1. a \in Loops /\ b \in Loops /\ c \in Loops /\ e \in Loops
  BY DEF Alike
<1>2. /\ \A x \in Dims : (Has(a, {x}) <=> Has(b, {x})) /\ (Has(c, {x}) <=> Has(e, {x}))
      /\ \A x, y \in Dims : y # x => /\ Nested(a, x, y) <=> Nested(b, x, y)
                                     /\ Nested(c, x, y) <=> Nested(e, x, y)
  BY DEF Alike, SameOrder
<1>3. a \o c \in Loops /\ b \o e \in Loops
  BY <1>1, NestsJoined
<1>4. ASSUME NEW x \in Dims, NEW y \in Dims, x # y
      PROVE  Nested(a \o c, x, y) <=> Nested(b \o e, x, y)
  <2>1. Nested(a \o c, x, y)
          <=> Nested(a, x, y) \/ Nested(c, x, y) \/ (Has(a, {x}) /\ Has(c, {y}))
    BY <1>1, NestedJoined
  <2>2. Nested(b \o e, x, y)
          <=> Nested(b, x, y) \/ Nested(e, x, y) \/ (Has(b, {x}) /\ Has(e, {y}))
    BY <1>1, NestedJoined
  <2> QED BY <1>2, <1>4, <2>1, <2>2
<1>5. Innermost(a, D) <=> Innermost(b, D)
  <2>1. Innermost(a, D) <=> \A x, y \in Dims : x \notin D /\ y \in D => ~Nested(a, x, y)
    BY <1>1, InnermostIs
  <2>2. Innermost(b, D) <=> \A x, y \in Dims : x \notin D /\ y \in D => ~Nested(b, x, y)
    BY <1>1, InnermostIs
  <2> QED BY <1>2, <2>1, <2>2
<1>6. Innermost(a \o c, D) <=> Innermost(b \o e, D)
  <2>1. Innermost(a \o c, D) <=> \A x, y \in Dims : x \notin D /\ y \in D => ~Nested(a \o c, x, y)
    BY <1>3, InnermostIs
  <2>2. Innermost(b \o e, D) <=> \A x, y \in Dims : x \notin D /\ y \in D => ~Nested(b \o e, x, y)
    BY <1>3, InnermostIs
  <2> QED BY <1>4, <2>1, <2>2
<1> QED BY <1>5, <1>6

Within(S, D) == {f \in S : f.dim \in D}

(* A slot of the mesh's permutation stands for the factor put there. *)
LEMMA SlotsStandForFactors ==
  ASSUME NEW l \in Layers, NEW node \in SUBSET Factors(l),
         NEW place \in [Factors(l) \ node -> Places],
         NEW noc \in Slots(place, "noc"), NEW D
  PROVE  Times(Within(node \cup ToSet(noc), D)) = Times(Within(node \cup In(place, "noc"), D))
<1>1. PICK mesh : mesh = In(place, "noc")
  OBVIOUS
<1>2. IsPlacement(l, place)
  BY DEF IsPlacement
<1>3. /\ \A k \in DOMAIN noc : \E f \in mesh : noc[k] = SlotOf(place, f)
      /\ \A f \in mesh : \E k \in DOMAIN noc : noc[k] = SlotOf(place, f)
      /\ mesh \subseteq Factors(l)
  BY <1>1, <1>2, SlotsAre
<1>4. ToSet(noc) = {SlotOf(place, f) : f \in mesh}
  BY <1>3 DEF ToSet
<1>5. mesh \cap node = {}
  BY <1>1 DEF In
<1> DEFINE S == {f \in node \cup mesh : f.dim \in D}
           g == [x \in S |-> IF x \in node THEN x ELSE SlotOf(place, x)]
<1>6. S \in SUBSET Factors(l)
  BY <1>3
<1>7. IsFiniteSet(S) /\ \A x \in S : x.factor \in Nat \ {0}
  BY <1>6, SetOfFactors
<1>8. \A x \in S : g[x].factor = x.factor /\ g[x].dim = x.dim
  BY DEF SlotOf
<1>9. ASSUME NEW x \in S, NEW y \in S, g[x] = g[y] PROVE x = y
  <2>1. /\ x = [dim |-> x.dim, n |-> x.n, factor |-> x.factor]
        /\ y = [dim |-> y.dim, n |-> y.n, factor |-> y.factor]
    BY <1>6, FactorsAre
  <2>2. "kind" \notin DOMAIN x /\ "kind" \notin DOMAIN y
    BY <2>1
  <2>3. \A z : "kind" \in DOMAIN SlotOf(place, z)
    BY DEF SlotOf
  <2>4. \A z, w : SlotOf(place, z) = SlotOf(place, w)
                    => z.dim = w.dim /\ z.n = w.n /\ z.factor = w.factor
    BY DEF SlotOf
  <2>5. (x \in node /\ y \in node) \/ (x \notin node /\ y \notin node)
    BY <1>9, <2>2, <2>3
  <2>6. CASE x \in node /\ y \in node
    BY <1>9, <2>6
  <2>7. CASE x \notin node /\ y \notin node
    <3>1. SlotOf(place, x) = SlotOf(place, y)
      BY <1>9, <2>7
    <3> QED BY <2>1, <2>4, <3>1
  <2> QED BY <2>5, <2>6, <2>7
<1>10. {g[x] : x \in S} = {f \in node \cup ToSet(noc) : f.dim \in D}
  <2>1. ASSUME NEW x \in S PROVE g[x] \in {f \in node \cup ToSet(noc) : f.dim \in D}
    <3>1. g[x].dim \in D
      BY <1>8
    <3>2. g[x] \in node \cup ToSet(noc)
      BY <1>4
    <3> QED BY <3>1, <3>2
  <2>2. ASSUME NEW f \in node \cup ToSet(noc), f.dim \in D PROVE \E x \in S : f = g[x]
    <3>1. CASE f \in node
      BY <2>2, <3>1
    <3>2. CASE f \in ToSet(noc)
      <4>1. PICK x \in mesh : f = SlotOf(place, x)
        BY <1>4, <3>2
      <4>2. x.dim \in D
        BY <2>2, <4>1 DEF SlotOf
      <4>3. x \in S /\ x \notin node
        BY <1>5, <4>2
      <4> QED BY <4>1, <4>3
    <3> QED BY <2>2, <3>1, <3>2
  <2> QED BY <2>1, <2>2
<1>11. Times({g[x] : x \in S}) = Times(S)
  <2> HIDE DEF S, g
  <2> QED BY <1>7, <1>8, <1>9, TimesOfImage
<1> QED BY <1>1, <1>10, <1>11 DEF Within

(* What is written and read has the indices of the solution.               *)
LEMMA NestIsSame ==
  ASSUME MapInv
  PROVE  SameNest
<1> SUFFICES ASSUME stage = "read" PROVE SameNest
  BY DEF SameNest
<1>1. IsRead(solution, schedule, layer) /\ layer \in Layers
  BY ScheduleIsRead DEF MapInv
<1>2. PICK place : IsSolution(layer, machine, mode, solution, place)
  BY SolutionIs
<1>3. PICK direct : direct = Decode(solution)
  OBVIOUS
<1>4. /\ direct.noc = Loop(OverTime(solution.noc)) /\ direct.dram = Loop(OverTime(solution.dram))
      /\ direct.space = [dim \in Dims |-> Total(OverSpace(solution.noc), dim)]
      /\ direct.dataSize = [v \in Tensors |->
           Times({f \in solution.node \cup ToSet(solution.noc) : f.dim \in DimsOf(v)})]
  BY <1>3 DEF Decode
<1>5. /\ Alike(schedule.noc, direct.noc) /\ Alike(schedule.dram, direct.dram)
      /\ schedule.space = direct.space
  BY <1>1, <1>4, ScheduleIs DEF IsRead
<1>6. /\ SameIndices(schedule.noc, direct.noc) /\ SameIndices(schedule.dram, direct.dram)
  <2>1. ASSUME NEW a, NEW b, Alike(a, b) PROVE SameIndices(a, b)
    <3>1. Steps(a) = Steps(b) /\ Steps(a) \in Nat
      BY <2>1, ProductIsNat DEF Alike, SameWalk, Steps
    <3>2. \A step \in 0 .. Steps(a) - 1 : step \in Nat
      BY <3>1
    <3> QED BY <2>1, <3>1, <3>2 DEF Alike, SameWalk, SameIndices
  <2> QED BY <1>5, <2>1
<1>7. schedule.dataSize = direct.dataSize
  <2>1. ASSUME NEW v \in Tensors PROVE schedule.dataSize[v] = direct.dataSize[v]
    <3>1. schedule.dataSize[v]
            = Times({x \in solution.node \cup In(place, "noc") : x.dim \in DimsOf(v)})
      BY <1>2, SizesAre
    <3>2. direct.dataSize[v]
            = Times({f \in solution.node \cup ToSet(solution.noc) : f.dim \in DimsOf(v)})
      BY <1>4
    <3>3. /\ solution.node \in SUBSET Factors(layer)
          /\ place \in [Factors(layer) \ solution.node -> Places]
          /\ solution.noc \in Slots(place, "noc")
      BY <1>2 DEF IsSolution
    <3>4. ASSUME NEW D
          PROVE  Times({f \in solution.node \cup ToSet(solution.noc) : f.dim \in D})
                   = Times({f \in solution.node \cup In(place, "noc") : f.dim \in D})
      <4>1. Times(Within(solution.node \cup ToSet(solution.noc), D))
              = Times(Within(solution.node \cup In(place, "noc"), D))
        BY <1>1, <3>3, SlotsStandForFactors
      <4> QED BY <4>1 DEF Within
    <3> QED BY <3>1, <3>2, <3>4
  <2>2. schedule = ScheduleFromStrategy(BuildStrategy(solution), layer)
    BY <1>1 DEF IsRead
  <2>3. schedule.dataSize = [v \in Tensors |-> schedule.dataSize[v]]
    BY <2>2 DEF ScheduleFromStrategy
  <2>4. direct.dataSize = [v \in Tensors |-> direct.dataSize[v]]
    BY <1>4
  <2> QED BY <2>1, <2>3, <2>4
<1>8. ASSUME NEW D \in {ReductionDims, Time}
      PROVE  /\ KeptInNode(schedule, D) = KeptInNode(direct, D)
             /\ KeptInBuffer(schedule, D) = KeptInBuffer(direct, D)
  <2>1. D \in SUBSET Dims
    BY <1>8 DEF ReductionDims, Time, Dims
  <2>2. /\ Innermost(schedule.dram, D) <=> Innermost(direct.dram, D)
        /\ Innermost(schedule.noc \o schedule.dram, D) <=> Innermost(direct.noc \o direct.dram, D)
    BY <1>5, <2>1, KeptAlike
  <2>3. \A loops : Innermost(loops, D) \in BOOLEAN
    BY DEF Innermost
  <2> QED BY <2>2, <2>3 DEF KeptInNode, KeptInBuffer
<1> QED BY <1>3, <1>5, <1>6, <1>7, <1>8 DEF SameNest

(* A schedule read from the strategy file is the one the solver's          *)
(* variables describe, for any factors of any layer: the same steps and    *)
(* indices, the same spread and sizes, the same tensors kept.              *)
THEOREM SameNestCorrect == Spec => []SameNest
<1>1. TilesInv => SameNest
  BY NestIsSame DEF TilesInv
<1> QED BY <1>1, TilesInvHolds, PTL

-----------------------------------------------------------------------------
(* What a mode spares.                                                     *)

(* Of the loops in DRAM either none is over the dimensions or no other     *)
(* loop comes inside of one that is.                                       *)
SparedBy(slots, D) == ~Has(slots, D) \/ Above(slots, Dims \ D, D)

(* A spared result is innermost or is not touched by the loops in DRAM.    *)
LEMMA SparedIsKept ==
  ASSUME NEW slots \in Seq(Slot), NEW D \in SUBSET Dims, SparedBy(slots, D),
         NEW dram, Alike(dram, Loop(slots))
  PROVE  Innermost(dram, D) \/ \A d \in Nat : \A dim \in D : Index(d, dram, dim) = 0
<1>0. PICK n \in Nat : n = Len(slots)
  BY LoopIs
<1>1. PICK loops : loops = Loop(slots)
  OBVIOUS
<1>2. /\ loops \in Loops /\ DOMAIN loops = 1 .. n /\ DOMAIN slots = 1 .. n
      /\ \A k \in 1 .. n : loops[k].dim = slots[k].dim /\ slots[k].dim \in Dims
  <2>1. \A k \in 1 .. n : slots[k].dim \in Dims /\ loops[k] = LoopOver(slots[k].dim, slots[k].factor)
    BY <1>0, <1>1, LoopIs
  <2>2. \A x, y : LoopOver(x, y).dim = x
    BY DEF LoopOver
  <2>3. \A k \in 1 .. n : loops[k].dim = slots[k].dim /\ slots[k].dim \in Dims
    BY <2>1, <2>2
  <2> QED BY <1>0, <1>1, <2>3, LoopIs
<1>3. dram \in Loops /\ Alike(dram, loops)
  BY <1>1 DEF Alike
<1>4. CASE ~Has(slots, D)
  <2>1. ASSUME NEW dim \in D PROVE \A d \in Nat : Index(d, dram, dim) = 0
    <3>1. ~Has(loops, {dim})
      BY <1>2, <1>4 DEF Has
    <3>2. ~Has(dram, {dim})
      BY <1>3, <3>1 DEF Alike, SameOrder
    <3> QED BY <1>3, <3>2, NoLoop
  <2> QED BY <2>1
<1>5. CASE Above(slots, Dims \ D, D)
  <2>1. Innermost(loops, D)
    <3>1. ASSUME NEW i \in 1 .. n, NEW j \in 1 .. n, i < j, slots[j].dim \in D, slots[i].dim \notin D
          PROVE  FALSE
      <4>1. slots[i].dim \in Dims \ D
        BY <1>2, <3>1
      <4>2. j < i
        BY <1>2, <1>5, <3>1, <4>1 DEF Above
      <4> QED BY <3>1, <4>2
    <3> QED BY <1>2, <3>1 DEF Innermost
  <2> QED BY <1>3, <2>1, KeptAlike
<1> QED BY <1>4, <1>5 DEF SparedBy

(* The traffic modes but both_dram_ootk. *)
OrderedModes ==
  {"base", "psum_dram_otok", "psum_gb_otok", "vmem_dram_xxxt", "vmem_gb_xxxt",
   "dram_oooo", "dram_ooot", "dram_oook", "gb_oooo", "gb_ooot", "gb_oook", "gb_ootk"}

(* Time and what is summed over are the dimensions an output does not      *)
(* have.                                                                   *)
LEMMA DimensionsAre ==
  /\ Dims \ ReductionDims = OutputDims \cup Time
  /\ Dims \ Time = OutputDims \cup ReductionDims
  /\ ReductionDims \in SUBSET Dims /\ Time \in SUBSET Dims
BY DEF Dims, ReductionDims, OutputDims, Time

(* No loop over either set is no loop over one.                            *)
LEMMA FewerHas ==
  ASSUME NEW loops, NEW D, NEW E, ~Has(loops, D \cup E)
  PROVE  ~Has(loops, D) /\ ~Has(loops, E)
BY DEF Has

(* Where there is no loop over one of two sets of dimensions, putting the  *)
(* other above does for both.                                              *)
LEMMA AboveWithNone ==
  ASSUME NEW loops, NEW D, NEW E, NEW F, Above(loops, D, E), ~Has(loops, F)
  PROVE  Above(loops, D \cup F, E)
BY DEF Above, Has

(* Loops around two sets of dimensions are around both.                    *)
LEMMA AboveBoth ==
  ASSUME NEW loops, NEW D, NEW E, NEW F, Above(loops, D, F), Above(loops, E, F)
  PROVE  Above(loops, D \cup E, F)
BY DEF Above

(* What the constraints of a mode come to for the tensors it spares. *)
LEMMA ModeOrders ==
  ASSUME NEW md \in OrderedModes, NEW gb \in Seq(Slot), NEW dram \in Seq(Slot),
         Ordered(md, gb, dram), NEW v \in Spared(md)
  PROVE  v \in {"psum", "vmem"} /\ SparedBy(dram, CarriedOver(v))
<1> DEFINE K == ReductionDims
           O == OutputDims
<1>1. /\ Dims \ K = O \cup Time /\ Dims \ Time = O \cup K
  BY DimensionsAre
<1>2. v \in {"psum", "vmem"}
  BY DEF Spared, OrderedModes
<1>3. /\ CarriedOver("psum") = K /\ CarriedOver("vmem") = Time
  BY DEF CarriedOver
<1>4. ASSUME ~Has(dram, K) \/ Above(dram, O \cup Time, K) PROVE SparedBy(dram, K)
  BY <1>1, <1>4 DEF SparedBy
<1>5. ASSUME ~Has(dram, Time) \/ Above(dram, O \cup K, Time) PROVE SparedBy(dram, Time)
  BY <1>1, <1>5 DEF SparedBy
<1> HIDE DEF K, O
<1>6. CASE md = "base"
  BY <1>6 DEF Spared
<1>7. CASE md = "psum_dram_otok"
  <2>1. v = "psum"
    BY <1>7 DEF Spared
  <2>2. Above(dram, O \cup Time, K)
    BY <1>7 DEF Ordered, AddOtokDram, K, O
  <2> QED BY <1>3, <1>4, <2>1, <2>2
<1>8. CASE md = "psum_gb_otok"
  <2>1. v = "psum"
    BY <1>8 DEF Spared
  <2>2. ~Has(dram, K)
    BY <1>8 DEF Ordered, AddOtokGb, K
  <2> QED BY <1>3, <1>4, <2>1, <2>2
<1>9. CASE md = "vmem_dram_xxxt"
  <2>1. v = "vmem"
    BY <1>9 DEF Spared
  <2>2. Above(dram, O \cup K, Time)
    BY <1>9 DEF Ordered, AddXxxtDram, K, O
  <2> QED BY <1>3, <1>5, <2>1, <2>2
<1>10. CASE md = "vmem_gb_xxxt"
  <2>1. v = "vmem"
    BY <1>10 DEF Spared
  <2>2. ~Has(dram, Time)
    BY <1>10 DEF Ordered, AddXxxtGb
  <2> QED BY <1>3, <1>5, <2>1, <2>2
<1>11. CASE md = "dram_oooo"
  <2>1. ~Has(dram, K \cup Time)
    BY <1>11 DEF Ordered, AddOoooDram, K
  <2>2. ~Has(dram, K) /\ ~Has(dram, Time)
    BY <2>1, FewerHas
  <2> QED BY <1>2, <1>3, <1>4, <1>5, <2>2
<1>12. CASE md = "dram_ooot"
  <2>1. ~Has(dram, K) /\ Above(dram, O, Time)
    BY <1>12 DEF Ordered, AddOootDram, K, O
  <2>2. Above(dram, O \cup K, Time)
    BY <2>1, AboveWithNone
  <2> QED BY <1>2, <1>3, <1>4, <1>5, <2>1, <2>2
<1>13. CASE md = "dram_oook"
  <2>1. ~Has(gb \o dram, Time) /\ Above(dram, O, K)
    BY <1>13 DEF Ordered, AddOookDram, K, O
  <2>2. ~Has(dram, Time)
    BY <2>1, HasJoined
  <2>3. Above(dram, O \cup Time, K)
    BY <2>1, <2>2, AboveWithNone
  <2> QED BY <1>2, <1>3, <1>4, <1>5, <2>2, <2>3
<1>14. CASE md = "gb_oooo"
  <2>1. ~Has(gb \o dram, K \cup Time)
    BY <1>14 DEF Ordered, AddOoooGb, K
  <2>2. ~Has(dram, K \cup Time)
    BY <2>1, HasJoined
  <2>3. ~Has(dram, K) /\ ~Has(dram, Time)
    BY <2>2, FewerHas
  <2> QED BY <1>2, <1>3, <1>4, <1>5, <2>3
<1>15. CASE md = "gb_ooot"
  <2>1. ~Has(gb \o dram, K) /\ ~Has(dram, Time)
    BY <1>15 DEF Ordered, AddOootGb, K
  <2>2. ~Has(dram, K)
    BY <2>1, HasJoined
  <2> QED BY <1>2, <1>3, <1>4, <1>5, <2>1, <2>2
<1>16. CASE md = "gb_oook"
  <2>1. ~Has(gb \o dram, Time) /\ ~Has(dram, K)
    BY <1>16 DEF Ordered, AddOookGb, K
  <2>2. ~Has(dram, Time)
    BY <2>1, HasJoined
  <2> QED BY <1>2, <1>3, <1>4, <1>5, <2>1, <2>2
<1>17. CASE md = "gb_ootk"
  <2>1. ~Has(dram, K \cup Time)
    BY <1>17 DEF Ordered, AddOotkGb, K
  <2>2. ~Has(dram, K) /\ ~Has(dram, Time)
    BY <2>1, FewerHas
  <2> QED BY <1>2, <1>3, <1>4, <1>5, <2>2
<1> QED BY <1>6, <1>7, <1>8, <1>9, <1>10, <1>11, <1>12, <1>13, <1>14, <1>15, <1>16, <1>17
       DEF OrderedModes

(* What the mode spares is not carried to DRAM and back.                   *)
LEMMA TensorsAreSpared ==
  ASSUME MapInv, mode \in OrderedModes
  PROVE  ModeSparesDram
<1> SUFFICES ASSUME stage = "read", NEW v \in Spared(mode),
                    NEW d \in 0 .. Steps(schedule.dram) - 1,
                    ~IsFirstInDram(schedule, d, CarriedOver(v)),
                    ~KeptInBuffer(schedule, CarriedOver(v))
             PROVE  FALSE
  BY DEF ModeSparesDram, FetchedFromDram
<1>1. IsRead(solution, schedule, layer) /\ layer \in Layers
  BY ScheduleIsRead DEF MapInv
<1>2. PICK place : IsSolution(layer, machine, mode, solution, place)
  BY SolutionIs
<1>3. PICK gb, dram : gb = OverTime(solution.noc) /\ dram = OverTime(solution.dram)
  OBVIOUS
<1>4. gb \in Seq(Slot) /\ dram \in Seq(Slot) /\ Alike(schedule.dram, Loop(dram))
  BY <1>1, <1>3, OverSlots, ScheduleIs DEF IsRead, OverTime
<1>5. v \in {"psum", "vmem"} /\ SparedBy(dram, CarriedOver(v))
  BY <1>2, <1>3, <1>4, ModeOrders DEF IsSolution
<1>6. CarriedOver(v) \in SUBSET Dims
  BY DimensionsAre DEF CarriedOver
<1>7. d \in Nat
  BY <1>1, StepsArePositive
<1>8. \/ Innermost(schedule.dram, CarriedOver(v))
      \/ \A dim \in CarriedOver(v) : Index(d, schedule.dram, dim) = 0
  BY <1>4, <1>5, <1>6, <1>7, SparedIsKept
<1> QED BY <1>8 DEF IsFirstInDram, KeptInBuffer

(* In every traffic mode but both_dram_ootk the mappings the constraints   *)
(* admit, read back from the strategy file, do not take the mode's tensors *)
(* to DRAM and back: the constraints' order is the one the simulator sees. *)
THEOREM SparesDramCorrect ==
  ASSUME Modes \subseteq OrderedModes
  PROVE  Spec => []ModeSparesDram
<1>1. TilesInv => ModeSparesDram
  BY TensorsAreSpared DEF TilesInv, MapInv
<1> QED BY <1>1, TilesInvHolds, PTL

-----------------------------------------------------------------------------
(* The tiles divide the layer.                                             *)

LEMMA ProductOfOnes ==
  ASSUME NEW f, NEW S, IsFiniteSet(S), \A x \in S : f[x] = 1
  PROVE  ProductOn(f, S) = 1
<1>1. PICK n \in Nat \ {0} : n = ProductOn(f, S)
  BY ProductOnType
<1>2. \A x \in S : f[x] = f[x] * f[x] /\ f[x] \in Nat \ {0}
  OBVIOUS
<1>3. ProductOn(f, S) = ProductOn(f, S) * ProductOn(f, S)
  BY <1>2, ProductOnTimes
<1>4. n * n = (n - 1) * n + n /\ n * n = n
  BY <1>1, <1>3
<1>5. \A x, y \in Nat \ {0} : x * y \in Nat \ {0}
  OBVIOUS
<1>6. n - 1 \notin Nat \ {0}
  <2>1. (n - 1) * n \in Int
    OBVIOUS
  <2> QED BY <1>4, <1>5, <2>1
<1> QED BY <1>1, <1>6

(* A product of ones and one other factor.                                 *)
LEMMA ProductOfOneFactor ==
  ASSUME NEW S, IsFiniteSet(S), NEW e, NEW x \in Nat \ {0},
         NEW f, \A y \in S : f[y] = IF e = y THEN x ELSE 1
  PROVE  ProductOn(f, S) = IF e \in S THEN x ELSE 1
<1>1. CASE e \notin S
  <2>1. \A y \in S : f[y] = 1
    BY <1>1
  <2> QED BY <1>1, <2>1, ProductOfOnes
<1>2. CASE e \in S
  <2>1. \A y \in S : f[y] \in Nat \ {0}
    OBVIOUS
  <2>2. ProductOn(f, S) = f[e] * ProductOn(f, S \ {e})
    BY <1>2, <2>1, ProductOnInsert
  <2>3. IsFiniteSet(S \ {e}) /\ \A y \in S \ {e} : f[y] = 1
    BY FS_RemoveElement
  <2>4. ProductOn(f, S \ {e}) = 1
    <3> DEFINE R == S \ {e}
    <3> HIDE DEF R
    <3> QED BY <2>3, ProductOfOnes DEF R
  <2>5. f[e] = x
    BY <1>2
  <2> QED BY <1>2, <2>2, <2>4, <2>5
<1> QED BY <1>1, <1>2

(* The steps of a nest are as many as the totals of its dimensions make.   *)
LEMMA StepsByDimension ==
  ASSUME NEW loops \in Loops, NEW f, \A dim \in Dims : f[dim] = Total(loops, dim)
  PROVE  Steps(loops) = ProductOn(f, Dims)
<1> DEFINE n == Len(loops)
           sub(k) == SubSeq(loops, 1, k)
           g(k) == [dim \in Dims |-> Total(sub(k), dim)]
           G == {k \in Nat : sub(k) \in Loops /\ Steps(sub(k)) = ProductOn(g(k), Dims)}
<1>1. n \in Nat /\ sub(n) = loops /\ sub(0) = <<>> /\ n \in 0 .. n
  BY DEF Loops
<1>2. IsFiniteSet(Dims)
  BY DimsAreFinite
<1>3. 0 \in G
  <2>1. sub(0) \in Loops
    BY <1>1 DEF Loops
  <2>2. Steps(sub(0)) = 1 /\ \A dim \in Dims : g(0)[dim] = 1
    BY <1>1, ProductOfNone DEF Steps, Total
  <2> HIDE DEF g, sub
  <2>3. ProductOn(g(0), Dims) = 1
    BY <1>2, <2>2, ProductOfOnes
  <2> QED BY <2>1, <2>2, <2>3
<1>4. ASSUME NEW k \in 1 .. n, k - 1 \in G PROVE k \in G
  <2>1. PICK a \in Loops : a = sub(k - 1) /\ Steps(a) = ProductOn(g(k - 1), Dims)
    BY <1>4
  <2>2. PICK e \in LoopType : sub(k) = Append(a, e)
    BY <2>1, PrefixWithLoop
  <2>3. sub(k) \in Loops
    BY <2>1, <2>2, WithLoop
  <2> DEFINE one == [dim \in Dims |-> IF e.dim = dim THEN e.factor ELSE 1]
  <2>4. e.dim \in Dims /\ e.factor \in Nat \ {0}
    BY DEF LoopType
  <2>5. Steps(sub(k)) = Steps(a) * e.factor
    BY <2>2, <2>4, ProductWithLoop DEF Steps
  <2>6. ASSUME NEW dim \in Dims
        PROVE  /\ g(k - 1)[dim] \in Nat \ {0} /\ one[dim] \in Nat \ {0}
               /\ g(k)[dim] = g(k - 1)[dim] * one[dim]
    <3>1. Total(a, dim) \in Nat \ {0}
      BY ProductIsNat DEF Total
    <3>2. Total(Append(a, e), dim) = Total(a, dim) * (IF e.dim \in {dim} THEN e.factor ELSE 1)
      BY ProductWithLoop DEF Total
    <3>3. g(k - 1)[dim] = Total(a, dim) /\ g(k)[dim] = Total(Append(a, e), dim)
      BY <2>1, <2>2
    <3>4. one[dim] = IF e.dim \in {dim} THEN e.factor ELSE 1
      OBVIOUS
    <3> HIDE DEF g, one
    <3> QED BY <2>4, <3>1, <3>2, <3>3, <3>4
  <2>7. \A dim \in Dims : one[dim] = IF e.dim = dim THEN e.factor ELSE 1
    OBVIOUS
  <2> HIDE DEF g, one, sub
  <2>8. ProductOn(g(k), Dims) = ProductOn(g(k - 1), Dims) * ProductOn(one, Dims)
    BY <1>2, <2>6, ProductOnTimes
  <2>9. ProductOn(one, Dims) = e.factor
    BY <1>2, <2>4, <2>7, ProductOfOneFactor
  <2> QED BY <2>1, <2>3, <2>5, <2>8, <2>9
<1>5. n \in G
  <2> HIDE DEF n, G
  <2> QED BY <1>1, <1>3, <1>4, UpTo
<1>6. Steps(loops) = ProductOn(g(n), Dims)
  BY <1>1, <1>5
<1>7. \A dim \in Dims : g(n)[dim] = f[dim]
  BY <1>1
<1> HIDE DEF g
<1> QED BY <1>2, <1>6, <1>7, ProductOnEqual

(* The volume of a tile is the product of its widths.                      *)
LEMMA VolumeIs ==
  ASSUME NEW f, \A dim \in Dims : f[dim] = NodeBound(dim)
  PROVE  Volume = ProductOn(f, Dims)
<1> DEFINE S == Dims
           T(h) == h = [s \in SUBSET S |->
                          IF s = {} THEN 1
                          ELSE NodeBound(Chosen(s)) * h[s \ {Chosen(s)}]]
           c == CHOOSE h : T(h)
<1>0. IsFiniteSet(S)
  BY DimsAreFinite
<1>1. \A s \in SUBSET S : s # {} => f[Chosen(s)] = NodeBound(Chosen(s))
  <2>1. \A x \in S : f[x] = NodeBound(x)
    OBVIOUS
  <2> HIDE DEF S
  <2> QED BY <2>1, ChosenIsIn
<1>2. Volume = c[S]
  BY DEF Volume, ProductOver, MapThenFoldSet, Chosen
<1> HIDE DEF S
<1>3. PICK it : Multiplied(it, f, S)
  BY <1>0, TablesExist
<1>4. T(it)
  BY <1>1, <1>3 DEF Multiplied
<1>5. T(c)
  BY <1>4
<1>6. Multiplied(c, f, S)
  BY <1>1, <1>5 DEF Multiplied
<1> HIDE DEF c, T
<1>7. ProductOn(f, S) = c[S]
  BY <1>0, <1>6, ProductIsTheTotal
<1> QED BY <1>2, <1>7 DEF S

Images(g, A) == {g[x] : x \in A}

OneToOne(g, A) == \A x, y \in A : g[x] = g[y] => x = y

Triples(D, N, C) == (0 .. D - 1) \X (0 .. N - 1) \X (0 .. C - 1)

(* A round has as many tiles as steps of either kind and cores make.       *)
LEMMA RoundIs ==
  ASSUME NEW D \in Nat, NEW N \in Nat, NEW C \in Nat, NEW S, NEW g,
         S = Images(g, Triples(D, N, C)), OneToOne(g, Triples(D, N, C))
  PROVE  IsFiniteSet(S) /\ Cardinality(S) = (D * N) * C
<1> DEFINE A == 0 .. D - 1
           B == 0 .. N - 1
           E == 0 .. C - 1
           P == (A \X B) \X E
           h == [w \in P |-> g[<<w[1][1], w[1][2], w[2]>>]]
<1>1. /\ IsFiniteSet(A) /\ Cardinality(A) = D
      /\ IsFiniteSet(B) /\ Cardinality(B) = N
      /\ IsFiniteSet(E) /\ Cardinality(E) = C
  <2>1. ASSUME NEW x \in Nat PROVE IsFiniteSet(0 .. x - 1) /\ Cardinality(0 .. x - 1) = x
    <3>1. x - 1 \in Int /\ 0 \in Int
      OBVIOUS
    <3>2. /\ IsFiniteSet(0 .. x - 1)
          /\ Cardinality(0 .. x - 1) = IF 0 > x - 1 THEN 0 ELSE (x - 1) - 0 + 1
      BY <3>1, FS_Interval
    <3> QED BY <3>2
  <2> QED BY <2>1
<1>2. S = {g[z] : z \in A \X B \X E} /\ \A y, z \in A \X B \X E : g[y] = g[z] => y = z
  BY DEF Images, OneToOne, Triples
<1> HIDE DEF A, B, E
<1>3. IsFiniteSet(P) /\ Cardinality(P) = (D * N) * C
  <2>1. IsFiniteSet(A \X B) /\ Cardinality(A \X B) = D * N
    BY <1>1, FS_Product
  <2>2. PICK Z : Z = A \X B
    OBVIOUS
  <2>3. IsFiniteSet(Z \X E) /\ Cardinality(Z \X E) = Cardinality(Z) * Cardinality(E)
    BY <1>1, <2>1, <2>2, FS_Product
  <2> QED BY <1>1, <2>1, <2>2, <2>3
<1>4. h \in Bijection(P, S)
  <2>1. \A w \in P : <<w[1][1], w[1][2], w[2]>> \in A \X B \X E
    OBVIOUS
  <2>2. h \in [P -> S]
    BY <1>2, <2>1
  <2>3. ASSUME NEW v \in P, NEW w \in P, h[v] = h[w] PROVE v = w
    <3>1. <<v[1][1], v[1][2], v[2]>> = <<w[1][1], w[1][2], w[2]>>
      BY <1>2, <2>1, <2>3
    <3> QED BY <3>1
  <2>4. ASSUME NEW t \in S PROVE \E w \in P : h[w] = t
    <3>1. PICK z \in A \X B \X E : t = g[z]
      BY <1>2
    <3>2. <<<<z[1], z[2]>>, z[3]>> \in P /\ z = <<z[1], z[2], z[3]>>
      OBVIOUS
    <3>3. h[<<<<z[1], z[2]>>, z[3]>>] = t
      BY <3>1, <3>2
    <3> QED BY <3>2, <3>3
  <2> HIDE DEF h, P
  <2> QED BY <2>2, <2>3, <2>4 DEF Bijection, Injection, IsInjective, Surjection
<1>5. ExistsBijection(P, S)
  BY <1>4 DEF ExistsBijection
<1> HIDE DEF P
<1> QED BY <1>3, <1>5, FS_Bijection

-----------------------------------------------------------------------------
(* Nothing is left out and nothing done twice.                             *)

(* Where a tile is, in numbers: a is its width, u the digits of the loops  *)
(* in DRAM, t of those on the mesh, p of the cores.                        *)
IsPlaced(z, dim, a, p, t, u, i, j, c) ==
  /\ a = NodeBound(dim) /\ p = schedule.space[dim]
  /\ t = Total(schedule.noc, dim) /\ u = Total(schedule.dram, dim)
  /\ c = SpatialIndex(schedule.space, z[3], dim)
  /\ Bound(layer, dim) = (a * (p * t)) * u
  /\ Start(Tile(z[1], z[2], z[3]), dim) = a * (i + u * j + (u * t) * c)

(* Every tile has its place in every dimension.                            *)
LEMMA PlacedTiles ==
  ASSUME MapInv, stage = "read", NEW z \in Round(schedule), NEW dim \in Dims
  PROVE  \E a, p, t, u \in Nat \ {0} : \E i \in 0 .. u - 1 : \E j \in 0 .. t - 1 :
           \E c \in 0 .. p - 1 : IsPlaced(z, dim, a, p, t, u, i, j, c)
<1>1. /\ z[1] \in 0 .. Steps(schedule.dram) - 1 /\ z[2] \in 0 .. Steps(schedule.noc) - 1
      /\ z[3] \in 0 .. CoresOf(schedule) - 1
  BY DEF Round
<1>2. IsRead(solution, schedule, layer) /\ layer \in Layers
  BY ScheduleIsRead DEF MapInv
<1>3. PICK place : IsSolution(layer, machine, mode, solution, place)
  BY SolutionIs
<1>4. PICK a \in Nat \ {0}, p \in Nat \ {0}, t \in Nat \ {0}, u \in Nat \ {0} :
        /\ a = NodeBound(dim) /\ p = schedule.space[dim]
        /\ t = Total(schedule.noc, dim) /\ u = Total(schedule.dram, dim)
        /\ Bound(layer, dim) = (a * (p * t)) * u
  BY <1>2, <1>3, NodeBoundIs, ScheduleAccounts
<1>5. PICK i \in 0 .. u - 1 : i = Index(z[1], schedule.dram, dim)
  BY <1>1, <1>2, <1>4, IndicesAre
<1>6. PICK j \in 0 .. t - 1 : j = Index(z[2], schedule.noc, dim)
  BY <1>1, <1>2, <1>4, IndicesAre
<1>7. PICK c \in 0 .. p - 1 : c = SpatialIndex(schedule.space, z[3], dim)
  BY <1>1, <1>2, <1>4, IndicesAre
<1>8. TilesBefore(schedule, z[1], z[2], z[3], dim) = i + u * j + (u * t) * c
  BY <1>4, <1>5, <1>6, <1>7 DEF TilesBefore
<1>9. Start(Tile(z[1], z[2], z[3]), dim) = a * TilesBefore(schedule, z[1], z[2], z[3], dim)
  BY <1>1, <1>4, StartIs
<1>10. IsPlaced(z, dim, a, p, t, u, i, j, c)
  BY <1>4, <1>7, <1>8, <1>9 DEF IsPlaced
<1> QED BY <1>10

(* A tile ends before the layer does, within its core's slice.             *)
LEMMA EndsInTime ==
  ASSUME NEW a \in Nat \ {0}, NEW p \in Nat \ {0}, NEW t \in Nat \ {0}, NEW u \in Nat \ {0},
         NEW i \in 0 .. u - 1, NEW j \in 0 .. t - 1, NEW c \in 0 .. p - 1
  PROVE  /\ i + u * j + (u * t) * c \in Nat /\ a * (i + u * j + (u * t) * c) \in Nat
         /\ a * (i + u * j + (u * t) * c) + a <= (a * (p * t)) * u
         /\ (a * (i + u * j + (u * t) * c)) \div (((a * (p * t)) * u) \div p) = c
<1> DEFINE b == i + u * j + (u * t) * c
           r == i + u * j
           m == u * t
<1>1. b = (c * t + j) * u + i /\ (c * t + j) * u + i \in 0 .. (p * t) * u - 1
  BY ThreeDigits
<1>2. b \in Nat /\ (p * t) * u \in Nat /\ b + 1 <= (p * t) * u
  <2>1. \A x, y \in Nat : x * y \in Nat
    OBVIOUS
  <2>2. (p * t) * u \in Nat
    BY <2>1
  <2> HIDE DEF b
  <2> QED BY <1>1, <2>2
<1>3. a * b \in Nat
  <2>1. \A x, y \in Nat : x * y \in Nat
    OBVIOUS
  <2> HIDE DEF b
  <2> QED BY <1>2, <2>1
<1>4. a * b + a <= (a * (p * t)) * u
  <2>1. \A x, y \in Nat : x + 1 <= y => a * x + a <= a * y
    <3>1. \A x, y \in Nat : x <= y => a * x <= a * y
      OBVIOUS
    <3>2. \A x \in Nat : a * (x + 1) = a * x + a /\ x + 1 \in Nat
      OBVIOUS
    <3> QED BY <3>1, <3>2
  <2>2. a * ((p * t) * u) = (a * (p * t)) * u
    OBVIOUS
  <2>3. a * b + a <= a * ((p * t) * u)
    <3> HIDE DEF b
    <3> QED BY <1>2, <2>1
  <2> QED BY <2>2, <2>3
<1>5. ((a * (p * t)) * u) \div p = a * m
  BY DividedAgain
<1>6. r \in 0 .. m - 1 /\ m \in Nat \ {0}
  <2>1. j * u + i \in 0 .. t * u - 1
    BY TwoDigits
  <2>2. j * u + i = r /\ t * u = m
    OBVIOUS
  <2>3. \A x, y \in Nat \ {0} : x * y \in Nat \ {0}
    OBVIOUS
  <2> QED BY <2>1, <2>2, <2>3
<1>7. a * b = c * (a * m) + a * r
  <2>1. b = r + m * c
    OBVIOUS
  <2>2. a * (r + m * c) = c * (a * m) + a * r
    OBVIOUS
  <2> HIDE DEF b, r, m
  <2> QED BY <2>1, <2>2
<1> HIDE DEF b, r, m
<1>8. a * m \in Nat \ {0} /\ a * r \in 0 .. a * m - 1
  <2>1. \A x, y \in Nat \ {0} : x * y \in Nat \ {0}
    OBVIOUS
  <2>2. \A x, y \in Nat : x * y \in Nat
    OBVIOUS
  <2>3. r \in Nat /\ r + 1 <= m
    BY <1>6
  <2>4. \A x, y \in Nat : x <= y => a * x <= a * y
    OBVIOUS
  <2>5. a * (r + 1) <= a * m
    BY <1>6, <2>3, <2>4
  <2>6. a * (r + 1) = a * r + a
    BY <2>3
  <2>7. a * r \in Nat /\ a * m \in Nat \ {0}
    BY <1>6, <2>1, <2>2, <2>3
  <2> QED BY <2>5, <2>6, <2>7
<1>9. (a * b) \div (a * m) = c
  <2>0. PICK n \in Nat \ {0} : n = a * m
    BY <1>8
  <2>1. PICK q \in 0 .. n - 1 : q = a * r
    BY <1>8, <2>0
  <2>2. c \in Nat
    OBVIOUS
  <2>3. (c * n + q) \div n = c
    BY <2>1, <2>2, LastDigit
  <2> QED BY <1>7, <2>0, <2>1, <2>3
<1> QED BY <1>2, <1>3, <1>4, <1>5, <1>9 DEF b, m

(* No tile reaches beyond the layer or beyond its core's slice.            *)
LEMMA TilesStayInside ==
  ASSUME MapInv, stage = "read", NEW z \in Round(schedule), NEW dim \in Dims,
         NEW t, t = Tile(z[1], z[2], z[3])
  PROVE  /\ t.bound[dim] = NodeBound(dim)
         /\ Start(t, dim) + NodeBound(dim) <= Bound(layer, dim)
         /\ Start(t, dim) \div (Bound(layer, dim) \div schedule.space[dim])
              = CoreIndex(t.core, dim)
         /\ NodeBound(dim) \in Nat \ {0} /\ \E b \in Nat : Start(t, dim) = NodeBound(dim) * b
<1>1. PICK a \in Nat \ {0}, p \in Nat \ {0}, n \in Nat \ {0}, u \in Nat \ {0} :
        \E i \in 0 .. u - 1 : \E j \in 0 .. n - 1 : \E c \in 0 .. p - 1 :
          IsPlaced(z, dim, a, p, n, u, i, j, c)
  BY PlacedTiles
<1>2. PICK i \in 0 .. u - 1 : \E j \in 0 .. n - 1 : \E c \in 0 .. p - 1 :
        IsPlaced(z, dim, a, p, n, u, i, j, c)
  BY <1>1
<1>3. PICK j \in 0 .. n - 1, c \in 0 .. p - 1 : IsPlaced(z, dim, a, p, n, u, i, j, c)
  BY <1>2
<1>4. /\ i + u * j + (u * n) * c \in Nat
      /\ a * (i + u * j + (u * n) * c) + a <= (a * (p * n)) * u
      /\ (a * (i + u * j + (u * n) * c)) \div (((a * (p * n)) * u) \div p) = c
  BY EndsInTime
<1>5. /\ a = NodeBound(dim) /\ p = schedule.space[dim]
      /\ c = SpatialIndex(schedule.space, z[3], dim)
      /\ Bound(layer, dim) = (a * (p * n)) * u
      /\ Start(t, dim) = a * (i + u * j + (u * n) * c)
  BY <1>3 DEF IsPlaced
<1>6. t.core = z[3] /\ t.bound[dim] = NodeBound(dim)
  BY DEF Tile
<1> QED BY <1>4, <1>5, <1>6 DEF CoreIndex

(* Two tiles of a round part in some dimension. *)
LEMMA TilesPart ==
  ASSUME MapInv, stage = "read", NEW y \in Round(schedule), NEW z \in Round(schedule), y # z
  PROVE  \E dim \in Dims : Start(Tile(y[1], y[2], y[3]), dim) # Start(Tile(z[1], z[2], z[3]), dim)
<1> SUFFICES ASSUME \A dim \in Dims :
                      Start(Tile(y[1], y[2], y[3]), dim) = Start(Tile(z[1], z[2], z[3]), dim)
             PROVE  FALSE
  OBVIOUS
<1>1. IsRead(solution, schedule, layer)
  BY ScheduleIsRead
<1>2. /\ schedule.dram \in Loops /\ schedule.noc \in Loops /\ PeLoops(schedule.space) \in Loops
  BY <1>1, PeLoopsAre DEF IsRead
<1>3. ASSUME NEW dim \in Dims
      PROVE  /\ Index(y[1], schedule.dram, dim) = Index(z[1], schedule.dram, dim)
             /\ Index(y[2], schedule.noc, dim) = Index(z[2], schedule.noc, dim)
             /\ Index(y[3], PeLoops(schedule.space), dim) = Index(z[3], PeLoops(schedule.space), dim)
  BY SameStart DEF SpatialIndex
<1>4. /\ y[1] \in 0 .. Steps(schedule.dram) - 1 /\ z[1] \in 0 .. Steps(schedule.dram) - 1
      /\ y[2] \in 0 .. Steps(schedule.noc) - 1 /\ z[2] \in 0 .. Steps(schedule.noc) - 1
      /\ y[3] \in 0 .. Steps(PeLoops(schedule.space)) - 1
      /\ z[3] \in 0 .. Steps(PeLoops(schedule.space)) - 1
      /\ y = <<y[1], y[2], y[3]>> /\ z = <<z[1], z[2], z[3]>>
  BY DEF Round, CoresOf
<1>5. y[1] = z[1]
  BY <1>2, <1>3, <1>4, SameStep
<1>6. y[2] = z[2]
  BY <1>2, <1>3, <1>4, SameStep
<1>7. y[3] = z[3]
  BY <1>2, <1>3, <1>4, SameStep
<1> QED BY <1>4, <1>5, <1>6, <1>7

(* Two tiles share no point.                                               *)
LEMMA TilesAreDisjoint ==
  ASSUME MapInv, stage = "read", NEW y \in Round(schedule), NEW z \in Round(schedule), y # z,
         NEW s, s = Tile(y[1], y[2], y[3]), NEW t, t = Tile(z[1], z[2], z[3])
  PROVE  Disjoint(s, t)
<1>1. PICK dim \in Dims : Start(s, dim) # Start(t, dim)
  BY TilesPart
<1>2. PICK a \in Nat \ {0} : a = NodeBound(dim)
  BY TilesStayInside
<1>3. PICK b \in Nat : Start(s, dim) = a * b /\ s.bound[dim] = a
  BY <1>2, TilesStayInside
<1>4. PICK e \in Nat : Start(t, dim) = a * e /\ t.bound[dim] = a
  BY <1>2, TilesStayInside
<1>5. b + 1 <= e \/ e + 1 <= b
  BY <1>1, <1>3, <1>4
<1>6. \A v, w \in Nat : v + 1 <= w => a * v + a <= a * w
  <2>1. \A v, w \in Nat : v <= w => a * v <= a * w
    OBVIOUS
  <2>2. \A v \in Nat : a * (v + 1) = a * v + a /\ v + 1 \in Nat
    OBVIOUS
  <2> QED BY <2>1, <2>2
<1>7. a * b + a <= a * e \/ a * e + a <= a * b
  BY <1>5, <1>6
<1> QED BY <1>3, <1>4, <1>7 DEF Disjoint

(* The layer has as many points as the tiles of a round together.          *)
LEMMA RoundCoversLayer ==
  ASSUME MapInv, stage = "read"
  PROVE  ((Steps(schedule.dram) * Steps(schedule.noc)) * CoresOf(schedule)) * Volume
           = WholeOf(layer, Dims)
<1>1. IsRead(solution, schedule, layer) /\ layer \in Layers
  BY ScheduleIsRead DEF MapInv
<1>2. PICK place : IsSolution(layer, machine, mode, solution, place)
  BY SolutionIs
<1>3. PICK S : S = Dims /\ IsFiniteSet(S)
  BY DimsAreFinite
<1> DEFINE d == [dim \in S |-> Total(schedule.dram, dim)]
           n == [dim \in S |-> Total(schedule.noc, dim)]
           c == [dim \in S |-> schedule.space[dim]]
           a == [dim \in S |-> NodeBound(dim)]
           dn == [dim \in S |-> d[dim] * n[dim]]
           dnc == [dim \in S |-> dn[dim] * c[dim]]
           w == [dim \in S |-> Bound(layer, dim)]
<1>4. ASSUME NEW dim \in S
      PROVE  /\ d[dim] \in Nat \ {0} /\ n[dim] \in Nat \ {0} /\ c[dim] \in Nat \ {0}
             /\ a[dim] \in Nat \ {0} /\ dn[dim] \in Nat \ {0} /\ dnc[dim] \in Nat \ {0}
             /\ dn[dim] = d[dim] * n[dim] /\ dnc[dim] = dn[dim] * c[dim]
             /\ w[dim] = dnc[dim] * a[dim]
  <2>1. PICK x \in Nat \ {0}, p \in Nat \ {0}, t \in Nat \ {0}, u \in Nat \ {0} :
          /\ x = NodeBound(dim) /\ p = schedule.space[dim]
          /\ t = Total(schedule.noc, dim) /\ u = Total(schedule.dram, dim)
          /\ Bound(layer, dim) = (x * (p * t)) * u
    BY <1>1, <1>2, <1>3, NodeBoundIs, ScheduleAccounts
  <2>2. /\ d[dim] = u /\ n[dim] = t /\ c[dim] = p /\ a[dim] = x
        /\ dn[dim] = u * t /\ dnc[dim] = (u * t) * p /\ w[dim] = (x * (p * t)) * u
    BY <2>1
  <2>3. \A y, z \in Nat \ {0} : y * z \in Nat \ {0}
    OBVIOUS
  <2>4. u * t \in Nat \ {0} /\ (u * t) * p \in Nat \ {0}
    BY <2>3
  <2>5. (x * (p * t)) * u = ((u * t) * p) * x
    OBVIOUS
  <2> HIDE DEF d, n, c, a, dn, dnc, w
  <2> QED BY <2>2, <2>4, <2>5
<1>5. /\ \A dim \in Dims : d[dim] = Total(schedule.dram, dim)
      /\ \A dim \in Dims : n[dim] = Total(schedule.noc, dim)
      /\ \A dim \in Dims : c[dim] = schedule.space[dim]
      /\ \A dim \in Dims : a[dim] = NodeBound(dim)
      /\ \A dim \in S : w[dim] = Bound(layer, dim)
  BY <1>3
<1> HIDE DEF d, n, c, a, dn, dnc, w
<1>6. Steps(schedule.dram) = ProductOn(d, S) /\ Steps(schedule.noc) = ProductOn(n, S)
  BY <1>1, <1>3, <1>5, StepsByDimension DEF IsRead
<1>7. CoresOf(schedule) = ProductOn(c, S)
  <2>1. schedule.space \in Spatials
    BY <1>1 DEF IsRead
  <2>2. PeLoops(schedule.space) \in Loops
    BY <2>1, PeLoopsAre
  <2>3. \A dim \in Dims : c[dim] = Total(PeLoops(schedule.space), dim)
    BY <1>5, <2>1, SpatialTotals
  <2> QED BY <1>3, <2>2, <2>3, StepsByDimension DEF CoresOf
<1>8. Volume = ProductOn(a, S)
  BY <1>3, <1>5, VolumeIs
<1>9. WholeOf(layer, S) = ProductOn(w, S)
  BY <1>3, <1>5, WholeIs
<1>10. ProductOn(dn, S) = ProductOn(d, S) * ProductOn(n, S)
  BY <1>3, <1>4, ProductOnTimes
<1>11. ProductOn(dnc, S) = ProductOn(dn, S) * ProductOn(c, S)
  BY <1>3, <1>4, ProductOnTimes
<1>12. ProductOn(w, S) = ProductOn(dnc, S) * ProductOn(a, S)
  BY <1>3, <1>4, ProductOnTimes
<1> QED BY <1>3, <1>6, <1>7, <1>8, <1>9, <1>10, <1>11, <1>12

(* There are as many tiles as rounds.                                      *)
LEMMA TilesAreCounted ==
  ASSUME TilesInv, Generated
  PROVE  Cardinality(tiles) = (Steps(schedule.dram) * Steps(schedule.noc)) * CoresOf(schedule)
<1> DEFINE g == [z \in Round(schedule) |-> Tile(z[1], z[2], z[3])]
<1>1. stage = "read" /\ tiles = {Tile(z[1], z[2], z[3]) : z \in Round(schedule)}
  BY TilesAre DEF Generated
<1>2. PICK D \in Nat : D = Steps(schedule.dram)
  BY <1>1, ScheduleIsRead, StepsArePositive DEF TilesInv
<1>3. PICK N \in Nat : N = Steps(schedule.noc)
  BY <1>1, ScheduleIsRead, StepsArePositive DEF TilesInv
<1>4. PICK C \in Nat : C = CoresOf(schedule)
  BY <1>1, ScheduleIsRead, StepsArePositive DEF TilesInv
<1>5. Round(schedule) = Triples(D, N, C)
  BY <1>2, <1>3, <1>4 DEF Round, Triples
<1>6. tiles = {g[z] : z \in Round(schedule)}
  BY <1>1
<1>7. \A y, z \in Round(schedule) : g[y] = g[z] => y = z
  <2> SUFFICES ASSUME NEW y \in Round(schedule), NEW z \in Round(schedule), g[y] = g[z]
               PROVE  y = z
    OBVIOUS
  <2>1. Tile(y[1], y[2], y[3]) = Tile(z[1], z[2], z[3])
    OBVIOUS
  <2>2. \A d, n, c : Tile(d, n, c).dram = d /\ Tile(d, n, c).noc = n /\ Tile(d, n, c).core = c
    BY DEF Tile
  <2>3. y[1] = z[1] /\ y[2] = z[2] /\ y[3] = z[3]
    BY <2>1, <2>2
  <2>4. y = <<y[1], y[2], y[3]>> /\ z = <<z[1], z[2], z[3]>>
    BY DEF Round
  <2> QED BY <2>3, <2>4
<1> HIDE DEF g
<1>8. Cardinality(tiles) = (D * N) * C
  <2>1. tiles = Images(g, Round(schedule)) /\ OneToOne(g, Round(schedule))
    BY <1>6, <1>7 DEF Images, OneToOne
  <2> QED BY <1>2, <1>3, <1>4, <1>5, <2>1, RoundIs
<1> QED BY <1>2, <1>3, <1>4, <1>8

(* So the tiles divide the layer.                                          *)
LEMMA LayerDivided ==
  ASSUME TilesInv
  PROVE  LayerIsDivided
<1>1. MapInv /\ \A t \in tiles : stage = "read" /\ \E z \in Round(schedule) : t = Tile(z[1], z[2], z[3])
  BY TilesAre DEF TilesInv
<1>2. ASSUME NEW t \in tiles, NEW dim \in Dims
      PROVE  /\ Start(t, dim) + t.bound[dim] <= Bound(layer, dim)
             /\ Start(t, dim) \div (Bound(layer, dim) \div schedule.space[dim])
                  = CoreIndex(t.core, dim)
  <2>1. PICK z \in Round(schedule) : t = Tile(z[1], z[2], z[3])
    BY <1>1
  <2> QED BY <1>1, <2>1, TilesStayInside
<1>3. ASSUME NEW s \in tiles, NEW t \in tiles, s # t PROVE Disjoint(s, t)
  <2>1. PICK y \in Round(schedule) : s = Tile(y[1], y[2], y[3])
    BY <1>1
  <2>2. PICK z \in Round(schedule) : t = Tile(z[1], z[2], z[3])
    BY <1>1
  <2>3. y # z
    BY <1>3, <2>1, <2>2
  <2> QED BY <1>1, <2>1, <2>2, <2>3, TilesAreDisjoint
<1>4. ASSUME Generated PROVE Cardinality(tiles) * Volume = WholeOf(layer, Dims)
  <2>1. stage = "read"
    BY <1>4 DEF Generated
  <2> QED BY <1>1, <1>4, <2>1, TilesAreCounted, RoundCoversLayer
<1>5. TilesPartitionLayer
  BY <1>2, <1>3, <1>4 DEF TilesPartitionLayer, WholeOf
<1>6. CoresKeepToTheirSlice
  BY <1>2 DEF CoresKeepToTheirSlice
<1> QED BY <1>5, <1>6 DEF LayerIsDivided

(* The tiles of any mapping of any layer stay inside the layer, have no    *)
(* point in common, leave none out once all are generated, and a core's    *)
(* tiles stay in the slice that is its own.                                *)
THEOREM DividedCorrect == Spec => []LayerIsDivided
<1>1. TilesInv => LayerIsDivided
  BY LayerDivided
<1> QED BY <1>1, TilesInvHolds, PTL
=============================================================================
