----------------------------- MODULE NestLemmas -----------------------------
(***************************************************************************)
(* What the proofs share: minima and maxima, sums and products over finite *)
(* sets, numbers in a mixed radix; what a step of a loop nest, its digits  *)
(* and its indices say of each other, for nests of any depth and on both   *)
(* levels; and where the groups and chains of a placement lie.             *)
(***************************************************************************)
EXTENDS BufSpatial, FiniteSetTheorems, WellFoundedInduction, TLAPS

(* A non-empty set of naturals has a least element.                        *)
LEMMA LeastExists ==
  ASSUME NEW S, S \subseteq Nat, S # {}
  PROVE  \E x \in S : \A y \in S : x <= y
<1> DEFINE R == OpToRel(<, Nat)
<1>1. \E x \in S : \A y \in S : ~ (<<y, x>> \in R)
  <2>1. IsWellFoundedOn(R, Nat)
    BY NatLessThanWellFounded
  <2> HIDE DEF R
  <2> QED BY <2>1, WFMin
<1>2. \A x, y \in Nat : y < x => <<y, x>> \in R
  BY DEF OpToRel
<1> HIDE DEF R
<1>3. PICK x \in S : \A y \in S : ~ (<<y, x>> \in R)
  BY <1>1
<1>4. \A y \in S : ~(y < x)
  BY <1>2, <1>3
<1>5. \A y \in S : x <= y
  BY <1>4
<1> QED BY <1>5

(* A non-empty set of positions of a sequence has a greatest element.      *)
LEMMA GreatestExists ==
  ASSUME NEW n \in Nat, NEW S, S \subseteq 1 .. n, S # {}
  PROVE  Max(S) \in S /\ \A i \in S : Max(S) >= i
<1> DEFINE D == {n - i : i \in S}
<1>1. D \subseteq Nat /\ D # {}
  <2>1. \A i \in S : n - i \in Nat
    OBVIOUS
  <2> QED BY <2>1
<1>2. PICK d \in D : \A e \in D : d <= e
  <2> HIDE DEF D
  <2> QED BY <1>1, LeastExists
<1>3. PICK m \in S : d = n - m
  BY <1>2
<1>4. ASSUME NEW i \in S PROVE m >= i
  <2>1. n - i \in D
    OBVIOUS
  <2>2. n - m <= n - i
    BY <1>2, <1>3, <2>1
  <2>3. n \in Int /\ m \in Int /\ i \in Int
    OBVIOUS
  <2> QED BY <2>2, <2>3
<1> QED BY <1>4 DEF Max

(* So has a non-empty finite set of naturals: a smallest subset without a  *)
(* greatest element would still lack one after losing any of its elements. *)
LEMMA MaxExists ==
  ASSUME NEW S, S \subseteq Nat, S # {}, IsFiniteSet(S)
  PROVE  Max(S) \in S /\ \A y \in S : Max(S) >= y
<1> DEFINE HasMax(T) == \E x \in T : \A y \in T : x >= y
           Bad == {n \in Nat : \E T \in SUBSET S :
                     T # {} /\ Cardinality(T) = n /\ ~HasMax(T)}
<1>1. \A T \in SUBSET S : IsFiniteSet(T) /\ Cardinality(T) \in Nat
  BY FS_Subset, FS_CardinalityType
<1>2. Bad = {}
  <2> SUFFICES ASSUME Bad # {} PROVE FALSE
    OBVIOUS
  <2>1. PICK n \in Bad : \A m \in Bad : n <= m
    <3>1. Bad \subseteq Nat
      OBVIOUS
    <3> HIDE DEF Bad
    <3> QED BY <3>1, LeastExists
  <2>2. PICK T \in SUBSET S : T # {} /\ Cardinality(T) = n /\ ~HasMax(T)
    OBVIOUS
  <2>3. PICK x \in T : TRUE
    BY <2>2
  <2> DEFINE U == T \ {x}
  <2>4. Cardinality(U) = n - 1 /\ n \in Nat
    BY <1>1, <2>2, <2>3, FS_RemoveElement
  <2>5. U # {}
    <3> SUFFICES ASSUME T = {x} PROVE FALSE
      BY <2>3
    <3> QED BY <2>2, <2>3
  <2>6. HasMax(U)
    <3>1. Cardinality(U) \in Nat /\ U \in SUBSET S
      BY <1>1
    <3>2. ~(n <= Cardinality(U))
      BY <2>4, <3>1
    <3>3. Cardinality(U) \notin Bad
      BY <2>1, <3>2
    <3> HIDE DEF HasMax, U
    <3> QED BY <2>5, <3>1, <3>3
  <2>7. PICK m \in U : \A y \in U : m >= y
    BY <2>6
  <2>8. m \in Nat /\ x \in Nat
    BY <2>2, <2>3, <2>7
  <2>9. CASE m >= x
    BY <2>2, <2>7, <2>9
  <2>10. CASE x >= m
    <3>1. \A y \in T : x >= y
      BY <2>2, <2>7, <2>8, <2>10
    <3> QED BY <2>2, <3>1
  <2> QED BY <2>8, <2>9, <2>10
<1>3. HasMax(S)
  <2> HIDE DEF HasMax
  <2> QED BY <1>1, <1>2
<1> QED BY <1>3 DEF Max

-----------------------------------------------------------------------------
(* A number has one way to be written with a last digit below the radix. *)
LEMMA DigitsAreUnique ==
  ASSUME NEW n \in Nat, NEW p \in Nat, NEW q \in Nat, NEW r \in 0 .. n - 1, NEW s \in 0 .. n - 1,
         p * n + r = q * n + s
  PROVE  p = q /\ r = s
<1>1. ~ (p < q)
  <2> SUFFICES ASSUME p < q PROVE FALSE
    OBVIOUS
  <2>1. PICK d \in Nat : q = p + 1 + d
    <3>1. q - p - 1 \in Nat /\ q = p + 1 + (q - p - 1)
      OBVIOUS
    <3> QED BY <3>1
  <2>2. q * n = p * n + n + d * n
    BY <2>1
  <2>3. d * n \in Nat /\ p * n \in Nat
    BY <2>1
  <2> QED BY <2>2, <2>3
<1>2. ~ (q < p)
  <2> SUFFICES ASSUME q < p PROVE FALSE
    OBVIOUS
  <2>1. PICK d \in Nat : p = q + 1 + d
    <3>1. p - q - 1 \in Nat /\ p = q + 1 + (p - q - 1)
      OBVIOUS
    <3> QED BY <3>1
  <2>2. p * n = q * n + n + d * n
    BY <2>1
  <2>3. d * n \in Nat /\ q * n \in Nat
    BY <2>1
  <2> QED BY <2>2, <2>3
<1>3. p = q
  BY <1>1, <1>2
<1> QED BY <1>3

(* The last digit is the rest. *)
LEMMA LastDigit ==
  ASSUME NEW n \in Nat \ {0}, NEW p \in Nat, NEW r \in 0 .. n - 1
  PROVE  (p * n + r) % n = r /\ (p * n + r) \div n = p
<1> DEFINE m == p * n + r
<1>1. m \in Nat /\ p * n \in Nat
  OBVIOUS
<1>2. m = n * (m \div n) + (m % n) /\ m % n \in 0 .. n - 1 /\ m \div n \in Nat
  <2> HIDE DEF m
  <2> QED BY <1>1
<1>3. (m \div n) * n = n * (m \div n)
  BY <1>2
<1>4. p = m \div n /\ r = m % n
  <2> DEFINE q == m \div n
             s == m % n
  <2>1. p * n + r = q * n + s /\ q \in Nat /\ s \in 0 .. n - 1
    BY <1>2, <1>3
  <2> HIDE DEF q, s
  <2> QED BY <2>1, DigitsAreUnique
<1> QED BY <1>4

-----------------------------------------------------------------------------
(* Rounding up counts the blocks: there is at least one, and every channel *)
(* below the bound lies in one of them.                                    *)
LEMMA BlocksCoverTheBound ==
  ASSUME NEW bound \in Nat \ {0}, NEW size \in Nat \ {0}
  PROVE  /\ (bound + size - 1) \div size \in Nat \ {0}
         /\ \A i \in 0 .. bound - 1 : i \div size \in 0 .. ((bound + size - 1) \div size) - 1
<1>1. PICK m \in Nat : m = bound + size - 1
  OBVIOUS
<1> DEFINE n == m \div size
           r == m % size
<1>2. m = size * n + r /\ r \in 0 .. size - 1 /\ n \in Int
  BY <1>1
<1>3. \A i \in 0 .. bound - 1 : i \div size \in 0 .. n - 1
  <2> SUFFICES ASSUME NEW i \in 0 .. bound - 1 PROVE i \div size \in 0 .. n - 1
    OBVIOUS
  <2> DEFINE q == i \div size
             s == i % size
  <2>1. i = size * q + s /\ s \in 0 .. size - 1 /\ q \in Nat
    OBVIOUS
  <2> HIDE DEF q, s, n, r
  <2>2. q < n
    <3> SUFFICES ASSUME n =< q PROVE FALSE
      BY <1>2, <2>1
    <3>1. PICK d \in Nat : q = n + d
      <4>1. q - n \in Nat /\ q = n + (q - n)
        BY <1>2, <2>1
      <4> QED BY <4>1
    <3>2. size * q = size * n + size * d /\ size * d \in Nat /\ size * n \in Int
      BY <1>2, <3>1
    <3>3. m >= i + size
      BY <1>1
    <3> QED BY <1>2, <2>1, <3>2, <3>3
  <2>3. q \in 0 .. n - 1
    BY <1>2, <2>1, <2>2
  <2> QED BY <2>3 DEF q
<1>4. 0 \in 0 .. bound - 1
  OBVIOUS
<1>5. n \in Nat \ {0}
  <2>1. 0 \div size \in 0 .. n - 1
    BY <1>3, <1>4
  <2> HIDE DEF n
  <2> QED BY <1>2, <2>1
<1> QED BY <1>1, <1>3, <1>5

(* A digit in front of another makes a number below the product.           *)
LEMMA TwoDigits ==
  ASSUME NEW n \in Nat \ {0}, NEW limit \in Nat, NEW p \in 0 .. limit - 1, NEW r \in 0 .. n - 1
  PROVE  p * n + r \in 0 .. limit * n - 1
<1>1. PICK d \in Nat : limit = p + 1 + d
  <2>1. limit - p - 1 \in Nat /\ limit = p + 1 + (limit - p - 1)
    OBVIOUS
  <2> QED BY <2>1
<1>2. limit * n = p * n + n + d * n /\ d * n \in Nat /\ p * n \in Nat
  BY <1>1
<1> QED BY <1>2

-----------------------------------------------------------------------------
(* Sums over finite sets, of which the community modules say only how they *)
(* are evaluated: an element is chosen and the rest is summed.             *)

Chosen(s) == CHOOSE x \in s : TRUE

(* it maps every subset of S to the sum of f over it. *)
Sums(it, f, S) ==
  it = [s \in SUBSET S |->
          IF s = {} THEN 0 ELSE f[Chosen(s)] + it[s \ {Chosen(s)}]]

(* If a set of finite sets has a member it has one with none below it.     *)
LEMMA SmallestSet ==
  ASSUME NEW F, F # {}, \A s \in F : IsFiniteSet(s)
  PROVE  \E s \in F : \A r \in F : ~ (r \subseteq s /\ r # s)
<1> DEFINE N == {Cardinality(s) : s \in F}
<1>1. N \subseteq Nat /\ N # {}
  BY FS_CardinalityType
<1>2. PICK n \in N : \A m \in N : n <= m
  <2> HIDE DEF N
  <2> QED BY <1>1, LeastExists
<1>3. PICK s \in F : n = Cardinality(s)
  OBVIOUS
<1>4. ASSUME NEW r \in F, r \subseteq s, r # s PROVE FALSE
  <2>1. IsFiniteSet(s) /\ r \in SUBSET s
    BY <1>4
  <2>2. Cardinality(r) <= Cardinality(s) /\ (Cardinality(s) = Cardinality(r) => s = r)
    BY <2>1, FS_Subset
  <2>3. Cardinality(s) <= Cardinality(r)
    BY <1>2, <1>3
  <2>4. Cardinality(r) \in Nat /\ Cardinality(s) \in Nat
    BY FS_CardinalityType
  <2> QED BY <1>4, <2>2, <2>3, <2>4
<1> QED BY <1>4

(* The element taken away is one of the set.                               *)
LEMMA ChosenIsIn ==
  ASSUME NEW s, s # {}
  PROVE  Chosen(s) \in s
BY DEF Chosen

(* A set has one such map at most.                                         *)
LEMMA SumsAreUnique ==
  ASSUME NEW f, NEW g, NEW h, NEW S, IsFiniteSet(S), NEW T \in SUBSET S,
         Sums(g, f, S), Sums(h, f, T)
  PROVE  \A s \in SUBSET T : g[s] = h[s]
<1> DEFINE F == {s \in SUBSET T : g[s] # h[s]}
<1> SUFFICES ASSUME F # {} PROVE FALSE
  OBVIOUS
<1>1. \A s \in F : IsFiniteSet(s)
  BY FS_Subset
<1>2. PICK s \in F : \A r \in F : ~ (r \subseteq s /\ r # s)
  <2> HIDE DEF F
  <2> QED BY <1>1, SmallestSet
<1>3. g[s] = IF s = {} THEN 0 ELSE f[Chosen(s)] + g[s \ {Chosen(s)}]
  BY DEF Sums
<1>4. h[s] = IF s = {} THEN 0 ELSE f[Chosen(s)] + h[s \ {Chosen(s)}]
  BY DEF Sums
<1>5. s # {}
  BY <1>3, <1>4
<1>6. g[s \ {Chosen(s)}] = h[s \ {Chosen(s)}]
  BY <1>2, <1>5, ChosenIsIn
<1> QED BY <1>3, <1>4, <1>6

(* And it has one.                                                         *)
LEMMA SumsExist ==
  ASSUME NEW f, NEW S, IsFiniteSet(S)
  PROVE  \E it : Sums(it, f, S)
<1> DEFINE F == {s \in SUBSET S : ~ \E it : Sums(it, f, s)}
<1> SUFFICES ASSUME F # {} PROVE FALSE
  OBVIOUS
<1>1. \A s \in F : IsFiniteSet(s)
  BY FS_Subset
<1>2. PICK T \in F : \A r \in F : ~ (r \subseteq T /\ r # T)
  <2> HIDE DEF F
  <2> QED BY <1>1, SmallestSet
<1> DEFINE G(s) == CHOOSE it : Sums(it, f, s)
           g == [s \in SUBSET T |->
                   IF s = {} THEN 0
                   ELSE f[Chosen(s)] + G(s \ {Chosen(s)})[s \ {Chosen(s)}]]
<1>3. ASSUME NEW s \in SUBSET T, s # T PROVE Sums(G(s), f, s)
  <2>1. \E it : Sums(it, f, s)
    BY <1>2, <1>3
  <2> QED BY <2>1
<1> HIDE DEF G
<1>4. ASSUME NEW u \in SUBSET T, u # T PROVE g[u] = G(u)[u]
  <2>1. Sums(G(u), f, u)
    BY <1>3, <1>4
  <2>2. G(u)[u] = IF u = {} THEN 0 ELSE f[Chosen(u)] + G(u)[u \ {Chosen(u)}]
    BY <2>1 DEF Sums
  <2>3. CASE u = {}
    BY <2>2, <2>3
  <2>4. CASE u # {}
    <3> DEFINE w == u \ {Chosen(u)}
    <3>1. w \in SUBSET T /\ w # T /\ w \in SUBSET u
      BY <2>4, ChosenIsIn
    <3>2. Sums(G(w), f, w)
      BY <1>3, <3>1
    <3>3. IsFiniteSet(u)
      <4>1. u \in SUBSET S
        OBVIOUS
      <4> QED BY <4>1, FS_Subset
    <3>4. G(u)[w] = G(w)[w]
      BY <2>1, <3>1, <3>2, <3>3, SumsAreUnique
    <3>5. g[u] = f[Chosen(u)] + G(w)[w]
      BY <2>4
    <3> QED BY <2>2, <2>4, <3>4, <3>5
  <2> QED BY <2>3, <2>4
<1>5. Sums(g, f, T)
  <2>1. ASSUME NEW s \in SUBSET T, s # {}
        PROVE  g[s] = f[Chosen(s)] + g[s \ {Chosen(s)}]
    <3>1. s \ {Chosen(s)} \in SUBSET T /\ s \ {Chosen(s)} # T
      BY <2>1, ChosenIsIn
    <3>2. g[s \ {Chosen(s)}] = G(s \ {Chosen(s)})[s \ {Chosen(s)}]
      BY <1>4, <3>1
    <3> QED BY <2>1, <3>2
  <2>2. {} \in SUBSET T /\ g[{}] = 0
    OBVIOUS
  <2>3. g = [s \in SUBSET T |-> g[s]]
    OBVIOUS
  <2> HIDE DEF g
  <2>4. \A s \in SUBSET T : g[s] = IF s = {} THEN 0 ELSE f[Chosen(s)] + g[s \ {Chosen(s)}]
    BY <2>1, <2>2
  <2> QED BY <2>3, <2>4 DEF Sums
<1> QED BY <1>2, <1>5

(* The sum of a function over a finite set is what the table of partial    *)
(* sums holds for the whole set.                                           *)
LEMMA SumIsTheTotal ==
  ASSUME NEW f, NEW S, IsFiniteSet(S), NEW it, Sums(it, f, S)
  PROVE  SumFunctionOnSet(f, S) = it[S]
<1> DEFINE T(h) == h = [s \in SUBSET S |-> IF s = {} THEN 0
                          ELSE f[Chosen(s)] + h[s \ {Chosen(s)}]]
           c == CHOOSE h : T(h)
<1>1. T(it)
  BY DEF Sums
<1>2. T(c)
  BY <1>1
<1>3. Sums(c, f, S)
  BY <1>2 DEF Sums
<1>4. c[S] = it[S]
  BY <1>3, SumsAreUnique
<1>5. SumFunctionOnSet(f, S) = c[S]
  BY DEF SumFunctionOnSet, FoldFunctionOnSet, MapThenFoldSet, Chosen
<1> QED BY <1>4, <1>5

(* Nothing adds up to 0, and a sum is the chosen member's value and the    *)
(* sum of the rest.                                                        *)
LEMMA SumStep ==
  ASSUME NEW f, NEW S, IsFiniteSet(S)
  PROVE  SumFunctionOnSet(f, S)
           = IF S = {} THEN 0
             ELSE f[Chosen(S)] + SumFunctionOnSet(f, S \ {Chosen(S)})
<1>1. PICK it : Sums(it, f, S)
  BY SumsExist
<1>2. SumFunctionOnSet(f, S) = it[S]
  BY <1>1, SumIsTheTotal
<1>3. it[S] = IF S = {} THEN 0 ELSE f[Chosen(S)] + it[S \ {Chosen(S)}]
  BY <1>1 DEF Sums
<1> DEFINE R == S \ {Chosen(S)}
<1>4. IsFiniteSet(R) /\ R \in SUBSET S
  BY FS_Subset
<1> HIDE DEF R
<1>5. PICK h : Sums(h, f, R)
  BY <1>4, SumsExist
<1>6. SumFunctionOnSet(f, R) = h[R]
  BY <1>4, <1>5, SumIsTheTotal
<1>7. h[R] = it[R]
  BY <1>1, <1>4, <1>5, SumsAreUnique
<1> QED BY <1>2, <1>3, <1>6, <1>7 DEF R

(* A sum of integers is an integer, a sum of naturals a natural.           *)
LEMMA SumType ==
  ASSUME NEW f, NEW S, IsFiniteSet(S), NEW D, D \in {Int, Nat},
         \A x \in S : f[x] \in D
  PROVE  SumFunctionOnSet(f, S) \in D
<1> DEFINE F == {s \in SUBSET S : SumFunctionOnSet(f, s) \notin D}
<1> SUFFICES ASSUME F # {} PROVE FALSE
  OBVIOUS
<1>1. \A s \in F : IsFiniteSet(s)
  BY FS_Subset
<1> HIDE DEF F
<1>2. PICK s \in F : \A r \in F : ~ (r \subseteq s /\ r # s)
  BY <1>1, SmallestSet
<1>3. s \in SUBSET S /\ IsFiniteSet(s) /\ SumFunctionOnSet(f, s) \notin D
  BY <1>1, <1>2 DEF F
<1>4. SumFunctionOnSet(f, s)
        = IF s = {} THEN 0
          ELSE f[Chosen(s)] + SumFunctionOnSet(f, s \ {Chosen(s)})
  BY <1>3, SumStep
<1>5. s # {}
  BY <1>3, <1>4
<1>6. Chosen(s) \in s
  BY <1>5, ChosenIsIn
<1>7. SumFunctionOnSet(f, s \ {Chosen(s)}) \in D
  <2>1. s \ {Chosen(s)} \notin F
    BY <1>2, <1>6
  <2> QED BY <1>3, <2>1 DEF F
<1>8. f[Chosen(s)] \in D
  BY <1>3, <1>6
<1> DEFINE a == f[Chosen(s)]
           b == SumFunctionOnSet(f, s \ {Chosen(s)})
<1>9. a \in D /\ b \in D => a + b \in D
  <2> HIDE DEF a, b
  <2> QED OBVIOUS
<1> QED BY <1>3, <1>4, <1>5, <1>7, <1>8, <1>9

(* In whatever order it is computed, a member can be taken out of a sum.   *)
LEMMA SumInsert ==
  ASSUME NEW f, NEW S, IsFiniteSet(S), NEW x \in S, \A y \in S : f[y] \in Int
  PROVE  SumFunctionOnSet(f, S) = f[x] + SumFunctionOnSet(f, S \ {x})
<1> DEFINE F == {s \in SUBSET S : \E y \in s :
                   SumFunctionOnSet(f, s)
                     # f[y] + SumFunctionOnSet(f, s \ {y})}
<1> SUFFICES ASSUME F # {} PROVE FALSE
  OBVIOUS
<1>1. \A s \in SUBSET S : IsFiniteSet(s)
  BY FS_Subset
<1>a. \A s \in F : IsFiniteSet(s)
  BY <1>1
<1> HIDE DEF F
<1>2. PICK s \in F : \A r \in F : ~ (r \subseteq s /\ r # s)
  BY <1>a, SmallestSet
<1>3. PICK y \in s : SumFunctionOnSet(f, s) # f[y] + SumFunctionOnSet(f, s \ {y})
  BY <1>2 DEF F
<1>4. s \in SUBSET S /\ IsFiniteSet(s) /\ s # {}
  BY <1>1, <1>2, <1>3 DEF F
<1> DEFINE c == Chosen(s)
           r == (s \ {c}) \ {y}
<1>5. c \in s
  BY <1>4, ChosenIsIn
<1>6. SumFunctionOnSet(f, s) = f[c] + SumFunctionOnSet(f, s \ {c})
  BY <1>4, SumStep
<1> HIDE DEF c
<1>7. y # c
  BY <1>3, <1>6
<1>8. \A z \in S : \A t \in SUBSET s : t # s /\ z \in t =>
        SumFunctionOnSet(f, t) = f[z] + SumFunctionOnSet(f, t \ {z})
  BY <1>2, <1>4 DEF F
<1>9. SumFunctionOnSet(f, s \ {c}) = f[y] + SumFunctionOnSet(f, r)
  BY <1>4, <1>5, <1>7, <1>8
<1>10. SumFunctionOnSet(f, s \ {y}) = f[c] + SumFunctionOnSet(f, r)
  <2>1. r = (s \ {y}) \ {c}
    OBVIOUS
  <2> QED BY <1>4, <1>5, <1>7, <1>8, <2>1
<1>11. f[c] \in Int /\ f[y] \in Int /\ SumFunctionOnSet(f, r) \in Int
  <2>1. r \in SUBSET S /\ IsFiniteSet(r)
    BY <1>1, <1>4
  <2>2. \A z \in r : f[z] \in Int
    BY <2>1
  <2> HIDE DEF r
  <2> QED BY <1>4, <1>5, <2>1, <2>2, SumType
<1> DEFINE R == SumFunctionOnSet(f, r)
           A == f[c]
           B == f[y]
<1>12. A + (B + R) = B + (A + R)
  <2>1. A \in Int /\ B \in Int /\ R \in Int
    BY <1>11
  <2> HIDE DEF A, B, R
  <2> QED BY <2>1
<1> QED BY <1>3, <1>6, <1>9, <1>10, <1>12

(* Only the values of the members count.                                   *)
LEMMA SumEqual ==
  ASSUME NEW f, NEW g, NEW S, IsFiniteSet(S), \A x \in S : f[x] = g[x]
  PROVE  SumFunctionOnSet(f, S) = SumFunctionOnSet(g, S)
<1> DEFINE F == {s \in SUBSET S : SumFunctionOnSet(f, s) # SumFunctionOnSet(g, s)}
<1> SUFFICES ASSUME F # {} PROVE FALSE
  OBVIOUS
<1>1. \A s \in F : IsFiniteSet(s)
  BY FS_Subset
<1> HIDE DEF F
<1>2. PICK s \in F : \A r \in F : ~ (r \subseteq s /\ r # s)
  BY <1>1, SmallestSet
<1>3. s \in SUBSET S /\ IsFiniteSet(s)
      /\ SumFunctionOnSet(f, s) # SumFunctionOnSet(g, s)
  BY <1>1, <1>2 DEF F
<1>4. /\ SumFunctionOnSet(f, s)
           = IF s = {} THEN 0
             ELSE f[Chosen(s)] + SumFunctionOnSet(f, s \ {Chosen(s)})
      /\ SumFunctionOnSet(g, s)
           = IF s = {} THEN 0
             ELSE g[Chosen(s)] + SumFunctionOnSet(g, s \ {Chosen(s)})
  BY <1>3, SumStep
<1>5. s # {}
  BY <1>3, <1>4
<1>6. Chosen(s) \in s
  BY <1>5, ChosenIsIn
<1>7. SumFunctionOnSet(f, s \ {Chosen(s)}) = SumFunctionOnSet(g, s \ {Chosen(s)})
  <2>1. s \ {Chosen(s)} \notin F
    BY <1>2, <1>6
  <2> QED BY <1>3, <2>1 DEF F
<1> QED BY <1>3, <1>4, <1>5, <1>6, <1>7

(* A new member adds its value.                                            *)
LEMMA SumAdd ==
  ASSUME NEW f, NEW S, IsFiniteSet(S), NEW x, x \notin S,
         \A y \in S \cup {x} : f[y] \in Int
  PROVE  SumFunctionOnSet(f, S \cup {x}) = f[x] + SumFunctionOnSet(f, S)
<1> DEFINE T == S \cup {x}
<1>1. IsFiniteSet(T) /\ x \in T /\ S = T \ {x} /\ \A y \in T : f[y] \in Int
  BY FS_AddElement
<1> HIDE DEF T
<1>2. SumFunctionOnSet(f, T) = f[x] + SumFunctionOnSet(f, T \ {x})
  BY <1>1, SumInsert
<1> QED BY <1>1, <1>2 DEF T

(* Adding to one value adds to the sum.                                    *)
LEMMA SumUpdate ==
  ASSUME NEW S, IsFiniteSet(S), NEW f \in [S -> Int], NEW x \in S, NEW d \in Int
  PROVE  SumFunctionOnSet([f EXCEPT ![x] = f[x] + d], S)
           = SumFunctionOnSet(f, S) + d
<1> DEFINE g == [f EXCEPT ![x] = f[x] + d]
           R == SumFunctionOnSet(f, S \ {x})
<1>1. g \in [S -> Int] /\ g[x] = f[x] + d /\ \A y \in S \ {x} : g[y] = f[y]
  OBVIOUS
<1>2. IsFiniteSet(S \ {x})
  BY FS_Subset
<1> HIDE DEF g
<1>3. SumFunctionOnSet(g, S) = g[x] + SumFunctionOnSet(g, S \ {x})
      /\ SumFunctionOnSet(f, S) = f[x] + R
  BY <1>1, SumInsert
<1>4. SumFunctionOnSet(g, S \ {x}) = R
  BY <1>1, <1>2, SumEqual
<1>5. R \in Int
  <2>1. \A y \in S \ {x} : f[y] \in Int
    OBVIOUS
  <2> QED BY <1>2, <2>1, SumType
<1>6. f[x] \in Int
  OBVIOUS
<1>7. SumFunctionOnSet(g, S) = SumFunctionOnSet(f, S) + d
  <2> HIDE DEF R
  <2> QED BY <1>1, <1>3, <1>4, <1>5, <1>6
<1> QED BY <1>7 DEF g

(* The sum over the members of A among the first numbers, number by        *)
(* number.                                                                 *)
LEMMA SumOfPrefix ==
  ASSUME NEW n \in Nat, NEW g \in [1 .. n -> Int], NEW A
  PROVE  /\ SumFunctionOnSet(g, A \cap 1 .. 0) = 0
         /\ \A k \in (1 .. n) \cap A :
              SumFunctionOnSet(g, A \cap 1 .. k) = SumFunctionOnSet(g, A \cap 1 .. k - 1) + g[k]
<1>1. A \cap 1 .. 0 = {}
  OBVIOUS
<1>2. SumFunctionOnSet(g, {}) = 0
  BY SumStep, FS_EmptySet
<1>3. ASSUME NEW k \in 1 .. n
      PROVE  k \in A =>
               SumFunctionOnSet(g, A \cap 1 .. k) = SumFunctionOnSet(g, A \cap 1 .. k - 1) + g[k]
  <2> DEFINE S == A \cap 1 .. k - 1
  <2>1. IsFiniteSet(S)
    <3>1. k - 1 \in Int /\ 1 \in Int
      OBVIOUS
    <3>2. IsFiniteSet(1 .. k - 1)
      BY <3>1, FS_Interval
    <3> QED BY <3>2, FS_Subset
  <2>2. k \notin S /\ \A y \in S \cup {k} : g[y] \in Int
    OBVIOUS
  <2>3. SumFunctionOnSet(g, S) \in Int
    BY <2>1, <2>2, SumType
  <2>4. CASE k \in A
    <3>1. A \cap 1 .. k = S \cup {k}
      BY <2>4
    <3> HIDE DEF S
    <3>2. SumFunctionOnSet(g, S \cup {k}) = g[k] + SumFunctionOnSet(g, S)
      BY <2>1, <2>2, SumAdd
    <3>3. PICK a \in Int : a = g[k]
      OBVIOUS
    <3>4. PICK b \in Int : b = SumFunctionOnSet(g, S)
      BY <2>3
    <3>5. SumFunctionOnSet(g, A \cap 1 .. k) = a + b
      BY ONLY <3>1, <3>2, <3>3, <3>4, Zenon
    <3>6. a + b = b + a
      OBVIOUS
    <3>7. SumFunctionOnSet(g, A \cap 1 .. k) = b + a
      BY ONLY <3>5, <3>6, Zenon
    <3> QED BY <2>4, <3>3, <3>4, <3>7 DEF S
  <2> QED BY <2>4
<1> QED BY <1>1, <1>2, <1>3

(* The sums over two sets that share nothing add up.                       *)
LEMMA SumUnion ==
  ASSUME NEW f, NEW S, NEW T, IsFiniteSet(S), IsFiniteSet(T), S \cap T = {},
         \A x \in S \cup T : f[x] \in Int
  PROVE  SumFunctionOnSet(f, S \cup T) = SumFunctionOnSet(f, S) + SumFunctionOnSet(f, T)
<1> DEFINE F == {t \in SUBSET T : SumFunctionOnSet(f, S \cup t)
                                    # SumFunctionOnSet(f, S) + SumFunctionOnSet(f, t)}
<1> SUFFICES ASSUME F # {} PROVE FALSE
  OBVIOUS
<1>1. \A t \in SUBSET T : IsFiniteSet(t)
  BY FS_Subset
<1>2. \A t \in F : IsFiniteSet(t)
  BY <1>1
<1> HIDE DEF F
<1>3. PICK t \in F : \A r \in F : ~ (r \subseteq t /\ r # t)
  BY <1>2, SmallestSet
<1>4. t \in SUBSET T
      /\ SumFunctionOnSet(f, S \cup t) # SumFunctionOnSet(f, S) + SumFunctionOnSet(f, t)
  BY <1>3 DEF F
<1>5. SumFunctionOnSet(f, S) \in Int
  BY SumType
<1>6. t # {}
  <2>1. SumFunctionOnSet(f, {}) = 0
    BY SumStep, FS_EmptySet
  <2>2. S \cup {} = S
    OBVIOUS
  <2>3. SumFunctionOnSet(f, S) = SumFunctionOnSet(f, S) + 0
    BY <1>5
  <2> QED BY <1>4, <2>1, <2>2, <2>3
<1>7. PICK x \in t : TRUE
  BY <1>6
<1> DEFINE r == t \ {x}
           U == S \cup r
<1>8. /\ r \in SUBSET T /\ r # t /\ r \subseteq t /\ x \notin r /\ x \notin U
      /\ t = r \cup {x} /\ S \cup t = U \cup {x}
  BY <1>4, <1>7
<1>9. IsFiniteSet(r) /\ IsFiniteSet(U)
  BY <1>1, <1>8, FS_Union
<1>10. SumFunctionOnSet(f, U) = SumFunctionOnSet(f, S) + SumFunctionOnSet(f, r)
  BY <1>3, <1>8 DEF F
<1>11. (\A y \in r \cup {x} : f[y] \in Int) /\ (\A y \in U \cup {x} : f[y] \in Int)
  BY <1>4, <1>8
<1>12. SumFunctionOnSet(f, r) \in Int /\ f[x] \in Int
  BY <1>9, <1>11, SumType
<1> HIDE DEF r, U
<1>13. SumFunctionOnSet(f, t) = f[x] + SumFunctionOnSet(f, r)
  BY <1>8, <1>9, <1>11, SumAdd
<1>14. SumFunctionOnSet(f, S \cup t) = f[x] + SumFunctionOnSet(f, U)
  BY <1>8, <1>9, <1>11, SumAdd
<1>15. \A a, b, c \in Int : a + (b + c) = b + (a + c)
  OBVIOUS
<1> QED BY <1>4, <1>5, <1>10, <1>12, <1>13, <1>14, <1>15

(* A sum is the same with its members counted from elsewhere.              *)
LEMMA SumShift ==
  ASSUME NEW n \in Nat, NEW f, NEW g, NEW S \in SUBSET Nat, IsFiniteSet(S),
         \A k \in S : f[k] \in Int /\ g[n + k] = f[k]
  PROVE  /\ SumFunctionOnSet(g, {n + k : k \in S}) = SumFunctionOnSet(f, S)
         /\ IsFiniteSet({n + k : k \in S})
<1> DEFINE M(s) == {n + k : k \in s}
           F == {s \in SUBSET S : SumFunctionOnSet(g, M(s)) # SumFunctionOnSet(f, s)}
<1>1. ASSUME NEW s \in SUBSET S PROVE IsFiniteSet(s) /\ IsFiniteSet(M(s))
  <2>1. IsFiniteSet(s)
    BY FS_Subset
  <2> DEFINE m == [k \in s |-> n + k]
             R == M(s)
  <2>2. m \in Surjection(s, R)
    BY DEF Surjection
  <2> HIDE DEF m, R
  <2>3. IsFiniteSet(R)
    BY <2>1, <2>2, FS_Surjection
  <2> QED BY <2>1, <2>3 DEF R
<1>2. \A s \in F : IsFiniteSet(s)
  BY <1>1
<1>3. F = {}
  <2> SUFFICES ASSUME F # {} PROVE FALSE
    OBVIOUS
  <2> HIDE DEF F
  <2>1. PICK s \in F : \A r \in F : ~ (r \subseteq s /\ r # s)
    BY <1>2, SmallestSet
  <2>2. s \in SUBSET S /\ SumFunctionOnSet(g, M(s)) # SumFunctionOnSet(f, s)
    BY <2>1 DEF F
  <2>3. s # {}
    <3>1. M({}) = {}
      OBVIOUS
    <3> HIDE DEF M
    <3>2. SumFunctionOnSet(f, {}) = 0 /\ SumFunctionOnSet(g, {}) = 0
      BY SumStep, FS_EmptySet
    <3> QED BY <2>2, <3>1, <3>2
  <2>4. PICK x \in s : TRUE
    BY <2>3
  <2> DEFINE r == s \ {x}
             R == M(r)
  <2>5. r \in SUBSET S /\ r # s /\ r \subseteq s /\ x \notin r /\ s = r \cup {x}
    BY <2>2, <2>4
  <2>6. M(s) = R \cup {n + x}
    BY <2>5
  <2>7. n + x \notin R
    <3> SUFFICES ASSUME NEW k \in r, n + x = n + k PROVE FALSE
      OBVIOUS
    <3>1. k \in Nat /\ x \in Nat
      BY <2>2, <2>4
    <3>2. k = x
      BY <3>1
    <3> QED BY <2>5, <3>2
  <2>8. IsFiniteSet(r) /\ IsFiniteSet(R)
    BY <1>1, <2>5
  <2>9. SumFunctionOnSet(g, R) = SumFunctionOnSet(f, r)
    BY <2>1, <2>5 DEF F
  <2>10. \A y \in r \cup {x} : f[y] \in Int
    BY <2>2, <2>4
  <2>11. \A y \in R \cup {n + x} : g[y] \in Int
    BY <2>2, <2>4
  <2>12. g[n + x] = f[x]
    BY <2>2, <2>4
  <2> HIDE DEF r, R, M
  <2>13. SumFunctionOnSet(f, s) = f[x] + SumFunctionOnSet(f, r)
    BY <2>5, <2>8, <2>10, SumAdd
  <2>14. SumFunctionOnSet(g, R \cup {n + x}) = g[n + x] + SumFunctionOnSet(g, R)
    BY <2>7, <2>8, <2>11, SumAdd
  <2> QED BY <2>2, <2>6, <2>9, <2>12, <2>13, <2>14
<1>4. S \in SUBSET S
  OBVIOUS
<1> QED BY <1>1, <1>3, <1>4

(* A part of a set of numbers adds up to no more than the whole.           *)
LEMMA SumOfPart ==
  ASSUME NEW f, NEW T, IsFiniteSet(T), NEW S \in SUBSET T, \A x \in T : f[x] \in Nat
  PROVE  SumFunctionOnSet(f, S) <= SumFunctionOnSet(f, T)
<1> DEFINE R == T \ S
<1>1. /\ IsFiniteSet(S) /\ IsFiniteSet(R) /\ S \cap R = {} /\ T = S \cup R
      /\ \A x \in S \cup R : f[x] \in Int
      /\ (\A x \in S : f[x] \in Nat) /\ (\A x \in R : f[x] \in Nat)
  BY FS_Subset
<1> HIDE DEF R
<1>2. SumFunctionOnSet(f, T) = SumFunctionOnSet(f, S) + SumFunctionOnSet(f, R)
  BY <1>1, SumUnion
<1>3. SumFunctionOnSet(f, S) \in Nat /\ SumFunctionOnSet(f, R) \in Nat
  BY <1>1, SumType
<1>4. \A a, b \in Nat : a <= a + b
  OBVIOUS
<1> QED BY <1>2, <1>3, <1>4

-----------------------------------------------------------------------------
(* Products along a sequence, taken from the back as the folds of the      *)
(* community modules are evaluated.                                        *)

(* it maps every set of positions to the product of f over it.             *)
Products(it, f, n) ==
  it = [s \in SUBSET (1 .. n) |-> IF s = {} THEN 1 ELSE it[s \ {Max(s)}] * f[Max(s)]]

(* Functions that agree on the first positions have the same products of   *)
(* those.                                                                  *)
LEMMA ProductsAreUnique ==
  ASSUME NEW m \in Nat, NEW n \in Nat, n <= m, NEW f, NEW g, \A i \in 1 .. n : f[i] = g[i],
         NEW it, Products(it, f, m), NEW h, Products(h, g, n)
  PROVE  \A s \in SUBSET (1 .. n) : it[s] = h[s]
<1> DEFINE F == {s \in SUBSET (1 .. n) : it[s] # h[s]}
<1> SUFFICES ASSUME F # {} PROVE FALSE
  OBVIOUS
<1>1. \A s \in SUBSET (1 .. n) : IsFiniteSet(s)
  <2>1. IsFiniteSet(1 .. n)
    <3>1. 1 \in Int /\ n \in Int
      OBVIOUS
    <3> QED BY ONLY <3>1, FS_Interval
  <2> QED BY <2>1, FS_Subset
<1>2. PICK s \in F : \A r \in F : ~ (r \subseteq s /\ r # s)
  <2>1. \A s \in F : IsFiniteSet(s)
    BY <1>1
  <2> HIDE DEF F
  <2> QED BY <2>1, SmallestSet
<1>3. s \in SUBSET (1 .. n) /\ s \in SUBSET (1 .. m)
  OBVIOUS
<1>4. /\ it[s] = IF s = {} THEN 1 ELSE it[s \ {Max(s)}] * f[Max(s)]
      /\ h[s] = IF s = {} THEN 1 ELSE h[s \ {Max(s)}] * g[Max(s)]
  BY <1>3 DEF Products
<1>5. s # {}
  BY <1>2, <1>4
<1>6. Max(s) \in s
  BY <1>3, <1>5, GreatestExists
<1>7. it[s \ {Max(s)}] = h[s \ {Max(s)}]
  BY <1>2, <1>6
<1>8. f[Max(s)] = g[Max(s)]
  BY <1>3, <1>6
<1> QED BY <1>2, <1>4, <1>5, <1>7, <1>8

(* There is one table of products.                                         *)
LEMMA OneProduct ==
  ASSUME NEW n \in Nat, NEW f, NEW it, Products(it, f, n), NEW h, Products(h, f, n)
  PROVE  it[1 .. n] = h[1 .. n]
<1>1. PICK g : g = f
  OBVIOUS
<1>2. \A i \in 1 .. n : f[i] = g[i]
  BY <1>1
<1>3. Products(h, g, n) /\ n <= n
  BY <1>1
<1>4. \A s \in SUBSET (1 .. n) : it[s] = h[s]
  BY <1>2, <1>3, ProductsAreUnique
<1> QED BY <1>4

(* Every function has a table of products.                                 *)
LEMMA ProductsExist ==
  ASSUME NEW n \in Nat, NEW f
  PROVE  \E it : Products(it, f, n)
<1> DEFINE F == {k \in 0 .. n : ~ \E it : Products(it, f, k)}
<1> SUFFICES ASSUME F # {} PROVE FALSE
  <2>1. n \notin F => \E it : Products(it, f, n)
    OBVIOUS
  <2> QED BY <2>1
<1>1. PICK k \in F : \A j \in F : k <= j
  <2>1. F \subseteq Nat
    OBVIOUS
  <2> HIDE DEF F
  <2> QED BY <2>1, LeastExists
<1>2. k \in 0 .. n
  OBVIOUS
<1>3. CASE k = 0
  <2>1. SUBSET (1 .. 0) = {{}}
    OBVIOUS
  <2>2. Products([s \in SUBSET (1 .. 0) |-> 1], f, 0)
    BY <2>1 DEF Products
  <2> QED BY <1>3, <2>2
<1>4. CASE k # 0
  <2>1. k - 1 \in 0 .. n /\ k - 1 \notin F /\ k \in 1 .. n
    BY <1>1, <1>2, <1>4
  <2>2. PICK h : Products(h, f, k - 1)
    BY <2>1
  <2> DEFINE it == [s \in SUBSET (1 .. k) |->
                      IF s = {} THEN 1
                      ELSE IF k \in s THEN h[s \ {k}] * f[k] ELSE h[s]]
  <2>3. ASSUME NEW s \in SUBSET (1 .. k), s # {}
        PROVE  it[s] = it[s \ {Max(s)}] * f[Max(s)]
    <3>1. k \in Nat /\ k - 1 \in Nat
      BY <2>1
    <3>2. Max(s) \in s /\ \A i \in s : Max(s) >= i
      BY <2>3, <3>1, GreatestExists
    <3>3. CASE k \in s
      <4>1. Max(s) = k
        <5>1. Max(s) >= k /\ Max(s) \in 1 .. k
          BY <3>2, <3>3
        <5> QED BY <3>1, <5>1
      <4>2. s \ {k} \in SUBSET (1 .. k - 1) /\ s \ {k} \in SUBSET (1 .. k) /\ k \notin s \ {k}
        BY <3>1
      <4>3. h[s \ {k}] = it[s \ {k}]
        <5>1. h[{}] = 1
          BY <2>2 DEF Products
        <5> QED BY <4>2, <5>1
      <4> QED BY <2>3, <3>3, <4>1, <4>3
    <3>4. CASE k \notin s
      <4>1. s \in SUBSET (1 .. k - 1)
        BY <3>1, <3>4
      <4>2. h[s] = h[s \ {Max(s)}] * f[Max(s)]
        BY <2>2, <2>3, <4>1 DEF Products
      <4>3. it[s] = h[s]
        BY <2>3, <3>4
      <4> DEFINE r == s \ {Max(s)}
      <4>4. r \in SUBSET (1 .. k) /\ r \in SUBSET (1 .. k - 1) /\ k \notin r
        BY <3>4, <4>1
      <4>5. h[{}] = 1
        BY <2>2 DEF Products
      <4>6. it[r] = h[r]
        <5> HIDE DEF r
        <5> QED BY <4>4, <4>5
      <4> QED BY <4>2, <4>3, <4>6
    <3> QED BY <3>3, <3>4
  <2>4. it[{}] = 1 /\ it = [s \in SUBSET (1 .. k) |-> it[s]]
    OBVIOUS
  <2>5. Products(it, f, k)
    <3> HIDE DEF it
    <3>1. \A s \in SUBSET (1 .. k) :
            it[s] = IF s = {} THEN 1 ELSE it[s \ {Max(s)}] * f[Max(s)]
      BY <2>3, <2>4
    <3> QED BY <2>4, <3>1 DEF Products
  <2> QED BY <2>5
<1> QED BY <1>3, <1>4

(* The products of the first factors, one after the other.                 *)
Radices(f, P, n) ==
  /\ n \in Nat /\ f \in [1 .. n -> Nat \ {0}]
  /\ P \in [0 .. n -> Nat \ {0}]
  /\ P[0] = 1 /\ \A k \in 1 .. n : P[k] = P[k - 1] * f[k]

(* The products of a nest's beginnings are the radices of its loops.       *)
LEMMA ProductsOfPrefixes ==
  ASSUME NEW n \in Nat, NEW f \in [1 .. n -> Nat \ {0}], NEW it, Products(it, f, n)
  PROVE  Radices(f, [k \in 0 .. n |-> it[1 .. k]], n)
<1> DEFINE P == [k \in 0 .. n |-> it[1 .. k]]
<1>1. it[1 .. 0] = 1
  <2>1. {} \in SUBSET (1 .. n) /\ 1 .. 0 = {}
    OBVIOUS
  <2> QED BY <2>1 DEF Products
<1>2. ASSUME NEW k \in 1 .. n PROVE it[1 .. k] = it[1 .. k - 1] * f[k]
  <2>1. 1 .. k \in SUBSET (1 .. n) /\ 1 .. k # {} /\ k \in Nat
    OBVIOUS
  <2>2. Max(1 .. k) \in 1 .. k /\ \A i \in 1 .. k : Max(1 .. k) >= i
    BY <2>1, GreatestExists
  <2>3. PICK m \in 1 .. k : m = Max(1 .. k) /\ m >= k
    <3>1. k \in 1 .. k
      BY <2>1
    <3> QED BY <2>2, <3>1
  <2>4. Max(1 .. k) = k
    BY <2>1, <2>3
  <2>5. (1 .. k) \ {k} = 1 .. k - 1
    BY <2>1
  <2>6. it[1 .. k] = it[(1 .. k) \ {Max(1 .. k)}] * f[Max(1 .. k)]
    BY <2>1 DEF Products
  <2> QED BY <2>4, <2>5, <2>6
<1>3. \A k \in 0 .. n : it[1 .. k] \in Nat \ {0}
  <2> DEFINE F == {k \in 0 .. n : it[1 .. k] \notin Nat \ {0}}
  <2> SUFFICES ASSUME F # {} PROVE FALSE
    OBVIOUS
  <2>1. PICK k \in F : \A j \in F : k <= j
    <3>1. F \subseteq Nat
      OBVIOUS
    <3> HIDE DEF F
    <3> QED BY <3>1, LeastExists
  <2>2. k \in 1 .. n
    BY <1>1
  <2>3. k - 1 \notin F /\ k - 1 \in 0 .. n
    BY <2>1, <2>2
  <2>4. PICK a \in Nat \ {0} : a = it[1 .. k - 1]
    BY <2>3
  <2>5. PICK b \in Nat \ {0} : b = f[k]
    BY <2>2
  <2>6. a * b \in Nat \ {0}
    OBVIOUS
  <2> QED BY <1>2, <2>2, <2>4, <2>5, <2>6
<1> QED BY <1>1, <1>2, <1>3 DEF Radices

-----------------------------------------------------------------------------
(* Numbers in a mixed radix: f has the radices, from the lowest digit, and *)
(* P their products, the weights of the digits.                            *)

IsDigits(d, f, n) == d \in [1 .. n -> Nat] /\ \A i \in 1 .. n : d[i] <= f[i] - 1

(* V[k] is the number with the first k of the digits d.                    *)
ValueOf(V, d, P, n) ==
  /\ V \in [0 .. n -> Nat]
  /\ V[0] = 0 /\ \A k \in 1 .. n : V[k] = V[k - 1] + d[k] * P[k - 1]

(* Products of naturals keep their order.                                  *)
LEMMA ProductOrder ==
  ASSUME NEW a \in Nat, NEW b \in Nat, a <= b, NEW p \in Nat
  PROVE  a * p \in Nat /\ b * p \in Nat /\ a * p <= b * p
<1>1. PICK d \in Nat : b = a + d
  <2>1. b - a \in Nat /\ b = a + (b - a)
    OBVIOUS
  <2> QED BY <2>1
<1>2. b * p = a * p + d * p /\ a * p \in Nat /\ d * p \in Nat
  BY <1>1
<1> QED BY <1>2

(* The lowest digits of a number, and those of the rest of it.             *)
LEMMA SplitNumber ==
  ASSUME NEW a \in Nat \ {0}, NEW f \in Nat \ {0}, NEW s \in Nat
  PROVE  s % (a * f) = (s % a) + ((s \div a) % f) * a
<1> DEFINE q == s \div a
           r == s % a
           p == q \div f
           d == q % f
<1>1. q \in Nat /\ r \in 0 .. a - 1 /\ s = q * a + r
  OBVIOUS
<1>2. p \in Nat /\ d \in 0 .. f - 1 /\ q = p * f + d
  <2>1. \A x \in Nat : x \div f \in Nat /\ x % f \in 0 .. f - 1 /\ x = (x \div f) * f + (x % f)
    OBVIOUS
  <2> HIDE DEF q
  <2> QED BY <1>1, <2>1
<1> HIDE DEF q, r, p, d
<1>3. PICK n \in Nat \ {0} : n = a * f
  <2>1. a * f \in Nat \ {0}
    OBVIOUS
  <2> QED BY <2>1
<1>4. d * a + r \in 0 .. f * a - 1
  BY <1>1, <1>2, TwoDigits
<1>5. f * a = n
  BY <1>3
<1>6. d * a + r \in 0 .. n - 1
  BY <1>4, <1>5
<1>7. s = p * n + (d * a + r)
  <2>1. q * a = (p * f) * a + d * a
    BY <1>2
  <2>2. (p * f) * a = p * (a * f)
    BY <1>2
  <2>3. (p * f) * a \in Nat /\ d * a \in Nat
    BY <1>2
  <2> QED BY <1>1, <1>2, <1>3, <2>1, <2>2, <2>3
<1>8. PICK m \in 0 .. n - 1 : m = d * a + r
  BY <1>6
<1>9. s = p * n + m
  BY <1>7, <1>8
<1>10. s % n = m
  BY <1>2, <1>9, LastDigit
<1>11. r + d * a = d * a + r
  BY <1>1, <1>2
<1> QED BY <1>3, <1>8, <1>10, <1>11 DEF q, r, d

(* A number below the last product is the one with its digits.             *)
LEMMA StepIsValue ==
  ASSUME NEW n, NEW f, NEW P, Radices(f, P, n), NEW s \in Nat
  PROVE  LET d == [i \in 1 .. n |-> (s \div P[i - 1]) % f[i]]
         IN  IsDigits(d, f, n) /\ ValueOf([k \in 0 .. n |-> s % P[k]], d, P, n)
<1> DEFINE d == [i \in 1 .. n |-> (s \div P[i - 1]) % f[i]]
           V == [k \in 0 .. n |-> s % P[k]]
<1>1. n \in Nat
  BY DEF Radices
<1>2. ASSUME NEW k \in 1 .. n
      PROVE  /\ d[k] \in Nat /\ d[k] <= f[k] - 1
             /\ V[k] = V[k - 1] + d[k] * P[k - 1]
  <2>1. k - 1 \in 0 .. n /\ k \in 0 .. n
    BY <1>1
  <2>2. PICK a \in Nat \ {0} : a = P[k - 1]
    BY <2>1 DEF Radices
  <2>3. PICK b \in Nat \ {0} : b = f[k]
    BY DEF Radices
  <2>4. P[k] = a * b
    BY <2>2, <2>3 DEF Radices
  <2>5. (s \div a) % b \in 0 .. b - 1
    <3>1. s \div a \in Nat
      OBVIOUS
    <3>2. \A x \in Nat : x % b \in 0 .. b - 1
      OBVIOUS
    <3> QED BY ONLY <3>1, <3>2
  <2>6. s % (a * b) = (s % a) + ((s \div a) % b) * a
    BY SplitNumber
  <2>7. d[k] = (s \div a) % b
    BY <2>2, <2>3
  <2>8. V[k] = s % (a * b) /\ V[k - 1] = s % a
    BY <2>1, <2>2, <2>4
  <2> HIDE DEF d, V
  <2>9. d[k] \in Nat /\ d[k] <= b - 1
    BY <2>5, <2>7
  <2> QED BY <2>2, <2>3, <2>6, <2>7, <2>8, <2>9
<1>3. V[0] = 0
  <2>1. V[0] = s % 1
    BY <1>1 DEF Radices
  <2> QED BY <2>1
<1>4. V \in [0 .. n -> Nat]
  <2>1. ASSUME NEW k \in 0 .. n PROVE s % P[k] \in Nat
    <3>1. P[k] \in Nat \ {0}
      BY DEF Radices
    <3> QED BY <3>1
  <2> QED BY <2>1
<1>5. d \in [1 .. n -> Nat]
  <2>1. d = [i \in 1 .. n |-> d[i]]
    OBVIOUS
  <2> HIDE DEF d
  <2> QED BY <1>2, <2>1
<1> HIDE DEF d, V
<1>6. IsDigits(d, f, n)
  BY <1>2, <1>5 DEF IsDigits
<1>7. ValueOf(V, d, P, n)
  BY <1>2, <1>3, <1>4 DEF ValueOf
<1> QED BY <1>6, <1>7 DEF d, V

(* A number is below the product of its radices.                           *)
LEMMA ValueRange ==
  ASSUME NEW n, NEW f, NEW P, Radices(f, P, n),
         NEW d, IsDigits(d, f, n), NEW V, ValueOf(V, d, P, n)
  PROVE  \A k \in 0 .. n : V[k] \in 0 .. P[k] - 1
<1> DEFINE F == {k \in 0 .. n : V[k] \notin 0 .. P[k] - 1}
<1> SUFFICES ASSUME F # {} PROVE FALSE
  OBVIOUS
<1>1. n \in Nat
  BY DEF Radices
<1>2. PICK k \in F : \A j \in F : k <= j
  <2>1. F \subseteq Nat
    BY <1>1
  <2> HIDE DEF F
  <2> QED BY <2>1, LeastExists
<1>3. 0 \notin F
  BY <1>1 DEF Radices, ValueOf
<1>4. k \in 1 .. n /\ k - 1 \in 0 .. n /\ k - 1 \notin F
  BY <1>1, <1>2, <1>3
<1>5. PICK p \in Nat \ {0} : p = P[k - 1]
  BY <1>4 DEF Radices
<1>6. PICK g \in Nat \ {0} : g = f[k]
  BY <1>4 DEF Radices
<1>7. PICK v \in 0 .. p - 1 : v = V[k - 1]
  BY <1>4, <1>5
<1>8. PICK c \in 0 .. g - 1 : c = d[k]
  BY <1>4, <1>6 DEF IsDigits
<1>9. c * p + v \in 0 .. g * p - 1
  BY TwoDigits
<1>10. V[k] = v + c * p /\ P[k] = p * g
  BY <1>4, <1>5, <1>6, <1>7, <1>8 DEF Radices, ValueOf
<1>11. v + c * p = c * p + v /\ g * p = p * g
  BY <1>9
<1>12. V[k] \in 0 .. P[k] - 1
  BY ONLY <1>9, <1>10, <1>11, Zenon
<1> QED BY <1>2, <1>12

(* Only one list of digits has a value.                                    *)
LEMMA ValueUnique ==
  ASSUME NEW n, NEW f, NEW P, Radices(f, P, n),
         NEW d, IsDigits(d, f, n), NEW V, ValueOf(V, d, P, n),
         NEW e, IsDigits(e, f, n), NEW W, ValueOf(W, e, P, n), V[n] = W[n]
  PROVE  \A i \in 1 .. n : d[i] = e[i]
<1>1. n \in Nat
  BY DEF Radices
<1>2. ASSUME NEW k \in 1 .. n, V[k] = W[k]
      PROVE  d[k] = e[k] /\ V[k - 1] = W[k - 1]
  <2>1. k - 1 \in 0 .. n
    BY <1>1
  <2>2. PICK p \in Nat \ {0} : p = P[k - 1]
    BY <2>1 DEF Radices
  <2>3. V[k - 1] \in 0 .. p - 1 /\ W[k - 1] \in 0 .. p - 1
    BY <2>1, <2>2, ValueRange
  <2>4. PICK v \in 0 .. p - 1 : v = V[k - 1]
    BY <2>3
  <2>5. PICK w \in 0 .. p - 1 : w = W[k - 1]
    BY <2>3
  <2>6. PICK b \in Nat : b = d[k]
    BY DEF IsDigits
  <2>7. PICK c \in Nat : c = e[k]
    BY DEF IsDigits
  <2>8. V[k] = v + b * p /\ W[k] = w + c * p
    BY <2>2, <2>4, <2>5, <2>6, <2>7 DEF ValueOf
  <2>9. v + b * p = b * p + v /\ w + c * p = c * p + w
    OBVIOUS
  <2>10. b * p + v = c * p + w
    BY ONLY <1>2, <2>8, <2>9, Zenon
  <2>11. b = c /\ v = w
    BY <2>10, DigitsAreUnique
  <2> QED BY <2>4, <2>5, <2>6, <2>7, <2>11
<1>3. \A k \in 0 .. n : V[k] = W[k]
  <2> DEFINE F == {j \in 0 .. n : V[n - j] # W[n - j]}
  <2>1. F = {}
    <3> SUFFICES ASSUME F # {} PROVE FALSE
      OBVIOUS
    <3>1. PICK j \in F : \A i \in F : j <= i
      <4>1. F \subseteq Nat
        BY <1>1
      <4> HIDE DEF F
      <4> QED BY <4>1, LeastExists
    <3>2. 0 \notin F
      BY <1>1
    <3>3. j \in 1 .. n /\ j - 1 \in 0 .. n /\ j - 1 \notin F
      BY <1>1, <3>1, <3>2
    <3>4. n - (j - 1) \in 1 .. n /\ (n - (j - 1)) - 1 = n - j
      BY <1>1, <3>3
    <3>5. V[n - (j - 1)] = W[n - (j - 1)]
      BY <3>3
    <3>6. V[n - j] = W[n - j]
      BY <1>2, <3>4, <3>5
    <3> QED BY <3>1, <3>6
  <2>2. \A k \in 0 .. n : n - k \in 0 .. n /\ n - (n - k) = k
    BY <1>1
  <2> QED BY <2>1, <2>2
<1>4. \A k \in 1 .. n : k \in 0 .. n
  BY <1>1
<1> QED BY <1>2, <1>3, <1>4

(* A number with no smaller digit is no smaller.                           *)
LEMMA ValueOrder ==
  ASSUME NEW n, NEW f, NEW P, Radices(f, P, n),
         NEW d, IsDigits(d, f, n), NEW V, ValueOf(V, d, P, n),
         NEW e, IsDigits(e, f, n), NEW W, ValueOf(W, e, P, n),
         \A i \in 1 .. n : d[i] <= e[i]
  PROVE  V[n] <= W[n]
<1>1. n \in Nat
  BY DEF Radices
<1> DEFINE F == {k \in 0 .. n : ~ (V[k] <= W[k])}
<1>2. F = {}
  <2> SUFFICES ASSUME F # {} PROVE FALSE
    OBVIOUS
  <2>1. PICK k \in F : \A j \in F : k <= j
    <3>1. F \subseteq Nat
      BY <1>1
    <3> HIDE DEF F
    <3> QED BY <3>1, LeastExists
  <2>2. 0 \notin F
    BY <1>1 DEF ValueOf
  <2>3. k \in 1 .. n /\ k - 1 \in 0 .. n /\ k - 1 \notin F
    BY <1>1, <2>1, <2>2
  <2>4. PICK p \in Nat : p = P[k - 1]
    BY <2>3 DEF Radices
  <2>5. PICK b \in Nat : b = d[k]
    BY <2>3 DEF IsDigits
  <2>6. PICK c \in Nat : c = e[k]
    BY <2>3 DEF IsDigits
  <2>7. b <= c
    BY <2>3, <2>5, <2>6
  <2>8. b * p \in Nat /\ c * p \in Nat /\ b * p <= c * p
    BY <2>7, ProductOrder
  <2>9. PICK v \in Nat : v = V[k - 1]
    BY <2>3 DEF ValueOf
  <2>10. PICK w \in Nat : w = W[k - 1]
    BY <2>3 DEF ValueOf
  <2>11. v <= w
    BY <2>3, <2>9, <2>10
  <2>12. V[k] = v + b * p /\ W[k] = w + c * p
    BY <2>3, <2>4, <2>5, <2>6, <2>9, <2>10 DEF ValueOf
  <2>13. PICK x \in Nat : x = b * p
    BY <2>8
  <2>14. PICK y \in Nat : y = c * p
    BY <2>8
  <2>15. v + x <= w + y
    BY <2>8, <2>11, <2>13, <2>14
  <2> QED BY <2>1, <2>12, <2>13, <2>14, <2>15
<1>3. n \in 0 .. n
  BY <1>1
<1> QED BY <1>2, <1>3

(* The greatest number is the one with the greatest digits.                *)
LEMMA ValueLast ==
  ASSUME NEW n, NEW f, NEW P, Radices(f, P, n),
         NEW d, IsDigits(d, f, n), NEW V, ValueOf(V, d, P, n)
  PROVE  V[n] = P[n] - 1 <=> \A i \in 1 .. n : d[i] = f[i] - 1
<1>1. n \in Nat
  BY DEF Radices
<1> DEFINE e == [i \in 1 .. n |-> f[i] - 1]
           W == [k \in 0 .. n |-> P[k] - 1]
<1>2. \A i \in 1 .. n : f[i] \in Nat \ {0} /\ f[i] - 1 \in Nat
  BY DEF Radices
<1>3. IsDigits(e, f, n)
  BY <1>2 DEF IsDigits
<1>4. \A k \in 0 .. n : P[k] \in Nat \ {0} /\ P[k] - 1 \in Nat
  BY DEF Radices
<1>5. ASSUME NEW k \in 1 .. n PROVE W[k] = W[k - 1] + e[k] * P[k - 1]
  <2>1. k - 1 \in 0 .. n /\ k \in 0 .. n
    BY <1>1
  <2>2. PICK p \in Nat \ {0} : p = P[k - 1]
    BY <2>1, <1>4
  <2>3. PICK c \in Nat : c = f[k] - 1
    BY <1>2
  <2>4. f[k] = c + 1
    BY <1>2, <2>3
  <2>5. P[k] = p * (c + 1)
    BY <2>2, <2>4 DEF Radices
  <2>6. p * (c + 1) - 1 = (p - 1) + c * p
    BY <2>2, <2>3
  <2>7. W[k] = P[k] - 1 /\ W[k - 1] = p - 1 /\ e[k] = c
    BY <2>1, <2>2, <2>3
  <2> HIDE DEF W, e
  <2> QED BY <2>2, <2>5, <2>6, <2>7
<1>6. W[0] = 0 /\ W \in [0 .. n -> Nat]
  BY <1>1, <1>4 DEF Radices
<1>7. ValueOf(W, e, P, n)
  <2> HIDE DEF W, e
  <2> QED BY <1>5, <1>6 DEF ValueOf
<1>8. W[n] = P[n] - 1
  BY <1>1
<1>9. \A i \in 1 .. n : e[i] = f[i] - 1
  OBVIOUS
<1> HIDE DEF W, e
<1>10. ASSUME V[n] = W[n] PROVE \A i \in 1 .. n : d[i] = e[i]
  BY <1>3, <1>7, <1>10, ValueUnique
<1>11. ASSUME \A i \in 1 .. n : d[i] = e[i] PROVE V[n] = W[n]
  <2>1. \A i \in 1 .. n : d[i] <= e[i] /\ e[i] <= d[i]
    BY <1>11 DEF IsDigits
  <2>2. V[n] <= W[n]
    BY <1>3, <1>7, <2>1, ValueOrder
  <2>3. W[n] <= V[n]
    BY <1>3, <1>7, <2>1, ValueOrder
  <2>4. V[n] \in Nat /\ W[n] \in Nat
    BY <1>1, <1>6 DEF ValueOf
  <2> QED BY <2>2, <2>3, <2>4
<1> QED BY <1>8, <1>9, <1>10, <1>11

(* Every list of digits has a value.                                       *)
LEMMA ValueExists ==
  ASSUME NEW n, NEW f, NEW P, Radices(f, P, n), NEW d, IsDigits(d, f, n)
  PROVE  \E V : ValueOf(V, d, P, n)
<1>1. n \in Nat
  BY DEF Radices
<1> DEFINE g == [i \in 1 .. n |-> d[i] * P[i - 1]]
           A == 1 .. n
           V == [k \in 0 .. n |-> SumFunctionOnSet(g, A \cap 1 .. k)]
<1>2. ASSUME NEW i \in 1 .. n PROVE d[i] * P[i - 1] \in Nat
  <2>1. i - 1 \in 0 .. n
    BY <1>1
  <2>2. PICK p \in Nat : p = P[i - 1]
    BY <2>1 DEF Radices
  <2>3. PICK c \in Nat : c = d[i]
    BY DEF IsDigits
  <2> QED BY <2>2, <2>3
<1>3. g \in [1 .. n -> Nat] /\ g \in [1 .. n -> Int] /\ \A k \in 1 .. n : g[k] = d[k] * P[k - 1]
  BY <1>2
<1> HIDE DEF g
<1>4. /\ SumFunctionOnSet(g, A \cap 1 .. 0) = 0
      /\ \A k \in (1 .. n) \cap A :
           SumFunctionOnSet(g, A \cap 1 .. k) = SumFunctionOnSet(g, A \cap 1 .. k - 1) + g[k]
  <2>1. g \in [1 .. n -> Int]
    BY <1>3
  <2> HIDE DEF A
  <2> QED BY <1>1, <2>1, SumOfPrefix
<1>5. V[0] = 0 /\ \A k \in 1 .. n : V[k] = V[k - 1] + g[k]
  <2>1. 0 \in 0 .. n /\ \A k \in 1 .. n : k \in 0 .. n /\ k - 1 \in 0 .. n /\ k \in (1 .. n) \cap A
    BY <1>1
  <2> HIDE DEF A
  <2> QED BY <1>4, <2>1
<1>6. V = [k \in 0 .. n |-> V[k]]
  OBVIOUS
<1> HIDE DEF V
<1>7. \A k \in 0 .. n : V[k] \in Nat
  <2> DEFINE F == {k \in 0 .. n : V[k] \notin Nat}
  <2> SUFFICES ASSUME F # {} PROVE FALSE
    OBVIOUS
  <2>1. PICK k \in F : \A j \in F : k <= j
    <3>1. F \subseteq Nat
      BY <1>1
    <3> HIDE DEF F
    <3> QED BY <3>1, LeastExists
  <2>2. k \in 1 .. n /\ k - 1 \in 0 .. n /\ k - 1 \notin F
    BY <1>1, <1>5, <2>1
  <2>3. V[k - 1] \in Nat /\ g[k] \in Nat
    BY <1>3, <2>2
  <2> QED BY <1>5, <2>2, <2>3
<1>8. ValueOf(V, d, P, n)
  BY <1>3, <1>5, <1>6, <1>7 DEF ValueOf
<1> QED BY <1>8

(* The value of a list of digits is the number that has them.              *)
LEMMA DigitsOfValue ==
  ASSUME NEW n, NEW f, NEW P, Radices(f, P, n),
         NEW d, IsDigits(d, f, n), NEW V, ValueOf(V, d, P, n)
  PROVE  /\ V[n] \in 0 .. P[n] - 1
         /\ \A i \in 1 .. n : (V[n] \div P[i - 1]) % f[i] = d[i]
<1>1. n \in Nat /\ n \in 0 .. n
  BY DEF Radices
<1>2. V[n] \in 0 .. P[n] - 1
  BY <1>1, ValueRange
<1>3. PICK p \in Nat \ {0} : p = P[n]
  BY <1>1 DEF Radices
<1>4. PICK s \in 0 .. p - 1 : s = V[n]
  BY <1>2, <1>3
<1> DEFINE e == [i \in 1 .. n |-> (s \div P[i - 1]) % f[i]]
           W == [k \in 0 .. n |-> s % P[k]]
<1>5. IsDigits(e, f, n) /\ ValueOf(W, e, P, n)
  BY StepIsValue
<1>6. W[n] = s % p
  BY <1>1, <1>3
<1>7. s % p = s
  BY <1>4
<1>8. \A i \in 1 .. n : e[i] = (s \div P[i - 1]) % f[i]
  OBVIOUS
<1> HIDE DEF e, W
<1>9. \A i \in 1 .. n : d[i] = e[i]
  BY <1>4, <1>5, <1>6, <1>7, ValueUnique
<1> QED BY <1>2, <1>4, <1>8, <1>9

(* A number with no smaller digit than another's is no smaller.            *)
LEMMA StepOrder ==
  ASSUME NEW n, NEW f, NEW P, Radices(f, P, n),
         NEW s \in 0 .. P[n] - 1, NEW t \in 0 .. P[n] - 1,
         \A i \in 1 .. n : (s \div P[i - 1]) % f[i] <= (t \div P[i - 1]) % f[i]
  PROVE  s <= t
<1>1. n \in Nat /\ n \in 0 .. n
  BY DEF Radices
<1>2. PICK p \in Nat \ {0} : p = P[n]
  BY <1>1 DEF Radices
<1>3. s \in 0 .. p - 1 /\ t \in 0 .. p - 1 /\ s \in Nat /\ t \in Nat
  BY <1>2
<1> DEFINE d(x) == [i \in 1 .. n |-> (x \div P[i - 1]) % f[i]]
           V(x) == [k \in 0 .. n |-> x % P[k]]
<1>4. /\ IsDigits(d(s), f, n) /\ ValueOf(V(s), d(s), P, n)
      /\ IsDigits(d(t), f, n) /\ ValueOf(V(t), d(t), P, n)
  BY <1>3, StepIsValue
<1>5. V(s)[n] = s /\ V(t)[n] = t
  <2>1. V(s)[n] = s % p /\ V(t)[n] = t % p
    BY <1>1, <1>2
  <2>2. s % p = s /\ t % p = t
    BY <1>3
  <2> QED BY <2>1, <2>2
<1>6. \A i \in 1 .. n : d(s)[i] <= d(t)[i]
  OBVIOUS
<1> HIDE DEF d, V
<1>7. V(s)[n] <= V(t)[n]
  BY <1>4, <1>6, ValueOrder
<1> QED BY <1>5, <1>7

(* A number has all digits zero if and only if it is zero.                 *)
LEMMA ValueFirst ==
  ASSUME NEW n, NEW f, NEW P, Radices(f, P, n),
         NEW d, IsDigits(d, f, n), NEW V, ValueOf(V, d, P, n)
  PROVE  V[n] = 0 <=> \A i \in 1 .. n : d[i] = 0
<1>1. n \in Nat /\ n \in 0 .. n
  BY DEF Radices
<1>2. \A i \in 1 .. n : f[i] \in Nat \ {0} /\ P[i - 1] \in Nat
  <2>1. \A i \in 1 .. n : i - 1 \in 0 .. n
    BY <1>1
  <2> QED BY <2>1 DEF Radices
<1> DEFINE z == [i \in 1 .. n |-> 0]
           Z == [k \in 0 .. n |-> 0]
<1>3. IsDigits(z, f, n)
  BY <1>2 DEF IsDigits
<1>4. ValueOf(Z, z, P, n)
  <2>1. \A p \in Nat : 0 * p = 0
    OBVIOUS
  <2>2. \A k \in 1 .. n : z[k] * P[k - 1] = 0
    BY <1>2, <2>1
  <2>3. \A k \in 1 .. n : Z[k] = Z[k - 1] + z[k] * P[k - 1]
    <3>1. \A k \in 1 .. n : k \in 0 .. n /\ k - 1 \in 0 .. n
      BY <1>1
    <3>2. \A k \in 1 .. n : Z[k] = 0 /\ Z[k - 1] = 0
      BY <3>1
    <3> HIDE DEF Z, z
    <3> QED BY <2>2, <3>2
  <2>4. Z \in [0 .. n -> Nat] /\ Z[0] = 0
    BY <1>1
  <2> HIDE DEF Z, z
  <2> QED BY <2>3, <2>4 DEF ValueOf
<1>5. Z[n] = 0 /\ \A i \in 1 .. n : z[i] = 0
  BY <1>1
<1> HIDE DEF z, Z
<1>6. ASSUME V[n] = 0 PROVE \A i \in 1 .. n : d[i] = 0
  <2>1. V[n] = Z[n]
    BY <1>5, <1>6
  <2>2. \A i \in 1 .. n : d[i] = z[i]
    BY <1>3, <1>4, <2>1, ValueUnique
  <2> QED BY <1>5, <2>2
<1>7. ASSUME \A i \in 1 .. n : d[i] = 0 PROVE V[n] = 0
  <2>1. \A i \in 1 .. n : d[i] <= z[i]
    BY <1>5, <1>7
  <2>2. V[n] <= Z[n]
    BY <1>3, <1>4, <2>1, ValueOrder
  <2>3. V[n] \in Nat
    BY <1>1 DEF ValueOf
  <2> QED BY <1>5, <2>2, <2>3
<1> QED BY <1>6, <1>7

-----------------------------------------------------------------------------
(* The order of numbers is that of the greatest position at which their    *)
(* digits differ.                                                          *)

LexBefore(a, b, n) == \E i \in 1 .. n : a[i] < b[i] /\ \A j \in i + 1 .. n : a[j] = b[j]

(* Of two different rows of digits one comes first.                        *)
LEMMA LexTotal ==
  ASSUME NEW n \in Nat, NEW a \in [1 .. n -> Nat], NEW b \in [1 .. n -> Nat], a # b
  PROVE  LexBefore(a, b, n) \/ LexBefore(b, a, n)
<1> DEFINE D == {i \in 1 .. n : a[i] # b[i]}
<1>1. D # {} /\ D \subseteq 1 .. n
  OBVIOUS
<1>2. PICK i \in D : \A j \in D : i >= j
  <2> HIDE DEF D
  <2> QED BY <1>1, GreatestExists
<1>3. i \in 1 .. n /\ a[i] # b[i] /\ a[i] \in Nat /\ b[i] \in Nat
  OBVIOUS
<1>4. ASSUME NEW j \in i + 1 .. n PROVE a[j] = b[j]
  <2>1. j \in 1 .. n /\ ~(i >= j)
    BY <1>3
  <2> QED BY <1>2, <2>1
<1> HIDE DEF D
<1>5. CASE a[i] < b[i]
  BY <1>3, <1>4, <1>5 DEF LexBefore
<1>6. CASE ~(a[i] < b[i])
  <2>1. b[i] < a[i]
    BY <1>3, <1>6
  <2> QED BY <1>3, <1>4, <2>1 DEF LexBefore
<1> QED BY <1>5, <1>6

(* A number is less than another when its digits come first.               *)
LEMMA ValueLex ==
  ASSUME NEW n, NEW f, NEW P, Radices(f, P, n),
         NEW d, IsDigits(d, f, n), NEW V, ValueOf(V, d, P, n),
         NEW e, IsDigits(e, f, n), NEW W, ValueOf(W, e, P, n),
         LexBefore(d, e, n)
  PROVE  V[n] < W[n]
<1>1. n \in Nat
  BY DEF Radices
<1>2. PICK i \in 1 .. n : d[i] < e[i] /\ \A j \in i + 1 .. n : d[j] = e[j]
  BY DEF LexBefore
<1>3. \A k \in 1 .. n : /\ k \in 0 .. n /\ k - 1 \in 0 .. n
                        /\ V[k] \in Nat /\ V[k - 1] \in Nat /\ W[k] \in Nat /\ W[k - 1] \in Nat
                        /\ d[k] \in Nat /\ e[k] \in Nat /\ P[k - 1] \in Nat \ {0}
                        /\ V[k] = V[k - 1] + d[k] * P[k - 1]
                        /\ W[k] = W[k - 1] + e[k] * P[k - 1]
  <2>1. \A k \in 1 .. n : k \in 0 .. n /\ k - 1 \in 0 .. n
    BY <1>1
  <2> QED BY <2>1 DEF ValueOf, Radices, IsDigits
<1>4. V[i] < W[i]
  <2>1. PICK p \in Nat \ {0} : p = P[i - 1]
    BY <1>3
  <2>2. V[i - 1] <= p - 1
    <3>1. V[i - 1] \in 0 .. P[i - 1] - 1
      BY <1>3, ValueRange
    <3> QED BY <1>3, <2>1, <3>1
  <2>3. PICK a \in Nat, b \in Nat : a = d[i] /\ b = e[i] /\ a + 1 <= b
    BY <1>2, <1>3
  <2>4. (a + 1) * p <= b * p /\ (a + 1) * p \in Nat /\ b * p \in Nat /\ a * p \in Nat
    <3>1. a + 1 \in Nat /\ a <= a + 1
      BY <2>3
    <3> QED BY <2>1, <2>3, <3>1, ProductOrder
  <2>5. (a + 1) * p = a * p + p
    BY <2>1, <2>3
  <2>6. PICK x \in Nat, y \in Nat : x = a * p /\ y = b * p /\ x + p <= y
    BY <2>4, <2>5
  <2>7. V[i] = V[i - 1] + x /\ W[i] = W[i - 1] + y
    BY <1>3, <2>1, <2>3, <2>6
  <2> QED BY <1>3, <2>1, <2>2, <2>6, <2>7
<1> DEFINE F == {k \in i .. n : ~(V[k] < W[k])}
<1>5. F = {}
  <2> SUFFICES ASSUME F # {} PROVE FALSE
    OBVIOUS
  <2>1. PICK k \in F : \A j \in F : k <= j
    <3>1. F \subseteq Nat
      BY <1>1, <1>2
    <3> HIDE DEF F
    <3> QED BY <3>1, LeastExists
  <2>2. k \in 1 .. n /\ k # i
    BY <1>1, <1>2, <1>4
  <2>3. k - 1 \in i .. n /\ k \in i + 1 .. n /\ ~(k <= k - 1)
    BY <1>1, <1>2, <2>2
  <2>4. V[k - 1] < W[k - 1]
    BY <2>1, <2>3
  <2>5. d[k] = e[k]
    BY <1>2, <2>3
  <2>6. PICK x \in Nat : x = d[k] * P[k - 1]
    <3>1. \A a, b \in Nat : a * b \in Nat
      OBVIOUS
    <3> QED BY <1>3, <2>2, <3>1
  <2>7. V[k] = V[k - 1] + x /\ W[k] = W[k - 1] + x
    BY <1>3, <2>2, <2>5, <2>6
  <2>8. V[k] < W[k]
    BY <1>3, <2>2, <2>4, <2>6, <2>7
  <2> QED BY <2>1, <2>8
<1>6. n \in i .. n
  BY <1>1, <1>2
<1> QED BY <1>5, <1>6

(* Numbers that agree in their low digits are equal modulo their weight,   *)
(* and those that agree in their high digits when divided by it.           *)
LEMMA LowDigits ==
  ASSUME NEW n, NEW f, NEW P, Radices(f, P, n), NEW k \in 0 .. n, NEW s \in Nat, NEW t \in Nat,
         \A i \in 1 .. k : (s \div P[i - 1]) % f[i] = (t \div P[i - 1]) % f[i]
  PROVE  s % P[k] = t % P[k]
<1> DEFINE d == [i \in 1 .. n |-> (s \div P[i - 1]) % f[i]]
           e == [i \in 1 .. n |-> (t \div P[i - 1]) % f[i]]
           V == [j \in 0 .. n |-> s % P[j]]
           W == [j \in 0 .. n |-> t % P[j]]
           F == {j \in 0 .. k : V[j] # W[j]}
<1>1. n \in Nat
  BY DEF Radices
<1>2. ValueOf(V, d, P, n) /\ ValueOf(W, e, P, n)
  BY StepIsValue
<1>3. \A i \in 1 .. k : i \in 1 .. n /\ d[i] = e[i]
  BY <1>1
<1>4. V[k] = s % P[k] /\ W[k] = t % P[k]
  OBVIOUS
<1> HIDE DEF d, e, V, W
<1>5. F = {}
  <2> SUFFICES ASSUME F # {} PROVE FALSE
    OBVIOUS
  <2>1. PICK j \in F : \A l \in F : j <= l
    <3>1. F \subseteq Nat
      OBVIOUS
    <3> HIDE DEF F
    <3> QED BY <3>1, LeastExists
  <2>2. j # 0
    BY <1>2 DEF ValueOf
  <2>3. j \in 1 .. k /\ j - 1 \in 0 .. k /\ ~(j <= j - 1)
    BY <2>2
  <2>4. V[j - 1] = W[j - 1]
    BY <2>1, <2>3
  <2>5. /\ V[j] = V[j - 1] + d[j] * P[j - 1]
        /\ W[j] = W[j - 1] + e[j] * P[j - 1]
    BY <1>2, <1>3, <2>3 DEF ValueOf
  <2> QED BY <1>3, <2>1, <2>3, <2>4, <2>5
<1> QED BY <1>4, <1>5

(* Numbers whose high digits agree have the same quotient.                 *)
LEMMA HighDigits ==
  ASSUME NEW n, NEW f, NEW P, Radices(f, P, n), NEW k \in 0 .. n,
         NEW s \in 0 .. P[n] - 1, NEW t \in 0 .. P[n] - 1,
         \A i \in k + 1 .. n : (s \div P[i - 1]) % f[i] = (t \div P[i - 1]) % f[i]
  PROVE  s \div P[k] = t \div P[k]
<1> DEFINE d == [i \in 1 .. n |-> (s \div P[i - 1]) % f[i]]
           e == [i \in 1 .. n |-> (t \div P[i - 1]) % f[i]]
           V == [j \in 0 .. n |-> s % P[j]]
           W == [j \in 0 .. n |-> t % P[j]]
           F == {j \in k .. n : V[j] - V[k] # W[j] - W[k]}
<1>1. n \in Nat /\ P[n] \in Nat \ {0} /\ s \in Nat /\ t \in Nat
  BY DEF Radices
<1>2. /\ ValueOf(V, d, P, n) /\ ValueOf(W, e, P, n)
      /\ IsDigits(d, f, n) /\ IsDigits(e, f, n)
  BY <1>1, StepIsValue
<1>3. \A i \in k + 1 .. n : i \in 1 .. n /\ d[i] = e[i]
  BY <1>1
<1>4. /\ V[k] = s % P[k] /\ W[k] = t % P[k]
      /\ V[n] = s /\ W[n] = t
  <2>1. n \in 0 .. n
    BY <1>1
  <2>2. V[n] = s % P[n] /\ W[n] = t % P[n]
    BY <2>1
  <2>3. \A p \in Nat \ {0} : \A x \in 0 .. p - 1 : x % p = x
    OBVIOUS
  <2> QED BY <1>1, <2>2, <2>3
<1> HIDE DEF d, e, V, W
<1>5. \A j \in 0 .. n : V[j] \in Nat /\ W[j] \in Nat
  BY <1>2 DEF ValueOf
<1>6. F = {}
  <2> SUFFICES ASSUME F # {} PROVE FALSE
    OBVIOUS
  <2>1. PICK j \in F : \A l \in F : j <= l
    <3>1. F \subseteq Nat
      OBVIOUS
    <3> HIDE DEF F
    <3> QED BY <3>1, LeastExists
  <2>2. j # k
    BY <1>5
  <2>3. j \in k + 1 .. n /\ j - 1 \in k .. n /\ ~(j <= j - 1) /\ j \in 0 .. n /\ j - 1 \in 0 .. n
    BY <1>1, <2>2
  <2>4. V[j - 1] - V[k] = W[j - 1] - W[k]
    BY <2>1, <2>3
  <2>5. PICK x \in Nat : x = d[j] * P[j - 1]
    <3>1. d[j] \in Nat /\ P[j - 1] \in Nat
      BY <1>2, <1>3, <2>3 DEF IsDigits, Radices
    <3>2. \A a, b \in Nat : a * b \in Nat
      OBVIOUS
    <3> QED BY <3>1, <3>2
  <2>6. V[j] = V[j - 1] + x /\ W[j] = W[j - 1] + x
    BY <1>2, <1>3, <2>3, <2>5 DEF ValueOf
  <2> QED BY <1>5, <2>1, <2>3, <2>4, <2>6
<1>7. s - (s % P[k]) = t - (t % P[k])
  <2>1. n \in k .. n
    BY <1>1
  <2> QED BY <1>4, <1>6, <2>1
<1>8. PICK p \in Nat \ {0} : p = P[k]
  BY DEF Radices
<1>9. \A x \in Nat : /\ x \div p \in Nat /\ x % p \in Nat
                     /\ x = p * (x \div p) + (x % p)
  OBVIOUS
<1> DEFINE q == s \div p
           r == t \div p
<1>10. q \in Nat /\ r \in Nat /\ q * p + 0 = r * p + 0
  <2>1. PICK a \in Nat, b \in Nat, c \in Nat, g \in Nat :
          a = q /\ b = s % p /\ c = r /\ g = t % p
    BY <1>1, <1>9
  <2>2. s = p * a + b /\ t = p * c + g
    BY <1>1, <1>9, <2>1
  <2>3. p * a = a * p /\ p * c = c * p /\ a * p \in Nat /\ c * p \in Nat
    OBVIOUS
  <2>4. a * p = c * p
    BY <1>7, <1>8, <2>1, <2>2, <2>3
  <2> HIDE DEF q, r
  <2> QED BY <2>1, <2>3, <2>4
<1>11. q = r
  <2> HIDE DEF q, r
  <2>1. 0 \in 0 .. p - 1
    OBVIOUS
  <2> QED BY <1>10, <2>1, DigitsAreUnique
<1> QED BY <1>8, <1>11

-----------------------------------------------------------------------------
(* Digits put together from the left, each time multiplying what there is. *)

Horner(it, d, f, n) ==
  it = [s \in SUBSET (1 .. n) |-> IF s = {} THEN 0 ELSE it[s \ {Max(s)}] * f[Max(s)] + d[Max(s)]]

(* Digits can be put together from the outermost in.                       *)
LEMMA HornerExists ==
  ASSUME NEW n \in Nat, NEW f, NEW d
  PROVE  \E it : Horner(it, d, f, n)
<1> DEFINE F == {k \in 0 .. n : ~ \E it : Horner(it, d, f, k)}
<1> SUFFICES ASSUME F # {} PROVE FALSE
  <2>1. n \notin F => \E it : Horner(it, d, f, n)
    OBVIOUS
  <2> QED BY <2>1
<1>1. PICK k \in F : \A j \in F : k <= j
  <2>1. F \subseteq Nat
    OBVIOUS
  <2> HIDE DEF F
  <2> QED BY <2>1, LeastExists
<1>2. k \in 0 .. n
  OBVIOUS
<1>3. CASE k = 0
  <2>1. SUBSET (1 .. 0) = {{}}
    OBVIOUS
  <2>2. Horner([s \in SUBSET (1 .. 0) |-> 0], d, f, 0)
    BY <2>1 DEF Horner
  <2> QED BY <1>3, <2>2
<1>4. CASE k # 0
  <2>1. k - 1 \in 0 .. n /\ k - 1 \notin F /\ k \in 1 .. n
    BY <1>1, <1>2, <1>4
  <2>2. PICK h : Horner(h, d, f, k - 1)
    BY <2>1
  <2> DEFINE it == [s \in SUBSET (1 .. k) |->
                      IF s = {} THEN 0
                      ELSE IF k \in s THEN h[s \ {k}] * f[k] + d[k] ELSE h[s]]
  <2>3. ASSUME NEW s \in SUBSET (1 .. k), s # {}
        PROVE  it[s] = it[s \ {Max(s)}] * f[Max(s)] + d[Max(s)]
    <3>1. k \in Nat /\ k - 1 \in Nat
      BY <2>1
    <3>2. Max(s) \in s /\ \A i \in s : Max(s) >= i
      BY <2>3, <3>1, GreatestExists
    <3>3. CASE k \in s
      <4>1. Max(s) = k
        <5>1. Max(s) >= k /\ Max(s) \in 1 .. k
          BY <3>2, <3>3
        <5> QED BY <3>1, <5>1
      <4>2. s \ {k} \in SUBSET (1 .. k - 1) /\ s \ {k} \in SUBSET (1 .. k) /\ k \notin s \ {k}
        BY <3>1
      <4>3. h[s \ {k}] = it[s \ {k}]
        <5>1. h[{}] = 0
          BY <2>2 DEF Horner
        <5> QED BY <4>2, <5>1
      <4> QED BY <2>3, <3>3, <4>1, <4>3
    <3>4. CASE k \notin s
      <4>1. s \in SUBSET (1 .. k - 1)
        BY <3>1, <3>4
      <4>2. h[s] = h[s \ {Max(s)}] * f[Max(s)] + d[Max(s)]
        BY <2>2, <2>3, <4>1 DEF Horner
      <4>3. it[s] = h[s]
        BY <2>3, <3>4
      <4> DEFINE r == s \ {Max(s)}
      <4>4. r \in SUBSET (1 .. k) /\ r \in SUBSET (1 .. k - 1) /\ k \notin r
        BY <3>4, <4>1
      <4>5. h[{}] = 0
        BY <2>2 DEF Horner
      <4>6. it[r] = h[r]
        <5> HIDE DEF r
        <5> QED BY <4>4, <4>5
      <4> QED BY <4>2, <4>3, <4>6
    <3> QED BY <3>3, <3>4
  <2>4. it[{}] = 0 /\ it = [s \in SUBSET (1 .. k) |-> it[s]]
    OBVIOUS
  <2>5. Horner(it, d, f, k)
    <3> HIDE DEF it
    <3>1. \A s \in SUBSET (1 .. k) :
            it[s] = IF s = {} THEN 0 ELSE it[s \ {Max(s)}] * f[Max(s)] + d[Max(s)]
      BY <2>3, <2>4
    <3> QED BY <2>4, <3>1 DEF Horner
  <2> QED BY <2>5
<1> QED BY <1>3, <1>4

(* What there is after each of them.                                       *)
HornerOf(h, d, f, n) ==
  /\ h \in [0 .. n -> Nat] /\ h[0] = 0
  /\ \A k \in 1 .. n : h[k] = h[k - 1] * f[k] + d[k]

(* Putting them together gives their number.                               *)
LEMMA HornerPrefixes ==
  ASSUME NEW n \in Nat, NEW f \in [1 .. n -> Nat \ {0}], NEW d, IsDigits(d, f, n),
         NEW it, Horner(it, d, f, n)
  PROVE  HornerOf([k \in 0 .. n |-> it[1 .. k]], d, f, n)
<1>1. it[1 .. 0] = 0
  <2>1. {} \in SUBSET (1 .. n) /\ 1 .. 0 = {}
    OBVIOUS
  <2> QED BY <2>1 DEF Horner
<1>2. ASSUME NEW k \in 1 .. n PROVE it[1 .. k] = it[1 .. k - 1] * f[k] + d[k]
  <2>1. 1 .. k \in SUBSET (1 .. n) /\ 1 .. k # {} /\ k \in Nat
    OBVIOUS
  <2>2. Max(1 .. k) \in 1 .. k /\ \A i \in 1 .. k : Max(1 .. k) >= i
    BY <2>1, GreatestExists
  <2>3. PICK m \in 1 .. k : m = Max(1 .. k) /\ m >= k
    <3>1. k \in 1 .. k
      BY <2>1
    <3> QED BY <2>2, <3>1
  <2>4. Max(1 .. k) = k
    BY <2>1, <2>3
  <2>5. (1 .. k) \ {k} = 1 .. k - 1
    BY <2>1
  <2>6. it[1 .. k] = it[(1 .. k) \ {Max(1 .. k)}] * f[Max(1 .. k)] + d[Max(1 .. k)]
    BY <2>1 DEF Horner
  <2> QED BY <2>4, <2>5, <2>6
<1>3. \A k \in 0 .. n : it[1 .. k] \in Nat
  <2> DEFINE F == {k \in 0 .. n : it[1 .. k] \notin Nat}
  <2> SUFFICES ASSUME F # {} PROVE FALSE
    OBVIOUS
  <2>1. PICK k \in F : \A j \in F : k <= j
    <3>1. F \subseteq Nat
      OBVIOUS
    <3> HIDE DEF F
    <3> QED BY <3>1, LeastExists
  <2>2. k \in 1 .. n
    BY <1>1
  <2>3. k - 1 \notin F /\ k - 1 \in 0 .. n
    BY <2>1, <2>2
  <2>4. PICK a \in Nat : a = it[1 .. k - 1]
    BY <2>3
  <2>5. PICK b \in Nat, c \in Nat : b = f[k] /\ c = d[k]
    BY <2>2 DEF IsDigits
  <2>6. a * b + c \in Nat
    OBVIOUS
  <2> QED BY <1>2, <2>2, <2>4, <2>5, <2>6
<1> QED BY <1>1, <1>2, <1>3 DEF HornerOf

(* They are one number for every choice of digits.                         *)
LEMMA HornerUnique ==
  ASSUME NEW n \in Nat, NEW f \in [1 .. n -> Nat \ {0}],
         NEW d, IsDigits(d, f, n), NEW h, HornerOf(h, d, f, n),
         NEW e, IsDigits(e, f, n), NEW g, HornerOf(g, e, f, n)
  PROVE  h[n] = g[n] <=> \A i \in 1 .. n : d[i] = e[i]
<1>1. /\ h[0] = 0 /\ g[0] = 0
      /\ \A k \in 0 .. n : h[k] \in Nat /\ g[k] \in Nat
      /\ \A k \in 1 .. n : h[k] = h[k - 1] * f[k] + d[k] /\ g[k] = g[k - 1] * f[k] + e[k]
  BY DEF HornerOf
<1>2. \A k \in 1 .. n : /\ k - 1 \in 0 .. n
                        /\ f[k] \in Nat \ {0} /\ d[k] \in 0 .. f[k] - 1 /\ e[k] \in 0 .. f[k] - 1
  BY DEF IsDigits
<1>3. \A k \in 1 .. n : h[k] = g[k] => h[k - 1] = g[k - 1] /\ d[k] = e[k]
  <2> SUFFICES ASSUME NEW k \in 1 .. n, h[k] = g[k]
               PROVE  h[k - 1] = g[k - 1] /\ d[k] = e[k]
    OBVIOUS
  <2>1. PICK b \in Nat \ {0}, p \in Nat, q \in Nat :
          b = f[k] /\ p = h[k - 1] /\ q = g[k - 1]
    BY <1>1, <1>2
  <2>2. PICK x \in 0 .. b - 1, y \in 0 .. b - 1 : x = d[k] /\ y = e[k]
    BY <1>2, <2>1
  <2>3. p * b + x = q * b + y
    BY <1>1, <2>1, <2>2
  <2>4. p = q /\ x = y
    BY <2>3, DigitsAreUnique
  <2> QED BY <2>1, <2>2, <2>4
<1>4. ASSUME h[n] = g[n] PROVE \A i \in 1 .. n : d[i] = e[i]
  <2> DEFINE F == {j \in 0 .. n : h[n - j] # g[n - j]}
  <2>1. F = {}
    <3> SUFFICES ASSUME F # {} PROVE FALSE
      OBVIOUS
    <3>1. PICK j \in F : \A l \in F : j <= l
      <4>1. F \subseteq Nat
        OBVIOUS
      <4> HIDE DEF F
      <4> QED BY <4>1, LeastExists
    <3>2. j # 0
      BY <1>4
    <3>3. /\ j - 1 \in 0 .. n /\ ~(j <= j - 1) /\ n - (j - 1) \in 1 .. n
          /\ (n - (j - 1)) - 1 = n - j
      BY <3>2
    <3>4. h[n - (j - 1)] = g[n - (j - 1)]
      BY <3>1, <3>3
    <3>5. h[n - j] = g[n - j]
      BY <1>3, <3>3, <3>4
    <3> QED BY <3>1, <3>5
  <2>2. \A i \in 1 .. n : n - i \in 0 .. n /\ n - (n - i) = i
    OBVIOUS
  <2>3. \A i \in 1 .. n : h[i] = g[i]
    BY <2>1, <2>2
  <2> QED BY <1>3, <2>3
<1>5. ASSUME \A i \in 1 .. n : d[i] = e[i] PROVE h[n] = g[n]
  <2> DEFINE F == {k \in 0 .. n : h[k] # g[k]}
  <2>1. F = {}
    <3> SUFFICES ASSUME F # {} PROVE FALSE
      OBVIOUS
    <3>1. PICK k \in F : \A l \in F : k <= l
      <4>1. F \subseteq Nat
        OBVIOUS
      <4> HIDE DEF F
      <4> QED BY <4>1, LeastExists
    <3>2. k # 0
      BY <1>1
    <3>3. k \in 1 .. n /\ k - 1 \in 0 .. n /\ ~(k <= k - 1)
      BY <3>2
    <3>4. h[k - 1] = g[k - 1]
      BY <3>1, <3>3
    <3>5. h[k] = g[k]
      BY <1>1, <1>5, <3>3, <3>4
    <3> QED BY <3>1, <3>5
  <2> QED BY <2>1
<1> QED BY <1>4, <1>5

-----------------------------------------------------------------------------
(* Loop nests.                                                             *)

(* The factors that count towards a product over dims, one per loop.       *)
FactorsOver(loops, dims) ==
  [i \in DOMAIN loops |-> IF loops[i].dim \in dims THEN loops[i].factor ELSE 1]

(* The products over dims of the loops inside the one after each position. *)
Weights(loops, dims) == [k \in 0 .. Len(loops) |-> Product(SubSeq(loops, 1, k), dims)]

Digits(step, loops) == [i \in DOMAIN loops |-> Digit(step, loops, i)]

(* What a nest is.                                                         *)
LEMMA NestIs ==
  ASSUME NEW loops \in Loops
  PROVE  /\ Len(loops) \in Nat /\ DOMAIN loops = 1 .. Len(loops)
         /\ \A i \in 1 .. Len(loops) : loops[i].dim \in Dims /\ loops[i].factor \in Nat \ {0}
         /\ \A dims : FactorsOver(loops, dims) \in [1 .. Len(loops) -> Nat \ {0}]
<1>1. Len(loops) \in Nat /\ DOMAIN loops = 1 .. Len(loops)
  BY DEF Loops
<1>2. ASSUME NEW i \in 1 .. Len(loops)
      PROVE  loops[i].dim \in Dims /\ loops[i].factor \in Nat \ {0}
  <2> DEFINE R == [dim : Dims, factor : Nat \ {0}]
  <2>1. loops \in Seq(R)
    BY DEF Loops
  <2>2. loops[i] \in R
    <3> HIDE DEF R
    <3> QED BY <2>1
  <2> QED BY <2>2
<1> QED BY <1>1, <1>2 DEF FactorsOver

(* The fold of Product is looked up in a table of products.                *)
LEMMA ProductIs ==
  ASSUME NEW loops \in Loops, NEW dims, NEW it,
         Products(it, FactorsOver(loops, dims), Len(loops))
  PROVE  Product(loops, dims) = it[1 .. Len(loops)]
<1> DEFINE n == Len(loops)
           T(h) == h = [s \in SUBSET (DOMAIN loops) |->
                          IF s = {} THEN 1
                          ELSE h[s \ {Max(s)}]
                                 * (IF loops[Max(s)].dim \in dims THEN loops[Max(s)].factor ELSE 1)]
           c == CHOOSE h : T(h)
<1>1. n \in Nat /\ DOMAIN loops = 1 .. n
  BY NestIs
<1>2. \A s \in SUBSET (1 .. n) :
        s # {} => FactorsOver(loops, dims)[Max(s)]
                    = IF loops[Max(s)].dim \in dims THEN loops[Max(s)].factor ELSE 1
  <2> SUFFICES ASSUME NEW s \in SUBSET (1 .. n), s # {}
               PROVE  FactorsOver(loops, dims)[Max(s)]
                        = IF loops[Max(s)].dim \in dims THEN loops[Max(s)].factor ELSE 1
    OBVIOUS
  <2>1. Max(s) \in 1 .. n
    BY <1>1, GreatestExists
  <2> QED BY <1>1, <2>1 DEF FactorsOver
<1>3. \A h : T(h) <=> Products(h, FactorsOver(loops, dims), n)
  BY <1>1, <1>2 DEF Products
<1>4. T(it)
  BY <1>3
<1>5. T(c)
  BY <1>4
<1>6. Products(c, FactorsOver(loops, dims), n)
  BY <1>3, <1>5
<1>7. c[1 .. n] = it[1 .. n]
  <2> HIDE DEF c, T
  <2> QED BY <1>1, <1>6, OneProduct
<1>8. Product(loops, dims) = c[1 .. n]
  BY <1>1 DEF Product, FoldLeft, MapThenFoldSet
<1> QED BY <1>7, <1>8

(* The inner loops of a nest are a nest.                                   *)
LEMMA PrefixIs ==
  ASSUME NEW loops \in Loops, NEW k \in 0 .. Len(loops)
  PROVE  /\ SubSeq(loops, 1, k) \in Loops /\ Len(SubSeq(loops, 1, k)) = k
         /\ \A i \in 1 .. k : SubSeq(loops, 1, k)[i] = loops[i]
<1> DEFINE R == [dim : Dims, factor : Nat \ {0}]
<1>1. loops \in Seq(R)
  BY DEF Loops
<1>2. /\ SubSeq(loops, 1, k) \in Seq(R) /\ Len(SubSeq(loops, 1, k)) = k
      /\ \A i \in 1 .. k : SubSeq(loops, 1, k)[i] = loops[i]
  <2> HIDE DEF R
  <2> QED BY <1>1
<1> QED BY <1>2 DEF Loops

(* The weights of the positions are the products of the factors before     *)
(* them, and that of the last one is the whole product.                    *)
LEMMA WeightsAre ==
  ASSUME NEW loops \in Loops, NEW dims
  PROVE  /\ Radices(FactorsOver(loops, dims), Weights(loops, dims), Len(loops))
         /\ Weights(loops, dims)[Len(loops)] = Product(loops, dims)
         /\ \A i \in DOMAIN loops :
              Weights(loops, dims)[i - 1] = Product(InsideOf(loops, i), dims)
<1> DEFINE n == Len(loops)
           f == FactorsOver(loops, dims)
<1>1. n \in Nat /\ DOMAIN loops = 1 .. n /\ f \in [1 .. n -> Nat \ {0}]
  BY NestIs
<1>2. PICK it : Products(it, f, n)
  <2> HIDE DEF f, n
  <2> QED BY <1>1, ProductsExist
<1> DEFINE P == [k \in 0 .. n |-> it[1 .. k]]
<1>3. Radices(f, P, n)
  <2> HIDE DEF f, n
  <2> QED BY <1>1, <1>2, ProductsOfPrefixes
<1>4. ASSUME NEW k \in 0 .. n PROVE Product(SubSeq(loops, 1, k), dims) = it[1 .. k]
  <2>1. PICK prefix \in Loops : /\ prefix = SubSeq(loops, 1, k) /\ Len(prefix) = k
                                /\ \A i \in 1 .. k : prefix[i] = loops[i]
    BY PrefixIs
  <2>2. PICK g : g = FactorsOver(prefix, dims)
    OBVIOUS
  <2>3. k \in Nat /\ k <= n
    BY <1>1
  <2>4. PICK h : Products(h, g, k)
    BY <2>3, ProductsExist
  <2>5. Product(prefix, dims) = h[1 .. k]
    BY <2>1, <2>2, <2>4, ProductIs
  <2>6. \A i \in 1 .. k : f[i] = g[i]
    <3>1. DOMAIN prefix = 1 .. k
      BY <2>1, NestIs
    <3>2. \A i \in 1 .. k : i \in DOMAIN loops
      BY <1>1, <2>3
    <3> QED BY <2>1, <2>2, <3>1, <3>2 DEF FactorsOver
  <2>7. \A s \in SUBSET (1 .. k) : it[s] = h[s]
    <3>1. n \in Nat
      BY <1>1
    <3> HIDE DEF f, n
    <3> QED BY ONLY <1>2, <2>3, <2>4, <2>6, <3>1, ProductsAreUnique, SMTT(60)
  <2>8. 1 .. k \in SUBSET (1 .. k)
    OBVIOUS
  <2> QED BY <2>1, <2>5, <2>7, <2>8
<1>5. P = Weights(loops, dims)
  BY <1>4 DEF Weights
<1>6. SubSeq(loops, 1, n) = loops
  <2> DEFINE R == [dim : Dims, factor : Nat \ {0}]
  <2>1. loops \in Seq(R)
    BY DEF Loops
  <2> HIDE DEF R
  <2> QED BY <2>1
<1>7. Weights(loops, dims)[n] = Product(loops, dims)
  <2>1. n \in 0 .. n
    BY <1>1
  <2>2. Weights(loops, dims)[n] = Product(SubSeq(loops, 1, n), dims)
    BY <2>1 DEF Weights
  <2> QED BY <1>6, <2>2
<1>8. \A i \in DOMAIN loops : Weights(loops, dims)[i - 1] = Product(InsideOf(loops, i), dims)
  BY <1>1 DEF Weights, InsideOf
<1> HIDE DEF P, f, n
<1>9. Radices(f, Weights(loops, dims), n)
  BY <1>3, <1>5
<1> QED BY <1>7, <1>8, <1>9 DEF f, n

(* A step's digits are those of its number in the radices of the loops,    *)
(* and there is a step for every choice of digits.                         *)
LEMMA StepsAre ==
  ASSUME NEW loops \in Loops
  PROVE  /\ Steps(loops) \in Nat \ {0}
         /\ \A step \in Nat :
              IsDigits(Digits(step, loops), FactorsOver(loops, Dims), Len(loops))
         /\ \A d : IsDigits(d, FactorsOver(loops, Dims), Len(loops)) =>
              \E step \in 0 .. Steps(loops) - 1 : Digits(step, loops) = d
         /\ \A s, t \in 0 .. Steps(loops) - 1 :
              (\A i \in DOMAIN loops : Digit(s, loops, i) <= Digit(t, loops, i)) => s <= t
<1> DEFINE n == Len(loops)
           f == FactorsOver(loops, Dims)
           P == Weights(loops, Dims)
<1>1. n \in Nat /\ DOMAIN loops = 1 .. n /\ \A i \in 1 .. n : f[i] = loops[i].factor
  BY NestIs DEF FactorsOver
<1>2. Radices(f, P, n) /\ P[n] = Steps(loops)
  BY WeightsAre DEF Steps
<1>3. \A step : \A i \in 1 .. n : Digit(step, loops, i) = (step \div P[i - 1]) % f[i]
  BY <1>1, WeightsAre DEF Digit, Steps
<1>4. \A step : Digits(step, loops) = [i \in 1 .. n |-> (step \div P[i - 1]) % f[i]]
  BY <1>1, <1>3 DEF Digits
<1> HIDE DEF n, f, P
<1>5. Steps(loops) \in Nat \ {0}
  BY <1>1, <1>2 DEF Radices
<1>6. ASSUME NEW step \in Nat PROVE IsDigits(Digits(step, loops), f, n)
  BY <1>2, <1>4, StepIsValue
<1>7. ASSUME NEW d, IsDigits(d, f, n)
      PROVE  \E step \in 0 .. Steps(loops) - 1 : Digits(step, loops) = d
  <2>1. PICK V : ValueOf(V, d, P, n)
    BY <1>2, <1>7, ValueExists
  <2>2. /\ V[n] \in 0 .. P[n] - 1
        /\ \A i \in 1 .. n : (V[n] \div P[i - 1]) % f[i] = d[i]
    BY <1>2, <1>7, <2>1, DigitsOfValue
  <2>3. d = [i \in 1 .. n |-> d[i]]
    BY <1>7 DEF IsDigits
  <2>4. Digits(V[n], loops) = [i \in 1 .. n |-> d[i]]
    BY <1>4, <2>2
  <2> QED BY <1>2, <2>2, <2>3, <2>4
<1>8. ASSUME NEW s \in 0 .. Steps(loops) - 1, NEW t \in 0 .. Steps(loops) - 1,
             \A i \in DOMAIN loops : Digit(s, loops, i) <= Digit(t, loops, i)
      PROVE  s <= t
  BY <1>1, <1>2, <1>3, <1>8, StepOrder
<1> QED BY <1>5, <1>6, <1>7, <1>8 DEF n, f

-----------------------------------------------------------------------------
(* The index along a dimension is the number with the digits of the loops  *)
(* over that dimension.                                                    *)

DigitsOver(step, loops, dim) ==
  [i \in DOMAIN loops |-> IF loops[i].dim = dim THEN Digit(step, loops, i) ELSE 0]

(* The digits of a step in one dimension.                                  *)
LEMMA DigitsOverAre ==
  ASSUME NEW loops \in Loops, NEW dim, NEW step \in Nat
  PROVE  /\ \A i \in DOMAIN loops :
              /\ Digit(step, loops, i) \in Nat /\ Digit(step, loops, i) <= loops[i].factor - 1
              /\ loops[i].dim \in Dims
         /\ IsDigits(DigitsOver(step, loops, dim), FactorsOver(loops, {dim}), Len(loops))
<1> DEFINE n == Len(loops)
           f == FactorsOver(loops, Dims)
           d == Digits(step, loops)
<1>1. /\ n \in Nat /\ DOMAIN loops = 1 .. n
      /\ \A i \in 1 .. n : f[i] = loops[i].factor /\ loops[i].dim \in Dims
  BY NestIs DEF FactorsOver
<1>2. IsDigits(d, f, n)
  BY StepsAre
<1>3. \A i \in 1 .. n : d[i] = Digit(step, loops, i)
  BY <1>1 DEF Digits
<1> HIDE DEF n, f, d
<1>4. ASSUME NEW i \in 1 .. n
      PROVE  /\ Digit(step, loops, i) \in Nat /\ Digit(step, loops, i) <= loops[i].factor - 1
             /\ loops[i].dim \in Dims
  BY <1>1, <1>2, <1>3 DEF IsDigits
<1>5. ASSUME NEW i \in 1 .. n
      PROVE  /\ DigitsOver(step, loops, dim)[i] \in Nat
             /\ DigitsOver(step, loops, dim)[i] <= FactorsOver(loops, {dim})[i] - 1
  <2>1. i \in DOMAIN loops
    BY <1>1
  <2> QED BY <1>4, <2>1 DEF DigitsOver, FactorsOver
<1>6. DigitsOver(step, loops, dim) = [i \in 1 .. n |-> DigitsOver(step, loops, dim)[i]]
  BY <1>1 DEF DigitsOver
<1>7. IsDigits(DigitsOver(step, loops, dim), FactorsOver(loops, {dim}), n)
  BY <1>5, <1>6 DEF IsDigits
<1> QED BY <1>1, <1>4, <1>7 DEF n

(* The index of a dimension is the number its digits make.                 *)
LEMMA IndexIs ==
  ASSUME NEW loops \in Loops, NEW dim, NEW step \in Nat
  PROVE  \E V : /\ ValueOf(V, DigitsOver(step, loops, dim), Weights(loops, {dim}), Len(loops))
                /\ V[Len(loops)] = Index(step, loops, dim)
<1> DEFINE n == Len(loops)
           A == {i \in DOMAIN loops : loops[i].dim = dim}
           T == Weights(loops, {dim})
           d == DigitsOver(step, loops, dim)
           g == [i \in 1 .. n |-> Digit(step, loops, i) * Total(InsideOf(loops, i), dim)]
           V == [k \in 0 .. n |-> SumFunctionOnSet(g, A \cap 1 .. k)]
<1>1. n \in Nat /\ DOMAIN loops = 1 .. n /\ A \subseteq 1 .. n /\ A \cap 1 .. n = A
  BY NestIs
<1>2. /\ T \in [0 .. n -> Nat \ {0}]
      /\ \A i \in 1 .. n : T[i - 1] = Total(InsideOf(loops, i), dim)
  BY <1>1, WeightsAre DEF Total, Radices
<1>3. \A i \in 1 .. n : Digit(step, loops, i) \in Nat
  BY <1>1, DigitsOverAre
<1>4. ASSUME NEW i \in 1 .. n PROVE Digit(step, loops, i) * Total(InsideOf(loops, i), dim) \in Nat
  <2>1. i - 1 \in 0 .. n
    BY <1>1
  <2>2. PICK b \in Nat : b = T[i - 1]
    <3> HIDE DEF T
    <3> QED BY <1>2, <2>1
  <2>3. PICK a \in Nat : a = Digit(step, loops, i)
    BY <1>3
  <2>4. Total(InsideOf(loops, i), dim) = b
    BY <1>2, <2>2
  <2>5. a * b \in Nat
    OBVIOUS
  <2> QED BY ONLY <2>3, <2>4, <2>5
<1>5. g \in [1 .. n -> Nat] /\ g \in [1 .. n -> Int]
  BY <1>4
<1>6. \A i \in A : d[i] = Digit(step, loops, i) /\ g[i] = d[i] * T[i - 1]
  <2> SUFFICES ASSUME NEW i \in A
               PROVE  d[i] = Digit(step, loops, i) /\ g[i] = d[i] * T[i - 1]
    OBVIOUS
  <2>1. i \in 1 .. n /\ d[i] = Digit(step, loops, i)
    BY <1>1 DEF DigitsOver
  <2>2. T[i - 1] = Total(InsideOf(loops, i), dim)
    BY <1>2, <2>1
  <2>3. g[i] = Digit(step, loops, i) * Total(InsideOf(loops, i), dim)
    BY <2>1
  <2> HIDE DEF d, T, g
  <2> QED BY <2>1, <2>2, <2>3
<1>7. \A i \in (1 .. n) \ A : d[i] = 0
  BY <1>1 DEF DigitsOver
<1>8. Index(step, loops, dim) = SumFunctionOnSet(g, A)
  <2> DEFINE F(h) == h = [s \in SUBSET A |-> IF s = {} THEN 0
                            ELSE Digit(step, loops, Chosen(s)) * Total(InsideOf(loops, Chosen(s)), dim)
                                   + h[s \ {Chosen(s)}]]
             c == CHOOSE h : F(h)
  <2>1. \A s \in SUBSET A :
          s # {} => g[Chosen(s)]
                      = Digit(step, loops, Chosen(s)) * Total(InsideOf(loops, Chosen(s)), dim)
    <3> SUFFICES ASSUME NEW s \in SUBSET A, s # {}
                 PROVE  g[Chosen(s)]
                          = Digit(step, loops, Chosen(s)) * Total(InsideOf(loops, Chosen(s)), dim)
      OBVIOUS
    <3>1. Chosen(s) \in 1 .. n
      <4>1. Chosen(s) \in s
        BY ChosenIsIn
      <4> QED BY <1>1, <4>1
    <3> QED BY <3>1
  <2>2. \A h : F(h) <=> Sums(h, g, A)
    <3> HIDE DEF g, A
    <3> QED BY <2>1 DEF Sums
  <2>3. IsFiniteSet(A)
    <3>1. 1 \in Int /\ n \in Int
      BY <1>1
    <3>2. IsFiniteSet(1 .. n)
      BY <3>1, FS_Interval
    <3> QED BY <1>1, <3>2, FS_Subset
  <2>4. PICK it : Sums(it, g, A)
    <3> HIDE DEF g, A
    <3> QED BY <2>3, SumsExist
  <2>5. F(c)
    <3> HIDE DEF F
    <3> QED BY <2>2, <2>4
  <2>6. Sums(c, g, A)
    <3> HIDE DEF F, c
    <3> QED BY <2>2, <2>5
  <2>7. SumFunctionOnSet(g, A) = c[A]
    <3> HIDE DEF F, c, g, A
    <3> QED BY <2>3, <2>6, SumIsTheTotal
  <2>8. Index(step, loops, dim) = c[A]
    BY DEF Index, MapThenSumSet, MapThenFoldSet, Chosen
  <2> QED BY <2>7, <2>8
<1>9. /\ SumFunctionOnSet(g, A \cap 1 .. 0) = 0
      /\ \A k \in (1 .. n) \cap A :
           SumFunctionOnSet(g, A \cap 1 .. k) = SumFunctionOnSet(g, A \cap 1 .. k - 1) + g[k]
  <2>1. n \in Nat /\ g \in [1 .. n -> Int]
    BY <1>1, <1>5
  <2> HIDE DEF g, A, n
  <2> QED BY <2>1, SumOfPrefix
<1>10. V = [k \in 0 .. n |-> V[k]] /\ \A k \in 0 .. n : V[k] = SumFunctionOnSet(g, A \cap 1 .. k)
  OBVIOUS
<1> HIDE DEF V, g, d, T, A, n
<1>11. V[0] = 0 /\ V[n] = Index(step, loops, dim)
  BY <1>1, <1>8, <1>9, <1>10
<1>12. \A k \in 1 .. n : d[k] \in Nat /\ T[k - 1] \in Nat
  <2> SUFFICES ASSUME NEW k \in 1 .. n PROVE d[k] \in Nat /\ T[k - 1] \in Nat
    OBVIOUS
  <2>1. k - 1 \in 0 .. n
    BY <1>1
  <2>2. T[k - 1] \in Nat \ {0}
    BY <1>2, <2>1
  <2>3. d[k] \in Nat
    BY <1>3, <1>6, <1>7
  <2> QED BY <2>2, <2>3
<1>13. ASSUME NEW k \in 1 .. n, V[k - 1] \in Nat
       PROVE  V[k] \in Nat /\ V[k] = V[k - 1] + d[k] * T[k - 1]
  <2>1. k \in 0 .. n /\ k - 1 \in 0 .. n
    BY <1>1
  <2>2. /\ V[k] = SumFunctionOnSet(g, A \cap 1 .. k)
        /\ V[k - 1] = SumFunctionOnSet(g, A \cap 1 .. k - 1)
    BY <1>10, <2>1
  <2>3. PICK a \in Nat : a = d[k]
    BY <1>12
  <2>4. PICK b \in Nat : b = T[k - 1]
    BY <1>12
  <2>5. PICK v \in Nat : v = V[k - 1]
    BY <1>13
  <2>6. a * b \in Nat
    OBVIOUS
  <2>7. CASE k \in A
    <3>1. V[k] = V[k - 1] + g[k] /\ g[k] = d[k] * T[k - 1]
      BY <1>6, <1>9, <2>2, <2>7
    <3> QED BY <2>3, <2>4, <2>5, <2>6, <3>1
  <2>8. CASE k \notin A
    <3>1. A \cap 1 .. k = A \cap 1 .. k - 1
      BY <1>1, <2>8
    <3>2. V[k] = V[k - 1] /\ d[k] = 0
      BY <1>7, <2>2, <2>8, <3>1
    <3>3. d[k] * T[k - 1] = 0 * b /\ 0 * b = 0
      BY <2>4, <3>2
    <3> QED BY <2>5, <3>2, <3>3
  <2> QED BY <2>7, <2>8
<1>14. \A k \in 0 .. n : V[k] \in Nat
  <2> DEFINE F == {k \in 0 .. n : V[k] \notin Nat}
  <2> SUFFICES ASSUME F # {} PROVE FALSE
    OBVIOUS
  <2>1. PICK k \in F : \A j \in F : k <= j
    <3>1. F \subseteq Nat
      BY <1>1
    <3> HIDE DEF F
    <3> QED BY <3>1, LeastExists
  <2>2. k \in 1 .. n /\ k - 1 \in 0 .. n /\ k - 1 \notin F
    BY <1>1, <1>11, <2>1
  <2> QED BY <1>13, <2>2
<1>15. \A k \in 1 .. n : k - 1 \in 0 .. n
  BY <1>1
<1>16. ValueOf(V, d, T, n)
  BY <1>10, <1>11, <1>13, <1>14, <1>15 DEF ValueOf
<1> QED BY <1>11, <1>16 DEF d, T, n

(* It is below the product of the dimension's loops.                       *)
LEMMA IndexRange ==
  ASSUME NEW loops \in Loops, NEW dim, NEW step \in Nat
  PROVE  /\ Total(loops, dim) \in Nat \ {0}
         /\ Index(step, loops, dim) \in 0 .. Total(loops, dim) - 1
<1> DEFINE n == Len(loops)
           f == FactorsOver(loops, {dim})
           P == Weights(loops, {dim})
           d == DigitsOver(step, loops, dim)
<1>1. n \in 0 .. n /\ n \in Nat
  BY NestIs
<1>2. Radices(f, P, n) /\ P[n] = Total(loops, dim)
  BY WeightsAre DEF Total
<1>3. IsDigits(d, f, n)
  BY DigitsOverAre
<1>4. PICK V : ValueOf(V, d, P, n) /\ V[n] = Index(step, loops, dim)
  BY IndexIs
<1> HIDE DEF n, f, P, d
<1>5. V[n] \in 0 .. P[n] - 1
  BY <1>1, <1>2, <1>3, <1>4, ValueRange
<1>6. P[n] \in Nat \ {0}
  BY <1>1, <1>2 DEF Radices
<1> QED BY <1>2, <1>4, <1>5, <1>6

(* Two steps have the same index where they have the same digits.          *)
LEMMA SameIndex ==
  ASSUME NEW loops \in Loops, NEW dim, NEW s \in Nat, NEW t \in Nat
  PROVE  Index(s, loops, dim) = Index(t, loops, dim)
           <=> \A i \in DOMAIN loops :
                 loops[i].dim = dim => Digit(s, loops, i) = Digit(t, loops, i)
<1> DEFINE n == Len(loops)
           f == FactorsOver(loops, {dim})
           P == Weights(loops, {dim})
           d == DigitsOver(s, loops, dim)
           e == DigitsOver(t, loops, dim)
<1>1. n \in 0 .. n /\ n \in Nat /\ DOMAIN loops = 1 .. n
  BY NestIs
<1>2. Radices(f, P, n)
  BY WeightsAre
<1>3. IsDigits(d, f, n) /\ IsDigits(e, f, n)
  BY DigitsOverAre
<1>4. PICK V : ValueOf(V, d, P, n) /\ V[n] = Index(s, loops, dim)
  BY IndexIs
<1>5. PICK W : ValueOf(W, e, P, n) /\ W[n] = Index(t, loops, dim)
  BY IndexIs
<1>6. (\A i \in 1 .. n : d[i] = e[i])
        <=> \A i \in DOMAIN loops :
              loops[i].dim = dim => Digit(s, loops, i) = Digit(t, loops, i)
  BY <1>1 DEF DigitsOver
<1> HIDE DEF n, f, P, d, e
<1>7. ASSUME V[n] = W[n] PROVE \A i \in 1 .. n : d[i] = e[i]
  BY <1>2, <1>3, <1>4, <1>5, <1>7, ValueUnique
<1>8. ASSUME \A i \in 1 .. n : d[i] = e[i] PROVE V[n] = W[n]
  <2>1. \A i \in 1 .. n : d[i] <= e[i] /\ e[i] <= d[i]
    BY <1>3, <1>8 DEF IsDigits
  <2>2. V[n] <= W[n]
    BY <1>2, <1>3, <1>4, <1>5, <2>1, ValueOrder
  <2>3. W[n] <= V[n]
    BY <1>2, <1>3, <1>4, <1>5, <2>1, ValueOrder
  <2>4. V[n] \in Nat /\ W[n] \in Nat
    BY <1>1, <1>4, <1>5 DEF ValueOf
  <2> QED BY <2>2, <2>3, <2>4
<1> QED BY <1>4, <1>5, <1>6, <1>7, <1>8

(* An index is at its end where all the digits are.                        *)
LEMMA LastIndex ==
  ASSUME NEW loops \in Loops, NEW dim, NEW step \in Nat
  PROVE  Index(step, loops, dim) = Total(loops, dim) - 1
           <=> \A i \in DOMAIN loops :
                 loops[i].dim = dim => Digit(step, loops, i) = loops[i].factor - 1
<1> DEFINE n == Len(loops)
           f == FactorsOver(loops, {dim})
           P == Weights(loops, {dim})
           d == DigitsOver(step, loops, dim)
<1>1. n \in Nat /\ DOMAIN loops = 1 .. n
  BY NestIs
<1>2. Radices(f, P, n) /\ P[n] = Total(loops, dim)
  BY WeightsAre DEF Total
<1>3. IsDigits(d, f, n)
  BY DigitsOverAre
<1>4. PICK V : ValueOf(V, d, P, n) /\ V[n] = Index(step, loops, dim)
  BY IndexIs
<1>5. (\A i \in 1 .. n : d[i] = f[i] - 1)
        <=> \A i \in DOMAIN loops :
              loops[i].dim = dim => Digit(step, loops, i) = loops[i].factor - 1
  BY <1>1 DEF DigitsOver, FactorsOver
<1> HIDE DEF n, f, P, d
<1>6. V[n] = P[n] - 1 <=> \A i \in 1 .. n : d[i] = f[i] - 1
  BY <1>2, <1>3, <1>4, ValueLast
<1> QED BY <1>2, <1>4, <1>5, <1>6

-----------------------------------------------------------------------------
(* The last step at which the indices along some dimensions are what they  *)
(* are: the one where the others are at their end.                         *)

LEMMA NoLaterStep ==
  ASSUME NEW loops \in Loops, NEW s \in 0 .. Steps(loops) - 1, NEW t \in 0 .. Steps(loops) - 1,
         NEW D,
         \A dim \in Dims \ D : Index(s, loops, dim) = Index(t, loops, dim),
         \A dim \in D : Index(t, loops, dim) = Total(loops, dim) - 1
  PROVE  s <= t
<1>1. s \in Nat /\ t \in Nat
  BY StepsAre
<1>2. ASSUME NEW i \in DOMAIN loops PROVE Digit(s, loops, i) <= Digit(t, loops, i)
  <2>1. PICK dim : dim = loops[i].dim
    OBVIOUS
  <2>2. /\ Digit(s, loops, i) \in Nat /\ Digit(s, loops, i) <= loops[i].factor - 1
        /\ Digit(t, loops, i) \in Nat /\ dim \in Dims
    BY <1>1, <2>1, DigitsOverAre
  <2>3. CASE dim \in D
    <3>1. Index(t, loops, dim) = Total(loops, dim) - 1
      BY <2>3
    <3>2. Digit(t, loops, i) = loops[i].factor - 1
      BY <1>1, <2>1, <3>1, LastIndex
    <3> QED BY <2>2, <3>2
  <2>4. CASE dim \notin D
    <3>1. Index(s, loops, dim) = Index(t, loops, dim)
      BY <2>2, <2>4
    <3>2. Digit(s, loops, i) = Digit(t, loops, i)
      BY <1>1, <2>1, <3>1, SameIndex
    <3> QED BY <2>2, <3>2
  <2> QED BY <2>3, <2>4
<1> QED BY <1>2, StepsAre

(* Short of its last index, a dimension has a later step at which the      *)
(* others stay.                                                            *)
LEMMA LaterStepExists ==
  ASSUME NEW loops \in Loops, NEW s \in 0 .. Steps(loops) - 1, NEW dim,
         Index(s, loops, dim) # Total(loops, dim) - 1
  PROVE  \E t \in 0 .. Steps(loops) - 1 :
           /\ s < t
           /\ \A other : other # dim => Index(t, loops, other) = Index(s, loops, other)
<1> DEFINE n == Len(loops)
           f == FactorsOver(loops, Dims)
<1>1. s \in Nat /\ Steps(loops) \in Nat
  BY StepsAre
<1>2. PICK i \in DOMAIN loops : /\ loops[i].dim = dim
                                /\ Digit(s, loops, i) # loops[i].factor - 1
  BY <1>1, LastIndex
<1>3. \A k \in DOMAIN loops :
        Digit(s, loops, k) \in Nat /\ Digit(s, loops, k) <= loops[k].factor - 1
  BY <1>1, DigitsOverAre
<1>4. \A k \in DOMAIN loops : f[k] = loops[k].factor /\ loops[k].factor \in Nat \ {0}
  BY NestIs DEF FactorsOver
<1>5. n \in Nat /\ DOMAIN loops = 1 .. n
  BY NestIs
<1> DEFINE d == [k \in 1 .. n |-> IF k = i THEN Digit(s, loops, k) + 1 ELSE Digit(s, loops, k)]
<1>6. IsDigits(d, f, n)
  <2>1. ASSUME NEW k \in 1 .. n PROVE d[k] \in Nat /\ d[k] <= f[k] - 1
    <3>1. k \in DOMAIN loops
      BY <1>5
    <3>2. /\ Digit(s, loops, k) \in Nat /\ Digit(s, loops, k) <= loops[k].factor - 1
          /\ f[k] = loops[k].factor /\ loops[k].factor \in Nat \ {0}
      BY <1>3, <1>4, <3>1
    <3>3. CASE k = i
      BY <1>2, <3>2, <3>3
    <3>4. CASE k # i
      BY <3>2, <3>4
    <3> QED BY <3>3, <3>4
  <2>2. d = [k \in 1 .. n |-> d[k]]
    OBVIOUS
  <2> HIDE DEF d, f, n
  <2> QED BY <2>1, <2>2 DEF IsDigits
<1>7. PICK t \in 0 .. Steps(loops) - 1 : Digits(t, loops) = d
  <2> HIDE DEF d
  <2> QED BY <1>6, StepsAre
<1>8. t \in Nat
  BY <1>1
<1>9. \A k \in DOMAIN loops : Digit(t, loops, k) = d[k]
  BY <1>7 DEF Digits
<1>10. /\ \A k \in DOMAIN loops : k # i => Digit(t, loops, k) = Digit(s, loops, k)
       /\ Digit(t, loops, i) = Digit(s, loops, i) + 1
  BY <1>2, <1>5, <1>9
<1>11. s <= t
  <2>1. \A k \in DOMAIN loops : Digit(s, loops, k) <= Digit(t, loops, k)
    BY <1>3, <1>10
  <2> QED BY <2>1, StepsAre
<1>12. s # t
  BY <1>2, <1>3, <1>10
<1>13. ASSUME NEW other, other # dim
       PROVE  Index(t, loops, other) = Index(s, loops, other)
  BY <1>1, <1>2, <1>8, <1>10, <1>13, SameIndex
<1> QED BY <1>1, <1>8, <1>11, <1>12, <1>13

(* The two levels of a schedule are two digits of the combined index.      *)
LEMMA CombinedIndexIs ==
  ASSUME NEW s, s.noc \in Loops, s.dram \in Loops,
         NEW d \in Nat, NEW e \in Nat, NEW n \in Nat, NEW m \in Nat, NEW dim
  PROVE  /\ CombinedIndex(s, d, n, dim) = CombinedIndex(s, e, m, dim)
              <=> /\ Index(n, s.noc, dim) = Index(m, s.noc, dim)
                  /\ Index(d, s.dram, dim) = Index(e, s.dram, dim)
         /\ CombinedIndex(s, d, n, dim) = Total(s.noc, dim) * Total(s.dram, dim) - 1
              <=> /\ Index(n, s.noc, dim) = Total(s.noc, dim) - 1
                  /\ Index(d, s.dram, dim) = Total(s.dram, dim) - 1
<1>1. PICK a \in Nat \ {0} : a = Total(s.noc, dim)
  BY IndexRange
<1>2. PICK b \in Nat \ {0} : b = Total(s.dram, dim)
  BY IndexRange
<1>3. PICK x \in 0 .. a - 1 : x = Index(n, s.noc, dim)
  BY <1>1, IndexRange
<1>4. PICK y \in 0 .. a - 1 : y = Index(m, s.noc, dim)
  BY <1>1, IndexRange
<1>5. PICK p \in 0 .. b - 1 : p = Index(d, s.dram, dim)
  BY <1>2, IndexRange
<1>6. PICK q \in 0 .. b - 1 : q = Index(e, s.dram, dim)
  BY <1>2, IndexRange
<1>7. CombinedIndex(s, d, n, dim) = x + a * p /\ CombinedIndex(s, e, m, dim) = y + a * q
  BY <1>1, <1>3, <1>4, <1>5, <1>6 DEF CombinedIndex
<1>8. x + a * p = p * a + x /\ y + a * q = q * a + y
  OBVIOUS
<1>9. ASSUME x + a * p = y + a * q PROVE x = y /\ p = q
  BY <1>8, <1>9, DigitsAreUnique
<1>10. a * b - 1 = (b - 1) * a + (a - 1) /\ a - 1 \in 0 .. a - 1 /\ b - 1 \in Nat
  OBVIOUS
<1>11. ASSUME x + a * p = a * b - 1 PROVE x = a - 1 /\ p = b - 1
  <2>1. p * a + x = (b - 1) * a + (a - 1)
    BY ONLY <1>8, <1>10, <1>11, Zenon
  <2> QED BY <1>10, <2>1, DigitsAreUnique
<1>12. ASSUME x = a - 1, p = b - 1 PROVE x + a * p = a * b - 1
  <2>1. (a - 1) + a * (b - 1) = a * b - 1
    OBVIOUS
  <2> QED BY ONLY <1>12, <2>1, Zenon
<1> QED BY <1>1, <1>2, <1>3, <1>4, <1>5, <1>6, <1>7, <1>9, <1>11, <1>12

(* A step is the last over some dimensions where no later one has the same *)
(* indices along the others.                                               *)
LEMMA LastVisit ==
  ASSUME NEW s, s.noc \in Loops, s.dram \in Loops, NEW D,
         NEW d \in 0 .. Steps(s.dram) - 1, NEW n \in 0 .. Steps(s.noc) - 1
  PROVE  IsLast(s, d, n, D)
           => \A e \in 0 .. Steps(s.dram) - 1, m \in 0 .. Steps(s.noc) - 1 :
                (\A dim \in Dims \ D : CombinedIndex(s, e, m, dim) = CombinedIndex(s, d, n, dim))
                  => e < d \/ (e = d /\ m <= n)
<1>1. d \in Nat /\ n \in Nat
  BY StepsAre
<1> SUFFICES ASSUME IsLast(s, d, n, D),
                    NEW e \in 0 .. Steps(s.dram) - 1, NEW m \in 0 .. Steps(s.noc) - 1,
                    \A dim \in Dims \ D : CombinedIndex(s, e, m, dim) = CombinedIndex(s, d, n, dim)
             PROVE  e < d \/ (e = d /\ m <= n)
  OBVIOUS
<1>2. e \in Nat /\ m \in Nat
  BY StepsAre
<1>3. \A dim \in Dims \ D : /\ Index(m, s.noc, dim) = Index(n, s.noc, dim)
                            /\ Index(e, s.dram, dim) = Index(d, s.dram, dim)
  BY <1>1, <1>2, CombinedIndexIs
<1>4. \A dim \in D : /\ Index(n, s.noc, dim) = Total(s.noc, dim) - 1
                     /\ Index(d, s.dram, dim) = Total(s.dram, dim) - 1
  <2>1. \A dim \in D : CombinedIndex(s, d, n, dim) = Total(s.noc, dim) * Total(s.dram, dim) - 1
    BY DEF IsLast
  <2> QED BY <1>1, <2>1, CombinedIndexIs
<1>5. m <= n
  <2>1. \A dim \in Dims \ D : Index(m, s.noc, dim) = Index(n, s.noc, dim)
    BY <1>3
  <2>2. \A dim \in D : Index(n, s.noc, dim) = Total(s.noc, dim) - 1
    BY <1>4
  <2> QED BY <2>1, <2>2, NoLaterStep
<1>6. e <= d
  BY <1>3, <1>4, NoLaterStep
<1> QED BY <1>1, <1>2, <1>5, <1>6

(* A visit that is not the last has a later one, on either level.          *)
LEMMA NotTheLastVisit ==
  ASSUME NEW s, s.noc \in Loops, s.dram \in Loops, NEW D,
         NEW d \in 0 .. Steps(s.dram) - 1, NEW n \in 0 .. Steps(s.noc) - 1,
         ~ IsLast(s, d, n, D)
  PROVE  \E e \in 0 .. Steps(s.dram) - 1, m \in 0 .. Steps(s.noc) - 1 :
           /\ \A dim \in Dims \ D : CombinedIndex(s, e, m, dim) = CombinedIndex(s, d, n, dim)
           /\ d < e \/ (d = e /\ n < m)
<1>1. d \in Nat /\ n \in Nat
  BY StepsAre
<1>2. PICK dim \in D : CombinedIndex(s, d, n, dim) # Total(s.noc, dim) * Total(s.dram, dim) - 1
  BY DEF IsLast
<1>3. \/ Index(n, s.noc, dim) # Total(s.noc, dim) - 1
      \/ Index(d, s.dram, dim) # Total(s.dram, dim) - 1
  BY <1>1, <1>2, CombinedIndexIs
<1>4. CASE Index(n, s.noc, dim) # Total(s.noc, dim) - 1
  <2>1. PICK m \in 0 .. Steps(s.noc) - 1 :
          /\ n < m
          /\ \A other : other # dim => Index(m, s.noc, other) = Index(n, s.noc, other)
    BY <1>4, LaterStepExists
  <2>2. m \in Nat
    BY StepsAre
  <2>3. \A other \in Dims \ D : CombinedIndex(s, d, m, other) = CombinedIndex(s, d, n, other)
    BY <1>1, <1>2, <2>1, <2>2, CombinedIndexIs
  <2> QED BY <2>1, <2>3
<1>5. CASE Index(d, s.dram, dim) # Total(s.dram, dim) - 1
  <2>1. PICK e \in 0 .. Steps(s.dram) - 1 :
          /\ d < e
          /\ \A other : other # dim => Index(e, s.dram, other) = Index(d, s.dram, other)
    BY <1>5, LaterStepExists
  <2>2. e \in Nat
    BY StepsAre
  <2>3. \A other \in Dims \ D : CombinedIndex(s, e, n, other) = CombinedIndex(s, d, n, other)
    BY <1>1, <1>2, <2>1, <2>2, CombinedIndexIs
  <2> QED BY <2>1, <2>3
<1> QED BY <1>3, <1>4, <1>5

-----------------------------------------------------------------------------
(* A walk goes through all the digits of some loops in the order of the    *)
(* numbers they form.                                                      *)

IsWalk(S, vec, rank, f, n) ==
  /\ n \in Nat /\ f \in [1 .. n -> Nat \ {0}]
  /\ \A s \in S : IsDigits(vec[s], f, n) /\ rank[s] \in Nat
  /\ \A d : IsDigits(d, f, n) => \E s \in S : vec[s] = d
  /\ \A s, t \in S : rank[s] < rank[t] <=> LexBefore(vec[s], vec[t], n)

(* Two steps that differ in the positions C only.                          *)
SameBut(a, b, C, n) == \A i \in 1 .. n : i \notin C => a[i] = b[i]

(* A step visited again is neither the last nor the first over C.          *)
LEMMA WalkRevisits ==
  ASSUME NEW S, NEW vec, NEW rank, NEW f, NEW n, IsWalk(S, vec, rank, f, n), NEW C,
         NEW s \in S, NEW u \in S, rank[s] < rank[u], SameBut(vec[s], vec[u], C, n)
  PROVE  /\ \E i \in 1 .. n : i \in C /\ vec[s][i] # f[i] - 1
         /\ \E i \in 1 .. n : i \in C /\ vec[u][i] # 0
<1>1. PICK i \in 1 .. n : vec[s][i] < vec[u][i]
  BY DEF IsWalk, LexBefore
<1>2. /\ vec[s][i] \in Nat /\ vec[u][i] \in Nat /\ vec[u][i] <= f[i] - 1
      /\ f[i] \in Nat
  BY DEF IsWalk, IsDigits
<1>3. i \in C
  BY <1>1, <1>2 DEF SameBut
<1> QED BY <1>1, <1>2, <1>3

(* Where nothing else is inside the loops C, nothing comes between.        *)
LEMMA WalkStays ==
  ASSUME NEW S, NEW vec, NEW rank, NEW f, NEW n, IsWalk(S, vec, rank, f, n), NEW C,
         \A i, j \in 1 .. n : i < j /\ j \in C => i \in C,
         NEW s \in S, NEW t \in S, NEW u \in S,
         rank[s] < rank[t], rank[t] < rank[u], SameBut(vec[s], vec[u], C, n)
  PROVE  SameBut(vec[s], vec[t], C, n)
<1> SUFFICES ASSUME NEW k \in 1 .. n, k \notin C, vec[s][k] # vec[t][k]
             PROVE  FALSE
  BY DEF SameBut
<1>1. n \in Nat
  BY DEF IsWalk
<1>2. PICK i \in 1 .. n : vec[s][i] < vec[t][i] /\ \A j \in i + 1 .. n : vec[s][j] = vec[t][j]
  BY DEF IsWalk, LexBefore
<1>3. PICK l \in 1 .. n : vec[t][l] < vec[u][l] /\ \A j \in l + 1 .. n : vec[t][j] = vec[u][j]
  BY DEF IsWalk, LexBefore
<1>4. \A j \in 1 .. n : vec[s][j] \in Nat /\ vec[t][j] \in Nat /\ vec[u][j] \in Nat
  BY DEF IsWalk, IsDigits
<1>5. i \notin C
  <2>1. k <= i
    <3>1. ~(k \in i + 1 .. n)
      BY <1>2
    <3> QED BY <1>1, <3>1
  <2>2. k = i \/ k < i
    BY <2>1
  <2> QED BY <2>2
<1>6. vec[s][i] = vec[u][i]
  BY <1>5 DEF SameBut
<1>7. CASE i < l
  <2>1. l \notin C /\ l \in i + 1 .. n
    BY <1>1, <1>5, <1>7
  <2>2. vec[s][l] = vec[u][l] /\ vec[s][l] = vec[t][l]
    BY <1>2, <2>1 DEF SameBut
  <2> QED BY <1>3, <1>4, <2>2
<1>8. CASE l < i
  <2>1. i \in l + 1 .. n
    BY <1>1, <1>8
  <2>2. vec[t][i] = vec[u][i]
    BY <1>3, <2>1
  <2> QED BY <1>2, <1>4, <1>6, <2>2
<1>9. CASE l = i
  BY <1>2, <1>3, <1>4, <1>6, <1>9
<1> QED BY <1>1, <1>7, <1>8, <1>9

(* A step that is not the first over C has a last visit before it.         *)
LEMMA WalkLastVisit ==
  ASSUME NEW S, NEW vec, NEW rank, NEW f, NEW n, IsWalk(S, vec, rank, f, n), NEW C,
         NEW u \in S, NEW i \in 1 .. n, i \in C, vec[u][i] # 0
  PROVE  \E s \in S : /\ rank[s] < rank[u] /\ SameBut(vec[s], vec[u], C, n)
                      /\ \A t \in S : rank[s] < rank[t] /\ rank[t] < rank[u]
                                        => ~SameBut(vec[t], vec[u], C, n)
<1> DEFINE before == {s \in S : rank[s] < rank[u] /\ SameBut(vec[s], vec[u], C, n)}
           K == {rank[s] + 1 : s \in before}
<1>1. n \in Nat /\ rank[u] \in Nat /\ IsDigits(vec[u], f, n)
  BY DEF IsWalk
<1>2. before # {}
  <2> DEFINE d == [k \in 1 .. n |-> IF k = i THEN vec[u][k] - 1 ELSE vec[u][k]]
  <2>1. \A k \in 1 .. n : vec[u][k] \in Nat /\ vec[u][k] <= f[k] - 1
    BY <1>1 DEF IsDigits
  <2>2. \A k \in 1 .. n : d[k] \in Nat /\ d[k] <= vec[u][k]
    BY <2>1
  <2>3. d[i] < vec[u][i] /\ \A k \in 1 .. n : k # i => d[k] = vec[u][k]
    BY <2>1
  <2>4. d = [k \in 1 .. n |-> d[k]]
    OBVIOUS
  <2> HIDE DEF d
  <2>5. \A k \in 1 .. n : f[k] \in Nat
    BY DEF IsWalk
  <2>6. \A k \in 1 .. n : d[k] \in Nat /\ d[k] <= f[k] - 1
    BY <2>1, <2>2, <2>5
  <2>7. d \in [1 .. n -> Nat]
    BY <2>4, <2>6
  <2>8. IsDigits(d, f, n)
    BY <2>6, <2>7 DEF IsDigits
  <2>9. PICK s \in S : vec[s] = d
    BY <2>8 DEF IsWalk
  <2>10. LexBefore(d, vec[u], n)
    <3>1. \A k \in i + 1 .. n : k \in 1 .. n /\ k # i
      BY <1>1
    <3> QED BY <2>3, <3>1 DEF LexBefore
  <2>11. rank[s] < rank[u]
    BY <2>9, <2>10 DEF IsWalk
  <2>12. SameBut(vec[s], vec[u], C, n)
    BY <2>3, <2>9 DEF SameBut
  <2> QED BY <2>11, <2>12
<1>3. K \subseteq 1 .. rank[u] /\ K # {}
  <2>1. \A s \in before : rank[s] \in Nat /\ rank[s] < rank[u]
    BY DEF IsWalk
  <2>2. \A s \in before : rank[s] + 1 \in 1 .. rank[u]
    BY <1>1, <2>1
  <2> QED BY <1>2, <2>2
<1>4. PICK m \in K : \A k \in K : m >= k
  <2> HIDE DEF K
  <2> QED BY <1>1, <1>3, GreatestExists
<1>5. PICK s \in before : m = rank[s] + 1
  BY <1>4
<1>6. ASSUME NEW t \in S, rank[s] < rank[t], rank[t] < rank[u], SameBut(vec[t], vec[u], C, n)
      PROVE  FALSE
  <2>1. rank[t] + 1 \in K
    BY <1>6
  <2>2. rank[s] \in Nat /\ rank[t] \in Nat
    BY DEF IsWalk
  <2> QED BY <1>4, <1>5, <1>6, <2>1, <2>2
<1> QED BY <1>6

(* The steps of one nest are a walk.                                       *)
LEMMA StepsLex ==
  ASSUME NEW loops \in Loops, NEW s \in 0 .. Steps(loops) - 1, NEW t \in 0 .. Steps(loops) - 1
  PROVE  s < t <=> LexBefore(Digits(s, loops), Digits(t, loops), Len(loops))
<1> DEFINE n == Len(loops)
           f == FactorsOver(loops, Dims)
           P == Weights(loops, Dims)
<1>1. n \in Nat /\ DOMAIN loops = 1 .. n /\ \A i \in 1 .. n : f[i] = loops[i].factor
  BY NestIs DEF FactorsOver
<1>2. Radices(f, P, n) /\ P[n] = Steps(loops)
  BY WeightsAre DEF Steps
<1>3. \A step : \A i \in 1 .. n : Digit(step, loops, i) = (step \div P[i - 1]) % f[i]
  BY <1>1, WeightsAre DEF Digit, Steps
<1>4. \A step : Digits(step, loops) = [i \in 1 .. n |-> (step \div P[i - 1]) % f[i]]
  BY <1>1, <1>3 DEF Digits
<1>5. \A step \in Nat : IsDigits(Digits(step, loops), f, n)
  BY StepsAre
<1>6. s \in Nat /\ t \in Nat /\ Steps(loops) \in Nat \ {0}
  BY StepsAre
<1> HIDE DEF n, f, P
<1>7. ASSUME NEW a \in 0 .. Steps(loops) - 1, NEW b \in 0 .. Steps(loops) - 1,
             LexBefore(Digits(a, loops), Digits(b, loops), n)
      PROVE  a < b
  <2> DEFINE V(x) == [k \in 0 .. n |-> x % P[k]]
  <2>1. a \in Nat /\ b \in Nat
    BY <1>6
  <2>2. /\ ValueOf(V(a), Digits(a, loops), P, n) /\ IsDigits(Digits(a, loops), f, n)
        /\ ValueOf(V(b), Digits(b, loops), P, n) /\ IsDigits(Digits(b, loops), f, n)
    <3>1. ASSUME NEW x \in Nat PROVE ValueOf(V(x), Digits(x, loops), P, n)
      <4>1. Digits(x, loops) = [i \in 1 .. n |-> (x \div P[i - 1]) % f[i]]
        BY <1>4
      <4>2. ValueOf([k \in 0 .. n |-> x % P[k]], [i \in 1 .. n |-> (x \div P[i - 1]) % f[i]], P, n)
        BY <1>2, StepIsValue
      <4> QED BY <4>1, <4>2
    <3> HIDE DEF V
    <3> QED BY <1>5, <2>1, <3>1
  <2>3. V(a)[n] = a /\ V(b)[n] = b
    <3>1. n \in 0 .. n
      BY <1>1
    <3>2. \A x \in 0 .. Steps(loops) - 1 : x % Steps(loops) = x
      <4>1. PICK p \in Nat \ {0} : p = Steps(loops)
        BY <1>6
      <4>2. \A x \in 0 .. p - 1 : (x % p) = x
        OBVIOUS
      <4> QED BY <4>1, <4>2
    <3> QED BY <1>2, <3>1, <3>2
  <2>4. V(a)[n] < V(b)[n]
    <3> HIDE DEF V
    <3> QED BY <1>2, <1>7, <2>2, ValueLex
  <2> QED BY <2>3, <2>4
<1>8. ASSUME s < t PROVE LexBefore(Digits(s, loops), Digits(t, loops), n)
  <2>1. Digits(s, loops) # Digits(t, loops)
    <3> SUFFICES ASSUME Digits(s, loops) = Digits(t, loops) PROVE FALSE
      OBVIOUS
    <3>1. \A i \in DOMAIN loops : Digit(s, loops, i) = Digit(t, loops, i)
      <4>1. \A i \in DOMAIN loops : /\ Digits(s, loops)[i] = Digit(s, loops, i)
                                    /\ Digits(t, loops)[i] = Digit(t, loops, i)
        BY DEF Digits
      <4> QED BY <4>1
    <3>2. ASSUME NEW i \in DOMAIN loops PROVE Digit(t, loops, i) <= Digit(s, loops, i)
      <4>1. PICK d \in Nat : d = Digit(s, loops, i)
        BY <1>6, DigitsOverAre
      <4> QED BY <3>1, <4>1
    <3>3. t <= s
      BY <3>2, StepsAre
    <3> QED BY <1>6, <1>8, <3>3
  <2>2. /\ Digits(s, loops) \in [1 .. n -> Nat] /\ Digits(t, loops) \in [1 .. n -> Nat]
    BY <1>5, <1>6 DEF IsDigits
  <2>3. ASSUME LexBefore(Digits(t, loops), Digits(s, loops), n) PROVE FALSE
    <3>1. t < s
      BY <1>7, <2>3
    <3> QED BY <1>6, <1>8, <3>1
  <2> QED BY <1>1, <2>1, <2>2, <2>3, LexTotal
<1> QED BY <1>7, <1>8 DEF n

(* An index is zero where all its digits are.                              *)
LEMMA FirstIndex ==
  ASSUME NEW loops \in Loops, NEW dim, NEW step \in Nat
  PROVE  Index(step, loops, dim) = 0
           <=> \A i \in DOMAIN loops : loops[i].dim = dim => Digit(step, loops, i) = 0
<1> DEFINE n == Len(loops)
           f == FactorsOver(loops, {dim})
           P == Weights(loops, {dim})
           d == DigitsOver(step, loops, dim)
<1>1. n \in Nat /\ DOMAIN loops = 1 .. n
  BY NestIs
<1>2. Radices(f, P, n)
  BY WeightsAre
<1>3. IsDigits(d, f, n)
  BY DigitsOverAre
<1>4. PICK V : ValueOf(V, d, P, n) /\ V[n] = Index(step, loops, dim)
  BY IndexIs
<1>5. (\A i \in 1 .. n : d[i] = 0)
        <=> \A i \in DOMAIN loops : loops[i].dim = dim => Digit(step, loops, i) = 0
  BY <1>1 DEF DigitsOver
<1> HIDE DEF n, f, P, d
<1>6. V[n] = 0 <=> \A i \in 1 .. n : d[i] = 0
  BY <1>2, <1>3, <1>4, ValueFirst
<1> QED BY <1>4, <1>5, <1>6

(* What a tile is revisited for, at the DRAM level alone: steps of the     *)
(* same tile, which differ in the dimensions C only.                       *)
SameTile(loops, C, a, b) == \A dim \in Dims \ C : Index(a, loops, dim) = Index(b, loops, dim)

(* The steps of a nest walk through its digits in order.                   *)
LEMMA NestWalk ==
  ASSUME NEW loops \in Loops
  PROVE  IsWalk(0 .. Steps(loops) - 1, [s \in 0 .. Steps(loops) - 1 |-> Digits(s, loops)],
                [s \in 0 .. Steps(loops) - 1 |-> s], FactorsOver(loops, Dims), Len(loops))
<1> DEFINE S == 0 .. Steps(loops) - 1
           vec == [s \in S |-> Digits(s, loops)]
           rank == [s \in S |-> s]
           f == FactorsOver(loops, Dims)
           n == Len(loops)
<1>1. n \in Nat /\ f \in [1 .. n -> Nat \ {0}]
  BY NestIs
<1>2. \A s \in S : s \in Nat
  BY StepsAre
<1>3. \A s \in S : IsDigits(vec[s], f, n) /\ rank[s] \in Nat
  BY <1>2, StepsAre
<1>4. \A d : IsDigits(d, f, n) => \E s \in S : vec[s] = d
  BY StepsAre
<1>5. \A s, t \in S : rank[s] < rank[t] <=> LexBefore(vec[s], vec[t], n)
  BY StepsLex
<1> QED BY <1>1, <1>3, <1>4, <1>5 DEF IsWalk

(* Two steps are at the same tile if they differ in digits of carried      *)
(* dimensions alone.                                                       *)
LEMMA SameTileIs ==
  ASSUME NEW loops \in Loops, NEW C, NEW a \in 0 .. Steps(loops) - 1, NEW b \in 0 .. Steps(loops) - 1
  PROVE  SameTile(loops, C, a, b)
           <=> SameBut(Digits(a, loops), Digits(b, loops),
                       {i \in DOMAIN loops : loops[i].dim \in C}, Len(loops))
<1>1. DOMAIN loops = 1 .. Len(loops) /\ a \in Nat /\ b \in Nat
  BY NestIs, StepsAre
<1>2. \A i \in DOMAIN loops : /\ Digits(a, loops)[i] = Digit(a, loops, i)
                              /\ Digits(b, loops)[i] = Digit(b, loops, i)
                              /\ loops[i].dim \in Dims
  BY <1>1, NestIs DEF Digits
<1>3. ASSUME SameTile(loops, C, a, b), NEW i \in DOMAIN loops, loops[i].dim \notin C
      PROVE  Digit(a, loops, i) = Digit(b, loops, i)
  <2>1. PICK dim \in Dims \ C : dim = loops[i].dim
    BY <1>2, <1>3
  <2>2. Index(a, loops, dim) = Index(b, loops, dim)
    BY <1>3 DEF SameTile
  <2> QED BY <1>1, <2>1, <2>2, SameIndex
<1>4. ASSUME \A i \in DOMAIN loops : loops[i].dim \notin C => Digit(a, loops, i) = Digit(b, loops, i),
             NEW dim \in Dims \ C
      PROVE  Index(a, loops, dim) = Index(b, loops, dim)
  <2>1. \A i \in DOMAIN loops : loops[i].dim = dim => Digit(a, loops, i) = Digit(b, loops, i)
    BY <1>4
  <2> QED BY <1>1, <2>1, SameIndex
<1> QED BY <1>1, <1>2, <1>3, <1>4 DEF SameTile, SameBut

(* Two visits of a tile: neither the last nor the first, and nothing       *)
(* between where it is kept.                                               *)
LEMMA BufferRevisits ==
  ASSUME NEW s, s.dram \in Loops, NEW C,
         NEW a \in 0 .. Steps(s.dram) - 1, NEW b \in 0 .. Steps(s.dram) - 1,
         a < b, SameTile(s.dram, C, a, b)
  PROVE  /\ ~IsLastInDram(s, a, C) /\ ~IsFirstInDram(s, b, C)
         /\ KeptInBuffer(s, C) =>
              \A t \in 0 .. Steps(s.dram) - 1 : a < t /\ t < b => SameTile(s.dram, C, a, t)
<1> DEFINE loops == s.dram
           S == 0 .. Steps(loops) - 1
           vec == [x \in S |-> Digits(x, loops)]
           rank == [x \in S |-> x]
           f == FactorsOver(loops, Dims)
           n == Len(loops)
           P == {i \in DOMAIN loops : loops[i].dim \in C}
<1>1. IsWalk(S, vec, rank, f, n)
  BY NestWalk
<1>2. rank[a] < rank[b] /\ \A x, y \in S : SameTile(loops, C, x, y) <=> SameBut(vec[x], vec[y], P, n)
  BY SameTileIs
<1>3. DOMAIN loops = 1 .. n /\ \A i \in 1 .. n : f[i] = loops[i].factor
  BY NestIs DEF FactorsOver
<1>4. \A x \in S : x \in Nat /\ \A i \in DOMAIN loops : vec[x][i] = Digit(x, loops, i)
  BY StepsAre DEF Digits
<1>5. loops \in Loops /\ SameTile(loops, C, a, b) /\ a \in S /\ b \in S
  OBVIOUS
<1>6. /\ IsLastInDram(s, a, C) <=> \A dim \in C : Index(a, loops, dim) = Total(loops, dim) - 1
      /\ IsFirstInDram(s, b, C) <=> \A dim \in C : Index(b, loops, dim) = 0
      /\ KeptInBuffer(s, C) <=> \A i, j \in DOMAIN loops : i < j /\ j \in P => i \in P
  BY DEF IsLastInDram, IsFirstInDram, KeptInBuffer, Innermost
<1>7. rank = [x \in S |-> x]
  OBVIOUS
<1> HIDE DEF loops, S, vec, rank, f, n
<1>8. /\ \E i \in 1 .. n : i \in P /\ vec[a][i] # f[i] - 1
      /\ \E i \in 1 .. n : i \in P /\ vec[b][i] # 0
  <2> HIDE DEF P
  <2> QED BY <1>1, <1>2, <1>5, WalkRevisits
<1>9. ~IsLastInDram(s, a, C)
  <2>1. PICK i \in DOMAIN loops : loops[i].dim \in C /\ Digit(a, loops, i) # loops[i].factor - 1
    BY <1>3, <1>4, <1>5, <1>8
  <2>2. Index(a, loops, loops[i].dim) # Total(loops, loops[i].dim) - 1
    BY <1>4, <1>5, <2>1, LastIndex
  <2> QED BY <1>6, <2>1, <2>2
<1>10. ~IsFirstInDram(s, b, C)
  <2>1. PICK i \in DOMAIN loops : loops[i].dim \in C /\ Digit(b, loops, i) # 0
    BY <1>3, <1>4, <1>5, <1>8
  <2>2. Index(b, loops, loops[i].dim) # 0
    BY <1>4, <1>5, <2>1, FirstIndex
  <2> QED BY <1>6, <2>1, <2>2
<1>11. ASSUME KeptInBuffer(s, C), NEW t \in S, a < t, t < b PROVE SameTile(loops, C, a, t)
  <2>1. rank[a] < rank[t] /\ rank[t] < rank[b]
    BY <1>5, <1>7, <1>11
  <2>2. \A i, j \in 1 .. n : i < j /\ j \in P => i \in P
    BY <1>3, <1>6, <1>11
  <2>3. SameBut(vec[a], vec[t], P, n)
    <3> HIDE DEF P
    <3> QED BY <1>1, <1>2, <1>5, <2>1, <2>2, WalkStays
  <2> QED BY <1>2, <1>5, <2>3
<1> QED BY <1>9, <1>10, <1>11 DEF S, loops

(* A visit that is not the first comes after a latest earlier one.         *)
LEMMA BufferLastVisit ==
  ASSUME NEW s, s.dram \in Loops, NEW C, NEW b \in 0 .. Steps(s.dram) - 1,
         ~IsFirstInDram(s, b, C)
  PROVE  \E a \in 0 .. Steps(s.dram) - 1 :
           /\ a < b /\ SameTile(s.dram, C, a, b)
           /\ \A t \in 0 .. Steps(s.dram) - 1 : a < t /\ t < b => ~SameTile(s.dram, C, t, b)
<1> DEFINE loops == s.dram
           S == 0 .. Steps(loops) - 1
           vec == [x \in S |-> Digits(x, loops)]
           rank == [x \in S |-> x]
           f == FactorsOver(loops, Dims)
           n == Len(loops)
           P == {i \in DOMAIN loops : loops[i].dim \in C}
<1>1. IsWalk(S, vec, rank, f, n)
  BY NestWalk
<1>2. \A x, y \in S : SameTile(loops, C, x, y) <=> SameBut(vec[x], vec[y], P, n)
  BY SameTileIs
<1>3. DOMAIN loops = 1 .. n
  BY NestIs
<1>4. b \in Nat /\ \A i \in DOMAIN loops : vec[b][i] = Digit(b, loops, i)
  BY StepsAre DEF Digits
<1>5. PICK i \in DOMAIN loops : loops[i].dim \in C /\ Digit(b, loops, i) # 0
  <2>1. PICK dim \in C : Index(b, loops, dim) # 0
    BY DEF IsFirstInDram
  <2> QED BY <1>4, <2>1, FirstIndex
<1>6. i \in 1 .. n /\ i \in P /\ vec[b][i] # 0 /\ b \in S
  BY <1>3, <1>4, <1>5
<1>7. \A x \in S : rank[x] = x
  OBVIOUS
<1> HIDE DEF loops, S, vec, rank, f, n, P
<1>8. PICK a \in S : /\ rank[a] < rank[b] /\ SameBut(vec[a], vec[b], P, n)
                     /\ \A t \in S : rank[a] < rank[t] /\ rank[t] < rank[b]
                                       => ~SameBut(vec[t], vec[b], P, n)
  BY <1>1, <1>6, WalkLastVisit
<1>9. /\ a < b /\ SameTile(loops, C, a, b)
      /\ \A t \in S : a < t /\ t < b => ~SameTile(loops, C, t, b)
  BY <1>2, <1>6, <1>7, <1>8
<1> QED BY <1>9 DEF S, loops

-----------------------------------------------------------------------------
(* The steps of both levels are a walk through the loops of the two        *)
(* together.                                                               *)

StepPairs(s) == (0 .. Steps(s.dram) - 1) \X (0 .. Steps(s.noc) - 1)

Sooner(x, y) == x[1] < y[1] \/ (x[1] = y[1] /\ x[2] < y[2])

PairLen(s) == Len(s.noc) + Len(s.dram)

PairDigits(s, x) ==
  [i \in 1 .. PairLen(s) |-> IF i <= Len(s.noc) THEN Digit(x[2], s.noc, i)
                             ELSE Digit(x[1], s.dram, i - Len(s.noc))]

PairFactors(s) ==
  [i \in 1 .. PairLen(s) |-> IF i <= Len(s.noc) THEN s.noc[i].factor
                             ELSE s.dram[i - Len(s.noc)].factor]

PairPositions(s, C) == {i \in 1 .. PairLen(s) : (s.noc \o s.dram)[i].dim \in C}

PairRank(s, x) == x[1] * Steps(s.noc) + x[2]

(* Two lists put together, by their positions.                             *)
LEMMA Pieces ==
  ASSUME NEW N \in Nat, NEW M \in Nat
  PROVE  /\ N + M \in Nat
         /\ \A i \in 1 .. N : i \in 1 .. N + M /\ i <= N
         /\ \A i \in 1 .. M : N + i \in 1 .. N + M /\ ~(N + i <= N) /\ (N + i) - N = i
         /\ \A i \in 1 .. N + M : i \in 1 .. N \/ \E k \in 1 .. M : i = N + k
<1> SUFFICES ASSUME NEW i \in 1 .. N + M, i \notin 1 .. N PROVE \E k \in 1 .. M : i = N + k
  OBVIOUS
<1>1. i - N \in 1 .. M /\ i = N + (i - N)
  OBVIOUS
<1> QED BY <1>1

(* Two nests, one around the other, are a nest.                            *)
LEMMA NestsJoined ==
  ASSUME NEW a \in Loops, NEW b \in Loops
  PROVE  /\ Len(a) \in Nat /\ Len(b) \in Nat
         /\ DOMAIN a = 1 .. Len(a) /\ DOMAIN b = 1 .. Len(b)
         /\ a \o b \in Loops /\ DOMAIN (a \o b) = 1 .. Len(a) + Len(b)
         /\ \A i \in 1 .. Len(a) : (a \o b)[i] = a[i]
         /\ \A i \in 1 .. Len(b) : (a \o b)[Len(a) + i] = b[i]
  BY DEF Loops

(* The loops of both levels, the mesh's inside DRAM's.                     *)
LEMMA PairsAre ==
  ASSUME NEW s, s.noc \in Loops, s.dram \in Loops
  PROVE  /\ Len(s.noc) \in Nat /\ Len(s.dram) \in Nat /\ PairLen(s) \in Nat
         /\ DOMAIN s.noc = 1 .. Len(s.noc) /\ DOMAIN s.dram = 1 .. Len(s.dram)
         /\ s.noc \o s.dram \in Loops /\ DOMAIN (s.noc \o s.dram) = 1 .. PairLen(s)
         /\ \A i \in 1 .. Len(s.noc) :
              i \in 1 .. PairLen(s) /\ i <= Len(s.noc) /\ (s.noc \o s.dram)[i] = s.noc[i]
         /\ \A i \in 1 .. Len(s.dram) :
              /\ Len(s.noc) + i \in 1 .. PairLen(s) /\ ~(Len(s.noc) + i <= Len(s.noc))
              /\ (Len(s.noc) + i) - Len(s.noc) = i
              /\ (s.noc \o s.dram)[Len(s.noc) + i] = s.dram[i]
         /\ \A i \in 1 .. PairLen(s) :
              i \in 1 .. Len(s.noc) \/ \E k \in 1 .. Len(s.dram) : i = Len(s.noc) + k
<1>1. /\ Len(s.noc) \in Nat /\ Len(s.dram) \in Nat
      /\ DOMAIN s.noc = 1 .. Len(s.noc) /\ DOMAIN s.dram = 1 .. Len(s.dram)
      /\ s.noc \o s.dram \in Loops /\ DOMAIN (s.noc \o s.dram) = 1 .. Len(s.noc) + Len(s.dram)
      /\ \A i \in 1 .. Len(s.noc) : (s.noc \o s.dram)[i] = s.noc[i]
      /\ \A i \in 1 .. Len(s.dram) : (s.noc \o s.dram)[Len(s.noc) + i] = s.dram[i]
  BY NestsJoined
<1>2. /\ PairLen(s) \in Nat
      /\ \A i \in 1 .. Len(s.noc) : i \in 1 .. PairLen(s) /\ i <= Len(s.noc)
      /\ \A i \in 1 .. Len(s.dram) :
           /\ Len(s.noc) + i \in 1 .. PairLen(s) /\ ~(Len(s.noc) + i <= Len(s.noc))
           /\ (Len(s.noc) + i) - Len(s.noc) = i
      /\ \A i \in 1 .. PairLen(s) :
           i \in 1 .. Len(s.noc) \/ \E k \in 1 .. Len(s.dram) : i = Len(s.noc) + k
  <2>1. Len(s.noc) \in Nat /\ Len(s.dram) \in Nat
    BY <1>1
  <2> QED BY ONLY <2>1, Pieces DEF PairLen
<1>3. DOMAIN (s.noc \o s.dram) = 1 .. PairLen(s)
  BY <1>1 DEF PairLen
<1> QED BY ONLY <1>1, <1>2, <1>3

(* The digits of a step on both levels.                                    *)
LEMMA PairDigitsAre ==
  ASSUME NEW s, s.noc \in Loops, s.dram \in Loops, NEW x \in StepPairs(s)
  PROVE  /\ x[1] \in Nat /\ x[2] \in Nat
         /\ IsDigits(PairDigits(s, x), PairFactors(s), PairLen(s))
         /\ \A i \in 1 .. Len(s.noc) :
              /\ PairDigits(s, x)[i] = Digit(x[2], s.noc, i)
              /\ PairDigits(s, x)[i] = Digits(x[2], s.noc)[i]
              /\ PairFactors(s)[i] = s.noc[i].factor
         /\ \A i \in 1 .. Len(s.dram) :
              /\ PairDigits(s, x)[Len(s.noc) + i] = Digit(x[1], s.dram, i)
              /\ PairDigits(s, x)[Len(s.noc) + i] = Digits(x[1], s.dram)[i]
              /\ PairFactors(s)[Len(s.noc) + i] = s.dram[i].factor
<1>1. x[1] \in Nat /\ x[2] \in Nat
  BY StepsAre DEF StepPairs
<1>2. \A i \in 1 .. Len(s.noc) :
        /\ PairDigits(s, x)[i] = Digit(x[2], s.noc, i)
        /\ PairDigits(s, x)[i] = Digits(x[2], s.noc)[i]
        /\ PairFactors(s)[i] = s.noc[i].factor
  BY PairsAre DEF PairDigits, PairFactors, Digits
<1>3. \A i \in 1 .. Len(s.dram) :
        /\ PairDigits(s, x)[Len(s.noc) + i] = Digit(x[1], s.dram, i)
        /\ PairDigits(s, x)[Len(s.noc) + i] = Digits(x[1], s.dram)[i]
        /\ PairFactors(s)[Len(s.noc) + i] = s.dram[i].factor
  BY PairsAre DEF PairDigits, PairFactors, Digits
<1>4. \A i \in 1 .. PairLen(s) :
        PairDigits(s, x)[i] \in Nat /\ PairDigits(s, x)[i] <= PairFactors(s)[i] - 1
  <2> SUFFICES ASSUME NEW i \in 1 .. PairLen(s)
               PROVE  PairDigits(s, x)[i] \in Nat /\ PairDigits(s, x)[i] <= PairFactors(s)[i] - 1
    OBVIOUS
  <2>1. CASE i \in 1 .. Len(s.noc)
    <3>1. i \in DOMAIN s.noc
      BY <2>1, PairsAre
    <3>2. Digit(x[2], s.noc, i) \in Nat /\ Digit(x[2], s.noc, i) <= s.noc[i].factor - 1
      BY <1>1, <3>1, DigitsOverAre
    <3> QED BY <1>2, <2>1, <3>2
  <2>2. CASE i \notin 1 .. Len(s.noc)
    <3>1. PICK k \in 1 .. Len(s.dram) : i = Len(s.noc) + k
      BY <2>2, PairsAre
    <3>2. k \in DOMAIN s.dram
      BY <3>1, PairsAre
    <3>3. Digit(x[1], s.dram, k) \in Nat /\ Digit(x[1], s.dram, k) <= s.dram[k].factor - 1
      BY <1>1, <3>2, DigitsOverAre
    <3> QED BY <1>3, <3>1, <3>3
  <2> QED BY <2>1, <2>2
<1>5. PairDigits(s, x) \in [1 .. PairLen(s) -> Nat]
  <2>1. PairDigits(s, x) = [i \in 1 .. PairLen(s) |-> PairDigits(s, x)[i]]
    BY DEF PairDigits
  <2> QED BY <1>4, <2>1
<1> QED BY <1>1, <1>2, <1>3, <1>4, <1>5 DEF IsDigits

(* The outer digits decide first, then the inner ones.                     *)
LEMMA LexJoined ==
  ASSUME NEW N \in Nat, NEW M \in Nat, NEW a, NEW b, NEW c, NEW d, NEW p, NEW q,
         \A i \in 1 .. N : p[i] = c[i] /\ q[i] = d[i],
         \A i \in 1 .. M : p[N + i] = a[i] /\ q[N + i] = b[i]
  PROVE  LexBefore(p, q, N + M)
           <=> \/ LexBefore(a, b, M)
               \/ (\A i \in 1 .. M : a[i] = b[i]) /\ LexBefore(c, d, N)
<1>1. ASSUME LexBefore(a, b, M) PROVE LexBefore(p, q, N + M)
  <2>1. PICK i \in 1 .. M : a[i] < b[i] /\ \A j \in i + 1 .. M : a[j] = b[j]
    BY <1>1 DEF LexBefore
  <2>2. N + i \in 1 .. N + M /\ p[N + i] < q[N + i]
    BY <2>1
  <2>3. ASSUME NEW j \in (N + i) + 1 .. N + M PROVE p[j] = q[j]
    <3>1. PICK k \in 1 .. M : j = N + k /\ k \in i + 1 .. M
      <4>1. j - N \in 1 .. M /\ j = N + (j - N) /\ j - N \in i + 1 .. M
        OBVIOUS
      <4> QED BY <4>1
    <3> QED BY <2>1, <3>1
  <2> QED BY <2>2, <2>3 DEF LexBefore
<1>2. ASSUME \A i \in 1 .. M : a[i] = b[i], LexBefore(c, d, N) PROVE LexBefore(p, q, N + M)
  <2>1. PICK i \in 1 .. N : c[i] < d[i] /\ \A j \in i + 1 .. N : c[j] = d[j]
    BY <1>2 DEF LexBefore
  <2>2. i \in 1 .. N + M /\ p[i] < q[i]
    BY <2>1
  <2>3. ASSUME NEW j \in i + 1 .. N + M PROVE p[j] = q[j]
    <3>1. CASE j <= N
      <4>1. j \in i + 1 .. N /\ j \in 1 .. N
        BY <3>1
      <4> QED BY <2>1, <4>1
    <3>2. CASE ~(j <= N)
      <4>1. PICK k \in 1 .. M : j = N + k
        <5>1. j - N \in 1 .. M /\ j = N + (j - N)
          BY <3>2
        <5> QED BY <5>1
      <4> QED BY <1>2, <4>1
    <3> QED BY <3>1, <3>2
  <2> QED BY <2>2, <2>3 DEF LexBefore
<1>3. ASSUME LexBefore(p, q, N + M)
      PROVE  \/ LexBefore(a, b, M)
             \/ (\A i \in 1 .. M : a[i] = b[i]) /\ LexBefore(c, d, N)
  <2>1. PICK i \in 1 .. N + M : p[i] < q[i] /\ \A j \in i + 1 .. N + M : p[j] = q[j]
    BY <1>3 DEF LexBefore
  <2>2. CASE i <= N
    <3>1. \A j \in 1 .. M : N + j \in i + 1 .. N + M
      BY <2>2
    <3>2. \A j \in 1 .. M : a[j] = b[j]
      BY <2>1, <3>1
    <3>3. i \in 1 .. N /\ \A j \in i + 1 .. N : j \in 1 .. N /\ j \in i + 1 .. N + M
      BY <2>2
    <3>4. LexBefore(c, d, N)
      BY <2>1, <3>3 DEF LexBefore
    <3> QED BY <3>2, <3>4
  <2>3. CASE ~(i <= N)
    <3>1. PICK k \in 1 .. M : i = N + k
      <4>1. i - N \in 1 .. M /\ i = N + (i - N)
        BY <2>3
      <4> QED BY <4>1
    <3>2. a[k] < b[k]
      BY <2>1, <3>1
    <3>3. ASSUME NEW j \in k + 1 .. M PROVE a[j] = b[j]
      <4>1. j \in 1 .. M /\ N + j \in i + 1 .. N + M
        BY <3>1
      <4> QED BY <2>1, <4>1
    <3> QED BY <3>2, <3>3 DEF LexBefore
  <2> QED BY <2>2, <2>3
<1> QED BY <1>1, <1>2, <1>3

(* A pair of steps is sooner when its digits come first.                   *)
LEMMA PairLex ==
  ASSUME NEW s, s.noc \in Loops, s.dram \in Loops, NEW x \in StepPairs(s), NEW y \in StepPairs(s)
  PROVE  Sooner(x, y) <=> LexBefore(PairDigits(s, x), PairDigits(s, y), PairLen(s))
<1>1. PICK N \in Nat, M \in Nat : N = Len(s.noc) /\ M = Len(s.dram) /\ PairLen(s) = N + M
  BY PairsAre DEF PairLen
<1>2. PICK a, b, c, d, p, q :
         /\ a = Digits(x[1], s.dram) /\ b = Digits(y[1], s.dram)
         /\ c = Digits(x[2], s.noc) /\ d = Digits(y[2], s.noc)
         /\ p = PairDigits(s, x) /\ q = PairDigits(s, y)
  OBVIOUS
<1>3. /\ \A i \in 1 .. N : p[i] = c[i] /\ q[i] = d[i]
      /\ \A i \in 1 .. M : p[N + i] = a[i] /\ q[N + i] = b[i]
  BY <1>1, <1>2, PairDigitsAre
<1>4. /\ x[1] < y[1] <=> LexBefore(a, b, M)
      /\ x[2] < y[2] <=> LexBefore(c, d, N)
      /\ y[1] < x[1] <=> LexBefore(b, a, M)
  BY <1>1, <1>2, StepsLex DEF StepPairs
<1>5. x[1] \in Nat /\ y[1] \in Nat
  BY PairDigitsAre
<1>6. \A i \in 1 .. M : a[i] \in Nat /\ b[i] \in Nat
  <2>1. IsDigits(a, FactorsOver(s.dram, Dims), M) /\ IsDigits(b, FactorsOver(s.dram, Dims), M)
    BY <1>1, <1>2, <1>5, StepsAre
  <2> QED BY <2>1 DEF IsDigits
<1>7. x[1] = y[1] <=> \A i \in 1 .. M : a[i] = b[i]
  <2>1. x[1] = y[1] => a = b
    BY <1>2
  <2>2. ASSUME \A i \in 1 .. M : a[i] = b[i] PROVE x[1] = y[1]
    <3>1. ~LexBefore(a, b, M) /\ ~LexBefore(b, a, M)
      BY <1>6, <2>2 DEF LexBefore
    <3> QED BY <1>4, <1>5, <3>1
  <2> QED BY <2>1, <2>2
<1>8. LexBefore(p, q, N + M)
        <=> \/ LexBefore(a, b, M)
            \/ (\A i \in 1 .. M : a[i] = b[i]) /\ LexBefore(c, d, N)
  BY <1>3, LexJoined
<1> QED BY <1>1, <1>2, <1>4, <1>7, <1>8 DEF Sooner

(* Pairs counted by one number are in the same order.                      *)
LEMMA PairOrder ==
  ASSUME NEW S \in Nat \ {0}, NEW a \in Nat, NEW b \in 0 .. S - 1, NEW c \in Nat, NEW d \in 0 .. S - 1
  PROVE  /\ a * S + b \in Nat /\ c * S + d \in Nat
         /\ a * S + b < c * S + d <=> (a < c \/ (a = c /\ b < d))
<1>1. a * S \in Nat /\ c * S \in Nat
  OBVIOUS
<1>2. ASSUME NEW i \in Nat, NEW j \in Nat, i < j PROVE i * S \in Nat /\ j * S \in Nat /\ i * S + S <= j * S
  <2>1. i + 1 \in Nat /\ i + 1 <= j
    BY <1>2
  <2>2. (i + 1) * S <= j * S /\ (i + 1) * S = i * S + S /\ i * S \in Nat /\ j * S \in Nat
    BY <2>1, ProductOrder
  <2> QED BY <2>2
<1>3. CASE a < c
  BY <1>2, <1>3
<1>4. CASE c < a
  BY <1>2, <1>4
<1>5. CASE a = c
  BY <1>1, <1>5
<1> QED BY <1>1, <1>3, <1>4, <1>5

(* The pairs of steps walk through the digits of both levels in order.     *)
LEMMA PairWalk ==
  ASSUME NEW s, s.noc \in Loops, s.dram \in Loops
  PROVE  IsWalk(StepPairs(s), [x \in StepPairs(s) |-> PairDigits(s, x)],
                [x \in StepPairs(s) |-> PairRank(s, x)], PairFactors(s), PairLen(s))
<1> DEFINE S == StepPairs(s)
           vec == [x \in S |-> PairDigits(s, x)]
           rank == [x \in S |-> PairRank(s, x)]
           f == PairFactors(s)
           n == PairLen(s)
<1>1. n \in Nat /\ f \in [1 .. n -> Nat \ {0}]
  <2>1. n \in Nat
    BY PairsAre
  <2>2. ASSUME NEW i \in 1 .. n PROVE f[i] \in Nat \ {0}
    <3>1. CASE i \in 1 .. Len(s.noc)
      <4>1. f[i] = s.noc[i].factor
        BY <3>1, PairsAre DEF PairFactors
      <4> QED BY <3>1, <4>1, NestIs
    <3>2. CASE i \notin 1 .. Len(s.noc)
      <4>1. PICK k \in 1 .. Len(s.dram) : i = Len(s.noc) + k
        BY <3>2, PairsAre
      <4>2. f[i] = s.dram[k].factor
        BY <4>1, PairsAre DEF PairFactors
      <4> QED BY <4>1, <4>2, NestIs
    <3> QED BY <3>1, <3>2
  <2>3. f = [i \in 1 .. n |-> f[i]]
    BY DEF PairFactors
  <2> HIDE DEF f, n
  <2> QED BY <2>1, <2>2, <2>3
<1>2. ASSUME NEW x \in S PROVE /\ IsDigits(vec[x], f, n)
                               /\ \A y \in S : rank[x] < rank[y] <=> LexBefore(vec[x], vec[y], n)
                               /\ rank[x] \in Nat
  <2>1. IsDigits(vec[x], f, n)
    BY PairDigitsAre
  <2>2. ASSUME NEW y \in S PROVE rank[x] \in Nat /\ (rank[x] < rank[y] <=> Sooner(x, y))
    <3>1. PICK m \in Nat \ {0} : m = Steps(s.noc)
      BY StepsAre
    <3>2. x[1] \in Nat /\ y[1] \in Nat /\ x[2] \in 0 .. m - 1 /\ y[2] \in 0 .. m - 1
      BY <3>1, PairDigitsAre DEF StepPairs
    <3>3. rank[x] = x[1] * m + x[2] /\ rank[y] = y[1] * m + y[2]
      BY <3>1 DEF PairRank
    <3>4. PICK a \in Nat, b \in 0 .. m - 1, c \in Nat, e \in 0 .. m - 1 :
            a = x[1] /\ b = x[2] /\ c = y[1] /\ e = y[2]
      BY <3>2
    <3>5. /\ a * m + b \in Nat /\ c * m + e \in Nat
          /\ a * m + b < c * m + e <=> (a < c \/ (a = c /\ b < e))
      BY ONLY m \in Nat \ {0}, a \in Nat, b \in 0 .. m - 1, c \in Nat, e \in 0 .. m - 1, PairOrder
    <3>6. rank[x] = a * m + b /\ rank[y] = c * m + e
      BY <3>3, <3>4
    <3>7. Sooner(x, y) <=> (a < c \/ (a = c /\ b < e))
      BY <3>4 DEF Sooner
    <3> HIDE DEF rank
    <3> QED BY <3>5, <3>6, <3>7
  <2>3. \A y \in S : Sooner(x, y) <=> LexBefore(vec[x], vec[y], n)
    BY PairLex
  <2> HIDE DEF S, vec, rank, n
  <2> QED BY <2>1, <2>2, <2>3
<1>3. ASSUME NEW d, IsDigits(d, f, n) PROVE \E x \in S : vec[x] = d
  <2>1. PICK N \in Nat, M \in Nat : N = Len(s.noc) /\ M = Len(s.dram) /\ n = N + M
    BY PairsAre DEF PairLen
  <2> DEFINE c == [i \in 1 .. N |-> d[i]]
             b == [i \in 1 .. M |-> d[N + i]]
  <2>2. /\ \A i \in 1 .. N : i \in 1 .. n
        /\ \A i \in 1 .. M : N + i \in 1 .. n
    <3>1. /\ \A i \in 1 .. N : i \in 1 .. N + M
          /\ \A i \in 1 .. M : N + i \in 1 .. N + M
      BY ONLY N \in Nat, M \in Nat, Pieces
    <3> HIDE DEF n
    <3> QED BY <2>1, <3>1
  <2>3. d \in [1 .. n -> Nat] /\ \A i \in 1 .. n : d[i] <= f[i] - 1
    BY <1>3 DEF IsDigits
  <2>4. IsDigits(c, FactorsOver(s.noc, Dims), N)
    <3>1. \A i \in 1 .. N : f[i] = s.noc[i].factor /\ FactorsOver(s.noc, Dims)[i] = s.noc[i].factor
      BY <2>1, PairsAre, NestIs DEF PairFactors, FactorsOver
    <3> HIDE DEF f, n
    <3>2. \A i \in 1 .. N : c[i] = d[i] /\ d[i] \in Nat /\ d[i] <= FactorsOver(s.noc, Dims)[i] - 1
      BY <2>2, <2>3, <3>1
    <3>3. c \in [1 .. N -> Nat]
      BY <3>2
    <3> HIDE DEF c
    <3> QED BY <3>2, <3>3 DEF IsDigits
  <2>5. IsDigits(b, FactorsOver(s.dram, Dims), M)
    <3>1. \A i \in 1 .. M :
            f[N + i] = s.dram[i].factor /\ FactorsOver(s.dram, Dims)[i] = s.dram[i].factor
      BY <2>1, PairsAre, NestIs DEF PairFactors, FactorsOver
    <3> HIDE DEF f, n
    <3>2. \A i \in 1 .. M :
            b[i] = d[N + i] /\ d[N + i] \in Nat /\ d[N + i] <= FactorsOver(s.dram, Dims)[i] - 1
      BY <2>2, <2>3, <3>1
    <3>3. b \in [1 .. M -> Nat]
      BY <3>2
    <3> HIDE DEF b
    <3> QED BY <3>2, <3>3 DEF IsDigits
  <2>6. PICK y \in 0 .. Steps(s.noc) - 1 : Digits(y, s.noc) = c
    <3> HIDE DEF c
    <3> QED BY <2>1, <2>4, StepsAre
  <2>7. PICK z \in 0 .. Steps(s.dram) - 1 : Digits(z, s.dram) = b
    <3> HIDE DEF b
    <3> QED BY <2>1, <2>5, StepsAre
  <2>8. PICK x \in S : x[1] = z /\ x[2] = y
    <3>1. <<z, y>> \in S /\ <<z, y>>[1] = z /\ <<z, y>>[2] = y
      BY DEF StepPairs
    <3> HIDE DEF S
    <3> QED BY <3>1
  <2>9. /\ \A i \in 1 .. N : PairDigits(s, x)[i] = c[i]
        /\ \A i \in 1 .. M : PairDigits(s, x)[N + i] = b[i]
    BY <2>1, <2>6, <2>7, <2>8, PairDigitsAre
  <2>10. ASSUME NEW i \in 1 .. n PROVE PairDigits(s, x)[i] = d[i]
    <3>1. CASE i \in 1 .. N
      BY <2>9, <3>1
    <3>2. CASE i \notin 1 .. N
      <4>1. PICK k \in 1 .. Len(s.dram) : i = Len(s.noc) + k
        <5>1. i \notin 1 .. Len(s.noc) /\ i \in 1 .. PairLen(s)
          BY <2>1, <3>2
        <5> QED BY <5>1, PairsAre
      <4>2. k \in 1 .. M /\ i = N + k
        BY <2>1, <4>1
      <4>3. b[k] = d[N + k]
        BY <4>2
      <4> HIDE DEF b
      <4> QED BY <2>9, <4>2, <4>3
    <3> QED BY <3>1, <3>2
  <2>11. PairDigits(s, x) \in [1 .. n -> Nat]
    BY PairDigitsAre DEF IsDigits
  <2>12. PairDigits(s, x) = d
    <3>1. PICK p, m : p = PairDigits(s, x) /\ m = 1 .. n
      OBVIOUS
    <3>2. /\ p \in [m -> Nat] /\ d \in [m -> Nat]
          /\ \A i \in m : p[i] = d[i]
      BY <2>3, <2>10, <2>11, <3>1
    <3>3. p = d
      BY ONLY <3>2
    <3> QED BY <3>1, <3>3
  <2> QED BY <2>12
<1> QED BY <1>1, <1>2, <1>3 DEF IsWalk

(* A combined index is zero when both indices are.                         *)
LEMMA CombinedFirst ==
  ASSUME NEW s, s.noc \in Loops, s.dram \in Loops, NEW d \in Nat, NEW n \in Nat, NEW dim
  PROVE  CombinedIndex(s, d, n, dim) = 0
           <=> Index(n, s.noc, dim) = 0 /\ Index(d, s.dram, dim) = 0
<1>1. PICK t \in Nat \ {0}, i \in Nat, j \in Nat :
        t = Total(s.noc, dim) /\ i = Index(n, s.noc, dim) /\ j = Index(d, s.dram, dim)
  BY IndexRange
<1>2. i + t * j = 0 <=> i = 0 /\ j = 0
  <2>1. CASE j = 0
    BY <2>1
  <2>2. CASE j # 0
    <3>1. 1 * t <= j * t /\ j * t = t * j /\ t * j \in Nat
      <4>1. 1 \in Nat /\ 1 <= j
        BY <2>2
      <4>2. 1 * t <= j * t
        BY <4>1, ProductOrder
      <4> QED BY <4>2
    <3> QED BY <2>2, <3>1
  <2> QED BY <2>1, <2>2
<1> QED BY <1>1, <1>2 DEF CombinedIndex

SamePairTile(s, C, x, y) ==
  \A dim \in Dims \ C : CombinedIndex(s, x[1], x[2], dim) = CombinedIndex(s, y[1], y[2], dim)

(* Where the digits of a step are, by dimension.                           *)
LEMMA PairPositionsAre ==
  ASSUME NEW s, s.noc \in Loops, s.dram \in Loops, NEW C
  PROVE  /\ \A i \in 1 .. Len(s.noc) : i \in PairPositions(s, C) <=> s.noc[i].dim \in C
         /\ \A i \in 1 .. Len(s.dram) :
              Len(s.noc) + i \in PairPositions(s, C) <=> s.dram[i].dim \in C
BY PairsAre DEF PairPositions

(* Two pairs of steps are at the same tile if they differ in digits of     *)
(* carried dimensions alone.                                               *)
LEMMA SamePairTileIs ==
  ASSUME NEW s, s.noc \in Loops, s.dram \in Loops, NEW C,
         NEW x \in StepPairs(s), NEW y \in StepPairs(s)
  PROVE  SamePairTile(s, C, x, y)
           <=> SameBut(PairDigits(s, x), PairDigits(s, y), PairPositions(s, C), PairLen(s))
<1>1. SamePairTile(s, C, x, y)
        <=> SameTile(s.noc, C, x[2], y[2]) /\ SameTile(s.dram, C, x[1], y[1])
  <2>1. x[1] \in Nat /\ x[2] \in Nat /\ y[1] \in Nat /\ y[2] \in Nat
    BY PairDigitsAre
  <2>2. \A dim : CombinedIndex(s, x[1], x[2], dim) = CombinedIndex(s, y[1], y[2], dim)
          <=> /\ Index(x[2], s.noc, dim) = Index(y[2], s.noc, dim)
              /\ Index(x[1], s.dram, dim) = Index(y[1], s.dram, dim)
    BY <2>1, CombinedIndexIs
  <2> QED BY <2>2 DEF SamePairTile, SameTile
<1>2. /\ x[1] \in 0 .. Steps(s.dram) - 1 /\ y[1] \in 0 .. Steps(s.dram) - 1
      /\ x[2] \in 0 .. Steps(s.noc) - 1 /\ y[2] \in 0 .. Steps(s.noc) - 1
  BY DEF StepPairs
<1>3. /\ SameTile(s.noc, C, x[2], y[2])
           <=> \A i \in 1 .. Len(s.noc) :
                 s.noc[i].dim \notin C => Digits(x[2], s.noc)[i] = Digits(y[2], s.noc)[i]
      /\ SameTile(s.dram, C, x[1], y[1])
           <=> \A i \in 1 .. Len(s.dram) :
                 s.dram[i].dim \notin C => Digits(x[1], s.dram)[i] = Digits(y[1], s.dram)[i]
  <2>1. ASSUME NEW loops \in Loops, NEW a \in 0 .. Steps(loops) - 1, NEW b \in 0 .. Steps(loops) - 1
        PROVE  SameTile(loops, C, a, b)
                 <=> \A i \in 1 .. Len(loops) :
                       loops[i].dim \notin C => Digits(a, loops)[i] = Digits(b, loops)[i]
    <3>1. DOMAIN loops = 1 .. Len(loops)
      BY NestIs
    <3> QED BY <3>1, SameTileIs DEF SameBut
  <2> QED BY <1>2, <2>1
<1>4. ASSUME NEW i \in 1 .. Len(s.noc)
      PROVE  (i \notin PairPositions(s, C) => PairDigits(s, x)[i] = PairDigits(s, y)[i])
               <=> (s.noc[i].dim \notin C => Digits(x[2], s.noc)[i] = Digits(y[2], s.noc)[i])
  BY PairPositionsAre, PairDigitsAre
<1>5. ASSUME NEW i \in 1 .. Len(s.dram)
      PROVE  (Len(s.noc) + i \notin PairPositions(s, C)
                => PairDigits(s, x)[Len(s.noc) + i] = PairDigits(s, y)[Len(s.noc) + i])
               <=> (s.dram[i].dim \notin C => Digits(x[1], s.dram)[i] = Digits(y[1], s.dram)[i])
  BY PairPositionsAre, PairDigitsAre
<1>6. /\ \A i \in 1 .. Len(s.noc) : i \in 1 .. PairLen(s)
      /\ \A i \in 1 .. Len(s.dram) : Len(s.noc) + i \in 1 .. PairLen(s)
      /\ \A i \in 1 .. PairLen(s) :
           i \in 1 .. Len(s.noc) \/ \E k \in 1 .. Len(s.dram) : i = Len(s.noc) + k
  BY PairsAre
<1>7. SameBut(PairDigits(s, x), PairDigits(s, y), PairPositions(s, C), PairLen(s))
        <=> /\ \A i \in 1 .. Len(s.noc) :
                 i \notin PairPositions(s, C) => PairDigits(s, x)[i] = PairDigits(s, y)[i]
            /\ \A i \in 1 .. Len(s.dram) :
                 Len(s.noc) + i \notin PairPositions(s, C)
                   => PairDigits(s, x)[Len(s.noc) + i] = PairDigits(s, y)[Len(s.noc) + i]
  BY <1>6 DEF SameBut
<1> QED BY <1>1, <1>3, <1>4, <1>5, <1>7

(* The first or the last over C, by the digits.                            *)
LEMMA PairEnds ==
  ASSUME NEW s, s.noc \in Loops, s.dram \in Loops, NEW C, NEW x \in StepPairs(s)
  PROVE  /\ IsLast(s, x[1], x[2], C)
              <=> \A i \in 1 .. PairLen(s) :
                    i \in PairPositions(s, C) => PairDigits(s, x)[i] = PairFactors(s)[i] - 1
         /\ IsFirst(s, x[1], x[2], C)
              <=> \A i \in 1 .. PairLen(s) :
                    i \in PairPositions(s, C) => PairDigits(s, x)[i] = 0
<1>1. /\ x[1] \in Nat /\ x[2] \in Nat
      /\ DOMAIN s.noc = 1 .. Len(s.noc) /\ DOMAIN s.dram = 1 .. Len(s.dram)
  BY PairDigitsAre, PairsAre
<1>2. ASSUME NEW dim
      PROVE  /\ CombinedIndex(s, x[1], x[2], dim) = Total(s.noc, dim) * Total(s.dram, dim) - 1
                  <=> /\ \A i \in 1 .. Len(s.noc) : s.noc[i].dim = dim =>
                           Digit(x[2], s.noc, i) = s.noc[i].factor - 1
                      /\ \A i \in 1 .. Len(s.dram) : s.dram[i].dim = dim =>
                           Digit(x[1], s.dram, i) = s.dram[i].factor - 1
             /\ CombinedIndex(s, x[1], x[2], dim) = 0
                  <=> /\ \A i \in 1 .. Len(s.noc) : s.noc[i].dim = dim => Digit(x[2], s.noc, i) = 0
                      /\ \A i \in 1 .. Len(s.dram) : s.dram[i].dim = dim => Digit(x[1], s.dram, i) = 0
  <2>1. /\ CombinedIndex(s, x[1], x[2], dim) = Total(s.noc, dim) * Total(s.dram, dim) - 1
             <=> /\ Index(x[2], s.noc, dim) = Total(s.noc, dim) - 1
                 /\ Index(x[1], s.dram, dim) = Total(s.dram, dim) - 1
        /\ CombinedIndex(s, x[1], x[2], dim) = 0
             <=> Index(x[2], s.noc, dim) = 0 /\ Index(x[1], s.dram, dim) = 0
    <3>1. PICK d \in Nat, m \in Nat : d = x[1] /\ m = x[2]
      BY <1>1
    <3>2. /\ CombinedIndex(s, d, m, dim) = Total(s.noc, dim) * Total(s.dram, dim) - 1
               <=> /\ Index(m, s.noc, dim) = Total(s.noc, dim) - 1
                   /\ Index(d, s.dram, dim) = Total(s.dram, dim) - 1
      BY CombinedIndexIs
    <3>3. CombinedIndex(s, d, m, dim) = 0 <=> Index(m, s.noc, dim) = 0 /\ Index(d, s.dram, dim) = 0
      BY CombinedFirst
    <3> QED BY <3>1, <3>2, <3>3
  <2>2. /\ Index(x[2], s.noc, dim) = Total(s.noc, dim) - 1
             <=> \A i \in 1 .. Len(s.noc) : s.noc[i].dim = dim =>
                   Digit(x[2], s.noc, i) = s.noc[i].factor - 1
        /\ Index(x[2], s.noc, dim) = 0
             <=> \A i \in 1 .. Len(s.noc) : s.noc[i].dim = dim => Digit(x[2], s.noc, i) = 0
    <3>1. Index(x[2], s.noc, dim) = Total(s.noc, dim) - 1
            <=> \A i \in DOMAIN s.noc : s.noc[i].dim = dim => Digit(x[2], s.noc, i) = s.noc[i].factor - 1
      BY <1>1, LastIndex
    <3>2. Index(x[2], s.noc, dim) = 0
            <=> \A i \in DOMAIN s.noc : s.noc[i].dim = dim => Digit(x[2], s.noc, i) = 0
      BY <1>1, FirstIndex
    <3> QED BY <1>1, <3>1, <3>2
  <2>3. /\ Index(x[1], s.dram, dim) = Total(s.dram, dim) - 1
             <=> \A i \in 1 .. Len(s.dram) : s.dram[i].dim = dim =>
                   Digit(x[1], s.dram, i) = s.dram[i].factor - 1
        /\ Index(x[1], s.dram, dim) = 0
             <=> \A i \in 1 .. Len(s.dram) : s.dram[i].dim = dim => Digit(x[1], s.dram, i) = 0
    <3>1. Index(x[1], s.dram, dim) = Total(s.dram, dim) - 1
            <=> \A i \in DOMAIN s.dram : s.dram[i].dim = dim => Digit(x[1], s.dram, i) = s.dram[i].factor - 1
      BY <1>1, LastIndex
    <3>2. Index(x[1], s.dram, dim) = 0
            <=> \A i \in DOMAIN s.dram : s.dram[i].dim = dim => Digit(x[1], s.dram, i) = 0
      BY <1>1, FirstIndex
    <3> QED BY <1>1, <3>1, <3>2
  <2> QED BY ONLY <2>1, <2>2, <2>3
<1>3. IsLast(s, x[1], x[2], C)
        <=> /\ \A i \in 1 .. Len(s.noc) : s.noc[i].dim \in C =>
                 Digit(x[2], s.noc, i) = s.noc[i].factor - 1
            /\ \A i \in 1 .. Len(s.dram) : s.dram[i].dim \in C =>
                 Digit(x[1], s.dram, i) = s.dram[i].factor - 1
  BY <1>2 DEF IsLast
<1>4. IsFirst(s, x[1], x[2], C)
        <=> /\ \A i \in 1 .. Len(s.noc) : s.noc[i].dim \in C => Digit(x[2], s.noc, i) = 0
            /\ \A i \in 1 .. Len(s.dram) : s.dram[i].dim \in C => Digit(x[1], s.dram, i) = 0
  BY <1>2 DEF IsFirst
<1>5. /\ \A i \in 1 .. Len(s.noc) :
           /\ i \in PairPositions(s, C) <=> s.noc[i].dim \in C
           /\ PairDigits(s, x)[i] = Digit(x[2], s.noc, i)
           /\ PairFactors(s)[i] = s.noc[i].factor /\ i \in 1 .. PairLen(s)
      /\ \A i \in 1 .. Len(s.dram) :
           /\ Len(s.noc) + i \in PairPositions(s, C) <=> s.dram[i].dim \in C
           /\ PairDigits(s, x)[Len(s.noc) + i] = Digit(x[1], s.dram, i)
           /\ PairFactors(s)[Len(s.noc) + i] = s.dram[i].factor
           /\ Len(s.noc) + i \in 1 .. PairLen(s)
  <2>1. /\ \A i \in 1 .. Len(s.noc) :
             i \in PairPositions(s, C) <=> s.noc[i].dim \in C
        /\ \A i \in 1 .. Len(s.dram) :
             Len(s.noc) + i \in PairPositions(s, C) <=> s.dram[i].dim \in C
    BY PairPositionsAre
  <2>2. /\ \A i \in 1 .. Len(s.noc) : /\ PairDigits(s, x)[i] = Digit(x[2], s.noc, i)
                                      /\ PairFactors(s)[i] = s.noc[i].factor
        /\ \A i \in 1 .. Len(s.dram) : /\ PairDigits(s, x)[Len(s.noc) + i] = Digit(x[1], s.dram, i)
                                       /\ PairFactors(s)[Len(s.noc) + i] = s.dram[i].factor
    BY PairDigitsAre
  <2>3. /\ \A i \in 1 .. Len(s.noc) : i \in 1 .. PairLen(s)
        /\ \A i \in 1 .. Len(s.dram) : Len(s.noc) + i \in 1 .. PairLen(s)
    BY PairsAre
  <2> QED BY ONLY <2>1, <2>2, <2>3
<1>6. \A i \in 1 .. PairLen(s) :
        i \in 1 .. Len(s.noc) \/ \E k \in 1 .. Len(s.dram) : i = Len(s.noc) + k
  BY PairsAre
<1>7. (\A i \in 1 .. PairLen(s) :
         i \in PairPositions(s, C) => PairDigits(s, x)[i] = PairFactors(s)[i] - 1)
        <=> /\ \A i \in 1 .. Len(s.noc) : s.noc[i].dim \in C =>
                 Digit(x[2], s.noc, i) = s.noc[i].factor - 1
            /\ \A i \in 1 .. Len(s.dram) : s.dram[i].dim \in C =>
                 Digit(x[1], s.dram, i) = s.dram[i].factor - 1
  <2>1. (\A i \in 1 .. PairLen(s) :
           i \in PairPositions(s, C) => PairDigits(s, x)[i] = PairFactors(s)[i] - 1)
          <=> /\ \A i \in 1 .. Len(s.noc) :
                   i \in PairPositions(s, C) => PairDigits(s, x)[i] = PairFactors(s)[i] - 1
              /\ \A i \in 1 .. Len(s.dram) : Len(s.noc) + i \in PairPositions(s, C) =>
                   PairDigits(s, x)[Len(s.noc) + i] = PairFactors(s)[Len(s.noc) + i] - 1
    <3>1. PICK Q : \A i \in 1 .. PairLen(s) :
                     i \in Q <=> (i \in PairPositions(s, C)
                                    => PairDigits(s, x)[i] = PairFactors(s)[i] - 1)
      <4> WITNESS {i \in 1 .. PairLen(s) :
                     i \in PairPositions(s, C) => PairDigits(s, x)[i] = PairFactors(s)[i] - 1}
      <4> QED OBVIOUS
    <3>2. /\ \A i \in 1 .. Len(s.noc) : i \in 1 .. PairLen(s)
          /\ \A i \in 1 .. Len(s.dram) : Len(s.noc) + i \in 1 .. PairLen(s)
      BY <1>5
    <3>3. (\A i \in 1 .. PairLen(s) : i \in Q)
            <=> /\ \A i \in 1 .. Len(s.noc) : i \in Q
                /\ \A i \in 1 .. Len(s.dram) : Len(s.noc) + i \in Q
      BY ONLY <1>6, <3>2
    <3> QED BY ONLY <3>1, <3>2, <3>3
  <2>2. (\A i \in 1 .. Len(s.noc) :
           i \in PairPositions(s, C) => PairDigits(s, x)[i] = PairFactors(s)[i] - 1)
          <=> \A i \in 1 .. Len(s.noc) : s.noc[i].dim \in C =>
                Digit(x[2], s.noc, i) = s.noc[i].factor - 1
    BY ONLY <1>5
  <2>3. (\A i \in 1 .. Len(s.dram) : Len(s.noc) + i \in PairPositions(s, C) =>
           PairDigits(s, x)[Len(s.noc) + i] = PairFactors(s)[Len(s.noc) + i] - 1)
          <=> \A i \in 1 .. Len(s.dram) : s.dram[i].dim \in C =>
                Digit(x[1], s.dram, i) = s.dram[i].factor - 1
    BY ONLY <1>5
  <2> QED BY ONLY <2>1, <2>2, <2>3
<1>8. (\A i \in 1 .. PairLen(s) : i \in PairPositions(s, C) => PairDigits(s, x)[i] = 0)
        <=> /\ \A i \in 1 .. Len(s.noc) : s.noc[i].dim \in C => Digit(x[2], s.noc, i) = 0
            /\ \A i \in 1 .. Len(s.dram) : s.dram[i].dim \in C => Digit(x[1], s.dram, i) = 0
  BY <1>5, <1>6
<1> QED BY <1>3, <1>4, <1>7, <1>8

(* The same for the node as for the buffer.                                *)
LEMMA NodeRevisits ==
  ASSUME NEW s, s.noc \in Loops, s.dram \in Loops, NEW C,
         NEW x \in StepPairs(s), NEW y \in StepPairs(s), Sooner(x, y), SamePairTile(s, C, x, y)
  PROVE  /\ ~IsLast(s, x[1], x[2], C) /\ ~IsFirst(s, y[1], y[2], C)
         /\ KeptInNode(s, C) =>
              \A t \in StepPairs(s) : Sooner(x, t) /\ Sooner(t, y) => SamePairTile(s, C, x, t)
<1> DEFINE S == StepPairs(s)
           vec == [z \in S |-> PairDigits(s, z)]
           rank == [z \in S |-> PairRank(s, z)]
           f == PairFactors(s)
           n == PairLen(s)
           P == PairPositions(s, C)
<1>1. IsWalk(S, vec, rank, f, n)
  BY PairWalk
<1>2. \A z, t \in S : rank[z] < rank[t] <=> Sooner(z, t)
  <2>1. \A z, t \in S : rank[z] < rank[t] <=> LexBefore(vec[z], vec[t], n)
    BY <1>1 DEF IsWalk
  <2>2. \A z, t \in S : Sooner(z, t) <=> LexBefore(vec[z], vec[t], n)
    BY PairLex
  <2> QED BY <2>1, <2>2
<1>3. \A z, t \in S : SamePairTile(s, C, z, t) <=> SameBut(vec[z], vec[t], P, n)
  BY SamePairTileIs
<1>4. /\ IsLast(s, x[1], x[2], C) <=> \A i \in 1 .. n : i \in P => vec[x][i] = f[i] - 1
      /\ IsFirst(s, y[1], y[2], C) <=> \A i \in 1 .. n : i \in P => vec[y][i] = 0
  BY PairEnds
<1>5. KeptInNode(s, C) => \A i, j \in 1 .. n : i < j /\ j \in P => i \in P
  <2> SUFFICES ASSUME KeptInNode(s, C), NEW i \in 1 .. n, NEW j \in 1 .. n, i < j, j \in P
               PROVE  i \in P
    OBVIOUS
  <2>1. i \in DOMAIN (s.noc \o s.dram) /\ j \in DOMAIN (s.noc \o s.dram)
    BY PairsAre
  <2>2. (s.noc \o s.dram)[j].dim \in C
    BY DEF PairPositions
  <2>3. (s.noc \o s.dram)[i].dim \in C
    BY <2>1, <2>2 DEF KeptInNode, Innermost
  <2> QED BY <2>3 DEF PairPositions
<1>6. x \in S /\ y \in S
  OBVIOUS
<1> HIDE DEF S, vec, rank, f, n, P
<1>7. /\ \E i \in 1 .. n : i \in P /\ vec[x][i] # f[i] - 1
      /\ \E i \in 1 .. n : i \in P /\ vec[y][i] # 0
  BY <1>1, <1>2, <1>3, <1>6, WalkRevisits
<1>8. ASSUME KeptInNode(s, C), NEW t \in S, Sooner(x, t), Sooner(t, y)
      PROVE  SamePairTile(s, C, x, t)
  BY <1>1, <1>2, <1>3, <1>5, <1>6, <1>8, WalkStays
<1> QED BY <1>4, <1>7, <1>8 DEF S

(* A visit that is not the first comes after a latest earlier one, on      *)
(* either level.                                                           *)
LEMMA NodeLastVisit ==
  ASSUME NEW s, s.noc \in Loops, s.dram \in Loops, NEW C, NEW y \in StepPairs(s),
         ~IsFirst(s, y[1], y[2], C)
  PROVE  \E x \in StepPairs(s) :
           /\ Sooner(x, y) /\ SamePairTile(s, C, x, y)
           /\ \A t \in StepPairs(s) : Sooner(x, t) /\ Sooner(t, y) => ~SamePairTile(s, C, t, y)
<1> DEFINE S == StepPairs(s)
           vec == [z \in S |-> PairDigits(s, z)]
           rank == [z \in S |-> PairRank(s, z)]
           f == PairFactors(s)
           n == PairLen(s)
           P == PairPositions(s, C)
<1>1. IsWalk(S, vec, rank, f, n)
  BY PairWalk
<1>2. \A z, t \in S : rank[z] < rank[t] <=> Sooner(z, t)
  <2>1. \A z, t \in S : rank[z] < rank[t] <=> LexBefore(vec[z], vec[t], n)
    BY <1>1 DEF IsWalk
  <2>2. \A z, t \in S : Sooner(z, t) <=> LexBefore(vec[z], vec[t], n)
    BY PairLex
  <2> QED BY <2>1, <2>2
<1>3. \A z, t \in S : SamePairTile(s, C, z, t) <=> SameBut(vec[z], vec[t], P, n)
  BY SamePairTileIs
<1>4. PICK i \in 1 .. n : i \in P /\ vec[y][i] # 0
  BY PairEnds
<1>5. y \in S
  OBVIOUS
<1> HIDE DEF S, vec, rank, f, n, P
<1>6. PICK x \in S : /\ rank[x] < rank[y] /\ SameBut(vec[x], vec[y], P, n)
                     /\ \A t \in S : rank[x] < rank[t] /\ rank[t] < rank[y]
                                       => ~SameBut(vec[t], vec[y], P, n)
  BY <1>1, <1>4, <1>5, WalkLastVisit
<1>7. /\ Sooner(x, y) /\ SamePairTile(s, C, x, y)
      /\ \A t \in S : Sooner(x, t) /\ Sooner(t, y) => ~SamePairTile(s, C, t, y)
  BY <1>2, <1>3, <1>5, <1>6
<1> QED BY <1>7 DEF S

(* In some step of a nest every dimension has come to its end.             *)
LEMMA LastStepExists ==
  ASSUME NEW loops \in Loops
  PROVE  \E n \in 0 .. Steps(loops) - 1 : \A dim : Index(n, loops, dim) = Total(loops, dim) - 1
<1> DEFINE f == FactorsOver(loops, Dims)
           d == [i \in 1 .. Len(loops) |-> f[i] - 1]
<1>1. DOMAIN loops = 1 .. Len(loops)
  BY NestIs
<1>2. \A i \in 1 .. Len(loops) : f[i] = loops[i].factor /\ loops[i].factor \in Nat \ {0}
  BY NestIs DEF FactorsOver
<1>3. IsDigits(d, f, Len(loops))
  <2>1. \A i \in 1 .. Len(loops) : d[i] \in Nat /\ d[i] = f[i] - 1
    BY <1>2
  <2>2. d \in [1 .. Len(loops) -> Nat]
    BY <2>1
  <2>3. \A i \in 1 .. Len(loops) : d[i] <= f[i] - 1
    BY <1>2, <2>1
  <2> HIDE DEF d, f
  <2> QED BY <2>2, <2>3 DEF IsDigits
<1>4. PICK n \in 0 .. Steps(loops) - 1 : Digits(n, loops) = d
  <2> HIDE DEF d
  <2> QED BY <1>3, StepsAre
<1>5. n \in Nat
  BY StepsAre
<1>6. \A i \in DOMAIN loops : Digit(n, loops, i) = loops[i].factor - 1
  <2> SUFFICES ASSUME NEW i \in DOMAIN loops PROVE Digit(n, loops, i) = loops[i].factor - 1
    OBVIOUS
  <2>1. Digits(n, loops)[i] = Digit(n, loops, i)
    BY DEF Digits
  <2>2. d[i] = loops[i].factor - 1
    BY <1>1, <1>2
  <2> QED BY <1>4, <2>1, <2>2
<1> QED BY <1>5, <1>6, LastIndex

(* Placement.  The PEs of an address and the chains, for every unrolling.  *)

Spatials == [Dims -> Nat \ {0}]

(* The loops a PE number is read with, one for each dimension.             *)
LEMMA PeLoopsAre ==
  ASSUME NEW sp \in Spatials
  PROVE  /\ PeLoops(sp) \in Loops /\ Len(PeLoops(sp)) = 7 /\ DOMAIN PeLoops(sp) = 1 .. 7
         /\ \A i \in 1 .. 7 : /\ Way2Order[i] \in Dims
                              /\ PeLoops(sp)[i].dim = Way2Order[i]
                              /\ PeLoops(sp)[i].factor = sp[Way2Order[i]]
         /\ \A dim \in Dims : \E i \in 1 .. 7 : Way2Order[i] = dim
         /\ \A i, j \in 1 .. 7 : Way2Order[i] = Way2Order[j] => i = j
<1>1. DOMAIN Way2Order = 1 .. 7
  BY DEF Way2Order
<1>2. \A i \in 1 .. 7 : Way2Order[i] \in Dims
  BY DEF Way2Order, Dims
<1>3. \A dim \in Dims : \E i \in 1 .. 7 : Way2Order[i] = dim
  BY DEF Way2Order, Dims
<1>4. \A i, j \in 1 .. 7 : Way2Order[i] = Way2Order[j] => i = j
  BY DEF Way2Order
<1> DEFINE R == [dim : Dims, factor : Nat \ {0}]
           loop(i) == [dim |-> Way2Order[i], factor |-> sp[Way2Order[i]]]
<1>5. PeLoops(sp) = [i \in 1 .. 7 |-> loop(i)]
  BY <1>1 DEF PeLoops
<1>6. \A i \in 1 .. 7 : loop(i) \in R
  BY <1>2 DEF Spatials
<1>7. \A i \in 1 .. 7 : loop(i).dim = Way2Order[i] /\ loop(i).factor = sp[Way2Order[i]]
  OBVIOUS
<1> HIDE DEF R, loop
<1>8. PeLoops(sp) \in Seq(R) /\ Len(PeLoops(sp)) = 7 /\ DOMAIN PeLoops(sp) = 1 .. 7
  BY <1>5, <1>6
<1>9. PeLoops(sp) \in Loops
  BY <1>8 DEF Loops, R
<1> QED BY <1>2, <1>3, <1>4, <1>5, <1>7, <1>8, <1>9

(* A product of ones and one other factor.                                 *)
LEMMA OneFactor ==
  ASSUME NEW P \in [0 .. 7 -> Nat \ {0}], NEW j \in 1 .. 7, NEW x \in Nat \ {0}, P[0] = 1,
         \A k \in 1 .. 7 : P[k] = P[k - 1] * (IF k = j THEN x ELSE 1)
  PROVE  P[7] = x
<1>1. \A k \in 1 .. 7 : k # j => P[k] = P[k - 1]
  <2> SUFFICES ASSUME NEW k \in 1 .. 7, k # j PROVE P[k] = P[k - 1]
    OBVIOUS
  <2>1. PICK a \in Nat : a = P[k - 1]
    OBVIOUS
  <2>2. P[k] = a * 1
    BY <2>1
  <2> QED BY <2>1, <2>2
<1>2. P[j - 1] = 1 => P[j] = x
  <2>1. P[j] = P[j - 1] * x /\ 1 * x = x
    OBVIOUS
  <2> QED BY <2>1
<1>3. /\ j # 1 => P[1] = P[0]
      /\ j # 2 => P[2] = P[1]
      /\ j # 3 => P[3] = P[2]
      /\ j # 4 => P[4] = P[3]
      /\ j # 5 => P[5] = P[4]
      /\ j # 6 => P[6] = P[5]
      /\ j # 7 => P[7] = P[6]
  BY <1>1
<1>4. CASE j = 1
  BY <1>2, <1>3, <1>4
<1>5. CASE j = 2
  BY <1>2, <1>3, <1>5
<1>6. CASE j = 3
  BY <1>2, <1>3, <1>6
<1>7. CASE j = 4
  BY <1>2, <1>3, <1>7
<1>8. CASE j = 5
  BY <1>2, <1>3, <1>8
<1>9. CASE j = 6
  BY <1>2, <1>3, <1>9
<1>10. CASE j = 7
  BY <1>2, <1>3, <1>10
<1> QED BY <1>4, <1>5, <1>6, <1>7, <1>8, <1>9, <1>10

(* The PEs that a dimension is spread over.                                *)
LEMMA SpatialTotals ==
  ASSUME NEW sp \in Spatials, NEW dim \in Dims
  PROVE  /\ Total(PeLoops(sp), dim) = sp[dim] /\ sp[dim] \in Nat \ {0}
         /\ \A pe \in Nat : SpatialIndex(sp, pe, dim) \in 0 .. sp[dim] - 1
<1> DEFINE f == FactorsOver(PeLoops(sp), {dim})
           P == Weights(PeLoops(sp), {dim})
<1>1. PICK j \in 1 .. 7 : Way2Order[j] = dim
  BY PeLoopsAre
<1>2. \A k \in 1 .. 7 : f[k] = IF k = j THEN sp[dim] ELSE 1
  BY <1>1, PeLoopsAre DEF FactorsOver
<1>3. Radices(f, P, 7) /\ P[7] = Total(PeLoops(sp), dim)
  <2>1. PeLoops(sp) \in Loops /\ Len(PeLoops(sp)) = 7
    BY PeLoopsAre
  <2> QED BY <2>1, WeightsAre DEF Total
<1>4. sp[dim] \in Nat \ {0}
  BY DEF Spatials
<1>5. P[7] = sp[dim]
  <2> HIDE DEF f, P
  <2>1. /\ P \in [0 .. 7 -> Nat \ {0}] /\ P[0] = 1
        /\ \A k \in 1 .. 7 : P[k] = P[k - 1] * f[k]
    BY <1>3 DEF Radices
  <2>2. PICK x \in Nat \ {0} : x = sp[dim]
    BY <1>4
  <2>3. \A k \in 1 .. 7 : P[k] = P[k - 1] * (IF k = j THEN x ELSE 1)
    BY <1>2, <2>1, <2>2
  <2> QED BY <2>1, <2>2, <2>3, OneFactor
<1>6. \A pe \in Nat : SpatialIndex(sp, pe, dim) \in 0 .. Total(PeLoops(sp), dim) - 1
  BY PeLoopsAre, IndexRange DEF SpatialIndex
<1> QED BY <1>3, <1>4, <1>5, <1>6

-----------------------------------------------------------------------------
(* Two PEs have the same address for a tensor when they have the same      *)
(* index along each of its dimensions.                                     *)

TupleFactors(sp) == [i \in 1 .. 7 |-> sp[TupleOrder[i]]]

TupleDigits(sp, pe, dims) ==
  [i \in 1 .. 7 |-> IF TupleOrder[i] \in dims THEN SpatialIndex(sp, pe, TupleOrder[i]) ELSE 0]

(* A PE as a row of digits.                                                *)
LEMMA TupleIs ==
  ASSUME NEW sp \in Spatials, NEW pe \in Nat, NEW dims
  PROVE  /\ TupleFactors(sp) \in [1 .. 7 -> Nat \ {0}]
         /\ IsDigits(TupleDigits(sp, pe, dims), TupleFactors(sp), 7)
         /\ \A dim \in Dims : \E i \in 1 .. 7 : TupleOrder[i] = dim
         /\ \A i \in 1 .. 7 : TupleOrder[i] \in Dims
<1>1. \A i \in 1 .. 7 : TupleOrder[i] \in Dims
  BY DEF TupleOrder, Dims
<1>2. \A dim \in Dims : \E i \in 1 .. 7 : TupleOrder[i] = dim
  BY DEF TupleOrder, Dims
<1>3. \A i \in 1 .. 7 : /\ TupleFactors(sp)[i] = sp[TupleOrder[i]]
                        /\ sp[TupleOrder[i]] \in Nat \ {0}
                        /\ SpatialIndex(sp, pe, TupleOrder[i]) \in 0 .. sp[TupleOrder[i]] - 1
  BY <1>1, SpatialTotals DEF TupleFactors
<1>4. \A i \in 1 .. 7 :
        /\ TupleDigits(sp, pe, dims)[i] \in Nat
        /\ TupleDigits(sp, pe, dims)[i] <= TupleFactors(sp)[i] - 1
  BY <1>3 DEF TupleDigits
<1>5. TupleFactors(sp) \in [1 .. 7 -> Nat \ {0}]
  BY <1>3 DEF TupleFactors
<1>6. TupleDigits(sp, pe, dims) = [i \in 1 .. 7 |-> TupleDigits(sp, pe, dims)[i]]
  BY DEF TupleDigits
<1>7. IsDigits(TupleDigits(sp, pe, dims), TupleFactors(sp), 7)
  BY <1>4, <1>6 DEF IsDigits
<1> QED BY <1>1, <1>2, <1>5, <1>7

(* The fold of Address puts these digits together.                         *)
LEMMA AddressIsHorner ==
  ASSUME NEW sp \in Spatials, NEW pe \in Nat, NEW dims
  PROVE  \E h : /\ HornerOf(h, TupleDigits(sp, pe, dims), TupleFactors(sp), 7)
                /\ h[7] = Address(sp, pe, dims)
<1> DEFINE f == TupleFactors(sp)
           d == TupleDigits(sp, pe, dims)
           T(h) == h = [s \in SUBSET (DOMAIN TupleOrder) |->
                          IF s = {} THEN 0
                          ELSE h[s \ {Max(s)}] * sp[TupleOrder[Max(s)]]
                                 + IF TupleOrder[Max(s)] \in dims
                                   THEN SpatialIndex(sp, pe, TupleOrder[Max(s)]) ELSE 0]
           c == CHOOSE h : T(h)
<1>1. DOMAIN TupleOrder = 1 .. 7
  BY DEF TupleOrder
<1>2. \A s \in SUBSET (1 .. 7) :
        s # {} => /\ f[Max(s)] = sp[TupleOrder[Max(s)]]
                  /\ d[Max(s)] = IF TupleOrder[Max(s)] \in dims
                                 THEN SpatialIndex(sp, pe, TupleOrder[Max(s)]) ELSE 0
  <2> SUFFICES ASSUME NEW s \in SUBSET (1 .. 7), s # {}
               PROVE  /\ f[Max(s)] = sp[TupleOrder[Max(s)]]
                      /\ d[Max(s)] = IF TupleOrder[Max(s)] \in dims
                                     THEN SpatialIndex(sp, pe, TupleOrder[Max(s)]) ELSE 0
    OBVIOUS
  <2>1. 7 \in Nat
    OBVIOUS
  <2>2. Max(s) \in s
    BY <2>1, GreatestExists
  <2>3. Max(s) \in 1 .. 7
    BY <2>2
  <2> QED BY <2>3 DEF TupleFactors, TupleDigits
<1>3. \A h : T(h) <=> Horner(h, d, f, 7)
  <2> HIDE DEF f, d
  <2> QED BY <1>1, <1>2 DEF Horner
<1>4. PICK it : Horner(it, d, f, 7)
  <2>1. 7 \in Nat
    OBVIOUS
  <2> HIDE DEF f, d
  <2> QED BY <2>1, HornerExists
<1>5. T(it)
  BY <1>3, <1>4
<1>6. T(c)
  BY <1>5
<1>7. Horner(c, d, f, 7)
  BY <1>3, <1>6
<1>8. Address(sp, pe, dims) = c[1 .. 7]
  BY <1>1 DEF Address, FoldLeft, MapThenFoldSet
<1> DEFINE h == [k \in 0 .. 7 |-> c[1 .. k]]
<1>9. HornerOf(h, d, f, 7)
  <2>1. 7 \in Nat /\ f \in [1 .. 7 -> Nat \ {0}] /\ IsDigits(d, f, 7)
    BY TupleIs
  <2> HIDE DEF f, d, c
  <2> QED BY <1>7, <2>1, HornerPrefixes
<1>10. h[7] = c[1 .. 7]
  OBVIOUS
<1> QED BY <1>8, <1>9, <1>10

(* An address tells apart PEs that differ in its dimensions, and no        *)
(* others.                                                                 *)
LEMMA AddressIs ==
  ASSUME NEW sp \in Spatials, NEW dims \in SUBSET Dims, NEW p \in Nat, NEW q \in Nat
  PROVE  /\ Address(sp, p, dims) \in Nat
         /\ Address(sp, p, dims) = Address(sp, q, dims)
              <=> \A dim \in dims : SpatialIndex(sp, p, dim) = SpatialIndex(sp, q, dim)
<1> DEFINE f == TupleFactors(sp)
           d == TupleDigits(sp, p, dims)
           e == TupleDigits(sp, q, dims)
<1>1. /\ 7 \in Nat /\ f \in [1 .. 7 -> Nat \ {0}]
      /\ IsDigits(d, f, 7) /\ IsDigits(e, f, 7)
  BY TupleIs
<1>2. PICK h : HornerOf(h, d, f, 7) /\ h[7] = Address(sp, p, dims)
  BY AddressIsHorner
<1>3. PICK g : HornerOf(g, e, f, 7) /\ g[7] = Address(sp, q, dims)
  BY AddressIsHorner
<1>4. h[7] \in Nat
  BY <1>2 DEF HornerOf
<1>5. h[7] = g[7] <=> \A i \in 1 .. 7 : d[i] = e[i]
  <2>1. PICK n \in Nat : n = 7
    BY <1>1
  <2> HIDE DEF f, d, e
  <2>2. /\ f \in [1 .. n -> Nat \ {0}] /\ IsDigits(d, f, n) /\ IsDigits(e, f, n)
        /\ HornerOf(h, d, f, n) /\ HornerOf(g, e, f, n)
    BY <1>1, <1>2, <1>3, <2>1
  <2>3. n \in Nat
    BY <2>1
  <2>4. h[n] = g[n] <=> \A i \in 1 .. n : d[i] = e[i]
    BY ONLY <2>2, <2>3, HornerUnique
  <2> QED BY <2>1, <2>4
<1>6. (\A i \in 1 .. 7 : d[i] = e[i])
        <=> \A dim \in dims : SpatialIndex(sp, p, dim) = SpatialIndex(sp, q, dim)
  <2>1. ASSUME \A i \in 1 .. 7 : d[i] = e[i], NEW dim \in dims
        PROVE  SpatialIndex(sp, p, dim) = SpatialIndex(sp, q, dim)
    <3>1. PICK i \in 1 .. 7 : TupleOrder[i] = dim
      BY TupleIs
    <3> QED BY <2>1, <3>1 DEF TupleDigits
  <2>2. ASSUME \A dim \in dims : SpatialIndex(sp, p, dim) = SpatialIndex(sp, q, dim)
        PROVE  \A i \in 1 .. 7 : d[i] = e[i]
    BY <2>2 DEF TupleDigits
  <2> HIDE DEF d, e
  <2> QED BY <2>1, <2>2
<1> QED BY <1>2, <1>3, <1>4, <1>5, <1>6

(* A sorted list of numbers: rising, with each number once.                *)
IsAscending(a, S) ==
  /\ a \in Seq(S) /\ DOMAIN a = 1 .. Len(a)
  /\ \A x \in S : \E k \in 1 .. Len(a) : a[k] = x
  /\ \A j, k \in 1 .. Len(a) : j < k => a[j] < a[k]

(* The members of a set of numbers in ascending order, each once.          *)
LEMMA AscendingIs ==
  ASSUME NEW S \in SUBSET Nat, IsFiniteSet(S)
  PROVE  IsAscending(Ascending(S), S) /\ Len(Ascending(S)) = Cardinality(S)
<1> DEFINE n == Cardinality(S)
           rank == [x \in S |-> Cardinality({y \in S : y < x})]
           N == 0 .. n - 1
           a == Ascending(S)
<1>1. n \in Nat
  BY FS_CardinalityType
<1>2. \A x \in S : rank[x] \in Nat
  BY FS_CardinalityType, FS_Subset
<1>3. \A x, y \in S : x < y => rank[x] < rank[y]
  <2> SUFFICES ASSUME NEW x \in S, NEW y \in S, x < y PROVE rank[x] < rank[y]
    OBVIOUS
  <2> DEFINE A == {z \in S : z < x}
             B == {z \in S : z < y}
             C == A \cup {x}
  <2>1. IsFiniteSet(A) /\ IsFiniteSet(B) /\ x \notin A
    BY FS_Subset
  <2>2. C \in SUBSET B
    <3>1. \A z \in S : z \in Int
      OBVIOUS
    <3>2. \A z \in A : z \in S /\ z < y
      BY <3>1
    <3> QED BY <3>2
  <2>3. Cardinality(A) \in Nat /\ Cardinality(B) \in Nat
    BY <2>1, FS_CardinalityType
  <2>4. Cardinality(C) = Cardinality(A) + 1
    <3> HIDE DEF A
    <3> QED BY <2>1, FS_AddElement
  <2>5. Cardinality(C) <= Cardinality(B)
    <3> HIDE DEF B, C
    <3> QED BY <2>1, <2>2, FS_Subset
  <2>6. rank[x] = Cardinality(A) /\ rank[y] = Cardinality(B)
    OBVIOUS
  <2> HIDE DEF A, B, C, rank
  <2> QED BY <2>3, <2>4, <2>5, <2>6
<1>4. \A x \in S : rank[x] \in N
  <2> SUFFICES ASSUME NEW x \in S PROVE rank[x] \in N
    OBVIOUS
  <2> DEFINE A == {z \in S : z < x}
  <2>1. A \in SUBSET S /\ x \notin A
    OBVIOUS
  <2>2. IsFiniteSet(A) /\ Cardinality(A) <= n /\ (n = Cardinality(A) => S = A)
    <3> HIDE DEF A
    <3> QED BY <2>1, FS_Subset
  <2>3. Cardinality(A) # n
    <3> HIDE DEF A
    <3> QED BY <2>1, <2>2
  <2>4. rank[x] = Cardinality(A)
    OBVIOUS
  <2>5. Cardinality(A) \in Nat
    <3> HIDE DEF A
    <3> QED BY <2>2, FS_CardinalityType
  <2> HIDE DEF A, rank, n
  <2> QED BY <1>1, <2>2, <2>3, <2>4, <2>5
<1>5. rank = [x \in S |-> rank[x]]
  OBVIOUS
<1>6. rank \in Surjection(S, N)
  <2>1. IsFiniteSet(N) /\ Cardinality(N) = n
    <3>1. 0 \in Int /\ n - 1 \in Int
      BY <1>1
    <3> HIDE DEF n
    <3> QED BY <1>1, <3>1, FS_Interval
  <2> HIDE DEF rank, N, n
  <2>2. rank \in Injection(S, N)
    <3>1. \A x, y \in S : rank[x] = rank[y] => x = y
      BY <1>2, <1>3
    <3>2. rank \in [S -> N]
      BY <1>4, <1>5
    <3> QED BY <3>1, <3>2 DEF Injection, IsInjective
  <2> QED BY <2>1, <2>2, FS_Injection DEF n
<1>7. \A k \in 1 .. n : \E x \in S : Cardinality({y \in S : y < x}) = k - 1
  <2>1. \A k \in 1 .. n : k - 1 \in N
    <3> HIDE DEF n
    <3> QED BY <1>1
  <2>2. \A i \in N : \E x \in S : rank[x] = i
    <3> HIDE DEF rank, N
    <3> QED BY <1>6 DEF Surjection
  <2>3. \A x \in S : rank[x] = Cardinality({y \in S : y < x})
    OBVIOUS
  <2> HIDE DEF rank, N, n
  <2> QED BY <2>1, <2>2, <2>3
<1>8. a = [k \in 1 .. n |-> CHOOSE x \in S : Cardinality({y \in S : y < x}) = k - 1]
  BY DEF Ascending
<1>9. \A k \in 1 .. n : a[k] \in S /\ rank[a[k]] = k - 1
  <2> SUFFICES ASSUME NEW k \in 1 .. n PROVE a[k] \in S /\ rank[a[k]] = k - 1
    OBVIOUS
  <2>1. a[k] = CHOOSE x \in S : Cardinality({y \in S : y < x}) = k - 1
    BY <1>8
  <2>2. a[k] \in S /\ Cardinality({y \in S : y < a[k]}) = k - 1
    BY <1>7, <2>1
  <2> QED BY <2>2
<1> HIDE DEF rank, a, n, N
<1>10. DOMAIN a = 1 .. n /\ a \in Seq(S) /\ Len(a) = n
  <2>1. \A k \in 1 .. n : a[k] \in S
    BY <1>9
  <2>2. a \in [1 .. n -> S]
    <3>1. DOMAIN a = 1 .. n /\ a = [k \in 1 .. n |-> a[k]]
      BY <1>8
    <3> QED BY <2>1, <3>1
  <2> QED BY <1>1, <2>2
<1>11. \A j, k \in 1 .. n : j < k => a[j] < a[k]
  <2> SUFFICES ASSUME NEW j \in 1 .. n, NEW k \in 1 .. n, j < k PROVE a[j] < a[k]
    OBVIOUS
  <2>1. a[j] \in Nat /\ a[k] \in Nat /\ rank[a[j]] = j - 1 /\ rank[a[k]] = k - 1
    BY <1>9
  <2>2. CASE a[j] = a[k]
    BY <1>1, <2>1, <2>2
  <2>3. CASE a[k] < a[j]
    <3>1. rank[a[k]] < rank[a[j]]
      BY <1>3, <1>9, <2>3
    <3> QED BY <1>1, <2>1, <3>1
  <2> QED BY <2>1, <2>2, <2>3
<1>12. \A x \in S : \E k \in 1 .. n : a[k] = x
  <2> SUFFICES ASSUME NEW x \in S PROVE \E k \in 1 .. n : a[k] = x
    OBVIOUS
  <2>1. rank[x] \in 0 .. n - 1
    BY <1>4 DEF N
  <2>2. rank[x] + 1 \in 1 .. n /\ (rank[x] + 1) - 1 = rank[x]
    BY <1>1, <2>1
  <2> DEFINE k == rank[x] + 1
  <2>3. a[k] \in S /\ rank[a[k]] = rank[x]
    BY <1>9, <2>2
  <2>4. \A y \in S : rank[y] = rank[x] => y = x
    BY <1>2, <1>3
  <2> QED BY <2>2, <2>3, <2>4
<1> QED BY <1>10, <1>11, <1>12 DEF IsAscending, a, n

(* The members of such a list, the last of them, and one after the other.  *)
LEMMA AscendingMembers ==
  ASSUME NEW a, NEW S \in SUBSET Nat, S # {}, IsAscending(a, S)
  PROVE  /\ ToSet(a) = S /\ a # <<>> /\ Len(a) \in Nat \ {0}
         /\ Last(a) \in S /\ \A x \in S : x <= Last(a)
         /\ \A k \in 2 .. Len(a) : a[k] \in S /\ a[k - 1] \in S /\ a[k] > a[k - 1]
<1>1. Len(a) \in Nat /\ DOMAIN a = 1 .. Len(a) /\ \A k \in 1 .. Len(a) : a[k] \in S
  BY DEF IsAscending
<1>2. ToSet(a) = S
  BY <1>1 DEF ToSet, IsAscending
<1>3. Len(a) \in Nat \ {0} /\ a # <<>>
  <2>1. PICK x \in S : TRUE
    OBVIOUS
  <2>2. PICK k \in 1 .. Len(a) : a[k] = x
    BY DEF IsAscending
  <2>3. PICK m \in Nat : m = Len(a) /\ k \in 1 .. m
    BY <1>1, <2>2
  <2>4. m # 0
    BY <2>3
  <2>5. Len(<<>>) = 0
    OBVIOUS
  <2> QED BY <2>3, <2>4, <2>5
<1>4. Len(a) \in 1 .. Len(a)
  BY <1>3
<1>5. Last(a) = a[Len(a)]
  BY DEF Last
<1>6. \A x \in S : x <= Last(a)
  <2> SUFFICES ASSUME NEW x \in S PROVE x <= Last(a)
    OBVIOUS
  <2>1. PICK k \in 1 .. Len(a) : a[k] = x
    BY DEF IsAscending
  <2>2. CASE k = Len(a)
    BY <1>5, <2>1, <2>2
  <2>3. CASE k # Len(a)
    <3>1. k < Len(a)
      <4>1. PICK m \in Nat : m = Len(a) /\ k \in 1 .. m /\ k # m
        BY <1>1, <2>1, <2>3
      <4>2. k < m
        BY <4>1
      <4> QED BY <4>1, <4>2
    <3>2. a[k] < a[Len(a)]
      BY <1>4, <3>1 DEF IsAscending
    <3>3. a[k] \in Nat /\ a[Len(a)] \in Nat
      BY <1>1, <1>4
    <3> QED BY <1>5, <2>1, <3>2, <3>3
  <2> QED BY <2>2, <2>3
<1>7. ASSUME NEW k \in 2 .. Len(a)
      PROVE  a[k] \in S /\ a[k - 1] \in S /\ a[k] > a[k - 1]
  <2>1. k \in 1 .. Len(a) /\ k - 1 \in 1 .. Len(a) /\ k - 1 < k
    BY <1>1
  <2>2. a[k - 1] < a[k]
    BY <2>1 DEF IsAscending
  <2> QED BY <1>1, <2>1, <2>2
<1> QED BY <1>1, <1>2, <1>3, <1>4, <1>5, <1>6, <1>7

(* The PEs with a's address.                                               *)
Sharing(sp, pes, dims, a) ==
  {pe \in pes : \A dim \in dims : SpatialIndex(sp, pe, dim) = SpatialIndex(sp, a, dim)}

(* A group is the sorted list of the PEs with one address.                 *)
LEMMA AddressGroupsAre ==
  ASSUME NEW sp \in Spatials, NEW dims \in SUBSET Dims, NEW pes \in SUBSET Nat, IsFiniteSet(pes)
  PROVE  LET G == AddressGroups(sp, pes, dims)
         IN  /\ Len(G) \in Nat /\ DOMAIN G = 1 .. Len(G)
             /\ \A g \in 1 .. Len(G) :
                  \E a \in pes : G[g] = Ascending(Sharing(sp, pes, dims, a))
             /\ \A a \in pes :
                  \E g \in 1 .. Len(G) : G[g] = Ascending(Sharing(sp, pes, dims, a))
             /\ \A g, h \in 1 .. Len(G) : G[g] = G[h] => g = h
<1> DEFINE G == AddressGroups(sp, pes, dims)
           A == {Address(sp, pe, dims) : pe \in pes}
           addresses == Ascending(A)
           at == [pe \in pes |-> Address(sp, pe, dims)]
<1>1. \A pe \in pes : Address(sp, pe, dims) \in Nat
  BY AddressIs
<1>2. IsFiniteSet(A)
  <2>1. at \in Surjection(pes, A)
    BY DEF Surjection
  <2> HIDE DEF A, at
  <2> QED BY <2>1, FS_Surjection
<1>3. A \in SUBSET Nat
  BY <1>1
<1>4. IsAscending(addresses, A)
  <2> HIDE DEF A
  <2> QED BY <1>2, <1>3, AscendingIs
<1>5. G = [g \in DOMAIN addresses |->
             Ascending({pe \in pes : Address(sp, pe, dims) = addresses[g]})]
  BY DEF AddressGroups
<1> DEFINE n == Len(addresses)
<1>6. n \in Nat /\ DOMAIN addresses = 1 .. n /\ \A g \in 1 .. n : addresses[g] \in A
  <2> HIDE DEF A, addresses
  <2> QED BY <1>4 DEF IsAscending
<1>7. \A a \in pes : {pe \in pes : Address(sp, pe, dims) = Address(sp, a, dims)}
                       = Sharing(sp, pes, dims, a)
  BY AddressIs DEF Sharing
<1>8. \A x \in A : \E g \in 1 .. n : addresses[g] = x
  <2> HIDE DEF A, addresses
  <2> QED BY <1>4 DEF IsAscending
<1>9. \A g, h \in 1 .. n : addresses[g] = addresses[h] => g = h
  <2> HIDE DEF A, addresses, n
  <2>1. \A g, h \in 1 .. n : g < h => addresses[g] < addresses[h]
    BY <1>4 DEF IsAscending, n
  <2>2. \A g \in 1 .. n : addresses[g] \in Nat
    BY <1>3, <1>6
  <2> QED BY <1>6, <2>1, <2>2
<1> DEFINE class(x) == {pe \in pes : Address(sp, pe, dims) = x}
<1>10. \A g \in 1 .. n : G[g] = Ascending(class(addresses[g]))
  <2> HIDE DEF addresses, n, G
  <2> QED BY <1>5, <1>6
<1>11. DOMAIN G = 1 .. n /\ Len(G) = n
  <2> HIDE DEF addresses, n, G
  <2> QED BY <1>5, <1>6
<1>12. ASSUME NEW g \in 1 .. n
       PROVE  \E a \in pes : /\ addresses[g] = Address(sp, a, dims)
                             /\ G[g] = Ascending(Sharing(sp, pes, dims, a))
  <2>1. PICK a \in pes : addresses[g] = Address(sp, a, dims)
    <3>1. addresses[g] \in A
      BY <1>6
    <3> HIDE DEF addresses
    <3> QED BY <3>1
  <2>2. class(addresses[g]) = Sharing(sp, pes, dims, a)
    BY <1>7, <2>1
  <2> HIDE DEF G, addresses, class
  <2> QED BY <1>10, <2>1, <2>2
<1>13. ASSUME NEW a \in pes
       PROVE  \E g \in 1 .. n : G[g] = Ascending(Sharing(sp, pes, dims, a))
  <2>1. PICK g \in 1 .. n : addresses[g] = Address(sp, a, dims)
    <3>1. Address(sp, a, dims) \in A
      OBVIOUS
    <3> HIDE DEF A, addresses, n
    <3> QED BY <1>8, <3>1
  <2>2. class(addresses[g]) = Sharing(sp, pes, dims, a)
    BY <1>7, <2>1
  <2>3. G[g] = Ascending(class(addresses[g]))
    BY <1>10
  <2> HIDE DEF G, addresses, class, n
  <2> QED BY <2>2, <2>3
<1>14. ASSUME NEW g \in 1 .. n, NEW h \in 1 .. n, G[g] = G[h]
       PROVE  g = h
  <2>1. PICK a \in pes : addresses[g] = Address(sp, a, dims)
    BY <1>12
  <2>2. PICK b \in pes : addresses[h] = Address(sp, b, dims)
    BY <1>12
  <2>3. G[g] = Ascending(class(addresses[g])) /\ G[h] = Ascending(class(addresses[h]))
    BY <1>10
  <2>4. a \in class(addresses[g]) /\ b \in class(addresses[h])
    BY <2>1, <2>2
  <2>5. \A x : class(x) \in SUBSET Nat /\ IsFiniteSet(class(x))
    BY FS_Subset
  <2>6. \A x, y : y \in class(x) => Address(sp, y, dims) = x
    OBVIOUS
  <2> HIDE DEF G, addresses, class, n
  <2>7. /\ ToSet(Ascending(class(addresses[g]))) = class(addresses[g])
        /\ ToSet(Ascending(class(addresses[h]))) = class(addresses[h])
    BY <2>4, <2>5, AscendingIs, AscendingMembers
  <2>8. class(addresses[g]) = class(addresses[h])
    BY <1>14, <2>3, <2>7
  <2>9. addresses[g] = addresses[h]
    BY <2>4, <2>6, <2>8
  <2> QED BY <1>9, <2>9
<1> HIDE DEF G, n
<1> QED BY <1>6, <1>11, <1>12, <1>13, <1>14 DEF G

(* The outer four of seven loops.                                          *)
LEMMA LastFour ==
  ASSUME NEW loops \in Loops, Len(loops) = 7
  PROVE  /\ SubSeq(loops, 4, 7) \in Loops /\ Len(SubSeq(loops, 4, 7)) = 4
         /\ \A i \in 1 .. 4 : SubSeq(loops, 4, 7)[i] = loops[i + 3]
<1> DEFINE R == [dim : Dims, factor : Nat \ {0}]
<1>1. loops \in Seq(R)
  BY DEF Loops
<1>2. \A i \in 4 .. 7 : loops[i] \in R
  <2> HIDE DEF R
  <2>1. \A i \in 1 .. Len(loops) : loops[i] \in R
    BY ONLY <1>1
  <2>2. \A i \in 4 .. 7 : i \in 1 .. Len(loops)
    OBVIOUS
  <2> QED BY ONLY <2>1, <2>2
<1>3. /\ SubSeq(loops, 4, 7) \in Seq(R) /\ Len(SubSeq(loops, 4, 7)) = 4
      /\ \A i \in 1 .. 4 : SubSeq(loops, 4, 7)[i] = loops[i + 3]
  <2> HIDE DEF R
  <2>1. \A i \in 1 .. 4 : 4 + i - 1 = i + 3 /\ i + 3 \in 4 .. 7
    OBVIOUS
  <2>2. Len(SubSeq(loops, 4, 7)) = 4 /\ DOMAIN SubSeq(loops, 4, 7) = 1 .. 4
    BY <1>1
  <2>3. \A i \in 1 .. 4 : SubSeq(loops, 4, 7)[i] = loops[i + 3]
    BY <1>1, <2>1, <2>2
  <2>4. SubSeq(loops, 4, 7) \in Seq(R)
    BY <1>1, <1>2, <2>1, <2>2, <2>3
  <2> QED BY <2>2, <2>3, <2>4
<1> QED BY <1>3 DEF Loops

(* The mesh has as many PEs as the nest has steps, and its columns are the *)
(* steps of the loops over the outputs' place and time.                    *)
LEMMA MeshIs ==
  ASSUME NEW sp \in Spatials
  PROVE  LET L == PeLoops(sp)
             f == FactorsOver(L, Dims)
             P == Weights(L, Dims)
         IN  /\ Radices(f, P, 7) /\ P[7] = Steps(L) /\ P[3] = Columns(sp)
             /\ \A pe : \A i \in 1 .. 7 : Digit(pe, L, i) = (pe \div P[i - 1]) % f[i]
             /\ Columns(sp) \in Nat \ {0} /\ Rows(sp) \in Nat \ {0}
             /\ Columns(sp) * Rows(sp) = Steps(L)
             /\ Pes(sp) = 0 .. Columns(sp) * Rows(sp) - 1
<1> DEFINE L == PeLoops(sp)
           f == FactorsOver(L, Dims)
           P == Weights(L, Dims)
           M == SubSeq(L, 4, 7)
           g == FactorsOver(M, Dims)
           Q == Weights(M, Dims)
<1>1. L \in Loops /\ Len(L) = 7 /\ DOMAIN L = 1 .. 7
  BY PeLoopsAre
<1>2. Radices(f, P, 7) /\ P[7] = Steps(L)
  <2> HIDE DEF L
  <2> QED BY <1>1, WeightsAre DEF Steps
<1>3. \A i \in 1 .. 7 : f[i] = L[i].factor /\ L[i].dim \in Dims
  <2> HIDE DEF L
  <2> QED BY <1>1, NestIs DEF FactorsOver
<1>4. \A pe : \A i \in 1 .. 7 : Digit(pe, L, i) = (pe \div P[i - 1]) % f[i]
  <2> HIDE DEF L
  <2>1. \A i \in DOMAIN L : P[i - 1] = Product(InsideOf(L, i), Dims)
    BY <1>1, WeightsAre
  <2> QED BY <1>1, <1>3, <2>1 DEF Digit, Steps
<1>5. P[3] = Columns(sp)
  BY <1>1 DEF Weights, Columns, Steps
<1>6. M \in Loops /\ Len(M) = 4 /\ \A i \in 1 .. 4 : M[i] = L[i + 3]
  <2> HIDE DEF L
  <2> QED BY <1>1, LastFour
<1> HIDE DEF L, M
<1>7. Radices(g, Q, 4) /\ Q[4] = Steps(M)
  BY <1>6, WeightsAre DEF Steps
<1>8. \A i \in 1 .. 4 : g[i] = f[i + 3]
  <2>1. \A i \in 1 .. 4 : g[i] = M[i].factor
    BY <1>6, NestIs DEF FactorsOver
  <2>2. \A i \in 1 .. 4 : i + 3 \in 1 .. 7
    OBVIOUS
  <2> QED BY <1>3, <1>6, <2>1, <2>2
<1>9. Rows(sp) = Q[4]
  BY <1>7 DEF Rows, L, M
<1> HIDE DEF f, P, g, Q
<1>10. \A k \in 1 .. 4 : P[k + 2] = P[3] * Q[k - 1] => P[k + 3] = P[3] * Q[k]
  <2> SUFFICES ASSUME NEW k \in 1 .. 4, P[k + 2] = P[3] * Q[k - 1]
               PROVE  P[k + 3] = P[3] * Q[k]
    OBVIOUS
  <2>1. PICK a \in Nat, b \in Nat, c \in Nat : a = P[3] /\ b = Q[k - 1] /\ c = g[k]
    BY <1>2, <1>7 DEF Radices
  <2>2. k + 3 \in 1 .. 7 /\ (k + 3) - 1 = k + 2
    OBVIOUS
  <2>3. P[k + 3] = P[k + 2] * f[k + 3] /\ Q[k] = Q[k - 1] * g[k] /\ g[k] = f[k + 3]
    BY <1>2, <1>7, <1>8, <2>2 DEF Radices
  <2>4. (a * b) * c = a * (b * c)
    OBVIOUS
  <2> QED BY <2>1, <2>3, <2>4
<1>11. P[7] = P[3] * Q[4]
  <2>1. P[3] = P[3] * Q[0]
    <3>1. PICK a \in Nat : a = P[3]
      BY <1>2 DEF Radices
    <3>2. Q[0] = 1 /\ a * 1 = a
      BY <1>7 DEF Radices
    <3> QED BY <3>1, <3>2
  <2>2. /\ P[1 + 2] = P[3] * Q[1 - 1] => P[1 + 3] = P[3] * Q[1]
        /\ P[2 + 2] = P[3] * Q[2 - 1] => P[2 + 3] = P[3] * Q[2]
        /\ P[3 + 2] = P[3] * Q[3 - 1] => P[3 + 3] = P[3] * Q[3]
        /\ P[4 + 2] = P[3] * Q[4 - 1] => P[4 + 3] = P[3] * Q[4]
    BY <1>10
  <2>3. /\ 1 + 2 = 3 /\ 2 + 2 = 4 /\ 3 + 2 = 5 /\ 4 + 2 = 6
        /\ 1 + 3 = 4 /\ 2 + 3 = 5 /\ 3 + 3 = 6 /\ 4 + 3 = 7
        /\ 1 - 1 = 0 /\ 2 - 1 = 1 /\ 3 - 1 = 2 /\ 4 - 1 = 3
    OBVIOUS
  <2>4. P[4] = P[3] * Q[1]
    BY ONLY <2>1, <2>2, <2>3
  <2>5. P[5] = P[3] * Q[2]
    BY ONLY <2>2, <2>3, <2>4
  <2>6. P[6] = P[3] * Q[3]
    BY ONLY <2>2, <2>3, <2>5
  <2> QED BY ONLY <2>2, <2>3, <2>6
<1>12. P[3] \in Nat \ {0} /\ Q[4] \in Nat \ {0}
  BY <1>2, <1>7 DEF Radices
<1>13. Columns(sp) * Rows(sp) = Steps(L)
  BY <1>2, <1>5, <1>9, <1>11
<1>14. Pes(sp) = 0 .. Columns(sp) * Rows(sp) - 1
  BY <1>13 DEF Pes, L
<1> QED BY <1>2, <1>4, <1>5, <1>9, <1>12, <1>13, <1>14 DEF L, f, P

(* PEs with the same index along a dimension have the same digit there.    *)
LEMMA SamePeDigit ==
  ASSUME NEW sp \in Spatials, NEW p \in Nat, NEW q \in Nat, NEW i \in 1 .. 7,
         SpatialIndex(sp, p, Way2Order[i]) = SpatialIndex(sp, q, Way2Order[i])
  PROVE  Digit(p, PeLoops(sp), i) = Digit(q, PeLoops(sp), i)
<1>1. PICK L \in Loops : /\ L = PeLoops(sp) /\ i \in DOMAIN L /\ L[i].dim = Way2Order[i]
  BY PeLoopsAre
<1>2. Index(p, L, Way2Order[i]) = Index(q, L, Way2Order[i])
  BY <1>1 DEF SpatialIndex
<1>3. Digit(p, L, i) = Digit(q, L, i)
  BY <1>1, <1>2, SameIndex
<1> QED BY <1>1, <1>3

(* Along a chain over the reduction the column stays, and along one over   *)
(* time the row.                                                           *)
LEMMA SameColumn ==
  ASSUME NEW sp \in Spatials, NEW p \in Nat, NEW q \in Nat,
         \A dim \in PsumDims : SpatialIndex(sp, p, dim) = SpatialIndex(sp, q, dim)
  PROVE  p % Columns(sp) = q % Columns(sp)
<1>1. \A i \in 1 .. 3 : i \in 1 .. 7 /\ Way2Order[i] \in PsumDims
  BY DEF Way2Order, PsumDims, VmemDims
<1>2. \A i \in 1 .. 3 : Digit(p, PeLoops(sp), i) = Digit(q, PeLoops(sp), i)
  BY <1>1, SamePeDigit
<1>3. PICK f, P : /\ Radices(f, P, 7) /\ P[3] = Columns(sp)
                  /\ \A pe : \A i \in 1 .. 7 :
                       Digit(pe, PeLoops(sp), i) = (pe \div P[i - 1]) % f[i]
  BY MeshIs
<1>4. 3 \in 0 .. 7 /\ \A i \in 1 .. 3 : (p \div P[i - 1]) % f[i] = (q \div P[i - 1]) % f[i]
  BY <1>1, <1>2, <1>3
<1>5. PICK k \in 0 .. 7 : k = 3
  OBVIOUS
<1>6. \A i \in 1 .. k : (p \div P[i - 1]) % f[i] = (q \div P[i - 1]) % f[i]
  BY <1>4, <1>5
<1>7. p % P[k] = q % P[k]
  BY <1>3, <1>6, LowDigits
<1> QED BY <1>3, <1>5, <1>7

(* PEs that agree in the dimensions of the rows are in one row.            *)
LEMMA SameRow ==
  ASSUME NEW sp \in Spatials, NEW p \in Pes(sp), NEW q \in Pes(sp),
         \A dim \in VmemDims \cup ReductionDims :
           SpatialIndex(sp, p, dim) = SpatialIndex(sp, q, dim)
  PROVE  p \div Columns(sp) = q \div Columns(sp)
<1>1. \A i \in 4 .. 7 : i \in 1 .. 7 /\ Way2Order[i] \in VmemDims \cup ReductionDims
  BY DEF Way2Order, VmemDims, ReductionDims
<1>2. p \in Nat /\ q \in Nat
  BY DEF Pes
<1>3. \A i \in 4 .. 7 : Digit(p, PeLoops(sp), i) = Digit(q, PeLoops(sp), i)
  BY <1>1, <1>2, SamePeDigit
<1>4. PICK f, P : /\ Radices(f, P, 7) /\ P[3] = Columns(sp) /\ P[7] = Steps(PeLoops(sp))
                  /\ \A pe : \A i \in 1 .. 7 :
                       Digit(pe, PeLoops(sp), i) = (pe \div P[i - 1]) % f[i]
  BY MeshIs
<1>5. PICK k \in 0 .. 7 : k = 3
  OBVIOUS
<1>6. \A i \in k + 1 .. 7 : (p \div P[i - 1]) % f[i] = (q \div P[i - 1]) % f[i]
  <2>1. \A i \in k + 1 .. 7 : i \in 4 .. 7
    BY <1>5
  <2> QED BY <1>1, <1>3, <1>4, <2>1
<1>7. p \in 0 .. P[7] - 1 /\ q \in 0 .. P[7] - 1
  BY <1>4 DEF Pes
<1>8. p \div P[k] = q \div P[k]
  BY <1>4, <1>6, <1>7, HighDigits
<1> QED BY <1>4, <1>5, <1>8

(* A group: PEs of one address, all of them, rising.                       *)
IsGroup(sp, pes, dims, c) ==
  /\ c \in Seq(pes) /\ c # <<>> /\ ToSet(c) \subseteq pes
  /\ Last(c) \in ToSet(c) /\ \A x \in ToSet(c) : x <= Last(c)
  /\ \A k \in 2 .. Len(c) : c[k] \in ToSet(c) /\ c[k - 1] \in ToSet(c) /\ c[k] > c[k - 1]
  /\ \A x \in ToSet(c) : \A y \in pes :
       y \in ToSet(c)
         <=> \A dim \in dims : SpatialIndex(sp, y, dim) = SpatialIndex(sp, x, dim)

(* The PEs that share a PE's address are a group.                          *)
LEMMA SharingIsGroup ==
  ASSUME NEW sp \in Spatials, NEW dims \in SUBSET Dims, NEW pes \in SUBSET Nat, IsFiniteSet(pes),
         NEW a \in pes
  PROVE  LET c == Ascending(Sharing(sp, pes, dims, a))
         IN  /\ IsGroup(sp, pes, dims, c) /\ ToSet(c) = Sharing(sp, pes, dims, a)
             /\ a \in ToSet(c) /\ Len(c) = Cardinality(Sharing(sp, pes, dims, a))
<1> DEFINE S == Sharing(sp, pes, dims, a)
           c == Ascending(S)
<1>1. S \in SUBSET pes /\ a \in S
  BY DEF Sharing
<1>2. \A x \in S : \A y \in pes :
        y \in S <=> \A dim \in dims : SpatialIndex(sp, y, dim) = SpatialIndex(sp, x, dim)
  BY DEF Sharing
<1> HIDE DEF S
<1>3. IsFiniteSet(S) /\ S \in SUBSET Nat /\ S # {}
  BY <1>1, FS_Subset
<1>4. IsAscending(c, S) /\ Len(c) = Cardinality(S)
  BY <1>3, AscendingIs
<1> HIDE DEF c
<1>5. /\ ToSet(c) = S /\ c # <<>> /\ Len(c) \in Nat \ {0}
      /\ Last(c) \in S /\ \A x \in S : x <= Last(c)
      /\ \A k \in 2 .. Len(c) : c[k] \in S /\ c[k - 1] \in S /\ c[k] > c[k - 1]
  BY <1>3, <1>4, AscendingMembers
<1>6. c \in Seq(pes)
  <2>1. Len(c) \in Nat /\ c = [k \in 1 .. Len(c) |-> c[k]] /\ \A k \in 1 .. Len(c) : c[k] \in S
    <3>1. c \in Seq(S)
      BY <1>4 DEF IsAscending
    <3> QED BY ONLY <3>1
  <2>2. \A k \in 1 .. Len(c) : c[k] \in pes
    BY <1>1, <2>1
  <2> QED BY ONLY <2>1, <2>2
<1>7. IsGroup(sp, pes, dims, c)
  BY <1>1, <1>2, <1>5, <1>6 DEF IsGroup
<1> QED BY <1>1, <1>4, <1>5, <1>7 DEF c, S

(* Every PE is in one of the groups, and in no other.                      *)
Splits(G, pes) ==
  /\ UNION {ToSet(c) : c \in ToSet(G)} = pes
  /\ \A c, d \in ToSet(G) : c # d => ToSet(c) \cap ToSet(d) = {}

(* The groups of the addresses are lists of PEs, and split the PEs.        *)
LEMMA GroupsSplit ==
  ASSUME NEW sp \in Spatials, NEW dims \in SUBSET Dims, NEW pes \in SUBSET Nat, IsFiniteSet(pes),
         NEW G, G = AddressGroups(sp, pes, dims)
  PROVE  /\ G \in Seq(Seq(pes) \ {<<>>})
         /\ \A c \in ToSet(G) : IsGroup(sp, pes, dims, c)
         /\ Splits(G, pes)
<1> DEFINE C(a) == Ascending(Sharing(sp, pes, dims, a))
<1>1. /\ Len(G) \in Nat /\ DOMAIN G = 1 .. Len(G)
      /\ \A g \in 1 .. Len(G) : \E a \in pes : G[g] = C(a)
      /\ \A a \in pes : \E g \in 1 .. Len(G) : G[g] = C(a)
  BY AddressGroupsAre
<1>2. G = [g \in DOMAIN G |-> G[g]]
  BY DEF AddressGroups
<1>3. \A a \in pes : /\ IsGroup(sp, pes, dims, C(a)) /\ a \in ToSet(C(a))
                     /\ ToSet(C(a)) = Sharing(sp, pes, dims, a)
  BY SharingIsGroup
<1>4. \A a, b \in pes :
        Sharing(sp, pes, dims, a) \cap Sharing(sp, pes, dims, b) # {} => C(a) = C(b)
  <2> SUFFICES ASSUME NEW a \in pes, NEW b \in pes,
                      Sharing(sp, pes, dims, a) \cap Sharing(sp, pes, dims, b) # {}
               PROVE  C(a) = C(b)
    OBVIOUS
  <2>1. Sharing(sp, pes, dims, a) = Sharing(sp, pes, dims, b)
    BY DEF Sharing
  <2> QED BY <2>1
<1> HIDE DEF C
<1>5. ToSet(G) = {C(a) : a \in pes}
  <2>1. ToSet(G) = {G[g] : g \in 1 .. Len(G)}
    BY <1>1 DEF ToSet
  <2> QED BY ONLY <1>1, <2>1
<1>6. \A g \in 1 .. Len(G) : G[g] \in Seq(pes) \ {<<>>}
  BY <1>1, <1>3 DEF IsGroup
<1>7. G \in Seq(Seq(pes) \ {<<>>})
  <2> DEFINE R == Seq(pes) \ {<<>>}
             n == Len(G)
  <2>1. \A g \in 1 .. n : G[g] \in R
    BY <1>6
  <2>2. n \in Nat /\ G = [g \in 1 .. n |-> G[g]]
    BY <1>1, <1>2
  <2> HIDE DEF R, n
  <2>3. G \in Seq(R)
    BY <2>1, <2>2
  <2> QED BY <2>3 DEF R
<1>8. \A c \in ToSet(G) : IsGroup(sp, pes, dims, c)
  BY <1>3, <1>5
<1>9. UNION {ToSet(c) : c \in ToSet(G)} = pes
  <2>1. \A c \in ToSet(G) : ToSet(c) \subseteq pes
    BY <1>8 DEF IsGroup
  <2>2. \A a \in pes : C(a) \in ToSet(G) /\ a \in ToSet(C(a))
    BY <1>3, <1>5
  <2> QED BY <2>1, <2>2
<1>10. \A c, d \in ToSet(G) : c # d => ToSet(c) \cap ToSet(d) = {}
  BY <1>3, <1>4, <1>5
<1> QED BY <1>7, <1>8, <1>9, <1>10 DEF Splits

(* What a layer's placement gives it: chains of psums that cover the mesh, *)
(* each in a column and upwards, and whose ends are covered by chains of   *)
(* membrane potentials, each in a row.                                     *)
LEMMA PlacementFollowsTheMesh ==
  ASSUME NEW sp \in Spatials
  PROVE  LET kChains == ToSet(KChains(sp))
             tChains == ToSet(TChains(sp))
         IN  /\ UNION {ToSet(c) : c \in kChains} = 0 .. Columns(sp) * Rows(sp) - 1
             /\ {Last(c) : c \in kChains} = UNION {ToSet(c) : c \in tChains}
             /\ \A c, d \in kChains : c # d => ToSet(c) \cap ToSet(d) = {}
             /\ \A c \in kChains : \A k \in 2 .. Len(c) :
                  c[k] % Columns(sp) = c[k - 1] % Columns(sp) /\ c[k] > c[k - 1]
             /\ \A c \in tChains : \A k \in 2 .. Len(c) :
                  c[k] \div Columns(sp) = c[k - 1] \div Columns(sp) /\ c[k] > c[k - 1]
<1> DEFINE L == PeLoops(sp)
           pes == Pes(sp)
           top == KMaxPes(sp)
           kChains == ToSet(KChains(sp))
           tChains == ToSet(TChains(sp))
<1>1. /\ L \in Loops /\ pes = 0 .. Steps(L) - 1 /\ Steps(L) \in Nat \ {0}
      /\ pes = 0 .. Columns(sp) * Rows(sp) - 1
  BY PeLoopsAre, StepsAre, MeshIs DEF Pes
<1>2. pes \in SUBSET Nat /\ IsFiniteSet(pes)
  <2>1. 0 \in Int /\ Steps(L) - 1 \in Int
    BY <1>1
  <2> HIDE DEF L, pes
  <2> QED BY <1>1, <2>1, FS_Interval
<1>3. top \in SUBSET pes
  BY DEF KMaxPes
<1>4. top \in SUBSET Nat /\ IsFiniteSet(top)
  <2> HIDE DEF pes, top
  <2> QED BY <1>2, <1>3, FS_Subset
<1>5. PsumDims \in SUBSET Dims /\ VmemDims \in SUBSET Dims /\ Dims \ ReductionDims = PsumDims
      /\ ReductionDims \cap PsumDims = {} /\ ReductionDims \subseteq Dims
  BY DEF PsumDims, VmemDims, ReductionDims, Dims
<1>6. /\ \A c \in kChains : IsGroup(sp, pes, PsumDims, c)
      /\ UNION {ToSet(c) : c \in kChains} = pes
      /\ \A c, d \in kChains : c # d => ToSet(c) \cap ToSet(d) = {}
  <2>1. KChains(sp) = AddressGroups(sp, pes, PsumDims)
    BY DEF KChains
  <2>2. sp \in Spatials /\ PsumDims \in SUBSET Dims
    BY <1>5
  <2> HIDE DEF pes
  <2>3. (\A c \in kChains : IsGroup(sp, pes, PsumDims, c)) /\ Splits(KChains(sp), pes)
    BY <1>2, <2>1, <2>2, GroupsSplit
  <2> QED BY <2>3 DEF Splits
<1>7. /\ \A c \in tChains : IsGroup(sp, top, VmemDims, c)
      /\ UNION {ToSet(c) : c \in tChains} = top
  <2>1. TChains(sp) = AddressGroups(sp, top, VmemDims)
    BY DEF TChains
  <2>2. sp \in Spatials /\ VmemDims \in SUBSET Dims
    BY <1>5
  <2> HIDE DEF top
  <2>3. (\A c \in tChains : IsGroup(sp, top, VmemDims, c)) /\ Splits(TChains(sp), top)
    BY <1>4, <2>1, <2>2, GroupsSplit
  <2> QED BY <2>3 DEF Splits
<1>8. \A pe : \A dim : SpatialIndex(sp, pe, dim) = Index(pe, L, dim)
  BY DEF SpatialIndex
<1>9. \A dim \in ReductionDims : Total(L, dim) = sp[dim]
  BY <1>5, SpatialTotals
<1>10. \A x \in pes :
         x \in top <=> \A dim \in ReductionDims : Index(x, L, dim) = Total(L, dim) - 1
  BY <1>8, <1>9 DEF KMaxPes
<1> HIDE DEF L, pes, top, kChains, tChains
<1>11. ASSUME NEW c \in kChains PROVE Last(c) \in top
  <2>1. /\ Last(c) \in ToSet(c) /\ Last(c) \in pes
        /\ \A x \in ToSet(c) : x <= Last(c)
        /\ \A y \in pes :
             y \in ToSet(c)
               <=> \A dim \in PsumDims : SpatialIndex(sp, y, dim) = SpatialIndex(sp, Last(c), dim)
    BY <1>6 DEF IsGroup
  <2>2. PICK s \in 0 .. Steps(L) - 1 : s = Last(c)
    BY <1>1, <2>1
  <2> SUFFICES ASSUME NEW dim \in ReductionDims, Index(s, L, dim) # Total(L, dim) - 1
               PROVE  FALSE
    BY <1>10, <2>1, <2>2
  <2>3. PICK t \in 0 .. Steps(L) - 1 :
          /\ s < t
          /\ \A other : other # dim => Index(t, L, other) = Index(s, L, other)
    BY <1>1, LaterStepExists
  <2>4. t \in pes /\ \A other \in PsumDims : other # dim
    BY <1>1, <1>5, <2>3
  <2>5. t \in ToSet(c)
    BY <1>8, <2>1, <2>2, <2>3, <2>4
  <2>6. t <= s
    BY <2>1, <2>2, <2>5
  <2> QED BY <1>1, <2>2, <2>3, <2>6
<1>12. ASSUME NEW x \in top PROVE \E c \in kChains : Last(c) = x
  <2>1. x \in pes
    BY <1>3
  <2>2. PICK c \in kChains : x \in ToSet(c)
    BY <1>6, <2>1
  <2>3. /\ Last(c) \in ToSet(c) /\ Last(c) \in pes /\ x <= Last(c)
        /\ \A dim \in PsumDims : SpatialIndex(sp, Last(c), dim) = SpatialIndex(sp, x, dim)
    BY <1>6, <2>2 DEF IsGroup
  <2>4. PICK s \in 0 .. Steps(L) - 1, t \in 0 .. Steps(L) - 1 : s = Last(c) /\ t = x
    BY <1>1, <2>1, <2>3
  <2>5. \A dim \in Dims \ ReductionDims : Index(s, L, dim) = Index(t, L, dim)
    BY <1>5, <1>8, <2>3, <2>4
  <2>6. \A dim \in ReductionDims : Index(t, L, dim) = Total(L, dim) - 1
    BY <1>10, <2>1, <2>4
  <2>7. s <= t
    BY <1>1, <2>4, <2>5, <2>6, NoLaterStep
  <2>8. s = t
    BY <1>1, <2>3, <2>4, <2>7
  <2> QED BY <2>4, <2>8
<1>13. {Last(c) : c \in kChains} = UNION {ToSet(c) : c \in tChains}
  BY <1>7, <1>11, <1>12
<1>14. ASSUME NEW c \in kChains, NEW k \in 2 .. Len(c)
       PROVE  c[k] % Columns(sp) = c[k - 1] % Columns(sp) /\ c[k] > c[k - 1]
  <2>1. /\ c[k] \in ToSet(c) /\ c[k - 1] \in ToSet(c) /\ c[k] > c[k - 1]
        /\ c[k] \in pes /\ c[k - 1] \in pes
    BY <1>6 DEF IsGroup
  <2>2. \A dim \in PsumDims : SpatialIndex(sp, c[k], dim) = SpatialIndex(sp, c[k - 1], dim)
    BY <1>6, <2>1 DEF IsGroup
  <2>3. PICK p \in Nat, q \in Nat : p = c[k] /\ q = c[k - 1]
    BY <1>2, <2>1
  <2>4. p % Columns(sp) = q % Columns(sp)
    BY <2>2, <2>3, SameColumn
  <2> QED BY <2>1, <2>3, <2>4
<1>15. ASSUME NEW c \in tChains, NEW k \in 2 .. Len(c)
       PROVE  c[k] \div Columns(sp) = c[k - 1] \div Columns(sp) /\ c[k] > c[k - 1]
  <2>1. /\ c[k] \in ToSet(c) /\ c[k - 1] \in ToSet(c) /\ c[k] > c[k - 1]
        /\ c[k] \in top /\ c[k - 1] \in top
    BY <1>7 DEF IsGroup
  <2>2. \A dim \in VmemDims : SpatialIndex(sp, c[k], dim) = SpatialIndex(sp, c[k - 1], dim)
    BY <1>7, <2>1 DEF IsGroup
  <2>3. PICK p \in pes, q \in pes : p = c[k] /\ q = c[k - 1]
    BY <1>3, <2>1
  <2>4. \A dim \in ReductionDims : SpatialIndex(sp, p, dim) = SpatialIndex(sp, q, dim)
    BY <1>8, <1>10, <2>1, <2>3
  <2>5. \A dim \in VmemDims \cup ReductionDims : SpatialIndex(sp, p, dim) = SpatialIndex(sp, q, dim)
    BY <2>2, <2>3, <2>4
  <2>6. p \div Columns(sp) = q \div Columns(sp)
    BY <2>5, SameRow DEF pes
  <2> QED BY <2>1, <2>3, <2>6
<1>16. UNION {ToSet(c) : c \in kChains} = 0 .. Columns(sp) * Rows(sp) - 1
  BY <1>1, <1>6
<1>17. \A c, d \in kChains : c # d => ToSet(c) \cap ToSet(d) = {}
  BY <1>6
<1> QED BY <1>13, <1>14, <1>15, <1>16, <1>17 DEF kChains, tChains
=============================================================================
