--------------------------- MODULE EventSimProofs ---------------------------
(***************************************************************************)
(* Proofs about the latency simulator, for every transaction list, mesh    *)
(* and DRAM latency.                                                       *)
(***************************************************************************)
EXTENDS EventSimProps, NestLemmas

(* A port has a column and a row.                                          *)
LEMMA ColRowType ==
  ASSUME NEW id \in Nat
  PROVE  Col(id) \in Nat /\ Row(id) \in Nat
<1>1. X \in Nat \ {0}
  BY EventSimAssumption
<1>2. \A n \in Nat \ {0} : id % n \in Nat /\ id \div n \in Nat
  OBVIOUS
<1> QED BY <1>1, <1>2 DEF Col, Row

(* The links of a straight way, one for each number between its ends.      *)
LEMMA StraightWay ==
  ASSUME NEW a \in Nat, NEW b \in Nat, NEW S, NEW f \in Surjection(a .. b - 1, S),
         \A x, y \in a .. b - 1 : f[x] = f[y] => x = y
  PROVE  IsFiniteSet(S) /\ Cardinality(S) = IF a < b THEN b - a ELSE 0
<1> DEFINE D == a .. b - 1
<1>1. IsFiniteSet(D) /\ Cardinality(D) = IF a < b THEN b - a ELSE 0
  <2>1. \A c \in Int : IsFiniteSet(a .. c) /\ Cardinality(a .. c) = IF a > c THEN 0 ELSE c - a + 1
    BY FS_Interval
  <2>2. b - 1 \in Int
    OBVIOUS
  <2>3. IsFiniteSet(D) /\ Cardinality(D) = IF a > b - 1 THEN 0 ELSE (b - 1) - a + 1
    BY <2>1, <2>2
  <2>4. (IF a > b - 1 THEN 0 ELSE (b - 1) - a + 1) = IF a < b THEN b - a ELSE 0
    OBVIOUS
  <2> QED BY <2>3, <2>4
<1> HIDE DEF D
<1>2. f \in Surjection(D, S) /\ f \in Injection(D, S)
  BY DEF D, Surjection, Injection, IsInjective
<1> QED BY <1>1, <1>2, FS_Surjection

(* The distance of two ports is a natural number.                          *)
LEMMA ManhattanType ==
  ASSUME NEW src \in Nat, NEW dest \in Nat
  PROVE  Manhattan(src, dest) \in Nat
<1>1. \A a, b \in Nat : Gap(a, b) \in Nat
  BY DEF Gap
<1>2. Col(src) \in Nat /\ Col(dest) \in Nat /\ Row(src) \in Nat /\ Row(dest) \in Nat
  BY ColRowType
<1>3. Gap(Col(src), Col(dest)) \in Nat /\ Gap(Row(src), Row(dest)) \in Nat
  BY <1>1, <1>2
<1> QED BY <1>3 DEF Manhattan

(* An XY route has as many links as its ends are apart.                    *)
LEMMA RouteIsFinite ==
  ASSUME NEW src \in Nat, NEW dest \in Nat
  PROVE  /\ IsFiniteSet(HopsSingle(src, dest))
         /\ Cardinality(HopsSingle(src, dest)) = Manhattan(src, dest)
<1> DEFINE sx == Col(src)   sy == Row(src)
           dx == Col(dest)  dy == Row(dest)
           Right == {<<x, sy, x + 1, sy>> : x \in sx .. dx - 1}
           Left  == {<<x + 1, sy, x, sy>> : x \in dx .. sx - 1}
           Down  == {<<dx, y, dx, y + 1>> : y \in sy .. dy - 1}
           Up    == {<<dx, y + 1, dx, y>> : y \in dy .. sy - 1}
<1>1. sx \in Nat /\ sy \in Nat /\ dx \in Nat /\ dy \in Nat
  BY ColRowType
<1>2. HopsSingle(src, dest) = (Right \cup Left) \cup (Down \cup Up)
  BY DEF HopsSingle
<1>3. Manhattan(src, dest) = Gap(sx, dx) + Gap(sy, dy)
  BY DEF Manhattan
<1> HIDE DEF sx, sy, dx, dy
<1>4. IsFiniteSet(Right) /\ Cardinality(Right) = IF sx < dx THEN dx - sx ELSE 0
  <2> DEFINE f == [x \in sx .. dx - 1 |-> <<x, sy, x + 1, sy>>]
  <2>1. f \in Surjection(sx .. dx - 1, Right)
    BY DEF Surjection
  <2>2. \A x, y \in sx .. dx - 1 : f[x] = f[y] => x = y
    OBVIOUS
  <2> HIDE DEF f, Right
  <2> QED BY <1>1, <2>1, <2>2, StraightWay
<1>5. IsFiniteSet(Left) /\ Cardinality(Left) = IF dx < sx THEN sx - dx ELSE 0
  <2> DEFINE f == [x \in dx .. sx - 1 |-> <<x + 1, sy, x, sy>>]
  <2>1. f \in Surjection(dx .. sx - 1, Left)
    BY DEF Surjection
  <2>2. \A x, y \in dx .. sx - 1 : f[x] = f[y] => x = y
    OBVIOUS
  <2> HIDE DEF f, Left
  <2> QED BY <1>1, <2>1, <2>2, StraightWay
<1>6. IsFiniteSet(Down) /\ Cardinality(Down) = IF sy < dy THEN dy - sy ELSE 0
  <2> DEFINE f == [y \in sy .. dy - 1 |-> <<dx, y, dx, y + 1>>]
  <2>1. f \in Surjection(sy .. dy - 1, Down)
    BY DEF Surjection
  <2>2. \A x, y \in sy .. dy - 1 : f[x] = f[y] => x = y
    OBVIOUS
  <2> HIDE DEF f, Down
  <2> QED BY <1>1, <2>1, <2>2, StraightWay
<1>7. IsFiniteSet(Up) /\ Cardinality(Up) = IF dy < sy THEN sy - dy ELSE 0
  <2> DEFINE f == [y \in dy .. sy - 1 |-> <<dx, y + 1, dx, y>>]
  <2>1. f \in Surjection(dy .. sy - 1, Up)
    BY DEF Surjection
  <2>2. \A x, y \in dy .. sy - 1 : f[x] = f[y] => x = y
    OBVIOUS
  <2> HIDE DEF f, Up
  <2> QED BY <1>1, <2>1, <2>2, StraightWay
<1>8. Right \cap Left = {} /\ Down \cap Up = {}
  <2>1. sx < dx => Left = {}
    BY <1>1
  <2>2. ~ (sx < dx) => Right = {}
    BY <1>1
  <2>3. sy < dy => Up = {}
    BY <1>1
  <2>4. ~ (sy < dy) => Down = {}
    BY <1>1
  <2> HIDE DEF Right, Left, Down, Up
  <2> QED BY <2>1, <2>2, <2>3, <2>4
<1>9. (Right \cup Left) \cap (Down \cup Up) = {}
  <2>1. \A l \in Right \cup Left : l[1] # l[3]
    BY <1>1
  <2>2. \A l \in Down \cup Up : l[1] = l[3]
    OBVIOUS
  <2> HIDE DEF Right, Left, Down, Up
  <2> QED BY <2>1, <2>2
<1> HIDE DEF Right, Left, Down, Up
<1>10. Cardinality({}) = 0
  BY FS_EmptySet
<1>11. /\ IsFiniteSet(Right \cup Left)
       /\ Cardinality(Right \cup Left) = Cardinality(Right) + Cardinality(Left) - 0
  BY <1>4, <1>5, <1>8, <1>10, FS_Union
<1>12. /\ IsFiniteSet(Down \cup Up)
       /\ Cardinality(Down \cup Up) = Cardinality(Down) + Cardinality(Up) - 0
  BY <1>6, <1>7, <1>8, <1>10, FS_Union
<1>13. Cardinality(Right \cup Left) = Gap(sx, dx)
  BY <1>1, <1>4, <1>5, <1>11 DEF Gap
<1>14. Cardinality(Down \cup Up) = Gap(sy, dy)
  BY <1>1, <1>6, <1>7, <1>12 DEF Gap
<1>15. Gap(sx, dx) \in Nat /\ Gap(sy, dy) \in Nat
  BY <1>1 DEF Gap
<1>16. /\ IsFiniteSet((Right \cup Left) \cup (Down \cup Up))
       /\ Cardinality((Right \cup Left) \cup (Down \cup Up)) = Gap(sx, dx) + Gap(sy, dy) - 0
  BY <1>9, <1>10, <1>11, <1>12, <1>13, <1>14, FS_Union
<1> QED BY <1>2, <1>3, <1>15, <1>16

(* max_element of a list that is not empty names one of its elements.      *)
LEMMA FarthestExists ==
  ASSUME NEW tc \in Transactions, tc.dests # <<>>
  PROVE  /\ Farthest(tc) \in DOMAIN tc.dests
         /\ \A i \in DOMAIN tc.dests :
              Manhattan(tc.actor, tc.dests[i]) <= Manhattan(tc.actor, tc.dests[Farthest(tc)])
<1> DEFINE Dist(i) == Manhattan(tc.actor, tc.dests[i])
           P == DOMAIN tc.dests
           D == {Dist(i) : i \in P}
           First(i) == \A j \in P : Dist(j) <= Dist(i) /\ (j < i => Dist(j) < Dist(i))
<1>1. /\ tc.dests \in Seq(Nat) /\ tc.actor \in Nat
      /\ P = 1 .. Len(tc.dests) /\ P # {}
  <2>1. tc.dests \in Seq(Nat) /\ tc.actor \in Nat
    BY DEF Transactions
  <2>2. \A q \in Seq(Nat) : q # <<>> => Len(q) \in Nat \ {0} /\ DOMAIN q = 1 .. Len(q)
    OBVIOUS
  <2>3. Len(tc.dests) \in Nat \ {0} /\ P = 1 .. Len(tc.dests)
    BY <2>1, <2>2
  <2>4. \A n \in Nat \ {0} : 1 \in 1 .. n
    OBVIOUS
  <2>5. P # {}
    BY <2>3, <2>4
  <2> HIDE DEF P
  <2> QED BY <2>1, <2>3, <2>5
<1>2. \A i \in P : Dist(i) \in Nat
  <2> SUFFICES ASSUME NEW i \in P PROVE Dist(i) \in Nat
    OBVIOUS
  <2>1. tc.dests[i] \in Nat
    BY <1>1
  <2> QED BY <1>1, <2>1, ManhattanType
<1>3. D \subseteq Nat /\ D # {}
  BY <1>1, <1>2
<1>4. IsFiniteSet(D)
  <2> DEFINE f == [i \in P |-> Dist(i)]
  <2>1. IsFiniteSet(P)
    BY <1>1, FS_Interval
  <2>2. f \in Surjection(P, D)
    BY DEF Surjection
  <2> HIDE DEF P, D, f
  <2> QED BY <2>1, <2>2, FS_Surjection
<1>5. PICK m \in D : \A d \in D : m >= d
  <2> HIDE DEF D
  <2> QED BY <1>3, <1>4, MaxExists
<1> DEFINE Best == {i \in P : Dist(i) = m}
<1>6. Best \subseteq Nat /\ Best # {}
  BY <1>1, <1>5
<1>7. PICK k \in Best : \A i \in Best : k <= i
  <2> HIDE DEF Best
  <2> QED BY <1>6, LeastExists
<1>8. First(k)
  <2> SUFFICES ASSUME NEW j \in P
               PROVE  Dist(j) <= Dist(k) /\ (j < k => Dist(j) < Dist(k))
    OBVIOUS
  <2>1. Dist(j) <= m /\ Dist(k) = m /\ Dist(j) \in Nat /\ m \in Nat
    BY <1>2, <1>5, <1>7
  <2>2. j < k => Dist(j) # m
    BY <1>1, <1>7
  <2> HIDE DEF Dist
  <2> QED BY <2>1, <2>2
<1>9. Farthest(tc) = CHOOSE i \in P : First(i)
  BY DEF Farthest
<1> DEFINE far == Farthest(tc)
<1>10. far \in P /\ First(far)
  <2> HIDE DEF First, far
  <2>1. far = CHOOSE i \in P : First(i)
    BY <1>9 DEF far
  <2> QED BY <1>7, <1>8, <2>1
<1> HIDE DEF far
<1> QED BY <1>10 DEF far

(* What a dispatched transaction needs and how long it takes.              *)
LEMMA NeedsAndDuration ==
  ASSUME NEW tc \in Transactions, Sendable(tc)
  PROVE  /\ IsFiniteSet(Needs(tc)) /\ Needs(tc) # {}
         /\ Duration(tc) \in Nat
<1>1. tc.actor \in Nat /\ tc.size \in Nat /\ tc.dests \in Seq(Nat)
      /\ tc.op \in Ops
  BY DEF Transactions
<1>2. IsFiniteSet(Hops(tc))
  <2>1. CASE OnMesh(tc)
    <3>1. tc.dests # <<>>
      BY <2>1 DEF Sendable
    <3>2. Farthest(tc) \in DOMAIN tc.dests /\ 1 \in DOMAIN tc.dests
      BY <1>1, <3>1, FarthestExists
    <3>3. Destination(tc) \in Nat
      BY <1>1, <3>2 DEF Destination
    <3> QED BY <1>1, <2>1, <3>3, RouteIsFinite DEF Hops
  <2>2. CASE ~OnMesh(tc)
    BY <2>2, FS_EmptySet DEF Hops
  <2> QED BY <2>1, <2>2
<1>3. Cardinality(Hops(tc)) \in Nat
  BY <1>2, FS_CardinalityType
<1>4. Duration(tc) \in Nat
  <2>1. tc.size * DramLatency \in Nat
    BY <1>1, EventSimAssumption
  <2>2. tc.op = "count" \/ IsDram(tc) \/ OnMesh(tc)
    BY DEF IsDram, OnMesh
  <2> QED BY <1>1, <1>3, <2>1, <2>2 DEF Duration, FlitsPerPacket
<1>5. IsFiniteSet(Needs(tc))
  BY <1>2, FS_Singleton, FS_Union DEF Needs
<1> QED BY <1>4, <1>5 DEF Needs

(* A transaction with somewhere to go takes a number of cycles.            *)
LEMMA DurationType ==
  \A tc \in Transactions : Sendable(tc) => Duration(tc) \in Nat
  BY NeedsAndDuration

(* A message on the mesh takes as long as its way to the farthest receiver *)
(* and its flits.                                                          *)
LEMMA SendingTime ==
  \A tc \in Transactions :
    OnMesh(tc) /\ tc.dests # <<>> =>
      \E i \in DOMAIN tc.dests :
        /\ Duration(tc) = Manhattan(tc.actor, tc.dests[i]) + tc.size * FlitsPerPacket
        /\ tc.op # "unicast" =>
             \A j \in DOMAIN tc.dests :
               Manhattan(tc.actor, tc.dests[j]) <= Manhattan(tc.actor, tc.dests[i])
        /\ tc.op = "unicast" => i = 1
<1> SUFFICES ASSUME NEW tc \in Transactions, OnMesh(tc), tc.dests # <<>>
             PROVE  \E i \in DOMAIN tc.dests :
                      /\ Duration(tc) = Manhattan(tc.actor, tc.dests[i])
                                           + tc.size * FlitsPerPacket
                      /\ tc.op # "unicast" =>
                           \A j \in DOMAIN tc.dests :
                             Manhattan(tc.actor, tc.dests[j]) <= Manhattan(tc.actor, tc.dests[i])
                      /\ tc.op = "unicast" => i = 1
  OBVIOUS
<1> DEFINE i == IF tc.op = "unicast" THEN 1 ELSE Farthest(tc)
<1>1. tc.actor \in Nat /\ tc.dests \in Seq(Nat)
  BY DEF Transactions
<1>2. 1 \in DOMAIN tc.dests
  BY <1>1
<1>3. i \in DOMAIN tc.dests /\ tc.dests[i] \in Nat
  BY <1>1, <1>2, FarthestExists
<1>4. Hops(tc) = HopsSingle(tc.actor, tc.dests[i])
  BY DEF Hops, Destination
<1>5. Cardinality(Hops(tc)) = Manhattan(tc.actor, tc.dests[i])
  BY <1>1, <1>3, <1>4, RouteIsFinite
<1>6. tc.op # "count" /\ ~IsDram(tc)
  BY DEF OnMesh, IsDram
<1>7. Duration(tc) = Manhattan(tc.actor, tc.dests[i]) + tc.size * FlitsPerPacket
  BY <1>5, <1>6 DEF Duration
<1> QED BY <1>3, <1>7, FarthestExists

-----------------------------------------------------------------------------
(* The shape of the state that the argument about resources needs.         *)
ShapeOK ==
  /\ tcs \in Seq(Transactions)
  /\ ready \subseteq DOMAIN tcs
  /\ freeAt \in [DOMAIN freeAt -> Nat]
  /\ placed \in [DOMAIN placed -> [start : Nat, finish : Nat]]
  /\ DOMAIN placed \subseteq DOMAIN tcs

(* Nothing dispatched outlasts the free time of what it holds: this is     *)
(* what makes the next user of a resource start late enough.               *)
FreeAfterItsUsers ==
  \A i \in DOMAIN placed : \A r \in Needs(tcs[i]) : placed[i].finish <= FreeAt(r)

ExclusiveInv == ShapeOK /\ FreeAfterItsUsers /\ ResourcesAreExclusive

(* A free time is a natural number, whether the key is in the map or not.  *)
LEMMA FreeAtType ==
  ASSUME ShapeOK, NEW r
  PROVE  FreeAt(r) \in Nat
  BY DEF ShapeOK, FreeAt

(* Start waits for everything the transaction needs.                       *)
LEMMA StartIsLateEnough ==
  ASSUME ShapeOK, NEW tc \in Transactions, Sendable(tc)
  PROVE  /\ Start(tc) \in Nat
         /\ \A r \in Needs(tc) : FreeAt(r) <= Start(tc)
<1> DEFINE N == Needs(tc)
           F == {FreeAt(r) : r \in N}
           f == [r \in N |-> FreeAt(r)]
<1>1. IsFiniteSet(N) /\ N # {}
  BY NeedsAndDuration
<1>2. F \subseteq Nat /\ F # {}
  BY <1>1, FreeAtType
<1>3. f \in Surjection(N, F)
  BY DEF Surjection
<1>4. IsFiniteSet(F)
  <2> HIDE DEF N, F, f
  <2> QED BY <1>1, <1>3, FS_Surjection
<1>5. Start(tc) = Max(F)
  BY DEF Start
<1>6. Max(F) \in F /\ \A t \in F : Max(F) >= t
  <2> HIDE DEF F
  <2> QED BY <1>2, <1>4, MaxExists
<1>7. \A r \in N : FreeAt(r) \in F /\ FreeAt(r) \in Nat
  BY FreeAtType
<1> HIDE DEF F
<1> QED BY <1>2, <1>5, <1>6, <1>7

(* A dispatch starts no transaction while another holds what it needs.     *)
LEMMA DispatchKeepsExclusive ==
  ASSUME ExclusiveInv, NEW i \in DOMAIN tcs, Dispatch(i)
  PROVE  ExclusiveInv'
<1> DEFINE tc == tcs[i]
           start == Start(tc)
           finish == start + Duration(tc)
<1> USE DEF ExclusiveInv
<1>1. tc \in Transactions /\ Sendable(tc)
  BY DEF ShapeOK, Dispatch
<1>2. /\ start \in Nat /\ finish \in Nat /\ start <= finish
      /\ \A r \in Needs(tc) : FreeAt(r) <= start
  <2>1. Duration(tc) \in Nat
    BY <1>1, NeedsAndDuration
  <2>2. start \in Nat /\ \A r \in Needs(tc) : FreeAt(r) <= start
    BY <1>1, StartIsLateEnough
  <2> HIDE DEF start
  <2> QED BY <2>1, <2>2
<1>3. /\ freeAt' = [r \in DOMAIN freeAt \cup Needs(tc) |->
                      IF r \in Needs(tc) THEN finish ELSE freeAt[r]]
      /\ placed' = [k \in DOMAIN placed \cup {i} |->
                      IF k = i THEN [start |-> start, finish |-> finish]
                      ELSE placed[k]]
      /\ tcs' = tcs /\ ready' \subseteq ready
  BY DEF Dispatch
<1> HIDE DEF start, finish
<1>4. ShapeOK'
  <2>1. freeAt' \in [DOMAIN freeAt' -> Nat]
    BY <1>2, <1>3 DEF ShapeOK
  <2>2. placed' \in [DOMAIN placed' -> [start : Nat, finish : Nat]]
        /\ DOMAIN placed' \subseteq DOMAIN tcs
    BY <1>2, <1>3 DEF ShapeOK
  <2> QED BY <1>3, <2>1, <2>2 DEF ShapeOK
<1>5. \A k \in DOMAIN tcs : Needs(tcs[k])' = Needs(tcs[k])
  BY <1>3
<1>6. \A r : FreeAt(r)' = IF r \in Needs(tc) THEN finish ELSE FreeAt(r)
  BY <1>3 DEF FreeAt
<1>7. \A r : FreeAt(r) \in Nat
  BY FreeAtType
<1>8. \A k \in DOMAIN placed \ {i} :
        placed'[k] = placed[k] /\ placed[k].finish \in Nat
        /\ k \in DOMAIN tcs
  BY <1>3 DEF ShapeOK
<1>9. placed'[i].start = start /\ placed'[i].finish = finish
  BY <1>3
<1>10. DOMAIN placed' = (DOMAIN placed \ {i}) \cup {i}
  BY <1>3
<1> HIDE DEF tc
<1>11. FreeAfterItsUsers'
  <2> SUFFICES ASSUME NEW k \in DOMAIN placed', NEW r \in Needs(tcs[k])'
               PROVE  placed'[k].finish <= FreeAt(r)'
    BY DEF FreeAfterItsUsers
  <2>1. CASE k = i
    <3>1. r \in Needs(tc)
      BY <1>5, <2>1 DEF tc
    <3> QED BY <1>2, <1>6, <1>9, <2>1, <3>1
  <2>2. CASE k # i
    <3>1. k \in DOMAIN placed \ {i} /\ r \in Needs(tcs[k])
      BY <1>5, <1>8, <1>10, <2>2
    <3>2. placed[k].finish <= FreeAt(r)
      BY <3>1 DEF FreeAfterItsUsers
    <3>3. FreeAt(r) <= FreeAt(r)'
      BY <1>2, <1>6, <1>7
    <3>4. FreeAt(r)' \in Nat
      BY <1>2, <1>6, <1>7
    <3> QED BY <1>7, <1>8, <3>1, <3>2, <3>3, <3>4
  <2> QED BY <2>1, <2>2
(* A transaction that shares a resource with i had finished when i starts. *)
<1>12. ASSUME NEW k \in DOMAIN placed \ {i}, Needs(tcs[k]) \cap Needs(tc) # {}
       PROVE  placed'[k].finish <= placed'[i].start
  <2>1. PICK r \in Needs(tcs[k]) : r \in Needs(tc)
    BY <1>12
  <2>2. placed[k].finish <= FreeAt(r)
    BY DEF FreeAfterItsUsers
  <2> QED BY <1>2, <1>7, <1>8, <1>9, <2>1, <2>2
<1>13. ResourcesAreExclusive'
  <2> SUFFICES ASSUME NEW j \in DOMAIN placed', NEW k \in DOMAIN placed', j # k,
                      (Needs(tcs[j]) \cap Needs(tcs[k]))' # {}
               PROVE  \/ placed'[j].finish <= placed'[k].start
                      \/ placed'[k].finish <= placed'[j].start
    BY DEF ResourcesAreExclusive
  <2>1. Needs(tcs[j]) \cap Needs(tcs[k]) # {}
    BY <1>5, <1>8, <1>10
  <2>2. CASE j = i
    BY <1>10, <1>12, <2>1, <2>2 DEF tc
  <2>3. CASE k = i
    BY <1>10, <1>12, <2>1, <2>3 DEF tc
  <2>4. CASE j # i /\ k # i
    BY <1>8, <1>10, <2>1, <2>4 DEF ResourcesAreExclusive
  <2> QED BY <2>2, <2>3, <2>4
<1> QED BY <1>4, <1>11, <1>13

(* Only a dispatch touches what the argument is about.                     *)
LEMMA ExclusiveStep == ExclusiveInv /\ [Next]_vars => ExclusiveInv'
<1> SUFFICES ASSUME ExclusiveInv, [Next]_vars PROVE ExclusiveInv'
  OBVIOUS
<1> DEFINE Rest == /\ UNCHANGED <<tcs, freeAt, placed>>
                   /\ ready' \subseteq DOMAIN tcs
<1>1. ASSUME NEW i \in DOMAIN tcs, Dispatch(i) PROVE ExclusiveInv'
  BY <1>1, DispatchKeepsExclusive
<1>2. ASSUME Rest PROVE ExclusiveInv'
  BY <1>2 DEF ExclusiveInv, ShapeOK, FreeAfterItsUsers,
              ResourcesAreExclusive, FreeAt
<1>3. ready \subseteq DOMAIN tcs
  BY DEF ExclusiveInv, ShapeOK
<1>4. Load \/ RejectList => Rest
  BY <1>3 DEF Load, RejectList
<1>5. ASSUME NEW i \in DOMAIN tcs, RejectTransaction(i) PROVE Rest
  BY <1>3, <1>5 DEF RejectTransaction
<1>6. ASSUME NEW e \in completions, Complete(e) PROVE Rest
  BY <1>6 DEF Complete, ReadyAfter
<1>7. Return \/ Exited \/ UNCHANGED vars => Rest
  BY <1>3 DEF Return, Exited, vars
<1> HIDE DEF Rest
<1> QED BY <1>1, <1>2, <1>4, <1>5, <1>6, <1>7 DEF Next

(* Resources are exclusive, with what that rests on, in every state.       *)
LEMMA ExclusiveInvariant == Spec => []ExclusiveInv
<1>1. Init => ExclusiveInv
  <2> SUFFICES ASSUME Init PROVE ExclusiveInv
    OBVIOUS
  <2>1. DOMAIN placed = {} /\ DOMAIN freeAt = {}
    BY DEF Init
  <2>2. tcs \in Seq(Transactions)
    BY EventSimAssumption DEF Init
  <2> QED BY <2>1, <2>2
          DEF Init, ExclusiveInv, ShapeOK, FreeAfterItsUsers, ResourcesAreExclusive
<1> QED BY <1>1, ExclusiveStep, PTL DEF Spec

(* No two transactions that share an actor or a link ever overlap, for     *)
(* every transaction list: the simulator accounts for contention.          *)
THEOREM ExclusiveCorrect == Spec => []ResourcesAreExclusive
<1>1. ExclusiveInv => ResourcesAreExclusive
  BY DEF ExclusiveInv
<1> QED BY <1>1, ExclusiveInvariant, PTL

-----------------------------------------------------------------------------
(* The event loop computes a list schedule.  What its queues hold says     *)
(* what may be placed, and what is in freeAt when.                         *)

(* Dispatched, with the completion still in the queue. *)
Awaited == {e[2] : e \in completions}

Done == DOMAIN placed \ Awaited

(* The places of i's list that name a transaction not done yet. *)
Left(i) ==
  {k \in DOMAIN tcs[i].deps : \A j \in Done : tcs[j].tc_id # tcs[i].deps[k]}

(* The places of i's list that name j. *)
Places(i, j) == {k \in DOMAIN tcs[i].deps : tcs[i].deps[k] = tcs[j].tc_id}

(* Nothing has happened before the run. *)
Untouched ==
  /\ DOMAIN placed = {} /\ DOMAIN freeAt = {}
  /\ completions = {} /\ ready = {} /\ dispatched = 0

(* A transaction is ready, or was, when nothing it depends on is left, and *)
(* remaining counts what is left.                                          *)
QueuesOK ==
  /\ WellFormed
  /\ remaining \in [DOMAIN tcs -> Int]
  /\ \A i \in DOMAIN tcs : remaining[i] = Cardinality(Left(i))
  /\ ready \cap DOMAIN placed = {}
  /\ ready \cup DOMAIN placed = {i \in DOMAIN tcs : Left(i) = {}}
  /\ dispatched = Cardinality(DOMAIN placed)

(* A resource is free when its last user has finished. *)
FreeAfterTheLast ==
  \A r \in DOMAIN freeAt :
    \E k \in DOMAIN placed : r \in Needs(tcs[k]) /\ placed[k].finish = freeAt[r]

(* Added to ExclusiveInv. *)
LoopInv ==
  /\ FreeAfterTheLast
  /\ pc \in {"load", "run", "done", "cycle", "rejected"}
  /\ completions \subseteq {<<placed[i].finish, i>> : i \in DOMAIN placed}
  /\ \A i \in DOMAIN placed : Sendable(tcs[i])
  /\ pc = "load" => Untouched
  /\ pc = "run" => QueuesOK

(* A transaction is named by one id only.                                  *)
LEMMA IdsAreUnique ==
  ASSUME ShapeOK, WellFormed
  PROVE  \A i, j \in DOMAIN tcs : tcs[i].tc_id = tcs[j].tc_id => i = j
<1> DEFINE D == DOMAIN tcs
           T == TcIds
           f == [i \in D |-> tcs[i].tc_id]
<1>1. PICK n \in Nat : n = Len(tcs) /\ D = 1 .. n
  BY DEF ShapeOK
<1>2. IsFiniteSet(D) /\ Cardinality(D) = n
  <2>1. \A m \in Nat : IsFiniteSet(1 .. m) /\ Cardinality(1 .. m) = m
    BY FS_Interval
  <2> QED BY <1>1, <2>1
<1>3. f \in Surjection(D, T)
  BY DEF Surjection, TcIds
<1>4. Cardinality(T) = n
  BY <1>1 DEF WellFormed
<1>5. f \in Injection(D, T)
  <2> HIDE DEF D, T, f
  <2> QED BY <1>2, <1>3, <1>4, FS_Surjection
<1>6. \A i, j \in D : f[i] = f[j] => i = j
  <2> HIDE DEF D, T, f
  <2> QED BY <1>5 DEF Injection, IsInjective
<1> QED BY <1>6

(* A transaction has nothing left to wait for when all it depends on is    *)
(* done.                                                                   *)
LEMMA NothingLeft ==
  ASSUME ShapeOK, WellFormed, NEW i \in DOMAIN tcs
  PROVE  Left(i) = {} <=> Dependencies(i) \subseteq Done
<1>1. /\ tcs[i].deps \in Seq(Nat)
      /\ DOMAIN tcs[i].deps = 1 .. Len(tcs[i].deps)
  <2>1. tcs[i] \in Transactions
    BY DEF ShapeOK
  <2> QED BY <2>1 DEF Transactions
<1>2. Done \subseteq DOMAIN tcs
  BY DEF ShapeOK, Done
<1>3. ASSUME Left(i) = {}, NEW j \in Dependencies(i) PROVE j \in Done
  <2>1. j \in DOMAIN tcs /\ \E k \in DOMAIN tcs[i].deps : tcs[i].deps[k] = tcs[j].tc_id
    BY <1>1 DEF Dependencies, Contains
  <2>2. PICK k \in DOMAIN tcs[i].deps : tcs[i].deps[k] = tcs[j].tc_id
    BY <2>1
  <2>3. PICK d \in Done : tcs[d].tc_id = tcs[i].deps[k]
    BY <1>3, <2>2 DEF Left
  <2>4. d = j
    BY <1>2, <2>1, <2>2, <2>3, IdsAreUnique
  <2> QED BY <2>3, <2>4
<1>4. ASSUME Dependencies(i) \subseteq Done, NEW k \in Left(i) PROVE FALSE
  <2>1. k \in DOMAIN tcs[i].deps
    BY DEF Left
  <2>2. tcs[i].deps[k] \in UNION {ToSet(tcs[j].deps) : j \in DOMAIN tcs}
    BY <2>1 DEF ToSet
  <2>3. PICK j \in DOMAIN tcs : tcs[j].tc_id = tcs[i].deps[k]
    BY <2>2 DEF WellFormed, TcIds
  <2>4. j \in Dependencies(i)
    BY <1>1, <2>1, <2>3 DEF Dependencies, Contains
  <2> QED BY <1>4, <2>3, <2>4 DEF Left
<1> QED BY <1>3, <1>4

(* Lists of dependencies are short.                                        *)
LEMMA LeftIsFinite ==
  ASSUME ShapeOK, NEW i \in DOMAIN tcs
  PROVE  /\ IsFiniteSet(DOMAIN tcs[i].deps)
         /\ Cardinality(DOMAIN tcs[i].deps) = Len(tcs[i].deps)
         /\ IsFiniteSet(Left(i)) /\ \A j : IsFiniteSet(Places(i, j))
<1> DEFINE D == DOMAIN tcs[i].deps
<1>1. PICK n \in Nat : n = Len(tcs[i].deps) /\ D = 1 .. n
  <2>1. tcs[i] \in Transactions
    BY DEF ShapeOK
  <2> QED BY <2>1 DEF Transactions
<1>2. IsFiniteSet(D) /\ Cardinality(D) = n
  <2>1. \A m \in Nat : IsFiniteSet(1 .. m) /\ Cardinality(1 .. m) = m
    BY FS_Interval
  <2> QED BY <1>1, <2>1
<1>3. Left(i) \in SUBSET D /\ \A j : Places(i, j) \in SUBSET D
  BY DEF Left, Places
<1>4. \A T \in SUBSET D : IsFiniteSet(T)
  <2> HIDE DEF D
  <2> QED BY <1>2, FS_Subset
<1> QED BY <1>1, <1>2, <1>3, <1>4

(* When the run begins everything is left, and what waits for nothing is   *)
(* ready.                                                                  *)
LEMMA LoadFillsTheQueue ==
  ASSUME ExclusiveInv, LoopInv, Load
  PROVE  LoopInv'
<1> USE DEF ExclusiveInv
<1>1. /\ WellFormed /\ tcs' = tcs /\ pc' = "run" /\ placed' = placed /\ freeAt' = freeAt
      /\ completions' = completions /\ dispatched' = dispatched
      /\ remaining' = [i \in DOMAIN tcs |-> DependencyCount(i)]
      /\ ready' = {i \in DOMAIN tcs : tcs[i].deps = <<>>}
      /\ pc = "load"
  BY DEF Load
<1>2. Untouched
  BY <1>1 DEF LoopInv
<1>3. \A i \in DOMAIN tcs : Left(i)' = DOMAIN tcs[i].deps
  BY <1>1, <1>2 DEF Left, Done, Untouched
<1>4. ASSUME NEW i \in DOMAIN tcs
      PROVE  /\ remaining'[i] = Cardinality(Left(i)')
             /\ remaining'[i] \in Int
             /\ tcs[i].deps = <<>> <=> Left(i)' = {}
  <2>1. tcs[i].deps \in Seq(Nat)
    <3>1. tcs[i] \in Transactions
      BY DEF ShapeOK
    <3> QED BY <3>1 DEF Transactions
  <2>2. \A s \in Seq(Nat) : s = <<>> <=> DOMAIN s = {}
    OBVIOUS
  <2>3. Len(tcs[i].deps) \in Nat
    BY <2>1
  <2>4. Cardinality(DOMAIN tcs[i].deps) = Len(tcs[i].deps)
    BY LeftIsFinite
  <2>5. remaining'[i] = Len(tcs[i].deps)
    BY <1>1 DEF DependencyCount
  <2>6. Left(i)' = DOMAIN tcs[i].deps
    BY <1>3
  <2>7. tcs[i].deps = <<>> <=> DOMAIN tcs[i].deps = {}
    BY <2>1, <2>2
  <2>8. Cardinality(Left(i)') = Len(tcs[i].deps)
    BY <2>4, <2>6
  <2> QED BY <2>3, <2>5, <2>6, <2>7, <2>8
<1>5. Cardinality({}) = 0
  BY FS_EmptySet
<1>6. QueuesOK'
  <2>1. WellFormed'
    BY <1>1 DEF WellFormed, TcIds
  <2>2. ready' \cap DOMAIN placed' = {} /\ dispatched' = Cardinality(DOMAIN placed')
    BY <1>1, <1>2, <1>5 DEF Untouched
  <2>3. ready' \cup DOMAIN placed' = {i \in DOMAIN tcs' : Left(i)' = {}}
    BY <1>1, <1>2, <1>4 DEF Untouched
  <2>4. remaining' \in [DOMAIN tcs' -> Int]
    BY <1>1, <1>4
  <2> QED BY <1>1, <1>4, <2>1, <2>2, <2>3, <2>4 DEF QueuesOK
<1>7. /\ FreeAfterTheLast'
      /\ completions' \subseteq {<<placed'[i].finish, i>> : i \in DOMAIN placed'}
      /\ \A i \in DOMAIN placed' : Sendable(tcs[i])'
  BY <1>1, <1>2 DEF Untouched, FreeAfterTheLast
<1> QED BY <1>1, <1>6, <1>7 DEF LoopInv

(* A dispatch makes nothing done: what is left stays, and the transaction  *)
(* moves from the ready ones to the placed ones.                           *)
LEMMA DispatchKeepsQueues ==
  ASSUME ExclusiveInv, ExclusiveInv', LoopInv, NEW i \in DOMAIN tcs, Dispatch(i)
  PROVE  LoopInv'
<1> DEFINE tc == tcs[i]
           start == Start(tc)
           finish == start + Duration(tc)
<1> USE DEF ExclusiveInv
<1>1. /\ tcs' = tcs /\ pc' = pc /\ pc = "run" /\ remaining' = remaining
      /\ i \in ready /\ Sendable(tc)
      /\ freeAt' = [r \in DOMAIN freeAt \cup Needs(tc) |->
                      IF r \in Needs(tc) THEN finish ELSE freeAt[r]]
      /\ completions' = completions \cup {<<finish, i>>}
      /\ placed' = [k \in DOMAIN placed \cup {i} |->
                      IF k = i THEN [start |-> start, finish |-> finish]
                      ELSE placed[k]]
      /\ ready' = ready \ {i} /\ dispatched' = dispatched + 1
  BY DEF Dispatch, IsTop
<1> HIDE DEF start, finish
<1>2. /\ WellFormed /\ i \notin DOMAIN placed
      /\ ready \cap DOMAIN placed = {}
      /\ \A k \in DOMAIN tcs : remaining[k] = Cardinality(Left(k))
      /\ ready \cup DOMAIN placed = {k \in DOMAIN tcs : Left(k) = {}}
      /\ dispatched = Cardinality(DOMAIN placed)
  BY <1>1 DEF LoopInv, QueuesOK
<1>3. /\ DOMAIN placed' = DOMAIN placed \cup {i}
      /\ placed'[i].finish = finish
      /\ \A k \in DOMAIN placed : placed'[k] = placed[k]
  BY <1>1, <1>2
<1>4. Done' = Done
  <2>1. Awaited' = Awaited \cup {i}
    <3>1. PICK f : f = <<finish, i>>
      OBVIOUS
    <3>2. f[2] = i /\ completions' = completions \cup {f}
      BY <1>1, <3>1
    <3> QED BY <3>2 DEF Awaited
  <2> QED BY <1>2, <1>3, <2>1 DEF Done
<1>5. \A k : Left(k)' = Left(k)
  BY <1>1, <1>4 DEF Left
<1>6. dispatched' = Cardinality(DOMAIN placed')
  <2>1. PICK n \in Nat : n = Len(tcs) /\ DOMAIN tcs = 1 .. n
    BY DEF ShapeOK
  <2>2. IsFiniteSet(DOMAIN tcs) /\ DOMAIN placed \in SUBSET DOMAIN tcs
    <3>1. \A m \in Nat : IsFiniteSet(1 .. m)
      BY FS_Interval
    <3> QED BY <2>1, <3>1 DEF ShapeOK
  <2>3. IsFiniteSet(DOMAIN placed)
    BY <2>2, FS_Subset
  <2>4. Cardinality(DOMAIN placed \cup {i}) = Cardinality(DOMAIN placed) + 1
    BY <1>2, <2>3, FS_AddElement
  <2> QED BY <1>1, <1>2, <1>3, <2>4
<1>7. QueuesOK'
  <2>1. WellFormed'
    BY <1>1, <1>2 DEF WellFormed, TcIds
  <2>2. ready' \cap DOMAIN placed' = {}
    BY <1>1, <1>2, <1>3
  <2>3. ready' \cup DOMAIN placed' = {k \in DOMAIN tcs' : Left(k)' = {}}
    BY <1>1, <1>2, <1>3, <1>5
  <2>4. \A k \in DOMAIN tcs' : remaining'[k] = Cardinality(Left(k)')
    BY <1>1, <1>2, <1>5
  <2>5. remaining' \in [DOMAIN tcs' -> Int]
    BY <1>1, <1>2 DEF LoopInv, QueuesOK
  <2> QED BY <1>6, <2>1, <2>2, <2>3, <2>4, <2>5 DEF QueuesOK
<1>8. completions' \subseteq {<<placed'[k].finish, k>> : k \in DOMAIN placed'}
  <2>1. ASSUME NEW e \in completions PROVE \E k \in DOMAIN placed' : e = <<placed'[k].finish, k>>
    <3>1. PICK k \in DOMAIN placed : e = <<placed[k].finish, k>>
      BY DEF LoopInv
    <3> QED BY <1>3, <3>1
  <2> QED BY <1>1, <1>3, <2>1
<1>9. \A k \in DOMAIN placed' : Sendable(tcs[k])'
  <2>1. \A k \in DOMAIN tcs : Sendable(tcs[k])' = Sendable(tcs[k])
    BY <1>1
  <2>2. DOMAIN placed \subseteq DOMAIN tcs
    BY DEF ShapeOK
  <2> QED BY <1>1, <1>3, <2>1, <2>2 DEF LoopInv
<1>10. FreeAfterTheLast'
  <2> SUFFICES ASSUME NEW r \in DOMAIN freeAt'
               PROVE  \E k \in DOMAIN placed' :
                        r \in Needs(tcs[k])' /\ placed'[k].finish = freeAt'[r]
    BY DEF FreeAfterTheLast
  <2>1. \A k \in DOMAIN tcs : Needs(tcs[k])' = Needs(tcs[k])
    BY <1>1
  <2>2. CASE r \in Needs(tc)
    <3>1. freeAt'[r] = finish
      BY <1>1, <2>2
    <3>2. r \in Needs(tcs[i])' /\ i \in DOMAIN placed'
      BY <1>3, <2>1, <2>2
    <3> QED BY <1>3, <3>1, <3>2
  <2>3. CASE r \notin Needs(tc)
    <3>1. r \in DOMAIN freeAt /\ freeAt'[r] = freeAt[r]
      BY <1>1, <2>3
    <3>2. PICK k \in DOMAIN placed : r \in Needs(tcs[k]) /\ placed[k].finish = freeAt[r]
      BY <3>1 DEF LoopInv, FreeAfterTheLast
    <3>3. r \in Needs(tcs[k])'
      BY <2>1, <3>2 DEF ShapeOK
    <3> QED BY <1>3, <3>1, <3>2, <3>3
  <2> QED BY <2>2, <2>3
<1> QED BY <1>1, <1>7, <1>8, <1>9, <1>10 DEF LoopInv

(* A completion makes one transaction done: each dependent has as many     *)
(* places fewer left as it mentions it, and is ready when none is.         *)
LEMMA CompleteKeepsQueues ==
  ASSUME ExclusiveInv, LoopInv, NEW e \in completions, Complete(e)
  PROVE  LoopInv'
<1> USE DEF ExclusiveInv
<1>1. PICK j \in DOMAIN placed : e = <<placed[j].finish, j>>
  BY DEF LoopInv
<1>2. e[2] = j
  BY <1>1
<1>3. /\ pc = "run" /\ pc' = pc /\ tcs' = tcs /\ placed' = placed /\ freeAt' = freeAt
      /\ dispatched' = dispatched /\ ready = {}
      /\ completions' = completions \ {e}
      /\ remaining' = [i \in DOMAIN tcs |-> remaining[i] - Mentions(i, j)]
      /\ ready' = {i \in DOMAIN tcs : Mentions(i, j) > 0 /\ remaining'[i] = 0}
  BY <1>2 DEF Complete, QueueWithout, ReadyAfter
<1>4. /\ WellFormed
      /\ \A k \in DOMAIN tcs : remaining[k] = Cardinality(Left(k))
      /\ DOMAIN placed = {k \in DOMAIN tcs : Left(k) = {}}
      /\ dispatched = Cardinality(DOMAIN placed)
  BY <1>3 DEF LoopInv, QueuesOK
<1>5. Done' = Done \cup {j} /\ j \notin Done
  <2>1. \A f \in completions : f[2] = j => f = e
    BY <1>1 DEF LoopInv
  <2>2. Awaited' = Awaited \ {j} /\ j \in Awaited
    BY <1>2, <1>3, <2>1 DEF Awaited
  <2> QED BY <1>3, <2>2 DEF Done
<1>6. ASSUME NEW i \in DOMAIN tcs
      PROVE  /\ Left(i)' = Left(i) \ Places(i, j)
             /\ Places(i, j) \subseteq Left(i)
             /\ remaining'[i] = Cardinality(Left(i)')
             /\ Mentions(i, j) > 0 <=> Places(i, j) # {}
             /\ Cardinality(Left(i)') = 0 <=> Left(i)' = {}
             /\ Cardinality(Left(i)') \in Nat
  <2>1. Left(i)' = Left(i) \ Places(i, j)
    BY <1>3, <1>5 DEF Left, Places
  <2>2. Places(i, j) \subseteq Left(i)
    <3>1. j \in DOMAIN tcs /\ Done \subseteq DOMAIN tcs
      BY DEF ShapeOK, Done
    <3>2. \A d \in Done : tcs[d].tc_id # tcs[j].tc_id
      BY <1>4, <1>5, <3>1, IdsAreUnique
    <3> QED BY <3>2 DEF Left, Places
  <2> DEFINE L == Left(i)   P == Places(i, j)
  <2>3. IsFiniteSet(L) /\ IsFiniteSet(P)
    BY LeftIsFinite
  <2>4. Mentions(i, j) = Cardinality(P)
    BY DEF Mentions, Places
  <2>5. L \cap P = P
    BY <2>2
  <2> HIDE DEF L, P
  <2>6. /\ IsFiniteSet(L \ P)
        /\ Cardinality(L \ P) = Cardinality(L) - Cardinality(P)
    BY <2>3, <2>5, FS_Difference
  <2>7. Cardinality(L \ P) \in Nat /\ Cardinality(P) \in Nat
    BY <2>3, <2>6, FS_CardinalityType
  <2>8. /\ Cardinality(P) = 0 <=> P = {}
        /\ Cardinality(L \ P) = 0 <=> L \ P = {}
    BY <2>3, <2>6, FS_EmptySet
  <2>9. remaining'[i] = Cardinality(L) - Cardinality(P)
    BY <1>3, <1>4, <2>4 DEF L
  <2>10. Left(i)' = L \ P
    BY <2>1 DEF L, P
  <2>11. P \subseteq L /\ P = Places(i, j) /\ L = Left(i)
    BY <2>2 DEF L, P
  <2>12. Mentions(i, j) > 0 <=> P # {}
    BY <2>4, <2>7, <2>8
  <2>13. remaining'[i] = Cardinality(L \ P)
    BY <2>6, <2>9
  <2> QED BY <2>7, <2>8, <2>10, <2>11, <2>12, <2>13
<1>7. QueuesOK'
  <2>1. WellFormed'
    BY <1>3, <1>4 DEF WellFormed, TcIds
  <2>2. \A i \in DOMAIN tcs : i \in ready' <=> Places(i, j) # {} /\ Left(i)' = {}
    BY <1>3, <1>6
  <2>3. ready' \cap DOMAIN placed' = {}
    <3> SUFFICES ASSUME NEW i \in ready', i \in DOMAIN placed PROVE FALSE
      BY <1>3
    <3>1. i \in DOMAIN tcs /\ Left(i) = {}
      BY <1>4
    <3> QED BY <1>6, <2>2, <3>1
  <2>4. ready' \cup DOMAIN placed' = {i \in DOMAIN tcs' : Left(i)' = {}}
    <3>1. ASSUME NEW i \in DOMAIN tcs
          PROVE  i \in ready' \cup DOMAIN placed <=> Left(i)' = {}
      <4>1. i \in DOMAIN placed <=> Left(i) = {}
        BY <1>4
      <4> QED BY <1>6, <2>2, <4>1
    <3>2. ready' \cup DOMAIN placed \subseteq DOMAIN tcs
      BY <1>3, <1>4
    <3> QED BY <1>3, <3>1, <3>2
  <2>5. \A i \in DOMAIN tcs' : remaining'[i] = Cardinality(Left(i)')
    BY <1>3, <1>6
  <2>6. remaining' \in [DOMAIN tcs' -> Int]
    BY <1>3, <1>6
  <2> QED BY <1>3, <1>4, <2>1, <2>3, <2>4, <2>5, <2>6 DEF QueuesOK
<1>8. FreeAfterTheLast'
  BY <1>3 DEF LoopInv, FreeAfterTheLast
<1>9. \A k \in DOMAIN placed' : Sendable(tcs[k])'
  BY <1>3 DEF LoopInv
<1> QED BY <1>3, <1>7, <1>8, <1>9 DEF LoopInv

(* The queues stay as described.                                           *)
LEMMA LoopStep == ExclusiveInv /\ LoopInv /\ [Next]_vars => LoopInv'
<1> SUFFICES ASSUME ExclusiveInv, ExclusiveInv', LoopInv, [Next]_vars PROVE LoopInv'
  BY ExclusiveStep
<1> DEFINE Rest == /\ UNCHANGED <<tcs, freeAt, placed, completions, remaining>>
                   /\ pc' \in {"done", "cycle", "rejected"}
<1>1. ASSUME Rest PROVE LoopInv'
  BY <1>1 DEF LoopInv, FreeAfterTheLast
<1>2. RejectList \/ Return \/ Exited => Rest
  BY DEF RejectList, Return, Exited, vars
<1>3. ASSUME NEW i \in DOMAIN tcs, RejectTransaction(i) PROVE Rest
  BY <1>3 DEF RejectTransaction
<1>4. ASSUME UNCHANGED vars PROVE LoopInv'
  <2>1. /\ UNCHANGED <<tcs, pc, remaining, ready, completions, freeAt, dispatched, placed>>
    BY <1>4 DEF vars
  <2>2. WellFormed' = WellFormed /\ Untouched' = Untouched
    BY <2>1 DEF WellFormed, TcIds, Untouched
  <2>3. Done' = Done /\ \A i : Left(i)' = Left(i)
    BY <2>1 DEF Left, Done, Awaited
  <2>4. QueuesOK => QueuesOK'
    BY <2>1, <2>2, <2>3 DEF QueuesOK
  <2>5. \A i \in DOMAIN tcs : Sendable(tcs[i])' = Sendable(tcs[i])
    BY <2>1
  <2>6. DOMAIN placed \subseteq DOMAIN tcs
    BY DEF ExclusiveInv, ShapeOK
  <2> QED BY <2>1, <2>2, <2>4, <2>5, <2>6 DEF LoopInv, FreeAfterTheLast
<1>5. ASSUME NEW i \in DOMAIN tcs, Dispatch(i) PROVE LoopInv'
  BY <1>5, DispatchKeepsQueues
<1>6. ASSUME NEW e \in completions, Complete(e) PROVE LoopInv'
  BY <1>6, CompleteKeepsQueues
<1>7. ASSUME Load PROVE LoopInv'
  BY <1>7, LoadFillsTheQueue
<1> HIDE DEF Rest
<1> QED BY <1>1, <1>2, <1>3, <1>4, <1>5, <1>6, <1>7 DEF Next

(* They are so in every reachable state.                                   *)
LEMMA LoopInvariant == Spec => [](ExclusiveInv /\ LoopInv)
<1>1. Init => LoopInv
  <2> SUFFICES ASSUME Init PROVE LoopInv
    OBVIOUS
  <2>1. DOMAIN placed = {} /\ DOMAIN freeAt = {} /\ completions = {} /\ ready = {}
        /\ dispatched = 0 /\ pc = "load"
    BY DEF Init
  <2> QED BY <2>1 DEF LoopInv, Untouched, FreeAfterTheLast
<1> QED BY <1>1, LoopStep, ExclusiveInvariant, PTL DEF Spec

-----------------------------------------------------------------------------
(* The refinement, step by step.                                           *)

(* The jobs of the schedule, and how far it is. *)
JobList ==
  [i \in DOMAIN tcs |->
     [deps     |-> Dependencies(i),
      needs    |-> IF Sendable(tcs[i]) THEN Needs(tcs[i]) ELSE {},
      duration |-> IF Sendable(tcs[i]) THEN Duration(tcs[i]) ELSE 0]]

Verdict ==
  CASE pc \in {"load", "run"} -> "open"
    [] pc = "done" -> "complete"
    [] OTHER -> pc

(* What the jobs are made of.                                              *)
LEMMA JobListFields ==
  ASSUME ExclusiveInv, NEW i \in DOMAIN tcs
  PROVE  /\ DOMAIN JobList = DOMAIN tcs
         /\ JobList[i].deps = Dependencies(i)
         /\ Sendable(tcs[i]) => /\ JobList[i].needs = Needs(tcs[i])
                                /\ JobList[i].duration = Duration(tcs[i])
         /\ JobList[i].duration \in Nat
<1>1. tcs[i] \in Transactions
  BY DEF ExclusiveInv, ShapeOK
<1>2. Sendable(tcs[i]) => Duration(tcs[i]) \in Nat
  BY <1>1, NeedsAndDuration
<1> QED BY <1>2 DEF JobList

(* A transaction starts as soon as nothing it needs is taken: not only is  *)
(* everything free by then, something was not before.                      *)
LEMMA StartIsEarliest ==
  ASSUME ExclusiveInv, LoopInv, NEW i \in DOMAIN tcs, Sendable(tcs[i])
  PROVE  LET rivals == {k \in DOMAIN placed : Needs(tcs[k]) \cap Needs(tcs[i]) # {}}
         IN  Start(tcs[i]) = Max({0} \cup {placed[k].finish : k \in rivals})
<1> USE DEF ExclusiveInv
<1> DEFINE N == Needs(tcs[i])
           rivals == {k \in DOMAIN placed : Needs(tcs[k]) \cap N # {}}
           F == {FreeAt(r) : r \in N}
           B == {0} \cup {placed[k].finish : k \in rivals}
           f == [r \in N |-> FreeAt(r)]
<1>1. tcs[i] \in Transactions
  BY DEF ShapeOK
<1>2. PICK s \in Nat : s = Start(tcs[i]) /\ \A r \in N : FreeAt(r) <= s
  BY <1>1, StartIsLateEnough
<1>3. s \in F
  <2>1. IsFiniteSet(N) /\ N # {}
    BY <1>1, NeedsAndDuration
  <2>2. F \subseteq Nat /\ F # {}
    BY <2>1, FreeAtType
  <2>3. f \in Surjection(N, F)
    BY DEF Surjection
  <2>4. IsFiniteSet(F)
    <3> HIDE DEF N, F, f
    <3> QED BY <2>1, <2>3, FS_Surjection
  <2>5. s = Max(F)
    BY <1>2 DEF Start
  <2>6. Max(F) \in F
    <3> HIDE DEF F
    <3> QED BY <2>2, <2>4, MaxExists
  <2> QED BY <2>5, <2>6
<1>4. PICK r \in N : s = FreeAt(r)
  BY <1>3
<1>5. s \in B
  <2>1. CASE r \in DOMAIN freeAt
    <3>1. PICK k \in DOMAIN placed : r \in Needs(tcs[k]) /\ placed[k].finish = freeAt[r]
      BY <2>1 DEF LoopInv, FreeAfterTheLast
    <3>2. k \in rivals
      BY <3>1
    <3> QED BY <1>4, <2>1, <3>1, <3>2 DEF FreeAt
  <2>2. CASE r \notin DOMAIN freeAt
    BY <1>4, <2>2 DEF FreeAt
  <2> QED BY <2>1, <2>2
<1>6. \A b \in B : b \in Nat /\ b <= s
  <2>1. ASSUME NEW k \in rivals PROVE placed[k].finish \in Nat /\ placed[k].finish <= s
    <3>1. PICK q \in Needs(tcs[k]) : q \in N
      OBVIOUS
    <3>2. k \in DOMAIN placed
      OBVIOUS
    <3>3. placed[k].finish <= FreeAt(q) /\ FreeAt(q) <= s /\ FreeAt(q) \in Nat
      BY <1>2, <3>1, <3>2, FreeAtType DEF FreeAfterItsUsers
    <3>4. placed[k].finish \in Nat
      BY <3>2 DEF ShapeOK
    <3> QED BY <3>3, <3>4
  <2> QED BY <2>1
<1>7. Max(B) = s
  <2> HIDE DEF B
  <2>1. \A y \in B : s >= y
    BY <1>6
  <2>2. Max(B) \in B /\ \A y \in B : Max(B) >= y
    BY <1>5, <2>1 DEF Max
  <2>3. PICK m \in B : m = Max(B) /\ m >= s
    BY <1>5, <2>2
  <2>4. m \in Nat /\ m <= s
    BY <1>6, <2>3
  <2>5. m = s
    BY <2>3, <2>4
  <2> QED BY <2>3, <2>5
<1> QED BY <1>2, <1>7

(* As many dispatched as there are transactions: everything is placed.     *)
LEMMA AllPlaced ==
  ASSUME ShapeOK
  PROVE  Cardinality(DOMAIN placed) = Len(tcs) <=> DOMAIN placed = DOMAIN tcs
<1> DEFINE D == DOMAIN tcs   P == DOMAIN placed
<1>1. PICK n \in Nat : n = Len(tcs) /\ D = 1 .. n
  BY DEF ShapeOK
<1>2. IsFiniteSet(D) /\ Cardinality(D) = n /\ P \in SUBSET D
  <2>1. \A m \in Nat : IsFiniteSet(1 .. m) /\ Cardinality(1 .. m) = m
    BY FS_Interval
  <2> QED BY <1>1, <2>1 DEF ShapeOK
<1> HIDE DEF D, P
<1>3. Cardinality(D) = Cardinality(P) => D = P
  BY <1>2, FS_Subset
<1>4. Cardinality(P) = n <=> P = D
  BY <1>2, <1>3
<1> QED BY <1>1, <1>4 DEF D, P

(* Both queues are empty: everything is placed whose dependencies are, and *)
(* when all dependencies stand earlier in the list that is everything.     *)
DependenciesStandEarlier ==
  \A i \in DOMAIN tcs : \A j \in Dependencies(i) : j < i

(* Where dependencies point back, what is not dispatched has a first one,  *)
(* and nothing holds it up.                                                *)
LEMMA NoneIsStuck ==
  /\ ExclusiveInv /\ LoopInv /\ DependenciesStandEarlier
  /\ pc = "run" /\ ready = {} /\ completions = {}
  => dispatched = Len(tcs)
<1> SUFFICES ASSUME ExclusiveInv, LoopInv, DependenciesStandEarlier,
                    pc = "run", ready = {}, completions = {}
             PROVE  dispatched = Len(tcs)
  OBVIOUS
<1> USE DEF ExclusiveInv
<1> DEFINE Stuck == DOMAIN tcs \ DOMAIN placed
<1>1. /\ WellFormed /\ DOMAIN placed = {i \in DOMAIN tcs : Left(i) = {}}
      /\ dispatched = Cardinality(DOMAIN placed)
  BY DEF LoopInv, QueuesOK
<1>2. Done = DOMAIN placed
  BY DEF Done, Awaited
<1>3. ASSUME Stuck # {} PROVE FALSE
  <2>1. Stuck \subseteq Nat
    BY DEF ShapeOK
  <2>2. PICK i \in Stuck : \A j \in Stuck : i <= j
    <3> HIDE DEF Stuck
    <3> QED BY <1>3, <2>1, LeastExists
  <2>3. \A j \in Dependencies(i) : j \in DOMAIN placed
    <3> SUFFICES ASSUME NEW j \in Dependencies(i), j \notin DOMAIN placed PROVE FALSE
      OBVIOUS
    <3>1. j \in Stuck /\ j < i
      BY DEF DependenciesStandEarlier, Dependencies
    <3>2. i \in Nat /\ j \in Nat
      BY <2>1, <3>1
    <3> QED BY <2>2, <3>1, <3>2
  <2>4. Left(i) = {}
    BY <1>1, <1>2, <2>3, NothingLeft
  <2> QED BY <1>1, <2>4
<1>4. DOMAIN placed = DOMAIN tcs
  BY <1>3 DEF ShapeOK
<1> QED BY <1>1, <1>4, AllPlaced

(* Every step of the event loop is a step of the schedule, or none.        *)
LEMMA LoopImplementsSchedule ==
  ASSUME ExclusiveInv, LoopInv, [Next]_vars
  PROVE  [Schedule!ScheduleNext]_(Schedule!scheduleVars)
<1> USE DEF ExclusiveInv
<1> DEFINE Stutter == JobList' = JobList /\ placed' = placed /\ Verdict' = Verdict
<1>1. ASSUME Stutter PROVE UNCHANGED Schedule!scheduleVars
  BY <1>1 DEF JobList, Verdict, Schedule!scheduleVars
<1>2. tcs' = tcs => JobList' = JobList
  BY DEF JobList, Dependencies
<1>3. CASE Load \/ Exited \/ UNCHANGED vars \/ \E e \in completions : Complete(e)
  <2>1. tcs' = tcs /\ placed' = placed /\ Verdict' = Verdict
    BY <1>3 DEF Load, Exited, vars, Complete, Verdict
  <2> QED BY <1>1, <1>2, <2>1
<1>4. CASE RejectList \/ \E i \in DOMAIN tcs : RejectTransaction(i)
  <2>1. tcs' = tcs /\ placed' = placed /\ Verdict = "open" /\ Verdict' = "rejected"
    BY <1>4 DEF RejectList, RejectTransaction, Verdict
  <2>2. Schedule!Reject
    BY <1>2, <2>1 DEF JobList, Verdict, Schedule!Reject
  <2> QED BY <2>2 DEF Schedule!ScheduleNext
<1>5. CASE Return
  <2>1. /\ tcs' = tcs /\ placed' = placed /\ pc = "run" /\ ready = {} /\ completions = {}
        /\ pc' = IF dispatched = Len(tcs) THEN "done" ELSE "cycle"
    BY <1>5 DEF Return
  <2>2. Verdict = "open" /\ Verdict' = IF dispatched = Len(tcs) THEN "complete" ELSE "cycle"
    BY <2>1 DEF Verdict
  <2>3. dispatched = Len(tcs) <=> DOMAIN placed = DOMAIN tcs
    <3>1. dispatched = Cardinality(DOMAIN placed)
      BY <2>1 DEF LoopInv, QueuesOK
    <3> QED BY <3>1, AllPlaced
  <2>4. \A i \in DOMAIN tcs \ DOMAIN placed : ~ (Dependencies(i) \subseteq DOMAIN placed)
    <3>1. WellFormed /\ DOMAIN placed = {i \in DOMAIN tcs : Left(i) = {}}
      BY <2>1 DEF LoopInv, QueuesOK
    <3>2. Done = DOMAIN placed
      BY <2>1 DEF Done, Awaited
    <3> QED BY <3>1, <3>2, NothingLeft
  <2>5. Schedule!Conclude
    <3>1. DOMAIN JobList = DOMAIN tcs
      BY DEF JobList
    <3>2. \A j \in DOMAIN JobList : ~ (/\ j \in DOMAIN JobList \ DOMAIN placed
                                       /\ JobList[j].deps \subseteq DOMAIN placed)
      <4> SUFFICES ASSUME NEW j \in DOMAIN tcs, j \notin DOMAIN placed,
                          JobList[j].deps \subseteq DOMAIN placed
                   PROVE  FALSE
        BY <3>1
      <4>1. JobList[j].deps = Dependencies(j)
        BY JobListFields
      <4> QED BY <2>4, <4>1
    <3>3. Verdict' = IF DOMAIN placed = DOMAIN JobList THEN "complete" ELSE "cycle"
      BY <2>2, <2>3, <3>1
    <3> QED BY <1>2, <2>1, <2>2, <3>2, <3>3
            DEF JobList, Verdict, Schedule!Conclude, Schedule!Placeable
  <2> QED BY <2>5 DEF Schedule!ScheduleNext
<1>6. ASSUME NEW i \in DOMAIN tcs, Dispatch(i)
      PROVE  Schedule!ScheduleNext
  <2>1. /\ tcs' = tcs /\ pc' = pc /\ pc = "run" /\ i \in ready /\ Sendable(tcs[i])
        /\ placed' = [k \in DOMAIN placed \cup {i} |->
                        IF k = i THEN [start |-> Start(tcs[i]),
                                       finish |-> Start(tcs[i]) + Duration(tcs[i])]
                        ELSE placed[k]]
    BY <1>6 DEF Dispatch, IsTop
  <2>2. Verdict = "open" /\ Verdict' = Verdict
    BY <2>1 DEF Verdict
  <2>3. i \notin DOMAIN placed /\ Dependencies(i) \subseteq DOMAIN placed
    <3>1. WellFormed /\ i \notin DOMAIN placed /\ Left(i) = {}
      BY <2>1 DEF LoopInv, QueuesOK
    <3> QED BY <3>1, NothingLeft DEF Done
  <2>4. DOMAIN JobList = DOMAIN tcs
    BY DEF JobList
  <2>5. Schedule!Placeable(i)
    <3>1. i \in DOMAIN JobList \ DOMAIN placed /\ JobList[i].deps \subseteq DOMAIN placed
      BY <2>3, <2>4, JobListFields
    <3> QED BY <3>1 DEF JobList, Schedule!Placeable
  <2>6. Schedule!EarliestStart(i) = Start(tcs[i])
    <3> DEFINE rivals == {k \in DOMAIN placed : Needs(tcs[k]) \cap Needs(tcs[i]) # {}}
    <3>1. \A k \in DOMAIN placed : JobList[k].needs = Needs(tcs[k])
      BY JobListFields DEF ShapeOK, LoopInv
    <3>2. JobList[i].needs = Needs(tcs[i])
      BY <2>1, JobListFields
    <3>3. {k \in DOMAIN placed : JobList[k].needs \cap JobList[i].needs # {}} = rivals
      BY <3>1, <3>2
    <3>4. Schedule!Rivals(i) = {k \in DOMAIN placed : JobList[k].needs \cap JobList[i].needs # {}}
      BY DEF JobList, Schedule!Rivals
    <3>5. Schedule!EarliestStart(i) = Max({0} \cup {placed[k].finish : k \in Schedule!Rivals(i)})
      BY DEF Schedule!EarliestStart, Schedule!Max, Max
    <3> QED BY <2>1, <3>3, <3>4, <3>5, StartIsEarliest
  <2>7. JobList[i].duration = Duration(tcs[i])
    BY <2>1, JobListFields
  <2>8. Schedule!Place(i)
    BY <1>2, <2>1, <2>2, <2>5, <2>6, <2>7 DEF JobList, Verdict, Schedule!Place
  <2> QED BY <2>4, <2>8 DEF JobList, Schedule!ScheduleNext
<1> QED BY <1>3, <1>4, <1>5, <1>6 DEF Next

(* The event loop, with its queues, counters and maps, implements a list   *)
(* schedule: every transaction is placed once, after what it depends on,   *)
(* at the earliest time all it needs is free, and a cycle is reported only *)
(* when nothing more can be placed.                                        *)
THEOREM ScheduleCorrect == Spec => ComputesAListSchedule
<1>1. ASSUME Init, ExclusiveInv PROVE Schedule!ScheduleInit
  <2>1. DOMAIN placed = {} /\ Verdict = "open"
    BY <1>1 DEF Init, Verdict
  <2>2. \A j \in DOMAIN JobList : JobList[j].duration \in Nat
    BY <1>1, JobListFields DEF JobList
  <2> QED BY <2>1, <2>2 DEF JobList, Verdict, Schedule!ScheduleInit
<1>2. ASSUME ExclusiveInv, LoopInv, [Next]_vars
      PROVE  [Schedule!ScheduleNext]_(Schedule!scheduleVars)
  BY <1>2, LoopImplementsSchedule
<1> QED BY <1>1, <1>2, LoopInvariant, PTL DEF Spec, ComputesAListSchedule, Schedule!ScheduleSpec

-----------------------------------------------------------------------------
(* The makespan.  What a resource has been held for so far fits before the *)
(* time it is free, no resource is free later than the makespan, and the   *)
(* makespan never gets ahead of the work done.                             *)
Durations == [i \in DOMAIN tcs |-> Duration(tcs[i])]

Users(r) == {i \in DOMAIN placed : r \in Needs(tcs[i])}

WorkInv ==
  /\ totalCycles \in Nat /\ cycles \in [Buckets -> Nat]
  /\ \A i \in DOMAIN placed : Needs(tcs[i]) \subseteq DOMAIN freeAt
  /\ \A r \in DOMAIN freeAt : SumFunctionOnSet(Durations, Users(r)) <= freeAt[r]
  /\ \A r \in DOMAIN freeAt : freeAt[r] <= totalCycles
  /\ totalCycles <= SumFunction(cycles)
  /\ pc = "done" => DOMAIN placed = DOMAIN tcs

(* The property's sum over a set of transactions, as a sum of Durations.   *)
LEMMA WorkOfUsers ==
  ASSUME NEW S, IsFiniteSet(S), S \subseteq DOMAIN tcs
  PROVE  MapThenSumSet(LAMBDA i : Duration(tcs[i]), S) = SumFunctionOnSet(Durations, S)
<1> DEFINE T(h) == h = [s \in SUBSET S |-> IF s = {} THEN 0
                          ELSE Duration(tcs[Chosen(s)]) + h[s \ {Chosen(s)}]]
           c == CHOOSE h : T(h)
<1>1. PICK it : Sums(it, Durations, S)
  BY SumsExist
<1>2. \A h : T(h) <=> Sums(h, Durations, S)
  <2>1. \A s \in SUBSET S : s # {} => Durations[Chosen(s)] = Duration(tcs[Chosen(s)])
    BY ChosenIsIn DEF Durations
  <2>2. \A h : [s \in SUBSET S |-> IF s = {} THEN 0
                  ELSE Duration(tcs[Chosen(s)]) + h[s \ {Chosen(s)}]]
             = [s \in SUBSET S |-> IF s = {} THEN 0
                  ELSE Durations[Chosen(s)] + h[s \ {Chosen(s)}]]
    BY <2>1
  <2> QED BY <2>2 DEF Sums
<1>3. T(it)
  BY <1>1, <1>2
<1>4. T(c)
  BY <1>3
<1>5. Sums(c, Durations, S)
  BY <1>2, <1>4
<1>6. c[S] = SumFunctionOnSet(Durations, S)
  BY <1>5, SumIsTheTotal
<1>7. MapThenSumSet(LAMBDA i : Duration(tcs[i]), S) = c[S]
  BY DEF MapThenSumSet, MapThenFoldSet, Chosen
<1> QED BY <1>6, <1>7

(* Only a part of the list is ever placed.                                 *)
LEMMA PlacedIsFinite ==
  ASSUME ShapeOK
  PROVE  IsFiniteSet(DOMAIN tcs) /\ IsFiniteSet(DOMAIN placed)
<1>1. PICK n \in Nat : DOMAIN tcs = 1 .. n
  BY DEF ShapeOK
<1>2. IsFiniteSet(1 .. n)
  BY FS_Interval
<1> QED BY <1>1, <1>2, FS_Subset DEF ShapeOK

(* There are four cycle counters.                                          *)
LEMMA BucketsAreFinite == IsFiniteSet(Buckets)
<1>1. Buckets = ({"unicast"} \cup {"multicast"}) \cup ({"count"} \cup {"dram"})
  BY DEF Buckets
<1>2. \A x : IsFiniteSet({x})
  BY FS_Singleton
<1>3. IsFiniteSet({"unicast"} \cup {"multicast"}) /\ IsFiniteSet({"count"} \cup {"dram"})
  BY <1>2, FS_Union
<1> QED BY <1>1, <1>3, FS_Union

(* A transaction starts no later than the makespan so far.                 *)
LEMMA StartIsInTime ==
  ASSUME ShapeOK, NEW tc \in Transactions, Sendable(tc), totalCycles \in Nat,
         \A r \in DOMAIN freeAt : freeAt[r] <= totalCycles
  PROVE  Start(tc) \in Nat /\ Start(tc) <= totalCycles
<1> DEFINE N == Needs(tc)
           F == {FreeAt(r) : r \in N}
           f == [r \in N |-> FreeAt(r)]
<1>1. IsFiniteSet(N) /\ N # {}
  BY NeedsAndDuration
<1>2. F \subseteq Nat /\ F # {}
  BY <1>1, FreeAtType
<1>3. f \in Surjection(N, F)
  BY DEF Surjection
<1>4. IsFiniteSet(F)
  <2> HIDE DEF N, F, f
  <2> QED BY <1>1, <1>3, FS_Surjection
<1>5. Start(tc) = Max(F)
  BY DEF Start
<1>6. Max(F) \in F
  <2> HIDE DEF F
  <2> QED BY <1>2, <1>4, MaxExists
<1>7. \A r \in N : FreeAt(r) <= totalCycles
  BY DEF FreeAt
<1> QED BY <1>2, <1>5, <1>6, <1>7

(* A dispatch adds the duration to every resource it takes and to one      *)
(* counter, and ends no later than the makespan and its duration.          *)
LEMMA DispatchKeepsWork ==
  ASSUME ExclusiveInv, LoopInv, WorkInv, NEW i \in DOMAIN tcs, Dispatch(i)
  PROVE  WorkInv'
<1> DEFINE tc == tcs[i]
           start == Start(tc)
           dur == Duration(tc)
           finish == start + dur
           N == Needs(tc)
           b == Bucket(tc)
<1> USE DEF ExclusiveInv
<1>1. /\ tcs' = tcs /\ pc' = "run"
      /\ i \in ready /\ Sendable(tc) /\ tc \in Transactions
      /\ freeAt' = [r \in DOMAIN freeAt \cup N |-> IF r \in N THEN finish ELSE freeAt[r]]
      /\ cycles' = [cycles EXCEPT ![b] = cycles[b] + dur]
      /\ totalCycles' = Max({totalCycles, finish})
      /\ DOMAIN placed' = DOMAIN placed \cup {i}
  BY DEF Dispatch, IsTop, LatestFinish, ShapeOK
<1>2. i \notin DOMAIN placed
  BY DEF Dispatch, IsTop, LoopInv, QueuesOK
<1>3. dur \in Nat
  BY <1>1, NeedsAndDuration
<1>4. totalCycles \in Nat /\ start \in Nat /\ start <= totalCycles
  BY <1>1, StartIsInTime DEF WorkInv
<1>5. b \in Buckets
  BY <1>1 DEF Bucket, Buckets, Transactions, Ops
<1> HIDE DEF start, dur, N, b
<1>6. /\ totalCycles' \in Nat /\ totalCycles <= totalCycles'
      /\ finish <= totalCycles' /\ totalCycles' <= totalCycles + dur
  <2> DEFINE M == {totalCycles, finish}
  <2>1. IsFiniteSet(M) /\ M \subseteq Nat /\ M # {}
    <3>1. M = {totalCycles} \cup {finish}
      OBVIOUS
    <3>2. IsFiniteSet({totalCycles}) /\ IsFiniteSet({finish})
      BY FS_Singleton
    <3>3. IsFiniteSet(M)
      <4> HIDE DEF M
      <4> QED BY <3>1, <3>2, FS_Union
    <3> QED BY <1>3, <1>4, <3>3
  <2>2. Max(M) \in M /\ \A t \in M : Max(M) >= t
    <3> HIDE DEF M
    <3> QED BY <2>1, MaxExists
  <2>3. Max(M) \in {totalCycles, finish} /\ Max(M) >= totalCycles /\ Max(M) >= finish
    BY <2>2
  <2> QED BY <1>1, <1>3, <1>4, <2>3
<1>7. \A k \in DOMAIN tcs : Needs(tcs[k])' = Needs(tcs[k])
  BY <1>1
<1>8. \A k \in DOMAIN placed' : Needs(tcs[k])' \subseteq DOMAIN freeAt'
  BY <1>1, <1>7 DEF WorkInv, ShapeOK, N
<1>9. \A r \in DOMAIN freeAt' : freeAt'[r] <= totalCycles'
  <2> SUFFICES ASSUME NEW r \in DOMAIN freeAt' PROVE freeAt'[r] <= totalCycles'
    OBVIOUS
  <2>1. CASE r \in N
    BY <1>1, <1>6, <2>1
  <2>2. CASE r \notin N
    <3>1. r \in DOMAIN freeAt /\ freeAt'[r] = freeAt[r]
      BY <1>1, <2>2
    <3>2. freeAt[r] \in Nat /\ freeAt[r] <= totalCycles
      BY <3>1 DEF WorkInv, ShapeOK
    <3> QED BY <1>4, <1>6, <3>1, <3>2
  <2> QED BY <2>1, <2>2
<1>10. \A r \in DOMAIN freeAt' : SumFunctionOnSet(Durations', Users(r)') <= freeAt'[r]
  <2> SUFFICES ASSUME NEW r \in DOMAIN freeAt'
               PROVE  SumFunctionOnSet(Durations', Users(r)') <= freeAt'[r]
    OBVIOUS
  <2> DEFINE U == Users(r)
  <2>1. Durations' = Durations
    BY <1>1 DEF Durations
  <2>2. IsFiniteSet(U) /\ i \notin U /\ U \subseteq DOMAIN placed
        /\ \A k \in U : Durations[k] \in Nat
    <3>1. IsFiniteSet(DOMAIN placed)
      BY PlacedIsFinite
    <3>2. U \in SUBSET DOMAIN placed
      BY DEF Users
    <3>3. \A k \in DOMAIN placed : Durations[k] \in Nat
      BY NeedsAndDuration DEF LoopInv, ShapeOK, Durations
    <3> QED BY <1>2, <3>1, <3>2, <3>3, FS_Subset
  <2>3. Users(r)' = IF r \in N THEN U \cup {i} ELSE U
    <3>1. Users(r)' = {k \in DOMAIN placed \cup {i} : r \in Needs(tcs[k])}
      BY <1>1, <1>7 DEF Users, ShapeOK
    <3> QED BY <3>1 DEF Users, N
  <2>4. Durations[i] = dur
    BY DEF Durations, dur
  <2>5. CASE r \in N
    <3>1. SumFunctionOnSet(Durations, U \cup {i}) = dur + SumFunctionOnSet(Durations, U)
      <4>1. \A k \in U \cup {i} : Durations[k] \in Int
        BY <1>3, <2>2, <2>4
      <4> HIDE DEF U
      <4> QED BY <2>2, <2>4, <4>1, SumAdd
    <3>2. SumFunctionOnSet(Durations, U) \in Nat
      <4> HIDE DEF U
      <4> QED BY <2>2, SumType
    <3>3. SumFunctionOnSet(Durations, U) <= start
      <4>1. CASE r \in DOMAIN freeAt
        <5>1. freeAt[r] \in Nat /\ freeAt[r] <= start
          BY <1>1, <2>5, <4>1, StartIsLateEnough DEF N, start, FreeAt, ShapeOK
        <5>2. SumFunctionOnSet(Durations, U) <= freeAt[r]
          BY <4>1 DEF WorkInv
        <5> HIDE DEF U
        <5> QED BY <1>4, <3>2, <5>1, <5>2
      <4>2. CASE r \notin DOMAIN freeAt
        <5>1. U = {}
          BY <4>2 DEF WorkInv, Users
        <5>2. SumFunctionOnSet(Durations, {}) = 0
          BY SumStep, FS_EmptySet
        <5> HIDE DEF U
        <5> QED BY <1>4, <5>1, <5>2
      <4> QED BY <4>1, <4>2
    <3>4. freeAt'[r] = finish
      BY <1>1, <2>5
    <3> HIDE DEF U
    <3> QED BY <1>3, <1>4, <2>1, <2>3, <2>5, <3>1, <3>2, <3>3, <3>4
  <2>6. CASE r \notin N
    <3>1. r \in DOMAIN freeAt /\ freeAt'[r] = freeAt[r]
      BY <1>1, <2>6
    <3>2. SumFunctionOnSet(Durations, U) <= freeAt[r]
      BY <3>1 DEF WorkInv
    <3> HIDE DEF U
    <3> QED BY <2>1, <2>3, <2>6, <3>1, <3>2
  <2> QED BY <2>5, <2>6
<1>11. cycles' \in [Buckets -> Nat] /\ totalCycles' <= SumFunction(cycles')
  <2>1. cycles \in [Buckets -> Nat] /\ totalCycles <= SumFunction(cycles)
    BY DEF WorkInv
  <2>2. IsFiniteSet(Buckets)
    BY BucketsAreFinite
  <2>3. SumFunctionOnSet([cycles EXCEPT ![b] = cycles[b] + dur], Buckets)
          = SumFunctionOnSet(cycles, Buckets) + dur
    <3>1. cycles \in [Buckets -> Int] /\ dur \in Int
      BY <1>3, <2>1
    <3> QED BY <1>5, <2>2, <3>1, SumUpdate
  <2>4. SumFunctionOnSet(cycles, Buckets) \in Nat
    BY <2>1, <2>2, SumType
  <2>5. DOMAIN cycles = Buckets /\ DOMAIN cycles' = Buckets /\ cycles' \in [Buckets -> Nat]
    BY <1>1, <1>3, <1>5, <2>1
  <2>6. SumFunction(cycles) = SumFunctionOnSet(cycles, Buckets)
        /\ SumFunction(cycles') = SumFunctionOnSet(cycles', Buckets)
    BY <2>5 DEF SumFunction
  <2> QED BY <1>1, <1>3, <1>4, <1>6, <2>1, <2>3, <2>4, <2>5, <2>6
<1> QED BY <1>1, <1>6, <1>8, <1>9, <1>10, <1>11 DEF WorkInv

(* Only a dispatch touches the work; the run ends well when everything is  *)
(* placed.                                                                 *)
LEMMA WorkInvariant == Spec => [](ExclusiveInv /\ LoopInv /\ WorkInv)
<1>1. Init => WorkInv
  <2> SUFFICES ASSUME Init PROVE WorkInv
    OBVIOUS
  <2>1. /\ DOMAIN placed = {} /\ DOMAIN freeAt = {} /\ totalCycles = 0 /\ pc = "load"
        /\ cycles = [b \in Buckets |-> 0]
    BY DEF Init
  <2>2. SumFunction(cycles) \in Nat
    <3>1. \A b \in Buckets : cycles[b] \in Nat
      BY <2>1
    <3>2. IsFiniteSet(Buckets)
      BY BucketsAreFinite
    <3>3. SumFunctionOnSet(cycles, Buckets) \in Nat
      BY <3>1, <3>2, SumType
    <3> QED BY <2>1, <3>3 DEF SumFunction
  <2> QED BY <2>1, <2>2 DEF WorkInv
<1>2. ExclusiveInv /\ LoopInv /\ WorkInv /\ [Next]_vars => WorkInv'
  <2> SUFFICES ASSUME ExclusiveInv, LoopInv, WorkInv, [Next]_vars PROVE WorkInv'
    OBVIOUS
  <2> DEFINE Rest == /\ UNCHANGED <<tcs, freeAt, placed, totalCycles, cycles>>
                     /\ pc' = "done" => DOMAIN placed = DOMAIN tcs
  <2>1. ASSUME Rest PROVE WorkInv'
    <3>1. Durations' = Durations /\ \A r : Users(r)' = Users(r)
      BY <2>1 DEF Durations, Users
    <3>2. \A k : Needs(tcs[k])' = Needs(tcs[k])
      BY <2>1
    <3> QED BY <2>1, <3>1, <3>2 DEF WorkInv
  <2>2. ASSUME NEW i \in DOMAIN tcs, Dispatch(i) PROVE WorkInv'
    BY <2>2, DispatchKeepsWork
  <2>3. Load \/ RejectList \/ UNCHANGED vars => Rest
    BY DEF Load, RejectList, vars, WorkInv
  <2>4. ASSUME NEW i \in DOMAIN tcs, RejectTransaction(i) PROVE Rest
    BY <2>4 DEF RejectTransaction
  <2>5. ASSUME NEW e \in completions, Complete(e) PROVE Rest
    BY <2>5 DEF Complete
  <2>6. Exited => Rest
    BY DEF Exited, vars, WorkInv
  <2>7. ASSUME Return PROVE Rest
    <3>1. /\ UNCHANGED <<tcs, freeAt, placed, totalCycles, cycles>>
          /\ pc = "run" /\ pc' = IF dispatched = Len(tcs) THEN "done" ELSE "cycle"
      BY <2>7 DEF Return
    <3>2. dispatched = Cardinality(DOMAIN placed)
      BY <3>1 DEF LoopInv, QueuesOK
    <3>3. dispatched = Len(tcs) => DOMAIN placed = DOMAIN tcs
      BY <3>2, AllPlaced DEF ExclusiveInv
    <3> QED BY <3>1, <3>3
  <2> HIDE DEF Rest
  <2> QED BY <2>1, <2>2, <2>3, <2>4, <2>5, <2>6, <2>7 DEF Next
<1> QED BY <1>1, <1>2, LoopInvariant, PTL DEF Spec

(* The makespan is at least the work queued on any single actor or link,   *)
(* and at most all the work added up, for every transaction list.          *)
THEOREM MakespanCorrect == Spec => []MakespanIsBetweenMaxAndAdded
<1>1. ASSUME ExclusiveInv, LoopInv, WorkInv PROVE MakespanIsBetweenMaxAndAdded
  <2> SUFFICES ASSUME pc = "done", NEW r \in DOMAIN freeAt
               PROVE  MapThenSumSet(LAMBDA i : Duration(tcs[i]),
                                    {i \in DOMAIN tcs : r \in Needs(tcs[i])}) <= totalCycles
    BY <1>1 DEF WorkInv, MakespanIsBetweenMaxAndAdded
  <2> DEFINE U == Users(r)
  <2>1. U = {i \in DOMAIN tcs : r \in Needs(tcs[i])}
    BY <1>1 DEF WorkInv, Users
  <2>2. IsFiniteSet(U) /\ U \subseteq DOMAIN tcs /\ U \subseteq DOMAIN placed
    <3>1. IsFiniteSet(DOMAIN tcs) /\ U \in SUBSET DOMAIN tcs /\ U \subseteq DOMAIN placed
      BY <1>1, <2>1, PlacedIsFinite DEF ExclusiveInv, Users
    <3> QED BY <3>1, FS_Subset
  <2>3. SumFunctionOnSet(Durations, U) \in Nat
    <3>1. \A k \in U : Durations[k] \in Nat
      BY <1>1, <2>2, NeedsAndDuration DEF ExclusiveInv, LoopInv, ShapeOK, Durations
    <3> HIDE DEF U
    <3> QED BY <2>2, <3>1, SumType
  <2>4. /\ SumFunctionOnSet(Durations, U) <= freeAt[r] /\ freeAt[r] <= totalCycles
        /\ freeAt[r] \in Nat /\ totalCycles \in Nat
    BY <1>1 DEF WorkInv, ExclusiveInv, ShapeOK
  <2> HIDE DEF U
  <2>5. MapThenSumSet(LAMBDA i : Duration(tcs[i]), U) = SumFunctionOnSet(Durations, U)
    BY <2>2, WorkOfUsers
  <2> QED BY <2>1, <2>3, <2>4, <2>5
<1> QED BY <1>1, WorkInvariant, PTL
-----------------------------------------------------------------------------
(* What is counted.  Each counter is the time of what was dispatched of    *)
(* its kind.                                                               *)
InBucket(b) == {i \in DOMAIN placed : Bucket(tcs[i]) = b}

BucketInv ==
  /\ cycles \in [Buckets -> Nat]
  /\ \A b \in Buckets : cycles[b] = SumFunctionOnSet(Durations, InBucket(b))
  /\ pc = "done" => DOMAIN placed = DOMAIN tcs

(* A dispatch is counted once, where it belongs.                           *)
LEMMA DispatchKeepsBuckets ==
  ASSUME ExclusiveInv, LoopInv, BucketInv, NEW i \in DOMAIN tcs, Dispatch(i)
  PROVE  BucketInv'
<1> DEFINE tc == tcs[i]
           dur == Duration(tc)
           b == Bucket(tc)
<1> USE DEF ExclusiveInv
<1>1. /\ tcs' = tcs /\ pc' = "run"
      /\ i \in ready /\ Sendable(tc) /\ tc \in Transactions
      /\ cycles' = [cycles EXCEPT ![b] = cycles[b] + dur]
      /\ DOMAIN placed' = DOMAIN placed \cup {i}
  BY DEF Dispatch, IsTop, ShapeOK
<1>2. i \notin DOMAIN placed
  BY DEF Dispatch, IsTop, LoopInv, QueuesOK
<1>3. dur \in Nat
  BY <1>1, NeedsAndDuration
<1>4. b \in Buckets
  BY <1>1 DEF Bucket, Buckets, Transactions, Ops
<1>5. Durations' = Durations /\ Durations[i] = dur
  BY <1>1 DEF Durations
<1>6. ASSUME NEW c \in Buckets
      PROVE  cycles'[c] = SumFunctionOnSet(Durations', InBucket(c)')
  <2> DEFINE U == InBucket(c)
  <2>1. /\ IsFiniteSet(U) /\ i \notin U
        /\ \A k \in U : Durations[k] \in Nat
    <3>1. IsFiniteSet(DOMAIN placed) /\ U \in SUBSET DOMAIN placed
      BY PlacedIsFinite DEF InBucket
    <3>2. \A k \in DOMAIN placed : Durations[k] \in Nat
      BY NeedsAndDuration DEF LoopInv, ShapeOK, Durations
    <3> QED BY <1>2, <3>1, <3>2, FS_Subset
  <2>2. InBucket(c)' = IF c = b THEN U \cup {i} ELSE U
    BY <1>1 DEF InBucket
  <2>3. cycles[c] = SumFunctionOnSet(Durations, U) /\ cycles[c] \in Nat
    BY DEF BucketInv
  <2> HIDE DEF U, dur, b
  <2>4. CASE c = b
    <3>1. \A k \in U \cup {i} : Durations[k] \in Int
      BY <1>3, <1>5, <2>1
    <3>2. SumFunctionOnSet(Durations, U \cup {i}) = Durations[i] + SumFunctionOnSet(Durations, U)
      BY <2>1, <3>1, SumAdd
    <3>3. cycles'[c] = cycles[c] + dur
      BY <1>1, <1>4, <2>4 DEF BucketInv
    <3> QED BY <1>3, <1>5, <2>2, <2>3, <2>4, <3>2, <3>3
  <2>5. CASE c # b
    <3>1. cycles'[c] = cycles[c]
      BY <1>1, <2>5 DEF BucketInv
    <3> QED BY <1>5, <2>2, <2>3, <2>5, <3>1
  <2> QED BY <2>4, <2>5
<1>7. cycles' \in [Buckets -> Nat]
  <2> HIDE DEF dur, b
  <2> QED BY <1>1, <1>3, <1>4 DEF BucketInv
<1> QED BY <1>1, <1>6, <1>7 DEF BucketInv

(* Only a dispatch is counted.                                             *)
LEMMA BucketStep == ExclusiveInv /\ LoopInv /\ BucketInv /\ [Next]_vars => BucketInv'
<1> SUFFICES ASSUME ExclusiveInv, LoopInv, BucketInv, [Next]_vars PROVE BucketInv'
  OBVIOUS
<1> DEFINE Rest == /\ UNCHANGED <<tcs, placed, cycles>>
                   /\ pc' = "done" => DOMAIN placed = DOMAIN tcs
<1>1. ASSUME Rest PROVE BucketInv'
  <2>1. Durations' = Durations /\ \A b : InBucket(b)' = InBucket(b)
    BY <1>1 DEF Durations, InBucket
  <2> QED BY <1>1, <2>1 DEF BucketInv
<1>2. ASSUME NEW i \in DOMAIN tcs, Dispatch(i) PROVE BucketInv'
  BY <1>2, DispatchKeepsBuckets
<1>3. Load \/ RejectList \/ Exited \/ UNCHANGED vars => Rest
  BY DEF Load, RejectList, Exited, vars, BucketInv
<1>4. ASSUME NEW i \in DOMAIN tcs, RejectTransaction(i) PROVE Rest
  BY <1>4 DEF RejectTransaction
<1>5. ASSUME NEW e \in completions, Complete(e) PROVE Rest
  BY <1>5 DEF Complete
<1>6. ASSUME Return PROVE Rest
  <2>1. /\ UNCHANGED <<tcs, placed, cycles>>
        /\ pc = "run" /\ pc' = IF dispatched = Len(tcs) THEN "done" ELSE "cycle"
    BY <1>6 DEF Return
  <2>2. dispatched = Cardinality(DOMAIN placed)
    BY <2>1 DEF LoopInv, QueuesOK
  <2>3. dispatched = Len(tcs) => DOMAIN placed = DOMAIN tcs
    BY <2>2, AllPlaced DEF ExclusiveInv
  <2> QED BY <2>1, <2>3
<1> HIDE DEF Rest
<1> QED BY <1>1, <1>2, <1>3, <1>4, <1>5, <1>6 DEF Next
=============================================================================
