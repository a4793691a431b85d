-------------------------- MODULE SolveSweepProofs --------------------------
(***************************************************************************)
(* Proofs about the resumable solver sweep, for every list of combos, any  *)
(* of them infeasible, every number of workers and every bound.            *)
(***************************************************************************)
EXTENDS SolveSweepProps, SequenceTheorems, NestLemmas

-----------------------------------------------------------------------------
(* The states of the processes.                                            *)

Lines == RowSet \cup {Header}

Reading == [pc : {"read"}, force : BOOLEAN, queue : {{}}, buffer : {<<>>},
            results : {<<>>}, lost : {FALSE}]

Opening == [pc : {"open"}, force : BOOLEAN, queue : SUBSET Combos, buffer : {<<>>},
            results : {<<>>}, lost : {FALSE}]

Working == [pc : {"work"}, force : BOOLEAN, queue : SUBSET Combos,
            buffer : {<<>>, <<Header>>}, results : Seq(RowSet), lost : BOOLEAN]

Sweeps == {Off} \cup Reading \cup Opening \cup Working

Busy == [pc : {"solve", "write"}, combo : Combos]

TypeOK ==
  /\ json \in [Combos -> {"missing", "partial", "whole"}]
  /\ exists \in BOOLEAN
  /\ summary \in Seq(Lines)
  /\ sweep \in Sweeps
  /\ worker \in [Workers -> {Idle} \cup Busy]
  /\ torn \subseteq Combos

(* The workers live as long as the pool. *)
WorkersServe == sweep.pc # "work" => AllIdle

(* The combos handed out, and those with a result on its way.              *)
Held == {worker[w].combo : w \in {v \in Workers : worker[v].pc # "idle"}}

Sent == CombosOf(sweep.results)

(* A combo is in the queue, with one worker, or in one result.             *)
EachOnce ==
  /\ sweep.queue \cap Held = {} /\ sweep.queue \cap Sent = {} /\ Held \cap Sent = {}
  /\ \A v, w \in Workers :
       /\ worker[v].pc # "idle" /\ worker[w].pc # "idle"
       /\ worker[v].combo = worker[w].combo
       => v = w
  /\ \A i, j \in DOMAIN sweep.results :
       sweep.results[i].combo = sweep.results[j].combo => i = j

(* The header is the first line or lost; while it waits in the buffer the  *)
(* file is empty, and a forced run has it in one of the two places.        *)
HeaderOK ==
  /\ ~exists => summary = <<>> /\ sweep.pc # "work"
  /\ \A i \in DOMAIN summary : summary[i] = Header => i = 1
  /\ sweep.buffer # <<>> => summary = <<>>
  /\ sweep.pc = "work" /\ sweep.force => Headed \/ sweep.buffer # <<>>

(* What is still to be recorded has no row yet, unless the header is lost  *)
(* or the rows are about to be thrown away.                                *)
NoRowYet ==
  /\ sweep.pc = "open" /\ ~sweep.force /\ Headed => sweep.queue \cap Recorded = {}
  /\ sweep.pc = "work" /\ Headed => (sweep.queue \cup Held \cup Sent) \cap Recorded = {}

OneRow ==
  Headed => \A i, j \in DOMAIN summary : summary[i].combo = summary[j].combo => i = j

(* A file cut short is somebody's, or was.                                 *)
FilesOK ==
  /\ \A w \in Workers :
       worker[w].pc = "write" =>
         json[worker[w].combo] = "partial" /\ worker[w].combo \notin torn
  /\ \A c \in torn : json[c] = "partial"
  /\ \A c \in Combos :
       json[c] = "partial" =>
         c \in torn \/ \E w \in Workers : worker[w].pc = "write" /\ worker[w].combo = c

Solved(c) == json[c] = "whole" \/ c \in torn

ResultsOK == \A i \in DOMAIN sweep.results :
               sweep.results[i].status = "OK" => Solved(sweep.results[i].combo)

SweepInv ==
  /\ TypeOK /\ WorkersServe /\ EachOnce /\ HeaderOK /\ NoRowYet /\ OneRow /\ FilesOK
  /\ ResultsOK /\ OkIsSolved

-----------------------------------------------------------------------------
(* Lines, rows and lists of them.                                          *)

(* The grid is finite. *)
LEMMA CombosAreFinite ==
  /\ IsFiniteSet(Combos)
  /\ \A S \in SUBSET Combos : IsFiniteSet(S) /\ Cardinality(S) \in Nat
<1>1. ComboList \in Seq(Combos)
  BY SweepAssumption
<1>2. PICK n \in Nat : n = Len(ComboList)
  BY <1>1
<1>3. IsFiniteSet(1 .. n)
  BY FS_Interval
<1>4. ComboList \in Surjection(1 .. n, Combos)
  <2>1. DOMAIN ComboList = 1 .. n /\ ComboList \in [1 .. n -> Combos]
    BY <1>1, <1>2, LenProperties
  <2>2. \A c \in Combos : \E i \in 1 .. n : ComboList[i] = c
    BY <2>1 DEF Combos, ToSet
  <2> QED BY <2>1, <2>2 DEF Surjection
<1>5. IsFiniteSet(Combos)
  BY <1>3, <1>4, FS_Surjection
<1> QED BY <1>5, FS_Subset, FS_CardinalityType

(* The header is no row. *)
LEMMA HeaderIsNoRow ==
  /\ Header \notin RowSet
  /\ Header.combo \notin Combos /\ Header.status = "status"
  /\ \A row \in RowSet : row.combo \in Combos /\ row.status \in Statuses /\ row.combo # Header.combo
BY SweepAssumption DEF Header, RowSet

(* The first combo of a set in the order of the list is one of it. *)
LEMMA FirstOfType ==
  ASSUME NEW S \in SUBSET Combos, S # {}
  PROVE  FirstOf(S) \in S
<1> DEFINE D == {i \in DOMAIN ComboList : ComboList[i] \in S}
<1>1. DOMAIN ComboList = 1 .. Len(ComboList) /\ Len(ComboList) \in Nat
  BY SweepAssumption
<1>2. D \subseteq Nat /\ D # {}
  BY <1>1 DEF Combos, ToSet
<1> HIDE DEF D
<1>3. PICK i \in D : \A j \in D : i <= j
  BY <1>2, LeastExists
<1>4. i \in DOMAIN ComboList /\ ComboList[i] \in S
  BY <1>3 DEF D
<1>5. \A j \in 1 .. i - 1 : ComboList[j] \notin S
  <2> SUFFICES ASSUME NEW j \in 1 .. i - 1, ComboList[j] \in S PROVE FALSE
    OBVIOUS
  <2>1. j \in D /\ j < i
    BY <1>1, <1>4 DEF D
  <2> QED BY <1>1, <1>3, <1>4, <2>1
<1> QED BY <1>4, <1>5 DEF FirstOf

(* Lists of one and two elements. *)
LEMMA ShortLists ==
  ASSUME NEW S, NEW a \in S, NEW b \in S
  PROVE  /\ <<a>> \in Seq(S) /\ <<a, b>> \in Seq(S) /\ <<a>> # <<>>
         /\ Append(<<a>>, b) = <<a, b>>
<1> DEFINE s == <<a>>
           t == Append(s, b)
           u == <<a, b>>
<1>1. s \in Seq(S) /\ Len(s) = 1 /\ s[1] = a /\ s # <<>>
  OBVIOUS
<1>2. u \in Seq(S) /\ Len(u) = 2 /\ u[1] = a /\ u[2] = b
  OBVIOUS
<1> HIDE DEF s, u
<1>3. t \in Seq(S) /\ Len(t) = 2 /\ t[1] = a /\ t[2] = b
  <2>1. /\ Append(s, b) \in Seq(S) /\ Len(Append(s, b)) = Len(s) + 1
        /\ \A i \in 1.. Len(s) : Append(s, b)[i] = s[i]
        /\ Append(s, b)[Len(s) + 1] = b
    BY <1>1, AppendProperties
  <2>2. 1 \in 1 .. 1 /\ 1 + 1 = 2
    OBVIOUS
  <2> QED BY <1>1, <2>1, <2>2
<1> HIDE DEF t
<1>4. t = u
  <2>1. \A i \in 1 .. 2 : i = 1 \/ i = 2
    OBVIOUS
  <2> QED BY <1>2, <1>3, <2>1, SeqEqual
<1> QED BY <1>1, <1>2, <1>4 DEF s, t, u

(* The combos of a list that is extended by rows. *)
LEMMA CombosOfMore ==
  ASSUME NEW s \in Seq(Lines), NEW t \in Seq(Lines)
  PROVE  CombosOf(s \o t) = CombosOf(s) \cup CombosOf(t)
<1>1. /\ s \o t \in Seq(Lines) /\ Len(s \o t) = Len(s) + Len(t)
      /\ \A i \in 1 .. Len(s) + Len(t) :
           (s \o t)[i] = IF i <= Len(s) THEN s[i] ELSE t[i - Len(s)]
      /\ Len(s) \in Nat /\ Len(t) \in Nat
      /\ DOMAIN (s \o t) = 1 .. Len(s) + Len(t)
      /\ DOMAIN s = 1 .. Len(s) /\ DOMAIN t = 1 .. Len(t)
  BY ConcatProperties, LenProperties
<1> DEFINE u == s \o t
<1> HIDE DEF u
<1>2. PICK m \in Nat, n \in Nat : m = Len(s) /\ n = Len(t)
  BY <1>1
<1>3. /\ DOMAIN u = 1 .. m + n /\ DOMAIN s = 1 .. m /\ DOMAIN t = 1 .. n
      /\ \A i \in 1 .. m : u[i] = s[i]
      /\ \A i \in m + 1 .. m + n : u[i] = t[i - m]
  BY <1>1, <1>2 DEF u
<1>4. \A i \in 1 .. n : m + i \in m + 1 .. m + n /\ (m + i) - m = i
  OBVIOUS
<1>5. \A i \in 1 .. n : u[m + i] = t[i]
  BY <1>3, <1>4
<1>6. CombosOf(s) \cup CombosOf(t) \subseteq CombosOf(u)
  <2>1. \A i \in 1 .. m : i \in 1 .. m + n
    OBVIOUS
  <2>2. \A i \in 1 .. n : m + i \in 1 .. m + n
    OBVIOUS
  <2> QED BY <1>3, <1>5, <2>1, <2>2 DEF CombosOf
<1>7. CombosOf(u) \subseteq CombosOf(s) \cup CombosOf(t)
  <2> SUFFICES ASSUME NEW i \in 1 .. m + n, u[i].combo \in Combos
               PROVE  u[i].combo \in CombosOf(s) \cup CombosOf(t)
    BY <1>3 DEF CombosOf
  <2>1. CASE i \in 1 .. m
    BY <1>3, <2>1 DEF CombosOf
  <2>2. CASE i \in m + 1 .. m + n
    <3>1. i - m \in 1 .. n
      BY <2>2
    <3> QED BY <1>3, <2>2, <3>1 DEF CombosOf
  <2> QED BY <2>1, <2>2
<1> QED BY <1>6, <1>7 DEF u

(* The combos of a list without its first row. *)
LEMMA CombosOfTail ==
  ASSUME NEW S, NEW s \in Seq(S), s # <<>>, Head(s).combo \in Combos,
         \A i, j \in DOMAIN s : s[i].combo = s[j].combo => i = j
  PROVE  /\ Head(s).combo \in CombosOf(s) /\ CombosOf(Tail(s)) = CombosOf(s) \ {Head(s).combo}
         /\ \A i, j \in DOMAIN Tail(s) : Tail(s)[i].combo = Tail(s)[j].combo => i = j
<1>1. PICK n \in Nat : n = Len(Tail(s))
  BY HeadTailProperties, LenProperties
<1>2. /\ DOMAIN s = 1 .. n + 1 /\ DOMAIN Tail(s) = 1 .. n /\ Head(s) = s[1]
      /\ \A i \in 1 .. n : Tail(s)[i] = s[i + 1]
  <2>1. /\ Tail(s) \in Seq(S) /\ Len(Tail(s)) = Len(s) - 1 /\ Len(s) \in Nat
        /\ \A i \in 1 .. Len(Tail(s)) : Tail(s)[i] = s[i+1]
        /\ DOMAIN s = 1 .. Len(s) /\ DOMAIN Tail(s) = 1 .. Len(Tail(s))
    BY HeadTailProperties, LenProperties
  <2>2. Len(s) = n + 1
    BY <1>1, <2>1
  <2> QED BY <1>1, <2>1, <2>2
<1> DEFINE t == Tail(s)
<1> HIDE DEF t
<1>3. /\ DOMAIN t = 1 .. n /\ \A i \in 1 .. n : t[i] = s[i + 1] /\ i + 1 \in 1 .. n + 1
      /\ \A i \in 2 .. n + 1 : i - 1 \in 1 .. n /\ s[i] = t[i - 1]
      /\ 1 \in 1 .. n + 1
  BY <1>2 DEF t
<1>4. CombosOf(t) \subseteq CombosOf(s) \ {s[1].combo}
  <2> SUFFICES ASSUME NEW c \in CombosOf(t) PROVE c \in CombosOf(s) /\ c # s[1].combo
    OBVIOUS
  <2>1. PICK i \in 1 .. n : c = t[i].combo /\ c \in Combos
    BY <1>3 DEF CombosOf
  <2>2. PICK k \in 2 .. n + 1 : k = i + 1
    OBVIOUS
  <2>3. k \in DOMAIN s /\ 1 \in DOMAIN s /\ k # 1 /\ c = s[k].combo
    BY <1>2, <1>3, <2>1, <2>2
  <2> QED BY <2>1, <2>3 DEF CombosOf
<1>5. CombosOf(s) \ {s[1].combo} \subseteq CombosOf(t)
  <2> SUFFICES ASSUME NEW i \in 1 .. n + 1, s[i].combo \in Combos, s[i].combo # s[1].combo
               PROVE  s[i].combo \in CombosOf(t)
    BY <1>2 DEF CombosOf
  <2>1. i \in 2 .. n + 1
    OBVIOUS
  <2> QED BY <1>3, <2>1 DEF CombosOf
<1>6. \A i, j \in 1 .. n : t[i].combo = t[j].combo => i = j
  <2> SUFFICES ASSUME NEW i \in 1 .. n, NEW j \in 1 .. n, t[i].combo = t[j].combo PROVE i = j
    OBVIOUS
  <2>1. i + 1 \in DOMAIN s /\ j + 1 \in DOMAIN s /\ s[i + 1].combo = s[j + 1].combo
    BY <1>2, <1>3
  <2>2. i + 1 = j + 1
    BY <2>1
  <2> QED BY <2>2
<1> QED BY <1>2, <1>3, <1>4, <1>5, <1>6 DEF t, CombosOf

-----------------------------------------------------------------------------
(* What the steps of the parent make of its state and of the record.       *)

(* The types of the fields of the sweep, and what each phase knows of them.*)
LEMMA SweepFields ==
  ASSUME TypeOK
  PROVE  /\ sweep.pc \in {"off", "read", "open", "work"} /\ sweep.force \in BOOLEAN
         /\ sweep.queue \in SUBSET Combos /\ sweep.results \in Seq(RowSet)
         /\ sweep.buffer \in {<<>>, <<Header>>}
         /\ sweep.pc # "work" => sweep.results = <<>> /\ sweep.buffer = <<>>
         /\ sweep.pc \in {"off", "read"} => sweep.queue = {}
         /\ sweep.pc = "off" => sweep = Off
         /\ sweep.pc = "read" => sweep \in Reading
         /\ sweep.pc = "open" => sweep \in Opening
         /\ sweep.pc = "work" => sweep \in Working
<1>1. <<>> \in Seq(RowSet)
  OBVIOUS
<1>2. CASE sweep = Off
  BY <1>1, <1>2 DEF Off
<1>3. CASE sweep \in Reading
  BY <1>1, <1>3 DEF Reading
<1>4. CASE sweep \in Opening
  BY <1>1, <1>4 DEF Opening
<1>5. CASE sweep \in Working
  BY <1>5 DEF Working
<1> QED BY <1>2, <1>3, <1>4, <1>5 DEF TypeOK, Sweeps

(* The scan adds rows for schedules that are there, one for each of them,  *)
(* under a header if there was no file.                                    *)
LEMMA RecoveredLines ==
  ASSUME TypeOK
  PROVE  \/ Recovered = {} /\ RecoveredRows = <<>>
         \/ /\ Recovered # {}
            /\ \E rows \in Seq(RowSet) :
                 /\ rows # <<>>
                 /\ \A i \in DOMAIN rows : rows[i].combo \in Recovered /\ rows[i].status = "OK"
                 /\ \A i, j \in DOMAIN rows : rows[i].combo = rows[j].combo => i = j
                 /\ RecoveredRows = IF exists THEN rows ELSE <<Header>> \o rows
<1> DEFINE S == Recovered
<1>1. S \in SUBSET Combos /\ IsFiniteSet(S)
  BY CombosAreFinite DEF Recovered
<1>2. PICK n \in Nat : n = Cardinality(S)
  BY <1>1, FS_CardinalityType
<1> DEFINE f == SetToSeq(S)
           rows == [i \in 1 .. n |-> Row(f[i], "OK")]
<1>3. RecoveredRows = IF rows = <<>> THEN <<>> ELSE IF exists THEN rows ELSE <<Header>> \o rows
  BY <1>2 DEF RecoveredRows
<1> HIDE DEF S
<1>4. f \in [1 .. n -> S] /\ IsInjective(f)
  <2>1. PICK g : g \in Bijection(1 .. n, S)
    BY <1>1, <1>2, FS_CardinalityType DEF ExistsBijection
  <2>2. g \in [1 .. n -> S] /\ IsInjective(g)
    BY <2>1 DEF Bijection, Injection, Surjection, IsInjective
  <2> QED BY <1>2, <2>2 DEF SetToSeq
<1> HIDE DEF f
<1>5. \A i \in 1 .. n : f[i] \in S /\ f[i] \in Combos
  BY <1>1, <1>4
<1>6. \A i \in 1 .. n : rows[i] = Row(f[i], "OK") /\ rows[i] \in RowSet
  BY <1>5 DEF Row, RowSet, Statuses
<1>7. rows \in Seq(RowSet) /\ DOMAIN rows = 1 .. n /\ Len(rows) = n
  BY <1>6
<1> HIDE DEF rows
<1>8. /\ \A i \in DOMAIN rows : rows[i].combo \in S /\ rows[i].status = "OK"
      /\ \A i, j \in DOMAIN rows : rows[i].combo = rows[j].combo => i = j
  BY <1>4, <1>5, <1>6, <1>7 DEF Row, IsInjective
<1>9. CASE S = {}
  <2>1. n = 0
    BY <1>2, <1>9, FS_EmptySet
  <2> QED BY <1>3, <1>7, <1>9, <2>1 DEF S
<1>10. CASE S # {}
  <2>1. n # 0
    BY <1>1, <1>2, <1>10, FS_EmptySet
  <2>2. rows # <<>>
    BY <1>7, <2>1
  <2> QED BY <1>3, <1>7, <1>8, <1>10, <2>2 DEF S
<1> QED BY <1>9, <1>10

(* While the workers rest and no result is on its way, nothing is twice.   *)
LEMMA RestingOnce ==
  ASSUME AllIdle, UNCHANGED worker, sweep'.results = <<>>
  PROVE  /\ EachOnce' /\ WorkersServe' /\ Held' = {} /\ Sent' = {}
         /\ (sweep'.pc # "work" => ResultsOK')
<1>1. AllIdle' /\ Held' = {}
  BY DEF AllIdle, Held
<1>2. Sent' = {}
  BY DEF Sent, CombosOf
<1> QED BY <1>1, <1>2 DEF EachOnce, WorkersServe, AllIdle, ResultsOK

(* Files and rows that stay as they are stay sound. *)
LEMMA FilesKept ==
  ASSUME FilesOK, UNCHANGED <<json, worker, torn>>
  PROVE  FilesOK'
BY DEF FilesOK

(* Appending a line that is no row of a combo leaves its rows as they were.*)
LEMMA RowsKept ==
  ASSUME OneRow, OkIsSolved, UNCHANGED <<summary, json, torn>>
  PROVE  OneRow' /\ OkIsSolved'
BY DEF OneRow, OkIsSolved, Headed

(* A run begins, or ends: what it may not assume of the record it does not. *)
LEMMA SweepRests ==
  ASSUME SweepInv, AllIdle, sweep' = Off \/ (\E force \in BOOLEAN : Start(force)),
         UNCHANGED <<json, worker, torn, exists, summary>>
  PROVE  SweepInv'
<1>1. sweep' \in {Off} \cup Reading
  BY DEF Start, Off, Reading
<1>2. /\ sweep'.pc \in {"off", "read"} /\ sweep'.results = <<>> /\ sweep'.buffer = <<>>
  <2>1. CASE sweep' = Off
    BY <2>1 DEF Off
  <2>2. CASE sweep' \in Reading
    BY <2>2 DEF Reading
  <2> QED BY <1>1, <2>1, <2>2
<1>3. TypeOK'
  BY <1>1 DEF SweepInv, TypeOK, Sweeps
<1>4. EachOnce' /\ WorkersServe' /\ ResultsOK'
  BY <1>2, RestingOnce
<1>5. FilesOK' /\ OneRow' /\ OkIsSolved'
  BY FilesKept, RowsKept DEF SweepInv
<1>6. HeaderOK' /\ NoRowYet'
  BY <1>2 DEF SweepInv, HeaderOK, NoRowYet
<1> QED BY <1>3, <1>4, <1>5, <1>6 DEF SweepInv

(* Opening summary.csv, which writes the header of a new or forced record. *)
LEMMA OpenSummaryStep ==
  ASSUME SweepInv, OpenSummary
  PROVE  SweepInv'
<1> USE DEF SweepInv
<1>1. /\ sweep.pc = "open" /\ exists' = TRUE /\ UNCHANGED <<json, worker, torn>>
      /\ summary' = IF Truncates THEN <<>> ELSE summary
      /\ sweep' = [sweep EXCEPT !.pc = "work",
                     !.buffer = IF Truncates THEN <<Header>> ELSE <<>>]
  BY DEF OpenSummary, ParentOnly
<1>2. sweep \in Opening
  BY <1>1, SweepFields
<1>3. /\ sweep'.pc = "work" /\ sweep'.force = sweep.force /\ sweep'.queue = sweep.queue
      /\ sweep'.results = <<>> /\ sweep'.buffer = IF Truncates THEN <<Header>> ELSE <<>>
  BY <1>1, <1>2 DEF Opening
<1>4. TypeOK'
  <2>1. <<>> \in Seq(RowSet) /\ <<>> \in Seq(Lines)
    OBVIOUS
  <2>2. sweep' \in Working
    BY <1>1, <1>2, <2>1 DEF Opening, Working
  <2> QED BY <1>1, <2>1, <2>2 DEF TypeOK, Sweeps
<1>5. AllIdle
  BY <1>1 DEF WorkersServe
<1>6. EachOnce' /\ WorkersServe' /\ Held' = {} /\ Sent' = {}
  BY <1>1, <1>3, <1>5, RestingOnce
<1>7. FilesOK'
  BY <1>1, FilesKept
<1>8. ResultsOK'
  BY <1>3 DEF ResultsOK
<1>9. CASE Truncates
  <2>1. summary' = <<>> /\ sweep'.buffer = <<Header>>
    BY <1>1, <1>3, <1>9
  <2>2. ~Headed' /\ <<Header>> # <<>>
    BY <2>1 DEF Headed
  <2>3. HeaderOK' /\ NoRowYet' /\ OneRow' /\ OkIsSolved'
    BY <1>1, <1>3, <2>1, <2>2 DEF HeaderOK, NoRowYet, OneRow, OkIsSolved
  <2> QED BY <1>4, <1>6, <1>7, <1>8, <2>3
<1>10. CASE ~Truncates
  <2>1. summary' = summary /\ sweep'.buffer = <<>> /\ ~sweep.force
    BY <1>1, <1>3, <1>10 DEF Truncates
  <2>2. OneRow' /\ OkIsSolved'
    BY <1>1, <2>1, RowsKept
  <2>3. HeaderOK'
    BY <1>1, <1>3, <2>1 DEF HeaderOK
  <2>4. NoRowYet'
    BY <1>1, <1>3, <1>6, <2>1 DEF NoRowYet, Headed, Recorded
  <2> QED BY <1>4, <1>6, <1>7, <1>8, <2>2, <2>3, <2>4
<1> QED BY <1>9, <1>10

(* The lines of an extended record, seen from both ends. *)
LEMMA LinesOfMore ==
  ASSUME NEW s \in Seq(Lines), NEW t \in Seq(Lines)
  PROVE  /\ s \o t \in Seq(Lines)
         /\ \A i \in DOMAIN (s \o t) :
              (i \in DOMAIN s /\ (s \o t)[i] = s[i])
                \/ \E j \in DOMAIN t : i = Len(s) + j /\ (s \o t)[i] = t[j]
         /\ s # <<>> => s \o t # <<>> /\ Head(s \o t) = Head(s)
         /\ s = <<>> => s \o t = t
<1>1. /\ s \o t \in Seq(Lines) /\ Len(s \o t) = Len(s) + Len(t)
      /\ \A i \in 1 .. Len(s) + Len(t) :
           (s \o t)[i] = IF i <= Len(s) THEN s[i] ELSE t[i - Len(s)]
      /\ Len(s) \in Nat /\ Len(t) \in Nat
      /\ DOMAIN (s \o t) = 1 .. Len(s) + Len(t)
      /\ DOMAIN s = 1 .. Len(s) /\ DOMAIN t = 1 .. Len(t)
  BY ConcatProperties, LenProperties
<1> DEFINE u == s \o t
<1>2. s = <<>> => u = t
  BY ConcatEmptySeq
<1>3. s # <<>> => Len(s) # 0 /\ 1 <= Len(s) /\ Head(s) = s[1]
  BY <1>1, EmptySeq
<1> HIDE DEF u
<1>4. PICK m \in Nat, n \in Nat : m = Len(s) /\ n = Len(t)
  BY <1>1
<1>5. \A i \in DOMAIN u : \/ i \in DOMAIN s /\ u[i] = s[i]
                          \/ \E j \in DOMAIN t : i = m + j /\ u[i] = t[j]
  <2> SUFFICES ASSUME NEW i \in 1 .. m + n
               PROVE  \/ i \in DOMAIN s /\ u[i] = s[i]
                      \/ \E j \in DOMAIN t : i = m + j /\ u[i] = t[j]
    BY <1>1, <1>4 DEF u
  <2>1. u[i] = IF i <= m THEN s[i] ELSE t[i - m]
    BY <1>1, <1>4 DEF u
  <2>2. CASE i <= m
    BY <1>1, <1>4, <2>1, <2>2
  <2>3. CASE ~ (i <= m)
    <3>1. i - m \in 1 .. n /\ i = m + (i - m)
      BY <2>3
    <3> QED BY <1>1, <1>4, <2>1, <2>3, <3>1
  <2> QED BY <2>2, <2>3
<1>6. s # <<>> => u # <<>> /\ Head(u) = Head(s)
  <2> SUFFICES ASSUME s # <<>> PROVE u # <<>> /\ Head(u) = Head(s)
    OBVIOUS
  <2>1. 1 \in 1 .. m + n /\ 1 <= m
    BY <1>3, <1>4
  <2>2. u[1] = s[1] /\ Len(u) = m + n /\ u \in Seq(Lines)
    BY <1>1, <1>4, <2>1 DEF u
  <2>3. u # <<>>
    BY <2>1, <2>2, EmptySeq
  <2> QED BY <1>3, <2>2, <2>3
<1> QED BY <1>1, <1>2, <1>4, <1>5, <1>6 DEF u

(* Rows that are there, about combos that have none, are added once each.  *)
LEMMA OneRowMore ==
  ASSUME NEW s \in Seq(Lines), NEW t \in Seq(RowSet),
         \A i, j \in DOMAIN s : s[i].combo = s[j].combo => i = j,
         \A i, j \in DOMAIN t : t[i].combo = t[j].combo => i = j,
         CombosOf(s) \cap CombosOf(t) = {}
  PROVE  \A i, j \in DOMAIN (s \o t) : (s \o t)[i].combo = (s \o t)[j].combo => i = j
<1>1. t \in Seq(Lines) /\ \A i \in DOMAIN t : t[i] \in RowSet
  BY SeqMonotonic DEF Lines
<1>2. \A i \in DOMAIN s : s[i] \in RowSet \/ s[i] = Header
  BY DEF Lines
<1>3. \A i \in DOMAIN t : t[i].combo \in Combos /\ t[i].combo \in CombosOf(t)
  BY <1>1, HeaderIsNoRow DEF CombosOf
<1>4. \A i \in DOMAIN s : s[i].combo \in Combos => s[i].combo \in CombosOf(s)
  BY DEF CombosOf
<1> DEFINE u == s \o t
<1>5. \A i \in DOMAIN u : \/ i \in DOMAIN s /\ u[i] = s[i]
                          \/ \E j \in DOMAIN t : i = Len(s) + j /\ u[i] = t[j]
  BY <1>1, LinesOfMore
<1> HIDE DEF u
<1> SUFFICES ASSUME NEW i \in DOMAIN u, NEW j \in DOMAIN u, u[i].combo = u[j].combo
             PROVE  i = j
  BY DEF u
<1>6. CASE (i \in DOMAIN s /\ u[i] = s[i]) /\ (j \in DOMAIN s /\ u[j] = s[j])
  BY <1>6
<1>7. ASSUME NEW k \in DOMAIN t, NEW l \in DOMAIN u, l \in DOMAIN s, u[l] = s[l],
             t[k].combo = s[l].combo
      PROVE  FALSE
  BY <1>3, <1>4, <1>7
<1>8. ASSUME NEW k \in DOMAIN t, NEW l \in DOMAIN t, i = Len(s) + k, u[i] = t[k],
             j = Len(s) + l, u[j] = t[l]
      PROVE  i = j
  BY <1>8
<1> QED BY <1>5, <1>6, <1>7, <1>8

(* Appending a result: the first row of its combo, true of what is on disk.*)
LEMMA RecordResultStep ==
  ASSUME SweepInv, RecordResult
  PROVE  SweepInv'
<1> USE DEF SweepInv
<1> DEFINE row == Head(sweep.results)
           more == Append(sweep.buffer, row)
<1>1. /\ sweep.pc = "work" /\ sweep.results # <<>>
      /\ summary' = summary \o more
      /\ sweep' = [sweep EXCEPT !.results = Tail(sweep.results), !.buffer = <<>>]
      /\ UNCHANGED <<json, worker, torn, exists>>
  BY DEF RecordResult, ParentOnly
<1>2. /\ sweep \in Working /\ sweep.results \in Seq(RowSet)
      /\ sweep.buffer \in {<<>>, <<Header>>}
  BY <1>1, SweepFields
<1>3. /\ row \in RowSet /\ Tail(sweep.results) \in Seq(RowSet)
      /\ row = sweep.results[1] /\ 1 \in DOMAIN sweep.results
  <2>1. Len(sweep.results) \in Nat \ {0} /\ DOMAIN sweep.results = 1 .. Len(sweep.results)
    BY <1>1, <1>2, EmptySeq, LenProperties
  <2> QED BY <1>1, <1>2, <2>1, HeadTailProperties
<1>4. more = IF sweep.buffer = <<>> THEN <<row>> ELSE <<Header, row>>
  <2>1. CASE sweep.buffer = <<>>
    <3>1. Append(<<>>, row) = <<row>>
      OBVIOUS
    <3> QED BY <2>1, <3>1
  <2>2. CASE sweep.buffer = <<Header>>
    <3>2. row \in Lines /\ Header \in Lines
      BY <1>3 DEF Lines
    <3>1. Append(<<Header>>, row) = <<Header, row>>
      BY <3>2, ShortLists
    <3>3. sweep.buffer # <<>>
      BY <2>2
    <3> QED BY <2>2, <3>1, <3>2, <3>3
  <2> QED BY <1>2, <2>1, <2>2
<1> HIDE DEF more
<1>5. /\ sweep'.pc = "work" /\ sweep'.force = sweep.force /\ sweep'.queue = sweep.queue
      /\ sweep'.results = Tail(sweep.results) /\ sweep'.buffer = <<>> /\ sweep' \in Working
  BY <1>1, <1>2, <1>3 DEF Working
<1> HIDE DEF row
<1>6. row.combo \in Combos /\ row.combo # Header.combo /\ row # Header
  BY <1>3, HeaderIsNoRow
<1>7. more \in Seq(Lines) /\ more # <<>>
  <2>1. row \in Lines /\ Header \in Lines
    BY <1>3 DEF Lines
  <2>2. \A a, b \in Lines : <<a>> \in Seq(Lines) /\ <<a, b>> \in Seq(Lines)
                            /\ <<a>> # <<>> /\ <<a, b>> # <<>>
    OBVIOUS
  <2> QED BY <1>4, <2>1, <2>2
<1>8. summary \in Seq(Lines)
  BY DEF TypeOK
<1>9. TypeOK'
  <2>1. summary' \in Seq(Lines)
    BY <1>1, <1>7, <1>8, LinesOfMore
  <2> QED BY <1>1, <1>5, <2>1 DEF TypeOK, Sweeps
<1>10. /\ row.combo \in Sent /\ Sent' = Sent \ {row.combo} /\ UNCHANGED Held
       /\ \A i, j \in DOMAIN sweep'.results :
            sweep'.results[i].combo = sweep'.results[j].combo => i = j
  <2>1. \A i, j \in DOMAIN sweep.results :
          sweep.results[i].combo = sweep.results[j].combo => i = j
    BY DEF EachOnce
  <2>2. Held' = Held
    BY <1>1 DEF Held
  <2>3. PICK s \in Seq(RowSet) : s = sweep.results
    BY <1>2 DEF Working
  <2>4. s # <<>> /\ row = Head(s)
    BY <1>1, <2>3 DEF row
  <2>5. /\ row.combo \in CombosOf(s) /\ CombosOf(Tail(s)) = CombosOf(s) \ {row.combo}
        /\ \A i, j \in DOMAIN Tail(s) : Tail(s)[i].combo = Tail(s)[j].combo => i = j
    BY <1>6, <2>1, <2>3, <2>4, CombosOfTail
  <2>6. Sent = CombosOf(s) /\ Sent' = CombosOf(Tail(s))
    BY <1>5, <2>3 DEF Sent
  <2> QED BY <1>5, <2>2, <2>3, <2>5, <2>6
<1>11. EachOnce' /\ WorkersServe'
  BY <1>1, <1>5, <1>10 DEF EachOnce, WorkersServe
<1>12. FilesOK'
  BY <1>1, FilesKept
<1>13. \A i \in DOMAIN sweep'.results : \E j \in DOMAIN sweep.results :
         sweep'.results[i] = sweep.results[j]
  <2>1. /\ Len(sweep.results) \in Nat \ {0} /\ Len(Tail(sweep.results)) = Len(sweep.results) - 1
        /\ \A i \in 1 .. Len(Tail(sweep.results)) : Tail(sweep.results)[i] = sweep.results[i+1]
        /\ DOMAIN sweep.results = 1 .. Len(sweep.results)
        /\ DOMAIN Tail(sweep.results) = 1 .. Len(Tail(sweep.results))
    BY <1>1, <1>2, <1>3, HeadTailProperties, LenProperties, EmptySeq
  <2>2. PICK n \in Nat : Len(sweep.results) = n + 1
    BY <2>1
  <2>3. \A i \in 1 .. n : i + 1 \in 1 .. n + 1
    OBVIOUS
  <2> QED BY <1>5, <2>1, <2>2, <2>3
<1>14. ResultsOK'
  BY <1>1, <1>13 DEF ResultsOK, Solved
<1>15. \A i \in DOMAIN summary' : \/ i \in DOMAIN summary /\ summary'[i] = summary[i]
                                  \/ \E j \in DOMAIN more : i = Len(summary) + j
                                                             /\ summary'[i] = more[j]
  BY <1>1, <1>7, <1>8, LinesOfMore
<1>16. OkIsSolved'
  <2>1. \A j \in DOMAIN more : more[j] = row \/ more[j] = Header
    BY <1>4
  <2>2. row.status = "OK" => Solved(row.combo)
    BY <1>3 DEF ResultsOK
  <2>3. Header.status # "OK"
    BY HeaderIsNoRow
  <2> QED BY <1>1, <1>15, <2>1, <2>2, <2>3 DEF OkIsSolved, Solved
<1>17. CASE sweep.buffer = <<Header>>
  <2>1. summary = <<>> /\ more = <<Header, row>> /\ <<Header>> # <<>>
    BY <1>4, <1>17 DEF HeaderOK
  <2>2. summary' = <<Header, row>>
    BY <1>1, <1>7, <1>8, <2>1, LinesOfMore
  <2>3. DOMAIN summary' = 1 .. 2 /\ summary'[1] = Header /\ summary'[2] = row
    BY <2>2
  <2>4. HeaderOK'
    <3>1. exists
      BY <1>1 DEF HeaderOK
    <3>2. Headed'
      BY <2>2 DEF Headed
    <3> QED BY <1>1, <1>5, <1>6, <2>3, <3>1, <3>2 DEF HeaderOK
  <2>5. OneRow'
    BY <1>6, <2>3 DEF OneRow
  <2>6. Recorded' = {row.combo}
    BY <1>6, <2>3, HeaderIsNoRow DEF Recorded, CombosOf
  <2>7. NoRowYet'
    BY <1>5, <1>10, <2>6 DEF NoRowYet, EachOnce
  <2> QED BY <1>9, <1>11, <1>12, <1>14, <1>16, <2>4, <2>5, <2>7
<1>18. CASE sweep.buffer = <<>>
  <2>1. more = <<row>> /\ DOMAIN more = 1 .. 1 /\ more[1] = row
    BY <1>4, <1>18
  <2>2. Headed' => Headed /\ summary # <<>>
    <3>1. CASE summary = <<>>
      <4>1. summary' = <<row>>
        BY <1>1, <1>7, <1>8, <2>1, <3>1, LinesOfMore
      <4> QED BY <1>6, <4>1 DEF Headed
    <3>2. CASE summary # <<>>
      BY <1>1, <1>7, <1>8, <3>2, LinesOfMore DEF Headed
    <3> QED BY <3>1, <3>2
  <2>3. Headed => Headed'
    BY <1>1, <1>7, <1>8, LinesOfMore DEF Headed
  <2>4. more \in Seq(RowSet) /\ CombosOf(more) = {row.combo}
    BY <1>3, <1>6, <2>1 DEF CombosOf
  <2>5. Recorded' = Recorded \cup {row.combo}
    BY <1>1, <1>7, <1>8, <2>4, CombosOfMore DEF Recorded
  <2>6. NoRowYet'
    BY <1>1, <1>5, <1>10, <2>2, <2>5 DEF NoRowYet, EachOnce
  <2>7. OneRow'
    <3> SUFFICES ASSUME Headed' PROVE OneRow'
      BY DEF OneRow
    <3>1. \A i, j \in DOMAIN summary : summary[i].combo = summary[j].combo => i = j
      BY <2>2 DEF OneRow
    <3>2. CombosOf(summary) \cap CombosOf(more) = {}
      BY <1>1, <1>10, <2>2, <2>4 DEF NoRowYet, Recorded
    <3>3. \A i, j \in DOMAIN more : more[i].combo = more[j].combo => i = j
      BY <2>1
    <3> QED BY <1>1, <1>8, <2>4, <3>1, <3>2, <3>3, OneRowMore DEF OneRow
  <2>8. HeaderOK'
    <3>1. exists
      BY <1>1 DEF HeaderOK
    <3>2. \A i \in DOMAIN summary' : summary'[i] = Header => i = 1
      BY <1>6, <1>15, <2>1 DEF HeaderOK
    <3> QED BY <1>1, <1>5, <1>18, <2>3, <3>1, <3>2 DEF HeaderOK
  <2> QED BY <1>9, <1>11, <1>12, <1>14, <1>16, <2>6, <2>7, <2>8
<1> QED BY <1>2, <1>17, <1>18

(* What is added back from disk is new to the record, is on disk, and is   *)
(* not handed out again.                                                   *)
LEMMA ReconcileStep ==
  ASSUME SweepInv, Reconcile
  PROVE  SweepInv'
<1> USE DEF SweepInv
<1>1. /\ sweep.pc = "read" /\ (sweep.force \/ ~Unreadable)
      /\ summary' = summary \o RecoveredRows
      /\ exists' = (exists \/ Recovered # {})
      /\ sweep' = IF Todo = {} THEN Off ELSE [sweep EXCEPT !.pc = "open", !.queue = Todo]
      /\ UNCHANGED <<json, worker, torn>>
  BY DEF Reconcile, ParentOnly
<1>2. sweep \in Reading
  BY <1>1, SweepFields
<1>3. Todo \in SUBSET Combos
  BY DEF Todo
<1>4. /\ sweep' \in {Off} \cup Opening /\ sweep'.results = <<>> /\ sweep'.buffer = <<>>
      /\ sweep'.pc \in {"off", "open"}
      /\ sweep'.pc = "open" => sweep'.force = sweep.force /\ sweep'.queue = Todo
  <2>1. CASE Todo = {}
    BY <1>1, <2>1 DEF Off
  <2>2. CASE Todo # {}
    BY <1>1, <1>2, <1>3, <2>2 DEF Reading, Opening
  <2> QED BY <2>1, <2>2
<1>5. AllIdle
  BY <1>1 DEF WorkersServe
<1>6. EachOnce' /\ WorkersServe' /\ ResultsOK'
  BY <1>1, <1>4, <1>5, RestingOnce
<1>7. FilesOK'
  BY <1>1, FilesKept
<1>8. summary \in Seq(Lines) /\ <<>> \in Seq(Lines)
  BY DEF TypeOK
<1>9. ASSUME summary' = summary,
             sweep'.pc = "open" /\ ~sweep'.force /\ Headed => sweep'.queue \cap Recorded = {}
      PROVE  SweepInv'
  <2>1. TypeOK'
    BY <1>1, <1>4, <1>9 DEF TypeOK, Sweeps
  <2>2. OneRow' /\ OkIsSolved'
    BY <1>1, <1>9, RowsKept
  <2>3. HeaderOK'
    BY <1>1, <1>4, <1>9 DEF HeaderOK
  <2>4. NoRowYet'
    BY <1>4, <1>9 DEF NoRowYet, Headed, Recorded
  <2> QED BY <1>6, <1>7, <2>1, <2>2, <2>3, <2>4
<1>10. Headed /\ ~sweep.force => Already = Recorded
  <2> SUFFICES ASSUME Headed, ~sweep.force PROVE Already = Recorded
    OBVIOUS
  <2>1. Already = CombosOf(Tail(summary)) /\ summary # <<>> /\ Head(summary) = Header
    BY DEF Already, Headed
  <2>2. summary[1] = Header
    BY <1>8, <2>1
  <2>3. PICK n \in Nat : n = Len(Tail(summary))
    BY <1>8, <2>1, HeadTailProperties, LenProperties
  <2>4. /\ DOMAIN summary = 1 .. n + 1 /\ DOMAIN Tail(summary) = 1 .. n
        /\ \A i \in 1 .. n : Tail(summary)[i] = summary[i + 1]
    <3>1. /\ Tail(summary) \in Seq(Lines) /\ Len(Tail(summary)) = Len(summary) - 1
          /\ Len(summary) \in Nat /\ DOMAIN summary = 1 .. Len(summary)
          /\ DOMAIN Tail(summary) = 1 .. Len(Tail(summary))
          /\ \A i \in 1 .. Len(Tail(summary)) : Tail(summary)[i] = summary[i + 1]
      BY <1>8, <2>1, HeadTailProperties, LenProperties
    <3>2. Len(summary) = n + 1
      BY <2>3, <3>1
    <3> QED BY <2>3, <3>1, <3>2
  <2>5. ASSUME NEW c \in CombosOf(Tail(summary)) PROVE c \in CombosOf(summary)
    <3>1. PICK i \in 1 .. n : c = Tail(summary)[i].combo /\ c \in Combos
      BY <2>4 DEF CombosOf
    <3>2. i + 1 \in 1 .. n + 1 /\ c = summary[i + 1].combo
      BY <2>4, <3>1
    <3> QED BY <2>4, <3>1, <3>2 DEF CombosOf
  <2>6. ASSUME NEW c \in CombosOf(summary) PROVE c \in CombosOf(Tail(summary))
    <3>1. PICK i \in 1 .. n + 1 : c = summary[i].combo /\ c \in Combos
      BY <2>4 DEF CombosOf
    <3>2. i # 1
      BY <2>2, <3>1, HeaderIsNoRow
    <3>3. PICK k \in 1 .. n : i = k + 1
      <4>1. i - 1 \in 1 .. n /\ i = (i - 1) + 1
        BY <3>2
      <4> QED BY <4>1
    <3>4. c = Tail(summary)[k].combo
      BY <2>4, <3>1, <3>3
    <3> QED BY <2>4, <3>1, <3>4 DEF CombosOf
  <2> QED BY <2>1, <2>5, <2>6 DEF Recorded
<1>11. CASE Recovered = {} /\ RecoveredRows = <<>>
  <2>1. summary' = summary
    BY <1>1, <1>8, <1>11, ConcatEmptySeq
  <2>2. ASSUME sweep'.pc = "open", ~sweep'.force, Headed PROVE sweep'.queue \cap Recorded = {}
    BY <1>4, <1>10, <2>2 DEF Todo
  <2> QED BY <1>9, <2>1, <2>2
<1>12. ASSUME Recovered # {}, NEW rows \in Seq(RowSet), rows # <<>>,
              \A i \in DOMAIN rows : rows[i].combo \in Recovered /\ rows[i].status = "OK",
              \A i, j \in DOMAIN rows : rows[i].combo = rows[j].combo => i = j,
              RecoveredRows = IF exists THEN rows ELSE <<Header>> \o rows
       PROVE  SweepInv'
  <2>1. ~sweep.force /\ exists' = TRUE
    BY <1>1, <1>12 DEF Recovered
  <2>2. rows \in Seq(Lines) /\ \A i \in DOMAIN rows : rows[i] \in RowSet
    BY SeqMonotonic DEF Lines
  <2>3. CombosOf(rows) \subseteq Recovered
    BY <1>12 DEF CombosOf
  <2>4. \A c \in Recovered : c \in Combos /\ c \notin Already /\ Solved(c)
    <3> SUFFICES ASSUME NEW c \in Recovered PROVE c \in Combos /\ c \notin Already /\ Solved(c)
      OBVIOUS
    <3>1. c \in Combos /\ c \notin Already /\ json[c] # "missing"
      BY <2>1 DEF Recovered
    <3>2. json[c] \in {"missing", "partial", "whole"}
      BY <3>1 DEF TypeOK
    <3>3. json[c] = "partial" => c \in torn
      BY <1>5, <3>1 DEF FilesOK, AllIdle
    <3> QED BY <3>1, <3>2, <3>3 DEF Solved
  <2> DEFINE old == IF exists THEN summary ELSE <<Header>>
  <2>5. /\ old \in Seq(Lines) /\ summary' = old \o rows
        /\ \A i \in DOMAIN old : old[i] = Header => i = 1
        /\ \A i \in DOMAIN old : old[i].status = "OK" => Solved(old[i].combo)
        /\ old # <<>> /\ Head(old) = Header =>
             /\ CombosOf(old) = Already
             /\ \A i, j \in DOMAIN old : old[i].combo = old[j].combo => i = j
    <3>1. CASE exists
      <4>1. old = summary
        BY <3>1
      <4>2. old # <<>> /\ Head(old) = Header =>
             /\ CombosOf(old) = Already
             /\ \A i, j \in DOMAIN old : old[i].combo = old[j].combo => i = j
        BY <1>10, <2>1, <4>1 DEF Headed, OneRow, Recorded
      <4> HIDE DEF old
      <4> QED BY <1>1, <1>8, <1>12, <3>1, <4>1, <4>2 DEF HeaderOK, OkIsSolved, Solved
    <3>2. CASE ~exists
      <4>1. old = <<Header>> /\ summary = <<>>
        BY <3>2 DEF HeaderOK
      <4>2. <<Header>> \in Seq(Lines)
        <5>1. Header \in Lines
          BY DEF Lines
        <5> QED BY <5>1
      <4>3. <<>> \o (<<Header>> \o rows) = <<Header>> \o rows
        <5>1. <<Header>> \o rows \in Seq(Lines)
          BY <2>2, <4>2, LinesOfMore
        <5> QED BY <5>1, ConcatEmptySeq
      <4>4. DOMAIN <<Header>> = {1} /\ <<Header>>[1] = Header
        OBVIOUS
      <4>5. CombosOf(<<Header>>) = {}
        BY <4>4, HeaderIsNoRow DEF CombosOf
      <4>6. Already = {}
        BY <4>1 DEF Already, Headed
      <4> QED BY <1>1, <1>12, <3>2, <4>1, <4>2, <4>3, <4>4, <4>5, <4>6, HeaderIsNoRow
    <3> QED BY <3>1, <3>2
  <2> HIDE DEF old
  <2>6. /\ summary' \in Seq(Lines)
        /\ \A i \in DOMAIN summary' :
             (i \in DOMAIN old /\ summary'[i] = old[i])
               \/ \E j \in DOMAIN rows : i = Len(old) + j /\ summary'[i] = rows[j]
        /\ old # <<>> => summary' # <<>> /\ Head(summary') = Head(old)
        /\ old = <<>> => summary' = rows
    BY <2>2, <2>5, LinesOfMore
  <2>7. TypeOK'
    BY <1>1, <1>4, <2>1, <2>6 DEF TypeOK, Sweeps
  <2>8. OkIsSolved'
    <3> SUFFICES ASSUME NEW i \in DOMAIN summary', summary'[i].status = "OK"
                 PROVE  Solved(summary'[i].combo)
      BY <1>1 DEF OkIsSolved, Solved
    <3>1. CASE i \in DOMAIN old /\ summary'[i] = old[i]
      BY <2>5, <3>1
    <3>2. CASE \E j \in DOMAIN rows : summary'[i] = rows[j]
      BY <1>12, <2>4, <3>2
    <3> QED BY <2>6, <3>1, <3>2
  <2>9. HeaderOK'
    <3>1. \A i \in DOMAIN summary' : summary'[i] = Header => i = 1
      BY <2>2, <2>5, <2>6, HeaderIsNoRow
    <3> QED BY <1>4, <2>1, <3>1 DEF HeaderOK
  <2>10. Headed' => old # <<>> /\ Head(old) = Header
    <3>1. rows[1] # Header
      <4>1. 1 \in DOMAIN rows
        <5>1. Len(rows) \in Nat \ {0} /\ DOMAIN rows = 1 .. Len(rows)
          BY <1>12, EmptySeq, LenProperties
        <5> QED BY <5>1
      <4> QED BY <2>2, <4>1, HeaderIsNoRow
    <3>2. old = <<>> => ~Headed'
      <4>1. Head(rows) = rows[1]
        BY <1>12
      <4> QED BY <2>6, <3>1, <4>1 DEF Headed
    <3> QED BY <2>6, <3>2 DEF Headed
  <2>11. OneRow'
    <3> SUFFICES ASSUME Headed' PROVE OneRow'
      BY DEF OneRow
    <3>1. CombosOf(old) \cap CombosOf(rows) = {}
      BY <2>3, <2>4, <2>5, <2>10
    <3> QED BY <1>12, <2>5, <2>10, <3>1, OneRowMore DEF OneRow
  <2>12. NoRowYet'
    <3>1. Recorded' = CombosOf(old) \cup CombosOf(rows)
      BY <2>2, <2>5, CombosOfMore DEF Recorded
    <3> QED BY <1>4, <2>3, <2>5, <2>10, <3>1 DEF NoRowYet, Todo
  <2> QED BY <1>6, <1>7, <2>7, <2>8, <2>9, <2>11, <2>12
<1> QED BY <1>11, <1>12, RecoveredLines

-----------------------------------------------------------------------------
(* What the steps of the workers make of it.                               *)

(* A combo handed out, sent back or lost was in the parent's hands before. *)
LEMMA RecordStays ==
  ASSUME SweepInv, UNCHANGED <<exists, summary>>, sweep'.pc = sweep.pc, sweep.pc = "work",
         sweep'.force = sweep.force, sweep'.buffer = sweep.buffer,
         sweep'.queue \cup Held' \cup Sent' \subseteq sweep.queue \cup Held \cup Sent
  PROVE  HeaderOK' /\ NoRowYet' /\ OneRow'
BY DEF SweepInv, HeaderOK, NoRowYet, OneRow, Headed, Recorded

(* A busy worker holds its combo alone. *)
LEMMA HolderType ==
  ASSUME SweepInv, NEW w \in Workers, worker[w].pc # "idle"
  PROVE  /\ sweep.pc = "work" /\ sweep \in Working
         /\ worker[w] \in Busy /\ worker[w].combo \in Combos
         /\ worker[w].combo \in Held /\ worker[w].combo \notin sweep.queue
         /\ worker[w].combo \notin Sent
         /\ \A v \in Workers : v # w /\ worker[v].pc # "idle" => worker[v].combo # worker[w].combo
<1>1. sweep.pc = "work" /\ sweep \in Working
  BY SweepFields DEF SweepInv, WorkersServe, AllIdle
<1>2. worker[w] \in Busy
  BY DEF SweepInv, TypeOK, Idle
<1>3. worker[w].combo \in Held /\ worker[w].combo \in Combos
  BY <1>2 DEF Held, Busy
<1> QED BY <1>1, <1>2, <1>3 DEF SweepInv, EachOnce

(* A worker that stops gives up the combo it had, and no other. *)
LEMMA StoppingHeld ==
  ASSUME SweepInv, NEW w \in Workers, worker[w].pc # "idle",
         worker' = [worker EXCEPT ![w] = Idle]
  PROVE  /\ worker' \in [Workers -> {Idle} \cup Busy]
         /\ worker'[w].pc = "idle" /\ \A v \in Workers : v # w => worker'[v] = worker[v]
         /\ Held' = Held \ {worker[w].combo}
<1>1. worker \in [Workers -> {Idle} \cup Busy]
  BY DEF SweepInv, TypeOK
<1>2. /\ worker'[w] = Idle /\ Idle.pc = "idle"
      /\ \A v \in Workers : v # w => worker'[v] = worker[v]
  BY <1>1 DEF Idle
<1> QED BY <1>1, <1>2, HolderType DEF Held

(* What a worker that sends its result changes, and what it leaves alone.  *)
LEMMA SendEffect ==
  ASSUME SweepInv, NEW w \in Workers, worker[w].pc # "idle", NEW status \in Statuses,
         Send(w, status), UNCHANGED <<exists, summary>>
  PROVE  LET c == worker[w].combo
         IN  /\ sweep' \in Working /\ worker' \in [Workers -> {Idle} \cup Busy]
             /\ worker'[w].pc = "idle" /\ \A v \in Workers : v # w => worker'[v] = worker[v]
             /\ \A i \in DOMAIN sweep'.results :
                  \/ \E j \in DOMAIN sweep.results : sweep'.results[i] = sweep.results[j]
                  \/ sweep'.results[i] = Row(c, status)
             /\ EachOnce' /\ WorkersServe' /\ HeaderOK' /\ NoRowYet' /\ OneRow'
<1> DEFINE c == worker[w].combo
           row == Row(c, status)
           old == sweep.results
           new == sweep'.results
<1>1. /\ sweep.pc = "work" /\ sweep \in Working /\ c \in Combos /\ c \in Held
      /\ c \notin sweep.queue /\ c \notin Sent
  BY HolderType
<1>2. sweep' = [sweep EXCEPT !.results = Append(old, row)]
  BY DEF Send
<1>3. /\ worker' \in [Workers -> {Idle} \cup Busy] /\ worker'[w].pc = "idle"
      /\ \A v \in Workers : v # w => worker'[v] = worker[v]
      /\ Held' = Held \ {c}
  BY StoppingHeld DEF Send
<1> HIDE DEF c
<1>4. row \in RowSet /\ row.combo = c
  BY <1>1 DEF Row, RowSet
<1>5. old \in Seq(RowSet)
  BY <1>1 DEF Working
<1>6. /\ sweep'.pc = "work" /\ sweep'.force = sweep.force /\ sweep'.queue = sweep.queue
      /\ sweep'.buffer = sweep.buffer /\ new = Append(old, row)
  BY <1>1, <1>2 DEF Working
<1> HIDE DEF row
<1>7. sweep' \in Working
  <2>1. Append(old, row) \in Seq(RowSet)
    BY <1>4, <1>5
  <2> QED BY <1>1, <1>2, <2>1 DEF Working
<1>8. new = old \o <<row>> /\ <<row>> \in Seq(RowSet)
  BY <1>4, <1>5, <1>6, AppendIsConcat
<1>9. old \in Seq(Lines) /\ <<row>> \in Seq(Lines)
  BY <1>5, <1>8, SeqMonotonic DEF Lines
<1>10. DOMAIN <<row>> = {1} /\ <<row>>[1] = row
  OBVIOUS
<1>11. CombosOf(<<row>>) = {c}
  BY <1>1, <1>4, <1>10 DEF CombosOf
<1>12. Sent' = Sent \cup {c}
  BY <1>8, <1>9, <1>11, CombosOfMore DEF Sent
<1>13. \A i \in DOMAIN new : (\E j \in DOMAIN old : new[i] = old[j]) \/ new[i] = row
  BY <1>8, <1>9, <1>10, LinesOfMore
<1>14. \A i, j \in DOMAIN new : new[i].combo = new[j].combo => i = j
  <2>1. \A i, j \in DOMAIN old : old[i].combo = old[j].combo => i = j
    BY DEF SweepInv, EachOnce
  <2>2. CombosOf(old) \cap CombosOf(<<row>>) = {}
    BY <1>1, <1>11 DEF Sent
  <2>3. \A i, j \in DOMAIN <<row>> : <<row>>[i].combo = <<row>>[j].combo => i = j
    BY <1>10
  <2> QED BY <1>8, <1>9, <2>1, <2>2, <2>3, OneRowMore
<1> HIDE DEF new, old
<1>15. EachOnce'
  BY <1>1, <1>3, <1>6, <1>12, <1>14 DEF SweepInv, EachOnce, new
<1>16. WorkersServe'
  BY <1>6 DEF WorkersServe
<1>17. HeaderOK' /\ NoRowYet' /\ OneRow'
  BY <1>1, <1>3, <1>6, <1>12, RecordStays
<1> QED BY <1>3, <1>7, <1>13, <1>15, <1>16, <1>17 DEF c, row, new, old

(* A worker takes a combo out of the queue, which nobody else has taken.   *)
LEMMA TakeStep ==
  ASSUME SweepInv, NEW w \in Workers, Take(w)
  PROVE  SweepInv'
<1> USE DEF SweepInv
<1>1. PICK c : c = FirstOf(sweep.queue)
  OBVIOUS
<1>2. /\ sweep.pc = "work" /\ sweep.queue # {} /\ worker[w].pc = "idle"
      /\ worker' = [worker EXCEPT ![w] = [pc |-> "solve", combo |-> c]]
      /\ sweep' = [sweep EXCEPT !.queue = sweep.queue \ {c}]
      /\ UNCHANGED <<json, torn, exists, summary>>
  BY <1>1 DEF Take, WorkerOnly
<1>3. sweep \in Working
  BY <1>2, SweepFields
<1>4. c \in sweep.queue /\ c \in Combos
  BY <1>1, <1>2, SweepFields, FirstOfType
<1>5. /\ sweep'.pc = "work" /\ sweep'.force = sweep.force /\ sweep'.buffer = sweep.buffer
      /\ sweep'.results = sweep.results /\ sweep'.queue = sweep.queue \ {c} /\ sweep' \in Working
  BY <1>2, <1>3 DEF Working
<1>6. worker \in [Workers -> {Idle} \cup Busy]
  BY DEF TypeOK
<1>7. /\ worker'[w].pc = "solve" /\ worker'[w].combo = c
      /\ \A v \in Workers : v # w => worker'[v] = worker[v]
      /\ worker' \in [Workers -> {Idle} \cup Busy]
  BY <1>2, <1>4, <1>6 DEF Busy
<1>8. Held' = Held \cup {c}
  BY <1>2, <1>7 DEF Held
<1>9. Sent' = Sent
  BY <1>5 DEF Sent
<1>10. TypeOK'
  BY <1>2, <1>5, <1>7 DEF TypeOK, Sweeps
<1>11. \A v \in Workers : v # w /\ worker'[v].pc # "idle" => worker'[v].combo # c
  BY <1>4, <1>7 DEF EachOnce, Held
<1>12. EachOnce'
  <2>1. sweep'.queue \cap Held' = {} /\ sweep'.queue \cap Sent' = {} /\ Held' \cap Sent' = {}
    BY <1>4, <1>5, <1>8, <1>9 DEF EachOnce
  <2>2. \A u, v \in Workers :
          worker'[u].pc # "idle" /\ worker'[v].pc # "idle" /\ worker'[u].combo = worker'[v].combo
          => u = v
    BY <1>7, <1>11 DEF EachOnce
  <2> QED BY <1>5, <2>1, <2>2 DEF EachOnce
<1>13. WorkersServe' /\ ResultsOK' /\ OkIsSolved'
  BY <1>2, <1>5 DEF WorkersServe, ResultsOK, OkIsSolved, Solved
<1>14. HeaderOK' /\ NoRowYet' /\ OneRow'
  BY <1>2, <1>4, <1>5, <1>8, <1>9, RecordStays
<1>15. FilesOK'
  BY <1>2, <1>7 DEF FilesOK
<1> QED BY <1>10, <1>12, <1>13, <1>14, <1>15

(* Nothing is opened: a result without a schedule is none that says OK.    *)
LEMMA EndEarlyStep ==
  ASSUME SweepInv, NEW w \in Workers, EndEarly(w)
  PROVE  SweepInv'
<1> USE DEF SweepInv
<1>1. /\ worker[w].pc = "solve" /\ UNCHANGED <<json, torn, exists, summary>>
      /\ \E status \in {"SKIPPED", "INFEASIBLE", "ERROR"} : Send(w, status)
  BY DEF EndEarly, WorkerOnly
<1>2. PICK status \in {"SKIPPED", "INFEASIBLE", "ERROR"} : Send(w, status)
  BY <1>1
<1>3. status \in Statuses /\ status # "OK"
  BY DEF Statuses
<1> DEFINE c == worker[w].combo
<1>4. /\ sweep' \in Working /\ worker' \in [Workers -> {Idle} \cup Busy]
      /\ worker'[w].pc = "idle" /\ \A v \in Workers : v # w => worker'[v] = worker[v]
      /\ \A i \in DOMAIN sweep'.results :
           \/ \E j \in DOMAIN sweep.results : sweep'.results[i] = sweep.results[j]
           \/ sweep'.results[i] = Row(c, status)
      /\ EachOnce' /\ WorkersServe' /\ HeaderOK' /\ NoRowYet' /\ OneRow'
  BY <1>1, <1>2, <1>3, SendEffect
<1>5. TypeOK'
  BY <1>1, <1>4 DEF TypeOK, Sweeps
<1>6. FilesOK'
  BY <1>1, <1>4 DEF FilesOK
<1>7. ResultsOK' /\ OkIsSolved'
  BY <1>1, <1>3, <1>4 DEF ResultsOK, OkIsSolved, Solved, Row
<1> QED BY <1>4, <1>5, <1>6, <1>7

(* A schedule is opened only where no row, and no result, says OK of it.   *)
LEMMA OpenScheduleStep ==
  ASSUME SweepInv, NEW w \in Workers, OpenSchedule(w)
  PROVE  SweepInv'
<1> USE DEF SweepInv
<1>1. PICK c : c = worker[w].combo
  OBVIOUS
<1>2. /\ worker[w].pc = "solve"
      /\ sweep.force \/ json[c] = "missing"
      /\ json' = [json EXCEPT ![c] = "partial"]
      /\ worker' = [worker EXCEPT ![w].pc = "write"]
      /\ torn' = torn \ {c}
      /\ UNCHANGED <<sweep, exists, summary>>
  BY <1>1 DEF OpenSchedule, WorkerOnly, MustSolve
<1>3. /\ sweep.pc = "work" /\ worker[w] \in Busy /\ c \in Combos
      /\ c \in Held /\ c \notin Sent
      /\ \A v \in Workers : v # w /\ worker[v].pc # "idle" => worker[v].combo # c
  <2>1. worker[w].pc # "idle"
    BY <1>2
  <2> QED BY <1>1, <2>1, HolderType
<1>4. /\ json' \in [Combos -> {"missing", "partial", "whole"}] /\ json'[c] = "partial"
      /\ \A d \in Combos : d # c => json'[d] = json[d]
  BY <1>2, <1>3 DEF TypeOK
<1>5. worker \in [Workers -> {Idle} \cup Busy]
  BY DEF TypeOK
<1>6. /\ worker' \in [Workers -> {Idle} \cup Busy]
      /\ worker'[w].pc = "write" /\ worker'[w].combo = c
      /\ \A v \in Workers : v # w => worker'[v] = worker[v]
  <2>1. [worker[w] EXCEPT !.pc = "write"] \in Busy
    BY <1>3 DEF Busy
  <2>2. /\ [worker[w] EXCEPT !.pc = "write"].pc = "write"
        /\ [worker[w] EXCEPT !.pc = "write"].combo = worker[w].combo
    BY <1>3 DEF Busy
  <2>3. worker' = [worker EXCEPT ![w] = [worker[w] EXCEPT !.pc = "write"]]
    BY <1>2
  <2> QED BY <1>1, <1>5, <2>1, <2>2, <2>3
<1>7. TypeOK'
  BY <1>2, <1>4, <1>6 DEF TypeOK
<1>16. \A v \in Workers : /\ worker'[v].pc # "idle" <=> worker[v].pc # "idle"
                          /\ worker'[v].combo = worker[v].combo
  <2> TAKE v \in Workers
  <2>1. CASE v = w
    BY <1>1, <1>2, <1>6, <2>1
  <2>2. CASE v # w
    BY <1>6, <2>2
  <2> QED BY <2>1, <2>2
<1>8. Held' = Held
  BY <1>16 DEF Held
<1>9. Sent' = Sent
  BY <1>2 DEF Sent
<1>10. EachOnce' /\ WorkersServe'
  BY <1>2, <1>3, <1>8, <1>9, <1>16 DEF EachOnce, WorkersServe
<1>11. HeaderOK' /\ NoRowYet' /\ OneRow'
  BY <1>2, <1>3, <1>8, <1>9, RecordStays
<1>12. FilesOK'
  <2>1. \A v \in Workers : worker'[v].pc = "write" =>
          json'[worker'[v].combo] = "partial" /\ worker'[v].combo \notin torn'
    <3> TAKE v \in Workers
    <3>1. CASE v = w
      BY <1>2, <1>4, <1>6, <3>1
    <3>2. CASE v # w
      <4>1. worker[v].pc = "write" => worker[v].combo \in Combos
        BY <1>5 DEF Idle, Busy
      <4> QED BY <1>2, <1>3, <1>4, <1>6, <3>2, <4>1 DEF FilesOK
    <3> QED BY <3>1, <3>2
  <2>2. \A d \in torn' : json'[d] = "partial"
    BY <1>2, <1>4 DEF FilesOK, TypeOK
  <2>3. \A d \in Combos : json'[d] = "partial" =>
          d \in torn' \/ \E v \in Workers : worker'[v].pc = "write" /\ worker'[v].combo = d
    <3> SUFFICES ASSUME NEW d \in Combos, d # c, json'[d] = "partial", d \notin torn
                 PROVE  \E v \in Workers : worker'[v].pc = "write" /\ worker'[v].combo = d
      BY <1>2, <1>6
    <3>1. PICK v \in Workers : worker[v].pc = "write" /\ worker[v].combo = d
      BY <1>4 DEF FilesOK
    <3> QED BY <1>2, <1>6, <3>1
  <2> QED BY <2>1, <2>2, <2>3 DEF FilesOK
<1>13. \A d \in Combos : d # c /\ Solved(d) => Solved(d)'
  BY <1>2, <1>4 DEF Solved
<1>14. ResultsOK'
  <2> SUFFICES ASSUME NEW i \in DOMAIN sweep.results, sweep.results[i].status = "OK"
               PROVE  Solved(sweep.results[i].combo)'
    BY <1>2 DEF ResultsOK
  <2>1. sweep.results[i] \in RowSet
    BY SweepFields
  <2>2. sweep.results[i].combo \in Combos /\ sweep.results[i].combo \in Sent
    BY <2>1 DEF RowSet, Sent, CombosOf
  <2> QED BY <1>2, <1>3, <1>13, <2>2 DEF ResultsOK, Solved
<1>15. OkIsSolved'
  <2> SUFFICES ASSUME NEW i \in DOMAIN summary, summary[i].status = "OK"
               PROVE  Solved(summary[i].combo)'
    BY <1>2 DEF OkIsSolved, Solved
  <2>1. Solved(summary[i].combo)
    BY DEF OkIsSolved, Solved
  <2>2. summary[i].combo \in Combos /\ summary[i].combo \in Recorded
    <3>1. summary[i] \in Lines
      BY DEF TypeOK
    <3>2. summary[i] \in RowSet
      BY <3>1, HeaderIsNoRow DEF Lines
    <3> QED BY <3>2 DEF RowSet, Recorded, CombosOf
  <2>3. summary[i].combo # c
    <3>1. CASE json[c] = "missing"
      <4>1. ~Solved(c)
        BY <1>4, <3>1 DEF FilesOK, Solved
      <4> QED BY <2>1, <4>1
    <3>2. CASE sweep.force
      <4>1. Headed \/ summary = <<>>
        BY <1>3, <3>2 DEF HeaderOK
      <4>2. summary # <<>>
        OBVIOUS
      <4> QED BY <1>3, <2>2, <4>1, <4>2 DEF NoRowYet
    <3> QED BY <1>2, <3>1, <3>2
  <2> QED BY <1>2, <1>13, <2>1, <2>2, <2>3 DEF Solved
<1> QED BY <1>7, <1>10, <1>11, <1>12, <1>14, <1>15

(* The schedule of a combo is whole on disk before its result is sent.     *)
LEMMA CloseScheduleStep ==
  ASSUME SweepInv, NEW w \in Workers, CloseSchedule(w)
  PROVE  SweepInv'
<1> USE DEF SweepInv
<1>0. PICK c : c = worker[w].combo
  OBVIOUS
<1>1. /\ worker[w].pc = "write" /\ UNCHANGED <<torn, exists, summary>>
      /\ json' = [json EXCEPT ![c] = "whole"] /\ Send(w, "OK")
  BY <1>0 DEF CloseSchedule, WorkerOnly
<1>2. "OK" \in Statuses
  BY DEF Statuses
<1>3. /\ sweep' \in Working /\ worker' \in [Workers -> {Idle} \cup Busy]
      /\ worker'[w].pc = "idle" /\ \A v \in Workers : v # w => worker'[v] = worker[v]
      /\ \A i \in DOMAIN sweep'.results :
           \/ \E j \in DOMAIN sweep.results : sweep'.results[i] = sweep.results[j]
           \/ sweep'.results[i] = Row(c, "OK")
      /\ EachOnce' /\ WorkersServe' /\ HeaderOK' /\ NoRowYet' /\ OneRow'
  BY <1>0, <1>1, <1>2, SendEffect
<1>4. /\ c \in Combos
      /\ \A v \in Workers : v # w /\ worker[v].pc # "idle" => worker[v].combo # c
  BY <1>0, <1>1, HolderType
<1>5. /\ json' \in [Combos -> {"missing", "partial", "whole"}] /\ json'[c] = "whole"
      /\ \A d \in Combos : d # c => json'[d] = json[d]
  BY <1>1, <1>4 DEF TypeOK
<1>6. TypeOK'
  BY <1>1, <1>3, <1>5 DEF TypeOK, Sweeps
<1>7. c \notin torn
  BY <1>0, <1>1 DEF FilesOK
<1>8. FilesOK'
  <2>1. \A v \in Workers : worker'[v].pc = "write" =>
          json'[worker'[v].combo] = "partial" /\ worker'[v].combo \notin torn'
    <3> SUFFICES ASSUME NEW v \in Workers, v # w, worker[v].pc = "write"
                 PROVE  json'[worker[v].combo] = "partial" /\ worker[v].combo \notin torn
      BY <1>1, <1>3
    <3>1. worker[v].combo \in Combos /\ worker[v].combo # c
      BY <1>4 DEF TypeOK, Idle, Busy
    <3> QED BY <1>5, <3>1 DEF FilesOK
  <2>2. \A d \in torn' : json'[d] = "partial"
    BY <1>1, <1>5, <1>7 DEF FilesOK, TypeOK
  <2>3. \A d \in Combos : json'[d] = "partial" =>
          d \in torn' \/ \E v \in Workers : worker'[v].pc = "write" /\ worker'[v].combo = d
    <3> SUFFICES ASSUME NEW d \in Combos, json'[d] = "partial", d \notin torn
                 PROVE  \E v \in Workers : worker'[v].pc = "write" /\ worker'[v].combo = d
      BY <1>1
    <3>1. d # c
      BY <1>5
    <3>2. PICK v \in Workers : worker[v].pc = "write" /\ worker[v].combo = d
      BY <1>5, <3>1 DEF FilesOK
    <3>3. v # w
      BY <1>0, <3>1, <3>2
    <3> QED BY <1>3, <3>2, <3>3
  <2> QED BY <2>1, <2>2, <2>3 DEF FilesOK
<1>9. \A d : d \in Combos /\ Solved(d) => Solved(d)'
  BY <1>1, <1>5 DEF Solved
<1>10. \A i \in DOMAIN sweep.results : sweep.results[i].combo \in Combos
  <2>1. \A i \in DOMAIN sweep.results : sweep.results[i] \in RowSet
    BY SweepFields
  <2> QED BY <2>1 DEF RowSet
<1>11. \A i \in DOMAIN summary : summary[i].status = "OK" => summary[i].combo \in Combos
  BY HeaderIsNoRow DEF TypeOK, Lines
<1>12. ResultsOK'
  <2>1. Solved(c)'
    BY <1>5 DEF Solved
  <2> QED BY <1>3, <1>9, <1>10, <2>1 DEF ResultsOK, Row, Solved
<1>13. OkIsSolved'
  BY <1>1, <1>9, <1>11 DEF OkIsSolved, Solved
<1> QED BY <1>3, <1>6, <1>8, <1>12, <1>13

(* What a worker leaves cut short when it stops is known to be cut short.  *)
LEMMA TearingFiles ==
  ASSUME SweepInv, NEW w \in Workers, worker[w].pc # "idle",
         worker'[w].pc = "idle", \A v \in Workers : v # w => worker'[v] = worker[v],
         json' = json, torn' = torn \cup Tear(w)
  PROVE  /\ FilesOK' /\ torn' \subseteq Combos
         /\ \A c : Solved(c) => json'[c] = "whole" \/ c \in torn'
<1> USE DEF SweepInv
<1>1. worker[w].combo \in Combos
  BY HolderType
<1>2. torn \subseteq torn' /\ torn' \subseteq Combos
  BY <1>1 DEF Tear, TypeOK
<1>3. \A v \in Workers : worker'[v].pc = "write" =>
        json'[worker'[v].combo] = "partial" /\ worker'[v].combo \notin torn'
  <2> SUFFICES ASSUME NEW v \in Workers, v # w, worker[v].pc = "write"
               PROVE  json[worker[v].combo] = "partial" /\ worker[v].combo \notin torn'
    OBVIOUS
  <2>1. worker[v].pc # "idle"
    OBVIOUS
  <2>2. worker[v].combo # worker[w].combo
    BY <2>1, HolderType
  <2> QED BY <2>2 DEF FilesOK, Tear
<1>4. \A c \in torn' : json'[c] = "partial"
  BY DEF FilesOK, Tear
<1>5. \A c \in Combos : json'[c] = "partial" =>
        c \in torn' \/ \E v \in Workers : worker'[v].pc = "write" /\ worker'[v].combo = c
  <2> SUFFICES ASSUME NEW c \in Combos, json[c] = "partial", c \notin torn'
               PROVE  \E v \in Workers : worker'[v].pc = "write" /\ worker'[v].combo = c
    OBVIOUS
  <2>1. PICK v \in Workers : worker[v].pc = "write" /\ worker[v].combo = c
    BY <1>2 DEF FilesOK
  <2>2. v # w
    BY <2>1 DEF Tear
  <2> QED BY <2>1, <2>2
<1> QED BY <1>2, <1>3, <1>4, <1>5 DEF FilesOK, Solved

(* A schedule that cannot be written is reported as an error.              *)
LEMMA WriteFailsStep ==
  ASSUME SweepInv, NEW w \in Workers, WriteFails(w)
  PROVE  SweepInv'
<1> USE DEF SweepInv
<1>0. PICK c : c = worker[w].combo
  OBVIOUS
<1>1. /\ worker[w].pc = "write"
      /\ UNCHANGED <<json, exists, summary>>
      /\ torn' = torn \cup Tear(w) /\ Send(w, "ERROR")
  BY DEF WriteFails, WorkerOnly
<1>2. "ERROR" \in Statuses /\ worker[w].pc # "idle"
  BY <1>1 DEF Statuses
<1>3. /\ sweep' \in Working /\ worker' \in [Workers -> {Idle} \cup Busy]
      /\ worker'[w].pc = "idle" /\ \A v \in Workers : v # w => worker'[v] = worker[v]
      /\ \A i \in DOMAIN sweep'.results :
           \/ \E j \in DOMAIN sweep.results : sweep'.results[i] = sweep.results[j]
           \/ sweep'.results[i] = Row(c, "ERROR")
      /\ EachOnce' /\ WorkersServe' /\ HeaderOK' /\ NoRowYet' /\ OneRow'
  BY <1>0, <1>1, <1>2, SendEffect
<1>4. FilesOK' /\ (\A d : Solved(d) => json'[d] = "whole" \/ d \in torn') /\ torn' \subseteq Combos
  BY <1>1, <1>2, <1>3, TearingFiles
<1>5. TypeOK'
  BY <1>1, <1>3, <1>4 DEF TypeOK, Sweeps
<1>6. ResultsOK'
  BY <1>3, <1>4 DEF ResultsOK, Solved, Row
<1>7. OkIsSolved'
  BY <1>1, <1>4 DEF OkIsSolved, Solved
<1> QED BY <1>3, <1>4, <1>5, <1>6, <1>7

(* A worker killed half way leaves a torn schedule and no result.          *)
LEMMA KillWorkerStep ==
  ASSUME SweepInv, NEW w \in Workers, KillWorker(w)
  PROVE  SweepInv'
<1> USE DEF SweepInv
<1>1. /\ worker[w].pc # "idle"
      /\ worker' = [worker EXCEPT ![w] = Idle]
      /\ sweep' = [sweep EXCEPT !.lost = TRUE]
      /\ torn' = torn \cup Tear(w)
      /\ UNCHANGED <<json, exists, summary>>
  BY DEF KillWorker
<1>2. sweep.pc = "work" /\ sweep \in Working
  BY <1>1, HolderType
<1>3. /\ worker' \in [Workers -> {Idle} \cup Busy]
      /\ worker'[w].pc = "idle" /\ \A v \in Workers : v # w => worker'[v] = worker[v]
      /\ Held' = Held \ {worker[w].combo}
  BY <1>1, StoppingHeld
<1>4. /\ sweep'.pc = "work" /\ sweep'.force = sweep.force /\ sweep'.queue = sweep.queue
      /\ sweep'.buffer = sweep.buffer /\ sweep'.results = sweep.results /\ sweep' \in Working
  BY <1>1, <1>2 DEF Working
<1>5. FilesOK' /\ (\A d : Solved(d) => json'[d] = "whole" \/ d \in torn') /\ torn' \subseteq Combos
  BY <1>1, <1>3, TearingFiles
<1>6. TypeOK'
  BY <1>1, <1>3, <1>4, <1>5 DEF TypeOK, Sweeps
<1>7. Sent' = Sent
  BY <1>4 DEF Sent
<1>8. EachOnce' /\ WorkersServe'
  BY <1>3, <1>4, <1>7 DEF EachOnce, WorkersServe
<1>9. HeaderOK' /\ NoRowYet' /\ OneRow'
  BY <1>1, <1>2, <1>3, <1>4, <1>7, RecordStays
<1>10. ResultsOK' /\ OkIsSolved'
  BY <1>1, <1>4, <1>5 DEF ResultsOK, OkIsSolved, Solved
<1> QED BY <1>5, <1>6, <1>8, <1>9, <1>10

(* With the whole job goes what it had not recorded.                       *)
LEMMA KillSweepStep ==
  ASSUME SweepInv, KillSweep
  PROVE  SweepInv'
<1> USE DEF SweepInv
<1>1. /\ sweep' = Off /\ worker' = [w \in Workers |-> Idle]
      /\ torn' = torn \cup UNION {Tear(w) : w \in Workers}
      /\ UNCHANGED <<json, exists, summary>>
  BY DEF KillSweep
<1>2. /\ Off.pc = "off" /\ Off.queue = {} /\ Off.buffer = <<>> /\ Off.results = <<>>
      /\ Idle.pc = "idle"
  BY DEF Off, Idle
<1>3. \A w \in Workers : Tear(w) \subseteq Combos /\ \A c \in Tear(w) : json[c] = "partial"
  <2> TAKE w \in Workers
  <2>1. worker[w].pc = "write" => worker[w].combo \in Combos
    BY DEF TypeOK, Idle, Busy
  <2> QED BY <2>1 DEF Tear, FilesOK
<1>4. torn' \subseteq Combos /\ torn \subseteq torn' /\ \A c \in torn' : json[c] = "partial"
  BY <1>1, <1>3 DEF TypeOK, FilesOK
<1>5. \A w \in Workers : worker'[w] = Idle
  BY <1>1
<1>6. TypeOK'
  BY <1>1, <1>4 DEF TypeOK, Sweeps
<1>7. Held' = {} /\ AllIdle'
  BY <1>2, <1>5 DEF Held, AllIdle
<1>8. Sent' = {}
  BY <1>1, <1>2 DEF Sent, CombosOf
<1>9. EachOnce' /\ WorkersServe' /\ ResultsOK'
  BY <1>1, <1>2, <1>5, <1>7, <1>8 DEF EachOnce, WorkersServe, ResultsOK
<1>10. FilesOK'
  <2>1. \A c \in Combos : json'[c] = "partial" => c \in torn'
    <3> SUFFICES ASSUME NEW c \in Combos, json[c] = "partial", c \notin torn PROVE c \in torn'
      BY <1>1, <1>4
    <3>1. PICK w \in Workers : worker[w].pc = "write" /\ worker[w].combo = c
      BY DEF FilesOK
    <3>2. c \in Tear(w)
      BY <3>1 DEF Tear
    <3> QED BY <1>1, <3>2
  <2> QED BY <1>1, <1>2, <1>4, <1>5, <2>1 DEF FilesOK
<1>11. HeaderOK' /\ NoRowYet' /\ OneRow'
  BY <1>1, <1>2 DEF HeaderOK, NoRowYet, OneRow, Headed
<1>12. OkIsSolved'
  BY <1>1, <1>4 DEF OkIsSolved
<1> QED BY <1>6, <1>9, <1>10, <1>11, <1>12

-----------------------------------------------------------------------------
(* The invariant, and what follows from it.                                *)

(* No file, no record, no process. *)
LEMMA InitHolds ==
  ASSUME Init
  PROVE  SweepInv
<1>1. /\ json = [c \in Combos |-> "missing"] /\ exists = FALSE /\ summary = <<>> /\ sweep = Off
      /\ worker = [w \in Workers |-> Idle] /\ torn = {}
  BY DEF Init
<1>2. /\ Off.pc = "off" /\ Off.queue = {} /\ Off.buffer = <<>> /\ Off.results = <<>>
      /\ Idle.pc = "idle"
  BY DEF Off, Idle
<1>3. <<>> \in Seq(Lines)
  OBVIOUS
<1>4. TypeOK
  BY <1>1, <1>3 DEF TypeOK, Sweeps
<1>5. \A w \in Workers : worker[w] = Idle
  BY <1>1
<1>6. Held = {} /\ AllIdle
  BY <1>2, <1>5 DEF Held, AllIdle
<1>7. Sent = {}
  BY <1>1, <1>2 DEF Sent, CombosOf
<1>8. EachOnce /\ WorkersServe /\ ResultsOK
  BY <1>1, <1>2, <1>5, <1>6, <1>7 DEF EachOnce, WorkersServe, ResultsOK
<1>9. FilesOK
  BY <1>1, <1>2, <1>5 DEF FilesOK
<1>10. HeaderOK /\ NoRowYet /\ OneRow /\ OkIsSolved
  BY <1>1, <1>2 DEF HeaderOK, NoRowYet, OneRow, Headed, OkIsSolved
<1> QED BY <1>4, <1>6, <1>8, <1>9, <1>10 DEF SweepInv

(* No step of anybody makes the record false.                              *)
LEMMA StepHolds ==
  ASSUME SweepInv, [Next]_vars
  PROVE  SweepInv'
<1>1. CASE UNCHANGED vars
  BY <1>1 DEF vars, SweepInv, TypeOK, WorkersServe, AllIdle, EachOnce, Held, Sent, HeaderOK,
              Headed, NoRowYet, Recorded, OneRow, FilesOK, ResultsOK, Solved, OkIsSolved
<1>2. CASE \/ \E force \in BOOLEAN : Start(force)
           \/ CannotResume \/ Finish \/ TimeLimit
  <2>1. /\ UNCHANGED <<json, worker, torn, exists, summary>>
        /\ sweep' = Off \/ (\E force \in BOOLEAN : Start(force))
    BY <1>2 DEF Start, CannotResume, Finish, TimeLimit, ParentOnly
  <2>2. AllIdle
    BY <1>2 DEF Start, CannotResume, Finish, TimeLimit, Drained, SweepInv, WorkersServe
  <2> QED BY <2>1, <2>2, SweepRests
<1>3. CASE Reconcile \/ OpenSummary \/ RecordResult \/ KillSweep
  BY <1>3, ReconcileStep, OpenSummaryStep, RecordResultStep, KillSweepStep
<1>4. ASSUME NEW w \in Workers, StepWorker(w) \/ WriteFails(w) \/ KillWorker(w) PROVE SweepInv'
  BY <1>4, TakeStep, EndEarlyStep, OpenScheduleStep, CloseScheduleStep, WriteFailsStep,
     KillWorkerStep DEF StepWorker
<1> QED BY <1>1, <1>2, <1>3, <1>4 DEF Next, StepParent

(* Every reachable state satisfies it.                                     *)
LEMMA SweepCorrect == Spec => []SweepInv
BY InitHolds, StepHolds, PTL DEF Spec

(* The sweep's processes, files and record are always as described above.  *)
THEOREM TypeCorrect == Spec => []TypeOK
<1>1. SweepInv => TypeOK
  BY DEF SweepInv
<1> QED BY <1>1, SweepCorrect, PTL

(* With its header in place summary.csv has one row per combo at most, and *)
(* says OK only of a schedule that is whole on disk, or was cut short.     *)
THEOREM RecordCorrect == Spec => []RecordIsTrue
<1>1. SweepInv => RecordIsTrue
  <2> SUFFICES ASSUME SweepInv PROVE RecordIsTrue
    OBVIOUS
  <2>1. ASSUME Headed, NEW c \in Combos PROVE Cardinality(RowsOf(c)) <= 1
    <3> DEFINE R == RowsOf(c)
    <3>1. \A i, j \in R : i = j
      BY <2>1 DEF RowsOf, SweepInv, OneRow
    <3> HIDE DEF R
    <3>2. CASE R = {}
      <4>1. Cardinality(R) = 0
        BY <3>2, FS_EmptySet
      <4> QED BY <4>1 DEF R
    <3>3. CASE R # {}
      <4>1. PICK i : R = {i}
        BY <3>1, <3>3
      <4>2. Cardinality({i}) = 1
        BY FS_Singleton
      <4>3. Cardinality(R) = 1
        BY <4>1, <4>2
      <4> QED BY <4>3 DEF R
    <3> QED BY <3>2, <3>3
  <2> QED BY <2>1 DEF RecordIsTrue, OneRowEach, SweepInv
<1> QED BY <1>1, SweepCorrect, PTL

(* summary.csv is only ever appended to, through kills and resumes, unless *)
(* a run with --force opens it.                                            *)
THEOREM RowsCorrect == Spec => RowsSurvive
<1> DEFINE Survive == (sweep.pc = "open" /\ sweep.force) \/ IsPrefix(summary, summary')
<1>1. SweepInv /\ [Next]_vars => [Survive]_vars
  <2> SUFFICES ASSUME SweepInv, [Next]_vars PROVE Survive
    OBVIOUS
  <2>1. summary \in Seq(Lines)
    BY DEF SweepInv, TypeOK
  <2>2. ASSUME summary' = summary PROVE Survive
    BY <2>1, <2>2, SubSeqFull, LenProperties DEF IsPrefix
  <2>3. ASSUME NEW t \in Seq(Lines), summary' = summary \o t PROVE Survive
    <3>1. PICK m \in Nat, n \in Nat : m = Len(summary) /\ n = Len(t)
      BY <2>1, LenProperties
    <3>2. Len(summary \o t) = m + n
      BY <2>1, <3>1, ConcatProperties
    <3>3. SubSeq(summary \o t, 1, m) = SubSeq(summary, 1, m)
      <4>1. CASE m = 0
        <5>1. m < 1
          BY <4>1
        <5> QED BY <5>1, SubSeqEmpty
      <4>2. CASE m # 0
        <5>1. 1 \in 1 .. Len(summary) /\ m \in 1 .. Len(summary)
          BY <3>1, <4>2
        <5> QED BY <2>1, <5>1, SubSeqOfConcat1
      <4> QED BY <4>1, <4>2
    <3>4. m <= m + n
      OBVIOUS
    <3> QED BY <2>3, <3>1, <3>2, <3>3, <3>4 DEF IsPrefix
  <2>4. CASE OpenSummary
    <3>1. CASE Truncates
      <4>1. sweep.force \/ summary = <<>>
        BY <3>1 DEF Truncates, SweepInv, HeaderOK
      <4>2. summary' = <<>> /\ sweep.pc = "open"
        BY <2>4, <3>1 DEF OpenSummary
      <4> QED BY <2>2, <4>1, <4>2
    <3>2. CASE ~Truncates
      BY <2>2, <2>4, <3>2 DEF OpenSummary
    <3> QED BY <3>1, <3>2
  <2>5. CASE Reconcile
    <3>1. summary' = summary \o RecoveredRows
      BY <2>5 DEF Reconcile
    <3>2. RecoveredRows \in Seq(Lines)
      <4>1. CASE RecoveredRows = <<>>
        BY <4>1
      <4>2. ASSUME NEW rows \in Seq(RowSet),
                   RecoveredRows = IF exists THEN rows ELSE <<Header>> \o rows
            PROVE  RecoveredRows \in Seq(Lines)
        <5>1. rows \in Seq(Lines) /\ Header \in Lines
          BY SeqMonotonic DEF Lines
        <5>2. <<Header>> \in Seq(Lines)
          BY <5>1, ShortLists
        <5> QED BY <4>2, <5>1, <5>2, LinesOfMore
      <4> QED BY <4>1, <4>2, RecoveredLines DEF SweepInv
    <3> QED BY <2>3, <3>1, <3>2
  <2>6. CASE RecordResult
    <3>1. /\ summary' = summary \o Append(sweep.buffer, Head(sweep.results))
          /\ sweep.results # <<>>
      BY <2>6 DEF RecordResult
    <3>2. sweep.buffer \in Seq(Lines) /\ sweep.results \in Seq(RowSet)
      <4>1. <<>> \in Seq(Lines) /\ Header \in Lines
        BY DEF Lines
      <4>2. <<Header>> \in Seq(Lines)
        BY <4>1, ShortLists
      <4> QED BY <4>1, <4>2, SweepFields DEF SweepInv
    <3>3. Head(sweep.results) \in Lines
      BY <3>1, <3>2, HeadTailProperties DEF Lines
    <3>4. Append(sweep.buffer, Head(sweep.results)) \in Seq(Lines)
      BY <3>2, <3>3, AppendProperties
    <3> QED BY <2>3, <3>1, <3>4
  <2>7. CASE \/ UNCHANGED vars \/ (\E force \in BOOLEAN : Start(force))
             \/ CannotResume \/ Finish \/ TimeLimit \/ KillSweep
             \/ \E w \in Workers : StepWorker(w) \/ WriteFails(w) \/ KillWorker(w)
    <3>1. summary' = summary
      BY <2>7 DEF vars, Start, CannotResume, Finish, TimeLimit, KillSweep, StepWorker, WriteFails,
                  KillWorker, Take, EndEarly, OpenSchedule, CloseSchedule, WorkerOnly
    <3> QED BY <2>2, <3>1
  <2> QED BY <2>4, <2>5, <2>6, <2>7 DEF Next, StepParent
<1> QED BY <1>1, SweepCorrect, PTL DEF Spec, RowsSurvive
=============================================================================
