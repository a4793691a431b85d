------------------------ MODULE TracePipelineProofs ------------------------
(***************************************************************************)
(* Proofs about the generate-once pipeline, for every list of layers, set  *)
(* of samples, number of runs and workers, and every bound.                *)
(***************************************************************************)
EXTENDS TracePipelineProps, SequenceTheorems, NestLemmas

-----------------------------------------------------------------------------
(* The states of the processes.  Each set of records says what is settled  *)
(* at that point of the program: a batch is cut before it is saved, and    *)
(* a schedule is loaded before anything is made from it.                   *)

Contents == Versions \cup {Missing, Partial}

Tasks == [layer : Layers, samples : SUBSET Samples]

SolverResting == [pc : {"off", "next"}, left : Seq(Layers), force : BOOLEAN]

SolverWriting == [pc : {"write"}, left : Seq(Layers) \ {<<>>}, force : BOOLEAN]

Solvers == SolverResting \cup SolverWriting

OneLoading ==
  [pc : {"load"}, mode : {"one"}, pass : {1}, layer : Layers, todo : SUBSET Samples,
   version : {Missing}, queue : {<<>>}, lost : {FALSE}, broken : {FALSE},
   failed : {{}}, hurt : {{}}, sunk : {{}}]

OneWorking ==
  [pc : {"work"}, mode : {"one"}, pass : {1}, layer : Layers, todo : SUBSET Samples,
   version : Versions, queue : Seq(Tasks), lost : BOOLEAN, broken : {FALSE},
   failed : SUBSET Layers, hurt : SUBSET Layers, sunk : {{}}]

AllWorking ==
  [pc : {"work"}, mode : {"all"}, pass : {1, 2}, layer : {LayerList[1]}, todo : {{}},
   version : {Missing}, queue : Seq(Tasks), lost : {FALSE}, broken : BOOLEAN,
   failed : SUBSET Layers, hurt : SUBSET Layers, sunk : SUBSET Layers]

Parents == {RunOff} \cup OneLoading \cup OneWorking \cup AllWorking

WorkerLoading ==
  [pc : {"load"}, layer : Layers, left : (SUBSET Samples) \ {{}}, batch : {{}},
   version : Versions \cup {Missing}, id : TempIds]

WorkerReady ==
  [pc : {"reconstruct"}, layer : Layers, left : (SUBSET Samples) \ {{}}, batch : {{}},
   version : Versions, id : TempIds]

WorkerSaving ==
  [pc : {"save", "write", "replace"}, layer : Layers, left : SUBSET Samples,
   batch : (SUBSET Samples) \ {{}}, version : Versions, id : TempIds]

WorkerStates == {Idle} \cup WorkerLoading \cup WorkerReady \cup WorkerSaving

Processes == Runs \X Workers

TypeOK ==
  /\ schedule \in [Layers -> Contents]
  /\ trace \in [Traces -> Contents]
  /\ temp \in [Layers \X Samples \X TempIds -> Contents]
  /\ solver \in Solvers
  /\ run \in [Runs -> Parents]
  /\ worker \in [Processes -> WorkerStates]
  /\ solver.pc = "write" => solves \in Versions
  /\ solves \in 0 .. MaxSolves /\ errors \in Nat /\ kills \in Nat
  /\ resolved \subseteq Layers
  /\ reported \subseteq Traces

(* A worker is busy for its run only: with the run's layer, if it has one. *)
EmployedOK ==
  \A r \in Runs, w \in Workers :
    worker[<<r, w>>].pc # "idle" =>
      /\ run[r].pc = "work"
      /\ run[r].mode = "one" =>
           worker[<<r, w>>].pc # "load" /\ worker[<<r, w>>].layer = run[r].layer
      /\ run[r].broken => worker[<<r, w>>].layer \in run[r].failed

(* The tasks of a run are about its layer, or the whole samples of a pass. *)
QueuesOK ==
  \A r \in Runs :
    /\ \A i \in DOMAIN run[r].queue :
         IF run[r].mode = "one" THEN run[r].queue[i].layer = run[r].layer
         ELSE run[r].queue[i].samples = PassSamples(run[r].pass)
    /\ run[r].broken => run[r].queue = <<>>

(* A temporary file has one owner, who finds in it what he wrote.          *)
TempsOK ==
  /\ \A q, r \in Runs, v, w \in Workers :
       Writing(q, v) /\ Writing(r, w) /\ TempFile(q, v) = TempFile(r, w) => q = r /\ v = w
  /\ \A r \in Runs, w \in Workers :
       /\ Writing(r, w) => temp[TempFile(r, w)] # Missing
       /\ worker[<<r, w>>].pc = "replace" =>
            temp[TempFile(r, w)] = worker[<<r, w>>].version

TracesComplete == \A t \in Traces : trace[t] # Partial

(* Everything made, or about to be made, from a schedule is made from the  *)
(* schedule that is there.                                                 *)
Agrees(v, l) == l \in resolved \/ schedule[l] = v

SchedulesOK ==
  /\ OneScheduleByLayer
  /\ \A p \in Processes :
       worker[p].pc \notin {"idle", "load"} => Agrees(worker[p].version, worker[p].layer)
  /\ \A r \in Runs :
       run[r].version # Missing => Agrees(run[r].version, run[r].layer)
  /\ solver.pc = "write" => Agrees(Partial, Head(solver.left))

(* The samples somebody is still going to make.                            *)
QueuedWork(r) ==
  UNION {{run[r].queue[i].layer} \X run[r].queue[i].samples : i \in DOMAIN run[r].queue}

HeldWork(r) == UNION {Work(r, w) : w \in Workers}

Pending(r) == QueuedWork(r) \cup HeldWork(r)

Present == {t \in Traces : trace[t] # Missing}

(* No sample is forgotten: those a parent has cut its list from are there, *)
(* in a task, with a worker, or with something known to have failed.       *)
CoverageOK ==
  \A r \in Runs :
    /\ run[r].pc = "work" /\ run[r].mode = "all" =>
         (Layers \ run[r].failed) \X PassSamples(run[r].pass) \subseteq Present \cup Pending(r)
    /\ run[r].pc = "work" /\ run[r].mode = "one" /\ run[r].failed = {} /\ ~run[r].lost =>
         {run[r].layer} \X Samples \subseteq Present \cup Pending(r)
    /\ run[r].pc = "load" =>
         {run[r].layer} \X (Samples \ run[r].todo) \subseteq Present

DivisionOK ==
  /\ WorkIsDivided
  /\ \A r \in Runs : \A i, j \in DOMAIN run[r].queue :
       i # j => ({run[r].queue[i].layer} \X run[r].queue[i].samples)
                  \cap ({run[r].queue[j].layer} \X run[r].queue[j].samples) = {}
  /\ \A r \in Runs : QueuedWork(r) \cap HeldWork(r) = {}

(* What the kills may have cost: files left behind, and the files the     *)
(* workers of a broken pool may still leave behind.                        *)
Doomed == {p \in Processes : run[p[1]].broken /\ worker[p].pc # "idle"}

RiskOK ==
  /\ IsFiniteSet(Orphans \cup Doomed)
  /\ Cardinality(Orphans \cup Doomed) <= kills * Cardinality(Workers)

PipelineInv ==
  /\ TypeOK /\ EmployedOK /\ QueuesOK /\ TempsOK /\ TracesComplete /\ SchedulesOK
  /\ CoverageOK /\ DivisionOK /\ RiskOK
  /\ ReportedIsPresent /\ MilestoneFirst
-----------------------------------------------------------------------------
(* Lists of sample numbers.                                                *)

(* Every part of the samples is a finite set of numbers. *)
LEMMA SamplesType ==
  ASSUME NEW S \in SUBSET Samples
  PROVE  S \subseteq Nat /\ IsFiniteSet(S) /\ Cardinality(S) \in Nat
BY PipelineAssumption, FS_Subset, FS_CardinalityType

(* There is a first sample to save in every batch. *)
LEMMA SmallestIsFirst ==
  ASSUME NEW S \in SUBSET Samples, S # {}
  PROVE  Smallest(S) \in S /\ \A y \in S : Smallest(S) <= y
<1>1. \E x \in S : \A y \in S : x <= y
  BY SamplesType, LeastExists
<1> QED BY <1>1 DEF Smallest

(* A sample has fewer samples below it than there are.                     *)
LEMMA RankType ==
  ASSUME NEW S \in SUBSET Samples, NEW x \in S
  PROVE  Rank(S, x) \in 0 .. Cardinality(S) - 1
<1> DEFINE T == {y \in S : y < x}
<1>1. IsFiniteSet(S) /\ Cardinality(S) \in Nat /\ x \in Nat
  BY SamplesType
<1>2. T \in SUBSET S /\ x \notin T
  BY <1>1
<1> HIDE DEF T
<1>3. Cardinality(T) \in Nat /\ Cardinality(T) <= Cardinality(S) /\ Cardinality(T) # Cardinality(S)
  BY <1>1, <1>2, FS_Subset, FS_CardinalityType
<1>4. Cardinality(T) \in 0 .. Cardinality(S) - 1
  BY <1>1, <1>3
<1> QED BY <1>4 DEF Rank, T

(* A worker never gets an empty batch out of samples that are left.        *)
LEMMA FirstSliceNotEmpty ==
  ASSUME NEW S \in SUBSET Samples, S # {}
  PROVE  Slice(S, BatchSize, 1) # {} /\ Slice(S, BatchSize, 1) \subseteq S
<1> DEFINE x == Smallest(S)
<1>1. x \in S /\ \A y \in S : x <= y
  BY SmallestIsFirst
<1> HIDE DEF x
<1>2. {y \in S : y < x} = {}
  BY <1>1, SamplesType
<1>3. Rank(S, x) = 0
  BY <1>2, FS_EmptySet DEF Rank
<1>4. 0 \div BatchSize = 0
  BY PipelineAssumption
<1>5. x \in Slice(S, BatchSize, 1)
  BY <1>1, <1>3, <1>4 DEF Slice
<1> QED BY <1>5 DEF Slice

(* However a list is cut, each of its samples is in one chunk.             *)
LEMMA ChunksDivide ==
  ASSUME NEW S \in SUBSET Samples
  PROVE  /\ Chunks(S) \in Seq(SUBSET S)
         /\ \A x \in S : \E i \in DOMAIN Chunks(S) : x \in Chunks(S)[i]
         /\ \A i, j \in DOMAIN Chunks(S) : i # j => Chunks(S)[i] \cap Chunks(S)[j] = {}
<1>1. PICK size \in Nat \ {0} : size = ChunkSize(S)
  <2>1. Cardinality(Workers) \in Nat \ {0}
    BY PipelineAssumption, FS_CardinalityType, FS_EmptySet
  <2>2. PICK n \in Nat, m \in Nat \ {0} : n = Cardinality(S) /\ m = Cardinality(Workers)
    BY <2>1, SamplesType
  <2>3. n \div m \in Nat
    OBVIOUS
  <2> QED BY <2>2, <2>3 DEF ChunkSize
<1>2. PICK n \in Nat : n = Cardinality(S)
  BY SamplesType
<1>3. PICK k \in Nat : k = (n + size - 1) \div size
  <2>1. n + size - 1 \in Nat
    OBVIOUS
  <2>2. PICK m \in Nat : m = n + size - 1
    BY <2>1
  <2>3. m \div size \in Nat
    OBVIOUS
  <2> QED BY <2>2, <2>3
<1>4. Chunks(S) = [i \in 1 .. k |-> Slice(S, size, i)]
  BY <1>1, <1>2, <1>3 DEF Chunks
<1>5. \A x \in S : \E i \in 1 .. k : x \in Slice(S, size, i)
  <2> SUFFICES ASSUME NEW x \in S PROVE \E i \in 1 .. k : x \in Slice(S, size, i)
    OBVIOUS
  <2>1. PICK rank \in 0 .. n - 1 : rank = Rank(S, x)
    BY <1>2, RankType
  <2>2. n \in Nat \ {0}
    OBVIOUS
  <2>3. rank \div size \in 0 .. k - 1
    BY <1>3, <2>2, BlocksCoverTheBound
  <2>4. PICK q \in 0 .. k - 1 : q = rank \div size
    BY <2>3
  <2>5. q + 1 \in 1 .. k /\ q = (q + 1) - 1
    OBVIOUS
  <2> QED BY <2>1, <2>4, <2>5 DEF Slice
<1>6. \A i, j \in 1 .. k : i # j => Slice(S, size, i) \cap Slice(S, size, j) = {}
  BY DEF Slice
<1>7. \A i \in 1 .. k : Slice(S, size, i) \in SUBSET S
  BY DEF Slice
<1>8. Chunks(S) \in Seq(SUBSET S) /\ DOMAIN Chunks(S) = 1 .. k
  BY <1>4, <1>7, SeqDef
<1> QED BY <1>4, <1>5, <1>6, <1>8

-----------------------------------------------------------------------------
(* The types are inductive on their own.                                   *)

(* The idle worker's fields are fillers of the right kinds. *)
LEMMA IdleType ==
  /\ Idle.pc = "idle" /\ Idle.id \in TempIds /\ Idle.version = Missing
  /\ Idle.left = {} /\ Idle.batch = {}
BY PipelineAssumption DEF Idle

(* A worker's program counter tells what is settled about it.              *)
LEMMA WorkerStatesByPc ==
  ASSUME NEW s \in WorkerStates
  PROVE  /\ s.pc = "idle" => s = Idle
         /\ s.pc = "load" => s \in WorkerLoading
         /\ s.pc = "reconstruct" => s \in WorkerReady
         /\ s.pc \in {"save", "write", "replace"} => s \in WorkerSaving
         /\ s.pc \in {"idle", "load", "reconstruct", "save", "write", "replace"}
BY IdleType DEF WorkerStates, WorkerLoading, WorkerReady, WorkerSaving

(* And so do a parent's program counter and mode.                          *)
LEMMA ParentsByPc ==
  ASSUME NEW s \in Parents
  PROVE  /\ s.pc = "off" => s = RunOff
         /\ s.pc = "load" => s \in OneLoading
         /\ s.pc = "work" /\ s.mode = "one" => s \in OneWorking
         /\ s.pc = "work" /\ s.mode = "all" => s \in AllWorking
         /\ s.pc \in {"off", "load", "work"} /\ s.mode \in {"one", "all"}
         /\ s.mode = "one" => s.pc \in {"load", "work"}
<1>1. RunOff.pc = "off" /\ RunOff.mode = "all"
  BY DEF RunOff
<1>2. \A t \in OneLoading : t.pc = "load" /\ t.mode = "one"
  BY DEF OneLoading
<1>3. \A t \in OneWorking : t.pc = "work" /\ t.mode = "one"
  BY DEF OneWorking
<1>4. \A t \in AllWorking : t.pc = "work" /\ t.mode = "all"
  BY DEF AllWorking
<1> QED BY <1>1, <1>2, <1>3, <1>4 DEF Parents

(* One process changing its state to a sound one keeps all of them sound.  *)
LEMMA BecomeType ==
  ASSUME worker \in [Processes -> WorkerStates], NEW r \in Runs, NEW w \in Workers,
         NEW state \in WorkerStates, Become(r, w, state)
  PROVE  worker' \in [Processes -> WorkerStates]
BY DEF Become, Processes

(* A task that raises leaves a sound run behind.                           *)
LEMMA RaisesType ==
  ASSUME TypeOK, NEW r \in Runs, NEW w \in Workers, worker[<<r, w>>].layer \in Layers,
         run[r].pc = "work", TaskRaises(r, w)
  PROVE  /\ run' \in [Runs -> Parents]
         /\ worker' \in [Processes -> WorkerStates]
         /\ reported' \subseteq Traces
<1> DEFINE l == worker[<<r, w>>].layer
           new == Failing(run[r], {l}, {l})
<1>1. run[r] \in OneWorking \/ run[r] \in AllWorking
  BY ParentsByPc DEF TypeOK
<1>2. l \in Layers
  OBVIOUS
<1>3. new \in OneWorking \/ new \in AllWorking
  <2> HIDE DEF l
  <2> QED BY <1>1, <1>2 DEF Failing, OneWorking, AllWorking
<1>4. run' = [run EXCEPT ![r] = new]
  BY DEF TaskRaises
<1>5. run' \in [Runs -> Parents]
  <2> HIDE DEF new
  <2> QED BY <1>3, <1>4 DEF TypeOK, Parents
<1>6. Idle \in WorkerStates
  BY DEF WorkerStates
<1>7. worker' \in [Processes -> WorkerStates]
  BY <1>6, BecomeType DEF TaskRaises, TypeOK
<1> QED BY <1>5, <1>7 DEF TaskRaises, TypeOK

(* The program starts with no file and every process off. *)
LEMMA InitType ==
  ASSUME Init
  PROVE  TypeOK
<1>1. SolverOff \in Solvers /\ SolverOff.pc = "off"
  <2>1. <<>> \in Seq(Layers)
    OBVIOUS
  <2> QED BY <2>1 DEF SolverOff, Solvers, SolverResting
<1>2. RunOff \in Parents /\ Idle \in WorkerStates
  BY DEF Parents, WorkerStates
<1>3. 0 \in 0 .. MaxSolves
  BY PipelineAssumption
<1> QED BY <1>1, <1>2, <1>3 DEF Init, TypeOK, Contents, Processes

(* Every step of stage 1. *)
LEMMA StageOneType ==
  ASSUME TypeOK,
         StepSolver \/ KillSolver \/ \E force \in BOOLEAN : StartSolver(force)
  PROVE  TypeOK'
<1>1. solver.left \in Seq(Layers) /\ solver.force \in BOOLEAN /\ solver \in Solvers
  BY DEF TypeOK, Solvers, SolverResting, SolverWriting
<1>2. SolverOff \in Solvers /\ SolverOff.pc = "off"
  BY DEF SolverOff, Solvers, SolverResting
<1>3. ASSUME solver.left # <<>>, NextSolve
      PROVE  solver' \in Solvers /\ solver'.pc = "next"
  <2>1. Tail(solver.left) \in Seq(Layers)
    BY <1>1, <1>3
  <2>2. solver \in [pc : {"off", "next", "write"}, left : Seq(Layers), force : BOOLEAN]
    BY <1>1 DEF Solvers, SolverResting, SolverWriting
  <2>3. solver' \in SolverResting /\ solver'.pc = "next"
    BY <1>3, <2>1, <2>2 DEF NextSolve, SolverResting
  <2> QED BY <2>3 DEF Solvers
<1>4. CASE \E force \in BOOLEAN : StartSolver(force)
  <2> PICK force \in BOOLEAN : StartSolver(force)
    BY <1>4
  <2>1. solver' \in Solvers /\ solver'.pc = "next"
    BY PipelineAssumption DEF StartSolver, Solvers, SolverResting
  <2> QED BY <2>1 DEF StartSolver, StageOne, counters, TypeOK
<1>5. ASSUME NEW l \in Layers, SkipSchedule(l) PROVE TypeOK'
  <2>1. solver' \in Solvers /\ solver'.pc = "next"
    BY <1>3, <1>5 DEF SkipSchedule, Solving
  <2> QED BY <1>5, <2>1 DEF SkipSchedule, StageOne, counters, TypeOK
<1>6. ASSUME NEW l \in Layers, SolveFails(l) PROVE TypeOK'
  <2>1. solver' \in Solvers /\ solver'.pc = "next"
    BY <1>3, <1>6 DEF SolveFails, Solving
  <2>2. solves' = solves /\ kills' = kills /\ errors' \in Nat
    BY <1>6 DEF SolveFails, Raise, counters, TypeOK
  <2> QED BY <1>6, <2>1, <2>2 DEF SolveFails, StageOne, TypeOK
<1>7. ASSUME NEW l \in Layers, OpenSchedule(l) PROVE TypeOK'
  <2>1. solver' \in Solvers
    BY <1>1, <1>7 DEF OpenSchedule, Solving, Solvers, SolverResting, SolverWriting
  <2>2. schedule' \in [Layers -> Contents]
    BY <1>7 DEF OpenSchedule, TypeOK, Contents
  <2>3. solves' \in 0 .. MaxSolves /\ solves' \in Versions
    BY <1>7, PipelineAssumption DEF OpenSchedule, TypeOK, Versions
  <2>4. resolved' \subseteq Layers
    BY <1>7 DEF OpenSchedule, TypeOK
  <2> QED BY <1>7, <2>1, <2>2, <2>3, <2>4 DEF OpenSchedule, StageOne, TypeOK
<1>8. ASSUME solver.pc = "write" PROVE solver.left # <<>> /\ Head(solver.left) \in Layers
  BY <1>1, <1>8 DEF Solvers, SolverResting, SolverWriting
<1>9. CASE CloseSchedule
  <2>1. solver' \in Solvers /\ solver'.pc = "next"
    BY <1>3, <1>8, <1>9 DEF CloseSchedule
  <2>2. schedule' \in [Layers -> Contents]
    BY <1>8, <1>9 DEF CloseSchedule, TypeOK, Contents
  <2> QED BY <1>9, <2>1, <2>2 DEF CloseSchedule, StageOne, counters, TypeOK
<1>10. CASE WriteScheduleFails
  <2>1. solver' \in Solvers /\ solver'.pc = "next"
    BY <1>3, <1>8, <1>10 DEF WriteScheduleFails
  <2> QED BY <1>10, <2>1 DEF WriteScheduleFails, Raise, StageOne, TypeOK
<1>11. CASE SolverReturns
  BY <1>2, <1>11 DEF SolverReturns, StageOne, counters, TypeOK
<1>12. CASE KillSolver
  BY <1>2, <1>12 DEF KillSolver, Strike, StageOne, TypeOK
<1> QED BY <1>4, <1>5, <1>6, <1>7, <1>9, <1>10, <1>11, <1>12 DEF StepSolver

(* A pass starts as a sound run with a task for each layer.                *)
LEMMA PassType ==
  ASSUME NEW n \in {1, 2}, NEW sunk \in SUBSET Layers
  PROVE  /\ Pass(n, sunk) \in AllWorking
         /\ Pass(n, sunk).pc = "work" /\ Pass(n, sunk).mode = "all"
         /\ Pass(n, sunk).pass = n /\ Pass(n, sunk).sunk = sunk
         /\ Pass(n, sunk).failed = {} /\ ~Pass(n, sunk).broken
         /\ Pass(n, sunk).queue =
              [i \in DOMAIN LayerList |-> [layer |-> LayerList[i], samples |-> PassSamples(n)]]
<1> DEFINE queue == [i \in DOMAIN LayerList |->
                       [layer |-> LayerList[i], samples |-> PassSamples(n)]]
<1>1. PassSamples(n) \in SUBSET Samples
  BY PipelineAssumption DEF PassSamples
<1>2. \A i \in DOMAIN LayerList : [layer |-> LayerList[i], samples |-> PassSamples(n)] \in Tasks
  BY <1>1 DEF Tasks, Layers
<1>3. DOMAIN LayerList = 1 .. Len(LayerList) /\ Len(LayerList) \in Nat
  BY PipelineAssumption
<1>4. queue \in Seq(Tasks)
  BY <1>2, <1>3, SeqDef
<1>5. Pass(n, sunk) = [RunOff EXCEPT !.pc = "work", !.pass = n, !.sunk = sunk, !.queue = queue]
  BY DEF Pass
<1> HIDE DEF queue
<1>6. Pass(n, sunk) = [pc |-> "work", mode |-> "all", pass |-> n, layer |-> LayerList[1],
                       todo |-> {}, version |-> Missing, queue |-> queue, lost |-> FALSE,
                       broken |-> FALSE, failed |-> {}, hurt |-> {}, sunk |-> sunk]
  BY <1>5 DEF RunOff
<1> QED BY <1>4, <1>6 DEF AllWorking, queue

(* One parent changing its state to a sound one keeps all of them sound.   *)
LEMMA ParentType ==
  ASSUME TypeOK, NEW r \in Runs, NEW state \in Parents, run' = [run EXCEPT ![r] = state],
         StageTwo, errors' \in Nat, kills' \in Nat, UNCHANGED <<trace, temp>>,
         worker' \in [Processes -> WorkerStates], reported' \subseteq Traces
  PROVE  TypeOK'
<1>1. run' \in [Runs -> Parents]
  BY DEF TypeOK
<1> QED BY <1>1 DEF StageTwo, TypeOK

(* Every step of a parent, and the death of all its processes.             *)
LEMMA ParentStepType ==
  ASSUME TypeOK, NEW r \in Runs,
         \/ StartAll(r)
         \/ \E l \in Layers, force \in BOOLEAN : StartOne(r, l, force)
         \/ StepParent(r) \/ KillRun(r) \/ TimeLimit(r)
  PROVE  TypeOK'
<1>1. RunOff \in Parents /\ run[r] \in Parents /\ errors \in Nat /\ kills \in Nat
  BY DEF Parents, TypeOK
<1>2. worker \in [Processes -> WorkerStates] /\ reported \subseteq Traces
  BY DEF TypeOK
<1>3. CASE StartAll(r)
  <2>1. Pass(1, {}) \in Parents
    BY PassType DEF Parents
  <2> QED BY <1>1, <1>2, <1>3, <2>1, ParentType DEF StartAll, ParentOnly
<1>4. ASSUME NEW l \in Layers, NEW force \in BOOLEAN, StartOne(r, l, force) PROVE TypeOK'
  <2> DEFINE todo == {s \in Samples : force \/ trace[<<l, s>>] = Missing}
             new  == [RunOff EXCEPT !.pc = "load", !.mode = "one", !.layer = l, !.todo = todo]
  <2>1. todo \in SUBSET Samples
    OBVIOUS
  <2>2. run' = [run EXCEPT ![r] = new]
    BY <1>4 DEF StartOne
  <2> HIDE DEF todo
  <2>3. new \in OneLoading
    BY <2>1 DEF RunOff, OneLoading
  <2> HIDE DEF new
  <2> QED BY <1>1, <1>2, <1>4, <2>2, <2>3, ParentType DEF StartOne, ParentOnly, Parents
<1>5. CASE LoadInParent(r)
  <2> DEFINE l == run[r].layer
             chunks == Chunks(run[r].todo)
             queue == [i \in DOMAIN chunks |-> [layer |-> l, samples |-> chunks[i]]]
             new == [run[r] EXCEPT !.pc = "work", !.version = schedule[l], !.queue = queue]
  <2>1. run[r] \in OneLoading
    BY <1>1, <1>5, ParentsByPc DEF LoadInParent
  <2>2. l \in Layers /\ run[r].todo \in SUBSET Samples
    BY <2>1 DEF OneLoading
  <2>3. chunks \in Seq(SUBSET Samples)
    <3>1. chunks \in Seq(SUBSET run[r].todo)
      BY <2>2, ChunksDivide
    <3> QED BY <2>2, <3>1
  <2>4. queue \in Seq(Tasks)
    <3> HIDE DEF l, chunks
    <3>1. DOMAIN chunks = 1 .. Len(chunks) /\ Len(chunks) \in Nat
      BY <2>3
    <3>2. \A i \in DOMAIN chunks : [layer |-> l, samples |-> chunks[i]] \in Tasks
      BY <2>2, <2>3 DEF Tasks
    <3> QED BY <3>1, <3>2, SeqDef
  <2>5. run' = [run EXCEPT ![r] = IF schedule[l] \in Versions THEN new ELSE RunOff]
    BY <1>5 DEF LoadInParent
  <2> HIDE DEF l, chunks, queue
  <2>6. schedule[l] \in Versions => new \in OneWorking
    BY <2>1, <2>4 DEF OneLoading, OneWorking
  <2> HIDE DEF new
  <2> DEFINE state == IF schedule[l] \in Versions THEN new ELSE RunOff
  <2>7. state \in Parents /\ run' = [run EXCEPT ![r] = state]
    BY <1>1, <2>5, <2>6 DEF Parents
  <2> HIDE DEF state
  <2> QED BY <1>1, <1>2, <1>5, <2>7, ParentType DEF LoadInParent, ParentOnly
<1>6. CASE EndPass(r)
  <2> DEFINE state == IF run[r].pass = 1 THEN Pass(2, run[r].failed) ELSE RunOff
  <2>1. run[r] \in AllWorking
    BY <1>1, <1>6, ParentsByPc DEF EndPass, PassOver
  <2>2. run[r].failed \in SUBSET Layers /\ run[r].pass \in {1, 2}
    BY <2>1 DEF AllWorking
  <2>3. state \in Parents
    BY <1>1, <2>2, PassType DEF Parents
  <2>4. run' = [run EXCEPT ![r] = state]
    BY <1>6 DEF EndPass
  <2> HIDE DEF state
  <2>5. PassSamples(run[r].pass) \subseteq Samples
    BY PipelineAssumption DEF PassSamples
  <2>6. reported' \subseteq Traces
    BY <1>2, <1>6, <2>5 DEF EndPass, Traces
  <2> QED BY <1>1, <1>2, <1>6, <2>3, <2>4, <2>6, ParentType DEF EndPass, ParentOnly
<1>7. CASE EndOne(r)
  <2>1. run[r] \in OneWorking
    BY <1>1, <1>7, ParentsByPc DEF EndOne, PassOver
  <2>2. run[r].layer \in Layers
    BY <2>1 DEF OneWorking
  <2>3. reported' \subseteq Traces
    BY <1>2, <1>7, <2>2 DEF EndOne, Traces
  <2> QED BY <1>1, <1>2, <1>7, <2>3, ParentType DEF EndOne, ParentOnly
<1>8. ASSUME Vanish(r), solves' = solves, errors' \in Nat, kills' \in Nat PROVE TypeOK'
  <2>1. worker' \in [Processes -> WorkerStates]
    BY <1>2, <1>8 DEF Vanish, WorkerStates, Processes
  <2> QED BY <1>1, <1>2, <1>8, <2>1, ParentType DEF Vanish, StageTwo
<1>9. CASE KillRun(r)
  BY <1>1, <1>8, <1>9 DEF KillRun, Strike
<1>10. CASE TimeLimit(r)
  BY <1>1, <1>8, <1>10 DEF TimeLimit, counters
<1> QED BY <1>3, <1>4, <1>5, <1>6, <1>7, <1>9, <1>10 DEF StepParent

(* One worker changing its state to a sound one keeps the types.           *)
LEMMA WorkerType ==
  ASSUME TypeOK, NEW r \in Runs, NEW w \in Workers, NEW state \in WorkerStates,
         Become(r, w, state), StageTwo,
         trace' \in [Traces -> Contents], temp' \in [Layers \X Samples \X TempIds -> Contents],
         run' \in [Runs -> Parents], errors' \in Nat, kills' \in Nat, UNCHANGED reported
  PROVE  TypeOK'
<1>1. worker' \in [Processes -> WorkerStates]
  BY BecomeType DEF TypeOK
<1> QED BY <1>1 DEF StageTwo, TypeOK

(* The sample a worker is saving is one of its layer's traces, and the     *)
(* file it writes is one of that trace's temporary files.                  *)
LEMMA TargetType ==
  ASSUME TypeOK, NEW r \in Runs, NEW w \in Workers,
         worker[<<r, w>>].pc \in {"save", "write", "replace"}
  PROVE  /\ worker[<<r, w>>] \in WorkerSaving
         /\ Target(r, w) \in Traces
         /\ Target(r, w)[1] = worker[<<r, w>>].layer
         /\ Target(r, w)[2] \in worker[<<r, w>>].batch
         /\ TempFile(r, w) \in Layers \X Samples \X TempIds
         /\ worker[<<r, w>>].version \in Versions
<1> DEFINE me == worker[<<r, w>>]
<1>1. me \in WorkerSaving
  BY WorkerStatesByPc DEF TypeOK, Processes
<1> HIDE DEF me
<1>2. /\ me.layer \in Layers /\ me.batch \in SUBSET Samples /\ me.batch # {}
      /\ me.id \in TempIds /\ me.version \in Versions
  BY <1>1 DEF WorkerSaving
<1>3. Smallest(me.batch) \in me.batch
  BY <1>2, SmallestIsFirst
<1>4. Target(r, w) = <<me.layer, Smallest(me.batch)>>
  BY DEF Target, me
<1>5. TempFile(r, w) = <<me.layer, Smallest(me.batch), me.id>>
  BY <1>4 DEF TempFile, me
<1> QED BY <1>1, <1>2, <1>3, <1>4, <1>5 DEF Traces, me

(* What a task becomes for the worker that takes it.                       *)
LEMMA TakesType ==
  ASSUME TypeOK, NEW r \in Runs, NEW w \in Workers, run[r].pc = "work", run[r].queue # <<>>
  PROVE  /\ Head(run[r].queue) \in Tasks
         /\ Takes(r, w) \in WorkerStates
         /\ [run[r] EXCEPT !.queue = Tail(run[r].queue)] \in Parents
<1> DEFINE me == run[r]
           task == Head(me.queue)
<1>1. me \in OneWorking \/ me \in AllWorking
  BY ParentsByPc DEF TypeOK
<1>2. me.queue \in Seq(Tasks)
  BY <1>1 DEF OneWorking, AllWorking
<1>3. task \in Tasks /\ Tail(me.queue) \in Seq(Tasks)
  BY <1>2
<1>4. task.layer \in Layers /\ task.samples \in SUBSET Samples
  BY <1>3 DEF Tasks
<1>5. [me EXCEPT !.queue = Tail(me.queue)] \in Parents
  <2> HIDE DEF me
  <2> QED BY <1>1, <1>3 DEF OneWorking, AllWorking, Parents
<1>6. Takes(r, w) \in WorkerStates
  <2> DEFINE left == IF me.mode = "one" THEN task.samples
                     ELSE {s \in task.samples : trace[<<task.layer, s>>] = Missing}
             start == IF me.mode = "one" THEN "reconstruct" ELSE "load"
  <2>1. left \in SUBSET Samples
    BY <1>4
  <2>2. Takes(r, w) = IF left = {} THEN Idle
                      ELSE [Idle EXCEPT !.pc = start, !.layer = task.layer, !.left = left,
                                        !.version = me.version]
    BY DEF Takes
  <2>3. /\ me.mode = "one" => me.version \in Versions
        /\ me.mode \in {"one", "all"} /\ me.version \in Versions \cup {Missing}
    BY <1>1 DEF OneWorking, AllWorking
  <2>4. PICK id \in TempIds :
          Idle = [pc |-> "idle", layer |-> LayerList[1], left |-> {}, batch |-> {},
                  version |-> Missing, id |-> id]
    BY IdleType DEF Idle
  <2> DEFINE busy == [pc |-> start, layer |-> task.layer, left |-> left, batch |-> {},
                      version |-> me.version, id |-> id]
  <2> HIDE DEF left, me, task, start
  <2>5. Takes(r, w) = IF left = {} THEN Idle ELSE busy
    BY <2>2, <2>4
  <2>6. left # {} /\ me.mode = "one" => busy \in WorkerReady
    BY <1>4, <2>1, <2>3 DEF WorkerReady, start
  <2>7. left # {} /\ me.mode = "all" => busy \in WorkerLoading
    BY <1>4, <2>1, <2>3 DEF WorkerLoading, start
  <2> HIDE DEF busy
  <2> QED BY <2>3, <2>5, <2>6, <2>7 DEF WorkerStates
<1> QED BY <1>3, <1>5, <1>6

(* What a run becomes when one of its workers dies.                        *)
LEMMA DeathType ==
  ASSUME TypeOK, NEW r \in Runs, NEW w \in Workers, HasPool(r),
         IF run[r].mode = "all" THEN BreakPool(r, w) ELSE LoseChunk(r, w)
  PROVE  run' \in [Runs -> Parents]
<1> DEFINE me == run[r]
<1>1. \A v \in Busy(r) : worker[<<r, v>>].layer \in Layers
  BY WorkerStatesByPc DEF Busy, TypeOK, Processes, WorkerLoading, WorkerReady, WorkerSaving
<1>2. run \in [Runs -> Parents] /\ me \in Parents /\ me.pc = "work"
  BY DEF TypeOK, HasPool
<1>3. CASE me.mode = "all"
  <2> DEFINE own == IF w \in Busy(r) THEN {worker[<<r, w>>].layer} ELSE {}
             all == Queued(r) \cup {worker[<<r, v>>].layer : v \in Busy(r)}
             new == [Failing(me, all, own) EXCEPT !.broken = TRUE, !.queue = <<>>]
  <2>1. me \in AllWorking
    BY <1>2, <1>3, ParentsByPc
  <2>2. me.queue \in Seq(Tasks)
    BY <2>1 DEF AllWorking
  <2>3. own \in SUBSET Layers /\ all \in SUBSET Layers
    <3>1. \A i \in DOMAIN me.queue : me.queue[i].layer \in Layers
      <4>1. \A i \in DOMAIN me.queue : me.queue[i] \in Tasks
        BY <2>2
      <4> QED BY <4>1 DEF Tasks
    <3> QED BY <1>1, <3>1 DEF Queued
  <2>4. run' = [run EXCEPT ![r] = new]
    BY <1>3 DEF BreakPool
  <2> HIDE DEF own, all, me
  <2>5. <<>> \in Seq(Tasks)
    OBVIOUS
  <2>6. Failing(me, all, own) \in AllWorking
    BY <2>1, <2>3 DEF Failing, AllWorking
  <2>7. new \in AllWorking
    BY <2>5, <2>6 DEF AllWorking
  <2> HIDE DEF new
  <2> QED BY <1>2, <2>4, <2>7 DEF Parents
<1>4. CASE me.mode # "all"
  <2> DEFINE new == [me EXCEPT !.lost = me.lost \/ w \in Busy(r)]
  <2>1. me \in OneWorking
    BY <1>2, <1>4, ParentsByPc
  <2>2. run' = [run EXCEPT ![r] = new]
    BY <1>4 DEF LoseChunk
  <2> HIDE DEF me
  <2>3. (me.lost \/ w \in Busy(r)) \in BOOLEAN
    OBVIOUS
  <2>4. new \in OneWorking
    BY <2>1, <2>3 DEF OneWorking
  <2> HIDE DEF new
  <2> QED BY <1>2, <2>2, <2>4 DEF Parents
<1> QED BY <1>3, <1>4

(* Every step of a worker, its failures and its death.                     *)
LEMMA WorkerStepType ==
  ASSUME TypeOK, EmployedOK, NEW r \in Runs, NEW w \in Workers,
         StepWorker(r, w) \/ Fault(r, w)
  PROVE  TypeOK'
<1> DEFINE me == worker[<<r, w>>]
<1>1. me \in WorkerStates /\ Idle \in WorkerStates
  BY DEF TypeOK, Processes, WorkerStates
<1>2. /\ run \in [Runs -> Parents] /\ trace \in [Traces -> Contents]
      /\ temp \in [Layers \X Samples \X TempIds -> Contents]
      /\ errors \in Nat /\ kills \in Nat
  BY DEF TypeOK
<1>3. ASSUME me.pc # "idle", StageTwo, errors' \in Nat, kills' \in Nat, UNCHANGED trace,
             temp' \in [Layers \X Samples \X TempIds -> Contents], TaskRaises(r, w)
      PROVE  TypeOK'
  <2>1. me.layer \in Layers
    BY <1>1, <1>3, WorkerStatesByPc DEF WorkerLoading, WorkerReady, WorkerSaving
  <2>2. run[r].pc = "work"
    BY <1>3 DEF EmployedOK
  <2>3. run' \in [Runs -> Parents]
    BY <1>3, <2>1, <2>2, RaisesType
  <2> QED BY <1>1, <1>2, <1>3, <2>3, WorkerType DEF TaskRaises
<1>4. CASE TakeTask(r, w)
  <2> DEFINE new == [run[r] EXCEPT !.queue = Tail(run[r].queue)]
  <2>1. Takes(r, w) \in WorkerStates /\ new \in Parents
    BY <1>4, TakesType DEF TakeTask
  <2>2. run' = [run EXCEPT ![r] = new]
    BY <1>4 DEF TakeTask
  <2> HIDE DEF new
  <2>3. run' \in [Runs -> Parents]
    BY <1>2, <2>1, <2>2
  <2> QED BY <1>2, <1>4, <2>1, <2>3, WorkerType DEF TakeTask
<1>5. CASE LoadSchedule(r, w)
  <2>1. CASE schedule[me.layer] \in Versions
    <3> DEFINE new == [me EXCEPT !.pc = "reconstruct", !.version = schedule[me.layer]]
    <3>1. me \in WorkerLoading
      BY <1>1, <1>5, WorkerStatesByPc DEF LoadSchedule
    <3>2. Become(r, w, new)
      BY <1>5, <2>1 DEF LoadSchedule
    <3> HIDE DEF me
    <3>3. new \in WorkerReady
      BY <2>1, <3>1 DEF WorkerLoading, WorkerReady
    <3> HIDE DEF new
    <3> QED BY <1>2, <1>5, <2>1, <3>2, <3>3, WorkerType DEF LoadSchedule, WorkerStates, me
  <2>2. CASE schedule[me.layer] \notin Versions
    BY <1>2, <1>3, <1>5, <2>2 DEF LoadSchedule
  <2> QED BY <2>1, <2>2
<1>6. CASE Reconstruct(r, w)
  <2> DEFINE left  == me.left
             batch == IF run[r].mode = "one" THEN left ELSE Slice(left, BatchSize, 1)
             new   == [me EXCEPT !.pc = "save", !.left = left \ batch, !.batch = batch]
  <2>1. me \in WorkerReady
    BY <1>1, <1>6, WorkerStatesByPc DEF Reconstruct
  <2>2. left \in SUBSET Samples /\ left # {}
    BY <2>1 DEF WorkerReady
  <2>3. batch \in SUBSET Samples /\ batch # {}
    BY <2>2, FirstSliceNotEmpty
  <2>4. Become(r, w, new)
    BY <1>6 DEF Reconstruct
  <2> HIDE DEF me, batch, left
  <2>5. new \in WorkerSaving
    BY <2>1, <2>2, <2>3 DEF WorkerReady, WorkerSaving
  <2> HIDE DEF new
  <2> QED BY <1>2, <1>6, <2>4, <2>5, WorkerType DEF Reconstruct, WorkerStates
<1>7. ASSUME NEW id \in TempIds, MakeTemp(r, w, id) PROVE TypeOK'
  <2> DEFINE new == [me EXCEPT !.pc = "write", !.id = id]
  <2>1. me \in WorkerSaving
    BY <1>1, <1>7, WorkerStatesByPc DEF MakeTemp
  <2>2. Become(r, w, new)
    BY <1>7 DEF MakeTemp
  <2>3. temp' \in [Layers \X Samples \X TempIds -> Contents]
    BY <1>2, <1>7 DEF MakeTemp, Contents
  <2> HIDE DEF me
  <2>4. new \in WorkerSaving
    BY <2>1 DEF WorkerSaving
  <2> HIDE DEF new
  <2> QED BY <1>2, <1>7, <2>2, <2>3, <2>4, WorkerType DEF MakeTemp, WorkerStates
<1>8. CASE WriteTemp(r, w)
  <2> DEFINE new == [me EXCEPT !.pc = "replace"]
  <2>1. me \in WorkerSaving /\ me.version \in Versions
    BY <1>8, TargetType DEF WriteTemp
  <2>2. Become(r, w, new)
    BY <1>8 DEF WriteTemp
  <2>3. temp' \in [Layers \X Samples \X TempIds -> Contents]
    BY <1>2, <1>8, <2>1 DEF WriteTemp, Contents
  <2> HIDE DEF me
  <2>4. new \in WorkerSaving
    BY <2>1 DEF WorkerSaving
  <2> HIDE DEF new
  <2> QED BY <1>2, <1>8, <2>2, <2>3, <2>4, WorkerType DEF WriteTemp, WorkerStates
<1>9. CASE Replace(r, w)
  <2> DEFINE batch == me.batch \ {Smallest(me.batch)}
             next  == IF batch # {} THEN "save" ELSE "reconstruct"
             busy  == [me EXCEPT !.pc = next, !.batch = batch, !.id = Idle.id]
  <2>1. me \in WorkerSaving /\ TempFile(r, w) \in Layers \X Samples \X TempIds
    BY <1>9, TargetType DEF Replace
  <2>2. AfterSave(r, w) = IF batch = {} /\ me.left = {} THEN Idle ELSE busy
    BY DEF AfterSave
  <2>3. batch \in SUBSET Samples
    BY <2>1 DEF WorkerSaving
  <2> HIDE DEF me, batch
  <2>4. batch # {} => busy \in WorkerSaving
    BY <2>1, <2>3, IdleType DEF WorkerSaving
  <2>5. batch = {} /\ me.left # {} => busy \in WorkerReady
    BY <2>1, <2>3, IdleType DEF WorkerSaving, WorkerReady
  <2> HIDE DEF busy
  <2>6. AfterSave(r, w) \in WorkerStates
    BY <1>1, <2>2, <2>4, <2>5 DEF WorkerStates
  <2>7. trace' \in [Traces -> Contents] /\ temp' \in [Layers \X Samples \X TempIds -> Contents]
    BY <1>2, <1>9, <2>1 DEF Replace, Contents
  <2> QED BY <1>2, <1>9, <2>6, <2>7, WorkerType DEF Replace
<1>10. CASE Terminate(r, w)
  BY <1>1, <1>2, <1>10, WorkerType DEF Terminate, StageTwo, counters, files
<1>11. CASE ReconstructFails(r, w)
  BY <1>2, <1>3, <1>11 DEF ReconstructFails, Raise, StageTwo, files
<1>12. CASE SaveFails(r, w)
  <2>1. temp' \in [Layers \X Samples \X TempIds -> Contents]
    BY <1>2, <1>12 DEF SaveFails, Contents
  <2> QED BY <1>2, <1>3, <1>12, <2>1 DEF SaveFails, Raise, StageTwo
<1>13. CASE KillWorker(r, w)
  <2>1. run' \in [Runs -> Parents]
    BY <1>13, DeathType DEF KillWorker
  <2> QED BY <1>1, <1>2, <1>13, <2>1, WorkerType DEF KillWorker, Strike, StageTwo, files
<1> QED BY <1>4, <1>5, <1>6, <1>7, <1>8, <1>9, <1>10, <1>11, <1>12, <1>13 DEF StepWorker, Fault

-----------------------------------------------------------------------------
(* What a step of a worker does, in terms of the work it holds.            *)

(* The parts of a run that its workers' steps leave alone. *)
KeepsRun(r) ==
  /\ run'[r].pc = run[r].pc /\ run'[r].mode = run[r].mode /\ run'[r].pass = run[r].pass
  /\ run'[r].layer = run[r].layer /\ run'[r].version = run[r].version
  /\ run'[r].sunk = run[r].sunk

TaskWork(task) == {task.layer} \X task.samples

Advances(r, w) ==
  LET me == worker[<<r, w>>]
      new == worker'[<<r, w>>]
  IN  /\ UNCHANGED <<run, trace>>
      /\ me.pc # "idle" /\ new.pc \notin {"idle", "load"} /\ new.layer = me.layer
      /\ IF me.pc = "load" THEN new.version = schedule[me.layer] ELSE new.version = me.version
      /\ Work(r, w)' = Work(r, w)

Saves(r, w) ==
  LET me == worker[<<r, w>>]
      new == worker'[<<r, w>>]
  IN  /\ UNCHANGED run
      /\ me.pc = "replace"
      /\ new = Idle \/ (new.pc \notin {"idle", "load"} /\ new.layer = me.layer
                          /\ new.version = me.version)
      /\ trace' = [trace EXCEPT ![Target(r, w)] = temp[TempFile(r, w)]]
      /\ Work(r, w)' \subseteq Work(r, w) /\ Work(r, w) \subseteq Work(r, w)' \cup {Target(r, w)}

Fails(r, w) ==
  LET me == worker[<<r, w>>]
  IN  /\ UNCHANGED trace
      /\ me.pc # "idle" /\ worker'[<<r, w>>] = Idle
      /\ KeepsRun(r)
      /\ run'[r].queue = run[r].queue /\ run'[r].lost = run[r].lost
      /\ run'[r].broken = run[r].broken
      /\ run'[r].failed = run[r].failed \cup {me.layer}

Starts(r, w) ==
  LET new  == worker'[<<r, w>>]
      task == Head(run[r].queue)
  IN  /\ UNCHANGED trace
      /\ worker[<<r, w>>] = Idle /\ run[r].pc = "work"
      /\ run[r].queue # <<>> /\ ~run[r].broken
      /\ KeepsRun(r)
      /\ run'[r].queue = Tail(run[r].queue) /\ run'[r].lost = run[r].lost
      /\ run'[r].broken = run[r].broken /\ run'[r].failed = run[r].failed
      /\ \/ new = Idle
         \/ /\ new.layer = task.layer /\ new.version = run[r].version
            /\ new.pc = IF run[r].mode = "one" THEN "reconstruct" ELSE "load"
      /\ Work(r, w)' \subseteq TaskWork(task)
      /\ TaskWork(task) \subseteq Work(r, w)' \cup Present

Dies(r, w) ==
  /\ UNCHANGED trace
  /\ worker'[<<r, w>>] = Idle
  /\ HasPool(r) /\ ~run[r].broken
  /\ KeepsRun(r)
  /\ \/ /\ run[r].mode = "all" /\ run'[r].queue = <<>> /\ run'[r].broken
        /\ run'[r].lost = run[r].lost
        /\ run'[r].failed =
             run[r].failed \cup Queued(r) \cup {worker[<<r, v>>].layer : v \in Busy(r)}
     \/ /\ run[r].mode = "one" /\ run'[r].queue = run[r].queue /\ run'[r].broken = run[r].broken
        /\ run'[r].failed = run[r].failed /\ run'[r].lost = (run[r].lost \/ w \in Busy(r))

Stops(r, w) ==
  /\ UNCHANGED <<run, trace>>
  /\ run[r].broken /\ worker[<<r, w>>].pc # "idle"
  /\ worker'[<<r, w>>] = Idle

OthersGoOn(r, w) ==
  /\ \A q \in Runs : q # r => run'[q] = run[q]
  /\ \A p \in Processes : p # <<r, w>> => worker'[p] = worker[p]
  /\ UNCHANGED <<schedule, solver, solves, resolved, reported>>

(* What the fields of a run hold in every state of it. *)
LEMMA RunFields ==
  ASSUME TypeOK, NEW r \in Runs
  PROVE  /\ run[r] \in Parents
         /\ run[r].queue \in Seq(Tasks)
         /\ \A i \in DOMAIN run[r].queue :
              run[r].queue[i].layer \in Layers /\ run[r].queue[i].samples \in SUBSET Samples
         /\ run[r].failed \in SUBSET Layers /\ run[r].lost \in BOOLEAN /\ run[r].broken \in BOOLEAN
         /\ run[r].pass \in {1, 2}
<1>1. run[r] \in Parents
  BY DEF TypeOK
<1>2. <<>> \in Seq(Tasks)
  OBVIOUS
<1>3. /\ run[r].queue \in Seq(Tasks)
      /\ run[r].failed \in SUBSET Layers /\ run[r].lost \in BOOLEAN /\ run[r].broken \in BOOLEAN
      /\ run[r].pass \in {1, 2}
  <2> DEFINE me == run[r]
             Good(s) == /\ s.queue \in Seq(Tasks) /\ s.failed \in SUBSET Layers
                        /\ s.lost \in BOOLEAN /\ s.broken \in BOOLEAN /\ s.pass \in {1, 2}
  <2>0. me \in Parents /\ (Good(me) => Good(run[r]))
    BY <1>1
  <2> SUFFICES Good(me)
    BY <2>0
  <2> HIDE DEF me
  <2>1. CASE me = RunOff
    BY <1>2, <2>1 DEF RunOff
  <2>2. CASE me \in OneLoading
    BY <1>2, <2>2 DEF OneLoading
  <2>3. CASE me \in OneWorking
    BY <2>3 DEF OneWorking
  <2>4. CASE me \in AllWorking
    BY <2>4 DEF AllWorking
  <2> QED BY <2>0, <2>1, <2>2, <2>3, <2>4 DEF Parents
<1>4. \A i \in DOMAIN run[r].queue : run[r].queue[i] \in Tasks
  BY <1>3
<1> QED BY <1>1, <1>3, <1>4 DEF Tasks

(* Failing touches two fields only. *)
LEMMA FailingFields ==
  ASSUME NEW state \in OneWorking \cup AllWorking, NEW layers \in SUBSET Layers, NEW own
  PROVE  LET new == Failing(state, layers, own)
         IN  /\ new.failed = state.failed \cup layers
             /\ new.pc = state.pc /\ new.mode = state.mode /\ new.pass = state.pass
             /\ new.layer = state.layer /\ new.version = state.version /\ new.sunk = state.sunk
             /\ new.queue = state.queue /\ new.lost = state.lost /\ new.broken = state.broken
             /\ DOMAIN new = DOMAIN state
BY DEF Failing, OneWorking, AllWorking

(* What one process becoming something does to all of them. *)
LEMMA BecomeEffect ==
  ASSUME TypeOK, NEW r \in Runs, NEW w \in Workers, NEW state, Become(r, w, state)
  PROVE  /\ worker'[<<r, w>>] = state
         /\ \A p \in Processes : p # <<r, w>> => worker'[p] = worker[p]
BY DEF Become, TypeOK, Processes

(* A raising task fails its layer in its run.                              *)
LEMMA RaisesEffect ==
  ASSUME TypeOK, EmployedOK, NEW r \in Runs, NEW w \in Workers, worker[<<r, w>>].pc # "idle",
         TaskRaises(r, w), StageTwo, UNCHANGED trace
  PROVE  OthersGoOn(r, w) /\ Fails(r, w)
<1> DEFINE l == worker[<<r, w>>].layer
           new == Failing(run[r], {l}, {l})
<1>1. run[r] \in OneWorking \cup AllWorking
  BY ParentsByPc DEF EmployedOK, TypeOK
<1>2. l \in Layers
  BY WorkerStatesByPc DEF TypeOK, Processes, WorkerLoading, WorkerReady, WorkerSaving
<1>3. run' = [run EXCEPT ![r] = new]
  BY DEF TaskRaises
<1>4. run'[r] = new /\ \A q \in Runs : q # r => run'[q] = run[q]
  BY <1>3 DEF TypeOK
<1>5. worker'[<<r, w>>] = Idle /\ \A p \in Processes : p # <<r, w>> => worker'[p] = worker[p]
  BY BecomeEffect DEF TaskRaises
<1>6. Fails(r, w)
  BY <1>1, <1>2, <1>4, <1>5, FailingFields DEF Fails, KeepsRun
<1> QED BY <1>4, <1>5, <1>6 DEF OthersGoOn, TaskRaises, StageTwo

(* The work of an idle and of a busy worker. *)
LEMMA WorkOf ==
  ASSUME NEW r \in Runs, NEW w \in Workers
  PROVE  /\ worker[<<r, w>>] = Idle => Work(r, w) = {}
         /\ worker[<<r, w>>].pc # "idle" =>
              Work(r, w) = {worker[<<r, w>>].layer}
                             \X (worker[<<r, w>>].left \cup worker[<<r, w>>].batch)
         /\ worker'[<<r, w>>] = Idle => Work(r, w)' = {}
         /\ worker'[<<r, w>>].pc # "idle" =>
              Work(r, w)' = {worker'[<<r, w>>].layer}
                             \X (worker'[<<r, w>>].left \cup worker'[<<r, w>>].batch)
BY IdleType DEF Work

(* A task taken by a worker: nothing of it is forgotten unless it is there. *)
LEMMA TakeEffect ==
  ASSUME TypeOK, NEW r \in Runs, NEW w \in Workers, TakeTask(r, w)
  PROVE  OthersGoOn(r, w) /\ Starts(r, w)
<1> DEFINE me   == run[r]
           task == Head(me.queue)
           left == IF me.mode = "one" THEN task.samples
                   ELSE {s \in task.samples : trace[<<task.layer, s>>] = Missing}
           start == IF me.mode = "one" THEN "reconstruct" ELSE "load"
           busy == [Idle EXCEPT !.pc = start, !.layer = task.layer, !.left = left,
                                !.version = me.version]
           new  == [me EXCEPT !.queue = Tail(me.queue)]
<1>1. Takes(r, w) = IF left = {} THEN Idle ELSE busy
  BY DEF Takes
<1>2. worker'[<<r, w>>] = Takes(r, w)
      /\ \A p \in Processes : p # <<r, w>> => worker'[p] = worker[p]
  BY BecomeEffect DEF TakeTask
<1>3. run' = [run EXCEPT ![r] = new] /\ me \in OneWorking \cup AllWorking
  BY ParentsByPc DEF TakeTask, TypeOK
<1>4. run'[r] = new /\ \A q \in Runs : q # r => run'[q] = run[q]
  BY <1>3 DEF TypeOK
<1>5. worker[<<r, w>>] = Idle
  BY WorkerStatesByPc DEF TakeTask, TypeOK, Processes
<1>6. task \in Tasks
  BY TakesType DEF TakeTask
<1>7. task.layer \in Layers /\ task.samples \in SUBSET Samples
  BY <1>6 DEF Tasks
<1>8. KeepsRun(r) /\ run'[r].queue = Tail(me.queue) /\ run'[r].lost = me.lost
      /\ run'[r].broken = me.broken /\ run'[r].failed = me.failed
  <2> HIDE DEF me
  <2>1. /\ new.pc = me.pc /\ new.mode = me.mode /\ new.pass = me.pass /\ new.layer = me.layer
        /\ new.version = me.version /\ new.sunk = me.sunk /\ new.queue = Tail(me.queue)
        /\ new.lost = me.lost /\ new.broken = me.broken /\ new.failed = me.failed
    BY <1>3 DEF OneWorking, AllWorking
  <2> HIDE DEF new
  <2> QED BY <1>4, <2>1 DEF KeepsRun, me
<1>9. /\ busy.pc = start /\ busy.layer = task.layer /\ busy.left = left
      /\ busy.version = me.version /\ busy.batch = {} /\ start # "idle"
  <2> HIDE DEF left, me, task
  <2> QED BY DEF Idle
<1>10. {task.layer} \X task.samples \subseteq ({task.layer} \X left) \cup Present
  BY <1>7 DEF Present, Traces
<1>11. CASE left = {}
  <2>1. Work(r, w)' = {} /\ worker'[<<r, w>>] = Idle
    BY <1>1, <1>2, <1>11, WorkOf
  <2>2. TaskWork(task) \subseteq Present
    <3> HIDE DEF left
    <3> QED BY <1>10, <1>11 DEF TaskWork
  <2>3. Starts(r, w)
    <3> HIDE DEF task, left, busy, new
    <3> QED BY <1>5, <1>8, <2>1, <2>2 DEF Starts, TakeTask, me, task
  <2> QED BY <1>2, <1>4, <2>3 DEF OthersGoOn, TakeTask, StageTwo
<1>12. CASE left # {}
  <2>1. worker'[<<r, w>>] = busy
    BY <1>1, <1>2, <1>12
  <2> HIDE DEF busy
  <2>2. Work(r, w)' = {task.layer} \X left
    <3> HIDE DEF left, start
    <3>1. Work(r, w)' = {busy.layer} \X (busy.left \cup busy.batch)
      BY <1>9, <2>1, WorkOf
    <3> HIDE DEF task
    <3> QED BY <1>9, <3>1
  <2>3. left \subseteq task.samples
    BY <1>7
  <2> HIDE DEF left
  <2>4. Work(r, w)' \subseteq TaskWork(task) /\ TaskWork(task) \subseteq Work(r, w)' \cup Present
    BY <1>10, <2>2, <2>3 DEF TaskWork
  <2>5. Starts(r, w)
    <3> HIDE DEF task, new
    <3> QED BY <1>5, <1>8, <1>9, <2>1, <2>4 DEF Starts, TakeTask, me, task, start
  <2> QED BY <1>2, <1>4, <2>5 DEF OthersGoOn, TakeTask, StageTwo
<1> QED BY <1>11, <1>12

(* A worker that dies takes its pool with it, or only what it was doing.   *)
LEMMA DeathEffect ==
  ASSUME TypeOK, NEW r \in Runs, NEW w \in Workers, KillWorker(r, w)
  PROVE  OthersGoOn(r, w) /\ Dies(r, w)
<1> DEFINE me == run[r]
<1>1. worker'[<<r, w>>] = Idle /\ \A p \in Processes : p # <<r, w>> => worker'[p] = worker[p]
  BY BecomeEffect DEF KillWorker
<1>2. \A v \in Busy(r) : worker[<<r, v>>].layer \in Layers
  BY WorkerStatesByPc DEF Busy, TypeOK, Processes, WorkerLoading, WorkerReady, WorkerSaving
<1>3. run \in [Runs -> Parents] /\ me \in Parents /\ me.pc = "work" /\ me.mode \in {"one", "all"}
  BY ParentsByPc DEF TypeOK, KillWorker, HasPool
<1>4. CASE me.mode = "all"
  <2> DEFINE own == IF w \in Busy(r) THEN {worker[<<r, w>>].layer} ELSE {}
             all == Queued(r) \cup {worker[<<r, v>>].layer : v \in Busy(r)}
             mid == Failing(me, all, own)
             new == [mid EXCEPT !.broken = TRUE, !.queue = <<>>]
  <2>1. me \in AllWorking
    BY <1>3, <1>4, ParentsByPc
  <2>2. all \in SUBSET Layers
    BY <1>2, RunFields DEF Queued
  <2>3. run' = [run EXCEPT ![r] = new]
    BY <1>4 DEF KillWorker, BreakPool
  <2>4. run'[r] = new /\ \A q \in Runs : q # r => run'[q] = run[q]
    BY <1>3, <2>3
  <2> HIDE DEF own, all, me
  <2>5. /\ mid.failed = me.failed \cup all
        /\ mid.pc = me.pc /\ mid.mode = me.mode /\ mid.pass = me.pass
        /\ mid.layer = me.layer /\ mid.version = me.version /\ mid.sunk = me.sunk
        /\ mid.lost = me.lost /\ DOMAIN mid = DOMAIN me
    BY <2>1, <2>2, FailingFields
  <2> HIDE DEF mid
  <2>6. /\ new.failed = mid.failed /\ new.pc = mid.pc /\ new.mode = mid.mode
        /\ new.pass = mid.pass /\ new.layer = mid.layer /\ new.version = mid.version
        /\ new.sunk = mid.sunk /\ new.broken = TRUE /\ new.queue = <<>>
        /\ new.lost = mid.lost
    BY <2>1, <2>5 DEF AllWorking
  <2> HIDE DEF new
  <2>7. KeepsRun(r)
    BY <2>4, <2>5, <2>6 DEF KeepsRun, me
  <2>8. Dies(r, w)
    BY <1>1, <1>4, <2>4, <2>5, <2>6, <2>7 DEF Dies, KillWorker, files, all, me
  <2> QED BY <1>1, <2>4, <2>8 DEF OthersGoOn, KillWorker, Strike, files
<1>5. CASE me.mode = "one"
  <2> DEFINE lost == me.lost \/ w \in Busy(r)
             new == [me EXCEPT !.lost = lost]
  <2>1. me \in OneWorking
    BY <1>3, <1>5, ParentsByPc
  <2>2. run' = [run EXCEPT ![r] = new]
    BY <1>5 DEF KillWorker, LoseChunk
  <2>3. run'[r] = new /\ \A q \in Runs : q # r => run'[q] = run[q]
    BY <1>3, <2>2
  <2> HIDE DEF me, lost
  <2>4. /\ new.failed = me.failed /\ new.pc = me.pc /\ new.mode = me.mode
        /\ new.pass = me.pass /\ new.layer = me.layer /\ new.version = me.version
        /\ new.sunk = me.sunk /\ new.broken = me.broken /\ new.queue = me.queue
        /\ new.lost = lost
    BY <2>1 DEF OneWorking
  <2> HIDE DEF new
  <2>5. KeepsRun(r)
    BY <2>3, <2>4 DEF KeepsRun, me
  <2>6. Dies(r, w)
    BY <1>1, <1>5, <2>3, <2>4, <2>5 DEF Dies, KillWorker, files, lost, me
  <2> QED BY <1>1, <2>3, <2>6 DEF OthersGoOn, KillWorker, Strike, files
<1> QED BY <1>3, <1>4, <1>5

WorkerKind(r, w) ==
  \/ Advances(r, w) \/ Saves(r, w) \/ Fails(r, w) \/ Starts(r, w) \/ Dies(r, w) \/ Stops(r, w)

(* Every step of a worker is of one of six kinds.                          *)
LEMMA WorkerStepKinds ==
  ASSUME TypeOK, EmployedOK, NEW r \in Runs, NEW w \in Workers,
         StepWorker(r, w) \/ Fault(r, w)
  PROVE  OthersGoOn(r, w) /\ WorkerKind(r, w)
<1> DEFINE me == worker[<<r, w>>]
<1>1. me \in WorkerStates
  BY DEF TypeOK, Processes
<1>2. ASSUME NEW state, Become(r, w, state), StageTwo, UNCHANGED <<run, trace, reported>>,
             me.pc \notin {"idle", "replace"}, state.pc \notin {"idle", "load"},
             state.layer = me.layer, state.left \cup state.batch = me.left \cup me.batch,
             IF me.pc = "load" THEN state.version = schedule[me.layer]
             ELSE state.version = me.version
      PROVE  OthersGoOn(r, w) /\ WorkerKind(r, w)
  <2>1. worker'[<<r, w>>] = state /\ \A p \in Processes : p # <<r, w>> => worker'[p] = worker[p]
    BY <1>2, BecomeEffect
  <2>2. Work(r, w)' = Work(r, w)
    <3>1. Work(r, w) = {me.layer} \X (me.left \cup me.batch)
      BY <1>2, WorkOf
    <3>2. Work(r, w)' = {state.layer} \X (state.left \cup state.batch)
      BY <1>2, <2>1, WorkOf
    <3> QED BY <1>2, <3>1, <3>2
  <2>3. Advances(r, w)
    BY <1>2, <2>1, <2>2 DEF Advances
  <2> QED BY <1>2, <2>1, <2>3 DEF OthersGoOn, StageTwo, WorkerKind
<1>3. CASE TakeTask(r, w)
  BY <1>3, TakeEffect DEF WorkerKind
<1>4. CASE LoadSchedule(r, w)
  <2>1. CASE schedule[me.layer] \in Versions
    <3> DEFINE new == [me EXCEPT !.pc = "reconstruct", !.version = schedule[me.layer]]
    <3>1. me \in WorkerLoading
      BY <1>1, <1>4, WorkerStatesByPc DEF LoadSchedule
    <3>2. Become(r, w, new) /\ StageTwo /\ UNCHANGED <<run, trace, reported>> /\ me.pc = "load"
      BY <1>4, <2>1 DEF LoadSchedule
    <3> HIDE DEF me
    <3>3. /\ new.pc = "reconstruct" /\ new.layer = me.layer /\ new.left = me.left
          /\ new.batch = me.batch /\ new.version = schedule[me.layer]
      BY <3>1 DEF WorkerLoading
    <3> HIDE DEF new
    <3> QED BY <1>2, <3>2, <3>3
  <2>2. CASE schedule[me.layer] \notin Versions
    BY <1>4, <2>2, RaisesEffect DEF LoadSchedule, WorkerKind
  <2> QED BY <2>1, <2>2
<1>5. CASE Reconstruct(r, w)
  <2> DEFINE left  == me.left
             batch == IF run[r].mode = "one" THEN left ELSE Slice(left, BatchSize, 1)
             new   == [me EXCEPT !.pc = "save", !.left = left \ batch, !.batch = batch]
  <2>1. me \in WorkerReady
    BY <1>1, <1>5, WorkerStatesByPc DEF Reconstruct
  <2>2. left \in SUBSET Samples /\ left # {}
    BY <2>1 DEF WorkerReady
  <2>3. batch \subseteq left
    BY <2>2, FirstSliceNotEmpty
  <2>4. Become(r, w, new) /\ StageTwo /\ UNCHANGED <<run, trace, reported>>
        /\ me.pc = "reconstruct"
    BY <1>5 DEF Reconstruct
  <2> HIDE DEF me, batch
  <2>5. /\ new.pc = "save" /\ new.layer = me.layer /\ new.left = left \ batch
        /\ new.batch = batch /\ new.version = me.version /\ me.batch = {}
    BY <2>1 DEF WorkerReady
  <2> HIDE DEF new
  <2>6. new.left \cup new.batch = me.left \cup me.batch
    BY <2>3, <2>5
  <2> QED BY <1>2, <2>4, <2>5, <2>6
<1>6. ASSUME NEW id \in TempIds, MakeTemp(r, w, id)
      PROVE  OthersGoOn(r, w) /\ WorkerKind(r, w)
  <2> DEFINE new == [me EXCEPT !.pc = "write", !.id = id]
  <2>1. me \in WorkerSaving
    BY <1>1, <1>6, WorkerStatesByPc DEF MakeTemp
  <2>2. Become(r, w, new) /\ StageTwo /\ UNCHANGED <<run, trace, reported>> /\ me.pc = "save"
    BY <1>6 DEF MakeTemp
  <2> HIDE DEF me
  <2>3. /\ new.pc = "write" /\ new.layer = me.layer /\ new.left = me.left
        /\ new.batch = me.batch /\ new.version = me.version
    BY <2>1 DEF WorkerSaving
  <2> HIDE DEF new
  <2> QED BY <1>2, <2>2, <2>3
<1>7. CASE WriteTemp(r, w)
  <2> DEFINE new == [me EXCEPT !.pc = "replace"]
  <2>1. me \in WorkerSaving
    BY <1>1, <1>7, WorkerStatesByPc DEF WriteTemp
  <2>2. Become(r, w, new) /\ StageTwo /\ UNCHANGED <<run, trace, reported>> /\ me.pc = "write"
    BY <1>7 DEF WriteTemp
  <2> HIDE DEF me
  <2>3. /\ new.pc = "replace" /\ new.layer = me.layer /\ new.left = me.left
        /\ new.batch = me.batch /\ new.version = me.version
    BY <2>1 DEF WorkerSaving
  <2> HIDE DEF new
  <2> QED BY <1>2, <2>2, <2>3
<1>8. CASE Replace(r, w)
  <2> DEFINE batch == me.batch \ {Smallest(me.batch)}
             next  == IF batch # {} THEN "save" ELSE "reconstruct"
             busy  == [me EXCEPT !.pc = next, !.batch = batch, !.id = Idle.id]
  <2>1. me \in WorkerSaving /\ me.pc = "replace"
    BY <1>8, TargetType DEF Replace
  <2>2. worker'[<<r, w>>] = (IF batch = {} /\ me.left = {} THEN Idle ELSE busy)
        /\ \A p \in Processes : p # <<r, w>> => worker'[p] = worker[p]
    BY <1>8, BecomeEffect DEF Replace, AfterSave
  <2>3. Target(r, w) = <<me.layer, Smallest(me.batch)>>
    BY DEF Target
  <2>4. Work(r, w) = {me.layer} \X (me.left \cup me.batch)
    BY <2>1, WorkOf
  <2>5. /\ busy.pc \notin {"idle", "load"} /\ busy.layer = me.layer /\ busy.left = me.left
        /\ busy.batch = batch /\ busy.version = me.version
    <3> HIDE DEF me, batch
    <3> QED BY <2>1 DEF WorkerSaving
  <2>6. Work(r, w)' = {me.layer} \X (me.left \cup batch)
    <3>1. CASE batch = {} /\ me.left = {}
      BY <2>2, <3>1, WorkOf
    <3>2. CASE ~(batch = {} /\ me.left = {})
      <4> HIDE DEF busy
      <4>1. Work(r, w)' = {busy.layer} \X (busy.left \cup busy.batch)
        BY <2>2, <2>5, <3>2, WorkOf
      <4> QED BY <2>5, <4>1
    <3> QED BY <3>1, <3>2
  <2>7. /\ Work(r, w)' \subseteq Work(r, w)
        /\ Work(r, w) \subseteq Work(r, w)' \cup {Target(r, w)}
    <3> HIDE DEF me
    <3> QED BY <2>3, <2>4, <2>6
  <2>8. Saves(r, w)
    <3> HIDE DEF busy, batch
    <3> QED BY <1>8, <2>1, <2>2, <2>5, <2>7 DEF Saves, Replace
  <2> QED BY <1>8, <2>2, <2>8 DEF OthersGoOn, Replace, StageTwo, WorkerKind
<1>9. CASE Terminate(r, w)
  <2>1. worker'[<<r, w>>] = Idle /\ \A p \in Processes : p # <<r, w>> => worker'[p] = worker[p]
    BY <1>9, BecomeEffect DEF Terminate
  <2> QED
    BY <1>9, <2>1 DEF Terminate, Busy, Stops, OthersGoOn, WorkerKind, files, counters
<1>10. CASE ReconstructFails(r, w)
  BY <1>10, RaisesEffect DEF ReconstructFails, Raise, StageTwo, files, WorkerKind
<1>11. CASE SaveFails(r, w)
  BY <1>11, RaisesEffect DEF SaveFails, Raise, StageTwo, WorkerKind
<1>12. CASE KillWorker(r, w)
  BY <1>12, DeathEffect DEF WorkerKind
<1> QED BY <1>3, <1>4, <1>5, <1>6, <1>7, <1>8, <1>9, <1>10, <1>11, <1>12 DEF StepWorker, Fault

-----------------------------------------------------------------------------
(* Who works for whom.                                                     *)

ParentStep(r) ==
  \/ StartAll(r)
  \/ \E l \in Layers, force \in BOOLEAN : StartOne(r, l, force)
  \/ StepParent(r) \/ KillRun(r) \/ TimeLimit(r)

(* A parent goes on only when nobody works for it, or it takes them along. *)
LEMMA ParentStepRests ==
  ASSUME TypeOK, EmployedOK, NEW r \in Runs, ParentStep(r)
  PROVE  /\ \A q \in Runs : q # r => run'[q] = run[q]
         /\ \A w \in Workers : worker'[<<r, w>>] = Idle
         /\ \A q \in Runs, w \in Workers : q # r => worker'[<<q, w>>] = worker[<<q, w>>]
         /\ UNCHANGED <<schedule, trace, temp, solver, solves, resolved>>
<1>1. ASSUME run[r].pc # "work" \/ Resting(r)
      PROVE  \A w \in Workers : worker[<<r, w>>] = Idle
  <2> SUFFICES ASSUME NEW w \in Workers PROVE worker[<<r, w>>] = Idle
    OBVIOUS
  <2>1. worker[<<r, w>>].pc = "idle"
    BY <1>1 DEF EmployedOK, Resting
  <2> QED BY <2>1, WorkerStatesByPc DEF TypeOK, Processes
<1>2. ASSUME NEW state, run' = [run EXCEPT ![r] = state]
      PROVE  \A q \in Runs : q # r => run'[q] = run[q]
  BY <1>2 DEF TypeOK
<1>3. CASE StartAll(r)
  BY <1>1, <1>2, <1>3 DEF StartAll, ParentOnly, StageTwo
<1>4. ASSUME NEW l \in Layers, NEW force \in BOOLEAN, StartOne(r, l, force)
      PROVE  /\ \A q \in Runs : q # r => run'[q] = run[q]
             /\ run[r].pc # "work" /\ ParentOnly
  BY <1>4 DEF StartOne, TypeOK
<1>5. CASE LoadInParent(r)
  <2>1. \A q \in Runs : q # r => run'[q] = run[q]
    BY <1>5 DEF LoadInParent, TypeOK
  <2> QED BY <1>1, <1>5, <2>1 DEF LoadInParent, ParentOnly, StageTwo
<1>6. CASE EndPass(r)
  <2>1. \A q \in Runs : q # r => run'[q] = run[q]
    BY <1>6 DEF EndPass, TypeOK
  <2> QED BY <1>1, <1>6, <2>1 DEF EndPass, PassOver, ParentOnly, StageTwo
<1>7. CASE EndOne(r)
  BY <1>1, <1>2, <1>7 DEF EndOne, PassOver, ParentOnly, StageTwo
<1>8. ASSUME Vanish(r)
      PROVE  /\ \A q \in Runs : q # r => run'[q] = run[q]
             /\ \A w \in Workers : worker'[<<r, w>>] = Idle
             /\ \A q \in Runs, w \in Workers : q # r => worker'[<<q, w>>] = worker[<<q, w>>]
             /\ UNCHANGED <<schedule, trace, temp, solver, resolved>>
  BY <1>2, <1>8 DEF Vanish
<1>9. CASE KillRun(r)
  BY <1>8, <1>9 DEF KillRun, Strike
<1>10. CASE TimeLimit(r)
  BY <1>8, <1>10 DEF TimeLimit, counters
<1>11. CASE \E l \in Layers, force \in BOOLEAN : StartOne(r, l, force)
  BY <1>1, <1>4, <1>11 DEF ParentOnly, StageTwo
<1> QED BY <1>3, <1>5, <1>6, <1>7, <1>9, <1>10, <1>11 DEF ParentStep, StepParent

SolverStep == StepSolver \/ KillSolver \/ \E force \in BOOLEAN : StartSolver(force)

(* The steps of the program, sorted. *)
LEMMA NextSorted ==
  ASSUME Next
  PROVE  \/ SolverStep
         \/ \E r \in Runs : ParentStep(r)
         \/ \E r \in Runs, w \in Workers : StepWorker(r, w) \/ Fault(r, w)
BY DEF Next, SolverStep, ParentStep

(* Stage 1 touches nothing of stage 2. *)
LEMMA SolverStepStages ==
  ASSUME SolverStep
  PROVE  StageOne
BY DEF SolverStep, StepSolver, KillSolver, StartSolver, SkipSchedule, SolveFails, OpenSchedule,
       CloseSchedule, WriteScheduleFails, SolverReturns

(* EmployedOK is kept by every step.                                       *)
LEMMA EmployedStep ==
  ASSUME TypeOK, EmployedOK, QueuesOK, [Next]_vars
  PROVE  EmployedOK'
<1>1. CASE UNCHANGED vars
  BY <1>1 DEF vars, EmployedOK
<1>2. CASE SolverStep
  BY <1>2, SolverStepStages DEF StageOne, EmployedOK
<1>3. ASSUME NEW r \in Runs, ParentStep(r) PROVE EmployedOK'
  <2> SUFFICES ASSUME NEW q \in Runs, NEW v \in Workers, worker'[<<q, v>>].pc # "idle"
               PROVE  /\ run'[q].pc = "work"
                      /\ run'[q].mode = "one" =>
                           worker'[<<q, v>>].pc # "load"
                             /\ worker'[<<q, v>>].layer = run'[q].layer
                      /\ run'[q].broken => worker'[<<q, v>>].layer \in run'[q].failed
    BY DEF EmployedOK
  <2>1. q # r
    BY <1>3, ParentStepRests, IdleType
  <2>2. run'[q] = run[q] /\ worker'[<<q, v>>] = worker[<<q, v>>]
    BY <1>3, <2>1, ParentStepRests
  <2> QED BY <2>2 DEF EmployedOK
<1>4. ASSUME NEW r \in Runs, NEW w \in Workers, StepWorker(r, w) \/ Fault(r, w) PROVE EmployedOK'
  <2> SUFFICES ASSUME NEW q \in Runs, NEW v \in Workers, worker'[<<q, v>>].pc # "idle"
               PROVE  /\ run'[q].pc = "work"
                      /\ run'[q].mode = "one" =>
                           worker'[<<q, v>>].pc # "load"
                             /\ worker'[<<q, v>>].layer = run'[q].layer
                      /\ run'[q].broken => worker'[<<q, v>>].layer \in run'[q].failed
    BY DEF EmployedOK
  <2>1. OthersGoOn(r, w) /\ WorkerKind(r, w)
    BY <1>4, WorkerStepKinds
  <2> DEFINE me == worker[<<r, w>>]
             new == worker'[<<r, w>>]
  <2>2. CASE q # r
    <3>1. run'[q] = run[q] /\ worker'[<<q, v>>] = worker[<<q, v>>]
      BY <2>1, <2>2 DEF OthersGoOn, Processes
    <3> QED BY <3>1 DEF EmployedOK
  <2>3. CASE q = r /\ v # w
    <3>1. worker'[<<r, v>>] = worker[<<r, v>>]
      BY <2>1, <2>3 DEF OthersGoOn, Processes
    <3>2. /\ run[r].pc = "work"
          /\ run[r].mode = "one" =>
               worker[<<r, v>>].pc # "load" /\ worker[<<r, v>>].layer = run[r].layer
          /\ run[r].broken => worker[<<r, v>>].layer \in run[r].failed
      BY <2>3, <3>1 DEF EmployedOK
    <3>3. CASE Advances(r, w) \/ Saves(r, w) \/ Stops(r, w)
      BY <2>3, <3>1, <3>2, <3>3 DEF Advances, Saves, Stops
    <3>4. CASE Fails(r, w) \/ Starts(r, w)
      BY <2>3, <3>1, <3>2, <3>4 DEF Fails, Starts, KeepsRun
    <3>5. CASE Dies(r, w)
      <4>1. v \in Busy(r)
        BY <2>3, <3>1 DEF Busy
      <4>2. run'[r].mode = "one" => ~run'[r].broken
        BY <3>5 DEF Dies, KeepsRun
      <4>3. run'[r].mode # "one" => worker[<<r, v>>].layer \in run'[r].failed
        BY <3>5, <4>1 DEF Dies, KeepsRun
      <4> QED BY <2>3, <3>1, <3>2, <3>5, <4>2, <4>3 DEF Dies, KeepsRun
    <3> QED BY <2>1, <3>3, <3>4, <3>5 DEF WorkerKind
  <2>4. CASE q = r /\ v = w
    <3>1. new.pc # "idle" /\ new # Idle
      BY <2>4, IdleType
    <3>2. CASE Advances(r, w) \/ Saves(r, w)
      <4>1. /\ me.pc # "idle" /\ run' = run /\ new.pc # "load" /\ new.layer = me.layer
        BY <3>1, <3>2 DEF Advances, Saves
      <4> QED BY <2>4, <4>1 DEF EmployedOK
    <3>3. CASE Starts(r, w)
      <4>1. Head(run[r].queue) = run[r].queue[1] /\ 1 \in DOMAIN run[r].queue
        BY <3>3, RunFields DEF Starts
      <4>2. run[r].mode = "one" => Head(run[r].queue).layer = run[r].layer
        BY <4>1 DEF QueuesOK
      <4> QED BY <2>4, <3>1, <3>3, <4>2 DEF Starts, KeepsRun
    <3>4. CASE Fails(r, w) \/ Dies(r, w) \/ Stops(r, w)
      BY <3>1, <3>4 DEF Fails, Dies, Stops
    <3> QED BY <2>1, <3>2, <3>3, <3>4 DEF WorkerKind
  <2> QED BY <2>2, <2>3, <2>4
<1> QED BY <1>1, <1>2, <1>3, <1>4, NextSorted

(* What a parent is after one of its steps.                                *)
LEMMA ParentStepRun ==
  ASSUME TypeOK, NEW r \in Runs, ParentStep(r)
  PROVE  \/ run'[r] = RunOff
         \/ run[r].pc = "off" /\ run'[r] = Pass(1, {})
         \/ /\ run[r].pc = "work" /\ run[r].mode = "all" /\ run[r].pass = 1
            /\ run'[r] = Pass(2, run[r].failed)
         \/ \E l \in Layers, todo \in SUBSET Samples :
              /\ {s \in Samples : trace[<<l, s>>] = Missing} \subseteq todo
              /\ run'[r] \in OneLoading /\ run'[r].layer = l /\ run'[r].todo = todo
         \/ LET l == run[r].layer
                chunks == Chunks(run[r].todo)
            IN  /\ run[r] \in OneLoading /\ run[r].pc = "load"
                /\ l \in Layers /\ run[r].todo \in SUBSET Samples /\ schedule[l] \in Versions
                /\ run'[r].pc = "work" /\ run'[r].mode = "one" /\ run'[r].layer = l
                /\ run'[r].version = schedule[l] /\ ~run'[r].broken
                /\ run'[r].queue = [i \in DOMAIN chunks |-> [layer |-> l, samples |-> chunks[i]]]
<1>1. ASSUME NEW state, run' = [run EXCEPT ![r] = state] PROVE run'[r] = state
  BY <1>1 DEF TypeOK
<1>2. run[r] \in Parents
  BY DEF TypeOK
<1>3. CASE StartAll(r)
  BY <1>1, <1>3 DEF StartAll
<1>4. ASSUME NEW l \in Layers, NEW force \in BOOLEAN, StartOne(r, l, force)
      PROVE  \E todo \in SUBSET Samples :
               /\ {s \in Samples : trace[<<l, s>>] = Missing} \subseteq todo
               /\ run'[r] \in OneLoading /\ run'[r].layer = l /\ run'[r].todo = todo
  <2> DEFINE todo == {s \in Samples : force \/ trace[<<l, s>>] = Missing}
             new  == [RunOff EXCEPT !.pc = "load", !.mode = "one", !.layer = l, !.todo = todo]
  <2>1. todo \in SUBSET Samples /\ {s \in Samples : trace[<<l, s>>] = Missing} \subseteq todo
    OBVIOUS
  <2>2. run'[r] = new
    BY <1>1, <1>4 DEF StartOne
  <2> HIDE DEF todo
  <2>3. new \in OneLoading /\ new.layer = l /\ new.todo = todo
    BY <2>1 DEF RunOff, OneLoading
  <2> QED BY <2>1, <2>2, <2>3
<1>5. CASE LoadInParent(r)
  <2> DEFINE l == run[r].layer
             chunks == Chunks(run[r].todo)
             queue == [i \in DOMAIN chunks |-> [layer |-> l, samples |-> chunks[i]]]
             new == [run[r] EXCEPT !.pc = "work", !.version = schedule[l], !.queue = queue]
  <2>1. run[r] \in OneLoading /\ run[r].pc = "load"
    BY <1>2, <1>5, ParentsByPc DEF LoadInParent
  <2>2. run'[r] = IF schedule[l] \in Versions THEN new ELSE RunOff
    BY <1>1, <1>5 DEF LoadInParent
  <2> HIDE DEF l, queue, chunks
  <2>3. /\ new.pc = "work" /\ new.mode = "one" /\ new.layer = run[r].layer
        /\ new.version = schedule[l] /\ ~new.broken /\ new.queue = queue
        /\ run[r].layer \in Layers /\ run[r].todo \in SUBSET Samples
    BY <2>1 DEF OneLoading
  <2> HIDE DEF new
  <2> QED BY <2>1, <2>2, <2>3 DEF l, queue, chunks
<1>6. CASE EndPass(r)
  <2>1. run'[r] = IF run[r].pass = 1 THEN Pass(2, run[r].failed) ELSE RunOff
    BY <1>1, <1>6 DEF EndPass
  <2> QED BY <1>6, <2>1 DEF EndPass, PassOver
<1>7. CASE EndOne(r)
  BY <1>1, <1>7 DEF EndOne
<1>8. CASE KillRun(r) \/ TimeLimit(r)
  BY <1>1, <1>8 DEF KillRun, TimeLimit, Vanish
<1> QED BY <1>3, <1>4, <1>5, <1>6, <1>7, <1>8 DEF ParentStep, StepParent

(* The tasks behind the first one. *)
LEMMA TailTasks ==
  ASSUME TypeOK, NEW r \in Runs, run[r].queue # <<>>
  PROVE  /\ 1 \in DOMAIN run[r].queue /\ Head(run[r].queue) = run[r].queue[1]
         /\ \A i \in DOMAIN Tail(run[r].queue) :
              i + 1 \in DOMAIN run[r].queue /\ Tail(run[r].queue)[i] = run[r].queue[i + 1]
         /\ \A j \in DOMAIN run[r].queue :
              j # 1 => j - 1 \in DOMAIN Tail(run[r].queue)
         /\ DOMAIN Tail(run[r].queue) \subseteq Nat /\ DOMAIN run[r].queue \subseteq Nat
<1>1. PICK q : q = run[r].queue
  OBVIOUS
<1>2. q \in Seq(Tasks) /\ q # <<>>
  BY <1>1, RunFields
<1>3. Len(q) \in Nat /\ Len(q) # 0 /\ DOMAIN q = 1 .. Len(q)
  BY <1>2
<1>4. Head(q) = q[1] /\ DOMAIN Tail(q) = 1 .. Len(q) - 1
      /\ \A i \in 1 .. Len(q) - 1 : Tail(q)[i] = q[i + 1]
  BY <1>2, <1>3
<1> QED BY <1>1, <1>3, <1>4

(* QueuesOK is kept by every step.                                         *)
LEMMA QueuesStep ==
  ASSUME TypeOK, EmployedOK, QueuesOK, [Next]_vars
  PROVE  QueuesOK'
<1> DEFINE Good(q) ==
      /\ \A i \in DOMAIN run[q].queue :
           IF run[q].mode = "one" THEN run[q].queue[i].layer = run[q].layer
           ELSE run[q].queue[i].samples = PassSamples(run[q].pass)
      /\ run[q].broken => run[q].queue = <<>>
<1>1. ASSUME NEW q \in Runs, run'[q] = run[q] PROVE Good(q)'
  BY <1>1 DEF QueuesOK
<1>2. CASE UNCHANGED vars
  BY <1>1, <1>2 DEF vars, QueuesOK
<1>3. CASE SolverStep
  BY <1>1, <1>3, SolverStepStages DEF StageOne, QueuesOK
<1>4. ASSUME NEW r \in Runs, ParentStep(r) PROVE QueuesOK'
  <2>1. ASSUME run'[r] = RunOff PROVE Good(r)'
    BY <2>1 DEF RunOff
  <2>2. ASSUME NEW n \in {1, 2}, NEW sunk \in SUBSET Layers, run'[r] = Pass(n, sunk)
        PROVE  Good(r)'
    <3>1. /\ run'[r].mode = "all" /\ run'[r].pass = n /\ ~run'[r].broken
          /\ run'[r].queue =
               [i \in DOMAIN LayerList |-> [layer |-> LayerList[i], samples |-> PassSamples(n)]]
      BY <2>2, PassType
    <3> QED BY <3>1
  <2>3. ASSUME run'[r] \in OneLoading PROVE Good(r)'
    <3>1. run'[r].queue = <<>> /\ ~run'[r].broken
      BY <2>3 DEF OneLoading
    <3> QED BY <3>1
  <2>4. ASSUME NEW chunks, NEW l, run'[r].mode = "one" /\ run'[r].layer = l /\ ~run'[r].broken,
               run'[r].queue = [i \in DOMAIN chunks |-> [layer |-> l, samples |-> chunks[i]]]
        PROVE  Good(r)'
    BY <2>4
  <2>5. run[r].failed \in SUBSET Layers
    BY RunFields
  <2>6. Good(r)'
    <3> HIDE DEF Good
    <3>1. CASE run'[r] = Pass(1, {}) \/ run'[r] = Pass(2, run[r].failed)
      BY <2>2, <2>5, <3>1
    <3>2. CASE /\ run'[r].mode = "one" /\ run'[r].layer = run[r].layer /\ ~run'[r].broken
               /\ run'[r].queue = [i \in DOMAIN Chunks(run[r].todo) |->
                                    [layer |-> run[r].layer, samples |-> Chunks(run[r].todo)[i]]]
      BY <2>4, <3>2
    <3> QED BY <1>4, <2>1, <2>3, <3>1, <3>2, ParentStepRun
  <2> HIDE DEF Good
  <2>7. \A q \in Runs : Good(q)'
    BY <1>1, <1>4, <2>6, ParentStepRests
  <2> QED BY <2>7 DEF QueuesOK, Good
<1>5. ASSUME NEW r \in Runs, NEW w \in Workers, StepWorker(r, w) \/ Fault(r, w) PROVE QueuesOK'
  <2>1. OthersGoOn(r, w) /\ WorkerKind(r, w)
    BY <1>5, WorkerStepKinds
  <2>2. ASSUME Advances(r, w) \/ Saves(r, w) \/ Stops(r, w) PROVE Good(r)'
    BY <1>1, <2>2 DEF Advances, Saves, Stops
  <2>3. ASSUME Fails(r, w) PROVE Good(r)'
    BY <2>3 DEF Fails, KeepsRun, QueuesOK
  <2>4. ASSUME Starts(r, w) PROVE Good(r)'
    BY <2>4, TailTasks DEF Starts, KeepsRun, QueuesOK
  <2>5. ASSUME Dies(r, w) PROVE Good(r)'
    BY <2>5 DEF Dies, KeepsRun, QueuesOK
  <2>6. Good(r)'
    <3> HIDE DEF Good
    <3> QED BY <1>1, <2>1, <2>2, <2>3, <2>4, <2>5 DEF WorkerKind
  <2> HIDE DEF Good
  <2>7. \A q \in Runs : Good(q)'
    BY <1>1, <2>1, <2>6 DEF OthersGoOn
  <2> QED BY <2>7 DEF QueuesOK, Good
<1> QED BY <1>2, <1>3, <1>4, <1>5, NextSorted

-----------------------------------------------------------------------------
(* No work is forgotten.                                                   *)

(* A step of one worker leaves the work of the others alone. *)
LEMMA OthersWork ==
  ASSUME NEW r \in Runs, NEW w \in Workers, OthersGoOn(r, w),
         NEW q \in Runs, NEW v \in Workers, <<q, v>> # <<r, w>>
  PROVE  Work(q, v)' = Work(q, v)
<1>1. worker'[<<q, v>>] = worker[<<q, v>>]
  BY DEF OthersGoOn, Processes
<1> QED BY <1>1 DEF Work

(* A step of a worker passes on all work of its run that can still be done. *)
LEMMA PendingGoesOn ==
  ASSUME TypeOK, EmployedOK, TempsOK, NEW r \in Runs, NEW w \in Workers,
         OthersGoOn(r, w), WorkerKind(r, w), NEW t \in Pending(r)
  PROVE  \/ t \in Pending(r)' \/ t \in Present'
         \/ t[1] \in run'[r].failed \/ run'[r].lost
<1>1. CASE t \in QueuedWork(r)
  <2>1. PICK i \in DOMAIN run[r].queue : t \in {run[r].queue[i].layer} \X run[r].queue[i].samples
    BY <1>1 DEF QueuedWork
  <2>2. t[1] = run[r].queue[i].layer
    BY <2>1
  <2>3. CASE run'[r].queue = run[r].queue
    BY <2>1, <2>3 DEF QueuedWork, Pending
  <2>4. CASE Starts(r, w)
    <3>1. CASE i = 1
      <4>1. t \in TaskWork(Head(run[r].queue))
        BY <2>1, <2>4, <3>1, TailTasks DEF Starts, TaskWork
      <4>2. t \in Work(r, w)' \/ t \in Present
        BY <2>4, <4>1 DEF Starts
      <4>3. t \in Work(r, w)' => t \in HeldWork(r)'
        BY DEF HeldWork
      <4>4. Present' = Present
        BY <2>4 DEF Starts, Present
      <4> QED BY <4>2, <4>3, <4>4 DEF Pending
    <3>2. CASE i # 1
      <4>1. i - 1 \in DOMAIN Tail(run[r].queue) /\ i \in Nat
        BY <2>4, <3>2, TailTasks DEF Starts
      <4>2. Tail(run[r].queue)[i - 1] = run[r].queue[(i - 1) + 1] /\ (i - 1) + 1 = i
        BY <2>4, <4>1, TailTasks DEF Starts
      <4>3. run'[r].queue = Tail(run[r].queue)
        BY <2>4 DEF Starts
      <4>4. t \in QueuedWork(r)'
        BY <2>1, <4>1, <4>2, <4>3 DEF QueuedWork
      <4> QED BY <4>4 DEF Pending
    <3> QED BY <3>1, <3>2
  <2>5. CASE Dies(r, w)
    BY <2>1, <2>2, <2>3, <2>5 DEF Dies, Queued
  <2>6. CASE Fails(r, w) \/ Advances(r, w) \/ Saves(r, w) \/ Stops(r, w)
    BY <2>3, <2>6 DEF Fails, Advances, Saves, Stops
  <2> QED BY <2>4, <2>5, <2>6 DEF WorkerKind
<1>2. CASE t \in HeldWork(r)
  <2>1. PICK v \in Workers : t \in Work(r, v)
    BY <1>2 DEF HeldWork
  <2>2. CASE v # w
    <3>1. Work(r, v)' = Work(r, v)
      BY <2>2, OthersWork
    <3> QED BY <2>1, <3>1 DEF HeldWork, Pending
  <2>3. CASE v = w
    <3>1. worker[<<r, w>>].pc # "idle" /\ t[1] = worker[<<r, w>>].layer /\ w \in Busy(r)
      BY <2>1, <2>3 DEF Work, Busy
    <3>2. ASSUME t \in Work(r, w)' PROVE t \in Pending(r)'
      BY <3>2 DEF HeldWork, Pending
    <3>3. CASE Advances(r, w)
      BY <2>1, <2>3, <3>2, <3>3 DEF Advances
    <3>4. CASE Saves(r, w)
      <4>1. t \in Work(r, w)' \/ t = Target(r, w)
        BY <2>1, <2>3, <3>4 DEF Saves
      <4>2. Target(r, w) \in Traces
        BY <3>4, TargetType DEF Saves
      <4>3. temp[TempFile(r, w)] # Missing
        BY <3>4 DEF Saves, TempsOK, Writing
      <4>4. trace' = [trace EXCEPT ![Target(r, w)] = temp[TempFile(r, w)]]
        BY <3>4 DEF Saves
      <4>5. t = Target(r, w) => t \in Present'
        BY <4>2, <4>3, <4>4 DEF Present, TypeOK
      <4> QED BY <3>2, <4>1, <4>5
    <3>5. CASE Fails(r, w)
      BY <3>1, <3>5 DEF Fails
    <3>6. CASE Starts(r, w)
      BY <3>1, <3>6, IdleType DEF Starts
    <3>7. CASE Dies(r, w)
      BY <3>1, <3>7 DEF Dies
    <3>8. CASE Stops(r, w)
      BY <3>1, <3>8 DEF Stops, EmployedOK
    <3> QED BY <3>3, <3>4, <3>5, <3>6, <3>7, <3>8 DEF WorkerKind
  <2> QED BY <2>2, <2>3
<1> QED BY <1>1, <1>2 DEF Pending

(* No step takes a trace away.                                             *)
LEMMA PresentGrows ==
  ASSUME TypeOK, EmployedOK, TempsOK, [Next]_vars
  PROVE  Present \subseteq Present'
<1>1. CASE trace' = trace
  BY <1>1 DEF Present
<1>2. ASSUME NEW r \in Runs, NEW w \in Workers, Saves(r, w) PROVE Present \subseteq Present'
  <2>1. Target(r, w) \in Traces /\ temp[TempFile(r, w)] # Missing
    BY <1>2, TargetType DEF Saves, TempsOK, Writing
  <2> QED BY <1>2, <2>1 DEF Saves, Present, TypeOK
<1>3. CASE UNCHANGED vars
  BY <1>1, <1>3 DEF vars, files
<1>4. CASE SolverStep
  BY <1>1, <1>4, SolverStepStages DEF StageOne
<1>5. ASSUME NEW r \in Runs, ParentStep(r) PROVE Present \subseteq Present'
  BY <1>1, <1>5, ParentStepRests
<1>6. ASSUME NEW r \in Runs, NEW w \in Workers, StepWorker(r, w) \/ Fault(r, w)
      PROVE  Present \subseteq Present'
  <2>1. WorkerKind(r, w)
    BY <1>6, WorkerStepKinds
  <2> QED BY <1>1, <1>2, <2>1
       DEF WorkerKind, Advances, Fails, Starts, Dies, Stops
<1> QED BY <1>3, <1>4, <1>5, <1>6, NextSorted

(* What a single run's part of CoverageOK says. *)
Covered(r) ==
  /\ run[r].pc = "work" /\ run[r].mode = "all" =>
       (Layers \ run[r].failed) \X PassSamples(run[r].pass) \subseteq Present \cup Pending(r)
  /\ run[r].pc = "work" /\ run[r].mode = "one" /\ run[r].failed = {} /\ ~run[r].lost =>
       {run[r].layer} \X Samples \subseteq Present \cup Pending(r)
  /\ run[r].pc = "load" =>
       {run[r].layer} \X (Samples \ run[r].todo) \subseteq Present

(* A new pass has a task for every sample of it. *)
LEMMA PassCovers ==
  ASSUME NEW r \in Runs, NEW n \in {1, 2}, NEW sunk \in SUBSET Layers, run'[r] = Pass(n, sunk)
  PROVE  Covered(r)'
<1>1. /\ run'[r].pc = "work" /\ run'[r].mode = "all" /\ run'[r].pass = n
      /\ run'[r].queue =
           [i \in DOMAIN LayerList |-> [layer |-> LayerList[i], samples |-> PassSamples(n)]]
  BY PassType
<1>2. Layers \X PassSamples(n) \subseteq QueuedWork(r)'
  <2> SUFFICES ASSUME NEW l \in Layers, NEW s \in PassSamples(n) PROVE <<l, s>> \in QueuedWork(r)'
    OBVIOUS
  <2>1. PICK i \in DOMAIN LayerList : LayerList[i] = l
    BY DEF Layers
  <2>2. i \in DOMAIN run'[r].queue
    BY <1>1
  <2>3. run'[r].queue[i] = [layer |-> l, samples |-> PassSamples(n)]
    BY <1>1, <2>1
  <2> QED BY <2>2, <2>3 DEF QueuedWork
<1> QED BY <1>1, <1>2 DEF Covered, Pending

(* So have the chunks of a combo, what was there when they were cut aside. *)
LEMMA ChunksCover ==
  ASSUME TypeOK, NEW r \in Runs, Covered(r), UNCHANGED trace,
         run[r].pc = "load", run[r].layer \in Layers, run[r].todo \in SUBSET Samples,
         run'[r].pc = "work", run'[r].mode = "one", run'[r].layer = run[r].layer,
         run'[r].queue = [i \in DOMAIN Chunks(run[r].todo) |->
                            [layer |-> run[r].layer, samples |-> Chunks(run[r].todo)[i]]]
  PROVE  Covered(r)'
<1> DEFINE l == run[r].layer
           todo == run[r].todo
<1>1. {l} \X todo \subseteq QueuedWork(r)'
  <2> SUFFICES ASSUME NEW s \in todo PROVE <<l, s>> \in QueuedWork(r)'
    OBVIOUS
  <2>1. PICK i \in DOMAIN Chunks(todo) : s \in Chunks(todo)[i]
    BY ChunksDivide
  <2>2. i \in DOMAIN run'[r].queue
    OBVIOUS
  <2>3. run'[r].queue[i] = [layer |-> l, samples |-> Chunks(todo)[i]]
    OBVIOUS
  <2> QED BY <2>1, <2>2, <2>3 DEF QueuedWork
<1>2. {l} \X (Samples \ todo) \subseteq Present'
  BY DEF Covered, Present
<1>3. {l} \X Samples \subseteq Present' \cup Pending(r)'
  BY <1>1, <1>2 DEF Pending
<1> QED BY <1>3 DEF Covered

(* CoverageOK is kept by every step.                                       *)
LEMMA CoverageStep ==
  ASSUME TypeOK, EmployedOK, TempsOK, CoverageOK, [Next]_vars
  PROVE  CoverageOK'
<1>1. \A r \in Runs : Covered(r)
  BY DEF CoverageOK, Covered
<1>2. Present \subseteq Present'
  BY PresentGrows
<1>3. ASSUME NEW r \in Runs, run'[r] = run[r],
             \A v \in Workers : worker'[<<r, v>>] = worker[<<r, v>>]
      PROVE  Covered(r)'
  <2>1. Pending(r)' = Pending(r)
    BY <1>3 DEF Pending, QueuedWork, HeldWork, Work
  <2> QED BY <1>1, <1>2, <1>3, <2>1 DEF Covered
<1>4. CASE UNCHANGED <<run, worker>>
  <2>1. \A q \in Runs : Covered(q)'
    BY <1>3, <1>4
  <2> QED BY <2>1 DEF CoverageOK, Covered
<1>5. CASE SolverStep
  BY <1>4, <1>5, SolverStepStages DEF StageOne
<1>6. ASSUME NEW r \in Runs, ParentStep(r) PROVE CoverageOK'
  <2>1. ASSUME run'[r] = RunOff PROVE Covered(r)'
    <3>1. run'[r].pc = "off"
      BY <2>1 DEF RunOff
    <3> QED BY <3>1 DEF Covered
  <2>2. ASSUME NEW l \in Layers, NEW todo \in SUBSET Samples,
               {s \in Samples : trace[<<l, s>>] = Missing} \subseteq todo,
               run'[r] \in OneLoading /\ run'[r].layer = l /\ run'[r].todo = todo
        PROVE  Covered(r)'
    <3>1. run'[r].pc = "load"
      BY <2>2 DEF OneLoading
    <3>2. {l} \X (Samples \ todo) \subseteq Present
      BY <2>2 DEF Present, Traces
    <3> QED BY <1>2, <2>2, <3>1, <3>2 DEF Covered
  <2>3. trace' = trace /\ run[r].failed \in SUBSET Layers
    BY <1>6, ParentStepRests, RunFields
  <2>4. ASSUME run'[r] = Pass(1, {}) \/ run'[r] = Pass(2, run[r].failed)
        PROVE  Covered(r)'
    BY <2>3, <2>4, PassCovers
  <2>5. ASSUME /\ run[r].pc = "load"
               /\ run[r].layer \in Layers /\ run[r].todo \in SUBSET Samples
               /\ run'[r].pc = "work" /\ run'[r].mode = "one" /\ run'[r].layer = run[r].layer
               /\ run'[r].queue = [i \in DOMAIN Chunks(run[r].todo) |->
                                     [layer |-> run[r].layer, samples |-> Chunks(run[r].todo)[i]]]
        PROVE  Covered(r)'
    BY <1>1, <2>3, <2>5, ChunksCover
  <2>6. Covered(r)'
    BY <1>6, <2>1, <2>2, <2>4, <2>5, ParentStepRun
  <2>7. \A q \in Runs : Covered(q)'
    BY <1>3, <1>6, <2>6, ParentStepRests
  <2> QED BY <2>7 DEF CoverageOK, Covered
<1>7. ASSUME NEW r \in Runs, NEW w \in Workers, StepWorker(r, w) \/ Fault(r, w)
      PROVE  CoverageOK'
  <2>1. OthersGoOn(r, w) /\ WorkerKind(r, w)
    BY <1>7, WorkerStepKinds
  <2>2. /\ run'[r].pc = run[r].pc /\ run'[r].mode = run[r].mode /\ run'[r].pass = run[r].pass
        /\ run'[r].layer = run[r].layer /\ run[r].failed \subseteq run'[r].failed
        /\ run[r].lost => run'[r].lost
    BY <2>1 DEF WorkerKind, Advances, Saves, Fails, Starts, Dies, Stops, KeepsRun
  <2>3. run[r].pc = "work"
    BY <2>1, IdleType
       DEF WorkerKind, Advances, Saves, Fails, Starts, Dies, Stops, EmployedOK, HasPool
  <2>4. run[r].mode = "all" => ~run'[r].lost
    <3>1. run[r].mode = "all" => run[r] \in AllWorking
      BY <2>3, ParentsByPc, RunFields
    <3>2. run'[r].lost = run[r].lost \/ run[r].mode = "one"
      BY <2>1 DEF WorkerKind, Advances, Saves, Fails, Starts, Dies, Stops
    <3> QED BY <3>1, <3>2 DEF AllWorking
  <2>5. \A t \in Pending(r) : t \in Pending(r)' \cup Present'
                               \/ t[1] \in run'[r].failed \/ run'[r].lost
    BY <2>1, PendingGoesOn
  <2>6. Covered(r)'
    <3>1. ASSUME run'[r].mode = "all"
          PROVE  (Layers \ run'[r].failed) \X PassSamples(run'[r].pass)
                    \subseteq Present' \cup Pending(r)'
      BY <1>1, <1>2, <2>2, <2>3, <2>4, <2>5, <3>1 DEF Covered
    <3>2. ASSUME run'[r].mode = "one", run'[r].failed = {}, ~run'[r].lost
          PROVE  {run'[r].layer} \X Samples \subseteq Present' \cup Pending(r)'
      BY <1>1, <1>2, <2>2, <2>3, <2>5, <3>2 DEF Covered
    <3> QED BY <2>2, <2>3, <3>1, <3>2 DEF Covered
  <2>7. ASSUME NEW q \in Runs, q # r PROVE Covered(q)'
    <3>1. run'[q] = run[q] /\ \A v \in Workers : worker'[<<q, v>>] = worker[<<q, v>>]
      BY <2>1, <2>7 DEF OthersGoOn, Processes
    <3> QED BY <1>3, <3>1
  <2> QED BY <2>6, <2>7 DEF CoverageOK, Covered
<1> QED BY <1>4, <1>5, <1>6, <1>7, NextSorted DEF vars

(* At the end of a pass, or of a combo, nothing is pending.                *)
LEMMA NothingPending ==
  ASSUME NEW r \in Runs, PassOver(r)
  PROVE  Pending(r) = {}
<1>1. QueuedWork(r) = {}
  BY DEF PassOver, QueuedWork
<1>2. \A w \in Workers : Work(r, w) = {}
  BY DEF PassOver, Resting, Work
<1> QED BY <1>1, <1>2 DEF Pending, HeldWork

(* What a run reports is there.                                            *)
LEMMA ReportedStep ==
  ASSUME TypeOK, EmployedOK, TempsOK, CoverageOK, ReportedIsPresent, [Next]_vars
  PROVE  ReportedIsPresent'
<1>1. reported \subseteq Traces /\ Present \subseteq Present'
  BY PresentGrows DEF TypeOK
<1>2. reported \subseteq Present
  BY <1>1 DEF ReportedIsPresent, Present
<1>3. ASSUME reported' \subseteq reported \cup Present PROVE ReportedIsPresent'
  BY <1>1, <1>2, <1>3 DEF ReportedIsPresent, Present
<1>4. CASE UNCHANGED vars \/ SolverStep
  BY <1>3, <1>4, SolverStepStages DEF vars, StageOne
<1>5. ASSUME NEW r \in Runs, ParentStep(r) PROVE ReportedIsPresent'
  <2>1. CASE EndPass(r)
    <3>1. Pending(r) = {}
      BY <2>1, NothingPending DEF EndPass
    <3>2. (Layers \ run[r].failed) \X PassSamples(run[r].pass) \subseteq Present
      BY <2>1, <3>1 DEF EndPass, PassOver, CoverageOK
    <3> QED BY <1>3, <2>1, <3>2 DEF EndPass
  <2>2. CASE EndOne(r)
    <3>1. Pending(r) = {}
      BY <2>2, NothingPending DEF EndOne
    <3>2. run[r].failed = {} => {run[r].layer} \X Samples \subseteq Present
      BY <2>2, <3>1 DEF EndOne, PassOver, CoverageOK
    <3> QED BY <1>3, <2>2, <3>2 DEF EndOne
  <2>3. CASE reported' = reported
    BY <1>3, <2>3
  <2> QED BY <1>5, <2>1, <2>2, <2>3
       DEF ParentStep, StepParent, StartAll, StartOne, LoadInParent, KillRun, TimeLimit, Vanish
<1>6. ASSUME NEW r \in Runs, NEW w \in Workers, StepWorker(r, w) \/ Fault(r, w)
      PROVE  ReportedIsPresent'
  BY <1>3, <1>6, WorkerStepKinds DEF OthersGoOn
<1> QED BY <1>4, <1>5, <1>6, NextSorted

(* The second pass begins when the first has brought every layer it will.  *)
LEMMA MilestoneStep ==
  ASSUME TypeOK, EmployedOK, TempsOK, CoverageOK, MilestoneFirst, [Next]_vars
  PROVE  MilestoneFirst'
<1> DEFINE Reached(q) ==
      run[q].pc = "work" /\ run[q].mode = "all" /\ run[q].pass = 2 =>
        (Layers \ run[q].sunk) \X FirstPass \subseteq Present
<1>1. Present \subseteq Present'
  BY PresentGrows
<1>2. \A q \in Runs : Reached(q)
  <2> SUFFICES ASSUME NEW q \in Runs,
                      run[q].pc = "work" /\ run[q].mode = "all" /\ run[q].pass = 2,
                      NEW l \in Layers \ run[q].sunk, NEW s \in FirstPass
               PROVE  <<l, s>> \in Present
    OBVIOUS
  <2>1. trace[<<l, s>>] # Missing
    BY DEF MilestoneFirst
  <2> QED BY <2>1, PipelineAssumption DEF Present, Traces
<1>3. ASSUME \A q \in Runs : Reached(q)' PROVE MilestoneFirst'
  BY <1>3 DEF MilestoneFirst, Present
<1>4. ASSUME NEW q \in Runs, run'[q].pc = run[q].pc, run'[q].mode = run[q].mode,
             run'[q].pass = run[q].pass, run'[q].sunk = run[q].sunk
      PROVE  Reached(q)'
  BY <1>1, <1>2, <1>4
<1> HIDE DEF Reached
<1>5. CASE UNCHANGED run
  BY <1>3, <1>4, <1>5
<1>6. CASE SolverStep
  BY <1>5, <1>6, SolverStepStages DEF StageOne
<1>7. ASSUME NEW r \in Runs, ParentStep(r) PROVE MilestoneFirst'
  <2>1. CASE run'[r].pass = 2 /\ run'[r].pc = "work" /\ run'[r].mode = "all"
    <3>1. ASSUME run'[r].pass = 1 \/ run'[r].pc = "off" PROVE FALSE
      BY <2>1, <3>1
    <3>2. run[r].failed \in SUBSET Layers
      BY RunFields
    <3>3. RunOff.pc = "off" /\ Pass(1, {}).pass = 1
      BY PassType DEF RunOff
    <3>4. \A s \in OneLoading : s.pass = 1
      BY DEF OneLoading
    <3>5. /\ run[r].pc = "work" /\ run[r].mode = "all" /\ run[r].pass = 1
          /\ run'[r] = Pass(2, run[r].failed)
      BY <1>7, <2>1, <3>1, <3>3, <3>4, ParentStepRun
    <3>6. run'[r].sunk = run[r].failed
      BY <3>2, <3>5, PassType
    <3>7. EndPass(r)
      <4>1. run'[r].pc = "work"
        BY <2>1
      <4>2. /\ ~StartAll(r) /\ ~LoadInParent(r)
            /\ ~(\E l \in Layers, force \in BOOLEAN : StartOne(r, l, force))
        BY <3>5 DEF StartAll, LoadInParent, StartOne
      <4>3. ~EndOne(r) /\ ~TimeLimit(r)
        BY <3>5 DEF EndOne, TimeLimit
      <4>4. ~KillRun(r)
        <5> SUFFICES ASSUME KillRun(r) PROVE FALSE
          OBVIOUS
        <5>1. run'[r] = RunOff
          BY DEF KillRun, Vanish, TypeOK
        <5> QED BY <3>3, <4>1, <5>1
      <4> QED BY <1>7, <4>2, <4>3, <4>4 DEF ParentStep, StepParent
    <3>8. Pending(r) = {}
      BY <3>7, NothingPending DEF EndPass
    <3>9. (Layers \ run[r].failed) \X FirstPass \subseteq Present
      BY <3>5, <3>8 DEF CoverageOK, PassSamples
    <3>10. Reached(r)'
      BY <1>1, <3>6, <3>9 DEF Reached
    <3> QED BY <1>3, <1>4, <1>7, <3>10, ParentStepRests
  <2>2. CASE ~(run'[r].pass = 2 /\ run'[r].pc = "work" /\ run'[r].mode = "all")
    <3>1. Reached(r)'
      BY <2>2 DEF Reached
    <3> QED BY <1>3, <1>4, <1>7, <3>1, ParentStepRests
  <2> QED BY <2>1, <2>2
<1>8. ASSUME NEW r \in Runs, NEW w \in Workers, StepWorker(r, w) \/ Fault(r, w)
      PROVE  MilestoneFirst'
  <2>1. OthersGoOn(r, w) /\ WorkerKind(r, w)
    BY <1>8, WorkerStepKinds
  <2>2. run'[r] = run[r] \/ KeepsRun(r)
    BY <2>1 DEF WorkerKind, Advances, Saves, Fails, Starts, Dies, Stops
  <2>3. Reached(r)'
    BY <1>4, <2>2 DEF KeepsRun
  <2> QED BY <1>3, <1>4, <2>1, <2>3 DEF OthersGoOn
<1> QED BY <1>5, <1>6, <1>7, <1>8, NextSorted DEF vars

-----------------------------------------------------------------------------
(* No work is done twice at a time.                                        *)

(* What a single run's part of DivisionOK says. *)
Divided(r) ==
  /\ \A v, w \in Workers : v # w => Work(r, v) \cap Work(r, w) = {}
  /\ \A i, j \in DOMAIN run[r].queue :
       i # j => TaskWork(run[r].queue[i]) \cap TaskWork(run[r].queue[j]) = {}
  /\ \A i \in DOMAIN run[r].queue, w \in Workers :
       TaskWork(run[r].queue[i]) \cap Work(r, w) = {}

(* DivisionOK is about each run. *)
LEMMA DivisionByRun == DivisionOK <=> \A r \in Runs : Divided(r)
BY DEF DivisionOK, WorkIsDivided, Divided, TaskWork, QueuedWork, HeldWork

(* Work that only shrinks stays divided. *)
LEMMA ShrinkingStaysDivided ==
  ASSUME NEW r \in Runs, Divided(r),
         run'[r].queue = run[r].queue \/ run'[r].queue = <<>>,
         \A v \in Workers : Work(r, v)' \subseteq Work(r, v)
  PROVE  Divided(r)'
<1>1. CASE run'[r].queue = run[r].queue
  BY <1>1 DEF Divided
<1>2. CASE run'[r].queue = <<>>
  BY <1>2 DEF Divided
<1> QED BY <1>1, <1>2

(* A task taken is no longer in the queue. *)
LEMMA TakingStaysDivided ==
  ASSUME TypeOK, NEW r \in Runs, NEW w \in Workers, Divided(r), OthersGoOn(r, w), Starts(r, w)
  PROVE  Divided(r)'
<1> DEFINE q == run[r].queue
           tail == Tail(q)
<1>1. q # <<>> /\ run'[r].queue = tail
  BY DEF Starts
<1>2. 1 \in DOMAIN q /\ \A i \in DOMAIN tail : i \in Nat /\ i + 1 \in DOMAIN q /\ i + 1 # 1
                          /\ tail[i] = q[i + 1]
  BY <1>1, TailTasks
<1>3. Work(r, w)' \subseteq TaskWork(q[1])
  BY <1>1, TailTasks DEF Starts
<1>4. \A v \in Workers : v # w => Work(r, v)' = Work(r, v)
  BY OthersWork
<1> HIDE DEF q, tail
<1>5. /\ \A v, u \in Workers : v # u => Work(r, v) \cap Work(r, u) = {}
      /\ \A i, j \in DOMAIN q : i # j => TaskWork(q[i]) \cap TaskWork(q[j]) = {}
      /\ \A i \in DOMAIN q, u \in Workers : TaskWork(q[i]) \cap Work(r, u) = {}
  BY DEF Divided, q
<1>6. \A v, u \in Workers : v # u => Work(r, v)' \cap Work(r, u)' = {}
  BY <1>2, <1>3, <1>4, <1>5
<1>7. \A i, j \in DOMAIN tail : i # j => TaskWork(tail[i]) \cap TaskWork(tail[j]) = {}
  BY <1>2, <1>5
<1>8. \A i \in DOMAIN tail, u \in Workers : TaskWork(tail[i]) \cap Work(r, u)' = {}
  BY <1>2, <1>3, <1>4, <1>5
<1> QED BY <1>1, <1>6, <1>7, <1>8 DEF Divided

(* DivisionOK is kept by every step.                                       *)
LEMMA DivisionStep ==
  ASSUME TypeOK, EmployedOK, DivisionOK, [Next]_vars
  PROVE  DivisionOK'
<1>1. \A r \in Runs : Divided(r)
  BY DivisionByRun
<1>2. ASSUME \A r \in Runs : Divided(r)' PROVE DivisionOK'
  BY <1>2 DEF DivisionOK, WorkIsDivided, Divided, TaskWork, QueuedWork, HeldWork
<1>3. ASSUME NEW r \in Runs, run'[r] = run[r],
             \A v \in Workers : worker'[<<r, v>>] = worker[<<r, v>>]
      PROVE  Divided(r)'
  <2>1. \A v \in Workers : Work(r, v)' \subseteq Work(r, v)
    BY <1>3 DEF Work
  <2> QED BY <1>1, <1>3, <2>1, ShrinkingStaysDivided
<1>4. CASE UNCHANGED <<run, worker>>
  BY <1>2, <1>3, <1>4
<1>5. CASE SolverStep
  BY <1>4, <1>5, SolverStepStages DEF StageOne
<1>6. ASSUME NEW r \in Runs, ParentStep(r) PROVE DivisionOK'
  <2>1. \A v \in Workers : Work(r, v)' = {}
    BY <1>6, ParentStepRests, WorkOf
  <2>2. ASSUME \A i, j \in DOMAIN run'[r].queue :
                 i # j => TaskWork(run'[r].queue[i]) \cap TaskWork(run'[r].queue[j]) = {}
        PROVE  Divided(r)'
    BY <2>1, <2>2 DEF Divided
  <2>3. ASSUME run'[r].queue = <<>> PROVE Divided(r)'
    BY <2>2, <2>3
  <2>4. ASSUME NEW n \in {1, 2}, NEW sunk \in SUBSET Layers, run'[r] = Pass(n, sunk)
        PROVE  Divided(r)'
    <3>1. run'[r].queue =
            [i \in DOMAIN LayerList |-> [layer |-> LayerList[i], samples |-> PassSamples(n)]]
      BY <2>4, PassType
    <3>2. \A i \in DOMAIN run'[r].queue :
            i \in DOMAIN LayerList /\ run'[r].queue[i].layer = LayerList[i]
      BY <3>1
    <3>3. \A i, j \in DOMAIN run'[r].queue :
            i # j => run'[r].queue[i].layer # run'[r].queue[j].layer
      BY <3>2, PipelineAssumption
    <3> QED BY <2>2, <3>3 DEF TaskWork
  <2>5. ASSUME run[r].todo \in SUBSET Samples,
               run'[r].queue = [i \in DOMAIN Chunks(run[r].todo) |->
                                  [layer |-> run[r].layer, samples |-> Chunks(run[r].todo)[i]]]
        PROVE  Divided(r)'
    <3>1. \A i \in DOMAIN run'[r].queue :
            i \in DOMAIN Chunks(run[r].todo)
              /\ run'[r].queue[i].samples = Chunks(run[r].todo)[i]
      BY <2>5
    <3>2. \A i, j \in DOMAIN Chunks(run[r].todo) :
            i # j => Chunks(run[r].todo)[i] \cap Chunks(run[r].todo)[j] = {}
      BY <2>5, ChunksDivide
    <3>3. \A i, j \in DOMAIN run'[r].queue :
            i # j => run'[r].queue[i].samples \cap run'[r].queue[j].samples = {}
      BY <3>1, <3>2
    <3> QED BY <2>2, <3>3 DEF TaskWork
  <2>6. RunOff.queue = <<>> /\ \A s \in OneLoading : s.queue = <<>>
    BY DEF RunOff, OneLoading
  <2>7. run[r].failed \in SUBSET Layers
    BY RunFields
  <2>8. Divided(r)'
    <3>1. CASE run'[r] = Pass(1, {}) \/ run'[r] = Pass(2, run[r].failed)
      BY <2>4, <2>7, <3>1
    <3> QED BY <1>6, <2>3, <2>5, <2>6, <3>1, ParentStepRun
  <2> QED BY <1>2, <1>3, <1>6, <2>8, ParentStepRests
<1>7. ASSUME NEW r \in Runs, NEW w \in Workers, StepWorker(r, w) \/ Fault(r, w)
      PROVE  DivisionOK'
  <2>1. OthersGoOn(r, w) /\ WorkerKind(r, w)
    BY <1>7, WorkerStepKinds
  <2>2. \A v \in Workers : v # w => Work(r, v)' = Work(r, v)
    BY <2>1, OthersWork
  <2>3. ASSUME ~Starts(r, w) PROVE Divided(r)'
    <3>1. Work(r, w)' \subseteq Work(r, w)
      BY <2>1, <2>3, WorkOf DEF WorkerKind, Advances, Saves, Fails, Dies, Stops
    <3>2. run'[r].queue = run[r].queue \/ run'[r].queue = <<>>
      BY <2>1, <2>3 DEF WorkerKind, Advances, Saves, Fails, Dies, Stops
    <3> QED BY <1>1, <2>2, <3>1, <3>2, ShrinkingStaysDivided
  <2>4. Divided(r)'
    BY <1>1, <2>1, <2>3, TakingStaysDivided
  <2>5. ASSUME NEW q \in Runs, q # r PROVE Divided(q)'
    <3>1. run'[q] = run[q] /\ \A v \in Workers : worker'[<<q, v>>] = worker[<<q, v>>]
      BY <2>1, <2>5 DEF OthersGoOn, Processes
    <3> QED BY <1>3, <3>1
  <2> QED BY <1>2, <2>4, <2>5
<1> QED BY <1>4, <1>5, <1>6, <1>7, NextSorted DEF vars

-----------------------------------------------------------------------------
(* A temporary file has one owner.                                         *)

(* Whoever goes on writing finds his file as he left it. *)
LEMMA TempsKept ==
  ASSUME TempsOK,
         \A q \in Runs, v \in Workers :
           Writing(q, v)' => /\ worker'[<<q, v>>] = worker[<<q, v>>]
                             /\ temp'[TempFile(q, v)] = temp[TempFile(q, v)]
  PROVE  TempsOK'
<1>1. \A q \in Runs, v \in Workers :
        Writing(q, v)' => Writing(q, v) /\ TempFile(q, v)' = TempFile(q, v)
  BY DEF Writing, TempFile, Target
<1>2. \A q, r \in Runs, v, w \in Workers :
        Writing(q, v)' /\ Writing(r, w)' /\ TempFile(q, v)' = TempFile(r, w)' => q = r /\ v = w
  BY <1>1 DEF TempsOK
<1>3. \A r \in Runs, w \in Workers :
        /\ Writing(r, w)' => temp'[TempFile(r, w)'] # Missing
        /\ worker'[<<r, w>>].pc = "replace" =>
             temp'[TempFile(r, w)'] = worker'[<<r, w>>].version
  <2> TAKE r \in Runs, w \in Workers
  <2>1. CASE Writing(r, w)'
    <3>1. /\ worker'[<<r, w>>] = worker[<<r, w>>] /\ Writing(r, w)
          /\ TempFile(r, w)' = TempFile(r, w)
          /\ temp'[TempFile(r, w)] = temp[TempFile(r, w)]
      BY <1>1, <2>1
    <3> QED BY <3>1 DEF TempsOK
  <2>2. CASE ~Writing(r, w)'
    BY <2>2 DEF Writing
  <2> QED BY <2>1, <2>2
<1> QED BY <1>2, <1>3 DEF TempsOK

(* One worker getting hold of, or filling, a file nobody else owns.        *)
LEMMA TempsOwned ==
  ASSUME TypeOK, TempsOK, NEW r \in Runs, NEW w \in Workers, OthersGoOn(r, w),
         NEW file \in Layers \X Samples \X TempIds, NEW content \in Contents,
         temp' = [temp EXCEPT ![file] = content], content # Missing,
         \A q \in Runs, v \in Workers :
           <<q, v>> # <<r, w>> /\ Writing(q, v) => TempFile(q, v) # file,
         Writing(r, w)', TempFile(r, w)' = file,
         worker'[<<r, w>>].pc = "replace" => worker'[<<r, w>>].version = content
  PROVE  TempsOK'
<1>1. /\ temp'[file] = content
      /\ \A f \in Layers \X Samples \X TempIds : f # file => temp'[f] = temp[f]
  BY DEF TypeOK
<1>2. \A q \in Runs, v \in Workers : <<q, v>> # <<r, w>> =>
        worker'[<<q, v>>] = worker[<<q, v>>]
  BY DEF OthersGoOn, Processes
<1>3. \A q \in Runs, v \in Workers : <<q, v>> # <<r, w>> =>
        (Writing(q, v)' <=> Writing(q, v)) /\ TempFile(q, v)' = TempFile(q, v)
  BY <1>2 DEF Writing, TempFile, Target
<1>4. \A q, u \in Runs, v, x \in Workers :
        Writing(q, v)' /\ Writing(u, x)' /\ TempFile(q, v)' = TempFile(u, x)' => q = u /\ v = x
  <2> SUFFICES ASSUME NEW q \in Runs, NEW u \in Runs, NEW v \in Workers, NEW x \in Workers,
                      Writing(q, v)', Writing(u, x)', TempFile(q, v)' = TempFile(u, x)'
               PROVE  q = u /\ v = x
    OBVIOUS
  <2>1. CASE <<q, v>> # <<r, w>> /\ <<u, x>> # <<r, w>>
    BY <1>3, <2>1 DEF TempsOK
  <2>2. CASE <<q, v>> = <<r, w>> \/ <<u, x>> = <<r, w>>
    BY <1>3, <2>2
  <2> QED BY <2>1, <2>2
<1>5. \A q \in Runs, v \in Workers :
        /\ Writing(q, v)' => temp'[TempFile(q, v)'] # Missing
        /\ worker'[<<q, v>>].pc = "replace" =>
             temp'[TempFile(q, v)'] = worker'[<<q, v>>].version
  <2> TAKE q \in Runs, v \in Workers
  <2>1. CASE <<q, v>> = <<r, w>>
    BY <1>1, <2>1
  <2>2. CASE <<q, v>> # <<r, w>> /\ Writing(q, v)
    <3>1. TempFile(q, v) # file /\ TempFile(q, v) \in Layers \X Samples \X TempIds
      BY <2>2, TargetType DEF Writing
    <3>2. temp'[TempFile(q, v)] = temp[TempFile(q, v)]
      BY <1>1, <3>1
    <3> QED BY <1>2, <1>3, <2>2, <3>2 DEF TempsOK
  <2>3. CASE <<q, v>> # <<r, w>> /\ ~Writing(q, v)
    BY <1>2, <1>3, <2>3 DEF Writing
  <2> QED BY <2>1, <2>2, <2>3
<1> QED BY <1>4, <1>5 DEF TempsOK

(* A worker that has renamed its file has no temporary file. *)
LEMMA AfterSaveState ==
  ASSUME TypeOK, NEW r \in Runs, NEW w \in Workers, worker[<<r, w>>].pc = "replace"
  PROVE  AfterSave(r, w).pc \in {"idle", "save", "reconstruct"}
<1> DEFINE me == worker[<<r, w>>]
           batch == me.batch \ {Smallest(me.batch)}
           next  == IF batch # {} THEN "save" ELSE "reconstruct"
           busy  == [me EXCEPT !.pc = next, !.batch = batch, !.id = Idle.id]
<1>1. me \in WorkerSaving
  BY TargetType
<1>2. AfterSave(r, w) = IF batch = {} /\ me.left = {} THEN Idle ELSE busy
  BY DEF AfterSave
<1> HIDE DEF me, batch
<1>3. busy.pc = next
  BY <1>1 DEF WorkerSaving
<1> QED BY <1>2, <1>3, IdleType

(* TempsOK is kept by every step.                                          *)
LEMMA TempsStep ==
  ASSUME TypeOK, EmployedOK, TempsOK, [Next]_vars
  PROVE  TempsOK'
<1>1. CASE UNCHANGED <<temp, worker>>
  BY <1>1, TempsKept
<1>2. CASE SolverStep
  BY <1>1, <1>2, SolverStepStages DEF StageOne
<1>3. ASSUME NEW r \in Runs, ParentStep(r) PROVE TempsOK'
  <2>1. /\ temp' = temp /\ \A w \in Workers : worker'[<<r, w>>] = Idle
        /\ \A q \in Runs, v \in Workers : q # r => worker'[<<q, v>>] = worker[<<q, v>>]
    BY <1>3, ParentStepRests
  <2> QED BY <2>1, TempsKept, IdleType DEF Writing
<1>4. ASSUME NEW r \in Runs, NEW w \in Workers, StepWorker(r, w) \/ Fault(r, w) PROVE TempsOK'
  <2> DEFINE me == worker[<<r, w>>]
             new == worker'[<<r, w>>]
             file == TempFile(r, w)
  <2>1. OthersGoOn(r, w)
    BY <1>4, WorkerStepKinds
  <2>2. \A q \in Runs, v \in Workers : <<q, v>> # <<r, w>> =>
          worker'[<<q, v>>] = worker[<<q, v>>]
    BY <2>1 DEF OthersGoOn, Processes
  <2>3. ASSUME temp' = temp, new.pc \notin {"write", "replace"} PROVE TempsOK'
    <3>1. \A q \in Runs, v \in Workers : Writing(q, v)' => worker'[<<q, v>>] = worker[<<q, v>>]
      BY <2>2, <2>3 DEF Writing
    <3> QED BY <2>3, <3>1, TempsKept
  <2>4. ASSUME Writing(r, w), temp' = [temp EXCEPT ![file] = Missing],
               new.pc \notin {"write", "replace"}
        PROVE  TempsOK'
    <3> SUFFICES ASSUME NEW q \in Runs, NEW v \in Workers, Writing(q, v)'
                 PROVE  /\ worker'[<<q, v>>] = worker[<<q, v>>]
                        /\ temp'[TempFile(q, v)] = temp[TempFile(q, v)]
      BY TempsKept
    <3>1. <<q, v>> # <<r, w>>
      BY <2>4 DEF Writing
    <3>2. worker'[<<q, v>>] = worker[<<q, v>>] /\ Writing(q, v)
      BY <2>2, <3>1 DEF Writing
    <3>3. TempFile(q, v) # file
      BY <2>4, <3>1, <3>2 DEF TempsOK
    <3>4. TempFile(q, v) \in Layers \X Samples \X TempIds
      BY <3>2, TargetType DEF Writing
    <3> QED BY <2>4, <3>2, <3>3, <3>4 DEF TypeOK
  <2>5. Idle.pc = "idle"
    BY IdleType
  <2>6. CASE TakeTask(r, w)
    BY <2>3, <2>5, <2>6, TakeEffect DEF TakeTask, Starts
  <2>7. CASE LoadSchedule(r, w) \/ Reconstruct(r, w)
    <3>1. me \in WorkerStates
      BY DEF TypeOK, Processes
    <3>2. CASE LoadSchedule(r, w)
      <4>1. new = [me EXCEPT !.pc = "reconstruct", !.version = schedule[me.layer]] \/ new = Idle
        BY <3>2, BecomeEffect DEF LoadSchedule, TaskRaises
      <4>2. me \in WorkerLoading
        BY <3>1, <3>2, WorkerStatesByPc DEF LoadSchedule
      <4>3. [me EXCEPT !.pc = "reconstruct", !.version = schedule[me.layer]].pc = "reconstruct"
        <5> HIDE DEF me
        <5> QED BY <4>2 DEF WorkerLoading
      <4> QED BY <2>3, <2>5, <3>2, <4>1, <4>3 DEF LoadSchedule
    <3>3. CASE Reconstruct(r, w)
      <4> DEFINE batch == IF run[r].mode = "one" THEN me.left ELSE Slice(me.left, BatchSize, 1)
                 state == [me EXCEPT !.pc = "save", !.left = me.left \ batch, !.batch = batch]
      <4>1. new = state
        BY <3>3, BecomeEffect DEF Reconstruct
      <4>2. me \in WorkerReady
        BY <3>1, <3>3, WorkerStatesByPc DEF Reconstruct
      <4> HIDE DEF batch, me
      <4>3. state.pc = "save"
        BY <4>2 DEF WorkerReady
      <4> HIDE DEF state
      <4>4. new.pc = "save" /\ temp' = temp
        BY <3>3, <4>1, <4>3 DEF Reconstruct
      <4> QED BY <2>3, <4>4
    <3> QED BY <2>7, <3>2, <3>3
  <2>8. ASSUME NEW id \in TempIds, MakeTemp(r, w, id) PROVE TempsOK'
    <3> DEFINE t == Target(r, w)
               own == <<t[1], t[2], id>>
    <3>1. me \in WorkerSaving /\ t \in Traces
      BY <2>8, TargetType DEF MakeTemp
    <3>2. own \in Layers \X Samples \X TempIds
      BY <3>1 DEF Traces
    <3>3. new = [me EXCEPT !.pc = "write", !.id = id]
      BY <2>8, BecomeEffect DEF MakeTemp
    <3>4. /\ new.pc = "write" /\ new.layer = me.layer /\ new.batch = me.batch /\ new.id = id
      <4> HIDE DEF me
      <4> QED BY <3>1, <3>3 DEF WorkerSaving
    <3>5. Writing(r, w)' /\ TempFile(r, w)' = own
      BY <3>4 DEF Writing, TempFile, Target
    <3>6. temp[own] = Missing /\ temp' = [temp EXCEPT ![own] = Partial]
      BY <2>8 DEF MakeTemp, FreshIds
    <3>7. \A q \in Runs, v \in Workers : Writing(q, v) => TempFile(q, v) # own
      BY <3>6 DEF TempsOK
    <3>8. Partial \in Contents /\ Partial # Missing
      BY PipelineAssumption DEF Contents
    <3> HIDE DEF own
    <3> QED BY <2>1, <3>2, <3>4, <3>5, <3>6, <3>7, <3>8, TempsOwned
  <2>9. CASE WriteTemp(r, w)
    <3>1. /\ me \in WorkerSaving /\ me.version \in Versions
          /\ file \in Layers \X Samples \X TempIds
      BY <2>9, TargetType DEF WriteTemp
    <3>2. new = [me EXCEPT !.pc = "replace"] /\ temp' = [temp EXCEPT ![file] = me.version]
      BY <2>9, BecomeEffect DEF WriteTemp
    <3>3. /\ new.pc = "replace" /\ new.layer = me.layer /\ new.batch = me.batch
          /\ new.id = me.id /\ new.version = me.version
      <4> HIDE DEF me
      <4> QED BY <3>1, <3>2 DEF WorkerSaving
    <3>4. Writing(r, w)' /\ TempFile(r, w)' = file
      BY <3>3 DEF Writing, TempFile, Target
    <3>5. \A q \in Runs, v \in Workers :
            <<q, v>> # <<r, w>> /\ Writing(q, v) => TempFile(q, v) # file
      BY <2>9 DEF TempsOK, Writing, WriteTemp
    <3>6. me.version \in Contents /\ me.version # Missing
      BY <3>1, PipelineAssumption DEF Contents
    <3> HIDE DEF file
    <3> QED BY <2>1, <3>1, <3>2, <3>3, <3>4, <3>5, <3>6, TempsOwned
  <2>10. CASE Replace(r, w)
    BY <2>4, <2>5, <2>10, AfterSaveState, BecomeEffect DEF Replace, Writing
  <2>11. CASE Terminate(r, w) \/ KillWorker(r, w) \/ ReconstructFails(r, w)
    <3>1. new = Idle
      BY <2>11, BecomeEffect DEF Terminate, KillWorker, ReconstructFails, TaskRaises
    <3> QED BY <2>3, <2>5, <2>11, <3>1 DEF Terminate, KillWorker, ReconstructFails, files
  <2>12. CASE SaveFails(r, w)
    BY <2>4, <2>5, <2>12, BecomeEffect DEF SaveFails, TaskRaises, Writing
  <2> QED BY <1>4, <2>6, <2>7, <2>8, <2>9, <2>10, <2>11, <2>12 DEF StepWorker, Fault
<1> QED BY <1>1, <1>2, <1>3, <1>4, NextSorted DEF vars, files

-----------------------------------------------------------------------------
(* What is made of a schedule agrees with it.                              *)

(* A worker about to rename holds a finished trace of its schedule.        *)
LEMMA SavedContent ==
  ASSUME TypeOK, TempsOK, NEW r \in Runs, NEW w \in Workers, worker[<<r, w>>].pc = "replace"
  PROVE  /\ Target(r, w) \in Traces /\ Target(r, w)[1] = worker[<<r, w>>].layer
         /\ temp[TempFile(r, w)] = worker[<<r, w>>].version
         /\ temp[TempFile(r, w)] \in Versions
BY TargetType DEF TempsOK

(* The traces change by renames only.                                      *)
LEMMA TraceChanges ==
  ASSUME TypeOK, EmployedOK, TempsOK, [Next]_vars
  PROVE  \/ trace' = trace
         \/ \E r \in Runs, w \in Workers : OthersGoOn(r, w) /\ Saves(r, w)
<1>1. CASE UNCHANGED vars \/ SolverStep
  BY <1>1, SolverStepStages DEF StageOne, vars, files
<1>2. ASSUME NEW r \in Runs, ParentStep(r) PROVE trace' = trace
  BY <1>2, ParentStepRests
<1>3. ASSUME NEW r \in Runs, NEW w \in Workers, StepWorker(r, w) \/ Fault(r, w)
      PROVE  trace' = trace \/ (OthersGoOn(r, w) /\ Saves(r, w))
  BY <1>3, WorkerStepKinds DEF WorkerKind, Advances, Fails, Starts, Dies, Stops
<1> QED BY <1>1, <1>2, <1>3, NextSorted

(* TracesComplete is kept by every step.                                   *)
LEMMA TracesCompleteStep ==
  ASSUME TypeOK, EmployedOK, TempsOK, TracesComplete, [Next]_vars
  PROVE  TracesComplete'
<1>1. CASE trace' = trace
  BY <1>1 DEF TracesComplete
<1>2. ASSUME NEW r \in Runs, NEW w \in Workers, Saves(r, w) PROVE TracesComplete'
  <2>1. Target(r, w) \in Traces /\ temp[TempFile(r, w)] \in Versions
    BY <1>2, SavedContent DEF Saves
  <2> QED BY <1>2, <2>1, PipelineAssumption DEF Saves, TracesComplete, TypeOK
<1> QED BY <1>1, <1>2, TraceChanges

(* What stage 1 does to a schedule takes nothing back: a schedule that was *)
(* used is written again under --force only.                               *)
LEMMA AgreesKept ==
  ASSUME TypeOK, SchedulesOK, SolverStep, NEW v \in Versions, NEW l \in Layers, Agrees(v, l)
  PROVE  Agrees(v, l)'
<1>1. v # Missing /\ v # Partial
  BY PipelineAssumption
<1>2. CASE UNCHANGED <<schedule, resolved>>
  BY <1>2 DEF Agrees
<1>3. ASSUME NEW k \in Layers, OpenSchedule(k) PROVE Agrees(v, l)'
  <2>1. schedule'[k] = Partial /\ \A j \in Layers : j # k => schedule'[j] = schedule[j]
    BY <1>3 DEF OpenSchedule, TypeOK
  <2>2. resolved \subseteq resolved' /\ (solver.force => k \in resolved')
    BY <1>3 DEF OpenSchedule
  <2>3. ~solver.force => schedule[k] = Missing
    BY <1>3 DEF OpenSchedule, Cached
  <2>4. k \in resolved' \/ ~Agrees(v, k)
    BY <1>1, <2>2, <2>3 DEF Agrees
  <2> QED BY <2>1, <2>2, <2>4 DEF Agrees
<1>4. CASE CloseSchedule
  <2>1. \A j \in Layers : j # Head(solver.left) => schedule'[j] = schedule[j]
    BY <1>4 DEF CloseSchedule, TypeOK
  <2>2. resolved' = resolved
    BY <1>4 DEF CloseSchedule
  <2>3. l = Head(solver.left) => l \in resolved
    BY <1>1, <1>4 DEF CloseSchedule, SchedulesOK, Agrees
  <2> QED BY <2>1, <2>2, <2>3 DEF Agrees
<1> QED
  BY <1>2, <1>3, <1>4
  DEF SolverStep, StepSolver, KillSolver, StartSolver, SkipSchedule, SolveFails,
      WriteScheduleFails, SolverReturns

(* A file being written is not a schedule anybody has used.                *)
LEMMA WritingStep ==
  ASSUME TypeOK, SolverStep, solver'.pc = "write"
  PROVE  Agrees(Partial, Head(solver.left))' /\ Head(solver'.left) \in Layers
<1>1. ASSUME NextSolve PROVE FALSE
  <2>1. solver \in [pc : {"off", "next", "write"}, left : Seq(Layers), force : BOOLEAN]
    BY DEF TypeOK, Solvers, SolverResting, SolverWriting
  <2>2. solver'.pc = "next"
    BY <1>1, <2>1 DEF NextSolve
  <2> QED BY <2>2
<1>2. SolverOff.pc = "off"
  BY DEF SolverOff
<1>3. PICK k \in Layers : OpenSchedule(k)
  BY <1>1, <1>2
  DEF SolverStep, StepSolver, KillSolver, StartSolver, SkipSchedule, SolveFails, CloseSchedule,
      WriteScheduleFails, SolverReturns
<1>4. Head(solver.left) = k /\ schedule'[k] = Partial
  BY <1>3 DEF OpenSchedule, Solving, TypeOK
<1>5. solver'.left = solver.left
  <2>1. solver \in [pc : {"off", "next", "write"}, left : Seq(Layers), force : BOOLEAN]
    BY DEF TypeOK, Solvers, SolverResting, SolverWriting
  <2> QED BY <1>3, <2>1 DEF OpenSchedule
<1> QED BY <1>4, <1>5 DEF Agrees

(* SchedulesOK is kept by every step.                                      *)
LEMMA SchedulesStep ==
  ASSUME TypeOK, EmployedOK, QueuesOK, TempsOK, TracesComplete, SchedulesOK, [Next]_vars
  PROVE  SchedulesOK'
<1>1. \A t \in Traces : trace[t] # Missing =>
        trace[t] \in Versions /\ t[1] \in Layers /\ Agrees(trace[t], t[1])
  BY DEF SchedulesOK, OneScheduleByLayer, Agrees, TracesComplete, TypeOK, Contents, Traces
<1>2. \A p \in Processes : worker[p].pc \notin {"idle", "load"} =>
        /\ worker[p].version \in Versions /\ worker[p].layer \in Layers
        /\ Agrees(worker[p].version, worker[p].layer)
  <2> SUFFICES ASSUME NEW p \in Processes, worker[p].pc \notin {"idle", "load"}
               PROVE  worker[p].version \in Versions /\ worker[p].layer \in Layers
    BY DEF SchedulesOK
  <2>1. worker[p] \in WorkerReady \cup WorkerSaving
    BY WorkerStatesByPc DEF TypeOK
  <2> QED BY <2>1 DEF WorkerReady, WorkerSaving
<1>3. \A q \in Runs : run[q].version # Missing =>
        /\ run[q].version \in Versions /\ run[q].layer \in Layers
        /\ Agrees(run[q].version, run[q].layer)
  <2> SUFFICES ASSUME NEW q \in Runs, run[q].version # Missing PROVE run[q] \in OneWorking
    BY DEF SchedulesOK, OneWorking
  <2>1. run[q] \in Parents
    BY RunFields
  <2>2. RunOff.version = Missing /\ \A s \in OneLoading \cup AllWorking : s.version = Missing
    BY DEF RunOff, OneLoading, AllWorking
  <2> QED BY <2>1, <2>2 DEF Parents
<1>4. ASSUME \A t \in Traces : trace'[t] # Missing => Agrees(trace[t], t[1])',
             \A p \in Processes : worker'[p].pc \notin {"idle", "load"} =>
               Agrees(worker[p].version, worker[p].layer)',
             \A q \in Runs : run'[q].version # Missing => Agrees(run[q].version, run[q].layer)',
             solver'.pc = "write" => Agrees(Partial, Head(solver.left))'
      PROVE  SchedulesOK'
  BY <1>4 DEF SchedulesOK, OneScheduleByLayer, Agrees
<1>5. CASE UNCHANGED vars
  BY <1>5 DEF vars, files, SchedulesOK, OneScheduleByLayer, Agrees
<1>6. CASE SolverStep
  <2>1. UNCHANGED <<trace, run, worker>>
    BY <1>6, SolverStepStages DEF StageOne
  <2>2. \A v \in Versions, l \in Layers : Agrees(v, l) => Agrees(v, l)'
    BY <1>6, AgreesKept
  <2>3. \A t \in Traces : trace'[t] # Missing => Agrees(trace[t], t[1])'
    BY <1>1, <2>1, <2>2 DEF Agrees
  <2>4. \A p \in Processes : worker'[p].pc \notin {"idle", "load"} =>
          Agrees(worker[p].version, worker[p].layer)'
    BY <1>2, <2>1, <2>2 DEF Agrees
  <2>5. \A q \in Runs : run'[q].version # Missing => Agrees(run[q].version, run[q].layer)'
    BY <1>3, <2>1, <2>2 DEF Agrees
  <2> QED BY <1>4, <1>6, <2>3, <2>4, <2>5, WritingStep
<1>7. ASSUME UNCHANGED <<schedule, resolved>> PROVE \A v, l : Agrees(v, l)' <=> Agrees(v, l)
  BY <1>7 DEF Agrees
<1>8. solver.pc = "write" => Agrees(Partial, Head(solver.left))
  BY DEF SchedulesOK
<1>9. ASSUME NEW r \in Runs, ParentStep(r) PROVE SchedulesOK'
  <2>1. /\ UNCHANGED <<schedule, trace, solver, resolved>>
        /\ \A w \in Workers : worker'[<<r, w>>] = Idle
        /\ \A q \in Runs, v \in Workers : q # r => worker'[<<q, v>>] = worker[<<q, v>>]
        /\ \A q \in Runs : q # r => run'[q] = run[q]
    BY <1>9, ParentStepRests
  <2>2. \A p \in Processes : worker'[p].pc \notin {"idle", "load"} => worker'[p] = worker[p]
    BY <2>1, IdleType DEF Processes
  <2>3. run'[r].version # Missing => schedule[run'[r].layer] = run'[r].version
    <3>1. RunOff.version = Missing /\ \A s \in OneLoading \cup AllWorking : s.version = Missing
      BY DEF RunOff, OneLoading, AllWorking
    <3>2. run[r].failed \in SUBSET Layers
      BY RunFields
    <3>3. Pass(1, {}).version = Missing /\ Pass(2, run[r].failed).version = Missing
      BY <3>1, <3>2, PassType
    <3> QED BY <1>9, <3>1, <3>3, ParentStepRun
  <2>4. \A q \in Runs : run'[q].version # Missing => Agrees(run[q].version, run[q].layer)'
    BY <1>3, <2>1, <2>3 DEF Agrees
  <2>5. \A p \in Processes : worker'[p].pc \notin {"idle", "load"} =>
          Agrees(worker[p].version, worker[p].layer)'
    BY <1>2, <2>1, <2>2 DEF Agrees
  <2>6. \A t \in Traces : trace'[t] # Missing => Agrees(trace[t], t[1])'
    BY <1>1, <2>1 DEF Agrees
  <2>7. solver'.pc = "write" => Agrees(Partial, Head(solver.left))'
    BY <1>8, <2>1 DEF Agrees
  <2> QED BY <1>4, <2>4, <2>5, <2>6, <2>7
<1>10. ASSUME NEW r \in Runs, NEW w \in Workers, StepWorker(r, w) \/ Fault(r, w)
       PROVE  SchedulesOK'
  <2> DEFINE me == worker[<<r, w>>]
             new == worker'[<<r, w>>]
  <2>1. OthersGoOn(r, w) /\ WorkerKind(r, w)
    BY <1>10, WorkerStepKinds
  <2>2. UNCHANGED <<schedule, solver, resolved>>
    BY <2>1 DEF OthersGoOn
  <2>3. \A q \in Runs : run'[q].version = run[q].version /\ run'[q].layer = run[q].layer
    <3>1. run'[r].version = run[r].version /\ run'[r].layer = run[r].layer
      BY <2>1 DEF WorkerKind, Advances, Saves, Fails, Starts, Dies, Stops, KeepsRun
    <3> QED BY <2>1, <3>1 DEF OthersGoOn
  <2>4. \A q \in Runs : run'[q].version # Missing => Agrees(run[q].version, run[q].layer)'
    BY <1>3, <2>2, <2>3 DEF Agrees
  <2>5. \A t \in Traces : trace'[t] # Missing => Agrees(trace[t], t[1])'
    <3>1. CASE trace' = trace
      BY <1>1, <2>2, <3>1 DEF Agrees
    <3>2. CASE Saves(r, w)
      <4>1. /\ Target(r, w) \in Traces /\ Target(r, w)[1] = me.layer
            /\ temp[TempFile(r, w)] = me.version /\ me.pc = "replace"
        BY <3>2, SavedContent DEF Saves
      <4>2. Agrees(me.version, me.layer)
        BY <1>2, <4>1 DEF Processes
      <4>3. \A t \in Traces : trace'[t] = IF t = Target(r, w) THEN me.version ELSE trace[t]
        BY <3>2, <4>1 DEF Saves, TypeOK
      <4> HIDE DEF me
      <4> QED BY <1>1, <2>2, <4>1, <4>2, <4>3 DEF Agrees
    <3> QED BY <2>1, <3>1, <3>2 DEF WorkerKind, Advances, Fails, Starts, Dies, Stops
  <2>6. new.pc \notin {"idle", "load"} => Agrees(new.version, new.layer)
    <3>1. CASE Advances(r, w)
      <4>1. me.pc = "load" => Agrees(new.version, new.layer)
        BY <3>1 DEF Advances, Agrees
      <4>2. me.pc # "load" => Agrees(me.version, me.layer)
        BY <1>2, <3>1 DEF Advances, Processes
      <4> QED BY <3>1, <4>1, <4>2 DEF Advances
    <3>2. CASE Saves(r, w)
      <4>1. Agrees(me.version, me.layer)
        BY <1>2, <3>2 DEF Saves, Processes
      <4> QED BY <3>2, <4>1, IdleType DEF Saves
    <3>3. CASE Starts(r, w)
      <4>1. SUFFICES ASSUME new.pc \notin {"idle", "load"} PROVE Agrees(new.version, new.layer)
        OBVIOUS
      <4>2. run[r].mode = "one" /\ new.version = run[r].version
            /\ new.layer = Head(run[r].queue).layer
        BY <3>3, <4>1, IdleType DEF Starts
      <4>3. Head(run[r].queue).layer = run[r].layer
        BY <3>3, <4>2, TailTasks DEF Starts, QueuesOK
      <4>4. run[r].version # Missing
        <5>1. run[r] \in OneWorking
          BY <3>3, <4>2, ParentsByPc, RunFields DEF Starts
        <5> QED BY <5>1, PipelineAssumption DEF OneWorking
      <4> QED BY <1>3, <4>2, <4>3, <4>4
    <3>4. CASE Fails(r, w) \/ Dies(r, w) \/ Stops(r, w)
      BY <3>4, IdleType DEF Fails, Dies, Stops
    <3> QED BY <2>1, <3>1, <3>2, <3>3, <3>4 DEF WorkerKind
  <2>7. \A p \in Processes : worker'[p].pc \notin {"idle", "load"} =>
          Agrees(worker[p].version, worker[p].layer)'
    BY <1>2, <2>1, <2>2, <2>6 DEF OthersGoOn, Agrees
  <2>8. solver'.pc = "write" => Agrees(Partial, Head(solver.left))'
    BY <1>8, <2>2 DEF Agrees
  <2> QED BY <1>4, <2>4, <2>5, <2>7, <2>8
<1> QED BY <1>5, <1>6, <1>9, <1>10, NextSorted

-----------------------------------------------------------------------------
(* What kills leave behind.                                                *)

Risk == Orphans \cup Doomed

(* A pair is not a triple: a process is not a temporary file. *)
LEMMA ProcessesAreNoFiles ==
  (Layers \X Samples \X TempIds) \cap Processes = {}
<1>1. \A f \in Layers \X Samples \X TempIds : Len(f) = 3
  OBVIOUS
<1>2. \A p \in Processes : Len(p) = 2
  BY DEF Processes
<1> QED BY <1>1, <1>2

(* What the risk can grow by: nothing.                                     *)
LEMMA RiskShrinks ==
  ASSUME RiskOK, kills \in Nat, kills' \in {kills, kills + 1}, Risk' \subseteq Risk
  PROVE  RiskOK'
<1>1. PICK n \in Nat : n = Cardinality(Workers)
  BY PipelineAssumption, FS_CardinalityType
<1>2. IsFiniteSet(Risk) /\ Cardinality(Risk) <= kills * n
  BY <1>1 DEF RiskOK, Risk
<1>3. IsFiniteSet(Risk') /\ Cardinality(Risk') <= Cardinality(Risk)
      /\ Cardinality(Risk') \in Nat /\ Cardinality(Risk) \in Nat
  BY <1>2, FS_Subset, FS_CardinalityType
<1>4. (kills + 1) * n = kills * n + n /\ kills * n \in Nat
  BY <1>1
<1>5. Cardinality(Risk') <= kills' * n
  BY <1>1, <1>2, <1>3, <1>4
<1> QED BY <1>1, <1>3, <1>5 DEF RiskOK, Risk

(* Or one thing in the place of another.                                   *)
LEMMA RiskMoves ==
  ASSUME RiskOK, kills \in Nat, kills' = kills, NEW x \in Risk, NEW y,
         Risk' \subseteq (Risk \ {x}) \cup {y}
  PROVE  RiskOK'
<1>1. PICK n \in Nat : n = Cardinality(Workers)
  BY PipelineAssumption, FS_CardinalityType
<1>2. IsFiniteSet(Risk) /\ Cardinality(Risk) <= kills * n /\ Cardinality(Risk) \in Nat
  BY <1>1, FS_CardinalityType DEF RiskOK, Risk
<1>3. IsFiniteSet(Risk \ {x}) /\ Cardinality(Risk \ {x}) = Cardinality(Risk) - 1
  BY <1>2, FS_RemoveElement
<1> DEFINE T == (Risk \ {x}) \cup {y}
<1>4. IsFiniteSet(T) /\ Cardinality(T) <= Cardinality(Risk) /\ Cardinality(T) \in Nat
  <2>1. PICK S : S = Risk \ {x}
    OBVIOUS
  <2>2. IsFiniteSet(S) /\ Cardinality(S) = Cardinality(Risk) - 1
    BY <1>3, <2>1
  <2>3. IsFiniteSet(S \cup {y})
        /\ (Cardinality(S \cup {y}) = Cardinality(S)
              \/ Cardinality(S \cup {y}) = Cardinality(S) + 1)
    BY <2>2, FS_AddElement
  <2>4. T = S \cup {y}
    BY <2>1
  <2>5. IsFiniteSet(T) /\ Cardinality(T) \in Nat
    BY <2>3, <2>4, FS_CardinalityType
  <2> QED BY <1>2, <2>2, <2>3, <2>4, <2>5
<1> HIDE DEF T
<1>5. IsFiniteSet(Risk') /\ Cardinality(Risk') <= Cardinality(T) /\ Cardinality(Risk') \in Nat
  BY <1>4, FS_Subset, FS_CardinalityType DEF T
<1>6. kills' * n = kills * n /\ kills * n \in Nat
  BY <1>1
<1>7. Cardinality(Risk') <= kills' * n
  BY <1>2, <1>4, <1>5, <1>6
<1> QED BY <1>1, <1>5, <1>7 DEF RiskOK, Risk

(* Or, by a kill, one thing for each worker.                               *)
LEMMA RiskOfOneKill ==
  ASSUME RiskOK, kills \in Nat, kills' = kills + 1, NEW f, DOMAIN f = Workers,
         Risk' \subseteq Risk \cup {f[w] : w \in Workers}
  PROVE  RiskOK'
<1>1. PICK n \in Nat : n = Cardinality(Workers) /\ IsFiniteSet(Workers)
  BY PipelineAssumption, FS_CardinalityType
<1>2. IsFiniteSet(Risk) /\ Cardinality(Risk) <= kills * n /\ Cardinality(Risk) \in Nat
  BY <1>1, FS_CardinalityType DEF RiskOK, Risk
<1> DEFINE T == {f[w] : w \in Workers}
           g == [w \in Workers |-> f[w]]
<1>3. g \in Surjection(Workers, T)
  BY DEF Surjection
<1>4. IsFiniteSet(T) /\ Cardinality(T) <= n /\ Cardinality(T) \in Nat
  <2> HIDE DEF T, g
  <2> QED BY <1>1, <1>3, FS_Surjection, FS_CardinalityType
<1> HIDE DEF T
<1>5. /\ IsFiniteSet(Risk \cup T) /\ IsFiniteSet(Risk \cap T)
      /\ Cardinality(Risk \cup T) = Cardinality(Risk) + Cardinality(T) - Cardinality(Risk \cap T)
      /\ Cardinality(Risk \cap T) \in Nat
  BY <1>2, <1>4, FS_Union, FS_Intersection, FS_CardinalityType
<1>6. IsFiniteSet(Risk') /\ Cardinality(Risk') <= Cardinality(Risk \cup T)
      /\ Cardinality(Risk') \in Nat /\ Cardinality(Risk \cup T) \in Nat
  BY <1>5, FS_Subset, FS_CardinalityType DEF T
<1>7. kills' * n = kills * n + n /\ kills * n \in Nat
  BY <1>1
<1>8. Cardinality(Risk') <= kills' * n
  BY <1>2, <1>4, <1>5, <1>6, <1>7
<1> QED BY <1>1, <1>6, <1>8 DEF RiskOK, Risk

(* Whoever looks after the file he had, or removes it, leaves no orphan.   *)
LEMMA NoNewOrphan ==
  ASSUME NEW r \in Runs, NEW w \in Workers, OthersGoOn(r, w), DOMAIN temp' = DOMAIN temp,
         \A f \in DOMAIN temp : temp'[f] # Missing =>
           temp[f] # Missing \/ (Writing(r, w)' /\ f = TempFile(r, w)'),
         Writing(r, w) => \/ temp'[TempFile(r, w)] = Missing
                          \/ Writing(r, w)' /\ TempFile(r, w)' = TempFile(r, w)
  PROVE  Orphans' \subseteq Orphans
<1> SUFFICES ASSUME NEW f \in DOMAIN temp, temp'[f] # Missing,
                    \A q \in Runs, v \in Workers : Writing(q, v)' => f # TempFile(q, v)'
             PROVE  f \in Orphans
  BY DEF Orphans
<1>1. temp[f] # Missing
  OBVIOUS
<1>2. ASSUME NEW q \in Runs, NEW v \in Workers, Writing(q, v), f = TempFile(q, v) PROVE FALSE
  <2>1. CASE <<q, v>> = <<r, w>>
    BY <1>2, <2>1
  <2>2. CASE <<q, v>> # <<r, w>>
    <3>1. worker'[<<q, v>>] = worker[<<q, v>>]
      BY <2>2 DEF OthersGoOn, Processes
    <3>2. Writing(q, v)' /\ TempFile(q, v)' = TempFile(q, v)
      BY <1>2, <3>1 DEF Writing, TempFile, Target
    <3> QED BY <1>2, <3>2
  <2> QED BY <2>1, <2>2
<1> QED BY <1>1, <1>2 DEF Orphans

(* A worker that stops at once leaves one file at most. *)
LEMMA OneNewOrphan ==
  ASSUME NEW r \in Runs, NEW w \in Workers, OthersGoOn(r, w), temp' = temp
  PROVE  Orphans' \subseteq Orphans \cup {TempFile(r, w)}
<1>1. \A q \in Runs, v \in Workers : <<q, v>> # <<r, w>> /\ Writing(q, v) =>
        Writing(q, v)' /\ TempFile(q, v)' = TempFile(q, v)
  BY DEF OthersGoOn, Processes, Writing, TempFile, Target
<1> QED BY <1>1 DEF Orphans

(* A parent starts, cuts its list, goes to its next pass or ends only      *)
(* while its workers rest; a kill alone takes them out of their work.      *)
LEMMA OnlyKillsInterrupt ==
  ASSUME TypeOK, EmployedOK, NEW r \in Runs, ParentStep(r)
  PROVE  \/ KillRun(r)
         \/ kills' = kills /\ \A p \in Processes : worker'[p] = worker[p]
<1>1. \A w \in Workers : worker[<<r, w>>].pc = "idle" => worker[<<r, w>>] = Idle
  <2> TAKE w \in Workers
  <2>1. worker[<<r, w>>] \in WorkerStates
    BY DEF TypeOK, Processes
  <2> QED BY <2>1, WorkerStatesByPc
<1>3. CASE KillRun(r)
  BY <1>3
<1>4. CASE \/ StartAll(r) \/ \E l \in Layers, force \in BOOLEAN : StartOne(r, l, force)
           \/ LoadInParent(r)
  BY <1>4 DEF StartAll, StartOne, LoadInParent, ParentOnly
<1>5. CASE EndPass(r) \/ EndOne(r)
  BY <1>5 DEF EndPass, EndOne, ParentOnly
<1>6. CASE TimeLimit(r)
  <2>1. Resting(r) /\ kills' = kills
    BY <1>6 DEF TimeLimit, PassOver, counters
  <2>2. \A w \in Workers : worker[<<r, w>>] = Idle
    BY <1>1, <2>1 DEF Resting
  <2>3. worker' = [p \in Runs \X Workers |-> IF p[1] = r THEN Idle ELSE worker[p]]
    BY <1>6 DEF TimeLimit, Vanish
  <2> QED BY <2>1, <2>2, <2>3 DEF Processes
<1> QED BY <1>3, <1>4, <1>5, <1>6 DEF ParentStep, StepParent

(* Only a kill breaks a pool, and only the pool's own run puts a new one   *)
(* in its place.                                                           *)
LEMMA DoomedShrinks ==
  ASSUME NEW r \in Runs, NEW w \in Workers, OthersGoOn(r, w),
         run'[r].broken => run[r].broken,
         run[r].broken /\ worker'[<<r, w>>].pc # "idle" => worker[<<r, w>>].pc # "idle"
  PROVE  Doomed' \subseteq Doomed
<1> SUFFICES ASSUME NEW p \in Processes, run'[p[1]].broken, worker'[p].pc # "idle"
             PROVE  run[p[1]].broken /\ worker[p].pc # "idle"
  BY DEF Doomed
<1>1. p[1] \in Runs
  BY DEF Processes
<1>2. run[p[1]].broken
  BY <1>1 DEF OthersGoOn
<1>3. CASE p = <<r, w>>
  BY <1>2, <1>3
<1>4. CASE p # <<r, w>>
  BY <1>2, <1>4 DEF OthersGoOn
<1> QED BY <1>3, <1>4

(* The parents' steps.                                                     *)
LEMMA RiskOfParents ==
  ASSUME TypeOK, EmployedOK, RiskOK, NEW r \in Runs, ParentStep(r)
  PROVE  RiskOK'
<1>1. /\ \A q \in Runs : q # r => run'[q] = run[q]
      /\ \A w \in Workers : worker'[<<r, w>>] = Idle
      /\ \A q \in Runs, w \in Workers : q # r => worker'[<<q, w>>] = worker[<<q, w>>]
      /\ UNCHANGED temp
  BY ParentStepRests
<1>2. kills \in Nat
  BY DEF TypeOK
<1>3. Doomed' \subseteq Doomed
  <2> SUFFICES ASSUME NEW p \in Processes, run'[p[1]].broken, worker'[p].pc # "idle"
               PROVE  run[p[1]].broken /\ worker[p].pc # "idle"
    BY DEF Doomed
  <2>1. PICK q \in Runs, w \in Workers : p = <<q, w>>
    BY DEF Processes
  <2>2. q # r
    BY <1>1, <2>1, IdleType
  <2> QED BY <1>1, <2>1, <2>2
<1>4. CASE kills' = kills /\ \A p \in Processes : worker'[p] = worker[p]
  <2>1. \A q \in Runs, v \in Workers : worker'[<<q, v>>] = worker[<<q, v>>]
    BY <1>4 DEF Processes
  <2>2. Orphans' = Orphans
    <3>1. \A q \in Runs, v \in Workers :
            (Writing(q, v)' <=> Writing(q, v)) /\ TempFile(q, v)' = TempFile(q, v)
      BY <2>1 DEF Writing, TempFile, Target
    <3> QED BY <1>1, <3>1 DEF Orphans
  <2> QED BY <1>2, <1>3, <1>4, <2>2, RiskShrinks DEF Risk
<1>5. CASE KillRun(r)
  <2>1. kills' = kills + 1
    BY <1>5 DEF KillRun, Strike
  <2> DEFINE f == [w \in Workers |-> TempFile(r, w)]
  <2>2. Orphans' \subseteq Orphans \cup {f[w] : w \in Workers}
    <3>1. \A q \in Runs, v \in Workers : Writing(q, v) =>
            q = r \/ (Writing(q, v)' /\ TempFile(q, v)' = TempFile(q, v))
      BY <1>1 DEF Writing, TempFile, Target
    <3>2. \A w \in Workers : f[w] = TempFile(r, w)
      OBVIOUS
    <3> HIDE DEF f
    <3>3. SUFFICES ASSUME NEW x \in Orphans' PROVE x \in Orphans \cup {f[w] : w \in Workers}
      OBVIOUS
    <3>4. x \in DOMAIN temp /\ temp[x] # Missing
          /\ \A q \in Runs, v \in Workers : Writing(q, v)' => x # TempFile(q, v)'
      BY <1>1 DEF Orphans
    <3>5. CASE \E w \in Workers : x = TempFile(r, w)
      BY <3>2, <3>5
    <3>6. CASE ~\E w \in Workers : x = TempFile(r, w)
      BY <3>1, <3>4, <3>6 DEF Orphans
    <3> QED BY <3>5, <3>6
  <2>3. DOMAIN f = Workers
    OBVIOUS
  <2> HIDE DEF f
  <2>4. Risk' \subseteq Risk \cup {f[w] : w \in Workers}
    BY <1>3, <2>2 DEF Risk
  <2> QED BY <1>2, <2>1, <2>3, <2>4, RiskOfOneKill
<1> QED BY <1>4, <1>5, OnlyKillsInterrupt

(* A worker that goes on, ends its task, or has it raise, looks after the  *)
(* temporary file it has, or removes it.                                   *)
LEMMA WorkersCleanUp ==
  ASSUME TypeOK, TempsOK, NEW r \in Runs, NEW w \in Workers, OthersGoOn(r, w),
         \/ TakeTask(r, w) \/ LoadSchedule(r, w) \/ Reconstruct(r, w)
         \/ ReconstructFails(r, w) \/ WriteTemp(r, w) \/ Replace(r, w) \/ SaveFails(r, w)
         \/ \E id \in TempIds : MakeTemp(r, w, id)
  PROVE  Orphans' \subseteq Orphans
<1> DEFINE me == worker[<<r, w>>]
           new == worker'[<<r, w>>]
           file == TempFile(r, w)
<1>1. worker \in [Processes -> WorkerStates] /\ temp \in [Layers \X Samples \X TempIds -> Contents]
  BY DEF TypeOK
<1>2. <<r, w>> \in Processes
  BY DEF Processes
<1>3. me.pc \in {"write", "replace"} => file \in DOMAIN temp /\ temp[file] # Missing
  BY <1>1, TargetType DEF TempsOK, Writing, TempFile
<1>4. ASSUME temp' = temp, ~Writing(r, w) PROVE Orphans' \subseteq Orphans
  BY <1>4, NoNewOrphan
<1>5. CASE \/ TakeTask(r, w) \/ LoadSchedule(r, w) \/ Reconstruct(r, w)
           \/ ReconstructFails(r, w)
  <2>1. temp' = temp
    BY <1>5 DEF TakeTask, LoadSchedule, Reconstruct, ReconstructFails, files
  <2>2. ~Writing(r, w)
    BY <1>5 DEF TakeTask, LoadSchedule, Reconstruct, ReconstructFails, Writing
  <2> QED BY <1>4, <2>1, <2>2
<1>6. ASSUME NEW id \in TempIds, MakeTemp(r, w, id) PROVE Orphans' \subseteq Orphans
  <2> DEFINE t == Target(r, w)
             f == <<t[1], t[2], id>>
  <2>1. new = [me EXCEPT !.pc = "write", !.id = id]
    BY <1>1, <1>2, <1>6 DEF MakeTemp, Become
  <2>2. temp' = [temp EXCEPT ![f] = Partial]
    BY <1>6 DEF MakeTemp
  <2>3. me.pc = "save" /\ me \in WorkerSaving
    BY <1>1, <1>2, <1>6, WorkerStatesByPc DEF MakeTemp
  <2>4. new.pc = "write" /\ new.layer = me.layer /\ new.batch = me.batch /\ new.id = id
    BY <2>1, <2>3 DEF WorkerSaving
  <2>5. TempFile(r, w)' = f /\ Writing(r, w)'
    BY <2>4 DEF TempFile, Target, Writing
  <2>6. ~Writing(r, w)
    BY <2>3 DEF Writing
  <2>7. /\ DOMAIN temp' = DOMAIN temp
        /\ \A x \in DOMAIN temp : temp'[x] # Missing => temp[x] # Missing \/ x = f
    BY <2>2
  <2> QED BY <2>5, <2>6, <2>7, NoNewOrphan
<1>7. CASE WriteTemp(r, w)
  <2>1. new = [me EXCEPT !.pc = "replace"]
    BY <1>1, <1>2, <1>7 DEF WriteTemp, Become
  <2>2. temp' = [temp EXCEPT ![file] = me.version]
    BY <1>7 DEF WriteTemp
  <2>3. me.pc = "write" /\ me \in WorkerSaving
    BY <1>1, <1>2, <1>7, WorkerStatesByPc DEF WriteTemp
  <2>4. new.pc = "replace" /\ new.layer = me.layer /\ new.batch = me.batch /\ new.id = me.id
    BY <2>1, <2>3 DEF WorkerSaving
  <2>5. TempFile(r, w)' = file /\ Writing(r, w)'
    BY <2>4 DEF TempFile, Target, Writing
  <2>6. DOMAIN temp' = DOMAIN temp /\ \A x \in DOMAIN temp : temp'[x] # Missing => temp[x] # Missing
    BY <1>3, <2>2, <2>3
  <2> HIDE DEF file
  <2> QED BY <2>5, <2>6, NoNewOrphan DEF file
<1>8. CASE Replace(r, w) \/ SaveFails(r, w)
  <2>1. temp' = [temp EXCEPT ![file] = Missing]
    BY <1>8 DEF Replace, SaveFails
  <2>2. Writing(r, w)
    BY <1>8 DEF Replace, SaveFails, Writing
  <2>3. file \in DOMAIN temp
    BY <1>3, <2>2 DEF Writing
  <2>4. DOMAIN temp' = DOMAIN temp /\ temp'[file] = Missing
        /\ \A x \in DOMAIN temp : temp'[x] # Missing => temp[x] # Missing
    BY <2>1, <2>3
  <2> QED BY <2>4, NoNewOrphan
<1> QED BY <1>5, <1>6, <1>7, <1>8

(* The workers' steps: what a step of a worker adds to the risk is nothing, *)
(* a file in the place of a doomed worker, or what one kill can leave.     *)
LEMMA RiskOfWorkers ==
  ASSUME TypeOK, EmployedOK, TempsOK, RiskOK, TypeOK', NEW r \in Runs, NEW w \in Workers,
         StepWorker(r, w) \/ Fault(r, w)
  PROVE  RiskOK'
<1> DEFINE p == <<r, w>>
<1>1. OthersGoOn(r, w)
  BY WorkerStepKinds
<1>2. kills \in Nat /\ p \in Processes
  BY DEF TypeOK, Processes
<1>3. ASSUME \/ TakeTask(r, w) \/ LoadSchedule(r, w) \/ Reconstruct(r, w)
             \/ ReconstructFails(r, w) \/ WriteTemp(r, w) \/ Replace(r, w) \/ SaveFails(r, w)
             \/ \E id \in TempIds : MakeTemp(r, w, id)
      PROVE  RiskOK'
  <2>1. /\ run'[r].broken = run[r].broken /\ kills' = kills
        /\ run[r].broken => worker[p].pc # "idle"
    <3>1. CASE TakeTask(r, w)
      BY <3>1, TakeEffect DEF Starts, TakeTask
    <3>2. CASE Reconstruct(r, w) \/ WriteTemp(r, w) \/ Replace(r, w)
      BY <3>2 DEF Reconstruct, WriteTemp, Replace
    <3>3. CASE \E id \in TempIds : MakeTemp(r, w, id)
      BY <3>3 DEF MakeTemp
    <3>4. CASE LoadSchedule(r, w)
      <4>1. CASE UNCHANGED run
        BY <3>4, <4>1 DEF LoadSchedule
      <4>2. CASE TaskRaises(r, w)
        BY <3>4, <4>2, RaisesEffect DEF LoadSchedule, Fails
      <4> QED BY <3>4, <4>1, <4>2 DEF LoadSchedule
    <3>5. CASE ReconstructFails(r, w)
      BY <3>5, RaisesEffect DEF ReconstructFails, Raise, StageTwo, files, Fails
    <3>6. CASE SaveFails(r, w)
      BY <3>6, RaisesEffect DEF SaveFails, Raise, StageTwo, Fails
    <3> QED BY <1>3, <3>1, <3>2, <3>3, <3>4, <3>5, <3>6
  <2>2. Orphans' \subseteq Orphans
    BY <1>1, <1>3, WorkersCleanUp
  <2>3. Doomed' \subseteq Doomed
    BY <1>1, <2>1, DoomedShrinks
  <2> QED BY <1>2, <2>1, <2>2, <2>3, RiskShrinks DEF Risk
<1>4. CASE Terminate(r, w)
  <2>1. /\ run[r].broken /\ worker[p].pc # "idle" /\ worker'[p] = Idle
        /\ UNCHANGED <<run, temp, kills>>
    BY <1>4, BecomeEffect DEF Terminate, Busy, files, counters
  <2>2. Doomed' \subseteq Doomed \ {p}
    <3>1. Doomed' \subseteq Doomed
      BY <1>1, <2>1, DoomedShrinks
    <3>2. p \notin Doomed'
      BY <2>1, IdleType DEF Doomed
    <3> QED BY <3>1, <3>2
  <2>3. p \in Doomed
    BY <1>2, <2>1 DEF Doomed
  <2>4. Orphans' \subseteq Orphans \cup {TempFile(r, w)}
    BY <1>1, <2>1, OneNewOrphan
  <2>5. p \notin Orphans'
    <3>1. DOMAIN temp' = Layers \X Samples \X TempIds
      BY DEF TypeOK
    <3>2. Orphans' \subseteq DOMAIN temp'
      BY DEF Orphans
    <3> QED BY <1>2, <3>1, <3>2, ProcessesAreNoFiles
  <2>6. Risk' \subseteq (Risk \ {p}) \cup {TempFile(r, w)} /\ p \in Risk
    BY <2>2, <2>3, <2>4, <2>5 DEF Risk
  <2> QED BY <1>2, <2>1, <2>6, RiskMoves
<1>6. CASE KillWorker(r, w)
  <2>1. Dies(r, w) /\ kills' = kills + 1 /\ temp' = temp /\ ~run[r].broken
    BY <1>6, DeathEffect DEF KillWorker, Strike, files
  <2>2. Orphans' \subseteq Orphans \cup {TempFile(r, w)}
    BY <1>1, <2>1, OneNewOrphan
  <2> DEFINE f == [v \in Workers |-> IF v = w THEN TempFile(r, w) ELSE <<r, v>>]
  <2>3. DOMAIN f = Workers /\ f[w] = TempFile(r, w)
        /\ \A v \in Workers : v # w => f[v] = <<r, v>>
    OBVIOUS
  <2>4. Doomed' \subseteq Doomed \cup {f[v] : v \in Workers}
    <3> HIDE DEF f
    <3> SUFFICES ASSUME NEW q \in Runs, NEW v \in Workers, <<q, v>> \in Doomed'
                 PROVE  <<q, v>> \in Doomed \cup {f[u] : u \in Workers}
      <4>1. SUFFICES ASSUME NEW x \in Doomed' PROVE x \in Doomed \cup {f[u] : u \in Workers}
        OBVIOUS
      <4>2. x \in Processes
        BY DEF Doomed
      <4> QED BY <4>2 DEF Processes
    <3>0. run'[q].broken /\ worker'[<<q, v>>].pc # "idle"
      BY DEF Doomed
    <3>1. CASE q # r
      <4>1. run'[q] = run[q] /\ worker'[<<q, v>>] = worker[<<q, v>>]
        BY <1>1, <3>1 DEF OthersGoOn, Processes
      <4> QED BY <3>0, <4>1 DEF Doomed, Processes
    <3>2. CASE q = r
      <4>1. v # w
        BY <2>1, <3>0, <3>2, IdleType DEF Dies
      <4> QED BY <2>3, <3>2, <4>1
    <3> QED BY <3>1, <3>2
  <2>5. Risk' \subseteq Risk \cup {f[v] : v \in Workers}
    <3> HIDE DEF f
    <3> QED BY <2>2, <2>3, <2>4 DEF Risk
  <2> HIDE DEF f
  <2> QED BY <1>2, <2>1, <2>3, <2>5, RiskOfOneKill
<1> QED BY <1>3, <1>4, <1>6 DEF StepWorker, Fault

(* No step of anybody takes the risk beyond what the kills pay for.        *)
LEMMA RiskStep ==
  ASSUME TypeOK, EmployedOK, TempsOK, RiskOK, TypeOK', [Next]_vars
  PROVE  RiskOK'
<1>1. kills \in Nat
  BY DEF TypeOK
<1>2. CASE UNCHANGED <<temp, run, worker>> /\ kills' \in {kills, kills + 1}
  <2>1. Risk' = Risk
    BY <1>2 DEF Risk, Orphans, Doomed, Writing, TempFile, Target
  <2> QED BY <1>1, <1>2, <2>1, RiskShrinks
<1>3. CASE UNCHANGED vars
  BY <1>2, <1>3 DEF vars, files, counters
<1>4. CASE SolverStep
  <2>1. UNCHANGED <<temp, run, worker>>
    BY <1>4, SolverStepStages DEF StageOne
  <2>2. kills' \in {kills, kills + 1}
    BY <1>4 DEF SolverStep, StepSolver, KillSolver, StartSolver, SkipSchedule, SolveFails,
                OpenSchedule, CloseSchedule, WriteScheduleFails, SolverReturns, Raise, Strike,
                counters
  <2> QED BY <1>2, <2>1, <2>2
<1>5. CASE \E r \in Runs : ParentStep(r)
  BY <1>5, RiskOfParents
<1>6. CASE \E r \in Runs, w \in Workers : StepWorker(r, w) \/ Fault(r, w)
  BY <1>6, RiskOfWorkers
<1> QED BY <1>3, <1>4, <1>5, <1>6, NextSorted

-----------------------------------------------------------------------------
(* The whole invariant.                                                    *)

(* The states stay sound, as long as the workers' runs are what they serve. *)
LEMMA TypeStep ==
  ASSUME TypeOK, EmployedOK, [Next]_vars
  PROVE  TypeOK'
<1>1. CASE UNCHANGED vars
  BY <1>1 DEF vars, files, counters, TypeOK
<1>2. CASE SolverStep
  BY <1>2, StageOneType DEF SolverStep
<1>3. ASSUME NEW r \in Runs, ParentStep(r) PROVE TypeOK'
  BY <1>3, ParentStepType DEF ParentStep
<1>4. ASSUME NEW r \in Runs, NEW w \in Workers, StepWorker(r, w) \/ Fault(r, w) PROVE TypeOK'
  BY <1>4, WorkerStepType
<1> QED BY <1>1, <1>2, <1>3, <1>4, NextSorted

(* The parts of the invariant lean on one another, never in a circle.      *)
LEMMA InvStep ==
  ASSUME PipelineInv, [Next]_vars
  PROVE  PipelineInv'
<1>1. TypeOK'
  BY TypeStep DEF PipelineInv
<1>2. EmployedOK' /\ QueuesOK'
  BY EmployedStep, QueuesStep DEF PipelineInv
<1>3. TempsOK' /\ TracesComplete' /\ SchedulesOK'
  BY TempsStep, TracesCompleteStep, SchedulesStep DEF PipelineInv
<1>4. CoverageOK' /\ DivisionOK'
  BY CoverageStep, DivisionStep DEF PipelineInv
<1>5. RiskOK'
  BY <1>1, RiskStep DEF PipelineInv
<1>6. ReportedIsPresent' /\ MilestoneFirst'
  BY ReportedStep, MilestoneStep DEF PipelineInv
<1> QED BY <1>1, <1>2, <1>3, <1>4, <1>5, <1>6 DEF PipelineInv

(* Nothing is there, nothing is pending, and nothing has been promised.    *)
LEMMA InvInit ==
  ASSUME Init
  PROVE  PipelineInv
<1>1. TypeOK
  BY InitType
<1>2. /\ \A r \in Runs : run[r] = RunOff
      /\ \A p \in Processes : worker[p] = Idle
      /\ \A r \in Runs, w \in Workers : worker[<<r, w>>] = Idle
      /\ \A t \in Traces : trace[t] = Missing
      /\ \A f \in Layers \X Samples \X TempIds : temp[f] = Missing
      /\ solver.pc = "off" /\ kills = 0 /\ reported = {}
  BY DEF Init, Processes, SolverOff
<1>3. /\ RunOff.pc = "off" /\ RunOff.queue = <<>> /\ RunOff.version = Missing
      /\ ~RunOff.broken
  BY DEF RunOff
<1>4. EmployedOK /\ QueuesOK /\ CoverageOK /\ MilestoneFirst
  BY <1>2, <1>3, IdleType DEF EmployedOK, QueuesOK, CoverageOK, MilestoneFirst
<1>5. TempsOK
  BY <1>2, IdleType DEF TempsOK, Writing
<1>6. TracesComplete /\ ReportedIsPresent
  BY <1>2, PipelineAssumption DEF TracesComplete, ReportedIsPresent
<1>7. SchedulesOK
  BY <1>2, <1>3, IdleType DEF SchedulesOK, OneScheduleByLayer
<1>8. DivisionOK
  <2>1. \A r \in Runs : QueuedWork(r) = {}
    BY <1>2, <1>3 DEF QueuedWork
  <2>2. \A r \in Runs, w \in Workers : Work(r, w) = {}
    BY <1>2, WorkOf
  <2> QED BY <1>2, <1>3, <2>1, <2>2 DEF DivisionOK, WorkIsDivided
<1>9. RiskOK
  <2>1. PICK n \in Nat : n = Cardinality(Workers)
    BY PipelineAssumption, FS_CardinalityType
  <2>2. DOMAIN temp = Layers \X Samples \X TempIds
    BY <1>1 DEF TypeOK
  <2>3. Orphans = {}
    BY <1>2, <2>2 DEF Orphans
  <2>4. Doomed = {}
    BY <1>2, IdleType DEF Doomed
  <2>5. IsFiniteSet(Orphans \cup Doomed) /\ Cardinality(Orphans \cup Doomed) = 0
    BY <2>3, <2>4, FS_EmptySet
  <2> QED BY <1>2, <2>1, <2>5 DEF RiskOK
<1> QED BY <1>1, <1>4, <1>5, <1>6, <1>7, <1>8, <1>9 DEF PipelineInv

(* Every reachable state satisfies it.                                     *)
LEMMA PipelineCorrect == Spec => []PipelineInv
BY InvInit, InvStep, PTL DEF Spec

(* Every process is in one of the states listed above, whatever the others *)
(* do: a batch is never empty when it is saved, nothing is made before its *)
(* schedule is loaded, and no schedule number is beyond the last solve.    *)
THEOREM TypeCorrect == Spec => []TypeOK
<1>1. PipelineInv => TypeOK
  BY DEF PipelineInv
<1> QED BY <1>1, PipelineCorrect, PTL

(* All traces of a layer come from the one schedule on disk, as long as    *)
(* the layer is not solved again with --force (load_schedule): a version   *)
(* is agreed with the disk from the moment a process loads it to the       *)
(* moment the trace made from it gets its name.                            *)
THEOREM ScheduleCorrect == Spec => []OneScheduleByLayer
<1>1. PipelineInv => OneScheduleByLayer
  BY DEF PipelineInv, SchedulesOK
<1> QED BY <1>1, PipelineCorrect, PTL

(* What a run reports is there, no trace is made by two workers of a run,  *)
(* and every file left behind is paid for by a kill.                       *)
THEOREM WorkCorrect == Spec => []WorkIsAccountedFor
<1>1. PipelineInv => WorkIsAccountedFor
  <2> SUFFICES ASSUME PipelineInv PROVE WorkIsAccountedFor
    OBVIOUS
  <2>1. PICK n \in Nat : n = Cardinality(Workers)
    BY PipelineAssumption, FS_CardinalityType
  <2>2. kills \in Nat
    BY DEF PipelineInv, TypeOK
  <2>3. PICK m \in Nat : m = kills * n
    BY <2>2
  <2>4. IsFiniteSet(Risk) /\ Cardinality(Risk) <= m
    BY <2>1, <2>3 DEF PipelineInv, RiskOK, Risk
  <2>5. Orphans \in SUBSET Risk
    BY DEF Risk
  <2>6. /\ Cardinality(Orphans) <= Cardinality(Risk)
        /\ Cardinality(Orphans) \in Nat /\ Cardinality(Risk) \in Nat
    BY <2>4, <2>5, FS_Subset, FS_CardinalityType
  <2>7. Cardinality(Orphans) <= m
    BY <2>4, <2>6
  <2> QED BY <2>1, <2>3, <2>7
          DEF PipelineInv, WorkIsAccountedFor, DivisionOK, OrphansComeFromKills
<1> QED BY <1>1, PipelineCorrect, PTL

(* The second pass over all layers begins when the first samples of every  *)
(* layer that did not fail are on disk.                                    *)
THEOREM MilestoneCorrect == Spec => []MilestoneFirst
<1>1. PipelineInv => MilestoneFirst
  BY DEF PipelineInv
<1> QED BY <1>1, PipelineCorrect, PTL

(* The trace files are the atomic files of the abstract specification: a   *)
(* file appears at its path only by the rename of a temporary file that    *)
(* holds a complete version, and no step takes it away.                    *)
THEOREM TracesCorrect == Spec => TracesAreAtomic
<1>1. Init => Files!Init
  BY DEF Init, Files!Init
<1>2. PipelineInv /\ [Next]_vars => [Files!Next]_trace
  <2> SUFFICES ASSUME PipelineInv, [Next]_vars, trace' # trace PROVE Files!Next
    OBVIOUS
  <2>1. PICK r \in Runs, w \in Workers : OthersGoOn(r, w) /\ Saves(r, w)
    BY TraceChanges DEF PipelineInv
  <2>2. Target(r, w) \in Traces /\ temp[TempFile(r, w)] \in Versions
    BY <2>1, SavedContent DEF PipelineInv, Saves
  <2>3. trace' = [trace EXCEPT ![Target(r, w)] = temp[TempFile(r, w)]]
    BY <2>1 DEF Saves
  <2> QED BY <2>2, <2>3 DEF Files!Next, Files!Publish
<1> QED BY <1>1, <1>2, PipelineCorrect, PTL DEF Spec, TracesAreAtomic, Files!Spec
=============================================================================
