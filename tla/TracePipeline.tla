---------------------------- MODULE TracePipeline ----------------------------
(***************************************************************************)
(* The generate-once pipeline.  Stage 1 (scripts/solve_schedules.py) solves *)
(* one schedule per layer and writes it in place; stage 2                  *)
(* (scripts/generate_weight_traces.py) loads the schedules and lets worker *)
(* processes write one trace file per sample through a temporary file      *)
(* (tracegen.save_weight_trace).  Both skip what already exists, nothing   *)
(* locks anything, and any process may be killed between two steps.        *)
(*                                                                         *)
(* A file is Missing, Partial, or holds a version: for a schedule the      *)
(* number of the solve that made it, for a trace the schedule it was made  *)
(* from.  One action is one access to the file system, or one step of a    *)
(* worker pool.                                                            *)
(***************************************************************************)
EXTENDS Naturals, FiniteSets, Sequences

CONSTANTS
  LayerList,    \* the valid layers in the order of meta.json
  Samples,      \* the requested sample numbers
  FirstPass,    \* the first FIRST_PASS_SAMPLES of them
  BatchSize,    \* SAMPLE_CHUNK_SIZE
  Infeasible,   \* the layers every traffic mode of which is infeasible
  Runs,         \* concurrent invocations of stage 2
  Workers,      \* worker processes of one invocation
  TempIds,      \* the random parts of temporary file names
  Modes,        \* the ways stage 2 is invoked, of "one" and "all"
  Missing, Partial,
  MaxSolves,    \* bound: schedules written
  MaxErrors,    \* bound: exceptions raised by a solve, a native call or a write
  MaxKills      \* bound: processes killed

Layers   == {LayerList[i] : i \in DOMAIN LayerList}
Versions == 1 .. MaxSolves
Traces   == Layers \X Samples

ASSUME PipelineAssumption ==
  /\ LayerList \in Seq(Layers)
  /\ \A i, j \in DOMAIN LayerList : LayerList[i] = LayerList[j] => i = j
  /\ Samples \subseteq Nat /\ IsFiniteSet(Samples) /\ FirstPass \subseteq Samples
  /\ Infeasible \subseteq Layers
  /\ BatchSize \in Nat \ {0}
  /\ Workers # {} /\ IsFiniteSet(Workers) /\ TempIds # {} /\ Modes \subseteq {"one", "all"}
  /\ MaxSolves \in Nat /\ MaxErrors \in Nat /\ MaxKills \in Nat
  /\ Missing # Partial /\ Missing \notin Versions /\ Partial \notin Versions

VARIABLES
  schedule,  \* layer -> content of its schedule file
  trace,     \* <<layer, sample>> -> content of its trace file
  temp,      \* <<layer, sample, id>> -> content of that temporary file
  solver,    \* the process of stage 1
  run,       \* the parent processes of stage 2
  worker,    \* <<run, worker>> -> that worker process
  solves, errors, kills,  \* counted for the bounds
  resolved,  \* history: layers solved with --force
  reported   \* history: traces a run has reported as present

files    == <<schedule, trace, temp>>
counters == <<solves, errors, kills>>
vars     == <<files, solver, run, worker, counters, resolved, reported>>

-----------------------------------------------------------------------------
(* Lists of sample numbers are ascending: a set stands for each.           *)

Rank(S, x) == Cardinality({y \in S : y < x})

Smallest(S) == CHOOSE x \in S : \A y \in S : x <= y

(* seq[(i - 1) * size : i * size] *)
Slice(S, size, i) == {x \in S : Rank(S, x) \div size = i - 1}

ChunkSize(S) ==
  LET share == Cardinality(S) \div Cardinality(Workers)
  IN  IF share > 1 THEN share ELSE 1

(* _chunks: slices of len // n samples, the remainder in further ones.     *)
Chunks(S) ==
  LET size == ChunkSize(S)
  IN  [i \in 1 .. (Cardinality(S) + size - 1) \div size |-> Slice(S, size, i)]

-----------------------------------------------------------------------------
(* Process states.                                                         *)

SolverOff == [pc |-> "off", left |-> <<>>, force |-> FALSE]

RunOff == [pc |-> "off", mode |-> "all", pass |-> 1, layer |-> LayerList[1], todo |-> {},
           version |-> Missing, queue |-> <<>>, lost |-> FALSE, broken |-> FALSE,
           failed |-> {}, hurt |-> {}, sunk |-> {}]

Idle == [pc |-> "idle", layer |-> LayerList[1], left |-> {}, batch |-> {},
         version |-> Missing, id |-> CHOOSE id \in TempIds : TRUE]

Init ==
  /\ schedule = [l \in Layers |-> Missing]
  /\ trace = [t \in Traces |-> Missing]
  /\ temp = [f \in Layers \X Samples \X TempIds |-> Missing]
  /\ solver = SolverOff
  /\ run = [r \in Runs |-> RunOff]
  /\ worker = [p \in Runs \X Workers |-> Idle]
  /\ solves = 0 /\ errors = 0 /\ kills = 0
  /\ resolved = {} /\ reported = {}

Raise == errors < MaxErrors /\ errors' = errors + 1 /\ UNCHANGED <<solves, kills>>

Strike == kills < MaxKills /\ kills' = kills + 1 /\ UNCHANGED <<solves, errors>>

-----------------------------------------------------------------------------
(* Stage 1: one process, one layer after the other.                        *)

StageOne == UNCHANGED <<trace, temp, run, worker, reported>>

StartSolver(force) ==
  /\ solver.pc = "off"
  /\ solver' = [pc |-> "next", left |-> LayerList, force |-> force]
  /\ StageOne /\ UNCHANGED <<schedule, counters, resolved>>

Solving(l) == solver.pc = "next" /\ solver.left # <<>> /\ l = Head(solver.left)

NextSolve == solver' = [solver EXCEPT !.pc = "next", !.left = Tail(@)]

(* Deviation: the existing file is not looked for. *)
NeverCached(l) == FALSE

Cached(l) == schedule[l] # Missing /\ ~solver.force

SkipSchedule(l) ==
  /\ Solving(l) /\ Cached(l)
  /\ NextSolve
  /\ StageOne /\ UNCHANGED <<schedule, counters, resolved>>

(* Every mode infeasible, or an exception: a row in the summary, and the   *)
(* next layer.  (Beyond MaxSolves every solve fails.)                      *)
SolveFails(l) ==
  /\ Solving(l) /\ ~Cached(l)
  /\ IF l \in Infeasible \/ solves = MaxSolves THEN UNCHANGED counters ELSE Raise
  /\ NextSolve
  /\ StageOne /\ UNCHANGED <<schedule, resolved>>

(* open(out_path, "w") truncates what was there. *)
OpenSchedule(l) ==
  /\ Solving(l) /\ ~Cached(l) /\ l \notin Infeasible
  /\ solves < MaxSolves
  /\ solves' = solves + 1
  /\ schedule' = [schedule EXCEPT ![l] = Partial]
  /\ solver' = [solver EXCEPT !.pc = "write"]
  /\ resolved' = IF solver.force THEN resolved \cup {l} ELSE resolved
  /\ StageOne /\ UNCHANGED <<errors, kills>>

CloseSchedule ==
  /\ solver.pc = "write"
  /\ schedule' = [schedule EXCEPT ![Head(solver.left)] = solves]
  /\ NextSolve
  /\ StageOne /\ UNCHANGED <<counters, resolved>>

(* The exception is caught and recorded; the file stays as it is. *)
WriteScheduleFails ==
  /\ solver.pc = "write"
  /\ Raise /\ NextSolve
  /\ StageOne /\ UNCHANGED <<schedule, resolved>>

SolverReturns ==
  /\ solver.pc = "next" /\ solver.left = <<>>
  /\ solver' = SolverOff
  /\ StageOne /\ UNCHANGED <<schedule, counters, resolved>>

KillSolver ==
  /\ solver.pc # "off"
  /\ Strike
  /\ solver' = SolverOff
  /\ StageOne /\ UNCHANGED <<schedule, resolved>>

StepSolver ==
  \/ \E l \in Layers : SkipSchedule(l) \/ SolveFails(l) \/ OpenSchedule(l)
  \/ CloseSchedule \/ WriteScheduleFails \/ SolverReturns

-----------------------------------------------------------------------------
(* Stage 2, the parent process.                                            *)

StageTwo == UNCHANGED <<schedule, solver, solves, resolved>>

ParentOnly == StageTwo /\ UNCHANGED <<trace, temp, worker, errors, kills>>

Resting(r) == \A w \in Workers : worker[<<r, w>>].pc = "idle"

(* One task per layer; a pass is over when all its futures are.            *)
PassSamples(pass) == IF pass = 1 THEN FirstPass ELSE Samples

Pass(n, sunk) ==
  [RunOff EXCEPT !.pc = "work", !.pass = n, !.sunk = sunk,
     !.queue = [i \in DOMAIN LayerList |->
                  [layer |-> LayerList[i], samples |-> PassSamples(n)]]]

StartAll(r) ==
  /\ "all" \in Modes /\ run[r].pc = "off"
  /\ run' = [run EXCEPT ![r] = Pass(1, {})]
  /\ ParentOnly /\ UNCHANGED reported

(* run_one_combo up to load_schedule: the schedule must be there, and only *)
(* the samples that are not, unless forced, are to be done.                *)
StartOne(r, l, force) ==
  /\ "one" \in Modes /\ run[r].pc = "off"
  /\ schedule[l] # Missing
  /\ LET todo == {s \in Samples : force \/ trace[<<l, s>>] = Missing}
     IN  /\ todo # {}
         /\ run' = [run EXCEPT ![r] = [RunOff EXCEPT
                      !.pc = "load", !.mode = "one", !.layer = l, !.todo = todo]]
  /\ ParentOnly /\ UNCHANGED reported

LoadInParent(r) ==
  /\ run[r].pc = "load"
  /\ LET l == run[r].layer
         chunks == Chunks(run[r].todo)
     IN  run' = [run EXCEPT ![r] =
                   IF schedule[l] \in Versions
                   THEN [@ EXCEPT !.pc = "work", !.version = schedule[l],
                           !.queue = [i \in DOMAIN chunks |->
                                        [layer |-> l, samples |-> chunks[i]]]]
                   ELSE RunOff]
  /\ ParentOnly /\ UNCHANGED reported

(* Deviation: the next pass begins while tasks of this one are running. *)
PassOverWhenDispatched(r) == run[r].pc = "work" /\ run[r].queue = <<>>

PassOver(r) == run[r].pc = "work" /\ run[r].queue = <<>> /\ Resting(r)

(* The two passes of run_all_layers.  What failed in one is tried again in *)
(* the next, with a new pool; the program returns 0 in any case.           *)
EndPass(r) ==
  /\ run[r].mode = "all" /\ PassOver(r)
  /\ run' = [run EXCEPT ![r] = IF @.pass = 1 THEN Pass(2, @.failed) ELSE RunOff]
  /\ reported' = reported \cup
                   ((Layers \ run[r].failed) \X PassSamples(run[r].pass))
  /\ ParentOnly

(* pool.map has the results of all chunks, or the first exception.  With a *)
(* chunk lost it waits forever.                                            *)
EndOne(r) ==
  /\ run[r].mode = "one" /\ PassOver(r) /\ ~run[r].lost
  /\ run' = [run EXCEPT ![r] = RunOff]
  /\ reported' = IF run[r].failed = {}
                 THEN reported \cup ({run[r].layer} \X Samples) ELSE reported
  /\ ParentOnly

Vanish(r) ==
  /\ run' = [run EXCEPT ![r] = RunOff]
  /\ worker' = [p \in Runs \X Workers |-> IF p[1] = r THEN Idle ELSE worker[p]]
  /\ UNCHANGED <<schedule, trace, temp, solver, resolved, reported>>

(* The whole job is killed: out of memory, or cancelled. *)
KillRun(r) == run[r].pc # "off" /\ Strike /\ Vanish(r)

(* The job has run out of its time limit. *)
TimeLimit(r) ==
  /\ run[r].mode = "one" /\ PassOver(r) /\ run[r].lost
  /\ Vanish(r) /\ UNCHANGED counters

-----------------------------------------------------------------------------
(* Stage 2, worker w of run r.                                             *)

Become(r, w, state) == worker' = [worker EXCEPT ![<<r, w>>] = state]

(* A run learns that layers have failed, of these some by their own fault. *)
Failing(state, layers, own) ==
  [state EXCEPT !.failed = @ \cup layers, !.hurt = @ \cup own]

(* The task a worker is busy with has raised an exception. *)
TaskRaises(r, w) ==
  LET l == worker[<<r, w>>].layer
  IN  /\ Become(r, w, Idle)
      /\ run' = [run EXCEPT ![r] = Failing(@, {l}, {l})]
      /\ UNCHANGED reported

(* A task of a pass looks for the samples missing now; a chunk is done as  *)
(* it was cut.                                                             *)
Takes(r, w) ==
  LET task == Head(run[r].queue)
      left == IF run[r].mode = "one" THEN task.samples
              ELSE {s \in task.samples : trace[<<task.layer, s>>] = Missing}
  IN  IF left = {} THEN Idle
      ELSE [Idle EXCEPT !.pc = IF run[r].mode = "one" THEN "reconstruct" ELSE "load",
                        !.layer = task.layer, !.left = left,
                        !.version = run[r].version]

TakeTask(r, w) ==
  /\ run[r].pc = "work" /\ run[r].queue # <<>> /\ ~run[r].broken
  /\ worker[<<r, w>>].pc = "idle"
  /\ Become(r, w, Takes(r, w))
  /\ run' = [run EXCEPT ![r] = [run[r] EXCEPT !.queue = Tail(run[r].queue)]]
  /\ StageTwo /\ UNCHANGED <<trace, temp, errors, kills, reported>>

LoadSchedule(r, w) ==
  /\ worker[<<r, w>>].pc = "load"
  /\ LET content == schedule[worker[<<r, w>>].layer]
     IN  IF content \in Versions
         THEN /\ Become(r, w, [worker[<<r, w>>] EXCEPT
                                 !.pc = "reconstruct", !.version = content])
              /\ UNCHANGED <<run, reported>>
         ELSE TaskRaises(r, w)
  /\ StageTwo /\ UNCHANGED <<trace, temp, errors, kills>>

(* reconstruct_samples for the next few samples, or for the whole chunk. *)
Reconstruct(r, w) ==
  /\ worker[<<r, w>>].pc = "reconstruct"
  /\ LET left  == worker[<<r, w>>].left
         batch == IF run[r].mode = "one" THEN left ELSE Slice(left, BatchSize, 1)
     IN  Become(r, w, [worker[<<r, w>>] EXCEPT
                         !.pc = "save", !.left = left \ batch, !.batch = batch])
  /\ StageTwo /\ UNCHANGED <<trace, temp, run, errors, kills, reported>>

ReconstructFails(r, w) ==
  /\ worker[<<r, w>>].pc \in {"load", "reconstruct"}
  /\ Raise /\ TaskRaises(r, w)
  /\ UNCHANGED <<files, solver, resolved>>

-----------------------------------------------------------------------------
(* save_weight_trace.                                                      *)

(* The trace a worker is saving, and the temporary file it writes. *)
Target(r, w) == <<worker[<<r, w>>].layer, Smallest(worker[<<r, w>>].batch)>>

TempFile(r, w) == <<Target(r, w)[1], Target(r, w)[2], worker[<<r, w>>].id>>

(* Deviation: one fixed temporary name per trace. *)
FixedId(l, s) == {CHOOSE id \in TempIds : TRUE}

(* Deviation: one fixed temporary name per trace, opened exclusively. *)
FixedFreshId(l, s) == {id \in FixedId(l, s) : temp[<<l, s, id>>] = Missing}

(* mkstemp picks a name that is not in use. *)
FreshIds(l, s) == {id \in TempIds : temp[<<l, s, id>>] = Missing}

MakeTemp(r, w, id) ==
  LET t == Target(r, w)
  IN  /\ worker[<<r, w>>].pc = "save"
      /\ id \in FreshIds(t[1], t[2])
      /\ temp' = [temp EXCEPT ![<<t[1], t[2], id>>] = Partial]
      /\ Become(r, w, [worker[<<r, w>>] EXCEPT !.pc = "write", !.id = id])
      /\ StageTwo /\ UNCHANGED <<trace, run, errors, kills, reported>>

WriteTemp(r, w) ==
  /\ worker[<<r, w>>].pc = "write"
  /\ temp' = [temp EXCEPT ![TempFile(r, w)] = worker[<<r, w>>].version]
  /\ Become(r, w, [worker[<<r, w>>] EXCEPT !.pc = "replace"])
  /\ StageTwo /\ UNCHANGED <<trace, run, errors, kills, reported>>

(* What the worker does after the sample it has just saved. *)
AfterSave(r, w) ==
  LET me    == worker[<<r, w>>]
      batch == me.batch \ {Smallest(me.batch)}
      next  == IF batch # {} THEN "save" ELSE "reconstruct"
  IN  IF batch = {} /\ me.left = {} THEN Idle
      ELSE [me EXCEPT !.pc = next, !.batch = batch, !.id = Idle.id]

(* os.replace: the name moves, whatever the file holds. *)
Replace(r, w) ==
  /\ worker[<<r, w>>].pc = "replace"
  /\ trace' = [trace EXCEPT ![Target(r, w)] = temp[TempFile(r, w)]]
  /\ temp' = [temp EXCEPT ![TempFile(r, w)] = Missing]
  /\ Become(r, w, AfterSave(r, w))
  /\ StageTwo /\ UNCHANGED <<run, errors, kills, reported>>

(* An exception while writing or replacing removes the temporary file. *)
SaveFails(r, w) ==
  /\ worker[<<r, w>>].pc \in {"write", "replace"}
  /\ temp' = [temp EXCEPT ![TempFile(r, w)] = Missing]
  /\ Raise /\ TaskRaises(r, w)
  /\ UNCHANGED <<schedule, trace, solver, resolved>>

-----------------------------------------------------------------------------
(* The death of one worker.                                                *)

Busy(r) == {w \in Workers : worker[<<r, w>>].pc # "idle"}

(* With one worker run_one_combo works in the parent itself. *)
HasPool(r) == run[r].pc = "work" /\ (run[r].mode = "all" \/ Cardinality(Workers) > 1)

Queued(r) == {run[r].queue[i].layer : i \in DOMAIN run[r].queue}

(* Deviation: the executor replaces the worker and forgets its task. *)
ForgetTask(r, w) == run' = [run EXCEPT ![r] = Failing(@, {}, {worker[<<r, w>>].layer})]

(* ProcessPoolExecutor: every future that is not done fails, and the       *)
(* manager goes on to terminate the other workers.                         *)
BreakPool(r, w) ==
  LET own == IF w \in Busy(r) THEN {worker[<<r, w>>].layer} ELSE {}
      all == Queued(r) \cup {worker[<<r, v>>].layer : v \in Busy(r)}
  IN  run' = [run EXCEPT ![r] =
                [Failing(run[r], all, own) EXCEPT !.broken = TRUE, !.queue = <<>>]]

(* multiprocessing.Pool: a new worker takes the place, the chunk is lost. *)
LoseChunk(r, w) ==
  run' = [run EXCEPT ![r] = [run[r] EXCEPT !.lost = run[r].lost \/ w \in Busy(r)]]

KillWorker(r, w) ==
  /\ HasPool(r) /\ ~run[r].broken
  /\ Strike
  /\ IF run[r].mode = "all" THEN BreakPool(r, w) ELSE LoseChunk(r, w)
  /\ Become(r, w, Idle)
  /\ UNCHANGED <<files, solver, resolved, reported>>

(* The other workers of a broken pool; they may get further before. *)
Terminate(r, w) ==
  /\ run[r].broken /\ w \in Busy(r)
  /\ Become(r, w, Idle)
  /\ UNCHANGED <<files, solver, run, counters, resolved, reported>>

-----------------------------------------------------------------------------
StepParent(r) == LoadInParent(r) \/ EndPass(r) \/ EndOne(r)

StepWorker(r, w) ==
  \/ TakeTask(r, w) \/ LoadSchedule(r, w) \/ Reconstruct(r, w)
  \/ \E id \in TempIds : MakeTemp(r, w, id)
  \/ WriteTemp(r, w) \/ Replace(r, w) \/ Terminate(r, w)

Fault(r, w) == ReconstructFails(r, w) \/ SaveFails(r, w) \/ KillWorker(r, w)

Next ==
  \/ \E force \in BOOLEAN : StartSolver(force)
  \/ StepSolver \/ KillSolver
  \/ \E r \in Runs :
       \/ StartAll(r)
       \/ \E l \in Layers, force \in BOOLEAN : StartOne(r, l, force)
       \/ StepParent(r) \/ KillRun(r) \/ TimeLimit(r)
       \/ \E w \in Workers : StepWorker(r, w) \/ Fault(r, w)

Spec == Init /\ [][Next]_vars

(* The operating system schedules every process that can go on, and a job  *)
(* has a time limit.                                                       *)
FairSpec ==
  /\ Spec
  /\ \A r \in Runs :
       /\ WF_vars(StepParent(r)) /\ WF_vars(TimeLimit(r))
       /\ \A w \in Workers : WF_vars(StepWorker(r, w))

(* Someone starts the program again whenever it has ended, as its          *)
(* skip-existing checks invite to.                                         *)
RerunSpec == FairSpec /\ \A r \in Runs : WF_vars(StartAll(r))
=============================================================================
