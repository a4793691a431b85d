----------------------------- MODULE CacheSweep -----------------------------
(***************************************************************************)
(* The cache replay sweep (profiling/0803_l1_l2_cache/run_sweep.py).  One  *)
(* unit is one layer of one architecture; its result is two files, a       *)
(* summary CSV and a per-core CSV, each written under a temporary name and *)
(* renamed.  A unit is skipped when both are there.  When every unit has   *)
(* its summary they are merged into one file.  Jobs may overlap (the whole *)
(* sweep, one unit by its index, the merge alone) and be killed.           *)
(***************************************************************************)
EXTENDS Naturals, FiniteSets

CONSTANTS
  Units,      \* the discovered units
  Jobs,       \* concurrent invocations of the program
  Workers,    \* worker processes of one invocation
  MaxFaults   \* bound: exceptions raised by a unit and processes killed

ASSUME CacheSweepAssumption ==
  /\ IsFiniteSet(Units) /\ Units # {} /\ Workers # {}
  /\ MaxFaults \in Nat

VARIABLES
  result,  \* <<unit, kind>> -> the file under its final name
  temp,    \* <<unit, kind, process>> -> the file under its temporary name
  merged,  \* the merged file
  job,     \* the parent processes
  worker,  \* <<job, worker>> -> that process
  faults

vars == <<result, temp, merged, job, worker, faults>>

Kinds     == {"summary", "per_core"}
Files     == Units \X Kinds
Processes == Jobs \X Workers

Off  == [pc |-> "off", todo |-> {}, broken |-> FALSE, failed |-> FALSE]
Idle == [pc |-> "idle", unit |-> CHOOSE u \in Units : TRUE]

Init ==
  /\ result = [f \in Files |-> "missing"]
  /\ temp = [f \in Units \X Kinds \X Processes |-> "missing"]
  /\ merged = "missing"
  /\ job = [j \in Jobs |-> Off]
  /\ worker = [p \in Processes |-> Idle]
  /\ faults = 0

Fault == faults < MaxFaults /\ faults' = faults + 1

-----------------------------------------------------------------------------
(* The parent process.                                                     *)

Parent(j, state) ==
  /\ job' = [job EXCEPT ![j] = state]
  /\ UNCHANGED <<result, temp, worker, faults>>

(* Deviation: either file is taken for the whole result. *)
HalfCached(u) == \E kind \in Kinds : result[<<u, kind>>] # "missing"

Cached(u) == \A kind \in Kinds : result[<<u, kind>>] # "missing"

(* --run: a pool for the units not cached. *)
StartSweep(j) ==
  /\ job[j].pc = "off"
  /\ Parent(j, [Off EXCEPT !.pc = "pool", !.todo = {u \in Units : ~Cached(u)}])
  /\ UNCHANGED merged

(* --unit-index: run_unit in the parent itself, and no merge. *)
StartUnit(j, u) ==
  /\ job[j].pc = "off"
  /\ Parent(j, [Off EXCEPT !.pc = "unit", !.todo = {u}])
  /\ UNCHANGED merged

StartMerge(j) ==
  /\ job[j].pc = "off"
  /\ Parent(j, [Off EXCEPT !.pc = "merge"])
  /\ UNCHANGED merged

Resting(j) == \A w \in Workers : worker[<<j, w>>].pc = "idle"

(* The pool is empty: "rerun to resume" after a failure, else the merge.   *)
EndSweep(j) ==
  /\ job[j].pc \in {"pool", "unit"} /\ job[j].todo = {} /\ Resting(j)
  /\ Parent(j, IF job[j].pc = "pool" /\ ~job[j].failed
               THEN [Off EXCEPT !.pc = "merge"] ELSE Off)
  /\ UNCHANGED merged

(* Deviation: whatever has been completed is merged. *)
AnyComplete == \E u \in Units : result[<<u, "summary">>] = "whole"

(* merge_results: as many summaries as units, each with all its rows.      *)
AllComplete == \A u \in Units : result[<<u, "summary">>] = "whole"

ReadSummaries(j) ==
  /\ job[j].pc = "merge"
  /\ Parent(j, IF AllComplete THEN [Off EXCEPT !.pc = "replace"] ELSE Off)
  /\ UNCHANGED merged

WriteMerged(j) ==
  /\ job[j].pc = "replace"
  /\ merged' = "whole"
  /\ Parent(j, Off)

-----------------------------------------------------------------------------
(* run_unit.                                                               *)

(* Deviation: the temporary names carry no process id. *)
SharedName(j, w) == CHOOSE p \in Processes : TRUE

(* f".{name}.{os.getpid()}.tmp" *)
TempName(j, w) == <<j, w>>

Become(j, w, state) == worker' = [worker EXCEPT ![<<j, w>>] = state]

TempsBecome(u, p, content) ==
  [f \in DOMAIN temp |-> IF f[1] = u /\ f[3] = p THEN content ELSE temp[f]]

(* A task begins; a unit that somebody else has completed is skipped.      *)
TakeUnit(j, w, u) ==
  /\ job[j].pc \in {"pool", "unit"} /\ ~job[j].broken /\ u \in job[j].todo
  /\ worker[<<j, w>>].pc = "idle"
  /\ job' = [job EXCEPT ![j].todo = @ \ {u}]
  /\ IF Cached(u)
     THEN UNCHANGED <<worker, temp>>
     ELSE /\ Become(j, w, [pc |-> "write", unit |-> u])
          /\ temp' = TempsBecome(u, TempName(j, w), "partial")
  /\ UNCHANGED <<result, merged, faults>>

(* Five samples are replayed, and both files closed. *)
CloseTemps(j, w) ==
  /\ worker[<<j, w>>].pc = "write"
  /\ temp' = TempsBecome(worker[<<j, w>>].unit, TempName(j, w), "whole")
  /\ Become(j, w, [worker[<<j, w>>] EXCEPT !.pc = "per_core"])
  /\ UNCHANGED <<result, merged, job, faults>>

Rename(j, w, kind) ==
  LET u == worker[<<j, w>>].unit
  IN  /\ result' = [result EXCEPT ![<<u, kind>>] = temp[<<u, kind, TempName(j, w)>>]]
      /\ temp' = [temp EXCEPT ![<<u, kind, TempName(j, w)>>] = "missing"]

(* Deviation: the summary is renamed first. *)
FirstSummary(pc) == IF pc = "per_core" THEN "summary" ELSE "per_core"

(* Which file is renamed at which step: the per-core file first.           *)
Renamed(pc) == pc

Replace(j, w) ==
  LET pc == worker[<<j, w>>].pc
  IN  /\ pc \in Kinds
      /\ Rename(j, w, Renamed(pc))
      /\ Become(j, w, IF pc = "per_core" THEN [worker[<<j, w>>] EXCEPT !.pc = "summary"] ELSE Idle)
      /\ UNCHANGED <<merged, job, faults>>

(* Any exception removes what is left of the two temporary files.          *)
UnitRaises(j, w) ==
  /\ worker[<<j, w>>].pc # "idle"
  /\ Fault
  /\ temp' = TempsBecome(worker[<<j, w>>].unit, TempName(j, w), "missing")
  /\ Become(j, w, Idle)
  /\ job' = [job EXCEPT ![j].failed = TRUE]
  /\ UNCHANGED <<result, merged>>

-----------------------------------------------------------------------------
(* ProcessPoolExecutor: with one process dead every unfinished future      *)
(* fails, and the other processes are terminated, sooner or later.         *)
KillWorker(j, w) ==
  /\ job[j].pc = "pool" /\ ~job[j].broken
  /\ Fault
  /\ job' = [job EXCEPT ![j].broken = TRUE, ![j].failed = @ \/ job[j].todo # {} \/ ~Resting(j),
                        ![j].todo = {}]
  /\ Become(j, w, Idle)
  /\ UNCHANGED <<result, temp, merged>>

Terminate(j, w) ==
  /\ job[j].broken /\ worker[<<j, w>>].pc # "idle"
  /\ Become(j, w, Idle)
  /\ UNCHANGED <<result, temp, merged, job, faults>>

KillJob(j) ==
  /\ job[j].pc # "off" /\ Fault
  /\ job' = [job EXCEPT ![j] = Off]
  /\ worker' = [p \in Processes |-> IF p[1] = j THEN Idle ELSE worker[p]]
  /\ UNCHANGED <<result, temp, merged>>

StepParent(j) == EndSweep(j) \/ ReadSummaries(j) \/ WriteMerged(j)

StepWorker(j, w) ==
  \/ \E u \in Units : TakeUnit(j, w, u)
  \/ CloseTemps(j, w) \/ Replace(j, w) \/ Terminate(j, w)

Next ==
  \E j \in Jobs :
    \/ StartSweep(j) \/ StartMerge(j) \/ \E u \in Units : StartUnit(j, u)
    \/ StepParent(j) \/ KillJob(j)
    \/ \E w \in Workers : StepWorker(j, w) \/ UnitRaises(j, w) \/ KillWorker(j, w)

Spec == Init /\ [][Next]_vars

(* A job that can go on does, and someone reruns it to resume. *)
StepJob(j) == StepParent(j) \/ \E w \in Workers : StepWorker(j, w)

RerunSpec ==
  Spec /\ \A j \in Jobs : SF_vars(StartSweep(j)) /\ WF_vars(StepJob(j))
=============================================================================
