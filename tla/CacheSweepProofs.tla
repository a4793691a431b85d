-------------------------- MODULE CacheSweepProofs --------------------------
(***************************************************************************)
(* Proofs about the files of the cache sweep, for any number of units,     *)
(* jobs and workers, and any number of kills and exceptions.               *)
(*                                                                         *)
(* The argument: a temporary name belongs to one process, so what it holds *)
(* follows from where that process is; a file under its final name was     *)
(* such a temporary one when its process had completed it; and a summary   *)
(* is renamed by a process that has renamed the per-core file before.      *)
(***************************************************************************)
EXTENDS CacheSweepProps, TLAPS

(* No file is seen half written, and each rename finds the one before it   *)
(* done.                                                                   *)
Renames ==
  /\ \A f \in Files : result[f] # "partial"
  /\ \A p \in Processes :
       /\ worker[p].pc = "per_core" => temp[<<worker[p].unit, "summary", p>>] = "whole"
       /\ worker[p].pc = "summary" => result[<<worker[p].unit, "per_core">>] = "whole"

(* Whoever writes the merged file has read every summary. *)
Merges ==
  \A j \in Jobs : job[j].pc = "replace" => \A u \in Units : result[<<u, "summary">>] = "whole"

IInv == TypeOK /\ Renames /\ SummaryIsTheCommit /\ Merges /\ MergedIsComplete

USE DEF Kinds, Files, Processes, Contents

-----------------------------------------------------------------------------
(* An idle worker is a worker.                                             *)
LEMMA IdleType ==
  Idle \in [pc : {"idle", "write"} \cup Kinds, unit : Units] /\ Idle.pc = "idle"
<1>1. (CHOOSE u \in Units : TRUE) \in Units
  BY CacheSweepAssumption
<1> QED  BY <1>1 DEF Idle

(* A sweep that is not running is a sweep.                                 *)
LEMMA OffType ==
  Off \in [pc : {"off", "pool", "unit", "merge", "replace"},
           todo : SUBSET Units, broken : BOOLEAN, failed : BOOLEAN]
BY DEF Off

(* The invariant holds of the empty directory.                             *)
LEMMA InitIInv == Init => IInv
<1> SUFFICES ASSUME Init PROVE IInv
  OBVIOUS
<1>1. TypeOK
  <2>1. /\ result \in [Files -> Contents]
        /\ temp \in [Units \X Kinds \X Processes -> Contents]
        /\ merged \in {"missing", "whole"}
    BY DEF Init
  <2>2. worker \in [Processes -> [pc : {"idle", "write"} \cup Kinds, unit : Units]]
    BY IdleType DEF Init
  <2>3. \A p \in Processes : worker[p].pc = "idle"
    BY IdleType DEF Init
  <2>4. faults \in 0 .. MaxFaults
    BY CacheSweepAssumption DEF Init
  <2>5. job \in [Jobs -> [pc : {"off", "pool", "unit", "merge", "replace"},
                          todo : SUBSET Units, broken : BOOLEAN, failed : BOOLEAN]]
    BY OffType DEF Init
  <2> QED  BY <2>1, <2>2, <2>3, <2>4, <2>5 DEF TypeOK
<1>2. Renames /\ SummaryIsTheCommit /\ Merges /\ MergedIsComplete
  BY IdleType DEF Init, Renames, SummaryIsTheCommit, Merges, MergedIsComplete, Off
<1> QED  BY <1>1, <1>2 DEF IInv

-----------------------------------------------------------------------------
(* The steps of a parent.                                                  *)

(* A step of the parent that leaves the files and the workers alone.       *)
LEMMA ParentStep ==
  ASSUME IInv, NEW j \in Jobs,
         NEW state \in [pc : {"off", "pool", "unit", "merge", "replace"},
                        todo : SUBSET Units, broken : BOOLEAN, failed : BOOLEAN],
         state.pc = "replace" => AllComplete,
         Parent(j, state),
         (merged' = merged) \/ (merged' = "whole" /\ job[j].pc = "replace")
  PROVE  IInv'
<1>1. TypeOK'
  BY DEF IInv, TypeOK, Parent
<1>2. Renames' /\ SummaryIsTheCommit'
  BY DEF IInv, TypeOK, Parent, Renames, SummaryIsTheCommit
<1>3. Merges'
  BY DEF IInv, TypeOK, Parent, Merges, AllComplete
<1>4. MergedIsComplete'
  <2>1. CASE merged' = merged
    BY <2>1 DEF IInv, Parent, MergedIsComplete
  <2>2. CASE job[j].pc = "replace"
    <3>1. \A u \in Units : result[<<u, "summary">>] = "whole"
      BY <2>2 DEF IInv, Merges
    <3>2. \A u \in Units : result[<<u, "per_core">>] = "whole"
      BY <3>1 DEF IInv, SummaryIsTheCommit
    <3>3. ASSUME NEW f \in Files PROVE result[f] = "whole"
      BY <3>1, <3>2
    <3> QED  BY <3>3 DEF Parent, MergedIsComplete
  <2> QED  BY <2>1, <2>2
<1> QED  BY <1>1, <1>2, <1>3, <1>4 DEF IInv

(* A step that renames nothing and starts no merge.                        *)
LEMMA NoRename ==
  ASSUME IInv, TypeOK', result' = result, merged' = merged,
         \A j \in Jobs : job'[j].pc = "replace" => job[j].pc = "replace",
         \A p \in Processes :
           worker'[p].pc \in Kinds =>
             \/ /\ worker'[p] = worker[p]
                /\ temp'[<<worker[p].unit, "summary", p>>] = temp[<<worker[p].unit, "summary", p>>]
             \/ /\ worker'[p].pc = "per_core"
                /\ temp'[<<worker'[p].unit, "summary", p>>] = "whole"
  PROVE  IInv'
<1>1. Renames'
  <2>1. \A f \in Files : result'[f] # "partial"
    BY DEF IInv, Renames
  <2>2. ASSUME NEW p \in Processes, worker'[p].pc = "per_core"
        PROVE  temp'[<<worker'[p].unit, "summary", p>>] = "whole"
    <3>1. CASE worker'[p] = worker[p]
               /\ temp'[<<worker[p].unit, "summary", p>>] = temp[<<worker[p].unit, "summary", p>>]
      <4>1. temp[<<worker[p].unit, "summary", p>>] = "whole"
        BY <2>2, <3>1 DEF IInv, Renames
      <4> QED  BY <3>1, <4>1
    <3> QED  BY <2>2, <3>1
  <2>3. ASSUME NEW p \in Processes, worker'[p].pc = "summary"
        PROVE  result'[<<worker'[p].unit, "per_core">>] = "whole"
    <3>1. worker'[p] = worker[p]
      BY <2>3
    <3> QED  BY <2>3, <3>1 DEF IInv, Renames
  <2> QED  BY <2>1, <2>2, <2>3 DEF Renames
<1>2. SummaryIsTheCommit' /\ Merges' /\ MergedIsComplete'
  BY DEF IInv, SummaryIsTheCommit, Merges, MergedIsComplete
<1> QED  BY <1>1, <1>2 DEF IInv

(* The steps of the parent that touch no file.                             *)
LEMMA ParentSteps ==
  ASSUME IInv, NEW j \in Jobs,
         \/ StartSweep(j) \/ StartMerge(j) \/ \E u \in Units : StartUnit(j, u)
         \/ StepParent(j)
  PROVE  IInv'
<1>1. CASE StartSweep(j)
  <2> DEFINE state == [Off EXCEPT !.pc = "pool", !.todo = {u \in Units : ~Cached(u)}]
  <2>1. /\ state \in [pc : {"off", "pool", "unit", "merge", "replace"},
                     todo : SUBSET Units, broken : BOOLEAN, failed : BOOLEAN]
        /\ state.pc # "replace"
    BY DEF Off
  <2> QED  BY <1>1, <2>1, ParentStep DEF StartSweep
<1>2. ASSUME NEW u \in Units, StartUnit(j, u) PROVE IInv'
  <2> DEFINE state == [Off EXCEPT !.pc = "unit", !.todo = {u}]
  <2>1. /\ state \in [pc : {"off", "pool", "unit", "merge", "replace"},
                     todo : SUBSET Units, broken : BOOLEAN, failed : BOOLEAN]
        /\ state.pc # "replace"
    BY DEF Off
  <2> QED  BY <1>2, <2>1, ParentStep DEF StartUnit
<1>3. CASE StartMerge(j)
  <2> DEFINE state == [Off EXCEPT !.pc = "merge"]
  <2>1. /\ state \in [pc : {"off", "pool", "unit", "merge", "replace"},
                     todo : SUBSET Units, broken : BOOLEAN, failed : BOOLEAN]
        /\ state.pc # "replace"
    BY DEF Off
  <2> QED  BY <1>3, <2>1, ParentStep DEF StartMerge
<1>4. CASE EndSweep(j)
  <2> DEFINE state == IF job[j].pc = "pool" /\ ~job[j].failed
                      THEN [Off EXCEPT !.pc = "merge"] ELSE Off
  <2>1. /\ state \in [pc : {"off", "pool", "unit", "merge", "replace"},
                     todo : SUBSET Units, broken : BOOLEAN, failed : BOOLEAN]
        /\ state.pc # "replace"
    BY DEF Off
  <2> QED  BY <1>4, <2>1, ParentStep DEF EndSweep
<1>5. CASE ReadSummaries(j)
  <2> DEFINE state == IF AllComplete THEN [Off EXCEPT !.pc = "replace"] ELSE Off
  <2>1. /\ state \in [pc : {"off", "pool", "unit", "merge", "replace"},
                     todo : SUBSET Units, broken : BOOLEAN, failed : BOOLEAN]
        /\ state.pc = "replace" => AllComplete
    BY DEF Off
  <2> QED  BY <1>5, <2>1, ParentStep DEF ReadSummaries
<1>6. CASE WriteMerged(j)
  <2>1. Off.pc # "replace"
    BY DEF Off
  <2> QED  BY <1>6, <2>1, OffType, ParentStep DEF WriteMerged
<1> QED  BY <1>1, <1>2, <1>3, <1>4, <1>5, <1>6 DEF StepParent

-----------------------------------------------------------------------------
(* The steps of a worker.  Its temporary names are its own.                *)

(* A step of one worker that leaves the parent and the results alone.      *)
LEMMA WorkerStep ==
  ASSUME IInv, NEW p \in Processes,
         NEW state \in [pc : {"idle", "write"} \cup Kinds, unit : Units],
         worker' = [worker EXCEPT ![p] = state],
         temp' \in [Units \X Kinds \X Processes -> Contents],
         \A v \in Units, k \in Kinds, q \in Processes :
           q # p => temp'[<<v, k, q>>] = temp[<<v, k, q>>],
         state.pc \in Kinds =>
           state.pc = "per_core" /\ \A k \in Kinds : temp'[<<state.unit, k, p>>] = "whole",
         job' \in [Jobs -> [pc : {"off", "pool", "unit", "merge", "replace"},
                           todo : SUBSET Units, broken : BOOLEAN, failed : BOOLEAN]],
         \A i \in Jobs : job'[i].pc = job[i].pc,
         result' = result, merged' = merged,
         faults' \in 0 .. MaxFaults
  PROVE  IInv'
<1>1. TypeOK
  BY DEF IInv
<1>2. /\ worker' \in [Processes -> [pc : {"idle", "write"} \cup Kinds, unit : Units]]
      /\ worker'[p] = state
      /\ \A q \in Processes : q # p => worker'[q] = worker[q]
  BY <1>1 DEF TypeOK
<1>3. ASSUME NEW q \in Processes, worker'[q].pc \in Kinds
      PROVE  /\ temp'[<<worker'[q].unit, worker'[q].pc, q>>] = "whole"
             /\ \/ /\ worker'[q] = worker[q]
                   /\ temp'[<<worker[q].unit, "summary", q>>]
                        = temp[<<worker[q].unit, "summary", q>>]
                \/ /\ worker'[q].pc = "per_core"
                   /\ temp'[<<worker'[q].unit, "summary", q>>] = "whole"
  <2>1. CASE q = p
    <3>1. \A k \in Kinds : temp'[<<state.unit, k, p>>] = "whole"
      BY <1>2, <1>3, <2>1
    <3>2. state.pc = "per_core"
      BY <1>2, <1>3, <2>1
    <3> QED  BY <1>2, <2>1, <3>1, <3>2
  <2>2. CASE q # p
    <3>1. worker'[q] = worker[q] /\ worker[q].unit \in Units
      BY <1>1, <1>2, <2>2 DEF TypeOK
    <3>2. \A k \in Kinds :
            temp'[<<worker[q].unit, k, q>>] = temp[<<worker[q].unit, k, q>>]
      BY <2>2, <3>1
    <3>3. temp[<<worker[q].unit, worker[q].pc, q>>] = "whole"
      BY <1>1, <1>3, <3>1 DEF TypeOK
    <3>4. worker[q].pc \in Kinds
      BY <1>3, <3>1
    <3> QED  BY <3>1, <3>2, <3>3, <3>4
  <2> QED  BY <2>1, <2>2
<1>4. TypeOK'
  BY <1>1, <1>2, <1>3 DEF TypeOK
<1>5. \A j \in Jobs : job'[j].pc = "replace" => job[j].pc = "replace"
  OBVIOUS
<1> QED  BY <1>3, <1>4, <1>5, NoRename

(* A worker takes a unit that no other worker holds.                       *)
LEMMA TakeUnitStep ==
  ASSUME IInv, NEW j \in Jobs, NEW w \in Workers, NEW u \in Units, TakeUnit(j, w, u)
  PROVE  IInv'
<1>1. PICK p \in Processes : p = <<j, w>>
  OBVIOUS
<1>2. TypeOK
  BY DEF IInv
<1>3. /\ job' \in [Jobs -> [pc : {"off", "pool", "unit", "merge", "replace"},
                            todo : SUBSET Units, broken : BOOLEAN, failed : BOOLEAN]]
      /\ \A i \in Jobs : job'[i].pc = job[i].pc
  BY <1>2 DEF TakeUnit, TypeOK
<1>4. /\ result' = result /\ merged' = merged
      /\ faults' \in 0 .. MaxFaults
  BY <1>2 DEF TakeUnit, TypeOK
<1>5. CASE worker' = worker /\ temp' = temp
  <2>1. TypeOK'
    BY <1>2, <1>3, <1>4, <1>5 DEF TypeOK
  <2>2. \A q \in Processes :
          /\ worker'[q] = worker[q]
          /\ temp'[<<worker[q].unit, "summary", q>>] = temp[<<worker[q].unit, "summary", q>>]
    BY <1>5
  <2> QED  BY <1>3, <1>4, <2>1, <2>2, NoRename
<1>6. CASE /\ worker' = [worker EXCEPT ![p] = [pc |-> "write", unit |-> u]]
           /\ temp' = TempsBecome(u, p, "partial")
  <2>1. /\ temp' \in [Units \X Kinds \X Processes -> Contents]
        /\ \A v \in Units, k \in Kinds, q \in Processes :
             q # p => temp'[<<v, k, q>>] = temp[<<v, k, q>>]
    BY <1>2, <1>6 DEF TypeOK, TempsBecome
  <2>2. PICK state \in [pc : {"idle", "write"} \cup Kinds, unit : Units] :
          state = [pc |-> "write", unit |-> u]
    OBVIOUS
  <2> QED  BY <1>3, <1>4, <1>6, <2>1, <2>2, WorkerStep
<1> QED  BY <1>1, <1>5, <1>6 DEF TakeUnit, Become, TempName

(* A worker closes its temporary files, which are whole from then on.      *)
LEMMA CloseTempsStep ==
  ASSUME IInv, NEW j \in Jobs, NEW w \in Workers, CloseTemps(j, w)
  PROVE  IInv'
<1>1. PICK p \in Processes : p = <<j, w>>
  OBVIOUS
<1>2. TypeOK /\ worker[p].unit \in Units
  BY DEF IInv, TypeOK
<1>3. PICK state \in [pc : {"idle", "write"} \cup Kinds, unit : Units] :
        state = [pc |-> "per_core", unit |-> worker[p].unit]
  BY <1>2
<1>4. /\ state.pc = "per_core" /\ state.unit = worker[p].unit
      /\ state = [worker[p] EXCEPT !.pc = "per_core"]
  BY <1>2, <1>3 DEF TypeOK
<1>5. /\ worker' = [worker EXCEPT ![p] = state]
      /\ temp' = TempsBecome(worker[p].unit, p, "whole")
      /\ job' = job /\ result' = result /\ merged' = merged
      /\ faults' = faults
  BY <1>1, <1>4 DEF CloseTemps, Become, TempName
<1>6. /\ temp' \in [Units \X Kinds \X Processes -> Contents]
      /\ \A v \in Units, k \in Kinds, q \in Processes :
           q # p => temp'[<<v, k, q>>] = temp[<<v, k, q>>]
  BY <1>2, <1>5 DEF TypeOK, TempsBecome
<1>7. \A k \in Kinds : temp'[<<state.unit, k, p>>] = "whole"
  BY <1>2, <1>4, <1>5 DEF TypeOK, TempsBecome
<1>8. /\ \A i \in Jobs : job'[i].pc = job[i].pc
      /\ job' \in [Jobs -> [pc : {"off", "pool", "unit", "merge", "replace"},
                            todo : SUBSET Units, broken : BOOLEAN, failed : BOOLEAN]]
      /\ faults' \in 0 .. MaxFaults
  BY <1>2, <1>5 DEF TypeOK
<1>9. state.pc \in Kinds =>
        state.pc = "per_core" /\ \A k \in Kinds : temp'[<<state.unit, k, p>>] = "whole"
  BY <1>4, <1>7
<1> QED  BY <1>5, <1>6, <1>8, <1>9, WorkerStep

(* A failure is remembered in the fields of a job other than its pc. *)
LEMMA JobType ==
  ASSUME TypeOK, NEW j \in Jobs, NEW failed \in BOOLEAN,
         \/ job' = [job EXCEPT ![j].failed = TRUE]
         \/ job' = [job EXCEPT ![j].broken = TRUE, ![j].failed = failed, ![j].todo = {}]
  PROVE  /\ \A i \in Jobs : job'[i].pc = job[i].pc
         /\ job' \in [Jobs -> [pc : {"off", "pool", "unit", "merge", "replace"},
                               todo : SUBSET Units, broken : BOOLEAN, failed : BOOLEAN]]
<1> DEFINE J == [pc : {"off", "pool", "unit", "merge", "replace"},
                 todo : SUBSET Units, broken : BOOLEAN, failed : BOOLEAN]
<1>1. job \in [Jobs -> J]
  BY DEF TypeOK
<1>2. CASE job' = [job EXCEPT ![j].failed = TRUE]
  <2>1. job[j] \in J
    BY <1>1
  <2>2. [job[j] EXCEPT !.failed = TRUE] \in J
    BY <2>1
  <2>3. [job[j] EXCEPT !.failed = TRUE].pc = job[j].pc
    BY <2>1
  <2>4. \A i \in Jobs : job'[i] = IF i = j THEN [job[j] EXCEPT !.failed = TRUE] ELSE job[i]
    BY <1>1, <1>2
  <2>5. job' \in [Jobs -> J]
    BY <1>1, <1>2, <2>2
  <2> QED  BY <2>3, <2>4, <2>5
<1>3. CASE job' = [job EXCEPT ![j].broken = TRUE, ![j].failed = failed, ![j].todo = {}]
  <2> DEFINE s == [job[j] EXCEPT !.broken = TRUE, !.failed = failed, !.todo = {}]
  <2>1. job[j] \in J
    BY <1>1
  <2>2. s \in J
    BY <2>1
  <2>3. s.pc = job[j].pc
    BY <2>1
  <2>4. \A i \in Jobs : job'[i] = IF i = j THEN s ELSE job[i]
    BY <1>1, <1>3
  <2>5. job' \in [Jobs -> J]
    BY <1>1, <1>3, <2>2
  <2> QED  BY <2>3, <2>4, <2>5
<1> QED  BY <1>2, <1>3

(* A unit that raises leaves the temporary files of its worker behind.     *)
LEMMA UnitRaisesStep ==
  ASSUME IInv, NEW j \in Jobs, NEW w \in Workers, UnitRaises(j, w)
  PROVE  IInv'
<1>1. PICK p \in Processes : p = <<j, w>>
  OBVIOUS
<1>2. TypeOK /\ worker[p].unit \in Units
  BY DEF IInv, TypeOK
<1>3. /\ worker' = [worker EXCEPT ![p] = Idle]
      /\ temp' = TempsBecome(worker[p].unit, p, "missing")
      /\ result' = result /\ merged' = merged
  BY <1>1 DEF UnitRaises, Become, TempName
<1>4. /\ temp' \in [Units \X Kinds \X Processes -> Contents]
      /\ \A v \in Units, k \in Kinds, q \in Processes :
           q # p => temp'[<<v, k, q>>] = temp[<<v, k, q>>]
  BY <1>2, <1>3 DEF TypeOK, TempsBecome
<1>5. /\ \A i \in Jobs : job'[i].pc = job[i].pc
      /\ job' \in [Jobs -> [pc : {"off", "pool", "unit", "merge", "replace"},
                            todo : SUBSET Units, broken : BOOLEAN, failed : BOOLEAN]]
  <2>1. job' = [job EXCEPT ![j].failed = TRUE]
    BY DEF UnitRaises
  <2> QED  BY <1>2, <2>1, JobType
<1>6. faults' \in 0 .. MaxFaults
  BY <1>2, CacheSweepAssumption DEF UnitRaises, Fault, TypeOK
<1>7. PICK state \in [pc : {"idle", "write"} \cup Kinds, unit : Units] :
        state = Idle /\ state.pc \notin Kinds
  BY IdleType
<1> QED  BY <1>3, <1>4, <1>5, <1>6, <1>7, WorkerStep

(* Leaving the pool ends all the workers.                                  *)
LEMMA TerminateStep ==
  ASSUME IInv, NEW j \in Jobs, NEW w \in Workers, Terminate(j, w)
  PROVE  IInv'
<1>1. PICK p \in Processes : p = <<j, w>>
  OBVIOUS
<1>2. TypeOK
  BY DEF IInv
<1>3. /\ worker' = [worker EXCEPT ![p] = Idle]
      /\ temp' = temp /\ result' = result /\ merged' = merged /\ job' = job
  BY <1>1 DEF Terminate, Become
<1>4. temp' \in [Units \X Kinds \X Processes -> Contents]
  BY <1>2, <1>3 DEF TypeOK
<1>5. /\ job' \in [Jobs -> [pc : {"off", "pool", "unit", "merge", "replace"},
                            todo : SUBSET Units, broken : BOOLEAN, failed : BOOLEAN]]
      /\ faults' \in 0 .. MaxFaults
  BY <1>2 DEF Terminate, TypeOK
<1>6. PICK state \in [pc : {"idle", "write"} \cup Kinds, unit : Units] :
        state = Idle /\ state.pc \notin Kinds
  BY IdleType
<1> QED  BY <1>3, <1>4, <1>5, <1>6, WorkerStep

(* A worker is killed.                                                     *)
LEMMA KillWorkerStep ==
  ASSUME IInv, NEW j \in Jobs, NEW w \in Workers, KillWorker(j, w)
  PROVE  IInv'
<1>1. PICK p \in Processes : p = <<j, w>>
  OBVIOUS
<1>2. TypeOK
  BY DEF IInv
<1>3. /\ worker' = [worker EXCEPT ![p] = Idle]
      /\ temp' = temp /\ result' = result /\ merged' = merged
  BY <1>1 DEF KillWorker, Become
<1>4. temp' \in [Units \X Kinds \X Processes -> Contents]
  BY <1>2, <1>3 DEF TypeOK
<1>5. /\ \A i \in Jobs : job'[i].pc = job[i].pc
      /\ job' \in [Jobs -> [pc : {"off", "pool", "unit", "merge", "replace"},
                            todo : SUBSET Units, broken : BOOLEAN, failed : BOOLEAN]]
  <2>1. PICK failed \in BOOLEAN :
          job' = [job EXCEPT ![j].broken = TRUE, ![j].failed = failed, ![j].todo = {}]
    <3>1. (job[j].failed \/ job[j].todo # {} \/ ~Resting(j)) \in BOOLEAN
      OBVIOUS
    <3> QED  BY <3>1 DEF KillWorker
  <2> QED  BY <1>2, <2>1, JobType
<1>6. faults' \in 0 .. MaxFaults
  <2>1. Fault
    BY DEF KillWorker
  <2> QED  BY <1>2, <2>1, CacheSweepAssumption DEF Fault, TypeOK
<1>7. PICK state \in [pc : {"idle", "write"} \cup Kinds, unit : Units] :
        state = Idle /\ state.pc \notin Kinds
  BY IdleType
<1> QED  BY <1>3, <1>4, <1>5, <1>6, <1>7, WorkerStep

(* With its parent gone every process of the job is. *)
LEMMA KillJobStep ==
  ASSUME IInv, NEW j \in Jobs, KillJob(j)
  PROVE  IInv'
<1>1. TypeOK
  BY DEF IInv
<1>2. \A q \in Processes : worker'[q] = IF q[1] = j THEN Idle ELSE worker[q]
  BY DEF KillJob
<1>3. worker' \in [Processes -> [pc : {"idle", "write"} \cup Kinds, unit : Units]]
  BY <1>1, IdleType DEF KillJob, TypeOK
<1>4. \A q \in Processes : worker'[q].pc \in Kinds => worker'[q] = worker[q]
  BY <1>2, IdleType
<1>5. job' \in [Jobs -> [pc : {"off", "pool", "unit", "merge", "replace"},
                        todo : SUBSET Units, broken : BOOLEAN, failed : BOOLEAN]]
  BY <1>1, OffType DEF KillJob, TypeOK
<1>6. \A i \in Jobs : job'[i].pc = "replace" => job[i].pc = "replace"
  BY <1>1 DEF KillJob, TypeOK, Off
<1>7. result' = result /\ merged' = merged /\ temp' = temp
  BY DEF KillJob
<1>8. faults' \in 0 .. MaxFaults
  BY <1>1, CacheSweepAssumption DEF KillJob, Fault, TypeOK
<1>9. TypeOK'
  BY <1>1, <1>3, <1>4, <1>5, <1>7, <1>8 DEF TypeOK
<1> QED  BY <1>4, <1>6, <1>7, <1>9, NoRename

-----------------------------------------------------------------------------
(* The renames.  They are the only steps that change a result file.        *)

(* A rename puts a whole file under the name of the result.                *)
LEMMA ReplaceStep ==
  ASSUME IInv, NEW j \in Jobs, NEW w \in Workers, Replace(j, w)
  PROVE  /\ IInv'
         /\ \E f \in Files : result' = [result EXCEPT ![f] = "whole"]
<1>1. PICK p \in Processes : p = <<j, w>>
  OBVIOUS
<1>2. TypeOK
  BY DEF IInv
<1>3. PICK u \in Units : u = worker[p].unit
  BY <1>2 DEF TypeOK
<1>4. PICK k \in Kinds : k = worker[p].pc
  BY <1>1 DEF Replace
<1>5. /\ temp[<<u, k, p>>] = "whole"
      /\ k = "per_core" => temp[<<u, "summary", p>>] = "whole"
      /\ k = "summary" => result[<<u, "per_core">>] = "whole"
  BY <1>2, <1>3, <1>4 DEF IInv, TypeOK, Renames
<1>6. /\ result' = [result EXCEPT ![<<u, k>>] = "whole"]
      /\ temp' = [temp EXCEPT ![<<u, k, p>>] = "missing"]
      /\ worker' = [worker EXCEPT ![p] = IF k = "per_core" THEN [worker[p] EXCEPT !.pc = "summary"]
                                         ELSE Idle]
      /\ merged' = merged /\ job' = job /\ faults' = faults
  BY <1>1, <1>3, <1>4, <1>5 DEF Replace, Renamed, Rename, Become, TempName
<1>7. /\ result' \in [Files -> Contents]
      /\ result'[<<u, k>>] = "whole"
      /\ \A f \in Files : result[f] = "whole" => result'[f] = "whole"
      /\ \A f \in Files : f # <<u, k>> => result'[f] = result[f]
  BY <1>2, <1>6 DEF TypeOK
<1>8. /\ temp' \in [Units \X Kinds \X Processes -> Contents]
      /\ \A v \in Units, l \in Kinds, q \in Processes :
           q # p \/ l # k => temp'[<<v, l, q>>] = temp[<<v, l, q>>]
  BY <1>2, <1>6 DEF TypeOK
<1>9. /\ worker' \in [Processes -> [pc : {"idle", "write"} \cup Kinds, unit : Units]]
      /\ worker'[p].pc \in Kinds =>
           k = "per_core" /\ worker'[p].pc = "summary" /\ worker'[p].unit = u
      /\ \A q \in Processes : q # p => worker'[q] = worker[q]
  <2>1. CASE k = "per_core"
    <3>1. [worker[p] EXCEPT !.pc = "summary"] = [pc |-> "summary", unit |-> u]
      BY <1>2, <1>3 DEF TypeOK
    <3>2. worker' = [worker EXCEPT ![p] = [pc |-> "summary", unit |-> u]]
      BY <1>6, <2>1, <3>1
    <3> QED  BY <1>2, <2>1, <3>2 DEF TypeOK
  <2>2. CASE k # "per_core"
    BY <1>2, <1>6, <2>2, IdleType DEF TypeOK
  <2> QED  BY <2>1, <2>2
<1>10. ASSUME NEW q \in Processes, worker'[q].pc \in Kinds
       PROVE  /\ temp'[<<worker'[q].unit, worker'[q].pc, q>>] = "whole"
              /\ worker'[q].pc = "per_core" => temp'[<<worker'[q].unit, "summary", q>>] = "whole"
              /\ worker'[q].pc = "summary" => result'[<<worker'[q].unit, "per_core">>] = "whole"
  <2>1. CASE q = p
    <3>1. k = "per_core" /\ worker'[q].pc = "summary" /\ worker'[q].unit = u
      BY <1>9, <1>10, <2>1
    <3>2. temp'[<<u, "summary", q>>] = temp[<<u, "summary", q>>]
      BY <1>8, <3>1
    <3> QED  BY <1>5, <1>7, <2>1, <3>1, <3>2
  <2>2. CASE q # p
    <3>1. worker'[q] = worker[q] /\ worker[q].unit \in Units /\ worker[q].pc \in Kinds
      BY <1>2, <1>9, <1>10, <2>2 DEF TypeOK
    <3>2. \A l \in Kinds : temp'[<<worker[q].unit, l, q>>] = temp[<<worker[q].unit, l, q>>]
      BY <1>8, <2>2, <3>1
    <3>3. temp[<<worker[q].unit, worker[q].pc, q>>] = "whole"
      BY <1>2, <3>1 DEF TypeOK
    <3>4. /\ worker[q].pc = "per_core" => temp[<<worker[q].unit, "summary", q>>] = "whole"
          /\ worker[q].pc = "summary" => result[<<worker[q].unit, "per_core">>] = "whole"
      BY DEF IInv, Renames
    <3> QED  BY <1>7, <3>1, <3>2, <3>3, <3>4
  <2> QED  BY <2>1, <2>2
<1>11. TypeOK'
  BY <1>2, <1>6, <1>7, <1>8, <1>9, <1>10 DEF TypeOK
<1>12. Renames'
  <2>1. \A f \in Files : result'[f] # "partial"
    BY <1>7 DEF IInv, Renames
  <2> QED  BY <1>10, <2>1 DEF Renames
<1>13. SummaryIsTheCommit'
  <2> SUFFICES ASSUME NEW v \in Units, result'[<<v, "summary">>] = "whole"
               PROVE  result'[<<v, "per_core">>] = "whole"
    BY DEF SummaryIsTheCommit
  <2>1. CASE result[<<v, "summary">>] = "whole"
    BY <1>7, <2>1 DEF IInv, SummaryIsTheCommit
  <2>2. CASE v = u /\ k = "summary"
    BY <1>5, <1>7, <2>2
  <2>3. CASE <<v, "summary">> # <<u, k>> /\ result[<<v, "summary">>] # "whole"
    BY <1>7, <2>3
  <2> QED  BY <2>1, <2>2, <2>3
<1>14. Merges'
  BY <1>6, <1>7 DEF IInv, Merges
<1>15. MergedIsComplete'
  BY <1>6, <1>7 DEF IInv, MergedIsComplete
<1>16. <<u, k>> \in Files
  OBVIOUS
<1> QED  BY <1>6, <1>11, <1>12, <1>13, <1>14, <1>15, <1>16 DEF IInv

-----------------------------------------------------------------------------
(* No step breaks the invariant.                                           *)
LEMMA NextIInv ==
  ASSUME IInv, [Next]_vars
  PROVE  IInv' /\ [Cache!Next]_result
<1>1. CASE UNCHANGED vars
  BY <1>1 DEF vars, IInv, TypeOK, Renames, SummaryIsTheCommit, Merges, MergedIsComplete
<1>2. ASSUME NEW j \in Jobs,
             \/ StartSweep(j) \/ StartMerge(j) \/ \E u \in Units : StartUnit(j, u)
             \/ StepParent(j)
      PROVE  IInv' /\ result' = result
  <2>1. IInv'
    BY <1>2, ParentSteps
  <2>2. result' = result
    BY <1>2 DEF StartSweep, StartMerge, StartUnit, StepParent, EndSweep, ReadSummaries,
                WriteMerged, Parent
  <2> QED  BY <2>1, <2>2
<1>3. ASSUME NEW j \in Jobs, KillJob(j) PROVE IInv' /\ result' = result
  <2>1. result' = result
    BY <1>3 DEF KillJob
  <2> QED  BY <1>3, <2>1, KillJobStep
<1>4. ASSUME NEW j \in Jobs, NEW w \in Workers, NEW u \in Units, TakeUnit(j, w, u)
      PROVE  IInv' /\ result' = result
  <2>1. result' = result
    BY <1>4 DEF TakeUnit
  <2> QED  BY <1>4, <2>1, TakeUnitStep
<1>5. ASSUME NEW j \in Jobs, NEW w \in Workers, CloseTemps(j, w)
      PROVE  IInv' /\ result' = result
  <2>1. result' = result
    BY <1>5 DEF CloseTemps
  <2> QED  BY <1>5, <2>1, CloseTempsStep
<1>6. ASSUME NEW j \in Jobs, NEW w \in Workers, Replace(j, w)
      PROVE  IInv' /\ Cache!Next
  <2>1. Cache!Next
    BY <1>6, ReplaceStep DEF Cache!Next, Cache!Publish
  <2> QED  BY <1>6, <2>1, ReplaceStep
<1>7. ASSUME NEW j \in Jobs, NEW w \in Workers, Terminate(j, w)
      PROVE  IInv' /\ result' = result
  <2>1. result' = result
    BY <1>7 DEF Terminate
  <2> QED  BY <1>7, <2>1, TerminateStep
<1>8. ASSUME NEW j \in Jobs, NEW w \in Workers, UnitRaises(j, w)
      PROVE  IInv' /\ result' = result
  <2>1. result' = result
    BY <1>8 DEF UnitRaises
  <2> QED  BY <1>8, <2>1, UnitRaisesStep
<1>9. ASSUME NEW j \in Jobs, NEW w \in Workers, KillWorker(j, w)
      PROVE  IInv' /\ result' = result
  <2>1. result' = result
    BY <1>9 DEF KillWorker
  <2> QED  BY <1>9, <2>1, KillWorkerStep
<1>10. CASE Next
  <2>1. PICK j \in Jobs :
          \/ StartSweep(j) \/ StartMerge(j) \/ \E u \in Units : StartUnit(j, u)
          \/ StepParent(j) \/ KillJob(j)
          \/ \E w \in Workers : StepWorker(j, w) \/ UnitRaises(j, w) \/ KillWorker(j, w)
    BY <1>10 DEF Next
  <2>2. CASE \E w \in Workers : StepWorker(j, w) \/ UnitRaises(j, w) \/ KillWorker(j, w)
    BY <2>2, <1>4, <1>5, <1>6, <1>7, <1>8, <1>9 DEF StepWorker
  <2> QED  BY <2>1, <2>2, <1>2, <1>3
<1> QED  BY <1>1, <1>10 DEF vars

(* Types, and every rename finds a complete file under its process's own   *)
(* temporary name.                                                         *)
THEOREM TypeCorrect == Spec => []TypeOK
<1>1. IInv => TypeOK
  BY DEF IInv
<1> QED  BY <1>1, InitIInv, NextIInv, PTL DEF Spec

(* A summary is never there without its per-core file: the order of the    *)
(* two renames makes the summary the commit record of its unit.            *)
THEOREM SummaryCommits == Spec => []SummaryIsTheCommit
<1>1. IInv => SummaryIsTheCommit
  BY DEF IInv
<1> QED  BY <1>1, InitIInv, NextIInv, PTL DEF Spec

(* A merged file is written over a complete sweep only.                    *)
THEOREM MergesCompleteSweeps == Spec => []MergedIsComplete
<1>1. IInv => MergedIsComplete
  BY DEF IInv
<1> QED  BY <1>1, InitIInv, NextIInv, PTL DEF Spec

(* The result files are the atomic files of the abstract specification.    *)
THEOREM ResultsAreAtomicFiles == Spec => CachedAtomically
<1>1. Init => Cache!Init
  BY DEF Init, Cache!Init
<1> QED  BY <1>1, InitIInv, NextIInv, PTL DEF Spec, CachedAtomically, Cache!Spec
=============================================================================
