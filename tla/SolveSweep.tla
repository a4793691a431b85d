----------------------------- MODULE SolveSweep -----------------------------
(***************************************************************************)
(* The resumable solver sweep (scripts/tmp/sweep_multinode_arch_sweep.py): *)
(* a parent hands combos to fresh worker processes, each of which solves   *)
(* one and writes its schedule, and appends one row per result to          *)
(* summary.csv.  A later run skips what has a row, after it has added rows *)
(* for the schedules it finds on disk without one.  Any process may be     *)
(* killed; what the parent has written but not flushed is lost with it.    *)
(***************************************************************************)
EXTENDS Naturals, SequencesExt

CONSTANTS
  ComboList,    \* the combos in the order of build_combos
  Infeasible,   \* those without a feasible traffic mode
  Workers,
  MaxForces,    \* bound: runs with --force
  MaxErrors,    \* bound: exceptions other than infeasibility
  MaxKills      \* bound: processes killed

Combos   == ToSet(ComboList)
Statuses == {"OK", "SKIPPED", "INFEASIBLE", "ERROR"}
RowSet   == [combo : Combos, status : Statuses]

(* The first line of summary.csv. *)
Header == [combo |-> "combo", status |-> "status"]

ASSUME SweepAssumption ==
  /\ ComboList \in Seq(Combos) /\ IsInjective(ComboList) /\ Infeasible \subseteq Combos
  /\ Header.combo \notin Combos
  /\ MaxForces \in Nat /\ MaxErrors \in Nat /\ MaxKills \in Nat

VARIABLES
  json,      \* combo -> "missing", "partial" or "whole": its schedule file
  exists,    \* summary.csv is there
  summary,   \* its lines
  sweep,     \* the parent process
  worker,    \* worker -> its process
  forces, errors, kills,  \* counted for the bounds
  attempted, \* history: combos that ever got a row
  torn       \* history: combos the writing of whose schedule was cut short

counters == <<forces, errors, kills>>
vars == <<json, exists, summary, sweep, worker, counters, attempted, torn>>

Off  == [pc |-> "off", force |-> FALSE, queue |-> {}, buffer |-> <<>>,
         results |-> <<>>, lost |-> FALSE]
Idle == [pc |-> "idle", combo |-> ComboList[1]]

Init ==
  /\ json = [c \in Combos |-> "missing"]
  /\ exists = FALSE /\ summary = <<>>
  /\ sweep = Off
  /\ worker = [w \in Workers |-> Idle]
  /\ forces = 0 /\ errors = 0 /\ kills = 0
  /\ attempted = {} /\ torn = {}

Raise == errors < MaxErrors /\ errors' = errors + 1 /\ UNCHANGED <<forces, kills>>

Strike == kills < MaxKills /\ kills' = kills + 1 /\ UNCHANGED <<forces, errors>>

-----------------------------------------------------------------------------
(* Reading summary.csv back.                                               *)

Row(c, status) == [combo |-> c, status |-> status]

CombosOf(lines) == {lines[i].combo : i \in DOMAIN lines} \cap Combos

Headed == summary # <<>> /\ Head(summary) = Header

(* csv.DictReader takes the first line for the header whatever it is, so   *)
(* that the columns of any further line do not have their names.           *)
Unreadable == ~Headed /\ Len(summary) > 1

(* load_already_attempted *)
Already == IF sweep.force \/ ~Headed THEN {} ELSE CombosOf(Tail(summary))

-----------------------------------------------------------------------------
(* The parent process.                                                     *)

ParentOnly == UNCHANGED <<json, worker, errors, kills, torn>>

Start(force) ==
  /\ sweep.pc = "off"
  /\ force => forces < MaxForces
  /\ forces' = IF force THEN forces + 1 ELSE forces
  /\ sweep' = [Off EXCEPT !.pc = "read", !.force = force]
  /\ ParentOnly /\ UNCHANGED <<exists, summary, attempted>>

(* A KeyError ends the program. *)
CannotResume ==
  /\ sweep.pc = "read" /\ ~sweep.force /\ Unreadable
  /\ sweep' = Off
  /\ ParentOnly /\ UNCHANGED <<exists, summary, forces, attempted>>

(* scan_solved_from_disk, and the rows it adds unless forced. *)
Recovered ==
  IF sweep.force THEN {} ELSE {c \in Combos : json[c] # "missing"} \ Already

RecoveredRows ==
  LET rows == [i \in 1 .. Cardinality(Recovered) |-> Row(SetToSeq(Recovered)[i], "OK")]
  IN  IF rows = <<>> THEN <<>>
      ELSE IF exists THEN rows ELSE <<Header>> \o rows

(* Deviation: recovered combos are handed out again. *)
TodoWithRecovered == Combos \ Already

Todo == Combos \ (Already \cup Recovered)

(* Without anything to do the program returns.                             *)
Reconcile ==
  /\ sweep.pc = "read" /\ (sweep.force \/ ~Unreadable)
  /\ summary' = summary \o RecoveredRows
  /\ exists' = (exists \/ Recovered # {})
  /\ attempted' = attempted \cup Recovered
  /\ sweep' = IF Todo = {} THEN Off
              ELSE [sweep EXCEPT !.pc = "open", !.queue = Todo]
  /\ ParentOnly /\ UNCHANGED forces

AlwaysTruncates == TRUE

Truncates == sweep.force \/ ~exists

(* open() acts at once, the header waits in the buffer.                    *)
OpenSummary ==
  /\ sweep.pc = "open"
  /\ exists' = TRUE
  /\ summary' = IF Truncates THEN <<>> ELSE summary
  /\ sweep' = [sweep EXCEPT !.pc = "work",
                 !.buffer = IF Truncates THEN <<Header>> ELSE <<>>]
  /\ ParentOnly /\ UNCHANGED <<forces, attempted>>

(* One row, flushed with what was in the buffer. *)
RecordResult ==
  /\ sweep.pc = "work" /\ sweep.results # <<>>
  /\ LET row == Head(sweep.results)
     IN  /\ summary' = summary \o Append(sweep.buffer, row)
         /\ attempted' = attempted \cup {row.combo}
  /\ sweep' = [sweep EXCEPT !.results = Tail(@), !.buffer = <<>>]
  /\ ParentOnly /\ UNCHANGED <<exists, forces>>

AllIdle == \A w \in Workers : worker[w].pc = "idle"

Drained ==
  /\ sweep.pc = "work" /\ sweep.queue = {} /\ sweep.results = <<>> /\ AllIdle

(* Every result is in; the program counts the rows and returns. *)
Finish ==
  /\ Drained /\ ~sweep.lost
  /\ sweep' = Off
  /\ ParentOnly /\ UNCHANGED <<exists, summary, forces, attempted>>

(* imap_unordered waits for a result that will not come, until the job's   *)
(* time limit.                                                             *)
TimeLimit ==
  /\ Drained /\ sweep.lost
  /\ sweep' = Off
  /\ ParentOnly /\ UNCHANGED <<exists, summary, forces, attempted>>

-----------------------------------------------------------------------------
(* _solve_one: one combo per process.                                      *)

WorkerOnly == UNCHANGED <<exists, summary, forces, attempted>>

(* imap_unordered hands the combos out in the order of the list.           *)
FirstOf(S) ==
  ComboList[CHOOSE i \in DOMAIN ComboList :
              ComboList[i] \in S /\ \A j \in 1 .. i - 1 : ComboList[j] \notin S]

Take(w) ==
  /\ sweep.pc = "work" /\ sweep.queue # {} /\ worker[w].pc = "idle"
  /\ LET c == FirstOf(sweep.queue)
     IN  /\ worker' = [worker EXCEPT ![w] = [pc |-> "solve", combo |-> c]]
         /\ sweep' = [sweep EXCEPT !.queue = @ \ {c}]
  /\ WorkerOnly /\ UNCHANGED <<json, errors, kills, torn>>

Send(w, status) ==
  /\ sweep' = [sweep EXCEPT !.results = Append(@, Row(worker[w].combo, status))]
  /\ worker' = [worker EXCEPT ![w] = Idle]

MustSolve(w) == sweep.force \/ json[worker[w].combo] = "missing"

(* No file is opened: the schedule is there, or cannot be made.            *)
EndEarly(w) ==
  /\ worker[w].pc = "solve"
  /\ IF ~MustSolve(w) THEN Send(w, "SKIPPED") /\ UNCHANGED <<errors, kills>>
     ELSE IF worker[w].combo \in Infeasible
          THEN Send(w, "INFEASIBLE") /\ UNCHANGED <<errors, kills>>
          ELSE Send(w, "ERROR") /\ Raise
  /\ WorkerOnly /\ UNCHANGED <<json, torn>>

OpenSchedule(w) ==
  /\ worker[w].pc = "solve" /\ MustSolve(w) /\ worker[w].combo \notin Infeasible
  /\ json' = [json EXCEPT ![worker[w].combo] = "partial"]
  /\ worker' = [worker EXCEPT ![w].pc = "write"]
  /\ torn' = torn \ {worker[w].combo}
  /\ WorkerOnly /\ UNCHANGED <<sweep, errors, kills>>

CloseSchedule(w) ==
  /\ worker[w].pc = "write"
  /\ json' = [json EXCEPT ![worker[w].combo] = "whole"]
  /\ Send(w, "OK")
  /\ WorkerOnly /\ UNCHANGED <<errors, kills, torn>>

Tear(w) == IF worker[w].pc = "write" THEN {worker[w].combo} ELSE {}

(* An exception while the schedule is written; the file stays.             *)
WriteFails(w) ==
  /\ worker[w].pc = "write"
  /\ Raise /\ Send(w, "ERROR")
  /\ torn' = torn \cup Tear(w)
  /\ WorkerOnly /\ UNCHANGED json

-----------------------------------------------------------------------------
(* multiprocessing.Pool starts another process; the combo is lost.         *)
KillWorker(w) ==
  /\ worker[w].pc # "idle" /\ Strike
  /\ worker' = [worker EXCEPT ![w] = Idle]
  /\ sweep' = [sweep EXCEPT !.lost = TRUE]
  /\ torn' = torn \cup Tear(w)
  /\ UNCHANGED <<json, exists, summary, attempted>>

(* The whole job. *)
KillSweep ==
  /\ sweep.pc # "off" /\ Strike
  /\ sweep' = Off
  /\ worker' = [w \in Workers |-> Idle]
  /\ torn' = torn \cup UNION {Tear(w) : w \in Workers}
  /\ UNCHANGED <<json, exists, summary, attempted>>

StepParent == CannotResume \/ Reconcile \/ OpenSummary \/ RecordResult \/ Finish

StepWorker(w) == Take(w) \/ EndEarly(w) \/ OpenSchedule(w) \/ CloseSchedule(w)

Next ==
  \/ \E force \in BOOLEAN : Start(force)
  \/ StepParent \/ TimeLimit \/ KillSweep
  \/ \E w \in Workers : StepWorker(w) \/ WriteFails(w) \/ KillWorker(w)

Spec == Init /\ [][Next]_vars

(* The processes are scheduled, a job has a time limit, and someone        *)
(* resumes the sweep whenever it has ended.                                *)
ResumeSpec ==
  /\ Spec
  /\ WF_vars(StepParent) /\ WF_vars(TimeLimit) /\ WF_vars(Start(FALSE))
  /\ \A w \in Workers : WF_vars(StepWorker(w))
=============================================================================
