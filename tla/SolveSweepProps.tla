--------------------------- MODULE SolveSweepProps ---------------------------
(***************************************************************************)
(* What summary.csv and the schedules on disk say about each other.        *)
(***************************************************************************)
EXTENDS SolveSweep

Recorded == CombosOf(summary)

RowsOf(c) == {i \in DOMAIN summary : summary[i].combo = c}

(* With its header in place the record has one row per combo at most: a    *)
(* resumed run neither repeats nor recovers what has a row, whoever was    *)
(* killed between a schedule and its row (l. 243-271).                     *)
OneRowEach == Headed => \A c \in Combos : Cardinality(RowsOf(c)) <= 1

(* A row says OK only of a schedule that is completely on disk, or of one  *)
(* whose writing was cut short by a kill or an exception and that the scan *)
(* then took for solved (scan_solved_from_disk).                           *)
OkIsSolved ==
  \A i \in DOMAIN summary :
    summary[i].status = "OK" => json[summary[i].combo] = "whole" \/ summary[i].combo \in torn

(* What the record says is so, once per combo. *)
RecordIsTrue == OneRowEach /\ OkIsSolved

(* summary.csv is only ever appended to, through kills and resumes ("an    *)
(* earlier version ... overwrote summary.csv fresh each run", l. 44-51);   *)
(* --force alone starts a new one.                                         *)
RowsSurvive ==
  [][(sweep.pc = "open" /\ sweep.force) \/ IsPrefix(summary, summary')]_vars

(* Resumed again and again, the sweep gives every combo a row, provided    *)
(* the record keeps its header.                                            *)
ResumesComplete == []<>Headed => []<>(Recorded = Combos)

-----------------------------------------------------------------------------
(* Statements of the file that its code does not keep.                     *)

(* "Infeasible/error outcomes never persist a schedule JSON (only a        *)
(* successful solve does)" (l. 174-175).  A file that nobody is writing is *)
(* a complete one.                                                         *)
OnlySuccessPersists ==
  \A c \in Combos :
    json[c] = "partial" => \E w \in Workers : worker[w] = [pc |-> "write", combo |-> c]

(* "summary.csv is opened in APPEND mode below, never truncated, so this   *)
(* record only grows across runs" (l. 248-249), "the record of every combo *)
(* ever attempted" (l. 43-44).                                             *)
RecordOfEveryAttempt == attempted \subseteq Recorded

(* "a resume only ever pays for combos truly not yet attempted" (l. 50-51) *)
ResumeSkipsAttempted ==
  sweep.pc \in {"open", "work"} /\ ~sweep.force =>
    sweep.queue \cap Recorded = {}
=============================================================================
