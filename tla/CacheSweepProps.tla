--------------------------- MODULE CacheSweepProps ---------------------------
(***************************************************************************)
(* What the result files of the cache sweep promise whoever reads them.    *)
(***************************************************************************)
EXTENDS CacheSweep

Contents == {"missing", "partial", "whole"}

(* Files are absent, being written or complete; a process that is about to *)
(* rename a file has completed it under its own temporary name.            *)
TypeOK ==
  /\ result \in [Files -> Contents]
  /\ temp \in [Units \X Kinds \X Processes -> Contents]
  /\ merged \in {"missing", "whole"}
  /\ job \in [Jobs -> [pc : {"off", "pool", "unit", "merge", "replace"},
                       todo : SUBSET Units, broken : BOOLEAN, failed : BOOLEAN]]
  /\ worker \in [Processes -> [pc : {"idle", "write"} \cup Kinds, unit : Units]]
  /\ \A p \in Processes :
       worker[p].pc \in Kinds => temp[<<worker[p].unit, worker[p].pc, p>>] = "whole"
  /\ faults \in 0 .. MaxFaults

Cache == INSTANCE AtomicFiles WITH
           Paths <- Files, Contents <- {"whole"}, Missing <- "missing", file <- result

(* "Completed layer units are cached atomically under results/"            *)
(* (README.md): with overlapping jobs and kills anywhere, a file under its *)
(* final name is complete and stays.                                       *)
CachedAtomically == Cache!Spec

(* The summary is the commit record of a unit.  merge_results looks at the *)
(* summaries alone, so a summary must not be there without its per-core    *)
(* file, even if the process dies between the two renames.                 *)
SummaryIsTheCommit ==
  \A u \in Units : result[<<u, "summary">>] = "whole" => result[<<u, "per_core">>] = "whole"

(* The merged file stands for the whole sweep: every unit, both files.     *)
MergedIsComplete == merged = "whole" => \A f \in Files : result[f] = "whole"

(* "Rerunning the same job resumes missing units" (README.md): it ends in  *)
(* a merged file, whatever the killed jobs left behind.                    *)
RerunsMerge == <>(merged = "whole")
=============================================================================
