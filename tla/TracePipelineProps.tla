------------------------- MODULE TracePipelineProps -------------------------
(***************************************************************************)
(* What the files of the pipeline must satisfy whoever is killed when.     *)
(***************************************************************************)
EXTENDS TracePipeline

Files == INSTANCE AtomicFiles WITH
           Paths <- Traces, Contents <- Versions, file <- trace

(* "a process killed mid-write (OOM, SLURM time limit, etc.) can never     *)
(* leave a truncated file sitting at `path`" (tracegen.py:334-339): with   *)
(* two invocations at work on the same layer, with --force, and with kills *)
(* anywhere, a trace file is absent or complete and never goes away.       *)
TracesAreAtomic == Files!Spec

(* Schedules are rederived, never stored with the traces: all traces of a  *)
(* layer come from the one schedule on disk (load_schedule), as long as    *)
(* that layer is not solved again with --force.                            *)
OneScheduleByLayer ==
  \A t \in Traces :
    t[1] \notin resolved /\ trace[t] # Missing => trace[t] = schedule[t[1]]

(* The temporary files somebody is still going to rename or remove. *)
Writing(r, w) == worker[<<r, w>>].pc \in {"write", "replace"}

Orphans ==
  {f \in DOMAIN temp :
     temp[f] # Missing /\ ~\E r \in Runs, w \in Workers : Writing(r, w) /\ f = TempFile(r, w)}

(* Exceptions clean up (save_weight_trace's except clause): a temporary    *)
(* file is left behind by a killed process only, one by each worker that   *)
(* one kill can take down.                                                 *)
OrphansComeFromKills == Cardinality(Orphans) <= kills * Cardinality(Workers)

(* A run that reports a layer, or a combo, as done has all its files on    *)
(* disk, whatever workers died on the way and however the list was cut.    *)
ReportedIsPresent == \A t \in reported : trace[t] # Missing

Work(r, w) ==
  IF worker[<<r, w>>].pc = "idle" THEN {}
  ELSE {worker[<<r, w>>].layer} \X (worker[<<r, w>>].left \cup worker[<<r, w>>].batch)

(* Two workers of one invocation never make the same trace: the chunks of  *)
(* one combo do not overlap, and a pass does not begin before the tasks of *)
(* the last one, dead pools included, are over.                            *)
WorkIsDivided ==
  \A r \in Runs, v \in Workers, w \in Workers : v # w => Work(r, v) \cap Work(r, w) = {}

(* An invocation accounts for its work: what it reports is there, no trace *)
(* is made twice at a time, and only kills leave anything behind.          *)
WorkIsAccountedFor == ReportedIsPresent /\ WorkIsDivided /\ OrphansComeFromKills

(* "a coverage milestone (some samples for every layer) lands before       *)
(* spending remaining time going deeper on earlier layers"                 *)
(* (generate_weight_traces.py:17-20).                                      *)
MilestoneFirst ==
  \A r \in Runs :
    run[r].pc = "work" /\ run[r].mode = "all" /\ run[r].pass = 2 =>
      \A l \in Layers \ run[r].sunk, s \in FirstPass : trace[<<l, s>>] # Missing

(* Started again and again, the skip-existing checks bring every layer     *)
(* that has a readable schedule to its full set of traces, in spite of     *)
(* what killed runs left behind.                                           *)
RerunsComplete ==
  \A l \in Layers :
    <>[](schedule[l] \in Versions) => <>(\A s \in Samples : trace[<<l, s>>] # Missing)

(* "a real compute-node failure for one layer shouldn't sink the rest"     *)
(* (generate_weight_traces.py:236): a layer fails only if its own task     *)
(* raised or its own worker died.  Not true: the dead worker takes the     *)
(* executor and every layer not finished yet with it.                      *)
FailureStaysInItsLayer == \A r \in Runs : run[r].failed \subseteq run[r].hurt
=============================================================================
