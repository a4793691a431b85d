---------------------------- MODULE ListSchedule ----------------------------
(***************************************************************************)
(* What the latency simulator promises, without its queues, its counters   *)
(* and its maps: a list schedule.  A job may be placed once the jobs it    *)
(* depends on are placed; it starts at the earliest time at which every    *)
(* resource it needs is free of all the jobs placed before it.  When no    *)
(* job can be placed any more the schedule is complete, or the jobs left   *)
(* over are reported as a dependency cycle.                                *)
(***************************************************************************)
EXTENDS Naturals, FiniteSetsExt

VARIABLES
  jobs,    \* job -> [deps, needs, duration]
  plan,    \* job placed so far -> [start, finish]
  verdict  \* "open", "complete", "cycle" or "rejected"

scheduleVars == <<jobs, plan, verdict>>

ScheduleInit ==
  /\ \A j \in DOMAIN jobs : jobs[j].duration \in Nat
  /\ DOMAIN plan = {}
  /\ verdict = "open"

Placeable(j) ==
  j \in DOMAIN jobs \ DOMAIN plan /\ jobs[j].deps \subseteq DOMAIN plan

Rivals(j) == {k \in DOMAIN plan : jobs[k].needs \cap jobs[j].needs # {}}

EarliestStart(j) == Max({0} \cup {plan[k].finish : k \in Rivals(j)})

Place(j) ==
  /\ verdict = "open"
  /\ Placeable(j)
  /\ plan' = [k \in DOMAIN plan \cup {j} |->
                IF k = j
                THEN [start  |-> EarliestStart(j),
                      finish |-> EarliestStart(j) + jobs[j].duration]
                ELSE plan[k]]
  /\ UNCHANGED <<jobs, verdict>>

(* A list of jobs that makes no sense may be turned down at any point. *)
Reject ==
  /\ verdict = "open" /\ verdict' = "rejected"
  /\ UNCHANGED <<jobs, plan>>

Conclude ==
  /\ verdict = "open"
  /\ \A j \in DOMAIN jobs : ~Placeable(j)
  /\ verdict' = IF DOMAIN plan = DOMAIN jobs THEN "complete" ELSE "cycle"
  /\ UNCHANGED <<jobs, plan>>

ScheduleNext == (\E j \in DOMAIN jobs : Place(j)) \/ Reject \/ Conclude

ScheduleSpec == ScheduleInit /\ [][ScheduleNext]_scheduleVars
=============================================================================
