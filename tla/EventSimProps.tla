---------------------------- MODULE EventSimProps ----------------------------
(***************************************************************************)
(* What the schedule computed by the latency simulator must satisfy.       *)
(***************************************************************************)
EXTENDS EventSim

(* The transactions i depends on. *)
Dependencies(i) ==
  {j \in DOMAIN tcs : Contains(tcs[i].deps, tcs[j].tc_id)}

(* "Each actor_id (port) runs at most one transaction at a time", and a    *)
(* message "claims its entire route for its full duration"                 *)
(* (EventSim.h:4-14): two transactions that need the same actor or the     *)
(* same link never run at the same time.                                   *)
ResourcesAreExclusive ==
  \A i, j \in DOMAIN placed :
    i # j /\ Needs(tcs[i]) \cap Needs(tcs[j]) # {} =>
      \/ placed[i].finish <= placed[j].start
      \/ placed[j].finish <= placed[i].start

(* The latency lies between the two estimates the plan rejects: it is at   *)
(* least the work queued on any single actor or link, and at most all the  *)
(* work added up (dump/PLAN_eventsim_latency.md:15-21).                    *)
MakespanIsBetweenMaxAndAdded ==
  pc = "done" =>
    /\ \A r \in DOMAIN freeAt :
         LET users == {i \in DOMAIN tcs : r \in Needs(tcs[i])}
         IN  MapThenSumSet(LAMBDA i : Duration(tcs[i]), users) <= totalCycles
    /\ totalCycles <= SumFunction(cycles)

(* The simulation ends, with a result or an error. *)
Terminates == <>(pc \in {"done", "cycle", "rejected"})

(* The event loop computes a list schedule. *)
Schedule ==
  INSTANCE ListSchedule WITH
    jobs    <- [i \in DOMAIN tcs |->
                  [deps     |-> Dependencies(i),
                   needs    |-> IF Sendable(tcs[i]) THEN Needs(tcs[i]) ELSE {},
                   duration |-> IF Sendable(tcs[i]) THEN Duration(tcs[i]) ELSE 0]],
    plan    <- placed,
    verdict <- CASE pc \in {"load", "run"} -> "open"
                 [] pc = "done" -> "complete"
                 [] OTHER -> pc

ComputesAListSchedule == Schedule!ScheduleSpec

-----------------------------------------------------------------------------
(* "A transaction dispatches once its dependencies have all finished"      *)
(* (EventSim.h:15): nothing starts before everything it depends on has     *)
(* finished.                                                               *)
StartsAfterItsDependencies ==
  \A i \in DOMAIN placed : \A d \in Dependencies(i) :
    placed[d].finish <= placed[i].start

(* "Ties among simultaneously-ready transactions [are] broken by ascending *)
(* tc_id" (EventSim.h:17-18): when i is dispatched, no transaction whose   *)
(* last dependency finished at the same time as i's has a smaller id.      *)
ReadyTime(i) == Max({0} \cup {placed[d].finish : d \in Dependencies(i)})

TiesGoToTheSmallestId ==
  [][\A i \in DOMAIN tcs : Dispatch(i) =>
       \A j \in DOMAIN tcs \ DOMAIN placed :
         Dependencies(j) \subseteq DOMAIN placed /\ ReadyTime(j) = ReadyTime(i)
           => tcs[i].tc_id <= tcs[j].tc_id]_vars
=============================================================================
