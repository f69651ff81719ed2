----------------------------- MODULE MCIngestion -----------------------------
(***************************************************************************)
(* Two components that share no state, each alone: a behaviour follows the *)
(* jobs of the ingestion queue, or the schedules that submit them.         *)
(***************************************************************************)
EXTENDS IngestionLedger, IngestionSchedule, TLC

CONSTANTS w1, w2, c1, c2, s1, s2, i1

VARIABLE followed

(* No source has a schedule, so that no fair step is enabled.              *)
AloneInit == followed \in {"jobs", "schedules"} /\ Init /\ ScheduleInit

AloneNext ==
  /\ UNCHANGED followed
  /\ \/ followed = "jobs" /\ Next /\ UNCHANGED scheduleVars
     \/ followed = "schedules" /\ ScheduleStep /\ UNCHANGED vars

Alone ==
  /\ AloneInit /\ [][AloneNext]_<<followed, vars, scheduleVars>>
  /\ Fairness /\ ScheduleFairness
=============================================================================
