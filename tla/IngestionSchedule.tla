-------------------------- MODULE IngestionSchedule --------------------------
(***************************************************************************)
(* Scheduled ingestion: administrators turn the schedule of a source on    *)
(* and off, and any number of schedulers list the sources that are due and *)
(* queue a job for each, one short transaction per source.  Between the    *)
(* list and the transaction the source may have been queued by another     *)
(* scheduler, turned off, or given another schedule.                       *)
(*                                                                         *)
(* Times are minutes.  next_at and interval are the columns                *)
(* next_ingestion_at and ingestion_interval_minutes.  plan, start and    *)
(* plans are ghosts: the number of a schedule and the first time it was    *)
(* set to, and how many were set.  queued is the history of the jobs the   *)
(* schedulers created.                                                     *)
(***************************************************************************)
EXTENDS Integers, FiniteSets, Sequences

CONSTANTS
  Schedulers,      \* scheduler processes
  Scheduled,       \* web and RSS sources
  Intervals,       \* intervals an administrator may choose
  Limit,           \* how many due sources one pass takes
  MaxTime,         \* bound on the clock
  MaxPlans         \* bound on how often schedules are set

ASSUME ScheduleAssumption ==
  /\ Intervals \subseteq Nat \ {0}
  /\ Limit \in Nat \ {0}
  /\ MaxTime \in Nat /\ MaxPlans \in Nat

VARIABLES clock, source, scheduler, queued, plans

scheduleVars == <<clock, source, scheduler, queued, plans>>

NoTime == -1
Times == 0..MaxTime

Due(s, now) ==
  source[s].enabled /\ source[s].next_at # NoTime /\ source[s].next_at <= now

(* Mutant: counted from the run, so the schedule drifts. *)
CountFromNow(scheduled_at, interval, now) == now + interval

(* The first scheduled time after now, counted from the previous one. *)
NextIngestionTime(scheduled_at, interval, now) ==
  LET late == (now - scheduled_at) \div interval
      missed == IF late > 0 THEN late ELSE 0
  IN  scheduled_at + (missed + 1) * interval
-----------------------------------------------------------------------------

ScheduleInit ==
  /\ clock = 0
  /\ source = [s \in Scheduled |-> [enabled |-> FALSE, interval |-> 0, next_at |-> NoTime,
                                  plan |-> 0, start |-> NoTime]]
  /\ scheduler = [c \in Schedulers |-> [now |-> 0, todo |-> {}]]
  /\ queued = <<>>
  /\ plans = 0

Tick == clock < MaxTime /\ clock' = clock + 1 /\ UNCHANGED <<source, scheduler, queued, plans>>

(* SourceScheduleService.enable, at start_at or now; start_at may be past. *)
Enable(s, interval, start) ==
  /\ plans < MaxPlans /\ plans' = plans + 1
  /\ source' = [source EXCEPT ![s] =
                  [enabled |-> TRUE, interval |-> interval, next_at |-> start,
                   plan |-> plans + 1, start |-> start]]
  /\ UNCHANGED <<clock, scheduler, queued>>

(* The interval is kept. *)
Disable(s) ==
  /\ source' = [source EXCEPT ![s].enabled = FALSE, ![s].next_at = NoTime]
  /\ UNCHANGED <<clock, scheduler, queued, plans>>

(* Mutant: a source is only due after its time. *)
ListPast(c) ==
  LET due == {s \in Scheduled : Due(s, clock) /\ source[s].next_at < clock} IN
  /\ scheduler[c].todo = {}
  /\ \E todo \in SUBSET due :
       /\ Cardinality(todo) = IF Cardinality(due) < Limit THEN Cardinality(due) ELSE Limit
       /\ \A s \in todo, u \in due \ todo : source[s].next_at <= source[u].next_at
       /\ scheduler' = [scheduler EXCEPT ![c] = [now |-> clock, todo |-> todo]]
  /\ UNCHANGED <<clock, source, queued, plans>>

(* schedule_due reads the clock once and lists the longest waiting sources *)
(* in a transaction of its own.  The order in which it takes them is left  *)
(* open: each is a transaction that only looks at its own source.          *)
List(c) ==
  LET due == {s \in Scheduled : Due(s, clock)} IN
  /\ scheduler[c].todo = {}
  /\ \E todo \in SUBSET due :
       /\ Cardinality(todo) = IF Cardinality(due) < Limit THEN Cardinality(due) ELSE Limit
       /\ \A s \in todo, u \in due \ todo : source[s].next_at <= source[u].next_at
       /\ scheduler' = [scheduler EXCEPT ![c] = [now |-> clock, todo |-> todo]]
  /\ UNCHANGED <<clock, source, queued, plans>>

(* _schedule: the locked row is checked again with the time of the list. *)
Schedule(c, s) ==
  LET now == scheduler[c].now
      row == source[s]
  IN
  /\ s \in scheduler[c].todo
  /\ scheduler' = [scheduler EXCEPT ![c].todo = @ \ {s}]
  /\ IF Due(s, now)
     THEN /\ queued' = Append(queued, [source |-> s, plan |-> row.plan,
                                       slot |-> row.next_at, now |-> now])
          /\ source' = [source EXCEPT ![s].next_at =
                          NextIngestionTime(row.next_at, row.interval, now)]
     ELSE UNCHANGED <<source, queued>>
  /\ UNCHANGED <<clock, plans>>

(* A scheduler that ends leaves the rest of its list to the next pass. *)
Stop(c) ==
  /\ scheduler[c].todo # {}
  /\ scheduler' = [scheduler EXCEPT ![c].todo = {}]
  /\ UNCHANGED <<clock, source, queued, plans>>

ScheduleStep ==
  \/ Tick
  \/ \E s \in Scheduled :
       \/ \E interval \in Intervals, start \in Times : Enable(s, interval, start)
       \/ Disable(s)
  \/ \E c \in Schedulers :
       \/ List(c) \/ Stop(c)
       \/ \E s \in Scheduled : Schedule(c, s)

ScheduleSpec == ScheduleInit /\ [][ScheduleStep]_scheduleVars

(* A scheduler keeps making passes, and is not stopped every single time   *)
(* before it gets to a source.                                             *)
ScheduleFairness ==
  \A c \in Schedulers :
    /\ WF_scheduleVars(List(c))
    /\ \A s \in Scheduled : SF_scheduleVars(Schedule(c, s))

FairSchedule == ScheduleSpec /\ ScheduleFairness
-----------------------------------------------------------------------------

(* The variables hold values of the kinds the table and schedulers keep,   *)
(* and a source has a next time exactly while its schedule is on.          *)
ScheduleTypeOK ==
  /\ clock \in Times /\ plans \in 0..MaxPlans
  /\ \A s \in Scheduled :
       LET row == source[s] IN
       /\ row.enabled \in BOOLEAN
       /\ row.interval \in Intervals \cup {0}
       /\ row.next_at \in Nat \cup {NoTime}
       /\ row.plan \in 0..plans /\ row.start \in Times \cup {NoTime}
       /\ row.enabled <=> row.next_at # NoTime
       /\ row.enabled => row.interval # 0
  /\ \A c \in Schedulers : scheduler[c].now \in Times /\ scheduler[c].todo \subseteq Scheduled

(* No job is queued before its time, although a scheduler works from a     *)
(* list that others have worked through or administrators made stale.      *)
NothingQueuedEarly ==
  \A i \in 1..Len(queued) :
    queued[i].slot \in Nat /\ queued[i].slot <= queued[i].now

SamePlan(e, f) == e.source = f.source /\ e.plan = f.plan

(* However many schedulers pass at once, a time of a schedule is queued    *)
(* once, and a source that was late skips the times it missed: what is     *)
(* queued next lies after the pass that queued the one before.             *)
SlotsQueuedOnce ==
  \A i, j \in 1..Len(queued) :
    i < j /\ SamePlan(queued[i], queued[j]) => queued[i].now < queued[j].slot

(* The schedule does not drift and skips no time that is still to come:    *)
(* the next time is the first one after the last pass that is a whole      *)
(* number of intervals after the time the schedule was set to.             *)
NextTimeIsFirst ==
  \A s \in Scheduled : \A i \in 1..Len(queued) :
    LET row == source[s]
        last == queued[i].now
    IN  /\ row.enabled /\ queued[i].source = s /\ queued[i].plan = row.plan
        /\ \A j \in (i + 1)..Len(queued) : ~SamePlan(queued[i], queued[j])
        => /\ last < row.next_at /\ row.next_at <= last + row.interval
           /\ (row.next_at - row.start) % row.interval = 0

(* Each time of a schedule is queued once, never early and without drift.  *)
SlotsAreKept == ScheduleTypeOK /\ NothingQueuedEarly /\ SlotsQueuedOnce /\ NextTimeIsFirst

(* A due source is queued in the end, unless its schedule is changed, by   *)
(* whichever scheduler gets there, although a pass takes only Limit of the *)
(* due sources and schedulers stop in the middle of their lists.           *)
DueSourcesAreQueued == \A s \in Scheduled : Due(s, clock) ~> ~Due(s, clock)
=============================================================================
