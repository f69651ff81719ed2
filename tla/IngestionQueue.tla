---------------------------- MODULE IngestionQueue ----------------------------
(***************************************************************************)
(* Ingestion: a job asks a worker to execute one run of a source.  The     *)
(* worker claims the job under a lease; the executor it calls knows only   *)
(* the run, takes it from pending to running to its verdict, retries       *)
(* fetches and saves each item in a transaction of its own.  Recovery      *)
(* gives the job of a lost worker a new run.                               *)
(*                                                                         *)
(* Every action is one committed transaction or one step of a worker       *)
(* between transactions; the database itself does not fail.  Jobs and runs *)
(* are numbered in the order they are created and are never deleted (their *)
(* foreign keys restrict).  Who creates a job is modelled in               *)
(* IngestionSchedule; here Submit is the one transaction both callers use. *)
(***************************************************************************)
EXTENDS JobRows, FiniteSets, Sequences

CONSTANTS
  Workers,         \* worker processes of run-worker
  Sources,         \* web and RSS sources
  OwnedSources,    \* those that belong to an organization
  Items,           \* what an adapter can yield for a source
  MaxAttempts,     \* RetryPolicy.max_attempts
  RecoveryLimit,   \* how many stale jobs one recovery takes
  MaxJobs,         \* bound on the jobs ever submitted
  MaxDisruptions   \* bound on crashes, missed leases and retries together

ASSUME ConstantsAssumption ==
  /\ OwnedSources \subseteq Sources
  /\ MaxAttempts \in Nat \ {0}
  /\ RecoveryLimit \in Nat \ {0}
  /\ MaxJobs \in Nat /\ MaxDisruptions \in Nat

VARIABLES
  job,             \* ingestion_jobs
  run_id,          \* the run each job asks for
  run,             \* ingestion_runs
  attempts,        \* operation_attempts of this queue
  documents,       \* the (source, item) pairs saved as documents
  worker,          \* what each worker process knows
  disruptions      \* how much of MaxDisruptions is used

vars == <<job, run_id, run, attempts, documents, worker, disruptions>>

JobIds == 1..MaxJobs
JobsSoFar == 1..Len(job)
SourceOf(j) == run[run_id[j]].source

NewRun(s) == [source |-> s, status |-> "pending", attempt_count |-> 0,
              items_seen |-> 0, documents_created |-> 0]

(* Mutant: a run that failed may complete after all. *)
LateCompletionAllowed(from, to) ==
  \/ from = "pending" /\ to = "running"
  \/ from \in {"running", "failed"} /\ to \in {"completed", "failed"}

(* ALLOWED_CHANGES of service.py. *)
AllowedChange(from, to) ==
  \/ from = "pending" /\ to = "running"
  \/ from = "running" /\ to \in {"completed", "failed"}

Idle == [pc |-> "idle", job |-> 0, token |-> NoToken, run |-> 0, attempt |-> 0,
         left |-> {}, lost |-> FALSE]

(* pc of a worker inside the executor: before _start, between attempts,    *)
(* fetching, and with a fetch that ended well or not.                      *)
Executing == {"claimed", "started", "fetching", "fetched", "broken"}
Worked == {"ran", "errored"}
Busy == Executing \cup Worked

(* The executor of w owns the run: mark_running succeeded. *)
Fetching(w) == worker[w].pc \in Executing \ {"claimed"}

HoldsJob(w) == /\ worker[w].pc \in Busy
               /\ Holds(job[worker[w].job], worker[w].token)

At(w, pc) == worker' = [worker EXCEPT ![w].pc = pc]

Disrupt == disruptions < MaxDisruptions /\ disruptions' = disruptions + 1
-----------------------------------------------------------------------------

Init ==
  /\ job = <<>> /\ run_id = <<>> /\ run = <<>>
  /\ attempts = {} /\ documents = {}
  /\ worker = [w \in Workers |-> Idle]
  /\ disruptions = 0

(* IngestionRunService.request and the scheduler's _schedule: a pending    *)
(* run and a job for it in one commit.                                     *)
Submit(s) ==
  /\ Len(job) < MaxJobs
  /\ run' = Append(run, NewRun(s))
  /\ job' = Append(job, NewJob)
  /\ run_id' = Append(run_id, Len(run'))
  /\ UNCHANGED <<attempts, documents, worker, disruptions>>

(* recover_stale_ingestion_jobs.  A run cannot start twice: a recovered    *)
(* job whose run is no longer pending gets a new one.                      *)
Recover(w, S) ==
  LET restarted == {j \in S : run[run_id[j]].status # "pending"}
      rank(j) == Len(run) + Cardinality({k \in restarted : k <= j})
      abandoned == {run_id[j] : j \in restarted}
      Closed(r) == IF r.status = "running" THEN [r EXCEPT !.status = "failed"] ELSE r
  IN
  /\ worker[w].pc = "idle"
  /\ S # {} /\ Cardinality(S) <= RecoveryLimit
  /\ \A j \in S : Stale(job[j])
  /\ job' = [j \in JobsSoFar |-> IF j \in S THEN Recovered(job[j]) ELSE job[j]]
  /\ attempts' = FinishAttempts(attempts, S, job, "recovered")
  /\ run' = [n \in 1..(Len(run) + Cardinality(restarted)) |->
               IF n \in abandoned THEN Closed(run[n])
               ELSE IF n <= Len(run) THEN run[n]
               ELSE NewRun(SourceOf(CHOOSE j \in restarted : rank(j) = n))]
  /\ run_id' = [j \in JobsSoFar |-> IF j \in restarted THEN rank(j) ELSE run_id[j]]
  /\ UNCHANGED <<documents, worker, disruptions>>

(* Mutant: the attempt gets the number of the claim before. *)
ClaimNumberedBefore(w, j) ==
  /\ worker[w].pc = "idle"
  /\ job[j].status = "pending"
  /\ job' = [job EXCEPT ![j] = Claimed(@)]
  /\ attempts' = StartAttempt(attempts, SourceOf(j) \in OwnedSources, j, job[j].attempt_count)
  /\ worker' = [worker EXCEPT ![w] =
                  [Idle EXCEPT !.pc = "claimed", !.job = j, !.run = run_id[j],
                               !.token = job'[j].lease_token]]
  /\ UNCHANGED <<run_id, run, documents, disruptions>>

Claim(w, j) ==
  /\ worker[w].pc = "idle"
  /\ job[j].status = "pending"
  /\ job' = [job EXCEPT ![j] = Claimed(@)]
  /\ attempts' = StartAttempt(attempts, SourceOf(j) \in OwnedSources, j, job'[j].attempt_count)
  /\ worker' = [worker EXCEPT ![w] =
                  [Idle EXCEPT !.pc = "claimed", !.job = j, !.run = run_id[j],
                               !.token = job'[j].lease_token]]
  /\ UNCHANGED <<run_id, run, documents, disruptions>>

(* The keeper runs beside the executor. *)
Heartbeat(w) ==
  /\ worker[w].pc \in Executing /\ ~worker[w].lost
  /\ \/ /\ HoldsJob(w)
        /\ job' = [job EXCEPT ![worker[w].job] = Extended(@)]
        /\ UNCHANGED worker
     \/ /\ ~HoldsJob(w)
        /\ worker' = [worker EXCEPT ![w].lost = TRUE]
        /\ UNCHANGED job
  /\ UNCHANGED <<run_id, run, attempts, documents, disruptions>>

-----------------------------------------------------------------------------
(* The executor.  It is given a run, and looks at neither job nor lease.   *)

(* _change_status: the locked run must allow the change, else the executor *)
(* raises and the worker goes on to fail its job.                          *)
ChangeStatus(w, status, pc) ==
  LET r == worker[w].run IN
  /\ IF AllowedChange(run[r].status, status)
     THEN run' = [run EXCEPT ![r].status = status] /\ At(w, pc)
     ELSE UNCHANGED run /\ At(w, "errored")
  /\ UNCHANGED <<job, run_id, attempts, documents, disruptions>>

MarkRunning(w) == worker[w].pc = "claimed" /\ ChangeStatus(w, "running", "started")
MarkCompleted(w) == worker[w].pc = "fetched" /\ ChangeStatus(w, "completed", "ran")
MarkFailed(w) == worker[w].pc = "broken" /\ ChangeStatus(w, "failed", "errored")

(* Each attempt is counted on the run before it fetches anything. *)
StartFetch(w) ==
  LET r == worker[w].run IN
  /\ worker[w].pc = "started"
  /\ run' = [run EXCEPT ![r].attempt_count = @ + 1]
  /\ worker' = [worker EXCEPT ![w].pc = "fetching", ![w].left = Items,
                              ![w].attempt = run'[r].attempt_count]
  /\ UNCHANGED <<job, run_id, attempts, documents, disruptions>>

(* Mutant: a duplicate is counted as created. *)
SaveItemCountingAll(w, i) ==
  LET r == worker[w].run
      saved == <<run[r].source, i>>
  IN
  /\ worker[w].pc = "fetching" /\ i \in worker[w].left
  /\ documents' = documents \cup {saved}
  /\ run' = [run EXCEPT ![r].items_seen = @ + 1, ![r].documents_created = @ + 1]
  /\ worker' = [worker EXCEPT ![w].left = @ \ {i}]
  /\ UNCHANGED <<job, run_id, attempts, disruptions>>

(* _save: the document, if it is none the source already has, and the      *)
(* counters of the run in one transaction.                                 *)
SaveItem(w, i) ==
  LET r == worker[w].run
      saved == <<run[r].source, i>>
  IN
  /\ worker[w].pc = "fetching" /\ i \in worker[w].left
  /\ documents' = documents \cup {saved}
  /\ run' = [run EXCEPT ![r].items_seen = @ + 1,
                        ![r].documents_created = @ + (IF saved \in documents THEN 0 ELSE 1)]
  /\ worker' = [worker EXCEPT ![w].left = @ \ {i}]
  /\ UNCHANGED <<job, run_id, attempts, disruptions>>

(* The adapter is done, fails for good (so does a save that lost the race  *)
(* for a unique index), or fails in a way that usually passes.             *)
EndFetch(w) ==
  /\ worker[w].pc = "fetching"
  /\ \/ At(w, "fetched")
     \/ At(w, "broken")
     \/ At(w, IF worker[w].attempt < MaxAttempts THEN "started" ELSE "broken")
  /\ UNCHANGED <<job, run_id, run, attempts, documents, disruptions>>

-----------------------------------------------------------------------------

(* _mark_completed or _mark_failed by the worker that holds the job. *)
Finish(w) ==
  LET j == worker[w].job
      status == IF worker[w].pc = "ran" THEN "completed" ELSE "failed"
  IN
  /\ worker[w].pc \in Worked /\ ~worker[w].lost /\ HoldsJob(w)
  /\ job' = [job EXCEPT ![j] = Finished(@, status)]
  /\ attempts' = FinishAttempts(attempts, {j}, job, Verdict(status))
  /\ worker' = [worker EXCEPT ![w] = Idle]
  /\ UNCHANGED <<run_id, run, documents, disruptions>>

LeaveLostJob(w) ==
  /\ worker[w].pc \in Worked
  /\ worker[w].lost \/ ~HoldsJob(w)
  /\ worker' = [worker EXCEPT ![w] = Idle]
  /\ UNCHANGED <<job, run_id, run, attempts, documents, disruptions>>

(* The process ends where it stands, and another one is started. *)
Crash(w) ==
  /\ worker[w].pc \in Busy
  /\ Disrupt
  /\ worker' = [worker EXCEPT ![w] = Idle]
  /\ UNCHANGED <<job, run_id, run, attempts, documents>>

(* A live lease of a worker that is still there runs out only when it      *)
(* misses its heartbeats, which counts as a disruption.                    *)
LeaseExpires(j) ==
  /\ job[j].status = "running" /\ job[j].lease = "live"
  /\ job' = [job EXCEPT ![j] = Expired(@)]
  /\ IF \E w \in Workers : worker[w].job = j /\ HoldsJob(w)
     THEN Disrupt ELSE UNCHANGED disruptions
  /\ UNCHANGED <<run_id, run, attempts, documents, worker>>

(* FailedJobRecoveryService: a new run, unless the source has a job that   *)
(* waits or runs.                                                          *)
Retry(j) ==
  /\ SourceOf(j) \in OwnedSources /\ job[j].status = "failed"
  /\ \A k \in JobsSoFar : SourceOf(k) = SourceOf(j) =>
       job[k].status \notin {"pending", "running"}
  /\ Disrupt
  /\ run' = Append(run, NewRun(SourceOf(j)))
  /\ run_id' = [run_id EXCEPT ![j] = Len(run')]
  /\ job' = [job EXCEPT ![j] = Requeued(@)]
  /\ UNCHANGED <<attempts, documents, worker>>

-----------------------------------------------------------------------------

ExecutorStep(w) ==
  \/ MarkRunning(w) \/ MarkCompleted(w) \/ MarkFailed(w)
  \/ StartFetch(w)
  \/ \E i \in Items : SaveItem(w, i)
  \/ EndFetch(w)

WorkerStep(w) ==
  \/ \E S \in SUBSET JobsSoFar : Recover(w, S)
  \/ \E j \in JobsSoFar : Claim(w, j)
  \/ Heartbeat(w)
  \/ ExecutorStep(w)
  \/ Finish(w)
  \/ LeaveLostJob(w)
  \/ Crash(w)

Next ==
  \/ \E w \in Workers : WorkerStep(w)
  \/ \E s \in Sources : Submit(s)
  \/ \E j \in JobsSoFar : LeaseExpires(j) \/ Retry(j)

Spec == Init /\ [][Next]_vars

(* The loop of a worker keeps taking steps, and the lease of a worker that *)
(* is gone runs out.  Nobody has to submit, retry, crash or stall.         *)
Orphaned(j) ==
  \A w \in Workers : ~(worker[w].job = j /\ HoldsJob(w))

Fairness ==
  /\ \A w \in Workers :
       /\ WF_vars(\E S \in SUBSET JobsSoFar : Recover(w, S))
       /\ WF_vars(\E j \in JobsSoFar : Claim(w, j))
       /\ WF_vars(ExecutorStep(w))
       /\ WF_vars(Finish(w) \/ LeaveLostJob(w))
  /\ \A j \in JobIds : WF_vars(j \in JobsSoFar /\ Orphaned(j) /\ LeaseExpires(j))

FairSpec == Spec /\ Fairness
-----------------------------------------------------------------------------

RunRow == [source: Sources, status: Statuses, attempt_count: Nat,
           items_seen: Nat, documents_created: Nat]

WorkerState ==
  [pc: {"idle"} \cup Busy, job: Nat, token: Nat, run: Nat, attempt: Nat,
   left: SUBSET Items, lost: BOOLEAN]

(* The variables hold values of the kinds the tables and workers keep. *)
TypeOK ==
  /\ job \in Seq(JobRow)
  /\ run \in Seq(RunRow)
  /\ run_id \in Seq(Nat)
  /\ Len(run_id) = Len(job)
  /\ \A j \in JobsSoFar : run_id[j] \in 1..Len(run)
  /\ attempts \subseteq AttemptRows(JobsSoFar)
  /\ documents \subseteq Sources \X Items
  /\ worker \in [Workers -> WorkerState]
  /\ \A w \in Workers : worker[w].pc \in Busy =>
       worker[w].job \in JobsSoFar /\ worker[w].run \in 1..Len(run)
  /\ disruptions \in 0..MaxDisruptions

(* One run is executed once: never two executors fetch for the same run,   *)
(* although executors know no lease and stale ones keep going.  What keeps *)
(* them apart is the status of the run and the new run of a recovered job. *)
OneExecutor ==
  \A v, w \in Workers :
    Fetching(v) /\ Fetching(w) /\ worker[v].run = worker[w].run => v = w

(* executor.py: "A run is executed only once, so its attempt count numbers *)
(* the attempts": no run is ever fetched more often than the policy says.  *)
AttemptsBounded == \A n \in 1..Len(run) : run[n].attempt_count <= MaxAttempts

(* A completed job has a completed run to show for it, although job and    *)
(* run are finished in two transactions and the job's run may be replaced. *)
CompletedJobHasCompletedRun ==
  \A j \in JobsSoFar : job[j].status = "completed" => run[run_id[j]].status = "completed"

(* The sum of a sequence of numbers. *)
Total(counts) ==
  LET upto[n \in 0..Len(counts)] == IF n = 0 THEN 0 ELSE upto[n - 1] + counts[n]
  IN  upto[Len(counts)]

(* What each run counted as created for a source. *)
CreatedFor(s) ==
  [n \in 1..Len(run) |-> IF run[n].source = s THEN run[n].documents_created ELSE 0]

(* Every saved document was counted as created by exactly one run, across  *)
(* retried fetches, crashes and executors whose run was taken away.        *)
DocumentsCounted ==
  \A s \in Sources : Total(CreatedFor(s)) = Cardinality({d \in documents : d[1] = s})

(* Jobs, runs, executors and documents agree, across two transactions for  *)
(* each verdict, retried fetches and executors that have lost their run.   *)
RunsMatchJobs ==
  TypeOK /\ CompletedJobHasCompletedRun /\ DocumentsCounted /\ OneExecutor /\ AttemptsBounded

(* A run that has its verdict keeps it: a stale executor cannot complete a *)
(* run recovery failed, and recovery cannot fail one that completed.       *)
VerdictsAreFinal ==
  [][\A n \in 1..Len(run) :
       run[n].status \in {"completed", "failed"} => run'[n].status = run[n].status]_vars

(* Every submitted job ends, and stays ended unless an operator retries it. *)
EveryJobSettles ==
  \A j \in JobIds :
    j \in JobsSoFar ~> j \in JobsSoFar /\ job[j].status \in {"completed", "failed"}

=============================================================================
