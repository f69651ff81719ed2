------------------------------- MODULE JobRows -------------------------------
(***************************************************************************)
(* The row of a leased job and the operation_attempts table, as pure       *)
(* operators.                                                              *)
(*                                                                         *)
(* Six queues of SignalScope (ingestion, processing, embedding, entity,    *)
(* event and claim extraction) keep their jobs in PostgreSQL tables with   *)
(* the same columns and the same five changes: claim, extend, recover,     *)
(* finish and requeue.  The modules of the queues put these operators      *)
(* into the transactions of their repositories.                            *)
(*                                                                         *)
(* Time is abstracted to what the code compares it with: lease_expires_at  *)
(* is NULL ("none"), after now ("live") or not after now ("expired").      *)
(* A lease_token is a fresh UUID for every claim; attempt_count grows by   *)
(* one with every claim and never shrinks while the row exists, so the     *)
(* number of the claim stands for the UUID drawn by it.                    *)
(***************************************************************************)
EXTENDS Naturals

Statuses == {"pending", "running", "completed", "failed"}
Leases == {"none", "live", "expired"}
NoToken == 0

(* finished and last_error say whether finished_at and last_error are set. *)
JobRow == [status: Statuses, attempt_count: Nat, lease_token: Nat,
           lease: Leases, finished: BOOLEAN, last_error: BOOLEAN]

NewJob == [status |-> "pending", attempt_count |-> 0, lease_token |-> NoToken,
           lease |-> "none", finished |-> FALSE, last_error |-> FALSE]

(* The row is running under the lease that this token was drawn for. *)
Holds(row, token) == row.status = "running" /\ row.lease_token = token

Stale(row) == row.status = "running" /\ row.lease = "expired"

(* Mutant: the token names the job instead of the claim. *)
ClaimedWithJobToken(row) ==
  [row EXCEPT !.status = "running", !.lease = "live",
              !.attempt_count = @ + 1, !.lease_token = 1]

Claimed(row) ==
  [row EXCEPT !.status = "running", !.lease = "live",
              !.attempt_count = @ + 1, !.lease_token = row.attempt_count + 1]

Extended(row) == [row EXCEPT !.lease = "live"]
Expired(row) == [row EXCEPT !.lease = "expired"]

(* Mutant: recovery drops the lease but not the status. *)
RecoveredStillRunning(row) ==
  [row EXCEPT !.lease = "none", !.lease_token = NoToken]

(* Recovery leaves attempt_count, finished_at and last_error alone. *)
Recovered(row) ==
  [row EXCEPT !.status = "pending", !.lease = "none", !.lease_token = NoToken]

Finished(row, status) ==
  [row EXCEPT !.status = status, !.lease = "none", !.lease_token = NoToken,
              !.finished = TRUE, !.last_error = (status = "failed")]

(* An operator's retry of a failed job. *)
Requeued(row) ==
  [row EXCEPT !.status = "pending", !.lease = "none", !.lease_token = NoToken,
              !.finished = FALSE, !.last_error = FALSE]

(* What the columns of a row say together. *)
ConsistentRow(row) ==
  /\ row.status = "running" <=> row.lease # "none"
  /\ row.status = "running" <=> row.lease_token # NoToken
  /\ row.status \in {"completed", "failed"} <=> row.finished
  /\ row.status = "failed" <=> row.last_error

-----------------------------------------------------------------------------

Outcomes == {"running", "succeeded", "failed", "recovered"}
AttemptRows(Jobs) == [job: Jobs, number: Nat, outcome: Outcomes]

(* start_attempt: nothing is recorded for a job without an organization. *)
StartAttempt(rows, owned, j, number) ==
  IF owned THEN rows \cup {[job |-> j, number |-> number, outcome |-> "running"]}
           ELSE rows

(* finish_attempt for each job of S: only the running attempt with the     *)
(* number the job's row carries is closed; no such attempt is no error.    *)
FinishAttempts(rows, S, job, outcome) ==
  {IF /\ r.job \in S
      /\ r.number = job[r.job].attempt_count
      /\ r.outcome = "running"
   THEN [r EXCEPT !.outcome = outcome]
   ELSE r : r \in rows}

Verdict(status) == IF status = "completed" THEN "succeeded" ELSE "failed"

AttemptsOf(rows, j) == {r \in rows : r.job = j}

(* The outcomes of the attempts of a job, by their numbers. *)
VerdictsOf(rows, j) ==
  [n \in {r.number : r \in AttemptsOf(rows, j)} |->
     (CHOOSE r \in AttemptsOf(rows, j) : r.number = n).outcome]
=============================================================================
