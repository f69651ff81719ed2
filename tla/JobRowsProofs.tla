---- MODULE JobRowsProofs ----
(***************************************************************************)
(* What the operators of JobRows preserve, for every row and every set of  *)
(* attempts: the lemmas the proofs about the queues rest on.               *)
(***************************************************************************)
EXTENDS JobRows, SequenceTheorems, TLAPS

(* A claim keeps the row well typed and gives it a token of its own. *)
LEMMA ClaimedType ==
  ASSUME NEW row \in JobRow
  PROVE  /\ Claimed(row) \in JobRow
         /\ Claimed(row).status = "running"
         /\ Claimed(row).lease = "live"
         /\ Claimed(row).attempt_count = row.attempt_count + 1
         /\ Claimed(row).lease_token = row.attempt_count + 1
         /\ Claimed(row).finished = row.finished
         /\ Claimed(row).last_error = row.last_error
         /\ row.attempt_count \in Nat
<1>1. row.attempt_count \in Nat /\ row.attempt_count + 1 \in Nat
  BY DEF JobRow
<1> DEFINE New(n) == [row EXCEPT !.status = "running", !.lease = "live",
                                 !.attempt_count = n, !.lease_token = n]
<1>2. Claimed(row) = New(row.attempt_count + 1)
  BY DEF Claimed, JobRow
<1>3. ASSUME NEW n \in Nat PROVE New(n) \in JobRow
  BY DEF JobRow, Statuses, Leases
<1>4. ASSUME NEW n \in Nat
      PROVE  /\ New(n).status = "running" /\ New(n).lease = "live"
             /\ New(n).attempt_count = n /\ New(n).lease_token = n
  BY DEF JobRow
<1>5. ASSUME NEW n \in Nat
      PROVE  New(n).finished = row.finished /\ New(n).last_error = row.last_error
  BY DEF JobRow
<1> HIDE DEF New
<1> QED BY <1>1, <1>2, <1>3, <1>4, <1>5

(* The other changes of a row keep it well typed. *)
LEMMA RowTypes ==
  /\ NewJob \in JobRow
  /\ \A row \in JobRow :
       /\ Extended(row) \in JobRow
       /\ Expired(row) \in JobRow
       /\ Recovered(row) \in JobRow
       /\ \A s \in Statuses : Finished(row, s) \in JobRow
       /\ Requeued(row) \in JobRow
<1>1. NewJob \in JobRow
  BY DEF JobRow, NewJob, Statuses, Leases, NoToken
<1>2. ASSUME NEW row \in JobRow
      PROVE  Extended(row) \in JobRow /\ Expired(row) \in JobRow
  BY DEF JobRow, Extended, Expired, Leases
<1>3. ASSUME NEW row \in JobRow
      PROVE  Recovered(row) \in JobRow /\ Requeued(row) \in JobRow
  BY DEF JobRow, Recovered, Requeued, Statuses, Leases, NoToken
<1>4. ASSUME NEW row \in JobRow, NEW s \in Statuses
      PROVE  Finished(row, s) \in JobRow
  BY DEF JobRow, Finished, Statuses, Leases, NoToken
<1> QED BY <1>1, <1>2, <1>3, <1>4

(* What each change leaves of the claim count and the token. *)
LEMMA RowClaims ==
  ASSUME NEW row \in JobRow
  PROVE  /\ Extended(row).attempt_count = row.attempt_count
         /\ Extended(row).lease_token = row.lease_token
         /\ Extended(row).status = row.status
         /\ Expired(row).attempt_count = row.attempt_count
         /\ Expired(row).lease_token = row.lease_token
         /\ Expired(row).status = row.status
         /\ Recovered(row).attempt_count = row.attempt_count
         /\ Recovered(row).lease_token = NoToken
         /\ Recovered(row).status = "pending"
         /\ Requeued(row).attempt_count = row.attempt_count
         /\ Requeued(row).lease_token = NoToken
         /\ Requeued(row).status = "pending"
         /\ \A s \in Statuses :
              /\ Finished(row, s).attempt_count = row.attempt_count
              /\ Finished(row, s).lease_token = NoToken
              /\ Finished(row, s).status = s
  BY DEF JobRow, Extended, Expired, Recovered, Requeued, Finished

(* Every change of a row keeps its columns in agreement, when it is made   *)
(* in the status its callers check.                                        *)
LEMMA RowConsistency ==
  ASSUME NEW row \in JobRow, ConsistentRow(row)
  PROVE  /\ ConsistentRow(NewJob)
         /\ row.status = "pending" => ConsistentRow(Claimed(row))
         /\ row.status = "running" => /\ ConsistentRow(Extended(row))
                                      /\ ConsistentRow(Expired(row))
                                      /\ ConsistentRow(Recovered(row))
         /\ ConsistentRow(Finished(row, "completed"))
         /\ ConsistentRow(Finished(row, "failed"))
         /\ ConsistentRow(Requeued(row))
<1>1. ConsistentRow(NewJob)
  BY DEF ConsistentRow, NewJob
<1>2. ASSUME row.status = "pending" PROVE ConsistentRow(Claimed(row))
  <2>1. row.attempt_count + 1 # NoToken
    BY ClaimedType DEF NoToken
  <2> QED BY <1>2, <2>1, ClaimedType DEF ConsistentRow
<1>3. ASSUME row.status = "running"
      PROVE  /\ ConsistentRow(Extended(row))
             /\ ConsistentRow(Expired(row))
             /\ ConsistentRow(Recovered(row))
  BY <1>3 DEF ConsistentRow, Extended, Expired, Recovered, JobRow
<1>4. ConsistentRow(Finished(row, "completed")) /\ ConsistentRow(Finished(row, "failed"))
  BY DEF ConsistentRow, Finished, JobRow
<1>5. ConsistentRow(Requeued(row))
  BY DEF ConsistentRow, Requeued, JobRow
<1> QED BY <1>1, <1>2, <1>3, <1>4, <1>5

-----------------------------------------------------------------------------

(* finish_attempt adds no row and changes outcomes only. *)
LEMMA FinishAttemptsType ==
  ASSUME NEW Jobs, NEW rows \in SUBSET AttemptRows(Jobs), NEW S,
         NEW jobs \in [Jobs -> JobRow], NEW o \in Outcomes
  PROVE  FinishAttempts(rows, S, jobs, o) \in SUBSET AttemptRows(Jobs)
<1>1. ASSUME NEW r \in AttemptRows(Jobs) PROVE [r EXCEPT !.outcome = o] \in AttemptRows(Jobs)
  BY DEF AttemptRows
<1> QED BY <1>1 DEF FinishAttempts

LEMMA StartAttemptType ==
  ASSUME NEW Jobs, NEW rows \in SUBSET AttemptRows(Jobs), NEW owned,
         NEW j \in Jobs, NEW n \in Nat
  PROVE  StartAttempt(rows, owned, j, n) \in SUBSET AttemptRows(Jobs)
  BY DEF StartAttempt, AttemptRows, Outcomes

(* finish_attempt keeps job and number of every row, changes the outcome   *)
(* of the open attempt of the claim the job's row carries, and no other.   *)
LEMMA FinishedRows ==
  ASSUME NEW Jobs, NEW rows \in SUBSET AttemptRows(Jobs), NEW S, NEW jobs,
         NEW o \in Outcomes
  PROVE  /\ \A q \in FinishAttempts(rows, S, jobs, o) : \E r \in rows :
              /\ q.job = r.job /\ q.number = r.number
              /\ IF /\ r.job \in S /\ r.number = jobs[r.job].attempt_count
                    /\ r.outcome = "running"
                 THEN q.outcome = o
                 ELSE q.outcome = r.outcome
         /\ \A r \in rows : \E q \in FinishAttempts(rows, S, jobs, o) :
              q.job = r.job /\ q.number = r.number
<1> DEFINE Open(r) == /\ r.job \in S /\ r.number = jobs[r.job].attempt_count
                      /\ r.outcome = "running"
           Closed(r) == IF Open(r) THEN [r EXCEPT !.outcome = o] ELSE r
<1>1. FinishAttempts(rows, S, jobs, o) = {Closed(r) : r \in rows}
  BY DEF FinishAttempts
<1>2. ASSUME NEW r \in rows
      PROVE  /\ Closed(r).job = r.job /\ Closed(r).number = r.number
             /\ Closed(r).outcome = IF Open(r) THEN o ELSE r.outcome
  BY DEF AttemptRows
<1> HIDE DEF Closed
<1>3. ASSUME NEW q \in FinishAttempts(rows, S, jobs, o)
      PROVE  \E r \in rows :
              /\ q.job = r.job /\ q.number = r.number
              /\ IF Open(r) THEN q.outcome = o ELSE q.outcome = r.outcome
  BY <1>1, <1>2
<1>4. ASSUME NEW r \in rows
      PROVE  \E q \in FinishAttempts(rows, S, jobs, o) :
               q.job = r.job /\ q.number = r.number
  BY <1>1, <1>2
<1> QED BY <1>3, <1>4

(* A row is its three columns. *)
LEMMA RowIsItsColumns ==
  ASSUME NEW Jobs, NEW r \in AttemptRows(Jobs), NEW s \in AttemptRows(Jobs),
         r.job = s.job, r.number = s.number, r.outcome = s.outcome
  PROVE  r = s
  BY DEF AttemptRows

-----------------------------------------------------------------------------
(* The attempts of a job as the sequence of its verdicts.                  *)

EachOnce(rows) == \A r, s \in rows : r.job = s.job /\ r.number = s.number => r = s

(* The attempts of j are numbered 1 to k, and only the one numbered open,  *)
(* if any, is running.                                                     *)
Numbered(rows, j, k, open) ==
  /\ \A r \in rows : r.job = j => /\ r.number \in 1..k
                                  /\ r.outcome = "running" <=> r.number = open
  /\ \A n \in 1..k : \E r \in rows : r.job = j /\ r.number = n

(* The last entry gets its verdict. *)
Ended(V, o) == [V EXCEPT ![Len(V)] = o]

(* Where numbers are used once, the entry of a claim is its row's outcome. *)
LEMMA OutcomeOfRow ==
  ASSUME NEW rows, EachOnce(rows), NEW r \in rows
  PROVE  VerdictsOf(rows, r.job)[r.number] = r.outcome
<1> DEFINE own == AttemptsOf(rows, r.job)
           q == CHOOSE q \in own : q.number = r.number
<1>1. r \in own
  BY DEF AttemptsOf
<1>2. q \in own /\ q.number = r.number
  BY <1>1
<1>3. q = r
  BY <1>2 DEF AttemptsOf, EachOnce
<1>4. r.number \in {s.number : s \in own}
  BY <1>1
<1>5. VerdictsOf(rows, r.job) =
        [n \in {s.number : s \in own} |-> (CHOOSE s \in own : s.number = n).outcome]
  BY DEF VerdictsOf
<1> QED BY <1>3, <1>4, <1>5

(* The verdicts of a job whose attempts are numbered 1..k are a sequence.  *)
LEMMA VerdictSequence ==
  ASSUME NEW Jobs, NEW rows \in SUBSET AttemptRows(Jobs), EachOnce(rows),
         NEW j, NEW k \in Nat, NEW open, Numbered(rows, j, k, open)
  PROVE  /\ VerdictsOf(rows, j) \in [1..k -> Outcomes]
         /\ VerdictsOf(rows, j) \in Seq(Outcomes)
         /\ Len(VerdictsOf(rows, j)) = k
<1>1. {r.number : r \in AttemptsOf(rows, j)} = 1..k
  BY DEF AttemptsOf, Numbered
<1>2. ASSUME NEW n \in 1..k PROVE VerdictsOf(rows, j)[n] \in Outcomes
  <2>1. PICK r \in rows : r.job = j /\ r.number = n
    BY DEF Numbered
  <2> QED BY <2>1, OutcomeOfRow DEF AttemptRows
<1>3. VerdictsOf(rows, j) =
        [n \in 1..k |-> (CHOOSE r \in AttemptsOf(rows, j) : r.number = n).outcome]
  BY <1>1 DEF VerdictsOf
<1>4. VerdictsOf(rows, j) \in [1..k -> Outcomes]
  BY <1>2, <1>3
<1>5. VerdictsOf(rows, j) \in Seq(Outcomes)
  BY <1>4, SeqDef
<1>6. Len(VerdictsOf(rows, j)) = k
  BY <1>4, <1>5, LenProperties
<1> QED BY <1>4, <1>5, <1>6

(* A job's verdicts are a matter of its own attempts.                      *)
LEMMA SameAttempts ==
  ASSUME NEW rows, NEW later, NEW j, AttemptsOf(later, j) = AttemptsOf(rows, j)
  PROVE  /\ VerdictsOf(later, j) = VerdictsOf(rows, j)
         /\ \A k, open : Numbered(rows, j, k, open) => Numbered(later, j, k, open)
<1>1. \A r : r \in later /\ r.job = j <=> r \in rows /\ r.job = j
  BY DEF AttemptsOf
<1>2. VerdictsOf(later, j) = VerdictsOf(rows, j)
  BY DEF VerdictsOf
<1> QED BY <1>1, <1>2 DEF Numbered

(* A job without attempts has no verdicts. *)
LEMMA NoVerdicts ==
  ASSUME NEW j
  PROVE  VerdictsOf({}, j) = <<>>
<1>1. EachOnce({}) /\ Numbered({}, j, 0, 0)
  BY DEF EachOnce, Numbered
<1>2. VerdictsOf({}, j) \in Seq(Outcomes) /\ Len(VerdictsOf({}, j)) = 0
  BY <1>1, VerdictSequence
<1> QED BY <1>2, EmptySeq

(* finish_attempt leaves every number where it was.                        *)
LEMMA FinishedOnce ==
  ASSUME NEW Jobs, NEW rows \in SUBSET AttemptRows(Jobs), EachOnce(rows), NEW S,
         NEW jobs \in [Jobs -> JobRow], NEW o \in Outcomes
  PROVE  EachOnce(FinishAttempts(rows, S, jobs, o))
<1> DEFINE later == FinishAttempts(rows, S, jobs, o)
<1>1. later \in SUBSET AttemptRows(Jobs)
  BY FinishAttemptsType
<1>2. \A q \in later : \E r \in rows :
        /\ q.job = r.job /\ q.number = r.number
        /\ IF /\ r.job \in S /\ r.number = jobs[r.job].attempt_count
              /\ r.outcome = "running"
           THEN q.outcome = o
           ELSE q.outcome = r.outcome
  BY FinishedRows
<1> HIDE DEF later
<1>3. ASSUME NEW p \in later, NEW q \in later, p.job = q.job, p.number = q.number
      PROVE  p = q
  <2>1. p.outcome = q.outcome
    BY <1>2, <1>3 DEF EachOnce
  <2> QED BY <1>1, <1>3, <2>1, RowIsItsColumns
<1> QED BY <1>3 DEF EachOnce, later

(* It does nothing to the jobs that it is not for,                         *)
LEMMA FinishLeaves ==
  ASSUME NEW Jobs, NEW rows \in SUBSET AttemptRows(Jobs), NEW S,
         NEW jobs, NEW o \in Outcomes, NEW j, j \notin S
  PROVE  AttemptsOf(FinishAttempts(rows, S, jobs, o), j) = AttemptsOf(rows, j)
<1> DEFINE Closed(r) == IF /\ r.job \in S
                           /\ r.number = jobs[r.job].attempt_count
                           /\ r.outcome = "running"
                        THEN [r EXCEPT !.outcome = o] ELSE r
<1>1. FinishAttempts(rows, S, jobs, o) = {Closed(r) : r \in rows}
  BY DEF FinishAttempts
<1>2. ASSUME NEW r \in rows
      PROVE  Closed(r).job = r.job /\ (r.job = j => Closed(r) = r)
  BY DEF AttemptRows
<1> HIDE DEF Closed
<1> QED BY <1>1, <1>2 DEF AttemptsOf

(* and gives the last verdict of those that it is for.                     *)
LEMMA FinishCloses ==
  ASSUME NEW Jobs, NEW rows \in SUBSET AttemptRows(Jobs), EachOnce(rows), NEW S,
         NEW jobs \in [Jobs -> JobRow], NEW o \in Outcomes, o # "running",
         NEW j \in S, j \in Jobs, NEW k \in Nat, k = jobs[j].attempt_count,
         Numbered(rows, j, k, k)
  PROVE  /\ VerdictsOf(FinishAttempts(rows, S, jobs, o), j) =
              Ended(VerdictsOf(rows, j), o)
         /\ Numbered(FinishAttempts(rows, S, jobs, o), j, k, 0)
<1> DEFINE later == FinishAttempts(rows, S, jobs, o)
           V == VerdictsOf(rows, j)
           W == VerdictsOf(later, j)
<1>1. later \in SUBSET AttemptRows(Jobs) /\ EachOnce(later)
  BY FinishAttemptsType, FinishedOnce
<1>2. /\ \A q \in later : \E r \in rows :
           /\ q.job = r.job /\ q.number = r.number
           /\ IF /\ r.job \in S /\ r.number = jobs[r.job].attempt_count
                 /\ r.outcome = "running"
              THEN q.outcome = o
              ELSE q.outcome = r.outcome
      /\ \A r \in rows : \E q \in later : q.job = r.job /\ q.number = r.number
  BY FinishedRows
<1> HIDE DEF later
<1>3. ASSUME NEW q \in later, q.job = j
      PROVE  /\ q.number \in 1..k /\ q.outcome # "running"
             /\ \E r \in rows : /\ r.job = j /\ r.number = q.number
                                /\ q.outcome = IF q.number = k THEN o ELSE r.outcome
  <2>1. PICK r \in rows :
          /\ q.job = r.job /\ q.number = r.number
          /\ IF /\ r.job \in S /\ r.number = jobs[r.job].attempt_count
                /\ r.outcome = "running"
             THEN q.outcome = o
             ELSE q.outcome = r.outcome
    BY <1>2
  <2>2. r.number \in 1..k /\ (r.outcome = "running" <=> r.number = k)
    BY <1>3, <2>1 DEF Numbered
  <2> QED BY <1>3, <2>1, <2>2
<1>4. Numbered(later, j, k, 0)
  <2>1. \A n \in 1..k : \E q \in later : q.job = j /\ q.number = n
    BY <1>2 DEF Numbered
  <2>2. \A q \in later : q.job = j => q.number \in 1..k /\ (q.outcome = "running" <=> q.number = 0)
    BY <1>3
  <2> QED BY <2>1, <2>2 DEF Numbered
<1>5. /\ V \in [1..k -> Outcomes] /\ Len(V) = k
      /\ W \in [1..k -> Outcomes]
  BY <1>1, <1>4, VerdictSequence
<1>6. ASSUME NEW n \in 1..k PROVE W[n] = IF n = k THEN o ELSE V[n]
  <2>1. PICK q \in later : q.job = j /\ q.number = n
    BY <1>4 DEF Numbered
  <2>2. PICK r \in rows : /\ r.job = j /\ r.number = n
                          /\ q.outcome = IF n = k THEN o ELSE r.outcome
    BY <1>3, <2>1
  <2>3. W[n] = q.outcome /\ V[n] = r.outcome
    BY <1>1, <2>1, <2>2, OutcomeOfRow
  <2> QED BY <2>2, <2>3
<1> HIDE DEF V, W
<1>7. W = [V EXCEPT ![k] = o]
  BY <1>5, <1>6
<1> QED BY <1>4, <1>5, <1>7 DEF V, W, later, Ended

(* start_attempt changes nothing for other jobs,                           *)
LEMMA StartLeaves ==
  ASSUME NEW rows, NEW owned, NEW j, NEW n, NEW i, i # j
  PROVE  AttemptsOf(StartAttempt(rows, owned, j, n), i) = AttemptsOf(rows, i)
<1>1. [job |-> j, number |-> n, outcome |-> "running"].job # i
  OBVIOUS
<1> QED BY <1>1 DEF StartAttempt, AttemptsOf

(* and appends an open entry to those of its job.                *)
LEMMA StartAppends ==
  ASSUME NEW Jobs, NEW rows \in SUBSET AttemptRows(Jobs), EachOnce(rows),
         NEW j \in Jobs, NEW k \in Nat, Numbered(rows, j, k, 0),
         NEW later, later = StartAttempt(rows, TRUE, j, k + 1)
  PROVE  /\ VerdictsOf(later, j) = Append(VerdictsOf(rows, j), "running")
         /\ Numbered(later, j, k + 1, k + 1) /\ EachOnce(later)
<1> DEFINE V == VerdictsOf(rows, j)
           W == VerdictsOf(later, j)
<1>1. PICK new \in AttemptRows(Jobs) :
        /\ new.job = j /\ new.number = k + 1 /\ new.outcome = "running"
        /\ later = rows \cup {new}
  <2>1. [job |-> j, number |-> k + 1, outcome |-> "running"] \in AttemptRows(Jobs)
    BY DEF AttemptRows, Outcomes
  <2> QED BY <2>1 DEF StartAttempt
<1>2. later \in SUBSET AttemptRows(Jobs) /\ "running" \in Outcomes
  BY <1>1 DEF Outcomes
<1>3. \A r \in rows : r.job = j => r.number \in 1..k /\ r.outcome # "running"
  BY DEF Numbered
<1>4. EachOnce(later)
  <2>1. \A r \in rows : r.job = new.job => r.number # new.number
    BY <1>1, <1>3
  <2>2. ASSUME NEW p \in later, NEW q \in later, p.job = q.job, p.number = q.number
        PROVE  p = q
    BY <1>1, <2>1, <2>2 DEF EachOnce
  <2> QED BY <2>2 DEF EachOnce
<1>5. Numbered(later, j, k + 1, k + 1)
  <2>1. ASSUME NEW r \in later, r.job = j
        PROVE  r.number \in 1..(k + 1) /\ (r.outcome = "running" <=> r.number = k + 1)
    <3>1. CASE r = new
      BY <1>1, <3>1
    <3>2. CASE r # new
      <4>1. r.number \in 1..k /\ r.outcome # "running"
        BY <1>1, <1>3, <2>1, <3>2
      <4> QED BY <4>1
    <3> QED BY <3>1, <3>2
  <2>2. ASSUME NEW n \in 1..(k + 1) PROVE \E r \in later : r.job = j /\ r.number = n
    <3>1. CASE n = k + 1
      BY <1>1, <3>1
    <3>2. CASE n # k + 1
      <4>1. n \in 1..k
        BY <3>2
      <4> QED BY <1>1, <4>1 DEF Numbered
    <3> QED BY <3>1, <3>2
  <2> QED BY <2>1, <2>2 DEF Numbered
<1>6. /\ V \in Seq(Outcomes) /\ Len(V) = k /\ W \in Seq(Outcomes) /\ Len(W) = k + 1
  <2>1. V \in Seq(Outcomes) /\ Len(V) = k
    BY VerdictSequence
  <2>2. k + 1 \in Nat
    OBVIOUS
  <2>3. W \in Seq(Outcomes) /\ Len(W) = k + 1
    BY <1>2, <1>4, <1>5, <2>2, VerdictSequence
  <2> QED BY <2>1, <2>3
<1>7. ASSUME NEW n \in 1..k PROVE W[n] = V[n]
  <2>1. PICK r \in rows : r.job = j /\ r.number = n
    BY DEF Numbered
  <2>2. r \in later
    BY <1>1
  <2> QED BY <1>4, <2>1, <2>2, OutcomeOfRow
<1>8. W[k + 1] = "running"
  <2>1. new \in later
    BY <1>1
  <2> QED BY <1>1, <1>4, <2>1, OutcomeOfRow
<1> HIDE DEF V, W
<1>9. Append(V, "running") \in Seq(Outcomes) /\ Len(Append(V, "running")) = k + 1
  BY <1>2, <1>6
<1>10. ASSUME NEW n \in 1..(k + 1) PROVE Append(V, "running")[n] = W[n]
  <2>1. /\ \A m \in 1..k : Append(V, "running")[m] = V[m]
        /\ Append(V, "running")[k + 1] = "running"
    BY <1>2, <1>6
  <2>2. n \in 1..k \/ n = k + 1
    OBVIOUS
  <2> QED BY <1>7, <1>8, <2>1, <2>2
<1>11. W = Append(V, "running")
  BY <1>6, <1>9, <1>10, SeqEqual
<1> QED BY <1>4, <1>5, <1>11 DEF V, W
====
