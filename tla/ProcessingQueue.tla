--------------------------- MODULE ProcessingQueue ---------------------------
(***************************************************************************)
(* Document processing: imported files wait as jobs, workers claim them    *)
(* under a lease, parse them outside any transaction, save the result and  *)
(* finish the job; stale jobs are recovered, failed ones retried by an     *)
(* operator, and documents deleted meanwhile.                              *)
(*                                                                         *)
(* Every action is one committed transaction, or one step of a worker      *)
(* between transactions.  Row locks make the transactions on one job       *)
(* atomic; SKIP LOCKED only changes which job is taken next.               *)
(*                                                                         *)
(* text[d] stands for everything one parse writes together: content,       *)
(* content hash, extraction record and chunks (domain/processing/          *)
(* processor.py).  What happens to the chunks is modelled in ChunkQueue.   *)
(***************************************************************************)
EXTENDS JobRows, FiniteSets, Sequences

CONSTANTS
  Workers,         \* worker processes of run-processing-worker
  Docs,            \* documents, each with its one file and its one job
  Texts,           \* what a parse can yield, up to its content hash
  NoText, NoDoc,   \* sentinels: never parsed, no job in hand
  SourceOf,        \* the source of a document
  OwnedSources,    \* sources that belong to an organization
  RecoveryLimit,   \* how many stale jobs one recovery takes
  MaxDisruptions   \* bound on crashes, missed leases and retries together

ASSUME ConstantsAssumption ==
  /\ NoText \notin Texts
  /\ NoDoc \notin Docs
  /\ RecoveryLimit \in Nat \ {0}
  /\ MaxDisruptions \in Nat

VARIABLES
  document,        \* "absent", "stored" or "deleted"; the job exists with it
  job,             \* document_processing_jobs
  attempts,        \* operation_attempts of this queue
  text,            \* the last saved parse of a document
  revisions,       \* document_revisions, oldest first
  worker,          \* what each worker process knows
  disruptions      \* how much of MaxDisruptions is used

vars == <<document, job, attempts, text, revisions, worker, disruptions>>

Owned(d) == SourceOf[d] \in OwnedSources
Stored(d) == document[d] = "stored"

Idle == [pc |-> "idle", doc |-> NoDoc, token |-> NoToken, text |-> NoText, lost |-> FALSE]
Down(how) == [Idle EXCEPT !.pc = how]
Holder(d, token) == [Idle EXCEPT !.pc = "claimed", !.doc = d, !.token = token]
CutOff(x) == [x EXCEPT !.lost = TRUE]
At(x, pc, t) == [x EXCEPT !.pc = pc, !.text = t]

(* The states of a worker that has a claimed job in hand. *)
Busy == {"claimed", "parsed", "saved", "errored"}

(* "worked" for the code: process() returned None or an error message. *)
Worked(w) == worker[w].pc \in {"saved", "errored"}

Working(w, d) == worker[w].pc \in Busy /\ worker[w].doc = d

(* The row of d is running under the claim that w made. *)
HoldsJob(w, d) == Stored(d) /\ Working(w, d) /\ Holds(job[d], worker[w].token)

KeptAlive(d) == \E w \in Workers : HoldsJob(w, d)

Disrupt == disruptions < MaxDisruptions /\ disruptions' = disruptions + 1
-----------------------------------------------------------------------------

Init ==
  /\ document = [d \in Docs |-> "absent"]
  /\ job = [d \in Docs |-> NewJob]
  /\ attempts = {}
  /\ text = [d \in Docs |-> NoText]
  /\ revisions = [d \in Docs |-> <<>>]
  /\ worker = [w \in Workers |-> Idle]
  /\ disruptions = 0

(* FileImportService.import_file: document, asset and job in one commit. *)
Import(d) ==
  /\ document[d] = "absent"
  /\ document' = [document EXCEPT ![d] = "stored"]
  /\ job' = [job EXCEPT ![d] = NewJob]
  /\ UNCHANGED <<attempts, text, revisions, worker, disruptions>>

(* Before each claim the loop recovers up to RecoveryLimit stale jobs. *)
Recover(w, S) ==
  /\ worker[w].pc = "idle"
  /\ S # {} /\ Cardinality(S) <= RecoveryLimit
  /\ \A d \in S : Stored(d) /\ Stale(job[d])
  /\ job' = [d \in Docs |-> IF d \in S THEN Recovered(job[d]) ELSE job[d]]
  /\ attempts' = FinishAttempts(attempts, S, job, "recovered")
  /\ UNCHANGED <<document, text, revisions, worker, disruptions>>

Claim(w, d) ==
  /\ worker[w].pc = "idle"
  /\ Stored(d) /\ job[d].status = "pending"
  /\ job' = [job EXCEPT ![d] = Claimed(@)]
  /\ attempts' = StartAttempt(attempts, Owned(d), d, job'[d].attempt_count)
  /\ worker' = [worker EXCEPT ![w] = Holder(d, job'[d].lease_token)]
  /\ UNCHANGED <<document, text, revisions, disruptions>>

(* The keeper runs beside the work until process() has returned.  An       *)
(* expired lease that nobody recovered yet is extended like a live one.    *)
Heartbeat(w) ==
  LET d == worker[w].doc IN
  /\ worker[w].pc \in {"claimed", "parsed"} /\ ~worker[w].lost
  /\ \/ /\ HoldsJob(w, d)
        /\ job' = [job EXCEPT ![d] = Extended(@)]
        /\ UNCHANGED worker
     \/ /\ ~HoldsJob(w, d)
        /\ worker' = [worker EXCEPT ![w] = CutOff(@)]
        /\ UNCHANGED job
  /\ UNCHANGED <<document, attempts, text, revisions, disruptions>>

(* DocumentProcessor.process up to _save: read the asset and the file,     *)
(* parse and chunk them.  No transaction is open when the text is known.   *)
Parse(w) ==
  /\ worker[w].pc = "claimed"
  /\ \/ /\ Stored(worker[w].doc)
        /\ \E t \in Texts :
             worker' = [worker EXCEPT ![w] = At(@, "parsed", t)]
     \/ worker' = [worker EXCEPT ![w] = At(@, "errored", NoText)]
  /\ UNCHANGED <<document, job, attempts, text, revisions, disruptions>>

(* One source does not store the same content hash twice. *)
SameContentElsewhere(d, t) ==
  \E e \in Docs \ {d} : SourceOf[e] = SourceOf[d] /\ text[e] = t

(* _save locks the document, not the job: the lease plays no part in it. *)
Save(w) ==
  LET d == worker[w].doc
      t == worker[w].text
  IN
  /\ worker[w].pc = "parsed"
  /\ Stored(d) /\ ~SameContentElsewhere(d, t)
  /\ text' = [text EXCEPT ![d] = t]
  /\ revisions' = IF text[d] \in {NoText, t}
                  THEN revisions
                  ELSE [revisions EXCEPT ![d] = Append(@, text[d])]
  /\ worker' = [worker EXCEPT ![w] = At(@, "saved", NoText)]
  /\ UNCHANGED <<document, job, attempts, disruptions>>

(* The document is gone, or the unique index rejects the flush. *)
SaveRejected(w) ==
  LET d == worker[w].doc IN
  /\ worker[w].pc = "parsed"
  /\ ~Stored(d) \/ SameContentElsewhere(d, worker[w].text)
  /\ worker' = [worker EXCEPT ![w] = At(@, "errored", NoText)]
  /\ UNCHANGED <<document, job, attempts, text, revisions, disruptions>>

(* Mutant: the lease token is not compared. *)
FinishUnfenced(w) ==
  LET d == worker[w].doc
      status == IF worker[w].pc = "saved" THEN "completed" ELSE "failed"
  IN
  /\ Worked(w) /\ ~worker[w].lost /\ Stored(d) /\ job[d].status = "running"
  /\ job' = [job EXCEPT ![d] = Finished(@, status)]
  /\ attempts' = FinishAttempts(attempts, {d}, job, Verdict(status))
  /\ worker' = [worker EXCEPT ![w] = Idle]
  /\ UNCHANGED <<document, text, revisions, disruptions>>

(* Mutant: an error counts as done. *)
FinishIgnoringErrors(w) ==
  LET d == worker[w].doc IN
  /\ Worked(w) /\ ~worker[w].lost /\ HoldsJob(w, d)
  /\ job' = [job EXCEPT ![d] = Finished(@, "completed")]
  /\ attempts' = FinishAttempts(attempts, {d}, job, Verdict("completed"))
  /\ worker' = [worker EXCEPT ![w] = Idle]
  /\ UNCHANGED <<document, text, revisions, disruptions>>

(* _mark_completed or _mark_failed by the worker that holds the job. *)
Finish(w) ==
  LET d == worker[w].doc
      status == IF worker[w].pc = "saved" THEN "completed" ELSE "failed"
  IN
  /\ Worked(w) /\ ~worker[w].lost /\ HoldsJob(w, d)
  /\ job' = [job EXCEPT ![d] = Finished(@, status)]
  /\ attempts' = FinishAttempts(attempts, {d}, job, Verdict(status))
  /\ worker' = [worker EXCEPT ![w] = Idle]
  /\ UNCHANGED <<document, text, revisions, disruptions>>

(* Mutant: what the keeper noticed is not looked at. *)
LeaveLostJobByRowOnly(w) ==
  LET d == worker[w].doc IN
  /\ Worked(w)
  /\ Stored(d) /\ ~HoldsJob(w, d)
  /\ worker' = [worker EXCEPT ![w] = Idle]
  /\ UNCHANGED <<document, job, attempts, text, revisions, disruptions>>

(* lease_lost: the keeper noticed, or the locked row says so. *)
LeaveLostJob(w) ==
  LET d == worker[w].doc IN
  /\ Worked(w)
  /\ worker[w].lost \/ (Stored(d) /\ ~HoldsJob(w, d))
  /\ worker' = [worker EXCEPT ![w] = Idle]
  /\ UNCHANGED <<document, job, attempts, text, revisions, disruptions>>

(* The row is gone: _finish raises NotFoundError, which is no              *)
(* JobNotHeldError, so it leaves run_once and ends the loop.               *)
StopOnMissingJob(w) ==
  /\ Worked(w) /\ ~worker[w].lost /\ ~Stored(worker[w].doc)
  /\ worker' = [worker EXCEPT ![w] = Down("stopped")]
  /\ UNCHANGED <<document, job, attempts, text, revisions, disruptions>>

Crash(w) ==
  /\ worker[w].pc \in Busy
  /\ Disrupt
  /\ worker' = [worker EXCEPT ![w] = Down("crashed")]
  /\ UNCHANGED <<document, job, attempts, text, revisions>>

Restart(w) ==
  /\ worker[w].pc \in {"stopped", "crashed"}
  /\ worker' = [worker EXCEPT ![w] = Idle]
  /\ UNCHANGED <<document, job, attempts, text, revisions, disruptions>>

(* Time passes a lease: of a worker that missed its heartbeats, which      *)
(* counts as a disruption, or of one that is no longer there.              *)
LeaseExpires(d) ==
  /\ Stored(d) /\ job[d].status = "running" /\ job[d].lease = "live"
  /\ job' = [job EXCEPT ![d] = Expired(@)]
  /\ IF KeptAlive(d) THEN Disrupt ELSE UNCHANGED disruptions
  /\ UNCHANGED <<document, attempts, text, revisions, worker>>

(* Mutant: a retry that does not look at the status. *)
RetryUnchecked(d) ==
  /\ Owned(d) /\ Stored(d) /\ job[d].status # "running"
  /\ Disrupt
  /\ job' = [job EXCEPT ![d] = Requeued(@)]
  /\ UNCHANGED <<document, attempts, text, revisions, worker>>

(* FailedJobRecoveryService.retry reaches the jobs of an organization. *)
Retry(d) ==
  /\ Owned(d) /\ Stored(d) /\ job[d].status = "failed"
  /\ Disrupt
  /\ job' = [job EXCEPT ![d] = Requeued(@)]
  /\ UNCHANGED <<document, attempts, text, revisions, worker>>

(* DocumentService.delete is refused while the job runs. *)
Delete(d) ==
  /\ Stored(d) /\ job[d].status # "running"
  /\ document' = [document EXCEPT ![d] = "deleted"]
  /\ job' = [job EXCEPT ![d] = NewJob]
  /\ text' = [text EXCEPT ![d] = NoText]
  /\ revisions' = [revisions EXCEPT ![d] = <<>>]
  /\ UNCHANGED <<attempts, worker, disruptions>>

-----------------------------------------------------------------------------

WorkerStep(w) ==
  \/ \E S \in SUBSET Docs : Recover(w, S)
  \/ \E d \in Docs : Claim(w, d)
  \/ Heartbeat(w)
  \/ Parse(w)
  \/ Save(w)
  \/ SaveRejected(w)
  \/ Finish(w)
  \/ LeaveLostJob(w)
  \/ StopOnMissingJob(w)
  \/ Crash(w)
  \/ Restart(w)

Next ==
  \/ \E w \in Workers : WorkerStep(w)
  \/ \E d \in Docs : Import(d) \/ LeaseExpires(d) \/ Retry(d) \/ Delete(d)

Spec == Init /\ [][Next]_vars

(* The loop of a worker keeps taking steps (WorkerLoop polls for ever and  *)
(* a process that ended is started again), and a lease nobody extends runs *)
(* out.  Users, crashes and missed heartbeats are never obliged to happen. *)
Fairness ==
  /\ \A w \in Workers :
       /\ WF_vars(\E S \in SUBSET Docs : Recover(w, S))
       /\ WF_vars(\E d \in Docs : Claim(w, d))
       /\ WF_vars(Parse(w))
       /\ WF_vars(Save(w) \/ SaveRejected(w))
       /\ WF_vars(Finish(w) \/ LeaveLostJob(w) \/ StopOnMissingJob(w))
       /\ WF_vars(Restart(w))
  /\ \A d \in Docs : WF_vars(LeaseExpires(d) /\ ~KeptAlive(d))

FairSpec == Spec /\ Fairness
-----------------------------------------------------------------------------

WorkerState ==
  [pc: {"idle", "stopped", "crashed"} \cup Busy, doc: Docs \cup {NoDoc},
   token: Nat, text: Texts \cup {NoText}, lost: BOOLEAN]

(* The variables hold values of the kinds the tables and workers keep. *)
TypeOK ==
  /\ document \in [Docs -> {"absent", "stored", "deleted"}]
  /\ job \in [Docs -> JobRow]
  /\ attempts \subseteq AttemptRows(Docs)
  /\ text \in [Docs -> Texts \cup {NoText}]
  /\ revisions \in [Docs -> Seq(Texts)]
  /\ worker \in [Workers -> WorkerState]
  /\ \A w \in Workers : worker[w].pc \in Busy => worker[w].doc \in Docs
  /\ disruptions \in 0..MaxDisruptions

(* The columns of a job row agree with its status after any sequence of    *)
(* claims, recoveries, finishes and retries: token and lease exist exactly *)
(* while it runs, finished_at exactly when it is over, last_error exactly  *)
(* when it failed.  A requeue that forgets a column would break it.        *)
RowsConsistent == \A d \in Docs : ConsistentRow(job[d])

(* The operation_attempts rows are the history of an owned job: one row    *)
(* per claim, open exactly while that claim runs, and closed with the      *)
(* verdict the job shows.  The repositories keep this by closing the       *)
(* attempt in the transaction that changes the job, whoever runs it.       *)
AttemptsMirrorJobs ==
  /\ \A r, s \in attempts : r.job = s.job /\ r.number = s.number => r = s
  /\ \A d \in Docs : Owned(d) /\ Stored(d) =>
       \A n \in 1..job[d].attempt_count :
         \E r \in attempts : r.job = d /\ r.number = n
  /\ \A r \in attempts :
       /\ Owned(r.job)
       /\ r.outcome = "running" => Stored(r.job)
       /\ Stored(r.job) =>
            LET row == job[r.job] IN
            /\ r.number \in 1..row.attempt_count
            /\ r.outcome = "running" <=>
                 row.status = "running" /\ r.number = row.attempt_count
            /\ r.number = row.attempt_count =>
                 /\ row.status = "completed" <=> r.outcome = "succeeded"
                 /\ row.status = "failed" => r.outcome = "failed"

(* No two workers hold the same claim, although each only remembers the    *)
(* token of its own claim and jobs are taken over behind its back.         *)
OneHolder ==
  \A v, w \in Workers : \A d \in Docs :
    HoldsJob(v, d) /\ HoldsJob(w, d) => v = w

(* A completed job's document has a parse to show, although the parse is   *)
(* saved in a transaction of its own before the job is finished.           *)
CompletedHasText ==
  \A d \in Docs : Stored(d) /\ job[d].status = "completed" => text[d] # NoText

(* The revisions and the current text, oldest first, are the real history  *)
(* of the document: no revision repeats the state that follows it, however *)
(* many workers, stale ones included, saved the document.                  *)
RevisionsAreChanges ==
  \A d \in Docs :
    LET history == Append(revisions[d], text[d]) IN
    \A i \in 1..Len(revisions[d]) : history[i] # history[i + 1]

(* Jobs, attempts, texts and revisions agree, whoever writes them.         *)
RowsAgree ==
  RowsConsistent /\ AttemptsMirrorJobs /\ CompletedHasText /\ RevisionsAreChanges

(* A worker whose claim is over changes neither the job nor its attempts,  *)
(* whatever it does next: the token fences it off.                         *)
FencedOff ==
  [][\A w \in Workers :
       /\ worker[w].pc \in Busy /\ ~HoldsJob(w, worker[w].doc)
       /\ worker'[w] # worker[w]
       => UNCHANGED <<job, attempts>>]_vars

(* Every imported document's job ends, and stays ended unless an operator  *)
(* retries it: crashes, lost leases and stale workers only delay it.       *)
EveryJobSettles ==
  \A d \in Docs :
    Stored(d) ~> ~Stored(d) \/ job[d].status \in {"completed", "failed"}

(* No worker stays cut off: a stopped or busy worker becomes idle again.   *)
WorkersComeBack == \A w \in Workers : []<>(worker[w].pc = "idle")

(* Nothing waits for ever: neither a job nor a worker.                     *)
NobodyIsStuck == EveryJobSettles /\ WorkersComeBack

=============================================================================
