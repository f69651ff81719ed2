------------------------------ MODULE ChunkQueue ------------------------------
(***************************************************************************)
(* The queues whose jobs read one chunk with one model: embedding, entity, *)
(* event and claim extraction.  Chunks are replaced as a whole while their *)
(* jobs wait or run, and every row about a chunk goes with it (ON DELETE   *)
(* CASCADE), so a worker may come back with a result nobody can use.       *)
(*                                                                         *)
(* One behaviour is that of one queue, for one provider and model; kind    *)
(* says which.  The embedding worker claims and saves a batch, the others  *)
(* one job.                                                                *)
(* Backfills decide what to queue from a page read without locks.          *)
(*                                                                         *)
(* A chunk's text never changes and its id is never used again.  result[c] *)
(* is the number of the attempt that the vector or the extracted rows of c *)
(* come from, NoResult when there are none.  The lock conflicts between a  *)
(* replacement and a finishing worker are not modelled.                    *)
(***************************************************************************)
EXTENDS JobRows, FiniteSets

CONSTANTS
  Workers,         \* worker processes of this queue
  Backfills,       \* callers of queue_backlog
  Chunks,          \* chunk ids
  DocOf,           \* the document of a chunk
  OwnedDocs,       \* documents of an organization's source
  Kinds,           \* "embedding", "entity" and "event" (claims work like events)
  AutoQueue,       \* processing queues new chunks for embedding (a target is set)
  MaxBatch,        \* jobs of one claim of the embedding worker
  RecoveryLimit,   \* how many stale jobs one recovery takes
  MaxDisruptions   \* bound on crashes, missed leases, requeues and retries

ASSUME ConstantsAssumption ==
  /\ Kinds \subseteq {"embedding", "entity", "event"}
  /\ AutoQueue \in BOOLEAN
  /\ MaxBatch \in Nat \ {0}
  /\ RecoveryLimit \in Nat \ {0}
  /\ MaxDisruptions \in Nat

VARIABLES
  kind,            \* the kind of the queue, which never changes
  chunk,           \* "absent", "live" or "gone"
  queued,          \* chunks with a row in the job table
  job,             \* the rows of the job table
  result,          \* the attempt whose result is stored, or NoResult
  attempts,        \* operation_attempts of this queue
  worker,          \* what each worker process knows
  page,            \* what each backfill has read
  disruptions      \* how much of MaxDisruptions is used

vars == <<kind, chunk, queued, job, result, attempts, worker, page, disruptions>>

NoResult == 0
Live(c) == chunk[c] = "live"
Owned(c) == DocOf[c] \in OwnedDocs
HasStatus(c, S) == c \in queued /\ job[c].status \in S
Active == {"pending", "running"}
BatchSize == IF kind = "embedding" THEN MaxBatch ELSE 1
HasResult(c) == result[c] # NoResult

Unclaimed == [c \in Chunks |-> NoToken]
Idle == [pc |-> "idle", claims |-> Unclaimed, needed |-> {}, outcome |-> "none"]
Crashed == [Idle EXCEPT !.pc = "crashed"]
Busy == {"claimed", "loaded", "ran"}

(* The jobs that w claimed and that are still running under its claim. *)
HoldsJob(w, c) ==
  /\ worker[w].claims[c] # NoToken
  /\ c \in queued /\ Holds(job[c], worker[w].claims[c])
Held(w) == {c \in Chunks : HoldsJob(w, c)}

NoPage == [new |-> {}, finished |-> {}]

(* queue_chunks: the chunks that need a new job, or their finished job     *)
(* back.  An embedding counts before the job, for the extractors a done    *)
(* job counts as well, since many chunks have nothing to extract.          *)
Needs(c) ==
  /\ ~HasResult(c)
  /\ ~HasStatus(c, Active)
  /\ kind # "embedding" => ~HasStatus(c, {"completed"})

(* _requeue: the statuses its UPDATE still accepts. *)
Requeueable == IF kind = "event" THEN {"failed"} ELSE {"completed", "failed"}

Disrupt == disruptions < MaxDisruptions /\ disruptions' = disruptions + 1

(* The job table after queueing new and putting finished back. *)
Queue(new, finished) ==
  /\ queued' = queued \cup new
  /\ job' = [c \in Chunks |->
       IF c \in new \ queued THEN NewJob
       ELSE IF c \in finished /\ HasStatus(c, Requeueable) THEN Requeued(job[c])
       ELSE job[c]]
-----------------------------------------------------------------------------

Init ==
  /\ kind \in Kinds
  /\ chunk = [c \in Chunks |-> "absent"]
  /\ queued = {}
  /\ job = [c \in Chunks |-> NewJob]
  /\ result = [c \in Chunks |-> NoResult]
  /\ attempts = {}
  /\ worker = [w \in Workers |-> Idle]
  /\ page = [b \in Backfills |-> NoPage]
  /\ disruptions = 0

(* Mutant: the vectors outlive the chunks they were made from. *)
ReplaceKeepingResults(d, S) ==
  LET old == {c \in Chunks : DocOf[c] = d /\ Live(c)} IN
  /\ old \cup S # {}
  /\ \A c \in S : DocOf[c] = d /\ chunk[c] = "absent"
  /\ chunk' = [c \in Chunks |->
                 IF c \in old THEN "gone" ELSE IF c \in S THEN "live" ELSE chunk[c]]
  /\ queued' = (queued \ old) \cup (IF AutoQueue /\ kind = "embedding" THEN S ELSE {})
  /\ job' = [c \in Chunks |-> IF c \in old THEN NewJob ELSE job[c]]
  /\ UNCHANGED <<kind, result, attempts, worker, page, disruptions>>

(* Processing a document puts the chunks S in the place of its old ones    *)
(* and, with a target, queues them in the same transaction.  Deleting the  *)
(* document cascades in the same way, with nothing new.                    *)
Replace(d, S) ==
  LET old == {c \in Chunks : DocOf[c] = d /\ Live(c)} IN
  /\ old \cup S # {}
  /\ \A c \in S : DocOf[c] = d /\ chunk[c] = "absent"
  /\ chunk' = [c \in Chunks |->
                 IF c \in old THEN "gone" ELSE IF c \in S THEN "live" ELSE chunk[c]]
  /\ queued' = (queued \ old) \cup (IF AutoQueue /\ kind = "embedding" THEN S ELSE {})
  /\ job' = [c \in Chunks |-> IF c \in old THEN NewJob ELSE job[c]]
  /\ result' = [c \in Chunks |-> IF c \in old THEN NoResult ELSE result[c]]
  /\ UNCHANGED <<kind, attempts, worker, page, disruptions>>

(* One page of a backfill: the statuses are read without a lock... *)
ReadPage(b, S) ==
  LET wanted == {c \in S : Needs(c)} IN
  /\ page[b] = NoPage
  /\ wanted # {} /\ \A c \in S : Live(c)
  /\ IF wanted \cap queued # {} THEN Disrupt ELSE UNCHANGED disruptions
  /\ page' = [page EXCEPT ![b] = [new |-> wanted \ queued,
                                  finished |-> wanted \cap queued]]
  /\ UNCHANGED <<kind, chunk, queued, job, result, attempts, worker>>

(* Mutant: the rows are written as they were read. *)
WritePageBlindly(b) ==
  LET p == page[b] IN
  /\ p # NoPage
  /\ \A c \in p.new : Live(c)
  /\ queued' = queued \cup p.new
  /\ job' = [c \in Chunks |->
       IF c \in p.new THEN NewJob
       ELSE IF c \in p.finished \cap queued THEN Requeued(job[c]) ELSE job[c]]
  /\ page' = [page EXCEPT ![b] = NoPage]
  /\ UNCHANGED <<kind, chunk, result, attempts, worker, disruptions>>

(* ... and written by an INSERT that skips rows added meanwhile and an     *)
(* UPDATE that checks the status again.                                    *)
WritePage(b) ==
  /\ page[b] # NoPage
  /\ \A c \in page[b].new : Live(c)
  /\ Queue(page[b].new, page[b].finished)
  /\ page' = [page EXCEPT ![b] = NoPage]
  /\ UNCHANGED <<kind, chunk, result, attempts, worker, disruptions>>

(* A chunk of the page went meanwhile: the foreign key fails the INSERT,   *)
(* and the transaction with all its jobs is rolled back.                   *)
PageRejected(b) ==
  /\ page[b] # NoPage
  /\ \E c \in page[b].new : ~Live(c)
  /\ page' = [page EXCEPT ![b] = NoPage]
  /\ UNCHANGED <<kind, chunk, queued, job, result, attempts, worker, disruptions>>

(* FailedJobRecoveryService.retry holds the row while it asks queue_chunks;*)
(* a chunk that needs no job is a conflict.                                *)
Retry(c) ==
  /\ Owned(c) /\ HasStatus(c, {"failed"}) /\ Needs(c)
  /\ Disrupt
  /\ Queue({}, {c})
  /\ UNCHANGED <<kind, chunk, result, attempts, worker, page>>
-----------------------------------------------------------------------------

(* Before each claim the loop recovers up to RecoveryLimit stale jobs. *)
Recover(w, S) ==
  /\ worker[w].pc = "idle"
  /\ S # {} /\ Cardinality(S) <= RecoveryLimit
  /\ \A c \in S : c \in queued /\ Stale(job[c])
  /\ job' = [c \in Chunks |-> IF c \in S THEN Recovered(job[c]) ELSE job[c]]
  /\ attempts' = FinishAttempts(attempts, S, job, "recovered")
  /\ UNCHANGED <<kind, chunk, queued, result, worker, page, disruptions>>

(* claim_batch or claim_next: each job of the batch gets its own token.    *)
Claim(w, S) ==
  /\ worker[w].pc = "idle"
  /\ S # {} /\ Cardinality(S) <= BatchSize
  /\ \A c \in S : HasStatus(c, {"pending"})
  /\ job' = [c \in Chunks |-> IF c \in S THEN Claimed(job[c]) ELSE job[c]]
  /\ attempts' = UNION {StartAttempt(attempts, Owned(c), c, job'[c].attempt_count) : c \in S}
  /\ worker' = [worker EXCEPT
       ![w] = [Idle EXCEPT !.pc = "claimed",
                 !.claims = [c \in Chunks |->
                               IF c \in S THEN job'[c].lease_token ELSE NoToken]]]
  /\ UNCHANGED <<kind, chunk, queued, result, page, disruptions>>

(* _load: chunks may be gone, and an embedding may be current already.     *)
Load(w) ==
  /\ worker[w].pc = "claimed"
  /\ worker' = [worker EXCEPT ![w].pc = "loaded",
       ![w].needed = {c \in Chunks : /\ worker[w].claims[c] # NoToken
                                     /\ Live(c)
                                     /\ kind = "embedding" => ~HasResult(c)}]
  /\ UNCHANGED <<kind, chunk, queued, job, result, attempts, page, disruptions>>

(* The keeper extends every job still held.  When none is held any more it *)
(* gives up, which changes nothing for a worker that could not save anyway.*)
Heartbeat(w) ==
  /\ worker[w].pc = "loaded" /\ worker[w].needed # {} /\ Held(w) # {}
  /\ job' = [c \in Chunks |-> IF c \in Held(w) THEN Extended(job[c]) ELSE job[c]]
  /\ UNCHANGED <<kind, chunk, queued, result, attempts, worker, page, disruptions>>

(* The model runs outside any transaction, once for the batch: one error   *)
(* is the error of all.  An extractor may also find nothing.               *)
Run(w) ==
  /\ worker[w].pc = "loaded"
  /\ \E outcome \in IF worker[w].needed = {} THEN {"none"}
                    ELSE {"rows", "error"}
                         \cup (IF kind = "embedding" THEN {} ELSE {"nothing"}) :
       worker' = [worker EXCEPT ![w].pc = "ran", ![w].outcome = outcome]
  /\ UNCHANGED <<kind, chunk, queued, job, result, attempts, page, disruptions>>

(* Mutant: whoever comes back saves, whatever the token says. *)
FinishUnfenced(w) ==
  LET mine == {c \in Chunks : worker[w].claims[c] # NoToken /\ HasStatus(c, {"running"})}
      failed == IF worker[w].outcome = "error" THEN mine \cap worker[w].needed ELSE {}
      saved == (mine \cap worker[w].needed) \ failed
  IN
  /\ worker[w].pc = "ran"
  /\ job' = [c \in Chunks |->
       IF c \in failed THEN Finished(job[c], "failed")
       ELSE IF c \in mine THEN Finished(job[c], "completed") ELSE job[c]]
  /\ attempts' = FinishAttempts(FinishAttempts(attempts, failed, job, "failed"),
                                mine \ failed, job, "succeeded")
  /\ result' = [c \in Chunks |-> IF c \in saved THEN worker[w].claims[c] ELSE result[c]]
  /\ worker' = [worker EXCEPT ![w] = Idle]
  /\ UNCHANGED <<kind, chunk, queued, page, disruptions>>

(* _finish: one transaction for the jobs of the batch still held.  What    *)
(* needed no work just completes; the others get the result of the run in  *)
(* place of what an earlier run of the job left, or fail.                  *)
Finish(w) ==
  LET mine == Held(w)
      failed == IF worker[w].outcome = "error" THEN mine \cap worker[w].needed ELSE {}
      saved == (mine \cap worker[w].needed) \ failed
  IN
  /\ worker[w].pc = "ran"
  /\ job' = [c \in Chunks |->
       IF c \in failed THEN Finished(job[c], "failed")
       ELSE IF c \in mine THEN Finished(job[c], "completed") ELSE job[c]]
  /\ attempts' = FinishAttempts(FinishAttempts(attempts, failed, job, "failed"),
                                mine \ failed, job, "succeeded")
  /\ result' = [c \in Chunks |->
       IF c \notin saved THEN result[c]
       ELSE IF worker[w].outcome = "rows" THEN worker[w].claims[c] ELSE NoResult]
  /\ worker' = [worker EXCEPT ![w] = Idle]
  /\ UNCHANGED <<kind, chunk, queued, page, disruptions>>

Crash(w) ==
  /\ worker[w].pc \in Busy
  /\ Disrupt
  /\ worker' = [worker EXCEPT ![w] = Crashed]
  /\ UNCHANGED <<kind, chunk, queued, job, result, attempts, page>>

Restart(w) ==
  /\ worker[w].pc = "crashed"
  /\ worker' = [worker EXCEPT ![w] = Idle]
  /\ UNCHANGED <<kind, chunk, queued, job, result, attempts, page, disruptions>>

KeptAlive(c) == \E w \in Workers : HoldsJob(w, c)

(* Time passes a lease: of a worker that missed its heartbeats, which      *)
(* counts as a disruption, or of one that is no longer there.              *)
LeaseExpires(c) ==
  /\ HasStatus(c, {"running"}) /\ job[c].lease = "live"
  /\ job' = [job EXCEPT ![c] = Expired(@)]
  /\ IF KeptAlive(c) THEN Disrupt ELSE UNCHANGED disruptions
  /\ UNCHANGED <<kind, chunk, queued, result, attempts, worker, page>>
-----------------------------------------------------------------------------

WorkerStep(w) ==
  \/ \E S \in SUBSET Chunks : Recover(w, S) \/ Claim(w, S)
  \/ Load(w)
  \/ Heartbeat(w)
  \/ Run(w)
  \/ Finish(w)
  \/ Crash(w)
  \/ Restart(w)

BackfillStep(b) ==
  \/ \E S \in SUBSET Chunks : ReadPage(b, S)
  \/ WritePage(b)
  \/ PageRejected(b)

Next ==
  \/ \E w \in Workers : WorkerStep(w)
  \/ \E b \in Backfills : BackfillStep(b)
  \/ \E c \in Chunks : Retry(c) \/ LeaseExpires(c)
  \/ \E S \in SUBSET Chunks : \E d \in {DocOf[c] : c \in Chunks} : Replace(d, S)

Spec == Init /\ [][Next]_vars

(* As for the other queues: the loop of a worker keeps taking steps, a     *)
(* process that ended is started again, and a lease nobody extends runs    *)
(* out.  Backfills, replacements, retries and crashes never have to happen.*)
Fairness ==
  /\ \A w \in Workers :
       /\ WF_vars(\E S \in SUBSET Chunks : Recover(w, S))
       /\ WF_vars(\E S \in SUBSET Chunks : Claim(w, S))
       /\ WF_vars(Load(w))
       /\ WF_vars(Run(w))
       /\ WF_vars(Finish(w))
       /\ WF_vars(Restart(w))
  /\ \A c \in Chunks : WF_vars(LeaseExpires(c) /\ ~KeptAlive(c))

FairSpec == Spec /\ Fairness
-----------------------------------------------------------------------------

WorkerState ==
  [pc: {"idle", "crashed"} \cup Busy, claims: [Chunks -> Nat], needed: SUBSET Chunks,
   outcome: {"none", "rows", "nothing", "error"}]

(* The variables hold values of the kinds the tables and workers keep. *)
TypeOK ==
  /\ kind \in Kinds
  /\ chunk \in [Chunks -> {"absent", "live", "gone"}]
  /\ queued \subseteq Chunks
  /\ job \in [Chunks -> JobRow]
  /\ result \in [Chunks -> Nat]
  /\ attempts \subseteq AttemptRows(Chunks)
  /\ worker \in [Workers -> WorkerState]
  /\ page \in [Backfills -> [new: SUBSET Chunks, finished: SUBSET Chunks]]
  /\ disruptions \in 0..MaxDisruptions

(* Nothing is left of a chunk that is gone: neither a job that a backfill  *)
(* decided on while it was there nor the result of a run that began before.*)
NothingOutlivesItsChunk ==
  \A c \in Chunks : c \in queued \/ HasResult(c) => Live(c)

(* A stored result is the work of an attempt that succeeded, so no failed, *)
(* recovered or overtaken run ever left a trace; and a completed embedding *)
(* job has its vector, also when the batch failed around it.               *)
ResultsHaveSucceeded ==
  \A c \in Chunks :
    /\ HasResult(c) /\ Owned(c) =>
         [job |-> c, number |-> result[c], outcome |-> "succeeded"] \in attempts
    /\ kind = "embedding" /\ HasStatus(c, {"completed"}) => HasResult(c)

(* While the chunk lives, its attempts are the history of its job: one for *)
(* each claim, open exactly while that claim runs, although a batch opens  *)
(* and closes several at once and requeues keep the count.                 *)
AttemptsMirrorJobs ==
  \A c \in queued : Owned(c) =>
    \A n \in 1..job[c].attempt_count :
      \E r \in attempts :
        /\ r.job = c /\ r.number = n
        /\ \A s \in attempts : s.job = c /\ s.number = n => s = r
        /\ r.outcome = "running" <=>
             job[c].status = "running" /\ n = job[c].attempt_count

(* Chunks, jobs, attempts and results agree, although a batch changes the  *)
(* rows of several chunks at once.                                         *)
ResultsMatchJobs ==
  TypeOK /\ NothingOutlivesItsChunk /\ ResultsHaveSucceeded /\ AttemptsMirrorJobs

(* A result is only replaced under the claim it was computed for, and in   *)
(* the transaction that completes the job.                                 *)
ResultsComeWithTheJob ==
  [][\A c \in Chunks : result'[c] # result[c] /\ chunk'[c] = "live" =>
       /\ \E w \in Workers : HoldsJob(w, c) /\ worker'[w] = Idle
       /\ job'[c].status = "completed"]_vars

(* A completed job stays completed while its chunk lives, whatever the     *)
(* backfills read earlier: for events and claims, whose UPDATE only takes  *)
(* failed jobs.  A completed embedding or entity job may be put back by a  *)
(* backfill that read it failed.                                           *)
CompletedIsFinal ==
  [][\A c \in queued :
       kind = "event" /\ job[c].status = "completed" /\ c \in queued'
       => job'[c] = job[c]]_vars

(* What is done stays done: results change with their job only, and        *)
(* backfills do not undo them.                                             *)
ResultsStay == ResultsComeWithTheJob /\ CompletedIsFinal

(* Every queued job ends, or goes with its chunk: lost batches, crashes    *)
(* and failed model calls only delay it.                                   *)
EveryJobSettles ==
  \A c \in Chunks : c \in queued ~> ~HasStatus(c, Active)

=============================================================================
