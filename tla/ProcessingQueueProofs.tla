------------------------ MODULE ProcessingQueueProofs ------------------------
(***************************************************************************)
(* The processing queue for every number of workers, documents and         *)
(* disruptions: first the jobs and who holds them, then what the queue     *)
(* writes beside its jobs (the attempts, the texts and the revisions), and *)
(* last that the queue implements the ClaimLedger.                         *)
(***************************************************************************)
EXTENDS ProcessingLedger, JobRowsProofs

(* What a worker can become is a worker's state, and a busy one has a job. *)
LEMMA IdleWorker == Idle \in WorkerState /\ Idle.pc = "idle"
  BY DEF Idle, WorkerState, NoToken

LEMMA DownWorker ==
  ASSUME NEW how \in {"stopped", "crashed"}
  PROVE  Down(how) \in WorkerState /\ Down(how).pc = how
  BY IdleWorker DEF Down, WorkerState

LEMMA ClaimingWorker ==
  ASSUME NEW d \in Docs, NEW n \in Nat
  PROVE  /\ Holder(d, n) \in WorkerState
         /\ Holder(d, n).pc = "claimed"
         /\ Holder(d, n).doc = d
         /\ Holder(d, n).token = n
  BY IdleWorker DEF Holder, WorkerState, Busy

LEMMA CutOffWorker ==
  ASSUME NEW x \in WorkerState
  PROVE  /\ CutOff(x) \in WorkerState
         /\ CutOff(x).pc = x.pc
         /\ CutOff(x).doc = x.doc
         /\ CutOff(x).token = x.token
  BY DEF CutOff, WorkerState

LEMMA MovedWorker ==
  ASSUME NEW x \in WorkerState, NEW p \in Busy, NEW t \in Texts \cup {NoText}
  PROVE  /\ At(x, p, t) \in WorkerState
         /\ At(x, p, t).pc = p
         /\ At(x, p, t).doc = x.doc
         /\ At(x, p, t).token = x.token
  BY DEF At, WorkerState

(* The conjuncts of TypeOK about workers, when one worker changes. *)
LEMMA WorkerChange ==
  ASSUME TypeOK, NEW w \in Workers, NEW x \in WorkerState,
         x.pc \in Busy => x.doc \in Docs,
         worker' = [worker EXCEPT ![w] = x]
  PROVE  /\ worker' \in [Workers -> WorkerState]
         /\ \A v \in Workers : worker'[v].pc \in Busy => worker'[v].doc \in Docs
  BY DEF TypeOK

(* The conjunct about jobs, when one job changes. *)
LEMMA JobChange ==
  ASSUME TypeOK, NEW d \in Docs, NEW row \in JobRow, job' = [job EXCEPT ![d] = row]
  PROVE  job' \in [Docs -> JobRow]
  BY DEF TypeOK

LEMMA InitType == Init => TypeOK
<1> SUFFICES ASSUME Init PROVE TypeOK
  OBVIOUS
<1>1. job \in [Docs -> JobRow]
  BY RowTypes DEF Init
<1>2. worker \in [Workers -> WorkerState] /\ \A w \in Workers : worker[w].pc \notin Busy
  BY IdleWorker DEF Init, Busy
<1>3. disruptions \in 0..MaxDisruptions
  BY ConstantsAssumption DEF Init
<1> QED BY <1>1, <1>2, <1>3 DEF Init, TypeOK

LEMMA WorkerStepType ==
  ASSUME TypeOK, NEW w \in Workers, WorkerStep(w)
  PROVE  TypeOK'
<1>0. /\ worker[w] \in WorkerState
      /\ \A d \in Docs : job[d] \in JobRow
      /\ worker[w].text \in Texts \cup {NoText}
      /\ worker[w].pc \in Busy => worker[w].doc \in Docs
  BY DEF TypeOK, WorkerState
<1>1. CASE \E S \in SUBSET Docs : Recover(w, S)
  <2>1. PICK S \in SUBSET Docs : Recover(w, S)
    BY <1>1
  <2>2. job' \in [Docs -> JobRow]
    BY <2>1, <1>0, RowTypes DEF Recover
  <2>3. attempts' \in SUBSET AttemptRows(Docs)
    BY <2>1, FinishAttemptsType DEF Recover, Outcomes, TypeOK
  <2> QED BY <2>1, <2>2, <2>3 DEF Recover, TypeOK
<1>2. CASE \E d \in Docs : Claim(w, d)
  <2>1. PICK d \in Docs : Claim(w, d)
    BY <1>2
  <2>2. job' \in [Docs -> JobRow]
    BY <2>1, <1>0, ClaimedType, JobChange DEF Claim
  <2>3. job'[d].attempt_count \in Nat /\ job'[d].lease_token \in Nat
    BY <2>2 DEF JobRow
  <2>4. attempts' \in SUBSET AttemptRows(Docs)
    BY <2>1, <2>3, StartAttemptType DEF Claim, TypeOK
  <2>5. /\ worker' \in [Workers -> WorkerState]
        /\ \A v \in Workers : worker'[v].pc \in Busy => worker'[v].doc \in Docs
    <3> DEFINE x == Holder(d, job'[d].lease_token)
    <3>1. x \in WorkerState /\ x.doc = d
      BY <2>3, ClaimingWorker
    <3>2. worker' = [worker EXCEPT ![w] = x]
      BY <2>1 DEF Claim
    <3> HIDE DEF x
    <3> QED BY <3>1, <3>2, WorkerChange
  <2> QED BY <2>1, <2>2, <2>4, <2>5 DEF Claim, TypeOK
<1>3. CASE Heartbeat(w)
  <2>1. worker[w].doc \in Docs
    BY <1>3, <1>0 DEF Heartbeat, Busy
  <2>2. job' \in [Docs -> JobRow]
    BY <1>3, <2>1, <1>0, RowTypes, JobChange DEF Heartbeat, TypeOK
  <2>3. /\ worker' \in [Workers -> WorkerState]
        /\ \A v \in Workers : worker'[v].pc \in Busy => worker'[v].doc \in Docs
    BY <1>3, <2>1, <1>0, CutOffWorker, WorkerChange DEF Heartbeat, TypeOK
  <2> QED BY <1>3, <2>2, <2>3 DEF Heartbeat, TypeOK
<1>4. CASE Parse(w)
  <2>1. worker[w].doc \in Docs
    BY <1>4, <1>0 DEF Parse, Busy
  <2>2. /\ worker' \in [Workers -> WorkerState]
        /\ \A v \in Workers : worker'[v].pc \in Busy => worker'[v].doc \in Docs
    <3>1. \A t \in Texts \cup {NoText}, p \in Busy :
            At(worker[w], p, t) \in WorkerState /\ At(worker[w], p, t).doc \in Docs
      BY <2>1, <1>0, MovedWorker
    <3>2. PICK t \in Texts \cup {NoText}, p \in Busy :
            worker' = [worker EXCEPT ![w] = At(worker[w], p, t)]
      BY <1>4 DEF Parse, Busy
    <3> QED BY <3>1, <3>2, WorkerChange
  <2> QED BY <1>4, <2>2 DEF Parse, TypeOK
<1>5. CASE Save(w)
  <2>1. worker[w].doc \in Docs
    BY <1>5, <1>0 DEF Save, Busy
  <2>2. text' \in [Docs -> Texts \cup {NoText}]
    BY <1>5, <2>1, <1>0 DEF Save, TypeOK
  <2>3. revisions' \in [Docs -> Seq(Texts)]
    <3>1. CASE text[worker[w].doc] \in {NoText, worker[w].text}
      BY <1>5, <3>1 DEF Save, TypeOK
    <3>2. CASE text[worker[w].doc] \notin {NoText, worker[w].text}
      <4>1. Append(revisions[worker[w].doc], text[worker[w].doc]) \in Seq(Texts)
        BY <2>1, <3>2 DEF TypeOK
      <4> QED BY <1>5, <2>1, <3>2, <4>1 DEF Save, TypeOK
    <3> QED BY <3>1, <3>2
  <2>4. /\ worker' \in [Workers -> WorkerState]
        /\ \A v \in Workers : worker'[v].pc \in Busy => worker'[v].doc \in Docs
    <3> DEFINE x == At(worker[w], "saved", NoText)
    <3>0. "saved" \in Busy
      BY DEF Busy
    <3>1. x \in WorkerState /\ x.doc \in Docs
      BY <2>1, <1>0, <3>0, MovedWorker
    <3>2. worker' = [worker EXCEPT ![w] = x]
      BY <1>5 DEF Save
    <3> HIDE DEF x
    <3> QED BY <3>1, <3>2, WorkerChange
  <2> QED BY <1>5, <2>2, <2>3, <2>4 DEF Save, TypeOK
<1>6. CASE SaveRejected(w)
  <2>1. worker[w].doc \in Docs
    BY <1>6, <1>0 DEF SaveRejected, Busy
  <2>2. /\ worker' \in [Workers -> WorkerState]
        /\ \A v \in Workers : worker'[v].pc \in Busy => worker'[v].doc \in Docs
    <3> DEFINE x == At(worker[w], "errored", NoText)
    <3>0. "errored" \in Busy
      BY DEF Busy
    <3>1. x \in WorkerState /\ x.doc \in Docs
      BY <2>1, <1>0, <3>0, MovedWorker
    <3>2. worker' = [worker EXCEPT ![w] = x]
      BY <1>6 DEF SaveRejected
    <3> HIDE DEF x
    <3> QED BY <3>1, <3>2, WorkerChange
  <2> QED BY <1>6, <2>2 DEF SaveRejected, TypeOK
<1>7. CASE Finish(w)
  <2> DEFINE status == IF worker[w].pc = "saved" THEN "completed" ELSE "failed"
  <2>1. worker[w].doc \in Docs /\ status \in Statuses /\ Verdict(status) \in Outcomes
    BY <1>7, <1>0 DEF Finish, Worked, Busy, Statuses, Verdict, Outcomes
  <2>2. job' \in [Docs -> JobRow]
    BY <1>7, <2>1, <1>0, RowTypes, JobChange DEF Finish
  <2>3. attempts' \in SUBSET AttemptRows(Docs)
    BY <1>7, <2>1, FinishAttemptsType DEF Finish, TypeOK
  <2>4. /\ worker' \in [Workers -> WorkerState]
        /\ \A v \in Workers : worker'[v].pc \in Busy => worker'[v].doc \in Docs
    BY <1>7, IdleWorker, WorkerChange DEF Finish, Busy
  <2> QED BY <1>7, <2>2, <2>3, <2>4 DEF Finish, TypeOK
<1>8. CASE \/ LeaveLostJob(w) \/ StopOnMissingJob(w) \/ Crash(w) \/ Restart(w)
  <2>1. /\ worker' \in [Workers -> WorkerState]
        /\ \A v \in Workers : worker'[v].pc \in Busy => worker'[v].doc \in Docs
    BY <1>8, IdleWorker, DownWorker, WorkerChange
    DEF LeaveLostJob, StopOnMissingJob, Crash, Restart, Busy
  <2>2. disruptions' \in 0..MaxDisruptions
    BY <1>8, ConstantsAssumption
    DEF LeaveLostJob, StopOnMissingJob, Crash, Restart, Disrupt, TypeOK
  <2> QED
    BY <1>8, <2>1, <2>2 DEF LeaveLostJob, StopOnMissingJob, Crash, Restart, TypeOK
<1> QED
  BY <1>1, <1>2, <1>3, <1>4, <1>5, <1>6, <1>7, <1>8 DEF WorkerStep

LEMMA DocStepType ==
  ASSUME TypeOK, NEW d \in Docs,
         Import(d) \/ LeaseExpires(d) \/ Retry(d) \/ Delete(d)
  PROVE  TypeOK'
<1>1. job' \in [Docs -> JobRow]
  BY RowTypes, JobChange DEF Import, LeaseExpires, Retry, Delete, TypeOK
<1>2. disruptions' \in 0..MaxDisruptions
  BY ConstantsAssumption DEF Import, LeaseExpires, Retry, Delete, Disrupt, TypeOK
<1>3. CASE Import(d) \/ LeaseExpires(d) \/ Retry(d)
  BY <1>1, <1>2, <1>3 DEF Import, LeaseExpires, Retry, TypeOK
<1>4. CASE Delete(d)
  <2>1. revisions' \in [Docs -> Seq(Texts)]
    BY <1>4 DEF Delete, TypeOK
  <2> QED BY <1>1, <1>2, <1>4, <2>1 DEF Delete, TypeOK
<1> QED BY <1>3, <1>4

LEMMA NextType == TypeOK /\ [Next]_vars => TypeOK'
<1>1. ASSUME TypeOK, Next PROVE TypeOK'
  BY <1>1, WorkerStepType, DocStepType DEF Next
<1>2. ASSUME TypeOK, UNCHANGED vars PROVE TypeOK'
  BY <1>2 DEF TypeOK, vars
<1> QED BY <1>1, <1>2

(* The tables and the workers keep the kinds of values TypeOK lists. *)
THEOREM TypeCorrect == Spec => []TypeOK
  BY InitType, NextType, PTL DEF Spec

-----------------------------------------------------------------------------

LEMMA StepRows ==
  ASSUME TypeOK, RowsConsistent, Next
  PROVE  RowsConsistent'
<1>0. \A d \in Docs : job[d] \in JobRow /\ ConsistentRow(job[d])
  BY DEF TypeOK, RowsConsistent
<1>t. job \in [Docs -> JobRow]
  BY DEF TypeOK
<1> SUFFICES ASSUME NEW e \in Docs PROVE ConsistentRow(job[e])'
  BY DEF RowsConsistent
<1>1. ASSUME NEW w \in Workers, NEW S \in SUBSET Docs, Recover(w, S)
      PROVE  ConsistentRow(job[e])'
  <2>1. e \in S => job[e].status = "running"
    BY <1>1 DEF Recover, Stale
  <2>2. job'[e] \in {job[e], Recovered(job[e])} /\ (e \notin S => job'[e] = job[e])
    BY <1>1 DEF Recover
  <2> QED BY <2>1, <2>2, <1>0, RowConsistency
<1>2. ASSUME NEW w \in Workers, NEW d \in Docs, Claim(w, d)
      PROVE  ConsistentRow(job[e])'
  <2>1. job[d].status = "pending" /\ job' = [job EXCEPT ![d] = Claimed(job[d])]
    BY <1>2 DEF Claim
  <2> QED BY <2>1, <1>0, <1>t, RowConsistency
<1>3. ASSUME NEW w \in Workers, Heartbeat(w)
      PROVE  ConsistentRow(job[e])'
  <2> DEFINE d == worker[w].doc
  <2>1. d \in Docs
    BY <1>3 DEF Heartbeat, Busy, TypeOK
  <2>2. \/ job' = job
        \/ job[d].status = "running" /\ job' = [job EXCEPT ![d] = Extended(job[d])]
    BY <1>3 DEF Heartbeat, HoldsJob, Holds
  <2> HIDE DEF d
  <2> QED BY <2>1, <2>2, <1>0, <1>t, RowConsistency
<1>4. ASSUME NEW w \in Workers, Finish(w)
      PROVE  ConsistentRow(job[e])'
  <2> DEFINE d == worker[w].doc
  <2>1. d \in Docs
    BY <1>4 DEF Finish, Worked, Busy, TypeOK
  <2>2. PICK status \in {"completed", "failed"} :
          job' = [job EXCEPT ![d] = Finished(job[d], status)]
    BY <1>4 DEF Finish
  <2> HIDE DEF d
  <2> QED BY <2>1, <2>2, <1>0, <1>t, RowConsistency
<1>5. ASSUME NEW w \in Workers,
             \/ Parse(w) \/ Save(w) \/ SaveRejected(w) \/ LeaveLostJob(w)
             \/ StopOnMissingJob(w) \/ Crash(w) \/ Restart(w)
      PROVE  ConsistentRow(job[e])'
  <2>1. job' = job
    BY <1>5
    DEF Parse, Save, SaveRejected, LeaveLostJob, StopOnMissingJob, Crash, Restart
  <2> QED BY <2>1, <1>0
<1>6. ASSUME NEW d \in Docs, Import(d) \/ Delete(d)
      PROVE  ConsistentRow(job[e])'
  <2>1. job' = [job EXCEPT ![d] = NewJob]
    BY <1>6 DEF Import, Delete
  <2> QED BY <2>1, <1>0, <1>t, RowConsistency
<1>7. ASSUME NEW d \in Docs, LeaseExpires(d)
      PROVE  ConsistentRow(job[e])'
  <2>1. job[d].status = "running" /\ job' = [job EXCEPT ![d] = Expired(job[d])]
    BY <1>7 DEF LeaseExpires
  <2> QED BY <2>1, <1>0, <1>t, RowConsistency
<1>8. ASSUME NEW d \in Docs, Retry(d)
      PROVE  ConsistentRow(job[e])'
  <2>1. job' = [job EXCEPT ![d] = Requeued(job[d])]
    BY <1>8 DEF Retry
  <2> QED BY <2>1, <1>0, <1>t, RowConsistency
<1> QED
  BY <1>1, <1>2, <1>3, <1>4, <1>5, <1>6, <1>7, <1>8 DEF Next, WorkerStep

(* The columns of a job row always tell one story, whatever claims,        *)
(* recoveries, finishes, retries and deletions led to it.                  *)
THEOREM RowsStayConsistent == Spec => []RowsConsistent
<1>1. Init => RowsConsistent
  BY DEF Init, RowsConsistent, ConsistentRow, NewJob
<1>2. TypeOK /\ RowsConsistent /\ [Next]_vars => RowsConsistent'
  <2>1. ASSUME RowsConsistent, UNCHANGED vars PROVE RowsConsistent'
    BY <2>1 DEF RowsConsistent, vars
  <2> QED BY <2>1, StepRows
<1> QED BY <1>1, <1>2, TypeCorrect, PTL DEF Spec

-----------------------------------------------------------------------------

(* Why tokens tell claims apart.  OneHolder is not inductive: it says      *)
(* nothing of stale workers, and a new claim could draw a token one of     *)
(* them still remembers.  It cannot, because no remembered token exceeds   *)
(* the claim count of its job.                                             *)
ClaimsApart ==
  /\ \A w \in Workers, d \in Docs :
       Working(w, d) => /\ document[d] # "absent"
                        /\ Stored(d) => worker[w].token <= job[d].attempt_count
  /\ \A v, w \in Workers, d \in Docs :
       Working(v, d) /\ Working(w, d) /\ worker[v].token = worker[w].token => v = w

(* Every step but a claim starts no work, forgets no document and lowers   *)
(* no claim count, and such a step keeps the claims apart.                 *)
LEMMA ClaimsKept ==
  ASSUME TypeOK, TypeOK', ClaimsApart,
         \A w \in Workers : worker'[w].pc \in Busy =>
           /\ worker[w].pc \in Busy
           /\ worker'[w].doc = worker[w].doc
           /\ worker'[w].token = worker[w].token,
         \A d \in Docs :
           /\ document[d] # "absent" => document'[d] # "absent"
           /\ document'[d] = "stored" =>
                \/ document[d] = "absent"
                \/ document[d] = "stored" /\ job'[d].attempt_count >= job[d].attempt_count
  PROVE  ClaimsApart'
<1>1. \A w \in Workers, d \in Docs : Working(w, d)' =>
        Working(w, d) /\ worker'[w].token = worker[w].token
  BY DEF Working
<1>2. \A w \in Workers : worker[w].token \in Nat
  BY DEF TypeOK, WorkerState
<1>3. \A d \in Docs : job[d].attempt_count \in Nat /\ job'[d].attempt_count \in Nat
  BY DEF TypeOK, JobRow
<1>4. ASSUME NEW w \in Workers, NEW d \in Docs, Working(w, d)'
      PROVE  /\ document'[d] # "absent"
             /\ Stored(d)' => worker'[w].token <= job'[d].attempt_count
  BY <1>1, <1>2, <1>3, <1>4 DEF ClaimsApart, Stored
<1>5. ASSUME NEW v \in Workers, NEW w \in Workers, NEW d \in Docs,
             Working(v, d)', Working(w, d)', worker'[v].token = worker'[w].token
      PROVE  v = w
  BY <1>1, <1>5 DEF ClaimsApart
<1> QED BY <1>4, <1>5 DEF ClaimsApart

(* A claim counts one up, so its token is above every remembered one. *)
LEMMA ClaimsByClaim ==
  ASSUME TypeOK, ClaimsApart, NEW w \in Workers, NEW d \in Docs, Claim(w, d)
  PROVE  ClaimsApart'
<1> DEFINE n == job[d].attempt_count + 1
<1>1. /\ n \in Nat
      /\ job' = [job EXCEPT ![d] = Claimed(job[d])]
      /\ job'[d].attempt_count = n /\ job'[d].lease_token = n
      /\ \A e \in Docs \ {d} : job'[e] = job[e]
  BY ClaimedType DEF Claim, TypeOK
<1>2. /\ worker' = [worker EXCEPT ![w] = Holder(d, n)]
      /\ document' = document /\ document[d] = "stored"
  BY <1>1 DEF Claim, Stored
<1>3. /\ Holder(d, n).doc = d /\ Holder(d, n).token = n
  BY <1>1, ClaimingWorker
<1>4. /\ worker'[w].doc = d /\ worker'[w].token = n
      /\ \A v \in Workers \ {w} : worker'[v] = worker[v]
  BY <1>2, <1>3 DEF TypeOK
<1>5. \A v \in Workers : worker[v].token \in Nat
  BY DEF TypeOK, WorkerState
<1>6. \A e \in Docs : job[e].attempt_count \in Nat
  BY DEF TypeOK, JobRow
<1> HIDE DEF n
<1>7. ASSUME NEW v \in Workers, NEW e \in Docs, Working(v, e)'
      PROVE  /\ document'[e] # "absent"
             /\ Stored(e)' => worker'[v].token <= job'[e].attempt_count
  <2>1. CASE v = w
    BY <1>1, <1>2, <1>4, <1>7, <2>1 DEF Working
  <2>2. CASE v # w
    <3>1. Working(v, e)
      BY <1>4, <1>7, <2>2 DEF Working
    <3>2. CASE e = d
      BY <1>1, <1>2, <1>4, <1>5, <1>6, <2>2, <3>1, <3>2 DEF ClaimsApart, Stored, n
    <3>3. CASE e # d
      BY <1>1, <1>2, <1>4, <2>2, <3>1, <3>3 DEF ClaimsApart, Stored
    <3> QED BY <3>2, <3>3
  <2> QED BY <2>1, <2>2
<1>8. ASSUME NEW v \in Workers \ {w}, Working(v, d)
      PROVE  worker[v].token # n
  BY <1>2, <1>5, <1>6, <1>8 DEF ClaimsApart, Stored, n
<1>9. ASSUME NEW u \in Workers, NEW v \in Workers, NEW e \in Docs,
             Working(u, e)', Working(v, e)', worker'[u].token = worker'[v].token
      PROVE  u = v
  BY <1>4, <1>8, <1>9 DEF Working, ClaimsApart
<1> QED BY <1>7, <1>9 DEF ClaimsApart

LEMMA StepClaims ==
  ASSUME TypeOK, TypeOK', ClaimsApart, Next
  PROVE  ClaimsApart'
<1>0. /\ \A d \in Docs : job[d] \in JobRow /\ job[d].attempt_count \in Nat
      /\ \A w \in Workers : worker[w] \in WorkerState
      /\ job \in [Docs -> JobRow] /\ worker \in [Workers -> WorkerState]
  BY DEF TypeOK, JobRow
<1>1. ASSUME NEW w \in Workers, NEW S \in SUBSET Docs, Recover(w, S)
      PROVE  ClaimsApart'
  <2>1. \A d \in Docs : job'[d].attempt_count = job[d].attempt_count
    BY <1>0, <1>1, RowClaims DEF Recover
  <2> QED BY <1>0, <1>1, <2>1, ClaimsKept DEF Recover, Stored, TypeOK
<1>2. ASSUME NEW w \in Workers, NEW d \in Docs, Claim(w, d)
      PROVE  ClaimsApart'
  BY <1>2, ClaimsByClaim
<1>3. ASSUME NEW w \in Workers, Heartbeat(w)
      PROVE  ClaimsApart'
  <2>1. worker[w].doc \in Docs
    BY <1>3 DEF Heartbeat, Busy, TypeOK
  <2>2. \A d \in Docs : job'[d].attempt_count = job[d].attempt_count
    BY <1>0, <1>3, <2>1, RowClaims DEF Heartbeat
  <2>3. \A v \in Workers : /\ worker'[v].pc = worker[v].pc
                           /\ worker'[v].doc = worker[v].doc
                           /\ worker'[v].token = worker[v].token
    BY <1>0, <1>3, CutOffWorker DEF Heartbeat
  <2>4. document' = document
    BY <1>3 DEF Heartbeat
  <2> QED BY <1>0, <2>2, <2>3, <2>4, ClaimsKept
<1>4. ASSUME NEW w \in Workers, Parse(w) \/ Save(w) \/ SaveRejected(w)
      PROVE  ClaimsApart'
  <2>1. PICK p \in Busy, t \in Texts \cup {NoText} :
          worker' = [worker EXCEPT ![w] = At(worker[w], p, t)]
    BY <1>4 DEF Parse, Save, SaveRejected, Busy
  <2>2. worker[w].pc \in Busy
    BY <1>4 DEF Parse, Save, SaveRejected, Busy
  <2>3. At(worker[w], p, t).doc = worker[w].doc /\ At(worker[w], p, t).token = worker[w].token
    BY <1>0, MovedWorker
  <2>4. document' = document /\ job' = job
    BY <1>4 DEF Parse, Save, SaveRejected
  <2> QED BY <1>0, <2>1, <2>2, <2>3, <2>4, ClaimsKept
<1>5. ASSUME NEW w \in Workers,
             LeaveLostJob(w) \/ StopOnMissingJob(w) \/ Crash(w) \/ Restart(w)
      PROVE  ClaimsApart'
  <2>1. PICK x : worker' = [worker EXCEPT ![w] = x] /\ x.pc \notin Busy
    BY <1>5, IdleWorker, DownWorker
    DEF LeaveLostJob, StopOnMissingJob, Crash, Restart, Busy
  <2>2. document' = document /\ job' = job
    BY <1>5 DEF LeaveLostJob, StopOnMissingJob, Crash, Restart
  <2> QED BY <1>0, <2>1, <2>2, ClaimsKept
<1>6. ASSUME NEW w \in Workers, Finish(w)
      PROVE  ClaimsApart'
  <2>1. worker[w].doc \in Docs
    BY <1>6 DEF Finish, Worked, Busy, TypeOK
  <2>2. PICK status \in Statuses :
          job' = [job EXCEPT ![worker[w].doc] = Finished(job[worker[w].doc], status)]
    BY <1>6 DEF Finish, Statuses
  <2>3. \A d \in Docs : job'[d].attempt_count = job[d].attempt_count
    BY <1>0, <2>1, <2>2, RowClaims
  <2>4. document' = document /\ worker' = [worker EXCEPT ![w] = Idle]
    BY <1>6 DEF Finish
  <2> QED BY <1>0, <2>3, <2>4, IdleWorker, ClaimsKept DEF Busy
<1>7. ASSUME NEW d \in Docs, LeaseExpires(d) \/ Retry(d)
      PROVE  ClaimsApart'
  <2>1. \A e \in Docs : job'[e].attempt_count = job[e].attempt_count
    BY <1>0, <1>7, RowClaims DEF LeaseExpires, Retry
  <2>2. document' = document /\ worker' = worker
    BY <1>7 DEF LeaseExpires, Retry
  <2> QED BY <1>0, <2>1, <2>2, ClaimsKept
<1>8. ASSUME NEW d \in Docs, Import(d) \/ Delete(d)
      PROVE  ClaimsApart'
  <2>1. /\ worker' = worker
        /\ \A e \in Docs \ {d} : document'[e] = document[e] /\ job'[e] = job[e]
        /\ document[d] # "absent" => document'[d] = "deleted"
        /\ document'[d] # "absent"
    BY <1>8 DEF Import, Delete, Stored, TypeOK
  <2> QED BY <1>0, <2>1, ClaimsKept
<1> QED
  BY <1>1, <1>2, <1>3, <1>4, <1>5, <1>6, <1>7, <1>8 DEF Next, WorkerStep

LEMMA ClaimsStayApart == Spec => []ClaimsApart
<1>1. Init => ClaimsApart
  BY IdleWorker DEF Init, ClaimsApart, Working, Busy
<1>2. TypeOK /\ TypeOK' /\ ClaimsApart /\ [Next]_vars => ClaimsApart'
  <2>1. ASSUME ClaimsApart, UNCHANGED vars PROVE ClaimsApart'
    BY <2>1 DEF ClaimsApart, Working, Stored, vars
  <2> QED BY <2>1, StepClaims
<1> QED BY <1>1, <1>2, TypeCorrect, PTL DEF Spec

(* At most one worker holds a job: the lease is exclusive whoever crashed, *)
(* stalled, recovered or claimed before.                                   *)
THEOREM HoldersAreUnique == Spec => []OneHolder
<1>1. ClaimsApart => OneHolder
  BY DEF ClaimsApart, OneHolder, HoldsJob, Holds
<1> QED BY <1>1, ClaimsStayApart, PTL

(* A step in which a worker without its job moves is its own step, and it  *)
(* changes neither jobs nor attempts: no stale worker finishes, extends or *)
(* fails a job that was taken over, retried or deleted behind its back.    *)
THEOREM StaleWorkersAreFenced == Spec => FencedOff
<1>1. ASSUME TypeOK, Next, NEW w \in Workers,
             worker[w].pc \in Busy, ~HoldsJob(w, worker[w].doc), worker'[w] # worker[w]
      PROVE  UNCHANGED <<job, attempts>>
  <2>1. PICK v \in Workers : WorkerStep(v)
    BY <1>1 DEF Next, Import, LeaseExpires, Retry, Delete
  <2>2. CASE v = w
    BY <1>1, <2>1, <2>2
    DEF WorkerStep, Recover, Claim, Heartbeat, Parse, Save, SaveRejected, Finish,
        LeaveLostJob, StopOnMissingJob, Crash, Restart, Busy
  <2>3. CASE v # w
    <3>1. worker'[w] = worker[w]
      BY <1>1, <2>1, <2>3
      DEF WorkerStep, Recover, Claim, Heartbeat, Parse, Save, SaveRejected, Finish,
          LeaveLostJob, StopOnMissingJob, Crash, Restart, TypeOK
    <3> QED BY <1>1, <3>1
  <2> QED BY <2>2, <2>3
<1>2. TypeOK /\ [Next]_vars =>
        [\A w \in Workers :
           /\ worker[w].pc \in Busy /\ ~HoldsJob(w, worker[w].doc)
           /\ worker'[w] # worker[w]
           => UNCHANGED <<job, attempts>>]_vars
  BY <1>1
<1> QED BY <1>2, TypeCorrect, PTL DEF Spec, FencedOff

-----------------------------------------------------------------------------
(* Attempts, texts and revisions. *)

(* AttemptsMirrorJobs in three parts, the last for one attempt at a time;  *)
(* a job has no attempts before its document is imported.                  *)
NumberedOnce == \A r, s \in attempts : r.job = s.job /\ r.number = s.number => r = s

EveryClaimRecorded ==
  \A d \in Docs : Owned(d) /\ Stored(d) =>
    \A n \in 1..job[d].attempt_count :
      \E r \in attempts : r.job = d /\ r.number = n

Mirrors(r) ==
  LET row == job[r.job] IN
  /\ Owned(r.job) /\ document[r.job] # "absent"
  /\ r.outcome = "running" => Stored(r.job)
  /\ Stored(r.job) =>
       /\ r.number \in 1..row.attempt_count
       /\ r.outcome = "running" <=>
            row.status = "running" /\ r.number = row.attempt_count
       /\ r.number = row.attempt_count =>
            /\ row.status = "completed" <=> r.outcome = "succeeded"
            /\ row.status = "failed" => r.outcome = "failed"

AttemptsInv ==
  /\ NumberedOnce
  /\ EveryClaimRecorded
  /\ \A r \in attempts : Mirrors(r)

LEMMA AttemptsInvImplies == AttemptsInv => AttemptsMirrorJobs
  BY DEF AttemptsInv, NumberedOnce, EveryClaimRecorded, Mirrors, AttemptsMirrorJobs

(* Jobs of S end, or go back to the queue, with the verdict their status   *)
(* shows: recoveries and finishes.                                         *)
LEMMA EndingKeepsAttempts ==
  ASSUME TypeOK, TypeOK', AttemptsInv, NEW S \in SUBSET Docs,
         NEW status \in {"pending", "completed", "failed"}, NEW o \in Outcomes,
         o = (IF status = "pending" THEN "recovered" ELSE Verdict(status)),
         document' = document,
         \A d \in Docs : job'[d].attempt_count = job[d].attempt_count,
         \A d \in Docs \ S : job'[d].status = job[d].status,
         \A d \in S : Stored(d) /\ job[d].status = "running" /\ job'[d].status = status,
         attempts' = FinishAttempts(attempts, S, job, o)
  PROVE  AttemptsInv'
<1>0. attempts \in SUBSET AttemptRows(Docs) /\ attempts' \in SUBSET AttemptRows(Docs)
  BY DEF TypeOK
<1>1. \A q \in attempts' : \E r \in attempts :
        /\ q.job = r.job /\ q.number = r.number
        /\ IF /\ r.job \in S /\ r.number = job[r.job].attempt_count
              /\ r.outcome = "running"
           THEN q.outcome = o
           ELSE q.outcome = r.outcome
  BY <1>0, FinishedRows
<1>2. \A r \in attempts : \E q \in attempts' : q.job = r.job /\ q.number = r.number
  BY <1>0, FinishedRows
<1>3. NumberedOnce'
  <2> SUFFICES ASSUME NEW p \in attempts', NEW q \in attempts',
                      p.job = q.job, p.number = q.number
               PROVE  p = q
    BY DEF NumberedOnce
  <2>1. p.outcome = q.outcome
    BY <1>1 DEF AttemptsInv, NumberedOnce
  <2> QED BY <1>0, <2>1, RowIsItsColumns
<1>4. EveryClaimRecorded'
  BY <1>2 DEF AttemptsInv, EveryClaimRecorded, Stored
<1>5. ASSUME NEW q \in attempts' PROVE Mirrors(q)'
  <2>1. PICK r \in attempts :
        /\ q.job = r.job /\ q.number = r.number
        /\ IF /\ r.job \in S /\ r.number = job[r.job].attempt_count
              /\ r.outcome = "running"
           THEN q.outcome = o
           ELSE q.outcome = r.outcome
    BY <1>1
  <2>2. Mirrors(r) /\ r.job \in Docs /\ r.number \in Nat
    BY <1>0 DEF AttemptsInv, AttemptRows
  <2>3. CASE r.job \in S
    <3>1. CASE r.number = job[r.job].attempt_count
      BY <2>1, <2>2, <2>3, <3>1 DEF Mirrors, Stored, Verdict
    <3>2. CASE r.number # job[r.job].attempt_count
      BY <2>1, <2>2, <2>3, <3>2 DEF Mirrors, Stored
    <3> QED BY <3>1, <3>2
  <2>4. CASE r.job \notin S
    BY <2>1, <2>2, <2>4 DEF Mirrors, Stored
  <2> QED BY <2>3, <2>4
<1> QED BY <1>3, <1>4, <1>5 DEF AttemptsInv

(* A claim opens the attempt with the next number. *)
LEMMA ClaimKeepsAttempts ==
  ASSUME TypeOK, TypeOK', AttemptsInv, NEW w \in Workers, NEW d \in Docs, Claim(w, d)
  PROVE  AttemptsInv'
<1> DEFINE n == job[d].attempt_count + 1
           new == [job |-> d, number |-> n, outcome |-> "running"]
<1>0. attempts \in SUBSET AttemptRows(Docs) /\ attempts' \in SUBSET AttemptRows(Docs)
  BY DEF TypeOK
<1>1. /\ n \in Nat /\ job[d].attempt_count \in Nat
      /\ job'[d].attempt_count = n /\ job'[d].status = "running"
      /\ \A e \in Docs \ {d} : job'[e] = job[e]
  BY ClaimedType DEF Claim, TypeOK
<1>2. /\ document' = document /\ document[d] = "stored" /\ job[d].status = "pending"
      /\ attempts' = IF Owned(d) THEN attempts \cup {new} ELSE attempts
  BY <1>1 DEF Claim, Stored, StartAttempt
<1>3. \A r \in attempts : r.job = d =>
        r.number # n /\ r.number \in Nat /\ r.number <= job[d].attempt_count
  BY <1>0, <1>1, <1>2 DEF AttemptsInv, Mirrors, Stored, AttemptRows
<1>4. new.job = d /\ new.number = n /\ new.outcome = "running"
  OBVIOUS
<1>5. \A r \in attempts : r.job \in Docs /\ r.number \in Nat
  BY <1>0 DEF AttemptRows
<1>6. \A e \in Docs : job[e].attempt_count \in Nat
  BY DEF TypeOK, JobRow
<1> HIDE DEF n, new
<1>7. NumberedOnce'
  BY <1>2, <1>3, <1>4 DEF AttemptsInv, NumberedOnce
<1>8. EveryClaimRecorded'
  <2> SUFFICES ASSUME NEW e \in Docs, Owned(e), Stored(e)',
                      NEW m \in 1..job'[e].attempt_count
               PROVE  \E r \in attempts' : r.job = e /\ r.number = m
    BY DEF EveryClaimRecorded, Owned
  <2>1. CASE e = d /\ m = n
    BY <1>2, <1>4, <2>1
  <2>2. CASE ~(e = d /\ m = n)
    <3>1. Stored(e) /\ m \in 1..job[e].attempt_count
      BY <1>1, <1>2, <2>2 DEF Stored, n
    <3>2. attempts \subseteq attempts'
      BY <1>2
    <3> QED BY <3>1, <3>2 DEF AttemptsInv, EveryClaimRecorded
  <2> QED BY <2>1, <2>2
<1>9. ASSUME NEW r \in attempts' PROVE Mirrors(r)'
  <2>1. CASE r \in attempts
    <3>1. Mirrors(r)
      BY <2>1 DEF AttemptsInv
    <3>2. CASE r.job = d
      <4>1. r.outcome # "running" /\ r.number \in 1..n /\ r.number # n
        BY <1>1, <1>2, <1>3, <2>1, <3>1, <3>2 DEF Mirrors, Stored, n
      <4> QED BY <1>1, <1>2, <3>1, <3>2, <4>1 DEF Mirrors, Stored
    <3>3. CASE r.job # d
      BY <1>1, <1>2, <1>5, <2>1, <3>1, <3>3 DEF Mirrors, Stored
    <3> QED BY <3>2, <3>3
  <2>2. CASE r \notin attempts
    <3>1. r = new /\ Owned(d)
      BY <1>2, <2>2
    <3>2. n \in 1..n
      BY <1>1 DEF n
    <3> QED BY <1>1, <1>2, <1>4, <3>1, <3>2 DEF Mirrors, Stored
  <2> QED BY <2>1, <2>2
<1> QED BY <1>7, <1>8, <1>9 DEF AttemptsInv

(* Steps that write no attempt: the rows still fit when neither the claim  *)
(* count nor what the attempts show of the status changes.                 *)
LEMMA OtherStepsKeepAttempts ==
  ASSUME TypeOK, AttemptsInv, attempts' = attempts,
         \A d \in Docs :
           \/ /\ document'[d] = document[d]
              /\ job'[d].attempt_count = job[d].attempt_count
              /\ \/ job'[d].status = job[d].status
                 \/ job[d].status = "failed" /\ job'[d].status = "pending"
           \/ document[d] = "absent" /\ job'[d].attempt_count = 0
           \/ /\ Stored(d) /\ job[d].status # "running"
              /\ document'[d] = "deleted"
  PROVE  AttemptsInv'
<1>1. attempts \in SUBSET AttemptRows(Docs)
  BY DEF TypeOK
<1>2. NumberedOnce'
  BY DEF AttemptsInv, NumberedOnce
<1>3. EveryClaimRecorded'
  <2> SUFFICES ASSUME NEW e \in Docs, Owned(e), Stored(e)',
                      NEW m \in 1..job'[e].attempt_count
               PROVE  \E r \in attempts : r.job = e /\ r.number = m
    BY DEF EveryClaimRecorded, Owned
  <2>1. Stored(e) /\ m \in 1..job[e].attempt_count
    BY DEF Stored
  <2> QED BY <2>1 DEF AttemptsInv, EveryClaimRecorded
<1>4. ASSUME NEW r \in attempts PROVE Mirrors(r)'
  <2>1. Mirrors(r) /\ r.job \in Docs
    BY <1>1 DEF AttemptsInv, AttemptRows
  <2>2. Stored(r.job)' => Stored(r.job)
    BY <2>1 DEF Mirrors, Stored
  <2>3. document'[r.job] # "absent"
    BY <2>1 DEF Mirrors, Stored
  <2>4. r.outcome = "running" => Stored(r.job)'
    BY <2>1 DEF Mirrors, Stored
  <2>5. CASE Stored(r.job)'
    BY <2>1, <2>2, <2>3, <2>5 DEF Mirrors, Stored
  <2>6. CASE ~Stored(r.job)'
    BY <2>1, <2>3, <2>4, <2>6 DEF Mirrors
  <2> QED BY <2>5, <2>6
<1> QED BY <1>2, <1>3, <1>4 DEF AttemptsInv

LEMMA StepAttempts ==
  ASSUME TypeOK, TypeOK', AttemptsInv, Next
  PROVE  AttemptsInv'
<1>0. /\ \A d \in Docs : job[d] \in JobRow
      /\ job \in [Docs -> JobRow] /\ document \in [Docs -> {"absent", "stored", "deleted"}]
  BY DEF TypeOK
<1>1. ASSUME NEW w \in Workers, NEW S \in SUBSET Docs, Recover(w, S)
      PROVE  AttemptsInv'
  <2>1. /\ \A d \in Docs : job'[d].attempt_count = job[d].attempt_count
        /\ \A d \in Docs \ S : job'[d].status = job[d].status
        /\ \A d \in S : Stored(d) /\ job[d].status = "running" /\ job'[d].status = "pending"
    BY <1>0, <1>1, RowClaims DEF Recover, Stale
  <2>2. document' = document /\ attempts' = FinishAttempts(attempts, S, job, "recovered")
    BY <1>1 DEF Recover
  <2>3. "recovered" \in Outcomes
    BY DEF Outcomes
  <2> QED BY <2>1, <2>2, <2>3, EndingKeepsAttempts
<1>2. ASSUME NEW w \in Workers, NEW d \in Docs, Claim(w, d)
      PROVE  AttemptsInv'
  BY <1>2, ClaimKeepsAttempts
<1>3. ASSUME NEW w \in Workers, Finish(w)
      PROVE  AttemptsInv'
  <2> DEFINE d == worker[w].doc
  <2>1. d \in Docs /\ Stored(d) /\ job[d].status = "running"
    BY <1>3 DEF Finish, Worked, Busy, TypeOK, HoldsJob, Holds
  <2>2. PICK status \in {"completed", "failed"} :
          /\ job' = [job EXCEPT ![d] = Finished(job[d], status)]
          /\ attempts' = FinishAttempts(attempts, {d}, job, Verdict(status))
    BY <1>3 DEF Finish
  <2>3. document' = document
    BY <1>3 DEF Finish
  <2>4. status \in Statuses /\ Verdict(status) \in Outcomes /\ status # "pending"
    BY DEF Statuses, Verdict, Outcomes
  <2> HIDE DEF d
  <2>5. /\ \A e \in Docs : job'[e].attempt_count = job[e].attempt_count
        /\ \A e \in Docs \ {d} : job'[e].status = job[e].status
        /\ job'[d].status = status
    BY <1>0, <2>1, <2>2, <2>4, RowClaims
  <2>6. \A e \in {d} : Stored(e) /\ job[e].status = "running" /\ job'[e].status = status
    BY <2>1, <2>5
  <2> QED BY <2>1, <2>2, <2>3, <2>4, <2>5, <2>6, EndingKeepsAttempts
<1>4. ASSUME NEW w \in Workers, Heartbeat(w)
      PROVE  AttemptsInv'
  <2>1. worker[w].doc \in Docs
    BY <1>4 DEF Heartbeat, Busy, TypeOK
  <2>2. \A d \in Docs : /\ job'[d].attempt_count = job[d].attempt_count
                        /\ job'[d].status = job[d].status
    BY <1>0, <1>4, <2>1, RowClaims DEF Heartbeat
  <2>3. document' = document /\ attempts' = attempts
    BY <1>4 DEF Heartbeat
  <2> QED BY <2>2, <2>3, OtherStepsKeepAttempts
<1>5. ASSUME NEW w \in Workers,
             \/ Parse(w) \/ Save(w) \/ SaveRejected(w) \/ LeaveLostJob(w)
             \/ StopOnMissingJob(w) \/ Crash(w) \/ Restart(w)
      PROVE  AttemptsInv'
  <2>1. job' = job /\ document' = document /\ attempts' = attempts
    BY <1>5
    DEF Parse, Save, SaveRejected, LeaveLostJob, StopOnMissingJob, Crash, Restart
  <2> QED BY <2>1, OtherStepsKeepAttempts
<1>6. ASSUME NEW d \in Docs, LeaseExpires(d) \/ Retry(d)
      PROVE  AttemptsInv'
  <2>1. \A e \in Docs : /\ job'[e].attempt_count = job[e].attempt_count
                        /\ \/ job'[e].status = job[e].status
                           \/ job[e].status = "failed" /\ job'[e].status = "pending"
    BY <1>0, <1>6, RowClaims DEF LeaseExpires, Retry
  <2>2. document' = document /\ attempts' = attempts
    BY <1>6 DEF LeaseExpires, Retry
  <2> QED BY <2>1, <2>2, OtherStepsKeepAttempts
<1>7. ASSUME NEW d \in Docs, Import(d) \/ Delete(d)
      PROVE  AttemptsInv'
  <2>1. attempts' = attempts /\ \A e \in Docs \ {d} : document'[e] = document[e] /\ job'[e] = job[e]
    BY <1>0, <1>7 DEF Import, Delete
  <2>2. job'[d].attempt_count = 0
    BY <1>0, <1>7 DEF Import, Delete, NewJob
  <2>3. \/ document[d] = "absent"
        \/ Stored(d) /\ job[d].status # "running" /\ document'[d] = "deleted"
    BY <1>0, <1>7 DEF Import, Delete
  <2> QED BY <2>1, <2>2, <2>3, OtherStepsKeepAttempts
<1> QED
  BY <1>1, <1>2, <1>3, <1>4, <1>5, <1>6, <1>7 DEF Next, WorkerStep

LEMMA AttemptsStayNumbered == Spec => []AttemptsInv
<1>1. Init => AttemptsInv
  BY DEF Init, AttemptsInv, NumberedOnce, EveryClaimRecorded, Mirrors, Stored
<1>2. TypeOK /\ TypeOK' /\ AttemptsInv /\ [Next]_vars => AttemptsInv'
  <2>1. ASSUME AttemptsInv, UNCHANGED vars PROVE AttemptsInv'
    BY <2>1
    DEF AttemptsInv, NumberedOnce, EveryClaimRecorded, Mirrors, Stored, Owned, vars
  <2> QED BY <2>1, StepAttempts
<1> QED BY <1>1, <1>2, TypeCorrect, PTL DEF Spec

(* The attempts of a job are its history, whoever claimed, recovered,      *)
(* finished, retried or deleted it.                                        *)
THEOREM AttemptsStayInStep == Spec => []AttemptsMirrorJobs
  BY AttemptsStayNumbered, AttemptsInvImplies, PTL

-----------------------------------------------------------------------------

(* Where texts come from.  CompletedHasText needs to know it of a parse    *)
(* that is saved while its job is still open, and RevisionsAreChanges that *)
(* a document without a text has no revisions either.                      *)
Parsed == \A w \in Workers : worker[w].pc = "parsed" => worker[w].text \in Texts

SavedHasText ==
  \A w \in Workers, d \in Docs :
    Working(w, d) /\ worker[w].pc = "saved" /\ Stored(d) => text[d] # NoText

NoTextNoHistory == \A d \in Docs : text[d] = NoText => revisions[d] = <<>>

TextsInv ==
  /\ Parsed /\ SavedHasText /\ NoTextNoHistory
  /\ CompletedHasText /\ RevisionsAreChanges

(* Steps that write no text, import nothing and start no later stage of a  *)
(* parse; a job only becomes completed with a text at hand.                *)
LEMMA TextsKept ==
  ASSUME TypeOK, TypeOK', TextsInv,
         text' = text, revisions' = revisions,
         \A d \in Docs : Stored(d)' => Stored(d),
         \A d \in Docs : Stored(d)' /\ job'[d].status = "completed" =>
           job[d].status = "completed" \/ text[d] # NoText,
         \A w \in Workers :
           /\ worker'[w].pc = "parsed" => worker'[w].text \in Texts
           /\ worker'[w].pc = "saved" =>
                worker[w].pc = "saved" /\ worker'[w].doc = worker[w].doc
  PROVE  TextsInv'
<1>1. Parsed'
  BY DEF Parsed
<1>2. SavedHasText'
  <2> SUFFICES ASSUME NEW w \in Workers, NEW d \in Docs,
                      Working(w, d)', worker'[w].pc = "saved", Stored(d)'
               PROVE  text[d] # NoText
    BY DEF SavedHasText
  <2>1. Working(w, d) /\ worker[w].pc = "saved"
    BY DEF Working, Busy
  <2> QED BY <2>1 DEF TextsInv, SavedHasText
<1>3. NoTextNoHistory'
  BY DEF TextsInv, NoTextNoHistory
<1>4. CompletedHasText'
  BY DEF TextsInv, CompletedHasText
<1>5. RevisionsAreChanges'
  BY DEF TextsInv, RevisionsAreChanges
<1> QED BY <1>1, <1>2, <1>3, <1>4, <1>5 DEF TextsInv

(* A save appends the text it replaces, when there is one to replace.      *)
LEMMA SaveKeepsTexts ==
  ASSUME TypeOK, TypeOK', TextsInv, NEW w \in Workers, Save(w)
  PROVE  TextsInv'
<1> USE ConstantsAssumption
<1> DEFINE d == worker[w].doc
           t == worker[w].text
<1>1. /\ d \in Docs /\ t \in Texts /\ t # NoText
      /\ document' = document /\ job' = job
      /\ text' = [text EXCEPT ![d] = t]
  BY DEF Save, Busy, TypeOK, TextsInv, Parsed
<1>2. /\ worker[w] \in WorkerState
      /\ At(worker[w], "saved", NoText).pc = "saved"
      /\ At(worker[w], "saved", NoText).doc = d
  BY MovedWorker DEF TypeOK, Busy
<1>3. /\ worker'[w].pc = "saved" /\ worker'[w].doc = d
      /\ \A v \in Workers \ {w} : worker'[v] = worker[v]
  BY <1>2 DEF Save, TypeOK
<1>4. /\ text'[d] = t
      /\ \A e \in Docs \ {d} : text'[e] = text[e] /\ revisions'[e] = revisions[e]
  BY <1>1 DEF Save, TypeOK
<1>5. revisions'[d] = IF text[d] \in {NoText, t} THEN revisions[d]
                                                 ELSE Append(revisions[d], text[d])
  BY <1>1 DEF Save, TypeOK
<1>6. text[d] \in Texts \cup {NoText} /\ revisions[d] \in Seq(Texts)
  BY <1>1 DEF TypeOK
<1> HIDE DEF d, t
<1>7. Parsed'
  BY <1>3 DEF TextsInv, Parsed
<1>8. SavedHasText'
  <2> SUFFICES ASSUME NEW v \in Workers, NEW e \in Docs,
                      Working(v, e)', worker'[v].pc = "saved", Stored(e)'
               PROVE  text'[e] # NoText
    BY DEF SavedHasText
  <2>1. CASE e = d
    BY <1>1, <1>4, <2>1
  <2>2. CASE e # d /\ v # w
    BY <1>1, <1>3, <1>4, <2>2 DEF TextsInv, SavedHasText, Working, Stored
  <2>3. CASE e # d /\ v = w
    BY <1>3, <2>3 DEF Working
  <2> QED BY <2>1, <2>2, <2>3
<1>9. NoTextNoHistory'
  BY <1>1, <1>4 DEF TextsInv, NoTextNoHistory
<1>10. CompletedHasText'
  BY <1>1, <1>4 DEF TextsInv, CompletedHasText, Stored
<1>11. RevisionsAreChanges'
  <2> SUFFICES ASSUME NEW e \in Docs, NEW i \in 1..Len(revisions'[e])
               PROVE  Append(revisions'[e], text'[e])[i] # Append(revisions'[e], text'[e])[i + 1]
    BY DEF RevisionsAreChanges
  <2>0. \A f \in Docs : \A j \in 1..Len(revisions[f]) :
          Append(revisions[f], text[f])[j] # Append(revisions[f], text[f])[j + 1]
    BY DEF TextsInv, RevisionsAreChanges
  <2>1. CASE e # d
    BY <1>4, <2>0, <2>1
  <2>2. CASE e = d /\ text[d] = NoText
    <3>1. revisions'[d] = <<>>
      BY <1>1, <1>5, <2>2 DEF TextsInv, NoTextNoHistory
    <3> QED BY <2>2, <3>1
  <2>3. CASE e = d /\ text[d] = t
    BY <1>4, <1>5, <2>0, <2>3
  <2>4. CASE e = d /\ text[d] \notin {NoText, t}
    <3> DEFINE old == revisions[d]
               s == Append(old, text[d])
    <3>1. text[d] \in Texts /\ old \in Seq(Texts) /\ s \in Seq(Texts) /\ Len(s) = Len(old) + 1
      BY <1>6, <2>4
    <3>2. revisions'[d] = s /\ text'[d] = t /\ t \in Texts
      BY <1>1, <1>4, <1>5, <2>4
    <3>3. \A j \in 1..Len(old) : s[j] # s[j + 1]
      BY <2>0, <1>1
    <3>4. s[Len(old) + 1] = text[d]
      BY <3>1
    <3> HIDE DEF s, old
    <3>5. \A j \in 1..Len(s) : Append(s, t)[j] = s[j]
      BY <3>1, <3>2
    <3>6. Append(s, t)[Len(s) + 1] = t
      BY <3>1, <3>2
    <3>7. Len(old) \in Nat /\ i \in 1..Len(s)
      BY <2>4, <3>1, <3>2
    <3>8. CASE i = Len(s)
      BY <2>4, <3>1, <3>2, <3>4, <3>5, <3>6, <3>7, <3>8
    <3>9. CASE i # Len(s)
      <4>1. i \in 1..Len(old) /\ i + 1 \in 1..Len(s)
        BY <3>1, <3>7, <3>9
      <4> QED BY <2>4, <3>2, <3>3, <3>5, <3>7, <4>1
    <3> QED BY <3>8, <3>9
  <2> QED BY <1>6, <2>1, <2>2, <2>3, <2>4
<1> QED BY <1>7, <1>8, <1>9, <1>10, <1>11 DEF TextsInv

LEMMA StepTexts ==
  ASSUME TypeOK, TypeOK', ClaimsApart, TextsInv, Next
  PROVE  TextsInv'
<1>0. /\ \A d \in Docs : job[d] \in JobRow
      /\ \A w \in Workers : worker[w] \in WorkerState
      /\ job \in [Docs -> JobRow] /\ worker \in [Workers -> WorkerState]
      /\ \A w \in Workers : worker[w].pc = "parsed" => worker[w].text \in Texts
  BY DEF TypeOK, TextsInv, Parsed
<1>1. ASSUME NEW w \in Workers, NEW S \in SUBSET Docs, Recover(w, S)
      PROVE  TextsInv'
  <2>1. \A d \in Docs : job'[d].status \in {job[d].status, "pending"}
    BY <1>0, <1>1, RowClaims DEF Recover
  <2> QED BY <1>0, <1>1, <2>1, TextsKept DEF Recover, Stored
<1>2. ASSUME NEW w \in Workers, NEW d \in Docs, Claim(w, d)
      PROVE  TextsInv'
  <2>1. \A e \in Docs : job'[e].status \in {job[e].status, "running"}
    BY <1>0, <1>2, ClaimedType DEF Claim
  <2>2. job'[d].lease_token \in Nat
    BY DEF TypeOK, JobRow
  <2> DEFINE x == Holder(d, job'[d].lease_token)
  <2>3. worker' = [worker EXCEPT ![w] = x] /\ x.pc = "claimed"
    BY <1>2, <2>2, ClaimingWorker DEF Claim
  <2> HIDE DEF x
  <2>4. text' = text /\ revisions' = revisions /\ document' = document
    BY <1>2 DEF Claim
  <2> QED BY <1>0, <2>1, <2>3, <2>4, TextsKept DEF Stored
<1>3. ASSUME NEW w \in Workers, Heartbeat(w)
      PROVE  TextsInv'
  <2>1. worker[w].doc \in Docs
    BY <1>3 DEF Heartbeat, Busy, TypeOK
  <2>2. \A d \in Docs : job'[d].status = job[d].status
    BY <1>0, <1>3, <2>1, RowClaims DEF Heartbeat
  <2>3. \A v \in Workers : /\ worker'[v].pc = worker[v].pc
                           /\ worker'[v].doc = worker[v].doc
                           /\ worker'[v].text = worker[v].text
    BY <1>0, <1>3 DEF Heartbeat, CutOff, WorkerState
  <2>4. text' = text /\ revisions' = revisions /\ document' = document
    BY <1>3 DEF Heartbeat
  <2> QED BY <1>0, <2>2, <2>3, <2>4, TextsKept DEF Stored
<1>4. ASSUME NEW w \in Workers, Parse(w) \/ SaveRejected(w)
      PROVE  TextsInv'
  <2>1. PICK p \in {"parsed", "errored"}, t \in Texts \cup {NoText} :
          /\ worker' = [worker EXCEPT ![w] = At(worker[w], p, t)]
          /\ p = "parsed" => t \in Texts
    BY <1>4 DEF Parse, SaveRejected
  <2>2. At(worker[w], p, t).pc = p /\ At(worker[w], p, t).text = t
    BY <1>0 DEF At, WorkerState
  <2>3. text' = text /\ revisions' = revisions /\ document' = document /\ job' = job
    BY <1>4 DEF Parse, SaveRejected
  <2> QED BY <1>0, <2>1, <2>2, <2>3, TextsKept DEF Stored
<1>5. ASSUME NEW w \in Workers, Save(w)
      PROVE  TextsInv'
  BY <1>5, SaveKeepsTexts
<1>6. ASSUME NEW w \in Workers, Finish(w)
      PROVE  TextsInv'
  <2> DEFINE d == worker[w].doc
  <2>1. d \in Docs /\ Stored(d) /\ Working(w, d)
    BY <1>6 DEF Finish, Worked, Busy, TypeOK, HoldsJob, Working
  <2>2. PICK status \in {"completed", "failed"} :
          /\ job' = [job EXCEPT ![d] = Finished(job[d], status)]
          /\ status = "completed" => worker[w].pc = "saved"
    BY <1>6 DEF Finish
  <2>3. text' = text /\ revisions' = revisions /\ document' = document
        /\ worker' = [worker EXCEPT ![w] = Idle]
    BY <1>6 DEF Finish
  <2>4. status \in Statuses
    BY DEF Statuses
  <2> HIDE DEF d
  <2>5. /\ \A e \in Docs \ {d} : job'[e] = job[e]
        /\ job'[d].status = status
    BY <1>0, <2>1, <2>2, <2>4, RowClaims
  <2>6. status = "completed" => text[d] # NoText
    BY <2>1, <2>2 DEF TextsInv, SavedHasText
  <2> QED BY <1>0, <2>3, <2>5, <2>6, IdleWorker, TextsKept DEF Stored
<1>7. ASSUME NEW w \in Workers,
             LeaveLostJob(w) \/ StopOnMissingJob(w) \/ Crash(w) \/ Restart(w)
      PROVE  TextsInv'
  <2>1. PICK x : worker' = [worker EXCEPT ![w] = x] /\ x.pc \notin Busy
    BY <1>7, IdleWorker, DownWorker
    DEF LeaveLostJob, StopOnMissingJob, Crash, Restart, Busy
  <2>2. text' = text /\ revisions' = revisions /\ document' = document /\ job' = job
    BY <1>7 DEF LeaveLostJob, StopOnMissingJob, Crash, Restart
  <2> QED BY <1>0, <2>1, <2>2, TextsKept DEF Stored, Busy
<1>8. ASSUME NEW d \in Docs, LeaseExpires(d) \/ Retry(d)
      PROVE  TextsInv'
  <2>1. \A e \in Docs : job'[e].status \in {job[e].status, "pending"}
    BY <1>0, <1>8, RowClaims DEF LeaseExpires, Retry
  <2>2. /\ text' = text /\ revisions' = revisions /\ document' = document
        /\ worker' = worker
    BY <1>8 DEF LeaseExpires, Retry
  <2> QED BY <1>0, <2>1, <2>2, TextsKept DEF Stored
<1>9. ASSUME NEW d \in Docs, Import(d)
      PROVE  TextsInv'
  <2>1. /\ text' = text /\ revisions' = revisions /\ worker' = worker
        /\ document[d] = "absent"
        /\ \A e \in Docs \ {d} : document'[e] = document[e] /\ job'[e] = job[e]
        /\ job'[d].status = "pending"
    BY <1>0, <1>9 DEF Import, TypeOK, NewJob
  <2>2. \A w \in Workers : ~Working(w, d)
    BY <2>1 DEF ClaimsApart
  <2>3. SavedHasText'
    BY <2>1, <2>2 DEF TextsInv, SavedHasText, Working, Stored
  <2>4. CompletedHasText'
    BY <2>1 DEF TextsInv, CompletedHasText, Stored
  <2>5. Parsed' /\ NoTextNoHistory' /\ RevisionsAreChanges'
    BY <2>1 DEF TextsInv, Parsed, NoTextNoHistory, RevisionsAreChanges
  <2> QED BY <2>3, <2>4, <2>5 DEF TextsInv
<1>10. ASSUME NEW d \in Docs, Delete(d)
       PROVE  TextsInv'
  <2>1. /\ worker' = worker /\ document'[d] = "deleted"
        /\ text'[d] = NoText /\ revisions'[d] = <<>>
        /\ \A e \in Docs \ {d} : /\ document'[e] = document[e] /\ job'[e] = job[e]
                                 /\ text'[e] = text[e] /\ revisions'[e] = revisions[e]
    BY <1>0, <1>10 DEF Delete, TypeOK
  <2>2. SavedHasText' /\ CompletedHasText'
    BY <2>1 DEF TextsInv, SavedHasText, CompletedHasText, Working, Stored
  <2>3. Parsed' /\ NoTextNoHistory'
    BY <2>1 DEF TextsInv, Parsed, NoTextNoHistory
  <2>4. RevisionsAreChanges'
    BY <2>1 DEF TextsInv, RevisionsAreChanges
  <2> QED BY <2>2, <2>3, <2>4 DEF TextsInv
<1> QED
  BY <1>1, <1>2, <1>3, <1>4, <1>5, <1>6, <1>7, <1>8, <1>9, <1>10 DEF Next, WorkerStep

(* Attempts, texts and revisions agree with the jobs in every reachable    *)
(* state, for any number of workers, files, crashes and retries.           *)
THEOREM RowsAlwaysAgree == Spec => []RowsAgree
<1>1. Init => TextsInv
  BY IdleWorker
  DEF Init, TextsInv, Parsed, SavedHasText, NoTextNoHistory, CompletedHasText,
      RevisionsAreChanges, Stored
<1>2. TypeOK /\ TypeOK' /\ ClaimsApart /\ TextsInv /\ [Next]_vars => TextsInv'
  <2>1. ASSUME TextsInv, UNCHANGED vars PROVE TextsInv'
    BY <2>1
    DEF TextsInv, Parsed, SavedHasText, NoTextNoHistory, CompletedHasText,
        RevisionsAreChanges, Working, Stored, vars
  <2> QED BY <2>1, StepTexts
<1>3. RowsConsistent /\ TextsInv /\ AttemptsMirrorJobs => RowsAgree
  BY DEF TextsInv, RowsAgree
<1> QED
  BY <1>1, <1>2, <1>3, TypeCorrect, RowsStayConsistent, ClaimsStayApart,
     AttemptsStayInStep, PTL DEF Spec

-----------------------------------------------------------------------------
(* The ledger. *)

(* In every state the entries of a stored job are numbered by its claims.  *)
LEMMA StoredNumbered ==
  ASSUME TypeOK, AttemptsInv, NEW d \in OwnedDocs, Stored(d)
  PROVE  /\ attempts \in SUBSET AttemptRows(Docs) /\ EachOnce(attempts)
         /\ d \in Docs /\ Owned(d) /\ job[d].attempt_count \in Nat
         /\ Numbered(attempts, d, job[d].attempt_count,
                     IF job[d].status = "running" THEN job[d].attempt_count ELSE 0)
<1>1. /\ attempts \in SUBSET AttemptRows(Docs) /\ job[d].attempt_count \in Nat
      /\ d \in Docs /\ Owned(d)
  BY DEF TypeOK, JobRow, OwnedDocs
<1>2. EachOnce(attempts)
  BY DEF AttemptsInv, NumberedOnce, EachOnce
<1>3. \A r \in attempts : r.job = d =>
        /\ r.number \in 1..job[d].attempt_count
        /\ r.outcome = "running" <=>
             job[d].status = "running" /\ r.number = job[d].attempt_count
  BY DEF AttemptsInv, Mirrors
<1>4. \A n \in 1..job[d].attempt_count : \E r \in attempts : r.job = d /\ r.number = n
  BY <1>1 DEF AttemptsInv, EveryClaimRecorded
<1>5. CASE job[d].status = "running"
  BY <1>1, <1>2, <1>3, <1>4, <1>5 DEF Numbered
<1>6. CASE job[d].status # "running"
  <2>1. \A r \in attempts : r.job = d =>
          r.number \in 1..job[d].attempt_count /\ r.outcome # "running" /\ r.number # 0
    BY <1>1, <1>3, <1>6
  <2> QED BY <1>1, <1>2, <1>4, <1>6, <2>1 DEF Numbered
<1> QED BY <1>5, <1>6

(* Jobs of S end or go back: the last entry of each gets the verdict.      *)
LEMMA EndingCloses ==
  ASSUME TypeOK, AttemptsInv, NEW S \in SUBSET Docs,
         NEW o \in Outcomes, o # "running",
         \A d \in S : Stored(d) /\ job[d].status = "running",
         attempts' = FinishAttempts(attempts, S, job, o)
  PROVE  \A d \in OwnedDocs :
           VerdictsOf(attempts', d) =
             IF d \in S
             THEN Ended(VerdictsOf(attempts, d), o)
             ELSE VerdictsOf(attempts, d)
<1> SUFFICES ASSUME NEW d \in OwnedDocs
             PROVE  VerdictsOf(attempts', d) =
                      IF d \in S
                      THEN Ended(VerdictsOf(attempts, d), o)
                      ELSE VerdictsOf(attempts, d)
  OBVIOUS
<1>1. attempts \in SUBSET AttemptRows(Docs) /\ job \in [Docs -> JobRow]
  BY DEF TypeOK
<1>2. CASE d \in S
  <2>1. PICK k \in Nat : k = job[d].attempt_count
    BY <1>2, StoredNumbered
  <2>2. EachOnce(attempts) /\ Numbered(attempts, d, k, k) /\ d \in Docs
    BY <1>2, <2>1, StoredNumbered
  <2>3. VerdictsOf(FinishAttempts(attempts, S, job, o), d)
          = Ended(VerdictsOf(attempts, d), o)
    BY <1>1, <1>2, <2>1, <2>2, FinishCloses
  <2> QED BY <1>2, <2>3
<1>3. CASE d \notin S
  <2>1. AttemptsOf(attempts', d) = AttemptsOf(attempts, d)
    BY <1>1, <1>3, FinishLeaves
  <2> QED BY <1>3, <2>1 DEF VerdictsOf
<1> QED BY <1>2, <1>3

(* A claim of an owned job appends an open entry, and touches no other.    *)
LEMMA ClaimAppends ==
  ASSUME TypeOK, AttemptsInv, NEW w \in Workers, NEW d \in Docs, Claim(w, d)
  PROVE  \A e \in OwnedDocs :
           VerdictsOf(attempts', e) =
             IF e = d THEN Append(VerdictsOf(attempts, e), "running")
                      ELSE VerdictsOf(attempts, e)
<1> SUFFICES ASSUME NEW e \in OwnedDocs
             PROVE  VerdictsOf(attempts', e) =
                      IF e = d THEN Append(VerdictsOf(attempts, e), "running")
                               ELSE VerdictsOf(attempts, e)
  OBVIOUS
<1>1. PICK k \in Nat : k = job[d].attempt_count
  BY DEF TypeOK, JobRow
<1>2. /\ job[d].status = "pending" /\ Stored(d)
      /\ attempts' = StartAttempt(attempts, Owned(d), d, k + 1)
  BY <1>1, ClaimedType DEF Claim, TypeOK
<1>3. CASE d \in OwnedDocs
  <2>1. /\ attempts \in SUBSET AttemptRows(Docs) /\ EachOnce(attempts)
        /\ Numbered(attempts, d, k, 0)
    BY <1>1, <1>2, <1>3, StoredNumbered
  <2>2. attempts' = StartAttempt(attempts, TRUE, d, k + 1)
    BY <1>2, <1>3 DEF OwnedDocs, StartAttempt
  <2>3. VerdictsOf(attempts', d) = Append(VerdictsOf(attempts, d), "running")
    BY <1>1, <2>1, <2>2, StartAppends
  <2>4. CASE e = d
    BY <2>3, <2>4
  <2>5. CASE e # d
    <3>1. AttemptsOf(attempts', e) = AttemptsOf(attempts, e)
      BY <1>2, <2>5, StartLeaves
    <3> QED BY <2>5, <3>1 DEF VerdictsOf
  <2> QED BY <2>4, <2>5
<1>4. CASE d \notin OwnedDocs
  <2>1. attempts' = attempts /\ e # d
    BY <1>2, <1>4 DEF OwnedDocs, StartAttempt
  <2> QED BY <2>1
<1> QED BY <1>3, <1>4

-----------------------------------------------------------------------------

(* The two variables of the ledger, as functions of the queue's.           *)
Phase == [d \in OwnedDocs |-> LedgerPhase(d)]
Verdicts == [d \in OwnedDocs |-> VerdictsOf(attempts, d)]

LEMMA PhaseOf ==
  ASSUME NEW d \in Docs
  PROVE  /\ document[d] = "absent" => LedgerPhase(d) = "absent"
         /\ document[d] = "deleted" => LedgerPhase(d) = "removed"
         /\ document[d] = "stored" =>
              LedgerPhase(d) = IF job[d].status = "pending" THEN "queued"
                               ELSE IF job[d].status = "running" THEN "taken"
                               ELSE job[d].status
         /\ document'[d] = "absent" => LedgerPhase(d)' = "absent"
         /\ document'[d] = "deleted" => LedgerPhase(d)' = "removed"
         /\ document'[d] = "stored" =>
              LedgerPhase(d)' = IF job'[d].status = "pending" THEN "queued"
                                ELSE IF job'[d].status = "running" THEN "taken"
                                ELSE job'[d].status
  BY DEF LedgerPhase

LEMMA SamePhase ==
  ASSUME NEW d, document'[d] = document[d], job'[d].status = job[d].status
  PROVE  LedgerPhase(d)' = LedgerPhase(d)
  BY DEF LedgerPhase

(* A step that moves the phase of one job only, as an update of Phase.     *)
LEMMA PhaseMoves ==
  ASSUME NEW d \in OwnedDocs, NEW p, LedgerPhase(d)' = p,
         \A e \in OwnedDocs \ {d} : LedgerPhase(e)' = LedgerPhase(e)
  PROVE  Phase' = [Phase EXCEPT ![d] = p]
  BY DEF Phase

LEMMA PhaseStays ==
  ASSUME \A e \in OwnedDocs : LedgerPhase(e)' = LedgerPhase(e)
  PROVE  Phase' = Phase
  BY DEF Phase

(* A recovery of S gives back the jobs of S that have an organization.     *)
LEMMA RecoverMaps ==
  ASSUME TypeOK, TypeOK', AttemptsInv, AttemptsInv',
         NEW w \in Workers, NEW S \in SUBSET Docs, Recover(w, S)
  PROVE  Ledger!GiveBack(S \cap OwnedDocs)
<1>0. /\ \A d \in Docs : job[d] \in JobRow
      /\ OwnedDocs \subseteq Docs /\ "recovered" \in Outcomes
  BY DEF TypeOK, OwnedDocs, Outcomes
<1>1. /\ \A d \in S : Stored(d) /\ job[d].status = "running"
      /\ document' = document
      /\ attempts' = FinishAttempts(attempts, S, job, "recovered")
      /\ \A d \in S : job'[d].status = "pending"
      /\ \A d \in Docs \ S : job'[d] = job[d]
  BY <1>0, RowClaims DEF Recover, Stale
<1>2. \A d \in OwnedDocs :
        VerdictsOf(attempts', d) =
          IF d \in S
          THEN Ended(VerdictsOf(attempts, d), "recovered")
          ELSE VerdictsOf(attempts, d)
  BY <1>0, <1>1, EndingCloses
<1>3. ASSUME NEW d \in OwnedDocs
      PROVE  /\ d \in S => LedgerPhase(d) = "taken"
             /\ LedgerPhase(d)' = IF d \in S THEN "queued" ELSE LedgerPhase(d)
  <2>1. CASE d \in S
    BY <1>0, <1>1, <2>1, PhaseOf DEF Stored
  <2>2. CASE d \notin S
    BY <1>0, <1>1, <2>2, PhaseOf, SMTT(30) DEF TypeOK
  <2> QED BY <2>1, <2>2
<1>4. Phase' = [d \in OwnedDocs |-> IF d \in S \cap OwnedDocs THEN "queued" ELSE Phase[d]]
  BY <1>3 DEF Phase
<1>5. Verdicts' = [d \in OwnedDocs |->
                     IF d \in S \cap OwnedDocs
                     THEN Ended(Verdicts[d], "recovered")
                     ELSE Verdicts[d]]
  BY <1>2 DEF Verdicts
<1>6. \A d \in S \cap OwnedDocs : Phase[d] = "taken"
  BY <1>3 DEF Phase
<1> QED BY <1>4, <1>5, <1>6 DEF Ledger!GiveBack, Ledger!Close, Phase, Verdicts, Ended

LEMMA ClaimMaps ==
  ASSUME TypeOK, TypeOK', AttemptsInv, AttemptsInv',
         NEW w \in Workers, NEW d \in Docs, Claim(w, d)
  PROVE  \/ d \in OwnedDocs /\ Ledger!Take(d)
         \/ UNCHANGED <<Phase, Verdicts>>
<1>1. /\ document' = document /\ document[d] = "stored"
      /\ job[d].status = "pending" /\ job'[d].status = "running"
      /\ \A e \in Docs \ {d} : job'[e] = job[e]
      /\ OwnedDocs \subseteq Docs
  BY ClaimedType DEF Claim, TypeOK, Stored, OwnedDocs
<1>2. \A e \in OwnedDocs :
        VerdictsOf(attempts', e) =
          IF e = d THEN Append(VerdictsOf(attempts, e), "running")
                   ELSE VerdictsOf(attempts, e)
  BY ClaimAppends
<1>3. \A e \in OwnedDocs \ {d} : LedgerPhase(e)' = LedgerPhase(e)
  BY <1>1, SamePhase
<1>4. LedgerPhase(d) = "queued" /\ LedgerPhase(d)' = "taken"
  BY <1>1, PhaseOf
<1>5. CASE d \in OwnedDocs
  <2>1. Phase' = [Phase EXCEPT ![d] = "taken"] /\ Phase[d] \in {"queued"}
    BY <1>3, <1>4, <1>5, PhaseMoves DEF Phase
  <2>2. Verdicts' = [Verdicts EXCEPT ![d] = Append(Verdicts[d], "running")]
    BY <1>2, <1>5 DEF Verdicts
  <2> QED BY <1>5, <2>1, <2>2 DEF Ledger!Take, Ledger!Move, Phase, Verdicts
<1>6. CASE d \notin OwnedDocs
  <2>1. Phase' = Phase
    BY <1>3, <1>6, PhaseStays
  <2>2. Verdicts' = Verdicts
    BY <1>2, <1>6 DEF Verdicts
  <2> QED BY <2>1, <2>2
<1> QED BY <1>5, <1>6

LEMMA FinishMaps ==
  ASSUME TypeOK, TypeOK', AttemptsInv, AttemptsInv', NEW w \in Workers, Finish(w)
  PROVE  \/ \E d \in OwnedDocs : Ledger!Complete(d) \/ Ledger!Fail(d)
         \/ UNCHANGED <<Phase, Verdicts>>
<1>0. \A e \in Docs : job[e] \in JobRow
  BY DEF TypeOK
<1>d. PICK d \in Docs : d = worker[w].doc
  BY DEF Finish, Worked, Busy, TypeOK
<1>1. /\ document[d] = "stored" /\ job[d].status = "running"
      /\ document' = document
  BY <1>d DEF Finish, HoldsJob, Holds, Stored
<1>2. PICK status \in {"completed", "failed"} :
        /\ job' = [job EXCEPT ![d] = Finished(job[d], status)]
        /\ attempts' = FinishAttempts(attempts, {d}, job, Verdict(status))
  BY <1>d DEF Finish
<1>3. /\ status \in Statuses /\ Verdict(status) \in Outcomes
      /\ OwnedDocs \subseteq Docs
  BY DEF Statuses, Verdict, Outcomes, OwnedDocs
<1>4. job'[d].status = status /\ \A e \in Docs \ {d} : job'[e] = job[e]
  BY <1>0, <1>1, <1>2, <1>3, RowClaims DEF TypeOK
<1>5. \A e \in OwnedDocs :
        VerdictsOf(attempts', e) =
          IF e \in {d}
          THEN Ended(VerdictsOf(attempts, e), Verdict(status))
          ELSE VerdictsOf(attempts, e)
  <2>1. \A e \in {d} : Stored(e) /\ job[e].status = "running"
    BY <1>1 DEF Stored
  <2>2. {d} \in SUBSET Docs
    BY <1>1
  <2>3. Verdict(status) # "running"
    BY DEF Verdict
  <2> QED BY <1>2, <1>3, <2>1, <2>2, <2>3, EndingCloses
<1>6. \A e \in OwnedDocs \ {d} : LedgerPhase(e)' = LedgerPhase(e)
  BY <1>1, <1>3, <1>4, SamePhase
<1>7. LedgerPhase(d) = "taken" /\ LedgerPhase(d)' = status
  BY <1>1, <1>4, PhaseOf
<1>8. CASE d \in OwnedDocs
  <2>1. Phase' = [Phase EXCEPT ![d] = status] /\ Phase[d] \in {"taken"}
    BY <1>6, <1>7, <1>8, PhaseMoves DEF Phase
  <2>2. Verdicts' = [e \in OwnedDocs |->
                       IF e \in {d}
                       THEN Ended(Verdicts[e], Verdict(status))
                       ELSE Verdicts[e]]
    BY <1>5 DEF Verdicts
  <2>3. CASE status = "completed"
    <3>1. Verdict(status) = "succeeded"
      BY <2>3 DEF Verdict
    <3>2. Ledger!Complete(d)
      BY <2>1, <2>2, <2>3, <3>1
      DEF Ledger!Complete, Ledger!Move, Ledger!Close, Phase, Verdicts, Ended
    <3> QED BY <1>8, <3>2
  <2>4. CASE status = "failed"
    <3>1. Verdict(status) = "failed"
      BY <2>4 DEF Verdict
    <3>2. Ledger!Fail(d)
      BY <2>1, <2>2, <2>4, <3>1
      DEF Ledger!Fail, Ledger!Move, Ledger!Close, Phase, Verdicts, Ended
    <3> QED BY <1>8, <3>2
  <2> QED BY <2>3, <2>4
<1>9. CASE d \notin OwnedDocs
  <2>1. Phase' = Phase
    BY <1>6, <1>9, PhaseStays
  <2>2. Verdicts' = Verdicts
    BY <1>5, <1>9 DEF Verdicts
  <2> QED BY <2>1, <2>2
<1> QED BY <1>8, <1>9

(* Steps that write no attempt move at most one phase. *)
LEMMA DocumentStepMaps ==
  ASSUME TypeOK, TypeOK', NEW d \in Docs,
         Import(d) \/ LeaseExpires(d) \/ Retry(d) \/ Delete(d)
  PROVE  \/ d \in OwnedDocs /\ (Ledger!Submit(d) \/ Ledger!TryAgain(d) \/ Ledger!Remove(d))
         \/ UNCHANGED <<Phase, Verdicts>>
<1>0. /\ \A e \in Docs : job[e] \in JobRow
      /\ document \in [Docs -> {"absent", "stored", "deleted"}]
      /\ job \in [Docs -> JobRow] /\ OwnedDocs \subseteq Docs
  BY DEF TypeOK, OwnedDocs
<1>1. Verdicts' = Verdicts
  BY DEF Verdicts, Import, LeaseExpires, Retry, Delete
<1>2. \A e \in OwnedDocs \ {d} : LedgerPhase(e)' = LedgerPhase(e)
  <2>1. \A e \in Docs \ {d} : document'[e] = document[e] /\ job'[e] = job[e]
    BY <1>0 DEF Import, LeaseExpires, Retry, Delete
  <2> QED BY <1>0, <2>1, SamePhase
<1>3. CASE LedgerPhase(d)' = LedgerPhase(d) \/ d \notin OwnedDocs
  <2>1. Phase' = Phase
    BY <1>2, <1>3, PhaseStays
  <2> QED BY <1>1, <2>1
<1>4. CASE LedgerPhase(d)' # LedgerPhase(d) /\ d \in OwnedDocs
  <2>1. CASE Import(d)
    <3>1. document[d] = "absent" /\ document'[d] = "stored" /\ job'[d].status = "pending"
      BY <1>0, <2>1 DEF Import, NewJob
    <3>2. LedgerPhase(d) = "absent" /\ LedgerPhase(d)' = "queued"
      BY <3>1, PhaseOf
    <3>3. Phase' = [Phase EXCEPT ![d] = "queued"] /\ Phase[d] \in {"absent"}
      BY <1>2, <1>4, <3>2, PhaseMoves DEF Phase
    <3> QED BY <1>1, <1>4, <3>3 DEF Ledger!Submit, Ledger!Move, Phase, Verdicts
  <2>2. CASE LeaseExpires(d)
    <3>1. /\ document[d] = "stored" /\ document' = document
          /\ job'[d].status = job[d].status
      BY <1>0, <2>2, RowClaims DEF LeaseExpires, Stored
    <3> QED BY <1>4, <3>1, PhaseOf
  <2>3. CASE Retry(d)
    <3>1. /\ document[d] = "stored" /\ document' = document
          /\ job[d].status = "failed" /\ job'[d].status = "pending"
      BY <1>0, <2>3, RowClaims DEF Retry, Stored
    <3>2. LedgerPhase(d) = "failed" /\ LedgerPhase(d)' = "queued"
      BY <3>1, PhaseOf
    <3>3. Phase' = [Phase EXCEPT ![d] = "queued"] /\ Phase[d] \in {"failed"}
      BY <1>2, <1>4, <3>2, PhaseMoves DEF Phase
    <3> QED BY <1>1, <1>4, <3>3 DEF Ledger!TryAgain, Ledger!Move, Phase, Verdicts
  <2>4. CASE Delete(d)
    <3>1. /\ document[d] = "stored" /\ document'[d] = "deleted"
          /\ job[d].status \in {"pending", "completed", "failed"}
      BY <1>0, <2>4 DEF Delete, Stored, JobRow, Statuses
    <3>2. LedgerPhase(d) \in {"queued", "completed", "failed"} /\ LedgerPhase(d)' = "removed"
      BY <3>1, PhaseOf
    <3>3. /\ Phase' = [Phase EXCEPT ![d] = "removed"]
          /\ Phase[d] \in {"queued", "completed", "failed"}
      BY <1>2, <1>4, <3>2, PhaseMoves DEF Phase
    <3> QED BY <1>1, <1>4, <3>3 DEF Ledger!Remove, Ledger!Move, Phase, Verdicts
  <2> QED BY <2>1, <2>2, <2>3, <2>4
<1> QED BY <1>3, <1>4

LEMMA QuietStepMaps ==
  ASSUME TypeOK, NEW w \in Workers,
         \/ Heartbeat(w) \/ Parse(w) \/ Save(w) \/ SaveRejected(w) \/ LeaveLostJob(w)
         \/ StopOnMissingJob(w) \/ Crash(w) \/ Restart(w)
  PROVE  UNCHANGED <<Phase, Verdicts>>
<1>1. document' = document /\ attempts' = attempts
  BY DEF Heartbeat, Parse, Save, SaveRejected, LeaveLostJob, StopOnMissingJob, Crash, Restart
<1>2. job \in [Docs -> JobRow] /\ \A e \in Docs : job[e] \in JobRow
  BY DEF TypeOK
<1>3. \A e \in Docs : job'[e].status = job[e].status
  <2>1. CASE Heartbeat(w)
    <3>1. worker[w].doc \in Docs
      BY <2>1 DEF Heartbeat, Busy, TypeOK
    <3> QED BY <1>2, <2>1, <3>1, RowClaims DEF Heartbeat
  <2>2. CASE ~Heartbeat(w)
    <3>1. job' = job
      BY <2>2
      DEF Parse, Save, SaveRejected, LeaveLostJob, StopOnMissingJob, Crash, Restart
    <3> QED BY <3>1
  <2> QED BY <2>1, <2>2
<1>4. \A e \in OwnedDocs : LedgerPhase(e)' = LedgerPhase(e)
  BY <1>1, <1>3, SamePhase DEF OwnedDocs
<1> QED BY <1>1, <1>4, PhaseStays DEF Verdicts

(* Every step of the queue is a step of the ledger or none. *)
LEMMA StepMaps ==
  ASSUME TypeOK, TypeOK', AttemptsInv, AttemptsInv', Next
  PROVE  Ledger!LedgerNext \/ UNCHANGED <<Phase, Verdicts>>
<1>1. ASSUME NEW w \in Workers, NEW S \in SUBSET Docs, Recover(w, S)
      PROVE  Ledger!LedgerNext
  <2>1. S \cap OwnedDocs \in SUBSET OwnedDocs
    OBVIOUS
  <2> QED BY <1>1, <2>1, RecoverMaps DEF Ledger!LedgerNext
<1>2. ASSUME NEW w \in Workers, NEW d \in Docs, Claim(w, d)
      PROVE  Ledger!LedgerNext \/ UNCHANGED <<Phase, Verdicts>>
  BY <1>2, ClaimMaps DEF Ledger!LedgerNext
<1>3. ASSUME NEW w \in Workers, Finish(w)
      PROVE  Ledger!LedgerNext \/ UNCHANGED <<Phase, Verdicts>>
  BY <1>3, FinishMaps DEF Ledger!LedgerNext
<1>4. ASSUME NEW d \in Docs, Import(d) \/ LeaseExpires(d) \/ Retry(d) \/ Delete(d)
      PROVE  Ledger!LedgerNext \/ UNCHANGED <<Phase, Verdicts>>
  BY <1>4, DocumentStepMaps DEF Ledger!LedgerNext
<1>5. ASSUME NEW w \in Workers,
             \/ Heartbeat(w) \/ Parse(w) \/ Save(w) \/ SaveRejected(w) \/ LeaveLostJob(w)
             \/ StopOnMissingJob(w) \/ Crash(w) \/ Restart(w)
      PROVE  UNCHANGED <<Phase, Verdicts>>
  BY <1>5, QuietStepMaps
<1> QED BY <1>1, <1>2, <1>3, <1>4, <1>5 DEF Next, WorkerStep

(* The attempt history an organization reads is that of the ledger: every  *)
(* claim gets one verdict, while it is the latest, and keeps it, whatever  *)
(* workers, recoveries, operators and crashes do.                          *)
THEOREM QueueImplementsLedger == Spec => ImplementsLedger
<1>1. Init => Ledger!LedgerInit
  <2> SUFFICES ASSUME Init PROVE Ledger!LedgerInit
    OBVIOUS
  <2>1. \A d \in OwnedDocs : LedgerPhase(d) = "absent"
    BY PhaseOf DEF Init, OwnedDocs
  <2>2. \A d \in OwnedDocs : VerdictsOf(attempts, d) = <<>>
    BY NoVerdicts DEF Init
  <2> QED BY <2>1, <2>2 DEF Ledger!LedgerInit
<1>2. /\ TypeOK /\ TypeOK' /\ AttemptsInv /\ AttemptsInv' /\ [Next]_vars
      => [Ledger!LedgerNext]_<<Phase, Verdicts>>
  <2>1. ASSUME UNCHANGED vars PROVE UNCHANGED <<Phase, Verdicts>>
    BY <2>1
    DEF vars, Phase, Verdicts, LedgerPhase
  <2> QED BY <2>1, StepMaps
<1>3. Spec => []AttemptsInv
  BY AttemptsStayNumbered
<1> QED BY <1>1, <1>2, <1>3, TypeCorrect, PTL
        DEF Spec, ImplementsLedger, Ledger!LedgerSpec, Phase, Verdicts
=============================================================================
