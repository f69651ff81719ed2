--------------------------- MODULE ChunkQueueProofs ---------------------------
(***************************************************************************)
(* The queues of chunks, for every number of workers, backfills and        *)
(* chunks, every batch size and every kind of queue: jobs, attempts and    *)
(* results agree, and what is done stays done.                             *)
(***************************************************************************)
EXTENDS ChunkQueue, JobRowsProofs

(* The attempts of one chunk, and what ending one of them makes of them.   *)
OfChunk(rows, c) == {r \in rows : r.job = c}
Closed(R, n, o) ==
  {IF r.number = n /\ r.outcome = "running" THEN [r EXCEPT !.outcome = o] ELSE r : r \in R}

(* R is the history of a row: an attempt for each claim, open exactly      *)
(* while the claim runs.                                                   *)
History(row, R) ==
  /\ \A r \in R : /\ r.number \in 1..row.attempt_count
                  /\ r.outcome = "running" <=>
                       row.status = "running" /\ r.number = row.attempt_count
  /\ \A r, s \in R : r.number = s.number => r = s
  /\ \A n \in 1..row.attempt_count : \E r \in R : r.number = n

LEMMA FinishAttemptsOf ==
  ASSUME NEW rows \in SUBSET AttemptRows(Chunks), NEW S, NEW jobs, NEW o \in Outcomes,
         NEW c \in Chunks
  PROVE  OfChunk(FinishAttempts(rows, S, jobs, o), c) =
           IF c \in S THEN Closed(OfChunk(rows, c), jobs[c].attempt_count, o)
           ELSE OfChunk(rows, c)
<1> DEFINE Ending(r) == IF /\ r.job \in S
                           /\ r.number = jobs[r.job].attempt_count
                           /\ r.outcome = "running"
                        THEN [r EXCEPT !.outcome = o] ELSE r
           Closing(r) == IF r.number = jobs[c].attempt_count /\ r.outcome = "running"
                         THEN [r EXCEPT !.outcome = o] ELSE r
<1>1. \A r \in rows : Ending(r).job = r.job
  BY DEF AttemptRows
<1>2. FinishAttempts(rows, S, jobs, o) = {Ending(r) : r \in rows}
  BY DEF FinishAttempts
<1>3. \A r \in rows : r.job = c => Ending(r) = IF c \in S THEN Closing(r) ELSE r
  OBVIOUS
<1>4. Closed(OfChunk(rows, c), jobs[c].attempt_count, o) = {Closing(r) : r \in OfChunk(rows, c)}
  BY DEF Closed
<1> HIDE DEF Ending, Closing
<1>5. OfChunk({Ending(r) : r \in rows}, c) = {Ending(r) : r \in OfChunk(rows, c)}
  BY <1>1 DEF OfChunk
<1>6. CASE c \in S
  BY <1>2, <1>3, <1>4, <1>5, <1>6 DEF OfChunk
<1>7. CASE c \notin S
  <2>1. {Ending(r) : r \in OfChunk(rows, c)} = OfChunk(rows, c)
    BY <1>3, <1>7 DEF OfChunk
  <2> QED BY <1>2, <1>5, <1>7, <2>1
<1> QED BY <1>6, <1>7

(* Ending the running attempt of a row that stops running.                 *)
LEMMA ClosedKeeps ==
  ASSUME NEW R \in SUBSET AttemptRows(Chunks), NEW row \in JobRow, NEW after \in JobRow,
         History(row, R), row.status = "running", row.attempt_count # 0,
         after.status # "running", after.attempt_count = row.attempt_count,
         NEW o \in Outcomes \ {"running"}
  PROVE  /\ History(after, Closed(R, row.attempt_count, o))
         /\ \A r \in R : r.outcome # "running" => r \in Closed(R, row.attempt_count, o)
         /\ \E r \in Closed(R, row.attempt_count, o) :
              r.number = row.attempt_count /\ r.outcome = o
<1> DEFINE n == row.attempt_count
           Closing(r) == IF r.number = n /\ r.outcome = "running"
                         THEN [r EXCEPT !.outcome = o] ELSE r
<1>1. n \in Nat /\ n \in 1..n
  BY DEF JobRow
<1>2. Closed(R, n, o) = {Closing(r) : r \in R}
  BY DEF Closed
<1>3. \A r \in R : /\ Closing(r).number = r.number
                   /\ r.outcome # "running" => Closing(r) = r
                   /\ r.number = n => Closing(r).outcome = o
                   /\ Closing(r).outcome # "running"
  BY DEF AttemptRows, History
<1> HIDE DEF Closing, n
<1>4. \A r \in Closed(R, n, o) : \E s \in R : r = Closing(s)
  BY <1>2
<1>5. \A s \in R : Closing(s) \in Closed(R, n, o)
  BY <1>2
<1>6. History(after, Closed(R, n, o))
  <2>1. \A r \in Closed(R, n, o) : r.number \in 1..after.attempt_count /\ r.outcome # "running"
    BY <1>3, <1>4 DEF History, n
  <2>2. \A r, s \in Closed(R, n, o) : r.number = s.number => r = s
    BY <1>3, <1>4 DEF History
  <2>3. \A m \in 1..after.attempt_count : \E r \in Closed(R, n, o) : r.number = m
    BY <1>3, <1>5 DEF History
  <2> QED BY <2>1, <2>2, <2>3 DEF History
<1>7. \A r \in R : r.outcome # "running" => r \in Closed(R, n, o)
  BY <1>3, <1>5
<1>8. \E r \in Closed(R, n, o) : r.number = n /\ r.outcome = o
  <2>1. PICK r \in R : r.number = n
    BY <1>1 DEF History, n
  <2> QED BY <1>3, <1>5, <2>1
<1> QED BY <1>6, <1>7, <1>8 DEF n

(* A claim opens the next attempt.                                         *)
LEMMA OpenedKeeps ==
  ASSUME NEW R \in SUBSET AttemptRows(Chunks), NEW row \in JobRow, NEW after \in JobRow,
         History(row, R), row.status # "running",
         after.status = "running", after.attempt_count = row.attempt_count + 1,
         NEW x \in AttemptRows(Chunks), x.number = row.attempt_count + 1, x.outcome = "running"
  PROVE  History(after, R \cup {x})
<1> DEFINE n == row.attempt_count
<1>1. n \in Nat
  BY DEF JobRow
<1>2. \A r \in R : r.number \in Nat /\ r.number <= n /\ r.number # n + 1 /\ r.number \in 1..(n + 1)
  BY <1>1 DEF History, AttemptRows
<1>3. \A r \in R \cup {x} : /\ r.number \in 1..after.attempt_count
                            /\ r.outcome = "running" <=> r.number = after.attempt_count
  BY <1>1, <1>2 DEF History
<1>4. \A r, s \in R \cup {x} : r.number = s.number => r = s
  BY <1>2 DEF History
<1>5. \A m \in 1..after.attempt_count : \E r \in R \cup {x} : r.number = m
  <2> TAKE m \in 1..after.attempt_count
  <2>1. m \in 1..n \/ m = n + 1
    BY <1>1
  <2> QED BY <2>1 DEF History
<1> QED BY <1>3, <1>4, <1>5 DEF History

(* Other changes keep the claim as it is.                                  *)
LEMMA SameHistory ==
  ASSUME NEW R, NEW row, NEW after, History(row, R),
         after.attempt_count = row.attempt_count,
         after.status = "running" <=> row.status = "running"
  PROVE  History(after, R)
  BY DEF History

(* The attempts that a claim of several jobs starts.                       *)
Starts(rows, S, n, T) ==
  S # {} /\ T = UNION {StartAttempt(rows, Owned(c), c, n[c]) : c \in S}

Started(rows, S, n, T) ==
  /\ T \in SUBSET AttemptRows(Chunks) /\ rows \subseteq T
  /\ \A c \in Chunks :
       OfChunk(T, c) = OfChunk(rows, c) \cup
         (IF c \in S /\ Owned(c)
          THEN {[job |-> c, number |-> n[c], outcome |-> "running"]} ELSE {})

LEMMA StartAttemptsOf ==
  ASSUME NEW rows \in SUBSET AttemptRows(Chunks), NEW S \in SUBSET Chunks,
         NEW n \in [Chunks -> Nat], NEW T, Starts(rows, S, n, T)
  PROVE  Started(rows, S, n, T)
<1> DEFINE New(c) == [job |-> c, number |-> n[c], outcome |-> "running"]
<1>1. \A c \in Chunks : New(c) \in AttemptRows(Chunks) /\ New(c).job = c
  BY DEF AttemptRows, Outcomes
<1>2. \A c : StartAttempt(rows, Owned(c), c, n[c]) = IF Owned(c) THEN rows \cup {New(c)} ELSE rows
  BY DEF StartAttempt
<1> HIDE DEF New
<1>3. \A r : r \in T <=> r \in rows \/ \E c \in S : Owned(c) /\ r = New(c)
  BY <1>2 DEF Starts
<1>4. T \in SUBSET AttemptRows(Chunks) /\ rows \subseteq T
  BY <1>1, <1>3
<1>5. ASSUME NEW c \in Chunks
      PROVE  OfChunk(T, c) = OfChunk(rows, c) \cup (IF c \in S /\ Owned(c) THEN {New(c)} ELSE {})
  BY <1>1, <1>3 DEF OfChunk
<1> QED BY <1>4, <1>5 DEF New, Started
-----------------------------------------------------------------------------
(* What is true of each chunk: the parts of ResultsMatchJobs, with what    *)
(* they rest on.  The history of a job is kept for as long as its chunk is *)
(* not gone: before the job there are no attempts, and the number of a     *)
(* claim is its token.                                                     *)
ChunkSound(c) ==
  /\ c \in queued \/ HasResult(c) => Live(c)
  /\ c \notin queued => job[c] = NewJob
  /\ job[c].status = "running" =>
       job[c].lease_token = job[c].attempt_count /\ job[c].attempt_count # 0
  /\ Owned(c) /\ chunk[c] # "gone" => History(job[c], OfChunk(attempts, c))
  /\ HasResult(c) /\ Owned(c) =>
       [job |-> c, number |-> result[c], outcome |-> "succeeded"] \in attempts
  /\ kind = "embedding" /\ HasStatus(c, {"completed"}) => HasResult(c)

(* What a worker concluded when it loaded its chunks stays true: an        *)
(* embedding that needed no work is there, or its chunk is gone.           *)
WorkersKnow ==
  \A w \in Workers :
    /\ \A c \in Chunks : worker[w].claims[c] # NoToken => chunk[c] # "absent"
    /\ worker[w].pc \in {"loaded", "ran"} /\ kind = "embedding" =>
         \A c \in Chunks : worker[w].claims[c] # NoToken =>
           c \in worker[w].needed \/ chunk[c] = "gone" \/ HasResult(c)
    /\ worker[w].pc = "ran" /\ kind = "embedding" /\ worker[w].needed # {} =>
         worker[w].outcome \in {"rows", "error"}

ChunkInv == TypeOK /\ (\A c \in Chunks : ChunkSound(c)) /\ WorkersKnow

LEMMA ChunkInvSuffices == ChunkInv => ResultsMatchJobs
<1> SUFFICES ASSUME ChunkInv PROVE ResultsMatchJobs
  OBVIOUS
<1>1. NothingOutlivesItsChunk /\ ResultsHaveSucceeded
  BY DEF ChunkInv, ChunkSound, NothingOutlivesItsChunk, ResultsHaveSucceeded
<1>2. AttemptsMirrorJobs
  <2> SUFFICES ASSUME NEW c \in queued, Owned(c), NEW n \in 1..job[c].attempt_count
               PROVE  \E r \in attempts :
                        /\ r.job = c /\ r.number = n
                        /\ \A s \in attempts : s.job = c /\ s.number = n => s = r
                        /\ r.outcome = "running" <=>
                             job[c].status = "running" /\ n = job[c].attempt_count
    BY DEF AttemptsMirrorJobs
  <2>1. c \in Chunks /\ History(job[c], OfChunk(attempts, c))
    BY DEF ChunkInv, ChunkSound, Live, TypeOK
  <2>2. PICK r \in OfChunk(attempts, c) : r.number = n
    BY <2>1 DEF History
  <2>3. r \in attempts /\ r.job = c /\ \A s \in attempts : s.job = c => s \in OfChunk(attempts, c)
    BY DEF OfChunk
  <2>4. r.outcome = "running" <=> job[c].status = "running" /\ n = job[c].attempt_count
    BY <2>1, <2>2 DEF History
  <2>5. \A s \in attempts : s.job = c /\ s.number = n => s = r
    BY <2>1, <2>2, <2>3 DEF History
  <2> QED BY <2>2, <2>3, <2>4, <2>5
<1> QED BY <1>1, <1>2 DEF ChunkInv, ResultsMatchJobs

LEMMA IdleWorker ==
  Idle \in WorkerState /\ Crashed \in WorkerState /\ Idle.claims = Unclaimed
  /\ Crashed.claims = Unclaimed /\ Idle.needed = {} /\ Crashed.needed = {}
  BY DEF Idle, Crashed, Unclaimed, WorkerState, NoToken, Busy

LEMMA NewRow ==
  NewJob \in JobRow /\ NewJob.status = "pending" /\ NewJob.attempt_count = 0
  BY RowTypes DEF NewJob

LEMMA InitChunks == Init => ChunkInv
<1> SUFFICES ASSUME Init PROVE ChunkInv
  OBVIOUS
<1>1. TypeOK
  <2>1. NoPage \in [new: SUBSET Chunks, finished: SUBSET Chunks]
    BY DEF NoPage
  <2>2. disruptions \in 0..MaxDisruptions
    BY ConstantsAssumption DEF Init
  <2>3. result \in [Chunks -> Nat]
    BY DEF Init, NoResult
  <2> QED BY <2>1, <2>2, <2>3, IdleWorker, NewRow DEF Init, TypeOK
<1>2. ASSUME NEW c \in Chunks PROVE ChunkSound(c)
  <2>1. OfChunk(attempts, c) = {} /\ job[c] = NewJob /\ c \notin queued /\ ~HasResult(c)
    BY DEF Init, OfChunk, HasResult
  <2>2. History(job[c], {})
    BY <2>1, NewRow DEF History
  <2> QED BY <2>1, <2>2, NewRow DEF ChunkSound, HasStatus
<1>3. WorkersKnow
  <2>1. \A w \in Workers : worker[w] = Idle
    BY DEF Init
  <2> QED BY <2>1, IdleWorker DEF WorkersKnow, Unclaimed, Idle
<1> QED BY <1>1, <1>2, <1>3 DEF ChunkInv
-----------------------------------------------------------------------------

(* A chunk whose row changes in neither claim nor verdict stays sound.     *)
LEMMA KeptSound ==
  ASSUME TypeOK, NEW c \in Chunks, ChunkSound(c), kind' = kind,
         chunk'[c] = chunk[c], c \in queued' <=> c \in queued, result'[c] = result[c],
         OfChunk(attempts', c) = OfChunk(attempts, c),
         job'[c].attempt_count = job[c].attempt_count,
         job'[c].status = "running" <=> job[c].status = "running",
         job[c].status = "running" => job'[c].lease_token = job[c].lease_token,
         job'[c].status = "completed" => job[c].status = "completed",
         c \notin queued => job'[c] = job[c]
  PROVE  ChunkSound(c)'
<1>1. Owned(c) /\ chunk[c] # "gone" => History(job'[c], OfChunk(attempts', c))
  BY SameHistory DEF ChunkSound
<1>2. HasResult(c) /\ Owned(c) =>
        [job |-> c, number |-> result[c], outcome |-> "succeeded"] \in attempts'
  <2> DEFINE r == [job |-> c, number |-> result[c], outcome |-> "succeeded"]
  <2>1. r.job = c
    OBVIOUS
  <2>2. HasResult(c) /\ Owned(c) => r \in OfChunk(attempts, c)
    BY DEF ChunkSound, OfChunk
  <2> HIDE DEF r
  <2>3. HasResult(c) /\ Owned(c) => r \in attempts'
    BY <2>2 DEF OfChunk
  <2> QED BY <2>3 DEF r
<1> QED BY <1>1, <1>2 DEF ChunkSound, HasResult, Live, HasStatus, Owned

(* A running row ends with its attempt: recovered, or finished with the    *)
(* result of this attempt, none, or the one there was.                     *)
LEMMA EndedSound ==
  ASSUME TypeOK, NEW c \in Chunks, ChunkSound(c), kind' = kind,
         chunk'[c] = chunk[c], c \in queued, c \in queued',
         job[c].status = "running", job'[c] \in JobRow,
         job'[c].status # "running", job'[c].attempt_count = job[c].attempt_count,
         NEW o \in Outcomes \ {"running"},
         OfChunk(attempts', c) = Closed(OfChunk(attempts, c), job[c].attempt_count, o),
         \/ result'[c] = result[c]
         \/ result'[c] = NoResult
         \/ result'[c] = job[c].attempt_count /\ o = "succeeded",
         kind = "embedding" /\ job'[c].status = "completed" => result'[c] # NoResult
  PROVE  ChunkSound(c)'
<1> DEFINE R == OfChunk(attempts, c)
           n == job[c].attempt_count
<1>1. /\ R \in SUBSET AttemptRows(Chunks) /\ job[c] \in JobRow /\ Live(c) /\ n # 0
      /\ Owned(c) => History(job[c], R)
  BY DEF TypeOK, OfChunk, ChunkSound, Live
<1> HIDE DEF R
<1>2. Owned(c) => /\ History(job'[c], Closed(R, n, o))
                  /\ \A r \in R : r.outcome # "running" => r \in Closed(R, n, o)
                  /\ \E r \in Closed(R, n, o) : r.number = n /\ r.outcome = o
  BY <1>1, ClosedKeeps
<1>3. \A r \in OfChunk(attempts', c) : r \in attempts' /\ r.job = c
  BY DEF OfChunk
<1>4. ASSUME Owned(c), result'[c] # NoResult
      PROVE  [job |-> c, number |-> result'[c], outcome |-> "succeeded"] \in attempts'
  <2>1. CASE result'[c] = result[c]
    <3> DEFINE x == [job |-> c, number |-> result[c], outcome |-> "succeeded"]
    <3>1. x \in attempts /\ x.job = c /\ x.outcome = "succeeded"
      BY <1>4, <2>1 DEF ChunkSound, HasResult
    <3> HIDE DEF x
    <3>2. x \in R
      BY <3>1 DEF OfChunk, R
    <3>3. x \in OfChunk(attempts', c)
      BY <1>2, <1>4, <3>1, <3>2 DEF R
    <3> QED BY <1>3, <2>1, <3>3 DEF x
  <2>2. CASE result'[c] = n /\ o = "succeeded"
    <3>1. PICK r \in OfChunk(attempts', c) : r.number = n /\ r.outcome = o
      BY <1>2, <1>4 DEF R
    <3>2. \A s \in Closed(R, n, o) : s \in AttemptRows(Chunks)
      BY <1>1 DEF Closed, AttemptRows
    <3>3. r \in AttemptRows(Chunks) /\ r.job = c
      BY <1>3, <3>2 DEF R
    <3>4. r = [job |-> c, number |-> n, outcome |-> "succeeded"]
      BY <2>2, <3>1, <3>3 DEF AttemptRows
    <3> QED BY <1>3, <2>2, <3>4
  <2> QED BY <1>4, <2>1, <2>2
<1>5. Owned(c) => History(job'[c], OfChunk(attempts', c))
  BY <1>2 DEF R
<1>6. Live(c)' /\ c \in queued'
  BY <1>1 DEF Live
<1> QED BY <1>4, <1>5, <1>6 DEF ChunkSound, HasResult, HasStatus, Owned

(* A claim of a pending row.                                               *)
LEMMA ClaimedSound ==
  ASSUME TypeOK, NEW c \in Chunks, ChunkSound(c), kind' = kind,
         chunk'[c] = chunk[c], c \in queued, c \in queued', result'[c] = result[c],
         job[c].status = "pending", job'[c] = Claimed(job[c]),
         attempts \subseteq attempts',
         OfChunk(attempts', c) = OfChunk(attempts, c) \cup
           (IF Owned(c)
            THEN {[job |-> c, number |-> job'[c].attempt_count, outcome |-> "running"]} ELSE {})
  PROVE  ChunkSound(c)'
<1> DEFINE R == OfChunk(attempts, c)
           x == [job |-> c, number |-> job'[c].attempt_count, outcome |-> "running"]
<1>1. /\ R \in SUBSET AttemptRows(Chunks) /\ job[c] \in JobRow /\ Live(c)
      /\ Owned(c) => History(job[c], R)
  BY DEF TypeOK, OfChunk, ChunkSound, Live
<1>2. /\ job'[c] \in JobRow /\ job'[c].status = "running"
      /\ job'[c].attempt_count = job[c].attempt_count + 1 /\ job[c].attempt_count \in Nat
      /\ job'[c].lease_token = job[c].attempt_count + 1
  BY <1>1, ClaimedType
<1>3. /\ x \in AttemptRows(Chunks) /\ x.outcome = "running"
      /\ x.number = job[c].attempt_count + 1
  BY <1>2 DEF AttemptRows, Outcomes
<1> HIDE DEF x, R
<1>4. Owned(c) => History(job'[c], R \cup {x})
  BY <1>1, <1>2, <1>3, OpenedKeeps
<1>5. Owned(c) => History(job'[c], OfChunk(attempts', c))
  BY <1>4 DEF R, x
<1>6. job[c].attempt_count + 1 # 0
  BY <1>2
<1> QED BY <1>1, <1>2, <1>5, <1>6 DEF ChunkSound, HasResult, HasStatus, Owned, Live

(* Workers that go on, or start over, keep what they know, while chunks    *)
(* only appear and go and vectors only go with their chunks.               *)
LEMMA WorkersKeep ==
  ASSUME WorkersKnow, kind' = kind,
         \A w \in Workers : \/ worker'[w] = worker[w]
                            \/ worker'[w].claims = Unclaimed /\ worker'[w].needed = {},
         \A c \in Chunks : chunk[c] # "absent" => chunk'[c] # "absent",
         \A c \in Chunks : chunk[c] = "gone" => chunk'[c] = "gone",
         \A c \in Chunks : kind = "embedding" /\ HasResult(c) =>
                             HasResult(c)' \/ chunk'[c] = "gone"
  PROVE  WorkersKnow'
<1> SUFFICES ASSUME NEW w \in Workers
             PROVE  /\ \A c \in Chunks : worker'[w].claims[c] # NoToken => chunk'[c] # "absent"
                    /\ worker'[w].pc \in {"loaded", "ran"} /\ kind = "embedding" =>
                         \A c \in Chunks : worker'[w].claims[c] # NoToken =>
                           c \in worker'[w].needed \/ chunk'[c] = "gone" \/ HasResult(c)'
                    /\ worker'[w].pc = "ran" /\ kind = "embedding" /\ worker'[w].needed # {} =>
                         worker'[w].outcome \in {"rows", "error"}
  BY DEF WorkersKnow
<1>1. CASE worker'[w] = worker[w]
  BY <1>1 DEF WorkersKnow
<1>2. CASE worker'[w].claims = Unclaimed /\ worker'[w].needed = {}
  BY <1>2 DEF Unclaimed
<1> QED BY <1>1, <1>2

(* A step that leaves the rows of chunks alone.                            *)
LEMMA QuietSound ==
  ASSUME ChunkInv, UNCHANGED <<kind, chunk, queued, job, result, attempts>>
  PROVE  \A c \in Chunks : ChunkSound(c)'
  BY DEF ChunkInv, ChunkSound, HasResult, Live, HasStatus, Owned, OfChunk

LEMMA ReplaceKeeps ==
  ASSUME ChunkInv, NEW d, NEW S \in SUBSET Chunks, Replace(d, S)
  PROVE  ChunkInv'
<1> DEFINE old == {c \in Chunks : DocOf[c] = d /\ Live(c)}
           new == IF AutoQueue /\ kind = "embedding" THEN S ELSE {}
<1>1. /\ chunk' = [c \in Chunks |->
                     IF c \in old THEN "gone" ELSE IF c \in S THEN "live" ELSE chunk[c]]
      /\ queued' = (queued \ old) \cup new
      /\ job' = [c \in Chunks |-> IF c \in old THEN NewJob ELSE job[c]]
      /\ result' = [c \in Chunks |-> IF c \in old THEN NoResult ELSE result[c]]
      /\ UNCHANGED <<kind, attempts, worker, page, disruptions>>
  BY DEF Replace
<1>2. /\ \A c \in old : chunk[c] = "live"
      /\ \A c \in S : chunk[c] = "absent"
      /\ new \subseteq S /\ S \cap old = {}
  BY DEF Replace, Live
<1> HIDE DEF old, new
<1>3. TypeOK'
  <2>1. chunk' \in [Chunks -> {"absent", "live", "gone"}]
    BY <1>1 DEF ChunkInv, TypeOK
  <2>2. job' \in [Chunks -> JobRow] /\ result' \in [Chunks -> Nat]
    BY <1>1, NewRow DEF ChunkInv, TypeOK, NoResult
  <2>3. queued' \subseteq Chunks
    BY <1>1, <1>2 DEF ChunkInv, TypeOK
  <2> QED BY <1>1, <2>1, <2>2, <2>3 DEF ChunkInv, TypeOK
<1>4. ASSUME NEW c \in Chunks PROVE ChunkSound(c)'
  <2>0. ChunkSound(c)
    BY DEF ChunkInv
  <2>1. CASE c \in old
    <3>1. chunk'[c] = "gone" /\ c \notin queued' /\ job'[c] = NewJob /\ result'[c] = NoResult
      BY <1>1, <1>2, <2>1
    <3> QED BY <3>1, NewRow DEF ChunkSound, HasResult, HasStatus, Live
  <2>2. CASE c \in S
    <3>1. chunk'[c] = "live" /\ job'[c] = job[c] /\ result'[c] = result[c] /\ c \notin old
      BY <1>1, <1>2, <2>2
    <3>2. job[c] = NewJob /\ result[c] = NoResult /\ chunk[c] # "gone"
      BY <1>2, <2>0, <2>2 DEF ChunkSound, HasResult, Live
    <3>3. Owned(c) => History(job'[c], OfChunk(attempts', c))
      BY <1>1, <2>0, <3>1, <3>2 DEF ChunkSound, OfChunk
    <3> QED BY <3>1, <3>2, <3>3, NewRow DEF ChunkSound, HasResult, HasStatus, Live, Owned
  <2>3. CASE c \notin old /\ c \notin S
    <3>1. /\ chunk'[c] = chunk[c] /\ job'[c] = job[c] /\ result'[c] = result[c]
          /\ c \in queued' <=> c \in queued
      BY <1>1, <1>2, <2>3 DEF ChunkInv, TypeOK
    <3>2. OfChunk(attempts', c) = OfChunk(attempts, c)
      BY <1>1
    <3> QED BY <1>1, <2>0, <3>1, <3>2, KeptSound DEF ChunkInv
  <2> QED BY <2>1, <2>2, <2>3
<1>5. WorkersKnow'
  <2>1. \A c \in Chunks : chunk[c] # "absent" => chunk'[c] # "absent"
    BY <1>1, <1>2
  <2>2. \A c \in Chunks : chunk[c] = "gone" => chunk'[c] = "gone"
    BY <1>1, <1>2
  <2>3. \A c \in Chunks : HasResult(c) => HasResult(c)' \/ chunk'[c] = "gone"
    BY <1>1 DEF HasResult
  <2> QED BY <1>1, <2>1, <2>2, <2>3, WorkersKeep DEF ChunkInv
<1> QED BY <1>3, <1>4, <1>5 DEF ChunkInv

(* Reading a page, or giving one up.                                       *)
LEMMA PageKeeps ==
  ASSUME ChunkInv, NEW b \in Backfills,
         (\E S \in SUBSET Chunks : ReadPage(b, S)) \/ PageRejected(b)
  PROVE  ChunkInv'
<1>1. UNCHANGED <<kind, chunk, queued, job, result, attempts, worker>>
  BY DEF ReadPage, PageRejected
<1>2. page' \in [Backfills -> [new: SUBSET Chunks, finished: SUBSET Chunks]]
  <2>1. CASE \E S \in SUBSET Chunks : ReadPage(b, S)
    <3>1. PICK S \in SUBSET Chunks : ReadPage(b, S)
      BY <2>1
    <3> DEFINE wanted == {c \in S : Needs(c)}
    <3>2. page' = [page EXCEPT ![b] = [new |-> wanted \ queued, finished |-> wanted \cap queued]]
      BY <3>1 DEF ReadPage
    <3>3. wanted \subseteq Chunks
      OBVIOUS
    <3> HIDE DEF wanted
    <3> QED BY <3>2, <3>3 DEF ChunkInv, TypeOK
  <2>2. CASE PageRejected(b)
    BY <2>2 DEF PageRejected, NoPage, ChunkInv, TypeOK
  <2> QED BY <2>1, <2>2
<1>3. disruptions' \in 0..MaxDisruptions
  BY ConstantsAssumption DEF ReadPage, PageRejected, Disrupt, ChunkInv, TypeOK
<1>4. TypeOK'
  BY <1>1, <1>2, <1>3 DEF ChunkInv, TypeOK
<1>5. \A c \in Chunks : ChunkSound(c)'
  BY <1>1, QuietSound
<1>6. WorkersKnow'
  BY <1>1, WorkersKeep DEF ChunkInv, HasResult
<1> QED BY <1>4, <1>5, <1>6 DEF ChunkInv

(* Queueing chunks that are there, and putting finished jobs back.         *)
LEMMA QueueKeeps ==
  ASSUME ChunkInv, NEW new \in SUBSET Chunks, NEW finished \in SUBSET Chunks,
         Queue(new, finished), \A c \in new : Live(c),
         UNCHANGED <<kind, chunk, result, attempts, worker>>,
         page' \in [Backfills -> [new: SUBSET Chunks, finished: SUBSET Chunks]],
         disruptions' \in 0..MaxDisruptions
  PROVE  ChunkInv'
<1>1. /\ queued' = queued \cup new
      /\ \A c \in Chunks : job'[c] = IF c \in new \ queued THEN NewJob
            ELSE IF c \in finished /\ HasStatus(c, Requeueable) THEN Requeued(job[c])
            ELSE job[c]
  BY DEF Queue
<1>2. Requeueable \subseteq {"completed", "failed"}
  BY DEF Requeueable
<1>3. TypeOK'
  <2>1. \A c \in Chunks : job'[c] \in JobRow
    BY <1>1, NewRow, RowTypes DEF ChunkInv, TypeOK
  <2>2. job' \in [Chunks -> JobRow]
    BY <2>1 DEF Queue
  <2> QED BY <1>1, <2>2 DEF ChunkInv, TypeOK
<1>4. ASSUME NEW c \in Chunks PROVE ChunkSound(c)'
  <2>0. ChunkSound(c) /\ job[c] \in JobRow /\ OfChunk(attempts', c) = OfChunk(attempts, c)
    BY DEF ChunkInv, TypeOK
  <2>1. CASE c \in new \ queued
    <3>1. job'[c] = job[c] /\ job[c] = NewJob /\ chunk'[c] = "live" /\ c \in queued'
      BY <1>1, <2>0, <2>1 DEF ChunkSound, Live
    <3>2. Owned(c) => History(job'[c], OfChunk(attempts', c))
      BY <2>0, <3>1 DEF ChunkSound
    <3> QED BY <2>0, <3>1, <3>2, NewRow DEF ChunkSound, HasResult, HasStatus, Live, Owned
  <2>2. CASE c \notin new \ queued /\ c \in finished /\ HasStatus(c, Requeueable)
    <3>1. job'[c] = Requeued(job[c]) /\ c \in queued /\ job[c].status # "running"
      BY <1>1, <1>2, <2>2 DEF HasStatus
    <3>2. job'[c].attempt_count = job[c].attempt_count /\ job'[c].status = "pending"
      BY <2>0, <3>1, RowClaims
    <3> QED BY <1>1, <2>0, <3>1, <3>2, KeptSound DEF ChunkInv
  <2>3. CASE c \notin new \ queued /\ ~(c \in finished /\ HasStatus(c, Requeueable))
    <3>1. job'[c] = job[c] /\ (c \in queued' <=> c \in queued)
      BY <1>1, <2>3
    <3> QED BY <2>0, <3>1, KeptSound DEF ChunkInv
  <2> QED BY <2>1, <2>2, <2>3
<1>5. WorkersKnow'
  BY WorkersKeep DEF ChunkInv, HasResult
<1> QED BY <1>3, <1>4, <1>5 DEF ChunkInv

LEMMA WritePageKeeps ==
  ASSUME ChunkInv, NEW b \in Backfills, WritePage(b)
  PROVE  ChunkInv'
<1>1. /\ page[b].new \in SUBSET Chunks /\ page[b].finished \in SUBSET Chunks
      /\ page' \in [Backfills -> [new: SUBSET Chunks, finished: SUBSET Chunks]]
  BY DEF WritePage, ChunkInv, TypeOK, NoPage
<1>2. disruptions' \in 0..MaxDisruptions
  BY DEF WritePage, ChunkInv, TypeOK
<1> QED BY <1>1, <1>2, QueueKeeps DEF WritePage

LEMMA RetryKeeps ==
  ASSUME ChunkInv, NEW c \in Chunks, Retry(c)
  PROVE  ChunkInv'
<1>1. disruptions' \in 0..MaxDisruptions
  BY ConstantsAssumption DEF Retry, Disrupt, ChunkInv, TypeOK
<1>2. page' \in [Backfills -> [new: SUBSET Chunks, finished: SUBSET Chunks]]
  BY DEF Retry, ChunkInv, TypeOK
<1>3. {c} \in SUBSET Chunks /\ {} \in SUBSET Chunks
  OBVIOUS
<1> QED BY <1>1, <1>2, <1>3, QueueKeeps DEF Retry
-----------------------------------------------------------------------------

LEMMA RecoverKeeps ==
  ASSUME ChunkInv, NEW w \in Workers, NEW S \in SUBSET Chunks, Recover(w, S)
  PROVE  ChunkInv'
<1>1. /\ \A c \in S : c \in queued /\ job[c].status = "running"
      /\ job' = [c \in Chunks |-> IF c \in S THEN Recovered(job[c]) ELSE job[c]]
      /\ attempts' = FinishAttempts(attempts, S, job, "recovered")
      /\ UNCHANGED <<kind, chunk, queued, result, worker, page, disruptions>>
  BY DEF Recover, Stale
<1>2. TypeOK'
  <2>1. job' \in [Chunks -> JobRow]
    BY <1>1, RowTypes DEF ChunkInv, TypeOK
  <2>2. attempts' \subseteq AttemptRows(Chunks)
    BY <1>1, FinishAttemptsType DEF ChunkInv, TypeOK, Outcomes
  <2> QED BY <1>1, <2>1, <2>2 DEF ChunkInv, TypeOK
<1>3. ASSUME NEW c \in Chunks PROVE ChunkSound(c)'
  <2>0. /\ ChunkSound(c) /\ TypeOK /\ job[c] \in JobRow /\ attempts \in SUBSET AttemptRows(Chunks)
        /\ "recovered" \in Outcomes \ {"running"} /\ "recovered" \in Outcomes
    BY DEF ChunkInv, TypeOK, Outcomes
  <2>1. OfChunk(attempts', c) = IF c \in S
                                THEN Closed(OfChunk(attempts, c), job[c].attempt_count, "recovered")
                                ELSE OfChunk(attempts, c)
    BY <1>1, <2>0, FinishAttemptsOf
  <2>2. CASE c \in S
    <3>1. /\ job'[c] = Recovered(job[c]) /\ job'[c] \in JobRow
          /\ job'[c].status = "pending" /\ job'[c].attempt_count = job[c].attempt_count
      BY <1>1, <2>0, <2>2, RowTypes, RowClaims
    <3> QED BY <1>1, <2>0, <2>1, <2>2, <3>1, EndedSound
  <2>3. CASE c \notin S
    <3>1. job'[c] = job[c]
      BY <1>1, <2>3
    <3> QED BY <1>1, <2>0, <2>1, <2>3, <3>1, KeptSound
  <2> QED BY <2>2, <2>3
<1>4. WorkersKnow'
  BY <1>1, WorkersKeep DEF ChunkInv, HasResult
<1> QED BY <1>2, <1>3, <1>4 DEF ChunkInv

LEMMA ClaimKeeps ==
  ASSUME ChunkInv, NEW w \in Workers, NEW S \in SUBSET Chunks, Claim(w, S)
  PROVE  ChunkInv'
<1> DEFINE claims == [c \in Chunks |-> IF c \in S THEN job'[c].lease_token ELSE NoToken]
           x == [Idle EXCEPT !.pc = "claimed", !.claims = claims]
           n == [c \in Chunks |-> job'[c].attempt_count]
<1>1. /\ S # {} /\ \A c \in S : c \in queued /\ job[c].status = "pending"
      /\ job' = [c \in Chunks |-> IF c \in S THEN Claimed(job[c]) ELSE job[c]]
      /\ worker' = [worker EXCEPT ![w] = x]
      /\ UNCHANGED <<kind, chunk, queued, result, page, disruptions>>
  BY DEF Claim, HasStatus
<1>2. job' \in [Chunks -> JobRow]
  BY <1>1, ClaimedType DEF ChunkInv, TypeOK
<1>3. n \in [Chunks -> Nat] /\ claims \in [Chunks -> Nat]
  BY <1>2 DEF JobRow, NoToken
<1>4. attempts' = UNION {StartAttempt(attempts, Owned(c), c, n[c]) : c \in S}
  <2>1. \A c \in S : n[c] = job'[c].attempt_count
    OBVIOUS
  <2> HIDE DEF n
  <2> QED BY <2>1 DEF Claim
<1>5. /\ x \in WorkerState /\ x.pc = "claimed" /\ x.claims = claims
  BY <1>3, IdleWorker DEF WorkerState, Busy, Idle
<1>6. /\ attempts' \in SUBSET AttemptRows(Chunks) /\ attempts \subseteq attempts'
      /\ \A c \in Chunks :
           OfChunk(attempts', c) = OfChunk(attempts, c) \cup
             (IF c \in S /\ Owned(c)
              THEN {[job |-> c, number |-> n[c], outcome |-> "running"]} ELSE {})
  <2> HIDE DEF n
  <2>1. attempts \in SUBSET AttemptRows(Chunks)
    BY DEF ChunkInv, TypeOK
  <2>2. Starts(attempts, S, n, attempts')
    BY <1>1, <1>4 DEF Starts
  <2> HIDE DEF claims, x
  <2>3. Started(attempts, S, n, attempts')
    BY <1>3, <2>1, <2>2, StartAttemptsOf
  <2> QED BY <2>3 DEF Started
<1> HIDE DEF x
<1>7. TypeOK'
  BY <1>1, <1>2, <1>5, <1>6 DEF ChunkInv, TypeOK
<1>8. ASSUME NEW c \in Chunks PROVE ChunkSound(c)'
  <2>0. ChunkSound(c) /\ TypeOK
    BY DEF ChunkInv
  <2>1. CASE c \in S
    <3>1. job'[c] = Claimed(job[c]) /\ n[c] = job'[c].attempt_count
      BY <1>1, <2>1
    <3>2. OfChunk(attempts', c) = OfChunk(attempts, c) \cup
            (IF Owned(c)
             THEN {[job |-> c, number |-> job'[c].attempt_count, outcome |-> "running"]} ELSE {})
      BY <1>6, <2>1, <3>1
    <3> QED BY <1>1, <1>6, <2>0, <2>1, <3>1, <3>2, ClaimedSound
  <2>2. CASE c \notin S
    <3>1. job'[c] = job[c] /\ OfChunk(attempts', c) = OfChunk(attempts, c)
      BY <1>1, <1>6, <2>2
    <3> QED BY <1>1, <2>0, <3>1, KeptSound
  <2> QED BY <2>1, <2>2
<1>9. WorkersKnow'
  <2> SUFFICES ASSUME NEW v \in Workers
               PROVE  /\ \A c \in Chunks : worker'[v].claims[c] # NoToken => chunk[c] # "absent"
                      /\ worker'[v].pc \in {"loaded", "ran"} /\ kind = "embedding" =>
                           \A c \in Chunks : worker'[v].claims[c] # NoToken =>
                             c \in worker'[v].needed \/ chunk[c] = "gone" \/ HasResult(c)
                      /\ worker'[v].pc = "ran" /\ kind = "embedding" /\ worker'[v].needed # {} =>
                           worker'[v].outcome \in {"rows", "error"}
    BY <1>1 DEF WorkersKnow, HasResult
  <2>1. CASE v = w
    <3>1. worker'[v] = x
      BY <1>1, <2>1 DEF ChunkInv, TypeOK
    <3>2. \A c \in S : chunk[c] # "absent"
      BY <1>1 DEF ChunkInv, ChunkSound, Live
    <3>3. \A c \in Chunks : worker'[v].claims[c] # NoToken => c \in S
      BY <1>5, <3>1
    <3> QED BY <1>5, <3>1, <3>2, <3>3
  <2>2. CASE v # w
    <3>1. worker'[v] = worker[v]
      BY <1>1, <2>2 DEF ChunkInv, TypeOK
    <3> QED BY <3>1 DEF ChunkInv, WorkersKnow
  <2> QED BY <2>1, <2>2
<1> QED BY <1>7, <1>8, <1>9 DEF ChunkInv

LEMMA LoadKeeps ==
  ASSUME ChunkInv, NEW w \in Workers, Load(w)
  PROVE  ChunkInv'
<1> DEFINE needed == {c \in Chunks : /\ worker[w].claims[c] # NoToken
                                     /\ Live(c)
                                     /\ kind = "embedding" => ~HasResult(c)}
           x == [worker[w] EXCEPT !.pc = "loaded", !.needed = needed]
<1>1. /\ worker' = [worker EXCEPT ![w] = x]
      /\ UNCHANGED <<kind, chunk, queued, job, result, attempts, page, disruptions>>
  BY DEF Load, ChunkInv, TypeOK, WorkerState
<1>2. x \in WorkerState /\ x.pc = "loaded" /\ x.claims = worker[w].claims /\ x.needed = needed
  BY ZenonT(30) DEF ChunkInv, TypeOK, WorkerState, Busy
<1>3. \A c \in Chunks : worker[w].claims[c] # NoToken =>
        /\ chunk[c] # "absent"
        /\ kind = "embedding" => c \in needed \/ chunk[c] = "gone" \/ HasResult(c)
  <2>1. \A c \in Chunks : worker[w].claims[c] # NoToken => chunk[c] # "absent"
    BY DEF ChunkInv, WorkersKnow
  <2>2. \A c \in Chunks : chunk[c] \in {"absent", "live", "gone"}
    BY DEF ChunkInv, TypeOK
  <2> QED BY <2>1, <2>2 DEF Live
<1> HIDE DEF x, needed
<1>4. TypeOK'
  BY <1>1, <1>2 DEF ChunkInv, TypeOK
<1>5. \A c \in Chunks : ChunkSound(c)'
  BY <1>1, QuietSound
<1>6. WorkersKnow'
  <2> SUFFICES ASSUME NEW v \in Workers
               PROVE  /\ \A c \in Chunks : worker'[v].claims[c] # NoToken => chunk[c] # "absent"
                      /\ worker'[v].pc \in {"loaded", "ran"} /\ kind = "embedding" =>
                           \A c \in Chunks : worker'[v].claims[c] # NoToken =>
                             c \in worker'[v].needed \/ chunk[c] = "gone" \/ HasResult(c)
                      /\ worker'[v].pc = "ran" /\ kind = "embedding" /\ worker'[v].needed # {} =>
                           worker'[v].outcome \in {"rows", "error"}
    BY <1>1 DEF WorkersKnow, HasResult
  <2>1. CASE v = w
    <3>1. worker'[v] = x
      BY <1>1, <2>1 DEF ChunkInv, TypeOK
    <3> QED BY <1>2, <1>3, <3>1
  <2>2. CASE v # w
    <3>1. worker'[v] = worker[v]
      BY <1>1, <2>2 DEF ChunkInv, TypeOK
    <3> QED BY <3>1 DEF ChunkInv, WorkersKnow
  <2> QED BY <2>1, <2>2
<1> QED BY <1>4, <1>5, <1>6 DEF ChunkInv

LEMMA RunKeeps ==
  ASSUME ChunkInv, NEW w \in Workers, Run(w)
  PROVE  ChunkInv'
<1>1. PICK outcome \in {"none", "rows", "error", "nothing"} :
        /\ worker' = [worker EXCEPT ![w] = [worker[w] EXCEPT !.pc = "ran", !.outcome = outcome]]
        /\ kind = "embedding" /\ worker[w].needed # {} => outcome \in {"rows", "error"}
  <2>1. PICK outcome \in IF worker[w].needed = {} THEN {"none"}
                         ELSE {"rows", "error"}
                              \cup (IF kind = "embedding" THEN {} ELSE {"nothing"}) :
          worker' = [worker EXCEPT ![w].pc = "ran", ![w].outcome = outcome]
    BY DEF Run
  <2>2. worker' = [worker EXCEPT ![w] = [worker[w] EXCEPT !.pc = "ran", !.outcome = outcome]]
    BY <2>1 DEF ChunkInv, TypeOK, WorkerState
  <2> QED BY <2>1, <2>2
<1> DEFINE x == [worker[w] EXCEPT !.pc = "ran", !.outcome = outcome]
<1>2. /\ worker[w].pc = "loaded" /\ worker' = [worker EXCEPT ![w] = x]
      /\ UNCHANGED <<kind, chunk, queued, job, result, attempts, page, disruptions>>
  BY <1>1 DEF Run
<1>3. /\ x \in WorkerState /\ x.pc = "ran" /\ x.claims = worker[w].claims
      /\ x.needed = worker[w].needed /\ x.outcome = outcome
  BY ZenonT(30) DEF ChunkInv, TypeOK, WorkerState, Busy
<1> HIDE DEF x
<1>4. TypeOK'
  BY <1>2, <1>3 DEF ChunkInv, TypeOK
<1>5. \A c \in Chunks : ChunkSound(c)'
  BY <1>2, QuietSound
<1>6. WorkersKnow'
  <2> SUFFICES ASSUME NEW v \in Workers
               PROVE  /\ \A c \in Chunks : worker'[v].claims[c] # NoToken => chunk[c] # "absent"
                      /\ worker'[v].pc \in {"loaded", "ran"} /\ kind = "embedding" =>
                           \A c \in Chunks : worker'[v].claims[c] # NoToken =>
                             c \in worker'[v].needed \/ chunk[c] = "gone" \/ HasResult(c)
                      /\ worker'[v].pc = "ran" /\ kind = "embedding" /\ worker'[v].needed # {} =>
                           worker'[v].outcome \in {"rows", "error"}
    BY <1>2 DEF WorkersKnow, HasResult
  <2>1. CASE v = w
    <3>1. worker'[v] = x
      BY <1>2, <2>1 DEF ChunkInv, TypeOK
    <3> QED BY <1>1, <1>2, <1>3, <3>1 DEF ChunkInv, WorkersKnow
  <2>2. CASE v # w
    <3>1. worker'[v] = worker[v]
      BY <1>2, <2>2 DEF ChunkInv, TypeOK
    <3> QED BY <3>1 DEF ChunkInv, WorkersKnow
  <2> QED BY <2>1, <2>2
<1> QED BY <1>4, <1>5, <1>6 DEF ChunkInv

LEMMA HeartbeatKeeps ==
  ASSUME ChunkInv, NEW w \in Workers, Heartbeat(w)
  PROVE  ChunkInv'
<1>1. /\ job' = [c \in Chunks |-> IF c \in Held(w) THEN Extended(job[c]) ELSE job[c]]
      /\ UNCHANGED <<kind, chunk, queued, result, attempts, worker, page, disruptions>>
  BY DEF Heartbeat
<1>2. TypeOK'
  <2>1. job' \in [Chunks -> JobRow]
    BY <1>1, RowTypes DEF ChunkInv, TypeOK
  <2> QED BY <1>1, <2>1 DEF ChunkInv, TypeOK
<1>3. ASSUME NEW c \in Chunks PROVE ChunkSound(c)'
  <2>1. /\ ChunkSound(c) /\ TypeOK /\ job[c] \in JobRow
        /\ c \in Held(w) => c \in queued
    BY DEF ChunkInv, TypeOK, Held, HoldsJob
  <2>2. job'[c] = job[c] \/ (c \in queued /\ job'[c] = Extended(job[c]))
    BY <1>1, <2>1
  <2>3. /\ job'[c].attempt_count = job[c].attempt_count /\ job'[c].status = job[c].status
        /\ job'[c].lease_token = job[c].lease_token
    BY <2>1, <2>2, RowClaims
  <2> QED BY <1>1, <2>1, <2>2, <2>3, KeptSound
<1>4. WorkersKnow'
  BY <1>1, WorkersKeep DEF ChunkInv, HasResult
<1> QED BY <1>2, <1>3, <1>4 DEF ChunkInv

LEMMA LeaseExpiresKeeps ==
  ASSUME ChunkInv, NEW c \in Chunks, LeaseExpires(c)
  PROVE  ChunkInv'
<1>1. /\ job' = [job EXCEPT ![c] = Expired(job[c])] /\ c \in queued
      /\ UNCHANGED <<kind, chunk, queued, result, attempts, worker, page>>
  BY DEF LeaseExpires, HasStatus
<1>2. TypeOK'
  <2>1. job' \in [Chunks -> JobRow]
    BY <1>1, RowTypes DEF ChunkInv, TypeOK
  <2>2. disruptions' \in 0..MaxDisruptions
    BY ConstantsAssumption DEF LeaseExpires, Disrupt, ChunkInv, TypeOK
  <2> QED BY <1>1, <2>1, <2>2 DEF ChunkInv, TypeOK
<1>3. ASSUME NEW b \in Chunks PROVE ChunkSound(b)'
  <2>1. ChunkSound(b) /\ TypeOK /\ job[b] \in JobRow
    BY DEF ChunkInv, TypeOK
  <2>2. job'[b] = job[b] \/ (b \in queued /\ job'[b] = Expired(job[b]))
    BY <1>1 DEF ChunkInv, TypeOK
  <2>3. /\ job'[b].attempt_count = job[b].attempt_count /\ job'[b].status = job[b].status
        /\ job'[b].lease_token = job[b].lease_token
    BY <2>1, <2>2, RowClaims
  <2> QED BY <1>1, <2>1, <2>2, <2>3, KeptSound
<1>4. WorkersKnow'
  BY <1>1, WorkersKeep DEF ChunkInv, HasResult
<1> QED BY <1>2, <1>3, <1>4 DEF ChunkInv

LEMMA ProcessKeeps ==
  ASSUME ChunkInv, NEW w \in Workers, Crash(w) \/ Restart(w)
  PROVE  ChunkInv'
<1>1. /\ worker' = [worker EXCEPT ![w] = Idle] \/ worker' = [worker EXCEPT ![w] = Crashed]
      /\ UNCHANGED <<kind, chunk, queued, job, result, attempts, page>>
  BY DEF Crash, Restart
<1>2. TypeOK'
  <2>1. disruptions' \in 0..MaxDisruptions
    BY ConstantsAssumption DEF Crash, Restart, Disrupt, ChunkInv, TypeOK
  <2> QED BY <1>1, <2>1, IdleWorker DEF ChunkInv, TypeOK
<1>3. \A c \in Chunks : ChunkSound(c)'
  BY <1>1, QuietSound
<1>4. WorkersKnow'
  <2>1. \A v \in Workers : \/ worker'[v] = worker[v]
                           \/ worker'[v].claims = Unclaimed /\ worker'[v].needed = {}
    BY <1>1, IdleWorker DEF ChunkInv, TypeOK
  <2> QED BY <1>1, <2>1, WorkersKeep DEF ChunkInv, HasResult
<1> QED BY <1>2, <1>3, <1>4 DEF ChunkInv

(* The verdicts of a batch: each chunk held gets its own.                  *)
LEMMA FinishKeeps ==
  ASSUME ChunkInv, NEW w \in Workers, Finish(w)
  PROVE  ChunkInv'
<1> DEFINE mine == Held(w)
           failed == IF worker[w].outcome = "error" THEN mine \cap worker[w].needed ELSE {}
           saved == (mine \cap worker[w].needed) \ failed
           first == FinishAttempts(attempts, failed, job, "failed")
<1>1. /\ worker[w].pc = "ran"
      /\ job' = [c \in Chunks |->
           IF c \in failed THEN Finished(job[c], "failed")
           ELSE IF c \in mine THEN Finished(job[c], "completed") ELSE job[c]]
      /\ attempts' = FinishAttempts(first, mine \ failed, job, "succeeded")
      /\ result' = [c \in Chunks |->
           IF c \notin saved THEN result[c]
           ELSE IF worker[w].outcome = "rows" THEN worker[w].claims[c] ELSE NoResult]
      /\ worker' = [worker EXCEPT ![w] = Idle]
      /\ UNCHANGED <<kind, chunk, queued, page, disruptions>>
  BY DEF Finish
<1>2. /\ failed \subseteq mine /\ saved \subseteq mine /\ mine \subseteq Chunks
      /\ failed \cap saved = {}
  BY DEF Held
<1>3. \A c \in mine : /\ worker[w].claims[c] # NoToken /\ c \in queued
                      /\ job[c].status = "running" /\ job[c].lease_token = worker[w].claims[c]
  BY DEF Held, HoldsJob, Holds
<1>4. \A c \in Chunks : worker[w].claims[c] \in Nat
  BY DEF ChunkInv, TypeOK, WorkerState
<1>5. \A c \in mine \ saved : c \in failed \/ c \notin worker[w].needed
  OBVIOUS
<1>6. saved # {} /\ kind = "embedding" => worker[w].outcome = "rows"
  <2>1. saved # {} => worker[w].needed # {} /\ worker[w].outcome # "error"
    OBVIOUS
  <2> HIDE DEF saved
  <2> QED BY <1>1, <2>1 DEF ChunkInv, WorkersKnow
<1> HIDE DEF mine, failed, saved
<1>7. /\ "failed" \in Outcomes \ {"running"} /\ "succeeded" \in Outcomes \ {"running"}
      /\ "failed" \in Statuses /\ "completed" \in Statuses
      /\ attempts \in SUBSET AttemptRows(Chunks) /\ job \in [Chunks -> JobRow]
      /\ TypeOK
  BY DEF Outcomes, Statuses, ChunkInv, TypeOK
<1>8. first \in SUBSET AttemptRows(Chunks)
  BY <1>7, FinishAttemptsType
<1>9. TypeOK'
  <2>1. attempts' \in SUBSET AttemptRows(Chunks)
    <3> HIDE DEF first
    <3> QED BY <1>1, <1>7, <1>8, FinishAttemptsType
  <2>2. job' \in [Chunks -> JobRow]
    BY <1>1, <1>7, RowTypes
  <2>3. result' \in [Chunks -> Nat]
    BY <1>1, <1>4 DEF ChunkInv, TypeOK, NoResult
  <2>4. worker' \in [Workers -> WorkerState]
    BY <1>1, IdleWorker DEF ChunkInv, TypeOK
  <2> QED BY <1>1, <2>1, <2>2, <2>3, <2>4 DEF ChunkInv, TypeOK
<1>10. ASSUME NEW c \in Chunks
       PROVE  OfChunk(attempts', c) =
                IF c \in failed
                THEN Closed(OfChunk(attempts, c), job[c].attempt_count, "failed")
                ELSE IF c \in mine
                THEN Closed(OfChunk(attempts, c), job[c].attempt_count, "succeeded")
                ELSE OfChunk(attempts, c)
  <2>1. OfChunk(first, c) = IF c \in failed
                            THEN Closed(OfChunk(attempts, c), job[c].attempt_count, "failed")
                            ELSE OfChunk(attempts, c)
    BY <1>7, FinishAttemptsOf
  <2> HIDE DEF first
  <2>2. OfChunk(attempts', c) = IF c \in mine \ failed
                                THEN Closed(OfChunk(first, c), job[c].attempt_count, "succeeded")
                                ELSE OfChunk(first, c)
    BY <1>1, <1>7, <1>8, FinishAttemptsOf
  <2> QED BY <1>2, <2>1, <2>2
<1>11. ASSUME NEW c \in Chunks PROVE ChunkSound(c)'
  <2>0. ChunkSound(c) /\ job[c] \in JobRow
    BY <1>7 DEF ChunkInv
  <2>1. CASE c \in failed
    <3>1. /\ job'[c] = Finished(job[c], "failed") /\ result'[c] = result[c]
          /\ OfChunk(attempts', c) = Closed(OfChunk(attempts, c), job[c].attempt_count, "failed")
      BY <1>1, <1>2, <1>10, <2>1
    <3>2. /\ job'[c] \in JobRow /\ job'[c].status = "failed"
          /\ job'[c].attempt_count = job[c].attempt_count
      BY <1>7, <2>0, <3>1, RowTypes, RowClaims
    <3> QED BY <1>1, <1>2, <1>3, <1>7, <2>0, <2>1, <3>1, <3>2, EndedSound
  <2>2. CASE c \in mine \ failed
    <3>1. /\ job'[c] = Finished(job[c], "completed")
          /\ OfChunk(attempts', c) = Closed(OfChunk(attempts, c), job[c].attempt_count, "succeeded")
      BY <1>1, <1>10, <2>2
    <3>2. /\ job'[c] \in JobRow /\ job'[c].status = "completed"
          /\ job'[c].attempt_count = job[c].attempt_count
      BY <1>7, <2>0, <3>1, RowTypes, RowClaims
    <3>3. /\ c \in queued /\ c \in queued' /\ job[c].status = "running"
          /\ worker[w].claims[c] = job[c].attempt_count
          /\ worker[w].claims[c] # NoToken
      BY <1>1, <1>3, <2>0, <2>2 DEF ChunkSound
    <3>4. \/ result'[c] = result[c]
          \/ result'[c] = NoResult
          \/ result'[c] = job[c].attempt_count
      BY <1>1, <3>3
    <3>5. kind = "embedding" => result'[c] # NoResult
      <4>1. CASE c \in saved
        BY <1>1, <1>6, <3>3, <4>1 DEF NoToken, NoResult
      <4>2. CASE c \notin saved
        <5>1. c \notin worker[w].needed /\ result'[c] = result[c]
          BY <1>1, <1>5, <2>2, <4>2
        <5>2. chunk[c] = "live"
          BY <2>0, <3>3 DEF ChunkSound, Live
        <5> QED BY <1>1, <3>3, <5>1, <5>2 DEF ChunkInv, WorkersKnow, HasResult
      <4> QED BY <4>1, <4>2
    <3> QED BY <1>1, <1>7, <2>0, <3>1, <3>2, <3>3, <3>4, <3>5, EndedSound
  <2>3. CASE c \notin mine
    <3>1. job'[c] = job[c] /\ result'[c] = result[c] /\ OfChunk(attempts', c) = OfChunk(attempts, c)
      BY <1>1, <1>2, <1>10, <2>3
    <3> QED BY <1>1, <1>7, <2>0, <3>1, KeptSound
  <2> QED BY <2>1, <2>2, <2>3
<1>12. WorkersKnow'
  <2>1. \A v \in Workers : \/ worker'[v] = worker[v]
                           \/ worker'[v].claims = Unclaimed /\ worker'[v].needed = {}
    BY <1>1, IdleWorker DEF ChunkInv, TypeOK
  <2>2. \A c \in Chunks : kind = "embedding" /\ HasResult(c) => HasResult(c)'
    <3> SUFFICES ASSUME NEW c \in Chunks, kind = "embedding", HasResult(c)
                 PROVE  result'[c] # NoResult
      BY DEF HasResult
    <3>1. CASE c \in saved
      <4>1. worker[w].claims[c] # NoToken
        BY <1>2, <1>3, <3>1
      <4> QED BY <1>1, <1>6, <3>1, <4>1 DEF NoToken, NoResult
    <3>2. CASE c \notin saved
      BY <1>1, <3>2 DEF HasResult
    <3> QED BY <3>1, <3>2
  <2> QED BY <1>1, <2>1, <2>2, WorkersKeep DEF ChunkInv
<1> QED BY <1>9, <1>11, <1>12 DEF ChunkInv

LEMMA StutterKeeps == ASSUME ChunkInv, UNCHANGED vars PROVE ChunkInv'
<1>1. /\ kind' = kind /\ chunk' = chunk /\ queued' = queued /\ job' = job /\ result' = result
      /\ attempts' = attempts /\ worker' = worker /\ page' = page
      /\ disruptions' = disruptions
  BY DEF vars
<1>2. TypeOK'
  BY <1>1 DEF ChunkInv, TypeOK
<1>3. \A c \in Chunks : ChunkSound(c)'
  BY <1>1, QuietSound
<1>4. WorkersKnow'
  BY <1>1, WorkersKeep DEF ChunkInv, HasResult
<1> QED BY <1>2, <1>3, <1>4 DEF ChunkInv

LEMMA StepKeeps == ASSUME ChunkInv, [Next]_vars PROVE ChunkInv'
<1>1. CASE \E w \in Workers : WorkerStep(w)
  BY <1>1, RecoverKeeps, ClaimKeeps, LoadKeeps, HeartbeatKeeps, RunKeeps, FinishKeeps,
     ProcessKeeps DEF WorkerStep
<1>2. CASE \E b \in Backfills : BackfillStep(b)
  BY <1>2, PageKeeps, WritePageKeeps DEF BackfillStep
<1>3. CASE \E c \in Chunks : Retry(c) \/ LeaseExpires(c)
  BY <1>3, RetryKeeps, LeaseExpiresKeeps
<1>4. CASE \E S \in SUBSET Chunks : \E d \in {DocOf[c] : c \in Chunks} : Replace(d, S)
  BY <1>4, ReplaceKeeps
<1>5. CASE UNCHANGED vars
  BY <1>5, StutterKeeps
<1> QED BY <1>1, <1>2, <1>3, <1>4, <1>5 DEF Next

LEMMA ChunkInvariant == Spec => []ChunkInv
<1>1. Init => ChunkInv
  BY InitChunks
<1>2. ChunkInv /\ [Next]_vars => ChunkInv'
  BY StepKeeps
<1> QED BY <1>1, <1>2, PTL DEF Spec

(* Chunks, jobs, attempts and results agree in every state: nothing        *)
(* outlives its chunk, a stored result is the work of an attempt that      *)
(* succeeded, and the attempts of a job are its claims, although batches   *)
(* change several rows at once and chunks are replaced under them.         *)
THEOREM ResultsAlwaysMatchJobs == Spec => []ResultsMatchJobs
<1>1. ChunkInv => ResultsMatchJobs
  BY ChunkInvSuffices
<1> QED BY <1>1, ChunkInvariant, PTL
-----------------------------------------------------------------------------

(* Which steps change a result or a completed job.                         *)
OnlyFinished ==
  \A c \in Chunks : result'[c] # result[c] /\ chunk'[c] = "live" =>
    /\ \E w \in Workers : HoldsJob(w, c) /\ worker'[w] = Idle
    /\ job'[c].status = "completed"

CompletedKept ==
  \A c \in queued :
    kind = "event" /\ job[c].status = "completed" /\ c \in queued' => job'[c] = job[c]

LEMMA FinishStays ==
  ASSUME ChunkInv, NEW w \in Workers, Finish(w)
  PROVE  OnlyFinished /\ CompletedKept
<1> DEFINE mine == Held(w)
           failed == IF worker[w].outcome = "error" THEN mine \cap worker[w].needed ELSE {}
           saved == (mine \cap worker[w].needed) \ failed
<1>1. /\ \A c \in Chunks :
           job'[c] = IF c \in failed THEN Finished(job[c], "failed")
                     ELSE IF c \in mine THEN Finished(job[c], "completed") ELSE job[c]
      /\ \A c \in Chunks : c \notin saved => result'[c] = result[c]
      /\ worker'[w] = Idle
  BY DEF Finish, ChunkInv, TypeOK
<1>2. saved \subseteq mine \ failed /\ failed \subseteq mine
  OBVIOUS
<1>3. \A c \in mine : HoldsJob(w, c) /\ job[c].status = "running"
  BY DEF Held, HoldsJob, Holds
<1> HIDE DEF mine, failed, saved
<1>4. ASSUME NEW c \in Chunks, result'[c] # result[c]
      PROVE  HoldsJob(w, c) /\ job'[c].status = "completed"
  <2>1. c \in mine /\ job'[c] = Finished(job[c], "completed") /\ job[c] \in JobRow
    BY <1>1, <1>2, <1>4 DEF ChunkInv, TypeOK
  <2>2. "completed" \in Statuses
    BY DEF Statuses
  <2> QED BY <1>3, <2>1, <2>2, RowClaims
<1>5. OnlyFinished
  BY <1>1, <1>4 DEF OnlyFinished
<1>6. CompletedKept
  <2> SUFFICES ASSUME NEW c \in queued, job[c].status = "completed"
               PROVE  job'[c] = job[c]
    BY DEF CompletedKept
  <2>1. c \in Chunks /\ c \notin mine
    BY <1>3 DEF ChunkInv, TypeOK
  <2> QED BY <1>1, <1>2, <2>1
<1> QED BY <1>5, <1>6

LEMMA StepStays ==
  ASSUME ChunkInv, [Next]_vars
  PROVE  OnlyFinished /\ CompletedKept
<1>1. ASSUME result' = result, job' = job
      PROVE  OnlyFinished /\ CompletedKept
  BY <1>1 DEF OnlyFinished, CompletedKept
<1>2. ASSUME result' = result, NEW S \in SUBSET Chunks,
             \A c \in S : job[c].status # "completed",
             \A c \in Chunks \ S : job'[c] = job[c]
      PROVE  OnlyFinished /\ CompletedKept
  BY <1>2 DEF OnlyFinished, CompletedKept, ChunkInv, TypeOK
<1>3. ASSUME NEW w \in Workers, WorkerStep(w) PROVE OnlyFinished /\ CompletedKept
  <2>1. CASE \E S \in SUBSET Chunks : Recover(w, S)
    <3>1. PICK S \in SUBSET Chunks : Recover(w, S)
      BY <2>1
    <3> QED BY <1>2, <3>1 DEF Recover, Stale
  <2>2. CASE \E S \in SUBSET Chunks : Claim(w, S)
    <3>1. PICK S \in SUBSET Chunks : Claim(w, S)
      BY <2>2
    <3>2. /\ result' = result /\ \A c \in S : job[c].status # "completed"
          /\ \A c \in Chunks \ S : job'[c] = job[c]
      BY <3>1 DEF Claim, HasStatus
    <3> QED BY <1>2, <3>2
  <2>3. CASE Load(w) \/ Run(w) \/ Crash(w) \/ Restart(w)
    BY <1>1, <2>3 DEF Load, Run, Crash, Restart
  <2>4. CASE Heartbeat(w)
    <3>1. /\ result' = result /\ \A c \in Held(w) : job[c].status # "completed"
          /\ \A c \in Chunks \ Held(w) : job'[c] = job[c]
      BY <2>4 DEF Heartbeat, Held, HoldsJob, Holds
    <3>2. Held(w) \in SUBSET Chunks
      BY DEF Held
    <3> QED BY <1>2, <3>1, <3>2
  <2>5. CASE Finish(w)
    BY <2>5, FinishStays
  <2> QED BY <1>3, <2>1, <2>2, <2>3, <2>4, <2>5 DEF WorkerStep
<1>4. ASSUME NEW new, NEW finished, Queue(new, finished), UNCHANGED <<kind, result>>
      PROVE  OnlyFinished /\ CompletedKept
  <2>1. \A c \in Chunks :
          job'[c] = IF c \in new \ queued THEN NewJob
                    ELSE IF c \in finished /\ HasStatus(c, Requeueable) THEN Requeued(job[c])
                    ELSE job[c]
    BY <1>4 DEF Queue
  <2>2. ASSUME NEW c \in queued, kind = "event", job[c].status = "completed"
        PROVE  job'[c] = job[c]
    BY <2>1, <2>2 DEF HasStatus, Requeueable, ChunkInv, TypeOK
  <2> QED BY <1>4, <2>2 DEF OnlyFinished, CompletedKept
<1>5. ASSUME NEW b \in Backfills, BackfillStep(b) PROVE OnlyFinished /\ CompletedKept
  <2>1. CASE (\E S \in SUBSET Chunks : ReadPage(b, S)) \/ PageRejected(b)
    BY <1>1, <2>1 DEF ReadPage, PageRejected
  <2>2. CASE WritePage(b)
    BY <1>4, <2>2 DEF WritePage
  <2> QED BY <1>5, <2>1, <2>2 DEF BackfillStep
<1>6. ASSUME NEW c \in Chunks, Retry(c) \/ LeaseExpires(c)
      PROVE  OnlyFinished /\ CompletedKept
  <2>1. CASE Retry(c)
    BY <1>4, <2>1 DEF Retry
  <2>2. CASE LeaseExpires(c)
    <3>1. /\ result' = result /\ job[c].status # "completed"
          /\ \A b \in Chunks \ {c} : job'[b] = job[b]
      BY <2>2 DEF LeaseExpires, HasStatus, ChunkInv, TypeOK
    <3>2. {c} \in SUBSET Chunks /\ \A b \in {c} : job[b].status # "completed"
      BY <3>1
    <3> QED BY <1>2, <3>1, <3>2
  <2> QED BY <1>6, <2>1, <2>2
<1>7. ASSUME NEW S \in SUBSET Chunks, NEW d, Replace(d, S)
      PROVE  OnlyFinished /\ CompletedKept
  <2> DEFINE old == {c \in Chunks : DocOf[c] = d /\ Live(c)}
  <2>1. /\ \A c \in Chunks : c \notin old => job'[c] = job[c] /\ result'[c] = result[c]
        /\ \A c \in old : chunk'[c] = "gone"
        /\ \A c \in S : chunk[c] = "absent"
        /\ queued' \subseteq (queued \ old) \cup S
    BY <1>7 DEF Replace
  <2>2. \A c \in old : chunk[c] = "live"
    BY DEF Live
  <2> HIDE DEF old
  <2>3. OnlyFinished
    BY <2>1 DEF OnlyFinished
  <2>4. \A c \in queued : c \in Chunks /\ (c \in queued' => c \notin old)
    BY <2>1, <2>2 DEF ChunkInv, TypeOK
  <2>5. CompletedKept
    BY <2>1, <2>4 DEF CompletedKept
  <2> QED BY <2>3, <2>5
<1>8. CASE UNCHANGED vars
  BY <1>1, <1>8 DEF vars
<1> QED BY <1>3, <1>5, <1>6, <1>7, <1>8 DEF Next

(* A stored result is replaced under the claim it was computed for and     *)
(* with the job that it completes; and a completed event job stays         *)
(* completed, whatever a backfill read before.                             *)
THEOREM ResultsAlwaysStay == Spec => ResultsStay
<1>1. ChunkInv /\ [Next]_vars => [OnlyFinished]_vars /\ [CompletedKept]_vars
  BY StepStays
<1>2. Spec => [][OnlyFinished]_vars /\ [][CompletedKept]_vars
  BY <1>1, ChunkInvariant, PTL DEF Spec
<1>3. Spec => ResultsComeWithTheJob
  BY <1>2 DEF ResultsComeWithTheJob, OnlyFinished
<1>4. Spec => CompletedIsFinal
  BY <1>2 DEF CompletedIsFinal, CompletedKept
<1> QED BY <1>3, <1>4 DEF ResultsStay
===============================================================================
