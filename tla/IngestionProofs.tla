---------------------------- MODULE IngestionProofs ----------------------------
(***************************************************************************)
(* Ingestion jobs, runs and executors agree and verdicts are final, for    *)
(* every number of workers, sources, items, jobs, attempts and             *)
(* disruptions; what the schedules queue is where it should be, for every  *)
(* number of schedulers and sources.                                       *)
(***************************************************************************)
EXTENDS IngestionLedger, IngestionSchedule, JobRowsProofs, FiniteSetTheorems,
        WellFoundedInduction

(* Induction over numbers, for sets.                                       *)
LEMMA Induction ==
  ASSUME NEW S \in SUBSET Nat, 0 \in S, \A n \in S : n + 1 \in S
  PROVE  \A n \in Nat : n \in S
<1> DEFINE Less == {p \in Nat \X Nat : p[1] < p[2]}
           Left == Nat \ S
<1>1. IsWellFoundedOn(Less, Nat)
  BY NatLessThanWellFounded DEF OpToRel
<1>2. SUFFICES ASSUME Left # {} PROVE FALSE
  OBVIOUS
<1>3. PICK x \in Left : \A y \in Left : ~(<<y, x>> \in Less)
  <2> HIDE DEF Less
  <2> QED BY <1>1, <1>2, WFMin
<1>4. x \in Nat /\ x # 0 /\ x - 1 \in Nat
  OBVIOUS
<1>5. <<x - 1, x>> \in Less
  BY <1>4
<1>6. x - 1 \in S
  <2> HIDE DEF Less
  <2> QED BY <1>3, <1>4, <1>5
<1> QED BY <1>4, <1>6

(* A sequence of numbers has running totals, and Total is the last one.    *)
Totals(f, c, m) ==
  /\ f \in [0..m -> Nat] /\ f[0] = 0
  /\ \A n \in 1..m : f[n] = f[n - 1] + c[n]

LEMMA TotalsExist ==
  ASSUME NEW m \in Nat, NEW c \in [1..m -> Nat]
  PROVE  \E f : Totals(f, c, m)
<1> DEFINE S == {k \in Nat : k <= m => \E f : Totals(f, c, k)}
<1>1. 0 \in S
  <2>1. Totals([n \in 0..0 |-> 0], c, 0)
    BY DEF Totals
  <2> QED BY <2>1
<1>2. ASSUME NEW k \in S PROVE k + 1 \in S
  <2>1. SUFFICES ASSUME k + 1 <= m PROVE \E f : Totals(f, c, k + 1)
    OBVIOUS
  <2>2. PICK f : Totals(f, c, k)
    BY <2>1
  <2> DEFINE g == [n \in 0..(k + 1) |-> IF n = k + 1 THEN f[k] + c[k + 1] ELSE f[n]]
  <2>3. k \in Nat /\ f[k] \in Nat /\ c[k + 1] \in Nat
    BY <2>1, <2>2 DEF Totals
  <2>4. g \in [0..(k + 1) -> Nat] /\ g[0] = 0
    BY <2>2, <2>3 DEF Totals
  <2>5. ASSUME NEW n \in 1..(k + 1) PROVE g[n] = g[n - 1] + c[n]
    <3>1. CASE n = k + 1
      BY <2>3, <3>1
    <3>2. CASE n # k + 1
      <4>1. n \in 1..k /\ n - 1 \in 0..k /\ n - 1 # k + 1 /\ n - 1 \in 0..(k + 1)
        BY <2>3, <3>2
      <4>2. g[n] = f[n] /\ g[n - 1] = f[n - 1]
        BY <3>2, <4>1
      <4> QED BY <2>2, <4>1, <4>2 DEF Totals
    <3> QED BY <3>1, <3>2
  <2> HIDE DEF g
  <2>6. Totals(g, c, k + 1)
    BY <2>4, <2>5 DEF Totals
  <2> QED BY <2>6
<1> HIDE DEF S
<1>3. m \in S
  BY <1>1, <1>2, Induction DEF S
<1> QED BY <1>3 DEF S

LEMMA TotalIs ==
  ASSUME NEW m \in Nat, NEW c \in [1..m -> Nat], NEW f, Totals(f, c, m)
  PROVE  Total(c) = f[m]
<1> DEFINE Upto(u) == u = [n \in 0..m |-> IF n = 0 THEN 0 ELSE u[n - 1] + c[n]]
           upto == CHOOSE u : Upto(u)
<1>1. c \in Seq(Nat) /\ Len(c) = m
  OBVIOUS
<1>2. Total(c) = upto[m]
  BY <1>1 DEF Total
<1>3. Upto(f)
  BY DEF Totals
<1>4. Upto(upto)
  <2> HIDE DEF Upto
  <2> QED BY <1>3
<1> DEFINE S == {k \in Nat : k <= m => upto[k] = f[k]}
<1> HIDE DEF upto
<1>5. 0 \in S
  BY <1>4 DEF Totals
<1>6. ASSUME NEW k \in S PROVE k + 1 \in S
  BY <1>4, <1>6 DEF Totals
<1> HIDE DEF S
<1>7. m \in S
  BY <1>5, <1>6, Induction DEF S
<1> QED BY <1>2, <1>7 DEF S

(* One entry grows, and zeros are appended.                                *)
Grows(m, c, k, d, r, x) ==
  /\ m \in Nat /\ k \in Nat /\ m <= k
  /\ c \in [1..m -> Nat] /\ d \in [1..k -> Nat]
  /\ r \in Nat /\ x \in Nat /\ (x = 0 \/ r \in 1..m)
  /\ \A n \in 1..m : d[n] = IF n = r THEN c[n] + x ELSE c[n]
  /\ \A n \in (m + 1)..k : d[n] = 0

LEMMA TotalGrows ==
  ASSUME NEW m, NEW c, NEW k, NEW d, NEW r, NEW x, Grows(m, c, k, d, r, x)
  PROVE  Total(d) = Total(c) + x
<1> USE DEF Grows
<1>1. PICK f : Totals(f, c, m)
  BY TotalsExist
<1>2. PICK g : Totals(g, d, k)
  BY TotalsExist
<1>3. Total(c) = f[m] /\ Total(d) = g[k]
  BY <1>1, <1>2, TotalIs
<1> DEFINE S == {n \in Nat : n <= k => g[n] = f[IF n <= m THEN n ELSE m]
                                               + (IF n >= r THEN x ELSE 0)}
<1>4. 0 \in S
  BY <1>1, <1>2 DEF Totals
<1>5. ASSUME NEW n \in S PROVE n + 1 \in S
  <2>1. SUFFICES ASSUME n + 1 <= k
        PROVE g[n + 1] = f[IF n + 1 <= m THEN n + 1 ELSE m] + (IF n + 1 >= r THEN x ELSE 0)
    OBVIOUS
  <2>2. g[n] = f[IF n <= m THEN n ELSE m] + (IF n >= r THEN x ELSE 0)
    BY <2>1
  <2>3. g[n + 1] = g[n] + d[n + 1]
    BY <1>2, <2>1 DEF Totals
  <2>4. CASE n + 1 <= m
    <3>1. f[n + 1] = f[n] + c[n + 1] /\ f[n] \in Nat /\ c[n + 1] \in Nat
      <4>1. n \in Nat /\ n + 1 \in 1..m /\ n \in 0..m /\ (n + 1) - 1 = n
        BY <2>4
      <4>2. f[n + 1] = f[(n + 1) - 1] + c[n + 1] /\ f[n] \in Nat
        BY <1>1, <4>1 DEF Totals
      <4> QED BY <4>1, <4>2
    <3>2. d[n + 1] = IF n + 1 = r THEN c[n + 1] + x ELSE c[n + 1]
      BY <2>4
    <3> QED BY <2>2, <2>3, <2>4, <3>1, <3>2, SMTT(30)
  <2>5. CASE ~(n + 1 <= m)
    <3>1. d[n + 1] = 0
      BY <2>1, <2>5
    <3>2. f[m] \in Nat
      BY <1>1 DEF Totals
    <3> QED BY <2>2, <2>3, <2>5, <3>1, <3>2
  <2> QED BY <2>4, <2>5
<1> HIDE DEF S
<1>6. k \in S
  BY <1>4, <1>5, Induction DEF S
<1>7. g[k] = f[m] + x
  BY <1>1, <1>6 DEF S, Totals
<1> QED BY <1>3, <1>7
LEMMA TotalType ==
  ASSUME NEW m \in Nat, NEW c \in [1..m -> Nat]
  PROVE  Total(c) \in Nat
<1>1. PICK f : Totals(f, c, m)
  BY TotalsExist
<1>2. Total(c) = f[m]
  BY <1>1, TotalIs
<1> QED BY <1>1, <1>2 DEF Totals

LEMMA TotalKept ==
  ASSUME NEW m, NEW c, NEW k, NEW d, Grows(m, c, k, d, 0, 0)
  PROVE  Total(d) = Total(c)
<1>1. Total(d) = Total(c) + 0
  BY TotalGrows
<1>2. Total(c) \in Nat
  BY TotalType DEF Grows
<1> QED BY <1>1, <1>2

--------------------------------------------------------------------------------
(* Types. *)

LEMMA FunctionIsSequence ==
  ASSUME NEW S, NEW n \in Nat, NEW s \in [1..n -> S]
  PROVE  s \in Seq(S) /\ Len(s) = n
  OBVIOUS

LEMMA Appended ==
  ASSUME NEW S, NEW s \in Seq(S), NEW x \in S
  PROVE  /\ Append(s, x) \in [1..(Len(s) + 1) -> S]
         /\ Append(s, x)[Len(s) + 1] = x
         /\ \A n \in 1..Len(s) : Append(s, x)[n] = s[n]
<1>1. /\ Append(s, x) \in Seq(S) /\ Len(Append(s, x)) = Len(s) + 1
      /\ Append(s, x)[Len(s) + 1] = x
      /\ \A n \in 1..Len(s) : Append(s, x)[n] = s[n]
  BY AppendProperties
<1>2. \A t \in Seq(S) : t \in [1..Len(t) -> S]
  OBVIOUS
<1> QED BY <1>1, <1>2

(* Jobs, runs and workers as the functions they are. *)
LEMMA Shapes ==
  ASSUME TypeOK
  PROVE  /\ Len(job) \in Nat /\ Len(run) \in Nat
         /\ job \in [JobsSoFar -> JobRow] /\ run \in [1..Len(run) -> RunRow]
         /\ run_id \in [JobsSoFar -> 1..Len(run)]
         /\ worker \in [Workers -> WorkerState]
         /\ \A j \in JobsSoFar : SourceOf(j) \in Sources
         /\ \A w \in Workers : worker[w].pc \in Busy =>
              worker[w].job \in JobsSoFar /\ worker[w].run \in 1..Len(run)
<1>1. /\ Len(job) \in Nat /\ Len(run) \in Nat
      /\ job \in [1..Len(job) -> JobRow] /\ run \in [1..Len(run) -> RunRow]
      /\ run_id \in [1..Len(job) -> Nat]
  BY DEF TypeOK
<1>2. run_id \in [JobsSoFar -> 1..Len(run)]
  BY <1>1 DEF TypeOK, JobsSoFar
<1>3. \A j \in JobsSoFar : SourceOf(j) \in Sources
  BY <1>1, <1>2 DEF SourceOf, RunRow
<1> QED BY <1>1, <1>2, <1>3 DEF TypeOK, JobsSoFar

LEMMA ShapesAfter ==
  ASSUME TypeOK'
  PROVE  /\ Len(job') \in Nat /\ Len(run') \in Nat
         /\ job' \in [JobsSoFar' -> JobRow] /\ run' \in [1..Len(run') -> RunRow]
  BY DEF TypeOK, JobsSoFar

LEMMA ShapesAre ==
  ASSUME NEW k \in Nat, NEW m \in Nat,
         job' \in [1..k -> JobRow], run' \in [1..m -> RunRow], run_id' \in [1..k -> 1..m],
         attempts' \subseteq AttemptRows(1..k), documents' \subseteq Sources \X Items,
         worker' \in [Workers -> WorkerState],
         \A w \in Workers : worker'[w].pc \in Busy =>
           worker'[w].job \in 1..k /\ worker'[w].run \in 1..m,
         disruptions' \in 0..MaxDisruptions
  PROVE  TypeOK' /\ Len(job') = k /\ Len(run') = m
<1>1. job' \in Seq(JobRow) /\ Len(job') = k
  BY FunctionIsSequence
<1>2. run' \in Seq(RunRow) /\ Len(run') = m
  BY FunctionIsSequence
<1>3. run_id' \in Seq(Nat) /\ Len(run_id') = k
  BY FunctionIsSequence
<1>4. \A j \in 1..k : run_id'[j] \in 1..m
  OBVIOUS
<1> QED BY <1>1, <1>2, <1>3, <1>4 DEF TypeOK, JobsSoFar

LEMMA IdleWorker == Idle \in WorkerState /\ Idle.pc = "idle" /\ "idle" \notin Busy
  BY DEF Idle, WorkerState, NoToken, Busy, Executing, Worked

LEMMA NewRunType ==
  ASSUME NEW s \in Sources
  PROVE  /\ NewRun(s) \in RunRow /\ NewRun(s).status = "pending" /\ NewRun(s).source = s
         /\ NewRun(s).attempt_count = 0 /\ NewRun(s).documents_created = 0
  BY DEF NewRun, RunRow, Statuses

(* A step of the executor of w changes its run and its worker, no job.     *)
LEMMA ExecutorStepIs ==
  ASSUME TypeOK, NEW w \in Workers, ExecutorStep(w)
  PROVE  /\ worker[w].pc \in Executing
         /\ \E x \in RunRow : /\ run' = [run EXCEPT ![worker[w].run] = x]
                             /\ x.source = run[worker[w].run].source
         /\ \E y \in WorkerState :
              /\ worker' = [worker EXCEPT ![w] = y]
              /\ y.pc \in Busy /\ y.job = worker[w].job /\ y.token = worker[w].token
              /\ y.run = worker[w].run
         /\ documents' \subseteq Sources \X Items
         /\ UNCHANGED <<job, run_id, attempts, disruptions>>
<1> DEFINE r == worker[w].run
           Ran(x) == run' = [run EXCEPT ![r] = x] /\ x.source = run[r].source
           Moved(y) == /\ worker' = [worker EXCEPT ![w] = y]
                       /\ y.pc \in Busy /\ y.job = worker[w].job /\ y.token = worker[w].token
                       /\ y.run = worker[w].run
<1>1. worker[w].pc \in Executing
  BY DEF ExecutorStep, MarkRunning, MarkCompleted, MarkFailed, StartFetch, SaveItem, EndFetch,
         Executing
<1>2. r \in 1..Len(run) /\ run \in [1..Len(run) -> RunRow] /\ run[r] \in RunRow
  BY <1>1, Shapes DEF Busy
<1>3. worker[w] \in WorkerState /\ worker \in [Workers -> WorkerState]
  BY Shapes
<1>4. documents \subseteq Sources \X Items
  BY DEF TypeOK
<1>5. \A pc \in Busy : At(w, pc) => \E y \in WorkerState : Moved(y)
  <2> SUFFICES ASSUME NEW pc \in Busy, At(w, pc) PROVE \E y \in WorkerState : Moved(y)
    OBVIOUS
  <2> DEFINE y == [worker[w] EXCEPT !.pc = pc]
  <2>1. y \in WorkerState /\ y.pc = pc /\ y.job = worker[w].job /\ y.token = worker[w].token
        /\ y.run = worker[w].run
    BY <1>3 DEF WorkerState
  <2>2. worker' = [worker EXCEPT ![w] = y]
    BY <1>3 DEF At
  <2> HIDE DEF y
  <2> QED BY <2>1, <2>2
<1>6. run' = run => Ran(run[r])
  BY <1>2
<1>7. ASSUME NEW status \in Statuses, NEW pc \in Busy, ChangeStatus(w, status, pc)
      PROVE  /\ \E x \in RunRow : Ran(x)
             /\ \E y \in WorkerState : Moved(y)
             /\ UNCHANGED <<job, run_id, attempts, documents, disruptions>>
  <2> DEFINE x == [run[r] EXCEPT !.status = status]
  <2>1. x \in RunRow /\ x.source = run[r].source
    BY <1>2 DEF RunRow
  <2>2. "errored" \in Busy
    BY DEF Busy, Worked
  <2>3. CASE AllowedChange(run[r].status, status)
    <3>1. Ran(x) /\ At(w, pc)
      BY <1>2, <1>7, <2>1, <2>3 DEF ChangeStatus
    <3> HIDE DEF Ran, x
    <3> QED BY <1>5, <1>7, <2>1, <3>1 DEF ChangeStatus
  <2>4. CASE ~AllowedChange(run[r].status, status)
    <3> HIDE DEF Ran
    <3> QED BY <1>2, <1>5, <1>6, <1>7, <2>2, <2>4 DEF ChangeStatus
  <2> QED BY <2>3, <2>4
<1>8. CASE MarkRunning(w) \/ MarkCompleted(w) \/ MarkFailed(w)
  <2>1. PICK status \in Statuses, pc \in Busy : ChangeStatus(w, status, pc)
    BY <1>8 DEF MarkRunning, MarkCompleted, MarkFailed, Statuses, Busy, Executing, Worked
  <2> HIDE DEF Moved, Ran, r
  <2> QED BY <1>1, <1>4, <1>7, <2>1 DEF Moved, Ran, r
<1>9. CASE StartFetch(w)
  <2> DEFINE x == [run[r] EXCEPT !.attempt_count = @ + 1]
             y == [worker[w] EXCEPT !.pc = "fetching", !.left = Items,
                                    !.attempt = run[r].attempt_count + 1]
  <2>0. run[r].attempt_count + 1 \in Nat
    BY <1>2 DEF RunRow
  <2>1. x \in RunRow /\ Ran(x)
    <3>1. x \in RunRow /\ x.source = run[r].source
      BY <1>2, <2>0 DEF RunRow
    <3>2. run' = [run EXCEPT ![r] = x]
      BY <1>2, <1>9 DEF StartFetch
    <3> QED BY <3>1, <3>2
  <2>2. run'[r].attempt_count = run[r].attempt_count + 1 /\ run[r].attempt_count + 1 \in Nat
    BY <1>2, <1>9 DEF StartFetch, RunRow
  <2>3. y \in WorkerState /\ y.pc = "fetching" /\ y.job = worker[w].job
        /\ y.token = worker[w].token /\ y.run = worker[w].run
    BY <1>3, <2>2 DEF WorkerState, Busy, Executing
  <2>4. worker' = [worker EXCEPT ![w] = y]
    BY <1>3, <1>9, <2>2 DEF StartFetch
  <2>5. UNCHANGED <<job, run_id, attempts, documents, disruptions>>
    BY <1>9 DEF StartFetch
  <2> HIDE DEF x, y
  <2> QED BY <1>1, <1>4, <2>1, <2>3, <2>4, <2>5 DEF Busy, Executing
<1>10. ASSUME NEW i \in Items, SaveItem(w, i)
       PROVE  /\ \E x \in RunRow : Ran(x)
              /\ \E y \in WorkerState : Moved(y)
              /\ documents' \subseteq Sources \X Items
              /\ UNCHANGED <<job, run_id, attempts, disruptions>>
  <2> DEFINE seen == run[r].items_seen + 1
             created == run[r].documents_created
                          + (IF <<run[r].source, i>> \in documents THEN 0 ELSE 1)
             x == [run[r] EXCEPT !.items_seen = seen, !.documents_created = created]
             y == [worker[w] EXCEPT !.left = @ \ {i}]
  <2>1. x \in RunRow /\ Ran(x)
    <3>1. seen \in Nat /\ created \in Nat
      BY <1>2 DEF RunRow
    <3>2. run' = [run EXCEPT ![r].items_seen = seen, ![r].documents_created = created]
      BY <1>10 DEF SaveItem
    <3> HIDE DEF seen, created
    <3>3. x \in RunRow /\ x.source = run[r].source
      BY <1>2, <3>1 DEF RunRow
    <3>4. run' = [run EXCEPT ![r] = x]
      BY <1>2, <3>2
    <3> QED BY <3>3, <3>4
  <2>2. y \in WorkerState /\ y.pc = "fetching" /\ y.job = worker[w].job
        /\ y.token = worker[w].token /\ y.run = worker[w].run
    BY <1>3, <1>10 DEF SaveItem, WorkerState
  <2>3. worker' = [worker EXCEPT ![w] = y]
    BY <1>3, <1>10 DEF SaveItem
  <2>4. documents' \subseteq Sources \X Items /\ UNCHANGED <<job, run_id, attempts, disruptions>>
    BY <1>2, <1>4, <1>10 DEF SaveItem, RunRow
  <2> HIDE DEF x, y
  <2> QED BY <2>1, <2>2, <2>3, <2>4 DEF Busy, Executing
<1>11. CASE EndFetch(w)
  <2>1. PICK pc \in Busy : At(w, pc)
    BY <1>11 DEF EndFetch, Busy, Executing
  <2>2. UNCHANGED <<job, run_id, run, attempts, documents, disruptions>>
    BY <1>11 DEF EndFetch
  <2> HIDE DEF Moved, Ran
  <2> QED BY <1>1, <1>2, <1>4, <1>5, <1>6, <2>1, <2>2 DEF Moved, Ran
<1> HIDE DEF Moved, Ran, r
<1> QED BY <1>1, <1>8, <1>9, <1>10, <1>11 DEF ExecutorStep, Moved, Ran, r

(* The jobs of a set, counted up to each of them, take the next numbers    *)
(* without a gap, each its own.                                            *)
LEMMA Ranks ==
  ASSUME NEW k \in Nat, NEW R \in SUBSET (1..k)
  PROVE  /\ Cardinality(R) \in Nat
         /\ \A j \in R : Cardinality({i \in R : i <= j}) \in 1..Cardinality(R)
         /\ \A n \in 1..Cardinality(R) : \E j \in R : Cardinality({i \in R : i <= j}) = n
         /\ \A g \in R, h \in R :
              Cardinality({i \in R : i <= g}) = Cardinality({i \in R : i <= h}) => g = h
<1> DEFINE UpTo(j) == {i \in R : i <= j}
           rank == [j \in R |-> Cardinality(UpTo(j))]
<1>1. IsFiniteSet(R) /\ Cardinality(R) \in Nat
  <2>1. IsFiniteSet(1..k)
    BY FS_Interval
  <2>2. IsFiniteSet(R)
    BY <2>1, FS_Subset
  <2> QED BY <2>2, FS_CardinalityType
<1>2. ASSUME NEW j \in R
      PROVE  /\ IsFiniteSet(UpTo(j)) /\ Cardinality(UpTo(j)) \in 1..Cardinality(R)
  <2>1. IsFiniteSet(UpTo(j)) /\ Cardinality(UpTo(j)) <= Cardinality(R)
    BY <1>1, FS_Subset
  <2>2. Cardinality(UpTo(j)) \in Nat
    BY <2>1, FS_CardinalityType
  <2>3. UpTo(j) # {}
    OBVIOUS
  <2>4. Cardinality(UpTo(j)) # 0
    <3> HIDE DEF UpTo
    <3> QED BY <2>1, <2>3, FS_EmptySet
  <2> QED BY <1>1, <2>1, <2>2, <2>4
<1>3. ASSUME NEW i \in R, NEW j \in R, i < j PROVE Cardinality(UpTo(i)) < Cardinality(UpTo(j))
  <2>1. UpTo(i) \cup {j} \subseteq UpTo(j) /\ j \notin UpTo(i)
    <3>1. \A x \in R : x \in Nat
      OBVIOUS
    <3>2. \A x \in R : x <= i => x <= j
      BY <1>3, <3>1
    <3>3. j <= j /\ ~(j <= i)
      BY <1>3, <3>1
    <3> QED BY <3>2, <3>3
  <2> HIDE DEF UpTo
  <2>2. Cardinality(UpTo(i) \cup {j}) = Cardinality(UpTo(i)) + 1
    BY <1>2, <2>1, FS_AddElement
  <2>3. Cardinality(UpTo(i) \cup {j}) <= Cardinality(UpTo(j))
    BY <1>2, <2>1, FS_Subset
  <2> QED BY <1>1, <1>2, <2>2, <2>3
<1>4. rank \in Injection(R, 1..Cardinality(R))
  <2>1. rank \in [R -> 1..Cardinality(R)]
    BY <1>2
  <2>2. ASSUME NEW i \in R, NEW j \in R, i # j PROVE rank[i] # rank[j]
    <3>1. rank[i] = Cardinality(UpTo(i)) /\ rank[j] = Cardinality(UpTo(j))
      OBVIOUS
    <3>2. i \in Nat /\ j \in Nat
      OBVIOUS
    <3> HIDE DEF rank, UpTo
    <3>3. /\ Cardinality(UpTo(i)) \in Nat /\ Cardinality(UpTo(j)) \in Nat
      BY <1>1, <1>2
    <3> QED BY <1>3, <2>2, <3>1, <3>2, <3>3
  <2> HIDE DEF rank
  <2> QED BY <2>1, <2>2 DEF Injection, IsInjective
<1>5. IsFiniteSet(1..Cardinality(R)) /\ Cardinality(1..Cardinality(R)) = Cardinality(R)
  BY <1>1, FS_Interval
<1>6. rank \in Surjection(R, 1..Cardinality(R))
  <2> HIDE DEF rank
  <2> QED BY <1>4, <1>5, FS_Injection
<1>7. ASSUME NEW n \in 1..Cardinality(R) PROVE \E j \in R : Cardinality(UpTo(j)) = n
  <2>1. PICK j \in R : rank[j] = n
    <3> HIDE DEF rank
    <3> QED BY <1>6 DEF Surjection
  <2> QED BY <2>1
<1>8. ASSUME NEW g \in R, NEW h \in R, Cardinality(UpTo(g)) = Cardinality(UpTo(h))
      PROVE  g = h
  <2>1. rank[g] = rank[h]
    BY <1>8
  <2> HIDE DEF rank
  <2> QED BY <1>4, <2>1 DEF Injection, IsInjective
<1> QED BY <1>1, <1>2, <1>7, <1>8

(* The runs after a step that gives jobs new runs: those that were there,  *)
(* of which a running one may have failed, and pending ones after them.    *)
RunsGrow(m) ==
  /\ m \in Nat /\ Len(run) <= m /\ run' \in [1..m -> RunRow]
  /\ \A n \in 1..Len(run) :
       \/ run'[n] = run[n]
       \/ run[n].status = "running" /\ run'[n] = [run[n] EXCEPT !.status = "failed"]
  /\ \A n \in (Len(run) + 1)..m : \E s \in Sources : run'[n] = NewRun(s)

LEMMA RecoverIs ==
  ASSUME TypeOK, NEW w \in Workers, NEW S \in SUBSET JobsSoFar, Recover(w, S)
  PROVE  /\ \E m \in Nat : RunsGrow(m) /\ run_id' \in [JobsSoFar -> 1..m]
         /\ job' = [j \in JobsSoFar |-> IF j \in S THEN Recovered(job[j]) ELSE job[j]]
         /\ \A j \in S : job[j].status = "running"
         /\ \A j \in JobsSoFar \ S : run_id'[j] = run_id[j]
         /\ \A j \in JobsSoFar : SourceOf(j)' = SourceOf(j)
         /\ attempts' = FinishAttempts(attempts, S, job, "recovered")
         /\ UNCHANGED <<documents, worker, disruptions>>
<1> DEFINE R == {j \in S : run[run_id[j]].status # "pending"}
           rank(j) == Len(run) + Cardinality({k \in R : k <= j})
           m == Len(run) + Cardinality(R)
           gone == {run_id[j] : j \in R}
           Closed(r) == IF r.status = "running" THEN [r EXCEPT !.status = "failed"] ELSE r
<1>1. /\ job' = [j \in JobsSoFar |-> IF j \in S THEN Recovered(job[j]) ELSE job[j]]
      /\ \A j \in S : Stale(job[j])
      /\ attempts' = FinishAttempts(attempts, S, job, "recovered")
      /\ UNCHANGED <<documents, worker, disruptions>>
      /\ run_id' = [j \in JobsSoFar |-> IF j \in R THEN rank(j) ELSE run_id[j]]
  BY DEF Recover
<1>2. run' = [n \in 1..m |-> IF n \in gone THEN Closed(run[n])
                             ELSE IF n <= Len(run) THEN run[n]
                             ELSE NewRun(SourceOf(CHOOSE j \in R : rank(j) = n))]
  BY DEF Recover
<1>3. /\ Len(job) \in Nat /\ Len(run) \in Nat /\ run \in [1..Len(run) -> RunRow]
      /\ run_id \in [JobsSoFar -> 1..Len(run)] /\ \A j \in JobsSoFar : SourceOf(j) \in Sources
  BY Shapes
<1>4. R \in SUBSET (1..Len(job)) /\ R \subseteq S
  BY DEF JobsSoFar
<1>5. gone \subseteq 1..Len(run)
  BY <1>3, <1>4 DEF JobsSoFar
<1> HIDE DEF R
<1>6. /\ Cardinality(R) \in Nat
      /\ \A j \in R : rank(j) \in (Len(run) + 1)..m
      /\ \A n \in (Len(run) + 1)..m : \E j \in R : rank(j) = n
      /\ \A i \in R, j \in R : rank(i) = rank(j) => i = j
  <2>1. /\ Cardinality(R) \in Nat
        /\ \A j \in R : Cardinality({i \in R : i <= j}) \in 1..Cardinality(R)
        /\ \A n \in 1..Cardinality(R) : \E j \in R : Cardinality({i \in R : i <= j}) = n
        /\ \A g \in R, h \in R :
             Cardinality({i \in R : i <= g}) = Cardinality({i \in R : i <= h}) => g = h
    BY <1>3, <1>4, Ranks
  <2>2. \A j \in R : rank(j) \in (Len(run) + 1)..m
    BY <1>3, <2>1
  <2>3. ASSUME NEW n \in (Len(run) + 1)..m PROVE \E j \in R : rank(j) = n
    <3>1. n - Len(run) \in 1..Cardinality(R)
      BY <1>3, <2>1
    <3>2. PICK j \in R : Cardinality({i \in R : i <= j}) = n - Len(run)
      BY <2>1, <3>1
    <3>3. rank(j) = n
      BY <1>3, <2>1, <3>2
    <3> QED BY <3>3
  <2> DEFINE before(j) == Cardinality({k \in R : k <= j})
  <2>4. \A j \in R : before(j) \in Nat /\ rank(j) = Len(run) + before(j)
    BY <2>1
  <2>5. \A g \in R, h \in R : before(g) = before(h) => g = h
    BY <2>1
  <2>6. \A i \in R, j \in R : rank(i) = rank(j) => i = j
    <3> HIDE DEF rank, before
    <3> QED BY <1>3, <2>4, <2>5
  <2> QED BY <2>1, <2>2, <2>3, <2>6
<1>7. m \in Nat /\ Len(run) <= m
  BY <1>3, <1>6
<1> HIDE DEF rank, m, gone
<1>8. ASSUME NEW n \in (Len(run) + 1)..m PROVE \E s \in Sources : run'[n] = NewRun(s)
  <2>1. (CHOOSE j \in R : rank(j) = n) \in R
    BY <1>6
  <2>2. SourceOf(CHOOSE j \in R : rank(j) = n) \in Sources
    BY <1>3, <1>4, <2>1
  <2>3. n \in 1..m /\ n \notin gone /\ ~(n <= Len(run))
    BY <1>3, <1>5, <1>7
  <2>4. run'[n] = NewRun(SourceOf(CHOOSE j \in R : rank(j) = n))
    BY <1>2, <2>3
  <2> QED BY <2>2, <2>4
<1>9. ASSUME NEW n \in 1..Len(run)
      PROVE  /\ run'[n] \in RunRow
             /\ \/ run'[n] = run[n]
                \/ run[n].status = "running" /\ run'[n] = [run[n] EXCEPT !.status = "failed"]
  <2>1. n \in 1..m /\ run[n] \in RunRow
    BY <1>3, <1>7
  <2>2. run'[n] = run[n] \/ run'[n] = Closed(run[n])
    BY <1>2, <2>1
  <2>3. \/ run'[n] = run[n]
        \/ run[n].status = "running" /\ run'[n] = [run[n] EXCEPT !.status = "failed"]
    BY <2>2
  <2>4. [run[n] EXCEPT !.status = "failed"] \in RunRow
    BY <2>1 DEF RunRow, Statuses
  <2> QED BY <2>1, <2>3, <2>4
<1>10. run' \in [1..m -> RunRow]
  <2>1. ASSUME NEW n \in 1..m PROVE run'[n] \in RunRow
    <3>1. CASE n \in 1..Len(run)
      BY <1>9, <3>1
    <3>2. CASE n \notin 1..Len(run)
      <4>1. n \in (Len(run) + 1)..m
        BY <1>3, <1>7, <3>2
      <4> QED BY <1>8, <4>1, NewRunType
    <3> QED BY <3>1, <3>2
  <2>2. DOMAIN run' = 1..m /\ run' = [n \in 1..m |-> run'[n]]
    BY <1>2
  <2> QED BY <2>1, <2>2
<1>11. RunsGrow(m)
  BY <1>7, <1>8, <1>9, <1>10 DEF RunsGrow
<1>12. run_id' \in [JobsSoFar -> 1..m]
  <2>1. \A j \in JobsSoFar : (IF j \in R THEN rank(j) ELSE run_id[j]) \in 1..m
    BY <1>3, <1>6, <1>7
  <2> QED BY <1>1, <2>1
<1>13. \A j \in JobsSoFar \ S : run_id'[j] = run_id[j]
  BY <1>1, <1>4
<1>14. \A j \in S : job[j].status = "running"
  BY <1>1 DEF Stale
<1>15. ASSUME NEW j \in JobsSoFar PROVE run'[run_id'[j]].source = run[run_id[j]].source
  <2>1. CASE j \in R
    <3>1. PICK n \in (Len(run) + 1)..m : n = rank(j) /\ run_id'[j] = n
      BY <1>1, <1>6, <2>1
    <3>2. (CHOOSE i \in R : rank(i) = n) = j
      <4>1. (CHOOSE i \in R : rank(i) = n) \in R /\ rank(CHOOSE i \in R : rank(i) = n) = n
        BY <2>1, <3>1
      <4> QED BY <1>6, <2>1, <3>1, <4>1
    <3>3. n \in 1..m /\ n \notin gone /\ ~(n <= Len(run))
      BY <1>3, <1>5, <1>7
    <3>4. run'[n] = NewRun(SourceOf(j))
      BY <1>2, <3>2, <3>3
    <3> QED BY <1>3, <3>1, <3>4, NewRunType DEF SourceOf
  <2>2. CASE j \notin R
    <3>1. run_id'[j] = run_id[j] /\ run_id[j] \in 1..Len(run)
      BY <1>1, <1>3, <2>2
    <3>2. run[run_id[j]] \in RunRow
      BY <1>3, <3>1
    <3>3. [run[run_id[j]] EXCEPT !.status = "failed"].source = run[run_id[j]].source
      BY <3>2 DEF RunRow
    <3> QED BY <1>9, <3>1, <3>3
  <2> QED BY <2>1, <2>2
<1> QED BY <1>1, <1>7, <1>11, <1>12, <1>13, <1>14, <1>15 DEF SourceOf

(* What a step does to the job it is about: nothing for steps of a worker  *)
(* that has no job, or has lost it.                                        *)
JobStepIs(j, row) ==
  /\ job' = [job EXCEPT ![j] = row]
  /\ attempts' \subseteq AttemptRows(JobsSoFar)
  /\ UNCHANGED <<run_id, run, documents>>

LEMMA AttemptTypes ==
  ASSUME TypeOK, NEW S, NEW o \in Outcomes
  PROVE  FinishAttempts(attempts, S, job, o) \subseteq AttemptRows(JobsSoFar)
<1>1. attempts \in SUBSET AttemptRows(JobsSoFar) /\ job \in [JobsSoFar -> JobRow]
  BY Shapes DEF TypeOK
<1> QED BY <1>1, FinishAttemptsType

LEMMA SubmitIs ==
  ASSUME TypeOK, NEW s \in Sources, Submit(s)
  PROVE  /\ RunsGrow(Len(run) + 1)
         /\ job' \in [1..(Len(job) + 1) -> JobRow] /\ job'[Len(job) + 1] = NewJob
         /\ run_id' \in [1..(Len(job) + 1) -> 1..(Len(run) + 1)]
         /\ \A j \in JobsSoFar : job'[j] = job[j] /\ run_id'[j] = run_id[j]
         /\ \A j \in JobsSoFar : SourceOf(j)' = SourceOf(j)
         /\ UNCHANGED <<attempts, documents, worker, disruptions>>
<1>1. /\ run' = Append(run, NewRun(s)) /\ job' = Append(job, NewJob)
      /\ run_id' = Append(run_id, Len(run'))
      /\ UNCHANGED <<attempts, documents, worker, disruptions>>
  BY DEF Submit
<1>2. /\ Len(job) \in Nat /\ Len(run) \in Nat /\ run \in Seq(RunRow) /\ job \in Seq(JobRow)
      /\ run_id \in Seq(Nat) /\ Len(run_id) = Len(job)
      /\ \A j \in JobsSoFar : run_id[j] \in 1..Len(run)
  BY DEF TypeOK
<1>3. /\ run' \in [1..(Len(run) + 1) -> RunRow] /\ run'[Len(run) + 1] = NewRun(s)
      /\ \A n \in 1..Len(run) : run'[n] = run[n]
  BY <1>1, <1>2, NewRunType, Appended
<1>4. /\ job' \in [1..(Len(job) + 1) -> JobRow] /\ job'[Len(job) + 1] = NewJob
      /\ \A j \in 1..Len(job) : job'[j] = job[j]
  BY <1>1, <1>2, RowTypes, Appended
<1>5. Len(run') = Len(run) + 1
  BY <1>2, <1>3, FunctionIsSequence
<1>6. /\ run_id' \in [1..(Len(job) + 1) -> Nat] /\ run_id'[Len(job) + 1] = Len(run) + 1
      /\ \A j \in 1..Len(job) : run_id'[j] = run_id[j]
  <2>1. ASSUME NEW n \in Nat
        PROVE  /\ Append(run_id, n) \in [1..(Len(run_id) + 1) -> Nat]
               /\ Append(run_id, n)[Len(run_id) + 1] = n
               /\ \A j \in 1..Len(run_id) : Append(run_id, n)[j] = run_id[j]
    <3> DEFINE Numbers == Nat
    <3>1. run_id \in Seq(Numbers) /\ n \in Numbers
      BY <1>2
    <3> HIDE DEF Numbers
    <3>2. Append(run_id, n) \in [1..(Len(run_id) + 1) -> Numbers]
      BY <3>1, Appended
    <3>3. /\ Append(run_id, n)[Len(run_id) + 1] = n
          /\ \A j \in 1..Len(run_id) : Append(run_id, n)[j] = run_id[j]
      BY <3>1, Appended
    <3> QED BY <3>2, <3>3 DEF Numbers
  <2>2. Len(run) + 1 \in Nat /\ run_id' = Append(run_id, Len(run) + 1)
    BY <1>1, <1>2, <1>5
  <2> QED BY <1>2, <2>1, <2>2
<1>7. run_id' \in [1..(Len(job) + 1) -> 1..(Len(run) + 1)]
  <2>1. ASSUME NEW j \in 1..(Len(job) + 1) PROVE run_id'[j] \in 1..(Len(run) + 1)
    <3>1. CASE j = Len(job) + 1
      BY <1>2, <1>6, <3>1
    <3>2. CASE j # Len(job) + 1
      <4>1. j \in 1..Len(job)
        BY <1>2, <3>2
      <4>2. run_id'[j] = run_id[j] /\ run_id[j] \in 1..Len(run)
        BY <1>2, <1>6, <4>1 DEF JobsSoFar
      <4> QED BY <1>2, <4>2
    <3> QED BY <3>1, <3>2
  <2> QED BY <1>6, <2>1
<1>8. RunsGrow(Len(run) + 1)
  <2>1. \A n \in (Len(run) + 1)..(Len(run) + 1) : run'[n] = NewRun(s)
    BY <1>2, <1>3
  <2> QED BY <1>2, <1>3, <2>1 DEF RunsGrow
<1>9. \A j \in JobsSoFar : SourceOf(j)' = SourceOf(j)
  BY <1>2, <1>3, <1>6 DEF SourceOf, JobsSoFar
<1> QED BY <1>1, <1>4, <1>6, <1>7, <1>8, <1>9 DEF JobsSoFar

LEMMA RetryIs ==
  ASSUME TypeOK, NEW j \in JobsSoFar, Retry(j)
  PROVE  /\ RunsGrow(Len(run) + 1)
         /\ job[j].status = "failed" /\ job' = [job EXCEPT ![j] = Requeued(@)]
         /\ run_id' = [run_id EXCEPT ![j] = Len(run) + 1]
         /\ \A i \in JobsSoFar : SourceOf(i)' = SourceOf(i)
         /\ UNCHANGED <<attempts, documents, worker>>
         /\ disruptions' \in 0..MaxDisruptions
<1>1. /\ run' = Append(run, NewRun(SourceOf(j)))
      /\ run_id' = [run_id EXCEPT ![j] = Len(run')]
      /\ job[j].status = "failed" /\ job' = [job EXCEPT ![j] = Requeued(@)]
      /\ UNCHANGED <<attempts, documents, worker>>
  BY DEF Retry
<1>2. SourceOf(j) \in Sources /\ Len(run) \in Nat /\ run \in Seq(RunRow)
  BY Shapes DEF TypeOK
<1>3. /\ run' \in [1..(Len(run) + 1) -> RunRow] /\ run'[Len(run) + 1] = NewRun(SourceOf(j))
      /\ \A n \in 1..Len(run) : run'[n] = run[n]
  BY <1>1, <1>2, NewRunType, Appended
<1>4. Len(run') = Len(run) + 1
  BY <1>2, <1>3, FunctionIsSequence
<1>5. RunsGrow(Len(run) + 1)
  <2>1. \A n \in (Len(run) + 1)..(Len(run) + 1) : run'[n] = NewRun(SourceOf(j))
    BY <1>2, <1>3
  <2> QED BY <1>2, <1>3, <2>1 DEF RunsGrow
<1>6. disruptions' \in 0..MaxDisruptions
  BY ConstantsAssumption DEF Retry, Disrupt, TypeOK
<1>7. ASSUME NEW i \in JobsSoFar PROVE run'[run_id'[i]].source = run[run_id[i]].source
  <2>1. run_id \in [JobsSoFar -> 1..Len(run)]
    BY Shapes
  <2>2. CASE i = j
    <3>1. run_id'[i] = Len(run) + 1
      BY <1>1, <1>4, <2>1, <2>2
    <3> QED BY <1>2, <1>3, <2>2, <3>1, NewRunType DEF SourceOf
  <2>3. CASE i # j
    <3>1. run_id'[i] = run_id[i] /\ run_id[i] \in 1..Len(run)
      BY <1>1, <2>1, <2>3
    <3> QED BY <1>3, <3>1
  <2> QED BY <2>2, <2>3
<1> QED BY <1>1, <1>4, <1>5, <1>6, <1>7 DEF SourceOf

LEMMA ClaimIs ==
  ASSUME TypeOK, NEW w \in Workers, NEW j \in JobsSoFar, Claim(w, j)
  PROVE  /\ job[j].status = "pending" /\ JobStepIs(j, Claimed(job[j]))
         /\ \E y \in WorkerState :
              /\ y.pc = "claimed" /\ y.job = j /\ y.run = run_id[j]
              /\ y.token = job[j].attempt_count + 1
              /\ worker' = [worker EXCEPT ![w] = y]
         /\ UNCHANGED disruptions
<1>1. /\ job[j].status = "pending" /\ job' = [job EXCEPT ![j] = Claimed(job[j])]
      /\ attempts' = StartAttempt(attempts, SourceOf(j) \in OwnedSources, j, job'[j].attempt_count)
      /\ worker' = [worker EXCEPT ![w] =
                      [Idle EXCEPT !.pc = "claimed", !.job = j, !.run = run_id[j],
                                   !.token = job'[j].lease_token]]
      /\ UNCHANGED <<run_id, run, documents, disruptions>>
  BY DEF Claim
<1>2. /\ job \in [JobsSoFar -> JobRow] /\ run_id[j] \in Nat /\ j \in Nat
      /\ attempts \in SUBSET AttemptRows(JobsSoFar)
  BY Shapes DEF TypeOK, JobsSoFar
<1>3. job'[j] = Claimed(job[j]) /\ job[j] \in JobRow
  BY <1>1, <1>2
<1>4. /\ job'[j].attempt_count = job[j].attempt_count + 1
      /\ job'[j].lease_token = job[j].attempt_count + 1
      /\ job[j].attempt_count + 1 \in Nat
  BY <1>3, ClaimedType
<1>5. attempts' \subseteq AttemptRows(JobsSoFar)
  <2> DEFINE owned == SourceOf(j) \in OwnedSources
  <2>1. StartAttempt(attempts, owned, j, job[j].attempt_count + 1) \in SUBSET AttemptRows(JobsSoFar)
    <3> HIDE DEF owned
    <3> QED BY <1>2, <1>4, StartAttemptType
  <2> QED BY <1>1, <1>4, <2>1
<1> DEFINE y == [Idle EXCEPT !.pc = "claimed", !.job = j, !.run = run_id[j],
                             !.token = job[j].attempt_count + 1]
<1>6. /\ y \in WorkerState /\ y.pc = "claimed" /\ y.job = j /\ y.run = run_id[j]
      /\ y.token = job[j].attempt_count + 1
  BY <1>2, <1>4, IdleWorker DEF Idle, WorkerState, Busy, Executing
<1>7. worker' = [worker EXCEPT ![w] = y]
  BY <1>1, <1>4
<1> HIDE DEF y
<1> QED BY <1>1, <1>5, <1>6, <1>7 DEF JobStepIs

LEMMA FinishIs ==
  ASSUME TypeOK, NEW w \in Workers, Finish(w)
  PROVE  /\ worker[w].pc \in Worked /\ HoldsJob(w)
         /\ JobStepIs(worker[w].job,
                      Finished(job[worker[w].job],
                               IF worker[w].pc = "ran" THEN "completed" ELSE "failed"))
         /\ worker' = [worker EXCEPT ![w] = Idle]
         /\ UNCHANGED disruptions
<1> DEFINE status == IF worker[w].pc = "ran" THEN "completed" ELSE "failed"
<1>1. /\ worker[w].pc \in Worked /\ HoldsJob(w)
      /\ job' = [job EXCEPT ![worker[w].job] = Finished(@, status)]
      /\ attempts' = FinishAttempts(attempts, {worker[w].job}, job, Verdict(status))
      /\ worker' = [worker EXCEPT ![w] = Idle]
      /\ UNCHANGED <<run_id, run, documents, disruptions>>
  BY DEF Finish
<1>2. Verdict(status) \in Outcomes
  BY DEF Verdict, Outcomes
<1>3. attempts' \subseteq AttemptRows(JobsSoFar)
  BY <1>1, <1>2, AttemptTypes
<1> QED BY <1>1, <1>3 DEF JobStepIs

LEMMA LeaseExpiresIs ==
  ASSUME TypeOK, NEW j \in JobsSoFar, LeaseExpires(j)
  PROVE  /\ job[j].status = "running" /\ JobStepIs(j, Expired(job[j]))
         /\ UNCHANGED worker /\ disruptions' \in 0..MaxDisruptions
<1>1. /\ job[j].status = "running" /\ job' = [job EXCEPT ![j] = Expired(@)]
      /\ UNCHANGED <<run_id, run, attempts, documents, worker>>
  BY DEF LeaseExpires
<1>2. disruptions' \in 0..MaxDisruptions
  BY ConstantsAssumption DEF LeaseExpires, Disrupt, TypeOK
<1> QED BY <1>1, <1>2 DEF JobStepIs, TypeOK

LEMMA HeartbeatIs ==
  ASSUME TypeOK, NEW w \in Workers, Heartbeat(w)
  PROVE  /\ worker[w].pc \in Executing
         /\ \/ /\ HoldsJob(w) /\ JobStepIs(worker[w].job, Extended(job[worker[w].job]))
               /\ UNCHANGED worker
            \/ /\ UNCHANGED <<job, run_id, run, attempts, documents>>
               /\ worker' = [worker EXCEPT ![w].lost = TRUE]
         /\ UNCHANGED disruptions
<1>1. CASE /\ HoldsJob(w) /\ job' = [job EXCEPT ![worker[w].job] = Extended(@)]
           /\ UNCHANGED worker
  BY <1>1 DEF Heartbeat, JobStepIs, TypeOK
<1>2. CASE worker' = [worker EXCEPT ![w].lost = TRUE] /\ UNCHANGED job
  BY <1>2 DEF Heartbeat
<1> QED BY <1>1, <1>2 DEF Heartbeat

(* A worker that changes by one entry. *)
LEMMA OneWorkerIs ==
  ASSUME TypeOK, NEW w \in Workers, NEW y \in WorkerState,
         y.pc \in Busy => y.job \in JobsSoFar /\ y.run \in 1..Len(run),
         worker' = [worker EXCEPT ![w] = y]
  PROVE  /\ worker' \in [Workers -> WorkerState] /\ worker'[w] = y
         /\ \A v \in Workers : v # w => worker'[v] = worker[v]
         /\ \A v \in Workers : worker'[v].pc \in Busy =>
              worker'[v].job \in JobsSoFar /\ worker'[v].run \in 1..Len(run)
<1>1. worker \in [Workers -> WorkerState]
  BY Shapes
<1>2. worker' \in [Workers -> WorkerState] /\ worker'[w] = y
  BY <1>1
<1>3. \A v \in Workers : v # w => worker'[v] = worker[v]
  BY <1>1
<1> QED BY <1>2, <1>3, Shapes

LEMMA JobStepType ==
  ASSUME TypeOK, NEW j \in JobsSoFar, NEW row \in JobRow, JobStepIs(j, row),
         worker' \in [Workers -> WorkerState],
         \A w \in Workers : worker'[w].pc \in Busy =>
           worker'[w].job \in JobsSoFar /\ worker'[w].run \in 1..Len(run),
         disruptions' \in 0..MaxDisruptions
  PROVE  /\ TypeOK' /\ Len(job') = Len(job) /\ Len(run') = Len(run)
         /\ job'[j] = row /\ \A k \in JobsSoFar : k # j => job'[k] = job[k]
<1>1. /\ Len(job) \in Nat /\ Len(run) \in Nat /\ run \in [1..Len(run) -> RunRow]
      /\ job \in [1..Len(job) -> JobRow] /\ run_id \in [1..Len(job) -> 1..Len(run)]
  BY Shapes DEF JobsSoFar
<1>2. /\ job' = [job EXCEPT ![j] = row] /\ run' = run /\ run_id' = run_id
      /\ documents' = documents /\ attempts' \subseteq AttemptRows(1..Len(job))
      /\ documents \subseteq Sources \X Items
  BY DEF JobStepIs, JobsSoFar, TypeOK
<1>3. /\ job' \in [1..Len(job) -> JobRow] /\ job'[j] = row
      /\ \A k \in JobsSoFar : k # j => job'[k] = job[k]
  BY <1>1, <1>2 DEF JobsSoFar
<1>4. TypeOK' /\ Len(job') = Len(job) /\ Len(run') = Len(run)
  BY <1>1, <1>2, <1>3, ShapesAre DEF JobsSoFar
<1> QED BY <1>3, <1>4

LEMMA WorkerStepType ==
  ASSUME TypeOK, NEW w \in Workers, NEW y \in WorkerState,
         y.pc \in Busy => y.job \in JobsSoFar /\ y.run \in 1..Len(run),
         worker' = [worker EXCEPT ![w] = y], UNCHANGED <<job, run_id, attempts>>,
         run' \in [1..Len(run) -> RunRow], documents' \subseteq Sources \X Items,
         disruptions' \in 0..MaxDisruptions
  PROVE  /\ TypeOK' /\ Len(run') = Len(run) /\ worker'[w] = y
         /\ \A v \in Workers : v # w => worker'[v] = worker[v]
<1>1. /\ worker' \in [Workers -> WorkerState] /\ worker'[w] = y
      /\ \A v \in Workers : v # w => worker'[v] = worker[v]
      /\ \A v \in Workers : worker'[v].pc \in Busy =>
           worker'[v].job \in 1..Len(job) /\ worker'[v].run \in 1..Len(run)
  BY OneWorkerIs DEF JobsSoFar
<1>2. /\ Len(job) \in Nat /\ Len(run) \in Nat
      /\ job \in [1..Len(job) -> JobRow] /\ run_id \in [1..Len(job) -> 1..Len(run)]
      /\ attempts \subseteq AttemptRows(1..Len(job))
  BY Shapes DEF JobsSoFar, TypeOK
<1>3. TypeOK' /\ Len(run') = Len(run)
  BY <1>1, <1>2, ShapesAre
<1> QED BY <1>1, <1>3

LEMMA GrowType ==
  ASSUME TypeOK, NEW k \in Nat, NEW m \in Nat, RunsGrow(m), Len(job) <= k,
         job' \in [1..k -> JobRow], run_id' \in [1..k -> 1..m],
         attempts' \subseteq AttemptRows(1..k), UNCHANGED <<documents, worker>>,
         disruptions' \in 0..MaxDisruptions
  PROVE  TypeOK' /\ Len(job') = k /\ Len(run') = m
<1>1. run' \in [1..m -> RunRow] /\ Len(run) <= m
  BY DEF RunsGrow
<1>2. /\ Len(job) \in Nat /\ Len(run) \in Nat /\ worker' \in [Workers -> WorkerState]
      /\ documents' \subseteq Sources \X Items
  BY Shapes DEF TypeOK
<1>3. \A w \in Workers : worker'[w].pc \in Busy =>
        worker'[w].job \in 1..k /\ worker'[w].run \in 1..m
  <2> SUFFICES ASSUME NEW w \in Workers, worker[w].pc \in Busy
               PROVE worker[w].job \in 1..k /\ worker[w].run \in 1..m
    OBVIOUS
  <2>1. worker[w].job \in 1..Len(job) /\ worker[w].run \in 1..Len(run)
    BY Shapes DEF JobsSoFar
  <2> QED BY <1>1, <1>2, <2>1
<1> QED BY <1>1, <1>2, <1>3, ShapesAre
--------------------------------------------------------------------------------
(* The inductive invariant. *)

(* A worker's claim was counted by the row of its job. *)
ClaimsAreCounted ==
  \A w \in Workers : worker[w].pc \in Busy =>
    worker[w].token \in 1..job[worker[w].job].attempt_count

(* The worker that holds a job executes the run the job asks for now. *)
HoldersKnowRuns ==
  \A w \in Workers : HoldsJob(w) => worker[w].run = run_id[worker[w].job]

(* What a worker in the executor may rely on. *)
OwnsRun(w) ==
  LET mine == run[worker[w].run] IN
  /\ Fetching(w) => mine.status \in {"running", "failed"}
  /\ worker[w].pc = "started" => mine.attempt_count < MaxAttempts
  /\ worker[w].pc = "fetching" => worker[w].attempt = mine.attempt_count
  /\ worker[w].pc = "ran" => mine.status = "completed"

PendingRunsAreNew ==
  \A n \in 1..Len(run) : run[n].status = "pending" => run[n].attempt_count = 0

(* All of it but the documents. *)
RunsInv ==
  /\ TypeOK /\ ClaimsAreCounted /\ HoldersKnowRuns /\ PendingRunsAreNew
  /\ \A w \in Workers : OwnsRun(w)
  /\ CompletedJobHasCompletedRun /\ OneExecutor /\ AttemptsBounded

IngestionInv == RunsInv /\ IsFiniteSet(documents) /\ DocumentsCounted

(* A worker as it was, as far as its job and run go. *)
Kept(v) ==
  /\ worker'[v].pc = worker[v].pc /\ worker'[v].job = worker[v].job
  /\ worker'[v].token = worker[v].token /\ worker'[v].run = worker[v].run
  /\ worker'[v].attempt = worker[v].attempt

JustClaimed(v) ==
  LET j == worker'[v].job IN
  /\ worker'[v].pc = "claimed" /\ worker'[v].run = run_id[j]
  /\ worker'[v].token \in 1..job'[j].attempt_count

(* Steps that leave every run alone.                                       *)
LEMMA QuietSteps ==
  ASSUME RunsInv, TypeOK', Len(job') = Len(job), UNCHANGED <<run, run_id>>,
         \A j \in JobsSoFar :
           /\ job[j].attempt_count <= job'[j].attempt_count
           /\ job'[j].status = "completed" =>
                job[j].status = "completed" \/ run[run_id[j]].status = "completed",
         \A v \in Workers :
           \/ worker'[v].pc = "idle"
           \/ Kept(v) /\ (HoldsJob(v)' => HoldsJob(v))
           \/ JustClaimed(v)
  PROVE  RunsInv'
<1>1. /\ Len(job) \in Nat /\ job \in [JobsSoFar -> JobRow] /\ JobsSoFar' = JobsSoFar
      /\ job' \in [JobsSoFar -> JobRow]
  BY Shapes, ShapesAfter DEF RunsInv, JobsSoFar
<1>2. \A v \in Workers : worker[v].pc \in Busy =>
        worker[v].job \in JobsSoFar /\ worker[v].run \in 1..Len(run)
  BY Shapes DEF RunsInv
<1>3. "idle" \notin Busy /\ "claimed" \notin Executing \ {"claimed"}
  BY DEF Busy, Executing, Worked
<1>4. ClaimsAreCounted'
  <2> SUFFICES ASSUME NEW v \in Workers, worker'[v].pc \in Busy
               PROVE worker'[v].token \in 1..job'[worker'[v].job].attempt_count
    BY DEF ClaimsAreCounted
  <2>1. CASE JustClaimed(v)
    BY <2>1 DEF JustClaimed
  <2>2. CASE Kept(v)
    <3>1. /\ worker[v].pc \in Busy
          /\ worker'[v].job = worker[v].job /\ worker'[v].token = worker[v].token
      BY <2>2 DEF Kept
    <3>2. worker[v].job \in JobsSoFar /\ worker[v].token \in 1..job[worker[v].job].attempt_count
      BY <1>2, <3>1 DEF RunsInv, ClaimsAreCounted
    <3>3. /\ job[worker[v].job].attempt_count \in Nat /\ job'[worker[v].job].attempt_count \in Nat
          /\ job[worker[v].job].attempt_count <= job'[worker[v].job].attempt_count
      BY <1>1, <3>2 DEF JobRow
    <3> QED BY <3>1, <3>2, <3>3
  <2> QED BY <1>3, <2>1, <2>2
<1>5. HoldersKnowRuns'
  <2> SUFFICES ASSUME NEW v \in Workers, HoldsJob(v)'
               PROVE worker'[v].run = run_id[worker'[v].job]
    BY DEF HoldersKnowRuns
  <2>1. worker'[v].pc # "idle"
    BY <1>3 DEF HoldsJob
  <2>2. CASE JustClaimed(v)
    BY <2>2 DEF JustClaimed
  <2>3. CASE Kept(v) /\ HoldsJob(v)
    BY <2>3 DEF Kept, RunsInv, HoldersKnowRuns
  <2> QED BY <2>1, <2>2, <2>3
<1>6. PendingRunsAreNew' /\ AttemptsBounded'
  BY DEF RunsInv, PendingRunsAreNew, AttemptsBounded
<1>7. ASSUME NEW v \in Workers PROVE OwnsRun(v)'
  <2>1. CASE worker'[v].pc = "idle" \/ JustClaimed(v)
    BY <2>1 DEF JustClaimed, OwnsRun, Fetching, Executing
  <2>2. CASE Kept(v)
    BY <2>2 DEF Kept, RunsInv, OwnsRun, Fetching
  <2> QED BY <2>1, <2>2
<1>8. \A v \in Workers : Fetching(v)' => Fetching(v) /\ worker'[v].run = worker[v].run
  <2> SUFFICES ASSUME NEW v \in Workers, Fetching(v)'
               PROVE Fetching(v) /\ worker'[v].run = worker[v].run
    OBVIOUS
  <2>1. worker'[v].pc # "idle" /\ ~JustClaimed(v)
    BY DEF Fetching, JustClaimed, Executing
  <2> QED BY <2>1 DEF Kept, Fetching
<1>9. OneExecutor'
  BY <1>8 DEF RunsInv, OneExecutor
<1>10. CompletedJobHasCompletedRun'
  BY <1>1 DEF RunsInv, CompletedJobHasCompletedRun
<1> QED BY <1>4, <1>5, <1>6, <1>7, <1>9, <1>10 DEF RunsInv

(* Steps that give jobs new runs.                                          *)
LEMMA GrowingSteps ==
  ASSUME RunsInv, TypeOK', NEW m \in Nat, RunsGrow(m), Len(run') = m,
         Len(job) <= Len(job'), UNCHANGED worker,
         \A j \in JobsSoFar :
           /\ job[j].attempt_count <= job'[j].attempt_count
           /\ job'[j].status \in {"running", "completed"} =>
                /\ run_id'[j] = run_id[j]
                /\ job'[j].status = job[j].status
                /\ job'[j].lease_token = job[j].lease_token,
         \A j \in JobsSoFar' \ JobsSoFar : job'[j].status = "pending"
  PROVE  RunsInv'
<1>1. /\ Len(job) \in Nat /\ job \in [JobsSoFar -> JobRow] /\ JobsSoFar \subseteq JobsSoFar'
      /\ Len(job') \in Nat /\ job' \in [JobsSoFar' -> JobRow]
      /\ run \in [1..Len(run) -> RunRow] /\ Len(run) \in Nat /\ Len(run) <= m
      /\ run_id \in [JobsSoFar -> 1..Len(run)]
  <2>1. TypeOK
    BY DEF RunsInv
  <2>2. Len(run) <= m
    BY DEF RunsGrow
  <2>3. Len(job) \in Nat /\ Len(job') \in Nat
    BY <2>1, Shapes, ShapesAfter
  <2>4. job' \in [JobsSoFar' -> JobRow]
    BY ShapesAfter
  <2> QED BY <2>1, <2>2, <2>3, <2>4, Shapes DEF JobsSoFar
<1>2. ASSUME NEW v \in Workers, worker[v].pc \in Busy
      PROVE  worker[v].job \in JobsSoFar /\ worker[v].run \in 1..Len(run)
  BY <1>2, Shapes DEF RunsInv
<1>3. ASSUME NEW n \in 1..Len(run)
      PROVE  /\ n \in 1..m /\ run'[n].attempt_count = run[n].attempt_count
             /\ run[n].status # "running" => run'[n].status = run[n].status
             /\ run'[n].status # run[n].status => run'[n].status = "failed"
  <2>1. n \in 1..m /\ run[n] \in RunRow
    BY <1>1, SMTT(30)
  <2>2. CASE run'[n] = run[n]
    BY <2>1, <2>2
  <2>3. CASE run[n].status = "running" /\ run'[n] = [run[n] EXCEPT !.status = "failed"]
    <3>1. run'[n].status = "failed" /\ run'[n].attempt_count = run[n].attempt_count
      BY <2>1, <2>3 DEF RunRow
    <3> QED BY <2>1, <2>3, <3>1
  <2> QED BY <2>2, <2>3 DEF RunsGrow
<1>4. ClaimsAreCounted'
  <2> SUFFICES ASSUME NEW v \in Workers, worker[v].pc \in Busy
               PROVE worker[v].token \in 1..job'[worker[v].job].attempt_count
    BY DEF ClaimsAreCounted
  <2>1. worker[v].job \in JobsSoFar /\ worker[v].token \in 1..job[worker[v].job].attempt_count
    BY <1>2 DEF RunsInv, ClaimsAreCounted
  <2>2. /\ job[worker[v].job].attempt_count \in Nat /\ job'[worker[v].job].attempt_count \in Nat
        /\ job[worker[v].job].attempt_count <= job'[worker[v].job].attempt_count
    BY <1>1, <2>1 DEF JobRow
  <2> QED BY <2>1, <2>2
<1>5. HoldersKnowRuns'
  <2> SUFFICES ASSUME NEW v \in Workers, HoldsJob(v)'
               PROVE worker[v].run = run_id'[worker[v].job]
    BY DEF HoldersKnowRuns
  <2>1. /\ worker[v].pc \in Busy /\ job'[worker[v].job].status = "running"
        /\ job'[worker[v].job].lease_token = worker[v].token
    BY DEF HoldsJob, Holds
  <2>2. worker[v].job \in JobsSoFar
    BY <1>2, <2>1
  <2>3. HoldsJob(v) /\ run_id'[worker[v].job] = run_id[worker[v].job]
    BY <2>1, <2>2 DEF HoldsJob, Holds
  <2> QED BY <2>3 DEF RunsInv, HoldersKnowRuns
<1>6. ASSUME NEW n \in (Len(run) + 1)..m
      PROVE  run'[n].attempt_count = 0
  <2>1. PICK s \in Sources : run'[n] = NewRun(s)
    BY DEF RunsGrow
  <2> QED BY <2>1 DEF NewRun
<1>7. PendingRunsAreNew'
  <2> SUFFICES ASSUME NEW n \in 1..m, run'[n].status = "pending"
               PROVE run'[n].attempt_count = 0
    BY DEF PendingRunsAreNew
  <2>1. CASE n \in 1..Len(run)
    BY <1>3, <2>1 DEF RunsInv, PendingRunsAreNew
  <2>2. CASE n \notin 1..Len(run)
    BY <1>1, <1>6, <2>2
  <2> QED BY <2>1, <2>2
<1>8. AttemptsBounded'
  <2> SUFFICES ASSUME NEW n \in 1..m PROVE run'[n].attempt_count <= MaxAttempts
    BY DEF AttemptsBounded
  <2>1. CASE n \in 1..Len(run)
    BY <1>3, <2>1 DEF RunsInv, AttemptsBounded
  <2>2. CASE n \notin 1..Len(run)
    <3>1. run'[n].attempt_count = 0
      BY <1>1, <1>6, <2>2
    <3> QED BY <3>1, ConstantsAssumption
  <2> QED BY <2>1, <2>2
<1>9. ASSUME NEW v \in Workers PROVE OwnsRun(v)'
  <2>1. CASE worker[v].pc \in Busy
    <3>1. worker[v].run \in 1..Len(run)
      BY <1>2, <2>1
    <3> DEFINE before == run[worker[v].run]
               after == run'[worker[v].run]
    <3>2. /\ after.attempt_count = before.attempt_count
          /\ before.status # "running" => after.status = before.status
          /\ after.status # before.status => after.status = "failed"
      BY <1>3, <3>1
    <3>3. OwnsRun(v)
      BY DEF RunsInv
    <3> QED BY <3>2, <3>3 DEF OwnsRun, Fetching
  <2>2. CASE worker[v].pc \notin Busy
    BY <2>2 DEF OwnsRun, Fetching, Busy, Executing, Worked
  <2> QED BY <2>1, <2>2
<1>10. OneExecutor'
  BY DEF RunsInv, OneExecutor, Fetching
<1>11. CompletedJobHasCompletedRun'
  <2> SUFFICES ASSUME NEW j \in JobsSoFar', job'[j].status = "completed"
               PROVE run'[run_id'[j]].status = "completed"
    BY DEF CompletedJobHasCompletedRun
  <2>1. j \in JobsSoFar
    OBVIOUS
  <2>2. job[j].status = "completed" /\ run_id'[j] = run_id[j]
    BY <2>1
  <2>3. run[run_id[j]].status = "completed" /\ run_id[j] \in 1..Len(run)
    BY <1>1, <2>1, <2>2 DEF RunsInv, CompletedJobHasCompletedRun
  <2> QED BY <1>3, <2>2, <2>3
<1> QED BY <1>4, <1>5, <1>7, <1>8, <1>9, <1>10, <1>11 DEF RunsInv

(* Steps of an executor: only the run of w changes, and the run has its    *)
(* verdict, or belongs to w, or is nobody's yet.                           *)
LEMMA ExecutorSteps ==
  ASSUME RunsInv, TypeOK', NEW w \in Workers, worker[w].pc \in Busy,
         UNCHANGED <<job, run_id>>, Len(run') = Len(run),
         \A n \in 1..Len(run) : n # worker[w].run => run'[n] = run[n],
         \A v \in Workers : v # w => worker'[v] = worker[v],
         worker'[w].job = worker[w].job, worker'[w].token = worker[w].token,
         worker'[w].run = worker[w].run,
         \/ run'[worker[w].run] = run[worker[w].run]
         \/ run[worker[w].run].status = "pending"
         \/ Fetching(w),
         Fetching(w)' => Fetching(w) \/ run[worker[w].run].status = "pending",
         run[worker[w].run].status = "completed" => run'[worker[w].run].status = "completed",
         run'[worker[w].run].status = "pending" => run'[worker[w].run].attempt_count = 0,
         run'[worker[w].run].attempt_count <= MaxAttempts,
         OwnsRun(w)', worker'[w].pc \in Busy
  PROVE  RunsInv'
<1> DEFINE r == worker[w].run
<1>1. /\ r \in 1..Len(run) /\ run_id \in [JobsSoFar -> 1..Len(run)]
      /\ \A v \in Workers : worker[v].pc \in Busy => worker[v].run \in 1..Len(run)
  BY Shapes DEF RunsInv
<1>2. ASSUME NEW v \in Workers, Fetching(v)', v # w
      PROVE  Fetching(v) /\ worker[v].run \in 1..Len(run)
  <2>1. worker'[v] = worker[v] /\ Fetching(v) /\ worker[v].pc \in Busy
    BY <1>2 DEF Fetching, Busy
  <2> QED BY <1>1, <2>1
<1>3. ASSUME NEW v \in Workers, v # w, Fetching(v), worker[v].run = r
      PROVE  run' [r] = run[r] /\ ~Fetching(w) /\ run[r].status # "pending"
  <2>1. ~Fetching(w)
    BY <1>3 DEF RunsInv, OneExecutor
  <2>2. run[r].status # "pending"
    BY <1>3 DEF RunsInv, OwnsRun
  <2> QED BY <2>1, <2>2
<1>4. ClaimsAreCounted'
  BY DEF RunsInv, ClaimsAreCounted
<1>5. HoldersKnowRuns'
  <2>1. \A v \in Workers : HoldsJob(v)' => HoldsJob(v) /\ worker'[v].run = worker[v].run
                                           /\ worker'[v].job = worker[v].job
    BY DEF HoldsJob, Holds
  <2> QED BY <2>1 DEF RunsInv, HoldersKnowRuns
<1>6. PendingRunsAreNew' /\ AttemptsBounded'
  BY DEF RunsInv, PendingRunsAreNew, AttemptsBounded
<1>7. ASSUME NEW v \in Workers, v # w PROVE OwnsRun(v)'
  <2>1. OwnsRun(v) /\ worker'[v] = worker[v]
    BY <1>7 DEF RunsInv
  <2>2. CASE worker[v].pc \in Busy /\ worker[v].run # r
    <3>1. worker[v].run \in 1..Len(run)
      BY <1>1, <2>2
    <3>2. run'[worker[v].run] = run[worker[v].run]
      BY <2>2, <3>1
    <3> QED BY <2>1, <3>2 DEF OwnsRun, Fetching
  <2>3. CASE worker[v].pc \in Busy /\ worker[v].run = r
    <3>1. CASE Fetching(v)
      <4>1. run'[r] = run[r]
        BY <1>3, <1>7, <2>3, <3>1
      <4> QED BY <2>1, <2>3, <4>1 DEF OwnsRun, Fetching
    <3>2. CASE ~Fetching(v)
      BY <2>1, <2>3, <3>2 DEF OwnsRun, Fetching, Executing
    <3> QED BY <3>1, <3>2
  <2>4. CASE worker[v].pc \notin Busy
    BY <2>1, <2>4 DEF OwnsRun, Fetching, Busy, Executing, Worked
  <2> QED BY <2>2, <2>3, <2>4
<1>8. OneExecutor'
  <2> SUFFICES ASSUME NEW v \in Workers, NEW u \in Workers, Fetching(v)', Fetching(u)',
                      worker'[v].run = worker'[u].run
               PROVE v = u
    BY DEF OneExecutor
  <2>1. CASE v # w /\ u # w
    BY <1>2, <2>1 DEF RunsInv, OneExecutor
  <2>2. ASSUME NEW x \in Workers, x # w, Fetching(x)', worker'[x].run = r, Fetching(w)'
        PROVE  FALSE
    <3>1. Fetching(x) /\ worker[x].run = r
      BY <1>2, <2>2
    <3> QED BY <1>3, <2>2, <3>1
  <2>3. CASE (v = w /\ u # w) \/ (v # w /\ u = w)
    BY <2>2, <2>3
  <2> QED BY <2>1, <2>3
<1>9. CompletedJobHasCompletedRun'
  <2> SUFFICES ASSUME NEW j \in JobsSoFar, job[j].status = "completed"
               PROVE run'[run_id[j]].status = "completed"
    BY DEF CompletedJobHasCompletedRun, JobsSoFar
  <2>1. run[run_id[j]].status = "completed" /\ run_id[j] \in 1..Len(run)
    BY <1>1 DEF RunsInv, CompletedJobHasCompletedRun
  <2> QED BY <2>1
<1>10. \A v \in Workers : OwnsRun(v)'
  BY <1>7
<1> QED BY <1>4, <1>5, <1>6, <1>8, <1>9, <1>10 DEF RunsInv

(* Documents are counted as long as the counts of runs stay.               *)
LEMMA CountsKept ==
  ASSUME TypeOK, TypeOK', DocumentsCounted, UNCHANGED documents, Len(run) <= Len(run'),
         \A n \in 1..Len(run) :
           /\ run'[n].source = run[n].source
           /\ run'[n].documents_created = run[n].documents_created,
         \A n \in (Len(run) + 1)..Len(run') : run'[n].documents_created = 0
  PROVE  DocumentsCounted'
<1> SUFFICES ASSUME NEW s \in Sources
             PROVE Total(CreatedFor(s)') = Cardinality({d \in documents : d[1] = s})
  BY DEF DocumentsCounted
<1> DEFINE m == Len(run)
           k == Len(run')
           c == CreatedFor(s)
           d == CreatedFor(s)'
<1>1. m \in Nat /\ k \in Nat /\ m <= k
  BY Shapes, ShapesAfter
<1>2. c \in [1..m -> Nat] /\ d \in [1..k -> Nat]
  BY Shapes, ShapesAfter DEF CreatedFor, RunRow
<1>3. \A n \in 1..m : d[n] = c[n]
  BY <1>1 DEF CreatedFor
<1>4. \A n \in (m + 1)..k : d[n] = 0
  BY <1>1 DEF CreatedFor
<1> HIDE DEF m, k, c, d
<1>5. Grows(m, c, k, d, 0, 0)
  BY <1>1, <1>2, <1>3, <1>4 DEF Grows
<1>6. Total(d) = Total(c)
  BY <1>5, TotalKept
<1> QED BY <1>6 DEF DocumentsCounted, c, d

--------------------------------------------------------------------------------
(* Each step keeps the invariant. *)

(* Nobody comes to hold a job by a change of its row: a new token is larger *)
(* than every one handed out before.                                       *)
LEMMA NobodyGainsAJob ==
  ASSUME RunsInv, NEW j \in JobsSoFar, NEW row \in JobRow, job'[j] = row,
         \A k \in JobsSoFar : k # j => job'[k] = job[k],
         row.status = "running" =>
           \/ job[j].status = "running" /\ row.lease_token = job[j].lease_token
           \/ job[j].attempt_count < row.lease_token,
         NEW v \in Workers, Kept(v), HoldsJob(v)'
  PROVE  HoldsJob(v)
<1>1. /\ worker[v].pc \in Busy /\ worker'[v].job = worker[v].job
      /\ worker'[v].token = worker[v].token
      /\ job'[worker[v].job].status = "running"
      /\ job'[worker[v].job].lease_token = worker[v].token
  BY DEF Kept, HoldsJob, Holds
<1>2. /\ worker[v].job \in JobsSoFar /\ job \in [JobsSoFar -> JobRow]
      /\ worker[v].token \in 1..job[worker[v].job].attempt_count
  BY <1>1, Shapes DEF RunsInv, ClaimsAreCounted
<1>3. CASE worker[v].job # j
  BY <1>1, <1>2, <1>3 DEF HoldsJob, Holds
<1>4. CASE worker[v].job = j
  <2>1. ~(job[j].attempt_count < row.lease_token)
    BY <1>1, <1>2, <1>4 DEF JobRow
  <2> QED BY <1>1, <1>4, <2>1 DEF HoldsJob, Holds
<1> QED BY <1>3, <1>4

LEMMA QuietDocuments ==
  ASSUME IngestionInv, RunsInv', UNCHANGED <<run, documents>>
  PROVE  IngestionInv'
<1>1. \A s : CreatedFor(s)' = CreatedFor(s)
  BY DEF CreatedFor
<1> QED BY <1>1 DEF IngestionInv, DocumentsCounted

LEMMA ClaimKeeps ==
  ASSUME IngestionInv, NEW w \in Workers, NEW j \in JobsSoFar, Claim(w, j)
  PROVE  IngestionInv'
<1>0. RunsInv /\ TypeOK
  BY DEF IngestionInv, RunsInv
<1>1. /\ job[j].status = "pending" /\ JobStepIs(j, Claimed(job[j])) /\ UNCHANGED disruptions
      /\ \E y \in WorkerState :
           /\ y.pc = "claimed" /\ y.job = j /\ y.run = run_id[j]
           /\ y.token = job[j].attempt_count + 1 /\ worker' = [worker EXCEPT ![w] = y]
  BY <1>0, ClaimIs
<1>2. PICK y \in WorkerState :
           /\ y.pc = "claimed" /\ y.job = j /\ y.run = run_id[j]
           /\ y.token = job[j].attempt_count + 1 /\ worker' = [worker EXCEPT ![w] = y]
  BY <1>1
<1>3. job \in [JobsSoFar -> JobRow] /\ job[j] \in JobRow /\ run_id[j] \in 1..Len(run)
  BY <1>0, Shapes
<1>4. /\ Claimed(job[j]) \in JobRow /\ job[j].attempt_count \in Nat
      /\ Claimed(job[j]).status = "running"
      /\ Claimed(job[j]).attempt_count = job[j].attempt_count + 1
      /\ Claimed(job[j]).lease_token = job[j].attempt_count + 1
  BY <1>3, ClaimedType
<1>5. /\ worker' \in [Workers -> WorkerState] /\ worker'[w] = y
      /\ \A v \in Workers : v # w => worker'[v] = worker[v]
      /\ \A v \in Workers : worker'[v].pc \in Busy =>
           worker'[v].job \in JobsSoFar /\ worker'[v].run \in 1..Len(run)
  BY <1>0, <1>2, <1>3, OneWorkerIs
<1>6. disruptions' \in 0..MaxDisruptions
  BY <1>0, <1>1 DEF TypeOK
<1>7. /\ TypeOK' /\ Len(job') = Len(job) /\ job'[j] = Claimed(job[j])
      /\ \A k \in JobsSoFar : k # j => job'[k] = job[k]
  BY <1>0, <1>1, <1>4, <1>5, <1>6, JobStepType
<1>8. UNCHANGED <<run, run_id, documents>>
  BY <1>1 DEF JobStepIs
<1>9. ASSUME NEW k \in JobsSoFar
      PROVE  /\ job[k].attempt_count <= job'[k].attempt_count
             /\ job'[k].status = "completed" => job[k].status = "completed"
  <2>1. job[k].attempt_count \in Nat
    BY <1>3 DEF JobRow
  <2>2. CASE k = j
    BY <1>4, <1>7, <2>1, <2>2
  <2>3. CASE k # j
    BY <1>7, <2>1, <2>3
  <2> QED BY <2>2, <2>3
<1>10. JustClaimed(w)
  BY <1>2, <1>4, <1>5, <1>7 DEF JustClaimed
<1>11. ASSUME NEW v \in Workers, v # w
       PROVE  Kept(v) /\ (HoldsJob(v)' => HoldsJob(v))
  <2>1. Kept(v)
    BY <1>5, <1>11 DEF Kept
  <2>2. job[j].attempt_count < Claimed(job[j]).lease_token
    BY <1>4
  <2> QED BY <1>0, <1>4, <1>7, <2>1, <2>2, NobodyGainsAJob
<1>12. RunsInv'
  BY <1>0, <1>7, <1>8, <1>9, <1>10, <1>11, QuietSteps
<1> QED BY <1>8, <1>12, QuietDocuments

(* A row that changes while its worker stays or goes idle.                 *)
LEMMA RowKeeps ==
  ASSUME IngestionInv, NEW j \in JobsSoFar, NEW row \in JobRow, JobStepIs(j, row),
         row.attempt_count = job[j].attempt_count,
         row.status = "running" => /\ job[j].status = "running"
                                   /\ row.lease_token = job[j].lease_token,
         row.status = "completed" => run[run_id[j]].status = "completed",
         worker' \in [Workers -> WorkerState],
         \A v \in Workers : worker'[v] = worker[v] \/ worker'[v] = Idle,
         disruptions' \in 0..MaxDisruptions
  PROVE  IngestionInv'
<1>0. RunsInv /\ TypeOK /\ job \in [JobsSoFar -> JobRow] /\ worker \in [Workers -> WorkerState]
  BY Shapes DEF IngestionInv, RunsInv
<1>2. /\ worker' \in [Workers -> WorkerState]
      /\ \A v \in Workers : worker'[v].pc \in Busy =>
           worker'[v].job \in JobsSoFar /\ worker'[v].run \in 1..Len(run)
  BY <1>0, IdleWorker, Shapes
<1>3. /\ TypeOK' /\ Len(job') = Len(job) /\ job'[j] = row
      /\ \A k \in JobsSoFar : k # j => job'[k] = job[k]
  BY <1>0, <1>2, JobStepType
<1>4. UNCHANGED <<run, run_id, documents>>
  BY DEF JobStepIs
<1>5. ASSUME NEW k \in JobsSoFar
      PROVE  /\ job[k].attempt_count <= job'[k].attempt_count
             /\ job'[k].status = "completed" =>
                  job[k].status = "completed" \/ run[run_id[k]].status = "completed"
  <2>1. job[k].attempt_count \in Nat
    BY <1>0 DEF JobRow
  <2>2. CASE k = j
    BY <1>3, <2>1, <2>2
  <2>3. CASE k # j
    BY <1>3, <2>1, <2>3
  <2> QED BY <2>2, <2>3
<1>6. ASSUME NEW v \in Workers
      PROVE  \/ worker'[v].pc = "idle"
             \/ Kept(v) /\ (HoldsJob(v)' => HoldsJob(v))
  <2>1. CASE worker'[v] = Idle
    BY <2>1, IdleWorker
  <2>2. CASE worker'[v] = worker[v]
    <3>1. Kept(v)
      BY <2>2 DEF Kept
    <3> QED BY <1>0, <1>3, <3>1, NobodyGainsAJob
  <2> QED BY <2>1, <2>2
<1>7. RunsInv'
  BY <1>0, <1>3, <1>4, <1>5, <1>6, QuietSteps
<1> QED BY <1>4, <1>7, QuietDocuments

LEMMA FinishKeeps ==
  ASSUME IngestionInv, NEW w \in Workers, Finish(w)
  PROVE  IngestionInv'
<1> DEFINE j == worker[w].job
           status == IF worker[w].pc = "ran" THEN "completed" ELSE "failed"
           row == Finished(job[j], status)
<1>0. RunsInv /\ TypeOK
  BY DEF IngestionInv, RunsInv
<1>1. /\ worker[w].pc \in Worked /\ HoldsJob(w) /\ JobStepIs(j, row)
      /\ worker' = [worker EXCEPT ![w] = Idle] /\ UNCHANGED disruptions
  BY <1>0, FinishIs
<1>2. /\ j \in JobsSoFar /\ job[j] \in JobRow
  <2>1. worker[w].pc \in Busy
    BY <1>1 DEF Busy
  <2> QED BY <1>0, <2>1, Shapes
<1>3. status \in Statuses /\ status # "running"
  BY DEF Statuses
<1>4. /\ row \in JobRow /\ row.attempt_count = job[j].attempt_count /\ row.status = status
  <2> HIDE DEF status, j
  <2> QED BY <1>2, <1>3, RowTypes, RowClaims
<1>5. status = "completed" => run[run_id[j]].status = "completed"
  BY <1>0, <1>1 DEF RunsInv, OwnsRun, HoldersKnowRuns
<1>6. disruptions' \in 0..MaxDisruptions
  BY <1>0, <1>1 DEF TypeOK
<1>7. /\ worker' \in [Workers -> WorkerState]
      /\ \A v \in Workers : worker'[v] = worker[v] \/ worker'[v] = Idle
  BY <1>0, <1>1, IdleWorker, Shapes
<1> HIDE DEF row, status, j
<1> QED BY <1>1, <1>2, <1>3, <1>4, <1>5, <1>6, <1>7, RowKeeps

LEMMA LeaseExpiresKeeps ==
  ASSUME IngestionInv, NEW j \in JobsSoFar, LeaseExpires(j)
  PROVE  IngestionInv'
<1> DEFINE row == Expired(job[j])
<1>0. RunsInv /\ TypeOK /\ job[j] \in JobRow
  BY Shapes DEF IngestionInv, RunsInv
<1>1. /\ job[j].status = "running" /\ JobStepIs(j, row)
      /\ UNCHANGED worker /\ disruptions' \in 0..MaxDisruptions
  BY <1>0, LeaseExpiresIs
<1>2. /\ row \in JobRow /\ row.attempt_count = job[j].attempt_count /\ row.status = "running"
      /\ row.lease_token = job[j].lease_token
  BY <1>0, <1>1, RowTypes, RowClaims
<1> HIDE DEF row
<1>3. worker' \in [Workers -> WorkerState] /\ \A v \in Workers : worker'[v] = worker[v]
  BY <1>0, <1>1, Shapes
<1> QED BY <1>1, <1>2, <1>3, RowKeeps

(* A worker that gives up its job, or learns that it lost it.              *)
LEMMA LeavingKeeps ==
  ASSUME IngestionInv, NEW w \in Workers, NEW y \in WorkerState,
         \/ y = Idle
         \/ y = [worker[w] EXCEPT !.lost = TRUE],
         worker' = [worker EXCEPT ![w] = y],
         UNCHANGED <<job, run_id, run, attempts, documents>>,
         disruptions' \in 0..MaxDisruptions
  PROVE  IngestionInv'
<1>0. /\ RunsInv /\ TypeOK /\ run \in [1..Len(run) -> RunRow] /\ job \in [JobsSoFar -> JobRow]
      /\ worker[w] \in WorkerState
  BY Shapes DEF IngestionInv, RunsInv
<1>1. \/ y.pc = "idle"
      \/ /\ y.pc = worker[w].pc /\ y.job = worker[w].job /\ y.token = worker[w].token
         /\ y.run = worker[w].run /\ y.attempt = worker[w].attempt
  BY <1>0, IdleWorker DEF WorkerState
<1>2. y.pc \in Busy => y.job \in JobsSoFar /\ y.run \in 1..Len(run)
  BY <1>0, <1>1, IdleWorker, Shapes
<1>3. documents' \subseteq Sources \X Items /\ run' \in [1..Len(run) -> RunRow]
  BY <1>0 DEF TypeOK
<1>4. /\ TypeOK' /\ worker'[w] = y
      /\ \A v \in Workers : v # w => worker'[v] = worker[v]
  BY <1>0, <1>2, <1>3, WorkerStepType
<1>5. ASSUME NEW v \in Workers
      PROVE  worker'[v].pc = "idle" \/ (Kept(v) /\ (HoldsJob(v)' => HoldsJob(v)))
  <2>1. worker'[v].pc = "idle" \/ Kept(v)
    BY <1>1, <1>4 DEF Kept
  <2>2. Kept(v) => (HoldsJob(v)' => HoldsJob(v))
    BY DEF Kept, HoldsJob, Holds
  <2> QED BY <2>1, <2>2
<1>6. \A k \in JobsSoFar : job[k].attempt_count <= job'[k].attempt_count
  BY <1>0 DEF JobRow
<1>7. RunsInv'
  BY <1>0, <1>4, <1>5, <1>6, QuietSteps
<1> QED BY <1>7, QuietDocuments

LEMMA HeartbeatKeeps ==
  ASSUME IngestionInv, NEW w \in Workers, Heartbeat(w)
  PROVE  IngestionInv'
<1> DEFINE j == worker[w].job
           row == Extended(job[j])
           lost == [worker[w] EXCEPT !.lost = TRUE]
<1>0. TypeOK /\ disruptions \in 0..MaxDisruptions /\ worker \in [Workers -> WorkerState]
  BY Shapes DEF IngestionInv, RunsInv, TypeOK
<1>1. /\ worker[w].pc \in Executing /\ UNCHANGED disruptions
      /\ \/ /\ HoldsJob(w) /\ JobStepIs(j, row) /\ UNCHANGED worker
         \/ /\ UNCHANGED <<job, run_id, run, attempts, documents>>
            /\ worker' = [worker EXCEPT ![w].lost = TRUE]
  BY <1>0, HeartbeatIs
<1>2. j \in JobsSoFar /\ job[j] \in JobRow
  <2>1. worker[w].pc \in Busy
    BY <1>1 DEF Busy
  <2> QED BY <1>0, <2>1, Shapes
<1>3. CASE HoldsJob(w) /\ JobStepIs(j, row) /\ UNCHANGED worker
  <2>1. job[j].status = "running"
    BY <1>3 DEF HoldsJob, Holds
  <2>2. /\ row \in JobRow /\ row.attempt_count = job[j].attempt_count /\ row.status = "running"
        /\ row.lease_token = job[j].lease_token
    BY <1>2, <2>1, RowTypes, RowClaims
  <2> HIDE DEF row, j
  <2> QED BY <1>0, <1>1, <1>2, <1>3, <2>1, <2>2, RowKeeps
<1>4. CASE /\ UNCHANGED <<job, run_id, run, attempts, documents>>
           /\ worker' = [worker EXCEPT ![w].lost = TRUE]
  <2>1. lost \in WorkerState /\ worker' = [worker EXCEPT ![w] = lost]
    BY <1>0, <1>4 DEF WorkerState
  <2> QED BY <1>0, <1>1, <1>4, <2>1, LeavingKeeps
<1> QED BY <1>1, <1>3, <1>4

LEMMA GrowingDocuments ==
  ASSUME IngestionInv, RunsInv', NEW m \in Nat, RunsGrow(m), Len(run') = m, UNCHANGED documents
  PROVE  IngestionInv'
<1>1. TypeOK /\ TypeOK' /\ run \in [1..Len(run) -> RunRow] /\ Len(run) \in Nat
  BY Shapes DEF IngestionInv, RunsInv
<1>2. ASSUME NEW n \in 1..Len(run)
      PROVE  /\ run'[n].source = run[n].source
             /\ run'[n].documents_created = run[n].documents_created
  <2>1. run[n] \in RunRow
    BY <1>1
  <2>2. \/ run'[n] = run[n]
        \/ run'[n] = [run[n] EXCEPT !.status = "failed"]
    BY DEF RunsGrow
  <2> QED BY <2>1, <2>2 DEF RunRow
<1>3. ASSUME NEW n \in (Len(run) + 1)..Len(run') PROVE run'[n].documents_created = 0
  <2>1. PICK s \in Sources : run'[n] = NewRun(s)
    BY DEF RunsGrow
  <2> QED BY <2>1, NewRunType
<1>4. Len(run) <= Len(run')
  BY DEF RunsGrow
<1>5. DocumentsCounted'
  BY <1>1, <1>2, <1>3, <1>4, CountsKept DEF IngestionInv
<1> QED BY <1>5 DEF IngestionInv

LEMMA SubmitKeeps ==
  ASSUME IngestionInv, NEW s \in Sources, Submit(s)
  PROVE  IngestionInv'
<1>0. RunsInv /\ TypeOK /\ Len(job) \in Nat /\ Len(run) \in Nat /\ job \in [JobsSoFar -> JobRow]
  BY Shapes DEF IngestionInv, RunsInv
<1> DEFINE k == Len(job) + 1
           m == Len(run) + 1
<1>1. /\ RunsGrow(m) /\ job' \in [1..k -> JobRow] /\ job'[k] = NewJob
      /\ run_id' \in [1..k -> 1..m]
      /\ \A j \in JobsSoFar : job'[j] = job[j] /\ run_id'[j] = run_id[j]
      /\ UNCHANGED <<attempts, documents, worker, disruptions>>
  BY <1>0, SubmitIs
<1>2. k \in Nat /\ m \in Nat /\ Len(job) <= k /\ JobsSoFar \subseteq 1..k
  BY <1>0 DEF JobsSoFar
<1>3. attempts' \subseteq AttemptRows(1..k) /\ disruptions' \in 0..MaxDisruptions
  BY <1>0, <1>1, <1>2 DEF TypeOK, AttemptRows
<1>4. \A j \in (1..k) \ JobsSoFar : j = k
  BY <1>0 DEF JobsSoFar
<1> HIDE DEF k, m
<1>5. TypeOK' /\ Len(job') = k /\ Len(run') = m
  BY <1>0, <1>1, <1>2, <1>3, GrowType
<1>6. \A j \in JobsSoFar' \ JobsSoFar : job'[j].status = "pending"
  BY <1>1, <1>4, <1>5 DEF NewJob, JobsSoFar
<1>7. \A j \in JobsSoFar : job[j].attempt_count <= job'[j].attempt_count
  BY <1>0, <1>1 DEF JobRow
<1>8. RunsInv'
  BY <1>0, <1>1, <1>2, <1>5, <1>6, <1>7, GrowingSteps
<1> QED BY <1>1, <1>2, <1>5, <1>8, GrowingDocuments

LEMMA RetryKeeps ==
  ASSUME IngestionInv, NEW j \in JobsSoFar, Retry(j)
  PROVE  IngestionInv'
<1> DEFINE k == Len(job)
           m == Len(run) + 1
<1>0. /\ RunsInv /\ TypeOK /\ k \in Nat /\ m \in Nat /\ Len(run) <= m /\ Len(job) <= k
      /\ job \in [1..k -> JobRow] /\ run_id \in [1..k -> 1..Len(run)] /\ JobsSoFar = 1..k
  BY Shapes DEF IngestionInv, RunsInv, JobsSoFar
<1>1. /\ RunsGrow(m) /\ job[j].status = "failed" /\ job' = [job EXCEPT ![j] = Requeued(@)]
      /\ run_id' = [run_id EXCEPT ![j] = m]
      /\ UNCHANGED <<attempts, documents, worker>> /\ disruptions' \in 0..MaxDisruptions
  BY <1>0, RetryIs
<1>2. /\ Requeued(job[j]) \in JobRow /\ Requeued(job[j]).status = "pending"
      /\ Requeued(job[j]).attempt_count = job[j].attempt_count
  BY <1>0, RowTypes, RowClaims
<1>3. /\ job' \in [1..k -> JobRow] /\ job'[j] = Requeued(job[j])
      /\ \A i \in JobsSoFar : i # j => job'[i] = job[i] /\ run_id'[i] = run_id[i]
  BY <1>0, <1>1, <1>2
<1>4. run_id' \in [1..k -> 1..m]
  <2>1. m \in 1..m /\ run_id \in [1..k -> 1..m]
    BY <1>0
  <2> QED BY <1>1, <2>1
<1>5. attempts' \subseteq AttemptRows(1..k)
  BY <1>0, <1>1 DEF TypeOK
<1> HIDE DEF m, k
<1>6. TypeOK' /\ Len(job') = k /\ Len(run') = m
  BY <1>0, <1>1, <1>3, <1>4, <1>5, GrowType
<1>7. ASSUME NEW i \in JobsSoFar
      PROVE  /\ job[i].attempt_count <= job'[i].attempt_count
             /\ job'[i].status \in {"running", "completed"} =>
                  run_id'[i] = run_id[i] /\ job'[i] = job[i]
  <2>1. job[i].attempt_count \in Nat
    BY <1>0 DEF JobRow
  <2>2. CASE i = j
    BY <1>2, <1>3, <2>1, <2>2
  <2>3. CASE i # j
    BY <1>3, <2>1, <2>3
  <2> QED BY <2>2, <2>3
<1>8. JobsSoFar' \ JobsSoFar = {}
  BY <1>0, <1>6 DEF JobsSoFar
<1>9. RunsInv'
  BY <1>0, <1>1, <1>6, <1>7, <1>8, GrowingSteps
<1> QED BY <1>0, <1>1, <1>6, <1>9, GrowingDocuments

LEMMA RecoverKeeps ==
  ASSUME IngestionInv, NEW w \in Workers, NEW S \in SUBSET JobsSoFar, Recover(w, S)
  PROVE  IngestionInv'
<1> DEFINE k == Len(job)
<1>0. /\ RunsInv /\ TypeOK /\ k \in Nat /\ job \in [1..k -> JobRow] /\ JobsSoFar = 1..k
      /\ Len(job) <= k
  BY Shapes DEF IngestionInv, RunsInv, JobsSoFar
<1>1. /\ \E m \in Nat : RunsGrow(m) /\ run_id' \in [JobsSoFar -> 1..m]
      /\ job' = [j \in JobsSoFar |-> IF j \in S THEN Recovered(job[j]) ELSE job[j]]
      /\ \A j \in JobsSoFar \ S : run_id'[j] = run_id[j]
      /\ attempts' = FinishAttempts(attempts, S, job, "recovered")
      /\ UNCHANGED <<documents, worker, disruptions>>
  BY <1>0, RecoverIs
<1>2. PICK m \in Nat : RunsGrow(m) /\ run_id' \in [1..k -> 1..m]
  BY <1>0, <1>1
<1>3. ASSUME NEW j \in JobsSoFar
      PROVE  /\ job[j] \in JobRow /\ job[j].attempt_count \in Nat
             /\ Recovered(job[j]) \in JobRow /\ Recovered(job[j]).status = "pending"
             /\ Recovered(job[j]).attempt_count = job[j].attempt_count
  <2>1. job[j] \in JobRow
    BY <1>0
  <2> QED BY <2>1, RowTypes, RowClaims DEF JobRow
<1>4. job' \in [1..k -> JobRow]
  BY <1>0, <1>1, <1>3
<1>5. attempts' \subseteq AttemptRows(1..k) /\ disruptions' \in 0..MaxDisruptions
  BY <1>0, <1>1, AttemptTypes DEF Outcomes, TypeOK
<1> HIDE DEF k
<1>6. TypeOK' /\ Len(job') = k /\ Len(run') = m
  BY <1>0, <1>1, <1>2, <1>4, <1>5, GrowType
<1>7. ASSUME NEW i \in JobsSoFar
      PROVE  /\ job[i].attempt_count <= job'[i].attempt_count
             /\ job'[i].status \in {"running", "completed"} =>
                  run_id'[i] = run_id[i] /\ job'[i] = job[i]
  <2>1. CASE i \in S
    <3>1. job'[i] = Recovered(job[i])
      BY <1>1, <2>1
    <3> QED BY <1>3, <3>1
  <2>2. CASE i \notin S
    <3>1. job'[i] = job[i] /\ run_id'[i] = run_id[i]
      BY <1>1, <2>2
    <3> QED BY <1>3, <3>1
  <2> QED BY <2>1, <2>2
<1>8. JobsSoFar' \ JobsSoFar = {}
  BY <1>0, <1>6 DEF JobsSoFar
<1>9. RunsInv'
  BY <1>0, <1>1, <1>2, <1>6, <1>7, <1>8, GrowingSteps
<1> QED BY <1>1, <1>2, <1>6, <1>9, GrowingDocuments

(* What all steps of an executor leave alone.                              *)
LEMMA ExecutorFrame ==
  ASSUME IngestionInv, NEW w \in Workers, ExecutorStep(w)
  PROVE  /\ RunsInv /\ TypeOK /\ TypeOK' /\ Len(run') = Len(run) /\ Len(run) \in Nat
         /\ worker[w].pc \in Busy /\ worker[w].run \in 1..Len(run)
         /\ worker[w] \in WorkerState /\ worker \in [Workers -> WorkerState]
         /\ run \in [1..Len(run) -> RunRow] /\ run' \in [1..Len(run) -> RunRow]
         /\ UNCHANGED <<job, run_id>>
         /\ \A n \in 1..Len(run) : n # worker[w].run => run'[n] = run[n]
         /\ \A v \in Workers : v # w => worker'[v] = worker[v]
         /\ worker'[w].job = worker[w].job /\ worker'[w].token = worker[w].token
         /\ worker'[w].run = worker[w].run /\ worker'[w].pc \in Busy
<1> DEFINE r == worker[w].run
<1>1. RunsInv /\ TypeOK
  BY DEF IngestionInv, RunsInv
<1>2. /\ worker[w].pc \in Executing
      /\ \E x \in RunRow : run' = [run EXCEPT ![r] = x]
      /\ \E y \in WorkerState :
           /\ worker' = [worker EXCEPT ![w] = y]
           /\ y.pc \in Busy /\ y.job = worker[w].job /\ y.token = worker[w].token
           /\ y.run = worker[w].run
      /\ documents' \subseteq Sources \X Items
      /\ UNCHANGED <<job, run_id, attempts, disruptions>>
  BY <1>1, ExecutorStepIs
<1>3. PICK x \in RunRow : run' = [run EXCEPT ![r] = x]
  BY <1>2
<1>4. PICK y \in WorkerState :
           /\ worker' = [worker EXCEPT ![w] = y]
           /\ y.pc \in Busy /\ y.job = worker[w].job /\ y.token = worker[w].token
           /\ y.run = worker[w].run
  BY <1>2
<1>5. worker[w].pc \in Busy
  BY <1>2 DEF Busy
<1>6. /\ r \in 1..Len(run) /\ run \in [1..Len(run) -> RunRow] /\ worker[w].job \in JobsSoFar
      /\ Len(run) \in Nat /\ worker[w] \in WorkerState /\ worker \in [Workers -> WorkerState]
  BY <1>1, <1>5, Shapes
<1>7. /\ run' \in [1..Len(run) -> RunRow]
      /\ \A n \in 1..Len(run) : n # r => run'[n] = run[n]
  BY <1>3, <1>6
<1>8. y.job \in JobsSoFar /\ y.run \in 1..Len(run) /\ disruptions' \in 0..MaxDisruptions
  BY <1>1, <1>2, <1>4, <1>6 DEF TypeOK
<1>9. /\ TypeOK' /\ Len(run') = Len(run) /\ worker'[w] = y
      /\ \A v \in Workers : v # w => worker'[v] = worker[v]
  BY <1>1, <1>2, <1>4, <1>7, <1>8, WorkerStepType
<1> QED BY <1>1, <1>2, <1>4, <1>5, <1>6, <1>7, <1>9

(* Steps that create no document.                                          *)
LEMMA ExecutorDocuments ==
  ASSUME IngestionInv, NEW w \in Workers, ExecutorStep(w), RunsInv', UNCHANGED documents,
         run'[worker[w].run].source = run[worker[w].run].source,
         run'[worker[w].run].documents_created = run[worker[w].run].documents_created
  PROVE  IngestionInv'
<1>1. /\ TypeOK /\ TypeOK' /\ Len(run') = Len(run) /\ Len(run) \in Nat
      /\ \A n \in 1..Len(run) : n # worker[w].run => run'[n] = run[n]
  BY ExecutorFrame
<1>2. \A n \in 1..Len(run) : /\ run'[n].source = run[n].source
                             /\ run'[n].documents_created = run[n].documents_created
  BY <1>1
<1>3. DocumentsCounted'
  BY <1>1, <1>2, CountsKept DEF IngestionInv
<1> QED BY <1>3 DEF IngestionInv

(* The run changes its status, or the executor gives up.                   *)
LEMMA ChangeStatusKeeps ==
  ASSUME IngestionInv, NEW w \in Workers, ExecutorStep(w),
         NEW status \in Statuses, NEW pc \in Busy,
         ChangeStatus(w, status, pc),
         <<worker[w].pc, status, pc>> \in {<<"claimed", "running", "started">>,
                                           <<"fetched", "completed", "ran">>,
                                           <<"broken", "failed", "errored">>}
  PROVE  IngestionInv'
<1> DEFINE r == worker[w].run
<1>1. /\ RunsInv /\ TypeOK /\ TypeOK' /\ Len(run') = Len(run) /\ Len(run) \in Nat
      /\ worker[w].pc \in Busy /\ r \in 1..Len(run)
      /\ worker[w] \in WorkerState /\ worker \in [Workers -> WorkerState]
      /\ run \in [1..Len(run) -> RunRow] /\ run' \in [1..Len(run) -> RunRow]
      /\ UNCHANGED <<job, run_id>>
      /\ \A n \in 1..Len(run) : n # r => run'[n] = run[n]
      /\ \A v \in Workers : v # w => worker'[v] = worker[v]
      /\ worker'[w].job = worker[w].job /\ worker'[w].token = worker[w].token
      /\ worker'[w].run = r /\ worker'[w].pc \in Busy
  BY ExecutorFrame
<1>2. run[r] \in RunRow /\ run[r].attempt_count <= MaxAttempts
  BY <1>1 DEF RunsInv, AttemptsBounded
<1>3. run[r].status = "pending" => run[r].attempt_count = 0
  BY <1>1 DEF RunsInv, PendingRunsAreNew
<1>4. UNCHANGED documents
  BY DEF ChangeStatus
<1>5. worker[w].pc # "claimed" => Fetching(w)
  BY DEF Fetching, Executing
<1>6. CASE AllowedChange(run[r].status, status)
  <2>1. /\ run'[r] = [run[r] EXCEPT !.status = status]
        /\ worker'[w].pc = pc
    BY <1>1, <1>6 DEF ChangeStatus, At, WorkerState
  <2>2. /\ run'[r].status = status /\ run'[r].attempt_count = run[r].attempt_count
        /\ run'[r].source = run[r].source
        /\ run'[r].documents_created = run[r].documents_created
    BY <1>2, <2>1 DEF RunRow
  <2>3. /\ run[r].status # "completed" /\ status # "pending"
        /\ status = "running" => run[r].status = "pending"
    BY <1>6 DEF AllowedChange
  <2>4. OwnsRun(w)'
    <3>1. status = "running" => 0 < MaxAttempts /\ run[r].attempt_count = 0
      BY <1>3, <2>3, ConstantsAssumption
    <3> QED BY <1>1, <2>1, <2>2, <3>1 DEF OwnsRun, Fetching, Executing
  <2>5. Fetching(w)' => Fetching(w) \/ run[r].status = "pending"
    BY <1>5, <2>1, <2>3 DEF Fetching, Executing
  <2>6. run[r].status = "pending" \/ Fetching(w)
    BY <1>5, <2>3
  <2>7. RunsInv'
    BY <1>1, <1>2, <2>2, <2>3, <2>4, <2>5, <2>6, ExecutorSteps
  <2> QED BY <1>4, <2>2, <2>7, ExecutorDocuments
<1>7. CASE ~AllowedChange(run[r].status, status)
  <2>1. run' = run /\ worker'[w].pc = "errored"
    BY <1>1, <1>7 DEF ChangeStatus, At, WorkerState
  <2>2. OwnsRun(w)' /\ ~Fetching(w)'
    BY <2>1 DEF OwnsRun, Fetching, Executing
  <2>3. RunsInv'
    BY <1>1, <1>2, <1>3, <2>1, <2>2, ExecutorSteps
  <2> QED BY <1>4, <2>1, <2>3, ExecutorDocuments
<1> QED BY <1>6, <1>7

LEMMA StartFetchKeeps ==
  ASSUME IngestionInv, NEW w \in Workers, StartFetch(w)
  PROVE  IngestionInv'
<1> DEFINE r == worker[w].run
<1>0. ExecutorStep(w)
  BY DEF ExecutorStep
<1>1. /\ RunsInv /\ TypeOK /\ TypeOK' /\ Len(run') = Len(run) /\ Len(run) \in Nat
      /\ worker[w].pc \in Busy /\ r \in 1..Len(run)
      /\ worker[w] \in WorkerState /\ worker \in [Workers -> WorkerState]
      /\ run \in [1..Len(run) -> RunRow] /\ run' \in [1..Len(run) -> RunRow]
      /\ UNCHANGED <<job, run_id>>
      /\ \A n \in 1..Len(run) : n # r => run'[n] = run[n]
      /\ \A v \in Workers : v # w => worker'[v] = worker[v]
      /\ worker'[w].job = worker[w].job /\ worker'[w].token = worker[w].token
      /\ worker'[w].run = r /\ worker'[w].pc \in Busy
  BY <1>0, ExecutorFrame
<1>2. /\ worker[w].pc = "started" /\ UNCHANGED documents /\ Fetching(w)
      /\ run[r].status \in {"running", "failed"} /\ run[r].attempt_count < MaxAttempts
  BY <1>1 DEF StartFetch, RunsInv, OwnsRun, Fetching, Executing
<1>3. run[r] \in RunRow /\ run[r].attempt_count \in Nat
  BY <1>1 DEF RunRow
<1>4. run'[r] = [run[r] EXCEPT !.attempt_count = @ + 1]
  BY <1>1 DEF StartFetch
<1>5. /\ run'[r].attempt_count = run[r].attempt_count + 1 /\ run'[r].status = run[r].status
      /\ run'[r].source = run[r].source
      /\ run'[r].documents_created = run[r].documents_created
  BY <1>3, <1>4 DEF RunRow
<1>6. worker'[w].pc = "fetching" /\ worker'[w].attempt = run'[r].attempt_count
  BY <1>1 DEF StartFetch, WorkerState
<1>7. OwnsRun(w)'
  BY <1>1, <1>2, <1>5, <1>6 DEF OwnsRun, Fetching, Executing
<1>8. run'[r].attempt_count <= MaxAttempts
  BY <1>2, <1>3, <1>5, ConstantsAssumption
<1>9. RunsInv'
  BY <1>1, <1>2, <1>5, <1>7, <1>8, ExecutorSteps
<1> QED BY <1>0, <1>2, <1>5, <1>9, ExecutorDocuments

LEMMA EndFetchKeeps ==
  ASSUME IngestionInv, NEW w \in Workers, EndFetch(w)
  PROVE  IngestionInv'
<1> DEFINE r == worker[w].run
<1>0. ExecutorStep(w)
  BY DEF ExecutorStep
<1>1. /\ RunsInv /\ TypeOK /\ TypeOK' /\ Len(run') = Len(run) /\ Len(run) \in Nat
      /\ worker[w].pc \in Busy /\ r \in 1..Len(run)
      /\ worker[w] \in WorkerState /\ worker \in [Workers -> WorkerState]
      /\ UNCHANGED <<job, run_id>>
      /\ \A n \in 1..Len(run) : n # r => run'[n] = run[n]
      /\ \A v \in Workers : v # w => worker'[v] = worker[v]
      /\ worker'[w].job = worker[w].job /\ worker'[w].token = worker[w].token
      /\ worker'[w].run = r /\ worker'[w].pc \in Busy
  BY <1>0, ExecutorFrame
<1>2. /\ worker[w].pc = "fetching" /\ UNCHANGED <<run, documents>> /\ Fetching(w)
      /\ run[r].status \in {"running", "failed"} /\ run[r].attempt_count = worker[w].attempt
      /\ run[r].attempt_count <= MaxAttempts
  BY <1>1 DEF EndFetch, RunsInv, OwnsRun, Fetching, Executing, AttemptsBounded
<1>3. /\ worker'[w].pc \in {"fetched", "broken", "started"}
      /\ worker'[w].pc = "started" => worker[w].attempt < MaxAttempts
  BY <1>1 DEF EndFetch, At, WorkerState
<1>4. OwnsRun(w)'
  BY <1>1, <1>2, <1>3 DEF OwnsRun, Fetching, Executing
<1>5. RunsInv'
  BY <1>1, <1>2, <1>4, ExecutorSteps
<1> QED BY <1>0, <1>2, <1>5, ExecutorDocuments

(* A new document is one more for its source; one the source has is none. *)
LEMMA OfSource ==
  ASSUME NEW D, D \subseteq Sources \X Items, IsFiniteSet(D),
         NEW t \in Sources, NEW i \in Items, NEW s \in Sources
  PROVE  /\ IsFiniteSet(D \cup {<<t, i>>})
         /\ Cardinality({d \in D \cup {<<t, i>>} : d[1] = s}) =
              Cardinality({d \in D : d[1] = s})
                + (IF s = t /\ <<t, i>> \notin D THEN 1 ELSE 0)
         /\ Cardinality({d \in D : d[1] = s}) \in Nat
<1> DEFINE Mine(E) == {d \in E : d[1] = s}
           after == D \cup {<<t, i>>}
<1>1. IsFiniteSet(after)
  BY FS_AddElement
<1>2. IsFiniteSet(Mine(D)) /\ Cardinality(Mine(D)) \in Nat
  <2>1. IsFiniteSet(Mine(D))
    BY FS_Subset
  <2> QED BY <2>1, FS_CardinalityType
<1>3. CASE s = t /\ <<t, i>> \notin D
  <2>1. Mine(after) = Mine(D) \cup {<<t, i>>} /\ <<t, i>> \notin Mine(D)
    BY <1>3
  <2> HIDE DEF Mine
  <2>2. Cardinality(Mine(D) \cup {<<t, i>>}) = Cardinality(Mine(D)) + 1
    BY <1>2, <2>1, FS_AddElement
  <2>3. Cardinality(Mine(after)) =
          Cardinality(Mine(D)) + (IF s = t /\ <<t, i>> \notin D THEN 1 ELSE 0)
    BY <1>3, <2>1, <2>2
  <2> QED BY <1>1, <1>2, <2>3 DEF Mine
<1>4. CASE ~(s = t /\ <<t, i>> \notin D)
  <2>1. Mine(after) = Mine(D)
    BY <1>4
  <2> HIDE DEF Mine
  <2>2. Cardinality(Mine(after)) =
          Cardinality(Mine(D)) + (IF s = t /\ <<t, i>> \notin D THEN 1 ELSE 0)
    BY <1>2, <1>4, <2>1
  <2> QED BY <1>1, <1>2, <2>2 DEF Mine
<1> QED BY <1>3, <1>4

LEMMA SaveItemKeeps ==
  ASSUME IngestionInv, NEW w \in Workers, NEW i \in Items, SaveItem(w, i)
  PROVE  IngestionInv'
<1> DEFINE r == worker[w].run
           t == run[r].source
           x == IF <<t, i>> \in documents THEN 0 ELSE 1
<1>0. ExecutorStep(w)
  BY DEF ExecutorStep
<1>1. /\ RunsInv /\ TypeOK /\ TypeOK' /\ Len(run') = Len(run) /\ Len(run) \in Nat
      /\ worker[w].pc \in Busy /\ r \in 1..Len(run)
      /\ worker[w] \in WorkerState /\ worker \in [Workers -> WorkerState]
      /\ run \in [1..Len(run) -> RunRow] /\ run' \in [1..Len(run) -> RunRow]
      /\ UNCHANGED <<job, run_id>>
      /\ \A n \in 1..Len(run) : n # r => run'[n] = run[n]
      /\ \A v \in Workers : v # w => worker'[v] = worker[v]
      /\ worker'[w].job = worker[w].job /\ worker'[w].token = worker[w].token
      /\ worker'[w].run = r /\ worker'[w].pc \in Busy
  BY <1>0, ExecutorFrame
<1>2. /\ worker[w].pc = "fetching" /\ Fetching(w)
      /\ run[r].status \in {"running", "failed"} /\ run[r].attempt_count = worker[w].attempt
      /\ run[r].attempt_count <= MaxAttempts
  BY <1>1 DEF SaveItem, RunsInv, OwnsRun, Fetching, Executing, AttemptsBounded
<1>3. run[r] \in RunRow /\ t \in Sources /\ run[r].documents_created \in Nat /\ x \in {0, 1}
  BY <1>1 DEF RunRow
<1>4. documents' = documents \cup {<<t, i>>}
  BY DEF SaveItem
<1>5. /\ run'[r].attempt_count = run[r].attempt_count /\ run'[r].status = run[r].status
      /\ run'[r].source = run[r].source
      /\ run'[r].documents_created = run[r].documents_created + x
  BY <1>1, <1>3 DEF SaveItem, RunRow
<1>6. worker'[w].pc = "fetching" /\ worker'[w].attempt = worker[w].attempt
  BY <1>1 DEF SaveItem, WorkerState
<1>7. OwnsRun(w)'
  BY <1>1, <1>2, <1>5, <1>6 DEF OwnsRun, Fetching, Executing
<1>8. RunsInv'
  BY <1>1, <1>2, <1>5, <1>7, ExecutorSteps
<1>9. documents \subseteq Sources \X Items /\ IsFiniteSet(documents)
  BY <1>1 DEF IngestionInv, TypeOK
<1>10. ASSUME NEW s \in Sources
       PROVE  Total(CreatedFor(s)') = Cardinality({d \in documents' : d[1] = s})
  <2> DEFINE m == Len(run)
             c == CreatedFor(s)
             after == CreatedFor(s)'
             y == IF s = t THEN x ELSE 0
  <2>1. /\ m \in Nat /\ c \in [1..m -> Nat] /\ after \in [1..m -> Nat]
    BY <1>1 DEF CreatedFor, RunRow
  <2>2. ASSUME NEW n \in 1..m PROVE after[n] = IF n = r THEN c[n] + y ELSE c[n]
    <3>1. /\ c[n] = IF run[n].source = s THEN run[n].documents_created ELSE 0
          /\ after[n] = IF run'[n].source = s THEN run'[n].documents_created ELSE 0
      BY <1>1 DEF CreatedFor
    <3>2. CASE n = r
      BY <1>3, <1>5, <3>1, <3>2
    <3>3. CASE n # r
      BY <1>1, <3>1, <3>3
    <3> QED BY <3>2, <3>3
  <2>3. r \in 1..m /\ r \in Nat /\ y \in Nat /\ m <= m
    BY <1>1, <1>3
  <2>4. \A n \in (m + 1)..m : after[n] = 0
    BY <2>1
  <2> HIDE DEF m, c, after, y, r, x
  <2>5. Grows(m, c, m, after, r, y)
    BY <2>1, <2>2, <2>3, <2>4 DEF Grows
  <2>6. Total(after) = Total(c) + y
    BY <2>5, TotalGrows
  <2>7. Total(c) = Cardinality({d \in documents : d[1] = s})
    BY DEF IngestionInv, DocumentsCounted, c
  <2>8. y = IF s = t /\ <<t, i>> \notin documents THEN 1 ELSE 0
    BY DEF y, x
  <2> HIDE DEF t
  <2>9. Cardinality({d \in documents' : d[1] = s}) =
          Cardinality({d \in documents : d[1] = s}) + y
    BY <1>3, <1>4, <1>9, <2>8, OfSource
  <2> QED BY <2>6, <2>7, <2>9 DEF after
<1>11. IsFiniteSet(documents')
  BY <1>4, <1>9, FS_AddElement
<1> QED BY <1>8, <1>10, <1>11 DEF IngestionInv, DocumentsCounted
--------------------------------------------------------------------------------

LEMMA InitHolds ==
  ASSUME Init
  PROVE  IngestionInv
<1>1. Len(job) = 0 /\ Len(run) = 0 /\ Len(run_id) = 0
  BY DEF Init
<1>2. \A w \in Workers : worker[w] = Idle
  BY DEF Init
<1>3. TypeOK
  <2>1. worker \in [Workers -> WorkerState]
    BY IdleWorker DEF Init
  <2>2. \A w \in Workers : worker[w].pc \notin Busy
    BY <1>2, IdleWorker
  <2>3. disruptions \in 0..MaxDisruptions
    BY ConstantsAssumption DEF Init
  <2> QED BY <1>1, <2>1, <2>2, <2>3 DEF Init, TypeOK, JobsSoFar
<1>4. \A w \in Workers : worker[w].pc \notin Busy /\ ~Fetching(w) /\ OwnsRun(w) /\ ~HoldsJob(w)
  BY <1>2 DEF Idle, Fetching, OwnsRun, HoldsJob, Busy, Executing, Worked
<1>5. RunsInv
  BY <1>1, <1>3, <1>4
     DEF RunsInv, ClaimsAreCounted, HoldersKnowRuns, PendingRunsAreNew,
         CompletedJobHasCompletedRun, OneExecutor, AttemptsBounded, JobsSoFar
<1>6. IsFiniteSet(documents) /\ documents = {}
  BY FS_EmptySet DEF Init
<1>7. ASSUME NEW s \in Sources
      PROVE  Total(CreatedFor(s)) = Cardinality({d \in documents : d[1] = s})
  <2> DEFINE c == CreatedFor(s)
             f == [n \in 0..0 |-> 0]
  <2>1. c \in [1..0 -> Nat]
    BY <1>1 DEF CreatedFor
  <2>2. Totals(f, c, 0) /\ f[0] = 0
    BY DEF Totals
  <2> HIDE DEF f, c
  <2>3. Total(c) = 0
    BY <2>1, <2>2, TotalIs
  <2>4. {d \in documents : d[1] = s} = {}
    BY <1>6
  <2>5. Cardinality({d \in documents : d[1] = s}) = 0
    BY <2>4, FS_EmptySet
  <2> QED BY <2>3, <2>5 DEF c
<1> QED BY <1>5, <1>6, <1>7 DEF IngestionInv, DocumentsCounted

LEMMA StepKeeps ==
  ASSUME IngestionInv, [Next]_vars
  PROVE  IngestionInv'
<1>1. CASE UNCHANGED vars
  <2>1. /\ UNCHANGED <<job, run_id, run>>
        /\ UNCHANGED <<attempts, documents, worker, disruptions>>
    BY <1>1 DEF vars
  <2>2. TypeOK' /\ Len(job') = Len(job)
    BY <2>1 DEF IngestionInv, RunsInv, TypeOK, JobsSoFar
  <2>3. \A j \in JobsSoFar : job[j].attempt_count <= job'[j].attempt_count
    BY <2>1, Shapes DEF IngestionInv, RunsInv, JobRow
  <2>4. \A v \in Workers : Kept(v) /\ (HoldsJob(v)' => HoldsJob(v))
    BY <2>1 DEF Kept, HoldsJob, Holds
  <2>5. RunsInv'
    BY <2>1, <2>2, <2>3, <2>4, QuietSteps DEF IngestionInv
  <2> QED BY <2>1, <2>5, QuietDocuments
<1>2. ASSUME NEW w \in Workers, WorkerStep(w) PROVE IngestionInv'
  <2>1. CASE \E S \in SUBSET JobsSoFar : Recover(w, S)
    BY <2>1, RecoverKeeps
  <2>2. CASE \E j \in JobsSoFar : Claim(w, j)
    BY <2>2, ClaimKeeps
  <2>3. CASE Heartbeat(w)
    BY <2>3, HeartbeatKeeps
  <2>4. CASE ExecutorStep(w)
    <3>1. CASE MarkRunning(w) \/ MarkCompleted(w) \/ MarkFailed(w)
      <4>1. PICK status \in Statuses, pc \in Busy :
              /\ ChangeStatus(w, status, pc)
              /\ <<worker[w].pc, status, pc>> \in {<<"claimed", "running", "started">>,
                                                   <<"fetched", "completed", "ran">>,
                                                   <<"broken", "failed", "errored">>}
        BY <3>1 DEF MarkRunning, MarkCompleted, MarkFailed, Statuses, Busy, Executing, Worked
      <4> QED BY <2>4, <4>1, ChangeStatusKeeps
    <3>2. CASE StartFetch(w)
      BY <3>2, StartFetchKeeps
    <3>3. CASE \E i \in Items : SaveItem(w, i)
      BY <3>3, SaveItemKeeps
    <3>4. CASE EndFetch(w)
      BY <3>4, EndFetchKeeps
    <3> QED BY <2>4, <3>1, <3>2, <3>3, <3>4 DEF ExecutorStep
  <2>5. CASE Finish(w)
    BY <2>5, FinishKeeps
  <2>6. CASE LeaveLostJob(w) \/ Crash(w)
    <3>1. /\ worker' = [worker EXCEPT ![w] = Idle]
          /\ UNCHANGED <<job, run_id, run, attempts, documents>>
      BY <2>6 DEF LeaveLostJob, Crash
    <3>2. disruptions' \in 0..MaxDisruptions
      BY <2>6, ConstantsAssumption
         DEF LeaveLostJob, Crash, Disrupt, IngestionInv, RunsInv, TypeOK
    <3> QED BY <3>1, <3>2, IdleWorker, LeavingKeeps
  <2> QED BY <1>2, <2>1, <2>2, <2>3, <2>4, <2>5, <2>6 DEF WorkerStep
<1>3. ASSUME NEW s \in Sources, Submit(s) PROVE IngestionInv'
  BY <1>3, SubmitKeeps
<1>4. ASSUME NEW j \in JobsSoFar, LeaseExpires(j) \/ Retry(j) PROVE IngestionInv'
  BY <1>4, LeaseExpiresKeeps, RetryKeeps
<1> QED BY <1>1, <1>2, <1>3, <1>4 DEF Next

(* Jobs, runs, executors and documents agree, whatever crashes, stalls and *)
(* stale executors do between the transactions of a job (executor.py,      *)
(* worker.py and jobs.py).                                                 *)
THEOREM RunsAlwaysMatchJobs == Spec => []RunsMatchJobs
<1>1. Init => IngestionInv
  BY InitHolds
<1>2. IngestionInv /\ [Next]_vars => IngestionInv'
  BY StepKeeps
<1>3. IngestionInv => RunsMatchJobs
  BY DEF IngestionInv, RunsInv, RunsMatchJobs
<1> QED BY <1>1, <1>2, <1>3, PTL DEF Spec

(* No step takes a verdict back.                                           *)
VerdictsKept ==
  \A n \in 1..Len(run) :
    run[n].status \in {"completed", "failed"} => run'[n].status = run[n].status

LEMMA GrowingKeepsVerdicts ==
  ASSUME TypeOK, NEW m, RunsGrow(m)
  PROVE  VerdictsKept
<1>1. \A n \in 1..Len(run) :
        run'[n] = run[n] \/ run[n].status = "running"
  BY DEF RunsGrow
<1> QED BY <1>1 DEF VerdictsKept

LEMMA ExecutorKeepsVerdicts ==
  ASSUME TypeOK, NEW w \in Workers, ExecutorStep(w)
  PROVE  VerdictsKept
<1> DEFINE r == worker[w].run
<1>1. PICK x \in RunRow : run' = [run EXCEPT ![r] = x]
  BY ExecutorStepIs
<1>2. worker[w].pc \in Busy
  BY ExecutorStepIs DEF Busy
<1>3. /\ r \in 1..Len(run) /\ run \in [1..Len(run) -> RunRow]
      /\ run[r] \in RunRow
  BY <1>2, Shapes
<1>4. run'[r].status = run[r].status \/ run[r].status \in {"pending", "running"}
  <2>1. ASSUME NEW status, NEW pc, ChangeStatus(w, status, pc)
        PROVE  run'[r].status = run[r].status \/ run[r].status \in {"pending", "running"}
    BY <2>1 DEF ChangeStatus, AllowedChange
  <2>2. CASE StartFetch(w)
    <3>1. run'[r] = [run[r] EXCEPT !.attempt_count = @ + 1]
      BY <1>3, <2>2 DEF StartFetch
    <3> QED BY <1>3, <3>1 DEF RunRow
  <2>3. ASSUME NEW i \in Items, SaveItem(w, i) PROVE run'[r].status = run[r].status
    BY <1>3, <2>3 DEF SaveItem, RunRow
  <2>4. CASE EndFetch(w)
    BY <2>4 DEF EndFetch
  <2> QED BY <2>1, <2>2, <2>3, <2>4 DEF ExecutorStep, MarkRunning, MarkCompleted, MarkFailed
<1>5. \A n \in 1..Len(run) : n # r => run'[n] = run[n]
  BY <1>1, <1>3
<1> QED BY <1>4, <1>5 DEF VerdictsKept

(* A run that completed or failed keeps its verdict: a stale executor and  *)
(* a recovery that race for it leave the first one (_change_status and     *)
(* recover_stale_ingestion_jobs).                                          *)
THEOREM VerdictsStayFinal == Spec => VerdictsAreFinal
<1>1. Init => IngestionInv
  BY InitHolds
<1>2. IngestionInv /\ [Next]_vars => IngestionInv'
  BY StepKeeps
<1>3. IngestionInv /\ [Next]_vars => [VerdictsKept]_vars
  <2> SUFFICES ASSUME IngestionInv, Next PROVE VerdictsKept
    OBVIOUS
  <2>0. TypeOK
    BY DEF IngestionInv, RunsInv
  <2>1. ASSUME NEW w \in Workers, WorkerStep(w) PROVE VerdictsKept
    <3>1. ASSUME NEW S \in SUBSET JobsSoFar, Recover(w, S) PROVE VerdictsKept
      BY <2>0, <3>1, RecoverIs, GrowingKeepsVerdicts
    <3>2. CASE ExecutorStep(w)
      BY <2>0, <3>2, ExecutorKeepsVerdicts
    <3>3. CASE UNCHANGED run
      BY <3>3 DEF VerdictsKept
    <3>4. \/ \E j \in JobsSoFar : Claim(w, j)
          \/ Heartbeat(w) \/ Finish(w) \/ LeaveLostJob(w) \/ Crash(w)
          => UNCHANGED run
      BY DEF Claim, Heartbeat, Finish, LeaveLostJob, Crash
    <3> QED BY <2>1, <3>1, <3>2, <3>3, <3>4 DEF WorkerStep
  <2>2. ASSUME NEW s \in Sources, Submit(s) PROVE VerdictsKept
    BY <2>0, <2>2, SubmitIs, GrowingKeepsVerdicts
  <2>3. ASSUME NEW j \in JobsSoFar, LeaseExpires(j) \/ Retry(j) PROVE VerdictsKept
    <3>1. CASE LeaseExpires(j)
      BY <3>1 DEF LeaseExpires, VerdictsKept
    <3>2. CASE Retry(j)
      BY <2>0, <3>2, RetryIs, GrowingKeepsVerdicts
    <3> QED BY <2>3, <3>1, <3>2
  <2> QED BY <2>1, <2>2, <2>3 DEF Next
<1> QED BY <1>1, <1>2, <1>3, PTL DEF Spec, VerdictsAreFinal, VerdictsKept

--------------------------------------------------------------------------------
(* The attempts of ingestion jobs, and the ledger they keep.               *)

(* The number of the claim that has no verdict yet, if there is one. *)
OpenClaim(row) == IF row.status = "running" THEN row.attempt_count ELSE 0

(* The jobs of organizations, and no others, have an attempt for each of   *)
(* their claims; the one they run under, and no other, is open.            *)
LedgerInv ==
  /\ JobsSoFar \subseteq JobIds
  /\ EachOnce(attempts)
  /\ \A r \in attempts : Recorded(r.job)
  /\ \A j \in JobsSoFar : Recorded(j) =>
       Numbered(attempts, j, job[j].attempt_count, OpenClaim(job[j]))

(* No job changes its source, whatever run it asks for.                    *)
SourcesKept ==
  JobsSoFar \subseteq JobsSoFar' /\ \A j \in JobsSoFar : SourceOf(j)' = SourceOf(j)

LEMMA RecordedKept ==
  ASSUME SourcesKept, NEW j \in JobsSoFar
  PROVE  Recorded(j)' <=> Recorded(j)
  BY DEF SourcesKept, Recorded

(* Steps that start and end no attempt.                                    *)
LEMMA LedgerKept ==
  ASSUME LedgerInv, SourcesKept, UNCHANGED attempts, JobsSoFar' \subseteq JobIds,
         \A j \in JobsSoFar : /\ job'[j].attempt_count = job[j].attempt_count
                              /\ OpenClaim(job'[j]) = OpenClaim(job[j]),
         \A j \in JobsSoFar' \ JobsSoFar :
           job'[j].attempt_count = 0 /\ job'[j].status = "pending"
  PROVE  LedgerInv' /\ \A j \in JobIds : VerdictsOf(attempts, j)' = VerdictsOf(attempts, j)
<1>1. \A r \in attempts : r.job \in JobsSoFar
  BY DEF LedgerInv, Recorded
<1>2. \A r \in attempts' : Recorded(r.job)'
  BY <1>1, RecordedKept DEF LedgerInv
<1>3. ASSUME NEW j \in JobsSoFar', Recorded(j)'
      PROVE  Numbered(attempts', j, job'[j].attempt_count, OpenClaim(job'[j]))
  <2>1. CASE j \in JobsSoFar
    <3>1. Recorded(j)
      BY <1>3, <2>1, RecordedKept
    <3>2. Numbered(attempts, j, job[j].attempt_count, OpenClaim(job[j]))
      BY <2>1, <3>1 DEF LedgerInv
    <3> QED BY <2>1, <3>2
  <2>2. CASE j \notin JobsSoFar
    <3>1. job'[j].attempt_count = 0 /\ OpenClaim(job'[j]) = 0
      BY <2>2 DEF OpenClaim
    <3>2. \A r \in attempts' : r.job # j
      BY <1>1, <2>2
    <3> QED BY <3>1, <3>2 DEF Numbered
  <2> QED BY <2>1, <2>2
<1> QED BY <1>2, <1>3 DEF LedgerInv

(* Where the jobs of S lose the claim they run under, the recorded ones    *)
(* among them get its verdict.                                             *)
LEMMA EndingMaps ==
  ASSUME TypeOK, LedgerInv, SourcesKept, JobsSoFar' = JobsSoFar,
         NEW S \in SUBSET JobsSoFar, NEW o \in Outcomes, o # "running",
         attempts' = FinishAttempts(attempts, S, job, o),
         \A j \in S : job[j].status = "running" /\ job'[j].status # "running",
         \A j \in JobsSoFar : job'[j].attempt_count = job[j].attempt_count,
         \A j \in JobsSoFar \ S : job'[j] = job[j]
  PROVE  /\ LedgerInv'
         /\ \A j \in JobIds : VerdictsOf(attempts, j)' =
              IF j \in S /\ Recorded(j) THEN Ended(VerdictsOf(attempts, j), o)
                                        ELSE VerdictsOf(attempts, j)
<1>1. /\ attempts \in SUBSET AttemptRows(JobsSoFar) /\ job \in [JobsSoFar -> JobRow]
      /\ EachOnce(attempts)
  BY Shapes DEF TypeOK, LedgerInv
<1>2. EachOnce(attempts')
  BY <1>1, FinishedOnce
<1>3. \A q \in attempts' : \E r \in attempts : q.job = r.job
  BY <1>1, FinishedRows
<1>4. \A r \in attempts : r.job \in JobsSoFar /\ Recorded(r.job)
  BY DEF LedgerInv, Recorded
<1>5. \A q \in attempts' : Recorded(q.job)'
  BY <1>3, <1>4, RecordedKept
<1>6. ASSUME NEW j \in S, Recorded(j)
      PROVE  /\ VerdictsOf(attempts', j) = Ended(VerdictsOf(attempts, j), o)
             /\ Numbered(attempts', j, job'[j].attempt_count, OpenClaim(job'[j]))
  <2>1. PICK k \in Nat : k = job[j].attempt_count
    BY <1>1 DEF JobRow
  <2>2. Numbered(attempts, j, k, k)
    BY <1>6, <2>1 DEF LedgerInv, OpenClaim
  <2>3. /\ VerdictsOf(attempts', j) = Ended(VerdictsOf(attempts, j), o)
        /\ Numbered(attempts', j, k, 0)
    BY <1>1, <2>1, <2>2, FinishCloses
  <2>4. job'[j].attempt_count = k /\ OpenClaim(job'[j]) = 0
    BY <2>1 DEF OpenClaim
  <2> QED BY <2>3, <2>4
<1>7. ASSUME NEW j, ~(j \in S /\ Recorded(j))
      PROVE  AttemptsOf(attempts', j) = AttemptsOf(attempts, j)
  <2>1. CASE j \notin S
    BY <1>1, <2>1, FinishLeaves
  <2>2. CASE ~Recorded(j)
    <3>1. AttemptsOf(attempts, j) = {}
      BY <1>4, <2>2 DEF AttemptsOf
    <3>2. AttemptsOf(attempts', j) = {}
      BY <1>3, <1>4, <2>2 DEF AttemptsOf
    <3> QED BY <3>1, <3>2
  <2> QED BY <1>7, <2>1, <2>2
<1>8. ASSUME NEW j \in JobsSoFar, Recorded(j)'
      PROVE  Numbered(attempts', j, job'[j].attempt_count, OpenClaim(job'[j]))
  <2>1. Recorded(j)
    BY <1>8, RecordedKept
  <2>2. CASE j \in S
    BY <1>6, <2>1, <2>2
  <2>3. CASE j \notin S
    <3>1. Numbered(attempts, j, job[j].attempt_count, OpenClaim(job[j])) /\ job'[j] = job[j]
      BY <2>1, <2>3 DEF LedgerInv
    <3>2. AttemptsOf(attempts', j) = AttemptsOf(attempts, j)
      BY <1>7, <2>3
    <3> QED BY <3>1, <3>2, SameAttempts
  <2> QED BY <2>2, <2>3
<1>9. LedgerInv'
  BY <1>2, <1>5, <1>8 DEF LedgerInv
<1>10. ASSUME NEW j \in JobIds
       PROVE  VerdictsOf(attempts', j) =
              IF j \in S /\ Recorded(j) THEN Ended(VerdictsOf(attempts, j), o)
                                        ELSE VerdictsOf(attempts, j)
  BY <1>6, <1>7, SameAttempts
<1> QED BY <1>9, <1>10

(* The two variables of the ledger, as functions of the queue's.           *)
Phases == [j \in JobIds |-> LedgerPhase(j)]
Entries == [j \in JobIds |-> VerdictsOf(attempts, j)]

PhaseFor(status) ==
  IF status = "pending" THEN "queued" ELSE IF status = "running" THEN "taken" ELSE status

LEMMA PhaseIs ==
  ASSUME NEW j
  PROVE  /\ LedgerPhase(j) = IF Recorded(j) THEN PhaseFor(job[j].status) ELSE "absent"
         /\ LedgerPhase(j)' = IF Recorded(j)' THEN PhaseFor(job'[j].status) ELSE "absent"
  BY DEF LedgerPhase, PhaseFor

(* A step that adds no job: what becomes of the phases.                    *)
LEMMA PhasesAfter ==
  ASSUME SourcesKept, JobsSoFar' = JobsSoFar, NEW j
  PROVE  /\ Recorded(j) => LedgerPhase(j)' = PhaseFor(job'[j].status)
         /\ Recorded(j) => LedgerPhase(j) = PhaseFor(job[j].status)
         /\ ~Recorded(j) => LedgerPhase(j)' = LedgerPhase(j)
         /\ ~Recorded(j) => LedgerPhase(j) = "absent"
         /\ job'[j].status = job[j].status => LedgerPhase(j)' = LedgerPhase(j)
<1>1. Recorded(j)' <=> Recorded(j)
  BY RecordedKept DEF Recorded
<1> QED BY <1>1, PhaseIs

(* Steps that change one phase, or none.                                   *)
LEMMA PhasesMove ==
  ASSUME NEW j \in JobIds, NEW p, LedgerPhase(j)' = p,
         \A i \in JobIds \ {j} : LedgerPhase(i)' = LedgerPhase(i)
  PROVE  Phases' = [Phases EXCEPT ![j] = p]
  BY DEF Phases

LEMMA PhasesStay ==
  ASSUME \A i \in JobIds : LedgerPhase(i)' = LedgerPhase(i)
  PROVE  Phases' = Phases
  BY DEF Phases

LEMMA EntriesStay ==
  ASSUME \A i \in JobIds : VerdictsOf(attempts, i)' = VerdictsOf(attempts, i)
  PROVE  Entries' = Entries
  BY DEF Entries

(* What a step does to the rows when it changes one of them, or none.      *)
LEMMA OneRowIs ==
  ASSUME TypeOK, NEW j \in JobsSoFar, NEW row \in JobRow, job' = [job EXCEPT ![j] = row]
  PROVE  /\ JobsSoFar' = JobsSoFar /\ job'[j] = row
         /\ \A i \in JobsSoFar \ {j} : job'[i] = job[i]
<1>1. Len(job) \in Nat /\ job \in [1..Len(job) -> JobRow]
  BY Shapes DEF JobsSoFar
<1>2. job' \in [1..Len(job) -> JobRow] /\ job'[j] = row
  BY <1>1 DEF JobsSoFar
<1>3. Len(job') = Len(job)
  BY <1>1, <1>2, FunctionIsSequence
<1> QED BY <1>1, <1>2, <1>3 DEF JobsSoFar

LEMMA SameRuns ==
  ASSUME JobsSoFar' = JobsSoFar, UNCHANGED <<run, run_id>>
  PROVE  SourcesKept
  BY DEF SourcesKept, SourceOf

(* Steps in which no job changes its status, and no attempt changes.       *)
LEMMA QuietMaps ==
  ASSUME TypeOK, LedgerInv, SourcesKept, JobsSoFar' = JobsSoFar, UNCHANGED attempts,
         \A j \in JobsSoFar : /\ job'[j].status = job[j].status
                              /\ job'[j].attempt_count = job[j].attempt_count
  PROVE  LedgerInv' /\ UNCHANGED <<Phases, Entries>>
<1>1. \A j \in JobsSoFar : OpenClaim(job'[j]) = OpenClaim(job[j])
  BY DEF OpenClaim
<1>2. JobsSoFar' \subseteq JobIds
  BY DEF LedgerInv
<1>3. LedgerInv' /\ \A j \in JobIds : VerdictsOf(attempts, j)' = VerdictsOf(attempts, j)
  BY <1>1, <1>2, LedgerKept
<1>4. ASSUME NEW j \in JobIds PROVE LedgerPhase(j)' = LedgerPhase(j)
  <2>1. CASE j \in JobsSoFar
    BY <2>1, PhasesAfter
  <2>2. CASE j \notin JobsSoFar
    BY <2>2, PhasesAfter DEF Recorded
  <2> QED BY <2>1, <2>2
<1> QED BY <1>3, <1>4, PhasesStay, EntriesStay

(* A recovery gives back the jobs of organizations among those it takes.   *)
LEMMA RecoverMaps ==
  ASSUME TypeOK, LedgerInv, NEW w \in Workers, NEW S \in SUBSET JobsSoFar, Recover(w, S)
  PROVE  LedgerInv' /\ \E T \in SUBSET JobIds : Ledger!GiveBack(T)
<1>1. /\ job' = [j \in JobsSoFar |-> IF j \in S THEN Recovered(job[j]) ELSE job[j]]
      /\ \A j \in S : job[j].status = "running"
      /\ \A j \in JobsSoFar : SourceOf(j)' = SourceOf(j)
      /\ attempts' = FinishAttempts(attempts, S, job, "recovered")
  BY RecoverIs
<1>2. Len(job) \in Nat /\ job \in [1..Len(job) -> JobRow] /\ JobsSoFar = 1..Len(job)
  BY Shapes DEF JobsSoFar
<1>3. ASSUME NEW j \in JobsSoFar
      PROVE  /\ job[j] \in JobRow /\ Recovered(job[j]) \in JobRow
             /\ Recovered(job[j]).status = "pending"
             /\ Recovered(job[j]).attempt_count = job[j].attempt_count
  <2>1. job[j] \in JobRow
    BY <1>2
  <2> QED BY <2>1, RowTypes, RowClaims
<1>4. job' \in [1..Len(job) -> JobRow]
  BY <1>1, <1>2, <1>3
<1>5. JobsSoFar' = JobsSoFar
  BY <1>2, <1>4, FunctionIsSequence DEF JobsSoFar
<1>6. SourcesKept
  BY <1>1, <1>5 DEF SourcesKept
<1>7. /\ \A j \in S : job'[j].status = "pending"
      /\ \A j \in JobsSoFar : job'[j].attempt_count = job[j].attempt_count
      /\ \A j \in JobsSoFar \ S : job'[j] = job[j]
  <2>1. ASSUME NEW j \in JobsSoFar, j \in S
        PROVE  job'[j].status = "pending" /\ job'[j].attempt_count = job[j].attempt_count
    <3>1. job'[j] = Recovered(job[j])
      BY <1>1, <2>1
    <3> QED BY <1>3, <3>1
  <2>2. ASSUME NEW j \in JobsSoFar, j \notin S PROVE job'[j] = job[j]
    BY <1>1, <2>2
  <2> QED BY <2>1, <2>2
<1>8. "recovered" \in Outcomes /\ JobsSoFar \subseteq JobIds
  BY DEF Outcomes, LedgerInv
<1>9. /\ LedgerInv'
      /\ \A j \in JobIds : VerdictsOf(attempts, j)' =
           IF j \in S /\ Recorded(j) THEN Ended(VerdictsOf(attempts, j), "recovered")
                                     ELSE VerdictsOf(attempts, j)
  BY <1>1, <1>5, <1>6, <1>7, <1>8, EndingMaps
<1> DEFINE T == {j \in S : Recorded(j)}
<1>10. ASSUME NEW j \in JobIds
       PROVE  /\ j \in T => LedgerPhase(j) = "taken"
              /\ LedgerPhase(j)' = IF j \in T THEN "queued" ELSE LedgerPhase(j)
  <2>1. CASE j \in T
    <3>1. job[j].status = "running" /\ job'[j].status = "pending" /\ Recorded(j)
      BY <1>1, <1>7, <2>1
    <3> QED BY <1>5, <1>6, <2>1, <3>1, PhasesAfter DEF PhaseFor
  <2>2. CASE j \notin T /\ Recorded(j)
    <3>1. job'[j] = job[j]
      BY <1>7, <2>2 DEF Recorded
    <3> QED BY <1>5, <1>6, <2>2, <3>1, PhasesAfter
  <2>3. CASE ~Recorded(j)
    BY <1>5, <1>6, <2>3, PhasesAfter
  <2> QED BY <2>1, <2>2, <2>3
<1>11. T \in SUBSET JobIds /\ \A j \in JobIds : j \in T <=> j \in S /\ Recorded(j)
  BY <1>8
<1> HIDE DEF T
<1>12. Phases' = [j \in JobIds |-> IF j \in T THEN "queued" ELSE Phases[j]]
  BY <1>10 DEF Phases
<1>13. Entries' = [j \in JobIds |-> IF j \in T THEN Ended(Entries[j], "recovered") ELSE Entries[j]]
  BY <1>9, <1>11 DEF Entries
<1>14. \A j \in T : Phases[j] = "taken"
  BY <1>10, <1>11 DEF Phases
<1>15. Ledger!GiveBack(T)
  BY <1>12, <1>13, <1>14 DEF Ledger!GiveBack, Ledger!Close, Phases, Entries, Ended
<1> QED BY <1>9, <1>11, <1>15

(* The claim of a job of an organization is a claim in the ledger.         *)
LEMMA ClaimMaps ==
  ASSUME TypeOK, LedgerInv, NEW w \in Workers, NEW j \in JobsSoFar, Claim(w, j)
  PROVE  LedgerInv' /\ (Ledger!Take(j) \/ UNCHANGED <<Phases, Entries>>)
<1>1. /\ job[j] \in JobRow /\ j \in JobIds
      /\ attempts \in SUBSET AttemptRows(JobsSoFar) /\ EachOnce(attempts)
  BY Shapes DEF TypeOK, LedgerInv
<1>2. PICK k \in Nat : k = job[j].attempt_count
  BY <1>1 DEF JobRow
<1>3. /\ Claimed(job[j]) \in JobRow /\ Claimed(job[j]).status = "running"
      /\ Claimed(job[j]).attempt_count = k + 1
  BY <1>1, <1>2, ClaimedType
<1>4. /\ job[j].status = "pending" /\ job' = [job EXCEPT ![j] = Claimed(job[j])]
      /\ attempts' = StartAttempt(attempts, SourceOf(j) \in OwnedSources, j, job'[j].attempt_count)
      /\ UNCHANGED <<run, run_id>>
  BY DEF Claim
<1>5. /\ JobsSoFar' = JobsSoFar /\ job'[j] = Claimed(job[j])
      /\ \A i \in JobsSoFar \ {j} : job'[i] = job[i]
  BY <1>3, <1>4, OneRowIs
<1>6. SourcesKept
  BY <1>4, <1>5, SameRuns
<1>7. attempts' = StartAttempt(attempts, SourceOf(j) \in OwnedSources, j, k + 1)
  BY <1>3, <1>4, <1>5
<1>8. \A i : i # j => AttemptsOf(attempts', i) = AttemptsOf(attempts, i)
  BY <1>7, StartLeaves
<1>9. \A i : i # j => VerdictsOf(attempts', i) = VerdictsOf(attempts, i)
  BY <1>8, SameAttempts
<1>10. ASSUME NEW i \in JobsSoFar \ {j}, Recorded(i)'
       PROVE  Numbered(attempts', i, job'[i].attempt_count, OpenClaim(job'[i]))
  <2>1. Recorded(i)
    BY <1>6, <1>10, RecordedKept
  <2>2. Numbered(attempts, i, job[i].attempt_count, OpenClaim(job[i])) /\ job'[i] = job[i]
    BY <1>5, <2>1 DEF LedgerInv
  <2> QED BY <1>8, <2>2, SameAttempts
<1>11. \A i \in JobIds \ {j} : LedgerPhase(i)' = LedgerPhase(i)
  <2> SUFFICES ASSUME NEW i \in JobIds \ {j} PROVE LedgerPhase(i)' = LedgerPhase(i)
    OBVIOUS
  <2>1. CASE i \in JobsSoFar
    BY <1>5, <1>6, <2>1, PhasesAfter
  <2>2. CASE i \notin JobsSoFar
    BY <1>5, <1>6, <2>2, PhasesAfter DEF Recorded
  <2> QED BY <2>1, <2>2
<1>12. CASE Recorded(j)
  <2>1. attempts' = StartAttempt(attempts, TRUE, j, k + 1)
    BY <1>7, <1>12 DEF Recorded, StartAttempt
  <2>2. Numbered(attempts, j, k, 0)
    BY <1>2, <1>4, <1>12 DEF LedgerInv, OpenClaim
  <2>3. /\ VerdictsOf(attempts', j) = Append(VerdictsOf(attempts, j), "running")
        /\ Numbered(attempts', j, k + 1, k + 1) /\ EachOnce(attempts')
    BY <1>1, <2>1, <2>2, StartAppends
  <2>4. \A r \in attempts' : r \in attempts \/ r.job = j
    BY <2>1 DEF StartAttempt
  <2>5. \A r \in attempts' : Recorded(r.job)'
    <3>1. \A r \in attempts' : r.job \in JobsSoFar /\ Recorded(r.job)
      BY <1>12, <2>4 DEF LedgerInv, Recorded
    <3> QED BY <1>6, <3>1, RecordedKept
  <2>6. Numbered(attempts', j, job'[j].attempt_count, OpenClaim(job'[j]))
    BY <1>3, <1>5, <2>3 DEF OpenClaim
  <2>7. LedgerInv'
    BY <1>1, <1>5, <1>10, <2>3, <2>5, <2>6 DEF LedgerInv
  <2>8. LedgerPhase(j) = "queued" /\ LedgerPhase(j)' = "taken"
    BY <1>3, <1>4, <1>5, <1>6, <1>12, PhasesAfter DEF PhaseFor
  <2>9. Phases' = [Phases EXCEPT ![j] = "taken"] /\ Phases[j] \in {"queued"}
    BY <1>1, <1>11, <2>8, PhasesMove DEF Phases
  <2>10. Entries' = [Entries EXCEPT ![j] = Append(Entries[j], "running")]
    BY <1>1, <1>9, <2>3 DEF Entries
  <2>11. Ledger!Take(j)
    BY <2>9, <2>10 DEF Ledger!Take, Ledger!Move, Phases, Entries
  <2> QED BY <2>7, <2>11
<1>13. CASE ~Recorded(j)
  <2>1. attempts' = attempts
    BY <1>7, <1>13 DEF Recorded, StartAttempt
  <2>2. \A r \in attempts' : Recorded(r.job)'
    <3>1. \A r \in attempts' : r.job \in JobsSoFar /\ Recorded(r.job)
      BY <2>1 DEF LedgerInv, Recorded
    <3> QED BY <1>6, <3>1, RecordedKept
  <2>3. ~Recorded(j)'
    BY <1>6, <1>13, RecordedKept
  <2>4. LedgerInv'
    BY <1>1, <1>5, <1>10, <2>1, <2>2, <2>3 DEF LedgerInv
  <2>5. LedgerPhase(j)' = LedgerPhase(j)
    BY <1>5, <1>6, <1>13, PhasesAfter
  <2> QED BY <1>11, <2>1, <2>4, <2>5, PhasesStay, EntriesStay
<1> QED BY <1>12, <1>13

(* The worker that holds a job of an organization settles it in the ledger. *)
LEMMA FinishMaps ==
  ASSUME TypeOK, LedgerInv, NEW w \in Workers, Finish(w)
  PROVE  /\ LedgerInv'
         /\ \/ \E j \in JobIds : Ledger!Complete(j) \/ Ledger!Fail(j)
            \/ UNCHANGED <<Phases, Entries>>
<1>1. PICK j \in JobsSoFar : j = worker[w].job
  BY Shapes DEF Finish, Busy
<1>2. PICK status \in {"completed", "failed"} :
        /\ job' = [job EXCEPT ![j] = Finished(job[j], status)]
        /\ attempts' = FinishAttempts(attempts, {j}, job, Verdict(status))
  BY <1>1 DEF Finish
<1>3. job[j].status = "running" /\ UNCHANGED <<run, run_id>>
  BY <1>1 DEF Finish, HoldsJob, Holds
<1>4. job[j] \in JobRow /\ j \in JobIds
  BY Shapes DEF LedgerInv
<1>5. /\ status \in Statuses /\ status # "running"
      /\ Verdict(status) \in Outcomes /\ Verdict(status) # "running"
  BY DEF Statuses, Verdict, Outcomes
<1>6. /\ Finished(job[j], status) \in JobRow /\ Finished(job[j], status).status = status
      /\ Finished(job[j], status).attempt_count = job[j].attempt_count
  BY <1>4, <1>5, RowTypes, RowClaims
<1>7. /\ JobsSoFar' = JobsSoFar /\ job'[j] = Finished(job[j], status)
      /\ \A i \in JobsSoFar \ {j} : job'[i] = job[i]
  BY <1>2, <1>6, OneRowIs
<1>8. SourcesKept
  BY <1>3, <1>7, SameRuns
<1>9. /\ LedgerInv'
      /\ \A i \in JobIds : VerdictsOf(attempts, i)' =
           IF i \in {j} /\ Recorded(i) THEN Ended(VerdictsOf(attempts, i), Verdict(status))
                                       ELSE VerdictsOf(attempts, i)
  <2>1. {j} \in SUBSET JobsSoFar
    OBVIOUS
  <2>2. \A i \in {j} : job[i].status = "running" /\ job'[i].status # "running"
    BY <1>3, <1>5, <1>6, <1>7
  <2>3. \A i \in JobsSoFar : job'[i].attempt_count = job[i].attempt_count
    BY <1>6, <1>7
  <2> QED BY <1>2, <1>5, <1>7, <1>8, <2>1, <2>2, <2>3, EndingMaps
<1>10. \A i \in JobIds \ {j} : LedgerPhase(i)' = LedgerPhase(i)
  <2> SUFFICES ASSUME NEW i \in JobIds \ {j} PROVE LedgerPhase(i)' = LedgerPhase(i)
    OBVIOUS
  <2>1. CASE i \in JobsSoFar
    BY <1>7, <1>8, <2>1, PhasesAfter
  <2>2. CASE i \notin JobsSoFar
    BY <1>7, <1>8, <2>2, PhasesAfter DEF Recorded
  <2> QED BY <2>1, <2>2
<1>11. CASE Recorded(j)
  <2>1. LedgerPhase(j) = "taken" /\ LedgerPhase(j)' = status
    BY <1>3, <1>6, <1>7, <1>8, <1>11, PhasesAfter DEF PhaseFor
  <2>2. Phases' = [Phases EXCEPT ![j] = status] /\ Phases[j] \in {"taken"}
    BY <1>4, <1>10, <2>1, PhasesMove DEF Phases
  <2>3. Entries' = [i \in JobIds |->
                      IF i \in {j} THEN Ended(Entries[i], Verdict(status)) ELSE Entries[i]]
    BY <1>9, <1>11 DEF Entries
  <2>4. CASE status = "completed"
    <3>1. Verdict(status) = "succeeded"
      BY <2>4 DEF Verdict
    <3>2. Ledger!Complete(j)
      BY <2>2, <2>3, <2>4, <3>1
      DEF Ledger!Complete, Ledger!Move, Ledger!Close, Phases, Entries, Ended
    <3> QED BY <1>4, <1>9, <3>2
  <2>5. CASE status = "failed"
    <3>1. Verdict(status) = "failed"
      BY <2>5 DEF Verdict
    <3>2. Ledger!Fail(j)
      BY <2>2, <2>3, <2>5, <3>1
      DEF Ledger!Fail, Ledger!Move, Ledger!Close, Phases, Entries, Ended
    <3> QED BY <1>4, <1>9, <3>2
  <2> QED BY <2>4, <2>5
<1>12. CASE ~Recorded(j)
  <2>1. LedgerPhase(j)' = LedgerPhase(j)
    BY <1>7, <1>8, <1>12, PhasesAfter
  <2>2. \A i \in JobIds : VerdictsOf(attempts, i)' = VerdictsOf(attempts, i)
    BY <1>9, <1>12
  <2> QED BY <1>9, <1>10, <2>1, <2>2, PhasesStay, EntriesStay
<1> QED BY <1>11, <1>12

(* A new job of an organization enters the ledger.                         *)
LEMMA SubmitMaps ==
  ASSUME TypeOK, LedgerInv, NEW s \in Sources, Submit(s)
  PROVE  /\ LedgerInv'
         /\ (\E j \in JobIds : Ledger!Submit(j)) \/ UNCHANGED <<Phases, Entries>>
<1>0. Len(job) \in Nat /\ Len(job) < MaxJobs /\ MaxJobs \in Nat
  BY Shapes, ConstantsAssumption DEF Submit
<1>1. PICK j \in JobIds : j = Len(job) + 1
  BY <1>0 DEF JobIds
<1>2. /\ job' \in [1..(Len(job) + 1) -> JobRow] /\ job'[j] = NewJob
      /\ \A i \in JobsSoFar : job'[i] = job[i]
      /\ \A i \in JobsSoFar : SourceOf(i)' = SourceOf(i)
      /\ UNCHANGED attempts
  BY <1>1, SubmitIs
<1>3. /\ Len(job') = Len(job) + 1 /\ JobsSoFar' = 1..(Len(job) + 1)
      /\ JobsSoFar' = JobsSoFar \cup {j} /\ j \notin JobsSoFar
  <2>1. Len(job) + 1 \in Nat
    BY <1>0
  <2>2. Len(job') = Len(job) + 1
    BY <1>2, <2>1, FunctionIsSequence
  <2> QED BY <1>0, <1>1, <2>2 DEF JobsSoFar
<1>4. SourcesKept
  BY <1>2, <1>3 DEF SourcesKept
<1>5. JobsSoFar' \subseteq JobIds
  BY <1>1, <1>3 DEF LedgerInv
<1>6. NewJob.attempt_count = 0 /\ NewJob.status = "pending"
  BY DEF NewJob
<1>7. LedgerInv' /\ \A i \in JobIds : VerdictsOf(attempts, i)' = VerdictsOf(attempts, i)
  <2>1. \A i \in JobsSoFar : /\ job'[i].attempt_count = job[i].attempt_count
                             /\ OpenClaim(job'[i]) = OpenClaim(job[i])
    BY <1>2
  <2>2. \A i \in JobsSoFar' \ JobsSoFar :
          job'[i].attempt_count = 0 /\ job'[i].status = "pending"
    BY <1>2, <1>3, <1>6
  <2> QED BY <1>2, <1>4, <1>5, <2>1, <2>2, LedgerKept
<1>8. \A i \in JobIds \ {j} : LedgerPhase(i)' = LedgerPhase(i)
  <2> SUFFICES ASSUME NEW i \in JobIds \ {j} PROVE LedgerPhase(i)' = LedgerPhase(i)
    OBVIOUS
  <2>1. CASE i \in JobsSoFar
    <3>1. (Recorded(i)' <=> Recorded(i)) /\ job'[i] = job[i]
      BY <1>2, <1>4, <2>1, RecordedKept
    <3> QED BY <3>1, PhaseIs
  <2>2. CASE i \notin JobsSoFar
    <3>1. ~Recorded(i) /\ ~Recorded(i)'
      BY <1>3, <2>2 DEF Recorded
    <3> QED BY <3>1, PhaseIs
  <2> QED BY <2>1, <2>2
<1>9. ~Recorded(j) /\ LedgerPhase(j) = "absent"
  BY <1>3, PhaseIs DEF Recorded
<1>10. Entries' = Entries
  BY <1>7, EntriesStay
<1>11. CASE Recorded(j)'
  <2>1. LedgerPhase(j)' = "queued"
    BY <1>2, <1>6, <1>11, PhaseIs DEF PhaseFor
  <2>2. Phases' = [Phases EXCEPT ![j] = "queued"] /\ Phases[j] \in {"absent"}
    BY <1>8, <1>9, <2>1, PhasesMove DEF Phases
  <2>3. Ledger!Submit(j)
    BY <1>10, <2>2 DEF Ledger!Submit, Ledger!Move, Phases, Entries
  <2> QED BY <1>7, <2>3
<1>12. CASE ~Recorded(j)'
  <2>1. LedgerPhase(j)' = "absent"
    BY <1>12, PhaseIs
  <2> QED BY <1>7, <1>8, <1>9, <1>10, <2>1, PhasesStay
<1> QED BY <1>11, <1>12

(* A retry puts a failed job of an organization back into the queue.       *)
LEMMA RetryMaps ==
  ASSUME TypeOK, LedgerInv, NEW j \in JobsSoFar, Retry(j)
  PROVE  LedgerInv' /\ Ledger!TryAgain(j)
<1>1. /\ job[j].status = "failed" /\ job' = [job EXCEPT ![j] = Requeued(job[j])]
      /\ \A i \in JobsSoFar : SourceOf(i)' = SourceOf(i)
      /\ UNCHANGED attempts
  BY RetryIs
<1>2. job[j] \in JobRow /\ j \in JobIds /\ Recorded(j)
  BY Shapes DEF LedgerInv, Retry, Recorded
<1>3. /\ Requeued(job[j]) \in JobRow /\ Requeued(job[j]).status = "pending"
      /\ Requeued(job[j]).attempt_count = job[j].attempt_count
  BY <1>2, RowTypes, RowClaims
<1>4. /\ JobsSoFar' = JobsSoFar /\ job'[j] = Requeued(job[j])
      /\ \A i \in JobsSoFar \ {j} : job'[i] = job[i]
  BY <1>1, <1>3, OneRowIs
<1>5. SourcesKept
  BY <1>1, <1>4 DEF SourcesKept
<1>6. LedgerInv' /\ \A i \in JobIds : VerdictsOf(attempts, i)' = VerdictsOf(attempts, i)
  <2>1. OpenClaim(job'[j]) = OpenClaim(job[j])
    BY <1>1, <1>3, <1>4 DEF OpenClaim
  <2>2. \A i \in JobsSoFar : /\ job'[i].attempt_count = job[i].attempt_count
                             /\ OpenClaim(job'[i]) = OpenClaim(job[i])
    BY <1>3, <1>4, <2>1
  <2>3. JobsSoFar' \subseteq JobIds /\ JobsSoFar' \ JobsSoFar = {}
    BY <1>4 DEF LedgerInv
  <2> QED BY <1>1, <1>5, <2>2, <2>3, LedgerKept
<1>7. \A i \in JobIds \ {j} : LedgerPhase(i)' = LedgerPhase(i)
  <2> SUFFICES ASSUME NEW i \in JobIds \ {j} PROVE LedgerPhase(i)' = LedgerPhase(i)
    OBVIOUS
  <2>1. CASE i \in JobsSoFar
    BY <1>4, <1>5, <2>1, PhasesAfter
  <2>2. CASE i \notin JobsSoFar
    BY <1>4, <1>5, <2>2, PhasesAfter DEF Recorded
  <2> QED BY <2>1, <2>2
<1>8. LedgerPhase(j) = "failed" /\ LedgerPhase(j)' = "queued"
  BY <1>1, <1>2, <1>3, <1>4, <1>5, PhasesAfter DEF PhaseFor
<1>9. Phases' = [Phases EXCEPT ![j] = "queued"] /\ Phases[j] \in {"failed"}
  BY <1>2, <1>7, <1>8, PhasesMove DEF Phases
<1>10. Entries' = Entries
  BY <1>6, EntriesStay
<1>11. Ledger!TryAgain(j)
  BY <1>9, <1>10 DEF Ledger!TryAgain, Ledger!Move, Phases, Entries
<1> QED BY <1>6, <1>11

(* The ledger knows neither leases nor executors.                          *)
LEMMA LeaseMaps ==
  ASSUME TypeOK, LedgerInv, NEW j \in JobsSoFar, NEW row \in JobRow,
         job' = [job EXCEPT ![j] = row], row.status = job[j].status,
         row.attempt_count = job[j].attempt_count, UNCHANGED <<run, run_id, attempts>>
  PROVE  LedgerInv' /\ UNCHANGED <<Phases, Entries>>
<1>1. /\ JobsSoFar' = JobsSoFar /\ job'[j] = row
      /\ \A i \in JobsSoFar \ {j} : job'[i] = job[i]
  BY OneRowIs
<1>2. SourcesKept
  BY <1>1, SameRuns
<1> QED BY <1>1, <1>2, QuietMaps

LEMMA SameJobsMap ==
  ASSUME TypeOK, LedgerInv, UNCHANGED <<job, run_id, attempts>>,
         \A j \in JobsSoFar : SourceOf(j)' = SourceOf(j)
  PROVE  LedgerInv' /\ UNCHANGED <<Phases, Entries>>
<1>1. JobsSoFar' = JobsSoFar
  BY DEF JobsSoFar
<1>2. SourcesKept
  BY <1>1 DEF SourcesKept
<1> QED BY <1>1, <1>2, QuietMaps

LEMMA ExecutorMaps ==
  ASSUME TypeOK, LedgerInv, NEW w \in Workers, ExecutorStep(w)
  PROVE  LedgerInv' /\ UNCHANGED <<Phases, Entries>>
<1> DEFINE r == worker[w].run
<1>1. /\ worker[w].pc \in Executing
      /\ \E x \in RunRow : run' = [run EXCEPT ![r] = x] /\ x.source = run[r].source
      /\ UNCHANGED <<job, run_id, attempts>>
  BY ExecutorStepIs
<1>2. PICK x \in RunRow : run' = [run EXCEPT ![r] = x] /\ x.source = run[r].source
  BY <1>1
<1>3. /\ r \in 1..Len(run) /\ run \in [1..Len(run) -> RunRow]
      /\ run_id \in [JobsSoFar -> 1..Len(run)]
  BY <1>1, Shapes DEF Busy
<1> HIDE DEF r
<1>4. \A n \in 1..Len(run) : run'[n].source = run[n].source
  BY <1>2, <1>3
<1>5. \A j \in JobsSoFar : SourceOf(j)' = SourceOf(j)
  BY <1>1, <1>3, <1>4 DEF SourceOf
<1> QED BY <1>1, <1>5, SameJobsMap

(* Every step of the queue is one of the ledger, or none.                  *)
LEMMA LedgerStep ==
  ASSUME TypeOK, LedgerInv, [Next]_vars
  PROVE  LedgerInv' /\ [Ledger!LedgerNext]_<<Phases, Entries>>
<1> DEFINE Maps == LedgerInv' /\ (Ledger!LedgerNext \/ UNCHANGED <<Phases, Entries>>)
<1>1. ASSUME UNCHANGED <<job, run_id, run, attempts>> PROVE Maps
  <2>1. \A j \in JobsSoFar : SourceOf(j)' = SourceOf(j)
    BY <1>1 DEF SourceOf
  <2> QED BY <1>1, <2>1, SameJobsMap
<1>2. ASSUME NEW w \in Workers, NEW S \in SUBSET JobsSoFar, Recover(w, S) PROVE Maps
  BY <1>2, RecoverMaps DEF Ledger!LedgerNext
<1>3. ASSUME NEW w \in Workers, NEW j \in JobsSoFar, Claim(w, j) PROVE Maps
  <2>1. j \in JobIds
    BY DEF LedgerInv
  <2> QED BY <1>3, <2>1, ClaimMaps DEF Ledger!LedgerNext
<1>4. ASSUME NEW w \in Workers, Heartbeat(w) PROVE Maps
  <2>1. CASE /\ HoldsJob(w) /\ JobStepIs(worker[w].job, Extended(job[worker[w].job]))
             /\ UNCHANGED worker
    <3>1. PICK j \in JobsSoFar : j = worker[w].job
      BY <2>1, Shapes DEF HoldsJob
    <3>2. /\ Extended(job[j]) \in JobRow /\ Extended(job[j]).status = job[j].status
          /\ Extended(job[j]).attempt_count = job[j].attempt_count
      BY Shapes, RowTypes, RowClaims
    <3>3. job' = [job EXCEPT ![j] = Extended(job[j])] /\ UNCHANGED <<run, run_id, attempts>>
      BY <1>4, <2>1, <3>1 DEF JobStepIs, Heartbeat
    <3> QED BY <3>2, <3>3, LeaseMaps
  <2>2. CASE UNCHANGED <<job, run_id, run, attempts, documents>>
    BY <1>1, <2>2
  <2> QED BY <1>4, <2>1, <2>2, HeartbeatIs
<1>5. ASSUME NEW w \in Workers, ExecutorStep(w) PROVE Maps
  BY <1>5, ExecutorMaps
<1>6. ASSUME NEW w \in Workers, Finish(w) PROVE Maps
  BY <1>6, FinishMaps DEF Ledger!LedgerNext
<1>7. ASSUME NEW w \in Workers, LeaveLostJob(w) \/ Crash(w) PROVE Maps
  <2>1. UNCHANGED <<job, run_id, run, attempts>>
    BY <1>7 DEF LeaveLostJob, Crash
  <2> QED BY <1>1, <2>1
<1>8. ASSUME NEW s \in Sources, Submit(s) PROVE Maps
  BY <1>8, SubmitMaps DEF Ledger!LedgerNext
<1>9. ASSUME NEW j \in JobsSoFar, LeaseExpires(j) PROVE Maps
  <2>1. /\ Expired(job[j]) \in JobRow /\ Expired(job[j]).status = job[j].status
        /\ Expired(job[j]).attempt_count = job[j].attempt_count
    BY Shapes, RowTypes, RowClaims
  <2>2. job' = [job EXCEPT ![j] = Expired(job[j])] /\ UNCHANGED <<run, run_id, attempts>>
    BY <1>9 DEF LeaseExpires
  <2> QED BY <2>1, <2>2, LeaseMaps
<1>10. ASSUME NEW j \in JobsSoFar, Retry(j) PROVE Maps
  <2>1. j \in JobIds
    BY DEF LedgerInv
  <2> QED BY <1>10, <2>1, RetryMaps DEF Ledger!LedgerNext
<1>11. CASE UNCHANGED vars
  BY <1>1, <1>11 DEF vars
<1> HIDE DEF Maps
<1>12. ASSUME NEW w \in Workers, WorkerStep(w) PROVE Maps
  BY <1>2, <1>3, <1>4, <1>5, <1>6, <1>7, <1>12 DEF WorkerStep
<1>13. ASSUME Next PROVE Maps
  BY <1>8, <1>9, <1>10, <1>12, <1>13 DEF Next
<1> QED BY <1>11, <1>13 DEF Maps

LEMMA LedgerStarts ==
  ASSUME Init
  PROVE  LedgerInv /\ Ledger!LedgerInit
<1>1. JobsSoFar = {} /\ attempts = {}
  BY DEF Init, JobsSoFar
<1>2. \A j \in JobIds : LedgerPhase(j) = "absent"
  BY <1>1, PhaseIs DEF Recorded
<1>3. \A j \in JobIds : VerdictsOf(attempts, j) = <<>>
  BY <1>1, NoVerdicts
<1>4. LedgerInv
  BY <1>1 DEF LedgerInv, EachOnce
<1> QED BY <1>2, <1>3, <1>4 DEF Ledger!LedgerInit

(* The attempt history an organization reads of its ingestion jobs is that *)
(* of the ledger: every claim gets one verdict, while it is the latest of  *)
(* its job, and keeps it, whatever lost executors, recoveries, retries and *)
(* crashes do, and whichever runs the job asks for (jobs.py, attempts.py   *)
(* and service.py of the job recovery).                                    *)
THEOREM IngestionImplementsLedger == Spec => JobsImplementLedger
<1>1. Init => IngestionInv
  BY InitHolds
<1>2. IngestionInv /\ [Next]_vars => IngestionInv'
  BY StepKeeps
<1>3. IngestionInv => TypeOK
  BY DEF IngestionInv, RunsInv
<1>4. Init => LedgerInv /\ Ledger!LedgerInit
  BY LedgerStarts
<1>5. TypeOK /\ LedgerInv /\ [Next]_vars
      => LedgerInv' /\ [Ledger!LedgerNext]_<<Phases, Entries>>
  BY LedgerStep
<1> QED BY <1>1, <1>2, <1>3, <1>4, <1>5, PTL
        DEF Spec, JobsImplementLedger, Ledger!LedgerSpec, Phases, Entries

--------------------------------------------------------------------------------
(* Schedules.  First the arithmetic of the next time.                      *)

LEMMA SmallMultiple ==
  ASSUME NEW y \in Nat, y # 0, NEW t \in Int, 0 <= y * t, y * t < y
  PROVE  t = 0
<1>1. CASE t >= 1
  <2>1. PICK u \in Nat : t = u + 1
    <3>1. t - 1 \in Nat /\ t = (t - 1) + 1
      BY <1>1
    <3> QED BY <3>1
  <2>2. y * t = y * u + y /\ y * u >= 0
    BY <2>1
  <2> QED BY <2>2
<1>2. CASE t <= -1
  <2>1. y * (-t) >= y
    BY <1>2
  <2> QED BY <1>2, <2>1
<1> QED BY <1>1, <1>2

LEMMA Division ==
  ASSUME NEW y \in Nat, y # 0, NEW a \in Nat
  PROVE  /\ a \div y \in Nat /\ a % y \in 0..(y - 1)
         /\ a = y * (a \div y) + (a % y)
  OBVIOUS

LEMMA MultipleIsWhole ==
  ASSUME NEW y \in Nat, y # 0, NEW k \in Nat
  PROVE  (k * y) % y = 0
<1> DEFINE q == (k * y) \div y
           m == (k * y) % y
<1>1. k * y \in Nat
  OBVIOUS
<1>2. q \in Nat /\ m \in 0..(y - 1) /\ k * y = y * q + m
  BY <1>1, Division
<1> HIDE DEF q, m
<1>3. y * (k - q) = m
  BY <1>2
<1>4. k - q = 0
  BY <1>2, <1>3, SmallMultiple
<1> QED BY <1>3, <1>4 DEF m

(* The next time lies after now, by at most one interval, and is a whole   *)
(* number of intervals after the previous one.                             *)
LEMMA NextTimeIs ==
  ASSUME NEW at \in Nat, NEW now \in Nat, at <= now, NEW y \in Nat, y # 0
  PROVE  /\ NextIngestionTime(at, y, now) \in Nat
         /\ now < NextIngestionTime(at, y, now) /\ NextIngestionTime(at, y, now) <= now + y
         /\ \E k \in Nat : NextIngestionTime(at, y, now) = at + k * y
<1> DEFINE late == (now - at) \div y
           rest == (now - at) % y
<1>1. now - at \in Nat
  OBVIOUS
<1>2. late \in Nat /\ rest \in 0..(y - 1) /\ now - at = y * late + rest
  BY <1>1, Division
<1>3. NextIngestionTime(at, y, now) = at + (late + 1) * y
  <2>1. NextIngestionTime(at, y, now) = at + ((IF late > 0 THEN late ELSE 0) + 1) * y
    BY DEF NextIngestionTime
  <2> HIDE DEF late
  <2>2. (IF late > 0 THEN late ELSE 0) = late
    BY <1>2
  <2> QED BY <2>1, <2>2
<1> HIDE DEF late, rest
<1>4. (late + 1) * y = y * late + y /\ y * late \in Nat
  BY <1>2
<1>5. /\ at + (late + 1) * y \in Nat
      /\ now < at + (late + 1) * y /\ at + (late + 1) * y <= now + y
  BY <1>2, <1>4
<1>6. late + 1 \in Nat
  BY <1>2
<1> QED BY <1>3, <1>5, <1>6
--------------------------------------------------------------------------------
(* The inductive invariant of the schedules. *)

SourceRow ==
  [enabled: BOOLEAN, interval: Intervals \cup {0}, next_at: Nat \cup {NoTime},
   plan: 0..plans, start: Times \cup {NoTime}]

QueuedRow == [source: Scheduled, plan: 0..plans, slot: Nat, now: Times]

ScheduleTypes ==
  /\ clock \in Times /\ plans \in 0..MaxPlans
  /\ source \in [Scheduled -> SourceRow]
  /\ scheduler \in [Schedulers -> [now: Times, todo: SUBSET Scheduled]]
  /\ queued \in Seq(QueuedRow)

(* A source with its schedule on stands at a whole number of intervals     *)
(* after the time the schedule was set to.                                 *)
OnGrid(s) ==
  LET row == source[s] IN
  /\ row.enabled <=> row.next_at # NoTime
  /\ row.enabled => /\ row.interval # 0 /\ row.start # NoTime
                    /\ \E k \in Nat : row.next_at = row.start + k * row.interval

(* What was queued of the present schedule was queued before its next time. *)
QueuedBefore(s) ==
  \A i \in 1..Len(queued) :
    source[s].enabled /\ queued[i].source = s /\ queued[i].plan = source[s].plan
      => queued[i].now < source[s].next_at

(* Nothing of that schedule was queued after this, so this is why the next *)
(* time is what it is.                                                     *)
LastQueued(s) ==
  \A i \in 1..Len(queued) :
    /\ source[s].enabled /\ queued[i].source = s /\ queued[i].plan = source[s].plan
    /\ \A j \in (i + 1)..Len(queued) : ~SamePlan(queued[i], queued[j])
    => source[s].next_at <= queued[i].now + source[s].interval

ScheduleInv ==
  /\ ScheduleTypes
  /\ \A s \in Scheduled : OnGrid(s) /\ QueuedBefore(s) /\ LastQueued(s)
  /\ NothingQueuedEarly /\ SlotsQueuedOnce

LEMMA Minutes ==
  /\ \A y \in Intervals : y \in Nat /\ y # 0
  /\ \A t \in Times : t \in Nat
  /\ NoTime \notin Nat /\ NoTime \notin Times
<1>1. \A y \in Intervals : y \in Nat /\ y # 0
  BY ScheduleAssumption
<1>2. (\A t \in Times : t \in Nat) /\ NoTime \notin Nat
  BY ScheduleAssumption DEF Times, NoTime
<1> QED BY <1>1, <1>2

LEMMA ScheduleInvSuffices ==
  ASSUME ScheduleInv
  PROVE  SlotsAreKept
<1>1. ScheduleTypeOK
  <2>1. ASSUME NEW s \in Scheduled
        PROVE  /\ source[s] \in SourceRow /\ OnGrid(s)
    BY DEF ScheduleInv, ScheduleTypes
  <2>2. ASSUME NEW c \in Schedulers PROVE scheduler[c] \in [now: Times, todo: SUBSET Scheduled]
    BY DEF ScheduleInv, ScheduleTypes
  <2>3. ASSUME NEW s \in Scheduled
        PROVE  /\ source[s].enabled \in BOOLEAN
               /\ source[s].interval \in Intervals \cup {0}
               /\ source[s].next_at \in Nat \cup {NoTime}
               /\ source[s].plan \in 0..plans /\ source[s].start \in Times \cup {NoTime}
    BY <2>1 DEF SourceRow
  <2>4. ASSUME NEW s \in Scheduled
        PROVE  /\ source[s].enabled <=> source[s].next_at # NoTime
               /\ source[s].enabled => source[s].interval # 0
    BY <2>1 DEF OnGrid
  <2> QED BY <2>2, <2>3, <2>4 DEF ScheduleInv, ScheduleTypes, ScheduleTypeOK
<1>2. NextTimeIsFirst
  <2> SUFFICES ASSUME NEW s \in Scheduled, NEW i \in 1..Len(queued),
                      source[s].enabled, queued[i].source = s,
                      queued[i].plan = source[s].plan,
                      \A j \in (i + 1)..Len(queued) : ~SamePlan(queued[i], queued[j])
               PROVE  /\ queued[i].now < source[s].next_at
                      /\ source[s].next_at <= queued[i].now + source[s].interval
                      /\ (source[s].next_at - source[s].start) % source[s].interval = 0
    BY DEF NextTimeIsFirst
  <2>1. OnGrid(s) /\ QueuedBefore(s) /\ LastQueued(s) /\ source[s] \in SourceRow
    BY DEF ScheduleInv, ScheduleTypes
  <2>2. queued[i].now < source[s].next_at
    BY <2>1 DEF QueuedBefore
  <2>3. source[s].next_at <= queued[i].now + source[s].interval
    BY <2>1 DEF LastQueued
  <2>4. PICK k \in Nat : source[s].next_at = source[s].start + k * source[s].interval
    BY <2>1 DEF OnGrid
  <2>5. source[s].interval \in Nat /\ source[s].interval # 0 /\ source[s].start \in Nat
    <3>1. source[s].interval \in Intervals \cup {0} /\ source[s].start \in Times \cup {NoTime}
      BY <2>1 DEF SourceRow
    <3>2. source[s].interval # 0 /\ source[s].start # NoTime
      BY <2>1 DEF OnGrid
    <3> QED BY <3>1, <3>2, Minutes
  <2>6. source[s].next_at - source[s].start = k * source[s].interval
    <3>1. k * source[s].interval \in Nat
      BY <2>5
    <3> QED BY <2>4, <2>5, <3>1
  <2>7. (source[s].next_at - source[s].start) % source[s].interval = 0
    BY <2>5, <2>6, MultipleIsWhole
  <2> QED BY <2>2, <2>3, <2>7
<1> QED BY <1>1, <1>2 DEF ScheduleInv, SlotsAreKept

LEMMA ScheduleInitHolds ==
  ASSUME ScheduleInit
  PROVE  ScheduleInv
<1> DEFINE off == [enabled |-> FALSE, interval |-> 0, next_at |-> NoTime, plan |-> 0,
                   start |-> NoTime]
<1>1. off \in SourceRow
  BY DEF ScheduleInit, SourceRow
<1>2. ScheduleTypes
  <2>1. clock \in Times /\ plans \in 0..MaxPlans /\ queued \in Seq(QueuedRow)
    BY ScheduleAssumption DEF ScheduleInit, Times
  <2>2. source \in [Scheduled -> SourceRow]
    BY <1>1 DEF ScheduleInit
  <2>3. scheduler \in [Schedulers -> [now: Times, todo: SUBSET Scheduled]]
    BY ScheduleAssumption DEF ScheduleInit, Times
  <2> QED BY <2>1, <2>2, <2>3 DEF ScheduleTypes
<1>3. Len(queued) = 0
  BY DEF ScheduleInit
<1>4. ASSUME NEW s \in Scheduled PROVE OnGrid(s) /\ QueuedBefore(s) /\ LastQueued(s)
  BY <1>3 DEF ScheduleInit, OnGrid, QueuedBefore, LastQueued
<1> QED BY <1>2, <1>3, <1>4 DEF ScheduleInv, NothingQueuedEarly, SlotsQueuedOnce

(* Steps that queue nothing: a source is as it was, off, or has a schedule *)
(* nothing was queued of.                                                  *)
LEMMA NothingQueued ==
  ASSUME ScheduleInv, ScheduleTypes', UNCHANGED queued,
         \A s \in Scheduled :
           \/ source'[s] = source[s]
           \/ ~source'[s].enabled /\ source'[s].next_at = NoTime
           \/ /\ source'[s].enabled /\ source'[s].plan = plans + 1
              /\ source'[s].next_at \in Nat /\ source'[s].start = source'[s].next_at
              /\ source'[s].interval \in Intervals
  PROVE  ScheduleInv'
<1>1. ASSUME NEW s \in Scheduled PROVE OnGrid(s)' /\ QueuedBefore(s)' /\ LastQueued(s)'
  <2>0. OnGrid(s) /\ QueuedBefore(s) /\ LastQueued(s)
    BY DEF ScheduleInv
  <2>1. CASE source'[s] = source[s]
    BY <2>0, <2>1 DEF OnGrid, QueuedBefore, LastQueued
  <2>2. CASE ~source'[s].enabled /\ source'[s].next_at = NoTime
    BY <2>2 DEF OnGrid, QueuedBefore, LastQueued
  <2>3. CASE /\ source'[s].enabled /\ source'[s].plan = plans + 1
             /\ source'[s].next_at \in Nat /\ source'[s].start = source'[s].next_at
             /\ source'[s].interval \in Intervals
    <3>1. ASSUME NEW i \in 1..Len(queued) PROVE queued[i].plan # plans + 1
      <4>1. queued[i] \in QueuedRow
        BY DEF ScheduleInv, ScheduleTypes
      <4>2. queued[i].plan \in 0..plans /\ plans \in Nat
        BY <4>1 DEF QueuedRow, ScheduleInv, ScheduleTypes
      <4> QED BY <4>2
    <3>2. source'[s].next_at # NoTime /\ source'[s].interval # 0 /\ source'[s].interval \in Nat
      BY <2>3, Minutes
    <3>3. source'[s].next_at = source'[s].start + 0 * source'[s].interval
      BY <2>3, <3>2
    <3> QED BY <2>3, <3>1, <3>2, <3>3 DEF OnGrid, QueuedBefore, LastQueued
  <2> QED BY <2>1, <2>2, <2>3
<1>2. NothingQueuedEarly' /\ SlotsQueuedOnce'
  BY DEF ScheduleInv, NothingQueuedEarly, SlotsQueuedOnce
<1> QED BY <1>1, <1>2 DEF ScheduleInv

(* Appending to the history of what was queued.                            *)
LEMMA Queueing ==
  ASSUME ScheduleInv, NEW e \in QueuedRow, queued' = Append(queued, e)
  PROVE  /\ Len(queued) \in Nat /\ Len(queued') = Len(queued) + 1
         /\ queued' \in Seq(QueuedRow) /\ queued'[Len(queued) + 1] = e
         /\ \A i \in 1..Len(queued) : queued'[i] = queued[i] /\ queued[i] \in QueuedRow
<1>1. queued \in Seq(QueuedRow)
  BY DEF ScheduleInv, ScheduleTypes
<1>2. /\ Append(queued, e) \in Seq(QueuedRow) /\ Len(Append(queued, e)) = Len(queued) + 1
      /\ Append(queued, e)[Len(queued) + 1] = e
      /\ \A i \in 1..Len(queued) : Append(queued, e)[i] = queued[i]
  BY <1>1, AppendProperties
<1>3. Len(queued) \in Nat /\ \A i \in 1..Len(queued) : queued[i] \in QueuedRow
  BY <1>1
<1> QED BY <1>2, <1>3

LEMMA ScheduleKeeps ==
  ASSUME ScheduleInv, NEW c \in Schedulers, NEW s \in Scheduled, Schedule(c, s)
  PROVE  ScheduleInv'
<1> DEFINE now == scheduler[c].now
           row == source[s]
           next == NextIngestionTime(row.next_at, row.interval, now)
           e == [source |-> s, plan |-> row.plan, slot |-> row.next_at, now |-> now]
           n == Len(queued) + 1
<1>1. /\ clock \in Times /\ plans \in 0..MaxPlans /\ UNCHANGED <<clock, plans>>
      /\ source \in [Scheduled -> SourceRow]
      /\ scheduler \in [Schedulers -> [now: Times, todo: SUBSET Scheduled]]
      /\ queued \in Seq(QueuedRow)
  BY DEF ScheduleInv, ScheduleTypes, Schedule
<1>2. scheduler' \in [Schedulers -> [now: Times, todo: SUBSET Scheduled]]
  BY <1>1 DEF Schedule
<1>3. SourceRow' = SourceRow /\ QueuedRow' = QueuedRow
  BY <1>1 DEF SourceRow, QueuedRow
<1>4. CASE ~Due(s, now)
  <2>1. UNCHANGED <<source, queued>>
    BY <1>4 DEF Schedule
  <2>2. ScheduleTypes'
    BY <1>1, <1>2, <1>3, <2>1 DEF ScheduleTypes
  <2> QED BY <2>1, <2>2, NothingQueued
<1>5. CASE Due(s, now)
  <2>1. /\ row.enabled /\ row.next_at # NoTime /\ row.next_at <= now
        /\ queued' = Append(queued, e)
        /\ source' = [source EXCEPT ![s].next_at = next]
    BY <1>5 DEF Schedule, Due
  <2>2. /\ row \in SourceRow /\ OnGrid(s) /\ QueuedBefore(s) /\ LastQueued(s) /\ now \in Times
    BY <1>1 DEF ScheduleInv
  <2>3. /\ row.next_at \in Nat /\ now \in Nat /\ row.interval \in Nat /\ row.interval # 0
        /\ row.start \in Nat /\ row.plan \in 0..plans
    <3>1. /\ row.next_at \in Nat \cup {NoTime} /\ row.interval \in Intervals \cup {0}
          /\ row.start \in Times \cup {NoTime} /\ row.plan \in 0..plans
      BY <2>2 DEF SourceRow
    <3>2. row.interval # 0 /\ row.start # NoTime
      BY <2>1, <2>2 DEF OnGrid
    <3> QED BY <2>1, <2>2, <3>1, <3>2, Minutes
  <2>4. /\ next \in Nat /\ now < next /\ next <= now + row.interval
        /\ \E k \in Nat : next = row.next_at + k * row.interval
    <3> HIDE DEF now, row
    <3> QED BY <2>1, <2>3, NextTimeIs
  <2>5. e \in QueuedRow
    BY <2>2, <2>3 DEF QueuedRow
  <2>6. /\ e.source = s /\ e.plan = row.plan /\ e.slot = row.next_at /\ e.now = now
    OBVIOUS
  <2>7. [row EXCEPT !.next_at = next] \in SourceRow
    BY <2>2, <2>4 DEF SourceRow
  <2>8. /\ source' = [source EXCEPT ![s] = [row EXCEPT !.next_at = next]]
        /\ source' \in [Scheduled -> SourceRow]
    BY <1>1, <2>1, <2>7
  <2>9. /\ source'[s].next_at = next /\ source'[s].enabled = row.enabled
        /\ source'[s].interval = row.interval /\ source'[s].plan = row.plan
        /\ source'[s].start = row.start
        /\ \A t \in Scheduled : t # s => source'[t] = source[t]
    BY <1>1, <2>2, <2>8 DEF SourceRow
  <2> HIDE DEF next, e
  <2>10. /\ Len(queued) \in Nat /\ Len(queued') = n
         /\ queued' \in Seq(QueuedRow) /\ queued'[n] = e
         /\ \A i \in 1..Len(queued) : queued'[i] = queued[i] /\ queued[i] \in QueuedRow
    BY <2>1, <2>5, Queueing
  <2>11. ScheduleTypes'
    BY <1>1, <1>2, <1>3, <2>8, <2>10 DEF ScheduleTypes
  <2>12. ASSUME NEW i \in 1..n PROVE i = n \/ i \in 1..Len(queued)
    BY <2>10
  <2> HIDE DEF n, row, now
  <2>13. OnGrid(s)'
    <3>1. PICK k \in Nat : next = row.next_at + k * row.interval
      BY <2>4
    <3>2. PICK l \in Nat : row.next_at = row.start + l * row.interval
      BY <2>1, <2>2 DEF OnGrid, row
    <3>3. k + l \in Nat /\ next = row.start + (k + l) * row.interval
      BY <2>3, <3>1, <3>2
    <3>4. next # NoTime
      BY <2>4, Minutes
    <3>5. row.start # NoTime
      BY <2>3, Minutes
    <3> QED BY <2>1, <2>3, <2>9, <3>3, <3>4, <3>5 DEF OnGrid
  <2>14. QueuedBefore(s)'
    <3> SUFFICES ASSUME NEW i \in 1..n, queued'[i].source = s, queued'[i].plan = row.plan
                 PROVE  queued'[i].now < next
      BY <2>9, <2>10 DEF QueuedBefore
    <3>1. CASE i = n
      BY <2>4, <2>6, <2>10, <3>1
    <3>2. CASE i \in 1..Len(queued)
      <4>1. queued'[i] = queued[i] /\ queued[i].now < row.next_at
        BY <2>1, <2>2, <2>10, <3>2 DEF QueuedBefore, row
      <4>2. queued[i].now \in Nat
        BY <2>10, <3>2, Minutes DEF QueuedRow
      <4> QED BY <2>1, <2>3, <2>4, <4>1, <4>2, SMTT(30)
    <3> QED BY <2>12, <3>1, <3>2
  <2>15. LastQueued(s)'
    <3> SUFFICES ASSUME NEW i \in 1..n, queued'[i].source = s, queued'[i].plan = row.plan,
                        \A j \in (i + 1)..n : ~SamePlan(queued'[i], queued'[j])
                 PROVE  next <= queued'[i].now + row.interval
      BY <2>9, <2>10 DEF LastQueued
    <3>1. CASE i = n
      BY <2>4, <2>6, <2>10, <3>1
    <3>2. CASE i \in 1..Len(queued)
      <4>1. n \in (i + 1)..n
        BY <2>10, <3>2 DEF n
      <4>2. SamePlan(queued'[i], queued'[n])
        BY <2>6, <2>10 DEF SamePlan
      <4> QED BY <4>1, <4>2
    <3> QED BY <2>12, <3>1, <3>2
  <2>16. ASSUME NEW t \in Scheduled, t # s
         PROVE  OnGrid(t)' /\ QueuedBefore(t)' /\ LastQueued(t)'
    <3>1. source'[t] = source[t] /\ OnGrid(t) /\ QueuedBefore(t) /\ LastQueued(t)
      BY <2>9, <2>16 DEF ScheduleInv
    <3>2. OnGrid(t)'
      BY <3>1 DEF OnGrid
    <3>3. ASSUME NEW i \in 1..n, queued'[i].source = t
          PROVE  i \in 1..Len(queued)
      BY <2>6, <2>10, <2>12, <2>16, <3>3
    <3>4. QueuedBefore(t)'
      BY <2>10, <3>1, <3>3 DEF QueuedBefore
    <3>5. LastQueued(t)'
      <4> SUFFICES ASSUME NEW i \in 1..n, source[t].enabled, queued'[i].source = t,
                          queued'[i].plan = source[t].plan,
                          \A j \in (i + 1)..n : ~SamePlan(queued'[i], queued'[j])
                   PROVE  source[t].next_at <= queued'[i].now + source[t].interval
        BY <2>10, <3>1 DEF LastQueued
      <4>1. i \in 1..Len(queued) /\ queued'[i] = queued[i]
        BY <2>10, <3>3
      <4>2. ASSUME NEW j \in (i + 1)..Len(queued) PROVE ~SamePlan(queued[i], queued[j])
        <5>1. j \in 1..Len(queued) /\ j \in (i + 1)..n
          BY <2>10, <4>1 DEF n
        <5>2. queued'[j] = queued[j]
          BY <2>10, <5>1
        <5> QED BY <4>1, <5>1, <5>2
      <4> QED BY <3>1, <4>1, <4>2 DEF LastQueued
    <3> QED BY <3>2, <3>4, <3>5
  <2>17. NothingQueuedEarly'
    <3> SUFFICES ASSUME NEW i \in 1..n
                 PROVE  queued'[i].slot \in Nat /\ queued'[i].slot <= queued'[i].now
      BY <2>10 DEF NothingQueuedEarly
    <3>1. CASE i = n
      BY <2>1, <2>3, <2>6, <2>10, <3>1
    <3>2. CASE i \in 1..Len(queued)
      BY <2>10, <3>2 DEF ScheduleInv, NothingQueuedEarly
    <3> QED BY <2>12, <3>1, <3>2
  <2>18. SlotsQueuedOnce'
    <3> SUFFICES ASSUME NEW i \in 1..n, NEW j \in 1..n, i < j,
                        SamePlan(queued'[i], queued'[j])
                 PROVE  queued'[i].now < queued'[j].slot
      BY <2>10 DEF SlotsQueuedOnce
    <3>1. i \in 1..Len(queued)
      BY <2>10 DEF n
    <3>2. CASE j = n
      <4>1. queued[i].source = s /\ queued[i].plan = row.plan /\ queued'[i] = queued[i]
        BY <2>6, <2>10, <3>1, <3>2 DEF SamePlan
      <4>2. queued[i].now < row.next_at
        BY <2>1, <2>2, <3>1, <4>1 DEF QueuedBefore, row
      <4> QED BY <2>6, <2>10, <3>2, <4>1, <4>2
    <3>3. CASE j \in 1..Len(queued)
      BY <2>10, <3>1, <3>3 DEF ScheduleInv, SlotsQueuedOnce
    <3> QED BY <2>12, <3>2, <3>3
  <2>19. \A t \in Scheduled : OnGrid(t)' /\ QueuedBefore(t)' /\ LastQueued(t)'
    BY <2>13, <2>14, <2>15, <2>16
  <2> QED BY <2>11, <2>17, <2>18, <2>19 DEF ScheduleInv
<1> QED BY <1>4, <1>5

LEMMA ScheduleStepKeeps ==
  ASSUME ScheduleInv, [ScheduleStep]_scheduleVars
  PROVE  ScheduleInv'
<1>1. /\ clock \in Times /\ plans \in 0..MaxPlans
      /\ source \in [Scheduled -> SourceRow]
      /\ scheduler \in [Schedulers -> [now: Times, todo: SUBSET Scheduled]]
      /\ queued \in Seq(QueuedRow)
  BY DEF ScheduleInv, ScheduleTypes
<1>2. plans' = plans => SourceRow' = SourceRow /\ QueuedRow' = QueuedRow
  BY DEF SourceRow, QueuedRow
<1>3. CASE UNCHANGED scheduleVars
  <2>1. UNCHANGED <<clock, plans, scheduler>> /\ UNCHANGED <<source, queued>>
    BY <1>3 DEF scheduleVars
  <2>2. ScheduleTypes'
    BY <1>1, <1>2, <2>1 DEF ScheduleTypes
  <2> QED BY <2>1, <2>2, NothingQueued
<1>4. CASE Tick
  <2>1. clock' \in Times /\ UNCHANGED <<plans, scheduler, source, queued>>
    BY <1>1, <1>4, ScheduleAssumption DEF Tick, Times
  <2>2. ScheduleTypes'
    BY <1>1, <1>2, <2>1 DEF ScheduleTypes
  <2> QED BY <2>1, <2>2, NothingQueued
<1>5. ASSUME NEW s \in Scheduled, NEW interval \in Intervals, NEW start \in Times,
             Enable(s, interval, start)
      PROVE  ScheduleInv'
  <2> DEFINE row == [enabled |-> TRUE, interval |-> interval, next_at |-> start,
                     plan |-> plans + 1, start |-> start]
  <2>1. /\ plans' = plans + 1 /\ plans' \in 0..MaxPlans /\ plans \in Nat
        /\ source' = [source EXCEPT ![s] = row] /\ UNCHANGED <<clock, scheduler, queued>>
    BY <1>1, <1>5, ScheduleAssumption DEF Enable
  <2>2. row \in SourceRow'
    BY <1>5, <2>1, Minutes DEF SourceRow
  <2>3. \A r \in SourceRow : r \in SourceRow'
    BY <2>1 DEF SourceRow
  <2>4. \A e \in QueuedRow : e \in QueuedRow'
    BY <2>1 DEF QueuedRow
  <2>5. source' \in [Scheduled -> SourceRow']
    BY <1>1, <2>1, <2>2, <2>3
  <2>6. queued' \in Seq(QueuedRow')
    BY <1>1, <2>1, <2>4
  <2>7. ScheduleTypes'
    BY <1>1, <2>1, <2>5, <2>6 DEF ScheduleTypes
  <2>8. ASSUME NEW t \in Scheduled
        PROVE  \/ source'[t] = source[t]
               \/ /\ source'[t].enabled /\ source'[t].plan = plans + 1
                  /\ source'[t].next_at \in Nat /\ source'[t].start = source'[t].next_at
                  /\ source'[t].interval \in Intervals
    BY <1>1, <1>5, <2>1, Minutes
  <2> QED BY <2>1, <2>7, <2>8, NothingQueued
<1>6. ASSUME NEW s \in Scheduled, Disable(s) PROVE ScheduleInv'
  <2> DEFINE row == [source[s] EXCEPT !.enabled = FALSE, !.next_at = NoTime]
  <2>1. /\ source' = [source EXCEPT ![s] = row]
        /\ UNCHANGED <<clock, scheduler, queued, plans>>
    BY <1>1, <1>6 DEF Disable
  <2>2. source[s] \in SourceRow
    BY <1>1
  <2>3. row \in SourceRow /\ ~row.enabled /\ row.next_at = NoTime
    BY <2>2 DEF SourceRow
  <2> HIDE DEF row
  <2>4. source' \in [Scheduled -> SourceRow]
    BY <1>1, <2>1, <2>3
  <2>5. ScheduleTypes'
    BY <1>1, <1>2, <2>1, <2>4 DEF ScheduleTypes
  <2>6. ASSUME NEW t \in Scheduled
        PROVE  \/ source'[t] = source[t]
               \/ ~source'[t].enabled /\ source'[t].next_at = NoTime
    BY <1>1, <2>1, <2>3
  <2> QED BY <2>1, <2>5, <2>6, NothingQueued
<1>7. ASSUME NEW c \in Schedulers, List(c) \/ Stop(c) PROVE ScheduleInv'
  <2>1. UNCHANGED <<clock, plans>> /\ UNCHANGED <<source, queued>>
    BY <1>7 DEF List, Stop
  <2>2. scheduler' \in [Schedulers -> [now: Times, todo: SUBSET Scheduled]]
    <3>1. CASE List(c)
      <4>1. PICK todo \in SUBSET Scheduled :
              scheduler' = [scheduler EXCEPT ![c] = [now |-> clock, todo |-> todo]]
        BY <3>1 DEF List
      <4> QED BY <1>1, <4>1
    <3>2. CASE Stop(c)
      BY <1>1, <3>2 DEF Stop
    <3> QED BY <1>7, <3>1, <3>2
  <2>3. ScheduleTypes'
    BY <1>1, <1>2, <2>1, <2>2 DEF ScheduleTypes
  <2> QED BY <2>1, <2>3, NothingQueued
<1>8. ASSUME NEW c \in Schedulers, NEW s \in Scheduled, Schedule(c, s) PROVE ScheduleInv'
  BY <1>8, ScheduleKeeps
<1> QED BY <1>3, <1>4, <1>5, <1>6, <1>7, <1>8 DEF ScheduleStep

(* Each time of a schedule is queued once, never before it is due and      *)
(* without drift, however many schedulers work from lists that others or   *)
(* administrators made stale (schedule_due, _schedule and                  *)
(* next_ingestion_time).                                                   *)
THEOREM SlotsAlwaysKept == ScheduleSpec => []SlotsAreKept
<1>1. ScheduleInit => ScheduleInv
  BY ScheduleInitHolds
<1>2. ScheduleInv /\ [ScheduleStep]_scheduleVars => ScheduleInv'
  BY ScheduleStepKeeps
<1>3. ScheduleInv => SlotsAreKept
  BY ScheduleInvSuffices
<1> QED BY <1>1, <1>2, <1>3, PTL DEF ScheduleSpec

================================================================================
