# Verification of SignalScope

SignalScope is a media-intelligence platform: sources are ingested into
documents, files are parsed into text and chunks, chunks are embedded and read
by models for entities, events and claims, events are put into clusters, and
organizations search, research and investigate the result. Its work is done by
API processes, worker processes and commands that share one PostgreSQL database
as queue, store and lock manager; files live in a blob store next to it. There
is no other coordination: what keeps two processes apart is a row lock, a lease
token, a unique index or an order of two statements. This project models the
parts where those processes meet and states what must hold however they
interleave, crash, stall and are retried. Paths below are relative to
`src/src/signalscope/` (the package) unless they start with `obsidian/`, `docs/`
or `migrations/`.

Contents: 1 inventory · 2 how the project is built, and what comes next · 3 the
models · 4 what the runs show · 5 proofs · 6 findings · 7 what is not modelled
and what is assumed.

## 1. Inventory

| component | state it keeps | operations | what is hard | what must hold | module |
|---|---|---|---|---|---|
| Processing queue (`domain/processing`) | one job per document, its text, chunks, revisions | import, claim, heartbeat, parse, save, finish, recover, retry, delete | save and finish are two transactions; a worker that lost its lease keeps working; documents are deleted under it | one holder per job, stale workers fenced off, columns agree, every job ends | `ProcessingQueue` |
| Leases and worker loop (`core/leases.py`, `workers/`) | lease columns of every job | extend, expire, notice the loss, poll | the keeper runs beside the work and learns late | a lost worker's job comes back | the queue modules |
| Operations (`domain/operations`) | attempt history | start, finish, recover, retry | follows every queue inside the same transaction | one entry per claim, closed once | `JobRows`, `ClaimLedger` |
| Ingestion (`domain/ingestion`) | jobs, runs with counters, documents | submit, claim, execute with retries, finish, recover, retry | job and run are two rows finished in two transactions; the executor knows no lease | one executor per run, right counters, final verdicts | `IngestionQueue` |
| Scheduling (`domain/sources`, `ingestion/scheduler.py`) | schedule columns of a source | enable, disable, list due, queue one | several schedulers, stale lists, arithmetic of missed times | each time queued once, none early, no drift | `IngestionSchedule` |
| Chunk queues (`domain/search`, `entities`, `events`, `claims`) | one job per chunk and model, results | queue, backfill, claim a batch, load, run the model, finish, recover, retry | chunks are replaced while their jobs run; pages are read before they are written | results belong to the claim that made them; nothing outlives its chunk | `ChunkQueue` |
| Shared names (`domain/entities`, `domain/claims`) | entities and claims many chunks mention | insert if missing, link | inserts wait for each other in circles; names grow when normalized | no name twice, no mention without its name, jobs end | `SharedNames` |
| Event clusters (`domain/events/linking.py`) | clusters, members, days | link, refresh, sweep empty clusters | concurrent linkers; owners, members and clusters change under them | organizations apart, one cluster for a day | `EventLinking` |
| Source assignment (`domain/tenancy/assignment.py`) | owner of a source | assign once; events, clusters and sessions follow | runs against linkers and research | nothing of an organization stays legacy | `EventLinking`, `ResearchSessions`, `ContentRows` |
| Blobs (`domain/blobs`, `documents/files.py`, `storage`) | files, cleanup rows | store, attach, delete, clean up | files and rows cannot commit together | no file in use is lost, no file is forgotten | `BlobLifecycle` |
| Archives (`domain/organizations/export_*`, `backup_*`) | export and backup rows, stored archives, policies | export, back up on schedule, retire, expire | running rows have no lease; files and rows cannot commit together | a backup stays stored; due policies are served | `ArchiveRuns` |
| Restores, drills (`restore_*`, `drill_*`) | restore and drill rows, staged and final files | analyse, restore, drill | three commits with files in between | files and records agree; requests end | `RestoreRuns` |
| Archive contents (`export_inventory`, `export_archive`, `archive_reader`, `restore_service`) | what an archive holds | SELECT by SELECT, insert table by table | content changes between SELECTs; ids and references are mapped | a restore is whole and apart from the original | `ArchiveContents` |
| Membership (`service.py`, `invitations.py`), investigations (`domain/investigations`) | members, invitations, collaborators, items | invite, accept, change roles, remove, share, close, save | last owner, single-use tokens, roles read before locks | an owner remains; a token works once | `Membership` |
| User administration (`domain/users/administration.py`) | accounts, system admins | create, deactivate, reactivate | two admins deactivate each other | an active admin remains | `UserAdministration` |
| Sign-in (`domain/users`) | credentials, sessions, throttles | sign in, change password, revoke, clean up | what was read before slow hashing is used after it | revoked means revoked; guesses are bounded | `SignIn` |
| API (`api/`, `domain/tenancy`) | - (the caller's rights) | guards of all routes | four kinds of rights, and authentication off | nobody reaches what the rights do not give | `ApiAccess` |
| Research (`domain/research`) | sessions, numbered turns | start, ask, delete, move | the model answers outside transactions | turns in order, evidence inside the organization | `ResearchSessions` |
| Schema (`migrations/versions`) | 59 revisions | upgrade, downgrade | rules of references written long before the services that rely on them | nothing refuses or survives a deletion by surprise | `SchemaHistory`, `ContentRows` |
| Diagnostics (`domain/diagnostics`) | reports | readiness, preflight, pilot, validation, acceptance, release | a failed query ends the transaction the next one needs | a pass is true | `DeploymentReports` |
| Audit, retention | events | record, clean up | recorded in the caller's transaction | - | - |
| Search, chunking, parsing, providers, evaluation, dashboard, web | none of their own | pure functions, queries, I/O | - | - | - |

Components talk through rows. Import writes a processing job; the save of a
processing worker replaces chunks, which deletes (by cascade) chunk jobs,
embeddings and evidence and queues new embedding jobs; an entity or claim
worker's finish inserts shared names; an event worker's finish creates events
that linkers put into clusters; the scheduler writes ingestion jobs; every claim
and every finish of an organization's job also writes `operation_attempts`;
deletions of documents feed the blob cleanup; an assignment moves events,
clusters and research sessions with the source; an archive is made of all of
their rows, and a restore makes them anew. `PROJECT.json` lists every component
with its files and every hazard at its line.

## 2. How the project is built, and what comes next

Modules of one component are written to be proved about as well as checked:
parameters are CONSTANTS with named assumptions, an operation is an action, no
module that a proof reaches declares a RECURSIVE operator. `MC...` modules only
give constants their values and compose.

**Composition.** Components that share rows are composed inside one module: the
queue modules contain `JobRows`; `ArchiveContents` extends `ContentRows`, which
extends `SchemaHistory` (archives are made of the rows of a schema);
`DeploymentReports` extends `SchemaHistory` (reports ask a schema). Components
that share no state are checked in one run as *alternatives*: a variable
`followed`, chosen at the start, says whose behaviour this is, and the others
stay in an idle state in which none of their fair steps is enabled. Such a run
(`MCIngestion`, `MCSharing`, `MCArchives`, `MCAccess`, `MCContent`) explores the
sum of the state spaces, not their product, and claims nothing about the
components together; a property of one holds trivially while another is followed.

**Abstraction.** Every action is one committed transaction, or one step a process
takes between transactions. Where several statements of one transaction can be
seen apart by others (READ COMMITTED; row locks that are waited for), they are
several actions: `EventLinking`, `SharedNames`, `Membership`,
`UserAdministration`, `SignIn`, `ResearchSessions`, `ArchiveContents`,
`DeploymentReports`, `ArchiveRuns` (retention and cleanup, which delete files
before the commit).

**Mutants.** A sentence beginning "Mutant:" marks a deliberately wrong variant that
stands just before the definition it would replace; no specification uses it.

What comes next. Every safety property that a run checks is stated by a theorem
(section 5); the liveness properties stay with TLC. Left are pure modules for rank
fusion and chunk boundaries, and the audit trail. The chunk queues have no
refinement of `ClaimLedger`, and cannot have one: the ledger removes a job only
while nobody has it, but a replacement deletes jobs that run, and leaves their
attempts open (section 6).

## 3. The models

**`JobRows`** holds the job row and its five changes (claim, extend, recover,
finish, requeue) and the attempt table. A lease is `none`, `live` or `expired`:
the code only ever compares `lease_expires_at` with now. A token is the number of
the claim that drew it, which is what a fresh UUID and a counter that never
shrinks amount to.

**`ProcessingQueue`**: `Import` is `FileImportService.import_file`; `Recover`,
`Claim`, `Finish` are the transactions of `job_repository.py`; `Parse` is
everything `DocumentProcessor.process` does without a transaction; `Save` is
`_save` with its revision, `SaveRejected` its two refusals (document gone, same
content hash in the source). `Heartbeat` is a beat of the keeper: it extends or
notices the loss; `LeaveLostJob` is `lease_lost`; `StopOnMissingJob` is the
`NotFoundError` of `_finish` that ends the loop. `Retry` and `Delete` are the
operator's and the user's transactions. `text[d]` stands for all a parse writes.

**`ClaimLedger`** says what a leased queue promises without leases, tokens or
workers: each claim gets exactly one verdict, while it is the latest claim, and
keeps it. **`ProcessingLedger`** and **`IngestionLedger`** map the rows of
`operation_attempts` of two queues to it (`VerdictsOf` in `JobRows`: the outcomes of
a job's attempts by their numbers). An ingestion job is recorded if the source of
its run has an organization; the run changes, its source does not.

**`IngestionQueue`**: `Submit` creates a pending run with its job; the executor
steps are `MarkRunning`, `StartFetch`, `SaveItem` (one transaction per item),
`EndFetch`, `MarkCompleted`, `MarkFailed`, all of which know the run but not the
job; `Finish` is the job's own transaction. `Recover` gives a job whose run has
started a new run and fails the old one.

**`IngestionSchedule`**: `Enable` and `Disable` set the columns of a source;
`List` reads the due sources once, with the clock of that moment; `Schedule` is
the transaction per source, which locks the row and checks it again with the
time of the list; `NextIngestionTime` is the arithmetic.

**`ChunkQueue`** covers embedding, entity, event and claim jobs (`kind`; claims
behave as events): `ReadPage`/`WritePage`/`PageRejected` are the backfill, which
reads without locks and writes afterwards; `Claim` takes a batch for embeddings,
one job otherwise; `Load`, `Run`, `Finish` are the worker; `Replace` is
`replace_for_document` with its cascades and the queueing of new embeddings.
`result[c]` is the claim whose output is stored.

**`SharedNames`** opens the last transaction of an entity or claim job: the job is
locked, names are inserted one by one with ON CONFLICT DO NOTHING (`Insert`, which
waits for an uncommitted row of the same name), the mentions are linked, the
transaction commits. `DeleteChunk` is a replacement whose cascade waits for the
job. `BreakCircle` is the database's deadlock detection. `Reject` is the insert of
a name that normalization made longer than its column. An error in this
transaction is not a failed job: it ends the worker's loop.

**`EventLinking`**: `ReadEvent` (event locked, owner read), `Join` (advisory lock,
candidates locked, cluster chosen, day recomputed), `Commit`;
`BeginMove`/`CommitMove` for an assignment; `BeginRemoval`/`CommitRemoval` for an
event that lost its evidence. What a transaction writes appears with its commit,
and commits wait for clusters that linkers have locked. All events share type and
title, since others never meet; a time is its UTC day.

**`BlobLifecycle`**: a request puts bytes (`Put`), commits the row (`CommitFile`),
or fails (`CommitFileFails`), or never hears the answer to its commit
(`CommitFileUnanswered`); deletion commits first and removes the file after;
cleaners hold tasks for a while (`ClaimDue`, `CleanFile`, `ForgetTask`, `TaskDue`).

**`ArchiveRuns`**: `CreateExport` and `RunBackup` commit the RUNNING row under the
unique index of the organization; `RunDue` is a step of a scheduler pass, which
takes the due policy with the earliest time and whose lock ends with that commit.
`Retire` deletes the files of old backups, `CompleteBackup` commits; `FailBackup`
and `FailExport` are the handlers. `CleanUp`/`CommitCleanUp` are the age limit.
`CutOff` ends a process anywhere in between; `SetPolicy` is the administrator. A
week is two days of the model. Administrators act in the `Managed` organizations
(`Manage`), the scheduler and the runs in all (`Unattended`). A RUNNING row that a
process left behind is looked at by nothing: downloads and retention ask for
COMPLETED rows, the cleanup for COMPLETED or FAILED ones. So `ArchivesAreKept` does not
say that every stored archive can be reached (`Reachable`). It names the two ways to
lose sight of one (an export whose deletion was refused, a run cut off after its put),
says that the second happens to an organization once at most, and counts no such
archive as the backup that stays stored.

**`RestoreRuns`**: a restore commits its RUNNING row, its records and its verdict,
and puts files to a staging place and to their final keys in between
(`BeginRestore`, `StageAssets`, `RestoreRecords`, `CommitRecords`, `Tidy`,
`Complete`); the handler (`Clear`, `Fail`) knows only the keys that a finished
step returned. A drill is a restore with a row of its own around it.

**`SchemaHistory`** is the list of the 59 revisions: for each, the operations of its
upgrade and of its downgrade in their order, on tables, later columns and
constraints, and references with their delete rule. **`ContentRows`** keeps the rows
that come from one source, one per table: services add and delete rows
(`DeleteDocument`, `ReplaceChunks`, `DeleteSource`, `AssignSource` with the rows
they delete themselves; the rest follows from the references), an operator runs
`Upgrade` and `Downgrade` with the backfills. **`ArchiveContents`** adds an
archive: `ReadTable` is one SELECT of the inventory, `ChangeContent` what others
commit between two of them, `RestoreTable` the insertion of one table with its
id mapping, into the database of the original or a fresh one.

**`Membership`**: a request locks (`CheckMember`, `CheckInvite`, `LockToRevoke`,
`LockToAccept`, `CheckCollaborator`, `CheckInvestigation`) and writes in a later
step (`ChangeMember`, `CreateInvitation`, ...); `BreakDeadlock` resolves acceptance
against revocation, which take two locks in opposite orders; the restore of
memberships (`WriteMemberships`, `CommitMemberships`) takes no lock on the
organization. **`UserAdministration`**: `LockActiveAdmins` locks and counts,
`Deactivate` decides. **`SignIn`**: `Send` (throttle asked), `Read` (hash read, then
checked for a long time), `RecordFailure`, `Rehash`, `Clear`, `CreateSession`,
each a statement of its own, for one account; `ChangePassword`, revocations,
`DeactivateUser`, limits of sessions and their cleanup run in between.
**`ApiAccess`**: one guard per set of routes, for one caller whose rights change
between requests; `reached` is what the caller got hold of, `told` whose names drew
another answer than names of nothing would have. A request names an organization, a
record and on some routes a second record: a part of the first (`Part`), or what is
to be saved in an investigation (`Reference`), which has to be of the investigation's
owner. `saved` follows one item of an investigation with the owner of its snapshot,
which is shown to whoever views or exports the investigation afterwards (`Shown`).

**`ResearchSessions`**: a turn is `Ask` (session read), `Search`, then `Number`
(session locked after the model's answer) and `Save`; a start that fails goes
through `Count` and `TakeBack`; `Assign` moves legacy sessions; `Restart` turns
authentication on or off.

**`DeploymentReports`**: a report is a list of questions asked in one session
(`AskDatabase`); a failed one aborts the transaction, so all later ones fail;
`LoseConnection` and `UpgradeAll` happen in between; the verdicts are functions of
the answers.

## 4. What the runs show

| run | what it follows | what it checks |
|---|---|---|
| `processing` | 2 workers, 2 files of one owned source, 2 texts, 2 disruptions | `RowsAgree` (columns agree after any sequence of changes, attempts mirror claims, completed documents have text, revisions are changes), `OneHolder`, `FencedOff` (a worker without its job changes neither jobs nor attempts), `ImplementsLedger`, `NobodyIsStuck` (every job settles, workers come back) |
| `ingestion_jobs` | 2 jobs of one source, 2 workers, 2 disruptions | `RunsMatchJobs` (types, completed jobs have completed runs, each document counted by exactly one run, one executor, bounded attempts), `VerdictsAreFinal` |
| `ingestion` | 1 job and 2 disruptions, or 2 schedulers with 2 sources | `SlotsAreKept` (each time of a schedule is queued once, never early, without drift), `JobsImplementLedger` (one final verdict for each claim, whatever runs the job gets), `EveryJobSettles`, `DueSourcesAreQueued` |
| `chunk_jobs` | 3 kinds, 2 workers, batches of 2, 2 documents replaced, 1 backfill, 2 disruptions | `ResultsMatchJobs` (nothing outlives its chunk, results have a succeeded claim, attempts mirror jobs), `ResultsStay`, `EveryJobSettles` |
| `sharing` | files: 2 requests, 2 cleaners, 1 document, 2 keys, 3 failures; or names: 2 extractors, 2 chunks, 3 names, 2 failures | `FilesAgree`, `TrackedFilesAreDeleted`; `NamesAreThere`, `NamedJobsEnd` |
| `event_linking` | 2 linkers, 1 assignment, 3 events, 1 failure | `OrganizationsApart`, `ClustersAreDays`, `EventsGetLinked` |
| `archives` | archives: 1 organization, 1 export, 1 fault, 1 policy change; or policies: 2 organizations, 2 days, 2 faults, 1 export; or restores: 1 restore, 2 drills, 2 files, 2 faults | `ArchivesAreKept`, `NextRunWithinPeriod`, `DuePoliciesAreServed`; `FilesFollowRecords`, `RequestsEnd` |
| `access` | members: 2 users, 2 invitations, 1 item, 4 requests; or accounts: 2 admins; or sign-ins: 2 at a time; or a caller, 2 organizations, 1 saved item | `OwnersRemain`, `InvitationsWorkOnce`, `ClosedKeepsItems`; `AnAdminRemains`; `RevocationsHold`, `GuessesAreBounded`; `RequestsStayWithinRights`, `OutsidersLearnNothing` |
| `content` | rows under migrations; or an archive with one change; or research: 2 sources, 2 sessions, 2 requests; or reports on 4 schemas | `MigrationsAreSafe`, `DocumentsGoCompletely`; `RestoresAreWhole`; `SessionsAreSound`, `TurnsStay`; `ReportsAgree` |
| `archives_starved`, `long_names`, `event_linking_mixed` | | findings 1 to 3 |

Invariants whose parts are only understood together are one named conjunction
(`RowsAgree == RowsConsistent /\ AttemptsMirrorJobs /\ ...`); each part has its
own definition and comment. Each property of a passing run has a mutant in
`PROJECT.json`: a plausible bug in one mapped definition under which TLC finds
that property violated.

Several properties name a *cause*: the code accepts a failure window (a file whose
deletion was refused, a process that ended between two commits), the model
records that this happened, and the property says that nothing else loses or
leaks anything. Such causes are history (`causes`, `overlapped`, `raced`, the field
`cause` of a row): no guard reads them, except that `ArchiveRuns` tells by `cause`
the RUNNING row of a process that ended from that of the run at work.

### Bounds

Every bound is a constant named `Max...` or, as `Managed`, `Scheduled` and the
sets of requests, a set. In the queue modules `MaxDisruptions` bounds crashes,
missed leases of workers that are alive, operator retries and failing
transactions together: every unbounded counter (claims, runs, attempts, clusters)
grows only with one of them, so it makes the models finite without a guard on the
code's own steps (`MaxMishaps` is the same for the calls of `BlobLifecycle`). Two are enough for the interesting cases: lose a lease, be
recovered, come back late; or crash twice in one job. Three failures let one file
lose its row, its deletion and its cleanup task. Two workers are enough for every
property about pairs; two documents meet in recovery batches and through the
unique content hash. Two minutes with an interval of two contain a source that is
late, due exactly now and not yet due. Three events make the smallest set with two
of one day, one without a day and one of another day (`e2` is found with or
without a day). In `archives` one day passes a daily period and a day of
retention; one fault reaches each cut-off point and each refused deletion; two
faults let a restore fail and its handler fail too. Two organizations with enabled
policies are the smallest number in which a pass has a policy before or behind
another, in either order of their times; two days let a weekly and a daily policy
come due again, and two faults strand one of them or both, or fail both. They are
followed apart from the archives (`MCArchives`), with one export in their way on
the first day. In `access` two owners
demoting each other, an acceptance against a revocation and a sign-in against a
password change take two requests each; two days of the clock begin and end a
block (a behaviour of sign-ins has a second day or a second revocation, not both: `DayOrCut`). In `content` one change between two SELECTs breaks what two would.

`ingestion_jobs` does not follow behaviours in which the second disruption has
happened and a fetch is tried again (`CONSTRAINT Explored`, safety only). `content`
leaves out four tables while migrations run (`Unmigrated`). Symmetry is used only
where the values are interchangeable and no liveness is checked: workers in
`ingestion_jobs`, sign-ins and organizations in `access`, sources, sessions, requests and
organizations in `content`.

Every cfg that sets `CHECK_DEADLOCK FALSE` says why the system may rightly stop:
jobs have ended, keys and requests are used up.

### Fairness

Weak fairness on the steps of a worker's loop, because `WorkerLoop.run` polls for
ever and a process that ended is started again by its supervisor; on the expiry
of a lease that no live worker extends, because time passes; on the steps of an
API request or command that is at work (`RunStep`, `RestoresFairness`), until it
is cut off. Schedulers have strong fairness on `Schedule`: they may be stopped in
the middle of a pass, but not every single time before they reach the source.
`RunDue` is strongly fair as well: within the package nothing but a test calls
`run_due`, so some driver is assumed that calls it again and again, while other
runs may be in the way of single passes. Cleaners and linkers are fair because
`cleanup-blobs` and `link-events` are run again and again; the documentation
names `link-events` as the repair. In `SharedNames` the database finds circles of
waiting transactions. Crashes, retries, replacements, deletions, assignments,
backfills, migrations, requests of people and answers of models never have to
happen. Safety properties need no fairness.

## 5. Proofs

`JobRowsProofs` proves once what each change does to a row (its type, its columns,
its claim count), and what `start_attempt` and `finish_attempt` do to the attempts of
a job whose attempts are numbered by its claims (`Numbered`): a start appends an open
entry to its verdicts (`StartAppends`), a finish closes the last one (`FinishCloses`),
and neither touches the verdicts of other jobs (`StartLeaves`, `FinishLeaves`).

`ProcessingQueueProofs` proves, for any sets of workers, documents and texts and any
bounds that satisfy `ConstantsAssumption`:

* `TypeCorrect`: `Spec => []TypeOK`, one lemma per kind of step.
* `RowsStayConsistent`: `Spec => []RowsConsistent`, inductive together with `TypeOK`.
* `HoldersAreUnique`: `Spec => []OneHolder`. `OneHolder` is not inductive: it says
  nothing of workers that lost their job, and a new claim could draw a token that
  one of them remembers. The strengthening `ClaimsApart` says that claims in
  workers' hands have different tokens and that none exceeds the claim count of
  its job; a document's job is never created a second time. Every step but
  `Claim` satisfies the hypotheses of one frame lemma (`ClaimsKept`), and `Claim`
  draws a number above every remembered one.
* `StaleWorkersAreFenced`: `Spec => FencedOff`, by cases on whose step it is.

It goes on, under the same assumptions, to what the queue writes beside its jobs:

* `AttemptsStayInStep`: `Spec => []AttemptsMirrorJobs`. Inductive once it also says
  that a document not yet imported has no attempts (`AttemptsInv`). Recoveries and
  finishes share one lemma (`EndingKeepsAttempts`), which rests on `FinishedRows`:
  `finish_attempt` keeps the job and the number of every row and changes the
  outcome of the open one only.
* `RowsAlwaysAgree`: `Spec => []RowsAgree`, of which the first two parts are the
  theorems above. That a completed job has a text needs to
  know where texts come from (`TextsInv`): a parse in hand is a text, a saved one is
  stored as long as its document is (`SavedHasText`; here `ClaimsApart` excludes a
  worker on a document that is imported only later), and a document without a text
  has no revisions, which is what keeps the first save from leaving an empty one.

and ends with the refinement:

* `QueueImplementsLedger`: `Spec => ImplementsLedger`. The entries of a stored job are
  numbered by its claims (`StoredNumbered`, from `AttemptsInv`), so that by the
  lemmas of `JobRowsProofs` an ending changes the last one (`EndingCloses`) and a claim
  appends one (`ClaimAppends`); each action is then an action of the ledger, or leaves
  it alone when the job has no organization.

`IngestionProofs` proves, for any workers, jobs, items and limits that satisfy the
assumptions of `IngestionQueue` and `IngestionSchedule`:

* `RunsAlwaysMatchJobs`: `Spec => []RunsMatchJobs`. `RunsInv` adds that a worker which
  holds its job knows the run of that job (`HoldersKnowRuns`), what a worker inside the
  executor may rely on though it may be stale (`OwnsRun`: a run being fetched is running
  or was failed by recovery, its attempt is the present one), and that pending runs
  were never tried. The document counts are a second, smaller invariant over it.
* `VerdictsStayFinal`: `Spec => VerdictsAreFinal`, by cases on the step, from the same
  invariant.
* `IngestionImplementsLedger`: `Spec => JobsImplementLedger`. A job keeps its source
  whatever run it asks for (`SourcesKept`), so whether it is recorded never changes.
  `LedgerInv` says that the recorded jobs, and no others, have an attempt for each of
  their claims, and that only the one a job runs under is open. With the lemmas of
  `JobRowsProofs` each step is then one of the ledger (`RecoverMaps`, `ClaimMaps`,
  `FinishMaps`, `SubmitMaps`, `RetryMaps`) or, as all that executors and keepers do,
  none: the ledger knows neither runs nor leases.
* `SlotsAlwaysKept`: `ScheduleSpec => []SlotsAreKept`. `ScheduleInv` relates the queue of
  the past to the present plan: times lie on the schedule's grid (`OnGrid`), all that
  was queued of it is before its next time (`QueuedBefore`), and the last of it is why
  the next time is what it is (`LastQueued`).

`ChunkQueueProofs` proves, for any workers and chunks, any batch size and each kind
of job (claim jobs work like event jobs):

* `ResultsAlwaysMatchJobs`: `Spec => []ResultsMatchJobs`. `ChunkInv` is about each chunk
  by itself (`ChunkSound`) and about what a worker concluded when it loaded its chunks
  (`WorkersKnow`): an embedding that needed no work is there, or its chunk is gone.
* `ResultsAlwaysStay`: `Spec => ResultsStay`. Results and completed jobs change only in
  steps that finish, requeue or replace; a stale worker's finish changes nothing.

`SharingProofs` proves, for any keys, documents, requests and cleaners, and for any
extractors, chunks and texts:

* `FilesAlwaysAgree`: `BlobSpec => []FilesAgree`, where loss is bounded by the number of
  failures. `BlobInv` says of each key what its file, its task and those who work on it
  may be (`KeySound`, `RequestSound`, `CleanersSound`), and charges losses: documents at
  risk are at most the unanswered commits, lost files at most the disruptions. That a
  step adds at most one to each (`Charged`) is proved action by action.
* `NamesAreAlwaysThere`: `NamesSpec => []NamesAreThere`. Names are inserted one at a time
  by several transactions. `NamesInv` adds that no two of them have inserted the same
  name (`NobodyInsertsTwice`), that all names before the one a transaction is at are
  stored or its own (`HandSound`), and that mentions of a chunk are all of its names
  or none (`MentionsSound`).

and, for any sets of linkers, sources, events and organizations that satisfy
`ConstantsAssumption` of `EventLinking`, and any bound on failures:

* `LinkingTypeCorrect`: `Spec => []TypeOK`, which includes that memberships point
  to stored events and clusters.
* `OrganizationsStayApart`: `Spec => []OrganizationsApart`. A linker reads the owner
  of its event long before it commits, so the property alone is not inductive.
  The strengthening `IInv` adds why that is harmless: a source that has an
  organization keeps it (`MovesAreLegacy`), so what a linker read of an owned
  source stays true (`LinkersKnowOwners`); the cluster it joins is a number nobody
  else has (`NumbersAreNew`) or a row it holds locked (`JoinedStays`). That a next
  number exists at all needs the numbers to be bounded (`Bounded`) and the lemmas
  `Least` and `Greatest`, which follow from the well-foundedness of `<` on the
  natural numbers. The advisory lock is not used: without it there may be two
  clusters for one day, but not one cluster for two organizations.
* `ClustersStayDays`: `Spec => []ClustersAreDays`. Here the lock is what matters. A
  cluster may gain its day later, so `DaysInv` says more than the property: members
  have the day of their cluster or none (`MembersAgree`), a cluster without a day is
  the oldest of its organization (`UndatedIsOldest`), a linker that has chosen holds
  the lock of its organization and what it chose still fits (`AllJoinedFit`), and an
  assignment at work writes the days of legacy clusters only (`MovesOfLegacy`).

`AccessProofs` is about people and what they may do. For any finite
set of users, any requests and invitations (`MembershipAssumption`):

* `OwnersAlwaysRemain`: `Spec => []OwnersRemain`;
  `InvitationsAlwaysWorkOnce`: `Spec => []InvitationsWorkOnce`;
  `ClosedAlwaysKeepsItems`: `Spec => ClosedKeepsItems`. A request checks and commits in
  different steps, so none of the three is inductive. `MembersInv` adds that what a
  request checked is still so as long as it holds the lock it checked under
  (`ChecksHold`), that the lock has one holder (`OneAtATime`), and that a restore at
  work has an owner in its plan (`RestoreKnows`). `Checked` of a change of members has the
  exception the code has: a restore of memberships takes no lock (`raced`).

For any sets of accounts and admins that satisfy `UsersAssumption`:

* `AdminsRemain`: `AdminSpec => []AnAdminRemains`. Each request counts admins
  first and deactivates later, so `AnAdminRemains` needs `CountsHold`: the rows a
  request has locked are rows of admins that are still active, because nobody else
  can deactivate them.

For any finite set of sign-ins and any settings that satisfy `SignInAssumption`:

* `RevocationsAlwaysHold`: `SignInSpec => []RevocationsHold`. A sign-in opens a session
  from what it read before the slow check, so the property needs `ReadsWereTrue`: the
  password a sign-in found right is still the last one chosen, or a revocation came
  since, or a rehash has undone the change.
* `GuessesStayBounded`: `SignInSpec => []GuessesAreBounded`. The bound is not inductive:
  `GuessesInv` adds that at the limit the address stays blocked until its window is
  over, so that only sign-ins that are already being checked can still be counted,
  and each failure takes one of them away (`FailureKeepsGuesses`).

For any set of organizations, which only has to leave out the three names that stand
for no organization, an unknown one and none given (`OrganizationsAssumption`):

* `RequestsAlwaysStayWithinRights`: `AccessSpec => []RequestsStayWithinRights`, and
  `OutsidersNeverLearn`: `AccessSpec => []OutsidersLearnNothing`. The table of routes is
  finite and fixed; the lemmas reduce each route to what it demands of its caller and
  say, guard by guard, what a guard that answers yes has checked. What is saved is
  shown to later requests, so the first needs `AccessInv`: an item that was saved with
  authentication is its investigation's owner's own (`SavedSound`), which is what
  `Reference` checks. For the second, `RequestsTellNothing` says of every request that
  whoever its answer depends on is no outsider, and changes of the caller forget it
  (`StepTelling`).

`ArchivesProofs` proves, for any sets of restores, drills and assets that satisfy
`RestoreAssumption` and any number of faults:

* `FilesAlwaysFollow`: `RestoresSpec => []FilesFollowRecords`. The property speaks of
  requests that are over; `FilesInv` says at each place on the way there what of a
  request's files is stored and whose keys its error handler knows (`Placed`,
  `Held`). One request's steps leave the files of the others alone
  (`OthersUntouched`), which needs that `Others`, the files of other records, is no
  request.

and for any finite set of organizations and any settings and bounds that satisfy
`ArchiveAssumption`:

* `NextRunsAreWithinPeriod`: `Spec => []NextRunWithinPeriod`. What a backup writes last
  was read first: `PeriodInv` adds that, unless the policy changed meanwhile, a backup
  at work has its policy's frequency and has not finished in the future.
* `ArchivesAreAlwaysKept`: `Spec => []ArchivesAreKept`. `TablesSound` says of every row
  whether its archive is stored and why it may not be (`RowSound`), that an
  organization has at most one running row, and that a run at work has that row, with
  its own archive stored before retention deletes older ones (`AtWork`). Rows are
  deleted from the middle of a table, so the lemmas about the filter (`OnlyChosenRemain`)
  say where each row that is left comes from. TLC checked `TablesSound` before it was
  proved, on three million states.

`ContentProofs` proves, for any set of followed tables that contains what its rows
need (`StoredAssumption`):

* `MigrationsStaySafe`: `ContentSpec => []MigrationsAreSafe`, whatever upgrades,
  downgrades, deletions and assignments follow each other. The theorem is about any
  path through the 59 revisions; what each single revision does is a closed formula
  about the list of `SchemaHistory` (`RevisionsAssumption`, `SchemasAssumption`), which
  TLC evaluates on every run over it. `ContentInv` adds that the schema is one the
  number of applied revisions allows (`SchemaSound`), that rows refer to rows and come
  with their companions (`RowsSound`), and that an organization is noted only in a
  column that is there (`OwnedSound`).
* `DocumentsGo`: `ContentSpec => DocumentsGoCompletely`. What goes with a document is a
  closure, and a closure is the least closed set: that its search, which takes as many
  steps as there are tables with references, reaches all is an argument by counting
  (each step that adds something adds one of those tables). Which rules the references
  to documents have is `DocumentsAssumption`, again evaluated by TLC.

for any number of changes that others commit meanwhile (`ArchiveAssumption`,
`ReferencesAssumption`):

* `RestoresStayWhole`: `ArchiveSpec => []RestoresAreWhole`. `ArchiveInv` says, of content
  that nobody has changed since the first SELECT, that the archive is what was read so
  far and the target what was restored so far, so that a restore finds every parent
  it looks up: the tables of `ArchivedReferences` come in the order they need.

for any sources, sessions and requests (`ResearchAssumption`):

* `SessionsStaySound`: `ResearchSpec => []SessionsAreSound`; `TurnsAreKept`: `ResearchSpec =>
  TurnsStay`. A turn is read, answered and saved in three transactions. `ResearchInv`
  keeps for each request why its answer may still be saved (`RequestSound`: its scope
  is that of the session, or the session was moved and the request finds nothing any
  more), that a session being numbered is locked by one request (`LocksApart`), and
  that the numbers of a session are 1 to how many turns it has (`InOrder`).

and for any organizations and set of settings (`ReportsAssumption`,
`TablesAssumption`):

* `ReportsAlwaysAgree`: `ReportsSpec => []ReportsAgree`. The deployment changes while a
  report asks. `ReportsInv` says of each answer given so far that it is still true
  (`AnswerTrue`), because a schema is only upgraded while reports are made; that a
  failed question shows in the report (`FailuresShow`); and that a cleared deployment
  is current and answers every question well.

**Assumptions on constants.** Those named above are of two kinds. The ones about sets
and bounds say that sentinels are no members and that limits are numbers. The four
about the schema (`RevisionsAssumption`, `SchemasAssumption`, `DocumentsAssumption`,
`ReferencesAssumption`) and `TablesAssumption` mention no parameter: they are facts
about the list of revisions in `SchemaHistory`, each about one or two revisions or
references at a time, and TLC finds them true when it starts the run `content`. What
the theorems add is every path through them and every interleaving around them.

**Only model-checked.** Every safety invariant and action property of a passing run
is stated by a theorem. The nine liveness properties are not, because fairness and
ENABLED are out of the prover's reach: `NobodyIsStuck`, `EveryJobSettles` (of
`IngestionQueue` and of `ChunkQueue`), `DueSourcesAreQueued`, `TrackedFilesAreDeleted`,
`NamedJobsEnd`, `EventsGetLinked`, `DuePoliciesAreServed` and `RequestsEnd`. The facts
about single revisions are evaluated and not proved, as said above.

## 6. Findings

1. *A stranded backup starves all organizations behind it.*
   `obsidian/02 Current State.md:168-171` says that unrelated organizations remain
   available. A process that ends during a backup leaves a RUNNING row without a
   lease and a policy that is still due; the next pass of the scheduler meets that
   policy first, and its ConflictError ends the pass
   (`domain/organizations/backup_scheduler.py:81`). Run `archives_starved`;
   `DuePoliciesAreServed` shows that nothing else delays a due policy for ever.
2. *A job whose name is too long ends the loop of every worker.*
   `workers/runner.py:20-22` says a failed job does not. Names are checked before
   they are normalized, and normalization can make them longer than the column
   (`domain/entities/worker.py:204`). Run `long_names`; `NamedJobsEnd` shows that the
   other jobs still end.
3. *An organization's event can end in a legacy cluster.*
   `obsidian/07 Decisions.md:144-146`; a linker reads the owner before an assignment
   commits and commits after it (`domain/events/linking.py:124`). Run
   `event_linking_mixed`; `OrganizationsApart` shows that the clusters of
   organizations are not affected.

Seen in the models and stated there as they are, without a run of their own:

* a worker that lost its lease still saves (`processing/processor.py:111`, against
  `obsidian/05 Workers and Queues.md:37-38`); `RowsAgree` shows that what it saves is
  consistent. A document deleted under its job ends the worker's loop
  (`processing/job_repository.py:210`);
* a stale worker may start a run that recovery kept as pending, which then runs for
  ever (`ingestion/recovery.py:29`), and keeps counting on a run already failed;
* attempts of running chunk jobs that a replacement deletes stay open
  (`documents/chunk_repository.py:99`, against `obsidian/05 ...:24-26`), and an
  embedding or entity job that was retried and completed is done again by a backfill
  that read it failed (`search/embedding_queue.py:143`; `ResultsStay` is therefore
  stated for event and claim jobs in this point);
* an assignment that recomputes the day of a legacy cluster while a linker adds a
  dated event leaves the cluster without a day (`tenancy/assignment.py:96`;
  `ClustersAreDays` speaks of the clusters of organizations);
* a policy changed under a running backup is overwritten by the frequency the
  backup read (`backup_service.py:104`); a restore whose last commit fails deletes
  the files of records already committed (`restore_service.py:132`);
* investigation items are restored before the research sessions they may name, so
  those references stay raw (against `obsidian/02 Current State.md:103-104`);
* a restore of memberships takes no lock on the organization and can take its last
  owner; acceptance and revocation of one invitation deadlock
  (`organizations/invitations.py:159, 197`);
* a sign-in that read its hash before a password change or a deactivation still
  gets its session, and may put the old hash back when settings had changed too
  (`users/authentication.py:203-205`);
* a start of research that fails counts turns without a lock and can delete turns
  that others asked meanwhile; sessions made with authentication off have no owner;
* downgrading `align_operation_attempt_columns` fails when an error is longer than
  500 characters; the vector extension stays after all downgrades;
* diagnostics call a database healthy whose version could not be read
  (`diagnostics/deployment.py:48`); a release candidate's deployment profile accepts
  the backup of any organization; bytes are stored before rows, not after
  (`documents/files.py:91`, against `obsidian/01 Architecture.md:21-23`).

## 7. Not modelled, and assumed

* Audit and retention (events recorded in the transaction of what they describe,
  one bounded DELETE). Parsers, adapters, providers, search, chunking, evaluation,
  dashboard, web application: pure functions, queries and I/O; their outcomes enter
  the models as choices.
* The ZIP format of archives, hashes and limits of the reader, and the mapping of
  users: verification can refuse (`Analyse`, `Refuse`), that is all.
* The `ingest-source` command, whose runs have no job, is left out of
  `IngestionQueue`, as is the deletion of documents there. The order of locks of
  embedding batches against replacements is left out of `ChunkQueue`; that of
  entity and claim jobs is in `SharedNames`.
* `ApiAccess` follows no items that were saved while authentication was off: any
  record could be saved then, and the code does not check the snapshots again when
  authentication is switched on. The owners of records do not change there.
* Canonical titles of clusters; what a snapshot of an investigation item holds; tokens, hashes
  and cookies of sessions; lists and other reads, except who may make them.
* `DeploymentReports` leaves out the evaluation reports and asset checks of a release
  and the warnings about build metadata.
* PostgreSQL is taken at its word: READ COMMITTED, row locks, unique indexes,
  cascades. Deadlocks are modelled where the code can make a circle
  (`SharedNames`, `Membership`); elsewhere they appear as failing transactions
  (`LinkFails`, `MoveFails`, `PageRejected`).
* Leases are untimed: clocks of different machines are not compared.
* What each of the components composed as alternatives does to the rows of another
  is modelled on one side only: a restore's records are one set for `RestoreRuns`
  and rows for `ArchiveContents`, its memberships are in `Membership`.
