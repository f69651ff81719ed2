------------------------------ MODULE ArchiveRuns ------------------------------
(***************************************************************************)
(* Organization exports, scheduled and manual backups, backup retention    *)
(* and the cleanup of old archives (domain/organizations: export_service,  *)
(* backup_service, backup_administration, backup_scheduler,                *)
(* export_cleanup).  A run commits a RUNNING row, builds and stores an     *)
(* archive, and commits the verdict: the row and the stored file live in   *)
(* two systems, and every step between them can fail or be cut off.        *)
(***************************************************************************)
EXTENDS Integers, Sequences, FiniteSets, FiniteSetsExt

CONSTANTS Organizations,  \* ids, numbers: the scheduler orders policies by them
          Managed,        \* bound: those where administrators and cleanups act
          Retentions,     \* the retention counts an administrator may set
          RetentionDays,  \* days an archive is kept before the cleanup takes it
          MaxTime,        \* bound: days the clock runs
          MaxExports,     \* bound: rows of manual exports at a time
          MaxFaults,      \* bound: cut-off steps and refused deletions
          MaxChanges      \* bound: policy changes

ASSUME ArchiveAssumption ==
    /\ Organizations \subseteq Nat /\ IsFiniteSet(Organizations)
    /\ Managed \subseteq Organizations
    /\ Retentions \subseteq Nat \ {0}
    /\ {RetentionDays, MaxTime, MaxExports, MaxFaults, MaxChanges} \subseteq Nat

Frequencies == {"daily", "weekly"}

Days(frequency) == IF frequency = "daily" THEN 1 ELSE 2  \* a week is 2 units here
Never == -1  \* next_run_at IS NULL

\* A row of organization_exports with its archive is [kind, status, finished]
\* with key, whether artifact_key is set; stored, whether the blob is there;
\* held, who has deleted the blob and not committed yet; and cause, what went
\* wrong (history, for the properties).

Idle == [at |-> "idle"]

VARIABLES rows,       \* Organizations -> rows in the order of their creation
          policies,   \* Organizations -> organization_backup_policies
          work,       \* Organizations -> the run at work (the index admits one)
          now, faults, changes,
          overlapped  \* history: organizations whose policy changed under a backup

vars == <<rows, policies, work, now, faults, changes, overlapped>>

Exporting == {"export building", "export stored"}
BackingUp == {"backup building", "backup stored", "backup retired", "backup failing"}

\* The rows of these numbers, in the same order: the n-th has n of them up to it.
Only(table, numbers) ==
    [n \in 1..Cardinality(numbers) |->
        table[CHOOSE i \in numbers : Cardinality({j \in numbers : j <= i}) = n]]

\* The row of the run at work, and the table without it.
Own(o) == CHOOSE i \in DOMAIN rows[o] :
              rows[o][i].status = "running" /\ rows[o][i].cause # "cut off"
WithoutOwn(o) == Only(rows[o], DOMAIN rows[o] \ {Own(o)})
OwnRow(o) == rows[o][Own(o)]

\* An organization without a policy, and one where an administrator enabled one.
NoPolicy == [enabled |-> FALSE, frequency |-> "daily", retention |-> Max(Retentions),
             next |-> Never]
EnabledPolicy(f) == [enabled |-> TRUE, frequency |-> f, retention |-> Max(Retentions),
                     next |-> 0]

Init ==
    /\ rows = [o \in Organizations |-> <<>>]
    /\ policies \in [Organizations -> {NoPolicy} \cup {EnabledPolicy(f) : f \in Frequencies}]
    /\ work = [o \in Organizations |-> Idle]
    /\ now = 0 /\ faults = 0 /\ changes = 0
    /\ overlapped = {}

--------------------------------------------------------------------------------
(* Starting: the RUNNING row is committed under the partial unique index    *)
(* on the organization; a second run gets ConflictError and changes nothing *)

NewRow(kind) == [kind |-> kind, status |-> "running", key |-> TRUE, finished |-> 0,
                 stored |-> FALSE, held |-> {}, cause |-> "none"]

Blocked(o) == \E i \in DOMAIN rows[o] : rows[o][i].status = "running"

Begin(o, kind, run) ==
    /\ ~Blocked(o)
    /\ rows' = [rows EXCEPT ![o] = Append(@, NewRow(kind))]
    /\ work' = [work EXCEPT ![o] = run]
    /\ UNCHANGED <<policies, now, faults, changes, overlapped>>

Exports(o) == {i \in DOMAIN rows[o] : rows[o][i].kind = "export"}

CreateExport(o) ==
    /\ MapThenSumSet(LAMBDA u : Cardinality(Exports(u)), Organizations) < MaxExports
    /\ Begin(o, "export", [at |-> "export building"])

\* The service keeps the policy object it read: frequency and retention
\* are the ones of the start of the run.
RunBackup(o) ==
    Begin(o, "backup", [at |-> "backup building", finished |-> 0,
                        frequency |-> policies[o].frequency,
                        retention |-> policies[o].retention])

\* Retention's first query flushes the new next_run_at, which locks the
\* policy row until the backup's last commit.
PolicyLocked(o) == work[o].at = "backup retired"

Due(o) == /\ policies[o].enabled
          /\ policies[o].next <= now    \* Never sorts first and is always due

Ready(o) == Due(o) /\ ~PolicyLocked(o)

\* The policy a pass locks: the earliest next_run_at, then the lowest id.
First(o) ==
    /\ Ready(o)
    /\ \A u \in Organizations \ {o} : Ready(u) =>
          \/ policies[o].next < policies[u].next
          \/ policies[o].next = policies[u].next /\ o < u

\* One step of a scheduler pass.  Its lock on the policy ends with the commit
\* of the RUNNING row; when that commit conflicts the pass itself ends, so
\* later policies wait too.
RunDue == \E o \in Organizations : First(o) /\ RunBackup(o)

--------------------------------------------------------------------------------
(* Exports *)

StoreExport(o) ==
    /\ work[o].at = "export building"
    /\ rows' = [rows EXCEPT ![o][Own(o)].stored = TRUE]
    /\ work' = [work EXCEPT ![o].at = "export stored"]
    /\ UNCHANGED <<policies, now, faults, changes, overlapped>>

CompleteExport(o) ==
    /\ work[o].at = "export stored"
    /\ rows' = [rows EXCEPT ![o][Own(o)].status = "completed",
                            ![o][Own(o)].finished = now]
    /\ work' = [work EXCEPT ![o] = Idle]
    /\ UNCHANGED <<policies, now, faults, changes, overlapped>>

\* The failure handler deletes its own archive, and nobody reads the row any
\* more; or the deletion is refused, which is suppressed.
FailOwn(o, row) ==
    \/ /\ rows' = [rows EXCEPT ![o] = WithoutOwn(o)]
       /\ UNCHANGED faults
    \/ /\ row.stored /\ faults < MaxFaults
       /\ rows' = [rows EXCEPT ![o][Own(o)] = [row EXCEPT !.cause = "refused"]]
       /\ faults' = faults + 1

\* Any exception after the RUNNING commit: building, storing, committing.
FailExport(o) ==
    /\ work[o].at \in Exporting
    /\ FailOwn(o, [OwnRow(o) EXCEPT !.status = "failed", !.finished = now, !.key = FALSE])
    /\ work' = [work EXCEPT ![o] = Idle]
    /\ UNCHANGED <<policies, now, changes, overlapped>>

--------------------------------------------------------------------------------
(* Backups *)

\* Built, verified and stored; finished_at is read before retention runs.
StoreBackup(o) ==
    /\ work[o].at = "backup building"
    /\ rows' = [rows EXCEPT ![o][Own(o)].stored = TRUE]
    /\ work' = [work EXCEPT ![o].at = "backup stored", ![o].finished = now]
    /\ UNCHANGED <<policies, now, faults, changes, overlapped>>

Shelf(o) == {i \in DOMAIN rows[o] :
                rows[o][i].kind = "backup" /\ rows[o][i].status = "completed"}

\* What retention expires: all but the newest retention_count - 1 backups
\* besides its own; backups that finished together are taken in any order.
Expiring(o) ==
    {old \in SUBSET Shelf(o) :
        /\ Cardinality(old) = Max({Cardinality(Shelf(o)) - (work[o].retention - 1), 0})
        /\ \A i \in old, j \in Shelf(o) \ old : rows[o][i].finished <= rows[o][j].finished}

\* The table while a step holds these rows: the archives they name are deleted.
Taken(table, numbers, by) ==
    [i \in DOMAIN table |->
        IF i \in numbers
        THEN [table[i] EXCEPT !.stored = @ /\ ~table[i].key, !.held = @ \cup {by}]
        ELSE table[i]]

\* Mutant: retention makes room before the new archive is stored.
RetireFirst(o) ==
    /\ work[o].at = "backup building"
    /\ \E old \in Expiring(o) :
          rows' = [rows EXCEPT ![o] = Taken(@, old, "retention")]
    /\ work' = [work EXCEPT ![o].at = "backup retired"]
    /\ UNCHANGED <<policies, now, faults, changes, overlapped>>

\* Retention deletes the archives; their rows change with the commit only.
Retire(o) ==
    /\ work[o].at = "backup stored"
    /\ \E old \in Expiring(o) :
          rows' = [rows EXCEPT ![o] = Taken(@, old, "retention")]
    /\ work' = [work EXCEPT ![o].at = "backup retired"]
    /\ UNCHANGED <<policies, now, faults, changes, overlapped>>

\* A refused deletion leaves the ones before it done and fails the run.
RetireFails(o) ==
    /\ work[o].at = "backup stored" /\ faults < MaxFaults
    /\ faults' = faults + 1
    /\ \E old \in Expiring(o) : \E gone \in (SUBSET old) \ {old} :
          /\ \A i \in gone, j \in old \ gone :  \* the newest of them first
                rows[o][i].finished >= rows[o][j].finished
          /\ rows' = [rows EXCEPT ![o] = [i \in DOMAIN @ |->
                      IF i \in gone
                      THEN [@[i] EXCEPT !.stored = FALSE, !.cause = "retention lost"]
                      ELSE @[i]]]
    /\ work' = [work EXCEPT ![o].at = "backup failing"]
    /\ UNCHANGED <<policies, now, changes, overlapped>>

\* The table once the rows that a step holds expire.
Expired(table, by) ==
    [i \in DOMAIN table |->
        IF by \in table[i].held
        THEN [table[i] EXCEPT !.status = "expired", !.key = FALSE, !.held = @ \ {by}]
        ELSE table[i]]

\* No step reads a row any more, and it is forgotten here, once it is EXPIRED or
\* FAILED and its archive gone: these are the rows that by does not hold so.
Left(o, by) == {i \in DOMAIN rows[o] : rows[o][i].held # {by} \/ rows[o][i].stored}

CompleteBackup(o) ==
    /\ work[o].at = "backup retired"
    /\ \A i \in DOMAIN rows[o] :  \* its UPDATE waits for the cleanup
          rows[o][i].held # {"retention", "cleanup"}
    /\ rows' = [rows EXCEPT ![o] =
           Only(Expired([@ EXCEPT ![Own(o)].status = "completed",
                                  ![Own(o)].finished = work[o].finished], "retention"),
                Left(o, "retention"))]
    /\ policies' = [policies EXCEPT ![o].next = work[o].finished + Days(work[o].frequency)]
    /\ work' = [work EXCEPT ![o] = Idle]
    /\ UNCHANGED <<now, faults, changes, overlapped>>

\* Mutant: a failed backup stays due.
FailBackupStaysDue(o) ==
    /\ work[o].at \in BackingUp \ {"backup retired"}
    /\ FailOwn(o, [OwnRow(o) EXCEPT !.status = "failed", !.finished = now])
    /\ work' = [work EXCEPT ![o] = Idle]
    /\ UNCHANGED <<policies, now, changes, overlapped>>

\* The handler reads the policy again, so a failure follows the current one;
\* the artifact key of a failed backup stays on its row.
FailBackup(o) ==
    /\ work[o].at \in BackingUp \ {"backup retired"}
    /\ FailOwn(o, [OwnRow(o) EXCEPT !.status = "failed", !.finished = now])
    /\ policies' = [policies EXCEPT ![o].next = now + Days(policies[o].frequency)]
    /\ work' = [work EXCEPT ![o] = Idle]
    /\ UNCHANGED <<now, changes, overlapped>>

--------------------------------------------------------------------------------
(* Cleanup, policies, faults *)

Old(o) == {i \in DOMAIN rows[o] :
              /\ rows[o][i].status \in {"completed", "failed"}
              /\ rows[o][i].finished + RetentionDays <= now
              /\ "cleanup" \notin rows[o][i].held}

\* Rows are locked and their archives deleted one after the other; the rows
\* change with the commit only.  FAILED exports have no key: their archive,
\* if its deletion was refused, stays.
CleanUp(o) ==
    /\ Old(o) # {}
    /\ rows' = [rows EXCEPT ![o] = Taken(@, Old(o), "cleanup")]
    /\ UNCHANGED <<policies, work, now, faults, changes, overlapped>>

CommitCleanUp(o) ==
    /\ \E i \in DOMAIN rows[o] : "cleanup" \in rows[o][i].held
    /\ rows' = [rows EXCEPT ![o] = Only(Expired(@, "cleanup"), Left(o, "cleanup"))]
    /\ UNCHANGED <<policies, work, now, faults, changes, overlapped>>

\* Mutant: a changed frequency keeps the old due time.
ChangedPolicyKeepsTime(o, enabled, frequency, retention) ==
    [enabled |-> enabled, frequency |-> frequency, retention |-> retention,
     next |-> IF ~enabled THEN Never
              ELSE IF policies[o].next = Never THEN now ELSE policies[o].next]

\* The policy an administrator's call writes.
ChangedPolicy(o, enabled, frequency, retention) ==
    [enabled |-> enabled, frequency |-> frequency, retention |-> retention,
     next |-> IF ~enabled THEN Never
              ELSE IF \/ ~policies[o].enabled
                      \/ policies[o].frequency # frequency
                      \/ policies[o].next = Never
                   THEN now ELSE policies[o].next]

SetPolicy(o, enabled, frequency, retention) ==
    /\ changes < MaxChanges
    /\ ~PolicyLocked(o)
    /\ changes' = changes + 1
    /\ policies' = [policies EXCEPT ![o] =
           ChangedPolicy(o, enabled, frequency, retention)]
    /\ overlapped' = overlapped \cup {u \in {o} : work[u].at \in BackingUp}
    /\ UNCHANGED <<rows, work, now, faults>>

\* Rows that a cut-off step held are free again, their archives gone.
Released(table, by, cause) ==
    [i \in DOMAIN table |->
        IF by \in table[i].held
        THEN [table[i] EXCEPT !.held = @ \ {by},
                              !.cause = IF table[i].stored THEN @ ELSE cause]
        ELSE table[i]]

\* The process of a run ends, or its last commit is refused: nothing of the
\* transaction stays, the deletions and the stored archive do.
CutOff(o) ==
    /\ work[o] # Idle /\ faults < MaxFaults
    /\ faults' = faults + 1
    /\ work' = [work EXCEPT ![o] = Idle]
    /\ rows' = [rows EXCEPT ![o] =
           Released([@ EXCEPT ![Own(o)].cause = "cut off"], "retention", "retention lost")]
    /\ UNCHANGED <<policies, now, changes, overlapped>>

CutOffCleanUp(o) ==
    /\ \E i \in DOMAIN rows[o] : "cleanup" \in rows[o][i].held
    /\ faults < MaxFaults
    /\ faults' = faults + 1
    /\ rows' = [rows EXCEPT ![o] =
           Only(Released(@, "cleanup", "cleanup lost"),
                {i \in DOMAIN @ : @[i].status = "failed" => i \in Left(o, "cleanup")})]
    /\ UNCHANGED <<policies, work, now, changes, overlapped>>

Tick ==
    /\ now < MaxTime
    /\ now' = now + 1
    /\ UNCHANGED <<rows, policies, work, faults, changes, overlapped>>

RunStep(o) ==
    \/ StoreExport(o) \/ CompleteExport(o) \/ FailExport(o)
    \/ StoreBackup(o) \/ Retire(o) \/ RetireFails(o)
    \/ CompleteBackup(o) \/ FailBackup(o)

\* What administrators ask for, by the API or a command.
Manage(o) ==
    \/ CreateExport(o) \/ RunBackup(o) \/ CleanUp(o)
    \/ \E e \in BOOLEAN, f \in Frequencies, n \in Retentions : SetPolicy(o, e, f, n)

\* What goes on by itself.
Unattended ==
    \/ RunDue \/ Tick
    \/ \E o \in Organizations :
          RunStep(o) \/ CutOff(o) \/ CommitCleanUp(o) \/ CutOffCleanUp(o)

Next == Unattended \/ \E o \in Managed : Manage(o)

Spec == Init /\ [][Next]_vars

\* A process ends what it started unless it is cut off, and the driver of
\* run_due keeps calling it: a pass that could start a backup again and again
\* does so once (strong fairness, since runs of other processes can be in the
\* way of single passes).
Fairness ==
    /\ \A o \in Organizations : WF_vars(RunStep(o)) /\ WF_vars(CommitCleanUp(o))
    /\ SF_vars(RunDue)

FairSpec == Spec /\ Fairness

--------------------------------------------------------------------------------
(* Properties *)

\* Somebody will still see to this row's archive: the run at work on it, or a
\* download, the retention or the cleanup, none of which looks at RUNNING rows.
Reachable(row) ==
    \/ row.status = "running" /\ row.cause # "cut off"
    \/ row.status \in {"completed", "failed"} /\ row.key

\* Two faults leave an archive that nobody sees to any more: the deletion in
\* the failure handler of an export is refused, or a run is cut off after its
\* put. The RUNNING row of the second stays the only one of its organization,
\* which therefore loses sight of one archive in this way and no more.
ArchivesAreReachable ==
    \A o \in Organizations : \A i \in DOMAIN rows[o] :
        LET row == rows[o][i]
        IN row.stored /\ ~Reachable(row) =>
              \/ row.kind = "export" /\ row.cause = "refused"
              \/ /\ row.status = "running" /\ row.cause = "cut off"
                 /\ \A j \in DOMAIN rows[o] : rows[o][j].status = "running" => j = i

\* An enabled policy is due within one period of its own frequency. A backup
\* writes next_run_at from the frequency it read when it began, so only a
\* policy changed under a running backup can be due later (backup_service 104).
NextRunWithinPeriod ==
    \A o \in Organizations \ overlapped : policies[o].enabled =>
        policies[o].next <= now + Days(policies[o].frequency)

\* An organization that has completed a backup keeps one that is stored and
\* completed, or about to be by the run that holds it: a new archive is stored
\* before retention deletes an old one. Only the age limit of the cleanup takes
\* the last, or a fault that the rows do not show: deletions by retention or by
\* the cleanup whose commit never came.
ABackupStaysStored ==
    \A o \in Organizations :
        \/ \E i \in DOMAIN rows[o] :
              /\ rows[o][i].kind = "backup" /\ rows[o][i].stored
              /\ Reachable(rows[o][i]) /\ rows[o][i].status # "failed"
        \/ \A i \in Shelf(o) : "cleanup" \in rows[o][i].held
                              \/ rows[o][i].cause \in {"retention lost", "cleanup lost"}

\* Nothing stored is forgotten but for named faults, and something stays stored.
ArchivesAreKept == ArchivesAreReachable /\ ABackupStaysStored

Stranded(o) == \E i \in DOMAIN rows[o] :
                  rows[o][i].status = "running" /\ rows[o][i].cause = "cut off"

\* A due policy is served, whatever fails in its own and in other
\* organizations, unless some due policy is blocked by a stranded row: the
\* pass that meets that policy first ends with its conflict.
DuePoliciesAreServed ==
    \A o \in Organizations :
        Due(o) ~> ~Due(o) \/ \E u \in Organizations : Due(u) /\ Stranded(u)

\* "Unrelated organizations remain available": a stranded row delays only the
\* backups of its own organization.
UnrelatedPoliciesAreServed ==
    \A o \in Organizations : Due(o) ~> ~Due(o) \/ Stranded(o)
================================================================================
