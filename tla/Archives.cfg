\* An organization blocked by a stranded row stops for good, and every restore
\* is over in the end.
CHECK_DEADLOCK FALSE
SPECIFICATION Alone
CONSTANTS
    Organizations <- MCOrganizations
    Managed = {1}
    Retentions <- MCRetentions
    RetentionDays = 1
    MaxTime = 2
    MaxExports = 1
    MaxFaults = 2
    MaxChanges = 1
    Requests = {r1, d1, d2}
    Drills = {d1, d2}
    Assets = {a1, a2}
    MaxRestoreFaults = 2
INVARIANTS
    ArchivesAreKept
    NextRunWithinPeriod
    FilesFollowRecords
PROPERTIES
    DuePoliciesAreServed
    RequestsEnd
