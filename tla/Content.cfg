\* The numbers of turns, changes and restarts are bounded, and an archive is
\* restored once.
CHECK_DEADLOCK FALSE
SPECIFICATION Spec
CONSTANTS
    Stored <- StoredTables
    MaxChanges = 1
    Sources = {s1, s2}
    Sessions = {r1, r2}
    Requests = {p1, p2}
    MaxTurns = 2
    MaxSwitches = 1
    Starts <- KnownSchemas
    Organizations = {o1, o2}
    Histories <- KnownHistories
    Profiles <- FullProfile
    DeploymentProfiles <- FullDeployment
    MaxOutages = 1
SYMMETRY Interchangeable
INVARIANTS
    MigrationsAreSafe
    RestoresAreWhole
    SessionsAreSound
    ReportsAgree
PROPERTIES
    DocumentsGoCompletely
    TurnsStay
