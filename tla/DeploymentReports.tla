--------------------------- MODULE DeploymentReports ---------------------------
(***************************************************************************)
(* The reports that say whether a deployment may start, be piloted or be   *)
(* released (domain/diagnostics, their commands and /health/ready).  A     *)
(* report asks the database its questions one after another in one         *)
(* session.  A question that fails is an answer, but it also ends the      *)
(* transaction: whatever the session is asked afterwards fails too, also   *)
(* about tables that are there.  Meanwhile the schema may be upgraded and  *)
(* the connection may be lost.                                             *)
(***************************************************************************)
EXTENDS SchemaHistory

CONSTANTS Starts,              \* the schemas that reports are made on
          Organizations,       \* organizations with backups and drills
          Histories,           \* what they may have: Organizations -> [Evidence -> Ages]
          Profiles,            \* acceptance profiles: sets of requirements
          DeploymentProfiles,  \* deployment profiles: sets of requirements
          MaxOutages           \* bound on lost connections

Evidence == {"backup", "verification", "restore_test"}
Ages == {"none", "stale", "fresh"}

ASSUME ReportsAssumption ==
    /\ Starts \subseteq 0..Newest
    /\ Histories \subseteq [Organizations -> [Evidence -> Ages]]
    /\ MaxOutages \in Nat

VARIABLES settings,   \* what is wrong with the settings
          deployed,   \* how many revisions the schema has
          versions,   \* the rows of alembic_version
          histories,  \* the newest backup and drills of each organization
          report,     \* the report that is made, or was made last
          cleared,    \* the last preflight has passed
          outages     \* how much of MaxOutages is used

reportVars == <<settings, deployed, versions, histories, report, cleared, outages>>

HeadRevision == Newest
Foreign == Newest + 1   \* a revision that only another version of the application knows
NoTable == {-1}         \* an empty database, without alembic_version

\* A setting left out of these cannot make a report fail.
Mistakes == {"debug", "authentication", "no_database", "test_database", "no_storage"}

Nobody == "nobody"
NoReport == [at |-> "none", command |-> "none", organization |-> Nobody, profile |-> {},
             validated |-> FALSE, deployment |-> {}, answers |-> <<>>, aborted |-> FALSE,
             cut |-> FALSE, passed |-> FALSE]

--------------------------------------------------------------------------------

QueueTables == {"ingestion_jobs", "document_processing_jobs", "embedding_jobs",
                "entity_extraction_jobs", "event_extraction_jobs", "claim_extraction_jobs"}

\* The tables that a question is about.
Asked(question) ==
    CASE question = "policies" -> {"organization_backup_policies"}
      [] question = "ingestion" -> {"ingestion_jobs"}
      [] question \in {"queues", "errors"} -> QueueTables
      [] question \in {"evaluations", "gates"} -> {"evaluation_report_records"}
      [] question = "backup" -> {"organization_exports"}
      [] question = "evidence" -> {"organization_backup_policies", "organization_exports",
                                   "organization_disaster_recovery_drills"}
      [] OTHER -> {}

\* Questions that read whole rows name every column of the newest schema.
Columns(question) ==
    {c \in NewestSchema.columns :
       /\ c[1] \in Asked(question)
       /\ \/ question \in {"errors", "gates", "backup", "evidence"}
          \/ question = "queues" /\ c[2] = "lease_expires_at"}

Answered(question) ==
    /\ Asked(question) \subseteq SchemaAt[deployed].tables
    /\ Columns(question) \subseteq SchemaAt[deployed].columns
    /\ question \in {"version", "revisions"} => versions # NoTable

\* The newest schema has every table that is asked about, and one with the
\* backup policies all that diagnostics ask for: those came last.
ASSUME TablesAssumption ==
    /\ \A q \in {"policies", "errors", "gates", "evidence"} : Asked(q) \subseteq NewestSchema.tables
    /\ \A n \in 0..Newest : Asked("policies") \subseteq SchemaAt[n].tables =>
           /\ Asked("queues") \subseteq SchemaAt[n].tables
           /\ Columns("queues") \subseteq SchemaAt[n].columns

\* The failure of any other question is caught and becomes a part of the report.
Unguarded == {"backup", "evidence", "gates"}

Ready == <<"answer", "policies", "ingestion">>
Diagnostics == Ready \o <<"queues", "version">>
Preflight == Diagnostics \o <<"revisions">>
Pilot == Ready \o <<"version", "evaluations">>
Bundle == Diagnostics \o <<"errors">>

\* The questions of a report, in the order of the code.
Questions(r) ==
    IF "no_database" \in settings THEN <<>> ELSE
    CASE r.command = "ready" -> Ready
      [] r.command = "diagnostics" -> Diagnostics
      [] r.command = "preflight" -> Preflight
      [] r.command = "pilot" -> Pilot
      [] r.command = "compatibility" -> <<"revisions">>
      [] r.command = "candidate" -> Preflight \o <<"backup">>
      [] r.command = "acceptance" ->
           Preflight \o Pilot \o Bundle \o <<"backup">>
           \o (IF r.organization = Nobody THEN <<>> ELSE <<"evidence">>) \o <<"gates">>

--------------------------------------------------------------------------------
\* The verdicts, on the answers to one list of questions.

ValidSettings == settings = {}

To(question, answers) == {a \in ToSet(answers) : a.question = question}
Good(answers, question) == \E a \in To(question, answers) : a.good
Rows(answers, question) == UNION {a.rows : a \in To(question, answers)}

ReadyPassed(answers) ==
    "no_storage" \notin settings /\ \A q \in {"answer", "policies", "ingestion"} : Good(answers, q)

\* A version that could not be read counts as no objection.
DiagnosticsPassed(answers) ==
    /\ ValidSettings
    /\ answers # <<>> => ReadyPassed(answers)
    /\ Rows(answers, "version") \in {{}, {HeadRevision}}

CompatibilityPassed(answers) ==
    Good(answers, "revisions") /\ Rows(answers, "revisions") = {HeadRevision}

\* Mutant: any schema will do.
PreflightPassedOnAnySchema(answers) ==
    /\ ValidSettings /\ Good(answers, "answer") /\ Good(answers, "queues")

PreflightPassed(answers) ==
    /\ ValidSettings /\ Good(answers, "answer") /\ Good(answers, "queues")
    /\ CompatibilityPassed(answers)

PilotPassed(answers) ==
    ValidSettings /\ ReadyPassed(answers) /\ Rows(answers, "version") = {HeadRevision}

\* The newest verified backup is that of any organization.
BackupFound == \E o \in Organizations : histories[o]["backup"] = "fresh"

\* What a deployment profile requires and is not there. Storage is met by any
\* check of that name that passes: that it is configured is one.
DeploymentMissed(deployment, answers) ==
    LET met == [authentication |-> "authentication" \notin settings,
                storage |-> "no_storage" \notin settings,
                migration |-> CompatibilityPassed(answers),
                backup |-> Good(answers, "backup") /\ BackupFound]
    IN {requirement \in deployment : ~met[requirement]}

Fresh(r, kind) == histories[r.organization][kind] = "fresh"

\* What the acceptance run has found out.  It knows of no other requirement.
Values(r) ==
    LET answers == r.answers
        own == r.organization # Nobody /\ "no_database" \notin settings
        known == {"configuration", "migration", "preflight", "authentication", "support_bundle"}
                 \cup (IF r.validated THEN {"validation"} ELSE {})
                 \cup (IF own THEN Evidence ELSE {})
    IN [requirement \in known |->
          CASE requirement = "configuration" -> ValidSettings
            [] requirement = "migration" -> CompatibilityPassed(answers)
            [] requirement = "preflight" -> PreflightPassed(answers)
            [] requirement = "authentication" -> "authentication" \notin settings
            [] requirement = "support_bundle" -> TRUE
            [] requirement = "validation" -> DeploymentMissed(r.deployment, answers) = {}
            [] requirement \in Evidence -> Fresh(r, requirement)]

Missed(r) == {requirement \in r.profile \cap DOMAIN Values(r) : ~Values(r)[requirement]}
Manual(r) == r.profile \ DOMAIN Values(r)

Passed(r) ==
    CASE r.command = "ready" -> ReadyPassed(r.answers)
      [] r.command = "diagnostics" -> DiagnosticsPassed(r.answers)
      [] r.command = "preflight" -> PreflightPassed(r.answers)
      [] r.command = "pilot" -> PilotPassed(r.answers)
      [] r.command = "compatibility" -> CompatibilityPassed(r.answers)
      [] r.command = "candidate" -> DeploymentMissed(r.deployment, r.answers) = {}
      [] r.command = "acceptance" -> Missed(r) = {}

--------------------------------------------------------------------------------

ReportsInit ==
    /\ settings \in {{}} \cup {{mistake} : mistake \in Mistakes}
    /\ deployed \in Starts
    /\ versions \in {{deployed}, {Foreign}, {deployed, Foreign}}
                   \cup (IF deployed = 0 THEN {NoTable, {}} ELSE {})
    /\ histories \in Histories
    /\ report = NoReport
    /\ cleared = FALSE
    /\ outages = 0

Begin(command, organization, profile, validated, deployment) ==
    /\ report.at # "asking"
    /\ report' = [NoReport EXCEPT !.at = "asking", !.command = command,
                     !.organization = organization, !.profile = profile,
                     !.validated = validated, !.deployment = deployment]
    /\ UNCHANGED <<settings, deployed, versions, histories, cleared, outages>>

BeginCheck ==
    \E command \in {"ready", "diagnostics", "preflight", "pilot", "compatibility"} :
        Begin(command, Nobody, {}, FALSE, {})

BeginCandidate ==
    \E deployment \in DeploymentProfiles : Begin("candidate", Nobody, {}, TRUE, deployment)

BeginAcceptance ==
    \E organization \in Organizations \cup {Nobody}, profile \in Profiles :
        \/ Begin("acceptance", organization, profile, FALSE, {})
        \/ \E deployment \in DeploymentProfiles :
             Begin("acceptance", organization, profile, TRUE, deployment)

NextQuestion(r) == Questions(r)[Len(r.answers) + 1]

\* The rows that an answer shows: one of them where one is expected.
Shown(question) ==
    CASE question = "revisions" -> {versions}
      [] question = "version" /\ versions # {} -> {{row} : row \in versions}
      [] OTHER -> {{}}

AskDatabase ==
    /\ report.at = "asking" /\ Len(report.answers) < Len(Questions(report))
    /\ LET question == NextQuestion(report)
           good == ~report.aborted /\ Answered(question)
       IN
       IF ~good /\ question \in Unguarded
       THEN report' = [report EXCEPT !.at = "failed"]
       ELSE \E found \in (IF good THEN Shown(question) ELSE {{}}) :
              report' = [report EXCEPT
                  !.answers = Append(@, [question |-> question, good |-> good, rows |-> found]),
                  !.aborted = ~good]
    /\ UNCHANGED <<settings, deployed, versions, histories, cleared, outages>>

\* Failing to connect is no answer: the command ends.  Later questions of a
\* session that lost its connection fail like those of an aborted transaction.
LoseConnection ==
    /\ report.at = "asking" /\ Questions(report) # <<>>
    /\ outages < MaxOutages /\ outages' = outages + 1
    /\ report' = [report EXCEPT !.at = IF report.answers = <<>> THEN "failed" ELSE @,
                                !.aborted = TRUE, !.cut = TRUE]
    /\ UNCHANGED <<settings, deployed, versions, histories, cleared>>

Conclude ==
    /\ report.at = "asking" /\ Len(report.answers) = Len(Questions(report))
    /\ report' = [report EXCEPT !.at = "done", !.passed = Passed(report)]
    /\ cleared' = IF report.command = "preflight" THEN Passed(report) ELSE cleared
    /\ UNCHANGED <<settings, deployed, versions, histories, outages>>

\* The tables that the open transaction has read; its locks end with it.
Read == IF report.at = "asking" /\ ~report.aborted
        THEN UNION {Asked(a.question) : a \in ToSet(report.answers)} ELSE {}

Altered == UNION {{op.table : op \in ToSet(History[i].up)} : i \in deployed + 1..Newest}

\* alembic upgrade head waits for the locks on the tables it alters, and finds
\* no way from a revision that it does not know.
UpgradeAll ==
    /\ deployed < Newest /\ versions \in {{deployed}, NoTable, {}}
    /\ Read \cap Altered = {}
    /\ deployed' = Newest /\ versions' = {HeadRevision}
    /\ UNCHANGED <<settings, histories, report, cleared, outages>>

ReportsStep ==
    \/ BeginCheck \/ BeginCandidate \/ BeginAcceptance
    \/ AskDatabase \/ LoseConnection \/ Conclude
    \/ UpgradeAll

ReportsSpec == ReportsInit /\ [][ReportsStep]_reportVars

--------------------------------------------------------------------------------

Done(commands) == report.at = "done" /\ report.command \in commands

(* What the preflight has passed, every later check passes and every later *)
(* report can be made, unless the connection is lost: no report needs what *)
(* the preflight has not looked at.                                        *)
ClearedDeploymentsPass ==
    cleared /\ ~report.cut =>
        /\ report.at # "failed"
        /\ Done({"ready", "diagnostics", "preflight", "pilot", "compatibility"}) => report.passed

(* A check that passes tells the truth about a deployment that was changed *)
(* meanwhile, or whose transaction was aborted.  Diagnostics alone pass    *)
(* without having read the version, when the connection is lost.           *)
PassesAreTrue ==
    report.passed =>
        /\ Done({"diagnostics", "preflight", "pilot"}) => settings = {}
        /\ Done({"ready"}) => settings \cap {"no_database", "no_storage"} = {}
        /\ Done({"preflight", "compatibility"}) => deployed = Newest /\ versions = {HeadRevision}
        /\ Done({"pilot"}) => HeadRevision \in versions
        /\ Done({"diagnostics"}) => HeadRevision \in versions \/ report.cut

(* An acceptance that passes with nothing left to confirm is backed by the *)
(* newest backup and drills of the organization it was run for, however    *)
(* fresh those of another one are.                                         *)
AcceptanceIsBacked ==
    Done({"acceptance"}) /\ report.passed /\ Manual(report) = {} =>
        \A kind \in report.profile \cap Evidence :
            /\ report.organization # Nobody
            /\ histories[report.organization][kind] = "fresh"

(* The checks agree with each other, with the deployment and with the      *)
(* evidence that they name.                                                *)
ReportsAgree == ClearedDeploymentsPass /\ PassesAreTrue /\ AcceptanceIsBacked

================================================================================
