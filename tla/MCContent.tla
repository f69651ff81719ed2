------------------------------- MODULE MCContent -------------------------------
(***************************************************************************)
(* Four components that share no state, each alone: a behaviour follows    *)
(* the rows of one source through migrations and services, one archive     *)
(* from its inventory to its restore, research sessions, or the reports on *)
(* a deployment.                                                           *)
(***************************************************************************)
EXTENDS ArchiveContents, ResearchSessions, DeploymentReports, TLC

VARIABLE followed

\* The tables that come from one source, and what refers to them.
StoredTables ==
    {"sources", "documents", "document_revisions", "document_assets", "document_extractions",
     "document_processing_jobs", "document_chunks", "entities", "entity_mentions", "events",
     "event_evidence", "event_clusters", "event_cluster_members", "research_sessions",
     "research_turns", "investigations", "investigation_items"}

\* Bound: the rows that the behaviours through migrations do without.
Unmigrated == {"document_revisions", "research_turns", "investigations", "investigation_items"}

Interchangeable ==
    Permutations(Sources) \cup Permutations(Sessions) \cup Permutations(Requests)
    \cup Permutations(Organizations)

\* An empty database, one without backup policies or drills, and the newest.
KnownSchemas == {0, Newest - 5, Newest - 2, Newest}

\* Nothing, everything fresh in one organization, and there an old backup.
KnownHistories ==
    LET All(age) == [kind \in Evidence |-> age] IN
    {[o \in Organizations |-> All("none")]}
    \cup {[o \in Organizations |-> IF o = first THEN All("fresh") ELSE other] :
            first \in Organizations,
            other \in {All("none"), [All("fresh") EXCEPT !["backup"] = "stale"]}}

FullProfile == {{"configuration", "migration", "preflight", "validation"} \cup Evidence}
FullDeployment == {{"authentication", "storage", "migration", "backup"}}

NoArchive ==
    /\ saved = "sources" /\ phase = "none" /\ step = 0
    /\ archive = {} /\ fresh = FALSE /\ restored = {} /\ outside = {}
    /\ changes = 0

NoResearch ==
    /\ auth = FALSE /\ owner = [s \in Sources |-> Legacy]
    /\ sessions = [s \in Sessions |-> NoSession] /\ turns = {}
    /\ requests = [p \in Requests |-> Idle]
    /\ answered = 0 /\ switches = 0 /\ raced = {}

NoReports ==
    /\ settings = {} /\ deployed = Newest /\ versions = {Newest}
    /\ histories = [o \in Organizations |-> [kind \in Evidence |-> "none"]]
    /\ report = NoReport /\ cleared = FALSE /\ outages = 0

Init ==
    \/ followed = "rows" /\ ContentInit /\ NoArchive /\ NoResearch /\ NoReports
    \/ followed = "archive" /\ ArchiveInit /\ NoResearch /\ NoReports
    \/ followed = "research" /\ ContentInit /\ NoArchive /\ ResearchInit /\ NoReports
    \/ followed = "reports" /\ ContentInit /\ NoArchive /\ NoResearch /\ ReportsInit

Next ==
    /\ UNCHANGED followed
    /\ \/ followed = "rows" /\ ContentStep /\ rows' \cap Unmigrated = {}
          /\ UNCHANGED <<archiveVars, researchVars, reportVars>>
       \/ followed = "archive" /\ ArchiveStep /\ UNCHANGED <<researchVars, reportVars>>
       \/ followed = "research" /\ ResearchStep
          /\ UNCHANGED <<contentVars, archiveVars, reportVars>>
       \/ followed = "reports" /\ ReportsStep
          /\ UNCHANGED <<contentVars, archiveVars, researchVars>>

Spec == Init /\ [][Next]_<<followed, contentVars, archiveVars, researchVars, reportVars>>

================================================================================
