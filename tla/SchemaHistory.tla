----------------------------- MODULE SchemaHistory -----------------------------
(***************************************************************************)
(* The revisions of the database schema (migrations/versions), as Alembic  *)
(* runs them: each is the list of the operations that its upgrade makes    *)
(* and of those its downgrade makes, in their order.  A schema is what the *)
(* foreign keys, the deletions and the archives need to know of one: the   *)
(* tables, the columns and constraints added to them later, and the        *)
(* references between them with what happens when the row referred to is   *)
(* deleted.                                                                *)
(***************************************************************************)
EXTENDS Integers, FiniteSets, Sequences, SequencesExt

Cascading(column, parent) == [column |-> column, parent |-> parent, rule |-> "cascade"]
Restricting(column, parent) == [column |-> column, parent |-> parent, rule |-> "restrict"]
Nulling(column, parent) == [column |-> column, parent |-> parent, rule |-> "null"]

Operation(kind, table, name, references) ==
    [kind |-> kind, table |-> table, name |-> name, references |-> references]

Table(table, references) == Operation("table", table, "none", references)
Column(table, name) == Operation("column", table, name, {})
Constraint(table, name) == Operation("constraint", table, name, {})
Reference(table, reference) == Operation("reference", table, "none", {reference})
Widen(table, name) == Operation("widen", table, name, {})
Narrow(table, name) == Operation("narrow", table, name, {})
Extension(name) == Operation("extension", "none", name, {})
Backfill == Operation("backfill", "event_clusters", "none", {})
DropTable(table) == Operation("drop_table", table, "none", {})
DropColumn(table, name) == Operation("drop_column", table, name, {})
DropConstraint(table, name) == Operation("drop_constraint", table, name, {})
DropReference(table, name) == Operation("drop_reference", table, name, {})

--------------------------------------------------------------------------------

create_sources_and_documents ==
    [up   |-> <<Table("sources", {}),
               Table("documents", {Restricting("source_id", "sources")})>>,
     down |-> <<DropTable("documents"), DropTable("sources")>>]

create_ingestion_runs ==
    [up   |-> <<Table("ingestion_runs", {Restricting("source_id", "sources")})>>,
     down |-> <<DropTable("ingestion_runs")>>]

add_document_url ==
    [up   |-> <<Column("documents", "url")>>,
     down |-> <<DropColumn("documents", "url")>>]

add_document_content_hash ==
    [up   |-> <<Column("documents", "content_hash"),
               Constraint("documents", "source_id_content_hash")>>,
     down |-> <<DropConstraint("documents", "source_id_content_hash"),
               DropColumn("documents", "content_hash")>>]

add_ingestion_run_counters ==
    [up   |-> <<Column("ingestion_runs", "items_seen"),
               Constraint("ingestion_runs", "items_seen_not_negative"),
               Column("ingestion_runs", "documents_created"),
               Constraint("ingestion_runs", "documents_created_not_negative"),
               Column("ingestion_runs", "duplicates_skipped"),
               Constraint("ingestion_runs", "duplicates_skipped_not_negative")>>,
     down |-> <<DropConstraint("ingestion_runs", "duplicates_skipped_not_negative"),
               DropColumn("ingestion_runs", "duplicates_skipped"),
               DropConstraint("ingestion_runs", "documents_created_not_negative"),
               DropColumn("ingestion_runs", "documents_created"),
               DropConstraint("ingestion_runs", "items_seen_not_negative"),
               DropColumn("ingestion_runs", "items_seen")>>]

add_ingestion_run_attempt_count ==
    [up   |-> <<Column("ingestion_runs", "attempt_count"),
               Constraint("ingestion_runs", "attempt_count_not_negative")>>,
     down |-> <<DropConstraint("ingestion_runs", "attempt_count_not_negative"),
               DropColumn("ingestion_runs", "attempt_count")>>]

add_source_scheduling_fields ==
    [up   |-> <<Column("sources", "ingestion_enabled"),
               Column("sources", "ingestion_interval_minutes"),
               Column("sources", "next_ingestion_at"),
               Constraint("sources", "ingestion_interval_minutes_in_range"),
               Constraint("sources", "enabled_ingestion_has_interval")>>,
     down |-> <<DropConstraint("sources", "enabled_ingestion_has_interval"),
               DropConstraint("sources", "ingestion_interval_minutes_in_range"),
               DropColumn("sources", "next_ingestion_at"),
               DropColumn("sources", "ingestion_interval_minutes"),
               DropColumn("sources", "ingestion_enabled")>>]

create_ingestion_jobs ==
    [up   |-> <<Table("ingestion_jobs", {
                     Restricting("source_id", "sources"),
                     Restricting("run_id", "ingestion_runs")})>>,
     down |-> <<DropTable("ingestion_jobs")>>]

create_document_assets ==
    [up   |-> <<Table("document_assets", {Restricting("document_id", "documents")})>>,
     down |-> <<DropTable("document_assets")>>]

create_document_extractions ==
    [up   |-> <<Table("document_extractions", {
                     Restricting("document_id", "documents"),
                     Restricting("asset_id", "document_assets")})>>,
     down |-> <<DropTable("document_extractions")>>]

create_document_processing_jobs ==
    [up   |-> <<Table("document_processing_jobs", {
                     Restricting("document_id", "documents"),
                     Restricting("asset_id", "document_assets")})>>,
     down |-> <<DropTable("document_processing_jobs")>>]

create_document_chunks ==
    [up   |-> <<Table("document_chunks", {Cascading("document_id", "documents")})>>,
     down |-> <<DropTable("document_chunks")>>]

\* Indexes that only make queries fast are left out.
add_chunk_full_text_search_index ==
    [up   |-> <<>>,
     down |-> <<>>]

add_ingestion_job_leases ==
    [up   |-> <<Column("ingestion_jobs", "heartbeat_at"),
               Column("ingestion_jobs", "lease_expires_at")>>,
     down |-> <<DropColumn("ingestion_jobs", "lease_expires_at"),
               DropColumn("ingestion_jobs", "heartbeat_at")>>]

add_processing_job_leases ==
    [up   |-> <<Column("document_processing_jobs", "heartbeat_at"),
               Column("document_processing_jobs", "lease_expires_at")>>,
     down |-> <<DropColumn("document_processing_jobs", "lease_expires_at"),
               DropColumn("document_processing_jobs", "heartbeat_at")>>]

create_blob_cleanup_tasks ==
    [up   |-> <<Table("blob_cleanup_tasks", {})>>,
     down |-> <<DropTable("blob_cleanup_tasks")>>]

create_document_revisions ==
    [up   |-> <<Table("document_revisions", {Cascading("document_id", "documents")})>>,
     down |-> <<DropTable("document_revisions")>>]

add_chunk_metadata ==
    [up   |-> <<Column("document_chunks", "metadata"),
               Constraint("document_chunks", "metadata_is_object")>>,
     down |-> <<DropConstraint("document_chunks", "metadata_is_object"),
               DropColumn("document_chunks", "metadata")>>]

\* The extension stays: other tables may hold vectors.
enable_pgvector ==
    [up   |-> <<Extension("vector")>>,
     down |-> <<>>]

create_chunk_embeddings ==
    [up   |-> <<Table("chunk_embeddings", {Cascading("chunk_id", "document_chunks")})>>,
     down |-> <<DropTable("chunk_embeddings")>>]

create_embedding_jobs ==
    [up   |-> <<Table("embedding_jobs", {Cascading("chunk_id", "document_chunks")})>>,
     down |-> <<DropTable("embedding_jobs")>>]

add_job_lease_tokens ==
    [up   |-> <<Column("ingestion_jobs", "lease_token"),
               Column("document_processing_jobs", "lease_token"),
               Column("embedding_jobs", "lease_token")>>,
     down |-> <<DropColumn("embedding_jobs", "lease_token"),
               DropColumn("document_processing_jobs", "lease_token"),
               DropColumn("ingestion_jobs", "lease_token")>>]

add_e5_hnsw_index ==
    [up   |-> <<>>,
     down |-> <<>>]

create_entities ==
    [up   |-> <<Table("entities", {})>>,
     down |-> <<DropTable("entities")>>]

create_entity_mentions ==
    [up   |-> <<Table("entity_mentions", {
                     Restricting("entity_id", "entities"),
                     Cascading("document_id", "documents"),
                     Cascading("chunk_id", "document_chunks")})>>,
     down |-> <<DropTable("entity_mentions")>>]

create_entity_extraction_jobs ==
    [up   |-> <<Table("entity_extraction_jobs", {Cascading("chunk_id", "document_chunks")})>>,
     down |-> <<DropTable("entity_extraction_jobs")>>]

create_events ==
    [up   |-> <<Table("events", {}),
               Table("event_evidence", {
                     Cascading("event_id", "events"),
                     Cascading("chunk_id", "document_chunks")})>>,
     down |-> <<DropTable("event_evidence"), DropTable("events")>>]

create_event_extraction_jobs ==
    [up   |-> <<Table("event_extraction_jobs", {Cascading("chunk_id", "document_chunks")})>>,
     down |-> <<DropTable("event_extraction_jobs")>>]

create_claims ==
    [up   |-> <<Table("claims", {}),
               Table("claim_evidence", {
                     Restricting("claim_id", "claims"),
                     Cascading("chunk_id", "document_chunks")})>>,
     down |-> <<DropTable("claim_evidence"), DropTable("claims")>>]

create_claim_extraction_jobs ==
    [up   |-> <<Table("claim_extraction_jobs", {Cascading("chunk_id", "document_chunks")})>>,
     down |-> <<DropTable("claim_extraction_jobs")>>]

create_event_clusters ==
    [up   |-> <<Table("event_clusters", {}),
               Table("event_cluster_members", {
                     Cascading("event_id", "events"),
                     Cascading("cluster_id", "event_clusters")})>>,
     down |-> <<DropTable("event_cluster_members"), DropTable("event_clusters")>>]

create_research_sessions ==
    [up   |-> <<Table("research_sessions", {Restricting("source_id", "sources")})>>,
     down |-> <<DropTable("research_sessions")>>]

create_research_turns ==
    [up   |-> <<Table("research_turns", {Cascading("session_id", "research_sessions")})>>,
     down |-> <<DropTable("research_turns")>>]

create_investigations ==
    [up   |-> <<Table("investigations", {})>>,
     down |-> <<DropTable("investigations")>>]

create_investigation_items ==
    [up   |-> <<Table("investigation_items", {
                     Cascading("investigation_id", "investigations")})>>,
     down |-> <<DropTable("investigation_items")>>]

create_users ==
    [up   |-> <<Table("users", {})>>,
     down |-> <<DropTable("users")>>]

create_user_password_credentials ==
    [up   |-> <<Table("user_password_credentials", {Cascading("user_id", "users")})>>,
     down |-> <<DropTable("user_password_credentials")>>]

create_user_sessions ==
    [up   |-> <<Table("user_sessions", {Cascading("user_id", "users")})>>,
     down |-> <<DropTable("user_sessions")>>]

create_organizations ==
    [up   |-> <<Table("organizations", {Restricting("created_by_user_id", "users")})>>,
     down |-> <<DropTable("organizations")>>]

create_organization_memberships ==
    [up   |-> <<Table("organization_memberships", {
                     Cascading("organization_id", "organizations"),
                     Restricting("user_id", "users")})>>,
     down |-> <<DropTable("organization_memberships")>>]

\* Rows from before keep NULL: they belong to nobody.
add_investigation_ownership ==
    [up   |-> <<Column("investigations", "organization_id"),
               Column("investigations", "created_by_user_id"),
               Reference("investigations", Restricting("organization_id", "organizations")),
               Reference("investigations", Restricting("created_by_user_id", "users"))>>,
     down |-> <<DropReference("investigations", "created_by_user_id"),
               DropReference("investigations", "organization_id"),
               DropColumn("investigations", "created_by_user_id"),
               DropColumn("investigations", "organization_id")>>]

create_investigation_collaborators ==
    [up   |-> <<Table("investigation_collaborators", {
                     Cascading("investigation_id", "investigations"),
                     Restricting("user_id", "users")})>>,
     down |-> <<DropTable("investigation_collaborators")>>]

create_security_audit_events ==
    [up   |-> <<Table("security_audit_events", {
                     Nulling("actor_user_id", "users"),
                     Nulling("organization_id", "organizations")})>>,
     down |-> <<DropTable("security_audit_events")>>]

create_organization_invitations ==
    [up   |-> <<Table("organization_invitations", {
                     Cascading("organization_id", "organizations"),
                     Restricting("invited_by_user_id", "users")})>>,
     down |-> <<DropTable("organization_invitations")>>]

add_source_organization ==
    [up   |-> <<Column("sources", "organization_id"),
               Reference("sources", Restricting("organization_id", "organizations"))>>,
     down |-> <<DropReference("sources", "organization_id"),
               DropColumn("sources", "organization_id")>>]

add_research_session_organization ==
    [up   |-> <<Column("research_sessions", "organization_id"),
               Reference("research_sessions", Restricting("organization_id", "organizations"))>>,
     down |-> <<DropReference("research_sessions", "organization_id"),
               DropColumn("research_sessions", "organization_id")>>]

\* The clusters whose members all come from one organization get it.
add_event_cluster_organization ==
    [up   |-> <<Column("event_clusters", "organization_id"),
               Reference("event_clusters", Restricting("organization_id", "organizations")),
               Backfill>>,
     down |-> <<DropReference("event_clusters", "organization_id"),
               DropColumn("event_clusters", "organization_id")>>]

add_organization_retention_policies ==
    [up   |-> <<Table("organization_retention_policies", {
                     Cascading("organization_id", "organizations")})>>,
     down |-> <<DropTable("organization_retention_policies")>>]

create_operation_attempts ==
    [up   |-> <<Table("operation_attempts", {Cascading("organization_id", "organizations")})>>,
     down |-> <<DropTable("operation_attempts")>>]

\* The kinds of queues and outcomes fit both widths; only errors may not.
align_operation_attempt_columns ==
    [up   |-> <<Widen("operation_attempts", "safe_error")>>,
     down |-> <<Narrow("operation_attempts", "safe_error")>>]

create_organization_exports ==
    [up   |-> <<Table("organization_exports", {
                     Cascading("organization_id", "organizations"),
                     Restricting("requested_by_user_id", "users")})>>,
     down |-> <<DropTable("organization_exports")>>]

add_organization_export_status_check ==
    [up   |-> <<Constraint("organization_exports", "organization_export_status")>>,
     down |-> <<DropConstraint("organization_exports", "organization_export_status")>>]

create_authentication_throttles ==
    [up   |-> <<Table("authentication_throttles", {})>>,
     down |-> <<DropTable("authentication_throttles")>>]

add_evaluation_report_records ==
    [up   |-> <<Table("evaluation_report_records", {Nulling("imported_by_user_id", "users")}),
               Constraint("evaluation_report_records", "report_sha256")>>,
     down |-> <<DropTable("evaluation_report_records")>>]

create_organization_backup_policies ==
    [up   |-> <<Table("organization_backup_policies", {
                     Cascading("organization_id", "organizations")})>>,
     down |-> <<DropTable("organization_backup_policies")>>]

enforce_backup_frequency ==
    [up   |-> <<Constraint("organization_backup_policies", "organization_backup_frequency")>>,
     down |-> <<DropConstraint("organization_backup_policies", "organization_backup_frequency")>>]

create_organization_restores ==
    [up   |-> <<Table("organization_restores", {
                     Cascading("target_organization_id", "organizations"),
                     Restricting("requested_by_user_id", "users")})>>,
     down |-> <<DropTable("organization_restores")>>]

create_disaster_recovery_drills ==
    [up   |-> <<Table("organization_disaster_recovery_drills", {
                     Cascading("organization_id", "organizations"),
                     Nulling("target_organization_id", "organizations"),
                     Restricting("requested_by_user_id", "users"),
                     Nulling("backup_export_id", "organization_exports"),
                     Nulling("restore_id", "organization_restores")})>>,
     down |-> <<DropTable("organization_disaster_recovery_drills")>>]

\* The unique indexes on running rows that ArchiveRuns and RestoreRuns rely on.
add_active_operation_guards ==
    [up   |-> <<Constraint("organization_exports", "active_organization"),
               Constraint("organization_restores", "active_target"),
               Constraint("organization_disaster_recovery_drills", "active_restore_target")>>,
     down |-> <<DropConstraint("organization_disaster_recovery_drills", "active_restore_target"),
               DropConstraint("organization_restores", "active_target"),
               DropConstraint("organization_exports", "active_organization")>>]

\* Every revision revises the one before it; there is one head.
History == <<
    create_sources_and_documents, create_ingestion_runs,
    add_document_url, add_document_content_hash,
    add_ingestion_run_counters, add_ingestion_run_attempt_count,
    add_source_scheduling_fields, create_ingestion_jobs,
    create_document_assets, create_document_extractions,
    create_document_processing_jobs, create_document_chunks,
    add_chunk_full_text_search_index, add_ingestion_job_leases,
    add_processing_job_leases, create_blob_cleanup_tasks,
    create_document_revisions, add_chunk_metadata,
    enable_pgvector, create_chunk_embeddings,
    create_embedding_jobs, add_job_lease_tokens,
    add_e5_hnsw_index, create_entities,
    create_entity_mentions, create_entity_extraction_jobs,
    create_events, create_event_extraction_jobs,
    create_claims, create_claim_extraction_jobs,
    create_event_clusters, create_research_sessions,
    create_research_turns, create_investigations,
    create_investigation_items, create_users,
    create_user_password_credentials, create_user_sessions,
    create_organizations, create_organization_memberships,
    add_investigation_ownership, create_investigation_collaborators,
    create_security_audit_events, create_organization_invitations,
    add_source_organization, add_research_session_organization,
    add_event_cluster_organization, add_organization_retention_policies,
    create_operation_attempts, align_operation_attempt_columns,
    create_organization_exports, add_organization_export_status_check,
    create_authentication_throttles, add_evaluation_report_records,
    create_organization_backup_policies, enforce_backup_frequency,
    create_organization_restores, create_disaster_recovery_drills,
    add_active_operation_guards >>

Newest == Len(History)

--------------------------------------------------------------------------------

EmptySchema == [tables |-> {}, columns |-> {}, references |-> {}, extensions |-> {}]

From(table, references) == {[from |-> table] @@ r : r \in references}

\* What an operation leaves of schema s.
Changed(s, op) ==
    LET added == <<op.table, op.name>> IN
    CASE op.kind = "table" ->
           [s EXCEPT !.tables = @ \cup {op.table},
                     !.references = @ \cup From(op.table, op.references)]
      [] op.kind \in {"column", "constraint", "widen"} -> [s EXCEPT !.columns = @ \cup {added}]
      [] op.kind = "reference" ->
           [s EXCEPT !.references = @ \cup From(op.table, op.references)]
      [] op.kind = "extension" -> [s EXCEPT !.extensions = @ \cup {op.name}]
      [] op.kind = "backfill" -> s
      [] op.kind = "drop_table" ->
           [s EXCEPT !.tables = @ \ {op.table},
                     !.columns = {c \in @ : c[1] # op.table},
                     !.references = {r \in @ : r.from # op.table}]
      [] op.kind = "drop_column" ->
           [s EXCEPT !.columns = @ \ {added},
                     !.references = {r \in @ : <<r.from, r.column>> # added}]
      [] op.kind \in {"drop_constraint", "narrow"} -> [s EXCEPT !.columns = @ \ {added}]
      [] op.kind = "drop_reference" ->
           [s EXCEPT !.references = {r \in @ : <<r.from, r.column>> # added}]

\* When PostgreSQL accepts an operation on schema s.
Accepts(s, op) ==
    LET named == <<op.table, op.name>>
        parents == {r.parent : r \in op.references}
    IN
    CASE op.kind = "table" -> /\ op.table \notin s.tables
                              /\ parents \subseteq s.tables \cup {op.table}
      [] op.kind \in {"column", "constraint", "widen"} -> /\ op.table \in s.tables
                                                          /\ named \notin s.columns
      [] op.kind = "reference" -> {op.table} \cup parents \subseteq s.tables
      [] op.kind = "extension" -> TRUE
      [] op.kind = "backfill" -> op.table \in s.tables
      [] op.kind = "drop_table" -> /\ op.table \in s.tables
                                   /\ \A r \in s.references :
                                        r.parent = op.table => r.from = op.table
      [] op.kind = "drop_reference" -> \E r \in s.references : <<r.from, r.column>> = named
      [] OTHER -> named \in s.columns

\* The operations of one revision; the first that is refused ends them all.
Migrated(s, operations) ==
    FoldLeft(LAMBDA done, op : IF done.accepted /\ Accepts(done.schema, op)
                               THEN [done EXCEPT !.schema = Changed(@, op)]
                               ELSE [done EXCEPT !.accepted = FALSE],
             [schema |-> s, accepted |-> TRUE], operations)

\* The schema that the first n upgrades make: no upgrade drops anything.
SchemaAt == [n \in 0..Newest |->
    LET made == UNION {ToSet(History[i].up) : i \in 1..n}
        Of(kinds) == {op \in made : op.kind \in kinds}
    IN [tables |-> {op.table : op \in Of({"table"})},
        columns |-> {<<op.table, op.name>> : op \in Of({"column", "constraint", "widen"})},
        references |-> UNION {From(op.table, op.references) : op \in made},
        extensions |-> {op.name : op \in Of({"extension"})}]]

NewestSchema == SchemaAt[Newest]

\* Tables and those that refer to them.
Reached(tables, references) ==
    tables \cup {r.from : r \in {e \in references : e.parent \in tables}}

\* Tables and the tables that refer to them, directly or through others: there
\* are as many steps as tables that could be found.
Closure(tables, references) ==
    LET steps == Cardinality({r.from : r \in references})
        found[n \in 0..steps] == IF n = 0 THEN tables ELSE Reached(found[n - 1], references)
    IN found[steps]

================================================================================
