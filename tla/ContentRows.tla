------------------------------ MODULE ContentRows ------------------------------
(***************************************************************************)
(* The rows of one source and what is made from it, under the schema the   *)
(* migrations leave: one row stands for each table.  The services delete   *)
(* some rows themselves and leave others to the references of the schema;  *)
(* an operator may take the schema back some revisions and forth again.    *)
(* The program only runs on the newest schema.                             *)
(***************************************************************************)
EXTENDS SchemaHistory

CONSTANT Stored  \* the tables whose rows are followed

\* What rows refer to that is there all the time.
Accounts == {"organizations", "users"}

\* Rows that come with others, in one transaction: an event and its evidence,
\* an entity and its mention, a claim and its evidence, a cluster and its member.
Companion(table) ==
    CASE table = "event_evidence" -> {"events"}
      [] table = "entity_mentions" -> {"entities"}
      [] table = "claim_evidence" -> {"claims"}
      [] table = "event_cluster_members" -> {"event_clusters"}
      [] OTHER -> {}

\* With a table those that its rows refer to are followed, and with the rows
\* of one that come with others those others.
ASSUME StoredAssumption ==
    /\ Stored \subseteq NewestSchema.tables \ Accounts
    /\ \A r \in NewestSchema.references : r.from \in Stored => r.parent \in Stored \cup Accounts
    /\ \A t \in NewestSchema.tables : Companion(t) \cap Stored # {} => t \in Stored

\* The tables that refer to documents, directly or through others.
FromDocuments == Closure({"documents"}, NewestSchema.references)

\* What DocumentService.delete deletes by itself, before the document.
DeletedFirst == {"document_processing_jobs", "document_extractions", "document_assets"}

\* What a database with n revisions may have.
Schemas(n) ==
    {[tables |-> SchemaAt[n].tables, columns |-> SchemaAt[n].columns,
      references |-> SchemaAt[n].references, extensions |-> made] : made \in SUBSET {"vector"}}

OrganizationOf(table) == <<table, "organization_id">>

\* Each revision is accepted where the one before it ends, its downgrade where
\* it ends, and each leads to the other.  Only one makes a column narrower, and
\* only the one that gives clusters their organization fills it.
ASSUME RevisionsAssumption ==
    /\ EmptySchema \in Schemas(0)
    /\ \A n \in 1..Newest :
         /\ \A s \in Schemas(n - 1) : LET done == Migrated(s, History[n].up) IN
              done.accepted /\ done.schema \in Schemas(n)
         /\ \A s \in Schemas(n) : LET done == Migrated(s, History[n].down) IN
              done.accepted /\ done.schema \in Schemas(n - 1)
         /\ Narrow("operation_attempts", "safe_error") \in ToSet(History[n].down) =>
              History[n] = align_operation_attempt_columns
         /\ Backfill \in ToSet(History[n].up) <=>
              OrganizationOf("event_clusters") \in SchemaAt[n].columns \ SchemaAt[n - 1].columns

\* References are within the schema.  Revisions only add; what they add refers
\* to accounts, or is of a table that they add.  Clusters come with their
\* members and events with their evidence, and sources have their organization
\* before clusters have theirs.
ASSUME SchemasAssumption ==
    /\ \A n \in 0..Newest :
         /\ \A r \in SchemaAt[n].references : {r.from, r.parent} \subseteq SchemaAt[n].tables
         /\ "event_clusters" \in SchemaAt[n].tables =>
              "event_cluster_members" \in SchemaAt[n].tables
         /\ "events" \in SchemaAt[n].tables => "event_evidence" \in SchemaAt[n].tables
         /\ OrganizationOf("event_clusters") \in SchemaAt[n].columns =>
              /\ "sources" \in SchemaAt[n].tables
              /\ OrganizationOf("sources") \in SchemaAt[n].columns
    /\ \A n \in 1..Newest :
         /\ SchemaAt[n - 1].tables \subseteq SchemaAt[n].tables
         /\ SchemaAt[n - 1].columns \subseteq SchemaAt[n].columns
         /\ SchemaAt[n - 1].references \subseteq SchemaAt[n].references
         /\ \A r \in SchemaAt[n].references \ SchemaAt[n - 1].references :
              r.from \notin SchemaAt[n - 1].tables \/ r.parent \in Accounts
    /\ \A t \in {"sources", "research_sessions", "event_clusters"} :
         OrganizationOf(t) \in NewestSchema.columns

\* What refers to documents goes with them or is deleted first, and neither
\* sources nor events are among it; what refers to chunks goes with them.  The
\* evidence of an event refers to chunks, its member to clusters.
ASSUME DocumentsAssumption ==
    /\ IsFiniteSet(NewestSchema.references)
    /\ DeletedFirst \cup {"event_evidence", "document_chunks"} \subseteq FromDocuments
    /\ FromDocuments \cap ({"sources", "events", "event_clusters", "event_cluster_members"}
                          \cup Accounts) = {}
    /\ \A r \in NewestSchema.references :
         /\ r.parent \in FromDocuments =>
              \/ r.rule = "cascade"
              \/ /\ r.rule = "restrict" /\ r.from \in DeletedFirst
                 /\ r.parent \in {"documents", "document_assets"}
         /\ r.parent \in DeletedFirst => r.from \in DeletedFirst
         /\ r.from \in {"documents", "document_assets", "document_chunks"} =>
              r.parent \in {"sources", "documents"}
         /\ r.parent = "sources" => r.rule = "restrict" /\ r.from # "sources"
         /\ r.parent = "events" => r.from \in {"event_evidence", "event_cluster_members"}
         /\ r.parent = "event_clusters" => r.from = "event_cluster_members"
         /\ r.parent # "event_cluster_members"
         /\ r.from \in {"events", "entities", "claims", "event_clusters"} => r.parent \in Accounts
    /\ \A needs \in {<<"documents", "sources">>, <<"document_chunks", "documents">>,
                     <<"event_evidence", "document_chunks">>,
                     <<"event_cluster_members", "events">>} :
         \E r \in NewestSchema.references : <<r.from, r.parent>> = needs

VARIABLES applied,  \* the number of revisions applied
          schema,   \* the schema of the database
          rows,     \* the tables of Stored that hold a row
          owned,    \* those of them whose row names the organization
          longest,  \* whether an attempt holds an error of more than 500 characters
          refused   \* what the database has refused

contentVars == <<applied, schema, rows, owned, longest, refused>>

Owned == {"sources", "research_sessions", "event_clusters"} \cap Stored

ContentInit ==
    /\ applied = 0
    /\ schema = EmptySchema
    /\ rows = {} /\ owned = {} /\ longest = FALSE
    /\ refused = {}

--------------------------------------------------------------------------------

\* The owner of a row goes with its column, the row with its table.
Kept(s) ==
    /\ rows' = rows \cap s.tables
    /\ owned' = {t \in owned : t \in s.tables /\ OrganizationOf(t) \in s.columns}

\* Mutant: a column that comes back stays empty.
BackfilledNever(revision) == {}

\* BACKFILL: a cluster gets the organization all its evidence comes from.
Backfilled(revision) ==
    IF /\ Backfill \in ToSet(revision.up)
       /\ "sources" \in owned /\ "event_clusters" \in rows
    THEN {"event_clusters"} ELSE {}

\* alembic upgrade: each revision in a transaction with the ones before it.
Upgrade ==
    /\ applied < Newest
    /\ LET revision == History[applied + 1]
           done == Migrated(schema, revision.up)
       IN IF done.accepted
          THEN /\ applied' = applied + 1
               /\ schema' = done.schema
               /\ owned' = owned \cup Backfilled(revision)
               /\ UNCHANGED refused
          ELSE /\ refused' = refused \cup {<<"upgrade", applied + 1>>}
               /\ UNCHANGED <<applied, schema, owned>>
    /\ UNCHANGED <<rows, longest>>

\* A column that is made narrower must hold no longer value.
Fits(revision) ==
    longest => Narrow("operation_attempts", "safe_error") \notin ToSet(revision.down)

Downgrade ==
    /\ applied > 0
    /\ LET revision == History[applied]
           done == Migrated(schema, revision.down)
       IN IF done.accepted /\ Fits(revision)
          THEN /\ applied' = applied - 1
               /\ schema' = done.schema
               /\ Kept(done.schema)
               /\ longest' = (longest /\ "operation_attempts" \in done.schema.tables)
               /\ UNCHANGED refused
          ELSE /\ refused' = refused \cup {<<"downgrade", applied>>}
               /\ UNCHANGED <<applied, schema, rows, owned, longest>>

--------------------------------------------------------------------------------

Running == applied = Newest

References == {r \in schema.references : r.from \in rows /\ r.parent \in rows}

\* What goes with the rows of tables: all that refers to them by cascade.
Cascaded(tables) == Closure(tables, {r \in References : r.rule = "cascade"})

\* DELETE of these rows from there: accepted when nothing that stays restricts it.
Deletable(there, tables) ==
    LET gone == Cascaded(tables) IN
    \A r \in References : r.rule = "restrict" /\ r.parent \in gone /\ r.from \in there
                          => r.from \in gone

Companions == UNION {Companion(t) : t \in Stored}

\* The services add a row when the rows it refers to are there; sessions and
\* clusters get the organization of their source.
Add(table) ==
    LET added == {table} \cup (Companion(table) \cap Stored) IN
    /\ Running
    /\ table \in Stored \ (rows \cup Companions)
    /\ \A r \in schema.references :
         r.from = table /\ r.parent \in Stored => r.parent \in rows \cup added
    /\ rows' = rows \cup added
    /\ owned' = IF "sources" \in owned
                THEN owned \cup ((added \ rows) \cap Owned) ELSE owned
    /\ UNCHANGED <<applied, schema, longest, refused>>

\* short_error_message: an attempt ends with an error of up to 1,000 characters.
RecordLongError ==
    /\ Running
    /\ longest' = TRUE
    /\ UNCHANGED <<applied, schema, rows, owned, refused>>

\* Mutant: events that lost their evidence stay.
WithOrphans(left) == left

\* delete_orphaned_events, and delete_empty_clusters when there was one.
WithoutOrphans(left) ==
    IF "events" \in left /\ "event_evidence" \notin left
    THEN left \ {"events", "event_cluster_members", "event_clusters"}
    ELSE left

DeleteDocument ==
    /\ Running
    /\ "documents" \in rows
    /\ LET left == rows \ DeletedFirst IN
       IF Deletable(left, {"documents"})
       THEN /\ rows' = WithoutOrphans(left \ Cascaded({"documents"}))
            /\ UNCHANGED refused
       ELSE /\ refused' = refused \cup {<<"documents", applied>>}
            /\ UNCHANGED rows
    /\ owned' = owned \cap rows'
    /\ UNCHANGED <<applied, schema, longest>>

\* A document is processed again: new chunks take the place of the old ones.
ReplaceChunks ==
    /\ Running
    /\ "document_chunks" \in rows
    /\ IF Deletable(rows, {"document_chunks"})
       THEN /\ rows' = {"document_chunks"} \cup
                       WithoutOrphans(rows \ Cascaded({"document_chunks"}))
            /\ UNCHANGED refused
       ELSE /\ refused' = refused \cup {<<"document_chunks", applied>>}
            /\ UNCHANGED rows
    /\ owned' = owned \cap rows'
    /\ UNCHANGED <<applied, schema, longest>>

\* SourceService.delete leaves the decision to the references: a refusal is
\* the ConflictError of a source with documents, runs or research sessions.
DeleteSource ==
    /\ Running
    /\ "sources" \in rows
    /\ Deletable(rows, {"sources"})
    /\ rows' = rows \ Cascaded({"sources"})
    /\ owned' = owned \cap rows'
    /\ UNCHANGED <<applied, schema, longest, refused>>

\* LegacySourceAssignmentService: the events leave their legacy cluster, to be
\* linked again, and the sessions of the source follow it.
AssignSource ==
    /\ Running
    /\ "sources" \in rows \ owned
    /\ rows' = rows \ {"event_cluster_members", "event_clusters"}
    /\ owned' = owned \cup ({"sources", "research_sessions"} \cap rows)
    /\ UNCHANGED <<applied, schema, longest, refused>>

ContentStep ==
    \/ Upgrade \/ Downgrade
    \/ \E t \in Stored : Add(t)
    \/ RecordLongError
    \/ DeleteDocument \/ ReplaceChunks \/ DeleteSource
    \/ AssignSource

ContentSpec == ContentInit /\ [][ContentStep]_contentVars

--------------------------------------------------------------------------------

(* Whatever path of upgrades and downgrades led to it, the database has    *)
(* the schema that upgrades alone make, but for the extension that stays.  *)
MigrationsRetrace ==
    /\ schema.tables = SchemaAt[applied].tables
    /\ schema.columns = SchemaAt[applied].columns
    /\ schema.references = SchemaAt[applied].references

(* No reference that some table has to a document, its file or its chunks  *)
(* ever refuses a deletion that the services mean to make, and no revision *)
(* is refused, but for the one that makes the errors of attempts shorter.  *)
RefusalsHaveACause == refused \subseteq
    {<<"downgrade", n>> : n \in {i \in 1..Newest : History[i] = align_operation_attempt_columns}}

(* A cluster has the organization of the source its evidence comes from,   *)
(* also after the column was dropped and filled again.                     *)
ClustersFollowTheirSource ==
    "event_clusters" \in rows /\ OrganizationOf("event_clusters") \in schema.columns
        => ("event_clusters" \in owned <=> "sources" \in owned)

(* Migrations neither lose their way nor stand in the way of the services. *)
MigrationsAreSafe ==
    MigrationsRetrace /\ RefusalsHaveACause /\ ClustersFollowTheirSource

(* A deleted document leaves nothing behind that was made from it, and     *)
(* takes nothing else along: the entities, the claims, the sessions and    *)
(* the history of the source are there as before.                          *)
DocumentsGoCompletely == [][
    DeleteDocument /\ "documents" \notin rows' =>
        /\ rows' \cap (FromDocuments \cup {"events", "event_clusters"}) = {}
        /\ rows \ rows' \subseteq
             FromDocuments \cup {"events", "event_clusters", "event_cluster_members"}]_contentVars

================================================================================
