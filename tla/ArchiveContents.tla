---------------------------- MODULE ArchiveContents ----------------------------
(***************************************************************************)
(* What an archive of an organization holds and what a restore makes of it *)
(* (domain/organizations: export_inventory, export_archive,                *)
(* export_verification, archive_reader, restore_inventory, restore_plan,   *)
(* restore_service).  The inventory is one SELECT per table, in a          *)
(* transaction that sees what others commit between two of them.  A        *)
(* restore inserts the tables in an order of its own, keeps every id that  *)
(* is free and maps the others; a reference to an id it does not know is   *)
(* kept as it is.  The target is another organization, in the database of  *)
(* the original or in a fresh one.                                         *)
(***************************************************************************)
EXTENDS ContentRows

CONSTANT MaxChanges  \* bound: changes of the content while it is exported

ASSUME ArchiveAssumption == MaxChanges \in Nat

VARIABLES saved,     \* the table an investigation item refers to
          phase,
          step,      \* the number of tables read, or restored
          archive,   \* the tables with a row in the archive
          fresh,     \* whether the target lies in a fresh database
          restored,  \* the tables with a row in the target
          outside,   \* the references of the target that lead out of it
          changes    \* the changes so far while the archive was made

archiveVars == <<saved, phase, step, archive, fresh, restored, outside, changes>>

\* OrganizationExportInventory and FILES, in the order of the SELECTs.
Inventory == <<
    "organization_memberships", "sources", "documents", "document_revisions",
    "document_chunks", "document_assets", "entities", "entity_mentions", "claims",
    "claim_evidence", "events", "event_evidence", "event_clusters",
    "event_cluster_members", "investigations", "investigation_items",
    "investigation_collaborators", "research_sessions", "research_turns",
    "security_audit_events", "operation_attempts" >>

\* Mutant: the mentions come before their entities.
RestoreOrderMentionsFirst == <<
    "sources", "documents", "document_revisions", "document_chunks", "entity_mentions",
    "entities", "claims", "events", "claim_evidence", "event_evidence", "event_clusters",
    "event_cluster_members", "investigations", "investigation_items",
    "investigation_collaborators", "research_sessions", "research_turns",
    "organization_memberships", "security_audit_events", "operation_attempts",
    "document_assets" >>

\* _restore_records.
RestoreOrder == <<
    "sources", "documents", "document_revisions", "document_chunks", "entities", "claims",
    "events", "entity_mentions", "claim_evidence", "event_evidence", "event_clusters",
    "event_cluster_members", "investigations", "investigation_items",
    "investigation_collaborators", "research_sessions", "research_turns",
    "organization_memberships", "security_audit_events", "operation_attempts",
    "document_assets" >>

\* What the rows of an archive refer to, besides their organization and users.
ArchivedReferences == {
    <<"documents", "source_id", "sources">>,
    <<"document_revisions", "document_id", "documents">>,
    <<"document_chunks", "document_id", "documents">>,
    <<"document_assets", "document_id", "documents">>,
    <<"entity_mentions", "entity_id", "entities">>,
    <<"entity_mentions", "document_id", "documents">>,
    <<"entity_mentions", "chunk_id", "document_chunks">>,
    <<"claim_evidence", "claim_id", "claims">>,
    <<"claim_evidence", "chunk_id", "document_chunks">>,
    <<"event_evidence", "event_id", "events">>,
    <<"event_evidence", "chunk_id", "document_chunks">>,
    <<"event_cluster_members", "event_id", "events">>,
    <<"event_cluster_members", "cluster_id", "event_clusters">>,
    <<"investigation_items", "investigation_id", "investigations">>,
    <<"investigation_collaborators", "investigation_id", "investigations">>,
    <<"research_sessions", "source_id", "sources">>,
    <<"research_turns", "session_id", "research_sessions">> }

ASSUME ReferencesAssumption ==
    /\ ToSet(Inventory) \subseteq NewestSchema.tables
    /\ \A r \in NewestSchema.references :
           r.from \in ToSet(Inventory) /\ r.parent \notin Accounts =>
               <<r.from, r.column, r.parent>> \in ArchivedReferences
    /\ \A a \in ArchivedReferences :
           \E r \in NewestSchema.references : a = <<r.from, r.column, r.parent>>

\* The tables InvestigationItemType names.
Savable == {"sources", "documents", "events", "event_clusters", "entities", "claims",
            "research_sessions"}

\* _FOREIGN_ID_FIELDS and the overrides that look an id up.
Looked(table) ==
    CASE table \in {"documents", "research_sessions"} -> {"source_id"}
      [] table \in {"document_revisions", "document_chunks", "document_assets"} -> {"document_id"}
      [] table = "entity_mentions" -> {"document_id", "chunk_id", "entity_id"}
      [] table = "claim_evidence" -> {"chunk_id", "claim_id"}
      [] table = "event_evidence" -> {"chunk_id", "event_id"}
      [] table = "event_cluster_members" -> {"event_id", "cluster_id"}
      [] table = "investigation_items" -> {"investigation_id", "reference_id"}
      [] table = "investigation_collaborators" -> {"investigation_id"}
      [] table = "research_turns" -> {"session_id"}
      [] OTHER -> {}

\* Rows that are unique below what they refer to.
Singular == {"documents", "document_revisions", "document_chunks", "document_assets",
             "entity_mentions", "claim_evidence", "event_evidence", "event_cluster_members",
             "research_turns"}

\* The references of a row: those of the schema, and that of an item, which
\* has no foreign key.
ItemReference == [from |-> "investigation_items", column |-> "reference_id",
                  parent |-> saved, rule |-> "none"]

ReferencesOf(table) ==
    {r \in schema.references \cup {ItemReference} : r.from = table /\ r.parent \in Stored}

ArchiveInit ==
    /\ applied = Newest /\ schema = NewestSchema
    /\ longest = FALSE /\ refused = {}
    /\ saved \in Savable \cap Stored
    /\ \E some \in SUBSET {"research_sessions", "investigations", "entity_mentions",
                           "event_cluster_members", "document_assets"} :
         LET content ==
                 {"sources", "documents", "document_revisions", "document_chunks"} \cup some \cup
                 (IF "research_sessions" \in some THEN {"research_turns"} ELSE {}) \cup
                 (IF "entity_mentions" \in some THEN {"entities"} ELSE {}) \cup
                 (IF "event_cluster_members" \in some
                  THEN {"events", "event_evidence", "event_clusters"} ELSE {})
             items == IF "investigations" \in some /\ saved \in content
                      THEN {"investigation_items"} ELSE {}
         IN rows = Stored \cap (content \cup items)
    /\ owned = rows \cap Owned
    /\ phase = "reading" /\ step = 0
    /\ archive = {} /\ fresh = FALSE /\ restored = {} /\ outside = {}
    /\ changes = 0

--------------------------------------------------------------------------------

\* Entities, claims and events are exported when evidence names them.
Named(table) ==
    CASE table = "entities" -> "entity_mentions" \in rows
      [] table = "claims" -> "claim_evidence" \in rows
      [] table = "events" -> "event_evidence" \in rows
      [] OTHER -> TRUE

\* OrganizationExportInventoryService.build: the next SELECT.
ReadTable ==
    /\ phase = "reading" /\ step < Len(Inventory)
    /\ step' = step + 1
    /\ archive' = archive \cup {t \in rows : t = Inventory[step'] /\ Named(t)}
    /\ UNCHANGED <<contentVars, saved, phase, fresh, restored, outside, changes>>

\* The content changes meanwhile: a document arrives, is processed or deleted,
\* an item is saved.
ChangeContent ==
    /\ phase = "reading" /\ changes < MaxChanges
    /\ changes' = changes + 1
    /\ \/ \E t \in Stored : /\ t = "investigation_items" => saved \in rows
                            /\ Add(t)
       \/ DeleteDocument
       \/ ReplaceChunks
    /\ UNCHANGED <<saved, phase, step, archive, fresh, restored, outside>>

Build ==
    /\ phase = "reading" /\ step = Len(Inventory)
    /\ phase' = "built"
    /\ UNCHANGED <<contentVars, saved, step, archive, fresh, restored, outside, changes>>

\* OrganizationArchiveReader.read and what a restore checks before its RUNNING
\* row: the archive verifies (a text with a line separator, or a manifest of
\* more than a megabyte, does not), an empty target, every archived user mapped
\* to an active user of its own, and the bytes of every file.
Analyse ==
    /\ phase = "built"
    /\ \E valid, usersMapped, filesIncluded \in BOOLEAN :
         phase' = IF /\ valid /\ usersMapped
                     /\ "document_assets" \in archive => filesIncluded
                  THEN "restoring" ELSE "refused"
    /\ step' = 0
    /\ fresh' \in BOOLEAN
    /\ UNCHANGED <<contentVars, saved, archive, restored, outside, changes>>

\* The id of the parent is in id_map by now.
Known(r) == r.column \in Looked(r.from) /\ r.parent \in restored

\* An id kept as it is names the original's row, if that is there, or nothing.
Strays(table) == {r \in ReferencesOf(table) : ~Known(r)}

Accepted(table) ==
    \A r \in Strays(table) :
        r.rule # "none" => /\ ~fresh /\ r.parent \in rows
                           /\ table \in Singular => table \notin rows

\* _add_rows, _restore_entities, _restore_claims, _restore_events and
\* _restore_assets: the next table, or a foreign key or a unique constraint
\* that ends the restore.
RestoreTable ==
    /\ phase = "restoring" /\ step < Len(RestoreOrder)
    /\ LET table == RestoreOrder[step + 1] IN
       IF table \notin archive
       THEN step' = step + 1 /\ UNCHANGED <<phase, restored, outside>>
       ELSE IF Accepted(table)
       THEN /\ step' = step + 1
            /\ restored' = restored \cup {table}
            /\ outside' = outside \cup {r \in Strays(table) : fresh => r.parent \notin archive}
            /\ UNCHANGED phase
       ELSE /\ phase' = "failed"
            /\ restored' = {} /\ outside' = {}
            /\ UNCHANGED step
    /\ UNCHANGED <<contentVars, saved, archive, fresh, changes>>

Complete ==
    /\ phase = "restoring" /\ step = Len(RestoreOrder)
    /\ phase' = "completed"
    /\ UNCHANGED <<contentVars, saved, step, archive, fresh, restored, outside, changes>>

ArchiveStep ==
    \/ ReadTable \/ ChangeContent \/ Build
    \/ Analyse \/ RestoreTable \/ Complete

ArchiveSpec == ArchiveInit /\ [][ArchiveStep]_<<contentVars, archiveVars>>

--------------------------------------------------------------------------------

Built == phase # "reading"

Undisturbed == changes = 0

(* Every row of an archive has the rows it refers to in the archive, unless*)
(* the content changed between two SELECTs of the inventory.               *)
ArchivesAreWhole ==
    Built /\ Undisturbed =>
        \A t \in archive : \A r \in ReferencesOf(t) : r.rule # "none" => r.parent \in archive

(* A restore that starts brings back the whole archive: no foreign key and *)
(* no unique constraint ends it, in a fresh database or beside the         *)
(* original, unless the inventory was disturbed.                           *)
StartedRestoresComplete ==
    Undisturbed => /\ phase # "failed"
                   /\ phase = "completed" => restored = archive

(* No reference of the target leads to the original's rows or to nothing   *)
(* when its row is in the archive; sessions that items refer to are        *)
(* restored after the items and are the exception.                         *)
ReferencesFollow ==
    Undisturbed =>
        \A r \in outside : r.parent \in archive =>
            r.from = "investigation_items" /\ r.parent = "research_sessions"

(* An archive of undisturbed content comes back whole and apart from the   *)
(* original.                                                               *)
RestoresAreWhole == ArchivesAreWhole /\ StartedRestoresComplete /\ ReferencesFollow

================================================================================
