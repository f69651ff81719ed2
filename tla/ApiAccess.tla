------------------------------- MODULE ApiAccess -------------------------------
(***************************************************************************)
(* Who may ask what of the API (api/auth, api/tenancy, api/routes,         *)
(* domain/tenancy: policy, scope; and the checks of the services that take *)
(* the actor themselves).  The model follows one caller, whose sign-in,    *)
(* roles and system rights change between requests.  A request names an    *)
(* organization, in its path or query, and a record, known by its owner;   *)
(* some name a second record: an item to save in an investigation, or a    *)
(* part of the first.  Every route has a guard; each file of routes is one *)
(* set of routes.                                                          *)
(***************************************************************************)
EXTENDS Integers

CONSTANT Organizations

VARIABLES auth,          \* the setting auth_enabled
          signedIn,      \* the caller's token belongs to an active session and user
          admin,         \* the caller is a system admin
          role,          \* Organizations -> the caller's role, or "none"
          collaborator,  \* the caller's role in the investigations, or "none"
          saved,         \* an item of an investigation: the owners of the
                         \* investigation and of the record it is a snapshot of
          reached,       \* what the last request showed or changed: <<way, owner>>
          told           \* history: owners that the last answer depended on

accessVars == <<auth, signedIn, admin, role, collaborator, saved, reached, told>>

Roles == {"owner", "admin", "member", "viewer"}
CollaboratorRoles == {"owner", "editor", "viewer"}

\* The owner of content from before organizations; other things a request may
\* name are a record or an organization that is not there, or nothing.
Legacy == "legacy"
Missing == "missing"
Unnamed == "unnamed"

ContentOwners == Organizations \cup {Legacy}

\* No item is followed.
NoItem == [investigation |-> Unnamed, record |-> Unnamed]

ASSUME OrganizationsAssumption == Organizations \cap {Legacy, Missing, Unnamed} = {}

\* ROLE_CAPABILITIES
Capabilities(r) ==
    CASE r = "viewer" -> {"read"}
      [] r = "member" -> {"read", "contribute"}
      [] r \in {"admin", "owner"} -> {"read", "contribute", "manage"}

--------------------------------------------------------------------------------

\* Answers: "ok", "unauthenticated" (401), "forbidden" (403), "not_found" (404),
\* "invalid" (422) and "unavailable" (503).  The first refusal is the answer.
Then(answer, next) == IF answer = "ok" THEN next ELSE answer

\* CurrentSession: the routes that need accounts.
Session(answer) ==
    IF ~auth THEN "unavailable" ELSE IF ~signedIn THEN "unauthenticated" ELSE answer

\* Actor: without authentication there is no actor and the answer is open.
Actor(open, answer) ==
    IF ~auth THEN open ELSE IF ~signedIn THEN "unauthenticated" ELSE answer

\* A role of the caller there among some.
RoleIn(organization, some) ==
    IF organization \notin Organizations THEN "not_found"
    ELSE IF admin THEN "ok"
    ELSE IF role[organization] = "none" THEN "not_found"
    ELSE IF role[organization] \in some THEN "ok" ELSE "forbidden"

Having(capability) == {r \in Roles : capability \in Capabilities(r)}
Managers == {"owner", "admin"}

\* ContentAccessPolicy.scope
Scope(organization, capability) ==
    Actor("ok", IF organization # Unnamed THEN RoleIn(organization, Having(capability))
                ELSE IF admin THEN "ok" ELSE "invalid")

\* ContentAccessPolicy.new_content_owner
NewContentOwner(organization, capability) ==
    IF organization = Unnamed THEN Actor("ok", "invalid")
    ELSE Actor("invalid", Scope(organization, capability))

\* ContentAccessPolicy.require, and authorize_source and authorize_document: the
\* owner is the one stored with the record's source.
Require(owner, capability) ==
    IF owner = Missing THEN Actor("not_found", "not_found")
    ELSE Actor("ok", IF owner # Legacy THEN RoleIn(owner, Having(capability))
                     ELSE IF admin THEN "ok" ELSE "not_found")

\* ContentAccessPolicy.check_source_filter
SourceFilter(owner) ==
    IF owner = Unnamed THEN "ok" ELSE Actor("ok", Require(owner, "read"))

\* ContentScope.allows: the owners whose content a scope lets through.
Allowed(organization) ==
    IF ~auth THEN ContentOwners ELSE IF organization = Unnamed THEN {Legacy} ELSE {organization}

\* permissions_for an investigation
PermissionsFor(owner) ==
    IF admin \/ (owner # Legacy /\ role[owner] \in Managers)
    THEN {"view", "edit", "delete", "manage_members"}
    ELSE IF owner = Legacy THEN {}
    ELSE IF role[owner] = "none" THEN {}
    ELSE CASE collaborator = "owner" -> {"view", "edit", "delete", "manage_members"}
           [] collaborator = "editor" -> {"view", "edit"}
           [] collaborator = "viewer" -> {"view"}
           [] OTHER -> {}

\* InvestigationAccess.require
Investigation(owner, permission) ==
    IF owner = Missing \/ "view" \notin PermissionsFor(owner) THEN "not_found"
    ELSE IF permission \in PermissionsFor(owner) THEN "ok" ELSE "forbidden"

\* The same for a request without an actor.
InvestigationFor(owner, permission) ==
    Actor(IF owner = Missing THEN "not_found" ELSE "ok", Investigation(owner, permission))

\* Mutant: any record that is there can be saved in an investigation.
ReferenceAnywhere(owner, second) == IF second = Missing THEN "not_found" ELSE "ok"

\* Mutant: what the caller may read can be saved in any investigation.
ReferenceReadable(owner, second) == Require(second, "read")

\* add_item saves what reference_in_scope finds in the scope of the
\* investigation's owner; without an actor, all that there is a snapshot of.
Reference(owner, second) ==
    IF second = owner \/ (~auth /\ second # Missing) THEN "ok" ELSE "not_found"

\* The chunk or item named with a record has to be a part of it.
Part(owner, second) == IF second = owner THEN "ok" ELSE "not_found"

--------------------------------------------------------------------------------

\* A route: its handler, its guard with what that needs, and the way in which
\* it touches the records it is about.
Route(handler, guard, need, way) ==
    [handler |-> handler, guard |-> guard, need |-> need, way |-> way]

Every(handlers, guard, need, way) == {Route(h, guard, need, way) : h \in handlers}

\* _check_manager: who may touch members and viewers, and who every role.
Managing(handlers, guard) ==
    Every(handlers, guard, "managers", "administer") \cup
    Every(handlers, guard, "owners", "administer")

HealthRoutes == Every({"health", "live", "version", "ready"}, "public", "nothing", "none")

AuthRoutes ==
    {Route("login", "accounts", "nothing", "none")} \cup
    Every({"logout", "me", "list_sessions", "revoke_session", "logout_all",
           "revoke_other_sessions", "change_password"}, "session", "nothing", "none")

AdminAuthRoutes ==
    Every({"list_login_throttles", "clear_login_throttle"}, "system_admin", "nothing", "system")

AdminUserRoutes ==
    Every({"list_users", "create_user", "get_user", "change_user_status",
           "list_user_sessions", "revoke_user_session", "revoke_user_sessions"},
          "system_admin", "nothing", "system")

AdminEvaluationRoutes ==
    Every({"list_evaluations", "import_evaluation", "compare_evaluations", "get_evaluation"},
          "system_admin", "nothing", "system")

OrganizationRoutes ==
    Every({"create_organization", "list_organizations"}, "session", "nothing", "none") \cup
    Every({"get_organization", "list_organization_members"}, "members", "any", "read") \cup
    Managing({"add_organization_member", "change_organization_member",
              "remove_organization_member"}, "members") \cup
    {Route("get_access_summary", "members", "managers", "administer")}

InvitationRoutes ==
    Managing({"create_invitation"}, "members") \cup
    Managing({"revoke_invitation"}, "invitation") \cup
    {Route("list_invitations", "members", "managers", "administer"),
     Route("accept_invitation", "session", "nothing", "none")}

BackupRoutes ==
    Every({"get_backup_policy", "update_backup_policy", "run_organization_backup",
           "list_organization_backups"}, "members", "managers", "administer")

DrillRoutes ==
    {Route("run_organization_drill", "members", "managers", "administer"),
     Route("run_organization_drill", "restore_test", "nothing", "system"),
     Route("list_organization_drills", "members", "managers", "administer"),
     Route("get_organization_drill", "within", "managers", "administer")}

ExportRoutes ==
    Every({"create_organization_export", "list_organization_exports",
           "get_organization_export_assets"}, "members", "managers", "administer") \cup
    Every({"get_organization_export", "download_organization_export",
           "verify_organization_export"}, "within", "managers", "administer")

RestorePlanRoutes == {Route("plan_organization_restore", "system_admin", "nothing", "system")}

RestoreRoutes == {Route("apply_organization_restore", "system_admin", "nothing", "system")}

RetentionRoutes ==
    Every({"get_retention", "preview_audit_retention"}, "members", "managers", "administer") \cup
    Every({"set_retention", "cleanup_audit_retention"}, "retention", "nothing", "system")

SecurityRoutes == {Route("list_audit_events", "audit", "nothing", "administer")}

OperationRoutes ==
    Every({"operations_overview", "failed_jobs", "operation_history", "operation_trends"},
          "operations", "nothing", "administer") \cup
    {Route("retry_failed_job", "retry", "nothing", "administer")}

SourceRoutes ==
    {Route("create_source", "new", "manage", "manage"),
     Route("list_sources", "scope", "read", "read"),
     Route("compare_sources", "shown", "read", "read")} \cup
    Every({"get_source", "source_provenance"}, "owner", "read", "read") \cup
    Every({"delete_source", "schedule_source", "unschedule_source"}, "owner", "manage", "manage")

DocumentRoutes ==
    {Route("file_upload_limits", "public", "nothing", "none"),
     Route("create_document", "owner", "contribute", "contribute"),
     Route("upload_file", "upload", "contribute", "contribute"),
     Route("delete_document", "owner", "contribute", "contribute"),
     Route("list_documents", "filter", "read", "read")} \cup
    Every({"get_document", "list_document_chunks", "list_document_revisions",
           "get_document_revision"}, "owner", "read", "read") \cup
    Every({"get_document_chunk", "get_document_chunk_context"}, "part", "read", "read")

IngestionRunRoutes ==
    {Route("create_ingestion_run", "owner", "manage", "manage"),
     Route("list_ingestion_runs", "filter", "read", "read"),
     Route("get_ingestion_run", "owner", "read", "read")}

SearchRoutes ==
    Every({"search", "semantic_search", "hybrid_search", "reranked_search"},
          "filter", "read", "read")

EmbeddingRoutes == {Route("embedding_coverage", "coverage", "read", "read")}

EntityRoutes ==
    {Route("list_entities", "scope", "read", "read"),
     Route("entity_coverage", "coverage", "read", "read"),
     Route("get_entity", "shown", "read", "read")}

EventRoutes ==
    {Route("list_events", "scope", "read", "read"),
     Route("event_coverage", "coverage", "read", "read")} \cup
    Every({"get_event", "event_link_suggestions"}, "shown", "read", "read")

ClaimRoutes ==
    {Route("list_claims", "scope", "read", "read"),
     Route("claim_coverage", "coverage", "read", "read"),
     Route("get_claim", "shown", "read", "read")}

TimelineRoutes == {Route("event_timeline", "filter", "read", "read")}

EventClusterRoutes == {Route("get_event_cluster", "shown", "read", "read")}

ResearchRoutes ==
    Every({"research_context", "research_answer"}, "filter", "read", "read") \cup
    Every({"create_research_session", "start_research_session"},
          "new_research", "contribute", "contribute") \cup
    {Route("list_research_sessions", "scope", "read", "read"),
     Route("add_research_turn", "owner", "contribute", "contribute")} \cup
    Every({"get_research_session", "list_research_turns", "export_research_session"},
          "owner", "read", "read")

InvestigationRoutes ==
    {Route("create_investigation", "new_investigation", "nothing", "start"),
     Route("list_investigations", "investigations", "view", "view"),
     Route("delete_investigation", "investigation", "delete", "delete")} \cup
    {Route("get_investigation", "investigation", "view", "view"),
     Route("update_investigation", "investigation", "edit", "edit"),
     Route("remove_investigation_item", "item", "edit", "edit")} \cup
    Every({"export_investigation", "list_investigation_items"}, "items", "view", "view") \cup
    Every({"add_investigation_item", "save_research_session"}, "reference", "edit", "edit") \cup
    \* A session saved before is shown again, whatever has become of it.
    {Route("save_research_session", "items", "edit", "edit")}

InvestigationMemberRoutes ==
    {Route("list_investigation_members", "team", "view", "view")} \cup
    Every({"add_investigation_member", "change_investigation_member",
           "remove_investigation_member"}, "team", "manage_members", "manage_members")

DashboardRoutes ==
    {Route("dashboard_overview", "scope", "read", "read")} \cup
    Every({"dashboard_sources", "dashboard_events"}, "filter", "read", "read")

\* create_app
Routes ==
    UNION {HealthRoutes, AuthRoutes, AdminAuthRoutes, AdminUserRoutes, AdminEvaluationRoutes,
           OrganizationRoutes, BackupRoutes, DrillRoutes, ExportRoutes, InvitationRoutes,
           RestorePlanRoutes, RestoreRoutes, SecurityRoutes, SourceRoutes, DocumentRoutes,
           IngestionRunRoutes, SearchRoutes, EmbeddingRoutes, EntityRoutes, EventRoutes,
           ClaimRoutes, TimelineRoutes, EventClusterRoutes, ResearchRoutes,
           InvestigationRoutes, InvestigationMemberRoutes, DashboardRoutes,
           OperationRoutes, RetentionRoutes}

\* What routes ask, whatever their name.
Demands == {[guard |-> r.guard, need |-> r.need, way |-> r.way] : r \in Routes}

--------------------------------------------------------------------------------

\* The roles that a route of members needs.
Needed(need) ==
    CASE need = "any" -> Roles
      [] need = "managers" -> Managers
      [] need = "owners" -> {"owner"}

\* The record a request names must be the organization's.
Within(organization, owner) == IF owner = organization THEN "ok" ELSE "not_found"

Answer(r, organization, owner, second) ==
    CASE r.guard = "public" -> "ok"
      [] r.guard = "accounts" -> IF auth THEN "ok" ELSE "unavailable"
      [] r.guard = "session" -> Session("ok")
      [] r.guard = "system_admin" -> Session(IF admin THEN "ok" ELSE "forbidden")
      [] r.guard = "members" -> Session(RoleIn(organization, Needed(r.need)))
      [] r.guard = "within" ->
           Session(Then(RoleIn(organization, Needed(r.need)), Within(organization, owner)))
      [] r.guard = "invitation" ->
           Session(Then(RoleIn(organization, Roles),
                   Then(Within(organization, owner), RoleIn(organization, Needed(r.need)))))
      [] r.guard = "restore_test" ->
           Session(IF organization \notin Organizations THEN "not_found"
                   ELSE IF admin THEN "ok" ELSE "forbidden")
      [] r.guard = "retention" ->
           Session(Then(RoleIn(organization, Managers), IF admin THEN "ok" ELSE "forbidden"))
      [] r.guard = "audit" ->
           Session(IF admin THEN "ok"
                   ELSE IF organization # Unnamed THEN RoleIn(organization, Managers)
                   ELSE IF \E o \in Organizations : role[o] \in Managers
                   THEN "invalid" ELSE "forbidden")
      [] r.guard = "operations" ->
           Session(IF organization = Unnamed THEN "invalid"
                   ELSE RoleIn(organization, Having("manage")))
      [] r.guard = "retry" ->
           Session(IF organization = Unnamed THEN "invalid"
                   ELSE Then(RoleIn(organization, Having("manage")), Within(organization, owner)))
      [] r.guard = "scope" -> Scope(organization, r.need)
      [] r.guard = "filter" -> Then(Scope(organization, r.need), SourceFilter(owner))
      [] r.guard = "shown" ->
           Then(Scope(organization, r.need),
                IF owner \in Allowed(organization) THEN "ok" ELSE "not_found")
      [] r.guard = "coverage" ->
           IF owner = Unnamed THEN Scope(organization, r.need) ELSE Require(owner, r.need)
      [] r.guard = "owner" -> Require(owner, r.need)
      [] r.guard = "upload" ->
           Then(Require(owner, r.need),
                IF organization \in {Unnamed, owner} THEN "ok" ELSE "invalid")
      [] r.guard = "new" -> NewContentOwner(organization, r.need)
      [] r.guard = "new_research" ->
           Then(NewContentOwner(organization, r.need),
                IF owner = Unnamed THEN "ok"
                ELSE Then(Require(owner, "read"),
                          IF ~auth \/ owner = organization THEN "ok" ELSE "invalid"))
      [] r.guard = "new_investigation" ->
           IF organization = Unnamed THEN Actor("ok", "invalid")
           ELSE Actor("invalid", RoleIn(organization, Roles))
      [] r.guard = "investigations" -> Actor("ok", "ok")
      [] r.guard = "part" -> Then(Require(owner, r.need), Part(owner, second))
      [] r.guard \in {"investigation", "items"} -> InvestigationFor(owner, r.need)
      [] r.guard = "item" -> Then(InvestigationFor(owner, r.need), Part(owner, second))
      [] r.guard = "reference" ->
           Then(InvestigationFor(owner, r.need), Reference(owner, second))
      [] r.guard = "team" -> Session(Investigation(owner, r.need))

\* The owners of what the answer shows or changes.
Touched(r, organization, owner) ==
    CASE r.way \in {"none", "system"} -> {}
      [] r.guard \in {"scope"} -> Allowed(organization)
      [] r.guard = "filter" ->
           IF owner = Unnamed THEN Allowed(organization) ELSE Allowed(organization) \cap {owner}
      [] r.guard = "coverage" -> IF owner = Unnamed THEN Allowed(organization) ELSE {owner}
      [] r.guard = "audit" -> IF organization = Unnamed THEN ContentOwners ELSE {organization}
      [] r.guard = "investigations" ->
           {o \in ContentOwners : ~auth \/ "view" \in PermissionsFor(o)}
      [] r.guard \in {"members", "operations", "new", "new_research", "new_investigation"} ->
           IF organization = Unnamed THEN {Legacy} ELSE {organization}
      [] OTHER -> {owner}

\* Whose records an answer shows besides: the second record, of which a snapshot
\* is taken, or what is saved in an investigation of that owner.
Shown(r, owner, second) ==
    CASE r.guard \in {"part", "reference"} -> {second}
      [] r.guard = "items" /\ saved.investigation = owner -> {saved.record}
      [] OTHER -> {}

\* What an investigation holds afterwards. An item is followed that was saved
\* with authentication; without it every record could be saved, and stays so.
Saved(r, owner, second) ==
    CASE r.guard = "reference" /\ auth ->
           {saved, [investigation |-> owner, record |-> second]}
      [] r.guard = "item" \/ (r.guard = "investigation" /\ r.need = "delete") ->
           IF saved.investigation = owner THEN {saved, NoItem} ELSE {saved}
      [] OTHER -> {saved}

\* The names a request of that guard gives.
NamedOrganizations(r) ==
    CASE r.guard \in {"members", "within", "invitation", "restore_test", "retention"} ->
           Organizations \cup {Missing}
      [] r.guard \in {"public", "accounts", "session", "system_admin", "owner", "part",
                      "investigation", "items", "item", "reference", "team"} -> {Unnamed}
      [] OTHER -> Organizations \cup {Missing, Unnamed}

NamedOwners(r) ==
    CASE r.guard \in {"within", "invitation", "retry", "shown", "owner", "upload", "part",
                      "investigation", "items", "item", "reference", "team"} ->
           ContentOwners \cup {Missing}
      [] r.guard \in {"filter", "coverage", "new_research"} -> ContentOwners \cup {Missing, Unnamed}
      [] OTHER -> {Unnamed}

NamedSeconds(r) ==
    IF r.guard \in {"part", "item", "reference"} THEN ContentOwners \cup {Missing} ELSE {Unnamed}

--------------------------------------------------------------------------------

AccessInit ==
    /\ auth \in BOOLEAN
    /\ signedIn = FALSE /\ admin = FALSE
    /\ role = [o \in Organizations |-> "none"]
    /\ collaborator = "none"
    /\ saved = NoItem
    /\ reached = {} /\ told = {}

Disclosed(x, o) == IF x = o THEN Missing ELSE x

\* The owners whose names drew another answer than names of nothing would have.
Telling(r, organization, owner, second) ==
    {o \in ContentOwners :
        Answer(r, organization, owner, second) #
            Answer(r, Disclosed(organization, o), Disclosed(owner, o), Disclosed(second, o))}

\* A request, answered with what the database says now.
Request(r, organization, owner, second) ==
    /\ reached = {} /\ told = {}
    /\ told' = IF r.guard = "restore_test" THEN {}
               ELSE Telling(r, organization, owner, second)
    /\ IF Answer(r, organization, owner, second) # "ok" THEN UNCHANGED <<saved, reached>>
       ELSE /\ saved' \in Saved(r, owner, second)
            /\ reached' =
                 IF r.way = "system" THEN {<<"system", Unnamed>>}
                 ELSE {<<r.way, o>> : o \in Touched(r, organization, owner)} \cup
                      {<<"read", o>> : o \in Shown(r, owner, second)}
    /\ UNCHANGED <<auth, signedIn, admin, role, collaborator>>

\* Between two requests the caller signs in or out, or is given other rights;
\* the setting changes with a restart.
ChangeCaller ==
    /\ reached' = {} /\ told' = {} /\ UNCHANGED saved
    /\ \/ signedIn' = ~signedIn /\ UNCHANGED <<auth, admin, role, collaborator>>
       \/ admin' = ~admin /\ UNCHANGED <<auth, signedIn, role, collaborator>>
       \/ auth' = ~auth /\ UNCHANGED <<signedIn, admin, role, collaborator>>
       \/ /\ \E o \in Organizations, new \in Roles \cup {"none"} :
               role' = [role EXCEPT ![o] = new]
          /\ UNCHANGED <<auth, signedIn, admin, collaborator>>
       \/ /\ collaborator' \in CollaboratorRoles \cup {"none"}
          /\ UNCHANGED <<auth, signedIn, admin, role>>

AccessStep ==
    \/ ChangeCaller
    \/ \E r \in Demands : \E organization \in NamedOrganizations(r), owner \in NamedOwners(r),
                            second \in NamedSeconds(r) :
          Request(r, organization, owner, second)

AccessSpec == AccessInit /\ [][AccessStep]_accessVars

--------------------------------------------------------------------------------

\* What a caller may do to whose records: viewers read, members also add
\* documents and research, admins and owners manage the rest; legacy records
\* are for system admins.  Without authentication content is open to all.
ContentWays == {"read", "contribute", "manage", "view", "edit", "delete", "start"}

MayDo(way, o) ==
    IF ~auth THEN way \in ContentWays
    ELSE /\ signedIn
         /\ \/ admin
            \/ way = "none"
            \/ /\ o \in Organizations
               /\ CASE way \in {"read", "start"} -> role[o] # "none"
                    [] way = "contribute" -> role[o] \in {"member", "admin", "owner"}
                    [] way \in {"manage", "administer"} -> role[o] \in {"admin", "owner"}
                    [] way = "view" -> role[o] \in {"admin", "owner"} \/
                                       (role[o] # "none" /\ collaborator # "none")
                    [] way = "edit" -> role[o] \in {"admin", "owner"} \/
                                       (role[o] # "none" /\ collaborator \in {"owner", "editor"})
                    [] way \in {"delete", "manage_members"} ->
                                       role[o] \in {"admin", "owner"} \/
                                       (role[o] # "none" /\ collaborator = "owner")
                    [] OTHER -> FALSE

(* No request, on any route and with any organization and records named in *)
(* it, shows or changes what the caller's present role does not allow: a   *)
(* right ends with the role, whatever was asked before, and what is saved  *)
(* in an investigation is shown to nobody who may not read it itself.      *)
RequestsStayWithinRights == \A x \in reached : MayDo(x[1], x[2])

\* An organization, or the legacy content, that the caller has no part in.
Outsider(o) == auth /\ ~admin /\ (o = Legacy \/ role[o] = "none")

(* Whoever has no role in an organization gets the same answer about it    *)
(* and about its records as about ones that do not exist, also when they   *)
(* are named next to a record of another organization, and so for legacy   *)
(* records and all but system admins.  The one exception is a drill in     *)
(* restore-test mode, which answers 403 before it looks for the role.      *)
OutsidersLearnNothing == \A o \in told : ~Outsider(o)

================================================================================
