------------------------------- MODULE Membership -------------------------------
(***************************************************************************)
(* Who belongs to one organization and to one of its investigations        *)
(* (domain/organizations: service, invitations, invitation_cleanup, and    *)
(* restore_service._restore_memberships; domain/investigations: members,   *)
(* access, service).  A request locks one row, checks what it read and     *)
(* writes in its commit: the organization's row for its members and        *)
(* invitations, the investigation's for its collaborators and items, the   *)
(* invitation's to accept it.  A restore writes memberships without the    *)
(* organization's lock.                                                    *)
(***************************************************************************)
EXTENDS Integers, FiniteSets

CONSTANTS Users,        \* the people of the organization, no system admins
          Founder,      \* who created the organization
          GivenRoles,   \* the organization roles that are given out
          GivenTeamRoles,  \* and the collaborator roles
          Invitations,  \* rows of organization_invitations
          Items,        \* records to save in the investigation
          Requests,     \* bound: requests handled at a time
          MaxRequests   \* bound: requests in all

ASSUME MembershipAssumption ==
    /\ IsFiniteSet(Users)
    /\ Founder \in Users
    /\ GivenRoles \subseteq {"owner", "admin", "member", "viewer"}
    /\ GivenTeamRoles \subseteq {"owner", "editor", "viewer"}

VARIABLES roles,        \* Users -> role in the organization, or "none"
          team,         \* Users -> role in the investigation, or "none"
          status,       \* of the investigation; "none": there is none
          items,        \* what is saved in it
          invitations,  \* Invitations -> [user, role, status]
          requests,     \* Requests -> the request, once it has its lock
          restore,      \* the restore of an archive into the organization
          asked,        \* requests so far
          raced,        \* history: a restore and a change of a member overlapped
          uses          \* history: Invitations -> memberships it has made

vars == <<roles, team, status, items, invitations, requests, restore, asked, raced, uses>>

System == "system"   \* a system admin, who is not a member
Actors == Users \cup {System}
Idle == [kind |-> "idle"]
NoInvitation == [user |-> Founder, role |-> "none", status |-> "none"]
NoRestore == [at |-> "idle", plan |-> [u \in Users |-> "none"], written |-> {},
              seen |-> [u \in Users |-> "none"], shares |-> FALSE]

Owners(role) == {u \in Users : role[u] = "owner"}

Init ==
    /\ roles = [u \in Users |-> IF u = Founder THEN "owner" ELSE "none"]
    /\ team = [u \in Users |-> "none"]
    /\ status = "none"
    /\ items = {}
    /\ invitations = [i \in Invitations |-> NoInvitation]
    /\ requests = [p \in Requests |-> Idle]
    /\ restore = NoRestore
    /\ asked = 0
    /\ raced = FALSE
    /\ uses = [i \in Invitations |-> 0]

--------------------------------------------------------------------------------

OrganizationKinds == {"change member", "invite", "revoke"}
TeamKinds == {"change collaborator", "close", "reopen", "delete", "save", "drop"}

\* Owners and system admins manage anyone, admins only members and viewers.
MayManage(actor, touched) ==
    \/ actor = System
    \/ actor \in Owners(roles)
    \/ actor \in Users /\ roles[actor] = "admin" /\ touched \subseteq {"member", "viewer", "none"}

\* permissions_for: a collaborator's role counts while they are a member.
Permissions(actor) ==
    IF actor = System THEN {"view", "edit", "delete", "manage"}
    ELSE IF roles[actor] \in {"owner", "admin"} THEN {"view", "edit", "delete", "manage"}
    ELSE IF roles[actor] = "none" \/ team[actor] = "none" THEN {}
    ELSE IF team[actor] = "owner" THEN {"view", "edit", "delete", "manage"}
    ELSE IF team[actor] = "editor" THEN {"view", "edit"}
    ELSE {"view"}

\* Mutant: rows are read without FOR UPDATE.
HeldNever(kinds) == FALSE

Held(kinds) == \E p \in Requests : requests[p].kind \in kinds

\* The FOR UPDATE of the organization waits for rows inserted under it.
OrganizationIsFree ==
    /\ ~Held(OrganizationKinds)
    /\ ~(restore.at = "written" /\ restore.shares)

\* Mutant: two owners are as good as one.
KeepsAnOwnerAmongAll(role, user, new) == role[user] = "owner" => Owners(role) # {}

\* _keep_an_owner
KeepsAnOwner(role, user, new) ==
    (role[user] = "owner" /\ new # "owner") => Cardinality(Owners(role)) > 1

Accept(p, request) ==
    /\ asked < MaxRequests
    /\ requests[p] = Idle
    /\ requests' = [requests EXCEPT ![p] = request]
    /\ asked' = asked + 1
    /\ UNCHANGED <<roles, team, status, items, invitations, restore, raced, uses>>

\* add_member, change_member_role and remove_member ("none").
CheckMember(p, actor, user, new) ==
    /\ OrganizationIsFree
    /\ MayManage(actor, {roles[user], new})
    /\ roles[user] # new
    /\ KeepsAnOwner(roles, user, new)
    /\ Accept(p, [kind |-> "change member", user |-> user, new |-> new])

\* An invitation is open for one address at a time.
CheckInvite(p, actor, user, role) ==
    /\ OrganizationIsFree
    /\ role # "owner" /\ MayManage(actor, {role})
    /\ roles[user] = "none"
    /\ \A i \in Invitations :
          invitations[i].user = user => invitations[i].status # "pending"
    /\ Accept(p, [kind |-> "invite", user |-> user, new |-> role])

\* revoke_invitation has the organization and goes on to the invitation.
LockToRevoke(p, actor, i) ==
    /\ OrganizationIsFree
    /\ invitations[i].status = "pending"
    /\ MayManage(actor, {invitations[i].role})
    /\ Accept(p, [kind |-> "revoke", invitation |-> i])

\* Mutant: the invitation is read without its lock.
LockToAcceptUnlocked(p, i) ==
    /\ invitations[i].status = "pending"
    /\ roles[invitations[i].user] = "none"
    /\ Accept(p, [kind |-> "accept", invitation |-> i])

\* resolve_token with lock, by the user it was made for.
LockToAccept(p, i) ==
    /\ \A q \in Requests :
          requests[q].kind = "accept" => requests[q].invitation # i
    /\ invitations[i].status = "pending"
    /\ roles[invitations[i].user] = "none"
    /\ Accept(p, [kind |-> "accept", invitation |-> i])

\* Somebody the actor may see becomes a collaborator, changes or goes.
CheckCollaborator(p, actor, user, new) ==
    /\ status # "none" /\ ~Held(TeamKinds)
    /\ "manage" \in Permissions(actor)
    /\ team[user] # new
    /\ team[user] = "none" => roles[user] # "none"
    /\ KeepsAnOwner(team, user, new)
    /\ Accept(p, [kind |-> "change collaborator", user |-> user, new |-> new])

\* update, delete, add_item and remove_item.
CheckInvestigation(p, actor, kind, item) ==
    /\ status # "none" /\ ~Held(TeamKinds)
    /\ (IF kind = "delete" THEN "delete" ELSE "edit") \in Permissions(actor)
    /\ kind \in {"delete", "save", "drop"} => status = "open"
    /\ kind = "save" => item \notin items
    /\ kind = "drop" => item \in items
    /\ Accept(p, [kind |-> kind, item |-> item])

--------------------------------------------------------------------------------

End(p) == requests' = [requests EXCEPT ![p] = Idle]

\* The row of a membership the restore has written and not committed.
Waits(user) == restore.at = "written" /\ user \in restore.written

ChangeMember(p) ==
    /\ requests[p].kind = "change member" /\ ~Waits(requests[p].user)
    /\ roles' = [roles EXCEPT ![requests[p].user] = requests[p].new]
    /\ End(p)
    /\ UNCHANGED <<team, status, items, invitations, restore, asked, raced, uses>>

CreateInvitation(p) ==
    /\ requests[p].kind = "invite"
    /\ \E i \in Invitations :
         /\ invitations[i].status = "none"
         /\ invitations' = [invitations EXCEPT ![i] =
               [user |-> requests[p].user, role |-> requests[p].new, status |-> "pending"]]
         /\ uses' = [uses EXCEPT ![i] = 0]
    /\ End(p)
    /\ UNCHANGED <<roles, team, status, items, restore, asked, raced>>

BeingAccepted(i) ==
    \E q \in Requests : requests[q].kind = "accept" /\ requests[q].invitation = i

\* The status is read again under the invitation's lock.
RevokeInvitation(p) ==
    /\ requests[p].kind = "revoke"
    /\ LET i == requests[p].invitation IN
       /\ ~BeingAccepted(i)
       /\ invitations' = [invitations EXCEPT
             ![i].status = IF @ = "pending" THEN "revoked" ELSE @]
    /\ End(p)
    /\ UNCHANGED <<roles, team, status, items, restore, asked, raced, uses>>

\* The new row waits for the organization's lock, as its foreign key does.
JoinOrganization(p) ==
    /\ requests[p].kind = "accept" /\ ~Held(OrganizationKinds)
    /\ LET i == requests[p].invitation
           user == invitations[i].user
       IN  /\ ~Waits(user)
           /\ IF roles[user] = "none"
              THEN /\ roles' = [roles EXCEPT ![user] = invitations[i].role]
                   /\ invitations' = [invitations EXCEPT ![i].status = "accepted"]
                   /\ uses' = [uses EXCEPT ![i] = @ + 1]
              ELSE UNCHANGED <<roles, invitations, uses>>
    /\ End(p)
    /\ UNCHANGED <<team, status, items, restore, asked, raced>>

\* An acceptance holds the invitation and waits for the organization, a
\* revocation the other way around: the database ends one of them.
BreakDeadlock(p, q) ==
    /\ requests[p].kind = "revoke" /\ requests[q].kind = "accept"
    /\ requests[p].invitation = requests[q].invitation
    /\ End(p) \/ End(q)
    /\ UNCHANGED <<roles, team, status, items, invitations, restore, asked, raced, uses>>

\* An invitation passes its expiry.
Expire(i) ==
    /\ invitations[i].status = "pending" /\ ~BeingAccepted(i)
    /\ invitations' = [invitations EXCEPT ![i].status = "expired"]
    /\ UNCHANGED <<roles, team, status, items, requests, restore, asked, raced, uses>>

\* cleanup-invitations skips locked rows and never takes a pending one.
Clean(i) ==
    /\ invitations[i].status \notin {"none", "pending"}
    /\ \A q \in Requests :
          requests[q].kind \in {"accept", "revoke"} => requests[q].invitation # i
    /\ invitations' = [invitations EXCEPT ![i] = NoInvitation]
    /\ UNCHANGED <<roles, team, status, items, requests, restore, asked, raced, uses>>

--------------------------------------------------------------------------------

\* A member creates the investigation and is its first owner.
CreateInvestigation(user) ==
    /\ status = "none" /\ roles[user] # "none"
    /\ restore.at # "written"
    /\ status' = "open"
    /\ team' = [u \in Users |-> IF u = user THEN "owner" ELSE "none"]
    /\ items' = {}
    /\ UNCHANGED <<roles, invitations, requests, restore, asked, raced, uses>>

ChangeCollaborator(p) ==
    /\ requests[p].kind = "change collaborator"
    /\ team' = [team EXCEPT ![requests[p].user] = requests[p].new]
    /\ End(p)
    /\ UNCHANGED <<roles, status, items, invitations, restore, asked, raced, uses>>

ChangeInvestigation(p) ==
    /\ requests[p].kind \in TeamKinds \ {"change collaborator"}
    /\ LET kind == requests[p].kind
           item == requests[p].item
       IN  /\ status' = CASE kind = "close" -> "closed" [] kind = "reopen" -> "open"
                          [] kind = "delete" -> "none" [] OTHER -> status
           /\ items' = CASE kind = "save" -> items \cup {item} [] kind = "drop" -> items \ {item}
                         [] kind = "delete" -> {} [] OTHER -> items
           /\ team' = IF kind = "delete" THEN [u \in Users |-> "none"] ELSE team
    /\ End(p)
    /\ UNCHANGED <<roles, invitations, restore, asked, raced, uses>>

--------------------------------------------------------------------------------

\* Rows that differ from what the archive says, after its users are mapped.
Written(plan) == {u \in Users : plan[u] # "none" /\ plan[u] # roles[u]}

\* _restore_memberships flushes; content: rows that refer to the organization
\* were inserted before, and keep FOR UPDATE away from it.
WriteMemberships(plan, content) ==
    /\ restore.at = "idle" /\ status = "none"
    /\ Owners(plan) # {}
    /\ LET shares == content \/ \E u \in Users : plan[u] # "none" /\ roles[u] = "none" IN
       /\ shares => ~Held(OrganizationKinds)
       /\ restore' = [at |-> "written", plan |-> plan, written |-> Written(plan),
                      seen |-> roles, shares |-> shares]
    /\ UNCHANGED <<roles, team, status, items, invitations, requests, asked, raced, uses>>

CommitMemberships ==
    /\ restore.at = "written"
    /\ roles' = [u \in Users |-> IF u \in restore.written THEN restore.plan[u] ELSE roles[u]]
    /\ raced' = (restore.seen # roles \/ Held({"change member"}))
    /\ restore' = [NoRestore EXCEPT !.at = "done"]
    /\ UNCHANGED <<team, status, items, invitations, requests, asked, uses>>

Check(p, actor) ==
    \/ \E u \in Users, new \in GivenRoles \cup {"none"} : CheckMember(p, actor, u, new)
    \/ \E u \in Users, role \in GivenRoles : CheckInvite(p, actor, u, role)
    \/ \E i \in Invitations : LockToRevoke(p, actor, i)
    \/ \E u \in Users, new \in GivenTeamRoles \cup {"none"} :
          CheckCollaborator(p, actor, u, new)
    \/ \E kind \in TeamKinds \ {"change collaborator"}, item \in Items :
          CheckInvestigation(p, actor, kind, item)

Commit(p) ==
    \/ ChangeMember(p) \/ CreateInvitation(p) \/ RevokeInvitation(p) \/ JoinOrganization(p)
    \/ ChangeCollaborator(p) \/ ChangeInvestigation(p)

Next ==
    \/ \E p \in Requests, actor \in Actors : Check(p, actor)
    \/ \E p \in Requests, i \in Invitations : LockToAccept(p, i)
    \/ \E p \in Requests : Commit(p)
    \/ \E p, q \in Requests : BreakDeadlock(p, q)
    \/ \E i \in Invitations : Expire(i) \/ Clean(i)
    \/ \E u \in Users : CreateInvestigation(u)
    \/ \E plan \in [Users -> GivenRoles \cup {"none"}], content \in BOOLEAN :
          WriteMemberships(plan, content)
    \/ CommitMemberships

Spec == Init /\ [][Next]_vars

--------------------------------------------------------------------------------

TypeOK ==
    /\ roles \in [Users -> GivenRoles \cup {"none", "owner"}]
    /\ team \in [Users -> GivenTeamRoles \cup {"none", "owner"}]
    /\ status \in {"none", "open", "closed"}
    /\ items \subseteq Items
    /\ \A i \in Invitations :
          invitations[i].status \in {"none", "pending", "accepted", "revoked", "expired"}

(* "An organization always keeps at least one owner" and an investigation  *)
(* with it, however requests overlap; only a restore of memberships alone, *)
(* which nothing keeps apart from them, can take the last one.             *)
OwnersRemain ==
    /\ Owners(roles) # {} \/ raced
    /\ status # "none" => Owners(team) # {}

(* "A token works only once": a member who was removed does not come back  *)
(* by an invitation that was used, or one that was revoked.                *)
InvitationsWorkOnce ==
    \A i \in Invitations :
        uses[i] <= 1 /\ (uses[i] = 1 => invitations[i].status \in {"accepted", "none"})

(* Nothing is saved in or taken from an investigation that is closed, even *)
(* by a request that saw it open.                                          *)
ClosedKeepsItems == [][status = "closed" => items' = items \/ status' = "none"]_vars

================================================================================
