---------------------------- MODULE AccessProofs -----------------------------
(***************************************************************************)
(* Who may do what stays right, for every set of people and requests:      *)
(* an organization and an investigation keep an owner, an invitation works *)
(* once, a closed investigation keeps its items; the system keeps an       *)
(* active admin; revocations and replaced passwords hold against sign-ins  *)
(* at work, and guesses are bounded, for every number of sign-ins,         *)
(* sessions, changes and revocations and all settings of the throttle; and *)
(* answers of the API keep to the rights of the caller and tell outsiders  *)
(* nothing, on every route and for every number of organizations.          *)
(***************************************************************************)
EXTENDS Membership, UserAdministration, SignIn, ApiAccess, FiniteSetTheorems, TLAPS

MemberRoles == GivenRoles \cup {"none", "owner"}
TeamRoles == GivenTeamRoles \cup {"none", "owner"}

(* What is known of a request at work, by its kind.                        *)
RequestRows ==
    {Idle}
    \cup [kind : {"change member", "invite"}, user : Users, new : MemberRoles]
    \cup [kind : {"revoke", "accept"}, invitation : Invitations]
    \cup [kind : {"change collaborator"}, user : Users, new : TeamRoles]
    \cup [kind : {"close", "reopen", "delete", "save", "drop"}, item : Items]

InvitationRows ==
    [user : Users, role : MemberRoles,
     status : {"none", "pending", "accepted", "revoked", "expired"}]

MembersTypeOK ==
    /\ roles \in [Users -> MemberRoles]
    /\ team \in [Users -> TeamRoles]
    /\ status \in {"none", "open", "closed"}
    /\ items \subseteq Items
    /\ invitations \in [Invitations -> InvitationRows]
    /\ requests \in [Requests -> RequestRows]
    /\ restore \in [at : {"idle", "written", "done"}, plan : [Users -> MemberRoles],
                    written : SUBSET Users, seen : [Users -> MemberRoles], shares : BOOLEAN]
    /\ raced \in BOOLEAN
    /\ uses \in [Invitations -> Nat]

(* The row a request locks keeps the others of its kind out.               *)
OneAtATime ==
    \A p, q \in Requests :
        \/ p = q
        \/ /\ ~(requests[p].kind \in OrganizationKinds /\ requests[q].kind \in OrganizationKinds)
           /\ ~(requests[p].kind \in TeamKinds /\ requests[q].kind \in TeamKinds)
           /\ requests[p].kind = "accept" /\ requests[q].kind = "accept" =>
                requests[p].invitation # requests[q].invitation

AnotherOwner(given, request) ==
    request.new = "owner" \/ \E u \in Owners(given) : u # request.user

(* What a request has checked is still so when it commits; a restore, which *)
(* takes no lock of the organization, is the exception.                     *)
Checked(request) ==
    /\ request.kind = "change member" => raced \/ AnotherOwner(roles, request)
    /\ request.kind = "change collaborator" => AnotherOwner(team, request)
    /\ request.kind \in TeamKinds => status # "none"
    /\ request.kind \in {"delete", "save", "drop"} => status = "open"
    /\ request.kind = "accept" => invitations[request.invitation].status = "pending"

ChecksHold == \A p \in Requests : Checked(requests[p])

(* A restore writes what it planned over what it saw.                      *)
RestoreKnows ==
    restore.at = "written" =>
        /\ Owners(restore.plan) # {}
        /\ restore.written =
              {u \in Users : restore.plan[u] # "none" /\ restore.plan[u] # restore.seen[u]}

MembersInv ==
    /\ MembersTypeOK /\ OneAtATime /\ ChecksHold /\ RestoreKnows
    /\ OwnersRemain /\ InvitationsWorkOnce

--------------------------------------------------------------------------------

(* Of two different locked admins one is left when the other goes.         *)
LEMMA AnotherOne ==
    ASSUME NEW S, IsFiniteSet(S), ~(Cardinality(S) <= 1), NEW x
    PROVE  \E y \in S : y # x
<1>1. SUFFICES ASSUME \A y \in S : y = x PROVE FALSE
  OBVIOUS
<1>2. S \subseteq {x}
  BY <1>1
<1>3. IsFiniteSet({x}) /\ Cardinality({x}) = 1
  BY FS_Singleton
<1>4. Cardinality(S) <= 1
  BY <1>2, <1>3, FS_Subset
<1>5. QED
  BY <1>4

(* One owner stands for the rest when the last but one goes.               *)
LEMMA OwnerLeft ==
    ASSUME NEW given \in [Users -> MemberRoles \cup TeamRoles], NEW user \in Users, NEW new,
           Owners(given) # {}, KeepsAnOwner(given, user, new)
    PROVE  new = "owner" \/ \E u \in Owners(given) : u # user
<1>1. CASE given[user] # "owner" \/ new = "owner"
  BY <1>1 DEF Owners
<1>2. CASE given[user] = "owner" /\ new # "owner"
  <2>1. Cardinality(Owners(given)) \in Nat /\ IsFiniteSet(Owners(given))
    BY MembershipAssumption, FS_Subset, FS_CardinalityType DEF Owners
  <2>2. ~(Cardinality(Owners(given)) <= 1)
    BY <1>2, <2>1 DEF KeepsAnOwner
  <2> QED BY <2>1, <2>2, AnotherOne
<1> QED BY <1>1, <1>2

(* A request that was let in is alone with its lock, and has been checked. *)
LEMMA AcceptKeeps ==
    ASSUME MembersInv, NEW p \in Requests, NEW request \in RequestRows, Accept(p, request),
           Checked(request),
           request.kind \in OrganizationKinds => ~Held(OrganizationKinds),
           request.kind \in TeamKinds => ~Held(TeamKinds),
           request.kind = "accept" => ~BeingAccepted(request.invitation)
    PROVE  MembersInv'
<1>1. /\ requests' = [requests EXCEPT ![p] = request]
      /\ UNCHANGED <<roles, team, status, items, invitations, restore, raced, uses>>
  BY DEF Accept
<1>2. requests \in [Requests -> RequestRows]
  BY DEF MembersInv, MembersTypeOK
<1>3. MembersTypeOK'
  BY <1>1 DEF MembersInv, MembersTypeOK
<1>4. OneAtATime'
  BY <1>1, <1>2 DEF MembersInv, OneAtATime, Held, BeingAccepted
<1>5. ChecksHold'
  <2>1. \A q \in Requests : requests'[q] = requests[q] \/ requests'[q] = request
    BY <1>1, <1>2
  <2>2. \A r : Checked(r)' <=> Checked(r)
    BY <1>1, ZenonT(30) DEF Checked, AnotherOwner, Owners
  <2>3. \A q \in Requests : Checked(requests'[q])
    BY <2>1 DEF MembersInv, ChecksHold
  <2> QED BY <2>2, <2>3 DEF ChecksHold
<1> QED
  BY <1>1, <1>3, <1>4, <1>5 DEF MembersInv, RestoreKnows, OwnersRemain, Owners,
     InvitationsWorkOnce

(* Each check lets in a request that is typed and true of the rows it read. *)
LEMMA CheckKeeps ==
    ASSUME MembersInv, NEW p \in Requests, NEW actor \in Actors, Check(p, actor)
    PROVE  MembersInv'
<1> USE DEF OrganizationKinds, TeamKinds
<1>0. /\ MembersTypeOK /\ OwnersRemain
      /\ \A u \in Users : roles[u] \in MemberRoles /\ team[u] \in TeamRoles
  BY DEF MembersInv, MembersTypeOK
<1>1. ASSUME NEW u \in Users, NEW new \in GivenRoles \cup {"none"}, CheckMember(p, actor, u, new)
      PROVE  MembersInv'
  <2> DEFINE request == [kind |-> "change member", user |-> u, new |-> new]
  <2>1. request \in RequestRows
    BY DEF RequestRows, MemberRoles
  <2>2. Checked(request)
    <3>1. CASE raced
      BY <3>1 DEF Checked
    <3>2. CASE ~raced
      <4>1. roles \in [Users -> MemberRoles \cup TeamRoles] /\ Owners(roles) # {}
        BY <1>0, <3>2 DEF MembersTypeOK, OwnersRemain
      <4>2. new = "owner" \/ \E v \in Owners(roles) : v # u
        BY <1>1, <4>1, OwnerLeft DEF CheckMember
      <4> QED BY <4>2 DEF Checked, AnotherOwner
    <3> QED BY <3>1, <3>2
  <2>3. Accept(p, request) /\ ~Held(OrganizationKinds)
    BY <1>1 DEF CheckMember, OrganizationIsFree
  <2> QED BY <2>1, <2>2, <2>3, AcceptKeeps
<1>2. ASSUME NEW u \in Users, NEW given \in GivenRoles, CheckInvite(p, actor, u, given)
      PROVE  MembersInv'
  <2> DEFINE request == [kind |-> "invite", user |-> u, new |-> given]
  <2>1. request \in RequestRows /\ Checked(request)
    BY DEF RequestRows, MemberRoles, Checked
  <2>2. Accept(p, request) /\ ~Held(OrganizationKinds)
    BY <1>2 DEF CheckInvite, OrganizationIsFree
  <2> QED BY <2>1, <2>2, AcceptKeeps
<1>3. ASSUME NEW i \in Invitations, LockToRevoke(p, actor, i) PROVE MembersInv'
  <2> DEFINE request == [kind |-> "revoke", invitation |-> i]
  <2>1. request \in RequestRows /\ Checked(request)
    BY DEF RequestRows, Checked
  <2>2. Accept(p, request) /\ ~Held(OrganizationKinds)
    BY <1>3 DEF LockToRevoke, OrganizationIsFree
  <2> QED BY <2>1, <2>2, AcceptKeeps
<1>4. ASSUME NEW u \in Users, NEW new \in GivenTeamRoles \cup {"none"},
             CheckCollaborator(p, actor, u, new)
      PROVE  MembersInv'
  <2> DEFINE request == [kind |-> "change collaborator", user |-> u, new |-> new]
  <2>1. request \in RequestRows
    BY DEF RequestRows, TeamRoles
  <2>2. Accept(p, request) /\ ~Held(TeamKinds) /\ status # "none" /\ KeepsAnOwner(team, u, new)
    BY <1>4 DEF CheckCollaborator
  <2>3. Checked(request)
    <3>1. team \in [Users -> MemberRoles \cup TeamRoles] /\ Owners(team) # {}
      BY <1>0, <2>2 DEF MembersTypeOK, OwnersRemain
    <3>2. new = "owner" \/ \E v \in Owners(team) : v # u
      BY <2>2, <3>1, OwnerLeft
    <3> QED BY <2>2, <3>2 DEF Checked, AnotherOwner
  <2> QED BY <2>1, <2>2, <2>3, AcceptKeeps
<1>5. ASSUME NEW kind \in TeamKinds \ {"change collaborator"}, NEW item \in Items,
             CheckInvestigation(p, actor, kind, item)
      PROVE  MembersInv'
  <2> DEFINE request == [kind |-> kind, item |-> item]
  <2>1. request \in RequestRows
    BY DEF RequestRows
  <2>2. /\ Accept(p, request) /\ ~Held(TeamKinds) /\ status # "none"
        /\ kind \in {"delete", "save", "drop"} => status = "open"
    BY <1>5 DEF CheckInvestigation
  <2>3. Checked(request)
    BY <2>2 DEF Checked
  <2> QED BY <2>1, <2>2, <2>3, AcceptKeeps
<1> QED BY <1>1, <1>2, <1>3, <1>4, <1>5 DEF Check

LEMMA LockToAcceptKeeps ==
    ASSUME MembersInv, NEW p \in Requests, NEW i \in Invitations, LockToAccept(p, i)
    PROVE  MembersInv'
<1> DEFINE request == [kind |-> "accept", invitation |-> i]
<1>1. request \in RequestRows
  BY DEF RequestRows
<1>2. Accept(p, request) /\ ~BeingAccepted(i) /\ invitations[i].status = "pending"
  BY DEF LockToAccept, BeingAccepted
<1>3. Checked(request)
  BY <1>2 DEF Checked, TeamKinds
<1>4. request.kind \notin OrganizationKinds /\ request.kind \notin TeamKinds
  BY DEF OrganizationKinds, TeamKinds
<1> QED BY <1>1, <1>2, <1>3, <1>4, AcceptKeeps

--------------------------------------------------------------------------------

(* The fields a request has, by its kind.                                  *)
LEMMA RequestFields ==
    ASSUME NEW request \in RequestRows
    PROVE  /\ request.kind = "change member" =>
                request.user \in Users /\ request.new \in MemberRoles
           /\ request.kind = "invite" => request.user \in Users /\ request.new \in MemberRoles
           /\ request.kind \in {"revoke", "accept"} => request.invitation \in Invitations
           /\ request.kind = "change collaborator" =>
                request.user \in Users /\ request.new \in TeamRoles
           /\ request.kind \in TeamKinds \ {"change collaborator"} => request.item \in Items
<1> USE DEF TeamKinds
<1>1. CASE request = Idle
  BY <1>1 DEF Idle
<1>2. CASE request \in [kind : {"change member", "invite"}, user : Users, new : MemberRoles]
  BY <1>2
<1>3. CASE request \in [kind : {"revoke", "accept"}, invitation : Invitations]
  BY <1>3
<1>4. CASE request \in [kind : {"change collaborator"}, user : Users, new : TeamRoles]
  BY <1>4
<1>5. CASE request \in [kind : {"close", "reopen", "delete", "save", "drop"}, item : Items]
  BY <1>5
<1> QED BY <1>1, <1>2, <1>3, <1>4, <1>5 DEF RequestRows

(* A request that ends leaves the others alone with their locks, and what  *)
(* they checked in place where its commit does.                            *)
LEMMA EndKeeps ==
    ASSUME MembersInv, NEW p \in Requests, End(p),
           \A q \in Requests \ {p} : Checked(requests[q])'
    PROVE  /\ requests' \in [Requests -> RequestRows]
           /\ OneAtATime' /\ ChecksHold'
<1>1. requests \in [Requests -> RequestRows] /\ requests' = [requests EXCEPT ![p] = Idle]
  BY DEF MembersInv, MembersTypeOK, End
<1>2. requests' \in [Requests -> RequestRows]
  BY <1>1 DEF RequestRows
<1>3. OneAtATime'
  BY <1>1 DEF MembersInv, OneAtATime, Idle, OrganizationKinds, TeamKinds
<1>4. ChecksHold'
  <2>1. Checked(Idle)'
    BY DEF Checked, Idle, TeamKinds
  <2>2. ASSUME NEW q \in Requests PROVE Checked(requests[q])'
    <3>1. CASE q = p
      BY <1>1, <2>1, <3>1 DEF Checked
    <3>2. CASE q # p
      BY <3>2
    <3> QED BY <3>1, <3>2
  <2> QED BY <2>2 DEF ChecksHold
<1> QED BY <1>2, <1>3, <1>4

LEMMA RequestsAre ==
    ASSUME MembersInv, NEW p \in Requests
    PROVE  requests[p] \in RequestRows /\ Checked(requests[p])
  BY DEF MembersInv, MembersTypeOK, ChecksHold

(* The members change under the lock of the organization, and one other    *)
(* owner is there to see the last one but them go.                         *)
LEMMA ChangeMemberKeeps ==
    ASSUME MembersInv, NEW p \in Requests, ChangeMember(p)
    PROVE  MembersInv'
<1> DEFINE user == requests[p].user
           new == requests[p].new
<1>1. /\ requests[p].kind = "change member" /\ End(p)
      /\ roles' = [roles EXCEPT ![user] = new]
      /\ UNCHANGED <<team, status, items, invitations, restore, asked, raced, uses>>
  BY DEF ChangeMember
<1>2. user \in Users /\ new \in MemberRoles /\ roles \in [Users -> MemberRoles]
  BY <1>1, RequestsAre, RequestFields DEF MembersInv, MembersTypeOK
<1>3. raced \/ new = "owner" \/ \E u \in Owners(roles) : u # user
  BY <1>1, RequestsAre DEF Checked, AnotherOwner
<1> HIDE DEF user, new
<1>4. ASSUME NEW q \in Requests \ {p} PROVE Checked(requests[q])'
  <2>1. requests'[q] = requests[q] /\ requests[q].kind # "change member"
    <3>1. requests'[q] = requests[q]
      BY <1>1 DEF End, MembersInv, MembersTypeOK
    <3>2. requests[q].kind # "change member"
      BY <1>1 DEF MembersInv, OneAtATime, OrganizationKinds
    <3> QED BY <3>1, <3>2
  <2>2. Checked(requests[q])
    BY RequestsAre
  <2> QED BY <1>1, <2>1, <2>2 DEF Checked, AnotherOwner, Owners
<1>5. requests' \in [Requests -> RequestRows] /\ OneAtATime' /\ ChecksHold'
  BY <1>1, <1>4, EndKeeps
<1>6. MembersTypeOK'
  BY <1>1, <1>2, <1>5 DEF MembersInv, MembersTypeOK
<1>7. raced \/ Owners(roles') # {}
  <2>1. CASE new = "owner"
    BY <1>1, <1>2, <2>1 DEF Owners
  <2>2. CASE \E u \in Owners(roles) : u # user
    BY <1>1, <1>2, <2>2 DEF Owners
  <2> QED BY <1>3, <2>1, <2>2
<1> QED BY <1>1, <1>5, <1>6, <1>7 DEF MembersInv, RestoreKnows, OwnersRemain, Owners,
        InvitationsWorkOnce

LEMMA CreateInvitationKeeps ==
    ASSUME MembersInv, NEW p \in Requests, CreateInvitation(p)
    PROVE  MembersInv'
<1>1. /\ requests[p].kind = "invite" /\ End(p)
      /\ UNCHANGED <<roles, team, status, items, restore, asked, raced>>
  BY DEF CreateInvitation
<1>2. PICK i \in Invitations :
        /\ invitations[i].status = "none"
        /\ invitations' = [invitations EXCEPT ![i] =
              [user |-> requests[p].user, role |-> requests[p].new, status |-> "pending"]]
        /\ uses' = [uses EXCEPT ![i] = 0]
  BY DEF CreateInvitation
<1>3. requests[p].user \in Users /\ requests[p].new \in MemberRoles
  BY <1>1, RequestsAre, RequestFields
<1>4. invitations \in [Invitations -> InvitationRows] /\ uses \in [Invitations -> Nat]
  BY DEF MembersInv, MembersTypeOK
<1>5. invitations' \in [Invitations -> InvitationRows] /\ uses' \in [Invitations -> Nat]
  BY <1>2, <1>3, <1>4 DEF InvitationRows
<1>6. \A j \in Invitations : invitations[j].status = "pending" => invitations'[j].status = "pending"
  BY <1>2, <1>4
<1>7. ASSUME NEW q \in Requests \ {p} PROVE Checked(requests[q])'
  <2>1. requests'[q] = requests[q]
    BY <1>1 DEF End, MembersInv, MembersTypeOK
  <2>2. Checked(requests[q])
    BY RequestsAre
  <2>3. requests[q].kind = "accept" => requests[q].invitation \in Invitations
    BY RequestsAre, RequestFields
  <2> QED BY <1>1, <1>6, <2>1, <2>2, <2>3 DEF Checked, AnotherOwner, Owners
<1>8. requests' \in [Requests -> RequestRows] /\ OneAtATime' /\ ChecksHold'
  BY <1>1, <1>7, EndKeeps
<1>9. MembersTypeOK'
  BY <1>1, <1>5, <1>8 DEF MembersInv, MembersTypeOK
<1>10. InvitationsWorkOnce'
  BY <1>2, <1>4 DEF MembersInv, InvitationsWorkOnce
<1> QED BY <1>1, <1>8, <1>9, <1>10 DEF MembersInv, RestoreKnows, OwnersRemain, Owners

LEMMA RevokeInvitationKeeps ==
    ASSUME MembersInv, NEW p \in Requests, RevokeInvitation(p)
    PROVE  MembersInv'
<1> DEFINE i == requests[p].invitation
<1>1. /\ requests[p].kind = "revoke" /\ End(p) /\ ~BeingAccepted(i)
      /\ invitations' = [invitations EXCEPT
            ![i].status = IF @ = "pending" THEN "revoked" ELSE @]
      /\ UNCHANGED <<roles, team, status, items, restore, asked, raced, uses>>
  BY DEF RevokeInvitation
<1>2. i \in Invitations
  BY <1>1, RequestsAre, RequestFields
<1>3. invitations \in [Invitations -> InvitationRows] /\ uses \in [Invitations -> Nat]
  BY DEF MembersInv, MembersTypeOK
<1> HIDE DEF i
<1>4. PICK x \in {invitations[i].status, "revoked"} :
        /\ invitations' = [invitations EXCEPT ![i].status = x]
        /\ invitations[i].status # "pending" => x = invitations[i].status
  BY <1>1, <1>2, <1>3
<1>5. invitations' \in [Invitations -> InvitationRows]
  BY <1>2, <1>3, <1>4 DEF InvitationRows
<1>6. ASSUME NEW q \in Requests \ {p} PROVE Checked(requests[q])'
  <2>1. requests'[q] = requests[q]
    BY <1>1 DEF End, MembersInv, MembersTypeOK
  <2>2. Checked(requests[q])
    BY RequestsAre
  <2>3. requests[q].kind = "accept" =>
          requests[q].invitation \in Invitations /\ requests[q].invitation # i
    BY <1>1, RequestsAre, RequestFields DEF BeingAccepted
  <2>4. requests[q].kind = "accept" =>
          invitations'[requests[q].invitation] = invitations[requests[q].invitation]
    BY <1>3, <1>4, <2>3
  <2> QED BY <1>1, <2>1, <2>2, <2>4 DEF Checked, AnotherOwner, Owners
<1>7. requests' \in [Requests -> RequestRows] /\ OneAtATime' /\ ChecksHold'
  BY <1>1, <1>6, EndKeeps
<1>8. MembersTypeOK'
  BY <1>1, <1>5, <1>7 DEF MembersInv, MembersTypeOK
<1>9. InvitationsWorkOnce'
  BY <1>1, <1>2, <1>3, <1>4 DEF MembersInv, InvitationsWorkOnce
<1> QED BY <1>1, <1>7, <1>8, <1>9 DEF MembersInv, RestoreKnows, OwnersRemain, Owners

LEMMA JoinOrganizationKeeps ==
    ASSUME MembersInv, NEW p \in Requests, JoinOrganization(p)
    PROVE  MembersInv'
<1> DEFINE i == requests[p].invitation
           user == invitations[i].user
<1>1. /\ requests[p].kind = "accept" /\ End(p) /\ ~Held(OrganizationKinds)
      /\ \/ /\ roles[user] = "none"
            /\ roles' = [roles EXCEPT ![user] = invitations[i].role]
            /\ invitations' = [invitations EXCEPT ![i].status = "accepted"]
            /\ uses' = [uses EXCEPT ![i] = @ + 1]
         \/ UNCHANGED <<roles, invitations, uses>>
      /\ UNCHANGED <<team, status, items, restore, asked, raced>>
  BY DEF JoinOrganization
<1>2. i \in Invitations /\ invitations[i].status = "pending"
  BY <1>1, RequestsAre, RequestFields DEF Checked
<1>3. /\ invitations \in [Invitations -> InvitationRows] /\ uses \in [Invitations -> Nat]
      /\ roles \in [Users -> MemberRoles]
  BY DEF MembersInv, MembersTypeOK
<1>4. user \in Users /\ invitations[i].role \in MemberRoles
  BY <1>2, <1>3 DEF InvitationRows
<1>5. uses[i] = 0
  <2>1. uses[i] <= 1 /\ uses[i] # 1
    BY <1>2 DEF MembersInv, InvitationsWorkOnce
  <2> QED BY <1>2, <1>3, <2>1
<1> HIDE DEF i, user
<1>6. /\ roles' \in [Users -> MemberRoles] /\ invitations' \in [Invitations -> InvitationRows]
      /\ uses' \in [Invitations -> Nat]
  <2>1. roles' \in [Users -> MemberRoles]
    BY <1>1, <1>3, <1>4
  <2>2. invitations' \in [Invitations -> InvitationRows]
    BY <1>1, <1>3 DEF InvitationRows
  <2>3. uses' \in [Invitations -> Nat]
    BY <1>1, <1>3
  <2> QED BY <2>1, <2>2, <2>3
<1>7. Owners(roles) \subseteq Owners(roles')
  BY <1>1, <1>3, <1>4 DEF Owners
<1>8. ASSUME NEW q \in Requests \ {p} PROVE Checked(requests[q])'
  <2>1. requests'[q] = requests[q]
    BY <1>1 DEF End, MembersInv, MembersTypeOK
  <2>2. requests[q].kind # "change member" /\ Checked(requests[q])
    BY <1>1, RequestsAre DEF Held, OrganizationKinds
  <2>3. requests[q].kind = "accept" =>
          requests[q].invitation \in Invitations /\ requests[q].invitation # i
    BY <1>1, RequestsAre, RequestFields DEF MembersInv, OneAtATime, i
  <2>4. requests[q].kind = "accept" =>
          invitations'[requests[q].invitation] = invitations[requests[q].invitation]
    BY <1>1, <1>3, <2>3
  <2> QED BY <1>1, <2>1, <2>2, <2>4 DEF Checked, AnotherOwner, Owners
<1>9. requests' \in [Requests -> RequestRows] /\ OneAtATime' /\ ChecksHold'
  BY <1>1, <1>8, EndKeeps
<1>10. MembersTypeOK'
  BY <1>1, <1>6, <1>9 DEF MembersInv, MembersTypeOK
<1>11. InvitationsWorkOnce'
  <2>1. CASE UNCHANGED <<roles, invitations, uses>>
    BY <2>1 DEF MembersInv, InvitationsWorkOnce
  <2>2. CASE /\ invitations' = [invitations EXCEPT ![i].status = "accepted"]
             /\ uses' = [uses EXCEPT ![i] = @ + 1]
    <3>1. uses'[i] = 1 /\ invitations'[i].status = "accepted"
      BY <1>2, <1>3, <1>5, <2>2
    <3>2. \A j \in Invitations \ {i} : uses'[j] = uses[j] /\ invitations'[j] = invitations[j]
      BY <1>3, <2>2
    <3> QED BY <3>1, <3>2 DEF MembersInv, InvitationsWorkOnce
  <2> QED BY <1>1, <2>1, <2>2
<1>12. OwnersRemain'
  BY <1>1, <1>7 DEF MembersInv, OwnersRemain, Owners
<1> QED BY <1>1, <1>9, <1>10, <1>11, <1>12 DEF MembersInv, RestoreKnows, Owners

(* The database ends a request and rolls it back.                          *)
LEMMA BreakDeadlockKeeps ==
    ASSUME MembersInv, NEW p \in Requests, NEW q \in Requests, BreakDeadlock(p, q)
    PROVE  MembersInv'
<1>1. PICK r \in Requests :
        /\ End(r)
        /\ UNCHANGED <<roles, team, status, items, invitations, restore, asked, raced, uses>>
  BY DEF BreakDeadlock
<1>2. ASSUME NEW o \in Requests \ {r} PROVE Checked(requests[o])'
  <2>1. requests'[o] = requests[o]
    BY <1>1 DEF End, MembersInv, MembersTypeOK
  <2>2. Checked(requests[o])
    BY RequestsAre
  <2> QED BY <1>1, <2>1, <2>2 DEF Checked, AnotherOwner, Owners
<1>3. requests' \in [Requests -> RequestRows] /\ OneAtATime' /\ ChecksHold'
  BY <1>1, <1>2, EndKeeps
<1>4. MembersTypeOK'
  BY <1>1, <1>3 DEF MembersInv, MembersTypeOK
<1> QED BY <1>1, <1>3, <1>4 DEF MembersInv, RestoreKnows, OwnersRemain, Owners,
        InvitationsWorkOnce

(* Nobody is accepting an invitation that expires or is cleaned up.        *)
LEMMA ExpiryKeeps ==
    ASSUME MembersInv, NEW i \in Invitations, Expire(i) \/ Clean(i)
    PROVE  MembersInv'
<1>1. /\ ~BeingAccepted(i)
      /\ UNCHANGED <<roles, team, status, items, requests, restore, asked, raced, uses>>
  BY DEF Expire, Clean, BeingAccepted
<1>2. \/ /\ invitations' = [invitations EXCEPT ![i].status = "expired"]
         /\ invitations[i].status = "pending"
      \/ invitations' = [invitations EXCEPT ![i] = NoInvitation]
  BY DEF Expire, Clean
<1>3. invitations \in [Invitations -> InvitationRows] /\ uses \in [Invitations -> Nat]
  BY DEF MembersInv, MembersTypeOK
<1>4. invitations' \in [Invitations -> InvitationRows]
  BY <1>2, <1>3, MembershipAssumption DEF InvitationRows, NoInvitation, MemberRoles
<1>5. ASSUME NEW q \in Requests PROVE Checked(requests[q])'
  <2>1. requests[q].kind = "accept" =>
          requests[q].invitation \in Invitations /\ requests[q].invitation # i
    BY <1>1, RequestsAre, RequestFields DEF BeingAccepted
  <2>2. requests[q].kind = "accept" =>
          invitations'[requests[q].invitation] = invitations[requests[q].invitation]
    BY <1>2, <1>3, <2>1
  <2>3. Checked(requests[q])
    BY RequestsAre
  <2> QED BY <1>1, <2>2, <2>3 DEF Checked, AnotherOwner, Owners
<1>6. MembersTypeOK' /\ OneAtATime' /\ ChecksHold'
  BY <1>1, <1>4, <1>5 DEF MembersInv, MembersTypeOK, OneAtATime, ChecksHold
<1>7. InvitationsWorkOnce'
  BY <1>1, <1>2, <1>3 DEF MembersInv, InvitationsWorkOnce, NoInvitation
<1> QED BY <1>1, <1>6, <1>7 DEF MembersInv, RestoreKnows, OwnersRemain, Owners

--------------------------------------------------------------------------------

LEMMA CreateInvestigationKeeps ==
    ASSUME MembersInv, NEW user \in Users, CreateInvestigation(user)
    PROVE  MembersInv'
<1>1. /\ status = "none" /\ status' = "open" /\ items' = {}
      /\ team' = [u \in Users |-> IF u = user THEN "owner" ELSE "none"]
      /\ UNCHANGED <<roles, invitations, requests, restore, asked, raced, uses>>
  BY DEF CreateInvestigation
<1>2. team' \in [Users -> TeamRoles] /\ user \in Owners(team')
  BY <1>1 DEF TeamRoles, Owners
<1>3. MembersTypeOK'
  BY <1>1, <1>2 DEF MembersInv, MembersTypeOK
<1>4. ASSUME NEW q \in Requests PROVE Checked(requests[q])'
  <2>1. requests[q].kind \notin TeamKinds /\ Checked(requests[q])
    BY <1>1, RequestsAre DEF Checked
  <2> QED BY <1>1, <2>1 DEF Checked, AnotherOwner, Owners, TeamKinds
<1>5. OneAtATime' /\ ChecksHold'
  BY <1>1, <1>4 DEF MembersInv, OneAtATime, ChecksHold
<1>6. OwnersRemain'
  BY <1>1, <1>2 DEF MembersInv, OwnersRemain, Owners
<1> QED BY <1>1, <1>3, <1>5, <1>6 DEF MembersInv, RestoreKnows, Owners, InvitationsWorkOnce

LEMMA ChangeCollaboratorKeeps ==
    ASSUME MembersInv, NEW p \in Requests, ChangeCollaborator(p)
    PROVE  MembersInv'
<1> DEFINE user == requests[p].user
           new == requests[p].new
<1>1. /\ requests[p].kind = "change collaborator" /\ End(p)
      /\ team' = [team EXCEPT ![user] = new]
      /\ UNCHANGED <<roles, status, items, invitations, restore, asked, raced, uses>>
  BY DEF ChangeCollaborator
<1>2. user \in Users /\ new \in TeamRoles /\ team \in [Users -> TeamRoles]
  BY <1>1, RequestsAre, RequestFields DEF MembersInv, MembersTypeOK
<1>3. new = "owner" \/ \E u \in Owners(team) : u # user
  BY <1>1, RequestsAre DEF Checked, AnotherOwner
<1> HIDE DEF user, new
<1>4. ASSUME NEW q \in Requests \ {p} PROVE Checked(requests[q])'
  <2>1. requests'[q] = requests[q]
    BY <1>1 DEF End, MembersInv, MembersTypeOK
  <2>2. requests[q].kind \notin TeamKinds
    BY <1>1 DEF MembersInv, OneAtATime, TeamKinds
  <2>3. Checked(requests[q])
    BY RequestsAre
  <2> QED BY <1>1, <2>1, <2>2, <2>3 DEF Checked, AnotherOwner, Owners, TeamKinds
<1>5. requests' \in [Requests -> RequestRows] /\ OneAtATime' /\ ChecksHold'
  BY <1>1, <1>4, EndKeeps
<1>6. MembersTypeOK'
  BY <1>1, <1>2, <1>5 DEF MembersInv, MembersTypeOK
<1>7. Owners(team') # {}
  <2>1. CASE new = "owner"
    BY <1>1, <1>2, <2>1 DEF Owners
  <2>2. CASE \E u \in Owners(team) : u # user
    BY <1>1, <1>2, <2>2 DEF Owners
  <2> QED BY <1>3, <2>1, <2>2
<1> QED BY <1>1, <1>5, <1>6, <1>7 DEF MembersInv, RestoreKnows, OwnersRemain, Owners,
        InvitationsWorkOnce

LEMMA ChangeInvestigationKeeps ==
    ASSUME MembersInv, NEW p \in Requests, ChangeInvestigation(p)
    PROVE  MembersInv'
<1> DEFINE kind == requests[p].kind
           item == requests[p].item
<1>1. /\ kind \in TeamKinds \ {"change collaborator"} /\ End(p)
      /\ UNCHANGED <<roles, invitations, restore, asked, raced, uses>>
  BY DEF ChangeInvestigation
<1>2. /\ status' = CASE kind = "close" -> "closed" [] kind = "reopen" -> "open"
                     [] kind = "delete" -> "none" [] OTHER -> status
      /\ items' = CASE kind = "save" -> items \cup {item} [] kind = "drop" -> items \ {item}
                    [] kind = "delete" -> {} [] OTHER -> items
      /\ team' = IF kind = "delete" THEN [u \in Users |-> "none"] ELSE team
  BY DEF ChangeInvestigation
<1>3. item \in Items /\ status # "none"
  BY <1>1, RequestsAre, RequestFields DEF Checked
<1>4. ASSUME NEW q \in Requests \ {p} PROVE Checked(requests[q])'
  <2>1. requests'[q] = requests[q]
    BY <1>1 DEF End, MembersInv, MembersTypeOK
  <2>2. requests[q].kind \notin TeamKinds
    BY <1>1 DEF MembersInv, OneAtATime
  <2>3. Checked(requests[q])
    BY RequestsAre
  <2> QED BY <1>1, <2>1, <2>2, <2>3 DEF Checked, AnotherOwner, Owners, TeamKinds
<1>5. requests' \in [Requests -> RequestRows] /\ OneAtATime' /\ ChecksHold'
  BY <1>1, <1>4, EndKeeps
<1> HIDE DEF kind, item
<1>6. /\ status' \in {"none", "open", "closed"} /\ items' \subseteq Items
      /\ team' \in [Users -> TeamRoles]
  <2>1. status' \in {"none", "open", "closed"}
    BY <1>2 DEF MembersInv, MembersTypeOK
  <2>2. items' \subseteq Items
    BY <1>2, <1>3 DEF MembersInv, MembersTypeOK
  <2>3. team' \in [Users -> TeamRoles]
    BY <1>2 DEF MembersInv, MembersTypeOK, TeamRoles
  <2> QED BY <2>1, <2>2, <2>3
<1>7. MembersTypeOK'
  BY <1>1, <1>5, <1>6 DEF MembersInv, MembersTypeOK
<1>8. OwnersRemain'
  <2>1. CASE kind = "delete"
    BY <1>1, <1>2, <2>1 DEF MembersInv, OwnersRemain, Owners
  <2>2. CASE kind # "delete"
    BY <1>1, <1>2, <1>3, <2>2 DEF MembersInv, OwnersRemain, Owners
  <2> QED BY <2>1, <2>2
<1> QED BY <1>1, <1>5, <1>7, <1>8 DEF MembersInv, RestoreKnows, Owners, InvitationsWorkOnce

--------------------------------------------------------------------------------

LEMMA WriteMembershipsKeeps ==
    ASSUME MembersInv, NEW plan \in [Users -> GivenRoles \cup {"none"}], NEW content \in BOOLEAN,
           WriteMemberships(plan, content)
    PROVE  MembersInv'
<1>1. PICK shares \in BOOLEAN :
        restore' = [at |-> "written", plan |-> plan, written |-> Written(plan),
                    seen |-> roles, shares |-> shares]
  BY DEF WriteMemberships
<1>2. /\ Owners(plan) # {}
      /\ UNCHANGED <<roles, team, status, items, invitations, requests, asked, raced, uses>>
  BY DEF WriteMemberships
<1>3. /\ restore'.at = "written" /\ restore'.plan = plan /\ restore'.seen = roles
      /\ restore'.written = Written(plan)
  BY <1>1
<1>4. MembersTypeOK'
  <2>1. /\ plan \in [Users -> MemberRoles] /\ roles \in [Users -> MemberRoles]
        /\ Written(plan) \subseteq Users
    BY DEF MemberRoles, Written, MembersInv, MembersTypeOK
  <2> QED BY <1>1, <1>2, <2>1 DEF MembersInv, MembersTypeOK
<1>5. RestoreKnows'
  BY <1>2, <1>3 DEF RestoreKnows, Written, Owners
<1>6. ChecksHold'
  BY <1>2 DEF MembersInv, ChecksHold, Checked, AnotherOwner, Owners
<1> QED BY <1>2, <1>4, <1>5, <1>6 DEF MembersInv, OneAtATime, OwnersRemain, Owners,
        InvitationsWorkOnce

(* A restore that met nobody leaves an owner of its plan: written, or      *)
(* already one.                                                            *)
LEMMA CommitMembershipsKeeps ==
    ASSUME MembersInv, CommitMemberships
    PROVE  MembersInv'
<1>1. /\ restore.at = "written"
      /\ roles' = [u \in Users |-> IF u \in restore.written THEN restore.plan[u] ELSE roles[u]]
      /\ raced' = (restore.seen # roles \/ Held({"change member"}))
      /\ restore' = [NoRestore EXCEPT !.at = "done"]
      /\ UNCHANGED <<team, status, items, invitations, requests, asked, uses>>
  BY DEF CommitMemberships
<1>2. /\ roles \in [Users -> MemberRoles] /\ restore.plan \in [Users -> MemberRoles]
      /\ Owners(restore.plan) # {}
      /\ restore.written =
            {u \in Users : restore.plan[u] # "none" /\ restore.plan[u] # restore.seen[u]}
  BY <1>1 DEF MembersInv, MembersTypeOK, RestoreKnows
<1>3. restore'.at = "done"
  BY <1>1 DEF NoRestore
<1>4. MembersTypeOK'
  <2>1. roles' \in [Users -> MemberRoles]
    BY <1>1, <1>2
  <2>2. restore' \in [at : {"idle", "written", "done"}, plan : [Users -> MemberRoles],
                      written : SUBSET Users, seen : [Users -> MemberRoles], shares : BOOLEAN]
    BY <1>1 DEF NoRestore, MemberRoles
  <2>3. raced' \in BOOLEAN
    BY <1>1, Zenon
  <2> QED BY <1>1, <2>1, <2>2, <2>3 DEF MembersInv, MembersTypeOK
<1>5. RestoreKnows'
  BY <1>3 DEF RestoreKnows
<1>6. raced' \/ Owners(roles') # {}
  <2>1. SUFFICES ASSUME restore.seen = roles PROVE Owners(roles') # {}
    BY <1>1, Zenon
  <2>2. PICK u \in Users : restore.plan[u] = "owner"
    BY <1>2 DEF Owners
  <2>3. roles'[u] = "owner"
    BY <1>1, <1>2, <2>1, <2>2
  <2> QED BY <2>3 DEF Owners
<1>7. ASSUME NEW q \in Requests PROVE Checked(requests[q])'
  <2>1. requests[q].kind = "change member" => raced'
    BY <1>1, Zenon DEF Held
  <2>2. Checked(requests[q])
    BY RequestsAre
  <2> QED BY <1>1, <2>1, <2>2 DEF Checked, AnotherOwner, Owners
<1>8. ChecksHold' /\ OneAtATime'
  BY <1>1, <1>7 DEF MembersInv, ChecksHold, OneAtATime
<1> QED BY <1>1, <1>4, <1>5, <1>6, <1>8 DEF MembersInv, OwnersRemain, Owners, InvitationsWorkOnce

LEMMA InitMembers == Init => MembersInv
<1> SUFFICES ASSUME Init PROVE MembersInv
  OBVIOUS
<1> USE MembershipAssumption DEF Init
<1>1. \A p \in Requests : requests[p].kind = "idle"
  BY DEF Idle
<1>2. restore.at = "idle"
  BY DEF NoRestore
<1>3. MembersTypeOK
  <2>1. requests \in [Requests -> RequestRows] /\ invitations \in [Invitations -> InvitationRows]
    BY DEF RequestRows, InvitationRows, NoInvitation, MemberRoles
  <2>2. restore \in [at : {"idle", "written", "done"}, plan : [Users -> MemberRoles],
                     written : SUBSET Users, seen : [Users -> MemberRoles], shares : BOOLEAN]
    BY DEF NoRestore, MemberRoles
  <2> QED BY <2>1, <2>2 DEF MembersTypeOK, MemberRoles, TeamRoles
<1>4. OneAtATime /\ ChecksHold
  BY <1>1 DEF OneAtATime, ChecksHold, Checked, OrganizationKinds, TeamKinds
<1>5. OwnersRemain /\ InvitationsWorkOnce
  BY DEF OwnersRemain, Owners, InvitationsWorkOnce
<1> QED BY <1>2, <1>3, <1>4, <1>5 DEF MembersInv, RestoreKnows

LEMMA MembersStepInv == MembersInv /\ [Next]_vars => MembersInv'
<1> SUFFICES ASSUME MembersInv, [Next]_vars PROVE MembersInv'
  OBVIOUS
<1>1. ASSUME NEW p \in Requests, Commit(p) PROVE MembersInv'
  BY <1>1, ChangeMemberKeeps, CreateInvitationKeeps, RevokeInvitationKeeps, JoinOrganizationKeeps,
     ChangeCollaboratorKeeps, ChangeInvestigationKeeps DEF Commit
<1>2. CASE UNCHANGED vars
  <2> USE <1>2 DEF vars, MembersInv
  <2>1. MembersTypeOK' /\ OneAtATime' /\ RestoreKnows'
    BY DEF MembersTypeOK, OneAtATime, RestoreKnows, Owners
  <2>2. ChecksHold'
    BY DEF ChecksHold, Checked, AnotherOwner, Owners
  <2>3. OwnersRemain' /\ InvitationsWorkOnce'
    BY DEF OwnersRemain, Owners, InvitationsWorkOnce
  <2> QED BY <2>1, <2>2, <2>3
<1>3. CASE Next
  BY <1>1, <1>3, CheckKeeps, LockToAcceptKeeps, BreakDeadlockKeeps, ExpiryKeeps,
     CreateInvestigationKeeps, WriteMembershipsKeeps, CommitMembershipsKeeps DEF Next
<1> QED BY <1>2, <1>3

(* "An organization always keeps at least one owner", and an investigation *)
(* with it: two owners who demote each other, a removal and a restore      *)
(* never take the last one between them, unless a restore of memberships   *)
(* alone overlapped a change of a member.                                  *)
THEOREM OwnersAlwaysRemain == Spec => []OwnersRemain
<1>1. MembersInv => OwnersRemain
  BY DEF MembersInv
<1> QED BY InitMembers, MembersStepInv, <1>1, PTL DEF Spec

(* "A token works only once", for every interleaving of acceptances,       *)
(* revocations, expiry and cleanup.                                        *)
THEOREM InvitationsAlwaysWorkOnce == Spec => []InvitationsWorkOnce
<1>1. MembersInv => InvitationsWorkOnce
  BY DEF MembersInv
<1> QED BY InitMembers, MembersStepInv, <1>1, PTL DEF Spec

(* A closed investigation keeps its items: a request that saw it open      *)
(* still has its lock when it commits.                                     *)
THEOREM ClosedAlwaysKeepsItems == Spec => ClosedKeepsItems
<1>1. MembersInv /\ [Next]_vars => [status = "closed" => items' = items \/ status' = "none"]_vars
  <2> SUFFICES ASSUME MembersInv, Next, status = "closed" PROVE items' = items \/ status' = "none"
    BY DEF vars
  <2>1. ASSUME NEW p \in Requests, Commit(p) PROVE items' = items \/ status' = "none"
    <3>1. CASE ChangeInvestigation(p)
      <4>1. requests[p].kind \notin {"save", "drop", "delete"}
        BY <3>1, RequestsAre DEF Checked
      <4> QED BY <3>1, <4>1 DEF ChangeInvestigation
    <3> QED BY <2>1, <3>1 DEF Commit, ChangeMember, CreateInvitation, RevokeInvitation,
               JoinOrganization, ChangeCollaborator
  <2>2. ASSUME NEW p \in Requests, NEW actor \in Actors, Check(p, actor) PROVE items' = items
    BY <2>2 DEF Check, CheckMember, CheckInvite, LockToRevoke, CheckCollaborator,
       CheckInvestigation, Accept
  <2> QED BY <2>1, <2>2 DEF Next, LockToAccept, Accept, BreakDeadlock, Expire, Clean,
             CreateInvestigation, WriteMemberships, CommitMemberships
<1> QED BY InitMembers, MembersStepInv, <1>1, PTL DEF Spec, ClosedKeepsItems

--------------------------------------------------------------------------------

(* The rows a request has locked are rows of active admins, because nobody *)
(* else can deactivate them: the count it takes is still true when it is   *)
(* used.                                                                   *)
CountsHold == \A a \in Accounts : rows[a] \subseteq ActiveAdmins

AdminInv == AdminTypeOK /\ CountsHold /\ AnAdminRemains

(* The first admins are there, and nothing is locked.                      *)
LEMMA AdminInitInv == AdminInit => AdminInv
<1> SUFFICES ASSUME AdminInit PROVE AdminInv
  OBVIOUS
<1> USE UsersAssumption DEF AdminInit, ActiveAdmins, Active
<1>1. AdminTypeOK
  BY DEF AdminTypeOK, States, Tasks
<1>2. CountsHold
  BY DEF CountsHold
<1>3. AnAdminRemains
  BY DEF AnAdminRemains
<1>4. QED
  BY <1>1, <1>2, <1>3 DEF AdminInv

(* Every step of an administrator keeps the invariant.                     *)
LEMMA AdminStepInv == AdminInv /\ [AdminStep]_admins => AdminInv'
<1> SUFFICES ASSUME AdminInv, [AdminStep]_admins PROVE AdminInv'
  OBVIOUS
<1> USE UsersAssumption
<1>0. AdminTypeOK /\ CountsHold /\ AnAdminRemains
  BY DEF AdminInv
<1>1. ASSUME NEW u \in Accounts, CreateUser(u) PROVE AdminInv'
  BY <1>0, <1>1 DEF CreateUser, AdminInv, AdminTypeOK, CountsHold, AnAdminRemains,
       ActiveAdmins, Active, States
<1>2. ASSUME NEW a \in Accounts, NEW u \in Accounts, NEW k \in {"deactivate", "reactivate"},
             Ask(a, k, u)
      PROVE AdminInv'
  <2>1. AdminTypeOK'
    BY <1>0, <1>2 DEF Ask, AdminTypeOK, Tasks
  <2>2. QED
    BY <1>0, <1>2, <2>1 DEF Ask, AdminInv, CountsHold, AnAdminRemains, ActiveAdmins, Active
<1>3. ASSUME NEW a \in Accounts, LockActiveAdmins(a) PROVE AdminInv'
  <2>1. pending[a] \in [kind : {"deactivate", "counted", "reactivate"}, target : Accounts]
    BY <1>0, <1>3 DEF LockActiveAdmins, AdminTypeOK, Tasks, NoTask
  <2>2. AdminTypeOK'
    <3>1. pending' \in [Accounts -> Tasks]
      BY <1>0, <1>3, <2>1 DEF LockActiveAdmins, AdminTypeOK, Tasks
    <3>2. QED
      BY <1>0, <1>3, <3>1 DEF LockActiveAdmins, AdminTypeOK, ActiveAdmins
  <2>3. CountsHold'
    BY <1>0, <1>3 DEF LockActiveAdmins, CountsHold, AdminTypeOK, ActiveAdmins, Active
  <2>4. AnAdminRemains'
    BY <1>0, <1>3 DEF LockActiveAdmins, AnAdminRemains, ActiveAdmins, Active
  <2>5. QED
    BY <2>2, <2>3, <2>4 DEF AdminInv
<1>4. ASSUME NEW a \in Accounts, Deactivate(a) PROVE AdminInv'
  <2> DEFINE u == pending[a].target
  <2>1. u \in Accounts
    BY <1>0, <1>4 DEF Deactivate, AdminTypeOK, Tasks, NoTask
  <2>2. /\ ~LockedByAnother(a, u) /\ Active(u) /\ ~IsLastAdmin(a, u)
        /\ accounts' = [accounts EXCEPT ![u] = "inactive"]
        /\ Done(a)
    BY <1>4 DEF Deactivate
  <2> HIDE DEF u
  <2>3. AdminTypeOK'
    BY <1>0, <2>1, <2>2 DEF Done, AdminTypeOK, Tasks, States
  <2>4. CountsHold'
    <3>1. SUFFICES ASSUME NEW b \in Accounts, NEW v \in rows'[b] PROVE v \in ActiveAdmins'
      BY DEF CountsHold
    <3>2. b # a /\ v \in rows[b]
      BY <1>0, <2>2, <3>1 DEF Done, AdminTypeOK
    <3>3. v # u
      BY <2>2, <3>2 DEF LockedByAnother
    <3>4. v \in ActiveAdmins
      BY <1>0, <3>2 DEF CountsHold
    <3>5. QED
      BY <1>0, <2>2, <3>3, <3>4 DEF ActiveAdmins, Active, AdminTypeOK
  <2>5. AnAdminRemains'
    <3>1. CASE u \notin Admins
      BY <1>0, <2>2, <3>1 DEF AnAdminRemains, ActiveAdmins, Active, AdminTypeOK
    <3>2. CASE u \in Admins
      <4>1. rows[a] \subseteq Accounts /\ IsFiniteSet(rows[a])
        BY <1>0, FS_Subset DEF AdminTypeOK
      <4>2. ~(Cardinality(rows[a]) <= 1)
        BY <2>2, <3>2 DEF IsLastAdmin
      <4>3. PICK v \in rows[a] : v # u
        BY <4>1, <4>2, AnotherOne
      <4>4. v \in ActiveAdmins
        BY <1>0, <4>3 DEF CountsHold
      <4>5. v \in ActiveAdmins'
        BY <1>0, <2>2, <4>3, <4>4 DEF ActiveAdmins, Active, AdminTypeOK
      <4>6. QED
        BY <4>5 DEF AnAdminRemains
    <3>3. QED
      BY <3>1, <3>2
  <2>6. QED
    BY <2>3, <2>4, <2>5 DEF AdminInv
<1>5. ASSUME NEW a \in Accounts, LeaveActive(a) PROVE AdminInv'
  <2>1. Done(a) /\ accounts' = accounts
    BY <1>5 DEF LeaveActive
  <2>2. AdminTypeOK'
    BY <1>0, <2>1 DEF Done, AdminTypeOK, Tasks
  <2>3. QED
    BY <1>0, <2>1, <2>2 DEF Done, AdminInv, AdminTypeOK, CountsHold, AnAdminRemains,
         ActiveAdmins, Active
<1>6. ASSUME NEW a \in Accounts, Reactivate(a) PROVE AdminInv'
  <2> DEFINE u == pending[a].target
  <2>0. u \in Accounts
    BY <1>0, <1>6 DEF Reactivate, AdminTypeOK, Tasks, NoTask
  <2>1. accounts' = [accounts EXCEPT ![u] = "active"] /\ Done(a)
    BY <1>6 DEF Reactivate
  <2> HIDE DEF u
  <2>2. AdminTypeOK'
    BY <1>0, <2>0, <2>1 DEF Done, AdminTypeOK, Tasks, States
  <2>3. ActiveAdmins \subseteq ActiveAdmins'
    BY <1>0, <2>0, <2>1 DEF ActiveAdmins, Active, AdminTypeOK
  <2>4. QED
    BY <1>0, <2>1, <2>2, <2>3 DEF Done, AdminInv, AdminTypeOK, CountsHold, AnAdminRemains
<1>7. CASE UNCHANGED admins
  BY <1>0, <1>7 DEF admins, AdminInv, AdminTypeOK, CountsHold, AnAdminRemains, ActiveAdmins,
       Active
<1>8. QED
  BY <1>1, <1>2, <1>3, <1>4, <1>5, <1>6, <1>7 DEF AdminStep

(* There is always an active system admin, however many requests overlap   *)
(* and whatever they read before they waited.                              *)
THEOREM AdminsRemain == AdminSpec => []AnAdminRemains
<1>1. AdminInv => AnAdminRemains
  BY DEF AdminInv
<1>2. QED
  BY AdminInitInv, AdminStepInv, <1>1, PTL DEF AdminSpec

-----------------------------------------------------------------------------
(* Sign-ins to one account. *)

Hashes == [pw : Nat, old : BOOLEAN]

Throttles == [count : Nat, start : Nat, until : Nat]

Attempts ==
    [at : {"idle", "sent", "failing", "rehashing", "clearing", "opening"},
     pw : Nat, hash : Hashes, active : BOOLEAN, seen : Nat]

Sessions ==
    [status : {"none", "open", "over", "revoked"}, pw : Nat, read : Nat, cut : Nat]

SignInTypeOK ==
    /\ now \in Nat
    /\ credential \in Hashes
    /\ throttle \in Throttles
    /\ signIns \in [SignIns -> Attempts]
    /\ sessions \in [SessionIds -> Sessions]
    /\ changing \in SessionIds \cup {0}
    /\ chosen \in Nat /\ cuts \in Nat
    /\ active \in BOOLEAN /\ undone \in BOOLEAN

\* A sign-in whose password was right when it read the hash.
Right(x) == x.at \in {"rehashing", "clearing", "opening"}

(* What a sign-in read was true then: its password is still the one that   *)
(* was chosen last, or a revocation came with the change since.            *)
ReadsWereTrue ==
    \A s \in SignIns :
        /\ signIns[s].seen <= cuts
        /\ signIns[s].at = "rehashing" => signIns[s].hash.pw = signIns[s].pw
        /\ Right(signIns[s]) =>
              undone \/ signIns[s].pw = chosen \/ signIns[s].seen < cuts

SessionsAreDated == \A i \in SessionIds : sessions[i].read <= cuts

RevocationsInv ==
    /\ SignInTypeOK
    /\ ReadsWereTrue /\ SessionsAreDated
    /\ RevocationsHold

(* Sign-ins that may still be counted as failures.                         *)
Guessing == {s \in SignIns : signIns[s].at \in {"sent", "failing"}}

\* The next failure starts a window of its own.
WindowIsOver == throttle.start + Window <= now

(* At the limit the address is blocked until the window is over, and the   *)
(* sign-ins that slipped in before are all that can still be counted.      *)
GuessesInv ==
    /\ throttle.start <= now
    /\ GuessesAreBounded
    /\ Block >= Window /\ throttle.count >= MaxFailures =>
          /\ throttle.until >= throttle.start + Window
          /\ WindowIsOver
               \/ throttle.count + Cardinality(Guessing) < MaxFailures + Cardinality(SignIns)

-------------------------------------------------------------------------------

(* Each statement of a sign-in changes its own entry only.                 *)
LEMMA SignInMoves ==
  ASSUME SignInTypeOK, NEW s \in SignIns, SignInStep(s)
  PROVE  /\ signIns'[s] \in Attempts
         /\ signIns' = [signIns EXCEPT ![s] = signIns'[s]]
<1>0. /\ signIns[s] \in Attempts /\ signIns \in [SignIns -> Attempts]
      /\ chosen \in Nat /\ cuts \in Nat /\ active \in BOOLEAN /\ credential \in Hashes
  BY DEF SignInTypeOK
<1>u. Unsent \in Attempts
  BY DEF Unsent, Attempts, Hashes
<1>1. ASSUME NEW pw \in 0..MaxChanges, Send(s, pw)
      PROVE  \E x \in Attempts : signIns' = [signIns EXCEPT ![s] = x]
  <2> DEFINE x == [Unsent EXCEPT !.at = "sent", !.pw = pw]
  <2>1. pw \in Nat
    BY <1>0, <1>1 DEF Send
  <2>2. x \in Attempts
    BY <1>u, <2>1 DEF Attempts, Unsent
  <2>3. signIns' = [signIns EXCEPT ![s] = x]
    BY <1>1 DEF Send
  <2> QED BY <2>2, <2>3
<1>2. ASSUME Read(s)
      PROVE  \E x \in Attempts : signIns' = [signIns EXCEPT ![s] = x]
  <2> DEFINE a == IF signIns[s].pw # credential.pw \/ ~active THEN "failing"
                  ELSE IF credential.old THEN "rehashing" ELSE "clearing"
             x == [signIns[s] EXCEPT !.hash = credential, !.active = active,
                                     !.seen = cuts, !.at = a]
  <2>1. a \in {"failing", "rehashing", "clearing"}
    OBVIOUS
  <2>2. signIns' = [signIns EXCEPT ![s] = x]
    BY <1>0, <1>2 DEF Read
  <2> HIDE DEF a
  <2>3. x \in Attempts
    BY <1>0, <2>1 DEF Attempts
  <2> QED BY <2>2, <2>3
<1>3. ASSUME RecordFailure(s) \/ CreateSession(s)
      PROVE  \E x \in Attempts : signIns' = [signIns EXCEPT ![s] = x]
  BY <1>u, <1>3 DEF RecordFailure, CreateSession
<1>4. ASSUME Rehash(s) \/ Clear(s)
      PROVE  \E x \in Attempts : signIns' = [signIns EXCEPT ![s] = x]
  <2>1. PICK a \in {"clearing", "opening"} : signIns' = [signIns EXCEPT ![s].at = a]
    BY <1>4 DEF Rehash, Clear, Move
  <2>2. [signIns[s] EXCEPT !.at = a] \in Attempts
    BY <1>0 DEF Attempts
  <2>3. signIns' = [signIns EXCEPT ![s] = [signIns[s] EXCEPT !.at = a]]
    BY <1>0, <2>1
  <2> QED BY <2>2, <2>3
<1> QED BY <1>0, <1>1, <1>2, <1>3, <1>4 DEF SignInStep

(* What a revocation leaves of the sessions.                               *)
LEMMA RevokedSessions ==
  ASSUME SignInTypeOK, cuts' \in Nat, NEW kept, sessions' = Revoked(kept)
  PROVE  /\ sessions' \in [SessionIds -> Sessions]
         /\ \A i \in SessionIds :
              /\ sessions'[i].pw = sessions[i].pw /\ sessions'[i].read = sessions[i].read
              /\ sessions'[i].status = "open" =>
                   i \in kept /\ sessions[i].status = "open" /\ sessions'[i].cut = cuts'
<1>1. ASSUME NEW i \in SessionIds
      PROVE  /\ sessions'[i] \in Sessions
             /\ sessions'[i].pw = sessions[i].pw /\ sessions'[i].read = sessions[i].read
             /\ sessions'[i].status = "open" =>
                   i \in kept /\ sessions[i].status = "open" /\ sessions'[i].cut = cuts'
  <2>1. sessions[i] \in Sessions
    BY DEF SignInTypeOK
  <2>2. CASE i \in kept
    <3>1. sessions'[i] = [sessions[i] EXCEPT !.cut = cuts']
      BY <2>2 DEF Revoked
    <3> QED BY <2>1, <2>2, <3>1 DEF Sessions
  <2>3. CASE i \notin kept /\ sessions[i].status = "none"
    <3>1. sessions'[i] = sessions[i]
      BY <2>3 DEF Revoked
    <3> QED BY <2>1, <2>3, <3>1
  <2>4. CASE i \notin kept /\ sessions[i].status # "none"
    <3>1. sessions'[i] = [sessions[i] EXCEPT !.status = "revoked"]
      BY <2>4 DEF Revoked
    <3> QED BY <2>1, <2>4, <3>1 DEF Sessions
  <2> QED BY <2>2, <2>3, <2>4
<1>2. sessions' = [i \in SessionIds |-> sessions'[i]]
  BY DEF Revoked
<1> QED BY <1>1, <1>2

(* What else happens to sessions never opens one.                          *)
LEMMA SessionsEnd ==
  ASSUME SignInTypeOK,
         \/ \E i \in SessionIds : RevokeSession(i) \/ PassLimit(i) \/ ResolveOver(i)
         \/ CleanSessions
  PROVE  /\ sessions' \in [SessionIds -> Sessions]
         /\ \A i \in SessionIds :
              /\ sessions'[i].read \in {0, sessions[i].read}
              /\ sessions'[i].status = "open" => sessions'[i] = sessions[i]
<1>0. sessions \in [SessionIds -> Sessions] /\ \A i \in SessionIds : sessions[i] \in Sessions
  BY DEF SignInTypeOK
<1>1. ASSUME NEW i \in SessionIds, RevokeSession(i) \/ PassLimit(i) \/ ResolveOver(i)
      PROVE  /\ sessions' \in [SessionIds -> Sessions]
             /\ \A j \in SessionIds :
                  /\ sessions'[j].read \in {0, sessions[j].read}
                  /\ sessions'[j].status = "open" => sessions'[j] = sessions[j]
  <2>1. PICK x \in {"over", "revoked"} : sessions' = [sessions EXCEPT ![i].status = x]
    BY <1>1 DEF RevokeSession, PassLimit, ResolveOver
  <2> DEFINE row == [sessions[i] EXCEPT !.status = x]
  <2>2. row \in Sessions /\ row.status = x /\ row.read = sessions[i].read
    BY <1>0 DEF Sessions
  <2>3. sessions' = [sessions EXCEPT ![i] = row]
    BY <1>0, <2>1
  <2> HIDE DEF row
  <2> QED BY <1>0, <2>2, <2>3
<1>2. ASSUME CleanSessions
      PROVE  /\ sessions' \in [SessionIds -> Sessions]
             /\ \A j \in SessionIds :
                  /\ sessions'[j].read \in {0, sessions[j].read}
                  /\ sessions'[j].status = "open" => sessions'[j] = sessions[j]
  <2>1. PICK ended : sessions' = [i \in SessionIds |->
                                    IF i \in ended THEN NoSession ELSE sessions[i]]
    BY <1>2 DEF CleanSessions
  <2>2. NoSession \in Sessions /\ NoSession.read = 0 /\ NoSession.status # "open"
    BY DEF NoSession, Sessions
  <2> QED BY <1>0, <2>1, <2>2
<1> QED BY <1>1, <1>2

(* What every step keeps of the types.                                     *)
LEMMA StepSignInType ==
  ASSUME SignInTypeOK, AccountStep
  PROVE  SignInTypeOK'
<1> USE SignInAssumption
<1>0. /\ now \in Nat /\ credential \in Hashes /\ throttle \in Throttles
      /\ sessions \in [SessionIds -> Sessions] /\ signIns \in [SignIns -> Attempts]
      /\ changing \in SessionIds \cup {0} /\ chosen \in Nat /\ cuts \in Nat
      /\ active \in BOOLEAN /\ undone \in BOOLEAN
  BY DEF SignInTypeOK
<1>a. NoRow \in Throttles
  BY DEF NoRow, Throttles
<1>b. Failed \in Throttles
  <2>1. /\ throttle.count \in Nat /\ throttle.start \in Nat /\ throttle.until \in Nat
        /\ throttle.count + 1 \in Nat /\ now + Block \in Nat
    BY <1>0 DEF Throttles
  <2>2. \A n \in Nat, u \in Nat : [throttle EXCEPT !.count = n, !.until = u] \in Throttles
    BY <1>0 DEF Throttles
  <2>3. \A u \in Nat : [count |-> 1, start |-> now, until |-> u] \in Throttles
    BY <1>0 DEF Throttles
  <2>4. (IF MaxFailures = 1 THEN now + Block ELSE 0) \in Nat
    BY <2>1
  <2>5. (IF throttle.count + 1 >= MaxFailures THEN now + Block ELSE throttle.until) \in Nat
    BY <2>1
  <2>6. \/ Failed = [count |-> 1, start |-> now,
                     until |-> IF MaxFailures = 1 THEN now + Block ELSE 0]
        \/ Failed = [throttle EXCEPT !.count = throttle.count + 1,
              !.until = IF throttle.count + 1 >= MaxFailures THEN now + Block ELSE throttle.until]
    BY <1>0 DEF Failed, Throttles
  <2> QED BY <2>1, <2>2, <2>3, <2>4, <2>5, <2>6, ZenonT(30)
<1>1. ASSUME NEW s \in SignIns, SignInStep(s)
      PROVE  SignInTypeOK'
  <2>1. signIns' \in [SignIns -> Attempts]
    <3>1. signIns'[s] \in Attempts /\ signIns' = [signIns EXCEPT ![s] = signIns'[s]]
      BY <1>1, SignInMoves
    <3> QED BY <1>0, <3>1
  <2>2. throttle' \in Throttles
    BY <1>0, <1>1, <1>a, <1>b
    DEF SignInStep, Send, Read, RecordFailure, Rehash, Clear, CreateSession
  <2>3. credential' \in Hashes /\ undone' \in BOOLEAN
    <3>1. signIns[s].pw \in Nat /\ FALSE \in BOOLEAN
      BY <1>0 DEF Attempts
    <3>2. [pw |-> signIns[s].pw, old |-> FALSE] \in Hashes
      BY <3>1 DEF Hashes
    <3> QED
      BY <1>0, <1>1, <3>2
      DEF SignInStep, Send, Read, RecordFailure, Rehash, Clear, CreateSession
  <2>4. sessions' \in [SessionIds -> Sessions]
    <3>1. CASE CreateSession(s)
      <4> DEFINE row == [status |-> "open", pw |-> signIns[s].pw,
                         read |-> signIns[s].seen, cut |-> cuts]
      <4>1. row \in Sessions
        BY <1>0 DEF Attempts, Sessions
      <4>2. PICK i \in SessionIds : sessions' = [sessions EXCEPT ![i] = row]
        BY <3>1 DEF CreateSession
      <4> HIDE DEF row
      <4> QED BY <1>0, <4>1, <4>2
    <3>2. CASE ~CreateSession(s)
      BY <1>0, <1>1, <3>2 DEF SignInStep, Send, Read, RecordFailure, Rehash, Clear
    <3> QED BY <3>1, <3>2
  <2>5. UNCHANGED <<now, active, changing, chosen, cuts>>
    BY <1>1 DEF SignInStep, Send, Read, RecordFailure, Rehash, Clear, CreateSession
  <2> QED BY <1>0, <2>1, <2>2, <2>3, <2>4, <2>5 DEF SignInTypeOK
<1>2. ASSUME NEW kept, RevokeSessions(kept)
      PROVE  SignInTypeOK'
  <2>1. cuts' \in Nat /\ sessions' = Revoked(kept)
    BY <1>0, <1>2 DEF RevokeSessions, Cut
  <2>2. sessions' \in [SessionIds -> Sessions]
    BY <2>1, RevokedSessions
  <2> QED BY <1>0, <1>2, <2>1, <2>2 DEF RevokeSessions, SignInTypeOK
<1>3. ASSUME DeactivateUser
      PROVE  SignInTypeOK'
  <2>1. cuts' \in Nat /\ sessions' = Revoked({}) /\ active' = FALSE
    BY <1>0, <1>3 DEF DeactivateUser, Cut
  <2>2. sessions' \in [SessionIds -> Sessions]
    BY <2>1, RevokedSessions
  <2> QED BY <1>0, <1>3, <2>1, <2>2 DEF DeactivateUser, SignInTypeOK
<1>4. ASSUME NEW pw, ChangePassword(pw)
      PROVE  SignInTypeOK'
  <2>1. /\ cuts' \in Nat /\ sessions' = Revoked({changing})
        /\ chosen' = chosen + 1 /\ chosen + 1 \in Nat
        /\ credential' = [pw |-> chosen + 1, old |-> FALSE] /\ changing' = 0
    BY <1>0, <1>4 DEF ChangePassword, Cut
  <2>2. sessions' \in [SessionIds -> Sessions]
    BY <2>1, RevokedSessions
  <2>3. credential' \in Hashes
    BY <2>1 DEF Hashes
  <2> QED BY <1>0, <1>4, <2>1, <2>2, <2>3 DEF ChangePassword, SignInTypeOK
<1>5. ASSUME \/ \E i \in SessionIds : RevokeSession(i) \/ PassLimit(i) \/ ResolveOver(i)
             \/ CleanSessions
      PROVE  SignInTypeOK'
  <2>1. sessions' \in [SessionIds -> Sessions]
    BY <1>5, SessionsEnd
  <2> QED
    BY <1>0, <1>5, <2>1
    DEF RevokeSession, PassLimit, ResolveOver, CleanSessions, SignInTypeOK
<1>6. ASSUME \/ \E i \in SessionIds : AskChange(i)
             \/ RefuseChange \/ ClearThrottle \/ ReactivateUser \/ Tick
      PROVE  SignInTypeOK'
  <2>1. CASE ReactivateUser
    <3>1. active' \in BOOLEAN
      BY <2>1 DEF ReactivateUser
    <3> QED BY <1>0, <2>1, <3>1 DEF ReactivateUser, SignInTypeOK
  <2>2. CASE ~ReactivateUser
    BY <1>0, <1>6, <1>a, <2>2 DEF AskChange, RefuseChange, ClearThrottle, Tick, SignInTypeOK
  <2> QED BY <2>1, <2>2
<1>7. ASSUME \E i \in SessionIds : SessionStep(i)
      PROVE  SignInTypeOK'
  BY <1>2, <1>5, <1>6, <1>7 DEF SessionStep
<1>8. ASSUME \E pw \in 1..MaxChanges : ChangePassword(pw)
      PROVE  SignInTypeOK'
  BY <1>4, <1>8
<1>9. ASSUME \E s \in SignIns : SignInStep(s)
      PROVE  SignInTypeOK'
  BY <1>1, <1>9
<1>10. ASSUME RevokeSessions({}) PROVE SignInTypeOK'
  BY <1>2, <1>10
<1> QED BY <1>3, <1>5, <1>6, <1>7, <1>8, <1>9, <1>10 DEF AccountStep

-------------------------------------------------------------------------------

(* At first nothing is read, open or counted.                              *)
LEMMA SignInInitInv == SignInInit => RevocationsInv /\ GuessesInv
<1> USE SignInAssumption
<1> SUFFICES ASSUME SignInInit PROVE RevocationsInv /\ GuessesInv
  OBVIOUS
<1>1. SignInTypeOK
  <2>1. Unsent \in Attempts
    BY DEF Unsent, Attempts, Hashes
  <2>2. NoRow \in Throttles /\ NoSession \in Sessions
    BY DEF NoRow, Throttles, NoSession, Sessions
  <2>3. credential \in Hashes
    BY DEF SignInInit, Hashes
  <2> QED BY <2>1, <2>2, <2>3 DEF SignInInit, SignInTypeOK
<1>2. ReadsWereTrue /\ SessionsAreDated
  BY DEF SignInInit, ReadsWereTrue, SessionsAreDated, Unsent, Right, NoSession
<1>3. RevocationsHold
  BY DEF SignInInit, RevocationsHold, NoSessionSurvivesARevocation,
         ReplacedPasswordsOpenNothing, NoSession
<1>4. Cardinality(SignIns) \in Nat
  BY FS_CardinalityType
<1>5. throttle.count = 0 /\ throttle.start = 0 /\ now = 0
  BY DEF SignInInit, NoRow
<1>6. GuessesInv
  BY <1>4, <1>5 DEF GuessesInv, GuessesAreBounded
<1> QED BY <1>1, <1>2, <1>3, <1>6 DEF RevocationsInv

(* Sign-ins: what they read stays true, and the session one opens knows    *)
(* what it read.                                                           *)
LEMMA SignInKeepsRevocations ==
  ASSUME RevocationsInv, SignInTypeOK', NEW s \in SignIns, SignInStep(s)
  PROVE  RevocationsInv'
<1>0. /\ signIns \in [SignIns -> Attempts] /\ signIns[s] \in Attempts
      /\ sessions \in [SessionIds -> Sessions]
      /\ cuts \in Nat /\ chosen \in Nat /\ credential \in Hashes
      /\ \A t \in SignIns : signIns[t].seen \in Nat
      /\ \A i \in SessionIds : sessions[i].read \in Nat /\ sessions[i].cut \in Nat
  BY DEF RevocationsInv, SignInTypeOK, Attempts, Sessions
<1>1. /\ \A t \in SignIns \ {s} : signIns'[t] = signIns[t]
      /\ chosen' = chosen /\ cuts' = cuts /\ (undone => undone')
  <2>1. signIns' = [signIns EXCEPT ![s] = signIns'[s]]
    BY SignInMoves DEF RevocationsInv
  <2>2. \A t \in SignIns \ {s} : signIns'[t] = signIns[t]
    BY <1>0, <2>1
  <2>3. chosen' = chosen /\ cuts' = cuts
    BY DEF SignInStep, Send, Read, RecordFailure, Rehash, Clear, CreateSession
  <2>4. CASE Rehash(s)
    <3>1. undone => undone'
      BY <2>4, Zenon DEF Rehash
    <3> QED BY <2>2, <2>3, <3>1
  <2>5. CASE ~Rehash(s)
    <3>1. undone' = undone
      BY <2>5 DEF SignInStep, Send, Read, RecordFailure, Clear, CreateSession
    <3> QED BY <2>2, <2>3, <3>1
  <2> QED BY <2>4, <2>5
<1>2. /\ signIns'[s].seen <= cuts
      /\ signIns'[s].at = "rehashing" => signIns'[s].hash.pw = signIns'[s].pw
      /\ Right(signIns'[s]) =>
            undone' \/ signIns'[s].pw = chosen \/ signIns'[s].seen < cuts
  <2>1. CASE \E pw \in 0..MaxChanges : Send(s, pw)
    BY <1>0, <2>1 DEF Send, Unsent, Right
  <2>2. CASE Read(s)
    <3>1. /\ signIns'[s].pw = signIns[s].pw /\ signIns'[s].hash = credential
          /\ signIns'[s].seen = cuts
          /\ Right(signIns'[s]) => signIns[s].pw = credential.pw
      BY <1>0, <2>2 DEF Read, Attempts, Right
    <3>2. credential.pw # chosen => undone
      BY DEF RevocationsInv, RevocationsHold, ReplacedPasswordsOpenNothing
    <3> QED BY <1>0, <1>1, <3>1, <3>2 DEF Right
  <2>3. CASE RecordFailure(s) \/ CreateSession(s)
    BY <1>0, <2>3 DEF RecordFailure, CreateSession, Unsent, Right
  <2>4. CASE Rehash(s) \/ Clear(s)
    <3>1. /\ signIns'[s].pw = signIns[s].pw /\ signIns'[s].seen = signIns[s].seen
          /\ signIns'[s].at # "rehashing" /\ Right(signIns[s])
      BY <1>0, <2>4 DEF Rehash, Clear, Move, Attempts, Right
    <3> QED BY <1>1, <3>1 DEF RevocationsInv, ReadsWereTrue
  <2> QED BY <2>1, <2>2, <2>3, <2>4 DEF SignInStep
<1>3. ReadsWereTrue'
  <2> SUFFICES ASSUME NEW t \in SignIns
               PROVE  /\ signIns'[t].seen <= cuts'
                      /\ signIns'[t].at = "rehashing" => signIns'[t].hash.pw = signIns'[t].pw
                      /\ Right(signIns'[t]) =>
                           undone' \/ signIns'[t].pw = chosen' \/ signIns'[t].seen < cuts'
    BY DEF ReadsWereTrue, Right
  <2>1. CASE t = s
    BY <1>1, <1>2, <2>1
  <2>2. CASE t # s
    BY <1>1, <2>2 DEF RevocationsInv, ReadsWereTrue
  <2> QED BY <2>1, <2>2
<1>4. CASE ~CreateSession(s)
  <2>1. sessions' = sessions
    BY <1>4 DEF SignInStep, Send, Read, RecordFailure, Rehash, Clear
  <2>2. credential'.pw # chosen => undone'
    <3>1. CASE Rehash(s)
      <4>1. signIns[s].hash.pw = signIns[s].pw
        BY <3>1 DEF Rehash, RevocationsInv, ReadsWereTrue
      <4>2. /\ credential'.pw = signIns[s].pw
            /\ undone' <=> undone \/ credential.pw # signIns[s].hash.pw
        BY <3>1 DEF Rehash
      <4> QED
        BY <4>1, <4>2 DEF RevocationsInv, RevocationsHold, ReplacedPasswordsOpenNothing
    <3>2. CASE ~Rehash(s)
      <4>1. credential' = credential /\ undone' = undone
        BY <3>2 DEF SignInStep, Send, Read, RecordFailure, Clear, CreateSession
      <4> QED
        BY <4>1 DEF RevocationsInv, RevocationsHold, ReplacedPasswordsOpenNothing
    <3> QED BY <3>1, <3>2
  <2>3. SessionsAreDated'
    BY <1>1, <2>1 DEF RevocationsInv, SessionsAreDated
  <2>4. NoSessionSurvivesARevocation'
    BY <1>1, <2>1 DEF RevocationsInv, RevocationsHold, NoSessionSurvivesARevocation
  <2>5. ReplacedPasswordsOpenNothing'
    BY <1>1, <2>1, <2>2 DEF RevocationsInv, RevocationsHold, ReplacedPasswordsOpenNothing
  <2> QED BY <1>3, <2>3, <2>4, <2>5 DEF RevocationsInv, RevocationsHold
<1>5. CASE CreateSession(s)
  <2> DEFINE row == [status |-> "open", pw |-> signIns[s].pw,
                     read |-> signIns[s].seen, cut |-> cuts]
  <2>1. PICK i \in SessionIds : sessions' = [sessions EXCEPT ![i] = row]
    BY <1>5 DEF CreateSession
  <2>2. credential' = credential /\ undone' = undone /\ Right(signIns[s])
    BY <1>5 DEF CreateSession, Right
  <2>3. /\ row.cut = cuts /\ row.read <= cuts
        /\ row.pw # chosen /\ ~undone => row.read < row.cut
    BY <2>2 DEF RevocationsInv, ReadsWereTrue
  <2> HIDE DEF row
  <2>4. sessions'[i] = row /\ \A j \in SessionIds \ {i} : sessions'[j] = sessions[j]
    BY <1>0, <2>1
  <2>5. SessionsAreDated'
    BY <1>1, <2>3, <2>4 DEF RevocationsInv, SessionsAreDated
  <2>6. NoSessionSurvivesARevocation'
    BY <1>1, <2>3, <2>4 DEF RevocationsInv, RevocationsHold, NoSessionSurvivesARevocation
  <2>7. ReplacedPasswordsOpenNothing'
    BY <1>1, <2>2, <2>3, <2>4
    DEF RevocationsInv, RevocationsHold, ReplacedPasswordsOpenNothing
  <2> QED BY <1>3, <2>5, <2>6, <2>7 DEF RevocationsInv, RevocationsHold
<1> QED BY <1>4, <1>5

(* A revocation dates what it keeps, and everybody who read before it.     *)
LEMMA RevocationKeepsRevocations ==
  ASSUME RevocationsInv, NEW kept,
         signIns' = signIns, sessions' = Revoked(kept), cuts' = cuts + 1,
         undone' = undone,
         \/ credential' = credential /\ chosen' = chosen
         \/ credential'.pw = chosen'
  PROVE  ReadsWereTrue' /\ SessionsAreDated' /\ RevocationsHold'
<1>0. /\ SignInTypeOK /\ cuts \in Nat /\ cuts' \in Nat
      /\ \A s \in SignIns : signIns[s].seen \in Nat
      /\ \A i \in SessionIds : sessions[i].read \in Nat /\ sessions[i].cut \in Nat
  BY DEF RevocationsInv, SignInTypeOK, Attempts, Sessions
<1>1. \A i \in SessionIds :
        /\ sessions'[i].pw = sessions[i].pw /\ sessions'[i].read = sessions[i].read
        /\ sessions'[i].status = "open" =>
             i \in kept /\ sessions[i].status = "open" /\ sessions'[i].cut = cuts'
  BY <1>0, RevokedSessions
<1>2. ReadsWereTrue'
  <2> SUFFICES ASSUME NEW s \in SignIns
               PROVE  /\ signIns[s].seen <= cuts'
                      /\ signIns[s].at = "rehashing" => signIns[s].hash.pw = signIns[s].pw
                      /\ Right(signIns[s]) => signIns[s].seen < cuts'
    BY DEF ReadsWereTrue, Right
  <2>1. /\ signIns[s].seen <= cuts
        /\ signIns[s].at = "rehashing" => signIns[s].hash.pw = signIns[s].pw
    BY DEF RevocationsInv, ReadsWereTrue
  <2> QED BY <1>0, <2>1
<1>3. SessionsAreDated'
  BY <1>0, <1>1 DEF RevocationsInv, SessionsAreDated
<1>4. NoSessionSurvivesARevocation'
  BY <1>1 DEF NoSessionSurvivesARevocation
<1>5. \A i \in SessionIds : sessions'[i].status = "open" => sessions'[i].read < sessions'[i].cut
  BY <1>0, <1>1 DEF RevocationsInv, SessionsAreDated
<1>6. credential'.pw # chosen' => undone'
  BY DEF RevocationsInv, RevocationsHold, ReplacedPasswordsOpenNothing
<1>7. ReplacedPasswordsOpenNothing'
  BY <1>5, <1>6 DEF ReplacedPasswordsOpenNothing
<1> QED BY <1>2, <1>3, <1>4, <1>7 DEF RevocationsHold

(* Steps that at most end sessions.                                        *)
LEMMA EndingKeepsRevocations ==
  ASSUME RevocationsInv,
         UNCHANGED <<signIns, credential, chosen, cuts, undone>>,
         \A i \in SessionIds :
            /\ sessions'[i].read \in {0, sessions[i].read}
            /\ sessions'[i].status = "open" => sessions'[i] = sessions[i]
  PROVE  ReadsWereTrue' /\ SessionsAreDated' /\ RevocationsHold'
<1>0. cuts \in Nat
  BY DEF RevocationsInv, SignInTypeOK
<1>1. ReadsWereTrue'
  BY DEF RevocationsInv, ReadsWereTrue, Right
<1>2. SessionsAreDated'
  BY <1>0 DEF RevocationsInv, SessionsAreDated
<1>3. NoSessionSurvivesARevocation'
  BY DEF RevocationsInv, RevocationsHold, NoSessionSurvivesARevocation
<1>4. ReplacedPasswordsOpenNothing'
  BY DEF RevocationsInv, RevocationsHold, ReplacedPasswordsOpenNothing
<1> QED BY <1>1, <1>2, <1>3, <1>4 DEF RevocationsHold

LEMMA StepRevocations ==
  ASSUME RevocationsInv, AccountStep
  PROVE  RevocationsInv'
<1>0. SignInTypeOK /\ SignInTypeOK'
  BY StepSignInType DEF RevocationsInv
<1>1. ASSUME \E s \in SignIns : SignInStep(s)
      PROVE  RevocationsInv'
  BY <1>0, <1>1, SignInKeepsRevocations
<1>2. ASSUME \/ \E kept : RevokeSessions(kept)
             \/ DeactivateUser
             \/ \E pw \in 1..MaxChanges : ChangePassword(pw)
      PROVE  RevocationsInv'
  <2>1. PICK kept : sessions' = Revoked(kept)
    BY <1>2 DEF RevokeSessions, DeactivateUser, ChangePassword
  <2>2. signIns' = signIns /\ undone' = undone /\ cuts' = cuts + 1
    BY <1>2 DEF RevokeSessions, DeactivateUser, ChangePassword, Cut
  <2>3. \/ credential' = credential /\ chosen' = chosen
        \/ credential'.pw = chosen'
    BY <1>2 DEF RevokeSessions, DeactivateUser, ChangePassword
  <2>4. ReadsWereTrue' /\ SessionsAreDated' /\ RevocationsHold'
    BY <2>1, <2>2, <2>3, RevocationKeepsRevocations
  <2> QED BY <1>0, <2>4 DEF RevocationsInv
<1>3. ASSUME \/ \E i \in SessionIds : RevokeSession(i) \/ PassLimit(i) \/ ResolveOver(i)
             \/ CleanSessions
      PROVE  RevocationsInv'
  <2>1. UNCHANGED <<signIns, credential, chosen, cuts, undone>>
    BY <1>3 DEF RevokeSession, PassLimit, ResolveOver, CleanSessions
  <2>2. \A i \in SessionIds :
          /\ sessions'[i].read \in {0, sessions[i].read}
          /\ sessions'[i].status = "open" => sessions'[i] = sessions[i]
    BY <1>0, <1>3, SessionsEnd
  <2>3. ReadsWereTrue' /\ SessionsAreDated' /\ RevocationsHold'
    BY <2>1, <2>2, EndingKeepsRevocations
  <2> QED BY <1>0, <2>3 DEF RevocationsInv
<1>4. ASSUME \/ \E i \in SessionIds : AskChange(i)
             \/ RefuseChange \/ ClearThrottle \/ ReactivateUser \/ Tick
      PROVE  RevocationsInv'
  <2>1. UNCHANGED <<signIns, credential, chosen, cuts, undone, sessions>>
    BY <1>4 DEF AskChange, RefuseChange, ClearThrottle, ReactivateUser, Tick
  <2>2. ReadsWereTrue' /\ SessionsAreDated' /\ RevocationsHold'
    BY <2>1, EndingKeepsRevocations
  <2> QED BY <1>0, <2>2 DEF RevocationsInv
<1>5. ASSUME \E i \in SessionIds : SessionStep(i)
      PROVE  RevocationsInv'
  BY <1>2, <1>3, <1>4, <1>5 DEF SessionStep
<1>6. ASSUME RevokeSessions({}) PROVE RevocationsInv'
  BY <1>2, <1>6
<1> QED BY <1>1, <1>2, <1>3, <1>4, <1>5, <1>6 DEF AccountStep

(* A deactivation, a password change or a logout everywhere holds against  *)
(* every sign-in and request at work, and a replaced password opens        *)
(* nothing but for sign-ins that had read it before.                       *)
THEOREM RevocationsAlwaysHold == SignInSpec => []RevocationsHold
<1>1. RevocationsInv /\ [AccountStep]_accountVars => RevocationsInv'
  <2>1. ASSUME RevocationsInv, UNCHANGED accountVars PROVE RevocationsInv'
    <3>1. SignInTypeOK'
      BY <2>1 DEF RevocationsInv, SignInTypeOK, accountVars
    <3>2. ReadsWereTrue' /\ SessionsAreDated' /\ RevocationsHold'
      BY <2>1, EndingKeepsRevocations DEF accountVars
    <3> QED BY <3>1, <3>2 DEF RevocationsInv
  <2> QED BY <2>1, StepRevocations
<1>2. RevocationsInv => RevocationsHold
  BY DEF RevocationsInv
<1> QED BY <1>1, <1>2, SignInInitInv, PTL DEF SignInSpec

-------------------------------------------------------------------------------

LEMMA Counted ==
  /\ Cardinality(SignIns) \in Nat
  /\ \A S, T \in SUBSET SignIns :
       /\ IsFiniteSet(S) /\ Cardinality(S) \in Nat /\ Cardinality(S) <= Cardinality(SignIns)
       /\ S \subseteq T => Cardinality(S) <= Cardinality(T)
       /\ \A s \in S : Cardinality(S \ {s}) = Cardinality(S) - 1
<1>1. IsFiniteSet(SignIns)
  BY SignInAssumption
<1>2. \A S \in SUBSET SignIns : /\ IsFiniteSet(S) /\ Cardinality(S) \in Nat
                                /\ Cardinality(S) <= Cardinality(SignIns)
  BY <1>1, FS_Subset, FS_CardinalityType
<1>3. ASSUME NEW S \in SUBSET SignIns, NEW T \in SUBSET SignIns, S \subseteq T
      PROVE  Cardinality(S) <= Cardinality(T)
  BY <1>2, <1>3, FS_Subset
<1>4. ASSUME NEW S \in SUBSET SignIns, NEW s \in S
      PROVE  Cardinality(S \ {s}) = Cardinality(S) - 1
  BY <1>2, FS_RemoveElement
<1>5. Cardinality(SignIns) \in Nat
  BY <1>1, FS_CardinalityType
<1> QED BY <1>2, <1>3, <1>4, <1>5

(* Steps that count nothing and let nobody in, while time may pass.        *)
LEMMA GuessesKept ==
  ASSUME SignInTypeOK, SignInTypeOK', GuessesInv, throttle' = throttle, now' >= now,
         Guessing' \subseteq Guessing
  PROVE  GuessesInv'
<1> USE SignInAssumption
<1>0. /\ now \in Nat /\ now' \in Nat
      /\ throttle.count \in Nat /\ throttle.start \in Nat /\ throttle.until \in Nat
  BY DEF SignInTypeOK, Throttles
<1>1. /\ Cardinality(Guessing) \in Nat /\ Cardinality(Guessing') \in Nat
      /\ Cardinality(Guessing') <= Cardinality(Guessing)
      /\ Cardinality(SignIns) \in Nat
  <2>1. Guessing \in SUBSET SignIns /\ Guessing' \in SUBSET SignIns
    BY DEF Guessing
  <2> QED BY <2>1, Counted
<1>2. throttle'.start <= now'
  BY <1>0 DEF GuessesInv
<1>3. GuessesAreBounded'
  BY DEF GuessesInv, GuessesAreBounded
<1>4. ASSUME Block >= Window, throttle.count >= MaxFailures
      PROVE  /\ throttle.until >= throttle.start + Window
             /\ \/ throttle.start + Window <= now'
                \/ throttle.count + Cardinality(Guessing') < MaxFailures + Cardinality(SignIns)
  <2>1. /\ throttle.until >= throttle.start + Window
        /\ \/ throttle.start + Window <= now
           \/ throttle.count + Cardinality(Guessing) < MaxFailures + Cardinality(SignIns)
    BY <1>4 DEF GuessesInv, WindowIsOver
  <2> QED BY <1>0, <1>1, <2>1
<1> QED BY <1>2, <1>3, <1>4 DEF GuessesInv, WindowIsOver

(* A throttle without failures asks nothing.                               *)
LEMMA ClearedThrottle ==
  ASSUME SignInTypeOK', throttle' = NoRow
  PROVE  GuessesInv'
<1>1. throttle'.count = 0 /\ throttle'.start = 0
  BY DEF NoRow
<1>2. now' \in Nat /\ Cardinality(SignIns) \in Nat
  BY Counted DEF SignInTypeOK
<1> QED BY <1>1, <1>2, SignInAssumption DEF GuessesInv, GuessesAreBounded

(* A failure takes its sign-in out of those that are still to be counted.  *)
LEMMA FailureKeepsGuesses ==
  ASSUME SignInTypeOK, SignInTypeOK', GuessesInv, NEW s \in SignIns, RecordFailure(s)
  PROVE  GuessesInv'
<1> USE SignInAssumption
<1> DEFINE N == Cardinality(SignIns)
           g == Cardinality(Guessing)
           count == throttle.count
           start == throttle.start
<1>0. /\ now \in Nat /\ count \in Nat /\ start \in Nat /\ throttle.until \in Nat
      /\ throttle \in Throttles /\ N \in Nat
  BY Counted DEF SignInTypeOK, Throttles
<1>1. now' = now /\ throttle' = Failed /\ signIns' = [signIns EXCEPT ![s] = Unsent]
      /\ signIns[s].at = "failing"
  BY DEF RecordFailure
<1>2. Guessing' = Guessing \ {s} /\ s \in Guessing
  BY <1>1 DEF Guessing, Unsent, SignInTypeOK
<1>3. Cardinality(Guessing') = g - 1 /\ g \in Nat /\ g <= N /\ g - 1 \in Nat
  <2>1. Guessing \in SUBSET SignIns /\ Guessing' \in SUBSET SignIns
    BY DEF Guessing
  <2> QED BY <1>2, <2>1, Counted
<1>4. CASE count = 0 \/ WindowIsOver
  <2>1. /\ throttle'.count = 1 /\ throttle'.start = now
        /\ MaxFailures = 1 => throttle'.until = now + Block
    BY <1>0, <1>1, <1>4 DEF Failed, WindowIsOver
  <2>2. GuessesAreBounded'
    BY <1>0, <1>3, <2>1 DEF GuessesAreBounded
  <2> HIDE DEF N, g
  <2>3. ASSUME Block >= Window, throttle'.count >= MaxFailures
        PROVE  /\ throttle'.until >= throttle'.start + Window
               /\ throttle'.count + (g - 1) < MaxFailures + N
    BY <1>0, <1>3, <2>1, <2>3
  <2> QED BY <1>0, <1>1, <1>3, <2>1, <2>2, <2>3 DEF GuessesInv, N, g
<1>5. CASE ~(count = 0 \/ WindowIsOver)
  <2>1. /\ throttle'.count = count + 1 /\ throttle'.start = start
        /\ count + 1 >= MaxFailures => throttle'.until = now + Block
    BY <1>0, <1>1, <1>5 DEF Failed, WindowIsOver, Throttles
  <2>2. /\ start <= now /\ ~WindowIsOver
        /\ Block >= Window /\ count >= MaxFailures => count + g < MaxFailures + N
    BY <1>5 DEF GuessesInv
  <2> HIDE DEF N, g, count, start
  <2>3. Block >= Window => count + 1 + (g - 1) < MaxFailures + N
          \/ count + 1 < MaxFailures
    <3>1. CASE count >= MaxFailures
      BY <1>0, <1>3, <2>2, <3>1
    <3>2. CASE ~(count >= MaxFailures)
      BY <1>0, <1>3, <3>2
    <3> QED BY <3>1, <3>2
  <2>4. Block >= Window => throttle'.count < MaxFailures + N
    BY <1>0, <1>3, <2>1, <2>3
  <2>5. ASSUME Block >= Window, throttle'.count >= MaxFailures
        PROVE  /\ throttle'.until >= throttle'.start + Window
               /\ throttle'.count + (g - 1) < MaxFailures + N
    BY <1>0, <1>3, <2>1, <2>2, <2>3, <2>5
  <2> QED
    BY <1>0, <1>1, <1>3, <2>1, <2>2, <2>4, <2>5 DEF GuessesInv, GuessesAreBounded, N, g
<1> QED BY <1>4, <1>5

LEMMA StepGuesses ==
  ASSUME SignInTypeOK, SignInTypeOK', GuessesInv, AccountStep
  PROVE  GuessesInv'
<1> USE SignInAssumption
<1>0. now \in Nat /\ signIns \in [SignIns -> Attempts]
  BY DEF SignInTypeOK
<1>1. ASSUME NEW s \in SignIns, NEW pw, Send(s, pw)
      PROVE  GuessesInv'
  <2>1. throttle' = throttle /\ now' = now /\ throttle.until <= now
    <3>1. throttle.until \in Nat /\ ~(throttle.until > now)
      BY <1>1 DEF Send, Blocked, SignInTypeOK, Throttles
    <3> QED BY <1>0, <1>1, <3>1 DEF Send
  <2>2. throttle.start \in Nat /\ throttle.until \in Nat
    BY DEF SignInTypeOK, Throttles
  <2>3. Block >= Window /\ throttle.count >= MaxFailures =>
          throttle.until >= throttle.start + Window /\ throttle.start + Window <= now
    BY <1>0, <2>1, <2>2 DEF GuessesInv
  <2> QED BY <2>1, <2>3 DEF GuessesInv, GuessesAreBounded, WindowIsOver
<1>2. ASSUME NEW s \in SignIns, Read(s) \/ Rehash(s) \/ CreateSession(s)
      PROVE  GuessesInv'
  <2>1. throttle' = throttle /\ now' = now
    BY <1>2 DEF Read, Rehash, CreateSession
  <2>2. /\ signIns' = [signIns EXCEPT ![s] = signIns'[s]]
        /\ \A t \in SignIns \ {s} : signIns'[t] = signIns[t]
    BY <1>0, <1>2, SignInMoves DEF SignInStep
  <2>3. signIns[s].at = "sent" \/ signIns'[s].at \in {"clearing", "idle"}
    BY <1>0, <1>2 DEF Read, Rehash, Move, CreateSession, Unsent, Attempts
  <2>4. Guessing' \subseteq Guessing
    BY <2>2, <2>3 DEF Guessing
  <2> QED BY <1>0, <2>1, <2>4, GuessesKept
<1>3. ASSUME NEW s \in SignIns, RecordFailure(s)
      PROVE  GuessesInv'
  BY <1>3, FailureKeepsGuesses
<1>4. ASSUME (\E s \in SignIns : Clear(s)) \/ ClearThrottle
      PROVE  GuessesInv'
  BY <1>4, ClearedThrottle DEF Clear, ClearThrottle
<1>5. ASSUME signIns' = signIns, throttle' = throttle, now' >= now
      PROVE  GuessesInv'
  <2>1. Guessing' \subseteq Guessing
    BY <1>5 DEF Guessing
  <2> QED BY <1>5, <2>1, GuessesKept
<1>6. ASSUME \/ \E i \in SessionIds : SessionStep(i)
             \/ \E pw \in 1..MaxChanges : ChangePassword(pw)
             \/ RevokeSessions({}) \/ CleanSessions \/ RefuseChange
             \/ DeactivateUser \/ ReactivateUser \/ Tick
      PROVE  GuessesInv'
  <2>1. signIns' = signIns /\ throttle' = throttle /\ now' \in {now, now + 1}
    BY <1>6
    DEF SessionStep, RevokeSession, PassLimit, ResolveOver, AskChange, RevokeSessions,
        ChangePassword, CleanSessions, RefuseChange, DeactivateUser, ReactivateUser, Tick
  <2> QED BY <1>0, <1>5, <2>1
<1>7. ASSUME \E s \in SignIns : SignInStep(s)
      PROVE  GuessesInv'
  BY <1>1, <1>2, <1>3, <1>4, <1>7 DEF SignInStep
<1> QED BY <1>4, <1>6, <1>7 DEF AccountStep

(* An address is guessed at most MaxFailures times in a window, and once   *)
(* more by each sign-in that was being checked when the block began.       *)
THEOREM GuessesStayBounded == SignInSpec => []GuessesAreBounded
<1>1. SignInTypeOK /\ SignInTypeOK' /\ GuessesInv /\ [AccountStep]_accountVars => GuessesInv'
  <2>1. ASSUME SignInTypeOK, SignInTypeOK', GuessesInv, UNCHANGED accountVars
        PROVE  GuessesInv'
    <3>1. now \in Nat /\ now' = now /\ throttle' = throttle /\ signIns' = signIns
      BY <2>1 DEF SignInTypeOK, accountVars
    <3>2. Guessing' \subseteq Guessing
      BY <3>1 DEF Guessing
    <3>3. now' >= now
      BY <3>1
    <3> QED BY <2>1, <3>1, <3>2, <3>3, GuessesKept
  <2> QED BY <2>1, StepGuesses
<1>2. SignInInit => SignInTypeOK /\ GuessesInv
  BY SignInInitInv DEF RevocationsInv
<1>3. SignInTypeOK /\ [AccountStep]_accountVars => SignInTypeOK'
  <2>1. ASSUME SignInTypeOK, UNCHANGED accountVars PROVE SignInTypeOK'
    BY <2>1 DEF SignInTypeOK, accountVars
  <2> QED BY <2>1, StepSignInType
<1>4. GuessesInv => GuessesAreBounded
  BY DEF GuessesInv
<1> QED BY <1>1, <1>2, <1>3, <1>4, PTL DEF SignInSpec

--------------------------------------------------------------------------------

\* What routes ask, each once.
Demand(guard, need, way) == [guard |-> guard, need |-> need, way |-> way]

AskedOfAccounts ==
    {Demand("public", "nothing", "none"), Demand("accounts", "nothing", "none"),
     Demand("session", "nothing", "none")}

AskedOfSystemAdmins ==
    {Demand("system_admin", "nothing", "system"), Demand("restore_test", "nothing", "system"),
     Demand("retention", "nothing", "system")}

AskedOfMembers ==
    {Demand("members", "any", "read"), Demand("members", "managers", "administer"),
     Demand("members", "owners", "administer"), Demand("invitation", "managers", "administer"),
     Demand("invitation", "owners", "administer"), Demand("within", "managers", "administer")}

AskedOfManagers ==
    {Demand("audit", "nothing", "administer"), Demand("operations", "nothing", "administer"),
     Demand("retry", "nothing", "administer")}

AskedOfContent ==
    {Demand("scope", "read", "read"), Demand("filter", "read", "read"),
     Demand("shown", "read", "read"), Demand("coverage", "read", "read"),
     Demand("owner", "read", "read"), Demand("owner", "contribute", "contribute"),
     Demand("owner", "manage", "manage"), Demand("upload", "contribute", "contribute"),
     Demand("new", "manage", "manage"), Demand("new_research", "contribute", "contribute"),
     Demand("part", "read", "read")}

AskedOfInvestigations ==
    {Demand("new_investigation", "nothing", "start"), Demand("investigations", "view", "view"),
     Demand("investigation", "view", "view"), Demand("investigation", "edit", "edit"),
     Demand("investigation", "delete", "delete"), Demand("items", "view", "view"),
     Demand("items", "edit", "edit"), Demand("item", "edit", "edit"),
     Demand("reference", "edit", "edit"), Demand("team", "view", "view"),
     Demand("team", "manage_members", "manage_members")}

Asked == AskedOfAccounts \cup AskedOfSystemAdmins \cup AskedOfMembers \cup
         AskedOfManagers \cup AskedOfContent \cup AskedOfInvestigations

Asks(r) == Demand(r.guard, r.need, r.way)

LEMMA RouteAsks ==
  /\ \A h, g, n, w : Asks(Route(h, g, n, w)) = Demand(g, n, w)
  /\ \A hs, g, n, w : \A r \in Every(hs, g, n, w) : Asks(r) = Demand(g, n, w)
<1>1. \A h, g, n, w : Asks(Route(h, g, n, w)) = Demand(g, n, w)
  BY DEF Asks, Route, Demand
<1> QED BY <1>1 DEF Every

(* Every route of the API asks one of these.                               *)
LEMMA RoutesAsk == Demands \subseteq Asked
<1>1. /\ \A r \in HealthRoutes : Asks(r) \in AskedOfAccounts
      /\ \A r \in AuthRoutes : Asks(r) \in AskedOfAccounts
  <2>1. \A r \in HealthRoutes : Asks(r) \in AskedOfAccounts
    BY RouteAsks DEF HealthRoutes, AskedOfAccounts
  <2>2. \A r \in AuthRoutes : Asks(r) \in AskedOfAccounts
    BY RouteAsks DEF AuthRoutes, AskedOfAccounts
  <2> QED BY <2>1, <2>2
<1>2. /\ \A r \in AdminAuthRoutes : Asks(r) \in AskedOfSystemAdmins
      /\ \A r \in AdminUserRoutes : Asks(r) \in AskedOfSystemAdmins
      /\ \A r \in AdminEvaluationRoutes : Asks(r) \in AskedOfSystemAdmins
      /\ \A r \in RestorePlanRoutes : Asks(r) \in AskedOfSystemAdmins
      /\ \A r \in RestoreRoutes : Asks(r) \in AskedOfSystemAdmins
  <2>1. \A r \in AdminAuthRoutes : Asks(r) \in AskedOfSystemAdmins
    BY RouteAsks DEF AdminAuthRoutes, AskedOfSystemAdmins
  <2>2. \A r \in AdminUserRoutes : Asks(r) \in AskedOfSystemAdmins
    BY RouteAsks DEF AdminUserRoutes, AskedOfSystemAdmins
  <2>3. \A r \in AdminEvaluationRoutes : Asks(r) \in AskedOfSystemAdmins
    BY RouteAsks DEF AdminEvaluationRoutes, AskedOfSystemAdmins
  <2>4. \A r \in RestorePlanRoutes : Asks(r) \in AskedOfSystemAdmins
    BY RouteAsks DEF RestorePlanRoutes, AskedOfSystemAdmins
  <2>5. \A r \in RestoreRoutes : Asks(r) \in AskedOfSystemAdmins
    BY RouteAsks DEF RestoreRoutes, AskedOfSystemAdmins
  <2> QED BY <2>1, <2>2, <2>3, <2>4, <2>5
<1>3. /\ \A r \in BackupRoutes : Asks(r) \in AskedOfMembers
      /\ \A r \in ExportRoutes : Asks(r) \in AskedOfMembers
  <2>1. \A r \in BackupRoutes : Asks(r) \in AskedOfMembers
    BY RouteAsks DEF BackupRoutes, AskedOfMembers
  <2>2. \A r \in ExportRoutes : Asks(r) \in AskedOfMembers
    BY RouteAsks DEF ExportRoutes, AskedOfMembers
  <2> QED BY <2>1, <2>2
<1>4. /\ \A r \in SecurityRoutes : Asks(r) \in AskedOfManagers
      /\ \A r \in OperationRoutes : Asks(r) \in AskedOfManagers
  <2>1. \A r \in SecurityRoutes : Asks(r) \in AskedOfManagers
    BY RouteAsks DEF SecurityRoutes, AskedOfManagers
  <2>2. \A r \in OperationRoutes : Asks(r) \in AskedOfManagers
    BY RouteAsks DEF OperationRoutes, AskedOfManagers
  <2> QED BY <2>1, <2>2
<1>5. /\ \A r \in SourceRoutes : Asks(r) \in AskedOfContent
      /\ \A r \in IngestionRunRoutes : Asks(r) \in AskedOfContent
      /\ \A r \in SearchRoutes : Asks(r) \in AskedOfContent
      /\ \A r \in EmbeddingRoutes : Asks(r) \in AskedOfContent
      /\ \A r \in EntityRoutes : Asks(r) \in AskedOfContent
      /\ \A r \in EventRoutes : Asks(r) \in AskedOfContent
      /\ \A r \in ClaimRoutes : Asks(r) \in AskedOfContent
      /\ \A r \in TimelineRoutes : Asks(r) \in AskedOfContent
      /\ \A r \in EventClusterRoutes : Asks(r) \in AskedOfContent
      /\ \A r \in ResearchRoutes : Asks(r) \in AskedOfContent
      /\ \A r \in DashboardRoutes : Asks(r) \in AskedOfContent
  <2>1. \A r \in SourceRoutes : Asks(r) \in AskedOfContent
    BY RouteAsks DEF SourceRoutes, AskedOfContent
  <2>2. \A r \in IngestionRunRoutes : Asks(r) \in AskedOfContent
    BY RouteAsks DEF IngestionRunRoutes, AskedOfContent
  <2>3. \A r \in SearchRoutes : Asks(r) \in AskedOfContent
    BY RouteAsks DEF SearchRoutes, AskedOfContent
  <2>4. \A r \in EmbeddingRoutes : Asks(r) \in AskedOfContent
    BY RouteAsks DEF EmbeddingRoutes, AskedOfContent
  <2>5. \A r \in EntityRoutes : Asks(r) \in AskedOfContent
    BY RouteAsks DEF EntityRoutes, AskedOfContent
  <2>6. \A r \in EventRoutes : Asks(r) \in AskedOfContent
    BY RouteAsks DEF EventRoutes, AskedOfContent
  <2>7. \A r \in ClaimRoutes : Asks(r) \in AskedOfContent
    BY RouteAsks DEF ClaimRoutes, AskedOfContent
  <2>8. \A r \in TimelineRoutes : Asks(r) \in AskedOfContent
    BY RouteAsks DEF TimelineRoutes, AskedOfContent
  <2>9. \A r \in EventClusterRoutes : Asks(r) \in AskedOfContent
    BY RouteAsks DEF EventClusterRoutes, AskedOfContent
  <2>10. \A r \in ResearchRoutes : Asks(r) \in AskedOfContent
    BY RouteAsks DEF ResearchRoutes, AskedOfContent
  <2>11. \A r \in DashboardRoutes : Asks(r) \in AskedOfContent
    BY RouteAsks DEF DashboardRoutes, AskedOfContent
  <2> QED BY <2>1, <2>2, <2>3, <2>4, <2>5, <2>6, <2>7, <2>8, <2>9, <2>10, <2>11
<1>6. /\ \A r \in InvestigationRoutes : Asks(r) \in AskedOfInvestigations
      /\ \A r \in InvestigationMemberRoutes : Asks(r) \in AskedOfInvestigations
  <2>1. \A r \in InvestigationRoutes : Asks(r) \in AskedOfInvestigations
    BY RouteAsks DEF InvestigationRoutes, AskedOfInvestigations
  <2>2. \A r \in InvestigationMemberRoutes : Asks(r) \in AskedOfInvestigations
    BY RouteAsks DEF InvestigationMemberRoutes, AskedOfInvestigations
  <2> QED BY <2>1, <2>2
<1>7. \A r \in OrganizationRoutes : Asks(r) \in AskedOfAccounts \cup AskedOfMembers
  BY RouteAsks DEF OrganizationRoutes, Managing, AskedOfAccounts, AskedOfMembers
<1>8. \A r \in InvitationRoutes : Asks(r) \in AskedOfAccounts \cup AskedOfMembers
  BY RouteAsks DEF InvitationRoutes, Managing, AskedOfAccounts, AskedOfMembers
<1>9. \A r \in DrillRoutes : Asks(r) \in AskedOfSystemAdmins \cup AskedOfMembers
  BY RouteAsks DEF DrillRoutes, Managing, AskedOfSystemAdmins, AskedOfMembers
<1>10. \A r \in RetentionRoutes : Asks(r) \in AskedOfSystemAdmins \cup AskedOfMembers
  BY RouteAsks DEF RetentionRoutes, Managing, AskedOfSystemAdmins, AskedOfMembers
<1>11. \A r \in DocumentRoutes : Asks(r) \in AskedOfAccounts \cup AskedOfContent
  BY RouteAsks DEF DocumentRoutes, Managing, AskedOfAccounts, AskedOfContent
<1>12. \A r \in Routes : Asks(r) \in Asked
  BY <1>1, <1>2, <1>3, <1>4, <1>5, <1>6, <1>7, <1>8, <1>9, <1>10, <1>11 DEF Routes, Asked
<1> QED BY <1>12 DEF Demands, Asks, Demand

\* A demand whose answer keeps to the rights of the caller.
Answers(d, organization, owner, second) ==
    Answer(d, organization, owner, second) = "ok" =>
        IF d.way = "system" THEN MayDo("system", Unnamed)
        ELSE \A o \in Touched(d, organization, owner) : MayDo(d.way, o)

LEMMA RoleInMeans ==
  ASSUME NEW organization, NEW some, RoleIn(organization, some) = "ok"
  PROVE  organization \in Organizations /\ (admin \/ role[organization] \in some)
BY DEF RoleIn

LEMMA SystemAnswers ==
  ASSUME NEW d \in AskedOfSystemAdmins \cup AskedOfAccounts, NEW organization, NEW owner, NEW second
  PROVE  Answers(d, organization, owner, second)
<1>1. ASSUME d \in AskedOfAccounts
      PROVE  d.way = "none" /\ d.guard \in {"public", "accounts", "session"}
  BY <1>1 DEF AskedOfAccounts, Demand
<1>2. CASE d \in AskedOfAccounts
  BY <1>1, <1>2 DEF Answers, Touched
<1>3. CASE d \in AskedOfSystemAdmins
  <2>1. d.way = "system" /\ d.guard \in {"system_admin", "restore_test", "retention"}
    BY <1>3 DEF AskedOfSystemAdmins, Demand
  <2>2. ASSUME Answer(d, organization, owner, second) = "ok" PROVE auth /\ signedIn /\ admin
    <3>1. CASE d.guard = "system_admin"
      BY <2>2, <3>1 DEF Answer, Session
    <3>2. CASE d.guard = "restore_test"
      BY <2>2, <3>2 DEF Answer, Session
    <3>3. CASE d.guard = "retention"
      BY <2>2, <3>3 DEF Answer, Session, Then
    <3> QED BY <2>1, <3>1, <3>2, <3>3
  <2> QED BY <2>1, <2>2 DEF Answers, MayDo
<1> QED BY <1>2, <1>3

LEMMA MemberAnswers ==
  ASSUME NEW d \in AskedOfMembers, NEW organization, NEW owner, NEW second
  PROVE  Answers(d, organization, owner, second)
<1>1. /\ d.guard \in {"members", "within", "invitation"}
      /\ \/ d.way = "read" /\ d.need = "any"
         \/ d.way = "administer" /\ d.need \in {"managers", "owners"}
  BY DEF AskedOfMembers, Demand
<1> SUFFICES ASSUME Answer(d, organization, owner, second) = "ok",
                    NEW o \in Touched(d, organization, owner)
             PROVE  MayDo(d.way, o)
  BY <1>1 DEF Answers
<1>2. /\ auth /\ signedIn /\ RoleIn(organization, Needed(d.need)) = "ok"
      /\ d.guard # "members" => owner = organization
  <2>1. CASE d.guard = "members"
    BY <2>1 DEF Answer, Session
  <2>2. CASE d.guard = "within"
    BY <2>2 DEF Answer, Session, Then, Within
  <2>3. CASE d.guard = "invitation"
    BY <2>3 DEF Answer, Session, Then, Within
  <2> QED BY <1>1, <2>1, <2>2, <2>3
<1>3. organization \in Organizations /\ (admin \/ role[organization] \in Needed(d.need))
  BY <1>2, RoleInMeans
<1>4. o = organization
  BY <1>1, <1>2, <1>3, OrganizationsAssumption DEF Touched
<1>5. admin \/ IF d.way = "read" THEN role[o] # "none" ELSE role[o] \in {"admin", "owner"}
  BY <1>1, <1>3, <1>4 DEF Needed, Roles, Managers
<1> QED BY <1>1, <1>2, <1>3, <1>4, <1>5 DEF MayDo

LEMMA ManagerAnswers ==
  ASSUME NEW d \in AskedOfManagers, NEW organization, NEW owner, NEW second,
         d.guard = "retry" => owner # Unnamed
  PROVE  Answers(d, organization, owner, second)
<1>1. d.guard \in {"audit", "operations", "retry"} /\ d.way = "administer"
  BY DEF AskedOfManagers, Demand
<1> SUFFICES ASSUME Answer(d, organization, owner, second) = "ok",
                    NEW o \in Touched(d, organization, owner)
             PROVE  MayDo(d.way, o)
  BY <1>1 DEF Answers
<1>2. Having("manage") \subseteq {"admin", "owner"} /\ Managers = {"owner", "admin"}
  BY DEF Having, Roles, Capabilities, Managers
<1>3. CASE d.guard = "audit"
  <2>1. auth /\ signedIn /\ (admin \/ RoleIn(organization, Managers) = "ok")
    BY <1>3 DEF Answer, Session
  <2>2. CASE admin
    BY <1>1, <2>1, <2>2 DEF MayDo
  <2>3. CASE ~admin
    <3>1. organization \in Organizations /\ role[organization] \in {"admin", "owner"}
      BY <1>2, <2>1, <2>3, RoleInMeans
    <3>2. o = organization
      BY <1>1, <1>3, <3>1, OrganizationsAssumption DEF Touched
    <3> QED BY <1>1, <2>1, <3>1, <3>2 DEF MayDo
  <2> QED BY <2>2, <2>3
<1>4. CASE d.guard \in {"operations", "retry"}
  <2>1. /\ auth /\ signedIn /\ RoleIn(organization, Having("manage")) = "ok"
        /\ d.guard = "retry" => owner = organization
    BY <1>4 DEF Answer, Session, Then, Within
  <2>2. organization \in Organizations /\ (admin \/ role[organization] \in {"admin", "owner"})
    BY <1>2, <2>1, RoleInMeans
  <2>3. o = organization
    BY <1>1, <1>4, <2>1, <2>2, OrganizationsAssumption DEF Touched
  <2> QED BY <1>1, <2>1, <2>2, <2>3 DEF MayDo
<1> QED BY <1>1, <1>3, <1>4

\* What the roles of an organization may do with its content.
LEMMA HavingMeans ==
  /\ Having("read") = Roles
  /\ Having("contribute") = {"member", "admin", "owner"}
  /\ Having("manage") = {"admin", "owner"}
BY DEF Having, Roles, Capabilities

LEMMA MayDoContent ==
  ASSUME NEW way \in {"read", "contribute", "manage"}, NEW o \in Organizations,
         auth, signedIn, admin \/ role[o] \in Having(way)
  PROVE  MayDo(way, o)
BY HavingMeans DEF MayDo, Roles

\* What a right over content, once found, says.
LEMMA RequireMeans ==
  ASSUME NEW owner, NEW need \in {"read", "contribute", "manage"}, Require(owner, need) = "ok"
  PROVE  owner # Missing /\ MayDo(need, owner)
<1>1. CASE ~auth
  BY <1>1 DEF Require, Actor, MayDo, ContentWays
<1>2. CASE auth
  <2>1. signedIn /\ owner # Missing
    BY <1>2 DEF Require, Actor
  <2>2. CASE owner = Legacy
    <3>1. admin
      BY <1>2, <2>1, <2>2 DEF Require, Actor
    <3> QED BY <1>2, <2>1, <3>1 DEF MayDo
  <2>3. CASE owner # Legacy
    <3>1. RoleIn(owner, Having(need)) = "ok"
      BY <1>2, <2>1, <2>3 DEF Require, Actor
    <3>2. owner \in Organizations /\ (admin \/ role[owner] \in Having(need))
      BY <3>1, RoleInMeans
    <3> QED BY <1>2, <2>1, <3>2, MayDoContent
  <2> QED BY <2>2, <2>3
<1> QED BY <1>1, <1>2

LEMMA ScopeMeans ==
  ASSUME NEW organization, NEW need \in {"read", "contribute", "manage"},
         Scope(organization, need) = "ok"
  PROVE  /\ \A o \in Allowed(organization) : MayDo(need, o)
         /\ auth /\ organization # Unnamed =>
              organization \in Organizations /\ MayDo(need, organization)
<1>1. CASE ~auth
  BY <1>1 DEF MayDo, ContentWays
<1>2. CASE auth /\ organization = Unnamed
  <2>1. signedIn /\ admin
    BY <1>2 DEF Scope, Actor
  <2> QED BY <1>2, <2>1 DEF Allowed, MayDo
<1>3. CASE auth /\ organization # Unnamed
  <2>1. signedIn /\ RoleIn(organization, Having(need)) = "ok"
    BY <1>3 DEF Scope, Actor
  <2>2. organization \in Organizations /\ (admin \/ role[organization] \in Having(need))
    BY <2>1, RoleInMeans
  <2>3. MayDo(need, organization)
    BY <1>3, <2>1, <2>2, MayDoContent
  <2> QED BY <1>3, <2>2, <2>3 DEF Allowed
<1> QED BY <1>1, <1>2, <1>3

LEMMA NewContentMeans ==
  ASSUME NEW organization, NEW need \in {"read", "contribute", "manage"},
         NewContentOwner(organization, need) = "ok"
  PROVE  /\ organization = Unnamed => ~auth
         /\ organization # Unnamed => auth /\ MayDo(need, organization)
<1>1. CASE organization = Unnamed
  BY <1>1 DEF NewContentOwner, Actor
<1>2. CASE organization # Unnamed
  <2>1. auth /\ Scope(organization, need) = "ok"
    BY <1>2 DEF NewContentOwner, Actor
  <2> QED BY <1>2, <2>1, ScopeMeans
<1> QED BY <1>1, <1>2

LEMMA ContentAnswers ==
  ASSUME NEW d \in AskedOfContent, NEW organization, NEW owner, NEW second
  PROVE  Answers(d, organization, owner, second)
<1>1. /\ d.way \in {"read", "contribute", "manage"} /\ d.need = d.way
      /\ d.guard \in {"scope", "filter", "shown", "coverage", "owner", "upload", "part", "new",
                      "new_research"}
  BY DEF AskedOfContent, Demand
<1> SUFFICES ASSUME Answer(d, organization, owner, second) = "ok",
                    NEW o \in Touched(d, organization, owner)
             PROVE  MayDo(d.way, o)
  BY <1>1 DEF Answers
<1>2. CASE d.guard \in {"scope", "filter"}
  <2>1. Scope(organization, d.need) = "ok"
    BY <1>2 DEF Answer, Then
  <2>2. o \in Allowed(organization)
    BY <1>1, <1>2 DEF Touched
  <2> QED BY <1>1, <2>1, <2>2, ScopeMeans
<1>3. CASE d.guard = "shown"
  <2>1. Scope(organization, d.need) = "ok" /\ owner \in Allowed(organization)
    BY <1>3 DEF Answer, Then
  <2>2. o = owner
    BY <1>1, <1>3 DEF Touched
  <2> QED BY <1>1, <2>1, <2>2, ScopeMeans
<1>4. CASE d.guard = "coverage"
  <2>1. CASE owner = Unnamed
    <3>1. Scope(organization, d.need) = "ok" /\ o \in Allowed(organization)
      BY <1>1, <1>4, <2>1 DEF Answer, Touched
    <3> QED BY <1>1, <3>1, ScopeMeans
  <2>2. CASE owner # Unnamed
    <3>1. Require(owner, d.need) = "ok" /\ o = owner
      BY <1>1, <1>4, <2>2 DEF Answer, Touched
    <3> QED BY <1>1, <3>1, RequireMeans
  <2> QED BY <2>1, <2>2
<1>5. CASE d.guard \in {"owner", "upload", "part"}
  <2>1. Require(owner, d.need) = "ok"
    BY <1>5 DEF Answer, Then
  <2>2. o = owner
    BY <1>1, <1>5 DEF Touched
  <2> QED BY <1>1, <2>1, <2>2, RequireMeans
<1>6. CASE d.guard \in {"new", "new_research"}
  <2>1. NewContentOwner(organization, d.need) = "ok"
    BY <1>6 DEF Answer, Then
  <2>2. o = IF organization = Unnamed THEN Legacy ELSE organization
    BY <1>1, <1>6 DEF Touched
  <2>3. CASE organization = Unnamed
    <3>1. ~auth
      BY <1>1, <2>1, <2>3, NewContentMeans
    <3> QED BY <1>1, <3>1 DEF MayDo, ContentWays
  <2>4. CASE organization # Unnamed
    BY <1>1, <2>1, <2>2, <2>4, NewContentMeans
  <2> QED BY <2>3, <2>4
<1> QED BY <1>1, <1>2, <1>3, <1>4, <1>5, <1>6

\* What a permission in an investigation says.
LEMMA PermissionMeans ==
  ASSUME NEW owner \in ContentOwners, auth, signedIn,
         NEW permission \in {"view", "edit", "delete", "manage_members"},
         permission \in PermissionsFor(owner)
  PROVE  MayDo(permission, owner)
<1>1. CASE admin
  BY <1>1 DEF MayDo
<1>2. CASE ~admin
  <2>1. owner # Legacy
    BY <1>2 DEF PermissionsFor
  <2>2. owner \in Organizations
    BY <2>1 DEF ContentOwners
  <2>3. CASE role[owner] \in Managers
    BY <2>2, <2>3 DEF MayDo, Managers
  <2>4. CASE role[owner] \notin Managers
    <3>1. /\ role[owner] # "none"
          /\ permission \in
               CASE collaborator = "owner" -> {"view", "edit", "delete", "manage_members"}
                 [] collaborator = "editor" -> {"view", "edit"}
                 [] collaborator = "viewer" -> {"view"}
                 [] OTHER -> {}
      BY <1>2, <2>1, <2>4 DEF PermissionsFor
    <3>2. /\ permission = "view" => collaborator # "none"
          /\ permission = "edit" => collaborator \in {"owner", "editor"}
          /\ permission \in {"delete", "manage_members"} => collaborator = "owner"
      BY <3>1
    <3> QED BY <2>2, <3>1, <3>2 DEF MayDo
  <2> QED BY <2>3, <2>4
<1> QED BY <1>1, <1>2

\* The guards of one investigation, and those that ask for a permission there
\* without authentication too.
OfOneOpen == {"investigation", "items", "item", "reference"}
OfOne == OfOneOpen \cup {"team"}

LEMMA InvestigationForMeans ==
  ASSUME NEW owner, NEW permission, InvestigationFor(owner, permission) = "ok"
  PROVE  /\ owner # Missing
         /\ auth => signedIn /\ Investigation(owner, permission) = "ok"
                   /\ permission \in PermissionsFor(owner)
BY DEF InvestigationFor, Actor, Investigation

LEMMA InvestigationAnswers ==
  ASSUME NEW d \in AskedOfInvestigations, NEW organization, NEW owner, NEW second,
         d.guard \in OfOne => owner \in ContentOwners \cup {Missing}
  PROVE  Answers(d, organization, owner, second)
<1>1. \/ d.guard = "new_investigation" /\ d.way = "start"
      \/ d.guard = "investigations" /\ d.way = "view"
      \/ d.guard \in OfOneOpen /\ d.way \in {"view", "edit", "delete"} /\ d.need = d.way
      \/ d.guard = "team" /\ d.way \in {"view", "manage_members"} /\ d.need = d.way
  BY DEF AskedOfInvestigations, Demand, OfOneOpen
<1> SUFFICES ASSUME Answer(d, organization, owner, second) = "ok",
                    NEW o \in Touched(d, organization, owner)
             PROVE  MayDo(d.way, o)
  BY <1>1 DEF Answers
<1>2. CASE d.guard = "new_investigation"
  <2>0. d.way = "start"
    BY <1>1, <1>2 DEF OfOneOpen
  <2>1. o = IF organization = Unnamed THEN Legacy ELSE organization
    BY <1>2 DEF Touched
  <2>2. CASE ~auth
    BY <2>0, <2>2 DEF MayDo, ContentWays
  <2>3. CASE auth
    <3>1. organization # Unnamed /\ signedIn /\ RoleIn(organization, Roles) = "ok"
      BY <1>2, <2>3 DEF Answer, Actor
    <3>2. organization \in Organizations /\ (admin \/ role[organization] # "none")
      BY <3>1, RoleInMeans DEF Roles
    <3>3. o = organization
      BY <2>1, <3>1
    <3> QED BY <2>0, <2>3, <3>1, <3>2, <3>3 DEF MayDo
  <2> QED BY <2>2, <2>3
<1>3. CASE d.guard = "investigations"
  <2>0. d.way = "view"
    BY <1>1, <1>3 DEF OfOneOpen
  <2>1. o \in ContentOwners /\ (~auth \/ "view" \in PermissionsFor(o)) /\ d.way = "view"
    BY <1>3, <2>0 DEF Touched
  <2>2. CASE ~auth
    BY <2>1, <2>2 DEF MayDo, ContentWays
  <2>3. CASE auth
    <3>1. signedIn
      BY <1>3, <2>3 DEF Answer, Actor
    <3> QED BY <2>1, <2>3, <3>1, PermissionMeans
  <2> QED BY <2>2, <2>3
<1>4. CASE d.guard \in OfOneOpen
  <2>1. o = owner /\ d.way \in {"view", "edit", "delete"} /\ d.need = d.way
    BY <1>1, <1>4 DEF Touched, OfOneOpen
  <2>2. InvestigationFor(owner, d.need) = "ok"
    BY <1>4 DEF Answer, Then, OfOneOpen
  <2>3. CASE ~auth
    BY <2>1, <2>3 DEF MayDo, ContentWays
  <2>4. CASE auth
    <3>1. signedIn /\ owner # Missing /\ d.need \in PermissionsFor(owner)
      BY <2>2, <2>4, InvestigationForMeans
    <3> QED BY <1>4, <2>1, <2>4, <3>1, PermissionMeans DEF OfOne
  <2> QED BY <2>3, <2>4
<1>5. CASE d.guard = "team"
  <2>1. o = owner /\ d.way \in {"view", "manage_members"} /\ d.need = d.way
    BY <1>1, <1>5 DEF Touched, OfOneOpen
  <2>2. auth /\ signedIn /\ Investigation(owner, d.need) = "ok"
    BY <1>5 DEF Answer, Session
  <2>3. owner # Missing /\ d.need \in PermissionsFor(owner)
    BY <2>2 DEF Investigation
  <2> QED BY <1>5, <2>1, <2>2, <2>3, PermissionMeans DEF OfOne
<1> QED BY <1>1, <1>2, <1>3, <1>4, <1>5

(* Each request keeps to the rights of its caller.                         *)
LEMMA RequestsAnswer ==
  ASSUME NEW d \in Demands, NEW organization \in NamedOrganizations(d),
         NEW owner \in NamedOwners(d), NEW second
  PROVE  Answers(d, organization, owner, second)
<1>1. d \in Asked
  BY RoutesAsk
<1>2. d.guard \in OfOne => owner \in ContentOwners \cup {Missing}
  BY DEF NamedOwners, OfOne, OfOneOpen
<1>3. d.guard = "retry" => owner \in ContentOwners \cup {Missing}
  BY DEF NamedOwners
<1>4. CASE d \in AskedOfManagers
  BY <1>3, <1>4, ManagerAnswers, OrganizationsAssumption DEF ContentOwners, Legacy, Missing, Unnamed
<1>5. CASE d \in AskedOfInvestigations
  BY <1>2, <1>5, InvestigationAnswers
<1> QED BY <1>1, <1>4, <1>5, SystemAnswers, MemberAnswers, ContentAnswers DEF Asked

--------------------------------------------------------------------------------

\* An item that was saved with authentication is the owner's own, who has the
\* investigation.
SavedSound == saved # NoItem => saved.record = saved.investigation

\* What a request without authentication or a right in the investigation asks
\* for: reading what its owner has.
LEMMA PermissionReads ==
  ASSUME NEW owner \in ContentOwners, NEW permission, signedIn,
         permission \in PermissionsFor(owner)
  PROVE  auth => MayDo("read", owner)
<1>1. CASE admin
  BY <1>1 DEF MayDo
<1>2. CASE ~admin
  <2>1. owner \in Organizations /\ role[owner] # "none"
    BY <1>2 DEF PermissionsFor, ContentOwners, Managers
  <2> QED BY <2>1 DEF MayDo
<1> QED BY <1>1, <1>2

LEMMA InvestigationReads ==
  ASSUME NEW owner \in ContentOwners \cup {Missing}, NEW permission,
         InvestigationFor(owner, permission) = "ok"
  PROVE  owner \in ContentOwners /\ MayDo("read", owner)
<1>1. owner \in ContentOwners
  BY InvestigationForMeans
<1>2. CASE ~auth
  BY <1>1, <1>2 DEF MayDo, ContentWays
<1>3. CASE auth
  BY <1>1, <1>3, InvestigationForMeans, PermissionReads
<1> QED BY <1>1, <1>2, <1>3

\* Only these guards show a second record, and two save or drop one.
LEMMA RequestsShow ==
  ASSUME SavedSound, NEW d \in Demands, NEW organization, NEW owner \in NamedOwners(d), NEW second,
         Answer(d, organization, owner, second) = "ok"
  PROVE  \A o \in Shown(d, owner, second) : MayDo("read", o)
<1> SUFFICES ASSUME NEW o \in Shown(d, owner, second) PROVE MayDo("read", o)
  OBVIOUS
<1>1. CASE d.guard = "part"
  <2>1. d.need = "read"
    BY <1>1, RoutesAsk DEF Asked, AskedOfAccounts, AskedOfSystemAdmins, AskedOfMembers,
       AskedOfManagers, AskedOfContent, AskedOfInvestigations, Demand
  <2>2. Require(owner, d.need) = "ok" /\ Part(owner, second) = "ok"
    BY <1>1 DEF Answer, Then
  <2>3. o = owner
    BY <1>1, <2>2 DEF Shown, Part
  <2> QED BY <2>1, <2>2, <2>3, RequireMeans
<1>2. CASE d.guard = "reference"
  <2>1. InvestigationFor(owner, d.need) = "ok" /\ Reference(owner, second) = "ok"
    BY <1>2 DEF Answer, Then
  <2>2. owner \in ContentOwners \cup {Missing} /\ o = second
    BY <1>2 DEF NamedOwners, Shown
  <2>3. CASE ~auth
    BY <2>3 DEF MayDo, ContentWays
  <2>4. CASE auth
    BY <2>1, <2>2, <2>4, InvestigationReads DEF Reference
  <2> QED BY <2>3, <2>4
<1>3. CASE d.guard = "items"
  <2>1. InvestigationFor(owner, d.need) = "ok" /\ owner \in ContentOwners \cup {Missing}
    BY <1>3 DEF Answer, NamedOwners
  <2>2. saved.investigation = owner /\ o = saved.record
    BY <1>3 DEF Shown
  <2>3. owner # Unnamed
    BY <2>1, OrganizationsAssumption DEF ContentOwners, Legacy, Missing, Unnamed
  <2>4. saved # NoItem
    BY <2>2, <2>3 DEF NoItem
  <2> QED BY <2>1, <2>2, <2>4, InvestigationReads DEF SavedSound
<1> QED BY <1>1, <1>2, <1>3 DEF Shown

LEMMA RequestsSave ==
  ASSUME SavedSound, NEW d \in Demands, NEW organization, NEW owner, NEW second,
         Answer(d, organization, owner, second) = "ok",
         saved' \in Saved(d, owner, second)
  PROVE  SavedSound'
<1>1. CASE d.guard = "reference" /\ auth
  <2>1. Reference(owner, second) = "ok"
    BY <1>1 DEF Answer, Then
  <2>2. second = owner
    BY <1>1, <2>1 DEF Reference
  <2>3. saved' = saved \/ saved' = [investigation |-> owner, record |-> second]
    BY <1>1 DEF Saved
  <2> QED BY <2>2, <2>3 DEF SavedSound
<1>2. CASE ~(d.guard = "reference" /\ auth)
  <2>1. saved' = saved \/ saved' = NoItem
    BY <1>2 DEF Saved
  <2> QED BY <2>1 DEF SavedSound
<1> QED BY <1>1, <1>2

AccessInv == RequestsStayWithinRights /\ SavedSound

LEMMA StepAccess == AccessInv /\ [AccessStep]_accessVars => AccessInv'
<1> SUFFICES ASSUME AccessInv, [AccessStep]_accessVars PROVE AccessInv'
  OBVIOUS
<1>1. CASE ChangeCaller
  BY <1>1 DEF ChangeCaller, AccessInv, RequestsStayWithinRights, SavedSound
<1>2. ASSUME NEW d \in Demands, NEW organization \in NamedOrganizations(d),
             NEW owner \in NamedOwners(d), NEW second,
             Request(d, organization, owner, second)
      PROVE  AccessInv'
  <2>1. UNCHANGED <<auth, signedIn, admin, role, collaborator>>
    BY <1>2 DEF Request
  <2>2. ASSUME NEW way, NEW o PROVE MayDo(way, o)' <=> MayDo(way, o)
    BY <2>1 DEF MayDo
  <2>3. CASE Answer(d, organization, owner, second) # "ok"
    <3>1. saved' = saved /\ reached' = reached
      BY <1>2, <2>3 DEF Request
    <3> QED BY <2>2, <3>1 DEF AccessInv, RequestsStayWithinRights, SavedSound
  <2>4. CASE Answer(d, organization, owner, second) = "ok"
    <3>1. /\ saved' \in Saved(d, owner, second)
          /\ reached' =
               IF d.way = "system" THEN {<<"system", Unnamed>>}
               ELSE {<<d.way, o>> : o \in Touched(d, organization, owner)} \cup
                    {<<"read", o>> : o \in Shown(d, owner, second)}
      BY <1>2, <2>4 DEF Request
    <3>2. SavedSound'
      BY <2>4, <3>1, RequestsSave DEF AccessInv
    <3>3. /\ Answers(d, organization, owner, second)
          /\ \A o \in Shown(d, owner, second) : MayDo("read", o)
      BY <2>4, RequestsAnswer, RequestsShow DEF AccessInv
    <3>4. \A x \in reached' : MayDo(x[1], x[2])
      BY <2>4, <3>1, <3>3 DEF Answers
    <3> QED BY <2>2, <3>2, <3>4 DEF AccessInv, RequestsStayWithinRights
  <2> QED BY <2>3, <2>4
<1>3. CASE UNCHANGED accessVars
  BY <1>3 DEF accessVars, AccessInv, RequestsStayWithinRights, SavedSound, MayDo
<1> QED BY <1>1, <1>2, <1>3 DEF AccessStep

(* For any number of organizations, a request on any route shows and       *)
(* changes only what the caller's present role allows, also by what other  *)
(* requests have saved in an investigation before: with authentication,    *)
(* only records of its own organization are saved there.                   *)
THEOREM RequestsAlwaysStayWithinRights == AccessSpec => []RequestsStayWithinRights
<1>1. AccessInit => AccessInv
  BY DEF AccessInit, AccessInv, RequestsStayWithinRights, SavedSound
<1>2. AccessInv => RequestsStayWithinRights
  BY DEF AccessInv
<1> QED BY <1>1, <1>2, StepAccess, PTL DEF AccessSpec

--------------------------------------------------------------------------------

Outside(o) == o \in ContentOwners /\ Outsider(o)

LEMMA DisclosedMeans ==
  ASSUME NEW o, Outside(o), NEW x
  PROVE  /\ x = o => Disclosed(x, o) = Missing
         /\ x # o => Disclosed(x, o) = x
         /\ x = Unnamed <=> Disclosed(x, o) = Unnamed
         /\ Missing # Unnamed /\ Missing \notin Organizations /\ Missing # Legacy
         /\ Unnamed \notin Organizations /\ o # Missing /\ o # Unnamed
BY OrganizationsAssumption DEF Outside, ContentOwners, Disclosed, Legacy, Missing, Unnamed

\* Every helper of the guards answers alike; what it lets pass is not o.
LEMMA RoleInHides ==
  ASSUME NEW o, Outside(o), NEW x, NEW some, "none" \notin some
  PROVE  /\ RoleIn(x, some) = RoleIn(Disclosed(x, o), some)
         /\ RoleIn(x, some) = "ok" => x # o /\ x \in Organizations
BY DisclosedMeans, OrganizationsAssumption DEF RoleIn, Outside, Outsider

LEMMA HavingNoNone == \A capability : "none" \notin Having(capability)
BY DEF Having, Roles

LEMMA ScopeHides ==
  ASSUME NEW o, Outside(o), NEW x, NEW need
  PROVE  /\ Scope(x, need) = Scope(Disclosed(x, o), need)
         /\ Scope(x, need) = "ok" => x # o /\ x \in Organizations
<1>1. auth /\ ~admin
  BY DEF Outside, Outsider
<1>2. /\ RoleIn(x, Having(need)) = RoleIn(Disclosed(x, o), Having(need))
      /\ RoleIn(x, Having(need)) = "ok" => x # o /\ x \in Organizations
  BY HavingNoNone, RoleInHides
<1> QED BY <1>1, <1>2, DisclosedMeans DEF Scope, Actor

LEMMA RequireHides ==
  ASSUME NEW o, Outside(o), NEW x, NEW need
  PROVE  /\ Require(x, need) = Require(Disclosed(x, o), need)
         /\ Require(x, need) = "ok" => x # o /\ x \in Organizations
<1>1. auth /\ ~admin
  BY DEF Outside, Outsider
<1>2. /\ RoleIn(x, Having(need)) = RoleIn(Disclosed(x, o), Having(need))
      /\ RoleIn(x, Having(need)) = "ok" => x # o /\ x \in Organizations
  BY HavingNoNone, RoleInHides
<1>3. CASE x = o
  <2>1. Disclosed(x, o) = Missing /\ x # Missing
    BY <1>3, DisclosedMeans
  <2>2. Require(x, need) = Actor("ok", "not_found")
    BY <1>1, <1>2, <1>3, <2>1, DisclosedMeans DEF Require, Actor, RoleIn
  <2>3. Require(Missing, need) = Actor("not_found", "not_found")
    BY DEF Require
  <2> QED BY <1>1, <1>3, <2>1, <2>2, <2>3 DEF Actor
<1>4. CASE x # o
  BY <1>1, <1>2, <1>4, DisclosedMeans DEF Require, Actor
<1> QED BY <1>3, <1>4

LEMMA NewContentHides ==
  ASSUME NEW o, Outside(o), NEW x, NEW need
  PROVE  /\ NewContentOwner(x, need) = NewContentOwner(Disclosed(x, o), need)
         /\ NewContentOwner(x, need) = "ok" => x # o /\ x \in Organizations
<1>1. auth /\ ~admin
  BY DEF Outside, Outsider
<1> QED BY <1>1, ScopeHides, DisclosedMeans DEF NewContentOwner, Actor

LEMMA InvestigationHides ==
  ASSUME NEW o, Outside(o), NEW x, NEW permission
  PROVE  Investigation(x, permission) = Investigation(Disclosed(x, o), permission)
<1>1. PermissionsFor(o) = {}
  BY DEF Outside, Outsider, PermissionsFor, Managers
<1> QED BY <1>1, DisclosedMeans DEF Investigation

LEMMA InvestigationForHides ==
  ASSUME NEW o, Outside(o), NEW x, NEW permission
  PROVE  /\ InvestigationFor(x, permission) = InvestigationFor(Disclosed(x, o), permission)
         /\ InvestigationFor(x, permission) = "ok" => x # o /\ x # Missing
<1>1. auth /\ PermissionsFor(o) = {}
  BY DEF Outside, Outsider, PermissionsFor, Managers
<1>2. Investigation(x, permission) = Investigation(Disclosed(x, o), permission)
  BY InvestigationHides
<1>3. InvestigationFor(x, permission) = "ok" => x # o /\ x # Missing
  BY <1>1, InvestigationForMeans
<1> QED BY <1>1, <1>2, <1>3 DEF InvestigationFor, Actor

\* A second record has to be of an owner that is not o.
LEMMA SecondHides ==
  ASSUME NEW o, Outside(o), NEW x, x # o, x # Missing, NEW z
  PROVE  /\ Disclosed(x, o) = x
         /\ Part(x, z) = Part(x, Disclosed(z, o))
         /\ Reference(x, z) = Reference(x, Disclosed(z, o))
<1>1. auth
  BY DEF Outside, Outsider
<1> QED BY <1>1, DisclosedMeans DEF Part, Reference, Disclosed

\* A name that is not o is told from o as it is from what does not exist.
LEMMA WithinHides ==
  ASSUME NEW o, Outside(o), NEW x, x # o, x \in Organizations, NEW y
  PROVE  /\ Disclosed(x, o) = x
         /\ Within(x, y) = Within(x, Disclosed(y, o))
         /\ y = x <=> Disclosed(y, o) = x
BY DisclosedMeans DEF Within

LEMMA MembersHide ==
  ASSUME NEW o, Outside(o), NEW d \in AskedOfMembers \cup AskedOfManagers, NEW x, NEW y, NEW z
  PROVE  Answer(d, x, y, z) =
           Answer(d, Disclosed(x, o), Disclosed(y, o), Disclosed(z, o))
<1>1. /\ d.guard \in {"members", "within", "invitation", "audit", "operations", "retry"}
      /\ d.guard \in {"members", "within", "invitation"} => d.need \in {"any", "managers", "owners"}
  BY DEF AskedOfMembers, AskedOfManagers, Demand
<1>2. auth /\ ~admin
  BY DEF Outside, Outsider
<1>3. \A some : "none" \notin some =>
        /\ RoleIn(x, some) = RoleIn(Disclosed(x, o), some)
        /\ RoleIn(x, some) = "ok" => x # o /\ x \in Organizations
  BY RoleInHides
<1>4. "none" \notin Roles /\ "none" \notin Managers /\ "none" \notin Having("manage")
  BY HavingNoNone DEF Roles, Managers
<1>5. d.need \in {"any", "managers", "owners"} => "none" \notin Needed(d.need)
  BY DEF Needed, Roles, Managers
<1>6. x # o /\ x \in Organizations =>
        Disclosed(x, o) = x /\ Within(x, y) = Within(x, Disclosed(y, o))
  BY WithinHides
<1>7. CASE d.guard = "members"
  BY <1>1, <1>3, <1>5, <1>7 DEF Answer
<1>8. CASE d.guard = "within"
  BY <1>1, <1>3, <1>5, <1>6, <1>8 DEF Answer, Then
<1>9. CASE d.guard = "invitation"
  BY <1>1, <1>3, <1>4, <1>5, <1>6, <1>9 DEF Answer, Then
<1>10. CASE d.guard = "audit"
  BY <1>2, <1>3, <1>4, <1>10, DisclosedMeans DEF Answer
<1>11. CASE d.guard \in {"operations", "retry"}
  BY <1>3, <1>4, <1>6, <1>11, DisclosedMeans DEF Answer, Then
<1> QED BY <1>1, <1>7, <1>8, <1>9, <1>10, <1>11

LEMMA ContentHides ==
  ASSUME NEW o, Outside(o), NEW d \in AskedOfContent, NEW x, NEW y, NEW z
  PROVE  Answer(d, x, y, z) =
           Answer(d, Disclosed(x, o), Disclosed(y, o), Disclosed(z, o))
<1>1. d.guard \in {"scope", "filter", "shown", "coverage", "owner", "upload", "part", "new",
                 "new_research"}
  BY DEF AskedOfContent, Demand
<1>2. auth /\ ~admin
  BY DEF Outside, Outsider
<1>3. /\ x = Unnamed <=> Disclosed(x, o) = Unnamed
      /\ y = Unnamed <=> Disclosed(y, o) = Unnamed
  BY DisclosedMeans
<1>4. x # o /\ x \in Organizations =>
        Disclosed(x, o) = x /\ (y = x <=> Disclosed(y, o) = x)
  BY WithinHides
<1>5. /\ Scope(x, d.need) = Scope(Disclosed(x, o), d.need)
      /\ Scope(x, d.need) = "ok" => x # o /\ x \in Organizations
  BY ScopeHides
<1>6. /\ Require(y, d.need) = Require(Disclosed(y, o), d.need)
      /\ Require(y, d.need) = "ok" => y # o /\ y \in Organizations
  BY RequireHides
<1>7. /\ Require(y, "read") = Require(Disclosed(y, o), "read")
      /\ Require(y, "read") = "ok" => y # o /\ y \in Organizations
  BY RequireHides
<1>8. CASE d.guard \in {"scope", "coverage", "owner"}
  BY <1>3, <1>5, <1>6, <1>8 DEF Answer
<1>9. CASE d.guard = "filter"
  BY <1>3, <1>5, <1>7, <1>9 DEF Answer, Then, SourceFilter
<1>10. CASE d.guard = "shown"
  <2>1. x \in Organizations => x # Unnamed
    BY DisclosedMeans
  <2>2. x # o /\ x \in Organizations => Allowed(x) = {x} /\ Disclosed(x, o) = x
    BY <1>2, <1>4, <2>1 DEF Allowed
  <2> QED BY <1>4, <1>5, <1>10, <2>2 DEF Answer, Then
<1>11. CASE d.guard = "upload"
  <2>1. y # o /\ y \in Organizations =>
          Disclosed(y, o) = y /\ (x \in {Unnamed, y} <=> Disclosed(x, o) \in {Unnamed, y})
    BY <1>3, DisclosedMeans
  <2> QED BY <1>6, <1>11, <2>1 DEF Answer, Then
<1>12. CASE d.guard = "new"
  BY <1>12, NewContentHides DEF Answer
<1>13. CASE d.guard = "new_research"
  <2>1. /\ NewContentOwner(x, d.need) = NewContentOwner(Disclosed(x, o), d.need)
        /\ NewContentOwner(x, d.need) = "ok" => x # o /\ x \in Organizations
    BY NewContentHides
  <2> QED BY <1>2, <1>3, <1>4, <1>7, <1>13, <2>1 DEF Answer, Then
<1>14. CASE d.guard = "part"
  <2>1. x \in Organizations => x # Missing
    BY DisclosedMeans
  <2>2. y # o /\ y \in Organizations =>
          Disclosed(y, o) = y /\ Part(y, z) = Part(y, Disclosed(z, o))
    BY DisclosedMeans, SecondHides
  <2> QED BY <1>6, <1>14, <2>2 DEF Answer, Then
<1> QED BY <1>1, <1>8, <1>9, <1>10, <1>11, <1>12, <1>13, <1>14

LEMMA InvestigationsHide ==
  ASSUME NEW o, Outside(o), NEW d \in AskedOfInvestigations, NEW x, NEW y, NEW z
  PROVE  Answer(d, x, y, z) =
           Answer(d, Disclosed(x, o), Disclosed(y, o), Disclosed(z, o))
<1>1. d.guard \in {"new_investigation", "investigations", "team"} \cup OfOneOpen
  BY DEF AskedOfInvestigations, Demand, OfOneOpen
<1>2. auth
  BY DEF Outside, Outsider
<1>3. Investigation(y, d.need) = Investigation(Disclosed(y, o), d.need)
  BY InvestigationHides
<1>4. CASE d.guard = "new_investigation"
  <2>1. RoleIn(x, Roles) = RoleIn(Disclosed(x, o), Roles)
    BY RoleInHides DEF Roles
  <2> QED BY <1>4, <2>1, DisclosedMeans DEF Answer
<1>5. CASE d.guard = "investigations"
  BY <1>5 DEF Answer
<1>6. CASE d.guard = "team"
  BY <1>2, <1>3, <1>6 DEF Answer
<1>7. CASE d.guard \in OfOneOpen
  <2>1. /\ InvestigationFor(y, d.need) = InvestigationFor(Disclosed(y, o), d.need)
        /\ InvestigationFor(y, d.need) = "ok" => y # o /\ y # Missing
    BY InvestigationForHides
  <2>2. y # o /\ y # Missing =>
          /\ Disclosed(y, o) = y /\ Part(y, z) = Part(y, Disclosed(z, o))
          /\ Reference(y, z) = Reference(y, Disclosed(z, o))
    BY SecondHides
  <2>3. CASE d.guard \in {"investigation", "items"}
    BY <2>1, <2>3 DEF Answer
  <2>4. CASE d.guard = "item"
    BY <2>1, <2>2, <2>4 DEF Answer, Then
  <2>5. CASE d.guard = "reference"
    BY <2>1, <2>2, <2>5 DEF Answer, Then
  <2> QED BY <1>7, <2>3, <2>4, <2>5 DEF OfOneOpen
<1> QED BY <1>1, <1>4, <1>5, <1>6, <1>7

\* A request tells nothing of an owner that the caller has no part in.
LEMMA RequestsTellNothing ==
  ASSUME NEW d \in Demands, d.guard # "restore_test", NEW x, NEW y, NEW z,
         NEW o \in Telling(d, x, y, z)
  PROVE  ~Outsider(o)
<1> SUFFICES ASSUME Outsider(o) PROVE FALSE
  OBVIOUS
<1>1. Outside(o)
  BY DEF Outside, Telling
<1>2. Answer(d, x, y, z) # Answer(d, Disclosed(x, o), Disclosed(y, o), Disclosed(z, o))
  BY DEF Telling
<1>3. d \in Asked
  BY RoutesAsk
<1>4. CASE d \in AskedOfAccounts
  <2>1. d.guard \in {"public", "accounts", "session"}
    BY <1>4 DEF AskedOfAccounts, Demand
  <2> QED BY <1>2, <2>1 DEF Answer
<1>5. CASE d \in AskedOfSystemAdmins
  <2>1. d.guard \in {"system_admin", "retention"}
    BY <1>5 DEF AskedOfSystemAdmins, Demand
  <2>2. RoleIn(x, Managers) = RoleIn(Disclosed(x, o), Managers)
    BY <1>1, RoleInHides DEF Managers
  <2> QED BY <1>2, <2>1, <2>2 DEF Answer
<1> QED BY <1>1, <1>2, <1>3, <1>4, <1>5, MembersHide, ContentHides, InvestigationsHide DEF Asked

LEMMA StepTelling == OutsidersLearnNothing /\ [AccessStep]_accessVars => OutsidersLearnNothing'
<1> SUFFICES ASSUME OutsidersLearnNothing, [AccessStep]_accessVars PROVE OutsidersLearnNothing'
  OBVIOUS
<1>1. CASE ChangeCaller
  BY <1>1 DEF ChangeCaller, OutsidersLearnNothing
<1>2. ASSUME NEW d \in Demands, NEW x, NEW y, NEW z, Request(d, x, y, z)
      PROVE  OutsidersLearnNothing'
  <2>1. /\ told' = IF d.guard = "restore_test" THEN {} ELSE Telling(d, x, y, z)
        /\ UNCHANGED <<auth, admin, role>>
    BY <1>2 DEF Request
  <2>2. \A o \in told' : ~Outsider(o)
    BY <2>1, RequestsTellNothing
  <2> QED BY <2>1, <2>2 DEF OutsidersLearnNothing, Outsider
<1>3. CASE UNCHANGED accessVars
  BY <1>3 DEF accessVars, OutsidersLearnNothing, Outsider
<1> QED BY <1>1, <1>2, <1>3 DEF AccessStep

(* However the rights of the caller change between the requests, no answer *)
(* depends on whether an organization in which the caller has no role, or  *)
(* a record of it, is there: for any organizations, roles and routes, and  *)
(* any first and second record named.                                      *)
THEOREM OutsidersNeverLearn == AccessSpec => []OutsidersLearnNothing
<1>1. AccessInit => OutsidersLearnNothing
  BY DEF AccessInit, OutsidersLearnNothing
<1> QED BY <1>1, StepTelling, PTL DEF AccessSpec
================================================================================
