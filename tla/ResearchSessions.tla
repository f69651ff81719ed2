---------------------------- MODULE ResearchSessions ----------------------------
(***************************************************************************)
(* Research sessions and their turns (domain/research: service, session,   *)
(* turn; api/routes/research) while legacy sources are moved into an       *)
(* organization (domain/tenancy/assignment).  A turn is made in steps, in  *)
(* which others run: the session and its organization are read, evidence   *)
(* is searched, the model answers outside any transaction, and the row of  *)
(* the session is locked to number the turn.  A start that fails takes its *)
(* session back when it counts no turns.                                   *)
(***************************************************************************)
EXTENDS Integers, FiniteSets

CONSTANTS Sources,
          Sessions,    \* rows of research_sessions
          Requests,    \* bound: requests handled at a time
          MaxTurns,    \* bound: turns that are saved in all
          MaxSwitches  \* bound: restarts that change the setting auth_enabled

VARIABLES auth,      \* the setting auth_enabled
          owner,     \* Sources -> the organization, or Legacy
          sessions,  \* Sessions -> [owner, source], NoSession or Gone
          turns,     \* what was saved: [session, number, evidence, context, open]
          requests,  \* Requests -> the request being handled
          answered,     \* turns so far
          switches,  \* restarts so far
          raced      \* history: sessions with a turn answered after they counted as empty

researchVars == <<auth, owner, sessions, turns, requests, answered, switches, raced>>

Organization == "organization"   \* the organization that content belongs to
Other == "another"               \* and another one, with content of its own
Legacy == "legacy"
Every == "every_source"          \* source_id is None

ASSUME ResearchAssumption == Every \notin Sources /\ MaxTurns \in Nat /\ MaxSwitches \in Nat

NoSession == [owner |-> "none", source |-> Every]
Gone == [owner |-> "gone", source |-> Every]
Idle == [at |-> "idle"]

Exists(session) == sessions[session] \notin {NoSession, Gone}

TurnsOf(session) == {t \in turns : t.session = session}
Numbers(session) == {t.number : t \in TurnsOf(session)}
LastNumber(session) ==
    IF Numbers(session) = {} THEN 0
    ELSE CHOOSE n \in Numbers(session) : \A m \in Numbers(session) : m <= n

ResearchInit ==
    /\ auth \in BOOLEAN
    /\ owner \in [Sources -> {Organization, Other, Legacy}]
    /\ sessions = [s \in Sessions |-> NoSession]
    /\ turns = {}
    /\ requests = [p \in Requests |-> Idle]
    /\ answered = 0 /\ switches = 0
    /\ raced = {}

--------------------------------------------------------------------------------

\* ContentAccessPolicy.resource_scope: the owners whose sources are searched.
ScopeOf(o) == IF auth THEN {o} ELSE {Organization, Other, Legacy}

\* new_content_owner, check_source_filter and create_session: with
\* authentication a session has an organization and its source the same one;
\* without, it has none, whatever the source has.
NewSession(o, source) ==
    IF auth THEN o = Organization /\ (source # Every => owner[source] = o)
    ELSE o = Legacy

\* The FOR UPDATE of a session, held to number its next turn.
Locked(session) == \E p \in Requests : requests[p].at = "numbered" /\ requests[p].session = session

\* A turn is asked for: the session is read, and with it whose sources to search.
Asking(session, o, starts) ==
    [at |-> "read", session |-> session, scope |-> ScopeOf(o), open |-> ~auth, starts |-> starts]

Create(p, session, o, source, starts) ==
    /\ requests[p] = Idle
    /\ sessions[session] = NoSession
    /\ NewSession(o, source)
    /\ sessions' = [sessions EXCEPT ![session] = [owner |-> o, source |-> source]]
    /\ requests' = [requests EXCEPT ![p] = IF starts THEN Asking(session, o, TRUE) ELSE Idle]
    /\ UNCHANGED <<auth, owner, turns, answered, switches, raced>>

\* add_research_turn: who contributes to the session's organization asks.
Ask(p, session) ==
    /\ requests[p] = Idle
    /\ Exists(session)
    /\ requests' = [requests EXCEPT ![p] = Asking(session, sessions[session].owner, FALSE)]
    /\ UNCHANGED <<auth, owner, sessions, turns, answered, switches, raced>>

\* The sources a search in the scope and with the session's source may find.
Findable(session, scope) ==
    {s \in Sources : owner[s] \in scope /\ sessions[session].source \in {Every, s}}

\* add_turn: the last turns and the evidence, here from every source it may
\* come from; then the transaction ends.
Search(p) ==
    LET request == requests[p] IN
    /\ request.at = "read"
    /\ requests' = [requests EXCEPT ![p] =
           [at |-> "searched", session |-> request.session, open |-> request.open,
            starts |-> request.starts, context |-> Numbers(request.session),
            evidence |-> Findable(request.session, request.scope)]]
    /\ UNCHANGED <<auth, owner, sessions, turns, answered, switches, raced>>

\* The search or the model fails: a start goes on to take its session back.
Fail(p) ==
    /\ requests[p].at \in {"read", "searched"}
    /\ requests' = [requests EXCEPT ![p] =
           IF requests[p].starts
           THEN [at |-> "failed", session |-> requests[p].session] ELSE Idle]
    /\ UNCHANGED <<auth, owner, sessions, turns, answered, switches, raced>>

\* Mutant: the session is read without FOR UPDATE.
NumberUnlocked(p) ==
    LET request == requests[p] IN
    /\ request.at = "searched"
    /\ answered < MaxTurns
    /\ requests' = [requests EXCEPT ![p] =
           IF ~Exists(request.session) THEN Idle
           ELSE [at |-> "numbered", session |-> request.session, open |-> request.open,
                 evidence |-> request.evidence, context |-> request.context,
                 number |-> LastNumber(request.session) + 1]]
    /\ UNCHANGED <<auth, owner, sessions, turns, answered, switches, raced>>

\* _save: the session is locked, unless it is gone, and its last number read.
Number(p) ==
    LET request == requests[p] IN
    /\ request.at = "searched"
    /\ answered < MaxTurns
    /\ ~Locked(request.session)
    /\ requests' = [requests EXCEPT ![p] =
           IF ~Exists(request.session) THEN Idle
           ELSE [at |-> "numbered", session |-> request.session, open |-> request.open,
                 evidence |-> request.evidence, context |-> request.context,
                 number |-> LastNumber(request.session) + 1]]
    /\ UNCHANGED <<auth, owner, sessions, turns, answered, switches, raced>>

\* The requests that counted no turns and will delete the session.
TakenBack(session) == \E p \in Requests : requests[p] = [at |-> "empty", session |-> session]

\* The commit; the constraint on session and sequence refuses a number in use.
Save(p) ==
    LET request == requests[p] IN
    /\ request.at = "numbered"
    /\ IF request.number \in Numbers(request.session)
       THEN requests' = [requests EXCEPT ![p] = [at |-> "refused"]] /\ UNCHANGED turns
       ELSE /\ requests' = [requests EXCEPT ![p] = Idle]
            /\ turns' = turns \cup {[session |-> request.session, number |-> request.number,
                                     evidence |-> request.evidence, context |-> request.context,
                                     open |-> request.open]}
    /\ answered' = answered + 1
    /\ raced' = IF TakenBack(request.session) THEN raced \cup {request.session} ELSE raced
    /\ UNCHANGED <<auth, owner, sessions, switches>>

\* Mutant: the session is taken back whatever was answered in it.
CountNothing(p) ==
    /\ requests[p].at = "failed"
    /\ requests' = [requests EXCEPT ![p] = [at |-> "empty", session |-> requests[p].session]]
    /\ UNCHANGED <<auth, owner, sessions, turns, answered, switches, raced>>

\* start_session: the turns are counted without a lock.
Count(p) ==
    /\ requests[p].at = "failed"
    /\ requests' = [requests EXCEPT ![p] =
           IF TurnsOf(requests[p].session) = {}
           THEN [at |-> "empty", session |-> requests[p].session] ELSE Idle]
    /\ UNCHANGED <<auth, owner, sessions, turns, answered, switches, raced>>

\* The delete waits for who has the session locked; turns go with the session.
TakeBack(p) ==
    LET session == requests[p].session IN
    /\ requests[p].at = "empty"
    /\ ~Locked(session)
    /\ sessions' = [sessions EXCEPT ![session] = Gone]
    /\ turns' = turns \ TurnsOf(session)
    /\ requests' = [requests EXCEPT ![p] = Idle]
    /\ UNCHANGED <<auth, owner, answered, switches, raced>>

\* The process ends, and with it its requests; it may come back with accounts.
Restart ==
    /\ switches < MaxSwitches
    /\ switches' = switches + 1
    /\ auth' \in BOOLEAN
    /\ requests' = [p \in Requests |-> Idle]
    /\ UNCHANGED <<owner, sessions, turns, answered, raced>>

\* LegacySourceAssignmentService._move
Moved(source) == {s \in Sessions : sessions[s].owner = Legacy /\ sessions[s].source = source}

Assign(source) ==
    /\ owner[source] = Legacy
    /\ \A s \in Moved(source) : ~Locked(s)
    /\ owner' = [owner EXCEPT ![source] = Organization]
    /\ sessions' = [s \in Sessions |->
           IF s \in Moved(source) THEN [sessions[s] EXCEPT !.owner = Organization]
           ELSE sessions[s]]
    /\ UNCHANGED <<auth, turns, requests, answered, switches, raced>>

ResearchStep ==
    \/ \E p \in Requests :
         \/ \E s \in Sessions, o \in {Organization, Legacy}, source \in Sources \cup {Every},
               starts \in BOOLEAN : Create(p, s, o, source, starts)
         \/ \E s \in Sessions : Ask(p, s)
         \/ Search(p) \/ Fail(p) \/ Number(p) \/ Save(p) \/ Count(p) \/ TakeBack(p)
    \/ Restart
    \/ \E source \in Sources : Assign(source)

ResearchSpec == ResearchInit /\ [][ResearchStep]_researchVars

--------------------------------------------------------------------------------

(* The turns of a session are numbered from 1 without a gap, no turn is    *)
(* refused because another took its number, and what a model was given as  *)
(* conversation came before.                                               *)
TurnsAreInOrder ==
    /\ \A p \in Requests : requests[p].at # "refused"
    /\ \A s \in Sessions : Numbers(s) = 1..Cardinality(TurnsOf(s))
    /\ \A t \in turns : \A n \in t.context : n < t.number

(* All the evidence that a session of an organization shows comes from     *)
(* sources of that organization, also after a legacy session was moved     *)
(* there; but for turns that were asked while authentication was off.      *)
EvidenceStaysInside ==
    \A t \in turns :
        sessions[t.session].owner = Organization /\ ~t.open =>
            \A s \in t.evidence : owner[s] = Organization

(* Sessions read in order and show what their organization owns.           *)
SessionsAreSound == TurnsAreInOrder /\ EvidenceStaysInside

(* A turn that was answered stays, whatever other requests do: only a      *)
(* start that fails loses turns, of others who asked in its session after  *)
(* it counted none.                                                        *)
TurnsStay ==
    [][\A t \in turns : t \notin turns' => t.session \in raced]_researchVars

================================================================================
