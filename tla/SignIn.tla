--------------------------------- MODULE SignIn ---------------------------------
(***************************************************************************)
(* Signing in to one account while its person changes the password and an  *)
(* admin acts on it (domain/users: authentication, login_throttle,         *)
(* administration, throttle_administration, session_cleanup).  A sign-in   *)
(* is five statements with a slow password check among them, and commits   *)
(* up to three times; nothing it read is read again.                       *)
(***************************************************************************)
EXTENDS Integers, FiniteSets

CONSTANTS SignIns,      \* bound: sign-ins handled at a time
          MaxSessions,  \* bound: rows of user_sessions
          MaxChanges,   \* bound: passwords the account has
          MaxCuts,      \* bound: revocations of all or the other sessions
          Window, MaxFailures, Block,  \* the settings of the throttle, in ticks
          MaxTime       \* bound of the clock

ASSUME SignInAssumption ==
    /\ IsFiniteSet(SignIns)
    /\ MaxFailures \in Nat \ {0} /\ Window \in Nat \ {0} /\ Block \in Nat \ {0}

VARIABLES now,
          active,       \* User.is_active
          credential,   \* the stored hash: [pw, old]; old: hashed with old settings
          throttle,     \* the row of the account's address, or NoRow
          signIns,      \* SignIns -> where each is and what it has read
          sessions,     \* number -> row
          changing,     \* the session a password change came with; 0: none
          chosen,       \* history: the last password the person chose
          cuts,         \* history: revocations so far
          undone        \* history: a rehash has replaced a newer password

accountVars == <<now, active, credential, throttle, signIns, sessions, changing,
          chosen, cuts, undone>>

SessionIds == 1..MaxSessions
NoRow == [count |-> 0, start |-> 0, until |-> 0]
Unsent == [at |-> "idle", pw |-> 0, hash |-> [pw |-> 0, old |-> FALSE],
           active |-> TRUE, seen |-> 0]
NoSession == [status |-> "none", pw |-> 0, read |-> 0, cut |-> 0]

SignInInit ==
    /\ now = 0
    /\ active = TRUE
    /\ credential \in [pw : {1}, old : BOOLEAN]
    /\ throttle = NoRow
    /\ signIns = [s \in SignIns |-> Unsent]
    /\ sessions = [i \in SessionIds |-> NoSession]
    /\ changing = 0
    /\ chosen = 1
    /\ cuts = 0
    /\ undone = FALSE

\* Mutant: nobody asks is_blocked.
BlockedNever == FALSE

\* is_blocked
Blocked == throttle.until > now

\* The row that record_failure inserts or updates, in one statement.  until 0
\* is a NULL blocked_until.
Failed ==
    LET ends == now + Block
        reset == throttle.start + Window <= now
    IN  IF throttle.count = 0 \/ reset
        THEN [count |-> 1, start |-> now, until |-> IF MaxFailures = 1 THEN ends ELSE 0]
        ELSE [throttle EXCEPT !.count = @ + 1,
                              !.until = IF throttle.count + 1 >= MaxFailures THEN ends ELSE @]

Move(s, at) == signIns' = [signIns EXCEPT ![s].at = at]

\* resolve_session accepts the session and its user.
Usable(i) == sessions[i].status = "open" /\ active

Cut == cuts < MaxCuts /\ cuts' = cuts + 1

\* Every open session but those in kept is revoked.
Revoked(kept) ==
    [i \in SessionIds |->
        IF i \in kept THEN [sessions[i] EXCEPT !.cut = cuts']
        ELSE IF sessions[i].status = "none" THEN sessions[i]
        ELSE [sessions[i] EXCEPT !.status = "revoked"]]

--------------------------------------------------------------------------------

\* A password is sent: a wrong one (0), the one in use or one of before.  A
\* blocked address gets the answer of a wrong password, after the same work.
Send(s, pw) ==
    /\ signIns[s].at = "idle"
    /\ pw \in 0..chosen
    /\ ~Blocked
    /\ signIns' = [signIns EXCEPT ![s] = [Unsent EXCEPT !.at = "sent", !.pw = pw]]
    /\ UNCHANGED <<now, active, credential, throttle, sessions, changing, chosen, cuts,
                   undone>>

\* The user and the hash, in one statement; the hash is then checked.
Read(s) ==
    /\ signIns[s].at = "sent"
    /\ signIns' = [signIns EXCEPT
          ![s].hash = credential, ![s].active = active, ![s].seen = cuts,
          ![s].at = IF signIns[s].pw # credential.pw \/ ~active THEN "failing"
                    ELSE IF credential.old THEN "rehashing" ELSE "clearing"]
    /\ UNCHANGED <<now, active, credential, throttle, sessions, changing, chosen, cuts,
                   undone>>

\* A wrong password, or the right one of an inactive user.
RecordFailure(s) ==
    /\ signIns[s].at = "failing"
    /\ throttle' = Failed
    /\ signIns' = [signIns EXCEPT ![s] = Unsent]
    /\ UNCHANGED <<now, active, credential, sessions, changing, chosen, cuts, undone>>

\* A hash with old settings is replaced, whatever is stored by now.
Rehash(s) ==
    /\ signIns[s].at = "rehashing"
    /\ credential' = [pw |-> signIns[s].pw, old |-> FALSE]
    /\ undone' = (undone \/ credential.pw # signIns[s].hash.pw)
    /\ Move(s, "clearing")
    /\ UNCHANGED <<now, active, throttle, sessions, changing, chosen, cuts>>

\* LoginThrottleService.clear
Clear(s) ==
    /\ signIns[s].at = "clearing"
    /\ throttle' = NoRow
    /\ Move(s, "opening")
    /\ UNCHANGED <<now, active, credential, sessions, changing, chosen, cuts, undone>>

\* create_session: the user is not read again.
CreateSession(s) ==
    /\ signIns[s].at = "opening"
    /\ \E i \in SessionIds :
         /\ sessions[i].status = "none"
         /\ \A j \in SessionIds : sessions[j].status = "none" => i <= j
         /\ sessions' = [sessions EXCEPT ![i] =
               [status |-> "open", pw |-> signIns[s].pw, read |-> signIns[s].seen,
                cut |-> cuts]]
    /\ signIns' = [signIns EXCEPT ![s] = Unsent]
    /\ UNCHANGED <<now, active, credential, throttle, changing, chosen, cuts, undone>>

--------------------------------------------------------------------------------

\* Logout, an own session revoked, or one revoked by an admin.
RevokeSession(i) ==
    /\ sessions[i].status \in {"open", "over"}
    /\ sessions' = [sessions EXCEPT ![i].status = "revoked"]
    /\ UNCHANGED <<now, active, credential, throttle, signIns, changing, chosen, cuts,
                   undone>>

\* revoke_all_sessions and revoke_user_sessions ({}), revoke_other_sessions ({i}).
RevokeSessions(kept) ==
    /\ \A i \in kept : Usable(i)
    /\ Cut
    /\ sessions' = Revoked(kept)
    /\ UNCHANGED <<now, active, credential, throttle, signIns, changing, chosen, undone>>

\* A session passes its expiry, its longest age or its idle time.
PassLimit(i) ==
    /\ sessions[i].status = "open"
    /\ sessions' = [sessions EXCEPT ![i].status = "over"]
    /\ UNCHANGED <<now, active, credential, throttle, signIns, changing, chosen, cuts,
                   undone>>

\* The next request with it revokes it; one past expires_at stays as it is.
ResolveOver(i) ==
    /\ sessions[i].status = "over" /\ active
    /\ sessions' = [sessions EXCEPT ![i].status = "revoked"]
    /\ UNCHANGED <<now, active, credential, throttle, signIns, changing, chosen, cuts,
                   undone>>

\* cleanup-auth-sessions deletes sessions that are over or revoked long ago.
CleanSessions ==
    /\ \E ended \in SUBSET {i \in SessionIds : sessions[i].status \in {"over", "revoked"}} :
         /\ ended # {}
         /\ sessions' = [i \in SessionIds |-> IF i \in ended THEN NoSession ELSE sessions[i]]
         /\ changing \notin ended
    /\ UNCHANGED <<now, active, credential, throttle, signIns, changing, chosen, cuts,
                   undone>>

\* A password change comes with a session that is resolved once.
AskChange(i) ==
    /\ changing = 0 /\ Usable(i)
    /\ chosen < MaxChanges
    /\ changing' = i
    /\ UNCHANGED <<now, active, credential, throttle, signIns, sessions, chosen, cuts,
                   undone>>

\* Mutant: the other sessions stay.
ChangePasswordOnly(pw) ==
    /\ changing # 0 /\ pw = credential.pw
    /\ credential' = [pw |-> chosen + 1, old |-> FALSE]
    /\ chosen' = chosen + 1
    /\ Cut
    /\ changing' = 0
    /\ UNCHANGED <<now, active, throttle, signIns, sessions, undone>>

\* change_password, with the credential locked and read again.
ChangePassword(pw) ==
    /\ changing # 0 /\ pw = credential.pw
    /\ credential' = [pw |-> chosen + 1, old |-> FALSE]
    /\ chosen' = chosen + 1
    /\ Cut
    /\ sessions' = Revoked({changing})
    /\ changing' = 0
    /\ UNCHANGED <<now, active, throttle, signIns, undone>>

\* The current password is wrong, or the new one is the same.
RefuseChange ==
    /\ changing # 0
    /\ changing' = 0
    /\ UNCHANGED <<now, active, credential, throttle, signIns, sessions, chosen, cuts,
                   undone>>

\* An admin clears the throttle of the address.
ClearThrottle ==
    /\ throttle # NoRow
    /\ throttle' = NoRow
    /\ UNCHANGED <<now, active, credential, signIns, sessions, changing, chosen, cuts,
                   undone>>

\* deactivate_user, in one commit (UserAdministration has the rest of it).
DeactivateUser ==
    /\ active /\ active' = FALSE
    /\ Cut
    /\ sessions' = Revoked({})
    /\ UNCHANGED <<now, credential, throttle, signIns, changing, chosen, undone>>

ReactivateUser ==
    /\ ~active /\ active' = TRUE
    /\ UNCHANGED <<now, credential, throttle, signIns, sessions, changing, chosen, cuts,
                   undone>>

Tick ==
    /\ now < MaxTime
    /\ now' = now + 1
    /\ UNCHANGED <<active, credential, throttle, signIns, sessions, changing, chosen, cuts,
                   undone>>

SignInStep(s) ==
    \/ \E pw \in 0..MaxChanges : Send(s, pw)
    \/ Read(s) \/ RecordFailure(s) \/ Rehash(s) \/ Clear(s) \/ CreateSession(s)

SessionStep(i) ==
    \/ RevokeSession(i) \/ PassLimit(i) \/ ResolveOver(i) \/ AskChange(i)
    \/ RevokeSessions({i})

AccountStep ==
    \/ \E s \in SignIns : SignInStep(s)
    \/ \E i \in SessionIds : SessionStep(i)
    \/ \E pw \in 1..MaxChanges : ChangePassword(pw)
    \/ RevokeSessions({}) \/ CleanSessions \/ RefuseChange \/ ClearThrottle
    \/ DeactivateUser \/ ReactivateUser \/ Tick

SignInSpec == SignInInit /\ [][AccountStep]_accountVars

--------------------------------------------------------------------------------

(* "Deactivating revokes every session of the user at once", and so do a   *)
(* password change and a logout everywhere: a session that works was made  *)
(* after the last of them, or is the one it kept.                          *)
NoSessionSurvivesARevocation ==
    \A i \in SessionIds : sessions[i].status = "open" => sessions[i].cut = cuts

(* A replaced password opens nothing, but for sign-ins that had read the   *)
(* hash before the change: their sessions, and the hash they put back when *)
(* the settings had changed too.                                           *)
ReplacedPasswordsOpenNothing ==
    /\ credential.pw # chosen => undone
    /\ \A i \in SessionIds :
          (sessions[i].status = "open" /\ sessions[i].pw # chosen /\ ~undone)
            => (sessions[i].read < sessions[i].cut)

(* Both: a revocation or a replaced password holds against every sign-in   *)
(* and request at work meanwhile.                                          *)
RevocationsHold == NoSessionSurvivesARevocation /\ ReplacedPasswordsOpenNothing

(* However many sign-ins run at a time, an address is guessed at most      *)
(* MaxFailures times in a window, and once more by each that was already   *)
(* being checked when the block began.                                     *)
GuessesAreBounded ==
    Block >= Window => throttle.count < MaxFailures + Cardinality(SignIns)

================================================================================
