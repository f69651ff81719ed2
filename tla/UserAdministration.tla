--------------------------- MODULE UserAdministration ---------------------------
(***************************************************************************)
(* Accounts and the system admins who manage them (domain/users:           *)
(* administration, authentication.create_user).  A request first reads its *)
(* actor, then locks the active admins in id order and counts them, then   *)
(* locks its target and decides; other requests run in between.            *)
(***************************************************************************)
EXTENDS Integers, FiniteSets

CONSTANTS Accounts,
          Admins,   \* the users with is_system_admin, which nothing changes
          First     \* the admins made before the system is used

ASSUME UsersAssumption ==
    /\ IsFiniteSet(Accounts)
    /\ Admins \subseteq Accounts
    /\ First \subseteq Admins
    /\ First # {}

VARIABLES accounts,  \* Accounts -> "none" | "active" | "inactive"
          pending,     \* actor -> the request being handled: [kind, target]
          rows       \* actor -> the admin rows its request has locked and counted

admins == <<accounts, pending, rows>>

States == {"none", "active", "inactive"}
NoTask == [kind |-> "idle"]
Tasks == {NoTask} \cup [kind : {"deactivate", "counted", "reactivate"}, target : Accounts]

Active(u) == accounts[u] = "active"
ActiveAdmins == {u \in Admins : Active(u)}

AdminInit ==
    /\ accounts = [u \in Accounts |-> IF u \in First THEN "active" ELSE "none"]
    /\ pending = [u \in Accounts |-> NoTask]
    /\ rows = [u \in Accounts |-> {}]

--------------------------------------------------------------------------------

\* create_user, by an admin or from the command line: one account per address.
CreateUser(u) ==
    /\ accounts[u] = "none"
    /\ accounts' = [accounts EXCEPT ![u] = "active"]
    /\ UNCHANGED <<pending, rows>>

\* The actor is read with the session, and not again.
Ask(actor, kind, u) ==
    /\ actor \in ActiveAdmins
    /\ pending[actor] = NoTask
    /\ accounts[u] # "none"
    /\ pending' = [pending EXCEPT ![actor] = [kind |-> kind, target |-> u]]
    /\ UNCHANGED <<accounts, rows>>

\* Mutant: the admins are counted without locks.
LockedByAnotherNever(actor, u) == FALSE

LockedByAnother(actor, u) == \E b \in Accounts \ {actor} : u \in rows[b]

\* _lock_active_admins: waits for every row, then counts those still active.
LockActiveAdmins(actor) ==
    /\ pending[actor].kind = "deactivate"
    /\ IF pending[actor].target \in Admins
       THEN /\ \A u \in ActiveAdmins : ~LockedByAnother(actor, u)
            /\ rows' = [rows EXCEPT ![actor] = ActiveAdmins]
       ELSE UNCHANGED rows
    /\ pending' = [pending EXCEPT ![actor].kind = "counted"]
    /\ UNCHANGED accounts

Done(actor) ==
    /\ pending' = [pending EXCEPT ![actor] = NoTask]
    /\ rows' = [rows EXCEPT ![actor] = {}]

IsLastAdmin(actor, u) == u \in Admins /\ Cardinality(rows[actor]) <= 1

\* The target, locked and read again, is deactivated with its sessions.
Deactivate(actor) ==
    /\ pending[actor].kind = "counted"
    /\ LET u == pending[actor].target IN
       /\ ~LockedByAnother(actor, u)
       /\ Active(u) /\ ~IsLastAdmin(actor, u)
       /\ accounts' = [accounts EXCEPT ![u] = "inactive"]
    /\ Done(actor)

\* An inactive user is left alone; the last admin is a ConflictError.
LeaveActive(actor) ==
    /\ pending[actor].kind = "counted"
    /\ LET u == pending[actor].target IN
       /\ ~LockedByAnother(actor, u)
       /\ ~Active(u) \/ IsLastAdmin(actor, u)
    /\ Done(actor)
    /\ UNCHANGED accounts

\* reactivate_user: the old sessions stay revoked.
Reactivate(actor) ==
    /\ pending[actor].kind = "reactivate"
    /\ LET u == pending[actor].target IN
       /\ ~LockedByAnother(actor, u)
       /\ accounts' = [accounts EXCEPT ![u] = "active"]
    /\ Done(actor)

AdminStep ==
    \/ \E u \in Accounts : CreateUser(u)
    \/ \E a, u \in Accounts, k \in {"deactivate", "reactivate"} : Ask(a, k, u)
    \/ \E a \in Accounts : \/ LockActiveAdmins(a) \/ LeaveActive(a)
                        \/ Deactivate(a) \/ Reactivate(a)

AdminSpec == AdminInit /\ [][AdminStep]_admins

--------------------------------------------------------------------------------

AdminTypeOK ==
    /\ accounts \in [Accounts -> States]
    /\ pending \in [Accounts -> Tasks]
    /\ rows \in [Accounts -> SUBSET Admins]

(* "There must be at least one active system admin": deactivations that    *)
(* started when there were two never leave the system without one.         *)
AnAdminRemains == ActiveAdmins # {}

================================================================================
