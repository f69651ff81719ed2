-------------------------------- MODULE MCAccess --------------------------------
(***************************************************************************)
(* Four components that share no state, each alone: a behaviour follows    *)
(* the members of one organization, the accounts of the system, the        *)
(* sign-ins to one of them, or the answers to the requests of one caller.  *)
(***************************************************************************)
EXTENDS Membership, UserAdministration, SignIn, ApiAccess, TLC

VARIABLE followed

Interchangeable == Permutations(SignIns) \cup Permutations(Organizations)

NoCaller ==
    /\ auth = FALSE /\ signedIn = FALSE /\ admin = FALSE
    /\ role = [o \in Organizations |-> "none"] /\ collaborator = "none"
    /\ saved = NoItem /\ reached = {} /\ told = {}

AloneInit ==
    /\ followed \in {"members", "accounts", "sign-ins", "caller"}
    /\ Init /\ AdminInit
    /\ SignInInit /\ (followed = "sign-ins" \/ ~credential.old)
    /\ IF followed = "caller" THEN AccessInit ELSE NoCaller

\* The clock moves throttles and no session, a revocation sessions and no
\* throttle: sign-ins pass a day or are revoked a second time.
DayOrCut == now' = 0 \/ cuts' <= 1

AloneNext ==
    /\ UNCHANGED followed
    /\ \/ followed = "members" /\ Next /\ UNCHANGED <<admins, accountVars, accessVars>>
       \/ followed = "accounts" /\ AdminStep /\ UNCHANGED <<vars, accountVars, accessVars>>
       \/ /\ followed = "sign-ins" /\ AccountStep /\ DayOrCut
          /\ UNCHANGED <<vars, admins, accessVars>>
       \/ followed = "caller" /\ AccessStep /\ UNCHANGED <<vars, admins, accountVars>>

Alone ==
    AloneInit /\ [][AloneNext]_<<followed, vars, admins, accountVars, accessVars>>

================================================================================
