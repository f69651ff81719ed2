------------------------------- MODULE MCArchives -------------------------------
(***************************************************************************)
(* Two components that share no state, each alone.  A behaviour follows    *)
(* the archives of the managed organizations, whose policies alone are     *)
(* enabled; or the policies of all organizations, which the scheduler      *)
(* serves with nothing but exports in its way; or restores into another    *)
(* organization.                                                           *)
(***************************************************************************)
EXTENDS ArchiveRuns, RestoreRuns

VARIABLE followed

MCOrganizations == {1, 2}
MCRetentions == {1, 2}

\* No policy is due and no request is made, so that no fair step is enabled.
NoArchives ==
    /\ rows = [o \in Organizations |-> <<>>]
    /\ policies = [o \in Organizations |-> NoPolicy]
    /\ work = [o \in Organizations |-> Idle]
    /\ now = 0 /\ faults = 0 /\ changes = 0 /\ overlapped = {}

NoRestores ==
    /\ restores = [r \in Requests |-> "none"] /\ drills = [r \in Drills |-> "none"]
    /\ at = [r \in Requests |-> "over"]
    /\ staged = [r \in Requests |-> {}] /\ final = [r \in Requests |-> {}]
    /\ known = [r \in Requests |-> {}] /\ content = {} /\ failures = 0
    /\ causes = [r \in Requests |-> {}]

AloneInit ==
    \/ /\ followed = "archives" /\ Init /\ NoRestores
       /\ \A o \in Organizations : policies[o].enabled <=> o \in Managed
    \/ /\ followed = "policies" /\ Init /\ NoRestores
       /\ \A o \in Organizations : policies[o].enabled
    \/ followed = "restores" /\ NoArchives /\ RestoresInit

\* Bounds of their own: archives for one day and with one fault, and either an
\* export or a changed policy; policies for two days and with two faults, or for
\* one day with exports of managed organizations in their way.
NoExports == \A o \in Organizations : Exports(o) = {}
OneDay == now' <= 1 /\ faults' <= 1 /\ (changes' = 0 \/ NoExports)
Exported == now <= 1 /\ \E o \in Managed : CreateExport(o)
TwoDays == now' <= 1 \/ NoExports

AloneNext ==
    /\ UNCHANGED followed
    /\ \/ followed = "archives" /\ Next /\ OneDay /\ UNCHANGED restoreVars
       \/ followed = "policies" /\ (Unattended \/ Exported) /\ TwoDays /\ UNCHANGED restoreVars
       \/ followed = "restores" /\ RestoresStep /\ UNCHANGED vars

Alone ==
    AloneInit /\ [][AloneNext]_<<followed, vars, restoreVars>> /\ Fairness /\ RestoresFairness

================================================================================
