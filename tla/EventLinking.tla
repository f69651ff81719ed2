----------------------------- MODULE EventLinking -----------------------------
(***************************************************************************)
(* Event clusters: linkers put events that report the same thing into one  *)
(* cluster, while sources are assigned to organizations and events lose    *)
(* their last evidence.  Each is a PostgreSQL transaction at READ          *)
(* COMMITTED: a step that reads sees what is committed, what a transaction *)
(* writes appears with its commit, and a commit waits for the cluster rows *)
(* that linkers have locked.                                               *)
(*                                                                         *)
(* Every event here has the same type and normalized title: events that    *)
(* differ in those never meet.  A time is the UTC day it falls on.  A      *)
(* cluster is named by a number that orders it by the time the transaction *)
(* that created it began, which is its created_at.                         *)
(***************************************************************************)
EXTENDS Naturals, FiniteSets, FiniteSetsExt, Functions

CONSTANTS
  Linkers,         \* extraction workers, link-events and assignments that relink
  Sources, Events,
  SourceOf,        \* the source of an event's evidence
  DaysOf,          \* what an extraction may find as the day of an event
  Assignable,      \* legacy sources that may be assigned
  Orgs,
  Legacy,          \* no organization
  Free,            \* an advisory lock that nobody holds
  NoEvent,
  MaxDisruptions   \* bound on transactions that fail

NoDay == 0
NoCluster == 0
Owners == Orgs \cup {Legacy}

ASSUME ConstantsAssumption ==
  /\ SourceOf \in [Events -> Sources]
  /\ DaysOf \in [Events -> SUBSET Nat] /\ Assignable \subseteq Sources
  /\ Legacy \notin Orgs /\ Free \notin Linkers /\ NoEvent \notin Events
  /\ MaxDisruptions \in Nat

VARIABLES
  owner,           \* sources.organization_id
  event,           \* "new", "live" or "gone"
  day,             \* events.occurred_at, or NoDay
  member,          \* event_cluster_members: the cluster of an event
  cluster,         \* event_clusters: organization and day
  key,             \* who holds the advisory lock of an organization
  linker, move, removal,      \* the transactions under way
  disruptions

vars == <<owner, event, day, member, cluster, key, linker, move, removal, disruptions>>
rows == <<owner, event, day, member, cluster>>

Idle == [stage |-> "idle", event |-> NoEvent, org |-> Legacy, number |-> 0,
         into |-> NoCluster, day |-> NoDay]
NoMove == [org |-> Legacy, taken |-> {}, emptied |-> {}, days |-> << >>]
NoRemoval == [active |-> FALSE, emptied |-> {}]

Clusters == DOMAIN cluster

(* Numbers of rows and of transactions under way.                          *)
Known ==
  Clusters \cup {linker[l].number : l \in Linkers}
           \cup (UNION {move[s].emptied \cup DOMAIN move[s].days : s \in Sources})
           \cup (UNION {removal[e].emptied : e \in Events})
Number == 1 + Max(Known \cup {0})

Of(o) == {c \in Clusters : cluster[c].org = o}
Members(c) == {e \in Events : member[e] = c}
Without(E) == {c \in Clusters : Members(c) \subseteq E}

(* The locks of candidates last as long as the lock of their organization. *)
Locked(c) == \E l \in Linkers : linker[l].stage = "joined" /\ cluster[c].org = linker[l].org

(* func.min(Event.occurred_at): unknown times do not count.                *)
Earliest(E) ==
  LET known == {day[e] : e \in E} \ {NoDay}
  IN  IF known = {} THEN NoDay ELSE Min(known)

(* Mutant: any cluster of the same type and title is a candidate.          *)
CandidatesOfAnyone(o, d) ==
  LET matches == {c \in Clusters : d = NoDay \/ cluster[c].day \in {NoDay, d}}
      same_day == {c \in matches : cluster[c].day # NoDay}
  IN  IF d # NoDay /\ same_day # {} THEN same_day ELSE matches

(* _matching_cluster: the clusters to choose the oldest from.              *)
Candidates(o, d) ==
  LET matches == {c \in Of(o) : d = NoDay \/ cluster[c].day \in {NoDay, d}}
      same_day == {c \in matches : cluster[c].day # NoDay}
  IN  IF d # NoDay /\ same_day # {} THEN same_day ELSE matches

Deleting(gone, E) ==      \* clusters go, with their rows of members, and so do E's rows
  member' = [e \in Events |-> IF e \in E \/ member[e] \in gone THEN NoCluster ELSE member[e]]

Disrupt == disruptions < MaxDisruptions /\ disruptions' = disruptions + 1
Calm == UNCHANGED disruptions
-----------------------------------------------------------------------------

Init ==
  /\ owner \in [Sources -> Owners]
  /\ event = [e \in Events |-> "new"]
  /\ day = [e \in Events |-> NoDay]
  /\ member = [e \in Events |-> NoCluster]
  /\ cluster = << >>
  /\ key = [o \in Owners |-> Free]
  /\ linker = [l \in Linkers |-> Idle]
  /\ move = [s \in Sources |-> NoMove]
  /\ removal = [e \in Events |-> NoRemoval]
  /\ disruptions = 0

(* An extraction commits an event with its evidence.                       *)
Extract(e) ==
  /\ event[e] = "new"
  /\ event' = [event EXCEPT ![e] = "live"]
  /\ \E d \in DaysOf[e] : day' = [day EXCEPT ![e] = d]
  /\ UNCHANGED <<owner, member, cluster, key, linker, move, removal, disruptions>>

EventLocked(e) == removal[e].active \/ \E l \in Linkers : linker[l].event = e

(* _link locks the event, finds that it is in no cluster and reads whose   *)
(* it is; nothing keeps the source from being assigned after that.         *)
ReadEvent(l, e) ==
  /\ linker[l].stage = "idle"
  /\ event[e] = "live" /\ ~EventLocked(e) /\ member[e] = NoCluster
  /\ linker' = [linker EXCEPT ![l] = [Idle EXCEPT !.stage = "read", !.event = e,
                  !.org = owner[SourceOf[e]], !.number = Number]]
  /\ UNCHANGED <<rows, key, move, removal, disruptions>>

(* Mutant: without the lock on organization, type and title.               *)
JoinUnlocked(l) ==
  LET self == linker[l]
      found == Candidates(self.org, day[self.event])
      into == IF found = {} THEN self.number ELSE Min(found)
  IN
  /\ self.stage = "read"
  /\ linker' = [linker EXCEPT ![l].stage = "joined", ![l].into = into,
                  ![l].day = Earliest(Members(into) \cup {self.event})]
  /\ UNCHANGED <<rows, key, move, removal, disruptions>>

(* The rest of _link up to its commit: the advisory lock, the candidates   *)
(* FOR UPDATE, the oldest of them or a new cluster, the member and the     *)
(* values of the cluster taken from all its members.                       *)
Join(l) ==
  LET self == linker[l]
      found == Candidates(self.org, day[self.event])
      into == IF found = {} THEN self.number ELSE Min(found)
  IN
  /\ self.stage = "read" /\ key[self.org] = Free
  /\ key' = [key EXCEPT ![self.org] = l]
  /\ linker' = [linker EXCEPT ![l].stage = "joined", ![l].into = into,
                  ![l].day = Earliest(Members(into) \cup {self.event})]
  /\ UNCHANGED <<rows, move, removal, disruptions>>

(* Mutant: a lock of the connection, which the commit does not release.    *)
CommitKeepingKey(l) ==
  LET self == linker[l] IN
  /\ self.stage = "joined"
  /\ member' = [member EXCEPT ![self.event] = self.into]
  /\ cluster' = [c \in Clusters \cup {self.into} |->
                   IF c = self.into THEN [org |-> self.org, day |-> self.day] ELSE cluster[c]]
  /\ linker' = [linker EXCEPT ![l] = Idle]
  /\ UNCHANGED <<owner, event, day, key, move, removal, disruptions>>

Released(l) == [o \in Owners |-> IF key[o] = l THEN Free ELSE key[o]]

Commit(l) ==
  LET self == linker[l] IN
  /\ self.stage = "joined"
  /\ member' = [member EXCEPT ![self.event] = self.into]
  /\ cluster' = [c \in Clusters \cup {self.into} |->
                   IF c = self.into THEN [org |-> self.org, day |-> self.day] ELSE cluster[c]]
  /\ key' = Released(l)
  /\ linker' = [linker EXCEPT ![l] = Idle]
  /\ UNCHANGED <<owner, event, day, move, removal, disruptions>>

(* A crash, a lost connection or a deadlock that PostgreSQL ends.          *)
LinkFails(l) ==
  /\ linker[l] # Idle
  /\ Disrupt
  /\ key' = Released(l)
  /\ linker' = [linker EXCEPT ![l] = Idle]
  /\ UNCHANGED <<rows, move, removal>>

(* LegacySourceAssignmentService._move up to its commit.  It takes the members   *)
(* it sees, deletes the clusters it sees empty then, and computes the day  *)
(* of the others from the members it sees.                                 *)
BeginMove(s, o) ==
  LET taken == {e \in Events : SourceOf[e] = s /\ event[e] = "live" /\ member[e] # NoCluster}
      emptied == IF \E e \in Events : SourceOf[e] = s /\ event[e] = "live"
                 THEN Without(taken) ELSE {}
      kept == {member[e] : e \in taken} \ emptied
      changed == {c \in kept : Earliest(Members(c) \ taken) # cluster[c].day}
  IN
  /\ s \in Assignable /\ owner[s] = Legacy /\ move[s] = NoMove
  /\ \A e \in taken : ~removal[e].active
  /\ move' = [move EXCEPT ![s] =
                [org |-> o, taken |-> taken, emptied |-> emptied,
                 days |-> [c \in changed |-> Earliest(Members(c) \ taken)]]]
  /\ UNCHANGED <<rows, key, linker, removal, disruptions>>

CommitMove(s) ==
  LET self == move[s]
      changed == DOMAIN self.days
  IN
  /\ self # NoMove
  /\ changed \subseteq Clusters
  /\ \A c \in Clusters \cap (changed \cup self.emptied) : ~Locked(c)
  /\ owner' = [owner EXCEPT ![s] = self.org]
  /\ Deleting(self.emptied, self.taken)
  /\ cluster' = [c \in Clusters \ self.emptied |->
                   IF c \in changed THEN [cluster[c] EXCEPT !.day = self.days[c]]
                   ELSE cluster[c]]
  /\ move' = [move EXCEPT ![s] = NoMove]
  /\ UNCHANGED <<event, day, key, linker, removal, disruptions>>

(* It fails like any transaction, and always when a cluster whose day it   *)
(* would write has been deleted meanwhile.                                 *)
MoveFails(s) ==
  /\ move[s] # NoMove
  /\ IF DOMAIN move[s].days \subseteq Clusters THEN Disrupt ELSE Calm
  /\ move' = [move EXCEPT ![s] = NoMove]
  /\ UNCHANGED <<rows, key, linker, removal>>

(* delete_orphaned_events: the last evidence of an event went with its     *)
(* chunk.  Clusters that look empty to this transaction go as well.        *)
BeginRemoval(e) ==
  /\ event[e] = "live" /\ ~EventLocked(e)
  /\ \A s \in Sources : e \notin move[s].taken
  /\ removal' = [removal EXCEPT ![e] = [active |-> TRUE, emptied |-> Without({e})]]
  /\ UNCHANGED <<rows, key, linker, move, disruptions>>

CommitRemoval(e) ==
  LET gone == removal[e].emptied IN
  /\ removal[e].active
  /\ \A c \in Clusters \cap gone : ~Locked(c)
  /\ event' = [event EXCEPT ![e] = "gone"]
  /\ day' = [day EXCEPT ![e] = NoDay]
  /\ Deleting(gone, {e})
  /\ cluster' = Restrict(cluster, Clusters \ gone)
  /\ removal' = [removal EXCEPT ![e] = NoRemoval]
  /\ UNCHANGED <<owner, key, linker, move, disruptions>>

LinkerStep(l) == Join(l) \/ Commit(l) \/ \E e \in Events : ReadEvent(l, e)
MoveEnds(s) == CommitMove(s) \/ MoveFails(s)

Next ==
  \/ \E e \in Events : Extract(e) \/ BeginRemoval(e) \/ CommitRemoval(e)
  \/ \E l \in Linkers : LinkerStep(l) \/ LinkFails(l)
  \/ \E s \in Sources :
       \/ MoveEnds(s)
       \/ \E o \in Orgs : BeginMove(s, o)

Spec == Init /\ [][Next]_vars

(* Transactions end, and linking is tried again: link-events repairs what  *)
(* was left unclustered.                                                   *)
Fairness ==
  /\ \A l \in Linkers : WF_vars(LinkerStep(l))
  /\ \A s \in Sources : WF_vars(MoveEnds(s))
  /\ \A e \in Events : WF_vars(CommitRemoval(e))

FairSpec == Spec /\ Fairness
-----------------------------------------------------------------------------

(* The variables hold what the tables and transactions keep, and every     *)
(* membership is of a stored event in a stored cluster.                    *)
TypeOK ==
  /\ owner \in [Sources -> Owners]
  /\ event \in [Events -> {"new", "live", "gone"}]
  /\ day \in [Events -> Nat]
  /\ Clusters \subseteq Nat \ {NoCluster}
  /\ cluster \in [Clusters -> [org : Owners, day : Nat]]
  /\ member \in [Events -> Clusters \cup {NoCluster}]
  /\ \A e \in Events : member[e] # NoCluster => event[e] = "live"
  /\ key \in [Owners -> Linkers \cup {Free}]
  /\ linker \in [Linkers -> [stage : {"idle", "read", "joined"}, event : Events \cup {NoEvent},
                             org : Owners, number : Nat, into : Nat, day : Nat]]
  /\ disruptions \in 0..MaxDisruptions

(* A cluster of an organization holds only events of that organization,    *)
(* although a linker reads the owner of an event long before it commits.   *)
OrganizationsApart ==
  \A e \in Events :
    member[e] # NoCluster /\ cluster[member[e]].org # Legacy =>
      cluster[member[e]].org = owner[SourceOf[e]]

(* Two events of a cluster with known times fall on the same day.  It is   *)
(* stated for the clusters of organizations: an assignment recomputes the  *)
(* day of legacy clusters from members that a linker may be adding to.     *)
OneDayPerCluster ==
  \A e, f \in Events :
    /\ member[e] # NoCluster /\ member[e] = member[f]
    /\ cluster[member[e]].org # Legacy
    /\ day[e] # NoDay /\ day[f] # NoDay
    => day[e] = day[f]

(* Two workers never start two clusters for the same thing: an             *)
(* organization has one cluster for a day, and one without a day.          *)
OneClusterPerDay ==
  \A c, d \in Clusters :
    cluster[c] = cluster[d] /\ cluster[c].org # Legacy => c = d

(* A cluster of an organization is one day, and a day one cluster.         *)
ClustersAreDays == OneDayPerCluster /\ OneClusterPerDay

(* Every event gets a cluster or is removed, whatever assignments,         *)
(* deletions of clusters under it and failures come between.               *)
EventsGetLinked ==
  \A e \in Events : event[e] = "live" ~> member[e] # NoCluster \/ event[e] = "gone"

(* What the decisions of the repository say: clusters never mix            *)
(* organizations, and legacy events only join legacy clusters.             *)
ClustersNeverMix ==
  \A e, f \in Events :
    member[e] # NoCluster /\ member[e] = member[f] => owner[SourceOf[e]] = owner[SourceOf[f]]
=============================================================================
