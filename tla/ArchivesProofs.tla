----------------------------- MODULE ArchivesProofs -----------------------------
(***************************************************************************)
(* Archives and restores of organizations, for every number of             *)
(* organizations, runs, requests and faults: stored archives are kept and  *)
(* backups stay due in time, and restored files follow their records.      *)
(***************************************************************************)
EXTENDS ArchiveRuns, RestoreRuns, FiniteSetTheorems, TLAPS

RestoreStates == {"none", "running", "completed", "failed"}

\* Nothing is written before the staging begins, and nothing afterwards.
Before == {"new", "drilling", "analysed", "staging"}
After == {"answering", "over", "gone"}
Places == Before \cup After \cup
          {"records", "committing", "tidying", "tidied", "failing", "cleared"}

RestoresTypeOK ==
    /\ restores \in [Requests -> RestoreStates]
    /\ drills \in [Drills -> RestoreStates]
    /\ at \in [Requests -> Places]
    /\ staged \in [Requests -> SUBSET Assets]
    /\ final \in [Requests -> SUBSET Assets]
    /\ known \in [Requests -> SUBSET {"staged", "final"}]
    /\ content \subseteq Requests \cup {Others}
    /\ failures \in Nat
    /\ causes \in [Requests -> SUBSET {"keys lost", "refused", "late", "gone"}]

Lost(r) == "keys lost" \in causes[r]

\* What each place says about the files of r and its records.
Nothing(r) == r \notin content /\ staged[r] = {} /\ final[r] = {}

\* Files at a place without records have their keys in the handler's hands.
Held(r) ==
    /\ staged[r] = {} \/ "staged" \in known[r] \/ Lost(r)
    /\ final[r] = {} \/ "final" \in known[r] \/ Lost(r)

Placed(r) ==
    /\ at[r] \in Before => Nothing(r)
    /\ at[r] = "records" =>
          r \notin content /\ "staged" \in known[r] /\ final[r] = {}
    /\ at[r] = "committing" =>
          r \notin content /\ known[r] = {"staged", "final"} /\ final[r] = Assets
    /\ at[r] \in {"tidying", "tidied"} => r \in content /\ final[r] = Assets
    /\ at[r] = "failing" => IF r \in content THEN "late" \in causes[r] ELSE Held(r)
    /\ at[r] = "cleared" =>
          IF r \in content THEN "late" \in causes[r]
          ELSE Nothing(r) \/ causes[r] \cap {"keys lost", "refused"} # {}
    /\ restores[r] = "failed" => at[r] \in After

\* FilesFollowRecords, for one request.
Agrees(r) ==
    /\ r \in content => final[r] = Assets \/ "late" \in causes[r]
    /\ restores[r] = "failed" => Nothing(r) \/ causes[r] \cap {"keys lost", "refused", "late"} # {}

FilesInv ==
    /\ RestoresTypeOK
    /\ \A r \in Requests : Placed(r) /\ Agrees(r)

(* Nothing is written at first.                                           *)
LEMMA InitFiles == RestoresInit => FilesInv
<1> SUFFICES ASSUME RestoresInit PROVE FilesInv
  OBVIOUS
<1>1. RestoresTypeOK
  BY DEF RestoresInit, RestoresTypeOK, RestoreStates, Places, Before
<1>2. ASSUME NEW r \in Requests PROVE Placed(r) /\ Agrees(r)
  BY DEF RestoresInit, Placed, Agrees, Nothing, Before
<1> QED BY <1>1, <1>2 DEF FilesInv

(* What every step keeps of the types.                                     *)
LEMMA StepType ==
  ASSUME RestoresTypeOK, NEW r \in Requests, Step(r) \/ ProcessEnds(r)
  PROVE  RestoresTypeOK'
<1> USE RestoreAssumption
<1>1. at' \in [Requests -> Places]
  BY ZenonT(30) DEF RestoresTypeOK, Places, Before, After, Step, BeginDrill, Analyse, Refuse,
     BeginRestore, StageAssets, StagingFails, RestoreRecords, RecordsFail, CommitRecords,
     Tidy, Complete, CommitFails, Clear, Fail, EndDrill, ProcessEnds, Go, Ends
<1>2. restores' \in [Requests -> RestoreStates]
  <2>1. PICK x \in RestoreStates : restores' \in {restores, [restores EXCEPT ![r] = x]}
    BY DEF RestoreStates, Step, BeginDrill, Analyse, Refuse,
       BeginRestore, StageAssets, StagingFails, RestoreRecords, RecordsFail, CommitRecords,
       Tidy, Complete, CommitFails, Clear, Fail, EndDrill, ProcessEnds
  <2> QED BY <2>1 DEF RestoresTypeOK
<1>3. drills' \in [Drills -> RestoreStates]
  <2>1. PICK x \in RestoreStates : drills' \in {drills, [drills EXCEPT ![r] = x]}
    BY DEF RestoreStates, Step, BeginDrill, Analyse, Refuse,
       BeginRestore, StageAssets, StagingFails, RestoreRecords, RecordsFail, CommitRecords,
       Tidy, Complete, CommitFails, Clear, Fail, EndDrill, ProcessEnds
  <2> QED BY <2>1 DEF RestoresTypeOK
<1>4. /\ staged' \in [Requests -> SUBSET Assets] /\ final' \in [Requests -> SUBSET Assets]
      /\ known' \in [Requests -> SUBSET {"staged", "final"}]
  <2>1. staged[r] \in SUBSET Assets /\ final[r] \in SUBSET Assets
    BY DEF RestoresTypeOK
  <2>2. PICK x \in SUBSET Assets : staged' \in {staged, [staged EXCEPT ![r] = x]}
    <3>1. CASE StagingFails(r)
      BY <3>1 DEF StagingFails
    <3>2. CASE ~StagingFails(r)
      BY <2>1, <3>2 DEF Step, BeginDrill, Analyse, Refuse,
         BeginRestore, StageAssets, RestoreRecords, RecordsFail, CommitRecords,
         Tidy, Complete, CommitFails, Clear, Fail, EndDrill, ProcessEnds
    <3> QED BY <3>1, <3>2
  <2>3. PICK y \in SUBSET Assets : final' \in {final, [final EXCEPT ![r] = y]}
    <3>1. CASE RecordsFail(r)
      BY <3>1 DEF RecordsFail
    <3>2. CASE ~RecordsFail(r)
      BY <2>1, <3>2 DEF Step, BeginDrill, Analyse, Refuse,
         BeginRestore, StageAssets, StagingFails, RestoreRecords, CommitRecords,
         Tidy, Complete, CommitFails, Clear, Fail, EndDrill, ProcessEnds
    <3> QED BY <3>1, <3>2
  <2>4. PICK z \in SUBSET {"staged", "final"} : known' \in {known, [known EXCEPT ![r] = z]}
    BY DEF Step, BeginDrill, Analyse, Refuse,
       BeginRestore, StageAssets, StagingFails, RestoreRecords, RecordsFail, CommitRecords,
       Tidy, Complete, CommitFails, Clear, Fail, EndDrill, ProcessEnds
  <2> QED BY <2>2, <2>3, <2>4 DEF RestoresTypeOK
<1>5. content' \subseteq Requests \cup {Others}
  BY DEF RestoresTypeOK, Step, BeginDrill, Analyse, Refuse,
     BeginRestore, StageAssets, StagingFails, RestoreRecords, RecordsFail, CommitRecords,
     Tidy, Complete, CommitFails, Clear, Fail, EndDrill, ProcessEnds
<1>6. failures' \in Nat
  <2>1. failures' \in {failures, failures + 1}
    BY DEF Fault, Step, BeginDrill, Analyse, Refuse,
       BeginRestore, StageAssets, StagingFails, RestoreRecords, RecordsFail, CommitRecords,
       Tidy, Complete, CommitFails, Clear, Fail, EndDrill, ProcessEnds
  <2>2. failures \in Nat
    BY DEF RestoresTypeOK
  <2>3. failures + 1 \in Nat
    BY <2>2
  <2> QED BY <2>1, <2>2, <2>3
<1>7. causes' \in [Requests -> SUBSET {"keys lost", "refused", "late", "gone"}]
  <2>1. PICK x \in {"keys lost", "refused", "late", "gone"} :
          causes' \in {causes, [causes EXCEPT ![r] = causes[r] \cup {x}]}
    BY DEF Blame, Step, BeginDrill, Analyse, Refuse,
       BeginRestore, StageAssets, StagingFails, RestoreRecords, RecordsFail, CommitRecords,
       Tidy, Complete, CommitFails, Clear, Fail, EndDrill, ProcessEnds
  <2>2. causes[r] \cup {x} \in SUBSET {"keys lost", "refused", "late", "gone"}
    BY DEF RestoresTypeOK
  <2> QED BY <2>1, <2>2 DEF RestoresTypeOK
<1> QED BY <1>1, <1>2, <1>3, <1>4, <1>5, <1>6, <1>7 DEF RestoresTypeOK

(* A request touches only its own row, files and keys.                     *)
LEMMA OthersUntouched ==
  ASSUME RestoresTypeOK, NEW r \in Requests, Step(r) \/ ProcessEnds(r),
         NEW q \in Requests \ {r}, Placed(q), Agrees(q)
  PROVE  Placed(q)' /\ Agrees(q)'
<1>1. at'[q] = at[q] /\ restores'[q] = restores[q] /\ known'[q] = known[q]
  BY DEF RestoresTypeOK, Step, BeginDrill, Analyse, Refuse,
     BeginRestore, StageAssets, StagingFails, RestoreRecords, RecordsFail, CommitRecords,
     Tidy, Complete, CommitFails, Clear, Fail, EndDrill, ProcessEnds, Go
<1>2. staged'[q] = staged[q] /\ final'[q] = final[q]
  BY DEF RestoresTypeOK, Step, BeginDrill, Analyse, Refuse,
     BeginRestore, StageAssets, StagingFails, RestoreRecords, RecordsFail, CommitRecords,
     Tidy, Complete, CommitFails, Clear, Fail, EndDrill, ProcessEnds
<1>3. causes'[q] = causes[q] /\ (q \in content' <=> q \in content)
  BY DEF RestoresTypeOK, Blame, Step, BeginDrill, Analyse, Refuse,
     BeginRestore, StageAssets, StagingFails, RestoreRecords, RecordsFail, CommitRecords,
     Tidy, Complete, CommitFails, Clear, Fail, EndDrill, ProcessEnds
<1> QED BY <1>1, <1>2, <1>3 DEF Placed, Agrees, Nothing, Held, Lost

(* A cause that is recorded stays.                                         *)
LEMMA Blamed ==
  ASSUME RestoresTypeOK, NEW r \in Requests,
         NEW cause \in {"keys lost", "refused", "late", "gone"}
  PROVE  Blame(r, cause) => cause \in causes'[r] /\ causes[r] \subseteq causes'[r]
  BY ZenonT(30) DEF Blame, RestoresTypeOK

(* The step of a request leaves its files where its new place says.        *)
LEMMA OwnStep ==
  ASSUME RestoresTypeOK, NEW r \in Requests, Step(r) \/ ProcessEnds(r), Placed(r), Agrees(r)
  PROVE  Placed(r)' /\ Agrees(r)'
<1> USE DEF Before, After
<1>0. /\ restores[r] \in RestoreStates /\ at \in [Requests -> Places]
      /\ restores \in [Requests -> RestoreStates]
      /\ causes[r] \in SUBSET {"keys lost", "refused", "late", "gone"}
  BY DEF RestoresTypeOK
<1>1. CASE BeginDrill(r) \/ Analyse(r) \/ Refuse(r) \/ EndDrill(r)
  BY <1>1, ZenonT(30) DEF BeginDrill, Analyse, Refuse, EndDrill, Ends, Go,
     RestoresTypeOK, Placed, Agrees, Nothing, Held, Lost
<1>2. CASE BeginRestore(r)
  BY <1>2 DEF BeginRestore, Ends, Go, RestoresTypeOK, Placed, Agrees, Nothing, Held, Lost
<1>3. CASE StageAssets(r)
  BY <1>3 DEF StageAssets, Go, RestoresTypeOK, Placed, Agrees, Nothing, Held, Lost
<1>4. CASE StagingFails(r)
  <2>1. /\ at'[r] = "failing" /\ restores'[r] = restores[r] /\ restores[r] # "failed"
        /\ r \notin content' /\ final'[r] = {}
    BY <1>4 DEF StagingFails, Go, RestoresTypeOK, Placed, Nothing
  <2>2. staged'[r] = {} \/ "keys lost" \in causes'[r]
    <3>1. PICK some \in SUBSET Assets :
            /\ staged' = [staged EXCEPT ![r] = some]
            /\ some = {} \/ Blame(r, "keys lost")
      BY <1>4 DEF StagingFails
    <3>2. staged'[r] = some
      BY <3>1 DEF RestoresTypeOK
    <3>3. Blame(r, "keys lost") => "keys lost" \in causes'[r]
      BY DEF Blame, RestoresTypeOK
    <3> QED BY <3>1, <3>2, <3>3
  <2> QED BY <2>1, <2>2 DEF Placed, Agrees, Held, Lost
<1>5. CASE RestoreRecords(r)
  <2>1. /\ at'[r] = "committing" /\ restores'[r] = restores[r] /\ restores[r] # "failed"
        /\ r \notin content'
    BY <1>5 DEF RestoreRecords, Go, RestoresTypeOK, Placed
  <2>2. final'[r] = Assets /\ known'[r] = {"staged", "final"}
    BY <1>5 DEF RestoreRecords, RestoresTypeOK
  <2> QED BY <2>1, <2>2 DEF Placed, Agrees
<1>6. CASE RecordsFail(r)
  <2>1. /\ at'[r] = "failing" /\ restores'[r] = restores[r] /\ restores[r] # "failed"
        /\ r \notin content' /\ "staged" \in known'[r]
    BY <1>6 DEF RecordsFail, Go, RestoresTypeOK, Placed
  <2>2. final'[r] = {} \/ "keys lost" \in causes'[r]
    <3>1. PICK some \in SUBSET Assets :
            /\ final' = [final EXCEPT ![r] = some]
            /\ some = {} \/ Blame(r, "keys lost")
      BY <1>6 DEF RecordsFail
    <3>2. final'[r] = some
      BY <3>1 DEF RestoresTypeOK
    <3>3. Blame(r, "keys lost") => "keys lost" \in causes'[r]
      BY DEF Blame, RestoresTypeOK
    <3> QED BY <3>1, <3>2, <3>3
  <2> QED BY <2>1, <2>2 DEF Placed, Agrees, Held, Lost
<1>7. CASE CommitRecords(r)
  BY <1>7 DEF CommitRecords, Go, RestoresTypeOK, Placed, Agrees
<1>8. CASE Tidy(r) \/ Complete(r)
  <2>1. /\ at'[r] \in {"tidied"} \cup After /\ restores'[r] # "failed"
        /\ r \in content' /\ final'[r] = Assets
    BY <1>8 DEF Tidy, Complete, Ends, Go, RestoresTypeOK, Placed
  <2> QED BY <2>1 DEF Placed, Agrees
<1>9. CASE CommitFails(r)
  <2>1. /\ at'[r] = "failing" /\ restores'[r] # "failed"
        /\ staged' = staged /\ final' = final /\ known' = known /\ content' = content
    BY <1>9 DEF CommitFails, Go, RestoresTypeOK, Placed
  <2>2. CASE at[r] = "committing"
    BY <1>9, <2>1, <2>2 DEF Placed, Agrees, Held
  <2>3. CASE at[r] # "committing"
    <3>1. r \in content /\ Blame(r, "late")
      BY <1>9, <2>3 DEF CommitFails, Placed
    <3>2. "late" \in causes'[r]
      BY <3>1, Blamed
    <3> QED BY <2>1, <3>1, <3>2 DEF Placed, Agrees
  <2> QED BY <2>2, <2>3
<1>10. CASE Clear(r)
  <2>1. /\ at'[r] = "cleared" /\ restores'[r] # "failed" /\ content' = content
        /\ causes' = causes \/ Blame(r, "refused")
    BY <1>10 DEF Clear, Go, RestoresTypeOK, Placed
  <2>4. causes[r] \subseteq causes'[r]
    BY <2>1, Blamed
  <2>2. CASE r \in content
    <3>1. "late" \in causes'[r]
      BY <1>10, <2>4, <2>2 DEF Clear, Placed
    <3> QED BY <2>1, <2>2, <3>1 DEF Placed, Agrees
  <2>3. CASE r \notin content
    <3>1. Held(r)
      BY <1>10, <2>3 DEF Clear, Placed
    <3>2. Nothing(r)' \/ causes'[r] \cap {"keys lost", "refused"} # {}
      <4>1. CASE "refused" \in causes'[r] \/ Lost(r)
        BY <4>1, <2>4 DEF Lost
      <4>2. CASE "refused" \notin causes'[r] /\ ~Lost(r)
        <5>1. /\ staged' = [staged EXCEPT ![r] = IF "staged" \in known[r] THEN {} ELSE @]
              /\ final' = [final EXCEPT ![r] = IF "final" \in known[r] THEN {} ELSE @]
          BY <1>10, <4>2, Blamed DEF Clear
        <5> QED BY <5>1, <4>2, <3>1, <2>1, <2>3 DEF Held, Nothing, RestoresTypeOK
      <4> QED BY <4>1, <4>2
    <3> QED BY <2>1, <2>3, <3>2 DEF Placed, Agrees
  <2> QED BY <2>2, <2>3
<1>11. CASE Fail(r)
  <2>1. /\ at'[r] \in After /\ content' = content /\ causes' = causes
        /\ staged' = staged /\ final' = final /\ at[r] = "cleared"
    BY <1>11 DEF Fail, Ends, Go, RestoresTypeOK
  <2> QED BY <2>1 DEF Placed, Agrees, Nothing
<1>12. CASE ProcessEnds(r)
  <2>1. /\ at'[r] = "gone" /\ content' = content /\ restores' = restores
        /\ staged' = staged /\ final' = final
        /\ causes[r] \subseteq causes'[r]
    BY <1>12, Blamed DEF ProcessEnds, Go, RestoresTypeOK
  <2> QED BY <2>1 DEF Placed, Agrees, Nothing
<1> QED
  BY <1>1, <1>2, <1>3, <1>4, <1>5, <1>6, <1>7, <1>8, <1>9, <1>10, <1>11, <1>12 DEF Step

(* Every step keeps the invariant, a member's records included.            *)
LEMMA StepFiles == FilesInv /\ [RestoresStep]_restoreVars => FilesInv'
<1> SUFFICES ASSUME FilesInv, [RestoresStep]_restoreVars PROVE FilesInv'
  OBVIOUS
<1>0. RestoresTypeOK /\ \A r \in Requests : Placed(r) /\ Agrees(r)
  BY DEF FilesInv
<1>1. CASE Populate
  <2>1. RestoresTypeOK'
    BY <1>0, <1>1 DEF Populate, RestoresTypeOK
  <2>2. ASSUME NEW r \in Requests PROVE Placed(r)' /\ Agrees(r)'
    BY <1>0, <1>1, RestoreAssumption DEF Populate, Placed, Agrees, Nothing, Held, Lost
  <2> QED BY <2>1, <2>2 DEF FilesInv
<1>2. ASSUME NEW r \in Requests, Step(r) \/ ProcessEnds(r) PROVE FilesInv'
  <2>1. ASSUME NEW q \in Requests PROVE Placed(q)' /\ Agrees(q)'
    BY <1>0, <1>2, OwnStep, OthersUntouched
  <2> QED BY <1>0, <1>2, <2>1, StepType DEF FilesInv
<1>3. CASE UNCHANGED restoreVars
  <2>1. RestoresTypeOK'
    BY <1>0, <1>3 DEF restoreVars, RestoresTypeOK
  <2>2. ASSUME NEW r \in Requests PROVE Placed(r)' /\ Agrees(r)'
    BY <1>0, <1>3 DEF restoreVars, Placed, Agrees, Nothing, Held, Lost
  <2> QED BY <2>1, <2>2 DEF FilesInv
<1> QED BY <1>1, <1>2, <1>3 DEF RestoresStep

(* Whatever fails between the three commits of a restore, for any number   *)
(* of restores at a time: restored records keep their files, and a failed  *)
(* restore leaves none, but for the causes that FilesFollowRecords names.  *)
THEOREM FilesAlwaysFollow == RestoresSpec => []FilesFollowRecords
<1>1. FilesInv => FilesFollowRecords
  BY DEF FilesInv, Agrees, Nothing, FilesFollowRecords, RestoredFilesStay, FailedLeavesNothing
<1> QED BY <1>1, InitFiles, StepFiles, PTL DEF RestoresSpec

--------------------------------------------------------------------------------

\* A run at work; retention counts are compared only.
IsWork(w) ==
    \/ w = Idle
    \/ w \in [at: Exporting]
    \/ w \in [at: BackingUp, finished: Nat, frequency: Frequencies, retention: {w.retention}]

IsPolicy(p) ==
    p \in [enabled: BOOLEAN, frequency: Frequencies, retention: {p.retention}, next: Int]

ArchiveTypeOK ==
    /\ now \in Nat
    /\ work = [o \in Organizations |-> work[o]] /\ \A o \in Organizations : IsWork(work[o])
    /\ policies = [o \in Organizations |-> policies[o]]
    /\ \A o \in Organizations : IsPolicy(policies[o])

\* What NextRunWithinPeriod needs: a backup that will set the next run works
\* with the policy's own frequency, and has not finished in the future.
PeriodSound(o) ==
    /\ work[o].at \in BackingUp \ {"backup building"} => work[o].finished <= now
    /\ o \notin overlapped =>
          /\ work[o].at \in BackingUp => work[o].frequency = policies[o].frequency
          /\ policies[o].enabled => policies[o].next <= now + Days(policies[o].frequency)

PeriodInv == ArchiveTypeOK /\ \A o \in Organizations : PeriodSound(o)

LEMMA ShapeOfWork ==
  ASSUME ArchiveTypeOK, NEW o \in Organizations
  PROVE  /\ work[o].at \in Exporting => work[o] \in [at: Exporting]
         /\ work[o].at \in BackingUp =>
              /\ work[o] \in [at: BackingUp, finished: Nat, frequency: Frequencies,
                              retention: {work[o].retention}]
              /\ work[o].finished \in Nat
<1>1. IsWork(work[o])
  BY DEF ArchiveTypeOK
<1>2. CASE work[o] = Idle
  BY <1>2 DEF Idle, Exporting, BackingUp
<1>3. CASE work[o] \in [at: Exporting]
  <2>1. work[o].at \in Exporting
    BY <1>3
  <2> QED BY <1>3, <2>1 DEF Exporting, BackingUp
<1>4. CASE work[o] \in [at: BackingUp, finished: Nat, frequency: Frequencies,
                       retention: {work[o].retention}]
  <2>1. work[o].at \in BackingUp /\ work[o].finished \in Nat
    BY <1>4
  <2> QED BY <1>4, <2>1 DEF Exporting, BackingUp
<1> QED BY <1>1, <1>2, <1>3, <1>4 DEF IsWork

LEMMA InitPeriods == Init => PeriodInv
<1> SUFFICES ASSUME Init PROVE PeriodInv
  OBVIOUS
<1>1. \A o \in Organizations :
        /\ IsPolicy(policies[o])
        /\ policies[o].enabled => policies[o].next = 0
  <2> SUFFICES ASSUME NEW o \in Organizations
               PROVE  IsPolicy(policies[o]) /\ (policies[o].enabled => policies[o].next = 0)
    OBVIOUS
  <2>1. policies[o] \in {NoPolicy} \cup {EnabledPolicy(f) : f \in Frequencies}
    BY DEF Init
  <2>2. CASE policies[o] = NoPolicy
    BY <2>2 DEF NoPolicy, IsPolicy, Never, Frequencies
  <2>3. ASSUME NEW f \in Frequencies, policies[o] = EnabledPolicy(f)
        PROVE  IsPolicy(policies[o]) /\ (policies[o].enabled => policies[o].next = 0)
    BY <2>3 DEF EnabledPolicy, IsPolicy
  <2> QED BY <2>1, <2>2, <2>3
<1>2. ArchiveTypeOK
  BY <1>1 DEF Init, ArchiveTypeOK, IsWork
<1>3. ASSUME NEW o \in Organizations PROVE PeriodSound(o)
  <2>1. /\ policies[o].enabled => policies[o].next = 0
        /\ now = 0 /\ Days(policies[o].frequency) \in {1, 2}
    BY <1>1 DEF Init, Days
  <2>2. work[o].at = "idle"
    BY DEF Init, Idle
  <2> QED BY <2>1, <2>2 DEF PeriodSound, BackingUp
<1> QED BY <1>2, <1>3 DEF PeriodInv

\* A step of one organization that leaves the other ones alone.
LEMMA OneOrganizationsPeriod ==
  ASSUME PeriodInv, NEW o \in Organizations, NEW w, NEW p,
         work' = [work EXCEPT ![o] = w], policies' = [policies EXCEPT ![o] = p],
         now' = now, overlapped \subseteq overlapped', IsWork(w), IsPolicy(p),
         PeriodSound(o)'
  PROVE  PeriodInv'
<1>1. work'[o] = w /\ policies'[o] = p
  BY DEF PeriodInv, ArchiveTypeOK
<1>2. ASSUME NEW u \in Organizations, u # o
      PROVE  work'[u] = work[u] /\ policies'[u] = policies[u]
  BY <1>2 DEF PeriodInv, ArchiveTypeOK
<1>3. ASSUME NEW u \in Organizations
      PROVE  IsWork(work[u])' /\ IsPolicy(policies[u])' /\ PeriodSound(u)'
  <2>1. CASE u = o
    BY <1>1, <2>1
  <2>2. CASE u # o
    BY <1>2, <2>2 DEF PeriodInv, ArchiveTypeOK, PeriodSound
  <2> QED BY <2>1, <2>2
<1>4. /\ work' = [u \in Organizations |-> work'[u]]
      /\ policies' = [u \in Organizations |-> policies'[u]] /\ now' \in Nat
  BY DEF PeriodInv, ArchiveTypeOK
<1> QED BY <1>3, <1>4 DEF PeriodInv, ArchiveTypeOK

LEMMA PoliciesAlone ==
  ASSUME PeriodInv, NEW o \in Organizations
  PROVE  policies = [policies EXCEPT ![o] = policies[o]] /\ work = [work EXCEPT ![o] = work[o]]
  BY DEF PeriodInv, ArchiveTypeOK

LEMMA DaysAreFew == \A f : Days(f) \in {1, 2}
  BY DEF Days

\* A run begins, or goes to its next place, or ends, and the policy stays.
LEMMA RunsPeriod ==
  ASSUME PeriodInv, NEW o \in Organizations, NEW w, work' = [work EXCEPT ![o] = w],
         IsWork(w), UNCHANGED <<policies, now, overlapped>>,
         w.at \in BackingUp =>
           /\ w.at # "backup building" => w.finished <= now
           /\ \/ w.frequency = policies[o].frequency
              \/ work[o].at \in BackingUp /\ w.frequency = work[o].frequency
  PROVE  PeriodInv'
<1>1. work'[o] = w
  BY DEF PeriodInv, ArchiveTypeOK
<1>2. PeriodSound(o)'
  BY <1>1 DEF PeriodInv, PeriodSound
<1>3. IsPolicy(policies[o])
  BY DEF PeriodInv, ArchiveTypeOK
<1> QED BY <1>2, <1>3, PoliciesAlone, OneOrganizationsPeriod

LEMMA BeginsPeriod ==
  ASSUME PeriodInv, NEW o \in Organizations, CreateExport(o) \/ RunBackup(o)
  PROVE  PeriodInv'
<1>1. CASE CreateExport(o)
  <2> DEFINE w == [at |-> "export building"]
  <2>1. work' = [work EXCEPT ![o] = w] /\ UNCHANGED <<policies, now, overlapped>>
    BY <1>1 DEF CreateExport, Begin
  <2>2. IsWork(w) /\ w.at \notin BackingUp
    BY DEF IsWork, Exporting, BackingUp
  <2> HIDE DEF w
  <2> QED BY <2>1, <2>2, RunsPeriod
<1>2. CASE RunBackup(o)
  <2> DEFINE w == [at |-> "backup building", finished |-> 0,
                   frequency |-> policies[o].frequency, retention |-> policies[o].retention]
  <2>1. work' = [work EXCEPT ![o] = w] /\ UNCHANGED <<policies, now, overlapped>>
    BY <1>2 DEF RunBackup, Begin
  <2>2. policies[o].frequency \in Frequencies
    BY DEF PeriodInv, ArchiveTypeOK, IsPolicy
  <2>3. IsWork(w) /\ w.at = "backup building" /\ w.frequency = policies[o].frequency
    BY <2>2 DEF IsWork, BackingUp
  <2> HIDE DEF w
  <2> QED BY <2>1, <2>3, RunsPeriod
<1> QED BY <1>1, <1>2

LEMMA ExportsPeriod ==
  ASSUME PeriodInv, NEW o \in Organizations,
         StoreExport(o) \/ CompleteExport(o) \/ FailExport(o) \/ CutOff(o)
  PROVE  PeriodInv'
<1>1. CASE StoreExport(o)
  <2>1. /\ work' = [work EXCEPT ![o] = [work[o] EXCEPT !.at = "export stored"]]
        /\ UNCHANGED <<policies, now, overlapped>>
    BY <1>1 DEF StoreExport
  <2>2. work[o] \in [at: Exporting]
    BY <1>1, ShapeOfWork DEF StoreExport, PeriodInv, Exporting
  <2>3. PICK w : w = [work[o] EXCEPT !.at = "export stored"]
    OBVIOUS
  <2>4. w \in [at: Exporting] /\ w.at \notin BackingUp
    BY <2>2, <2>3 DEF Exporting, BackingUp
  <2> QED BY <2>1, <2>3, <2>4, RunsPeriod DEF IsWork
<1>2. CASE CompleteExport(o) \/ FailExport(o) \/ CutOff(o)
  <2>1. work' = [work EXCEPT ![o] = Idle] /\ UNCHANGED <<policies, now, overlapped>>
    BY <1>2 DEF CompleteExport, FailExport, CutOff
  <2>2. IsWork(Idle) /\ Idle.at \notin BackingUp
    BY DEF IsWork, Idle, BackingUp
  <2> QED BY <2>1, <2>2, RunsPeriod
<1> QED BY <1>1, <1>2

LEMMA BackupsPeriod ==
  ASSUME PeriodInv, NEW o \in Organizations, StoreBackup(o) \/ Retire(o) \/ RetireFails(o)
  PROVE  PeriodInv'
<1>1. PICK place \in BackingUp, day \in {now, work[o].finished} :
        /\ work' = [work EXCEPT ![o] = [work[o] EXCEPT !.at = place, !.finished = day]]
        /\ day <= now
        /\ UNCHANGED <<policies, now, overlapped>>
        /\ work[o].at \in BackingUp
  <2>1. CASE StoreBackup(o)
    <3>1. now <= now
      BY DEF PeriodInv, ArchiveTypeOK
    <3> QED BY <2>1, <3>1 DEF StoreBackup, BackingUp
  <2>2. CASE Retire(o) \/ RetireFails(o)
    <3>1. PICK place \in {"backup retired", "backup failing"} :
             /\ work' = [work EXCEPT ![o].at = place]
             /\ UNCHANGED <<policies, now, overlapped>> /\ work[o].at = "backup stored"
      BY <2>2 DEF Retire, RetireFails
    <3>2. work[o] \in [at: BackingUp, finished: Nat, frequency: Frequencies,
                       retention: {work[o].retention}]
      BY <3>1, ShapeOfWork DEF PeriodInv, BackingUp
    <3>3. [work[o] EXCEPT !.at = place]
            = [work[o] EXCEPT !.at = place, !.finished = work[o].finished]
      BY <3>2
    <3>4. work[o].finished <= now
      BY <3>1 DEF PeriodInv, PeriodSound, BackingUp
    <3> QED BY <3>1, <3>3, <3>4 DEF BackingUp
  <2> QED BY <2>1, <2>2
<1>2. work[o] \in [at: BackingUp, finished: Nat, frequency: Frequencies,
                   retention: {work[o].retention}]
  BY <1>1, ShapeOfWork DEF PeriodInv
<1>3. day \in Nat
  BY <1>1, <1>2 DEF PeriodInv, ArchiveTypeOK
<1>4. PICK w : w = [work[o] EXCEPT !.at = place, !.finished = day]
  OBVIOUS
<1>5. /\ w \in [at: BackingUp, finished: Nat, frequency: Frequencies, retention: {w.retention}]
      /\ w.finished = day /\ w.frequency = work[o].frequency
  BY <1>2, <1>3, <1>4
<1>6. IsWork(w)
  BY <1>5 DEF IsWork
<1> QED BY <1>1, <1>4, <1>5, <1>6, RunsPeriod

LEMMA NextRunsPeriod ==
  ASSUME PeriodInv, NEW o \in Organizations, CompleteBackup(o) \/ FailBackup(o)
  PROVE  PeriodInv'
<1>1. PICK f \in Frequencies, day \in Nat :
        /\ policies' = [policies EXCEPT ![o].next = day + Days(f)]
        /\ day <= now /\ (o \notin overlapped => f = policies[o].frequency)
        /\ work' = [work EXCEPT ![o] = Idle] /\ UNCHANGED <<now, overlapped>>
  <2>1. CASE CompleteBackup(o)
    <3>1. work[o] \in [at: BackingUp, finished: Nat, frequency: Frequencies,
                       retention: {work[o].retention}]
      BY <2>1, ShapeOfWork DEF CompleteBackup, PeriodInv, BackingUp
    <3>2. work[o].finished <= now
      BY <2>1 DEF CompleteBackup, PeriodInv, PeriodSound, BackingUp
    <3>3. o \notin overlapped => work[o].frequency = policies[o].frequency
      BY <2>1 DEF CompleteBackup, PeriodInv, PeriodSound, BackingUp
    <3> QED BY <2>1, <3>1, <3>2, <3>3 DEF CompleteBackup
  <2>2. CASE FailBackup(o)
    <3>1. policies[o].frequency \in Frequencies /\ now \in Nat /\ now <= now
      BY DEF PeriodInv, ArchiveTypeOK, IsPolicy
    <3> QED BY <2>2, <3>1 DEF FailBackup
  <2> QED BY <2>1, <2>2
<1>2. PICK p : p = [policies[o] EXCEPT !.next = day + Days(f)]
  OBVIOUS
<1>3. policies' = [policies EXCEPT ![o] = p]
  BY <1>1, <1>2
<1>4. IsPolicy(policies[o]) /\ day + Days(f) \in Int /\ day + Days(f) <= now + Days(f)
  <2>1. Days(f) \in {1, 2} /\ now \in Nat
    BY DaysAreFew DEF PeriodInv, ArchiveTypeOK
  <2> QED BY <1>1, <2>1 DEF PeriodInv, ArchiveTypeOK
<1>5. IsPolicy(p) /\ p.frequency = policies[o].frequency /\ p.next = day + Days(f)
  BY <1>2, <1>4 DEF IsPolicy
<1>6. policies'[o] = p /\ work'[o] = Idle
  BY <1>1, <1>3 DEF PeriodInv, ArchiveTypeOK
<1>7. PeriodSound(o)'
  <2>1. work'[o].at \notin BackingUp
    BY <1>6 DEF Idle, BackingUp
  <2>2. o \notin overlapped => p.next <= now + Days(p.frequency)
    BY <1>1, <1>4, <1>5
  <2> QED BY <1>1, <1>6, <2>1, <2>2 DEF PeriodSound
<1>8. IsWork(Idle)
  BY DEF IsWork
<1> QED BY <1>1, <1>3, <1>5, <1>7, <1>8, OneOrganizationsPeriod

LEMMA ChangesPeriod ==
  ASSUME PeriodInv, NEW o \in Organizations, NEW e \in BOOLEAN, NEW f \in Frequencies,
         NEW n \in Retentions, SetPolicy(o, e, f, n)
  PROVE  PeriodInv'
<1> DEFINE p == ChangedPolicy(o, e, f, n)
<1>1. IsPolicy(policies[o]) /\ now \in Nat
  BY DEF PeriodInv, ArchiveTypeOK
<1>2. p.next \in {Never, now, policies[o].next}
  BY DEF ChangedPolicy
<1>3. p.next \in Int
  BY <1>1, <1>2 DEF IsPolicy, Never
<1>4. IsPolicy(p)
  BY <1>3 DEF IsPolicy, ChangedPolicy
<1>5. p.enabled = e /\ p.frequency = f
  BY DEF ChangedPolicy
<1>6. policies'[o] = p /\ work'[o] = work[o] /\ now' = now
  BY DEF SetPolicy, PeriodInv, ArchiveTypeOK
<1>7. work[o].at \in BackingUp => o \in overlapped'
  BY DEF SetPolicy
<1>8. ASSUME o \notin overlapped, e PROVE p.next <= now + Days(f)
  <2>1. Days(f) \in {1, 2}
    BY DaysAreFew
  <2>2. CASE \/ ~policies[o].enabled \/ policies[o].frequency # f \/ policies[o].next = Never
    <3>1. p.next = now
      BY <1>8, <2>2 DEF ChangedPolicy
    <3> QED BY <1>1, <2>1, <3>1
  <2>3. CASE ~(\/ ~policies[o].enabled \/ policies[o].frequency # f \/ policies[o].next = Never)
    <3>1. p.next = policies[o].next
      BY <1>8, <2>3 DEF ChangedPolicy
    <3> QED BY <1>8, <2>3, <3>1 DEF PeriodInv, PeriodSound
  <2> QED BY <2>2, <2>3
<1>9. overlapped \subseteq overlapped'
  BY DEF SetPolicy
<1>10. PeriodSound(o)'
  <2> HIDE DEF p
  <2>1. work[o].at \in BackingUp \ {"backup building"} => work[o].finished <= now
    BY DEF PeriodInv, PeriodSound
  <2> QED BY <1>5, <1>6, <1>7, <1>8, <1>9, <2>1 DEF PeriodSound
<1>11. policies' = [policies EXCEPT ![o] = p] /\ work' = work
  BY DEF SetPolicy
<1>12. IsWork(work[o])
  BY DEF PeriodInv, ArchiveTypeOK
<1> HIDE DEF p
<1> QED BY <1>4, <1>6, <1>9, <1>10, <1>11, <1>12, PoliciesAlone, OneOrganizationsPeriod

LEMMA TimePasses ==
  \A a, b \in Nat : a <= b =>
    /\ \A x \in Nat : x <= a => x <= b
    /\ \A x \in Int, y \in {1, 2} : x <= a + y => x <= b + y
  OBVIOUS

LEMMA RestPeriod ==
  ASSUME PeriodInv,
         \/ Tick \/ UNCHANGED vars
         \/ \E o \in Organizations : CommitCleanUp(o) \/ CutOffCleanUp(o) \/ CleanUp(o)
  PROVE  PeriodInv'
<1>1. UNCHANGED <<policies, work, overlapped>> /\ now' \in {now, now + 1}
  BY DEF Tick, vars, CommitCleanUp, CutOffCleanUp, CleanUp
<1>2. now' \in Nat /\ now <= now'
  BY <1>1 DEF PeriodInv, ArchiveTypeOK
<1>3. ASSUME NEW o \in Organizations PROVE PeriodSound(o)'
  <2>1. Days(policies[o].frequency) \in {1, 2} /\ policies[o].next \in Int /\ now \in Nat
    BY DaysAreFew DEF PeriodInv, ArchiveTypeOK, IsPolicy
  <2>2. work[o].at \in BackingUp \ {"backup building"} => work[o].finished \in Nat
    BY ShapeOfWork DEF PeriodInv
  <2>3. PeriodSound(o)
    BY DEF PeriodInv
  <2>4. work[o].at \in BackingUp \ {"backup building"} => work[o].finished <= now'
    <3> SUFFICES ASSUME work[o].at \in BackingUp \ {"backup building"}
                 PROVE  work[o].finished <= now'
      OBVIOUS
    <3>1. work[o].finished <= now
      BY <2>3 DEF PeriodSound
    <3>2. work[o].finished \in Nat
      BY <2>2
    <3> QED BY <1>2, <2>1, <3>1, <3>2, TimePasses
  <2>5. o \notin overlapped /\ policies[o].enabled =>
          policies[o].next <= now' + Days(policies[o].frequency)
    <3> SUFFICES ASSUME o \notin overlapped, policies[o].enabled
                 PROVE  policies[o].next <= now' + Days(policies[o].frequency)
      OBVIOUS
    <3>1. policies[o].next <= now + Days(policies[o].frequency)
      BY <2>3 DEF PeriodSound
    <3> QED BY <1>2, <2>1, <3>1, TimePasses
  <2> QED BY <1>1, <2>3, <2>4, <2>5 DEF PeriodSound
<1> QED BY <1>1, <1>2, <1>3 DEF PeriodInv, ArchiveTypeOK

LEMMA PeriodInvariant == Spec => []PeriodInv
<1>1. PeriodInv /\ [Next]_vars => PeriodInv'
  <2> SUFFICES ASSUME PeriodInv, [Next]_vars PROVE PeriodInv'
    OBVIOUS
  <2>1. Managed \subseteq Organizations
    BY ArchiveAssumption
  <2>2. CASE RunDue
    BY <2>2, BeginsPeriod DEF RunDue
  <2>3. CASE Tick \/ UNCHANGED vars
    BY <2>3, RestPeriod
  <2>4. ASSUME NEW o \in Organizations,
               RunStep(o) \/ CutOff(o) \/ CommitCleanUp(o) \/ CutOffCleanUp(o)
        PROVE  PeriodInv'
    BY <2>4, ExportsPeriod, BackupsPeriod, NextRunsPeriod, RestPeriod DEF RunStep
  <2>5. ASSUME NEW o \in Managed, CreateExport(o) \/ RunBackup(o) \/ CleanUp(o)
        PROVE  PeriodInv'
    BY <2>1, <2>5, BeginsPeriod, RestPeriod
  <2>6. ASSUME NEW o \in Managed,
               \E e \in BOOLEAN, f \in Frequencies, n \in Retentions : SetPolicy(o, e, f, n)
        PROVE  PeriodInv'
    BY <2>1, <2>6, ChangesPeriod
  <2> QED BY <2>2, <2>3, <2>4, <2>5, <2>6 DEF Next, Unattended, Manage
<1> QED BY InitPeriods, <1>1, PTL DEF Spec

(* However runs, failures and policy changes interleave, an enabled policy *)
(* is due within one period of its own frequency, unless it was changed    *)
(* while a backup ran that had read it before.                             *)
THEOREM NextRunsAreWithinPeriod == Spec => []NextRunWithinPeriod
<1>1. PeriodInv => NextRunWithinPeriod
  BY DEF PeriodInv, PeriodSound, NextRunWithinPeriod
<1> QED BY <1>1, PeriodInvariant, PTL
--------------------------------------------------------------------------------

\* f says where the rows of the shortened table come from, each from its own.
Chooses(f, table, numbers) ==
    /\ f \in [1..Cardinality(numbers) -> numbers]
    /\ \A n \in 1..Cardinality(numbers) : Only(table, numbers)[n] = table[f[n]]
    /\ \A m, n \in 1..Cardinality(numbers) : f[m] = f[n] => m = n
    /\ \A i \in numbers : \E n \in 1..Cardinality(numbers) : f[n] = i

(* Only leaves each of the chosen rows once, whatever the others are.      *)
LEMMA OnlyChosenRemain ==
  ASSUME NEW table, NEW numbers, IsFiniteSet(numbers), numbers \subseteq Nat
  PROVE  /\ DOMAIN Only(table, numbers) = 1..Cardinality(numbers)
         /\ Cardinality(numbers) \in Nat
         /\ \E f : Chooses(f, table, numbers)
<1> DEFINE size == Cardinality(numbers)
           UpTo(i) == {j \in numbers : j <= i}
           place == [i \in numbers |-> Cardinality(UpTo(i))]
<1>1. size \in Nat
  BY FS_CardinalityType
<1>2. ASSUME NEW i \in numbers PROVE IsFiniteSet(UpTo(i)) /\ place[i] \in 1..size
  <2>1. UpTo(i) \subseteq numbers /\ i \in UpTo(i)
    OBVIOUS
  <2>2. IsFiniteSet(UpTo(i)) /\ Cardinality(UpTo(i)) <= size /\ Cardinality(UpTo(i)) \in Nat
    BY <2>1, FS_Subset, FS_CardinalityType
  <2>3. Cardinality(UpTo(i)) # 0
    BY <2>1, <2>2, FS_EmptySet
  <2> QED BY <1>1, <2>2, <2>3
<1>3. ASSUME NEW i \in numbers, NEW k \in numbers, place[i] = place[k] PROVE i = k
  <2>1. ASSUME NEW a \in numbers, NEW b \in numbers, a < b PROVE place[a] # place[b]
    <3>1. UpTo(a) \subseteq UpTo(b) /\ b \in UpTo(b) /\ b \notin UpTo(a)
      <4>1. \A x, y, z \in Nat : x <= y /\ y < z => x <= z /\ z <= z /\ ~(z <= y)
        OBVIOUS
      <4>2. a \in Nat /\ b \in Nat
        OBVIOUS
      <4>3. \A j \in numbers : j <= a => j <= b
        BY <2>1, <4>1, <4>2
      <4>4. b <= b /\ ~(b <= a)
        BY <2>1, <4>2
      <4> QED BY <4>3, <4>4
    <3>2. Cardinality(UpTo(a)) # Cardinality(UpTo(b))
      <4> HIDE DEF UpTo
      <4> QED BY <1>2, <3>1, FS_Subset
    <3> QED BY <3>2
  <2>2. i < k \/ k < i \/ i = k
    OBVIOUS
  <2> QED BY <1>3, <2>1, <2>2
<1>4. place \in Injection(numbers, 1..size)
  <2>1. place \in [numbers -> 1..size]
    BY <1>2
  <2> HIDE DEF place
  <2> QED BY <1>3, <2>1 DEF Injection, IsInjective
<1>5. place \in Surjection(numbers, 1..size)
  <2>1. IsFiniteSet(1..size) /\ Cardinality(1..size) = size
    BY <1>1, FS_Interval
  <2> HIDE DEF place
  <2> QED BY <1>4, <2>1, FS_Injection
<1> DEFINE f == [n \in 1..size |-> CHOOSE i \in numbers : Cardinality(UpTo(i)) = n]
<1>6. ASSUME NEW n \in 1..size PROVE f[n] \in numbers /\ place[f[n]] = n
  <2>1. \E i \in numbers : place[i] = n
    <3> HIDE DEF place
    <3> QED BY <1>5 DEF Surjection
  <2> QED BY <2>1
<1>7. f \in [1..size -> numbers]
  BY <1>6
<1>8. \A n \in 1..size : Only(table, numbers)[n] = table[f[n]]
  BY DEF Only
<1>9. \A m, n \in 1..size : f[m] = f[n] => m = n
  <2> HIDE DEF f, place
  <2> QED BY <1>6
<1>10. ASSUME NEW i \in numbers PROVE \E n \in 1..size : f[n] = i
  <2>1. place[i] \in 1..size
    BY <1>2
  <2>2. f[place[i]] \in numbers /\ place[f[place[i]]] = place[i]
    <3> HIDE DEF f, place
    <3> QED BY <1>6, <2>1
  <2> HIDE DEF f, place
  <2> QED BY <1>3, <2>1, <2>2
<1>11. DOMAIN Only(table, numbers) = 1..size
  BY DEF Only
<1>12. Chooses(f, table, numbers)
  <2> HIDE DEF f
  <2> QED BY <1>7, <1>8, <1>9, <1>10 DEF Chooses
<1> HIDE DEF f
<1> QED BY <1>1, <1>11, <1>12

Row == [kind: {"export", "backup"}, status: {"running", "completed", "failed", "expired"},
        key: BOOLEAN, finished: Nat, stored: BOOLEAN, held: SUBSET {"retention", "cleanup"},
        cause: {"none", "refused", "cut off", "retention lost", "cleanup lost"}]

\* A row, while the run of its organization is at this place: retention holds
\* rows within its transaction only, the cleanup may hold them at any time, and
\* a completed backup without archive has somebody or something to blame.
RowSound(row, place) ==
    /\ row \in Row
    /\ row.status = "running" => row.held = {} /\ row.key = TRUE
    /\ "retention" \in row.held => place = "backup retired" /\ row.stored = FALSE
    /\ row.stored = TRUE =>
          \/ "cleanup" \notin row.held /\ row.key = TRUE /\ row.status # "expired"
          \/ row.kind = "export" /\ row.cause = "refused"
    /\ row.kind = "backup" /\ row.status = "completed" =>
          \/ row.stored = TRUE \/ row.held # {}
          \/ row.cause \in {"retention lost", "cleanup lost"}

\* The row of the run at this place.  Before retention deletes an old archive
\* the new one is stored.
AtWork(row, place) ==
    /\ row.status = "running" /\ row.cause # "cut off"
    /\ row.kind = IF place \in Exporting THEN "export" ELSE "backup"
    /\ place \in BackingUp \ {"backup building"} => row.stored = TRUE

TableSound(table, place) ==
    /\ table \in Seq(Row)
    /\ \A i \in DOMAIN table : RowSound(table[i], place)
    /\ \A i, j \in DOMAIN table :
          table[i].status = "running" /\ table[j].status = "running" => i = j
    /\ place # "idle" => \E i \in DOMAIN table : AtWork(table[i], place)

TablesSound ==
    /\ rows = [o \in Organizations |-> rows[o]]
    /\ \A o \in Organizations : TableSound(rows[o], work[o].at)

LEMMA OwnIsAtWork ==
  ASSUME NEW o \in Organizations, TableSound(rows[o], work[o].at), work[o].at # "idle"
  PROVE  /\ Own(o) \in DOMAIN rows[o] /\ AtWork(rows[o][Own(o)], work[o].at)
         /\ \A i \in DOMAIN rows[o] : rows[o][i].status = "running" => i = Own(o)
<1>1. PICK i \in DOMAIN rows[o] : AtWork(rows[o][i], work[o].at)
  BY DEF TableSound
<1>2. /\ Own(o) \in DOMAIN rows[o]
      /\ rows[o][Own(o)].status = "running" /\ rows[o][Own(o)].cause # "cut off"
  BY <1>1 DEF Own, AtWork
<1>3. Own(o) = i
  BY <1>1, <1>2 DEF TableSound, AtWork
<1> QED BY <1>1, <1>2, <1>3 DEF TableSound

\* Rows change in their places; at most the row of the run is running.
LEMMA ChangedTable ==
  ASSUME NEW table, NEW place, TableSound(table, place), NEW new, NEW next,
         new = [i \in DOMAIN table |-> new[i]],
         \A i \in DOMAIN table : RowSound(new[i], next),
         \A i \in DOMAIN table : new[i].status = "running" => table[i].status = "running",
         next # "idle" => \E i \in DOMAIN table : AtWork(new[i], next)
  PROVE  TableSound(new, next)
<1>1. Len(table) \in Nat /\ DOMAIN table = 1..Len(table)
  BY DEF TableSound
<1>2. DOMAIN new = DOMAIN table
  OBVIOUS
<1>3. new \in [1..Len(table) -> Row]
  BY <1>1 DEF RowSound
<1>4. new \in Seq(Row)
  BY <1>1, <1>3
<1> QED BY <1>2, <1>4 DEF TableSound

LEMMA ShortenedTable ==
  ASSUME NEW table, NEW place, TableSound(table, place), NEW numbers \in SUBSET DOMAIN table,
         place # "idle" => \E i \in numbers : AtWork(table[i], place)
  PROVE  TableSound(Only(table, numbers), place)
<1>1. Len(table) \in Nat /\ DOMAIN table = 1..Len(table)
  BY DEF TableSound
<1>2. IsFiniteSet(1..Len(table))
  BY <1>1, FS_Interval
<1>3. IsFiniteSet(numbers)
  BY <1>1, <1>2, FS_Subset
<1>4. numbers \subseteq Nat
  BY <1>1
<1>5. PICK f : Chooses(f, table, numbers)
  BY <1>3, <1>4, OnlyChosenRemain
<1> DEFINE new == Only(table, numbers)
           size == Cardinality(numbers)
<1>6. size \in Nat /\ DOMAIN new = 1..size
  BY <1>3, <1>4, OnlyChosenRemain
<1>7. new = [n \in 1..size |-> new[n]]
  BY DEF Only
<1>8. \A n \in 1..size : f[n] \in DOMAIN table /\ new[n] = table[f[n]]
  BY <1>5 DEF Chooses
<1>9. \A m, n \in 1..size : f[m] = f[n] => m = n
  BY <1>5 DEF Chooses
<1>10. \A i \in numbers : \E n \in 1..size : f[n] = i
  BY <1>5 DEF Chooses
<1> HIDE DEF new, size
<1>11. new \in Seq(Row)
  <2>1. \A i \in DOMAIN table : table[i] \in Row
    BY DEF TableSound, RowSound
  <2>2. new \in [1..size -> Row]
    BY <1>7, <1>8, <2>1
  <2> QED BY <1>6, <2>2
<1>12. \A n \in DOMAIN new : RowSound(new[n], place)
  BY <1>6, <1>8 DEF TableSound
<1>13. ASSUME NEW m \in DOMAIN new, NEW n \in DOMAIN new,
              new[m].status = "running", new[n].status = "running"
       PROVE  m = n
  <2>1. f[m] = f[n]
    BY <1>6, <1>8, <1>13 DEF TableSound
  <2> QED BY <1>6, <1>9, <2>1
<1>14. place # "idle" => \E n \in DOMAIN new : AtWork(new[n], place)
  <2> SUFFICES ASSUME place # "idle" PROVE \E n \in DOMAIN new : AtWork(new[n], place)
    OBVIOUS
  <2>1. PICK i \in numbers : AtWork(table[i], place)
    OBVIOUS
  <2>2. PICK n \in 1..size : f[n] = i
    BY <1>10
  <2> QED BY <1>6, <1>8, <2>1, <2>2
<1>15. TableSound(new, place)
  BY <1>11, <1>12, <1>13, <1>14 DEF TableSound
<1> QED BY <1>15 DEF new

\* Unless retention is between its deletions and its commit, a table is sound
\* without a run.
LEMMA RunLeaves ==
  ASSUME NEW table, NEW place, TableSound(table, place), place # "backup retired"
  PROVE  TableSound(table, "idle")
<1>1. \A i \in DOMAIN table : RowSound(table[i], "idle")
  BY DEF TableSound, RowSound
<1> QED BY <1>1 DEF TableSound

\* A step of one organization.
LEMMA OneOrganizationsTable ==
  ASSUME TablesSound, NEW o \in Organizations, NEW table,
         rows' = [rows EXCEPT ![o] = table],
         \A u \in Organizations \ {o} : work'[u] = work[u],
         TableSound(table, work'[o].at)
  PROVE  TablesSound'
<1>1. rows' = [u \in Organizations |-> rows'[u]]
  BY DEF TablesSound
<1>2. rows'[o] = table
  BY DEF TablesSound
<1>3. ASSUME NEW u \in Organizations PROVE TableSound(rows'[u], work'[u].at)
  <2>1. CASE u = o
    BY <1>2, <2>1
  <2>2. CASE u # o
    <3>1. rows'[u] = rows[u] /\ work'[u] = work[u]
      BY <2>2 DEF TablesSound
    <3> QED BY <3>1 DEF TablesSound
  <2> QED BY <2>1, <2>2
<1> QED BY <1>1, <1>3 DEF TablesSound

\* Where the run of an organization is after a step of its own.
LEMMA WorkMoves ==
  ASSUME ArchiveTypeOK, NEW o \in Organizations, NEW w, work' = [work EXCEPT ![o] = w]
  PROVE  work'[o] = w /\ \A u \in Organizations \ {o} : work'[u] = work[u]
BY DEF ArchiveTypeOK

LEMMA RunEnds ==
  ASSUME ArchiveTypeOK, NEW o \in Organizations, work' = [work EXCEPT ![o] = Idle]
  PROVE  work'[o].at = "idle" /\ \A u \in Organizations \ {o} : work'[u] = work[u]
<1>1. Idle.at = "idle"
  BY DEF Idle
<1> QED BY <1>1, WorkMoves

\* The running row becomes another one.
LEMMA RunningRowChanges ==
  ASSUME NEW table, NEW place, TableSound(table, place), place # "backup retired",
         NEW k \in DOMAIN table, table[k].status = "running",
         NEW row, NEW next, RowSound(row, next), next # "idle" => AtWork(row, next)
  PROVE  TableSound([table EXCEPT ![k] = row], next)
<1> DEFINE new == [table EXCEPT ![k] = row]
<1>1. \A i \in DOMAIN table : table[i].status = "running" => i = k
  BY DEF TableSound
<1>2. new[k] = row /\ \A i \in DOMAIN table : i # k => new[i] = table[i]
  OBVIOUS
<1>3. new = [i \in DOMAIN table |-> new[i]]
  OBVIOUS
<1> HIDE DEF new
<1>4. ASSUME NEW i \in DOMAIN table
      PROVE  RowSound(new[i], next) /\ (new[i].status = "running" => table[i].status = "running")
  <2>1. CASE i = k
    BY <1>2, <2>1
  <2>2. CASE i # k
    <3>1. new[i] = table[i] /\ RowSound(table[i], place)
      BY <1>2, <2>2 DEF TableSound
    <3> QED BY <3>1 DEF RowSound
  <2> QED BY <2>1, <2>2
<1>5. next # "idle" => \E i \in DOMAIN table : AtWork(new[i], next)
  BY <1>2
<1>6. TableSound(new, next)
  BY <1>3, <1>4, <1>5, ChangedTable
<1> QED BY <1>6 DEF new

LEMMA OwnChanges ==
  ASSUME NEW o \in Organizations, TableSound(rows[o], work[o].at), work[o].at # "idle",
         work[o].at # "backup retired", NEW row, NEW next,
         RowSound(row, next), next # "idle" => AtWork(row, next)
  PROVE  TableSound([rows[o] EXCEPT ![Own(o)] = row], next)
<1>1. Own(o) \in DOMAIN rows[o] /\ rows[o][Own(o)].status = "running"
  BY OwnIsAtWork DEF AtWork
<1> QED BY <1>1, RunningRowChanges

LEMMA InitTables == Init => TablesSound
<1> SUFFICES ASSUME Init PROVE TablesSound
  OBVIOUS
<1>1. rows = [o \in Organizations |-> rows[o]]
  BY DEF Init
<1>2. ASSUME NEW o \in Organizations PROVE TableSound(rows[o], work[o].at)
  <2>1. rows[o] = <<>> /\ work[o].at = "idle"
    BY DEF Init, Idle
  <2>2. rows[o] \in Seq(Row) /\ DOMAIN rows[o] = {}
    BY <2>1
  <2> QED BY <2>1, <2>2 DEF TableSound
<1> QED BY <1>1, <1>2 DEF TablesSound

\* A new row at the end, the only running one.
LEMMA AppendedTable ==
  ASSUME NEW table, NEW place, TableSound(table, place), NEW row, NEW next,
         \A i \in DOMAIN table : table[i].status # "running",
         RowSound(row, next), AtWork(row, next)
  PROVE  TableSound(Append(table, row), next)
<1>1. \A i \in DOMAIN table : RowSound(table[i], "idle")
  <2>1. place = "idle"
    BY DEF TableSound, AtWork
  <2> QED BY <2>1 DEF TableSound
<1>2. table \in Seq(Row) /\ row \in Row
  BY DEF TableSound, RowSound
<1>3. Len(table) \in Nat /\ DOMAIN table = 1..Len(table)
  BY <1>2
<1> DEFINE new == Append(table, row)
<1>4. new \in Seq(Row) /\ DOMAIN new = 1..(Len(table) + 1)
  BY <1>2, <1>3
<1>5. new[Len(table) + 1] = row /\ \A i \in DOMAIN table : new[i] = table[i]
  BY <1>2, <1>3
<1>6. \A i \in DOMAIN new : i \in DOMAIN table \/ i = Len(table) + 1
  BY <1>3, <1>4
<1>7. Len(table) + 1 \in DOMAIN new
  BY <1>3, <1>4
<1> HIDE DEF new
<1>8. ASSUME NEW i \in DOMAIN new PROVE RowSound(new[i], next)
  <2>1. CASE i = Len(table) + 1
    BY <1>5, <2>1
  <2>2. CASE i \in DOMAIN table
    <3>1. new[i] = table[i] /\ RowSound(table[i], "idle")
      BY <1>1, <1>5, <2>2
    <3> QED BY <3>1 DEF RowSound
  <2> QED BY <1>6, <2>1, <2>2
<1>9. \A i \in DOMAIN new : new[i].status = "running" => i = Len(table) + 1
  BY <1>5, <1>6
<1>10. TableSound(new, next)
  BY <1>4, <1>5, <1>7, <1>8, <1>9 DEF TableSound
<1> QED BY <1>10 DEF new

LEMMA BeginsTable ==
  ASSUME ArchiveTypeOK, TablesSound, NEW o \in Organizations, NEW kind, NEW run,
         \/ kind = "export" /\ run.at = "export building"
         \/ kind = "backup" /\ run.at = "backup building",
         Begin(o, kind, run)
  PROVE  TablesSound'
<1>1. TableSound(rows[o], work[o].at)
  BY DEF TablesSound
<1>2. \A i \in DOMAIN rows[o] : rows[o][i].status # "running"
  BY DEF Begin, Blocked
<1>3. NewRow(kind) \in Row
  BY DEF NewRow, Row
<1>4. RowSound(NewRow(kind), run.at) /\ AtWork(NewRow(kind), run.at)
  BY <1>3 DEF RowSound, AtWork, NewRow, Exporting, BackingUp
<1>5. TableSound(Append(rows[o], NewRow(kind)), run.at)
  BY <1>1, <1>2, <1>4, AppendedTable
<1>6. work'[o] = run /\ \A u \in Organizations \ {o} : work'[u] = work[u]
  BY WorkMoves DEF Begin
<1>7. rows' = [rows EXCEPT ![o] = Append(rows[o], NewRow(kind))]
  BY DEF Begin
<1> QED BY <1>5, <1>6, <1>7, OneOrganizationsTable

LEMMA OwnIsSound ==
  ASSUME TablesSound, NEW o \in Organizations, work[o].at # "idle"
  PROVE  /\ TableSound(rows[o], work[o].at)
         /\ OwnRow(o) \in Row /\ OwnRow(o).status = "running" /\ OwnRow(o).held = {}
         /\ OwnRow(o).key = TRUE /\ OwnRow(o).cause # "cut off"
         /\ RowSound(OwnRow(o), work[o].at) /\ AtWork(OwnRow(o), work[o].at)
<1>1. TableSound(rows[o], work[o].at)
  BY DEF TablesSound
<1>2. Own(o) \in DOMAIN rows[o] /\ AtWork(OwnRow(o), work[o].at)
  BY <1>1, OwnIsAtWork DEF OwnRow
<1>3. RowSound(OwnRow(o), work[o].at)
  BY <1>1, <1>2 DEF TableSound, OwnRow
<1> QED BY <1>1, <1>2, <1>3 DEF RowSound, AtWork

\* The archive of the run is stored.
LEMMA StoresTable ==
  ASSUME ArchiveTypeOK, TablesSound, NEW o \in Organizations, StoreExport(o) \/ StoreBackup(o)
  PROVE  TablesSound'
<1> DEFINE row == [OwnRow(o) EXCEPT !.stored = TRUE]
           next == IF work[o].at = "export building" THEN "export stored" ELSE "backup stored"
<1>1. work[o].at \in {"export building", "backup building"}
  BY DEF StoreExport, StoreBackup
<1>2. /\ OwnRow(o) \in Row /\ OwnRow(o).status = "running" /\ OwnRow(o).held = {}
      /\ OwnRow(o).key = TRUE /\ OwnRow(o).cause # "cut off"
      /\ AtWork(OwnRow(o), work[o].at) /\ TableSound(rows[o], work[o].at)
  BY <1>1, OwnIsSound
<1>3. /\ row \in Row /\ row.status = "running" /\ row.held = {} /\ row.key = TRUE
      /\ row.cause # "cut off" /\ row.stored = TRUE /\ row.kind = OwnRow(o).kind
  BY <1>2 DEF Row
<1> HIDE DEF row
<1>4. RowSound(row, next) /\ AtWork(row, next)
  BY <1>1, <1>2, <1>3 DEF RowSound, AtWork, Exporting, BackingUp
<1>5. rows' = [rows EXCEPT ![o] = [rows[o] EXCEPT ![Own(o)] = row]]
  BY DEF StoreExport, StoreBackup, row, OwnRow
<1>6. work'[o].at = next /\ \A u \in Organizations \ {o} : work'[u] = work[u]
  <2>1. CASE StoreExport(o)
    <3>1. work[o] \in [at: Exporting]
      BY <2>1, ShapeOfWork DEF StoreExport, Exporting
    <3>2. [work[o] EXCEPT !.at = "export stored"].at = "export stored"
      BY <3>1
    <3>3. work' = [work EXCEPT ![o] = [work[o] EXCEPT !.at = "export stored"]]
      BY <2>1 DEF StoreExport
    <3> QED BY <2>1, <3>2, <3>3, WorkMoves DEF StoreExport
  <2>2. CASE StoreBackup(o)
    <3>1. work[o] \in [at: BackingUp, finished: Nat, frequency: Frequencies,
                       retention: {work[o].retention}]
      BY <2>2, ShapeOfWork DEF StoreBackup, BackingUp
    <3>2. [work[o] EXCEPT !.at = "backup stored", !.finished = now].at = "backup stored"
      BY <3>1
    <3>3. work' = [work EXCEPT ![o] = [work[o] EXCEPT !.at = "backup stored", !.finished = now]]
      BY <2>2 DEF StoreBackup
    <3> QED BY <2>2, <3>2, <3>3, WorkMoves DEF StoreBackup
  <2> QED BY <2>1, <2>2
<1>7. TableSound([rows[o] EXCEPT ![Own(o)] = row], next)
  BY <1>1, <1>2, <1>4, OwnChanges
<1> QED BY <1>5, <1>6, <1>7, OneOrganizationsTable

LEMMA CompletesExport ==
  ASSUME ArchiveTypeOK, TablesSound, NEW o \in Organizations, CompleteExport(o)
  PROVE  TablesSound'
<1> DEFINE row == [OwnRow(o) EXCEPT !.status = "completed", !.finished = now]
<1>1. work[o].at = "export stored"
  BY DEF CompleteExport
<1>2. /\ OwnRow(o) \in Row /\ OwnRow(o).held = {} /\ OwnRow(o).key = TRUE
      /\ AtWork(OwnRow(o), work[o].at) /\ TableSound(rows[o], work[o].at)
  BY <1>1, OwnIsSound
<1>3. OwnRow(o).kind = "export"
  BY <1>1, <1>2 DEF AtWork, Exporting
<1>4. now \in Nat
  BY DEF ArchiveTypeOK
<1>5. /\ row \in Row /\ row.status = "completed" /\ row.held = {} /\ row.key = TRUE
      /\ row.kind = "export"
  BY <1>2, <1>3, <1>4 DEF Row
<1> HIDE DEF row
<1>6. RowSound(row, "idle")
  BY <1>5 DEF RowSound
<1>7. rows' = [rows EXCEPT ![o] = [rows[o] EXCEPT ![Own(o)] = row]]
  BY DEF CompleteExport, row, OwnRow
<1>8. work'[o].at = "idle" /\ \A u \in Organizations \ {o} : work'[u] = work[u]
  BY RunEnds DEF CompleteExport
<1>9. TableSound([rows[o] EXCEPT ![Own(o)] = row], "idle")
  BY <1>1, <1>2, <1>6, OwnChanges
<1> QED BY <1>7, <1>8, <1>9, OneOrganizationsTable

\* A failed run leaves no row, or a failed one whose archive stayed.
LEMMA FailsTable ==
  ASSUME ArchiveTypeOK, TablesSound, NEW o \in Organizations, FailExport(o) \/ FailBackup(o)
  PROVE  TablesSound'
<1>1. work[o].at # "idle" /\ work[o].at # "backup retired"
  BY DEF FailExport, FailBackup, Exporting, BackingUp
<1>2. /\ OwnRow(o) \in Row /\ OwnRow(o).held = {} /\ OwnRow(o).key = TRUE
      /\ AtWork(OwnRow(o), work[o].at) /\ TableSound(rows[o], work[o].at)
  BY <1>1, OwnIsSound
<1>3. now \in Nat
  BY DEF ArchiveTypeOK
<1>4. work'[o].at = "idle" /\ \A u \in Organizations \ {o} : work'[u] = work[u]
  BY RunEnds DEF FailExport, FailBackup
<1>5. ASSUME NEW row, FailOwn(o, row),
             RowSound([row EXCEPT !.cause = "refused"], "idle")
      PROVE  TablesSound'
  <2>1. CASE rows' = [rows EXCEPT ![o] = WithoutOwn(o)]
    <3>1. TableSound(rows[o], "idle")
      BY <1>1, <1>2, RunLeaves
    <3>2. TableSound(WithoutOwn(o), "idle")
      BY <3>1, ShortenedTable DEF WithoutOwn
    <3> QED BY <1>4, <2>1, <3>2, OneOrganizationsTable
  <2>2. CASE rows' = [rows EXCEPT ![o][Own(o)] = [row EXCEPT !.cause = "refused"]]
    <3> DEFINE new == [row EXCEPT !.cause = "refused"]
    <3>1. rows' = [rows EXCEPT ![o] = [rows[o] EXCEPT ![Own(o)] = new]]
      BY <2>2
    <3> HIDE DEF new
    <3>2. RowSound(new, "idle")
      BY <1>5 DEF new
    <3>3. TableSound([rows[o] EXCEPT ![Own(o)] = new], "idle")
      BY <1>1, <1>2, <3>2, OwnChanges
    <3> QED BY <1>4, <3>1, <3>3, OneOrganizationsTable
  <2> QED BY <1>5, <2>1, <2>2 DEF FailOwn
<1>6. CASE FailExport(o)
  <2> DEFINE row == [OwnRow(o) EXCEPT !.status = "failed", !.finished = now, !.key = FALSE]
             new == [row EXCEPT !.cause = "refused"]
  <2>1. OwnRow(o).kind = "export"
    BY <1>2, <1>6 DEF FailExport, AtWork
  <2>2. /\ new \in Row /\ new.status = "failed" /\ new.held = {} /\ new.kind = "export"
        /\ new.cause = "refused"
    BY <1>2, <1>3, <2>1 DEF Row
  <2>3. RowSound(new, "idle")
    <3> HIDE DEF new
    <3> QED BY <2>2 DEF RowSound
  <2> QED BY <1>5, <1>6, <2>3 DEF FailExport
<1>7. CASE FailBackup(o)
  <2> DEFINE row == [OwnRow(o) EXCEPT !.status = "failed", !.finished = now]
             new == [row EXCEPT !.cause = "refused"]
  <2>1. /\ new \in Row /\ new.status = "failed" /\ new.held = {} /\ new.key = TRUE
    BY <1>2, <1>3 DEF Row
  <2>2. RowSound(new, "idle")
    <3> HIDE DEF new
    <3> QED BY <2>1 DEF RowSound
  <2> QED BY <1>5, <1>7, <2>2 DEF FailBackup
<1> QED BY <1>6, <1>7

\* A row whose archive a step has deleted.
LEMMA TakenRow ==
  ASSUME NEW row, NEW place, NEW next, NEW by \in {"retention", "cleanup"},
         RowSound(row, place), row.status \in {"completed", "failed"},
         by = "retention" => row.kind = "backup" /\ next = "backup retired",
         "retention" \in row.held => next = "backup retired"
  PROVE  RowSound([row EXCEPT !.stored = @ /\ ~row.key, !.held = @ \cup {by}], next)
<1> DEFINE new == [row EXCEPT !.stored = @ /\ ~row.key, !.held = @ \cup {by}]
<1>1. row \in Row /\ row.stored \in BOOLEAN /\ row.key \in BOOLEAN
  BY DEF RowSound, Row
<1>2. /\ new.status = row.status /\ new.kind = row.kind /\ new.cause = row.cause
      /\ new.key = row.key /\ new.held = row.held \cup {by}
  BY <1>1 DEF Row
<1>3. new.stored = (row.stored /\ ~row.key)
  BY <1>1 DEF Row
<1>4. new \in Row
  <2>1. (row.stored /\ ~row.key) \in BOOLEAN
    BY <1>1
  <2>2. row.held \cup {by} \in SUBSET {"retention", "cleanup"}
    BY <1>1 DEF Row
  <2> QED BY <1>1, <2>1, <2>2 DEF Row
<1> HIDE DEF new
<1>5. new.stored = TRUE => row.stored = TRUE /\ row.key = FALSE
  <2>1. CASE row.key = TRUE
    BY <1>3, <2>1
  <2>2. CASE row.key = FALSE
    BY <1>3, <2>2
  <2> QED BY <1>1, <2>1, <2>2
<1>6. new.stored = TRUE => row.kind = "export" /\ row.cause = "refused"
  BY <1>5 DEF RowSound
<1>7. new.stored \in BOOLEAN
  BY <1>4 DEF Row
<1>8. "retention" \in new.held => next = "backup retired" /\ new.stored = FALSE
  <2>1. "retention" \in row.held => row.stored = FALSE
    BY DEF RowSound
  <2> QED BY <1>2, <1>5, <1>6, <1>7, <2>1
<1>9. RowSound(new, next)
  BY <1>2, <1>4, <1>6, <1>8 DEF RowSound
<1> QED BY <1>9 DEF new

\* Steps of a run within its backup.
LEMMA BackupMoves ==
  ASSUME ArchiveTypeOK, NEW o \in Organizations, work[o].at \in BackingUp, NEW place,
         work' = [work EXCEPT ![o].at = place]
  PROVE  work'[o].at = place /\ \A u \in Organizations \ {o} : work'[u] = work[u]
<1>1. work[o] \in [at: BackingUp, finished: Nat, frequency: Frequencies,
                   retention: {work[o].retention}]
  BY ShapeOfWork
<1>2. [work[o] EXCEPT !.at = place].at = place
  BY <1>1
<1>3. work' = [work EXCEPT ![o] = [work[o] EXCEPT !.at = place]]
  OBVIOUS
<1> QED BY <1>2, <1>3, WorkMoves

\* Retention deletes archives of completed backups: it holds their rows until
\* its commit.
LEMMA RetiresTable ==
  ASSUME ArchiveTypeOK, TablesSound, NEW o \in Organizations, Retire(o)
  PROVE  TablesSound'
<1>1. work[o].at = "backup stored" /\ work[o].at # "idle" /\ work[o].at \in BackingUp
  BY DEF Retire, BackingUp
<1>2. TableSound(rows[o], work[o].at) /\ AtWork(OwnRow(o), work[o].at)
  BY <1>1, OwnIsSound
<1>3. Own(o) \in DOMAIN rows[o]
  BY <1>1, <1>2, OwnIsAtWork
<1>4. PICK old \in SUBSET Shelf(o) :
        rows' = [rows EXCEPT ![o] = Taken(rows[o], old, "retention")]
  BY DEF Retire, Expiring
<1> DEFINE new == Taken(rows[o], old, "retention")
<1>5. \A i \in DOMAIN rows[o] : i \notin old => new[i] = rows[o][i]
  BY DEF Taken
<1>6. ASSUME NEW i \in old
      PROVE  RowSound(new[i], "backup retired") /\ new[i].status # "running"
  <2>1. /\ RowSound(rows[o][i], "backup stored") /\ rows[o][i].status = "completed"
        /\ rows[o][i].kind = "backup" /\ i \in DOMAIN rows[o]
    BY <1>1, <1>2 DEF Shelf, TableSound
  <2>2. new[i] = [rows[o][i] EXCEPT !.stored = @ /\ ~rows[o][i].key,
                                    !.held = @ \cup {"retention"}]
    BY <2>1 DEF Taken
  <2>3. RowSound(new[i], "backup retired")
    BY <2>1, <2>2, TakenRow
  <2>4. new[i].status = "completed"
    BY <2>1, <2>2 DEF RowSound, Row
  <2> QED BY <2>3, <2>4
<1>7. \A i \in DOMAIN rows[o] : RowSound(rows[o][i], "backup retired")
  BY <1>1, <1>2 DEF TableSound, RowSound
<1>8. Own(o) \notin old /\ AtWork(rows[o][Own(o)], "backup retired")
  BY <1>1, <1>2 DEF Shelf, AtWork, OwnRow, BackingUp, Exporting
<1>9. new = [i \in DOMAIN rows[o] |-> new[i]]
  BY DEF Taken
<1> HIDE DEF new
<1>10. TableSound(new, "backup retired")
  <2>1. \A i \in DOMAIN rows[o] : RowSound(new[i], "backup retired")
    BY <1>5, <1>6, <1>7
  <2>2. \A i \in DOMAIN rows[o] : new[i].status = "running" => rows[o][i].status = "running"
    BY <1>5, <1>6
  <2>3. \E i \in DOMAIN rows[o] : AtWork(new[i], "backup retired")
    BY <1>3, <1>5, <1>8
  <2> QED BY <1>2, <1>9, <2>1, <2>2, <2>3, ChangedTable
<1>11. work'[o].at = "backup retired" /\ \A u \in Organizations \ {o} : work'[u] = work[u]
  BY <1>1, BackupMoves DEF Retire
<1> QED BY <1>4, <1>10, <1>11, OneOrganizationsTable DEF new

\* A refused deletion leaves some completed backups without archive.
LEMMA RetireFailsTable ==
  ASSUME ArchiveTypeOK, TablesSound, NEW o \in Organizations, RetireFails(o)
  PROVE  TablesSound'
<1> DEFINE Deleted(row) == [row EXCEPT !.stored = FALSE, !.cause = "retention lost"]
<1>1. work[o].at = "backup stored" /\ work[o].at # "idle" /\ work[o].at \in BackingUp
  BY DEF RetireFails, BackingUp
<1>2. TableSound(rows[o], work[o].at) /\ AtWork(OwnRow(o), work[o].at)
  BY <1>1, OwnIsSound
<1>3. Own(o) \in DOMAIN rows[o]
  BY <1>1, <1>2, OwnIsAtWork
<1>4. PICK gone \in SUBSET Shelf(o) :
        rows' = [rows EXCEPT ![o] = [i \in DOMAIN rows[o] |->
                    IF i \in gone THEN Deleted(rows[o][i]) ELSE rows[o][i]]]
  BY DEF RetireFails, Expiring
<1> DEFINE new == [i \in DOMAIN rows[o] |->
                      IF i \in gone THEN Deleted(rows[o][i]) ELSE rows[o][i]]
<1>5. \A i \in DOMAIN rows[o] : i \notin gone => new[i] = rows[o][i]
  OBVIOUS
<1>6. ASSUME NEW i \in gone
      PROVE  RowSound(new[i], "backup failing") /\ new[i].status # "running"
  <2>1. /\ RowSound(rows[o][i], "backup stored") /\ rows[o][i].status = "completed"
        /\ rows[o][i].kind = "backup" /\ i \in DOMAIN rows[o]
    BY <1>1, <1>2 DEF Shelf, TableSound
  <2>2. new[i] = Deleted(rows[o][i])
    BY <2>1
  <2>3. rows[o][i] \in Row /\ "retention" \notin rows[o][i].held
    BY <2>1 DEF RowSound
  <2>4. /\ new[i] \in Row /\ new[i].stored = FALSE /\ new[i].cause = "retention lost"
        /\ new[i].status = "completed" /\ new[i].held = rows[o][i].held
    BY <2>1, <2>2, <2>3 DEF Row
  <2> HIDE DEF new
  <2> QED BY <2>3, <2>4 DEF RowSound
<1>7. \A i \in DOMAIN rows[o] : RowSound(rows[o][i], "backup failing")
  BY <1>1, <1>2 DEF TableSound, RowSound
<1>8. Own(o) \notin gone /\ AtWork(rows[o][Own(o)], "backup failing")
  BY <1>1, <1>2 DEF Shelf, AtWork, OwnRow, BackingUp, Exporting
<1>9. new = [i \in DOMAIN rows[o] |-> new[i]]
  OBVIOUS
<1>10. rows' = [rows EXCEPT ![o] = new]
  BY <1>4
<1> HIDE DEF new
<1>11. TableSound(new, "backup failing")
  <2>1. \A i \in DOMAIN rows[o] : RowSound(new[i], "backup failing")
    BY <1>5, <1>6, <1>7
  <2>2. \A i \in DOMAIN rows[o] : new[i].status = "running" => rows[o][i].status = "running"
    BY <1>5, <1>6
  <2>3. \E i \in DOMAIN rows[o] : AtWork(new[i], "backup failing")
    BY <1>3, <1>5, <1>8
  <2> QED BY <1>2, <1>9, <2>1, <2>2, <2>3, ChangedTable, ZenonT(30)
<1>12. work'[o].at = "backup failing" /\ \A u \in Organizations \ {o} : work'[u] = work[u]
  BY <1>1, BackupMoves DEF RetireFails
<1> QED BY <1>10, <1>11, <1>12, OneOrganizationsTable

\* A row that a step held, once its commit is done.
ExpiredRow(row, by) == [row EXCEPT !.status = "expired", !.key = FALSE, !.held = @ \ {by}]

\* And when the step is cut off.
ReleasedRow(row, by, cause) ==
    [row EXCEPT !.held = @ \ {by}, !.cause = IF row.stored THEN @ ELSE cause]

LEMMA RowsAfterwards ==
  ASSUME NEW row, NEW place, NEW next, NEW by, by \in {"retention", "cleanup"},
         RowSound(row, place), by \in row.held, by = "retention" \/ next = place,
         NEW cause, cause \in {"retention lost", "cleanup lost"}
  PROVE  /\ RowSound(ExpiredRow(row, by), next) /\ ExpiredRow(row, by).status = "expired"
         /\ RowSound(ReleasedRow(row, by, cause), next)
         /\ ReleasedRow(row, by, cause).status # "running"
<1> DEFINE expired == ExpiredRow(row, by)
           released == ReleasedRow(row, by, cause)
<1>1. row \in Row /\ row.status # "running" /\ row.held \ {by} \in SUBSET {"retention", "cleanup"}
  BY DEF RowSound, Row
<1>2. row.stored = TRUE => by = "cleanup" /\ row.kind = "export" /\ row.cause = "refused"
  BY DEF RowSound
<1>3. /\ expired \in Row /\ expired.status = "expired" /\ expired.held = row.held \ {by}
      /\ expired.stored = row.stored /\ expired.kind = row.kind /\ expired.cause = row.cause
  BY <1>1 DEF ExpiredRow, Row
<1>4. row.stored \in BOOLEAN
  BY <1>1 DEF Row
<1>5. (IF row.stored THEN row.cause ELSE cause) \in
          {"none", "refused", "cut off", "retention lost", "cleanup lost"}
  BY <1>1 DEF Row
<1>6. /\ released \in Row /\ released.status = row.status /\ released.held = row.held \ {by}
      /\ released.stored = row.stored /\ released.kind = row.kind
      /\ released.key = row.key
  BY <1>1, <1>5 DEF ReleasedRow, Row
<1>7. released.cause = IF row.stored THEN row.cause ELSE cause
  BY <1>1 DEF ReleasedRow, Row
<1>8. /\ row.stored = TRUE => released.cause = row.cause
      /\ row.stored = FALSE => released.cause = cause
  BY <1>7
<1> HIDE DEF expired, released
<1>9. "retention" \in row.held \ {by} => next = "backup retired" /\ row.stored = FALSE
  BY DEF RowSound
<1>10. RowSound(expired, next)
  BY <1>2, <1>3, <1>9 DEF RowSound
<1>11. RowSound(released, next)
  BY <1>1, <1>2, <1>4, <1>6, <1>8, <1>9 DEF RowSound
<1> QED BY <1>1, <1>3, <1>6, <1>10, <1>11 DEF expired, released

\* A table when a step that held rows of it is over: retention's transaction
\* is then, too, and what is left of its run is a run with its archive stored.
LEMMA TablesAfterwards ==
  ASSUME NEW table, NEW place, TableSound(table, place), NEW by, by \in {"retention", "cleanup"},
         NEW next, \/ next = place
                   \/ by = "retention" /\ place = "backup retired" /\ next = "backup stored",
         NEW cause, cause \in {"retention lost", "cleanup lost"}
  PROVE  TableSound(Expired(table, by), next) /\ TableSound(Released(table, by, cause), next)
<1> DEFINE expired == Expired(table, by)
           released == Released(table, by, cause)
<1>1. ASSUME NEW i \in DOMAIN table
      PROVE  /\ by \in table[i].held => /\ expired[i] = ExpiredRow(table[i], by)
                                        /\ released[i] = ReleasedRow(table[i], by, cause)
             /\ by \notin table[i].held => expired[i] = table[i] /\ released[i] = table[i]
  BY DEF Expired, ExpiredRow, Released, ReleasedRow
<1>2. /\ expired = [i \in DOMAIN table |-> expired[i]]
      /\ released = [i \in DOMAIN table |-> released[i]]
  BY DEF Expired, Released
<1> HIDE DEF expired, released
<1>3. ASSUME NEW i \in DOMAIN table
      PROVE  /\ RowSound(expired[i], next) /\ RowSound(released[i], next)
             /\ expired[i].status = "running" => table[i].status = "running"
             /\ released[i].status = "running" => table[i].status = "running"
  <2>1. RowSound(table[i], place)
    BY DEF TableSound
  <2>2. CASE by \in table[i].held
    <3>1. by = "retention" \/ next = place
      OBVIOUS
    <3>2. /\ RowSound(ExpiredRow(table[i], by), next)
          /\ ExpiredRow(table[i], by).status = "expired"
          /\ RowSound(ReleasedRow(table[i], by, cause), next)
          /\ ReleasedRow(table[i], by, cause).status # "running"
      BY <2>1, <2>2, <3>1, RowsAfterwards
    <3> QED BY <1>1, <2>2, <3>2
  <2>3. CASE by \notin table[i].held
    <3>1. expired[i] = table[i] /\ released[i] = table[i]
      BY <1>1, <2>3
    <3>2. RowSound(table[i], next)
      BY <2>1, <2>3 DEF RowSound
    <3> QED BY <3>1, <3>2
  <2> QED BY <2>2, <2>3
<1>4. ASSUME next # "idle"
      PROVE  \E i \in DOMAIN table : AtWork(expired[i], next) /\ AtWork(released[i], next)
  <2>1. PICK i \in DOMAIN table : AtWork(table[i], place)
    BY <1>4 DEF TableSound
  <2>2. table[i].held = {}
    BY <2>1 DEF TableSound, RowSound, AtWork
  <2>3. expired[i] = table[i] /\ released[i] = table[i]
    BY <1>1, <2>2
  <2>4. AtWork(table[i], next)
    BY <2>1 DEF AtWork, Exporting, BackingUp
  <2> QED BY <2>3, <2>4
<1>5. TableSound(expired, next)
  BY <1>2, <1>3, <1>4, ChangedTable, ZenonT(30)
<1>6. TableSound(released, next)
  BY <1>2, <1>3, <1>4, ChangedTable, ZenonT(30)
<1> QED BY <1>5, <1>6 DEF expired, released

\* The commit that completes a backup expires what retention took.
LEMMA CompletesBackup ==
  ASSUME ArchiveTypeOK, TablesSound, NEW o \in Organizations, CompleteBackup(o)
  PROVE  TablesSound'
<1> DEFINE row == [OwnRow(o) EXCEPT !.status = "completed", !.finished = work[o].finished]
           before == Expired(rows[o], "retention")
           new == Expired([rows[o] EXCEPT ![Own(o)].status = "completed",
                                          ![Own(o)].finished = work[o].finished], "retention")
<1>1. work[o].at = "backup retired" /\ work[o].at # "idle" /\ work[o].at \in BackingUp
  BY DEF CompleteBackup, BackingUp
<1>2. /\ OwnRow(o) \in Row /\ OwnRow(o).held = {} /\ OwnRow(o).key = TRUE
      /\ OwnRow(o).status = "running"
      /\ AtWork(OwnRow(o), work[o].at) /\ TableSound(rows[o], work[o].at)
  BY <1>1, OwnIsSound
<1>3. Own(o) \in DOMAIN rows[o]
  BY <1>1, <1>2, OwnIsAtWork
<1>4. TableSound(before, "backup stored")
  BY <1>1, <1>2, TablesAfterwards
<1>5. OwnRow(o).stored = TRUE /\ OwnRow(o).kind = "backup"
  BY <1>1, <1>2 DEF AtWork, BackingUp, Exporting
<1>6. work[o].finished \in Nat
  BY <1>1, ShapeOfWork
<1>7. /\ row \in Row /\ row.status = "completed" /\ row.held = {} /\ row.key = TRUE
      /\ row.stored = TRUE
  BY <1>2, <1>5, <1>6 DEF Row
<1>8. RowSound(row, "idle")
  <2> HIDE DEF row
  <2> QED BY <1>7 DEF RowSound
<1>9. Own(o) \in DOMAIN before /\ before[Own(o)] = OwnRow(o) /\ DOMAIN before = DOMAIN rows[o]
  BY <1>2, <1>3 DEF Expired, OwnRow
<1>10. TableSound([before EXCEPT ![Own(o)] = row], "idle")
  <2> HIDE DEF row, before
  <2> QED BY <1>2, <1>4, <1>8, <1>9, RunningRowChanges
<1>11. new = [before EXCEPT ![Own(o)] = row]
  <2> DEFINE table == [rows[o] EXCEPT ![Own(o)] = row]
  <2>1. new = Expired(table, "retention")
    BY DEF OwnRow
  <2>2. table[Own(o)] = row /\ \A i \in DOMAIN rows[o] : i # Own(o) => table[i] = rows[o][i]
    BY <1>3
  <2>3. DOMAIN table = DOMAIN rows[o]
    OBVIOUS
  <2> HIDE DEF row, table
  <2>4. \A i \in DOMAIN rows[o] :
          Expired(table, "retention")[i] = IF i = Own(o) THEN row ELSE before[i]
    BY <1>7, <2>2, <2>3 DEF Expired
  <2>5. Expired(table, "retention") = [i \in DOMAIN rows[o] |-> Expired(table, "retention")[i]]
    BY <2>3 DEF Expired
  <2>6. [before EXCEPT ![Own(o)] = row] =
          [i \in DOMAIN rows[o] |-> IF i = Own(o) THEN row ELSE before[i]]
    BY <1>9
  <2> QED BY <2>1, <2>4, <2>5, <2>6
<1>12. DOMAIN new = DOMAIN rows[o]
  BY DEF Expired
<1>13. rows' = [rows EXCEPT ![o] = Only(new, Left(o, "retention"))]
  BY DEF CompleteBackup
<1>14. TableSound(Only(new, Left(o, "retention")), "idle")
  <2>1. TableSound(new, "idle")
    BY <1>10, <1>11
  <2>2. Left(o, "retention") \in SUBSET DOMAIN new
    BY <1>12 DEF Left
  <2> HIDE DEF new
  <2> QED BY <2>1, <2>2, ShortenedTable
<1>15. work'[o].at = "idle" /\ \A u \in Organizations \ {o} : work'[u] = work[u]
  BY RunEnds DEF CompleteBackup
<1> QED BY <1>13, <1>14, <1>15, OneOrganizationsTable

\* The end of a process leaves its row running and what it held free.
LEMMA CutsOffTable ==
  ASSUME ArchiveTypeOK, TablesSound, NEW o \in Organizations, CutOff(o)
  PROVE  TablesSound'
<1> DEFINE row == [OwnRow(o) EXCEPT !.cause = "cut off"]
           next == IF work[o].at = "backup retired" THEN "backup stored" ELSE work[o].at
           before == Released(rows[o], "retention", "retention lost")
           table == [rows[o] EXCEPT ![Own(o)] = row]
           new == Released(table, "retention", "retention lost")
<1>1. work[o].at # "idle"
  <2>1. IsWork(work[o]) /\ work[o] # Idle
    BY DEF CutOff, ArchiveTypeOK
  <2> QED BY <2>1 DEF IsWork, Exporting, BackingUp
<1>2. /\ OwnRow(o) \in Row /\ OwnRow(o).held = {} /\ OwnRow(o).key = TRUE
      /\ OwnRow(o).status = "running"
      /\ AtWork(OwnRow(o), work[o].at) /\ TableSound(rows[o], work[o].at)
  BY <1>1, OwnIsSound
<1>3. Own(o) \in DOMAIN rows[o]
  BY <1>1, <1>2, OwnIsAtWork
<1>4. TableSound(before, next) /\ next # "backup retired"
  <2>1. CASE work[o].at = "backup retired"
    BY <1>2, <2>1, TablesAfterwards
  <2>2. CASE work[o].at # "backup retired"
    BY <1>2, <2>2, TablesAfterwards
  <2> QED BY <2>1, <2>2
<1>5. row \in Row /\ row.status = "running" /\ row.held = {} /\ row.key = TRUE
  BY <1>2 DEF Row
<1>6. RowSound(row, "idle")
  <2> HIDE DEF row
  <2> QED BY <1>5 DEF RowSound
<1>7. Own(o) \in DOMAIN before /\ before[Own(o)] = OwnRow(o) /\ DOMAIN before = DOMAIN rows[o]
  BY <1>2, <1>3 DEF Released, OwnRow
<1>8. TableSound([before EXCEPT ![Own(o)] = row], "idle")
  <2> HIDE DEF row, before, next
  <2> QED BY <1>2, <1>4, <1>6, <1>7, RunningRowChanges
<1>9. new = [before EXCEPT ![Own(o)] = row]
  <2>1. table[Own(o)] = row /\ \A i \in DOMAIN rows[o] : i # Own(o) => table[i] = rows[o][i]
    BY <1>3
  <2>2. DOMAIN table = DOMAIN rows[o]
    OBVIOUS
  <2> HIDE DEF row, table
  <2>3. \A i \in DOMAIN rows[o] : new[i] = IF i = Own(o) THEN row ELSE before[i]
    BY <1>5, <2>1, <2>2 DEF Released
  <2>4. new = [i \in DOMAIN rows[o] |-> new[i]]
    BY <2>2 DEF Released
  <2>5. [before EXCEPT ![Own(o)] = row] =
          [i \in DOMAIN rows[o] |-> IF i = Own(o) THEN row ELSE before[i]]
    BY <1>7
  <2> QED BY <2>3, <2>4, <2>5
<1>10. rows' = [rows EXCEPT ![o] = new]
  BY DEF CutOff, OwnRow
<1>11. work'[o].at = "idle" /\ \A u \in Organizations \ {o} : work'[u] = work[u]
  BY RunEnds DEF CutOff
<1> HIDE DEF new, before, row
<1> QED BY <1>8, <1>9, <1>10, <1>11, OneOrganizationsTable

\* The cleanup holds what it deletes; a row that is running is not its.
LEMMA CleansTable ==
  ASSUME TablesSound, NEW o \in Organizations, CleanUp(o)
  PROVE  TablesSound'
<1> DEFINE new == Taken(rows[o], Old(o), "cleanup")
           place == work[o].at
<1>1. TableSound(rows[o], place)
  BY DEF TablesSound
<1>2. \A i \in DOMAIN rows[o] : i \notin Old(o) => new[i] = rows[o][i]
  BY DEF Taken
<1>3. ASSUME NEW i \in Old(o)
      PROVE  RowSound(new[i], place) /\ new[i].status # "running"
  <2>1. /\ RowSound(rows[o][i], place) /\ rows[o][i].status \in {"completed", "failed"}
        /\ i \in DOMAIN rows[o]
    BY <1>1 DEF Old, TableSound
  <2>2. new[i] = [rows[o][i] EXCEPT !.stored = @ /\ ~rows[o][i].key,
                                    !.held = @ \cup {"cleanup"}]
    BY <2>1 DEF Taken
  <2>3. "retention" \in rows[o][i].held => place = "backup retired"
    BY <2>1 DEF RowSound
  <2> HIDE DEF place
  <2>4. RowSound(new[i], place)
    BY <2>1, <2>2, <2>3, TakenRow
  <2>5. new[i].status = rows[o][i].status
    BY <2>1, <2>2 DEF RowSound, Row
  <2> QED BY <2>1, <2>4, <2>5
<1>4. new = [i \in DOMAIN rows[o] |-> new[i]]
  BY DEF Taken
<1>5. \A i \in Old(o) : rows[o][i].status # "running"
  BY DEF Old
<1> HIDE DEF new
<1>6. TableSound(new, place)
  <2>1. \A i \in DOMAIN rows[o] : RowSound(new[i], place)
    BY <1>1, <1>2, <1>3 DEF TableSound
  <2>2. \A i \in DOMAIN rows[o] : new[i].status = "running" => rows[o][i].status = "running"
    BY <1>2, <1>3
  <2>3. place # "idle" => \E i \in DOMAIN rows[o] : AtWork(new[i], place)
    <3> SUFFICES ASSUME place # "idle" PROVE \E i \in DOMAIN rows[o] : AtWork(new[i], place)
      OBVIOUS
    <3>1. PICK i \in DOMAIN rows[o] : AtWork(rows[o][i], place)
      BY <1>1 DEF TableSound
    <3>2. i \notin Old(o)
      BY <1>5, <3>1 DEF AtWork
    <3> QED BY <1>2, <3>1, <3>2
  <2> HIDE DEF place
  <2> QED BY <1>1, <1>4, <2>1, <2>2, <2>3, ChangedTable
<1>7. rows' = [rows EXCEPT ![o] = new] /\ work' = work
  BY DEF CleanUp, new
<1> QED BY <1>6, <1>7, OneOrganizationsTable

\* At its end, or when it is cut off, the cleanup lets go of what it held, and
\* rows that nobody reads any more are forgotten.
LEMMA CleanUpEnds ==
  ASSUME TablesSound, NEW o \in Organizations, CommitCleanUp(o) \/ CutOffCleanUp(o)
  PROVE  TablesSound'
<1> DEFINE expired == Expired(rows[o], "cleanup")
           released == Released(rows[o], "cleanup", "cleanup lost")
<1>1. TableSound(rows[o], work[o].at)
  BY DEF TablesSound
<1>2. TableSound(expired, work[o].at) /\ TableSound(released, work[o].at)
  BY <1>1, TablesAfterwards
<1>3. ASSUME NEW i \in DOMAIN rows[o], AtWork(rows[o][i], work[o].at)
      PROVE  /\ i \in Left(o, "cleanup") /\ rows[o][i].status = "running"
             /\ expired[i] = rows[o][i] /\ released[i] = rows[o][i]
             /\ released[i].status # "failed"
  <2>1. rows[o][i].status = "running" /\ rows[o][i].held = {}
    BY <1>1, <1>3 DEF AtWork, TableSound, RowSound
  <2>2. {} # {"cleanup"}
    OBVIOUS
  <2> QED BY <2>1, <2>2 DEF Left, Expired, Released
<1>4. DOMAIN expired = DOMAIN rows[o] /\ DOMAIN released = DOMAIN rows[o]
  BY DEF Expired, Released
<1>5. Left(o, "cleanup") \subseteq DOMAIN rows[o]
  BY DEF Left
<1>6. work[o].at # "idle" => \E i \in DOMAIN rows[o] : AtWork(rows[o][i], work[o].at)
  BY <1>1 DEF TableSound
<1> HIDE DEF expired, released
<1>7. CASE CommitCleanUp(o)
  <2>1. rows' = [rows EXCEPT ![o] = Only(expired, Left(o, "cleanup"))] /\ work' = work
    BY <1>7 DEF CommitCleanUp, expired
  <2>2. work[o].at # "idle" => \E i \in Left(o, "cleanup") : AtWork(expired[i], work[o].at)
    BY <1>3, <1>6
  <2>3. TableSound(Only(expired, Left(o, "cleanup")), work[o].at)
    BY <1>2, <1>4, <1>5, <2>2, ShortenedTable
  <2> QED BY <2>1, <2>3, OneOrganizationsTable
<1>8. CASE CutOffCleanUp(o)
  <2> DEFINE numbers == {i \in DOMAIN rows[o] :
                            rows[o][i].status = "failed" => i \in Left(o, "cleanup")}
  <2>1. rows' = [rows EXCEPT ![o] = Only(released, numbers)] /\ work' = work
    BY <1>8 DEF CutOffCleanUp, released
  <2>2. work[o].at # "idle" => \E i \in numbers : AtWork(released[i], work[o].at)
    BY <1>3, <1>6
  <2>3. numbers \in SUBSET DOMAIN released
    BY <1>4
  <2> HIDE DEF numbers
  <2>4. TableSound(Only(released, numbers), work[o].at)
    BY <1>2, <2>2, <2>3, ShortenedTable
  <2> QED BY <2>1, <2>4, OneOrganizationsTable
<1> QED BY <1>7, <1>8

LEMMA StepTables == PeriodInv /\ TablesSound /\ [Next]_vars => TablesSound'
<1> SUFFICES ASSUME PeriodInv, TablesSound, [Next]_vars PROVE TablesSound'
  OBVIOUS
<1>1. ArchiveTypeOK /\ Managed \subseteq Organizations
  BY ArchiveAssumption DEF PeriodInv
<1>2. ASSUME NEW o \in Organizations, CreateExport(o) \/ RunBackup(o) PROVE TablesSound'
  <2>1. CASE CreateExport(o)
    BY <1>1, <2>1, BeginsTable DEF CreateExport
  <2>2. CASE RunBackup(o)
    BY <1>1, <2>2, BeginsTable DEF RunBackup
  <2> QED BY <1>2, <2>1, <2>2
<1>3. CASE RunDue
  BY <1>2, <1>3 DEF RunDue
<1>4. ASSUME rows' = rows, work' = work PROVE TablesSound'
  BY <1>4 DEF TablesSound
<1>5. CASE Tick \/ UNCHANGED vars
  BY <1>4, <1>5 DEF Tick, vars
<1>6. ASSUME NEW o \in Organizations, RunStep(o) PROVE TablesSound'
  BY <1>1, <1>6, StoresTable, CompletesExport, FailsTable, RetiresTable, RetireFailsTable,
     CompletesBackup DEF RunStep
<1>7. ASSUME NEW o \in Organizations, CutOff(o) \/ CommitCleanUp(o) \/ CutOffCleanUp(o)
      PROVE  TablesSound'
  BY <1>1, <1>7, CutsOffTable, CleanUpEnds
<1>8. ASSUME NEW o \in Managed, CreateExport(o) \/ RunBackup(o) \/ CleanUp(o)
      PROVE  TablesSound'
  BY <1>1, <1>2, <1>8, CleansTable
<1>9. ASSUME NEW o \in Managed,
             \E e \in BOOLEAN, f \in Frequencies, n \in Retentions : SetPolicy(o, e, f, n)
      PROVE  TablesSound'
  BY <1>4, <1>9 DEF SetPolicy
<1> QED BY <1>3, <1>5, <1>6, <1>7, <1>8, <1>9 DEF Next, Unattended, Manage

\* What sound tables say of the archives.
LEMMA SoundTablesKeep == TablesSound => ArchivesAreKept
<1> SUFFICES ASSUME TablesSound PROVE ArchivesAreKept
  OBVIOUS
<1>1. ArchivesAreReachable
  <2> SUFFICES ASSUME NEW o \in Organizations, NEW i \in DOMAIN rows[o],
                      rows[o][i].stored, ~Reachable(rows[o][i])
               PROVE  \/ rows[o][i].kind = "export" /\ rows[o][i].cause = "refused"
                      \/ /\ rows[o][i].status = "running" /\ rows[o][i].cause = "cut off"
                         /\ \A j \in DOMAIN rows[o] : rows[o][j].status = "running" => j = i
    BY DEF ArchivesAreReachable
  <2>1. RowSound(rows[o][i], work[o].at) /\ TableSound(rows[o], work[o].at)
    BY DEF TablesSound, TableSound
  <2>2. /\ rows[o][i].stored = TRUE
        /\ rows[o][i].status \in {"running", "completed", "failed", "expired"}
    BY <2>1 DEF RowSound, Row
  <2>3. \/ rows[o][i].key = TRUE /\ rows[o][i].status # "expired"
        \/ rows[o][i].kind = "export" /\ rows[o][i].cause = "refused"
    BY <2>1, <2>2 DEF RowSound
  <2>4. CASE rows[o][i].status = "running"
    <3>1. rows[o][i].cause = "cut off"
      BY <2>4 DEF Reachable
    <3>2. \A j \in DOMAIN rows[o] : rows[o][j].status = "running" => j = i
      BY <2>1, <2>4 DEF TableSound
    <3> QED BY <2>4, <3>1, <3>2
  <2>5. CASE rows[o][i].status # "running"
    BY <2>2, <2>3, <2>5 DEF Reachable
  <2> QED BY <2>4, <2>5
<1>2. ABackupStaysStored
  <2> SUFFICES ASSUME NEW o \in Organizations, NEW i \in Shelf(o),
                      "cleanup" \notin rows[o][i].held,
                      rows[o][i].cause \notin {"retention lost", "cleanup lost"}
               PROVE  \E j \in DOMAIN rows[o] :
                        /\ rows[o][j].kind = "backup" /\ rows[o][j].stored
                        /\ Reachable(rows[o][j]) /\ rows[o][j].status # "failed"
    BY DEF ABackupStaysStored
  <2>1. TableSound(rows[o], work[o].at)
    BY DEF TablesSound
  <2>2. /\ RowSound(rows[o][i], work[o].at) /\ i \in DOMAIN rows[o]
        /\ rows[o][i].kind = "backup" /\ rows[o][i].status = "completed"
    BY <2>1 DEF TableSound, Shelf
  <2>3. rows[o][i].stored = TRUE \/ rows[o][i].held # {}
    BY <2>2 DEF RowSound
  <2>4. CASE rows[o][i].stored = TRUE
    <3>1. rows[o][i].key = TRUE
      BY <2>2, <2>4 DEF RowSound
    <3> QED BY <2>2, <2>4, <3>1 DEF Reachable
  <2>5. CASE rows[o][i].held # {}
    <3>1. rows[o][i].held \subseteq {"retention", "cleanup"}
      BY <2>2 DEF RowSound, Row
    <3>2. "retention" \in rows[o][i].held
      BY <2>5, <3>1
    <3>3. work[o].at = "backup retired"
      BY <2>2, <3>2 DEF RowSound
    <3>4. PICK j \in DOMAIN rows[o] : AtWork(rows[o][j], "backup retired")
      BY <2>1, <3>3 DEF TableSound
    <3>5. /\ rows[o][j].kind = "backup" /\ rows[o][j].stored = TRUE
          /\ rows[o][j].status = "running" /\ rows[o][j].cause # "cut off"
      BY <3>4 DEF AtWork, BackingUp, Exporting
    <3> QED BY <3>5 DEF Reachable
  <2> QED BY <2>3, <2>4, <2>5
<1> QED BY <1>1, <1>2 DEF ArchivesAreKept

(* Whatever exports, backups, cleanups, refused deletions and ends of      *)
(* processes come in between: a stored archive stays within reach of its   *)
(* run, of a download, of retention or of the cleanup, unless an export's  *)
(* deletion was refused or its run was cut off, once per organization; and *)
(* an organization that has completed a backup keeps one that is stored    *)
(* and within reach until the age limit or a recorded loss takes the last. *)
THEOREM ArchivesAreAlwaysKept == Spec => []ArchivesAreKept
<1> QED BY InitTables, PeriodInvariant, StepTables, SoundTablesKeep, PTL DEF Spec
================================================================================
