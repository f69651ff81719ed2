------------------------------ MODULE RestoreRuns ------------------------------
(***************************************************************************)
(* Restores of verified archives into one empty organization, and the      *)
(* disaster recovery drills that exercise them (domain/organizations:      *)
(* restore_service, restore_administration, restore_conflicts,             *)
(* drill_service, drill_administration).  A restore commits three times -  *)
(* its RUNNING row, the records, its verdict - and writes files before and *)
(* between: to a staging place, then to their final keys.                  *)
(***************************************************************************)
EXTENDS Integers, FiniteSets

CONSTANTS Requests,   \* restore requests and drills, one row each
          Drills,     \* those of them that are drills
          Assets,     \* document assets of the archive
          MaxRestoreFaults  \* bound: failed calls and ends of processes

Others == "others"   \* the target's members, where content names who wrote it

ASSUME RestoreAssumption ==
    /\ Drills \subseteq Requests
    /\ Others \notin Requests
    /\ IsFiniteSet(Assets)
    /\ MaxRestoreFaults \in Nat

VARIABLES restores,  \* Requests -> status of its organization_restores row
          drills,    \* Drills -> status of its drill row
          at,        \* Requests -> where each is
          staged,    \* Requests -> assets in organization-restore-staging
          final,     \* Requests -> assets at their final keys
          known,     \* Requests -> which of its keys the handler holds
          content,   \* whose records the target holds; "others": its members' own
          failures,
          causes     \* history: Requests -> what went wrong

restoreVars == <<restores, drills, at, staged, final, known, content, failures, causes>>

RestoresInit ==
    /\ restores = [r \in Requests |-> "none"]
    /\ drills = [r \in Drills |-> "none"]
    /\ at = [r \in Requests |-> "new"]
    /\ staged = [r \in Requests |-> {}]
    /\ final = [r \in Requests |-> {}]
    /\ known = [r \in Requests |-> {}]
    /\ content = {}
    /\ failures = 0
    /\ causes = [r \in Requests |-> {}]

Go(r, phase) == at' = [at EXCEPT ![r] = phase]
Fault == failures < MaxRestoreFaults /\ failures' = failures + 1
Blame(r, cause) == causes' = [causes EXCEPT ![r] = @ \cup {cause}]

\* After the restore a drill still records its own result.
Ends(r) == IF r \in Drills THEN "answering" ELSE "over"

--------------------------------------------------------------------------------

\* A restore-test drill: one RUNNING row per target, or ConflictError.
BeginDrill(r) ==
    /\ r \in Drills /\ at[r] = "new"
    /\ IF \E d \in Drills : drills[d] = "running"
       THEN Go(r, "over") /\ UNCHANGED drills
       ELSE /\ drills' = [drills EXCEPT ![r] = "running"]
            /\ Go(r, "drilling")
    /\ UNCHANGED <<restores, staged, final, known, content, failures, causes>>

\* The archive is verified and the target read: it has to be empty.  Nothing
\* holds the answer until the RUNNING row is committed.
Analyse(r) ==
    /\ at[r] = IF r \in Drills THEN "drilling" ELSE "new"
    /\ Go(r, IF content = {} THEN "analysed" ELSE Ends(r))
    /\ UNCHANGED <<restores, drills, staged, final, known, content, failures, causes>>

\* The archive, a user mapping or an asset is refused: nothing was written.
Refuse(r) ==
    /\ at[r] \in {"analysed"} \cup (IF r \in Drills THEN {"drilling"} ELSE {"new"})
    /\ Go(r, Ends(r))
    /\ UNCHANGED <<restores, drills, staged, final, known, content, failures, causes>>

Active == \E q \in Requests : restores[q] = "running"

\* The RUNNING row, under the partial unique index on the target.
BeginRestore(r) ==
    /\ at[r] = "analysed"
    /\ IF Active
       THEN Go(r, Ends(r)) /\ UNCHANGED restores
       ELSE /\ restores' = [restores EXCEPT ![r] = "running"]
            /\ Go(r, "staging")
    /\ UNCHANGED <<drills, staged, final, known, content, failures, causes>>

\* Mutant: the handler never learns the staged keys.
StageAssetsUnkept(r) ==
    /\ at[r] = "staging"
    /\ staged' = [staged EXCEPT ![r] = Assets]
    /\ Go(r, "records")
    /\ UNCHANGED <<restores, drills, final, known, content, failures, causes>>

\* _stage_assets returns its keys only when every put succeeded.
StageAssets(r) ==
    /\ at[r] = "staging"
    /\ staged' = [staged EXCEPT ![r] = Assets]
    /\ known' = [known EXCEPT ![r] = {"staged"}]
    /\ Go(r, "records")
    /\ UNCHANGED <<restores, drills, final, content, failures, causes>>

StagingFails(r) ==
    /\ at[r] = "staging" /\ Fault
    /\ \E some \in (SUBSET Assets) \ {Assets} :
          /\ staged' = [staged EXCEPT ![r] = some]
          /\ IF some = {} THEN UNCHANGED causes ELSE Blame(r, "keys lost")
    /\ Go(r, "failing")
    /\ UNCHANGED <<restores, drills, final, known, content>>

\* The records, in one transaction, and the files at their final keys: again
\* the keys are returned only at the end.
RestoreRecords(r) ==
    /\ at[r] = "records"
    /\ final' = [final EXCEPT ![r] = Assets]
    /\ known' = [known EXCEPT ![r] = {"staged", "final"}]
    /\ Go(r, "committing")
    /\ UNCHANGED <<restores, drills, staged, content, failures, causes>>

RecordsFail(r) ==
    /\ at[r] = "records" /\ Fault
    /\ \E some \in SUBSET Assets :
          /\ final' = [final EXCEPT ![r] = some]
          /\ IF some = {} THEN UNCHANGED causes ELSE Blame(r, "keys lost")
    /\ Go(r, "failing")
    /\ UNCHANGED <<restores, drills, staged, known, content>>

CommitRecords(r) ==
    /\ at[r] = "committing"
    /\ content' = content \cup {r}
    /\ Go(r, "tidying")
    /\ UNCHANGED <<restores, drills, staged, final, known, failures, causes>>

\* The staged files go; a refusal is suppressed.
Tidy(r) ==
    /\ at[r] = "tidying"
    /\ \/ staged' = [staged EXCEPT ![r] = {}] /\ UNCHANGED <<failures, causes>>
       \/ Fault /\ Blame(r, "refused") /\ UNCHANGED staged
    /\ Go(r, "tidied")
    /\ UNCHANGED <<restores, drills, final, known, content>>

Complete(r) ==
    /\ at[r] = "tidied"
    /\ restores' = [restores EXCEPT ![r] = "completed"]
    /\ Go(r, Ends(r))
    /\ UNCHANGED <<drills, staged, final, known, content, failures, causes>>

\* A refused commit, or a request cancelled after the records are committed:
\* the same handler as before them.
CommitFails(r) ==
    /\ at[r] \in {"committing", "tidying", "tidied"} /\ Fault
    /\ IF at[r] = "committing" THEN UNCHANGED causes ELSE Blame(r, "late")
    /\ Go(r, "failing")
    /\ UNCHANGED <<restores, drills, staged, final, known, content>>

\* Every key the handler holds is deleted, refusals suppressed.
Clear(r) ==
    /\ at[r] = "failing"
    /\ \/ /\ staged' = [staged EXCEPT ![r] = IF "staged" \in known[r] THEN {} ELSE @]
          /\ final' = [final EXCEPT ![r] = IF "final" \in known[r] THEN {} ELSE @]
          /\ UNCHANGED <<failures, causes>>
       \/ /\ known[r] # {} /\ Fault /\ Blame(r, "refused")
          /\ UNCHANGED <<staged, final>>
    /\ Go(r, "cleared")
    /\ UNCHANGED <<restores, drills, known, content>>

\* Mutant: the handler cleans up and leaves the row.
FailUnmarked(r) ==
    /\ at[r] = "cleared"
    /\ Go(r, Ends(r))
    /\ UNCHANGED <<restores, drills, staged, final, known, content, failures, causes>>

Fail(r) ==
    /\ at[r] = "cleared"
    /\ restores' = [restores EXCEPT ![r] = "failed"]
    /\ Go(r, Ends(r))
    /\ UNCHANGED <<drills, staged, final, known, content, failures, causes>>

\* The drill's verdict follows the restore it ran.
EndDrill(r) ==
    /\ at[r] = "answering"
    /\ drills' = [drills EXCEPT ![r] =
           IF restores[r] = "completed" THEN "completed" ELSE "failed"]
    /\ Go(r, "over")
    /\ UNCHANGED <<restores, staged, final, known, content, failures, causes>>

\* A member of the target adds records of its own.
Populate ==
    /\ content' = content \cup {Others}
    /\ UNCHANGED <<restores, drills, at, staged, final, known, failures, causes>>

\* The process of a request ends, or its last commit is refused.
ProcessEnds(r) ==
    /\ at[r] \notin {"new", "over", "gone"} /\ Fault
    /\ Blame(r, "gone")
    /\ Go(r, "gone")
    /\ UNCHANGED <<restores, drills, staged, final, known, content>>

Step(r) ==
    \/ BeginDrill(r) \/ Analyse(r) \/ Refuse(r) \/ BeginRestore(r)
    \/ StageAssets(r) \/ StagingFails(r) \/ RestoreRecords(r) \/ RecordsFail(r)
    \/ CommitRecords(r) \/ Tidy(r) \/ Complete(r) \/ CommitFails(r)
    \/ Clear(r) \/ Fail(r) \/ EndDrill(r)

RestoresStep == Populate \/ \E r \in Requests : Step(r) \/ ProcessEnds(r)

RestoresSpec == RestoresInit /\ [][RestoresStep]_restoreVars

\* A request goes on until it answers or its process ends.
RestoresFairness == \A r \in Requests : WF_restoreVars(Step(r))

FairRestores == RestoresSpec /\ RestoresFairness

--------------------------------------------------------------------------------
(* Properties *)

\* Restored documents keep their files: only a restore cut short after the
\* commit of its records deletes the files of committed rows
\* (restore_service.py 132).
RestoredFilesStay ==
    \A r \in Requests \cap content :
        final[r] = Assets \/ "late" \in causes[r]

\* A failed restore leaves neither records nor files, unless a put failed
\* midway (its keys are lost, restore_service.py 146 and 422), a deletion was
\* refused or the records were committed already.
FailedLeavesNothing ==
    \A r \in Requests : restores[r] = "failed" =>
        \/ r \notin content /\ staged[r] = {} /\ final[r] = {}
        \/ causes[r] \cap {"keys lost", "refused", "late"} # {}

\* Files and records agree, whatever fails between the three commits.
FilesFollowRecords == RestoredFilesStay /\ FailedLeavesNothing

\* Every request ends with a verdict on its rows, unless its process ended.
RequestsEnd ==
    \A r \in Requests : at[r] # "new" ~>
        \/ "gone" \in causes[r]
        \/ restores[r] # "running" /\ (r \in Drills => drills[r] # "running")
================================================================================
