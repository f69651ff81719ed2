---------------------------- MODULE IngestionLedger ----------------------------
(***************************************************************************)
(* Ingestion jobs implement the ClaimLedger, seen through the rows of      *)
(* operation_attempts.  Whether a job is recorded there depends on the     *)
(* source of its run, which changes when the job gets a new run: its       *)
(* source does not.                                                        *)
(***************************************************************************)
EXTENDS IngestionQueue

Recorded(j) == j \in JobsSoFar /\ SourceOf(j) \in OwnedSources

LedgerPhase(j) ==
  IF ~Recorded(j) THEN "absent"
  ELSE CASE job[j].status = "pending" -> "queued"
         [] job[j].status = "running" -> "taken"
         [] OTHER -> job[j].status

Ledger == INSTANCE ClaimLedger WITH
            Jobs <- JobIds,
            phase <- [j \in JobIds |-> LedgerPhase(j)],
            verdicts <- [j \in JobIds |-> VerdictsOf(attempts, j)]

(* Every step of the queue, executors that lost their job, crashes,        *)
(* recoveries and retries included, is a step of the ledger or leaves it   *)
(* alone: a claim gets one verdict, while it is the latest of its job, and *)
(* keeps it, although job and run change hands in different transactions.  *)
JobsImplementLedger == Ledger!LedgerSpec
================================================================================
