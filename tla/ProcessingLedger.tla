--------------------------- MODULE ProcessingLedger ---------------------------
(***************************************************************************)
(* The processing queue implements the ClaimLedger: seen through the rows  *)
(* of operation_attempts, every claim of an owned job gets one verdict,    *)
(* while it is the latest claim, and keeps it.                             *)
(***************************************************************************)
EXTENDS ProcessingQueue

OwnedDocs == {d \in Docs : Owned(d)}

LedgerPhase(d) ==
  CASE document[d] = "absent"  -> "absent"
    [] document[d] = "deleted" -> "removed"
    [] OTHER -> CASE job[d].status = "pending" -> "queued"
                  [] job[d].status = "running" -> "taken"
                  [] OTHER -> job[d].status

Ledger == INSTANCE ClaimLedger WITH
            Jobs <- OwnedDocs,
            phase <- [d \in OwnedDocs |-> LedgerPhase(d)],
            verdicts <- [d \in OwnedDocs |-> VerdictsOf(attempts, d)]

(* Every step of the queue, stale workers, crashes and recoveries included *)
(* is a step of the ledger or leaves it alone.                             *)
ImplementsLedger == Ledger!LedgerSpec
=============================================================================
