----------------------------- MODULE ClaimLedger -----------------------------
(***************************************************************************)
(* What a leased queue promises about a job, without leases, tokens or     *)
(* workers: a job is queued, taken, given back or settled, every claim     *)
(* gets exactly one verdict while it is the job's latest claim, and a      *)
(* verdict once given is never rewritten.  Organizations read this ledger  *)
(* as the attempt history of a job (operation_attempts).                   *)
(***************************************************************************)
EXTENDS Naturals, Sequences

CONSTANT Jobs

VARIABLES
  phase,     \* where each job is
  verdicts   \* one entry per claim, oldest first; "running" while it is open

LedgerInit ==
  /\ phase = [j \in Jobs |-> "absent"]
  /\ verdicts = [j \in Jobs |-> <<>>]

Move(j, from, to) == phase[j] \in from /\ phase' = [phase EXCEPT ![j] = to]

(* The open entry of each job of S gets its verdict. *)
Close(S, verdict) ==
  verdicts' = [j \in Jobs |->
                 IF j \in S
                 THEN [verdicts[j] EXCEPT ![Len(verdicts[j])] = verdict]
                 ELSE verdicts[j]]

Submit(j) == Move(j, {"absent"}, "queued") /\ UNCHANGED verdicts

Take(j) ==
  /\ Move(j, {"queued"}, "taken")
  /\ verdicts' = [verdicts EXCEPT ![j] = Append(@, "running")]

GiveBack(S) ==
  /\ \A j \in S : phase[j] = "taken"
  /\ phase' = [j \in Jobs |-> IF j \in S THEN "queued" ELSE phase[j]]
  /\ Close(S, "recovered")

Complete(j) == Move(j, {"taken"}, "completed") /\ Close({j}, "succeeded")

Fail(j) == Move(j, {"taken"}, "failed") /\ Close({j}, "failed")

TryAgain(j) == Move(j, {"failed"}, "queued") /\ UNCHANGED verdicts

(* A job is only removed while nobody has it. *)
Remove(j) ==
  Move(j, {"queued", "completed", "failed"}, "removed") /\ UNCHANGED verdicts

LedgerNext ==
  \/ \E j \in Jobs : \/ Submit(j) \/ Take(j) \/ Complete(j) \/ Fail(j)
                     \/ TryAgain(j) \/ Remove(j)
  \/ \E S \in SUBSET Jobs : GiveBack(S)

LedgerSpec == LedgerInit /\ [][LedgerNext]_<<phase, verdicts>>
=============================================================================
