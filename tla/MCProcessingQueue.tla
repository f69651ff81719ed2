-------------------------- MODULE MCProcessingQueue --------------------------
(* Small instances of ProcessingQueue and its ledger for TLC.               *)
EXTENDS ProcessingLedger, TLC

CONSTANTS w1, w2, d1, d2, t1, t2

(* Two files of one source of an organization. *)
OneOwnedSource == [d \in {d1, d2} |-> "owned"]
=============================================================================
