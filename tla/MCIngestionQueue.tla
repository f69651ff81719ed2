--------------------------- MODULE MCIngestionQueue ---------------------------
(* Small instances of IngestionQueue for TLC.                               *)
EXTENDS IngestionQueue, TLC

CONSTANTS w1, w2, s1, s2, i1

(* Bound: with the second disruption no fetch is tried again.              *)
Explored ==
  disruptions < MaxDisruptions \/ \A n \in 1..Len(run) : run[n].attempt_count <= 1

Symmetric == Permutations({w1, w2})
=============================================================================
