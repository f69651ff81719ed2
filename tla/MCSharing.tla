------------------------------- MODULE MCSharing -------------------------------
(***************************************************************************)
(* Two components that share no state, each alone: a behaviour follows the *)
(* stored files of documents, or the names that extraction workers store.  *)
(***************************************************************************)
EXTENDS BlobLifecycle, SharedNames, TLC

CONSTANTS r1, r2, cl1, cl2, d1, k1, k2, n1, n2, n3

VARIABLE followed

\* Two names in either order, and one that is too long.
TwoOrders == {<<n1, n2>>, <<n2, n1>>, <<n3>>}

\* Nobody extracts names, so that no step of SharedNames is enabled.  Likewise
\* no step of BlobLifecycle that is fair is enabled by its BlobInit.
NoExtractor ==
    /\ text = [c \in Passages |-> <<n3>>] /\ row = [c \in Passages |-> Waiting]
    /\ here = {} /\ line = <<>> /\ stored = {} /\ deleting = {} /\ faults = 0
    /\ mentions = [c \in Passages |-> {}]
    /\ hand = [w \in Extractors |-> [FreeHand EXCEPT !.at = "away"]]

AloneInit ==
    \/ followed = "files" /\ BlobInit /\ NoExtractor
    \/ followed = "names" /\ BlobInit /\ NamesInit

AloneNext ==
    /\ UNCHANGED followed
    /\ \/ followed = "files" /\ BlobStep /\ UNCHANGED nameVars
       \/ followed = "names" /\ NamesStep /\ UNCHANGED blobVars

Alone ==
    AloneInit /\ [][AloneNext]_<<followed, blobVars, nameVars>> /\ BlobFairness /\ NamesFairness

================================================================================
