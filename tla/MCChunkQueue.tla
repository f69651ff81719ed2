----------------------------- MODULE MCChunkQueue -----------------------------
(* Small instances of ChunkQueue for TLC.                                   *)
EXTENDS ChunkQueue, TLC

CONSTANTS w1, w2, b1, c1, c2

(* Two documents, so that a replacement takes a part of a batch.           *)
TwoDocs == (c1 :> "d1") @@ (c2 :> "d2")
=============================================================================
