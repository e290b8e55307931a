----------------------------- MODULE MCSeqlock ------------------------------
(* One subscriber reads a three-word descriptor while up to three publishes *)
(* run.  read_latest() stores nothing in the slot, so subscribers cannot    *)
(* disturb one another: one is as good as many here, and the theorems of    *)
(* SeqlockProofs hold for any set of them.                                  *)
EXTENDS Seqlock, TLC

CONSTANTS r1, w1, w2, w3

OneReader == {r1}
ThreeWords == {w1, w2, w3}
Retries == {0, 2}
=============================================================================
