---------------------------- MODULE MCBatchImage ----------------------------
(* BatchImage on small instances. *)
EXTENDS BatchImage, TLC

CONSTANTS w1, w2, c1, c2

WorkerSymmetry == Permutations(Workers)
=============================================================================
