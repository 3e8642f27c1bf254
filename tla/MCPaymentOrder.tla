--------------------------- MODULE MCPaymentOrder ---------------------------
(* PaymentOrder on small instances. *)
EXTENDS PaymentOrder, TLC

CONSTANTS o1, o2, w1, w2, w3

WorkerSymmetry == Permutations(Workers)
=============================================================================
