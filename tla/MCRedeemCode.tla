---------------------------- MODULE MCRedeemCode ----------------------------
(* RedeemCode on small instances. *)
EXTENDS RedeemCode, TLC

CONSTANTS u1, u2, w1, w2, w3

Symmetry == Permutations(Users) \cup Permutations(Workers)
=============================================================================
