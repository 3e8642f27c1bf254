------------------------- MODULE MCConcurrencySlots -------------------------
(* ConcurrencySlots on small instances: an account with room for one that   *)
(* two requests and a call contend for while a second process starts, and   *)
(* one with room for two and two calls.                                     *)
EXTENDS ConcurrencySlots

CONSTANTS r1, r2, r3, c1, c2, p1, p2

ClientSymmetry == Permutations(Requests) \cup Permutations(Calls)

Mix(r, c, ps, max, bad) ==
    {[clients |-> R \cup C, processes |-> ps, limit |-> max, faults |-> bad] :
        R \in {S \in SUBSET Requests : Cardinality(S) = r},
        C \in {S \in SUBSET Calls : Cardinality(S) = c}}

Mixed ==
    Mix(3, 0, {p1}, 1, 1) \cup Mix(2, 0, {p1, p2}, 1, 2)
    \cup Mix(1, 2, {p1}, 2, 0) \cup Mix(0, 2, {p1}, 2, 1) \cup Mix(1, 1, {p1, p2}, 1, 1)
=============================================================================
