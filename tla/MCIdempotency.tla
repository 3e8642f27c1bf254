---------------------------- MODULE MCIdempotency ----------------------------
(* Idempotency on small instances. *)
EXTENDS Idempotency, TLC

CONSTANTS r1, r2, r3, k1, k2, p1, p2

RequestSymmetry == Permutations(Requests)
One(k, p) == [key |-> k, payload |-> p]

\* Three requests under one key, with two payloads ...
Repeats == [Requests -> {{One(k1, p1), One(k1, p2)}}]

\* ... or two requests, under one key or two.
Pairs == {[r \in Requests |-> IF r = s THEN {} ELSE {One(k1, p1), One(k2, p1)}] :
              s \in Requests}

Mixed == Repeats \cup Pairs
=============================================================================
