--------------------------- MODULE MCIdempotency ---------------------------
(* Instances of Idempotency for TLC. *)
EXTENDS Idempotency, TLC

CONSTANTS r1, r2, r3, p1, p2

ThreeRequests == {r1, r2, r3}
OneRequest == {r1}
TwoPayloads == {p1, p2}

Symmetry == Permutations(Requests) \cup Permutations(Payloads)
=============================================================================
