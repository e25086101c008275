------------------------- MODULE MCIdempotencyGuard -------------------------
(* An instance of IdempotencyGuard for TLC. *)
EXTENDS IdempotencyGuard, TLC

Interchangeable == Permutations(Requests) \cup Permutations(Keys) \cup Permutations(Payloads)
=============================================================================
