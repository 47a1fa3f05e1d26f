---------------------------- MODULE MCIdempotency ----------------------------
(* Finite instance of Idempotency: interchangeable payloads, and requests  *)
(* alike but for the one whose response is too large to be stored whole.   *)
EXTENDS Idempotency, TLC

Symmetry == Permutations(Requests \ Oversized) \cup Permutations(Prints)
=============================================================================
