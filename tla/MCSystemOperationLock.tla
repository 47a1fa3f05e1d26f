-------------------------- MODULE MCSystemOperationLock --------------------------
(* Finite instance of SystemOperationLock: interchangeable attempts and     *)
(* operation ids.                                                           *)
EXTENDS SystemOperationLock, TLC

Symmetry == Permutations(Attempts) \cup Permutations(Operations)
=============================================================================
