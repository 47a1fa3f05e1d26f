------------------------------ MODULE MCRemoteChat ------------------------------
(* Finite instance of RemoteChat. *)
EXTENDS RemoteChat, TLC
Symmetry == Permutations(Runs)
=============================================================================
