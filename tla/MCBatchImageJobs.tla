---------------------------- MODULE MCBatchImageJobs ----------------------------
(* Finite instance of BatchImageJobs: the workers are interchangeable.      *)
EXTENDS BatchImageJobs, TLC

Symmetry == Permutations(Workers)
=============================================================================
