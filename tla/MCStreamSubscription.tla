-------------------------- MODULE MCStreamSubscription --------------------------
(* Finite instances of StreamSubscription. *)
EXTENDS StreamSubscription
=============================================================================
