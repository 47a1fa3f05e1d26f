------------------------ MODULE MCPaymentFulfillment ------------------------
(* Finite instance of PaymentFulfillment: interchangeable workers. *)
EXTENDS PaymentFulfillment, TLC

Symmetry == Permutations(Workers)
=============================================================================
