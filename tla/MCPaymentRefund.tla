--------------------------- MODULE MCPaymentRefund ---------------------------
(* Finite instance of PaymentRefund: interchangeable requests. *)
EXTENDS PaymentRefund, TLC

Symmetry == Permutations(Workers)
=============================================================================
