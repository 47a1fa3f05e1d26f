------------------------ MODULE MCPaymentStaleLease ------------------------
(***************************************************************************)
(* PaymentFulfillment with a history variable: the worker whose UPDATE took *)
(* the fulfilment lease last.                                              *)
(***************************************************************************)
EXTENDS PaymentFulfillment

VARIABLE owner

TookLease(w) == pc[w] = "lease" /\ pc'[w] = "reload"

OwnerInit == Init /\ owner = {}
OwnerNext ==
    /\ Next
    /\ owner' = IF \E w \in Workers : TookLease(w)
                THEN {w \in Workers : TookLease(w)} ELSE owner

OwnerSpec == OwnerInit /\ [][OwnerNext]_<<vars, owner>>

(* payment_fulfillment.go:810, "The lease version prevents a stale worker
   from overwriting a newer owner": an order is marked FAILED only by the
   worker that took the lease last. *)
StaleWorkerNeverOverwrites ==
    [][\A w \in Workers : MarkFailed(w) /\ status' = "FAILED" => w \in owner]_<<vars, owner>>
=============================================================================
