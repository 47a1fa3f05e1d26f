--------------------------- MODULE PaymentContract ---------------------------
(***************************************************************************)
(* What the payment service promises about ONE order, with no word about   *)
(* webhooks, leases, retries or crashes: money that is owed turns into the *)
(* purchased benefit exactly once, the inviter's rebate follows it exactly *)
(* once, and only then is the order settled, for good.                     *)
(* PaymentFulfillment implements this specification.                       *)
(***************************************************************************)
EXTENDS Naturals

VARIABLES
    phase,    \* "open", "closed" (cancelled or expired), "owed", "settled"
    granted,  \* how many times the benefit was posted to the user
    rebated   \* how many times the inviter's rebate was accrued

vars == <<phase, granted, rebated>>

Init == phase = "open" /\ granted = 0 /\ rebated = 0

(* The order is given up before it was paid. *)
Close == phase = "open" /\ phase' = "closed" /\ UNCHANGED <<granted, rebated>>

(* A payment is accepted, also for an order that was already given up. *)
Accept == phase \in {"open", "closed"} /\ phase' = "owed" /\ UNCHANGED <<granted, rebated>>

(* The balance or the subscription is posted. *)
Grant == phase = "owed" /\ granted = 0 /\ granted' = 1 /\ UNCHANGED <<phase, rebated>>

(* The rebate is decided, after the benefit was posted. *)
Rebate == phase = "owed" /\ granted = 1 /\ rebated = 0 /\ rebated' = 1 /\ UNCHANGED <<phase, granted>>

(* The order is reported complete; a refund does not reopen it. *)
Settle == phase = "owed" /\ granted = 1 /\ rebated = 1 /\ phase' = "settled" /\ UNCHANGED <<granted, rebated>>

Next == Close \/ Accept \/ Grant \/ Rebate \/ Settle

Spec == Init /\ [][Next]_vars
==============================================================================
