------------------------- MODULE PaymentFulfillment -------------------------
(***************************************************************************)
(* One payment order from creation to fulfilment: provider notifications,  *)
(* upstream queries, cancellation, expiry, and the fulfilment worker with  *)
(* its lease, the redeem code, the subscription audit and the rebate.      *)
(*                                                                         *)
(* A worker is one request or background handler.  It is cut at every      *)
(* database, Redis and provider call, so that handlers interleave exactly  *)
(* where the program lets them, and pc[w] names the call it makes next.    *)
(*                                                                         *)
(* The lease version is the order's updated_at, which every UPDATE moves.  *)
(* Only two things are ever asked of it: does it still equal the value a   *)
(* worker read (w \in leased), and is it more than five minutes old (aged; *)
(* the lease duration and the expiry grace are the same five minutes).     *)
(***************************************************************************)
EXTENDS Naturals

CONSTANTS
    Workers,    \* the handlers that may run concurrently
    Kinds,      \* the order types to consider
    MaxFaults   \* bound: crashes, failed or ambiguous calls, stalls, disabled groups

ASSUME KindsAssumption == Kinds \subseteq {"balance", "subscription"}
ASSUME MaxFaultsAssumption == MaxFaults \in Nat

VARIABLES
    kind,         \* order type: "balance" or "subscription"
    matches,      \* the payment has the provider, metadata and amount of the order
    active,       \* the subscription's group exists and is active
    status,       \* payment_orders.status
    paidAt,       \* payment_orders.paid_at is set
    trade,        \* payment_orders.payment_trade_no is the provider's number
    aged,         \* updated_at is at least five minutes old
    leased,       \* workers whose lease.version equals updated_at
    code,         \* the order's recharge code in redeem_codes
    locked,       \* the Redis lock on that code exists
    assigned,     \* audit row SUBSCRIPTION_ASSIGNED exists
    claimed,      \* audit row AFFILIATE_REBATE_APPLIED or _SKIPPED exists
    grants,       \* times the benefit was posted to the user
    rebates,      \* times the rebate was accrued
    afterExpiry,  \* audit row PAYMENT_AFTER_EXPIRY exists
    paid,         \* the user has paid at the provider
    payable,      \* the provider still accepts the payment
    acked,        \* a notification was answered with success
    dropped,      \* ... though reading the order, or recording the late
                  \*     payment, had failed
    pc, task,     \* per worker: next call, and what it was started for
    sawTrade, ok, \* per worker: its snapshot of trade; Redeem's result
    faults

orderVars  == <<status, paidAt, trade, aged, leased>>
grantVars  == <<code, locked, assigned, claimed, grants, rebates>>
remoteVars == <<paid, payable, acked, dropped, afterExpiry>>
workerVars == <<pc, task, sawTrade, ok>>
given == <<kind, matches, active>>
vars == <<given, orderVars, grantVars, remoteVars, workerVars, faults>>

Unpaid  == {"PENDING", "CANCELLED", "EXPIRED"}
Owed    == {"PAID", "RECHARGING", "FAILED"}
Settled == {"COMPLETED", "REFUNDING"}  \* "REFUNDING": any status of a refund

Tasks == {"none", "webhook", "retry", "cancel", "expire", "verify"}

(* The calls between the lease and the end of the fulfilment. *)
Fulfilling == {"reload", "lookup", "create", "lock", "redeem", "unlock",
               "group", "assign", "rebate", "complete", "lost", "fail"}
Steps == {"idle", "query", "persist", "closeUpstream", "close", "toPaid",
          "reread", "load", "lease", "recheck"} \cup Fulfilling

OrderTypeOK ==
    /\ kind \in {"balance", "subscription"} /\ matches \in BOOLEAN /\ active \in BOOLEAN
    /\ status \in Unpaid \cup Owed \cup Settled
    /\ paidAt \in BOOLEAN /\ trade \in BOOLEAN /\ aged \in BOOLEAN
    /\ leased \subseteq Workers
GrantTypeOK ==
    /\ code \in {"none", "unused", "used"}
    /\ locked \in BOOLEAN /\ assigned \in BOOLEAN /\ claimed \in BOOLEAN
    /\ grants \in Nat /\ rebates \in Nat
RemoteTypeOK ==
    /\ paid \in BOOLEAN /\ payable \in BOOLEAN /\ acked \in BOOLEAN
    /\ dropped \in BOOLEAN /\ afterExpiry \in BOOLEAN
FaultsTypeOK == faults \in 0..MaxFaults
WorkerTypeOK ==
    /\ pc \in [Workers -> Steps] /\ task \in [Workers -> Tasks]
    /\ sawTrade \in [Workers -> BOOLEAN] /\ ok \in [Workers -> BOOLEAN]
TypeOK == OrderTypeOK /\ GrantTypeOK /\ RemoteTypeOK /\ FaultsTypeOK /\ WorkerTypeOK

Init ==
    /\ kind \in Kinds /\ matches = TRUE /\ active = TRUE
    /\ status = "PENDING" /\ paidAt = FALSE /\ trade = FALSE /\ aged = FALSE /\ leased = {}
    /\ code = "none" /\ locked = FALSE /\ assigned = FALSE /\ claimed = FALSE
    /\ grants = 0 /\ rebates = 0
    /\ paid = FALSE /\ payable = TRUE
    /\ acked = FALSE /\ dropped = FALSE /\ afterExpiry = FALSE
    /\ pc = [w \in Workers |-> "idle"] /\ task = [w \in Workers |-> "none"]
    /\ sawTrade = [w \in Workers |-> FALSE] /\ ok = [w \in Workers |-> FALSE]
    /\ faults = 0

-----------------------------------------------------------------------------
Goto(w, step) == pc' = [pc EXCEPT ![w] = step] /\ UNCHANGED <<task, sawTrade, ok>>

(* A failure out of the budget. *)
OneFault == faults < MaxFaults /\ faults' = faults + 1

(* An UPDATE of the order row: updated_at moves, every version read before
   it is out of date. *)
WriteStatus(s) == status' = s /\ aged' = FALSE /\ leased' = {}

(* The handler returns.  A webhook that returns no error is answered with
   success, and the provider stops delivering it. *)
Finish(w, success) ==
    /\ pc' = [pc EXCEPT ![w] = "idle"] /\ task' = [task EXCEPT ![w] = "none"]
    /\ sawTrade' = [sawTrade EXCEPT ![w] = FALSE] /\ ok' = [ok EXCEPT ![w] = FALSE]
    /\ acked' = (acked \/ (success /\ task[w] = "webhook"))

(* Finish for a handler that changed nothing else on the way out. *)
Return(w, success) ==
    /\ Finish(w, success)
    /\ leased' = leased \ {w}
    /\ UNCHANGED <<given, status, paidAt, trade, aged, grantVars, paid, payable,
                   dropped, afterExpiry, faults>>

Begin(w, t, step) ==
    /\ pc[w] = "idle"
    /\ pc' = [pc EXCEPT ![w] = step] /\ task' = [task EXCEPT ![w] = t]
    /\ sawTrade' = [sawTrade EXCEPT ![w] = (step = "query" /\ trade)]
    /\ UNCHANGED <<given, orderVars, grantVars, remoteVars, ok, faults>>

(* The start of each handler, with the read that decides whether it runs. *)
Deliver(w) == paid /\ Begin(w, "webhook", "toPaid")
RetryFulfillment(w) == paidAt /\ status \in Owed /\ Begin(w, "retry", "load")
CancelOrder(w) == status = "PENDING" /\ Begin(w, "cancel", "query")
ExpireTimedOutOrders(w) == status = "PENDING" /\ Begin(w, "expire", "query")
VerifyOrder(w) == status \in {"PENDING", "EXPIRED"} /\ Begin(w, "verify", "query")

-----------------------------------------------------------------------------
(* Mutant: the verification page takes any answer of the provider for paid. *)
QueryOrderTrusting(w) ==
    /\ pc[w] = "query"
    /\ Goto(w, IF paid \/ task[w] = "verify" THEN "persist" ELSE "closeUpstream")
    /\ UNCHANGED <<given, orderVars, grantVars, remoteVars, faults>>

(* checkPaidWithOptions: ask the provider.  A payment that is not this order's
   is taken for paid as well, unless it has no valid amount, twice. *)
QueryOrder(w) ==
    /\ pc[w] = "query"
    /\ \/ /\ paid
          /\ pc' = [pc EXCEPT ![w] = IF sawTrade[w] THEN "toPaid" ELSE "persist"]
          /\ sawTrade' = [sawTrade EXCEPT ![w] = FALSE]
          /\ UNCHANGED <<given, orderVars, grantVars, remoteVars, task, ok, faults>>
       \/ /\ ~paid /\ task[w] # "verify"
          /\ Goto(w, "closeUpstream")
          /\ UNCHANGED <<given, orderVars, grantVars, remoteVars, faults>>
       \/ /\ paid /\ ~matches /\ task[w] # "verify"
          /\ Goto(w, "close")
          /\ UNCHANGED <<given, orderVars, grantVars, remoteVars, faults>>
       \/ ~(paid /\ matches) /\ task[w] = "verify" /\ Return(w, FALSE)

(* No provider for the order, or a failed query: counts as unpaid. *)
QueryOrderFails(w) ==
    /\ pc[w] = "query" /\ OneFault
    /\ IF task[w] = "verify" THEN Finish(w, FALSE)
       ELSE Goto(w, "close") /\ UNCHANGED acked
    /\ UNCHANGED <<given, orderVars, grantVars, paid, payable, dropped, afterExpiry>>

(* CancelPayment, where the provider has it; its error is ignored. *)
CancelPayment(w) ==
    /\ pc[w] = "closeUpstream"
    /\ payable' \in {payable, FALSE}
    /\ Goto(w, "close")
    /\ UNCHANGED <<given, orderVars, grantVars, paid, acked, dropped, afterExpiry, faults>>

(* The upstream trade number is stored whatever the order's status is now,
   or storing it fails and the handler goes on. *)
PersistTradeNo(w) ==
    /\ pc[w] = "persist"
    /\ Goto(w, "toPaid")
    /\ \/ trade' = TRUE /\ WriteStatus(status) /\ UNCHANGED faults
       \/ OneFault /\ UNCHANGED <<status, trade, aged, leased>>
    /\ UNCHANGED <<given, paidAt, grantVars, remoteVars>>

(* Mutant: the sweep forgets the status it was asked to set. *)
CloseOrderCancelOnly(w) ==
    /\ pc[w] = "close"
    /\ \/ /\ status = "PENDING" /\ task[w] = "cancel"
          /\ WriteStatus("CANCELLED")
          /\ Finish(w, FALSE)
          /\ UNCHANGED <<given, paidAt, trade, grantVars, paid, payable, dropped, afterExpiry, faults>>
       \/ (status # "PENDING" \/ task[w] # "cancel") /\ Return(w, FALSE)

(* cancelCore's conditional UPDATE. *)
CloseOrder(w) ==
    /\ pc[w] = "close"
    /\ \/ /\ status = "PENDING"
          /\ WriteStatus(IF task[w] = "expire" THEN "EXPIRED" ELSE "CANCELLED")
          /\ Finish(w, FALSE)
          /\ UNCHANGED <<given, paidAt, trade, grantVars, paid, payable, dropped, afterExpiry, faults>>
       \/ status # "PENDING" /\ Return(w, FALSE)

-----------------------------------------------------------------------------
AcceptsPayment == status \in {"PENDING", "CANCELLED"} \/ (status = "EXPIRED" /\ ~aged)

(* confirmPayment: a payment of another provider, merchant or amount is
   refused, a notification with an error and an upstream query without one:
   the order stays as it is and the query still counts it as paid. *)
RefusePayment(w) == pc[w] = "toPaid" /\ ~matches /\ Return(w, FALSE)

ToPaid(w) ==
    /\ pc[w] = "toPaid" /\ matches
    /\ IF AcceptsPayment
       THEN WriteStatus("PAID") /\ paidAt' = TRUE /\ trade' = TRUE /\ Goto(w, "load")
       ELSE UNCHANGED orderVars /\ Goto(w, "reread")
    /\ UNCHANGED <<given, grantVars, remoteVars, faults>>

(* Mutant: an order that is being processed counts as processed. *)
AlreadyProcessedInProgress(w) ==
    /\ pc[w] = "reread"
    /\ \/ status \in {"PAID", "FAILED"} /\ Goto(w, "load")
          /\ UNCHANGED <<given, orderVars, grantVars, remoteVars, faults>>
       \/ status \notin {"PAID", "FAILED"} /\ Return(w, TRUE)

(* alreadyProcessed, for a notification that found no order to mark PAID.
   The audit row of a late payment is written at best: the notification is
   answered with success all the same. *)
AlreadyProcessed(w) ==
    /\ pc[w] = "reread"
    /\ \/ /\ status \in Owed
          /\ Goto(w, "load")
          /\ UNCHANGED <<given, orderVars, grantVars, remoteVars, faults>>
       \/ /\ status = "EXPIRED"
          /\ \/ afterExpiry' = TRUE /\ UNCHANGED <<dropped, faults>>
             \/ /\ OneFault
                /\ dropped' = (dropped \/ task[w] = "webhook")
                /\ UNCHANGED afterExpiry
          /\ Finish(w, TRUE)
          /\ UNCHANGED <<given, orderVars, grantVars, paid, payable>>
       \/ status \notin Owed \cup {"EXPIRED"} /\ Return(w, TRUE)

(* confirmPayment and alreadyProcessed answer nil when reading the order
   fails: the provider is told that the notification was handled. *)
AckOnReadError(w) ==
    /\ pc[w] \in {"toPaid", "reread"} /\ OneFault
    /\ Finish(w, TRUE)
    /\ dropped' = (dropped \/ task[w] = "webhook")
    /\ UNCHANGED <<given, orderVars, grantVars, paid, payable, afterExpiry>>

(* executeFulfillment and the checks of Execute*Fulfillment. *)
LoadOrder(w) ==
    /\ pc[w] = "load"
    /\ \/ /\ status \in Owed
          /\ Goto(w, "lease")
          /\ UNCHANGED <<given, orderVars, grantVars, remoteVars, faults>>
       \/ status \notin Owed /\ Return(w, status = "COMPLETED")

(* Mutant: a lease whose owner died is never taken over. *)
LeaseAvailableOnce == status \in {"PAID", "FAILED"}

LeaseAvailable == status \in {"PAID", "FAILED"} \/ (status = "RECHARGING" /\ aged)

(* acquirePaymentFulfillmentLease: the conditional UPDATE ... *)
AcquireLease(w) ==
    /\ pc[w] = "lease"
    /\ IF LeaseAvailable
       THEN WriteStatus("RECHARGING") /\ Goto(w, "reload")
       ELSE UNCHANGED <<status, aged, leased>> /\ Goto(w, "recheck")
    /\ UNCHANGED <<given, paidAt, trade, grantVars, remoteVars, faults>>

(* ... the re-read that explains a refusal ... *)
LeaseRefused(w) == pc[w] = "recheck" /\ Return(w, status = "COMPLETED")

(* ... and, in a statement of its own, the read of the version. *)
ReloadLease(w) ==
    /\ pc[w] = "reload"
    /\ \/ /\ status = "RECHARGING"
          /\ leased' = leased \cup {w}
          /\ Goto(w, IF kind = "balance" THEN "lookup" ELSE "group")
          /\ UNCHANGED <<given, status, paidAt, trade, aged, grantVars, remoteVars, faults>>
       \/ status # "RECHARGING" /\ Return(w, FALSE)

-----------------------------------------------------------------------------
(* Mutant: a code left unused by an earlier attempt is taken for done. *)
LookupCodeExists(w) ==
    /\ pc[w] = "lookup"
    /\ Goto(w, IF code = "none" THEN "create" ELSE "rebate")
    /\ UNCHANGED <<given, orderVars, grantVars, remoteVars, faults>>

(* doBalance: resolveRedeemAction decides from GetByCode. *)
LookupCode(w) ==
    /\ pc[w] = "lookup"
    /\ Goto(w, CASE code = "none" -> "create" [] code = "unused" -> "lock" [] code = "used" -> "rebate")
    /\ UNCHANGED <<given, orderVars, grantVars, remoteVars, faults>>

(* CreateCode: the code is unique. *)
CreateCode(w) ==
    /\ pc[w] = "create"
    /\ IF code = "none" THEN code' = "unused" /\ Goto(w, "lock")
       ELSE UNCHANGED code /\ Goto(w, "fail")
    /\ UNCHANGED <<given, orderVars, locked, assigned, claimed, grants, rebates, remoteVars, faults>>

(* acquireRedeemLock; an unreachable Redis lets the caller through. *)
AcquireRedeemLock(w) ==
    /\ pc[w] = "lock"
    /\ \/ ~locked /\ locked' = TRUE /\ Goto(w, "redeem") /\ UNCHANGED faults
       \/ locked /\ Goto(w, "fail") /\ UNCHANGED <<locked, faults>>
       \/ OneFault /\ Goto(w, "redeem") /\ UNCHANGED locked
    /\ UNCHANGED <<given, orderVars, code, assigned, claimed, grants, rebates, remoteVars>>

(* Mutant: Use marks the code by its id alone; the lock is relied upon. *)
UseCodeById == code # "none"

(* The row that Use's UPDATE ... WHERE status = 'unused' finds. *)
UseCode == code = "unused"

(* Redeem's transaction: Use (WHERE status = 'unused') and UpdateBalance
   commit together.  ok is what the caller is told; a commit whose answer is
   lost, or a failed re-read after it, is reported as an error. *)
Redeem(w) ==
    /\ pc[w] = "redeem"
    /\ IF UseCode THEN code' = "used" /\ grants' = grants + 1 ELSE UNCHANGED <<code, grants>>
    /\ pc' = [pc EXCEPT ![w] = "unlock"]
    /\ \/ ok' = [ok EXCEPT ![w] = UseCode] /\ UNCHANGED faults
       \/ UseCode /\ OneFault /\ UNCHANGED ok
    /\ UNCHANGED <<given, orderVars, locked, assigned, claimed, rebates, remoteVars, task, sawTrade>>

(* The deferred release deletes the key, whoever created it. *)
ReleaseRedeemLock(w) ==
    /\ pc[w] = "unlock"
    /\ locked' = FALSE
    /\ pc' = [pc EXCEPT ![w] = IF ok[w] THEN "rebate" ELSE "fail"]
    /\ ok' = [ok EXCEPT ![w] = FALSE]
    /\ UNCHANGED <<given, orderVars, code, assigned, claimed, grants, rebates, remoteVars,
                   task, sawTrade, faults>>

(* doSub: the group that was sold must still be there and active. *)
CheckGroup(w) ==
    /\ pc[w] = "group"
    /\ Goto(w, IF active THEN "assign" ELSE "fail")
    /\ UNCHANGED <<given, orderVars, grantVars, remoteVars, faults>>

(* ensurePaymentSubscriptionAssigned: one transaction that extends the
   subscription and inserts the unique audit row. *)
AssignSubscription(w) ==
    /\ pc[w] = "assign"
    /\ assigned' = TRUE
    /\ grants' = IF assigned THEN grants ELSE grants + 1
    /\ \/ Goto(w, "rebate") /\ UNCHANGED faults
       \/ OneFault /\ Goto(w, "fail")
    /\ UNCHANGED <<given, orderVars, code, locked, claimed, rebates, remoteVars>>

(* applyAffiliateRebateForOrder: claim row and accrual in one transaction. *)
ApplyRebate(w) ==
    /\ pc[w] = "rebate"
    /\ claimed' = TRUE
    /\ rebates' = IF claimed THEN rebates ELSE rebates + 1
    /\ \/ Goto(w, "complete") /\ UNCHANGED faults
       \/ OneFault /\ Goto(w, "fail")
    /\ UNCHANGED <<given, orderVars, code, locked, assigned, grants, remoteVars>>

HoldsLease(w) == status = "RECHARGING" /\ w \in leased

MarkCompleted(w) ==
    /\ pc[w] = "complete"
    /\ \/ /\ HoldsLease(w)
          /\ WriteStatus("COMPLETED")
          /\ \/ Finish(w, TRUE) /\ UNCHANGED faults
             \/ OneFault /\ Goto(w, "fail") /\ UNCHANGED acked
       \/ /\ ~HoldsLease(w)
          /\ Goto(w, "lost")
          /\ UNCHANGED <<status, aged, leased, acked, faults>>
    /\ UNCHANGED <<given, paidAt, trade, grantVars, paid, payable, dropped, afterExpiry>>

(* The re-read after a lost lease: someone else's completion is success. *)
LeaseLost(w) ==
    /\ pc[w] = "lost"
    /\ \/ status = "COMPLETED" /\ Return(w, TRUE)
       \/ /\ status # "COMPLETED"
          /\ Goto(w, "fail")
          /\ UNCHANGED <<given, orderVars, grantVars, remoteVars, faults>>

MarkFailed(w) ==
    /\ pc[w] = "fail"
    /\ \/ /\ HoldsLease(w)
          /\ WriteStatus("FAILED")
          /\ Finish(w, FALSE)
          /\ UNCHANGED <<given, paidAt, trade, grantVars, paid, payable, dropped, afterExpiry, faults>>
       \/ ~HoldsLease(w) /\ Return(w, FALSE)

-----------------------------------------------------------------------------
(* A call of the fulfilment fails without effect.  A failed lookup is read
   as "no such code"; a failed Redeem still runs its deferred release. *)
CallFails(w) ==
    /\ pc[w] \in {"lookup", "create", "lock", "redeem", "group", "assign", "rebate", "complete"}
    /\ OneFault
    /\ Goto(w, CASE pc[w] = "lookup" -> "create" [] pc[w] = "redeem" -> "unlock" [] OTHER -> "fail")
    /\ UNCHANGED <<given, orderVars, grantVars, remoteVars>>

(* The process dies, or the request's context is cancelled, between two
   calls: nothing after this point runs, the Redis lock included. *)
Crash(w) ==
    /\ pc[w] # "idle" /\ OneFault
    /\ Finish(w, FALSE)
    /\ leased' = leased \ {w}
    /\ UNCHANGED <<given, status, paidAt, trade, aged, grantVars, paid, payable, dropped, afterExpiry>>

(* Five minutes pass without an UPDATE.  While a worker is fulfilling, that
   is a stall of the worker, and stalls are bounded like the other faults. *)
Age ==
    /\ ~aged /\ aged' = TRUE
    /\ \A w \in Workers : pc[w] \notin Fulfilling
    /\ UNCHANGED <<given, status, paidAt, trade, leased, grantVars, remoteVars, workerVars, faults>>
Stall(w) ==
    /\ ~aged /\ aged' = TRUE
    /\ pc[w] \in Fulfilling /\ OneFault
    /\ UNCHANGED <<given, status, paidAt, trade, leased, grantVars, remoteVars, workerVars>>

(* redeemLockDuration passes: Redis drops the key. *)
LockExpires ==
    /\ locked /\ locked' = FALSE
    /\ UNCHANGED <<given, orderVars, code, assigned, claimed, grants, rebates, remoteVars, workerVars, faults>>

(* The user pays at the provider, at any time until it is closed there: what
   the order asks for, or something else. *)
UserPays ==
    /\ payable /\ ~paid /\ paid' = TRUE
    /\ matches' \in BOOLEAN
    /\ UNCHANGED <<kind, active, orderVars, grantVars, payable, acked, dropped, afterExpiry, workerVars, faults>>

(* An administrator disables the group of a subscription, at the cost of a
   fault (bound), and may enable it again or not. *)
ToggleGroup ==
    /\ kind = "subscription" /\ active' = ~active
    /\ IF active THEN OneFault ELSE UNCHANGED faults
    /\ UNCHANGED <<kind, matches, orderVars, grantVars, remoteVars, workerVars>>

(* A refund takes the completed order and may give it back (PaymentRefund). *)
RefundTakes ==
    /\ status = "COMPLETED" /\ WriteStatus("REFUNDING")
    /\ UNCHANGED <<given, paidAt, trade, grantVars, remoteVars, workerVars, faults>>
RefundRestores ==
    /\ status = "REFUNDING" /\ WriteStatus("COMPLETED")
    /\ UNCHANGED <<given, paidAt, trade, grantVars, remoteVars, workerVars, faults>>

(* A worker's own next call, when it succeeds or fails by the rules above. *)
Step(w) ==
    \/ QueryOrder(w) \/ CancelPayment(w) \/ PersistTradeNo(w) \/ CloseOrder(w)
    \/ RefusePayment(w) \/ ToPaid(w) \/ AlreadyProcessed(w) \/ LoadOrder(w)
    \/ AcquireLease(w) \/ LeaseRefused(w) \/ ReloadLease(w)
    \/ LookupCode(w) \/ CreateCode(w) \/ AcquireRedeemLock(w) \/ Redeem(w)
    \/ ReleaseRedeemLock(w) \/ CheckGroup(w) \/ AssignSubscription(w) \/ ApplyRebate(w)
    \/ MarkCompleted(w) \/ LeaseLost(w) \/ MarkFailed(w)

Start(w) ==
    \/ Deliver(w) \/ RetryFulfillment(w) \/ CancelOrder(w)
    \/ ExpireTimedOutOrders(w) \/ VerifyOrder(w)

Fault(w) == QueryOrderFails(w) \/ AckOnReadError(w) \/ CallFails(w) \/ Crash(w) \/ Stall(w)

Environment == Age \/ LockExpires \/ UserPays \/ ToggleGroup \/ RefundTakes \/ RefundRestores

Next == Environment \/ \E w \in Workers : Start(w) \/ Step(w) \/ Fault(w)

Spec == Init /\ [][Next]_vars

(* Every handler runs on; the provider redelivers until it is answered with
   success and the expiry sweep comes round every minute (both need a free
   worker, hence strong fairness); time passes.  Nothing forces a user, an
   administrator or a fault. *)
Fairness ==
    /\ \A w \in Workers : WF_vars(Step(w))
    /\ SF_vars(~acked /\ \E w \in Workers : Deliver(w))
    /\ SF_vars(\E w \in Workers : ExpireTimedOutOrders(w))
    /\ WF_vars(Age) /\ WF_vars(LockExpires)

FairSpec == Spec /\ Fairness

-----------------------------------------------------------------------------
(* What fulfilment promises, mapped onto PaymentContract. *)
Phase == CASE status = "PENDING" -> "open"
           [] status \in {"CANCELLED", "EXPIRED"} -> "closed"
           [] status \in Owed -> "owed"
           [] status \in Settled -> "settled"

Contract == INSTANCE PaymentContract WITH phase <- Phase, granted <- grants, rebated <- rebates

(* Every behaviour of the handlers, with crashes between any two calls,
   duplicated and concurrent notifications and lease takeovers, is one of
   the contract: exactly one grant, then one rebate, then settled for good. *)
ImplementsContract == Contract!Spec

(* A provider that was answered with success never calls again, so an order
   that still has to be fulfilled must not be acknowledged.  The exceptions
   are the code's own: the payment of an expired order is only put on record
   for a human, and a notification is dropped when confirmPayment or
   alreadyProcessed cannot read the order or cannot write that record. *)
AckedIsAccounted == acked => status \in Settled \/ afterExpiry \/ dropped

(* A complete order has delivered what it sold, whatever path led there. *)
SettledIsDelivered ==
    status \in Settled => /\ grants = 1 /\ rebates = 1
                          /\ IF kind = "balance" THEN code = "used" ELSE assigned

(* Only a payment the provider really took, and confirmPayment accepted as
   the order's own, leads to a grant. *)
GrantedOnlyIfPaid == grants > 0 => paid /\ paidAt /\ matches

(* A payment the order accepts ends in a settled order, on record as late, or
   dropped as AckedIsAccounted says, however handlers crash, stall and
   collide; a subscription, once its group stays active. *)
PaidIsSettled ==
    <>[]active => ((paid /\ matches) ~> (status \in Settled \/ afterExpiry \/ dropped))

(* An order does not stay pending: it is paid, cancelled or expired.  One
   whose payment is refused may: every sweep finds it paid at the provider,
   fails to fulfil it, and for that leaves it open. *)
PendingEnds == (status = "PENDING") ~> (status # "PENDING" \/ (paid /\ ~matches))

(* What docs/PAYMENT.md says of a user who paid in time and whose callback is
   delayed: "the system will reconcile automatically". *)
DelayedCallbackReconciled ==
    (kind = "balance" /\ paid /\ matches /\ status = "PENDING") ~> (status \in Settled)
=============================================================================
