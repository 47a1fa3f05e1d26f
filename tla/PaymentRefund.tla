---------------------------- MODULE PaymentRefund ----------------------------
(***************************************************************************)
(* The refund of one completed balance order: the user's request, the      *)
(* administrator's refund (deduct, ask the provider, roll back on failure) *)
(* and the later query of a refund the provider left pending.              *)
(*                                                                         *)
(* A worker is one HTTP request, cut at its database and provider calls.   *)
(* The user's balance is not kept: its use makes prepDeduct's min(amount,  *)
(* balance) any number up to the amount.  taken is what refunds of this    *)
(* order have taken from the balance and not given back.                   *)
(***************************************************************************)
EXTENDS Integers, Sequences

CONSTANTS
    Workers,    \* the requests that may run concurrently
    Total,      \* the order's amount
    Queryable,  \* the providers to consider: has QueryRefund (TRUE) or not
    MaxRefunds, \* bound: refund calls that reach the provider
    MaxFaults   \* bound: crashes, failed statements, ambiguous provider calls

ASSUME TotalAssumption == Total \in Nat \ {0}
ASSUME QueryableAssumption == Queryable \subseteq BOOLEAN
ASSUME BoundsAssumption == MaxRefunds \in Nat /\ MaxFaults \in Nat

VARIABLES
    queryable,     \* the order's provider implements RefundQueryProvider
    traded,        \* the order has a payment_trade_no
    status,        \* payment_orders.status
    refundAmount,  \* payment_orders.refund_amount
    taken,         \* net amount taken from the user's balance
    pendingRow,    \* audit row REFUND_PENDING: at most one (unique index)
    successRow,    \* audit row REFUND_SUCCESS exists
    rollback,      \* rollback failures: "none", "logged", or "lost" (no row)
    refunds,       \* the provider's refunds, oldest first
    pc,            \* per worker: its next call, and of its RefundPlan:
    amount, toDeduct,    \* the refund and what it takes from the balance,
    requested, refundId, \* the user had asked for it; the provider's refund
    faults

given == <<queryable, traded>>
orderVars == <<given, status, refundAmount>>
logVars   == <<pendingRow, successRow, rollback>>
planVars  == <<amount, toDeduct, requested, refundId>>
vars == <<orderVars, taken, logVars, refunds, pc, planVars, faults>>

Refundable == {"COMPLETED", "REFUND_REQUESTED", "REFUND_PENDING", "REFUND_FAILED"}
Refunded   == {"PARTIALLY_REFUNDED", "REFUNDED"}
Statuses   == Refundable \cup Refunded \cup {"REFUNDING"}

(* The amounts PrepareRefund lets through. *)
Amounts == 1..Total

(* The calls of ExecuteRefund while it holds REFUNDING, and all calls. *)
Executing == {"deduct", "gateway", "undo", "undoPending", "restore", "markFailed",
              "markOk", "markPending"}
Steps == Executing \cup {"idle", "prep", "lock", "logOk", "logPending",
                         "query", "finFail", "finDeduct", "finOk"}

OrderTypeOK ==
    /\ queryable \in BOOLEAN /\ traded \in BOOLEAN
    /\ status \in Statuses /\ refundAmount \in 0..Total
LedgerTypeOK == taken \in Int
LogTypeOK ==
    /\ pendingRow \subseteq [id : 0..MaxRefunds, rolledBack : BOOLEAN]
    /\ successRow \in BOOLEAN /\ rollback \in {"none", "logged", "lost"}
RemoteTypeOK ==
    /\ refunds \in Seq([amount : 0..Total, state : {"pending", "succeeded", "failed"}])
    /\ Len(refunds) <= MaxRefunds
WorkerTypeOK == pc \in [Workers -> Steps]
PlanTypeOK ==
    /\ amount \in [Workers -> 0..Total] /\ toDeduct \in [Workers -> 0..Total]
    /\ requested \in [Workers -> BOOLEAN] /\ refundId \in [Workers -> 0..MaxRefunds]
FaultsTypeOK == faults \in 0..MaxFaults
TypeOK ==
    /\ OrderTypeOK /\ LedgerTypeOK /\ LogTypeOK /\ RemoteTypeOK
    /\ WorkerTypeOK /\ PlanTypeOK /\ FaultsTypeOK

Init ==
    /\ queryable \in Queryable /\ traded \in BOOLEAN
    /\ status = "COMPLETED" /\ refundAmount = 0
    /\ taken = 0
    /\ pendingRow = {} /\ successRow = FALSE /\ rollback = "none"
    /\ refunds = <<>>
    /\ pc = [w \in Workers |-> "idle"]
    /\ amount = [w \in Workers |-> 0] /\ toDeduct = [w \in Workers |-> 0]
    /\ requested = [w \in Workers |-> FALSE] /\ refundId = [w \in Workers |-> 0]
    /\ faults = 0

-----------------------------------------------------------------------------
Goto(w, step) == pc' = [pc EXCEPT ![w] = step] /\ UNCHANGED planVars
GotoWith(w, step, deduction) ==
    /\ pc' = [pc EXCEPT ![w] = step] /\ toDeduct' = [toDeduct EXCEPT ![w] = deduction]
    /\ UNCHANGED <<amount, requested, refundId>>
Return(w) ==
    /\ pc' = [pc EXCEPT ![w] = "idle"]
    /\ amount' = [amount EXCEPT ![w] = 0] /\ toDeduct' = [toDeduct EXCEPT ![w] = 0]
    /\ requested' = [requested EXCEPT ![w] = FALSE] /\ refundId' = [refundId EXCEPT ![w] = 0]

(* A failure out of the budget; a failed statement has no effect. *)
OneFault == faults < MaxFaults /\ faults' = faults + 1

(* RequestRefund's conditional UPDATE; the balance may or may not suffice. *)
RequestRefund ==
    /\ status = "COMPLETED"
    /\ status' = "REFUND_REQUESTED" /\ refundAmount' = Total
    /\ UNCHANGED <<given, taken, logVars, refunds, pc, planVars, faults>>

(* PrepareRefund: the snapshot of the order the plan is made from. *)
PrepareRefund(w) ==
    /\ pc[w] = "idle" /\ status \in Refundable
    /\ \E amt \in Amounts : amount' = [amount EXCEPT ![w] = amt]
    /\ requested' = [requested EXCEPT ![w] = (status = "REFUND_REQUESTED")]
    /\ \E deduct \in BOOLEAN : pc' = [pc EXCEPT ![w] = IF deduct THEN "prep" ELSE "lock"]
    /\ UNCHANGED <<orderVars, taken, logVars, refunds, toDeduct, refundId, faults>>

(* prepDeduct: no more than the balance; nothing where it cannot be read
   and the administrator forces the refund. *)
PrepDeduct(w) ==
    /\ pc[w] = "prep"
    /\ \E d \in 0..amount[w] : GotoWith(w, "lock", d)
    /\ UNCHANGED <<orderVars, taken, logVars, refunds, faults>>

-----------------------------------------------------------------------------
(* Mutant: the lock is not conditional on the status. *)
LockRefundAnyStatus(w) ==
    /\ pc[w] = "lock"
    /\ status' = "REFUNDING" /\ Goto(w, "deduct")
    /\ UNCHANGED <<given, refundAmount, taken, logVars, refunds, faults>>

(* Mutant: an order that was refunded in part can be refunded again. *)
LockRefundPartial(w) ==
    /\ pc[w] = "lock"
    /\ \/ /\ status \in Refundable \cup {"PARTIALLY_REFUNDED"}
          /\ status' = "REFUNDING" /\ Goto(w, "deduct")
       \/ status \notin Refundable \cup {"PARTIALLY_REFUNDED"} /\ Return(w) /\ UNCHANGED status
    /\ UNCHANGED <<given, refundAmount, taken, logVars, refunds, faults>>

(* ExecuteRefund takes the order by a conditional UPDATE. *)
LockRefund(w) ==
    /\ pc[w] = "lock"
    /\ \/ status \in Refundable /\ status' = "REFUNDING" /\ Goto(w, "deduct")
       \/ status \notin Refundable /\ Return(w) /\ UNCHANGED status
    /\ UNCHANGED <<given, refundAmount, taken, logVars, refunds, faults>>

(* The deduction, skipped when an earlier one could not be rolled back; a
   failed read of the audit log counts as "no such row". *)
Deduct(w) ==
    /\ pc[w] = "deduct"
    /\ \/ /\ rollback = "logged" /\ toDeduct[w] > 0
          /\ GotoWith(w, "gateway", 0)
          /\ UNCHANGED <<taken, faults>>
       \/ /\ rollback # "logged" \/ toDeduct[w] = 0
          /\ taken' = taken + toDeduct[w]
          /\ Goto(w, "gateway") /\ UNCHANGED faults
       \/ /\ rollback = "logged" /\ toDeduct[w] > 0 /\ OneFault
          /\ taken' = taken + toDeduct[w]
          /\ Goto(w, "gateway")
       \/ /\ toDeduct[w] > 0 /\ OneFault
          /\ Goto(w, "restore") /\ UNCHANGED taken
    /\ UNCHANGED <<orderVars, logVars, refunds>>

(* A refund the provider has accepted. *)
Accepted(w, state) ==
    /\ Len(refunds) < MaxRefunds
    /\ refunds' = Append(refunds, [amount |-> amount[w], state |-> state])

(* gwRefund: without a trade number the provider is not asked and the refund
   passes for done; with one it is done, pending, refused, or done although
   no answer arrived. *)
GatewayRefund(w) ==
    /\ pc[w] = "gateway"
    /\ \/ ~traded /\ Goto(w, "markOk") /\ UNCHANGED <<refunds, faults>>
       \/ traded /\ Accepted(w, "succeeded") /\ Goto(w, "markOk") /\ UNCHANGED faults
       \/ /\ traded /\ Accepted(w, "pending")
          /\ refundId' = [refundId EXCEPT ![w] = Len(refunds) + 1]
          /\ pc' = [pc EXCEPT ![w] = "undoPending"]
          /\ UNCHANGED <<amount, toDeduct, requested, faults>>
       \/ traded /\ Goto(w, "undo") /\ UNCHANGED <<refunds, faults>>
       \/ /\ traded /\ \E state \in {"pending", "succeeded"} : Accepted(w, state)
          /\ Goto(w, "undo") /\ OneFault
    /\ UNCHANGED <<orderVars, taken, logVars>>

AfterUndo(w) == IF pc[w] = "undo" THEN "restore" ELSE "markPending"

(* Mutant: the order is restored and the deduction forgotten. *)
RollbackRefundForgets(w) ==
    /\ pc[w] \in {"undo", "undoPending"}
    /\ GotoWith(w, AfterUndo(w), 0)
    /\ UNCHANGED <<orderVars, taken, logVars, refunds, faults>>

(* RollbackRefund.  A failure leaves the deduction in place and is put on
   record, unless that write fails too. *)
RollbackRefund(w) ==
    /\ pc[w] \in {"undo", "undoPending"}
    /\ \/ /\ taken' = taken - toDeduct[w]
          /\ GotoWith(w, AfterUndo(w), 0)
          /\ UNCHANGED <<rollback, faults>>
       \/ /\ toDeduct[w] > 0 /\ OneFault
          /\ rollback' \in {"logged", IF rollback = "none" THEN "lost" ELSE rollback}
          /\ Goto(w, IF pc[w] = "undo" THEN "markFailed" ELSE "markPending")
          /\ UNCHANGED taken
    /\ UNCHANGED <<orderVars, pendingRow, successRow, refunds>>

(* restoreStatus: unconditional, to the status of the plan's snapshot. *)
RestoreStatus(w) ==
    /\ pc[w] = "restore" /\ Return(w)
    /\ \/ /\ status' = IF requested[w] THEN "REFUND_REQUESTED" ELSE "COMPLETED"
          /\ UNCHANGED faults
       \/ OneFault /\ UNCHANGED status
    /\ UNCHANGED <<given, refundAmount, taken, logVars, refunds>>

(* handleGwFail after a failed rollback, and finalizeRefundFailed. *)
MarkRefundFailed(w) ==
    /\ pc[w] \in {"markFailed", "finFail"} /\ Return(w)
    /\ \/ status' = "REFUND_FAILED" /\ UNCHANGED faults
       \/ OneFault /\ UNCHANGED status
    /\ UNCHANGED <<given, refundAmount, taken, logVars, refunds>>

(* markRefundOk. *)
MarkRefundOk(w) ==
    /\ pc[w] \in {"markOk", "finOk"}
    /\ \/ /\ status' = IF amount[w] < Total THEN "PARTIALLY_REFUNDED" ELSE "REFUNDED"
          /\ refundAmount' = amount[w]
          /\ Goto(w, "logOk") /\ UNCHANGED faults
       \/ OneFault /\ Return(w) /\ UNCHANGED <<status, refundAmount>>
    /\ UNCHANGED <<given, taken, logVars, refunds>>

LogSuccess(w) ==
    /\ pc[w] = "logOk" /\ Return(w)
    /\ \/ successRow' = TRUE /\ UNCHANGED faults
       \/ OneFault /\ UNCHANGED successRow
    /\ UNCHANGED <<orderVars, taken, pendingRow, rollback, refunds>>

(* markRefundPending: the status first, the audit row in a write of its own. *)
MarkRefundPending(w) ==
    /\ pc[w] = "markPending"
    /\ \/ /\ status' = "REFUND_PENDING" /\ refundAmount' = amount[w]
          /\ Goto(w, "logPending") /\ UNCHANGED faults
       \/ OneFault /\ Return(w) /\ UNCHANGED <<status, refundAmount>>
    /\ UNCHANGED <<given, taken, logVars, refunds>>

(* The unique index on (order_id, action) keeps the order's first row. *)
LogPending(w) ==
    /\ pc[w] = "logPending" /\ Return(w)
    /\ \/ /\ pendingRow' = IF pendingRow # {} THEN pendingRow
                          ELSE {[id |-> refundId[w], rolledBack |-> (toDeduct[w] = 0)]}
          /\ UNCHANGED faults
       \/ OneFault /\ UNCHANGED pendingRow
    /\ UNCHANGED <<orderVars, taken, successRow, rollback, refunds>>

-----------------------------------------------------------------------------
(* QueryAndFinalizeRefund: the order is read ... *)
BeginFinalize(w) ==
    /\ pc[w] = "idle" /\ queryable /\ status = "REFUND_PENDING"
    /\ pc' = [pc EXCEPT ![w] = "query"]
    /\ amount' = [amount EXCEPT ![w] = refundAmount]
    /\ UNCHANGED <<orderVars, taken, logVars, refunds, toDeduct, requested, refundId, faults>>

(* latestRefundPendingDetail: the audit row, or its default. *)
Default == [id |-> Len(refunds), rolledBack |-> TRUE]
Details == IF pendingRow = {} THEN {Default} ELSE pendingRow

(* Mutant: a refund that is still pending is taken for done. *)
QueryRefundTrusting(w) ==
    /\ pc[w] = "query"
    /\ \E row \in Details :
          /\ row.id \in DOMAIN refunds
          /\ \/ /\ refunds[row.id].state # "failed"
                /\ GotoWith(w, "finDeduct", IF row.rolledBack THEN amount[w] ELSE 0)
             \/ refunds[row.id].state = "failed" /\ Goto(w, "finFail")
    /\ UNCHANGED <<orderVars, taken, logVars, refunds, faults>>

(* ... the provider is asked about the refund that the row names (about the
   latest without the row, or when reading it fails), and money the row does
   not report as kept is to be taken (again) if that refund has succeeded. *)
QueryRefund(w) ==
    /\ pc[w] = "query"
    /\ \E row \in Details \cup {Default} :
          /\ IF row \in Details THEN UNCHANGED faults ELSE OneFault
          /\ row.id \in DOMAIN refunds
          /\ \/ /\ refunds[row.id].state = "succeeded"
                /\ GotoWith(w, "finDeduct", IF row.rolledBack THEN amount[w] ELSE 0)
             \/ refunds[row.id].state = "failed" /\ Goto(w, "finFail")
             \/ refunds[row.id].state = "pending" /\ Return(w)
    /\ UNCHANGED <<orderVars, taken, logVars, refunds>>

(* applyRefundFinalDeduction; a failed read counts as "no such row". *)
FinalDeduct(w) ==
    /\ pc[w] = "finDeduct"
    /\ \/ /\ successRow /\ GotoWith(w, "finOk", 0) /\ UNCHANGED <<taken, faults>>
       \/ /\ taken' = taken + toDeduct[w] /\ Goto(w, "finOk")
          /\ IF successRow THEN OneFault ELSE UNCHANGED faults
       \/ OneFault /\ Return(w) /\ UNCHANGED taken
    /\ UNCHANGED <<orderVars, logVars, refunds>>

-----------------------------------------------------------------------------
(* The provider decides a pending refund. *)
ProviderSettles ==
    /\ \E i \in DOMAIN refunds, state \in {"succeeded", "failed"} :
          /\ refunds[i].state = "pending"
          /\ refunds' = [refunds EXCEPT ![i].state = state]
    /\ UNCHANGED <<orderVars, taken, logVars, pc, planVars, faults>>

(* The process dies or the request is cancelled, or, before the lock and in
   the query, a read fails and the request is answered with an error. *)
Crash(w) ==
    /\ pc[w] # "idle" /\ OneFault /\ Return(w)
    /\ UNCHANGED <<orderVars, taken, logVars, refunds>>

Step(w) ==
    \/ PrepareRefund(w) \/ PrepDeduct(w) \/ LockRefund(w) \/ Deduct(w) \/ GatewayRefund(w)
    \/ RollbackRefund(w) \/ RestoreStatus(w) \/ MarkRefundFailed(w) \/ MarkRefundOk(w)
    \/ LogSuccess(w) \/ MarkRefundPending(w) \/ LogPending(w)
    \/ BeginFinalize(w) \/ QueryRefund(w) \/ FinalDeduct(w) \/ Crash(w)

Next == RequestRefund \/ ProviderSettles \/ \E w \in Workers : Step(w)

Spec == Init /\ [][Next]_vars

-----------------------------------------------------------------------------
(* An order that is back to complete, or to a request that waits for the
   administrator, has its money back, whichever request gave the refund up
   and wherever it failed; unless a rollback failed.  For a provider whose
   refunds cannot be queried: QueryAndFinalizeRefund takes no lock, and two
   of its calls, or one that failed and was repeated, deduct twice. *)
RestoredIsUndeducted ==
    ~queryable /\ status \in {"COMPLETED", "REFUND_REQUESTED"}
        => taken = 0 \/ rollback # "none"

(* ... and a refunded order has cost the user no more than the refund. *)
NeverOvercharged ==
    ~queryable /\ status \in Refunded => taken <= refundAmount \/ rollback # "none"

(* An order is only called refunded for a refund the provider has made, of
   that amount where no query can have asked about another one.  An order
   without a trade number is the code's exception: gwRefund reports success
   without asking the provider, and nothing but the status says so. *)
RefundedIsReal ==
    traded /\ status \in Refunded =>
        \E i \in DOMAIN refunds : /\ refunds[i].state = "succeeded"
                                  /\ queryable \/ refunds[i].amount = refundAmount

(* A refunded order stays refunded, and nothing more is taken for it,
   whatever plan an older request still holds. *)
RefundedIsFinal ==
    [][~queryable /\ status \in Refunded => UNCHANGED <<orderVars, taken>>]_vars

(* payment_refund.go:292, "Skip balance deduction on retry if previous
   attempt already deducted but failed to roll back (REFUND_ROLLBACK_FAILED
   in audit log)": nothing is taken while that row exists.  But the retry that
   skips its deduction and is left pending reports deductionRollbackOK, there
   being nothing to roll back, and the finalizer deducts on its word. *)
RetryNeverDeductsAgain ==
    [][rollback = "logged" => taken' <= taken]_vars
=============================================================================
