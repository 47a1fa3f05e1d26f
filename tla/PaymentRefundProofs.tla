-------------------------- MODULE PaymentRefundProofs --------------------------
(***************************************************************************)
(* Safety of PaymentRefund for any requests, amounts and bounds.           *)
(* Where the provider has no refund query, REFUNDING is a lock: LockInv.   *)
(* Under it taken is what the one request that holds the lock has still to *)
(* give back: BalanceInv.  MadeInv, which holds for every provider, ties   *)
(* the status to the refunds the provider has made.                        *)
(***************************************************************************)
EXTENDS PaymentRefund, TLAPS

Made == \E i \in DOMAIN refunds : refunds[i].state = "succeeded"
MadeOf(amt) == \E i \in DOMAIN refunds : refunds[i].state = "succeeded" /\ refunds[i].amount = amt

Finalizing == {"query", "finFail", "finDeduct", "finOk"}

LockInv ==
    ~queryable => /\ \A w \in Workers : pc[w] \notin Finalizing
                  /\ \A w \in Workers : pc[w] \in Executing => status = "REFUNDING"
                  /\ \A v, w \in Workers : pc[v] \in Executing /\ pc[w] \in Executing => v = w

PlanInv ==
    \A w \in Workers : /\ toDeduct[w] <= amount[w]
                       /\ pc[w] = "idle" => toDeduct[w] = 0

HandInv(w) ==
    /\ pc[w] # "markFailed"
    /\ pc[w] \in {"deduct", "restore", "markPending"} => taken = 0
    /\ pc[w] \in {"gateway", "undo", "undoPending", "markOk"} => taken = toDeduct[w]

BalanceInv ==
    ~queryable /\ rollback = "none" =>
        /\ status \in Refundable => taken = 0
        /\ status \in Refunded => taken <= refundAmount
        /\ \A w \in Workers : HandInv(w)

MadeInv ==
    traded => /\ status \in Refunded => Made /\ (queryable \/ MadeOf(refundAmount))
              /\ \A w \in Workers : pc[w] = "markOk" => MadeOf(amount[w])
              /\ \A w \in Workers : pc[w] \in {"finDeduct", "finOk"} => Made

IInv == TypeOK /\ LockInv /\ PlanInv /\ BalanceInv /\ MadeInv
-----------------------------------------------------------------------------
(* Every request moves only itself, and to a call of the program. *)
LEMMA StepTypesWorker == ASSUME TypeOK, NEW w \in Workers, Step(w) PROVE WorkerTypeOK'
  BY DEF TypeOK, WorkerTypeOK, Steps, Executing, Step, Goto, GotoWith, Return, AfterUndo,
      PrepareRefund, PrepDeduct, LockRefund, Deduct, GatewayRefund, RollbackRefund,
      RestoreStatus, MarkRefundFailed, MarkRefundOk, LogSuccess, MarkRefundPending,
      LogPending, BeginFinalize, QueryRefund, FinalDeduct, Crash

(* What the finalizer can learn from the provider. *)
LEMMA QueryOutcome ==
    ASSUME NEW w \in Workers, QueryRefund(w)
    PROVE  /\ pc[w] = "query"
           /\ \/ Made /\ \E d \in {0, amount[w]} : GotoWith(w, "finDeduct", d)
              \/ Goto(w, "finFail")
              \/ Return(w)
           /\ UNCHANGED <<orderVars, taken, logVars, refunds>>
           /\ OneFault \/ UNCHANGED faults
<1>1. PICK row \in Details \cup {Default} :
        /\ IF row \in Details THEN UNCHANGED faults ELSE OneFault
        /\ row.id \in DOMAIN refunds
        /\ \/ /\ refunds[row.id].state = "succeeded"
              /\ GotoWith(w, "finDeduct", IF row.rolledBack THEN amount[w] ELSE 0)
           \/ refunds[row.id].state = "failed" /\ Goto(w, "finFail")
           \/ refunds[row.id].state = "pending" /\ Return(w)
  BY Zenon DEF QueryRefund
<1>2. (IF row.rolledBack THEN amount[w] ELSE 0) \in {0, amount[w]}
  BY Zenon
<1>3. refunds[row.id].state = "succeeded" => Made
  BY <1>1, Zenon DEF Made
<1> QED BY <1>1, <1>2, <1>3, Zenon DEF QueryRefund

(* A request that returns or goes on leaves its plan well typed. *)
LEMMA ReturnTypes == ASSUME PlanTypeOK, NEW w \in Workers, Return(w) PROVE PlanTypeOK'
<1> USE TotalAssumption, BoundsAssumption
<1>1. requested' \in [Workers -> BOOLEAN]
  BY ZenonT(20) DEF Return, PlanTypeOK
<1>2. amount' \in [Workers -> 0..Total] /\ toDeduct' \in [Workers -> 0..Total]
  BY DEF Return, PlanTypeOK
<1>3. refundId' \in [Workers -> 0..MaxRefunds]
  BY DEF Return, PlanTypeOK
<1> QED BY <1>1, <1>2, <1>3 DEF PlanTypeOK

(* A request that only goes on leaves its plan alone. *)
LEMMA GotoTypes == ASSUME PlanTypeOK, NEW w \in Workers, NEW step, Goto(w, step) PROVE PlanTypeOK'
  BY DEF Goto, planVars, PlanTypeOK

(* A changed deduction within the order's amount leaves the plan well typed. *)
LEMMA GotoWithTypes ==
    ASSUME PlanTypeOK, NEW w \in Workers, NEW step, NEW d \in 0..Total, GotoWith(w, step, d)
    PROVE  PlanTypeOK'
  BY DEF GotoWith, PlanTypeOK

(* A plan never deducts or refunds more than the order's amount. *)
LEMMA StepTypesPlan == ASSUME TypeOK, NEW w \in Workers, Step(w) PROVE PlanTypeOK'
<1> USE TotalAssumption, BoundsAssumption DEF TypeOK
<1>1. CASE PrepareRefund(w)
  BY <1>1 DEF PrepareRefund, Amounts, PlanTypeOK
<1>2. CASE PrepDeduct(w)
  BY <1>2, GotoWithTypes DEF PrepDeduct, PlanTypeOK
<1>3. CASE GatewayRefund(w)
  BY <1>3 DEF GatewayRefund, Accepted, Goto, planVars, RemoteTypeOK, PlanTypeOK
<1>4. CASE BeginFinalize(w)
  BY <1>4 DEF BeginFinalize, OrderTypeOK, PlanTypeOK
<1>5. CASE QueryRefund(w)
  <2>1. ASSUME NEW d \in {0, amount[w]}, GotoWith(w, "finDeduct", d) PROVE PlanTypeOK'
    <3>1. d \in 0..Total
      BY DEF PlanTypeOK
    <3> QED BY <2>1, <3>1, GotoWithTypes
  <2>2. ASSUME Goto(w, "finFail") PROVE PlanTypeOK'
    BY <2>2, GotoTypes
  <2> QED BY <1>5, <2>1, <2>2, ReturnTypes, QueryOutcome, Zenon
<1>6. CASE LockRefund(w) \/ MarkRefundOk(w) \/ MarkRefundPending(w)
  BY <1>6, GotoTypes, ReturnTypes, Zenon DEF LockRefund, MarkRefundOk, MarkRefundPending
<1>7. CASE Deduct(w) \/ RollbackRefund(w) \/ FinalDeduct(w)
  <2>1. 0 \in 0..Total
    OBVIOUS
  <2> QED BY <1>7, <2>1, GotoTypes, GotoWithTypes, ReturnTypes, Zenon DEF Deduct, RollbackRefund, FinalDeduct
<1>8. CASE RestoreStatus(w) \/ MarkRefundFailed(w) \/ LogSuccess(w) \/ LogPending(w) \/ Crash(w)
  BY <1>8, ReturnTypes, Zenon DEF RestoreStatus, MarkRefundFailed, LogSuccess, LogPending, Crash
<1> QED BY <1>1, <1>2, <1>3, <1>4, <1>5, <1>6, <1>7, <1>8 DEF Step

(* Status, ledger, audit rows and fault budget stay well typed. *)
LEMMA StepTypesOrder ==
    ASSUME TypeOK, NEW w \in Workers, Step(w)
    PROVE  OrderTypeOK' /\ LedgerTypeOK' /\ FaultsTypeOK'
<1> USE TotalAssumption, BoundsAssumption DEF TypeOK
<1>1. OrderTypeOK'
  BY DEF OrderTypeOK, PlanTypeOK, Statuses, Refundable, Refunded, given, orderVars, Step,
      PrepareRefund, PrepDeduct, LockRefund, Deduct, GatewayRefund, RollbackRefund,
      RestoreStatus, MarkRefundFailed, MarkRefundOk, LogSuccess, MarkRefundPending,
      LogPending, BeginFinalize, QueryRefund, FinalDeduct, Crash
<1>2. LedgerTypeOK'
  BY DEF LedgerTypeOK, PlanTypeOK, Step,
      PrepareRefund, PrepDeduct, LockRefund, Deduct, GatewayRefund, RollbackRefund,
      RestoreStatus, MarkRefundFailed, MarkRefundOk, LogSuccess, MarkRefundPending,
      LogPending, BeginFinalize, QueryRefund, FinalDeduct, Crash
<1>3. FaultsTypeOK'
  BY DEF FaultsTypeOK, OneFault, Step,
      PrepareRefund, PrepDeduct, LockRefund, Deduct, GatewayRefund, RollbackRefund,
      RestoreStatus, MarkRefundFailed, MarkRefundOk, LogSuccess, MarkRefundPending,
      LogPending, BeginFinalize, QueryRefund, FinalDeduct, Crash
<1> QED BY <1>1, <1>2, <1>3

(* The audit rows stay well typed. *)
LEMMA StepTypesLog == ASSUME TypeOK, NEW w \in Workers, Step(w) PROVE LogTypeOK'
<1> USE DEF TypeOK, LogTypeOK
<1>1. CASE LogPending(w)
  <2> DEFINE row == [id |-> refundId[w], rolledBack |-> (toDeduct[w] = 0)]
  <2>1. refundId[w] \in 0..MaxRefunds /\ (toDeduct[w] = 0) \in BOOLEAN
    BY DEF PlanTypeOK
  <2>2. row \in [id : 0..MaxRefunds, rolledBack : BOOLEAN]
    BY <2>1
  <2>3. pendingRow' \in {pendingRow, {row}} /\ UNCHANGED <<successRow, rollback>>
    BY <1>1 DEF LogPending
  <2> HIDE DEF row
  <2> QED BY <2>2, <2>3
<1>2. CASE LogSuccess(w)
  BY <1>2 DEF LogSuccess
<1>3. CASE RollbackRefund(w)
  BY <1>3 DEF RollbackRefund
<1>4. CASE ~(LogPending(w) \/ LogSuccess(w) \/ RollbackRefund(w))
  <2>1. UNCHANGED logVars
    BY <1>4 DEF Step, logVars,
        PrepareRefund, PrepDeduct, LockRefund, Deduct, GatewayRefund, RollbackRefund,
      RestoreStatus, MarkRefundFailed, MarkRefundOk, LogSuccess, MarkRefundPending,
      LogPending, BeginFinalize, QueryRefund, FinalDeduct, Crash
  <2> QED BY <2>1 DEF logVars
<1> QED BY <1>1, <1>2, <1>3, <1>4

(* The provider's list of refunds stays well typed. *)
LEMMA StepTypesRemote == ASSUME TypeOK, NEW w \in Workers, Step(w) PROVE RemoteTypeOK'
<1> USE DEF TypeOK, RemoteTypeOK
<1>1. CASE GatewayRefund(w)
  <2> DEFINE Refund == [amount : 0..Total, state : {"pending", "succeeded", "failed"}]
  <2>1. \/ UNCHANGED refunds
        \/ \E state \in {"pending", "succeeded"} : Accepted(w, state)
    BY <1>1, Zenon DEF GatewayRefund
  <2>2. ASSUME NEW state \in {"pending", "succeeded"}, Accepted(w, state)
        PROVE  RemoteTypeOK'
    <3>1. [amount |-> amount[w], state |-> state] \in Refund
      BY DEF PlanTypeOK
    <3> DEFINE new == [amount |-> amount[w], state |-> state]
    <3>2. refunds' = Append(refunds, new) /\ Len(refunds) < MaxRefunds
      BY <2>2 DEF Accepted
    <3> HIDE DEF new, Refund
    <3>3. refunds \in Seq(Refund) /\ Len(refunds) \in Nat
      BY DEF Refund
    <3>4. Append(refunds, new) \in Seq(Refund) /\ Len(Append(refunds, new)) = Len(refunds) + 1
      BY <3>1, <3>3 DEF new
    <3> QED BY <3>2, <3>3, <3>4, BoundsAssumption DEF Refund
  <2> QED BY <2>1, <2>2
<1>2. CASE ~GatewayRefund(w)
  <2>1. UNCHANGED refunds
    BY <1>2 DEF Step,
      PrepareRefund, PrepDeduct, LockRefund, Deduct, GatewayRefund, RollbackRefund,
      RestoreStatus, MarkRefundFailed, MarkRefundOk, LogSuccess, MarkRefundPending,
      LogPending, BeginFinalize, QueryRefund, FinalDeduct, Crash
  <2> QED BY <2>1
<1> QED BY <1>1, <1>2

-----------------------------------------------------------------------------
(* Without a refund query, one request at a time is between taking the order
   and giving it back, and the order says so. *)
LEMMA StepLock == ASSUME TypeOK, LockInv, NEW w \in Workers, Step(w) PROVE LockInv'
<1> USE DEF TypeOK, WorkerTypeOK, LockInv, Executing, Finalizing
<1>1. CASE PrepareRefund(w) \/ PrepDeduct(w) \/ LockRefund(w)
  BY <1>1 DEF PrepareRefund, PrepDeduct, LockRefund, Goto, GotoWith, Return, given, orderVars, Refundable
<1>2. CASE Deduct(w) \/ GatewayRefund(w) \/ RollbackRefund(w)
  BY <1>2 DEF Deduct, GatewayRefund, RollbackRefund, Goto, GotoWith, Return, AfterUndo, given, orderVars
<1>3. CASE RestoreStatus(w) \/ MarkRefundFailed(w)
  BY <1>3 DEF RestoreStatus, MarkRefundFailed, Return, given
<1>4. CASE MarkRefundOk(w) \/ MarkRefundPending(w)
  BY <1>4 DEF MarkRefundOk, MarkRefundPending, Goto, Return, given
<1>5. CASE LogSuccess(w) \/ LogPending(w) \/ Crash(w)
  BY <1>5 DEF LogSuccess, LogPending, Crash, Return, given, orderVars
<1>6. CASE BeginFinalize(w) \/ QueryRefund(w) \/ FinalDeduct(w)
  BY <1>6 DEF BeginFinalize, QueryRefund, FinalDeduct, given, orderVars
<1> QED BY <1>1, <1>2, <1>3, <1>4, <1>5, <1>6 DEF Step

(* No plan deducts more than it refunds. *)
LEMMA StepPlan == ASSUME TypeOK, PlanInv, LockInv, NEW w \in Workers, Step(w) PROVE PlanInv'
<1> USE DEF TypeOK, WorkerTypeOK, PlanTypeOK, PlanInv
<1>1. CASE PrepDeduct(w)
  BY <1>1 DEF PrepDeduct, GotoWith
<1>2. CASE Deduct(w) \/ RollbackRefund(w) \/ FinalDeduct(w)
  BY <1>2 DEF Deduct, RollbackRefund, FinalDeduct, Goto, GotoWith, Return, AfterUndo, planVars
<1>3. CASE QueryRefund(w)
  BY <1>3, QueryOutcome DEF Goto, GotoWith, Return, planVars
<1>4. CASE LockRefund(w) \/ GatewayRefund(w) \/ RestoreStatus(w) \/ MarkRefundFailed(w)
  BY <1>4 DEF LockRefund, GatewayRefund, RestoreStatus, MarkRefundFailed, Goto, Return, planVars
<1>5. CASE MarkRefundOk(w) \/ LogSuccess(w) \/ MarkRefundPending(w) \/ LogPending(w) \/ Crash(w)
  BY <1>5 DEF MarkRefundOk, LogSuccess, MarkRefundPending, LogPending, Crash, Goto, Return, planVars
<1>6. CASE PrepareRefund(w)
  BY <1>6 DEF PrepareRefund, Amounts
<1>7. CASE BeginFinalize(w)
  BY <1>7 DEF BeginFinalize, OrderTypeOK
<1> QED BY <1>1, <1>2, <1>3, <1>4, <1>5, <1>6, <1>7 DEF Step

(* What is taken is what the one request at work has still to give back. *)
LEMMA StepBalance ==
    ASSUME TypeOK, LockInv, PlanInv, BalanceInv, NEW w \in Workers, Step(w)
    PROVE  BalanceInv'
<1> SUFFICES ASSUME ~queryable', rollback' = "none"
             PROVE  /\ status' \in Refundable => taken' = 0
                    /\ status' \in Refunded => taken' <= refundAmount'
                    /\ \A v \in Workers : HandInv(v)'
  BY DEF BalanceInv
<1>0. ~queryable /\ rollback = "none"
  BY DEF Step, given, orderVars, logVars,
      PrepareRefund, PrepDeduct, LockRefund, Deduct, GatewayRefund, RollbackRefund,
      RestoreStatus, MarkRefundFailed, MarkRefundOk, LogSuccess, MarkRefundPending,
      LogPending, BeginFinalize, QueryRefund, FinalDeduct, Crash
<1>1. pc[w] \notin Finalizing /\ \A v \in Workers : pc[w] \in Executing /\ pc[v] \in Executing => v = w
  BY <1>0 DEF LockInv
<1> USE <1>0 DEF BalanceInv, HandInv, TypeOK, WorkerTypeOK, PlanTypeOK, LedgerTypeOK, Refundable, Refunded
<1>2. CASE PrepareRefund(w) \/ PrepDeduct(w) \/ LockRefund(w)
  BY <1>2 DEF PrepareRefund, PrepDeduct, LockRefund, Goto, GotoWith, Return, given, orderVars, planVars,
      LockInv, Executing
<1>3. CASE Deduct(w)
  BY <1>1, <1>3 DEF Deduct, Goto, GotoWith, given, orderVars, planVars, Executing, LockInv
<1>4. CASE GatewayRefund(w)
  BY <1>1, <1>4 DEF GatewayRefund, Goto, given, orderVars, planVars, Executing, LockInv
<1>5. CASE RollbackRefund(w)
  BY <1>1, <1>5 DEF RollbackRefund, Goto, GotoWith, AfterUndo, given, orderVars, planVars, Executing, LockInv
<1>6. CASE RestoreStatus(w) \/ MarkRefundFailed(w)
  BY <1>1, <1>6 DEF RestoreStatus, MarkRefundFailed, Return, given, Executing, Finalizing, LockInv
<1>7. CASE MarkRefundOk(w)
  BY <1>1, <1>7 DEF MarkRefundOk, Goto, Return, given, planVars, Executing, Finalizing, LockInv, PlanInv
<1>8. CASE MarkRefundPending(w)
  BY <1>1, <1>8 DEF MarkRefundPending, Goto, Return, given, planVars, Executing, LockInv
<1>9. CASE LogSuccess(w) \/ LogPending(w) \/ Crash(w)
  BY <1>9 DEF LogSuccess, LogPending, Crash, Return, given, orderVars
<1>10. CASE BeginFinalize(w) \/ QueryRefund(w) \/ FinalDeduct(w)
  BY <1>0, <1>1, <1>10 DEF BeginFinalize, QueryRefund, FinalDeduct, Finalizing
<1> QED BY <1>2, <1>3, <1>4, <1>5, <1>6, <1>7, <1>8, <1>9, <1>10 DEF Step

(* Refunds the provider has made stay made. *)
LEMMA MadeStable ==
    ASSUME RemoteTypeOK,
           \/ UNCHANGED refunds
           \/ \E x : refunds' = Append(refunds, x)
    PROVE  (Made => Made') /\ \A amt : MadeOf(amt) => MadeOf(amt)'
<1>1. \A i \in DOMAIN refunds : i \in DOMAIN refunds' /\ refunds'[i] = refunds[i]
  BY DEF RemoteTypeOK
<1>2. Made => Made'
  BY <1>1, Zenon DEF Made
<1>3. ASSUME NEW amt, MadeOf(amt) PROVE MadeOf(amt)'
  BY <1>1, <1>3, Zenon DEF MadeOf
<1> QED BY <1>2, <1>3

(* No request unmakes a refund. *)
LEMMA StepKeepsMade ==
    ASSUME TypeOK, NEW w \in Workers, Step(w)
    PROVE  (Made => Made') /\ \A amt : MadeOf(amt) => MadeOf(amt)'
<1>1. CASE GatewayRefund(w)
  <2>1. UNCHANGED refunds \/ \E state : Accepted(w, state)
    BY <1>1, Zenon DEF GatewayRefund
  <2>2. UNCHANGED refunds \/ \E x : refunds' = Append(refunds, x)
    BY <2>1, Zenon DEF Accepted
  <2> QED BY <2>2, MadeStable DEF TypeOK
<1>2. CASE ~GatewayRefund(w)
  <2>1. UNCHANGED refunds
    BY <1>2 DEF Step,
      PrepareRefund, PrepDeduct, LockRefund, Deduct, GatewayRefund, RollbackRefund,
      RestoreStatus, MarkRefundFailed, MarkRefundOk, LogSuccess, MarkRefundPending,
      LogPending, BeginFinalize, QueryRefund, FinalDeduct, Crash
  <2> QED BY <2>1, MadeStable DEF TypeOK
<1> QED BY <1>1, <1>2

(* An order is called refunded only after the provider has made the refund. *)
LEMMA StepMade == ASSUME TypeOK, LockInv, MadeInv, NEW w \in Workers, Step(w) PROVE MadeInv'
<1>0. (Made => Made') /\ \A amt : MadeOf(amt) => MadeOf(amt)'
  BY StepKeepsMade
<1> USE DEF TypeOK, OrderTypeOK, WorkerTypeOK, PlanTypeOK
<1>1. CASE GatewayRefund(w)
  <2>1. ASSUME Accepted(w, "succeeded") PROVE MadeOf(amount[w])'
    <3>1. /\ Len(refunds) + 1 \in DOMAIN refunds'
          /\ refunds'[Len(refunds) + 1] = [amount |-> amount[w], state |-> "succeeded"]
      BY <2>1 DEF Accepted, RemoteTypeOK
    <3>2. amount' = amount
      BY <1>1 DEF GatewayRefund, Goto, planVars
    <3>3. /\ refunds'[Len(refunds) + 1].state = "succeeded"
          /\ refunds'[Len(refunds) + 1].amount = amount[w]
      BY <3>1
    <3> QED BY <3>1, <3>2, <3>3, Zenon DEF MadeOf
  <2>2. /\ traded /\ pc'[w] = "markOk" => MadeOf(amount[w])'
        /\ pc'[w] \notin {"finDeduct", "finOk"}
    BY <1>1, <2>1 DEF GatewayRefund, Goto
  <2>3. /\ UNCHANGED <<queryable, traded, status, refundAmount, amount>>
        /\ \A v \in Workers : v # w => pc'[v] = pc[v]
    BY <1>1 DEF GatewayRefund, Goto, given, orderVars, planVars
  <2> HIDE DEF TypeOK
  <2> QED BY <1>0, <2>2, <2>3 DEF MadeInv
<1>2. CASE MarkRefundOk(w)
  <2>1. CASE pc[w] = "markOk"
    <3>1. traded => MadeOf(amount[w]) /\ Made
      BY <2>1, Zenon DEF MadeInv, MadeOf, Made
    <3>2. traded => Made' /\ (refundAmount' = amount[w] => MadeOf(refundAmount)')
      BY <1>0, <1>2, <3>1, Zenon DEF MarkRefundOk, MadeOf
    <3> QED BY <1>0, <1>2, <2>1, <3>1, <3>2 DEF MadeInv, MarkRefundOk, Goto, Return, given, planVars
  <2>2. CASE pc[w] = "finOk"
    BY <1>0, <1>2, <2>2 DEF MadeInv, MarkRefundOk, Goto, Return, given, planVars, LockInv, Finalizing
  <2> QED BY <1>2, <2>1, <2>2 DEF MarkRefundOk
<1>3. CASE QueryRefund(w)
  BY <1>0, <1>3, QueryOutcome DEF MadeInv, Goto, GotoWith, Return, given, orderVars, planVars
<1>4. CASE PrepareRefund(w) \/ PrepDeduct(w) \/ LockRefund(w) \/ Deduct(w)
  BY <1>0, <1>4 DEF MadeInv, PrepareRefund, PrepDeduct, LockRefund, Deduct, Goto, GotoWith, Return,
      given, orderVars, planVars, Refundable, Refunded
<1>5. CASE RollbackRefund(w) \/ RestoreStatus(w) \/ MarkRefundFailed(w)
  BY <1>0, <1>5 DEF MadeInv, RollbackRefund, RestoreStatus, MarkRefundFailed, Goto, GotoWith,
      Return, AfterUndo, given, orderVars, planVars, Refunded
<1>6. CASE LogSuccess(w) \/ MarkRefundPending(w) \/ LogPending(w) \/ Crash(w)
  BY <1>0, <1>6 DEF MadeInv, LogSuccess, MarkRefundPending, LogPending, Crash, Goto, Return,
      given, orderVars, planVars, Refunded
<1>7. CASE BeginFinalize(w) \/ FinalDeduct(w)
  BY <1>0, <1>7 DEF MadeInv, BeginFinalize, FinalDeduct, Goto, GotoWith, Return, given, orderVars, planVars
<1> QED BY <1>1, <1>2, <1>3, <1>4, <1>5, <1>6, <1>7 DEF Step

(* The user's request and the provider keep the invariant. *)
LEMMA EnvironmentStep == ASSUME IInv, RequestRefund \/ ProviderSettles PROVE IInv'
<1>1. CASE RequestRefund
  <2> USE <1>1 DEF RequestRefund, given, logVars, planVars
  <2>1. TypeOK'
    BY TotalAssumption DEF IInv, TypeOK, OrderTypeOK, LedgerTypeOK, LogTypeOK, RemoteTypeOK,
        WorkerTypeOK, PlanTypeOK, FaultsTypeOK, Statuses, Refundable
  <2>2. LockInv' /\ PlanInv'
    BY DEF IInv, LockInv, PlanInv, Executing
  <2>3. BalanceInv'
    BY DEF IInv, BalanceInv, HandInv, Refundable, Refunded
  <2>4. MadeInv'
    BY DEF IInv, MadeInv, Made, MadeOf, Refunded
  <2> QED BY <2>1, <2>2, <2>3, <2>4 DEF IInv
<1>2. CASE ProviderSettles
  <2>1. PICK i \in DOMAIN refunds, state \in {"succeeded", "failed"} :
          refunds[i].state = "pending" /\ refunds' = [refunds EXCEPT ![i].state = state]
    BY <1>2, Zenon DEF ProviderSettles
  <2>2. UNCHANGED <<orderVars, taken, logVars, pc, planVars, faults>>
    BY <1>2, Zenon DEF ProviderSettles
  <2>3. RemoteTypeOK'
    <3> DEFINE Refund == [amount : 0..Total, state : {"pending", "succeeded", "failed"}]
               settled == [refunds[i] EXCEPT !.state = state]
    <3>0. refunds \in Seq(Refund) /\ i \in DOMAIN refunds
      BY <2>1 DEF IInv, TypeOK, RemoteTypeOK
    <3>1. refunds \in Seq(Refund) /\ refunds[i] \in Refund
      <4> HIDE DEF Refund
      <4> QED BY <3>0
    <3>2. settled \in Refund
      BY <3>1
    <3>3. refunds' = [refunds EXCEPT ![i] = settled]
      BY <2>1
    <3> HIDE DEF settled, Refund
    <3>4. refunds' \in Seq(Refund) /\ Len(refunds') = Len(refunds)
      BY <3>1, <3>2, <3>3
    <3> QED BY <3>4 DEF Refund, IInv, TypeOK, RemoteTypeOK
  <2>4. \A j \in DOMAIN refunds : /\ j \in DOMAIN refunds'
                                  /\ refunds[j].state = "succeeded" => refunds'[j] = refunds[j]
    BY <2>1 DEF IInv, TypeOK, RemoteTypeOK
  <2>5. (Made => Made') /\ \A amt : MadeOf(amt) => MadeOf(amt)'
    BY <2>4, Zenon DEF Made, MadeOf
  <2>6. TypeOK'
    BY <2>2, <2>3 DEF IInv, TypeOK, OrderTypeOK, LedgerTypeOK, LogTypeOK, WorkerTypeOK, PlanTypeOK,
        FaultsTypeOK, given, orderVars, logVars, planVars
  <2>7. LockInv' /\ PlanInv' /\ BalanceInv'
    BY <2>2 DEF IInv, LockInv, PlanInv, BalanceInv, HandInv, given, orderVars, logVars, planVars
  <2>8. MadeInv'
    BY <2>2, <2>5 DEF IInv, MadeInv, given, orderVars, planVars
  <2> QED BY <2>6, <2>7, <2>8 DEF IInv
<1> QED BY <1>1, <1>2

(* The invariant holds for a freshly completed order. *)
LEMMA InitInv == Init => IInv
<1> SUFFICES ASSUME Init PROVE IInv
  OBVIOUS
<1> USE TotalAssumption, QueryableAssumption, BoundsAssumption DEF Init
<1>1. TypeOK
  <2>1. OrderTypeOK /\ LedgerTypeOK /\ LogTypeOK /\ FaultsTypeOK
    <3>1. queryable \in BOOLEAN /\ traded \in BOOLEAN
      BY Zenon
    <3>2. LogTypeOK
      BY DEF LogTypeOK
    <3> QED BY <3>1, <3>2 DEF OrderTypeOK, LedgerTypeOK, FaultsTypeOK, Statuses, Refundable
  <2>2. RemoteTypeOK
    BY DEF RemoteTypeOK
  <2>3. WorkerTypeOK
    BY DEF WorkerTypeOK, Steps
  <2>4. requested \in [Workers -> BOOLEAN]
    BY Zenon
  <2>5. PlanTypeOK
    BY <2>4 DEF PlanTypeOK
  <2> QED BY <2>1, <2>2, <2>3, <2>5 DEF TypeOK
<1>2. LockInv /\ PlanInv
  BY DEF LockInv, PlanInv, Finalizing, Executing
<1>3. BalanceInv /\ MadeInv
  BY DEF BalanceInv, HandInv, MadeInv, Refunded
<1> QED BY <1>1, <1>2, <1>3 DEF IInv

(* Every step keeps the invariant. *)
LEMMA NextInv == IInv /\ [Next]_vars => IInv'
<1> SUFFICES ASSUME IInv, [Next]_vars PROVE IInv'
  OBVIOUS
<1>1. ASSUME NEW w \in Workers, Step(w) PROVE IInv'
  <2>1. TypeOK'
    BY <1>1, StepTypesWorker, StepTypesPlan, StepTypesOrder, StepTypesLog, StepTypesRemote, Zenon
       DEF IInv, TypeOK
  <2>2. LockInv' /\ PlanInv' /\ BalanceInv' /\ MadeInv'
    BY <1>1, StepLock, StepPlan, StepBalance, StepMade DEF IInv
  <2> QED BY <2>1, <2>2 DEF IInv
<1>2. CASE UNCHANGED vars
  BY <1>2 DEF vars, given, orderVars, logVars, planVars, IInv, TypeOK, OrderTypeOK, LedgerTypeOK, LogTypeOK,
      RemoteTypeOK, WorkerTypeOK, PlanTypeOK, FaultsTypeOK, LockInv, PlanInv, BalanceInv, HandInv,
      MadeInv, Made, MadeOf
<1> QED BY <1>1, <1>2, EnvironmentStep DEF Next

(* The invariant holds in every reachable state. *)
THEOREM RefundInvariance == Spec => []IInv
<1> QED BY InitInv, NextInv, PTL DEF Spec

-----------------------------------------------------------------------------
(* Every variable keeps its type. *)
THEOREM RefundTypeCorrect == Spec => []TypeOK
<1>1. IInv => TypeOK
  BY DEF IInv
<1> QED BY <1>1, RefundInvariance, PTL

(* A refund that was given up has returned the deduction, unless a rollback
   failed: for any number of concurrent requests and failures, where the
   provider has no refund query. *)
THEOREM RestoredIsUndeductedThm == Spec => []RestoredIsUndeducted
<1>1. IInv => RestoredIsUndeducted
  BY DEF IInv, BalanceInv, RestoredIsUndeducted, Refundable
<1> QED BY <1>1, RefundInvariance, PTL

(* A refunded order has cost the user no more than the refund. *)
THEOREM NeverOverchargedThm == Spec => []NeverOvercharged
<1>1. IInv => NeverOvercharged
  BY DEF IInv, BalanceInv, NeverOvercharged
<1> QED BY <1>1, RefundInvariance, PTL

(* An order that has a trade number is never called refunded without a refund
   that the provider made, of the amount the order then shows where no query
   can have asked about another one. *)
THEOREM RefundedIsRealThm == Spec => []RefundedIsReal
<1>1. IInv => RefundedIsReal
  <2> SUFFICES ASSUME IInv, traded, status \in Refunded
               PROVE  \E i \in DOMAIN refunds : /\ refunds[i].state = "succeeded"
                                                /\ queryable \/ refunds[i].amount = refundAmount
    BY DEF RefundedIsReal
  <2>1. CASE queryable
    BY <2>1, Zenon DEF IInv, MadeInv, Made
  <2>2. CASE ~queryable
    BY <2>2, Zenon DEF IInv, MadeInv, MadeOf
  <2> QED BY <2>1, <2>2
<1> QED BY <1>1, RefundInvariance, PTL

(* No request that prepared its plan earlier reopens a refunded order. *)
THEOREM RefundedIsFinalThm == Spec => RefundedIsFinal
<1>1. ASSUME IInv, [Next]_vars
      PROVE  [~queryable /\ status \in Refunded => UNCHANGED <<orderVars, taken>>]_vars
  <2> SUFFICES ASSUME ~queryable, status \in Refunded, Next
               PROVE  UNCHANGED <<orderVars, taken>>
    BY <1>1
  <2>1. \A w \in Workers : pc[w] \notin Executing \cup Finalizing
    BY <1>1 DEF IInv, LockInv, Refunded
  <2>2. ASSUME NEW w \in Workers, Step(w) PROVE UNCHANGED <<orderVars, taken>>
    BY <2>1, <2>2 DEF Step, Refundable, Refunded, Executing, Finalizing, given, orderVars,
      PrepareRefund, PrepDeduct, LockRefund, Deduct, GatewayRefund, RollbackRefund,
      RestoreStatus, MarkRefundFailed, MarkRefundOk, LogSuccess, MarkRefundPending,
      LogPending, BeginFinalize, QueryRefund, FinalDeduct, Crash
  <2>3. CASE RequestRefund
    BY <2>3 DEF RequestRefund, Refunded
  <2>4. CASE ProviderSettles
    BY <2>4 DEF ProviderSettles
  <2> QED BY <2>2, <2>3, <2>4 DEF Next
<1> QED BY <1>1, RefundInvariance, PTL DEF Spec, RefundedIsFinal

=============================================================================
