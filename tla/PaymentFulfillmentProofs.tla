----------------------- MODULE PaymentFulfillmentProofs -----------------------
(***************************************************************************)
(* Safety of PaymentFulfillment for any set of workers and any number of   *)
(* faults.  IInv is inductive: LedgerInv ties the ghost counters to the    *)
(* rows that guard them, WorkerInv says what a handler may rely on between *)
(* two of its calls.  Both only mention facts that no handler takes back   *)
(* (Monotone), so a handler's step cannot break the invariant of another   *)
(* one (Frame): it is enough to look at the handler that moves.            *)
(***************************************************************************)
EXTENDS PaymentFulfillment, TLAPS

Granted == (kind = "balance" /\ code = "used") \/ (kind = "subscription" /\ assigned)

LedgerInv ==
    /\ grants = IF Granted THEN 1 ELSE 0
    /\ rebates = IF claimed THEN 1 ELSE 0
    /\ rebates = 1 => grants = 1
    /\ grants = 1 => status \notin Unpaid
    /\ status \in Settled => grants = 1 /\ rebates = 1
    /\ status \notin Unpaid => paid /\ paidAt /\ matches

WorkerInv(w) ==
    /\ pc[w] \in Fulfilling \cup {"load", "lease", "recheck"} => status \notin Unpaid
    /\ pc[w] \in {"persist", "toPaid", "reread"} => paid
    /\ pc[w] = "reread" => matches
    /\ pc[w] = "reread" => status \notin {"PENDING", "CANCELLED"}
    /\ pc[w] \in {"lookup", "create", "lock", "redeem", "unlock"} => kind = "balance"
    /\ pc[w] \in {"group", "assign"} => kind = "subscription"
    /\ pc[w] \in {"rebate", "complete", "lost"} => grants = 1
    /\ pc[w] \in {"complete", "lost"} => rebates = 1
    /\ ok[w] => pc[w] = "unlock" /\ grants = 1

IInv ==
    /\ TypeOK
    /\ LedgerInv
    /\ \A w \in Workers : WorkerInv(w)
    /\ AckedIsAccounted

(* What no step takes back. *)
Monotone ==
    /\ kind' = kind
    /\ paid => paid'
    /\ paid /\ matches => matches'
    /\ status \notin Unpaid => status' \notin Unpaid
    /\ status \notin {"PENDING", "CANCELLED"} => status' \notin {"PENDING", "CANCELLED"}
    /\ grants = 1 => grants' = 1
    /\ rebates = 1 => rebates' = 1

(* The calls of a handler before, and under, the fulfilment lease. *)
BeforeLease(w) ==
    \/ QueryOrder(w) \/ CancelPayment(w) \/ PersistTradeNo(w) \/ CloseOrder(w)
    \/ RefusePayment(w) \/ ToPaid(w) \/ AlreadyProcessed(w) \/ LoadOrder(w)
    \/ AcquireLease(w) \/ LeaseRefused(w) \/ ReloadLease(w)
UnderLease(w) ==
    \/ LookupCode(w) \/ CreateCode(w) \/ AcquireRedeemLock(w) \/ Redeem(w)
    \/ ReleaseRedeemLock(w) \/ CheckGroup(w) \/ AssignSubscription(w) \/ ApplyRebate(w)
    \/ MarkCompleted(w) \/ LeaseLost(w) \/ MarkFailed(w)
Moves(w) == Start(w) \/ Step(w) \/ Fault(w)

-----------------------------------------------------------------------------
(* A handler that moves to its next call leaves its worker state well typed. *)
LEMMA GotoType ==
    ASSUME NEW w \in Workers, NEW step \in Steps, WorkerTypeOK, Goto(w, step)
    PROVE WorkerTypeOK'
  BY DEF WorkerTypeOK, Goto

(* A handler that returns leaves its worker state well typed. *)
LEMMA FinishType ==
    ASSUME NEW w \in Workers, NEW success, WorkerTypeOK, Finish(w, success)
    PROVE WorkerTypeOK' /\ acked' \in BOOLEAN
<1>1. pc' \in [Workers -> Steps]
  BY DEF WorkerTypeOK, Finish, Steps
<1>2. task' \in [Workers -> Tasks]
  BY DEF WorkerTypeOK, Finish, Tasks
<1>3. sawTrade' \in [Workers -> BOOLEAN] /\ ok' \in [Workers -> BOOLEAN]
  BY DEF WorkerTypeOK, Finish
<1>4. acked' \in BOOLEAN
  BY DEF Finish
<1> QED BY <1>1, <1>2, <1>3, <1>4 DEF WorkerTypeOK

(* No handler writes an ill-typed order row. *)
LEMMA OrderTyped ==
    ASSUME NEW w \in Workers, TypeOK, Moves(w) PROVE OrderTypeOK'
<1> USE MaxFaultsAssumption DEF TypeOK, OrderTypeOK, Return, WriteStatus, given, orderVars, UseCode,
      LeaseAvailable, AcceptsPayment, HoldsLease, Unpaid, Owed, Settled
<1>1. CASE Start(w)
  BY <1>1 DEF Start, Begin, Deliver, RetryFulfillment, CancelOrder, ExpireTimedOutOrders,
        VerifyOrder
<1>2. CASE BeforeLease(w)
  <2>1. CASE QueryOrder(w) \/ CancelPayment(w) \/ PersistTradeNo(w) \/ CloseOrder(w)
    BY <2>1 DEF QueryOrder, CancelPayment, PersistTradeNo, CloseOrder
  <2>2. CASE RefusePayment(w) \/ ToPaid(w) \/ AlreadyProcessed(w) \/ LoadOrder(w)
    BY <2>2 DEF RefusePayment, ToPaid, AlreadyProcessed, LoadOrder
  <2>3. CASE AcquireLease(w) \/ LeaseRefused(w) \/ ReloadLease(w)
    BY <2>3 DEF AcquireLease, LeaseRefused, ReloadLease
  <2> QED BY <1>2, <2>1, <2>2, <2>3 DEF BeforeLease
<1>3. CASE UnderLease(w)
  BY <1>3 DEF UnderLease, LookupCode, CreateCode, AcquireRedeemLock, Redeem, ReleaseRedeemLock,
        CheckGroup, AssignSubscription, ApplyRebate, MarkCompleted, LeaseLost, MarkFailed
<1>4. CASE Fault(w)
  BY <1>4 DEF Fault, QueryOrderFails, AckOnReadError, CallFails, Crash, Stall
<1> QED BY <1>1, <1>2, <1>3, <1>4 DEF Moves, Step, BeforeLease, UnderLease

(* No handler writes an ill-typed code, audit row or counter. *)
LEMMA GrantTyped ==
    ASSUME NEW w \in Workers, TypeOK, Moves(w) PROVE GrantTypeOK'
<1> USE MaxFaultsAssumption DEF TypeOK, GrantTypeOK, Return, given, grantVars, UseCode
<1>1. CASE Start(w)
  BY <1>1 DEF Start, Begin, Deliver, RetryFulfillment, CancelOrder, ExpireTimedOutOrders,
        VerifyOrder
<1>2. CASE BeforeLease(w)
  BY <1>2 DEF BeforeLease, QueryOrder, CancelPayment, PersistTradeNo, CloseOrder, RefusePayment, ToPaid,
        AlreadyProcessed, LoadOrder, AcquireLease, LeaseRefused, ReloadLease
<1>3. CASE LookupCode(w)
  BY <1>3 DEF LookupCode
<1>4. CASE CreateCode(w)
  BY <1>4 DEF CreateCode
<1>5. CASE AcquireRedeemLock(w)
  BY <1>5 DEF AcquireRedeemLock
<1>6. CASE Redeem(w)
  BY <1>6 DEF Redeem
<1>7. CASE ReleaseRedeemLock(w)
  BY <1>7 DEF ReleaseRedeemLock
<1>7a. CASE CheckGroup(w)
  BY <1>7a DEF CheckGroup
<1>8. CASE AssignSubscription(w)
  BY <1>8 DEF AssignSubscription
<1>9. CASE ApplyRebate(w)
  BY <1>9 DEF ApplyRebate
<1>10. CASE MarkCompleted(w)
  BY <1>10 DEF MarkCompleted
<1>11. CASE LeaseLost(w)
  BY <1>11 DEF LeaseLost
<1>12. CASE MarkFailed(w)
  BY <1>12 DEF MarkFailed
<1>13. CASE Fault(w)
  BY <1>13 DEF Fault, QueryOrderFails, AckOnReadError, CallFails, Crash, Stall
<1> QED BY <1>1, <1>2, <1>3, <1>4, <1>5, <1>6, <1>7, <1>7a, <1>8, <1>9, <1>10, <1>11, <1>12, <1>13 DEF
      Moves, Step, BeforeLease

(* The fault budget is never exceeded. *)
LEMMA FaultsTyped ==
    ASSUME NEW w \in Workers, TypeOK, Moves(w) PROVE FaultsTypeOK'
<1>1. OneFault \/ UNCHANGED faults
  BY DEF Moves, Start, Begin, Step, Fault, Return, Deliver, RetryFulfillment, CancelOrder,
        ExpireTimedOutOrders, VerifyOrder, QueryOrder, CancelPayment, PersistTradeNo,
        CloseOrder, RefusePayment, ToPaid, AlreadyProcessed, LoadOrder, AcquireLease, LeaseRefused,
        ReloadLease, LookupCode, CreateCode, AcquireRedeemLock, Redeem, ReleaseRedeemLock,
        CheckGroup, AssignSubscription, ApplyRebate, MarkCompleted, LeaseLost, MarkFailed, QueryOrderFails,
        AckOnReadError, CallFails, Crash, Stall
<1> QED BY <1>1, MaxFaultsAssumption DEF TypeOK, FaultsTypeOK, OneFault

(* Every handler leaves the provider's side well typed. *)
LEMMA RemoteTyped ==
    ASSUME NEW w \in Workers, TypeOK, Moves(w) PROVE RemoteTypeOK'
<1> USE MaxFaultsAssumption, FinishType DEF TypeOK, RemoteTypeOK, Return, remoteVars,
      WorkerTypeOK
<1>1. CASE Start(w)
  BY <1>1 DEF Start, Begin, Deliver, RetryFulfillment, CancelOrder, ExpireTimedOutOrders,
        VerifyOrder
<1>2. CASE QueryOrder(w)
  BY <1>2 DEF QueryOrder
<1>3. CASE CancelPayment(w)
  BY <1>3 DEF CancelPayment
<1>4. CASE PersistTradeNo(w)
  BY <1>4 DEF PersistTradeNo
<1>5. CASE CloseOrder(w)
  BY <1>5 DEF CloseOrder
<1>6. CASE ToPaid(w)
  BY <1>6 DEF ToPaid
<1>6a. CASE RefusePayment(w)
  BY <1>6a DEF RefusePayment
<1>7. CASE AlreadyProcessed(w)
  BY <1>7 DEF AlreadyProcessed
<1>8. CASE LoadOrder(w)
  BY <1>8 DEF LoadOrder
<1>9. CASE AcquireLease(w)
  BY <1>9 DEF AcquireLease
<1>10. CASE LeaseRefused(w)
  BY <1>10 DEF LeaseRefused
<1>11. CASE ReloadLease(w)
  BY <1>11 DEF ReloadLease
<1>12. CASE LookupCode(w)
  BY <1>12 DEF LookupCode
<1>13. CASE CreateCode(w)
  BY <1>13 DEF CreateCode
<1>14. CASE AcquireRedeemLock(w)
  BY <1>14 DEF AcquireRedeemLock
<1>15. CASE Redeem(w)
  BY <1>15 DEF Redeem
<1>16. CASE ReleaseRedeemLock(w)
  BY <1>16 DEF ReleaseRedeemLock
<1>16a. CASE CheckGroup(w)
  BY <1>16a DEF CheckGroup
<1>17. CASE AssignSubscription(w)
  BY <1>17 DEF AssignSubscription
<1>18. CASE ApplyRebate(w)
  BY <1>18 DEF ApplyRebate
<1>19. CASE MarkCompleted(w)
  BY <1>19 DEF MarkCompleted
<1>20. CASE LeaseLost(w)
  BY <1>20 DEF LeaseLost
<1>21. CASE MarkFailed(w)
  BY <1>21 DEF MarkFailed
<1>22. CASE QueryOrderFails(w)
  BY <1>22 DEF QueryOrderFails
<1>23. CASE AckOnReadError(w)
  BY <1>23 DEF AckOnReadError
<1>24. CASE CallFails(w)
  BY <1>24 DEF CallFails
<1>25. CASE Crash(w)
  BY <1>25 DEF Crash
<1>26. CASE Stall(w)
  BY <1>26 DEF Stall
<1> QED BY <1>1, <1>2, <1>3, <1>4, <1>5, <1>6, <1>6a, <1>7, <1>8, <1>9, <1>10, <1>11, <1>12,
      <1>13, <1>14, <1>15, <1>16, <1>16a, <1>17, <1>18, <1>19, <1>20, <1>21, <1>22, <1>23, <1>24, <1>25, <1>26
      DEF Moves, Step, Fault

(* Every step of a handler leaves the worker state well typed. *)
LEMMA WorkerTyped ==
    ASSUME NEW w \in Workers, TypeOK, Moves(w) PROVE WorkerTypeOK'
<1> USE MaxFaultsAssumption, GotoType, FinishType DEF TypeOK, WorkerTypeOK, workerVars,
      GrantTypeOK, UseCode, Return, Steps, Fulfilling, Tasks
<1>1. CASE Start(w)
  BY <1>1 DEF Start, Begin, Deliver, RetryFulfillment, CancelOrder, ExpireTimedOutOrders,
        VerifyOrder
<1>2. CASE QueryOrder(w)
  BY <1>2 DEF QueryOrder
<1>3. CASE CancelPayment(w)
  BY <1>3 DEF CancelPayment
<1>4. CASE PersistTradeNo(w)
  BY <1>4 DEF PersistTradeNo
<1>5. CASE CloseOrder(w)
  BY <1>5 DEF CloseOrder
<1>6. CASE ToPaid(w)
  BY <1>6 DEF ToPaid
<1>6a. CASE RefusePayment(w)
  BY <1>6a DEF RefusePayment
<1>7. CASE AlreadyProcessed(w)
  BY <1>7 DEF AlreadyProcessed
<1>8. CASE LoadOrder(w)
  BY <1>8 DEF LoadOrder
<1>9. CASE AcquireLease(w)
  BY <1>9 DEF AcquireLease
<1>10. CASE LeaseRefused(w)
  BY <1>10 DEF LeaseRefused
<1>11. CASE ReloadLease(w)
  BY <1>11 DEF ReloadLease
<1>12. CASE LookupCode(w)
  BY <1>12 DEF LookupCode
<1>13. CASE CreateCode(w)
  BY <1>13 DEF CreateCode
<1>14. CASE AcquireRedeemLock(w)
  BY <1>14 DEF AcquireRedeemLock
<1>15. CASE Redeem(w)
  BY <1>15 DEF Redeem
<1>16. CASE ReleaseRedeemLock(w)
  BY <1>16 DEF ReleaseRedeemLock
<1>16a. CASE CheckGroup(w)
  BY <1>16a DEF CheckGroup
<1>17. CASE AssignSubscription(w)
  BY <1>17 DEF AssignSubscription
<1>18. CASE ApplyRebate(w)
  BY <1>18 DEF ApplyRebate
<1>19. CASE MarkCompleted(w)
  BY <1>19 DEF MarkCompleted
<1>20. CASE LeaseLost(w)
  BY <1>20 DEF LeaseLost
<1>21. CASE MarkFailed(w)
  BY <1>21 DEF MarkFailed
<1>22. CASE QueryOrderFails(w)
  BY <1>22 DEF QueryOrderFails
<1>23. CASE AckOnReadError(w)
  BY <1>23 DEF AckOnReadError
<1>24. CASE CallFails(w)
  BY <1>24 DEF CallFails
<1>25. CASE Crash(w)
  BY <1>25 DEF Crash
<1>26. CASE Stall(w)
  BY <1>26 DEF Stall
<1> QED BY <1>1, <1>2, <1>3, <1>4, <1>5, <1>6, <1>6a, <1>7, <1>8, <1>9, <1>10, <1>11, <1>12,
      <1>13, <1>14, <1>15, <1>16, <1>16a, <1>17, <1>18, <1>19, <1>20, <1>21, <1>22, <1>23, <1>24, <1>25, <1>26
      DEF Moves, Step, Fault

-----------------------------------------------------------------------------
(* No handler takes back what the others rely on. *)
LEMMA MovesMonotone ==
    ASSUME NEW w \in Workers, TypeOK, LedgerInv, WorkerInv(w), AckedIsAccounted, Moves(w)
    PROVE Monotone
<1> USE DEF Monotone, LedgerInv, WorkerInv, Granted, TypeOK, OrderTypeOK, GrantTypeOK,
      RemoteTypeOK, WorkerTypeOK, FaultsTypeOK, Finish, Begin, Return, WriteStatus, given, orderVars,
      grantVars, remoteVars, UseCode, LeaseAvailable, AcceptsPayment, HoldsLease, Unpaid, Owed,
      Settled, Fulfilling
<1>1. CASE Start(w)
  BY <1>1 DEF Start, Begin, Deliver, RetryFulfillment, CancelOrder, ExpireTimedOutOrders,
        VerifyOrder
<1>2. CASE BeforeLease(w)
  BY <1>2 DEF BeforeLease, QueryOrder, CancelPayment, PersistTradeNo, CloseOrder, RefusePayment, ToPaid,
        AlreadyProcessed, LoadOrder, AcquireLease, LeaseRefused, ReloadLease
<1>3. CASE UnderLease(w)
  BY <1>3 DEF UnderLease, LookupCode, CreateCode, AcquireRedeemLock, Redeem, ReleaseRedeemLock,
        CheckGroup, AssignSubscription, ApplyRebate, MarkCompleted, LeaseLost, MarkFailed
<1>4. CASE Fault(w)
  BY <1>4 DEF Fault, QueryOrderFails, AckOnReadError, CallFails, Crash, Stall
<1> QED BY <1>1, <1>2, <1>3, <1>4 DEF Moves, Step, BeforeLease, UnderLease

(* Nothing the ledger speaks of changes. *)
LedgerVars == <<kind, matches, status, paidAt, paid, code, assigned, claimed, grants, rebates>>

(* The ledger invariant survives a step that changes no ledger variable. *)
LEMMA LedgerQuiet == ASSUME LedgerInv, UNCHANGED LedgerVars PROVE LedgerInv'
  BY DEF LedgerInv, LedgerVars, Granted

(* Returning changes no ledger variable. *)
LEMMA ReturnQuiet == ASSUME NEW w, NEW success, Return(w, success) PROVE UNCHANGED LedgerVars
  BY DEF Return, LedgerVars, given, grantVars

(* The handlers' steps that do not touch it. *)
Quiet(w) ==
    \/ Start(w) \/ QueryOrder(w) \/ CancelPayment(w) \/ PersistTradeNo(w)
    \/ RefusePayment(w) \/ AlreadyProcessed(w) \/ LoadOrder(w) \/ LeaseRefused(w)
    \/ ReloadLease(w) \/ LookupCode(w) \/ AcquireRedeemLock(w) \/ ReleaseRedeemLock(w)
    \/ CheckGroup(w)
    \/ LeaseLost(w) \/ Fault(w)

(* The quiet actions change no ledger variable. *)
LEMMA QuietLedger == ASSUME NEW w \in Workers, Quiet(w) PROVE UNCHANGED LedgerVars
  BY DEF Quiet, Start, Begin, Fault, Return, WriteStatus, LedgerVars, given, orderVars, grantVars,
        remoteVars,
      Deliver, RetryFulfillment, CancelOrder, ExpireTimedOutOrders, VerifyOrder,
      QueryOrder, CancelPayment, PersistTradeNo, RefusePayment, AlreadyProcessed, LoadOrder,
      LeaseRefused, ReloadLease, CheckGroup,
      LookupCode, AcquireRedeemLock, ReleaseRedeemLock, LeaseLost,
      QueryOrderFails, AckOnReadError, CallFails, Crash, Stall

(* Grant, rebate and completion happen in that order, once each, for paid
   orders only, whichever handler gets there. *)
LEMMA MovesLedger ==
    ASSUME NEW w \in Workers, TypeOK, LedgerInv, WorkerInv(w), Moves(w)
    PROVE LedgerInv'
<1>1. CASE Quiet(w)
  BY <1>1, QuietLedger, LedgerQuiet
<1> USE DEF TypeOK, OrderTypeOK, GrantTypeOK, LedgerInv, Granted, WorkerInv, Unpaid, Owed,
      Settled, Fulfilling,
      WriteStatus, given, orderVars, grantVars, remoteVars
<1>2. CASE CloseOrder(w)
  <2>1. CASE status = "PENDING"
    BY <1>2, <2>1 DEF CloseOrder, Finish, Return
  <2>2. CASE status # "PENDING"
    BY <1>2, <2>2, LedgerQuiet DEF CloseOrder, Return, LedgerVars
  <2> QED BY <2>1, <2>2
<1>3. CASE ToPaid(w)
  BY <1>3 DEF ToPaid, AcceptsPayment
<1>4. CASE AcquireLease(w)
  BY <1>4 DEF AcquireLease, LeaseAvailable
<1>5. CASE CreateCode(w)
  BY <1>5 DEF CreateCode
<1>6. CASE Redeem(w)
  BY <1>6 DEF Redeem, UseCode
<1>7. CASE AssignSubscription(w)
  BY <1>7 DEF AssignSubscription
<1>8. CASE ApplyRebate(w)
  BY <1>8 DEF ApplyRebate
<1>9. CASE MarkCompleted(w)
  BY <1>9 DEF MarkCompleted, HoldsLease
<1>10. CASE MarkFailed(w)
  <2>1. CASE HoldsLease(w)
    <3>1. status' = "FAILED" /\ UNCHANGED <<kind, matches, paidAt, paid, code, assigned, claimed, grants,
          rebates>>
      BY <1>10, <2>1 DEF MarkFailed
    <3>2. status = "RECHARGING"
      BY <2>1 DEF HoldsLease
    <3> QED BY <3>1, <3>2
  <2>2. CASE ~HoldsLease(w)
    BY <1>10, <2>2, LedgerQuiet DEF MarkFailed, Return, LedgerVars
  <2> QED BY <2>1, <2>2
<1> QED BY <1>1, <1>2, <1>3, <1>4, <1>5, <1>6, <1>7, <1>8, <1>9, <1>10 DEF Moves, Step, Quiet

(* A handler establishes what its next call relies on. *)
LEMMA MovesOwn ==
    ASSUME NEW w \in Workers, TypeOK, LedgerInv, WorkerInv(w), AckedIsAccounted, Moves(w)
    PROVE WorkerInv(w)'
<1>1. CASE Stall(w)
  BY <1>1 DEF Stall, WorkerInv, given, orderVars, grantVars, remoteVars, workerVars
<1> USE DEF LedgerInv, WorkerInv, Granted, TypeOK, OrderTypeOK, GrantTypeOK, RemoteTypeOK,
      WorkerTypeOK, FaultsTypeOK, Finish, Goto, Begin, Return, WriteStatus, given, orderVars,
      grantVars, remoteVars, UseCode, LeaseAvailable, AcceptsPayment, HoldsLease, Unpaid, Owed,
      Settled, Fulfilling
<1>2. CASE Start(w)
  BY <1>2 DEF Start, Begin, Deliver, RetryFulfillment, CancelOrder, ExpireTimedOutOrders,
        VerifyOrder
<1>3. CASE QueryOrder(w)
  BY <1>3 DEF QueryOrder
<1>4. CASE CancelPayment(w)
  BY <1>4 DEF CancelPayment
<1>5. CASE PersistTradeNo(w)
  BY <1>5 DEF PersistTradeNo
<1>6. CASE CloseOrder(w)
  BY <1>6 DEF CloseOrder
<1>7. CASE ToPaid(w)
  BY <1>7 DEF ToPaid
<1>7a. CASE RefusePayment(w)
  BY <1>7a DEF RefusePayment
<1>8. CASE AlreadyProcessed(w)
  BY <1>8 DEF AlreadyProcessed
<1>9. CASE LoadOrder(w)
  BY <1>9 DEF LoadOrder
<1>10. CASE AcquireLease(w)
  BY <1>10 DEF AcquireLease
<1>11. CASE LeaseRefused(w)
  BY <1>11 DEF LeaseRefused
<1>12. CASE ReloadLease(w)
  BY <1>12 DEF ReloadLease
<1>13. CASE UnderLease(w)
  BY <1>13 DEF UnderLease, LookupCode, CreateCode, AcquireRedeemLock, Redeem, ReleaseRedeemLock,
        CheckGroup, AssignSubscription, ApplyRebate, MarkCompleted, LeaseLost, MarkFailed
<1>14. CASE QueryOrderFails(w)
  BY <1>14 DEF QueryOrderFails
<1>15. CASE AckOnReadError(w)
  BY <1>15 DEF AckOnReadError
<1>16. CASE CallFails(w)
  BY <1>16 DEF CallFails
<1>17. CASE Crash(w)
  BY <1>17 DEF Crash
<1> QED BY <1>1, <1>2, <1>3, <1>4, <1>5, <1>6, <1>7, <1>7a, <1>8, <1>9, <1>10, <1>11, <1>12,
      <1>13, <1>14, <1>15, <1>16, <1>17 DEF Moves, Step, BeforeLease, UnderLease, Fault

(* Success is answered only for a settled order, for a late payment that is
   on record, and when reading the order or writing that record failed. *)
LEMMA MovesAck ==
    ASSUME NEW w \in Workers, TypeOK, LedgerInv, WorkerInv(w), AckedIsAccounted, Moves(w)
    PROVE AckedIsAccounted'
<1> USE DEF AckedIsAccounted, LedgerInv, WorkerInv, TypeOK, OrderTypeOK, GrantTypeOK,
      RemoteTypeOK, WorkerTypeOK, FaultsTypeOK, Finish, Begin, Return, WriteStatus, given, orderVars,
      grantVars, remoteVars, UseCode, LeaseAvailable, AcceptsPayment, HoldsLease, Unpaid, Owed,
      Settled, Fulfilling
<1>1. CASE Start(w)
  BY <1>1 DEF Start, Begin, Deliver, RetryFulfillment, CancelOrder, ExpireTimedOutOrders,
        VerifyOrder
<1>2. CASE BeforeLease(w)
  BY <1>2 DEF BeforeLease, QueryOrder, CancelPayment, PersistTradeNo, CloseOrder, RefusePayment, ToPaid,
        AlreadyProcessed, LoadOrder, AcquireLease, LeaseRefused, ReloadLease
<1>3. CASE UnderLease(w)
  BY <1>3 DEF UnderLease, LookupCode, CreateCode, AcquireRedeemLock, Redeem, ReleaseRedeemLock,
        CheckGroup, AssignSubscription, ApplyRebate, MarkCompleted, LeaseLost, MarkFailed
<1>4. CASE Fault(w)
  BY <1>4 DEF Fault, QueryOrderFails, AckOnReadError, CallFails, Crash, Stall
<1> QED BY <1>1, <1>2, <1>3, <1>4 DEF Moves, Step, BeforeLease, UnderLease

(* A handler moves only itself. *)
LEMMA MovesFrame ==
    ASSUME NEW w \in Workers, TypeOK, LedgerInv, WorkerInv(w), AckedIsAccounted, Moves(w)
    PROVE \A v \in Workers \ {w} : pc'[v] = pc[v] /\ ok'[v] = ok[v]
<1> USE DEF Finish, Goto, Begin, Return, workerVars, WorkerTypeOK, TypeOK
<1>1. CASE Start(w)
  BY <1>1 DEF Start, Begin, Deliver, RetryFulfillment, CancelOrder, ExpireTimedOutOrders,
        VerifyOrder
<1>2. CASE BeforeLease(w)
  BY <1>2 DEF BeforeLease, QueryOrder, CancelPayment, PersistTradeNo, CloseOrder, RefusePayment, ToPaid,
        AlreadyProcessed, LoadOrder, AcquireLease, LeaseRefused, ReloadLease
<1>3. CASE UnderLease(w)
  BY <1>3 DEF UnderLease, LookupCode, CreateCode, AcquireRedeemLock, Redeem, ReleaseRedeemLock,
        CheckGroup, AssignSubscription, ApplyRebate, MarkCompleted, LeaseLost, MarkFailed
<1>4. CASE Fault(w)
  BY <1>4 DEF Fault, QueryOrderFails, AckOnReadError, CallFails, Crash, Stall
<1> QED BY <1>1, <1>2, <1>3, <1>4 DEF Moves, Step, BeforeLease, UnderLease

(* Time, the user and the refund keep the inductive invariant. *)
LEMMA EnvironmentStep ==
    ASSUME IInv, Environment
    PROVE IInv'
<1> USE DEF Environment, Age, LockExpires, UserPays, ToggleGroup, RefundTakes, RefundRestores, WriteStatus
<1>1. TypeOK'
  <2> USE DEF IInv, TypeOK
  <2>1. OrderTypeOK' BY DEF OrderTypeOK, given, orderVars, Unpaid, Owed, Settled
  <2>2. GrantTypeOK' BY DEF GrantTypeOK, grantVars
  <2>3. RemoteTypeOK' BY DEF RemoteTypeOK, remoteVars
  <2>5. FaultsTypeOK' BY MaxFaultsAssumption DEF FaultsTypeOK, OneFault
  <2>4. WorkerTypeOK' BY DEF WorkerTypeOK, workerVars
  <2> QED BY <2>1, <2>2, <2>3, <2>4, <2>5
<1>2. Monotone
  BY DEF Monotone, given, orderVars, grantVars, remoteVars, Unpaid
<1>3. LedgerInv'
  BY DEF IInv, LedgerInv, Granted, given, orderVars, grantVars, remoteVars, Unpaid, Settled
<1>4. \A w \in Workers : WorkerInv(w)'
  <2>1. UNCHANGED workerVars
    OBVIOUS
  <2> QED BY <1>2, <2>1 DEF IInv, WorkerInv, Monotone, workerVars
<1>5. AckedIsAccounted'
  BY DEF IInv, AckedIsAccounted, given, orderVars, remoteVars, Settled
<1> QED BY <1>1, <1>3, <1>4, <1>5 DEF IInv

(* The inductive invariant holds for a fresh order. *)
LEMMA InitInv == Init => IInv
<1> SUFFICES ASSUME Init PROVE IInv
  OBVIOUS
<1>1. OrderTypeOK /\ GrantTypeOK
  BY KindsAssumption DEF Init, OrderTypeOK, GrantTypeOK, Unpaid
<1>4. RemoteTypeOK
  BY DEF Init, RemoteTypeOK
<1>6. FaultsTypeOK
  BY MaxFaultsAssumption DEF Init, FaultsTypeOK
<1>5. WorkerTypeOK
  BY DEF Init, WorkerTypeOK, Steps, Tasks
<1>2. LedgerInv /\ AckedIsAccounted
  BY DEF Init, LedgerInv, Granted, AckedIsAccounted, Unpaid, Settled
<1>3. \A w \in Workers : WorkerInv(w)
  BY DEF Init, WorkerInv, Fulfilling
<1> QED BY <1>1, <1>2, <1>3, <1>4, <1>5, <1>6 DEF IInv, TypeOK

(* Every step keeps the inductive invariant. *)
LEMMA NextInv == IInv /\ [Next]_vars => IInv'
<1> SUFFICES ASSUME IInv, [Next]_vars PROVE IInv'
  OBVIOUS
<1>1. ASSUME NEW w \in Workers, Moves(w) PROVE IInv'
  <2>1. TypeOK'
    BY <1>1, OrderTyped, GrantTyped, RemoteTyped, FaultsTyped, WorkerTyped DEF IInv, TypeOK
  <2>2. Monotone /\ LedgerInv' /\ WorkerInv(w)' /\ AckedIsAccounted'
    BY <1>1, MovesMonotone, MovesLedger, MovesOwn, MovesAck DEF IInv
  <2>3. ASSUME NEW v \in Workers \ {w} PROVE WorkerInv(v)'
    <3>1. pc'[v] = pc[v] /\ ok'[v] = ok[v]
      BY <1>1, MovesFrame DEF IInv
    <3> QED BY <2>2, <3>1 DEF IInv, WorkerInv, Monotone
  <2> QED BY <2>1, <2>2, <2>3 DEF IInv
<1>2. CASE UNCHANGED vars
  BY <1>2 DEF vars, IInv, LedgerInv, WorkerInv, Granted, AckedIsAccounted, TypeOK, OrderTypeOK,
        GrantTypeOK, RemoteTypeOK, WorkerTypeOK, FaultsTypeOK,
      given, orderVars, grantVars, remoteVars, workerVars
<1> QED BY <1>1, <1>2, EnvironmentStep DEF Next, Moves

(* The inductive invariant holds in every reachable state. *)
THEOREM Invariance == Spec => []IInv
  BY InitInv, NextInv, PTL DEF Spec

-----------------------------------------------------------------------------
(* The inductive invariant carries the properties the runs check. *)
THEOREM TypeCorrect == Spec => []TypeOK
<1>1. IInv => TypeOK
  BY DEF IInv
<1> QED BY <1>1, Invariance, PTL

(* However handlers interleave, success is answered to the provider only when
   the order is settled, when the late payment is on record, or when the call
   that reads the order or writes that record failed. *)
THEOREM AckedIsAccountedThm == Spec => []AckedIsAccounted
<1>1. IInv => AckedIsAccounted
  BY DEF IInv
<1> QED BY <1>1, Invariance, PTL

(* A complete or refunded order was granted exactly once, its rebate decided
   exactly once, and the row that guards the grant is in place. *)
THEOREM SettledIsDeliveredThm == Spec => []SettledIsDelivered
<1>1. IInv => SettledIsDelivered
  BY DEF IInv, LedgerInv, Granted, SettledIsDelivered, TypeOK, OrderTypeOK
<1> QED BY <1>1, Invariance, PTL

(* Nothing is granted for money the provider did not take, or for a payment
   that confirmPayment refuses as not the order's own. *)
THEOREM GrantedOnlyIfPaidThm == Spec => []GrantedOnlyIfPaid
<1>1. IInv => GrantedOnlyIfPaid
  BY DEF IInv, LedgerInv, Granted, GrantedOnlyIfPaid
<1> QED BY <1>1, Invariance, PTL

(* The contract only moves with the status and the two counters. *)
LEMMA ContractQuiet ==
    ASSUME UNCHANGED <<status, grants, rebates>>
    PROVE UNCHANGED Contract!vars
  BY DEF Contract!vars, Phase

(* Every step of the handlers is a step of the contract or a stutter. *)
LEMMA ContractStep ==
    ASSUME IInv, [Next]_vars
    PROVE [Contract!Next]_(Contract!vars)
<1> USE DEF Contract!vars, Contract!Next, Contract!Close, Contract!Accept, Contract!Grant,
      Contract!Rebate, Contract!Settle, Phase, WriteStatus, given, orderVars, grantVars, remoteVars,
            Unpaid, Owed, Settled
<1>1. ASSUME NEW w \in Workers, Moves(w) PROVE [Contract!Next]_(Contract!vars)
  <2> USE DEF IInv, TypeOK, OrderTypeOK, GrantTypeOK, LedgerInv, WorkerInv, Granted, Fulfilling
  <2>1. CASE Quiet(w)
    <3>1. UNCHANGED LedgerVars
      BY <2>1, QuietLedger
    <3> QED BY <3>1, ContractQuiet DEF LedgerVars
  <2>2. CASE CloseOrder(w)
    BY <2>2, ReturnQuiet DEF CloseOrder, LedgerVars
  <2>3. CASE ToPaid(w)
    BY <2>3 DEF ToPaid, AcceptsPayment
  <2>4. CASE AcquireLease(w)
    BY <2>4 DEF AcquireLease, LeaseAvailable
  <2>5. CASE CreateCode(w)
    BY <2>5 DEF CreateCode
  <2>6. CASE Redeem(w)
    BY <2>6 DEF Redeem, UseCode
  <2>7. CASE AssignSubscription(w)
    BY <2>7 DEF AssignSubscription
  <2>8. CASE ApplyRebate(w)
    BY <2>8 DEF ApplyRebate
  <2>9. CASE MarkCompleted(w)
    BY <2>9 DEF MarkCompleted, HoldsLease
  <2>10. CASE MarkFailed(w)
    BY <2>10, ReturnQuiet DEF MarkFailed, HoldsLease, LedgerVars
  <2> QED BY <1>1, <2>1, <2>2, <2>3, <2>4, <2>5, <2>6, <2>7, <2>8, <2>9, <2>10 DEF Moves, Step,
        Quiet
<1>2. CASE Environment
  <2>1. CASE Age \/ LockExpires \/ UserPays \/ ToggleGroup
    BY <2>1, ContractQuiet DEF Age, LockExpires, UserPays, ToggleGroup
  <2>2. CASE RefundTakes
    BY <2>2 DEF RefundTakes
  <2>3. CASE RefundRestores
    BY <2>3 DEF RefundRestores
  <2> QED BY <1>2, <2>1, <2>2, <2>3 DEF Environment
<1>3. CASE UNCHANGED vars
  BY <1>3, ContractQuiet DEF vars
<1> QED BY <1>1, <1>2, <1>3 DEF Next, Moves

(* Fulfilment, with all its crashes, retries and takeovers, implements the
   contract: granted once, then rebated once, then settled for good. *)
THEOREM Refinement == Spec => ImplementsContract
<1>1. Init => Contract!Init
  BY DEF Init, Contract!Init, Phase, Owed, Settled
<1>2. IInv /\ [Next]_vars => [Contract!Next]_(Contract!vars)
  BY ContractStep
<1> QED BY <1>1, <1>2, Invariance, PTL DEF Spec, ImplementsContract, Contract!Spec

=============================================================================
