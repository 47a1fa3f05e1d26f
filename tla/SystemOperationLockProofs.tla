------------------------ MODULE SystemOperationLockProofs ------------------------
(***************************************************************************)
(* Safety of SystemOperationLock for any attempts, durations and bounds.   *)
(* A holder that has not lapsed is protected by the row as it stands, and  *)
(* neither an insertion nor a reclaim gets past such a row (OneOperation). *)
(* While the holder that inserted the row is on time no other attempt with *)
(* its row's id has a loop or a Release left to run (AloneOnRow), and      *)
(* locked_until is ahead of the next renewal (Ahead): so it never lapses.  *)
(***************************************************************************)
EXTENDS SystemOperationLock, TLAPS

Lapses == lapsed' = lapsed \cup {a \in Holding' : ~Protected(a)'}

ProtectedInv ==
    /\ \A a \in Holding \ lapsed : Protected(a)
    /\ OneOperation

IInv == TypeOK /\ ProtectedInv

(* Which goroutines there are at which step, and which ids were given out. *)
LoopInv ==
    \A a \in Attempts :
        /\ loop[a] \in {"on", "call"} => step[a] = "run"
        /\ loop[a] = "stopping" => step[a] \in {"release", "done"}
        /\ recId[a] < nextId
        /\ a \in created \cup lapsed => step[a] \in {"run", "release", "done"}

Punctual == (created \cap Holding) \ late

AloneOnRow ==
    \A a \in Punctual :
        /\ rowId = recId[a] /\ rowId # 0 /\ rowStatus = "processing" /\ rowPrint = op[a]
        /\ \A b \in Attempts : b # a /\ recId[b] = recId[a] =>
               step[b] \in {"reclaim", "done"} /\ loop[b] = "off"

(* t is before the row lapses or expires. *)
Before(t) == t < rowLock /\ t < rowExp
Ahead ==
    \A a \in Punctual :
        /\ step[a] = "run" => loop[a] \in {"on", "call"}
        /\ loop[a] = "on" => clock <= due[a] /\ Before(due[a])
        /\ loop[a] \in {"call", "stopping"} => stamp[a] = clock
        /\ loop[a] = "call" => due[a] = clock + Interval
        /\ Before(clock)

FirstInv == TypeOK /\ LoopInv /\ AloneOnRow /\ Ahead /\ FirstIsRenewed

-----------------------------------------------------------------------------
(* How the actions are put together; what is left is the action's own.      *)
USE DurationsAssumption, BoundsAssumption, NoneAssumption
    DEF rowVars, callVars, loopVars, Statuses, Steps, Calm, Fault, Goto, Loop, Late, Claim,
        Refuse, InsertRow, Reclaimable, ReclaimRow, Again, Extendable, ExtendRow, MarkRow,
        Holding, Protected

(* Every variable keeps its type. *)
LEMMA TypesStep ==
    ASSUME TypeOK, [Next]_vars PROVE TypeOK'
<1> USE DEF TypeOK, RowTypeOK, CallTypeOK, LoopTypeOK, Lapses
<1>1. ASSUME NEW a \in Attempts, Call(a), Lapses PROVE TypeOK'
  <2>1. CASE Begin(a)  BY <1>1, <2>1 DEF Begin
  <2>2. CASE CreateProcessing(a)  BY <1>1, <2>2 DEF CreateProcessing
  <2>3. CASE GetExisting(a)  BY <1>1, <2>3 DEF GetExisting
  <2>4. CASE TryReclaim(a)  BY <1>1, <2>4 DEF TryReclaim
  <2>5. CASE RenewCall(a)  BY <1>1, <2>5 DEF RenewCall
  <2>6. CASE ExtendProcessingLock(a)  BY <1>1, <2>6 DEF ExtendProcessingLock
  <2>7. CASE Finish(a)  BY <1>1, <2>7 DEF Finish
  <2>8. CASE Release(a)  BY <1>1, <2>8 DEF Release
  <2>9. CASE Crash(a)  BY <1>1, <2>9 DEF Crash
  <2> QED BY <1>1, <2>1, <2>2, <2>3, <2>4, <2>5, <2>6, <2>7, <2>8, <2>9 DEF Call
<1>2. CASE DeleteExpired /\ Lapses  BY <1>2 DEF DeleteExpired
<1>3. CASE Tick /\ Lapses  BY <1>3 DEF Tick, Slow
<1>4. CASE UNCHANGED vars  BY <1>4 DEF vars
<1> QED BY <1>1, <1>2, <1>3, <1>4 DEF Next, Lapses

(* An unlapsed holder's row is claimed by no one else. *)
LEMMA ProtectedStep ==
    ASSUME IInv, [Next]_vars PROVE ProtectedInv'
<1> USE DEF TypeOK, RowTypeOK, CallTypeOK, LoopTypeOK, IInv, ProtectedInv, OneOperation, Lapses
<1>1. ASSUME NEW a \in Attempts, Call(a), Lapses PROVE ProtectedInv'
  <2>1. CASE Begin(a)  BY <1>1, <2>1 DEF Begin
  <2>2. CASE CreateProcessing(a)  BY <1>1, <2>2 DEF CreateProcessing
  <2>3. CASE GetExisting(a)  BY <1>1, <2>3 DEF GetExisting
  <2>4. CASE TryReclaim(a)  BY <1>1, <2>4 DEF TryReclaim
  <2>5. CASE RenewCall(a)  BY <1>1, <2>5 DEF RenewCall
  <2>6. CASE ExtendProcessingLock(a)  BY <1>1, <2>6 DEF ExtendProcessingLock
  <2>7. CASE Finish(a)  BY <1>1, <2>7 DEF Finish
  <2>8. CASE Release(a)  BY <1>1, <2>8 DEF Release
  <2>9. CASE Crash(a)  BY <1>1, <2>9 DEF Crash
  <2> QED BY <1>1, <2>1, <2>2, <2>3, <2>4, <2>5, <2>6, <2>7, <2>8, <2>9 DEF Call
<1>2. CASE DeleteExpired /\ Lapses  BY <1>2 DEF DeleteExpired
<1>3. CASE Tick /\ Lapses  BY <1>3 DEF Tick, Slow
<1>4. CASE UNCHANGED vars  BY <1>4 DEF vars
<1> QED BY <1>1, <1>2, <1>3, <1>4 DEF Next, Lapses

(* Goroutines end with their holder, but for one call. *)
LEMMA LoopStep ==
    ASSUME TypeOK, LoopInv, [Next]_vars PROVE LoopInv'
<1> USE DEF TypeOK, RowTypeOK, CallTypeOK, LoopTypeOK, LoopInv, Lapses
<1>1. ASSUME NEW a \in Attempts, Call(a), Lapses PROVE LoopInv'
  <2>1. CASE Begin(a)  BY <1>1, <2>1 DEF Begin
  <2>2. CASE CreateProcessing(a)  BY <1>1, <2>2 DEF CreateProcessing
  <2>3. CASE GetExisting(a)  BY <1>1, <2>3 DEF GetExisting
  <2>4. CASE TryReclaim(a)  BY <1>1, <2>4 DEF TryReclaim
  <2>5. CASE RenewCall(a)  BY <1>1, <2>5 DEF RenewCall
  <2>6. CASE ExtendProcessingLock(a)  BY <1>1, <2>6 DEF ExtendProcessingLock
  <2>7. CASE Finish(a)  BY <1>1, <2>7 DEF Finish
  <2>8. CASE Release(a)  BY <1>1, <2>8 DEF Release
  <2>9. CASE Crash(a)  BY <1>1, <2>9 DEF Crash
  <2> QED BY <1>1, <2>1, <2>2, <2>3, <2>4, <2>5, <2>6, <2>7, <2>8, <2>9 DEF Call
<1>2. CASE DeleteExpired /\ Lapses  BY <1>2 DEF DeleteExpired
<1>3. CASE Tick /\ Lapses  BY <1>3 DEF Tick, Slow
<1>4. CASE UNCHANGED vars  BY <1>4 DEF vars
<1> QED BY <1>1, <1>2, <1>3, <1>4 DEF Next, Lapses

(* A punctual holder keeps the row it inserted to itself. *)
LEMMA AloneStep ==
    ASSUME FirstInv, [Next]_vars PROVE AloneOnRow'
<1> USE DEF TypeOK, RowTypeOK, CallTypeOK, LoopTypeOK, FirstInv, LoopInv,
            AloneOnRow, Ahead, Before, Punctual
<1>1. ASSUME NEW a \in Attempts, Call(a), Lapses PROVE AloneOnRow'
  <2>1. CASE Begin(a)  BY <1>1, <2>1 DEF Begin
  <2>2. CASE CreateProcessing(a)  BY <1>1, <2>2 DEF CreateProcessing
  <2>3. CASE GetExisting(a)  BY <1>1, <2>3 DEF GetExisting
  <2>4. CASE TryReclaim(a)  BY <1>1, <2>4 DEF TryReclaim
  <2>5. CASE RenewCall(a)  BY <1>1, <2>5 DEF RenewCall
  <2>6. CASE ExtendProcessingLock(a)  BY <1>1, <2>6 DEF ExtendProcessingLock
  <2>7. CASE Finish(a)  BY <1>1, <2>7 DEF Finish
  <2>8. CASE Release(a)  BY <1>1, <2>8 DEF Release
  <2>9. CASE Crash(a)  BY <1>1, <2>9 DEF Crash
  <2> QED BY <1>1, <2>1, <2>2, <2>3, <2>4, <2>5, <2>6, <2>7, <2>8, <2>9 DEF Call
<1>2. CASE DeleteExpired /\ Lapses  BY <1>2 DEF DeleteExpired
<1>3. CASE Tick /\ Lapses  BY <1>3 DEF Tick, Slow
<1>4. CASE UNCHANGED vars  BY <1>4 DEF vars
<1> QED BY <1>1, <1>2, <1>3, <1>4 DEF Next, Lapses

(* A punctual holder renews the row before it lapses. *)
LEMMA AheadStep ==
    ASSUME FirstInv, Interval < Lease, Interval < TTL, [Next]_vars PROVE Ahead'
<1> USE DEF TypeOK, RowTypeOK, CallTypeOK, LoopTypeOK, FirstInv, LoopInv,
            AloneOnRow, Ahead, Before, Punctual
<1>1. ASSUME NEW a \in Attempts, Call(a), Lapses PROVE Ahead'
  <2>1. CASE Begin(a)  BY <1>1, <2>1 DEF Begin
  <2>2. CASE CreateProcessing(a)  BY <1>1, <2>2 DEF CreateProcessing
  <2>3. CASE GetExisting(a)  BY <1>1, <2>3 DEF GetExisting
  <2>4. CASE TryReclaim(a)  BY <1>1, <2>4 DEF TryReclaim
  <2>5. CASE RenewCall(a)  BY <1>1, <2>5 DEF RenewCall
  <2>6. CASE ExtendProcessingLock(a)  BY <1>1, <2>6 DEF ExtendProcessingLock
  <2>7. CASE Finish(a)  BY <1>1, <2>7 DEF Finish
  <2>8. CASE Release(a)  BY <1>1, <2>8 DEF Release
  <2>9. CASE Crash(a)  BY <1>1, <2>9 DEF Crash
  <2> QED BY <1>1, <2>1, <2>2, <2>3, <2>4, <2>5, <2>6, <2>7, <2>8, <2>9 DEF Call
<1>2. CASE DeleteExpired /\ Lapses  BY <1>2 DEF DeleteExpired
<1>3. CASE Tick /\ Lapses  BY <1>3 DEF Tick, Slow
<1>4. CASE UNCHANGED vars  BY <1>4 DEF vars
<1> QED BY <1>1, <1>2, <1>3, <1>4 DEF Next, Lapses

(* Nobody becomes a holder, or punctual, after having lapsed. *)
PunctualKept == \A a \in lapsed : a \in Punctual' => a \in Punctual

(* A holder that lapsed was one before. *)
LEMMA PunctualStep ==
    ASSUME FirstInv, [Next]_vars PROVE PunctualKept
<1> USE DEF TypeOK, RowTypeOK, CallTypeOK, LoopTypeOK, FirstInv, LoopInv, Punctual, PunctualKept
<1>1. ASSUME NEW a \in Attempts, Call(a), Lapses PROVE PunctualKept
  <2>1. CASE Begin(a)  BY <1>1, <2>1 DEF Begin
  <2>2. CASE CreateProcessing(a)  BY <1>1, <2>2 DEF CreateProcessing
  <2>3. CASE GetExisting(a)  BY <1>1, <2>3 DEF GetExisting
  <2>4. CASE TryReclaim(a)  BY <1>1, <2>4 DEF TryReclaim
  <2>5. CASE RenewCall(a)  BY <1>1, <2>5 DEF RenewCall
  <2>6. CASE ExtendProcessingLock(a)  BY <1>1, <2>6 DEF ExtendProcessingLock
  <2>7. CASE Finish(a)  BY <1>1, <2>7 DEF Finish
  <2>8. CASE Release(a)  BY <1>1, <2>8 DEF Release
  <2>9. CASE Crash(a)  BY <1>1, <2>9 DEF Crash
  <2> QED BY <1>1, <2>1, <2>2, <2>3, <2>4, <2>5, <2>6, <2>7, <2>8, <2>9 DEF Call
<1>2. CASE DeleteExpired /\ Lapses  BY <1>2 DEF DeleteExpired
<1>3. CASE Tick /\ Lapses  BY <1>3 DEF Tick, Slow
<1>4. CASE UNCHANGED vars  BY <1>4 DEF vars
<1> QED BY <1>1, <1>2, <1>3, <1>4 DEF Next, Lapses

(* A holder that lapses although it inserted the row is late. *)
LEMMA FirstRenewedStep ==
    ASSUME FirstInv, AloneOnRow', Ahead', [Next]_vars PROVE FirstIsRenewed'
<1>1. ASSUME Next PROVE FirstIsRenewed'
  <2>1. SUFFICES ASSUME NEW a \in (created \cap Holding \cap lapsed)', a \notin late'
        PROVE FALSE
    BY DEF FirstIsRenewed
  <2>2. a \in Punctual' /\ Protected(a)'
    BY <2>1 DEF AloneOnRow, Ahead, Before, Punctual
  <2>3. a \in lapsed
    BY <1>1, <2>1, <2>2 DEF Next
  <2>4. a \in Punctual
    BY <2>2, <2>3, PunctualStep DEF PunctualKept
  <2> QED BY <2>3, <2>4 DEF FirstInv, FirstIsRenewed, Punctual
<1>2. CASE UNCHANGED vars  BY <1>2 DEF vars, FirstInv, FirstIsRenewed
<1> QED BY <1>1, <1>2

LEMMA SpecInv == Spec => []IInv
<1>1. Init => IInv
  BY DEF Init, IInv, ProtectedInv, OneOperation, TypeOK, RowTypeOK, CallTypeOK, LoopTypeOK
<1>2. IInv /\ [Next]_vars => IInv'
  BY TypesStep, ProtectedStep DEF IInv
<1> QED BY <1>1, <1>2, PTL DEF Spec

-----------------------------------------------------------------------------
(* TypeOK for any instance.                                                 *)
THEOREM SystemLockTypeCorrect == Spec => []TypeOK
<1>1. IInv => TypeOK
  BY DEF IInv
<1> QED BY SpecInv, <1>1, PTL

(* OneOperation for any attempts, durations and faults, TTLs shorter than   *)
(* the lease included.                                                      *)
THEOREM OneOperationThm == Spec => []OneOperation
<1>1. IInv => OneOperation
  BY DEF IInv, ProtectedInv
<1> QED BY SpecInv, <1>1, PTL

(* FirstIsRenewed for any durations that leave time for a renewal.          *)
THEOREM FirstIsRenewedThm ==
    ASSUME Interval < Lease, Interval < TTL PROVE Spec => []FirstIsRenewed
<1>1. Init => FirstInv
  BY DEF Init, FirstInv, LoopInv, AloneOnRow, Ahead, Punctual, FirstIsRenewed,
         TypeOK, RowTypeOK, CallTypeOK, LoopTypeOK
<1>2. FirstInv /\ [Next]_vars => FirstInv'
  BY TypesStep, LoopStep, AloneStep, AheadStep, FirstRenewedStep DEF FirstInv
<1>3. FirstInv => FirstIsRenewed
  BY DEF FirstInv
<1> QED BY <1>1, <1>2, <1>3, PTL DEF Spec
=============================================================================
