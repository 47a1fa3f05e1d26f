---------------------------- MODULE BatchImageProofs ----------------------------
(***************************************************************************)
(* Safety of BatchImageJobs for any jobs, workers, amounts and bounds.     *)
(* While no lock lapses the worker that acts on a job has its lock         *)
(* (LockHeld), so what it read of the job's status stays true until it     *)
(* settles it (SettleOfSettling); a captured job is paid for or about to   *)
(* be (CapturedState) and a job whose release moved money will never be    *)
(* settled (ReturnedState).  Whoever loses whichever lock, only a job with *)
(* a hold goes upstream (HeldSubmit), no failed submission overwrites a    *)
(* job that went on (EarlySubmit) and nothing is completed unpaid          *)
(* (PaidIsCaptured).  A queued job is in one place (QueuedOnce), the one    *)
(* worker that has it leaves it there until its hold is settled            *)
(* (HandActive, AckOfSettled): so no hold of a dead job is stranded.       *)
(* With one settlement per job the frozen balance covers the holds that    *)
(* are not settled (PoolInv).                                              *)
(***************************************************************************)
EXTENDS BatchImageJobs, FiniteSetTheorems, TLAPS

Dead == {"failed", "cancelled"}
Paid == {"completed", "output_deleted"}
Early == {"created", "uploading"}

(* Who works on a job holds its lock. *)
LockHeld ==
    \A w \in Workers : step[w] \notin {"idle", "lock", "conflict"} /\ job[w] \notin lapsed =>
        lock[job[w]] = w

(* A submission that may still mark the job failed has not passed it on. *)
EarlySubmit ==
    \A j \in Jobs :
        /\ submit[j] = "idle" => status[j] = "none"
        /\ submit[j] \in {"reserve", "items", "upload", "provider", "record", "markFailed",
                          "release", "releaseQuit", "releaseFailed"} =>
               status[j] \in Early \cup Dead

HeldSubmit ==
    \A j \in Jobs :
        /\ submit[j] \in {"items", "upload", "provider", "record"} => j \in held
        /\ status[j] \notin {"none", "created"} \cup Dead => j \in held

(* The handlers release the holds of failed and cancelled jobs. *)
ReleaseOfDead ==
    /\ \A j \in Jobs : "release" \in {cancel[j], recovery[j]} => status[j] \in Dead
    /\ \A w \in Workers : step[w] = "release" => status[job[w]] \in Dead

SettleOfSettling ==
    \A w \in Workers :
        step[w] \in {"capture", "record", "releaseExhausted", "recordRelease",
                    "failExhausted", "markSettled"} /\ job[w] \notin lapsed => status[job[w]] = "settling"

PaidIsCaptured ==
    /\ \A w \in Workers : step[w] = "markSettled" => job[w] \in captured
    /\ \A j \in Jobs : status[j] \in Paid => j \in captured

(* The lock's owner is about to make the step s on j. *)
OwnerAt(j, s) == lock[j] \in Workers /\ job[lock[j]] = j /\ step[lock[j]] = s

CapturedState ==
    \A j \in captured \ (lapsed \cup unmarked) :
        status[j] \in Paid \/ (status[j] = "settling" /\ OwnerAt(j, "markSettled"))

ReturnedState ==
    \A j \in returned \ (lapsed \cup unmarked) :
        \/ status[j] \in Dead \/ OwnerAt(j, "failExhausted")
        \/ status[j] \in Early /\
           submit[j] \notin {"idle", "reserve", "items", "upload", "provider", "record"}

(* A job no lock was lost on is in one place: in one of the queue's         *)
(* structures, active while a worker has it, and inflight as long as it is  *)
(* queued.                                                                  *)
InHand(w) == step[w] \notin {"idle", "unlock"}

QueuedOnce ==
    \A j \in Jobs \ lapsed :
        /\ j \in ready => j \notin delayed \cup active
        /\ j \in delayed => j \notin active
        /\ Queued(j) => j \in inflight

InflightQueued == \A j \in inflight : Queued(j)

HandActive ==
    \A w \in Workers : InHand(w) /\ job[w] \notin lapsed =>
        /\ job[w] \in active
        /\ \A v \in Workers : InHand(v) /\ job[v] = job[w] => v = w

(* A job is acknowledged once its hold is settled. *)
AckOfSettled ==
    \A w \in Workers : job[w] \notin lapsed =>
        /\ step[w] = "process" => status[job[w]] # "settling"
        /\ step[w] = "failExhausted" => job[w] \in released
        /\ step[w] = "recheck" => job[w] \in released \/ status[job[w]] = "settling"
        /\ step[w] = "ack" => job[w] \in released \/ status[job[w]] \in Paid

(* Only a submission with nothing left to release marks the job failed. *)
MarkOfFree ==
    \A j \in Jobs :
        /\ submit[j] \in {"idle", "reserve"} => j \notin held
        /\ submit[j] = "markFailed" => j \notin held \/ j \in released

(* What holds whoever loses whichever lock, and what holds for the jobs     *)
(* nobody lost the lock of.                                                 *)
AnywayInv == EarlySubmit /\ HeldSubmit /\ ReleaseOfDead /\ PaidIsCaptured /\ MarkOfFree
LockedInv == LockHeld /\ SettleOfSettling /\ CapturedState /\ ReturnedState
QueueInv == QueuedOnce /\ InflightQueued /\ HandActive
DeadInv == AckOfSettled /\ NoStrandedHold

IInv == TypeOK /\ AnywayInv /\ LockedInv /\ QueueInv /\ DeadInv

-----------------------------------------------------------------------------
(* How the actions are put together; what is left is the action's own.      *)
USE MoneyAssumption, NoneAssumption, BoundsAssumption
    DEF ledgerVars, queueVars, rowVars, handlerVars, workerVars, provVars, histVars,
        Fault, Calm, Submitting, Replaying, Cancelling, Recovering, Working, Resting,
        Transition, TransitionRefused, RecordSubmitFailed, CountFailure, Lapse, Break, Unmark,
        EnqueueOrLose, RecordQueueFailed, CancelUpstream, HideRecord, WorkerReads,
        WorkerTransition, RetryExhausted, AfterFailure, Busy, Owned,
        Statuses, Terminal, Allowed, CanTransition, Dead, Paid, Early,
        ReserveHold, ReserveRefused, CaptureHold, CaptureRefused, ReleaseHold, ReleaseRefused,
        Enqueue, Reserve, RequeueAfter, Ack, MoveDueDelayedToReady, RecoverStaleActive,
        TryAcquireJobLock, ReleaseJobLock, ExpireJobLock, Queued, ReleaseDue, InHand

(* Every variable keeps its type: the balances stay natural numbers. *)
LEMMA TypesStep == ASSUME TypeOK, [Next]_vars PROVE TypeOK'
<1> USE DEF TypeOK, LedgerTypeOK, QueueTypeOK, RowTypeOK, HandlerTypeOK, WorkerTypeOK,
            ProvTypeOK, HistTypeOK, SubmitSteps, CancelSteps, WorkerSteps
<1>1. ASSUME NEW j \in Jobs, SubmitNext(j) PROVE TypeOK'
  <2>1. CASE SubmitCreate(j)  BY <2>1 DEF SubmitCreate
  <2>2. CASE SubmitReserve(j)  BY <2>2 DEF SubmitReserve
  <2>3. CASE SubmitItems(j)  BY <2>3 DEF SubmitItems
  <2>4. CASE SubmitUpload(j)  BY <2>4 DEF SubmitUpload
  <2>5. CASE SubmitProvider(j)  BY <2>5 DEF SubmitProvider
  <2>6. CASE SubmitRecord(j)  BY <2>6 DEF SubmitRecord
  <2>7. CASE SubmitAbort(j)  BY <2>7 DEF SubmitAbort
  <2>8. CASE SubmitEnqueue(j)  BY <2>8 DEF SubmitEnqueue
  <2>9. CASE SubmitQueueFailed(j)  BY <2>9 DEF SubmitQueueFailed
  <2>10. CASE SubmitRelease(j)  BY <2>10 DEF SubmitRelease
  <2>11. CASE SubmitReleaseFailed(j)  BY <2>11 DEF SubmitReleaseFailed
  <2>12. CASE SubmitRetry(j)  BY <2>12 DEF SubmitRetry
  <2>13. CASE SubmitMarkFailed(j)  BY <2>13 DEF SubmitMarkFailed
  <2>14. CASE SubmitHide(j)  BY <2>14 DEF SubmitHide
  <2>15. CASE SubmitCrash(j)  BY <2>15 DEF SubmitCrash
  <2>16. CASE ReplayRead(j)  BY <2>16 DEF ReplayRead
  <2>17. CASE ReplayEnqueue(j)  BY <2>17 DEF ReplayEnqueue
  <2>18. CASE ReplayQueueFailed(j)  BY <2>18 DEF ReplayQueueFailed
  <2> QED BY <1>1, <2>1, <2>2, <2>3, <2>4, <2>5, <2>6, <2>7, <2>8, <2>9, <2>10,
            <2>11, <2>12, <2>13, <2>14, <2>15, <2>16, <2>17, <2>18 DEF SubmitNext
<1>2. ASSUME NEW j \in Jobs, CancelNext(j) PROVE TypeOK'
  <2>1. CASE CancelRead(j)  BY <2>1 DEF CancelRead
  <2>2. CASE CancelProvider(j)  BY <2>2 DEF CancelProvider
  <2>3. CASE CancelEnqueue(j)  BY <2>3 DEF CancelEnqueue
  <2>4. CASE CancelTransition(j)  BY <2>4 DEF CancelTransition
  <2>5. CASE CancelRelease(j)  BY <2>5 DEF CancelRelease
  <2>6. CASE CancelRetry(j)  BY <2>6 DEF CancelRetry
  <2>7. CASE CancelCrash(j)  BY <2>7 DEF CancelCrash
  <2> QED BY <1>2, <2>1, <2>2, <2>3, <2>4, <2>5, <2>6, <2>7 DEF CancelNext
<1>3. ASSUME NEW j \in Jobs, RecoveryNext(j) PROVE TypeOK'
  <2>1. CASE RecoveryFailStale(j)  BY <2>1 DEF RecoveryFailStale
  <2>2. CASE RecoveryRelease(j)  BY <2>2 DEF RecoveryRelease
  <2>3. CASE RecoveryRetry(j)  BY <2>3 DEF RecoveryRetry
  <2>4. CASE RecoveryCrash(j)  BY <2>4 DEF RecoveryCrash
  <2> QED BY <1>3, <2>1, <2>2, <2>3, <2>4 DEF RecoveryNext
<1>4. ASSUME NEW j \in Jobs, EnvironmentNext(j) PROVE TypeOK'
  <2>1. CASE DelayPasses(j)  BY <2>1 DEF DelayPasses
  <2>2. CASE ActiveIsStale(j)  BY <2>2 DEF ActiveIsStale
  <2>3. CASE LockExpires(j)  BY <2>3 DEF LockExpires
  <2>4. CASE ProviderEnds(j)  BY <2>4 DEF ProviderEnds
  <2>5. CASE DeleteOutputs(j)  BY <2>5 DEF DeleteOutputs
  <2>6. CASE DeleteRecord(j)  BY <2>6 DEF DeleteRecord
  <2> QED BY <1>4, <2>1, <2>2, <2>3, <2>4, <2>5, <2>6 DEF EnvironmentNext
<1>5. ASSUME NEW w \in Workers, WorkerNext(w) PROVE TypeOK'
  <2>1. CASE \E j \in Jobs : WorkerReserve(w, j)  BY <2>1 DEF WorkerReserve
  <2>2. CASE WorkerLock(w)  BY <2>2 DEF WorkerLock
  <2>3. CASE WorkerConflict(w)  BY <2>3 DEF WorkerConflict
  <2>4. CASE WorkerRead(w)  BY <2>4 DEF WorkerRead
  <2>5. CASE WorkerProcess(w)  BY <2>5 DEF WorkerProcess
  <2>6. CASE WorkerPoll(w)  BY <2>6 DEF WorkerPoll
  <2>7. CASE WorkerToRunning(w)  BY <2>7 DEF WorkerToRunning
  <2>8. CASE WorkerToIndexing(w)  BY <2>8 DEF WorkerToIndexing
  <2>9. CASE WorkerIndex(w)  BY <2>9 DEF WorkerIndex
  <2>10. CASE WorkerToSettling(w)  BY <2>10 DEF WorkerToSettling
  <2>11. CASE WorkerToFailed(w)  BY <2>11 DEF WorkerToFailed
  <2>12. CASE WorkerToCancelled(w)  BY <2>12 DEF WorkerToCancelled
  <2>13. CASE WorkerRelease(w)  BY <2>13 DEF WorkerRelease
  <2>14. CASE WorkerSettle(w)  BY <2>14 DEF WorkerSettle
  <2>15. CASE WorkerCapture(w)  BY <2>15 DEF WorkerCapture
  <2>16. CASE WorkerRecord(w)  BY <2>16 DEF WorkerRecord
  <2>17. CASE WorkerReleaseExhausted(w)  BY <2>17 DEF WorkerReleaseExhausted
  <2>18. CASE WorkerRecordRelease(w)  BY <2>18 DEF WorkerRecordRelease
  <2>19. CASE WorkerFailExhausted(w)  BY <2>19 DEF WorkerFailExhausted
  <2>20. CASE WorkerRecheck(w)  BY <2>20 DEF WorkerRecheck
  <2>21. CASE WorkerMarkSettled(w)  BY <2>21 DEF WorkerMarkSettled
  <2>22. CASE WorkerAck(w)  BY <2>22 DEF WorkerAck
  <2>23. CASE WorkerRequeue(w)  BY <2>23 DEF WorkerRequeue
  <2>24. CASE WorkerUnlock(w)  BY <2>24 DEF WorkerUnlock
  <2>25. CASE WorkerCrash(w)  BY <2>25 DEF WorkerCrash
  <2> QED BY <1>5, <2>1, <2>2, <2>3, <2>4, <2>5, <2>6, <2>7, <2>8, <2>9, <2>10,
            <2>11, <2>12, <2>13, <2>14, <2>15, <2>16, <2>17, <2>18, <2>19, <2>20,
            <2>21, <2>22, <2>23, <2>24, <2>25 DEF WorkerNext
<1>6. CASE UNCHANGED vars  BY <1>6 DEF vars
<1> QED BY <1>1, <1>2, <1>3, <1>4, <1>5, <1>6 DEF Next

(* A submission fails a job, and a release returns a hold, only before the
   provider has the job or after it is dead; a completed job has paid. *)
LEMMA AnywayStep == ASSUME IInv, [Next]_vars PROVE AnywayInv'
<1> USE DEF IInv, TypeOK, LedgerTypeOK, QueueTypeOK, RowTypeOK, HandlerTypeOK, WorkerTypeOK,
            ProvTypeOK, HistTypeOK, AnywayInv, EarlySubmit, HeldSubmit, ReleaseOfDead,
            PaidIsCaptured, MarkOfFree
<1>1. ASSUME NEW j \in Jobs, SubmitNext(j) PROVE AnywayInv'
  <2>1. CASE SubmitCreate(j)  BY <2>1 DEF SubmitCreate
  <2>2. CASE SubmitReserve(j)  BY <2>2 DEF SubmitReserve
  <2>3. CASE SubmitItems(j)  BY <2>3 DEF SubmitItems
  <2>4. CASE SubmitUpload(j)  BY <2>4 DEF SubmitUpload
  <2>5. CASE SubmitProvider(j)  BY <2>5 DEF SubmitProvider
  <2>6. CASE SubmitRecord(j)  BY <2>6 DEF SubmitRecord
  <2>7. CASE SubmitAbort(j)  BY <2>7 DEF SubmitAbort
  <2>8. CASE SubmitEnqueue(j)  BY <2>8 DEF SubmitEnqueue
  <2>9. CASE SubmitQueueFailed(j)  BY <2>9 DEF SubmitQueueFailed
  <2>10. CASE SubmitRelease(j)  BY <2>10 DEF SubmitRelease
  <2>11. CASE SubmitReleaseFailed(j)  BY <2>11 DEF SubmitReleaseFailed
  <2>12. CASE SubmitRetry(j)  BY <2>12 DEF SubmitRetry
  <2>13. CASE SubmitMarkFailed(j)  BY <2>13 DEF SubmitMarkFailed
  <2>14. CASE SubmitHide(j)  BY <2>14 DEF SubmitHide
  <2>15. CASE SubmitCrash(j)  BY <2>15 DEF SubmitCrash
  <2>16. CASE ReplayRead(j)  BY <2>16 DEF ReplayRead
  <2>17. CASE ReplayEnqueue(j)  BY <2>17 DEF ReplayEnqueue
  <2>18. CASE ReplayQueueFailed(j)  BY <2>18 DEF ReplayQueueFailed
  <2> QED BY <1>1, <2>1, <2>2, <2>3, <2>4, <2>5, <2>6, <2>7, <2>8, <2>9, <2>10,
            <2>11, <2>12, <2>13, <2>14, <2>15, <2>16, <2>17, <2>18 DEF SubmitNext
<1>2. ASSUME NEW j \in Jobs, CancelNext(j) PROVE AnywayInv'
  <2>1. CASE CancelRead(j)  BY <2>1 DEF CancelRead
  <2>2. CASE CancelProvider(j)  BY <2>2 DEF CancelProvider
  <2>3. CASE CancelEnqueue(j)  BY <2>3 DEF CancelEnqueue
  <2>4. CASE CancelTransition(j)  BY <2>4 DEF CancelTransition
  <2>5. CASE CancelRelease(j)  BY <2>5 DEF CancelRelease
  <2>6. CASE CancelRetry(j)  BY <2>6 DEF CancelRetry
  <2>7. CASE CancelCrash(j)  BY <2>7 DEF CancelCrash
  <2> QED BY <1>2, <2>1, <2>2, <2>3, <2>4, <2>5, <2>6, <2>7 DEF CancelNext
<1>3. ASSUME NEW j \in Jobs, RecoveryNext(j) PROVE AnywayInv'
  <2>1. CASE RecoveryFailStale(j)  BY <2>1 DEF RecoveryFailStale
  <2>2. CASE RecoveryRelease(j)  BY <2>2 DEF RecoveryRelease
  <2>3. CASE RecoveryRetry(j)  BY <2>3 DEF RecoveryRetry
  <2>4. CASE RecoveryCrash(j)  BY <2>4 DEF RecoveryCrash
  <2> QED BY <1>3, <2>1, <2>2, <2>3, <2>4 DEF RecoveryNext
<1>4. ASSUME NEW j \in Jobs, EnvironmentNext(j) PROVE AnywayInv'
  <2>1. CASE DelayPasses(j)  BY <2>1 DEF DelayPasses
  <2>2. CASE ActiveIsStale(j)  BY <2>2 DEF ActiveIsStale
  <2>3. CASE LockExpires(j)  BY <2>3 DEF LockExpires
  <2>4. CASE ProviderEnds(j)  BY <2>4 DEF ProviderEnds
  <2>5. CASE DeleteOutputs(j)  BY <2>5 DEF DeleteOutputs
  <2>6. CASE DeleteRecord(j)  BY <2>6 DEF DeleteRecord
  <2> QED BY <1>4, <2>1, <2>2, <2>3, <2>4, <2>5, <2>6 DEF EnvironmentNext
<1>5. ASSUME NEW w \in Workers, WorkerNext(w) PROVE AnywayInv'
  <2>1. CASE \E j \in Jobs : WorkerReserve(w, j)  BY <2>1 DEF WorkerReserve
  <2>2. CASE WorkerLock(w)  BY <2>2 DEF WorkerLock
  <2>3. CASE WorkerConflict(w)  BY <2>3 DEF WorkerConflict
  <2>4. CASE WorkerRead(w)  BY <2>4 DEF WorkerRead
  <2>5. CASE WorkerProcess(w)  BY <2>5 DEF WorkerProcess
  <2>6. CASE WorkerPoll(w)  BY <2>6 DEF WorkerPoll
  <2>7. CASE WorkerToRunning(w)  BY <2>7 DEF WorkerToRunning
  <2>8. CASE WorkerToIndexing(w)  BY <2>8 DEF WorkerToIndexing
  <2>9. CASE WorkerIndex(w)  BY <2>9 DEF WorkerIndex
  <2>10. CASE WorkerToSettling(w)  BY <2>10 DEF WorkerToSettling
  <2>11. CASE WorkerToFailed(w)  BY <2>11 DEF WorkerToFailed
  <2>12. CASE WorkerToCancelled(w)  BY <2>12 DEF WorkerToCancelled
  <2>13. CASE WorkerRelease(w)  BY <2>13 DEF WorkerRelease
  <2>14. CASE WorkerSettle(w)  BY <2>14 DEF WorkerSettle
  <2>15. CASE WorkerCapture(w)  BY <2>15 DEF WorkerCapture
  <2>16. CASE WorkerRecord(w)  BY <2>16 DEF WorkerRecord
  <2>17. CASE WorkerReleaseExhausted(w)  BY <2>17 DEF WorkerReleaseExhausted
  <2>18. CASE WorkerRecordRelease(w)  BY <2>18 DEF WorkerRecordRelease
  <2>19. CASE WorkerFailExhausted(w)  BY <2>19 DEF WorkerFailExhausted
  <2>20. CASE WorkerRecheck(w)  BY <2>20 DEF WorkerRecheck
  <2>21. CASE WorkerMarkSettled(w)  BY <2>21 DEF WorkerMarkSettled
  <2>22. CASE WorkerAck(w)  BY <2>22 DEF WorkerAck
  <2>23. CASE WorkerRequeue(w)  BY <2>23 DEF WorkerRequeue
  <2>24. CASE WorkerUnlock(w)  BY <2>24 DEF WorkerUnlock
  <2>25. CASE WorkerCrash(w)  BY <2>25 DEF WorkerCrash
  <2> QED BY <1>5, <2>1, <2>2, <2>3, <2>4, <2>5, <2>6, <2>7, <2>8, <2>9, <2>10,
            <2>11, <2>12, <2>13, <2>14, <2>15, <2>16, <2>17, <2>18, <2>19, <2>20,
            <2>21, <2>22, <2>23, <2>24, <2>25 DEF WorkerNext
<1>6. CASE UNCHANGED vars  BY <1>6 DEF vars
<1> QED BY <1>1, <1>2, <1>3, <1>4, <1>5, <1>6 DEF Next

(* A worker's lock protects what it read of the job until the hold is settled. *)
LEMMA LockedStep == ASSUME IInv, [Next]_vars PROVE LockedInv'
<1> USE DEF IInv, TypeOK, LedgerTypeOK, QueueTypeOK, RowTypeOK, HandlerTypeOK, WorkerTypeOK,
            ProvTypeOK, HistTypeOK, AnywayInv, EarlySubmit, HeldSubmit, ReleaseOfDead,
            PaidIsCaptured, MarkOfFree,
            LockedInv, LockHeld, SettleOfSettling, CapturedState, ReturnedState, OwnerAt
<1>1. ASSUME NEW j \in Jobs, SubmitNext(j) PROVE LockedInv'
  <2>1. CASE SubmitCreate(j)  BY <2>1 DEF SubmitCreate
  <2>2. CASE SubmitReserve(j)  BY <2>2 DEF SubmitReserve
  <2>3. CASE SubmitItems(j)  BY <2>3 DEF SubmitItems
  <2>4. CASE SubmitUpload(j)  BY <2>4 DEF SubmitUpload
  <2>5. CASE SubmitProvider(j)  BY <2>5 DEF SubmitProvider
  <2>6. CASE SubmitRecord(j)  BY <2>6 DEF SubmitRecord
  <2>7. CASE SubmitAbort(j)  BY <2>7 DEF SubmitAbort
  <2>8. CASE SubmitEnqueue(j)  BY <2>8 DEF SubmitEnqueue
  <2>9. CASE SubmitQueueFailed(j)  BY <2>9 DEF SubmitQueueFailed
  <2>10. CASE SubmitRelease(j)  BY <2>10 DEF SubmitRelease
  <2>11. CASE SubmitReleaseFailed(j)  BY <2>11 DEF SubmitReleaseFailed
  <2>12. CASE SubmitRetry(j)  BY <2>12 DEF SubmitRetry
  <2>13. CASE SubmitMarkFailed(j)  BY <2>13 DEF SubmitMarkFailed
  <2>14. CASE SubmitHide(j)  BY <2>14 DEF SubmitHide
  <2>15. CASE SubmitCrash(j)  BY <2>15 DEF SubmitCrash
  <2>16. CASE ReplayRead(j)  BY <2>16 DEF ReplayRead
  <2>17. CASE ReplayEnqueue(j)  BY <2>17 DEF ReplayEnqueue
  <2>18. CASE ReplayQueueFailed(j)  BY <2>18 DEF ReplayQueueFailed
  <2> QED BY <1>1, <2>1, <2>2, <2>3, <2>4, <2>5, <2>6, <2>7, <2>8, <2>9, <2>10,
            <2>11, <2>12, <2>13, <2>14, <2>15, <2>16, <2>17, <2>18 DEF SubmitNext
<1>2. ASSUME NEW j \in Jobs, CancelNext(j) PROVE LockedInv'
  <2>1. CASE CancelRead(j)  BY <2>1 DEF CancelRead
  <2>2. CASE CancelProvider(j)  BY <2>2 DEF CancelProvider
  <2>3. CASE CancelEnqueue(j)  BY <2>3 DEF CancelEnqueue
  <2>4. CASE CancelTransition(j)  BY <2>4 DEF CancelTransition
  <2>5. CASE CancelRelease(j)  BY <2>5 DEF CancelRelease
  <2>6. CASE CancelRetry(j)  BY <2>6 DEF CancelRetry
  <2>7. CASE CancelCrash(j)  BY <2>7 DEF CancelCrash
  <2> QED BY <1>2, <2>1, <2>2, <2>3, <2>4, <2>5, <2>6, <2>7 DEF CancelNext
<1>3. ASSUME NEW j \in Jobs, RecoveryNext(j) PROVE LockedInv'
  <2>1. CASE RecoveryFailStale(j)  BY <2>1 DEF RecoveryFailStale
  <2>2. CASE RecoveryRelease(j)  BY <2>2 DEF RecoveryRelease
  <2>3. CASE RecoveryRetry(j)  BY <2>3 DEF RecoveryRetry
  <2>4. CASE RecoveryCrash(j)  BY <2>4 DEF RecoveryCrash
  <2> QED BY <1>3, <2>1, <2>2, <2>3, <2>4 DEF RecoveryNext
<1>4. ASSUME NEW j \in Jobs, EnvironmentNext(j) PROVE LockedInv'
  <2>1. CASE DelayPasses(j)  BY <2>1 DEF DelayPasses
  <2>2. CASE ActiveIsStale(j)  BY <2>2 DEF ActiveIsStale
  <2>3. CASE LockExpires(j)  BY <2>3 DEF LockExpires
  <2>4. CASE ProviderEnds(j)  BY <2>4 DEF ProviderEnds
  <2>5. CASE DeleteOutputs(j)  BY <2>5 DEF DeleteOutputs
  <2>6. CASE DeleteRecord(j)  BY <2>6 DEF DeleteRecord
  <2> QED BY <1>4, <2>1, <2>2, <2>3, <2>4, <2>5, <2>6 DEF EnvironmentNext
<1>5. ASSUME NEW w \in Workers, WorkerNext(w) PROVE LockedInv'
  <2>1. CASE \E j \in Jobs : WorkerReserve(w, j)  BY <2>1 DEF WorkerReserve
  <2>2. CASE WorkerLock(w)  BY <2>2 DEF WorkerLock
  <2>3. CASE WorkerConflict(w)  BY <2>3 DEF WorkerConflict
  <2>4. CASE WorkerRead(w)  BY <2>4 DEF WorkerRead
  <2>5. CASE WorkerProcess(w)  BY <2>5 DEF WorkerProcess
  <2>6. CASE WorkerPoll(w)  BY <2>6 DEF WorkerPoll
  <2>7. CASE WorkerToRunning(w)  BY <2>7 DEF WorkerToRunning
  <2>8. CASE WorkerToIndexing(w)  BY <2>8 DEF WorkerToIndexing
  <2>9. CASE WorkerIndex(w)  BY <2>9 DEF WorkerIndex
  <2>10. CASE WorkerToSettling(w)  BY <2>10 DEF WorkerToSettling
  <2>11. CASE WorkerToFailed(w)  BY <2>11 DEF WorkerToFailed
  <2>12. CASE WorkerToCancelled(w)  BY <2>12 DEF WorkerToCancelled
  <2>13. CASE WorkerRelease(w)  BY <2>13 DEF WorkerRelease
  <2>14. CASE WorkerSettle(w)  BY <2>14 DEF WorkerSettle
  <2>15. CASE WorkerCapture(w)  BY <2>15 DEF WorkerCapture
  <2>16. CASE WorkerRecord(w)  BY <2>16 DEF WorkerRecord
  <2>17. CASE WorkerReleaseExhausted(w)  BY <2>17 DEF WorkerReleaseExhausted
  <2>18. CASE WorkerRecordRelease(w)  BY <2>18 DEF WorkerRecordRelease
  <2>19. CASE WorkerFailExhausted(w)  BY <2>19 DEF WorkerFailExhausted
  <2>20. CASE WorkerRecheck(w)  BY <2>20 DEF WorkerRecheck
  <2>21. CASE WorkerMarkSettled(w)  BY <2>21 DEF WorkerMarkSettled
  <2>22. CASE WorkerAck(w)  BY <2>22 DEF WorkerAck
  <2>23. CASE WorkerRequeue(w)  BY <2>23 DEF WorkerRequeue
  <2>24. CASE WorkerUnlock(w)  BY <2>24 DEF WorkerUnlock
  <2>25. CASE WorkerCrash(w)  BY <2>25 DEF WorkerCrash
  <2> QED BY <1>5, <2>1, <2>2, <2>3, <2>4, <2>5, <2>6, <2>7, <2>8, <2>9, <2>10,
            <2>11, <2>12, <2>13, <2>14, <2>15, <2>16, <2>17, <2>18, <2>19, <2>20,
            <2>21, <2>22, <2>23, <2>24, <2>25 DEF WorkerNext
<1>6. CASE UNCHANGED vars  BY <1>6 DEF vars
<1> QED BY <1>1, <1>2, <1>3, <1>4, <1>5, <1>6 DEF Next

(* A job moves between the queue's structures and its worker's hands. *)
LEMMA QueueStep == ASSUME IInv, [Next]_vars PROVE QueueInv'
<1> USE DEF IInv, TypeOK, LedgerTypeOK, QueueTypeOK, RowTypeOK, HandlerTypeOK, WorkerTypeOK,
            ProvTypeOK, HistTypeOK, QueueInv, QueuedOnce, InflightQueued, HandActive
<1>1. ASSUME NEW j \in Jobs, SubmitNext(j) PROVE QueueInv'
  <2>1. CASE SubmitCreate(j)  BY <2>1 DEF SubmitCreate
  <2>2. CASE SubmitReserve(j)  BY <2>2 DEF SubmitReserve
  <2>3. CASE SubmitItems(j)  BY <2>3 DEF SubmitItems
  <2>4. CASE SubmitUpload(j)  BY <2>4 DEF SubmitUpload
  <2>5. CASE SubmitProvider(j)  BY <2>5 DEF SubmitProvider
  <2>6. CASE SubmitRecord(j)  BY <2>6 DEF SubmitRecord
  <2>7. CASE SubmitAbort(j)  BY <2>7 DEF SubmitAbort
  <2>8. CASE SubmitEnqueue(j)  BY <2>8 DEF SubmitEnqueue
  <2>9. CASE SubmitQueueFailed(j)  BY <2>9 DEF SubmitQueueFailed
  <2>10. CASE SubmitRelease(j)  BY <2>10 DEF SubmitRelease
  <2>11. CASE SubmitReleaseFailed(j)  BY <2>11 DEF SubmitReleaseFailed
  <2>12. CASE SubmitRetry(j)  BY <2>12 DEF SubmitRetry
  <2>13. CASE SubmitMarkFailed(j)  BY <2>13 DEF SubmitMarkFailed
  <2>14. CASE SubmitHide(j)  BY <2>14 DEF SubmitHide
  <2>15. CASE SubmitCrash(j)  BY <2>15 DEF SubmitCrash
  <2>16. CASE ReplayRead(j)  BY <2>16 DEF ReplayRead
  <2>17. CASE ReplayEnqueue(j)  BY <2>17 DEF ReplayEnqueue
  <2>18. CASE ReplayQueueFailed(j)  BY <2>18 DEF ReplayQueueFailed
  <2> QED BY <1>1, <2>1, <2>2, <2>3, <2>4, <2>5, <2>6, <2>7, <2>8, <2>9, <2>10,
            <2>11, <2>12, <2>13, <2>14, <2>15, <2>16, <2>17, <2>18 DEF SubmitNext
<1>2. ASSUME NEW j \in Jobs, CancelNext(j) PROVE QueueInv'
  <2>1. CASE CancelRead(j)  BY <2>1 DEF CancelRead
  <2>2. CASE CancelProvider(j)  BY <2>2 DEF CancelProvider
  <2>3. CASE CancelEnqueue(j)  BY <2>3 DEF CancelEnqueue
  <2>4. CASE CancelTransition(j)  BY <2>4 DEF CancelTransition
  <2>5. CASE CancelRelease(j)  BY <2>5 DEF CancelRelease
  <2>6. CASE CancelRetry(j)  BY <2>6 DEF CancelRetry
  <2>7. CASE CancelCrash(j)  BY <2>7 DEF CancelCrash
  <2> QED BY <1>2, <2>1, <2>2, <2>3, <2>4, <2>5, <2>6, <2>7 DEF CancelNext
<1>3. ASSUME NEW j \in Jobs, RecoveryNext(j) PROVE QueueInv'
  <2>1. CASE RecoveryFailStale(j)  BY <2>1 DEF RecoveryFailStale
  <2>2. CASE RecoveryRelease(j)  BY <2>2 DEF RecoveryRelease
  <2>3. CASE RecoveryRetry(j)  BY <2>3 DEF RecoveryRetry
  <2>4. CASE RecoveryCrash(j)  BY <2>4 DEF RecoveryCrash
  <2> QED BY <1>3, <2>1, <2>2, <2>3, <2>4 DEF RecoveryNext
<1>4. ASSUME NEW j \in Jobs, EnvironmentNext(j) PROVE QueueInv'
  <2>1. CASE DelayPasses(j)  BY <2>1 DEF DelayPasses
  <2>2. CASE ActiveIsStale(j)  BY <2>2 DEF ActiveIsStale
  <2>3. CASE LockExpires(j)  BY <2>3 DEF LockExpires
  <2>4. CASE ProviderEnds(j)  BY <2>4 DEF ProviderEnds
  <2>5. CASE DeleteOutputs(j)  BY <2>5 DEF DeleteOutputs
  <2>6. CASE DeleteRecord(j)  BY <2>6 DEF DeleteRecord
  <2> QED BY <1>4, <2>1, <2>2, <2>3, <2>4, <2>5, <2>6 DEF EnvironmentNext
<1>5. ASSUME NEW w \in Workers, WorkerNext(w) PROVE QueueInv'
  <2>1. CASE \E j \in Jobs : WorkerReserve(w, j)  BY <2>1 DEF WorkerReserve
  <2>2. CASE WorkerLock(w)  BY <2>2 DEF WorkerLock
  <2>3. CASE WorkerConflict(w)  BY <2>3 DEF WorkerConflict
  <2>4. CASE WorkerRead(w)  BY <2>4 DEF WorkerRead
  <2>5. CASE WorkerProcess(w)  BY <2>5 DEF WorkerProcess
  <2>6. CASE WorkerPoll(w)  BY <2>6 DEF WorkerPoll
  <2>7. CASE WorkerToRunning(w)  BY <2>7 DEF WorkerToRunning
  <2>8. CASE WorkerToIndexing(w)  BY <2>8 DEF WorkerToIndexing
  <2>9. CASE WorkerIndex(w)  BY <2>9 DEF WorkerIndex
  <2>10. CASE WorkerToSettling(w)  BY <2>10 DEF WorkerToSettling
  <2>11. CASE WorkerToFailed(w)  BY <2>11 DEF WorkerToFailed
  <2>12. CASE WorkerToCancelled(w)  BY <2>12 DEF WorkerToCancelled
  <2>13. CASE WorkerRelease(w)  BY <2>13 DEF WorkerRelease
  <2>14. CASE WorkerSettle(w)  BY <2>14 DEF WorkerSettle
  <2>15. CASE WorkerCapture(w)  BY <2>15 DEF WorkerCapture
  <2>16. CASE WorkerRecord(w)  BY <2>16 DEF WorkerRecord
  <2>17. CASE WorkerReleaseExhausted(w)  BY <2>17 DEF WorkerReleaseExhausted
  <2>18. CASE WorkerRecordRelease(w)  BY <2>18 DEF WorkerRecordRelease
  <2>19. CASE WorkerFailExhausted(w)  BY <2>19 DEF WorkerFailExhausted
  <2>20. CASE WorkerRecheck(w)  BY <2>20 DEF WorkerRecheck
  <2>21. CASE WorkerMarkSettled(w)  BY <2>21 DEF WorkerMarkSettled
  <2>22. CASE WorkerAck(w)  BY <2>22 DEF WorkerAck
  <2>23. CASE WorkerRequeue(w)  BY <2>23 DEF WorkerRequeue
  <2>24. CASE WorkerUnlock(w)  BY <2>24 DEF WorkerUnlock
  <2>25. CASE WorkerCrash(w)  BY <2>25 DEF WorkerCrash
  <2> QED BY <1>5, <2>1, <2>2, <2>3, <2>4, <2>5, <2>6, <2>7, <2>8, <2>9, <2>10,
            <2>11, <2>12, <2>13, <2>14, <2>15, <2>16, <2>17, <2>18, <2>19, <2>20,
            <2>21, <2>22, <2>23, <2>24, <2>25 DEF WorkerNext
<1>6. CASE UNCHANGED vars  BY <1>6 DEF vars
<1> QED BY <1>1, <1>2, <1>3, <1>4, <1>5, <1>6 DEF Next

(* A dead job is acknowledged after its release, and retried until then. *)
LEMMA DeadStep == ASSUME IInv, [Next]_vars PROVE DeadInv'
<1> USE DEF IInv, TypeOK, LedgerTypeOK, QueueTypeOK, RowTypeOK, HandlerTypeOK, WorkerTypeOK,
            ProvTypeOK, HistTypeOK, AnywayInv, EarlySubmit, HeldSubmit, ReleaseOfDead,
            PaidIsCaptured, MarkOfFree,
            LockedInv, LockHeld, SettleOfSettling, CapturedState, ReturnedState, OwnerAt,
            QueueInv, QueuedOnce, InflightQueued, HandActive,
            DeadInv, AckOfSettled, NoStrandedHold
<1>1. ASSUME NEW j \in Jobs, SubmitNext(j) PROVE DeadInv'
  <2>1. CASE SubmitCreate(j)  BY <2>1 DEF SubmitCreate
  <2>2. CASE SubmitReserve(j)  BY <2>2 DEF SubmitReserve
  <2>3. CASE SubmitItems(j)  BY <2>3 DEF SubmitItems
  <2>4. CASE SubmitUpload(j)  BY <2>4 DEF SubmitUpload
  <2>5. CASE SubmitProvider(j)  BY <2>5 DEF SubmitProvider
  <2>6. CASE SubmitRecord(j)  BY <2>6 DEF SubmitRecord
  <2>7. CASE SubmitAbort(j)  BY <2>7 DEF SubmitAbort
  <2>8. CASE SubmitEnqueue(j)  BY <2>8 DEF SubmitEnqueue
  <2>9. CASE SubmitQueueFailed(j)  BY <2>9 DEF SubmitQueueFailed
  <2>10. CASE SubmitRelease(j)  BY <2>10 DEF SubmitRelease
  <2>11. CASE SubmitReleaseFailed(j)  BY <2>11 DEF SubmitReleaseFailed
  <2>12. CASE SubmitRetry(j)  BY <2>12 DEF SubmitRetry
  <2>13. CASE SubmitMarkFailed(j)  BY <2>13 DEF SubmitMarkFailed
  <2>14. CASE SubmitHide(j)  BY <2>14 DEF SubmitHide
  <2>15. CASE SubmitCrash(j)  BY <2>15 DEF SubmitCrash
  <2>16. CASE ReplayRead(j)  BY <2>16 DEF ReplayRead
  <2>17. CASE ReplayEnqueue(j)  BY <2>17 DEF ReplayEnqueue
  <2>18. CASE ReplayQueueFailed(j)  BY <2>18 DEF ReplayQueueFailed
  <2> QED BY <1>1, <2>1, <2>2, <2>3, <2>4, <2>5, <2>6, <2>7, <2>8, <2>9, <2>10,
            <2>11, <2>12, <2>13, <2>14, <2>15, <2>16, <2>17, <2>18 DEF SubmitNext
<1>2. ASSUME NEW j \in Jobs, CancelNext(j) PROVE DeadInv'
  <2>1. CASE CancelRead(j)  BY <2>1 DEF CancelRead
  <2>2. CASE CancelProvider(j)  BY <2>2 DEF CancelProvider
  <2>3. CASE CancelEnqueue(j)  BY <2>3 DEF CancelEnqueue
  <2>4. CASE CancelTransition(j)  BY <2>4 DEF CancelTransition
  <2>5. CASE CancelRelease(j)  BY <2>5 DEF CancelRelease
  <2>6. CASE CancelRetry(j)  BY <2>6 DEF CancelRetry
  <2>7. CASE CancelCrash(j)  BY <2>7 DEF CancelCrash
  <2> QED BY <1>2, <2>1, <2>2, <2>3, <2>4, <2>5, <2>6, <2>7 DEF CancelNext
<1>3. ASSUME NEW j \in Jobs, RecoveryNext(j) PROVE DeadInv'
  <2>1. CASE RecoveryFailStale(j)  BY <2>1 DEF RecoveryFailStale
  <2>2. CASE RecoveryRelease(j)  BY <2>2 DEF RecoveryRelease
  <2>3. CASE RecoveryRetry(j)  BY <2>3 DEF RecoveryRetry
  <2>4. CASE RecoveryCrash(j)  BY <2>4 DEF RecoveryCrash
  <2> QED BY <1>3, <2>1, <2>2, <2>3, <2>4 DEF RecoveryNext
<1>4. ASSUME NEW j \in Jobs, EnvironmentNext(j) PROVE DeadInv'
  <2>1. CASE DelayPasses(j)  BY <2>1 DEF DelayPasses
  <2>2. CASE ActiveIsStale(j)  BY <2>2 DEF ActiveIsStale
  <2>3. CASE LockExpires(j)  BY <2>3 DEF LockExpires
  <2>4. CASE ProviderEnds(j)  BY <2>4 DEF ProviderEnds
  <2>5. CASE DeleteOutputs(j)  BY <2>5 DEF DeleteOutputs
  <2>6. CASE DeleteRecord(j)  BY <2>6 DEF DeleteRecord
  <2> QED BY <1>4, <2>1, <2>2, <2>3, <2>4, <2>5, <2>6 DEF EnvironmentNext
<1>5. ASSUME NEW w \in Workers, WorkerNext(w) PROVE DeadInv'
  <2>1. CASE \E j \in Jobs : WorkerReserve(w, j)  BY <2>1 DEF WorkerReserve
  <2>2. CASE WorkerLock(w)  BY <2>2 DEF WorkerLock
  <2>3. CASE WorkerConflict(w)  BY <2>3 DEF WorkerConflict
  <2>4. CASE WorkerRead(w)  BY <2>4 DEF WorkerRead
  <2>5. CASE WorkerProcess(w)  BY <2>5 DEF WorkerProcess
  <2>6. CASE WorkerPoll(w)  BY <2>6 DEF WorkerPoll
  <2>7. CASE WorkerToRunning(w)  BY <2>7 DEF WorkerToRunning
  <2>8. CASE WorkerToIndexing(w)  BY <2>8 DEF WorkerToIndexing
  <2>9. CASE WorkerIndex(w)  BY <2>9 DEF WorkerIndex
  <2>10. CASE WorkerToSettling(w)  BY <2>10 DEF WorkerToSettling
  <2>11. CASE WorkerToFailed(w)  BY <2>11 DEF WorkerToFailed
  <2>12. CASE WorkerToCancelled(w)  BY <2>12 DEF WorkerToCancelled
  <2>13. CASE WorkerRelease(w)  BY <2>13 DEF WorkerRelease
  <2>14. CASE WorkerSettle(w)  BY <2>14 DEF WorkerSettle
  <2>15. CASE WorkerCapture(w)  BY <2>15 DEF WorkerCapture
  <2>16. CASE WorkerRecord(w)  BY <2>16 DEF WorkerRecord
  <2>17. CASE WorkerReleaseExhausted(w)  BY <2>17 DEF WorkerReleaseExhausted
  <2>18. CASE WorkerRecordRelease(w)  BY <2>18 DEF WorkerRecordRelease
  <2>19. CASE WorkerFailExhausted(w)  BY <2>19 DEF WorkerFailExhausted
  <2>20. CASE WorkerRecheck(w)  BY <2>20 DEF WorkerRecheck
  <2>21. CASE WorkerMarkSettled(w)  BY <2>21 DEF WorkerMarkSettled
  <2>22. CASE WorkerAck(w)  BY <2>22 DEF WorkerAck
  <2>23. CASE WorkerRequeue(w)  BY <2>23 DEF WorkerRequeue
  <2>24. CASE WorkerUnlock(w)  BY <2>24 DEF WorkerUnlock
  <2>25. CASE WorkerCrash(w)  BY <2>25 DEF WorkerCrash
  <2> QED BY <1>5, <2>1, <2>2, <2>3, <2>4, <2>5, <2>6, <2>7, <2>8, <2>9, <2>10,
            <2>11, <2>12, <2>13, <2>14, <2>15, <2>16, <2>17, <2>18, <2>19, <2>20,
            <2>21, <2>22, <2>23, <2>24, <2>25 DEF WorkerNext
<1>6. CASE UNCHANGED vars  BY <1>6 DEF vars
<1> QED BY <1>1, <1>2, <1>3, <1>4, <1>5, <1>6 DEF Next

(* What the status of a completed job may still become.                     *)
CompletedStays ==
    \A j \in Jobs : status[j] = "completed" => status'[j] \in {"completed", "output_deleted"}

(* The `failed' written whatever the status is written before the job is passed on. *)
LEMMA CompletedStep == ASSUME IInv, [Next]_vars PROVE CompletedStays
<1> USE DEF IInv, TypeOK, RowTypeOK, HandlerTypeOK, WorkerTypeOK, AnywayInv, EarlySubmit, HeldSubmit, ReleaseOfDead,
            PaidIsCaptured, MarkOfFree, CompletedStays
<1>1. ASSUME NEW j \in Jobs, SubmitNext(j) PROVE CompletedStays
  <2>1. CASE SubmitCreate(j)  BY <2>1 DEF SubmitCreate
  <2>2. CASE SubmitReserve(j)  BY <2>2 DEF SubmitReserve
  <2>3. CASE SubmitItems(j)  BY <2>3 DEF SubmitItems
  <2>4. CASE SubmitUpload(j)  BY <2>4 DEF SubmitUpload
  <2>5. CASE SubmitProvider(j)  BY <2>5 DEF SubmitProvider
  <2>6. CASE SubmitRecord(j)  BY <2>6 DEF SubmitRecord
  <2>7. CASE SubmitAbort(j)  BY <2>7 DEF SubmitAbort
  <2>8. CASE SubmitEnqueue(j)  BY <2>8 DEF SubmitEnqueue
  <2>9. CASE SubmitQueueFailed(j)  BY <2>9 DEF SubmitQueueFailed
  <2>10. CASE SubmitRelease(j)  BY <2>10 DEF SubmitRelease
  <2>11. CASE SubmitReleaseFailed(j)  BY <2>11 DEF SubmitReleaseFailed
  <2>12. CASE SubmitRetry(j)  BY <2>12 DEF SubmitRetry
  <2>13. CASE SubmitMarkFailed(j)  BY <2>13 DEF SubmitMarkFailed
  <2>14. CASE SubmitHide(j)  BY <2>14 DEF SubmitHide
  <2>15. CASE SubmitCrash(j)  BY <2>15 DEF SubmitCrash
  <2>16. CASE ReplayRead(j)  BY <2>16 DEF ReplayRead
  <2>17. CASE ReplayEnqueue(j)  BY <2>17 DEF ReplayEnqueue
  <2>18. CASE ReplayQueueFailed(j)  BY <2>18 DEF ReplayQueueFailed
  <2> QED BY <1>1, <2>1, <2>2, <2>3, <2>4, <2>5, <2>6, <2>7, <2>8, <2>9, <2>10,
            <2>11, <2>12, <2>13, <2>14, <2>15, <2>16, <2>17, <2>18 DEF SubmitNext
<1>2. ASSUME NEW j \in Jobs, CancelNext(j) PROVE CompletedStays
  <2>1. CASE CancelRead(j)  BY <2>1 DEF CancelRead
  <2>2. CASE CancelProvider(j)  BY <2>2 DEF CancelProvider
  <2>3. CASE CancelEnqueue(j)  BY <2>3 DEF CancelEnqueue
  <2>4. CASE CancelTransition(j)  BY <2>4 DEF CancelTransition
  <2>5. CASE CancelRelease(j)  BY <2>5 DEF CancelRelease
  <2>6. CASE CancelRetry(j)  BY <2>6 DEF CancelRetry
  <2>7. CASE CancelCrash(j)  BY <2>7 DEF CancelCrash
  <2> QED BY <1>2, <2>1, <2>2, <2>3, <2>4, <2>5, <2>6, <2>7 DEF CancelNext
<1>3. ASSUME NEW j \in Jobs, RecoveryNext(j) PROVE CompletedStays
  <2>1. CASE RecoveryFailStale(j)  BY <2>1 DEF RecoveryFailStale
  <2>2. CASE RecoveryRelease(j)  BY <2>2 DEF RecoveryRelease
  <2>3. CASE RecoveryRetry(j)  BY <2>3 DEF RecoveryRetry
  <2>4. CASE RecoveryCrash(j)  BY <2>4 DEF RecoveryCrash
  <2> QED BY <1>3, <2>1, <2>2, <2>3, <2>4 DEF RecoveryNext
<1>4. ASSUME NEW j \in Jobs, EnvironmentNext(j) PROVE CompletedStays
  <2>1. CASE DelayPasses(j)  BY <2>1 DEF DelayPasses
  <2>2. CASE ActiveIsStale(j)  BY <2>2 DEF ActiveIsStale
  <2>3. CASE LockExpires(j)  BY <2>3 DEF LockExpires
  <2>4. CASE ProviderEnds(j)  BY <2>4 DEF ProviderEnds
  <2>5. CASE DeleteOutputs(j)  BY <2>5 DEF DeleteOutputs
  <2>6. CASE DeleteRecord(j)  BY <2>6 DEF DeleteRecord
  <2> QED BY <1>4, <2>1, <2>2, <2>3, <2>4, <2>5, <2>6 DEF EnvironmentNext
<1>5. ASSUME NEW w \in Workers, WorkerNext(w) PROVE CompletedStays
  <2>1. CASE \E j \in Jobs : WorkerReserve(w, j)  BY <2>1 DEF WorkerReserve
  <2>2. CASE WorkerLock(w)  BY <2>2 DEF WorkerLock
  <2>3. CASE WorkerConflict(w)  BY <2>3 DEF WorkerConflict
  <2>4. CASE WorkerRead(w)  BY <2>4 DEF WorkerRead
  <2>5. CASE WorkerProcess(w)  BY <2>5 DEF WorkerProcess
  <2>6. CASE WorkerPoll(w)  BY <2>6 DEF WorkerPoll
  <2>7. CASE WorkerToRunning(w)  BY <2>7 DEF WorkerToRunning
  <2>8. CASE WorkerToIndexing(w)  BY <2>8 DEF WorkerToIndexing
  <2>9. CASE WorkerIndex(w)  BY <2>9 DEF WorkerIndex
  <2>10. CASE WorkerToSettling(w)  BY <2>10 DEF WorkerToSettling
  <2>11. CASE WorkerToFailed(w)  BY <2>11 DEF WorkerToFailed
  <2>12. CASE WorkerToCancelled(w)  BY <2>12 DEF WorkerToCancelled
  <2>13. CASE WorkerRelease(w)  BY <2>13 DEF WorkerRelease
  <2>14. CASE WorkerSettle(w)  BY <2>14 DEF WorkerSettle
  <2>15. CASE WorkerCapture(w)  BY <2>15 DEF WorkerCapture
  <2>16. CASE WorkerRecord(w)  BY <2>16 DEF WorkerRecord
  <2>17. CASE WorkerReleaseExhausted(w)  BY <2>17 DEF WorkerReleaseExhausted
  <2>18. CASE WorkerRecordRelease(w)  BY <2>18 DEF WorkerRecordRelease
  <2>19. CASE WorkerFailExhausted(w)  BY <2>19 DEF WorkerFailExhausted
  <2>20. CASE WorkerRecheck(w)  BY <2>20 DEF WorkerRecheck
  <2>21. CASE WorkerMarkSettled(w)  BY <2>21 DEF WorkerMarkSettled
  <2>22. CASE WorkerAck(w)  BY <2>22 DEF WorkerAck
  <2>23. CASE WorkerRequeue(w)  BY <2>23 DEF WorkerRequeue
  <2>24. CASE WorkerUnlock(w)  BY <2>24 DEF WorkerUnlock
  <2>25. CASE WorkerCrash(w)  BY <2>25 DEF WorkerCrash
  <2> QED BY <1>5, <2>1, <2>2, <2>3, <2>4, <2>5, <2>6, <2>7, <2>8, <2>9, <2>10,
            <2>11, <2>12, <2>13, <2>14, <2>15, <2>16, <2>17, <2>18, <2>19, <2>20,
            <2>21, <2>22, <2>23, <2>24, <2>25 DEF WorkerNext
<1>6. CASE UNCHANGED vars  BY <1>6 DEF vars
<1> QED BY <1>1, <1>2, <1>3, <1>4, <1>5, <1>6 DEF Next

(* The jobs whose hold is still in the pool, the steps that move it and the  *)
(* bookkeeping that only grows.                                             *)
Unsettled == held \ (captured \cup returned)
PoolInv == IsFiniteSet(held) /\ PoolIsBacked
LedgerMove(j) ==
    \/ UNCHANGED ledgerVars \/ ReserveHold(j) \/ ReleaseHold(j)
    \/ /\ lapsed \cup unmarked = {} => j \in held
       /\ \E amount \in Nat : CaptureHold(j, amount)
HistKept == lapsed \subseteq lapsed' /\ unmarked \subseteq unmarked'

(* No step but the ledger's changes what is in the pool. *)
LEMMA PoolKept == ASSUME PoolInv, UNCHANGED ledgerVars, HistKept PROVE PoolInv'
  BY DEF PoolInv, PoolIsBacked, HistKept

(* A transaction of the ledger moves one hold: a capture and a release of   *)
(* the same job would take a second one out of the pool.                    *)
LEMMA PoolMove == ASSUME NEW j \in Jobs, IInv, IInv', PoolInv, LedgerMove(j), HistKept
                  PROVE PoolInv'
<1> USE DEF PoolInv, HistKept
<1>1. balance \in Nat /\ frozen \in Nat /\ held \subseteq Jobs /\ returned \subseteq released
  BY DEF IInv, TypeOK, LedgerTypeOK
<1>2. OneSettlement'
  BY DEF IInv, LockedInv, CapturedState, ReturnedState, SettleOfSettling, OwnerAt, OneSettlement
<1>3. IsFiniteSet(Unsettled) /\ Cardinality(Unsettled) \in Nat
  <2>1. Unsettled \in SUBSET held
    BY DEF Unsettled
  <2> QED BY <2>1, FS_Subset, FS_CardinalityType
<1>4. lapsed' \cup unmarked' = {} => frozen >= Elsewhere + Hold * Cardinality(Unsettled)
  BY DEF PoolIsBacked, Unsettled
<1>5. CASE UNCHANGED ledgerVars
  BY <1>5, PoolKept
<1>6. CASE ReserveHold(j)
  <2>1. IsFiniteSet(held')
    BY <1>6, FS_AddElement
  <2>2. Unsettled' \in SUBSET (Unsettled \cup {j})
    BY <1>6 DEF Unsettled
  <2>3. /\ IsFiniteSet(Unsettled \cup {j})
        /\ Cardinality(Unsettled \cup {j}) <= Cardinality(Unsettled) + 1
        /\ Cardinality(Unsettled \cup {j}) \in Nat
    <3>1. /\ IsFiniteSet(Unsettled \cup {j})
          /\ Cardinality(Unsettled \cup {j}) =
                 IF j \in Unsettled THEN Cardinality(Unsettled) ELSE Cardinality(Unsettled) + 1
      BY <1>3, FS_AddElement
    <3>2. CASE j \in Unsettled
      BY <1>3, <3>1, <3>2
    <3>3. CASE j \notin Unsettled
      BY <1>3, <3>1, <3>3
    <3> QED BY <3>2, <3>3
  <2>4. Cardinality(Unsettled') \in Nat /\ Cardinality(Unsettled') <= Cardinality(Unsettled) + 1
    BY <2>2, <2>3, <1>3, FS_Subset, FS_CardinalityType
  <2>5. Hold * Cardinality(Unsettled') <= Hold * Cardinality(Unsettled) + Hold
    BY <2>4, <1>3
  <2>6. frozen' = frozen + Hold
    BY <1>6
  <2>7. lapsed' \cup unmarked' = {} => frozen' >= Elsewhere + Hold * Cardinality(Unsettled')
    BY <1>1, <1>3, <1>4, <2>4, <2>5, <2>6
  <2> QED BY <2>1, <2>7 DEF PoolIsBacked, Unsettled
<1>7. ASSUME frozen' = frozen - Hold, held' = held, j \in held, j \notin captured \cup returned,
             Unsettled' = Unsettled \ {j}
      PROVE PoolInv'
  <2>1. j \in Unsettled
    BY <1>7 DEF Unsettled
  <2>2. Cardinality(Unsettled') = Cardinality(Unsettled) - 1
    BY <1>7, <1>3, <2>1, FS_RemoveElement
  <2>3. Hold * Cardinality(Unsettled') = Hold * Cardinality(Unsettled) - Hold
    BY <2>2, <1>3
  <2>4. lapsed' \cup unmarked' = {} => frozen' >= Elsewhere + Hold * Cardinality(Unsettled')
    BY <1>1, <1>3, <1>4, <1>7, <2>2, <2>3
  <2> QED BY <2>4, <1>7 DEF PoolIsBacked, Unsettled
<1>8. CASE lapsed' \cup unmarked' # {} /\ held' = held
  BY <1>8 DEF PoolIsBacked
<1>9. CASE lapsed' \cup unmarked' = {} /\ ReleaseHold(j)
  <2>1. CASE returned' = returned
    <3>1. UNCHANGED <<frozen, held, captured, returned>>
      BY <1>1, <1>9, <2>1
    <3> QED BY <3>1 DEF PoolIsBacked
  <2>2. CASE returned' # returned
    <3>1. /\ frozen' = frozen - Hold /\ held' = held /\ j \in held
          /\ captured' = captured /\ returned' = returned \cup {j}
      BY <1>9, <2>2
    <3>2. j \notin captured \cup returned
      BY <3>1, <1>2, <1>9, <2>2 DEF OneSettlement
    <3> QED BY <3>1, <3>2, <1>7 DEF Unsettled
  <2> QED BY <2>1, <2>2
<1>10. CASE /\ lapsed' \cup unmarked' = {}
            /\ \E amount \in Nat : j \in held /\ CaptureHold(j, amount)
  <2>1. CASE UNCHANGED ledgerVars
    BY <2>1, PoolKept
  <2>2. CASE ~ UNCHANGED ledgerVars
    <3>1. /\ frozen' = frozen - Hold /\ held' = held /\ j \in held /\ j \notin captured
          /\ captured' = captured \cup {j} /\ returned' = returned
      BY <1>10, <2>2
    <3>2. j \notin returned
      BY <3>1, <1>2, <1>10 DEF OneSettlement
    <3> QED BY <3>1, <3>2, <1>7 DEF Unsettled
  <2> QED BY <2>1, <2>2
<1> QED BY <1>5, <1>6, <1>8, <1>9, <1>10 DEF LedgerMove

(* Every step is one of the ledger's transactions or leaves the pool alone. *)
LEMMA PoolStep == ASSUME IInv, IInv', PoolInv, [Next]_vars PROVE PoolInv'
<1>1. ASSUME NEW j \in Jobs, SubmitNext(j) PROVE PoolInv'
  <2>1. CASE SubmitCreate(j)  BY <2>1, PoolKept DEF HistKept, SubmitCreate
  <2>2. CASE SubmitReserve(j)
    <3>1. j \in Jobs /\ LedgerMove(j) /\ HistKept
      BY <2>2 DEF SubmitReserve, LedgerMove, HistKept, IInv, TypeOK, LedgerTypeOK,
               WorkerTypeOK, ProvTypeOK
    <3> QED BY <3>1, PoolMove
  <2>3. CASE SubmitItems(j)  BY <2>3, PoolKept DEF HistKept, SubmitItems
  <2>4. CASE SubmitUpload(j)  BY <2>4, PoolKept DEF HistKept, SubmitUpload
  <2>5. CASE SubmitProvider(j)  BY <2>5, PoolKept DEF HistKept, SubmitProvider
  <2>6. CASE SubmitRecord(j)  BY <2>6, PoolKept DEF HistKept, SubmitRecord
  <2>7. CASE SubmitAbort(j)  BY <2>7, PoolKept DEF HistKept, SubmitAbort
  <2>8. CASE SubmitEnqueue(j)  BY <2>8, PoolKept DEF HistKept, SubmitEnqueue
  <2>9. CASE SubmitQueueFailed(j)  BY <2>9, PoolKept DEF HistKept, SubmitQueueFailed
  <2>10. CASE SubmitRelease(j)
    <3>1. j \in Jobs /\ LedgerMove(j) /\ HistKept
      BY <2>10 DEF SubmitRelease, LedgerMove, HistKept, IInv, TypeOK, LedgerTypeOK,
               WorkerTypeOK, ProvTypeOK
    <3> QED BY <3>1, PoolMove
  <2>11. CASE SubmitReleaseFailed(j)  BY <2>11, PoolKept DEF HistKept, SubmitReleaseFailed
  <2>12. CASE SubmitRetry(j)  BY <2>12, PoolKept DEF HistKept, SubmitRetry
  <2>13. CASE SubmitMarkFailed(j)  BY <2>13, PoolKept DEF HistKept, SubmitMarkFailed
  <2>14. CASE SubmitHide(j)  BY <2>14, PoolKept DEF HistKept, SubmitHide
  <2>15. CASE SubmitCrash(j)  BY <2>15, PoolKept DEF HistKept, SubmitCrash
  <2>16. CASE ReplayRead(j)  BY <2>16, PoolKept DEF HistKept, ReplayRead
  <2>17. CASE ReplayEnqueue(j)  BY <2>17, PoolKept DEF HistKept, ReplayEnqueue
  <2>18. CASE ReplayQueueFailed(j)  BY <2>18, PoolKept DEF HistKept, ReplayQueueFailed
  <2> QED BY <1>1, <2>1, <2>2, <2>3, <2>4, <2>5, <2>6, <2>7, <2>8, <2>9, <2>10,
            <2>11, <2>12, <2>13, <2>14, <2>15, <2>16, <2>17, <2>18 DEF SubmitNext
<1>2. ASSUME NEW j \in Jobs, CancelNext(j) PROVE PoolInv'
  <2>1. CASE CancelRead(j)  BY <2>1, PoolKept DEF HistKept, CancelRead
  <2>2. CASE CancelProvider(j)  BY <2>2, PoolKept DEF HistKept, CancelProvider
  <2>3. CASE CancelEnqueue(j)  BY <2>3, PoolKept DEF HistKept, CancelEnqueue
  <2>4. CASE CancelTransition(j)  BY <2>4, PoolKept DEF HistKept, CancelTransition
  <2>5. CASE CancelRelease(j)
    <3>1. j \in Jobs /\ LedgerMove(j) /\ HistKept
      BY <2>5 DEF CancelRelease, LedgerMove, HistKept, IInv, TypeOK, LedgerTypeOK,
               WorkerTypeOK, ProvTypeOK
    <3> QED BY <3>1, PoolMove
  <2>6. CASE CancelRetry(j)  BY <2>6, PoolKept DEF HistKept, CancelRetry
  <2>7. CASE CancelCrash(j)  BY <2>7, PoolKept DEF HistKept, CancelCrash
  <2> QED BY <1>2, <2>1, <2>2, <2>3, <2>4, <2>5, <2>6, <2>7 DEF CancelNext
<1>3. ASSUME NEW j \in Jobs, RecoveryNext(j) PROVE PoolInv'
  <2>1. CASE RecoveryFailStale(j)  BY <2>1, PoolKept DEF HistKept, RecoveryFailStale
  <2>2. CASE RecoveryRelease(j)
    <3>1. j \in Jobs /\ LedgerMove(j) /\ HistKept
      BY <2>2 DEF RecoveryRelease, LedgerMove, HistKept, IInv, TypeOK, LedgerTypeOK,
               WorkerTypeOK, ProvTypeOK
    <3> QED BY <3>1, PoolMove
  <2>3. CASE RecoveryRetry(j)  BY <2>3, PoolKept DEF HistKept, RecoveryRetry
  <2>4. CASE RecoveryCrash(j)  BY <2>4, PoolKept DEF HistKept, RecoveryCrash
  <2> QED BY <1>3, <2>1, <2>2, <2>3, <2>4 DEF RecoveryNext
<1>4. ASSUME NEW j \in Jobs, EnvironmentNext(j) PROVE PoolInv'
  <2>1. CASE DelayPasses(j)  BY <2>1, PoolKept DEF HistKept, DelayPasses
  <2>2. CASE ActiveIsStale(j)  BY <2>2, PoolKept DEF HistKept, ActiveIsStale
  <2>3. CASE LockExpires(j)  BY <2>3, PoolKept DEF HistKept, LockExpires
  <2>4. CASE ProviderEnds(j)  BY <2>4, PoolKept DEF HistKept, ProviderEnds
  <2>5. CASE DeleteOutputs(j)  BY <2>5, PoolKept DEF HistKept, DeleteOutputs
  <2>6. CASE DeleteRecord(j)  BY <2>6, PoolKept DEF HistKept, DeleteRecord
  <2> QED BY <1>4, <2>1, <2>2, <2>3, <2>4, <2>5, <2>6 DEF EnvironmentNext
<1>5. ASSUME NEW w \in Workers, WorkerNext(w) PROVE PoolInv'
  <2>1. CASE \E j \in Jobs : WorkerReserve(w, j)  BY <2>1, PoolKept DEF HistKept, WorkerReserve
  <2>2. CASE WorkerLock(w)  BY <2>2, PoolKept DEF HistKept, WorkerLock
  <2>3. CASE WorkerConflict(w)  BY <2>3, PoolKept DEF HistKept, WorkerConflict
  <2>4. CASE WorkerRead(w)  BY <2>4, PoolKept DEF HistKept, WorkerRead
  <2>5. CASE WorkerProcess(w)  BY <2>5, PoolKept DEF HistKept, WorkerProcess
  <2>6. CASE WorkerPoll(w)  BY <2>6, PoolKept DEF HistKept, WorkerPoll
  <2>7. CASE WorkerToRunning(w)  BY <2>7, PoolKept DEF HistKept, WorkerToRunning
  <2>8. CASE WorkerToIndexing(w)  BY <2>8, PoolKept DEF HistKept, WorkerToIndexing
  <2>9. CASE WorkerIndex(w)  BY <2>9, PoolKept DEF HistKept, WorkerIndex
  <2>10. CASE WorkerToSettling(w)  BY <2>10, PoolKept DEF HistKept, WorkerToSettling
  <2>11. CASE WorkerToFailed(w)  BY <2>11, PoolKept DEF HistKept, WorkerToFailed
  <2>12. CASE WorkerToCancelled(w)  BY <2>12, PoolKept DEF HistKept, WorkerToCancelled
  <2>13. CASE WorkerRelease(w)
    <3>1. job[w] \in Jobs /\ LedgerMove(job[w]) /\ HistKept
      BY <2>13 DEF WorkerRelease, LedgerMove, HistKept, IInv, TypeOK, LedgerTypeOK,
               WorkerTypeOK, ProvTypeOK
    <3> QED BY <3>1, PoolMove
  <2>14. CASE WorkerSettle(w)  BY <2>14, PoolKept DEF HistKept, WorkerSettle
  <2>15. CASE WorkerCapture(w)
    <3>1. job[w] \in Jobs /\ LedgerMove(job[w]) /\ HistKept
      BY <2>15 DEF WorkerCapture, LedgerMove, HistKept, IInv, TypeOK, LedgerTypeOK,
               WorkerTypeOK, ProvTypeOK, SettleOfSettling, HeldSubmit, AnywayInv, LockedInv
    <3> QED BY <3>1, PoolMove
  <2>16. CASE WorkerRecord(w)  BY <2>16, PoolKept DEF HistKept, WorkerRecord
  <2>17. CASE WorkerReleaseExhausted(w)
    <3>1. job[w] \in Jobs /\ LedgerMove(job[w]) /\ HistKept
      BY <2>17 DEF WorkerReleaseExhausted, LedgerMove, HistKept, IInv, TypeOK, LedgerTypeOK,
               WorkerTypeOK, ProvTypeOK
    <3> QED BY <3>1, PoolMove
  <2>18. CASE WorkerRecordRelease(w)  BY <2>18, PoolKept DEF HistKept, WorkerRecordRelease
  <2>19. CASE WorkerFailExhausted(w)  BY <2>19, PoolKept DEF HistKept, WorkerFailExhausted
  <2>20. CASE WorkerRecheck(w)  BY <2>20, PoolKept DEF HistKept, WorkerRecheck
  <2>21. CASE WorkerMarkSettled(w)  BY <2>21, PoolKept DEF HistKept, WorkerMarkSettled
  <2>22. CASE WorkerAck(w)  BY <2>22, PoolKept DEF HistKept, WorkerAck
  <2>23. CASE WorkerRequeue(w)  BY <2>23, PoolKept DEF HistKept, WorkerRequeue
  <2>24. CASE WorkerUnlock(w)  BY <2>24, PoolKept DEF HistKept, WorkerUnlock
  <2>25. CASE WorkerCrash(w)  BY <2>25, PoolKept DEF HistKept, WorkerCrash
  <2> QED BY <1>5, <2>1, <2>2, <2>3, <2>4, <2>5, <2>6, <2>7, <2>8, <2>9, <2>10,
            <2>11, <2>12, <2>13, <2>14, <2>15, <2>16, <2>17, <2>18, <2>19, <2>20,
            <2>21, <2>22, <2>23, <2>24, <2>25 DEF WorkerNext
<1>6. CASE UNCHANGED vars  BY <1>6, PoolKept DEF vars, HistKept
<1> QED BY <1>1, <1>2, <1>3, <1>4, <1>5, <1>6 DEF Next

LEMMA InitInv == Init => IInv
<1> SUFFICES ASSUME Init PROVE IInv
  OBVIOUS
<1> USE DEF Init, LedgerInit, QueueInit
<1>1. TypeOK
  BY DEF TypeOK, LedgerTypeOK, QueueTypeOK, RowTypeOK, HandlerTypeOK, WorkerTypeOK,
         ProvTypeOK, HistTypeOK, SubmitSteps, CancelSteps, WorkerSteps
<1>2. AnywayInv
  BY DEF AnywayInv, EarlySubmit, HeldSubmit, ReleaseOfDead, PaidIsCaptured, MarkOfFree
<1>3. LockedInv /\ QueueInv /\ DeadInv
  BY DEF LockedInv, LockHeld, SettleOfSettling, CapturedState, ReturnedState, QueueInv,
         QueuedOnce, InflightQueued, HandActive, DeadInv, AckOfSettled, NoStrandedHold
<1> QED BY <1>1, <1>2, <1>3 DEF IInv

LEMMA NextInv == IInv /\ [Next]_vars => IInv'
  BY TypesStep, AnywayStep, LockedStep, QueueStep, DeadStep DEF IInv

LEMMA SpecInv == Spec => []IInv
  BY InitInv, NextInv, PTL DEF Spec

-----------------------------------------------------------------------------
(* TypeOK for any instance: no reservation, capture or release makes a      *)
(* balance negative.                                                        *)
THEOREM BatchImageTypeCorrect == Spec => []TypeOK
<1>1. IInv => TypeOK
  BY DEF IInv
<1> QED BY SpecInv, <1>1, PTL

(* CompletedIsPaid for any instance, whoever loses whichever lock.          *)
THEOREM CompletedIsPaidThm == Spec => []CompletedIsPaid
<1>1. IInv => CompletedIsPaid
  BY DEF IInv, AnywayInv, HeldSubmit, PaidIsCaptured, CompletedIsPaid
<1> QED BY SpecInv, <1>1, PTL

(* OneSettlement for any instance: a captured job whose release moved money *)
(* would have its lock's owner at two steps.                                *)
THEOREM OneSettlementThm == Spec => []OneSettlement
<1>1. IInv => OneSettlement
  BY DEF IInv, LockedInv, CapturedState, ReturnedState, SettleOfSettling, OwnerAt,
         OneSettlement
<1> QED BY SpecInv, <1>1, PTL

(* NoStrandedHold for any instance.                                         *)
THEOREM NoStrandedHoldThm == Spec => []NoStrandedHold
<1>1. IInv => NoStrandedHold
  BY DEF IInv, DeadInv
<1> QED BY SpecInv, <1>1, PTL

(* CompletedIsFinal for any instance: the unconditional `failed' is written *)
(* only for jobs that were never passed on.                                 *)
THEOREM CompletedIsFinalThm == Spec => CompletedIsFinal
<1>1. IInv /\ [Next]_vars => [CompletedStays]_vars
  BY CompletedStep
<1> QED BY SpecInv, <1>1, PTL DEF Spec, CompletedIsFinal, CompletedStays

(* PoolIsBacked for any instance: the frozen balance covers every hold that  *)
(* is not settled, and what the user's other batches have frozen.           *)
THEOREM PoolIsBackedThm == Spec => []PoolIsBacked
<1>1. Init => PoolInv
  <2> SUFFICES ASSUME Init PROVE PoolInv
    OBVIOUS
  <2>1. held = {} /\ frozen = Elsewhere /\ held \ (captured \cup returned) = {}
    BY DEF Init, LedgerInit
  <2>2. Hold * 0 = 0
    OBVIOUS
  <2> QED BY <2>1, <2>2, FS_EmptySet DEF PoolInv, PoolIsBacked
<1>2. PoolInv => PoolIsBacked
  BY DEF PoolInv
<1> QED BY <1>1, <1>2, SpecInv, PoolStep, PTL DEF Spec
=============================================================================
