---------------------------- MODULE BatchImageJobs ----------------------------
(***************************************************************************)
(* Batch image jobs from submission to settlement.  Per job there are one  *)
(* Submit handler, one Cancel handler at a time, the client's replay of    *)
(* Submit and the stale-submission recovery; workers take jobs from the    *)
(* queue, follow the provider's batch and settle it.  Every handler is cut *)
(* at its database, Redis and provider calls, and every call may fail      *)
(* without effect.  A provider.Submit that fails has created nothing.      *)
(***************************************************************************)
EXTENDS BatchImageLedger, BatchImageQueue, FiniteSets

CONSTANTS
    MaxRetries, \* batchImageSettlementMaxRetries
    MaxFaults,  \* bound: failed calls, crashes
    MaxLapses   \* bound: locks, heartbeats and touches that lapse under a live owner

ASSUME BoundsAssumption ==
    MaxRetries \in Nat \ {0} /\ MaxFaults \in Nat /\ MaxLapses \in Nat

VARIABLES
    status,
    named,      \* jobs whose row has a provider_job_name
    hidden,     \* jobs whose row has a user_deleted_at
    retries,    \* retry_count: no code tells values over MaxRetries apart
    settleCode, \* jobs whose last_error_code begins with SETTLEMENT_
    upstream,   \* the provider's batch
    cost,       \* what its successful images cost
    submit, replay, cancel, recovery, \* per job: the next call of each handler
    step, job,  \* per worker: its next call, its job
    faults, lapses,
    lapsed,     \* history: jobs a lapse befell
    broken,     \* history: jobs a crash or a failed Enqueue befell
    unmarked    \* history: jobs whose status was not written after their money moved

rowVars     == <<status, named, hidden, retries, settleCode>>
handlerVars == <<submit, cancel, recovery, replay>>
workerVars  == <<step, job>>
provVars    == <<upstream, cost>>
histVars    == <<lapses, lapsed, broken, unmarked>>
vars == <<ledgerVars, queueVars, rowVars, handlerVars, workerVars, provVars,
          faults, histVars>>

SubmitSteps == {"idle", "reserve", "items", "upload", "provider", "record", "abort",
                "enqueue", "queueFailed", "release", "releaseQuit", "releaseFailed",
                "retry", "markFailed", "hide", "done"}
CancelSteps == {"idle", "provider", "enqueue", "transition", "release", "retry"}
WorkerSteps == {"idle", "lock", "conflict", "read", "process", "poll", "toRunning", "toIndexing",
                "index", "toSettling", "toFailed", "toCancelled", "release", "settle",
                "capture", "record", "releaseExhausted", "recordRelease", "failExhausted",
                "markSettled", "recheck", "ack", "requeue", "unlock"}

RowTypeOK ==
    /\ status \in [Jobs -> Statuses] /\ retries \in [Jobs -> 0..MaxRetries]
    /\ named \subseteq Jobs /\ hidden \subseteq Jobs /\ settleCode \subseteq Jobs
HandlerTypeOK ==
    /\ submit \in [Jobs -> SubmitSteps] /\ cancel \in [Jobs -> CancelSteps]
    /\ recovery \in [Jobs -> {"idle", "release", "retry"}]
    /\ replay \in [Jobs -> {"idle", "enqueue", "queueFailed"}]
WorkerTypeOK ==
    /\ step \in [Workers -> WorkerSteps] /\ job \in [Workers -> Jobs \cup {None}]
    /\ \A w \in Workers : job[w] = None <=> step[w] = "idle"
ProvTypeOK ==
    /\ upstream \in [Jobs -> {"none", "live", "succeeded", "failed", "cancelled"}]
    /\ cost \in [Jobs -> Nat]
HistTypeOK ==
    /\ faults \in 0..MaxFaults /\ lapses \in 0..MaxLapses
    /\ lapsed \subseteq Jobs /\ broken \subseteq Jobs /\ unmarked \subseteq Jobs
TypeOK ==
    /\ LedgerTypeOK /\ QueueTypeOK /\ RowTypeOK /\ HandlerTypeOK
    /\ WorkerTypeOK /\ ProvTypeOK /\ HistTypeOK

Init ==
    /\ LedgerInit /\ QueueInit
    /\ status = [j \in Jobs |-> "none"] /\ retries = [j \in Jobs |-> 0]
    /\ named = {} /\ hidden = {} /\ settleCode = {}
    /\ submit = [j \in Jobs |-> "idle"] /\ cancel = [j \in Jobs |-> "idle"]
    /\ recovery = [j \in Jobs |-> "idle"] /\ replay = [j \in Jobs |-> "idle"]
    /\ step = [w \in Workers |-> "idle"] /\ job = [w \in Workers |-> None]
    /\ upstream = [j \in Jobs |-> "none"] /\ cost = [j \in Jobs |-> 0]
    /\ faults = 0 /\ lapses = 0 /\ lapsed = {} /\ broken = {} /\ unmarked = {}

-----------------------------------------------------------------------------
Fault == faults < MaxFaults /\ faults' = faults + 1
Calm == UNCHANGED faults

(* Moves of one process, and what it leaves to the others. *)
Submitting(j, to) ==
    submit' = [submit EXCEPT ![j] = to] /\ UNCHANGED <<replay, cancel, recovery, workerVars>>
Replaying(j, to) ==
    replay' = [replay EXCEPT ![j] = to] /\ UNCHANGED <<submit, cancel, recovery, workerVars>>
Cancelling(j, to) ==
    cancel' = [cancel EXCEPT ![j] = to] /\ UNCHANGED <<submit, replay, recovery, workerVars>>
Recovering(j, to) ==
    recovery' = [recovery EXCEPT ![j] = to] /\ UNCHANGED <<submit, replay, cancel, workerVars>>
Working(w, to) == step' = [step EXCEPT ![w] = to] /\ UNCHANGED <<job, handlerVars>>
Resting(w) ==
    /\ step' = [step EXCEPT ![w] = "idle"] /\ job' = [job EXCEPT ![w] = None]
    /\ UNCHANGED handlerVars

(* TransitionBatchImageJobStatus, applied and refused. *)
Transition(j, to) ==
    /\ CanTransition(status[j], to) /\ status' = [status EXCEPT ![j] = to]
    /\ settleCode' = IF to = "failed" THEN settleCode \ {j} ELSE settleCode
    /\ UNCHANGED <<named, hidden, retries>>
TransitionRefused(j, to) == ~CanTransition(status[j], to) /\ UNCHANGED rowVars

(* RecordBatchImageJobSubmitFailure with markFailed: whatever the status is. *)
RecordSubmitFailed(j) ==
    /\ status' = [status EXCEPT ![j] = "failed"]
    /\ settleCode' = settleCode \ {j} /\ UNCHANGED <<named, hidden, retries>>

(* SetBatchImageJobSettlementFailed. *)
CountFailure(j) ==
    /\ retries' = [retries EXCEPT ![j] = IF @ < MaxRetries THEN @ + 1 ELSE @]
    /\ settleCode' = settleCode \cup {j} /\ UNCHANGED <<status, named, hidden>>

(* A lock, heartbeat or touch that lapses while its owner still works on j. *)
Lapse(j) ==
    /\ lapses < MaxLapses /\ lapses' = lapses + 1
    /\ lapsed' = lapsed \cup {j} /\ UNCHANGED <<broken, unmarked>>
Break(j) == broken' = broken \cup {j} /\ UNCHANGED <<lapses, lapsed, unmarked>>
Unmark(j) == unmarked' = unmarked \cup {j} /\ UNCHANGED <<lapses, lapsed, broken>>

(* An Enqueue that fails leaves the job to whoever asks for it next. *)
EnqueueOrLose(j) ==
    \/ Enqueue(j) /\ Calm /\ UNCHANGED histVars
    \/ Fault /\ Break(j) /\ UNCHANGED queueVars

-----------------------------------------------------------------------------
(* Submit: the row, the hold, the items, the upload, the provider's batch. *)
SubmitCreate(j) ==
    /\ submit[j] = "idle"
    /\ Submitting(j, "reserve") /\ status' = [status EXCEPT ![j] = "created"]
    /\ UNCHANGED <<ledgerVars, queueVars, named, hidden, retries, settleCode, provVars,
                   faults, histVars>>

SubmitReserve(j) ==
    /\ submit[j] = "reserve"
    /\ \/ ReserveHold(j) /\ Calm /\ Submitting(j, "items")
       \/ ReserveRefused(j) /\ Calm /\ Submitting(j, "markFailed")
       \/ UNCHANGED ledgerVars /\ Fault /\ Submitting(j, "markFailed")
    /\ UNCHANGED <<queueVars, rowVars, provVars, histVars>>

SubmitItems(j) ==
    /\ submit[j] = "items"
    /\ \/ Calm /\ Submitting(j, "upload")
       \/ Fault /\ Submitting(j, "release")
    /\ UNCHANGED <<ledgerVars, queueVars, rowVars, provVars, histVars>>

SubmitUpload(j) ==
    /\ submit[j] = "upload"
    /\ \/ Transition(j, "uploading") /\ Calm /\ Submitting(j, "provider")
       \/ TransitionRefused(j, "uploading") /\ Calm /\ Submitting(j, "releaseQuit")
       \/ UNCHANGED rowVars /\ Fault /\ Submitting(j, "release")
    /\ UNCHANGED <<ledgerVars, queueVars, provVars, histVars>>

SubmitProvider(j) ==
    /\ submit[j] = "provider"
    /\ \/ /\ upstream' = [upstream EXCEPT ![j] = "live"]
          /\ Submitting(j, "record")
       \/ UNCHANGED upstream /\ Submitting(j, "release")
    /\ UNCHANGED <<ledgerVars, queueVars, rowVars, cost, faults, histVars>>

(* UpdateBatchImageJobProviderSubmit. *)
SubmitRecord(j) ==
    /\ submit[j] = "record"
    /\ \/ /\ CanTransition(status[j], "submitted")
          /\ status' = [status EXCEPT ![j] = "submitted"] /\ named' = named \cup {j}
          /\ UNCHANGED <<hidden, retries, settleCode>>
          /\ Calm /\ Submitting(j, "enqueue")
       \/ TransitionRefused(j, "submitted") /\ Calm /\ Submitting(j, "abort")
       \/ UNCHANGED rowVars /\ Fault /\ Submitting(j, "abort")
    /\ UNCHANGED <<ledgerVars, queueVars, provVars, histVars>>

(* Provider.Cancel: a batch that has ended is left as it is. *)
CancelUpstream(j) ==
    upstream' = IF upstream[j] = "live" THEN [upstream EXCEPT ![j] = "cancelled"]
                ELSE upstream

SubmitAbort(j) ==
    /\ submit[j] = "abort"
    /\ Submitting(j, "done")
    /\ (CancelUpstream(j) /\ Calm) \/ (UNCHANGED upstream /\ Fault)
    /\ UNCHANGED <<ledgerVars, queueVars, rowVars, cost, histVars>>

SubmitEnqueue(j) ==
    /\ submit[j] = "enqueue"
    /\ \/ Enqueue(j) /\ Calm /\ Submitting(j, "done") /\ UNCHANGED histVars
       \/ /\ UNCHANGED queueVars /\ Fault /\ Break(j)
          /\ Submitting(j, "queueFailed")
    /\ UNCHANGED <<ledgerVars, rowVars, provVars>>

(* Mutant: the failed Enqueue marks the job failed. *)
RecordQueueFailedMarks(j) ==
    /\ (RecordSubmitFailed(j) /\ Calm) \/ (UNCHANGED rowVars /\ Fault)
    /\ UNCHANGED <<ledgerVars, queueVars, provVars, histVars>>

(* RecordBatchImageJobSubmitFailure without markFailed. *)
RecordQueueFailed(j) ==
    /\ \/ settleCode' = settleCode \ {j} /\ Calm
       \/ UNCHANGED settleCode /\ Fault
    /\ UNCHANGED <<ledgerVars, queueVars, status, named, hidden, retries, provVars, histVars>>

SubmitQueueFailed(j) == submit[j] = "queueFailed" /\ Submitting(j, "done") /\ RecordQueueFailed(j)

(* releaseFailedSubmitHold, after a failure and after a refused transition. *)
SubmitRelease(j) ==
    /\ submit[j] \in {"release", "releaseQuit"}
    /\ \/ /\ ReleaseHold(j) /\ Calm
          /\ Submitting(j, IF submit[j] = "release" THEN "markFailed" ELSE "done")
       \/ ReleaseRefused(j) /\ Calm /\ Submitting(j, "releaseFailed")
       \/ UNCHANGED ledgerVars /\ Fault /\ Submitting(j, "releaseFailed")
    /\ UNCHANGED <<queueVars, rowVars, provVars, histVars>>

SubmitReleaseFailed(j) ==
    /\ submit[j] = "releaseFailed"
    /\ Submitting(j, "retry")
    /\ (RecordSubmitFailed(j) /\ Calm) \/ (UNCHANGED rowVars /\ Fault)
    /\ UNCHANGED <<ledgerVars, queueVars, provVars, histVars>>

SubmitRetry(j) ==
    /\ submit[j] = "retry"
    /\ Submitting(j, "done") /\ EnqueueOrLose(j)
    /\ UNCHANGED <<ledgerVars, rowVars, provVars>>

SubmitMarkFailed(j) ==
    /\ submit[j] = "markFailed"
    /\ Submitting(j, "hide")
    /\ (RecordSubmitFailed(j) /\ Calm) \/ (UNCHANGED rowVars /\ Fault)
    /\ UNCHANGED <<ledgerVars, queueVars, provVars, histVars>>

(* MarkBatchImageJobUserDeleted. *)
HideRecord(j) ==
    /\ hidden' = IF status[j] \in Terminal THEN hidden \cup {j} ELSE hidden
    /\ UNCHANGED <<status, named, retries, settleCode>>

SubmitHide(j) ==
    /\ submit[j] = "hide"
    /\ Submitting(j, "done")
    /\ (HideRecord(j) /\ Calm) \/ (UNCHANGED rowVars /\ Fault)
    /\ UNCHANGED <<ledgerVars, queueVars, provVars, histVars>>

SubmitCrash(j) ==
    /\ submit[j] \notin {"idle", "done"} /\ Submitting(j, "done")
    /\ Fault /\ Break(j)
    /\ UNCHANGED <<ledgerVars, queueVars, rowVars, provVars>>

(* Submit again with the idempotency key of a submitted job. *)
ReplayRead(j) ==
    /\ replay[j] = "idle"
    /\ status[j] = "submitted" /\ Replaying(j, "enqueue")
    /\ UNCHANGED <<ledgerVars, queueVars, rowVars, provVars, faults, histVars>>
ReplayEnqueue(j) ==
    /\ replay[j] = "enqueue"
    /\ \/ Enqueue(j) /\ Calm /\ Replaying(j, "idle")
       \/ UNCHANGED queueVars /\ Fault /\ Replaying(j, "queueFailed")
    /\ UNCHANGED <<ledgerVars, rowVars, provVars, histVars>>
ReplayQueueFailed(j) == replay[j] = "queueFailed" /\ Replaying(j, "idle") /\ RecordQueueFailed(j)

-----------------------------------------------------------------------------
(* Mutant: a settling job is one whose hold is to be released. *)
CancelReadSettling(j) ==
    /\ cancel[j] = "idle" /\ status[j] # "none" /\ j \notin hidden
    /\ \/ status[j] \in {"failed", "cancelled", "settling"} /\ Cancelling(j, "release")
       \/ /\ status[j] \notin Terminal \cup {"settling"}
          /\ \/ j \in named /\ Cancelling(j, "provider")
             \/ j \notin named /\ Cancelling(j, "transition")
    /\ UNCHANGED <<ledgerVars, queueVars, rowVars, provVars, faults, histVars>>

(* Cancel: what it does next is decided by the row it reads first. *)
CancelRead(j) ==
    /\ cancel[j] = "idle"
    /\ status[j] # "none" /\ j \notin hidden
    /\ \/ status[j] \in {"failed", "cancelled"} /\ Cancelling(j, "release")
       \/ /\ status[j] \notin Terminal \cup {"settling"}
          /\ \/ j \in named /\ Cancelling(j, "provider")
             \/ j \notin named /\ Cancelling(j, "transition")
    /\ UNCHANGED <<ledgerVars, queueVars, rowVars, provVars, faults, histVars>>

(* An accepted cancellation may take effect later, or come too late. *)
CancelProvider(j) ==
    /\ cancel[j] = "provider"
    /\ \/ CancelUpstream(j) /\ Cancelling(j, "enqueue")
       \/ UNCHANGED upstream /\ Cancelling(j, "enqueue")
       \/ UNCHANGED upstream /\ Cancelling(j, "idle")
    /\ UNCHANGED <<ledgerVars, queueVars, rowVars, cost, faults, histVars>>

CancelEnqueue(j) ==
    /\ cancel[j] = "enqueue"
    /\ Cancelling(j, "idle")
    /\ (Enqueue(j) /\ Calm) \/ (UNCHANGED queueVars /\ Fault)
    /\ UNCHANGED <<ledgerVars, rowVars, provVars, histVars>>

CancelTransition(j) ==
    /\ cancel[j] = "transition"
    /\ \/ Transition(j, "cancelled") /\ Calm /\ Cancelling(j, "release")
       \/ TransitionRefused(j, "cancelled") /\ Calm /\ Cancelling(j, "idle")
       \/ UNCHANGED rowVars /\ Fault /\ Cancelling(j, "idle")
    /\ UNCHANGED <<ledgerVars, queueVars, provVars, histVars>>

(* Mutant: a release that failed is not retried. *)
CancelReleaseOnce(j) ==
    /\ cancel[j] = "release" /\ Cancelling(j, "idle")
    /\ \/ (ReleaseHold(j) \/ ReleaseRefused(j)) /\ Calm
       \/ UNCHANGED ledgerVars /\ Fault
    /\ UNCHANGED <<queueVars, rowVars, provVars, histVars>>

CancelRelease(j) ==
    /\ cancel[j] = "release"
    /\ \/ ReleaseHold(j) /\ Calm /\ Cancelling(j, "idle")
       \/ ReleaseRefused(j) /\ Calm /\ Cancelling(j, "retry")
       \/ UNCHANGED ledgerVars /\ Fault /\ Cancelling(j, "retry")
    /\ UNCHANGED <<queueVars, rowVars, provVars, histVars>>

CancelRetry(j) ==
    /\ cancel[j] = "retry"
    /\ Cancelling(j, "idle") /\ EnqueueOrLose(j)
    /\ UNCHANGED <<ledgerVars, rowVars, provVars>>

CancelCrash(j) ==
    /\ cancel[j] # "idle" /\ Cancelling(j, "idle")
    /\ Fault /\ Break(j)
    /\ UNCHANGED <<ledgerVars, queueVars, rowVars, provVars>>

(* ReleaseStaleUnsubmittedOnce.  A row is stale once nothing touches it:    *)
(* its handler has ended, or its touches lapse.                             *)
RecoveryFailStale(j) ==
    /\ recovery[j] = "idle"
    /\ status[j] \in {"created", "uploading"} /\ j \notin named
    /\ (submit[j] = "done" /\ UNCHANGED histVars) \/ (submit[j] # "done" /\ Lapse(j))
    /\ Recovering(j, "release") /\ RecordSubmitFailed(j)
    /\ UNCHANGED <<ledgerVars, queueVars, provVars, faults>>

RecoveryRelease(j) ==
    /\ recovery[j] = "release"
    /\ \/ ReleaseHold(j) /\ Calm /\ Recovering(j, "idle")
       \/ ReleaseRefused(j) /\ Calm /\ Recovering(j, "retry")
       \/ UNCHANGED ledgerVars /\ Fault /\ Recovering(j, "retry")
    /\ UNCHANGED <<queueVars, rowVars, provVars, histVars>>

RecoveryRetry(j) ==
    /\ recovery[j] = "retry"
    /\ Recovering(j, "idle") /\ EnqueueOrLose(j)
    /\ UNCHANGED <<ledgerVars, rowVars, provVars>>

RecoveryCrash(j) ==
    /\ recovery[j] # "idle" /\ Recovering(j, "idle")
    /\ Fault /\ Break(j)
    /\ UNCHANGED <<ledgerVars, queueVars, rowVars, provVars>>

-----------------------------------------------------------------------------
(* A worker: RunOnce, the pipeline's and the processor's Process, Settle.   *)
WorkerReserve(w, j) ==
    /\ step[w] = "idle" /\ Reserve(j)
    /\ step' = [step EXCEPT ![w] = "lock"] /\ job' = [job EXCEPT ![w] = j]
    /\ UNCHANGED <<ledgerVars, rowVars, handlerVars, provVars, faults, histVars>>

WorkerLock(w) ==
    /\ step[w] = "lock"
    /\ \/ TryAcquireJobLock(w, job[w]) /\ Calm /\ Working(w, "read")
       \/ /\ lock[job[w]] # None /\ UNCHANGED queueVars
          /\ Calm /\ Working(w, "conflict")
       \/ UNCHANGED queueVars /\ Fault /\ Working(w, "conflict")
    /\ UNCHANGED <<ledgerVars, rowVars, provVars, histVars>>

WorkerConflict(w) ==
    /\ step[w] = "conflict"
    /\ Resting(w)
    /\ (RequeueAfter(job[w]) /\ Calm) \/ (UNCHANGED queueVars /\ Fault)
    /\ UNCHANGED <<ledgerVars, rowVars, provVars, histVars>>

(* Steps that only read: where they lead, and a failure that requeues. *)
WorkerReads(w, to) ==
    /\ (Working(w, to) /\ Calm) \/ (Working(w, "requeue") /\ Fault)
    /\ UNCHANGED <<ledgerVars, queueVars, rowVars, provVars, histVars>>

WorkerRead(w) ==
    step[w] = "read" /\ WorkerReads(w,
        IF status[job[w]] = "settling" THEN "settle" ELSE "process")

WorkerProcess(w) ==
    step[w] = "process" /\ WorkerReads(w,
        LET s == status[job[w]] IN
        IF s \in {"failed", "cancelled"} THEN "release"
        ELSE IF s \in Terminal \cup {"settling"} THEN "ack"
        ELSE IF job[w] \notin named THEN "requeue"
        ELSE IF s = "indexing" THEN "index" ELSE "poll")

WorkerPoll(w) ==
    /\ step[w] = "poll"
    /\ \/ Working(w, "requeue")
       \/ upstream[job[w]] = "live" /\ Working(w, "toRunning")
       \/ upstream[job[w]] = "succeeded" /\ Working(w, "toIndexing")
       \/ upstream[job[w]] = "failed" /\ Working(w, "toFailed")
       \/ upstream[job[w]] = "cancelled" /\ Working(w, "toCancelled")
    /\ UNCHANGED <<ledgerVars, queueVars, rowVars, provVars, faults, histVars>>

WorkerTransition(w, target, to) ==
    /\ \/ Transition(job[w], target) /\ Calm /\ Working(w, to)
       \/ TransitionRefused(job[w], target) /\ Calm /\ Working(w, "requeue")
       \/ UNCHANGED rowVars /\ Fault /\ Working(w, "requeue")
    /\ UNCHANGED <<ledgerVars, queueVars, provVars, histVars>>

WorkerToRunning(w) ==
    step[w] = "toRunning" /\ WorkerTransition(w, "running", "requeue")
WorkerToIndexing(w) ==
    step[w] = "toIndexing" /\ WorkerTransition(w, "indexing", "index")
WorkerToSettling(w) ==
    step[w] = "toSettling" /\ WorkerTransition(w, "settling", "requeue")
WorkerToFailed(w) ==
    step[w] = "toFailed" /\ WorkerTransition(w, "failed", "release")
WorkerToCancelled(w) ==
    step[w] = "toCancelled" /\ WorkerTransition(w, "cancelled", "release")

(* Index: no output yet, output that fails the job, items replaced only    *)
(* while the job is indexing.                                              *)
WorkerIndex(w) ==
    /\ step[w] = "index"
    /\ \/ Working(w, "requeue")
       \/ Working(w, "toFailed")
       \/ status[job[w]] = "indexing" /\ Working(w, "toSettling")
    /\ UNCHANGED <<ledgerVars, queueVars, rowVars, provVars, faults, histVars>>

WorkerRelease(w) ==
    /\ step[w] = "release"
    /\ \/ ReleaseHold(job[w]) /\ Calm /\ Working(w, "ack")
       \/ ReleaseRefused(job[w]) /\ Calm /\ Working(w, "requeue")
       \/ UNCHANGED ledgerVars /\ Fault /\ Working(w, "requeue")
    /\ UNCHANGED <<queueVars, rowVars, provVars, histVars>>

RetryExhausted(j) == retries[j] = MaxRetries /\ j \in settleCode

WorkerSettle(w) ==
    step[w] = "settle" /\ WorkerReads(w,
        LET j == job[w] IN
        IF status[j] = "completed" THEN "ack"
        ELSE IF status[j] # "settling" THEN "requeue"
        ELSE IF RetryExhausted(j) THEN "releaseExhausted"
        ELSE IF cost[j] > Hold THEN "record" ELSE "capture")

(* Mutant: a capture that failed is settled all the same. *)
WorkerCaptureOptimistic(w) ==
    /\ step[w] = "capture" /\ Working(w, "markSettled")
    /\ \/ CaptureHold(job[w], cost[job[w]]) /\ Calm
       \/ CaptureRefused(job[w], cost[job[w]]) /\ Calm
       \/ UNCHANGED ledgerVars /\ Fault
    /\ UNCHANGED <<queueVars, rowVars, provVars, histVars>>

WorkerCapture(w) ==
    /\ step[w] = "capture"
    /\ \/ /\ CaptureHold(job[w], cost[job[w]])
          /\ Calm /\ Working(w, "markSettled")
       \/ /\ CaptureRefused(job[w], cost[job[w]])
          /\ Calm /\ Working(w, "record")
       \/ UNCHANGED ledgerVars /\ Fault /\ Working(w, "record")
    /\ UNCHANGED <<queueVars, rowVars, provVars, histVars>>

(* After a billing failure Process looks at the row once more. *)
AfterFailure(j) == IF cost[j] > Hold THEN "requeue" ELSE "recheck"

(* The count is kept although writing its event fails, but then ignored. *)
WorkerRecord(w) ==
    /\ step[w] = "record"
    /\ \/ /\ CountFailure(job[w]) /\ Calm
          /\ Working(w, IF retries'[job[w]] = MaxRetries THEN "releaseExhausted"
                                  ELSE AfterFailure(job[w]))
       \/ (CountFailure(job[w]) \/ UNCHANGED rowVars) /\ Fault
          /\ Working(w, AfterFailure(job[w]))
    /\ UNCHANGED <<ledgerVars, queueVars, provVars, histVars>>

WorkerReleaseExhausted(w) ==
    /\ step[w] = "releaseExhausted"
    /\ \/ /\ ReleaseHold(job[w]) /\ Calm
          /\ Working(w, "failExhausted")
       \/ /\ ReleaseRefused(job[w]) /\ Calm
          /\ Working(w, "recordRelease")
       \/ /\ UNCHANGED ledgerVars /\ Fault
          /\ Working(w, "recordRelease")
    /\ UNCHANGED <<queueVars, rowVars, provVars, histVars>>

WorkerRecordRelease(w) ==
    /\ step[w] = "recordRelease"
    /\ Working(w, "recheck")
    /\ (CountFailure(job[w]) /\ Calm) \/ (UNCHANGED rowVars /\ Fault)
    /\ UNCHANGED <<ledgerVars, queueVars, provVars, histVars>>

WorkerFailExhausted(w) ==
    /\ step[w] = "failExhausted"
    /\ \/ Transition(job[w], "failed") /\ Calm /\ Working(w, "recheck") /\ UNCHANGED histVars
       \/ TransitionRefused(job[w], "failed") /\ Calm /\ Working(w, "requeue")
          /\ UNCHANGED histVars
       \/ UNCHANGED rowVars /\ Fault /\ Working(w, "requeue") /\ Unmark(job[w])
    /\ UNCHANGED <<ledgerVars, queueVars, provVars>>

WorkerRecheck(w) ==
    step[w] = "recheck" /\ WorkerReads(w,
        IF status[job[w]] \in Terminal THEN "ack" ELSE "requeue")

(* MarkBatchImageJobSettled. *)
WorkerMarkSettled(w) ==
    /\ step[w] = "markSettled"
    /\ \/ /\ status[job[w]] = "settling"
          /\ status' = [status EXCEPT ![job[w]] = "completed"]
          /\ UNCHANGED <<named, hidden, retries, settleCode, histVars>>
          /\ Calm /\ Working(w, "ack")
       \/ /\ status[job[w]] # "settling"
          /\ UNCHANGED <<rowVars, histVars>> /\ Calm /\ Working(w, "requeue")
       \/ UNCHANGED rowVars /\ Unmark(job[w]) /\ Fault /\ Working(w, "requeue")
    /\ UNCHANGED <<ledgerVars, queueVars, provVars>>

WorkerAck(w) ==
    /\ step[w] = "ack"
    /\ Working(w, "unlock")
    /\ (Ack(job[w]) /\ Calm) \/ (UNCHANGED queueVars /\ Fault)
    /\ UNCHANGED <<ledgerVars, rowVars, provVars, histVars>>

WorkerRequeue(w) ==
    /\ step[w] = "requeue"
    /\ Working(w, "unlock")
    /\ (RequeueAfter(job[w]) /\ Calm) \/ (UNCHANGED queueVars /\ Fault)
    /\ UNCHANGED <<ledgerVars, rowVars, provVars, histVars>>

WorkerUnlock(w) ==
    /\ step[w] = "unlock"
    /\ Resting(w)
    /\ (ReleaseJobLock(w, job[w]) /\ Calm) \/ (UNCHANGED queueVars /\ Fault)
    /\ UNCHANGED <<ledgerVars, rowVars, provVars, histVars>>

WorkerCrash(w) ==
    /\ step[w] # "idle" /\ Resting(w) /\ Fault
    /\ IF step[w] \in {"markSettled", "failExhausted"} THEN Unmark(job[w])
       ELSE UNCHANGED histVars
    /\ UNCHANGED <<ledgerVars, queueVars, rowVars, provVars>>

-----------------------------------------------------------------------------
(* The queue's timers, the provider, and the owner's and the sweeper's      *)
(* deletions.                                                               *)
Busy(j) == \E w \in Workers : job[w] = j
Owned(j) ==
    \E w \in Workers : lock[j] = w /\ job[w] = j /\ step[w] \notin {"lock", "conflict"}

DelayPasses(j) ==
    /\ MoveDueDelayedToReady(j)
    /\ UNCHANGED <<ledgerVars, rowVars, handlerVars, workerVars, provVars, faults, histVars>>

ActiveIsStale(j) ==
    /\ RecoverStaleActive(j)
    /\ (~Busy(j) /\ UNCHANGED histVars) \/ (Busy(j) /\ Lapse(j))
    /\ UNCHANGED <<ledgerVars, rowVars, handlerVars, workerVars, provVars, faults>>

LockExpires(j) ==
    /\ ExpireJobLock(j)
    /\ (~Owned(j) /\ UNCHANGED histVars) \/ (Owned(j) /\ Lapse(j))
    /\ UNCHANGED <<ledgerVars, rowVars, handlerVars, workerVars, provVars, faults>>

ProviderEnds(j) ==
    /\ upstream[j] = "live"
    /\ \E end \in {"succeeded", "failed", "cancelled"}, n \in 0..(Hold + 1) :
          /\ upstream' = [upstream EXCEPT ![j] = end]
          /\ cost' = [cost EXCEPT ![j] = IF end = "succeeded" THEN n ELSE 0]
    /\ UNCHANGED <<ledgerVars, queueVars, rowVars, handlerVars, workerVars, faults, histVars>>

DeleteOutputs(j) ==
    /\ status[j] = "completed" /\ status' = [status EXCEPT ![j] = "output_deleted"]
    /\ UNCHANGED <<ledgerVars, queueVars, named, hidden, retries, settleCode, handlerVars,
                   workerVars, provVars, faults, histVars>>

DeleteRecord(j) ==
    /\ status[j] \in Terminal /\ j \notin hidden /\ HideRecord(j)
    /\ UNCHANGED <<ledgerVars, queueVars, handlerVars, workerVars, provVars, faults, histVars>>

SubmitNext(j) ==
    \/ SubmitCreate(j) \/ SubmitReserve(j) \/ SubmitItems(j) \/ SubmitUpload(j)
    \/ SubmitProvider(j) \/ SubmitRecord(j) \/ SubmitAbort(j) \/ SubmitEnqueue(j)
    \/ SubmitQueueFailed(j) \/ SubmitRelease(j) \/ SubmitReleaseFailed(j) \/ SubmitRetry(j)
    \/ SubmitMarkFailed(j) \/ SubmitHide(j) \/ SubmitCrash(j)
    \/ ReplayRead(j) \/ ReplayEnqueue(j) \/ ReplayQueueFailed(j)
CancelNext(j) ==
    \/ CancelRead(j) \/ CancelProvider(j) \/ CancelEnqueue(j) \/ CancelTransition(j)
    \/ CancelRelease(j) \/ CancelRetry(j) \/ CancelCrash(j)
RecoveryNext(j) ==
    \/ RecoveryFailStale(j) \/ RecoveryRelease(j) \/ RecoveryRetry(j) \/ RecoveryCrash(j)
WorkerNext(w) ==
    \/ \E j \in Jobs : WorkerReserve(w, j)
    \/ WorkerLock(w) \/ WorkerConflict(w) \/ WorkerRead(w) \/ WorkerProcess(w)
    \/ WorkerPoll(w) \/ WorkerToRunning(w) \/ WorkerToIndexing(w) \/ WorkerIndex(w)
    \/ WorkerToSettling(w) \/ WorkerToFailed(w) \/ WorkerToCancelled(w) \/ WorkerRelease(w)
    \/ WorkerSettle(w) \/ WorkerCapture(w) \/ WorkerRecord(w) \/ WorkerReleaseExhausted(w)
    \/ WorkerRecordRelease(w) \/ WorkerFailExhausted(w) \/ WorkerRecheck(w)
    \/ WorkerMarkSettled(w) \/ WorkerAck(w) \/ WorkerRequeue(w) \/ WorkerUnlock(w)
    \/ WorkerCrash(w)
EnvironmentNext(j) ==
    \/ DelayPasses(j) \/ ActiveIsStale(j) \/ LockExpires(j)
    \/ ProviderEnds(j) \/ DeleteOutputs(j) \/ DeleteRecord(j)

Next ==
    \/ \E j \in Jobs : SubmitNext(j) \/ CancelNext(j) \/ RecoveryNext(j) \/ EnvironmentNext(j)
    \/ \E w \in Workers : WorkerNext(w)

Spec == Init /\ [][Next]_vars

-----------------------------------------------------------------------------
(* A hold is settled one way: the amount captured is never also given back *)
(* from what the user's other batches have frozen (the two have different  *)
(* request ids, only the pooled frozen balance stands between them), as    *)
(* long as no worker loses the job's lock and the status is written once   *)
(* the money has moved: a captured job that stays settling is released     *)
(* when further captures fail until the retries are exhausted.             *)
OneSettlement == captured \cap returned \subseteq lapsed \cup unmarked

(* The pool holds what every unsettled job, and the other batches, froze:  *)
(* nothing is released that was never reserved, nor settled twice.         *)
PoolIsBacked ==
    lapsed \cup unmarked = {} => frozen >= Elsewhere + Hold * Cardinality(held \ (captured \cup returned))

(* A completed job was reserved and paid for, whoever lost whichever lock. *)
CompletedIsPaid ==
    \A j \in Jobs : status[j] \in {"completed", "output_deleted"} => j \in held \cap captured

(* Some call that releases j's hold is still to come. *)
ReleaseDue(j) ==
    \/ submit[j] \in {"items", "upload", "release", "releaseQuit", "releaseFailed", "retry"}
    \/ cancel[j] \in {"release", "retry"} \/ recovery[j] \in {"release", "retry"}
    \/ Queued(j)

(* A failed or cancelled job does not keep the user's money: its hold is   *)
(* settled or a release is still to come, through every failing release    *)
(* and worker crash, unless a handler crashed, an Enqueue failed, a lock   *)
(* was lost or the release was claimed before there was a hold.            *)
NoStrandedHold ==
    \A j \in held \ (captured \cup released \cup broken \cup lapsed) :
        status[j] \in {"failed", "cancelled"} => ReleaseDue(j)

(* A completed job stays completed, although RecordBatchImageJobSubmitFailure *)
(* writes `failed' over any status.                                           *)
CompletedIsFinal ==
    [][\A j \in Jobs : status[j] = "completed" => status'[j] \in {"completed", "output_deleted"}]_vars

(* "Must never refund then: the provider's batch would run at our cost while *)
(* the user has the frozen balance back": after a refund no batch runs on    *)
(* unless Submit is about to abort it.                                       *)
NoRefundWhileRunning ==
    \A j \in returned : upstream[j] = "live" => submit[j] \in {"record", "abort"}

(* "An earlier release committed, the funds have been returned": a claimed   *)
(* release request id of a job with a reservation means that the hold went  *)
(* back, for no other release of the job will move money.                   *)
ReleaseReturnsHold == held \cap released \subseteq returned
=============================================================================
