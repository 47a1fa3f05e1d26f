----------------------------- MODULE Idempotency -----------------------------
(***************************************************************************)
(* The idempotency coordinator: write requests that carry the same         *)
(* Idempotency-Key in one scope share one row of idempotency_records.  A   *)
(* request claims the row and executes the business operation, replays the *)
(* response another request stored, or is refused.                         *)
(*                                                                         *)
(* Execute is cut at its repository calls.  A call that fails may or may   *)
(* not have been applied by the database.  Time is a clock that may stand  *)
(* still during any number of calls; a request takes its `now' once, at    *)
(* its start.  NULL in locked_until is 0: no comparison tells them apart.  *)
(***************************************************************************)
EXTENDS Integers

CONSTANTS
    Requests,   \* requests with this key, retries and duplicates included
    Prints,     \* fingerprints: method, route, actor and payload, hashed
    Oversized,  \* requests whose response is cut at MaxStoredResponseLen
    TTL, ProcessingTimeout, FailedRetryBackoff,
    None,       \* no response
    MaxClock,   \* bound: ticks of the clock
    MaxFaults   \* bound: crashes and failed repository calls

ASSUME DurationsAssumption ==
    /\ TTL \in Nat \ {0}
    /\ ProcessingTimeout \in Nat \ {0} /\ FailedRetryBackoff \in Nat \ {0}
ASSUME BoundsAssumption == MaxClock \in Nat /\ MaxFaults \in Nat
ASSUME NoneAssumption == None \notin Requests

VARIABLES
    clock,
    rowId,      \* the key's row: 0 when there is none
    rowPrint, rowStatus, rowBody, rowLock, rowExp, \* its columns
    nextId,     \* the table's id sequence
    pc,         \* per request: its next repository call,
    print,      \* its fingerprint,
    start,      \* its `now',
    recId,      \* the id of the row it read or claimed,
    seenStatus, \* the status it read in an expired row,
    answer,     \* what its client was told,
    got,        \* and the response replayed to it
    began,      \* history: when it claimed the row
    executed,   \* history: the requests whose operation was executed
    staleClaim, \* history: some request claimed a row it had read as expired
    overrun,    \* history: some request outlived its record's TTL
    faults

rowVars  == <<rowId, rowPrint, rowStatus, rowBody, rowLock, rowExp, nextId>>
callVars == <<print, start, recId, seenStatus>>
doneVars == <<answer, got>>
histVars == <<began, executed, staleClaim, overrun>>
vars == <<clock, rowVars, pc, callVars, doneVars, histVars, faults>>

Statuses == {"processing", "succeeded", "failed_retryable"}
Owning   == {"execute", "markOk", "markFailed"}
Reading  == {"create", "get", "reclaimExpired", "getLatest", "reclaimFailed"}
Active   == Owning \cup Reading
Answers  == {"none", "ok", "replayed", "failed", "refused"}

(* Latest time a row may carry: a start or a failure, and a duration. *)
Horizon == MaxClock + TTL + ProcessingTimeout + FailedRetryBackoff

RowTypeOK ==
    /\ rowId \in Nat /\ nextId \in Nat \ {0} /\ rowId < nextId
    /\ rowPrint \in Prints \cup {None} /\ rowStatus \in Statuses
    /\ rowBody \in Requests \cup {None}
    /\ rowLock \in 0..Horizon /\ rowExp \in 0..Horizon
CallTypeOK ==
    /\ pc \in [Requests -> Active \cup {"idle", "done"}]
    /\ print \in [Requests -> Prints \cup {None}]
    /\ start \in [Requests -> 0..MaxClock]
    /\ recId \in [Requests -> Nat] /\ seenStatus \in [Requests -> Statuses]
DoneTypeOK ==
    /\ answer \in [Requests -> Answers] /\ got \in [Requests -> Requests \cup {None}]
HistTypeOK ==
    /\ began \in [Requests -> 0..MaxClock] /\ executed \subseteq Requests
    /\ staleClaim \in BOOLEAN /\ overrun \in BOOLEAN
BoundTypeOK == clock \in 0..MaxClock /\ faults \in 0..MaxFaults
TypeOK == RowTypeOK /\ CallTypeOK /\ DoneTypeOK /\ HistTypeOK /\ BoundTypeOK

Init ==
    /\ clock = 0 /\ faults = 0
    /\ rowId = 0 /\ rowPrint = None /\ rowStatus = "processing" /\ rowBody = None
    /\ rowLock = 0 /\ rowExp = 0 /\ nextId = 1
    /\ pc = [r \in Requests |-> "idle"]
    /\ print = [r \in Requests |-> None]
    /\ start = [r \in Requests |-> 0]
    /\ recId = [r \in Requests |-> 0]
    /\ seenStatus = [r \in Requests |-> "processing"]
    /\ answer = [r \in Requests |-> "none"] /\ got = [r \in Requests |-> None]
    /\ began = [r \in Requests |-> 0] /\ executed = {}
    /\ staleClaim = FALSE /\ overrun = FALSE

-----------------------------------------------------------------------------
Fault == faults < MaxFaults /\ faults' = faults + 1

Goto(r, step) == pc' = [pc EXCEPT ![r] = step]
Answer(r, a) ==
    /\ Goto(r, "done") /\ answer' = [answer EXCEPT ![r] = a] /\ UNCHANGED got
Refuse(r) == Answer(r, "refused") /\ UNCHANGED <<callVars, histVars>>

(* The claim is granted: the request goes on to execute. *)
Own(r) ==
    /\ Goto(r, "execute") /\ began' = [began EXCEPT ![r] = clock]
    /\ UNCHANGED <<print, start, seenStatus, doneVars, executed, overrun>>

(* Mutant: a conflicting row is overwritten. *)
InsertRowUpsert(r) ==
    /\ rowId' = nextId /\ nextId' = nextId + 1
    /\ rowPrint' = print[r] /\ rowStatus' = "processing" /\ rowBody' = None
    /\ rowLock' = start[r] + ProcessingTimeout /\ rowExp' = start[r] + TTL

(* The INSERT ... ON CONFLICT DO NOTHING of CreateProcessing. *)
InsertRow(r) ==
    /\ rowId = 0
    /\ rowId' = nextId /\ nextId' = nextId + 1
    /\ rowPrint' = print[r] /\ rowStatus' = "processing" /\ rowBody' = None
    /\ rowLock' = start[r] + ProcessingTimeout /\ rowExp' = start[r] + TTL

(* The WHERE of TryReclaim's UPDATE, and the UPDATE. *)
Reclaimable(r, from) == rowId = recId[r] /\ rowStatus = from /\ rowLock <= start[r]
ReclaimRow(r) ==
    /\ rowStatus' = "processing"
    /\ rowLock' = start[r] + ProcessingTimeout /\ rowExp' = start[r] + TTL
    /\ UNCHANGED <<rowId, rowPrint, rowBody, nextId>>


(* A client sends the key, with this or another payload. *)
Begin(r) ==
    /\ pc[r] = "idle" /\ Goto(r, "create")
    /\ \E p \in Prints : print' = [print EXCEPT ![r] = p]
    /\ start' = [start EXCEPT ![r] = clock]
    /\ UNCHANGED <<clock, rowVars, recId, seenStatus, doneVars, histVars, faults>>

CreateProcessing(r) ==
    /\ pc[r] = "create" /\ UNCHANGED clock
    /\ \/ InsertRow(r) /\ Own(r) /\ recId' = [recId EXCEPT ![r] = nextId]
          /\ UNCHANGED <<staleClaim, faults>>
       \/ rowId # 0 /\ Goto(r, "get")
          /\ UNCHANGED <<rowVars, callVars, doneVars, histVars, faults>>
       \/ Fault /\ Refuse(r) /\ (InsertRow(r) \/ UNCHANGED rowVars)

(* Mutant: existing rows of an earlier payload are taken for this one. *)
SamePrintAlways(r) == TRUE

(* The fingerprint test before an existing row is used. *)
SamePrint(r) == rowPrint = print[r]

(* The switch on existing.Status, for a row read with the right payload. *)
Decide(r) ==
    /\ UNCHANGED <<clock, rowVars, histVars, faults>>
    /\ \/ /\ rowStatus = "succeeded" /\ rowBody \notin Oversized
          /\ Goto(r, "done") /\ answer' = [answer EXCEPT ![r] = "replayed"]
          /\ got' = [got EXCEPT ![r] = rowBody]
          /\ UNCHANGED callVars
       \/ /\ \/ rowStatus = "succeeded" /\ rowBody \in Oversized
             \/ rowStatus = "processing"
             \/ rowStatus = "failed_retryable" /\ rowLock > start[r]
          /\ Answer(r, "refused") /\ UNCHANGED callVars
       \/ /\ rowStatus = "failed_retryable" /\ rowLock <= start[r]
          /\ Goto(r, "reclaimFailed")
          /\ recId' = [recId EXCEPT ![r] = rowId]
          /\ UNCHANGED <<print, start, seenStatus, doneVars>>

(* A row that is missing, of another payload, or whose read fails. *)
Unusable(r) ==
    /\ Refuse(r) /\ UNCHANGED <<clock, rowVars>>
    /\ \/ (rowId = 0 \/ ~SamePrint(r)) /\ UNCHANGED faults
       \/ Fault

GetExisting(r) ==
    /\ pc[r] = "get"
    /\ \/ Unusable(r)
       \/ /\ rowId # 0 /\ SamePrint(r) /\ rowExp <= start[r]
          /\ Goto(r, "reclaimExpired")
          /\ recId' = [recId EXCEPT ![r] = rowId]
          /\ seenStatus' = [seenStatus EXCEPT ![r] = rowStatus]
          /\ UNCHANGED <<clock, rowVars, print, start, doneVars, histVars, faults>>
       \/ rowId # 0 /\ SamePrint(r) /\ rowExp > start[r] /\ Decide(r)

TryReclaimExpired(r) ==
    /\ pc[r] = "reclaimExpired" /\ UNCHANGED clock
    /\ \/ /\ Reclaimable(r, seenStatus[r]) /\ ReclaimRow(r) /\ Own(r)
          /\ staleClaim' = TRUE /\ UNCHANGED <<recId, faults>>
       \/ /\ ~Reclaimable(r, seenStatus[r]) /\ Goto(r, "getLatest")
          /\ UNCHANGED <<rowVars, callVars, doneVars, histVars, faults>>
       \/ Fault /\ Refuse(r) /\ UNCHANGED rowVars
       \/ /\ Reclaimable(r, seenStatus[r]) /\ Fault /\ ReclaimRow(r)
          /\ Answer(r, "refused") /\ staleClaim' = TRUE
          /\ UNCHANGED <<callVars, began, executed, overrun>>

GetLatest(r) ==
    /\ pc[r] = "getLatest"
    /\ \/ Unusable(r)
       \/ rowId # 0 /\ SamePrint(r) /\ Decide(r)

TryReclaimFailed(r) ==
    /\ pc[r] = "reclaimFailed" /\ UNCHANGED clock
    /\ \/ /\ Reclaimable(r, "failed_retryable") /\ ReclaimRow(r) /\ Own(r)
          /\ UNCHANGED <<recId, staleClaim, faults>>
       \/ /\ ~Reclaimable(r, "failed_retryable") /\ Refuse(r)
          /\ UNCHANGED <<rowVars, faults>>
       \/ /\ Fault /\ Refuse(r)
          /\ \/ UNCHANGED rowVars
             \/ Reclaimable(r, "failed_retryable") /\ ReclaimRow(r)

(* The business operation; one that fails is rolled back by its own code. *)
Execute(r) ==
    /\ pc[r] = "execute"
    /\ \/ Goto(r, "markOk") /\ executed' = executed \cup {r}
       \/ Goto(r, "markFailed") /\ UNCHANGED executed
    /\ UNCHANGED <<clock, rowVars, callVars, doneVars, began, staleClaim, overrun, faults>>

(* The UPDATE of MarkSucceeded: by id alone, and no error if the row is gone. *)
StoreSuccess(r) ==
    IF rowId = recId[r]
    THEN /\ rowStatus' = "succeeded" /\ rowBody' = r
         /\ rowLock' = 0 /\ rowExp' = start[r] + TTL
         /\ UNCHANGED <<rowId, rowPrint, nextId>>
    ELSE UNCHANGED rowVars

(* Mutant: the client is told of success although the row was not stored. *)
MarkSucceededOptimistic(r) ==
    /\ pc[r] = "markOk" /\ UNCHANGED <<clock, callVars, histVars>>
    /\ \/ StoreSuccess(r) /\ Answer(r, "ok") /\ UNCHANGED faults
       \/ Fault /\ Answer(r, "ok") /\ UNCHANGED rowVars

(* The answer waits for the store: an error is reported, executed or not. *)
MarkSucceeded(r) ==
    /\ pc[r] = "markOk" /\ UNCHANGED <<clock, callVars, histVars>>
    /\ \/ StoreSuccess(r) /\ Answer(r, "ok") /\ UNCHANGED faults
       \/ Fault /\ Answer(r, "refused") /\ (StoreSuccess(r) \/ UNCHANGED rowVars)

MarkFailedRetryable(r) ==
    /\ pc[r] = "markFailed" /\ UNCHANGED <<clock, callVars, histVars>>
    /\ Answer(r, "failed")
    /\ \/ /\ rowId = recId[r]
          /\ rowStatus' = "failed_retryable"
          /\ rowLock' = clock + FailedRetryBackoff /\ rowExp' = start[r] + TTL
          /\ UNCHANGED <<rowId, rowPrint, rowBody, nextId, faults>>
       \/ rowId # recId[r] /\ UNCHANGED <<rowVars, faults>>
       \/ Fault /\ UNCHANGED rowVars

(* Mutant: the cleanup goes by locked_until. *)
DeleteUnlocked ==
    /\ rowId # 0 /\ rowLock <= clock
    /\ rowId' = 0 /\ rowPrint' = None /\ rowStatus' = "processing" /\ rowBody' = None
    /\ rowLock' = 0 /\ rowExp' = 0
    /\ UNCHANGED <<clock, nextId, pc, callVars, doneVars, histVars, faults>>

(* IdempotencyCleanupService. *)
DeleteExpired ==
    /\ rowId # 0 /\ rowExp <= clock
    /\ rowId' = 0 /\ rowPrint' = None /\ rowStatus' = "processing" /\ rowBody' = None
    /\ rowLock' = 0 /\ rowExp' = 0
    /\ UNCHANGED <<clock, nextId, pc, callVars, doneVars, histVars, faults>>

Crash(r) ==
    /\ pc[r] \in Active /\ Fault /\ Refuse(r) /\ UNCHANGED <<clock, rowVars>>

Tick ==
    /\ clock < MaxClock /\ clock' = clock + 1
    /\ overrun' = (overrun \/ \E r \in Requests :
                                  pc[r] \in Active /\ clock' >= start[r] + TTL)
    /\ UNCHANGED <<rowVars, pc, callVars, doneVars, began, executed, staleClaim, faults>>

Call(r) ==
    \/ Begin(r) \/ CreateProcessing(r) \/ GetExisting(r) \/ TryReclaimExpired(r)
    \/ GetLatest(r) \/ TryReclaimFailed(r) \/ Execute(r)
    \/ MarkSucceeded(r) \/ MarkFailedRetryable(r) \/ Crash(r)

Next == (\E r \in Requests : Call(r)) \/ DeleteExpired \/ Tick

Spec == Init /\ [][Next]_vars

-----------------------------------------------------------------------------
(* A request is answered with a stored response only if a request with the *)
(* same payload was executed and stored it: no reclaim, failure, deletion  *)
(* or late write lets a row carry another payload's response.              *)
ReplayIsReal ==
    \A r \in Requests : answer[r] = "replayed" =>
        /\ got[r] \in executed /\ print[got[r]] = print[r]

(* Until a request reclaims a row it had read as expired, or outlives its  *)
(* record: requests that own the key never run at the same time.           *)
Calm == ~staleClaim /\ ~overrun
OneExecutor ==
    Calm => \A r, s \in Requests : pc[r] \in Owning /\ pc[s] \in Owning => r = s

(* While no request outlives its record, the operation runs once per TTL:  *)
(* of two requests that executed it, one claimed the key when the other's  *)
(* record had expired.                                                     *)
Apart(r, s) == began[s] >= start[r] + TTL \/ began[r] >= start[s] + TTL
OnceWithinTTL ==
    ~overrun => \A r, s \in executed : r # s => Apart(r, s)

(* It holds until a request reclaims a row it had read as expired: through *)
(* crashes, failed and ambiguous statements, retries and cleanups.         *)
OnceWhileCalm == ~staleClaim => OnceWithinTTL

(* What a client was told is what a retry finds: a success that was        *)
(* answered stays in the row, as that response, until the record expires.  *)
AnsweredIsStored ==
    Calm => \A r \in Requests : answer[r] = "ok" /\ clock < start[r] + TTL =>
        /\ rowId = recId[r] /\ rowId # 0 /\ rowStatus = "succeeded" /\ rowBody = r
=============================================================================
