-------------------------- MODULE SystemOperationLock --------------------------
(***************************************************************************)
(* The lock under which an administrator updates, rolls back or restarts   *)
(* the system: one row of idempotency_records that every operation claims. *)
(* The holder renews the row's locked_until from a goroutine of its own    *)
(* until Release; a holder that died is replaced when locked_until passed. *)
(*                                                                         *)
(* Acquire and the renewal are cut at their repository calls.  A call that *)
(* fails may or may not have been applied.  An attempt takes its `now'     *)
(* before its first call.  NULL in locked_until is 0: no comparison tells  *)
(* them apart.                                                             *)
(***************************************************************************)
EXTENDS Integers

CONSTANTS
    Attempts,   \* calls of Acquire
    Operations, \* operation ids: of the Idempotency-Key, or unique without one
    None,       \* no operation
    Lease, Interval, TTL, \* of the lock, between two renewals, of the row
    MaxClock,   \* bound: ticks of the clock
    MaxFaults   \* bound: crashes and failed repository calls

ASSUME DurationsAssumption ==
    Lease \in Nat \ {0} /\ Interval \in Nat \ {0} /\ TTL \in Nat \ {0}
ASSUME BoundsAssumption == MaxClock \in Nat /\ MaxFaults \in Nat
ASSUME NoneAssumption == None \notin Operations

VARIABLES
    clock,
    rowId,      \* the lock's row: 0 when there is none
    rowPrint, rowStatus, rowLock, rowExp, \* its columns
    nextId,     \* the table's id sequence
    step,       \* per attempt: its next call; a holder runs, then releases,
    op,         \* its operation id,
    start,      \* its `now',
    recId,      \* the id of the row it read or claimed,
    seen,       \* the status it read,
    loop,       \* its renewal goroutine: waiting, in a call, told to stop in one
    stamp,      \* the time that call took,
    due,        \* and when the ticker fires next
    created,    \* history: the holders that inserted the row
    lapsed,     \* history: the holders the row did not protect at some time
    late,       \* history: the holders whose claim, renewal or Release was slow
    faults

rowVars  == <<rowId, rowPrint, rowStatus, rowLock, rowExp, nextId>>
callVars == <<op, start, recId, seen>>
loopVars == <<loop, stamp, due>>
vars == <<clock, rowVars, step, callVars, loopVars, created, lapsed, late, faults>>

Statuses == {"processing", "succeeded", "failed_retryable"}
Steps == {"idle", "create", "get", "reclaim", "run", "release", "done"}

RowTypeOK ==
    /\ rowId \in Nat /\ nextId \in Nat \ {0} /\ rowId < nextId
    /\ rowPrint \in Operations \cup {None} /\ rowStatus \in Statuses
    /\ rowLock \in Nat /\ rowExp \in Nat
CallTypeOK ==
    /\ step \in [Attempts -> Steps]
    /\ op \in [Attempts -> Operations \cup {None}]
    /\ start \in [Attempts -> 0..clock]
    /\ recId \in [Attempts -> Nat] /\ seen \in [Attempts -> Statuses]
LoopTypeOK ==
    /\ loop \in [Attempts -> {"off", "on", "call", "stopping"}]
    /\ stamp \in [Attempts -> 0..clock] /\ due \in [Attempts -> Nat]
TypeOK ==
    /\ clock \in 0..MaxClock /\ faults \in 0..MaxFaults
    /\ RowTypeOK /\ CallTypeOK /\ LoopTypeOK
    /\ created \subseteq Attempts /\ lapsed \subseteq Attempts /\ late \subseteq Attempts

Init ==
    /\ clock = 0 /\ faults = 0
    /\ rowId = 0 /\ rowPrint = None /\ rowStatus = "processing"
    /\ rowLock = 0 /\ rowExp = 0 /\ nextId = 1
    /\ step = [a \in Attempts |-> "idle"]
    /\ op = [a \in Attempts |-> None]
    /\ start = [a \in Attempts |-> 0] /\ recId = [a \in Attempts |-> 0]
    /\ seen = [a \in Attempts |-> "processing"]
    /\ loop = [a \in Attempts |-> "off"]
    /\ stamp = [a \in Attempts |-> 0] /\ due = [a \in Attempts |-> 0]
    /\ created = {} /\ lapsed = {} /\ late = {}

-----------------------------------------------------------------------------
Holding == {a \in Attempts : step[a] \in {"run", "release"}}

Calm == UNCHANGED faults
Fault == faults < MaxFaults /\ faults' = faults + 1
Goto(a, s) == step' = [step EXCEPT ![a] = s]
Loop(a, l) == loop' = [loop EXCEPT ![a] = l]
Late(a) == late' = late \cup {a}

(* Acquire succeeds: the renewal goroutine starts with the ticker's first  *)
(* interval.                                                               *)
Claim(a) ==
    /\ Goto(a, "run") /\ Loop(a, "on") /\ due' = [due EXCEPT ![a] = clock + Interval]
    /\ IF start[a] = clock THEN UNCHANGED late ELSE Late(a)
    /\ UNCHANGED <<op, start, seen, stamp>>
Refuse(a) == Goto(a, "done") /\ UNCHANGED <<callVars, loopVars, created, late>>

(* The INSERT ... ON CONFLICT DO NOTHING of CreateProcessing. *)
InsertRow(a) ==
    /\ rowId = 0
    /\ rowId' = nextId /\ nextId' = nextId + 1
    /\ rowPrint' = op[a] /\ rowStatus' = "processing"
    /\ rowLock' = start[a] + Lease /\ rowExp' = start[a] + TTL

(* Mutant: the WHERE compares the status alone. *)
ReclaimableUnlocked(a) == rowId = recId[a] /\ rowStatus = seen[a]

(* The WHERE of TryReclaim's UPDATE, and the UPDATE: it leaves the          *)
(* fingerprint of the operation that inserted the row.                      *)
Reclaimable(a) == rowId = recId[a] /\ rowStatus = seen[a] /\ rowLock <= start[a]
ReclaimRow(a) ==
    /\ rowStatus' = "processing"
    /\ rowLock' = start[a] + Lease /\ rowExp' = start[a] + TTL
    /\ UNCHANGED <<rowId, rowPrint, nextId>>

Begin(a) ==
    /\ step[a] = "idle" /\ Goto(a, "create")
    /\ \E o \in Operations : op' = [op EXCEPT ![a] = o]
    /\ start' = [start EXCEPT ![a] = clock]
    /\ UNCHANGED <<clock, rowVars, recId, seen, loopVars, created, late, faults>>

CreateProcessing(a) ==
    /\ step[a] = "create" /\ UNCHANGED clock
    /\ \/ /\ InsertRow(a) /\ Claim(a) /\ recId' = [recId EXCEPT ![a] = nextId]
          /\ created' = created \cup {a} /\ Calm
       \/ /\ rowId # 0 /\ Goto(a, "get") /\ Calm
          /\ UNCHANGED <<rowVars, callVars, loopVars, created, late>>
       \/ Fault /\ Refuse(a) /\ (InsertRow(a) \/ UNCHANGED rowVars)

GetExisting(a) ==
    /\ step[a] = "get" /\ UNCHANGED <<clock, rowVars, loopVars, created, late>>
    /\ \/ /\ rowId # 0 /\ ~(rowStatus = "processing" /\ rowLock > start[a])
          /\ Goto(a, "reclaim") /\ Calm
          /\ recId' = [recId EXCEPT ![a] = rowId] /\ seen' = [seen EXCEPT ![a] = rowStatus]
          /\ UNCHANGED <<op, start>>
       \/ /\ rowId = 0 \/ (rowStatus = "processing" /\ rowLock > start[a])
          /\ Refuse(a) /\ Calm
       \/ Fault /\ Refuse(a)

TryReclaim(a) ==
    /\ step[a] = "reclaim" /\ UNCHANGED clock
    /\ \/ /\ Reclaimable(a) /\ ReclaimRow(a) /\ Claim(a)
          /\ UNCHANGED <<recId, created>> /\ Calm
       \/ ~Reclaimable(a) /\ Refuse(a) /\ UNCHANGED rowVars /\ Calm
       \/ Fault /\ Refuse(a) /\ (UNCHANGED rowVars \/ (Reclaimable(a) /\ ReclaimRow(a)))

(* The ticker fires and the goroutine calls ExtendProcessingLock; Release   *)
(* does not wait for it.                                                    *)
RenewCall(a) ==
    /\ loop[a] = "on" /\ due[a] <= clock /\ Loop(a, "call")
    /\ stamp' = [stamp EXCEPT ![a] = clock] /\ due' = [due EXCEPT ![a] = clock + Interval]
    /\ UNCHANGED <<clock, rowVars, step, callVars, created, late, faults>>

(* Mutant: a renewal that found the row also ends the loop. *)
AgainOnce(a) == "off"

(* The loop after a call: it ends if it was told to while calling. *)
Again(a) == IF loop[a] = "call" THEN "on" ELSE "off"

(* ExtendProcessingLock's WHERE and UPDATE. *)
Extendable(a) == rowId = recId[a] /\ rowStatus = "processing" /\ rowPrint = op[a]
ExtendRow(a) ==
    /\ rowLock' = stamp[a] + Lease /\ rowExp' = stamp[a] + TTL
    /\ UNCHANGED <<rowId, rowPrint, rowStatus, nextId>>

ExtendProcessingLock(a) ==
    /\ loop[a] \in {"call", "stopping"}
    /\ \/ Extendable(a) /\ ExtendRow(a) /\ Loop(a, Again(a)) /\ Calm /\ UNCHANGED late
       \/ ~Extendable(a) /\ Loop(a, "off") /\ Calm /\ UNCHANGED <<rowVars, late>>
       \/ /\ Fault /\ Loop(a, Again(a)) /\ Late(a)
          /\ UNCHANGED rowVars \/ (Extendable(a) /\ ExtendRow(a))
    /\ UNCHANGED <<clock, step, callVars, stamp, due, created>>

(* The operation is over, or failed: Release first stops the loop. *)
Finish(a) ==
    /\ step[a] = "run" /\ Goto(a, "release")
    /\ Loop(a, CASE loop[a] = "on" -> "off" [] loop[a] = "call" -> "stopping"
                 [] OTHER -> loop[a])
    /\ UNCHANGED <<clock, rowVars, callVars, stamp, due, created, late, faults>>

(* MarkSucceeded or MarkFailedRetryable, by the row's id alone. *)
MarkRow(a) ==
    IF rowId = recId[a]
    THEN /\ \/ rowStatus' = "succeeded" /\ rowLock' = 0
            \/ rowStatus' = "failed_retryable" /\ rowLock' = clock
         /\ rowExp' = clock + TTL
         /\ UNCHANGED <<rowId, rowPrint, nextId>>
    ELSE UNCHANGED rowVars

Release(a) ==
    /\ step[a] = "release" /\ Goto(a, "done")
    /\ \/ MarkRow(a) /\ Calm
       \/ Fault /\ (UNCHANGED rowVars \/ MarkRow(a))
    /\ UNCHANGED <<clock, callVars, loopVars, created, late>>

Crash(a) ==
    /\ step[a] \notin {"idle", "done"} /\ Fault /\ Goto(a, "done") /\ Loop(a, "off")
    /\ UNCHANGED <<clock, rowVars, callVars, stamp, due, created, late>>

(* IdempotencyCleanupService. *)
DeleteExpired ==
    /\ rowId # 0 /\ rowExp <= clock
    /\ rowId' = 0 /\ rowPrint' = None /\ rowStatus' = "processing"
    /\ rowLock' = 0 /\ rowExp' = 0
    /\ UNCHANGED <<clock, nextId, step, callVars, loopVars, created, late, faults>>

(* Renewals and Release are quick: whoever a tick finds in one is late. *)
Slow == {a \in Attempts : \/ loop[a] = "call" \/ (loop[a] = "on" /\ due[a] <= clock)
                          \/ step[a] = "release"}
Tick ==
    /\ clock < MaxClock /\ clock' = clock + 1 /\ late' = late \cup Slow
    /\ UNCHANGED <<rowVars, step, callVars, loopVars, created, faults>>

Call(a) ==
    \/ Begin(a) \/ CreateProcessing(a) \/ GetExisting(a) \/ TryReclaim(a)
    \/ RenewCall(a) \/ ExtendProcessingLock(a)
    \/ Finish(a) \/ Release(a) \/ Crash(a)

(* The row says that a's operation is in progress. *)
Protected(a) ==
    rowId = recId[a] /\ rowId # 0 /\ rowStatus = "processing" /\ rowLock > clock

Next ==
    /\ (\E a \in Attempts : Call(a)) \/ DeleteExpired \/ Tick
    /\ lapsed' = lapsed \cup {a \in Holding' : ~Protected(a)'}

Spec == Init /\ [][Next]_vars

-----------------------------------------------------------------------------
(* Two operations run at the same time only if one of them has been        *)
(* without the row's protection: claims that race, requests with an old    *)
(* `now', failed statements, crashes and the cleanup never give it twice.  *)
OneOperation == \A a, b \in Holding \ lapsed : a = b

(* The operation that inserted the row is protected as long as it runs, if *)
(* its claim, its renewals and its Release are on time.                    *)
FirstIsRenewed == created \cap Holding \cap lapsed \subseteq late

(* "locked_until should be renewed while lock is held": nobody's lock runs   *)
(* out while every claim, renewal and Release is on time.                   *)
RenewedWhileHeld == late = {} => Holding \cap lapsed = {}
=============================================================================
