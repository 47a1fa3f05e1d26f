---------------------------- MODULE ConcurrencySlots ----------------------------
(***************************************************************************)
(* The requests that an account, or a user, serves at a time: a sorted set *)
(* of slots in Redis, a counter of the requests that wait for one, and the *)
(* index of active accounts by which the cleanups find both.  Any number   *)
(* of instances share them; a new instance removes what it believes dead   *)
(* processes left behind.                                                  *)
(*                                                                         *)
(* One account.  A script or pipeline is one step, a handler is cut at its *)
(* calls.  A failing call costs a fault and may have been applied.  Slots  *)
(* and the counter have a TTL: it ends at no cost for what nobody uses,    *)
(* and at the cost of a fault under a request that still relies on it.     *)
(* The slots per API key, which limit nothing, and the leases of WebSocket *)
(* connections are left out.                                               *)
(***************************************************************************)
EXTENDS Integers, FiniteSets

CONSTANTS
    Requests,
    Instances, Home, \* Home[r] is the process that serves r
    Limit,           \* maxConcurrency
    MaxWaiting,      \* maxWait
    MaxFaults        \* bound: failing calls, crashes, TTLs that end too early

ASSUME SlotsAssumption ==
    /\ IsFiniteSet(Requests) /\ Home \in [Requests -> Instances]
    /\ Limit \in Nat \ {0} /\ MaxWaiting \in Nat \ {0} /\ MaxFaults \in Nat

VARIABLES
    slots,    \* the sorted set: the requests that have a member
    waiting,  \* the counter
    index,    \* the account's entry in the active index; due: to be examined
    pc,       \* per request: its next call,
    idx,      \*   the call for the index that comes before it,
    has,      \*   whether it was given a slot,
    counted,  \*   whether it will leave the queue
    bg,       \* per instance: its startup cleanup, or its periodic one
    stripped, \* history: requests whose slot was taken from under them
    low, high, \* history: the counter may be below, above the requests it counts
    faults

redis   == <<slots, waiting, index>>
handler == <<pc, idx, has, counted>>
history == <<stripped, low, high>>
vars    == <<redis, handler, bg, history, faults>>

TypeOK ==
    /\ slots \subseteq Requests /\ waiting \in 0..MaxWaiting
    /\ index \in {"absent", "fresh", "due"}
    /\ pc \in [Requests -> {"new", "try", "queue", "wait", "leave", "run", "over"}]
    /\ idx \in [Requests -> {"none", "touch", "load", "drop", "keep"}]
    /\ has \in [Requests -> BOOLEAN] /\ counted \in [Requests -> BOOLEAN]
    /\ bg \in [Instances -> {"down", "slots", "count", "index", "idle", "load", "drop", "keep"}]
    /\ stripped \subseteq Requests /\ low \in BOOLEAN /\ high \in BOOLEAN
    /\ faults \in 0..MaxFaults

Init ==
    /\ slots = {} /\ waiting = 0 /\ index = "absent"
    /\ pc = [r \in Requests |-> "new"] /\ idx = [r \in Requests |-> "none"]
    /\ has = [r \in Requests |-> FALSE] /\ counted = [r \in Requests |-> FALSE]
    /\ bg = [i \in Instances |-> "down"]
    /\ stripped = {} /\ low = FALSE /\ high = FALSE /\ faults = 0

-----------------------------------------------------------------------------
Works == UNCHANGED faults
Fails == faults < MaxFaults /\ faults' = faults + 1

At(r, step) == pc[r] = step /\ idx[r] = "none"
Goto(r, step) == pc' = [pc EXCEPT ![r] = step]
Then(r, call) == idx' = [idx EXCEPT ![r] = call]
Serves(i) == bg[i] \notin {"down", "slots", "count", "index"}
Queued == {r \in Requests : counted[r]}
NoLoad == slots = {} /\ waiting = 0

(* A process removes the slots of others before it serves. *)
Arrive(r) ==
    /\ At(r, "new") /\ Serves(Home[r]) /\ Goto(r, "try")
    /\ UNCHANGED <<redis, idx, has, counted, bg, history, faults>>

-----------------------------------------------------------------------------
(* Slots *)

(* Mutant: the limit is compared before the new member is counted. *)
RoomForOneMore == Cardinality(slots) <= Limit
Room == Cardinality(slots) < Limit
(* AcquireAccountSlot: at once, or while waiting.  A failing call may leave *)
(* a member that nobody will remove.                                        *)
Acquire(r) ==
    /\ At(r, "try") \/ At(r, "wait")
    /\ \/ /\ Room /\ slots' = slots \cup {r} /\ has' = [has EXCEPT ![r] = TRUE]
          /\ Goto(r, IF pc[r] = "try" THEN "run" ELSE "leave") /\ Then(r, "touch") /\ Works
       \/ ~Room /\ pc[r] = "try" /\ Goto(r, "queue") /\ Works /\ UNCHANGED <<slots, idx, has>>
       \/ /\ Fails /\ (UNCHANGED slots \/ (Room /\ slots' = slots \cup {r}))
          /\ Goto(r, IF pc[r] = "try" THEN "over" ELSE "leave") /\ UNCHANGED <<idx, has>>
    /\ UNCHANGED <<waiting, index, counted, bg, history>>

(* ReleaseFunc, once: the response is complete, or the client went away.  *)
Release(r) ==
    /\ At(r, "run") /\ Goto(r, "over") /\ has' = [has EXCEPT ![r] = FALSE]
    /\ stripped' = stripped \ {r}
    /\ \/ slots' = slots \ {r} /\ Then(r, "load") /\ Works
       \/ slots' \in {slots, slots \ {r}} /\ UNCHANGED idx /\ Fails
    /\ UNCHANGED <<waiting, index, counted, bg, low, high>>

-----------------------------------------------------------------------------
(* The queue *)

(* Mutant: a request that found the queue full leaves it all the same. *)
JoinOrLeave(r) ==
    /\ At(r, "queue")
    /\ \/ /\ waiting < MaxWaiting /\ waiting' = waiting + 1
          /\ Goto(r, "wait") /\ Then(r, "touch") /\ counted' = [counted EXCEPT ![r] = TRUE]
       \/ waiting = MaxWaiting /\ Goto(r, "leave") /\ UNCHANGED <<waiting, idx, counted>>
    /\ UNCHANGED <<slots, index, has, bg, history, faults>>
(* IncrementWaitCount; when it fails the request waits all the same, and    *)
(* leaves the queue like one that was counted.                              *)
Join(r) ==
    /\ At(r, "queue")
    /\ \/ /\ waiting < MaxWaiting /\ waiting' = waiting + 1
          /\ Goto(r, "wait") /\ Then(r, "touch") /\ counted' = [counted EXCEPT ![r] = TRUE]
          /\ Works /\ UNCHANGED low
       \/ /\ waiting = MaxWaiting /\ Goto(r, "over")
          /\ Works /\ UNCHANGED <<waiting, idx, counted, low>>
       \/ /\ Goto(r, "wait") /\ counted' = [counted EXCEPT ![r] = TRUE] /\ UNCHANGED idx
          /\ \/ waiting < MaxWaiting /\ waiting' = waiting + 1 /\ UNCHANGED low
             \/ UNCHANGED waiting /\ low' = TRUE
          /\ Fails
    /\ UNCHANGED <<slots, index, has, bg, stripped, high>>

(* The wait times out, or the client goes away. *)
GiveUp(r) ==
    /\ At(r, "wait") /\ Goto(r, "leave")
    /\ UNCHANGED <<redis, idx, has, counted, bg, history, faults>>

(* Mutant: the counter is decremented at zero. *)
DecrementedBelow == waiting - 1
Decremented == IF waiting > 0 THEN waiting - 1 ELSE 0
(* Mutant: a request that was given a slot does not leave the queue. *)
LeaveIfRefused(r) ==
    /\ At(r, "leave") /\ counted' = [counted EXCEPT ![r] = FALSE]
    /\ Goto(r, IF has[r] THEN "run" ELSE "over")
    /\ waiting' = (IF has[r] THEN waiting ELSE Decremented) /\ Then(r, "load") /\ Works
    /\ UNCHANGED <<slots, index, has, bg, history>>
(* DecrementWaitCount *)
Leave(r) ==
    /\ At(r, "leave") /\ counted' = [counted EXCEPT ![r] = FALSE]
    /\ Goto(r, IF has[r] THEN "run" ELSE "over")
    /\ \/ waiting' = Decremented /\ Then(r, "load") /\ Works /\ UNCHANGED high
       \/ waiting' = Decremented /\ Fails /\ UNCHANGED <<idx, high>>
       \/ UNCHANGED <<waiting, idx>> /\ Fails /\ high' = TRUE
    /\ UNCHANGED <<slots, index, has, bg, stripped, low>>

-----------------------------------------------------------------------------
(* The index: an acquisition marks the account active, a release reads     *)
(* what is left and then writes its conclusion.                            *)

Write(conclusion) ==
    IF conclusion = "drop" THEN index' = "absent" ELSE index' = "fresh"

ReadLoad(r) ==
    /\ idx[r] = "load"
    /\ \/ Then(r, IF NoLoad THEN "drop" ELSE "keep") /\ Works
       \/ Then(r, "none") /\ Fails
    /\ UNCHANGED <<redis, pc, has, counted, bg, history>>
WriteIndex(r) ==
    /\ idx[r] \in {"touch", "drop", "keep"} /\ Then(r, "none")
    /\ \/ Write(idx[r]) /\ Works
       \/ UNCHANGED index /\ Fails
    /\ UNCHANGED <<slots, waiting, pc, has, counted, bg, history>>

-----------------------------------------------------------------------------
(* Cleanups; one that fails is given up until the next. *)

Background(i, step) == bg' = [bg EXCEPT ![i] = step]

(* CleanupStaleProcessSlots, of an account it finds in the index.  Request  *)
(* ids begin with a number the process drew at random, so every member is   *)
(* foreign to a process that starts.                                        *)
Boot(i) ==
    /\ bg[i] = "down"
    /\ \/ Background(i, IF index = "absent" THEN "idle" ELSE "slots") /\ Works
       \/ Background(i, "idle") /\ Fails
    /\ UNCHANGED <<redis, handler, history>>
BootSlots(i) ==
    /\ bg[i] = "slots"
    /\ \/ slots' = {} /\ Background(i, "count") /\ Works
       \/ slots' \in {slots, {}} /\ Background(i, "idle") /\ Fails
    /\ stripped' = stripped \cup {r \in slots \ slots' : has[r]}
    /\ UNCHANGED <<waiting, index, handler, low, high>>
(* The counter goes, and with it what it had too many. *)
ForgetCount == waiting' = 0 /\ low' = (Queued # {}) /\ high' = FALSE
BootCount(i) ==
    /\ bg[i] = "count"
    /\ \/ ForgetCount /\ Background(i, "index") /\ Works
       \/ ForgetCount /\ Background(i, "idle") /\ Fails
       \/ UNCHANGED <<waiting, low, high>> /\ Background(i, "idle") /\ Fails
    /\ UNCHANGED <<slots, index, handler, stripped>>
BootIndex(i) ==
    /\ bg[i] = "index" /\ Background(i, "idle")
    /\ \/ index' = "absent" /\ Works
       \/ UNCHANGED index /\ Fails
    /\ UNCHANGED <<slots, waiting, handler, history>>

(* Mutant: an entry that is due is renewed whatever its load. *)
ConcludeKeep == "keep"
Conclude == IF NoLoad THEN "drop" ELSE "keep"
(* reconcileExpiredIndexCandidates *)
FindDue(i) ==
    /\ bg[i] = "idle" /\ index = "due" /\ Background(i, "load")
    /\ UNCHANGED <<redis, handler, history, faults>>
ReconcileLoad(i) ==
    /\ bg[i] = "load"
    /\ \/ Background(i, Conclude) /\ Works
       \/ Background(i, "idle") /\ Fails
    /\ UNCHANGED <<redis, handler, history>>
ReconcileIndex(i) ==
    /\ bg[i] \in {"drop", "keep"} /\ Background(i, "idle")
    /\ \/ Write(bg[i]) /\ Works
       \/ UNCHANGED index /\ Fails
    /\ UNCHANGED <<slots, waiting, handler, history>>

-----------------------------------------------------------------------------
(* Time and failures *)

IndexDue ==
    /\ index = "fresh" /\ index' = "due"
    /\ UNCHANGED <<slots, waiting, handler, bg, history, faults>>
SlotLapses(r) ==
    /\ r \in slots /\ slots' = slots \ {r}
    /\ IF has[r] THEN Fails /\ stripped' = stripped \cup {r}
                 ELSE Works /\ UNCHANGED stripped
    /\ UNCHANGED <<waiting, index, handler, bg, low, high>>
CountLapses ==
    /\ waiting > 0 /\ ForgetCount
    /\ IF Queued = {} THEN Works ELSE Fails
    /\ UNCHANGED <<slots, index, handler, bg, stripped>>

(* A process dies with its requests; what they have in Redis stays. *)
Crash(i) ==
    /\ bg[i] # "down" /\ Fails /\ Background(i, "down")
    /\ LET gone == {r \in Requests : Home[r] = i /\ pc[r] # "new"}
       IN  /\ pc' = [r \in Requests |-> IF r \in gone THEN "over" ELSE pc[r]]
           /\ idx' = [r \in Requests |-> IF r \in gone THEN "none" ELSE idx[r]]
           /\ has' = [r \in Requests |-> has[r] /\ r \notin gone]
           /\ counted' = [r \in Requests |-> counted[r] /\ r \notin gone]
           /\ stripped' = stripped \ gone
           /\ high' = (high \/ \E r \in gone : counted[r])
    /\ UNCHANGED <<redis, low>>

-----------------------------------------------------------------------------
Step(r) ==
    \/ Acquire(r) \/ Release(r) \/ Join(r) \/ GiveUp(r) \/ Leave(r)
    \/ ReadLoad(r) \/ WriteIndex(r)
Clean(i) ==
    \/ Boot(i) \/ BootSlots(i) \/ BootCount(i) \/ BootIndex(i)
    \/ FindDue(i) \/ ReconcileLoad(i) \/ ReconcileIndex(i)
Next ==
    \/ \E r \in Requests : Arrive(r) \/ Step(r) \/ SlotLapses(r)
    \/ \E i \in Instances : Clean(i) \/ Crash(i)
    \/ IndexDue \/ CountLapses

(* Handlers that started go on, and so does what they wait for; a process  *)
(* that died is started again and cleans up periodically; TTLs end.        *)
Fairness ==
    /\ \A r \in Requests : WF_vars(Step(r)) /\ WF_vars(SlotLapses(r))
    /\ \A i \in Instances : WF_vars(Clean(i))
    /\ WF_vars(IndexDue) /\ WF_vars(CountLapses)
Spec == Init /\ [][Next]_vars /\ Fairness

-----------------------------------------------------------------------------
(* No more requests than the limit run at a time, not counting those whose *)
(* slot a starting instance or the TTL has taken from under them: nothing  *)
(* else removes the slot of a running request (concurrency_service.go:357,  *)
(* concurrency_cache.go:50).                                               *)
LimitKept == Cardinality({r \in Requests : has[r]} \ stripped) <= Limit

(* The counter is not below the requests in the queue, so no more of them  *)
(* than MaxWaiting are let in, unless one was let in uncounted or the      *)
(* counter went while they waited (concurrency_service.go:485,             *)
(* concurrency_cache.go:173).                                              *)
QueueKept == ~low => Cardinality(Queued) <= waiting

(* Nor is it above them: a request is refused only when the queue is full, *)
(* unless a waiting process died or a decrement was lost and the counter   *)
(* has been in use ever since (concurrency_service.go:505).                *)
NoPhantomWaiter == ~high => waiting <= Cardinality(Queued)

(* "Cleans the slots and wait counts that the OLD process left"             *)
(* (concurrency_service.go:54): a request of a live process keeps its slot. *)
(* False: every slot is foreign to a process that starts.                   *)
LivingKeepSlots == stripped = {}

(* Whatever crashes, fails and overtakes: when no more requests come, all  *)
(* slots, the count and the index entry are gone in the end                *)
(* (concurrency_cache.go:878-880).                                         *)
EverythingReclaimed == <>[](NoLoad /\ index = "absent")
=============================================================================
