------------------------- MODULE ConcurrencySlotsProofs -------------------------
(***************************************************************************)
(* Safety of ConcurrencySlots for any requests, instances, limits and      *)
(* faults.  A request that was given a slot still has its member unless it  *)
(* is known to have been stripped, and there are never more members than   *)
(* the limit (SlotInv); a request is counted exactly while it waits or is  *)
(* about to leave the queue (PhaseInv), so the counter and the queue move  *)
(* together except where low and high record that they did not.            *)
(***************************************************************************)
EXTENDS ConcurrencySlots, FiniteSetTheorems, TLAPS

PhaseInv ==
    \A r \in Requests :
        /\ has[r] => pc[r] \in {"run", "leave"}
        /\ counted[r] <=> pc[r] \in {"wait", "leave"}
SlotInv ==
    /\ \A r \in Requests : has[r] /\ r \notin stripped => r \in slots
    /\ Cardinality(slots) <= Limit
IInv == TypeOK /\ PhaseInv /\ SlotInv /\ QueueKept /\ NoPhantomWaiter

-----------------------------------------------------------------------------
(* Members and waiters, counted. *)

LEMMA MembersFinite ==
    ASSUME NEW S \in SUBSET Requests
    PROVE  IsFiniteSet(S) /\ Cardinality(S) \in Nat
BY SlotsAssumption, FS_Subset, FS_CardinalityType

(* There are never more members after a step that only removes some. *)
LEMMA FewerMembers ==
    ASSUME NEW S \in SUBSET Requests, NEW T \in SUBSET S
    PROVE  Cardinality(T) <= Cardinality(S)
BY MembersFinite, FS_Subset

LEMMA OneMember ==
    ASSUME NEW S \in SUBSET Requests, NEW r \in Requests
    PROVE  Cardinality(S \cup {r}) <= Cardinality(S) + 1
BY MembersFinite, FS_AddElement

LEMMA OneWaiterMore ==
    ASSUME NEW r \in Requests, TypeOK, ~counted[r], counted' = [counted EXCEPT ![r] = TRUE]
    PROVE  Cardinality(Queued)' = Cardinality(Queued) + 1 /\ Cardinality(Queued) \in Nat
<1>1. Queued' = Queued \cup {r} /\ r \notin Queued  BY DEF Queued, TypeOK
<1>2. Queued \in SUBSET Requests  BY DEF Queued
<1> QED BY <1>1, <1>2, MembersFinite, FS_AddElement

LEMMA OneWaiterLess ==
    ASSUME NEW r \in Requests, TypeOK, counted[r], counted' = [counted EXCEPT ![r] = FALSE]
    PROVE  /\ Cardinality(Queued)' = Cardinality(Queued) - 1
           /\ Cardinality(Queued) \in Nat /\ Cardinality(Queued)' \in Nat
<1>1. Queued' = Queued \ {r} /\ r \in Queued  BY DEF Queued, TypeOK
<1>2. Queued \in SUBSET Requests /\ Queued' \in SUBSET Requests  BY <1>1 DEF Queued
<1> QED BY <1>1, <1>2, MembersFinite, FS_RemoveElement

LEMMA SameWaiters ==
    ASSUME UNCHANGED counted
    PROVE  Queued' = Queued
BY DEF Queued

-----------------------------------------------------------------------------
USE SlotsAssumption
    DEF redis, handler, history, Works, Fails, At, Goto, Then, Background, Serves

(* The history variables are flags. *)
LEMMA FlagsStep ==
    ASSUME TypeOK, [Next]_vars PROVE low' \in BOOLEAN /\ high' \in BOOLEAN
<1>0. low \in BOOLEAN /\ high \in BOOLEAN  BY DEF TypeOK
<1>1. ASSUME UNCHANGED <<low, high>> PROVE low' \in BOOLEAN /\ high' \in BOOLEAN
  BY <1>0, <1>1
<1>2. ASSUME ForgetCount PROVE low' \in BOOLEAN /\ high' \in BOOLEAN
  BY <1>2, ZenonT(30) DEF ForgetCount
<1>3. ASSUME NEW r \in Requests, Join(r) PROVE low' \in BOOLEAN /\ high' \in BOOLEAN
  <2>1. high' = high /\ (low' = low \/ low' = TRUE)  BY <1>3, ZenonT(30) DEF Join
  <2> QED BY <1>0, <2>1, ZenonT(30)
<1>4. ASSUME NEW r \in Requests, Leave(r) PROVE low' \in BOOLEAN /\ high' \in BOOLEAN
  <2>1. low' = low /\ (high' = high \/ high' = TRUE)  BY <1>4, ZenonT(30) DEF Leave
  <2> QED BY <1>0, <2>1, ZenonT(30)
<1>5. ASSUME NEW i \in Instances, BootCount(i) PROVE low' \in BOOLEAN /\ high' \in BOOLEAN
  BY <1>1, <1>2, <1>5 DEF BootCount
<1>6. ASSUME NEW i \in Instances, Crash(i) PROVE low' \in BOOLEAN /\ high' \in BOOLEAN
  <2>1. low' = low /\ high' \in BOOLEAN  BY <1>6, ZenonT(30) DEF Crash
  <2> QED BY <1>0, <2>1
<1>7. ASSUME NEW r \in Requests,
             \/ Arrive(r) \/ Acquire(r) \/ Release(r) \/ GiveUp(r) \/ ReadLoad(r)
             \/ WriteIndex(r) \/ SlotLapses(r)
      PROVE  low' \in BOOLEAN /\ high' \in BOOLEAN
  BY <1>1, <1>7 DEF Arrive, Acquire, Release, GiveUp, ReadLoad, WriteIndex, SlotLapses
<1>8. ASSUME NEW i \in Instances,
             \/ Boot(i) \/ BootSlots(i) \/ BootIndex(i) \/ FindDue(i) \/ ReconcileLoad(i)
             \/ ReconcileIndex(i)
      PROVE  low' \in BOOLEAN /\ high' \in BOOLEAN
  BY <1>1, <1>8 DEF Boot, BootSlots, BootIndex, FindDue, ReconcileLoad, ReconcileIndex
<1>9. CASE IndexDue \/ UNCHANGED vars  BY <1>1, <1>9 DEF IndexDue, vars
<1>10. CASE CountLapses  BY <1>2, <1>10 DEF CountLapses
<1> QED BY <1>3, <1>4, <1>5, <1>6, <1>7, <1>8, <1>9, <1>10 DEF Next, Step, Clean

(* The rest of TypeOK. *)
DataOK ==
    /\ slots \subseteq Requests /\ waiting \in 0..MaxWaiting
    /\ index \in {"absent", "fresh", "due"}
    /\ pc \in [Requests -> {"new", "try", "queue", "wait", "leave", "run", "over"}]
    /\ idx \in [Requests -> {"none", "touch", "load", "drop", "keep"}]
    /\ has \in [Requests -> BOOLEAN] /\ counted \in [Requests -> BOOLEAN]
    /\ bg \in [Instances -> {"down", "slots", "count", "index", "idle", "load", "drop", "keep"}]
    /\ stripped \subseteq Requests /\ faults \in 0..MaxFaults

LEMMA DataStep ==
    ASSUME DataOK, [Next]_vars PROVE DataOK'
<1> USE DEF DataOK
<1>1. ASSUME NEW r \in Requests, Arrive(r) PROVE DataOK'
  BY <1>1 DEF Arrive
<1>2. ASSUME NEW r \in Requests, Step(r) PROVE DataOK'
  <2>1. CASE Acquire(r)
    <3>1. slots' \subseteq Requests  BY <2>1 DEF Acquire
    <3>2. pc' \in [Requests -> {"new", "try", "queue", "wait", "leave", "run", "over"}]
      BY <2>1 DEF Acquire
    <3>3. idx' \in [Requests -> {"none", "touch", "load", "drop", "keep"}]
      BY <2>1 DEF Acquire
    <3>4. has' \in [Requests -> BOOLEAN]  BY <2>1 DEF Acquire
    <3>5. faults' \in 0..MaxFaults  BY <2>1 DEF Acquire
    <3> QED BY <2>1, <3>1, <3>2, <3>3, <3>4, <3>5 DEF Acquire
  <2>2. CASE Release(r)  BY <2>2 DEF Release
  <2>3. CASE Join(r)
    <3>1. pc' \in [Requests -> {"new", "try", "queue", "wait", "leave", "run", "over"}]
      BY <2>3 DEF Join
    <3>2. idx' \in [Requests -> {"none", "touch", "load", "drop", "keep"}]
      BY <2>3 DEF Join
    <3>3. counted' \in [Requests -> BOOLEAN]  BY <2>3 DEF Join
    <3>4. waiting' \in 0..MaxWaiting /\ faults' \in 0..MaxFaults  BY <2>3 DEF Join
    <3> QED BY <2>3, <3>1, <3>2, <3>3, <3>4 DEF Join
  <2>4. CASE GiveUp(r)  BY <2>4 DEF GiveUp
  <2>5. CASE Leave(r)  BY <2>5 DEF Leave, Decremented
  <2>6. CASE ReadLoad(r)  BY <2>6 DEF ReadLoad, NoLoad
  <2>7. CASE WriteIndex(r)  BY <2>7 DEF WriteIndex, Write
  <2> QED BY <1>2, <2>1, <2>2, <2>3, <2>4, <2>5, <2>6, <2>7 DEF Step
<1>3. ASSUME NEW r \in Requests, SlotLapses(r) PROVE DataOK'
  BY <1>3 DEF SlotLapses
<1>4. ASSUME NEW i \in Instances, Clean(i) PROVE DataOK'
  <2>1. CASE Boot(i)  BY <2>1 DEF Boot
  <2>2. CASE BootSlots(i)  BY <2>2 DEF BootSlots
  <2>3. CASE BootCount(i)
    BY <2>3 DEF BootCount, ForgetCount
  <2>4. CASE BootIndex(i)  BY <2>4 DEF BootIndex
  <2>5. CASE FindDue(i)  BY <2>5 DEF FindDue
  <2>6. CASE ReconcileLoad(i)  BY <2>6 DEF ReconcileLoad, Conclude
  <2>7. CASE ReconcileIndex(i)  BY <2>7 DEF ReconcileIndex, Write
  <2> QED BY <1>4, <2>1, <2>2, <2>3, <2>4, <2>5, <2>6, <2>7 DEF Clean
<1>5. ASSUME NEW i \in Instances, Crash(i) PROVE DataOK'
  BY <1>5 DEF Crash
<1>6. CASE IndexDue  BY <1>6 DEF IndexDue
<1>7. CASE CountLapses  BY <1>7 DEF CountLapses, ForgetCount
<1>8. CASE UNCHANGED vars  BY <1>8 DEF vars
<1> QED BY <1>1, <1>2, <1>3, <1>4, <1>5, <1>6, <1>7, <1>8 DEF Next

LEMMA TypeStep ==
    ASSUME TypeOK, [Next]_vars PROVE TypeOK'
BY DataStep, FlagsStep DEF TypeOK, DataOK

LEMMA PhaseStep ==
    ASSUME TypeOK, PhaseInv, [Next]_vars PROVE PhaseInv'
<1> USE DEF TypeOK, PhaseInv
<1>1. ASSUME NEW r \in Requests, Arrive(r) PROVE PhaseInv'
  BY <1>1 DEF Arrive
<1>2. ASSUME NEW r \in Requests, Step(r) PROVE PhaseInv'
  <2>1. CASE Acquire(r)  BY <2>1 DEF Acquire
  <2>2. CASE Release(r)  BY <2>2 DEF Release
  <2>3. CASE Join(r)  BY <2>3 DEF Join
  <2>4. CASE GiveUp(r)  BY <2>4 DEF GiveUp
  <2>5. CASE Leave(r)  BY <2>5 DEF Leave
  <2>6. CASE ReadLoad(r)  BY <2>6 DEF ReadLoad
  <2>7. CASE WriteIndex(r)  BY <2>7 DEF WriteIndex
  <2> QED BY <1>2, <2>1, <2>2, <2>3, <2>4, <2>5, <2>6, <2>7 DEF Step
<1>3. ASSUME NEW i \in Instances, Crash(i) PROVE PhaseInv'
  BY <1>3 DEF Crash
<1>4. ASSUME UNCHANGED <<pc, has, counted>> PROVE PhaseInv'
  BY <1>4
<1>5. ASSUME NEW r \in Requests, SlotLapses(r) PROVE PhaseInv'
  BY <1>5, <1>4 DEF SlotLapses
<1>6. ASSUME NEW i \in Instances, Clean(i) PROVE PhaseInv'
  BY <1>6, <1>4 DEF Clean, Boot, BootSlots, BootCount, BootIndex, FindDue, ReconcileLoad,
                    ReconcileIndex
<1>7. CASE IndexDue \/ CountLapses \/ UNCHANGED vars
  BY <1>7, <1>4 DEF IndexDue, CountLapses, vars
<1> QED BY <1>1, <1>2, <1>3, <1>5, <1>6, <1>7 DEF Next

(* A member is removed by its own request, or recorded as stripped. *)
LEMMA SlotStep ==
    ASSUME TypeOK, PhaseInv, SlotInv, [Next]_vars PROVE SlotInv'
<1> DEFINE Held == \A r \in Requests : has[r] /\ r \notin stripped => r \in slots
<1>0. slots \in SUBSET Requests /\ Cardinality(slots) \in Nat /\ Held
  BY MembersFinite DEF TypeOK, SlotInv
<1>1. ASSUME slots' \in SUBSET slots, Held' PROVE SlotInv'
  <2>1. Cardinality(slots') <= Cardinality(slots) /\ Cardinality(slots') \in Nat
    BY <1>0, <1>1, FewerMembers, MembersFinite
  <2> QED BY <1>0, <1>1, <2>1 DEF SlotInv
<1>2. ASSUME UNCHANGED <<slots, has, stripped>> PROVE SlotInv'
  BY <1>2 DEF SlotInv
<1>3. ASSUME NEW r \in Requests, Acquire(r) PROVE SlotInv'
  <2>1. CASE slots' = slots \cup {r} /\ Room
    <3>1. Cardinality(slots') <= Limit
      <4>1. Cardinality(slots) + 1 <= Limit  BY <2>1, <1>0 DEF Room
      <4>2. Cardinality(slots \cup {r}) <= Cardinality(slots) + 1  BY <1>0, OneMember
      <4>3. Cardinality(slots \cup {r}) \in Nat  BY <1>0, MembersFinite
      <4> QED BY <1>0, <2>1, <4>1, <4>2, <4>3
    <3>2. Held'  BY <1>0, <1>3, <2>1 DEF Acquire, TypeOK
    <3> QED BY <3>1, <3>2 DEF SlotInv
  <2>2. CASE UNCHANGED <<slots, has>>
    BY <1>2, <1>3, <2>2 DEF Acquire
  <2> QED BY <1>3, <2>1, <2>2 DEF Acquire
<1>4. ASSUME NEW r \in Requests, Release(r) PROVE SlotInv'
  BY <1>0, <1>1, <1>4 DEF Release, TypeOK
<1>5. ASSUME NEW r \in Requests, SlotLapses(r) PROVE SlotInv'
  BY <1>0, <1>1, <1>5 DEF SlotLapses, TypeOK
<1>6. ASSUME NEW i \in Instances, BootSlots(i) PROVE SlotInv'
  BY <1>0, <1>1, <1>6 DEF BootSlots, TypeOK
<1>7. ASSUME NEW i \in Instances, Crash(i) PROVE SlotInv'
  BY <1>0, <1>1, <1>7 DEF Crash, TypeOK
<1>8. ASSUME NEW r \in Requests,
             Arrive(r) \/ Join(r) \/ GiveUp(r) \/ Leave(r) \/ ReadLoad(r) \/ WriteIndex(r)
      PROVE  SlotInv'
  BY <1>2, <1>8 DEF Arrive, Join, GiveUp, Leave, ReadLoad, WriteIndex
<1>9. ASSUME NEW i \in Instances,
             Boot(i) \/ BootCount(i) \/ BootIndex(i) \/ FindDue(i) \/ ReconcileLoad(i)
             \/ ReconcileIndex(i)
      PROVE  SlotInv'
  BY <1>2, <1>9 DEF Boot, BootCount, BootIndex, FindDue, ReconcileLoad, ReconcileIndex
<1>10. CASE IndexDue \/ CountLapses \/ UNCHANGED vars
  BY <1>2, <1>10 DEF IndexDue, CountLapses, vars
<1> QED BY <1>3, <1>4, <1>5, <1>6, <1>7, <1>8, <1>9, <1>10 DEF Next, Step, Clean

(* Who enters or leaves the queue moves the counter, or a history variable. *)
LEMMA CountStep ==
    ASSUME TypeOK, PhaseInv, QueueKept, NoPhantomWaiter, [Next]_vars
    PROVE  QueueKept' /\ NoPhantomWaiter'
<1> USE DEF QueueKept, NoPhantomWaiter
<1>0. waiting \in Nat /\ Cardinality(Queued) \in Nat
  <2>1. Queued \in SUBSET Requests  BY DEF Queued
  <2> QED BY <2>1, MembersFinite DEF TypeOK
<1>1. ASSUME UNCHANGED <<waiting, counted, low, high>> PROVE QueueKept' /\ NoPhantomWaiter'
  BY <1>1, SameWaiters
<1>2. ASSUME ForgetCount, UNCHANGED counted PROVE QueueKept' /\ NoPhantomWaiter'
  <2>1. Queued' = Queued  BY <1>2, SameWaiters
  <2>2. Queued = {} => Cardinality(Queued) = 0  BY FS_EmptySet
  <2>3. waiting' = 0 /\ (~low' => Queued = {})
    <3>1. waiting' = 0 /\ low' = (Queued # {})  BY <1>2 DEF ForgetCount
    <3> QED BY <3>1
  <2> QED BY <1>0, <2>1, <2>2, <2>3
<1>3. ASSUME NEW r \in Requests, Join(r) PROVE QueueKept' /\ NoPhantomWaiter'
  <2>1. CASE UNCHANGED <<waiting, counted, low, high>>
    BY <1>1, <2>1
  <2>2. CASE counted' = [counted EXCEPT ![r] = TRUE]
    <3>1. Cardinality(Queued)' = Cardinality(Queued) + 1
      BY <1>3, <2>2, OneWaiterMore DEF PhaseInv, Join
    <3>2. ~low' => ~low /\ waiting' = waiting + 1
      <4>1. \/ waiting' = waiting + 1 /\ low' = low
            \/ counted' = counted
            \/ low' = TRUE
        BY <1>3 DEF Join
      <4>2. counted' # counted
        <5>1. ~counted[r] /\ counted'[r] = TRUE  BY <1>3, <2>2 DEF PhaseInv, Join, TypeOK
        <5> QED BY <5>1
      <4> QED BY <4>1, <4>2
    <3>3. (~high' => ~high) /\ waiting' \in {waiting, waiting + 1}
      BY <1>3, <2>2 DEF Join
    <3>4. ~low' => Cardinality(Queued)' <= waiting'  BY <1>0, <3>1, <3>2
    <3>5. ~high' => waiting' <= Cardinality(Queued)'  BY <1>0, <3>1, <3>3
    <3> QED BY <3>4, <3>5
  <2> QED BY <1>3, <2>1, <2>2 DEF Join
<1>4. ASSUME NEW r \in Requests, Leave(r) PROVE QueueKept' /\ NoPhantomWaiter'
  <2>1. /\ Cardinality(Queued)' = Cardinality(Queued) - 1 /\ Cardinality(Queued)' \in Nat
    BY <1>4, OneWaiterLess DEF PhaseInv, Leave
  <2>2. (~low' => ~low) /\ waiting' \in {waiting, Decremented}
    BY <1>4 DEF Leave
  <2>3. ~high' => ~high /\ waiting' = Decremented
    <3>1. (waiting' = Decremented /\ high' = high) \/ high' = TRUE  BY <1>4 DEF Leave
    <3> QED BY <3>1
  <2>4. ~low' => Cardinality(Queued)' <= waiting'  BY <1>0, <2>1, <2>2 DEF Decremented
  <2>5. ~high' => waiting' <= Cardinality(Queued)'  BY <1>0, <2>1, <2>3 DEF Decremented
  <2> QED BY <2>4, <2>5
<1>5. ASSUME NEW i \in Instances, BootCount(i) PROVE QueueKept' /\ NoPhantomWaiter'
  BY <1>1, <1>2, <1>5 DEF BootCount
<1>6. CASE CountLapses
  BY <1>2, <1>6 DEF CountLapses
<1>7. ASSUME NEW i \in Instances, Crash(i) PROVE QueueKept' /\ NoPhantomWaiter'
  <2> DEFINE gone == {r \in Requests : Home[r] = i /\ pc[r] # "new"}
  <2>1. Queued' = Queued \ gone /\ low' = low /\ waiting' = waiting
        /\ high' = (high \/ \E r \in gone : counted[r])
    BY <1>7 DEF Crash, Queued, TypeOK
  <2>2. Queued' \in SUBSET Queued /\ Queued \in SUBSET Requests
    BY <2>1 DEF Queued
  <2>3. Cardinality(Queued') <= Cardinality(Queued) /\ Cardinality(Queued') \in Nat
    BY <2>2, FewerMembers, MembersFinite
  <2>4. ~high' => ~high /\ Queued' = Queued
    BY <2>1 DEF Queued
  <2> QED BY <1>0, <2>1, <2>3, <2>4
<1>8. ASSUME NEW r \in Requests,
             \/ Arrive(r) \/ Acquire(r) \/ Release(r) \/ GiveUp(r) \/ ReadLoad(r)
             \/ WriteIndex(r) \/ SlotLapses(r)
      PROVE  QueueKept' /\ NoPhantomWaiter'
  BY <1>1, <1>8 DEF Arrive, Acquire, Release, GiveUp, ReadLoad, WriteIndex, SlotLapses
<1>9. ASSUME NEW i \in Instances,
             \/ Boot(i) \/ BootSlots(i) \/ BootIndex(i) \/ FindDue(i) \/ ReconcileLoad(i)
             \/ ReconcileIndex(i)
      PROVE  QueueKept' /\ NoPhantomWaiter'
  BY <1>1, <1>9 DEF Boot, BootSlots, BootIndex, FindDue, ReconcileLoad, ReconcileIndex
<1>10. CASE IndexDue \/ UNCHANGED vars
  BY <1>1, <1>10 DEF IndexDue, vars
<1> QED BY <1>3, <1>4, <1>5, <1>6, <1>7, <1>8, <1>9, <1>10 DEF Next, Step, Clean

-----------------------------------------------------------------------------
(* The inductive invariant. *)
THEOREM SlotsInvariant == Spec => []IInv
<1>1. Init => IInv
  <2> SUFFICES ASSUME Init PROVE IInv
    OBVIOUS
  <2>1. Queued = {} /\ slots = {}  BY DEF Init, Queued
  <2>2. Cardinality({}) = 0  BY FS_EmptySet
  <2>3. DataOK /\ PhaseInv  BY DEF Init, DataOK, PhaseInv
  <2>6. low \in BOOLEAN /\ high \in BOOLEAN  BY ZenonT(30) DEF Init
  <2>4. SlotInv  BY <2>1, <2>2 DEF Init, SlotInv
  <2>5. QueueKept /\ NoPhantomWaiter  BY <2>1, <2>2 DEF Init, QueueKept, NoPhantomWaiter
  <2> QED BY <2>3, <2>4, <2>5, <2>6 DEF IInv, TypeOK, DataOK
<1>2. IInv /\ [Next]_vars => IInv'
  BY TypeStep, PhaseStep, SlotStep, CountStep DEF IInv
<1> QED BY <1>1, <1>2, PTL DEF Spec

(* Every variable keeps its type, and the counter stays within maxWait. *)
THEOREM SlotsTypeCorrect == Spec => []TypeOK
<1>1. IInv => TypeOK  BY DEF IInv
<1> QED BY <1>1, SlotsInvariant, PTL

(* No more requests than the limit run with a slot of their own, for any    *)
(* number of requests, processes and faults.                               *)
THEOREM LimitKeptThm == Spec => []LimitKept
<1>1. IInv => LimitKept
  <2> SUFFICES ASSUME IInv PROVE LimitKept
    OBVIOUS
  <2> DEFINE running == {r \in Requests : has[r]} \ stripped
  <2>1. slots \in SUBSET Requests /\ running \in SUBSET slots
    BY DEF IInv, TypeOK, SlotInv
  <2>2. Cardinality(running) <= Cardinality(slots) /\ Cardinality(running) \in Nat
        /\ Cardinality(slots) \in Nat
    BY <2>1, FewerMembers, MembersFinite
  <2> QED BY <2>2 DEF IInv, SlotInv, LimitKept
<1> QED BY <1>1, SlotsInvariant, PTL

(* The counter and the queue agree but for the recorded losses; so no more  *)
(* than MaxWaiting wait, unless one was let in uncounted or the counter    *)
(* was dropped under them.                                                 *)
THEOREM QueueKeptThm == Spec => [](QueueKept /\ (~low => Cardinality(Queued) <= MaxWaiting))
<1>1. IInv => QueueKept /\ (~low => Cardinality(Queued) <= MaxWaiting)
  <2> SUFFICES ASSUME IInv PROVE QueueKept /\ (~low => Cardinality(Queued) <= MaxWaiting)
    OBVIOUS
  <2>1. Queued \in SUBSET Requests  BY DEF Queued
  <2>2. Cardinality(Queued) \in Nat  BY <2>1, MembersFinite
  <2> QED BY <2>2 DEF IInv, TypeOK, QueueKept
<1> QED BY <1>1, SlotsInvariant, PTL

(* A request is refused for a full queue only when it is full of waiters,   *)
(* unless a waiting process died or a decrement was lost.                  *)
THEOREM NoPhantomWaiterThm == Spec => []NoPhantomWaiter
<1>1. IInv => NoPhantomWaiter  BY DEF IInv
<1> QED BY <1>1, SlotsInvariant, PTL
=============================================================================
