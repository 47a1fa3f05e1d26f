---------------------------- MODULE BatchImageQueue ----------------------------
(***************************************************************************)
(* The Redis structures batch image workers share: the ready list, the     *)
(* delayed and active sorted sets, the inflight keys that keep a job from  *)
(* being queued twice and the per-job locks.  Every operation is one       *)
(* script or one MULTI/EXEC.  Scores and TTLs are abstract: when a delay,  *)
(* a heartbeat or a lock runs out is said where the operations are used.   *)
(* Copies of one id in the ready list are one element.                     *)
(***************************************************************************)
EXTENDS BatchImage

CONSTANTS Workers, None

ASSUME NoneAssumption == None \notin Workers \cup Jobs

VARIABLES ready, delayed, active, inflight, lock

queueVars == <<ready, delayed, active, inflight, lock>>

QueueTypeOK ==
    /\ ready \subseteq Jobs /\ delayed \subseteq Jobs
    /\ active \subseteq Jobs /\ inflight \subseteq Jobs
    /\ lock \in [Jobs -> Workers \cup {None}]

QueueInit ==
    /\ ready = {} /\ delayed = {} /\ active = {} /\ inflight = {}
    /\ lock = [j \in Jobs |-> None]

Queued(j) == j \in ready \cup delayed \cup active

-----------------------------------------------------------------------------
(* ErrBatchImageAlreadyQueued is no error for any caller. *)
Enqueue(j) ==
    /\ ready' = IF j \in inflight THEN ready ELSE ready \cup {j}
    /\ inflight' = inflight \cup {j}
    /\ UNCHANGED <<delayed, active, lock>>

Reserve(j) ==
    /\ j \in ready /\ ready' = ready \ {j} /\ active' = active \cup {j}
    /\ UNCHANGED <<delayed, inflight, lock>>

RequeueAfter(j) ==
    /\ active' = active \ {j} /\ delayed' = delayed \cup {j}
    /\ UNCHANGED <<ready, inflight, lock>>

Ack(j) ==
    /\ active' = active \ {j} /\ delayed' = delayed \ {j}
    /\ inflight' = inflight \ {j} /\ UNCHANGED <<ready, lock>>

MoveDueDelayedToReady(j) ==
    /\ j \in delayed /\ delayed' = delayed \ {j} /\ ready' = ready \cup {j}
    /\ UNCHANGED <<active, inflight, lock>>

RecoverStaleActive(j) ==
    /\ j \in active /\ active' = active \ {j} /\ ready' = ready \cup {j}
    /\ UNCHANGED <<delayed, inflight, lock>>

TryAcquireJobLock(w, j) ==
    /\ lock[j] = None /\ lock' = [lock EXCEPT ![j] = w]
    /\ UNCHANGED <<ready, delayed, active, inflight>>

(* Deletes the key only while it holds this worker's token. *)
ReleaseJobLock(w, j) ==
    /\ lock' = IF lock[j] = w THEN [lock EXCEPT ![j] = None] ELSE lock
    /\ UNCHANGED <<ready, delayed, active, inflight>>

ExpireJobLock(j) ==
    /\ lock[j] # None /\ lock' = [lock EXCEPT ![j] = None]
    /\ UNCHANGED <<ready, delayed, active, inflight>>
=============================================================================
