------------------------- MODULE OAuthRefreshProofs -------------------------
(***************************************************************************)
(* Safety of OAuthRefresh for any workers, instances and bounds.  A pair   *)
(* that a worker is about to store is live and in nobody else's hands      *)
(* (HeldAlone), so that storing it leaves a live pair in the account; and  *)
(* the stored pair stays live as long as it is not the one refreshed.      *)
(* Without administrators and failed reads, whoever may still rotate a     *)
(* pair has the stored one, and only one worker has the next (StoreInv);   *)
(* so a pair that is refused while nobody has the next is dead, and stays  *)
(* so until an error is set for it (DeadInv).  Where the lock was never    *)
(* broken (Protected), nobody has.                                         *)
(***************************************************************************)
EXTENDS OAuthRefresh, TLAPS

(* The parts of TypeOK. *)
AccountTyped == row \in Row /\ due \subseteq Pairs /\ live \subseteq 0..issued /\ issued \in Pairs
                /\ platform \in Platforms
LocksTyped ==
    /\ lock \in Refreshers \cup {Nobody}
    /\ mutex \in [Instances -> Refreshers \cup {Nobody}]
    /\ held \in [Workers -> BOOLEAN]
    /\ faults \in 0..MaxFaults
LossTyped == lost \in BOOLEAN
ExcuseTyped == excuse \in {"none", "unlocked", "given"}
HandlerTyped ==
    /\ pc \in [Workers -> Steps] /\ new \in [Workers -> Pairs]
    /\ tries \in [Workers -> 0..MaxRetries] /\ result \in [Workers -> Results]
ReadTyped == acct \in [Workers -> Row] /\ fresh \in [Workers -> Copies]

Critical(w) == pc[w] \in {"reread", "call", "recover", "persist"}
Holds(w) == new[w] # 0 /\ pc[w] \in {"persist", "adminRead", "adminWrite"}
Clearing == \E a \in Admins : pc[a] = "adminClear"

(* What a worker may be at, and that an administrator reads what there is.  *)
RoleInv ==
    /\ \A a \in Admins :
           /\ fresh[a] \in Row /\ ~held[a]
           /\ pc[a] \in {"idle", "adminCall", "adminRead", "adminWrite", "adminClear"}
           /\ result[a] # "invalid"
           /\ pc[a] \in {"idle", "adminCall"} => new[a] = 0 /\ ~Reauthorizes(a)
    /\ \A w \in Refreshers :
           /\ pc[w] \notin {"adminCall", "adminRead", "adminWrite", "adminClear"}
           /\ pc[w] = "persist" => new[w] # 0
           /\ result[w] # "reauthorized"

(* A pair in a worker's hands is live, and nobody else has it. *)
IssuedInv ==
    /\ row.pair <= issued
    /\ \A w \in Workers :
           acct[w].pair <= issued /\ fresh[w].pair <= issued /\ new[w] <= issued
HeldAlone ==
    \A w \in Workers : Holds(w) =>
        /\ new[w] \in live /\ row.pair # new[w]
        /\ \A v \in Workers :
               /\ acct[v].pair # new[w] /\ fresh[v].pair # new[w]
               /\ v # w /\ Holds(v) => new[v] # new[w]
KeptInv == IssuedInv /\ HeldAlone /\ TokenKept

(* Unless there is an excuse, an administrator works alone. *)
Alone == \A a \in Admins, w \in Workers : Busy(a) /\ w # a => ~Busy(w)
(* Who can rotate a pair has the stored one; who has the next is the only   *)
(* one, and the stored one is spent.                                       *)
StoreInv ==
    \A w \in Refreshers :
        /\ pc[w] = "call" /\ fresh[w].pair \in live => fresh[w].pair = row.pair
        /\ pc[w] = "recover" => fresh[w].pair \notin live
        /\ pc[w] = "persist" =>
               row.pair \notin live /\ \A v \in Refreshers \ {w} : pc[v] # "persist"
        /\ result[w] # "denied"
        /\ result[w] = "invalid" => pc[w] \in {"release", "settle"}
(* With the lock one worker refreshes. *)
Protected ==
    \A w \in Refreshers : (Critical(w) => held[w]) /\ (held[w] => lock = w)

(* The pair that is refused, or that put the account in error, is dead and  *)
(* stays: nobody is storing another.                                       *)
Dead == row.pair \notin live /\ \A w \in Refreshers : pc[w] # "persist"
RefusedDead == \A w \in Refreshers : result[w] = "invalid" => Dead
ErrorDead == row.status = "error" /\ ~Clearing => Dead
AdminsDead ==
    \A a \in Admins :
        /\ pc[a] = "adminCall" => acct[a].pair = row.pair
        /\ pc[a] = "adminRead" /\ new[a] # 0 /\ ~Reauthorizes(a) => row.status = "active"
        /\ pc[a] = "adminWrite" =>
               /\ fresh[a].pair = row.pair /\ (fresh[a].status = "error" => Dead)
               /\ new[a] # 0 /\ ~Reauthorizes(a) => fresh[a].status = "active"
DeadInv == RefusedDead /\ ErrorDead /\ AdminsDead
CalmInv ==
    excuse # "given" => Alone /\ StoreInv /\ DeadInv /\ (excuse = "none" => Protected)

Inv == TypeOK /\ RoleInv /\ KeptInv /\ CalmInv

-----------------------------------------------------------------------------
(* What a copy of the row has, read or not. *)
LEMMA CopyFields ==
    /\ \A r \in Copies : r.pair \in Pairs /\ r.status \in {"active", "error", "unread"}
    /\ \A r \in Row : /\ r \in Copies /\ Unread(r) \in Copies
                      /\ Unread(r).pair = r.pair /\ Unread(r).status = "unread"
    /\ Blank \in Row /\ Blank.pair = 0 /\ Blank.status = "active"
    /\ \A r \in Row : r.pair \in Pairs /\ r.status \in {"active", "error"}
<1>1. Blank \in Row /\ Blank.pair = 0 /\ Blank.status = "active"
  BY BoundsAssumption DEF Row, Blank, Pairs
<1>2. ASSUME NEW r \in Row
      PROVE  /\ r.pair \in Pairs /\ r.status \in {"active", "error"} /\ r \in Copies
             /\ Unread(r) \in Copies /\ Unread(r).pair = r.pair /\ Unread(r).status = "unread"
  BY DEF Copies, Unread, Row
<1>3. ASSUME NEW r \in Copies
      PROVE  r.pair \in Pairs /\ r.status \in {"active", "error", "unread"}
  BY <1>2 DEF Copies
<1> QED BY <1>1, <1>2, <1>3

(* What an administrator's writes leave in the row. *)
LEMMA ClearedFields ==
    \A r \in Row : Cleared(r) \in Row /\ Cleared(r).pair = r.pair /\ Cleared(r).status = "active"
BY DEF Cleared, Row

LEMMA EditedFields ==
    ASSUME NEW r \in Row, NEW p \in Pairs, NEW s \in {"active", "error"}
    PROVE  Edited(r, p, s) \in Row /\ Edited(r, p, s).pair = p /\ Edited(r, p, s).status = s
BY DEF Edited, Row

LEMMA WriteBackFields ==
    ASSUME TypeOK, RoleInv, NEW a \in Admins, WriteBack(a)
    PROVE  /\ row' \in Row /\ row'.status = fresh[a].status
           /\ row'.pair = IF new[a] = 0 THEN fresh[a].pair ELSE new[a]
           /\ new[a] = 0 /\ fresh[a].pair # row.pair => lost'
           /\ new[a] = 0 /\ lost => lost'
<1>1. fresh[a].pair \in Pairs /\ new[a] \in Pairs /\ fresh[a].status \in {"active", "error"}
  BY CopyFields DEF TypeOK, RoleInv, Workers
<1>2. PICK p \in Pairs : p = (IF new[a] = 0 THEN fresh[a].pair ELSE new[a])  BY <1>1
<1>4. row' = Edited(row, p, fresh[a].status)  BY <1>2 DEF WriteBack, Pairs
<1>5. row' \in Row /\ row'.status = fresh[a].status /\ row'.pair = p
  <2>1. row \in Row  BY DEF TypeOK
  <2>2. /\ Edited(row, p, fresh[a].status) \in Row
        /\ Edited(row, p, fresh[a].status).pair = p
        /\ Edited(row, p, fresh[a].status).status = fresh[a].status
    <3> DEFINE st == fresh[a].status
    <3>1. st \in {"active", "error"} /\ p \in Pairs  BY <1>1
    <3> HIDE DEF st
    <3>2. /\ Edited(row, p, st) \in Row /\ Edited(row, p, st).pair = p
          /\ Edited(row, p, st).status = st
      BY <2>1, <3>1, EditedFields
    <3> QED BY <3>2 DEF st
  <2> QED BY <1>4, <2>2
<1>3. new[a] = 0 => lost' = (lost \/ fresh[a].pair # row.pair)  BY DEF WriteBack
<1> QED BY <1>2, <1>3, <1>5

LEMMA RotateTypes ==
    ASSUME TypeOK, NEW p, Rotate(p) \/ UNCHANGED provider
    PROVE  live' \subseteq 0..issued' /\ issued' \in Pairs /\ UNCHANGED platform
<1>1. issued \in Pairs /\ live \subseteq 0..issued /\ MaxPairs \in Nat
  BY BoundsAssumption DEF TypeOK
<1>2. CASE Rotate(p)  BY <1>1, <1>2 DEF Rotate, Pairs
<1>3. CASE UNCHANGED provider  BY <1>1, <1>3 DEF provider
<1> QED BY <1>2, <1>3

(* How the actions are put together; what is left is the action's own.      *)
USE WorkersAssumption, PlatformsAssumption, BoundsAssumption
    DEF Refreshers, Workers, provider, locks, read, history, Pairs, Works, Fails, ExcuseIf,
        Unlocked, Goto, Result, Busy, NeedsRefresh, Leave, End, Rotate, Settles, Account,
        Reauthorizes

(* Every variable keeps its type. *)
LEMMA TypesStep ==
    ASSUME TypeOK, RoleInv, [Next]_vars PROVE TypeOK'
<1> USE CopyFields
  DEF TypeOK, Results, Steps, RoleInv, AccountTyped, LocksTyped, LossTyped, ExcuseTyped,
      HandlerTyped, ReadTyped
<1>1. ASSUME NEW w \in Refreshers,
           Sweep(w) \/ Request(w) \/ LockMutex(w) \/ Acquire(w) \/ Reread(w)
           \/ Call(w) \/ Recover(w) \/ Persist(w) \/ Release(w) \/ Skip(w)
           \/ Refreshed(w) \/ SetError(w) \/ Retry(w) \/ Exhaust(w) \/ Proceed(w)
           \/ RefreshFails(w) \/ Answered(w) \/ Unauthorized(w)
      PROVE  TypeOK'
  <2>1. CASE Sweep(w)  BY <1>1, <2>1 DEF Sweep, Start
  <2>2. CASE Request(w)  BY <1>1, <2>2 DEF Request, Start
  <2>3. CASE LockMutex(w)  BY <1>1, <2>3 DEF LockMutex
  <2>4. CASE Acquire(w)
    <3>1. AccountTyped'  BY <1>1, <2>4 DEF Acquire
    <3>2. lock' \in Refreshers \cup {Nobody}  BY <1>1, <2>4 DEF Acquire
    <3>3. mutex' \in [Instances -> Refreshers \cup {Nobody}]  BY <1>1, <2>4 DEF Acquire
    <3>4. held' \in [Workers -> BOOLEAN]  BY <1>1, <2>4 DEF Acquire
    <3>5. faults' \in 0..MaxFaults  BY <1>1, <2>4 DEF Acquire
    <3>6. LossTyped'  BY <1>1, <2>4, Zenon DEF Acquire
    <3>9. ExcuseTyped'  BY <1>1, <2>4 DEF Acquire
    <3>7. HandlerTyped'  BY <1>1, <2>4 DEF Acquire
    <3>8. ReadTyped'  BY <1>1, <2>4 DEF Acquire
    <3> QED BY <3>1, <3>2, <3>3, <3>4, <3>5, <3>6, <3>7, <3>8, <3>9
  <2>5. CASE Reread(w)
    <3>1. AccountTyped'  BY <1>1, <2>5 DEF Reread
    <3>2. LocksTyped'  BY <1>1, <2>5 DEF Reread
    <3>3. LossTyped'  BY <1>1, <2>5, Zenon DEF Reread
    <3>6. ExcuseTyped'  BY <1>1, <2>5 DEF Reread
    <3>4. HandlerTyped'  BY <1>1, <2>5 DEF Reread
    <3>5. ReadTyped'  BY <1>1, <2>5 DEF Reread
    <3> QED BY <3>1, <3>2, <3>3, <3>4, <3>5, <3>6
  <2>6. CASE Call(w)
    <3>1. Rotate(fresh[w].pair) \/ UNCHANGED provider  BY <1>1, <2>6 DEF Call
    <3>2. UNCHANGED <<row, due>>  BY <1>1, <2>6 DEF Call
    <3>3. live' \subseteq 0..issued' /\ issued' \in Pairs /\ UNCHANGED platform
      BY <3>1, RotateTypes
    <3>4. AccountTyped'  BY <3>2, <3>3
    <3>5. LocksTyped'  BY <1>1, <2>6 DEF Call
    <3>6. LossTyped'  BY <1>1, <2>6, Zenon DEF Call
    <3>9. ExcuseTyped'  BY <1>1, <2>6 DEF Call
    <3>7. HandlerTyped'  BY <1>1, <2>6 DEF Call
    <3>8. ReadTyped'  BY <1>1, <2>6 DEF Call
    <3> QED BY <3>1, <3>2, <3>3, <3>4, <3>5, <3>6, <3>7, <3>8, <3>9
  <2>7. CASE Recover(w)
    <3>1. AccountTyped'  BY <1>1, <2>7 DEF Recover
    <3>2. LocksTyped'  BY <1>1, <2>7 DEF Recover
    <3>3. LossTyped'  BY <1>1, <2>7, Zenon DEF Recover
    <3>6. ExcuseTyped'  BY <1>1, <2>7 DEF Recover
    <3>4. HandlerTyped'  BY <1>1, <2>7 DEF Recover
    <3>5. ReadTyped'  BY <1>1, <2>7 DEF Recover
    <3> QED BY <3>1, <3>2, <3>3, <3>4, <3>5, <3>6
  <2>8. CASE Persist(w)
    <3>1. AccountTyped'  BY <1>1, <2>8 DEF Persist, Stored, Row
    <3>2. LocksTyped'  BY <1>1, <2>8 DEF Persist, Stored, Row
    <3>3. LossTyped'  BY <1>1, <2>8, Zenon DEF Persist, Stored, Row
    <3>6. ExcuseTyped'  BY <1>1, <2>8 DEF Persist, Stored, Row
    <3>4. HandlerTyped'  BY <1>1, <2>8 DEF Persist, Stored, Row
    <3>5. ReadTyped'  BY <1>1, <2>8 DEF Persist, Stored, Row
    <3> QED BY <3>1, <3>2, <3>3, <3>4, <3>5, <3>6
  <2>9. CASE Release(w)  BY <1>1, <2>9 DEF Release
  <2>10. CASE Skip(w)  BY <1>1, <2>10 DEF Skip
  <2>11. CASE Refreshed(w)  BY <1>1, <2>11 DEF Refreshed, Row
  <2>12. CASE SetError(w)  BY <1>1, <2>12 DEF SetError, Row
  <2>13. CASE Retry(w)  BY <1>1, <2>13 DEF Retry
  <2>14. CASE Exhaust(w)  BY <1>1, <2>14 DEF Exhaust, Row
  <2>15. CASE Proceed(w)
    <3>1. AccountTyped'  BY <1>1, <2>15 DEF Proceed
    <3>2. LocksTyped'  BY <1>1, <2>15 DEF Proceed
    <3>3. LossTyped'  BY <1>1, <2>15, Zenon DEF Proceed
    <3>6. ExcuseTyped'  BY <1>1, <2>15 DEF Proceed
    <3>4. HandlerTyped'  BY <1>1, <2>15 DEF Proceed
    <3>5. ReadTyped'  BY <1>1, <2>15 DEF Proceed
    <3> QED BY <3>1, <3>2, <3>3, <3>4, <3>5, <3>6
  <2>16. CASE Answered(w)  BY <1>1, <2>16 DEF Answered
  <2>17. CASE Unauthorized(w)  BY <1>1, <2>17 DEF Unauthorized, Row
  <2>18. CASE RefreshFails(w)  BY <1>1, <2>18 DEF RefreshFails, Row
  <2> QED BY <1>1, <2>1, <2>2, <2>3, <2>4, <2>5, <2>6, <2>7, <2>8, <2>9, <2>10, <2>11,
            <2>12, <2>13, <2>14, <2>15, <2>16, <2>17, <2>18
<1>2. ASSUME NEW a \in Admins,
           Refresh(a) \/ UpdateAccount(a) \/ ApplyOAuthCredentials(a)
           \/ ClearError(a) \/ AdminCall(a) \/ AdminRead(a) \/ AdminWrite(a)
           \/ AdminClear(a)
      PROVE  TypeOK'
  <2>1. CASE Refresh(a)  BY <1>2, <2>1 DEF Refresh, Begin
  <2>2. CASE UpdateAccount(a)  BY <1>2, <2>2 DEF UpdateAccount, Begin
  <2>3. CASE ApplyOAuthCredentials(a)  BY <1>2, <2>3 DEF ApplyOAuthCredentials, Begin
  <2>4. CASE ClearError(a)  BY <1>2, <2>4, ClearedFields DEF ClearError, Row
  <2>5. CASE AdminCall(a)
    <3>1. Rotate(acct[a].pair) \/ UNCHANGED provider  BY <1>2, <2>5 DEF AdminCall
    <3>2. UNCHANGED <<row, due>>  BY <1>2, <2>5 DEF AdminCall
    <3>3. live' \subseteq 0..issued' /\ issued' \in Pairs /\ UNCHANGED platform
      BY <3>1, RotateTypes
    <3>4. AccountTyped'  BY <3>2, <3>3
    <3>5. LocksTyped'  BY <1>2, <2>5 DEF AdminCall
    <3>6. LossTyped'  BY <1>2, <2>5, Zenon DEF AdminCall
    <3>9. ExcuseTyped'  BY <1>2, <2>5 DEF AdminCall
    <3>7. HandlerTyped'  BY <1>2, <2>5 DEF AdminCall
    <3>8. ReadTyped'  BY <1>2, <2>5 DEF AdminCall
    <3> QED BY <3>1, <3>2, <3>3, <3>4, <3>5, <3>6, <3>7, <3>8, <3>9
  <2>6. CASE AdminRead(a)
    <3>1. AccountTyped'  BY <1>2, <2>6 DEF AdminRead
    <3>2. LocksTyped'  BY <1>2, <2>6 DEF AdminRead
    <3>3. LossTyped'  BY <1>2, <2>6, Zenon DEF AdminRead
    <3>6. ExcuseTyped'  BY <1>2, <2>6 DEF AdminRead
    <3>4. HandlerTyped'  BY <1>2, <2>6 DEF AdminRead
    <3>5. ReadTyped'  BY <1>2, <2>6 DEF AdminRead
    <3> QED BY <3>1, <3>2, <3>3, <3>4, <3>5, <3>6
  <2>7. CASE AdminWrite(a)
    <3>1. AccountTyped'  BY <1>2, <2>7, WriteBackFields DEF AdminWrite
    <3>2. LocksTyped'  BY <1>2, <2>7, WriteBackFields DEF AdminWrite
    <3>3. LossTyped'  BY <1>2, <2>7, Zenon DEF AdminWrite, WriteBack
    <3>9. ExcuseTyped'  BY <1>2, <2>7 DEF AdminWrite, WriteBack
    <3>4. pc' \in [Workers -> Steps]  BY <1>2, <2>7, WriteBackFields DEF AdminWrite
    <3>5. new' \in [Workers -> Pairs]  BY <1>2, <2>7, WriteBackFields DEF AdminWrite
    <3>6. tries' \in [Workers -> 0..MaxRetries]
      BY <1>2, <2>7, WriteBackFields DEF AdminWrite
    <3>7. result' \in [Workers -> Results]  BY <1>2, <2>7, WriteBackFields DEF AdminWrite
    <3>8. ReadTyped'  BY <1>2, <2>7, WriteBackFields DEF AdminWrite
    <3> QED BY <3>1, <3>2, <3>3, <3>4, <3>5, <3>6, <3>7, <3>8, <3>9
  <2>8. CASE AdminClear(a)
    <3>1. AccountTyped'  BY <1>2, <2>8, ClearedFields DEF AdminClear
    <3>2. LocksTyped'  BY <1>2, <2>8, ClearedFields DEF AdminClear
    <3>3. LossTyped'  BY <1>2, <2>8, ClearedFields, Zenon DEF AdminClear
    <3>6. ExcuseTyped'  BY <1>2, <2>8, ClearedFields DEF AdminClear
    <3>4. HandlerTyped'  BY <1>2, <2>8, ClearedFields DEF AdminClear
    <3>5. ReadTyped'  BY <1>2, <2>8, ClearedFields DEF AdminClear
    <3> QED BY <3>1, <3>2, <3>3, <3>4, <3>5, <3>6
  <2> QED BY <1>2, <2>1, <2>2, <2>3, <2>4, <2>5, <2>6, <2>7, <2>8
<1>3. CASE Expire  BY <1>3 DEF Expire
<1>4. CASE TempLapses  BY <1>4 DEF TempLapses, Row
<1>5. CASE OrphanLapses  BY <1>5 DEF OrphanLapses
<1>6. CASE LockLapses  BY <1>6 DEF LockLapses
<1>7. ASSUME NEW i \in Instances, Crash(i) PROVE TypeOK'
  <2>1. AccountTyped'  BY <1>7 DEF Crash
  <2>2. lock' \in Refreshers \cup {Nobody}  BY <1>7 DEF Crash
  <2>3. mutex' \in [Instances -> Refreshers \cup {Nobody}]  BY <1>7 DEF Crash
  <2>4. held' \in [Workers -> BOOLEAN]  BY <1>7 DEF Crash
  <2>5. faults' \in 0..MaxFaults  BY <1>7 DEF Crash
  <2>6. LossTyped'  BY <1>7, Zenon DEF Crash
  <2>9. ExcuseTyped'  BY <1>7 DEF Crash
  <2>7. HandlerTyped'  BY <1>7 DEF Crash
  <2>8. ReadTyped'  BY <1>7 DEF Crash
  <2> QED BY <2>1, <2>2, <2>3, <2>4, <2>5, <2>6, <2>7, <2>8, <2>9
<1>8. CASE UNCHANGED vars  BY <1>8 DEF vars
<1> QED BY <1>1, <1>2, <1>3, <1>4, <1>5, <1>6, <1>7, <1>8
       DEF Next, RefreshStep, SettleStep, AdminStep

(* A worker keeps to its role. *)
LEMMA RoleStep ==
    ASSUME TypeOK, RoleInv, [Next]_vars PROVE RoleInv'
<1> USE CopyFields DEF TypeOK, RoleInv
<1>1. ASSUME NEW w \in Refreshers,
           Sweep(w) \/ Request(w) \/ LockMutex(w) \/ Acquire(w) \/ Reread(w)
           \/ Call(w) \/ Recover(w) \/ Persist(w) \/ Release(w) \/ Skip(w)
           \/ Refreshed(w) \/ SetError(w) \/ Retry(w) \/ Exhaust(w) \/ Proceed(w)
           \/ RefreshFails(w) \/ Answered(w) \/ Unauthorized(w)
      PROVE  RoleInv'
  <2>1. CASE Sweep(w)  BY <1>1, <2>1 DEF Sweep, Start
  <2>2. CASE Request(w)  BY <1>1, <2>2 DEF Request, Start
  <2>3. CASE LockMutex(w)  BY <1>1, <2>3 DEF LockMutex
  <2>4. CASE Acquire(w)  BY <1>1, <2>4 DEF Acquire
  <2>5. CASE Reread(w)  BY <1>1, <2>5 DEF Reread
  <2>6. CASE Call(w)  BY <1>1, <2>6 DEF Call
  <2>7. CASE Recover(w)  BY <1>1, <2>7 DEF Recover
  <2>8. CASE Persist(w)  BY <1>1, <2>8 DEF Persist, Stored, Row
  <2>9. CASE Release(w)  BY <1>1, <2>9 DEF Release
  <2>10. CASE Skip(w)  BY <1>1, <2>10 DEF Skip
  <2>11. CASE Refreshed(w)  BY <1>1, <2>11 DEF Refreshed, Row
  <2>12. CASE SetError(w)  BY <1>1, <2>12 DEF SetError, Row
  <2>13. CASE Retry(w)  BY <1>1, <2>13 DEF Retry
  <2>14. CASE Exhaust(w)  BY <1>1, <2>14 DEF Exhaust, Row
  <2>15. CASE Proceed(w)  BY <1>1, <2>15 DEF Proceed
  <2>16. CASE Answered(w)  BY <1>1, <2>16 DEF Answered
  <2>17. CASE Unauthorized(w)  BY <1>1, <2>17 DEF Unauthorized, Row
  <2>18. CASE RefreshFails(w)  BY <1>1, <2>18 DEF RefreshFails, Row
  <2> QED BY <1>1, <2>1, <2>2, <2>3, <2>4, <2>5, <2>6, <2>7, <2>8, <2>9, <2>10, <2>11,
            <2>12, <2>13, <2>14, <2>15, <2>16, <2>17, <2>18
<1>2. ASSUME NEW a \in Admins,
           Refresh(a) \/ UpdateAccount(a) \/ ApplyOAuthCredentials(a)
           \/ ClearError(a) \/ AdminCall(a) \/ AdminRead(a) \/ AdminWrite(a)
           \/ AdminClear(a)
      PROVE  RoleInv'
  <2>1. CASE Refresh(a)  BY <1>2, <2>1 DEF Refresh, Begin
  <2>2. CASE UpdateAccount(a)  BY <1>2, <2>2 DEF UpdateAccount, Begin
  <2>3. CASE ApplyOAuthCredentials(a)  BY <1>2, <2>3 DEF ApplyOAuthCredentials, Begin
  <2>4. CASE ClearError(a)  BY <1>2, <2>4, ClearedFields DEF ClearError, Row
  <2>5. CASE AdminCall(a)  BY <1>2, <2>5 DEF AdminCall
  <2>6. CASE AdminRead(a)  BY <1>2, <2>6 DEF AdminRead
  <2>7. CASE AdminWrite(a)  BY <1>2, <2>7, WriteBackFields DEF AdminWrite
  <2>8. CASE AdminClear(a)  BY <1>2, <2>8, ClearedFields DEF AdminClear
  <2> QED BY <1>2, <2>1, <2>2, <2>3, <2>4, <2>5, <2>6, <2>7, <2>8
<1>3. CASE Expire  BY <1>3 DEF Expire
<1>4. CASE TempLapses  BY <1>4 DEF TempLapses, Row
<1>5. CASE OrphanLapses  BY <1>5 DEF OrphanLapses
<1>6. CASE LockLapses  BY <1>6 DEF LockLapses
<1>7. ASSUME NEW i \in Instances, Crash(i) PROVE RoleInv'  BY <1>7 DEF Crash
<1>8. CASE UNCHANGED vars  BY <1>8 DEF vars
<1> QED BY <1>1, <1>2, <1>3, <1>4, <1>5, <1>6, <1>7, <1>8
       DEF Next, RefreshStep, SettleStep, AdminStep

(* No pair is in use before it is issued. *)
LEMMA IssuedStep ==
    ASSUME TypeOK, RoleInv, IssuedInv, [Next]_vars PROVE IssuedInv'
<1> USE CopyFields DEF TypeOK, IssuedInv
<1>1. ASSUME NEW w \in Refreshers,
           Sweep(w) \/ Request(w) \/ LockMutex(w) \/ Acquire(w) \/ Reread(w)
           \/ Call(w) \/ Recover(w) \/ Persist(w) \/ Release(w) \/ Skip(w)
           \/ Refreshed(w) \/ SetError(w) \/ Retry(w) \/ Exhaust(w) \/ Proceed(w)
           \/ RefreshFails(w) \/ Answered(w) \/ Unauthorized(w)
      PROVE  IssuedInv'
  <2>1. CASE Sweep(w)  BY <1>1, <2>1 DEF Sweep, Start
  <2>2. CASE Request(w)  BY <1>1, <2>2 DEF Request, Start
  <2>3. CASE LockMutex(w)  BY <1>1, <2>3 DEF LockMutex
  <2>4. CASE Acquire(w)  BY <1>1, <2>4 DEF Acquire
  <2>5. CASE Reread(w)  BY <1>1, <2>5 DEF Reread
  <2>6. CASE Call(w)  BY <1>1, <2>6 DEF Call
  <2>7. CASE Recover(w)  BY <1>1, <2>7 DEF Recover
  <2>8. CASE Persist(w)  BY <1>1, <2>8 DEF Persist, Stored, Row
  <2>9. CASE Release(w)  BY <1>1, <2>9 DEF Release
  <2>10. CASE Skip(w)  BY <1>1, <2>10 DEF Skip
  <2>11. CASE Refreshed(w)  BY <1>1, <2>11 DEF Refreshed, Row
  <2>12. CASE SetError(w)  BY <1>1, <2>12 DEF SetError, Row
  <2>13. CASE Retry(w)  BY <1>1, <2>13 DEF Retry
  <2>14. CASE Exhaust(w)  BY <1>1, <2>14 DEF Exhaust, Row
  <2>15. CASE Proceed(w)  BY <1>1, <2>15 DEF Proceed
  <2>16. CASE Answered(w)  BY <1>1, <2>16 DEF Answered
  <2>17. CASE Unauthorized(w)  BY <1>1, <2>17 DEF Unauthorized, Row
  <2>18. CASE RefreshFails(w)  BY <1>1, <2>18 DEF RefreshFails, Row
  <2> QED BY <1>1, <2>1, <2>2, <2>3, <2>4, <2>5, <2>6, <2>7, <2>8, <2>9, <2>10, <2>11,
            <2>12, <2>13, <2>14, <2>15, <2>16, <2>17, <2>18
<1>2. ASSUME NEW a \in Admins,
           Refresh(a) \/ UpdateAccount(a) \/ ApplyOAuthCredentials(a)
           \/ ClearError(a) \/ AdminCall(a) \/ AdminRead(a) \/ AdminWrite(a)
           \/ AdminClear(a)
      PROVE  IssuedInv'
  <2>1. CASE Refresh(a)  BY <1>2, <2>1 DEF Refresh, Begin
  <2>2. CASE UpdateAccount(a)  BY <1>2, <2>2 DEF UpdateAccount, Begin
  <2>3. CASE ApplyOAuthCredentials(a)  BY <1>2, <2>3 DEF ApplyOAuthCredentials, Begin
  <2>4. CASE ClearError(a)  BY <1>2, <2>4, ClearedFields DEF ClearError, Row
  <2>5. CASE AdminCall(a)  BY <1>2, <2>5 DEF AdminCall
  <2>6. CASE AdminRead(a)  BY <1>2, <2>6 DEF AdminRead
  <2>7. CASE AdminWrite(a)
    <3>1. UNCHANGED row \/ WriteBack(a)  BY <1>2, <2>7, WriteBackFields DEF AdminWrite
    <3>2. WriteBack(a) => row'.pair \in {fresh[a].pair, new[a]}  BY WriteBackFields
    <3>3. row'.pair <= issued  BY <3>1, <3>2
    <3> QED BY <1>2, <2>7, WriteBackFields, <3>1, <3>2, <3>3 DEF AdminWrite
  <2>8. CASE AdminClear(a)  BY <1>2, <2>8, ClearedFields DEF AdminClear
  <2> QED BY <1>2, <2>1, <2>2, <2>3, <2>4, <2>5, <2>6, <2>7, <2>8
<1>3. CASE Expire  BY <1>3 DEF Expire
<1>4. CASE TempLapses  BY <1>4 DEF TempLapses, Row
<1>5. CASE OrphanLapses  BY <1>5 DEF OrphanLapses
<1>6. CASE LockLapses  BY <1>6 DEF LockLapses
<1>7. ASSUME NEW i \in Instances, Crash(i) PROVE IssuedInv'  BY <1>7 DEF Crash
<1>8. CASE UNCHANGED vars  BY <1>8 DEF vars
<1> QED BY <1>1, <1>2, <1>3, <1>4, <1>5, <1>6, <1>7, <1>8
       DEF Next, RefreshStep, SettleStep, AdminStep

(* A pair about to be stored stays live and in one worker's hands. *)
LEMMA HeldStep ==
    ASSUME TypeOK, RoleInv, IssuedInv, HeldAlone, [Next]_vars PROVE HeldAlone'
<1> USE CopyFields DEF TypeOK, RoleInv, IssuedInv, HeldAlone, Holds
<1>1. ASSUME NEW w \in Refreshers,
           Sweep(w) \/ Request(w) \/ LockMutex(w) \/ Acquire(w) \/ Reread(w)
           \/ Call(w) \/ Recover(w) \/ Persist(w) \/ Release(w) \/ Skip(w)
           \/ Refreshed(w) \/ SetError(w) \/ Retry(w) \/ Exhaust(w) \/ Proceed(w)
           \/ RefreshFails(w) \/ Answered(w) \/ Unauthorized(w)
      PROVE  HeldAlone'
  <2>1. CASE Sweep(w)  BY <1>1, <2>1 DEF Sweep, Start
  <2>2. CASE Request(w)  BY <1>1, <2>2 DEF Request, Start
  <2>3. CASE LockMutex(w)  BY <1>1, <2>3 DEF LockMutex
  <2>4. CASE Acquire(w)  BY <1>1, <2>4 DEF Acquire
  <2>5. CASE Reread(w)  BY <1>1, <2>5 DEF Reread
  <2>6. CASE Call(w)  BY <1>1, <2>6 DEF Call
  <2>7. CASE Recover(w)  BY <1>1, <2>7 DEF Recover
  <2>8. CASE Persist(w)  BY <1>1, <2>8 DEF Persist, Stored, Row
  <2>9. CASE Release(w)  BY <1>1, <2>9 DEF Release
  <2>10. CASE Skip(w)  BY <1>1, <2>10 DEF Skip
  <2>11. CASE Refreshed(w)  BY <1>1, <2>11 DEF Refreshed, Row
  <2>12. CASE SetError(w)  BY <1>1, <2>12 DEF SetError, Row
  <2>13. CASE Retry(w)  BY <1>1, <2>13 DEF Retry
  <2>14. CASE Exhaust(w)  BY <1>1, <2>14 DEF Exhaust, Row
  <2>15. CASE Proceed(w)  BY <1>1, <2>15 DEF Proceed
  <2>16. CASE Answered(w)  BY <1>1, <2>16 DEF Answered
  <2>17. CASE Unauthorized(w)  BY <1>1, <2>17 DEF Unauthorized, Row
  <2>18. CASE RefreshFails(w)  BY <1>1, <2>18 DEF RefreshFails, Row
  <2> QED BY <1>1, <2>1, <2>2, <2>3, <2>4, <2>5, <2>6, <2>7, <2>8, <2>9, <2>10, <2>11,
            <2>12, <2>13, <2>14, <2>15, <2>16, <2>17, <2>18
<1>2. ASSUME NEW a \in Admins,
           Refresh(a) \/ UpdateAccount(a) \/ ApplyOAuthCredentials(a)
           \/ ClearError(a) \/ AdminCall(a) \/ AdminRead(a) \/ AdminWrite(a)
           \/ AdminClear(a)
      PROVE  HeldAlone'
  <2>1. CASE Refresh(a)  BY <1>2, <2>1 DEF Refresh, Begin
  <2>2. CASE UpdateAccount(a)  BY <1>2, <2>2 DEF UpdateAccount, Begin
  <2>3. CASE ApplyOAuthCredentials(a)  BY <1>2, <2>3 DEF ApplyOAuthCredentials, Begin
  <2>4. CASE ClearError(a)  BY <1>2, <2>4, ClearedFields DEF ClearError, Row
  <2>5. CASE AdminCall(a)  BY <1>2, <2>5 DEF AdminCall
  <2>6. CASE AdminRead(a)  BY <1>2, <2>6 DEF AdminRead
  <2>7. CASE AdminWrite(a)  BY <1>2, <2>7, WriteBackFields DEF AdminWrite
  <2>8. CASE AdminClear(a)  BY <1>2, <2>8, ClearedFields DEF AdminClear
  <2> QED BY <1>2, <2>1, <2>2, <2>3, <2>4, <2>5, <2>6, <2>7, <2>8
<1>3. CASE Expire  BY <1>3 DEF Expire
<1>4. CASE TempLapses  BY <1>4 DEF TempLapses, Row
<1>5. CASE OrphanLapses  BY <1>5 DEF OrphanLapses
<1>6. CASE LockLapses  BY <1>6 DEF LockLapses
<1>7. ASSUME NEW i \in Instances, Crash(i) PROVE HeldAlone'  BY <1>7 DEF Crash
<1>8. CASE UNCHANGED vars  BY <1>8 DEF vars
<1> QED BY <1>1, <1>2, <1>3, <1>4, <1>5, <1>6, <1>7, <1>8
       DEF Next, RefreshStep, SettleStep, AdminStep

(* The live pair is stored, or lost by a fault. *)
LEMMA KeptStep ==
    ASSUME TypeOK, RoleInv, KeptInv, [Next]_vars PROVE TokenKept'
<1> USE CopyFields
  DEF TypeOK, RoleInv, KeptInv, IssuedInv, HeldAlone, Holds, TokenKept, Owes
<1>1. ASSUME NEW w \in Refreshers,
           Sweep(w) \/ Request(w) \/ LockMutex(w) \/ Acquire(w) \/ Reread(w)
           \/ Call(w) \/ Recover(w) \/ Persist(w) \/ Release(w) \/ Skip(w)
           \/ Refreshed(w) \/ SetError(w) \/ Retry(w) \/ Exhaust(w) \/ Proceed(w)
           \/ RefreshFails(w) \/ Answered(w) \/ Unauthorized(w)
      PROVE  TokenKept'
  <2>1. CASE Sweep(w)  BY <1>1, <2>1 DEF Sweep, Start
  <2>2. CASE Request(w)  BY <1>1, <2>2 DEF Request, Start
  <2>3. CASE LockMutex(w)  BY <1>1, <2>3 DEF LockMutex
  <2>4. CASE Acquire(w)  BY <1>1, <2>4 DEF Acquire
  <2>5. CASE Reread(w)  BY <1>1, <2>5 DEF Reread
  <2>6. CASE Call(w)  BY <1>1, <2>6 DEF Call
  <2>7. CASE Recover(w)  BY <1>1, <2>7 DEF Recover
  <2>8. CASE Persist(w)
    <3>1. row' = row \/ row'.pair = new[w]  BY <1>1, <2>8 DEF Persist, Stored, Row
    <3> QED BY <1>1, <2>8, <3>1 DEF Persist, Stored, Row
  <2>9. CASE Release(w)  BY <1>1, <2>9 DEF Release
  <2>10. CASE Skip(w)  BY <1>1, <2>10 DEF Skip
  <2>11. CASE Refreshed(w)  BY <1>1, <2>11 DEF Refreshed, Row
  <2>12. CASE SetError(w)  BY <1>1, <2>12 DEF SetError, Row
  <2>13. CASE Retry(w)  BY <1>1, <2>13 DEF Retry
  <2>14. CASE Exhaust(w)  BY <1>1, <2>14 DEF Exhaust, Row
  <2>15. CASE Proceed(w)  BY <1>1, <2>15 DEF Proceed
  <2>16. CASE Answered(w)  BY <1>1, <2>16 DEF Answered
  <2>17. CASE Unauthorized(w)  BY <1>1, <2>17 DEF Unauthorized, Row
  <2>18. CASE RefreshFails(w)  BY <1>1, <2>18 DEF RefreshFails, Row
  <2> QED BY <1>1, <2>1, <2>2, <2>3, <2>4, <2>5, <2>6, <2>7, <2>8, <2>9, <2>10, <2>11,
            <2>12, <2>13, <2>14, <2>15, <2>16, <2>17, <2>18
<1>2. ASSUME NEW a \in Admins,
           Refresh(a) \/ UpdateAccount(a) \/ ApplyOAuthCredentials(a)
           \/ ClearError(a) \/ AdminCall(a) \/ AdminRead(a) \/ AdminWrite(a)
           \/ AdminClear(a)
      PROVE  TokenKept'
  <2>1. CASE Refresh(a)  BY <1>2, <2>1 DEF Refresh, Begin
  <2>2. CASE UpdateAccount(a)  BY <1>2, <2>2 DEF UpdateAccount, Begin
  <2>3. CASE ApplyOAuthCredentials(a)  BY <1>2, <2>3 DEF ApplyOAuthCredentials, Begin
  <2>4. CASE ClearError(a)  BY <1>2, <2>4, ClearedFields DEF ClearError, Row
  <2>5. CASE AdminCall(a)  BY <1>2, <2>5 DEF AdminCall
  <2>6. CASE AdminRead(a)  BY <1>2, <2>6 DEF AdminRead
  <2>7. CASE AdminWrite(a)
    <3>1. UNCHANGED <<live, issued>>  BY <1>2, <2>7, WriteBackFields DEF AdminWrite
    <3>2. \A w \in Workers \ {a} : Owes(w) => Owes(w)'
      BY <1>2, <2>7, WriteBackFields DEF AdminWrite
    <3>3. \/ UNCHANGED row /\ (lost \/ Owes(a) => lost')
          \/ WriteBack(a)
      BY <1>2, <2>7, WriteBackFields DEF AdminWrite
    <3> QED BY <1>2, <2>7, WriteBackFields, <3>1, <3>2, <3>3 DEF AdminWrite
  <2>8. CASE AdminClear(a)  BY <1>2, <2>8, ClearedFields DEF AdminClear
  <2> QED BY <1>2, <2>1, <2>2, <2>3, <2>4, <2>5, <2>6, <2>7, <2>8
<1>3. CASE Expire  BY <1>3 DEF Expire
<1>4. CASE TempLapses  BY <1>4 DEF TempLapses, Row
<1>5. CASE OrphanLapses  BY <1>5 DEF OrphanLapses
<1>6. CASE LockLapses  BY <1>6 DEF LockLapses
<1>7. ASSUME NEW i \in Instances, Crash(i) PROVE TokenKept'  BY <1>7 DEF Crash
<1>8. CASE UNCHANGED vars  BY <1>8 DEF vars
<1> QED BY <1>1, <1>2, <1>3, <1>4, <1>5, <1>6, <1>7, <1>8
       DEF Next, RefreshStep, SettleStep, AdminStep

(* Without an excuse, an administrator works alone. *)
LEMMA AloneStep ==
    ASSUME Inv, excuse' # "given", [Next]_vars PROVE Alone'
<1> USE CopyFields
  DEF Inv, TypeOK, RoleInv, CalmInv, Alone
<1>1. ASSUME NEW w \in Refreshers,
           Sweep(w) \/ Request(w) \/ LockMutex(w) \/ Acquire(w) \/ Reread(w)
           \/ Call(w) \/ Recover(w) \/ Persist(w) \/ Release(w) \/ Skip(w)
           \/ Refreshed(w) \/ SetError(w) \/ Retry(w) \/ Exhaust(w) \/ Proceed(w)
           \/ RefreshFails(w) \/ Answered(w) \/ Unauthorized(w)
      PROVE  Alone'
  <2>1. CASE Sweep(w)  BY <1>1, <2>1 DEF Sweep, Start
  <2>2. CASE Request(w)  BY <1>1, <2>2 DEF Request, Start
  <2>3. CASE LockMutex(w)  BY <1>1, <2>3 DEF LockMutex
  <2>4. CASE Acquire(w)  BY <1>1, <2>4 DEF Acquire
  <2>5. CASE Reread(w)  BY <1>1, <2>5 DEF Reread
  <2>6. CASE Call(w)  BY <1>1, <2>6 DEF Call
  <2>7. CASE Recover(w)  BY <1>1, <2>7 DEF Recover
  <2>8. CASE Persist(w)  BY <1>1, <2>8 DEF Persist, Stored, Row
  <2>9. CASE Release(w)  BY <1>1, <2>9 DEF Release
  <2>10. CASE Skip(w)  BY <1>1, <2>10 DEF Skip
  <2>11. CASE Refreshed(w)  BY <1>1, <2>11 DEF Refreshed, Row
  <2>12. CASE SetError(w)  BY <1>1, <2>12 DEF SetError, Row
  <2>13. CASE Retry(w)  BY <1>1, <2>13 DEF Retry
  <2>14. CASE Exhaust(w)  BY <1>1, <2>14 DEF Exhaust, Row
  <2>15. CASE Proceed(w)  BY <1>1, <2>15 DEF Proceed
  <2>16. CASE Answered(w)  BY <1>1, <2>16 DEF Answered
  <2>17. CASE Unauthorized(w)  BY <1>1, <2>17 DEF Unauthorized, Row
  <2>18. CASE RefreshFails(w)  BY <1>1, <2>18 DEF RefreshFails, Row
  <2> QED BY <1>1, <2>1, <2>2, <2>3, <2>4, <2>5, <2>6, <2>7, <2>8, <2>9, <2>10, <2>11,
            <2>12, <2>13, <2>14, <2>15, <2>16, <2>17, <2>18
<1>2. ASSUME NEW a \in Admins,
           Refresh(a) \/ UpdateAccount(a) \/ ApplyOAuthCredentials(a)
           \/ ClearError(a) \/ AdminCall(a) \/ AdminRead(a) \/ AdminWrite(a)
           \/ AdminClear(a)
      PROVE  Alone'
  <2>1. CASE Refresh(a)  BY <1>2, <2>1 DEF Refresh, Begin
  <2>2. CASE UpdateAccount(a)  BY <1>2, <2>2 DEF UpdateAccount, Begin
  <2>3. CASE ApplyOAuthCredentials(a)  BY <1>2, <2>3 DEF ApplyOAuthCredentials, Begin
  <2>4. CASE ClearError(a)  BY <1>2, <2>4, ClearedFields DEF ClearError, Row
  <2>5. CASE AdminCall(a)  BY <1>2, <2>5 DEF AdminCall
  <2>6. CASE AdminRead(a)  BY <1>2, <2>6 DEF AdminRead
  <2>7. CASE AdminWrite(a)  BY <1>2, <2>7, WriteBackFields DEF AdminWrite
  <2>8. CASE AdminClear(a)  BY <1>2, <2>8, ClearedFields DEF AdminClear
  <2> QED BY <1>2, <2>1, <2>2, <2>3, <2>4, <2>5, <2>6, <2>7, <2>8
<1>3. CASE Expire  BY <1>3 DEF Expire
<1>4. CASE TempLapses  BY <1>4 DEF TempLapses, Row
<1>5. CASE OrphanLapses  BY <1>5 DEF OrphanLapses
<1>6. CASE LockLapses  BY <1>6 DEF LockLapses
<1>7. ASSUME NEW i \in Instances, Crash(i) PROVE Alone'  BY <1>7 DEF Crash
<1>8. CASE UNCHANGED vars  BY <1>8 DEF vars
<1> QED BY <1>1, <1>2, <1>3, <1>4, <1>5, <1>6, <1>7, <1>8
       DEF Next, RefreshStep, SettleStep, AdminStep

(* Without an excuse, who can rotate a pair has the stored one. *)
LEMMA StoreStep ==
    ASSUME Inv, excuse' # "given", [Next]_vars PROVE StoreInv'
<1> USE CopyFields
  DEF Inv, TypeOK, RoleInv, KeptInv, IssuedInv, CalmInv, Alone, StoreInv
<1>1. ASSUME NEW w \in Refreshers,
           Sweep(w) \/ Request(w) \/ LockMutex(w) \/ Acquire(w) \/ Reread(w)
           \/ Call(w) \/ Recover(w) \/ Persist(w) \/ Release(w) \/ Skip(w)
           \/ Refreshed(w) \/ SetError(w) \/ Retry(w) \/ Exhaust(w) \/ Proceed(w)
           \/ RefreshFails(w) \/ Answered(w) \/ Unauthorized(w)
      PROVE  StoreInv'
  <2>1. CASE Sweep(w)  BY <1>1, <2>1 DEF Sweep, Start
  <2>2. CASE Request(w)  BY <1>1, <2>2 DEF Request, Start
  <2>3. CASE LockMutex(w)  BY <1>1, <2>3 DEF LockMutex
  <2>4. CASE Acquire(w)  BY <1>1, <2>4 DEF Acquire
  <2>5. CASE Reread(w)  BY <1>1, <2>5 DEF Reread
  <2>6. CASE Call(w)  BY <1>1, <2>6 DEF Call
  <2>7. CASE Recover(w)  BY <1>1, <2>7 DEF Recover
  <2>8. CASE Persist(w)  BY <1>1, <2>8 DEF Persist, Stored, Row
  <2>9. CASE Release(w)  BY <1>1, <2>9 DEF Release
  <2>10. CASE Skip(w)  BY <1>1, <2>10 DEF Skip
  <2>11. CASE Refreshed(w)  BY <1>1, <2>11 DEF Refreshed, Row
  <2>12. CASE SetError(w)  BY <1>1, <2>12 DEF SetError, Row
  <2>13. CASE Retry(w)  BY <1>1, <2>13 DEF Retry
  <2>14. CASE Exhaust(w)  BY <1>1, <2>14 DEF Exhaust, Row
  <2>15. CASE Proceed(w)  BY <1>1, <2>15 DEF Proceed
  <2>16. CASE Answered(w)  BY <1>1, <2>16 DEF Answered
  <2>17. CASE Unauthorized(w)  BY <1>1, <2>17 DEF Unauthorized, Row
  <2>18. CASE RefreshFails(w)  BY <1>1, <2>18 DEF RefreshFails, Row
  <2> QED BY <1>1, <2>1, <2>2, <2>3, <2>4, <2>5, <2>6, <2>7, <2>8, <2>9, <2>10, <2>11,
            <2>12, <2>13, <2>14, <2>15, <2>16, <2>17, <2>18
<1>2. ASSUME NEW a \in Admins,
           Refresh(a) \/ UpdateAccount(a) \/ ApplyOAuthCredentials(a)
           \/ ClearError(a) \/ AdminCall(a) \/ AdminRead(a) \/ AdminWrite(a)
           \/ AdminClear(a)
      PROVE  StoreInv'
  <2>1. CASE Refresh(a)  BY <1>2, <2>1 DEF Refresh, Begin
  <2>2. CASE UpdateAccount(a)  BY <1>2, <2>2 DEF UpdateAccount, Begin
  <2>3. CASE ApplyOAuthCredentials(a)  BY <1>2, <2>3 DEF ApplyOAuthCredentials, Begin
  <2>4. CASE ClearError(a)  BY <1>2, <2>4, ClearedFields DEF ClearError, Row
  <2>5. CASE AdminCall(a)  BY <1>2, <2>5 DEF AdminCall
  <2>6. CASE AdminRead(a)  BY <1>2, <2>6 DEF AdminRead
  <2>7. CASE AdminWrite(a)  BY <1>2, <2>7, WriteBackFields DEF AdminWrite
  <2>8. CASE AdminClear(a)  BY <1>2, <2>8, ClearedFields DEF AdminClear
  <2> QED BY <1>2, <2>1, <2>2, <2>3, <2>4, <2>5, <2>6, <2>7, <2>8
<1>3. CASE Expire  BY <1>3 DEF Expire
<1>4. CASE TempLapses  BY <1>4 DEF TempLapses, Row
<1>5. CASE OrphanLapses  BY <1>5 DEF OrphanLapses
<1>6. CASE LockLapses  BY <1>6 DEF LockLapses
<1>7. ASSUME NEW i \in Instances, Crash(i) PROVE StoreInv'  BY <1>7 DEF Crash
<1>8. CASE UNCHANGED vars  BY <1>8 DEF vars
<1> QED BY <1>1, <1>2, <1>3, <1>4, <1>5, <1>6, <1>7, <1>8
       DEF Next, RefreshStep, SettleStep, AdminStep

(* While the lock is not broken, one worker refreshes. *)
LEMMA ProtectedStep ==
    ASSUME Inv, excuse' = "none", [Next]_vars PROVE Protected'
<1> USE CopyFields
  DEF Inv, TypeOK, RoleInv, CalmInv, Protected, Critical
<1>1. ASSUME NEW w \in Refreshers,
           Sweep(w) \/ Request(w) \/ LockMutex(w) \/ Acquire(w) \/ Reread(w)
           \/ Call(w) \/ Recover(w) \/ Persist(w) \/ Release(w) \/ Skip(w)
           \/ Refreshed(w) \/ SetError(w) \/ Retry(w) \/ Exhaust(w) \/ Proceed(w)
           \/ RefreshFails(w) \/ Answered(w) \/ Unauthorized(w)
      PROVE  Protected'
  <2>1. CASE Sweep(w)  BY <1>1, <2>1 DEF Sweep, Start
  <2>2. CASE Request(w)  BY <1>1, <2>2 DEF Request, Start
  <2>3. CASE LockMutex(w)  BY <1>1, <2>3 DEF LockMutex
  <2>4. CASE Acquire(w)  BY <1>1, <2>4 DEF Acquire
  <2>5. CASE Reread(w)  BY <1>1, <2>5 DEF Reread
  <2>6. CASE Call(w)  BY <1>1, <2>6 DEF Call
  <2>7. CASE Recover(w)  BY <1>1, <2>7 DEF Recover
  <2>8. CASE Persist(w)  BY <1>1, <2>8 DEF Persist, Stored, Row
  <2>9. CASE Release(w)  BY <1>1, <2>9 DEF Release
  <2>10. CASE Skip(w)  BY <1>1, <2>10 DEF Skip
  <2>11. CASE Refreshed(w)  BY <1>1, <2>11 DEF Refreshed, Row
  <2>12. CASE SetError(w)  BY <1>1, <2>12 DEF SetError, Row
  <2>13. CASE Retry(w)  BY <1>1, <2>13 DEF Retry
  <2>14. CASE Exhaust(w)  BY <1>1, <2>14 DEF Exhaust, Row
  <2>15. CASE Proceed(w)  BY <1>1, <2>15 DEF Proceed
  <2>16. CASE Answered(w)  BY <1>1, <2>16 DEF Answered
  <2>17. CASE Unauthorized(w)  BY <1>1, <2>17 DEF Unauthorized, Row
  <2>18. CASE RefreshFails(w)  BY <1>1, <2>18 DEF RefreshFails, Row
  <2> QED BY <1>1, <2>1, <2>2, <2>3, <2>4, <2>5, <2>6, <2>7, <2>8, <2>9, <2>10, <2>11,
            <2>12, <2>13, <2>14, <2>15, <2>16, <2>17, <2>18
<1>2. ASSUME NEW a \in Admins,
           Refresh(a) \/ UpdateAccount(a) \/ ApplyOAuthCredentials(a)
           \/ ClearError(a) \/ AdminCall(a) \/ AdminRead(a) \/ AdminWrite(a)
           \/ AdminClear(a)
      PROVE  Protected'
  <2>1. CASE Refresh(a)  BY <1>2, <2>1 DEF Refresh, Begin
  <2>2. CASE UpdateAccount(a)  BY <1>2, <2>2 DEF UpdateAccount, Begin
  <2>3. CASE ApplyOAuthCredentials(a)  BY <1>2, <2>3 DEF ApplyOAuthCredentials, Begin
  <2>4. CASE ClearError(a)  BY <1>2, <2>4, ClearedFields DEF ClearError, Row
  <2>5. CASE AdminCall(a)  BY <1>2, <2>5 DEF AdminCall
  <2>6. CASE AdminRead(a)  BY <1>2, <2>6 DEF AdminRead
  <2>7. CASE AdminWrite(a)  BY <1>2, <2>7, WriteBackFields DEF AdminWrite
  <2>8. CASE AdminClear(a)  BY <1>2, <2>8, ClearedFields DEF AdminClear
  <2> QED BY <1>2, <2>1, <2>2, <2>3, <2>4, <2>5, <2>6, <2>7, <2>8
<1>3. CASE Expire  BY <1>3 DEF Expire
<1>4. CASE TempLapses  BY <1>4 DEF TempLapses, Row
<1>5. CASE OrphanLapses  BY <1>5 DEF OrphanLapses
<1>6. CASE LockLapses  BY <1>6 DEF LockLapses
<1>7. ASSUME NEW i \in Instances, Crash(i) PROVE Protected'  BY <1>7 DEF Crash
<1>8. CASE UNCHANGED vars  BY <1>8 DEF vars
<1> QED BY <1>1, <1>2, <1>3, <1>4, <1>5, <1>6, <1>7, <1>8
       DEF Next, RefreshStep, SettleStep, AdminStep

(* Without an excuse, a refused pair stays refused. *)
LEMMA DeadStep ==
    ASSUME Inv, excuse' # "given", [Next]_vars PROVE DeadInv'
<1> USE CopyFields
  DEF Inv, TypeOK, RoleInv, KeptInv, IssuedInv, CalmInv, Alone, StoreInv, Protected,
      Critical, DeadInv, RefusedDead, ErrorDead, AdminsDead, Dead, Clearing
<1>1. ASSUME NEW w \in Refreshers,
           Sweep(w) \/ Request(w) \/ LockMutex(w) \/ Acquire(w) \/ Reread(w)
           \/ Call(w) \/ Recover(w) \/ Persist(w) \/ Release(w) \/ Skip(w)
           \/ Refreshed(w) \/ SetError(w) \/ Retry(w) \/ Exhaust(w) \/ Proceed(w)
           \/ RefreshFails(w) \/ Answered(w) \/ Unauthorized(w)
      PROVE  DeadInv'
  <2>1. CASE Sweep(w)  BY <1>1, <2>1 DEF Sweep, Start
  <2>2. CASE Request(w)  BY <1>1, <2>2 DEF Request, Start
  <2>3. CASE LockMutex(w)  BY <1>1, <2>3 DEF LockMutex
  <2>4. CASE Acquire(w)  BY <1>1, <2>4 DEF Acquire
  <2>5. CASE Reread(w)  BY <1>1, <2>5 DEF Reread
  <2>6. CASE Call(w)
    <3>1. UNCHANGED row /\ \A a \in Admins : pc[a] \in {"idle", "use"} /\ UNCHANGED pc[a]
      BY <1>1, <2>6 DEF Call
    <3>2. excuse # "given" /\ \A v \in Refreshers : result'[v] = "invalid" => result[v] = "invalid"
      BY <1>1, <2>6 DEF Call
    <3>3. Dead => Dead'  BY <1>1, <2>6, <3>2 DEF Call
    <3> QED BY <3>1, <3>2, <3>3
  <2>7. CASE Recover(w)
    <3>1. UNCHANGED <<row, live>> /\ excuse # "given"  BY <1>1, <2>7 DEF Recover
    <3>2. /\ \A v \in Workers \ {w} : UNCHANGED <<pc[v], result[v]>>
          /\ pc[w] = "recover" /\ pc'[w] = "release"
      BY <1>1, <2>7 DEF Recover
    <3>3. Dead => Dead'  BY <3>1, <3>2
    <3>4. ASSUME result'[w] = "invalid" PROVE Dead
      <4>1. row.pair \notin live /\ ~TooEarly(w)
        BY <1>1, <2>7, <3>1, <3>4 DEF Recover
      <4>2. ASSUME NEW v \in Refreshers, pc[v] = "persist" PROVE FALSE
        <5>1. v # w /\ Owes(v)  BY <3>2, <4>2 DEF Owes
        <5>2. excuse = "none"  BY <4>1, <5>1 DEF TooEarly
        <5> QED BY <1>1, <3>1, <3>2, <4>2, <5>1, <5>2
      <4> QED BY <4>1, <4>2
    <3>5. \A a \in Admins : pc[a] = "idle" /\ pc'[a] = "idle"  BY <1>1, <3>1, <3>2
    <3>6. \A v \in Refreshers : result'[v] = "invalid" => Dead  BY <1>1, <3>1, <3>2, <3>4
    <3>7. row.status = "error" => Dead  BY <3>1, <3>5
    <3>8. RefusedDead'  BY <3>3, <3>6
    <3>9. ErrorDead'  BY <3>1, <3>3, <3>7
    <3>10. AdminsDead'  BY <3>5
    <3> HIDE DEF RefusedDead, ErrorDead, AdminsDead
    <3> QED BY <3>8, <3>9, <3>10
  <2>8. CASE Persist(w)  BY <1>1, <2>8 DEF Persist, Stored, Row
  <2>9. CASE Release(w)  BY <1>1, <2>9 DEF Release
  <2>10. CASE Skip(w)  BY <1>1, <2>10 DEF Skip
  <2>11. CASE Refreshed(w)
    <3>1. row'.pair = row.pair /\ row'.status = row.status  BY <1>1, <2>11 DEF Refreshed, Row
    <3>2. /\ excuse # "given" /\ UNCHANGED <<live, issued>>
          /\ \A v \in Workers \ {w} :
                 UNCHANGED <<pc[v], result[v], acct[v], fresh[v], new[v]>>
          /\ pc'[w] = "idle" /\ result'[w] = "none"
      BY <1>1, <2>11 DEF Refreshed
    <3>3. Dead => Dead'  BY <1>1, <3>1, <3>2
    <3>4. Clearing => Clearing'  BY <1>1, <3>2
    <3>5. RefusedDead'  BY <1>1, <3>2, <3>3
    <3>6. ErrorDead'  BY <3>1, <3>2, <3>3, <3>4
    <3>7. \A a \in Admins : UNCHANGED <<pc[a], result[a], acct[a], fresh[a], new[a]>>
      BY <1>1, <3>2
    <3>9. AdminsDead  BY <3>2
    <3> HIDE DEF Inv, CalmInv, Dead
    <3>8. AdminsDead'  BY <3>1, <3>3, <3>7, <3>9
    <3> HIDE DEF RefusedDead, ErrorDead, AdminsDead
    <3> QED BY <3>5, <3>6, <3>8
  <2>12. CASE SetError(w)  BY <1>1, <2>12 DEF SetError, Row
  <2>13. CASE Retry(w)  BY <1>1, <2>13 DEF Retry
  <2>14. CASE Exhaust(w)  BY <1>1, <2>14 DEF Exhaust, Row
  <2>15. CASE Proceed(w)  BY <1>1, <2>15 DEF Proceed
  <2>16. CASE Answered(w)  BY <1>1, <2>16 DEF Answered
  <2>17. CASE Unauthorized(w)
    <3>1. row'.pair = row.pair /\ row'.status = row.status  BY <1>1, <2>17 DEF Unauthorized, Row
    <3>2. /\ excuse # "given" /\ UNCHANGED <<live, issued>>
          /\ \A v \in Workers \ {w} :
                 UNCHANGED <<pc[v], result[v], acct[v], fresh[v], new[v]>>
          /\ pc'[w] = "idle" /\ result'[w] = "none"
      BY <1>1, <2>17 DEF Unauthorized
    <3>3. Dead => Dead'  BY <1>1, <3>1, <3>2
    <3>4. Clearing => Clearing'  BY <1>1, <3>2
    <3>5. RefusedDead'  BY <1>1, <3>2, <3>3
    <3>6. ErrorDead'  BY <3>1, <3>2, <3>3, <3>4
    <3>7. \A a \in Admins : UNCHANGED <<pc[a], result[a], acct[a], fresh[a], new[a]>>
      BY <1>1, <3>2
    <3>9. AdminsDead  BY <3>2
    <3> HIDE DEF Inv, CalmInv, Dead
    <3>8. AdminsDead'  BY <3>1, <3>3, <3>7, <3>9
    <3> HIDE DEF RefusedDead, ErrorDead, AdminsDead
    <3> QED BY <3>5, <3>6, <3>8
  <2>18. CASE RefreshFails(w)  BY <1>1, <2>18 DEF RefreshFails, Row
  <2> QED BY <1>1, <2>1, <2>2, <2>3, <2>4, <2>5, <2>6, <2>7, <2>8, <2>9, <2>10, <2>11,
            <2>12, <2>13, <2>14, <2>15, <2>16, <2>17, <2>18
<1>2. ASSUME NEW a \in Admins,
           Refresh(a) \/ UpdateAccount(a) \/ ApplyOAuthCredentials(a)
           \/ ClearError(a) \/ AdminCall(a) \/ AdminRead(a) \/ AdminWrite(a)
           \/ AdminClear(a)
      PROVE  DeadInv'
  <2>1. CASE Refresh(a)  BY <1>2, <2>1 DEF Refresh, Begin
  <2>2. CASE UpdateAccount(a)  BY <1>2, <2>2 DEF UpdateAccount, Begin
  <2>3. CASE ApplyOAuthCredentials(a)  BY <1>2, <2>3 DEF ApplyOAuthCredentials, Begin
  <2>4. CASE ClearError(a)  BY <1>2, <2>4, ClearedFields DEF ClearError, Row
  <2>5. CASE AdminCall(a)  BY <1>2, <2>5 DEF AdminCall
  <2>6. CASE AdminRead(a)  BY <1>2, <2>6 DEF AdminRead
  <2>7. CASE AdminWrite(a)
    <3>1. \A w \in Workers \ {a} : ~Busy(w) /\ pc'[w] = pc[w] /\ result'[w] = result[w]
      BY <1>2, <2>7, WriteBackFields DEF AdminWrite
    <3>7. excuse # "given"  BY <1>2, <2>7 DEF AdminWrite
    <3>2. \A w \in Refreshers : result'[w] # "invalid"  BY <1>2, <3>1, <3>7
    <3>3. \A v \in Admins : pc'[v] \notin {"adminCall", "adminRead", "adminWrite"}
      BY <1>2, <2>7, WriteBackFields DEF AdminWrite
    <3>4. UNCHANGED row \/ WriteBack(a)  BY <1>2, <2>7, WriteBackFields DEF AdminWrite
    <3>5. UNCHANGED row \/ ~Reauthorizes(a) \/ Goto(a, "adminClear")
      BY <1>2, <2>7, Zenon DEF AdminWrite
    <3>6. row'.status = "error" /\ ~Clearing' => Dead'
      BY <1>2, <2>7, WriteBackFields, <3>1, <3>4, <3>5 DEF AdminWrite
    <3> QED BY <3>1, <3>2, <3>3, <3>4, <3>5, <3>6 DEF DeadInv
  <2>8. CASE AdminClear(a)  BY <1>2, <2>8, ClearedFields DEF AdminClear
  <2> QED BY <1>2, <2>1, <2>2, <2>3, <2>4, <2>5, <2>6, <2>7, <2>8
<1>3. CASE Expire  BY <1>3 DEF Expire
<1>4. CASE TempLapses  BY <1>4 DEF TempLapses, Row
<1>5. CASE OrphanLapses  BY <1>5 DEF OrphanLapses
<1>6. CASE LockLapses  BY <1>6 DEF LockLapses
<1>7. ASSUME NEW i \in Instances, Crash(i) PROVE DeadInv'  BY <1>7 DEF Crash
<1>8. CASE UNCHANGED vars  BY <1>8 DEF vars
<1> QED BY <1>1, <1>2, <1>3, <1>4, <1>5, <1>6, <1>7, <1>8
       DEF Next, RefreshStep, SettleStep, AdminStep

LEMMA InitInv == ASSUME Init PROVE Inv
<1>1. TypeOK
  <2>1. AccountTyped  BY CopyFields DEF Init, AccountTyped
  <2>2. LocksTyped  BY DEF Init, LocksTyped
  <2>5. LossTyped  BY Zenon DEF Init, LossTyped
  <2>6. ExcuseTyped  BY DEF Init, ExcuseTyped
  <2>3. HandlerTyped  BY DEF Init, HandlerTyped, Results, Steps
  <2>4. ReadTyped  BY CopyFields DEF Init, ReadTyped
  <2> QED BY <2>1, <2>2, <2>3, <2>4, <2>5, <2>6
          DEF TypeOK, AccountTyped, LocksTyped, LossTyped, ExcuseTyped, HandlerTyped, ReadTyped
<1>2. RoleInv  BY CopyFields DEF Init, RoleInv
<1>3. KeptInv  BY CopyFields DEF Init, KeptInv, IssuedInv, HeldAlone, Holds, TokenKept
<1>4. CalmInv
  BY CopyFields
    DEF Init, CalmInv, Alone, StoreInv, Protected, DeadInv, RefusedDead, ErrorDead,
        AdminsDead, Dead, Critical, Clearing
<1> QED BY <1>1, <1>2, <1>3, <1>4 DEF Inv

LEMMA NextInv == ASSUME Inv, [Next]_vars PROVE Inv'
<1>1. TypeOK' /\ RoleInv'  BY TypesStep, RoleStep DEF Inv
<1>2. KeptInv'  BY IssuedStep, HeldStep, KeptStep DEF Inv, KeptInv
<1>3. CalmInv'  BY AloneStep, StoreStep, ProtectedStep, DeadStep DEF CalmInv
<1> QED BY <1>1, <1>2, <1>3 DEF Inv

LEMMA SpecInv == Spec => []Inv
BY InitInv, NextInv, PTL DEF Spec

-----------------------------------------------------------------------------
(* Every variable keeps its type: no attempt beyond the configured ones     *)
(* (token_refresh_service.go:273), no lock or mutex of an administrator.    *)
THEOREM TypeCorrect == Spec => []TypeOK
<1>1. Inv => TypeOK  BY DEF Inv
<1> QED BY <1>1, SpecInv, PTL

(* For any instances, requests and administrators: the refresh token the    *)
(* provider accepts is in the account or about to be stored, unless an      *)
(* answer, a write or a process is lost, or an edit writes back an older    *)
(* row (oauth_refresh_api.go:128-157).                                      *)
THEOREM TokenKeptThm == Spec => []TokenKept
<1>1. Inv => TokenKept  BY DEF Inv, KeptInv
<1> QED BY <1>1, SpecInv, PTL

(* For any number of instances that race for the token: losing the race     *)
(* does not put the account in error, whether the lock keeps the second     *)
(* refresher out or the recovery finds the successor, unless it looks too   *)
(* early or cannot read, an administrator interferes or the provider names  *)
(* another reason (oauth_refresh_api.go:131, token_refresh_service.go:312). *)
THEOREM RaceIsNoErrorThm == Spec => []RaceIsNoError
<1>1. Inv => RaceIsNoError
  BY DEF Inv, CalmInv, DeadInv, ErrorDead, Dead, Clearing, Disabled, RaceIsNoError
<1> QED BY <1>1, SpecInv, PTL
=============================================================================
