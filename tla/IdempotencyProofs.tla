--------------------------- MODULE IdempotencyProofs ---------------------------
(***************************************************************************)
(* Safety of Idempotency for any number of requests, payloads, durations   *)
(* and bounds.  PrintInv and BodyInv keep a row's response with the row's  *)
(* payload, whatever happens.  While the execution is calm, OwnInv makes   *)
(* the row say processing, and carry the owner's expiry, as long as a      *)
(* request owns it; StoredInv keeps the row of an executed request out of  *)
(* every other request's reach until it expires; so claims lie a TTL       *)
(* apart: ApartInv.                                                        *)
(***************************************************************************)
EXTENDS Idempotency, TLAPS

(* What a request that acts on a row by id knows of it. *)
PrintInv ==
    \A r \in Requests : pc[r] \in Owning \cup {"reclaimExpired", "reclaimFailed"} =>
        /\ recId[r] # 0 /\ recId[r] < nextId
        /\ rowId = recId[r] => rowPrint = print[r]

(* When a request is executed and what it is told. *)
PhaseInv ==
    \A r \in Requests :
        /\ r \in executed => pc[r] \in {"markOk", "done"}
        /\ pc[r] = "markOk" => r \in executed
        /\ pc[r] # "done" => answer[r] = "none"
        /\ answer[r] = "ok" => r \in executed

BodyInv ==
    /\ rowStatus = "succeeded" => rowBody # None
    /\ rowBody # None => rowBody \in executed /\ print[rowBody] = rowPrint

FreshInv == ~overrun => \A r \in Requests : pc[r] \in Active => clock < start[r] + TTL

Held(r) == rowId = recId[r] /\ rowExp = start[r] + TTL

OwnInv ==
    Calm => \A r \in Requests : pc[r] \in Owning => Held(r) /\ rowStatus = "processing"

StoredInv ==
    Calm => \A r \in executed : clock < start[r] + TTL =>
        /\ recId[r] # 0 /\ Held(r) /\ rowStatus \in {"processing", "succeeded"}
        /\ \A s \in Requests : pc[s] \in Owning => s = r
        /\ answer[r] = "ok" => rowStatus = "succeeded" /\ rowBody = r

ApartInv ==
    Calm => \A r \in executed, s \in Requests :
        r # s /\ (s \in executed \/ pc[s] \in Owning) => Apart(r, s)

DataInv == PrintInv /\ PhaseInv /\ BodyInv /\ ReplayIsReal
CalmInv == FreshInv /\ OwnInv /\ OneExecutor /\ StoredInv /\ ApartInv
IInv == TypeOK /\ DataInv /\ CalmInv
-----------------------------------------------------------------------------
(* A request that starts: its `now' is the clock, so its record is young. *)
LEMMA BeginStep ==
    ASSUME IInv, NEW r \in Requests, Begin(r)
    PROVE  DataInv' /\ CalmInv'
<1> USE DurationsAssumption, NoneAssumption
       DEF IInv, DataInv, CalmInv, TypeOK, RowTypeOK, CallTypeOK, DoneTypeOK, HistTypeOK,
           BoundTypeOK, Owning, Reading, Active, rowVars, callVars, doneVars, histVars,
           Begin, Goto
<1>1. PrintInv'
  BY DEF PrintInv
<1>2. PhaseInv'
  BY DEF PhaseInv
<1>3. BodyInv'
  BY DEF BodyInv, PhaseInv, PrintInv
<1>4. ReplayIsReal'
  BY DEF ReplayIsReal, BodyInv, PhaseInv
<1>5. FreshInv'
  BY DEF FreshInv
<1>6. OwnInv'
  BY DEF OwnInv, OneExecutor, FreshInv, Held, Calm, PrintInv, StoredInv
<1>7. OneExecutor'
  BY DEF OwnInv, OneExecutor, Held, Calm, PrintInv
<1>8. StoredInv'
  BY DEF StoredInv, OwnInv, OneExecutor, FreshInv, Held, Calm, PhaseInv, PrintInv
<1>9. ApartInv'
  BY DEF ApartInv, Apart, StoredInv, OneExecutor, Calm, Held, PhaseInv, FreshInv, PrintInv
<1> QED BY <1>1, <1>2, <1>3, <1>4, <1>5, <1>6, <1>7, <1>8, <1>9

(* A new claim: there is no row, so no owner and no unexpired success. *)
LEMMA CreateProcessingStep ==
    ASSUME IInv, NEW r \in Requests, CreateProcessing(r)
    PROVE  DataInv' /\ CalmInv'
<1> USE DurationsAssumption, NoneAssumption
       DEF IInv, DataInv, CalmInv, TypeOK, RowTypeOK, CallTypeOK, DoneTypeOK, HistTypeOK,
           BoundTypeOK, Owning, Reading, Active, rowVars, callVars, doneVars, histVars,
           CreateProcessing, InsertRow, Own, Goto, Refuse, Answer, Fault
<1>1. PrintInv'
  BY DEF PrintInv
<1>2. PhaseInv'
  BY DEF PhaseInv
<1>3. BodyInv'
  BY DEF BodyInv, PhaseInv, PrintInv
<1>4. ReplayIsReal'
  BY DEF ReplayIsReal, BodyInv, PhaseInv
<1>5. FreshInv'
  BY DEF FreshInv
<1>6. OwnInv'
  BY DEF OwnInv, OneExecutor, FreshInv, Held, Calm, PrintInv, StoredInv
<1>7. OneExecutor'
  BY DEF OwnInv, OneExecutor, Held, Calm, PrintInv
<1>8. StoredInv'
  BY DEF StoredInv, OwnInv, OneExecutor, FreshInv, Held, Calm, PhaseInv, PrintInv
<1>9. ApartInv'
  BY DEF ApartInv, Apart, StoredInv, OneExecutor, Calm, Held, PhaseInv, FreshInv, PrintInv
<1> QED BY <1>1, <1>2, <1>3, <1>4, <1>5, <1>6, <1>7, <1>8, <1>9

(* A request that has read the row: it leaves, replays it or goes for it. *)
LEMMA GetExistingStep ==
    ASSUME IInv, NEW r \in Requests, GetExisting(r)
    PROVE  DataInv' /\ CalmInv'
<1> USE DurationsAssumption, NoneAssumption
       DEF IInv, DataInv, CalmInv, TypeOK, RowTypeOK, CallTypeOK, DoneTypeOK, HistTypeOK,
           BoundTypeOK, Owning, Reading, Active, rowVars, callVars, doneVars, histVars,
           GetExisting, Unusable, SamePrint, Decide, Goto, Refuse, Answer, Fault
<1>1. PrintInv'
  BY DEF PrintInv
<1>2. PhaseInv'
  BY DEF PhaseInv
<1>3. BodyInv'
  BY DEF BodyInv, PhaseInv, PrintInv
<1>4. ReplayIsReal'
  BY DEF ReplayIsReal, BodyInv, PhaseInv
<1>5. FreshInv'
  BY DEF FreshInv
<1>6. OwnInv'
  BY DEF OwnInv, OneExecutor, FreshInv, Held, Calm, PrintInv, StoredInv
<1>7. OneExecutor'
  BY DEF OwnInv, OneExecutor, Held, Calm, PrintInv
<1>8. StoredInv'
  BY DEF StoredInv, OwnInv, OneExecutor, FreshInv, Held, Calm, PhaseInv, PrintInv
<1>9. ApartInv'
  BY DEF ApartInv, Apart, StoredInv, OneExecutor, Calm, Held, PhaseInv, FreshInv, PrintInv
<1> QED BY <1>1, <1>2, <1>3, <1>4, <1>5, <1>6, <1>7, <1>8, <1>9

(* A claim of a row read as expired ends the calm. *)
LEMMA TryReclaimExpiredStep ==
    ASSUME IInv, NEW r \in Requests, TryReclaimExpired(r)
    PROVE  DataInv' /\ CalmInv'
<1> USE DurationsAssumption, NoneAssumption
       DEF IInv, DataInv, CalmInv, TypeOK, RowTypeOK, CallTypeOK, DoneTypeOK, HistTypeOK,
           BoundTypeOK, Owning, Reading, Active, rowVars, callVars, doneVars, histVars,
           TryReclaimExpired, Reclaimable, ReclaimRow, Own, Goto, Refuse, Answer, Fault
<1>1. PrintInv'
  BY DEF PrintInv
<1>2. PhaseInv'
  BY DEF PhaseInv
<1>3. BodyInv'
  BY DEF BodyInv, PhaseInv, PrintInv
<1>4. ReplayIsReal'
  BY DEF ReplayIsReal, BodyInv, PhaseInv
<1>5. FreshInv'
  BY DEF FreshInv
<1>6. OwnInv'
  BY DEF OwnInv, OneExecutor, FreshInv, Held, Calm, PrintInv, StoredInv
<1>7. OneExecutor'
  BY DEF OwnInv, OneExecutor, Held, Calm, PrintInv
<1>8. StoredInv'
  BY DEF StoredInv, OwnInv, OneExecutor, FreshInv, Held, Calm, PhaseInv, PrintInv
<1>9. ApartInv'
  BY DEF ApartInv, Apart, StoredInv, OneExecutor, Calm, Held, PhaseInv, FreshInv, PrintInv
<1> QED BY <1>1, <1>2, <1>3, <1>4, <1>5, <1>6, <1>7, <1>8, <1>9

(* A request that lost the row it had read as expired reads it again. *)
LEMMA GetLatestStep ==
    ASSUME IInv, NEW r \in Requests, GetLatest(r)
    PROVE  DataInv' /\ CalmInv'
<1> USE DurationsAssumption, NoneAssumption
       DEF IInv, DataInv, CalmInv, TypeOK, RowTypeOK, CallTypeOK, DoneTypeOK, HistTypeOK,
           BoundTypeOK, Owning, Reading, Active, rowVars, callVars, doneVars, histVars,
           GetLatest, Unusable, SamePrint, Decide, Goto, Refuse, Answer, Fault
<1>1. PrintInv'
  BY DEF PrintInv
<1>2. PhaseInv'
  BY DEF PhaseInv
<1>3. BodyInv'
  BY DEF BodyInv, PhaseInv, PrintInv
<1>4. ReplayIsReal'
  BY DEF ReplayIsReal, BodyInv, PhaseInv
<1>5. FreshInv'
  BY DEF FreshInv
<1>6. OwnInv'
  BY DEF OwnInv, OneExecutor, FreshInv, Held, Calm, PrintInv, StoredInv
<1>7. OneExecutor'
  BY DEF OwnInv, OneExecutor, Held, Calm, PrintInv
<1>8. StoredInv'
  BY DEF StoredInv, OwnInv, OneExecutor, FreshInv, Held, Calm, PhaseInv, PrintInv
<1>9. ApartInv'
  BY DEF ApartInv, Apart, StoredInv, OneExecutor, Calm, Held, PhaseInv, FreshInv, PrintInv
<1> QED BY <1>1, <1>2, <1>3, <1>4, <1>5, <1>6, <1>7, <1>8, <1>9

(* A claim after a failure: the row says so, so nobody owns it. *)
LEMMA TryReclaimFailedStep ==
    ASSUME IInv, NEW r \in Requests, TryReclaimFailed(r)
    PROVE  DataInv' /\ CalmInv'
<1> USE DurationsAssumption, NoneAssumption
       DEF IInv, DataInv, CalmInv, TypeOK, RowTypeOK, CallTypeOK, DoneTypeOK, HistTypeOK,
           BoundTypeOK, Owning, Reading, Active, rowVars, callVars, doneVars, histVars,
           TryReclaimFailed, Reclaimable, ReclaimRow, Own, Goto, Refuse, Answer, Fault
<1>1. PrintInv'
  BY DEF PrintInv
<1>2. PhaseInv'
  BY DEF PhaseInv
<1>3. BodyInv'
  BY DEF BodyInv, PhaseInv, PrintInv
<1>4. ReplayIsReal'
  BY DEF ReplayIsReal, BodyInv, PhaseInv
<1>5. FreshInv'
  BY DEF FreshInv
<1>6. OwnInv'
  BY DEF OwnInv, OneExecutor, FreshInv, Held, Calm, PrintInv, StoredInv
<1>7. OneExecutor'
  BY DEF OwnInv, OneExecutor, Held, Calm, PrintInv
<1>8. StoredInv'
  BY DEF StoredInv, OwnInv, OneExecutor, FreshInv, Held, Calm, PhaseInv, PrintInv
<1>9. ApartInv'
  BY DEF ApartInv, Apart, StoredInv, OneExecutor, Calm, Held, PhaseInv, FreshInv, PrintInv
<1> QED BY <1>1, <1>2, <1>3, <1>4, <1>5, <1>6, <1>7, <1>8, <1>9

(* The owner executes; no other request owns the key. *)
LEMMA ExecuteStep ==
    ASSUME IInv, NEW r \in Requests, Execute(r)
    PROVE  DataInv' /\ CalmInv'
<1> USE DurationsAssumption, NoneAssumption
       DEF IInv, DataInv, CalmInv, TypeOK, RowTypeOK, CallTypeOK, DoneTypeOK, HistTypeOK,
           BoundTypeOK, Owning, Reading, Active, rowVars, callVars, doneVars, histVars,
           Execute, Goto
<1>1. PrintInv'
  BY DEF PrintInv
<1>2. PhaseInv'
  BY DEF PhaseInv
<1>3. BodyInv'
  BY DEF BodyInv, PhaseInv, PrintInv
<1>4. ReplayIsReal'
  BY DEF ReplayIsReal, BodyInv, PhaseInv
<1>5. FreshInv'
  BY DEF FreshInv
<1>6. OwnInv'
  BY DEF OwnInv, OneExecutor, FreshInv, Held, Calm, PrintInv, StoredInv
<1>7. OneExecutor'
  BY DEF OwnInv, OneExecutor, Held, Calm, PrintInv
<1>8. StoredInv'
  BY DEF StoredInv, OwnInv, OneExecutor, FreshInv, Held, Calm, PhaseInv, PrintInv
<1>9. ApartInv'
  BY DEF ApartInv, Apart, StoredInv, OneExecutor, Calm, Held, PhaseInv, FreshInv, PrintInv
<1> QED BY <1>1, <1>2, <1>3, <1>4, <1>5, <1>6, <1>7, <1>8, <1>9

(* The owner stores its response in its own row, if the row is still there. *)
LEMMA MarkSucceededStep ==
    ASSUME IInv, NEW r \in Requests, MarkSucceeded(r)
    PROVE  DataInv' /\ CalmInv'
<1> USE DurationsAssumption, NoneAssumption
       DEF IInv, DataInv, CalmInv, TypeOK, RowTypeOK, CallTypeOK, DoneTypeOK, HistTypeOK,
           BoundTypeOK, Owning, Reading, Active, rowVars, callVars, doneVars, histVars,
           MarkSucceeded, StoreSuccess, Answer, Goto, Fault
<1>1. PrintInv'
  BY DEF PrintInv
<1>2. PhaseInv'
  BY DEF PhaseInv
<1>3. BodyInv'
  BY DEF BodyInv, PhaseInv, PrintInv
<1>4. ReplayIsReal'
  BY DEF ReplayIsReal, BodyInv, PhaseInv
<1>5. FreshInv'
  BY DEF FreshInv
<1>6. OwnInv'
  BY DEF OwnInv, OneExecutor, FreshInv, Held, Calm, PrintInv, StoredInv
<1>7. OneExecutor'
  BY DEF OwnInv, OneExecutor, Held, Calm, PrintInv
<1>8. StoredInv'
  BY DEF StoredInv, OwnInv, OneExecutor, FreshInv, Held, Calm, PhaseInv, PrintInv
<1>9. ApartInv'
  BY DEF ApartInv, Apart, StoredInv, OneExecutor, Calm, Held, PhaseInv, FreshInv, PrintInv
<1> QED BY <1>1, <1>2, <1>3, <1>4, <1>5, <1>6, <1>7, <1>8, <1>9

(* The owner releases the row for a retry. *)
LEMMA MarkFailedRetryableStep ==
    ASSUME IInv, NEW r \in Requests, MarkFailedRetryable(r)
    PROVE  DataInv' /\ CalmInv'
<1> USE DurationsAssumption, NoneAssumption
       DEF IInv, DataInv, CalmInv, TypeOK, RowTypeOK, CallTypeOK, DoneTypeOK, HistTypeOK,
           BoundTypeOK, Owning, Reading, Active, rowVars, callVars, doneVars, histVars,
           MarkFailedRetryable, Answer, Goto, Fault
<1>1. PrintInv'
  BY DEF PrintInv
<1>2. PhaseInv'
  BY DEF PhaseInv
<1>3. BodyInv'
  BY DEF BodyInv, PhaseInv, PrintInv
<1>4. ReplayIsReal'
  BY DEF ReplayIsReal, BodyInv, PhaseInv
<1>5. FreshInv'
  BY DEF FreshInv
<1>6. OwnInv'
  BY DEF OwnInv, OneExecutor, FreshInv, Held, Calm, PrintInv, StoredInv
<1>7. OneExecutor'
  BY DEF OwnInv, OneExecutor, Held, Calm, PrintInv
<1>8. StoredInv'
  BY DEF StoredInv, OwnInv, OneExecutor, FreshInv, Held, Calm, PhaseInv, PrintInv
<1>9. ApartInv'
  BY DEF ApartInv, Apart, StoredInv, OneExecutor, Calm, Held, PhaseInv, FreshInv, PrintInv
<1> QED BY <1>1, <1>2, <1>3, <1>4, <1>5, <1>6, <1>7, <1>8, <1>9

(* A request that dies leaves the row as it is. *)
LEMMA CrashStep ==
    ASSUME IInv, NEW r \in Requests, Crash(r)
    PROVE  DataInv' /\ CalmInv'
<1> USE DurationsAssumption, NoneAssumption
       DEF IInv, DataInv, CalmInv, TypeOK, RowTypeOK, CallTypeOK, DoneTypeOK, HistTypeOK,
           BoundTypeOK, Owning, Reading, Active, rowVars, callVars, doneVars, histVars,
           Crash, Refuse, Answer, Goto, Fault
<1>1. PrintInv'
  BY DEF PrintInv
<1>2. PhaseInv'
  BY DEF PhaseInv
<1>3. BodyInv'
  BY DEF BodyInv, PhaseInv, PrintInv
<1>4. ReplayIsReal'
  BY DEF ReplayIsReal, BodyInv, PhaseInv
<1>5. FreshInv'
  BY DEF FreshInv
<1>6. OwnInv'
  BY DEF OwnInv, OneExecutor, FreshInv, Held, Calm, PrintInv, StoredInv
<1>7. OneExecutor'
  BY DEF OwnInv, OneExecutor, Held, Calm, PrintInv
<1>8. StoredInv'
  BY DEF StoredInv, OwnInv, OneExecutor, FreshInv, Held, Calm, PhaseInv, PrintInv
<1>9. ApartInv'
  BY DEF ApartInv, Apart, StoredInv, OneExecutor, Calm, Held, PhaseInv, FreshInv, PrintInv
<1> QED BY <1>1, <1>2, <1>3, <1>4, <1>5, <1>6, <1>7, <1>8, <1>9

(* Only an expired row is deleted: no calm owner has one. *)
LEMMA DeleteExpiredStep == ASSUME IInv, DeleteExpired PROVE DataInv' /\ CalmInv'
<1> USE DurationsAssumption, NoneAssumption
       DEF IInv, DataInv, CalmInv, TypeOK, RowTypeOK, CallTypeOK, DoneTypeOK, HistTypeOK,
           BoundTypeOK, Owning, Reading, Active, rowVars, callVars, doneVars, histVars, DeleteExpired
<1>1. PrintInv'
  BY DEF PrintInv
<1>2. PhaseInv'
  BY DEF PhaseInv
<1>3. BodyInv'
  BY DEF BodyInv, PhaseInv, PrintInv
<1>4. ReplayIsReal'
  BY DEF ReplayIsReal, BodyInv, PhaseInv
<1>5. FreshInv'
  BY DEF FreshInv
<1>6. OwnInv'
  BY DEF OwnInv, OneExecutor, FreshInv, Held, Calm, PrintInv, StoredInv
<1>7. OneExecutor'
  BY DEF OwnInv, OneExecutor, Held, Calm, PrintInv
<1>8. StoredInv'
  BY DEF StoredInv, OwnInv, OneExecutor, FreshInv, Held, Calm, PhaseInv, PrintInv
<1>9. ApartInv'
  BY DEF ApartInv, Apart, StoredInv, OneExecutor, Calm, Held, PhaseInv, FreshInv, PrintInv
<1> QED BY <1>1, <1>2, <1>3, <1>4, <1>5, <1>6, <1>7, <1>8, <1>9

(* Time passes; a request that outlives its record ends the calm. *)
LEMMA TickStep == ASSUME IInv, Tick PROVE DataInv' /\ CalmInv'
<1> USE DurationsAssumption, NoneAssumption
       DEF IInv, DataInv, CalmInv, TypeOK, RowTypeOK, CallTypeOK, DoneTypeOK, HistTypeOK,
           BoundTypeOK, Owning, Reading, Active, rowVars, callVars, doneVars, histVars, Tick
<1>1. PrintInv'
  BY DEF PrintInv
<1>2. PhaseInv'
  BY DEF PhaseInv
<1>3. BodyInv'
  BY DEF BodyInv, PhaseInv, PrintInv
<1>4. ReplayIsReal'
  BY DEF ReplayIsReal, BodyInv, PhaseInv
<1>5. FreshInv'
  <2>1. overrun' = (overrun \/ \E r \in Requests : pc[r] \in Active /\ clock' >= start[r] + TTL)
    BY Zenon DEF Tick
  <2>2. ~overrun' => \A r \in Requests : pc[r] \in Active => ~(clock' >= start[r] + TTL)
    BY <2>1, Zenon
  <2> QED BY <2>2 DEF FreshInv
<1>6. OwnInv'
  BY DEF OwnInv, OneExecutor, FreshInv, Held, Calm, PrintInv, StoredInv
<1>7. OneExecutor'
  BY DEF OwnInv, OneExecutor, Held, Calm, PrintInv
<1>8. StoredInv'
  BY DEF StoredInv, OwnInv, OneExecutor, FreshInv, Held, Calm, PhaseInv, PrintInv
<1>9. ApartInv'
  BY DEF ApartInv, Apart, StoredInv, OneExecutor, Calm, Held, PhaseInv, FreshInv, PrintInv
<1> QED BY <1>1, <1>2, <1>3, <1>4, <1>5, <1>6, <1>7, <1>8, <1>9

(* Stuttering. *)
LEMMA StutterStep == ASSUME IInv, UNCHANGED vars PROVE DataInv' /\ CalmInv'
<1> USE DurationsAssumption, NoneAssumption
       DEF IInv, DataInv, CalmInv, TypeOK, RowTypeOK, CallTypeOK, DoneTypeOK, HistTypeOK,
           BoundTypeOK, Owning, Reading, Active, rowVars, callVars, doneVars, histVars, vars
<1>1. PrintInv'
  BY DEF PrintInv
<1>2. PhaseInv'
  BY DEF PhaseInv
<1>3. BodyInv'
  BY DEF BodyInv, PhaseInv, PrintInv
<1>4. ReplayIsReal'
  BY DEF ReplayIsReal, BodyInv, PhaseInv
<1>5. FreshInv'
  BY DEF FreshInv
<1>6. OwnInv'
  BY DEF OwnInv, OneExecutor, FreshInv, Held, Calm, PrintInv, StoredInv
<1>7. OneExecutor'
  BY DEF OwnInv, OneExecutor, Held, Calm, PrintInv
<1>8. StoredInv'
  BY DEF StoredInv, OwnInv, OneExecutor, FreshInv, Held, Calm, PhaseInv, PrintInv
<1>9. ApartInv'
  BY DEF ApartInv, Apart, StoredInv, OneExecutor, Calm, Held, PhaseInv, FreshInv, PrintInv
<1> QED BY <1>1, <1>2, <1>3, <1>4, <1>5, <1>6, <1>7, <1>8, <1>9

-----------------------------------------------------------------------------
(* A request's own variables and the row stay within their types. *)
LEMMA CallTypes == ASSUME TypeOK, NEW r \in Requests, Call(r) PROVE TypeOK'
<1> USE DurationsAssumption, BoundsAssumption
    DEF TypeOK, Call, Owning, Reading, Active, Statuses, Answers,
        rowVars, callVars, doneVars, histVars, Begin, CreateProcessing, GetExisting,
        TryReclaimExpired, GetLatest, TryReclaimFailed, Execute, MarkSucceeded,
        MarkFailedRetryable, Crash, InsertRow, Own, ReclaimRow, StoreSuccess,
        Unusable, Decide, Refuse, Answer, Goto, Fault, Horizon
<1>1. RowTypeOK'
  BY SMTT(60) DEF RowTypeOK, CallTypeOK, DoneTypeOK, HistTypeOK, BoundTypeOK
<1>2. CallTypeOK'
  BY SMTT(60) DEF RowTypeOK, CallTypeOK, DoneTypeOK, HistTypeOK, BoundTypeOK
<1>3. DoneTypeOK'
  BY SMTT(60) DEF RowTypeOK, CallTypeOK, DoneTypeOK, HistTypeOK, BoundTypeOK
<1>4. HistTypeOK'
  <2> USE DEF RowTypeOK, CallTypeOK, DoneTypeOK, HistTypeOK, BoundTypeOK
  <2>1. began' \in [Requests -> 0..MaxClock]  BY SMTT(60)
  <2>2. executed' \subseteq Requests  BY SMTT(60)
  <2>3. staleClaim' \in BOOLEAN  BY ZenonT(30)
  <2>4. overrun' \in BOOLEAN  BY SMTT(60)
  <2> QED BY <2>1, <2>2, <2>3, <2>4
<1>5. BoundTypeOK'
  BY SMTT(60) DEF RowTypeOK, CallTypeOK, DoneTypeOK, HistTypeOK, BoundTypeOK
<1> QED BY <1>1, <1>2, <1>3, <1>4, <1>5

(* So do the cleanup's and the clock's. *)
LEMMA OtherTypes ==
    ASSUME TypeOK, DeleteExpired \/ Tick \/ UNCHANGED vars PROVE TypeOK'
<1> USE DurationsAssumption, BoundsAssumption
    DEF TypeOK, Statuses, rowVars, callVars, doneVars, histVars, vars
<1>1. RowTypeOK'
  BY DEF RowTypeOK, DeleteExpired, Tick, Horizon
<1>2. CallTypeOK' /\ DoneTypeOK'
  BY DEF CallTypeOK, DoneTypeOK, DeleteExpired, Tick
<1>3. HistTypeOK'
  <2>1. CASE Tick
    <3>1. overrun' \in BOOLEAN
      BY <2>1, Zenon DEF Tick
    <3> QED BY <2>1, <3>1 DEF HistTypeOK, Tick
  <2> QED BY <2>1 DEF HistTypeOK, DeleteExpired
<1>4. BoundTypeOK'
  BY DEF BoundTypeOK, DeleteExpired, Tick
<1> QED BY <1>1, <1>2, <1>3, <1>4

-----------------------------------------------------------------------------
(* Initially there is no row and no request. *)
LEMMA InitIInv == Init => IInv
<1> SUFFICES ASSUME Init PROVE IInv
  OBVIOUS
<1> USE DurationsAssumption, BoundsAssumption, NoneAssumption
    DEF Init, Owning, Reading, Active, Statuses, Answers
<1>1. RowTypeOK /\ BoundTypeOK
  BY DEF RowTypeOK, BoundTypeOK, Horizon
<1>2. CallTypeOK /\ DoneTypeOK /\ HistTypeOK
  <2>1. CallTypeOK
    BY DEF CallTypeOK
  <2>2. DoneTypeOK
    BY DEF DoneTypeOK
  <2>3. HistTypeOK
    <3>1. began \in [Requests -> 0..MaxClock]
      OBVIOUS
    <3>2. staleClaim \in BOOLEAN /\ overrun \in BOOLEAN /\ executed \subseteq Requests
      BY Zenon
    <3> QED BY <3>1, <3>2, Zenon DEF HistTypeOK
  <2> QED BY <2>1, <2>2, <2>3
<1>3. DataInv
  BY DEF DataInv, PrintInv, PhaseInv, BodyInv, ReplayIsReal
<1>4. CalmInv
  BY DEF CalmInv, FreshInv, OwnInv, OneExecutor, StoredInv, ApartInv
<1> QED BY <1>1, <1>2, <1>3, <1>4 DEF IInv, TypeOK

(* IInv is an inductive invariant of Execute's calls, the cleanup and time. *)
THEOREM IdempotencyInvariance == Spec => []IInv
<1>1. IInv /\ [Next]_vars => IInv'
  <2> SUFFICES ASSUME IInv, [Next]_vars PROVE IInv'
    OBVIOUS
  <2>1. ASSUME NEW r \in Requests, Call(r) PROVE IInv'
    <3>1. TypeOK'
      BY <2>1, CallTypes, Zenon DEF IInv
    <3> QED
      BY <2>1, <3>1, BeginStep, CreateProcessingStep, GetExistingStep, TryReclaimExpiredStep,
         GetLatestStep, TryReclaimFailedStep, ExecuteStep, MarkSucceededStep,
         MarkFailedRetryableStep, CrashStep, Zenon DEF Call, IInv
  <2>2. CASE DeleteExpired
    BY <2>2, OtherTypes, DeleteExpiredStep, Zenon DEF IInv
  <2>3. CASE Tick
    BY <2>3, OtherTypes, TickStep, Zenon DEF IInv
  <2>4. CASE UNCHANGED vars
    BY <2>4, OtherTypes, StutterStep, Zenon DEF IInv
  <2> QED BY <2>1, <2>2, <2>3, <2>4, Zenon DEF Next
<1> QED BY InitIInv, <1>1, PTL DEF Spec

(* The row, the requests and the history keep their types. *)
THEOREM IdempotencyTypeCorrect == Spec => []TypeOK
  BY IdempotencyInvariance, PTL DEF IInv

(* Whatever fails, a replayed response is one that a request with the same *)
(* payload was executed for.                                               *)
THEOREM ReplayIsRealThm == Spec => []ReplayIsReal
  BY IdempotencyInvariance, PTL DEF IInv, DataInv

(* Owners exclude each other as long as the execution is calm. *)
THEOREM OneExecutorThm == Spec => []OneExecutor
  BY IdempotencyInvariance, PTL DEF IInv, CalmInv

(* As long as no request reclaims a row it read as expired or outlives its *)
(* record, the operation runs at most once per TTL.                        *)
THEOREM OnceWhileCalmThm == Spec => []OnceWhileCalm
<1>1. IInv => OnceWhileCalm
  BY DEF IInv, TypeOK, HistTypeOK, CalmInv, ApartInv, OnceWhileCalm, OnceWithinTTL, Calm
<1> QED BY <1>1, IdempotencyInvariance, PTL

(* A success that was answered is what a retry finds until it expires. *)
THEOREM AnsweredIsStoredThm == Spec => []AnsweredIsStored
<1>1. IInv => AnsweredIsStored
  BY DEF IInv, DataInv, PhaseInv, CalmInv, StoredInv, AnsweredIsStored, Held
<1> QED BY <1>1, IdempotencyInvariance, PTL
=============================================================================
