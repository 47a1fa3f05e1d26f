------------------------------ MODULE OAuthRefresh ------------------------------
(***************************************************************************)
(* The credentials of one OAuth account whose provider rotates the refresh *)
(* token: every refresh spends the stored token and returns its successor. *)
(* The background service and the requests of several instances refresh    *)
(* through RefreshIfNeeded, under a mutex of the instance and a lock in    *)
(* Redis; an administrator refreshes, edits or reauthorizes the account    *)
(* without either.                                                         *)
(*                                                                         *)
(* A pair of tokens is its number in the order of issue.  Handlers are cut *)
(* at their calls; a failing call costs a fault and, if it writes, may     *)
(* have been applied.  The background service refreshes earlier before the *)
(* expiry than a request does: both windows are one, `due' is the set of   *)
(* pairs in it.  A provider refuses every spent token, and now and then,   *)
(* for a reason of its own, one that is not spent.  Platforms that keep    *)
(* the refresh token (Gemini, Antigravity) and accounts without one are    *)
(* left out, and so is the cache of access tokens: a hit only spares a     *)
(* request the refresh.                                                    *)
(***************************************************************************)
EXTENDS Integers, FiniteSets

CONSTANTS
    Background, \* TokenRefreshService, one per instance
    Requests,   \* gateway requests that need the account's token
    Admins,     \* administrators' requests
    Instances, Home, \* Home[w] is the process that runs w
    Nobody,     \* no owner
    Platforms,  \* the platforms the account may be of
    MaxRetries, \* cfg.MaxRetries
    MaxPairs,   \* bound: pairs issued
    MaxFaults   \* bound: failing calls, crashes, locks that lapse too early,
                \* refusals of a token that is not spent

Refreshers == Background \cup Requests
Workers == Refreshers \cup Admins

ASSUME WorkersAssumption ==
    /\ Background \cap Requests = {} /\ Refreshers \cap Admins = {}
    /\ Nobody \notin Workers
    /\ Home \in [Workers -> Instances]
ASSUME PlatformsAssumption == Platforms \subseteq {"anthropic", "openai", "grok"}
ASSUME BoundsAssumption ==
    /\ MaxRetries \in Nat \ {0} /\ MaxPairs \in Nat /\ MaxFaults \in Nat

VARIABLES
    row,     \* the account: pair of tokens, status, reason it may not be used
    due,     \* the pairs about to expire
    platform, \* the account's, never changed
    live,    \* the pairs whose refresh token the provider accepts
    issued,  \* the pair issued last
    lock,    \* the owner of the lock in Redis
    mutex,   \* per instance: who holds the mutex of the account
    pc,      \* per worker: its next call,
    acct,    \* the account object it was started with,
    fresh,   \* the account as it read it,
    new,     \* the pair it is about to store,
    held,    \* whether it acquired the lock,
    tries,   \* the attempt it is at,
    result,  \* what RefreshIfNeeded returns
    lost,      \* history: the live token went astray after it was last stored
    excuse,    \* history: what accounts for an error although the stored token
               \* is live.  "unlocked": a refresh went on without the lock;
               \* "given": a read failed, an administrator worked at the same
               \* time, the loser of a race looked before the winner stored,
               \* the refusal was not invalid_grant, or an access token was
               \* declared revoked
    faults

provider == <<platform, live, issued>>
history == <<lost, excuse>>
locks == <<lock, mutex>>
read  == <<acct, fresh, new>>
vars  == <<row, due, provider, locks, pc, read, held, tries, result, history, faults>>

Pairs == 0..MaxPairs
Row == [pair : Pairs, status : {"active", "error"},
        temp : {"none", "exhausted", "unauthorized"}]
Results == {"none", "refreshed", "skipped", "invalid", "denied", "failed",
            "reauthorized"}
Cleared(r) == [r EXCEPT !.status = "active", !.temp = "none"]
Edited(r, p, s) == [r EXCEPT !.pair = p, !.status = s]
(* An account that could not be read again is the caller's own object. *)
Unread(r) == [r EXCEPT !.status = "unread"]
Copies == Row \cup {Unread(r) : r \in Row}
Steps == {"idle", "mutex", "lock", "reread", "call", "recover", "persist", "release",
          "settle", "use", "adminCall", "adminRead", "adminWrite", "adminClear"}

TypeOK ==
    /\ row \in Row /\ due \subseteq Pairs /\ live \subseteq 0..issued /\ issued \in Pairs
    /\ lock \in Refreshers \cup {Nobody}
    /\ mutex \in [Instances -> Refreshers \cup {Nobody}]
    /\ pc \in [Workers -> Steps]
    /\ acct \in [Workers -> Row] /\ fresh \in [Workers -> Copies]
    /\ new \in [Workers -> Pairs] /\ held \in [Workers -> BOOLEAN]
    /\ tries \in [Workers -> 0..MaxRetries] /\ result \in [Workers -> Results]
    /\ platform \in Platforms /\ lost \in BOOLEAN /\ excuse \in {"none", "unlocked", "given"}
    /\ faults \in 0..MaxFaults

Blank == [pair |-> 0, status |-> "active", temp |-> "none"]
Init ==
    /\ row = Blank /\ due = {} /\ live = {0} /\ issued = 0
    /\ lock = Nobody /\ mutex = [i \in Instances |-> Nobody]
    /\ pc = [w \in Workers |-> "idle"]
    /\ acct = [w \in Workers |-> Blank] /\ fresh = [w \in Workers |-> Blank]
    /\ new = [w \in Workers |-> 0] /\ held = [w \in Workers |-> FALSE]
    /\ tries = [w \in Workers |-> 0] /\ result = [w \in Workers |-> "none"]
    /\ platform \in Platforms /\ lost = FALSE /\ excuse = "none" /\ faults = 0

-----------------------------------------------------------------------------
Works == UNCHANGED faults
Fails == faults < MaxFaults /\ faults' = faults + 1
ExcuseIf(b) == excuse' = IF b THEN "given" ELSE excuse
Unlocked == excuse' = IF excuse = "none" THEN "unlocked" ELSE excuse

Goto(w, s) == pc' = [pc EXCEPT ![w] = s]
Result(w, r) == result' = [result EXCEPT ![w] = r]
Busy(w) == pc[w] \notin {"idle", "use"}
NeedsRefresh(p) == p \in due

(* Of a handler that is over nothing is read again; of a request that goes  *)
(* on with its token, its account.                                         *)
Leave(w, s) ==
    /\ Goto(w, s) /\ Result(w, "none")
    /\ acct' = [acct EXCEPT ![w] = IF s = "use" THEN @ ELSE Blank]
    /\ fresh' = [fresh EXCEPT ![w] = Blank]
    /\ new' = [new EXCEPT ![w] = 0] /\ tries' = [tries EXCEPT ![w] = 0]
End(w) == Leave(w, "idle")

(* The provider exchanges a live token for its successor. *)
Rotate(p) ==
    /\ p \in live /\ issued < MaxPairs /\ UNCHANGED platform
    /\ issued' = issued + 1 /\ live' = (live \ {p}) \cup {issued + 1}

-----------------------------------------------------------------------------
(* RefreshIfNeeded *)

Start(w) ==
    /\ pc[w] = "idle" /\ row.status = "active"
    /\ acct' = [acct EXCEPT ![w] = row] /\ tries' = [tries EXCEPT ![w] = 1]
    /\ ExcuseIf(\E a \in Admins : Busy(a))
    /\ UNCHANGED <<row, due, provider, locks, fresh, new, held, result, lost, faults>>
(* Mutant: NOT (a AND b) is NULL, and excludes the accounts never marked. *)
SweepOfMarked(w) == w \in Background /\ platform # "grok" /\ row.temp = "unauthorized"
                    /\ NeedsRefresh(row.pair) /\ Start(w) /\ Goto(w, "mutex")
(* The periodic sweep of TokenRefreshService reaches the account; the query *)
(* of its candidates names the platforms, and Grok is not among them.      *)
Sweep(w) == w \in Background /\ platform # "grok" /\ row.temp # "exhausted"
            /\ NeedsRefresh(row.pair) /\ Start(w) /\ Goto(w, "mutex")
(* The scheduler selects the account for a request. *)
Request(w) == w \in Requests /\ row.temp = "none" /\ Start(w)
              /\ Goto(w, IF NeedsRefresh(row.pair) THEN "mutex" ELSE "use")

LockMutex(w) ==
    /\ pc[w] = "mutex" /\ mutex[Home[w]] = Nobody
    /\ mutex' = [mutex EXCEPT ![Home[w]] = w] /\ Goto(w, "lock")
    /\ UNCHANGED <<row, due, provider, lock, read, held, tries, result, history, faults>>

(* AcquireRefreshLock; without Redis the refresh goes on unprotected. *)
Acquire(w) ==
    /\ pc[w] = "lock"
    /\ \/ /\ lock = Nobody /\ lock' = w /\ held' = [held EXCEPT ![w] = TRUE]
          /\ Goto(w, "reread") /\ Works /\ UNCHANGED <<result, excuse>>
       \/ /\ lock # Nobody /\ Result(w, "skipped") /\ Goto(w, "release")
          /\ Works /\ UNCHANGED <<lock, held, excuse>>
       \/ /\ Fails /\ Goto(w, "reread") /\ Unlocked
          /\ UNCHANGED <<lock, held, result>>
    /\ UNCHANGED <<row, due, provider, mutex, read, tries, lost>>

(* The account in the database, or the caller's when it cannot be read. *)
Reread(w) ==
    /\ pc[w] = "reread"
    /\ \/ fresh' = [fresh EXCEPT ![w] = row] /\ Works /\ UNCHANGED excuse
       \/ /\ fresh' = [fresh EXCEPT ![w] = Unread(acct[w])]
          /\ Fails /\ ExcuseIf(TRUE)
    /\ IF NeedsRefresh(fresh'[w].pair)
       THEN Goto(w, "call") /\ UNCHANGED result
       ELSE Goto(w, "release") /\ Result(w, "skipped")
    /\ UNCHANGED <<row, due, provider, locks, acct, new, held, tries, lost>>

(* executor.Refresh: an answer may get lost, before or after the rotation.  *)
(* Only a refusal that says invalid_grant is looked into; others that are   *)
(* not retried (isNonRetryableRefreshError) name the client, the access, or *)
(* a token already used.                                                    *)
Call(w) ==
    /\ pc[w] = "call"
    /\ \/ /\ Rotate(fresh[w].pair) /\ new' = [new EXCEPT ![w] = issued + 1]
          /\ Goto(w, "persist") /\ Works /\ UNCHANGED <<result, lost, excuse>>
       \/ /\ fresh[w].pair \notin live /\ Goto(w, "recover")
          /\ Works /\ UNCHANGED <<provider, new, result, lost, excuse>>
       \/ /\ Result(w, "denied") /\ Goto(w, "release") /\ ExcuseIf(TRUE)
          /\ IF fresh[w].pair \in live THEN Fails ELSE Works
          /\ UNCHANGED <<provider, new, lost>>
       \/ /\ Rotate(fresh[w].pair) /\ lost' = TRUE
          /\ Result(w, "failed") /\ Goto(w, "release") /\ Fails /\ UNCHANGED <<new, excuse>>
       \/ /\ Result(w, "failed") /\ Goto(w, "release") /\ Fails
          /\ UNCHANGED <<provider, new, lost, excuse>>
    /\ UNCHANGED <<row, due, locks, acct, fresh, held, tries>>

(* Only this worker knows the token the provider accepts. *)
Reauthorizes(w) == result[w] = "reauthorized"
Owes(w) == new[w] # 0 /\ ~Reauthorizes(w)
           /\ pc[w] \in {"persist", "adminRead", "adminWrite"}

(* The winner of a race for the token may not have stored the next one yet. *)
TooEarly(w) == excuse # "none" /\ \E v \in Workers \ {w} : Owes(v)
(* Mutant: a refused token is an error, without a look at the account. *)
RecoverNever(w) ==
    /\ pc[w] = "recover" /\ Goto(w, "release") /\ Result(w, "invalid") /\ ExcuseIf(TooEarly(w))
    /\ UNCHANGED <<row, due, provider, locks, read, held, tries, lost, faults>>
(* tryRecoverFromRefreshRace: the token was spent, but is another one stored? *)
Recover(w) ==
    /\ pc[w] = "recover" /\ Goto(w, "release")
    /\ \/ /\ row.pair # fresh[w].pair /\ Result(w, "skipped") /\ Works /\ UNCHANGED excuse
       \/ /\ row.pair = fresh[w].pair /\ Result(w, "invalid") /\ Works /\ ExcuseIf(TooEarly(w))
       \/ Result(w, "invalid") /\ Fails /\ ExcuseIf(TRUE)
    /\ UNCHANGED <<row, due, provider, locks, read, held, tries, lost>>

(* persistAccountCredentials: the account object has the new pair even if   *)
(* the write fails.                                                        *)
Stored(w) == row' = [row EXCEPT !.pair = new[w]] /\ lost' = FALSE
Persist(w) ==
    /\ pc[w] = "persist" /\ Goto(w, "release")
    /\ \/ Stored(w) /\ Result(w, "refreshed") /\ Works
       \/ Stored(w) /\ Result(w, "failed") /\ Fails
       \/ UNCHANGED row /\ lost' = TRUE /\ Result(w, "failed") /\ Fails
    /\ acct' = [acct EXCEPT ![w].pair = IF fresh[w].status = "unread" THEN new[w] ELSE @]
    /\ UNCHANGED <<due, provider, locks, fresh, new, held, tries, excuse>>

(* The deferred ReleaseRefreshLock, which deletes the key whoever owns it,  *)
(* and Unlock.                                                             *)
Release(w) ==
    /\ pc[w] = "release" /\ Goto(w, "settle")
    /\ \/ lock' = (IF held[w] THEN Nobody ELSE lock) /\ Works
       \/ held[w] /\ UNCHANGED lock /\ Fails
    /\ held' = [held EXCEPT ![w] = FALSE]
    /\ mutex' = [mutex EXCEPT ![Home[w]] = Nobody]
    /\ UNCHANGED <<row, due, provider, read, tries, result, history>>

-----------------------------------------------------------------------------
(* What the callers of RefreshIfNeeded do with its result *)

Settles(w, r) == pc[w] = "settle" /\ result[w] = r
Account(r) == \/ row' = r /\ Works
              \/ UNCHANGED row /\ Fails

Skip(w) ==
    /\ w \in Background /\ Settles(w, "skipped") /\ End(w)
    /\ UNCHANGED <<row, due, provider, locks, held, history, faults>>
(* postRefreshActions *)
Refreshed(w) ==
    /\ w \in Background /\ Settles(w, "refreshed") /\ End(w)
    /\ IF fresh[w].temp = "none" THEN UNCHANGED <<row, faults>>
                                 ELSE Account([row EXCEPT !.temp = "none"])
    /\ UNCHANGED <<due, provider, locks, held, history>>
SetError(w) ==
    /\ w \in Background /\ (Settles(w, "invalid") \/ Settles(w, "denied")) /\ End(w)
    /\ Account([row EXCEPT !.status = "error"])
    /\ UNCHANGED <<due, provider, locks, held, history>>
Retry(w) ==
    /\ w \in Background /\ Settles(w, "failed") /\ tries[w] < MaxRetries
    /\ tries' = [tries EXCEPT ![w] = @ + 1] /\ Goto(w, "mutex") /\ Result(w, "none")
    /\ UNCHANGED <<row, due, provider, locks, read, held, history, faults>>
Exhaust(w) ==
    /\ w \in Background /\ Settles(w, "failed") /\ tries[w] >= MaxRetries /\ End(w)
    /\ Account([row EXCEPT !.temp = "exhausted"])
    /\ UNCHANGED <<due, provider, locks, held, history>>

(* A request goes on with the token it has whatever became of the refresh,  *)
(* but of a Grok account it fails with it, and markTempUnschedulable keeps  *)
(* later ones away.                                                        *)
Proceed(w) ==
    /\ w \in Requests /\ pc[w] = "settle" /\ Leave(w, "use")
    /\ platform # "grok" \/ result[w] \in {"skipped", "refreshed"}
    /\ UNCHANGED <<row, due, provider, locks, held, history, faults>>
RefreshFails(w) ==
    /\ w \in Requests /\ platform = "grok" /\ End(w)
    /\ \/ Settles(w, "failed") /\ Account([row EXCEPT !.temp = "exhausted"])
       \/ /\ Settles(w, "invalid") \/ Settles(w, "denied")
          /\ Account([row EXCEPT !.status = "error"])
    /\ UNCHANGED <<due, provider, locks, held, history>>
Answered(w) ==
    /\ pc[w] = "use" /\ End(w)
    /\ UNCHANGED <<row, due, provider, locks, held, history, faults>>
(* Mutant: expires_at is set back with the whole credentials of the request's account. *)
UnauthorizedWritesBack(w) ==
    /\ pc[w] = "use" /\ End(w)
    /\ Account([row EXCEPT !.temp = "unauthorized", !.pair = acct[w].pair])
    /\ UNCHANGED <<due, provider, locks, held, history>>
(* HandleUpstreamError of a 401, handleGrokAccountUpstreamError.  What      *)
(* OpenAI says of the request's access token, older than the account's or  *)
(* not, is taken for the account.                                          *)
Unauthorized(w) ==
    /\ pc[w] = "use" /\ End(w)
    /\ \/ Account([row EXCEPT !.temp = "unauthorized"]) /\ UNCHANGED excuse
       \/ /\ platform = "openai" /\ ExcuseIf(TRUE)
          /\ Account([row EXCEPT !.status = "error"])
    /\ UNCHANGED <<due, provider, locks, held, lost>>

-----------------------------------------------------------------------------
(* Administrators: no lock, and UpdateAccount writes back the whole row *)

Begin(a, s) ==
    /\ a \in Admins /\ pc[a] = "idle" /\ Goto(a, s)
    /\ ExcuseIf(\E w \in Workers : Busy(w))
    /\ UNCHANGED <<row, due, locks, fresh, held, tries, lost, faults>>
Refresh(a) ==
    /\ Begin(a, "adminCall") /\ acct' = [acct EXCEPT ![a] = row]
    /\ UNCHANGED <<provider, new, result>>
UpdateAccount(a) == Begin(a, "adminRead") /\ UNCHANGED <<provider, acct, new, result>>
(* A new authorization brings a pair of its own; older ones stay valid. *)
ApplyOAuthCredentials(a) ==
    /\ Begin(a, "adminRead") /\ issued < MaxPairs /\ UNCHANGED platform
    /\ issued' = issued + 1 /\ live' = live \cup {issued + 1}
    /\ new' = [new EXCEPT ![a] = issued + 1] /\ Result(a, "reauthorized")
    /\ UNCHANGED acct
(* ClearAccountError writes the status first and the reason last; as one    *)
(* step the two are together or, when a write between them fails, apart.   *)
ClearError(a) ==
    /\ a \in Admins /\ pc[a] = "idle" /\ row.status = "error"
    /\ \/ row' = Cleared(row) /\ Works
       \/ row' = [row EXCEPT !.status = "active"] /\ Fails
    /\ UNCHANGED <<due, provider, locks, pc, read, held, tries, result, history>>

(* refreshSingleAccount asks the provider with the account it was given. *)
AdminCall(a) ==
    /\ pc[a] = "adminCall"
    /\ \/ /\ Rotate(acct[a].pair) /\ new' = [new EXCEPT ![a] = issued + 1]
          /\ Goto(a, "adminRead") /\ Works /\ UNCHANGED <<acct, fresh, tries, result, lost>>
       \/ acct[a].pair \notin live /\ End(a) /\ Works /\ UNCHANGED <<provider, lost>>
       \/ Rotate(acct[a].pair) /\ End(a) /\ Fails /\ lost' = TRUE
       \/ End(a) /\ Fails /\ UNCHANGED <<provider, lost>>
    /\ UNCHANGED <<row, due, locks, held, excuse>>

AdminRead(a) ==
    /\ pc[a] = "adminRead"
    /\ \/ /\ fresh' = [fresh EXCEPT ![a] = row] /\ Goto(a, "adminWrite") /\ Works
          /\ UNCHANGED <<acct, new, tries, result, lost>>
       \/ End(a) /\ Fails /\ lost' = (lost \/ Owes(a))
    /\ UNCHANGED <<row, due, provider, locks, held, excuse>>

(* What an edit writes back is what it read, however old. *)
WriteBack(a) ==
    /\ row' = Edited(row, IF new[a] = 0 THEN fresh[a].pair ELSE new[a], fresh[a].status)
    /\ lost' = (new[a] = 0 /\ (lost \/ fresh[a].pair # row.pair))
AdminWrite(a) ==
    /\ pc[a] = "adminWrite"
    /\ \/ /\ WriteBack(a) /\ Works /\ UNCHANGED excuse
          /\ IF Reauthorizes(a)
             THEN Goto(a, "adminClear") /\ UNCHANGED <<read, tries, result>>
             ELSE End(a)
       \/ WriteBack(a) /\ Fails /\ End(a) /\ ExcuseIf(Reauthorizes(a))
       \/ /\ UNCHANGED <<row, excuse>> /\ lost' = (lost \/ Owes(a))
          /\ Fails /\ End(a)
    /\ UNCHANGED <<due, provider, locks, held>>
AdminClear(a) ==
    /\ pc[a] = "adminClear" /\ End(a)
    /\ \/ row' = Cleared(row) /\ Works /\ UNCHANGED excuse
       \/ UNCHANGED row /\ Fails /\ ExcuseIf(TRUE)
    /\ UNCHANGED <<due, provider, locks, held, lost>>

-----------------------------------------------------------------------------
(* Time and failures *)

Expire ==
    /\ row.pair \notin due /\ due' = due \cup {row.pair}
    /\ UNCHANGED <<row, provider, locks, pc, read, held, tries, result, history, faults>>
TempLapses ==
    /\ row.temp # "none" /\ row' = [row EXCEPT !.temp = "none"]
    /\ UNCHANGED <<due, provider, locks, pc, read, held, tries, result, history, faults>>

(* The lock's TTL: of an owner that is gone, or that is still refreshing. *)
OrphanLapses ==
    /\ lock # Nobody /\ ~held[lock] /\ lock' = Nobody
    /\ UNCHANGED <<row, due, provider, mutex, pc, read, held, tries, result, history, faults>>
LockLapses ==
    /\ lock # Nobody /\ held[lock] /\ lock' = Nobody /\ Fails /\ Unlocked
    /\ UNCHANGED <<row, due, provider, mutex, pc, read, held, tries, result, lost>>

(* A process dies with all its handlers; its lock in Redis stays. *)
Crash(i) ==
    /\ Fails
    /\ LET gone == {w \in Workers : Home[w] = i} IN
       /\ \E w \in gone : pc[w] # "idle"
       /\ lost' = (lost \/ \E w \in gone : Owes(w))
       /\ ExcuseIf(\E a \in gone : pc[a] = "adminClear")
       /\ pc' = [w \in Workers |-> IF w \in gone THEN "idle" ELSE pc[w]]
       /\ acct' = [w \in Workers |-> IF w \in gone THEN Blank ELSE acct[w]]
       /\ fresh' = [w \in Workers |-> IF w \in gone THEN Blank ELSE fresh[w]]
       /\ new' = [w \in Workers |-> IF w \in gone THEN 0 ELSE new[w]]
       /\ held' = [w \in Workers |-> IF w \in gone THEN FALSE ELSE held[w]]
       /\ tries' = [w \in Workers |-> IF w \in gone THEN 0 ELSE tries[w]]
       /\ result' = [w \in Workers |-> IF w \in gone THEN "none" ELSE result[w]]
    /\ mutex' = [mutex EXCEPT ![i] = Nobody]
    /\ UNCHANGED <<row, due, provider, lock>>

-----------------------------------------------------------------------------
RefreshStep(w) ==
    \/ LockMutex(w) \/ Acquire(w) \/ Reread(w) \/ Call(w) \/ Recover(w)
    \/ Persist(w) \/ Release(w)
SettleStep(w) ==
    \/ Skip(w) \/ Refreshed(w) \/ SetError(w) \/ Retry(w) \/ Exhaust(w) \/ Proceed(w)
    \/ RefreshFails(w)
AdminStep(a) == AdminCall(a) \/ AdminRead(a) \/ AdminWrite(a) \/ AdminClear(a)
Next ==
    \/ \E w \in Refreshers : \/ Sweep(w) \/ Request(w) \/ RefreshStep(w) \/ SettleStep(w)
                             \/ Answered(w) \/ Unauthorized(w)
    \/ \E a \in Admins : \/ Refresh(a) \/ UpdateAccount(a) \/ ApplyOAuthCredentials(a)
                         \/ ClearError(a) \/ AdminStep(a)
    \/ Expire \/ TempLapses \/ OrphanLapses \/ LockLapses
    \/ \E i \in Instances : Crash(i)

(* Handlers that started go on, the mutex is handed on to who waits for it, *)
(* the sweep is periodic, and what has a duration ends.                     *)
Fairness ==
    /\ \A w \in Refreshers : /\ WF_vars(RefreshStep(w)) /\ SF_vars(LockMutex(w))
                             /\ WF_vars(SettleStep(w)) /\ WF_vars(Sweep(w))
    /\ \A a \in Admins : WF_vars(AdminStep(a))
    /\ WF_vars(OrphanLapses) /\ WF_vars(TempLapses)
Spec == Init /\ [][Next]_vars /\ Fairness

-----------------------------------------------------------------------------
(* The refresh token that the provider accepts is in the account, or with a *)
(* handler that is about to store it: however locks lapse and administrators *)
(* interfere, only a lost answer, a failed write, a crash in between or an   *)
(* edit that writes back an older row loses it (oauth_refresh_api.go:128-157, *)
(* ratelimit_service.go:291-296 on the write-back this avoids).             *)
TokenKept == row.pair \in live \/ lost \/ \E w \in Workers : Owes(w)

(* Losing a race for the refresh token never puts the account in error: the *)
(* lock keeps the second refresher out, and where it did not, the refused   *)
(* one finds the successor in the account (oauth_refresh_api.go:131,        *)
(* token_refresh_service.go:312).  It fails to when it looks between the    *)
(* winner's rotation and its write, or cannot read, or an administrator     *)
(* interferes, and it does not look when the refusal is not invalid_grant; *)
(* and what OpenAI says of an access token needs no race.                   *)
Disabled == row.status = "error" /\ \A a \in Admins : pc[a] # "adminClear"
RaceIsNoError ==
    Disabled /\ excuse # "given" => row.pair \notin live

(* The stored pair of an active account that is about to expire, of a       *)
(* platform the sweep covers, is replaced,                                  *)
(* or the account is put in error; no lock, mutex, retry or cool-down keeps  *)
(* the sweep away for ever (token_refresh_service.go:157, gemini_token_cache.go:41). *)
DueIsRefreshed ==
    platform # "grok" /\ row.status = "active" /\ NeedsRefresh(row.pair)
        ~> ~NeedsRefresh(row.pair) \/ row.status = "error" \/ issued = MaxPairs
=============================================================================
