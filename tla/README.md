# Verification of BoxAI's money, once-only paths and remote chat

BoxAI is an AI API gateway: users buy balance, spend it on requests and on
batch image jobs, and get refunds; a desktop client runs agents that a web
client can drive through a second gateway. This directory holds TLA+ models of
the parts of `src/backend/` in which money moves, something must happen once or
a limited resource is shared, and of the path a chat run takes through
`src/desktop/`; TLC configurations that check them on small instances; and TLAPS
proofs that hold for every value of the constants. `PROJECT.json` links every
definition to the lines it models, every property to a mutation that breaks
it, and every hazard of the code to the properties that guard against it.

Contents: [inventory](#1-inventory), [plan](#2-plan), [the modules](#3-modules-and-code),
[the runs](#4-runs), [the proofs](#5-proofs), [what the checks found](#6-disagreements-with-the-documentation),
[what is not modelled](#7-not-modelled).

Commands, from this directory:

    tlc -workers 2 -config PaymentFulfillment.cfg PaymentFulfillment
    tlapm PaymentFulfillmentProofs.tla

## 1. Inventory

The server (`backend/`) keeps its durable state in PostgreSQL and its locks,
queues, counters and caches in Redis. Any number of instances run the same
code. Handlers are goroutines that talk to each other through those two stores
only; a handler may lose its process, its connection or its patience between
any two calls. The agent gateway (`desktop/crates/agent-gateway/`) is one process
that keeps everything in memory and talks to the desktop over a gRPC stream and
to web clients over WebSockets; the desktop is a Rust process with an embedded
front end. That is why all modules cut handlers at their calls, and cut calls
where a stream can break.

| Component (under `backend/internal/`, unless `desktop/` is named) | State | Operations | What is hard | What makes it correct |
|---|---|---|---|---|
| **Payment fulfilment** `service/payment_fulfillment.go`, `payment_order_lifecycle.go`, `payment_order_expiry_service.go` | `payment_orders`, `redeem_codes`, `payment_audit_logs`, redeem lock | notification, upstream query, cancel, expiry, verify, retry, the lease and its steps | duplicated and late notifications, crash between grant and mark, lease takeover, ambiguous commits | a paid order is granted once, then rebated once, then settled; success is only reported for what is on record |
| **Refunds** `service/payment_refund.go` | order status, user balance, audit rows, provider's refunds | request, plan, deduct, provider call, rollback, finalize | two administrators, lost provider answers, failed rollbacks, retries | money and status agree; refunded means refunded |
| **Idempotency coordinator** `service/idempotency.go`, `repository/idempotency_repo.go` | one row per key | claim, replay, reclaim, mark, cleanup | racing reclaims, requests older than their record, failed marks | one execution per TTL; replays belong to the payload |
| **System operation lock** `service/system_operation_lock_service.go` | one row of the same table, a renewal goroutine per holder | acquire, renew, release | renewal in flight across release, takeover of a dead holder | one operation at a time; a holder on time keeps the lock |
| **Batch image jobs** `service/batch_image_*.go`, `repository/batch_image_*.go` | job row, hold ledger (`balance`, `frozen_balance`, dedup rows), Redis queue and job lock | submit, replay, cancel, recover, poll, index, settle | six actors on one job, lapsing locks and heartbeats, retries up to a limit | each hold is settled once and one way, and none is stranded |
| **Usage billing** `service/gateway_usage_billing.go`, `repository/usage_billing_repo.go`, `service/usage_record_worker_pool.go` | balances, quotas, dedup rows, Redis balance cache, bounded task pool | apply, cache deduction, archive, drop on overflow | retry after an ambiguous commit, cache and database apart, queue full | a request is billed once |
| **Concurrency slots and wait queues** `service/concurrency_service.go`, `repository/concurrency_cache.go`, `handler/gateway_helper.go` and the gateway handlers | sorted sets of request ids, wait counters, active index | acquire, release, wait, startup cleanup, periodic cleanup | slots that outlive or are outlived by their request, counters without owners, an index written after its load was read, several instances starting | no more than the limit run, the counter agrees with the queue, and nothing leaks |
| **WebSocket ingress leases, user message queue** the same files, `service/user_msg_queue_service.go` | lease members with a local refresh loop; a lock per account | acquire, refresh, release, reconcile | a refresh that fails until the lease is gone; a lock that fails open | a connection without a lease is closed; messages of a session do not interleave |
| **OAuth refresh** `service/oauth_refresh_api.go`, `token_refresh_service.go`, `account_credentials_persistence.go`, `ratelimit_service.go`, `repository/account_repo.go`, `gemini_token_cache.go`, the administrators' handlers | process mutexes, Redis lock, account row with credentials, status and cool-down | refresh, recovery from a lost race, sweep with retries, 401, edit, reauthorize, clear error | lock without owner, token rotated but not stored, whole rows written back | a refresh token is spent once; losing a race for it disables no live account |
| **OpenAI WebSocket pool** `service/openai_ws_pool.go` | connections, leases and waiters per account | acquire, release, prewarm, evict | a queue at its limit, closing under a waiter | a connection has one user; nobody waits for ever |
| **Scheduler snapshots** `service/scheduler_snapshot_service.go`, `repository/scheduler_cache.go`, `scheduler_outbox_repo.go` | outbox table, watermark, bucket snapshots with versions | enqueue, poll, rebuild, clean up | ids that commit out of order, rebuilds overtaking each other | a change is seen eventually; no snapshot goes back |
| **Platform quota flusher** `service/user_platform_quota_flusher.go` | dirty set, cached usage, database copy | pop, snapshot, write, readd | crash after pop, administrator resets meanwhile | the copy converges to the cache |
| **Leader locks, periodic jobs** `service/leader_lock.go`, `timing_wheel_service.go` | Redis lock, or database advisory lock | acquire, run, release | the two locks do not exclude each other | one leader per cycle |
| **Conversation runs** `desktop/crates/agent-gateway/internal/session/conversation_stream.go`, `conversation_ingress.go` | per conversation: current run, queued run, ring of finished runs, seeded messages; per run a record | start command, fail, force-finish, mark cancelling, ingest of events and controls, runtime status, reaping | seeds deferred until a run starts, controls and events that overtake each other, replays | a run finishes once; the log shows one open run; a message is shown once |
| **Remote chat** the gateway's `server/chat_commands.go`, `websocket_chat_handlers.go`; the desktop's `services/gateway/*.rs`, `chat_run_ledger.rs`, `pages/chat/gateway/*` | commands under way, the desktop's inbox, its ledger of runs, the front end's queue | submit, dispatch, startup watchdog, cancel and its watchdog, claim, run, report, reconcile | broken streams, restarts of all three processes, watchdogs racing late answers | a run that ended on the desktop ends in the gateway |
| **Stream subscriptions** the gateway's `server/websocket.go`, the web client's `gatewaySocket.ts`, `conversationStreamClient.ts`, `transcriptStore.ts`, `useConversationChat.ts` | event window with epoch, forwarders, bounded queues, client cursor | subscribe, resume, reset, overflow, resubscribe, evict, reap | slow clients, evicted events, reconnects, a gateway that forgot its epoch | a client sees every event in order or is told to reset |
| **Other parts of the desktop gateway and client** `manager_registry.go`, `tunnel_state.go`, `manager_terminal.go` | sessions, relays | request routing, authentication, history, terminal, tunnel, files | - | relays |
| **Gateway, scheduling, authentication, administration, clients** | mostly request-local | translation of requests and streams, selection of accounts, CRUD | - | not control-intensive |

How they interact. Fulfilment ends by redeeming a code or assigning a
subscription, and by accruing an affiliate rebate; a refund takes and restores
the status of a completed order (`RefundTakes` and `RefundRestores` in
`PaymentFulfillment` are that interface). Batch image holds share
`usage_billing_dedup` and the user's balance with usage billing, and the frozen
pool with all other batches of the user (`Elsewhere` in `BatchImageLedger`).
The system operation lock lives in the table of the idempotency coordinator
and uses the same statements. A request to the gateway takes a user slot, then
an account (whose OAuth token may have to be refreshed first), then that account's
slot; a 401 from the provider marks the account for the refresh sweep. A web
client's chat command becomes a run of the gateway's store and a message on the
desktop's stream; the desktop's reports come back as controls and events into
that store (`RemoteChat` takes only steps of `ConversationRuns`), and what the
store logs is what `StreamSubscription` brings to the browsers. Administrative and payment endpoints run under
the coordinator (`handler/idempotency_helper.go`).

## 2. Plan

Order: what loses or duplicates money first, what merely delays later.

1. Payments: `PaymentContract`, `PaymentFulfillment`, `PaymentRefund`. *Done.*
2. `Idempotency`, then `SystemOperationLock` on the same table. *Done.*
3. Batch image: `BatchImage`, `BatchImageLedger`, `BatchImageQueue`, composed by
   `BatchImageJobs`. *Done.*
4. Remote chat: `ConversationRuns`, composed by `RemoteChat`; `StreamSubscription`.
   *Done.*
5. `OAuthRefresh`: instances with mutexes, the Redis lock and the provider's
   rotation. *Done, without the cache of access tokens.*
6. `ConcurrencySlots`: slots, wait counters and the active index of several
   instances. *Done.* To add: the WebSocket leases with their
   refresh loop, whose holder must have stopped soon after it lost its member.
7. `UsageBilling`: `Apply`, its dedup and archive rows, the balance cache and the
   task pool. Abstract specification: a set of requests, each billed at most
   once. To prove: that refinement.
8. `SchedulerOutbox`: transactions, watermark, cleanup and rebuild, with the
   liveness property that a change reaches the snapshot.
9. `QuotaFlusher`, `WsPool`, the user message queue, the access token cache, user
   redemption and promo limits, leader locks.

The proofs to come for the existing modules: an abstract specification of a hold
(reserved, then captured or returned, once) that `BatchImageJobs` implements while no
lock lapses, and the same for the lock.

## 3. Modules and code

Common conventions. A handler has a variable that names *the call it makes
next* (`pc`, `step`, `submit`, ...); an action is one call with everything the
handler computes up to the next. One SQL statement, transaction or Redis script
is atomic. Variables marked `history` exist only to state properties. A
`Fault` is a crash of one handler or a failing call, and there are at most
`MaxFaults` of them. The definitions called mutants are not part of `Next`: each
is a definition with the mistake a programmer could have made.

### `PaymentContract`, `PaymentFulfillment`

One order. `PaymentContract` has a phase and two counters: owed, granted once,
rebated once, settled. `PaymentFulfillment` has `Workers`, handlers of any kind:
`Deliver` (webhook to `HandlePaymentNotification`), `CancelOrder`,
`ExpireTimedOutOrders`, `VerifyOrder`, `RetryFulfillment` start one, and its
steps follow `confirmPayment`, `toPaid`, `alreadyProcessed`,
`acquirePaymentFulfillmentLease`, `doBalance`/`doSub`, `redeemAction`,
`applyAffiliateRebateForOrder`, `markCompleted`, `markFailed`.

* The lease version is `updated_at`. Only equality and "five minutes old" are
  ever asked of it, so `leased` is the set of workers whose version is current
  and `aged` says that the order may be taken over.
* `kind` abstracts balance and subscription orders. `matches` says whether the
  payment is what the order asks for: provider, merchant, metadata and amount.
  `confirmPayment` refuses one that is not (`RefusePayment`), a notification with an
  error, so that it is delivered again, and an upstream query without: the query
  counts the order as paid whatever became of it, and cancel and expiry leave it open.
* `active` says that the group of a subscription exists and is active
  (`CheckGroup`); `ToggleGroup` is the administrator. A subscription order without
  a group or days (`payment_fulfillment.go:481`) is left out: order creation always
  sets both (`payment_order.go:210`).
* The provider call and the commits of redeem, assignment, rebate and completion
  may be ambiguous: applied, and reported as failed. Other failing statements
  have no effect. `AckOnReadError` is the path on which a failed read of the
  order is answered with success; `AlreadyProcessed` answers the callback of an
  expired order with success although its audit row could not be written. Both set `dropped`.

### `PaymentRefund`

One completed balance order of `Total`, `Workers` requests (a user's request, an
administrator's refund, a finalizer) and the provider, which may or may not be
`Queryable`. `taken` is what the order's refunds have deducted from the balance
and not given back. `rollback` is the `REFUND_ROLLBACK_FAILED` row: `none`,
`lost` when writing it failed too, `logged`. The pending row is kept once per
order, as its unique index says. Every call may fail; the provider's answer may
be lost after the refund was made. `traded` says whether the order has a trade
number: without one `gwRefund` reports success and does not ask the provider.

### `Idempotency`

One key. `Requests` differ in payload (`Prints`) and in whether their response
is too large to be stored (`Oversized`). A failing statement may have been
applied or not. An operation that fails is assumed to have changed nothing,
which is what its callers promise. `clock` may stand still for any number of
calls; `start` is the `now` that Execute takes once.

### `SystemOperationLock`

The same row and statements with the lock's parameters, and a goroutine per
holder that extends `locked_until` every `Interval`. `loop` says whether the
goroutine waits, is in a call, or was told to stop while in one. `lapsed`
collects the holders the row did not protect at some moment; `late` those whose
claim, renewal or release took longer than a tick.

### `BatchImage`, `BatchImageLedger`, `BatchImageQueue`, `BatchImageJobs`

`BatchImage` is the status machine, `BatchImageLedger` the three transactions on
`balance`, `frozen_balance` and the dedup claims, `BatchImageQueue` the Redis
scripts. `BatchImageJobs` composes them with the handlers: Submit with
heartbeat and abort, the client's replay, Cancel, the recovery of stale
submissions, DeleteRecord, and the worker (`RunOnce`, both `Process`
functions, `Settle` with its retries), the provider and the deletion of outputs.
`held`, `captured` and `released` are the dedup claims, `returned` the jobs whose
release moved money.

* A failing call has no effect, and a `provider.Submit` that fails has created
  nothing. `MaxLapses` bounds how often a lock, a heartbeat or a touch runs out
  under a live owner.
* Several entries of one id in the ready list are one entry. The TTL of the
  inflight key, seven days, does not run out.
* No code distinguishes values of `retry_count` over the maximum: it saturates.

### `ConversationRuns`, `RemoteChat`

`ConversationRuns` is the gateway's store for one conversation, written as
operators on a record (`StoreType`): the log, the activity (`act`: a run and its
state), the ring of finished runs, the commands pending, and per run what the store
recorded of it (`RecordType`): bound to the conversation, its message seeded or
deferred, parked in the desktop's queue, rebased. Each operator is a method under the store's mutex (`Start`, `Finish`,
`Queue`, `Park`, `Accept`, `FailCommand`, `MarkCancelling`, `ForceFinish`, `Control`,
`ChatEvent`, `Forget`, ...), its log entries included. `StoreSpec` lets an
*arbitrary* agent and web client call them in any order; it is what the proofs
of the store are about.

`RemoteChat` adds everybody else: the web client's command, its dispatch over the
agent stream and the two watchdogs (startup, cancel), the desktop's inbox, run
ledger and front end, the stream in both directions with messages in it, and
reconciliation after a reconnect. The stream may break and lose what is in it;
the gateway, the desktop or the front end may restart.

* One conversation, one message of the front end (the echo of the user's message, then
  the end; replies carry no state). The terminal statuses are one status.
* A restart of the desktop (`RestartDesktop`) loses inbox, ledger and chain, which are
  in memory: what the gateway still shows as running is then left to its timeouts.
  `Age` is what the ledger drops by itself: an end that more than `terminal_cap` newer ones
  push out of the replays (`old`), or that its retention evicts, sent or not. `Ageing`
  bounds the runs this may happen to.
* Watchdogs fire whenever their conditions hold: time is left out. A late answer
  of the watchdog counts as a fault.
* Deduplication by `client_request_id`, client retries and parking while the
  desktop is offline are left out. The inbox is claimed in any order.
* A status report reads the ledger atomically.
* `FailCommand` and `ForceFinish` on a stream that was reaped act as on one that is idle.

### `StreamSubscription`

One conversation's log in the gateway, with its epoch and its window; one web
client with its transcript, cursor and connection; any number of forwarders, of
which old ones linger after a resubscription. The path of an event is modelled
as the code queues it: log, subscriber's pending events, outbox of the connection, client. `Subscribe`
answers with a replay or a reset; a full queue closes the subscription with a
reset, and a client that missed something resubscribes.

* Snapshots that rebuild the transcript of a client that joined late are left out:
  `NothingMissed` speaks of the events from the cursor a client was given on.
* Any prefix of the window may be evicted at any time, and waiting for room in a
  queue may time out at any time. The control queue is never full.
* Events that wait for an answer are drained by the recursive function `Drained`. With
  `MaxBreaks` lost connections, timeouts and visits elsewhere, a connection never runs
  out of request ids (`Tickets`); logs are numbered from 1, so `MaxEpochs` is at least 1.
* The model reaches the client's branch for a gap in the sequence (`DeliverEvent`): a
  subscription that was replaced while one of its events was under way passes that
  event on late, ahead of what the new subscription has still to deliver.

### `OAuthRefresh`

One account with a rotating refresh token: pairs of tokens are numbered in the
order of issue, and the provider refuses a spent one. `Background` are the sweeps
of the instances, `Requests` the handlers that need a token, `Admins` the
administrators' handlers; `Home` says which process, hence which mutex. The Redis lock has
no owner: whoever finishes deletes it. A failing call costs a fault and, if it
writes, may have been applied.

* `lost` (history) says that the live token went astray: the answer of the provider or
  the write of the pair was lost, or an administrator's edit wrote an old row back.
  `excuse` (history) says what accounts for a live account in error: `unlocked` while a refresh
  went on without the lock, which alone excuses nothing; `given` once a read failed, an administrator
  worked at the same time, the loser of a race looked before the winner stored, a refusal was
  not invalid_grant, or OpenAI declared an access token revoked.
* `platform` is Claude, OpenAI or Grok. Only invalid_grant goes through the recovery
  from a lost race (`Recover`); other refusals (`denied`), of spent and of live tokens,
  put the account in error at once. OpenAI's 401 may name a revocation and put the account in error
  (`Unauthorized`), whichever access token the request had. Grok accounts are not swept, and
  their requests fail with their refresh (`RefreshFails`).
* The windows of the various providers are merged into one (`due`). The cache of access
  tokens, accounts without a refresh token, and Gemini and Antigravity are left out: these
  do not rotate the refresh token, and write project ids back with the credentials they read.
* `ClearError` is one step of five writes, which may stop after the first.

### `ConcurrencySlots`

One account or user: `slots` is the sorted set in Redis, `waiting` the counter,
`index` the entry in the active index (`fresh`, or `due` once its score is past).
A request tries, is queued, polls, leaves the queue and runs; the calls that
maintain the index come after its scripts (`idx`), reading the load and writing the
conclusion being two calls. `bg` is an instance's background: the startup cleanup,
which comes before it serves, and the periodic reconciliation.

* Account and user differ in the order of the first try and the queueing only in code,
  not in effect; both are the one path of the model.
* `IncrementWaitCount` never returns an error (`concurrency_service.go:501`), so the
  handlers' `accountWaitCounted` is true for every request that waits: the model has
  no other case, and a request that was let in uncounted decrements like the rest.
* A slot is what `LimitKept` counts, not the upstream request: when the client
  disconnects the slot is released (`wrapReleaseOnDone`) while the upstream may still be
  read to its end for its usage.
* TTLs: see the module's head. `stripped`, `low` and `high` (history) say whose slot was
  taken away, and whether the counter may be below or above the queue.

## 4. Runs

Bounds are chosen so that every action fires and the interleavings of two
handlers with the failures that matter are all there. In every run the system
may stop (all requests done, all faults spent), hence `CHECK_DEADLOCK FALSE`;
whether something *must* happen is the question of the runs with fairness.

| Run | Instance | Shows |
|---|---|---|
| `payment_fulfillment` | 2 workers, both kinds, 1 fault, fairness | refinement of `PaymentContract`; what is answered with success is settled, on record or dropped by a failed read or write; no grant without a payment that matches; an accepted payment is settled or so accounted for; only a refused one stays pending |
| `payment_refund` | 2 workers, amounts to 2, 2 provider refunds, 1 fault, with and without query | balance, status and provider agree |
| `payment_refund_retry` | the same, one property | the disagreement of section 6 |
| `idempotency` | 3 requests, 2 payloads, one oversized response, 3 ticks, TTL 2, 1 fault | one execution per TTL, real replays, stored answers |
| `system_operation_lock` | 3 attempts, 2 operation ids, lease 2, TTL 3, 3 ticks, 1 fault | the lock is never given twice; the first holder keeps it |
| `batch_image` | 1 job, 2 workers, 3 faults, 1 lapse, 2 settlement retries, another batch's hold in the pool | a hold is settled one way, the pool is backed, nothing is stranded, completed is paid and final |
| `remote_chat` | 2 runs, a message under way in each direction, 1 fault | each run finishes once, the log shows one open run, a message is shown once |
| `remote_chat_live` | 1 run, 2 messages under way, 2 faults, fairness | a run whose end the desktop keeps ends in the gateway; `RemoteChat` takes only steps of the arbitrary-agent store |
| `stream_subscription` | queues of 1, 3 events, 2 epochs, 2 subscriptions, 1 fault, fairness | no event from the cursor on is missed, no stream ends silently, the client catches up |
| `concurrency_slots` | 3 requests in 2 instances, 1 slot, 1 place to wait, 1 fault, fairness | the limit holds, the counter agrees with the queue, everything is reclaimed |
| `oauth_refresh` | 1 sweep, 1 request, 1 administrator in 2 instances, 2 pairs, 1 retry, 1 fault | the live token is kept; a lost race alone disables no account |
| `oauth_refresh_live` | 2 sweeps, 2 retries, 3 faults, fairness | a pair about to expire is replaced or the account is put in error |

Two faults in fulfilment, safety only, are checked by

    tlc -workers 2 -config PaymentFulfillmentFaults.cfg MCPaymentFulfillment

Why the bounds are enough. Races in this code are between two handlers: a third
one only repeats what the second did, because no handler counts the others.
The idempotency row needs three requests (a first owner, and two that find its
expired record) and the lock three attempts (an old holder, its successor, a
contender). Each safety property is violated within these bounds by a mutant,
and the proofs of section 5 remove the bounds. One batch image job suffices for
everything but the shared pool, in which `Elsewhere` stands for the other jobs;
`PoolIsBacked` is proved for any number.

The remote chat needs two runs to confuse (one is current, one queued); in
`remote_chat_live` one run suffices, and `AnyAgent` is proved for any number. A queue
of one event is full at once, so every overflow happens with `Buffer`, `Outbox`
and `Pending` at 1, and three events let one be evicted while one is queued and one
to come. Three requests at one slot and one place to wait are one that runs, one
that waits and one that is refused; a slot of another instance makes the startup
cleanup bite. Two pairs of tokens are what a race needs: the spent one and the
live one.

What the conditions in the properties mean:

* `AckedIsAccounted`, `PaidIsSettled`: *on record* is a row
  `PAYMENT_AFTER_EXPIRY` (a payment reported more than five minutes after the
  order was closed), *dropped* a notification answered with success although the order
  could not be read or that row not be written. Neither is repaired by the code; the
  first is left to people, of the second nothing tells them. `PaidIsSettled` speaks of
  payments the order accepts and, for subscriptions, of groups that stay active in the end.
* `PendingEnds`: unless the payment is refused. Every sweep then finds the order paid at the
  provider and leaves it open (`payment_order_lifecycle.go:195`).
* `RefundedIsReal`: of orders with a trade number.
* `TerminalArrives`: while the ledger keeps the end. Once it has dropped it, or the desktop
  was restarted, the gateway's timeouts (`LoseRun`) end the run, on which no property relies.
* `RestoredIsUndeducted`, `NeverOvercharged`, `RefundedIsFinal`: for providers
  without a refund query. `QueryAndFinalizeRefund` takes no lock, so two of its
  calls, or one that failed after the deduction and was repeated, deduct twice.
* `OneExecutor`, `OnceWhileCalm`, `AnsweredIsStored`: until a request reclaims a
  row it had read as expired, or outlives its record (`IdempotencyReclaim`, section 6).
* `MessageOnceIfCalm`: until a fault, see section 6, and of a run that the ring of
  finished runs has not forgotten (`PushedOut`). The record with the mark that the
  message was shown goes with the run: an echo that comes after `Memory` other runs
  have finished is shown again (TLC shows it with a memory of one run; the code's is
  eight, `conversationFinishedRunMemory`). `NothingMissed`: as long as the
  transcript was filled from the log it follows; `EverythingShown` is the statement without
  that condition.
* `TokenKept`: unless the live token was `lost`. `RaceIsNoError`: unless the `excuse` is given. Both are
  in section 3; nothing in the code repairs these cases, the administrator does.
* `LimitKept`: not counting requests whose slot was taken away. `QueueKept`: until
  a request is let in uncounted or the counter is removed while some wait.
  `NoPhantomWaiter`: until a waiting process dies or a decrement is lost.
* `OneSettlement`, `PoolIsBacked`: unless a worker lost the job's lock (`lapsed`) or
  the status could not be written after the money had moved (`unmarked`). Without
  the second exemption TLC shows a captured job whose further captures fail
  until the retries are exhausted, and whose hold is then released out of what
  other batches have frozen.
* `NoStrandedHold`: exempt are jobs whose handler crashed or whose Enqueue failed
  (`broken`), those that lost a lock, and a release claimed before the hold.

Fairness. No user, no administrator, no payment and no fault is ever forced.

* `payment_fulfillment`: handlers that have started go on (weak fairness of `Step`):
  a goroutine is scheduled. The provider redelivers until it is answered with
  success, and the expiry sweep runs every minute; both need a free worker,
  which is not continuously available in a model with two, so they get strong
  fairness. Time passes (`Age`, `LockExpires`).
* `remote_chat_live`: the desktop reopens its stream, messages are delivered, the
  reconciliation completes, and an entry of the ledger that was not sent is sent.
  No watchdog and no timeout of the gateway is relied upon, hence the condition above.
* `stream_subscription`: the client reconnects and retries, forwarders and queues
  move. Nothing forces an event.
* `concurrency_slots`: handlers and cleanups go on, an instance that died is started
  again, TTLs end. Requests need not come.
* `oauth_refresh_live`: started handlers go on, the sweep is periodic, locks and
  cool-downs of the dead lapse; a mutex that is free again and again is obtained
  (strong fairness), as `sync.Mutex` guarantees. The instance has no requests: with
  requests that hold the lock whenever the sweep comes, and only then, the sweep
  would be put off for ever, which no schedule of the code excludes and no clock
  makes likely.

## 5. Proofs

TLAPS proves for every value of the constants what TLC checks on the instances.
The assumptions are the `ASSUME`s of the modules (bounds are naturals, durations
positive, the null value is not a member) and nothing else.
`FirstIsRenewed` assumes in addition that the renewal interval is shorter than
lease and TTL: `NewSystemOperationLockService` renews after a third of the lease,
but not more often than every second, so a lease must be longer than a second;
the TTL is an hour by default.

| Module | Proved | Inductive invariant |
|---|---|---|
| `RemoteChatProofs`, part one | the store (`ConversationRuns`), for any agent and web client: its type (`StoreTypeCorrect`), `FinishedOnce`, an open run of the log is the active one | a closed run is remembered (`RememberedIsClosed`), the ring is the tail of what finished (`RingIsTail`, `Once`), the active run is the open one (`OpenIsCurrent`), idle has no run |
| part two | `RemoteChat`: `TypeOK`, `AnyAgent` (every step of `RemoteChat` is a step of the store or leaves it alone), `FinishedOnce` by that refinement | the store's, and the types of the parts (`Rest`) and of what travels (`Wires`) |
| part three | `StreamSubscription`: `StreamTypeOK`, `NeverDeadEnd`, `NothingMissed` | `WaitInv`: the awaited request is in exactly one place (`Turn`), and a client that asks for nothing has a live subscription or a reset coming (`AliveInv`); `StoryInv`: what the client, its transcript and every answer and event under way know of the log, and in which order they come |
| part four | `RemoteChat`: `OneOpenRun` | a run's command is in one place, at the gateway, on the wire or in the inbox (`Token`); until the front end starts the run nothing that starts it is under way, in the chain, on the wire or in the ledger (`Silent`), so a run is parked before its start, if at all (`ParkOrder`) |
| part five | `RemoteChat`: `MessageOnceIfCalm` | the number of times a message was shown and taken back agrees with the run's record while the ring has not forgotten the run (`One`); the echo is said once, and is to be said, in the chain or on the wire (`EchoInv`); "started" is ahead of it, so nothing is deferred when it comes (`FirstStart`) |
| `ConcurrencySlotsProofs` | `TypeOK`, `LimitKept`, `QueueKept`, `NoPhantomWaiter` | a request that was given a slot has its member unless it was stripped, and members never exceed the limit (`SlotInv`); a request is counted exactly while it waits or is about to leave (`PhaseInv`) |
| `OAuthRefreshProofs` | `TypeOK`, `TokenKept`, `RaceIsNoError` | a pair about to be stored is live and in nobody else's hands (`HeldAlone`); until the excuse is given administrators work alone (`Alone`), whoever can rotate a pair has the stored one (`StoreInv`), and a refused pair stays dead until the error is set (`DeadInv`); while the lock was never missing only its holder is between reread and write (`Protected`) |
| `PaymentFulfillmentProofs` | `TypeOK`, `AckedIsAccounted`, `SettledIsDelivered`, `GrantedOnlyIfPaid`, refinement of `PaymentContract` | `LedgerInv` ties the counters to the rows that guard them; `WorkerInv` is what a handler may rely on between two calls. Both speak only of facts no handler takes back (`Monotone`), so a step must be examined for the handler that takes it only |
| `PaymentRefundProofs` | `TypeOK`, `RestoredIsUndeducted`, `NeverOvercharged`, `RefundedIsReal`, `RefundedIsFinal` | REFUNDING is a lock where there is no query (`LockInv`); `taken` is what its holder has still to give back (`BalanceInv`); the status follows the provider's refunds (`MadeInv`) |
| `IdempotencyProofs` | `TypeOK`, `ReplayIsReal`, `OneExecutor`, `OnceWhileCalm`, `AnsweredIsStored` | a response stays with its payload (`PrintInv`, `BodyInv`); while the execution is calm an owner has its row (`OwnInv`), which is out of others' reach until it expires (`StoredInv`), so claims lie a TTL apart (`ApartInv`) |
| `SystemOperationLockProofs` | `TypeOK`, `OneOperation`, `FirstIsRenewed` | an unlapsed holder is protected by the row as it stands (`ProtectedInv`); nobody else writes the first holder's row (`AloneOnRow`), whose lock is ahead of the next renewal (`Ahead`) |
| `BatchImageProofs` | `TypeOK`, `OneSettlement`, `PoolIsBacked`, `CompletedIsPaid`, `NoStrandedHold`, `CompletedIsFinal` | what a worker read stays true while it has the lock (`LockHeld`, `SettleOfSettling`, `CapturedState`, `ReturnedState`); what holds without any lock (`EarlySubmit`, `HeldSubmit`, `PaidIsCaptured`); one place in the queue per job, kept until its hold is settled (`QueuedOnce`, `HandActive`, `AckOfSettled`) |

None of the properties is inductive by itself: each speaks of the state after
the last step of a handler and says nothing of a handler in the middle.
The invariants stand at the head of the proof modules, except those of the remote
chat, which have modules of their own: `RemoteChatInvariants` (`Inv`, `ChatInv`,
`OpenInv`, `CalmInv`) and `StreamInvariants` (`WaitInv`, `StoryInv`).

`NothingMissed` needs the most of what is known of the wire. The channel of an open
subscription holds consecutive events up to the newest (`ChanInv`), an answer replays
from no later than the cursor of the client that awaits it (`Due`), and its `latest`
and what follows leave no hole. One case has an argument of its own: a client whose
cursor is 0 takes any event as its first, since the gap test asks for a cursor above 0.
There the transcript is whole only because of the order of what is under way: before
an event came the one before it, on the same wire or inside the answer (`Order`).
The events that wait for an answer are drained one by one; `DrainedRule` is the
induction along them. It quantifies over sets instead of operators: the library's
induction principles cannot be instantiated here, but the least element of a set of
naturals (`NatMin`, from `WellFoundedInduction`) can.

`OneOpenRun` and `MessageOnceIfCalm` hold of the composition only: an arbitrary agent
may park a run that is open, or repeat an echo. Each operator of the store has a lemma
that says what it keeps of the run it is about (`Kept`, `Spared`) and of all others
(`Others`); the rest of the proof is about the order of messages. The counting needs
only what one more event does to the cardinality of a set (`AppendCount`).

Model-checked only:

* liveness (`PaidIsSettled`, `PendingEnds`, `TerminalArrives`, `CatchesUp`, `DueIsRefreshed`,
  `EverythingReclaimed`), which needs `ENABLED` and fairness, out of the prover's reach;
* the statements of section 6, which are false.

`TypeOK` is an invariant of the runs where it says more than a type (no balance is
overdrawn, no counter is below zero, no queue over its limit) and is proved elsewhere.

## 6. Disagreements with the documentation

`payment_refund_retry` checks a statement of the repository that the code
refutes; `PROJECT.json` quotes it under `findings`. The configurations of the others
are kept beside the runs, each with the one statement that TLC refutes
(`tlc -config X.cfg M`).

| Configuration, module | Statement | Behaviour |
|---|---|---|
| `PaymentRefundRetry`, `MCPaymentRefund` | `RetryNeverDeductsAgain`: a retry does not deduct again after a failed rollback | the retry that skips its deduction and is left pending records that its rollback succeeded, and the finalizer deducts |
| `PaymentDelayedCallback`, `PaymentFulfillment` | `DelayedCallbackReconciled`: a user who paid and whose callback is delayed is reconciled automatically (`docs/PAYMENT.md:271`) | the payment comes after the sweep's query and before its update, the callback after the grace: it is put on record and answered with success, and only the user's own verification may still find it |
| `PaymentStaleLease`, `MCPaymentStaleLease` | `StaleWorkerNeverOverwrites`: the lease version prevents a stale worker from overwriting a newer owner (`payment_fulfillment.go:296`, `:810`) | the version is read in a statement after the one that takes the lease; a worker delayed in between reads its successor's |
| `IdempotencyReclaim`, `MCIdempotency` | `OnceWithinTTL`: concurrent requests with one key execute once (`idempotency_test.go:394`) | two readers of an expired success reclaim it one after the other: the second claims the first one's fresh success (`idempotency.go:292`) |
| `SystemOperationRenewal`, `MCSystemOperationLock` | `RenewedWhileHeld`: the lock is renewed while it is held (`system_operation_lock_service_test.go:65`) | after a takeover the row keeps the first operation's fingerprint, so no renewal matches (`idempotency_repo.go:111`) |
| `BatchImageRefund`, `MCBatchImageJobs` | `NoRefundWhileRunning`: a job the provider has accepted is never refunded (`batch_image_public.go:752`) | Cancel decides on a row read before Submit recorded the provider's job |
| `BatchImagePhantom`, `MCBatchImageJobs` | `ReleaseReturnsHold`: a claimed release has returned the funds (`batch_image_billing_hold.go:104`) | a release before the reservation claims the only request id and moves nothing (`usage_billing_repo.go:344`) |
| `RemoteChatEcho`, `MCRemoteChat` | `MessageOnce`: a run's message is seeded once (`conversation_stream.go:163`) | a deferred command's "started" is lost with a broken stream; the echo comes before the reconciliation replays it, and `ingestChatEvent` asks whether the message was seeded before the start flushes the deferred seed (`conversation_ingress.go:61`) |
| `StreamKeptTranscript`, `MCStreamSubscription` | `EverythingShown`: the cursor is the highest event already applied (`transcriptStore.ts:153`) | the store outlives a switch of conversations (`useConversationChat.ts:29`) and the new registration subscribes at 0 without an epoch (`conversationStreamClient.ts:67`), so events of a log that began anew are dropped as old (`transcriptStore.ts:632`) |
| `ConcurrencySlotsRollout`, `MCConcurrencySlots` | `LivingKeepSlots`: startup removes what the old process left (`concurrency_service.go:54`) | without any fault, a second instance that starts takes the slots and the wait counts of the first |

More divergences are visible without a run.

* Batch image and payments. `docs/BATCH_IMAGE_MVP.md:168` names the settlement's request
  id `batch_image_settlement:`; the code uses `batch_image_capture:`. An order without
  a trade number is refunded in name only (`payment_refund.go:334`).
* OAuth. A manual refresh clears the token cache "so the next request uses the new token"
  (`account_handler.go:1215`) but leaves `_token_version` alone, so a request that still has the
  old account caches its token again; `token_cache_invalidator.go:72` checks and then sets,
  with the same effect. An administrator's edit writes the whole row back and can undo a
  refresh, the rollback that `ratelimit_service.go:291` says was removed from the 401 path.
  A lock that lapsed lets the loser reread before the winner has written, and `SetError`
  then disables a live account; so it does after a reauthorization in between, after
  a refusal such as `refresh_token_reused`, which the recovery does not look into
  (`oauth_refresh_api.go:169`), and after a 401 that OpenAI gives to an access token
  older than the account's (`ratelimit_service.go:254`).
* Remote chat. Deferred seeds are dropped when a "failed" control arrives for a run that
  never started while another is active, though the comment says "starts (or fails)". A
  watchdog fails a run that the desktop parked when "queued_in_gui" was lost. A
  `gateway_chat_complete` control can overtake the events still in the front end's chain, so
  trailing text is dropped. A cancel that could not be sent leaves the activity "cancelling"
  without a watchdog (`handleChatCancel`). A cancelled queued run has a `run_finished`
  without a `run_started`. A client that retries after the gateway restarted gets a new run id,
  while the desktop's inbox answers with the old one.
* Streams. A resume at cursor 0 with a known epoch, after events were evicted, is answered
  without a reset (`conversation_stream.go:353`), although
  `src/desktop/docs/architecture/gateway.md` says that evicted events return one.
* Slots. `IncrementWaitCount` fails open by returning no error, so its callers' guard
  against decrementing an uncounted wait never applies. An ingress lease whose refresh fails
  is given up at the first tick after a TTL, up to one interval later than the comment at
  `concurrency_service.go:161` says.

## 7. Not modelled

* Payments: order creation with its limits, the choice of a provider instance,
  signatures; the subscription branch of refunds (days instead of money).
* Idempotency: requests without a key, which keep no state.
* Batch image: downloads, retention and deletion of inputs, the provider adapters
  and the parsing of their output. Ambiguous commits of the ledger are not steps
  of the model.
* Remote chat: several conversations, deduplication by `client_request_id` and retries,
  parking while offline, the contents of events and snapshots, the activity hub, history
  pages, authentication; time.
* Streams: snapshots, several conversations on one connection, several clients (they share
  nothing but the log).
* OAuth: the cache of access tokens and its versions, accounts without a refresh token, Gemini
  and Antigravity with the project ids that their requests write back.
* Slots: the statistics per API key, the cached batch loads, the one-time sweep of keys
  older than the index, the ingress leases, the user message queue.
* Usage billing, WebSocket pool, scheduler outbox, quota flusher and leader locks:
  planned, section 2; their hazards are listed in `PROJECT.json` with that note.
* Gateway forwarding and protocol translation, account selection, authentication,
  administration, notifications, reports, backups, generated code and user
  interfaces: data and pure I/O, with no protocol between concurrent actors
  that a model would add to. They and the generated persistence code are most of the
  repository's lines.
