# Verification of sub4api

TLA+ models of the parts of sub4api (a gateway that resells access to AI
providers, `backend/` in Go) where concurrency, failures and money meet, the TLC
runs that check small instances of them, and TLAPS proofs that hold for all
instances.  Source paths below are relative to `backend/internal/`, and file names
without a directory are in `backend/internal/service/`.

    tlc -workers 2 -config MCPaymentOrder_delivery.cfg MCPaymentOrder.tla
    tlapm PaymentOrderProofs.tla        (and PaymentRefundProofs, BatchImageProofs,
                                         SystemOperationProofs, TokenRefreshProofs)

`PROJECT.json` lists the components, the runs, the mutants, the lines each
definition models, the findings, the hazards and the theorems.

## 1. The system

| Component | State | Operations | Hard parts | Correct when | Here |
|---|---|---|---|---|---|
| Payment orders (`payment_order.go`, `payment_order_lifecycle.go`, `payment_fulfillment.go`, `payment_order_expiry_service.go`, `payment_resume_lookup.go`) | `payment_orders`, `payment_audit_logs`, `redeem_codes`, `user_subscriptions` | create, webhook, query, cancel, expire, fulfil, retry | webhooks, queries, the expiry job and retries of one order interleave; crashes between delivery and completion; a lease of five minutes; the provider's answers get lost | delivered and rewarded once, only if paid in full, in the end | `PaymentOrder`, `PaymentLedger` |
| Refunds (`payment_refund.go`) | the same tables, `users.balance` | request, plan, execute, query a pending refund | two admins, a spending customer, a gateway that answers late, failed or not at all; rollbacks that fail | deducted once, the order agrees with the gateway | `PaymentRefund` |
| Batch image jobs (`batch_image_*.go`, `repository/batch_image_queue.go`, `batch_image_repo.go`, `usage_billing_repo.go`) | jobs, items, a Redis queue, balance holds | submit, cancel, poll, index, settle, recover, delete | leases and requeueing, crashes between the capture of a hold and the settled status, retry limits | each hold is captured or released once, no job is lost | `BatchImage`, `BalanceHold` |
| Idempotency (`idempotency.go`, `repository/idempotency_repo.go`, `idempotency_cleanup_service.go`) | `idempotency_records` | claim, execute, replay, reclaim, mark, clean up | expired locks, failed stores, retries with another payload | one execution per key, a truthful record | `IdempotencyStore`, `SystemOperation` |
| In-flight billing (`billing_inflight_reservation.go`, `repository/billing_inflight_cache.go`, `billing_cache_service.go`) | Redis reservations and cached balances | reserve, release, expire | release after expiry, stale cached balance | the sum of the reservations bounds the overdraft | not modelled |
| Concurrency slots (`concurrency_service.go`, `repository/concurrency_cache.go`) | Redis sorted sets | acquire, release, wait, clean up | slots of dead processes, expiry during a long request | no more slots than the limit, none leaked | not modelled |
| Token refresh (`oauth_refresh_api.go`, `token_refresh_service.go`, `repository/account_repo.go`, `handler/admin/account_handler.go`, `admin_account.go`, `gemini_token_provider.go`, `antigravity_token_provider.go`) | account credentials, a Redis lock, local mutexes | refresh if needed, recover from a race, refresh by hand, authorize, edit, fill in a project | lock expiry, rotating tokens, lost answers, writers without a lock | a refresh never stores a consumed token over a newer one nor disables a healthy account | `TokenRefresh` |
| Scheduler snapshot (`scheduler_snapshot_service.go`), auth cache invalidation (`auth_cache_invalidation_outbox.go`) | outboxes, Redis snapshots | append, poll, rebuild, invalidate | watermarks, reordered events | the cache converges to the database | not modelled |
| System operation lock (`system_operation_lock_service.go`, `handler/admin/system_handler.go`) | a row of `idempotency_records` | acquire, renew, release | the lease under a long update | one operation at a time | `SystemOperation` |
| Leader lock (`leader_lock.go`) | Redis keys, PG advisory locks | acquire, release | fallbacks between two kinds of lock | one leader | not modelled |
| Usage recording (`usage_record_worker_pool.go`, `user_platform_quota_flusher.go`, `user_msg_queue_service.go`) | queues, accumulators | enqueue, flush | overflow, stop while flushing | nothing is counted twice | not modelled |
| WebSocket pool (`openai_ws_pool.go`, `openai_ws_session_preemption.go`) | pooled connections | lease, prewarm, evict | eviction against acquisition | a connection has one user | not modelled |
| Everything else (gateways and conversions, account selection, providers, login, ops, moderation, backup, plugins, frontend, generated code) | | | data rather than control, or plain I/O | | not modelled |

How the parts meet: a payment provider calls `handler/payment_webhook_handler.go`,
which calls `HandlePaymentNotification`; the expiry service calls
`ReconcilePendingPaymentOrders` and `ExpireTimedOutOrders` every minute under a leader
lock; users and admins call the rest through handlers.  All of them share nothing but
the database and run concurrently in several goroutines and, possibly, processes.
Fulfilment calls the redeem service, the subscription service and the affiliate service,
each in a transaction.  A refund starts from the COMPLETED order that fulfilment leaves,
so these two models are separate: the first ends where the second begins.

A batch image job lives in three stores, the database, Redis and the provider, which no
transaction spans; what holds it together is the order of the writes and the queue that
brings a job back.  The system operation lock and the idempotency coordinator are
composed in one model, because they share a table and its statements
(`IdempotencyStore`), and the lock is taken inside the coordinator's executor.  The token
refresh shares an account's row with the administrators' handlers and with requests that
fill in a missing project, which take none of its locks.  These four touch each
other only through the customer's balance: refunds and batch jobs both move it, each
in one conditional statement, so each model has the others' spending as its environment.

## 2. Plan

1. (done) `PaymentOrder` with the ledger it refines; its runs; its invariants and the
   refinement proved.
2. (done) `PaymentRefund` with its runs.
3. (done) `BatchImage`, refining `BalanceHold`.
4. (done) `IdempotencyStore` and `SystemOperation`, which composes the coordinator with
   the lock.
5. (done) `TokenRefresh`.
6. (done) The safety properties, action properties and the refinement of these four:
   `TokenRefreshProofs`, `PaymentRefundProofs`, `SystemOperationProofs`, `BatchImageProofs`.
7. Left for later models: reservations and slots in Redis, the outboxes, refunds of
   subscription orders.

Each module has its parameters as CONSTANTS with a named assumption, one action per
statement, script or transaction of the code, no recursive operators, and invariants
that are conjunctions of named parts.

## 3. PaymentOrder

**State.** `row` is the order's line in `payment_orders`: its status, its type (chosen by
the creation; "other" stands for orders from releases that did not check it), whether
`paid_at` is set, whether `expires_at` has passed, and two facts about `updated_at`, which ent
replaces on every write: is it five minutes old (the lease of a RECHARGING order is
stale; the grace period of an EXPIRED order is over: both periods are five minutes), and
which workers hold it as the version of their lease.  `Write` resets both.  `audit` is
the audit log as a set, since migration 131 makes (order, action) unique.  `code` is the
order's redeem code.  `delivered` and `rebates` count what the customer and the inviter
got.  `upstream` is the provider's side, `acked` says that a webhook was answered 2xx.
A *worker* is a goroutine that runs one call; `pc`, `call` and `job` say which one and
where it is.

**Actions.** Each action is one statement or one transaction of the code, or one call of
the provider, so that workers interleave wherever the database allows it.

| Code | Actions |
|---|---|
| `CreateOrder`, `createOrderInTx`, `invokeProvider` | CheckPendingLimit, InsertOrder, CreatePayment, RecordPayment, CreateFailed |
| `CancelOrder`, `AdminCancelOrder`, `ExpireTimedOutOrders`, `cancelCore` | CancelOrder, ExpireOrder, CancelPending |
| `VerifyOrderByOutTradeNo`, `ReconcilePendingPaymentOrders`, `checkPaidWithOptions` | VerifyOrder, QueryOrder (with AfterUnpaid), PersistTradeNo, CancelUpstream |
| `HandlePaymentNotification`, `confirmPayment`, `toPaid`, `alreadyProcessed` | Webhook, ConfirmPayment, AlreadyProcessed, SwallowError |
| `RetryFulfillment`, `rejectUnsupportedOrderType` | RetryFulfillment, RejectUnsupported |
| `acquirePaymentFulfillmentLease` | AcquireLease, ReloadLease |
| `doBalance`, `RedeemService.redeem` | LookupRedeemCode, CreateRedeemCode, Redeem |
| `doSub`, `ensurePaymentSubscriptionAssigned` | AssignSubscription |
| `applyAffiliateRebateForOrder` | ApplyRebate |
| `markCompleted`, `markFailed` | MarkCompleted, MarkFailed |
| an error returned between two steps; the death of the process | FulfillmentError, Crash |
| the customer, the clock | Pay, PassDeadline, Age |

CreateOrder's transaction is two actions, because its count locks nothing and so the
inserts of two transactions may follow two counts.  A read whose answer is used by the
very next statement with the same guard (`executeFulfillment`, the status checks before
the claim) is part of that statement: an older answer only makes the call return an
error earlier, which Crash covers.  Best-effort audit writes either happen or not.

**What is abstracted.** The row does not hold amounts: a payment is right or wrong
("underpaid" stands for any amount outside of the tolerance; an amount that is not even
a positive number is one of the failures of QueryOrder).  Provider selection, fees,
bonus, currency, the daily limit, cancel rate limits, notifications and the WeChat OAuth
detour are left out: none of them touches an existing order's status.  The affiliate
service is configured and the base amount positive, or no rebate would be decided.  The
code of an order is redeemed by the fulfilment only.  An order that already is a
refund's is `PaymentRefund`'s.  Recovering an assignment from the note of the
subscription (releases before the audit row existed) is left out.  confirmPayment also
refuses a notification whose provider or metadata are not the order's
(`payment_fulfillment.go:112-131`): the model's payments are of their order.

**The ledger.** `PaymentLedger` says all that matters to the customer and the house:
received money may turn into one delivery and then into at most one rebate.
`ImplementsLedger` maps `received` to the orders the provider holds the full price of;
every action of PaymentOrder is one ledger step or a stutter.

### Runs

All have one order (orders of the model interact only through the pending limit) and two
workers.  With two workers every pair of calls overlaps: one can be
overtaken by the other at every point, crash, and be followed by a third call
in the freed slot.  `MaxFaults` bounds crashes, internal errors and deliveries slower
than the lease; two of them allow an attempt to be lost while its successor is overtaken.
Orders and faults are finite, so the system stops: deadlock is not an error.

| Run | Checks | Shows |
|---|---|---|
| delivery | TypeOK, DeliveryInvariant, DeliveredAtMostOnce, DeliveredOnlyIfPaid, CompletedIsDelivered, PaidNeverWithdrawn, ImplementsLedger | 435 thousand states, all types of orders, two faults and swallowed errors: the redeem code or the unique audit row, not the lease, makes a delivery happen once |
| live | PaidIsCompleted, PendingIsResolved, UnsupportedIsRejected | 191 thousand states, balance and unsupported orders: a confirmed payment is completed or rejected and a pending order resolved, in spite of a fault |
| retry, reconcile | one property each | violated: see Findings |

**Fairness** (`FairSpec`).  Progress: weak fairness for every worker's next step, the Go
scheduler and the time-outs of all calls; errors and crashes are not fair.  Clock: time
passes.  Redelivery: a provider repeats a webhook until it gets a 2xx, and, since a
server accepts more calls than the model has workers, one of the repetitions is
accepted (strong fairness, because the model's workers may be busy again and again).
ExpiryJob: the service scans every minute, likewise.  Nothing is assumed of customers
and admins: they need not pay, cancel or retry, and calls need not be made except for
those two.

## 4. PaymentRefund

**State.** One completed balance order: its `status` and refund `amount`, the `audit` rows,
the detail `held` in the REFUND_PENDING row, the customer's `balance`, the refund
`requests` as the gateway has them, and per admin request a `pc` and the RefundPlan.
`taken` is a history variable: what was deducted and not returned.

| Code | Actions |
|---|---|
| `RequestRefund`, `PrepareRefund`, `prepDeduct` | RequestRefund, PrepareRefund |
| `ExecuteRefund`, `DeductAvailableBalance` | ClaimRefund, DeductBalance, DeductError |
| `gwRefund`, `finishRefund` | GatewayRefund |
| `markRefundOk`, `markRefundPending` | MarkRefundOk, MarkRefundPending |
| `handleGwFail`, `RollbackRefund`, `restoreStatus` | RollbackRefund, RollbackError, RestoreStatus, MarkRefundFailed |
| `QueryAndFinalizeRefund` and what it calls | QueryRefund, FinalizeSuccess, FinalizeFailed, FinalizeReturnError, FinalizeUnreturned |
| the gateway; usage billing; the death of the process | GatewaySettles, Spend, Crash |

Two rows of one action break the unique index of migration 131: inside a transaction
that undoes everything (`Insertable`), outside it is ignored (`Log`).  `AuditFaults`
turns on that the writes of writeAuditLog and the reads of hasAuditLog, whose errors the
code ignores, do fail; `AmbiguousErrors` that the gateway makes a refund and its answer
is lost.  Amounts are whole units; the gateway returns no more than was paid in all.
Each call of the gateway may be a request of its own.  That is more than two providers do:
Stripe's idempotency key (`payment/provider/stripe.go`) and WeChat's refund number are made
of the order and the amount, so that a repetition of one amount is the same request there.
Left out: subscription orders, orders without a trade number (the gateway is then
skipped), pending rows of releases that returned the deduction at once, and two answers to a
query: of a provider that cannot be queried (`payment_refund.go:444-447`, nothing changes)
and of a status the code does not know (`477-478`, taken for a failure).

### Runs

The order's amount is 2, so that partial refunds exist, and two requests may reach the
gateway, so that a refund can fail and be repeated.  The balance covers the order with
or without one unit to spare, and may be spent down to a debt of one.

| Run | Checks | Shows |
|---|---|---|
| refund_safety | TypeOK, DeductedAtMostOnce, DeductionAccounted, RefundInvariant, RefundNeverOverdraws | 367 thousand states: two admins, two faults, ambiguous answers of the gateway |
| refund_gateway | GatewayMatchesOrder, RefundInvariant, PendingConverges | 181 thousand states: with a truthful gateway the status agrees with its requests, even when the audit log fails, and a pending refund converges after it is settled, the first time an order's refund fails |
| refund_stuck, refund_marker | one property each | violated: see Findings |

**Fairness.**  Admin requests run to their end; the gateway settles what it left pending;
an admin queries pending refunds as long as there are some.  No job of the code does the
last: it is an assumption about the people who operate the system, and without it a
pending refund stays pending.

## 5. BatchImage

**State.** `status`, `named` (the provider's job name is stored), `retries` and `hidden`
are the job's row; `claims`, `balance` and `frozen` are the money, where `claims` holds
which of the job's three request ids are in `usage_billing_dedup`; `ready`, `delayed`,
`active` and `inflight` are what Redis has of the job: copies in the list, two sorted
sets, and the key that keeps a second copy out.  `lock` names the worker whose token is
stored, `upstream` is the provider's batch and `cost` what its images will cost.  A
caller is a goroutine with a request or the recovery sweep; a worker is a loop of
`BatchImageWorker`.

| Code | Actions |
|---|---|
| `Submit` and its failure paths | CreateJob, SubmitReserve, CreateItems, StartUpload, ProviderSubmit, RecordSubmit, AbortOrphan, EnqueueJob, Resubmit, ReleaseFailedSubmit, RecordSubmitFailure, BillingRetry |
| `Cancel`, `DeleteRecord`, deletion of outputs | Cancel, CancelUpstream, CancelLocal, ReleaseEnd, DeleteRecord, DeleteOutput |
| `ReleaseStaleUnsubmittedOnce` | FailStale, ReleaseEnd, BillingRetry |
| `BatchImageWorker.RunOnce` | ReserveJob, TryAcquireJobLock, RequeueConflict, RequeueJob, AckJob, ReleaseLock |
| movers and recovery | MoveDueDelayed, RecoverStaleActive |
| `BatchImagePipelineProcessor`, `BatchImageProviderProcessor` | PipelineProcess, Process, GetProviderStatus, ApplyProviderStatus, IndexResult, StartSettling, ReleaseTerminal |
| `BatchImageSettlementService` | Settle, Capture, MarkSettled, RecordSettlementFailure, ReleaseExhausted, FailExhausted, Recheck |
| time, the provider, processes | ExpireLock, ProviderFinishes, Crash |

Every call of a store is a `Try`: it has its effect, or fails, or, with
`AmbiguousCommits`, has its effect and reports a failure; the last two are faults.  A
lease of a live process ends only when its heartbeat pauses, which is counted apart
(`MaxPauses`).  A retry counter is capped at its limit, the only value it is compared
with; the test for the `SETTLEMENT_` prefix is dropped because nothing else counts.  A
failed enqueue after the submission records an error code and no status.  The provider
may refuse at any time without it being a fault; a batch without an output file
(`batch_image_processor.go:189-191`) is a failed IndexResult, and so a bounded fault.
Nothing but this job moves the balance; what is frozen for others is a constant that must stay untouched.

**The hold.** `BalanceHold` is what the customer is promised: reserve once, then
capture the cost and return the rest, or return all.  `ImplementsHold` maps its state
to the claims and the frozen amount.

| Run | Checks | Shows |
|---|---|---|
| batch_job | TypeOK, InflightIsQueued, QueuedUntilDone, ChargedIffSettled, BatchInvariant, ImplementsHold, EnqueuedIsResolved | 673 thousand states: two workers, two callers, one fault that may be an ambiguous write, one pause, two retries, an unaffordable or affordable hold, a cost within or beyond it |
| batch_release | FailedIsReleased | violated: see Findings |

**Bounds.** Two callers let every request overlap any other, or the sweep.  Two copies
in the ready list are what the key and one recovery can produce.  Two limits are more than
bounds of the run, and the properties state them.  *Fewer faults than retries*: when as
many captures commit and report an error as there are retries (five in the code), the
exhausted settlement releases a hold that has been captured.  *Fewer than two pauses*: a
worker that loses both its lock and its place in the active set, that is, one that hangs
through several heartbeats, can fail a job another worker has charged, or acknowledge one
that is still settling, which the processor's second reading counts as done.
`BatchInvariant` alone has been checked with `MaxPauses = 2` as well.

**Fairness.** The workers' loops, the mover and the recovery tick; the provider's batch
ends; an unrenewed lease expires.  Nothing is assumed of callers.

## 6. SystemOperation

**State.** `rows` is the part of `idempotency_records` that matters: one row per key and one
for the lock, with status, fingerprint, `locked_until` (none, ahead or behind) and whether
`expires_at` has passed.  `IdempotencyStore` has one operator per SQL statement.
A request is a handler: `at` says where it is, `op` what it runs, `seen` the status it
read before a TryReclaim.  A caller's clock is read once, at the start of a call:
`older` holds the requests that read it before the row's last write, for whom a new
deadline is never behind.  `applied` counts how often the operation of a key took effect
in the life of its row, from its creation to its expiry.

| Code | Actions |
|---|---|
| `IdempotencyCoordinator.Execute` | Claim, Reclaim (with Decide), Mark |
| `SystemOperationLockService.Acquire`, `renewLoop`, `Release` | Acquire, ReclaimLock, Renew, Release |
| `PerformUpdate`, `Rollback`, `RestartService` | Operate |
| `cleanupOnce`, time, processes | DeleteExpired, Lapse, Expire, Crash |

Left out: requests without a key, the renewal of callers that set an ExecutionTimeout
(the system's handlers do not), the stored answer, and errors of the store before the
record is claimed, after which nothing has changed.  RestartService answers, and its success
is recorded, before a goroutine restarts the process: Operate takes its effect with the
decision to restart.  An operation is assumed to
be shorter than the hour its row lives.

| Run | Checks | Shows |
|---|---|---|
| sysop_lease | TypeOK, AppliedOncePerKey, RecordTellsTruth, OneWhileLeased, OperationInvariant, ProcessingEnds | 262 thousand states: two requests, two operations under a key each, one crash, lost mark or missed renewal |

Two requests overlap in every way; rows expire, are deleted and created again any number
of times.  **Two exceptions** are part of the properties, as history variables, because the
code has them: without them both invariants are violated, with no fault at all.

- `overtaken`: TryReclaim compares status and lock but not `expires_at`, and a success
  clears the lock.  Two requests that read one expired, succeeded row both reclaim it,
  one after the other, and the operation runs twice in the row's new life.
- `exposed`: TryReclaim keeps the fingerprint of whoever created the lock's row, which
  ExtendProcessingLock compares.  A holder that reclaimed the row cannot renew it: its
  lease of 30 seconds lapses under a longer operation and another one starts.

**Fairness.** Handlers run on, time passes, the cleanup ticks.  Renewals are not fair.

## 7. TokenRefresh

**State.** `account` is the row: the refresh token, whether the access token is in its
refresh window, the status, and `filled`, which stands for the rest of the credentials: the
project that was missing at first, or any other key (for Grok's comparison, the proxy) that
an administrator changes.  A token is the n-th of an authorization; `current` has how
often the provider has rotated each, so a token is spent when it is not the latest.
`mutex` are the local locks, `lock` the keys in Redis, which name nobody, `leased` the
attempts that will delete one.  Attempts are of the background service, of a request, or an
administrator's; `read` is the row an attempt has read, `got` the token it is to write.

| Code | Actions |
|---|---|
| `RefreshIfNeeded`, `tryRecoverFromRefreshRace` | Start, LockLocal, GiveUp, AcquireLock, Reread, Call, Store, Recover |
| `refreshWithRetryWithRateGate` (permanent errors) | Disable |
| `refreshSingleAccount` | RefreshByHand, Call, ReadRow, WriteRow |
| `ApplyOAuthCredentials` | Authorize, ReadRow, WriteRow, ClearError |
| `UpdateAccount` (an edit), `updateLockedAccount` | ReadRow, WriteRow |
| the project of `GeminiTokenProvider` and `AntigravityTokenProvider` | FindProject, FillProject |
| time, Redis, processes | ComeToEnd, LeaseEnds, Crash |

The provider rotates: it answers a spent token with invalid_grant.  Faults are errors of
the database and of Redis (where SETNX may or may not have had its effect), lost or late
answers, leases that end early, crashes, and refreshes by hand, which present a token
without any lock.  OpenAI's `refresh_token_reused` is a permanent error without a recovery
(`token_refresh_service.go:1419`); Recover lets the attempts of all platforms but Grok's
go that way.

**Writers without a lock.**  Three kinds of writer change the columns under a refresh.  All
three read first and write later, and their writes compare nothing:

- `UpdateAccount` (`admin_account.go:599` to `953`), by itself as an edit or at the end of a
  refresh by hand or an authorization, writes every column of the row it has read, status
  included (`account_repo.go:540-551`).  A form that holds credentials of its own, read
  earlier still, is merged with the row's non-secret keys; the model has one reading.
- A request of a Gemini or Antigravity account without a project asks upstream for it and
  writes its credentials with the project filled in (`gemini_token_provider.go:137-141`,
  `antigravity_token_provider.go:136-146`).
- RefreshIfNeeded itself writes the document it has read with the answer upon it, so that a
  project filled in since is taken away; only Grok's update compares.

The first two put an older token back when a refresh is stored between their reading and
their writing, as `ratelimit_service.go:496-503` describes of a writer that was removed.  The
next cycle then presents a spent token, recovery finds the stored one equal to it, and a
healthy account is disabled, with nothing lost.  The history variable `clash` records that
an older document has been written over a newer token (`RollsBack`), that a second lock was
taken beside a lease (`SecondKey`: Gemini's lock is named after the project once that is
known, `gemini_token_provider.go:178-189`), or that Grok's comparison dropped an answer
because of another key's edit (`Discarded`).  The properties except precisely these:

- PresentsFreshTokens holds until the first fault or clash, so beside edits, backfills and
  authorizations that do not meet a refresh in one of these three ways.
- CredentialsMoveForward, which has no exception of faults or of clash, says which step goes
  backward: only the write of a document as it was read (`WritesBack`).  A refresh, its late
  answers and its lost races never do.  Leaving a newer authorization for an older one is up
  to an administrator's write on Grok's accounts, where a refresh compares; on the others a
  refresh that was under way does it as well.
- DisabledOnlyIfSpent is about the service: it disables after a fault or a clash only, and a
  Grok account only when the token the row holds at that moment is spent.  What status an
  administrator's form writes, or writes back, is left aside.
- LocalExclusion is per process and key.  For platforms with a constant key (Antigravity's
  `ag:account:<id>`, OpenAI, Anthropic) that is per process.

**Left out**: the cache of access tokens and its version check, cool-downs and retries
inside one cycle (a retry is another Start), rate gates and the provider breaker, the status
"inactive", the path without a refresh API (`token_refresh_service.go:897-915`, not wired),
the synchronization with another installation (`crs_sync_service.go`, which replaces the
credentials by that installation's), `openai_agent_identity.go` and `openai_alpha_search.go`
(accounts without a rotating token), bulk updates (merged inside the database), and
`AccountService.Update`, which nothing calls and which would be one more edit.

| Run | Checks | Shows |
|---|---|---|
| token_rotation | TypeOK, LocalExclusion, PresentsFreshTokens, RefreshInvariant, CredentialsMoveForward, DisabledOnlyIfSpent, ExpiringIsReplaced | 313 thousand states: Grok and the others, with and without a project; two background processes, a request that also fills in, and an administrator in the first; two faults or rounds of the unlocked writers, two authorizations |

**Bounds.** `MaxTrouble` bounds faults and the rounds of the unlocked writers together.  Two
allow a lease to be lost and its victim to go on to another failure, an edit to roll a
refresh back and a backfill to move the key, an authorization to meet an edit or a fault.
One expiry is enough for a second refresh, because a rollback brings the old access token
back, near its end.

**Fairness** (`FairSpec`).  The background cycle comes round; attempts run on, as all
their calls have time-outs; a Go channel serves its waiters in order, hence strong fairness
of LockLocal; a lease ends.  Requests and administrators need not come.

## 8. Findings

What a comment or document of the repository says and the code does not do; each has a
run with a counterexample.

1. `retry`: a FAILED order may lack `paid_at` and be refused by the admin's retry.
2. `reconcile`: money that arrives after the grace period is acknowledged, not delivered.
3. `refund_stuck`: a second failure of a pending refund can never be recorded.
4. `refund_marker`: a lost or unread rollback marker deducts twice.
5. `batch_release`: a cancellation between a batch job's insert and its hold leaves the
   hold frozen with nothing to release it.

Neither of the first two delivers an order twice or unpaid: the `delivery` run contains
these behaviours, and the theorems below hold for them.

Behaviours of the models that a reader should know of, without a run of their own:
the two exceptions of section 6; the two limits of section 5; the unlocked writers of section
7, which roll a refresh back, the two locks of a Gemini account around a backfill, and a
Grok answer that is dropped because another key was edited meanwhile; a batch job whose
process dies after the submission is recorded and before it is enqueued waits for a
resubmission with its key; concurrent CreateOrder calls can exceed the
pending limit, whose count locks nothing; two workers can hold one lease version, which is read back after the claim (the order is
still delivered once); a payment of the wrong amount keeps its order PENDING, because
every query answers already_paid and no confirmation succeeds; an unforced refund takes
what the balance holds when it runs, which may be less than the plan saw; an order whose
refund dies between two statements stays REFUNDING; an error of the gateway that hides
a success rolls the order back although the money went out.

## 9. Proofs

TLC checks the instances above; the theorems hold for any number of processes, orders,
amounts, faults and retries.  Each `...Proofs` module extends the module it is about and
proves from that module's named assumptions on its constants; where a theorem needs more,
the table says what.  Every proof has the same shape: `IInv` is TypeOK and the
component's invariant, both invariants of its run; `Init => IInv`; `IInv /\ [Next]_vars =>
IInv'`, with one step per action, under it what the action can disturb; the safety
properties follow from `IInv`, and the action properties and refinements from one step out
of a state with it.  Helpers of the models (Goto, Return, Write, Claimed, ...) have their
effect stated once, as a lemma, and *frames*, lemmas that say what most steps leave alone,
spare the long case distinctions.

### PaymentOrderProofs

| Theorem | Statement |
|---|---|
| TypeCorrect | `Spec => []TypeOK` |
| EvidenceMatchesDelivery | `Spec => []DeliveryInvariant` |
| AtMostOnce | `Spec => []DeliveredAtMostOnce` |
| OnlyIfPaid | `Spec => []DeliveredOnlyIfPaid` |
| CompletedMeansDelivered | `Spec => []CompletedIsDelivered` |
| NeverWithdrawn | `Spec => PaidNeverWithdrawn` |
| LedgerImplemented | `Spec => ImplementsLedger` |

DeliveredAtMostOnce is not inductive: nothing in it says why a second
worker at the redemption finds the code used.  `DeliveryInvariant` adds why:

- *DeliveryHasEvidence*: `delivered` is 1 exactly when the evidence the code consults is
  there, the used redeem code or the SUBSCRIPTION_ASSIGNED row.  The two change in one
  transaction, so whoever comes second is refused, lease or no lease.
- *RebateFollowsDelivery*: a worker past the delivery works on a delivered order, the
  rebate comes with its audit row, and a COMPLETED order has both.
- *ConfirmedIsPaid*: whoever is past the comparison of amounts has a paid order, and what
  the provider holds is never taken back (a payment is opened once, *OpenedOnce*, and only
  an open one is paid or closed).
- *DeliversItsType* and *CallsKeepPurpose*: a call does not end in the statements of
  another kind of call.

The leases and their versions are not needed: they save work, not correctness.  The
proof states the invariant per order (`OrderOK`) and per worker (`WorkerOK`); lemma
Regrouped shows that this is TypeOK and DeliveryInvariant.  `Kept(o)` collects what never
gets lost about an order (delivered, decided, paid, not absent); a step on one order keeps
what every other worker knows.

### PaymentRefundProofs

| Theorem | Statement | Under |
|---|---|---|
| TypeCorrect | `Spec => []TypeOK` | |
| RefundIsSound | `Spec => []RefundInvariant` | |
| NeverDeductedTwice | `Spec => []DeductedAtMostOnce` | `~AuditFaults` |
| NoDeductionLost | `Spec => []DeductionAccounted` | `~AuditFaults` |
| OrderMatchesGateway | `Spec => []GatewayMatchesOrder` | `~AmbiguousErrors` |
| NeverOverdraws | `Spec => RefundNeverOverdraws` | |

The two assumptions are necessary: `refund_marker` deducts twice when the audit log's
errors are swallowed, and a gateway that refunds and reports an error makes the order
disagree with it.  They are independent, and `RefundInvariant` has each only where it is
needed:

- *ClaimExcludes*: the conditional update to REFUNDING lets one attempt in, and every way
  out of it leaves REFUNDING first or for good.
- *PendingOnce*: the unique row REFUND_PENDING lets an order become pending once in its
  life, so that what a query read of it is true when its outcome is applied, however late.
- *DeductionsTracked* (`~AuditFaults`): what is taken is what the attempt, or the pending
  row, says it took, or the rollback marker is there and the next attempt takes nothing.
- *RequestsTracked* (`~AmbiguousErrors`): all requests at the gateway but one have failed,
  and the order, its attempt and the queries of it agree on that one.

GatewayMatchesOrder is about sums over the requests, which the model defines by a recursive
function.  Induction is out of the prover's reach, but here every term but one is 0: lemma
LeastOf (a set of bounded numbers that is not empty has a least one, because inclusion of
finite sets is well-founded, a theorem of the library) gives the least counterexample to a
candidate sum, and from it SumIsUnique and TotalOfOne follow.

### BatchImageProofs

| Theorem | Statement | Under |
|---|---|---|
| TypeCorrect | `Spec => []TypeOK` | |
| BatchIsSound | `Spec => []BatchInvariant` | |
| KeyHasEntry | `Spec => []InflightIsQueued` | |
| StaysQueued | `Spec => []QueuedUntilDone` | |
| ChargedAsSettled | `Spec => []ChargedIffSettled` | |
| HoldImplemented | `Spec => ImplementsHold` | `MaxPauses <= 1`, `MaxFaults < MaxRetries` |

Two guards keep a second worker off a job: there is one copy of it in the queue
(*OneCopy*), and whoever works on it holds the lock (*LockHeld*).  Errors and crashes
hurt neither.  A lease of a live process that expires hurts one of them: an expired lock
lets a second copy's worker in, if there is a second copy, and a recovery of the active
set makes a second copy, whose worker still meets the lock.  Hence *GuardsHold*: both of
them before the first such pause, one of them before the second.  The rest of
`BatchInvariant` builds on it:

- *SubmitAlone*: one Submit, and nobody takes the job further while it runs.
- *StepsInOrder*: what a process knows of the status and the claims however late it acts,
  because the order of a job's statuses has no way back.
- *ReadsHold*, *KeyKept*: what a worker knows only as long as it is alone: the status it
  read has not been overtaken, and its acknowledgement takes the key of a finished job.
- *HoldKept*, *HoldTracked*: until the settlement the hold's claim is the only one, and
  the frozen amount is what the claims say.
- *RetriesTracked*: a settlement that the hold can pay for fails by faults only, so that
  fewer faults than retries never exhaust it.

`data` and `money` group the variables by who may change them; CallerFrames and
WorkerFrames say once per step how the status, the queue and the money may move, and each
part of the invariant is proved from these frames instead of from the 44 actions.

The proof changed what the project claims.  ChargedIffSettled was stated without a limit of
pauses, which the attempt at its inductive step refuted: with two of them TLC finds a worker
that fails a job that another one charges.  The property now says so.  QueuedUntilDone,
which had been claimed up to the first pause only, holds up to the second.

### SystemOperationProofs

| Theorem | Statement |
|---|---|
| TypeCorrect | `Spec => []TypeOK` |
| OperationIsSound | `Spec => []OperationInvariant` |
| OncePerKey | `Spec => []AppliedOncePerKey` |
| RecordIsTrue | `Spec => []RecordTellsTruth` |
| OneAtATime | `Spec => []OneWhileLeased` |

`OperationInvariant` says of a key (*KeyExcludes*) that it has one owner at a time, whose
row is processing, its lock live and the row not expired, so that neither a TryReclaim nor
the clean-up touches it; *EffectsTracked* that `applied` is what this owner has done since
the row was created.  *LeaseHeld* says the same of the lock's row until a lease lapses
under its holder.  A request reads its clock early and may reclaim late: a deadline written
in between lies ahead of its clock (`older`), and *StepsInOrder* says that it reclaims only a
row it has seen.  The statements of `IdempotencyStore` enter by two lemmas,
StoreWritesRows and StoreEffect.

### TokenRefreshProofs

| Theorem | Statement |
|---|---|
| TypeCorrect | `Spec => []TypeOK` |
| RefreshIsSound | `Spec => []RefreshInvariant` |
| OneAttemptPerProcess | `Spec => []LocalExclusion` |
| FreshTokensPresented | `Spec => []PresentsFreshTokens` |
| NeverBack | `Spec => CredentialsMoveForward` |
| HealthyStaysActive | `Spec => DisabledOnlyIfSpent` |

`RefreshInvariant` has three layers.  *LocksHeld*: the local mutex excludes, always, and
without the lease; the administrators' handlers keep to places of their own.  *TokensKnown*:
an answer on its way to the database is the latest token of its authorization and known
to nobody else, always, and a document that is written back holds a token that was issued.
*LeaseExcludes*, until the first fault or clash: the Redis key stands for the one attempt
past it, and the stored token is good unless this attempt has its successor.  The proof of
the last keeps two things together (`Lossless`): that the stored token is good and that an
attempt presents what is stored.  WriteRowEffect and FillProjectEffect say once what an
unlocked writer can do to the row: until a clash it leaves the token in place or brings a
new authorization's.

NeverBack follows from TokenMoves, which says of every step where the stored token may come
from: it stays, or is what an attempt has to write, the answer of a refresh or a row or
document of an unlocked writer.  HealthyStaysActive
needs LeaseExcludes for the first part (without a clash nobody reaches Disable) and, for
Grok, TokensKnown: what Disable compares with the row is a token that was refused, and a
refused token stays spent.

**Model-checked only.**  Liveness, whose fairness and ENABLED the provers do not
reach: PaidIsCompleted, PendingIsResolved, UnsupportedIsRejected, PendingConverges,
EnqueuedIsResolved, ProcessingEnds, ExpiringIsReplaced.  The counterexamples of the
findings.

## 10. Not modelled

- Several batch jobs of one customer: their holds compete in one conditional statement.
- The cache of access tokens: an invalidation between a provider's version check and
  its write of the cache leaves a revoked token there until it expires.
- In-flight reservations and concurrency slots: single Redis scripts whose correctness is
  about scores and expiry times rather than about interleavings; the WebSocket pool, one mutex
  in one process; the outboxes of the scheduler and of the authentication cache; the usage
  queues; the leader lock.  All are candidates for later models.
- Gateways, conversions, account selection, login, monitoring, moderation, backup, plugins,
  the frontend and generated code (most of the repository's lines): data, presentation or
  plain I/O, with no state of their own to check.
