# Constella: a TLA+ model of its task runtime, OCR pipeline, live reports, settlements, billing and AI conversations

Constella is a live-streaming operations platform: a Next.js application, a
PostgreSQL (Supabase) database whose functions hold the critical transactions,
and two worker processes that run OCR jobs and recording analyses in the
background. This directory holds TLA+ modules translated from that code, the
TLC runs that check them on small instances, and TLAPS proofs that hold for
every size. All paths below are relative to the repository root.

## 1. The system

### Components, their state and their operations

| Component | State | Operations | What makes it correct |
|---|---|---|---|
| Async task runtime (`supabase/migrations/20260714100000…`, `20260714110000…`, `features/async-tasks/repository.ts`) | `background_jobs`, `recording_ai_analyses`, `async_task_events`, `async_task_queue_controls` | claim, renew, finalize, reconcile, pause and drain | one outcome per task, decided by the latest claim; per-organization cap; a task the workers may claim does not wait for ever |
| OCR job pipeline (`features/ai/ocr-jobs.ts`, `ocr-worker.ts`, `ocr-instant-run.ts`) | the job, `ocr_results`, `live_reports.status`, `usage_reservations` | lease claim, inline claim, run, finalize, fail, cancel, retry, confirm, mark for review | no unpaid result, no second owner, final statuses stay, staff's decisions stay |
| OCR usage reservations (`supabase/migrations/20260731090000…`, `features/billing/usage-reservations.ts`) | reservations, monthly counters, usage events | enqueue, reserve, consume, release | billed once, in one month, within the allowance |
| Provider circuit breaker (`features/async-tasks/provider-circuit-breaker.ts`) | one row per provider | ask, acquire the probe, report success or failure | opens on counted failures, closes by its prober, is always probed again |
| Usage counters and paid orders (`features/billing/apply-paid-order.ts`, `billing-repo-supabase.ts`) | monthly counters, subscription | apply or refund a plan or an add-on | never forgets what was used |
| Billing orders (`webhooks.ts`, `subscription-jobs.ts`, `checkout.ts`, `refunds.ts`) | orders, transactions, webhook events | checkout, payment event, refund event, refund by staff, cancel, sweep | paid with money only, granted once, refunded only when the money went back |
| Scheduled runs (`20260714100000…`) | scheduled job runs and items, maintenance lease | ensure a slot, claim, complete, finalize, reconcile | one run per slot, every item done |
| Worker loop (`features/async-tasks/worker-loop.ts`, `scripts/workers/*.ts`) | desired state, heartbeat in flight | poll, heartbeat, pause, drain, stop | drains without losing jobs, is seen alive |
| Recording analyses (`features/recordings/recording-ai-*.ts`) | `recording_ai_analyses`, segments | request, claim, run, finalize, cancel | as the OCR pipeline |
| Live reports and tasks (`features/live-operations`) | `live_tasks`, `live_reports` | start, stop, cancel, break off, submit by hand or by screenshot, supersede, confirm, review, resolve an anomaly | a task ends as a reviewer decided, a report is replaced only by another, a finished task stays |
| Settlements (`features/settlements/settlement-service.ts`, `custom-rule-exception-service.ts`, `supabase/migrations/20260711130000…`, `20260711133000…`) | batches, items, rule exceptions, manual items | generate, resolve an exception, add a manual item, confirm, lock, reopen | a report is paid once, totals are the sums of the items, nothing is settled with an open exception |
| AI conversations (`features/ai/conversation-*.ts`, `features/ai/native-assistant/*-executor.ts`, `supabase/migrations/20260722100000…`) | turns, their messages, invocation, capability and lease | create, retry, regenerate, cancel, execute, finish, announce | one turn at a time, one answer per question, the client is told what was recorded |
| Complex cost, projects, admission, collaborations, streamers, organizations, platform administration, dashboards, libraries | rows of their own | forms, listings, arithmetic | unit-testable rules |

`PROJECT.json` lists all of them with their status.

### How they interact

The web application enqueues an OCR job: one transaction charges the quota
(reservation), inserts the job, its result row and moves the live report to
`ocr_ing`. An *inline run* in the web process may take the job at once; an *OCR
worker* asks the provider breaker, claims a batch of leases and runs the jobs
one after the other while a timer renews the current lease. A run reserves its
usage (again, if an earlier attempt released it), checks the report, calls the
provider, consumes or releases the reservation, and writes job, result and
report, in an order that differs between workers (finalizer first) and inline
runs (result first). Staff retry failed jobs, confirm metrics, mark jobs for
review, and confirm or void the report by hand. Billing rewrites the counter
row that the reservations are charged to: a customer pays an order at the
payment provider, the provider's event reaches the webhook route, and
`handleWebhook` marks the order paid and applies it to the subscription, the
counters or the add-ons; staff refund it through the provider, which reports
that too.

A live task and its reports sit on both sides of the OCR job: the submission of
a screenshot inserts a report and enqueues its job in one transaction that also
takes the task into review, a finished job or a clerk hands the report to the
reviewers, and the review writes the report and then the task. Approved reports
are the pool from which staff generate settlement batches; a report is linked to
the batch that pays it. An AI conversation shares no row with any of these: the
request that creates a turn also executes it, streams its events, and may be
cancelled or outlived by the requests of other windows.

### What is hard

- two claim paths that do not share a lock (leases against `locked_at`);
- leases that lapse while their holder goes on, on hosts whose clocks differ;
- read-then-write by id across `await`s in the application code, around
  database functions that are atomic;
- processes that die between two of those writes, and calls that throw;
- retries of what was done, by workers, by staff and by the payment provider;
- an optimistic update that re-reads the row it was decided on;
- a status, a total or a gate that is read, awaited on and then written by id;
- an answer that is lost after the transaction behind it committed.

The hazards, each at its line with the properties that would catch it, are in
`PROJECT.json` under `hazards`.

## 2. Modules

| Module | Models | Composed with |
|---|---|---|
| `TaskLifecycle` | what the runtime promises about one task set: tries, then one outcome | implemented by `AsyncTasks`, and by `OcrJobs` while leases are kept |
| `ReservationLifecycle` | what quota and pipeline owe each other about a reservation: taken, given back, consumed once | implemented by `UsageReservations` and by `OcrJobs` |
| `CircuitBreaker` | what a breaker promises its callers | implemented by `ProviderBreaker` |
| `Conversation` | a conversation as its owner sees it: turns, questions, the answer shown | implemented by `ChatTurns` |
| `AsyncTasks` | claim, renew, finalize and reconcile, each one transaction; queue controls; batches, crashes and clock skew of the workers | `INSTANCE TaskLifecycle` |
| `UsageReservations` | reservation functions and billing's read and write of the counter | the reservation of `OcrJobs` in detail; `INSTANCE ReservationLifecycle` |
| `OcrJobs` | one run's steps over job, result, report and reservation; workers, inline runs and staff | abstracts the clock of `AsyncTasks` and the counter of `UsageReservations`; `INSTANCE TaskLifecycle`, `ReservationLifecycle` |
| `ProviderBreaker` | the breaker row and what the workers do with it | the question before a claim of `OcrJobs`; `INSTANCE CircuitBreaker` |
| `BillingOrders` | an order, its transactions and its events between customers, the payment provider, webhook requests, staff and sweeps | what a grant writes is in `UsageReservations` |
| `LiveReports` | one task and its reports between the requests of streamers and staff | the job behind a screenshot is in `OcrJobs` |
| `Settlements` | the batches of one project between the requests of staff | which reports are approved is `LiveReports`' matter |
| `ChatTurns` | the turns of one conversation: their executors, the owner, the lease | `INSTANCE Conversation` |
| `AsyncTasksProofs`, `UsageReservationsProofs`, `OcrJobsProofs`, `ProviderBreakerProofs`, `BillingOrdersProofs`, `SettlementsProofs`, `LiveReportsProofs`, `ChatTurnsProofs` | theorems | extend their modules |
| `AsyncTasksMC`, `OcrJobsMC`, `UsageReservationsMC`, `BillingOrdersMC`, `LiveReportsMC`, `SettlementsMC`, `ChatTurnsMC` | values, symmetry and one bound for TLC | |

### AsyncTasks

`task` is the row of each task, `queue` the organization's desired state,
`events` the terminal rows of `async_task_events`, `held` what a worker's memory
says it has claimed. `lease` and `delay` are *relative* to the present
(`lease_expires_at - now`), and `Tick` lowers them, so time needs no bound. A
caller passes its own clock as `p_now`; it may be off by `ClockSkew`. `Claim` is
a whole call of `claim_async_ocr_jobs`: a batch of rows, each claimable, the cap
kept for every organization among them. `Finalize` is fenced by owner, attempt
and live lease, as `finalize_async_task` is, and a repeated call finds the event.
`RequestCancel` sets `cancel_requested_at`, which every claim looks at and no code
of the repository writes; one of the three tasks may get it (`Cancellable`).
Three task types share this code; the OCR copy is the one cited.

### UsageReservations

`res`, `counter` and `usage` are the three tables. A database function locks its
rows and is one action. `ReadForPlan`/`ReadForAddon` and `WriteCounter` are the
two calls of `upsertUsageCounter`'s callers, with anything in between. Its read
may fail without being noticed (`Reads`): the write then puts back zeros.

### OcrJobs

An executor (worker or inline run) is a record: the step it is at, the job, the
attempt and max it read when it claimed, whether *it* found the reservation
reserved, and how the provider call ended. Every `await` is a step. A call may
throw where the code lets it (`Throwing`), and what follows depends on which
handler is reached (`Throw`, `Caught`). Time is open: a live lease may lapse and
a lock grow old at any moment. `LeasedSpec` is the part of the system in which
lease workers are by themselves and no lease lapses while its holder works
(`startLeaseRenewal` renews in time); they may crash, throw and be taken over.
`Lifecycle` maps the job rows to `TaskLifecycle`, `Reservation` the reservations
to `ReservationLifecycle`.

### ProviderBreaker

`breaker` is the row; `window` and `lease` stand for `opened_until` and
`probe_lease_expires_at` against the present. `Ask` reads, `AcquireProbe` is
the conditional update, `Report` is the read of `recordProviderSuccess` and
`recordProviderFailure`, and `Close`, `Reopen`, `Count` and `Update` are the
calls it leads to. A worker reads its clock once for each of these chains (`Poll`,
`Answer`), before it reads the row, and its update compares with that reading,
whatever the time is by then. `before` keeps what matters of a reading: which of
the row's two times it comes before. So a prober whose lease runs out between its
reading and its update still closes or reopens the breaker, and a slow update may
write a time that is already past (`Writes`). The hosts' clocks agree.
A worker goes on to the next job of its batch without asking
again (`Done`), and goes on when a report throws (`Throw`). Under the mapping
`Row` the trial of `CircuitBreaker` is the prober's until another begins, and is
`running` while its lease does; what workers have read is hidden.

### BillingOrders

`order`, `txn` and `log` are `billing_orders`, `billing_transactions` and
`billing_webhook_events`; `benefit` counts how often an order was granted
(`applyPaidOrder`) and taken back (`applyRefund`). `money` and `sent` are the
payment provider's: what it did with the customer's money, and the events it has
sent. The provider is external and modelled by what `handleWebhook` must cope
with: an event is true when it is sent (an event of another amount is
`mismatched`), and is delivered at any later time, any number of times, to any
request. A webhook request walks through `handleWebhook` one repository call at
a time, a refund through `requestRefundCore`; either may end at any step. The
sweep of unpaid orders reads the pending orders and later writes by id, and
`Offer` may follow a cancellation, because checkout read the order before.
Events that cannot be verified change no order and are left out.

### LiveReports

`task` and `report` are the rows, without what a report measures. A request
(`req`) walks from what it read to what it writes: `ReadToMove` and `Move` for
start, stop and cancel, `ReadToSubmit` … `Advance` for a report by hand,
`ReadToUpload`, `ListPriors`, `Insert`, `Enqueue` or `Refuse`, and `Supersede` or
`Void` for a screenshot, `ReadToConfirm` … `Confirm` for a confirmation, and
`ReadToReview`, `ReviewReadTask`, `Decide` and the writes of the task for a
review. Every write goes to a row by id, whatever it has become; only
`enqueue_ocr_job` locks what it checks. `Break` ends a request between two
writes, and `EnqueueUnheard` is a transaction that commits unheard. `calm` records
that no two requests have overlapped and none has ended early: two properties are
promised for such histories alone, since the code takes no lock.

### Settlements

`batch` and `item` are `settlement_batches` and its items with their
`settlement_rule_exceptions`; `manual` sums the manual items. Money is reduced to
whether an item has its amount. `Create` and `Resolve` are the calls of the two
database functions, with everything they check under their locks; the readings
that lead to them (`ReadPool`; `ReadToResolve`, `ListExceptions`, `ReadItem`) are
steps before. Confirming, locking, reopening and adding manual items read, ask,
and write by id.

### ChatTurns

`row` is a turn with its invocation and root capability, `message` the status of
its answer, `exec` the step its executor is at, `told` the last event of its
stream. `Create` is the database function: it fails the turn that outlived its
lease, wants no other turn active, and refuses a second successor of a turn.
Then the same request runs `WriteSeed`, `Prepare`, in the gateway runtime `Issue`,
`Capture`, the model's reply, `Complete` or `Fail`, `Verify`; the legacy runtime
has `Generate` before the reply, which may be an error before any of these, and
`Validate` and `FinishLegacy` after it. `Recheck` reads the turn again after a
finishing call that threw; when that read fails too, the turn is to be failed. The triggers on a turn that
ends are in `Ended`. `Stop` is a call that throws where nothing catches it, a lost
reply or a death; `Lapse` a lease that nobody renewed, by a dead executor or a
slow one, which goes on. A turn's context is the set of answers it froze. The
outcome `complete` also stands for partial and blocked, which are recorded the
same way; a failure that may not be retried is one that nobody retries. The
mapping `Owner` to `Conversation` keeps a turn's state (an active turn without a
lease is `lapsed`), the turn that asked its question (`Line`), and the answers
that are not superseded.

## 3. Runs

| Run | Bounds | Shows |
|---|---|---|
| `async_tasks` | 3 tasks in 2 organizations, 2 workers, 2 attempts, cap 1, batch 2 | one outcome (`OneOutcome`), the cap (`OrgCap`), fencing (`OutcomeByLatestClaim`), the refinement (`ImplementsLifecycle`), service (`EveryTaskServed`) |
| `usage_reservations` | 3 reservations, plans of 1 or 2 pages, one add-on bought or refunded, 2 months | `ConsumedOnce`, `CounterFollows`, `ChargedWithinAllowance` |
| `ocr_staff` | 1 worker, 1 inline run, 1 clerk, 1 attempt and one by retry | `PaidResult`, `OwnerHoldsLatest`, `ReportLeftToStaff` |
| `ocr_workers` | 2 jobs, 2 workers, 2 attempts, leases kept | `ImplementsLifecycle` |
| `provider_breaker` | 2 workers, threshold 3, 3 tries | `OpenedByFailures`, `ClosedByProber`, the refinement (`ImplementsBreaker`), `Probed` |
| `billing_orders` | 1 order, 2 webhook requests, 2 refunds, 2 events | `GrantedOnce`, `MoneyBehind`, `RefundBehind` |
| `live_reports` | 2 requests, 2 reports, 1 early end | `DecisionsReviewed`, `ReviewHasReport`, `FinishedStays`, `SupersededHasSuccessor`, `OcrLeavesTask` |
| `settlements` | 2 batches over the same 2 reports, 2 rule variables, 2 requests, 2 manual items | `NoDoubleSettle`, `ComputedTotal`, `GateHolds`, `ManualCovered` |
| `chat_turns` | 3 turns, both runtimes, one late executor (`OneLate`) | `OneAnswer`, `RowsAgree`, `ToldTruth`, the refinement (`ImplementsConversation`) |
| `billing_granted` | 1 webhook request, 1 event | violated: a paid order is granted when its events are repeated |
| `settlement_replay` | 1 batch, 1 report, 2 variables, 2 requests | violated: an item whose exceptions are all resolved has its amount |
| `chat_retry` | 3 turns, gateway | violated: a retry reuses the input its source froze |

Why the bounds are enough. The properties relate at most two actors to one row
(a stale and a current owner; a reservation and an order; a prober and a
reporter), so two executors of a kind and one job give every overlap. Two
attempts are the least with a stale one; in `ocr_staff` the second is a clerk's,
which makes the attempt limit move; in `ocr_workers` two jobs let a worker go on
to the next while the other takes over what it left. Two tasks of one
organization compete for a cap of one, the third makes a batch span two
organizations. Two months give the boundary a reservation may cross. Three
failures and three tries let a count be lost, be repeated and be given up; a
worker reports again and again because its batch goes on. Orders do not share a
row that `BillingOrders` keeps, so one is enough; two events are a payment and
its refund, or a success and a failure of one payment, and each may be delivered
again. A second id for the same fact adds nothing the repetition of an event
that was not yet processed does not: both get past the log. The theorems cover
any number of each.

A stale write takes one request that read and one that changed what it read, so
two requests meet in every way on a live task; two reports are one and the one
that supersedes it.
In `Settlements` two batches compete for the same reports, two variables of one
report let two clerks resolve one item together, and two manual items let one
addition be lost. Three turns are the least with a regeneration and the retry of
that regeneration; a conversation has one active turn, so the others are there
as what came before or as an executor that comes late. `OneLate` leaves out the
states in which two turns that others have ended still have executors at work:
such an executor reads its own turn only and writes nothing, so two do not meet;
the theorems do without the bound.

`CHECK_DEADLOCK FALSE` is set everywhere: a system whose tasks are settled, or
whose reservations are consumed in its last month, may stop.

### Findings

The three violated properties are sentences of the repository's own documents
and comments that the code does not keep; `findings` in `PROJECT.json` quotes
each.

1. A request that ends between `markOrderPaid` and `applyPaidOrder` leaves a paid
   order that no repeated event grants (`billing_granted`).
2. Two clerks who resolve the two exceptions of one item each see the other's
   still open, so neither replays the rule: the item stays at its placeholder of
   no amount and nothing is left to resolve (`settlement_replay`).
3. A retry starts with its source's frozen snapshot, and the write of the runtime
   right after the turn's creation replaces it; `prepareTurn` then freezes the
   conversation as it is now (`chat_retry`).

### What the code does not promise

A reader of the properties may expect more than holds. Nine further properties
are stated in the modules, with the behaviour that breaks each, and belong to no
run:

- `UsageReservations!HardBlock`: a billing write that read the counter before a
  reservation changed it puts the old `used_quantity` back, and the quota is
  exceeded. In histories without such a write (`FreshSpec`) the block holds:
  `FreshHardBlock`.
- `AsyncTasks!ExhaustedTaskFails`: the documents say that a task whose last lease
  expired goes to its final failure; nothing in the repository calls
  `reconcile_expired_async_tasks`, and the row stays running.
- `OcrJobs!FinalStatusKept`: a worker that lost its lease records a retryable
  failure by job id and queues a succeeded job again. While leases are kept it
  holds: `LeasedKeepsFinal`.
- `OcrJobs!SucceededIsPersisted`: a worker that stops after the finalizer leaves a
  succeeded job with a pending result for good.
- `OcrJobs!InlineLockHeld`: an inline claim sets no lease, and a worker's claim
  takes a running job without a lease.
- `ProviderBreaker!ProbeLeftToProber`: a failure decided on a closed row is counted
  on the half-open row read later and drops the prober's probe.
- `ProviderBreaker!ClosedUnderLease`: the prober's clock reading is from before its
  lease ended, its update from after.
- `LiveReports!ApprovedCompletes`: a report that was sent back and is then approved
  is approved while its task stays rejected, since the review writes the report
  before it asserts the task.
- `Settlements!LockedUntilReopened`: a confirmation or a manual total decided
  before a lock is written after it. Of calls that come one after the other
  (`AloneSpec`) it holds, and so does what `settlement_replay` finds violated:
  `AloneLeavesLocked`, `AloneReplays`.

Others are visible in the actions:

- `BillingOrders`: a paid order need not stay paid (the sweep and a late failure
  overwrite it by id), may be taken back twice (two refunds that both read it as
  paid settle one after the other), and a refund need not end (`refunding` is left
  by a success alone).
- `LiveReports`: requests that overlap may move a finished task (an anomaly
  resolved from an old reading writes the old status back), void a report that was
  approved meanwhile, or bring a voided one back to the reviewers; a lost answer
  of `enqueue_ocr_job` voids the report whose task is in review.
- `Settlements`: additions that overlap lose from the manual total; a batch is
  generated from the pool as it was read, so that a report which is no longer
  approved may be settled.
- `ChatTurns`: the turn of a dead executor stays active until someone creates
  another; the legacy runtime records no outcome, so that the last check of its
  stream always breaks the stream off; a gateway run that fails before its
  invocation exists cannot be recorded as failed and is left to its lease.

## 4. Fairness

- `AsyncTasks`: time passes; a worker polls (`ClaimSome`) and its iteration over
  a row ends (`FinalizeSome`), because `scripts/workers/*.ts` run in a loop and
  every provider call has a timeout. Nothing is assumed of the reconciliation,
  which nothing in the repository calls: a row whose last claim was lost stays
  as it is (`Stranded`), and `EveryTaskServed` says that every other task that
  nobody asked to cancel is tried until it is settled.
- `EveryTaskServed` further assumes that queues are eventually not paused.
- `OcrJobs`: a run goes on until it ends or its process dies; needed by
  `SucceededIsPersisted` alone, which fails all the same.
- `LiveReports`, `Settlements` and `ChatTurns` assume none: what they promise is
  safety, and a request may end anywhere.
- `BillingOrders`: the provider repeats an event that is not processed, and a
  request goes on until it ends; needed by `PaidIsGranted` alone, which fails
  all the same.
- `ProviderBreaker`: time passes, workers go on, batches end, and a worker does
  not die each time it is about to ask or has just found the probe free (strong
  fairness of `Ask` and `AcquireProbe`; without it no design could promise a
  probe).

Crashes, throwing calls and lapsing leases are never fair: they may always
happen and never have to.

## 5. Proofs

Every theorem holds for all values of the constants that satisfy the module's
`ASSUME`.

`AsyncTasksProofs` proves `TypeOK`, `OneOutcome`, `OrgCap`,
`OutcomeByLatestClaim` and the refinement `ImplementsLifecycle`.
`TypeOK /\ OneOutcome` is not inductive: a finalizer that repeats its call must
find that an event of *its* attempt means a settled row, and a claim held in
memory must not be newer than its row. `IInv` adds both. A step is either one
that leaves status, attempt and events as they are, a claim, a finalization or a
reconciliation (`StepLooks`), and each theorem is one case split over those. `OrgCap` needs only the types and that there are finitely
many tasks: a claim counts the organization's live leases and its own batch
together, and no other step gives anyone a lease (a renewal finds its own still
live), so the set of live leases can only shrink.

`ProviderBreakerProofs` proves `TypeOK`, `OpenedByFailures`, `ClosedByProber`,
`FailuresCounted` and the refinement `ImplementsBreaker`. `Update` writes
`closed` whenever the new count is below the threshold, whatever state it
matched; that it never closes an opened breaker follows only because an opened
breaker has counted `Threshold` failures. `IInv` is that, with: a worker at
`close` reports a success; a half-open row, and no other, has a prober and a
lease (`RowShape`); a lease that runs is ahead of every worker's reading of the
clock, since all of them are in the past (`LeaseAhead`); and a call the prober is
making is its probe (`ProberOnProbe`). `LeaseAhead` is why a worker whose reading
is old may close after its lease has ended, but nobody takes the probe while it
runs; `ProberOnProbe` is why the success that closes the breaker is that of the
probe and not of an earlier call. For the refinement each of the code's
conditional updates is one step of `CircuitBreaker` or none: the update of a
failure raises the count by one because it matches the count it was decided on,
and a worker that closes or reopens is the one the row still names.

`UsageReservationsProofs` proves `TypeOK`, `ConsumedOnce`, `CounterFollows` and
`ChargedWithinAllowance`. What is missing from these to be inductive is
`EventsMatch`: the reservation of every usage event is consumed, in that event's
month, and every consumed one has its event. The two action properties compare
the counter with the number of reservations charged to a month; each function
adds or removes one member of that set, or moves it between two counters, and
what that does to its cardinality comes from `FiniteSetTheorems`. `FreshSpec`
excludes only billing's writes of a row that changed since it was read, or whose
read failed; under it
the counter *is* that cardinality (`FreshCounter`), from which follow that a
release never finds it inconsistent (`FreshRelease`) and the hard block
(`FreshHardBlock`). So the unprotected write of `upsertUsageCounter` is the only
thing that breaks either. `LifecycleImplemented` maps the reservations to
`ReservationLifecycle` without that restriction.

`OcrJobsProofs` proves `TypeOK`, `PaidResult`, `OwnerHoldsLatest` and
`ReportLeftToStaff`. `PaidResult` alone is not inductive, since it says nothing
of a run that is about to write a result. `PaidRuns` adds what a run knows: past
the consumption its reservation is consumed; before it, a run that found nothing
to consume found it consumed already; and an answer that is being kept is
usable. Nothing ever leaves `consumed`, so each fact survives the other actors.
The parts of the invariant are tied to the parts of the state (`RunsOK`,
`ResvOK`, `ResultOK`, `JobOK`, `OtherOK`), a lemma per kind of write gives its
part, and `Together` joins them, so that each step is a short case.

The documents promise more of the lease workers than `Spec` keeps, and the
proofs say when: under `LeasedSpec`. `LeaseInv` is the strengthening: a run that
has not settled its job owns it, runs its latest attempt and holds a live lease,
alone (`LeaseExcludes`), and a row that is not queued has been tried. With it
the writes of `failOcrJobAttempt` and `cancelOcrJobForInactiveReport` by job id
meet only rows of their own attempt, so every step is one of `TaskLifecycle`
(`LeasedLifecycle`) and a succeeded job stays (`LeasedKeepsFinal`).
`ReservationRespected` is the pipeline's half of `ReservationLifecycle`: what
runs and clerks do to a reservation is what `UsageReservations` offers, so the
two modules fit although neither contains the other.

`BillingOrdersProofs` proves `TypeOK`, `GrantedOnce`, `MoneyBehind` and
`RefundBehind`. `GrantedOnce` holds because an order is pending before it is paid
and never again, so that one request alone sees it turn: `SoleGranting` says
that of an order one request at most is between `markOrderPaid` and
`applyPaidOrder`, and `HandlerInv` that nothing was granted while it is there.
The other two rest on the provider: its record only moves forward (`Grows`), so
what an event said stays true while it waits (`EventInv`), and every request
carries what it was told (`HandlerInv`, `StaffInv`). Lemmas say what a move of
one request leaves true of the others, and each action is a short proof from
them. `UnbrokenGrants` bounds the first finding: if no request ends at the two
steps between `markOrderPaid` and `applyPaidOrder`, every order that was ever
marked paid is granted or about to be, whatever else fails, overlaps or is
repeated; so that window is the only place where an order marked paid is left
without its grant. (A customer who pays an order that was cancelled is another
matter: it is never marked paid.)

`SettlementsProofs` proves `TypeOK`, `NoDoubleSettle`, `ComputedTotal`,
`GateHolds` and `ManualCovered`. What a request has read grows old, so `IInv`
says what stays true of it: a batch that was there is there (`GateInv`), a batch
that passed the gate has no open exception, since only its generation opens any,
and manual items only grow (`ManualInv`). That a report is settled once rests on
the generation being one transaction whose insert finds every earlier item; the
computed amount moves by one with the set of items that have theirs, which is
arithmetic on `Cardinality`. Under `AloneSpec` no two requests are under way at
once, though each may still end anywhere; `AloneInv` says that what the one has
read is then still so, and gives `AloneReplays` and `AloneLeavesLocked`: the
second finding and the stale confirmation come from overlap alone.

`LiveReportsProofs` proves `TypeOK`, `DecisionsReviewed`, `ReviewHasReport`,
`FinishedStays`, `SupersededHasSuccessor` and `OcrLeavesTask`. A review is never
undone and a job never taken back (`ReportsGrow`), so what a request has brought
about it can rely on, whatever overlaps: that is `ReqInv`, and the first and the
last two properties follow from it. What a request has only read it can rely on
while requests come one at a time: `CalmInv` says, for each step, what the one
request under way then still knows of the task, and `CalmsInv` that with nobody
under way a task in review has a report that waits. The assertion of a
transition (`Allowed`) is what `FinishedStays` comes down to.

`ChatTurnsProofs` proves `TypeOK`, `RowsAgree`, `ToldTruth`, `OneAnswer` and the
refinement `ImplementsConversation`. The answers rest on the shape of a
conversation, which `IInv` spells out: turns are created one after another and
only the latest is under way (`PrefixInv`, `LastInv`); a retry or regeneration
comes next after its source among the turns of the question, and the source has
ended as its kind wants (`RowInv`); every turn of a question but its last has a
successor (`NextInv`). From these, `LineIsPrior`: what a turn replaces is the
latest answer of its question, or nothing. The function `Line` walks the retries
back, so this needs an induction. The prover cannot instantiate the induction
theorems of the library, but it can use that strict subsets of finite sets are
well founded, and with an interval standing for its end that gives a least
number of any set of numbers (`LeastExists`): of the turns for which a claim
fails, the least one fails too, although all before it do not. In the refinement
the same shape gives that a turn which begins on an old question begins on its
last turn, and that the turn which completes replaces all that its question
shows, in the same step.

With these, every safety property and every refinement of the passing runs is a
theorem; the theorems about `LeasedSpec`, `FreshSpec`, `AloneSpec` and
`UnbrokenSpec` restrict only what their definitions name, and each restricted
specification is the full one with a condition on its steps. Only model-checked
are the liveness properties (`EveryTaskServed`, `Probed`), which
are out of the prover's reach.

## 6. Not modelled

- Listings, access checks, image resolution, metric parsing, wording: no state
  of the properties depends on them.
- The review of stale reservations
  (`20260731090000…`, from line 312): planned for `UsageReservations`.
- Heartbeats, stage events and read models of the runtime.
- In `OcrJobs` a worker runs one job of its batch; the jobs behind it are in
  `AsyncTasks` (`held` may hold several), and wait with a lease nobody renews.
- In `ProviderBreaker` clocks that differ between hosts, and the error code kept
  with the row.
- In `BillingOrders` the writes of `applyPaidOrder` are one step at its first
  write (`Grant`): a request that ends between two of them, and leaves an order
  granted in part, is not modelled; the run `billing_granted` shows the same window
  one await earlier. An order is offered one payment (`Offer`): the second
  `createPayment` of a checkout that is repeated for the same order is left out,
  and with it a customer who pays twice.
- In `LiveReports` the scheduling, editing and listing of tasks, the metrics of a
  report (but for the trigger that freezes its evidence) and notifications.
- In `Settlements` what a rule computes, adjustments, exports, and the authoring
  of rules.
- In `ChatTurns` the character budget and the compaction that shorten a frozen
  context, child capabilities and broker calls, clarifications, recovery
  events, gateway sessions, and the conversation's structured memory (into which
  `finish_ai_chat_turn_v3` merges a run that its owner cancelled, too).
- Everything with status `not_modelled` in `PROJECT.json`, each with its reason.

## 7. Plan

Done, in this order because the runtime carries everything else: `AsyncTasks`
with its abstraction; `UsageReservations`; `OcrJobs`; `ProviderBreaker`;
`BillingOrders`; the proofs of these five; `LiveReports`, `Settlements` and
`ChatTurns`; the proofs of these three; the abstract specifications
`ReservationLifecycle`, `CircuitBreaker` and `Conversation` with the refinements,
and what holds while leases are kept, calls do not overlap or billing writes
nothing stale.

Next, in this order:

1. Proofs: an abstract life cycle of a live task for requests that come one at a
   time (what `CalmInv` already knows, as a refinement), and of a report's money
   between batches in `Settlements`.
2. `RecordingAnalyses`: both claim paths and the writes by id; it refines
   `TaskLifecycle` for lease workers alone.
3. `WorkerLoop`: drain, pause, heartbeat in flight.
4. `ScheduledJobs`: slots, items, maintenance lease. A theorem worth proving
   there: an item of a scheduled run is done once.
5. The stale-reservation review in `UsageReservations`; offline payments in
   `BillingOrders`; the structured memory in `ChatTurns`.
