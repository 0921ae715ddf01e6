# Verification of the Usage Metering & Billing Engine

This directory holds TLA+ models of the service under `src/`, the TLC runs that
check them and the TLAPS proofs about them. `PROJECT.json` lists, for every
definition that models code, the source lines it stands for.

Contents: [1 the system](#1-the-system), [2 the models](#2-the-models),
[3 what is checked](#3-what-is-checked), [4 what is proved](#4-what-is-proved),
[5 assumptions and limits](#5-assumptions-and-limits), [6 plan](#6-plan).

## 1. The system

A FastAPI service on async SQLAlchemy and PostgreSQL. It keeps no state outside
the database. Paths below are relative to `src/`.

| component | source | state | operations | modelled by |
|---|---|---|---|---|
| usage endpoint, metering engine | `app/routers/usage.py`, `app/services/metering.py` | `usage_events`, `idempotency_records` | `POST /v1/usage` | `MeteringEngine`, promise in `UsageLedger` |
| quota enforcer | `app/services/quota.py` | none; locks rows of `subscriptions` | `check_and_reserve` | `MeteringEngine` |
| pricing calculator | `app/services/pricing.py`, rates in `app/core/config.py` | none; its result goes to `usage_events.cost_cents` | `calculate_cost_cents` | `PricingCalculator` |
| Stripe webhook handler | `app/services/stripe_webhooks.py`, `app/routers/webhooks.py` | `processed_webhooks`, `subscriptions`, `tenants.plan_type` | `POST /v1/webhooks/stripe` | `StripeWebhooks`, `StripeEvents`, promise in `BillingFeed` |
| session and pool | `app/db/session.py` | pooled connections, open transactions | check-out, commit, rollback, close | `MeteringEngine`, `StripeWebhooks`, shared in `Billing` |
| schema | `app/models/models.py`, `alembic/versions` | UNIQUE constraints, column widths | | all modules, as far as they depend on it |
| tenants endpoints | `app/routers/tenants.py` | `tenants`, a tenant's first row of `subscriptions` | `POST`, `GET /v1/tenants` | `TenantEndpoints` |
| quota status endpoint | `app/routers/quota.py` | none | `GET /v1/tenants/{id}/quota` | `TenantEndpoints` |
| entry point, schemas | `app/main.py`, `app/schemas` | none | routing, validation, error envelope | the sets of inputs |

**How they interact.** Everything meets in the database. A metering request
reads the tenant and the key's stored response, asks the quota enforcer, which
locks the tenant's ACTIVE subscription row with `SELECT ... FOR UPDATE`, sums
the period's usage and compares it with the plan's limit; then it inserts the
usage event, adds the stored response, and commits both. Webhooks write the very
subscription rows whose locks serialise the metering requests, and plan, period
and status that requests read under the lock. Signups add tenants with their
first row, and the status endpoints read all of it without locks. Nothing calls
anything else; what is shared is the tables and the connection pool.

**What is hard.**

* *Duplicates.* Two calls with one `Idempotency-Key` may both miss the fast path
  and race to the unique index; a client may time out around COMMIT and retry.
* *Check then act.* The sum, the comparison and the INSERT are separate
  statements; only the row lock keeps them together, and the row it is taken on
  is chosen by an `ORDER BY ... LIMIT 1` under READ COMMITTED, where a waiting
  statement rechecks the row it finally locks and may pass it over.
* *Two readings of the clock*, one for the period check, one for the timestamp.
* *Waiting.* Requests wait for row locks, for uncommitted keys and for pooled
  connections; rows passed over stay locked, so deadlocks are possible.
* *Webhooks* arrive twice, at once, out of order and again after a crash. Their
  handlers read rows without locks and write only the columns that differ from
  what they read. Their UPDATEs and the requests' row locks wait for each other.
* *Unlocked readers.* A quota status is put together from three statements, with
  a copy of the enforcer's query.
* *Half a signup.* Tenant and first subscription are separate statements.
* *Rounding.* Costs are floored event by event and stored in 32 bits.

`PROJECT.json` lists the hazards one by one, with the properties that cover
each. Those without one say why.

**What makes each component correct.**

* Metering: a key buys at most one event, the event and the stored response are
  both there or neither, every successful caller is shown the same event, and
  every call ends.
* Quota: what was admitted still fits at COMMIT, and a period is not oversold.
* Pricing: the sum of the costs never exceeds the cost of the sum, falls short of
  it by less than a cent per event, and fits its column.
* Webhooks: an event's id is spent in the one step that applies its event; no
  effect without the id and none twice; what is acknowledged is durable; every
  event is processed in the end; the last handler's word counts (it does not).
* Together: no period that Stripe bills is oversold, however renewals and calls
  mix, usage is billed under a subscription that is ACTIVE at COMMIT, no
  connection leaks and nobody starves.
* Tenants: a new tenant is whole and found; a quota status is never behind what
  was committed before it was asked for, and the enforcer keeps to it.

## 2. The models

| module | what it is |
|---|---|
| `MeteringEngine` | the whole of `POST /v1/usage`, concurrent requests, statement by statement |
| `UsageUnits`, `UsageUnitsProofs` | sums of quantities, and what proofs need of them |
| `UsageLedger` | what that endpoint promises its clients, without a database |
| `MeteringEngineProofs` | types, exactly-once metering and the refinement of `UsageLedger` |
| `MeteringQuotaProofs` | row locks and quota |
| `PricingCalculator`, `PricingProofs` | the cost formula and how costs accumulate |
| `StripeEvents` | the events, and what each announces about a row (no state) |
| `StripeWebhooks` | the webhook handler, concurrent deliveries, statement by statement |
| `BillingFeed` | what the handler promises the rest of the service |
| `StripeWebhooksProofs` | types, safety and the refinement of `BillingFeed` |
| `Billing` | `MeteringEngine` and `StripeWebhooks` over one table and one pool |
| `BillingProofs` | the composition implements both components; pool, locks and quota in it |
| `BillingPeriodsProofs` | what calls leave of the periods Stripe bills |
| `TenantEndpoints`, `TenantEndpointsProofs` | signup, tenant lookup and quota status; types and safety |
| `MC*` | small instances for TLC |

**State.** A table is a set of records and holds *committed* rows only. What an
open transaction has written is in the variables of its request or delivery
(`draft`, `locked`; `owner`, `loaded`, `wanted`), so that a rollback or a crash
is the loss of those variables (`EndTransaction`). `pc` says which statement
comes next. A statement that can wait in the database is an action that is
enabled when the wait is over.

**Granularity.** One action is one statement sent to the database together with
the Python that runs before the next `await`, which is where the event loop, the
other worker processes and PostgreSQL interleave.

### `MeteringEngine`

| `pc` | action | code |
|---|---|---|
| `start` | `LoadTenant` | `usage.py`: `db.get(Tenant)`, 404; takes a connection |
| `lookup` | `ReplayStored`, `CheckTenant` | step 1 of `record_usage` hits: 200 with the stored body; misses: 402 unless the tenant is ACTIVE |
| `select` | `SelectSubscription` | the snapshot of `_get_locked_active_subscription` |
| `lock` | `LockSubscription`, `SkipSubscription`, `NoSubscription` | the row is locked and rechecked; period check (402); passed over; none left (402) |
| `sum` | `SumUsage` | plan, `_sum_period_usage`, limit (429); the event is built and stamped |
| `insert` | `InsertEvent` | `flush()`: the key is free, or IntegrityError and rollback |
| `inserted` | `Commit` | stored response added, both rows published, locks released |
| `reply` | `ReplyCreated` | 201 |
| `reread` | `ReadWinner` | the winner's response, or 409 |
| any | `Fail`, `AbortDeadlocked` | process, connection or client lost, unmapped exception, pool timeout; PostgreSQL aborts a deadlock |

The environment: `Tick`; `AddSubscription` (a checkout, or a new tenant);
`ChangeSubscription` (an update or deletion, which waits for the row lock). The
period of an added row starts at any earlier reading of the clock, because the
webhook handler reads it before it commits. `Units` counts consumed units one by
one, so that the quota's sum is a cardinality and provers can reason about it;
it is the same number as SQL's `SUM(total_quantity)`.

`Backend = "sqlite"` makes `FOR UPDATE` do nothing and lets one writer in at a
time, as `session.py` configures SQLite today.

### `StripeWebhooks`

| `pc` | action | code |
|---|---|---|
| `start` | `MarkProcessedOrSkip` | INSERT of the event id, or rollback and `duplicate_ignored`; waits for a transaction that inserted the same id |
| `dispatch` | `IgnoreUnhandledType`, `LoadCustomer`, `LoadSubscription` | the three handlers' first queries and early returns |
| `plan` | `LoadPlan` | the pro plan, whatever the price id; the new row |
| `owner` | `LoadOwner` | the tenant of a deleted subscription |
| `flush_tenant`, `flush_subscription` | `FlushTenant`, `FlushSubscription` | `commit()` first flushes: UPDATE tenants, then INSERT or UPDATE subscriptions, which may break the UNIQUE `stripe_subscription_id`: rollback of everything and 500 |
| `commit` | `Commit` | id and effects become visible together |
| `reply` | `Reply` | Stripe sees 200 |
| any | `Fail`, `Redeliver` | what is uncommitted is lost; Stripe repeats what it has not seen acknowledged |

`WriteChangedColumns` is SQLAlchemy's UPDATE: it sets the columns whose value is
not the one that was loaded. Row locks are not variables, they follow from how
far each flush has got (`TenantLocked`, `SubscriptionLocked`).

### `Billing`

Two instances, `Metering` and `Hooks`, share `clock` and `subscriptions`; the
actions are theirs, each leaving the other's variables alone. The composition
adds what neither has by itself:

| added | code |
|---|---|
| `Connect`, `ReturnConnection`, `ConnectionAvailable` | deliveries take a pooled connection with their first statement, which may then wait, and give it back with COMMIT, ROLLBACK or `close()` |
| `HeldByRequest` | the UPDATE of a flush waits for a request's `FOR UPDATE` |
| `BeingUpdated` | `FOR UPDATE` waits for an uncommitted UPDATE, and then rechecks |
| `Due` | an event about a period is sent when the period begins, by Stripe's clock, which is at most `Skew` ahead |

In `MeteringEngine` a webhook is one atomic step (`AddSubscription`,
`ChangeSubscription`); here it is up to seven. `ImplementsMetering` says that
the composition still implements `MeteringEngine` under the identity mapping:
at its COMMIT a delivery adds or changes one row that no request has locked. It
is checked on an instance and proved in general (`ServiceImplementsMetering`),
so what is proved of `MeteringEngine` for every webhook holds of the service.

### `TenantEndpoints`

| `pc` | action | code |
|---|---|---|
| `start` | `CheckPlan` | `tenants.py`: the plan exists, or 422 |
| `insert` | `InsertTenant` | `flush()` of the tenant, which nobody sees; the first row is built, its period starting now |
| `commit` | `CommitSignup` | both rows are published |
| `reply` | `ReplyCreated` | `refresh()`, 201 |
| any | `Fail` | the signup is lost; after COMMIT, only its answer is |
| `start` | `LoadTenant` | either GET: 404, the tenant, or on to the subscription |
| `select` | `LoadSubscription`, `NoActiveSubscription` | the ACTIVE row with the latest end, or 404 |
| `sum` | `SumUsage` | the plan and the two sums, over the period loaded before |

The rest of the service appears as what it was shown to promise: `Webhook` is a
step of `BillingFeed`, `Meter` the COMMIT of a call the enforcer has admitted.
`Meter` leaves a period within its limit only for a tenant with a single row,
since that is all `MeteringQuotaProofs` proves (and all that is true, see
`plan_change_race`). `known` records what a reader could have known when it
started; no action reads it.

### Abstract specifications

`UsageLedger`: keys are spent once, in one step; billed events never change; the
creator is told 201, every other successful caller of the key 200 and the same
event. `MeteringEngine` implements it with `billed` and `told` read off
`usage_events` and the answers; the commit is the step `Bill`.

`BillingFeed`: tables change only in the step that spends an event's id, each id
is spent once, and the step changes only the row the event names, only columns
it announces, to announced values only. It deliberately does *not* promise that
every announced column is written: see `lost_deletion` below.

## 3. What is checked

### Runs that pass

| run (cfg) | question | instance | distinct states |
|---|---|---|---|
| `metering_retry` | Exactly-once metering: `LedgerMatchesRecords`, `OneAnswerPerKey`, `ConflictNeverAnswered`, `ImplementsLedger`; a period is never oversold (`NeverOversold`) and overrun by at most one late event (`AtMostOneLateEvent`); what the lock is for: `AdmissionSound`, `LockedRowIsCurrent` | 3 requests with every assignment of 5 calls: duplicates and a rival for the same two tokens, and the same key from another active, a suspended and an unknown tenant; subscriptions are sold meanwhile; clock 0..1, so the period ends on the way | 703 127 |
| `billing` | Metering under real webhooks: `AdmissionSound`, `TenantSerialised`, `LockedRowIsCurrent`, `NoPeriodOversold`, `CommitsStayWithinLimit`, `BilledAsSubscribed`, `ImplementsMetering` | 2 calls for one and two of two tokens; 2 deliveries of any of 5 events: a renewal, the update of the period before it, a deletion, a sale to a second tenant, an unhandled type; clock 0..2 | 883 468 |
| `billing_liveness` | `EveryCallEnds`, `EveryEventProcessed` under fairness | 2 duplicate calls, 2 deletions, 3 connections, 2 rows of one tenant, one failed delivery | 167 508 |
| `pricing` | `NeverOvercharged`, `AbsorbsLessThanACentPerEvent`, `CostWithinTokenLimit` | counters up to 2, periods up to 10 tokens, rates of up to 1 cent per token with remainders in each event | 3 267 |
| `webhook_sales` | `EveryCheckoutHasItsRow`, `ProTenantHasProRow`, `AcknowledgedIsDurable`, `ImplementsFeed` | 3 deliveries of any of 8 events (two sales of one subscription, an unknown customer, updates, two deletions, another type), one crash | 242 719 |
| `tenants` | `NewTenantIsWhole`, `CreatedIsFound`, `StatusIsRecent`, `StatusBindsEnforcement` | a signup for a plan that may not exist, a reader with any question, a second tenant, 2 usage events, a sale to the new tenant, a renewal and a deletion | 1 612 900 |

The stateful modules also have a `TypeOK`, which besides types says that primary
and unique keys stay unique, in `TenantEndpoints` that foreign keys are met, and
in `Billing` that no connection leaks from the pool.

**Why these bounds are enough.** Races here are between two transactions and
whoever comes after them. Two requests give every race for a lock or a key; in
`metering_retry` a third arrives during or after the race, sees what the winner
committed, or is a rival. In `billing` the two deliveries are the parties that
come in between. Two keys give duplicates and independent calls. Limits are
scaled to 2, so that one, two or no further request fits; what matters is the
comparison, not the numbers. `MaxClock` lets the period end, or be renewed,
between any two statements; in `billing` a period lasts two ticks, so a call can
be checked in one period and stamped in the next. In `billing_liveness` three
connections under four actors make the pool run dry, and two rows of one tenant
make requests pass over rows and deadlock; elsewhere the pool is not the limit.
Three deliveries are two events of one subscription, or one delivered twice, and
a third that interferes; one failure suffices for a lost transaction or a lost
answer. `MaxRecorded` bounds the number of zero-token events, `MaxUsage` the
number of events in `tenants`: one inside and one outside a period. There one
reader is enough, because readers change nothing, and one signup, because
signups share nothing. In `billing_liveness` no sale occurs twice; see section 5
for two.

`SYMMETRY` (requests, deliveries) is used in safety runs only. Deadlock is
checked in every run: `Quiescent` is the only way to stop, in `billing` for calls
and deliveries together.

**Fairness.** `billing_liveness` assumes weak fairness of `Request(r)` and of
`Connect(d) \/ Delivery(d)`: the event loop runs each ready coroutine, the pool
hands a free connection to a waiter, PostgreSQL grants a free row lock and a
resolved unique conflict, and its deadlock detector aborts cycles (after
`deadlock_timeout`). Connections and locks can be taken by others only as often
as there are calls and redeliveries, so strong fairness is not needed. Weak
fairness of `Redeliver(d)` is Stripe repeating events it has no 2xx for; Stripe
gives up after some days, the run bounds failures instead. No fairness is assumed
of failures, clients, Stripe's changes or the clock. `TenantEndpoints` has no
liveness property: nothing there waits.

**Mutants.** Each property has a mutated definition, marked `Mutant:` next to the
original, that breaks it: a missing UNIQUE constraint, `FOR SHARE`, a forgotten
`with_for_update()`, a commit between the two INSERTs, an early acknowledgement,
columns written unconditionally, an upward rounding, an UPDATE that ignores row
locks, a session that is not closed, a period that includes its last instant,
and so on.

### Runs that find a disagreement

| run | statement in the repository | what happens |
|---|---|---|
| `duplicate_refused` | `metering.py:18-22`: a concurrent duplicate gets the stored response "instead of double-charging or erroring" | If the winner took the last unit, the duplicate sums its own twin's event and is answered 429 although the event is billed. |
| `lapsed_period` | `quota.py:176-179`: a lapsed period is refused "rather than silently metering into a stale period" | The period ends between the check and the stamp; the event lies outside the period and is never counted in it. `AtMostOneLateEvent` bounds the damage. |
| `plan_change_race` | `quota.py:11-13`: concurrent requests of a tenant "are serialized at the database level" | A checkout adds a second ACTIVE row and leaves the first ACTIVE: requests that chose different rows hold different locks and are blind to each other. |
| `sqlite_oversell` | `test_quota_concurrency.py:23-25`: a fix "closes this at the SQLite-connection level" | `session.py` has no such function; on SQLite two requests oversell a limit of 1. |
| `lost_deletion` | `test_webhooks.py:10-11`: a deletion "marks the subscription CANCELED" | The deletion loads a row that is already CANCELED (unpaid), a concurrent update makes it ACTIVE, and the deletion, which sees no changed column, commits last and writes no status. |
| `clock_skew` | `config.py:38`: a "grace window (seconds) tolerated for clock skew on period rollovers" | Nobody reads the setting. A renewal whose period starts after the service's clock hides the usage so far, and calls are admitted that belong to the old period: it is oversold. |

## 4. What is proved

For every value of the constants: any number of requests, deliveries, tenants,
keys, rows, plans, rates. All theorems are of the form `Spec => []P`, or a
refinement.

**Exactly-once metering** (`MeteringEngineProofs`): `TypeCorrect`,
`ExactlyOnceMetering`, `ConflictIsDeadCode`, `SameAnswerForOneKey`,
`PipelineImplementsLedger`. `LedgerMatchesRecords` is not inductive by itself,
because it does not say why the row a request is about to commit is new.
`ExactlyOnceInv` adds

* `DraftInv`: from the quota check on the session holds the request's own event;
* `KeyInv`: an uncommitted INSERT is the only holder of its key, committed or
  not (this is where the UNIQUE constraint enters);
* `BilledInv`: a committed event belongs to a request past its COMMIT;
* `StoredInv`: what a request is about to answer is stored;
* `AnswerInv`: a successful answer is the stored response, 201 for its creator.

The refinement maps `Commit` to `Bill`, each answer to `Tell`, and everything
else to a stutter.

**Quota** (`MeteringQuotaProofs`), on PostgreSQL. The lock invariant is
`OwnRowsInv` (a request looks at its own tenant's rows), `HeldInv` (the row it
holds is locked by it, is the row in the table and is ACTIVE) and
`ExclusiveInv` (no two requests lock one row).

* `HeldRowStaysCurrent`: from `Backend = "postgresql"` alone.
* `TenantsAreSerialised`, `AdmissionStaysSound`: also `OneRowPerTenant`, the
  assumption `plan_change_race` shows to be necessary. A tenant that signed up
  here and buys anything breaks it: its first row has no Stripe id, so already
  the first checkout adds a second one.
* `QuotaIsNeverOversold`, `PeriodOverrunOnce`: also `Periods = {}`, rows keep
  their dates. In `MeteringEngine` an update may set any dates, and one that
  moved a period back over usage of an earlier one would break both; what
  renewals really announce is stated, and proved about, in `Billing`.

`QuotaIsNeverOversold` adds `UsageInv` (usage is finite and belongs to tenants
that have a row) and works with cardinalities of sets of units. `PeriodOverrunOnce`
adds `StampIn`: stamps are not in the future and, while a request reserves a
row, its tenant has no event after the row's end, because FOR UPDATE was granted
before the end and nobody else commits until the lock is released. From it
follows `LateInv`: a row never gets a second late event.

Both arguments need no more than that the calls of a tenant are serialised.
`StampIn(T)` and `AdmissionIn(T)` therefore speak of the tenants in a set `T`:
`SerialisedStamp` and `SerialisedAdmission` draw them for all tenants from
`[]TenantSerialised`, whatever rows the tenants have; `SoleStamp` and
`SoleAdmission` for `SoleTenants`, those with one subscription, from nothing.
`BillingPeriodsProofs` uses them in this form.

**Pricing** (`PricingProofs`): `CustomerNeverOvercharged`, `AbsorptionIsBounded`
and `CostFitsColumn`, from `MoneyInv`; floors are superadditive and lose less
than a cent each, micro-cents add up exactly. `TypeCorrect` follows from it.

**Webhooks** (`StripeWebhooksProofs`): `TypeCorrect`, `AcknowledgementIsDurable`,
`LedgerMatchesSales`, `ProTenantsBought`, `HandlerImplementsFeed`. The invariant
`WebhookInv` is

* `MarkInv`: an uncommitted id is not in the table and has one holder;
* `SessionInv`: a session holds nothing, a row to insert, or one loaded row and
  what its event makes of it;
* `OwnerInv`: the tenant in the session is the event's, and never without a row;
* `LoadedInv`: loaded rows still exist, with id, tenant and plan;
* `InsertInv`: a row inserted and not committed is the only one with its id.

The lemma `CommitEffect` draws from it the three things a commit can do to the
tables: nothing, insert the sold row, or write announced columns of one row.

**Tenants** (`TenantEndpointsProofs`): `TypeCorrect`, `TenantWhole`, `TenantFound`,
`StatusRecent`, `StatusBinds`. The three state invariants are not inductive:
that a reader never answers 404 needs the tenant's first row, which needs to know
that nobody else adds or changes it. The invariant adds

* `UsageInv`: usage is finite and a new event has a new id (sums are numbers, and
  usage known before an event does not contain it);
* `SignupInv`: before COMMIT neither the tenant nor its row exists, and the row
  that will be published is the tenant's, ACTIVE, on the plan asked for; no other
  row has that key, because a first row has no `stripe_subscription_id`;
* `ReaderInv`: what a reader was told of exists.

`StatusBinds` combines `StatusIsRecent` (shown is at most what is committed now)
with the guard of `Meter`, that is with `AdmissionStaysSound`. `WebhookChanges`
reduces a step of `BillingFeed` to: nothing, a new row, or a change of one row
the event names.

**The service** (`BillingProofs`). First each component's specification is shown
to hold of the composition; then its invariants are used there, through the
instances `Engine` and `Handler`.

* `ServiceImplementsWebhooks`: every step is a step of `StripeWebhooks` or leaves
  its variables alone. The pool and the requests' locks only add guards.
* `ServiceImplementsMetering`, the property `ImplementsMetering`. A COMMIT of a
  delivery must be a step `AddSubscription` or `ChangeSubscription` on a row that
  no request has locked. `SharedInv` supplies this: `CommitEffect` of
  `StripeWebhooksProofs` says what a COMMIT can do; `WaitInv` says that the row
  of a flushed UPDATE is locked by no request (a flush waits for locks, FOR
  UPDATE for the flush); `DatesInv` says that rows only have dates the
  environment of `MeteringEngine` may give them.
* `ServiceTypeCorrect`: `PoolInv` counts the connections of requests and
  deliveries. A delivery has one only while its transaction is open, and every
  way to end it, COMMIT, rollback, crash, gives it back.
* `ServiceLockedRowIsCurrent`, `ServiceTenantSerialised`, `ServiceAdmissionSound`
  follow through the refinement. The last two need `OneRowPerTenant`.
* `ServiceBilledAsSubscribed`: by `HeldInv` the row a request commits under is in
  the table and ACTIVE, with the plan named in the response.

**Billed periods** (`BillingPeriodsProofs`). Each admission only counts the period
its row shows at that moment, and rows move between periods as announcements
arrive late, twice or in the wrong order, one date at a time if the other did not
differ from what the handler had loaded. Two theorems say what this leaves of the
periods Stripe bills:

* `CommitsFitBilledPeriods`, the property `CommitsStayWithinLimit`, for tenants
  with any number of subscriptions, those that signed up here and then bought one
  included: as long as no two calls of a tenant are between check and COMMIT
  together (`[]TenantSerialised`, what `quota.py:11-13` says of the row lock), a
  call that commits leaves the billed period its usage falls into within the limit
  of the plan. `plan_change_race` shows how calls come to be there together when a
  second row appears; the theorem says that nothing else goes wrong then. One
  exception is part of the property (`CountedFrom`): until Stripe's first update
  a bought row has the period the handler guessed, which begins with the checkout
  and does not count what was used before it.
* `BilledPeriodsNeverOversold`, the property `NoPeriodOversold`, for the periods of
  a tenant's only subscription: none ever exceeds the limit, with no assumption on
  the calls and no exception.

Both assume `Skew = 0` (`clock_skew` refutes the second otherwise) and
`PeriodsDoNotOverlap`: rows present at the start begin at 0, and no period of a
subscription begins inside another one. Periods may have any length, an update
may carry one date only, and a row may mix the dates of two updates. The invariant,
besides the components', is

* `DueInv`: a delivery under way carries a period that has begun;
* `BegunInv`: a row's period has begun, and an event is stamped after the start of
  the period it was checked in;
* `GuessInv`: as long as the only row of a tenant has the guessed start, all the
  tenant's events lie after it (nobody without a row has usage);
* `QuotaInv`, for the second theorem: the usage of every billed period is within the
  limit.

At a COMMIT the new event may fall into another billed period than the one it was
checked in: the call was late, or the row had moved. `CoveredPeriod` says that
whatever is committed in that other period also lies in the checked one, so the
check covers it: nothing lies beyond the checked end, by `StampIn`, and
`StartsLater` shows that the other period does not begin before the checked one, for
the checked start would lie inside it. `FitsAfterCommit` concludes. No step needs
the row's end to be one Stripe announced. The instance of `billing` satisfies the
assumptions; several rows of one tenant, guesses that are corrected and periods of
different lengths, which it leaves out, are in the theorems.

**Only model-checked**: `EveryCallEnds` and `EveryEventProcessed`. Liveness under
fairness is out of the prover's reach, and so is ENABLED. All other properties of
the passing runs are theorems, with the assumptions named above. The runs that
find a disagreement are counterexamples and stay with TLC. Induction over data is
out of reach as well, hence sums as cardinalities, no RECURSIVE operators, and
totals kept as state.

## 5. Assumptions and limits

* PostgreSQL at its default READ COMMITTED: a statement sees what was committed
  when it began, locks and rechecks rows it updates; a unique violation is
  reported once the conflicting transaction has committed.
* One clock for all workers; Stripe's may be ahead of it by `Skew`, which is 0
  except in `clock_skew`.
* SQLAlchemy's flush writes tenants before subscriptions, and changed columns
  only; `expire_on_commit=False` as in `session.py`.
* The ORM's enum labels and the migration's agree. They do not (names against
  values), so the service needs its schema from `Base.metadata`; labels are not
  state and are left out.
* The assumptions on the constants are those of the modules
  (`ConstantsAssumption`, `EventsAssumption`, `WebhooksAssumption` and so on);
  `ComponentsAssumption` of `Billing` says that they hold of the composition's.
  What single theorems assume beyond that is in section 4. A tenant whose first
  row came from `POST /v1/tenants` and that buys a subscription has two rows
  (`tenants.py:36-43` gives the first no Stripe id) and is outside
  `OneRowPerTenant`; `CommitsFitBilledPeriods` is the theorem about it. A
  subscription whose billing anchor is reset, so that a period begins inside the
  one before it, is outside `PeriodsDoNotOverlap`.
* A checkout names its subscription. The handler also takes one without
  (`stripe_webhooks.py:101` reads it with `get`), as payment mode would send it; the
  row it adds has a NULL id, which UNIQUE does not bind and no update finds.
* Calls are validated: `schemas.py` answers 422 to the others. A tenant's status
  is constant, since nothing in `src/` writes it. Signature errors (400) change
  nothing.
* A tenant may be linked to a Stripe customer at any time, outside this code:
  nothing in `src/` sets `stripe_customer_id`.
* `TenantEndpoints` sees webhooks as steps of `BillingFeed` and metered calls as
  COMMITs; the connection pool is left to `Billing`.
* Not stated as properties, because no document says what should happen: the
  second checkout of one subscription, which fails with 500 at each redelivery
  for ever; a deletion that sets `plan_type` to free although another
  subscription is ACTIVE; an update that overtakes its checkout and is lost, or
  its deletion and revives the row; a lapsed period that a quota status shows as
  current; a signup that is retried after its answer was lost and makes a second
  tenant; a first row that no webhook can renew, so that its tenant is answered
  402 once thirty days are over.
* Not modelled: migrations and their DDL, logging, `/health`, the error envelope
  of `main.py`, the `Retry-After` value. None of them keeps state or decides what
  another part does.

## 6. Plan

1. Done: metering, quota, pricing, webhooks and their promises; metering and
   webhooks composed; tenants and quota status.
2. Done: every safety property of the passing runs is a theorem, those of the
   composition included.
3. Open: state in `Billing` the theorems of `MeteringEngine` and `StripeWebhooks`
   that so far are read through the two refinements (exactly-once metering, the
   sales ledger, the feed); `PeriodOverrunOnce` for rows that are renewed; an
   instance of `CommitsStayWithinLimit` with two rows of one tenant.
